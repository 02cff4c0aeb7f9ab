----------------------------- MODULE Normalizer -----------------------------
(***************************************************************************)
(* From R's parse data to the normalized AST: r-bridge/lang-4.x/ast/parser *)
(* (the table of parse data, the tree made of it, and the recursive        *)
(* descent over that tree), as pure operators.                             *)
(*                                                                         *)
(* A row of the parse data is one token or expression: its position, its   *)
(* id, the id of its parent, its token and its text. Positions stand for   *)
(* (line, column) pairs; text is a member of a small set. An exception of  *)
(* the parser is a node of type "Error", None is "undefined". Locations,   *)
(* lexemes and additional tokens are left out; hooks do nothing by default.*)
(***************************************************************************)
EXTENDS Ast, FiniteSets

Token(tok, txt, kids) == [tok |-> tok, txt |-> txt, kids |-> kids]

Error == Node("Error", "", <<>>)
Delimiter == Node("Delimiter", "", <<>>)

-----------------------------------------------------------------------------
(* json/format.ts and json/parser.ts: the table becomes a tree             *)

RootId == 0

\* The children of an entry, in the order of their positions; where two start at the same
\* place the one that ends later, the wider one, comes first.
SortedChildren(rows, id) ==
    LET below == {r \in rows : r.parent = id}
        Before(r) == {s \in below : s.from < r.from \/ (s.from = r.from /\ s.to > r.to)}
    IN  Table([i \in 1..Cardinality(below) |-> CHOOSE r \in below : Cardinality(Before(r)) = i - 1])

RECURSIVE ConvertEntry(_, _)
ConvertEntry(rows, row) ==
    LET below == SortedChildren(rows, row.id)
    IN  Token(row.token, row.text, Table([i \in DOMAIN below |-> ConvertEntry(rows, below[i])]))

\* Entries without a parent come in the order of the table, which is that of positions. A
\* parent that is not in the table (R gives comments a negative one) loses the entry.
ConvertPreparedParsedData(rows) ==
    LET top == SortedChildren(rows, RootId)
    IN  Token("exprlist", "", Table([i \in DOMAIN top |-> ConvertEntry(rows, top[i])]))

-----------------------------------------------------------------------------
(* Helpers: util/arrays.ts, meta.ts and the operator database              *)

RECURSIVE SplitOn(_, _, _)
SplitOn(tokens, separator, current) ==
    IF tokens = <<>> THEN <<current>>
    ELSE IF Head(tokens).tok = separator
         THEN <<current>> \o SplitOn(Tail(tokens), separator, <<>>)
         ELSE SplitOn(Tail(tokens), separator, Append(current, Head(tokens)))

\* Nothing splits into nothing, not into one empty part.
SplitArrayOn(tokens, separator) == IF tokens = <<>> THEN <<>> ELSE SplitOn(tokens, separator, <<>>)

Others(tokens) == SelectSeq(tokens, LAMBDA x : x.tok # "COMMENT")
Comments(tokens) == SelectSeq(tokens, LAMBDA x : x.tok = "COMMENT")
WithoutDelimiters(nodes) == SelectSeq(nodes, LAMBDA x : x # Delimiter)

FirstOf(a, b) == IF a # None THEN a ELSE b

EnsureExpressionList(node) ==
    IF node.t = "ExpressionList" THEN node ELSE Node("ExpressionList", "", <<node>>)

ArithmeticRAst == {"+", "-", "*", "/", "^", ":", "%%", "%/%", "%*%", "%o%", "%x%"}
ComparisonRAst == {"EQ", "NE", "GT", "GE", "LT", "LE"}
LogicalRAst == {"AND", "AND2", "OR", "OR2", "!", "?", "%in%"}
AssignmentsRAst == {"LEFT_ASSIGN", "RIGHT_ASSIGN", "EQ_ASSIGN"}

UnaryRAst == ArithmeticRAst \cup LogicalRAst \cup {"~"}
BinaryRAst == UnaryRAst \cup ComparisonRAst \cup AssignmentsRAst

IdentifySpecialOp(content) ==
    IF content \in ComparisonRAst \cup LogicalRAst \cup ArithmeticRAst THEN "operator" ELSE "special"

IsSymbol(tok) ==
    tok \in {"SYMBOL", "SYMBOL_PACKAGE", "SYMBOL_FUNCTION_CALL", "NULL_CONST", "STR_CONST", "SLOT"}

IsExpression(token) == token.tok \in {"expr", "expr_or_assign_or_help"}

-----------------------------------------------------------------------------
(* values, break, next, comments                                           *)

NormalizeNumber(token) ==
    CASE token.txt = "NA"               -> Node("Symbol", "NA", <<>>)
      [] token.txt \in {"TRUE", "FALSE"} -> Node("Logical", token.txt, <<>>)
      [] OTHER                          -> Node("Number", token.txt, <<>>)

NormalizeString(token) == Node("String", token.txt, <<>>)

\* One symbol, or three tokens the first of which is taken for its namespace.
TryNormalizeSymbol(tokens) ==
    IF Len(tokens) = 1 /\ IsSymbol(tokens[1].tok)
    THEN Node("Symbol", tokens[1].txt, <<>>)
    ELSE IF Len(tokens) = 3 /\ IsSymbol(tokens[3].tok)
         THEN Node("Symbol", tokens[1].txt \o "::" \o tokens[3].txt, <<>>)
         ELSE None

NormalizeComment(token) == Node("Comment", "", <<>>)
NormalizeBreak(token) == Node("Break", "", <<>>)
NormalizeNext(token) == Node("Next", "", <<>>)
NormalizeLineDirective(token) ==
    Node(IF token.txt = "malformed" THEN "Comment" ELSE "LineDirective", "", <<>>)

-----------------------------------------------------------------------------
RECURSIVE NormalizeExpression(_), NormalizeBasedOnType(_)

\* tryNormalizeSingleNode: one token, by its type.
TryNormalizeSingleNode(token) ==
    CASE token.tok \in {"(", ")", "{", "}", "IN"} -> Delimiter
      [] token.tok = "COMMENT"                     -> NormalizeComment(token)
      [] token.tok = "LINE_DIRECTIVE"              -> NormalizeLineDirective(token)
      [] IsExpression(token)                       -> NormalizeExpression(token)
      [] token.tok = "NUM_CONST"                   -> NormalizeNumber(token)
      [] token.tok = "STR_CONST"                   -> NormalizeString(token)
      [] token.tok = "BREAK"                       -> NormalizeBreak(token)
      [] token.tok = "NEXT"                        -> NormalizeNext(token)
      [] token.tok \in {"SYMBOL", "SLOT", "NULL_CONST"} -> TryNormalizeSymbol(<<token>>)
      [] OTHER                                     -> Error

\* What the tokens of a construct are, each by itself.
SingleNodes(ts) == [i \in DOMAIN ts |-> TryNormalizeSingleNode(ts[i])]

\* A part of a construct that must be there, and one that becomes an expression list.
Required(node) == IF node = Delimiter THEN Error ELSE node
Body(node) == EnsureExpressionList(Required(node))

(* Of a construct with the tokens ts, single has each of them by itself.   *)

(* operators *)

TryNormalizeUnary(ts, single) ==
    IF ts[1].tok \in UnaryRAst
    THEN Node("UnaryOp", ts[1].txt, <<Required(single[2])>>)
    ELSE None

\* A string that is assigned to is the symbol of that name.
ProcessLhsAndRhsForAssignment(op, lhs, rhs) ==
    LET ToSymbol(node) == IF node.t = "String" THEN Node("Symbol", node.n, <<>>) ELSE node
    IN  IF op \in {"->", "->>"} THEN <<lhs, ToSymbol(rhs)>> ELSE <<ToSymbol(lhs), rhs>>

UnnamedArgument(value) == Node("Argument", "", <<None, value>>)

\* parseBinaryOp: special operators that are not known are calls.
ParseBinaryOp(operator, lhs, rhs) ==
    LET special == operator.tok = "SPECIAL"
    IN  CASE special /\ IdentifySpecialOp(operator.txt) = "special" ->
                Node("FunctionCall", "named",
                     <<Node("Symbol", operator.txt, <<>>), UnnamedArgument(lhs), UnnamedArgument(rhs)>>)
          [] special \/ operator.tok \in BinaryRAst \ AssignmentsRAst ->
                Node("BinaryOp", operator.txt, <<lhs, rhs>>)
          [] operator.tok \in AssignmentsRAst ->
                Node("BinaryOp", operator.txt, ProcessLhsAndRhsForAssignment(operator.txt, lhs, rhs))
          [] operator.tok = "PIPE" ->
                Node("Pipe", "", <<UnnamedArgument(lhs), rhs>>)
          [] OTHER -> None

TryNormalizeBinary(ts, single) == ParseBinaryOp(ts[2], Required(single[1]), Required(single[3]))

(* control and loops *)

TryNormalizeIfThen(ts, single) ==
    CASE ts[1].tok # "IF" -> None
      [] ts[1].tok = "IF" /\ (ts[2].tok # "(" \/ ts[4].tok # ")") -> Error
      [] OTHER -> Node("IfThenElse", "", <<Required(single[3]), Body(single[5]), None>>)

WithElse(ts, ifThen, otherwise) ==
    CASE ifThen = None      -> None
      [] ifThen # None /\ ts[6].tok # "ELSE" -> Error
      [] OTHER -> [ifThen EXCEPT !.k[3] = otherwise]

\* A variant: the branch after else is taken for that after the condition.
TryNormalizeIfThenElseTwice(ts, single) ==
    WithElse(ts, TryNormalizeIfThen(ts, single), Body(single[5]))

TryNormalizeIfThenElse(ts, single) ==
    WithElse(ts, TryNormalizeIfThen(ts, single), Body(single[7]))

TryNormalizeRepeat(ts, single) ==
    IF ts[1].tok # "REPEAT" THEN None ELSE Node("RepeatLoop", "", <<Body(single[2])>>)

TryNormalizeWhile(ts, single) ==
    CASE ts[1].tok # "WHILE" -> None
      [] ts[1].tok = "WHILE" /\ (ts[2].tok # "(" \/ ts[4].tok # ")") -> Error
      [] OTHER -> Node("WhileLoop", "", <<Required(single[3]), Body(single[5])>>)

\* The head of a for-loop: what stands before and after the word in.
NormalizeForHead(head) ==
    LET others == Others(head.kids)
        places == {i \in DOMAIN others : others[i].tok = "IN"}
        in == CHOOSE i \in places : \A j \in places : i =< j
        Single(nodes) == IF Len(nodes) = 1 THEN Required(nodes[1]) ELSE Error
    IN  IF places = {} \/ in = 1 \/ in = Len(others) THEN <<Error, Error>>
        ELSE <<TryNormalizeSymbol(<<others[in - 1]>>), Single(NormalizeBasedOnType(<<others[in + 1]>>))>>

TryNormalizeFor(ts, single) ==
    CASE ts[1].tok # "FOR" -> None
      [] ts[1].tok = "FOR" /\ (ts[2].tok # "forcond" \/ ~IsExpression(ts[3])) -> Error
      [] OTHER -> Node("ForLoop", "", NormalizeForHead(ts[2]) \o <<Body(single[3])>>)

(* calls, accesses, definitions *)

\* [expr], [SYMBOL_SUB, EQ_SUB] or [SYMBOL_SUB, EQ_SUB, expr]; anything else is undefined.
TryToNormalizeArgument(ts) ==
    LET value(i) == IF i = 2 THEN None ELSE Required(SingleNodes(ts)[i])
    IN  CASE Len(ts) \notin 1..3     -> None
          [] Len(ts) \in 1..3 /\ ts[1].tok = "expr" ->
                Node("Argument", "", <<None, value(1)>>)
          [] Len(ts) \in 1..3 /\ ts[1].tok \in {"SYMBOL_SUB", "STR_CONST"} ->
                IF Len(ts) = 1 \/ ts[2].tok # "EQ_SUB" THEN Error
                ELSE Node("Argument", "", <<Node("Symbol", ts[1].txt, <<>>), value(Len(ts))>>)
          [] OTHER -> None

ParseArguments(ts) ==
    LET parts == SplitArrayOn(SubSeq(ts, 3, Len(ts) - 1), ",")
    IN  Table([i \in DOMAIN parts |-> TryToNormalizeArgument(parts[i])])

\* break() and next() are break and next.
TryParseUnnamedFunctionCall(called, arguments) ==
    IF arguments = <<>> /\ called.t \in {"Next", "Break"} THEN called
    ELSE Node("FunctionCall", "unnamed", <<called>> \o arguments)

ParseNamedFunctionCall(symbol, arguments) ==
    LET name == IF Len(symbol) = 1 /\ symbol[1].tok = "STR_CONST"
                THEN Node("Symbol", symbol[1].txt, <<>>)
                ELSE TryNormalizeSymbol(symbol)
    IN  IF name.t # "Symbol" THEN Error
        ELSE Node("FunctionCall", "named", <<name>> \o arguments)

TryNormalizeFunctionCall(ts) ==
    LET symbol == ts[1].kids
        IsNamed == \/ Len(symbol) = 1 /\ symbol[1].tok = "STR_CONST"
                   \/ \E i \in DOMAIN symbol : symbol[i].tok = "SYMBOL_FUNCTION_CALL"
        Parse(arguments) == IF IsNamed THEN ParseNamedFunctionCall(symbol, arguments)
                            ELSE TryParseUnnamedFunctionCall(NormalizeExpression(ts[1]), arguments)
    IN  CASE ~IsExpression(ts[1]) -> None
          [] IsExpression(ts[1]) /\ (Len(ts) < 3 \/ ts[2].tok # "(" \/ ts[Len(ts)].tok # ")") -> None
          [] OTHER -> Parse(ParseArguments(ts))

AccessOperators == {"[", "$", "@", "LBB"}

\* For $ and @ the access is the name of a field, kept in n; else it is a list of arguments.
TryNormalizeAccess(ts) ==
    LET op == ts[2].tok
        closing == CASE op = "[" -> 1 [] op = "LBB" -> 2 [] OTHER -> 0
        parts == SplitArrayOn(SubSeq(ts, 3, Len(ts) - closing), ",")
        Index(part) == IF part = <<>> THEN None ELSE FirstOf(TryToNormalizeArgument(part), Error)
        Field(accessed, field) ==
            IF field.t \in {"Symbol", "String", "Logical"} THEN Node("Access", op \o field.n, accessed) ELSE Error
        Access(accessed) ==
            IF op \in {"$", "@"}
            THEN IF Len(parts) = 1 THEN Field(accessed, NormalizeBasedOnType(parts[1])[1]) ELSE Error
            ELSE Node("Access", IF op = "[" THEN "[" ELSE "[[",
                      accessed \o [i \in DOMAIN parts |-> Index(parts[i])])
    IN  CASE Len(ts) < 3 -> None
          [] Len(ts) >= 3 /\ (op \notin AccessOperators \/ ~IsExpression(ts[1])) -> None
          [] OTHER -> Access(NormalizeBasedOnType(<<ts[1]>>))

TryNormalizeParameter(ts) ==
    LET name == Node("Symbol", ts[1].txt, <<>>)
    IN  CASE Len(ts) \notin {1, 3} -> None
          [] Len(ts) \in {1, 3} /\ ts[1].tok # "SYMBOL_FORMALS" -> None
          [] Len(ts) = 3 /\ (ts[2].tok # "EQ_FORMALS" \/ ts[3].tok # "expr") -> Error
          [] OTHER -> Node("Parameter", "",
                           <<name, IF Len(ts) = 1 THEN None ELSE TryNormalizeSingleNode(ts[3])>>)

TryNormalizeFunctionDefinition(ts) ==
    LET closings == {i \in DOMAIN ts : ts[i].tok = ")"}
        closing == CHOOSE i \in closings : \A j \in closings : i =< j
        parts == SplitArrayOn(SubSeq(ts, 3, closing - 1), ",")
        Definition(parameters, rest, body) ==
            IF \E i \in DOMAIN parameters : parameters[i] = None THEN None
            ELSE IF Len(rest) # 1 \/ Len(body) # 1 THEN Error
            ELSE Node("FunctionDefinition", "", parameters \o <<EnsureExpressionList(body[1])>>)
        After(rest) == Definition(Table([i \in DOMAIN parts |-> TryNormalizeParameter(parts[i])]),
                                  rest, NormalizeBasedOnType(rest))
    IN  CASE ts[1].tok \notin {"FUNCTION", "LAMBDA"} -> None
          [] ts[1].tok \in {"FUNCTION", "LAMBDA"} /\ (ts[2].tok # "(" \/ closings = {}) -> Error
          [] OTHER -> After(SubSeq(ts, closing + 1, Len(ts)))

-----------------------------------------------------------------------------
(* structure/elements.ts: which construct a list of tokens is, by its length *)

Construct(ts, single) ==
    CASE Len(ts) = 1 -> single[1]
      [] Len(ts) = 2 -> FirstOf(TryNormalizeUnary(ts, single), TryNormalizeRepeat(ts, single))
      [] Len(ts) = 3 -> FirstOf(FirstOf(TryNormalizeBinary(ts, single), TryNormalizeFor(ts, single)),
                                TryNormalizeSymbol(ts))
      [] Len(ts) = 5 -> FirstOf(TryNormalizeIfThen(ts, single), TryNormalizeWhile(ts, single))
      [] Len(ts) = 7 -> TryNormalizeIfThenElse(ts, single)
      [] OTHER -> None

NormalizeMappedWithoutSemicolon(ts) ==
    LET Of(construct, single) == IF construct # None THEN <<construct>> ELSE Table(single)
        Mapped(single) == Of(Construct(ts, single), single)
    IN  Mapped(SingleNodes(ts))

\* What stands between two semicolons: an expression list gives its children away.
Flattened(nodes) ==
    IF Len(nodes) = 1 /\ nodes[1].t = "ExpressionList" THEN nodes[1].k ELSE nodes

\* Comments are hoisted to the front.
NormalizeBasedOnType(ts) ==
    LET parts == SplitArrayOn(ts, ";")
        comments == Comments(ts)
    IN  CASE ts = <<>> -> <<>>
          [] Len(parts) > 1 -> FlattenSeq(Table([i \in DOMAIN parts |-> Flattened(NormalizeBasedOnType(parts[i]))]))
          [] OTHER -> [i \in DOMAIN comments |-> NormalizeComment(comments[i])]
                      \o NormalizeMappedWithoutSemicolon(Others(ts))

\* normalizeExpression: a call, an access or a definition; else what its tokens are, in a list
\* of its own unless it is a single node.
NormalizeExpression(token) ==
    LET Special(ts) == FirstOf(TryNormalizeFunctionCall(ts),
                               FirstOf(TryNormalizeAccess(ts), TryNormalizeFunctionDefinition(ts)))
        Listed(nodes) == IF Len(nodes) = 1 THEN nodes[1] ELSE Node("ExpressionList", "", nodes)
    IN  FirstOf(Special(Others(token.kids)), Listed(WithoutDelimiters(NormalizeBasedOnType(token.kids))))

ParseRootObjToAst(root) ==
    Node("ExpressionList", "", WithoutDelimiters(NormalizeBasedOnType(root.kids)))

\* normalize: parse data to decorated AST.
Normalize(rows) == DecorateAst(ParseRootObjToAst(ConvertPreparedParsedData(rows)))
=============================================================================
