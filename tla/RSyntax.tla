------------------------------ MODULE RSyntax -------------------------------
(***************************************************************************)
(* R, as far as flowR relies on it (external): how R's parser arranges the *)
(* tokens of a program in its parse data, and what the program means: the  *)
(* calls R makes of it.                                                    *)
(***************************************************************************)
EXTENDS Normalizer

Leaf(tok, txt) == Token(tok, txt, <<>>)
Expr(kids) == Token("expr", "", kids)
Word(tok) == Leaf(tok, tok)

\* The parts with the separator between them.
Joined(parts, separator) ==
    FlattenSeq([i \in DOMAIN parts |-> IF i = 1 THEN parts[i] ELSE <<separator>> \o parts[i]])

Sym(x) == Token("expr", x, <<Leaf("SYMBOL", x)>>)
Str(s) == Token("expr", "", <<Leaf("STR_CONST", s)>>)
Num(v) == Expr(<<Leaf("NUM_CONST", v)>>)
Null == Expr(<<Leaf("NULL_CONST", "NULL")>>)
BreakWord == Expr(<<Word("BREAK")>>)
NextWord == Expr(<<Word("NEXT")>>)
Comment == Word("COMMENT")

Binary(tok, op, a, b) == Expr(<<a, Leaf(tok, op), b>>)
Assign(x, e) == Binary("LEFT_ASSIGN", "<-", Sym(x), e)
SuperAssign(x, e) == Binary("LEFT_ASSIGN", "<<-", Sym(x), e)
Plus(a, b) == Binary("+", "+", a, b)
Unary(op, a) == Expr(<<Leaf(op, op), a>>)
Paren(a) == Expr(<<Word("("), a, Word(")")>>)
Block(es) == Expr(<<Word("{")>> \o es \o <<Word("}")>>)

If(c, a) == Expr(<<Word("IF"), Word("("), c, Word(")"), a>>)
IfElse(c, a, b) == Expr(<<Word("IF"), Word("("), c, Word(")"), a, Word("ELSE"), b>>)
While(c, a) == Expr(<<Word("WHILE"), Word("("), c, Word(")"), a>>)
Repeat(a) == Expr(<<Word("REPEAT"), a>>)
For(x, v, a) ==
    Expr(<<Word("FOR"),
           Token("forcond", "", <<Word("("), Leaf("SYMBOL", x), Word("IN"), v, Word(")")>>), a>>)

\* Arguments and parameters are lists of tokens: a name, a value, both or nothing.
Named(x, e) == <<Leaf("SYMBOL_SUB", x), Word("EQ_SUB"), e>>
Unset(x) == <<Leaf("SYMBOL_SUB", x), Word("EQ_SUB")>>
Formal(x) == <<Leaf("SYMBOL_FORMALS", x)>>
Default(x, e) == <<Leaf("SYMBOL_FORMALS", x), Word("EQ_FORMALS"), e>>

Applied(f, args) == Expr(<<f, Word("(")>> \o Joined(args, Word(",")) \o <<Word(")")>>)
Call(f, args) == Applied(Token("expr", f, <<Leaf("SYMBOL_FUNCTION_CALL", f)>>), args)
Function(params, body) ==
    Expr(<<Word("FUNCTION"), Word("(")>> \o Joined(params, Word(",")) \o <<Word(")"), body>>)

Index(a, args) == Expr(<<a, Word("[")>> \o Joined(args, Word(",")) \o <<Word("]")>>)
Index2(a, args) == Expr(<<a, Word("LBB")>> \o Joined(args, Word(",")) \o <<Word("]"), Word("]")>>)
Dollar(a, x) == Expr(<<a, Word("$"), Leaf("SYMBOL", x)>>)
Method(a, x, args) == Applied(Expr(<<a, Word("$"), Leaf("SYMBOL_FUNCTION_CALL", x)>>), args)
Namespaced(p, f, args) ==
    Applied(Expr(<<Leaf("SYMBOL_PACKAGE", p), Word("NS_GET"), Leaf("SYMBOL_FUNCTION_CALL", f)>>), args)

Program(tokens) == Token("exprlist", "", tokens)

-----------------------------------------------------------------------------
(* The parse data of a program: a row for each token and expression.       *)

RECURSIVE RowsOf(_, _, _, _), RowsOfAll(_, _, _, _)
\* The rows of a tree whose first token is at the place from, and whose own id is id.
RowsOf(tree, from, id, parent) ==
    LET below == RowsOfAll(tree.kids, from, id, id + 1)
    IN  [rows |-> below.rows \cup {[id |-> id, parent |-> parent, token |-> tree.tok, text |-> tree.txt,
                                    from |-> from,
                                    to |-> IF tree.kids = <<>> THEN from ELSE below.next - 1]},
         next |-> IF tree.kids = <<>> THEN from + 1 ELSE below.next,
         free |-> below.free]
RowsOfAll(trees, from, parent, id) ==
    LET Add(s, tree) == LET own == RowsOf(tree, s.next, s.free, parent) IN [own EXCEPT !.rows = @ \cup s.rows]
    IN  FoldLeft(Add, [rows |-> {}, next |-> from, free |-> id], trees)

ParseData(program) == RowsOfAll(program.kids, 1, RootId, 1).rows

-----------------------------------------------------------------------------
(* What a program means: R sees calls, and neither comments, nor          *)
(* parentheses, nor how blocks are nested in blocks. Both an AST and a     *)
(* program are brought to that form.                                       *)

\* A block of what is given, with blocks in it dissolved, and none around a single expression.
Sequenced(nodes) ==
    LET open == FlattenSeq([i \in DOMAIN nodes |->
                              IF nodes[i].t = "ExpressionList" THEN nodes[i].k ELSE <<nodes[i]>>])
    IN  IF Len(open) = 1 THEN open[1] ELSE Node("ExpressionList", "", open)

IsNoComment(node) == node.t \notin {"Comment", "LineDirective"}

RECURSIVE MeaningOfAst(_, _)
MeaningOfAst(ast, id) ==
    LET kids == [i \in DOMAIN ast[id].k |->
                   IF ast[id].k[i] = NoId THEN None ELSE MeaningOfAst(ast, ast[id].k[i])]
    IN  IF ast[id].t = "ExpressionList" THEN Sequenced(SelectSeq(kids, IsNoComment))
        ELSE Node(ast[id].t, ast[id].n, kids)

RECURSIVE Meaning(_)
MeaningOfArgument(ts) ==
    CASE Len(ts) = 0 -> None
      [] Len(ts) = 1 -> Node("Argument", "", <<None, Meaning(ts[1])>>)
      [] Len(ts) = 2 -> Node("Argument", "", <<Node("Symbol", ts[1].txt, <<>>), None>>)
      [] Len(ts) = 3 -> Node("Argument", "", <<Node("Symbol", ts[1].txt, <<>>), Meaning(ts[3])>>)
MeaningOfParameter(ts) ==
    Node("Parameter", "", <<Node("Symbol", ts[1].txt, <<>>),
                            IF Len(ts) = 1 THEN None ELSE Meaning(ts[3])>>)
MeaningOfLeaf(token) ==
    CASE token.tok = "NUM_CONST" /\ token.txt \in {"TRUE", "FALSE"} -> Node("Logical", token.txt, <<>>)
      [] token.tok = "NUM_CONST" /\ token.txt \notin {"TRUE", "FALSE", "NA"} -> Node("Number", token.txt, <<>>)
      [] token.tok = "STR_CONST" -> Node("String", token.txt, <<>>)
      [] token.tok = "BREAK" -> Node("Break", "", <<>>)
      [] token.tok = "NEXT" -> Node("Next", "", <<>>)
      [] OTHER -> Node("Symbol", token.txt, <<>>)

\* The target of an assignment may be written as a string.
MeaningOfTarget(node) == IF node.t = "String" THEN Node("Symbol", node.n, <<>>) ELSE node

MeaningOfBinary(ts) ==
    LET a == Meaning(ts[1])
        b == Meaning(ts[3])
        op == ts[2].txt
        argument(v) == Node("Argument", "", <<None, v>>)
    IN  CASE op \in {"<-", "<<-", "=", ":="} -> Node("BinaryOp", op, <<MeaningOfTarget(a), b>>)
          [] op \in {"->", "->>"}            -> Node("BinaryOp", op, <<a, MeaningOfTarget(b)>>)
          [] op = "|>"                       -> Node("Pipe", "", <<argument(a), b>>)
          [] op = "%p%"                      -> Node("FunctionCall", "named",
                                                     <<Node("Symbol", op, <<>>), argument(a), argument(b)>>)
          [] OTHER                           -> Node("BinaryOp", op, <<a, b>>)

\* What comes before the closing bracket, split at the commas.
Between(ts, first, last) == SplitArrayOn(SubSeq(ts, first, last), ",")

Meaning(token) ==
    LET ts == Others(token.kids)
        n == Len(ts)
        word == ts[1].tok
        closing == CHOOSE i \in 1..n : ts[i].tok = ")" /\ \A j \in 1..(i - 1) : ts[j].tok # ")"
        arguments(first, last) ==
            LET parts == Between(ts, first, last)
            IN  [i \in DOMAIN parts |-> MeaningOfArgument(parts[i])]
        called == ts[1].kids
        name == called[Len(called)]
    IN  CASE ts = <<>> -> MeaningOfLeaf(token)
          [] n = 1 -> Meaning(ts[1])
          [] n > 1 /\ word = "(" -> Meaning(ts[2])
          [] n > 1 /\ word = "{" ->
                LET inner == SelectSeq(ts, LAMBDA x : x.tok \notin {"{", "}", ";"})
                IN  Sequenced([i \in DOMAIN inner |-> Meaning(inner[i])])
          [] word = "IF" -> Node("IfThenElse", "",
                                 <<Meaning(ts[3]), Meaning(ts[5]), IF n = 7 THEN Meaning(ts[7]) ELSE None>>)
          [] word = "WHILE" -> Node("WhileLoop", "", <<Meaning(ts[3]), Meaning(ts[5])>>)
          [] word = "REPEAT" -> Node("RepeatLoop", "", <<Meaning(ts[2])>>)
          [] word = "FOR" ->
                LET head == Others(ts[2].kids)
                IN  Node("ForLoop", "", <<Meaning(head[2]), Meaning(head[4]), Meaning(ts[3])>>)
          [] word = "FUNCTION" ->
                LET parts == Between(ts, 3, closing - 1)
                IN  Node("FunctionDefinition", "",
                         [i \in DOMAIN parts |-> MeaningOfParameter(parts[i])] \o <<Meaning(ts[n])>>)
          [] word = "expr" /\ n > 2 /\ ts[2].tok = "(" /\ ts[n].tok = ")" ->
                (IF name.tok = "SYMBOL_FUNCTION_CALL" /\ Len(called) = 3 /\ called[2].tok = "NS_GET"
                 THEN Node("FunctionCall", "named", <<Node("Symbol", called[1].txt \o "::" \o name.txt, <<>>)>>
                                                    \o arguments(3, n - 1))
                 ELSE IF Len(called) = 1 /\ name.tok \in {"SYMBOL_FUNCTION_CALL", "STR_CONST"}
                 THEN Node("FunctionCall", "named", <<Node("Symbol", name.txt, <<>>)>> \o arguments(3, n - 1))
                 ELSE IF Len(called) = 1 /\ name.tok \in {"BREAK", "NEXT"} THEN Meaning(ts[1])
                 ELSE Node("FunctionCall", "unnamed", <<Meaning(ts[1])>> \o arguments(3, n - 1)))
          [] word = "expr" /\ n > 2 /\ ts[2].tok = "[" ->
                Node("Access", "[", <<Meaning(ts[1])>> \o arguments(3, n - 1))
          [] word = "expr" /\ n > 2 /\ ts[2].tok = "LBB" ->
                Node("Access", "[[", <<Meaning(ts[1])>> \o arguments(3, n - 2))
          [] word = "expr" /\ n = 3 /\ ts[2].tok \in {"$", "@"} ->
                Node("Access", ts[2].tok \o ts[3].txt, <<Meaning(ts[1])>>)
          [] word = "expr" /\ n = 3 /\ ts[2].tok \notin {"(", "[", "LBB", "$", "@"} -> MeaningOfBinary(ts)
          [] OTHER -> Node("UnaryOp", ts[1].txt, <<Meaning(ts[2])>>)

MeaningOfProgram(program) ==
    LET ts == SelectSeq(Others(program.kids), LAMBDA x : x.tok # ";")
    IN  Sequenced([i \in DOMAIN ts |-> Meaning(ts[i])])
=============================================================================
