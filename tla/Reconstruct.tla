---------------------------- MODULE Reconstruct -----------------------------
(***************************************************************************)
(* Reconstruction (reconstruct/{reconstruct,helper,main}.ts): a slice, a   *)
(* selection of nodes of the normalized AST, is turned into R code again.  *)
(*                                                                         *)
(* A program p is what the normalizer made of a file:                      *)
(*   ast    : the decorated AST (Ast), where children come before parents; *)
(*   info   : for each node, where it is: at (the token its location       *)
(*            starts with), from and to (its full lexeme, or its lexeme),  *)
(*            add (its additionalTokens), head (the token its header ends  *)
(*            with), els (its `else`) and infix (infixSpecial);            *)
(*   tokens : for each token its text and where it starts.                 *)
(* A piece of text is the sequence of its tokens: white space and          *)
(* indentation are left out. Tokens below zero are text the source need    *)
(* not have.                                                               *)
(*                                                                         *)
(* Code is a sequence of lines, a line a sequence of parts, a part a text  *)
(* with the place where it is to be.                                       *)
(***************************************************************************)
EXTENDS Ast

Braces == -1
Open == -2
Close == -3
CallBraces == -4
NoToken == 0

Part(line, col, toks) == [line |-> line, col |-> col, toks |-> toks]

\* The outcome of a handler that throws.
Thrown == << <<Part(0, 0, <<>>)>> >>

TokenText(p, token) ==
    CASE token = Open -> "(" [] token = Close -> ")" [] token < 0 -> "" [] OTHER -> p.tokens[token].text
Line(p, token) == p.tokens[token].line
Col(p, token) == p.tokens[token].col

\* The tokens from one to another.
Text(first, last) == Table([i \in 1..(last - first + 1) |-> first + i - 1])
getLexeme(p, id) == Text(p.info[id].from, p.info[id].to)

-----------------------------------------------------------------------------
(* helper.ts                                                               *)

\* The members of a set of numbers above zero, in their order.
Ascending(S) == SelectSeq(Table([i \in 1..Max({0} \cup S) |-> i]), LAMBDA i : i \in S)

\* One line, that has a part for each line of the text, all in the same column.
PartsAt(p, toks, line, col, rows) ==
    Table([i \in DOMAIN rows |->
              Part(line + rows[i] - rows[1], col, SelectSeq(toks, LAMBDA t : Line(p, t) = rows[i]))])
PlainAt(p, toks, line, col) ==
    << PartsAt(p, toks, line, col, Ascending({Line(p, toks[i]) : i \in DOMAIN toks})) >>

plain(p, toks, token) == PlainAt(p, toks, Line(p, token), Col(p, token))

\* The parts in the order of their columns; those of the same column stay in their order.
Sorted(parts) ==
    LET InColumns(cols) == FlattenSeq(Table([i \in DOMAIN cols |-> SelectSeq(parts, LAMBDA x : x.col = cols[i])]))
    IN  InColumns(Ascending({parts[i].col : i \in DOMAIN parts}))

\* A variant: the lines come in the order in which there first is something on them.
MergeAsTheyCome(snipbits) ==
    LET parts == FlattenSeq(FlattenSeq(snipbits))
        New(i) == \A j \in 1..(i - 1) : parts[j].line # parts[i].line
        rows == Table([i \in DOMAIN parts |-> IF New(i) THEN <<parts[i].line>> ELSE <<>>])
        lines == FlattenSeq(rows)
    IN  Table([i \in DOMAIN lines |-> Sorted(SelectSeq(parts, LAMBDA x : x.line = lines[i]))])

\* The parts of all pieces, line by line.
OnLines(parts, rows) ==
    Table([i \in DOMAIN rows |-> Sorted(SelectSeq(parts, LAMBDA x : x.line = rows[i]))])
MergeParts(parts) == OnLines(parts, Ascending({parts[i].line : i \in DOMAIN parts}))
merge(snipbits) == MergeParts(FlattenSeq(FlattenSeq(snipbits)))

PartsToText(line) ==
    LET parts == Sorted(line) IN FlattenSeq([i \in DOMAIN parts |-> parts[i].toks])
prettyPrintCodeToString(code) ==
    LET lines == merge(<<code>>) IN FlattenSeq([i \in DOMAIN lines |-> PartsToText(lines[i])])

LibraryCalls == {"library", "require", "requireNamespace", "loadNamespace", "attachNamespace"}

autoSelectLibrary(p, id) ==
    /\ p.ast[id].t = "FunctionCall"
    /\ p.ast[id].n = "named"
    /\ p.ast[p.ast[id].k[1]].n \in LibraryCalls

isSelected(p, s, id) == id \in s \/ autoSelectLibrary(p, id)

IsText(p, part, text) == Len(part.toks) = 1 /\ TokenText(p, part.toks[1]) = text

\* A block around everything is taken away: from a single line its first and last part, from
\* several lines the first and the last of them.
removeOuterExpressionListIfApplicable(p, code) ==
    IF code # <<>> /\ IsText(p, code[1][1], "{") /\ IsText(p, Last(Last(code)), "}")
    THEN IF Len(code) = 1 THEN << SubSeq(code[1], 2, Len(code[1]) - 1) >> ELSE Tail(Front(code))
    ELSE code

-----------------------------------------------------------------------------
(* The folds of reconstruct.ts. c is the code of the children.             *)

foldToConst(p, id) == plain(p, getLexeme(p, id), p.info[id].at)

reconstructAdditionalTokens(p, id) ==
    Table([i \in DOMAIN p.info[id].add |-> plain(p, <<p.info[id].add[i]>>, p.info[id].add[i])])

NotEmpty(codes) == SelectSeq(codes, LAMBDA x : x # <<>>)
AllEmpty(codes) == NotEmpty(codes) = <<>>

\* A part of its own line.
Single(p, toks, token) == << <<Part(Line(p, token), Col(p, token), toks)>> >>

\* From a keyword to the end of what follows it in parentheses.
Header(p, id) == Single(p, Text(p.info[id].at, p.info[id].head), p.info[id].at)

\* A text at so many columns from the start of the last part of the code.
AfterLast(code, toks, columns) ==
    LET part == Last(Last(code)) IN << <<Part(part.line, part.col + columns, toks)>> >>

reconstructAsLeaf(p, s, id) == IF isSelected(p, s, id) THEN foldToConst(p, id) ELSE <<>>

reconstructExpressionList(p, s, id, c) ==
    CASE isSelected(p, s, id) -> foldToConst(p, id)
      [] ~isSelected(p, s, id) /\ AllEmpty(c) -> <<>>
      [] OTHER -> merge(NotEmpty(c) \o reconstructAdditionalTokens(p, id))

reconstructRawBinaryOperator(op, lhs, rhs) ==
    LET place == Last(Last(lhs))
        text == prettyPrintCodeToString(<<Last(lhs)>>) \o <<op>> \o prettyPrintCodeToString(<<rhs[1]>>)
    IN  Front(lhs) \o << <<Part(place.line, place.col, text)>> >> \o Tail(rhs)

reconstructUnaryOp(p, s, id, c) ==
    IF id \in s \/ c[1] # <<>> THEN foldToConst(p, id) ELSE <<>>

\* A variant: where only the left operand is kept, it is all that is printed.
BinaryOpOfOneSide(p, s, id, c) ==
    LET lhs == p.ast[id].k[1]
    IN  CASE isSelected(p, s, id) -> plain(p, getLexeme(p, id), p.info[lhs].at)
          [] ~isSelected(p, s, id) /\ c[1] = <<>> -> c[2]
          [] ~isSelected(p, s, id) /\ c[2] = <<>> -> <<>>
          [] OTHER -> reconstructRawBinaryOperator(p.info[id].at, c[1], c[2])

reconstructBinaryOp(p, s, id, c) ==
    LET whole == plain(p, getLexeme(p, id), p.info[p.ast[id].k[1]].at)
    IN  CASE isSelected(p, s, id) -> whole
          [] ~isSelected(p, s, id) /\ c[1] = <<>> -> c[2]
          [] ~isSelected(p, s, id) /\ c[1] # <<>> /\ c[2] = <<>> -> whole
          [] OTHER -> reconstructRawBinaryOperator(p.info[id].at, c[1], c[2])

\* shift: by how many columns the vector's location has been moved to the left, this time included.
reconstructForLoop(p, s, id, c, shift) ==
    LET k == p.ast[id].k
        vector == PlainAt(p, getLexeme(p, k[2]), Line(p, p.info[k[2]].at), Col(p, p.info[k[2]].at) - shift)
        out == merge(<<Single(p, <<p.info[id].at>>, p.info[id].at),
                       Single(p, getLexeme(p, k[1]), p.info[k[1]].at),
                       vector>> \o reconstructAdditionalTokens(p, id))
    IN  CASE isSelected(p, s, id) -> foldToConst(p, id)
          [] ~isSelected(p, s, id) /\ isSelected(p, s, k[3]) -> merge(<<c[3]>>)
          [] OTHER -> IF AllEmpty(c) THEN <<>>
                      ELSE IF c[3] = <<>> THEN out \o AfterLast(out, <<Braces>>, 2)
                      ELSE merge(<<out \o c[3]>>)

reconstructRepeatLoop(p, s, id, c) ==
    CASE isSelected(p, s, id) -> foldToConst(p, id)
      [] ~isSelected(p, s, id) /\ c[1] = <<>> -> <<>>
      [] OTHER -> merge(<<Single(p, <<p.info[id].at>>, p.info[id].at), c[1]>>
                        \o reconstructAdditionalTokens(p, id))

\* An else branch whose first line has two parts is left out.
reconstructIfThenElse(p, s, id, c) ==
    LET out == merge(reconstructAdditionalTokens(p, id) \o <<Header(p, id), c[2]>>)
    IN  CASE isSelected(p, s, id) -> foldToConst(p, id)
          [] ~isSelected(p, s, id) /\ AllEmpty(c) -> <<>>
          [] OTHER -> IF c[3] = <<>> THEN Thrown
                      ELSE IF Len(c[3][1]) = 2 THEN out
                      ELSE merge(<<out, AfterLast(out, <<p.info[id].els>>, 2), c[3]>>)

\* A variant: nothing stands for a body of which nothing is kept.
WhileLoopWithoutBraces(p, s, id, c) ==
    IF isSelected(p, s, id) THEN foldToConst(p, id)
    ELSE merge(<<merge(<<Header(p, id)>> \o reconstructAdditionalTokens(p, id)) \o c[2]>>)

\* The width of a text, with a space between its tokens.
Width(p, toks) == Col(p, Last(toks)) - Col(p, toks[1]) + 1

reconstructWhileLoop(p, s, id, c) ==
    LET out == merge(<<Header(p, id)>> \o reconstructAdditionalTokens(p, id))
        last == Last(Last(out)).toks
    IN  IF isSelected(p, s, id) THEN foldToConst(p, id)
        ELSE merge(<<out \o (IF c[2] = <<>> THEN AfterLast(out, <<Braces>>, Width(p, last) + 1) ELSE c[2])>>)

reconstructFoldAccess(p, s, id, c) ==
    IF isSelected(p, s, id) \/ c[1] # <<>> THEN plain(p, getLexeme(p, id), p.info[id].from)
    ELSE FlattenSeq(Tail(c))

\* The text of `name=value`.
NameAndValue(p, name, value) == getLexeme(p, name) \o
    (IF value = NoId THEN <<p.info[name].to + 1>> ELSE Text(p.info[name].to + 1, p.info[value].to))

reconstructArgument(p, s, id, c) ==
    LET name == p.ast[id].k[1]
    IN  CASE isSelected(p, s, id) -> foldToConst(p, id)
          [] ~isSelected(p, s, id) /\ c[1] # <<>> -> plain(p, NameAndValue(p, name, p.ast[id].k[2]), p.info[id].at)
          [] OTHER -> c[2]

reconstructParameter(p, s, id, c) ==
    LET name == p.ast[id].k[1]
        value == p.ast[id].k[2]
    IN  CASE isSelected(p, s, id) -> foldToConst(p, id)
          [] ~isSelected(p, s, id) /\ value = NoId -> c[1]
          [] OTHER -> IF c[1] = <<>> THEN plain(p, getLexeme(p, value), p.info[id].at)
                      ELSE plain(p, NameAndValue(p, name, value), p.info[id].at)

reconstructFunctionDefinition(p, s, id, c) ==
    LET body == Last(c)
        whole == merge(<<body>>)
    IN  CASE ~isSelected(p, s, id) /\ AllEmpty(Front(c)) -> whole
          [] (isSelected(p, s, id) \/ ~AllEmpty(Front(c))) /\ isSelected(p, s, Last(p.ast[id].k)) ->
                (IF IsText(p, Last(Last(whole)), ";") THEN Front(whole) ELSE whole)
          [] OTHER -> merge(<<Header(p, id), body>> \o reconstructAdditionalTokens(p, id))

\* Whether the call itself is selected makes no difference.
reconstructSpecialInfixFunctionCall(p, id, c) ==
    LET op == p.info[id].at
        TextOf(code) == FlattenSeq([i \in DOMAIN code |-> PartsToText(code[i])])
        Both(lhs, rhs) == Single(p, lhs \o <<op>> \o rhs, op)
        k == p.ast[id].k
    IN  CASE c[2] = <<>> /\ c[3] = <<>>  -> <<>>
          [] c[2] # <<>> /\ c[3] # <<>>  -> Both(TextOf(c[2]), TextOf(c[3]))
          [] c[2] # <<>> /\ c[3] = <<>>  -> Single(p, TextOf(c[2]), op)
          [] c[2] = <<>> /\ c[3] # <<>>  -> Both(getLexeme(p, k[2]), getLexeme(p, k[3]))

EndsWith(p, toks, texts) ==
    /\ Len(toks) >= Len(texts)
    /\ \A i \in DOMAIN texts : TokenText(p, toks[Len(toks) - Len(texts) + i]) = texts[i]

\* A call without arguments, of what is printed like this.
CallWithoutArguments(p, id, name) ==
    LET Ends(line, texts) == EndsWith(p, Last(line).toks, texts)
        wrapped == IF p.ast[id].n = "unnamed" /\ ~Ends(name[1], <<")">>)
                   THEN [name[1] EXCEPT ![1].toks = <<Open>> \o @ \o <<Close>>] ELSE name[1]
    IN  IF Len(name) # 1 THEN Thrown
        ELSE IF Ends(wrapped, <<"(", ")">>) THEN <<wrapped>>
        ELSE << [wrapped EXCEPT ![Len(wrapped)].toks = Append(@, CallBraces)] >>

reconstructFunctionCall(p, s, id, c) ==
    LET own == p.ast[id].n = "named" /\ isSelected(p, s, id)
    IN  CASE p.info[id].infix -> reconstructSpecialInfixFunctionCall(p, id, c)
          [] ~p.info[id].infix /\ own -> foldToConst(p, id)
          [] ~p.info[id].infix /\ ~own /\ AllEmpty(c) -> <<>>
          [] OTHER -> IF Len(c) = 1 THEN CallWithoutArguments(p, id, c[1]) ELSE foldToConst(p, id)

-----------------------------------------------------------------------------
(* main.ts: the fold over the whole AST. shift gives for each loop by how  *)
(* many columns the location of its vector has been moved before.          *)

reconstructAstFolds(p, s, shift, id, c) ==
    LET t == p.ast[id].t
    IN  CASE t \in Leaves -> reconstructAsLeaf(p, s, id)
          [] t = "ExpressionList" -> reconstructExpressionList(p, s, id, c)
          [] t \in {"BinaryOp", "Pipe"} -> reconstructBinaryOp(p, s, id, c)
          [] t = "UnaryOp" -> reconstructUnaryOp(p, s, id, c)
          [] t = "ForLoop" -> reconstructForLoop(p, s, id, c, shift[id] + 1)
          [] t = "RepeatLoop" -> reconstructRepeatLoop(p, s, id, c)
          [] t = "WhileLoop" -> reconstructWhileLoop(p, s, id, c)
          [] t = "IfThenElse" -> reconstructIfThenElse(p, s, id, c)
          [] t = "Access" -> reconstructFoldAccess(p, s, id, c)
          [] t = "Argument" -> reconstructArgument(p, s, id, c)
          [] t = "Parameter" -> reconstructParameter(p, s, id, c)
          [] t = "FunctionDefinition" -> reconstructFunctionDefinition(p, s, id, c)
          [] t = "FunctionCall" -> reconstructFunctionCall(p, s, id, c)

\* The code of every node. What is missing has none.
CodesOf(p, s, shift) ==
    FoldLeft(LAMBDA codes, id :
                 Append(codes, reconstructAstFolds(p, s, shift, id,
                     Table([i \in DOMAIN p.ast[id].k |->
                               IF p.ast[id].k[i] = NoId THEN <<>> ELSE codes[p.ast[id].k[i]]]))),
             <<>>, Table([i \in DOMAIN p.ast |-> i]))

ThrowsAt(codes) == {id \in DOMAIN codes : codes[id] = Thrown}
Throws(codes) == ThrowsAt(codes) # {}

reconstructToCode(p, codes) ==
    prettyPrintCodeToString(removeOuterExpressionListIfApplicable(p, Last(codes)))

\* The loops whose vector's location, which the AST keeps, is moved by one column: those that the
\* fold reaches and that are not printed as a whole, nor as their body.
Moving(p, s, codes) ==
    {id \in DOMAIN p.ast : /\ p.ast[id].t = "ForLoop"
                           /\ ~isSelected(p, s, id)
                           /\ ~isSelected(p, s, p.ast[id].k[3])
                           /\ \A x \in ThrowsAt(codes) : id < x}

-----------------------------------------------------------------------------
(* The AST is reconstructed again and again: SteppingSlicer.updateCriterion *)
(* keeps it and drops the result.                                          *)

CONSTANTS
    Programs,   \* the programs
    Rounds      \* a bound: how often the vector of a loop is moved

VARIABLES
    program,    \* the program
    shift,      \* how far the location of each loop's vector has been moved
    selection,  \* the slice that was reconstructed
    output,     \* its code, or NoOutput
    thrown      \* the reconstruction threw

vars == <<program, shift, selection, output, thrown>>

NoOutput == <<NoToken>>

Init ==
    /\ program \in Programs
    /\ shift = [id \in DOMAIN program.ast |-> 0]
    /\ selection = {}
    /\ output = NoOutput
    /\ thrown = FALSE

ReconstructInto(s, codes) ==
    LET moving == Moving(program, s, codes)
    IN  /\ output = NoOutput /\ ~thrown
        /\ \A id \in moving : shift[id] < Rounds
        /\ selection' = s
        /\ thrown' = Throws(codes)
        /\ output' = IF thrown' THEN NoOutput ELSE reconstructToCode(program, codes)
        /\ shift' = Table([id \in DOMAIN shift |-> IF id \in moving THEN shift[id] + 1 ELSE shift[id]])
        /\ UNCHANGED program

ReconstructStep(s) == ReconstructInto(s, CodesOf(program, s, shift))

updateCriterion ==
    /\ output # NoOutput \/ thrown
    /\ selection' = {}
    /\ output' = NoOutput
    /\ thrown' = FALSE
    /\ UNCHANGED <<program, shift>>

-----------------------------------------------------------------------------
(* Properties                                                              *)

Reconstructed == output # NoOutput \/ thrown

\* The token that stands for a node: a call of what is no name is its last parenthesis.
KeyToken(id) ==
    IF program.ast[id].n = "unnamed" THEN program.info[id].to ELSE program.info[id].at

\* Whatever is selected is in the code, and no selection makes the reconstruction throw.
NothingLost ==
    Reconstructed => ~thrown /\ \A id \in selection : \E i \in DOMAIN output : output[i] = KeyToken(id)

\* The tokens of the source come in the order of the source, and none comes twice, however often
\* and for whichever slices the AST has been reconstructed before.
InOrder ==
    \A i, j \in DOMAIN output : i < j /\ output[i] > 0 /\ output[j] > 0 => output[i] < output[j]

\* Only brackets that close the last one still open: the stack of open ones, "x" if that fails.
OpenBrackets(tokens) ==
    LET Read(stack, token) ==
            LET text == TokenText(program, token)
            IN  CASE text \in {"(", "{", "["} -> Append(stack, text)
                  [] text \in {")", "}", "]"} ->
                        (IF stack # <<>> /\ <<Last(stack), text>> \in {<<"(", ")">>, <<"{", "}">>, <<"[", "]">>}
                         THEN Front(stack) ELSE Append(stack, "x"))
                  [] OTHER -> stack
    IN  FoldLeft(Read, <<>>, tokens)

\* The place after the header of a construct whose keyword is at the place i.
AfterHeader(i) ==
    IF TokenText(program, output[i]) = "repeat" THEN i + 1
    ELSE LET closed == {j \in (i + 2)..Len(output) : OpenBrackets(SubSeq(output, i + 1, j)) = <<>>}
         IN  IF closed = {} THEN Len(output) + 1 ELSE 1 + CHOOSE j \in closed : \A x \in closed : j <= x

\* The output can be R: its brackets match, and after the header of each loop, branch and
\* function comes something of its own body, or an empty block, not what happens to be next.
IsCode ==
    output # NoOutput =>
        /\ OpenBrackets(output) = <<>>
        /\ \A i \in DOMAIN output, id \in DOMAIN program.ast :
               /\ program.ast[id].t \in {"ForLoop", "WhileLoop", "RepeatLoop", "IfThenElse", "FunctionDefinition"}
               /\ program.info[id].at = output[i]
               => LET next == AfterHeader(i)
                  IN  /\ next <= Len(output)
                      /\ output[next] <= program.info[id].to
                      /\ TokenText(program, output[next]) \notin {"else", ")", "}", ";"}

\* What is not needed stays away: of a statement nothing of which is selected nothing is printed.
OnlyKept ==
    LET root == Len(program.ast)
    IN  \A x \in Children(program.ast, root) :
            LET all == CollectAllIds(program.ast, x, {})
            IN  (\A id \in all : ~isSelected(program, selection, id)) =>
                    \A i \in DOMAIN output : output[i] \notin program.info[x].from..program.info[x].to
=============================================================================
