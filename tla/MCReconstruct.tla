--------------------------- MODULE MCReconstruct ----------------------------
(***************************************************************************)
(* Slices of small files, each made of the lines below, reconstructed one  *)
(* after the other from the one AST. The nodes are written with the places *)
(* of their tokens, as the normalizer finds them there.                    *)
(***************************************************************************)
EXTENDS Reconstruct

CONSTANT More   \* constructs that go wrong, each under its name (README, section 4)

-----------------------------------------------------------------------------
(* Nodes with their places (r-bridge/lang-4.x/ast/parser/xml/internal).    *)
(* first and last are the tokens an expression starts and ends with, its   *)
(* parentheses and braces included.                                        *)

Located(t, n, k, at, from, to) ==
    [t |-> t, n |-> n, k |-> k, at |-> at, from |-> from, to |-> to, first |-> from, last |-> to,
     add |-> <<>>, head |-> NoToken, els |-> NoToken, infix |-> FALSE]

Missing == Located("undefined", "", <<>>, NoToken, NoToken, NoToken)

Sym(p) == Located("Symbol", "", <<>>, p, p, p)
Num(p) == Located("Number", "", <<>>, p, p, p)

Infix(a, p, b) == Located("BinaryOp", "", <<a, b>>, p, a.first, b.last)
Negative(p, a) == Located("UnaryOp", "", <<a>>, p, p, a.last)

\* An expression in parentheses, or alone in braces, has them as additional tokens.
Wrapped(p, a, q) == [a EXCEPT !.add = @ \o <<p, q>>, !.first = p, !.last = q]
Ended(a, p) == [a EXCEPT !.add = Append(@, p)]
Block(p, es, q) ==
    IF Len(es) = 1 THEN Wrapped(p, es[1], q)
    ELSE [Located("ExpressionList", "", es, p, p, q) EXCEPT !.add = <<p, q>>]

\* The list that is put around a body shares the info of what is in it.
Body(a) == IF a.t = "ExpressionList" THEN a ELSE [a EXCEPT !.t = "ExpressionList", !.n = "", !.k = <<a>>]

Valued(a) == Located("Argument", "", <<Missing, a>>, a.first, a.first, a.last)
Called(p, arguments, q) ==
    Located("FunctionCall", "named", <<[Sym(p) EXCEPT !.to = q]>> \o arguments, p, p, q)
Unnamed(a, arguments, q) ==
    Located("FunctionCall", "unnamed", <<a>> \o arguments, a.first, a.first, q)
Special(a, p, b) ==
    LET Argument(x) == Located("Argument", "", <<Missing, x>>, x.at, x.at, x.at)
    IN  [Located("FunctionCall", "named", <<Sym(p), Argument(a), Argument(b)>>, p, a.first, b.last)
         EXCEPT !.infix = TRUE]
Accessed(a, p, arguments, q) == Located("Access", "[", <<a>> \o arguments, p, a.first, q)

Headed(node, head) == [node EXCEPT !.head = head]
While(p, c, q, a) == Headed(Located("WhileLoop", "", <<c, Body(a)>>, p, p, a.last), q)
Repeat(p, a) == Located("RepeatLoop", "", <<Body(a)>>, p, p, a.last)
For(p, x, v, a) ==
    [Located("ForLoop", "", <<Sym(x), v, Body(a)>>, p, p, a.last) EXCEPT !.add = <<p + 1, x + 1, v.last + 1>>]
If(p, c, q, a) == Headed(Located("IfThenElse", "", <<c, Body(a), Missing>>, p, p, a.last), q)
IfElse(p, c, q, a, e, b) ==
    [Headed(Located("IfThenElse", "", <<c, Body(a), Body(b)>>, p, p, b.last), q) EXCEPT !.els = e]

Formal(p) == Located("Parameter", "", <<Sym(p), Missing>>, p, p, p)
Default(p, a) == Located("Parameter", "", <<Sym(p), a>>, p, p, p)
Function(p, parameters, q, a) ==
    Headed(Located("FunctionDefinition", "", Append(parameters, Body(a)), p, p, a.last), q)

Root0(es) == Located("ExpressionList", "", es, 1, 1, 1)

\* The node without its place, and the places in the order in which ids are given.
RECURSIVE Shape(_), Places(_)
Shape(node) ==
    IF node = Missing THEN None
    ELSE Node(node.t, node.n, Table([i \in DOMAIN node.k |-> Shape(node.k[i])]))
Places(node) ==
    IF node = Missing THEN <<>>
    ELSE Append(FlattenSeq(Table([i \in DOMAIN node.k |-> Places(node.k[i])])),
                [at |-> node.at, from |-> node.from, to |-> node.to, add |-> node.add,
                 head |-> node.head, els |-> node.els, infix |-> node.infix])

-----------------------------------------------------------------------------
(* The files.                                                              *)

TextWidth(text) ==
    CASE text \in {"in", "if", "<-", "|>"} -> 2
      [] text \in {"for", "%p%"} -> 3
      [] text = "else" -> 4
      [] text = "while" -> 5
      [] text = "repeat" -> 6
      [] text = "library" -> 7
      [] text = "function" -> 8
      [] OTHER -> 1

\* The tokens of the lines, one space between those of a line.
TokensOf(lines) ==
    LET Column(line, i) == 1 + FoldLeft(LAMBDA n, text : n + 1 + TextWidth(text), 0, SubSeq(line, 1, i - 1))
    IN  FlattenSeq(Table([l \in DOMAIN lines |->
            Table([i \in DOMAIN lines[l] |-> [text |-> lines[l][i], line |-> l, col |-> Column(lines[l], i)]])]))

\* Slices: all sets of nodes but lists of expressions, unless they are of a kind that goes wrong.
Kept(ast, s, id) == CollectAllIds(ast, id, {}) \cap s # {}
IsSlice(ast, s) ==
    \A id \in DOMAIN ast :
        LET k == ast[id].k
            front == SubSeq(k, 1, Len(k) - 1)
        IN  /\ ast[id].t = "IfThenElse" /\ "if" \notin More =>
                  \/ id \in s
                  \/ ~Kept(ast, s, id)
                  \/ k[3] # NoId /\ Kept(ast, s, k[2]) /\ Kept(ast, s, k[3])
            /\ ast[id].t = "WhileLoop" /\ "while" \notin More => Kept(ast, s, id)
            /\ ast[id].t = "FunctionDefinition" /\ "parameters" \notin More =>
                  \/ Kept(ast, s, Last(k))
                  \/ id \notin s /\ \A i \in DOMAIN front : ~Kept(ast, s, front[i])

\* The lines of a file, and the nodes made of them.
File(lines, statements) == [lines |-> lines, root |-> Root0(statements)]

Named(bare, tokens, places) ==
    Table([id \in DOMAIN bare |->
              IF bare[id].t = "Symbol" THEN [bare[id] EXCEPT !.n = tokens[places[id].at].text] ELSE bare[id]])
ProgramOf(tokens, places, bare) == [tokens |-> tokens, info |-> places, ast |-> Named(bare, tokens, places)]
Parsed(file) == ProgramOf(TokensOf(file.lines), Places(file.root), DecorateAst(Shape(file.root)))

ForFile ==
    File(<< <<"for", "(", "i", "in", "v", ")", "{">>,
            <<"x", "<-", "i", "+", "x">>,
            <<"y", "<-", "x", "}">>,
            <<"y">> >>,
         <<For(1, 3, Sym(5), Block(7, <<Infix(Sym(8), 9, Infix(Sym(10), 11, Sym(12))),
                                        Infix(Sym(13), 14, Sym(15))>>, 16)),
           Sym(17)>>)

WhileFile ==
    File(<< <<"while", "(", "x", ">", "3", ")", "{", "x", "<-", "0", ";", "f", "(", "x", ")", "}">>,
            <<"x">> >>,
         <<While(1, Infix(Sym(3), 4, Num(5)), 6,
                       Block(7, <<Ended(Infix(Sym(8), 9, Num(10)), 11),
                                  Called(12, <<Valued(Sym(14))>>, 15)>>, 16)),
           Sym(17)>>)

FunctionFile ==
    File(<< <<"f", "<-", "function", "(", "a", ")", "{">>,
            <<"b", "<-", "a", "+", "1">>,
            <<"b">>,
            <<"}">>,
            <<"f", "(", "x", ")">> >>,
         <<Infix(Sym(1), 2, Function(3, <<Formal(5)>>, 6,
                                     Block(7, <<Infix(Sym(8), 9, Infix(Sym(10), 11, Num(12))), Sym(13)>>, 14))),
           Called(15, <<Valued(Sym(17))>>, 18)>>)

BranchFile ==
    File(<< <<"library", "(", "p", ")">>,
            <<"if", "(", "x", ")", "{", "y", "<-", "1", "}", "else", "{", "y", "<-", "a", "[", "2", "]", "}">>,
            <<"y", "|>", "f", "(", ")">> >>,
         <<Called(1, <<Valued(Sym(3))>>, 4),
           IfElse(5, Sym(7), 8, Block(9, <<Infix(Sym(10), 11, Num(12))>>, 13), 14,
                  Block(15, <<Infix(Sym(16), 17, Accessed(Sym(18), 19, <<Valued(Num(20))>>, 21))>>, 22))>>)

RepeatFile ==
    File(<< <<"repeat", "{">>,
            <<"x", "<-", "-", "(", "y", "+", "1", ")">>,
            <<"f", "(", ")">>,
            <<"}">>,
            <<"x", "|>", "g", "(", ")">> >>,
         <<Repeat(1, Block(2, <<Infix(Sym(3), 4, Negative(5, Wrapped(6, Infix(Sym(7), 8, Num(9)), 10))),
                                Called(11, <<>>, 13)>>, 14)),
           [Infix(Valued(Sym(15)), 16, Called(17, <<>>, 19)) EXCEPT !.t = "Pipe"]>>)

\* Files that go wrong as a whole.
LoopInLoopFile ==
    File(<< <<"while", "(", "x", ")", "{", "for", "(", "i", "in", "v", ")", "{", "y", "}", "}">> >>,
         <<While(1, Sym(3), 4, Block(5, <<For(6, 8, Sym(10), Block(12, <<Sym(13)>>, 14))>>, 15))>>)

OuterBlockFile ==
    File(<< <<"{", "x", "<-", "1">>, <<"y", "}">> >>,
         <<Block(1, <<Infix(Sym(2), 3, Num(4)), Sym(5)>>, 6)>>)

CalledAtOnceFile ==
    File(<< <<"(", "function", "(", ")", "{", "x", "}", ")", "(", ")">> >>,
         <<Unnamed(Wrapped(1, Function(2, <<>>, 4, Block(5, <<Sym(6)>>, 7)), 8), <<>>, 10)>>)

CalledTwiceFile ==
    File(<< <<"f", "(", ")", "(", ")">> >>, <<Unnamed(Called(1, <<>>, 3), <<>>, 5)>>)

InfixFile ==
    File(<< <<"(", "a", "+", "b", ")", "%p%", "d">> >>,
         <<Special(Wrapped(1, Infix(Sym(2), 3, Sym(4)), 5), 6, Sym(7))>>)

DefaultFile ==
    File(<< <<"f", "<-", "function", "(", "a", "=", "1", ")", "a">> >>,
         <<Infix(Sym(1), 2, Function(3, <<Default(5, Num(7))>>, 8, Sym(9)))>>)

Files ==
    [for |-> ForFile, while |-> WhileFile, function |-> FunctionFile, branch |-> BranchFile, repeat |-> RepeatFile,
     loopInLoop |-> LoopInLoopFile, outerBlock |-> OuterBlockFile, calledAtOnce |-> CalledAtOnceFile,
     calledTwice |-> CalledTwiceFile, infix |-> InfixFile, parameters |-> DefaultFile]

Always == {"for", "while", "function", "branch", "repeat"}

MCPrograms == {Parsed(Files[name]) : name \in Always \cup (More \cap DOMAIN Files)}

\* A bound: at most three nodes of a file are selected, or at most three are not.
Slices(ast) ==
    LET nodes == {id \in DOMAIN ast : ast[id].t # "ExpressionList"}
        few == {{}} \cup {{a, b, c} : a, b, c \in nodes}
    IN  {s \in few \cup {nodes \ some : some \in few} : IsSlice(ast, s)}

Next ==
    \/ ~Reconstructed /\ \E s \in Slices(program.ast) : ReconstructStep(s)
    \/ updateCriterion
Spec == Init /\ [][Next]_vars
=============================================================================
