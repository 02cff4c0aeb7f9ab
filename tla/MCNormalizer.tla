---------------------------- MODULE MCNormalizer ----------------------------
(***************************************************************************)
(* The first steps of the pipeline on small programs: R hands out parse    *)
(* data, the parser and normalizer make a decorated AST of it.             *)
(*                                                                         *)
(* Programs are all constructs of R with a construct in each of two holes, *)
(* and all pairs of constructs, with and without semicolon and comment.    *)
(***************************************************************************)
EXTENDS RSyntax

CONSTANT WithMethods    \* whether programs call functions they find in objects: a$f(x)

VARIABLES source,       \* the program, as a tree of tokens
          parsed,       \* its parse data: the rows, {} before there are any
          ast           \* the decorated AST

vars == <<source, parsed, ast>>

NotYet == <<>>

\* Every construct, with two expressions in it.
Constructs(a, b) ==
    {Assign("x", a), Binary("RIGHT_ASSIGN", "->", a, Sym("x")), Binary("EQ_ASSIGN", "=", Str("x"), a),
     Binary("RIGHT_ASSIGN", "->>", a, Str("x")), Plus(a, b), Binary("AND2", "&&", a, b),
     Binary("SPECIAL", "%in%", a, b), Binary("SPECIAL", "%p%", a, b), Binary("PIPE", "|>", a, b),
     Unary("-", a), Unary("!", a), Paren(a), Block(<<>>), Block(<<a>>), Block(<<a, b>>),
     Block(<<a, Word(";"), b>>), Block(<<a, Word(";")>>), Block(<<Comment, a>>),
     If(a, b), IfElse(a, b, a), While(a, b), Repeat(a), For("i", a, b),
     Expr(<<Word("IF"), Word("("), a, Word(")"), Comment, b>>), Expr(<<a, Leaf("+", "+"), Comment, b>>),
     Call("f", <<>>), Call("f", <<<<a>>, <<b>>>>), Call("f", <<Named("y", a), <<>>, Unset("z")>>),
     Applied(Str("f"), <<<<a>>>>), Applied(Paren(a), <<<<b>>>>), Namespaced("p", "f", <<<<a>>>>),
     Expr(<<Sym("f"), Word("("), a, Comment, Word(","), b, Word(")")>>),
     Function(<<>>, a), Function(<<Formal("y"), Default("z", a)>>, b),
     Index(a, <<<<b>>>>), Index(a, <<<<>>, <<b>>>>), Index2(a, <<<<b>>>>), Dollar(a, "y")}
    \cup (IF WithMethods THEN {Method(a, "f", <<<<b>>>>)} ELSE {})

Atoms == {Sym("x"), Num("1"), Num("TRUE"), Num("NA"), Str("s"), Null,
          Applied(BreakWord, <<>>), NextWord}
Simple == Atoms \cup Constructs(Sym("u"), Num("1"))

Programs ==
    {<<e>> : e \in UNION {Constructs(a, Sym("u")) \cup Constructs(Sym("u"), a) : a \in Simple}}
    \cup UNION {{<<a, b>>, <<a, Word(";"), b>>, <<Comment, a, Word(";"), b, Word(";")>>} :
                  a \in Simple, b \in Simple}

Init ==
    /\ source \in {Program(tokens) : tokens \in Programs}
    /\ parsed = {}
    /\ ast = NotYet

Parse ==
    /\ parsed = {}
    /\ parsed' = ParseData(source)
    /\ UNCHANGED <<source, ast>>

NormalizeStep ==
    /\ parsed # {} /\ ast = NotYet
    /\ ast' = Normalize(parsed)
    /\ UNCHANGED <<source, parsed>>

Next == Parse \/ NormalizeStep
Spec == Init /\ [][Next]_vars

-----------------------------------------------------------------------------
\* The AST means what the program means: no part of it is lost, duplicated, put into another
\* place or taken for something else, whatever it stands in, and nothing makes the parser throw.
KeepsTheProgram ==
    ast # NotYet => MeaningOfAst(ast, Root(ast)) = MeaningOfProgram(source)

\* The AST is linked in both directions: every node but the root is the child of its parent,
\* and of nothing else, and is numbered before it; its index tells its siblings apart.
LinkedBothWays ==
    \A id \in DOMAIN ast :
        /\ id = Root(ast) <=> ast[id].parent = NoId
        /\ \A p \in DOMAIN ast : id \in Children(ast, p) => ast[id].parent = p /\ id < p
        /\ id # Root(ast) => id \in Children(ast, ast[id].parent)
        /\ \A c, d \in Children(ast, id) :
               c # d => ast[c].index # ast[d].index \/ ast[c].index = NoIndex

\* decorate.ts: "0-based index of the child in the parent", and a role in it, for each node.
EveryNodeHasItsPlace ==
    \A id \in DOMAIN ast : ast[id].index # NoIndex /\ ast[id].role # NoRole
=============================================================================
