---------------------- MODULE MCAbstractInterpretation -----------------------
(***************************************************************************)
(* The abstract interpretation against R (external): a program is parsed,  *)
(* normalized, turned into its control flow graph and its dataflow graph,  *)
(* and interpreted. R runs it as well, taking every branch: what it        *)
(* assigns must be in the domain of the definition.                        *)
(***************************************************************************)
EXTENDS AbstractInterpretation, ControlFlow, RSyntax

CONSTANTS More,          \* constructs the interpretation is known to fail at that are to be tried
          Names,         \* the identifiers of the programs
          BuiltInNames   \* those of R's

Dfg == INSTANCE Dataflow

-----------------------------------------------------------------------------
(* Programs                                                                *)

x == Sym("x")
y == Sym("y")
z == Sym("z")
w == Sym("w")
u == Sym("u")
One == Num("1")
Two == Num("2")
Minus(a, b) == Binary("-", "-", a, b)
Where(construct, tokens) == IF construct \in More THEN tokens ELSE {}

Expressions ==
    {One, x, Plus(x, One), Minus(w, x), Plus(One, Paren(Minus(x, y)))}
    \cup Where("sum", {Plus(Plus(x, One), Two)})
    \cup Where("unary", {Unary("-", One)})
    \cup Where("call", {Call("f", <<<<One>>>>)})
    \cup Where("if", {IfElse(u, One, Two)})
    \cup Where("times", {Binary("*", "*", x, Two)})
    \cup Where("value of an assignment", {Assign("y", One), Plus(Assign("z", One), Two)})

Assigning == {Assign(v, e) : v \in {"x", "y"}, e \in Expressions}
             \cup Where("right", {Binary("RIGHT_ASSIGN", "->", One, x)})

\* In a branch, without a use of what any branch assigns to.
Inside == {Assign("x", One), Assign("x", w), Assign("y", Minus(w, Two)), Assign("y", Plus(One, Paren(Plus(w, w))))}
          \cup Where("own value", {Assign("x", Plus(x, One))})

Statements ==
    Assigning
    \cup {If(u, a) : a \in Inside}
    \cup {IfElse(u, a, Block(<<Assign("z", Plus(w, One)), Assign("y", z)>>)) : a \in Inside}
    \cup Where("loop", {While(u, Assign("x", Two))})
    \cup Where("condition", {If(Binary("GT", ">", x, One), Assign("x", Two))})

Programs == {Program(<<Assign("x", One), Assign("y", Two), Assign("w", Num("5")), a, b, Assign("x", Minus(x, y))>>) : a, b \in Statements}

-----------------------------------------------------------------------------
(* R                                                                       *)

\* R's state: what variables are bound to, what each definition has been given, its last value.
RState(env, given, val) == [env |-> env, given |-> given, val |-> val]

Gives(s, symbol) ==
    RState((ast[symbol].n :> s.val) @@ s.env, s.given \cup {<<symbol, s.val>>}, s.val)

RECURSIVE Runs(_, _)
\* The states R may be in after it has evaluated a node.
RunsAll(ids, s) == FoldLeft(LAMBDA ss, id : UNION {Runs(id, t) : t \in ss}, {s}, ids)
Runs(id, s) ==
    LET k == ast[id].k
        Operands(Op(_, _)) ==
            UNION {{[b EXCEPT !.val = Op(a.val, @)] : b \in Runs(k[2], a)} : a \in Runs(k[1], s)}
        target == IF ast[id].n \in {"->", "->>"} THEN 2 ELSE 1
    IN  CASE ast[id].t = "Number" -> {[s EXCEPT !.val = Numbers[ast[id].n]]}
          [] ast[id].t = "Symbol" /\ ast[id].n = "u" -> {s}
          [] ast[id].t = "Symbol" /\ ast[id].n # "u" -> {[s EXCEPT !.val = s.env[ast[id].n]]}
          [] ast[id].t = "ExpressionList" -> RunsAll(k, s)
          [] ast[id].t = "IfThenElse" ->
                UNION {Runs(k[2], t) : t \in Runs(k[1], s)}
                \cup UNION {IF k[3] = NoId THEN {t} ELSE Runs(k[3], t) : t \in Runs(k[1], s)}
          [] ast[id].t = "WhileLoop" -> {s} \cup Runs(k[2], s)
          [] ast[id].n \in Assignments -> {Gives(t, k[target]) : t \in Runs(k[3 - target], s)}
          [] ast[id].n = "+" -> Operands(LAMBDA a, b : a + b)
          [] ast[id].n = "-" /\ ast[id].t = "BinaryOp" -> Operands(LAMBDA a, b : a - b)
          [] ast[id].n = "-" /\ ast[id].t = "UnaryOp" -> {[t EXCEPT !.val = -@] : t \in Runs(k[1], s)}
          [] ast[id].n = "*" -> Operands(LAMBDA a, b : a * b)
          [] OTHER -> {s}

Given == UNION {s.given : s \in Runs(Root(ast), RState(<<>>, {}, 0))}

-----------------------------------------------------------------------------
ReadsIn(graph) ==
    [vertices |-> DOMAIN graph.vertices, edges |-> {e \in DOMAIN graph.edges : "reads" \in graph.edges[e]}]

Init ==
    /\ ast \in {DecorateAst(ParseRootObjToAst(p)) : p \in Programs}
    /\ InitInterpretation

Next ==
    \/ Analyze(ExtractCFG(ast), ReadsIn(Dfg!ProduceDataFlowGraph(ast, <<>>).graph))
    \/ RunAbstractInterpretation
Spec == Init /\ [][Next]_vars

-----------------------------------------------------------------------------
\* A definition has a domain once the visitor has been there, and every value R can give it is
\* in that domain, whichever branches R takes.
ValuesAreInTheirDomains ==
    Ended => \A g \in Given : g[1] \in DOMAIN nodeMap /\ Holds(nodeMap[g[1]], g[2])

\* The interpretation comes to the end of the program: no guard fails, no operation is left
\* open and none is ended by the end of something else.
ComesToTheEnd == ~thrown /\ (Ended => stack = <<>> /\ visited = cfg.graph.vertices)
=============================================================================
