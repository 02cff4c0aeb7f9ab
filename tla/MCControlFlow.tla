--------------------------- MODULE MCControlFlow ----------------------------
(***************************************************************************)
(* The control flow graph against R (external): a program is parsed,       *)
(* normalized and turned into its graph, and R evaluates it, part by part, *)
(* taking every branch and any number of rounds of a loop. Where R goes    *)
(* from one part to the next, the graph must have an edge.                 *)
(*                                                                         *)
(* Calls are opaque, as in the graph; the body of a function is evaluated  *)
(* on its own. A loop meets its head and its vector again in every round,  *)
(* and an access returns to itself when it has what it accesses: so the    *)
(* graph has it.                                                           *)
(*                                                                         *)
(* Or the visitor walks the graph.                                         *)
(***************************************************************************)
EXTENDS ControlFlow, Visitor, RSyntax

CONSTANT More       \* constructs the graph is known to be wrong about that are to be tried

VARIABLES ast,      \* the decorated AST
          todo,     \* what R has to evaluate, first things first
          at        \* the vertex it has come to

vars == <<ast, walk, todo, at>>

Nowhere == <<>>

-----------------------------------------------------------------------------
(* Programs                                                                *)

Loops(a, b) == {While(a, b), For("i", a, b)} \cup (IF "repeat" \in More THEN {Repeat(b)} ELSE {})

Constructs(a, b) ==
    Loops(a, b)
    \cup {Assign("x", a), Plus(a, b), Binary("PIPE", "|>", a, b), Block(<<a>>), Block(<<a, b>>), If(a, b),
          IfElse(a, b, a), Call("f", <<>>), Call("f", <<<<a>>, <<>>, <<b>>>>),
          Call("f", <<Named("y", a), Unset("z")>>), Applied(Paren(a), <<<<b>>>>),
          Function(<<Formal("y"), Default("z", a)>>, b), Index(a, <<<<b>>>>)}
    \cup (IF "unary" \in More THEN {Unary("-", a)} ELSE {})
    \cup (IF "field" \in More THEN {Dollar(a, "y")} ELSE {})
    \cup (IF "indices" \in More THEN {Index(a, <<<<a>>, <<b>>>>)} ELSE {})
    \cup (IF "comment" \in More THEN {Block(<<a, Comment, b>>), Block(<<Comment, a>>)} ELSE {})
    \cup (IF "empty" \in More THEN {IfElse(a, b, Block(<<>>))} ELSE {})
    \cup (IF "no parameters" \in More THEN {Function(<<>>, a)} ELSE {})
    \cup (IF "and" \in More THEN {Binary("AND2", "&&", a, b)} ELSE {})
    \cup (IF "return" \in More THEN {Function(<<Formal("y")>>, Block(<<Call("return", <<<<a>>>>), b>>))} ELSE {})

u == Sym("u")
Jumping == {BreakWord, NextWord, If(u, BreakWord), If(u, NextWord), IfElse(u, BreakWord, NextWord),
            Block(<<u, NextWord>>), Block(<<If(u, BreakWord), u>>), Call("f", <<<<BreakWord>>>>)}

Programs ==
    UNION {Constructs(a, u) \cup Constructs(u, a) : a \in {Num("1")} \cup Constructs(u, u)}
    \cup UNION {Loops(u, a) \cup Loops(u, Block(<<a, u>>)) \cup Loops(u, IfElse(u, a, u)) :
                  a \in Jumping \cup UNION {Loops(u, b) : b \in Jumping}}

-----------------------------------------------------------------------------
(* R's evaluation: what an item stands for, as the lists of items it may be *)
(* replaced by                                                             *)

Item(do, id) == [do |-> do, id |-> id, mark |-> ""]
Visit(id, mark) == [do |-> "visit", id |-> id, mark |-> mark]
Eval(id) == IF id = NoId THEN <<>> ELSE <<Item("evaluate", id)>>
Here(id, mark) == <<Visit(id, mark)>>

Stops == {"&&", "||"}

Evaluate(id) ==
    LET type == ast[id].t
        k == ast[id].k
        inOrder == FlattenSeq([i \in DOMAIN k |-> Eval(k[i])])
    IN  CASE type \in Leaves \ {"Comment", "LineDirective"} -> {Here(id, "")}
          [] type \in {"Comment", "LineDirective"} -> {<<>>}
          [] type = "ExpressionList" -> {inOrder}
          [] type = "IfThenElse" -> {Here(id, "") \o Eval(k[1]) \o <<Item("branch", id)>>}
          [] type \in {"WhileLoop", "ForLoop", "RepeatLoop"} -> {<<Item("round", id)>>}
          [] type = "FunctionDefinition" -> {Here(id, "")}
          [] type = "FunctionCall" ->
                {Here(id, "") \o Eval(k[1]) \o Here(id, "name")
                 \o FlattenSeq([i \in DOMAIN Tail(k) |-> Eval(k[i + 1])])
                 \o (IF "return" \in More /\ ast[k[1]].n = "return" THEN <<Item("return", id)>>
                     ELSE Here(id, "exit"))}
          [] type \in {"Argument", "Parameter"} ->
                {Here(id, "") \o Eval(k[1]) \o Here(id, "before-value") \o Eval(k[2]) \o Here(id, "exit")}
          [] type \in {"BinaryOp", "Pipe"} ->
                {Here(id, "") \o inOrder \o Here(id, "exit")}
                \cup (IF ast[id].n \in Stops THEN {Here(id, "") \o Eval(k[1]) \o Here(id, "exit")} ELSE {})
          [] type = "Access" ->
                {Here(id, "") \o Eval(k[1]) \o Here(id, "")
                 \o FlattenSeq([i \in DOMAIN Tail(k) |-> Eval(k[i + 1])]) \o Here(id, "exit")}
          [] type = "UnaryOp" -> {inOrder \o Here(id, "")}

\* A new round of a loop: its head and its condition, or its vector and its variable.
Round(id) ==
    LET k == ast[id].k
    IN  CASE ast[id].t = "WhileLoop"  -> {Here(id, "") \o Eval(k[1]) \o <<Item("decide", id)>>}
          [] ast[id].t = "ForLoop"    -> {Here(id, "") \o Eval(k[2]) \o Eval(k[1]) \o <<Item("decide", id)>>}
          [] ast[id].t = "RepeatLoop" -> {Here(id, "") \o Eval(k[1]) \o <<Item("round", id)>>}

Alternatives(item) ==
    LET id == item.id
        k == ast[id].k
    IN  CASE item.do = "evaluate" -> Evaluate(id)
          [] item.do = "branch" -> {Eval(k[2]) \o Here(id, "exit"), Eval(k[3]) \o Here(id, "exit")}
          [] item.do = "round" -> Round(id)
          [] item.do = "decide" -> {Eval(k[Len(k)]) \o <<Item("round", id)>>, Here(id, "exit")}
          [] item.do = "return" -> {Here(id, "exit")}
          [] item.do = "apply" ->
                {Eval(p) \o Here(id, "params") \o Eval(k[Len(k)]) \o Here(id, "exit") :
                   p \in IF Len(k) = 1 THEN {NoId} ELSE {k[i] : i \in 1..(Len(k) - 1)}}

-----------------------------------------------------------------------------
Init ==
    /\ ast \in {DecorateAst(ParseRootObjToAst(Program(<<p>>))) : p \in Programs}
    /\ InitVisitor
    /\ todo = <<>>
    /\ at = Nowhere

\* R evaluates the program or applies a function of it, or the visitor walks the graph.
Extract ==
    /\ VisitCfg(ExtractCFG(ast))
    /\ \/ todo' \in {Eval(Root(ast)), <<>>} /\ at' = Nowhere
       \/ \E fn \in DOMAIN ast :
            /\ ast[fn].t = "FunctionDefinition"
            /\ todo' = <<Item("apply", fn)>> /\ at' = Vertex(fn, "")
    /\ UNCHANGED ast

\* R comes to a vertex.
Arrive ==
    /\ todo # <<>> /\ Head(todo).do = "visit"
    /\ at' = Vertex(Head(todo).id, Head(todo).mark)
    /\ todo' =
         LET rest == Tail(todo)
             rounds == {i \in DOMAIN rest : rest[i].do = "round"}
             again == SubSeq(rest, Min(rounds), Len(rest))
         IN  CASE ast[Head(todo).id].t = "Next"  -> again
               [] ast[Head(todo).id].t = "Break" -> Here(Head(again).id, "exit") \o Tail(again)
               [] OTHER                          -> rest
    /\ UNCHANGED <<ast, walk>>

\* R goes on with the parts of what it evaluates; a return ends the function.
Proceed ==
    /\ todo # <<>> /\ Head(todo).do # "visit"
    /\ \E parts \in Alternatives(Head(todo)) :
         todo' = parts \o (IF Head(todo).do = "return" THEN <<Last(todo)>> ELSE Tail(todo))
    /\ UNCHANGED <<ast, walk, at>>

WalkAll == todo = <<>> /\ at = Nowhere /\ Walk /\ UNCHANGED <<ast, todo, at>>

Next == Extract \/ Arrive \/ Proceed \/ WalkAll
Spec == Init /\ [][Next]_vars

-----------------------------------------------------------------------------
\* Where R goes, the graph has an edge: R starts at an entry, and comes from each vertex only to
\* one that the graph has after it.
EvaluationFollowsTheGraph ==
    [][at' # at /\ cfg # NoCfg =>
         IF at = Nowhere THEN at' \in cfg.entry
         ELSE \E e \in cfg.graph.edges : e.from = at' /\ e.to = at]_vars

RECURSIVE ReachableIn(_, _)
ReachableIn(reached, arrows) ==
    LET more == {a[2] : a \in {b \in arrows : b[1] \in reached}} \ reached
    IN  IF more = {} THEN reached ELSE ReachableIn(reached \cup more, arrows)

IsAHammock ==
    LET forth == {<<e.to, e.from>> : e \in cfg.graph.edges}
        back == {<<e.from, e.to>> : e \in cfg.graph.edges}
    IN  /\ Cardinality(cfg.entry) = 1 /\ Cardinality(cfg.exit) = 1
        /\ cfg.graph.roots \subseteq ReachableIn(cfg.entry, forth) \cap ReachableIn(cfg.exit, back)

\* What is left of some vertices when those that come after none of the others are taken away.
RECURSIVE InCycles(_)
InCycles(vertices) ==
    LET first == {v \in vertices : Before(cfg.graph, v) \cap vertices = {}}
    IN  IF first = {} THEN vertices ELSE InCycles(vertices \ first)

\* An access comes after itself.
Straight == \A id \in DOMAIN ast : ast[id].t \notin {"WhileLoop", "ForLoop", "RepeatLoop", "Access"}

\* cfg.ts: "explicit exit-nodes to ensure the hammock property": one entry, one exit, and every
\* vertex of the root level on a way from the entry to the exit. Where the program has no loop the
\* graph has none, and every vertex, nested or not, comes after another one: so that the visitor,
\* which waits for what comes before, can come to it.
IsHammock ==
    cfg # NoCfg =>
        /\ IsAHammock
        /\ Straight => /\ InCycles(cfg.graph.vertices) = {}
                       /\ \A v \in cfg.graph.vertices : CanBeReached(v)

\* A graph equals itself.
EqualToItself == cfg # NoCfg => EqualCfg(cfg.graph, cfg.graph)
=============================================================================
