------------------------------- MODULE Linker --------------------------------
(***************************************************************************)
(* How the dataflow analysis binds references and calls                    *)
(* (dataflow/internal/linker.ts) and finds the nodes a function returns    *)
(* (process/functions/exit-points.ts).                                     *)
(*                                                                         *)
(* The code goes through the vertices of a graph in the order they were    *)
(* added in, which is that of their ids. Where a call may reach several    *)
(* functions it goes through them in the order it meets them; here too it  *)
(* is that of the ids.                                                     *)
(***************************************************************************)
EXTENDS EnvironmentMemory

InOrder(ids) == SetToSortSeq(ids, <)

WithName(references, name) == SelectSeq(references, LAMBDA r : r.name = name)

\* linkReadVariablesInSameScopeWithNames: the first reference with a name is linked to all others.
LinkIngoingVariablesInSameScope(graph, references) ==
    FoldLeft(LAMBDA g, r : AddEdge(g, WithName(references, r.name)[1].node, r.node, "same-read-read"),
             graph, references)

\* linkInputs: the graph, and what could not be linked.
LinkInput(s, r, targets, maybeForRemaining) ==
    IF targets = {} THEN [s EXCEPT !.inputs = Append(@, [r EXCEPT !.maybe = @ \/ maybeForRemaining])]
    ELSE [s EXCEPT !.graph = AddEdges(@, r.node, Nodes(targets), "reads")]
LinkInputs(references, env, given, graph, maybeForRemaining) ==
    FoldLeft(LAMBDA s, r : LinkInput(s, r, Resolve(r.name, env), maybeForRemaining),
             [graph |-> graph, inputs |-> given], references)

\* Only the last definition of a name in a loop's body reaches the next round.
LinkCircularRedefinitionsWithinALoop(graph, openIns, outgoing) ==
    FoldLeft(LAMBDA g, r : IF WithName(outgoing, r.name) = <<>> THEN g
                           ELSE AddEdge(g, r.node, Last(WithName(outgoing, r.name)).node, "reads"),
             graph, openIns)

-----------------------------------------------------------------------------
(* Calls                                                                   *)

ParameterName(ast, param) == ast[ast[param].k[1]].n
ParameterNode(ast, param) == ast[param].k[1]

\* linkArgumentsOnCall: first those with a name, then the others in order; what is left goes to
\* the parameter ... if there is one. A name that is given twice is the last one.
LinkArgumentsOnCall(ast, args, params, graph) ==
    LET dots == SelectSeq(params, LAMBDA p : ParameterName(ast, p) = "...")
        toDots == IF dots = <<>> THEN {} ELSE {ParameterNode(ast, dots[1])}
        named == {i \in DOMAIN args : args[i].name # ""
                     /\ \A j \in DOMAIN args : args[j].name = args[i].name => j =< i}
        Target(name) == {ParameterNode(ast, params[j]) : j \in {k \in DOMAIN params : ParameterName(ast, params[k]) = name}}
        matched == {args[i].name : i \in {k \in named : Target(args[k].name) # {}}}
        remaining == SelectSeq(params, LAMBDA p : ParameterName(ast, p) \notin matched)
        unnamed == SelectSeq(args, LAMBDA a : a.name = "")
        Bound(i) == IF Target(args[i].name) # {} THEN Target(args[i].name) ELSE toDots
        byPlace == UNION {{<<unnamed[i].node, t>> :
                             t \in IF unnamed[i] = EmptyArgument THEN {}
                                   ELSE IF i > Len(remaining) THEN toDots
                                   ELSE {ParameterNode(ast, remaining[i])}} : i \in DOMAIN unnamed}
        byName == UNION {{<<args[i].node, t>> : t \in Bound(i)} : i \in named}
    IN  FoldSet(LAMBDA b, g : AddEdge(g, b[1], b[2], "defines-on-call"), graph, byName \cup byPlace)

\* The functions that may be meant by some nodes: what a call returns, else what a node reads
\* and is defined by.
RECURSIVE AllLinked(_, _, _)
AllLinked(graph, visited, ids) ==
    LET known == {id \in ids : HasNode(graph, id) /\ id # BuiltIn}
        Follow(id) ==
            IF OutgoingEdges(graph, id, {"returns"}) # {} THEN OutgoingEdges(graph, id, {"returns"})
            ELSE OutgoingEdges(graph, id, {"reads", "defined-by", "defined-by-on-call", "relates"})
        next == UNION {Follow(id) : id \in known} \ (visited \cup known)
    IN  IF known = {} THEN visited ELSE AllLinked(graph, visited \cup known, next)

GetAllLinkedFunctionDefinitions(graph, ids) ==
    {id \in AllLinked(graph, {}, ids) :
        /\ OutgoingEdges(graph, id, {"returns"}) = {}
        /\ graph.vertices[id].tag = "function-definition"}

\* return(...) returns its arguments; one that is left empty too, as a node of its own.
SpecialReturnFunction(graph, id, args) ==
    AddEdge(AddEdges(graph, id, {args[i].node : i \in DOMAIN args}, "returns"),
            id, BuiltIn, "calls")

\* One function a call may reach: it reads what the function leaves open, returns what the
\* function returns, and its arguments define the parameters.
LinkToDefinition(ast, graph, call, fn) ==
    LET def == graph.vertices[fn]
        info == graph.vertices[call]
        open == UNION {Nodes(Resolve(def.in[i].name, info.env)) : i \in DOMAIN def.in}
        read == AddEdges(graph, call, open, "reads")
        returned == AddEdges(read, call, ToSet(def.exitPoints), "returns")
    IN  LinkArgumentsOnCall(ast, info.args, SubSeq(ast[fn].k, 1, Len(ast[fn].k) - 1),
                            AddEdge(returned, call, fn, "calls"))

\* linkFunctionCalls for the calls of a part of the graph: the graph, and for the calls at the
\* root level of that part the functions they reach.
LinkFunctionCalls(ast, graph, part) ==
    LET calls == InOrder({id \in DOMAIN part.vertices : part.vertices[id].tag = "function-call"})
        Link1(s, call) ==
            LET defs == InOrder(GetAllLinkedFunctionDefinitions(s.graph,
                                    OutgoingEdges(s.graph, call, {"reads", "calls", "relates"})))
            IN  IF part.vertices[call].name = "return"
                THEN [s EXCEPT !.graph = SpecialReturnFunction(@, call, part.vertices[call].args)]
                ELSE [graph |-> FoldLeft(LAMBDA g, fn : LinkToDefinition(ast, g, call, fn), s.graph, defs),
                      called |-> IF call \in part.roots
                                 THEN Append(s.called, [call |-> call, fns |-> defs]) ELSE s.called]
    IN  FoldLeft(Link1, [graph |-> graph, called |-> <<>>], calls)

-----------------------------------------------------------------------------
(* Exit points: nodes that are known to be returned, and those that may be *)

ExitPoints(known, potential) == [known |-> known, potential |-> potential]

RECURSIVE VisitExitPoints(_, _)

KnownOf(ast, ids) ==
    FlattenSeq([i \in DOMAIN ids |-> IF ids[i] = NoId THEN <<>> ELSE VisitExitPoints(ast, ids[i]).known])

\* A node that is returned itself, unless there are returns in it.
KnownIdsOfChildren(ast, id) ==
    LET known == KnownOf(ast, ast[id].k) IN ExitPoints(known, IF known = <<>> THEN <<id>> ELSE <<>>)

\* The first child is the name of a parameter or an argument.
KnownIdsOfValue(ast, id) ==
    LET known == KnownOf(ast, <<ast[id].k[2]>>)
    IN  IF ast[id].k[2] = NoId THEN ExitPoints(<<>>, <<>>)
        ELSE ExitPoints(known, IF known = <<>> THEN <<id>> ELSE <<>>)

\* Loops return nothing but may contain returns.
VisitLoops(ast, id) == ExitPoints(KnownOf(ast, ast[id].k), <<>>)

\* The last expression that is no comment.
VisitExpressionList(ast, id) ==
    LET kids == SelectSeq(ast[id].k, LAMBDA c : ast[c].t # "Comment")
    IN  ExitPoints(KnownOf(ast, ast[id].k),
                   IF kids = <<>> THEN <<>> ELSE VisitExitPoints(ast, Last(kids)).potential)

VisitIf(ast, id) ==
    LET branches == SelectSeq(Tail(ast[id].k), LAMBDA b : b # NoId)
    IN  ExitPoints(KnownOf(ast, ast[id].k),
                   FlattenSeq([i \in DOMAIN branches |-> VisitExitPoints(ast, branches[i]).potential]))

VisitExitPoints(ast, id) ==
    LET type == ast[id].t
    IN  CASE type = "ExpressionList"                             -> VisitExpressionList(ast, id)
          [] type = "FunctionCall" /\ ast[id].n = "named" /\ ast[ast[id].k[1]].n = "return"
                                                                 -> ExitPoints(<<id>>, <<>>)
          [] type \in {"ForLoop", "WhileLoop", "RepeatLoop"}     -> VisitLoops(ast, id)
          [] type = "IfThenElse"                                 -> VisitIf(ast, id)
          [] type \in {"Pipe", "BinaryOp", "UnaryOp"}            -> KnownIdsOfChildren(ast, id)
          [] type \in {"Parameter", "Argument"}                  -> KnownIdsOfValue(ast, id)
          [] type \in {"Comment", "LineDirective", "Break", "Next"} -> ExitPoints(<<>>, <<>>)
          [] OTHER                                               -> ExitPoints(<<>>, <<id>>)

\* A variant: a function that has returns is left by them only.
RetrieveReturnsOrLastExpression(ast, fn) ==
    LET exits == VisitExitPoints(ast, Last(ast[fn].k))
    IN  IF exits.known = <<>> THEN exits.potential ELSE exits.known

\* The body is the last child of a definition.
RetrieveExitPointsOfFunctionDefinition(ast, fn) ==
    LET exits == VisitExitPoints(ast, Last(ast[fn].k)) IN exits.known \o exits.potential
=============================================================================
