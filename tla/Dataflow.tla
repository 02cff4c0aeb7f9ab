------------------------------ MODULE Dataflow --------------------------------
(***************************************************************************)
(* The extraction of the dataflow graph (dataflow/extractor.ts,            *)
(* processor.ts and internal/process): a processor for every type of node, *)
(* in control of how the ones of its children are called and merged.       *)
(*                                                                         *)
(* What a processor is given: the decorated AST, the environments, and for *)
(* source calls the roots of the files there are and those it has come     *)
(* through. What it returns: references of unknown use, read and written   *)
(* ones, environments and a graph.                                         *)
(*                                                                         *)
(* The active scope is always the local one. Environments come with the    *)
(* memory they are in (at), which goes from one processor to the next in   *)
(* the order the code calls them.                                          *)
(***************************************************************************)
EXTENDS Linker

Data(ast, at, files, chain) == [ast |-> ast, at |-> at, files |-> files, chain |-> chain]
In(data, at) == [data EXCEPT !.at = at]

Info(unknown, in, out, at, graph) ==
    [unknown |-> unknown, in |-> in, out |-> out, at |-> at, graph |-> graph]

InitializeCleanInfo(data) == Info(<<>>, <<>>, <<>>, data.at, EmptyGraph)

\* What is processed after something else finds the memory as that has left it.
After(data, info) == In(data, Now(data.at, info.at))

RECURSIVE ProcessDataflowFor(_, _)

-----------------------------------------------------------------------------
(* References and environments                                             *)

NodesOf(references) == {references[i].node : i \in DOMAIN references}
Certain(references) == Table([i \in DOMAIN references |-> [references[i] EXCEPT !.maybe = FALSE]])

\* Each reference reads what it resolves to.
ReadIn(graph, references, at) ==
    FoldLeft(LAMBDA g, r : AddEdges(g, r.node, Targets(r.name, at), "reads"), graph, references)

\* A written reference and the definitions there were of its name.
SameDefinitions(graph, written, at) ==
    FoldLeft(LAMBDA g, w : FoldSet(LAMBDA t, h : AddEdge(h, t, w.node, "same-def-def"), g, Targets(w.name, at)),
             graph, written)

-----------------------------------------------------------------------------
(* Leaves and operators                                                    *)

ProcessSymbol(data, id) ==
    LET name == data.ast[id].n
    IN  IF name \in {"NULL", "NA"} THEN InitializeCleanInfo(data)
        ELSE Info(<<Reference(id, name, FALSE)>>, <<>>, <<>>, data.at,
                  AddVertex(EmptyGraph, id, GraphVertex("use", name, Contents(data.at))))

ProcessUninterestingLeaf(data) == InitializeCleanInfo(data)

ProcessUnaryOp(data, id) == ProcessDataflowFor(data, data.ast[id].k[1])

\* Both operands are evaluated where the operator is: what one defines the other does not see.
OfOperands(lhs, rhs) == lhs.in \o rhs.in \o lhs.unknown \o rhs.unknown

\* What is on the right of these may not be evaluated.
LogicalOperators == {"&", "&&", "|", "||", "%in%"}

ProcessNonAssignmentBinaryOp(data, id) ==
    LET lhs == ProcessDataflowFor(data, data.ast[id].k[1])
        rhs == ProcessDataflowFor(After(data, lhs), data.ast[id].k[2])
        ingoing == OfOperands(lhs, rhs)
        logical == data.ast[id].n \in LogicalOperators
    IN  Info(<<>>, ingoing, lhs.out \o rhs.out,
             IF logical THEN AppendEnvironments(lhs.at, rhs.at) ELSE OverwriteEnvironments(lhs.at, rhs.at),
             LinkIngoingVariablesInSameScope(MergeWith(lhs.graph, rhs.graph), ingoing))

\* The left side is the first argument of the call on the right.
ProcessPipeOperation(data, id) ==
    LET left == data.ast[id].k[1]
        call == data.ast[id].k[2]
        lhs == ProcessDataflowFor(data, left)
        rhs == ProcessDataflowFor(After(data, lhs), call)
        ingoing == OfOperands(lhs, rhs)
        graph == LinkIngoingVariablesInSameScope(MergeWith(lhs.graph, rhs.graph), ingoing)
        Unshift(g) == [g EXCEPT !.vertices[call].args = <<Argument("", left)>> \o @]
    IN  Info(<<>>, ingoing, lhs.out \o rhs.out, OverwriteEnvironments(lhs.at, rhs.at),
             IF data.ast[call].t = "FunctionCall" THEN AddEdge(Unshift(graph), call, left, "argument")
             ELSE graph)

\* The environments after the indices are computed and dropped, but for what grew in place.
ProcessAccess(data, id) ==
    LET k == data.ast[id].k
        accessed == ProcessDataflowFor(data, k[1])
        Reads1(g, tos) == FoldSet(LAMBDA a, h : AddEdges(h, a, tos, "reads"), g, NodesOf(accessed.unknown))
        Index1(info, access) ==
            LET index == ProcessDataflowFor(After(data, info), access)
                used == NodesOf(index.out \o index.unknown)
            IN  [info EXCEPT !.graph = Reads1(MergeWith(@, index.graph), used),
                             !.in = @ \o index.in \o index.unknown,
                             !.at = Now(@, OverwriteEnvironments(@, index.at))]
        indices == IF data.ast[id].n \in {"[", "[["}
                   THEN SelectSeq(Tail(k), LAMBDA a : a # NoId /\ data.ast[a].k[2] # NoId) ELSE <<>>
        info == FoldLeft(Index1, accessed, indices)
    IN  [info EXCEPT !.unknown = Maybes(@), !.at = MakeAllMaybe(accessed.unknown, @)]

-----------------------------------------------------------------------------
(* Branches and loops                                                      *)

ProcessIfThenElse(data, id) ==
    LET k == data.ast[id].k
        condition == ProcessDataflowFor(data, k[1])
        always == data.ast[k[1]].t = "Logical" /\ data.ast[k[1]].n = "TRUE"
        never == data.ast[k[1]].t = "Logical" /\ data.ast[k[1]].n = "FALSE"
        then == IF never THEN <<>> ELSE <<ProcessDataflowFor(In(data, condition.at), k[2])>>
        inside == In(data, IF never THEN condition.at ELSE Now(condition.at, then[1].at))
        \* the branches that may be taken
        branches == then \o (IF k[3] = NoId \/ always THEN <<>> ELSE <<ProcessDataflowFor(inside, k[3])>>)
        certain == always \/ never
        Marked(references) == IF certain THEN references ELSE Maybes(references)
        OfBranches(f) == FlattenSeq([i \in DOMAIN branches |-> Marked(branches[i][f])])
        ingoing == condition.in \o OfBranches("in") \o condition.unknown \o OfBranches("unknown")
        outgoing == condition.out \o OfBranches("out")
        last == IF branches = <<>> THEN condition ELSE Last(branches)
        at == FoldLeft(LAMBDA e, b : AppendEnvironments(e, Now(b.at, e)), Now(condition.at, last.at), branches)
        graph == FoldLeft(LAMBDA g, b : MergeWith(g, b.graph), condition.graph, branches)
    IN  Info(<<>>, ingoing, outgoing,
             IF certain THEN at
             ELSE MakeAllMaybe(OfBranches("in") \o OfBranches("unknown") \o OfBranches("out"), at),
             LinkIngoingVariablesInSameScope(graph, ingoing))

\* A variant: a body does what it does for sure.
AfterSureBody(before, body) == OverwriteEnvironments(before, body.at)

\* What a loop's body does may not happen.
AfterBody(before, body) ==
    MakeAllMaybe(body.in \o body.unknown \o body.out, AppendEnvironments(before, body.at))

\* The variable reads nothing but is read by all of its name, in the vector too.
ForLoop(variable, vector, body, head) ==
    LET written == variable.unknown
        graph == MergeWith(MergeWith(variable.graph, vector.graph), body.graph)
        ingoing == vector.in \o Maybes(body.in) \o vector.unknown \o Maybes(body.unknown)
        Bind(g, w) ==
            SetDefinitionOfVertex(
                FoldLeft(LAMBDA h, r : AddEdge(h, r.node, w.node, "reads"),
                         AddEdges(g, w.node, NodesOf(vector.in \o vector.unknown), "defined-by"),
                         WithName(ingoing, w.name)),
                w.node)
        left == SelectSeq(ingoing, LAMBDA r : \A i \in DOMAIN written : written[i].name # r.name)
    IN  Info(<<>>, variable.in \o left, variable.out \o written \o Maybes(body.out),
             AfterBody(head, body),
             LinkCircularRedefinitionsWithinALoop(
                LinkIngoingVariablesInSameScope(FoldLeft(Bind, graph, written), ingoing), left, body.out))

AfterHead(data, id, variable, vector, head) ==
    ForLoop(variable, vector, ProcessDataflowFor(In(data, head), data.ast[id].k[3]), head)

ProcessForLoop(data, id) ==
    LET k == data.ast[id].k
        variable == ProcessDataflowFor(data, k[1])
        vector == ProcessDataflowFor(After(data, variable), k[2])
    IN  AfterHead(data, id, variable, vector,
                  DefineAll(Certain(variable.unknown), LocalScope,
                            OverwriteEnvironments(vector.at, Now(variable.at, vector.at))))

ProcessWhileLoop(data, id) ==
    LET k == data.ast[id].k
        condition == ProcessDataflowFor(data, k[1])
        body == ProcessDataflowFor(In(data, condition.at), k[2])
        at == AfterBody(condition.at, body)
        remaining == LinkInputs(Maybes(body.unknown \o body.in), Contents(Now(condition.at, at)),
                                condition.in \o condition.unknown,
                                MergeWith(condition.graph, body.graph), TRUE)
    IN  Info(<<>>, remaining.inputs, Maybes(body.out) \o condition.out, at,
             LinkCircularRedefinitionsWithinALoop(remaining.graph, remaining.inputs, body.out))

ProcessRepeatLoop(data, id) ==
    LET body == ProcessDataflowFor(data, data.ast[id].k[1])
        ingoing == body.in \o body.unknown
    IN  Info(<<>>, ingoing, body.out, body.at,
             LinkCircularRedefinitionsWithinALoop(body.graph, ingoing, body.out))

-----------------------------------------------------------------------------
(* Expression lists                                                        *)

DotDotDotAccesses == {"..1", "..2"}
ReadName(name) == IF name \in DotDotDotAccesses THEN "..." ELSE name
AsRead(references) == Table([i \in DOMAIN references |-> [references[i] EXCEPT !.name = ReadName(@)]])

\* Is there a next or a break that may skip the rest of the list?
FoundNextOrBreak(ast, id) ==
    LET loops == {c \in DOMAIN ast : ast[c].t \in {"ForLoop", "WhileLoop", "RepeatLoop", "FunctionDefinition"}}
    IN  \E c \in CollectAllIds(ast, id, loops) : ast[c].t \in {"Next", "Break"}

\* The reads that stay open: some definition of them is not from this list.
RemainingRead(reads, at, listed) ==
    SelectSeq(reads, LAMBDA r : LET targets == Targets(ReadName(r.name), at)
                                IN  targets = {} \/ ~ targets \subseteq listed)

ProcessNextExpression(graph, reads, written, at) ==
    SameDefinitions(ReadIn(graph, AsRead(reads), at), written, at)

\* A function that is called writes what it defines in the environments around it.
UpdateSideEffectsForCalledFunctions(called, state) ==
    LET Definitions(env) == UNION {Nodes(env[i][name]) : i \in DOMAIN env, name \in Names} \ {BuiltIn}
        Apply(s, call, fn) ==
            LET whole == s.graph.vertices[fn].env
                common == At(SubSeq(whole, 1 + Len(whole) - Min({Len(whole), Len(s.at.env)}), Len(whole)), s.at.arrays)
            IN  [graph |-> FoldSet(LAMBDA d, g : AddEdge(g, d, call, "side-effect-on-call"), s.graph,
                                   Definitions(Contents(common))),
                 at |-> OverwriteEnvironments(s.at, common)]
    IN  FoldLeft(LAMBDA s, c : FoldLeft(LAMBDA t, fn : Apply(t, c.call, fn), s, c.fns), state, called)

\* What is known of the list after an expression: calls has the graph and the functions that are called.
Known(s, before, at, skips, out, reads, calls) ==
    LET after == UpdateSideEffectsForCalledFunctions(calls.called,
                     [graph |-> calls.graph, at |-> OverwriteEnvironments(before, at)])
    IN  [s EXCEPT !.at = after.at, !.graph = after.graph, !.skips = skips, !.out = @ \o out,
                  !.remaining = @ \o RemainingRead(reads, before, s.listed),
                  !.listed = @ \cup NodesOf(out)]

\* What the expression writes and reads in the environments at.
AfterExpression(ast, s, skips, graph, out, reads, at) ==
    Known(s, Now(s.at, at), at, skips, out, reads,
          LinkFunctionCalls(ast, ProcessNextExpression(MergeWith(s.graph, graph), reads, out, Now(s.at, at)), graph))

\* One expression: what is known of the list so far is s.
Processed(ast, s, skips, processed) ==
    LET Marked(references) == IF skips THEN Maybes(references) ELSE references
        out == Marked(processed.out)
        reads == Marked(processed.in \o processed.unknown)
    IN  AfterExpression(ast, s, skips, processed.graph, out, reads,
                        IF skips THEN MakeAllMaybe(out \o reads, processed.at) ELSE processed.at)

ProcessExpression(data, s, id) ==
    Processed(data.ast, s, s.skips \/ FoundNextOrBreak(data.ast, id), ProcessDataflowFor(In(data, s.at), id))

\* What is known of a list before its first expression, and of a list that is done.
StartOfList(data) ==
    [at |-> data.at, graph |-> EmptyGraph, skips |-> FALSE, out |-> <<>>, remaining |-> <<>>, listed |-> {}]
OfList(s) ==
    Info(<<>>, s.remaining, s.out, s.at, LinkIngoingVariablesInSameScope(s.graph, AsRead(s.remaining)))

ProcessExpressionList(data, id) ==
    IF data.ast[id].k = <<>> THEN InitializeCleanInfo(data)
    ELSE OfList(FoldLeft(LAMBDA s, e : ProcessExpression(data, s, e), StartOfList(data), data.ast[id].k))

-----------------------------------------------------------------------------
(* Assignments                                                             *)

Functions(ast) == {id \in DOMAIN ast : ast[id].t = "FunctionDefinition"}

\* The nodes of a source whose value may be the one that is assigned: not those in loops, and
\* of calls and functions only they themselves.
DetermineImpactOfSource(ast, source) ==
    LET ends == {id \in DOMAIN ast : ast[id].t \in {"FunctionCall", "FunctionDefinition"}}
        loops == {id \in DOMAIN ast : ast[id].t \in {"ForLoop", "WhileLoop", "RepeatLoop"}}
        inside == CollectAllIds(ast, source, ends \cup loops)
    IN  inside \cup (({source} \cup UNION {Children(ast, c) : c \in inside}) \cap ends)

ProcessAssignment(data, id) ==
    LET op == data.ast[id]
        swap == op.n \in {"->", "->>"}
        global == op.n \in {"<<-", "->>"}
        lhs == ProcessDataflowFor(data, op.k[1])
        rhs == ProcessDataflowFor(After(data, lhs), op.k[2])
        source == IF swap THEN lhs ELSE rhs
        target == IF swap THEN rhs ELSE lhs
        sourceNode == IF swap THEN op.k[1] ELSE op.k[2]
        writes == target.unknown
        readTargets == source.unknown \o lhs.in \o rhs.in \o source.out
        definedBy == IF data.ast[sourceNode].t = "FunctionDefinition" THEN {sourceNode}
                     ELSE DetermineImpactOfSource(data.ast, sourceNode) \cap NodesOf(readTargets)
        Write(g, w) == AddEdges(SetDefinitionOfVertex(g, w.node), w.node, definedBy, "defined-by")
    IN  Info(<<>>, readTargets, writes \o target.out \o source.out,
             DefineAll(writes, IF global THEN GlobalScope ELSE LocalScope,
                       OverwriteEnvironments(Now(source.at, rhs.at), Now(target.at, rhs.at))),
             FoldLeft(Write, MergeWith(lhs.graph, rhs.graph), writes))

-----------------------------------------------------------------------------
(* Calls                                                                   *)

UnnamedFunctionCallName(id) == "unnamed-function-call-" \o ToString(id)
UnnamedArgumentName(id) == "unnamed-argument-" \o ToString(id)

\* The reads in an argument that are not in an argument of a call in it are reads of the argument.
LinkReadsForArgument(ast, id, ingoing, graph) ==
    LET nested == {a \in DOMAIN ast : ast[a].t = "Argument"} \ {id}
    IN  AddEdges(graph, id, CollectAllIds(ast, id, nested) \cap NodesOf(ingoing), "reads")

ProcessFunctionArgument(data, id) ==
    LET name == data.ast[id].k[1]
        value == data.ast[id].k[2]
        processed == IF value = NoId THEN InitializeCleanInfo(data) ELSE ProcessDataflowFor(data, value)
        called == IF name = NoId THEN UnnamedArgumentName(id) ELSE data.ast[name].n
        ingoing == processed.unknown \o processed.in
        graph == AddVertex(processed.graph, id, GraphVertex("use", called, Contents(Now(data.at, processed.at))))
    IN  Info(<<>>, ingoing, <<Reference(id, called, FALSE)>>, processed.at,
             IF value \in Functions(data.ast) THEN AddEdge(graph, id, value, "reads")
             ELSE LinkReadsForArgument(data.ast, id, ingoing \o processed.out, graph))

\* A processed argument: the environments at after it, seen by the arguments after it as argAt.
WithArgument(s, call, arg, name, processed, at, seen, argAt) ==
    LET reads == processed.in \o processed.unknown
    IN  [s EXCEPT !.at = Now(at, argAt), !.argAt = argAt, !.args = Append(@, Argument(name, arg)),
                  !.graph = ReadIn(AddEdge(MergeWith(@, processed.graph), call, arg, "argument"), reads, seen),
                  !.remaining = @ \o SelectSeq(reads, LAMBDA r : Targets(r.name, seen) = {})]
Seen(s, call, arg, name, processed, at, seen) ==
    WithArgument(s, call, arg, name, processed, at, seen,
                 IF name = "" THEN seen ELSE Define(processed.out[1], LocalScope, seen))
AfterArgument(s, call, arg, name, processed, at) ==
    Seen(s, call, arg, name, processed, at, OverwriteEnvironments(Now(s.argAt, at), Now(processed.at, at)))

\* One argument of a call: it sees what the arguments before it have defined, and those that
\* have a name under this name.
Evaluated(s, call, arg, name, processed) ==
    AfterArgument(s, call, arg, name, processed, OverwriteEnvironments(Now(s.at, processed.at), processed.at))
ProcessArgument(data, call, s, arg) ==
    IF arg = NoId THEN [s EXCEPT !.args = Append(@, EmptyArgument)]
    ELSE Evaluated(s, call, arg, IF data.ast[arg].k[1] = NoId THEN "" ELSE data.ast[data.ast[arg].k[1]].n,
                   ProcessDataflowFor(In(data, s.argAt), arg))

IsSourceCall(name, at) == name = "source" /\ Targets(name, at) = {BuiltIn}

\* sourceRequest: what a file reads and writes is dropped, its graph and environments are kept.
SourceRequest(data, file, info) ==
    LET dataflow == ProcessDataflowFor([data EXCEPT !.at = info.at, !.chain = Append(@, file)],
                                       data.files[file])
    IN  [info EXCEPT !.at = OverwriteEnvironments(Now(@, dataflow.at), dataflow.at), !.graph = MergeWith(@, dataflow.graph)]

\* The file is known if it is a string; one that is being analyzed is not analyzed again, and one
\* that can not be parsed is skipped.
ProcessSourceCall(data, id, info) ==
    LET args == Tail(data.ast[id].k)
        value == data.ast[args[1]].k[2]
    IN  IF /\ args # <<>> /\ args[1] # NoId
           /\ value # NoId /\ data.ast[value].t = "String"
           /\ data.ast[value].n \in DOMAIN data.files
           /\ data.ast[value].n \notin ToSet(data.chain)
        THEN SourceRequest(data, data.ast[value].n, info)
        ELSE info

OrSourced(data, id, name, info) ==
    IF IsSourceCall(name, info.at) THEN ProcessSourceCall(data, id, info) ELSE info

\* A call of what fn is known of, after its arguments.
AfterArguments(data, id, name, fn, s) ==
    LET callee == data.ast[id].k[1]
        vertex == [GraphVertex("function-call", name, Contents(Now(data.at, s.at))) EXCEPT !.args = s.args]
        LinkTo(graph) == IF callee \in Functions(data.ast)
                         THEN LinkArgumentsOnCall(data.ast, s.args, Front(data.ast[callee].k), graph) ELSE graph
    IN  OrSourced(data, id, name,
                  Info(<<>>,
                       Append(s.remaining, Reference(id, name, FALSE))
                          \o (IF data.ast[id].n = "named" THEN <<>> ELSE fn.in \o fn.unknown),
                       fn.out, s.at, LinkTo(AddVertex(s.graph, id, vertex))))

ProcessNamedOrUnnamed(data, id, fn) ==
    LET node == data.ast[id]
        callee == node.k[1]
        named == node.n = "named"
        start == [at |-> fn.at, argAt |-> fn.at, args |-> <<>>, remaining |-> <<>>,
                  graph |-> IF named THEN EmptyGraph
                            ELSE MergeWith(AddEdge(EmptyGraph, id, callee, "calls"), fn.graph)]
    IN  AfterArguments(data, id, IF named THEN data.ast[callee].n ELSE UnnamedFunctionCallName(id), fn,
                       FoldLeft(LAMBDA s, arg : ProcessArgument(data, id, s, arg), start, Tail(node.k)))

ProcessFunctionCall(data, id) ==
    ProcessNamedOrUnnamed(data, id, ProcessDataflowFor(data, data.ast[id].k[1]))

-----------------------------------------------------------------------------
(* Definitions of functions                                                *)

\* The node of a parameter is defined by what its default value reads, or by a function.
ProcessFunctionParameter(data, id) ==
    LET value == data.ast[id].k[2]
        name == ProcessDataflowFor(data, data.ast[id].k[1])
        default == IF value = NoId THEN InitializeCleanInfo(data) ELSE ProcessDataflowFor(After(data, name), value)
        reads == default.in \o default.unknown
        definedBy == IF value \in Functions(data.ast) THEN {value} ELSE NodesOf(reads)
        Write(g, w) == AddEdges(SetDefinitionOfVertex(g, w.node), w.node, definedBy, "defined-by")
    IN  Info(<<>>, reads \o name.in, default.out \o name.out \o name.unknown,
             DefineAll(Certain(name.unknown), LocalScope, Now(name.at, default.at)),
             FoldLeft(Write, MergeWith(name.graph, default.graph), name.unknown))

\* A function does not see the environments around it, only their number.
PrepareFunctionEnvironment(data) == In(data, Fresh(data.at, Len(data.at.env)))

\* Ids count from 0 in the code and are texts: "10" comes before "9".
AsText(id) ==
    LET n == id - 1
    IN  CASE n < 10 -> <<100 * n, 1>> [] n \in 10 .. 99 -> <<10 * n, 2>> [] OTHER -> <<n, 3>>
TextBefore(a, b) ==
    \/ AsText(a)[1] < AsText(b)[1]
    \/ AsText(a)[1] = AsText(b)[1] /\ AsText(a)[2] < AsText(b)[2]

\* Reads in parameters: definitions in other parameters, else those in the body; of these only
\* the last one if it is certain. The graph, and what stays open.
FindPromiseLinkagesForParameters(graph, reads, at, out) ==
    LET Candidates(r) == WithName(out, r.name)
        Final(r) == CHOOSE i \in DOMAIN Candidates(r) :
                       \A j \in DOMAIN Candidates(r) :
                          ~ TextBefore(Candidates(r)[i].node, Candidates(r)[j].node)
        PromiseOf(r) == CASE Targets(r.name, at) # {} -> Targets(r.name, at)
                        [] Targets(r.name, at) = {} /\ Candidates(r) = <<>> -> {}
                        [] OTHER -> IF Candidates(r)[Final(r)].maybe THEN NodesOf(Candidates(r))
                                    ELSE {Candidates(r)[Final(r)].node}
    IN  [graph |-> FoldLeft(LAMBDA g, r : AddEdges(g, r.node, PromiseOf(r), "reads"), graph, reads),
         inputs |-> SelectSeq(reads, LAMBDA r : PromiseOf(r) = {})]

\* A variant: what a function returns is not looked at.
LeaveExitPoints(ast, exitPoints, graph, env) == graph

\* What a function returns and is no vertex yet becomes one, related to all vertices in it.
LinkExitPointsInGraph(ast, exitPoints, graph, env) ==
    LET Link1(g, e) ==
            IF HasNode(g, e) THEN g
            ELSE FoldSet(LAMBDA id, h : AddEdge(h, e, id, "relates"),
                         AddVertex(g, e, GraphVertex("exit-point", ast[e].n, env)),
                         {id \in CollectAllIds(ast, e, {}) : HasNode(g, id)})
    IN  FoldLeft(Link1, graph, exitPoints)

\* The open reads of functions in a function are bound by its own definitions where it is left.
\* A definition of a function has its environments in the memory, as calls write what they hold.
UpdateNestedFunctionClosures(exitPoints, graph, outAt) ==
    LET EnvOf(v) == IF v.tag = "function-definition" THEN Contents(At(v.env, outAt.arrays)) ELSE v.env
        EnvAt(g, e) == <<(IF HasNode(g, e) THEN EnvOf(g.vertices[e]) ELSE Contents(outAt))[1]>>
        Bound(g, r, e) == Nodes(Resolve(r.name, EnvAt(g, e)))
        Bind(g, r) == FoldLeft(LAMBDA h, e : AddEdges(h, r.node, Bound(g, r, e), "reads"), g, exitPoints)
        StaysOpen(g, r) == \E i \in DOMAIN exitPoints : Bound(g, r, exitPoints[i]) = {}
        Close(g, fn) ==
            LET open == g.vertices[fn].in
                bound == FoldLeft(Bind, g, open)
            IN  [bound EXCEPT !.vertices[fn].in = SelectSeq(open, LAMBDA r : StaysOpen(g, r))]
    IN  FoldLeft(Close, graph,
                 InOrder({id \in DOMAIN graph.vertices : graph.vertices[id].tag = "function-definition"}))

\* The parameters, one after the other.
WithParameter(s, processed, before) ==
    LET linked == LinkInputs(processed.in \o processed.unknown, Contents(before), s.reads,
                             MergeWith(s.graph, processed.graph), FALSE)
    IN  [graph |-> linked.graph, reads |-> linked.inputs, at |-> OverwriteEnvironments(before, processed.at)]
AfterParameter(s, processed) == WithParameter(s, processed, Now(s.at, processed.at))

ProcessParameters(data, params) ==
    FoldLeft(LAMBDA s, p : AfterParameter(s, ProcessDataflowFor(In(data, s.at), p)),
             [graph |-> EmptyGraph, reads |-> <<>>, at |-> data.at], params)

\* The graph of a function: what its body leaves open are uses of their own in it.
GraphOfFunction(ast, exitPoints, linked, outAt) ==
    LET outEnv == Contents(outAt)
        open == FoldLeft(LAMBDA g, r : AddVertex(g, r.node, GraphVertex("use", r.name, outEnv)),
                         linked.graph, linked.inputs)
    IN  UpdateNestedFunctionClosures(exitPoints, LinkExitPointsInGraph(ast, exitPoints, open, outEnv), outAt)

DefinitionOfFunction(outer, id, exitPoints, inputs, graph, cloned) ==
    Info(<<>>, <<>>, <<>>, Now(outer.at, cloned),
         AddVertex(MergeNested(EmptyGraph, graph), id,
                   [GraphVertex("function-definition", "", cloned.env)
                      EXCEPT !.exitPoints = exitPoints, !.in = inputs]))

OfFunction(outer, id, exitPoints, linked, outAt) ==
    DefinitionOfFunction(outer, id, exitPoints, linked.inputs,
                         GraphOfFunction(outer.ast, exitPoints, linked, outAt), Cloned(PopLocal(outAt)))

\* The reads in the body are linked to the parameters, those in parameters to the body.
LinkBody(body, promises, at) ==
    [LinkInputs(body.in \o body.unknown, Contents(at), promises.inputs, body.graph, TRUE)
        EXCEPT !.graph = SameDefinitions(MergeWith(promises.graph, @), body.out, at)]

WithBody(outer, id, params, body, paramsAt) ==
    OfFunction(outer, id, RetrieveExitPointsOfFunctionDefinition(outer.ast, id),
               LinkBody(body, FindPromiseLinkagesForParameters(params.graph, params.reads, paramsAt, body.out), paramsAt),
               OverwriteEnvironments(paramsAt, body.at))
AfterBodyOfFunction(outer, id, params, body) == WithBody(outer, id, params, body, Now(params.at, body.at))
AfterParameters(outer, id, params) ==
    AfterBodyOfFunction(outer, id, params, ProcessDataflowFor(In(outer, params.at), Last(outer.ast[id].k)))

ProcessFunctionDefinition(outer, id) ==
    AfterParameters(outer, id, ProcessParameters(PrepareFunctionEnvironment(outer), Front(outer.ast[id].k)))

-----------------------------------------------------------------------------
(* extractor.ts: the processor of each type of node                        *)

ProcessBinaryOp(data, id) ==
    IF data.ast[id].n \in Assignments THEN ProcessAssignment(data, id)
    ELSE ProcessNonAssignmentBinaryOp(data, id)

ProcessDataflowFor(data, id) ==
    LET type == data.ast[id].t
    IN  CASE type = "Access"             -> ProcessAccess(data, id)
          [] type = "Symbol"             -> ProcessSymbol(data, id)
          [] type = "BinaryOp"           -> ProcessBinaryOp(data, id)
          [] type = "Pipe"               -> ProcessPipeOperation(data, id)
          [] type = "UnaryOp"            -> ProcessUnaryOp(data, id)
          [] type = "ForLoop"            -> ProcessForLoop(data, id)
          [] type = "WhileLoop"          -> ProcessWhileLoop(data, id)
          [] type = "RepeatLoop"         -> ProcessRepeatLoop(data, id)
          [] type = "IfThenElse"         -> ProcessIfThenElse(data, id)
          [] type = "FunctionCall"       -> ProcessFunctionCall(data, id)
          [] type = "FunctionDefinition" -> ProcessFunctionDefinition(data, id)
          [] type = "Parameter"          -> ProcessFunctionParameter(data, id)
          [] type = "Argument"           -> ProcessFunctionArgument(data, id)
          [] type = "ExpressionList"     -> ProcessExpressionList(data, id)
          [] OTHER                       -> ProcessUninterestingLeaf(data)

\* What the analysis of a program that may source some files starts with, each file with the
\* root of its AST.
InitialData(ast, files) == Data(ast, Clean, files, <<>>)

ProduceDataFlowGraph(ast, files) == ProcessDataflowFor(InitialData(ast, files), Root(ast))
=============================================================================
