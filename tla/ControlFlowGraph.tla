-------------------------- MODULE ControlFlowGraph ---------------------------
(***************************************************************************)
(* Control flow graphs (util/cfg/cfg.ts): what a graph is, and how those   *)
(* of the parts of a construct are put together to the graph of the whole, *)
(* one operator per fold.                                                  *)
(*                                                                         *)
(* A vertex is the id of a node with a mark: "" for the node itself,       *)
(* "exit", "name", "before-value" and "params" for the markers around it.  *)
(* An edge goes from what comes later to what comes before. Names and      *)
(* types of vertices are left out, lists of points are sets.               *)
(***************************************************************************)
EXTENDS FiniteSets, SequencesExt

Vertex(id, mark) == <<id, mark>>

-----------------------------------------------------------------------------
(* ControlFlowGraph: vertices, those at the root level, at most one edge   *)
(* between two vertices, and the children of function definitions          *)

EmptyGraph == [vertices |-> {}, roots |-> {}, edges |-> {}, children |-> {}]

AddVertices(graph, added) ==
    [graph EXCEPT !.vertices = @ \cup added, !.roots = @ \cup added]

AddNested(graph, added) == [graph EXCEPT !.vertices = @ \cup added]

\* An edge replaces the one there is between its ends.
AddEdges(graph, added) ==
    [graph EXCEPT !.edges = {e \in @ : \A f \in added : <<e.from, e.to>> # <<f.from, f.to>>} \cup added]

MergeNested(graph, other) ==
    AddEdges([AddNested(graph, other.vertices) EXCEPT !.children = @ \cup other.children], other.edges)
Merge(graph, other) == AddVertices(MergeNested(graph, other), other.roots)

\* Edges from each of some vertices to each of others: of flow, and of control.
FD(from, to) == {[from |-> f, to |-> t, label |-> "FD"] : f \in from, t \in to}
CD(from, to, when) == {[from |-> f, to |-> t, label |-> when] : f \in from, t \in to}

-----------------------------------------------------------------------------
(* ControlFlowInformation: a graph with its loose ends                     *)

EmptyControlFlowInformation ==
    [graph |-> EmptyGraph, breaks |-> {}, nexts |-> {}, returns |-> {}, entry |-> {}, exit |-> {}]

\* The information of a part that is not there: undefined, for which the code takes no points.
Undefined == EmptyControlFlowInformation

\* The jumps of several parts.
Jumps(parts) == [breaks |-> UNION {p.breaks : p \in parts},
                 nexts |-> UNION {p.nexts : p \in parts},
                 returns |-> UNION {p.returns : p \in parts}]

Information(graph, jumps, entry, exit) ==
    [graph |-> graph, breaks |-> jumps.breaks, nexts |-> jumps.nexts, returns |-> jumps.returns,
     entry |-> entry, exit |-> exit]

NoJumps == [breaks |-> {}, nexts |-> {}, returns |-> {}]
OnlyReturns(part) == [NoJumps EXCEPT !.returns = part.returns]

-----------------------------------------------------------------------------
(* The folds                                                               *)

CfgLeaf(id) ==
    LET v == {Vertex(id, "")} IN Information(AddVertices(EmptyGraph, v), NoJumps, v, v)
CfgBreak(id) == [CfgLeaf(id) EXCEPT !.breaks = {Vertex(id, "")}]
CfgNext(id) == [CfgLeaf(id) EXCEPT !.nexts = {Vertex(id, "")}]
CfgIgnore == EmptyControlFlowInformation

CfgIfThenElse(id, condition, then, otherwise, hasElse) ==
    LET if == {Vertex(id, "")}
        exit == {Vertex(id, "exit")}
        parts == Merge(Merge(Merge(AddVertices(EmptyGraph, if \cup exit), condition.graph),
                             then.graph), otherwise.graph)
    IN  Information(
          AddEdges(parts,
               CD(then.entry, condition.exit, "TRUE")
               \cup CD(otherwise.entry, condition.exit, "FALSE")
               \cup FD(condition.entry, if)
               \cup FD(exit, then.exit \cup otherwise.exit)
               \cup (IF hasElse THEN {} ELSE CD(exit, condition.exit, "FALSE"))),
          Jumps({then, otherwise}), if, exit)

CfgRepeat(id, body) ==
    LET repeat == {Vertex(id, "")}
        exit == {Vertex(id, "exit")}
    IN  Information(
          AddEdges(AddVertices(body.graph, repeat \cup exit),
               FD(repeat, body.entry) \cup FD(repeat, body.nexts \cup body.exit)
               \cup FD(exit, body.breaks)),
          OnlyReturns(body), repeat, exit)

\* A variant: a loop is only left by break.
CfgWhileForever(id, condition, body) ==
    LET while == {Vertex(id, "")}
        exit == {Vertex(id, "exit")}
        parts == Merge(AddVertices(condition.graph, while \cup exit), body.graph)
    IN  Information(
          AddEdges(parts, FD(condition.entry, while) \cup CD(body.entry, condition.exit, "TRUE")
                          \cup FD(while, body.nexts \cup body.exit) \cup FD(exit, body.breaks)),
          OnlyReturns(body), while, exit)

CfgWhile(id, condition, body) ==
    LET while == {Vertex(id, "")}
        exit == {Vertex(id, "exit")}
        parts == Merge(AddVertices(condition.graph, while \cup exit), body.graph)
        inner == FD(condition.entry, while)
                 \cup CD(body.entry, condition.exit, "TRUE")
                 \cup FD(while, body.entry)
                 \cup FD(while, body.nexts \cup body.exit)
                 \cup FD(exit, body.breaks)
    IN  Information(AddEdges(AddEdges(parts, inner), CD(exit, condition.exit, "FALSE")),
                    OnlyReturns(body), while, exit)

\* A variant: next does not go back to the head of the loop.
CfgForLosingNext(id, variable, vector, body) ==
    LET for == {Vertex(id, "")}
        exit == {Vertex(id, "exit")}
        parts == Merge(Merge(AddVertices(variable.graph, for \cup exit), vector.graph), body.graph)
        inner == FD(vector.entry, for) \cup FD(variable.entry, vector.exit)
                 \cup CD(body.entry, variable.exit, "TRUE")
                 \cup FD(for, body.exit) \cup FD(exit, body.breaks)
    IN  Information(AddEdges(AddEdges(parts, inner), CD(exit, variable.exit, "FALSE")),
                    OnlyReturns(body), for, exit)

CfgFor(id, variable, vector, body) ==
    LET for == {Vertex(id, "")}
        exit == {Vertex(id, "exit")}
        parts == Merge(Merge(AddVertices(variable.graph, for \cup exit), vector.graph), body.graph)
        inner == FD(vector.entry, for)
                 \cup FD(variable.entry, vector.exit)
                 \cup CD(body.entry, variable.exit, "TRUE")
                 \cup FD(for, body.nexts \cup body.exit)
                 \cup FD(exit, body.breaks)
    IN  Information(AddEdges(AddEdges(parts, inner), CD(exit, variable.exit, "FALSE")),
                    OnlyReturns(body), for, exit)

\* The graphs of the parameters and of the body are nested: not at the root level. Returns
\* leave the function and are handed on as well.
CfgFunctionDefinition(id, params, body) ==
    LET fn == {Vertex(id, "")}
        afterParams == {Vertex(id, "params")}
        exit == {Vertex(id, "exit")}
        nested[n \in 0..Len(params)] ==
            IF n = 0
            THEN MergeNested(AddNested(AddVertices(EmptyGraph, fn), afterParams \cup exit), body.graph)
            ELSE MergeNested(nested[n - 1], params[n].graph)
        children == afterParams \cup exit \cup body.graph.roots
                    \cup UNION {params[i].graph.roots : i \in DOMAIN params}
        Wire(p) == FD(p.entry, fn) \cup FD(afterParams, p.exit)
    IN  Information(
          AddEdges([nested[Len(params)] EXCEPT !.children = @ \cup (fn \X children)],
               (UNION {Wire(params[i]) : i \in DOMAIN params})
               \cup FD(body.entry, afterParams)
               \cup FD(exit, body.returns \cup body.breaks \cup body.nexts \cup body.exit)),
          OnlyReturns(body), fn, fn)

\* Up to the name of the call, and an argument after the one before or after the name.
PassName(id, name) ==
    LET call == {Vertex(id, "")}
        afterName == {Vertex(id, "name")}
    IN  [graph |-> AddEdges(AddVertices(name.graph, call \cup afterName \cup {Vertex(id, "exit")}),
                            FD(name.entry, call) \cup FD(afterName, name.exit)),
         last |-> afterName]
PassArgument(at, arg) ==
    IF arg = Undefined THEN at
    ELSE [graph |-> AddEdges(Merge(at.graph, arg.graph), FD(arg.entry, at.last)), last |-> arg.exit]

\* The arguments one after the other, those that are not there left out.
CfgFunctionCall(id, name, args) ==
    LET exit == {Vertex(id, "exit")}
        passed[n \in 0..Len(args)] ==
            IF n = 0 THEN PassName(id, name) ELSE PassArgument(passed[n - 1], args[n])
        end == passed[Len(args)]
    IN  Information(AddEdges(end.graph, FD(exit, end.last)),
                    Jumps({name} \cup Range(args)), {Vertex(id, "")}, exit)

CfgArgumentOrParameter(id, name, value, hasValue) ==
    LET node == {Vertex(id, "")}
        before == {Vertex(id, "before-value")}
        exit == {Vertex(id, "exit")}
        parts == Merge(Merge(AddVertices(EmptyGraph, node \cup before \cup exit), name.graph), value.graph)
        named == IF name = Undefined THEN node ELSE name.exit
        valued == IF hasValue THEN value.exit ELSE before
    IN  Information(
          AddEdges(parts, FD(name.entry, node) \cup FD(before, named)
                          \cup FD(value.entry, before) \cup FD(exit, valued)),
          Jumps({name, value}), node, exit)

CfgBinaryOp(id, lhs, rhs) ==
    LET op == {Vertex(id, "")}
        exit == {Vertex(id, "exit")}
    IN  Information(
          AddEdges(AddVertices(Merge(lhs.graph, rhs.graph), op \cup exit),
               FD(rhs.entry, lhs.exit) \cup FD(lhs.entry, op) \cup FD(exit, rhs.exit)),
          Jumps({lhs, rhs}), op, exit)

\* Each index starts at the access and ends in its exit; jumps in an index are lost.
AccessName(id, name) ==
    LET access == {Vertex(id, "")}
    IN  AddEdges(AddVertices(name.graph, access \cup {Vertex(id, "exit")}),
                 FD(name.entry, access) \cup FD(access, name.exit))
AccessIndex(id, graph, index) ==
    AddEdges(Merge(graph, index.graph),
             FD(index.entry, {Vertex(id, "")}) \cup FD({Vertex(id, "exit")}, index.exit))

CfgAccess(id, name, accessors) ==
    LET indexed[n \in 0..Len(accessors)] ==
            IF n = 0 THEN AccessName(id, name) ELSE AccessIndex(id, indexed[n - 1], accessors[n])
    IN  Information(indexed[Len(accessors)], Jumps({name}), {Vertex(id, "")}, {Vertex(id, "exit")})

\* Enters with its operand and leaves from itself.
CfgUnaryOp(id, operand) ==
    [operand EXCEPT !.graph = AddVertices(@, {Vertex(id, "")}), !.exit = {Vertex(id, "")}]

\* From the expressions so far to the next one.
NextExpression(all, e) ==
    Information(Merge(AddEdges(all.graph, FD(e.entry, all.exit)), e.graph),
                Jumps({all, e}), all.entry, e.exit)

\* The first expression gives the entry, the last one the exit, even if they have none.
CfgExprList(expressions) ==
    LET first == IF expressions = <<>> THEN {} ELSE expressions[1].entry
        upTo[n \in 0..Len(expressions)] ==
            IF n = 0 THEN [EmptyControlFlowInformation EXCEPT !.entry = first]
            ELSE NextExpression(upTo[n - 1], expressions[n])
    IN  upTo[Len(expressions)]
=============================================================================
