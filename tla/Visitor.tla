------------------------------- MODULE Visitor -------------------------------
(***************************************************************************)
(* The visitor of a control flow graph (util/cfg/visitor.ts). It visits a  *)
(* vertex when all it comes after have been visited, and then tries those  *)
(* that come after it; what cannot be visited yet it leaves, to be tried   *)
(* again from the last vertex it waits for.                                *)
(*                                                                         *)
(* In which order the visitor takes the edges into a vertex depends on how *)
(* the graph was built; here it is any.                                    *)
(***************************************************************************)
EXTENDS ControlFlowGraph

VARIABLES cfg,      \* the information of the control flow graph
          visited,  \* the vertices visited
          pending   \* for each visitSingle that has not returned: the vertices it still has to try

walk == <<cfg, visited, pending>>

NoCfg == Undefined

\* What a vertex comes after.
Before(graph, v) == {e.to : e \in {f \in graph.edges : f.from = v}}

\* A variant: what depends on a condition does not come after it.
PredecessorsByFlow(graph, v) == {e.from : e \in {f \in graph.edges : f.to = v /\ f.label = "FD"}}

RetrieveAllPredecessors(graph, v) == {e.from : e \in {f \in graph.edges : f.to = v}}

-----------------------------------------------------------------------------
InitVisitor ==
    /\ cfg = NoCfg
    /\ visited = {}
    /\ pending = <<>>

\* visit: the walk begins with the entry points.
VisitCfg(information) ==
    /\ cfg = NoCfg
    /\ cfg' = information
    /\ pending' = <<information.entry>>
    /\ UNCHANGED visited

\* visitSingle does not visit what it has visited, or not yet all of what comes before.
MustWait(v) == v \in visited \/ ~ Before(cfg.graph, v) \subseteq visited
Tried == IF pending = <<>> THEN {} ELSE pending[1]
Without(v) == <<pending[1] \ {v}>> \o Tail(pending)

TurnAway ==
    /\ \E v \in Tried : MustWait(v) /\ pending' = Without(v)
    /\ UNCHANGED <<cfg, visited>>

Leave ==
    /\ pending # <<>> /\ pending[1] = {}
    /\ pending' = Tail(pending)
    /\ UNCHANGED <<cfg, visited>>

VisitSingle(v) ==
    /\ v \in Tried /\ ~MustWait(v)
    /\ visited' = visited \cup {v}
    /\ pending' = <<RetrieveAllPredecessors(cfg.graph, v)>> \o Without(v)
    /\ UNCHANGED cfg

Walk == TurnAway \/ Leave \/ \E v \in Tried : VisitSingle(v)

-----------------------------------------------------------------------------
Ended == cfg # NoCfg /\ pending = <<>>

\* The visitor can come to a vertex when it starts there, or when there is one before it.
CanBeReached(v) == v \in cfg.entry \/ Before(cfg.graph, v) # {}

\* The visitor ends with what can be visited in some order: it has come to a vertex exactly if
\* it can be reached and all that comes before has been visited. Whatever it has turned away
\* for waiting it has tried again in time, and it has waited for everything.
VisitorMissesNothing ==
    Ended => \A v \in cfg.graph.vertices :
                v \in visited <=> CanBeReached(v) /\ Before(cfg.graph, v) \subseteq visited
=============================================================================
