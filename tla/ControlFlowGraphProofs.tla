----------------------- MODULE ControlFlowGraphProofs ------------------------
(***************************************************************************)
(* The folds of the control flow graph make hammocks of hammocks, for      *)
(* every number of expressions, arguments, indices and parameters: one     *)
(* entry, one exit, the flow comes from the entry to all that is there and *)
(* from all that is there to the exit. It does not for unary operations    *)
(* and for repeat.                                                         *)
(*                                                                         *)
(* That the flow comes from the entry to everywhere is said of sets: any   *)
(* that has the entry, and with what comes before also what comes after,   *)
(* has all. So no paths are needed, and an arrow is a step of the proof.   *)
(* What is nested in a function is not on the root level, and not meant.   *)
(***************************************************************************)
EXTENDS ControlFlowGraph, WellFoundedInduction, NaturalsInduction, TLAPS

-----------------------------------------------------------------------------
(* Graphs *)

Labels == {"FD", "TRUE", "FALSE"}
EdgesIn(vertices) == [from : vertices, to : vertices, label : Labels]

IsGraph(graph) ==
    /\ graph = [vertices |-> graph.vertices, roots |-> graph.roots, edges |-> graph.edges, children |-> graph.children]
    /\ graph.roots \subseteq graph.vertices
    /\ graph.edges \subseteq EdgesIn(graph.vertices)
    /\ graph.children \subseteq graph.vertices \X graph.vertices

\* From what comes later to what comes before.
Arrows(edges) == {<<e.from, e.to>> : e \in edges}

\* No edge of a graph leaves it, nor does a loose end.
IsInformation(i) ==
    /\ IsGraph(i.graph)
    /\ i.entry \subseteq i.graph.vertices /\ i.exit \subseteq i.graph.vertices
    /\ i.breaks \subseteq i.graph.vertices /\ i.nexts \subseteq i.graph.vertices
    /\ i.returns \subseteq i.graph.vertices

LEMMA GraphFields ==
    ASSUME NEW graph, IsGraph(graph)
    PROVE  /\ graph.roots \subseteq graph.vertices
           /\ graph.edges \subseteq EdgesIn(graph.vertices)
           /\ graph.children \subseteq graph.vertices \X graph.vertices
           /\ Arrows(graph.edges) \subseteq graph.vertices \X graph.vertices
BY DEF IsGraph, EdgesIn, Arrows

\* Edges within a graph, by their arrows.
Fits(edges, V, A) == edges \subseteq EdgesIn(V) /\ Arrows(edges) = A

LEMMA FlowFits ==
    ASSUME NEW V, NEW from \in SUBSET V, NEW to \in SUBSET V
    PROVE  Fits(FD(from, to), V, from \X to)
<1>1. ASSUME NEW f \in from, NEW t \in to
      PROVE  [from |-> f, to |-> t, label |-> "FD"] \in EdgesIn(V)
  BY DEF EdgesIn, Labels
<1>2. ASSUME NEW f \in from, NEW t \in to
      PROVE  <<f, t>> \in Arrows(FD(from, to))
  <2>1. [from |-> f, to |-> t, label |-> "FD"] \in FD(from, to)
    BY DEF FD
  <2> QED BY <2>1 DEF Arrows
<1>3. Arrows(FD(from, to)) \subseteq from \X to
  BY DEF FD, Arrows
<1> QED BY <1>1, <1>2, <1>3 DEF FD, Fits

LEMMA ControlFits ==
    ASSUME NEW V, NEW from \in SUBSET V, NEW to \in SUBSET V, NEW when \in Labels
    PROVE  Fits(CD(from, to, when), V, from \X to)
<1>1. ASSUME NEW f \in from, NEW t \in to
      PROVE  [from |-> f, to |-> t, label |-> when] \in EdgesIn(V)
  BY DEF EdgesIn, Labels
<1>2. ASSUME NEW f \in from, NEW t \in to
      PROVE  <<f, t>> \in Arrows(CD(from, to, when))
  <2>1. [from |-> f, to |-> t, label |-> when] \in CD(from, to, when)
    BY DEF CD
  <2> QED BY <2>1 DEF Arrows
<1>3. Arrows(CD(from, to, when)) \subseteq from \X to
  BY DEF CD, Arrows
<1> QED BY <1>1, <1>2, <1>3 DEF CD, Fits

LEMMA BothFit ==
    ASSUME NEW V, NEW edges, NEW A, Fits(edges, V, A), NEW more, NEW B, Fits(more, V, B)
    PROVE  Fits(edges \cup more, V, A \cup B)
BY DEF Fits, Arrows

LEMMA ArrowsTogether ==
    ASSUME NEW A, NEW B
    PROVE  Arrows(A \cup B) = Arrows(A) \cup Arrows(B)
BY DEF Arrows

LEMMA MoreVertices ==
    ASSUME NEW V, NEW W, V \subseteq W
    PROVE  EdgesIn(V) \subseteq EdgesIn(W)
BY DEF EdgesIn

LEMMA EmptyGraphIsOne ==
    IsGraph(EmptyGraph) /\ EmptyGraph.vertices = {} /\ EmptyGraph.roots = {} /\ Arrows(EmptyGraph.edges) = {}
BY DEF IsGraph, EmptyGraph, EdgesIn, Arrows

LEMMA OneField ==
    ASSUME NEW V, NEW R, NEW E, NEW C, NEW A, NEW graph,
           graph = [vertices |-> V, roots |-> R, edges |-> E, children |-> C]
    PROVE  /\ [graph EXCEPT !.vertices = A] = [vertices |-> A, roots |-> R, edges |-> E, children |-> C]
           /\ [graph EXCEPT !.roots = A] = [vertices |-> V, roots |-> A, edges |-> E, children |-> C]
           /\ [graph EXCEPT !.edges = A] = [vertices |-> V, roots |-> R, edges |-> A, children |-> C]
           /\ [graph EXCEPT !.children = A] = [vertices |-> V, roots |-> R, edges |-> E, children |-> A]
OBVIOUS

LEMMA TwoFields ==
    ASSUME NEW V, NEW R, NEW E, NEW C, NEW A, NEW B,
           NEW graph, graph = [vertices |-> V, roots |-> R, edges |-> E, children |-> C]
    PROVE  [graph EXCEPT !.vertices = A, !.roots = B] = [vertices |-> A, roots |-> B, edges |-> E, children |-> C]
<1>1. [graph EXCEPT !.vertices = A, !.roots = B] = [[graph EXCEPT !.vertices = A] EXCEPT !.roots = B]
  OBVIOUS
<1>2. PICK h : h = [graph EXCEPT !.vertices = A]
  OBVIOUS
<1>3. h = [vertices |-> A, roots |-> R, edges |-> E, children |-> C]
  BY <1>2, OneField
<1>4. [h EXCEPT !.roots = B] = [vertices |-> A, roots |-> B, edges |-> E, children |-> C]
  BY <1>3, OneField
<1> QED BY <1>1, <1>2, <1>4

LEMMA AddingVertices ==
    ASSUME NEW graph, IsGraph(graph), NEW added
    PROVE  /\ IsGraph(AddVertices(graph, added))
           /\ AddVertices(graph, added).vertices = graph.vertices \cup added
           /\ AddVertices(graph, added).roots = graph.roots \cup added
           /\ Arrows(AddVertices(graph, added).edges) = Arrows(graph.edges)
<1> DEFINE new == AddVertices(graph, added)
<1>1. /\ new.vertices = graph.vertices \cup added /\ new.roots = graph.roots \cup added
      /\ new.edges = graph.edges /\ new.children = graph.children
      /\ new = [vertices |-> new.vertices, roots |-> new.roots, edges |-> new.edges, children |-> new.children]
  <2>1. PICK V, R, E, C : graph = [vertices |-> V, roots |-> R, edges |-> E, children |-> C]
    BY DEF IsGraph
  <2>2. new = [vertices |-> V \cup added, roots |-> R \cup added, edges |-> E, children |-> C]
    <3>1. new = [graph EXCEPT !.vertices = V \cup added, !.roots = R \cup added]
      BY <2>1 DEF AddVertices
    <3> QED BY <2>1, <3>1, TwoFields
  <2> QED BY <2>1, <2>2
<1>2. new.edges \subseteq EdgesIn(new.vertices)
  BY <1>1, GraphFields, MoreVertices
<1>3. new.children \subseteq new.vertices \X new.vertices
  BY <1>1, GraphFields
<1>4. new.roots \subseteq new.vertices
  BY <1>1, GraphFields
<1> HIDE DEF new
<1>5. IsGraph(new)
  BY <1>1, <1>2, <1>3, <1>4 DEF IsGraph
<1> QED BY <1>1, <1>5 DEF new

LEMMA AddingEdges ==
    ASSUME NEW graph, IsGraph(graph), NEW added, added \subseteq EdgesIn(graph.vertices)
    PROVE  /\ IsGraph(AddEdges(graph, added))
           /\ AddEdges(graph, added).vertices = graph.vertices
           /\ AddEdges(graph, added).roots = graph.roots
           /\ Arrows(AddEdges(graph, added).edges) = Arrows(graph.edges) \cup Arrows(added)
<1> DEFINE new == AddEdges(graph, added)
           kept == {e \in graph.edges : \A f \in added : <<e.from, e.to>> # <<f.from, f.to>>}
<1>1. /\ new.vertices = graph.vertices /\ new.roots = graph.roots
      /\ new.edges = kept \cup added /\ new.children = graph.children
      /\ new = [vertices |-> new.vertices, roots |-> new.roots, edges |-> new.edges, children |-> new.children]
  <2>1. PICK V, R, E, C : graph = [vertices |-> V, roots |-> R, edges |-> E, children |-> C]
    BY DEF IsGraph
  <2>2. new = [vertices |-> V, roots |-> R,
                edges |-> {e \in E : \A f \in added : <<e.from, e.to>> # <<f.from, f.to>>} \cup added,
                children |-> C]
    BY <2>1 DEF AddEdges
  <2> QED BY <2>1, <2>2
<1>2. new.edges \subseteq EdgesIn(new.vertices)
  BY <1>1, GraphFields
<1>3. Arrows(graph.edges) \cup Arrows(added) = Arrows(kept) \cup Arrows(added)
  <2>1. ASSUME NEW e \in graph.edges PROVE <<e.from, e.to>> \in Arrows(kept) \cup Arrows(added)
    <3>1. CASE e \in kept
      BY <3>1 DEF Arrows
    <3>2. CASE e \notin kept
      BY <3>2 DEF Arrows
    <3> QED BY <3>1, <3>2
  <2>2. Arrows(kept) \subseteq Arrows(graph.edges)
    BY DEF Arrows
  <2>3. Arrows(graph.edges) \subseteq Arrows(kept) \cup Arrows(added)
    BY <2>1 DEF Arrows
  <2> QED BY <2>2, <2>3
<1>4. Arrows(new.edges) = Arrows(kept) \cup Arrows(added)
  BY <1>1, ArrowsTogether
<1> HIDE DEF new, kept
<1>5. IsGraph(new)
  BY <1>1, <1>2, GraphFields DEF IsGraph
<1> QED BY <1>1, <1>3, <1>4, <1>5 DEF new

LEMMA MergingNested ==
    ASSUME NEW graph, IsGraph(graph), NEW other, IsGraph(other)
    PROVE  /\ IsGraph(MergeNested(graph, other))
           /\ MergeNested(graph, other).vertices = graph.vertices \cup other.vertices
           /\ MergeNested(graph, other).roots = graph.roots
           /\ Arrows(MergeNested(graph, other).edges) = Arrows(graph.edges) \cup Arrows(other.edges)
<1>0. PICK wider : wider = [AddNested(graph, other.vertices) EXCEPT !.children = @ \cup other.children]
  OBVIOUS
<1>1. /\ wider.vertices = graph.vertices \cup other.vertices /\ wider.roots = graph.roots
      /\ wider.edges = graph.edges /\ wider.children = graph.children \cup other.children
      /\ wider = [vertices |-> wider.vertices, roots |-> wider.roots, edges |-> wider.edges, children |-> wider.children]
  <2>1. PICK V, R, E, C : graph = [vertices |-> V, roots |-> R, edges |-> E, children |-> C]
    BY DEF IsGraph
  <2>2. PICK nested : nested = AddNested(graph, other.vertices)
    OBVIOUS
  <2>3. nested = [graph EXCEPT !.vertices = V \cup other.vertices]
    BY <2>1, <2>2 DEF AddNested
  <2>4. nested = [vertices |-> V \cup other.vertices, roots |-> R, edges |-> E, children |-> C]
    BY <2>1, <2>3, OneField
  <2>5. wider = [nested EXCEPT !.children = C \cup other.children]
    BY <1>0, <2>2, <2>4
  <2>6. wider = [vertices |-> V \cup other.vertices, roots |-> R, edges |-> E, children |-> C \cup other.children]
    BY <2>4, <2>5, OneField
  <2> QED BY <2>1, <2>6
<1>2. wider.edges \subseteq EdgesIn(wider.vertices) /\ other.edges \subseteq EdgesIn(wider.vertices)
  BY <1>1, GraphFields, MoreVertices
<1>3. wider.children \subseteq wider.vertices \X wider.vertices
  BY <1>1, GraphFields
<1>4. wider.roots \subseteq wider.vertices
  BY <1>1, GraphFields
<1>5. MergeNested(graph, other) = AddEdges(wider, other.edges)
  BY <1>0 DEF MergeNested
<1>6. IsGraph(wider)
  BY <1>1, <1>2, <1>3, <1>4 DEF IsGraph
<1>7. /\ IsGraph(AddEdges(wider, other.edges))
      /\ AddEdges(wider, other.edges).vertices = wider.vertices
      /\ AddEdges(wider, other.edges).roots = wider.roots
      /\ Arrows(AddEdges(wider, other.edges).edges) = Arrows(wider.edges) \cup Arrows(other.edges)
  BY <1>2, <1>6, AddingEdges
<1> QED BY <1>1, <1>5, <1>7

LEMMA Merging ==
    ASSUME NEW graph, IsGraph(graph), NEW other, IsGraph(other)
    PROVE  /\ IsGraph(Merge(graph, other))
           /\ Merge(graph, other).vertices = graph.vertices \cup other.vertices
           /\ Merge(graph, other).roots = graph.roots \cup other.roots
           /\ Arrows(Merge(graph, other).edges) = Arrows(graph.edges) \cup Arrows(other.edges)
BY MergingNested, AddingVertices, GraphFields DEF Merge

-----------------------------------------------------------------------------
(* Putting graphs together *)

\* A graph by its vertices, those of the root level, and its arrows.
Built(graph, V, R, A) ==
    IsGraph(graph) /\ graph.vertices = V /\ graph.roots = R /\ Arrows(graph.edges) = A

LEMMA BuiltPart ==
    ASSUME NEW graph, IsGraph(graph)
    PROVE  Built(graph, graph.vertices, graph.roots, Arrows(graph.edges))
BY DEF Built

LEMMA BuiltVertices ==
    ASSUME NEW graph, NEW V, NEW R, NEW A, Built(graph, V, R, A), NEW added
    PROVE  Built(AddVertices(graph, added), V \cup added, R \cup added, A)
BY AddingVertices DEF Built

LEMMA BuiltMerge ==
    ASSUME NEW graph, NEW V, NEW R, NEW A, Built(graph, V, R, A),
           NEW other, NEW W, NEW S, NEW B, Built(other, W, S, B)
    PROVE  Built(Merge(graph, other), V \cup W, R \cup S, A \cup B)
BY Merging DEF Built

LEMMA BuiltOnVertices ==
    ASSUME NEW added, NEW other, NEW W, NEW S, NEW B, Built(other, W, S, B)
    PROVE  Built(Merge(AddVertices(EmptyGraph, added), other), added \cup W, added \cup S, B)
<1>1. PICK graph : graph = AddVertices(EmptyGraph, added)
  OBVIOUS
<1>2. Built(graph, added, added, {})
  <2>1. PICK none : none = EmptyGraph
    OBVIOUS
  <2>2. /\ IsGraph(none) /\ none.vertices = {} /\ none.roots = {} /\ Arrows(none.edges) = {}
        /\ graph = AddVertices(none, added)
    BY <1>1, <2>1, EmptyGraphIsOne
  <2>3. /\ IsGraph(graph) /\ graph.vertices = none.vertices \cup added
        /\ graph.roots = none.roots \cup added /\ Arrows(graph.edges) = Arrows(none.edges)
    BY <2>2, AddingVertices
  <2> QED BY <2>2, <2>3 DEF Built
<1>3. Built(Merge(graph, other), added \cup W, added \cup S, {} \cup B)
  BY <1>2, BuiltMerge
<1> QED BY <1>1, <1>3 DEF Built

LEMMA BuiltEdges ==
    ASSUME NEW graph, NEW V, NEW R, NEW A, Built(graph, V, R, A),
           NEW added, NEW B, added \subseteq EdgesIn(V), Arrows(added) = B
    PROVE  Built(AddEdges(graph, added), V, R, A \cup B)
BY AddingEdges DEF Built

LEMMA ControlFitsBoth ==
    ASSUME NEW V, NEW from \in SUBSET V, NEW to \in SUBSET V
    PROVE  Fits(CD(from, to, "TRUE"), V, from \X to) /\ Fits(CD(from, to, "FALSE"), V, from \X to)
<1>1. "TRUE" \in Labels /\ "FALSE" \in Labels
  BY DEF Labels
<1> QED BY <1>1, ControlFits

-----------------------------------------------------------------------------
(* What a graph is good for *)

Forth(A, S) == \A a \in A : a[2] \in S => a[1] \in S
Back(A, S) == \A a \in A : a[1] \in S => a[2] \in S

\* From the entry the flow comes everywhere, and from everywhere to the exit; on the root level,
\* where the bodies of functions are not.
AllAfterEntry(i) ==
    \A S \in SUBSET i.graph.vertices :
        i.entry \subseteq S /\ Forth(Arrows(i.graph.edges), S) => i.graph.roots \subseteq S
AllBeforeExit(i) ==
    \A S \in SUBSET i.graph.vertices :
        i.exit \subseteq S /\ Back(Arrows(i.graph.edges), S) => i.graph.roots \subseteq S

Hammock(i) ==
    /\ IsInformation(i)
    /\ \E v \in i.graph.roots : i.entry = {v}
    /\ \E v \in i.graph.roots : i.exit = {v}
    /\ AllAfterEntry(i)
    /\ AllBeforeExit(i)

\* A part that need not be there.
HammockOrNothing(i) == Hammock(i) \/ i = Undefined

LEMMA NothingIsAnInformation ==
    /\ IsInformation(Undefined) /\ Undefined.entry = {} /\ Undefined.exit = {}
    /\ Undefined.graph.vertices = {} /\ Undefined.graph.roots = {}
BY EmptyGraphIsOne DEF IsInformation, Undefined, EmptyControlFlowInformation

LEMMA FlowThroughHammock ==
    ASSUME NEW part, Hammock(part), NEW A, Arrows(part.graph.edges) \subseteq A, NEW S
    PROVE  /\ part.entry \subseteq S /\ Forth(A, S) => part.graph.roots \subseteq S
           /\ part.exit \subseteq S /\ Back(A, S) => part.graph.roots \subseteq S
<1> DEFINE T == S \cap part.graph.vertices
<1>1. T \in SUBSET part.graph.vertices
  OBVIOUS
<1>2. Arrows(part.graph.edges) \subseteq part.graph.vertices \X part.graph.vertices
  BY GraphFields DEF Hammock, IsInformation
<1>3. part.entry \subseteq part.graph.vertices /\ part.exit \subseteq part.graph.vertices
  BY DEF Hammock, IsInformation
<1>4. Forth(A, S) => Forth(Arrows(part.graph.edges), T)
  BY <1>2 DEF Forth
<1>5. Back(A, S) => Back(Arrows(part.graph.edges), T)
  BY <1>2 DEF Back
<1>6. part.entry \subseteq S /\ Forth(A, S) => part.graph.roots \subseteq T
  <2> HIDE DEF T
  <2>1. part.entry \subseteq S => part.entry \subseteq T
    BY <1>3 DEF T
  <2> QED BY <1>1, <1>4, <2>1 DEF Hammock, AllAfterEntry
<1>7. part.exit \subseteq S /\ Back(A, S) => part.graph.roots \subseteq T
  <2> HIDE DEF T
  <2>1. part.exit \subseteq S => part.exit \subseteq T
    BY <1>3 DEF T
  <2> QED BY <1>1, <1>5, <2>1 DEF Hammock, AllBeforeExit
<1> QED BY <1>6, <1>7

LEMMA FlowThroughPart ==
    ASSUME NEW part, HammockOrNothing(part), NEW A, Arrows(part.graph.edges) \subseteq A, NEW S
    PROVE  /\ part.entry \subseteq S /\ Forth(A, S) => part.graph.roots \subseteq S
           /\ part.exit \subseteq S /\ Back(A, S) => part.graph.roots \subseteq S
BY FlowThroughHammock, NothingIsAnInformation DEF HammockOrNothing

LEMMA PartFields ==
    ASSUME NEW i, HammockOrNothing(i)
    PROVE  /\ IsInformation(i) /\ IsGraph(i.graph)
           /\ i.entry \subseteq i.graph.roots /\ i.entry \subseteq i.graph.vertices
           /\ i.exit \subseteq i.graph.roots /\ i.exit \subseteq i.graph.vertices
<1>1. CASE Hammock(i)
  BY <1>1, GraphFields DEF Hammock, IsInformation
<1>2. CASE i = Undefined
  BY <1>2, NothingIsAnInformation DEF IsInformation
<1> QED BY <1>1, <1>2 DEF HammockOrNothing

LEMMA HammockFields ==
    ASSUME NEW i, Hammock(i)
    PROVE  HammockOrNothing(i) /\ i.entry # {} /\ i.exit # {}
BY DEF Hammock, HammockOrNothing

\* Arrows from each of some vertices to each of others.
Wired(A, from, to) == from \X to \subseteq A

LEMMA Forwards ==
    ASSUME NEW A, NEW S, Forth(A, S), NEW from, NEW to, Wired(A, from, to),
           to # {}, to \subseteq S
    PROVE  from \subseteq S
<1> SUFFICES ASSUME NEW f \in from PROVE f \in S
  OBVIOUS
<1>1. PICK t \in to : t \in S
  OBVIOUS
<1>2. <<f, t>> \in A
  BY <1>1 DEF Wired
<1> QED BY <1>1, <1>2 DEF Forth

LEMMA Backwards ==
    ASSUME NEW A, NEW S, Back(A, S), NEW from, NEW to, Wired(A, from, to),
           from # {}, from \subseteq S
    PROVE  to \subseteq S
<1> SUFFICES ASSUME NEW t \in to PROVE t \in S
  OBVIOUS
<1>1. PICK f \in from : f \in S
  OBVIOUS
<1>2. <<f, t>> \in A
  BY <1>1 DEF Wired
<1> QED BY <1>1, <1>2 DEF Back

-----------------------------------------------------------------------------
(* Informations *)

JumpsWithin(jumps, V) == jumps.breaks \subseteq V /\ jumps.nexts \subseteq V /\ jumps.returns \subseteq V

\* An information by its graph and its ends.
Made(i, V, R, A, entry, exit) ==
    Built(i.graph, V, R, A) /\ i.entry = entry /\ i.exit = exit /\ IsInformation(i)

LEMMA MadeInformation ==
    ASSUME NEW graph, NEW V, NEW R, NEW A, Built(graph, V, R, A), NEW jumps, JumpsWithin(jumps, V),
           NEW entry \in SUBSET V, NEW exit \in SUBSET V
    PROVE  Made(Information(graph, jumps, entry, exit), V, R, A, entry, exit)
<1>1. PICK i : i = Information(graph, jumps, entry, exit)
  OBVIOUS
<1>2. /\ i.graph = graph /\ i.entry = entry /\ i.exit = exit
      /\ i.breaks = jumps.breaks /\ i.nexts = jumps.nexts /\ i.returns = jumps.returns
  BY <1>1 DEF Information
<1>3. Made(i, V, R, A, entry, exit)
  BY <1>2 DEF Made, Built, IsInformation, JumpsWithin
<1> QED BY <1>1, <1>3

LEMMA MadeFromParts ==
    ASSUME NEW parts, NEW V, NEW R, NEW A, Built(parts, V, R, A), NEW edges, NEW B, Fits(edges, V, B),
           NEW jumps, JumpsWithin(jumps, V), NEW entry \in SUBSET V, NEW exit \in SUBSET V,
           NEW i, i = Information(AddEdges(parts, edges), jumps, entry, exit)
    PROVE  Made(i, V, R, A \cup B, entry, exit)
<1>1. PICK graph : graph = AddEdges(parts, edges)
  OBVIOUS
<1>2. Built(graph, V, R, A \cup B)
  BY <1>1, BuiltEdges DEF Fits
<1> QED BY <1>1, <1>2, MadeInformation

LEMMA JumpsOfParts ==
    ASSUME NEW parts, NEW V, \A p \in parts : IsInformation(p) /\ p.graph.vertices \subseteq V
    PROVE  JumpsWithin(Jumps(parts), V)
BY DEF JumpsWithin, Jumps, IsInformation

LEMMA JumpsOfOnePart ==
    ASSUME NEW part, NEW V, IsInformation(part), part.graph.vertices \subseteq V
    PROVE  JumpsWithin(OnlyReturns(part), V)
BY DEF JumpsWithin, OnlyReturns, NoJumps, IsInformation

-----------------------------------------------------------------------------
(* Binary operations and pipes *)

LEMMA BinaryOpMade ==
    ASSUME NEW id, NEW lhs, NEW rhs, IsInformation(lhs), IsInformation(rhs),
           NEW op, op = {Vertex(id, "")}, NEW exit, exit = {Vertex(id, "exit")}
    PROVE  Made(CfgBinaryOp(id, lhs, rhs),
                lhs.graph.vertices \cup rhs.graph.vertices \cup (op \cup exit),
                lhs.graph.roots \cup rhs.graph.roots \cup (op \cup exit),
                Arrows(lhs.graph.edges) \cup Arrows(rhs.graph.edges)
                  \cup (rhs.entry \X lhs.exit \cup lhs.entry \X op \cup exit \X rhs.exit),
                op, exit)
<1> DEFINE V == lhs.graph.vertices \cup rhs.graph.vertices \cup (op \cup exit)
           R == lhs.graph.roots \cup rhs.graph.roots \cup (op \cup exit)
           A == Arrows(lhs.graph.edges) \cup Arrows(rhs.graph.edges)
           B == rhs.entry \X lhs.exit \cup lhs.entry \X op \cup exit \X rhs.exit
           parts == AddVertices(Merge(lhs.graph, rhs.graph), op \cup exit)
           edges == FD(rhs.entry, lhs.exit) \cup FD(lhs.entry, op) \cup FD(exit, rhs.exit)
<1>1. Built(parts, V, R, A)
  BY BuiltPart, BuiltMerge, BuiltVertices DEF IsInformation
<1>2. lhs.entry \in SUBSET V /\ lhs.exit \in SUBSET V /\ rhs.entry \in SUBSET V /\ rhs.exit \in SUBSET V
      /\ op \in SUBSET V /\ exit \in SUBSET V
  BY DEF IsInformation
<1>3. \A p \in {lhs, rhs} : IsInformation(p) /\ p.graph.vertices \subseteq V
  OBVIOUS
<1>4. CfgBinaryOp(id, lhs, rhs) = Information(AddEdges(parts, edges), Jumps({lhs, rhs}), op, exit)
  BY DEF CfgBinaryOp
<1> HIDE DEF V, R, A, parts
<1>8. JumpsWithin(Jumps({lhs, rhs}), V)
  BY <1>3, JumpsOfParts
<1>5. Fits(edges, V, B)
  BY <1>2, FlowFits, BothFit
<1> HIDE DEF B, edges
<1>7. Made(CfgBinaryOp(id, lhs, rhs), V, R, A \cup B, op, exit)
  BY <1>1, <1>2, <1>4, <1>5, <1>8, MadeFromParts
<1> QED BY <1>7 DEF V, R, A, B

LEMMA HammockFromArrows ==
    ASSUME NEW i, NEW V, NEW R, NEW A, NEW first, NEW last, Made(i, V, R, A, first, last),
           \E v \in R : first = {v}, \E v \in R : last = {v},
           \A S \in SUBSET V : first \subseteq S /\ Forth(A, S) => R \subseteq S,
           \A S \in SUBSET V : last \subseteq S /\ Back(A, S) => R \subseteq S
    PROVE  Hammock(i)
BY DEF Hammock, AllAfterEntry, AllBeforeExit, Made, Built

\* cfgBinaryOp, and pipes (cfg.ts): two hammocks in a line are one.
THEOREM BinaryOpIsAHammock ==
    ASSUME NEW id, NEW lhs, NEW rhs, Hammock(lhs), Hammock(rhs)
    PROVE  Hammock(CfgBinaryOp(id, lhs, rhs))
<1>1. PICK first, last : first = {Vertex(id, "")} /\ last = {Vertex(id, "exit")}
  OBVIOUS
<1> DEFINE V == lhs.graph.vertices \cup rhs.graph.vertices \cup (first \cup last)
           R == lhs.graph.roots \cup rhs.graph.roots \cup (first \cup last)
           A == Arrows(lhs.graph.edges) \cup Arrows(rhs.graph.edges)
                \cup (rhs.entry \X lhs.exit \cup lhs.entry \X first \cup last \X rhs.exit)
<1>2. Made(CfgBinaryOp(id, lhs, rhs), V, R, A, first, last)
  BY <1>1, BinaryOpMade, HammockFields, PartFields
<1>3. /\ Arrows(lhs.graph.edges) \subseteq A /\ Arrows(rhs.graph.edges) \subseteq A
      /\ Wired(A, lhs.entry, first) /\ Wired(A, rhs.entry, lhs.exit) /\ Wired(A, last, rhs.exit)
  BY DEF Wired
<1>4. (\E v \in R : first = {v}) /\ (\E v \in R : last = {v}) /\ first # {} /\ last # {}
  BY <1>1
<1> HIDE DEF A
<1>5. ASSUME NEW S \in SUBSET V, first \subseteq S, Forth(A, S) PROVE R \subseteq S
  <2>1. lhs.entry \subseteq S
    BY <1>3, <1>4, <1>5, Forwards
  <2>2. lhs.graph.roots \subseteq S
    BY <1>3, <1>5, <2>1, FlowThroughPart, HammockFields
  <2>3. rhs.entry \subseteq S
    BY <1>3, <1>5, <2>2, Forwards, HammockFields, PartFields
  <2>4. rhs.graph.roots \subseteq S
    BY <1>3, <1>5, <2>3, FlowThroughPart, HammockFields
  <2>5. last \subseteq S
    BY <1>3, <1>5, <2>4, Forwards, HammockFields, PartFields
  <2> QED BY <1>5, <2>2, <2>4, <2>5
<1>6. ASSUME NEW S \in SUBSET V, last \subseteq S, Back(A, S) PROVE R \subseteq S
  <2>1. rhs.exit \subseteq S
    BY <1>3, <1>4, <1>6, Backwards
  <2>2. rhs.graph.roots \subseteq S
    BY <1>3, <1>6, <2>1, FlowThroughPart, HammockFields
  <2>3. lhs.exit \subseteq S
    BY <1>3, <1>6, <2>2, Backwards, HammockFields, PartFields
  <2>4. lhs.graph.roots \subseteq S
    BY <1>3, <1>6, <2>3, FlowThroughPart, HammockFields
  <2>5. first \subseteq S
    BY <1>3, <1>6, <2>4, Backwards, HammockFields, PartFields
  <2> QED BY <1>6, <2>2, <2>4, <2>5
<1> HIDE DEF V, R
<1> QED BY <1>2, <1>4, <1>5, <1>6, HammockFromArrows

-----------------------------------------------------------------------------
(* if *)

LEMMA IfThenElseMade ==
    ASSUME NEW id, NEW cond, NEW then, NEW other, NEW hasElse,
           IsInformation(cond), IsInformation(then), IsInformation(other),
           NEW first, first = {Vertex(id, "")}, NEW last, last = {Vertex(id, "exit")}
    PROVE  Made(CfgIfThenElse(id, cond, then, other, hasElse),
                first \cup last \cup cond.graph.vertices \cup then.graph.vertices \cup other.graph.vertices,
                first \cup last \cup cond.graph.roots \cup then.graph.roots \cup other.graph.roots,
                Arrows(cond.graph.edges) \cup Arrows(then.graph.edges) \cup Arrows(other.graph.edges)
                  \cup (then.entry \X cond.exit \cup other.entry \X cond.exit \cup cond.entry \X first
                        \cup last \X (then.exit \cup other.exit)
                        \cup (IF hasElse THEN {} ELSE last \X cond.exit)),
                first, last)
<1> DEFINE V == first \cup last \cup cond.graph.vertices \cup then.graph.vertices \cup other.graph.vertices
           R == first \cup last \cup cond.graph.roots \cup then.graph.roots \cup other.graph.roots
           A == Arrows(cond.graph.edges) \cup Arrows(then.graph.edges) \cup Arrows(other.graph.edges)
           B == then.entry \X cond.exit \cup other.entry \X cond.exit \cup cond.entry \X first
                \cup last \X (then.exit \cup other.exit) \cup (IF hasElse THEN {} ELSE last \X cond.exit)
           parts == Merge(Merge(Merge(AddVertices(EmptyGraph, first \cup last), cond.graph), then.graph), other.graph)
           edges == CD(then.entry, cond.exit, "TRUE") \cup CD(other.entry, cond.exit, "FALSE")
                    \cup FD(cond.entry, first) \cup FD(last, then.exit \cup other.exit)
                    \cup (IF hasElse THEN {} ELSE CD(last, cond.exit, "FALSE"))
<1>1. Built(parts, V, R, A)
  <2>1. Built(cond.graph, cond.graph.vertices, cond.graph.roots, Arrows(cond.graph.edges))
    BY BuiltPart DEF IsInformation
  <2>2. Built(Merge(AddVertices(EmptyGraph, first \cup last), cond.graph),
              first \cup last \cup cond.graph.vertices, first \cup last \cup cond.graph.roots,
              Arrows(cond.graph.edges))
    BY <2>1, BuiltOnVertices
  <2> QED BY <2>2, BuiltPart, BuiltMerge DEF IsInformation
<1>2. /\ cond.entry \in SUBSET V /\ cond.exit \in SUBSET V /\ then.entry \in SUBSET V
      /\ other.entry \in SUBSET V /\ then.exit \cup other.exit \in SUBSET V
      /\ first \in SUBSET V /\ last \in SUBSET V
  BY DEF IsInformation
<1>3. \A p \in {then, other} : IsInformation(p) /\ p.graph.vertices \subseteq V
  OBVIOUS
<1>4. CfgIfThenElse(id, cond, then, other, hasElse) =
        Information(AddEdges(parts, edges), Jumps({then, other}), first, last)
  BY DEF CfgIfThenElse
<1> HIDE DEF V, R, A, parts
<1>5. JumpsWithin(Jumps({then, other}), V)
  BY <1>3, JumpsOfParts
<1>6. Fits(edges, V, B)
  <2>1. Fits(CD(then.entry, cond.exit, "TRUE") \cup CD(other.entry, cond.exit, "FALSE"), V,
             then.entry \X cond.exit \cup other.entry \X cond.exit)
    BY <1>2, ControlFitsBoth, BothFit
  <2>2. Fits(FD(cond.entry, first), V, cond.entry \X first)
    BY <1>2, FlowFits
  <2>3. Fits(FD(last, then.exit \cup other.exit), V, last \X (then.exit \cup other.exit))
    BY <1>2, FlowFits
  <2>4. Fits(IF hasElse THEN {} ELSE CD(last, cond.exit, "FALSE"), V,
             IF hasElse THEN {} ELSE last \X cond.exit)
    <3>1. Fits({}, V, {})
      BY DEF Fits, Arrows
    <3>4. Fits(CD(last, cond.exit, "FALSE"), V, last \X cond.exit)
      BY <1>2, ControlFitsBoth
    <3>2. CASE hasElse
      BY <3>1, <3>2
    <3>3. CASE ~hasElse
      BY <3>3, <3>4
    <3> QED BY <3>2, <3>3
  <2>5. Fits(CD(then.entry, cond.exit, "TRUE") \cup CD(other.entry, cond.exit, "FALSE")
             \cup FD(cond.entry, first), V,
             then.entry \X cond.exit \cup other.entry \X cond.exit \cup cond.entry \X first)
    BY <2>1, <2>2, BothFit
  <2>6. Fits(CD(then.entry, cond.exit, "TRUE") \cup CD(other.entry, cond.exit, "FALSE")
             \cup FD(cond.entry, first) \cup FD(last, then.exit \cup other.exit), V,
             then.entry \X cond.exit \cup other.entry \X cond.exit \cup cond.entry \X first
             \cup last \X (then.exit \cup other.exit))
    BY <2>3, <2>5, BothFit
  <2> QED BY <2>4, <2>6, BothFit
<1> HIDE DEF B, edges
<1>7. Made(CfgIfThenElse(id, cond, then, other, hasElse), V, R, A \cup B, first, last)
  BY <1>1, <1>2, <1>4, <1>5, <1>6, MadeFromParts
<1> QED BY <1>7 DEF V, R, A, B

\* cfgIfThenElse (cfg.ts): of two branches one may be empty, of one branch as well.
THEOREM IfThenElseIsAHammock ==
    ASSUME NEW id, NEW cond, NEW then, NEW other, NEW hasElse,
           Hammock(cond), HammockOrNothing(then), HammockOrNothing(other),
           hasElse => Hammock(then) \/ Hammock(other)
    PROVE  Hammock(CfgIfThenElse(id, cond, then, other, hasElse))
<1>1. PICK first, last : first = {Vertex(id, "")} /\ last = {Vertex(id, "exit")}
  OBVIOUS
<1> DEFINE V == first \cup last \cup cond.graph.vertices \cup then.graph.vertices \cup other.graph.vertices
           R == first \cup last \cup cond.graph.roots \cup then.graph.roots \cup other.graph.roots
           A == Arrows(cond.graph.edges) \cup Arrows(then.graph.edges) \cup Arrows(other.graph.edges)
                  \cup (then.entry \X cond.exit \cup other.entry \X cond.exit \cup cond.entry \X first
                        \cup last \X (then.exit \cup other.exit)
                        \cup (IF hasElse THEN {} ELSE last \X cond.exit))
<1>2. Made(CfgIfThenElse(id, cond, then, other, hasElse), V, R, A, first, last)
  BY <1>1, IfThenElseMade, HammockFields, PartFields
<1>3. /\ Arrows(cond.graph.edges) \subseteq A /\ Arrows(then.graph.edges) \subseteq A
      /\ Arrows(other.graph.edges) \subseteq A
      /\ Wired(A, cond.entry, first) /\ Wired(A, then.entry, cond.exit)
      /\ Wired(A, other.entry, cond.exit) /\ Wired(A, last, then.exit) /\ Wired(A, last, other.exit)
      /\ ~hasElse => Wired(A, last, cond.exit)
  BY DEF Wired
<1>4. (\E v \in R : first = {v}) /\ (\E v \in R : last = {v}) /\ first # {} /\ last # {}
  BY <1>1
<1> HIDE DEF A
<1>5. ASSUME NEW S \in SUBSET V, first \subseteq S, Forth(A, S) PROVE R \subseteq S
  <2>1. cond.entry \subseteq S
    BY <1>3, <1>4, <1>5, Forwards
  <2>2. cond.graph.roots \subseteq S
    BY <1>3, <1>5, <2>1, FlowThroughPart, HammockFields
  <2>3. then.entry \subseteq S /\ other.entry \subseteq S
    BY <1>3, <1>5, <2>2, Forwards, HammockFields, PartFields
  <2>4. then.graph.roots \subseteq S /\ other.graph.roots \subseteq S
    BY <1>3, <1>5, <2>3, FlowThroughPart
  <2>5. last \subseteq S
    <3>1. CASE Hammock(then)
      BY <1>3, <1>5, <2>4, <3>1, Forwards, HammockFields, PartFields
    <3>2. CASE Hammock(other)
      BY <1>3, <1>5, <2>4, <3>2, Forwards, HammockFields, PartFields
    <3>3. CASE ~hasElse
      BY <1>3, <1>5, <2>2, <3>3, Forwards, HammockFields, PartFields
    <3> QED BY <3>1, <3>2, <3>3
  <2> QED BY <1>5, <2>2, <2>4, <2>5
<1>6. ASSUME NEW S \in SUBSET V, last \subseteq S, Back(A, S) PROVE R \subseteq S
  <2>1. then.exit \subseteq S /\ other.exit \subseteq S
    BY <1>3, <1>4, <1>6, Backwards
  <2>2. then.graph.roots \subseteq S /\ other.graph.roots \subseteq S
    BY <1>3, <1>6, <2>1, FlowThroughPart
  <2>3. cond.exit \subseteq S
    <3>1. CASE Hammock(then)
      BY <1>3, <1>6, <2>2, <3>1, Backwards, HammockFields, PartFields
    <3>2. CASE Hammock(other)
      BY <1>3, <1>6, <2>2, <3>2, Backwards, HammockFields, PartFields
    <3>3. CASE ~hasElse
      BY <1>3, <1>4, <1>6, <3>3, Backwards
    <3> QED BY <3>1, <3>2, <3>3
  <2>4. cond.graph.roots \subseteq S
    BY <1>3, <1>6, <2>3, FlowThroughPart, HammockFields
  <2>5. first \subseteq S
    BY <1>3, <1>6, <2>4, Backwards, HammockFields, PartFields
  <2> QED BY <1>6, <2>2, <2>4, <2>5
<1> HIDE DEF V, R
<1> QED BY <1>2, <1>4, <1>5, <1>6, HammockFromArrows

-----------------------------------------------------------------------------
(* while and for *)

LEMMA WhileMade ==
    ASSUME NEW id, NEW cond, NEW body, IsInformation(cond), IsInformation(body),
           NEW first, first = {Vertex(id, "")}, NEW last, last = {Vertex(id, "exit")}
    PROVE  Made(CfgWhile(id, cond, body),
                cond.graph.vertices \cup (first \cup last) \cup body.graph.vertices,
                cond.graph.roots \cup (first \cup last) \cup body.graph.roots,
                Arrows(cond.graph.edges) \cup Arrows(body.graph.edges)
                  \cup (cond.entry \X first \cup body.entry \X cond.exit \cup first \X body.entry
                        \cup first \X (body.nexts \cup body.exit) \cup last \X body.breaks)
                  \cup last \X cond.exit,
                first, last)
<1> DEFINE V == cond.graph.vertices \cup (first \cup last) \cup body.graph.vertices
           R == cond.graph.roots \cup (first \cup last) \cup body.graph.roots
           A == Arrows(cond.graph.edges) \cup Arrows(body.graph.edges)
           B == cond.entry \X first \cup body.entry \X cond.exit \cup first \X body.entry
                \cup first \X (body.nexts \cup body.exit) \cup last \X body.breaks
           C == last \X cond.exit
           parts == Merge(AddVertices(cond.graph, first \cup last), body.graph)
           edges == FD(cond.entry, first) \cup CD(body.entry, cond.exit, "TRUE") \cup FD(first, body.entry)
                    \cup FD(first, body.nexts \cup body.exit) \cup FD(last, body.breaks)
           leaves == CD(last, cond.exit, "FALSE")
<1>1. Built(parts, V, R, A)
  <2>1. Built(AddVertices(cond.graph, first \cup last), cond.graph.vertices \cup (first \cup last),
              cond.graph.roots \cup (first \cup last), Arrows(cond.graph.edges))
    BY BuiltPart, BuiltVertices DEF IsInformation
  <2> QED BY <2>1, BuiltPart, BuiltMerge DEF IsInformation
<1>2. /\ cond.entry \in SUBSET V /\ cond.exit \in SUBSET V /\ body.entry \in SUBSET V
      /\ body.nexts \cup body.exit \in SUBSET V /\ body.breaks \in SUBSET V
      /\ first \in SUBSET V /\ last \in SUBSET V
  BY DEF IsInformation
<1>3. IsInformation(body) /\ body.graph.vertices \subseteq V
  OBVIOUS
<1>4. CfgWhile(id, cond, body) = Information(AddEdges(AddEdges(parts, edges), leaves), OnlyReturns(body), first, last)
  BY DEF CfgWhile
<1> HIDE DEF V, R, A, parts
<1>5. JumpsWithin(OnlyReturns(body), V)
  BY <1>3, JumpsOfOnePart
<1>6. Fits(edges, V, B)
  <2>1. /\ Fits(FD(cond.entry, first), V, cond.entry \X first)
        /\ Fits(FD(first, body.entry), V, first \X body.entry)
        /\ Fits(FD(first, body.nexts \cup body.exit), V, first \X (body.nexts \cup body.exit))
        /\ Fits(FD(last, body.breaks), V, last \X body.breaks)
    BY <1>2, FlowFits
  <2>2. Fits(CD(body.entry, cond.exit, "TRUE"), V, body.entry \X cond.exit)
    BY <1>2, ControlFitsBoth
  <2>3. Fits(FD(cond.entry, first) \cup CD(body.entry, cond.exit, "TRUE"), V,
             cond.entry \X first \cup body.entry \X cond.exit)
    BY <2>1, <2>2, BothFit
  <2>4. Fits(FD(cond.entry, first) \cup CD(body.entry, cond.exit, "TRUE") \cup FD(first, body.entry), V,
             cond.entry \X first \cup body.entry \X cond.exit \cup first \X body.entry)
    BY <2>1, <2>3, BothFit
  <2>5. Fits(FD(cond.entry, first) \cup CD(body.entry, cond.exit, "TRUE") \cup FD(first, body.entry)
             \cup FD(first, body.nexts \cup body.exit), V,
             cond.entry \X first \cup body.entry \X cond.exit \cup first \X body.entry
             \cup first \X (body.nexts \cup body.exit))
    BY <2>1, <2>4, BothFit
  <2> QED BY <2>1, <2>5, BothFit
<1>7. Fits(leaves, V, C)
  BY <1>2, ControlFitsBoth
<1> HIDE DEF B, C, edges, leaves
<1>8. Built(AddEdges(parts, edges), V, R, A \cup B)
  BY <1>1, <1>6, BuiltEdges DEF Fits
<1>9. Made(CfgWhile(id, cond, body), V, R, A \cup B \cup C, first, last)
  BY <1>2, <1>4, <1>5, <1>7, <1>8, MadeFromParts
<1> QED BY <1>9 DEF V, R, A, B, C

\* cfgWhile (cfg.ts): a loop over a body that may be empty, whatever the body jumps out with.
THEOREM WhileIsAHammock ==
    ASSUME NEW id, NEW cond, NEW body, Hammock(cond), HammockOrNothing(body)
    PROVE  Hammock(CfgWhile(id, cond, body))
<1>1. PICK first, last : first = {Vertex(id, "")} /\ last = {Vertex(id, "exit")}
  OBVIOUS
<1> DEFINE V == cond.graph.vertices \cup (first \cup last) \cup body.graph.vertices
           R == cond.graph.roots \cup (first \cup last) \cup body.graph.roots
           A == Arrows(cond.graph.edges) \cup Arrows(body.graph.edges)
                  \cup (cond.entry \X first \cup body.entry \X cond.exit \cup first \X body.entry
                        \cup first \X (body.nexts \cup body.exit) \cup last \X body.breaks)
                  \cup last \X cond.exit
<1>2. Made(CfgWhile(id, cond, body), V, R, A, first, last)
  BY <1>1, WhileMade, HammockFields, PartFields
<1>3. /\ Arrows(cond.graph.edges) \subseteq A /\ Arrows(body.graph.edges) \subseteq A
      /\ Wired(A, cond.entry, first) /\ Wired(A, body.entry, cond.exit)
      /\ Wired(A, first, body.exit) /\ Wired(A, last, cond.exit)
  BY DEF Wired
<1>4. (\E v \in R : first = {v}) /\ (\E v \in R : last = {v}) /\ first # {} /\ last # {}
  BY <1>1
<1> HIDE DEF A
<1>5. ASSUME NEW S \in SUBSET V, first \subseteq S, Forth(A, S) PROVE R \subseteq S
  <2>1. cond.entry \subseteq S
    BY <1>3, <1>4, <1>5, Forwards
  <2>2. cond.graph.roots \subseteq S
    BY <1>3, <1>5, <2>1, FlowThroughPart, HammockFields
  <2>3. body.entry \subseteq S /\ last \subseteq S
    BY <1>3, <1>5, <2>2, Forwards, HammockFields, PartFields
  <2>4. body.graph.roots \subseteq S
    BY <1>3, <1>5, <2>3, FlowThroughPart
  <2> QED BY <1>5, <2>2, <2>3, <2>4
<1>6. ASSUME NEW S \in SUBSET V, last \subseteq S, Back(A, S) PROVE R \subseteq S
  <2>1. cond.exit \subseteq S
    BY <1>3, <1>4, <1>6, Backwards
  <2>2. cond.graph.roots \subseteq S
    BY <1>3, <1>6, <2>1, FlowThroughPart, HammockFields
  <2>3. first \subseteq S
    BY <1>3, <1>6, <2>2, Backwards, HammockFields, PartFields
  <2>4. body.exit \subseteq S
    BY <1>3, <1>4, <1>6, <2>3, Backwards
  <2>5. body.graph.roots \subseteq S
    BY <1>3, <1>6, <2>4, FlowThroughPart
  <2> QED BY <1>6, <2>2, <2>3, <2>5
<1> HIDE DEF V, R
<1> QED BY <1>2, <1>4, <1>5, <1>6, HammockFromArrows

LEMMA ForMade ==
    ASSUME NEW id, NEW var, NEW vec, NEW body, IsInformation(var), IsInformation(vec), IsInformation(body),
           NEW first, first = {Vertex(id, "")}, NEW last, last = {Vertex(id, "exit")}
    PROVE  Made(CfgFor(id, var, vec, body),
                var.graph.vertices \cup (first \cup last) \cup vec.graph.vertices \cup body.graph.vertices,
                var.graph.roots \cup (first \cup last) \cup vec.graph.roots \cup body.graph.roots,
                Arrows(var.graph.edges) \cup Arrows(vec.graph.edges) \cup Arrows(body.graph.edges)
                  \cup (vec.entry \X first \cup var.entry \X vec.exit \cup body.entry \X var.exit
                        \cup first \X (body.nexts \cup body.exit) \cup last \X body.breaks)
                  \cup last \X var.exit,
                first, last)
<1> DEFINE V == var.graph.vertices \cup (first \cup last) \cup vec.graph.vertices \cup body.graph.vertices
           R == var.graph.roots \cup (first \cup last) \cup vec.graph.roots \cup body.graph.roots
           A == Arrows(var.graph.edges) \cup Arrows(vec.graph.edges) \cup Arrows(body.graph.edges)
           B == vec.entry \X first \cup var.entry \X vec.exit \cup body.entry \X var.exit
                \cup first \X (body.nexts \cup body.exit) \cup last \X body.breaks
           C == last \X var.exit
           parts == Merge(Merge(AddVertices(var.graph, first \cup last), vec.graph), body.graph)
           edges == FD(vec.entry, first) \cup FD(var.entry, vec.exit) \cup CD(body.entry, var.exit, "TRUE")
                    \cup FD(first, body.nexts \cup body.exit) \cup FD(last, body.breaks)
           leaves == CD(last, var.exit, "FALSE")
<1>1. Built(parts, V, R, A)
  <2>1. Built(AddVertices(var.graph, first \cup last), var.graph.vertices \cup (first \cup last),
              var.graph.roots \cup (first \cup last), Arrows(var.graph.edges))
    BY BuiltPart, BuiltVertices DEF IsInformation
  <2>2. Built(Merge(AddVertices(var.graph, first \cup last), vec.graph),
              var.graph.vertices \cup (first \cup last) \cup vec.graph.vertices,
              var.graph.roots \cup (first \cup last) \cup vec.graph.roots,
              Arrows(var.graph.edges) \cup Arrows(vec.graph.edges))
    BY <2>1, BuiltPart, BuiltMerge DEF IsInformation
  <2> QED BY <2>2, BuiltPart, BuiltMerge DEF IsInformation
<1>2. /\ vec.entry \in SUBSET V /\ vec.exit \in SUBSET V /\ var.entry \in SUBSET V
      /\ var.exit \in SUBSET V /\ body.entry \in SUBSET V
      /\ body.nexts \cup body.exit \in SUBSET V /\ body.breaks \in SUBSET V
      /\ first \in SUBSET V /\ last \in SUBSET V
  BY DEF IsInformation
<1>3. IsInformation(body) /\ body.graph.vertices \subseteq V
  OBVIOUS
<1>4. CfgFor(id, var, vec, body)
      = Information(AddEdges(AddEdges(parts, edges), leaves), OnlyReturns(body), first, last)
  BY DEF CfgFor
<1> HIDE DEF V, R, A, parts
<1>5. JumpsWithin(OnlyReturns(body), V)
  BY <1>3, JumpsOfOnePart
<1>6. Fits(edges, V, B)
  <2>1. /\ Fits(FD(vec.entry, first), V, vec.entry \X first)
        /\ Fits(FD(var.entry, vec.exit), V, var.entry \X vec.exit)
        /\ Fits(FD(first, body.nexts \cup body.exit), V, first \X (body.nexts \cup body.exit))
        /\ Fits(FD(last, body.breaks), V, last \X body.breaks)
    BY <1>2, FlowFits
  <2>2. Fits(CD(body.entry, var.exit, "TRUE"), V, body.entry \X var.exit)
    BY <1>2, ControlFitsBoth
  <2>3. Fits(FD(vec.entry, first) \cup FD(var.entry, vec.exit), V,
             vec.entry \X first \cup var.entry \X vec.exit)
    BY <2>1, BothFit
  <2>4. Fits(FD(vec.entry, first) \cup FD(var.entry, vec.exit) \cup CD(body.entry, var.exit, "TRUE"), V,
             vec.entry \X first \cup var.entry \X vec.exit \cup body.entry \X var.exit)
    BY <2>2, <2>3, BothFit
  <2>5. Fits(FD(vec.entry, first) \cup FD(var.entry, vec.exit) \cup CD(body.entry, var.exit, "TRUE")
             \cup FD(first, body.nexts \cup body.exit), V,
             vec.entry \X first \cup var.entry \X vec.exit \cup body.entry \X var.exit
             \cup first \X (body.nexts \cup body.exit))
    BY <2>1, <2>4, BothFit
  <2> QED BY <2>1, <2>5, BothFit
<1>7. Fits(leaves, V, C)
  BY <1>2, ControlFitsBoth
<1> HIDE DEF B, C, edges, leaves
<1>8. Built(AddEdges(parts, edges), V, R, A \cup B)
  BY <1>1, <1>6, BuiltEdges DEF Fits
<1>9. Made(CfgFor(id, var, vec, body), V, R, A \cup B \cup C, first, last)
  BY <1>2, <1>4, <1>5, <1>7, <1>8, MadeFromParts
<1> QED BY <1>9 DEF V, R, A, B, C

\* cfgFor (cfg.ts): the vector is evaluated before the variable is set.
THEOREM ForIsAHammock ==
    ASSUME NEW id, NEW var, NEW vec, NEW body, Hammock(var), Hammock(vec), HammockOrNothing(body)
    PROVE  Hammock(CfgFor(id, var, vec, body))
<1>1. PICK first, last : first = {Vertex(id, "")} /\ last = {Vertex(id, "exit")}
  OBVIOUS
<1> DEFINE V == var.graph.vertices \cup (first \cup last) \cup vec.graph.vertices \cup body.graph.vertices
           R == var.graph.roots \cup (first \cup last) \cup vec.graph.roots \cup body.graph.roots
           A == Arrows(var.graph.edges) \cup Arrows(vec.graph.edges) \cup Arrows(body.graph.edges)
                  \cup (vec.entry \X first \cup var.entry \X vec.exit \cup body.entry \X var.exit
                        \cup first \X (body.nexts \cup body.exit) \cup last \X body.breaks)
                  \cup last \X var.exit
<1>2. Made(CfgFor(id, var, vec, body), V, R, A, first, last)
  BY <1>1, ForMade, HammockFields, PartFields
<1>3. /\ Arrows(var.graph.edges) \subseteq A /\ Arrows(vec.graph.edges) \subseteq A
      /\ Arrows(body.graph.edges) \subseteq A
      /\ Wired(A, vec.entry, first) /\ Wired(A, var.entry, vec.exit) /\ Wired(A, body.entry, var.exit)
      /\ Wired(A, first, body.exit) /\ Wired(A, last, var.exit)
  BY DEF Wired
<1>4. (\E v \in R : first = {v}) /\ (\E v \in R : last = {v}) /\ first # {} /\ last # {}
  BY <1>1
<1> HIDE DEF A
<1>5. ASSUME NEW S \in SUBSET V, first \subseteq S, Forth(A, S) PROVE R \subseteq S
  <2>1. vec.entry \subseteq S
    BY <1>3, <1>4, <1>5, Forwards
  <2>2. vec.graph.roots \subseteq S
    BY <1>3, <1>5, <2>1, FlowThroughPart, HammockFields
  <2>3. var.entry \subseteq S
    BY <1>3, <1>5, <2>2, Forwards, HammockFields, PartFields
  <2>4. var.graph.roots \subseteq S
    BY <1>3, <1>5, <2>3, FlowThroughPart, HammockFields
  <2>5. body.entry \subseteq S /\ last \subseteq S
    BY <1>3, <1>5, <2>4, Forwards, HammockFields, PartFields
  <2>6. body.graph.roots \subseteq S
    BY <1>3, <1>5, <2>5, FlowThroughPart
  <2> QED BY <1>5, <2>2, <2>4, <2>5, <2>6
<1>6. ASSUME NEW S \in SUBSET V, last \subseteq S, Back(A, S) PROVE R \subseteq S
  <2>1. var.exit \subseteq S
    BY <1>3, <1>4, <1>6, Backwards
  <2>2. var.graph.roots \subseteq S
    BY <1>3, <1>6, <2>1, FlowThroughPart, HammockFields
  <2>3. vec.exit \subseteq S
    BY <1>3, <1>6, <2>2, Backwards, HammockFields, PartFields
  <2>4. vec.graph.roots \subseteq S
    BY <1>3, <1>6, <2>3, FlowThroughPart, HammockFields
  <2>5. first \subseteq S
    BY <1>3, <1>6, <2>4, Backwards, HammockFields, PartFields
  <2>6. body.exit \subseteq S
    BY <1>3, <1>4, <1>6, <2>5, Backwards
  <2>7. body.graph.roots \subseteq S
    BY <1>3, <1>6, <2>6, FlowThroughPart
  <2> QED BY <1>6, <2>2, <2>4, <2>5, <2>7
<1> HIDE DEF V, R
<1> QED BY <1>2, <1>4, <1>5, <1>6, HammockFromArrows

-----------------------------------------------------------------------------
(* Arguments and parameters *)

LEMMA ArgumentMade ==
    ASSUME NEW id, NEW name, NEW value, NEW hasValue, IsInformation(name), IsInformation(value),
           NEW first, first = {Vertex(id, "")}, NEW before, before = {Vertex(id, "before-value")},
           NEW last, last = {Vertex(id, "exit")},
           NEW named, named = IF name = Undefined THEN first ELSE name.exit,
           NEW valued, valued = IF hasValue THEN value.exit ELSE before
    PROVE  Made(CfgArgumentOrParameter(id, name, value, hasValue),
                first \cup before \cup last \cup name.graph.vertices \cup value.graph.vertices,
                first \cup before \cup last \cup name.graph.roots \cup value.graph.roots,
                Arrows(name.graph.edges) \cup Arrows(value.graph.edges)
                  \cup (name.entry \X first \cup before \X named \cup value.entry \X before \cup last \X valued),
                first, last)
<1> DEFINE V == first \cup before \cup last \cup name.graph.vertices \cup value.graph.vertices
           R == first \cup before \cup last \cup name.graph.roots \cup value.graph.roots
           A == Arrows(name.graph.edges) \cup Arrows(value.graph.edges)
           B == name.entry \X first \cup before \X named \cup value.entry \X before \cup last \X valued
           parts == Merge(Merge(AddVertices(EmptyGraph, first \cup before \cup last), name.graph), value.graph)
           edges == FD(name.entry, first) \cup FD(before, named) \cup FD(value.entry, before) \cup FD(last, valued)
<1>1. Built(parts, V, R, A)
  <2>1. Built(name.graph, name.graph.vertices, name.graph.roots, Arrows(name.graph.edges))
    BY BuiltPart DEF IsInformation
  <2>2. Built(Merge(AddVertices(EmptyGraph, first \cup before \cup last), name.graph),
              first \cup before \cup last \cup name.graph.vertices,
              first \cup before \cup last \cup name.graph.roots, Arrows(name.graph.edges))
    BY <2>1, BuiltOnVertices
  <2> QED BY <2>2, BuiltPart, BuiltMerge DEF IsInformation
<1>2. /\ name.entry \in SUBSET V /\ value.entry \in SUBSET V /\ named \in SUBSET V /\ valued \in SUBSET V
      /\ first \in SUBSET V /\ before \in SUBSET V /\ last \in SUBSET V
  BY DEF IsInformation
<1>3. \A p \in {name, value} : IsInformation(p) /\ p.graph.vertices \subseteq V
  OBVIOUS
<1>4. CfgArgumentOrParameter(id, name, value, hasValue)
      = Information(AddEdges(parts, edges), Jumps({name, value}), first, last)
  BY DEF CfgArgumentOrParameter
<1> HIDE DEF V, R, A, parts
<1>5. JumpsWithin(Jumps({name, value}), V)
  BY <1>3, JumpsOfParts
<1>6. Fits(edges, V, B)
  <2>1. /\ Fits(FD(name.entry, first), V, name.entry \X first)
        /\ Fits(FD(before, named), V, before \X named)
        /\ Fits(FD(value.entry, before), V, value.entry \X before)
        /\ Fits(FD(last, valued), V, last \X valued)
    BY <1>2, FlowFits
  <2>2. Fits(FD(name.entry, first) \cup FD(before, named), V, name.entry \X first \cup before \X named)
    BY <2>1, BothFit
  <2>3. Fits(FD(name.entry, first) \cup FD(before, named) \cup FD(value.entry, before), V,
             name.entry \X first \cup before \X named \cup value.entry \X before)
    BY <2>1, <2>2, BothFit
  <2> QED BY <2>1, <2>3, BothFit
<1> HIDE DEF B, edges
<1>7. Made(CfgArgumentOrParameter(id, name, value, hasValue), V, R, A \cup B, first, last)
  BY <1>1, <1>2, <1>4, <1>5, <1>6, MadeFromParts
<1> QED BY <1>7 DEF V, R, A, B

\* cfgArgumentOrParameter (cfg.ts): an argument or a parameter, with or without a name, with or without a value.
THEOREM ArgumentIsAHammock ==
    ASSUME NEW id, NEW name, NEW value, NEW hasValue, HammockOrNothing(name),
           IF hasValue THEN Hammock(value) ELSE value = Undefined
    PROVE  Hammock(CfgArgumentOrParameter(id, name, value, hasValue))
<1>1. PICK first, before, last, named, valued :
        /\ first = {Vertex(id, "")} /\ before = {Vertex(id, "before-value")} /\ last = {Vertex(id, "exit")}
        /\ named = IF name = Undefined THEN first ELSE name.exit
        /\ valued = IF hasValue THEN value.exit ELSE before
  OBVIOUS
<1> DEFINE V == first \cup before \cup last \cup name.graph.vertices \cup value.graph.vertices
           R == first \cup before \cup last \cup name.graph.roots \cup value.graph.roots
           A == Arrows(name.graph.edges) \cup Arrows(value.graph.edges)
                  \cup (name.entry \X first \cup before \X named \cup value.entry \X before \cup last \X valued)
<1>2. HammockOrNothing(value)
  BY DEF HammockOrNothing
<1>3. Made(CfgArgumentOrParameter(id, name, value, hasValue), V, R, A, first, last)
  BY <1>1, <1>2, ArgumentMade, PartFields
<1>4. /\ Arrows(name.graph.edges) \subseteq A /\ Arrows(value.graph.edges) \subseteq A
      /\ Wired(A, name.entry, first) /\ Wired(A, before, named)
      /\ Wired(A, value.entry, before) /\ Wired(A, last, valued)
  BY DEF Wired
<1>5. /\ (\E v \in R : first = {v}) /\ (\E v \in R : last = {v})
      /\ first # {} /\ before # {} /\ last # {}
  BY <1>1
<1>6. /\ named # {} /\ (named = first \/ named = name.exit) /\ (name # Undefined => named = name.exit)
      /\ name = Undefined => named = first /\ name.graph.roots = {}
      /\ valued # {} /\ (hasValue => valued = value.exit)
      /\ ~hasValue => valued = before /\ value.graph.roots = {}
  BY <1>1, <1>5, HammockFields, NothingIsAnInformation DEF HammockOrNothing
<1>7. R = first \cup before \cup last \cup name.graph.roots \cup value.graph.roots
  OBVIOUS
<1> HIDE DEF A, R
<1>8. ASSUME NEW S \in SUBSET V, first \subseteq S, Forth(A, S) PROVE R \subseteq S
  <2>1. name.entry \subseteq S
    BY <1>4, <1>5, <1>8, Forwards
  <2>2. name.graph.roots \subseteq S
    BY <1>4, <1>8, <2>1, FlowThroughPart
  <2>3. named \subseteq S
    BY <1>6, <1>8, <2>2, PartFields
  <2>4. before \subseteq S
    BY <1>4, <1>6, <1>8, <2>3, Forwards
  <2>5. value.entry \subseteq S
    BY <1>4, <1>5, <1>8, <2>4, Forwards
  <2>6. value.graph.roots \subseteq S
    BY <1>2, <1>4, <1>8, <2>5, FlowThroughPart
  <2>7. valued \subseteq S
    BY <1>2, <1>6, <2>4, <2>6, PartFields
  <2>8. last \subseteq S
    BY <1>4, <1>6, <1>8, <2>7, Forwards
  <2> QED BY <1>7, <1>8, <2>2, <2>4, <2>6, <2>8
<1>9. ASSUME NEW S \in SUBSET V, last \subseteq S, Back(A, S) PROVE R \subseteq S
  <2>1. valued \subseteq S
    BY <1>4, <1>5, <1>9, Backwards
  <2>2. value.graph.roots \subseteq S /\ before \subseteq S
    <3>1. CASE hasValue
      <4>1. value.graph.roots \subseteq S
        BY <1>2, <1>4, <1>6, <1>9, <2>1, <3>1, FlowThroughPart
      <4> QED BY <1>2, <1>4, <1>9, <3>1, <4>1, Backwards, HammockFields, PartFields
    <3>2. CASE ~hasValue
      BY <1>6, <2>1, <3>2
    <3> QED BY <3>1, <3>2
  <2>3. named \subseteq S
    BY <1>4, <1>5, <1>9, <2>2, Backwards
  <2>4. name.graph.roots \subseteq S /\ first \subseteq S
    <3>1. CASE name = Undefined
      BY <1>6, <2>3, <3>1
    <3>2. CASE name # Undefined
      <4>1. Hammock(name)
        BY <3>2 DEF HammockOrNothing
      <4>2. name.graph.roots \subseteq S
        BY <1>4, <1>6, <1>9, <2>3, <3>2, FlowThroughPart
      <4> QED BY <1>4, <1>9, <4>1, <4>2, Backwards, HammockFields, PartFields
    <3> QED BY <3>1, <3>2
  <2> QED BY <1>7, <1>9, <2>2, <2>4
<1> HIDE DEF V
<1> QED BY <1>3, <1>5, <1>8, <1>9, HammockFromArrows

-----------------------------------------------------------------------------
(* Leaves                                                                  *)

LEMMA LeafMade ==
    ASSUME NEW id, NEW v, v = {Vertex(id, "")}
    PROVE  Made(CfgLeaf(id), v, v, {}, v, v)
<1>1. PICK empty, graph : empty = EmptyGraph /\ graph = AddVertices(empty, v)
  OBVIOUS
<1>2. IsGraph(empty) /\ empty.vertices = {} /\ empty.roots = {} /\ Arrows(empty.edges) = {}
  BY <1>1, EmptyGraphIsOne
<1>3. Built(graph, empty.vertices \cup v, empty.roots \cup v, Arrows(empty.edges))
  BY ONLY <1>1, <1>2, BuiltPart, BuiltVertices
<1>4. Built(graph, v, v, {})
  BY ONLY <1>2, <1>3
<1>5. JumpsWithin(NoJumps, v)
  BY DEF JumpsWithin, NoJumps
<1>6. PICK none : none = NoJumps
  OBVIOUS
<1>7. CfgLeaf(id) = Information(graph, none, v, v)
  BY <1>1, <1>6 DEF CfgLeaf
<1>8. Made(Information(graph, none, v, v), v, v, {}, v, v)
  BY ONLY <1>4, <1>5, <1>6, MadeInformation
<1> QED BY <1>7, <1>8

LEMMA OneVertexIsAHammock ==
    ASSUME NEW i, NEW v, NEW x, v = {x}, Made(i, v, v, {}, v, v)
    PROVE  Hammock(i)
<1>1. \E w \in v : v = {w}
  OBVIOUS
<1>2. \A S \in SUBSET v : v \subseteq S /\ Forth({}, S) => v \subseteq S
  OBVIOUS
<1>3. \A S \in SUBSET v : v \subseteq S /\ Back({}, S) => v \subseteq S
  OBVIOUS
<1> QED BY <1>1, <1>2, <1>3, HammockFromArrows

\* cfgLeaf, cfgBreak and cfgNext (cfg.ts): a vertex on its own.
THEOREM LeavesAreHammocks ==
    ASSUME NEW id
    PROVE  Hammock(CfgLeaf(id)) /\ Hammock(CfgBreak(id)) /\ Hammock(CfgNext(id))
<1>1. PICK v : v = {Vertex(id, "")}
  OBVIOUS
<1>2. PICK leaf, break, next : leaf = CfgLeaf(id) /\ break = CfgBreak(id) /\ next = CfgNext(id)
  OBVIOUS
<1>3. Made(leaf, v, v, {}, v, v)
  BY <1>1, <1>2, LeafMade
<1>4. PICK graph : leaf = [graph |-> graph, breaks |-> {}, nexts |-> {}, returns |-> {}, entry |-> v, exit |-> v]
  BY <1>1, <1>2 DEF CfgLeaf, Information, NoJumps
<1>5. /\ break = [graph |-> graph, breaks |-> v, nexts |-> {}, returns |-> {}, entry |-> v, exit |-> v]
      /\ next = [graph |-> graph, breaks |-> {}, nexts |-> v, returns |-> {}, entry |-> v, exit |-> v]
  <2>1. break = [leaf EXCEPT !.breaks = v] /\ next = [leaf EXCEPT !.nexts = v]
    BY <1>1, <1>2 DEF CfgBreak, CfgNext
  <2> QED BY ONLY <1>4, <2>1
<1>6. Built(graph, v, v, {})
  BY <1>3, <1>4 DEF Made
<1>7. IsGraph(graph) /\ graph.vertices = v
  BY <1>6 DEF Built
<1>8. Made(break, v, v, {}, v, v)
  BY <1>5, <1>6, <1>7 DEF Made, IsInformation
<1>9. Made(next, v, v, {}, v, v)
  BY <1>5, <1>6, <1>7 DEF Made, IsInformation
<1> QED BY <1>1, <1>2, <1>3, <1>8, <1>9, OneVertexIsAHammock

-----------------------------------------------------------------------------
(* Lists of expressions *)

\* A set of numbers that has zero, and with each number the next, has all.
LEMMA AllNumbers ==
    ASSUME NEW S, 0 \in S, \A n \in Nat : n \in S => n + 1 \in S
    PROVE  \A n \in Nat : n \in S
<1> DEFINE T == Nat \ S
<1>1. SUFFICES ASSUME T # {} PROVE FALSE
  OBVIOUS
<1>2. \E n \in T : \A m \in T : <<m, n>> \notin OpToRel(<, Nat)
  BY <1>1, NatLessThanWellFounded, WFMin
<1>3. \A m, n \in Nat : m < n => <<m, n>> \in OpToRel(<, Nat)
  BY DEF OpToRel
<1>4. PICK n \in T : \A m \in T : ~ (m < n)
  BY <1>2, <1>3
<1>5. n # 0 /\ n - 1 \in Nat /\ n - 1 < n
  OBVIOUS
<1>6. n - 1 \in S
  BY <1>4, <1>5
<1> QED BY <1>5, <1>6

\* Edges that are added before what they lead from is merged.
LEMMA BuiltMergeAfterEdges ==
    ASSUME NEW graph, NEW V, NEW R, NEW A, Built(graph, V, R, A),
           NEW other, NEW W, NEW S, NEW B, Built(other, W, S, B),
           NEW added, NEW C, Fits(added, V \cup W, C)
    PROVE  Built(Merge(AddEdges(graph, added), other), V \cup W, R \cup S, A \cup C \cup B)
<1>1. PICK wide : wide = AddNested(graph, W)
  OBVIOUS
<1>2. PICK E, K : graph = [vertices |-> V, roots |-> R, edges |-> E, children |-> K]
  BY DEF Built, IsGraph
<1>3. wide = [vertices |-> V \cup W, roots |-> R, edges |-> E, children |-> K]
  BY <1>1, <1>2 DEF AddNested
<1>4. Built(wide, V \cup W, R, A)
  <2>1. graph.edges = E /\ graph.children = K /\ graph.roots = R /\ graph.vertices = V
    BY <1>2
  <2>2. R \subseteq V /\ E \subseteq EdgesIn(V) /\ K \subseteq V \X V /\ Arrows(E) = A
    BY <2>1, GraphFields DEF Built
  <2>3. E \subseteq EdgesIn(V \cup W)
    BY <2>2, MoreVertices
  <2>4. wide.vertices = V \cup W /\ wide.roots = R /\ wide.edges = E /\ wide.children = K
    BY <1>3
  <2>5. wide = [vertices |-> wide.vertices, roots |-> wide.roots, edges |-> wide.edges, children |-> wide.children]
    BY <1>3, <2>4
  <2> QED BY <2>2, <2>3, <2>4, <2>5 DEF Built, IsGraph
<1>5. Built(AddEdges(wide, added), V \cup W, R, A \cup C)
  BY <1>4, BuiltEdges DEF Fits
<1>6. AddNested(AddEdges(wide, added), W) = AddNested(AddEdges(graph, added), W)
  <2>1. PICK F : F = {e \in E : \A f \in added : <<e.from, e.to>> # <<f.from, f.to>>} \cup added
    OBVIOUS
  <2>2. AddEdges(graph, added) = [vertices |-> V, roots |-> R, edges |-> F, children |-> K]
    BY <1>2, <2>1 DEF AddEdges
  <2>3. AddEdges(wide, added) = [vertices |-> V \cup W, roots |-> R, edges |-> F, children |-> K]
    <3>1. wide.edges = E
      BY <1>3
    <3>2. AddEdges(wide, added) = [wide EXCEPT !.edges = F]
      BY <2>1, <3>1 DEF AddEdges
    <3> QED BY <1>3, <3>2, OneField
  <2>4. (V \cup W) \cup W = V \cup W
    OBVIOUS
  <2>5. PICK g : g = AddEdges(graph, added)
    OBVIOUS
  <2>6. PICK h : h = AddEdges(wide, added)
    OBVIOUS
  <2>7. AddNested(g, W) = [vertices |-> V \cup W, roots |-> R, edges |-> F, children |-> K]
    <3>1. AddNested(g, W) = [g EXCEPT !.vertices = V \cup W]
      BY <2>2, <2>5 DEF AddNested
    <3>2. g = [vertices |-> V, roots |-> R, edges |-> F, children |-> K]
      BY <2>2, <2>5
    <3>3. [g EXCEPT !.vertices = V \cup W] = [vertices |-> V \cup W, roots |-> R, edges |-> F, children |-> K]
      BY <3>2, OneField
    <3> QED BY <3>1, <3>3
  <2>8. AddNested(h, W) = [vertices |-> V \cup W, roots |-> R, edges |-> F, children |-> K]
    <3>1. AddNested(h, W) = [h EXCEPT !.vertices = V \cup W]
      BY <2>3, <2>4, <2>6 DEF AddNested
    <3> QED BY <2>3, <2>6, <3>1, OneField
  <2> QED BY <2>5, <2>6, <2>7, <2>8
<1>7. Merge(AddEdges(graph, added), other) = Merge(AddEdges(wide, added), other)
  BY <1>6 DEF Merge, MergeNested, Built
<1>8. Built(Merge(AddEdges(wide, added), other), V \cup W, R \cup S, A \cup C \cup B)
  BY <1>5, BuiltMerge
<1> QED BY <1>7, <1>8

\* An information whose entry may not be there yet.
Begun(all) ==
    /\ IsGraph(all.graph)
    /\ all.exit \subseteq all.graph.vertices /\ all.breaks \subseteq all.graph.vertices
    /\ all.nexts \subseteq all.graph.vertices /\ all.returns \subseteq all.graph.vertices

LEMMA NextExpressionMade ==
    ASSUME NEW all, Begun(all), NEW e, IsInformation(e),
           all.entry \subseteq all.graph.vertices \cup e.graph.vertices
    PROVE  Made(NextExpression(all, e), all.graph.vertices \cup e.graph.vertices,
                all.graph.roots \cup e.graph.roots,
                Arrows(all.graph.edges) \cup e.entry \X all.exit \cup Arrows(e.graph.edges),
                all.entry, e.exit)
<1> DEFINE V == all.graph.vertices \cup e.graph.vertices
           R == all.graph.roots \cup e.graph.roots
           A == Arrows(all.graph.edges) \cup e.entry \X all.exit \cup Arrows(e.graph.edges)
<1>1. PICK edges : edges = FD(e.entry, all.exit)
  OBVIOUS
<1>2. e.entry \in SUBSET V /\ all.exit \in SUBSET V /\ all.entry \in SUBSET V /\ e.exit \in SUBSET V
  BY DEF IsInformation, Begun
<1>3. Fits(edges, V, e.entry \X all.exit)
  BY <1>1, <1>2, FlowFits
<1>4. PICK graph : graph = Merge(AddEdges(all.graph, edges), e.graph)
  OBVIOUS
<1>5. Built(graph, V, R, A)
  <2>1. Built(all.graph, all.graph.vertices, all.graph.roots, Arrows(all.graph.edges))
    BY BuiltPart DEF Begun
  <2>2. Built(e.graph, e.graph.vertices, e.graph.roots, Arrows(e.graph.edges))
    BY BuiltPart DEF IsInformation
  <2> QED BY <1>3, <1>4, <2>1, <2>2, BuiltMergeAfterEdges
<1>6. JumpsWithin(Jumps({all, e}), V)
  BY DEF JumpsWithin, Jumps, IsInformation, Begun
<1>7. NextExpression(all, e) = Information(graph, Jumps({all, e}), all.entry, e.exit)
  BY <1>1, <1>4 DEF NextExpression
<1> HIDE DEF V, R, A
<1>8. PICK jumps : jumps = Jumps({all, e})
  OBVIOUS
<1>9. Made(Information(graph, jumps, all.entry, e.exit), V, R, A, all.entry, e.exit)
  BY <1>2, <1>5, <1>6, <1>8, MadeInformation
<1> QED BY <1>7, <1>8, <1>9 DEF V, R, A

\* An expression after others.
LEMMA NextIsAHammock ==
    ASSUME NEW all, Hammock(all), NEW e, Hammock(e)
    PROVE  Hammock(NextExpression(all, e))
<1> DEFINE V == all.graph.vertices \cup e.graph.vertices
           R == all.graph.roots \cup e.graph.roots
           A == Arrows(all.graph.edges) \cup e.entry \X all.exit \cup Arrows(e.graph.edges)
<1>1. Made(NextExpression(all, e), V, R, A, all.entry, e.exit)
  BY NextExpressionMade DEF Hammock, IsInformation, Begun
<1>2. /\ Arrows(all.graph.edges) \subseteq A /\ Arrows(e.graph.edges) \subseteq A
      /\ Wired(A, e.entry, all.exit)
  BY DEF Wired
<1>3. (\E v \in R : all.entry = {v}) /\ (\E v \in R : e.exit = {v})
  BY DEF Hammock
<1> HIDE DEF A
<1>4. ASSUME NEW S \in SUBSET V, all.entry \subseteq S, Forth(A, S) PROVE R \subseteq S
  <2>1. all.graph.roots \subseteq S
    BY <1>2, <1>4, FlowThroughPart, HammockFields
  <2>2. e.entry \subseteq S
    BY <1>2, <1>4, <2>1, Forwards, HammockFields, PartFields
  <2>3. e.graph.roots \subseteq S
    BY <1>2, <1>4, <2>2, FlowThroughPart, HammockFields
  <2> QED BY <2>1, <2>3
<1>5. ASSUME NEW S \in SUBSET V, e.exit \subseteq S, Back(A, S) PROVE R \subseteq S
  <2>1. e.graph.roots \subseteq S
    BY <1>2, <1>5, FlowThroughPart, HammockFields
  <2>2. all.exit \subseteq S
    BY <1>2, <1>5, <2>1, Backwards, HammockFields, PartFields
  <2>3. all.graph.roots \subseteq S
    BY <1>2, <1>5, <2>2, FlowThroughPart, HammockFields
  <2> QED BY <2>1, <2>3
<1> HIDE DEF V, R
<1> QED BY <1>1, <1>3, <1>4, <1>5, HammockFromArrows

\* What a list of expressions begins with.
FirstOf(first) == [EmptyControlFlowInformation EXCEPT !.entry = first]

LEMMA FirstIsAHammock ==
    ASSUME NEW e, Hammock(e)
    PROVE  Hammock(NextExpression(FirstOf(e.entry), e))
<1>1. PICK all : all = FirstOf(e.entry)
  OBVIOUS
<1>2. /\ all.graph = EmptyGraph /\ all.entry = e.entry /\ all.exit = {}
      /\ all.breaks = {} /\ all.nexts = {} /\ all.returns = {}
  BY <1>1 DEF FirstOf, EmptyControlFlowInformation
<1>3. Begun(all) /\ all.graph.vertices = {} /\ all.graph.roots = {} /\ Arrows(all.graph.edges) = {}
  BY <1>2, EmptyGraphIsOne DEF Begun
<1> DEFINE V == all.graph.vertices \cup e.graph.vertices
           R == all.graph.roots \cup e.graph.roots
           A == Arrows(all.graph.edges) \cup e.entry \X all.exit \cup Arrows(e.graph.edges)
<1>4. V = e.graph.vertices /\ R = e.graph.roots /\ A = Arrows(e.graph.edges)
  BY <1>2, <1>3
<1>5. Made(NextExpression(all, e), V, R, A, e.entry, e.exit)
  BY <1>2, <1>3, NextExpressionMade DEF Hammock, IsInformation
<1>6. Made(NextExpression(all, e), e.graph.vertices, e.graph.roots, Arrows(e.graph.edges), e.entry, e.exit)
  BY <1>4, <1>5
<1>7. /\ \E v \in e.graph.roots : e.entry = {v}
      /\ \E v \in e.graph.roots : e.exit = {v}
      /\ AllAfterEntry(e) /\ AllBeforeExit(e)
  BY DEF Hammock
<1>8. Hammock(NextExpression(all, e))
  BY <1>6, <1>7, HammockFromArrows DEF AllAfterEntry, AllBeforeExit
<1> QED BY <1>1, <1>8

\* Their informations one after the other.
UpTo(s, h, m) ==
    h = [n \in 0..m |-> IF n = 0 THEN FirstOf(IF s = <<>> THEN {} ELSE s[1].entry)
                        ELSE NextExpression(h[n - 1], s[n])]

LEMMA ListsGoOn ==
    ASSUME NEW s, NEW m \in Nat
    PROVE  \E h : UpTo(s, h, m)
<1> DEFINE S == {n \in Nat : \E h : UpTo(s, h, n)}
           start == FirstOf(IF s = <<>> THEN {} ELSE s[1].entry)
<1> HIDE DEF start
<1>1. 0 \in S
  <2>1. UpTo(s, [n \in 0..0 |-> start], 0)
    BY DEF UpTo, start
  <2> QED BY <2>1
<1>2. ASSUME NEW n \in Nat, n \in S PROVE n + 1 \in S
  <2>1. PICK h : UpTo(s, h, n)
    BY <1>2
  <2>2. PICK g : g = [k \in 0..n + 1 |-> IF k \in 0..n THEN h[k] ELSE NextExpression(h[n], s[n + 1])]
    OBVIOUS
  <2>3. ASSUME NEW k \in 0..n + 1
        PROVE  g[k] = IF k = 0 THEN start ELSE NextExpression(g[k - 1], s[k])
    <3>1. CASE k = 0
      BY <2>1, <2>2, <3>1 DEF UpTo, start
    <3>2. CASE k \in 1..n
      <4>1. k \in 0..n /\ k - 1 \in 0..n /\ k - 1 \in 0..n + 1 /\ k # 0
        BY <3>2
      <4>2. g[k] = h[k] /\ g[k - 1] = h[k - 1]
        BY <2>2, <4>1
      <4>3. h[k] = NextExpression(h[k - 1], s[k])
        BY <2>1, <4>1 DEF UpTo
      <4> QED BY <4>1, <4>2, <4>3
    <3>3. CASE k = n + 1
      <4>1. k \notin 0..n /\ k - 1 = n /\ n \in 0..n /\ n \in 0..n + 1 /\ k # 0
        BY <3>3
      <4>2. g[k] = NextExpression(h[n], s[n + 1]) /\ g[n] = h[n]
        BY <2>2, <4>1
      <4> QED BY <3>3, <4>1, <4>2
    <3> QED BY <3>1, <3>2, <3>3
  <2>4. UpTo(s, g, n + 1)
    BY <2>2, <2>3 DEF UpTo, start
  <2> QED BY <2>4
<1>3. \A n \in Nat : n \in S
  <2> HIDE DEF S
  <2> QED BY <1>1, <1>2, AllNumbers
<1> QED BY <1>3

LEMMA ListIsUpToItsEnd ==
    ASSUME NEW s, NEW m \in Nat, Len(s) = m
    PROVE  \E h : UpTo(s, h, m) /\ CfgExprList(s) = h[m]
<1> DEFINE upTo == CHOOSE h : UpTo(s, h, m)
<1>1. UpTo(s, upTo, m)
  BY ListsGoOn
<1>2. CfgExprList(s) = upTo[m]
  BY DEF CfgExprList, UpTo, FirstOf
<1> QED BY <1>1, <1>2

LEMMA ListIsAHammock ==
    ASSUME NEW s, NEW m \in Nat, m # 0, Len(s) = m, s # <<>>, \A k \in 1..m : Hammock(s[k])
    PROVE  Hammock(CfgExprList(s))
<1>1. PICK h : UpTo(s, h, m) /\ CfgExprList(s) = h[m]
  BY ListIsUpToItsEnd
<1> DEFINE S == {n \in Nat : n \in 1..m => Hammock(h[n])}
<1>2. 0 \in S
  OBVIOUS
<1>3. ASSUME NEW n \in Nat, n \in S PROVE n + 1 \in S
  <2>1. SUFFICES ASSUME n + 1 \in 1..m PROVE Hammock(h[n + 1])
    OBVIOUS
  <2>2. h[n + 1] = NextExpression(h[n], s[n + 1])
    BY <1>1, <2>1 DEF UpTo
  <2>3. CASE n = 0
    <3>1. h[0] = FirstOf(s[1].entry)
      BY <1>1 DEF UpTo
    <3> QED BY <2>1, <2>2, <2>3, <3>1, FirstIsAHammock
  <2>4. CASE n # 0
    <3>1. Hammock(h[n]) /\ Hammock(s[n + 1])
      BY <1>3, <2>1, <2>4
    <3> QED BY <2>2, <3>1, NextIsAHammock
  <2> QED BY <2>3, <2>4
<1>4. \A n \in Nat : n \in S
  <2> HIDE DEF S
  <2> QED BY <1>2, <1>3, AllNumbers
<1> QED BY <1>1, <1>4

\* cfgExprList (cfg.ts): the expressions of a list, however long it is, follow each other.
THEOREM ExprListIsAHammock ==
    ASSUME NEW T, NEW s \in Seq(T), s # <<>>, \A k \in 1..Len(s) : Hammock(s[k])
    PROVE  Hammock(CfgExprList(s))
<1>1. PICK m \in Nat : Len(s) = m /\ m # 0
  OBVIOUS
<1> QED BY <1>1, ListIsAHammock

-----------------------------------------------------------------------------
(* Function calls *)

\* The graph of a call up to some argument: from the call the flow comes everywhere but to its
\* exit, and from everywhere to what it has last.
Passed(at, call, exit) ==
    /\ IsGraph(at.graph)
    /\ call \subseteq at.graph.roots /\ exit \subseteq at.graph.roots
    /\ at.last \subseteq at.graph.roots /\ at.last # {}
    /\ \A S \in SUBSET at.graph.vertices :
         /\ call \subseteq S /\ Forth(Arrows(at.graph.edges), S) => at.graph.roots \subseteq S \cup exit /\ at.last \subseteq S
         /\ at.last \subseteq S /\ exit \subseteq S /\ Back(Arrows(at.graph.edges), S) => at.graph.roots \subseteq S

LEMMA FlowThroughPassed ==
    ASSUME NEW at, NEW call, NEW exit, Passed(at, call, exit),
           NEW A, Arrows(at.graph.edges) \subseteq A, NEW S
    PROVE  /\ call \subseteq S /\ Forth(A, S) => at.graph.roots \subseteq S \cup exit /\ at.last \subseteq S
           /\ at.last \subseteq S /\ exit \subseteq S /\ Back(A, S) => at.graph.roots \subseteq S
<1> DEFINE T == S \cap at.graph.vertices
<1>1. T \in SUBSET at.graph.vertices
  OBVIOUS
<1>2. Arrows(at.graph.edges) \subseteq at.graph.vertices \X at.graph.vertices
  BY GraphFields DEF Passed
<1>3. call \subseteq at.graph.vertices /\ exit \subseteq at.graph.vertices /\ at.last \subseteq at.graph.vertices
  BY GraphFields DEF Passed
<1>4. Forth(A, S) => Forth(Arrows(at.graph.edges), T)
  BY <1>2 DEF Forth
<1>5. Back(A, S) => Back(Arrows(at.graph.edges), T)
  BY <1>2 DEF Back
<1>6. T \subseteq S /\ \A X \in SUBSET at.graph.vertices : X \subseteq S => X \subseteq T
  OBVIOUS
<1> HIDE DEF T
<1>7. ASSUME call \subseteq S, Forth(A, S)
      PROVE  at.graph.roots \subseteq S \cup exit /\ at.last \subseteq S
  <2>1. call \subseteq T
    BY <1>3, <1>6, <1>7
  <2>2. at.graph.roots \subseteq T \cup exit /\ at.last \subseteq T
    BY <1>1, <1>4, <1>7, <2>1 DEF Passed
  <2> QED BY <1>6, <2>2
<1>8. ASSUME at.last \subseteq S, exit \subseteq S, Back(A, S)
      PROVE  at.graph.roots \subseteq S
  <2>1. at.last \subseteq T /\ exit \subseteq T
    BY <1>3, <1>6, <1>8
  <2>2. at.graph.roots \subseteq T
    BY <1>1, <1>5, <1>8, <2>1 DEF Passed
  <2> QED BY <1>6, <2>2
<1> QED BY <1>7, <1>8

LEMMA PassNameMade ==
    ASSUME NEW id, NEW name, Hammock(name), NEW call, call = {Vertex(id, "")}, NEW exit, exit = {Vertex(id, "exit")},
           NEW after, after = {Vertex(id, "name")}
    PROVE  /\ Built(PassName(id, name).graph, name.graph.vertices \cup (call \cup after \cup exit),
                    name.graph.roots \cup (call \cup after \cup exit),
                    Arrows(name.graph.edges) \cup (name.entry \X call \cup after \X name.exit))
           /\ PassName(id, name).last = after
<1> DEFINE V == name.graph.vertices \cup (call \cup after \cup exit)
           R == name.graph.roots \cup (call \cup after \cup exit)
           parts == AddVertices(name.graph, call \cup after \cup exit)
           edges == FD(name.entry, call) \cup FD(after, name.exit)
<1>1. Built(parts, V, R, Arrows(name.graph.edges))
  BY BuiltPart, BuiltVertices, HammockFields, PartFields
<1>2. name.entry \in SUBSET V /\ name.exit \in SUBSET V /\ call \in SUBSET V /\ after \in SUBSET V
  BY HammockFields, PartFields
<1>3. PassName(id, name) = [graph |-> AddEdges(parts, edges), last |-> after]
  BY DEF PassName
<1> HIDE DEF V, R, parts
<1>4. Fits(edges, V, name.entry \X call \cup after \X name.exit)
  BY <1>2, FlowFits, BothFit
<1> HIDE DEF edges
<1>5. Built(AddEdges(parts, edges), V, R, Arrows(name.graph.edges) \cup (name.entry \X call \cup after \X name.exit))
  BY <1>1, <1>4, BuiltEdges DEF Fits
<1>6. PassName(id, name).graph = AddEdges(parts, edges) /\ PassName(id, name).last = after
  <2>1. PICK graph : graph = AddEdges(parts, edges)
    OBVIOUS
  <2>2. PICK at : at = PassName(id, name)
    OBVIOUS
  <2>3. at = [graph |-> graph, last |-> after]
    BY <1>3, <2>1, <2>2
  <2>4. at.graph = graph /\ at.last = after
    BY <2>3
  <2> QED BY <2>1, <2>2, <2>4
<1> QED BY <1>5, <1>6 DEF V, R

LEMMA NameIsPassed ==
    ASSUME NEW id, NEW name, Hammock(name), NEW call, call = {Vertex(id, "")}, NEW exit, exit = {Vertex(id, "exit")}
    PROVE  /\ Passed(PassName(id, name), call, exit)
           /\ name.graph.vertices \subseteq PassName(id, name).graph.vertices
<1>1. PICK after : after = {Vertex(id, "name")}
  OBVIOUS
<1>2. PICK at : at = PassName(id, name)
  OBVIOUS
<1> DEFINE V == name.graph.vertices \cup (call \cup after \cup exit)
           R == name.graph.roots \cup (call \cup after \cup exit)
           A == Arrows(name.graph.edges) \cup (name.entry \X call \cup after \X name.exit)
<1>3. Built(at.graph, V, R, A) /\ at.last = after
  BY <1>1, <1>2, PassNameMade
<1>4. call # {} /\ after # {} /\ after \subseteq R /\ call \subseteq R /\ exit \subseteq R
  BY <1>1
<1>5. Arrows(name.graph.edges) \subseteq A /\ Wired(A, name.entry, call) /\ Wired(A, after, name.exit)
  BY DEF Wired
<1> HIDE DEF A
<1>6. ASSUME NEW S \in SUBSET V, call \subseteq S, Forth(A, S) PROVE R \subseteq S \cup exit /\ after \subseteq S
  <2>1. name.entry \subseteq S
    BY <1>4, <1>5, <1>6, Forwards
  <2>2. name.graph.roots \subseteq S
    BY <1>5, <1>6, <2>1, FlowThroughPart, HammockFields
  <2>3. after \subseteq S
    BY <1>5, <1>6, <2>2, Forwards, HammockFields, PartFields
  <2> QED BY <1>6, <2>2, <2>3
<1>7. ASSUME NEW S \in SUBSET V, after \subseteq S, exit \subseteq S, Back(A, S) PROVE R \subseteq S
  <2>1. name.exit \subseteq S
    BY <1>4, <1>5, <1>7, Backwards
  <2>2. name.graph.roots \subseteq S
    BY <1>5, <1>7, <2>1, FlowThroughPart, HammockFields
  <2>3. name.entry \subseteq S /\ name.entry # {}
    BY <2>2, HammockFields, PartFields
  <2>4. call \subseteq S
    BY <1>5, <1>7, <2>3, Backwards
  <2> QED BY <1>7, <2>2, <2>4
<1>8. name.graph.vertices \subseteq V
  OBVIOUS
<1> HIDE DEF V, R
<1>9. Passed(at, call, exit)
  BY <1>3, <1>4, <1>6, <1>7 DEF Passed, Built
<1> QED BY <1>2, <1>3, <1>8, <1>9 DEF Built

LEMMA PassArgumentMade ==
    ASSUME NEW at, IsGraph(at.graph), at.last \subseteq at.graph.vertices, NEW arg, Hammock(arg), arg # Undefined
    PROVE  /\ Built(PassArgument(at, arg).graph, at.graph.vertices \cup arg.graph.vertices,
                    at.graph.roots \cup arg.graph.roots,
                    Arrows(at.graph.edges) \cup Arrows(arg.graph.edges) \cup arg.entry \X at.last)
           /\ PassArgument(at, arg).last = arg.exit
<1> DEFINE V == at.graph.vertices \cup arg.graph.vertices
           R == at.graph.roots \cup arg.graph.roots
<1>1. PICK parts, edges : parts = Merge(at.graph, arg.graph) /\ edges = FD(arg.entry, at.last)
  OBVIOUS
<1>2. PICK new : new = PassArgument(at, arg)
  OBVIOUS
<1>3. new.graph = AddEdges(parts, edges) /\ new.last = arg.exit
  BY <1>1, <1>2 DEF PassArgument
<1>4. Built(at.graph, at.graph.vertices, at.graph.roots, Arrows(at.graph.edges))
  BY BuiltPart
<1>5. Built(arg.graph, arg.graph.vertices, arg.graph.roots, Arrows(arg.graph.edges))
  BY BuiltPart, HammockFields, PartFields
<1>6. Built(parts, V, R, Arrows(at.graph.edges) \cup Arrows(arg.graph.edges))
  BY <1>1, <1>4, <1>5, BuiltMerge
<1>7. arg.entry \in SUBSET V /\ at.last \in SUBSET V
  BY HammockFields, PartFields
<1> HIDE DEF V, R
<1>8. Fits(edges, V, arg.entry \X at.last)
  BY <1>1, <1>7, FlowFits
<1>9. Built(new.graph, V, R, Arrows(at.graph.edges) \cup Arrows(arg.graph.edges) \cup arg.entry \X at.last)
  BY <1>3, <1>6, <1>8, BuiltEdges DEF Fits
<1> QED BY <1>2, <1>3, <1>9 DEF V, R

LEMMA ArgumentIsPassed ==
    ASSUME NEW at, NEW call, NEW exit, call # {}, Passed(at, call, exit), NEW arg, HammockOrNothing(arg)
    PROVE  /\ Passed(PassArgument(at, arg), call, exit)
           /\ at.graph.vertices \cup arg.graph.vertices \subseteq PassArgument(at, arg).graph.vertices
<1>1. CASE arg = Undefined
  BY <1>1, NothingIsAnInformation DEF PassArgument
<1>2. ASSUME arg # Undefined PROVE Hammock(arg)
  BY <1>2 DEF HammockOrNothing
<1>3. CASE arg # Undefined
  <2> DEFINE V == at.graph.vertices \cup arg.graph.vertices
             R == at.graph.roots \cup arg.graph.roots
             A == Arrows(at.graph.edges) \cup Arrows(arg.graph.edges) \cup arg.entry \X at.last
  <2>1. Hammock(arg)
    BY <1>2, <1>3
  <2>3. PICK new : new = PassArgument(at, arg)
    OBVIOUS
  <2>4. new.last = arg.exit /\ Built(new.graph, V, R, A)
    <3>1. IsGraph(at.graph) /\ at.last \subseteq at.graph.vertices
      BY GraphFields DEF Passed
    <3> QED BY <1>3, <2>1, <2>3, <3>1, PassArgumentMade
  <2>6. /\ Arrows(at.graph.edges) \subseteq A /\ Arrows(arg.graph.edges) \subseteq A
        /\ Wired(A, arg.entry, at.last) /\ at.last # {}
    BY DEF Wired, Passed
  <2>7. call \subseteq R /\ exit \subseteq R /\ arg.exit \subseteq R /\ arg.exit # {}
    BY <2>1, HammockFields, PartFields DEF Passed
  <2> HIDE DEF A
  <2>8. ASSUME NEW S \in SUBSET V, call \subseteq S, Forth(A, S) PROVE R \subseteq S \cup exit /\ arg.exit \subseteq S
    <3>1. at.graph.roots \subseteq S \cup exit /\ at.last \subseteq S
      BY <2>6, <2>8, FlowThroughPassed
    <3>2. arg.entry \subseteq S
      BY <2>6, <2>8, <3>1, Forwards
    <3>3. arg.graph.roots \subseteq S
      BY <2>1, <2>6, <2>8, <3>2, FlowThroughPart, HammockFields
    <3> QED BY <2>1, <3>1, <3>3, HammockFields, PartFields
  <2>9. ASSUME NEW S \in SUBSET V, arg.exit \subseteq S, exit \subseteq S, Back(A, S) PROVE R \subseteq S
    <3>1. arg.graph.roots \subseteq S
      BY <2>1, <2>6, <2>9, FlowThroughPart, HammockFields
    <3>2. at.last \subseteq S
      BY <2>1, <2>6, <2>9, <3>1, Backwards, HammockFields, PartFields
    <3>3. at.graph.roots \subseteq S
      BY <2>6, <2>9, <3>2, FlowThroughPassed
    <3> QED BY <3>1, <3>3
  <2>10. Passed(new, call, exit) /\ V \subseteq new.graph.vertices
    <3> HIDE DEF V, R
    <3> QED BY <2>4, <2>7, <2>8, <2>9 DEF Passed, Built
  <2> QED BY <2>3, <2>10
<1> QED BY <1>1, <1>3

CalledUpTo(id, name, args, h, m) ==
    h = [n \in 0..m |-> IF n = 0 THEN PassName(id, name) ELSE PassArgument(h[n - 1], args[n])]

LEMMA CallsGoOn ==
    ASSUME NEW id, NEW name, NEW args, NEW m \in Nat
    PROVE  \E h : CalledUpTo(id, name, args, h, m)
<1> DEFINE S == {n \in Nat : \E h : CalledUpTo(id, name, args, h, n)}
<1>1. 0 \in S
  <2>1. CalledUpTo(id, name, args, [n \in 0..0 |-> PassName(id, name)], 0)
    BY DEF CalledUpTo
  <2> QED BY <2>1
<1>2. ASSUME NEW n \in Nat, n \in S PROVE n + 1 \in S
  <2>1. PICK h : CalledUpTo(id, name, args, h, n)
    BY <1>2
  <2>2. PICK g : g = [k \in 0..n + 1 |-> IF k \in 0..n THEN h[k] ELSE PassArgument(h[n], args[n + 1])]
    OBVIOUS
  <2>3. ASSUME NEW k \in 0..n + 1
        PROVE  g[k] = IF k = 0 THEN PassName(id, name) ELSE PassArgument(g[k - 1], args[k])
    <3>1. CASE k = 0
      BY <2>1, <2>2, <3>1 DEF CalledUpTo
    <3>2. CASE k \in 1..n
      <4>1. k \in 0..n /\ k - 1 \in 0..n /\ k - 1 \in 0..n + 1 /\ k # 0
        BY <3>2
      <4>2. g[k] = h[k] /\ g[k - 1] = h[k - 1]
        BY <2>2, <4>1
      <4>3. h[k] = PassArgument(h[k - 1], args[k])
        BY <2>1, <4>1 DEF CalledUpTo
      <4> QED BY <4>1, <4>2, <4>3
    <3>3. CASE k = n + 1
      <4>1. k \notin 0..n /\ k - 1 = n /\ n \in 0..n /\ n \in 0..n + 1 /\ k # 0
        BY <3>3
      <4>2. g[k] = PassArgument(h[n], args[n + 1]) /\ g[n] = h[n]
        BY <2>2, <4>1
      <4> QED BY <3>3, <4>1, <4>2
    <3> QED BY <3>1, <3>2, <3>3
  <2>4. CalledUpTo(id, name, args, g, n + 1)
    BY <2>2, <2>3 DEF CalledUpTo
  <2> QED BY <2>4
<1>3. \A n \in Nat : n \in S
  <2> HIDE DEF S
  <2> QED BY <1>1, <1>2, AllNumbers
<1> QED BY <1>3

LEMMA CallIsUpToItsEnd ==
    ASSUME NEW id, NEW name, NEW args, NEW m \in Nat, Len(args) = m
    PROVE  \E h : /\ CalledUpTo(id, name, args, h, m)
                  /\ CfgFunctionCall(id, name, args)
                     = Information(AddEdges(h[m].graph, FD({Vertex(id, "exit")}, h[m].last)),
                                   Jumps({name} \cup Range(args)), {Vertex(id, "")}, {Vertex(id, "exit")})
<1> DEFINE passed == CHOOSE h : CalledUpTo(id, name, args, h, m)
<1>1. CalledUpTo(id, name, args, passed, m)
  BY CallsGoOn
<1>2. CfgFunctionCall(id, name, args)
      = Information(AddEdges(passed[m].graph, FD({Vertex(id, "exit")}, passed[m].last)),
                    Jumps({name} \cup Range(args)), {Vertex(id, "")}, {Vertex(id, "exit")})
  BY DEF CfgFunctionCall, CalledUpTo
<1> QED BY <1>1, <1>2

LEMMA CallMade ==
    ASSUME NEW id, NEW name, NEW T, NEW args \in Seq(T), Hammock(name),
           \A k \in 1..Len(args) : HammockOrNothing(args[k]), NEW m \in Nat, Len(args) = m
    PROVE  \E h : /\ CalledUpTo(id, name, args, h, m)
                  /\ Passed(h[m], {Vertex(id, "")}, {Vertex(id, "exit")})
                  /\ Made(CfgFunctionCall(id, name, args), h[m].graph.vertices, h[m].graph.roots,
                          Arrows(h[m].graph.edges) \cup {Vertex(id, "exit")} \X h[m].last,
                          {Vertex(id, "")}, {Vertex(id, "exit")})
<1>1. m \in Nat /\ Len(args) = m
  OBVIOUS
<1>2. PICK call, exit : call = {Vertex(id, "")} /\ exit = {Vertex(id, "exit")}
  OBVIOUS
<1>3. PICK h : /\ CalledUpTo(id, name, args, h, m)
               /\ CfgFunctionCall(id, name, args)
                  = Information(AddEdges(h[m].graph, FD(exit, h[m].last)), Jumps({name} \cup Range(args)), call, exit)
  BY <1>1, <1>2, CallIsUpToItsEnd
<1> DEFINE Within(n) == /\ name.graph.vertices \subseteq h[n].graph.vertices
                       /\ \A k \in 1..n : args[k].graph.vertices \subseteq h[n].graph.vertices
           S == {n \in Nat : n \in 0..m => Passed(h[n], call, exit) /\ Within(n)}
<1>4. 0 \in S
  <2>1. h[0] = PassName(id, name)
    BY <1>3 DEF CalledUpTo
  <2>2. Passed(h[0], call, exit) /\ name.graph.vertices \subseteq h[0].graph.vertices
    <3>1. PICK at : at = PassName(id, name)
      OBVIOUS
    <3>2. Hammock(name)
      OBVIOUS
    <3>3. Passed(at, call, exit) /\ name.graph.vertices \subseteq at.graph.vertices
      BY ONLY <1>2, <3>1, <3>2, NameIsPassed
    <3> QED BY <2>1, <3>1, <3>3
  <2> QED BY <2>2
<1>5. ASSUME NEW n \in Nat, n \in S PROVE n + 1 \in S
  <2>1. SUFFICES ASSUME n + 1 \in 0..m PROVE Passed(h[n + 1], call, exit) /\ Within(n + 1)
    OBVIOUS
  <2>2. n \in 0..m /\ n + 1 \in 1..m
    BY <2>1
  <2>3. Passed(h[n], call, exit) /\ Within(n)
    BY <1>5, <2>2
  <2>4. h[n + 1] = PassArgument(h[n], args[n + 1])
    BY <1>3, <2>1 DEF CalledUpTo
  <2>5. HammockOrNothing(args[n + 1])
    BY <1>1, <2>2
  <2>6. Passed(h[n + 1], call, exit) /\ h[n].graph.vertices \cup args[n + 1].graph.vertices \subseteq h[n + 1].graph.vertices
    <3>1. call # {}
      BY <1>2
    <3> QED BY <2>3, <2>4, <2>5, <3>1, ArgumentIsPassed
  <2>7. \A k \in 1..n + 1 : k \in 1..n \/ k = n + 1
    OBVIOUS
  <2> QED BY <2>3, <2>6, <2>7
<1>6. m \in S
  <2> HIDE DEF S
  <2> QED BY <1>4, <1>5, AllNumbers
<1>7. PICK at : at = h[m]
  OBVIOUS
<1>8. Passed(at, call, exit) /\ Within(m)
  BY <1>6, <1>7
<1>9. JumpsWithin(Jumps({name} \cup Range(args)), at.graph.vertices)
  <2>1. IsInformation(name) /\ name.graph.vertices \subseteq at.graph.vertices
    BY <1>7, <1>8 DEF Hammock
  <2>2. \A p \in Range(args) : IsInformation(p) /\ p.graph.vertices \subseteq at.graph.vertices
    <3>1. ASSUME NEW k \in 1..m PROVE IsInformation(args[k]) /\ args[k].graph.vertices \subseteq at.graph.vertices
      BY <1>1, <1>7, <1>8, PartFields
    <3> QED BY <1>1, <3>1 DEF Range
  <2>3. \A p \in {name} \cup Range(args) : IsInformation(p) /\ p.graph.vertices \subseteq at.graph.vertices
    BY <2>1, <2>2
  <2> QED BY <2>3, JumpsOfParts
<1> DEFINE V == at.graph.vertices
           R == at.graph.roots
           A == Arrows(at.graph.edges) \cup exit \X at.last
<1>10. Made(CfgFunctionCall(id, name, args), V, R, A, call, exit)
  <2>1. Built(at.graph, V, R, Arrows(at.graph.edges))
    BY <1>8, BuiltPart DEF Passed
  <2>2. call \in SUBSET V /\ exit \in SUBSET V /\ at.last \in SUBSET V
    BY <1>8, GraphFields DEF Passed
  <2>3. Fits(FD(exit, at.last), V, exit \X at.last)
    BY <2>2, FlowFits
  <2>4. CfgFunctionCall(id, name, args)
        = Information(AddEdges(at.graph, FD(exit, at.last)), Jumps({name} \cup Range(args)), call, exit)
    BY <1>3, <1>7
  <2> HIDE DEF V, R
  <2>5. JumpsWithin(Jumps({name} \cup Range(args)), V)
    BY <1>9 DEF V
  <2>6. PICK edges, jumps : edges = FD(exit, at.last) /\ jumps = Jumps({name} \cup Range(args))
    OBVIOUS
  <2> QED BY <2>1, <2>2, <2>3, <2>4, <2>5, <2>6, MadeFromParts
<1> HIDE DEF S, Within
<1> QED BY <1>2, <1>3, <1>7, <1>8, <1>10

\* cfgFunctionCall (cfg.ts): a call, however many arguments it has, and whichever of them are not there.
THEOREM FunctionCallIsAHammock ==
    ASSUME NEW id, NEW name, NEW T, NEW args \in Seq(T), Hammock(name),
           \A k \in 1..Len(args) : HammockOrNothing(args[k])
    PROVE  Hammock(CfgFunctionCall(id, name, args))
<1>1. PICK m \in Nat : Len(args) = m
  OBVIOUS
<1>2. PICK call, exit : call = {Vertex(id, "")} /\ exit = {Vertex(id, "exit")}
  OBVIOUS
<1>3. PICK h : /\ Passed(h[m], {Vertex(id, "")}, {Vertex(id, "exit")})
               /\ Made(CfgFunctionCall(id, name, args), h[m].graph.vertices, h[m].graph.roots,
                       Arrows(h[m].graph.edges) \cup {Vertex(id, "exit")} \X h[m].last,
                       {Vertex(id, "")}, {Vertex(id, "exit")})
  BY <1>1, CallMade
<1>7. PICK at : at = h[m]
  OBVIOUS
<1>8. Passed(at, call, exit)
  BY <1>2, <1>3, <1>7
<1> DEFINE V == at.graph.vertices
           R == at.graph.roots
           A == Arrows(at.graph.edges) \cup exit \X at.last
<1>10. Made(CfgFunctionCall(id, name, args), V, R, A, call, exit)
  BY <1>2, <1>3, <1>7
<1>11. Arrows(at.graph.edges) \subseteq A /\ Wired(A, exit, at.last)
  BY DEF Wired
<1>12. (\E v \in R : call = {v}) /\ (\E v \in R : exit = {v}) /\ exit # {} /\ at.last # {}
  BY <1>2, <1>8 DEF Passed
<1> HIDE DEF A
<1>13. ASSUME NEW X \in SUBSET V, call \subseteq X, Forth(A, X) PROVE R \subseteq X
  <2>1. at.graph.roots \subseteq X \cup exit /\ at.last \subseteq X
    BY <1>8, <1>11, <1>13, FlowThroughPassed
  <2>2. exit \subseteq X
    BY <1>11, <1>12, <1>13, <2>1, Forwards
  <2> QED BY <2>1, <2>2
<1>14. ASSUME NEW X \in SUBSET V, exit \subseteq X, Back(A, X) PROVE R \subseteq X
  <2>1. at.last \subseteq X
    BY <1>11, <1>12, <1>14, Backwards
  <2> QED BY <1>8, <1>11, <1>14, <2>1, FlowThroughPassed
<1>15. PICK i : i = CfgFunctionCall(id, name, args)
  OBVIOUS
<1> HIDE DEF V, R
<1>16. Made(i, V, R, A, call, exit)
  BY <1>10, <1>15
<1>17. Hammock(i)
  BY <1>12, <1>13, <1>14, <1>16, HammockFromArrows
<1> QED BY <1>15, <1>17

-----------------------------------------------------------------------------
(* Accesses *)

\* The graph of an access up to some index: as soon as some are given, it has all between the
\* access and its exit.
Indexed(graph, access, exit, given) ==
    /\ IsGraph(graph) /\ access \subseteq graph.roots /\ exit \subseteq graph.roots
    /\ \A S \in SUBSET graph.vertices :
         /\ access \subseteq S /\ Forth(Arrows(graph.edges), S)
              => graph.roots \subseteq S \cup exit /\ (given # {} => exit \subseteq S)
         /\ exit \subseteq S /\ (given # {} \/ access \subseteq S) /\ Back(Arrows(graph.edges), S)
              => graph.roots \subseteq S

LEMMA FlowThroughIndexed ==
    ASSUME NEW graph, NEW access, NEW exit, NEW given, Indexed(graph, access, exit, given),
           NEW A, Arrows(graph.edges) \subseteq A, NEW S
    PROVE  /\ access \subseteq S /\ Forth(A, S) => graph.roots \subseteq S \cup exit /\ (given # {} => exit \subseteq S)
           /\ exit \subseteq S /\ (given # {} \/ access \subseteq S) /\ Back(A, S) => graph.roots \subseteq S
<1> DEFINE T == S \cap graph.vertices
<1>1. T \in SUBSET graph.vertices
  OBVIOUS
<1>2. Arrows(graph.edges) \subseteq graph.vertices \X graph.vertices
  BY GraphFields DEF Indexed
<1>3. access \subseteq graph.vertices /\ exit \subseteq graph.vertices
  BY GraphFields DEF Indexed
<1>4. Forth(A, S) => Forth(Arrows(graph.edges), T)
  BY <1>2 DEF Forth
<1>5. Back(A, S) => Back(Arrows(graph.edges), T)
  BY <1>2 DEF Back
<1>6. T \subseteq S /\ \A X \in SUBSET graph.vertices : X \subseteq S => X \subseteq T
  OBVIOUS
<1> HIDE DEF T
<1>7. ASSUME access \subseteq S, Forth(A, S)
      PROVE  graph.roots \subseteq S \cup exit /\ (given # {} => exit \subseteq S)
  <2>1. access \subseteq T
    BY <1>3, <1>6, <1>7
  <2>2. graph.roots \subseteq T \cup exit /\ (given # {} => exit \subseteq T)
    BY <1>1, <1>4, <1>7, <2>1 DEF Indexed
  <2> QED BY <1>6, <2>2
<1>8. ASSUME exit \subseteq S, given # {} \/ access \subseteq S, Back(A, S)
      PROVE  graph.roots \subseteq S
  <2>1. exit \subseteq T /\ (given # {} \/ access \subseteq T)
    BY <1>3, <1>6, <1>8
  <2>2. graph.roots \subseteq T
    BY <1>1, <1>5, <1>8, <2>1 DEF Indexed
  <2> QED BY <1>6, <2>2
<1> QED BY <1>7, <1>8

LEMMA NameIsIndexed ==
    ASSUME NEW id, NEW name, Hammock(name), NEW access, access = {Vertex(id, "")}, NEW exit, exit = {Vertex(id, "exit")}
    PROVE  /\ Indexed(AccessName(id, name), access, exit, {})
           /\ name.graph.vertices \subseteq AccessName(id, name).vertices
<1> DEFINE V == name.graph.vertices \cup (access \cup exit)
           R == name.graph.roots \cup (access \cup exit)
           A == Arrows(name.graph.edges) \cup (name.entry \X access \cup access \X name.exit)
<1>1. PICK graph : graph = AccessName(id, name)
  OBVIOUS
<1>2. Built(graph, V, R, A)
  <2>1. PICK parts, edges : /\ parts = AddVertices(name.graph, access \cup exit)
                            /\ edges = FD(name.entry, access) \cup FD(access, name.exit)
    OBVIOUS
  <2>2. Built(parts, V, R, Arrows(name.graph.edges))
    BY <2>1, BuiltPart, BuiltVertices, HammockFields, PartFields
  <2>3. name.entry \in SUBSET V /\ name.exit \in SUBSET V /\ access \in SUBSET V
    BY HammockFields, PartFields
  <2>4. graph = AddEdges(parts, edges)
    BY <1>1, <2>1 DEF AccessName
  <2> HIDE DEF V, R
  <2>5. Fits(edges, V, name.entry \X access \cup access \X name.exit)
    <3>1. Fits(FD(name.entry, access), V, name.entry \X access) /\ Fits(FD(access, name.exit), V, access \X name.exit)
      BY <2>3, FlowFits
    <3> QED BY <2>1, <3>1, BothFit
  <2> QED BY <2>2, <2>4, <2>5, BuiltEdges DEF Fits
<1>3. access # {} /\ access \subseteq R /\ exit \subseteq R
  OBVIOUS
<1>4. Arrows(name.graph.edges) \subseteq A /\ Wired(A, name.entry, access) /\ Wired(A, access, name.exit)
  BY DEF Wired
<1> HIDE DEF A
<1>5. ASSUME NEW S \in SUBSET V, access \subseteq S, Forth(A, S) PROVE R \subseteq S \cup exit
  <2>1. name.entry \subseteq S
    BY <1>3, <1>4, <1>5, Forwards
  <2>2. name.graph.roots \subseteq S
    BY <1>4, <1>5, <2>1, FlowThroughPart, HammockFields
  <2> QED BY <1>5, <2>2
<1>6. ASSUME NEW S \in SUBSET V, exit \subseteq S, access \subseteq S, Back(A, S) PROVE R \subseteq S
  <2>1. name.exit \subseteq S
    BY <1>3, <1>4, <1>6, Backwards
  <2>2. name.graph.roots \subseteq S
    BY <1>4, <1>6, <2>1, FlowThroughPart, HammockFields
  <2> QED BY <1>6, <2>2
<1>7. name.graph.vertices \subseteq V
  OBVIOUS
<1> HIDE DEF V, R
<1>8. Indexed(graph, access, exit, {})
  BY <1>2, <1>3, <1>5, <1>6 DEF Indexed, Built
<1> QED BY <1>1, <1>2, <1>7, <1>8 DEF Built

LEMMA IndexBuilt ==
    ASSUME NEW id, NEW graph, NEW access, access = {Vertex(id, "")}, NEW exit, exit = {Vertex(id, "exit")},
           IsGraph(graph), access \subseteq graph.roots, exit \subseteq graph.roots,
           NEW index, IsInformation(index)
    PROVE  Built(AccessIndex(id, graph, index),
                 graph.vertices \cup index.graph.vertices, graph.roots \cup index.graph.roots,
                 Arrows(graph.edges) \cup Arrows(index.graph.edges)
                   \cup (index.entry \X access \cup exit \X index.exit))
<1> DEFINE V == graph.vertices \cup index.graph.vertices
           R == graph.roots \cup index.graph.roots
<1>1. PICK parts, edges : /\ parts = Merge(graph, index.graph)
                          /\ edges = FD(index.entry, access) \cup FD(exit, index.exit)
  OBVIOUS
<1>2. Built(parts, V, R, Arrows(graph.edges) \cup Arrows(index.graph.edges))
  BY <1>1, BuiltPart, BuiltMerge DEF IsInformation
<1>3. index.entry \in SUBSET V /\ index.exit \in SUBSET V /\ access \in SUBSET V /\ exit \in SUBSET V
  BY GraphFields DEF IsInformation
<1>4. AccessIndex(id, graph, index) = AddEdges(parts, edges)
  BY <1>1 DEF AccessIndex
<1> HIDE DEF V, R
<1>5. Fits(edges, V, index.entry \X access \cup exit \X index.exit)
  <2>1. Fits(FD(index.entry, access), V, index.entry \X access) /\ Fits(FD(exit, index.exit), V, exit \X index.exit)
    BY <1>3, FlowFits
  <2> QED BY <1>1, <2>1, BothFit
<1>6. Built(AddEdges(parts, edges), V, R,
            Arrows(graph.edges) \cup Arrows(index.graph.edges) \cup (index.entry \X access \cup exit \X index.exit))
  BY <1>2, <1>5, BuiltEdges DEF Fits
<1> QED BY <1>4, <1>6 DEF V, R

LEMMA IndexIsIndexed ==
    ASSUME NEW graph, NEW access, access # {}, NEW exit, exit # {}, NEW given, Indexed(graph, access, exit, given),
           NEW index, HammockOrNothing(index), NEW more, more # {} <=> given # {} \/ Hammock(index),
           NEW new, Built(new, graph.vertices \cup index.graph.vertices, graph.roots \cup index.graph.roots,
                          Arrows(graph.edges) \cup Arrows(index.graph.edges)
                            \cup (index.entry \X access \cup exit \X index.exit))
    PROVE  Indexed(new, access, exit, more)
<1> DEFINE V == graph.vertices \cup index.graph.vertices
           R == graph.roots \cup index.graph.roots
           A == Arrows(graph.edges) \cup Arrows(index.graph.edges)
                \cup (index.entry \X access \cup exit \X index.exit)
<1>2. Built(new, V, R, A)
  OBVIOUS
<1>3. access # {} /\ exit # {} /\ access \subseteq R /\ exit \subseteq R
  BY DEF Indexed
<1>4. /\ Arrows(graph.edges) \subseteq A /\ Arrows(index.graph.edges) \subseteq A
      /\ Wired(A, index.entry, access) /\ Wired(A, exit, index.exit)
  BY DEF Wired
<1> HIDE DEF A
<1>8. ASSUME NEW S
      PROVE  /\ access \subseteq S /\ Forth(A, S) => graph.roots \subseteq S \cup exit /\ (given # {} => exit \subseteq S)
             /\ exit \subseteq S /\ (given # {} \/ access \subseteq S) /\ Back(A, S) => graph.roots \subseteq S
  <2> HIDE DEF V, R
  <2>1. Arrows(graph.edges) \subseteq A
    BY <1>4
  <2>2. Indexed(graph, access, exit, given)
    OBVIOUS
  <2> QED BY ONLY <2>1, <2>2, FlowThroughIndexed
<1>5. ASSUME NEW S \in SUBSET V, access \subseteq S, Forth(A, S)
      PROVE  R \subseteq S \cup exit /\ (more # {} => exit \subseteq S)
  <2>1. graph.roots \subseteq S \cup exit /\ (given # {} => exit \subseteq S)
    BY <1>5, <1>8
  <2>2. index.entry \subseteq S
    BY <1>3, <1>4, <1>5, Forwards
  <2>3. index.graph.roots \subseteq S
    BY <1>4, <1>5, <2>2, FlowThroughPart
  <2>4. ASSUME Hammock(index) PROVE exit \subseteq S
    BY <1>4, <1>5, <2>3, <2>4, Forwards, HammockFields, PartFields
  <2> QED BY <2>1, <2>3, <2>4
<1>6. ASSUME NEW S \in SUBSET V, exit \subseteq S, more # {} \/ access \subseteq S, Back(A, S)
      PROVE  R \subseteq S
  <2>1. index.exit \subseteq S
    BY <1>3, <1>4, <1>6, Backwards
  <2>2. index.graph.roots \subseteq S
    BY <1>4, <1>6, <2>1, FlowThroughPart
  <2>3. ASSUME Hammock(index) PROVE access \subseteq S
    <3>1. index.entry \subseteq S /\ index.entry # {}
      BY <2>2, <2>3, HammockFields, PartFields
    <3> QED BY <1>4, <1>6, <3>1, Backwards
  <2>4. graph.roots \subseteq S
    BY <1>6, <1>8, <2>3
  <2> QED BY <2>2, <2>4
<1> HIDE DEF V, R
<1>7. Indexed(new, access, exit, more)
  BY <1>2, <1>3, <1>5, <1>6 DEF Indexed, Built
<1> QED BY <1>7

IndexedUpTo(id, name, accessors, h, m) ==
    h = [n \in 0..m |-> IF n = 0 THEN AccessName(id, name) ELSE AccessIndex(id, h[n - 1], accessors[n])]

LEMMA AccessesGoOn ==
    ASSUME NEW id, NEW name, NEW accessors, NEW m \in Nat
    PROVE  \E h : IndexedUpTo(id, name, accessors, h, m)
<1> DEFINE S == {n \in Nat : \E h : IndexedUpTo(id, name, accessors, h, n)}
<1>1. 0 \in S
  <2>1. IndexedUpTo(id, name, accessors, [n \in 0..0 |-> AccessName(id, name)], 0)
    BY DEF IndexedUpTo
  <2> QED BY <2>1
<1>2. ASSUME NEW n \in Nat, n \in S PROVE n + 1 \in S
  <2>1. PICK h : IndexedUpTo(id, name, accessors, h, n)
    BY <1>2
  <2>2. PICK g : g = [k \in 0..n + 1 |-> IF k \in 0..n THEN h[k] ELSE AccessIndex(id, h[n], accessors[n + 1])]
    OBVIOUS
  <2>3. ASSUME NEW k \in 0..n + 1
        PROVE  g[k] = IF k = 0 THEN AccessName(id, name) ELSE AccessIndex(id, g[k - 1], accessors[k])
    <3>1. CASE k = 0
      BY <2>1, <2>2, <3>1 DEF IndexedUpTo
    <3>2. CASE k \in 1..n
      <4>1. k \in 0..n /\ k - 1 \in 0..n /\ k - 1 \in 0..n + 1 /\ k # 0
        BY <3>2
      <4>2. g[k] = h[k] /\ g[k - 1] = h[k - 1]
        BY <2>2, <4>1
      <4>3. h[k] = AccessIndex(id, h[k - 1], accessors[k])
        BY <2>1, <4>1 DEF IndexedUpTo
      <4> QED BY <4>1, <4>2, <4>3
    <3>3. CASE k = n + 1
      <4>1. k \notin 0..n /\ k - 1 = n /\ n \in 0..n /\ n \in 0..n + 1 /\ k # 0
        BY <3>3
      <4>2. g[k] = AccessIndex(id, h[n], accessors[n + 1]) /\ g[n] = h[n]
        BY <2>2, <4>1
      <4> QED BY <3>3, <4>1, <4>2
    <3> QED BY <3>1, <3>2, <3>3
  <2>4. IndexedUpTo(id, name, accessors, g, n + 1)
    BY <2>2, <2>3 DEF IndexedUpTo
  <2> QED BY <2>4
<1>3. \A n \in Nat : n \in S
  <2> HIDE DEF S
  <2> QED BY <1>1, <1>2, AllNumbers
<1> QED BY <1>3

LEMMA AccessIsUpToItsEnd ==
    ASSUME NEW id, NEW name, NEW accessors, NEW m \in Nat, Len(accessors) = m
    PROVE  \E h : /\ IndexedUpTo(id, name, accessors, h, m)
                  /\ CfgAccess(id, name, accessors)
                     = Information(h[m], Jumps({name}), {Vertex(id, "")}, {Vertex(id, "exit")})
<1> DEFINE indexed == CHOOSE h : IndexedUpTo(id, name, accessors, h, m)
<1>1. IndexedUpTo(id, name, accessors, indexed, m)
  BY AccessesGoOn
<1>2. CfgAccess(id, name, accessors)
      = Information(indexed[m], Jumps({name}), {Vertex(id, "")}, {Vertex(id, "exit")})
  BY DEF CfgAccess, IndexedUpTo
<1> QED BY <1>1, <1>2

\* cfgAccess (cfg.ts): an access by one index or several, of which some may be empty, but not all.
THEOREM AccessIsAHammock ==
    ASSUME NEW id, NEW name, NEW T, NEW accessors \in Seq(T), Hammock(name),
           \A k \in 1..Len(accessors) : HammockOrNothing(accessors[k]),
           \E k \in 1..Len(accessors) : Hammock(accessors[k])
    PROVE  Hammock(CfgAccess(id, name, accessors))
<1>1. PICK m \in Nat : Len(accessors) = m
  OBVIOUS
<1>2. PICK access, exit : access = {Vertex(id, "")} /\ exit = {Vertex(id, "exit")}
  OBVIOUS
<1>3. PICK h : /\ IndexedUpTo(id, name, accessors, h, m)
               /\ CfgAccess(id, name, accessors) = Information(h[m], Jumps({name}), access, exit)
  BY <1>1, <1>2, AccessIsUpToItsEnd
<1> DEFINE Given(n) == {k \in 1..n : Hammock(accessors[k])}
           S == {n \in Nat : n \in 0..m => /\ Indexed(h[n], access, exit, Given(n))
                                           /\ name.graph.vertices \subseteq h[n].vertices}
<1>4. 0 \in S
  <2>1. h[0] = AccessName(id, name)
    BY <1>3 DEF IndexedUpTo
  <2>2. Indexed(h[0], access, exit, {}) /\ name.graph.vertices \subseteq h[0].vertices
    BY <1>2, <2>1, NameIsIndexed
  <2>3. Given(0) = {}
    OBVIOUS
  <2> QED BY <2>2, <2>3
<1>5. ASSUME NEW n \in Nat, n \in S PROVE n + 1 \in S
  <2>1. SUFFICES ASSUME n + 1 \in 0..m
                 PROVE  /\ Indexed(h[n + 1], access, exit, Given(n + 1))
                        /\ name.graph.vertices \subseteq h[n + 1].vertices
    OBVIOUS
  <2>2. n \in 0..m /\ n + 1 \in 1..m
    BY <2>1
  <2>3. Indexed(h[n], access, exit, Given(n)) /\ name.graph.vertices \subseteq h[n].vertices
    BY <1>5, <2>2
  <2>4. PICK index : index = accessors[n + 1]
    OBVIOUS
  <2>5. h[n + 1] = AccessIndex(id, h[n], index)
    BY <1>3, <2>1, <2>4 DEF IndexedUpTo
  <2>6. HammockOrNothing(index)
    BY <1>1, <2>2, <2>4
  <2>7. PICK given, more : given = Given(n) /\ more = Given(n + 1)
    OBVIOUS
  <2>8. more # {} <=> given # {} \/ Hammock(index)
    <3>1. \A k \in 1..n + 1 : k \in 1..n \/ k = n + 1
      OBVIOUS
    <3>2. n + 1 \in 1..n + 1 /\ 1..n \subseteq 1..n + 1
      OBVIOUS
    <3> QED BY <2>4, <2>7, <3>1, <3>2
  <2>9. PICK before, new : before = h[n] /\ new = h[n + 1]
    OBVIOUS
  <2>10. Indexed(before, access, exit, given)
    BY <2>3, <2>7, <2>9
  <2>11. Built(new, before.vertices \cup index.graph.vertices, before.roots \cup index.graph.roots,
               Arrows(before.edges) \cup Arrows(index.graph.edges)
                 \cup (index.entry \X access \cup exit \X index.exit))
    <3>1. IsGraph(before) /\ access \subseteq before.roots /\ exit \subseteq before.roots
      BY <2>10 DEF Indexed
    <3>2. IsInformation(index)
      BY <2>6, PartFields
    <3>3. new = AccessIndex(id, before, index)
      BY <2>5, <2>9
    <3> HIDE DEF Given, S
    <3>4. Built(AccessIndex(id, before, index), before.vertices \cup index.graph.vertices,
                before.roots \cup index.graph.roots,
                Arrows(before.edges) \cup Arrows(index.graph.edges)
                  \cup (index.entry \X access \cup exit \X index.exit))
      BY <1>2, <3>1, <3>2, IndexBuilt
    <3> QED BY <3>3, <3>4
  <2>12. Indexed(new, access, exit, more)
    <3>1. access # {} /\ exit # {}
      BY <1>2
    <3> QED BY <2>6, <2>8, <2>10, <2>11, <3>1, IndexIsIndexed
  <2>13. name.graph.vertices \subseteq new.vertices
    BY <2>3, <2>9, <2>11 DEF Built
  <2> HIDE DEF Given
  <2> QED BY <2>7, <2>9, <2>12, <2>13
<1>6. m \in S
  <2> HIDE DEF S
  <2> QED BY <1>4, <1>5, AllNumbers
<1>7. PICK graph : graph = h[m]
  OBVIOUS
<1>8. PICK given : /\ given # {} /\ Indexed(graph, access, exit, given)
                   /\ name.graph.vertices \subseteq graph.vertices
  <2>1. Given(m) # {}
    BY <1>1
  <2>2. Indexed(h[m], access, exit, Given(m)) /\ name.graph.vertices \subseteq h[m].vertices
    BY <1>6
  <2> QED BY <1>7, <2>1, <2>2
<1> DEFINE V == graph.vertices
           R == graph.roots
           A == Arrows(graph.edges)
<1>9. PICK i : i = CfgAccess(id, name, accessors)
  OBVIOUS
<1>10. Made(i, V, R, A, access, exit)
  <2>1. Built(graph, V, R, A)
    BY <1>8, BuiltPart DEF Indexed
  <2>2. access \in SUBSET V /\ exit \in SUBSET V
    BY <1>8, GraphFields DEF Indexed
  <2>3. \A p \in {name} : IsInformation(p) /\ p.graph.vertices \subseteq V
    BY <1>8 DEF Hammock
  <2> HIDE DEF V, R, A
  <2>4. JumpsWithin(Jumps({name}), V)
    BY <2>3, JumpsOfParts
  <2>5. PICK jumps : jumps = Jumps({name})
    OBVIOUS
  <2>6. Made(Information(graph, jumps, access, exit), V, R, A, access, exit)
    BY <2>1, <2>2, <2>4, <2>5, MadeInformation
  <2> QED BY <1>3, <1>7, <1>9, <2>5, <2>6
<1>11. (\E v \in R : access = {v}) /\ (\E v \in R : exit = {v})
  BY <1>2, <1>8 DEF Indexed
<1>12. ASSUME NEW X \in SUBSET V, access \subseteq X, Forth(A, X) PROVE R \subseteq X
  BY <1>8, <1>12 DEF Indexed
<1>13. ASSUME NEW X \in SUBSET V, exit \subseteq X, Back(A, X) PROVE R \subseteq X
  BY <1>8, <1>13 DEF Indexed
<1> HIDE DEF V, R, A, S, Given
<1>14. Hammock(i)
  <2>1. \A X \in SUBSET V : access \subseteq X /\ Forth(A, X) => R \subseteq X
    BY <1>12
  <2>2. \A X \in SUBSET V : exit \subseteq X /\ Back(A, X) => R \subseteq X
    BY <1>13
  <2> QED BY <1>10, <1>11, <2>1, <2>2, HammockFromArrows
<1> QED BY <1>9, <1>14

-----------------------------------------------------------------------------
(* Function definitions *)

LEMMA BuiltNested ==
    ASSUME NEW graph, NEW V, NEW R, NEW A, Built(graph, V, R, A), NEW added
    PROVE  Built(AddNested(graph, added), V \cup added, R, A)
<1>1. PICK E, K : graph = [vertices |-> V, roots |-> R, edges |-> E, children |-> K]
  BY DEF Built, IsGraph
<1>2. PICK wide : wide = AddNested(graph, added)
  OBVIOUS
<1>3. wide = [vertices |-> V \cup added, roots |-> R, edges |-> E, children |-> K]
  BY <1>1, <1>2 DEF AddNested
<1>4. graph.edges = E /\ graph.children = K /\ graph.roots = R /\ graph.vertices = V
  BY <1>1
<1>5. R \subseteq V /\ E \subseteq EdgesIn(V) /\ K \subseteq V \X V /\ Arrows(E) = A
  BY <1>4, GraphFields DEF Built
<1>6. E \subseteq EdgesIn(V \cup added)
  BY <1>5, MoreVertices
<1>7. wide.vertices = V \cup added /\ wide.roots = R /\ wide.edges = E /\ wide.children = K
  BY <1>3
<1>8. wide = [vertices |-> wide.vertices, roots |-> wide.roots, edges |-> wide.edges, children |-> wide.children]
  BY <1>3, <1>7
<1> QED BY <1>2, <1>5, <1>6, <1>7, <1>8 DEF Built, IsGraph

LEMMA BuiltMergeNested ==
    ASSUME NEW graph, NEW V, NEW R, NEW A, Built(graph, V, R, A),
           NEW other, NEW W, NEW S, NEW B, Built(other, W, S, B)
    PROVE  Built(MergeNested(graph, other), V \cup W, R, A \cup B)
BY MergingNested DEF Built

LEMMA BuiltChildren ==
    ASSUME NEW graph, NEW V, NEW R, NEW A, Built(graph, V, R, A), NEW more, more \subseteq V \X V
    PROVE  Built([graph EXCEPT !.children = @ \cup more], V, R, A)
<1>1. PICK E, K : graph = [vertices |-> V, roots |-> R, edges |-> E, children |-> K]
  BY DEF Built, IsGraph
<1>2. PICK all : all = K \cup more
  OBVIOUS
<1>3. PICK new : new = [graph EXCEPT !.children = @ \cup more]
  OBVIOUS
<1>4. new = [graph EXCEPT !.children = all]
  BY <1>1, <1>2, <1>3
<1>5. new = [vertices |-> V, roots |-> R, edges |-> E, children |-> all]
  BY <1>1, <1>4, OneField
<1>6. graph.edges = E /\ graph.children = K /\ graph.roots = R /\ graph.vertices = V
  BY <1>1
<1>7. R \subseteq V /\ E \subseteq EdgesIn(V) /\ all \subseteq V \X V /\ Arrows(E) = A
  BY <1>2, <1>6, GraphFields DEF Built
<1>8. new.vertices = V /\ new.roots = R /\ new.edges = E /\ new.children = all
  BY <1>5
<1>9. new = [vertices |-> new.vertices, roots |-> new.roots, edges |-> new.edges, children |-> new.children]
  BY <1>5, <1>8
<1> QED BY <1>3, <1>7, <1>8, <1>9 DEF Built, IsGraph

\* Body and parameters up to some parameter, within the definition.
NestedFirst(id, body) ==
    MergeNested(AddNested(AddVertices(EmptyGraph, {Vertex(id, "")}), {Vertex(id, "params")} \cup {Vertex(id, "exit")}),
                body.graph)
NestedUpTo(id, params, body, h, m) ==
    h = [n \in 0..m |-> IF n = 0 THEN NestedFirst(id, body) ELSE MergeNested(h[n - 1], params[n].graph)]

LEMMA DefinitionsGoOn ==
    ASSUME NEW id, NEW params, NEW body, NEW m \in Nat
    PROVE  \E h : NestedUpTo(id, params, body, h, m)
<1> DEFINE S == {n \in Nat : \E h : NestedUpTo(id, params, body, h, n)}
<1>1. 0 \in S
  <2>1. NestedUpTo(id, params, body, [n \in 0..0 |-> NestedFirst(id, body)], 0)
    BY DEF NestedUpTo
  <2> QED BY <2>1
<1>2. ASSUME NEW n \in Nat, n \in S PROVE n + 1 \in S
  <2>1. PICK h : NestedUpTo(id, params, body, h, n)
    BY <1>2
  <2>2. PICK g : g = [k \in 0..n + 1 |-> IF k \in 0..n THEN h[k] ELSE MergeNested(h[n], params[n + 1].graph)]
    OBVIOUS
  <2>3. ASSUME NEW k \in 0..n + 1
        PROVE  g[k] = IF k = 0 THEN NestedFirst(id, body) ELSE MergeNested(g[k - 1], params[k].graph)
    <3>1. CASE k = 0
      BY <2>1, <2>2, <3>1 DEF NestedUpTo
    <3>2. CASE k \in 1..n
      <4>1. k \in 0..n /\ k - 1 \in 0..n /\ k - 1 \in 0..n + 1 /\ k # 0
        BY <3>2
      <4>2. g[k] = h[k] /\ g[k - 1] = h[k - 1]
        BY <2>2, <4>1
      <4>3. h[k] = MergeNested(h[k - 1], params[k].graph)
        BY <2>1, <4>1 DEF NestedUpTo
      <4> QED BY <4>1, <4>2, <4>3
    <3>3. CASE k = n + 1
      <4>1. k \notin 0..n /\ k - 1 = n /\ n \in 0..n /\ n \in 0..n + 1 /\ k # 0
        BY <3>3
      <4>2. g[k] = MergeNested(h[n], params[n + 1].graph) /\ g[n] = h[n]
        BY <2>2, <4>1
      <4> QED BY <3>3, <4>1, <4>2
    <3> QED BY <3>1, <3>2, <3>3
  <2>4. NestedUpTo(id, params, body, g, n + 1)
    BY <2>2, <2>3 DEF NestedUpTo
  <2> QED BY <2>4
<1>3. \A n \in Nat : n \in S
  <2> HIDE DEF S
  <2> QED BY <1>1, <1>2, AllNumbers
<1> QED BY <1>3

\* The vertices a definition gets as children.
DefinitionChildren(params, body, after, exit) ==
    after \cup exit \cup body.graph.roots \cup UNION {params[i].graph.roots : i \in DOMAIN params}

\* The edges a definition adds to those of its parts.
DefinitionEdges(params, body, fn, after, exit) ==
    (UNION {FD(params[i].entry, fn) \cup FD(after, params[i].exit) : i \in DOMAIN params})
    \cup FD(body.entry, after)
    \cup FD(exit, body.returns \cup body.breaks \cup body.nexts \cup body.exit)

DefinitionOf(graph, body, fn, children, edges) ==
    Information(AddEdges([graph EXCEPT !.children = @ \cup (fn \X children)], edges), OnlyReturns(body), fn, fn)

LEMMA DefinitionIsUpToItsEnd ==
    ASSUME NEW id, NEW params, NEW body, NEW m \in Nat, Len(params) = m
    PROVE  \E h : /\ NestedUpTo(id, params, body, h, m)
                  /\ CfgFunctionDefinition(id, params, body)
                     = DefinitionOf(h[m], body, {Vertex(id, "")},
                          DefinitionChildren(params, body, {Vertex(id, "params")}, {Vertex(id, "exit")}),
                          DefinitionEdges(params, body, {Vertex(id, "")}, {Vertex(id, "params")}, {Vertex(id, "exit")}))
<1> DEFINE nested == CHOOSE h : NestedUpTo(id, params, body, h, m)
<1>1. NestedUpTo(id, params, body, nested, m)
  BY DefinitionsGoOn
<1>2. CfgFunctionDefinition(id, params, body)
      = DefinitionOf(nested[m], body, {Vertex(id, "")},
           DefinitionChildren(params, body, {Vertex(id, "params")}, {Vertex(id, "exit")}),
           DefinitionEdges(params, body, {Vertex(id, "")}, {Vertex(id, "params")}, {Vertex(id, "exit")}))
  BY DEF DefinitionOf, CfgFunctionDefinition, NestedUpTo, NestedFirst, DefinitionEdges, DefinitionChildren
<1> QED BY <1>1, <1>2

\* A graph has what is needed of a part.
HasPart(graph, part) ==
    part.graph.vertices \subseteq graph.vertices /\ Arrows(part.graph.edges) \subseteq Arrows(graph.edges)

LEMMA MergedIsHeld ==
    ASSUME NEW graph, IsGraph(graph), NEW part, IsInformation(part)
    PROVE  /\ IsGraph(MergeNested(graph, part.graph))
           /\ MergeNested(graph, part.graph).roots = graph.roots
           /\ graph.vertices \subseteq MergeNested(graph, part.graph).vertices
           /\ HasPart(MergeNested(graph, part.graph), part)
           /\ \A other : HasPart(graph, other) => HasPart(MergeNested(graph, part.graph), other)
<1>1. IsGraph(part.graph)
  BY DEF IsInformation
<1>2. PICK all, new : all = part.graph /\ new = MergeNested(graph, all)
  OBVIOUS
<1>3. /\ IsGraph(new) /\ new.vertices = graph.vertices \cup all.vertices /\ new.roots = graph.roots
      /\ Arrows(new.edges) = Arrows(graph.edges) \cup Arrows(all.edges)
  BY <1>1, <1>2, MergingNested
<1> QED BY <1>2, <1>3 DEF HasPart

\* Body and some parameters are in, on the nested level.
NestedWell(graph, params, n, body, fn, marks) ==
    /\ IsGraph(graph) /\ graph.roots = fn /\ fn \cup marks \subseteq graph.vertices
    /\ HasPart(graph, body) /\ \A k \in 1..n : HasPart(graph, params[k])

LEMMA FirstNumbers ==
    1..0 = {} /\ \A m \in Nat \ {0} : 1 \in 1..m
OBVIOUS

LEMMA BodyIsNested ==
    ASSUME NEW id, NEW params, NEW body, IsInformation(body), NEW fn, fn = {Vertex(id, "")},
           NEW marks, marks = {Vertex(id, "params")} \cup {Vertex(id, "exit")}
    PROVE  NestedWell(NestedFirst(id, body), params, 0, body, fn, marks)
<1>1. PICK empty, start, nested : /\ empty = EmptyGraph /\ start = AddVertices(empty, fn)
                                 /\ nested = AddNested(start, marks)
  OBVIOUS
<1>2. NestedFirst(id, body) = MergeNested(nested, body.graph)
  BY <1>1 DEF NestedFirst
<1>3. IsGraph(empty) /\ empty.vertices = {} /\ empty.roots = {} /\ Arrows(empty.edges) = {}
  BY <1>1, EmptyGraphIsOne
<1>4. Built(start, empty.vertices \cup fn, empty.roots \cup fn, Arrows(empty.edges))
  BY ONLY <1>1, <1>3, BuiltPart, BuiltVertices
<1>5. Built(start, fn, fn, {})
  BY ONLY <1>3, <1>4
<1>6. Built(nested, fn \cup marks, fn, {})
  BY ONLY <1>1, <1>5, BuiltNested
<1>7. IsGraph(nested) /\ nested.roots = fn /\ nested.vertices = fn \cup marks
  BY ONLY <1>6 DEF Built
<1>8. PICK new : new = MergeNested(nested, body.graph)
  OBVIOUS
<1>9. IsGraph(new) /\ new.roots = nested.roots /\ nested.vertices \subseteq new.vertices /\ HasPart(new, body)
  BY <1>7, <1>8, MergedIsHeld
<1>10. 1..0 = {}
  BY FirstNumbers
<1>11. NestedWell(new, params, 0, body, fn, marks)
  BY ONLY <1>7, <1>9, <1>10 DEF NestedWell
<1> QED BY <1>2, <1>8, <1>11

LEMMA ParameterIsNested ==
    ASSUME NEW graph, NEW params, NEW n \in Nat, NEW body, NEW fn, NEW marks,
           NestedWell(graph, params, n, body, fn, marks),
           NEW part, part = params[n + 1], IsInformation(part), NEW new, new = MergeNested(graph, part.graph)
    PROVE  NestedWell(new, params, n + 1, body, fn, marks)
<1>1. IsGraph(graph)
  BY DEF NestedWell
<1>2. /\ IsGraph(new) /\ new.roots = graph.roots /\ graph.vertices \subseteq new.vertices
      /\ HasPart(new, part) /\ \A other : HasPart(graph, other) => HasPart(new, other)
  BY <1>1, MergedIsHeld
<1>3. \A k \in 1..n + 1 : k \in 1..n \/ k = n + 1
  OBVIOUS
<1> QED BY <1>2, <1>3 DEF NestedWell

LEMMA PartsAreNested ==
    ASSUME NEW id, NEW params, NEW body, NEW m \in Nat, NEW fn, NEW marks,
           NEW h, NestedUpTo(id, params, body, h, m),
           NestedWell(NestedFirst(id, body), params, 0, body, fn, marks),
           \A k \in 1..m : IsInformation(params[k])
    PROVE  NestedWell(h[m], params, m, body, fn, marks)
<1> DEFINE S == {n \in Nat : n \in 0..m => NestedWell(h[n], params, n, body, fn, marks)}
<1>1. 0 \in S
  <2>1. h[0] = NestedFirst(id, body)
    BY DEF NestedUpTo
  <2> QED BY <2>1
<1>2. ASSUME NEW n \in Nat, n \in S PROVE n + 1 \in S
  <2>1. SUFFICES ASSUME n + 1 \in 0..m PROVE NestedWell(h[n + 1], params, n + 1, body, fn, marks)
    BY DEF S
  <2>2. n \in 0..m /\ n + 1 \in 1..m
    BY <2>1
  <2>3. NestedWell(h[n], params, n, body, fn, marks)
    BY <1>2, <2>2
  <2>4. PICK before, part, new : before = h[n] /\ part = params[n + 1] /\ new = h[n + 1]
    OBVIOUS
  <2>5. new = MergeNested(before, part.graph)
    BY <2>1, <2>4 DEF NestedUpTo
  <2>6. IsInformation(part)
    BY <2>2, <2>4
  <2>7. NestedWell(before, params, n, body, fn, marks)
    BY <2>3, <2>4
  <2> HIDE DEF S
  <2>8. NestedWell(new, params, n + 1, body, fn, marks)
    BY <2>4, <2>5, <2>6, <2>7, ParameterIsNested
  <2> QED BY <2>4, <2>8
<1>3. m \in S
  <2> HIDE DEF S
  <2> QED BY <1>1, <1>2, AllNumbers
<1> QED BY <1>3

LEMMA DefinitionMade ==
    ASSUME NEW id, NEW params, NEW m \in Nat, Len(params) = m, DOMAIN params = 1..m,
           \A k \in 1..m : IsInformation(params[k]), NEW body, IsInformation(body),
           NEW fn, fn = {Vertex(id, "")}, NEW after, after = {Vertex(id, "params")}, NEW exit, exit = {Vertex(id, "exit")}
    PROVE  \E V, A : /\ Made(CfgFunctionDefinition(id, params, body), V, fn, A, fn, fn)
                     /\ Arrows(body.graph.edges) \subseteq A
                     /\ Wired(A, body.entry, after) /\ Wired(A, exit, body.exit)
                     /\ \A k \in 1..m :
                          /\ Arrows(params[k].graph.edges) \subseteq A
                          /\ Wired(A, params[k].entry, fn) /\ Wired(A, after, params[k].exit)
<1>1. PICK h : /\ NestedUpTo(id, params, body, h, m)
               /\ CfgFunctionDefinition(id, params, body)
                  = DefinitionOf(h[m], body, {Vertex(id, "")},
                       DefinitionChildren(params, body, {Vertex(id, "params")}, {Vertex(id, "exit")}),
                       DefinitionEdges(params, body, {Vertex(id, "")}, {Vertex(id, "params")}, {Vertex(id, "exit")}))
  BY DefinitionIsUpToItsEnd
<1>2. PICK children : children = DefinitionChildren(params, body, after, exit)
  OBVIOUS
<1>3. PICK edges : edges = DefinitionEdges(params, body, fn, after, exit)
  OBVIOUS
<1>4. /\ NestedUpTo(id, params, body, h, m)
      /\ CfgFunctionDefinition(id, params, body) = DefinitionOf(h[m], body, fn, children, edges)
  BY <1>1, <1>2, <1>3
<1>5. PICK nested : nested = h[m]
  OBVIOUS
<1>6. /\ IsGraph(nested) /\ nested.roots = fn /\ fn \cup after \cup exit \subseteq nested.vertices
      /\ HasPart(nested, body) /\ \A k \in 1..m : HasPart(nested, params[k])
  <2>1. PICK marks : marks = after \cup exit
    OBVIOUS
  <2>2. NestedWell(NestedFirst(id, body), params, 0, body, fn, marks)
    BY <2>1, BodyIsNested
  <2>3. NestedWell(h[m], params, m, body, fn, marks)
    BY <1>4, <2>2, PartsAreNested
  <2> QED BY <1>5, <2>1, <2>3 DEF NestedWell
<1>7. DOMAIN params = 1..m
  OBVIOUS
<1> DEFINE V == nested.vertices
           A == Arrows(nested.edges)
           B == Arrows(edges)
<1>8. /\ fn \in SUBSET V /\ after \in SUBSET V /\ exit \in SUBSET V
      /\ body.graph.vertices \subseteq V /\ body.entry \in SUBSET V
      /\ body.returns \cup body.breaks \cup body.nexts \cup body.exit \in SUBSET V
  BY <1>6 DEF HasPart, IsInformation
<1>9. ASSUME NEW k \in 1..m
      PROVE  params[k].entry \in SUBSET V /\ params[k].exit \in SUBSET V /\ params[k].graph.roots \subseteq V
  <2>1. IsInformation(params[k]) /\ params[k].graph.vertices \subseteq V
    BY <1>6 DEF HasPart
  <2> QED BY <2>1, GraphFields DEF IsInformation
<1>10. fn \X children \subseteq V \X V
  <2>1. UNION {params[i].graph.roots : i \in DOMAIN params} \subseteq V
    BY <1>7, <1>9
  <2>2. body.graph.roots \subseteq V
    BY <1>8, GraphFields DEF IsInformation
  <2>3. children \subseteq V
    BY <1>2, <1>8, <2>1, <2>2 DEF DefinitionChildren
  <2> QED BY <1>8, <2>3
<1> HIDE DEF V
<1>11. Fits(FD(body.entry, after), V, body.entry \X after)
  BY <1>8, FlowFits
<1>12. Fits(FD(exit, body.returns \cup body.breaks \cup body.nexts \cup body.exit), V,
            exit \X (body.returns \cup body.breaks \cup body.nexts \cup body.exit))
  BY <1>8, FlowFits
<1>13. ASSUME NEW k \in 1..m
       PROVE  /\ Fits(FD(params[k].entry, fn), V, params[k].entry \X fn)
              /\ Fits(FD(after, params[k].exit), V, after \X params[k].exit)
  BY <1>8, <1>9, FlowFits
<1>14. edges \subseteq EdgesIn(V)
  <2>1. \A k \in DOMAIN params : FD(params[k].entry, fn) \cup FD(after, params[k].exit) \subseteq EdgesIn(V)
    BY <1>7, <1>13 DEF Fits
  <2>2. UNION {FD(params[i].entry, fn) \cup FD(after, params[i].exit) : i \in DOMAIN params} \subseteq EdgesIn(V)
    BY <2>1
  <2> QED BY <1>3, <1>11, <1>12, <2>2 DEF Fits, DefinitionEdges
<1>15. Wired(B, body.entry, after) /\ Wired(B, exit, body.exit)
  <2>1. FD(body.entry, after) \subseteq edges
        /\ FD(exit, body.returns \cup body.breaks \cup body.nexts \cup body.exit) \subseteq edges
    BY <1>3 DEF DefinitionEdges
  <2>2. /\ Arrows(FD(body.entry, after)) \subseteq B
        /\ Arrows(FD(exit, body.returns \cup body.breaks \cup body.nexts \cup body.exit)) \subseteq B
    BY <2>1 DEF Arrows
  <2>3. body.entry \X after \subseteq B /\ exit \X (body.returns \cup body.breaks \cup body.nexts \cup body.exit) \subseteq B
    BY <1>11, <1>12, <2>2 DEF Fits
  <2> HIDE DEF B
  <2> QED BY <2>3 DEF Wired
<1>16. ASSUME NEW k \in 1..m PROVE Wired(B, params[k].entry, fn) /\ Wired(B, after, params[k].exit)
  <2>1. FD(params[k].entry, fn) \subseteq edges /\ FD(after, params[k].exit) \subseteq edges
    <3> DEFINE Wire(l) == FD(params[l].entry, fn) \cup FD(after, params[l].exit)
    <3>1. edges = (UNION {Wire(l) : l \in DOMAIN params}) \cup FD(body.entry, after)
                  \cup FD(exit, body.returns \cup body.breaks \cup body.nexts \cup body.exit)
      BY <1>3 DEF DefinitionEdges
    <3>2. k \in DOMAIN params
      BY <1>7
    <3> HIDE DEF Wire
    <3>3. Wire(k) \subseteq edges
      BY ONLY <3>1, <3>2
    <3> QED BY <3>3 DEF Wire
  <2>2. Arrows(FD(params[k].entry, fn)) \subseteq B /\ Arrows(FD(after, params[k].exit)) \subseteq B
    BY <2>1 DEF Arrows
  <2>3. params[k].entry \X fn \subseteq B /\ after \X params[k].exit \subseteq B
    BY <1>13, <2>2 DEF Fits
  <2> HIDE DEF B
  <2> QED BY <2>3 DEF Wired
<1>17. PICK i : i = CfgFunctionDefinition(id, params, body)
  OBVIOUS
<1>18. Made(i, V, fn, A \cup B, fn, fn)
  <2>1. PICK more, new, jumps : /\ more = fn \X children /\ new = [nested EXCEPT !.children = @ \cup more]
                                /\ jumps = OnlyReturns(body)
    OBVIOUS
  <2>2. Built(nested, V, fn, A)
    BY <1>6, BuiltPart DEF V
  <2>3. Built(new, V, fn, A)
    BY <1>10, <2>1, <2>2, BuiltChildren
  <2>4. Fits(edges, V, B)
    BY <1>14 DEF Fits
  <2>5. JumpsWithin(jumps, V)
    BY <1>8, <2>1, JumpsOfOnePart
  <2>6. i = Information(AddEdges(new, edges), jumps, fn, fn)
    BY <1>4, <1>5, <1>17, <2>1 DEF DefinitionOf
  <2> HIDE DEF A, B
  <2> QED BY <1>8, <2>3, <2>4, <2>5, <2>6, MadeFromParts
<1>19. /\ Arrows(body.graph.edges) \subseteq A \cup B
       /\ \A k \in 1..m : Arrows(params[k].graph.edges) \subseteq A \cup B
  BY <1>6 DEF HasPart
<1>20. /\ Wired(A \cup B, body.entry, after) /\ Wired(A \cup B, exit, body.exit)
       /\ \A k \in 1..m : Wired(A \cup B, params[k].entry, fn) /\ Wired(A \cup B, after, params[k].exit)
  <2> HIDE DEF A, B
  <2> QED BY <1>15, <1>16 DEF Wired
<1> HIDE DEF A, B
<1> QED BY <1>17, <1>18, <1>19, <1>20

\* cfgFunctionDefinition (cfg.ts): outside a function there is only its definition.
THEOREM FunctionDefinitionIsAHammock ==
    ASSUME NEW id, NEW T, NEW params \in Seq(T), NEW body, HammockOrNothing(body),
           \A k \in 1..Len(params) : HammockOrNothing(params[k])
    PROVE  Hammock(CfgFunctionDefinition(id, params, body))
<1>1. PICK fn, after, exit : fn = {Vertex(id, "")} /\ after = {Vertex(id, "params")} /\ exit = {Vertex(id, "exit")}
  OBVIOUS
<1>2. PICK V, A : Made(CfgFunctionDefinition(id, params, body), V, fn, A, fn, fn)
  <2>1. PICK m \in Nat : Len(params) = m /\ DOMAIN params = 1..m
    OBVIOUS
  <2>2. IsInformation(body) /\ \A k \in 1..m : IsInformation(params[k])
    BY <2>1, PartFields
  <2> QED BY <1>1, <2>1, <2>2, DefinitionMade
<1>3. \E v \in fn : fn = {v}
  BY <1>1
<1> QED BY <1>2, <1>3, HammockFromArrows

\* Within the set is all that belongs to a function but not to one inside of it.
WholeFunction(id, params, body, S) ==
    /\ {Vertex(id, ""), Vertex(id, "params"), Vertex(id, "exit")} \subseteq S
    /\ body.graph.roots \subseteq S
    /\ \A k \in DOMAIN params : params[k].graph.roots \subseteq S

LEMMA FlowThroughFunction ==
    ASSUME NEW id, NEW params, NEW m \in Nat \ {0}, Len(params) = m, DOMAIN params = 1..m,
           \A k \in 1..m : Hammock(params[k]), NEW body, Hammock(body),
           NEW i, i = CfgFunctionDefinition(id, params, body)
    PROVE  \A S :
             /\ Vertex(id, "") \in S /\ Forth(Arrows(i.graph.edges), S) => WholeFunction(id, params, body, S)
             /\ Vertex(id, "exit") \in S /\ Back(Arrows(i.graph.edges), S) => WholeFunction(id, params, body, S)
<1>1. PICK fn, after, exit : fn = {Vertex(id, "")} /\ after = {Vertex(id, "params")} /\ exit = {Vertex(id, "exit")}
  OBVIOUS
<1>2. PICK V, A : /\ Made(i, V, fn, A, fn, fn)
                  /\ Arrows(body.graph.edges) \subseteq A
                  /\ Wired(A, body.entry, after) /\ Wired(A, exit, body.exit)
                  /\ \A k \in 1..m :
                       /\ Arrows(params[k].graph.edges) \subseteq A
                       /\ Wired(A, params[k].entry, fn) /\ Wired(A, after, params[k].exit)
  <2>1. IsInformation(body) /\ \A k \in 1..m : IsInformation(params[k])
    BY DEF Hammock
  <2> QED BY <1>1, <2>1, DefinitionMade
<1>3. Arrows(i.graph.edges) = A
  BY <1>2 DEF Made, Built
<1>4. fn # {} /\ after # {} /\ exit # {}
  BY <1>1
<1>5. 1 \in 1..m
  BY FirstNumbers
<1>6. ASSUME NEW S
      PROVE  /\ Vertex(id, "") \in S <=> fn \subseteq S
             /\ Vertex(id, "exit") \in S <=> exit \subseteq S
             /\ fn \cup after \cup exit \subseteq S <=>
                {Vertex(id, ""), Vertex(id, "params"), Vertex(id, "exit")} \subseteq S
  BY ONLY <1>1
<1>7. ASSUME NEW S, fn \subseteq S, Forth(A, S) PROVE WholeFunction(id, params, body, S)
  <2>1. ASSUME NEW k \in 1..m PROVE params[k].graph.roots \subseteq S /\ after \subseteq S
    <3>1. PICK p : p = params[k]
      OBVIOUS
    <3>2. Hammock(p) /\ Arrows(p.graph.edges) \subseteq A /\ Wired(A, p.entry, fn) /\ Wired(A, after, p.exit)
      BY <1>2, <3>1
    <3>3. p.entry \subseteq S
      BY <1>4, <1>7, <3>2, Forwards
    <3>4. p.graph.roots \subseteq S
      BY <1>7, <3>2, <3>3, FlowThroughPart, HammockFields
    <3>5. p.exit # {} /\ p.exit \subseteq S
      BY <3>2, <3>4, HammockFields, PartFields
    <3>6. after \subseteq S
      BY <1>7, <3>2, <3>5, Forwards
    <3> QED BY <3>1, <3>4, <3>6
  <2>2. after \subseteq S
    BY <1>5, <2>1
  <2>3. body.entry \subseteq S
    BY <1>2, <1>4, <1>7, <2>2, Forwards
  <2>4. body.graph.roots \subseteq S
    BY <1>2, <1>7, <2>3, FlowThroughPart, HammockFields
  <2>5. body.exit # {} /\ body.exit \subseteq S
    BY <2>4, HammockFields, PartFields
  <2>6. exit \subseteq S
    BY <1>2, <1>7, <2>5, Forwards
  <2> QED BY <1>6, <1>7, <2>1, <2>2, <2>4, <2>6 DEF WholeFunction
<1>8. ASSUME NEW S, exit \subseteq S, Back(A, S) PROVE WholeFunction(id, params, body, S)
  <2>1. body.exit \subseteq S
    BY <1>2, <1>4, <1>8, Backwards
  <2>2. body.graph.roots \subseteq S
    BY <1>2, <1>8, <2>1, FlowThroughPart, HammockFields
  <2>3. body.entry # {} /\ body.entry \subseteq S
    BY <2>2, HammockFields, PartFields
  <2>6. after \subseteq S
    BY <1>2, <1>8, <2>3, Backwards
  <2>4. ASSUME NEW k \in 1..m PROVE params[k].graph.roots \subseteq S /\ fn \subseteq S
    <3>1. PICK p : p = params[k]
      OBVIOUS
    <3>2. Hammock(p) /\ Arrows(p.graph.edges) \subseteq A /\ Wired(A, p.entry, fn) /\ Wired(A, after, p.exit)
      BY <1>2, <3>1
    <3>3. p.exit \subseteq S
      BY <1>4, <1>8, <2>6, <3>2, Backwards
    <3>4. p.graph.roots \subseteq S
      BY <1>8, <3>2, <3>3, FlowThroughPart, HammockFields
    <3>5. p.entry # {} /\ p.entry \subseteq S
      BY <3>2, <3>4, HammockFields, PartFields
    <3>6. fn \subseteq S
      BY <1>8, <3>2, <3>5, Backwards
    <3> QED BY <3>1, <3>4, <3>6
  <2>5. fn \subseteq S
    BY <1>5, <2>4
  <2> QED BY <1>6, <1>8, <2>2, <2>6, <2>4, <2>5 DEF WholeFunction
<1> QED BY <1>3, <1>6, <1>7, <1>8

\* cfgFunctionDefinition (cfg.ts): within a function with parameters the flow comes from the
\* definition through parameters and body to the exit, and all of it does.
THEOREM FunctionIsAHammockInside ==
    ASSUME NEW id, NEW T, NEW params \in Seq(T), params # <<>>, \A k \in 1..Len(params) : Hammock(params[k]),
           NEW body, Hammock(body), NEW i, i = CfgFunctionDefinition(id, params, body)
    PROVE  \A S :
             /\ Vertex(id, "") \in S /\ Forth(Arrows(i.graph.edges), S) => WholeFunction(id, params, body, S)
             /\ Vertex(id, "exit") \in S /\ Back(Arrows(i.graph.edges), S) => WholeFunction(id, params, body, S)
<1>1. PICK m \in Nat \ {0} : Len(params) = m /\ DOMAIN params = 1..m
  OBVIOUS
<1> QED BY <1>1, FlowThroughFunction

-----------------------------------------------------------------------------
(* No hammocks                                                             *)

\* cfgUnaryOp (cfg.ts): from the operand nothing comes to the operation, which is what it leaves from.
THEOREM UnaryOpIsNoHammock ==
    ASSUME NEW id, NEW g, NEW jumps, NEW x, NEW y, NEW operand, operand = Information(g, jumps, x, y),
           IsInformation(operand), Vertex(id, "") \notin g.vertices
    PROVE  ~Hammock(CfgUnaryOp(id, operand))
<1>1. PICK v : v = Vertex(id, "")
  OBVIOUS
<1>2. PICK graph, i : graph = AddVertices(g, {v}) /\ i = CfgUnaryOp(id, operand)
  OBVIOUS
<1>3. SUFFICES ASSUME Hammock(i) PROVE FALSE
  BY <1>2
<1>4. PICK b, n, r : operand = [graph |-> g, breaks |-> b, nexts |-> n, returns |-> r, entry |-> x, exit |-> y]
  BY DEF Information
<1>5. i = [graph |-> graph, breaks |-> b, nexts |-> n, returns |-> r, entry |-> x, exit |-> {v}]
  <2>1. operand.graph = g
    BY DEF Information
  <2>2. i = [operand EXCEPT !.graph = graph, !.exit = {v}]
    BY <1>1, <1>2, <2>1 DEF CfgUnaryOp
  <2> QED BY ONLY <1>4, <2>2
<1>6. operand.graph = g /\ operand.entry = x
  BY DEF Information
<1>7. Built(graph, g.vertices \cup {v}, g.roots \cup {v}, Arrows(g.edges))
  BY <1>2, <1>6, BuiltPart, BuiltVertices DEF IsInformation
<1> DEFINE S == g.vertices
<1>8. i.graph = graph /\ i.entry = x
  BY <1>5
<1>9. x \subseteq S /\ S \in SUBSET (g.vertices \cup {v}) /\ v \notin S
  BY <1>1, <1>6 DEF IsInformation
<1>10. Forth(Arrows(g.edges), S)
  BY <1>6, GraphFields DEF Forth, IsInformation
<1>11. g.roots \cup {v} \subseteq S
  <2> HIDE DEF S
  <2> QED BY <1>3, <1>7, <1>8, <1>9, <1>10 DEF Hammock, AllAfterEntry, Built
<1> QED BY <1>9, <1>11

\* cfgRepeat (cfg.ts): the exit of a loop without break comes after nothing, and the first round
\* is entered the wrong way around.
THEOREM RepeatIsNoHammock ==
    ASSUME NEW id, NEW body, IsInformation(body), body.breaks = {},
           Vertex(id, "exit") \notin body.graph.vertices
    PROVE  ~Hammock(CfgRepeat(id, body))
<1>1. PICK repeat, exit : repeat = {Vertex(id, "")} /\ exit = {Vertex(id, "exit")}
  OBVIOUS
<1>2. PICK i, parts, edges, jumps, graph :
        /\ i = CfgRepeat(id, body)
        /\ parts = AddVertices(body.graph, repeat \cup exit) /\ jumps = OnlyReturns(body)
        /\ edges = FD(repeat, body.entry) \cup FD(repeat, body.nexts \cup body.exit) \cup FD(exit, body.breaks)
        /\ graph = AddEdges(parts, edges)
  OBVIOUS
<1>3. i = Information(graph, jumps, repeat, exit)
  BY <1>1, <1>2 DEF CfgRepeat
<1>4. i.graph = graph /\ i.entry = repeat
  BY <1>3 DEF Information
<1> DEFINE W == body.graph.vertices
           V == W \cup (repeat \cup exit)
           R == body.graph.roots \cup (repeat \cup exit)
           A == Arrows(body.graph.edges)
           B == repeat \X body.entry \cup repeat \X (body.nexts \cup body.exit) \cup exit \X {}
           S == W \cup repeat
<1>5. Built(parts, V, R, A)
  BY <1>2, BuiltPart, BuiltVertices DEF IsInformation
<1>6. Fits(edges, V, B)
  <2>1. /\ repeat \in SUBSET V /\ exit \in SUBSET V /\ body.entry \in SUBSET V
        /\ body.nexts \cup body.exit \in SUBSET V /\ {} \in SUBSET V
    BY DEF IsInformation
  <2> HIDE DEF V
  <2>2. /\ Fits(FD(repeat, body.entry), V, repeat \X body.entry)
        /\ Fits(FD(repeat, body.nexts \cup body.exit), V, repeat \X (body.nexts \cup body.exit))
        /\ Fits(FD(exit, body.breaks), V, exit \X {})
    BY <2>1, FlowFits
  <2> QED BY <1>2, <2>2, BothFit
<1> HIDE DEF B
<1>7. Built(graph, V, R, A \cup B)
  <2> HIDE DEF V, R, A
  <2> QED BY <1>2, <1>5, <1>6, BuiltEdges DEF Fits
<1>8. repeat \subseteq S /\ S \in SUBSET V /\ exit \subseteq R
  OBVIOUS
<1>9. Forth(A \cup B, S)
  <2>1. \A a \in A : a[1] \in W
    BY GraphFields DEF IsInformation
  <2>2. \A a \in B : a[1] \in repeat
    BY DEF B
  <2> HIDE DEF A
  <2> QED BY <2>1, <2>2 DEF Forth
<1>10. ~(exit \subseteq S)
  <2>1. Vertex(id, "exit") # Vertex(id, "")
    BY DEF Vertex
  <2> QED BY <1>1, <2>1
<1> HIDE DEF V, R, A, S
<1>11. ASSUME Hammock(i) PROVE R \subseteq S
  <2>1. i.graph.vertices = V /\ i.graph.roots = R /\ Arrows(i.graph.edges) = A \cup B
    BY <1>4, <1>7 DEF Built
  <2>2. AllAfterEntry(i)
    BY <1>11 DEF Hammock
  <2> QED BY <1>4, <1>8, <1>9, <2>1, <2>2 DEF AllAfterEntry
<1> QED BY <1>2, <1>8, <1>10, <1>11

-----------------------------------------------------------------------------
(* Order                                                                   *)

\* Any vertices have a first one: it comes after none of the others, and is where the flow enters
\* or comes after something. So there are no cycles and there is nothing the flow cannot come to.
Lined(V, A, E) ==
    /\ A \subseteq V \X V /\ E \subseteq V
    /\ \A S \in SUBSET V :
         S # {} => \E v \in S : (\A w \in S : <<v, w>> \notin A) /\ (v \in E \/ \E w \in V : <<v, w>> \in A)

Ordered(i) == Lined(i.graph.vertices, Arrows(i.graph.edges), i.entry)

LEMMA LinedUp ==
    ASSUME NEW V, NEW A, NEW E, Lined(V, A, E), NEW W, NEW B, NEW F, Lined(W, B, F), V \cap W = {},
           NEW X \in SUBSET (W \X V), \A v \in F : \E w \in V : <<v, w>> \in X
    PROVE  Lined(V \cup W, A \cup B \cup X, E)
<1>1. A \subseteq V \X V /\ B \subseteq W \X W /\ E \subseteq V
  BY DEF Lined
<1>2. ASSUME NEW S \in SUBSET (V \cup W), S # {}
      PROVE  \E v \in S : /\ \A w \in S : <<v, w>> \notin A \cup B \cup X
                          /\ v \in E \/ \E w \in V \cup W : <<v, w>> \in A \cup B \cup X
  <2>1. CASE S \cap V # {}
    <3>1. PICK T : T = S \cap V
      OBVIOUS
    <3>2. T \in SUBSET V /\ T # {}
      BY <2>1, <3>1
    <3>3. PICK v \in T : (\A w \in T : <<v, w>> \notin A) /\ (v \in E \/ \E w \in V : <<v, w>> \in A)
      BY <3>2 DEF Lined
    <3>4. v \in S /\ v \in V /\ v \notin W
      BY <3>1
    <3>5. \A w \in S : <<v, w>> \notin A \cup B \cup X
      BY <1>1, <3>1, <3>3, <3>4
    <3> QED BY <3>3, <3>4, <3>5
  <2>2. CASE S \cap V = {}
    <3>1. S \in SUBSET W
      BY <2>2
    <3>2. PICK v \in S : (\A w \in S : <<v, w>> \notin B) /\ (v \in F \/ \E w \in W : <<v, w>> \in B)
      BY <1>2, <3>1 DEF Lined
    <3>3. v \in W /\ v \notin V
      BY <2>2, <3>1
    <3>4. \A w \in S : <<v, w>> \notin A \cup B \cup X
      BY <1>1, <2>2, <3>2, <3>3
    <3>5. \E w \in V \cup W : <<v, w>> \in A \cup B \cup X
      BY <3>2
    <3> QED BY <3>4, <3>5
  <2> QED BY <2>1, <2>2
<1> QED BY <1>1, <1>2 DEF Lined

LEMMA VertexIsLined ==
    ASSUME NEW x
    PROVE  Lined({x}, {}, {x})
<1>1. ASSUME NEW S \in SUBSET {x}, S # {} PROVE x \in S
  BY <1>1
<1> QED BY <1>1 DEF Lined

\* A part after some of what there is.
LEMMA PartIsLinedUp ==
    ASSUME NEW V, NEW A, NEW E, Lined(V, A, E), NEW part, Ordered(part), V \cap part.graph.vertices = {},
           NEW to \in SUBSET V, part.entry = {} \/ to # {}
    PROVE  Lined(V \cup part.graph.vertices, A \cup Arrows(part.graph.edges) \cup part.entry \X to, E)
<1>1. PICK W, B, F : W = part.graph.vertices /\ B = Arrows(part.graph.edges) /\ F = part.entry
  OBVIOUS
<1>2. Lined(W, B, F)
  BY <1>1 DEF Ordered
<1>3. F \subseteq W
  BY <1>2 DEF Lined
<1>4. PICK X : X = F \X to
  OBVIOUS
<1>5. X \in SUBSET (W \X V) /\ \A v \in F : \E w \in V : <<v, w>> \in X
  BY <1>1, <1>3, <1>4
<1>6. Lined(V \cup W, A \cup B \cup X, E)
  BY <1>1, <1>2, <1>5, LinedUp
<1> QED BY <1>1, <1>4, <1>6

\* A vertex after some of what there is.
LEMMA VertexIsLinedUp ==
    ASSUME NEW V, NEW A, NEW E, Lined(V, A, E), NEW x, x \notin V, NEW to \in SUBSET V, to # {}
    PROVE  Lined(V \cup {x}, A \cup {x} \X to, E)
<1>1. Lined({x}, {}, {x})
  BY VertexIsLined
<1>2. PICK W, B, X : W = {x} /\ B = {} /\ X = {x} \X to
  OBVIOUS
<1>3. X \in SUBSET (W \X V) /\ (\A v \in W : \E w \in V : <<v, w>> \in X) /\ V \cap W = {}
  BY <1>2
<1>4. Lined(W, B, W)
  BY <1>1, <1>2
<1>5. Lined(V \cup W, A \cup B \cup X, E)
  BY <1>3, <1>4, LinedUp
<1>6. A \cup B \cup X = A \cup X
  BY <1>2
<1> QED BY <1>2, <1>5, <1>6

LEMMA OrderedWhenMade ==
    ASSUME NEW i, NEW V, NEW R, NEW A, NEW first, NEW last, Made(i, V, R, A, first, last), Lined(V, A, first)
    PROVE  Ordered(i)
BY DEF Ordered, Made, Built

LEMMA OrderedNothing == Ordered(Undefined)
<1>1. Undefined.graph.vertices = {} /\ Arrows(Undefined.graph.edges) = {} /\ Undefined.entry = {}
  BY EmptyGraphIsOne DEF Undefined, EmptyControlFlowInformation
<1>2. Lined({}, {}, {})
  BY DEF Lined
<1> QED BY <1>1, <1>2 DEF Ordered

\* cfgBinaryOp (cfg.ts): the right side comes after the left one.
THEOREM BinaryOpIsOrdered ==
    ASSUME NEW id, NEW lhs, NEW rhs, Hammock(lhs), Hammock(rhs), Ordered(lhs), Ordered(rhs),
           lhs.graph.vertices \cap rhs.graph.vertices = {},
           NEW own, own = {Vertex(id, ""), Vertex(id, "exit")},
           own \cap lhs.graph.vertices = {}, own \cap rhs.graph.vertices = {}
    PROVE  Ordered(CfgBinaryOp(id, lhs, rhs))
<1>1. PICK first, last, e : first = {Vertex(id, "")} /\ last = {e} /\ e = Vertex(id, "exit")
  OBVIOUS
<1>2. e \notin first /\ first # {} /\ first \subseteq own /\ e \in own
  BY <1>1 DEF Vertex
<1>3. /\ lhs.entry \subseteq lhs.graph.vertices /\ lhs.exit \subseteq lhs.graph.vertices /\ lhs.exit # {}
      /\ rhs.entry \subseteq rhs.graph.vertices /\ rhs.exit \subseteq rhs.graph.vertices /\ rhs.exit # {}
  BY HammockFields, PartFields
<1>4. PICK V1, A1 : /\ V1 = first \cup lhs.graph.vertices
                    /\ A1 = {} \cup Arrows(lhs.graph.edges) \cup lhs.entry \X first
  OBVIOUS
<1>5. PICK V2, A2 : /\ V2 = V1 \cup rhs.graph.vertices
                    /\ A2 = A1 \cup Arrows(rhs.graph.edges) \cup rhs.entry \X lhs.exit
  OBVIOUS
<1>6. Lined(first, {}, first)
  BY <1>1, VertexIsLined
<1>7. Lined(V1, A1, first)
  BY <1>2, <1>4, <1>6, PartIsLinedUp
<1>8. Lined(V2, A2, first)
  <2>1. V1 \cap rhs.graph.vertices = {} /\ lhs.exit \in SUBSET V1
    BY <1>2, <1>3, <1>4
  <2> QED BY <1>3, <1>5, <1>7, <2>1, PartIsLinedUp
<1>9. Lined(V2 \cup {e}, A2 \cup {e} \X rhs.exit, first)
  <2>1. e \notin V2 /\ rhs.exit \in SUBSET V2
    BY <1>2, <1>3, <1>4, <1>5
  <2> QED BY <1>3, <1>8, <2>1, VertexIsLinedUp
<1>10. PICK V, A : /\ V = lhs.graph.vertices \cup rhs.graph.vertices \cup (first \cup last)
                   /\ A = Arrows(lhs.graph.edges) \cup Arrows(rhs.graph.edges)
                          \cup (rhs.entry \X lhs.exit \cup lhs.entry \X first \cup last \X rhs.exit)
  OBVIOUS
<1>11. PICK R : Made(CfgBinaryOp(id, lhs, rhs), V, R, A, first, last)
  BY <1>1, <1>10, BinaryOpMade, HammockFields, PartFields
<1>12. V2 \cup {e} = V
  BY ONLY <1>1, <1>4, <1>5, <1>10
<1>13. A2 \cup {e} \X rhs.exit = A
  BY ONLY <1>1, <1>4, <1>5, <1>10
<1> QED BY <1>9, <1>11, <1>12, <1>13, OrderedWhenMade

\* cfgIfThenElse (cfg.ts): both branches come after the condition, and the exit after them.
THEOREM IfThenElseIsOrdered ==
    ASSUME NEW id, NEW cond, NEW then, NEW other, NEW hasElse,
           Hammock(cond), HammockOrNothing(then), HammockOrNothing(other),
           hasElse => Hammock(then) \/ Hammock(other), Ordered(cond), Ordered(then), Ordered(other),
           cond.graph.vertices \cap then.graph.vertices = {}, cond.graph.vertices \cap other.graph.vertices = {},
           then.graph.vertices \cap other.graph.vertices = {},
           NEW own, own = {Vertex(id, ""), Vertex(id, "exit")}, own \cap cond.graph.vertices = {},
           own \cap then.graph.vertices = {}, own \cap other.graph.vertices = {}
    PROVE  Ordered(CfgIfThenElse(id, cond, then, other, hasElse))
<1>1. PICK first, last, e : first = {Vertex(id, "")} /\ last = {e} /\ e = Vertex(id, "exit")
  OBVIOUS
<1>2. e \notin first /\ first # {} /\ first \subseteq own /\ e \in own
  BY <1>1 DEF Vertex
<1>3. /\ cond.exit \subseteq cond.graph.vertices /\ cond.exit # {}
      /\ then.exit \subseteq then.graph.vertices /\ other.exit \subseteq other.graph.vertices
      /\ hasElse => then.exit # {} \/ other.exit # {}
  BY HammockFields, PartFields
<1>4. PICK V1, A1 : /\ V1 = first \cup cond.graph.vertices
                    /\ A1 = {} \cup Arrows(cond.graph.edges) \cup cond.entry \X first
  OBVIOUS
<1>5. PICK V2, A2 : /\ V2 = V1 \cup then.graph.vertices
                    /\ A2 = A1 \cup Arrows(then.graph.edges) \cup then.entry \X cond.exit
  OBVIOUS
<1>6. PICK V3, A3 : /\ V3 = V2 \cup other.graph.vertices
                    /\ A3 = A2 \cup Arrows(other.graph.edges) \cup other.entry \X cond.exit
  OBVIOUS
<1>7. PICK to : to = then.exit \cup other.exit \cup (IF hasElse THEN {} ELSE cond.exit)
  OBVIOUS
<1>8. Lined(first, {}, first)
  BY <1>1, VertexIsLined
<1>9. Lined(V1, A1, first)
  BY <1>2, <1>4, <1>8, PartIsLinedUp
<1>10. Lined(V2, A2, first)
  <2>1. V1 \cap then.graph.vertices = {} /\ cond.exit \in SUBSET V1
    BY <1>2, <1>3, <1>4
  <2> QED BY <1>3, <1>5, <1>9, <2>1, PartIsLinedUp
<1>11. Lined(V3, A3, first)
  <2>1. V2 \cap other.graph.vertices = {} /\ cond.exit \in SUBSET V2
    BY <1>2, <1>3, <1>4, <1>5
  <2> QED BY <1>3, <1>6, <1>10, <2>1, PartIsLinedUp
<1>12. Lined(V3 \cup {e}, A3 \cup {e} \X to, first)
  <2>1. e \notin V3 /\ to \in SUBSET V3 /\ to # {}
    BY <1>2, <1>3, <1>4, <1>5, <1>6, <1>7
  <2> QED BY <1>11, <2>1, VertexIsLinedUp
<1>13. PICK V, A : /\ V = first \cup last \cup cond.graph.vertices \cup then.graph.vertices \cup other.graph.vertices
                   /\ A = Arrows(cond.graph.edges) \cup Arrows(then.graph.edges) \cup Arrows(other.graph.edges)
                          \cup (then.entry \X cond.exit \cup other.entry \X cond.exit \cup cond.entry \X first
                                \cup last \X (then.exit \cup other.exit)
                                \cup (IF hasElse THEN {} ELSE last \X cond.exit))
  OBVIOUS
<1>14. PICK R : Made(CfgIfThenElse(id, cond, then, other, hasElse), V, R, A, first, last)
  BY <1>1, <1>13, IfThenElseMade, HammockFields, PartFields
<1>15. V3 \cup {e} = V
  BY ONLY <1>1, <1>4, <1>5, <1>6, <1>13
<1>16. A3 \cup {e} \X to = A
  <2>1. {e} \X to = last \X (then.exit \cup other.exit) \cup (IF hasElse THEN {} ELSE last \X cond.exit)
    BY ONLY <1>1, <1>7
  <2> QED BY ONLY <1>4, <1>5, <1>6, <1>13, <2>1
<1> QED BY <1>12, <1>14, <1>15, <1>16, OrderedWhenMade

\* cfgArgumentOrParameter (cfg.ts): the value comes after the name.
THEOREM ArgumentIsOrdered ==
    ASSUME NEW id, NEW name, NEW value, NEW hasValue, HammockOrNothing(name),
           IF hasValue THEN Hammock(value) ELSE value = Undefined, Ordered(name), Ordered(value),
           name.graph.vertices \cap value.graph.vertices = {},
           NEW own, own = {Vertex(id, ""), Vertex(id, "before-value"), Vertex(id, "exit")},
           own \cap name.graph.vertices = {}, own \cap value.graph.vertices = {}
    PROVE  Ordered(CfgArgumentOrParameter(id, name, value, hasValue))
<1>1. PICK first, before, last, b, e, named, valued :
        /\ first = {Vertex(id, "")} /\ before = {b} /\ b = Vertex(id, "before-value")
        /\ last = {e} /\ e = Vertex(id, "exit")
        /\ named = IF name = Undefined THEN first ELSE name.exit
        /\ valued = IF hasValue THEN value.exit ELSE before
  OBVIOUS
<1>2. /\ e \notin first /\ b \notin first /\ e # b /\ first # {} /\ before # {}
      /\ first \subseteq own /\ before \subseteq own /\ e \in own /\ b \in own
  BY <1>1 DEF Vertex
<1>3. HammockOrNothing(value)
  BY DEF HammockOrNothing
<1>4. /\ name.exit \subseteq name.graph.vertices /\ value.exit \subseteq value.graph.vertices
      /\ name # Undefined => name.exit # {}
      /\ hasValue => value.exit # {}
  BY <1>3, HammockFields, PartFields DEF HammockOrNothing
<1>5. PICK V1, A1 : /\ V1 = first \cup name.graph.vertices
                    /\ A1 = {} \cup Arrows(name.graph.edges) \cup name.entry \X first
  OBVIOUS
<1>6. PICK V2, A2 : V2 = V1 \cup {b} /\ A2 = A1 \cup {b} \X named
  OBVIOUS
<1>7. PICK V3, A3 : /\ V3 = V2 \cup value.graph.vertices
                    /\ A3 = A2 \cup Arrows(value.graph.edges) \cup value.entry \X before
  OBVIOUS
<1>8. Lined(first, {}, first)
  BY <1>1, VertexIsLined
<1>9. Lined(V1, A1, first)
  BY <1>2, <1>5, <1>8, PartIsLinedUp
<1>10. Lined(V2, A2, first)
  <2>1. b \notin V1 /\ named \in SUBSET V1 /\ named # {}
    BY <1>1, <1>2, <1>4, <1>5
  <2> QED BY <1>6, <1>9, <2>1, VertexIsLinedUp
<1>11. Lined(V3, A3, first)
  <2>1. V2 \cap value.graph.vertices = {} /\ before \in SUBSET V2
    BY <1>1, <1>2, <1>5, <1>6
  <2> QED BY <1>2, <1>7, <1>10, <2>1, PartIsLinedUp
<1>12. Lined(V3 \cup {e}, A3 \cup {e} \X valued, first)
  <2>1. e \notin V3 /\ valued \in SUBSET V3 /\ valued # {}
    BY <1>1, <1>2, <1>4, <1>5, <1>6, <1>7
  <2> QED BY <1>11, <2>1, VertexIsLinedUp
<1>13. PICK V, A : /\ V = first \cup before \cup last \cup name.graph.vertices \cup value.graph.vertices
                   /\ A = Arrows(name.graph.edges) \cup Arrows(value.graph.edges)
                          \cup (name.entry \X first \cup before \X named \cup value.entry \X before \cup last \X valued)
  OBVIOUS
<1>14. PICK R : Made(CfgArgumentOrParameter(id, name, value, hasValue), V, R, A, first, last)
  <2>1. /\ IsInformation(name) /\ IsInformation(value)
        /\ before = {Vertex(id, "before-value")} /\ last = {Vertex(id, "exit")}
    BY <1>1, <1>3, PartFields
  <2>2. Made(CfgArgumentOrParameter(id, name, value, hasValue), V, first \cup before \cup last \cup name.graph.roots
               \cup value.graph.roots, A, first, last)
    BY <1>1, <1>13, <2>1, ArgumentMade
  <2> QED BY <2>2
<1>15. V3 \cup {e} = V
  BY ONLY <1>1, <1>5, <1>6, <1>7, <1>13
<1>16. A3 \cup {e} \X valued = A
  BY ONLY <1>1, <1>5, <1>6, <1>7, <1>13
<1> QED BY <1>12, <1>14, <1>15, <1>16, OrderedWhenMade

LEMMA LeafIsOrdered ==
    ASSUME NEW id
    PROVE  Ordered(CfgLeaf(id))
<1>1. PICK v : v = {Vertex(id, "")}
  OBVIOUS
<1>2. Made(CfgLeaf(id), v, v, {}, v, v)
  BY <1>1, LeafMade
<1>3. Lined(v, {}, v)
  BY <1>1, VertexIsLined
<1> QED BY <1>2, <1>3, OrderedWhenMade

LEMMA NextIsOrdered ==
    ASSUME NEW all, Hammock(all), Ordered(all), NEW e, Hammock(e), Ordered(e),
           all.graph.vertices \cap e.graph.vertices = {}
    PROVE  /\ Ordered(NextExpression(all, e))
           /\ NextExpression(all, e).graph.vertices = all.graph.vertices \cup e.graph.vertices
<1>1. PICK V, W, A, B : /\ V = all.graph.vertices /\ A = Arrows(all.graph.edges)
                        /\ W = V \cup e.graph.vertices
                        /\ B = A \cup e.entry \X all.exit \cup Arrows(e.graph.edges)
  OBVIOUS
<1>2. PICK R : Made(NextExpression(all, e), W, R, B, all.entry, e.exit)
  BY <1>1, NextExpressionMade DEF Hammock, IsInformation, Begun
<1>3. Lined(V, A, all.entry)
  BY <1>1 DEF Ordered
<1>4. all.exit \in SUBSET V /\ all.exit # {}
  BY <1>1, HammockFields, PartFields
<1>5. Lined(W, A \cup Arrows(e.graph.edges) \cup e.entry \X all.exit, all.entry)
  BY <1>1, <1>3, <1>4, PartIsLinedUp
<1>6. A \cup Arrows(e.graph.edges) \cup e.entry \X all.exit = B
  BY <1>1
<1>7. Ordered(NextExpression(all, e))
  BY <1>2, <1>5, <1>6, OrderedWhenMade
<1>8. NextExpression(all, e).graph.vertices = W
  BY <1>2 DEF Made, Built
<1> QED BY <1>1, <1>7, <1>8

LEMMA FirstIsOrdered ==
    ASSUME NEW e, Hammock(e), Ordered(e)
    PROVE  /\ Ordered(NextExpression(FirstOf(e.entry), e))
           /\ NextExpression(FirstOf(e.entry), e).graph.vertices = e.graph.vertices
<1>1. PICK all, V, A : all = FirstOf(e.entry) /\ V = e.graph.vertices /\ A = Arrows(e.graph.edges)
  OBVIOUS
<1>2. /\ all.graph = EmptyGraph /\ all.entry = e.entry /\ all.exit = {}
      /\ all.breaks = {} /\ all.nexts = {} /\ all.returns = {}
  BY <1>1 DEF FirstOf, EmptyControlFlowInformation
<1>3. Begun(all) /\ all.graph.vertices = {} /\ Arrows(all.graph.edges) = {}
  BY <1>2, EmptyGraphIsOne DEF Begun
<1>4. PICK R : Made(NextExpression(all, e), all.graph.vertices \cup V, R, {} \cup e.entry \X {} \cup A, e.entry, e.exit)
  BY <1>1, <1>2, <1>3, NextExpressionMade DEF Hammock, IsInformation
<1>5. all.graph.vertices \cup V = V /\ {} \cup e.entry \X {} \cup A = A
  BY <1>3
<1>6. Made(NextExpression(all, e), V, R, A, e.entry, e.exit)
  BY <1>4, <1>5
<1>7. Lined(V, A, e.entry)
  BY <1>1 DEF Ordered
<1>8. Ordered(NextExpression(all, e))
  BY <1>6, <1>7, OrderedWhenMade
<1>9. NextExpression(all, e).graph.vertices = V
  BY <1>6 DEF Made, Built
<1> QED BY <1>1, <1>8, <1>9

LEMMA ListIsOrdered ==
    ASSUME NEW s, NEW m \in Nat, m # 0, Len(s) = m, s # <<>>,
           \A k \in 1..m : Hammock(s[k]) /\ Ordered(s[k]),
           \A j, k \in 1..m : j # k => s[j].graph.vertices \cap s[k].graph.vertices = {}
    PROVE  Ordered(CfgExprList(s))
<1>1. PICK h : UpTo(s, h, m) /\ CfgExprList(s) = h[m]
  BY ListIsUpToItsEnd
<1> DEFINE Good(n) == /\ Hammock(h[n]) /\ Ordered(h[n])
                     /\ \A k \in 1..m : n < k => h[n].graph.vertices \cap s[k].graph.vertices = {}
           S == {n \in Nat : n \in 1..m => Good(n)}
<1>2. 0 \in S
  OBVIOUS
<1>3. ASSUME NEW n \in Nat, n \in S PROVE n + 1 \in S
  <2>1. SUFFICES ASSUME n + 1 \in 1..m PROVE Good(n + 1)
    BY DEF S
  <2>2. PICK all, e, new : all = h[n] /\ e = s[n + 1] /\ new = h[n + 1]
    OBVIOUS
  <2>3. new = NextExpression(all, e)
    BY <1>1, <2>1, <2>2 DEF UpTo
  <2>4. Hammock(e) /\ Ordered(e)
    BY <2>1, <2>2
  <2>5. \A k \in 1..m : n + 1 < k => e.graph.vertices \cap s[k].graph.vertices = {}
    BY <2>1, <2>2
  <2>6. CASE n = 0
    <3>1. 1 \in 1..m /\ e = s[1]
      BY <2>1, <2>2, <2>6
    <3>2. all = FirstOf(e.entry)
      BY <1>1, <2>2, <2>6, <3>1 DEF UpTo
    <3>3. Hammock(new) /\ Ordered(new) /\ new.graph.vertices = e.graph.vertices
      BY ONLY <2>3, <2>4, <3>2, FirstIsAHammock, FirstIsOrdered
    <3> QED BY <2>2, <2>5, <3>3
  <2>7. CASE n # 0
    <3>1. Good(n) /\ n < n + 1
      BY <1>3, <2>1, <2>7
    <3>2. Hammock(all) /\ Ordered(all) /\ all.graph.vertices \cap e.graph.vertices = {}
      BY <2>1, <2>2, <3>1
    <3>3. Hammock(new) /\ Ordered(new) /\ new.graph.vertices = all.graph.vertices \cup e.graph.vertices
      BY ONLY <2>3, <2>4, <3>2, NextIsAHammock, NextIsOrdered
    <3>4. \A k \in 1..m : n + 1 < k => all.graph.vertices \cap s[k].graph.vertices = {}
      BY <2>2, <3>1
    <3>5. \A k \in 1..m : n + 1 < k => new.graph.vertices \cap s[k].graph.vertices = {}
      BY <2>5, <3>3, <3>4
    <3> QED BY <2>2, <3>3, <3>5
  <2> QED BY <2>6, <2>7
<1>4. m \in S
  <2> HIDE DEF S
  <2> QED BY <1>2, <1>3, AllNumbers
<1> QED BY <1>1, <1>4

\* cfgExprList (cfg.ts): each expression of a list comes after the one before.
THEOREM ExprListIsOrdered ==
    ASSUME NEW T, NEW s \in Seq(T), s # <<>>, \A k \in 1..Len(s) : Hammock(s[k]) /\ Ordered(s[k]),
           \A j, k \in 1..Len(s) : j # k => s[j].graph.vertices \cap s[k].graph.vertices = {}
    PROVE  Ordered(CfgExprList(s))
<1>1. PICK m \in Nat : Len(s) = m /\ m # 0
  OBVIOUS
<1> QED BY <1>1, ListIsOrdered

\* A call up to some argument, without its exit, which is not wired yet.
LinedCall(at, call, exit) ==
    /\ Lined(at.graph.vertices \ exit, Arrows(at.graph.edges), call)
    /\ at.last \subseteq at.graph.vertices \ exit

LEMMA NameIsLined ==
    ASSUME NEW id, NEW name, Hammock(name), Ordered(name),
           NEW own, own = {Vertex(id, ""), Vertex(id, "name"), Vertex(id, "exit")},
           own \cap name.graph.vertices = {}
    PROVE  /\ LinedCall(PassName(id, name), {Vertex(id, "")}, {Vertex(id, "exit")})
           /\ PassName(id, name).graph.vertices = name.graph.vertices \cup own
<1>1. PICK call, after, exit, a, e, at :
        /\ call = {Vertex(id, "")} /\ after = {a} /\ a = Vertex(id, "name")
        /\ exit = {e} /\ e = Vertex(id, "exit") /\ at = PassName(id, name)
  OBVIOUS
<1>2. /\ e \notin call /\ a \notin call /\ e # a /\ call # {} /\ call \subseteq own /\ a \in own /\ e \in own
      /\ own = call \cup after \cup exit
  BY <1>1 DEF Vertex
<1>3. name.exit \subseteq name.graph.vertices /\ name.exit # {}
  BY HammockFields, PartFields
<1>4. /\ Built(at.graph, name.graph.vertices \cup (call \cup after \cup exit),
               name.graph.roots \cup (call \cup after \cup exit),
               Arrows(name.graph.edges) \cup (name.entry \X call \cup after \X name.exit))
      /\ at.last = after
  <2>1. after = {Vertex(id, "name")} /\ exit = {Vertex(id, "exit")}
    BY <1>1
  <2> QED BY <1>1, <2>1, PassNameMade
<1>5. PICK V1, A1 : /\ V1 = call \cup name.graph.vertices
                    /\ A1 = {} \cup Arrows(name.graph.edges) \cup name.entry \X call
  OBVIOUS
<1>6. Lined(call, {}, call)
  BY <1>1, VertexIsLined
<1>7. Lined(V1, A1, call)
  BY <1>2, <1>5, <1>6, PartIsLinedUp
<1>8. Lined(V1 \cup {a}, A1 \cup {a} \X name.exit, call)
  <2>1. a \notin V1 /\ name.exit \in SUBSET V1
    BY <1>2, <1>3, <1>5
  <2> QED BY <1>3, <1>7, <2>1, VertexIsLinedUp
<1>9. at.graph.vertices = name.graph.vertices \cup own
  BY <1>2, <1>4 DEF Built
<1>10. V1 \cup {a} = at.graph.vertices \ exit
  <2>1. own \cap name.graph.vertices = {} /\ after = {a} /\ exit = {e} /\ e \notin call /\ e # a
        /\ own = call \cup after \cup exit
    BY <1>1, <1>2
  <2> QED BY ONLY <1>5, <1>9, <2>1
<1>11. A1 \cup {a} \X name.exit = Arrows(at.graph.edges)
  BY <1>1, <1>4, <1>5 DEF Built
<1>12. at.last \subseteq at.graph.vertices \ exit
  BY <1>1, <1>4, <1>10
<1> QED BY <1>1, <1>8, <1>9, <1>10, <1>11, <1>12 DEF LinedCall

LEMMA ArgumentIsLined ==
    ASSUME NEW at, NEW call, NEW exit, Passed(at, call, exit), LinedCall(at, call, exit),
           exit \subseteq at.graph.vertices,
           NEW arg, HammockOrNothing(arg), Ordered(arg), at.graph.vertices \cap arg.graph.vertices = {}
    PROVE  /\ LinedCall(PassArgument(at, arg), call, exit)
           /\ PassArgument(at, arg).graph.vertices = at.graph.vertices \cup arg.graph.vertices
<1>1. CASE arg = Undefined
  BY <1>1, NothingIsAnInformation DEF PassArgument
<1>2. CASE arg # Undefined
  <2>1. Hammock(arg)
    BY <1>2 DEF HammockOrNothing
  <2>2. IsGraph(at.graph) /\ at.last \subseteq at.graph.vertices /\ at.last # {}
    BY GraphFields DEF Passed
  <2>3. PICK new, V, A, W, B :
          /\ new = PassArgument(at, arg) /\ V = at.graph.vertices \ exit /\ A = Arrows(at.graph.edges)
          /\ W = V \cup arg.graph.vertices
          /\ B = A \cup Arrows(arg.graph.edges) \cup arg.entry \X at.last
    OBVIOUS
  <2>4. /\ Built(new.graph, at.graph.vertices \cup arg.graph.vertices, at.graph.roots \cup arg.graph.roots, B)
        /\ new.last = arg.exit
    BY <1>2, <2>1, <2>2, <2>3, PassArgumentMade
  <2>5. Lined(V, A, call) /\ at.last \in SUBSET V /\ V \cap arg.graph.vertices = {}
    BY <2>3 DEF LinedCall
  <2>6. Lined(W, B, call)
    BY <2>2, <2>3, <2>5, PartIsLinedUp
  <2>7. new.graph.vertices = at.graph.vertices \cup arg.graph.vertices /\ Arrows(new.graph.edges) = B
    BY <2>4 DEF Built
  <2>8. new.graph.vertices \ exit = W
    BY <2>3, <2>7
  <2>9. arg.exit \subseteq W
    BY <2>1, <2>3, HammockFields, PartFields
  <2> QED BY <2>3, <2>4, <2>6, <2>7, <2>8, <2>9 DEF LinedCall
<1> QED BY <1>1, <1>2

LEMMA CallIsLined ==
    ASSUME NEW id, NEW name, NEW args, NEW m \in Nat, NEW h, CalledUpTo(id, name, args, h, m),
           NEW call, call # {}, NEW exit,
           Passed(PassName(id, name), call, exit), LinedCall(PassName(id, name), call, exit),
           \A k \in 1..m : PassName(id, name).graph.vertices \cap args[k].graph.vertices = {},
           \A k \in 1..m : HammockOrNothing(args[k]) /\ Ordered(args[k]),
           \A j, k \in 1..m : j # k => args[j].graph.vertices \cap args[k].graph.vertices = {}
    PROVE  LinedCall(h[m], call, exit)
<1> DEFINE Good(n) == /\ Passed(h[n], call, exit) /\ LinedCall(h[n], call, exit)
                     /\ \A k \in 1..m : n < k => h[n].graph.vertices \cap args[k].graph.vertices = {}
           S == {n \in Nat : n \in 0..m => Good(n)}
<1>4. 0 \in S
  <2>1. h[0] = PassName(id, name)
    BY DEF CalledUpTo
  <2> QED BY <2>1
<1>5. ASSUME NEW n \in Nat, n \in S PROVE n + 1 \in S
  <2>1. SUFFICES ASSUME n + 1 \in 0..m PROVE Good(n + 1)
    BY DEF S
  <2>2. n \in 0..m /\ n + 1 \in 1..m /\ n < n + 1
    BY <2>1
  <2>3. PICK at, arg, new : at = h[n] /\ arg = args[n + 1] /\ new = h[n + 1]
    OBVIOUS
  <2>4. new = PassArgument(at, arg)
    BY <2>1, <2>3 DEF CalledUpTo
  <2>5. Good(n)
    BY <1>5, <2>2
  <2>6. /\ Passed(at, call, exit) /\ LinedCall(at, call, exit) /\ at.graph.vertices \cap arg.graph.vertices = {}
        /\ HammockOrNothing(arg) /\ Ordered(arg)
    BY <2>2, <2>3, <2>5
  <2>7. call # {} /\ exit \subseteq at.graph.vertices
    BY <2>6, GraphFields DEF Passed
  <2>8. Passed(new, call, exit)
    BY ONLY <2>4, <2>6, <2>7, ArgumentIsPassed
  <2>9. LinedCall(new, call, exit) /\ new.graph.vertices = at.graph.vertices \cup arg.graph.vertices
    BY ONLY <2>4, <2>6, <2>7, ArgumentIsLined
  <2>10. \A k \in 1..m : n + 1 < k => at.graph.vertices \cap args[k].graph.vertices = {}
    BY <2>3, <2>5
  <2>11. \A k \in 1..m : n + 1 < k => arg.graph.vertices \cap args[k].graph.vertices = {}
    BY <2>2, <2>3
  <2>12. \A k \in 1..m : n + 1 < k => new.graph.vertices \cap args[k].graph.vertices = {}
    BY <2>9, <2>10, <2>11
  <2> QED BY <2>3, <2>8, <2>9, <2>12
<1>6. m \in S
  <2> HIDE DEF S
  <2> QED BY <1>4, <1>5, AllNumbers
<1> QED BY <1>6

\* cfgFunctionCall (cfg.ts): each argument comes after the one before, the exit after the last one.
THEOREM FunctionCallIsOrdered ==
    ASSUME NEW id, NEW name, NEW T, NEW args \in Seq(T), Hammock(name), Ordered(name),
           \A k \in 1..Len(args) : HammockOrNothing(args[k]) /\ Ordered(args[k]),
           \A j, k \in 1..Len(args) : j # k => args[j].graph.vertices \cap args[k].graph.vertices = {},
           \A k \in 1..Len(args) : name.graph.vertices \cap args[k].graph.vertices = {},
           NEW own, own = {Vertex(id, ""), Vertex(id, "name"), Vertex(id, "exit")},
           own \cap name.graph.vertices = {},
           \A k \in 1..Len(args) : own \cap args[k].graph.vertices = {}
    PROVE  Ordered(CfgFunctionCall(id, name, args))
<1>1. PICK m \in Nat : Len(args) = m
  <2>1. args \in Seq(T)
    OBVIOUS
  <2> QED BY ONLY <2>1
<1>2. PICK call, exit, e : call = {Vertex(id, "")} /\ exit = {e} /\ e = Vertex(id, "exit")
  OBVIOUS
<1>3. PICK h : /\ CalledUpTo(id, name, args, h, m)
               /\ Passed(h[m], {Vertex(id, "")}, {Vertex(id, "exit")})
               /\ Made(CfgFunctionCall(id, name, args), h[m].graph.vertices, h[m].graph.roots,
                       Arrows(h[m].graph.edges) \cup {Vertex(id, "exit")} \X h[m].last,
                       {Vertex(id, "")}, {Vertex(id, "exit")})
  BY <1>1, CallMade
<1>4. PICK first : first = PassName(id, name)
  OBVIOUS
<1>5. /\ Passed(first, {Vertex(id, "")}, {Vertex(id, "exit")}) /\ LinedCall(first, {Vertex(id, "")}, {Vertex(id, "exit")})
      /\ first.graph.vertices = name.graph.vertices \cup own
  <2>1. /\ Hammock(name) /\ Ordered(name) /\ own \cap name.graph.vertices = {}
        /\ own = {Vertex(id, ""), Vertex(id, "name"), Vertex(id, "exit")}
    OBVIOUS
  <2>2. Passed(first, {Vertex(id, "")}, {Vertex(id, "exit")})
    BY ONLY <1>4, <2>1, NameIsPassed
  <2>3. LinedCall(first, {Vertex(id, "")}, {Vertex(id, "exit")}) /\ first.graph.vertices = name.graph.vertices \cup own
    BY ONLY <1>4, <2>1, NameIsLined
  <2> QED BY <2>2, <2>3
<1>6. LinedCall(h[m], call, exit)
  <2>1. /\ \A k \in 1..m : HammockOrNothing(args[k]) /\ Ordered(args[k])
        /\ \A j, k \in 1..m : j # k => args[j].graph.vertices \cap args[k].graph.vertices = {}
        /\ \A k \in 1..m : name.graph.vertices \cap args[k].graph.vertices = {}
        /\ \A k \in 1..m : own \cap args[k].graph.vertices = {}
    BY <1>1
  <2>2. \A k \in 1..m : first.graph.vertices \cap args[k].graph.vertices = {}
    BY ONLY <1>5, <2>1
  <2>3. call # {} /\ Passed(first, call, exit) /\ LinedCall(first, call, exit)
    BY ONLY <1>2, <1>5
  <2>4. m \in Nat /\ CalledUpTo(id, name, args, h, m)
    BY <1>3
  <2> QED BY ONLY <1>4, <2>1, <2>2, <2>3, <2>4, CallIsLined
<1>7. PICK at : at = h[m]
  OBVIOUS
<1>8. Passed(at, call, exit) /\ LinedCall(at, call, exit)
  <2>1. Passed(h[m], call, exit)
    BY ONLY <1>2, <1>3
  <2> QED BY <1>6, <1>7, <2>1
<1>9. PICK V, A : V = at.graph.vertices \ exit /\ A = Arrows(at.graph.edges)
  OBVIOUS
<1>10. Lined(V, A, call) /\ at.last \in SUBSET V /\ at.last # {} /\ e \notin V
  BY <1>2, <1>8, <1>9 DEF LinedCall, Passed
<1>11. Lined(V \cup {e}, A \cup {e} \X at.last, call)
  BY <1>10, VertexIsLinedUp
<1>12. exit \subseteq at.graph.vertices
  BY <1>8, GraphFields DEF Passed
<1>13. V \cup {e} = at.graph.vertices
  BY <1>2, <1>9, <1>12
<1>14. PICK i, R, W, B : /\ i = CfgFunctionCall(id, name, args) /\ R = at.graph.roots
                         /\ W = at.graph.vertices /\ B = A \cup {e} \X at.last
  OBVIOUS
<1>15. Made(i, W, R, B, call, exit)
  <2>1. call = {Vertex(id, "")} /\ exit = {Vertex(id, "exit")} /\ {e} = {Vertex(id, "exit")}
    BY ONLY <1>2
  <2> QED BY ONLY <1>3, <1>7, <1>9, <1>14, <2>1
<1>16. Ordered(i)
  <2>1. Lined(W, B, call)
    BY ONLY <1>11, <1>13, <1>14
  <2> QED BY ONLY <1>15, <2>1, OrderedWhenMade
<1> QED BY <1>14, <1>16
=============================================================================
