--------------------- MODULE AbstractInterpretationProofs ---------------------
(***************************************************************************)
(* The visitor of the control flow graph misses nothing, whatever the      *)
(* graph; the abstract interpretation walks the graph as the visitor does; *)
(* and its domains are sound for all numbers (here: all integers):         *)
(* uniting overlapping intervals neither loses a value nor adds one, and   *)
(* sums and differences of values are in the sums and differences of       *)
(* intervals.                                                              *)
(*                                                                         *)
(* The inductive invariant of the walk says that what can be visited is    *)
(* still to be tried: a vertex that was turned away waits for one that is  *)
(* not visited, and will be tried again when that one is.                  *)
(***************************************************************************)
EXTENDS AbstractInterpretation, ControlFlowGraphProofs

-----------------------------------------------------------------------------
(* The walk                                                                *)

VisitorSpec ==
    InitVisitor /\ [][(\E i : IsInformation(i) /\ VisitCfg(i)) \/ Walk]_walk

VisitorTypeOK ==
    /\ IsInformation(cfg)
    /\ visited \subseteq cfg.graph.vertices
    /\ pending \in Seq(SUBSET cfg.graph.vertices)

\* What is to be tried can be reached, and so could what is visited; that was visited in order.
InOrder ==
    /\ \A v \in visited : CanBeReached(v) /\ Before(cfg.graph, v) \subseteq visited
    /\ \A k \in DOMAIN pending : \A v \in pending[k] : CanBeReached(v)

\* What could be visited is still to be tried.
NothingIsForgotten ==
    \A v \in cfg.graph.vertices \ visited :
        CanBeReached(v) /\ Before(cfg.graph, v) \subseteq visited
            => \E k \in DOMAIN pending : v \in pending[k]

VisitorInv == VisitorTypeOK /\ InOrder /\ NothingIsForgotten

LEMMA NoGraphYet == ASSUME InitVisitor PROVE VisitorInv
<1>1. cfg.graph.vertices = {} /\ cfg.graph.edges = {} /\ cfg.entry = {}
  BY DEF InitVisitor, NoCfg, Undefined, EmptyControlFlowInformation, EmptyGraph
<1>2. IsInformation(cfg)
  BY EmptyGraphIsOne DEF InitVisitor, NoCfg, Undefined, EmptyControlFlowInformation, IsInformation
<1> QED
  BY <1>1, <1>2 DEF InitVisitor, VisitorInv, VisitorTypeOK, InOrder, NothingIsForgotten

LEMMA OneToTry ==
    ASSUME NEW W, NEW todo \in SUBSET W
    PROVE  <<todo>> \in Seq(SUBSET W)
OBVIOUS

\* A walk begins when nothing is visited yet, and is to try the entry points.
LEMMA WalkBegins ==
    ASSUME VisitorInv, NEW i, IsInformation(i), VisitCfg(i)
    PROVE  VisitorInv'
<1>1. visited = {} /\ visited' = {}
  <2>1. cfg.graph.vertices = {}
    BY DEF VisitCfg, NoCfg, Undefined, EmptyControlFlowInformation, EmptyGraph
  <2> QED BY <2>1 DEF VisitorInv, VisitorTypeOK, VisitCfg
<1>2. pending' = <<cfg'.entry>> /\ IsInformation(cfg)'
  BY DEF VisitCfg
<1>3. VisitorTypeOK'
  <2>1. <<i.entry>> \in Seq(SUBSET i.graph.vertices)
    BY OneToTry DEF IsInformation
  <2>2. cfg' = i
    BY DEF VisitCfg
  <2> QED BY <1>1, <1>2, <2>1, <2>2 DEF VisitorTypeOK
<1>4. InOrder'
  BY <1>1, <1>2 DEF InOrder, CanBeReached
<1>5. NothingIsForgotten'
  BY <1>1, <1>2 DEF NothingIsForgotten, CanBeReached
<1> QED BY <1>3, <1>4, <1>5 DEF VisitorInv

\* Taking a vertex out of what the innermost visitSingle has to try.
LEMMA OneLess ==
    ASSUME NEW W, pending \in Seq(SUBSET W), pending # <<>>, NEW v
    PROVE  /\ Without(v) \in Seq(SUBSET W)
           /\ DOMAIN Without(v) = DOMAIN pending
           /\ Without(v)[1] = pending[1] \ {v}
           /\ \A k \in DOMAIN pending : k # 1 => Without(v)[k] = pending[k]
<1>1. PICK n \in Nat : Len(pending) = n /\ n # 0
  OBVIOUS
<1>2. /\ Tail(pending) \in Seq(SUBSET W) /\ Len(Tail(pending)) = n - 1
      /\ \A k \in 1..(n - 1) : Tail(pending)[k] = pending[k + 1]
      /\ pending[1] \in SUBSET W
  BY <1>1
<1> QED BY <1>1, <1>2 DEF Without

\* Vertices to try are put before the others.
LEMMA OneMore ==
    ASSUME NEW W, NEW todo \in Seq(SUBSET W), NEW n \in Nat, Len(todo) = n, NEW after \in SUBSET W
    PROVE  /\ <<after>> \o todo \in Seq(SUBSET W)
           /\ DOMAIN (<<after>> \o todo) = 1..(n + 1)
           /\ (<<after>> \o todo)[1] = after
           /\ \A k \in 1..n : (<<after>> \o todo)[k + 1] = todo[k]
OBVIOUS

LEMMA TurningAway ==
    ASSUME VisitorInv, NEW v \in Tried, MustWait(v), pending' = Without(v), UNCHANGED <<cfg, visited>>
    PROVE  VisitorInv'
<1>0. pending # <<>> /\ pending \in Seq(SUBSET cfg.graph.vertices)
  BY DEF Tried, VisitorInv, VisitorTypeOK
<1>1. /\ pending' \in Seq(SUBSET cfg.graph.vertices)
      /\ DOMAIN pending' = DOMAIN pending
      /\ pending'[1] = pending[1] \ {v}
      /\ \A k \in DOMAIN pending : k # 1 => pending'[k] = pending[k]
  BY <1>0, OneLess
<1>2. VisitorTypeOK'
  BY <1>1 DEF VisitorInv, VisitorTypeOK
<1>3. InOrder'
  BY <1>1 DEF VisitorInv, InOrder, CanBeReached
<1>4. NothingIsForgotten'
  <2> SUFFICES ASSUME NEW w \in cfg.graph.vertices \ visited,
                      CanBeReached(w), Before(cfg.graph, w) \subseteq visited
               PROVE  \E k \in DOMAIN pending' : w \in pending'[k]
    BY DEF NothingIsForgotten, CanBeReached
  <2>1. PICK k \in DOMAIN pending : w \in pending[k]
    BY DEF VisitorInv, NothingIsForgotten
  <2>2. w # v
    BY DEF MustWait
  <2> QED BY <1>1, <2>1, <2>2
<1> QED BY <1>2, <1>3, <1>4 DEF VisitorInv

LEMMA Leaving ==
    ASSUME VisitorInv, Leave
    PROVE  VisitorInv'
<1>0. pending # <<>> /\ pending \in Seq(SUBSET cfg.graph.vertices) /\ pending[1] = {} /\ pending' = Tail(pending)
      /\ cfg' = cfg /\ visited' = visited
  BY DEF Leave, VisitorInv, VisitorTypeOK
<1>1. PICK n \in Nat : Len(pending) = n /\ n # 0
  BY <1>0
<1>2. /\ pending' \in Seq(SUBSET cfg.graph.vertices) /\ Len(pending') = n - 1
      /\ \A k \in 1..(n - 1) : pending'[k] = pending[k + 1]
      /\ DOMAIN pending' = 1..(n - 1) /\ DOMAIN pending = 1..n
  BY <1>0, <1>1
<1>3. VisitorTypeOK'
  BY <1>0, <1>2 DEF VisitorInv, VisitorTypeOK
<1>4. InOrder'
  BY <1>0, <1>2 DEF VisitorInv, InOrder, CanBeReached
<1>5. NothingIsForgotten'
  <2> SUFFICES ASSUME NEW w \in cfg.graph.vertices \ visited,
                      CanBeReached(w), Before(cfg.graph, w) \subseteq visited
               PROVE  \E k \in DOMAIN pending' : w \in pending'[k]
    BY <1>0 DEF NothingIsForgotten, CanBeReached
  <2>1. PICK k \in 1..n : w \in pending[k]
    BY <1>2 DEF VisitorInv, NothingIsForgotten
  <2>2. k # 1
    BY <1>0, <2>1
  <2>3. k - 1 \in 1..(n - 1) /\ (k - 1) + 1 = k
    BY <1>1, <2>2
  <2> QED BY <1>2, <2>1, <2>3
<1> QED BY <1>3, <1>4, <1>5 DEF VisitorInv

\* Those that come after a vertex are tried once it is visited.
LEMMA ArrowsTurnRound ==
    ASSUME NEW graph, NEW v, NEW w, v \in Before(graph, w)
    PROVE  w \in RetrieveAllPredecessors(graph, v)
BY DEF Before, RetrieveAllPredecessors

LEMMA Visiting ==
    ASSUME VisitorInv, NEW v, VisitSingle(v)
    PROVE  VisitorInv'
<1> DEFINE after == RetrieveAllPredecessors(cfg.graph, v)
           V == cfg.graph.vertices
<1>0. /\ pending # <<>> /\ pending \in Seq(SUBSET V) /\ v \in pending[1] /\ v \in Tried
      /\ cfg' = cfg /\ visited' = visited \cup {v} /\ pending' = <<after>> \o Without(v)
      /\ v \notin visited /\ Before(cfg.graph, v) \subseteq visited
      /\ visited \subseteq V /\ IsInformation(cfg)
  BY DEF VisitSingle, Tried, MustWait, VisitorInv, VisitorTypeOK
<1>1. PICK n \in Nat : Len(pending) = n /\ n # 0 /\ DOMAIN pending = 1..n
  BY <1>0
<1>2. /\ Without(v) \in Seq(SUBSET V)
      /\ DOMAIN Without(v) = DOMAIN pending
      /\ Without(v)[1] = pending[1] \ {v}
      /\ \A k \in DOMAIN pending : k # 1 => Without(v)[k] = pending[k]
  BY <1>0, OneLess
<1>3. after \subseteq V /\ v \in V /\ \A w \in after : v \in Before(cfg.graph, w)
  BY <1>0, <1>1 DEF IsInformation, IsGraph, EdgesIn, RetrieveAllPredecessors, Before
<1>4. /\ pending' \in Seq(SUBSET V) /\ DOMAIN pending' = 1..(n + 1)
      /\ pending'[1] = after
      /\ \A k \in 1..n : pending'[k + 1] = Without(v)[k]
  <2> HIDE DEF after
  <2>1. Len(Without(v)) = n
    BY <1>1, <1>2
  <2>2. after \in SUBSET V
    BY <1>3
  <2> HIDE DEF V
  <2>3. /\ <<after>> \o Without(v) \in Seq(SUBSET V)
        /\ DOMAIN (<<after>> \o Without(v)) = 1..(n + 1)
        /\ (<<after>> \o Without(v))[1] = after
        /\ \A k \in 1..n : (<<after>> \o Without(v))[k + 1] = Without(v)[k]
    BY <1>1, <1>2, <2>1, <2>2, OneMore
  <2> QED BY <1>0, <2>3
<1> HIDE DEF after
<1>5. VisitorTypeOK'
  BY <1>0, <1>3, <1>4 DEF VisitorTypeOK
<1>6. CanBeReached(v) /\ \A w \in after : CanBeReached(w)
  BY <1>0, <1>1, <1>3 DEF VisitorInv, InOrder, CanBeReached
<1>7. InOrder'
  <2>1. \A w \in visited' : CanBeReached(w)' /\ Before(cfg.graph, w)' \subseteq visited'
    BY <1>0, <1>6 DEF VisitorInv, InOrder, CanBeReached
  <2>2. ASSUME NEW k \in DOMAIN pending', NEW w \in pending'[k]
        PROVE  CanBeReached(w)'
    <3>1. CASE k = 1
      BY <1>0, <1>4, <1>6, <2>2, <3>1 DEF CanBeReached
    <3>2. CASE k # 1
      <4>1. k - 1 \in 1..n /\ (k - 1) + 1 = k
        BY <1>1, <1>4, <3>2
      <4>2. w \in Without(v)[k - 1]
        BY <1>4, <2>2, <4>1
      <4>3. w \in pending[k - 1]
        BY <1>1, <1>2, <4>1, <4>2
      <4> QED BY <1>0, <1>1, <4>1, <4>3 DEF VisitorInv, InOrder, CanBeReached
    <3> QED BY <3>1, <3>2
  <2> QED BY <2>1, <2>2 DEF InOrder
<1>8. NothingIsForgotten'
  <2> SUFFICES ASSUME NEW w \in V \ visited', CanBeReached(w), Before(cfg.graph, w) \subseteq visited'
               PROVE  \E k \in DOMAIN pending' : w \in pending'[k]
    BY <1>0 DEF NothingIsForgotten, CanBeReached
  <2>1. CASE v \in Before(cfg.graph, w)
    <3>1. w \in after
      BY <2>1, ArrowsTurnRound DEF after
    <3>2. 1 \in 1..(n + 1)
      BY <1>1
    <3> QED BY <1>4, <3>1, <3>2
  <2>2. CASE v \notin Before(cfg.graph, w)
    <3>1. PICK k \in 1..n : w \in pending[k]
      BY <1>0, <1>1, <2>2 DEF VisitorInv, NothingIsForgotten
    <3>2. w # v
      BY <1>0
    <3>3. w \in Without(v)[k]
      BY <1>1, <1>2, <3>1, <3>2
    <3>4. k + 1 \in 1..(n + 1)
      BY <1>1
    <3> QED BY <1>4, <3>1, <3>3, <3>4
  <2> QED BY <2>1, <2>2
<1> QED BY <1>5, <1>7, <1>8 DEF VisitorInv

LEMMA WalkGoesOn ==
    ASSUME VisitorInv, Walk
    PROVE  VisitorInv'
<1>1. CASE TurnAway
  BY <1>1, TurningAway DEF TurnAway
<1>2. CASE Leave
  BY <1>2, Leaving
<1>3. CASE \E v \in Tried : VisitSingle(v)
  BY <1>3, Visiting
<1> QED BY <1>1, <1>2, <1>3 DEF Walk

LEMMA WalkStops ==
    ASSUME VisitorInv
    PROVE  VisitorMissesNothing
<1> SUFFICES ASSUME Ended, NEW v \in cfg.graph.vertices
             PROVE  v \in visited <=> CanBeReached(v) /\ Before(cfg.graph, v) \subseteq visited
  BY DEF VisitorMissesNothing
<1>1. DOMAIN pending = {}
  BY DEF Ended
<1>2. CASE v \in visited
  BY <1>2 DEF VisitorInv, InOrder
<1>3. CASE v \notin visited
  BY <1>1, <1>3 DEF VisitorInv, NothingIsForgotten
<1> QED BY <1>2, <1>3

LEMMA VisitorIsInductive == VisitorSpec => []VisitorInv
<1>1. InitVisitor => VisitorInv
  BY NoGraphYet
<1>2. VisitorInv /\ [(\E i : IsInformation(i) /\ VisitCfg(i)) \/ Walk]_walk => VisitorInv'
  <2> SUFFICES ASSUME VisitorInv, [(\E i : IsInformation(i) /\ VisitCfg(i)) \/ Walk]_walk
               PROVE  VisitorInv'
    OBVIOUS
  <2>1. CASE \E i : IsInformation(i) /\ VisitCfg(i)
    BY <2>1, WalkBegins
  <2>2. CASE Walk
    BY <2>2, WalkGoesOn
  <2>3. CASE UNCHANGED walk
    BY <2>3 DEF walk, VisitorInv, VisitorTypeOK, InOrder, NothingIsForgotten, CanBeReached
  <2> QED BY <2>1, <2>2, <2>3
<1> QED BY <1>1, <1>2, PTL DEF VisitorSpec

\* The visitor misses nothing, whatever the graph: in the end it has visited exactly what can be
\* reached and comes after visited vertices only, in whichever order it takes the edges.
THEOREM VisitorComesEverywhere == VisitorSpec => []VisitorMissesNothing
BY VisitorIsInductive, WalkStops, PTL

LEMMA OrderedIsVisited ==
    ASSUME VisitorInv, Ended, Ordered(cfg)
    PROVE  visited = cfg.graph.vertices
<1>1. PICK V, A, S : /\ V = cfg.graph.vertices /\ A = Arrows(cfg.graph.edges) /\ S = V \ visited
  OBVIOUS
<1>2. \A v \in V : \A w : <<v, w>> \in A <=> w \in Before(cfg.graph, v)
  BY <1>1 DEF Arrows, Before
<1>3. SUFFICES ASSUME S # {} PROVE FALSE
  BY <1>1 DEF VisitorInv, VisitorTypeOK
<1>4. S \in SUBSET V /\ Lined(V, A, cfg.entry)
  BY <1>1 DEF Ordered
<1>5. PICK v \in S : (\A w \in S : <<v, w>> \notin A) /\ (v \in cfg.entry \/ \E w \in V : <<v, w>> \in A)
  BY <1>3, <1>4 DEF Lined
<1>6. CanBeReached(v)
  BY <1>1, <1>2, <1>5 DEF CanBeReached
<1>7. Before(cfg.graph, v) \subseteq V
  BY <1>1 DEF VisitorInv, VisitorTypeOK, IsInformation, IsGraph, EdgesIn, Before
<1>8. Before(cfg.graph, v) \subseteq visited
  BY <1>1, <1>2, <1>5, <1>7
<1> QED BY <1>1, <1>6, <1>8, WalkStops DEF VisitorMissesNothing

\* In a graph without cycles in which only the entry has nothing before, the visitor comes to
\* every vertex.
THEOREM OrderedGraphsAreVisited ==
    VisitorSpec => [](Ended /\ Ordered(cfg) => visited = cfg.graph.vertices)
<1>1. VisitorInv => (Ended /\ Ordered(cfg) => visited = cfg.graph.vertices)
  BY OrderedIsVisited
<1> QED BY <1>1, VisitorIsInductive, PTL

-----------------------------------------------------------------------------
(* The interpretation                                                      *)

InterpretationSpec ==
    /\ InitInterpretation
    /\ [][(\E i, edges : IsInformation(i) /\ Analyze(i, edges)) \/ RunAbstractInterpretation]_vars

LEMMA InterpretationStep ==
    ASSUME [(\E i, edges : IsInformation(i) /\ Analyze(i, edges)) \/ RunAbstractInterpretation]_vars
    PROVE  [(\E i : IsInformation(i) /\ VisitCfg(i)) \/ Walk]_walk
<1>1. CASE \E i, edges : IsInformation(i) /\ Analyze(i, edges)
  BY <1>1 DEF Analyze
<1>2. CASE RunAbstractInterpretation
  <2>1. CASE TurnAway \/ Leave
    BY <2>1 DEF Walk
  <2>2. ASSUME NEW v \in Tried,
               EnterBinaryOp(v) \/ MeetSymbol(v) \/ MeetNumber(v) \/ ExitOperation(v) \/ Ignore(v)
        PROVE  VisitSingle(v) \/ UNCHANGED walk
    BY <2>2 DEF EnterBinaryOp, MeetSymbol, MeetNumber, ExitOperation, Ignore, Throw
  <2> QED BY <1>2, <2>1, <2>2 DEF RunAbstractInterpretation, Walk
<1>3. CASE UNCHANGED vars
  BY <1>3 DEF vars, walk
<1> QED BY <1>1, <1>2, <1>3

\* The interpretation walks the graph as the visitor does, until a guard fails, if one does: its
\* callback neither visits nor holds up anything by itself.
THEOREM InterpretationIsAWalk == InterpretationSpec => VisitorSpec
<1>1. InitInterpretation => InitVisitor
  BY DEF InitInterpretation
<1> QED BY <1>1, InterpretationStep, PTL DEF InterpretationSpec, VisitorSpec

\* So it is called back for every vertex that can be visited in some order, and for no other.
THEOREM InterpretationMissesNothing == InterpretationSpec => []VisitorMissesNothing
BY InterpretationIsAWalk, VisitorComesEverywhere, PTL

-----------------------------------------------------------------------------
(* Intervals and domains                                                   *)

Bounds == [value : Int, inclusive : BOOLEAN]
Intervals == {i \in [min : Bounds, max : Bounds] : IsInterval(i)}

\* An interval of a single value that is open, (a, a), is empty. The constructor accepts it, but no
\* operation of the abstract interpretation makes one of intervals that are proper.
Proper(i) == i.min.value < i.max.value \/ i.min.inclusive

-----------------------------------------------------------------------------
LEMMA IntervalBounds ==
    ASSUME NEW i \in Intervals
    PROVE  /\ i.min.value \in Int /\ i.max.value \in Int
           /\ i.min.inclusive \in BOOLEAN /\ i.max.inclusive \in BOOLEAN
           /\ i.min.value <= i.max.value
           /\ i.min.value = i.max.value => (i.min.inclusive <=> i.max.inclusive)
           /\ i = Interval(i.min, i.max)
BY DEF Intervals, Bounds, IsInterval, Interval

\* unifyOverlappingIntervals puts two overlapping intervals together to one that the
\* constructor of Interval accepts.
THEOREM HullIsAnInterval ==
    ASSUME NEW i \in Intervals, NEW j \in Intervals, DoIntervalsOverlap(i, j)
    PROVE  Hull(i, j) \in Intervals
<1>1. Hull(i, j) \in [min : Bounds, max : Bounds]
  BY DEF Hull, Interval, Intervals, Bounds, StartsBefore, EndsAfter
<1>2. IsInterval(Hull(i, j))
  BY IntervalBounds DEF Hull, Interval, IsInterval, StartsBefore, EndsAfter, DoIntervalsOverlap
<1> QED BY <1>1, <1>2 DEF Intervals

\* ... and that has exactly the values of both: doIntervalsOverlap is neither too generous with
\* bounds that touch nor too strict for the intervals to be put together.
THEOREM HullIsTheUnion ==
    ASSUME NEW i \in Intervals, NEW j \in Intervals, DoIntervalsOverlap(i, j), NEW n \in Int
    PROVE  Within(n, Hull(i, j)) <=> Within(n, i) \/ Within(n, j)
<1>1. Within(n, i) \/ Within(n, j) => Within(n, Hull(i, j))
  BY IntervalBounds DEF Within, Hull, Interval, StartsBefore, EndsAfter
<1>2. Within(n, Hull(i, j)) => Within(n, i) \/ Within(n, j)
  BY IntervalBounds DEF Within, Hull, Interval, StartsBefore, EndsAfter, DoIntervalsOverlap
<1> QED BY <1>1, <1>2

\* Intervals that do not overlap have no value in common.
THEOREM ApartMeansDisjoint ==
    ASSUME NEW i \in Intervals, NEW j \in Intervals, ~DoIntervalsOverlap(i, j), NEW n \in Int
    PROVE  ~(Within(n, i) /\ Within(n, j))
BY IntervalBounds DEF Within, DoIntervalsOverlap

-----------------------------------------------------------------------------
(* The loop of unifyOverlappingIntervals                                   *)

Progress == [unified : SUBSET Intervals, current : Intervals]
Covered(so) == so.unified \cup {so.current}

\* A round of the loop adds the values of the next interval, and nothing else.
THEOREM UnifyKeepsValues ==
    ASSUME NEW so \in Progress, NEW next \in Intervals, NEW n \in Int
    PROVE  Holds(Covered(Unify(so, next)), n) <=> Holds(Covered(so), n) \/ Within(n, next)
<1>0. so.current \in Intervals /\ so.unified \subseteq Intervals
  BY DEF Progress
<1>1. CASE DoIntervalsOverlap(so.current, next)
  <2>1. Covered(Unify(so, next)) = so.unified \cup {Hull(so.current, next)}
    BY <1>1 DEF Unify, Covered, Progress
  <2>2. Within(n, Hull(so.current, next)) <=> Within(n, so.current) \/ Within(n, next)
    BY <1>0, <1>1, HullIsTheUnion
  <2> QED BY <2>1, <2>2 DEF Holds, Covered
<1>2. CASE ~DoIntervalsOverlap(so.current, next)
  <2>1. Covered(Unify(so, next)) = so.unified \cup {so.current} \cup {next}
    BY <1>2 DEF Unify, Covered
  <2> QED BY <2>1 DEF Holds, Covered
<1> QED BY <1>1, <1>2

\* What is unified lies before the current interval, and the current one is not after what
\* is still to come: the list is sorted by the minimum.
LiesBefore(i, j) == i.max.value < j.min.value \/ (i.max.value = j.min.value /\ ~(i.max.inclusive /\ j.min.inclusive))
Apart(so) == \A i \in so.unified : LiesBefore(i, so.current)

\* A round of the loop, with an interval that starts no earlier, leaves the intervals apart, and
\* the current one starts no later than that interval.
THEOREM UnifyKeepsApart ==
    ASSUME NEW so \in Progress, NEW next \in Intervals, Proper(so.current), Proper(next),
           Apart(so), ~StartsBefore(next, so.current)
    PROVE  /\ Apart(Unify(so, next))
           /\ Proper(Unify(so, next).current)
           /\ ~StartsBefore(next, Unify(so, next).current)
<1>0. so.current \in Intervals /\ so.unified \subseteq Intervals
  BY DEF Progress
<1>1. CASE DoIntervalsOverlap(so.current, next)
  <2> DEFINE hull == Hull(so.current, next)
  <2>1. Unify(so, next).unified = so.unified /\ Unify(so, next).current = hull
    BY <1>1 DEF Unify, Progress
  <2>2. hull.min = so.current.min
    <3>1. so.current.min \in Bounds /\ next.min \in Bounds
      BY <1>0 DEF Intervals
    <3>2. CASE StartsBefore(so.current, next)
      BY <3>2 DEF Hull, Interval
    <3>3. CASE ~StartsBefore(so.current, next)
      <4>1. so.current.min.value = next.min.value /\ so.current.min.inclusive = next.min.inclusive
        BY <3>1, <3>3 DEF StartsBefore, Bounds
      <4>2. so.current.min = next.min
        BY <3>1, <4>1 DEF Bounds
      <4> QED BY <3>3, <4>2 DEF Hull, Interval
    <3> QED BY <3>2, <3>3
  <2>3. Apart(Unify(so, next))
    BY <2>1, <2>2 DEF Apart, LiesBefore
  <2>4. Proper(hull)
    BY <1>0, <1>1, <2>2, IntervalBounds, HullIsAnInterval
       DEF Proper, Hull, Interval, StartsBefore, EndsAfter, DoIntervalsOverlap
  <2>5. ~StartsBefore(next, hull)
    BY <2>2 DEF StartsBefore
  <2> QED BY <2>1, <2>3, <2>4, <2>5
<1>2. CASE ~DoIntervalsOverlap(so.current, next)
  <2>1. Unify(so, next).unified = so.unified \cup {so.current} /\ Unify(so, next).current = next
    BY <1>2 DEF Unify
  <2>2. LiesBefore(so.current, next)
    BY <1>0, <1>2, IntervalBounds DEF LiesBefore, DoIntervalsOverlap, Proper, StartsBefore
  <2>3. \A i \in so.unified : LiesBefore(i, next)
    <3> SUFFICES ASSUME NEW i \in so.unified PROVE LiesBefore(i, next)
      OBVIOUS
    <3>1. i \in Intervals /\ LiesBefore(i, so.current)
      BY <1>0 DEF Apart
    <3> QED BY <1>0, <2>2, <3>1, IntervalBounds DEF LiesBefore, Proper, StartsBefore
  <2> QED BY <1>0, <2>1, <2>2, <2>3, IntervalBounds DEF Apart, StartsBefore
<1> QED BY <1>1, <1>2

-----------------------------------------------------------------------------
(* Arithmetic                                                              *)

\* addDomains: the sum of two values is in the sum of their intervals.
THEOREM SumsAreInSums ==
    ASSUME NEW i \in Intervals, NEW j \in Intervals, NEW a \in Int, NEW b \in Int,
           Within(a, i), Within(b, j)
    PROVE  Within(a + b, AddIntervals(i, j))
BY IntervalBounds DEF Within, AddIntervals, Plus2, Interval, Bound

\* subtractDomains: the difference of two values is in the difference of their intervals.
THEOREM DifferencesAreInDifferences ==
    ASSUME NEW i \in Intervals, NEW j \in Intervals, NEW a \in Int, NEW b \in Int,
           Within(a, i), Within(b, j)
    PROVE  Within(a - b, SubtractIntervals(i, j))
BY IntervalBounds DEF Within, SubtractIntervals, Minus2, Interval, Bound

\* The guards in the constructor of Interval never fail for sums and differences of intervals.
THEOREM ArithmeticMakesIntervals ==
    ASSUME NEW i \in Intervals, NEW j \in Intervals
    PROVE  AddIntervals(i, j) \in Intervals /\ SubtractIntervals(i, j) \in Intervals
<1>1. AddIntervals(i, j) \in [min : Bounds, max : Bounds] /\ SubtractIntervals(i, j) \in [min : Bounds, max : Bounds]
  BY DEF AddIntervals, SubtractIntervals, Plus2, Minus2, Interval, Bound, Intervals, Bounds
<1>2. IsInterval(AddIntervals(i, j))
  BY IntervalBounds DEF AddIntervals, Plus2, Interval, Bound, IsInterval
<1>3. IsInterval(SubtractIntervals(i, j))
  BY IntervalBounds DEF SubtractIntervals, Minus2, Interval, Bound, IsInterval
<1> QED BY <1>1, <1>2, <1>3 DEF Intervals
=============================================================================
