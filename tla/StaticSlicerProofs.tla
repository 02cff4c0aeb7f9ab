-------------------------- MODULE StaticSlicerProofs --------------------------
(***************************************************************************)
(* Proofs about the walk of the static slicer, for every dataflow graph,   *)
(* AST, list of criteria and threshold: Additions is never expanded.       *)
(***************************************************************************)
EXTENDS StaticSlicer, SequenceTheorems, TLAPS

InQueue(n) == \E i \in 1 .. Len(queue) : queue[i] = n

(* The queue holds nodes that are seen.                                     *)
QueueInv ==
    /\ queue \in Seq(seen)
    /\ timesHitThreshold \in Nat

(* The strengthening of SliceIsComplete: what is not in the slice yet is    *)
(* still to be added, or the node that adds it is still to be visited, or   *)
(* the threshold was hit.                                                   *)
NothingIsLost ==
    /\ \A a \in SeedAdditions(decodedCriteria) :
          a \in pending \/ a.node \in seen \/ timesHitThreshold > 0
    /\ \A n \in seen :
          \/ InQueue(n)
          \/ \A a \in Additions(n) : a \in pending \/ a.node \in seen \/ timesHitThreshold > 0

(* The strengthening of ThresholdKeepsNodes: a node that can be skipped has *)
(* been counted, and a node that has been counted is in the slice.          *)
NoNodeIsLost ==
    /\ \A id \in DOMAIN idThreshold : id \in result
    /\ \A a \in SeedAdditions(decodedCriteria) : a \in pending \/ a.node.id \in result
    /\ \A n \in seen :
          \/ InQueue(n)
          \/ \A a \in Additions(n) : a \in pending \/ a.node.id \in result

-----------------------------------------------------------------------------
(* The queue of a step of Add still has the nodes it had.                   *)
LEMMA AddKeepsQueue ==
    ASSUME QueueInv, Add
    PROVE  /\ QueueInv'
           /\ \A n \in seen : InQueue(n) => InQueue(n)'
           /\ \A n \in seen' : n \in seen \/ InQueue(n)'
<1>1. PICK a \in pending :
        \/ /\ Skipped(a.node.id)
           /\ timesHitThreshold' = timesHitThreshold + 1
           /\ UNCHANGED <<queue, seen, idThreshold>>
        \/ /\ UNCHANGED timesHitThreshold
           /\ IF fingerprint(a.node) \in seen THEN UNCHANGED <<queue, seen>>
              ELSE /\ seen' = seen \cup {fingerprint(a.node)}
                   /\ queue' = Append(queue, a.node)
  BY DEF Add
<1>2. CASE UNCHANGED <<queue, seen>>
  BY <1>1, <1>2 DEF QueueInv, InQueue
<1>3. CASE seen' = seen \cup {a.node} /\ queue' = Append(queue, a.node)
  <2>1. /\ queue \in Seq(seen \cup {a.node})
        /\ Len(queue) \in Nat
    BY DEF QueueInv
  <2>2. queue' \in Seq(seen')
    BY <1>3, <2>1
  <2>3. /\ Len(queue') = Len(queue) + 1
        /\ queue'[Len(queue) + 1] = a.node
        /\ \A i \in 1 .. Len(queue) : queue'[i] = queue[i]
    BY <1>3, <2>1
  <2>4. \A n \in seen : InQueue(n) => InQueue(n)'
    BY <2>1, <2>3 DEF InQueue
  <2>5. \A n \in seen' : n \in seen \/ InQueue(n)'
    BY <1>3, <2>1, <2>3 DEF InQueue
  <2> QED BY <1>1, <2>2, <2>4, <2>5 DEF QueueInv
<1> QED BY <1>1, <1>2, <1>3 DEF fingerprint

(* A visit takes the last node from the queue and leaves the others.        *)
LEMMA VisitKeepsQueue ==
    ASSUME QueueInv, Visit
    PROVE  /\ QueueInv'
           /\ queue[Len(queue)] \in seen
           /\ \A n \in seen : InQueue(n) => InQueue(n)' \/ n = queue[Len(queue)]
<1>1. /\ Len(queue) \in Nat \ {0}
      /\ queue \in Seq(seen)
      /\ queue' = SubSeq(queue, 1, Len(queue) - 1)
      /\ seen' = seen /\ timesHitThreshold' = timesHitThreshold
  BY DEF Visit, QueueInv, Popped
<1>2. /\ Len(queue') = Len(queue) - 1
      /\ queue' \in Seq(seen)
      /\ \A i \in 1 .. Len(queue) - 1 : queue'[i] = queue[i]
  <2> DEFINE n == Len(queue) - 1
  <2>0. queue' = SubSeq(queue, 1, n) /\ n \in Nat /\ Len(queue) = n + 1
    BY <1>1
  <2>1. n \in Int /\ 1 \in Int /\ \A i \in 1 .. n : queue[i] \in seen
    BY <1>1
  <2> HIDE DEF n
  <2>2. /\ SubSeq(queue, 1, n) \in Seq(seen)
        /\ Len(SubSeq(queue, 1, n)) = IF 1 <= n THEN n - 1 + 1 ELSE 0
        /\ \A i \in 1 .. n - 1 + 1 : SubSeq(queue, 1, n)[i] = queue[1 + i - 1]
    BY <2>1, SubSeqProperties
  <2>3. queue' \in Seq(seen)
    BY <2>0, <2>2, Zenon
  <2>4. Len(queue') = n
    BY <2>0, <2>2, SMT
  <2>5. \A i \in 1 .. n : 1 + i - 1 = i /\ i \in 1 .. n - 1 + 1
    BY <2>0
  <2>6. \A i \in 1 .. n : queue'[i] = queue[i]
    BY <2>0, <2>2, <2>5, Zenon
  <2> QED BY <2>0, <2>3, <2>4, <2>6
<1>3. \A n \in seen : InQueue(n) => InQueue(n)' \/ n = queue[Len(queue)]
  BY <1>1, <1>2 DEF InQueue
<1> QED BY <1>1, <1>2, <1>3 DEF QueueInv

(* The queue holds nodes that are seen, in every state.                     *)
LEMMA QueueInvariant == Spec => []QueueInv
<1>1. Init => QueueInv
  BY DEF Init, QueueInv
<1>2. QueueInv /\ [Next]_vars => QueueInv'
  <2> SUFFICES ASSUME QueueInv, [Next]_vars PROVE QueueInv'
    OBVIOUS
  <2>1. CASE Add   BY <2>1, AddKeepsQueue
  <2>2. CASE Visit BY <2>2, VisitKeepsQueue
  <2>3. CASE UNCHANGED vars BY <2>3 DEF vars, QueueInv
  <2> QED BY <2>1, <2>2, <2>3 DEF Next
<1> QED BY <1>1, <1>2, PTL DEF Spec

-----------------------------------------------------------------------------
(* Adding a node keeps what is not lost: the node is in the slice, or the   *)
(* threshold is hit.                                                        *)
LEMMA AddLosesNothing ==
    ASSUME QueueInv, NothingIsLost, Add
    PROVE  NothingIsLost'
<1>1. PICK a \in pending :
        /\ pending' = pending \ {a}
        /\ \/ /\ timesHitThreshold' = timesHitThreshold + 1
              /\ seen' = seen
           \/ /\ timesHitThreshold' = timesHitThreshold
              /\ seen' = seen \cup {a.node}
  BY DEF Add, fingerprint
<1>2. \A b : b \in pending \/ b.node \in seen \/ timesHitThreshold > 0 =>
             b \in pending' \/ b.node \in seen' \/ timesHitThreshold' > 0
  BY <1>1 DEF QueueInv
<1>3. decodedCriteria' = decodedCriteria
  BY DEF Add
<1>4. ASSUME NEW n \in seen'
      PROVE  \/ InQueue(n)'
             \/ \A b \in Additions(n) :
                    b \in pending' \/ b.node \in seen' \/ timesHitThreshold' > 0
  <2>1. CASE n \in seen
    BY <1>2, <2>1, AddKeepsQueue DEF NothingIsLost
  <2>2. CASE n \notin seen
    BY <2>2, <1>4, AddKeepsQueue
  <2> QED BY <2>1, <2>2
<1> QED BY <1>2, <1>3, <1>4 DEF NothingIsLost, SeedAdditions, Addition, Node

(* A visit makes all the additions of the node it takes pending.            *)
LEMMA VisitLosesNothing ==
    ASSUME QueueInv, NothingIsLost, Visit
    PROVE  NothingIsLost'
<1>1. /\ pending = {}
      /\ pending' = Additions(queue[Len(queue)])
      /\ seen' = seen
      /\ timesHitThreshold' = timesHitThreshold
      /\ decodedCriteria' = decodedCriteria
  BY DEF Visit
<1>2. ASSUME NEW n \in seen
      PROVE  \/ InQueue(n)'
             \/ \A b \in Additions(n) :
                    b \in pending' \/ b.node \in seen' \/ timesHitThreshold' > 0
  <2>1. CASE n = queue[Len(queue)]
    BY <1>1, <2>1
  <2>2. CASE n # queue[Len(queue)]
    BY <1>1, <2>2, VisitKeepsQueue DEF NothingIsLost
  <2> QED BY <2>1, <2>2
<1>3. \A b \in SeedAdditions(decodedCriteria)' :
          b \in pending' \/ b.node \in seen' \/ timesHitThreshold' > 0
  BY <1>1 DEF NothingIsLost, SeedAdditions
<1> QED BY <1>1, <1>2, <1>3 DEF NothingIsLost

(* A slice that never hit the threshold has the criteria and all that its   *)
(* nodes add, for every graph and in whatever order nodes are added.        *)
THEOREM SlicesAreComplete == Spec => []SliceIsComplete
<1>1. Init => NothingIsLost
  BY DEF Init, NothingIsLost
<1>2. QueueInv /\ NothingIsLost /\ [Next]_vars => NothingIsLost'
  <2> SUFFICES ASSUME QueueInv, NothingIsLost, [Next]_vars PROVE NothingIsLost'
    OBVIOUS
  <2>1. CASE Add   BY <2>1, AddLosesNothing
  <2>2. CASE Visit BY <2>2, VisitLosesNothing
  <2>3. CASE UNCHANGED vars
    BY <2>3 DEF vars, NothingIsLost, InQueue, SeedAdditions
  <2> QED BY <2>1, <2>2, <2>3 DEF Next
<1>3. NothingIsLost => SliceIsComplete
  BY DEF NothingIsLost, SliceIsComplete, Done, InQueue
<1> QED BY <1>1, <1>2, <1>3, QueueInvariant, PTL DEF Spec

-----------------------------------------------------------------------------
(* Adding a node keeps the nodes that were promised: a node is skipped only *)
(* if it was counted, hence is in the slice.                                *)
LEMMA AddLosesNoNode ==
    ASSUME QueueInv, NoNodeIsLost, Add
    PROVE  NoNodeIsLost'
<1>1. PICK a \in pending :
        /\ pending' = pending \ {a}
        /\ \/ /\ Skipped(a.node.id)
              /\ idThreshold' = idThreshold
              /\ seen' = seen
           \/ /\ idThreshold' = Counted(a.node.id)
              /\ seen' = seen \cup {a.node}
  BY DEF Add, fingerprint
<1>2. a.node.id \in result' /\ result \subseteq result'
  BY <1>1 DEF NoNodeIsLost, Skipped, result
<1>3. \A id \in DOMAIN idThreshold' : id \in result'
  BY <1>1, <1>2 DEF NoNodeIsLost, Counted
<1>4. \A b : b \in pending \/ b.node.id \in result => b \in pending' \/ b.node.id \in result'
  BY <1>1, <1>2
<1>5. decodedCriteria' = decodedCriteria
  BY DEF Add
<1>6. ASSUME NEW n \in seen'
      PROVE  InQueue(n)' \/ \A b \in Additions(n) : b \in pending' \/ b.node.id \in result'
  <2>1. CASE n \in seen
    BY <1>4, <2>1, AddKeepsQueue DEF NoNodeIsLost
  <2>2. CASE n \notin seen
    BY <2>2, <1>6, AddKeepsQueue
  <2> QED BY <2>1, <2>2
<1>7. \A b \in SeedAdditions(decodedCriteria)' : b \in pending' \/ b.node.id \in result'
  BY <1>4, <1>5 DEF NoNodeIsLost, SeedAdditions
<1> QED BY <1>3, <1>6, <1>7 DEF NoNodeIsLost

(* A visit makes all the additions of the node it takes pending.            *)
LEMMA VisitLosesNoNode ==
    ASSUME QueueInv, NoNodeIsLost, Visit
    PROVE  NoNodeIsLost'
<1>1. /\ pending = {}
      /\ pending' = Additions(queue[Len(queue)])
      /\ seen' = seen
      /\ result' = result
      /\ idThreshold' = idThreshold
      /\ decodedCriteria' = decodedCriteria
  BY DEF Visit, result
<1>2. ASSUME NEW n \in seen
      PROVE  InQueue(n)' \/ \A b \in Additions(n) : b \in pending' \/ b.node.id \in result'
  <2>1. CASE n = queue[Len(queue)]
    BY <1>1, <2>1
  <2>2. CASE n # queue[Len(queue)]
    BY <1>1, <2>2, VisitKeepsQueue DEF NoNodeIsLost
  <2> QED BY <2>1, <2>2
<1>3. \A b \in SeedAdditions(decodedCriteria)' : b \in pending' \/ b.node.id \in result'
  BY <1>1 DEF NoNodeIsLost, SeedAdditions
<1> QED BY <1>1, <1>2, <1>3 DEF NoNodeIsLost

(* The threshold leaves out contexts, never nodes, whatever its value is.   *)
THEOREM NodesAreKept == Spec => []ThresholdKeepsNodes
<1>1. Init => NoNodeIsLost
  BY DEF Init, NoNodeIsLost
<1>2. QueueInv /\ NoNodeIsLost /\ [Next]_vars => NoNodeIsLost'
  <2> SUFFICES ASSUME QueueInv, NoNodeIsLost, [Next]_vars PROVE NoNodeIsLost'
    OBVIOUS
  <2>1. CASE Add   BY <2>1, AddLosesNoNode
  <2>2. CASE Visit BY <2>2, VisitLosesNoNode
  <2>3. CASE UNCHANGED vars
    BY <2>3 DEF vars, NoNodeIsLost, InQueue, SeedAdditions, result
  <2> QED BY <2>1, <2>2, <2>3 DEF Next
<1>3. NoNodeIsLost => ThresholdKeepsNodes
  <2> SUFFICES ASSUME NoNodeIsLost, Done PROVE ThresholdKeepsNodes
    BY DEF ThresholdKeepsNodes
  <2>1. ASSUME NEW i \in 1 .. Len(decodedCriteria)
        PROVE  decodedCriteria[i] \in result
    <3> DEFINE seed == Addition(Node(decodedCriteria[i], initializeCleanEnvironments, FALSE),
                                "criterion", i)
    <3>1. seed \in SeedAdditions(decodedCriteria)
      BY DEF SeedAdditions
    <3>2. seed.node.id \in result
      BY <3>1 DEF NoNodeIsLost, Done
    <3>3. seed.node.id = decodedCriteria[i]
      BY DEF Addition, Node
    <3> QED BY <3>2, <3>3
  <2>2. \A n \in seen : \A a \in Additions(n) : a.node.id \in result
    BY DEF NoNodeIsLost, Done, InQueue
  <2> QED BY <2>1, <2>2 DEF ThresholdKeepsNodes
<1> QED BY <1>1, <1>2, <1>3, QueueInvariant, PTL DEF Spec

-----------------------------------------------------------------------------
(* Nothing is in the slice without need: every set that has the criteria    *)
(* and, with a node, all it adds, has the slice. With SlicesAreComplete,    *)
(* a slice that never hit the threshold is the least such set.              *)
THEOREM SlicesAreLeast ==
    ASSUME NEW S,
           \A criteria \in CriteriaLists : \A a \in SeedAdditions(criteria) : a.node \in S,
           \A n \in S : \A a \in Additions(n) : a.node \in S
    PROVE  Spec => [](seen \subseteq S)
<1> DEFINE Within == seen \subseteq S /\ \A a \in pending : a.node \in S
<1>1. Init => Within
  BY DEF Init
<1>2. QueueInv /\ Within /\ [Next]_vars => Within'
  <2> SUFFICES ASSUME QueueInv, Within, [Next]_vars PROVE Within'
    OBVIOUS
  <2>1. CASE Add
    BY <2>1 DEF Add, fingerprint
  <2>2. CASE Visit
    <3>1. queue[Len(queue)] \in S
      BY <2>2, VisitKeepsQueue
    <3> QED BY <2>2, <3>1 DEF Visit
  <2>3. CASE UNCHANGED vars
    BY <2>3 DEF vars
  <2> QED BY <2>1, <2>2, <2>3 DEF Next
<1> QED BY <1>1, <1>2, QueueInvariant, PTL DEF Spec

=============================================================================
