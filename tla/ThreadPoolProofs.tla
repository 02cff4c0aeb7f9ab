--------------------------- MODULE ThreadPoolProofs ---------------------------
(***************************************************************************)
(* The pool's invariants hold for every queue, limit and parallelism.      *)
(* The inductive invariant is the conjunction of the run's invariants:     *)
(* WorkConserving needs LimitsRespected to know how many successes are     *)
(* still wanted, and EveryRunAccountedFor to know that the argument list   *)
(* popped from the queue is not among those running.                       *)
(***************************************************************************)
EXTENDS ThreadPool, FiniteSetTheorems, TLAPS

PoolInv ==
    /\ TypeOK
    /\ EveryRunAccountedFor
    /\ LimitsRespected
    /\ WorkConserving
    /\ DoneMeansServed
    /\ phase = "constructed" => /\ currentlyRunning = {}
                                /\ skipped = {}
                                /\ counter = 0
                                /\ workingQueue = QueueLength

(* Every set of argument lists is finite and has a natural cardinality. *)
LEMMA ArgsFinite ==
    ASSUME NEW S \in SUBSET Args
    PROVE  IsFiniteSet(S) /\ Cardinality(S) \in Nat
  <1>1. IsFiniteSet(Args)
    BY FS_Interval, PoolAssumption DEF Args
  <1>2. IsFiniteSet(S)
    BY <1>1, FS_Subset
  <1> QED
    BY <1>2, FS_CardinalityType

(* The first loop of run() forks as many children as it may. *)
LEMMA RunKeepsInv == PoolInv /\ Run => PoolInv'
  <1> SUFFICES ASSUME PoolInv, Run
               PROVE  PoolInv'
    OBVIOUS
  <1> USE PoolAssumption
  <1> DEFINE n == InitialBatch
             started == (QueueLength - n + 1) .. QueueLength
  <1>1. /\ n \in 0 .. QueueLength
        /\ n <= Limit
        /\ n <= Parallel
        /\ n < QueueLength => n = Lesser(Parallel, Limit)
    BY DEF InitialBatch, Lesser
  <1>2. /\ workingQueue' = QueueLength - n
        /\ currentlyRunning' = started
        /\ phase = "constructed"
        /\ phase' = "waiting"
        /\ counter' = 0
        /\ skipped' = {}
    BY DEF Run, PoolInv
  <1> HIDE DEF n
  <1>3. Cardinality(started) = n
    BY <1>1, FS_Interval
  <1>4. Cardinality({}) = 0
    BY FS_EmptySet
  <1>5. TypeOK'
    BY <1>1, <1>2 DEF TypeOK, Args
  <1>6. EveryRunAccountedFor'
    BY <1>1, <1>2, <1>3, <1>4 DEF EveryRunAccountedFor
  <1>7. LimitsRespected'
    BY <1>1, <1>2, <1>3 DEF LimitsRespected
  <1>8. WorkConserving'
    BY <1>1, <1>2, <1>3 DEF WorkConserving, Lesser
  <1> QED
    BY <1>2, <1>5, <1>6, <1>7, <1>8 DEF PoolInv, DoneMeansServed

(* The arithmetic of one exit: the chain that ends, or the one that goes on, *)
(* leaves as many children as the parallelism and the limit allow.           *)
LEMMA SlotArithmetic ==
    ASSUME NEW before \in Nat, NEW after, NEW c \in Nat, NEW d \in {c, c + 1},
           before + c <= Limit,
           before = Lesser(Parallel, Limit - c),
           \/ after = before - 1 /\ d + (before - 1) >= Limit
           \/ after = before /\ d + (before - 1) < Limit
    PROVE  after = Lesser(Parallel, Limit - d)
  BY PoolAssumption DEF Lesser

(* An exit either ends a chain of children or hands it the next arguments. *)
LEMMA ChildExitKeepsInv ==
    ASSUME PoolInv, NEW args \in Args, NEW code \in {0, 1}, ChildExit(args, code)
    PROVE  PoolInv'
  <1> USE PoolAssumption
  <1> DEFINE rest == currentlyRunning \ {args}
  <1>1. /\ args \in currentlyRunning
        /\ phase' = phase
        /\ TypeOK
        /\ phase # "constructed"
    BY DEF ChildExit, PoolInv
  <1>2. /\ IsFiniteSet(currentlyRunning)
        /\ Cardinality(currentlyRunning) \in Nat
        /\ IsFiniteSet(skipped)
        /\ Cardinality(skipped) \in Nat
    BY ArgsFinite, <1>1 DEF TypeOK
  <1>3. /\ IsFiniteSet(rest)
        /\ Cardinality(rest) = Cardinality(currentlyRunning) - 1
    BY <1>1, <1>2, FS_RemoveElement
  <1>4. /\ args \notin skipped
        /\ Cardinality(skipped \cup {args}) = Cardinality(skipped) + 1
    BY <1>1, <1>2, FS_AddElement DEF PoolInv, EveryRunAccountedFor
  <1>5. /\ workingQueue \notin rest
        /\ Cardinality(rest \cup {workingQueue}) = Cardinality(rest) + 1
    BY <1>1, <1>3, FS_AddElement DEF PoolInv, EveryRunAccountedFor, TypeOK, Args
  <1>6. \/ /\ counter' = counter + 1
           /\ skipped' = skipped
           /\ Cardinality(skipped') = Cardinality(skipped)
        \/ /\ counter' = counter
           /\ skipped' = skipped \cup {args}
           /\ Cardinality(skipped') = Cardinality(skipped) + 1
    BY <1>4 DEF ChildExit
  <1>7. \/ /\ MustStop(counter', rest, workingQueue)
           /\ currentlyRunning' = rest
           /\ workingQueue' = workingQueue
        \/ /\ ~ MustStop(counter', rest, workingQueue)
           /\ currentlyRunning' = rest \cup {workingQueue}
           /\ workingQueue' = workingQueue - 1
    BY DEF ChildExit, RunNext
  <1> DEFINE before == Cardinality(currentlyRunning)
             after == Cardinality(currentlyRunning')
  <1>8. /\ counter \in Nat
        /\ counter' \in Nat
        /\ workingQueue \in 0 .. QueueLength
        /\ workingQueue' \in 0 .. QueueLength
        /\ before \in Nat
    BY <1>1, <1>2, <1>6, <1>7 DEF TypeOK, MustStop
  <1>9. \/ /\ counter' + (before - 1) >= Limit \/ workingQueue <= 0
           /\ after = before - 1
           /\ workingQueue' = workingQueue
        \/ /\ counter' + (before - 1) < Limit
           /\ workingQueue > 0
           /\ after = before
           /\ workingQueue' = workingQueue - 1
    <2>1. MustStop(counter', rest, workingQueue)
            <=> counter' + (before - 1) >= Limit \/ workingQueue <= 0
      BY <1>3 DEF MustStop
    <2>2. CASE MustStop(counter', rest, workingQueue)
      BY <1>3, <1>7, <2>1, <2>2
    <2>3. CASE ~ MustStop(counter', rest, workingQueue)
      <3>1. currentlyRunning' = rest \cup {workingQueue}
        BY <1>7, <2>3
      <3>2. after = before
        BY <1>2, <1>3, <1>5, <3>1
      <3>3. workingQueue' = workingQueue - 1
        BY <1>7, <2>3
      <3>4. counter' + (before - 1) < Limit /\ workingQueue > 0
        BY <1>8, <2>1, <2>3
      <3> QED
        BY <3>2, <3>3, <3>4
    <2> QED
      BY <2>2, <2>3
  <1>10. TypeOK'
    <2>1. skipped' \subseteq Args
      BY <1>1, <1>6 DEF TypeOK
    <2>2. currentlyRunning' \subseteq Args
      <3>1. rest \subseteq Args
        BY <1>1 DEF TypeOK
      <3>2. CASE currentlyRunning' = rest
        BY <3>1, <3>2
      <3>3. CASE currentlyRunning' = rest \cup {workingQueue} /\ workingQueue > 0
        BY <1>8, <3>1, <3>3 DEF Args
      <3> QED
        BY <1>7, <1>8, <3>2, <3>3 DEF MustStop
    <2>3. phase' \in {"constructed", "waiting", "done"}
      BY <1>1 DEF TypeOK
    <2> QED
      BY <1>8, <2>1, <2>2, <2>3 DEF TypeOK
  <1>11. EveryRunAccountedFor'
    <2>1. workingQueue + before + Cardinality(skipped) + counter = QueueLength
      BY DEF PoolInv, EveryRunAccountedFor
    <2>2. workingQueue' + after + Cardinality(skipped') + counter' = QueueLength
      BY <1>2, <1>6, <1>8, <1>9, <2>1
    <2>3. currentlyRunning' \cap skipped' = {}
      BY <1>1, <1>6, <1>7, <1>8 DEF PoolInv, EveryRunAccountedFor
    <2>4. \A a \in currentlyRunning' \cup skipped' : a > workingQueue'
      <3>1. \A a \in currentlyRunning \cup skipped : a \in Nat /\ a > workingQueue
        BY <1>1 DEF PoolInv, EveryRunAccountedFor, TypeOK, Args
      <3>2. skipped' \subseteq skipped \cup {args}
        BY <1>6
      <3>3. CASE currentlyRunning' = rest /\ workingQueue' = workingQueue
        BY <1>1, <3>1, <3>2, <3>3
      <3>4. CASE /\ currentlyRunning' = rest \cup {workingQueue}
                 /\ workingQueue' = workingQueue - 1
        BY <1>1, <1>8, <3>1, <3>2, <3>4
      <3> QED
        BY <1>7, <3>3, <3>4
    <2> QED
      BY <2>2, <2>3, <2>4 DEF EveryRunAccountedFor
  <1>12. LimitsRespected'
    BY <1>6, <1>8, <1>9 DEF PoolInv, LimitsRespected
  <1>13. WorkConserving'
    <2>1. before + counter <= Limit
      BY <1>8 DEF PoolInv, LimitsRespected
    <2>2. workingQueue > 0 => before = Lesser(Parallel, Limit - counter)
      BY <1>1 DEF PoolInv, WorkConserving
    <2>3. workingQueue' > 0 => after = Lesser(Parallel, Limit - counter')
      <3> SUFFICES ASSUME workingQueue' > 0
                   PROVE  after = Lesser(Parallel, Limit - counter')
        OBVIOUS
      <3>1. workingQueue > 0 /\ before = Lesser(Parallel, Limit - counter)
        BY <1>8, <1>9, <2>2
      <3>2. counter' \in {counter, counter + 1}
        BY <1>6
      <3>3. \/ after = before - 1 /\ counter' + (before - 1) >= Limit
            \/ after = before /\ counter' + (before - 1) < Limit
        BY <1>8, <1>9, <3>1
      <3> HIDE DEF before, after
      <3> QED
        BY <1>8, <2>1, <3>1, <3>2, <3>3, SlotArithmetic
    <2> QED
      BY <2>3 DEF WorkConserving
  <1>14. DoneMeansServed'
    BY <1>1 DEF PoolInv, DoneMeansServed, TypeOK
  <1> QED
    BY <1>1, <1>10, <1>11, <1>12, <1>13, <1>14 DEF PoolInv

(* When the last chain of children ends, the limit or the queue is used up. *)
LEMMA FinishKeepsInv == PoolInv /\ Finish => PoolInv'
  <1> SUFFICES ASSUME PoolInv, Finish
               PROVE  PoolInv'
    OBVIOUS
  <1> USE PoolAssumption
  <1>1. Cardinality(currentlyRunning) = 0
    BY FS_EmptySet DEF Finish
  <1>2. workingQueue > 0 => counter = Limit
    BY <1>1 DEF Finish, PoolInv, WorkConserving, LimitsRespected, TypeOK, Lesser
  <1>3. DoneMeansServed'
    BY <1>2 DEF Finish, DoneMeansServed, PoolInv, TypeOK
  <1> QED
    BY <1>3 DEF Finish, PoolInv, TypeOK, EveryRunAccountedFor, LimitsRespected,
                WorkConserving

LEMMA PoolInvariant == Spec => []PoolInv
  <1>1. Init => PoolInv
    BY PoolAssumption, FS_EmptySet
       DEF Init, PoolInv, TypeOK, Args, EveryRunAccountedFor, LimitsRespected,
           WorkConserving, DoneMeansServed
  <1>2. PoolInv /\ [Next]_vars => PoolInv'
    <2> SUFFICES ASSUME PoolInv, [Next]_vars
                 PROVE  PoolInv'
      OBVIOUS
    <2>1. CASE Run
      BY <2>1, RunKeepsInv
    <2>2. CASE \E args \in Args, code \in {0, 1} : ChildExit(args, code)
      BY <2>2, ChildExitKeepsInv
    <2>3. CASE Finish
      BY <2>3, FinishKeepsInv
    <2>4. CASE UNCHANGED vars
      BY <2>4 DEF vars, PoolInv, TypeOK, EveryRunAccountedFor, LimitsRespected,
                  WorkConserving, DoneMeansServed
    <2> QED
      BY <2>1, <2>2, <2>3, <2>4 DEF Next
  <1> QED
    BY <1>1, <1>2, PTL DEF Spec

(* For every queue, limit and parallelism, a slot is never left idle while   *)
(* argument lists are left and successes are still needed.                   *)
THEOREM PoolIsWorkConserving == Spec => []WorkConserving
  BY PoolInvariant, PTL DEF PoolInv

(* Successes and running children together never exceed the limit.           *)
THEOREM PoolRespectsLimits == Spec => []LimitsRespected
  BY PoolInvariant, PTL DEF PoolInv

(* run() resolves only when the limit is reached or the queue is empty.      *)
THEOREM PoolServesTheQueue == Spec => []DoneMeansServed
  BY PoolInvariant, PTL DEF PoolInv

(* No argument list is lost: each is in the queue, with a child, or done.    *)
THEOREM PoolLosesNothing == Spec => []EveryRunAccountedFor
  BY PoolInvariant, PTL DEF PoolInv

=============================================================================
