------------------------- MODULE SteppingSlicerProofs -------------------------
(***************************************************************************)
(* When every call of the slicer is awaited, its results always fit the    *)
(* counter and the criterion, for all callers, criteria and steps of       *)
(* interest. The inductive invariant adds what ties a call in progress to  *)
(* the slicer: one call at a time, whose step is still the upcoming one    *)
(* and whose value is still what that step would be computed for.          *)
(***************************************************************************)
EXTENDS SteppingSlicer, TLAPS

(* The calls in progress are in step with the slicer. *)
WorkFits ==
    /\ \A p, q \in Callers : work[p].op # "idle" /\ work[q].op # "idle" => p = q
    /\ \A p \in Callers :
          /\ work[p].op = "idle" => work[p].step = None
          /\ work[p].op = "switched" => stage = "once-per-slice"
          /\ work[p].step # None =>
                /\ hasNextStep
                /\ CanCompute
                /\ work[p].step = Upcoming
                /\ work[p].value = Computed

StageFits ==
    IF stage = "once-per-file" THEN stepCounter <= maximumNumberOfStepsPerFile
                               ELSE stepCounter >= maximumNumberOfStepsPerFile

SlicerInv ==
    /\ TypeOK
    /\ ResultsFollowCounter
    /\ ResultsFitCriterion
    /\ ReachedMeansWanted
    /\ WorkFits
    /\ StageFits

(* ResultsFollowCounter, spelled out step by step.                           *)
LEMMA FollowSpelledOut ==
    ASSUME NEW r, NEW n
    PROVE  (\A i \in 1 .. 5 : r[Steps[i]] # None <=> i <= n) <=>
              /\ r["parse"] # None <=> 1 <= n
              /\ r["normalize"] # None <=> 2 <= n
              /\ r["dataflow"] # None <=> 3 <= n
              /\ r["slice"] # None <=> 4 <= n
              /\ r["reconstruct"] # None <=> 5 <= n
  <1>1. 1 .. 5 = {1, 2, 3, 4, 5}
    OBVIOUS
  <1>2. /\ Steps[1] = "parse"
        /\ Steps[2] = "normalize"
        /\ Steps[3] = "dataflow"
        /\ Steps[4] = "slice"
        /\ Steps[5] = "reconstruct"
    BY DEF Steps
  <1> QED
    BY <1>1, <1>2

(* A step has a result exactly when the counter has passed its position.     *)
LEMMA PositionCounts ==
    ASSUME ResultsFollowCounter, stepCounter \in Nat, NEW step \in StepNames
    PROVE  /\ PositionOf(step) \in 1 .. 5
           /\ results[step] # None <=> PositionOf(step) <= stepCounter
  BY FollowSpelledOut DEF ResultsFollowCounter, PositionOf, StepNames

LEMMA InitEstablishesInv == Init => SlicerInv
  <1> SUFFICES ASSUME Init PROVE SlicerInv
    OBVIOUS
  <1>1. TypeOK
    <2>1. Idle \in Work
      BY DEF Idle, Work
    <2>2. results \in [StepNames -> Criteria \cup {None, ForFile}]
      BY DEF Init
    <2>3. work \in [Callers -> Work]
      BY <2>1 DEF Init
    <2>4. /\ stage \in {"once-per-file", "once-per-slice"}
          /\ stepCounter \in 0 .. maximumNumberOfStepsPerSlice
          /\ criterion \in Criteria \cup {None}
          /\ kept \in Criteria \cup {None}
      BY DEF Init, maximumNumberOfStepsPerSlice
    <2>5. reachedWanted \in BOOLEAN
      BY DEF Init
    <2> QED
      BY <2>2, <2>3, <2>4, <2>5 DEF TypeOK
  <1>2. ResultsFollowCounter
    BY FollowSpelledOut DEF Init, ResultsFollowCounter, StepNames
  <1>3. ResultsFitCriterion /\ StageFits
    BY DEF Init, ResultsFitCriterion, StageFits, StepNames, maximumNumberOfStepsPerFile
  <1>4. ReachedMeansWanted
    BY SlicerAssumption DEF Init, ReachedMeansWanted, StepNames, PositionOf
  <1>5. WorkFits
    BY DEF Init, WorkFits, Idle
  <1> QED
    BY <1>1, <1>2, <1>3, <1>4, <1>5 DEF SlicerInv

(* The invariants mention neither kept nor, but for WorkFits, work.          *)
LEMMA OnlyWorkChanges ==
    ASSUME SlicerInv, TypeOK', WorkFits',
           UNCHANGED <<stage, stepCounter, reachedWanted, criterion, results>>
    PROVE  SlicerInv'
  BY DEF SlicerInv, ResultsFollowCounter, ResultsFitCriterion, ReachedMeansWanted, StageFits

(* A step that begins is the upcoming one.                                   *)
LEMMA BeginStepKeepsInv ==
    ASSUME SlicerInv, NEW p \in Callers, NEW op \in {"next", "switch", "stay", "switched"},
           \A q \in Callers : work[q].op # "idle" => q = p,
           op = "switched" => stage = "once-per-slice",
           BeginStep(p, op)
    PROVE  SlicerInv'
  <1>1. /\ TypeOK /\ WorkFits
        /\ hasNextStep /\ CanCompute
        /\ UNCHANGED <<stage, stepCounter, reachedWanted, criterion, results, kept>>
        /\ work' = [work EXCEPT ![p] = [op |-> op, step |-> Upcoming, value |-> Computed]]
    BY DEF SlicerInv, BeginStep
  <1>2. Upcoming \in StepNames /\ Upcoming # None
    <2>1. stepCounter \in {0, 1, 2, 3, 4}
      BY <1>1 DEF TypeOK, hasNextStep, StepsOfStage, maximumNumberOfStepsPerSlice,
                  maximumNumberOfStepsPerFile
    <2> QED
      BY <2>1 DEF Upcoming, Steps, StepNames, None
  <1>3. Computed \in Criteria \cup {None, ForFile}
    BY <1>1 DEF Computed, TypeOK, StepNames
  <1>4. TypeOK'
    <2>1. [op |-> op, step |-> Upcoming, value |-> Computed] \in Work
      BY <1>2, <1>3 DEF Work
    <2> QED
      BY <1>1, <2>1 DEF TypeOK
  <1>5. WorkFits'
    <2>1. hasNextStep' = hasNextStep /\ CanCompute' = CanCompute
          /\ Upcoming' = Upcoming /\ Computed' = Computed
      BY <1>1 DEF hasNextStep, StepsOfStage, CanCompute, Upcoming, Computed
    <2>2. work'[p] = [op |-> op, step |-> Upcoming, value |-> Computed]
      BY <1>1 DEF TypeOK
    <2>3. \A q \in Callers \ {p} : work'[q] = work[q] /\ work[q].op = "idle"
      BY <1>1 DEF TypeOK
    <2> QED
      BY <1>1, <1>2, <2>1, <2>2, <2>3 DEF WorkFits
  <1> QED
    BY <1>1, <1>4, <1>5, OnlyWorkChanges

(* A step that was begun is stored as the upcoming one.                      *)
LEMMA CommitStepKeepsInv ==
    ASSUME SlicerInv, NEW p \in Callers, CommitStep(p)
    PROVE  SlicerInv'
  <1> USE SlicerAssumption
  <1> DEFINE next == IF work[p].op = "next" THEN Idle
                     ELSE [work[p] EXCEPT !.step = None, !.value = None]
  <1>1. /\ TypeOK /\ WorkFits /\ StageFits
        /\ hasNextStep /\ CanCompute
        /\ stepCounter' = stepCounter + 1
        /\ results' = [results EXCEPT ![Upcoming] = Computed]
        /\ reachedWanted' = (reachedWanted \/ Upcoming = StepOfInterest)
        /\ work' = [work EXCEPT ![p] = next]
        /\ UNCHANGED <<stage, criterion, kept>>
    BY DEF SlicerInv, WorkFits, CommitStep, Counted, Wanted
  <1>2. /\ stepCounter \in {0, 1, 2, 3, 4}
        /\ stepCounter < 3 \/ stage = "once-per-slice"
        /\ reachedWanted = FALSE
    BY <1>1 DEF TypeOK, hasNextStep, StepsOfStage, maximumNumberOfStepsPerSlice,
                maximumNumberOfStepsPerFile
  <1>3. /\ results["parse"] # None <=> 1 <= stepCounter
        /\ results["normalize"] # None <=> 2 <= stepCounter
        /\ results["dataflow"] # None <=> 3 <= stepCounter
        /\ results["slice"] # None <=> 4 <= stepCounter
        /\ results["reconstruct"] # None <=> 5 <= stepCounter
        /\ DOMAIN results = StepNames
    BY <1>1, FollowSpelledOut DEF SlicerInv, ResultsFollowCounter, TypeOK
  <1>4. \/ stepCounter = 0 /\ Upcoming = "parse"
        \/ stepCounter = 1 /\ Upcoming = "normalize"
        \/ stepCounter = 2 /\ Upcoming = "dataflow"
        \/ stepCounter = 3 /\ Upcoming = "slice"
        \/ stepCounter = 4 /\ Upcoming = "reconstruct"
    BY <1>2 DEF Upcoming, Steps
  <1>5. /\ Computed \in Criteria \cup {None, ForFile}
        /\ Computed # None
        /\ Upcoming \in {"slice", "reconstruct"} => Computed = criterion
    BY <1>1, <1>2, <1>3, <1>4
       DEF Computed, CanCompute, None, ForFile, TypeOK, StepNames, SlicerInv, ResultsFitCriterion
  <1> HIDE DEF next
  <1>5a. \A step \in StepNames :
            results'[step] = IF step = Upcoming THEN Computed ELSE results[step]
    BY <1>1, <1>3
  <1>6. ResultsFollowCounter'
    <2>1. /\ results'["parse"] # None <=> 1 <= stepCounter'
          /\ results'["normalize"] # None <=> 2 <= stepCounter'
          /\ results'["dataflow"] # None <=> 3 <= stepCounter'
          /\ results'["slice"] # None <=> 4 <= stepCounter'
          /\ results'["reconstruct"] # None <=> 5 <= stepCounter'
      <3>1. /\ results'["parse"] = IF Upcoming = "parse" THEN Computed ELSE results["parse"]
            /\ results'["normalize"] = IF Upcoming = "normalize" THEN Computed ELSE results["normalize"]
            /\ results'["dataflow"] = IF Upcoming = "dataflow" THEN Computed ELSE results["dataflow"]
            /\ results'["slice"] = IF Upcoming = "slice" THEN Computed ELSE results["slice"]
            /\ results'["reconstruct"] = IF Upcoming = "reconstruct" THEN Computed ELSE results["reconstruct"]
        BY <1>5a DEF StepNames
      <3>2. stepCounter' = stepCounter + 1 /\ stepCounter \in Nat
        BY <1>1, <1>2
      <3>3. Computed # None
        BY <1>5
      <3>4. CASE stepCounter = 0 /\ Upcoming = "parse"
        BY <1>3, <3>1, <3>2, <3>3, <3>4
      <3>5. CASE stepCounter = 1 /\ Upcoming = "normalize"
        BY <1>3, <3>1, <3>2, <3>3, <3>5
      <3>6. CASE stepCounter = 2 /\ Upcoming = "dataflow"
        BY <1>3, <3>1, <3>2, <3>3, <3>6
      <3>7. CASE stepCounter = 3 /\ Upcoming = "slice"
        BY <1>3, <3>1, <3>2, <3>3, <3>7
      <3>8. CASE stepCounter = 4 /\ Upcoming = "reconstruct"
        BY <1>3, <3>1, <3>2, <3>3, <3>8
      <3> QED
        BY <1>4, <3>4, <3>5, <3>6, <3>7, <3>8
    <2> QED
      BY <2>1, FollowSpelledOut DEF ResultsFollowCounter
  <1>7. ResultsFitCriterion'
    <2>1. results["slice"] \in {None, criterion} /\ results["reconstruct"] \in {None, criterion}
      BY DEF SlicerInv, ResultsFitCriterion
    <2>2. results'["slice"] \in {None, criterion} /\ results'["reconstruct"] \in {None, criterion}
      BY <1>5, <1>5a, <2>1 DEF StepNames
    <2> QED
      BY <1>1, <2>2 DEF ResultsFitCriterion
  <1>8. ReachedMeansWanted'
    <2>1. /\ results[StepOfInterest] = None
          /\ stepCounter <= PositionOf(StepOfInterest)
      BY <1>2 DEF SlicerInv, ReachedMeansWanted
    <2>2. stepCounter' <= PositionOf(StepOfInterest)
      <3>1. StepOfInterest \in StepNames /\ ResultsFollowCounter /\ stepCounter \in Nat
        BY <1>2 DEF SlicerInv
      <3>2. /\ PositionOf(StepOfInterest) \in 1 .. 5
            /\ ~ (PositionOf(StepOfInterest) <= stepCounter)
        BY <2>1, <3>1, PositionCounts
      <3> QED
        BY <1>1, <3>1, <3>2
    <2>3. results'[StepOfInterest] # None <=> Upcoming = StepOfInterest
      BY <1>5, <1>5a, <2>1
    <2> QED
      BY <1>1, <1>2, <2>2, <2>3 DEF ReachedMeansWanted
  <1>9. StageFits'
    BY <1>1, <1>2 DEF StageFits, maximumNumberOfStepsPerFile
  <1>10. next \in Work /\ next.step = None /\ next.op \in {"idle", work[p].op}
    BY <1>1 DEF TypeOK, Work, Idle, next
  <1>11. WorkFits'
    <2>1. work'[p] = next /\ \A q \in Callers \ {p} : work'[q] = work[q]
      BY <1>1 DEF TypeOK
    <2>2. \A q \in Callers \ {p} : work[q].op = "idle" /\ work[q].step = None
      <3>1. work[p].op # "idle"
        BY <1>1 DEF CommitStep, WorkFits
      <3> QED
        BY <1>1, <3>1 DEF WorkFits
    <2> QED
      BY <1>1, <1>10, <2>1, <2>2 DEF WorkFits
  <1>12. TypeOK'
    <2>1. work' \in [Callers -> Work]
      BY <1>1, <1>10 DEF TypeOK
    <2>2. results' \in [StepNames -> Criteria \cup {None, ForFile}]
      BY <1>1, <1>5 DEF TypeOK
    <2>3. stepCounter' \in 0 .. maximumNumberOfStepsPerSlice
      BY <1>1, <1>2 DEF maximumNumberOfStepsPerSlice
    <2> QED
      BY <1>1, <2>1, <2>2, <2>3 DEF TypeOK
  <1> QED
    BY <1>6, <1>7, <1>8, <1>9, <1>11, <1>12 DEF SlicerInv

(* A call that starts, or goes on with its second loop.                      *)
LEMMA WorkStepKeepsInv ==
    ASSUME SlicerInv, NEW p \in Callers, NEW op \in {"switch", "stay", "switched"},
           \A q \in Callers : work[q].op # "idle" => q = p,
           work' = [work EXCEPT ![p].op = op],
           work[p].step = None,
           op = "switched" => stage' = "once-per-slice",
           UNCHANGED <<stepCounter, reachedWanted, criterion, results>>,
           stage' \in {"once-per-file", "once-per-slice"},
           StageFits',
           kept' \in Criteria \cup {None}
    PROVE  SlicerInv'
  <1>1. TypeOK /\ WorkFits
    BY DEF SlicerInv
  <1>2. /\ work'[p] \in Work
        /\ work'[p].op = op
        /\ work'[p].step = None
        /\ work' = [work EXCEPT ![p] = work'[p]]
    BY <1>1 DEF TypeOK, Work
  <1>3. TypeOK'
    BY <1>1, <1>2 DEF TypeOK
  <1>4. WorkFits'
    <2>1. \A q \in Callers \ {p} : work'[q] = work[q] /\ work[q].op = "idle"
      BY <1>1, <1>2 DEF TypeOK
    <2> QED
      BY <1>1, <1>2, <2>1 DEF WorkFits
  <1> QED
    BY <1>3, <1>4 DEF SlicerInv, ResultsFollowCounter, ResultsFitCriterion,
                      ReachedMeansWanted

(* A call that ends.                                                       *)
LEMMA IdleKeepsInv ==
    ASSUME SlicerInv, NEW p \in Callers, work[p].op # "idle",
           work' = [work EXCEPT ![p] = Idle],
           UNCHANGED <<stage, stepCounter, reachedWanted, criterion, results>>,
           kept' \in Criteria \cup {None}
    PROVE  SlicerInv'
  <1>1. TypeOK /\ WorkFits /\ StageFits
    BY DEF SlicerInv
  <1>2. \A q \in Callers : work[q].op # "idle" => q = p
    BY <1>1 DEF WorkFits
  <1>3. TypeOK'
    BY <1>1 DEF TypeOK, Idle, Work
  <1>4. WorkFits'
    <2>1. work'[p] = Idle /\ \A q \in Callers \ {p} : work'[q] = work[q] /\ work[q].op = "idle"
      BY <1>1, <1>2 DEF TypeOK
    <2>2. Idle.op = "idle" /\ Idle.step = None
      BY DEF Idle
    <2> QED
      BY <1>1, <2>1, <2>2 DEF WorkFits
  <1> QED
    BY <1>3, <1>4, OnlyWorkChanges

(* updateCriterion goes back to the end of the first stage.                  *)
LEMMA UpdateCriterionKeepsInv ==
    ASSUME SlicerInv, NEW newCriterion \in Criteria, updateCriterion(newCriterion),
           \A p \in Callers : work[p].op = "idle"
    PROVE  SlicerInv'
  <1> USE SlicerAssumption
  <1>1. /\ TypeOK /\ WorkFits /\ StageFits
        /\ stepCounter >= 3
        /\ stepCounter' = 3
        /\ criterion' = newCriterion
        /\ results' = [results EXCEPT !["slice"] = None, !["reconstruct"] = None]
        /\ reachedWanted' = IF StepOfInterest \in {"slice", "reconstruct"}
                            THEN FALSE ELSE reachedWanted
        /\ UNCHANGED <<stage, work, kept>>
    BY DEF SlicerInv, updateCriterion, ResetResults, ResetReached, maximumNumberOfStepsPerFile
  <1>2. /\ results["parse"] # None
        /\ results["normalize"] # None
        /\ results["dataflow"] # None
        /\ DOMAIN results = StepNames
    <2>1. ResultsFollowCounter /\ stepCounter \in 0 .. 5 /\ DOMAIN results = StepNames
      BY <1>1 DEF SlicerInv, TypeOK, maximumNumberOfStepsPerSlice
    <2> QED
      BY <1>1, <2>1, FollowSpelledOut DEF ResultsFollowCounter
  <1>3. /\ \A step \in {"slice", "reconstruct"} : results'[step] = None
        /\ \A step \in {"parse", "normalize", "dataflow"} :
              results'[step] = results[step] /\ results[step] # None
    BY <1>1, <1>2 DEF StepNames
  <1>4. ResultsFollowCounter'
    <2>1. /\ results'["parse"] # None <=> 1 <= stepCounter'
          /\ results'["normalize"] # None <=> 2 <= stepCounter'
          /\ results'["dataflow"] # None <=> 3 <= stepCounter'
          /\ results'["slice"] # None <=> 4 <= stepCounter'
          /\ results'["reconstruct"] # None <=> 5 <= stepCounter'
      BY <1>1, <1>3
    <2> QED
      BY <2>1, FollowSpelledOut DEF ResultsFollowCounter
  <1>5. ResultsFitCriterion' /\ StageFits'
    BY <1>1, <1>3 DEF ResultsFitCriterion, StageFits, maximumNumberOfStepsPerFile
  <1>6. ReachedMeansWanted'
    <2>1. /\ reachedWanted <=> results[StepOfInterest] # None
          /\ stepCounter <= PositionOf(StepOfInterest)
      BY DEF SlicerInv, ReachedMeansWanted
    <2>2. stepCounter' <= PositionOf(StepOfInterest)
      <3>1. StepOfInterest \in StepNames /\ ResultsFollowCounter /\ stepCounter \in Nat
        BY <1>1 DEF SlicerInv, TypeOK, maximumNumberOfStepsPerSlice
      <3>2. PositionOf(StepOfInterest) \in 1 .. 5
        BY <3>1, PositionCounts
      <3> QED
        BY <1>1, <2>1, <3>1, <3>2
    <2>3. CASE StepOfInterest \in {"slice", "reconstruct"}
      BY <1>1, <1>3, <2>2, <2>3 DEF ReachedMeansWanted
    <2>4. CASE StepOfInterest \in {"parse", "normalize", "dataflow"}
      BY <1>1, <1>3, <2>1, <2>2, <2>4 DEF ReachedMeansWanted
    <2> QED
      BY <2>3, <2>4 DEF StepNames
  <1>7. TypeOK'
    <2>1. results' \in [StepNames -> Criteria \cup {None, ForFile}]
      BY <1>1 DEF TypeOK
    <2>2. reachedWanted' \in BOOLEAN
      BY <1>1 DEF TypeOK
    <2>3. stepCounter' \in 0 .. maximumNumberOfStepsPerSlice
      BY <1>1 DEF maximumNumberOfStepsPerSlice
    <2>4. stage' \in {"once-per-file", "once-per-slice"} /\ work' \in [Callers -> Work]
          /\ kept' \in Criteria \cup {None} /\ criterion' \in Criteria \cup {None}
      BY <1>1 DEF TypeOK
    <2> QED
      BY <2>1, <2>2, <2>3, <2>4 DEF TypeOK
  <1>8. WorkFits'
    BY <1>1 DEF WorkFits
  <1> QED
    BY <1>4, <1>5, <1>6, <1>7, <1>8 DEF SlicerInv

LEMMA SlicerInvariant ==
    ASSUME Awaited
    PROVE  Spec => []SlicerInv
  <1>1. SlicerInv /\ [Next]_vars => SlicerInv'
    <2> SUFFICES ASSUME SlicerInv, [Next]_vars
                 PROVE  SlicerInv'
      OBVIOUS
    <2>1. TypeOK /\ WorkFits /\ StageFits
      BY DEF SlicerInv
    <2>2. \A p \in Callers : work[p].op # "idle" =>
              \A q \in Callers : work[q].op # "idle" => q = p
      BY <2>1 DEF WorkFits
    <2>3. \A p \in Callers : MayCall =>
              \A q \in Callers : work[q].op # "idle" => q = p
      BY DEF MayCall
    <2>4. Idle = [op |-> "idle", step |-> None, value |-> None]
      BY DEF Idle
    <2>5. \A p \in Callers : work[p].step # None => work[p].op # "idle"
      BY <2>1 DEF WorkFits
    <2>6. ASSUME NEW p \in Callers, NextStep(p) PROVE SlicerInv'
      BY <2>3, <2>6, BeginStepKeepsInv DEF NextStep
    <2>7. ASSUME NEW p \in Callers, CommitStep(p) PROVE SlicerInv'
      BY <2>7, CommitStepKeepsInv
    <2>8. ASSUME NEW p \in Callers, FailStep(p) PROVE SlicerInv'
      <3>1. work[p].op # "idle"
        BY <2>5, <2>8 DEF FailStep
      <3> QED
        BY <2>1, <2>8, <3>1, IdleKeepsInv DEF FailStep, TypeOK
    <2>9. ASSUME NEW p \in Callers, NEW canSwitchStage \in BOOLEAN,
                 AllRemainingSteps(p, canSwitchStage)
          PROVE  SlicerInv'
      <3>1. StageFits' /\ work[p].step = None
        BY <2>1, <2>9 DEF AllRemainingSteps, StageFits, WorkFits
      <3> QED
        BY <2>1, <2>3, <2>9, <3>1, WorkStepKeepsInv DEF AllRemainingSteps, TypeOK
    <2>10. ASSUME NEW p \in Callers, LoopStep(p) PROVE SlicerInv'
      BY <2>1, <2>2, <2>10, BeginStepKeepsInv DEF LoopStep, AtLoopHead, WorkFits
    <2>11. ASSUME NEW p \in Callers, LoopFails(p) PROVE SlicerInv'
      <3>1. work[p].op # "idle"
        BY <2>11 DEF LoopFails, AtLoopHead
      <3> QED
        BY <2>1, <2>11, <3>1, IdleKeepsInv DEF LoopFails, TypeOK
    <2>12. ASSUME NEW p \in Callers, LoopSwitches(p) PROVE SlicerInv'
      <3>1. /\ work[p].op # "idle" /\ work[p].step = None
            /\ \A q \in Callers : work[q].op # "idle" => q = p
            /\ UNCHANGED <<stepCounter, reachedWanted, criterion, results, kept>>
            /\ kept' \in Criteria \cup {None}
        BY <2>1, <2>2, <2>12 DEF LoopSwitches, AtLoopHead, TypeOK
      <3>2. CASE stepCounter = maximumNumberOfStepsPerFile
        <4>1. /\ stage' = "once-per-slice"
              /\ work' = [work EXCEPT ![p].op = "switched"]
          BY <2>12, <3>2 DEF LoopSwitches
        <4>2. StageFits'
          BY <3>1, <3>2, <4>1 DEF StageFits, maximumNumberOfStepsPerFile
        <4> QED
          BY <3>1, <4>1, <4>2, WorkStepKeepsInv
      <3>3. CASE stepCounter # maximumNumberOfStepsPerFile
        BY <2>12, <3>1, <3>3, IdleKeepsInv DEF LoopSwitches
      <3> QED
        BY <3>2, <3>3
    <2>13. ASSUME NEW p \in Callers, LoopReturns(p) PROVE SlicerInv'
      <3>1. work[p].op # "idle" /\ kept' \in Criteria \cup {None}
        <4>1. results["slice"] \in Criteria \cup {None}
          BY <2>1 DEF SlicerInv, ResultsFitCriterion, TypeOK
        <4> QED
          BY <2>13, <4>1 DEF LoopReturns, AtLoopHead
      <3> QED
        BY <2>13, <3>1, IdleKeepsInv DEF LoopReturns
    <2>14. CASE switchToSliceStage
      <3>1. TypeOK' /\ StageFits'
        BY <2>1, <2>14
           DEF switchToSliceStage, TypeOK, StageFits, maximumNumberOfStepsPerFile
      <3>2. \A p \in Callers : work[p].op = "idle" /\ work[p].step = None
        BY <2>1, <2>14 DEF switchToSliceStage, MayCall, WorkFits
      <3>3. WorkFits'
        BY <2>1, <2>14, <3>2 DEF switchToSliceStage, WorkFits
      <3> QED
        BY <2>14, <3>1, <3>3
           DEF switchToSliceStage, SlicerInv, ResultsFollowCounter, ResultsFitCriterion,
               ReachedMeansWanted
    <2>15. ASSUME NEW newCriterion \in Criteria, updateCriterion(newCriterion)
           PROVE  SlicerInv'
      BY <2>15, UpdateCriterionKeepsInv DEF updateCriterion, MayCall
    <2>16. CASE UNCHANGED vars
      <3>1. TypeOK' /\ WorkFits'
        BY <2>1, <2>16 DEF vars, TypeOK, WorkFits, hasNextStep, StepsOfStage, CanCompute,
                           Upcoming, Computed
      <3> QED
        BY <2>16, <3>1, OnlyWorkChanges DEF vars
    <2> QED
      BY <2>6, <2>7, <2>8, <2>9, <2>10, <2>11, <2>12, <2>13, <2>14, <2>15, <2>16 DEF Next
  <1> QED
    BY <1>1, InitEstablishesInv, PTL DEF Spec

(* Awaited calls leave the slicer with exactly the results its counter says. *)
THEOREM ResultsAreConsistent ==
    ASSUME Awaited
    PROVE  Spec => []ResultsFollowCounter
  BY SlicerInvariant, PTL DEF SlicerInv

(* A slice and a reconstruction are always those of the current criterion,   *)
(* which updateCriterion may have replaced since.                            *)
THEOREM ResultsAreOfTheCriterion ==
    ASSUME Awaited
    PROVE  Spec => []ResultsFitCriterion
  BY SlicerInvariant, PTL DEF SlicerInv

(* getResults() finds the step of interest, and nothing beyond it was done.  *)
THEOREM ReachedIsRight ==
    ASSUME Awaited
    PROVE  Spec => []ReachedMeansWanted
  BY SlicerInvariant, PTL DEF SlicerInv

(* allRemainingSteps cannot run out of steps before the step of interest.    *)
THEOREM AllRemainingStepsReach ==
    ASSUME Awaited
    PROVE  Spec => []AllRemainingReaches
  <1>1. SlicerInv => AllRemainingReaches
    <2> SUFFICES ASSUME SlicerInv, NEW p \in Callers, AtLoopHead(p), ~ hasNextStep,
                        work[p].op \in {"switch", "switched"}, ~ reachedWanted
                 PROVE  MustSwitch(p) /\ stepCounter = maximumNumberOfStepsPerFile
      BY DEF AllRemainingReaches
    <2> USE SlicerAssumption DEF SlicerInv, maximumNumberOfStepsPerFile,
                                 maximumNumberOfStepsPerSlice
    <2>1. stepCounter >= StepsOfStage /\ stepCounter \in 0 .. 5
      BY DEF hasNextStep, TypeOK, StepsOfStage
    <2>2. CASE stage = "once-per-slice"
      <3>1. stepCounter = 5 /\ results[StepOfInterest] = None
        BY <2>1, <2>2 DEF StepsOfStage, ReachedMeansWanted
      <3> QED
        BY <3>1, PositionCounts
    <2>3. CASE stage = "once-per-file"
      <3>1. stepCounter = 3
        BY <2>1, <2>3 DEF StepsOfStage, StageFits
      <3>2. work[p].op = "switch"
        BY <2>3 DEF WorkFits
      <3> QED
        BY <2>3, <3>1, <3>2 DEF MustSwitch
    <2> QED
      BY <2>2, <2>3 DEF TypeOK
  <1> QED
    BY <1>1, SlicerInvariant, PTL

=============================================================================
