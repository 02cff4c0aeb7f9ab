---------------------------- MODULE SteppingSlicer ----------------------------
(***************************************************************************)
(* SteppingSlicer (src/core/slicer.ts): runs the five steps of a slice one *)
(* after the other, the first three once per file, the last two once per   *)
(* slicing criterion. nextStep is asynchronous: it computes a step from    *)
(* the results it sees when it is called, and stores the result later.     *)
(*                                                                         *)
(* A result is represented by what it was computed for: the file, or the   *)
(* criterion.                                                              *)
(***************************************************************************)
EXTENDS Naturals, Sequences

CONSTANTS
    Callers,         \* parts of the program that use the slicer
    Criteria,        \* slicing criteria
    StepOfInterest,  \* the last step wanted
    Awaited          \* does the program await each call before the next?

Steps == <<"parse", "normalize", "dataflow", "slice", "reconstruct">>
StepNames == {"parse", "normalize", "dataflow", "slice", "reconstruct"}

maximumNumberOfStepsPerFile == 3
maximumNumberOfStepsPerSlice == 5

None == "none"    \* undefined
ForFile == "file" \* a result that depends on the file only

ASSUME SlicerAssumption ==
    /\ StepOfInterest \in StepNames
    /\ Awaited \in BOOLEAN
    /\ None \notin Criteria /\ ForFile \notin Criteria

VARIABLES
    stage,          \* "once-per-file" or "once-per-slice"
    stepCounter,    \* number of steps done
    reachedWanted,  \* whether the step of interest is done
    criterion,      \* the criterion of the next slice, or None
    results,        \* of every step: what its result was computed for, or None
    work,           \* of every caller: the call in progress and its step
    kept            \* the slice in the object the last allRemainingSteps returned

vars == <<stage, stepCounter, reachedWanted, criterion, results, work, kept>>

Idle == [op |-> "idle", step |-> None, value |-> None]

-----------------------------------------------------------------------------
(* Plausible slips in the slicer, used to test the properties.              *)

ResetNothing == results

ResetOfSliceOnly == [results EXCEPT !["slice"] = None]

ReachedKept == reachedWanted

StepsOfStageButOne == IF stage = "once-per-file" THEN 3 ELSE 4

CountForgotten == stepCounter

-----------------------------------------------------------------------------
Init ==
    /\ stage = "once-per-file"
    /\ stepCounter = 0
    /\ reachedWanted = FALSE
    /\ criterion \in Criteria \cup {None}
    /\ results = [step \in StepNames |-> None]
    /\ work = [p \in Callers |-> Idle]
    /\ kept = None

(* With Awaited, nothing is called while a call is in progress. *)
MayCall == Awaited => \A p \in Callers : work[p].op = "idle"

(* The steps the current stage may do. *)
StepsOfStage ==
    IF stage = "once-per-file" THEN maximumNumberOfStepsPerFile
                               ELSE maximumNumberOfStepsPerSlice

hasNextStep == ~ reachedWanted /\ stepCounter < StepsOfStage

Upcoming == Steps[stepCounter + 1]

(* What doNextStep computes the upcoming step for. *)
Computed ==
    CASE Upcoming = "slice" -> criterion
      [] Upcoming = "reconstruct" -> results["slice"]
      [] OTHER -> ForFile

(* Slicing needs a criterion: doNextStep fails without one. *)
CanCompute == Upcoming = "slice" => criterion # None

Wanted(step) == step = StepOfInterest

Counted == stepCounter + 1

(* nextStep up to its await. *)
BeginStep(p, op) ==
    /\ hasNextStep
    /\ CanCompute
    /\ work' = [work EXCEPT ![p] = [op |-> op, step |-> Upcoming, value |-> Computed]]
    /\ UNCHANGED <<stage, stepCounter, reachedWanted, criterion, results, kept>>

NextStep(p) ==
    /\ work[p].op = "idle"
    /\ MayCall
    /\ BeginStep(p, "next")

(* nextStep after its await. *)
CommitStep(p) ==
    /\ work[p].step # None
    /\ results' = [results EXCEPT ![work[p].step] = work[p].value]
    /\ stepCounter' = Counted
    /\ reachedWanted' = (reachedWanted \/ Wanted(work[p].step))
    /\ work' = [work EXCEPT ![p] = IF @.op = "next" THEN Idle
                                   ELSE [@ EXCEPT !.step = None, !.value = None]]
    /\ UNCHANGED <<stage, criterion, kept>>

(* The step throws (R cannot parse the file, the criterion names nothing,   *)
(* ...), and with it the call that needed it.                               *)
FailStep(p) ==
    /\ work[p].step # None
    /\ work' = [work EXCEPT ![p] = Idle]
    /\ UNCHANGED <<stage, stepCounter, reachedWanted, criterion, results, kept>>

(* allRemainingSteps(canSwitchStage): op is "switch", "stay" or "switched". *)
AllRemainingSteps(p, canSwitchStage) ==
    /\ work[p].op = "idle"
    /\ MayCall
    /\ work' = [work EXCEPT ![p].op = IF canSwitchStage THEN "switch" ELSE "stay"]
    /\ UNCHANGED <<stage, stepCounter, reachedWanted, criterion, results, kept>>

AtLoopHead(p) == work[p].op \in {"switch", "stay", "switched"} /\ work[p].step = None

(* One round of its loops: the next step, or the slice without a criterion. *)
LoopStep(p) == AtLoopHead(p) /\ BeginStep(p, work[p].op)

LoopFails(p) ==
    /\ AtLoopHead(p)
    /\ hasNextStep
    /\ ~ CanCompute
    /\ work' = [work EXCEPT ![p] = Idle]
    /\ UNCHANGED <<stage, stepCounter, reachedWanted, criterion, results, kept>>

(* After the first loop: switch, and go on with the second. *)
MustSwitch(p) == work[p].op = "switch" /\ ~ reachedWanted /\ stage = "once-per-file"

LoopSwitches(p) ==
    /\ AtLoopHead(p)
    /\ ~ hasNextStep
    /\ MustSwitch(p)
    /\ IF stepCounter = maximumNumberOfStepsPerFile
       THEN /\ stage' = "once-per-slice"
            /\ work' = [work EXCEPT ![p].op = "switched"]
       ELSE /\ work' = [work EXCEPT ![p] = Idle]    \* the guard throws
            /\ UNCHANGED stage
    /\ UNCHANGED <<stepCounter, reachedWanted, criterion, results, kept>>

(* Return the results object: the caller finds its slice in it. *)
LoopReturns(p) ==
    /\ AtLoopHead(p)
    /\ ~ hasNextStep
    /\ ~ MustSwitch(p)
    /\ work' = [work EXCEPT ![p] = Idle]
    /\ kept' = results["slice"]
    /\ UNCHANGED <<stage, stepCounter, reachedWanted, criterion, results>>

switchToSliceStage ==
    /\ MayCall
    /\ stepCounter = maximumNumberOfStepsPerFile
    /\ stage = "once-per-file"
    /\ stage' = "once-per-slice"
    /\ UNCHANGED <<stepCounter, reachedWanted, criterion, results, work, kept>>

(* updateCriterion forgets the results per slice ... *)
ResetResults == [results EXCEPT !["slice"] = None, !["reconstruct"] = None]

(* ... and whether the step of interest is done, if it is one of those.     *)
ResetReached ==
    IF StepOfInterest \in {"slice", "reconstruct"} THEN FALSE ELSE reachedWanted

updateCriterion(newCriterion) ==
    /\ MayCall
    /\ stepCounter >= maximumNumberOfStepsPerFile
    /\ criterion' = newCriterion
    /\ stepCounter' = maximumNumberOfStepsPerFile
    /\ results' = ResetResults
    /\ reachedWanted' = ResetReached
    /\ UNCHANGED <<stage, work, kept>>

Next ==
    \/ \E p \in Callers :
          \/ NextStep(p)
          \/ CommitStep(p)
          \/ FailStep(p)
          \/ \E canSwitchStage \in BOOLEAN : AllRemainingSteps(p, canSwitchStage)
          \/ LoopStep(p)
          \/ LoopFails(p)
          \/ LoopSwitches(p)
          \/ LoopReturns(p)
    \/ switchToSliceStage
    \/ \E newCriterion \in Criteria : updateCriterion(newCriterion)

Spec == Init /\ [][Next]_vars

(* The microtask queue runs every continuation; every step ends. *)
Fairness ==
    \A p \in Callers :
        WF_vars(\/ CommitStep(p) \/ FailStep(p)
                \/ LoopStep(p) \/ LoopFails(p) \/ LoopSwitches(p) \/ LoopReturns(p))

FairSpec == Spec /\ Fairness

-----------------------------------------------------------------------------
PositionOf(step) ==
    CASE step = "parse" -> 1
      [] step = "normalize" -> 2
      [] step = "dataflow" -> 3
      [] step = "slice" -> 4
      [] step = "reconstruct" -> 5

Work == [op : {"idle", "next", "switch", "stay", "switched"},
         step : StepNames \cup {None},
         value : Criteria \cup {None, ForFile}]

(* Type invariant of the slicer's fields and of the calls in progress. *)
TypeOK ==
    /\ stage \in {"once-per-file", "once-per-slice"}
    /\ stepCounter \in 0 .. maximumNumberOfStepsPerSlice
    /\ reachedWanted \in BOOLEAN
    /\ criterion \in Criteria \cup {None}
    /\ results \in [StepNames -> Criteria \cup {None, ForFile}]
    /\ work \in [Callers -> Work]
    /\ kept \in Criteria \cup {None}

(* The results that exist are exactly those of the steps counted as done: no *)
(* step is skipped, repeated without need, or kept from an earlier slice.    *)
ResultsFollowCounter ==
    \A i \in 1 .. 5 : results[Steps[i]] # None <=> i <= stepCounter

(* A slice and its reconstruction belong to the criterion in force.          *)
ResultsFitCriterion ==
    \A step \in {"slice", "reconstruct"} : results[step] \in {None, criterion}

(* getResults() hands out results only if the step of interest is among them,*)
(* and nothing beyond it has been computed.                                  *)
ReachedMeansWanted ==
    /\ reachedWanted <=> results[StepOfInterest] # None
    /\ stepCounter <= PositionOf(StepOfInterest)

(* Where allRemainingSteps (with the switch allowed) has nothing left to do, *)
(* it has reached the step of interest, so its getResults() does not fail.   *)
AllRemainingReaches ==
    \A p \in Callers :
        /\ AtLoopHead(p)
        /\ work[p].op \in {"switch", "switched"}
        /\ ~ hasNextStep
        => reachedWanted \/ (MustSwitch(p) /\ stepCounter = maximumNumberOfStepsPerFile)

(* Every call returns, with a result or an error.                            *)
CallsReturn == \A p \in Callers : (work[p].op # "idle") ~> (work[p].op = "idle")

(* The results a caller was given keep holding the slice it asked for (the   *)
(* usage example of the class keeps one result per criterion).               *)
GivenResultsStay == kept # None => results["slice"] = kept

=============================================================================
