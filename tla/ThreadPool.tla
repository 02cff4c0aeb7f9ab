------------------------------ MODULE ThreadPool ------------------------------
(***************************************************************************)
(* LimitedThreadPool (src/util/parallel.ts): runs a helper script in a     *)
(* child process once for every argument list of a queue, at most Parallel *)
(* children at a time, until Limit of them have exited successfully.       *)
(*                                                                         *)
(* The queue is only ever popped from its end, so the argument lists are   *)
(* numbered 1..QueueLength and the queue is the number of those left.      *)
(***************************************************************************)
EXTENDS Naturals, FiniteSets

CONSTANTS
    QueueLength,  \* number of argument lists given to the constructor
    Limit,        \* successful exits to stop after
    Parallel      \* most children at a time

ASSUME PoolAssumption ==
    /\ QueueLength \in Nat
    /\ Limit \in Nat
    /\ Parallel \in Nat \ {0}

VARIABLES
    workingQueue,      \* argument lists still to run: 1..workingQueue
    currentlyRunning,  \* argument lists with a live child process
    counter,           \* children that exited with code 0
    skipped,           \* argument lists whose child failed
    phase              \* of run(): "constructed", "waiting" on the promises, "done"

vars == <<workingQueue, currentlyRunning, counter, skipped, phase>>

Args == 1 .. QueueLength

Lesser(a, b) == IF a <= b THEN a ELSE b

-----------------------------------------------------------------------------
(* Plausible slips in runNext and onChildExit, used to test the properties. *)

StopTestIgnoringRunning(successes, running, left) ==
    successes >= Limit \/ left <= 0

StopTestOffByOne(successes, running, left) ==
    successes + Cardinality(running) >= Limit - 1 \/ left <= 0

RunNextWithoutPop(successes, running) ==
    /\ currentlyRunning' = IF successes + Cardinality(running) >= Limit \/ workingQueue <= 0
                           THEN running
                           ELSE running \cup {workingQueue}
    /\ UNCHANGED workingQueue

FinishOnlyAtLimit ==
    /\ phase = "waiting"
    /\ counter = Limit
    /\ phase' = "done"
    /\ UNCHANGED <<workingQueue, currentlyRunning, counter, skipped>>

-----------------------------------------------------------------------------
(* The early return of runNext. *)
MustStop(successes, running, left) ==
    successes + Cardinality(running) >= Limit \/ left <= 0

Succeeded(code) == code = 0

Init ==
    /\ workingQueue = QueueLength
    /\ currentlyRunning = {}
    /\ counter = 0
    /\ skipped = {}
    /\ phase = "constructed"

(* How many children the loop of run() forks: no child can exit in between. *)
InitialBatch == Lesser(Lesser(Parallel, Limit), QueueLength)

(* run(): the synchronous loop that forks the first children. *)
Run ==
    /\ phase = "constructed"
    /\ workingQueue' = QueueLength - InitialBatch
    /\ currentlyRunning' = (QueueLength - InitialBatch + 1) .. QueueLength
    /\ phase' = "waiting"
    /\ UNCHANGED <<counter, skipped>>

(* runNext() after the exit of a child left counter and currentlyRunning at *)
(* the given values: return early, or pop an argument list and fork it.     *)
RunNext(successes, running) ==
    \/ /\ MustStop(successes, running, workingQueue)
       /\ currentlyRunning' = running
       /\ UNCHANGED workingQueue
    \/ /\ ~ MustStop(successes, running, workingQueue)
       /\ currentlyRunning' = running \cup {workingQueue}
       /\ workingQueue' = workingQueue - 1

(* The exit event of the child of args: both listeners run, then the        *)
(* continuation of the promise calls runNext before any other event.        *)
ChildExit(args, code) ==
    /\ args \in currentlyRunning
    /\ IF Succeeded(code)
       THEN /\ counter' = counter + 1
            /\ UNCHANGED skipped
       ELSE /\ skipped' = skipped \cup {args}
            /\ UNCHANGED counter
    /\ RunNext(counter', currentlyRunning \ {args})
    /\ UNCHANGED phase

(* Promise.all resolves once no chain of children is left. *)
Finish ==
    /\ phase = "waiting"
    /\ currentlyRunning = {}
    /\ phase' = "done"
    /\ UNCHANGED <<workingQueue, currentlyRunning, counter, skipped>>

Next ==
    \/ Run
    \/ \E args \in Args, code \in {0, 1} : ChildExit(args, code)
    \/ Finish

Spec == Init /\ [][Next]_vars

(* The scripts the pool runs terminate, and the event loop runs what is due. *)
Fairness ==
    /\ WF_vars(Run)
    /\ WF_vars(Finish)
    /\ \A args \in Args : WF_vars(\E code \in {0, 1} : ChildExit(args, code))

FairSpec == Spec /\ Fairness

-----------------------------------------------------------------------------
(* Type invariant of the pool's fields. *)
TypeOK ==
    /\ workingQueue \in 0 .. QueueLength
    /\ currentlyRunning \subseteq Args
    /\ counter \in Nat
    /\ skipped \subseteq Args
    /\ phase \in {"constructed", "waiting", "done"}

(* No argument list is lost or run twice: what left the queue is running,    *)
(* counted as a success, or recorded as skipped, and in exactly one of them. *)
EveryRunAccountedFor ==
    /\ currentlyRunning \cap skipped = {}
    /\ \A args \in currentlyRunning \cup skipped : args > workingQueue
    /\ workingQueue + Cardinality(currentlyRunning) + Cardinality(skipped) + counter
         = QueueLength

(* A chain of children that ends because the limit looked covered is never   *)
(* missed later: while argument lists are left, exactly as many children run *)
(* as the parallelism and the successes still needed allow. (runNext drops a *)
(* chain for good when it returns early, although a running child may fail.) *)
WorkConserving ==
    phase # "constructed" /\ workingQueue > 0 =>
        Cardinality(currentlyRunning) = Lesser(Parallel, Limit - counter)

(* The limit counts successes and is never exceeded, not even by children    *)
(* that are still running; the parallel bound holds as well.                 *)
LimitsRespected ==
    /\ counter + Cardinality(currentlyRunning) <= Limit
    /\ Cardinality(currentlyRunning) <= Parallel

(* run() resolves only when the limit is reached or everything was tried.    *)
DoneMeansServed ==
    phase = "done" => currentlyRunning = {} /\ (counter = Limit \/ workingQueue = 0)

(* run() resolves, if every child process exits.                             *)
EventuallyDone == <>(phase = "done")

=============================================================================
