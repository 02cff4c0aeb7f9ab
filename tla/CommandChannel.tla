----------------------------- MODULE CommandChannel -----------------------------
(***************************************************************************)
(* What a caller of RShell.sendCommandWithOutput (src/r-bridge/shell.ts)   *)
(* may rely on when it awaits each call before the next: a call is         *)
(* answered with exactly the lines its command printed, or, when the R     *)
(* process ends meanwhile, with a prefix of them. Once a call has run into *)
(* the timeout, the R process it was sent to owes an answer nobody waits   *)
(* for, and the answers of later calls are not to be relied on ("stale").  *)
(***************************************************************************)
EXTENDS Naturals, Sequences

CONSTANTS
    Calls,      \* identities of the calls
    Output(_)   \* the lines the command of a call prints

VARIABLES
    status,     \* of each call: "idle", "pending" or how it was settled
    answer      \* the lines each call was answered with

vars == <<status, answer>>

Init ==
    /\ status = [c \in Calls |-> "idle"]
    /\ answer = [c \in Calls |-> <<>>]

(* sendCommandWithOutput is called while no other call is pending. *)
Ask(c) ==
    /\ status[c] = "idle"
    /\ \A d \in Calls : status[d] # "pending"
    /\ status' = [status EXCEPT ![c] = "pending"]
    /\ UNCHANGED answer

(* The promise resolves with the output of the command. *)
Answer(c) ==
    /\ status[c] = "pending"
    /\ status' = [status EXCEPT ![c] = "answered"]
    /\ answer' = [answer EXCEPT ![c] = Output(c)]

(* The promise resolves early, because the session ended. *)
CutOff(c) ==
    /\ status[c] = "pending"
    /\ status' = [status EXCEPT ![c] = "cutoff"]
    /\ \E n \in 0 .. Len(Output(c)) :
          answer' = [answer EXCEPT ![c] = SubSeq(Output(c), 1, n)]

(* The promise rejects, because R takes too long. *)
TimeOut(c) ==
    /\ status[c] = "pending"
    /\ status' = [status EXCEPT ![c] = "timedout"]
    /\ UNCHANGED answer

(* The promise resolves with what is owed to an earlier call. *)
AnswerStale(c) ==
    /\ status[c] = "pending"
    /\ \E d \in Calls : status[d] = "timedout"
    /\ status' = [status EXCEPT ![c] = "stale"]
    /\ UNCHANGED answer

Settle(c) == Answer(c) \/ CutOff(c) \/ TimeOut(c) \/ AnswerStale(c)

Next == \E c \in Calls : Ask(c) \/ Settle(c)

(* What a call gets, if it gets anything. *)
Safety == Init /\ [][Next]_vars

Spec == Safety /\ \A c \in Calls : WF_vars(Settle(c))

=============================================================================
