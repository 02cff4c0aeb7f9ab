-------------------------------- MODULE RShell --------------------------------
(***************************************************************************)
(* RShell and RShellSession (src/r-bridge/shell.ts): one interactive R     *)
(* process, driven by writing lines to its stdin. A command with output    *)
(* is followed by a line that prints the postamble; every collector of the *)
(* session hears every line and stops at the first postamble.              *)
(*                                                                         *)
(* One action is one macrotask of the event loop with the microtasks it    *)
(* leaves behind, one step of the R process, or one call of the program.   *)
(***************************************************************************)
EXTENDS Naturals, Sequences, FiniteSets

CONSTANTS
    Calls,          \* identities of the calls of sendCommandWithOutput
    StderrCalls,    \* those that collect from 'stderr'
    BothCalls,      \* those that collect from 'both'; the others from 'stdout'
    VersionCalls,   \* those made by usedRVersion
    TmpDirCalls,    \* those made by obtainTmpDir
    OutLines,       \* lines every command prints to stdout
    ErrLines,       \* lines every command prints to stderr
    Revive,         \* options.revive
    MaxOpen,        \* most calls in progress at a time (1: the program awaits each)
    TimeoutsFire,   \* may R take longer than the collection timeout?
    MaxCrashes,     \* bound on the R processes that end by themselves
    MayClose        \* does the program call close()?

ASSUME ShellAssumption ==
    /\ StderrCalls \cup BothCalls \cup VersionCalls \cup TmpDirCalls \subseteq Calls
    /\ {OutLines, ErrLines, MaxOpen, MaxCrashes} \subseteq Nat
    /\ Revive \in {"never", "on-error", "always"}
    /\ {TimeoutsFire, MayClose} \subseteq BOOLEAN

None == "none"        \* no timer, no version, no element of an empty array
ASSUME NoCallIsNone == None \notin Calls

VARIABLES
    session,       \* this.session: the number of the session in use
    proc,          \* the sessions: R process, pipes, and fields of RShellSession
    coll,          \* the collectors: progress and result of each call
    started,       \* calls in the order in which their collectors registered
    strays,        \* owners of armed timers that no field refers to any more
    versionCache,  \* call whose output is cached as the version of R
    tempDirs,      \* calls whose output is recorded as a temporary directory
    closing        \* of close(): "open", "closed", or "threw"

vars == <<session, proc, coll, started, strays, versionCache, tempDirs, closing>>

(* A crash, and the kill by close(), may be answered by two revivals.        *)
Sessions == 1 .. 1 + 2 * (MaxCrashes + 1)

Streams == {"stdout", "stderr"}

Own(c) == [i \in 1 .. OutLines |-> [call |-> c, stream |-> "stdout", nr |-> i]]
OwnErr(c) == [i \in 1 .. ErrLines |-> [call |-> c, stream |-> "stderr", nr |-> i]]
Postamble(c) == [call |-> c, stream |-> "postamble", nr |-> 0]

IsPostamble(line) == line.stream = "postamble"

(* The lines a handler pushes: all but the postambles.                       *)
KeptLines(lines) ==
    LET kept[n \in 0 .. Len(lines)] ==
            IF n = 0 THEN <<>>
            ELSE IF IsPostamble(lines[n]) THEN kept[n - 1]
                 ELSE Append(kept[n - 1], lines[n])
    IN  kept[Len(lines)]

Open == {c \in Calls : coll[c].state = "collecting"}

Crashed == {s \in Sessions : proc[s].code \in {"zero", "nonzero"}}

(* The element of S whose collector registered last. *)
Latest(S) ==
    LET last == CHOOSE i \in 1 .. Len(started) :
                    /\ started[i] \in S
                    /\ \A j \in i + 1 .. Len(started) : started[j] \notin S
    IN  started[last]

Unborn == [status |-> "unborn", code |-> None, stdin |-> <<>>, stdout |-> <<>>,
           stderr |-> <<>>, timer |-> None, broken |-> FALSE, erred |-> FALSE,
           exited |-> FALSE, ended |-> FALSE]

(* new RShellSession: spawn R. *)
NewSession == [Unborn EXCEPT !.status = "running"]

Init ==
    /\ session = 1
    /\ proc = [s \in Sessions |-> IF s = 1 THEN NewSession ELSE Unborn]
    /\ coll = [c \in Calls |-> [state |-> "idle", on |-> 0, result |-> <<>>]]
    /\ started = <<>>
    /\ strays = {}
    /\ versionCache = None
    /\ tempDirs = {}
    /\ closing = "open"

-----------------------------------------------------------------------------
(* Plausible slips in the shell, used to test the properties.               *)

RequestPostambleFirst(c) ==
    << [call |-> c, what |-> "postamble"], [call |-> c, what |-> "command"] >>

CollectedLastChunk(collector, lines) ==
    [collector EXCEPT
        !.result = KeptLines(lines),
        !.state = IF \E i \in 1 .. Len(lines) : IsPostamble(lines[i])
                  THEN "answered" ELSE @]

TimerStaysArmed(old, hearers, lines) ==
    IF hearers = {} THEN old ELSE Latest(hearers)

TimerNotRearmed(old, hearers, lines) ==
    IF hearers = {} THEN old ELSE None

NobodyCutOff(s) == {}

RevivesOnErrorOnly(code) == code # "zero"

-----------------------------------------------------------------------------
(* The R process: it executes what it reads from stdin, line by line.       *)

RExecute(s) ==
    /\ proc[s].status \in {"running", "killed"}
    /\ proc[s].stdin # <<>>
    /\ LET line == Head(proc[s].stdin)
           c == line.call
       IN  proc' = [proc EXCEPT
                      ![s].stdin = Tail(@),
                      ![s].stdout = CASE line.what = "command" -> @ \o Own(c)
                                      [] line.what = "postamble" /\ c \notin StderrCalls
                                           -> Append(@, Postamble(c))
                                      [] OTHER -> @,
                      ![s].stderr = CASE line.what = "command" -> @ \o OwnErr(c)
                                      [] line.what = "postamble" /\ c \in StderrCalls
                                           -> Append(@, Postamble(c))
                                      [] OTHER -> @]
    /\ UNCHANGED <<session, coll, started, strays, versionCache, tempDirs, closing>>

(* The process ends, by itself or by the kill, perhaps in mid-command. *)
RDies(s, code) ==
    /\ \/ /\ proc[s].status = "running"
          /\ code \in {"zero", "nonzero"}
          /\ Cardinality(Crashed) < MaxCrashes
       \/ /\ proc[s].status = "killed"
          /\ code = "signal"
    /\ \E k \in 0 .. OutLines :
          /\ k > 0 => proc[s].stdin # <<>> /\ Head(proc[s].stdin).what = "command"
          /\ proc' = [proc EXCEPT
                        ![s].status = "dead",
                        ![s].code = code,
                        ![s].stdin = <<>>,
                        ![s].stdout = IF k = 0 THEN @
                                      ELSE @ \o SubSeq(Own(Head(proc[s].stdin).call), 1, k)]
    /\ UNCHANGED <<session, coll, started, strays, versionCache, tempDirs, closing>>

-----------------------------------------------------------------------------
(* The continuations of usedRVersion and obtainTmpDir, run as soon as the   *)
(* promises of the calls in settled resolve.                                *)
Continue(settled) ==
    /\ versionCache' =
          IF settled \cap VersionCalls = {} THEN versionCache
          ELSE LET answer == coll'[Latest(settled \cap VersionCalls)].result
               IN  IF answer = <<>> THEN None ELSE answer[1].call
    /\ tempDirs' = tempDirs \cup
          {IF coll'[c].result = <<>> THEN None ELSE coll'[c].result[1].call :
              c \in settled \cap TmpDirCalls}

(* write(): a process that is gone breaks the pipe, unless Node destroyed   *)
(* the stream already.                                                      *)
Write(p, lines) ==
    IF p.status = "dead"
    THEN [p EXCEPT !.broken = @ \/ ~ (p.exited \/ p.erred)]
    ELSE [p EXCEPT !.stdin = @ \o lines]

(* What is written for one call: the command, then the line that prints the  *)
(* postamble.                                                                *)
Request(c) ==
    << [call |-> c, what |-> "command"], [call |-> c, what |-> "postamble"] >>

(* sendCommandWithOutput: install the collector on the current session and  *)
(* write the request. usedRVersion asks only while no version is cached.    *)
SendCommandWithOutput(c) ==
    /\ coll[c].state = "idle"
    /\ Cardinality(Open) < MaxOpen
    /\ c \in VersionCalls => versionCache = None
    /\ coll' = [coll EXCEPT ![c] = [state |-> "collecting", on |-> session, result |-> <<>>]]
    /\ started' = Append(started, c)
    /\ strays' = strays \cup ({proc[session].timer} \ {None})
    /\ proc' = [proc EXCEPT ![session] =
                  [Write(@, Request(c)) EXCEPT !.timer = c]]
    /\ UNCHANGED <<session, versionCache, tempDirs, closing>>

ListensTo(c, stream) ==
    \/ c \in BothCalls
    \/ stream = "stderr" /\ c \in StderrCalls
    \/ stream = "stdout" /\ c \notin StderrCalls

Hearers(s, stream) == {c \in Open : coll[c].on = s /\ ListensTo(c, stream)}

(* What the handlers leave in collectionTimeout after a chunk of lines: each *)
(* line clears it, and a line that is no postamble arms it again.            *)
TimerAfter(old, hearers, lines) ==
    CASE hearers = {} -> old
      [] hearers # {} /\ IsPostamble(lines[Len(lines)]) -> None
      [] OTHER -> Latest(hearers)

(* A collector after a chunk: the listeners are removed by a microtask, so   *)
(* lines that follow the postamble in the same chunk are still pushed.       *)
Collected(collector, lines) ==
    [collector EXCEPT
        !.result = @ \o KeptLines(lines),
        !.state = IF \E i \in 1 .. Len(lines) : IsPostamble(lines[i])
                  THEN "answered" ELSE @]

(* The 'data' event of a stream: readline emits the lines of the chunk. *)
Deliver(s, stream) ==
    /\ ~ proc[s].ended
    /\ \E n \in 1 .. Len(proc[s][stream]) :
          LET lines == SubSeq(proc[s][stream], 1, n)
              hearers == Hearers(s, stream)
          IN  /\ coll' = [c \in Calls |-> IF c \in hearers THEN Collected(coll[c], lines)
                                                            ELSE coll[c]]
              /\ proc' = [proc EXCEPT
                            ![s][stream] = SubSeq(@, n + 1, Len(@)),
                            ![s].timer = TimerAfter(@, hearers, lines)]
              /\ Continue({c \in hearers : coll'[c].state = "answered"})
    /\ UNCHANGED <<session, started, strays, closing>>

(* A timer of call c expires: its promise rejects unless it is settled. *)
TimerFires(c) ==
    /\ TimeoutsFire
    /\ \/ /\ c \in strays
          /\ strays' = strays \ {c}
          /\ UNCHANGED proc
       \/ \E s \in Sessions :
             /\ proc[s].timer = c
             /\ proc' = [proc EXCEPT ![s].timer = None]
             /\ UNCHANGED strays
    /\ coll' = [coll EXCEPT ![c].state = IF @ = "collecting" THEN "timedout" ELSE @]
    /\ UNCHANGED <<session, started, versionCache, tempDirs, closing>>

(* RShellSession.end: kill the process, clear the timer, close the streams. *)
End(p) == [p EXCEPT !.status = IF @ = "running" THEN "killed" ELSE @,
                    !.timer = None,
                    !.ended = TRUE]

RevivesOn(code) ==
    \/ Revive = "always"
    \/ Revive = "on-error" /\ code # "zero"

Spawned == {s \in Sessions : proc[s].status # "unborn"}

(* The calls whose error handler hears the end of session s. *)
CutOffBy(s) == {c \in Open : coll[c].on = s}

(* The callbacks registered by onExit, in order: end(), the revival, and the *)
(* error handler of every collector of this session. p is what is known of   *)
(* the session by then.                                                      *)
OnExit(s, code, p) ==
    /\ coll' = [c \in Calls |-> IF c \in CutOffBy(s)
                                THEN [coll[c] EXCEPT !.state = "cutoff"]
                                ELSE coll[c]]
    /\ IF RevivesOn(code)
       THEN LET next == Cardinality(Spawned) + 1
            IN  /\ proc' = [proc EXCEPT ![s] = End(p), ![next] = NewSession]
                /\ session' = next
       ELSE /\ proc' = [proc EXCEPT ![s] = End(p)]
            /\ UNCHANGED session
    /\ Continue(CutOffBy(s))
    /\ UNCHANGED <<started, strays, closing>>

(* The 'exit' event of the R process of session s. *)
ExitEvent(s) ==
    /\ proc[s].status = "dead"
    /\ ~ proc[s].exited
    /\ ~ proc[s].broken    \* the error of a failed write is emitted first
    /\ OnExit(s, proc[s].code, [proc[s] EXCEPT !.exited = TRUE])

(* The 'error' event of stdin after a write to a process that is gone. *)
StdinError(s) ==
    /\ proc[s].broken
    /\ OnExit(s, "error", [proc[s] EXCEPT !.erred = TRUE, !.broken = FALSE])

(* close(): rmSync throws on the undefined directory of an empty answer,    *)
(* before the session is ended.                                             *)
Close ==
    /\ MayClose
    /\ closing = "open"
    /\ IF None \in tempDirs
       THEN /\ closing' = "threw"
            /\ UNCHANGED proc
       ELSE /\ closing' = "closed"
            /\ proc' = [proc EXCEPT ![session] = End(@)]
    /\ UNCHANGED <<session, coll, started, strays, versionCache, tempDirs>>

Next ==
    \/ \E c \in Calls : SendCommandWithOutput(c) \/ TimerFires(c)
    \/ \E s \in Sessions :
          \/ RExecute(s)
          \/ \E code \in {"zero", "nonzero", "signal"} : RDies(s, code)
          \/ \E stream \in Streams : Deliver(s, stream)
          \/ ExitEvent(s)
          \/ StdinError(s)
    \/ Close

Spec == Init /\ [][Next]_vars

(* The event loop delivers what is due and a killed process ends. Nothing is *)
(* promised by R itself: it may compute, or wait for input, for ever.        *)
EventLoopFairness ==
    /\ \A s \in Sessions :
          /\ \A stream \in Streams : WF_vars(Deliver(s, stream))
          /\ WF_vars(ExitEvent(s))
          /\ WF_vars(StdinError(s))
          /\ WF_vars(RDies(s, "signal"))
    /\ \A c \in Calls : WF_vars(TimerFires(c))

FairSpec == Spec /\ EventLoopFairness

(* R gets round to every command, as it does for the commands flowR sends. *)
ResponsiveSpec == FairSpec /\ \A s \in Sessions : WF_vars(RExecute(s))

-----------------------------------------------------------------------------
Lines == [call : Calls, stream : Streams, nr : 1 .. OutLines + ErrLines]

(* Type invariant of the shell, its sessions and its collectors. *)
TypeOK ==
    /\ session \in Spawned
    /\ \A s \in Sessions :
          /\ proc[s].status \in {"unborn", "running", "killed", "dead"}
          /\ proc[s].timer \in Calls \cup {None}
          /\ \A i \in 1 .. Len(proc[s].stdin) : proc[s].stdin[i].call \in Calls
    /\ \A c \in Calls :
          /\ coll[c].state \in {"idle", "collecting", "answered", "cutoff", "timedout"}
          /\ \A i \in 1 .. Len(coll[c].result) : coll[c].result[i] \in Lines
    /\ strays \subseteq Calls
    /\ versionCache \in Calls \cup {None}
    /\ tempDirs \subseteq Calls \cup {None}

Answered == {c \in Calls : coll[c].state = "answered"}

(* A command is answered with exactly the lines it printed to the stream     *)
(* collected from.                                                           *)
AnswersAreOwn ==
    \A c \in Answered :
        coll[c].result = IF c \in StderrCalls THEN OwnErr(c) ELSE Own(c)

(* A call collects only lines its own command printed, on either stream.     *)
NoForeignLines ==
    \A c \in Answered : \A i \in 1 .. Len(coll[c].result) : coll[c].result[i].call = c

(* Sessions in which no call has run into the collection timeout. *)
InStep == {s \in Sessions : \A c \in Calls : coll[c].on = s => coll[c].state # "timedout"}

(* When each call is awaited, and until one times out, no crash or revival   *)
(* makes the shell keep the line of another command: what usedRVersion       *)
(* caches is the version, and close() removes only what obtainTmpDir got.    *)
KeptLinesAreOwn ==
    InStep = Sessions => /\ versionCache \in VersionCalls \cup {None}
                         /\ tempDirs \subseteq TmpDirCalls \cup {None}

(* When each call is awaited, and until one times out, no timer is left      *)
(* armed for a call that is settled (it would keep the program alive).       *)
NoTimerOutlivesItsCall ==
    \A s \in InStep :
        /\ proc[s].timer \in Open \cup {None}
        /\ \A c \in strays : coll[c].on # s

(* An open call always has something left that settles it even if R falls    *)
(* silent: an armed timer or an exit event that is still to come.            *)
OpenCallsCanSettle ==
    \A c \in Open :
        \/ c \in strays
        \/ proc[coll[c].on].timer \in Open
        \/ proc[coll[c].on].status = "killed"
        \/ proc[coll[c].on].status = "dead" /\ ~ proc[coll[c].on].exited

(* Every call settles, whatever R does: it may hang, crash or be killed.     *)
EverySettles == \A c \in Calls : (c \in Open) ~> (c \notin Open)

(* With revive 'always' the shell gets a running session after every end of  *)
(* a session.                                                                *)
EndedSessionIsReplaced ==
    (proc[session].status = "dead") ~> (proc[session].status = "running")

(* close() makes the shell invalid for good (the comment of close).          *)
StaysClosed ==
    closing = "closed" => proc[session].status \in {"killed", "dead"}

(* An ended R session is replaced by one session (the comment of revive).    *)
OneLiveSession ==
    Cardinality({s \in Sessions : proc[s].status = "running"}) <= 1

(* close() ends the session and says whether that worked (its comment).      *)
CloseAlwaysEnds == closing # "threw"

(* The calls made to a session in which an earlier call had timed out.       *)
Behind ==
    {started[j] : j \in {k \in 1 .. Len(started) : \E i \in 1 .. k - 1 :
                            /\ coll[started[i]].state = "timedout"
                            /\ coll[started[i]].on = coll[started[k]].on}}

StatusOf(c) ==
    CASE coll[c].state = "collecting" -> "pending"
      [] coll[c].state \in {"answered", "cutoff"} /\ c \in Behind -> "stale"
      [] OTHER -> coll[c].state

(* A caller that awaits each call may regard the shell as a CommandChannel:  *)
(* a call gets exactly its own lines, or a prefix of them if R ends, unless  *)
(* an earlier call to the same session ran into the timeout.                 *)
Channel == INSTANCE CommandChannel WITH
    Output <- Own,
    status <- [c \in Calls |-> StatusOf(c)],
    answer <- [c \in Calls |-> IF StatusOf(c) \in {"answered", "cutoff"}
                               THEN coll[c].result ELSE <<>>]

ImplementsChannel == Channel!Spec

=============================================================================
