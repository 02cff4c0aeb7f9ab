----------------------------- MODULE RShellProofs -----------------------------
(***************************************************************************)
(* No call of sendCommandWithOutput is stranded, for every number of calls *)
(* and crashes: whatever R does, an open call keeps an armed timer or an   *)
(* exit event that will cut it off. Two assumptions are needed, and TLC    *)
(* finds the call that is stranded without them: every call collects from  *)
(* stdout (one timer serves all collectors, so a collector of stderr can   *)
(* lose it to one of stdout), and a shell that may be closed revives its   *)
(* session (end() clears the timer of a session whose exit is past).       *)
(*                                                                         *)
(* The inductive invariant says which collector owns the timer of the      *)
(* session, the one that registered last; and it counts the sessions, so   *)
(* that a revival never takes the place of one that has collectors.        *)
(***************************************************************************)
EXTENDS RShell, FiniteSetTheorems, SequenceTheorems, TLAPS

AllFromStdout == StderrCalls = {} /\ BothCalls = {}

ClosedOnlyIfRevived == MayClose => Revive = "always"

RequestLine == [call : Calls, what : {"command", "postamble"}]
OutputLine == [call : Calls, stream : Streams \cup {"postamble"}, nr : Nat]

SessionRecord ==
    [status : {"unborn", "running", "killed", "dead"},
     code : {None, "zero", "nonzero", "signal"},
     stdin : Seq(RequestLine),
     stdout : Seq(OutputLine),
     stderr : Seq(OutputLine),
     timer : Calls \cup {None},
     broken : BOOLEAN, erred : BOOLEAN, exited : BOOLEAN, ended : BOOLEAN]

CollectorStates == {"idle", "collecting", "answered", "cutoff", "timedout"}

(* What the call collected is left open: nothing below depends on it.        *)
Typed ==
    /\ session \in Spawned
    /\ proc \in [Sessions -> SessionRecord]
    /\ coll = [c \in Calls |-> [state |-> coll[c].state, on |-> coll[c].on,
                                result |-> coll[c].result]]
    /\ \A c \in Calls : /\ coll[c].state \in CollectorStates
                        /\ c \in Open => coll[c].on \in Spawned
    /\ started \in Seq(Calls)
    /\ \A c \in Open : \E i \in 1 .. Len(started) : started[i] = c
    /\ strays \subseteq Calls

Gone(p) == p.status \in {"killed", "dead"}

(* What the end of one session and its two events leave in its record.       *)
LifeFits(p) ==
    /\ p.status = "dead" <=> p.code # None
    /\ p.exited \/ p.erred \/ p.broken => p.status = "dead"
    /\ p.exited \/ p.erred => ~ p.broken

Killed == {s \in Sessions : proc[s].status = "killed" \/ proc[s].code = "signal"}
Exited == {s \in Sessions : proc[s].exited}
Erred == {s \in Sessions : proc[s].erred}

(* Each session but the first was spawned by one of the two events of an     *)
(* earlier one; close() kills once, all other ends are crashes.              *)
Counted ==
    /\ Spawned = 1 .. Cardinality(Spawned)
    /\ Cardinality(Spawned) <= 1 + Cardinality(Exited) + Cardinality(Erred)
    /\ Cardinality(Crashed) <= MaxCrashes
    /\ closing # "closed" => Killed = {}
    /\ \A s, t \in Killed : s = t
    /\ Revive = "always" => ~ proc[session].exited /\ ~ proc[session].erred

ExitPending(s) ==
    \/ proc[s].status = "killed"
    \/ proc[s].status = "dead" /\ ~ proc[s].exited

(* Index i holds the last of the open collectors of session s. *)
IsLast(i, s) ==
    /\ i \in 1 .. Len(started)
    /\ started[i] \in CutOffBy(s)
    /\ \A j \in i + 1 .. Len(started) : started[j] \notin CutOffBy(s)

OwnsTimer(c, s) ==
    /\ proc[s].timer = c
    /\ \E i \in 1 .. Len(started) : started[i] = c /\ IsLast(i, s)

Covered ==
    ClosedOnlyIfRevived =>
        \A s \in Sessions : \A c \in CutOffBy(s) :
            c \in strays \/ ExitPending(s) \/ OwnsTimer(c, s)

ShellInv ==
    /\ Typed
    /\ \A s \in Sessions : LifeFits(proc[s])
    /\ Counted
    /\ Covered

-----------------------------------------------------------------------------
(* A nonempty set of indices has a greatest one. *)
LEMMA GreatestExists ==
    ASSUME NEW n \in Nat, NEW T \in SUBSET (1 .. n), T # {}
    PROVE  \E i \in T : \A j \in T : j <= i
  <1> DEFINE R == StrictSubsetOrdering(1 .. n)
             Tails == {i .. n : i \in T}
  <1>1. IsFiniteSet(1 .. n) /\ FiniteSubsetsOf(1 .. n) = SUBSET (1 .. n)
    BY FS_Interval, FS_FiniteSubsetsOfFinite
  <1>2. IsWellFoundedOn(R, FiniteSubsetsOf(1 .. n))
    BY FS_StrictSubsetOrderingWellFounded
  <1>3. Tails # {} /\ Tails \subseteq FiniteSubsetsOf(1 .. n)
    <2>1. \A i \in T : i .. n \in FiniteSubsetsOf(1 .. n)
      BY <1>1
    <2>2. Tails \subseteq FiniteSubsetsOf(1 .. n)
      BY <2>1
    <2> QED
      BY <2>2
  <1>4. PICK least \in Tails : \A tail \in Tails : ~ (<<tail, least>> \in R)
    <2> HIDE DEF R, Tails
    <2> QED
      BY <1>2, <1>3, WFMin
  <1>5. PICK i \in T : least = i .. n
    OBVIOUS
  <1>6. \A j \in T : ~ (j .. n \subseteq i .. n /\ j .. n # i .. n)
    BY <1>1, <1>3, <1>4, <1>5 DEF StrictSubsetOrdering
  <1>7. ASSUME NEW j \in T, j > i
        PROVE  FALSE
    <2>1. j .. n \subseteq i .. n /\ i \notin j .. n /\ i \in i .. n
      BY <1>7
    <2> QED
      BY <1>6, <2>1
  <1> QED
    BY <1>7

(* Latest is the collector at the last index. *)
LEMMA LatestIsLast ==
    ASSUME Typed, NEW s \in Sessions, NEW i, IsLast(i, s)
    PROVE  Latest(CutOffBy(s)) = started[i]
  <1> DEFINE P(k) == /\ started[k] \in CutOffBy(s)
                     /\ \A j \in k + 1 .. Len(started) : started[j] \notin CutOffBy(s)
             last == CHOOSE k \in 1 .. Len(started) : P(k)
  <1>1. Len(started) \in Nat
    BY DEF Typed
  <1>2. i \in 1 .. Len(started) /\ P(i)
    BY DEF IsLast
  <1>3. last \in 1 .. Len(started) /\ P(last)
    BY <1>2
  <1>4. last = i
    <2>1. ~ (last < i) /\ ~ (i < last)
      BY <1>1, <1>2, <1>3
    <2> HIDE DEF last
    <2> QED
      BY <1>1, <1>2, <1>3, <2>1
  <1> QED
    BY <1>4 DEF Latest

(* Every session with open collectors has a last one. *)
LEMMA LastExists ==
    ASSUME Typed, NEW s \in Sessions, CutOffBy(s) # {}
    PROVE  \E i : IsLast(i, s)
  <1> DEFINE T == {i \in 1 .. Len(started) : started[i] \in CutOffBy(s)}
  <1>1. Len(started) \in Nat
    BY DEF Typed
  <1>2. T # {}
    BY DEF Typed, CutOffBy
  <1>3. PICK i \in T : \A j \in T : j <= i
    BY <1>1, <1>2, GreatestExists
  <1>4. IsLast(i, s)
    BY <1>1, <1>3 DEF IsLast
  <1> QED
    BY <1>4

(* There is room for one more session while one of the events is to come.    *)
LEMMA RoomForOneMore ==
    ASSUME Typed, \A s \in Sessions : LifeFits(proc[s]), Counted,
           NEW s \in Sessions, proc[s].status = "dead",
           ~ proc[s].exited \/ ~ proc[s].erred
    PROVE  /\ Cardinality(Spawned) \in Nat
           /\ Cardinality(Spawned) + 1 \in Sessions
           /\ Cardinality(Spawned) + 1 \notin Spawned
  <1> DEFINE Dead == {t \in Sessions : proc[t].status = "dead"}
  <1>1. /\ MaxCrashes \in Nat
        /\ IsFiniteSet(Sessions)
        /\ \A S \in SUBSET Sessions : IsFiniteSet(S) /\ Cardinality(S) \in Nat
    <2>1. MaxCrashes \in Nat
      BY ShellAssumption
    <2>2. IsFiniteSet(Sessions)
      BY <2>1, FS_Interval DEF Sessions
    <2> QED
      BY <2>1, <2>2, FS_Subset, FS_CardinalityType
  <1>2. Cardinality(Killed) <= 1
    <2>1. CASE Killed = {}
      BY <2>1, FS_EmptySet
    <2>2. CASE Killed # {}
      <3>1. PICK t \in Killed : Killed = {t}
        BY <2>2 DEF Counted
      <3>2. Cardinality({t}) = 1
        BY FS_Singleton
      <3> QED
        BY <3>1, <3>2
    <2> QED
      BY <2>1, <2>2
  <1>3. Dead \subseteq Crashed \cup Killed
    BY DEF Typed, SessionRecord, LifeFits, Crashed, Killed
  <1>4. Cardinality(Dead) <= MaxCrashes + 1
    <2>1. /\ IsFiniteSet(Crashed) /\ Cardinality(Crashed) \in Nat
          /\ IsFiniteSet(Killed) /\ Cardinality(Killed) \in Nat
          /\ Cardinality(Crashed \cap Killed) \in Nat
          /\ Cardinality(Dead) \in Nat
          /\ Crashed \cup Killed \in SUBSET Sessions
          /\ Cardinality(Crashed \cup Killed) \in Nat
      <3>1. /\ Crashed \in SUBSET Sessions /\ Killed \in SUBSET Sessions
            /\ Dead \in SUBSET Sessions /\ Crashed \cap Killed \in SUBSET Sessions
            /\ Crashed \cup Killed \in SUBSET Sessions
        BY DEF Crashed, Killed
      <3> QED
        BY <1>1, <3>1
    <2>2. Cardinality(Crashed \cup Killed) <= MaxCrashes + 1
      <3>1. Cardinality(Crashed \cup Killed)
              = Cardinality(Crashed) + Cardinality(Killed) - Cardinality(Crashed \cap Killed)
        BY <2>1, FS_Union
      <3>2. Cardinality(Crashed) <= MaxCrashes
        BY DEF Counted
      <3> QED
        BY <1>1, <1>2, <2>1, <3>1, <3>2
    <2>3. Cardinality(Dead) <= Cardinality(Crashed \cup Killed)
      BY <1>1, <1>3, <2>1, FS_Subset
    <2> QED
      BY <1>1, <2>1, <2>2, <2>3
  <1>5. Cardinality(Exited) + Cardinality(Erred) <= 2 * MaxCrashes + 1
    <2>1. Exited \subseteq Dead /\ Erred \subseteq Dead /\ s \in Dead
      BY DEF LifeFits, Exited, Erred
    <2>2. /\ Cardinality(Dead \ {s}) = Cardinality(Dead) - 1
          /\ IsFiniteSet(Dead) /\ IsFiniteSet(Dead \ {s})
          /\ Cardinality(Dead) \in Nat
          /\ Cardinality(Exited) \in Nat /\ Cardinality(Erred) \in Nat
      <3>1. /\ Dead \in SUBSET Sessions /\ Exited \in SUBSET Sessions
            /\ Erred \in SUBSET Sessions
        BY DEF Exited, Erred
      <3>2. IsFiniteSet(Dead) /\ Cardinality(Dead) \in Nat
        BY <1>1, <3>1
      <3> QED
        BY <1>1, <2>1, <3>1, <3>2, FS_RemoveElement
    <2>3. Cardinality(Exited) <= Cardinality(Dead) /\ Cardinality(Erred) <= Cardinality(Dead)
      BY <2>1, <2>2, FS_Subset
    <2>4. CASE ~ proc[s].exited
      <3>1. Exited \subseteq Dead \ {s}
        BY <2>1, <2>4 DEF Exited
      <3>2. Cardinality(Exited) <= Cardinality(Dead) - 1
        BY <2>2, <3>1, FS_Subset
      <3> QED
        BY <1>1, <1>4, <2>2, <2>3, <3>2
    <2>5. CASE ~ proc[s].erred
      <3>1. Erred \subseteq Dead \ {s}
        BY <2>1, <2>5 DEF Erred
      <3>2. Cardinality(Erred) <= Cardinality(Dead) - 1
        BY <2>2, <3>1, FS_Subset
      <3> QED
        BY <1>1, <1>4, <2>2, <2>3, <3>2
    <2> QED
      BY <2>4, <2>5
  <1>6. /\ Cardinality(Spawned) \in Nat
        /\ Cardinality(Exited) \in Nat /\ Cardinality(Erred) \in Nat
    <2>1. /\ Spawned \in SUBSET Sessions /\ Exited \in SUBSET Sessions
          /\ Erred \in SUBSET Sessions
      BY DEF Spawned, Exited, Erred
    <2> QED
      BY <1>1, <2>1
  <1>7. Cardinality(Spawned) + 1 \in Sessions
    BY <1>1, <1>5, <1>6 DEF Counted, Sessions
  <1>8. Cardinality(Spawned) + 1 \notin Spawned
    <2>1. \A n \in Nat : n + 1 \notin 1 .. n
      OBVIOUS
    <2>2. Cardinality(Spawned) + 1 \notin 1 .. Cardinality(Spawned)
      BY <1>6, <2>1
    <2> QED
      BY <2>2 DEF Counted
  <1> QED
    BY <1>6, <1>7, <1>8

-----------------------------------------------------------------------------
(* A step that begins and ends no session keeps the count of sessions.       *)
LEMMA CountKept ==
    ASSUME Counted, session' = session, closing' = closing,
           \A s \in Sessions : /\ proc'[s].status = proc[s].status
                               /\ proc'[s].code = proc[s].code
                               /\ proc'[s].exited = proc[s].exited
                               /\ proc'[s].erred = proc[s].erred,
           session \in Sessions
    PROVE  Counted' /\ Spawned' = Spawned
  <1>1. /\ Spawned' = Spawned /\ Crashed' = Crashed /\ Killed' = Killed
        /\ Exited' = Exited /\ Erred' = Erred
    BY DEF Spawned, Crashed, Killed, Exited, Erred
  <1> QED
    BY <1>1 DEF Counted

(* The collectors of a session stay covered by what they are covered by now. *)
LEMMA CoverKept ==
    ASSUME Covered, started' = started,
           \A s \in Sessions : CutOffBy(s)' \subseteq CutOffBy(s),
           \A s \in Sessions : \A c \in CutOffBy(s)' :
               /\ c \in strays => c \in strays'
               /\ ExitPending(s) => ExitPending(s)'
               /\ OwnsTimer(c, s) => ExitPending(s)' \/ proc'[s].timer = c
    PROVE  Covered'
  <1> SUFFICES ASSUME ClosedOnlyIfRevived, NEW s \in Sessions, NEW c \in CutOffBy(s)'
               PROVE  (c \in strays \/ ExitPending(s) \/ OwnsTimer(c, s))'
    BY DEF Covered
  <1>1. c \in CutOffBy(s)
    OBVIOUS
  <1>2. ASSUME OwnsTimer(c, s), proc'[s].timer = c
        PROVE  OwnsTimer(c, s)'
    <2>1. PICK i \in 1 .. Len(started) : started[i] = c /\ IsLast(i, s)
      BY <1>2 DEF OwnsTimer
    <2>2. IsLast(i, s)'
      BY <2>1 DEF IsLast
    <2> QED
      BY <1>2, <2>1, <2>2 DEF OwnsTimer
  <1> QED
    BY <1>1, <1>2 DEF Covered

(* A step that leaves the collectors alone cuts off no other ones.           *)
LEMMA SameCollectors ==
    ASSUME coll' = coll
    PROVE  Open' = Open /\ \A s \in Sessions : CutOffBy(s)' = CutOffBy(s)
  BY DEF Open, CutOffBy

(* The two records a session starts from. *)
LEMMA NewSessionIsRunning ==
    /\ Unborn \in SessionRecord /\ NewSession \in SessionRecord
    /\ Unborn.status = "unborn" /\ NewSession.status = "running"
    /\ \A p \in {Unborn, NewSession} :
          p.code = None /\ ~ p.exited /\ ~ p.erred /\ ~ p.broken
  <1>1. /\ Unborn \in SessionRecord /\ Unborn.status = "unborn" /\ Unborn.code = None
        /\ ~ Unborn.exited /\ ~ Unborn.erred /\ ~ Unborn.broken
    BY DEF Unborn, SessionRecord
  <1>2. NewSession = [Unborn EXCEPT !.status = "running"]
    BY DEF NewSession
  <1>3. /\ NewSession \in SessionRecord /\ NewSession.status = "running"
        /\ NewSession.code = None
        /\ ~ NewSession.exited /\ ~ NewSession.erred /\ ~ NewSession.broken
    BY <1>1, <1>2 DEF SessionRecord
  <1> QED
    BY <1>1, <1>3

(* The shell starts with one running session and no collector. *)
LEMMA InitEstablishesInv == Init => ShellInv
  <1> SUFFICES ASSUME Init
               PROVE  ShellInv
    OBVIOUS
  <1>1. MaxCrashes \in Nat
    BY ShellAssumption
  <1>2. 1 \in Sessions
    BY <1>1 DEF Sessions
  <1>3. Open = {} /\ \A s \in Sessions : CutOffBy(s) = {}
    BY DEF Init, Open, CutOffBy
  <1>4. Unborn \in SessionRecord /\ NewSession \in SessionRecord
    BY NewSessionIsRunning
  <1>5. /\ Spawned = {1} /\ Crashed = {} /\ Killed = {} /\ Exited = {} /\ Erred = {}
    BY <1>2, NewSessionIsRunning
       DEF Init, Spawned, Crashed, Killed, Exited, Erred, None
  <1>6. Typed
    <2>1. coll = [c \in Calls |-> [state |-> coll[c].state, on |-> coll[c].on,
                                   result |-> coll[c].result]]
      BY DEF Init
    <2>2. proc \in [Sessions -> SessionRecord]
      BY <1>4 DEF Init
    <2> QED
      BY <1>3, <1>5, <2>1, <2>2 DEF Init, Typed, CollectorStates
  <1>7. \A s \in Sessions : LifeFits(proc[s])
    BY NewSessionIsRunning DEF Init, LifeFits
  <1>8. Counted
    <2>1. Cardinality({1}) = 1 /\ Cardinality({}) = 0
      BY FS_EmptySet, FS_Singleton
    <2> QED
      BY <1>1, <1>2, <1>5, <2>1, NewSessionIsRunning DEF Counted, Init
  <1> QED
    BY <1>3, <1>6, <1>7, <1>8 DEF ShellInv, Covered

(* The new collector takes the timer; the timer it finds becomes a stray.    *)
LEMMA SendKeepsInv ==
    ASSUME ShellInv, NEW c \in Calls, SendCommandWithOutput(c)
    PROVE  ShellInv'
  <1> DEFINE p == proc[session]
             q == [Write(p, Request(c)) EXCEPT !.timer = c]
  <1>1. /\ Typed /\ Counted /\ Covered
        /\ session \in Sessions /\ p \in SessionRecord /\ LifeFits(p)
        /\ p.status # "unborn"
    BY DEF ShellInv, Typed, Spawned
  <1>2. /\ q \in SessionRecord /\ LifeFits(q)
        /\ q.status = p.status /\ q.code = p.code /\ q.timer = c
        /\ q.exited = p.exited /\ q.erred = p.erred
    <2>1. Request(c) \in Seq(RequestLine)
      BY DEF Request, RequestLine
    <2>2. p.stdin \o Request(c) \in Seq(RequestLine)
      BY <1>1, <2>1 DEF SessionRecord
    <2>3. CASE p.status = "dead"
      BY <1>1, <2>3 DEF Write, SessionRecord, LifeFits
    <2>4. CASE p.status # "dead"
      <3>1. q = [p EXCEPT !.stdin = p.stdin \o Request(c), !.timer = c]
        BY <1>1, <2>4 DEF Write, SessionRecord
      <3> QED
        BY <1>1, <2>2, <2>4, <3>1 DEF SessionRecord, LifeFits
    <2> QED
      BY <2>3, <2>4
  <1>3. /\ proc' = [proc EXCEPT ![session] = q]
        /\ proc' \in [Sessions -> SessionRecord]
        /\ proc'[session] = q
        /\ \A s \in Sessions : s # session => proc'[s] = proc[s]
    BY <1>1, <1>2 DEF SendCommandWithOutput, Typed
  <1> HIDE DEF q
  <1>4. /\ Counted' /\ Spawned' = Spawned
    <2>1. \A s \in Sessions : /\ proc'[s].status = proc[s].status
                              /\ proc'[s].code = proc[s].code
                              /\ proc'[s].exited = proc[s].exited
                              /\ proc'[s].erred = proc[s].erred
      BY <1>2, <1>3
    <2>2. session' = session /\ closing' = closing
      BY DEF SendCommandWithOutput
    <2> QED
      BY <1>1, <2>1, <2>2, CountKept
  <1>5. /\ coll'[c] = [state |-> "collecting", on |-> session, result |-> <<>>]
        /\ \A d \in Calls : d # c => coll'[d] = coll[d]
        /\ coll' = [d \in Calls |-> [state |-> coll'[d].state, on |-> coll'[d].on,
                                     result |-> coll'[d].result]]
    BY <1>1 DEF SendCommandWithOutput, Typed
  <1>6. /\ Open' = Open \cup {c} /\ c \notin Open
        /\ \A s \in Sessions : s = session => CutOffBy(s)' = CutOffBy(s) \cup {c}
        /\ \A s \in Sessions : s # session => CutOffBy(s)' = CutOffBy(s)
    BY <1>5 DEF SendCommandWithOutput, Open, CutOffBy
  <1>7. /\ started' = Append(started, c) /\ started' \in Seq(Calls)
        /\ Len(started) \in Nat
        /\ Len(started') = Len(started) + 1
        /\ started'[Len(started) + 1] = c
        /\ \A i \in 1 .. Len(started) : started'[i] = started[i]
    BY <1>1 DEF SendCommandWithOutput, Typed
  <1>8. Typed'
    <2>1. \A d \in Calls : /\ coll'[d].state \in CollectorStates
                           /\ d \in Open' => coll'[d].on \in Spawned'
      BY <1>1, <1>4, <1>5, <1>6 DEF Typed, CollectorStates
    <2>2. \A d \in Open' : \E i \in 1 .. Len(started') : started'[i] = d
      BY <1>1, <1>6, <1>7 DEF Typed
    <2>3. strays' \subseteq Calls
      <3>1. p.timer \in Calls \cup {None}
        BY <1>1 DEF SessionRecord
      <3> QED
        BY <1>1, <3>1 DEF SendCommandWithOutput, Typed
    <2>4. session' \in Spawned'
      BY <1>1, <1>4 DEF SendCommandWithOutput, Typed
    <2> QED
      BY <1>3, <1>5, <1>7, <2>1, <2>2, <2>3, <2>4 DEF Typed
  <1>9. Covered'
    <2> SUFFICES ASSUME ClosedOnlyIfRevived, NEW s \in Sessions, NEW d \in CutOffBy(s)'
                 PROVE  (d \in strays \/ ExitPending(s) \/ OwnsTimer(d, s))'
      BY DEF Covered
    <2>1. CASE d = c
      <3>1. s = session
        BY <1>5, <2>1 DEF CutOffBy
      <3>2. PICK n \in Nat : n = Len(started) + 1
        BY <1>7
      <3>3. IsLast(n, s)'
        BY <1>7, <2>1, <3>2 DEF IsLast
      <3>4. n \in 1 .. Len(started') /\ started'[n] = d /\ proc'[s].timer = d
        BY <1>2, <1>3, <1>7, <2>1, <3>1, <3>2
      <3>5. OwnsTimer(d, s)'
        BY <3>3, <3>4 DEF OwnsTimer
      <3> QED
        BY <3>5
    <2>2. CASE d # c
      <3>1. d \in CutOffBy(s) /\ d # None
        <4>1. d \in CutOffBy(s)
          <5>1. CASE s = session
            BY <1>6, <2>2, <5>1
          <5>2. CASE s # session
            BY <1>6, <5>2
          <5> QED
            BY <5>1, <5>2
        <4> QED
          BY <4>1, NoCallIsNone DEF CutOffBy, Open
      <3>2. CASE d \in strays
        BY <3>2 DEF SendCommandWithOutput
      <3>3. CASE ExitPending(s)
        BY <1>2, <1>3, <3>3 DEF ExitPending
      <3>4. CASE OwnsTimer(d, s)
        <4>1. proc[s].timer = d
          BY <3>4 DEF OwnsTimer
        <4>2. CASE s = session
          BY <3>1, <4>1, <4>2 DEF SendCommandWithOutput
        <4>3. CASE s # session
          <5>1. PICK i \in 1 .. Len(started) : started[i] = d /\ IsLast(i, s)
            BY <3>4 DEF OwnsTimer
          <5>2. c \notin CutOffBy(s) /\ CutOffBy(s)' = CutOffBy(s)
            BY <1>6, <4>3 DEF CutOffBy
          <5>3. IsLast(i, s)'
            BY <1>7, <5>1, <5>2 DEF IsLast
          <5>4. OwnsTimer(d, s)'
            BY <1>3, <1>7, <4>1, <4>3, <5>1, <5>3 DEF OwnsTimer
          <5> QED
            BY <5>4
        <4> QED
          BY <4>2, <4>3
      <3> QED
        BY <1>1, <3>1, <3>2, <3>3, <3>4 DEF Covered
    <2> QED
      BY <2>1, <2>2
  <1>10. \A s \in Sessions : LifeFits(proc'[s])
    BY <1>2, <1>3 DEF ShellInv
  <1> QED
    BY <1>4, <1>8, <1>9, <1>10 DEF ShellInv

(* A step that changes only the pipes and timers of sessions keeps the facts *)
(* of their lives.                                                           *)
LEMMA LivesKept ==
    ASSUME ShellInv, session' = session, closing' = closing,
           proc' \in [Sessions -> SessionRecord],
           \A s \in Sessions : /\ proc'[s].status = proc[s].status
                               /\ proc'[s].code = proc[s].code
                               /\ proc'[s].exited = proc[s].exited
                               /\ proc'[s].erred = proc[s].erred
                               /\ proc'[s].broken = proc[s].broken
    PROVE  /\ Counted' /\ Spawned' = Spawned
           /\ \A s \in Sessions : LifeFits(proc'[s])
           /\ \A s \in Sessions : ExitPending(s)' <=> ExitPending(s)
  <1>1. Counted' /\ Spawned' = Spawned
    BY CountKept DEF ShellInv, Typed, Spawned
  <1>2. \A s \in Sessions : LifeFits(proc'[s])
    BY DEF ShellInv, LifeFits
  <1>3. \A s \in Sessions : ExitPending(s)' <=> ExitPending(s)
    BY DEF ExitPending
  <1> QED
    BY <1>1, <1>2, <1>3

(* What a command prints, and the postamble, are lines of output. *)
LEMMA OwnLines ==
    ASSUME NEW c \in Calls
    PROVE  /\ Own(c) \in Seq(OutputLine) /\ OwnErr(c) \in Seq(OutputLine)
           /\ Postamble(c) \in OutputLine
  <1>1. OutLines \in Nat /\ ErrLines \in Nat
    BY ShellAssumption
  <1>2. /\ Own(c) \in [1 .. OutLines -> OutputLine]
        /\ OwnErr(c) \in [1 .. ErrLines -> OutputLine]
        /\ Postamble(c) \in OutputLine
    BY <1>1 DEF Own, OwnErr, Postamble, OutputLine, Streams
  <1> QED
    BY <1>1, <1>2

(* R's own steps touch only the pipes. *)
LEMMA RExecuteKeepsInv ==
    ASSUME ShellInv, NEW s \in Sessions, RExecute(s)
    PROVE  ShellInv'
  <1> DEFINE p == proc[s]
             line == Head(p.stdin)
             out == CASE line.what = "command" -> p.stdout \o Own(line.call)
                      [] line.what = "postamble" /\ line.call \notin StderrCalls
                           -> Append(p.stdout, Postamble(line.call))
                      [] OTHER -> p.stdout
             err == CASE line.what = "command" -> p.stderr \o OwnErr(line.call)
                      [] line.what = "postamble" /\ line.call \in StderrCalls
                           -> Append(p.stderr, Postamble(line.call))
                      [] OTHER -> p.stderr
  <1>1. Typed /\ Covered /\ p \in SessionRecord
    BY DEF ShellInv, Typed
  <1>2. line \in RequestLine /\ Tail(p.stdin) \in Seq(RequestLine)
    BY <1>1 DEF RExecute, SessionRecord
  <1>3. out \in Seq(OutputLine) /\ err \in Seq(OutputLine)
    <2>1. /\ p.stdout \in Seq(OutputLine) /\ p.stderr \in Seq(OutputLine)
          /\ line.call \in Calls
      BY <1>1, <1>2 DEF SessionRecord, RequestLine
    <2>2. /\ p.stdout \o Own(line.call) \in Seq(OutputLine)
          /\ p.stderr \o OwnErr(line.call) \in Seq(OutputLine)
          /\ Append(p.stdout, Postamble(line.call)) \in Seq(OutputLine)
          /\ Append(p.stderr, Postamble(line.call)) \in Seq(OutputLine)
      BY <2>1, OwnLines
    <2> QED
      BY <2>1, <2>2
  <1>4. proc' = [proc EXCEPT ![s] = [p EXCEPT !.stdin = Tail(p.stdin), !.stdout = out,
                                              !.stderr = err]]
    BY <1>1 DEF RExecute, Typed
  <1> HIDE DEF out, err
  <1> DEFINE q == [p EXCEPT !.stdin = Tail(p.stdin), !.stdout = out, !.stderr = err]
  <1>5. /\ q \in SessionRecord /\ q.timer = p.timer
        /\ q.status = p.status /\ q.code = p.code /\ q.broken = p.broken
        /\ q.exited = p.exited /\ q.erred = p.erred
    BY <1>1, <1>2, <1>3 DEF SessionRecord
  <1> HIDE DEF q
  <1>6. /\ proc' \in [Sessions -> SessionRecord]
        /\ \A t \in Sessions :
              /\ proc'[t].status = proc[t].status /\ proc'[t].code = proc[t].code
              /\ proc'[t].exited = proc[t].exited /\ proc'[t].erred = proc[t].erred
              /\ proc'[t].broken = proc[t].broken /\ proc'[t].timer = proc[t].timer
    BY <1>1, <1>4, <1>5 DEF Typed, q
  <1>7. UNCHANGED <<session, coll, started, strays, closing>>
    BY DEF RExecute
  <1>8. /\ Counted' /\ Spawned' = Spawned
        /\ \A t \in Sessions : LifeFits(proc'[t])
        /\ \A t \in Sessions : ExitPending(t)' <=> ExitPending(t)
    BY <1>6, <1>7, LivesKept
  <1>9. Open' = Open /\ \A t \in Sessions : CutOffBy(t)' = CutOffBy(t)
    BY <1>7, SameCollectors
  <1>10. Typed'
    BY <1>1, <1>6, <1>7, <1>8, <1>9 DEF Typed
  <1>11. Covered'
    BY <1>1, <1>6, <1>7, <1>8, <1>9, CoverKept DEF OwnsTimer
  <1> QED
    BY <1>8, <1>10, <1>11 DEF ShellInv

(* The end of a process leaves its exit event to come. *)
LEMMA RDiesKeepsInv ==
    ASSUME ShellInv, NEW s \in Sessions, NEW code \in {"zero", "nonzero", "signal"},
           RDies(s, code)
    PROVE  ShellInv'
  <1>1. /\ Typed /\ Counted /\ Covered
        /\ proc[s] \in SessionRecord /\ LifeFits(proc[s])
        /\ session \in Sessions /\ MaxCrashes \in Nat
        /\ IsFiniteSet(Sessions)
    <2>1. MaxCrashes \in Nat
      BY ShellAssumption
    <2>2. IsFiniteSet(Sessions)
      BY <2>1, FS_Interval DEF Sessions
    <2> QED
      BY <2>1, <2>2 DEF ShellInv, Typed, Spawned
  <1>2. PICK k \in 0 .. OutLines :
          /\ k > 0 => proc[s].stdin # <<>>
          /\ proc' = [proc EXCEPT
                        ![s].status = "dead",
                        ![s].code = code,
                        ![s].stdin = <<>>,
                        ![s].stdout = IF k = 0 THEN @
                                      ELSE @ \o SubSeq(Own(Head(proc[s].stdin).call), 1, k)]
    BY DEF RDies
  <1> DEFINE p == proc[s]
             out == IF k = 0 THEN p.stdout
                    ELSE p.stdout \o SubSeq(Own(Head(p.stdin).call), 1, k)
             q == [p EXCEPT !.status = "dead", !.code = code, !.stdin = <<>>, !.stdout = out]
  <1>3. out \in Seq(OutputLine)
    <2>1. p.stdout \in Seq(OutputLine) /\ p.stdin \in Seq(RequestLine)
      BY <1>1 DEF SessionRecord
    <2>2. CASE k = 0
      BY <2>1, <2>2
    <2>3. CASE k # 0
      <3>1. Head(p.stdin) \in RequestLine
        BY <1>2, <2>1, <2>3
      <3>2. Own(Head(p.stdin).call) \in Seq(OutputLine)
        BY <3>1, OwnLines DEF RequestLine
      <3>3. Len(Own(Head(p.stdin).call)) = OutLines /\ OutLines \in Nat
        BY ShellAssumption DEF Own
      <3>4. SubSeq(Own(Head(p.stdin).call), 1, k) \in Seq(OutputLine)
        BY <2>3, <3>2, <3>3
      <3> QED
        BY <2>1, <2>3, <3>4
    <2> QED
      BY <2>2, <2>3
  <1>4. proc' = [proc EXCEPT ![s] = q]
    BY <1>1, <1>2 DEF Typed
  <1> HIDE DEF out
  <1>5. /\ q \in SessionRecord /\ q.status = "dead" /\ q.code = code
        /\ q.timer = p.timer /\ q.exited = p.exited /\ q.erred = p.erred
        /\ q.broken = p.broken
    <2>1. /\ q.status = "dead" /\ q.code = code
          /\ q.timer = p.timer /\ q.exited = p.exited /\ q.erred = p.erred
          /\ q.broken = p.broken
      BY <1>1 DEF SessionRecord
    <2>2. code \in {None, "zero", "nonzero", "signal"} /\ <<>> \in Seq(RequestLine)
      OBVIOUS
    <2>3. q \in SessionRecord
      BY <1>1, <1>3, <2>2 DEF SessionRecord
    <2> QED
      BY <2>1, <2>3
  <1> HIDE DEF q
  <1>6. /\ proc' \in [Sessions -> SessionRecord]
        /\ proc'[s] = q
        /\ \A t \in Sessions : t # s => proc'[t] = proc[t]
    BY <1>1, <1>4, <1>5 DEF Typed
  <1>7. UNCHANGED <<session, coll, started, strays, closing>>
    BY DEF RDies
  <1>8. Open' = Open /\ \A t \in Sessions : CutOffBy(t)' = CutOffBy(t)
    BY <1>7, SameCollectors
  <1>9. /\ p.status \in {"running", "killed"} /\ p.code = None
        /\ ~ p.exited /\ ~ p.erred /\ ~ p.broken
    BY <1>1 DEF RDies, LifeFits, SessionRecord
  <1>10. \A t \in Sessions : LifeFits(proc'[t])
    <2>1. LifeFits(q)
      BY <1>5, <1>9 DEF LifeFits, None
    <2> QED
      BY <1>6, <2>1 DEF ShellInv
  <1>11. Spawned' = Spawned /\ Exited' = Exited /\ Erred' = Erred
    BY <1>5, <1>6, <1>9 DEF Spawned, Exited, Erred
  <1>12. Counted'
    <2>1. CASE p.status = "running"
      <3>1. Crashed' = Crashed \cup {s} /\ Killed' = Killed
        BY <1>5, <1>6, <1>9, <2>1 DEF RDies, Crashed, Killed, None
      <3>2. IsFiniteSet(Crashed) /\ Cardinality(Crashed) \in Nat
        BY <1>1, FS_Subset, FS_CardinalityType DEF Crashed
      <3>3. Cardinality(Crashed') <= Cardinality(Crashed) + 1
        BY <3>1, <3>2, FS_AddElement
      <3>4. Cardinality(Crashed) < MaxCrashes
        BY <2>1 DEF RDies
      <3>5. Cardinality(Crashed') <= MaxCrashes
        <4>1. Cardinality(Crashed') \in Nat
          BY <3>1, <3>2, FS_AddElement, FS_CardinalityType
        <4> QED
          BY <1>1, <3>2, <3>3, <3>4, <4>1
      <3> QED
        BY <1>1, <1>5, <1>6, <1>7, <1>9, <1>11, <3>1, <3>5 DEF Counted
    <2>2. CASE p.status = "killed"
      <3>1. Crashed' = Crashed /\ Killed' = Killed
        BY <1>5, <1>6, <1>9, <2>2 DEF RDies, Crashed, Killed, None
      <3> QED
        BY <1>1, <1>5, <1>6, <1>7, <1>9, <1>11, <3>1 DEF Counted
    <2> QED
      BY <1>9, <2>1, <2>2
  <1>13. Typed'
    BY <1>1, <1>6, <1>7, <1>8, <1>11 DEF Typed
  <1>14. Covered'
    <2>1. ExitPending(s)'
      BY <1>5, <1>6, <1>9 DEF ExitPending
    <2>2. \A t \in Sessions : /\ ExitPending(t) => ExitPending(t)'
                              /\ proc'[t].timer = proc[t].timer
      BY <1>5, <1>6, <2>1 DEF ExitPending
    <2> QED
      BY <1>1, <1>7, <1>8, <2>2, CoverKept DEF OwnsTimer
  <1> QED
    BY <1>10, <1>12, <1>13, <1>14 DEF ShellInv

(* An expired timer settles its call and leaves the others what they had.    *)
LEMMA TimerFiresKeepsInv ==
    ASSUME ShellInv, NEW c \in Calls, TimerFires(c)
    PROVE  ShellInv'
  <1>1. Typed /\ Covered
    BY DEF ShellInv
  <1>2. UNCHANGED <<session, started, closing>>
    BY DEF TimerFires
  <1>3. /\ proc' \in [Sessions -> SessionRecord]
        /\ \A t \in Sessions :
              /\ proc'[t].status = proc[t].status /\ proc'[t].code = proc[t].code
              /\ proc'[t].exited = proc[t].exited /\ proc'[t].erred = proc[t].erred
              /\ proc'[t].broken = proc[t].broken
              /\ proc[t].timer # c => proc'[t].timer = proc[t].timer
        /\ strays' \in {strays, strays \ {c}}
    <2>1. CASE UNCHANGED proc /\ strays' = strays \ {c}
      BY <1>1, <2>1 DEF Typed
    <2>2. CASE /\ UNCHANGED strays
               /\ \E s \in Sessions : /\ proc[s].timer = c
                                      /\ proc' = [proc EXCEPT ![s].timer = None]
      <3>1. PICK s \in Sessions : /\ proc[s].timer = c
                                  /\ proc' = [proc EXCEPT ![s].timer = None]
        BY <2>2
      <3>2. proc[s] \in SessionRecord
        BY <1>1 DEF Typed
      <3> DEFINE q == [proc[s] EXCEPT !.timer = None]
      <3>3. /\ q \in SessionRecord
            /\ q.status = proc[s].status /\ q.code = proc[s].code
            /\ q.exited = proc[s].exited /\ q.erred = proc[s].erred
            /\ q.broken = proc[s].broken
        BY <3>2 DEF SessionRecord
      <3>4. proc' = [proc EXCEPT ![s] = q]
        BY <1>1, <3>1 DEF Typed
      <3> HIDE DEF q
      <3> QED
        BY <1>1, <2>2, <3>1, <3>3, <3>4 DEF Typed
    <2> QED
      BY <2>1, <2>2 DEF TimerFires
  <1>4. /\ \A d \in Calls : /\ coll'[d].on = coll[d].on
                            /\ d # c => coll'[d].state = coll[d].state
        /\ coll'[c].state # "collecting"
        /\ coll'[c].state \in CollectorStates
        /\ coll' = [d \in Calls |-> [state |-> coll'[d].state, on |-> coll'[d].on,
                                     result |-> coll'[d].result]]
    <2> DEFINE r == [coll[c] EXCEPT !.state = IF @ = "collecting" THEN "timedout" ELSE @]
    <2>1. coll[c] = [state |-> coll[c].state, on |-> coll[c].on, result |-> coll[c].result]
      BY <1>1 DEF Typed
    <2>2. /\ r = [state |-> r.state, on |-> r.on, result |-> r.result]
          /\ r.on = coll[c].on /\ r.state # "collecting" /\ r.state \in CollectorStates
      BY <1>1, <2>1 DEF Typed, CollectorStates
    <2>3. coll' = [coll EXCEPT ![c] = r]
      BY <1>1 DEF TimerFires, Typed
    <2> HIDE DEF r
    <2>4. coll'[c] = r /\ \A d \in Calls : d # c => coll'[d] = coll[d]
      BY <1>1, <2>3 DEF Typed
    <2> QED
      BY <1>1, <2>1, <2>2, <2>3, <2>4 DEF Typed
  <1>5. Open' \subseteq Open /\ c \notin Open'
    BY <1>4 DEF Open
  <1>6. \A t \in Sessions : CutOffBy(t)' \subseteq CutOffBy(t) /\ c \notin CutOffBy(t)'
    BY <1>4, <1>5 DEF CutOffBy, Open
  <1>7. /\ Counted' /\ Spawned' = Spawned
        /\ \A t \in Sessions : LifeFits(proc'[t])
        /\ \A t \in Sessions : ExitPending(t)' <=> ExitPending(t)
    BY <1>2, <1>3, LivesKept
  <1>8. Typed'
    <2>1. \A d \in Calls : /\ coll'[d].state \in CollectorStates
                           /\ d \in Open' => coll'[d].on \in Spawned'
      BY <1>1, <1>4, <1>5, <1>7 DEF Typed
    <2>2. \A d \in Open' : \E i \in 1 .. Len(started') : started'[i] = d
      BY <1>1, <1>2, <1>5 DEF Typed
    <2> QED
      BY <1>1, <1>2, <1>3, <1>4, <1>7, <2>1, <2>2 DEF Typed
  <1>9. Covered'
    BY <1>1, <1>2, <1>3, <1>6, <1>7, CoverKept DEF OwnsTimer
  <1> QED
    BY <1>7, <1>8, <1>9 DEF ShellInv

(* close() kills the session in use; its exit is still to come because a     *)
(* revived shell has left every session whose exit is past.                  *)
LEMMA CloseKeepsInv ==
    ASSUME ShellInv, Close
    PROVE  ShellInv'
  <1> DEFINE p == proc[session]
  <1>1. /\ Typed /\ Counted /\ Covered
        /\ session \in Sessions /\ p \in SessionRecord /\ LifeFits(p)
        /\ p.status # "unborn"
    BY DEF ShellInv, Typed, Spawned
  <1>2. UNCHANGED <<session, coll, started, strays>>
    BY DEF Close
  <1>3. Open' = Open /\ \A t \in Sessions : CutOffBy(t)' = CutOffBy(t)
    BY <1>2, SameCollectors
  <1>4. CASE closing' = "threw" /\ UNCHANGED proc
    <2>1. /\ Spawned' = Spawned /\ Crashed' = Crashed /\ Killed' = Killed
          /\ Exited' = Exited /\ Erred' = Erred
      BY <1>4 DEF Spawned, Crashed, Killed, Exited, Erred
    <2>2. Killed = {}
      BY <1>1 DEF Close, Counted
    <2>3. Counted'
      BY <1>1, <1>2, <1>4, <2>1, <2>2 DEF Counted
    <2>4. Typed'
      BY <1>1, <1>2, <1>3, <1>4, <2>1 DEF Typed
    <2>5. \A t \in Sessions : ExitPending(t)' <=> ExitPending(t)
      BY <1>4 DEF ExitPending
    <2>6. Covered'
      BY <1>1, <1>2, <1>3, <1>4, <2>5, CoverKept DEF OwnsTimer
    <2> QED
      BY <1>4, <2>3, <2>4, <2>6 DEF ShellInv
  <1>5. CASE closing' = "closed" /\ proc' = [proc EXCEPT ![session] = End(p)]
    <2> DEFINE q == End(p)
    <2>1. /\ q.status = (IF p.status = "running" THEN "killed" ELSE p.status)
          /\ q.code = p.code /\ q.exited = p.exited /\ q.erred = p.erred
          /\ q.broken = p.broken
      BY <1>1 DEF End, SessionRecord
    <2>2. q \in SessionRecord
      BY <1>1 DEF End, SessionRecord
    <2> HIDE DEF q
    <2>3. /\ proc' \in [Sessions -> SessionRecord]
          /\ proc'[session] = q
          /\ \A t \in Sessions : t # session => proc'[t] = proc[t]
      BY <1>1, <1>5, <2>2 DEF Typed, q
    <2>4. /\ ClosedOnlyIfRevived => ~ p.exited /\ ~ p.erred
          /\ q.status \in {"killed", "dead"}
      BY <1>1, <2>1 DEF Close, ClosedOnlyIfRevived, Counted, SessionRecord
    <2>5. \A t \in Sessions : LifeFits(proc'[t])
      <3>1. LifeFits(q)
        BY <1>1, <2>1 DEF LifeFits
      <3> QED
        BY <2>3, <3>1 DEF ShellInv
    <2>6. /\ Spawned' = Spawned /\ Crashed' = Crashed
          /\ Exited' = Exited /\ Erred' = Erred
      BY <1>1, <2>1, <2>3 DEF Spawned, Crashed, Exited, Erred
    <2>7. Killed' \subseteq {session}
      BY <1>1, <2>3 DEF Close, Counted, Killed
    <2>8. Counted'
      BY <1>1, <1>2, <1>5, <2>1, <2>3, <2>4, <2>6, <2>7 DEF Counted
    <2>9. Typed'
      BY <1>1, <1>2, <1>3, <2>3, <2>6 DEF Typed
    <2>11. ClosedOnlyIfRevived =>
              \A t \in Sessions : /\ ExitPending(t) => ExitPending(t)'
                                  /\ ExitPending(t)' \/ proc'[t].timer = proc[t].timer
      <3> SUFFICES ASSUME ClosedOnlyIfRevived, NEW t \in Sessions
                   PROVE  /\ ExitPending(t) => ExitPending(t)'
                          /\ ExitPending(t)' \/ proc'[t].timer = proc[t].timer
        OBVIOUS
      <3>1. CASE t = session
        BY <2>1, <2>3, <2>4, <3>1 DEF ExitPending
      <3>2. CASE t # session
        BY <2>3, <3>2 DEF ExitPending
      <3> QED
        BY <3>1, <3>2
    <2>12. Covered'
      <3>1. CASE ClosedOnlyIfRevived
        BY <1>1, <1>2, <1>3, <2>11, <3>1, CoverKept DEF OwnsTimer
      <3>2. CASE ~ ClosedOnlyIfRevived
        BY <3>2 DEF Covered
      <3> QED
        BY <3>1, <3>2
    <2> QED
      BY <2>5, <2>8, <2>9, <2>12 DEF ShellInv
  <1> QED
    BY <1>4, <1>5 DEF Close

(* An event that ends session s, seen for the first time, cuts off every     *)
(* collector of s; a revival takes a session nobody has used.                *)
LEMMA OnExitKeepsInv ==
    ASSUME ShellInv, NEW s \in Sessions, NEW code, NEW p \in SessionRecord,
           proc[s].status = "dead",
           p.status = "dead", p.code = proc[s].code, ~ p.broken,
           \/ ~ proc[s].exited /\ p.exited /\ p.erred = proc[s].erred
           \/ ~ proc[s].erred /\ p.erred /\ p.exited = proc[s].exited,
           OnExit(s, code, p), UNCHANGED closing
    PROVE  ShellInv'
  <1> DEFINE next == Cardinality(Spawned) + 1
             q == End(p)
             revived == proc' = [proc EXCEPT ![s] = q, ![next] = NewSession]
                        /\ session' = next
             left == proc' = [proc EXCEPT ![s] = q] /\ session' = session
                     /\ Revive # "always"
  <1>1. /\ Typed /\ Counted /\ Covered
        /\ session \in Sessions /\ proc[s] \in SessionRecord /\ LifeFits(proc[s])
        /\ s \in Spawned
    BY DEF ShellInv, Typed, Spawned
  <1>2. /\ Cardinality(Spawned) \in Nat
        /\ next \in Sessions /\ next \notin Spawned /\ next # s
    BY <1>1, RoomForOneMore DEF ShellInv
  <1>3. UNCHANGED <<started, strays>> /\ (revived \/ left)
    BY DEF OnExit, RevivesOn
  <1>4. /\ q \in SessionRecord
        /\ q.status = "dead" /\ q.code = p.code /\ q.exited = p.exited
        /\ q.erred = p.erred /\ q.broken = p.broken
    BY DEF End, SessionRecord
  <1> HIDE DEF q, next
  <1>5. /\ proc' \in [Sessions -> SessionRecord]
        /\ proc'[s] = q
        /\ \A t \in Sessions : t \notin {s, next} => proc'[t] = proc[t]
        /\ proc'[next] \in {proc[next], NewSession}
        /\ revived => proc'[next] = NewSession
        /\ left => proc'[next] = proc[next]
    BY <1>1, <1>2, <1>3, <1>4, NewSessionIsRunning DEF Typed
  <1>6. /\ \A c \in Calls : /\ coll'[c].on = coll[c].on
                            /\ c \notin CutOffBy(s) => coll'[c].state = coll[c].state
                            /\ c \in CutOffBy(s) => coll'[c].state = "cutoff"
        /\ coll' = [c \in Calls |-> [state |-> coll'[c].state, on |-> coll'[c].on,
                                     result |-> coll'[c].result]]
    <2>1. coll' = [c \in Calls |-> IF c \in CutOffBy(s)
                                   THEN [coll[c] EXCEPT !.state = "cutoff"]
                                   ELSE coll[c]]
      BY DEF OnExit
    <2>2. \A c \in Calls : coll[c] = [state |-> coll[c].state, on |-> coll[c].on,
                                      result |-> coll[c].result]
      BY <1>1 DEF Typed
    <2>3. \A c \in Calls :
            [coll[c] EXCEPT !.state = "cutoff"]
              = [state |-> "cutoff", on |-> coll[c].on, result |-> coll[c].result]
      <3>1. ASSUME NEW r, r = [state |-> r.state, on |-> r.on, result |-> r.result]
            PROVE  [r EXCEPT !.state = "cutoff"]
                     = [state |-> "cutoff", on |-> r.on, result |-> r.result]
        BY <3>1
      <3> QED
        BY <2>2, <3>1
    <2>4. \A c \in Calls :
            coll'[c] = [state |-> IF c \in CutOffBy(s) THEN "cutoff" ELSE coll[c].state,
                        on |-> coll[c].on, result |-> coll[c].result]
      BY <2>1, <2>2, <2>3
    <2> HIDE DEF CutOffBy
    <2>5. DOMAIN coll' = Calls /\ coll' = [c \in Calls |-> coll'[c]]
      BY <2>1
    <2> QED
      BY <2>4, <2>5
  <1>7. /\ Open' = Open \ CutOffBy(s)
        /\ CutOffBy(s)' = {}
        /\ \A t \in Sessions : t # s => CutOffBy(t)' = CutOffBy(t)
        /\ CutOffBy(next) = {}
    BY <1>1, <1>2, <1>6 DEF Open, CutOffBy, Typed
  <1>8. \A t \in Sessions : LifeFits(proc'[t])
    <2>1. LifeFits(q)
      BY <1>1, <1>4 DEF LifeFits
    <2>2. LifeFits(NewSession)
      BY NewSessionIsRunning DEF LifeFits
    <2> QED
      BY <1>2, <1>5, <2>1, <2>2 DEF ShellInv
  <1>9. proc[next].status = "unborn"
    BY <1>2 DEF Spawned
  <1>10. /\ revived => Spawned' = Spawned \cup {next}
         /\ left => Spawned' = Spawned
    BY <1>1, <1>2, <1>4, <1>5, <1>9, NewSessionIsRunning DEF Spawned
  <1>11. /\ Crashed' = Crashed /\ Killed' = Killed
    <2>1. /\ proc[next].code = None /\ ~ proc[next].exited /\ ~ proc[next].erred
      BY <1>2, <1>9 DEF ShellInv, LifeFits
    <2>2. \A t \in Sessions : proc'[t].code = proc[t].code
      BY <1>4, <1>5, <2>1, NewSessionIsRunning
    <2>3. \A t \in Sessions : proc'[t].status = "killed" <=> proc[t].status = "killed"
      BY <1>4, <1>5, <1>9, NewSessionIsRunning
    <2> QED
      BY <2>2, <2>3 DEF Crashed, Killed
  <1>12. \/ Exited' = Exited \cup {s} /\ s \notin Exited /\ Erred' = Erred
         \/ Erred' = Erred \cup {s} /\ s \notin Erred /\ Exited' = Exited
    <2>1. /\ ~ proc[next].exited /\ ~ proc[next].erred
      BY <1>2, <1>9 DEF ShellInv, LifeFits
    <2> QED
      BY <1>4, <1>5, <2>1, NewSessionIsRunning DEF Exited, Erred
  <1>13. Counted'
    <2>1. /\ IsFiniteSet(Spawned) /\ IsFiniteSet(Exited) /\ IsFiniteSet(Erred)
          /\ Cardinality(Exited) \in Nat /\ Cardinality(Erred) \in Nat
      <3>1. MaxCrashes \in Nat
        BY ShellAssumption
      <3>2. IsFiniteSet(Sessions)
        BY <3>1, FS_Interval DEF Sessions
      <3>3. /\ Spawned \in SUBSET Sessions /\ Exited \in SUBSET Sessions
            /\ Erred \in SUBSET Sessions
        BY DEF Spawned, Exited, Erred
      <3> QED
        BY <3>2, <3>3, FS_Subset, FS_CardinalityType
    <2>2. Cardinality(Exited') + Cardinality(Erred')
            = Cardinality(Exited) + Cardinality(Erred) + 1
      <3>1. CASE Exited' = Exited \cup {s} /\ s \notin Exited /\ Erred' = Erred
        <4>1. Cardinality(Exited') = Cardinality(Exited) + 1
          BY <2>1, <3>1, FS_AddElement
        <4> QED
          BY <2>1, <3>1, <4>1
      <3>2. CASE Erred' = Erred \cup {s} /\ s \notin Erred /\ Exited' = Exited
        <4>1. Cardinality(Erred') = Cardinality(Erred) + 1
          BY <2>1, <3>2, FS_AddElement
        <4> QED
          BY <2>1, <3>2, <4>1
      <3> QED
        BY <1>12, <3>1, <3>2
    <2>3. /\ Cardinality(Exited') \in Nat /\ Cardinality(Erred') \in Nat
      BY <1>12, <2>1, FS_AddElement, FS_CardinalityType
    <2>4. Cardinality(Spawned) <= 1 + Cardinality(Exited) + Cardinality(Erred)
      BY <1>1 DEF Counted
    <2>5. CASE revived
      <3>1. Spawned' = Spawned \cup {next}
        BY <1>10, <2>5
      <3>2. Cardinality(Spawned') = next
        BY <1>2, <2>1, <3>1, FS_AddElement DEF next
      <3>3. Spawned' = 1 .. next
        <4>1. Spawned = 1 .. Cardinality(Spawned)
          BY <1>1 DEF Counted
        <4>2. \A n \in Nat : (1 .. n) \cup {n + 1} = 1 .. n + 1
          OBVIOUS
        <4>3. (1 .. Cardinality(Spawned)) \cup {next} = 1 .. next
          BY <1>2, <4>2 DEF next
        <4> QED
          BY <3>1, <4>1, <4>3
      <3>4. next <= 1 + Cardinality(Exited') + Cardinality(Erred')
        BY <1>2, <2>1, <2>2, <2>3, <2>4 DEF next
      <3>5. ~ proc'[session'].exited /\ ~ proc'[session'].erred
        BY <1>5, <2>5, NewSessionIsRunning
      <3> QED
        BY <1>1, <1>11, <3>2, <3>3, <3>4, <3>5 DEF Counted
    <2>6. CASE left
      <3>1. Spawned' = Spawned
        BY <1>10, <2>6
      <3>2. Cardinality(Spawned) <= 1 + Cardinality(Exited') + Cardinality(Erred')
        BY <1>2, <2>1, <2>2, <2>3, <2>4
      <3> QED
        BY <1>1, <1>11, <2>6, <3>1, <3>2 DEF Counted
    <2> QED
      BY <1>3, <2>5, <2>6
  <1>14. Typed'
    <2>1. session' \in Spawned' /\ Spawned \subseteq Spawned'
      BY <1>1, <1>3, <1>10 DEF Typed
    <2>2. \A c \in Calls : /\ coll'[c].state \in CollectorStates
                           /\ c \in Open' => coll'[c].on \in Spawned'
      BY <1>1, <1>6, <1>7, <2>1 DEF Typed, CollectorStates
    <2>3. \A c \in Open' : \E i \in 1 .. Len(started') : started'[i] = c
      BY <1>1, <1>3, <1>7 DEF Typed
    <2> QED
      BY <1>1, <1>3, <1>5, <1>6, <2>1, <2>2, <2>3 DEF Typed
  <1>15. Covered'
    <2>1. \A t \in Sessions : CutOffBy(t)' \subseteq CutOffBy(t)
      BY <1>7
    <2>2. \A t \in Sessions : CutOffBy(t)' # {} => proc'[t] = proc[t]
      <3> SUFFICES ASSUME NEW t \in Sessions, CutOffBy(t)' # {}
                   PROVE  proc'[t] = proc[t]
        OBVIOUS
      <3>1. t # s
        BY <1>7
      <3>2. t # next
        BY <1>2, <1>7
      <3> QED
        BY <1>5, <3>1, <3>2
    <2>3. \A t \in Sessions : \A c \in CutOffBy(t)' :
              /\ c \in strays => c \in strays'
              /\ ExitPending(t) => ExitPending(t)'
              /\ OwnsTimer(c, t) => ExitPending(t)' \/ proc'[t].timer = c
      BY <1>3, <2>2 DEF ExitPending, OwnsTimer
    <2> QED
      BY <1>1, <1>3, <2>1, <2>3, CoverKept
  <1> QED
    BY <1>8, <1>13, <1>14, <1>15 DEF ShellInv

(* The first exit event of a session. *)
LEMMA ExitEventKeepsInv ==
    ASSUME ShellInv, NEW s \in Sessions, ExitEvent(s)
    PROVE  ShellInv'
  <1> DEFINE p == [proc[s] EXCEPT !.exited = TRUE]
  <1>1. proc[s] \in SessionRecord
    BY DEF ShellInv, Typed
  <1>2. /\ p \in SessionRecord /\ p.exited
        /\ p.status = proc[s].status /\ p.code = proc[s].code
        /\ p.erred = proc[s].erred /\ p.broken = proc[s].broken
    BY <1>1 DEF SessionRecord
  <1>3. /\ OnExit(s, proc[s].code, p) /\ UNCHANGED closing
        /\ proc[s].status = "dead" /\ ~ proc[s].exited /\ ~ proc[s].broken
    BY DEF ExitEvent, OnExit
  <1> HIDE DEF p
  <1> QED
    BY <1>2, <1>3, OnExitKeepsInv

(* A write fails at most once: its error makes Node destroy the stream. *)
LEMMA StdinErrorKeepsInv ==
    ASSUME ShellInv, NEW s \in Sessions, StdinError(s)
    PROVE  ShellInv'
  <1> DEFINE p == [proc[s] EXCEPT !.erred = TRUE, !.broken = FALSE]
  <1>1. proc[s] \in SessionRecord /\ LifeFits(proc[s])
    BY DEF ShellInv, Typed
  <1>2. /\ p \in SessionRecord /\ p.erred /\ ~ p.broken
        /\ p.status = proc[s].status /\ p.code = proc[s].code
        /\ p.exited = proc[s].exited
    BY <1>1 DEF SessionRecord
  <1>3. /\ OnExit(s, "error", p) /\ UNCHANGED closing
        /\ proc[s].status = "dead" /\ ~ proc[s].erred
    BY <1>1 DEF StdinError, OnExit, LifeFits
  <1> HIDE DEF p
  <1> QED
    BY <1>2, <1>3, OnExitKeepsInv

(* A collector answers at the first postamble and otherwise goes on. *)
LEMMA CollectedShape ==
    ASSUME NEW r, r = [state |-> r.state, on |-> r.on, result |-> r.result],
           NEW lines
    PROVE  LET new == Collected(r, lines)
           IN  /\ new = [state |-> new.state, on |-> r.on, result |-> new.result]
               /\ new.state = IF \E i \in 1 .. Len(lines) : IsPostamble(lines[i])
                              THEN "answered" ELSE r.state
  <1> DEFINE kept == KeptLines(lines)
             ends == \E i \in 1 .. Len(lines) : IsPostamble(lines[i])
  <1>1. Collected(r, lines) = [r EXCEPT !.result = r.result \o kept,
                                        !.state = IF ends THEN "answered" ELSE r.state]
    BY Zenon DEF Collected
  <1> HIDE DEF kept, ends
  <1>2. Collected(r, lines) = [state |-> IF ends THEN "answered" ELSE r.state,
                               on |-> r.on, result |-> r.result \o kept]
    BY <1>1
  <1> QED
    BY <1>2 DEF ends

(* A chunk of lines ends every collection of the session or none; in the     *)
(* latter case the timer stays with the collector that registered last.      *)
LEMMA DeliverKeepsInv ==
    ASSUME AllFromStdout, ShellInv, NEW s \in Sessions, NEW stream \in Streams,
           Deliver(s, stream)
    PROVE  ShellInv'
  <1> DEFINE p == proc[s]
             hearers == Hearers(s, stream)
  <1>1. /\ Typed /\ Counted /\ Covered /\ p \in SessionRecord
    BY DEF ShellInv, Typed
  <1>2. PICK n \in 1 .. Len(p[stream]) :
          LET lines == SubSeq(p[stream], 1, n)
          IN  /\ coll' = [c \in Calls |-> IF c \in hearers THEN Collected(coll[c], lines)
                                                            ELSE coll[c]]
              /\ proc' = [proc EXCEPT
                            ![s][stream] = SubSeq(@, n + 1, Len(@)),
                            ![s].timer = TimerAfter(@, hearers, lines)]
    BY DEF Deliver
  <1> DEFINE lines == SubSeq(p[stream], 1, n)
             timer == TimerAfter(p.timer, hearers, lines)
             ends == \E i \in 1 .. Len(lines) : IsPostamble(lines[i])
  <1>3. UNCHANGED <<session, started, strays, closing>>
    BY DEF Deliver
  <1>4. hearers = IF stream = "stdout" THEN CutOffBy(s) ELSE {}
    BY DEF AllFromStdout, Hearers, ListensTo, CutOffBy, Streams
  <1>5. /\ p[stream] \in Seq(OutputLine)
        /\ Len(lines) \in Nat /\ Len(lines) # 0
    <2>1. p[stream] \in Seq(OutputLine)
      BY <1>1 DEF Streams, SessionRecord
    <2>2. n \in Nat /\ n # 0 /\ n <= Len(p[stream])
      BY <2>1
    <2>3. Len(lines) = n
      BY <2>1, <2>2
    <2> QED
      BY <2>1, <2>2, <2>3
  <1> HIDE DEF hearers, lines
  <1>6. /\ hearers # {} /\ ~ ends => \E i : IsLast(i, s) /\ timer = started[i]
        /\ hearers = {} => timer = p.timer
        /\ timer \in Calls \cup {None}
    <2>1. CASE hearers = {}
      <3>1. timer = p.timer
        BY <2>1 DEF TimerAfter
      <3> QED
        BY <1>1, <2>1, <3>1 DEF SessionRecord
    <2>2. CASE hearers # {}
      <3>1. hearers = CutOffBy(s)
        BY <1>4, <2>2
      <3>2. PICK i : IsLast(i, s)
        BY <1>1, <2>2, <3>1, LastExists
      <3>3. Latest(hearers) = started[i]
        BY <1>1, <3>1, <3>2, LatestIsLast
      <3>4. started[i] \in Calls
        BY <3>2 DEF IsLast, CutOffBy, Open
      <3>5. timer = None \/ timer = Latest(hearers)
        BY <2>2 DEF TimerAfter
      <3>6. ~ ends => timer = Latest(hearers)
        BY <1>5, <2>2 DEF TimerAfter
      <3> QED
        BY <2>2, <3>2, <3>3, <3>4, <3>5, <3>6
    <2> QED
      BY <2>1, <2>2
  <1> HIDE DEF timer
  <1>7. /\ proc' \in [Sessions -> SessionRecord]
        /\ proc'[s].timer = timer
        /\ \A t \in Sessions : t # s => proc'[t] = proc[t]
        /\ \A t \in Sessions :
              /\ proc'[t].status = proc[t].status /\ proc'[t].code = proc[t].code
              /\ proc'[t].exited = proc[t].exited /\ proc'[t].erred = proc[t].erred
              /\ proc'[t].broken = proc[t].broken
    <2> DEFINE rest == SubSeq(p[stream], n + 1, Len(p[stream]))
    <2>1. rest \in Seq(OutputLine)
      <3>1. n + 1 \in Nat /\ n + 1 >= 1 /\ Len(p[stream]) \in Nat
        BY <1>5
      <3> QED
        BY <1>5, <3>1
    <2> DEFINE q == IF stream = "stdout"
                    THEN [p EXCEPT !.stdout = rest, !.timer = timer]
                    ELSE [p EXCEPT !.stderr = rest, !.timer = timer]
    <2>2. proc' = [proc EXCEPT ![s][stream] = rest, ![s].timer = timer]
      BY <1>1, <1>2 DEF Typed, lines, timer
    <2> HIDE DEF rest
    <2>3. proc' = [proc EXCEPT ![s] = q]
      <3>1. CASE stream = "stdout"
        BY <1>1, <2>2, <3>1 DEF Typed, SessionRecord
      <3>2. CASE stream = "stderr"
        BY <1>1, <2>2, <3>2 DEF Typed, SessionRecord
      <3> QED
        BY <3>1, <3>2 DEF Streams
    <2>4. /\ q \in SessionRecord /\ q.timer = timer
          /\ q.status = p.status /\ q.code = p.code
          /\ q.exited = p.exited /\ q.erred = p.erred /\ q.broken = p.broken
      <3>1. CASE stream = "stdout"
        BY <1>1, <1>6, <2>1, <3>1 DEF SessionRecord
      <3>2. CASE stream # "stdout"
        BY <1>1, <1>6, <2>1, <3>2 DEF SessionRecord
      <3> QED
        BY <3>1, <3>2
    <2> HIDE DEF q
    <2> QED
      BY <1>1, <2>3, <2>4 DEF Typed
  <1>8. /\ \A c \in Calls : /\ coll'[c].on = coll[c].on
                            /\ coll'[c].state = IF c \in hearers /\ ends
                                                THEN "answered" ELSE coll[c].state
        /\ coll' = [c \in Calls |-> [state |-> coll'[c].state, on |-> coll'[c].on,
                                     result |-> coll'[c].result]]
    <2>1. coll' = [c \in Calls |-> IF c \in hearers THEN Collected(coll[c], lines)
                                                    ELSE coll[c]]
      BY <1>2 DEF lines
    <2>2. ASSUME NEW c \in Calls
          PROVE  /\ coll'[c].on = coll[c].on
                 /\ coll'[c].state = IF c \in hearers /\ ends
                                     THEN "answered" ELSE coll[c].state
                 /\ coll'[c] = [state |-> coll'[c].state, on |-> coll'[c].on,
                                result |-> coll'[c].result]
      <3>1. coll[c] = [state |-> coll[c].state, on |-> coll[c].on,
                       result |-> coll[c].result]
        BY <1>1 DEF Typed
      <3>2. LET new == Collected(coll[c], lines)
            IN  /\ new = [state |-> new.state, on |-> coll[c].on, result |-> new.result]
                /\ new.state = IF ends THEN "answered" ELSE coll[c].state
        BY <3>1, CollectedShape
      <3>3. CASE c \in hearers
        BY <2>1, <3>2, <3>3
      <3>4. CASE c \notin hearers
        BY <2>1, <3>1, <3>4
      <3> QED
        BY <3>3, <3>4
    <2>3. coll' = [c \in Calls |-> coll'[c]]
      BY <2>1
    <2> QED
      BY <2>2, <2>3
  <1> HIDE DEF ends
  <1>9. /\ Open' \subseteq Open
        /\ \A t \in Sessions : CutOffBy(t)' \subseteq CutOffBy(t)
        /\ hearers # {} /\ ends => CutOffBy(s)' = {}
    <2>1. Open' \subseteq Open
      BY <1>8 DEF Open
    <2>2. \A t \in Sessions : CutOffBy(t)' \subseteq CutOffBy(t)
      BY <1>8, <2>1 DEF CutOffBy, Open
    <2>3. hearers # {} /\ ends => CutOffBy(s)' = {}
      <3> SUFFICES ASSUME hearers # {}, ends, NEW c \in CutOffBy(s)'
                   PROVE  FALSE
        OBVIOUS
      <3>1. c \in hearers /\ c \in Calls
        BY <1>4, <2>2 DEF CutOffBy, Open
      <3>2. coll'[c].state = "answered"
        BY <1>8, <3>1
      <3> QED
        BY <3>2 DEF CutOffBy, Open
    <2> QED
      BY <2>1, <2>2, <2>3
  <1>10. /\ Counted' /\ Spawned' = Spawned
         /\ \A t \in Sessions : LifeFits(proc'[t])
         /\ \A t \in Sessions : ExitPending(t)' <=> ExitPending(t)
    BY <1>3, <1>7, LivesKept
  <1>11. Typed'
    <2>1. \A c \in Calls : /\ coll'[c].state \in CollectorStates
                           /\ c \in Open' => coll'[c].on \in Spawned'
      BY <1>1, <1>8, <1>9, <1>10 DEF Typed, CollectorStates
    <2>2. \A c \in Open' : \E i \in 1 .. Len(started') : started'[i] = c
      BY <1>1, <1>3, <1>9 DEF Typed
    <2> QED
      BY <1>1, <1>3, <1>7, <1>8, <1>10, <2>1, <2>2 DEF Typed
  <1>12. Covered'
    <2>1. ASSUME NEW t \in Sessions, NEW c \in CutOffBy(t)', OwnsTimer(c, t)
          PROVE  proc'[t].timer = c
      <3>1. CASE t # s
        BY <1>7, <2>1, <3>1 DEF OwnsTimer
      <3>2. CASE t = s /\ hearers = {}
        BY <1>6, <1>7, <2>1, <3>2 DEF OwnsTimer
      <3>3. CASE t = s /\ hearers # {}
        <4>1. ~ ends
          BY <1>9, <3>3
        <4>2. PICK i : IsLast(i, s) /\ timer = started[i]
          BY <1>6, <3>3, <4>1
        <4>3. PICK k \in 1 .. Len(started) : started[k] = c /\ IsLast(k, s)
          BY <2>1, <3>3 DEF OwnsTimer
        <4>4. started[k] = started[i]
          BY <1>1, <4>2, <4>3, LatestIsLast
        <4> QED
          BY <1>7, <3>3, <4>2, <4>3, <4>4
      <3> QED
        BY <3>1, <3>2, <3>3
    <2> QED
      BY <1>1, <1>3, <1>9, <1>10, <2>1, CoverKept
  <1> QED
    BY <1>10, <1>11, <1>12 DEF ShellInv

-----------------------------------------------------------------------------
(* Every step of the shell, of R and of the program keeps the invariant. *)
LEMMA StepKeepsInv ==
    ASSUME AllFromStdout, ShellInv, [Next]_vars
    PROVE  ShellInv'
  <1>1. ASSUME NEW c \in Calls, SendCommandWithOutput(c) PROVE ShellInv'
    BY <1>1, SendKeepsInv
  <1>2. ASSUME NEW c \in Calls, TimerFires(c) PROVE ShellInv'
    BY <1>2, TimerFiresKeepsInv
  <1>3. ASSUME NEW s \in Sessions, RExecute(s) PROVE ShellInv'
    BY <1>3, RExecuteKeepsInv
  <1>4. ASSUME NEW s \in Sessions, NEW code \in {"zero", "nonzero", "signal"},
               RDies(s, code)
        PROVE  ShellInv'
    BY <1>4, RDiesKeepsInv
  <1>5. ASSUME NEW s \in Sessions, NEW stream \in Streams, Deliver(s, stream)
        PROVE  ShellInv'
    BY <1>5, DeliverKeepsInv
  <1>6. ASSUME NEW s \in Sessions, ExitEvent(s) PROVE ShellInv'
    BY <1>6, ExitEventKeepsInv
  <1>7. ASSUME NEW s \in Sessions, StdinError(s) PROVE ShellInv'
    BY <1>7, StdinErrorKeepsInv
  <1>8. CASE Close
    BY <1>8, CloseKeepsInv
  <1>9. CASE UNCHANGED vars
    <2>1. UNCHANGED <<session, proc, coll, started, strays, closing>>
      BY <1>9 DEF vars
    <2>2. proc' \in [Sessions -> SessionRecord]
      BY <2>1 DEF ShellInv, Typed
    <2>3. /\ Counted' /\ Spawned' = Spawned
          /\ \A s \in Sessions : LifeFits(proc'[s])
          /\ \A s \in Sessions : ExitPending(s)' <=> ExitPending(s)
      BY <2>1, <2>2, LivesKept
    <2>4. Open' = Open /\ \A s \in Sessions : CutOffBy(s)' = CutOffBy(s)
      BY <2>1, SameCollectors
    <2>5. Typed'
      BY <2>1, <2>3, <2>4 DEF ShellInv, Typed
    <2>6. Covered'
      BY <2>1, <2>3, <2>4, CoverKept DEF ShellInv, OwnsTimer
    <2> QED
      BY <2>3, <2>5, <2>6 DEF ShellInv
  <1> QED
    BY <1>1, <1>2, <1>3, <1>4, <1>5, <1>6, <1>7, <1>8, <1>9 DEF Next

(* So it holds in every state they can reach. *)
LEMMA ShellInvariant ==
    ASSUME AllFromStdout
    PROVE  Spec => []ShellInv
  <1>1. ShellInv /\ [Next]_vars => ShellInv'
    BY StepKeepsInv
  <1> QED
    BY <1>1, InitEstablishesInv, PTL DEF Spec

(* However many calls overlap and whatever R does, an open call that collects *)
(* from stdout always has something left that settles it.                    *)
THEOREM NoCallIsStranded ==
    ASSUME AllFromStdout, ClosedOnlyIfRevived
    PROVE  Spec => []OpenCallsCanSettle
  <1>1. ShellInv => OpenCallsCanSettle
    <2> SUFFICES ASSUME ShellInv, NEW c \in Open
                 PROVE  \/ c \in strays
                        \/ proc[coll[c].on].timer \in Open
                        \/ ExitPending(coll[c].on)
      BY DEF OpenCallsCanSettle, ExitPending
    <2>1. c \in CutOffBy(coll[c].on) /\ coll[c].on \in Sessions
      BY DEF ShellInv, Typed, CutOffBy, Open, Spawned
    <2> QED
      BY <2>1 DEF ShellInv, Covered, OwnsTimer
  <1> QED
    BY <1>1, ShellInvariant, PTL

-----------------------------------------------------------------------------
(***************************************************************************)
(* A caller that awaits each call of sendCommandWithOutput may regard the  *)
(* shell as a CommandChannel, for every number of calls, lines, crashes    *)
(* and revivals, and whether or not the shell is closed.                   *)
(*                                                                         *)
(* The inductive invariant follows one request through the pipes. As long  *)
(* as no call to a session has timed out, what the collector has, what is  *)
(* in stdout and what R still has to execute are, put together, the lines  *)
(* of the one open call and its postamble; with no call open the pipes are *)
(* empty. A call that times out leaves its request behind, and the session *)
(* is out of step for good.                                                *)
(***************************************************************************)


(* The program awaits each call before it makes the next.                    *)
Awaited == MaxOpen <= 1

(* started holds every call that was made, once, and at its end the open one.*)
Ordered ==
    /\ \A c \in Calls : coll[c].state = "idle" => coll[c].on = 0
    /\ \A c \in Calls : coll[c].state # "idle" => coll[c].on \in Spawned
    /\ \A i \in 1 .. Len(started) : coll[started[i]].state # "idle"
    /\ \A i, j \in 1 .. Len(started) : started[i] = started[j] => i = j
    /\ \A c \in Calls : coll[c].state # "idle" =>
          \E i \in 1 .. Len(started) : started[i] = c
    /\ \A c \in Open : \A i \in 1 .. Len(started) : started[i] = c => i = Len(started)

Full(c) == Append(Own(c), Postamble(c))

PostambleRequest(c) == <<[call |-> c, what |-> "postamble"]>>

(* R has printed the first m lines of the answer to c, and the collector has *)
(* the first k of them.                                                      *)
Talking(c, p, result) ==
    \E k \in 0 .. OutLines, m \in 0 .. OutLines + 1 :
        /\ k <= m
        /\ result = SubSeq(Own(c), 1, k)
        /\ p.stdout = SubSeq(Full(c), k + 1, m)
        /\ \/ p.stdin = <<>> /\ p.status = "dead"
           \/ p.stdin = Request(c) /\ m = 0
           \/ p.stdin = PostambleRequest(c) /\ m = OutLines
           \/ p.stdin = <<>> /\ m = OutLines + 1

Quiet(p) == p.stdin = <<>> /\ p.stdout = <<>>

PipesFit ==
    \A s \in InStep : ~ proc[s].ended =>
        /\ CutOffBy(s) = {} => Quiet(proc[s])
        /\ \A c \in CutOffBy(s) : Talking(c, proc[s], coll[c].result)

PrefixOf(c, result) == \E n \in 0 .. OutLines : result = SubSeq(Own(c), 1, n)

AnswersFit ==
    \A c \in Calls \ Behind :
        /\ coll[c].state \in {"collecting", "cutoff"} => PrefixOf(c, coll[c].result)
        /\ coll[c].state = "answered" => coll[c].result = Own(c)

TimersFit ==
    /\ \A s \in Sessions : proc[s].timer # None => coll[proc[s].timer].on = s
    /\ \A s \in InStep : proc[s].timer # None => proc[s].timer \in Open
    /\ \A c \in strays : coll[c].on \in Sessions \ InStep

ChannelInv ==
    /\ Ordered
    /\ PipesFit
    /\ AnswersFit
    /\ TimersFit
    /\ KeptLinesAreOwn

-----------------------------------------------------------------------------
(* One unfolding of the recursive function that KeptLines computes.          *)
KeptStep(h, lines, n) ==
    IF n = 0 THEN <<>>
    ELSE IF IsPostamble(lines[n]) THEN h[n - 1]
         ELSE Append(h[n - 1], lines[n])

(* A nonempty set of numbers has a least one. *)
LEMMA LeastExists ==
    ASSUME NEW n \in Nat, NEW T \in SUBSET (0 .. n), T # {}
    PROVE  \E i \in T : \A j \in T : i <= j
  <1> DEFINE M == {n + 1 - j : j \in T}
  <1>1. M \in SUBSET (1 .. n + 1) /\ M # {} /\ n + 1 \in Nat
    <2>1. \A j \in 0 .. n : n + 1 - j \in 1 .. n + 1
      OBVIOUS
    <2>2. \A j \in T : n + 1 - j \in 1 .. n + 1
      BY <2>1
    <2>3. PICK j \in T : TRUE
      OBVIOUS
    <2>4. n + 1 - j \in M
      BY <2>3
    <2>5. M \in SUBSET (1 .. n + 1)
      BY <2>2
    <2> QED
      BY <2>4, <2>5
  <1>2. PICK m \in M : \A k \in M : k <= m
    <2> HIDE DEF M
    <2> QED
      BY <1>1, GreatestExists
  <1>3. PICK i \in T : m = n + 1 - i
    OBVIOUS
  <1>4. \A j \in T : n + 1 - j <= n + 1 - i
    BY <1>2, <1>3
  <1> QED
    BY <1>4

(* A function that satisfies the equation of KeptLines is what it computes.  *)
LEMMA KeptLinesUnique ==
    ASSUME NEW lines \in Seq(OutputLine), NEW g,
           g = [n \in 0 .. Len(lines) |-> KeptStep(g, lines, n)]
    PROVE  KeptLines(lines) = g[Len(lines)]
  <1> DEFINE K == CHOOSE h : h = [n \in 0 .. Len(lines) |-> KeptStep(h, lines, n)]
             N == Len(lines)
             Wrong == {n \in 0 .. N : K[n] # g[n]}
  <1>1. K = [n \in 0 .. Len(lines) |-> KeptStep(K, lines, n)]
    BY Zenon
  <1>2. KeptLines(lines) = K[Len(lines)]
    BY Zenon DEF KeptLines, KeptStep
  <1>3. N \in Nat
    BY LenProperties
  <1> HIDE DEF K, N
  <1>4. /\ \A n \in 0 .. N : K[n] = KeptStep(K, lines, n)
        /\ \A n \in 0 .. N : g[n] = KeptStep(g, lines, n)
    BY <1>1 DEF N
  <1>5. Wrong = {}
    <2> SUFFICES ASSUME Wrong # {}
                 PROVE  FALSE
      OBVIOUS
    <2>1. Wrong \in SUBSET (0 .. N)
      OBVIOUS
    <2>2. PICK n \in Wrong : \A k \in Wrong : n <= k
      <3> HIDE DEF Wrong
      <3> QED
        BY <1>3, <2>1, LeastExists
    <2>3. n # 0
      BY <1>3, <1>4 DEF KeptStep
    <2>4. n - 1 \in 0 .. N /\ ~ (n <= n - 1)
      BY <1>3, <2>3
    <2>5. K[n - 1] = g[n - 1]
      BY <1>3, <2>2, <2>4
    <2>6. K[n] = g[n]
      BY <1>4, <2>5 DEF KeptStep
    <2> QED
      BY <2>6
  <1>6. K[N] = g[N]
    BY <1>3, <1>5
  <1> QED
    BY <1>2, <1>6 DEF N

(* Lines without a postamble are all kept. *)
LEMMA KeepsAllLines ==
    ASSUME NEW lines \in Seq(OutputLine),
           \A i \in 1 .. Len(lines) : ~ IsPostamble(lines[i])
    PROVE  KeptLines(lines) = lines
  <1> DEFINE g == [n \in 0 .. Len(lines) |-> SubSeq(lines, 1, n)]
  <1>1. Len(lines) \in Nat
    BY LenProperties
  <1>2. \A n \in 0 .. Len(lines) : SubSeq(lines, 1, n) = KeptStep(g, lines, n)
    <2> SUFFICES ASSUME NEW n \in 0 .. Len(lines)
                 PROVE  SubSeq(lines, 1, n) = KeptStep(g, lines, n)
      OBVIOUS
    <2>1. CASE n = 0
      BY <2>1, SubSeqEmpty DEF KeptStep
    <2>2. CASE n # 0
      <3>1. n \in 1 .. Len(lines) /\ n - 1 \in 0 .. Len(lines)
        BY <1>1, <2>2
      <3>2. KeptStep(g, lines, n) = Append(SubSeq(lines, 1, n - 1), lines[n])
        BY <2>2, <3>1 DEF KeptStep
      <3>3. SubSeq(lines, 1, n - 1) \in Seq(OutputLine) /\ lines[n] \in OutputLine
        BY <1>1, <3>1, SubSeqProperties, ElementOfSeq
      <3>4. SubSeq(lines, 1, n) = SubSeq(lines, 1, n - 1) \o <<lines[n]>>
        BY <1>1, <3>1, SubSeqRecursiveSecond
      <3> QED
        BY <3>2, <3>3, <3>4, AppendIsConcat
    <2> QED
      BY <2>1, <2>2
  <1>3. g = [n \in 0 .. Len(lines) |-> KeptStep(g, lines, n)]
    BY <1>2
  <1> HIDE DEF g
  <1>4. KeptLines(lines) = g[Len(lines)]
    BY <1>3, KeptLinesUnique
  <1> QED
    BY <1>1, <1>4, SubSeqFull DEF g

(* Of lines that end in their only postamble, the others are kept.           *)
LEMMA KeepsAllButLast ==
    ASSUME NEW lines \in Seq(OutputLine), lines # <<>>,
           \A i \in 1 .. Len(lines) : IsPostamble(lines[i]) <=> i = Len(lines)
    PROVE  KeptLines(lines) = SubSeq(lines, 1, Len(lines) - 1)
  <1> DEFINE N == Len(lines)
             upTo(n) == IF n = N THEN n - 1 ELSE n
             g == [n \in 0 .. N |-> SubSeq(lines, 1, upTo(n))]
  <1>1. N \in Nat /\ N # 0
    BY EmptySeq, LenProperties
  <1>2. \A n \in 0 .. N : SubSeq(lines, 1, upTo(n)) = KeptStep(g, lines, n)
    <2> SUFFICES ASSUME NEW n \in 0 .. N
                 PROVE  SubSeq(lines, 1, upTo(n)) = KeptStep(g, lines, n)
      OBVIOUS
    <2>1. CASE n = 0
      BY <1>1, <2>1, SubSeqEmpty DEF KeptStep
    <2>2. CASE n # 0
      <3>1. n \in 1 .. N /\ n - 1 \in 0 .. N /\ n - 1 # N
        BY <1>1, <2>2
      <3>2. g[n - 1] = SubSeq(lines, 1, n - 1)
        BY <3>1
      <3>3. CASE n = N
        <4>1. IsPostamble(lines[n])
          BY <3>1, <3>3
        <4> QED
          BY <2>2, <3>2, <3>3, <4>1 DEF KeptStep
      <3>4. CASE n # N
        <4>1. ~ IsPostamble(lines[n])
          BY <3>1, <3>4
        <4>2. KeptStep(g, lines, n) = Append(SubSeq(lines, 1, n - 1), lines[n])
          BY <2>2, <3>2, <4>1 DEF KeptStep
        <4>3. SubSeq(lines, 1, n - 1) \in Seq(OutputLine) /\ lines[n] \in OutputLine
          BY <1>1, <3>1, SubSeqProperties, ElementOfSeq
        <4>4. SubSeq(lines, 1, n) = SubSeq(lines, 1, n - 1) \o <<lines[n]>>
          BY <1>1, <3>1, SubSeqRecursiveSecond
        <4> QED
          BY <3>4, <4>2, <4>3, <4>4, AppendIsConcat
      <3> QED
        BY <3>3, <3>4
    <2> QED
      BY <2>1, <2>2
  <1>3. g = [n \in 0 .. N |-> KeptStep(g, lines, n)]
    BY <1>2
  <1> HIDE DEF g
  <1>4. KeptLines(lines) = g[N]
    BY <1>3, KeptLinesUnique
  <1> QED
    BY <1>1, <1>4 DEF g

(* What the answer to a call looks like: its own lines, then its postamble.  *)
LEMMA FullShape ==
    ASSUME NEW c \in Calls
    PROVE  /\ OutLines \in Nat
           /\ Own(c) \in Seq(OutputLine) /\ Len(Own(c)) = OutLines
           /\ \A i \in 1 .. OutLines : Own(c)[i].call = c /\ ~ IsPostamble(Own(c)[i])
           /\ Full(c) \in Seq(OutputLine) /\ Len(Full(c)) = OutLines + 1
           /\ \A i \in 1 .. OutLines : Full(c)[i] = Own(c)[i]
           /\ Full(c)[OutLines + 1] = Postamble(c)
           /\ \A i \in 1 .. OutLines + 1 : IsPostamble(Full(c)[i]) <=> i = OutLines + 1
  <1>1. OutLines \in Nat
    BY ShellAssumption
  <1>2. Own(c) \in Seq(OutputLine) /\ Len(Own(c)) = OutLines
    BY <1>1, OwnLines DEF Own
  <1>3. \A i \in 1 .. OutLines : Own(c)[i].call = c /\ Own(c)[i].stream = "stdout"
    BY <1>1 DEF Own
  <1>4. Postamble(c).stream = "postamble" /\ Postamble(c) \in OutputLine
    BY OwnLines DEF Postamble
  <1>5. /\ Full(c) \in Seq(OutputLine) /\ Len(Full(c)) = OutLines + 1
        /\ \A i \in 1 .. OutLines : Full(c)[i] = Own(c)[i]
        /\ Full(c)[OutLines + 1] = Postamble(c)
    BY <1>2, <1>4, AppendProperties DEF Full
  <1>6. \A i \in 1 .. OutLines + 1 : IsPostamble(Full(c)[i]) <=> i = OutLines + 1
    <2> SUFFICES ASSUME NEW i \in 1 .. OutLines + 1
                 PROVE  IsPostamble(Full(c)[i]) <=> i = OutLines + 1
      OBVIOUS
    <2>1. i \in 1 .. OutLines \/ i = OutLines + 1
      BY <1>1
    <2>2. OutLines + 1 \notin 1 .. OutLines
      BY <1>1
    <2> QED
      BY <1>3, <1>4, <1>5, <2>1, <2>2 DEF IsPostamble
  <1> QED
    BY <1>1, <1>2, <1>3, <1>5, <1>6 DEF IsPostamble

(* A part of a sequence, element by element. *)
LEMMA PartOf ==
    ASSUME NEW F \in Seq(OutputLine), NEW i \in Nat, NEW j \in Nat,
           i <= j, j <= Len(F)
    PROVE  /\ SubSeq(F, i + 1, j) \in Seq(OutputLine)
           /\ Len(SubSeq(F, i + 1, j)) = j - i
           /\ \A x \in 1 .. j - i : SubSeq(F, i + 1, j)[x] = F[i + x]
  <1>1. Len(F) \in Nat /\ F \in [1 .. Len(F) -> OutputLine]
    BY LenProperties
  <1>2. \A x \in i + 1 .. j : F[x] \in OutputLine
    BY <1>1
  <1>3. i + 1 \in Int /\ j \in Int
    OBVIOUS
  <1>4. /\ SubSeq(F, i + 1, j) \in Seq(OutputLine)
        /\ Len(SubSeq(F, i + 1, j)) = IF i + 1 <= j THEN j - (i + 1) + 1 ELSE 0
        /\ \A x \in 1 .. j - (i + 1) + 1 : SubSeq(F, i + 1, j)[x] = F[i + 1 + x - 1]
    BY <1>2, <1>3, SubSeqProperties
  <1>5. /\ (IF i + 1 <= j THEN j - (i + 1) + 1 ELSE 0) = j - i
        /\ j - (i + 1) + 1 = j - i
        /\ \A x \in Nat : i + 1 + x - 1 = i + x
    OBVIOUS
  <1> QED
    BY <1>4, <1>5

(* What is left of a part of a sequence when a chunk is taken from its front.*)
LEMMA ChunkOfPart ==
    ASSUME NEW F \in Seq(OutputLine), NEW i \in Nat, NEW j \in Nat,
           i <= j, j <= Len(F), NEW n \in 1 .. j - i
    PROVE  LET out == SubSeq(F, i + 1, j)
           IN  /\ SubSeq(out, 1, n) = SubSeq(F, i + 1, i + n)
               /\ SubSeq(out, n + 1, Len(out)) = SubSeq(F, i + n + 1, j)
  <1> DEFINE out == SubSeq(F, i + 1, j)
  <1>1. out \in Seq(OutputLine) /\ Len(out) = j - i
        /\ \A x \in 1 .. j - i : out[x] = F[i + x]
    BY PartOf
  <1>2. n \in Nat /\ i + n \in Nat /\ i + n <= j /\ i + n <= Len(F) /\ n <= Len(out)
        /\ j - i \in Nat /\ Len(F) \in Nat
    BY <1>1, LenProperties
  <1> HIDE DEF out
  <1>3. SubSeq(out, 1, n) = SubSeq(F, i + 1, i + n)
    <2> DEFINE a == SubSeq(out, 0 + 1, n)
               b == SubSeq(F, i + 1, i + n)
    <2>1. /\ a \in Seq(OutputLine) /\ Len(a) = n - 0
          /\ \A x \in 1 .. n - 0 : a[x] = out[0 + x]
      BY <1>1, <1>2, PartOf
    <2>2. /\ b \in Seq(OutputLine) /\ Len(b) = i + n - i
          /\ \A x \in 1 .. i + n - i : b[x] = F[i + x]
      BY <1>1, <1>2, PartOf
    <2> HIDE DEF a, b
    <2>3. Len(a) = n /\ Len(b) = n
      BY <1>2, <2>1, <2>2
    <2>4. \A x \in 1 .. n : a[x] = b[x]
      <3> SUFFICES ASSUME NEW x \in 1 .. n
                   PROVE  a[x] = b[x]
        OBVIOUS
      <3>1. x \in 1 .. n - 0 /\ 0 + x = x /\ x \in 1 .. i + n - i /\ x \in 1 .. j - i
        BY <1>2
      <3> QED
        BY <1>1, <2>1, <2>2, <3>1
    <2>5. a = b
      BY <2>1, <2>2, <2>3, <2>4, SeqEqual
    <2> QED
      BY <2>5 DEF a, b
  <1>4. SubSeq(out, n + 1, Len(out)) = SubSeq(F, i + n + 1, j)
    <2> DEFINE a == SubSeq(out, n + 1, Len(out))
               b == SubSeq(F, i + n + 1, j)
    <2>1. /\ a \in Seq(OutputLine) /\ Len(a) = Len(out) - n
          /\ \A x \in 1 .. Len(out) - n : a[x] = out[n + x]
      BY <1>1, <1>2, PartOf
    <2>2. /\ b \in Seq(OutputLine) /\ Len(b) = j - (i + n)
          /\ \A x \in 1 .. j - (i + n) : b[x] = F[i + n + x]
      BY <1>1, <1>2, PartOf
    <2> HIDE DEF a, b
    <2>3. Len(out) - n = j - (i + n)
      BY <1>1, <1>2
    <2>4. \A x \in 1 .. j - (i + n) : a[x] = b[x]
      <3> SUFFICES ASSUME NEW x \in 1 .. j - (i + n)
                   PROVE  a[x] = b[x]
        OBVIOUS
      <3>1. a[x] = out[n + x] /\ b[x] = F[i + n + x]
        BY <2>1, <2>2, <2>3
      <3>2. n + x \in 1 .. j - i /\ i + (n + x) = i + n + x
        BY <1>2
      <3> QED
        BY <1>1, <3>1, <3>2
    <2>5. a = b
      BY <2>1, <2>2, <2>3, <2>4, SeqEqual
    <2> QED
      BY <2>5 DEF a, b
  <1> QED
    BY <1>3, <1>4 DEF out

(* What a collector that has k lines of its answer makes of a chunk of the   *)
(* lines that follow: it ends with the postamble, and has all lines then.    *)
LEMMA ChunkOfAnswer ==
    ASSUME NEW c \in Calls, NEW k \in 0 .. OutLines, NEW m \in 0 .. OutLines + 1,
           k <= m, NEW n \in 1 .. m - k
    PROVE  LET lines == SubSeq(Full(c), k + 1, k + n)
               got == SubSeq(Own(c), 1, k) \o KeptLines(lines)
           IN  /\ k + n \in 1 .. OutLines + 1
               /\ lines \in Seq(OutputLine) /\ Len(lines) = n
               /\ IsPostamble(lines[n]) <=> k + n = OutLines + 1
               /\ (\E i \in 1 .. n : IsPostamble(lines[i])) <=> k + n = OutLines + 1
               /\ k + n = OutLines + 1 => got = Own(c)
               /\ k + n # OutLines + 1 => got = SubSeq(Own(c), 1, k + n)
  <1> DEFINE F == Full(c)
             lines == SubSeq(F, k + 1, k + n)
             own == Own(c)
  <1>1. /\ OutLines \in Nat /\ k \in Nat /\ n \in Nat /\ n >= 1
        /\ k + n \in Nat /\ k + n \in 1 .. OutLines + 1
    BY ShellAssumption
  <1>2. /\ own \in Seq(OutputLine) /\ Len(own) = OutLines
        /\ F \in Seq(OutputLine) /\ Len(F) = OutLines + 1
        /\ \A i \in 1 .. OutLines : F[i] = own[i]
        /\ \A i \in 1 .. OutLines + 1 : IsPostamble(F[i]) <=> i = OutLines + 1
    BY FullShape
  <1> HIDE DEF F, own
  <1>3. /\ lines \in Seq(OutputLine) /\ Len(lines) = n
        /\ \A x \in 1 .. n : lines[x] = F[k + x]
    <2>1. k + n - k = n /\ k <= k + n /\ k + n <= Len(F)
      BY <1>1, <1>2
    <2> QED
      BY <1>1, <1>2, <2>1, PartOf
  <1>4. \A x \in 1 .. n : IsPostamble(lines[x]) <=> k + x = OutLines + 1
    BY <1>1, <1>2, <1>3
  <1>5. \A x \in 1 .. n : k + x <= OutLines => lines[x] = own[k + x]
    BY <1>1, <1>2, <1>3
  <1> HIDE DEF lines
  <1>6. /\ IsPostamble(lines[n]) <=> k + n = OutLines + 1
        /\ (\E i \in 1 .. n : IsPostamble(lines[i])) <=> k + n = OutLines + 1
    <2>1. n \in 1 .. n
      BY <1>1
    <2>2. \A x \in 1 .. n : k + x = OutLines + 1 => x = n
      BY <1>1
    <2> QED
      BY <1>4, <2>1, <2>2
  <1> DEFINE a == SubSeq(own, 1, k)
             K == KeptLines(lines)
             got == a \o K
  <1>7. /\ a \in Seq(OutputLine) /\ Len(a) = k
        /\ \A x \in 1 .. k : a[x] = own[x]
    <2> DEFINE b == SubSeq(own, 0 + 1, k)
    <2>1. /\ b \in Seq(OutputLine) /\ Len(b) = k - 0
          /\ \A x \in 1 .. k - 0 : b[x] = own[0 + x]
      BY <1>1, <1>2, PartOf
    <2>2. k - 0 = k /\ \A x \in Nat : 0 + x = x
      BY <1>1
    <2> QED
      BY <1>1, <2>1, <2>2
  <1>8. CASE k + n = OutLines + 1
    <2>1. K = SubSeq(lines, 1, n - 1)
      <3>1. \A x \in 1 .. n : IsPostamble(lines[x]) <=> x = n
        BY <1>1, <1>4, <1>8
      <3>2. lines # <<>>
        BY <1>1, <1>3, EmptySeq
      <3> QED
        BY <1>3, <3>1, <3>2, KeepsAllButLast
    <2>2. /\ K \in Seq(OutputLine) /\ Len(K) = n - 1
          /\ \A x \in 1 .. n - 1 : K[x] = lines[x]
      <3> DEFINE b == SubSeq(lines, 0 + 1, n - 1)
      <3>1. n - 1 \in Nat /\ 0 <= n - 1 /\ n - 1 <= Len(lines)
        BY <1>1, <1>3
      <3>2. /\ b \in Seq(OutputLine) /\ Len(b) = n - 1 - 0
            /\ \A x \in 1 .. n - 1 - 0 : b[x] = lines[0 + x]
        BY <1>3, <3>1, PartOf
      <3>3. n - 1 - 0 = n - 1 /\ \A x \in Nat : 0 + x = x
        BY <1>1
      <3> QED
        BY <2>1, <3>1, <3>2, <3>3
    <2> HIDE DEF K, a
    <2>3. /\ got \in Seq(OutputLine) /\ Len(got) = k + (n - 1)
          /\ \A x \in 1 .. k + (n - 1) : got[x] = IF x <= k THEN a[x] ELSE K[x - k]
      <3>1. /\ a \o K \in Seq(OutputLine)
            /\ Len(a \o K) = Len(a) + Len(K)
            /\ \A x \in 1 .. Len(a) + Len(K) : (a \o K)[x] =
                  IF x <= Len(a) THEN a[x] ELSE K[x - Len(a)]
        BY <1>7, <2>2, ConcatProperties
      <3> QED
        BY <1>7, <2>2, <3>1
    <2> HIDE DEF got
    <2>4. k + (n - 1) = OutLines
      BY <1>1, <1>8
    <2>5. \A x \in 1 .. OutLines : got[x] = own[x]
      <3> SUFFICES ASSUME NEW x \in 1 .. OutLines
                   PROVE  got[x] = own[x]
        OBVIOUS
      <3>1. CASE x <= k
        <4>1. x \in 1 .. k
          BY <1>1, <3>1
        <4> QED
          BY <1>7, <2>3, <2>4, <3>1, <4>1
      <3>2. CASE ~ (x <= k)
        <4>1. /\ x - k \in 1 .. n - 1 /\ x - k \in 1 .. n
              /\ k + (x - k) = x /\ k + (x - k) <= OutLines
          BY <1>1, <2>4, <3>2
        <4>2. got[x] = K[x - k]
          BY <2>3, <2>4, <3>2
        <4>3. K[x - k] = lines[x - k] /\ lines[x - k] = own[k + (x - k)]
          BY <1>5, <2>2, <4>1
        <4> QED
          BY <4>1, <4>2, <4>3
      <3> QED
        BY <3>1, <3>2
    <2>6. got = own
      BY <1>2, <2>3, <2>4, <2>5, SeqEqual
    <2> QED
      BY <1>1, <1>3, <1>6, <1>8, <2>6 DEF got, K, a, lines, own, F
  <1>9. CASE k + n # OutLines + 1
    <2>1. k + n <= OutLines
      BY <1>1, <1>9
    <2>2. K = lines
      <3>1. \A x \in 1 .. n : ~ IsPostamble(lines[x])
        BY <1>6, <1>9
      <3> QED
        BY <1>3, <3>1, KeepsAllLines
    <2> DEFINE b == SubSeq(own, 1, k + n)
    <2>3. /\ b \in Seq(OutputLine) /\ Len(b) = k + n
          /\ \A x \in 1 .. k + n : b[x] = own[x]
      <3> DEFINE d == SubSeq(own, 0 + 1, k + n)
      <3>1. /\ d \in Seq(OutputLine) /\ Len(d) = k + n - 0
            /\ \A x \in 1 .. k + n - 0 : d[x] = own[0 + x]
        BY <1>1, <1>2, <2>1, PartOf
      <3>2. k + n - 0 = k + n /\ \A x \in Nat : 0 + x = x
        BY <1>1
      <3> QED
        BY <1>1, <3>1, <3>2
    <2> HIDE DEF K, a, b
    <2>4. /\ got \in Seq(OutputLine) /\ Len(got) = k + n
          /\ \A x \in 1 .. k + n : got[x] = IF x <= k THEN a[x] ELSE lines[x - k]
      <3>1. /\ a \o lines \in Seq(OutputLine)
            /\ Len(a \o lines) = Len(a) + Len(lines)
            /\ \A x \in 1 .. Len(a) + Len(lines) : (a \o lines)[x] =
                  IF x <= Len(a) THEN a[x] ELSE lines[x - Len(a)]
        BY <1>3, <1>7, ConcatProperties
      <3> QED
        BY <1>3, <1>7, <2>2, <3>1
    <2> HIDE DEF got
    <2>5. \A x \in 1 .. k + n : got[x] = b[x]
      <3> SUFFICES ASSUME NEW x \in 1 .. k + n
                   PROVE  got[x] = b[x]
        OBVIOUS
      <3>1. CASE x <= k
        <4>1. x \in 1 .. k
          BY <1>1, <3>1
        <4> QED
          BY <1>7, <2>3, <2>4, <3>1, <4>1
      <3>2. CASE ~ (x <= k)
        <4>1. /\ x - k \in 1 .. n /\ k + (x - k) = x /\ k + (x - k) <= OutLines
          BY <1>1, <2>1, <3>2
        <4>2. got[x] = lines[x - k] /\ lines[x - k] = own[k + (x - k)]
          BY <1>5, <2>4, <3>2, <4>1
        <4> QED
          BY <2>3, <4>1, <4>2
      <3> QED
        BY <3>1, <3>2
    <2>6. got = b
      BY <1>1, <2>3, <2>4, <2>5, SeqEqual
    <2> QED
      BY <1>1, <1>3, <1>6, <1>9, <2>6 DEF got, K, a, b, lines, own, F
  <1> QED
    BY <1>8, <1>9

(* The pieces of an answer that R and the shell put together. *)
LEMMA AnswerPieces ==
    ASSUME NEW c \in Calls
    PROVE  /\ OutLines \in Nat
           /\ SubSeq(Own(c), 1, 0) = <<>> /\ SubSeq(Full(c), 1, 0) = <<>>
           /\ \A k \in 0 .. OutLines : SubSeq(Full(c), 1, k) = SubSeq(Own(c), 1, k)
           /\ SubSeq(Own(c), 1, OutLines) = Own(c)
           /\ \A k \in 0 .. OutLines : Append(SubSeq(Full(c), k + 1, OutLines), Postamble(c))
                                          = SubSeq(Full(c), k + 1, OutLines + 1)
           /\ SubSeq(Full(c), OutLines + 2, OutLines + 1) = <<>>
           /\ \A k \in 0 .. OutLines : SubSeq(Own(c), 1, k) \in Seq(OutputLine)
           /\ <<>> \o Own(c) = Own(c)
  <1> DEFINE F == Full(c)
             own == Own(c)
  <1>1. /\ OutLines \in Nat
        /\ own \in Seq(OutputLine) /\ Len(own) = OutLines
        /\ F \in Seq(OutputLine) /\ Len(F) = OutLines + 1
        /\ \A i \in 1 .. OutLines : F[i] = own[i]
        /\ F[OutLines + 1] = Postamble(c)
    BY FullShape
  <1>2. Postamble(c) \in OutputLine
    BY OwnLines
  <1> HIDE DEF F, own
  <1>3. SubSeq(own, 1, 0) = <<>> /\ SubSeq(F, 1, 0) = <<>>
        /\ SubSeq(F, OutLines + 2, OutLines + 1) = <<>>
    BY <1>1, SubSeqEmpty
  <1>4. SubSeq(own, 1, OutLines) = own /\ <<>> \o own = own
    BY <1>1, SubSeqFull, ConcatEmptySeq
  <1>5. ASSUME NEW k \in 0 .. OutLines
        PROVE  /\ SubSeq(F, 1, k) = SubSeq(own, 1, k)
               /\ SubSeq(own, 1, k) \in Seq(OutputLine)
    <2> DEFINE a == SubSeq(F, 0 + 1, k)
               b == SubSeq(own, 0 + 1, k)
    <2>1. k \in Nat /\ k <= OutLines /\ k <= OutLines + 1 /\ 0 \in Nat /\ 0 <= k
      BY <1>1
    <2>2. /\ a \in Seq(OutputLine) /\ Len(a) = k - 0
          /\ \A x \in 1 .. k - 0 : a[x] = F[0 + x]
      BY <1>1, <2>1, PartOf
    <2>3. /\ b \in Seq(OutputLine) /\ Len(b) = k - 0
          /\ \A x \in 1 .. k - 0 : b[x] = own[0 + x]
      BY <1>1, <2>1, PartOf
    <2> HIDE DEF a, b
    <2>4. \A x \in 1 .. k - 0 : a[x] = b[x]
      <3>1. \A x \in 1 .. k - 0 : 0 + x \in 1 .. OutLines
        BY <1>1, <2>1
      <3> QED
        BY <1>1, <2>2, <2>3, <3>1
    <2>5. a = b
      BY <2>2, <2>3, <2>4, SeqEqual
    <2> QED
      BY <2>3, <2>5 DEF a, b
  <1>6. ASSUME NEW k \in 0 .. OutLines
        PROVE  Append(SubSeq(F, k + 1, OutLines), Postamble(c)) = SubSeq(F, k + 1, OutLines + 1)
    <2>1. k + 1 \in 1 .. Len(F) /\ OutLines + 1 \in k + 1 .. Len(F)
          /\ OutLines + 1 - 1 = OutLines
      BY <1>1
    <2>2. SubSeq(F, k + 1, OutLines + 1)
            = SubSeq(F, k + 1, OutLines + 1 - 1) \o <<F[OutLines + 1]>>
      BY <1>1, <2>1, SubSeqRecursiveSecond
    <2>3. SubSeq(F, k + 1, OutLines) \in Seq(OutputLine)
      <3>1. k \in Nat /\ OutLines \in Nat /\ k <= OutLines /\ OutLines <= Len(F)
        BY <1>1
      <3> QED
        BY <1>1, <3>1, PartOf
    <2> QED
      BY <1>1, <1>2, <2>1, <2>2, <2>3, AppendIsConcat
  <1> QED
    BY <1>1, <1>3, <1>4, <1>5, <1>6 DEF F, own

(* A prefix of the answer to c is empty or starts with a line of c.          *)
LEMMA PrefixStart ==
    ASSUME NEW c \in Calls, NEW result, PrefixOf(c, result), result # <<>>
    PROVE  result[1].call = c
  <1>1. PICK n \in 0 .. OutLines : result = SubSeq(Own(c), 1, n)
    BY DEF PrefixOf
  <1>2. n # 0
    BY <1>1, AnswerPieces
  <1>3. /\ OutLines \in Nat /\ Own(c) \in Seq(OutputLine) /\ Len(Own(c)) = OutLines
        /\ \A i \in 1 .. OutLines : Own(c)[i].call = c
    BY FullShape
  <1>4. 1 \in 1 .. n - 0 /\ 1 \in 1 .. OutLines /\ n \in Nat /\ 0 <= n /\ n <= Len(Own(c))
        /\ 0 + 1 = 1
    BY <1>2, <1>3
  <1>5. SubSeq(Own(c), 0 + 1, n)[1] = Own(c)[0 + 1]
    BY <1>3, <1>4, PartOf
  <1> QED
    BY <1>1, <1>3, <1>4, <1>5

-----------------------------------------------------------------------------
(* At most one call is open: the one that started last.                      *)
LEMMA OneOpen ==
    ASSUME Typed, Ordered
    PROVE  \A c, d \in Open : c = d
  <1> SUFFICES ASSUME NEW c \in Open, NEW d \in Open
               PROVE  c = d
    OBVIOUS
  <1>1. PICK i \in 1 .. Len(started) : started[i] = c
    BY DEF Typed
  <1>2. PICK j \in 1 .. Len(started) : started[j] = d
    BY DEF Typed
  <1>3. i = Len(started) /\ j = Len(started)
    BY <1>1, <1>2 DEF Ordered
  <1> QED
    BY <1>1, <1>2, <1>3

(* The open call is behind exactly if its session is out of step. *)
LEMMA OpenIsBehind ==
    ASSUME Typed, Ordered, NEW c \in Open
    PROVE  /\ c \in Behind <=> coll[c].on \notin InStep
           /\ coll[c].on \in Sessions
  <1> DEFINE N == Len(started)
  <1>1. N \in Nat /\ c \in Calls
    BY DEF Typed, Open
  <1>2. PICK n \in 1 .. N : started[n] = c
    BY DEF Typed
  <1>3. n = N /\ \A i \in 1 .. N : started[i] = c => i = N
    BY <1>2 DEF Ordered
  <1>4. \A i \in 1 .. N : started[i] \in Calls
    BY ElementOfSeq DEF Typed
  <1>5. coll[c].on \in Sessions
    BY DEF Typed, Spawned
  <1>6. ASSUME c \in Behind
        PROVE  coll[c].on \notin InStep
    <2>1. PICK k \in 1 .. N : /\ started[k] = c
                              /\ \E i \in 1 .. k - 1 :
                                    /\ coll[started[i]].state = "timedout"
                                    /\ coll[started[i]].on = coll[started[k]].on
      BY <1>6 DEF Behind
    <2>2. PICK i \in 1 .. k - 1 : /\ coll[started[i]].state = "timedout"
                                  /\ coll[started[i]].on = coll[c].on
      BY <2>1
    <2>3. i \in 1 .. N
      BY <1>1
    <2> QED
      BY <1>4, <2>2, <2>3 DEF InStep
  <1>7. ASSUME coll[c].on \notin InStep
        PROVE  c \in Behind
    <2>1. PICK d \in Calls : coll[d].on = coll[c].on /\ coll[d].state = "timedout"
      BY <1>5, <1>7 DEF InStep
    <2>2. PICK i \in 1 .. N : started[i] = d
      BY <2>1 DEF Ordered
    <2>3. i # N
      BY <1>2, <1>3, <2>1, <2>2 DEF Open
    <2>4. i \in 1 .. N - 1 /\ N \in 1 .. N
      BY <1>1, <2>3
    <2> QED
      BY <1>2, <1>3, <2>1, <2>2, <2>4 DEF Behind
  <1> QED
    BY <1>5, <1>6, <1>7

(* The latest of some open calls is one of them. *)
LEMMA LatestIsOpen ==
    ASSUME Typed, Ordered, NEW S \in SUBSET Open, S # {}
    PROVE  Latest(S) \in S
  <1> DEFINE P(k) == /\ started[k] \in S
                     /\ \A j \in k + 1 .. Len(started) : started[j] \notin S
             last == CHOOSE k \in 1 .. Len(started) : P(k)
  <1>1. PICK c \in S : TRUE
    OBVIOUS
  <1>2. PICK n \in 1 .. Len(started) : started[n] = c
    BY DEF Typed
  <1>3. n = Len(started) /\ Len(started) \in Nat
    BY <1>2, LenProperties DEF Ordered, Typed
  <1>4. P(n)
    <2>1. \A j \in n + 1 .. Len(started) : FALSE
      BY <1>3
    <2> QED
      BY <1>2, <2>1
  <1>5. P(last)
    BY <1>2, <1>4
  <1> QED
    BY <1>5 DEF Latest

(* A step that only settles open calls leaves the same calls behind.         *)
LEMMA BehindKept ==
    ASSUME Typed, Ordered, started' = started,
           \A c \in Calls : /\ coll'[c].on = coll[c].on
                            /\ c \notin Open => coll'[c].state = coll[c].state
    PROVE  Behind' = Behind
  <1> DEFINE N == Len(started)
  <1>1. N \in Nat /\ \A i \in 1 .. N : started[i] \in Calls
    BY ElementOfSeq, LenProperties DEF Typed
  <1>2. \A i \in 1 .. N - 1 : /\ coll'[started[i]].state = coll[started[i]].state
                              /\ coll'[started[i]].on = coll[started[i]].on
    <2> SUFFICES ASSUME NEW i \in 1 .. N - 1
                 PROVE  /\ coll'[started[i]].state = coll[started[i]].state
                        /\ coll'[started[i]].on = coll[started[i]].on
      OBVIOUS
    <2>1. i \in 1 .. N /\ i # N
      BY <1>1
    <2>2. started[i] \in Calls \ Open
      BY <1>1, <2>1 DEF Ordered
    <2> QED
      BY <2>2
  <1>3. \A k \in 1 .. N : \A i \in 1 .. k - 1 : i \in 1 .. N - 1
    BY <1>1
  <1>4. \A k \in 1 .. N : coll'[started[k]].on = coll[started[k]].on
    BY <1>1
  <1>5. \A k \in 1 .. N : \A i \in 1 .. k - 1 :
           (/\ coll[started[i]].state = "timedout"
            /\ coll[started[i]].on = coll[started[k]].on)'
           <=> /\ coll[started[i]].state = "timedout"
               /\ coll[started[i]].on = coll[started[k]].on
    BY <1>2, <1>3, <1>4
  <1> QED
    BY <1>5 DEF Behind

(* A step that only settles open calls keeps the order of the calls, and who *)
(* is behind.                                                                *)
LEMMA SettlingKeepsOrder ==
    ASSUME Typed, Typed', Ordered, started' = started, Spawned \subseteq Spawned',
           \A c \in Calls : /\ coll'[c].on = coll[c].on
                            /\ c \notin Open => coll'[c].state = coll[c].state
                            /\ c \in Open => coll'[c].state # "idle"
    PROVE  /\ Ordered'
           /\ Behind' = Behind
           /\ InStep' \subseteq InStep
           /\ Open' \subseteq Open
  <1> DEFINE N == Len(started)
  <1>1. N \in Nat /\ \A i \in 1 .. N : started[i] \in Calls
    BY ElementOfSeq, LenProperties DEF Typed
  <1>2. Open' \subseteq Open
    BY DEF Open
  <1>3. InStep' \subseteq InStep
    BY DEF InStep, Open
  <1>4. Ordered'
    <2>1. \A c \in Calls : coll'[c].state = "idle" <=> coll[c].state = "idle"
      BY DEF Open
    <2> QED
      BY <1>1, <1>2, <2>1 DEF Ordered
  <1>5. Behind' = Behind
    BY BehindKept
  <1> QED
    BY <1>2, <1>3, <1>4, <1>5

(* A step that leaves the collectors alone keeps the invariant if it keeps   *)
(* what is in the pipes.                                                     *)
LEMMA PipeStepKeepsChannel ==
    ASSUME Typed, Typed', ChannelInv, PipesFit', Spawned \subseteq Spawned',
           UNCHANGED <<coll, started, versionCache, tempDirs>>,
           strays' \subseteq strays,
           \A s \in Sessions : proc'[s].timer \in {proc[s].timer, None}
    PROVE  ChannelInv'
  <1>1. /\ Ordered' /\ Behind' = Behind /\ Open' = Open
    <2>1. Open' = Open
      BY SameCollectors
    <2> QED
      BY <2>1, SettlingKeepsOrder DEF ChannelInv, Open
  <1>2. InStep' = InStep
    BY DEF InStep
  <1>3. AnswersFit'
    BY <1>1 DEF ChannelInv, AnswersFit
  <1>4. TimersFit'
    <2>1. TimersFit /\ InStep \subseteq Sessions
      BY DEF ChannelInv, InStep
    <2>2. \A s \in Sessions : proc'[s].timer # None =>
             proc'[s].timer = proc[s].timer /\ proc[s].timer # None
      OBVIOUS
    <2> QED
      BY <1>1, <1>2, <2>1, <2>2 DEF TimersFit
  <1>5. KeptLinesAreOwn'
    BY <1>2 DEF ChannelInv, KeptLinesAreOwn
  <1> QED
    BY <1>1, <1>3, <1>4, <1>5 DEF ChannelInv

(* The pipes of the sessions that a step does not touch. *)
LEMMA OtherPipesKept ==
    ASSUME Typed, PipesFit, UNCHANGED coll, NEW s,
           \A t \in Sessions : t # s => proc'[t] = proc[t],
           s \in InStep /\ ~ proc'[s].ended =>
               /\ CutOffBy(s) = {} => Quiet(proc'[s])
               /\ \A c \in CutOffBy(s) : Talking(c, proc'[s], coll[c].result)
    PROVE  PipesFit'
  <1>1. InStep' = InStep /\ \A t \in Sessions : CutOffBy(t)' = CutOffBy(t)
    BY SameCollectors DEF InStep
  <1>2. SUFFICES ASSUME NEW t \in InStep, ~ proc'[t].ended
                 PROVE  /\ CutOffBy(t) = {} => Quiet(proc'[t])
                        /\ \A c \in CutOffBy(t) : Talking(c, proc'[t], coll[c].result)
    <2>1. InStep \subseteq Sessions
      BY DEF InStep
    <2> QED
      BY <1>1, <1>2, <2>1 DEF PipesFit
  <1>3. CASE t = s
    BY <1>2, <1>3
  <1>4. CASE t # s
    <2>1. proc'[t] = proc[t]
      BY <1>4 DEF InStep
    <2> QED
      BY <1>2, <2>1 DEF PipesFit
  <1> QED
    BY <1>3, <1>4

(* The lines of one request, as R reads them. *)
LEMMA RequestLines ==
    ASSUME NEW c \in Calls
    PROVE  /\ Request(c) # <<>> /\ Head(Request(c)) = [call |-> c, what |-> "command"]
           /\ Tail(Request(c)) = PostambleRequest(c)
           /\ PostambleRequest(c) # <<>>
           /\ Head(PostambleRequest(c)) = [call |-> c, what |-> "postamble"]
           /\ Tail(PostambleRequest(c)) = <<>>
  BY DEF Request, PostambleRequest

(* R prints the lines of the open call, and then its postamble. *)
LEMMA RExecuteKeepsChannel ==
    ASSUME AllFromStdout, Typed, Typed', ChannelInv, NEW s \in Sessions, RExecute(s)
    PROVE  ChannelInv'
  <1> DEFINE p == proc[s]
             line == Head(p.stdin)
             out == CASE line.what = "command" -> p.stdout \o Own(line.call)
                      [] line.what = "postamble" /\ line.call \notin StderrCalls
                           -> Append(p.stdout, Postamble(line.call))
                      [] OTHER -> p.stdout
             err == CASE line.what = "command" -> p.stderr \o OwnErr(line.call)
                      [] line.what = "postamble" /\ line.call \in StderrCalls
                           -> Append(p.stderr, Postamble(line.call))
                      [] OTHER -> p.stderr
             q == [p EXCEPT !.stdin = Tail(p.stdin), !.stdout = out, !.stderr = err]
  <1>1. p \in SessionRecord /\ p.stdin # <<>> /\ p.status \in {"running", "killed"}
    BY DEF RExecute, Typed
  <1>2. proc' = [proc EXCEPT ![s] = q]
    BY <1>1 DEF RExecute, Typed
  <1> HIDE DEF out, err
  <1>3. /\ q.stdin = Tail(p.stdin) /\ q.stdout = out /\ q.status = p.status
        /\ q.timer = p.timer /\ q.ended = p.ended
    BY <1>1 DEF SessionRecord
  <1> HIDE DEF q
  <1>4. /\ proc'[s] = q
        /\ \A t \in Sessions : t # s => proc'[t] = proc[t]
    BY <1>2 DEF Typed
  <1>5. UNCHANGED <<session, coll, started, strays, versionCache, tempDirs>>
    BY DEF RExecute
  <1>6. Spawned' = Spawned
    BY <1>3, <1>4 DEF Spawned
  <1>7. ASSUME s \in InStep, ~ q.ended
        PROVE  /\ CutOffBy(s) = {} => Quiet(q)
               /\ \A c \in CutOffBy(s) : Talking(c, q, coll[c].result)
    <2>1. CutOffBy(s) # {}
      BY <1>1, <1>3, <1>7 DEF ChannelInv, PipesFit, Quiet
    <2>2. ASSUME NEW c \in CutOffBy(s)
          PROVE  Talking(c, q, coll[c].result)
      <3>1. Talking(c, p, coll[c].result) /\ c \in Calls
        BY <1>3, <1>7, <2>2 DEF ChannelInv, PipesFit, CutOffBy, Open
      <3>2. PICK k \in 0 .. OutLines, m \in 0 .. OutLines + 1 :
               /\ k <= m
               /\ coll[c].result = SubSeq(Own(c), 1, k)
               /\ p.stdout = SubSeq(Full(c), k + 1, m)
               /\ \/ p.stdin = Request(c) /\ m = 0
                  \/ p.stdin = PostambleRequest(c) /\ m = OutLines
        BY <1>1, <3>1 DEF Talking
      <3>3. OutLines \in Nat
        BY ShellAssumption
      <3>4. CASE p.stdin = Request(c) /\ m = 0
        <4>1. line.call = c /\ line.what = "command" /\ q.stdin = PostambleRequest(c)
          BY <1>3, <3>1, <3>4, RequestLines
        <4>2. k = 0 /\ p.stdout = <<>>
          BY <3>1, <3>2, <3>3, <3>4, AnswerPieces
        <4>3. q.stdout = p.stdout \o Own(c)
          BY <1>3, <4>1 DEF out
        <4>4. q.stdout = SubSeq(Full(c), k + 1, OutLines)
          <5>1. <<>> \o Own(c) = Own(c) /\ SubSeq(Own(c), 1, OutLines) = Own(c)
                /\ SubSeq(Full(c), 1, OutLines) = SubSeq(Own(c), 1, OutLines)
                /\ k + 1 = 1
            BY <4>2, <3>1, <3>3, AnswerPieces
          <5> QED
            BY <4>2, <4>3, <5>1
        <4>5. OutLines \in 0 .. OutLines + 1 /\ k <= OutLines
          BY <3>3
        <4> QED
          BY <3>2, <4>1, <4>4, <4>5 DEF Talking
      <3>5. CASE p.stdin = PostambleRequest(c) /\ m = OutLines
        <4>1. line.call = c /\ line.what = "postamble" /\ q.stdin = <<>>
          BY <1>3, <3>1, <3>5, RequestLines
        <4>2. q.stdout = Append(p.stdout, Postamble(c))
          BY <1>3, <4>1 DEF out, AllFromStdout
        <4>3. q.stdout = SubSeq(Full(c), k + 1, OutLines + 1)
          BY <3>1, <3>2, <3>5, <4>2, AnswerPieces
        <4>4. OutLines + 1 \in 0 .. OutLines + 1 /\ k <= OutLines + 1
          BY <3>3
        <4> QED
          BY <3>2, <4>1, <4>3, <4>4 DEF Talking
      <3> QED
        BY <3>2, <3>4, <3>5
    <2> QED
      BY <2>1, <2>2
  <1>8. PipesFit'
    BY <1>4, <1>5, <1>7, OtherPipesKept DEF ChannelInv
  <1>9. \A t \in Sessions : proc'[t].timer = proc[t].timer
    BY <1>3, <1>4
  <1> QED
    BY <1>5, <1>6, <1>8, <1>9, PipeStepKeepsChannel

(* A process that ends in mid-command has printed a part of the answer. *)
LEMMA RDiesKeepsChannel ==
    ASSUME Typed, Typed', ChannelInv, NEW s \in Sessions,
           NEW code \in {"zero", "nonzero", "signal"}, RDies(s, code)
    PROVE  ChannelInv'
  <1> DEFINE p == proc[s]
  <1>1. PICK j \in 0 .. OutLines :
          /\ j > 0 => p.stdin # <<>> /\ Head(p.stdin).what = "command"
          /\ proc' = [proc EXCEPT
                        ![s].status = "dead",
                        ![s].code = code,
                        ![s].stdin = <<>>,
                        ![s].stdout = IF j = 0 THEN @
                                      ELSE @ \o SubSeq(Own(Head(proc[s].stdin).call), 1, j)]
    BY DEF RDies
  <1> DEFINE out == IF j = 0 THEN p.stdout
                    ELSE p.stdout \o SubSeq(Own(Head(p.stdin).call), 1, j)
             q == [p EXCEPT !.status = "dead", !.code = code, !.stdin = <<>>, !.stdout = out]
  <1>2. p \in SessionRecord /\ p.status \in {"running", "killed"}
    BY DEF RDies, Typed
  <1>3. proc' = [proc EXCEPT ![s] = q]
    BY <1>1 DEF Typed
  <1> HIDE DEF out
  <1>4. /\ q.stdin = <<>> /\ q.stdout = out /\ q.status = "dead"
        /\ q.timer = p.timer /\ q.ended = p.ended
    BY <1>2 DEF SessionRecord
  <1> HIDE DEF q
  <1>5. /\ proc'[s] = q
        /\ \A t \in Sessions : t # s => proc'[t] = proc[t]
    BY <1>3 DEF Typed
  <1>6. UNCHANGED <<session, coll, started, strays, versionCache, tempDirs>>
    BY DEF RDies
  <1>7. Spawned' = Spawned
    BY <1>2, <1>4, <1>5 DEF Spawned
  <1>8. OutLines \in Nat /\ j \in Nat
    BY ShellAssumption
  <1>9. ASSUME s \in InStep, ~ q.ended
        PROVE  /\ CutOffBy(s) = {} => Quiet(q)
               /\ \A c \in CutOffBy(s) : Talking(c, q, coll[c].result)
    <2>1. CutOffBy(s) = {} => Quiet(q)
      <3>1. CutOffBy(s) = {} => p.stdin = <<>> /\ p.stdout = <<>>
        BY <1>4, <1>9 DEF ChannelInv, PipesFit, Quiet
      <3>2. p.stdin = <<>> => j = 0
        BY <1>1, <1>8
      <3> QED
        BY <1>4, <3>1, <3>2 DEF Quiet, out
    <2>2. ASSUME NEW c \in CutOffBy(s)
          PROVE  Talking(c, q, coll[c].result)
      <3>1. Talking(c, p, coll[c].result) /\ c \in Calls
        BY <1>4, <1>9, <2>2 DEF ChannelInv, PipesFit, CutOffBy, Open
      <3>2. PICK k \in 0 .. OutLines, m \in 0 .. OutLines + 1 :
               /\ k <= m
               /\ coll[c].result = SubSeq(Own(c), 1, k)
               /\ p.stdout = SubSeq(Full(c), k + 1, m)
               /\ \/ p.stdin = Request(c) /\ m = 0
                  \/ p.stdin = PostambleRequest(c) /\ m = OutLines
                  \/ p.stdin = <<>> /\ m = OutLines + 1
        BY <1>2, <3>1 DEF Talking
      <3>3. CASE j = 0
        BY <1>4, <3>2, <3>3 DEF Talking, out
      <3>4. CASE j # 0
        <4>1. Head(p.stdin).what = "command" /\ p.stdin # <<>>
          BY <1>1, <1>8, <3>4
        <4>2. p.stdin = Request(c) /\ m = 0
          BY <3>1, <3>2, <4>1, RequestLines
        <4>3. k = 0 /\ p.stdout = <<>>
          BY <1>8, <3>1, <3>2, <4>2, AnswerPieces
        <4>4. Head(p.stdin).call = c
          BY <3>1, <4>2, RequestLines
        <4>5. q.stdout = <<>> \o SubSeq(Own(c), 1, j)
          BY <1>4, <3>4, <4>3, <4>4 DEF out
        <4>6. q.stdout = SubSeq(Full(c), k + 1, j)
          <5>1. /\ SubSeq(Own(c), 1, j) \in Seq(OutputLine)
                /\ SubSeq(Full(c), 1, j) = SubSeq(Own(c), 1, j)
            BY <3>1, AnswerPieces
          <5>2. <<>> \o SubSeq(Own(c), 1, j) = SubSeq(Own(c), 1, j)
            BY <5>1, ConcatEmptySeq
          <5> QED
            BY <4>3, <4>5, <5>1, <5>2
        <4>7. j \in 0 .. OutLines + 1 /\ k <= j
          BY <1>8, <4>3
        <4> QED
          BY <1>4, <3>2, <4>6, <4>7 DEF Talking
      <3> QED
        BY <3>3, <3>4
    <2> QED
      BY <2>1, <2>2
  <1>10. PipesFit'
    BY <1>5, <1>6, <1>9, OtherPipesKept DEF ChannelInv
  <1>11. \A t \in Sessions : proc'[t].timer = proc[t].timer
    BY <1>4, <1>5
  <1> QED
    BY <1>6, <1>7, <1>10, <1>11, PipeStepKeepsChannel

(* A session that is closed delivers nothing more. *)
LEMMA CloseKeepsChannel ==
    ASSUME Typed, Typed', ChannelInv, Close
    PROVE  ChannelInv'
  <1>1. UNCHANGED <<session, coll, started, strays, versionCache, tempDirs>>
    BY DEF Close
  <1>2. CASE UNCHANGED proc
    <2>1. Spawned' = Spawned /\ \A t \in Sessions : proc'[t].timer = proc[t].timer
      BY <1>2 DEF Spawned
    <2>2. PipesFit'
      <3>1. InStep' = InStep /\ \A t \in Sessions : CutOffBy(t)' = CutOffBy(t)
        BY <1>1, SameCollectors DEF InStep
      <3>2. \A t \in InStep : t \in Sessions
        BY DEF InStep
      <3> QED
        BY <1>1, <1>2, <3>1, <3>2 DEF ChannelInv, PipesFit
    <2> QED
      BY <1>1, <2>1, <2>2, PipeStepKeepsChannel
  <1>3. CASE proc' = [proc EXCEPT ![session] = End(@)]
    <2> DEFINE q == End(proc[session])
    <2>1. session \in Sessions /\ proc[session] \in SessionRecord
          /\ proc[session].status # "unborn"
      BY DEF Typed, Spawned
    <2>2. q.ended /\ q.timer = None /\ q.status # "unborn"
      BY <2>1 DEF End, SessionRecord
    <2> HIDE DEF q
    <2>3. /\ proc'[session] = q
          /\ \A t \in Sessions : t # session => proc'[t] = proc[t]
      BY <1>3, <2>1 DEF Typed, q
    <2>4. PipesFit'
      BY <1>1, <2>2, <2>3, OtherPipesKept DEF ChannelInv
    <2>5. Spawned' = Spawned /\ \A t \in Sessions : proc'[t].timer \in {proc[t].timer, None}
      BY <2>1, <2>2, <2>3 DEF Spawned
    <2> QED
      BY <1>1, <2>4, <2>5, PipeStepKeepsChannel
  <1> QED
    BY <1>2, <1>3 DEF Close

(* A timer that fires for an open call puts its session out of step. *)
LEMMA TimerFiresKeepsChannel ==
    ASSUME Typed, Typed', ChannelInv, NEW c \in Calls, TimerFires(c)
    PROVE  ChannelInv'
  <1>1. UNCHANGED <<session, started, versionCache, tempDirs>>
    BY DEF TimerFires
  <1>2. /\ strays' \subseteq strays
        /\ \A t \in Sessions :
              /\ proc'[t].timer \in {proc[t].timer, None}
              /\ proc'[t].status = proc[t].status /\ proc'[t].ended = proc[t].ended
              /\ proc'[t].stdin = proc[t].stdin /\ proc'[t].stdout = proc[t].stdout
    <2>1. CASE UNCHANGED proc /\ strays' = strays \ {c}
      BY <2>1
    <2>2. CASE /\ UNCHANGED strays
               /\ \E s \in Sessions : /\ proc[s].timer = c
                                      /\ proc' = [proc EXCEPT ![s].timer = None]
      <3>1. PICK s \in Sessions : proc' = [proc EXCEPT ![s].timer = None]
        BY <2>2
      <3> DEFINE q == [proc[s] EXCEPT !.timer = None]
      <3>2. proc' = [proc EXCEPT ![s] = q]
        BY <3>1 DEF Typed
      <3>3. /\ q.timer = None
            /\ q.status = proc[s].status /\ q.ended = proc[s].ended
            /\ q.stdin = proc[s].stdin /\ q.stdout = proc[s].stdout
        <4>1. proc[s] \in SessionRecord
          BY DEF Typed
        <4> QED
          BY <4>1 DEF SessionRecord
      <3> HIDE DEF q
      <3> QED
        BY <2>2, <3>2, <3>3 DEF Typed
    <2> QED
      BY <2>1, <2>2 DEF TimerFires
  <1>3. /\ \A d \in Calls : /\ coll'[d].on = coll[d].on
                            /\ coll'[d].result = coll[d].result
                            /\ d # c \/ c \notin Open => coll'[d].state = coll[d].state
        /\ c \in Open => coll'[c].state = "timedout"
    <2> DEFINE r == [coll[c] EXCEPT !.state = IF @ = "collecting" THEN "timedout" ELSE @]
    <2>1. coll[c] = [state |-> coll[c].state, on |-> coll[c].on, result |-> coll[c].result]
      BY DEF Typed
    <2>2. /\ r.on = coll[c].on /\ r.result = coll[c].result
          /\ r.state = IF c \in Open THEN "timedout" ELSE coll[c].state
      BY <2>1 DEF Open
    <2>3. coll' = [coll EXCEPT ![c] = r]
      BY DEF TimerFires, Typed
    <2> HIDE DEF r
    <2>4. coll'[c] = r /\ \A d \in Calls : d # c => coll'[d] = coll[d]
      BY <2>3 DEF Typed
    <2> QED
      BY <2>2, <2>4
  <1>4. Spawned' = Spawned
    BY <1>2 DEF Spawned
  <1>5. /\ Ordered' /\ Behind' = Behind /\ InStep' \subseteq InStep
        /\ Open' = Open \ {c}
    <2>1. \A d \in Calls : /\ coll'[d].on = coll[d].on
                           /\ d \notin Open => coll'[d].state = coll[d].state
                           /\ d \in Open => coll'[d].state # "idle"
      BY <1>3 DEF Open
    <2>2. Open' = Open \ {c}
      BY <1>3 DEF Open
    <2> QED
      BY <1>1, <1>4, <2>1, <2>2, SettlingKeepsOrder DEF ChannelInv
  <1>6. c \in Open => coll[c].on \in Sessions \ InStep'
    BY <1>3 DEF Typed, InStep, Spawned
  <1>7. \A t \in InStep' : t \in Sessions /\ CutOffBy(t)' = CutOffBy(t)
    BY <1>3, <1>5, <1>6 DEF InStep, CutOffBy, Open
  <1>8. PipesFit'
    <2> SUFFICES ASSUME NEW t \in InStep', ~ proc'[t].ended
                 PROVE  /\ CutOffBy(t)' = {} => Quiet(proc'[t])
                        /\ \A d \in CutOffBy(t)' : Talking(d, proc'[t], coll'[d].result)
      BY DEF PipesFit
    <2>1. t \in InStep /\ t \in Sessions /\ ~ proc[t].ended /\ CutOffBy(t)' = CutOffBy(t)
      BY <1>2, <1>5, <1>7
    <2>2. CutOffBy(t)' = {} => Quiet(proc'[t])
      BY <1>2, <2>1 DEF ChannelInv, PipesFit, Quiet
    <2>3. ASSUME NEW d \in CutOffBy(t)'
          PROVE  Talking(d, proc'[t], coll'[d].result)
      <3>1. Talking(d, proc[t], coll[d].result) /\ d \in Calls
        BY <2>1, <2>3 DEF ChannelInv, PipesFit, CutOffBy, Open
      <3>2. coll'[d].result = coll[d].result
        BY <1>3, <3>1
      <3> QED
        BY <1>2, <2>1, <3>1, <3>2 DEF Talking
    <2> QED
      BY <2>2, <2>3
  <1>9. AnswersFit'
    <2> SUFFICES ASSUME NEW d \in Calls \ Behind
                 PROVE  /\ coll'[d].state \in {"collecting", "cutoff"} => PrefixOf(d, coll'[d].result)
                        /\ coll'[d].state = "answered" => coll'[d].result = Own(d)
      BY <1>5 DEF AnswersFit
    <2>1. coll'[d].result = coll[d].result
          /\ coll'[d].state \in {coll[d].state, "timedout"}
      BY <1>3
    <2> QED
      BY <2>1 DEF ChannelInv, AnswersFit
  <1>10. TimersFit'
    <2>1. /\ TimersFit /\ InStep \subseteq Sessions
          /\ \A t \in Sessions : proc[t].timer \in Calls \cup {None}
      BY DEF ChannelInv, InStep, Typed, SessionRecord
    <2>2. \A t \in Sessions : proc'[t].timer # None =>
             proc'[t].timer = proc[t].timer /\ proc[t].timer # None
      BY <1>2
    <2>3. \A t \in Sessions : proc'[t].timer # None => coll'[proc'[t].timer].on = t
      BY <1>3, <2>1, <2>2 DEF TimersFit
    <2>4. \A t \in InStep' : proc'[t].timer # None => proc'[t].timer \in Open'
      BY <1>3, <1>5, <1>6, <2>1, <2>2, <2>3 DEF TimersFit
    <2>5. \A d \in strays' : coll'[d].on \in Sessions \ InStep'
      BY <1>2, <1>3, <1>5, <2>1 DEF TimersFit, Typed
    <2> QED
      BY <2>3, <2>4, <2>5 DEF TimersFit
  <1>11. KeptLinesAreOwn'
    BY <1>1, <1>5 DEF ChannelInv, KeptLinesAreOwn, InStep
  <1> QED
    BY <1>5, <1>8, <1>9, <1>10, <1>11 DEF ChannelInv

(* With no call open, the next one puts its request into empty pipes. *)
LEMMA SendEffect ==
    ASSUME Awaited, Typed, Ordered, NEW c \in Calls, SendCommandWithOutput(c)
    PROVE  /\ Open = {} /\ Open' = {c} /\ InStep' = InStep /\ Spawned' = Spawned
           /\ coll[c].state = "idle"
           /\ coll'[c].state = "collecting" /\ coll'[c].on = session
           /\ coll'[c].result = <<>>
           /\ \A d \in Calls : d # c => coll'[d] = coll[d]
           /\ c \notin Behind
           /\ \A d \in Calls : d # c => (d \in Behind' <=> d \in Behind)
           /\ Ordered'
  <1> DEFINE N == Len(started)
  <1>1. Open = {}
    <2>1. MaxOpen \in Nat
      BY ShellAssumption
    <2>2. \A d, e \in Open : d = e
      BY OneOpen
    <2>3. ASSUME Open # {}
          PROVE  FALSE
      <3>1. PICK d \in Open : Open = {d}
        BY <2>2, <2>3
      <3>2. Cardinality(Open) = 1
        BY <3>1, FS_Singleton
      <3>3. Cardinality(Open) < MaxOpen /\ MaxOpen <= 1
        BY DEF SendCommandWithOutput, Awaited
      <3> QED
        BY <2>1, <3>2, <3>3
    <2> QED
      BY <2>3
  <1>2. /\ coll'[c].state = "collecting" /\ coll'[c].on = session
        /\ coll'[c].result = <<>>
        /\ \A d \in Calls : d # c => coll'[d] = coll[d]
        /\ coll[c].state = "idle" /\ coll[c].on = 0
    BY DEF SendCommandWithOutput, Typed, Ordered
  <1>3. /\ session \in Sessions /\ session \in Spawned /\ 0 \notin Sessions
    BY ShellAssumption DEF Typed, Spawned, Sessions
  <1>4. Open' = {c}
    BY <1>1, <1>2 DEF Open
  <1>5. InStep' = InStep
    <2>1. \A d \in Calls : coll'[d].state = "timedout" <=> coll[d].state = "timedout"
      BY <1>2
    <2>2. \A d \in Calls : coll[d].state = "timedout" => coll'[d].on = coll[d].on
      BY <1>2
    <2> QED
      BY <2>1, <2>2 DEF InStep
  <1>6. Spawned' = Spawned
    <2>1. /\ proc' = [proc EXCEPT ![session] = [Write(@, Request(c)) EXCEPT !.timer = c]]
          /\ proc[session] \in SessionRecord
      BY <1>3 DEF SendCommandWithOutput, Typed
    <2>2. [Write(proc[session], Request(c)) EXCEPT !.timer = c].status = proc[session].status
      <3>1. Write(proc[session], Request(c)) \in
               {[proc[session] EXCEPT !.broken = @ \/ ~ (proc[session].exited \/ proc[session].erred)],
                [proc[session] EXCEPT !.stdin = @ \o Request(c)]}
        BY DEF Write
      <3> QED
        BY <2>1, <3>1 DEF SessionRecord
    <2> QED
      BY <1>3, <2>1, <2>2 DEF Typed, Spawned
  <1>7. /\ started' = Append(started, c)
        /\ N \in Nat /\ Len(started') = N + 1 /\ started'[N + 1] = c
        /\ \A i \in 1 .. N : started'[i] = started[i]
        /\ \A i \in 1 .. N : started[i] \in Calls \ {c}
    <2>1. started' = Append(started, c) /\ started \in Seq(Calls)
      BY DEF SendCommandWithOutput, Typed
    <2>2. \A i \in 1 .. N : started[i] \in Calls \ {c}
      BY <1>2, <2>1, ElementOfSeq DEF Ordered
    <2> QED
      BY <2>1, <2>2, LenProperties, AppendProperties
  <1>8. c \notin Behind
    BY <1>7 DEF Behind
  <1>9. ASSUME NEW d \in Calls, d # c
        PROVE  d \in Behind' <=> d \in Behind
    <2>1. \A k \in 1 .. N : \A i \in 1 .. k - 1 : i \in 1 .. N
      BY <1>7
    <2>2. \A k \in 1 .. N : \A i \in 1 .. k - 1 :
             (/\ coll[started[i]].state = "timedout"
              /\ coll[started[i]].on = coll[started[k]].on)'
             <=> /\ coll[started[i]].state = "timedout"
                 /\ coll[started[i]].on = coll[started[k]].on
      BY <1>2, <1>7, <2>1
    <2>3. \A k \in 1 .. Len(started') : started'[k] = d => k \in 1 .. N
      BY <1>7, <1>9
    <2>4. \A k \in 1 .. N : k \in 1 .. Len(started')
      BY <1>7
    <2>5. d \in Behind <=> \E k \in 1 .. N : /\ started[k] = d
                                             /\ \E i \in 1 .. k - 1 :
                                                  /\ coll[started[i]].state = "timedout"
                                                  /\ coll[started[i]].on = coll[started[k]].on
      BY DEF Behind
    <2>6. d \in Behind' <=> \E k \in 1 .. Len(started') :
                               /\ started'[k] = d
                               /\ \E i \in 1 .. k - 1 :
                                    (/\ coll[started[i]].state = "timedout"
                                     /\ coll[started[i]].on = coll[started[k]].on)'
      BY DEF Behind
    <2> QED
      BY <1>7, <2>2, <2>3, <2>4, <2>5, <2>6
  <1>10. Ordered'
    <2>1. /\ \A d \in Calls : coll'[d].state = "idle" => coll'[d].on = 0
          /\ \A d \in Calls : coll'[d].state # "idle" => coll'[d].on \in Spawned'
      BY <1>2, <1>3, <1>6 DEF Ordered
    <2>2. \A i \in 1 .. Len(started') : coll'[started'[i]].state # "idle"
      <3>1. \A i \in 1 .. N : coll'[started'[i]].state # "idle"
        BY <1>2, <1>7 DEF Ordered
      <3>2. coll'[started'[N + 1]].state # "idle"
        BY <1>2, <1>7
      <3>3. \A i \in 1 .. N + 1 : i \in 1 .. N \/ i = N + 1
        BY <1>7
      <3> QED
        BY <1>7, <3>1, <3>2, <3>3
    <2>3. \A i, j \in 1 .. Len(started') : started'[i] = started'[j] => i = j
      <3>1. \A i \in 1 .. N + 1 : i \in 1 .. N \/ i = N + 1
        BY <1>7
      <3>2. \A i, j \in 1 .. N : started'[i] = started'[j] => i = j
        BY <1>7 DEF Ordered
      <3> QED
        BY <1>7, <3>1, <3>2
    <2>4. \A d \in Calls : coll'[d].state # "idle" =>
             \E i \in 1 .. Len(started') : started'[i] = d
      <3>1. N + 1 \in 1 .. Len(started') /\ \A i \in 1 .. N : i \in 1 .. Len(started')
        BY <1>7
      <3> QED
        BY <1>2, <1>7, <3>1 DEF Ordered
    <2>5. \A d \in Open' : \A i \in 1 .. Len(started') : started'[i] = d => i = Len(started')
      <3>1. \A i \in 1 .. N + 1 : i \in 1 .. N \/ i = N + 1
        BY <1>7
      <3> QED
        BY <1>4, <1>7, <3>1
    <2> QED
      BY <2>1, <2>2, <2>3, <2>4, <2>5 DEF Ordered
  <1> QED
    BY <1>1, <1>2, <1>3, <1>4, <1>5, <1>6, <1>8, <1>9, <1>10

(* The request of the new call is all that is in the pipes of its session. *)
LEMMA SendKeepsChannel ==
    ASSUME Awaited, Typed, Typed', ChannelInv, NEW c \in Calls, SendCommandWithOutput(c)
    PROVE  ChannelInv'
  <1> DEFINE p == proc[session]
             q == [Write(p, Request(c)) EXCEPT !.timer = c]
  <1>1. /\ Open = {} /\ Open' = {c} /\ InStep' = InStep /\ Spawned' = Spawned
        /\ coll[c].state = "idle"
        /\ coll'[c].state = "collecting" /\ coll'[c].on = session
        /\ coll'[c].result = <<>>
        /\ \A d \in Calls : d # c => coll'[d] = coll[d]
        /\ \A d \in Calls : d # c => (d \in Behind' <=> d \in Behind)
        /\ Ordered'
    BY SendEffect DEF ChannelInv
  <1>2. /\ session \in Sessions /\ p \in SessionRecord
        /\ coll[c].on \notin Sessions
    BY <1>1, ShellAssumption DEF ChannelInv, Ordered, Typed, Spawned, Sessions
  <1>3. /\ q.timer = c /\ q.stdout = p.stdout /\ q.ended = p.ended /\ q.status = p.status
        /\ q.stdin = IF p.status = "dead" THEN p.stdin ELSE p.stdin \o Request(c)
    <2>1. CASE p.status = "dead"
      BY <1>2, <2>1 DEF Write, SessionRecord
    <2>2. CASE p.status # "dead"
      BY <1>2, <2>2 DEF Write, SessionRecord
    <2> QED
      BY <2>1, <2>2
  <1>4. /\ proc'[session] = q
        /\ \A t \in Sessions : t # session => proc'[t] = proc[t]
    BY <1>2 DEF SendCommandWithOutput, Typed
  <1> HIDE DEF q
  <1>5. UNCHANGED <<session, versionCache, tempDirs>> /\ strays' = strays \cup ({p.timer} \ {None})
    BY DEF SendCommandWithOutput
  <1>6. /\ \A t \in Sessions : CutOffBy(t) = {}
        /\ \A t \in Sessions : CutOffBy(t)' = IF t = session THEN {c} ELSE {}
    BY <1>1 DEF CutOffBy
  <1>7. PipesFit'
    <2> SUFFICES ASSUME NEW t \in InStep, ~ proc'[t].ended
                 PROVE  /\ CutOffBy(t)' = {} => Quiet(proc'[t])
                        /\ \A d \in CutOffBy(t)' : Talking(d, proc'[t], coll'[d].result)
      BY <1>1 DEF PipesFit
    <2>1. t \in Sessions
      BY DEF InStep
    <2>2. CASE t # session
      <3>1. Quiet(proc[t])
        BY <1>4, <1>6, <2>1, <2>2 DEF ChannelInv, PipesFit
      <3> QED
        BY <1>4, <1>6, <2>1, <2>2, <3>1
    <2>3. CASE t = session
      <3>1. p.stdin = <<>> /\ p.stdout = <<>>
        BY <1>3, <1>4, <1>6, <2>1, <2>3 DEF ChannelInv, PipesFit, Quiet
      <3>2. p.status # "dead" => q.stdin = Request(c)
        <4>1. Request(c) \in Seq(RequestLine)
          BY DEF Request, RequestLine
        <4>2. <<>> \o Request(c) = Request(c)
          BY <4>1, ConcatEmptySeq
        <4> QED
          BY <1>3, <3>1, <4>2
      <3>3. /\ 0 \in 0 .. OutLines /\ 0 \in 0 .. OutLines + 1
            /\ <<>> = SubSeq(Own(c), 1, 0) /\ <<>> = SubSeq(Full(c), 0 + 1, 0)
        BY AnswerPieces
      <3>4. Talking(c, q, <<>>)
        BY <1>3, <3>1, <3>2, <3>3 DEF Talking
      <3>5. CutOffBy(t)' = {c} /\ proc'[t] = q /\ coll'[c].result = <<>>
        BY <1>1, <1>4, <1>6, <2>1, <2>3
      <3> QED
        BY <3>4, <3>5
    <2> QED
      BY <2>2, <2>3
  <1>8. AnswersFit'
    <2> SUFFICES ASSUME NEW d \in Calls, d \notin Behind'
                 PROVE  /\ coll'[d].state \in {"collecting", "cutoff"} => PrefixOf(d, coll'[d].result)
                        /\ coll'[d].state = "answered" => coll'[d].result = Own(d)
      BY DEF AnswersFit
    <2>1. CASE d = c
      <3>1. 0 \in 0 .. OutLines /\ <<>> = SubSeq(Own(c), 1, 0)
        BY AnswerPieces
      <3> QED
        BY <1>1, <2>1, <3>1 DEF PrefixOf
    <2>2. CASE d # c
      BY <1>1, <2>2 DEF ChannelInv, AnswersFit
    <2> QED
      BY <2>1, <2>2
  <1>9. TimersFit'
    <2>1. /\ TimersFit /\ InStep \subseteq Sessions
          /\ \A t \in Sessions : proc[t].timer \in Calls \cup {None}
      BY DEF ChannelInv, InStep, Typed, SessionRecord
    <2>2. \A t \in Sessions : proc[t].timer # None =>
             proc[t].timer \in Calls \ {c} /\ coll[proc[t].timer].on = t
      BY <1>2, <2>1 DEF TimersFit
    <2>3. \A t \in Sessions : proc'[t].timer # None => coll'[proc'[t].timer].on = t
      BY <1>1, <1>3, <1>4, <2>2
    <2>4. \A t \in InStep' : proc'[t].timer # None => proc'[t].timer \in Open'
      BY <1>1, <1>3, <1>4, <2>1 DEF TimersFit
    <2>5. \A d \in strays' : coll'[d].on \in Sessions \ InStep'
      <3>1. \A d \in strays : d \in Calls \ {c} /\ coll[d].on \in Sessions \ InStep
        BY <1>2, <2>1 DEF TimersFit, Typed
      <3>2. p.timer # None => session \notin InStep
        BY <1>1, <1>2, <2>1 DEF TimersFit
      <3>3. \A d \in strays' : d \in strays \/ (d = p.timer /\ p.timer # None)
        BY <1>5
      <3> QED
        BY <1>1, <1>2, <2>2, <3>1, <3>2, <3>3
    <2> QED
      BY <2>3, <2>4, <2>5 DEF TimersFit
  <1>10. KeptLinesAreOwn'
    BY <1>1, <1>5 DEF ChannelInv, KeptLinesAreOwn
  <1> QED
    BY <1>1, <1>7, <1>8, <1>9, <1>10 DEF ChannelInv

(* What usedRVersion and obtainTmpDir keep of calls that are settled with a  *)
(* prefix of their own lines.                                                *)
LEMMA ContinueKeepsOwn ==
    ASSUME Typed, Ordered, KeptLinesAreOwn, InStep' = InStep,
           NEW settled \in SUBSET Open, Continue(settled),
           InStep = Sessions => \A c \in settled : PrefixOf(c, coll'[c].result)
    PROVE  KeptLinesAreOwn'
  <1> SUFFICES ASSUME InStep = Sessions
               PROVE  /\ versionCache' \in VersionCalls \cup {None}
                      /\ tempDirs' \subseteq TmpDirCalls \cup {None}
    BY DEF KeptLinesAreOwn
  <1>1. /\ versionCache \in VersionCalls \cup {None}
        /\ tempDirs \subseteq TmpDirCalls \cup {None}
    BY DEF KeptLinesAreOwn
  <1>2. \A c \in settled : /\ c \in Calls
                           /\ coll'[c].result # <<>> => coll'[c].result[1].call = c
    BY PrefixStart DEF Open
  <1>3. versionCache' \in VersionCalls \cup {None}
    <2>1. CASE settled \cap VersionCalls = {}
      BY <1>1, <2>1 DEF Continue
    <2>2. CASE settled \cap VersionCalls # {}
      <3> DEFINE c == Latest(settled \cap VersionCalls)
      <3>1. c \in settled \cap VersionCalls
        BY <2>2, LatestIsOpen
      <3>2. versionCache' = IF coll'[c].result = <<>> THEN None ELSE coll'[c].result[1].call
        BY <2>2 DEF Continue
      <3> HIDE DEF c
      <3> QED
        BY <1>2, <3>1, <3>2
    <2> QED
      BY <2>1, <2>2
  <1>4. tempDirs' \subseteq TmpDirCalls \cup {None}
    <2>1. tempDirs' = tempDirs \cup
            {IF coll'[c].result = <<>> THEN None ELSE coll'[c].result[1].call :
                c \in settled \cap TmpDirCalls}
      BY DEF Continue
    <2> QED
      BY <1>1, <1>2, <2>1
  <1> QED
    BY <1>3, <1>4

(* A collector keeps its session, and takes the lines that are kept. *)
LEMMA CollectedResult ==
    ASSUME NEW r, r = [state |-> r.state, on |-> r.on, result |-> r.result],
           NEW lines
    PROVE  LET new == Collected(r, lines)
           IN  /\ new.on = r.on
               /\ new.result = r.result \o KeptLines(lines)
               /\ new.state = IF \E i \in 1 .. Len(lines) : IsPostamble(lines[i])
                              THEN "answered" ELSE r.state
  <1> DEFINE kept == KeptLines(lines)
             ends == \E i \in 1 .. Len(lines) : IsPostamble(lines[i])
  <1>1. Collected(r, lines) = [r EXCEPT !.result = r.result \o kept,
                                        !.state = IF ends THEN "answered" ELSE r.state]
    BY Zenon DEF Collected
  <1> HIDE DEF kept, ends
  <1>2. Collected(r, lines) = [state |-> IF ends THEN "answered" ELSE r.state,
                               on |-> r.on, result |-> r.result \o kept]
    BY <1>1
  <1> QED
    BY <1>2 DEF ends, kept

(* The record of a session after a delivery. *)
AfterChunk(p, stream, rest, timer) ==
    IF stream = "stdout" THEN [p EXCEPT !.stdout = rest, !.timer = timer]
                         ELSE [p EXCEPT !.stderr = rest, !.timer = timer]

(* A delivery changes a stream and the timer of the session, and no more. *)
LEMMA ChunkRecord ==
    ASSUME NEW p \in SessionRecord, NEW stream \in Streams, NEW rest, NEW timer
    PROVE  LET q == AfterChunk(p, stream, rest, timer)
           IN  /\ q.timer = timer /\ q.stdin = p.stdin
               /\ q.status = p.status /\ q.ended = p.ended
               /\ stream = "stdout" => q.stdout = rest
               /\ stream = "stderr" => q.stdout = p.stdout
  <1>1. CASE stream = "stdout"
    BY <1>1 DEF SessionRecord, AfterChunk
  <1>2. CASE stream = "stderr"
    BY <1>2 DEF SessionRecord, AfterChunk
  <1> QED
    BY <1>1, <1>2 DEF Streams

(* What a chunk of n lines changes, for those who hear it. *)
ChunkStep(s, stream, n, hearers) ==
    LET lines == SubSeq(proc[s][stream], 1, n)
    IN  /\ coll' = [c \in Calls |-> IF c \in hearers THEN Collected(coll[c], lines)
                                                      ELSE coll[c]]
        /\ proc' = [proc EXCEPT
                      ![s][stream] = SubSeq(@, n + 1, Len(@)),
                      ![s].timer = TimerAfter(@, hearers, lines)]
        /\ Continue({c \in hearers : coll'[c].state = "answered"})

(* A delivery that nobody hears changes no collector. *)
LEMMA UnheardKeepsChannel ==
    ASSUME Typed, Typed', ChannelInv, NEW s \in Sessions, NEW stream \in Streams,
           NEW n \in 1 .. Len(proc[s][stream]),
           ChunkStep(s, stream, n, {}),
           UNCHANGED <<session, started, strays, closing>>,
           stream = "stderr" \/ CutOffBy(s) = {}
    PROVE  ChannelInv'
  <1> DEFINE p == proc[s]
             rest == SubSeq(p[stream], n + 1, Len(p[stream]))
             q == proc'[s]
  <1>1. p \in SessionRecord
    BY DEF Typed
  <1>2. coll' = coll
    <2>1. coll' = [c \in Calls |-> coll[c]] /\ coll = [c \in Calls |-> coll[c]]
      BY DEF Typed, ChunkStep
    <2> QED
      BY <2>1
  <1>3. proc' = [proc EXCEPT ![s] = AfterChunk(p, stream, rest, p.timer)]
    <2>1. proc' = [proc EXCEPT ![s][stream] = rest, ![s].timer = p.timer]
      BY DEF TimerAfter, Typed, ChunkStep
    <2> HIDE DEF rest
    <2>2. CASE stream = "stdout"
      BY ONLY <1>1, <2>1, <2>2, Typed, s \in Sessions DEF Typed, SessionRecord, AfterChunk
    <2>3. CASE stream = "stderr"
      BY ONLY <1>1, <2>1, <2>3, Typed, s \in Sessions DEF Typed, SessionRecord, AfterChunk
    <2> QED
      BY <2>2, <2>3 DEF Streams
  <1>4. UNCHANGED <<versionCache, tempDirs>>
    <2>1. Continue({})
      <3>1. {c \in {} : coll'[c].state = "answered"} = {}
        OBVIOUS
      <3> QED
        BY <3>1 DEF ChunkStep
    <2> QED
      BY <2>1 DEF Continue
  <1> HIDE DEF rest
  <1>5. /\ q.timer = p.timer /\ q.status = p.status /\ q.ended = p.ended /\ q.stdin = p.stdin
        /\ stream = "stderr" => q.stdout = p.stdout
        /\ \A t \in Sessions : t # s => proc'[t] = proc[t]
    <2> DEFINE after == AfterChunk(p, stream, rest, p.timer)
    <2>1. proc'[s] = after /\ \A t \in Sessions : t # s => proc'[t] = proc[t]
      <3> HIDE DEF after
      <3>1. proc' = [proc EXCEPT ![s] = after]
        BY <1>3 DEF after
      <3> QED
        BY <3>1 DEF Typed
    <2>2. /\ after.timer = p.timer /\ after.status = p.status
          /\ after.ended = p.ended /\ after.stdin = p.stdin
          /\ stream = "stderr" => after.stdout = p.stdout
      BY <1>1, ChunkRecord
    <2> QED
      BY <2>1, <2>2
  <1>6. ASSUME s \in InStep, ~ q.ended
        PROVE  /\ CutOffBy(s) = {} => Quiet(q)
               /\ \A c \in CutOffBy(s) : Talking(c, q, coll[c].result)
    <2>1. CutOffBy(s) = {} => Quiet(p)
      BY <1>5, <1>6 DEF ChannelInv, PipesFit
    <2>2. stream # "stdout" \/ CutOffBy(s) # {}
      <3>1. stream = "stdout" => p.stdout # <<>>
        <4>1. Len(p[stream]) # 0
          OBVIOUS
        <4> QED
          BY <4>1, EmptySeq
      <3> QED
        BY <2>1, <3>1 DEF Quiet
    <2>3. stream = "stderr"
      BY <2>2 DEF Streams
    <2>4. \A c \in CutOffBy(s) : Talking(c, p, coll[c].result)
      BY <1>5, <1>6 DEF ChannelInv, PipesFit
    <2> QED
      BY <1>5, <2>1, <2>3, <2>4 DEF Quiet, Talking
  <1>7. PipesFit'
    BY <1>2, <1>5, <1>6, OtherPipesKept DEF ChannelInv
  <1>8. Spawned' = Spawned /\ \A t \in Sessions : proc'[t].timer = proc[t].timer
    BY <1>5 DEF Spawned
  <1> QED
    BY <1>2, <1>4, <1>7, <1>8, PipeStepKeepsChannel

(* What a chunk of the output brings the collector that waits for it.        *)
LEMMA ChunkOfTalk ==
    ASSUME NEW c \in Calls, NEW p, NEW q, NEW result, Talking(c, p, result),
           NEW n \in 1 .. Len(p.stdout),
           q.status = p.status, q.stdin = p.stdin,
           q.stdout = SubSeq(p.stdout, n + 1, Len(p.stdout))
    PROVE  LET lines == SubSeq(p.stdout, 1, n)
               got == result \o KeptLines(lines)
               ends == \E i \in 1 .. Len(lines) : IsPostamble(lines[i])
           IN  /\ ends => got = Own(c) /\ Quiet(q)
               /\ ~ ends => PrefixOf(c, got) /\ Talking(c, q, got)
               /\ ends <=> IsPostamble(lines[Len(lines)])
  <1> DEFINE lines == SubSeq(p.stdout, 1, n)
             got == result \o KeptLines(lines)
             ends == \E i \in 1 .. Len(lines) : IsPostamble(lines[i])
             F == Full(c)
  <1>1. PICK k \in 0 .. OutLines, m \in 0 .. OutLines + 1 :
           /\ k <= m
           /\ result = SubSeq(Own(c), 1, k)
           /\ p.stdout = SubSeq(Full(c), k + 1, m)
           /\ \/ p.stdin = <<>> /\ p.status = "dead"
              \/ p.stdin = Request(c) /\ m = 0
              \/ p.stdin = PostambleRequest(c) /\ m = OutLines
              \/ p.stdin = <<>> /\ m = OutLines + 1
    BY DEF Talking
  <1>2. /\ OutLines \in Nat /\ k \in Nat /\ m \in Nat /\ m <= OutLines + 1
        /\ F \in Seq(OutputLine) /\ Len(F) = OutLines + 1
    <2>1. OutLines \in Nat
      BY FullShape
    <2> QED
      BY <2>1, FullShape
  <1> HIDE DEF F
  <1>3. Len(p.stdout) = m - k
    <2>1. p.stdout = SubSeq(F, k + 1, m)
      BY <1>1 DEF F
    <2> QED
      BY <1>1, <1>2, <2>1, PartOf
  <1>4. n \in 1 .. m - k /\ n \in Nat
    BY <1>3
  <1>5. lines = SubSeq(Full(c), k + 1, k + n) /\ q.stdout = SubSeq(Full(c), k + n + 1, m)
    <2>1. p.stdout = SubSeq(F, k + 1, m)
      BY <1>1 DEF F
    <2>2. /\ SubSeq(SubSeq(F, k + 1, m), 1, n) = SubSeq(F, k + 1, k + n)
          /\ SubSeq(SubSeq(F, k + 1, m), n + 1, Len(SubSeq(F, k + 1, m)))
               = SubSeq(F, k + n + 1, m)
      BY <1>1, <1>2, <1>4, ChunkOfPart
    <2> QED
      BY <2>1, <2>2 DEF F
  <1> HIDE DEF lines
  <1>6. /\ k + n \in 1 .. OutLines + 1
        /\ Len(lines) = n
        /\ IsPostamble(lines[n]) <=> k + n = OutLines + 1
        /\ (\E i \in 1 .. n : IsPostamble(lines[i])) <=> k + n = OutLines + 1
        /\ k + n = OutLines + 1 => got = Own(c)
        /\ k + n # OutLines + 1 => got = SubSeq(Own(c), 1, k + n)
    <2> DEFINE part == SubSeq(Full(c), k + 1, k + n)
               gathered == SubSeq(Own(c), 1, k) \o KeptLines(part)
    <2>1. /\ k + n \in 1 .. OutLines + 1
          /\ Len(part) = n
          /\ IsPostamble(part[n]) <=> k + n = OutLines + 1
          /\ (\E i \in 1 .. n : IsPostamble(part[i])) <=> k + n = OutLines + 1
          /\ k + n = OutLines + 1 => gathered = Own(c)
          /\ k + n # OutLines + 1 => gathered = SubSeq(Own(c), 1, k + n)
      BY ONLY <1>1, <1>4, c \in Calls, ChunkOfAnswer, ZenonT(30)
    <2>2. lines = part
      BY <1>5
    <2>3. got = gathered
      BY <1>1, <2>2
    <2> HIDE DEF part, gathered, got
    <2> QED
      BY <2>1, <2>2, <2>3
  <1> HIDE DEF got
  <1>7. ends <=> k + n = OutLines + 1
    BY <1>6
  <1>8. ends <=> IsPostamble(lines[Len(lines)])
    BY <1>6
  <1> HIDE DEF ends
  <1>9. ASSUME ends
        PROVE  got = Own(c) /\ Quiet(q)
    <2>1. m = OutLines + 1 /\ m # 0 /\ m # OutLines /\ k + n + 1 = OutLines + 2
      BY <1>2, <1>4, <1>7, <1>9
    <2>2. q.stdin = <<>>
      BY <1>1, <2>1
    <2>3. q.stdout = <<>>
      BY <1>5, <2>1, AnswerPieces
    <2> QED
      BY <1>6, <1>7, <1>9, <2>2, <2>3 DEF Quiet
  <1>10. ASSUME ~ ends
         PROVE  PrefixOf(c, got) /\ Talking(c, q, got)
    <2>1. k + n \in 0 .. OutLines /\ k + n <= m
      BY <1>2, <1>4, <1>6, <1>7, <1>10
    <2>2. got = SubSeq(Own(c), 1, k + n)
      BY <1>6, <1>7, <1>10
    <2>3. \/ q.stdin = <<>> /\ q.status = "dead"
          \/ q.stdin = Request(c) /\ m = 0
          \/ q.stdin = PostambleRequest(c) /\ m = OutLines
          \/ q.stdin = <<>> /\ m = OutLines + 1
      BY <1>1
    <2>4. Talking(c, q, got)
      <3> DEFINE kk == k + n
      <3>1. kk \in 0 .. OutLines /\ m \in 0 .. OutLines + 1 /\ kk <= m
            /\ got = SubSeq(Own(c), 1, kk) /\ q.stdout = SubSeq(Full(c), kk + 1, m)
        BY <1>1, <1>5, <2>1, <2>2
      <3> HIDE DEF kk
      <3> QED
        BY <2>3, <3>1 DEF Talking
    <2> QED
      BY <2>1, <2>2, <2>4 DEF PrefixOf
  <1> QED
    BY <1>8, <1>9, <1>10 DEF ends, got, lines

(* The open call of a session takes the chunk: it has more of its own lines, *)
(* or all of them and the pipes are empty.                                   *)
LEMMA HeardKeepsChannel ==
    ASSUME Typed, Typed', ChannelInv, NEW s \in Sessions,
           NEW stream, stream = "stdout",
           NEW n \in 1 .. Len(proc[s][stream]), ~ proc[s].ended, CutOffBy(s) # {},
           ChunkStep(s, stream, n, CutOffBy(s)),
           UNCHANGED <<session, started, strays, closing>>
    PROVE  ChannelInv'
  <1> DEFINE p == proc[s]
             q == proc'[s]
             lines == SubSeq(p[stream], 1, n)
             rest == SubSeq(p[stream], n + 1, Len(p[stream]))
             timer == TimerAfter(p.timer, CutOffBy(s), lines)
             ends == \E i \in 1 .. Len(lines) : IsPostamble(lines[i])
             settled == {d \in CutOffBy(s) : coll'[d].state = "answered"}
  <1>1. PICK c \in CutOffBy(s) : TRUE
    OBVIOUS
  <1>2. /\ c \in Calls /\ c \in Open /\ coll[c].on = s /\ coll[c].state = "collecting"
        /\ Open = {c} /\ CutOffBy(s) = {c}
        /\ \A t \in Sessions : t # s => CutOffBy(t) = {}
    <2>1. c \in Calls /\ c \in Open /\ coll[c].on = s /\ coll[c].state = "collecting"
      BY DEF CutOffBy, Open
    <2>2. Open = {c}
      BY <2>1, OneOpen DEF ChannelInv
    <2> QED
      BY <2>1, <2>2 DEF CutOffBy
  <1>3. p \in SessionRecord
    BY DEF Typed
  <1>4. timer \in {c, None} /\ (IsPostamble(lines[Len(lines)]) <=> timer = None)
    <2>1. Latest(CutOffBy(s)) = c
      BY <1>2, LatestIsOpen DEF ChannelInv
    <2> HIDE DEF lines
    <2> QED
      BY <1>2, <2>1, NoCallIsNone DEF TimerAfter
  <1>5. /\ q.timer = timer /\ q.status = p.status /\ q.ended = p.ended /\ q.stdin = p.stdin
        /\ q.stdout = rest
        /\ \A t \in Sessions : t # s => proc'[t] = proc[t]
    <2> HIDE DEF rest, timer
    <2> DEFINE after == [p EXCEPT !.stdout = rest, !.timer = timer]
    <2>1. /\ after.timer = timer /\ after.status = p.status /\ after.ended = p.ended
          /\ after.stdin = p.stdin /\ after.stdout = rest
      BY <1>3 DEF SessionRecord
    <2>2. proc' = [proc EXCEPT ![s] = after]
      <3>1. proc' = [proc EXCEPT ![s][stream] = rest, ![s].timer = timer]
        BY DEF Typed, rest, timer, ChunkStep
      <3> QED
        BY ONLY <1>3, <3>1, Typed, s \in Sessions, stream = "stdout" DEF Typed, SessionRecord
    <2> HIDE DEF after
    <2>3. proc'[s] = after /\ \A t \in Sessions : t # s => proc'[t] = proc[t]
      BY <2>2 DEF Typed
    <2> QED
      BY <2>1, <2>3
  <1>6. /\ coll'[c].on = s
        /\ coll'[c].result = coll[c].result \o KeptLines(lines)
        /\ coll'[c].state = IF ends THEN "answered" ELSE "collecting"
        /\ \A d \in Calls : d # c => coll'[d] = coll[d]
    <2>1. coll[c] = [state |-> coll[c].state, on |-> coll[c].on, result |-> coll[c].result]
      BY <1>2 DEF Typed
    <2>2. coll'[c] = Collected(coll[c], lines) /\ \A d \in Calls : d # c => coll'[d] = coll[d]
      BY <1>2 DEF ChunkStep
    <2> HIDE DEF lines
    <2>3. LET new == Collected(coll[c], lines)
          IN  /\ new.on = coll[c].on
              /\ new.result = coll[c].result \o KeptLines(lines)
              /\ new.state = IF \E i \in 1 .. Len(lines) : IsPostamble(lines[i])
                             THEN "answered" ELSE coll[c].state
      BY <2>1, CollectedResult
    <2> QED
      BY <1>2, <2>2, <2>3
  <1> HIDE DEF lines, rest, timer, q, ends
  <1>7. Spawned' = Spawned
    BY <1>5 DEF Spawned, q
  <1>8. /\ Ordered' /\ Behind' = Behind /\ InStep' \subseteq InStep
        /\ Open' = IF ends THEN {} ELSE {c}
    <2>1. \A d \in Calls : /\ coll'[d].on = coll[d].on
                           /\ d \notin Open => coll'[d].state = coll[d].state
                           /\ d \in Open => coll'[d].state # "idle"
      BY <1>2, <1>6
    <2>2. Open' = IF ends THEN {} ELSE {c}
      <3>1. \A d \in Calls : d \in Open' <=> coll'[d].state = "collecting"
        BY DEF Open
      <3>2. \A d \in Calls : d \in Open <=> coll[d].state = "collecting"
        BY DEF Open
      <3>3. Open' \subseteq Calls
        BY DEF Open
      <3> QED
        BY <1>2, <1>6, <3>1, <3>2, <3>3
    <2> QED
      BY <1>7, <2>1, <2>2, SettlingKeepsOrder DEF ChannelInv
  <1>9. InStep' = InStep
    <2>1. \A d \in Calls : /\ coll'[d].on = coll[d].on
                           /\ coll'[d].state = "timedout" <=> coll[d].state = "timedout"
      BY <1>2, <1>6
    <2> QED
      BY <2>1 DEF InStep
  <1>10. /\ c \in Behind <=> s \notin InStep
         /\ s \in InStep => Talking(c, p, coll[c].result)
    <2>1. c \in Behind <=> s \notin InStep
      BY <1>2, OpenIsBehind DEF ChannelInv
    <2>2. s \in InStep => Talking(c, p, coll[c].result)
      BY <1>2 DEF ChannelInv, PipesFit
    <2> QED
      BY <2>1, <2>2
  <1>11. s \in InStep =>
            /\ ends => coll'[c].result = Own(c) /\ Quiet(q)
            /\ ~ ends => PrefixOf(c, coll'[c].result) /\ Talking(c, q, coll'[c].result)
            /\ ends <=> IsPostamble(lines[Len(lines)])
    <2> SUFFICES ASSUME s \in InStep
                 PROVE  /\ ends => coll'[c].result = Own(c) /\ Quiet(q)
                        /\ ~ ends => PrefixOf(c, coll'[c].result)
                                     /\ Talking(c, q, coll'[c].result)
                        /\ ends <=> IsPostamble(lines[Len(lines)])
      OBVIOUS
    <2>1. q.stdout = SubSeq(p.stdout, n + 1, Len(p.stdout)) /\ n \in 1 .. Len(p.stdout)
      BY <1>5 DEF rest
    <2>2. lines = SubSeq(p.stdout, 1, n)
      BY DEF lines
    <2> DEFINE chunk == SubSeq(p.stdout, 1, n)
               got == coll[c].result \o KeptLines(chunk)
    <2>3. /\ c \in Calls /\ Talking(c, p, coll[c].result)
          /\ q.status = p.status /\ q.stdin = p.stdin
      BY <1>2, <1>5, <1>10
    <2>4. LET last == \E i \in 1 .. Len(chunk) : IsPostamble(chunk[i])
          IN  /\ last => got = Own(c) /\ Quiet(q)
              /\ ~ last => PrefixOf(c, got) /\ Talking(c, q, got)
              /\ last <=> IsPostamble(chunk[Len(chunk)])
      BY ONLY <2>1, <2>3, ChunkOfTalk, ZenonT(30)
    <2>5. got = coll'[c].result /\ chunk = lines
      BY <1>6, <2>2
    <2> HIDE DEF chunk, got
    <2> QED
      BY <2>4, <2>5 DEF ends
  <1>12. PipesFit'
    <2> SUFFICES ASSUME NEW t \in InStep, ~ proc'[t].ended
                 PROVE  /\ CutOffBy(t)' = {} => Quiet(proc'[t])
                        /\ \A d \in CutOffBy(t)' : Talking(d, proc'[t], coll'[d].result)
      BY <1>9 DEF PipesFit
    <2>1. t \in Sessions /\ CutOffBy(t)' = IF t = s /\ ~ ends THEN {c} ELSE {}
      <3>1. t \in Sessions
        BY DEF InStep
      <3>2. CutOffBy(t)' = {d \in Open' : coll'[d].on = t}
        BY DEF CutOffBy
      <3> QED
        BY <1>6, <1>8, <3>1, <3>2
    <2>2. CASE t = s
      BY <1>11, <2>1, <2>2 DEF q
    <2>3. CASE t # s
      BY <1>2, <1>5, <2>1, <2>3 DEF ChannelInv, PipesFit
    <2> QED
      BY <2>2, <2>3
  <1>13. AnswersFit'
    <2> SUFFICES ASSUME NEW d \in Calls, d \notin Behind
                 PROVE  /\ coll'[d].state \in {"collecting", "cutoff"} => PrefixOf(d, coll'[d].result)
                        /\ coll'[d].state = "answered" => coll'[d].result = Own(d)
      BY <1>8 DEF AnswersFit
    <2>1. CASE d = c
      BY <1>6, <1>10, <1>11, <2>1
    <2>2. CASE d # c
      BY <1>6, <2>2 DEF ChannelInv, AnswersFit
    <2> QED
      BY <2>1, <2>2
  <1>14. TimersFit'
    <2>1. TimersFit /\ InStep \subseteq Sessions
      BY DEF ChannelInv, InStep
    <2>2. \A t \in Sessions : proc[t].timer \in Calls \cup {None}
      BY DEF Typed, SessionRecord
    <2>3. \A d \in Calls : coll'[d].on = coll[d].on
      BY <1>2, <1>6
    <2>4. \A t \in Sessions : proc'[t].timer # None => coll'[proc'[t].timer].on = t
      <3> SUFFICES ASSUME NEW t \in Sessions, proc'[t].timer # None
                   PROVE  coll'[proc'[t].timer].on = t
        OBVIOUS
      <3>1. CASE t = s
        BY <1>4, <1>5, <1>6, <3>1 DEF q
      <3>2. CASE t # s
        <4>1. proc'[t].timer = proc[t].timer /\ proc[t].timer \in Calls
          BY <1>5, <2>2, <3>2
        <4> QED
          BY <2>1, <2>3, <4>1 DEF TimersFit
      <3> QED
        BY <3>1, <3>2
    <2>5. \A t \in InStep : proc'[t].timer # None => proc'[t].timer \in Open'
      <3> SUFFICES ASSUME NEW t \in InStep, proc'[t].timer # None
                   PROVE  proc'[t].timer \in Open'
        OBVIOUS
      <3>1. CASE t = s
        BY <1>4, <1>5, <1>8, <1>11, <3>1 DEF q
      <3>2. CASE t # s
        <4>1. proc[t].timer = c
          BY <1>2, <1>5, <2>1, <3>2 DEF TimersFit
        <4> QED
          BY <1>2, <1>5, <2>1, <3>2, <4>1, NoCallIsNone DEF TimersFit
      <3> QED
        BY <3>1, <3>2
    <2>6. \A d \in strays' : coll'[d].on \in Sessions \ InStep
      BY <2>1, <2>3 DEF TimersFit, Typed
    <2> QED
      BY <1>9, <2>4, <2>5, <2>6 DEF TimersFit
  <1>15. KeptLinesAreOwn'
    <2>1. settled \in SUBSET Open /\ Continue(settled)
      BY <1>2 DEF ChunkStep
    <2>2. InStep = Sessions => \A d \in settled : PrefixOf(d, coll'[d].result)
      <3>1. ends /\ s \in InStep => PrefixOf(c, coll'[c].result)
        <4>1. OutLines \in 0 .. OutLines /\ SubSeq(Own(c), 1, OutLines) = Own(c)
          BY <1>2, AnswerPieces
        <4> QED
          BY <1>11, <4>1 DEF PrefixOf
      <3>2. \A d \in settled : d = c
        BY <1>2
      <3> QED
        BY <1>11, <3>1, <3>2
    <2> HIDE DEF settled
    <2> QED
      BY <1>9, <2>1, <2>2, ContinueKeepsOwn DEF ChannelInv
  <1> QED
    BY <1>8, <1>12, <1>13, <1>14, <1>15 DEF ChannelInv

(* What a chunk of output changes, by who hears it. *)
LEMMA DeliverKeepsChannel ==
    ASSUME AllFromStdout, Typed, Typed', ChannelInv, NEW s \in Sessions,
           NEW stream \in Streams, Deliver(s, stream)
    PROVE  ChannelInv'
  <1>1. Hearers(s, stream) = IF stream = "stdout" THEN CutOffBy(s) ELSE {}
    BY DEF AllFromStdout, Hearers, ListensTo, CutOffBy, Streams
  <1>2. ~ proc[s].ended /\ UNCHANGED <<session, started, strays, closing>>
    BY DEF Deliver
  <1>3. PICK n \in 1 .. Len(proc[s][stream]) : ChunkStep(s, stream, n, Hearers(s, stream))
    BY DEF Deliver, ChunkStep
  <1>4. CASE Hearers(s, stream) = {}
    <2>1. stream = "stderr" \/ CutOffBy(s) = {}
      BY <1>1, <1>4 DEF Streams
    <2> QED
      BY <1>3, <1>2, <1>4, <2>1, UnheardKeepsChannel
  <1>5. CASE Hearers(s, stream) # {}
    <2>1. stream = "stdout" /\ Hearers(s, stream) = CutOffBy(s) /\ CutOffBy(s) # {}
      BY <1>1, <1>5
    <2> QED
      BY <1>3, <1>2, <2>1, HeardKeepsChannel
  <1> QED
    BY <1>4, <1>5

-----------------------------------------------------------------------------
(* What the end of a session leaves in the sessions and the collectors.      *)
LEMMA OnExitEffect ==
    ASSUME ShellInv, ChannelInv, NEW s \in Sessions, NEW code, NEW p \in SessionRecord,
           proc[s].status = "dead", ~ proc[s].exited \/ ~ proc[s].erred,
           p.status = "dead", OnExit(s, code, p)
    PROVE  /\ proc'[s].ended /\ proc'[s].timer = None
           /\ \A t \in Sessions : t # s =>
                 \/ proc'[t] = proc[t]
                 \/ CutOffBy(t) = {} /\ Quiet(proc'[t]) /\ proc'[t].timer = None
           /\ Spawned \subseteq Spawned'
           /\ \A c \in Calls : /\ coll'[c].on = coll[c].on
                               /\ coll'[c].result = coll[c].result
                               /\ coll'[c].state = IF c \in CutOffBy(s) THEN "cutoff"
                                                                        ELSE coll[c].state
           /\ CutOffBy(s)' = {}
           /\ \A t \in Sessions : t # s => CutOffBy(t)' = CutOffBy(t)
           /\ Open' = Open \ CutOffBy(s)
           /\ InStep' = InStep
  <1> DEFINE next == Cardinality(Spawned) + 1
             q == End(p)
  <1>1. /\ Typed /\ Ordered /\ Counted /\ \A t \in Sessions : LifeFits(proc[t])
        /\ proc \in [Sessions -> SessionRecord]
    BY DEF ShellInv, ChannelInv, Typed
  <1>2. next \in Sessions /\ next \notin Spawned /\ next # s
    <2>1. s \in Spawned
      BY DEF Spawned
    <2> QED
      BY <1>1, <2>1, RoomForOneMore
  <1>3. /\ q \in SessionRecord /\ q.ended /\ q.timer = None /\ q.status = "dead"
    BY DEF End, SessionRecord
  <1>4. \/ proc' = [proc EXCEPT ![s] = q, ![next] = NewSession]
        \/ proc' = [proc EXCEPT ![s] = q]
    BY DEF OnExit
  <1> HIDE DEF q, next
  <1>5. /\ proc'[s] = q
        /\ \A t \in Sessions : t \notin {s, next} => proc'[t] = proc[t]
        /\ proc'[next] \in {proc[next], NewSession}
    BY <1>1, <1>2, <1>4
  <1>6. Quiet(NewSession) /\ NewSession.timer = None /\ NewSession.status = "running"
    BY DEF Quiet, NewSession, Unborn
  <1>7. \A c \in Calls : /\ coll'[c].on = coll[c].on
                         /\ coll'[c].result = coll[c].result
                         /\ coll'[c].state = IF c \in CutOffBy(s) THEN "cutoff"
                                                                  ELSE coll[c].state
    <2>1. coll' = [c \in Calls |-> IF c \in CutOffBy(s)
                                   THEN [coll[c] EXCEPT !.state = "cutoff"]
                                   ELSE coll[c]]
      BY DEF OnExit
    <2>2. \A c \in Calls : coll[c] = [state |-> coll[c].state, on |-> coll[c].on,
                                      result |-> coll[c].result]
      BY <1>1 DEF Typed
    <2>3. ASSUME NEW r, r = [state |-> r.state, on |-> r.on, result |-> r.result]
          PROVE  LET cut == [r EXCEPT !.state = "cutoff"]
                 IN  cut.state = "cutoff" /\ cut.on = r.on /\ cut.result = r.result
      BY <2>3
    <2> HIDE DEF CutOffBy
    <2> QED
      BY <2>1, <2>2, <2>3
  <1>8. /\ CutOffBy(s)' = {}
        /\ \A t \in Sessions : t # s => CutOffBy(t)' = CutOffBy(t)
        /\ Open' = Open \ CutOffBy(s)
        /\ CutOffBy(next) = {}
    BY <1>1, <1>2, <1>7 DEF Open, CutOffBy, Typed
  <1>9. InStep' = InStep
    <2>1. \A c \in Calls : /\ coll'[c].on = coll[c].on
                           /\ coll'[c].state = "timedout" <=> coll[c].state = "timedout"
      BY <1>7 DEF CutOffBy, Open
    <2> QED
      BY <2>1 DEF InStep
  <1>10. Spawned \subseteq Spawned'
    BY <1>1, <1>2, <1>3, <1>5 DEF Spawned
  <1>11. \A t \in Sessions : t # s =>
            \/ proc'[t] = proc[t]
            \/ CutOffBy(t) = {} /\ Quiet(proc'[t]) /\ proc'[t].timer = None
    BY <1>5, <1>6, <1>8
  <1> QED
    BY <1>3, <1>5, <1>7, <1>8, <1>9, <1>10, <1>11

(* The calls of a session that ends are cut off with what they have. *)
LEMMA OnExitKeepsChannel ==
    ASSUME ShellInv, Typed', ChannelInv, NEW s \in Sessions, NEW code, NEW p \in SessionRecord,
           proc[s].status = "dead", ~ proc[s].exited \/ ~ proc[s].erred,
           p.status = "dead", OnExit(s, code, p)
    PROVE  ChannelInv'
  <1>1. /\ proc'[s].ended /\ proc'[s].timer = None
        /\ \A t \in Sessions : t # s =>
              \/ proc'[t] = proc[t]
              \/ CutOffBy(t) = {} /\ Quiet(proc'[t]) /\ proc'[t].timer = None
        /\ Spawned \subseteq Spawned'
        /\ \A c \in Calls : /\ coll'[c].on = coll[c].on
                            /\ coll'[c].result = coll[c].result
                            /\ coll'[c].state = IF c \in CutOffBy(s) THEN "cutoff"
                                                                     ELSE coll[c].state
        /\ CutOffBy(s)' = {}
        /\ \A t \in Sessions : t # s => CutOffBy(t)' = CutOffBy(t)
        /\ Open' = Open \ CutOffBy(s)
        /\ InStep' = InStep
    BY OnExitEffect
  <1>2. Typed /\ Ordered /\ PipesFit /\ AnswersFit /\ TimersFit /\ KeptLinesAreOwn
        /\ InStep \subseteq Sessions
    BY DEF ShellInv, ChannelInv, InStep
  <1>3. UNCHANGED <<started, strays>> /\ Continue(CutOffBy(s))
    BY DEF OnExit
  <1>4. Ordered' /\ Behind' = Behind
    <2>1. \A c \in Calls : /\ coll'[c].on = coll[c].on
                           /\ c \notin Open => coll'[c].state = coll[c].state
                           /\ c \in Open => coll'[c].state # "idle"
      BY <1>1 DEF CutOffBy, Open
    <2> QED
      BY <1>1, <1>2, <1>3, <2>1, SettlingKeepsOrder
  <1>5. PipesFit'
    <2> SUFFICES ASSUME NEW t \in InStep, ~ proc'[t].ended
                 PROVE  /\ CutOffBy(t)' = {} => Quiet(proc'[t])
                        /\ \A c \in CutOffBy(t)' : Talking(c, proc'[t], coll'[c].result)
      BY <1>1 DEF PipesFit
    <2>1. t \in Sessions /\ t # s /\ CutOffBy(t)' = CutOffBy(t)
      BY <1>1, <1>2
    <2>2. CASE proc'[t] = proc[t]
      <3>1. /\ CutOffBy(t) = {} => Quiet(proc[t])
            /\ \A c \in CutOffBy(t) : Talking(c, proc[t], coll[c].result)
        BY <1>2, <2>2 DEF PipesFit
      <3>2. \A c \in CutOffBy(t) : coll'[c].result = coll[c].result
        BY <1>1 DEF CutOffBy, Open
      <3> QED
        BY <2>1, <2>2, <3>1, <3>2
    <2>3. CASE CutOffBy(t) = {} /\ Quiet(proc'[t])
      BY <2>1, <2>3
    <2> QED
      BY <1>1, <2>1, <2>2, <2>3
  <1>6. AnswersFit'
    <2> SUFFICES ASSUME NEW d \in Calls, d \notin Behind
                 PROVE  /\ coll'[d].state \in {"collecting", "cutoff"} => PrefixOf(d, coll'[d].result)
                        /\ coll'[d].state = "answered" => coll'[d].result = Own(d)
      BY <1>4 DEF AnswersFit
    <2> QED
      BY <1>1, <1>2 DEF AnswersFit, CutOffBy, Open
  <1>7. TimersFit'
    <2>1. \A t \in Sessions : proc[t].timer \in Calls \cup {None}
      BY <1>2 DEF Typed, SessionRecord
    <2>2. \A t \in Sessions : proc'[t].timer # None =>
             t # s /\ proc'[t].timer = proc[t].timer /\ proc[t].timer \in Calls
      BY <1>1, <2>1
    <2>3. \A t \in Sessions : proc'[t].timer # None => coll'[proc'[t].timer].on = t
      BY <1>1, <1>2, <2>2 DEF TimersFit
    <2>4. \A t \in InStep : proc'[t].timer # None => proc'[t].timer \in Open'
      <3> SUFFICES ASSUME NEW t \in InStep, proc'[t].timer # None
                   PROVE  proc'[t].timer \in Open'
        OBVIOUS
      <3>1. /\ t # s /\ proc'[t].timer = proc[t].timer
            /\ proc[t].timer \in Open /\ coll[proc[t].timer].on = t
        BY <1>2, <2>2 DEF TimersFit
      <3>2. proc[t].timer \notin CutOffBy(s)
        BY <3>1 DEF CutOffBy
      <3> QED
        BY <1>1, <3>1, <3>2
    <2>5. \A d \in strays' : coll'[d].on \in Sessions \ InStep
      BY <1>1, <1>2, <1>3 DEF TimersFit, Typed
    <2> QED
      BY <1>1, <2>3, <2>4, <2>5 DEF TimersFit
  <1>8. KeptLinesAreOwn'
    <2>1. CutOffBy(s) \in SUBSET Open
      BY DEF CutOffBy
    <2>2. InStep = Sessions => \A c \in CutOffBy(s) : PrefixOf(c, coll'[c].result)
      <3> SUFFICES ASSUME InStep = Sessions, NEW c \in CutOffBy(s)
                   PROVE  PrefixOf(c, coll'[c].result)
        OBVIOUS
      <3>1. c \in Open /\ c \in Calls /\ coll[c].state = "collecting"
        BY DEF CutOffBy, Open
      <3>2. c \notin Behind
        BY <1>2, <3>1, OpenIsBehind
      <3> QED
        BY <1>1, <1>2, <3>1, <3>2 DEF AnswersFit
    <2> HIDE DEF CutOffBy
    <2> QED
      BY <1>1, <1>2, <1>3, <2>1, <2>2, ContinueKeepsOwn
  <1> QED
    BY <1>4, <1>5, <1>6, <1>7, <1>8 DEF ChannelInv

(* Both events of the end of a session are such an end. *)
LEMMA SessionEnds ==
    ASSUME ShellInv, NEW s \in Sessions, ExitEvent(s) \/ StdinError(s)
    PROVE  \E code : \E p \in SessionRecord :
              /\ proc[s].status = "dead" /\ (~ proc[s].exited \/ ~ proc[s].erred)
              /\ p.status = "dead" /\ OnExit(s, code, p)
  <1>1. proc[s] \in SessionRecord /\ LifeFits(proc[s])
    BY DEF ShellInv, Typed
  <1>2. CASE ExitEvent(s)
    <2> DEFINE p == [proc[s] EXCEPT !.exited = TRUE]
    <2>1. proc[s].status = "dead" /\ ~ proc[s].exited /\ OnExit(s, proc[s].code, p)
      BY <1>2 DEF ExitEvent
    <2>2. p \in SessionRecord /\ p.status = proc[s].status
      BY <1>1 DEF SessionRecord
    <2> HIDE DEF p
    <2> QED
      BY <2>1, <2>2
  <1>3. CASE StdinError(s)
    <2> DEFINE p == [proc[s] EXCEPT !.erred = TRUE, !.broken = FALSE]
    <2>1. proc[s].status = "dead" /\ ~ proc[s].erred /\ OnExit(s, "error", p)
      BY <1>1, <1>3 DEF StdinError, LifeFits
    <2>2. p \in SessionRecord /\ p.status = proc[s].status
      BY <1>1 DEF SessionRecord
    <2> HIDE DEF p
    <2> QED
      BY <2>1, <2>2
  <1> QED
    BY <1>2, <1>3

-----------------------------------------------------------------------------
(* Before the first call all pipes are empty. *)
LEMMA InitEstablishesChannel == Init => ChannelInv
  <1> SUFFICES ASSUME Init
               PROVE  ChannelInv
    OBVIOUS
  <1>1. /\ started = <<>> /\ strays = {} /\ versionCache = None /\ tempDirs = {}
        /\ \A c \in Calls : coll[c].state = "idle" /\ coll[c].on = 0
        /\ \A s \in Sessions : proc[s] \in {NewSession, Unborn}
    BY DEF Init
  <1>2. /\ Quiet(NewSession) /\ NewSession.timer = None
        /\ Quiet(Unborn) /\ Unborn.timer = None
    BY DEF Quiet, NewSession, Unborn
  <1>3. Open = {} /\ InStep \subseteq Sessions /\ Len(started) = 0
    BY <1>1 DEF Open, InStep
  <1>4. Ordered
    BY <1>1, <1>3 DEF Ordered
  <1>5. PipesFit
    BY <1>1, <1>2, <1>3 DEF PipesFit, CutOffBy
  <1>6. AnswersFit
    BY <1>1 DEF AnswersFit
  <1>7. TimersFit
    BY <1>1, <1>2, <1>3 DEF TimersFit
  <1>8. KeptLinesAreOwn
    BY <1>1 DEF KeptLinesAreOwn
  <1> QED
    BY <1>4, <1>5, <1>6, <1>7, <1>8 DEF ChannelInv

(* A step of the shell, by the kind of step. *)
LEMMA StepKeepsChannel ==
    ASSUME AllFromStdout, Awaited, ShellInv, ShellInv', ChannelInv, [Next]_vars
    PROVE  ChannelInv'
  <1>1. Typed /\ Typed'
    BY DEF ShellInv
  <1>2. ASSUME NEW c \in Calls, SendCommandWithOutput(c) PROVE ChannelInv'
    BY <1>1, <1>2, SendKeepsChannel
  <1>3. ASSUME NEW c \in Calls, TimerFires(c) PROVE ChannelInv'
    BY <1>1, <1>3, TimerFiresKeepsChannel
  <1>4. ASSUME NEW s \in Sessions, RExecute(s) PROVE ChannelInv'
    BY <1>1, <1>4, RExecuteKeepsChannel
  <1>5. ASSUME NEW s \in Sessions, NEW code \in {"zero", "nonzero", "signal"}, RDies(s, code)
        PROVE  ChannelInv'
    BY <1>1, <1>5, RDiesKeepsChannel
  <1>6. ASSUME NEW s \in Sessions, NEW stream \in Streams, Deliver(s, stream)
        PROVE  ChannelInv'
    BY <1>1, <1>6, DeliverKeepsChannel
  <1>7. ASSUME NEW s \in Sessions, ExitEvent(s) \/ StdinError(s) PROVE ChannelInv'
    BY <1>1, <1>7, SessionEnds, OnExitKeepsChannel
  <1>8. CASE Close
    BY <1>1, <1>8, CloseKeepsChannel
  <1>9. CASE UNCHANGED vars
    <2>1. UNCHANGED <<session, proc, coll, started, strays, versionCache, tempDirs>>
      BY <1>9 DEF vars
    <2>2. InStep' = InStep /\ \A t \in Sessions : CutOffBy(t)' = CutOffBy(t)
      BY <2>1, SameCollectors DEF InStep
    <2>3. \A t \in InStep : t \in Sessions
      BY DEF InStep
    <2>4. PipesFit'
      BY <2>1, <2>2, <2>3 DEF ChannelInv, PipesFit
    <2>5. Spawned' = Spawned
      BY <2>1 DEF Spawned
    <2> QED
      BY <1>1, <2>1, <2>4, <2>5, PipeStepKeepsChannel
  <1> QED
    BY <1>2, <1>3, <1>4, <1>5, <1>6, <1>7, <1>8, <1>9 DEF Next

(* Every step of the shell, of R and of the program keeps the invariant. *)
LEMMA ChannelInvariant ==
    ASSUME AllFromStdout, Awaited
    PROVE  Spec => [](ShellInv /\ ChannelInv)
  <1>1. Spec => []ShellInv
    BY ShellInvariant
  <1>2. ShellInv /\ ShellInv' /\ ChannelInv /\ [Next]_vars => ChannelInv'
    BY StepKeepsChannel
  <1> QED
    BY <1>1, <1>2, InitEstablishesChannel, PTL DEF Spec

-----------------------------------------------------------------------------
(* When each call is awaited, and until one times out, usedRVersion caches   *)
(* only a version and close() removes only directories that obtainTmpDir got:*)
(* no crash, revival or close makes the shell keep a line of another command.*)
THEOREM OnlyOwnLinesAreKept ==
    ASSUME AllFromStdout, Awaited
    PROVE  Spec => []KeptLinesAreOwn
  <1>1. ShellInv /\ ChannelInv => KeptLinesAreOwn
    BY DEF ChannelInv
  <1> QED
    BY <1>1, ChannelInvariant, PTL

(* When each call is awaited, a session in which none timed out has no timer *)
(* armed for a settled call, in its field or out of reach: none can reject   *)
(* nothing, nor keep the program from ending.                                *)
THEOREM TimersEndWithTheirCalls ==
    ASSUME AllFromStdout, Awaited
    PROVE  Spec => []NoTimerOutlivesItsCall
  <1>1. ShellInv /\ ChannelInv => NoTimerOutlivesItsCall
    <2> SUFFICES ASSUME ChannelInv, NEW s \in InStep
                 PROVE  /\ proc[s].timer \in Open \cup {None}
                        /\ \A c \in strays : coll[c].on # s
      BY DEF NoTimerOutlivesItsCall
    <2> QED
      BY DEF ChannelInv, TimersFit
  <1> QED
    BY <1>1, ChannelInvariant, PTL

-----------------------------------------------------------------------------
(* The status and the answer of each call, as the channel sees them.         *)
ChannelStatus == [c \in Calls |-> StatusOf(c)]
ChannelAnswer ==
    [c \in Calls |-> IF StatusOf(c) \in {"answered", "cutoff"} THEN coll[c].result ELSE <<>>]

(* The status of a call, by the state of its collector. *)
LEMMA StatusByState ==
    ASSUME NEW c \in Calls, Typed
    PROVE  /\ StatusOf(c) = "pending" <=> coll[c].state = "collecting"
           /\ coll[c].state \in {"idle", "timedout"} => StatusOf(c) = coll[c].state
           /\ coll[c].state \in {"answered", "cutoff"} =>
                 StatusOf(c) = IF c \in Behind THEN "stale" ELSE coll[c].state
  <1>1. coll[c].state \in CollectorStates
    BY DEF Typed
  <1>2. CASE coll[c].state = "collecting"
    BY <1>2 DEF StatusOf
  <1>3. CASE coll[c].state \in {"idle", "timedout"}
    BY <1>3 DEF StatusOf
  <1>4. CASE coll[c].state \in {"answered", "cutoff"} /\ c \in Behind
    BY <1>4 DEF StatusOf
  <1>5. CASE coll[c].state \in {"answered", "cutoff"} /\ c \notin Behind
    BY <1>5 DEF StatusOf
  <1> QED
    BY <1>1, <1>2, <1>3, <1>4, <1>5 DEF CollectorStates

(* A call that is neither asked nor settled by a step keeps its status. *)
LEMMA StatusKept ==
    ASSUME NEW c \in Calls, coll'[c].state = coll[c].state,
           coll[c].state # "collecting" => coll'[c].result = coll[c].result,
           c \in Behind' <=> c \in Behind
    PROVE  ChannelStatus'[c] = ChannelStatus[c] /\ ChannelAnswer'[c] = ChannelAnswer[c]
  <1>1. StatusOf(c)' = StatusOf(c)
    BY DEF StatusOf
  <1>2. coll[c].state = "collecting" => StatusOf(c) = "pending"
    BY DEF StatusOf
  <1> QED
    BY <1>1, <1>2 DEF ChannelStatus, ChannelAnswer

(* A step that settles at most the open call is a step of the channel. *)
LEMMA SettlingRefines ==
    ASSUME Typed, Ordered, AnswersFit', started' = started,
           \A c \in Calls : /\ coll'[c].on = coll[c].on
                            /\ c \notin Open => /\ coll'[c].state = coll[c].state
                                                /\ coll'[c].result = coll[c].result
                            /\ c \in Open => coll'[c].state \in
                                  {"collecting", "answered", "cutoff", "timedout"}
    PROVE  [Channel!Next]_(Channel!vars)
  <1>1. Behind' = Behind
    BY BehindKept
  <1>2. \A c \in Calls : c \in Open <=> coll[c].state = "collecting"
    BY DEF Open
  <1>3. CASE \A c \in Open : coll'[c].state = "collecting"
    <2>1. \A c \in Calls : ChannelStatus'[c] = ChannelStatus[c] /\ ChannelAnswer'[c] = ChannelAnswer[c]
      BY <1>1, <1>2, <1>3, StatusKept
    <2>2. ChannelStatus' = ChannelStatus /\ ChannelAnswer' = ChannelAnswer
      BY <2>1 DEF ChannelStatus, ChannelAnswer
    <2> QED
      BY <2>2 DEF Channel!vars, ChannelStatus, ChannelAnswer
  <1>4. ASSUME NEW c \in Open, coll'[c].state # "collecting"
        PROVE  Channel!Next
    <2>1. c \in Calls /\ coll[c].state = "collecting"
          /\ coll'[c].state \in {"answered", "cutoff", "timedout"}
      BY <1>2, <1>4 DEF Open
    <2>2. ASSUME NEW d \in Calls, d # c
          PROVE  ChannelStatus'[d] = ChannelStatus[d] /\ ChannelAnswer'[d] = ChannelAnswer[d]
      <3>1. d \notin Open
        BY <2>2, OneOpen
      <3> QED
        BY <1>1, <3>1, StatusKept
    <2>3. ChannelStatus[c] = "pending" /\ ChannelAnswer[c] = <<>>
      BY <2>1, StatusByState DEF ChannelStatus, ChannelAnswer
    <2>4. /\ ChannelStatus' = [ChannelStatus EXCEPT ![c] = StatusOf(c)']
          /\ ChannelAnswer' = [ChannelAnswer EXCEPT ![c] =
                IF StatusOf(c)' \in {"answered", "cutoff"} THEN coll'[c].result ELSE <<>>]
      BY <2>1, <2>2 DEF ChannelStatus, ChannelAnswer
    <2>5. CASE coll'[c].state = "timedout"
      <3>1. StatusOf(c)' = "timedout"
        BY <2>5 DEF StatusOf
      <3>2. ChannelAnswer' = ChannelAnswer
        BY <2>3, <2>4, <3>1 DEF ChannelAnswer
      <3>3. Channel!TimeOut(c)
        BY <2>3, <2>4, <3>1, <3>2 DEF Channel!TimeOut, ChannelStatus, ChannelAnswer
      <3> QED
        BY <2>1, <3>3 DEF Channel!Next, Channel!Settle
    <2>6. CASE coll'[c].state \in {"answered", "cutoff"} /\ c \in Behind
      <3>1. StatusOf(c)' = "stale"
        BY <1>1, <2>6 DEF StatusOf
      <3>2. ChannelAnswer' = ChannelAnswer
        BY <2>3, <2>4, <3>1 DEF ChannelAnswer
      <3>3. PICK d \in Calls : coll[d].state = "timedout"
        <4>1. PICK k \in 1 .. Len(started) : \E i \in 1 .. k - 1 :
                      coll[started[i]].state = "timedout"
          BY <2>6 DEF Behind
        <4>2. PICK i \in 1 .. k - 1 : coll[started[i]].state = "timedout"
          BY <4>1
        <4>3. i \in 1 .. Len(started)
          BY LenProperties DEF Typed
        <4>4. started[i] \in Calls
          BY <4>3, ElementOfSeq DEF Typed
        <4> QED
          BY <4>2, <4>4
      <3>4. ChannelStatus[d] = "timedout"
        BY <3>3, StatusByState DEF ChannelStatus
      <3>5. Channel!AnswerStale(c)
        BY <2>3, <2>4, <3>1, <3>2, <3>4 DEF Channel!AnswerStale, ChannelStatus, ChannelAnswer
      <3> QED
        BY <2>1, <3>5 DEF Channel!Next, Channel!Settle
    <2>7. CASE coll'[c].state = "answered" /\ c \notin Behind
      <3>1. StatusOf(c)' = "answered"
        BY <1>1, <2>7 DEF StatusOf
      <3>2. coll'[c].result = Own(c)
        BY <1>1, <2>1, <2>7 DEF AnswersFit
      <3>3. Channel!Answer(c)
        BY <2>3, <2>4, <3>1, <3>2 DEF Channel!Answer, ChannelStatus, ChannelAnswer
      <3> QED
        BY <2>1, <3>3 DEF Channel!Next, Channel!Settle
    <2>8. CASE coll'[c].state = "cutoff" /\ c \notin Behind
      <3>1. StatusOf(c)' = "cutoff"
        BY <1>1, <2>8 DEF StatusOf
      <3>2. PICK n \in 0 .. OutLines : coll'[c].result = SubSeq(Own(c), 1, n)
        BY <1>1, <2>1, <2>8 DEF AnswersFit, PrefixOf
      <3>3. Len(Own(c)) = OutLines
        BY <2>1, FullShape
      <3>4. Channel!CutOff(c)
        BY <2>3, <2>4, <3>1, <3>2, <3>3 DEF Channel!CutOff, ChannelStatus, ChannelAnswer
      <3> QED
        BY <2>1, <3>4 DEF Channel!Next, Channel!Settle
    <2> QED
      BY <2>1, <2>5, <2>6, <2>7, <2>8
  <1> QED
    BY <1>2, <1>3, <1>4

(* A chunk of output settles at most the open call. *)
LEMMA DeliverRefines ==
    ASSUME Typed, Ordered, AnswersFit', NEW s \in Sessions, NEW stream \in Streams,
           Deliver(s, stream)
    PROVE  [Channel!Next]_(Channel!vars)
  <1>1. PICK n \in 1 .. Len(proc[s][stream]) : ChunkStep(s, stream, n, Hearers(s, stream))
    BY DEF Deliver, ChunkStep
  <1> DEFINE lines == SubSeq(proc[s][stream], 1, n)
  <1>2. \A c \in Calls : c \in Hearers(s, stream) => c \in Open
    BY DEF Hearers
  <1>3. \A c \in Calls : coll'[c] = IF c \in Hearers(s, stream) THEN Collected(coll[c], lines)
                                                               ELSE coll[c]
    BY <1>1 DEF ChunkStep
  <1> HIDE DEF lines
  <1>4. ASSUME NEW c \in Calls, c \in Hearers(s, stream)
        PROVE  /\ coll'[c].on = coll[c].on
               /\ coll'[c].state \in {"collecting", "answered"}
    <2>1. coll[c] = [state |-> coll[c].state, on |-> coll[c].on, result |-> coll[c].result]
      BY DEF Typed
    <2>2. LET new == Collected(coll[c], lines)
          IN  /\ new.on = coll[c].on
              /\ new.result = coll[c].result \o KeptLines(lines)
              /\ new.state = IF \E i \in 1 .. Len(lines) : IsPostamble(lines[i])
                             THEN "answered" ELSE coll[c].state
      BY <2>1, CollectedResult
    <2>3. coll[c].state = "collecting"
      BY <1>2, <1>4 DEF Open
    <2> QED
      BY <1>3, <1>4, <2>2, <2>3
  <1>5. started' = started
    BY DEF Deliver
  <1>6. \A c \in Calls : /\ coll'[c].on = coll[c].on
                         /\ c \notin Open => /\ coll'[c].state = coll[c].state
                                             /\ coll'[c].result = coll[c].result
                         /\ c \in Open => coll'[c].state \in
                               {"collecting", "answered", "cutoff", "timedout"}
    <2> SUFFICES ASSUME NEW c \in Calls
                 PROVE  /\ coll'[c].on = coll[c].on
                        /\ c \notin Open => /\ coll'[c].state = coll[c].state
                                            /\ coll'[c].result = coll[c].result
                        /\ c \in Open => coll'[c].state \in
                              {"collecting", "answered", "cutoff", "timedout"}
      OBVIOUS
    <2>1. CASE c \in Hearers(s, stream)
      BY <1>2, <1>4, <2>1
    <2>2. CASE c \notin Hearers(s, stream)
      BY <1>3, <2>2 DEF Open
    <2> QED
      BY <2>1, <2>2
  <1> QED
    BY <1>5, <1>6, SettlingRefines

(* A timer that expires settles at most the call it was armed for. *)
LEMMA TimerFiresRefines ==
    ASSUME Typed, Ordered, AnswersFit', NEW c \in Calls, TimerFires(c)
    PROVE  [Channel!Next]_(Channel!vars)
  <1>1. \A d \in Calls : /\ coll'[d].on = coll[d].on
                         /\ d \notin Open => /\ coll'[d].state = coll[d].state
                                             /\ coll'[d].result = coll[d].result
                         /\ d \in Open => coll'[d].state \in
                               {"collecting", "answered", "cutoff", "timedout"}
    <2> DEFINE r == [coll[c] EXCEPT !.state = IF @ = "collecting" THEN "timedout" ELSE @]
    <2>1. coll[c] = [state |-> coll[c].state, on |-> coll[c].on, result |-> coll[c].result]
      BY DEF Typed
    <2>2. /\ r.on = coll[c].on /\ r.result = coll[c].result
          /\ r.state = IF c \in Open THEN "timedout" ELSE coll[c].state
      BY <2>1 DEF Open
    <2>3. coll' = [coll EXCEPT ![c] = r]
      BY DEF TimerFires, Typed
    <2> HIDE DEF r
    <2>4. coll'[c] = r /\ \A d \in Calls : d # c => coll'[d] = coll[d]
      BY <2>3 DEF Typed
    <2>5. \A d \in Open : coll[d].state = "collecting"
      BY DEF Open
    <2> QED
      BY <2>2, <2>4, <2>5
  <1>2. started' = started
    BY DEF TimerFires
  <1> QED
    BY <1>1, <1>2, SettlingRefines

(* The end of a session settles at most the open call. *)
LEMMA OnExitRefines ==
    ASSUME ShellInv, ChannelInv, AnswersFit', NEW s \in Sessions,
           NEW code, NEW p \in SessionRecord,
           proc[s].status = "dead", ~ proc[s].exited \/ ~ proc[s].erred,
           p.status = "dead", OnExit(s, code, p)
    PROVE  [Channel!Next]_(Channel!vars)
  <1>1. \A c \in Calls : /\ coll'[c].on = coll[c].on
                         /\ coll'[c].result = coll[c].result
                         /\ coll'[c].state = IF c \in CutOffBy(s) THEN "cutoff"
                                                                  ELSE coll[c].state
    BY OnExitEffect
  <1>2. \A c \in Calls : /\ coll'[c].on = coll[c].on
                         /\ c \notin Open => /\ coll'[c].state = coll[c].state
                                             /\ coll'[c].result = coll[c].result
                         /\ c \in Open => coll'[c].state \in
                               {"collecting", "answered", "cutoff", "timedout"}
    BY <1>1 DEF CutOffBy, Open
  <1>3. started' = started /\ Typed /\ Ordered
    BY DEF OnExit, ShellInv, ChannelInv
  <1> QED
    BY <1>2, <1>3, SettlingRefines

(* A call of sendCommandWithOutput asks the channel. *)
LEMMA SendRefines ==
    ASSUME Awaited, Typed, ChannelInv, NEW c \in Calls, SendCommandWithOutput(c)
    PROVE  Channel!Next
  <1>1. /\ Open = {} /\ coll[c].state = "idle" /\ coll'[c].state = "collecting"
        /\ \A d \in Calls : d # c => coll'[d] = coll[d]
        /\ \A d \in Calls : d # c => (d \in Behind' <=> d \in Behind)
    BY SendEffect DEF ChannelInv
  <1>2. \A d \in Calls : d # c => /\ ChannelStatus'[d] = ChannelStatus[d]
                                  /\ ChannelAnswer'[d] = ChannelAnswer[d]
    BY <1>1, StatusKept
  <1>3. ChannelStatus[c] = "idle" /\ ChannelAnswer[c] = <<>>
    BY <1>1, StatusByState DEF ChannelStatus, ChannelAnswer
  <1>4. StatusOf(c)' = "pending"
    BY <1>1 DEF StatusOf
  <1>5. /\ ChannelStatus' = [ChannelStatus EXCEPT ![c] = "pending"]
        /\ ChannelAnswer' = ChannelAnswer
    BY <1>2, <1>3, <1>4 DEF ChannelStatus, ChannelAnswer
  <1>6. \A d \in Calls : ChannelStatus[d] # "pending"
    BY <1>1, StatusByState DEF ChannelStatus, Open
  <1>7. Channel!Ask(c)
    BY <1>3, <1>5, <1>6 DEF Channel!Ask, ChannelStatus, ChannelAnswer
  <1> QED
    BY <1>7 DEF Channel!Next

(* The other steps are no business of the channel. *)
LEMMA SilentRefines ==
    ASSUME Typed, Ordered, AnswersFit', UNCHANGED <<coll, started>>
    PROVE  [Channel!Next]_(Channel!vars)
  <1>1. \A c \in Open : coll[c].state = "collecting"
    BY DEF Open
  <1> QED
    BY <1>1, SettlingRefines

(* Every step of the shell is one of the channel, or none. *)
LEMMA StepRefines ==
    ASSUME AllFromStdout, Awaited, ShellInv, ChannelInv, ChannelInv', [Next]_vars
    PROVE  [Channel!Next]_(Channel!vars)
  <1>1. Typed /\ Ordered /\ AnswersFit'
    BY DEF ShellInv, ChannelInv
  <1>2. ASSUME NEW c \in Calls, SendCommandWithOutput(c) PROVE [Channel!Next]_(Channel!vars)
    BY <1>1, <1>2, SendRefines
  <1>3. ASSUME NEW c \in Calls, TimerFires(c) PROVE [Channel!Next]_(Channel!vars)
    BY <1>1, <1>3, TimerFiresRefines
  <1>4. ASSUME NEW s \in Sessions, RExecute(s) PROVE [Channel!Next]_(Channel!vars)
    BY <1>1, <1>4, SilentRefines DEF RExecute
  <1>5. ASSUME NEW s \in Sessions, NEW code \in {"zero", "nonzero", "signal"}, RDies(s, code)
        PROVE  [Channel!Next]_(Channel!vars)
    BY <1>1, <1>5, SilentRefines DEF RDies
  <1>6. ASSUME NEW s \in Sessions, NEW stream \in Streams, Deliver(s, stream)
        PROVE  [Channel!Next]_(Channel!vars)
    BY <1>1, <1>6, DeliverRefines
  <1>7. ASSUME NEW s \in Sessions, ExitEvent(s) \/ StdinError(s)
        PROVE  [Channel!Next]_(Channel!vars)
    BY <1>1, <1>7, SessionEnds, OnExitRefines
  <1>8. CASE Close
    BY <1>1, <1>8, SilentRefines DEF Close
  <1>9. CASE UNCHANGED vars
    BY <1>1, <1>9, SilentRefines DEF vars
  <1> QED
    BY <1>2, <1>3, <1>4, <1>5, <1>6, <1>7, <1>8, <1>9 DEF Next

(* Before the first call, no call was asked. *)
LEMMA InitRefines == Init => Channel!Init
  BY DEF Init, Channel!Init, StatusOf

(* A caller that awaits each call before the next may regard the shell as a  *)
(* CommandChannel: whatever R does, and however often it ends and is revived,*)
(* a call is answered with exactly its own lines or cut off with the first of*)
(* them, unless an earlier call to the same session ran into the timeout.    *)
THEOREM ShellIsChannel ==
    ASSUME AllFromStdout, Awaited
    PROVE  Spec => Channel!Safety
  <1>1. /\ ShellInv /\ ChannelInv
        /\ (ShellInv /\ ChannelInv)'
        /\ [Next]_vars
        => [Channel!Next]_(Channel!vars)
    BY StepRefines
  <1> QED
    BY <1>1, InitRefines, ChannelInvariant, PTL DEF Spec, Channel!Safety

=============================================================================
