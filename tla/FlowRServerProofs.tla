--------------------------- MODULE FlowRServerProofs ---------------------------
(***************************************************************************)
(* No request is answered twice, for all clients and scripts: however the  *)
(* messages are cut into chunks, whether clients wait for answers or not,  *)
(* and although R may end and be revived under the calls.                  *)
(*                                                                         *)
(* The inductive invariant follows the fragments of a client from the      *)
(* socket through currentMessageBuffer: together they are the messages the *)
(* server has not yet taken, in order and without gap. Nothing was done    *)
(* for those, and nothing was sent for a request that still waits for R.   *)
(*                                                                         *)
(* The second part is about what the answers say: analyses and slices fit  *)
(* their requests, and no message ends the server, when clients wait and   *)
(* calls of the shell do not overlap. It rests on RShellProofs.     *)
(***************************************************************************)
EXTENDS FlowRServer, FiniteSetTheorems, TLAPS

Files == {m.file : m \in AllMessages} \cup {None}

(* The fragments of client c that are not yet part of a message taken. *)
Stream(c) == buffer[c] \o wire[c]

Fragment == [id : Requests, newline : BOOLEAN]

CollTyped ==
    coll = [id \in ShellCalls |-> [state |-> coll[id].state, on |-> coll[id].on,
                                   result |-> coll[id].result]]

ServerTyped ==
    /\ sent \in [Clients -> Nat]
    /\ \A c \in Clients : sent[c] <= Len(Script[c])
    /\ wire \in [Clients -> Seq(Fragment)]
    /\ buffer \in [Clients -> Seq(Fragment)]
    /\ slicer \in [Requests -> [counter : {0, 3, 5}, file : Files]]
    /\ answers \in [Requests -> Seq(Replies)]
    /\ fileMap \in [Clients -> [Tokens -> Requests \cup {None}]]
    /\ CollTyped

IsFinal(message) == message.kind \in Finals

NoFinal(messages) == \A i \in 1 .. Len(messages) : ~ IsFinal(messages[i])

OneFinal(messages) ==
    \A i, j \in 1 .. Len(messages) :
        IsFinal(messages[i]) /\ IsFinal(messages[j]) => i = j

Asks(id, state) == id \in ShellCalls /\ coll[id].state = state

(* Nothing was done for the request yet. *)
Fresh(id) == NoFinal(answers[id]) /\ (id \in ShellCalls => Asks(id, "idle"))

(* The stream holds the messages after the first f ones that were sent. *)
StreamFits(c, f) ==
    /\ Len(Stream(c)) = 2 * (sent[c] - f)
    /\ \A j \in 1 .. sent[c] - f :
          /\ Stream(c)[2 * j - 1] = [id |-> Script[c][f + j].id, newline |-> FALSE]
          /\ Stream(c)[2 * j] = [id |-> Script[c][f + j].id, newline |-> TRUE]

(* All but the first f messages of the client are yet to be taken. *)
TakenInOrder(c, f) ==
    /\ f <= sent[c]
    /\ StreamFits(c, f)
    /\ \A i \in f + 1 .. Len(Script[c]) : Fresh(Script[c][i].id)

ServerInv ==
    /\ ServerTyped
    /\ \A c \in Clients : \E f \in Nat : TakenInOrder(c, f)
    /\ \A id \in Requests : /\ OneFinal(answers[id])
                            /\ Asks(id, "collecting") => NoFinal(answers[id])

-----------------------------------------------------------------------------
(* The messages of the scripts are told apart by their identities. *)
LEMMA Scripts ==
    ASSUME NEW c \in Clients, NEW i \in 1 .. Len(Script[c])
    PROVE  LET m == Script[c][i]
           IN  /\ Len(Script[c]) \in Nat
               /\ m \in AllMessages /\ m.id \in Requests
               /\ Msg(m.id) = m
               /\ \A d \in Clients : \A j \in 1 .. Len(Script[d]) :
                     Script[d][j].id = m.id => d = c /\ j = i
  <1> DEFINE m == Script[c][i]
  <1>1. Script[c] \in Seq(AllMessages) /\ Len(Script[c]) \in Nat
    BY ServerAssumption
  <1>2. m \in AllMessages
    BY <1>1
  <1>3. m.id \in Requests
    BY <1>2 DEF Requests
  <1>4. \A d \in Clients : \A j \in 1 .. Len(Script[d]) :
            Script[d][j].id = m.id => d = c /\ j = i
    BY ServerAssumption
  <1>5. \A n \in AllMessages : \E d \in Clients : \E j \in 1 .. Len(Script[d]) : n = Script[d][j]
    BY DEF AllMessages
  <1>6. \A n \in AllMessages : n.id = m.id => n = m
    BY <1>4, <1>5
  <1>7. Msg(m.id) = m
    <2>1. \E n \in AllMessages : n.id = m.id
      BY <1>2
    <2>2. Msg(m.id) \in AllMessages /\ Msg(m.id).id = m.id
      BY <2>1 DEF Msg
    <2> QED
      BY <1>6, <2>2
  <1> QED
    BY <1>1, <1>2, <1>3, <1>4, <1>7

(* A request without a final answer gets at most one. *)
LEMMA FirstFinal ==
    ASSUME NEW old \in Seq(Replies), NoFinal(old),
           NEW more \in Seq(Replies), OneFinal(more)
    PROVE  old \o more \in Seq(Replies) /\ OneFinal(old \o more)
  <1>1. /\ Len(old) \in Nat /\ Len(more) \in Nat
        /\ Len(old \o more) = Len(old) + Len(more)
        /\ \A i \in 1 .. Len(old) + Len(more) :
              (old \o more)[i] = IF i <= Len(old) THEN old[i] ELSE more[i - Len(old)]
    OBVIOUS
  <1>2. ASSUME NEW i \in 1 .. Len(old \o more), IsFinal((old \o more)[i])
        PROVE  /\ i - Len(old) \in 1 .. Len(more)
               /\ (old \o more)[i] = more[i - Len(old)]
    BY <1>1, <1>2 DEF NoFinal
  <1>3. ASSUME NEW i \in 1 .. Len(old \o more), NEW j \in 1 .. Len(old \o more),
               IsFinal((old \o more)[i]), IsFinal((old \o more)[j])
        PROVE  i = j
    <2>1. i - Len(old) = j - Len(old)
      BY <1>2, <1>3 DEF OneFinal
    <2> QED
      BY <1>1, <2>1
  <1> QED
    BY <1>3 DEF OneFinal

(* What the handlers send for one request. *)
LEMMA WhatIsSent ==
    /\ \A file \in Files : /\ AnalysisAnswer(file) \in Seq(Replies)
                           /\ OneFinal(AnalysisAnswer(file))
    /\ ReplAnswer \in Seq(Replies) /\ OneFinal(ReplAnswer)
    /\ \A reply \in Replies : <<reply>> \in Seq(Replies) /\ OneFinal(<<reply>>)
    /\ <<>> \in Seq(Replies) /\ OneFinal(<<>>)
    /\ Error \in Replies
  <1>1. ASSUME NEW reply \in Replies
        PROVE  <<reply>> \in Seq(Replies) /\ OneFinal(<<reply>>)
    BY DEF OneFinal
  <1>2. Error \in Replies
    BY DEF Error, Replies, Finals
  <1>3. ASSUME NEW file \in Files
        PROVE  AnalysisAnswer(file) \in Seq(Replies) /\ OneFinal(AnalysisAnswer(file))
    <2> DEFINE reply == [kind |-> "analysis", file |-> file, criterion |-> None]
    <2>1. reply \in Replies
      BY DEF Replies, Finals, Files
    <2>2. AnalysisAnswer(file) = <<Error>> \/ AnalysisAnswer(file) = <<reply>>
      BY DEF AnalysisAnswer, Error
    <2> HIDE DEF reply
    <2> QED
      BY <1>1, <1>2, <2>1, <2>2
  <1>4. ReplAnswer \in Seq(Replies) /\ OneFinal(ReplAnswer)
    <2>1. ReplAnswer \in Seq(Replies)
      BY DEF ReplAnswer, Replies, Finals
    <2>2. /\ Len(ReplAnswer) = 2 /\ ~ IsFinal(ReplAnswer[1])
      BY DEF ReplAnswer, IsFinal, Finals
    <2>3. \A i \in 1 .. Len(ReplAnswer) : IsFinal(ReplAnswer[i]) => i = 2
      BY <2>2
    <2> QED
      BY <2>1, <2>3 DEF OneFinal
  <1> QED
    BY <1>1, <1>2, <1>3, <1>4 DEF OneFinal

-----------------------------------------------------------------------------
(* In the beginning nothing was sent and nothing is asked. *)
LEMMA InitEstablishesInv == Init => ServerInv
  <1> SUFFICES ASSUME Init
               PROVE  ServerInv
    OBVIOUS
  <1>1. coll = [c \in ShellCalls |-> [state |-> "idle", on |-> 0, result |-> <<>>]]
    BY DEF Init, Shell!Init
  <1>2. \A id \in Requests : answers[id] = <<>> /\ ~ Asks(id, "collecting")
    BY <1>1 DEF Init, Asks
  <1>3. \A id \in Requests : Fresh(id) /\ OneFinal(answers[id])
    BY <1>1, <1>2 DEF Fresh, Asks, NoFinal, OneFinal
  <1>4. ServerTyped
    <2>1. <<>> \in Seq(Fragment) /\ <<>> \in Seq(Replies) /\ None \in Files
      BY DEF Files
    <2>2. \A c \in Clients : Len(Script[c]) \in Nat
      BY ServerAssumption
    <2>3. slicer \in [Requests -> [counter : {0, 3, 5}, file : Files]]
      BY <2>1 DEF Init
    <2>4. CollTyped
      BY <1>1 DEF CollTyped
    <2> QED
      BY <2>1, <2>2, <2>3, <2>4 DEF Init, ServerTyped
  <1>5. ASSUME NEW c \in Clients
        PROVE  TakenInOrder(c, 0)
    <2>1. Stream(c) = <<>> /\ sent[c] = 0
      BY DEF Init, Stream
    <2>2. StreamFits(c, 0)
      BY <2>1 DEF StreamFits
    <2>3. \A i \in 1 .. Len(Script[c]) : Fresh(Script[c][i].id)
      BY <1>3, Scripts
    <2> QED
      BY <2>1, <2>2, <2>3 DEF TakenInOrder
  <1> QED
    BY <1>2, <1>3, <1>4, <1>5 DEF ServerInv

(* A step that leaves the connections, the answers and the calls alone. *)
LEMMA NothingTaken ==
    ASSUME ServerInv, UNCHANGED <<sent, wire, buffer, answers, slicer, fileMap, coll>>
    PROVE  ServerInv'
  <1>1. ServerTyped'
    BY DEF ServerInv, ServerTyped, CollTyped
  <1>2. \A id : (Fresh(id) => Fresh(id)') /\ (Asks(id, "collecting")' => Asks(id, "collecting"))
    BY DEF Fresh, Asks
  <1>3. \A c \in Clients : \A f \in Nat : TakenInOrder(c, f) => TakenInOrder(c, f)'
    BY <1>2 DEF TakenInOrder, StreamFits, Stream
  <1>4. \A id \in Requests : /\ OneFinal(answers'[id])
                             /\ Asks(id, "collecting")' => NoFinal(answers'[id])
    BY <1>2 DEF ServerInv
  <1> QED
    BY <1>1, <1>3, <1>4 DEF ServerInv

(* The elements of a concatenation. *)
LEMMA Concatenated ==
    ASSUME NEW a \in Seq(Fragment), NEW b \in Seq(Fragment)
    PROVE  /\ Len(a) \in Nat /\ Len(b) \in Nat
           /\ a \o b \in Seq(Fragment)
           /\ Len(a \o b) = Len(a) + Len(b)
           /\ \A i \in 1 .. Len(a) + Len(b) :
                 (a \o b)[i] = IF i <= Len(a) THEN a[i] ELSE b[i - Len(a)]
  OBVIOUS

(* Two fragments more at the end of the wire. *)
LEMMA TwoMore ==
    ASSUME NEW a \in Seq(Fragment), NEW b \in Seq(Fragment), NEW two \in Seq(Fragment),
           Len(two) = 2
    PROVE  LET old == a \o b
               new == a \o (b \o two)
           IN  /\ Len(old) \in Nat /\ Len(new) = Len(old) + 2
               /\ \A i \in 1 .. Len(old) : new[i] = old[i]
               /\ new[Len(old) + 1] = two[1]
               /\ new[Len(old) + 2] = two[2]
  <1> DEFINE more == b \o two
             old == a \o b
             new == a \o more
  <1>1. /\ Len(a) \in Nat /\ Len(b) \in Nat /\ Len(old) = Len(a) + Len(b)
        /\ \A i \in 1 .. Len(a) + Len(b) :
              old[i] = IF i <= Len(a) THEN a[i] ELSE b[i - Len(a)]
    BY Concatenated
  <1>2. /\ more \in Seq(Fragment) /\ Len(more) = Len(b) + 2
        /\ \A i \in 1 .. Len(b) + 2 : more[i] = IF i <= Len(b) THEN b[i] ELSE two[i - Len(b)]
    <2>1. /\ more \in Seq(Fragment) /\ Len(more) = Len(b) + Len(two)
          /\ \A i \in 1 .. Len(b) + Len(two) :
                more[i] = IF i <= Len(b) THEN b[i] ELSE two[i - Len(b)]
      BY Concatenated
    <2> HIDE DEF more
    <2> QED
      BY <2>1
  <1> HIDE DEF more
  <1>3. /\ Len(new) = Len(a) + Len(b) + 2
        /\ \A i \in 1 .. Len(a) + Len(b) + 2 :
              new[i] = IF i <= Len(a) THEN a[i] ELSE more[i - Len(a)]
    <2>1. /\ Len(new) = Len(a) + Len(more)
          /\ \A i \in 1 .. Len(a) + Len(more) :
                new[i] = IF i <= Len(a) THEN a[i] ELSE more[i - Len(a)]
      BY <1>2, Concatenated
    <2> QED
      BY <1>1, <1>2, <2>1
  <1> HIDE DEF old, new
  <1>4. ASSUME NEW i \in 1 .. Len(old)
        PROVE  new[i] = old[i]
    <2>1. /\ i \in 1 .. Len(a) + Len(b) /\ i \in 1 .. Len(a) + Len(b) + 2
      BY <1>1
    <2>2. /\ new[i] = IF i <= Len(a) THEN a[i] ELSE more[i - Len(a)]
          /\ old[i] = IF i <= Len(a) THEN a[i] ELSE b[i - Len(a)]
      BY <1>1, <1>3, <2>1
    <2>3. CASE i <= Len(a)
      BY <2>2, <2>3
    <2>4. CASE ~ (i <= Len(a))
      <3>1. i - Len(a) \in 1 .. Len(b) + 2 /\ i - Len(a) <= Len(b)
        BY <1>1, <2>1, <2>4
      <3>2. more[i - Len(a)] = b[i - Len(a)]
        BY <1>2, <3>1
      <3> QED
        BY <2>2, <2>4, <3>2
    <2> QED
      BY <2>3, <2>4
  <1>5. ASSUME NEW k \in {1, 2}
        PROVE  new[Len(old) + k] = two[k]
    <2>1. /\ Len(old) + k \in 1 .. Len(a) + Len(b) + 2
          /\ ~ (Len(old) + k <= Len(a))
          /\ (Len(old) + k) - Len(a) = Len(b) + k
      BY <1>1
    <2>2. new[Len(old) + k] = more[Len(b) + k]
      BY <1>3, <2>1
    <2>3. /\ Len(b) + k \in 1 .. Len(b) + 2
          /\ ~ (Len(b) + k <= Len(b))
          /\ (Len(b) + k) - Len(b) = k
      BY <1>1
    <2>4. more[Len(b) + k] = two[k]
      BY <1>2, <2>3
    <2> QED
      BY <2>2, <2>4
  <1>6. Len(old) \in Nat /\ Len(new) = Len(old) + 2
    BY <1>1, <1>3
  <1> QED
    BY <1>4, <1>5, <1>6 DEF old, new, more

(* A message that is sent joins the end of the stream. *)
LEMMA SendKeepsInv ==
    ASSUME ServerInv, NEW c \in Clients, Send(c)
    PROVE  ServerInv'
  <1> DEFINE id == Script[c][sent[c] + 1].id
             two == << [id |-> id, newline |-> FALSE], [id |-> id, newline |-> TRUE] >>
  <1>1. /\ ServerTyped /\ sent[c] \in Nat /\ sent[c] < Len(Script[c])
        /\ wire[c] \in Seq(Fragment) /\ buffer[c] \in Seq(Fragment)
        /\ Len(Script[c]) \in Nat
    BY ServerAssumption DEF ServerInv, ServerTyped, Send
  <1>2. id \in Requests /\ two \in Seq(Fragment)
    <2>1. sent[c] + 1 \in 1 .. Len(Script[c])
      BY <1>1
    <2>2. id \in Requests
      BY <2>1, Scripts
    <2> QED
      BY <2>2 DEF Fragment
  <1>3. /\ sent' = [sent EXCEPT ![c] = sent[c] + 1]
        /\ wire' = [wire EXCEPT ![c] = wire[c] \o two]
        /\ UNCHANGED <<buffer, answers, slicer, fileMap, coll>>
    BY DEF Send, shellVars
  <1>4. /\ Len(two) = 2
        /\ two[1] = [id |-> id, newline |-> FALSE]
        /\ two[2] = [id |-> id, newline |-> TRUE]
    OBVIOUS
  <1> HIDE DEF two
  <1>5. ServerTyped'
    BY <1>1, <1>2, <1>3 DEF ServerTyped, CollTyped
  <1>6. \A r : (Fresh(r) => Fresh(r)') /\ (Asks(r, "collecting")' => Asks(r, "collecting"))
    BY <1>3 DEF Fresh, Asks
  <1>7. ASSUME NEW d \in Clients, NEW f \in Nat, TakenInOrder(d, f)
        PROVE  TakenInOrder(d, f)'
    <2>1. CASE d # c
      <3>1. sent'[d] = sent[d] /\ Stream(d)' = Stream(d)
        BY <1>1, <1>3, <2>1 DEF ServerTyped, Stream
      <3> QED
        BY <1>6, <1>7, <3>1 DEF TakenInOrder, StreamFits
    <2>2. CASE d = c
      <3>1. sent'[c] = sent[c] + 1 /\ Stream(c)' = buffer[c] \o (wire[c] \o two)
        BY <1>1, <1>3 DEF ServerTyped, Stream
      <3>2. /\ Len(Stream(c)') = Len(Stream(c)) + 2
            /\ \A i \in 1 .. Len(Stream(c)) : Stream(c)'[i] = Stream(c)[i]
            /\ Stream(c)'[Len(Stream(c)) + 1] = two[1]
            /\ Stream(c)'[Len(Stream(c)) + 2] = two[2]
            /\ Len(Stream(c)) \in Nat
        <4>1. LET old == buffer[c] \o wire[c]
                  new == buffer[c] \o (wire[c] \o two)
              IN  /\ Len(old) \in Nat /\ Len(new) = Len(old) + 2
                  /\ \A i \in 1 .. Len(old) : new[i] = old[i]
                  /\ new[Len(old) + 1] = two[1]
                  /\ new[Len(old) + 2] = two[2]
          BY <1>1, <1>2, <1>4, TwoMore
        <4> QED
          BY <3>1, <4>1 DEF Stream
      <3>3. /\ f \in Nat /\ f <= sent[c] /\ StreamFits(c, f)
            /\ Len(Stream(c)) = 2 * (sent[c] - f)
        BY <1>7, <2>2 DEF TakenInOrder, StreamFits
      <3>4. StreamFits(c, f)'
        <4>1. Len(Stream(c)') = 2 * (sent'[c] - f)
          BY <1>1, <3>1, <3>2, <3>3
        <4>2. ASSUME NEW j \in 1 .. sent'[c] - f
              PROVE  /\ Stream(c)'[2 * j - 1] = [id |-> Script[c][f + j].id, newline |-> FALSE]
                     /\ Stream(c)'[2 * j] = [id |-> Script[c][f + j].id, newline |-> TRUE]
          <5>1. CASE j <= sent[c] - f
            <6>1. /\ j \in 1 .. sent[c] - f
                  /\ 2 * j - 1 \in 1 .. Len(Stream(c)) /\ 2 * j \in 1 .. Len(Stream(c))
              BY <1>1, <3>3, <5>1
            <6> QED
              BY <3>2, <3>3, <6>1 DEF StreamFits
          <5>2. CASE j = sent[c] - f + 1
            <6>1. /\ 2 * j - 1 = Len(Stream(c)) + 1 /\ 2 * j = Len(Stream(c)) + 2
                  /\ f + j = sent[c] + 1
              BY <1>1, <3>3, <5>2
            <6> QED
              BY <1>4, <3>2, <6>1
          <5>3. j <= sent[c] - f \/ j = sent[c] - f + 1
            <6>1. sent'[c] = sent[c] + 1
              BY <3>1
            <6>2. \A u, v \in Int : \A k \in 1 .. (u + 1) - v : k <= u - v \/ k = u - v + 1
              OBVIOUS
            <6> QED
              BY <1>1, <3>3, <6>1, <6>2
          <5> QED
            BY <5>1, <5>2, <5>3
        <4> QED
          BY <4>1, <4>2 DEF StreamFits
      <3> QED
        BY <1>1, <1>6, <1>7, <2>2, <3>1, <3>3, <3>4 DEF TakenInOrder
    <2> QED
      BY <2>1, <2>2
  <1>8. \A r \in Requests : /\ OneFinal(answers'[r])
                            /\ Asks(r, "collecting")' => NoFinal(answers'[r])
    BY <1>3, <1>6 DEF ServerInv
  <1> QED
    BY <1>5, <1>7, <1>8 DEF ServerInv

-----------------------------------------------------------------------------
(* A collector after one more chunk. *)
LEMMA CollectorShape ==
    ASSUME NEW r, r = [state |-> r.state, on |-> r.on, result |-> r.result], NEW lines
    PROVE  LET new == Shell!Collected(r, lines)
           IN  /\ new = [state |-> new.state, on |-> new.on, result |-> new.result]
               /\ new.state \in {"answered", r.state}
  <1> DEFINE kept == Shell!KeptLines(lines)
             ends == \E i \in 1 .. Len(lines) : Shell!IsPostamble(lines[i])
  <1>1. Shell!Collected(r, lines) = [r EXCEPT !.result = r.result \o kept,
                                              !.state = IF ends THEN "answered" ELSE r.state]
    BY Zenon DEF Shell!Collected
  <1> HIDE DEF kept, ends
  <1>2. Shell!Collected(r, lines) = [state |-> IF ends THEN "answered" ELSE r.state,
                                     on |-> r.on, result |-> r.result \o kept]
    BY <1>1
  <1> QED
    BY <1>2

(* A call of the shell only ever settles, and only once. *)
LEMMA CallsOnlySettle ==
    ASSUME CollTyped, NEW s \in Shell!Sessions,
           \/ \E stream \in Shell!Streams : Shell!Deliver(s, stream)
           \/ Shell!ExitEvent(s)
           \/ Shell!StdinError(s)
    PROVE  /\ CollTyped'
           /\ \A id \in ShellCalls :
                 \/ coll'[id].state = coll[id].state
                 \/ /\ coll[id].state = "collecting"
                    /\ coll'[id].state \in {"answered", "cutoff"}
  <1> DEFINE Shaped(r) == r = [state |-> r.state, on |-> r.on, result |-> r.result]
             Settles(old, new) ==
                 \/ new.state = old.state
                 \/ old.state = "collecting" /\ new.state \in {"answered", "cutoff"}
  <1>1. \A id \in ShellCalls : Shaped(coll[id])
    BY DEF CollTyped
  <1>2. SUFFICES /\ coll' = [id \in ShellCalls |-> coll'[id]]
                 /\ \A id \in ShellCalls : Shaped(coll'[id]) /\ Settles(coll[id], coll'[id])
    BY DEF CollTyped
  <1>3. ASSUME NEW stream \in Shell!Streams, Shell!Deliver(s, stream)
        PROVE  /\ coll' = [id \in ShellCalls |-> coll'[id]]
               /\ \A id \in ShellCalls : Shaped(coll'[id]) /\ Settles(coll[id], coll'[id])
    <2>1. PICK lines :
            coll' = [id \in ShellCalls |->
                        IF id \in Shell!Hearers(s, stream)
                        THEN Shell!Collected(coll[id], lines) ELSE coll[id]]
      BY <1>3 DEF Shell!Deliver
    <2>2. \A id \in Shell!Hearers(s, stream) : coll[id].state = "collecting"
      BY DEF Shell!Hearers, Shell!Open
    <2>3. ASSUME NEW id \in ShellCalls
          PROVE  Shaped(coll'[id]) /\ Settles(coll[id], coll'[id])
      <3>1. CASE id \in Shell!Hearers(s, stream)
        <4>1. coll'[id] = Shell!Collected(coll[id], lines)
          BY <2>1, <3>1
        <4>2. LET new == Shell!Collected(coll[id], lines)
              IN  /\ new = [state |-> new.state, on |-> new.on, result |-> new.result]
                  /\ new.state \in {"answered", coll[id].state}
          <5>1. coll[id] = [state |-> coll[id].state, on |-> coll[id].on,
                            result |-> coll[id].result]
            BY <1>1
          <5> QED
            BY <5>1, CollectorShape
        <4> QED
          BY <2>2, <3>1, <4>1, <4>2
      <3>2. CASE id \notin Shell!Hearers(s, stream)
        BY <1>1, <2>1, <3>2
      <3> QED
        BY <3>1, <3>2
    <2> QED
      BY <2>1, <2>3
  <1>4. ASSUME NEW code, NEW p, Shell!OnExit(s, code, p)
        PROVE  /\ coll' = [id \in ShellCalls |-> coll'[id]]
               /\ \A id \in ShellCalls : Shaped(coll'[id]) /\ Settles(coll[id], coll'[id])
    <2>1. coll' = [id \in ShellCalls |-> IF id \in Shell!CutOffBy(s)
                                         THEN [coll[id] EXCEPT !.state = "cutoff"]
                                         ELSE coll[id]]
      BY <1>4 DEF Shell!OnExit
    <2>2. \A id \in Shell!CutOffBy(s) : coll[id].state = "collecting"
      BY DEF Shell!CutOffBy, Shell!Open
    <2>3. ASSUME NEW id \in ShellCalls
          PROVE  Shaped(coll'[id]) /\ Settles(coll[id], coll'[id])
      <3>1. CASE id \in Shell!CutOffBy(s)
        <4>1. coll'[id] = [coll[id] EXCEPT !.state = "cutoff"]
          BY <2>1, <3>1
        <4>2. LET new == [coll[id] EXCEPT !.state = "cutoff"]
              IN  /\ new = [state |-> new.state, on |-> new.on, result |-> new.result]
                  /\ new.state = "cutoff"
          <5>1. ASSUME NEW r, r = [state |-> r.state, on |-> r.on, result |-> r.result]
                PROVE  [r EXCEPT !.state = "cutoff"]
                         = [state |-> "cutoff", on |-> r.on, result |-> r.result]
            BY <5>1
          <5>2. [coll[id] EXCEPT !.state = "cutoff"]
                  = [state |-> "cutoff", on |-> coll[id].on, result |-> coll[id].result]
            BY <1>1, <5>1
          <5> QED
            BY <5>2
        <4> QED
          BY <2>2, <3>1, <4>1, <4>2
      <3>2. CASE id \notin Shell!CutOffBy(s)
        BY <1>1, <2>1, <3>2
      <3> QED
        BY <3>1, <3>2
    <2> QED
      BY <2>1, <2>3
  <1> HIDE DEF Shaped, Settles
  <1> QED
    BY <1>3, <1>4 DEF Shell!ExitEvent, Shell!StdinError

(* The file a collected output is the parse of is one that was asked for. *)
LEMMA ParsedIsAFile == \A result : Parsed(result) \in Files
  <1> SUFFICES ASSUME NEW result
               PROVE  Parsed(result) \in Files
    OBVIOUS
  <1> DEFINE of == {m \in AllMessages : /\ m.type \in {"analysis", "command"}
                                        /\ m.file \notin Unparseable
                                        /\ result = Shell!Own(m.id)}
  <1>1. CASE of = {}
    BY <1>1 DEF Parsed, Files
  <1>2. CASE of # {}
    <2>1. (CHOOSE m \in of : TRUE) \in of
      BY <1>2
    <2>2. (CHOOSE m \in of : TRUE).file \in Files
      BY <2>1 DEF Files
    <2> QED
      BY <1>2, <2>2 DEF Parsed
  <1> QED
    BY <1>1, <1>2

(* What a settled call lets its request send is its first final answer. *)
LEMMA ShellAnswersKeepsInv == ServerInv /\ ShellAnswers => ServerInv'
  <1> SUFFICES ASSUME ServerInv, ShellAnswers
               PROVE  ServerInv'
    OBVIOUS
  <1>1. ServerTyped /\ CollTyped
    BY DEF ServerInv, ServerTyped
  <1>2. /\ CollTyped'
        /\ \A id \in ShellCalls :
              \/ coll'[id].state = coll[id].state
              \/ /\ coll[id].state = "collecting"
                 /\ coll'[id].state \in {"answered", "cutoff"}
    BY <1>1, CallsOnlySettle DEF ShellAnswers
  <1>3. UNCHANGED <<sent, wire, buffer, fileMap>>
    BY DEF ShellAnswers, connVars
  <1> DEFINE settled == {id \in ShellCalls : /\ coll[id].state = "collecting"
                                             /\ coll'[id].state \in {"answered", "cutoff"}}
             FileOf(id) == Parsed(coll'[id].result)
             Says(id) == Deliverable(id, IF Msg(id).type = "analysis"
                                         THEN AnalysisAnswer(FileOf(id)) ELSE ReplAnswer)
  <1>4. /\ slicer' = [id \in Requests |->
              IF id \in settled /\ Msg(id).type = "analysis"
              THEN [counter |-> CountAfter(FileOf(id)), file |-> FileOf(id)]
              ELSE slicer[id]]
        /\ answers' = [id \in Requests |->
              IF id \in settled THEN answers[id] \o Says(id) ELSE answers[id]]
    BY DEF ShellAnswers, Continue
  <1>5. \A id : FileOf(id) \in Files
    BY ParsedIsAFile
  <1>6. \A id : Says(id) \in Seq(Replies) /\ OneFinal(Says(id))
    BY <1>5, WhatIsSent DEF Deliverable
  <1>7. \A id \in settled : Asks(id, "collecting") /\ ~ Asks(id, "collecting")'
    BY DEF Asks
  <1>8. \A id : (Asks(id, "collecting")' => Asks(id, "collecting"))
                /\ (Asks(id, "idle") => Asks(id, "idle")' /\ id \notin settled)
    BY <1>2 DEF Asks
  <1> HIDE DEF Says, FileOf, settled
  <1>9. ASSUME NEW id \in Requests
        PROVE  /\ answers'[id] \in Seq(Replies)
               /\ OneFinal(answers'[id])
               /\ Asks(id, "collecting")' => NoFinal(answers'[id])
    <2>1. /\ answers[id] \in Seq(Replies) /\ OneFinal(answers[id])
          /\ Asks(id, "collecting") => NoFinal(answers[id])
      BY <1>1 DEF ServerInv, ServerTyped
    <2>2. CASE id \in settled
      <3>1. answers'[id] = answers[id] \o Says(id) /\ NoFinal(answers[id])
        BY <1>4, <1>7, <2>1, <2>2
      <3>2. answers'[id] \in Seq(Replies) /\ OneFinal(answers'[id])
        BY <1>6, <2>1, <3>1, FirstFinal
      <3> QED
        BY <1>7, <2>2, <3>2
    <2>3. CASE id \notin settled
      <3>1. answers'[id] = answers[id]
        BY <1>4, <2>3
      <3> QED
        BY <1>8, <2>1, <3>1
    <2> QED
      BY <2>2, <2>3
  <1>10. ASSUME NEW id \in Requests, Fresh(id)
         PROVE  Fresh(id)'
    <2>1. CASE id \in ShellCalls
      <3>1. Asks(id, "idle")
        BY <1>10, <2>1 DEF Fresh
      <3>2. answers'[id] = answers[id] /\ Asks(id, "idle")'
        BY <1>4, <1>8, <3>1
      <3> QED
        BY <1>10, <3>2 DEF Fresh
    <2>2. CASE id \notin ShellCalls
      <3>1. answers'[id] = answers[id]
        BY <1>4, <2>2 DEF settled
      <3> QED
        BY <1>10, <2>2, <3>1 DEF Fresh
    <2> QED
      BY <2>1, <2>2
  <1>11. slicer' \in [Requests -> [counter : {0, 3, 5}, file : Files]]
    <2>1. \A id : CountAfter(FileOf(id)) \in {0, 3, 5}
      BY DEF CountAfter
    <2>2. \A id : [counter |-> CountAfter(FileOf(id)), file |-> FileOf(id)]
                    \in [counter : {0, 3, 5}, file : Files]
      BY <1>5, <2>1
    <2> QED
      BY <1>1, <1>4, <2>2 DEF ServerTyped
  <1>12. ServerTyped'
    <2>1. answers' \in [Requests -> Seq(Replies)]
      BY <1>4, <1>9
    <2> QED
      BY <1>1, <1>2, <1>3, <1>11, <2>1 DEF ServerTyped
  <1>13. \A c \in Clients : \A f \in Nat : TakenInOrder(c, f) => TakenInOrder(c, f)'
    <2> SUFFICES ASSUME NEW c \in Clients, NEW f \in Nat, TakenInOrder(c, f)
                 PROVE  TakenInOrder(c, f)'
      OBVIOUS
    <2>1. StreamFits(c, f)' /\ f <= sent'[c]
      BY <1>3 DEF TakenInOrder, StreamFits, Stream
    <2>2. ASSUME NEW i \in f + 1 .. Len(Script[c])
          PROVE  Fresh(Script[c][i].id)'
      <3>1. i \in 1 .. Len(Script[c]) /\ Fresh(Script[c][i].id)
        BY DEF TakenInOrder
      <3>2. PICK id \in Requests : id = Script[c][i].id
        BY <3>1, Scripts
      <3> QED
        BY <1>10, <3>1, <3>2
    <2> QED
      BY <2>1, <2>2 DEF TakenInOrder
  <1> QED
    BY <1>9, <1>12, <1>13 DEF ServerInv

-----------------------------------------------------------------------------
(* A chunk from the front of the wire moves a prefix of the stream. *)
LEMMA Chunk ==
    ASSUME NEW a \in Seq(Fragment), NEW b \in Seq(Fragment), NEW n \in 1 .. Len(b)
    PROVE  LET text == a \o SubSeq(b, 1, n)
               rest == SubSeq(b, n + 1, Len(b))
               all == a \o b
           IN  /\ text \in Seq(Fragment) /\ rest \in Seq(Fragment)
               /\ Len(text) \in Nat /\ Len(rest) \in Nat /\ Len(text) >= 1
               /\ Len(all) = Len(text) + Len(rest)
               /\ \A i \in 1 .. Len(text) : text[i] = all[i]
               /\ \A i \in 1 .. Len(rest) : rest[i] = all[Len(text) + i]
               /\ text[Len(text)] = b[n]
  <1> DEFINE front == SubSeq(b, 1, n)
             text == a \o front
             rest == SubSeq(b, n + 1, Len(b))
             all == a \o b
  <1>1. /\ Len(a) \in Nat /\ Len(b) \in Nat /\ Len(all) = Len(a) + Len(b)
        /\ \A i \in 1 .. Len(a) + Len(b) :
              all[i] = IF i <= Len(a) THEN a[i] ELSE b[i - Len(a)]
    BY Concatenated
  <1>2. /\ front \in Seq(Fragment) /\ Len(front) = n
        /\ \A i \in 1 .. n : front[i] = b[i]
    OBVIOUS
  <1>3. /\ rest \in Seq(Fragment) /\ Len(rest) = Len(b) - n
        /\ \A i \in 1 .. Len(b) - n : rest[i] = b[n + i]
    OBVIOUS
  <1> HIDE DEF front, rest, all
  <1>4. /\ text \in Seq(Fragment) /\ Len(text) = Len(a) + n
        /\ \A i \in 1 .. Len(a) + n :
              text[i] = IF i <= Len(a) THEN a[i] ELSE front[i - Len(a)]
    <2>1. /\ text \in Seq(Fragment) /\ Len(text) = Len(a) + Len(front)
          /\ \A i \in 1 .. Len(a) + Len(front) :
                text[i] = IF i <= Len(a) THEN a[i] ELSE front[i - Len(a)]
      BY <1>2, Concatenated
    <2> QED
      BY <1>2, <2>1
  <1> HIDE DEF text
  <1>5. ASSUME NEW i \in 1 .. Len(text)
        PROVE  text[i] = all[i]
    <2>1. i \in 1 .. Len(a) + n /\ i \in 1 .. Len(a) + Len(b)
      BY <1>1, <1>4
    <2>2. CASE i <= Len(a)
      BY <1>1, <1>4, <2>1, <2>2
    <2>3. CASE ~ (i <= Len(a))
      <3>1. i - Len(a) \in 1 .. n
        BY <1>1, <2>1, <2>3
      <3> QED
        BY <1>1, <1>2, <1>4, <2>1, <2>3, <3>1
    <2> QED
      BY <2>2, <2>3
  <1>6. ASSUME NEW i \in 1 .. Len(rest)
        PROVE  rest[i] = all[Len(text) + i]
    <2>1. /\ i \in 1 .. Len(b) - n
          /\ Len(text) + i \in 1 .. Len(a) + Len(b)
          /\ ~ (Len(text) + i <= Len(a))
          /\ (Len(text) + i) - Len(a) = n + i
      BY <1>1, <1>3, <1>4
    <2> QED
      BY <1>1, <1>3, <2>1
  <1>7. text[Len(text)] = b[n]
    <2>1. /\ Len(text) \in 1 .. Len(a) + n /\ ~ (Len(text) <= Len(a))
          /\ Len(text) - Len(a) = n /\ n \in 1 .. n
      BY <1>1, <1>4
    <2> QED
      BY <1>2, <1>4, <2>1
  <1>8. /\ Len(text) \in Nat /\ Len(rest) \in Nat /\ Len(text) >= 1
        /\ Len(all) = Len(text) + Len(rest)
    BY <1>1, <1>3, <1>4
  <1> QED
    BY <1>3, <1>4, <1>5, <1>6, <1>7, <1>8 DEF text, rest, all, front

(* A newline ends the text only where a message ends. *)
LEMMA WholeMessages ==
    ASSUME NEW c \in Clients, NEW f \in Nat, StreamFits(c, f), sent[c] \in Nat, f <= sent[c],
           NEW L \in 1 .. Len(Stream(c)), Stream(c)[L].newline
    PROVE  \E m \in 1 .. sent[c] - f : L = 2 * m
  <1>1. PICK k \in Nat : k = sent[c] - f
    OBVIOUS
  <1>2. Len(Stream(c)) = 2 * k
    BY <1>1 DEF StreamFits
  <1>3. PICK m \in 1 .. k : L = 2 * m \/ L = 2 * m - 1
    <2>1. L \in 1 .. 2 * k
      BY <1>2
    <2>2. (L + 1) \div 2 \in 1 .. k
      BY <2>1
    <2>3. L = 2 * ((L + 1) \div 2) \/ L = 2 * ((L + 1) \div 2) - 1
      BY <2>1
    <2> QED
      BY <2>2, <2>3
  <1>4. CASE L = 2 * m - 1
    <2>1. Stream(c)[L] = [id |-> Script[c][f + m].id, newline |-> FALSE]
      BY <1>1, <1>4 DEF StreamFits
    <2> QED
      BY <2>1
  <1> QED
    BY <1>1, <1>3, <1>4

(* What the handler of a message does, it does for that message. *)
LEMMA HandlersServeTheirMessage ==
    ASSUME ServerTyped, NEW c \in Clients, NEW m \in AllMessages, Fresh(m.id),
           \/ handleFileAnalysisRequest(c, m)
           \/ handleSliceRequest(c, m)
           \/ handleRepl(c, m)
           \/ answerForValidationError(c, m)
           \/ RejectType(c, m)
    PROVE  /\ answers' \in [Requests -> Seq(Replies)]
           /\ slicer' \in [Requests -> [counter : {0, 3, 5}, file : Files]]
           /\ fileMap' \in [Clients -> [Tokens -> Requests \cup {None}]]
           /\ CollTyped'
           /\ \A id \in Requests \ {m.id} :
                 /\ answers'[id] = answers[id]
                 /\ id \in ShellCalls => coll'[id] = coll[id]
           /\ OneFinal(answers'[m.id])
           /\ Asks(m.id, "collecting")' => NoFinal(answers'[m.id])
  <1> DEFINE Served ==
               /\ answers' \in [Requests -> Seq(Replies)]
               /\ slicer' \in [Requests -> [counter : {0, 3, 5}, file : Files]]
               /\ fileMap' \in [Clients -> [Tokens -> Requests \cup {None}]]
               /\ CollTyped'
               /\ \A id \in Requests \ {m.id} :
                     /\ answers'[id] = answers[id]
                     /\ id \in ShellCalls => coll'[id] = coll[id]
               /\ OneFinal(answers'[m.id])
               /\ Asks(m.id, "collecting")' => NoFinal(answers'[m.id])
  <1>1. /\ m.id \in Requests /\ NoFinal(answers[m.id]) /\ ~ Asks(m.id, "collecting")
        /\ answers[m.id] \in Seq(Replies)
    BY DEF Requests, Fresh, Asks, ServerTyped
  <1>2. ASSUME NEW reply \in Replies, Answer(m.id, <<reply>>)
        PROVE  /\ answers' \in [Requests -> Seq(Replies)]
               /\ \A id \in Requests \ {m.id} : answers'[id] = answers[id]
               /\ OneFinal(answers'[m.id])
    <2>1. PICK more \in {<<reply>>, <<>>} : answers' = [answers EXCEPT ![m.id] = @ \o more]
      BY <1>2 DEF Answer, Deliverable
    <2>2. more \in Seq(Replies) /\ OneFinal(more)
      BY WhatIsSent
    <2>3. answers[m.id] \o more \in Seq(Replies) /\ OneFinal(answers[m.id] \o more)
      BY <1>1, <2>2, FirstFinal
    <2> QED
      BY <1>1, <2>1, <2>3 DEF ServerTyped
  <1>3. ASSUME NEW reply \in Replies, Answer(m.id, <<reply>>), UNCHANGED <<fileMap, coll>>,
               slicer' \in [Requests -> [counter : {0, 3, 5}, file : Files]]
        PROVE  Served
    <2>1. CollTyped' /\ ~ Asks(m.id, "collecting")'
      BY <1>1, <1>3 DEF ServerTyped, CollTyped, Asks
    <2> QED
      BY <1>2, <1>3, <2>1 DEF ServerTyped
  <1>4. ASSUME Shell!SendCommandWithOutput(m.id), UNCHANGED <<answers, slicer>>,
               fileMap' \in [Clients -> [Tokens -> Requests \cup {None}]]
        PROVE  Served
    <2> DEFINE call == [state |-> "collecting", on |-> session, result |-> <<>>]
    <2>1. coll' = [coll EXCEPT ![m.id] = call]
      BY <1>4 DEF Shell!SendCommandWithOutput
    <2>2. call = [state |-> call.state, on |-> call.on, result |-> call.result]
      OBVIOUS
    <2> HIDE DEF call
    <2>3. CollTyped' /\ \A id \in ShellCalls \ {m.id} : coll'[id] = coll[id]
      BY <2>1, <2>2 DEF ServerTyped, CollTyped
    <2>4. OneFinal(answers[m.id])
      BY <1>1 DEF NoFinal, OneFinal
    <2> QED
      BY <1>1, <1>4, <2>3, <2>4 DEF ServerTyped
  <1> HIDE DEF Served
  <1>5. CASE handleFileAnalysisRequest(c, m)
    <2>1. fileMap' \in [Clients -> [Tokens -> Requests \cup {None}]]
      BY <1>1, <1>5 DEF handleFileAnalysisRequest, Remember, ServerTyped
    <2> QED
      BY <1>4, <1>5, <2>1 DEF handleFileAnalysisRequest, Served
  <1>6. CASE handleRepl(c, m)
    BY <1>4, <1>6 DEF handleRepl, ServerTyped, Served
  <1>7. CASE answerForValidationError(c, m) \/ RejectType(c, m)
    BY <1>3, <1>7, WhatIsSent DEF answerForValidationError, RejectType, ServerTyped, Served, shellVars
  <1>8. CASE handleSliceRequest(c, m)
    <2>1. /\ m.type = "slice" /\ UNCHANGED <<fileMap, coll>>
      BY <1>8 DEF handleSliceRequest, shellVars
    <2>2. m.token \in Tokens
      BY <2>1, ServerAssumption DEF Tokens
    <2>3. PICK id \in Requests \cup {None} : id = fileMap[c][m.token]
      BY <2>2 DEF ServerTyped
    <2>4. ASSUME NEW k \in {3, 5}, id \in Requests
          PROVE  [slicer EXCEPT ![id].counter = k]
                    \in [Requests -> [counter : {0, 3, 5}, file : Files]]
      BY <2>4 DEF ServerTyped
    <2>5. CASE id = None
      <3>1. CASE UNCHANGED slicer /\ Answer(m.id, <<Error>>)
        BY <1>3, <2>1, <3>1, WhatIsSent DEF ServerTyped, Served
      <3>2. UNCHANGED slicer /\ Answer(m.id, <<Error>>)
        BY <1>8, <2>3, <2>5 DEF handleSliceRequest
      <3> QED
        BY <3>1, <3>2
    <2>6. CASE id # None /\ UNCHANGED <<slicer, answers>>
      <3>1. CollTyped' /\ ~ Asks(m.id, "collecting")'
        BY <1>1, <2>1 DEF ServerTyped, CollTyped, Asks
      <3>2. OneFinal(answers[m.id])
        BY <1>1 DEF NoFinal, OneFinal
      <3> QED
        BY <2>1, <2>6, <3>1, <3>2 DEF ServerTyped, Served
    <2>7. CASE id # None /\ slicer' = [slicer EXCEPT ![id].counter = 3] /\ Answer(m.id, <<Error>>)
      <3>1. slicer' \in [Requests -> [counter : {0, 3, 5}, file : Files]]
        BY <2>4, <2>7
      <3> QED
        BY <1>3, <2>1, <2>7, <3>1, WhatIsSent DEF Served
    <2>8. CASE id # None /\ slicer' = [slicer EXCEPT ![id].counter = 5]
               /\ Answer(m.id, <<SliceAnswer(id, m)>>)
      <3>1. SliceAnswer(id, m) \in Replies
        <4>1. slicer[id].file \in Files
          BY <2>8 DEF ServerTyped
        <4> QED
          BY <4>1 DEF SliceAnswer, Replies, Finals, Files
      <3> QED
        <4>1. slicer' \in [Requests -> [counter : {0, 3, 5}, file : Files]]
          BY <2>4, <2>8
        <4> QED
          BY <1>3, <2>1, <2>8, <3>1, <4>1 DEF Served
    <2> QED
      BY <1>8, <2>3, <2>5, <2>6, <2>7, <2>8 DEF handleSliceRequest
  <1> QED
    BY <1>5, <1>6, <1>7, <1>8 DEF Served

(* What is left of the stream after g messages more were taken. *)
LEMMA LeftInStream ==
    ASSUME NEW c \in Clients, NEW f \in Nat, NEW g \in Nat,
           StreamFits(c, f), sent[c] \in Nat, f + g <= sent[c], UNCHANGED sent,
           Len(Stream(c)') = Len(Stream(c)) - 2 * g,
           \A i \in 1 .. Len(Stream(c)) - 2 * g : Stream(c)'[i] = Stream(c)[2 * g + i]
    PROVE  StreamFits(c, f + g)'
  <1>1. PICK k \in Nat : k = sent[c] - f /\ g <= k
    OBVIOUS
  <1>2. Len(Stream(c)) = 2 * k /\ sent[c] - (f + g) = k - g
    <2>1. Len(Stream(c)) = 2 * (sent[c] - f)
      BY DEF StreamFits
    <2>2. sent[c] - (f + g) = k - g
      BY <1>1
    <2> QED
      BY <1>1, <2>1, <2>2
  <1>3. ASSUME NEW j \in 1 .. k - g
        PROVE  /\ Stream(c)'[2 * j - 1] = [id |-> Script[c][(f + g) + j].id, newline |-> FALSE]
               /\ Stream(c)'[2 * j] = [id |-> Script[c][(f + g) + j].id, newline |-> TRUE]
    <2>1. /\ g + j \in 1 .. sent[c] - f /\ f + (g + j) = (f + g) + j
          /\ 2 * j \in 1 .. Len(Stream(c)) - 2 * g
          /\ 2 * j - 1 \in 1 .. Len(Stream(c)) - 2 * g
          /\ 2 * g + 2 * j = 2 * (g + j)
          /\ 2 * g + (2 * j - 1) = 2 * (g + j) - 1
      <3>1. /\ j \in Nat /\ 1 <= j /\ j <= k - g
            /\ Len(Stream(c)) - 2 * g = 2 * (k - g)
        BY <1>1, <1>2
      <3>2. g + j \in 1 .. k /\ f + (g + j) = (f + g) + j
        BY <1>1, <3>1
      <3>3. 2 * j \in 1 .. 2 * (k - g) /\ 2 * j - 1 \in 1 .. 2 * (k - g)
        BY <1>1, <3>1
      <3>4. 2 * g + 2 * j = 2 * (g + j) /\ 2 * g + (2 * j - 1) = 2 * (g + j) - 1
        BY <3>1
      <3> QED
        BY <1>1, <3>1, <3>2, <3>3, <3>4
    <2>2. /\ Stream(c)'[2 * j] = Stream(c)[2 * (g + j)]
          /\ Stream(c)'[2 * j - 1] = Stream(c)[2 * (g + j) - 1]
      BY <2>1
    <2>3. /\ Stream(c)[2 * (g + j) - 1] = [id |-> Script[c][f + (g + j)].id, newline |-> FALSE]
          /\ Stream(c)[2 * (g + j)] = [id |-> Script[c][f + (g + j)].id, newline |-> TRUE]
      BY <2>1 DEF StreamFits
    <2> QED
      BY <2>1, <2>2, <2>3
  <1>4. Len(Stream(c)') = 2 * (k - g) /\ sent'[c] - (f + g) = k - g
    BY <1>2
  <1> QED
    BY <1>3, <1>4 DEF StreamFits

(* A chunk is kept, or it ends in a newline and is taken: as the one message *)
(* it holds, if it is one.                                                   *)
LEMMA ReceiveKeepsInv ==
    ASSUME ServerInv, NEW c \in Clients, handleData(c)
    PROVE  ServerInv'
  <1>1. /\ ServerTyped
        /\ sent[c] \in Nat /\ sent[c] <= Len(Script[c]) /\ Len(Script[c]) \in Nat
        /\ wire[c] \in Seq(Fragment) /\ buffer[c] \in Seq(Fragment)
    BY ServerAssumption DEF ServerInv, ServerTyped
  <1>2. PICK f \in Nat : TakenInOrder(c, f)
    BY DEF ServerInv
  <1>3. PICK n \in 1 .. Len(wire[c]) :
           LET text == Received(c, SubSeq(wire[c], 1, n))
           IN  /\ wire' = [wire EXCEPT ![c] = SubSeq(@, n + 1, Len(@))]
               /\ \/ /\ ~ wire[c][n].newline
                     /\ buffer' = [buffer EXCEPT ![c] = text]
                     /\ UNCHANGED <<up, socket, fileMap, slicer, answers, anonymous, shellVars>>
                  \/ /\ wire[c][n].newline
                     /\ buffer' = [buffer EXCEPT ![c] = <<>>]
                     /\ IF IsOneMessage(text)
                        THEN LET m == Msg(text[1].id)
                             IN  \/ handleFileAnalysisRequest(c, m)
                                 \/ handleSliceRequest(c, m)
                                 \/ handleRepl(c, m)
                                 \/ answerForValidationError(c, m)
                                 \/ RejectType(c, m)
                        ELSE RejectText(c)
    BY DEF handleData
  <1> DEFINE text == buffer[c] \o SubSeq(wire[c], 1, n)
             rest == SubSeq(wire[c], n + 1, Len(wire[c]))
  <1>4. /\ text \in Seq(Fragment) /\ rest \in Seq(Fragment)
        /\ Len(text) \in Nat /\ Len(rest) \in Nat /\ Len(text) >= 1
        /\ Len(Stream(c)) = Len(text) + Len(rest)
        /\ \A i \in 1 .. Len(text) : text[i] = Stream(c)[i]
        /\ \A i \in 1 .. Len(rest) : rest[i] = Stream(c)[Len(text) + i]
        /\ text[Len(text)] = wire[c][n]
    BY <1>1, Chunk DEF Stream
  <1>5. UNCHANGED sent /\ wire' = [wire EXCEPT ![c] = rest]
    BY <1>3 DEF handleData
  <1>6. Received(c, SubSeq(wire[c], 1, n)) = text
    BY DEF Received
  <1> HIDE DEF text, rest
  <1>7. wire' \in [Clients -> Seq(Fragment)]
    BY <1>1, <1>4, <1>5 DEF ServerTyped
  <1>8. CASE /\ ~ wire[c][n].newline
             /\ buffer' = [buffer EXCEPT ![c] = text]
             /\ UNCHANGED <<up, socket, fileMap, slicer, answers, anonymous, shellVars>>
    <2>1. UNCHANGED <<answers, slicer, fileMap, coll>>
      BY <1>8 DEF shellVars
    <2>2. buffer' \in [Clients -> Seq(Fragment)] /\ Stream(c)' = text \o rest
      BY <1>1, <1>4, <1>5, <1>8 DEF ServerTyped, Stream
    <2>3. /\ Len(Stream(c)') = Len(Stream(c))
          /\ \A i \in 1 .. Len(Stream(c)) : Stream(c)'[i] = Stream(c)[i]
      <3>1. /\ Len(text \o rest) = Len(text) + Len(rest)
            /\ \A i \in 1 .. Len(text) + Len(rest) :
                  (text \o rest)[i] = IF i <= Len(text) THEN text[i] ELSE rest[i - Len(text)]
        BY <1>4, Concatenated
      <3>2. ASSUME NEW i \in 1 .. Len(text) + Len(rest)
            PROVE  (text \o rest)[i] = Stream(c)[i]
        <4>1. CASE i <= Len(text)
          BY <1>4, <3>1, <4>1
        <4>2. CASE ~ (i <= Len(text))
          <5>1. i - Len(text) \in 1 .. Len(rest) /\ Len(text) + (i - Len(text)) = i
            BY <1>4, <4>2
          <5>2. rest[i - Len(text)] = Stream(c)[i]
            BY <1>4, <5>1
          <5> QED
            BY <3>1, <4>2, <5>2
        <4> QED
          BY <4>1, <4>2
      <3> QED
        BY <1>4, <2>2, <3>1, <3>2
    <2>4. StreamFits(c, f)'
      <3>1. /\ StreamFits(c, f) /\ f <= sent[c] /\ f + 0 = f /\ f + 0 <= sent[c]
            /\ Len(Stream(c)) = Len(Stream(c)) - 2 * 0
            /\ \A i \in 1 .. Len(Stream(c)) - 2 * 0 : Stream(c)'[i] = Stream(c)[2 * 0 + i]
        BY <1>1, <1>2, <1>4, <2>3 DEF TakenInOrder
      <3>2. StreamFits(c, f + 0)'
        BY <1>1, <1>5, <2>3, <3>1, LeftInStream
      <3> QED
        BY <3>1, <3>2
    <2>5. \A id : (Fresh(id) => Fresh(id)') /\ (Asks(id, "collecting")' => Asks(id, "collecting"))
      BY <2>1 DEF Fresh, Asks
    <2>6. \A d \in Clients : \E g \in Nat : TakenInOrder(d, g)'
      <3> SUFFICES ASSUME NEW d \in Clients
                   PROVE  \E g \in Nat : TakenInOrder(d, g)'
        OBVIOUS
      <3>1. CASE d = c
        <4>1. TakenInOrder(c, f)'
          BY <1>2, <1>5, <2>4, <2>5 DEF TakenInOrder
        <4> QED
          BY <3>1, <4>1
      <3>2. CASE d # c
        <4>1. PICK g \in Nat : TakenInOrder(d, g)
          BY DEF ServerInv
        <4>2. Stream(d)' = Stream(d)
          BY <1>1, <1>5, <1>8, <3>2 DEF Stream, ServerTyped
        <4>3. TakenInOrder(d, g)'
          BY <1>5, <2>5, <4>1, <4>2 DEF TakenInOrder, StreamFits
        <4> QED
          BY <4>3
      <3> QED
        BY <3>1, <3>2
    <2>7. ServerTyped'
      BY <1>1, <1>5, <1>7, <2>1, <2>2 DEF ServerTyped, CollTyped
    <2>8. \A id \in Requests : /\ OneFinal(answers'[id])
                               /\ Asks(id, "collecting")' => NoFinal(answers'[id])
      BY <2>1, <2>5 DEF ServerInv
    <2> QED
      BY <2>6, <2>7, <2>8 DEF ServerInv
  <1>9. CASE /\ wire[c][n].newline
             /\ buffer' = [buffer EXCEPT ![c] = <<>>]
    <2>1. buffer' \in [Clients -> Seq(Fragment)] /\ Stream(c)' = <<>> \o rest
      BY <1>1, <1>4, <1>5, <1>9 DEF ServerTyped, Stream
    <2>2. Stream(c)' = rest
      BY <1>4, <2>1
    <2>3. PICK g \in 1 .. sent[c] - f : Len(text) = 2 * g
      <3>1. /\ Len(text) \in 1 .. Len(Stream(c)) /\ Len(text) \in 1 .. Len(text)
            /\ Stream(c)[Len(text)].newline
        BY <1>4, <1>9
      <3> QED
        BY <1>1, <1>2, <3>1, WholeMessages DEF TakenInOrder
    <2>4. /\ g \in Nat /\ g >= 1 /\ f + g \in Nat /\ f + g <= sent[c] /\ f <= sent[c]
          /\ f + 1 \in 1 .. Len(Script[c])
      BY <1>1, <1>2, <2>3 DEF TakenInOrder
    <2>5. StreamFits(c, f + g)'
      <3>1. /\ Len(Stream(c)') = Len(Stream(c)) - 2 * g
            /\ Len(Stream(c)) - 2 * g = Len(rest)
            /\ \A i \in 1 .. Len(rest) : Stream(c)'[i] = Stream(c)[2 * g + i]
        <4>1. /\ Len(Stream(c)) = 2 * g + Len(rest)
              /\ \A i \in 1 .. Len(rest) : rest[i] = Stream(c)[2 * g + i]
          BY <1>4, <2>3
        <4>2. Len(Stream(c)) - 2 * g = Len(rest)
          <5>1. PICK r \in Nat : r = Len(rest)
            BY <1>4
          <5>2. (2 * g + r) - 2 * g = r
            BY <2>4, <5>1
          <5> QED
            BY <4>1, <5>1, <5>2
        <4> QED
          BY <2>2, <4>1, <4>2
      <3>2. StreamFits(c, f)
        BY <1>2 DEF TakenInOrder
      <3> QED
        BY <1>1, <1>5, <2>4, <3>1, <3>2, LeftInStream
    <2>6. PICK i \in 1 .. Len(Script[c]) : i = f + 1
      BY <2>4
    <2>7. PICK m \in AllMessages : m = Script[c][i]
      BY Scripts
    <2>8. /\ Msg(text[1].id) = m /\ m.id \in Requests
          /\ \A d \in Clients : \A j \in 1 .. Len(Script[d]) :
                Script[d][j].id = m.id => d = c /\ j = f + 1
      <3>1. text[1].id = m.id
        <4>1. 1 \in 1 .. sent[c] - f /\ 2 * 1 - 1 = 1 /\ 1 \in 1 .. Len(text)
          BY <1>1, <1>4, <2>3, <2>4
        <4>2. Stream(c)[2 * 1 - 1] = [id |-> Script[c][f + 1].id, newline |-> FALSE]
          BY <1>2, <4>1 DEF TakenInOrder, StreamFits
        <4>3. text[1] = [id |-> m.id, newline |-> FALSE]
          BY <1>4, <2>6, <2>7, <4>1, <4>2
        <4> QED
          BY <4>3
      <3> QED
        BY <2>6, <2>7, <3>1, Scripts
    <2>9. Fresh(m.id)
      <3>1. i \in f + 1 .. Len(Script[c])
        BY <1>1, <2>6
      <3> QED
        BY <1>2, <2>7, <3>1 DEF TakenInOrder
    <2>10. \/ UNCHANGED <<answers, slicer, fileMap, coll>>
           \/ handleFileAnalysisRequest(c, m)
           \/ handleSliceRequest(c, m)
           \/ handleRepl(c, m)
           \/ answerForValidationError(c, m)
           \/ RejectType(c, m)
      <3>1. CASE IsOneMessage(text)
        BY <1>3, <1>6, <1>9, <2>8, <3>1
      <3>2. CASE ~ IsOneMessage(text)
        BY <1>3, <1>6, <1>9, <3>2 DEF RejectText, shellVars
      <3> QED
        BY <3>1, <3>2
    <2>11. /\ answers' \in [Requests -> Seq(Replies)]
           /\ slicer' \in [Requests -> [counter : {0, 3, 5}, file : Files]]
           /\ fileMap' \in [Clients -> [Tokens -> Requests \cup {None}]]
           /\ CollTyped'
           /\ \A id \in Requests \ {m.id} :
                 /\ answers'[id] = answers[id]
                 /\ id \in ShellCalls => coll'[id] = coll[id]
           /\ OneFinal(answers'[m.id])
           /\ Asks(m.id, "collecting")' => NoFinal(answers'[m.id])
      <3>1. CASE UNCHANGED <<answers, slicer, fileMap, coll>>
        BY <1>1, <2>8, <3>1 DEF ServerInv, ServerTyped, CollTyped, Asks
      <3> QED
        BY <1>1, <2>9, <2>10, <3>1, HandlersServeTheirMessage
    <2>12. \A id \in Requests \ {m.id} :
              /\ Fresh(id) => Fresh(id)'
              /\ Asks(id, "collecting")' => Asks(id, "collecting")
      BY <2>11 DEF Fresh, Asks
    <2>13. \A d \in Clients : \E h \in Nat : TakenInOrder(d, h)'
      <3> SUFFICES ASSUME NEW d \in Clients
                   PROVE  \E h \in Nat : TakenInOrder(d, h)'
        OBVIOUS
      <3>1. CASE d = c
        <4>1. ASSUME NEW j \in (f + g) + 1 .. Len(Script[c])
              PROVE  Fresh(Script[c][j].id)'
          <5>1. /\ j \in f + 1 .. Len(Script[c]) /\ j \in 1 .. Len(Script[c]) /\ j # f + 1
            BY <1>1, <2>4
          <5>2. PICK id \in Requests : id = Script[c][j].id
            BY <5>1, Scripts
          <5>3. id # m.id /\ Fresh(id)
            BY <1>2, <2>8, <5>1, <5>2 DEF TakenInOrder
          <5>4. Fresh(id)'
            BY <2>12, <5>3
          <5> QED
            BY <5>2, <5>4
        <4>2. PICK h \in Nat : h = f + g
          BY <2>4
        <4>3. TakenInOrder(c, h)'
          BY <1>5, <2>4, <2>5, <4>1, <4>2 DEF TakenInOrder
        <4> QED
          BY <3>1, <4>3
      <3>2. CASE d # c
        <4>1. PICK h \in Nat : TakenInOrder(d, h)
          BY DEF ServerInv
        <4>2. Stream(d)' = Stream(d)
          BY <1>1, <1>5, <1>9, <3>2 DEF Stream, ServerTyped
        <4>3. ASSUME NEW j \in h + 1 .. Len(Script[d])
              PROVE  Fresh(Script[d][j].id)'
          <5>1. j \in 1 .. Len(Script[d])
            BY ServerAssumption
          <5>2. PICK id \in Requests : id = Script[d][j].id
            BY <5>1, Scripts
          <5>3. id # m.id /\ Fresh(id)
            BY <2>8, <3>2, <4>1, <5>1, <5>2 DEF TakenInOrder
          <5>4. Fresh(id)'
            BY <2>12, <5>3
          <5> QED
            BY <5>2, <5>4
        <4>4. StreamFits(d, h)' /\ h <= sent'[d]
          BY <1>5, <4>1, <4>2 DEF TakenInOrder, StreamFits
        <4>5. TakenInOrder(d, h)'
          BY <4>3, <4>4 DEF TakenInOrder
        <4> QED
          BY <4>5
      <3> QED
        BY <3>1, <3>2
    <2>14. ServerTyped'
      BY <1>1, <1>5, <1>7, <2>1, <2>11 DEF ServerTyped
    <2>15. \A id \in Requests : /\ OneFinal(answers'[id])
                                /\ Asks(id, "collecting")' => NoFinal(answers'[id])
      BY <2>11, <2>12 DEF ServerInv
    <2> QED
      BY <2>13, <2>14, <2>15 DEF ServerInv
  <1> QED
    BY <1>3, <1>6, <1>8, <1>9

-----------------------------------------------------------------------------
(* Steps of R and of new clients do not touch what the invariant is about. *)
LEMMA OthersKeepInv ==
    ASSUME ServerInv, ShellWorks \/ (\E c \in Clients : Connect(c)) \/ UNCHANGED vars
    PROVE  ServerInv'
  <1>1. CASE ShellWorks
    <2>1. UNCHANGED coll
      BY <1>1 DEF ShellWorks, Shell!RExecute, Shell!RDies
    <2>2. UNCHANGED <<sent, wire, buffer, answers, slicer, fileMap>>
      BY <1>1 DEF ShellWorks, connVars
    <2> QED
      BY <2>1, <2>2, NothingTaken
  <1>2. CASE \E c \in Clients : Connect(c)
    <2>1. UNCHANGED <<sent, wire, buffer, answers, slicer, fileMap, coll>>
      BY <1>2 DEF Connect, shellVars
    <2> QED
      BY <2>1, NothingTaken
  <1>3. CASE UNCHANGED vars
    <2>1. UNCHANGED <<sent, wire, buffer, answers, slicer, fileMap, coll>>
      BY <1>3 DEF vars, connVars, shellVars
    <2> QED
      BY <2>1, NothingTaken
  <1> QED
    BY <1>1, <1>2, <1>3

(* The invariant holds in every state the server and R can reach. *)
THEOREM ServerInvariant == Spec => []ServerInv
  <1>1. ServerInv /\ [Next]_vars => ServerInv'
    <2> SUFFICES ASSUME ServerInv, [Next]_vars
                 PROVE  ServerInv'
      OBVIOUS
    <2>1. CASE \E c \in Clients : Send(c)
      BY <2>1, SendKeepsInv
    <2>2. CASE \E c \in Clients : handleData(c)
      BY <2>2, ReceiveKeepsInv
    <2>3. CASE ShellAnswers
      BY <2>3, ShellAnswersKeepsInv
    <2>4. CASE ShellWorks \/ (\E c \in Clients : Connect(c)) \/ UNCHANGED vars
      BY <2>4, OthersKeepInv
    <2> QED
      BY <2>1, <2>2, <2>3, <2>4 DEF Next
  <1> QED
    BY <1>1, InitEstablishesInv, PTL DEF Spec

(* No request is answered twice (sendMessage in the handlers of connection.ts), *)
(* for all clients and scripts and although R may end under the calls.          *)
THEOREM RequestsAreAnsweredOnce == Spec => []AnsweredOnce
  <1>1. ServerInv => AnsweredOnce
    <2> SUFFICES ASSUME ServerInv, NEW id \in Requests
                 PROVE  Cardinality({i \in 1 .. Len(answers[id]) :
                                        answers[id][i].kind \in Finals}) <= 1
      BY DEF AnsweredOnce
    <2>1. ASSUME NEW finals, \A i, j \in finals : i = j
          PROVE  Cardinality(finals) <= 1
      <3>1. CASE finals = {}
        BY <3>1, FS_EmptySet
      <3>2. CASE finals # {}
        <4>1. PICK i \in finals : finals = {i}
          BY <2>1, <3>2
        <4>2. Cardinality({i}) = 1
          BY FS_Singleton
        <4> QED
          BY <4>1, <4>2
      <3> QED
        BY <3>1, <3>2
    <2>2. \A i, j \in {k \in 1 .. Len(answers[id]) : answers[id][k].kind \in Finals} : i = j
      BY DEF ServerInv, OneFinal, IsFinal
    <2> QED
      BY <2>1, <2>2
  <1> QED
    BY <1>1, ServerInvariant, PTL

-----------------------------------------------------------------------------
(***************************************************************************)
(* From here on every client waits for the answer to its last message, and *)
(* no two calls overlap at the shell they share: as when only one of the   *)
(* clients asks it. The calls are then made one after the other, and what  *)
(* RShellProofs shows of a program that awaits each call holds of   *)
(* the shell of the server: Serial is that shell with MaxOpen = 1. It      *)
(* collects from stdout only, because nothing is ever written to stderr    *)
(* here (ErrLines = 0).                                                    *)
(***************************************************************************)
Serial == INSTANCE RShellProofs WITH
    Calls <- ShellCalls,
    StderrCalls <- {},
    BothCalls <- {},
    VersionCalls <- {},
    TmpDirCalls <- {},
    OutLines <- 1,
    ErrLines <- 0,
    Revive <- "always",
    MaxOpen <- 1,
    TimeoutsFire <- FALSE,
    MayClose <- FALSE

(* No two calls of the shell overlap. *)
OneCall == \A id, other \in Shell!Open : id = other

(* One client makes all the requests that ask the shell. *)
OneAtATime ==
    /\ Polite
    /\ \A id, other \in ShellCalls : ClientOf(id) = ClientOf(other)

(* How many messages of the client the server has taken. *)
Taken(c) == IF Stream(c) = <<>> THEN sent[c] ELSE sent[c] - 1

Done(m) == m.type = "garbage" \/ Answered(m.id)

(* At most the last message is still on its way; all before it are done. *)
Waits(c) ==
    /\ Len(Stream(c)) \in {0, 2}
    /\ Len(buffer[c]) <= 1
    /\ \A i \in 1 .. sent[c] - 1 : Done(Script[c][i])

(* Among the first n messages of c, its analyses under token t. *)
AnalysesOf(c, t, n) ==
    {i \in 1 .. n : Script[c][i].type = "analysis" /\ Script[c][i].token = t}

(* The file map of the connection holds the last analysis taken of each token. *)
Remembers(c) ==
    \A t \in Tokens :
        \/ fileMap[c][t] = None /\ AnalysesOf(c, t, Taken(c)) = {}
        \/ \E last \in AnalysesOf(c, t, Taken(c)) :
              /\ fileMap[c][t] = Script[c][last].id
              /\ \A i \in AnalysesOf(c, t, Taken(c)) : i <= last

(* The shell is one that a program uses that awaits each call. *)
ShellFits ==
    /\ Serial!ShellInv
    /\ Serial!ChannelInv
    /\ \A s \in Shell!Sessions : proc[s].stderr = <<>>
    /\ \A id \in ShellCalls : coll[id].state # "timedout"
    /\ closing = "open"

Parses(m) == m.file \notin Unparseable /\ m.file # None

(* A slicer that has done its file stage has done it for its own file. *)
SlicersFit ==
    \A id \in Requests :
        /\ Asks(id, "idle") => NoFinal(answers[id])
        /\ slicer[id].counter # 0 => slicer[id].file = Msg(id).file
        /\ Asks(id, "answered") /\ Msg(id).type = "analysis" /\ Parses(Msg(id)) =>
              slicer[id].counter # 0

(* What AnalysesFit and SlicesFit say of one answer. *)
AnswerFits(id, answer) ==
    /\ answer.kind = "analysis" => answer.file = Msg(id).file
    /\ answer.kind = "slice" =>
          /\ answer.criterion = Msg(id).criterion
          /\ \E last \in EarlierAnalyses(id) :
                /\ \A j \in EarlierAnalyses(id) : j <= last
                /\ answer.file = Script[ClientOf(id)][last].file

AllFit(id, messages) == \A i \in 1 .. Len(messages) : AnswerFits(id, messages[i])

SerialInv ==
    /\ ShellFits
    /\ \A c \in Clients : Waits(c) /\ Remembers(c)
    /\ SlicersFit
    /\ \A id \in Requests : AllFit(id, answers[id])

(* The clients ask for nothing that fails: no command for a file that does not *)
(* parse, no slice of an analysis that does not.                               *)
FilesParse ==
    \A m \in AllMessages :
        /\ m.type = "command" => Parses(m)
        /\ m.type = "slice" =>
              \A last \in EarlierAnalyses(m.id) :
                  (\A i \in EarlierAnalyses(m.id) : i <= last) =>
                      Parses(Script[ClientOf(m.id)][last])

(* As long as R lives, it answers. *)
UpInv ==
    Shell!Crashed = {} =>
        /\ up
        /\ \A id \in ShellCalls : coll[id].state # "cutoff"

-----------------------------------------------------------------------------
(* The shell of the server meets the assumptions that RShell makes. *)
LEMMA SerialAssumptions ==
    Serial!ShellAssumption /\ Serial!NoCallIsNone /\ Serial!AllFromStdout /\ Serial!Awaited
  <1>1. MaxCrashes \in Nat /\ None \notin ShellCalls
    BY ServerAssumption DEF ShellCalls
  <1>2. Serial!NoCallIsNone
    BY <1>1 DEF Serial!NoCallIsNone, Serial!None, None
  <1>3. Serial!ShellAssumption
    BY <1>1 DEF Serial!ShellAssumption
  <1> QED
    BY <1>2, <1>3 DEF Serial!AllFromStdout, Serial!Awaited

(* Serial differs from the shell of the server only in who may ask, and when. *)
LEMMA SameShell ==
    /\ Serial!Sessions = Shell!Sessions /\ Serial!Open = Shell!Open
    /\ Serial!Crashed = Shell!Crashed /\ Serial!Spawned = Shell!Spawned
    /\ Serial!None = Shell!None /\ Serial!NewSession = Shell!NewSession
    /\ \A c : /\ Serial!Own(c) = Shell!Own(c) /\ Serial!OwnErr(c) = Shell!OwnErr(c)
              /\ Serial!Postamble(c) = Shell!Postamble(c)
              /\ Serial!Request(c) = Shell!Request(c)
    /\ \A s : Serial!CutOffBy(s) = Shell!CutOffBy(s)
    /\ \A S : /\ Serial!Latest(S) = Shell!Latest(S)
              /\ Serial!Cardinality(S) = Shell!Cardinality(S)
    /\ \A p, lines : Serial!Write(p, lines) = Shell!Write(p, lines)
    /\ \A p : Serial!End(p) = Shell!End(p)
    /\ \A code : Serial!RevivesOn(code) = Shell!RevivesOn(code)
    /\ \A lines : Serial!KeptLines(lines) = Shell!KeptLines(lines)
    /\ \A line : Serial!IsPostamble(line) = Shell!IsPostamble(line)
  <1>1. /\ Serial!Sessions = Shell!Sessions /\ Serial!Open = Shell!Open
        /\ Serial!None = Shell!None
    BY DEF Serial!Sessions, Shell!Sessions, Serial!Open, Shell!Open, Serial!None, Shell!None
  <1>2. Serial!NewSession = Shell!NewSession
    <2>1. Serial!Unborn = Shell!Unborn
      BY <1>1 DEF Serial!Unborn, Shell!Unborn
    <2> QED
      BY <2>1 DEF Serial!NewSession, Shell!NewSession
  <1>3. /\ Serial!Crashed = Shell!Crashed /\ Serial!Spawned = Shell!Spawned
        /\ \A s : Serial!CutOffBy(s) = Shell!CutOffBy(s)
    BY <1>1 DEF Serial!Crashed, Shell!Crashed, Serial!Spawned, Shell!Spawned,
                Serial!CutOffBy, Shell!CutOffBy
  <1>4. \A c : /\ Serial!Own(c) = Shell!Own(c) /\ Serial!OwnErr(c) = Shell!OwnErr(c)
               /\ Serial!Postamble(c) = Shell!Postamble(c)
               /\ Serial!Request(c) = Shell!Request(c)
    BY DEF Serial!Own, Shell!Own, Serial!OwnErr, Shell!OwnErr, Serial!Postamble,
           Shell!Postamble, Serial!Request, Shell!Request
  <1>5. \A S : /\ Serial!Latest(S) = Shell!Latest(S)
               /\ Serial!Cardinality(S) = Shell!Cardinality(S)
    BY DEF Serial!Latest, Shell!Latest, Serial!Cardinality, Shell!Cardinality
  <1>6. /\ \A p, lines : Serial!Write(p, lines) = Shell!Write(p, lines)
        /\ \A p : Serial!End(p) = Shell!End(p)
        /\ \A code : Serial!RevivesOn(code) = Shell!RevivesOn(code)
    BY <1>1 DEF Serial!Write, Shell!Write, Serial!End, Shell!End, Serial!RevivesOn,
                Shell!RevivesOn
  <1>7. /\ \A lines : Serial!KeptLines(lines) = Shell!KeptLines(lines)
        /\ \A line : Serial!IsPostamble(line) = Shell!IsPostamble(line)
    BY DEF Serial!KeptLines, Shell!KeptLines, Serial!IsPostamble, Shell!IsPostamble
  <1> QED
    BY <1>1, <1>2, <1>3, <1>4, <1>5, <1>6, <1>7

(* Steps of R, and what the server hears of its end, are steps of Serial. *)
LEMMA SameSteps ==
    ASSUME NEW s, NEW code
    PROVE  /\ Shell!RExecute(s) => Serial!RExecute(s)
           /\ Shell!RDies(s, code) => Serial!RDies(s, code)
           /\ Shell!ExitEvent(s) => Serial!ExitEvent(s)
           /\ Shell!StdinError(s) => Serial!StdinError(s)
  <1>1. Shell!RExecute(s) => Serial!RExecute(s)
    BY SameShell DEF Shell!RExecute, Serial!RExecute
  <1>2. Shell!RDies(s, code) => Serial!RDies(s, code)
    BY SameShell DEF Shell!RDies, Serial!RDies
  <1>3. ASSUME NEW S
        PROVE  Shell!Continue(S) => Serial!Continue(S)
    BY SameShell DEF Shell!Continue, Serial!Continue
  <1>4. ASSUME NEW any, NEW p
        PROVE  Shell!OnExit(s, any, p) => Serial!OnExit(s, any, p)
    BY <1>3, SameShell DEF Shell!OnExit, Serial!OnExit
  <1>5. /\ Shell!ExitEvent(s) => Serial!ExitEvent(s)
        /\ Shell!StdinError(s) => Serial!StdinError(s)
    BY <1>4 DEF Shell!ExitEvent, Serial!ExitEvent, Shell!StdinError, Serial!StdinError
  <1> QED
    BY <1>1, <1>2, <1>5

(* So is a chunk from stdout; none comes from stderr, which stays empty. *)
LEMMA SameDelivery ==
    ASSUME NEW s, proc[s].stderr = <<>>, NEW stream \in Shell!Streams, Shell!Deliver(s, stream)
    PROVE  stream = "stdout" /\ Serial!Deliver(s, stream)
  <1>1. PICK n \in 1 .. Len(proc[s][stream]) :
           LET lines == SubSeq(proc[s][stream], 1, n)
               hearers == Shell!Hearers(s, stream)
           IN  /\ coll' = [c \in ShellCalls |-> IF c \in hearers
                                                THEN Shell!Collected(coll[c], lines)
                                                ELSE coll[c]]
               /\ proc' = [proc EXCEPT
                             ![s][stream] = SubSeq(@, n + 1, Len(@)),
                             ![s].timer = Shell!TimerAfter(@, hearers, lines)]
               /\ Shell!Continue({c \in hearers : coll'[c].state = "answered"})
    BY DEF Shell!Deliver
  <1>2. stream = "stdout"
    <2>1. CASE stream = "stderr"
      <3>1. n \in 1 .. Len(<<>>)
        BY <2>1
      <3> QED
        BY <3>1
    <2> QED
      BY <2>1 DEF Shell!Streams
  <1>3. Serial!Hearers(s, stream) = Shell!Hearers(s, stream)
    BY <1>2, SameShell DEF Serial!Hearers, Shell!Hearers, Serial!ListensTo, Shell!ListensTo
  <1>4. \A r, lines : Serial!Collected(r, lines) = Shell!Collected(r, lines)
    BY SameShell DEF Serial!Collected, Shell!Collected
  <1>5. \A old, hearers, lines :
            Serial!TimerAfter(old, hearers, lines) = Shell!TimerAfter(old, hearers, lines)
    BY SameShell DEF Serial!TimerAfter, Shell!TimerAfter
  <1>6. ASSUME NEW S
        PROVE  Shell!Continue(S) => Serial!Continue(S)
    BY SameShell DEF Shell!Continue, Serial!Continue
  <1>7. ~ proc[s].ended /\ UNCHANGED <<session, started, strays, closing>>
    BY DEF Shell!Deliver
  <1>8. Serial!Deliver(s, stream)
    BY <1>1, <1>3, <1>4, <1>5, <1>6, <1>7 DEF Serial!Deliver
  <1> QED
    BY <1>2, <1>8

-----------------------------------------------------------------------------
(* What a session shows of its stderr and of its end. *)
KeepsSilent(old, new) ==
    /\ old.stderr = <<>> => new.stderr = <<>>
    /\ old.code \in {"zero", "nonzero"} => new.code = old.code

(* No step of a session writes to stderr or forgets how R ended. *)
LEMMA SessionsKeepSilent ==
    ASSUME Serial!ShellInv, NEW s \in Shell!Sessions, proc[s].stderr = <<>>,
           \/ Shell!RExecute(s)
           \/ \E code \in {"zero", "nonzero", "signal"} : Shell!RDies(s, code)
           \/ \E stream \in Shell!Streams : Shell!Deliver(s, stream)
           \/ Shell!ExitEvent(s)
           \/ Shell!StdinError(s)
           \/ s = session /\ \E id \in ShellCalls : Shell!SendCommandWithOutput(id)
    PROVE  \A t \in Shell!Sessions : KeepsSilent(proc[t], proc'[t])
  <1>1. /\ proc \in [Shell!Sessions -> Serial!SessionRecord]
        /\ Serial!LifeFits(proc[s]) /\ proc[s] \in Serial!SessionRecord
    BY SameShell DEF Serial!ShellInv, Serial!Typed
  <1>2. CASE Shell!RExecute(s)
    <2>1. PICK line, out :
            proc' = [proc EXCEPT
                       ![s].stdin = Tail(@),
                       ![s].stdout = out,
                       ![s].stderr = CASE line.what = "command" -> @ \o Shell!OwnErr(line.call)
                                       [] line.what = "postamble" /\ line.call \in {}
                                            -> Append(@, Shell!Postamble(line.call))
                                       [] OTHER -> @]
      BY <1>2 DEF Shell!RExecute
    <2>2. \A c : Shell!OwnErr(c) = <<>>
      BY DEF Shell!OwnErr
    <2>3. PICK err : /\ proc' = [proc EXCEPT ![s].stdin = Tail(@),
                                             ![s].stdout = out,
                                             ![s].stderr = err]
                     /\ err = <<>>
      <3> DEFINE err == CASE line.what = "command" -> proc[s].stderr \o Shell!OwnErr(line.call)
                          [] line.what = "postamble" /\ line.call \in {}
                               -> Append(proc[s].stderr, Shell!Postamble(line.call))
                          [] OTHER -> proc[s].stderr
      <3>1. err = <<>> \o <<>> \/ err = <<>>
        BY <2>2
      <3>2. <<>> \o <<>> = <<>>
        OBVIOUS
      <3>3. proc' = [proc EXCEPT ![s].stdin = Tail(@), ![s].stdout = out, ![s].stderr = err]
        BY <1>1, <2>1
      <3> HIDE DEF err
      <3> QED
        BY <3>1, <3>2, <3>3
    <2>4. /\ proc'[s].stderr = <<>> /\ proc'[s].code = proc[s].code
          /\ \A t \in Shell!Sessions : t # s => proc'[t] = proc[t]
      BY <1>1, <2>3 DEF Serial!SessionRecord
    <2> QED
      BY <2>4 DEF KeepsSilent
  <1>3. ASSUME NEW code, Shell!RDies(s, code)
        PROVE  \A t \in Shell!Sessions : KeepsSilent(proc[t], proc'[t])
    <2>1. PICK out : proc' = [proc EXCEPT ![s].status = "dead", ![s].code = code,
                                          ![s].stdin = <<>>, ![s].stdout = out]
      BY <1>3 DEF Shell!RDies
    <2>2. /\ proc'[s].stderr = proc[s].stderr
          /\ \A t \in Shell!Sessions : t # s => proc'[t] = proc[t]
      BY <1>1, <2>1 DEF Serial!SessionRecord
    <2>3. proc[s].code = None
      BY <1>1, <1>3 DEF Shell!RDies, Serial!LifeFits, Serial!None, None
    <2> QED
      BY <2>2, <2>3 DEF KeepsSilent, None
  <1>4. ASSUME NEW stream \in Shell!Streams, Shell!Deliver(s, stream)
        PROVE  \A t \in Shell!Sessions : KeepsSilent(proc[t], proc'[t])
    <2>1. PICK out, timer : proc' = [proc EXCEPT ![s][stream] = out, ![s].timer = timer]
      BY <1>4 DEF Shell!Deliver
    <2>2. stream = "stdout"
      BY <1>4, SameDelivery
    <2>3. /\ proc'[s].stderr = proc[s].stderr /\ proc'[s].code = proc[s].code
          /\ \A t \in Shell!Sessions : t # s => proc'[t] = proc[t]
      BY <1>1, <2>1, <2>2 DEF Serial!SessionRecord
    <2> QED
      BY <2>3 DEF KeepsSilent
  <1>5. ASSUME NEW code, NEW p \in Serial!SessionRecord, proc[s].status = "dead",
               ~ proc[s].exited \/ ~ proc[s].erred,
               p.code = proc[s].code, p.stderr = proc[s].stderr, Shell!OnExit(s, code, p)
        PROVE  \A t \in Shell!Sessions : KeepsSilent(proc[t], proc'[t])
    <2> DEFINE next == Shell!Cardinality(Shell!Spawned) + 1
               q == Shell!End(p)
    <2>1. proc' = [proc EXCEPT ![s] = q, ![next] = Shell!NewSession] \/ proc' = [proc EXCEPT ![s] = q]
      BY <1>5 DEF Shell!OnExit
    <2>2. q.code = p.code /\ q.stderr = p.stderr
      BY <1>5 DEF Shell!End, Serial!SessionRecord
    <2>3. Shell!NewSession.stderr = <<>>
      BY DEF Shell!NewSession, Shell!Unborn
    <2>4. next \notin Shell!Spawned /\ next # s
      <3>1. s \in Shell!Spawned
        BY <1>5 DEF Shell!Spawned
      <3>2. /\ Serial!Typed /\ \A t \in Serial!Sessions : Serial!LifeFits(proc[t])
            /\ Serial!Counted /\ s \in Serial!Sessions
        BY SameShell DEF Serial!ShellInv
      <3>3. Serial!Cardinality(Serial!Spawned) + 1 \notin Serial!Spawned
        BY <1>5, <3>2, SerialAssumptions, Serial!RoomForOneMore
      <3> QED
        BY <3>1, <3>3, SameShell
    <2>5. ASSUME NEW t \in Shell!Sessions, t = next
          PROVE  proc[t].code = None
      <3>1. proc[t].status = "unborn" /\ Serial!LifeFits(proc[t])
        BY <2>4, <2>5, SameShell DEF Shell!Spawned, Serial!ShellInv
      <3> QED
        BY <3>1 DEF Serial!LifeFits, Serial!None, None
    <2> HIDE DEF q, next
    <2>6. ASSUME NEW t \in Shell!Sessions
          PROVE  KeepsSilent(proc[t], proc'[t])
      <3>1. CASE t = s
        <4>1. proc'[t] = q
          BY <1>1, <2>1, <2>4, <3>1
        <4> QED
          BY <1>5, <2>2, <3>1, <4>1 DEF KeepsSilent
      <3>2. CASE t = next
        <4>1. proc'[t] \in {proc[t], Shell!NewSession}
          BY <1>1, <2>1, <2>4, <3>2
        <4> QED
          BY <2>3, <2>5, <3>2, <4>1 DEF KeepsSilent, None
      <3>3. CASE t \notin {s, next}
        <4>1. proc'[t] = proc[t]
          BY <1>1, <2>1, <3>3
        <4> QED
          BY <4>1 DEF KeepsSilent
      <3> QED
        BY <3>1, <3>2, <3>3
    <2> QED
      BY <2>6
  <1>6. CASE Shell!ExitEvent(s)
    <2>1. PICK p : p = [proc[s] EXCEPT !.exited = TRUE]
      OBVIOUS
    <2>2. /\ p \in Serial!SessionRecord /\ p.code = proc[s].code /\ p.stderr = proc[s].stderr
      BY <1>1, <2>1 DEF Serial!SessionRecord
    <2>3. proc[s].status = "dead" /\ ~ proc[s].exited /\ Shell!OnExit(s, proc[s].code, p)
      BY <1>6, <2>1 DEF Shell!ExitEvent
    <2> QED
      BY <1>5, <2>2, <2>3
  <1>7. CASE Shell!StdinError(s)
    <2>1. PICK p : p = [proc[s] EXCEPT !.erred = TRUE, !.broken = FALSE]
      OBVIOUS
    <2>2. /\ p \in Serial!SessionRecord /\ p.code = proc[s].code /\ p.stderr = proc[s].stderr
      BY <1>1, <2>1 DEF Serial!SessionRecord
    <2>3. proc[s].status = "dead" /\ ~ proc[s].exited /\ Shell!OnExit(s, "error", p)
      BY <1>1, <1>7, <2>1 DEF Shell!StdinError, Serial!LifeFits
    <2> QED
      BY <1>5, <2>2, <2>3
  <1>8. ASSUME s = session, NEW id \in ShellCalls, Shell!SendCommandWithOutput(id)
        PROVE  \A t \in Shell!Sessions : KeepsSilent(proc[t], proc'[t])
    <2> DEFINE written == Shell!Write(proc[s], Shell!Request(id))
    <2>1. proc' = [proc EXCEPT ![s] = [written EXCEPT !.timer = id]]
      BY <1>8 DEF Shell!SendCommandWithOutput
    <2>2. /\ written.stderr = proc[s].stderr /\ written.code = proc[s].code
          /\ [written EXCEPT !.timer = id].stderr = written.stderr
          /\ [written EXCEPT !.timer = id].code = written.code
      BY <1>1 DEF Shell!Write, Serial!SessionRecord
    <2> HIDE DEF written
    <2>3. /\ proc'[s].stderr = proc[s].stderr /\ proc'[s].code = proc[s].code
          /\ \A t \in Shell!Sessions : t # s => proc'[t] = proc[t]
      BY <1>1, <2>1, <2>2
    <2> QED
      BY <2>3 DEF KeepsSilent
  <1> QED
    BY <1>2, <1>3, <1>4, <1>6, <1>7, <1>8

-----------------------------------------------------------------------------
(* A call gets its own line, or nothing if R ended before it was printed. *)
ResultsFit ==
    \A id \in ShellCalls :
        /\ coll[id].state = "answered" => coll[id].result = Shell!Own(id)
        /\ coll[id].state = "cutoff" => coll[id].result \in {<<>>, Shell!Own(id)}

(* What the invariant of Serial says of the results. *)
LEMMA SerialResultsFit == ShellFits => ResultsFit
  <1> SUFFICES ASSUME ShellFits, NEW id \in ShellCalls
               PROVE  /\ coll[id].state = "answered" => coll[id].result = Shell!Own(id)
                      /\ coll[id].state = "cutoff" => coll[id].result \in {<<>>, Shell!Own(id)}
    BY DEF ResultsFit
  <1>1. started \in Seq(ShellCalls)
    BY DEF ShellFits, Serial!ShellInv, Serial!Typed
  <1>2. id \notin Serial!Behind
    BY <1>1 DEF Serial!Behind, ShellFits
  <1>3. /\ coll[id].state \in {"collecting", "cutoff"} => Serial!PrefixOf(id, coll[id].result)
        /\ coll[id].state = "answered" => coll[id].result = Shell!Own(id)
    BY <1>2, SameShell DEF ShellFits, Serial!ChannelInv, Serial!AnswersFit
  <1>4. ASSUME Serial!PrefixOf(id, coll[id].result)
        PROVE  coll[id].result \in {<<>>, Shell!Own(id)}
    <2>1. PICK n \in 0 .. 1 : coll[id].result = SubSeq(Shell!Own(id), 1, n)
      BY <1>4, SameShell DEF Serial!PrefixOf
    <2>2. Shell!Own(id) \in Seq({[call |-> id, stream |-> "stdout", nr |-> 1]})
          /\ Len(Shell!Own(id)) = 1
      BY DEF Shell!Own
    <2>3. SubSeq(Shell!Own(id), 1, 0) = <<>> /\ SubSeq(Shell!Own(id), 1, 1) = Shell!Own(id)
      BY <2>2
    <2> QED
      BY <2>1, <2>3
  <1> QED
    BY <1>3, <1>4

(* A step of Serial that neither times out nor writes to stderr. *)
LEMMA SerialStepFits ==
    ASSUME ShellFits, [Serial!Next]_shellVars,
           \A s \in Shell!Sessions : KeepsSilent(proc[s], proc'[s]),
           \A id \in ShellCalls : coll'[id].state # "timedout",
           UNCHANGED closing
    PROVE  ShellFits'
  <1>1. Serial!ShellInv'
    <2>1. Serial!ShellInv /\ [Serial!Next]_Serial!vars
      BY DEF ShellFits, Serial!vars, shellVars
    <2> QED
      BY <2>1, SerialAssumptions, Serial!StepKeepsInv
  <1>2. Serial!ChannelInv'
    <2>1. Serial!ShellInv /\ Serial!ChannelInv /\ [Serial!Next]_Serial!vars
      BY DEF ShellFits, Serial!vars, shellVars
    <2> QED
      BY <1>1, <2>1, SerialAssumptions, Serial!StepKeepsChannel
  <1>3. \A s \in Shell!Sessions : proc'[s].stderr = <<>>
    BY DEF ShellFits, KeepsSilent
  <1>4. (Shell!Sessions)' = Shell!Sessions
    BY DEF Shell!Sessions
  <1> QED
    BY <1>1, <1>2, <1>3, <1>4 DEF ShellFits

(* Nothing is asked of the shell. *)
LEMMA ShellRestsFit ==
    ASSUME ShellFits, UNCHANGED shellVars
    PROVE  ShellFits'
  <1>1. UNCHANGED <<proc, coll, closing>>
    BY DEF shellVars
  <1> QED
    BY <1>1, SerialStepFits DEF ShellFits, KeepsSilent

(* R executes a command, or ends. *)
LEMMA ShellWorksFits ==
    ASSUME ShellFits, ShellWorks
    PROVE  ShellFits' /\ \A s \in Shell!Sessions : KeepsSilent(proc[s], proc'[s])
  <1>1. PICK s \in Shell!Sessions :
          \/ Shell!RExecute(s)
          \/ \E code \in {"zero", "nonzero", "signal"} : Shell!RDies(s, code)
    BY DEF ShellWorks
  <1>2. UNCHANGED <<coll, closing>>
    BY <1>1 DEF Shell!RExecute, Shell!RDies
  <1>3. \A t \in Shell!Sessions : KeepsSilent(proc[t], proc'[t])
    BY <1>1, SessionsKeepSilent DEF ShellFits
  <1>4. Serial!Next
    BY <1>1, SameSteps, SameShell DEF Serial!Next
  <1> QED
    BY <1>2, <1>3, <1>4, SerialStepFits DEF ShellFits

(* The server hears of R. *)
LEMMA ShellAnswersFit ==
    ASSUME ShellFits, CollTyped, ShellAnswers
    PROVE  ShellFits' /\ \A s \in Shell!Sessions : KeepsSilent(proc[s], proc'[s])
  <1>1. PICK s \in Shell!Sessions :
          \/ \E stream \in Shell!Streams : Shell!Deliver(s, stream)
          \/ Shell!ExitEvent(s)
          \/ Shell!StdinError(s)
    BY DEF ShellAnswers
  <1>2. UNCHANGED closing
    BY <1>1 DEF Shell!Deliver, Shell!ExitEvent, Shell!StdinError, Shell!OnExit
  <1>3. \A t \in Shell!Sessions : KeepsSilent(proc[t], proc'[t])
    BY <1>1, SessionsKeepSilent DEF ShellFits
  <1>4. \A id \in ShellCalls : coll'[id].state # "timedout"
    BY <1>1, CallsOnlySettle DEF ShellFits
  <1>5. Serial!Next
    <2>1. CASE \E stream \in Shell!Streams : Shell!Deliver(s, stream)
      <3>1. PICK stream \in Serial!Streams : Serial!Deliver(s, stream)
        BY <2>1, SameDelivery DEF ShellFits, Serial!Streams
      <3> QED
        BY <3>1, SameShell DEF Serial!Next
    <2>2. CASE Shell!ExitEvent(s) \/ Shell!StdinError(s)
      BY <2>2, SameSteps, SameShell DEF Serial!Next
    <2> QED
      BY <1>1, <2>1, <2>2
  <1> QED
    BY <1>2, <1>3, <1>4, <1>5, SerialStepFits

(* A request asks the shell while no other call is open. *)
LEMMA AskingFits ==
    ASSUME ShellFits, CollTyped, NEW id \in ShellCalls, Shell!Open = {},
           Shell!SendCommandWithOutput(id)
    PROVE  /\ ShellFits'
           /\ \A s \in Shell!Sessions : KeepsSilent(proc[s], proc'[s])
  <1>1. session \in Shell!Sessions
    BY SameShell DEF ShellFits, Serial!ShellInv, Serial!Typed, Serial!Spawned
  <1>2. \A t \in Shell!Sessions : KeepsSilent(proc[t], proc'[t])
    BY <1>1, SessionsKeepSilent DEF ShellFits
  <1>3. Serial!SendCommandWithOutput(id)
    <2>1. Serial!Open = {} /\ Serial!Cardinality({}) = 0
      <3>1. Cardinality({}) = 0
        BY FS_EmptySet
      <3>2. Serial!Cardinality({}) = Cardinality({})
        BY DEF Serial!Cardinality, Cardinality
      <3> QED
        BY <3>1, <3>2, SameShell
    <2>2. Serial!Cardinality(Serial!Open) < 1
      BY <2>1
    <2> QED
      BY <2>2, SameShell DEF Shell!SendCommandWithOutput, Serial!SendCommandWithOutput
  <1>4. UNCHANGED closing /\ Serial!Next
    BY <1>3 DEF Serial!Next, Shell!SendCommandWithOutput
  <1>5. \A other \in ShellCalls : coll'[other].state # "timedout"
    <2>1. coll' = [coll EXCEPT ![id] = [state |-> "collecting", on |-> session, result |-> <<>>]]
      BY DEF Shell!SendCommandWithOutput
    <2> QED
      BY <2>1 DEF CollTyped, ShellFits
  <1> QED
    BY <1>2, <1>4, <1>5, SerialStepFits

-----------------------------------------------------------------------------
(* Where the request stands in the script of its client. *)
Place(id) == CHOOSE i \in 1 .. Len(Script[ClientOf(id)]) : Script[ClientOf(id)][i].id = id

(* Every request stands in one place of one script. *)
LEMMA WhoAsked ==
    ASSUME NEW id \in Requests
    PROVE  \E c \in Clients : \E i \in 1 .. Len(Script[c]) :
              /\ Script[c][i].id = id /\ Msg(id) = Script[c][i] /\ ClientOf(id) = c
              /\ Place(id) = i
  <1>1. PICK m \in AllMessages : m.id = id
    BY DEF Requests
  <1>2. PICK c \in Clients : \E i \in 1 .. Len(Script[c]) : Script[c][i] = m
    BY DEF AllMessages
  <1>3. PICK i \in 1 .. Len(Script[c]) : Script[c][i] = m
    BY <1>2
  <1>4. /\ Script[c][i].id = id /\ Msg(id) = Script[c][i]
        /\ \A d \in Clients : \A j \in 1 .. Len(Script[d]) :
              Script[d][j].id = id => d = c /\ j = i
    BY <1>1, <1>3, Scripts
  <1>5. ClientOf(id) = c
    <2>1. \E j \in 1 .. Len(Script[c]) : Script[c][j].id = id
      BY <1>4
    <2>2. /\ ClientOf(id) \in Clients
          /\ \E j \in 1 .. Len(Script[ClientOf(id)]) : Script[ClientOf(id)][j].id = id
      BY <2>1 DEF ClientOf
    <2> QED
      BY <1>4, <2>2
  <1>6. Place(id) = i
    BY <1>4, <1>5 DEF Place
  <1> QED
    BY <1>4, <1>5, <1>6

(* What asks the shell is an analysis, an expression or a command. *)
LEMMA WhatAsks ==
    ASSUME NEW id \in Requests
    PROVE  id \in ShellCalls <=> Msg(id).type \in {"analysis", "expression", "command"}
  <1>1. PICK c \in Clients : \E i \in 1 .. Len(Script[c]) : Script[c][i].id = id /\ Msg(id) = Script[c][i]
    BY WhoAsked
  <1>2. PICK i \in 1 .. Len(Script[c]) : Script[c][i].id = id /\ Msg(id) = Script[c][i]
    BY <1>1
  <1>3. Msg(id) \in AllMessages /\ Msg(id).id = id
    BY <1>2, Scripts
  <1>4. ASSUME id \in ShellCalls
        PROVE  Msg(id).type \in {"analysis", "expression", "command"}
    <2>1. PICK m \in AllMessages : m.id = id /\ m.type \in {"analysis", "expression", "command"}
      BY <1>4 DEF ShellCalls
    <2>2. m = Msg(id)
      <3>1. PICK d \in Clients : \E j \in 1 .. Len(Script[d]) : Script[d][j] = m
        BY DEF AllMessages
      <3>2. PICK j \in 1 .. Len(Script[d]) : Script[d][j] = m
        BY <3>1
      <3> QED
        BY <2>1, <3>2, Scripts
    <2> QED
      BY <2>1, <2>2
  <1> QED
    BY <1>3, <1>4 DEF ShellCalls

(* The messages taken are all but at most the last one sent. *)
LEMMA TakenFits ==
    ASSUME ServerInv, NEW c \in Clients, Waits(c)
    PROVE  /\ TakenInOrder(c, Taken(c)) /\ Taken(c) \in Nat
           /\ sent[c] \in Nat /\ sent[c] <= Len(Script[c]) /\ Len(Script[c]) \in Nat
           /\ Stream(c) \in Seq(Fragment)
           /\ Stream(c) # <<>> => Len(Stream(c)) = 2 /\ sent[c] \in 1 .. Len(Script[c])
  <1>1. /\ sent[c] \in Nat /\ sent[c] <= Len(Script[c]) /\ Len(Script[c]) \in Nat
        /\ wire[c] \in Seq(Fragment) /\ buffer[c] \in Seq(Fragment)
    BY ServerAssumption DEF ServerInv, ServerTyped
  <1>2. Stream(c) \in Seq(Fragment)
    BY <1>1, Concatenated DEF Stream
  <1>3. PICK f \in Nat : TakenInOrder(c, f)
    BY DEF ServerInv
  <1>4. Len(Stream(c)) = 2 * (sent[c] - f) /\ f <= sent[c]
    BY <1>3 DEF TakenInOrder, StreamFits
  <1>5. CASE Len(Stream(c)) = 0
    <2>1. Stream(c) = <<>> /\ f = sent[c]
      BY <1>1, <1>2, <1>4, <1>5
    <2> QED
      BY <1>1, <1>2, <1>3, <2>1 DEF Taken
  <1>6. CASE Len(Stream(c)) = 2
    <2>1. Stream(c) # <<>>
      BY <1>6
    <2>2. 2 * (sent[c] - f) = 2
      BY <1>4, <1>6
    <2>3. f = sent[c] - 1 /\ sent[c] \in 1 .. Len(Script[c])
      BY <1>1, <1>3, <1>4, <2>2
    <2> QED
      BY <1>1, <1>2, <1>3, <1>6, <2>1, <2>3 DEF Taken
  <1> QED
    BY <1>5, <1>6 DEF Waits

(* While a request for the shell is on its way, no other has asked it. *)
LEMMA NobodyElseAsks ==
    ASSUME OneAtATime, ServerInv, NEW c \in Clients, Waits(c), Stream(c) # <<>>,
           Script[c][sent[c]].id \in ShellCalls
    PROVE  Shell!Open = {}
  <1> SUFFICES ASSUME NEW id \in Shell!Open
               PROVE  FALSE
    OBVIOUS
  <1>1. id \in ShellCalls /\ id \in Requests /\ Asks(id, "collecting")
    BY DEF Shell!Open, ShellCalls, Requests, Asks
  <1>2. /\ sent[c] \in 1 .. Len(Script[c]) /\ Len(Script[c]) \in Nat
        /\ TakenInOrder(c, sent[c] - 1)
    BY TakenFits DEF Taken
  <1>3. Script[c][sent[c]].id \in Requests
    BY <1>2, Scripts
  <1>4. ClientOf(Script[c][sent[c]].id) = c
    <2>1. PICK d \in Clients : /\ ClientOf(Script[c][sent[c]].id) = d
                               /\ \E i \in 1 .. Len(Script[d]) : Script[d][i].id = Script[c][sent[c]].id
      BY <1>3, WhoAsked
    <2> QED
      BY <1>2, <2>1, Scripts
  <1>5. PICK i \in 1 .. Len(Script[c]) : Script[c][i].id = id /\ Msg(id) = Script[c][i]
    BY <1>1, <1>4, WhoAsked DEF OneAtATime
  <1>6. ~ Fresh(id) /\ NoFinal(answers[id])
    BY <1>1 DEF Fresh, Asks, ServerInv
  <1>7. i \in 1 .. sent[c] - 1
    <2>1. ASSUME i \in (sent[c] - 1) + 1 .. Len(Script[c])
          PROVE  FALSE
      BY <1>2, <1>5, <1>6, <2>1 DEF TakenInOrder
    <2> QED
      BY <1>2, <2>1
  <1>8. Done(Script[c][i])
    BY <1>7 DEF Waits
  <1>9. Msg(id).type # "garbage"
    BY <1>1, WhatAsks
  <1>10. Answered(id)
    BY <1>5, <1>8, <1>9 DEF Done
  <1> QED
    BY <1>6, <1>10 DEF Answered, NoFinal, IsFinal

(* A client that neither sends nor is served. *)
LEMMA ClientRests ==
    ASSUME NEW c \in Clients, Waits(c), Remembers(c), sent[c] \in Nat,
           sent'[c] = sent[c], wire'[c] = wire[c], buffer'[c] = buffer[c],
           fileMap'[c] = fileMap[c],
           \A i \in 1 .. sent[c] - 1 : Done(Script[c][i]) => Done(Script[c][i])'
    PROVE  Waits(c)' /\ Remembers(c)'
  <1>1. Stream(c)' = Stream(c)
    BY DEF Stream
  <1>2. Taken(c)' = Taken(c)
    BY <1>1 DEF Taken
  <1> QED
    BY <1>1, <1>2 DEF Waits, Remembers, AnalysesOf

(* A client that is done with its last message sends the next. *)
LEMMA SendFits ==
    ASSUME Polite, ServerInv, NEW c \in Clients, Waits(c), Remembers(c), Send(c)
    PROVE  Waits(c)' /\ Remembers(c)'
  <1> DEFINE id == Script[c][sent[c] + 1].id
             two == << [id |-> id, newline |-> FALSE], [id |-> id, newline |-> TRUE] >>
  <1>1. /\ sent[c] \in Nat /\ sent[c] < Len(Script[c]) /\ Len(Script[c]) \in Nat
        /\ wire[c] \in Seq(Fragment) /\ buffer[c] \in Seq(Fragment)
        /\ Stream(c) \in Seq(Fragment)
        /\ TakenInOrder(c, Taken(c))
        /\ wire \in [Clients -> Seq(Fragment)] /\ sent \in [Clients -> Nat]
    BY TakenFits DEF Send, ServerInv, ServerTyped
  <1>2. /\ sent'[c] = sent[c] + 1
        /\ wire'[c] = wire[c] \o two
        /\ UNCHANGED <<buffer, fileMap, answers>>
    BY <1>1 DEF Send
  <1>3. sent[c] > 0 => Done(Script[c][sent[c]]) /\ (~ Answered(Script[c][sent[c]].id) => wire[c] = <<>>)
    BY DEF Send, Done
  <1>4. Stream(c) = <<>>
    <2> SUFFICES ASSUME Stream(c) # <<>>
                 PROVE  FALSE
      OBVIOUS
    <2>1. /\ Len(Stream(c)) = 2 /\ sent[c] \in 1 .. Len(Script[c]) /\ Taken(c) = sent[c] - 1
      BY TakenFits DEF Taken
    <2>2. Fresh(Script[c][sent[c]].id)
      <3>1. \A i \in (sent[c] - 1) + 1 .. Len(Script[c]) : Fresh(Script[c][i].id)
        BY <1>1, <2>1 DEF TakenInOrder
      <3>2. sent[c] \in (sent[c] - 1) + 1 .. Len(Script[c])
        BY <1>1
      <3> QED
        BY <3>1, <3>2
    <2>3. ~ Answered(Script[c][sent[c]].id)
      BY <2>2 DEF Fresh, NoFinal, IsFinal, Answered
    <2>4. wire[c] = <<>>
      BY <1>3, <2>1, <2>3
    <2>5. Len(Stream(c)) = Len(buffer[c])
      <3>1. Len(Stream(c)) = Len(buffer[c]) + Len(wire[c]) /\ Len(wire[c]) = 0
        BY <1>1, <2>4, Concatenated DEF Stream
      <3> QED
        BY <1>1, <3>1
    <2>6. Len(buffer[c]) <= 1 /\ Len(buffer[c]) \in Nat
      BY <1>1 DEF Waits
    <2>7. Len(buffer[c]) = 2
      BY <2>1, <2>5
    <2> QED
      BY <2>6, <2>7
  <1>5. buffer[c] = <<>> /\ wire[c] = <<>>
    <2>1. Len(buffer[c]) + Len(wire[c]) = 0
      BY <1>1, <1>4, Concatenated DEF Stream
    <2> QED
      BY <1>1, <2>1
  <1>6. Stream(c)' = two /\ Len(two) = 2 /\ buffer'[c] = <<>>
    BY <1>2, <1>5 DEF Stream
  <1>7. Taken(c)' = Taken(c)
    BY <1>1, <1>2, <1>4, <1>6 DEF Taken
  <1>8. Waits(c)'
    <2>1. ASSUME NEW i \in 1 .. sent'[c] - 1
          PROVE  Done(Script[c][i])'
      <3>1. Done(Script[c][i])
        <4>1. CASE i = sent[c]
          <5>1. sent[c] > 0
            BY <2>1, <4>1
          <5> QED
            BY <1>3, <4>1, <5>1
        <4>2. CASE i # sent[c]
          <5>1. i \in 1 .. sent[c] - 1
            BY <1>1, <1>2, <2>1, <4>2
          <5> QED
            BY <5>1 DEF Waits
        <4> QED
          BY <4>1, <4>2
      <3> QED
        BY <1>2, <3>1 DEF Done, Answered
    <2> QED
      BY <1>6, <2>1 DEF Waits
  <1>9. Remembers(c)'
    BY <1>2, <1>7 DEF Remembers, AnalysesOf
  <1> QED
    BY <1>8, <1>9

-----------------------------------------------------------------------------
(* What is done for one message taken: garbage gets an error without id. *)
Served(c, m) ==
    \/ m.type = "garbage" /\ RejectText(c)
    \/ handleFileAnalysisRequest(c, m)
    \/ handleSliceRequest(c, m)
    \/ handleRepl(c, m)
    \/ answerForValidationError(c, m)
    \/ RejectType(c, m)

(* A client that waits is served message by message: a chunk is the first    *)
(* fragment of its last message, or ends it.                                 *)
LEMMA OneMessageAtATime ==
    ASSUME ServerInv, NEW c \in Clients, Waits(c), handleData(c)
    PROVE  /\ UNCHANGED sent /\ Stream(c) # <<>>
           /\ \A d \in Clients : d # c => wire'[d] = wire[d] /\ buffer'[d] = buffer[d]
           /\ Len(buffer'[c]) <= 1
           /\ \/ /\ Len(Stream(c)') = 2
                 /\ UNCHANGED <<up, socket, fileMap, slicer, answers, anonymous, shellVars>>
              \/ /\ Stream(c)' = <<>>
                 /\ Served(c, Script[c][sent[c]])
  <1>1. /\ wire \in [Clients -> Seq(Fragment)] /\ buffer \in [Clients -> Seq(Fragment)]
        /\ wire[c] \in Seq(Fragment) /\ buffer[c] \in Seq(Fragment)
        /\ TakenInOrder(c, Taken(c))
    BY TakenFits DEF ServerInv, ServerTyped
  <1>2. PICK n \in 1 .. Len(wire[c]) :
           LET text == Received(c, SubSeq(wire[c], 1, n))
           IN  /\ wire' = [wire EXCEPT ![c] = SubSeq(@, n + 1, Len(@))]
               /\ \/ /\ ~ wire[c][n].newline
                     /\ buffer' = [buffer EXCEPT ![c] = text]
                     /\ UNCHANGED <<up, socket, fileMap, slicer, answers, anonymous, shellVars>>
                  \/ /\ wire[c][n].newline
                     /\ buffer' = [buffer EXCEPT ![c] = <<>>]
                     /\ IF IsOneMessage(text)
                        THEN LET m == Msg(text[1].id)
                             IN  \/ handleFileAnalysisRequest(c, m)
                                 \/ handleSliceRequest(c, m)
                                 \/ handleRepl(c, m)
                                 \/ answerForValidationError(c, m)
                                 \/ RejectType(c, m)
                        ELSE RejectText(c)
    BY DEF handleData
  <1> DEFINE text == buffer[c] \o SubSeq(wire[c], 1, n)
             rest == SubSeq(wire[c], n + 1, Len(wire[c]))
  <1>3. /\ text \in Seq(Fragment) /\ rest \in Seq(Fragment)
        /\ Len(text) \in Nat /\ Len(rest) \in Nat /\ Len(text) >= 1
        /\ Len(Stream(c)) = Len(text) + Len(rest)
        /\ \A i \in 1 .. Len(text) : text[i] = Stream(c)[i]
        /\ text[Len(text)] = wire[c][n]
    BY <1>1, Chunk DEF Stream
  <1>4. UNCHANGED sent /\ wire' = [wire EXCEPT ![c] = rest]
    BY <1>2 DEF handleData
  <1>5. Received(c, SubSeq(wire[c], 1, n)) = text
    BY DEF Received
  <1> HIDE DEF text, rest
  <1>6. Len(Stream(c)) = 2
    <2>1. Len(Stream(c)) \in {0, 2}
      BY DEF Waits
    <2> QED
      BY <1>3, <2>1
  <1>7. Stream(c) # <<>>
    <2>1. ASSUME NEW none, none = <<>>, Len(none) = 2
          PROVE  FALSE
      BY <2>1
    <2> QED
      BY <1>6, <2>1
  <1>8. \/ Len(text) = 1
        \/ Len(text) = 2 /\ Len(rest) = 0
    <2>1. PICK a \in Nat, b \in Nat : a = Len(text) /\ b = Len(rest) /\ a >= 1
      BY <1>3
    <2>2. a + b = 2
      BY <1>3, <1>6, <2>1
    <2>3. \/ a = 1
          \/ a = 2 /\ b = 0
      BY <2>1, <2>2
    <2> QED
      BY <2>1, <2>3
  <1>9. sent[c] \in 1 .. Len(Script[c]) /\ sent[c] \in Nat /\ Taken(c) = sent[c] - 1
    BY <1>7, TakenFits DEF Taken
  <1>10. /\ Stream(c)[1] = [id |-> Script[c][sent[c]].id, newline |-> FALSE]
         /\ Stream(c)[2] = [id |-> Script[c][sent[c]].id, newline |-> TRUE]
    <2>1. /\ 1 \in 1 .. sent[c] - (sent[c] - 1) /\ 2 * 1 - 1 = 1 /\ 2 * 1 = 2
          /\ (sent[c] - 1) + 1 = sent[c]
      BY <1>9
    <2>2. StreamFits(c, sent[c] - 1)
      BY <1>1, <1>9 DEF TakenInOrder
    <2>3. /\ Stream(c)[2 * 1 - 1] = [id |-> Script[c][(sent[c] - 1) + 1].id, newline |-> FALSE]
          /\ Stream(c)[2 * 1] = [id |-> Script[c][(sent[c] - 1) + 1].id, newline |-> TRUE]
      BY <2>1, <2>2 DEF StreamFits
    <2> QED
      BY <2>1, <2>3
  <1>11. CASE /\ ~ wire[c][n].newline
              /\ buffer' = [buffer EXCEPT ![c] = text]
              /\ UNCHANGED <<up, socket, fileMap, slicer, answers, anonymous, shellVars>>
    <2>1. Len(text) = 1
      <3>1. ASSUME Len(text) = 2
            PROVE  FALSE
        <4>1. Stream(c)[2] = wire[c][n]
          BY <1>3, <3>1
        <4> QED
          BY <1>10, <1>11, <4>1
      <3> QED
        BY <1>8, <3>1
    <2>2. /\ Stream(c)' = text \o rest /\ buffer'[c] = text
          /\ \A d \in Clients : d # c => wire'[d] = wire[d] /\ buffer'[d] = buffer[d]
      BY <1>1, <1>4, <1>11 DEF Stream
    <2>3. Len(text \o rest) = Len(text) + Len(rest)
      BY <1>3, Concatenated
    <2> QED
      BY <1>3, <1>4, <1>6, <1>7, <1>11, <2>1, <2>2, <2>3
  <1>12. CASE /\ wire[c][n].newline
              /\ buffer' = [buffer EXCEPT ![c] = <<>>]
    <2>1. Len(text) = 2 /\ text[1].id = Script[c][sent[c]].id
      <3>1. ASSUME Len(text) = 1
            PROVE  FALSE
        <4>1. Stream(c)[1] = wire[c][n]
          BY <1>3, <3>1
        <4> QED
          BY <1>10, <1>12, <4>1
      <3>2. text[1] = Stream(c)[1]
        BY <1>3
      <3> QED
        BY <1>8, <1>10, <3>1, <3>2
    <2>2. rest = <<>>
      <3>1. Len(rest) = 0
        BY <1>8, <2>1
      <3> QED
        BY <1>3, <3>1
    <2>3. /\ Stream(c)' = <<>> \o <<>> /\ buffer'[c] = <<>>
          /\ \A d \in Clients : d # c => wire'[d] = wire[d] /\ buffer'[d] = buffer[d]
      BY <1>1, <1>4, <1>12, <2>2 DEF Stream
    <2>4. Msg(text[1].id) = Script[c][sent[c]]
      BY <1>9, <2>1, Scripts
    <2>5. Served(c, Script[c][sent[c]])
      <3>1. CASE IsOneMessage(text)
        BY <1>2, <1>5, <1>12, <2>4, <3>1 DEF Served
      <3>2. CASE ~ IsOneMessage(text)
        <4>1. Script[c][sent[c]].type = "garbage"
          BY <2>1, <2>4, <3>2 DEF IsOneMessage
        <4>2. RejectText(c)
          BY <1>2, <1>5, <1>12, <3>2
        <4> QED
          BY <4>1, <4>2 DEF Served
      <3> QED
        BY <3>1, <3>2
    <2>6. <<>> \o <<>> = <<>> /\ Len(<<>>) = 0
      OBVIOUS
    <2> QED
      BY <1>4, <1>7, <2>3, <2>5, <2>6
  <1> QED
    BY <1>2, <1>5, <1>11, <1>12

-----------------------------------------------------------------------------
(* A message taken asks the shell, is rejected, or asks for a slice. *)
AsksShell(c, m) ==
    /\ m.type \in {"analysis", "expression", "command"}
    /\ Shell!SendCommandWithOutput(m.id)
    /\ fileMap' = IF m.type = "analysis" THEN Remember(c, m) ELSE fileMap
    /\ UNCHANGED <<up, slicer, answers>>

IsRejected(m) ==
    /\ m.type \in {"garbage", "invalid", "unsupported"}
    /\ UNCHANGED answers \/ Answer(m.id, <<Error>>)
    /\ UNCHANGED <<up, fileMap, slicer, shellVars>>

(* The handlers, by what they change. *)
LEMMA WaysToServe ==
    ASSUME NEW c, NEW m, Served(c, m)
    PROVE  AsksShell(c, m) \/ IsRejected(m) \/ handleSliceRequest(c, m)
  BY DEF Served, RejectText, handleFileAnalysisRequest, handleRepl, answerForValidationError,
         RejectType, AsksShell, IsRejected

(* More answers that fit. *)
LEMMA MoreAnswersFit ==
    ASSUME NEW id, NEW old \in Seq(Replies), AllFit(id, old),
           NEW more \in Seq(Replies), AllFit(id, more)
    PROVE  AllFit(id, old \o more)
  <1>1. /\ Len(old) \in Nat /\ Len(more) \in Nat
        /\ Len(old \o more) = Len(old) + Len(more)
        /\ \A i \in 1 .. Len(old) + Len(more) :
              (old \o more)[i] = IF i <= Len(old) THEN old[i] ELSE more[i - Len(old)]
    OBVIOUS
  <1>2. ASSUME NEW i \in 1 .. Len(old \o more)
        PROVE  AnswerFits(id, (old \o more)[i])
    <2>1. CASE i <= Len(old)
      <3>1. i \in 1 .. Len(old) /\ (old \o more)[i] = old[i]
        BY <1>1, <2>1
      <3> QED
        BY <3>1 DEF AllFit
    <2>2. CASE ~ (i <= Len(old))
      <3>1. i - Len(old) \in 1 .. Len(more) /\ (old \o more)[i] = more[i - Len(old)]
        BY <1>1, <2>2
      <3> QED
        BY <3>1 DEF AllFit
    <2> QED
      BY <2>1, <2>2
  <1> QED
    BY <1>2 DEF AllFit

(* Errors and outputs fit every request. *)
LEMMA OthersFit ==
    \A id : AllFit(id, <<>>) /\ AllFit(id, <<Error>>) /\ AllFit(id, ReplAnswer)
  <1> TAKE id
  <1>1. AllFit(id, <<>>) /\ AllFit(id, <<Error>>)
    BY DEF AllFit, AnswerFits, Error
  <1>2. AllFit(id, ReplAnswer)
    <2>1. /\ Len(ReplAnswer) = 2
          /\ ReplAnswer[1].kind = "output" /\ ReplAnswer[2].kind = "end"
      BY DEF ReplAnswer
    <2>2. \A i \in 1 .. Len(ReplAnswer) : ReplAnswer[i].kind \in {"output", "end"}
      BY <2>1
    <2> QED
      BY <2>2 DEF AllFit, AnswerFits
  <1> QED
    BY <1>1, <1>2

(* An answer to one request leaves the others fitting. *)
LEMMA AnsweringFits ==
    ASSUME ServerTyped, SerialInv, NEW id \in Requests,
           NEW messages \in Seq(Replies), AllFit(id, messages), Answer(id, messages)
    PROVE  \A other \in Requests : AllFit(other, answers'[other])
  <1>1. PICK more \in {messages, <<>>} : answers' = [answers EXCEPT ![id] = @ \o more]
    BY DEF Answer, Deliverable
  <1>2. more \in Seq(Replies) /\ AllFit(id, more)
    BY OthersFit, WhatIsSent
  <1>3. AllFit(id, answers[id] \o more)
    BY <1>2, MoreAnswersFit DEF ServerTyped, SerialInv
  <1> QED
    BY <1>1, <1>3 DEF ServerTyped, SerialInv

(* The token of a slice request stands for the last analysis before it. *)
LEMMA SliceOfToken ==
    ASSUME ServerInv, SerialInv, NEW c \in Clients, Stream(c) # <<>>,
           NEW m, m = Script[c][sent[c]], m.type = "slice", fileMap[c][m.token] # None
    PROVE  \E last \in EarlierAnalyses(m.id) :
              /\ \A i \in EarlierAnalyses(m.id) : i <= last
              /\ ClientOf(m.id) = c /\ last \in 1 .. sent[c] - 1
              /\ last \in 1 .. Len(Script[c])
              /\ fileMap[c][m.token] = Script[c][last].id
              /\ Script[c][last].type = "analysis"
  <1>1. /\ sent[c] \in 1 .. Len(Script[c]) /\ sent[c] \in Nat /\ Len(Script[c]) \in Nat
        /\ Taken(c) = sent[c] - 1
    BY TakenFits DEF SerialInv, Taken
  <1>2. m \in AllMessages /\ m.id \in Requests /\ m.token \in Tokens
    <2>1. m \in AllMessages /\ m.id \in Requests
      BY <1>1, Scripts
    <2> QED
      BY <2>1, ServerAssumption DEF Tokens
  <1>3. EarlierAnalyses(m.id) = AnalysesOf(c, m.token, sent[c] - 1) /\ ClientOf(m.id) = c
    <2>1. PICK d \in Clients : \E i \in 1 .. Len(Script[d]) :
              /\ Script[d][i].id = m.id /\ Msg(m.id) = Script[d][i] /\ ClientOf(m.id) = d
              /\ Place(m.id) = i
      BY <1>2, WhoAsked
    <2>2. PICK i \in 1 .. Len(Script[d]) :
              /\ Script[d][i].id = m.id /\ Msg(m.id) = Script[d][i] /\ ClientOf(m.id) = d
              /\ Place(m.id) = i
      BY <2>1
    <2>3. d = c /\ i = sent[c]
      BY <1>1, <2>2, Scripts
    <2>4. EarlierAnalyses(m.id) =
            {j \in 1 .. Place(m.id) - 1 : /\ Script[ClientOf(m.id)][j].type = "analysis"
                                          /\ Script[ClientOf(m.id)][j].token = Msg(m.id).token}
      BY DEF EarlierAnalyses, Place
    <2> QED
      BY <2>2, <2>3, <2>4 DEF AnalysesOf
  <1>4. PICK last \in AnalysesOf(c, m.token, sent[c] - 1) :
              /\ fileMap[c][m.token] = Script[c][last].id
              /\ \A i \in AnalysesOf(c, m.token, sent[c] - 1) : i <= last
    BY <1>1, <1>2 DEF SerialInv, Remembers
  <1>5. /\ last \in 1 .. sent[c] - 1 /\ Script[c][last].type = "analysis"
        /\ last \in 1 .. Len(Script[c])
    BY <1>1 DEF AnalysesOf
  <1> QED
    BY <1>3, <1>4, <1>5

(* Slicers of other requests, and those of a request that is no analysis. *)
LEMMA SlicersRest ==
    ASSUME SlicersFit, UNCHANGED coll,
           \A id \in ShellCalls : answers'[id] = answers[id],
           \A id \in Requests : /\ slicer'[id].file = slicer[id].file
                                /\ slicer'[id].counter # 0 <=> slicer[id].counter # 0
    PROVE  SlicersFit'
  <1>1. \A id : Asks(id, "idle")' = Asks(id, "idle") /\ Asks(id, "answered")' = Asks(id, "answered")
    BY DEF Asks
  <1>2. \A id \in Requests : Asks(id, "idle") => NoFinal(answers'[id])
    BY DEF Asks, SlicersFit
  <1> QED
    BY <1>1, <1>2 DEF SlicersFit

(* An answer to a request that did not ask the shell. *)
LEMMA NotOfTheShell ==
    ASSUME ServerTyped, NEW id \in Requests \ ShellCalls, NEW messages, Answer(id, messages)
    PROVE  \A other \in ShellCalls : answers'[other] = answers[other]
  BY DEF Answer, ServerTyped, ShellCalls, Requests

(* A slice is of the file that the slicer of its token has parsed. *)
LEMMA SliceFits ==
    ASSUME ServerInv, SerialInv, NEW c \in Clients, Stream(c) # <<>>,
           NEW m, m = Script[c][sent[c]], handleSliceRequest(c, m)
    PROVE  /\ SlicersFit'
           /\ \A id \in Requests : AllFit(id, answers'[id])
  <1>1. /\ m.type = "slice" /\ UNCHANGED coll
        /\ m \in AllMessages /\ m.id \in Requests /\ Msg(m.id) = m
        /\ m.id \notin ShellCalls
    <2>1. sent[c] \in 1 .. Len(Script[c])
      BY TakenFits DEF SerialInv
    <2>2. m.type = "slice" /\ UNCHANGED coll
      BY DEF handleSliceRequest, shellVars
    <2>3. m \in AllMessages /\ m.id \in Requests /\ Msg(m.id) = m
      BY <2>1, Scripts
    <2> QED
      BY <2>2, <2>3, WhatAsks
  <1>2. ServerTyped /\ SlicersFit
    BY DEF ServerInv, SerialInv
  <1>3. PICK id : id = fileMap[c][m.token]
    OBVIOUS
  <1>4. CASE id = None
    <2>1. UNCHANGED slicer /\ Answer(m.id, <<Error>>)
      BY <1>3, <1>4 DEF handleSliceRequest
    <2>2. \A other \in Requests : AllFit(other, answers'[other])
      BY <1>1, <1>2, <2>1, AnsweringFits, OthersFit, WhatIsSent
    <2>3. SlicersFit'
      BY <1>1, <1>2, <2>1, NotOfTheShell, SlicersRest
    <2> QED
      BY <2>2, <2>3
  <1>5. ASSUME id # None
        PROVE  \E last \in EarlierAnalyses(m.id) :
                  /\ \A i \in EarlierAnalyses(m.id) : i <= last
                  /\ ClientOf(m.id) = c /\ last \in 1 .. sent[c] - 1
                  /\ last \in 1 .. Len(Script[c])
                  /\ id = Script[c][last].id
                  /\ Script[c][last].type = "analysis"
    BY <1>1, <1>3, <1>5, SliceOfToken
  <1>6. ASSUME id # None
        PROVE  id \in Requests /\ slicer[id].counter \in {0, 3, 5}
    <2>1. PICK last \in EarlierAnalyses(m.id) : last \in 1 .. Len(Script[c]) /\ id = Script[c][last].id
      BY <1>5, <1>6
    <2>2. id \in Requests
      BY <2>1, Scripts
    <2> QED
      BY <1>2, <2>2 DEF ServerTyped
  <1>7. CASE id # None /\ slicer[id].counter = 0
    <2>1. ~ (slicer[id].counter >= 3)
      BY <1>7
    <2>2. UNCHANGED <<slicer, answers>>
      BY <1>3, <1>7, <2>1 DEF handleSliceRequest
    <2> QED
      BY <1>1, <1>2, <2>2, SlicersRest DEF SerialInv
  <1>8. CASE id # None /\ slicer[id].counter # 0
    <2>0. ~ (slicer[id].counter < 3)
      BY <1>6, <1>8
    <2>1. PICK last \in EarlierAnalyses(m.id) :
              /\ \A i \in EarlierAnalyses(m.id) : i <= last
              /\ ClientOf(m.id) = c /\ last \in 1 .. sent[c] - 1
              /\ last \in 1 .. Len(Script[c])
              /\ id = Script[c][last].id
              /\ Script[c][last].type = "analysis"
      BY <1>5, <1>8
    <2>2. id \in Requests /\ Msg(id) = Script[c][last]
      BY <2>1, Scripts
    <2>3. slicer[id].counter # 0 /\ slicer[id].file = Script[c][last].file
      BY <1>2, <1>8, <2>2 DEF SlicersFit
    <2>4. PICK k \in {3, 5}, messages \in { <<Error>>, <<SliceAnswer(id, m)>> } :
             slicer' = [slicer EXCEPT ![id].counter = k] /\ Answer(m.id, messages)
      BY <1>3, <1>8, <2>0 DEF handleSliceRequest
    <2>5. messages \in Seq(Replies) /\ AllFit(m.id, messages)
      <3>1. SliceAnswer(id, m) \in Replies
        <4>1. slicer[id].file \in Files
          BY <1>2, <2>2 DEF ServerTyped
        <4> QED
          BY <1>1, <4>1 DEF SliceAnswer, Replies, Finals, Files
      <3>2. AnswerFits(m.id, SliceAnswer(id, m))
        BY <1>1, <2>1, <2>3 DEF AnswerFits, SliceAnswer
      <3>3. AllFit(m.id, <<SliceAnswer(id, m)>>)
        BY <3>2 DEF AllFit
      <3> QED
        BY <3>1, <3>3, OthersFit, WhatIsSent
    <2>6. \A other \in Requests : AllFit(other, answers'[other])
      BY <1>1, <1>2, <2>4, <2>5, AnsweringFits
    <2>7. /\ \A other \in Requests : /\ slicer'[other].file = slicer[other].file
                                     /\ other # id => slicer'[other] = slicer[other]
          /\ slicer'[id].counter # 0
      BY <1>2, <2>2, <2>4 DEF ServerTyped
    <2>8. \A other \in Requests : slicer'[other].counter # 0 <=> slicer[other].counter # 0
      BY <2>3, <2>7
    <2>9. SlicersFit'
      BY <1>1, <1>2, <2>4, <2>7, <2>8, NotOfTheShell, SlicersRest
    <2> QED
      BY <2>6, <2>9
  <1> QED
    BY <1>4, <1>7, <1>8

-----------------------------------------------------------------------------
(* A call that overlaps no other finds none open. *)
LEMMA NoneWasOpen ==
    ASSUME CollTyped, OneCall', NEW id \in ShellCalls, Shell!SendCommandWithOutput(id)
    PROVE  Shell!Open = {}
  <1> SUFFICES ASSUME NEW other \in Shell!Open
               PROVE  FALSE
    OBVIOUS
  <1> DEFINE call == [state |-> "collecting", on |-> session, result |-> <<>>]
  <1>1. /\ coll' = [coll EXCEPT ![id] = call] /\ call.state = "collecting"
        /\ coll[id].state = "idle"
    BY DEF Shell!SendCommandWithOutput
  <1> HIDE DEF call
  <1>2. other \in ShellCalls /\ coll[other].state = "collecting" /\ other # id
    BY <1>1 DEF Shell!Open
  <1>3. coll'[id].state = "collecting" /\ coll'[other].state = "collecting"
    BY <1>1, <1>2 DEF CollTyped
  <1>4. id \in (Shell!Open)' /\ other \in (Shell!Open)'
    BY <1>2, <1>3 DEF Shell!Open
  <1> QED
    BY <1>2, <1>4 DEF OneCall

(* What the handler of a message does to the shell, the slicers, the answers *)
(* and the file map.                                                         *)
LEMMA ServingFits ==
    ASSUME OneCall', ServerInv, SerialInv, NEW c \in Clients, Stream(c) # <<>>,
           NEW m, m = Script[c][sent[c]], Served(c, m)
    PROVE  /\ ShellFits'
           /\ \A s \in Shell!Sessions : KeepsSilent(proc[s], proc'[s])
           /\ SlicersFit'
           /\ \A id \in Requests : AllFit(id, answers'[id])
           /\ fileMap' = IF m.type = "analysis" THEN Remember(c, m) ELSE fileMap
  <1>1. /\ m \in AllMessages /\ m.id \in Requests /\ Msg(m.id) = m
        /\ Waits(c) /\ ServerTyped /\ CollTyped /\ SlicersFit /\ ShellFits
        /\ \A id \in Requests : AllFit(id, answers[id])
    <2>1. Waits(c)
      BY DEF SerialInv
    <2>2. sent[c] \in 1 .. Len(Script[c])
      BY <2>1, TakenFits
    <2> QED
      BY <2>1, <2>2, Scripts DEF ServerInv, ServerTyped, SerialInv
  <1>2. CASE AsksShell(c, m)
    <2>1. /\ m.id \in ShellCalls /\ Shell!SendCommandWithOutput(m.id)
          /\ UNCHANGED <<slicer, answers>>
      BY <1>1, <1>2, WhatAsks DEF AsksShell
    <2>2. Shell!Open = {}
      BY <1>1, <2>1, NoneWasOpen
    <2>3. ShellFits' /\ \A s \in Shell!Sessions : KeepsSilent(proc[s], proc'[s])
      BY <1>1, <2>1, <2>2, AskingFits
    <2>4. /\ coll'[m.id].state = "collecting"
          /\ \A id \in ShellCalls : id # m.id => coll'[id] = coll[id]
      <3> DEFINE call == [state |-> "collecting", on |-> session, result |-> <<>>]
      <3>1. coll' = [coll EXCEPT ![m.id] = call] /\ call.state = "collecting"
        BY <2>1 DEF Shell!SendCommandWithOutput
      <3> HIDE DEF call
      <3> QED
        BY <1>1, <2>1, <3>1 DEF CollTyped
    <2>5. \A id : /\ Asks(id, "idle")' => Asks(id, "idle")
                  /\ Asks(id, "answered")' => Asks(id, "answered")
      BY <2>4 DEF Asks
    <2>6. SlicersFit'
      BY <1>1, <2>1, <2>5 DEF SlicersFit
    <2> QED
      BY <1>1, <1>2, <2>1, <2>3, <2>6 DEF AsksShell
  <1>3. CASE IsRejected(m)
    <2>1. UNCHANGED shellVars /\ UNCHANGED <<proc, coll, slicer, fileMap>> /\ m.type # "analysis"
      BY <1>3 DEF IsRejected, shellVars
    <2>2. ShellFits' /\ \A s \in Shell!Sessions : KeepsSilent(proc[s], proc'[s])
      BY <1>1, <2>1, ShellRestsFit DEF KeepsSilent
    <2>3. m.id \notin ShellCalls
      BY <1>1, <1>3, WhatAsks DEF IsRejected
    <2>4. CASE UNCHANGED answers
      BY <1>1, <2>1, <2>2, <2>4, SlicersRest
    <2>5. CASE Answer(m.id, <<Error>>)
      <3>1. \A id \in Requests : AllFit(id, answers'[id])
        BY <1>1, <2>5, AnsweringFits, OthersFit, WhatIsSent
      <3>2. SlicersFit'
        BY <1>1, <2>1, <2>3, <2>5, NotOfTheShell, SlicersRest
      <3> QED
        BY <2>1, <2>2, <3>1, <3>2
    <2> QED
      BY <1>3, <2>4, <2>5 DEF IsRejected
  <1>4. CASE handleSliceRequest(c, m)
    <2>1. UNCHANGED shellVars /\ UNCHANGED <<proc, fileMap>> /\ m.type # "analysis"
      BY <1>4 DEF handleSliceRequest, shellVars
    <2>2. ShellFits' /\ \A s \in Shell!Sessions : KeepsSilent(proc[s], proc'[s])
      BY <1>1, <2>1, ShellRestsFit DEF KeepsSilent
    <2> QED
      BY <1>4, <2>1, <2>2, SliceFits
  <1> QED
    BY <1>2, <1>3, <1>4, WaysToServe

(* What was answered stays answered. *)
LEMMA ServingKeepsAnswers ==
    ASSUME ServerInv, SerialInv, NEW c \in Clients, Stream(c) # <<>>,
           NEW m, m = Script[c][sent[c]], Served(c, m)
    PROVE  \A id \in Requests : Answered(id) => Answered(id)'
  <1>1. /\ sent[c] \in 1 .. Len(Script[c]) /\ Len(Script[c]) \in Nat
        /\ TakenInOrder(c, sent[c] - 1)
    BY TakenFits DEF SerialInv, Taken
  <1>2. m \in AllMessages /\ m.id \in Requests /\ ServerTyped
    BY <1>1, Scripts DEF ServerInv
  <1>3. Fresh(m.id)
    <2>1. sent[c] \in (sent[c] - 1) + 1 .. Len(Script[c])
      BY <1>1
    <2> QED
      BY <1>1, <2>1 DEF TakenInOrder
  <1>4. ~ Answered(m.id)
    BY <1>3 DEF Fresh, NoFinal, IsFinal, Answered
  <1>5. \A id \in Requests \ {m.id} : answers'[id] = answers[id]
    <2>1. CASE UNCHANGED answers
      BY <2>1
    <2>2. CASE m.type = "garbage" /\ RejectText(c)
      BY <2>1, <2>2 DEF RejectText
    <2> QED
      BY <1>2, <1>3, <2>2, HandlersServeTheirMessage DEF Served
  <1> QED
    BY <1>4, <1>5 DEF Answered

(* The file map after one message more. *)
LEMMA RemembersOneMore ==
    ASSUME ServerTyped, NEW c \in Clients, sent[c] \in Nat, sent[c] \in 1 .. Len(Script[c]),
           Remembers(c), Taken(c) = sent[c] - 1, Taken(c)' = sent[c],
           NEW m, m = Script[c][sent[c]],
           fileMap' = IF m.type = "analysis" THEN Remember(c, m) ELSE fileMap
    PROVE  /\ Remembers(c)'
           /\ \A d \in Clients : d # c => fileMap'[d] = fileMap[d]
  <1>1. m \in AllMessages /\ m.id \in Requests
    BY Scripts
  <1> DEFINE isLast(t) == m.type = "analysis" /\ m.token = t
  <1>2. /\ \A d \in Clients : d # c => fileMap'[d] = fileMap[d]
        /\ \A t \in Tokens : fileMap'[c][t] = IF isLast(t) THEN m.id ELSE fileMap[c][t]
    <2>1. CASE UNCHANGED fileMap /\ ~ (m.type = "analysis" /\ m.token \in Tokens)
      BY <2>1
    <2>2. CASE m.type = "analysis" /\ m.token \in Tokens
               /\ fileMap' = [fileMap EXCEPT ![c][m.token] = m.id]
      BY <2>2 DEF ServerTyped
    <2>3. None \notin Tokens
      BY DEF Tokens
    <2>4. m.token # None => m.token \in Tokens
      BY <1>1 DEF Tokens
    <2> QED
      BY <2>1, <2>2, <2>3, <2>4 DEF Remember
  <1>3. ASSUME NEW t \in Tokens
        PROVE  \/ fileMap'[c][t] = None /\ AnalysesOf(c, t, sent[c]) = {}
               \/ \E last \in AnalysesOf(c, t, sent[c]) :
                     /\ fileMap'[c][t] = Script[c][last].id
                     /\ \A i \in AnalysesOf(c, t, sent[c]) : i <= last
    <2>1. CASE isLast(t)
      <3>1. sent[c] \in AnalysesOf(c, t, sent[c]) /\ \A i \in AnalysesOf(c, t, sent[c]) : i <= sent[c]
        BY <2>1 DEF AnalysesOf
      <3>2. fileMap'[c][t] = Script[c][sent[c]].id
        BY <1>2, <2>1
      <3> QED
        BY <3>1, <3>2
    <2>2. CASE ~ isLast(t)
      <3>1. AnalysesOf(c, t, sent[c]) = AnalysesOf(c, t, sent[c] - 1)
        <4>1. \A i \in 1 .. sent[c] : i = sent[c] \/ i \in 1 .. sent[c] - 1
          OBVIOUS
        <4>2. \A i \in 1 .. sent[c] - 1 : i \in 1 .. sent[c]
          OBVIOUS
        <4> QED
          BY <2>2, <4>1, <4>2 DEF AnalysesOf
      <3>2. fileMap'[c][t] = fileMap[c][t]
        BY <1>2, <2>2
      <3> HIDE DEF isLast
      <3> QED
        BY <3>1, <3>2 DEF Remembers
    <2> QED
      BY <2>1, <2>2
  <1>4. \A t, n : AnalysesOf(c, t, n)' = AnalysesOf(c, t, n)
    BY DEF AnalysesOf
  <1> QED
    BY <1>2, <1>3 DEF Remembers, AnalysesOf

(* A chunk that arrives. *)
LEMMA ReceivingFits ==
    ASSUME OneCall', ServerInv, SerialInv, NEW c \in Clients, handleData(c)
    PROVE  SerialInv'
  <1>1. /\ UNCHANGED sent /\ Stream(c) # <<>>
        /\ \A d \in Clients : d # c => wire'[d] = wire[d] /\ buffer'[d] = buffer[d]
        /\ Len(buffer'[c]) <= 1
    BY OneMessageAtATime DEF SerialInv
  <1>2. /\ ServerTyped /\ Waits(c) /\ Remembers(c) /\ sent \in [Clients -> Nat]
        /\ sent[c] \in 1 .. Len(Script[c]) /\ sent[c] \in Nat /\ Taken(c) = sent[c] - 1
        /\ \A d \in Clients : Waits(d) /\ Remembers(d)
    BY <1>1, TakenFits DEF SerialInv, Taken, ServerInv, ServerTyped
  <1>3. ASSUME NEW d \in Clients, NEW i \in 1 .. sent[d] - 1,
               \A id \in Requests : Answered(id) => Answered(id)',
               Done(Script[d][i])
        PROVE  Done(Script[d][i])'
    <2>1. i \in 1 .. Len(Script[d])
      BY <1>2, TakenFits
    <2>2. Script[d][i].id \in Requests
      BY <2>1, Scripts
    <2>3. Answered(Script[d][i].id) => Answered(Script[d][i].id)'
      <3>1. PICK id \in Requests : id = Script[d][i].id
        BY <2>2
      <3>2. Answered(id) => Answered(id)'
        BY <1>3
      <3> QED
        BY <3>1, <3>2
    <2> QED
      BY <1>3, <2>3 DEF Done
  <1>4. ASSUME \A id \in Requests : Answered(id) => Answered(id)',
               \A d \in Clients : d # c => fileMap'[d] = fileMap[d]
        PROVE  \A d \in Clients : d # c => Waits(d)' /\ Remembers(d)'
    <2> SUFFICES ASSUME NEW d \in Clients, d # c
                 PROVE  Waits(d)' /\ Remembers(d)'
      OBVIOUS
    <2> QED
      BY <1>1, <1>2, <1>3, <1>4, ClientRests
  <1>5. CASE /\ Len(Stream(c)') = 2
             /\ UNCHANGED <<up, socket, fileMap, slicer, answers, anonymous, shellVars>>
    <2>1. \A id : Answered(id) => Answered(id)'
      BY <1>5 DEF Answered
    <2>2. Waits(c)'
      BY <1>1, <1>2, <1>3, <1>5, <2>1 DEF Waits
    <2>3. Stream(c)' # <<>>
      <3>1. ASSUME NEW none, none = <<>>, Len(none) = 2
            PROVE  FALSE
        BY <3>1
      <3> QED
        BY <1>5, <3>1
    <2>4. Remembers(c)'
      <3>1. Taken(c)' = Taken(c)
        BY <1>1, <2>3 DEF Taken
      <3> QED
        BY <1>2, <1>5, <3>1 DEF Remembers, AnalysesOf
    <2>5. ShellFits' /\ SlicersFit'
      <3>1. UNCHANGED shellVars /\ UNCHANGED <<coll, answers, slicer>>
        BY <1>5 DEF shellVars
      <3> QED
        BY <3>1, ShellRestsFit, SlicersRest DEF SerialInv
    <2> QED
      BY <1>4, <1>5, <2>1, <2>2, <2>4, <2>5 DEF SerialInv
  <1>6. CASE Stream(c)' = <<>> /\ Served(c, Script[c][sent[c]])
    <2>1. PICK m : m = Script[c][sent[c]]
      OBVIOUS
    <2>2. /\ ShellFits' /\ SlicersFit'
          /\ \A id \in Requests : AllFit(id, answers'[id])
          /\ fileMap' = IF m.type = "analysis" THEN Remember(c, m) ELSE fileMap
      BY <1>1, <1>6, <2>1, ServingFits
    <2>3. \A id \in Requests : Answered(id) => Answered(id)'
      BY <1>1, <1>6, <2>1, ServingKeepsAnswers
    <2>4. Remembers(c)' /\ \A d \in Clients : d # c => fileMap'[d] = fileMap[d]
      <3>1. Taken(c)' = sent[c]
        BY <1>1, <1>6 DEF Taken
      <3> QED
        BY <1>2, <2>1, <2>2, <3>1, RemembersOneMore
    <2>5. Waits(c)'
      <3>1. Len(Stream(c)') \in {0, 2}
        <4>1. Len(<<>>) = 0
          OBVIOUS
        <4> QED
          BY <1>6, <4>1
      <3>2. \A i \in 1 .. sent'[c] - 1 : Done(Script[c][i])'
        BY <1>1, <1>2, <1>3, <2>3 DEF Waits
      <3> QED
        BY <1>1, <3>1, <3>2 DEF Waits
    <2> QED
      BY <1>4, <2>2, <2>3, <2>4, <2>5 DEF SerialInv
  <1> QED
    BY <1>5, <1>6, OneMessageAtATime DEF SerialInv

-----------------------------------------------------------------------------
(* A step that leaves the connections, the answers and the calls alone. *)
LEMMA NothingServed ==
    ASSUME ServerInv, SerialInv, ShellFits',
           UNCHANGED <<sent, wire, buffer, fileMap, answers, slicer, coll>>
    PROVE  SerialInv'
  <1>1. \A c \in Clients : Waits(c)' /\ Remembers(c)'
    BY ClientRests DEF SerialInv, ServerInv, ServerTyped, Done, Answered
  <1>2. SlicersFit'
    BY SlicersRest DEF SerialInv
  <1> QED
    BY <1>1, <1>2 DEF SerialInv

(* A client sends its next message. *)
LEMMA SendingFits ==
    ASSUME Polite, ServerInv, SerialInv, NEW c \in Clients, Send(c)
    PROVE  SerialInv'
  <1>1. /\ UNCHANGED <<buffer, fileMap, answers, slicer, coll>> /\ UNCHANGED shellVars
        /\ \A d \in Clients : d # c => sent'[d] = sent[d] /\ wire'[d] = wire[d]
    BY DEF Send, shellVars, ServerInv, ServerTyped
  <1>2. Waits(c)' /\ Remembers(c)'
    BY SendFits DEF SerialInv
  <1>3. \A d \in Clients : d # c => Waits(d)' /\ Remembers(d)'
    BY <1>1, ClientRests DEF SerialInv, ServerInv, ServerTyped, Done, Answered
  <1>4. ShellFits' /\ SlicersFit'
    BY <1>1, ShellRestsFit, SlicersRest DEF SerialInv
  <1> QED
    BY <1>1, <1>2, <1>3, <1>4 DEF SerialInv

(* The output of a call is the parse of its own file, if there is one. *)
LEMMA ParsedOwn ==
    ASSUME NEW id \in ShellCalls
    PROVE  /\ Parsed(<<>>) = None
           /\ Msg(id).type \in {"analysis", "command"} /\ Msg(id).file \notin Unparseable =>
                 Parsed(Shell!Own(id)) = Msg(id).file
           /\ Parsed(Shell!Own(id)) \in {None, Msg(id).file}
  <1>1. id \in Requests
    BY DEF ShellCalls, Requests
  <1>2. PICK c \in Clients : \E i \in 1 .. Len(Script[c]) : Script[c][i].id = id /\ Msg(id) = Script[c][i]
    BY <1>1, WhoAsked
  <1>3. Msg(id) \in AllMessages /\ Msg(id).id = id
    BY <1>2, Scripts
  <1>4. \A m \in AllMessages : m.id = id => m = Msg(id)
    <2> SUFFICES ASSUME NEW m \in AllMessages, m.id = id
                 PROVE  m = Msg(id)
      OBVIOUS
    <2>1. PICK d \in Clients : \E j \in 1 .. Len(Script[d]) : Script[d][j] = m
      BY DEF AllMessages
    <2>2. PICK j \in 1 .. Len(Script[d]) : Script[d][j] = m
      BY <2>1
    <2> QED
      BY <2>2, Scripts
  <1>5. \A r : Shell!Own(r)[1].call = r /\ Shell!Own(r) # <<>>
    <2> TAKE r
    <2>1. Shell!Own(r)[1].call = r
      BY DEF Shell!Own
    <2>2. Shell!Own(r) \in Seq({[call |-> r, stream |-> "stdout", nr |-> 1]}) /\ Len(Shell!Own(r)) = 1
      BY DEF Shell!Own
    <2>3. ASSUME NEW none, none = <<>>, Len(none) = 1
          PROVE  FALSE
      BY <2>3
    <2> QED
      BY <2>1, <2>2, <2>3
  <1> DEFINE of == {m \in AllMessages : /\ m.type \in {"analysis", "command"}
                                        /\ m.file \notin Unparseable
                                        /\ Shell!Own(id) = Shell!Own(m.id)}
  <1>6. of = IF Msg(id).type \in {"analysis", "command"} /\ Msg(id).file \notin Unparseable
             THEN {Msg(id)} ELSE {}
    <2>1. \A m : Shell!Own(id) = Shell!Own(m.id) => m.id = id
      BY <1>5
    <2>2. \A m \in of : m = Msg(id)
      BY <1>4, <2>1
    <2> QED
      BY <1>3, <2>2
  <1>7. Parsed(Shell!Own(id)) = IF of = {} THEN None ELSE (CHOOSE m \in of : TRUE).file
    BY DEF Parsed
  <1>8. Parsed(<<>>) = None
    <2>1. {m \in AllMessages : /\ m.type \in {"analysis", "command"}
                               /\ m.file \notin Unparseable
                               /\ <<>> = Shell!Own(m.id)} = {}
      BY <1>5
    <2> QED
      BY <2>1 DEF Parsed
  <1> HIDE DEF of
  <1>9. of # {} => (CHOOSE m \in of : TRUE) = Msg(id)
    BY <1>6
  <1> QED
    BY <1>6, <1>7, <1>8, <1>9

(* What is sent when a call of the shell settles. *)
LEMMA SettledFits ==
    ASSUME NEW id \in ShellCalls, NEW file \in {None, Msg(id).file}
    PROVE  /\ AllFit(id, AnalysisAnswer(file))
           /\ CountAfter(file) # 0 <=> file # None
  <1>1. CASE file = None
    <2>1. AnalysisAnswer(file) = <<Error>>
      BY <1>1 DEF AnalysisAnswer, Error
    <2> QED
      BY <1>1, <2>1, OthersFit DEF CountAfter
  <1>2. CASE file # None
    <2> DEFINE reply == [kind |-> "analysis", file |-> file, criterion |-> None]
    <2>1. AnalysisAnswer(file) = <<reply>>
      BY <1>2 DEF AnalysisAnswer
    <2>2. AnswerFits(id, reply)
      BY <1>2 DEF AnswerFits
    <2> HIDE DEF reply
    <2>3. AllFit(id, <<reply>>)
      BY <2>2 DEF AllFit
    <2> QED
      BY <1>2, <2>1, <2>3 DEF CountAfter
  <1> QED
    BY <1>1, <1>2

(* The requests whose shell calls settle are answered for their own files. *)
LEMMA HearingFits ==
    ASSUME ServerInv, SerialInv, ShellFits', ResultsFit', ShellAnswers
    PROVE  SerialInv'
  <1>1. /\ ServerTyped /\ SlicersFit /\ sent \in [Clients -> Nat]
        /\ \A id \in Requests : /\ answers[id] \in Seq(Replies) /\ AllFit(id, answers[id])
                                /\ Asks(id, "collecting") => NoFinal(answers[id])
    BY DEF ServerInv, ServerTyped, SerialInv
  <1>2. \A id \in ShellCalls :
              \/ coll'[id].state = coll[id].state
              \/ /\ coll[id].state = "collecting"
                 /\ coll'[id].state \in {"answered", "cutoff"}
    BY <1>1, CallsOnlySettle DEF ShellAnswers, ServerTyped
  <1>3. UNCHANGED <<sent, wire, buffer, fileMap>>
    BY DEF ShellAnswers, connVars
  <1> DEFINE settled == {id \in ShellCalls : /\ coll[id].state = "collecting"
                                             /\ coll'[id].state \in {"answered", "cutoff"}}
             FileOf(id) == Parsed(coll'[id].result)
             Reply(id) == IF Msg(id).type = "analysis" THEN AnalysisAnswer(FileOf(id)) ELSE ReplAnswer
             Says(id) == Deliverable(id, Reply(id))
  <1>4. /\ slicer' = [id \in Requests |->
              IF id \in settled /\ Msg(id).type = "analysis"
              THEN [counter |-> CountAfter(FileOf(id)), file |-> FileOf(id)]
              ELSE slicer[id]]
        /\ answers' = [id \in Requests |->
              IF id \in settled THEN answers[id] \o Says(id) ELSE answers[id]]
    BY DEF ShellAnswers, Continue
  <1>5. \A id \in settled :
            /\ id \in ShellCalls /\ coll[id].state = "collecting"
            /\ Asks(id, "collecting") /\ FileOf(id) \in {None, Msg(id).file}
            /\ coll'[id].state = "answered" /\ Parses(Msg(id)) /\ Msg(id).type = "analysis" =>
                  FileOf(id) # None
    BY ParsedOwn DEF ResultsFit, Asks, Parses
  <1>6. \A id \in ShellCalls : coll'[id].state # coll[id].state => id \in settled
    BY <1>2
  <1>7. \A id \in settled : Says(id) \in Seq(Replies) /\ AllFit(id, Says(id))
    <2> SUFFICES ASSUME NEW id \in settled
                 PROVE  Says(id) \in Seq(Replies) /\ AllFit(id, Says(id))
      OBVIOUS
    <2>1. FileOf(id) \in Files
      BY ParsedIsAFile
    <2>2. AnalysisAnswer(FileOf(id)) \in Seq(Replies) /\ AllFit(id, AnalysisAnswer(FileOf(id)))
      <3> HIDE DEF FileOf, settled
      <3> QED
        BY <1>5, <2>1, WhatIsSent, SettledFits
    <2>3. Reply(id) \in Seq(Replies) /\ AllFit(id, Reply(id))
      <3> HIDE DEF FileOf
      <3> QED
        BY <2>2, WhatIsSent, OthersFit
    <2>4. Says(id) \in {Reply(id), <<>>}
      BY DEF Deliverable
    <2> HIDE DEF Says, Reply
    <2> QED
      BY <2>3, <2>4, WhatIsSent, OthersFit
  <1> HIDE DEF Says, Reply, FileOf, settled
  <1>8. \A id \in Requests : AllFit(id, answers'[id])
    <2> SUFFICES ASSUME NEW id \in Requests
                 PROVE  AllFit(id, answers'[id])
      OBVIOUS
    <2>1. CASE id \in settled
      BY <1>1, <1>4, <1>7, <2>1, MoreAnswersFit
    <2>2. CASE id \notin settled
      BY <1>1, <1>4, <2>2
    <2> QED
      BY <2>1, <2>2
  <1>9. \A id \in Requests : Answered(id) => Answered(id)'
    <2> SUFFICES ASSUME NEW id \in Requests, Answered(id)
                 PROVE  Answered(id)'
      OBVIOUS
    <2>1. ~ NoFinal(answers[id])
      BY DEF Answered, NoFinal, IsFinal
    <2>2. id \notin settled
      BY <1>1, <1>5, <2>1
    <2>3. answers'[id] = answers[id]
      BY <1>4, <2>2
    <2> QED
      BY <2>3 DEF Answered
  <1>10. SlicersFit'
    <2> SUFFICES ASSUME NEW id \in Requests
                 PROVE  /\ Asks(id, "idle")' => NoFinal(answers'[id])
                        /\ slicer'[id].counter # 0 => slicer'[id].file = Msg(id).file
                        /\ Asks(id, "answered")' /\ Msg(id).type = "analysis" /\ Parses(Msg(id)) =>
                              slicer'[id].counter # 0
      BY DEF SlicersFit
    <2>1. Asks(id, "idle")' => NoFinal(answers'[id])
      <3> SUFFICES ASSUME Asks(id, "idle")'
                   PROVE  NoFinal(answers'[id])
        OBVIOUS
      <3>1. Asks(id, "idle") /\ id \notin settled
        BY <1>2, <1>5 DEF Asks
      <3> QED
        BY <1>1, <1>4, <3>1 DEF SlicersFit
    <2>2. CASE id \in settled /\ Msg(id).type = "analysis"
      <3>1. slicer'[id].counter = CountAfter(FileOf(id)) /\ slicer'[id].file = FileOf(id)
        BY <1>4, <2>2
      <3>2. CountAfter(FileOf(id)) # 0 <=> FileOf(id) # None
        BY <1>5, <2>2, SettledFits
      <3> QED
        BY <1>5, <2>1, <2>2, <3>1, <3>2 DEF Asks
    <2>3. CASE ~ (id \in settled /\ Msg(id).type = "analysis")
      <3>1. slicer'[id] = slicer[id]
        BY <1>4, <2>3
      <3>2. ASSUME Asks(id, "answered")', Msg(id).type = "analysis"
            PROVE  Asks(id, "answered")
        BY <1>6, <2>3, <3>2 DEF Asks
      <3> QED
        BY <1>1, <2>1, <3>1, <3>2 DEF SlicersFit
    <2> QED
      BY <2>2, <2>3
  <1>11. ASSUME NEW c \in Clients
         PROVE  Waits(c)' /\ Remembers(c)'
    <2>1. Waits(c) /\ Remembers(c)
      BY DEF SerialInv
    <2>2. ASSUME NEW i \in 1 .. sent[c] - 1, Done(Script[c][i])
          PROVE  Done(Script[c][i])'
      <3>1. i \in 1 .. Len(Script[c])
        BY <2>1, TakenFits
      <3>2. PICK id \in Requests : id = Script[c][i].id
        BY <3>1, Scripts
      <3> QED
        BY <1>9, <2>2, <3>2 DEF Done
    <2> QED
      BY <1>1, <1>3, <2>1, <2>2, ClientRests
  <1> QED
    BY <1>8, <1>10, <1>11 DEF SerialInv

(* In the beginning nothing is sent, asked or remembered. *)
LEMMA InitEstablishesSerial == Init => SerialInv
  <1> SUFFICES ASSUME Init
               PROVE  SerialInv
    OBVIOUS
  <1>1. Serial!Init
    BY SameShell DEF Init, Shell!Init, Serial!Init, Shell!Unborn, Serial!Unborn, Shell!None, Serial!None
  <1>2. Serial!ShellInv /\ Serial!ChannelInv
    BY <1>1, SerialAssumptions, Serial!InitEstablishesInv, Serial!InitEstablishesChannel
  <1>3. \A id \in ShellCalls : coll[id].state = "idle"
    BY DEF Init, Shell!Init
  <1>4. ShellFits
    <2>1. \A s \in Shell!Sessions : proc[s].stderr = <<>>
      BY DEF Init, Shell!Init, Shell!NewSession, Shell!Unborn
    <2> QED
      BY <1>2, <1>3, <2>1 DEF ShellFits, Init, Shell!Init
  <1>5. SlicersFit /\ \A id \in Requests : AllFit(id, answers[id])
    <2>1. \A id \in Requests : answers[id] = <<>> /\ slicer[id].counter = 0 /\ ~ Asks(id, "answered")
      BY <1>3 DEF Init, Asks
    <2> QED
      BY <2>1 DEF SlicersFit, NoFinal, AllFit
  <1>6. ASSUME NEW c \in Clients
        PROVE  Waits(c) /\ Remembers(c)
    <2>1. /\ sent[c] = 0 /\ Stream(c) = <<>> /\ buffer[c] = <<>>
          /\ \A t \in Tokens : fileMap[c][t] = None
      BY DEF Init, Stream
    <2>2. Waits(c)
      BY <2>1 DEF Waits
    <2>3. Remembers(c)
      BY <2>1 DEF Remembers, AnalysesOf, Taken
    <2> QED
      BY <2>2, <2>3
  <1> QED
    BY <1>4, <1>5, <1>6 DEF SerialInv

(* When clients wait for their answers, then a step after which no calls     *)
(* overlap leaves a shell that answers call after call, and connections that *)
(* remember what their clients analysed last.                                *)
LEMMA StepKeepsSerial ==
    ASSUME Polite, OneCall', ServerInv, SerialInv, [Next]_vars
    PROVE  SerialInv'
  <1>1. ASSUME ShellFits', ServerInv, SerialInv, ShellAnswers
        PROVE  SerialInv'
    <2>1. (ShellFits => ResultsFit)'
      BY SerialResultsFit, PTL
    <2> QED
      BY <1>1, <2>1, HearingFits
  <1>2. CASE \E c \in Clients : Send(c)
    BY <1>2, SendingFits
  <1>3. CASE \E c \in Clients : handleData(c)
    BY <1>3, ReceivingFits
  <1>4. CASE ShellAnswers
    BY <1>1, <1>4, ShellAnswersFit DEF SerialInv, ServerInv, ServerTyped
  <1>5. CASE ShellWorks
    <2>1. UNCHANGED coll
      BY <1>5 DEF ShellWorks, Shell!RExecute, Shell!RDies
    <2>2. UNCHANGED <<sent, wire, buffer, fileMap, answers, slicer>>
      BY <1>5 DEF ShellWorks, connVars
    <2> QED
      BY <1>5, <2>1, <2>2, ShellWorksFits, NothingServed DEF SerialInv
  <1>6. CASE (\E c \in Clients : Connect(c)) \/ UNCHANGED vars
    <2>1. UNCHANGED shellVars /\ UNCHANGED <<sent, wire, buffer, fileMap, answers, slicer, coll>>
      BY <1>6 DEF Connect, vars, connVars, shellVars
    <2> QED
      BY <2>1, ShellRestsFit, NothingServed DEF SerialInv
  <1> QED
    BY <1>2, <1>3, <1>4, <1>5, <1>6 DEF Next

(* The inductive invariant of a server whose clients wait and whose calls do *)
(* not overlap.                                                              *)
THEOREM SerialInvariant ==
    ASSUME Polite
    PROVE  Spec /\ []OneCall => []SerialInv
  <1>1. OneCall' /\ ServerInv /\ SerialInv /\ [Next]_vars => SerialInv'
    BY StepKeepsSerial
  <1> QED
    BY <1>1, InitEstablishesSerial, ServerInvariant, PTL DEF Spec

(* Where one client makes all calls of the shell, they do not overlap: it    *)
(* waits for the answer before it asks again.                                *)
THEOREM CallsDoNotOverlap ==
    ASSUME OneAtATime
    PROVE  Spec => []OneCall
  <1>1. Init => OneCall
    BY DEF Init, Shell!Init, OneCall, Shell!Open
  <1>2. ASSUME ServerInv, SerialInv, OneCall, [Next]_vars
        PROVE  OneCall'
    <2>1. CASE \A id \in ShellCalls : coll'[id].state = "collecting" => coll[id].state = "collecting"
      BY <1>2, <2>1 DEF OneCall, Shell!Open
    <2>2. ASSUME NEW c \in Clients, handleData(c)
          PROVE  OneCall'
      <3>1. /\ Stream(c) # <<>>
            /\ \/ UNCHANGED <<up, socket, fileMap, slicer, answers, anonymous, shellVars>>
               \/ Served(c, Script[c][sent[c]])
        BY <1>2, <2>2, OneMessageAtATime DEF SerialInv
      <3>2. PICK m : m = Script[c][sent[c]]
        OBVIOUS
      <3>3. CASE UNCHANGED shellVars
        BY <2>1, <3>3 DEF shellVars
      <3>4. CASE AsksShell(c, m)
        <4>1. /\ Waits(c) /\ CollTyped /\ m.id \in ShellCalls
          <5>1. Waits(c) /\ CollTyped
            BY <1>2 DEF SerialInv, ServerInv, ServerTyped
          <5>2. sent[c] \in 1 .. Len(Script[c])
            BY <1>2, <3>1, <5>1, TakenFits
          <5>3. m.id \in Requests /\ Msg(m.id) = m
            BY <3>2, <5>2, Scripts
          <5> QED
            BY <3>4, <5>1, <5>3, WhatAsks DEF AsksShell
        <4>2. Shell!Open = {}
          BY <1>2, <3>1, <3>2, <4>1, NobodyElseAsks
        <4> DEFINE call == [state |-> "collecting", on |-> session, result |-> <<>>]
        <4>3. coll' = [coll EXCEPT ![m.id] = call]
          BY <3>4 DEF AsksShell, Shell!SendCommandWithOutput
        <4> HIDE DEF call
        <4>4. \A id \in ShellCalls : id # m.id => coll'[id] = coll[id]
          BY <4>1, <4>3 DEF CollTyped
        <4> QED
          BY <4>2, <4>4 DEF OneCall, Shell!Open
      <3>5. CASE IsRejected(m) \/ handleSliceRequest(c, m)
        BY <3>3, <3>5 DEF IsRejected, handleSliceRequest
      <3> QED
        BY <3>1, <3>2, <3>3, <3>4, <3>5, WaysToServe
    <2>3. CASE ShellAnswers
      <3>1. CollTyped
        BY <1>2 DEF ServerInv, ServerTyped
      <3>2. \A id \in ShellCalls :
                \/ coll'[id].state = coll[id].state
                \/ coll'[id].state \in {"answered", "cutoff"}
        BY <2>3, <3>1, CallsOnlySettle DEF ShellAnswers
      <3> QED
        BY <2>1, <3>2
    <2>4. CASE ShellWorks \/ (\E c \in Clients : Connect(c) \/ Send(c)) \/ UNCHANGED vars
      <3>1. UNCHANGED coll
        BY <2>4 DEF ShellWorks, Shell!RExecute, Shell!RDies, Connect, Send, vars, shellVars
      <3> QED
        BY <2>1, <3>1
    <2> QED
      BY <1>2, <2>2, <2>3, <2>4 DEF Next
  <1>3. OneCall /\ OneCall' /\ ServerInv /\ SerialInv /\ [Next]_vars => SerialInv'
    BY StepKeepsSerial DEF OneAtATime
  <1> QED
    BY <1>1, <1>2, <1>3, InitEstablishesSerial, ServerInvariant, PTL DEF Spec

(* As long as no calls overlap at the shell that all connections share       *)
(* (FlowRServer gives each the same), answers fit: analyses and slices are   *)
(* of the files that were asked for, whichever clients ask.                  *)
THEOREM AnswersFitWithoutOverlap ==
    ASSUME Polite
    PROVE  Spec /\ []OneCall => [](AnalysesFit /\ SlicesFit)
  <1>1. SerialInv => AnalysesFit /\ SlicesFit
    BY DEF SerialInv, AllFit, AnswerFits, AnalysesFit, SlicesFit
  <1> QED
    BY <1>1, SerialInvariant, PTL

(* An analysis is answered for the file of its own request                   *)
(* (handleFileAnalysisRequest), although R may end in the midst of it: when  *)
(* clients wait and one of them asks the shell.                              *)
THEOREM AnalysesAreOfTheirFiles ==
    ASSUME OneAtATime
    PROVE  Spec => []AnalysesFit
  <1>1. Polite
    BY DEF OneAtATime
  <1> QED
    BY <1>1, AnswersFitWithoutOverlap, CallsDoNotOverlap, PTL

(* A slice is of the file its own client analysed last with the token        *)
(* (handleSliceRequest), although the token enters the file map before its   *)
(* analysis has run, and clients may use the same token: under the same      *)
(* condition.                                                                *)
THEOREM SlicesAreOfTheLastAnalysis ==
    ASSUME OneAtATime
    PROVE  Spec => []SlicesFit
  <1>1. Polite
    BY DEF OneAtATime
  <1> QED
    BY <1>1, AnswersFitWithoutOverlap, CallsDoNotOverlap, PTL

-----------------------------------------------------------------------------
(* R that ended by itself is not forgotten. *)
LEMMA CrashesStay ==
    ASSUME \A s \in Shell!Sessions : KeepsSilent(proc[s], proc'[s]), (Shell!Crashed = {})'
    PROVE  Shell!Crashed = {}
  BY DEF Shell!Crashed, Shell!Sessions, KeepsSilent

(* Only the end of R cuts a call off, and nothing else makes R end here. *)
LEMMA NobodyIsCutOff ==
    ASSUME ShellFits, CollTyped, ShellAnswers, Shell!Crashed = {}
    PROVE  \A id \in ShellCalls : coll'[id].state \in {coll[id].state, "answered"}
  <1>1. PICK s \in Shell!Sessions :
          \/ \E stream \in Shell!Streams : Shell!Deliver(s, stream)
          \/ Shell!ExitEvent(s)
          \/ Shell!StdinError(s)
    BY DEF ShellAnswers
  <1>2. proc[s].status # "dead"
    <2> SUFFICES ASSUME proc[s].status = "dead"
                 PROVE  FALSE
      OBVIOUS
    <2>1. /\ Serial!LifeFits(proc[s]) /\ Serial!Killed = {}
          /\ proc[s] \in Serial!SessionRecord /\ s \in Serial!Sessions
      BY SameShell DEF ShellFits, Serial!ShellInv, Serial!Counted, Serial!Typed
    <2>2. proc[s].code \in {"zero", "nonzero", "signal"}
      BY <2>1 DEF Serial!LifeFits, Serial!SessionRecord
    <2>3. proc[s].code # "signal"
      BY <2>1 DEF Serial!Killed
    <2> QED
      BY <2>2, <2>3 DEF Shell!Crashed
  <1>3. Shell!ExitEvent(s) \/ Shell!StdinError(s) => proc[s].status = "dead"
    BY SameShell DEF ShellFits, Serial!ShellInv, Serial!LifeFits, Shell!ExitEvent, Shell!StdinError
  <1>4. PICK stream \in Shell!Streams : Shell!Deliver(s, stream)
    BY <1>1, <1>2, <1>3
  <1>5. PICK lines :
           coll' = [id \in ShellCalls |->
                       IF id \in Shell!Hearers(s, stream)
                       THEN Shell!Collected(coll[id], lines) ELSE coll[id]]
    BY <1>4 DEF Shell!Deliver
  <1>6. ASSUME NEW id \in ShellCalls
        PROVE  coll'[id].state \in {coll[id].state, "answered"}
    <2>1. CASE id \in Shell!Hearers(s, stream)
      <3>1. coll[id] = [state |-> coll[id].state, on |-> coll[id].on, result |-> coll[id].result]
        BY DEF CollTyped
      <3>2. Shell!Collected(coll[id], lines).state \in {"answered", coll[id].state}
        BY <3>1, CollectorShape
      <3> QED
        BY <1>5, <2>1, <3>2
    <2>2. CASE id \notin Shell!Hearers(s, stream)
      BY <1>5, <2>2
    <2> QED
      BY <2>1, <2>2
  <1> QED
    BY <1>6

(* No answer of R ends the server: a command is for a file that parses. *)
LEMMA HearingKeepsUp ==
    ASSUME FilesParse, ServerInv, ShellFits, UpInv, Shell!Crashed = {},
           ResultsFit', ShellAnswers
    PROVE  /\ up'
           /\ \A id \in ShellCalls : coll'[id].state # "cutoff"
  <1>1. \A id \in ShellCalls : coll'[id].state # "cutoff"
    BY NobodyIsCutOff DEF UpInv, ServerInv, ServerTyped
  <1>2. ASSUME NEW id \in ShellCalls, coll'[id].state \in {"answered", "cutoff"},
               Msg(id).type = "command", Parsed(coll'[id].result) = None
        PROVE  FALSE
    <2>1. coll'[id].result = Shell!Own(id)
      BY <1>1, <1>2 DEF ResultsFit
    <2>2. Msg(id) \in AllMessages
      <3>1. id \in Requests
        BY DEF ShellCalls, Requests
      <3>2. PICK c \in Clients : \E i \in 1 .. Len(Script[c]) : Msg(id) = Script[c][i]
        BY <3>1, WhoAsked
      <3> QED
        BY <3>2, Scripts
    <2>3. Parses(Msg(id))
      BY <1>2, <2>2 DEF FilesParse
    <2>4. Parsed(Shell!Own(id)) = Msg(id).file
      BY <1>2, <2>3, ParsedOwn DEF Parses
    <2> QED
      BY <1>2, <2>1, <2>3, <2>4 DEF Parses
  <1>3. up'
    BY <1>2 DEF ShellAnswers, Continue
  <1> QED
    BY <1>1, <1>3

(* The analysis that a slice request names has done its file stage. *)
LEMMA SlicedIsParsed ==
    ASSUME FilesParse, ServerInv, SerialInv, \A id \in ShellCalls : coll[id].state # "cutoff",
           NEW c \in Clients, Stream(c) # <<>>,
           NEW m, m = Script[c][sent[c]], m.type = "slice", fileMap[c][m.token] # None
    PROVE  ~ (slicer[fileMap[c][m.token]].counter < 3)
  <1>1. PICK last \in EarlierAnalyses(m.id) :
              /\ \A i \in EarlierAnalyses(m.id) : i <= last
              /\ ClientOf(m.id) = c /\ last \in 1 .. sent[c] - 1
              /\ last \in 1 .. Len(Script[c])
              /\ fileMap[c][m.token] = Script[c][last].id
              /\ Script[c][last].type = "analysis"
    BY SliceOfToken
  <1>2. PICK id \in Requests : id = Script[c][last].id /\ Msg(id) = Script[c][last]
    BY <1>1, Scripts
  <1>3. Answered(id)
    <2>1. Done(Script[c][last])
      BY <1>1 DEF SerialInv, Waits
    <2> QED
      BY <1>1, <1>2, <2>1 DEF Done
  <1>4. ~ NoFinal(answers[id])
    BY <1>3 DEF Answered, NoFinal, IsFinal
  <1>5. id \in ShellCalls
    BY <1>1, <1>2, WhatAsks
  <1>6. Asks(id, "answered")
    <2>1. coll[id].state \in Serial!CollectorStates /\ coll[id].state # "timedout"
      BY <1>5 DEF SerialInv, ShellFits, Serial!ShellInv, Serial!Typed
    <2>2. ~ Asks(id, "idle") /\ ~ Asks(id, "collecting")
      BY <1>4 DEF SerialInv, SlicersFit, ServerInv
    <2> QED
      BY <1>5, <2>1, <2>2 DEF Asks, Serial!CollectorStates
  <1>7. Parses(Msg(id))
    <2>1. m \in AllMessages
      <3>1. sent[c] \in 1 .. Len(Script[c])
        BY TakenFits DEF SerialInv
      <3> QED
        BY <3>1, Scripts
    <2> QED
      BY <1>1, <1>2, <2>1 DEF FilesParse
  <1>8. slicer[id].counter # 0 /\ slicer[id].counter \in {0, 3, 5}
    BY <1>1, <1>2, <1>6, <1>7 DEF SerialInv, SlicersFit, ServerInv, ServerTyped
  <1> QED
    BY <1>1, <1>2, <1>8

(* No message ends the server. *)
LEMMA ReceivingKeepsUp ==
    ASSUME OneCall', FilesParse, ServerInv, SerialInv, UpInv, NEW c \in Clients, handleData(c)
    PROVE  UpInv'
  <1>1. /\ Stream(c) # <<>>
        /\ \/ UNCHANGED <<up, socket, fileMap, slicer, answers, anonymous, shellVars>>
           \/ Served(c, Script[c][sent[c]])
    BY OneMessageAtATime DEF SerialInv
  <1>2. CASE UNCHANGED <<up, shellVars>>
    BY <1>2 DEF UpInv, Shell!Crashed, Shell!Sessions, shellVars
  <1>3. CASE Served(c, Script[c][sent[c]])
    <2>1. PICK m : m = Script[c][sent[c]]
      OBVIOUS
    <2> SUFFICES ASSUME (Shell!Crashed = {})'
                 PROVE  up' /\ \A id \in ShellCalls : coll'[id].state # "cutoff"
      BY DEF UpInv
    <2>2. Shell!Crashed = {}
      <3>1. \A s \in Shell!Sessions : KeepsSilent(proc[s], proc'[s])
        BY <1>1, <1>3, <2>1, ServingFits
      <3> QED
        BY <3>1, CrashesStay
    <2>3. up /\ \A id \in ShellCalls : coll[id].state # "cutoff"
      BY <2>2 DEF UpInv
    <2>4. CASE AsksShell(c, m)
      <3> DEFINE call == [state |-> "collecting", on |-> session, result |-> <<>>]
      <3>1. coll' = [coll EXCEPT ![m.id] = call] /\ call.state = "collecting" /\ UNCHANGED up
        BY <2>4 DEF AsksShell, Shell!SendCommandWithOutput
      <3>2. CollTyped
        BY DEF ServerInv, ServerTyped
      <3> HIDE DEF call
      <3> QED
        BY <2>3, <3>1, <3>2 DEF CollTyped
    <2>5. CASE IsRejected(m)
      BY <2>3, <2>5 DEF IsRejected, shellVars
    <2>6. CASE handleSliceRequest(c, m)
      <3>1. m.type = "slice" /\ UNCHANGED coll
        BY <2>6 DEF handleSliceRequest, shellVars
      <3>2. fileMap[c][m.token] # None => ~ (slicer[fileMap[c][m.token]].counter < 3)
        BY <1>1, <2>1, <2>3, <3>1, SlicedIsParsed
      <3>3. UNCHANGED up
        BY <2>6, <3>2 DEF handleSliceRequest
      <3> QED
        BY <2>3, <3>1, <3>3
    <2> QED
      BY <1>3, <2>1, <2>4, <2>5, <2>6, WaysToServe
  <1> QED
    BY <1>1, <1>2, <1>3 DEF shellVars

(* As long as R lives no message ends the server process, when all that is   *)
(* asked for parses (handleSliceRequest and handleRepl throw otherwise) and  *)
(* no calls overlap.                                                         *)
THEOREM ServerStaysUpWithoutOverlap ==
    ASSUME Polite, FilesParse
    PROVE  Spec /\ []OneCall => []ServerStaysUp
  <1>1. Init => UpInv
    <2> SUFFICES ASSUME Init
                 PROVE  UpInv
      OBVIOUS
    <2>1. \A id \in ShellCalls : coll[id].state = "idle"
      BY DEF Init, Shell!Init
    <2> QED
      BY <2>1 DEF Init, UpInv
  <1>2. ASSUME ShellFits', ServerInv, SerialInv, UpInv, ShellAnswers
        PROVE  UpInv'
    <2>1. (ShellFits => ResultsFit)'
      BY SerialResultsFit, PTL
    <2>2. ASSUME (Shell!Crashed = {})'
          PROVE  up' /\ \A id \in ShellCalls : coll'[id].state # "cutoff"
      <3>1. ShellFits /\ CollTyped
        BY <1>2 DEF SerialInv, ServerInv, ServerTyped
      <3>2. Shell!Crashed = {}
        BY <1>2, <2>2, <3>1, ShellAnswersFit, CrashesStay
      <3> QED
        BY <1>2, <2>1, <3>1, <3>2, HearingKeepsUp
    <2> QED
      BY <2>2 DEF UpInv
  <1>3. OneCall' /\ ServerInv /\ SerialInv /\ UpInv /\ [Next]_vars => UpInv'
    <2> SUFFICES ASSUME OneCall', ServerInv, SerialInv, UpInv, [Next]_vars
                 PROVE  UpInv'
      OBVIOUS
    <2>1. CASE \E c \in Clients : handleData(c)
      BY <2>1, ReceivingKeepsUp
    <2>2. CASE ShellAnswers
      BY <1>2, <2>2, ShellAnswersFit DEF SerialInv, ServerInv, ServerTyped
    <2>3. CASE ShellWorks
      <3>1. \A s \in Shell!Sessions : KeepsSilent(proc[s], proc'[s])
        BY <2>3, ShellWorksFits DEF SerialInv
      <3>2. UNCHANGED <<up, coll>>
        BY <2>3 DEF ShellWorks, Shell!RExecute, Shell!RDies
      <3> QED
        BY <3>1, <3>2, CrashesStay DEF UpInv
    <2>4. CASE (\E c \in Clients : Connect(c) \/ Send(c)) \/ UNCHANGED vars
      <3>1. UNCHANGED <<up, coll, proc>>
        BY <2>4 DEF Connect, Send, vars, shellVars
      <3> QED
        BY <3>1 DEF UpInv, Shell!Crashed, Shell!Sessions
    <2> QED
      BY <2>1, <2>2, <2>3, <2>4 DEF Next
  <1>4. UpInv => ServerStaysUp
    BY DEF UpInv, ServerStaysUp
  <1> QED
    BY <1>1, <1>3, <1>4, ServerInvariant, SerialInvariant, PTL DEF Spec

(* The same, with nothing but the scripts to say that no calls overlap. *)
THEOREM ServerStaysUpWithR ==
    ASSUME OneAtATime, FilesParse
    PROVE  Spec => []ServerStaysUp
  <1>1. Polite
    BY DEF OneAtATime
  <1> QED
    BY <1>1, ServerStaysUpWithoutOverlap, CallsDoNotOverlap, PTL

=============================================================================
