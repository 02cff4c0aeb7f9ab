------------------------------ MODULE FlowRServer ------------------------------
(***************************************************************************)
(* FlowRServer and FlowRServerConnection (src/cli/repl/server/): clients   *)
(* send messages over a socket, each terminated by a newline; the server   *)
(* analyses files with a stepping slicer per request, slices the files it  *)
(* remembers by token, and executes expressions. All connections share one *)
(* RShell, which is the module RShell here.                                *)
(*                                                                         *)
(* Of an analysis only the parse step leaves the event loop: it asks the   *)
(* shell. What follows it runs in the microtasks of the shell's answer.    *)
(***************************************************************************)
EXTENDS Naturals, Sequences, FiniteSets

CONSTANTS
    Clients,      \* clients of the server
    Script,       \* of every client: the messages it sends, in order
    Polite,       \* does a client wait for the answer to its last message?
    Unparseable,  \* files the parse step fails for
    MaxCrashes    \* bound on R processes that end by themselves

None == "none"

MessageTypes == {"analysis", "slice", "expression", "command",
                 "invalid", "unsupported", "garbage"}

AllMessages == UNION {{Script[c][i] : i \in 1 .. Len(Script[c])} : c \in Clients}

Requests == {m.id : m \in AllMessages}

Msg(id) == CHOOSE m \in AllMessages : m.id = id

ClientOf(id) == CHOOSE c \in Clients : \E i \in 1 .. Len(Script[c]) : Script[c][i].id = id

Tokens == {m.token : m \in AllMessages} \ {None}

(* The requests that ask the shell: the parse step of an analysis or of a    *)
(* command like :dataflow, and expressions, which are sent to R.             *)
ShellCalls == {m.id : m \in {n \in AllMessages :
                                n.type \in {"analysis", "expression", "command"}}}

ASSUME ServerAssumption ==
    /\ Script \in [Clients -> Seq(AllMessages)]
    /\ \A m \in AllMessages : /\ m.type \in MessageTypes /\ m.id # None
                              /\ m.type = "slice" => m.token # None
    /\ \A c, d \in Clients : \A i \in 1 .. Len(Script[c]), j \in 1 .. Len(Script[d]) :
          Script[c][i].id = Script[d][j].id => c = d /\ i = j
    /\ Polite \in BOOLEAN
    /\ MaxCrashes \in Nat

VARIABLES
    up,         \* whether the server process lives
    sent,       \* of every client: how many messages it has sent
    wire,       \* of every client: fragments on their way to the server
    buffer,     \* currentMessageBuffer of every connection
    socket,     \* of every client: "new", "open", or "ended" by the server
    fileMap,    \* of every connection and token: the analysis it stands for, or None
    slicer,     \* of every analysis: the stepCounter of its slicer and the file parsed
    answers,    \* of every request: the messages sent to answer it
    anonymous,  \* of every client: error messages it got without an id
    session, proc, coll, started, strays, versionCache, tempDirs, closing  \* of RShell

shellVars == <<session, proc, coll, started, strays, versionCache, tempDirs, closing>>
connVars == <<sent, wire, buffer, socket, fileMap>>
vars == <<up, connVars, slicer, answers, anonymous, shellVars>>

Shell == INSTANCE RShell WITH
    Calls <- ShellCalls,
    StderrCalls <- {},
    BothCalls <- {m.id : m \in {n \in AllMessages : n.type = "expression"}},
    VersionCalls <- {},
    TmpDirCalls <- {},
    OutLines <- 1,
    ErrLines <- 0,
    Revive <- "always",
    MaxOpen <- Cardinality(ShellCalls),
    TimeoutsFire <- FALSE,
    MayClose <- FALSE

-----------------------------------------------------------------------------
(* Plausible slips in the server, used to test the properties.              *)

(* The number of steps of the file stage is miscounted by one.               *)
CountAfterShort(file) == IF file = None THEN 0 ELSE 2

(* updateCriterion does not look whether the file stage is done.             *)
CountAfterUnguarded(file) == 3

(* Tokens are shared by all connections.                                     *)
RememberForAll(c, m) ==
    IF m.token = None THEN fileMap ELSE [d \in Clients |-> [fileMap[d] EXCEPT ![m.token] = m.id]]

(* The fragments received before are forgotten.                              *)
ReceivedWithoutBuffer(c, chunk) == chunk

(* R writes the parse of an earlier request again.                           *)
ParsedStale(result) ==
    IF result = <<>> THEN None
    ELSE (CHOOSE m \in AllMessages : m.type = "analysis" /\ m.file \notin Unparseable).file

(* The error of an analysis is sent, and its answer after it.                *)
AnalysisAnswerGoesOn(file) ==
    LET answer == [kind |-> "analysis", file |-> file, criterion |-> None]
    IN  IF file = None THEN << [answer EXCEPT !.kind = "error"], answer >> ELSE << answer >>

-----------------------------------------------------------------------------
Init ==
    /\ up = TRUE
    /\ sent = [c \in Clients |-> 0]
    /\ wire = [c \in Clients |-> <<>>]
    /\ buffer = [c \in Clients |-> <<>>]
    /\ socket = [c \in Clients |-> "new"]
    /\ fileMap = [c \in Clients |-> [t \in Tokens |-> None]]
    /\ slicer = [id \in Requests |-> [counter |-> 0, file |-> None]]
    /\ answers = [id \in Requests |-> <<>>]
    /\ anonymous = [c \in Clients |-> 0]
    /\ Shell!Init

Finals == {"analysis", "slice", "end", "error"}

Answered(id) == \E i \in 1 .. Len(answers[id]) : answers[id][i].kind \in Finals

(* A client connects; onConnect greets it and makes its connection. *)
Connect(c) ==
    /\ up
    /\ socket[c] = "new"
    /\ socket' = [socket EXCEPT ![c] = "open"]
    /\ UNCHANGED <<up, sent, wire, buffer, fileMap, slicer, answers, anonymous, shellVars>>

(* A client sends its next message: two fragments, the second with the newline. *)
Send(c) ==
    /\ up
    /\ socket[c] = "open"
    /\ sent[c] < Len(Script[c])
    /\ Polite /\ sent[c] > 0 =>
          \/ Answered(Script[c][sent[c]].id)
          \/ Script[c][sent[c]].type = "garbage" /\ wire[c] = <<>>
    /\ sent' = [sent EXCEPT ![c] = @ + 1]
    /\ wire' = [wire EXCEPT ![c] =
                  @ \o << [id |-> Script[c][sent[c] + 1].id, newline |-> FALSE],
                          [id |-> Script[c][sent[c] + 1].id, newline |-> TRUE] >>]
    /\ UNCHANGED <<up, buffer, socket, fileMap, slicer, answers, anonymous, shellVars>>

-----------------------------------------------------------------------------
(* What is known once the shell has answered a call.                        *)

(* The file a collected output is the parse of; None if it is no parse, or  *)
(* the parse failed: lines of other commands, the marker of an error, or    *)
(* nothing at all make the parse or the normalize step throw.               *)
Parsed(result) ==
    LET of == {m \in AllMessages : /\ m.type \in {"analysis", "command"}
                                   /\ m.file \notin Unparseable
                                   /\ result = Shell!Own(m.id)}
    IN  IF of = {} THEN None ELSE (CHOOSE m \in of : TRUE).file

(* The step counter of a slicer after all steps of the file stage; zero     *)
(* stands for the step that failed, whichever it is.                        *)
CountAfter(file) == IF file = None THEN 0 ELSE 3

(* The messages the handlers of an analysis send.                           *)
AnalysisAnswer(file) ==
    IF file = None THEN << [kind |-> "error", file |-> None, criterion |-> None] >>
                   ELSE << [kind |-> "analysis", file |-> file, criterion |-> None] >>

ReplAnswer ==
    << [kind |-> "output", file |-> None, criterion |-> None],
       [kind |-> "end", file |-> None, criterion |-> None] >>

(* sendMessage: nothing reaches a client whose socket the server has ended. *)
Deliverable(id, messages) == IF socket[ClientOf(id)] = "open" THEN messages ELSE <<>>

(* The continuations of the requests whose shell calls have just settled. A *)
(* command whose parse throws rejects a promise nobody handles: the process *)
(* ends.                                                                    *)
Continue ==
    LET settled == {id \in ShellCalls : /\ coll[id].state = "collecting"
                                        /\ coll'[id].state \in {"answered", "cutoff"}}
        FileOf(id) == Parsed(coll'[id].result)
    IN  /\ up' = ~ \E id \in settled : Msg(id).type = "command" /\ FileOf(id) = None
        /\ slicer' = [id \in Requests |->
              IF id \in settled /\ Msg(id).type = "analysis"
              THEN [counter |-> CountAfter(FileOf(id)), file |-> FileOf(id)]
              ELSE slicer[id]]
        /\ answers' = [id \in Requests |->
              IF id \in settled
              THEN answers[id] \o Deliverable(id, IF Msg(id).type = "analysis"
                                                  THEN AnalysisAnswer(FileOf(id))
                                                  ELSE ReplAnswer)
              ELSE answers[id]]

(* R executes a command, or ends. *)
ShellWorks ==
    /\ up
    /\ \E s \in Shell!Sessions :
          \/ Shell!RExecute(s)
          \/ \E code \in {"zero", "nonzero", "signal"} : Shell!RDies(s, code)
    /\ UNCHANGED <<up, connVars, slicer, answers, anonymous>>

(* The server hears of it. *)
ShellAnswers ==
    /\ up
    /\ \E s \in Shell!Sessions :
          \/ \E stream \in Shell!Streams : Shell!Deliver(s, stream)
          \/ Shell!ExitEvent(s)
          \/ Shell!StdinError(s)
    /\ Continue
    /\ UNCHANGED <<connVars, anonymous>>

-----------------------------------------------------------------------------
(* The handlers of handleData. Each gets the connection and the message.    *)

Answer(id, messages) ==
    answers' = [answers EXCEPT ![id] = @ \o Deliverable(id, messages)]

Error == [kind |-> "error", file |-> None, criterion |-> None]

(* createSteppingSlicerForRequest remembers the slicer before it has run.   *)
Remember(c, m) ==
    IF m.token = None THEN fileMap ELSE [fileMap EXCEPT ![c][m.token] = m.id]

handleFileAnalysisRequest(c, m) ==
    /\ m.type = "analysis"
    /\ fileMap' = Remember(c, m)
    /\ Shell!SendCommandWithOutput(m.id)
    /\ UNCHANGED <<up, socket, slicer, answers, anonymous>>

(* The answer to a slice request of a slicer that has done its file stage.  *)
SliceAnswer(id, m) ==
    [kind |-> "slice", file |-> slicer[id].file, criterion |-> m.criterion]

(* updateCriterion throws while the file stage is not done, in the handler  *)
(* of the data event, where nothing catches it: the process ends.           *)
handleSliceRequest(c, m) ==
    /\ m.type = "slice"
    /\ LET id == fileMap[c][m.token]
       IN  \/ /\ id = None
              /\ Answer(m.id, <<Error>>)
              /\ UNCHANGED <<up, slicer>>
           \/ /\ id # None
              /\ slicer[id].counter < 3
              /\ up' = FALSE
              /\ UNCHANGED <<slicer, answers>>
           \/ /\ id # None
              /\ slicer[id].counter >= 3
              /\ m.criterion = "unknown"
              /\ slicer' = [slicer EXCEPT ![id].counter = 3]
              /\ Answer(m.id, <<Error>>)
              /\ UNCHANGED up
           \/ /\ id # None
              /\ slicer[id].counter >= 3
              /\ m.criterion # "unknown"
              /\ slicer' = [slicer EXCEPT ![id].counter = 5]
              /\ Answer(m.id, <<SliceAnswer(id, m)>>)
              /\ UNCHANGED up
    /\ UNCHANGED <<socket, fileMap, anonymous, shellVars>>

handleRepl(c, m) ==
    /\ m.type \in {"expression", "command"}
    /\ Shell!SendCommandWithOutput(m.id)
    /\ UNCHANGED <<up, socket, fileMap, slicer, answers, anonymous>>

(* A message that fails the schema of its type. *)
answerForValidationError(c, m) ==
    /\ m.type = "invalid"
    /\ Answer(m.id, <<Error>>)
    /\ UNCHANGED <<up, socket, fileMap, slicer, anonymous, shellVars>>

(* A message of an unknown type ends the connection. *)
RejectType(c, m) ==
    /\ m.type = "unsupported"
    /\ Answer(m.id, <<Error>>)
    /\ socket' = [socket EXCEPT ![c] = "ended"]
    /\ UNCHANGED <<up, fileMap, slicer, anonymous, shellVars>>

(* Text that is not one message is answered by an error without an id. *)
RejectText(c) ==
    /\ anonymous' = [anonymous EXCEPT ![c] = @ + 1]
    /\ UNCHANGED <<up, socket, fileMap, slicer, answers, shellVars>>

(* What handleData looks at when a chunk arrives. *)
Received(c, chunk) == buffer[c] \o chunk

(* The text between two fragments is one message only if they are its own.  *)
IsOneMessage(text) == Len(text) = 2 /\ Msg(text[1].id).type # "garbage"

(* The data event: a chunk is any number of the fragments on the wire. It is *)
(* buffered if it does not end in a newline, else taken as one message.      *)
handleData(c) ==
    /\ up
    /\ \E n \in 1 .. Len(wire[c]) :
          LET text == Received(c, SubSeq(wire[c], 1, n))
          IN  /\ wire' = [wire EXCEPT ![c] = SubSeq(@, n + 1, Len(@))]
              /\ \/ /\ ~ wire[c][n].newline
                    /\ buffer' = [buffer EXCEPT ![c] = text]
                    /\ UNCHANGED <<up, socket, fileMap, slicer, answers, anonymous, shellVars>>
                 \/ /\ wire[c][n].newline
                    /\ buffer' = [buffer EXCEPT ![c] = <<>>]
                    /\ IF IsOneMessage(text)
                       THEN LET m == Msg(text[1].id)
                            IN  \/ handleFileAnalysisRequest(c, m)
                                \/ handleSliceRequest(c, m)
                                \/ handleRepl(c, m)
                                \/ answerForValidationError(c, m)
                                \/ RejectType(c, m)
                       ELSE RejectText(c)
    /\ UNCHANGED sent

Next ==
    \/ \E c \in Clients : Connect(c) \/ Send(c) \/ handleData(c)
    \/ ShellWorks
    \/ ShellAnswers

Spec == Init /\ [][Next]_vars

(* Clients send what they have to; sockets, R and the event loop make progress. *)
Fairness ==
    /\ \A c \in Clients : WF_vars(Connect(c)) /\ WF_vars(Send(c)) /\ WF_vars(handleData(c))
    /\ WF_vars(ShellWorks)
    /\ WF_vars(ShellAnswers)

FairSpec == Spec /\ Fairness

-----------------------------------------------------------------------------
Replies == [kind : Finals \cup {"output"}, file : {m.file : m \in AllMessages} \cup {None},
            criterion : {m.criterion : m \in AllMessages} \cup {None}]

(* Type invariant of the server and its connections. *)
TypeOK ==
    /\ up \in BOOLEAN
    /\ \A c \in Clients :
          /\ socket[c] \in {"new", "open", "ended"}
          /\ \A t \in Tokens : fileMap[c][t] \in Requests \cup {None}
    /\ \A id \in Requests :
          /\ slicer[id].counter \in {0, 3, 5}
          /\ \A i \in 1 .. Len(answers[id]) : answers[id][i] \in Replies
    /\ Shell!TypeOK

(* No request is answered twice.                                             *)
AnsweredOnce ==
    \A id \in Requests :
        Cardinality({i \in 1 .. Len(answers[id]) : answers[id][i].kind \in Finals}) <= 1

(* The answer to an analysis describes the file of the request.              *)
AnalysesFit ==
    \A id \in Requests : \A i \in 1 .. Len(answers[id]) :
        answers[id][i].kind = "analysis" => answers[id][i].file = Msg(id).file

(* The analyses of the token that its client sent before the slice request id. *)
EarlierAnalyses(id) ==
    LET c == ClientOf(id)
        here == CHOOSE i \in 1 .. Len(Script[c]) : Script[c][i].id = id
    IN  {i \in 1 .. here - 1 : /\ Script[c][i].type = "analysis"
                               /\ Script[c][i].token = Msg(id).token}

(* The answer to a slice request is a slice, for the criterion asked for, of *)
(* the file that its own client last analysed with the token.                *)
SlicesFit ==
    \A id \in Requests : \A i \in 1 .. Len(answers[id]) :
        answers[id][i].kind = "slice" =>
            /\ answers[id][i].criterion = Msg(id).criterion
            /\ \E last \in EarlierAnalyses(id) :
                  /\ \A j \in EarlierAnalyses(id) : j <= last
                  /\ answers[id][i].file = Script[ClientOf(id)][last].file

(* No message ends the server process, as long as R lives.                   *)
ServerStaysUp == Shell!Crashed = {} => up

(* Every request of a client that was sent so far has its answer (garbage is *)
(* answered by an error without id), or the connection was ended for one of  *)
(* an unsupported type.                                                      *)
AllAnswered(c) ==
    \/ socket[c] = "ended"
    \/ \A i \in 1 .. sent[c] : Script[c][i].type = "garbage" \/ Answered(Script[c][i].id)

(* Every request is answered as long as the server lives. (A request that is *)
(* never answered would keep AllAnswered false for ever.)                    *)
AnsweredWhileUp == \A c \in Clients : (sent[c] > 0) ~> (AllAnswered(c) \/ ~ up)

=============================================================================
