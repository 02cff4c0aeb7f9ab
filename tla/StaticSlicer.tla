----------------------------- MODULE StaticSlicer -----------------------------
(***************************************************************************)
(* staticSlicing (src/slicing/static/static-slicer.ts): a backward walk    *)
(* over the dataflow graph of a program. A node is visited once for every  *)
(* environment it is reached in, which tells apart the calls of a          *)
(* function; a node added more often than a threshold allows is skipped.   *)
(*                                                                         *)
(* The environments are values here (EnvironmentHeap models how the code   *)
(* shares them), and so is the hash of an environment. The targets of a    *)
(* node are added in any order, that of the graph's maps being arbitrary.  *)
(***************************************************************************)
EXTENDS Environments, FiniteSets

CONSTANTS
    Ids,            \* the nodes of the normalized AST
    Parent,         \* of every id: its parent in the AST, or NoParent
    Guard,          \* of every id: the nodes of its condition or loop variable
    Vertices,       \* the ids that are vertices of the dataflow graph
    Edges,          \* its edges: from, to and type
    Calls,          \* of every function call: its name and its environment
    Definitions,    \* of every function definition: its open reads, its exit points
    CriteriaLists,  \* lists of slicing criteria, decoded to ids
    Thresholds      \* values of the parameter threshold

NoParent == 0

ASSUME ThresholdAssumption == Thresholds \subseteq Nat

VARIABLES
    decodedCriteria,    \* what is asked for
    threshold,          \* how often a node may be added before it is skipped
    pending,            \* additions the current visit has still to make
    queue,              \* nodes to visit, the next one last
    seen,               \* the nodes put into the queue so far
    idThreshold,        \* how often an id was added, if it was
    timesHitThreshold

vars == <<decodedCriteria, threshold, pending, queue, seen, idThreshold, timesHitThreshold>>

(* NodeToSlice *)
Node(id, env, onlyForSideEffects) ==
    [id |-> id, env |-> env, onlyForSideEffects |-> onlyForSideEffects]

(* An addition: the node to add, and what it is added for (a node may be    *)
(* added more than once in a visit, which counts).                          *)
Addition(node, by, nr) == [node |-> node, by |-> by, nr |-> nr]

-----------------------------------------------------------------------------
(* Plausible slips in the slicer, used to test the properties.              *)

(* The hash of a node leaves out its environment.                           *)
FingerprintWithoutEnv(node) ==
    Node(node.id, initializeCleanEnvironments, node.onlyForSideEffects)

(* The threshold is taken as the number of additions.                      *)
SkippedOneEarly(id) ==
    IF id \in DOMAIN idThreshold THEN idThreshold[id] >= threshold ELSE threshold = 0

(* next leaves the node in the queue.                                       *)
Peeked == queue

(* A call is resolved in its own environment, whatever called it.           *)
ActiveFromCallOnly(call, env) == call.env

-----------------------------------------------------------------------------
(* The dataflow graph and the AST.                                          *)

Targets(id, types) == {e.to : e \in {f \in Edges : f.from = id /\ f.type \in types}}

(* What getAllLinkedFunctionDefinitions follows: what a call returns, else  *)
(* what a node reads and is defined by.                                     *)
Links(id) ==
    IF Targets(id, {"returns"}) # {} THEN Targets(id, {"returns"})
    ELSE Targets(id, {"reads", "defined-by", "defined-by-on-call", "relates"})

Linked(start) ==
    LET within[k \in 0 .. Cardinality(Vertices)] ==
            IF k = 0 THEN start
            ELSE UNION {{id} \cup (IF id \in Vertices THEN Links(id) ELSE {}) : id \in within[k - 1]}
    IN  within[Cardinality(Vertices)]

getAllLinkedFunctionDefinitions(start) ==
    {id \in Linked(start) \cap DOMAIN Definitions : Targets(id, {"returns"}) = {}}

(* An environment with enough local scopes to be on the level.              *)
OnLevel(level, env) ==
    [i \in 1 .. level + 1 |->
        IF i <= level - Level(env) THEN EmptyFrame ELSE env[i - (level - Level(env))]]

retrieveActiveEnvironment(call, env) ==
    LET level == IF Level(env) < Level(call.env) THEN Level(call.env) ELSE Level(env)
    IN  overwriteEnvironments(OnLevel(level, env), OnLevel(level, call.env))

(* sliceForCall: what the called functions read from where they are called, *)
(* and where they return.                                                   *)
CallAdditions(node) ==
    LET active == retrieveActiveEnvironment(Calls[node.id], node.env)
        called == getAllLinkedFunctionDefinitions(
                      Nodes(resolveByName(Calls[node.id].name, active))
                          \cup Targets(node.id, {"calls"}))
    IN  UNION {
          UNION {{Addition(Node(d.node, node.env, node.onlyForSideEffects), "open read", f) :
                    d \in resolveByName(name, active)} : name \in Definitions[f].in}
          \cup {Addition(Node(exit, active, node.onlyForSideEffects), "exit point", f) :
                    exit \in Definitions[f].exitPoints} : f \in called}

Followed == {"reads", "defined-by", "argument", "calls", "relates", "defines-on-call"}

EdgeAdditions(node) ==
    {Addition(Node(to, node.env, TRUE), "side effect", 0) :
        to \in Targets(node.id, {"side-effect-on-call"})}
    \cup {Addition(Node(to, node.env, FALSE), "edge", 0) : to \in Targets(node.id, Followed)}

(* The conditions and loop variables of all ifs and loops around a node.    *)
addControlDependencies(id) ==
    LET around[a \in Ids \cup {NoParent}] ==
            IF a = NoParent THEN {} ELSE Guard[a] \cup around[Parent[a]]
    IN  around[id]

ControlAdditions(node) ==
    {Addition(Node(id, node.env, FALSE), "control", 0) : id \in addControlDependencies(node.id)}

(* All that a visit adds; nothing if the graph does not have the node.      *)
Additions(node) ==
    IF node.id \notin Vertices THEN {}
    ELSE EdgeAdditions(node) \cup ControlAdditions(node)
         \cup IF node.id \in DOMAIN Calls /\ ~ node.onlyForSideEffects THEN CallAdditions(node)
                                                                      ELSE {}

-----------------------------------------------------------------------------
(* Every criterion is added in the clean environment.                       *)
SeedAdditions(criteria) ==
    {Addition(Node(criteria[i], initializeCleanEnvironments, FALSE), "criterion", i) :
        i \in 1 .. Len(criteria)}

Init ==
    /\ decodedCriteria \in CriteriaLists
    /\ threshold \in Thresholds
    /\ pending = SeedAdditions(decodedCriteria)
    /\ queue = <<>>
    /\ seen = {}
    /\ idThreshold = <<>>
    /\ timesHitThreshold = 0

fingerprint(node) == node

Skipped(id) == id \in DOMAIN idThreshold /\ idThreshold[id] > threshold

Counted(id) ==
    [i \in DOMAIN idThreshold \cup {id} |->
        IF i \notin DOMAIN idThreshold THEN 1
        ELSE IF i = id THEN idThreshold[i] + 1 ELSE idThreshold[i]]

(* VisitingQueue.add *)
Add ==
    \E a \in pending :
        /\ pending' = pending \ {a}
        /\ \/ /\ Skipped(a.node.id)
              /\ timesHitThreshold' = timesHitThreshold + 1
              /\ UNCHANGED <<queue, seen, idThreshold>>
           \/ /\ ~ Skipped(a.node.id)
              /\ idThreshold' = Counted(a.node.id)
              /\ IF fingerprint(a.node) \in seen THEN UNCHANGED <<queue, seen>>
                 ELSE /\ seen' = seen \cup {fingerprint(a.node)}
                      /\ queue' = Append(queue, a.node)
              /\ UNCHANGED timesHitThreshold
        /\ UNCHANGED <<decodedCriteria, threshold>>

(* The queue without the node taken from its end.                           *)
Popped == SubSeq(queue, 1, Len(queue) - 1)

(* One round of the loop of staticSlicing.                                  *)
Visit ==
    /\ pending = {}
    /\ queue # <<>>
    /\ pending' = Additions(queue[Len(queue)])
    /\ queue' = Popped
    /\ UNCHANGED <<decodedCriteria, threshold, seen, idThreshold, timesHitThreshold>>

Next == Add \/ Visit

Spec == Init /\ [][Next]_vars

(* The walk is one synchronous call: it goes on until it is done.           *)
FairSpec == Spec /\ WF_vars(Next)

Done == pending = {} /\ queue = <<>>

result == {n.id : n \in seen}

-----------------------------------------------------------------------------
(* Type invariant; a node is counted when it is queued, never beyond the    *)
(* threshold and one.                                                       *)
TypeOK ==
    /\ DOMAIN idThreshold \subseteq Ids \cup {BuiltIn}
    /\ \A id \in DOMAIN idThreshold : idThreshold[id] \in 1 .. threshold + 1
    /\ timesHitThreshold \in Nat
    /\ \A i \in 1 .. Len(queue) : queue[i] \in seen
    /\ result \subseteq DOMAIN idThreshold

(* A slice that never hit the threshold is complete: it has the criteria,   *)
(* and with a node, in the environment it was reached in, all the node adds.*)
SliceIsComplete ==
    Done /\ timesHitThreshold = 0 =>
        /\ \A a \in SeedAdditions(decodedCriteria) : a.node \in seen
        /\ \A n \in seen : \A a \in Additions(n) : a.node \in seen

(* The threshold leaves out contexts, never nodes: whatever a visited node  *)
(* adds is in the slice, even if not for every environment.                 *)
ThresholdKeepsNodes ==
    Done => /\ \A i \in 1 .. Len(decodedCriteria) : decodedCriteria[i] \in result
            /\ \A n \in seen : \A a \in Additions(n) : a.node.id \in result

(* The threshold is hit when the same node was visited too often (the       *)
(* comment of SliceResult): in more environments than the threshold.        *)
HitsAreVisits ==
    timesHitThreshold > 0 =>
        \E id \in result : Cardinality({n \in seen : n.id = id}) > threshold

(* The walk ends, for every graph: recursion included.                      *)
Terminates == <>Done

=============================================================================
