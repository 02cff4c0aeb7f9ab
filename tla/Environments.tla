----------------------------- MODULE Environments -----------------------------
(***************************************************************************)
(* The environments of the dataflow analysis (src/dataflow/environments/)  *)
(* as values: a stack of frames, the current one first and the global one  *)
(* last. A frame gives every name the definitions it may have there; a     *)
(* name without any is not defined in the frame. EnvironmentHeap models    *)
(* how the code shares the arrays of definitions between environments.     *)
(***************************************************************************)
EXTENDS Naturals, Sequences

CONSTANTS
    Names,        \* identifiers of R programs
    BuiltInNames  \* those of DefaultEnvironmentMemory, like cat

ASSUME EnvironmentsAssumption == BuiltInNames \subseteq Names

BuiltIn == 0    \* the node id 'built-in'

LocalScope == "local"
GlobalScope == ".GlobalEnv"

(* A definition: the node it stems from, and whether its use is 'maybe'.    *)
Definition(node, maybe) == [node |-> node, maybe |-> maybe]

Nodes(definitions) == {d.node : d \in definitions}

EmptyFrame == [name \in Names |-> {}]

DefaultMemory ==
    [name \in Names |-> IF name \in BuiltInNames THEN {Definition(BuiltIn, FALSE)} ELSE {}]

initializeCleanEnvironments == <<DefaultMemory>>

Level(env) == Len(env) - 1

pushLocalEnvironment(env) == <<EmptyFrame>> \o env

popLocalEnvironment(env) == Tail(env)

(* The first frame that defines the name, counted from the current one; one *)
(* beyond the last if none does.                                            *)
FrameOf(name, env) ==
    CHOOSE i \in 1 .. Len(env) + 1 :
        /\ i <= Len(env) => env[i][name] # {}
        /\ \A j \in 1 .. i - 1 : env[j][name] = {}

resolveByName(name, env) ==
    IF FrameOf(name, env) > Len(env) THEN {} ELSE env[FrameOf(name, env)][name]

(* The frame define writes to: the global scope is the first frame that has *)
(* the name, or the last frame.                                             *)
TargetFrame(name, scope, env) ==
    CASE scope = LocalScope -> 1
      [] scope = GlobalScope /\ FrameOf(name, env) <= Len(env) -> FrameOf(name, env)
      [] OTHER -> Len(env)

define(name, definition, scope, env) ==
    [env EXCEPT ![TargetFrame(name, scope, env)][name] = {definition}]

(* uniqueMergeValues: definitions of a node that is there are not added.    *)
Merged(old, new) == old \cup {d \in new : d.node \notin Nodes(old)}

(* Both are needed on the same level (the guards of the two functions).     *)
appendEnvironments(base, next) ==
    [i \in 1 .. Len(base) |-> [name \in Names |-> Merged(base[i][name], next[i][name])]]

anyIsMaybe(definitions) == definitions = {} \/ \E d \in definitions : d.maybe

overwriteEnvironments(base, next) ==
    [i \in 1 .. Len(base) |->
        [name \in Names |->
            IF anyIsMaybe(next[i][name]) THEN Merged(base[i][name], next[i][name])
                                         ELSE next[i][name]]]

(* What makeAllMaybe does to the definitions of one reference.              *)
Weakened(definitions) ==
    {IF d.node = BuiltIn THEN d ELSE [d EXCEPT !.maybe = TRUE] : d \in definitions}

=============================================================================
