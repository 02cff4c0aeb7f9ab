---------------------------- MODULE EnvironmentHeap ----------------------------
(***************************************************************************)
(* The environments as objects in memory. The functions of                 *)
(* src/dataflow/environments/ return new environments, but these share     *)
(* arrays of definitions, and definitions, with those they were made from, *)
(* and with DefaultEnvironmentMemory, which lives as long as the process.  *)
(* Any sequence of calls on any environments made so far is a behaviour.   *)
(*                                                                         *)
(* An array, or a definition, is addressed by the operation, the frame and *)
(* the name it was made for.                                               *)
(***************************************************************************)
EXTENDS Environments

CONSTANTS
    MaxEnvironments,  \* bound on the environments made
    MaxLevel          \* bound on local scopes

ASSUME HeapAssumption == MaxEnvironments \in Nat /\ MaxLevel \in Nat

VARIABLES
    definitions,  \* of every address of a definition: the definition
    arrays,       \* of every address of an array: the addresses in it
    envs          \* of every environment: its frames, of names to arrays

vars == <<definitions, arrays, envs>>

Absent == <<>>    \* instead of an array: the frame does not have the name

(* Address of what the operation that makes the k-th environment makes.     *)
Address(k, i, name) == <<k, i, name>>

New == Len(envs) + 1

(* What is at the addresses of f stays, what is at those of g is new.       *)
Extended(f, g) ==
    [x \in DOMAIN f \cup DOMAIN g |-> IF x \in DOMAIN f THEN f[x] ELSE g[x]]

-----------------------------------------------------------------------------
(* What an array, a frame and an environment hold.                          *)

ContentOf(address) ==
    IF address = Absent THEN {} ELSE {definitions[d] : d \in arrays[address]}

ContentOfFrame(frame) == [name \in Names |-> ContentOf(frame[name])]

Content(e) == [i \in 1 .. Len(envs[e]) |-> ContentOfFrame(envs[e][i])]

-----------------------------------------------------------------------------
(* Plausible slips in the environments, used to test the properties.        *)

(* Only an array of nothing but maybes is appended.                         *)
HasOnlyMaybes(address) == \A d \in ContentOf(address) : d.maybe

-----------------------------------------------------------------------------
(* DefaultEnvironmentMemory.                                                *)
DefaultAddresses == {Address(0, 1, name) : name \in BuiltInNames}

Init ==
    /\ definitions = [a \in DefaultAddresses |-> Definition(BuiltIn, FALSE)]
    /\ arrays = [a \in DefaultAddresses |-> {a}]
    /\ envs = <<>>

Make(env) == Len(envs) < MaxEnvironments /\ envs' = Append(envs, env)

(* The copy of the memory is a new map of the same arrays.                  *)
InitializeClean ==
    /\ Make(<<[name \in Names |-> IF name \in BuiltInNames THEN Address(0, 1, name) ELSE Absent]>>)
    /\ UNCHANGED <<definitions, arrays>>

Push(e) ==
    /\ Len(envs[e]) <= MaxLevel
    /\ Make(<<[name \in Names |-> Absent]>> \o envs[e])
    /\ UNCHANGED <<definitions, arrays>>

Pop(e) ==
    /\ Len(envs[e]) > 1
    /\ Make(Tail(envs[e]))
    /\ UNCHANGED <<definitions, arrays>>

(* The frames that define clones before it writes to one of them.           *)
Cloned(scope, env) == IF scope = LocalScope THEN {1} ELSE 1 .. Len(env)

(* The definition of the operation, and the clones of those in the frames.  *)
Define(e, name, scope) ==
    LET env == envs[e]
        target == TargetFrame(name, scope, Content(e))
        cloned == {p \in Cloned(scope, env) \X Names : env[p[1]][p[2]] # Absent}
        CloneOf(d, i, n) == <<New, i, n, definitions[d].node>>
        mine == <<New, target, name, New>>
        clones == UNION {{CloneOf(d, p[1], p[2]) : d \in arrays[env[p[1]][p[2]]]} : p \in cloned}
        written == cloned \cup {<<target, name>>}
    IN  /\ Make([i \in 1 .. Len(env) |->
                    [n \in Names |-> IF <<i, n>> \in written THEN Address(New, i, n) ELSE env[i][n]]])
        /\ definitions' = Extended(definitions,
              [c \in clones \cup {mine} |->
                  IF c = mine THEN Definition(New, FALSE)
                  ELSE CHOOSE d \in ContentOf(env[c[2]][c[3]]) : d.node = c[4]])
        /\ arrays' = Extended(arrays,
              [a \in {Address(New, p[1], p[2]) : p \in written} |->
                  IF a = Address(New, target, name) THEN {mine}
                  ELSE {CloneOf(d, a[2], a[3]) : d \in arrays[env[a[2]][a[3]]]}])

(* The addresses in the array at one address whose nodes another lacks.     *)
Missing(from, to) ==
    {d \in arrays[from] : definitions[d].node \notin Nodes(ContentOf(to))}

(* (A slip: a merge stores what is missing instead of pushing it.)                *)
PushesReplacing(base, next, pushed) ==
    [a \in DOMAIN arrays |->
        LET at == {q \in pushed : base[q[1]][q[2]] = a}
        IN  IF at = {} THEN arrays[a]
            ELSE UNION {Missing(next[p[1]][p[2]], a) : p \in at}]

(* The additions that a merge pushes into the arrays of base.               *)
WithPushes(base, next, pushed) ==
    [a \in DOMAIN arrays |->
        arrays[a] \cup UNION {Missing(next[p[1]][p[2]], a) :
                                p \in {q \in pushed : base[q[1]][q[2]] = a}}]

AppendEnvironments(b, n) ==
    LET base == envs[b]
        next == envs[n]
        pushed == {p \in (1 .. Len(base)) \X Names :
                      base[p[1]][p[2]] # Absent /\ next[p[1]][p[2]] # Absent}
    IN  /\ Len(base) = Len(next)
        /\ Make([i \in 1 .. Len(base) |->
                    [name \in Names |-> IF base[i][name] # Absent THEN base[i][name]
                                                                  ELSE next[i][name]]])
        /\ arrays' = WithPushes(base, next, pushed)
        /\ UNCHANGED definitions

HasMaybe(address) == anyIsMaybe(ContentOf(address))

(* With a maybe, the definitions are pushed into the array of base, and the *)
(* result gets a copy of that array; without one it gets that of next.      *)
OverwriteEnvironments(b, n) ==
    LET base == envs[b]
        next == envs[n]
        copied == {p \in (1 .. Len(base)) \X Names :
                      next[p[1]][p[2]] # Absent /\ HasMaybe(next[p[1]][p[2]])}
        pushed == {p \in copied : base[p[1]][p[2]] # Absent}
        after == WithPushes(base, next, pushed)
    IN  /\ Len(base) = Len(next)
        /\ Make([i \in 1 .. Len(base) |->
                    [name \in Names |->
                        IF <<i, name>> \in copied THEN Address(New, i, name)
                        ELSE IF next[i][name] # Absent THEN next[i][name] ELSE base[i][name]]])
        /\ arrays' = Extended(after,
              [a \in {Address(New, p[1], p[2]) : p \in copied} |->
                  IF <<a[2], a[3]>> \in pushed THEN after[base[a[2]][a[3]]]
                                               ELSE arrays[next[a[2]][a[3]]]])
        /\ UNCHANGED definitions

(* The definitions a reference resolves to are marked where they are.       *)
MakeAllMaybe(e, name) ==
    LET i == FrameOf(name, Content(e))
    IN  /\ i <= Len(envs[e])
        /\ definitions' = [d \in DOMAIN definitions |->
              IF d \in arrays[envs[e][i][name]] /\ definitions[d].node # BuiltIn
              THEN [definitions[d] EXCEPT !.maybe = TRUE]
              ELSE definitions[d]]
        /\ UNCHANGED <<arrays, envs>>

Next ==
    \/ InitializeClean
    \/ \E e \in 1 .. Len(envs) :
          \/ Push(e)
          \/ Pop(e)
          \/ \E name \in Names :
                \/ \E scope \in {LocalScope, GlobalScope} : Define(e, name, scope)
                \/ MakeAllMaybe(e, name)
          \/ \E n \in 1 .. Len(envs) : AppendEnvironments(e, n) \/ OverwriteEnvironments(e, n)

Spec == Init /\ [][Next]_vars

-----------------------------------------------------------------------------
(* Type invariant: no array is empty, and no address dangles.                *)
TypeOK ==
    /\ \A a \in DOMAIN arrays : arrays[a] # {} /\ arrays[a] \subseteq DOMAIN definitions
    /\ \A e \in 1 .. Len(envs) : \A i \in 1 .. Len(envs[e]) : \A name \in Names :
          envs[e][i][name] \in DOMAIN arrays \cup {Absent}

(* What an operation returns is, when it returns, what it would be if the   *)
(* environments it was given were values: that it changes arrays other      *)
(* environments share does not get into its own result.                     *)
ResultsAreRight ==
    [][\A new \in {New} :
          /\ \A b, n \in 1 .. Len(envs) :
                /\ AppendEnvironments(b, n) =>
                      Content(new)' = appendEnvironments(Content(b), Content(n))
                /\ OverwriteEnvironments(b, n) =>
                      Content(new)' = overwriteEnvironments(Content(b), Content(n))
          /\ \A e \in 1 .. Len(envs), name \in Names, scope \in {LocalScope, GlobalScope} :
                Define(e, name, scope) =>
                      Content(new)' = define(name, Definition(new, FALSE), scope, Content(e))]_vars

(* definition d of the value is in the content, and maybe if it is there.   *)
Covers(content, value) ==
    \A d \in value : \E c \in content : c.node = d.node /\ (d.maybe => c.maybe)

(* An operation may add definitions to environments that exist, and make    *)
(* theirs less certain, but never removes one or makes one certain again.   *)
ExistingOnlyWeakened ==
    [][\A e \in 1 .. Len(envs) : \A i \in 1 .. Len(envs[e]) : \A name \in Names :
          Covers(Content(e)'[i][name], Content(e)[i][name])]_vars

(* initializeCleanEnvironments uses a copy of DefaultEnvironmentMemory (its *)
(* comment): the built-ins stay as they are, for this analysis and the next.*)
BuiltInsStay == \A a \in DefaultAddresses : ContentOf(a) = {Definition(BuiltIn, FALSE)}

(* overwriteIEnvironmentWith makes a copy to avoid side effects for the old *)
(* reference in other environments (its comment).                           *)
OverwriteLeavesOthers ==
    [][\A b, n \in 1 .. Len(envs) :
          OverwriteEnvironments(b, n) => \A f \in 1 .. Len(envs) : Content(f)' = Content(f)]_vars

(* overwriteEnvironments: if all definitions within next are maybe, they    *)
(* are appended to those of base, updating them to be maybe as well (its    *)
(* comment).                                                                *)
AppendedTurnMaybe ==
    [][\A new \in {New} : \A b, n \in 1 .. Len(envs) : OverwriteEnvironments(b, n) =>
          \A i \in 1 .. Len(envs[b]) : \A name \in Names :
              /\ Content(n)[i][name] # {}
              /\ \A d \in Content(n)[i][name] : d.maybe
              => \A d \in Content(new)'[i][name] : d.maybe]_vars

=============================================================================
