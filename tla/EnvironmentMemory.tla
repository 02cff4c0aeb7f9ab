-------------------------- MODULE EnvironmentMemory ---------------------------
(***************************************************************************)
(* The environments as the dataflow analysis passes them on: frames of     *)
(* names to arrays of definitions, in a memory where arrays grow and       *)
(* definitions are marked in place. Merging two environments changes the   *)
(* first one, and with it all that share its arrays; the analysis depends  *)
(* on that (a loop sees the definitions of its body in what was there      *)
(* before it).                                                             *)
(*                                                                         *)
(* An array is a place in a sequence, 0 if there is none. A definition has *)
(* the array it was made for, to tell it from its clones. EnvironmentHeap  *)
(* has the same operations as actions, in any order.                       *)
(***************************************************************************)
EXTENDS DataflowGraph

NoArray == 0

At(env, arrays) == [env |-> env, arrays |-> arrays]

\* An environment where the arrays are now.
Now(at, later) == At(at.env, later.arrays)

\* What an environment holds: vertices keep that.
Held(at, array) == IF array = NoArray THEN {} ELSE at.arrays[array]
Contents(at) == Table([i \in DOMAIN at.env |-> Table([name \in Names |-> Held(at, at.env[i][name])])])

Targets(name, at) == Nodes(Resolve(name, Contents(at)))

-----------------------------------------------------------------------------
(* The arrays of DefaultEnvironmentMemory are the first ones, for all      *)
(* environments that start clean.                                          *)

DefaultNames == SetToSeq(BuiltInNames)
DefaultArrays == [c \in DOMAIN DefaultNames |-> {[node |-> BuiltIn, maybe |-> FALSE, made |-> c]}]
NoArrays == [name \in Names |-> NoArray]
CleanFrame == [name \in Names |-> IF name \in BuiltInNames
                                  THEN CHOOSE c \in DOMAIN DefaultNames : DefaultNames[c] = name ELSE NoArray]

\* Environments to start with, and those a function of some level starts with.
Clean == At(<<CleanFrame>>, DefaultArrays)
Fresh(at, level) == At([i \in 1 .. level |-> NoArrays] \o <<CleanFrame>>, at.arrays)

PopLocal(at) == At(Tail(at.env), at.arrays)

\* New arrays for some places in an environment, in some order.
StoredInOrder(at, order, Holding(_, _)) ==
    LET New(p) == Len(at.arrays) + CHOOSE j \in DOMAIN order : order[j] = p
        env == Table([i \in DOMAIN at.env |-> Table([name \in Names |->
                    IF <<i, name>> \in Range(order) THEN New(<<i, name>>) ELSE at.env[i][name]])])
    IN  At(env, at.arrays \o [j \in DOMAIN order |-> Holding(order[j], Len(at.arrays) + j)])
Stored(at, places, Holding(_, _)) == StoredInOrder(at, SetToSeq(places), Holding)

\* cloneEnvironments: new arrays with the same definitions.
Cloned(at) ==
    LET Holding(p, c) == {[d EXCEPT !.made = c] : d \in at.arrays[at.env[p[1]][p[2]]]}
    IN  Stored(at, {p \in (DOMAIN at.env) \X Names : at.env[p[1]][p[2]] # NoArray}, Holding)

\* The definitions of one array that another one does not have are added to it.
Pushed(at, other, places) ==
    Table([c \in DOMAIN at.arrays |->
        at.arrays[c] \cup UNION {{d \in Held(at, other[p[1]][p[2]]) : d.node \notin Nodes(at.arrays[c])} :
                                   p \in {q \in places : at.env[q[1]][q[2]] = c}}])

-----------------------------------------------------------------------------
\* define clones the frames it may write to, with their arrays and definitions.
Define(reference, scope, at) ==
    LET name == reference.name
        target == <<TargetFrame(name, scope, Contents(at)), name>>
        frames == IF scope = LocalScope THEN {1} ELSE DOMAIN at.env
        cloned == {p \in frames \X Names : at.env[p[1]][p[2]] # NoArray}
        Holding(p, c) ==
            IF p = target THEN {[node |-> reference.node, maybe |-> reference.maybe, made |-> c]}
            ELSE {[d EXCEPT !.made = c] : d \in at.arrays[at.env[p[1]][p[2]]]}
    IN  IF name \in Names THEN Stored(at, cloned \cup {target}, Holding) ELSE at

DefineAll(references, scope, at) == FoldLeft(LAMBDA e, r : Define(r, scope, e), at, references)

\* Both environments are where the arrays of the later one are.
AppendEnvironments(base, next) ==
    LET shared == {p \in (DOMAIN base.env) \X Names :
                     base.env[p[1]][p[2]] # NoArray /\ next.env[p[1]][p[2]] # NoArray}
        env == Table([i \in DOMAIN base.env |-> Table([name \in Names |->
                  IF base.env[i][name] # NoArray THEN base.env[i][name] ELSE next.env[i][name]])])
    IN  At(env, Pushed(Now(base, next), next.env, shared))

\* What is unsure in the next environment is added to the arrays, all else replaces what was there.
OverwriteUnsure(base, next, unsure, arrays) ==
    LET env == Table([i \in DOMAIN base |-> Table([name \in Names |->
                  IF next[i][name] # NoArray /\ <<i, name>> \notin unsure THEN next[i][name] ELSE base[i][name]])])
        Holding(p, c) ==
            IF base[p[1]][p[2]] = NoArray THEN arrays[next[p[1]][p[2]]] ELSE arrays[base[p[1]][p[2]]]
    IN  Stored(At(env, arrays), unsure, Holding)

OverwriteAll(base, next, unsure) ==
    OverwriteUnsure(base.env, next.env, unsure, Pushed(Now(base, next), next.env, unsure))

OverwriteEnvironments(base, next) ==
    OverwriteAll(base, next, {p \in (DOMAIN base.env) \X Names :
                                /\ next.env[p[1]][p[2]] # NoArray
                                /\ anyIsMaybe(Held(next, next.env[p[1]][p[2]]))})

\* makeAllMaybe: the definitions the references resolve to, wherever they are held.
MakeAllMaybe(references, at) ==
    LET weak == UNION {Resolve(references[i].name, Contents(at)) : i \in DOMAIN references}
        same == {<<d.node, d.made>> : d \in weak}
        Weak(d) == IF <<d.node, d.made>> \in same /\ d.node # BuiltIn THEN [d EXCEPT !.maybe = TRUE] ELSE d
    IN  At(at.env, Table([c \in DOMAIN at.arrays |-> {Weak(d) : d \in at.arrays[c]}]))
=============================================================================
