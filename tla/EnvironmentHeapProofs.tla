------------------------- MODULE EnvironmentHeapProofs -------------------------
(***************************************************************************)
(* Environments share their arrays, and the operations push into these in  *)
(* place; their results are right all the same, for all names, and any     *)
(* number of environments and levels.                                      *)
(*                                                                         *)
(* The reason is that arrays never move: an array that was made for a name *)
(* and a level is found there only, in whichever environments share it. A  *)
(* merge of two environments of one level thus pushes into an array for    *)
(* one reason only, and what it takes over from next it does not push to.  *)
(***************************************************************************)
EXTENDS EnvironmentHeap, WellFoundedInduction, SequenceTheorems, TLAPS

(* Where an array is at home: counted from the global frame, the frame it   *)
(* was made for; those of DefaultEnvironmentMemory are at home in that.     *)
HomeLevel(a) == IF a[1] = 0 THEN 0 ELSE Len(envs[a[1]]) - a[2]

(* Environments hold arrays where these are at home only.                   *)
AtHome(env) ==
    \A i \in 1 .. Len(env) : \A name \in Names :
        env[i][name] # Absent =>
            /\ env[i][name][3] = name
            /\ Len(env) - i = HomeLevel(env[i][name])

(* Addresses are those of the operations so far.                            *)
Fresh ==
    /\ \A a \in DOMAIN arrays : a[1] \in 0 .. Len(envs) /\ a # Absent
    /\ \A d \in DOMAIN definitions : d[1] \in 0 .. Len(envs)

(* Nothing dangles.                                                         *)
Typed ==
    /\ envs \in Seq(Seq([Names -> DOMAIN arrays \cup {Absent}]))
    /\ \A e \in 1 .. Len(envs) : envs[e] # <<>>
    /\ \A a \in DOMAIN arrays : arrays[a] \subseteq DOMAIN definitions
    /\ \A a \in DOMAIN arrays : arrays[a] # {}
    /\ DefaultAddresses \subseteq DOMAIN arrays
    /\ \A d \in DOMAIN definitions : definitions[d] \in [node : Nat, maybe : BOOLEAN]

(* An array has at most one definition of a node.                           *)
OnePerNode ==
    \A a \in DOMAIN arrays : \A c, d \in arrays[a] :
        definitions[c].node = definitions[d].node => c = d

(* The inductive invariant.                                                 *)
HeapInv ==
    /\ Typed
    /\ Fresh
    /\ \A e \in 1 .. Len(envs) : AtHome(envs[e])
    /\ OnePerNode


(* An environment an operation makes holds arrays at home, and new ones.    *)
Placed(env) ==
    \A i \in 1 .. Len(env) : \A name \in Names :
        \/ env[i][name] = Absent
        \/ env[i][name] = Address(New, i, name)
        \/ /\ env[i][name] \in DOMAIN arrays
           /\ env[i][name][3] = name
           /\ Len(env) - i = HomeLevel(env[i][name])

-----------------------------------------------------------------------------

(* A memory that is extended keeps what it has and gains the rest.          *)
LEMMA ExtendedKeeps ==
    ASSUME NEW f, NEW g
    PROVE  /\ DOMAIN Extended(f, g) = DOMAIN f \cup DOMAIN g
           /\ \A x \in DOMAIN f : Extended(f, g)[x] = f[x]
           /\ \A x \in DOMAIN g \ DOMAIN f : Extended(f, g)[x] = g[x]
  BY DEF Extended

(* A set of numbers that is not empty has a least one.                      *)
LEMMA LeastNumber ==
    ASSUME NEW S, S \subseteq Nat, S # {}
    PROVE  \E n \in S : \A m \in S : n <= m
  <1>1. \E n \in S : \A m \in S : <<m, n>> \notin OpToRel(<, Nat)
    BY NatLessThanWellFounded, WFMin
  <1>2. \A m, n \in Nat : m < n => <<m, n>> \in OpToRel(<, Nat)
    BY DEF OpToRel
  <1>3. PICK n \in S : \A m \in S : ~ (m < n)
    BY <1>1, <1>2
  <1> QED
    BY <1>3

(* The search for a name ends at a frame, or one beyond the last.           *)
LEMMA FrameOfIsFrame ==
    ASSUME NEW name, NEW env, NEW n \in Nat, Len(env) = n
    PROVE  /\ FrameOf(name, env) \in 1 .. n + 1
           /\ FrameOf(name, env) <= n => env[FrameOf(name, env)][name] # {}
           /\ \A j \in 1 .. FrameOf(name, env) - 1 : env[j][name] = {}
  <1> DEFINE S == {i \in 1 .. n + 1 : i <= n => env[i][name] # {}}
  <1>1. S \subseteq Nat /\ n + 1 \in S
    OBVIOUS
  <1>2. PICK i \in S : \A j \in S : i <= j
    BY <1>1, LeastNumber
  <1>3. i \in 1 .. n + 1 /\ (i <= n => env[i][name] # {})
    OBVIOUS
  <1>4. \A j \in 1 .. i - 1 : env[j][name] = {}
    BY <1>2
  <1>5. \E k \in 1 .. n + 1 : /\ k <= n => env[k][name] # {}
                              /\ \A j \in 1 .. k - 1 : env[j][name] = {}
    BY <1>3, <1>4
  <1> QED
    BY <1>5 DEF FrameOf

(* define writes to a frame there is.                                       *)
LEMMA TargetIsFrame ==
    ASSUME NEW name, NEW scope, NEW env, NEW n \in Nat \ {0}, Len(env) = n
    PROVE  TargetFrame(name, scope, env) \in 1 .. n
  <1>1. FrameOf(name, env) \in 1 .. n + 1
    BY FrameOfIsFrame
  <1>2. FrameOf(name, env) <= n => FrameOf(name, env) \in 1 .. n
    BY <1>1
  <1>3. 1 \in 1 .. n /\ n \in 1 .. n
    OBVIOUS
  <1> QED
    BY <1>2, <1>3 DEF TargetFrame

(* An environment that was just made is as good as the others, which stay.  *)
LEMMA MadeIsSound ==
    ASSUME HeapInv, NEW env, Make(env), DOMAIN arrays \subseteq DOMAIN arrays',
           env \in Seq([Names -> DOMAIN arrays' \cup {Absent}]), env # <<>>, Placed(env)
    PROVE  /\ envs' \in Seq(Seq([Names -> DOMAIN arrays' \cup {Absent}]))
           /\ \A e \in 1 .. Len(envs') : envs'[e] # <<>>
           /\ \A e \in 1 .. Len(envs') : AtHome(envs[e])'
           /\ Len(envs) \in Nat /\ Len(envs') = Len(envs) + 1
           /\ \A e \in 1 .. Len(envs) : envs'[e] = envs[e]
           /\ envs'[New] = env
  <1> DEFINE Frames == [Names -> DOMAIN arrays \cup {Absent}]
             FramesP == [Names -> DOMAIN arrays' \cup {Absent}]
  <1>1. envs \in Seq(Seq(Frames)) /\ envs' = Append(envs, env) /\ Len(envs) \in Nat
    BY DEF HeapInv, Typed, Make
  <1>2. Frames \subseteq FramesP
    OBVIOUS
  <1>3. Seq(Frames) \subseteq Seq(FramesP)
    BY <1>2
  <1>4. envs \in Seq(Seq(FramesP))
    BY <1>1, <1>3
  <1>5. envs' \in Seq(Seq(FramesP))
    BY <1>1, <1>4
  <1>6. Len(envs') = Len(envs) + 1 /\ envs'[New] = env
    BY <1>1, <1>4 DEF New
  <1>7. \A e \in 1 .. Len(envs) : envs'[e] = envs[e]
    BY <1>1, <1>4
  <1>8. \A e \in 1 .. Len(envs') : e = New \/ e \in 1 .. Len(envs)
    BY <1>1, <1>6 DEF New
  <1>9. \A e \in 1 .. Len(envs') : envs'[e] # <<>>
    BY <1>6, <1>7, <1>8 DEF HeapInv, Typed
  <1>10. ASSUME NEW a \in DOMAIN arrays
         PROVE  HomeLevel(a)' = HomeLevel(a)
    BY <1>1, <1>7 DEF HeapInv, Fresh, HomeLevel
  <1>11. ASSUME NEW e \in 1 .. Len(envs)
         PROVE  AtHome(envs[e])'
    <2>1. envs[e] \in Seq(Frames) /\ AtHome(envs[e]) /\ envs'[e] = envs[e]
      BY <1>1, <1>7 DEF HeapInv
    <2>2. SUFFICES ASSUME NEW i \in 1 .. Len(envs[e]), NEW name \in Names,
                          envs[e][i][name] # Absent
                   PROVE  /\ envs[e][i][name][3] = name
                          /\ Len(envs[e]) - i = HomeLevel(envs[e][i][name])'
      BY <2>1 DEF AtHome
    <2>3. envs[e][i] \in Frames
      BY <2>1
    <2>4. envs[e][i][name] \in DOMAIN arrays
      BY <2>2, <2>3
    <2> QED
      BY <2>1, <2>2, <2>4, <1>10 DEF AtHome
  <1>12. ASSUME NEW e, e = New
         PROVE  AtHome(envs[e])'
    <2>1. envs'[e] = env /\ e = Len(envs) + 1 /\ e # 0
      BY <1>1, <1>6, <1>12 DEF New
    <2>2. SUFFICES ASSUME NEW i \in 1 .. Len(env), NEW name \in Names,
                          env[i][name] # Absent
                   PROVE  /\ env[i][name][3] = name
                          /\ Len(env) - i = HomeLevel(env[i][name])'
      BY <2>1 DEF AtHome
    <2>3. CASE env[i][name] = Address(New, i, name)
      <3>1. env[i][name][1] = e /\ env[i][name][2] = i /\ env[i][name][3] = name
        BY <2>3, <1>12 DEF Address
      <3> QED
        BY <3>1, <2>1 DEF HomeLevel
    <2>4. CASE /\ env[i][name] \in DOMAIN arrays
               /\ env[i][name][3] = name
               /\ Len(env) - i = HomeLevel(env[i][name])
      BY <2>4, <1>10
    <2> QED
      BY <2>2, <2>3, <2>4 DEF Placed
  <1>13. \A e \in 1 .. Len(envs') : AtHome(envs[e])'
    <2>1. SUFFICES ASSUME NEW e \in 1 .. Len(envs')
                   PROVE  AtHome(envs[e])'
      OBVIOUS
    <2>2. CASE e = New
      BY <2>2, <1>12
    <2>3. CASE e \in 1 .. Len(envs)
      BY <2>3, <1>11
    <2> QED
      BY <2>2, <2>3, <1>8
  <1> QED
    BY <1>1, <1>5, <1>6, <1>7, <1>9, <1>13

-----------------------------------------------------------------------------
(* Merging.                                                                 *)

(* In environments of one level an array is in one place only.              *)
LEMMA OnlyOnePlace ==
    ASSUME HeapInv, NEW e \in 1 .. Len(envs), NEW f \in 1 .. Len(envs), Len(envs[e]) = Len(envs[f]),
           NEW i \in 1 .. Len(envs[e]), NEW j \in 1 .. Len(envs[f]), NEW x \in Names, NEW y \in Names,
           envs[e][i][x] = envs[f][j][y], envs[e][i][x] # Absent
    PROVE  i = j /\ x = y
  <1>1. envs[e][i][x][3] = x /\ Len(envs[e]) - i = HomeLevel(envs[e][i][x])
    BY DEF HeapInv, AtHome
  <1>2. envs[f][j][y][3] = y /\ Len(envs[f]) - j = HomeLevel(envs[f][j][y])
    BY DEF HeapInv, AtHome
  <1>3. Len(envs[e]) \in Nat
    BY DEF HeapInv, Typed
  <1> QED
    BY <1>1, <1>2, <1>3

(* What an environment holds is in the memory.                              *)
LEMMA HeldIsThere ==
    ASSUME HeapInv, NEW e \in 1 .. Len(envs), NEW i \in 1 .. Len(envs[e]), NEW x \in Names,
           envs[e][i][x] # Absent
    PROVE  envs[e][i][x] \in DOMAIN arrays
  <1>1. envs[e] \in Seq([Names -> DOMAIN arrays \cup {Absent}])
    BY DEF HeapInv, Typed
  <1>2. envs[e][i] \in [Names -> DOMAIN arrays \cup {Absent}]
    BY <1>1
  <1> QED
    BY <1>2

(* Places that both environments have.                                      *)
IsPushed(b, n, pushed) ==
    /\ Len(envs[b]) = Len(envs[n])
    /\ pushed \subseteq (1 .. Len(envs[b])) \X Names
    /\ \A p \in pushed : envs[b][p[1]][p[2]] # Absent /\ envs[n][p[1]][p[2]] # Absent

(* The array of a place takes what next has there, and nothing else, and    *)
(* the arrays of all other places stay.                                     *)
PushedInPlace(b, n, pushed, after) ==
    /\ DOMAIN after = DOMAIN arrays
    /\ \A p \in pushed : after[envs[b][p[1]][p[2]]] =
          arrays[envs[b][p[1]][p[2]]] \cup Missing(envs[n][p[1]][p[2]], envs[b][p[1]][p[2]])
    /\ \A a \in DOMAIN arrays : (\A p \in pushed : envs[b][p[1]][p[2]] # a) => after[a] = arrays[a]

(* So it is after a merge: what it pushes gets to its own place only.       *)
LEMMA PushesStayInPlace ==
    ASSUME HeapInv, NEW b \in 1 .. Len(envs), NEW n \in 1 .. Len(envs),
           NEW pushed, IsPushed(b, n, pushed)
    PROVE  PushedInPlace(b, n, pushed, WithPushes(envs[b], envs[n], pushed))
  <1> DEFINE after == WithPushes(envs[b], envs[n], pushed)
  <1>1. DOMAIN after = DOMAIN arrays
    BY DEF WithPushes
  <1>2. ASSUME NEW a \in DOMAIN arrays, \A p \in pushed : envs[b][p[1]][p[2]] # a
        PROVE  after[a] = arrays[a]
    <2>1. {q \in pushed : envs[b][q[1]][q[2]] = a} = {}
      BY <1>2
    <2> QED
      BY <2>1 DEF WithPushes
  <1>3. ASSUME NEW p \in pushed
        PROVE  after[envs[b][p[1]][p[2]]] =
                 arrays[envs[b][p[1]][p[2]]] \cup Missing(envs[n][p[1]][p[2]], envs[b][p[1]][p[2]])
    <2> DEFINE a == envs[b][p[1]][p[2]]
    <2>1. a \in DOMAIN arrays
      BY HeldIsThere DEF IsPushed
    <2>2. ASSUME NEW q \in pushed, envs[b][q[1]][q[2]] = a
          PROVE  q = p
      <3>1. /\ p \in (1 .. Len(envs[b])) \X Names /\ q \in (1 .. Len(envs[b])) \X Names
            /\ a # Absent
        BY DEF IsPushed
      <3>2. q[1] = p[1] /\ q[2] = p[2]
        BY <3>1, <2>2, OnlyOnePlace DEF IsPushed
      <3> QED
        BY <3>1, <3>2
    <2>3. {q \in pushed : envs[b][q[1]][q[2]] = a} = {p}
      BY <2>2
    <2> QED
      BY <2>1, <2>3 DEF WithPushes
  <1> QED
    BY <1>1, <1>2, <1>3 DEF PushedInPlace

(* Pushing keeps the arrays as they should be.                              *)
LEMMA PushedIsSound ==
    ASSUME HeapInv, NEW b \in 1 .. Len(envs), NEW n \in 1 .. Len(envs),
           NEW pushed, IsPushed(b, n, pushed),
           NEW after, PushedInPlace(b, n, pushed, after),
           NEW a \in DOMAIN arrays
    PROVE  /\ after[a] \subseteq DOMAIN definitions
           /\ arrays[a] \subseteq after[a]
           /\ \A c, d \in after[a] : definitions[c].node = definitions[d].node => c = d
  <1>1. /\ arrays[a] \subseteq DOMAIN definitions
        /\ \A c, d \in arrays[a] : definitions[c].node = definitions[d].node => c = d
    BY DEF HeapInv, Typed, OnePerNode
  <1>2. CASE \A p \in pushed : envs[b][p[1]][p[2]] # a
    <2>1. after[a] = arrays[a]
      BY <1>2 DEF PushedInPlace
    <2> QED
      BY <2>1, <1>1
  <1>3. ASSUME NEW p \in pushed, envs[b][p[1]][p[2]] = a
        PROVE  /\ after[a] \subseteq DOMAIN definitions
               /\ arrays[a] \subseteq after[a]
               /\ \A c, d \in after[a] : definitions[c].node = definitions[d].node => c = d
    <2> DEFINE from == envs[n][p[1]][p[2]]
    <2>1. after[a] = arrays[a] \cup Missing(from, a)
      BY <1>3 DEF PushedInPlace
    <2>2. from \in DOMAIN arrays
      BY HeldIsThere DEF IsPushed
    <2>3. /\ arrays[from] \subseteq DOMAIN definitions
          /\ \A c, d \in arrays[from] : definitions[c].node = definitions[d].node => c = d
      BY <2>2 DEF HeapInv, Typed, OnePerNode
    <2>4. a # Absent
      BY DEF HeapInv, Fresh
    <2>5. \A d \in Missing(from, a) : d \in arrays[from] /\ \A c \in arrays[a] : definitions[c].node # definitions[d].node
      BY <2>4 DEF Missing, Nodes, ContentOf
    <2> QED
      BY <2>1, <2>3, <2>5, <1>1
  <1> QED
    BY <1>2, <1>3

-----------------------------------------------------------------------------
(* Every operation keeps the heap as it should be.                          *)

(* The process starts with the arrays of DefaultEnvironmentMemory.          *)
LEMMA InitIsSound == Init => HeapInv
  <1> SUFFICES ASSUME Init PROVE HeapInv
    OBVIOUS
  <1>1. \A a \in DefaultAddresses : a[1] = 0 /\ a # Absent
    BY DEF DefaultAddresses, Address, Absent
  <1>2. DOMAIN arrays = DefaultAddresses /\ DOMAIN definitions = DefaultAddresses
    BY DEF Init
  <1>3. envs = <<>> /\ Len(envs) = 0
    BY DEF Init
  <1>4. \A a \in DefaultAddresses : arrays[a] = {a} /\ definitions[a] = Definition(BuiltIn, FALSE)
    BY DEF Init
  <1>5. Definition(BuiltIn, FALSE) \in [node : Nat, maybe : BOOLEAN]
    BY DEF Definition, BuiltIn
  <1>6. Typed
    <2>1. envs \in Seq(Seq([Names -> DOMAIN arrays \cup {Absent}]))
      BY <1>3
    <2>2. ASSUME NEW a \in DOMAIN arrays
          PROVE  arrays[a] \subseteq DOMAIN definitions /\ arrays[a] # {}
      <3>1. arrays[a] = {a} /\ a \in DOMAIN definitions
        BY ONLY <1>2, <1>4, a \in DOMAIN arrays
      <3> QED
        BY ONLY <3>1
    <2>3. \A d \in DOMAIN definitions : definitions[d] \in [node : Nat, maybe : BOOLEAN]
      BY <1>2, <1>4, <1>5
    <2> QED
      BY <1>2, <1>3, <2>1, <2>2, <2>3 DEF Typed
  <1>7. Fresh
    BY <1>1, <1>2, <1>3 DEF Fresh
  <1>8. OnePerNode
    <2>1. ASSUME NEW a \in DOMAIN arrays, NEW c \in arrays[a], NEW d \in arrays[a]
          PROVE  c = d
      <3>1. arrays[a] = {a}
        BY ONLY <1>2, <1>4, a \in DOMAIN arrays
      <3> QED
        BY ONLY <3>1, c \in arrays[a], d \in arrays[a]
    <2> QED
      BY <2>1 DEF OnePerNode
  <1> QED
    BY <1>3, <1>6, <1>7, <1>8 DEF HeapInv

(* Operations that only make an environment of arrays there are.            *)
LEMMA SharingIsSound ==
    ASSUME HeapInv, NEW env, Make(env), env \in Seq([Names -> DOMAIN arrays \cup {Absent}]),
           env # <<>>, Placed(env), UNCHANGED <<definitions, arrays>>
    PROVE  HeapInv'
  <1>1. /\ envs' \in Seq(Seq([Names -> DOMAIN arrays' \cup {Absent}]))
        /\ \A e \in 1 .. Len(envs') : envs'[e] # <<>>
        /\ \A e \in 1 .. Len(envs') : AtHome(envs[e])'
        /\ Len(envs) \in Nat /\ Len(envs') = Len(envs) + 1
    BY MadeIsSound
  <1>2. Typed'
    BY <1>1 DEF HeapInv, Typed, DefaultAddresses
  <1>3. Fresh'
    BY <1>1 DEF HeapInv, Fresh
  <1>4. OnePerNode'
    BY DEF HeapInv, OnePerNode
  <1> QED
    BY <1>1, <1>2, <1>3, <1>4 DEF HeapInv

(* What an environment holds, its frames have at home.                      *)
LEMMA EnvironmentIsSound ==
    ASSUME HeapInv, NEW e \in 1 .. Len(envs)
    PROVE  /\ envs[e] \in Seq([Names -> DOMAIN arrays \cup {Absent}])
           /\ Len(envs[e]) \in Nat \ {0}
           /\ Placed(envs[e])
  <1>1. envs[e] \in Seq([Names -> DOMAIN arrays \cup {Absent}]) /\ envs[e] # <<>> /\ AtHome(envs[e])
    BY DEF HeapInv, Typed
  <1>2. Placed(envs[e])
    BY <1>1, HeldIsThere DEF AtHome, Placed
  <1> QED
    BY <1>1, <1>2

(* The copy of the memory has its arrays at home.                           *)
LEMMA InitializeCleanIsSound == HeapInv /\ InitializeClean => HeapInv'
  <1> SUFFICES ASSUME HeapInv, InitializeClean PROVE HeapInv'
    OBVIOUS
  <1> DEFINE frame == [name \in Names |-> IF name \in BuiltInNames THEN Address(0, 1, name) ELSE Absent]
             env == <<frame>>
  <1>1. Make(env) /\ UNCHANGED <<definitions, arrays>>
    BY DEF InitializeClean
  <1>2. \A name \in BuiltInNames : Address(0, 1, name) \in DOMAIN arrays
    BY DEF HeapInv, Typed, DefaultAddresses
  <1>3. frame \in [Names -> DOMAIN arrays \cup {Absent}]
    BY <1>2
  <1>4. env \in Seq([Names -> DOMAIN arrays \cup {Absent}]) /\ env # <<>> /\ Len(env) = 1 /\ env[1] = frame
    BY <1>3
  <1>5. \A name \in BuiltInNames : Address(0, 1, name)[3] = name /\ HomeLevel(Address(0, 1, name)) = 0
    BY DEF Address, HomeLevel
  <1>6. Placed(env)
    <2>1. ASSUME NEW name \in Names, frame[name] # Absent
          PROVE  /\ frame[name] \in DOMAIN arrays
                 /\ frame[name][3] = name
                 /\ HomeLevel(frame[name]) = 0
      BY <1>2, <1>5, <2>1
    <2> HIDE DEF frame, env
    <2>2. \A i \in 1 .. Len(env) : i = 1 /\ Len(env) - i = 0 /\ env[i] = frame
      BY <1>4
    <2> QED
      BY <2>1, <2>2 DEF Placed
  <1> HIDE DEF env
  <1> QED
    BY <1>1, <1>4, <1>6, SharingIsSound

(* A local frame on top leaves the frames below at their levels.            *)
LEMMA PushIsSound ==
    ASSUME HeapInv, NEW e \in 1 .. Len(envs), Push(e)
    PROVE  HeapInv'
  <1> DEFINE Frames == [Names -> DOMAIN arrays \cup {Absent}]
             frame == [name \in Names |-> Absent]
             env == <<frame>> \o envs[e]
  <1>1. Make(env) /\ UNCHANGED <<definitions, arrays>>
    BY DEF Push
  <1>2. envs[e] \in Seq(Frames) /\ Len(envs[e]) \in Nat /\ Placed(envs[e])
    BY EnvironmentIsSound
  <1>3. frame \in Frames
    OBVIOUS
  <1>4. /\ env \in Seq(Frames) /\ Len(env) = Len(envs[e]) + 1 /\ env[1] = frame
        /\ \A i \in 2 .. Len(env) : env[i] = envs[e][i - 1]
    <2> HIDE DEF frame, Frames
    <2> QED
      BY <1>2, <1>3
  <1>5. env # <<>>
    BY <1>4, <1>2
  <1>6. Placed(env)
    <2> SUFFICES ASSUME NEW i \in 1 .. Len(env), NEW name \in Names, env[i][name] # Absent
                 PROVE  \/ env[i][name] = Address(New, i, name)
                        \/ /\ env[i][name] \in DOMAIN arrays
                           /\ env[i][name][3] = name
                           /\ Len(env) - i = HomeLevel(env[i][name])
      BY DEF Placed
    <2>1. i \in 2 .. Len(env) /\ i - 1 \in 1 .. Len(envs[e]) /\ env[i] = envs[e][i - 1]
      BY <1>4, <1>2
    <2>2. Len(env) - i = Len(envs[e]) - (i - 1)
      BY <1>4, <1>2
    <2>3. envs[e][i - 1][name] \in DOMAIN arrays
      BY <2>1, HeldIsThere
    <2>4. AtHome(envs[e])
      BY DEF HeapInv
    <2> QED
      BY <2>1, <2>2, <2>3, <2>4 DEF AtHome
  <1> HIDE DEF env
  <1> QED
    BY <1>1, <1>4, <1>5, <1>6, SharingIsSound

(* Nor does it change levels that the local frame is dropped.               *)
LEMMA PopIsSound ==
    ASSUME HeapInv, NEW e \in 1 .. Len(envs), Pop(e)
    PROVE  HeapInv'
  <1> DEFINE Frames == [Names -> DOMAIN arrays \cup {Absent}]
             env == Tail(envs[e])
  <1>1. Make(env) /\ UNCHANGED <<definitions, arrays>> /\ Len(envs[e]) > 1
    BY DEF Pop
  <1>2. envs[e] \in Seq(Frames) /\ Len(envs[e]) \in Nat /\ Placed(envs[e])
    BY EnvironmentIsSound
  <1>3. /\ env \in Seq(Frames) /\ Len(env) = Len(envs[e]) - 1 /\ env # <<>>
        /\ \A i \in 1 .. Len(env) : env[i] = envs[e][i + 1]
    <2> HIDE DEF Frames
    <2>1. /\ env \in Seq(Frames) /\ Len(env) = Len(envs[e]) - 1
          /\ \A i \in 1 .. Len(env) : env[i] = envs[e][i + 1]
      <3>1. envs[e] # <<>>
        BY <1>1
      <3> QED
        BY <1>2, <3>1, HeadTailProperties
    <2> HIDE DEF env
    <2> QED
      BY <1>1, <1>2, <2>1
  <1>4. Placed(env)
    <2> SUFFICES ASSUME NEW i \in 1 .. Len(env), NEW name \in Names, env[i][name] # Absent
                 PROVE  \/ env[i][name] = Address(New, i, name)
                        \/ /\ env[i][name] \in DOMAIN arrays
                           /\ env[i][name][3] = name
                           /\ Len(env) - i = HomeLevel(env[i][name])
      BY DEF Placed
    <2>1. i + 1 \in 1 .. Len(envs[e]) /\ env[i] = envs[e][i + 1]
      BY <1>3, <1>2
    <2>2. Len(env) - i = Len(envs[e]) - (i + 1)
      BY <1>3, <1>2
    <2>3. envs[e][i + 1][name] \in DOMAIN arrays
      BY <2>1, HeldIsThere
    <2>4. AtHome(envs[e])
      BY DEF HeapInv
    <2> QED
      BY <2>1, <2>2, <2>3, <2>4 DEF AtHome
  <1> HIDE DEF env
  <1> QED
    BY <1>1, <1>3, <1>4, SharingIsSound

(* Marking definitions leaves everything where it is.                       *)
LEMMA MakeAllMaybeIsSound ==
    ASSUME HeapInv, NEW e \in 1 .. Len(envs), NEW name \in Names, MakeAllMaybe(e, name)
    PROVE  HeapInv'
  <1>1. /\ arrays' = arrays /\ envs' = envs
        /\ DOMAIN definitions' = DOMAIN definitions
        /\ \A d \in DOMAIN definitions :
              definitions'[d] = definitions[d] \/ definitions'[d] = [definitions[d] EXCEPT !.maybe = TRUE]
    BY DEF MakeAllMaybe
  <1>2. \A d \in DOMAIN definitions : /\ definitions'[d] \in [node : Nat, maybe : BOOLEAN]
                                      /\ definitions'[d].node = definitions[d].node
    BY <1>1 DEF HeapInv, Typed
  <1>3. Typed'
    BY <1>1, <1>2 DEF HeapInv, Typed, DefaultAddresses
  <1>4. Fresh'
    BY <1>1 DEF HeapInv, Fresh
  <1>5. OnePerNode'
    BY <1>1, <1>2 DEF HeapInv, Typed, OnePerNode
  <1>6. \A f \in 1 .. Len(envs') : AtHome(envs[f])'
    BY <1>1 DEF HeapInv, AtHome, HomeLevel
  <1> QED
    BY <1>3, <1>4, <1>5, <1>6 DEF HeapInv

(* An array: it is not empty and has one definition of a node.              *)
IsArray(array) ==
    /\ array \subseteq DOMAIN definitions
    /\ array # {}
    /\ \A c, d \in array : definitions[c].node = definitions[d].node => c = d

(* What an operation makes, no operation made before.                       *)
LEMMA NewIsFresh ==
    ASSUME HeapInv
    PROVE  /\ \A i, name : Address(New, i, name) \notin DOMAIN arrays
           /\ \A d \in DOMAIN definitions : d[1] # New
           /\ \A a \in DOMAIN arrays : a # Absent
           /\ \A i, name : Address(New, i, name) # Absent
           /\ New \in Nat \ {0}
  <1>1. Len(envs) \in Nat
    BY DEF HeapInv, Typed
  <1>2. \A i, name : Address(New, i, name)[1] = New /\ Address(New, i, name) # Absent
    BY DEF Address, Absent
  <1> QED
    BY <1>1, <1>2 DEF HeapInv, Fresh, New

(* An operation that adds to arrays, and makes arrays and definitions.      *)
LEMMA GrowthIsSound ==
    ASSUME HeapInv, NEW env, Make(env),
           DOMAIN arrays \subseteq DOMAIN arrays', DOMAIN definitions \subseteq DOMAIN definitions',
           env \in Seq([Names -> DOMAIN arrays' \cup {Absent}]), env # <<>>, Placed(env),
           \A a \in DOMAIN arrays' : a \in DOMAIN arrays \/ (a[1] = New /\ a # Absent),
           \A a \in DOMAIN arrays' : IsArray(arrays[a])',
           \A d \in DOMAIN definitions' : d \in DOMAIN definitions \/ d[1] = New,
           \A d \in DOMAIN definitions' : definitions'[d] \in [node : Nat, maybe : BOOLEAN]
    PROVE  HeapInv'
  <1>1. /\ envs' \in Seq(Seq([Names -> DOMAIN arrays' \cup {Absent}]))
        /\ \A e \in 1 .. Len(envs') : envs'[e] # <<>>
        /\ \A e \in 1 .. Len(envs') : AtHome(envs[e])'
        /\ Len(envs) \in Nat /\ Len(envs') = Len(envs) + 1
    BY MadeIsSound
  <1>2. Typed'
    BY <1>1 DEF HeapInv, Typed, DefaultAddresses, IsArray
  <1>3. Fresh'
    <2>1. \A k \in 0 .. Len(envs) : k \in 0 .. Len(envs')
      BY <1>1
    <2>2. New \in 0 .. Len(envs')
      BY <1>1 DEF New
    <2>3. \A a \in DOMAIN arrays' : a[1] \in 0 .. Len(envs') /\ a # Absent
      BY <2>1, <2>2 DEF HeapInv, Fresh
    <2>4. \A d \in DOMAIN definitions' : d[1] \in 0 .. Len(envs')
      BY <2>1, <2>2 DEF HeapInv, Fresh
    <2> QED
      BY <2>3, <2>4 DEF Fresh, Absent
  <1>4. OnePerNode'
    BY DEF OnePerNode, IsArray
  <1> QED
    BY <1>1, <1>2, <1>3, <1>4 DEF HeapInv

(* An environment put together from two of one level has its arrays at home.*)
LEMMA ComposedIsPlaced ==
    ASSUME HeapInv, NEW b \in 1 .. Len(envs), NEW n \in 1 .. Len(envs),
           Len(envs[b]) = Len(envs[n]), NEW env, Len(env) = Len(envs[b]),
           \A i \in 1 .. Len(env) : \A name \in Names :
              env[i][name] \in {envs[b][i][name], envs[n][i][name], Address(New, i, name)}
    PROVE  Placed(env)
  <1>1. Placed(envs[b]) /\ Placed(envs[n])
    BY EnvironmentIsSound
  <1> SUFFICES ASSUME NEW i \in 1 .. Len(env), NEW name \in Names
               PROVE  \/ env[i][name] = Absent
                      \/ env[i][name] = Address(New, i, name)
                      \/ /\ env[i][name] \in DOMAIN arrays
                         /\ env[i][name][3] = name
                         /\ Len(env) - i = HomeLevel(env[i][name])
    BY DEF Placed
  <1>2. CASE env[i][name] = envs[b][i][name]
    BY <1>1, <1>2 DEF Placed
  <1>3. CASE env[i][name] = envs[n][i][name]
    BY <1>1, <1>3 DEF Placed
  <1> QED
    BY <1>2, <1>3

-----------------------------------------------------------------------------
(* What merging returns. An array it returns is read after the step.        *)

HeldAfter(address) ==
    IF address = Absent THEN {} ELSE {definitions'[d] : d \in arrays'[address]}

(* The content of an environment after the step that made it.               *)
LEMMA ContentAfter ==
    ASSUME HeapInv, NEW env, Make(env), NEW new, new = New
    PROVE  Content(new)' = [i \in 1 .. Len(env) |-> [name \in Names |-> HeldAfter(env[i][name])]]
  <1>1. envs'[new] = env
    BY DEF Make, HeapInv, Typed, New
  <1> QED
    BY <1>1 DEF Content, ContentOfFrame, ContentOf, HeldAfter

(* An array with what it missed holds what the merge of the values is.      *)
LEMMA MissingMakesMerged ==
    ASSUME NEW a, a # Absent, NEW from, from # Absent
    PROVE  {definitions[d] : d \in arrays[a] \cup Missing(from, a)} = Merged(ContentOf(a), ContentOf(from))
  <1>1. ContentOf(a) = {definitions[d] : d \in arrays[a]} /\ ContentOf(from) = {definitions[d] : d \in arrays[from]}
    BY DEF ContentOf
  <1>2. {definitions[d] : d \in Missing(from, a)} = {v \in ContentOf(from) : v.node \notin Nodes(ContentOf(a))}
    BY <1>1 DEF Missing
  <1> QED
    BY <1>1, <1>2 DEF Merged

(* What is not pushed to stays, whichever of the two has it.                *)
LEMMA OthersStay ==
    ASSUME HeapInv, NEW b \in 1 .. Len(envs), NEW n \in 1 .. Len(envs), NEW pushed, IsPushed(b, n, pushed),
           NEW after, PushedInPlace(b, n, pushed, after),
           NEW f \in {b, n}, NEW i \in 1 .. Len(envs[b]), NEW name \in Names,
           envs[f][i][name] # Absent, <<i, name>> \notin pushed
    PROVE  after[envs[f][i][name]] = arrays[envs[f][i][name]]
  <1>1. Len(envs[b]) = Len(envs[f]) /\ f \in 1 .. Len(envs)
    BY DEF IsPushed
  <1>2. ASSUME NEW p \in pushed, envs[b][p[1]][p[2]] = envs[f][i][name]
        PROVE  FALSE
    <2>1. p \in (1 .. Len(envs[b])) \X Names
      BY DEF IsPushed
    <2>2. p[1] = i /\ p[2] = name
      BY <1>1, <1>2, <2>1, OnlyOnePlace
    <2> QED
      BY <2>1, <2>2
  <1>3. envs[f][i][name] \in DOMAIN arrays
    BY <1>1, HeldIsThere
  <1> QED
    BY <1>2, <1>3 DEF PushedInPlace

(* Appending pushes into the arrays of base and takes the others over.      *)
LEMMA AppendIsSound ==
    ASSUME HeapInv, NEW b \in 1 .. Len(envs), NEW n \in 1 .. Len(envs), AppendEnvironments(b, n),
           NEW new, new = New
    PROVE  /\ HeapInv'
           /\ Content(new)' = appendEnvironments(Content(b), Content(n))
  <1> DEFINE pushed == {p \in (1 .. Len(envs[b])) \X Names :
                           envs[b][p[1]][p[2]] # Absent /\ envs[n][p[1]][p[2]] # Absent}
             env == [i \in 1 .. Len(envs[b]) |->
                        [name \in Names |-> IF envs[b][i][name] # Absent THEN envs[b][i][name]
                                                                         ELSE envs[n][i][name]]]
  <1>1. /\ Len(envs[b]) = Len(envs[n]) /\ Make(env)
        /\ arrays' = WithPushes(envs[b], envs[n], pushed)
        /\ definitions' = definitions
    BY DEF AppendEnvironments
  <1>2. IsPushed(b, n, pushed)
    BY <1>1 DEF IsPushed
  <1>3. PushedInPlace(b, n, pushed, arrays')
    BY <1>1, <1>2, PushesStayInPlace
  <1>4. DOMAIN arrays' = DOMAIN arrays
    BY <1>3 DEF PushedInPlace
  <1>5. ASSUME NEW a \in DOMAIN arrays
        PROVE  IsArray(arrays[a])'
    <2>1. /\ arrays'[a] \subseteq DOMAIN definitions
          /\ arrays[a] \subseteq arrays'[a]
          /\ \A c, d \in arrays'[a] : definitions[c].node = definitions[d].node => c = d
      BY <1>2, <1>3, PushedIsSound
    <2>2. arrays[a] # {}
      BY DEF HeapInv, Typed
    <2> QED
      BY <2>1, <2>2, <1>1 DEF IsArray
  <1>6. /\ envs[b] \in Seq([Names -> DOMAIN arrays \cup {Absent}])
        /\ envs[n] \in Seq([Names -> DOMAIN arrays \cup {Absent}])
        /\ Len(envs[b]) \in Nat \ {0}
    BY EnvironmentIsSound
  <1>7. env \in Seq([Names -> DOMAIN arrays \cup {Absent}]) /\ Len(env) = Len(envs[b])
    BY <1>1, <1>6
  <1>8. Placed(env)
    <2>1. \A i \in 1 .. Len(env) : \A name \in Names : env[i][name] \in {envs[b][i][name], envs[n][i][name]}
      BY <1>7
    <2> HIDE DEF env
    <2> QED
      BY <1>1, <1>7, <2>1, ComposedIsPlaced
  <1>9. env # <<>>
    BY <1>6, <1>7
  <1>10. \A d \in DOMAIN definitions : definitions[d] \in [node : Nat, maybe : BOOLEAN]
    BY DEF HeapInv, Typed
  <1>11. HeapInv'
    <2> HIDE DEF env, pushed
    <2> QED
      BY <1>1, <1>4, <1>5, <1>7, <1>8, <1>9, <1>10, GrowthIsSound
  <1>12. ASSUME NEW i \in 1 .. Len(envs[b]), NEW name \in Names
         PROVE  HeldAfter(env[i][name]) = Merged(ContentOf(envs[b][i][name]), ContentOf(envs[n][i][name]))
    <2>1. env[i][name] = IF envs[b][i][name] # Absent THEN envs[b][i][name] ELSE envs[n][i][name]
      OBVIOUS
    <2>2. <<i, name>> \in pushed <=> envs[b][i][name] # Absent /\ envs[n][i][name] # Absent
      OBVIOUS
    <2> HIDE DEF env, pushed
    <2>3. CASE <<i, name>> \in pushed
      <3>1. arrays'[envs[b][i][name]] = arrays[envs[b][i][name]] \cup Missing(envs[n][i][name], envs[b][i][name])
        BY <2>3, <1>3 DEF PushedInPlace
      <3>2. HeldAfter(env[i][name]) =
              {definitions[d] : d \in arrays[envs[b][i][name]] \cup Missing(envs[n][i][name], envs[b][i][name])}
        BY <2>1, <2>2, <2>3, <3>1, <1>1 DEF HeldAfter
      <3> QED
        BY <3>2, <2>2, <2>3, MissingMakesMerged
    <2>4. CASE <<i, name>> \notin pushed /\ env[i][name] # Absent
      <3>1. PICK f \in {b, n} : env[i][name] = envs[f][i][name]
        BY <2>1
      <3>2. arrays'[envs[f][i][name]] = arrays[envs[f][i][name]]
        BY <1>2, <1>3, <2>4, <3>1, OthersStay
      <3>3. HeldAfter(env[i][name]) = ContentOf(env[i][name])
        BY <3>1, <3>2, <2>4, <1>1 DEF HeldAfter, ContentOf
      <3> QED
        BY <3>3, <2>1, <2>2, <2>4 DEF Merged, Nodes, ContentOf
    <2>5. CASE env[i][name] = Absent
      <3>1. envs[b][i][name] = Absent /\ envs[n][i][name] = Absent
        BY <2>1, <2>5
      <3> QED
        BY <2>5, <3>1 DEF HeldAfter, ContentOf, Merged
    <2> QED
      BY <2>3, <2>4, <2>5
  <1>13. appendEnvironments(Content(b), Content(n)) =
           [i \in 1 .. Len(envs[b]) |-> [name \in Names |->
               Merged(ContentOf(envs[b][i][name]), ContentOf(envs[n][i][name]))]]
    BY <1>1, <1>6 DEF appendEnvironments, Content, ContentOfFrame
  <1>14. Content(new)' = [i \in 1 .. Len(env) |-> [name \in Names |-> HeldAfter(env[i][name])]]
    <2> HIDE DEF env
    <2> QED
      BY <1>1, ContentAfter
  <1> QED
    <2> HIDE DEF env
    <2> QED
      BY <1>7, <1>11, <1>12, <1>13, <1>14

(* Overwriting pushes into the arrays of base, too, and copies these.       *)
LEMMA OverwriteIsSound ==
    ASSUME HeapInv, NEW b \in 1 .. Len(envs), NEW n \in 1 .. Len(envs), OverwriteEnvironments(b, n),
           NEW new, new = New
    PROVE  /\ HeapInv'
           /\ Content(new)' = overwriteEnvironments(Content(b), Content(n))
  <1> DEFINE copied == {p \in (1 .. Len(envs[b])) \X Names :
                           envs[n][p[1]][p[2]] # Absent /\ HasMaybe(envs[n][p[1]][p[2]])}
             pushed == {p \in copied : envs[b][p[1]][p[2]] # Absent}
             after == WithPushes(envs[b], envs[n], pushed)
             env == [i \in 1 .. Len(envs[b]) |->
                        [name \in Names |->
                            IF <<i, name>> \in copied THEN Address(New, i, name)
                            ELSE IF envs[n][i][name] # Absent THEN envs[n][i][name]
                                                              ELSE envs[b][i][name]]]
             copies == [a \in {Address(New, p[1], p[2]) : p \in copied} |->
                           IF <<a[2], a[3]>> \in pushed THEN after[envs[b][a[2]][a[3]]]
                                                        ELSE arrays[envs[n][a[2]][a[3]]]]
  <1>1. /\ Len(envs[b]) = Len(envs[n]) /\ Make(env)
        /\ arrays' = Extended(after, copies)
        /\ definitions' = definitions
    BY DEF OverwriteEnvironments
  <1>2. Len(envs[b]) = Len(envs[n]) /\ Make(env) /\ definitions' = definitions
    BY ONLY <1>1
  <1>3. IsPushed(b, n, pushed)
    BY <1>1 DEF IsPushed
  <1>4. PushedInPlace(b, n, pushed, after)
    BY <1>3, PushesStayInPlace
  <1>5. DOMAIN after = DOMAIN arrays
    BY <1>4 DEF PushedInPlace
  <1>6. /\ DOMAIN arrays' = DOMAIN arrays \cup {Address(New, p[1], p[2]) : p \in copied}
        /\ \A a \in DOMAIN arrays : arrays'[a] = after[a]
        /\ \A p \in copied : arrays'[Address(New, p[1], p[2])] = copies[Address(New, p[1], p[2])]
    <2> HIDE DEF after
    <2>1. DOMAIN copies = {Address(New, p[1], p[2]) : p \in copied}
      OBVIOUS
    <2>2. \A p \in copied : Address(New, p[1], p[2]) \in DOMAIN copies \ DOMAIN after
      BY <1>5, <2>1, NewIsFresh
    <2> HIDE DEF copies
    <2>3. /\ DOMAIN Extended(after, copies) = DOMAIN after \cup DOMAIN copies
          /\ \A x \in DOMAIN after : Extended(after, copies)[x] = after[x]
          /\ \A x \in DOMAIN copies \ DOMAIN after : Extended(after, copies)[x] = copies[x]
      BY ExtendedKeeps
    <2> HIDE DEF copied
    <2> QED
      BY ONLY <1>1, <1>5, <2>1, <2>2, <2>3
  <1>7. ASSUME NEW a \in DOMAIN arrays
        PROVE  after[a] \subseteq DOMAIN definitions /\ IsArray(after[a]) /\ IsArray(arrays[a])
    <2>1. /\ after[a] \subseteq DOMAIN definitions
          /\ arrays[a] \subseteq after[a]
          /\ \A c, d \in after[a] : definitions[c].node = definitions[d].node => c = d
      <3> HIDE DEF after, pushed
      <3> QED
        BY <1>3, <1>4, PushedIsSound
    <2>2. arrays[a] # {} /\ IsArray(arrays[a])
      BY DEF HeapInv, Typed, OnePerNode, IsArray
    <2> QED
      BY <2>1, <2>2 DEF IsArray
  <1>8. ASSUME NEW p \in copied
        PROVE  /\ arrays'[Address(New, p[1], p[2])] =
                     IF p \in pushed THEN after[envs[b][p[1]][p[2]]] ELSE arrays[envs[n][p[1]][p[2]]]
               /\ IsArray(arrays'[Address(New, p[1], p[2])])
    <2>1. p = <<p[1], p[2]>> /\ Address(New, p[1], p[2])[2] = p[1] /\ Address(New, p[1], p[2])[3] = p[2]
      BY DEF Address
    <2>2. arrays'[Address(New, p[1], p[2])] =
             IF p \in pushed THEN after[envs[b][p[1]][p[2]]] ELSE arrays[envs[n][p[1]][p[2]]]
      <3> HIDE DEF pushed, after
      <3> QED
        BY <1>6, <2>1
    <2>3. envs[n][p[1]][p[2]] \in DOMAIN arrays
      BY <1>1, HeldIsThere
    <2>4. p \in pushed => envs[b][p[1]][p[2]] \in DOMAIN arrays
      BY HeldIsThere
    <2> QED
      BY <2>2, <2>3, <2>4, <1>7
  <1>9. \A a \in DOMAIN arrays' : IsArray(arrays[a])'
    <2> HIDE DEF after, copies, copied, pushed
    <2>1. ASSUME NEW a \in DOMAIN arrays'
          PROVE  IsArray(arrays'[a])
      <3>1. CASE a \in DOMAIN arrays
        BY <3>1, <1>6, <1>7
      <3>2. CASE a \in {Address(New, p[1], p[2]) : p \in copied}
        BY <3>2, <1>8
      <3> QED
        BY <3>1, <3>2, <1>6
    <2> QED
      BY <2>1, <1>2 DEF IsArray
  <1>10. /\ envs[b] \in Seq([Names -> DOMAIN arrays \cup {Absent}])
         /\ envs[n] \in Seq([Names -> DOMAIN arrays \cup {Absent}])
         /\ Len(envs[b]) \in Nat \ {0}
    BY EnvironmentIsSound
  <1>11. /\ env \in Seq([Names -> DOMAIN arrays' \cup {Absent}])
         /\ Len(env) = Len(envs[b]) /\ env # <<>>
    <2>1. \A i \in 1 .. Len(envs[b]) : \A name \in Names :
            <<i, name>> \in copied => Address(New, i, name) \in DOMAIN arrays'
      <3> HIDE DEF copied
      <3>1. ASSUME NEW i, NEW name, <<i, name>> \in copied
            PROVE  Address(New, <<i, name>>[1], <<i, name>>[2]) \in DOMAIN arrays'
        BY ONLY <1>6, <3>1
      <3> QED
        BY ONLY <3>1
    <2>2. ASSUME NEW i \in 1 .. Len(envs[b]), NEW name \in Names
          PROVE  env[i][name] \in DOMAIN arrays' \cup {Absent}
      <3>1. {envs[b][i][name], envs[n][i][name]} \subseteq DOMAIN arrays \cup {Absent}
        <4>1. /\ envs[b][i] \in [Names -> DOMAIN arrays \cup {Absent}]
              /\ envs[n][i] \in [Names -> DOMAIN arrays \cup {Absent}]
          BY <1>2, <1>10
        <4> QED
          BY <4>1
      <3>2. env[i][name] = IF <<i, name>> \in copied THEN Address(New, i, name)
                           ELSE IF envs[n][i][name] # Absent THEN envs[n][i][name] ELSE envs[b][i][name]
        <4> HIDE DEF copied
        <4> QED
          OBVIOUS
      <3> HIDE DEF env, copied
      <3> QED
        BY <2>1, <3>1, <3>2, <1>6
    <2>3. \A i \in 1 .. Len(envs[b]) : env[i] \in [Names -> DOMAIN arrays' \cup {Absent}]
      <3>1. \A i \in 1 .. Len(envs[b]) : env[i] = [name \in Names |-> env[i][name]]
        <4> HIDE DEF copied
        <4> QED
          OBVIOUS
      <3> HIDE DEF env
      <3> QED
        BY <2>2, <3>1
    <2>4. env = [i \in 1 .. Len(envs[b]) |-> env[i]]
      <3> HIDE DEF copied
      <3> QED
        OBVIOUS
    <2> HIDE DEF env
    <2>5. env \in [1 .. Len(envs[b]) -> [Names -> DOMAIN arrays' \cup {Absent}]]
      BY ONLY <2>3, <2>4
    <2>6. env \in Seq([Names -> DOMAIN arrays' \cup {Absent}])
      <3> DEFINE F == [Names -> DOMAIN arrays' \cup {Absent}]
      <3>1. env \in [1 .. Len(envs[b]) -> F] /\ Len(envs[b]) \in Nat
        BY <1>10, <2>5
      <3> HIDE DEF F
      <3>2. Seq(F) = UNION {[1 .. m -> F] : m \in Nat}
        BY SeqDef
      <3>3. env \in Seq(F)
        BY ONLY <3>1, <3>2
      <3> QED
        BY <3>3 DEF F
    <2>7. Len(env) = Len(envs[b])
      BY <1>10, <2>5, <2>6, LenProperties
    <2> QED
      BY <1>10, <2>6, <2>7
  <1>12. Placed(env)
    <2>1. \A i \in 1 .. Len(env) : \A name \in Names :
             env[i][name] \in {envs[b][i][name], envs[n][i][name], Address(New, i, name)}
      <3> HIDE DEF copied
      <3> QED
        BY <1>11
    <2> HIDE DEF env
    <2> QED
      BY <1>2, <1>11, <2>1, ComposedIsPlaced
  <1>13. \A d \in DOMAIN definitions : definitions[d] \in [node : Nat, maybe : BOOLEAN]
    BY DEF HeapInv, Typed
  <1>14. \A a \in DOMAIN arrays' : a \in DOMAIN arrays \/ (a[1] = New /\ a # Absent)
    <2>1. \A p : Address(New, p[1], p[2])[1] = New /\ Address(New, p[1], p[2]) # Absent
      BY DEF Address, Absent
    <2>2. \A a \in {Address(New, p[1], p[2]) : p \in copied} : a[1] = New /\ a # Absent
      BY ONLY <2>1
    <2> QED
      BY ONLY <1>6, <2>2
  <1>15. HeapInv'
    <2>1. DOMAIN arrays \subseteq DOMAIN arrays'
      BY <1>6
    <2> HIDE DEF env
    <2> QED
      BY <2>1, <1>2, <1>9, <1>11, <1>12, <1>13, <1>14, GrowthIsSound
  <1>16. ASSUME NEW i \in 1 .. Len(envs[b]), NEW name \in Names
         PROVE  HeldAfter(env[i][name]) =
                  IF anyIsMaybe(ContentOf(envs[n][i][name]))
                  THEN Merged(ContentOf(envs[b][i][name]), ContentOf(envs[n][i][name]))
                  ELSE ContentOf(envs[n][i][name])
    <2> DEFINE p == <<i, name>>
               old == envs[b][i][name]
               other == envs[n][i][name]
    <2>1. env[i][name] = IF p \in copied THEN Address(New, i, name)
                         ELSE IF other # Absent THEN other ELSE old
      <3> HIDE DEF copied
      <3> QED
        OBVIOUS
    <2>2. p \in copied <=> other # Absent /\ anyIsMaybe(ContentOf(other))
      BY DEF HasMaybe
    <2>3. p \in pushed <=> p \in copied /\ old # Absent
      OBVIOUS
    <2>4. p[1] = i /\ p[2] = name
      OBVIOUS
    <2>5. p \in copied => arrays'[Address(New, i, name)] = IF p \in pushed THEN after[old] ELSE arrays[other]
      <3> HIDE DEF copied, pushed, after
      <3>1. p \in copied => arrays'[Address(New, p[1], p[2])] =
              IF p \in pushed THEN after[envs[b][p[1]][p[2]]] ELSE arrays[envs[n][p[1]][p[2]]]
        BY <1>8
      <3> QED
        BY <3>1, <2>4
    <2> HIDE DEF env, pushed, copied, after, copies
    <2>6. CASE p \in pushed
      <3>1. after[old] = arrays[old] \cup Missing(other, old)
        BY <2>6, <2>4, <1>4 DEF PushedInPlace
      <3>2. HeldAfter(env[i][name]) = {definitions[d] : d \in arrays[old] \cup Missing(other, old)}
        BY <2>1, <2>3, <2>5, <2>6, <3>1, <1>2, NewIsFresh DEF HeldAfter
      <3>3. HeldAfter(env[i][name]) = Merged(ContentOf(old), ContentOf(other))
        BY <3>2, <2>2, <2>3, <2>6, MissingMakesMerged
      <3> QED
        BY <3>3, <2>2, <2>3, <2>6
    <2>7. CASE p \in copied /\ p \notin pushed
      <3>1. HeldAfter(env[i][name]) = {definitions[d] : d \in arrays[other]}
        BY <2>1, <2>5, <2>7, <1>2, NewIsFresh DEF HeldAfter
      <3>2. HeldAfter(env[i][name]) = ContentOf(other) /\ ContentOf(old) = {}
        BY <3>1, <2>2, <2>3, <2>7 DEF ContentOf
      <3> QED
        BY <3>2, <2>2, <2>7 DEF Merged, Nodes
    <2>8. CASE p \notin copied /\ env[i][name] # Absent
      <3>1. PICK f \in {b, n} : env[i][name] = envs[f][i][name]
        BY <2>1, <2>8
      <3>2. f \in 1 .. Len(envs) /\ i \in 1 .. Len(envs[f])
        BY <1>2
      <3>3. envs[f][i][name] \in DOMAIN arrays
        BY <3>1, <3>2, <2>8, HeldIsThere
      <3>4. after[envs[f][i][name]] = arrays[envs[f][i][name]]
        BY <1>3, <1>4, <2>3, <2>8, <3>1, OthersStay
      <3>5. HeldAfter(env[i][name]) = ContentOf(env[i][name])
        BY <3>1, <3>3, <3>4, <2>8, <1>2, <1>6 DEF HeldAfter, ContentOf
      <3>6. CASE other # Absent
        BY <3>5, <3>6, <2>1, <2>2, <2>8
      <3>7. CASE other = Absent
        BY <3>5, <3>7, <2>1, <2>8 DEF ContentOf, anyIsMaybe, Merged
      <3> QED
        BY <3>6, <3>7
    <2>9. CASE p \notin copied /\ env[i][name] = Absent
      <3>1. old = Absent /\ other = Absent
        BY <2>1, <2>9
      <3>2. ContentOf(old) = {} /\ ContentOf(other) = {} /\ HeldAfter(env[i][name]) = {}
        BY <3>1, <2>9 DEF ContentOf, HeldAfter
      <3> QED
        BY <3>2 DEF Merged
    <2> QED
      BY <2>3, <2>6, <2>7, <2>8, <2>9
  <1>17. overwriteEnvironments(Content(b), Content(n)) =
           [i \in 1 .. Len(envs[b]) |-> [name \in Names |->
               IF anyIsMaybe(ContentOf(envs[n][i][name]))
               THEN Merged(ContentOf(envs[b][i][name]), ContentOf(envs[n][i][name]))
               ELSE ContentOf(envs[n][i][name])]]
    BY <1>2, <1>10 DEF overwriteEnvironments, Content, ContentOfFrame
  <1>18. Content(new)' = [i \in 1 .. Len(env) |-> [name \in Names |-> HeldAfter(env[i][name])]]
    <2> HIDE DEF env
    <2> QED
      BY <1>2, ContentAfter
  <1> QED
    <2> HIDE DEF env
    <2> QED
      BY <1>11, <1>15, <1>16, <1>17, <1>18

(* Defining clones the arrays of the frames it goes through, and makes one. *)
LEMMA DefineIsSound ==
    ASSUME HeapInv, NEW e \in 1 .. Len(envs), NEW name \in Names,
           NEW scope \in {LocalScope, GlobalScope}, Define(e, name, scope),
           NEW new, new = New
    PROVE  /\ HeapInv'
           /\ Content(new)' = define(name, Definition(new, FALSE), scope, Content(e))
  <1> DEFINE old == envs[e]
             target == TargetFrame(name, scope, Content(e))
             cloned == {p \in Cloned(scope, old) \X Names : old[p[1]][p[2]] # Absent}
             CloneOf(d, i, n) == <<New, i, n, definitions[d].node>>
             mine == <<New, target, name, New>>
             clones == UNION {{CloneOf(d, p[1], p[2]) : d \in arrays[old[p[1]][p[2]]]} : p \in cloned}
             written == cloned \cup {<<target, name>>}
             env == [i \in 1 .. Len(old) |->
                        [n \in Names |-> IF <<i, n>> \in written THEN Address(New, i, n) ELSE old[i][n]]]
             made == [c \in clones \cup {mine} |->
                         IF c = mine THEN Definition(New, FALSE)
                         ELSE CHOOSE d \in ContentOf(old[c[2]][c[3]]) : d.node = c[4]]
             copies == [a \in {Address(New, p[1], p[2]) : p \in written} |->
                           IF a = Address(New, target, name) THEN {mine}
                           ELSE {CloneOf(d, a[2], a[3]) : d \in arrays[old[a[2]][a[3]]]}]
  <1>1. Make(env) /\ definitions' = Extended(definitions, made) /\ arrays' = Extended(arrays, copies)
    BY DEF Define
  <1>2. Make(env)
    BY ONLY <1>1
  <1>3. /\ old \in Seq([Names -> DOMAIN arrays \cup {Absent}])
        /\ Len(old) \in Nat \ {0}
    BY EnvironmentIsSound
  <1>4. target \in 1 .. Len(old) /\ Len(Content(e)) = Len(old)
    <2>1. Len(Content(e)) = Len(old)
      BY <1>3 DEF Content
    <2> HIDE DEF old
    <2> QED
      BY <1>3, <2>1, TargetIsFrame
  <1>5. Cloned(scope, old) \subseteq 1 .. Len(old) /\ target \in Cloned(scope, old)
    <2>1. 1 \in 1 .. Len(old)
      BY <1>3
    <2>2. scope = LocalScope => target = 1
      BY DEF TargetFrame, LocalScope, GlobalScope
    <2> HIDE DEF target, old
    <2> QED
      BY <1>4, <2>1, <2>2 DEF Cloned
  <1>6. ASSUME NEW p \in cloned
        PROVE  old[p[1]][p[2]] \in DOMAIN arrays
    BY <1>5, HeldIsThere
  <1>7. ASSUME NEW p \in written
        PROVE  p \in (1 .. Len(old)) \X Names /\ p = <<p[1], p[2]>>
    BY <1>4, <1>5
  <1>8. /\ mine[1] = New /\ mine[2] = target /\ mine[3] = name
        /\ \A d, i, n : /\ CloneOf(d, i, n)[1] = New /\ CloneOf(d, i, n)[2] = i
                        /\ CloneOf(d, i, n)[3] = n /\ CloneOf(d, i, n)[4] = definitions[d].node
    <2> HIDE DEF target
    <2> QED
      OBVIOUS
  <1>9. /\ DOMAIN definitions' = DOMAIN definitions \cup clones \cup {mine}
        /\ \A d \in DOMAIN definitions : definitions'[d] = definitions[d]
        /\ \A c \in clones \cup {mine} : definitions'[c] = made[c]
    <2>1. \A c \in clones \cup {mine} : c[1] = New
      <3> HIDE DEF target, cloned, mine, old
      <3>1. ASSUME NEW c \in clones
            PROVE  c[1] = New
        <4>1. PICK p \in cloned : \E d \in arrays[old[p[1]][p[2]]] : c = CloneOf(d, p[1], p[2])
          OBVIOUS
        <4> HIDE DEF CloneOf
        <4> QED
          BY ONLY <4>1, <1>8
      <3> HIDE DEF clones
      <3> QED
        BY ONLY <3>1, <1>8
    <2>2. DOMAIN made = clones \cup {mine}
      <3> HIDE DEF clones, mine
      <3> QED
        OBVIOUS
    <2> HIDE DEF clones, mine, made
    <2>3. \A c \in DOMAIN made : c \in DOMAIN made \ DOMAIN definitions
      BY <2>1, <2>2, NewIsFresh
    <2>4. /\ DOMAIN Extended(definitions, made) = DOMAIN definitions \cup DOMAIN made
          /\ \A x \in DOMAIN definitions : Extended(definitions, made)[x] = definitions[x]
          /\ \A x \in DOMAIN made \ DOMAIN definitions : Extended(definitions, made)[x] = made[x]
      BY ExtendedKeeps
    <2>5. definitions' = Extended(definitions, made)
      BY ONLY <1>1
    <2> QED
      BY ONLY <2>2, <2>3, <2>4, <2>5
  <1>10. /\ DOMAIN arrays' = DOMAIN arrays \cup {Address(New, p[1], p[2]) : p \in written}
         /\ \A a \in DOMAIN arrays : arrays'[a] = arrays[a]
         /\ \A p \in written : arrays'[Address(New, p[1], p[2])] = copies[Address(New, p[1], p[2])]
    <2> HIDE DEF written
    <2>1. DOMAIN copies = {Address(New, p[1], p[2]) : p \in written}
      OBVIOUS
    <2>2. \A p \in written : Address(New, p[1], p[2]) \in DOMAIN copies \ DOMAIN arrays
      BY <2>1, NewIsFresh
    <2> HIDE DEF copies
    <2>3. /\ DOMAIN Extended(arrays, copies) = DOMAIN arrays \cup DOMAIN copies
          /\ \A x \in DOMAIN arrays : Extended(arrays, copies)[x] = arrays[x]
          /\ \A x \in DOMAIN copies \ DOMAIN arrays : Extended(arrays, copies)[x] = copies[x]
      BY ExtendedKeeps
    <2>4. arrays' = Extended(arrays, copies)
      BY ONLY <1>1
    <2> QED
      BY ONLY <2>1, <2>2, <2>3, <2>4
  <1>11. definitions'[mine] = Definition(New, FALSE)
    <2>1. made[mine] = Definition(New, FALSE)
      <3> HIDE DEF clones, mine
      <3> QED
        OBVIOUS
    <2> HIDE DEF made, mine, clones
    <2> QED
      BY ONLY <1>9, <2>1
  <1>12. ASSUME NEW p \in cloned, NEW d \in arrays[old[p[1]][p[2]]]
         PROVE  CloneOf(d, p[1], p[2]) \in clones
    OBVIOUS
  <1>13. ASSUME NEW p \in cloned, NEW d \in arrays[old[p[1]][p[2]]], CloneOf(d, p[1], p[2]) # mine
         PROVE  definitions'[CloneOf(d, p[1], p[2])] = definitions[d]
    <2> DEFINE c == CloneOf(d, p[1], p[2])
               held == ContentOf(old[p[1]][p[2]])
    <2>1. c # mine /\ c[2] = p[1] /\ c[3] = p[2] /\ c[4] = definitions[d].node
      <3> HIDE DEF mine, CloneOf, target
      <3> QED
        BY ONLY <1>13, <1>8
    <2>2. c \in clones
      BY <1>12
    <2>3. made[c] = CHOOSE x \in ContentOf(old[c[2]][c[3]]) : x.node = c[4]
      <3> HIDE DEF clones, mine, c
      <3> QED
        BY <2>1, <2>2
    <2>4. held = {definitions[x] : x \in arrays[old[p[1]][p[2]]]}
      BY <1>6, NewIsFresh DEF ContentOf
    <2>5. definitions[d] \in held
      <3> HIDE DEF held, cloned, old
      <3> QED
        BY <2>4
    <2>6. \A x \in held : x.node = definitions[d].node => x = definitions[d]
      <3>1. \A x, y \in arrays[old[p[1]][p[2]]] : definitions[x].node = definitions[y].node => x = y
        BY <1>6 DEF HeapInv, OnePerNode
      <3> HIDE DEF held, cloned, old
      <3> QED
        BY <2>4, <3>1
    <2>7. (CHOOSE x \in held : x.node = definitions[d].node) = definitions[d]
      <3> HIDE DEF held
      <3> QED
        BY ONLY <2>5, <2>6
    <2>8. made[c] = definitions[d]
      <3> HIDE DEF c, made, old
      <3> QED
        BY ONLY <2>1, <2>3, <2>7
    <2>9. definitions'[c] = made[c]
      <3> HIDE DEF c, made, clones, mine
      <3> QED
        BY ONLY <1>9, <2>2
    <2> HIDE DEF made
    <2> QED
      BY ONLY <2>8, <2>9
  <1>14. ASSUME NEW p \in cloned, p # <<target, name>>, NEW d
         PROVE  CloneOf(d, p[1], p[2]) # mine
    <2>1. p[1] # target \/ p[2] # name
      <3>1. p = <<p[1], p[2]>>
        BY <1>7
      <3> HIDE DEF target, cloned
      <3> QED
        BY ONLY <3>1, <1>14
    <2> HIDE DEF mine, CloneOf, target
    <2> QED
      BY ONLY <2>1, <1>8
  <1>15. ASSUME NEW c \in clones, c # mine
         PROVE  \E x \in DOMAIN definitions : definitions'[c] = definitions[x]
    <2>1. PICK p \in cloned : \E d \in arrays[old[p[1]][p[2]]] : c = CloneOf(d, p[1], p[2])
      <3> HIDE DEF cloned, CloneOf, mine, old
      <3> QED
        OBVIOUS
    <2>2. PICK d \in arrays[old[p[1]][p[2]]] : c = CloneOf(d, p[1], p[2])
      BY ONLY <2>1
    <2>3. definitions'[c] = definitions[d]
      <3> HIDE DEF cloned, CloneOf, mine, old
      <3> QED
        BY ONLY <2>2, <1>13, <1>15, p \in cloned
    <2>4. d \in DOMAIN definitions
      BY <1>6 DEF HeapInv, Typed
    <2> QED
      BY ONLY <2>3, <2>4
  <1>16. \A d \in DOMAIN definitions' : definitions'[d] \in [node : Nat, maybe : BOOLEAN]
    <2>1. Definition(New, FALSE) \in [node : Nat, maybe : BOOLEAN]
      BY NewIsFresh DEF Definition
    <2>2. \A x \in DOMAIN definitions : definitions[x] \in [node : Nat, maybe : BOOLEAN]
      BY DEF HeapInv, Typed
    <2> HIDE DEF clones, mine
    <2> QED
      BY ONLY <1>9, <1>11, <1>15, <2>1, <2>2
  <1>17. \A d \in DOMAIN definitions' : d \in DOMAIN definitions \/ d[1] = New
    <2>1. ASSUME NEW c \in clones
          PROVE  c[1] = New
      <3> HIDE DEF target, cloned, mine, old
      <3>1. PICK p \in cloned : \E d \in arrays[old[p[1]][p[2]]] : c = CloneOf(d, p[1], p[2])
        OBVIOUS
      <3> HIDE DEF CloneOf
      <3> QED
        BY ONLY <3>1, <1>8
    <2> HIDE DEF clones, mine
    <2> QED
      BY ONLY <1>8, <1>9, <2>1
  <1>18. arrays'[Address(New, target, name)] = {mine}
    <2>1. <<target, name>> \in written /\ <<target, name>>[1] = target /\ <<target, name>>[2] = name
      OBVIOUS
    <2>2. Address(New, target, name) \in {Address(New, p[1], p[2]) : p \in written}
      <3> HIDE DEF written, target
      <3> QED
        BY <2>1
    <2>3. copies[Address(New, target, name)] = {mine}
      <3> HIDE DEF written, target, mine
      <3> QED
        BY <2>2
    <2> HIDE DEF copies, written, target, mine
    <2>4. arrays'[Address(New, <<target, name>>[1], <<target, name>>[2])]
            = copies[Address(New, <<target, name>>[1], <<target, name>>[2])]
      BY ONLY <1>10, <2>1
    <2> QED
      BY ONLY <2>1, <2>3, <2>4
  <1>19. ASSUME NEW p \in cloned, p # <<target, name>>
         PROVE  arrays'[Address(New, p[1], p[2])] = {CloneOf(d, p[1], p[2]) : d \in arrays[old[p[1]][p[2]]]}
    <2> DEFINE a == Address(New, p[1], p[2])
    <2>1. p \in written /\ p = <<p[1], p[2]>>
      BY <1>7
    <2>2. a[1] = New /\ a[2] = p[1] /\ a[3] = p[2] /\ Address(New, target, name)[2] = target
          /\ Address(New, target, name)[3] = name
      BY DEF Address
    <2>3. a # Address(New, target, name)
      <3> HIDE DEF a, target
      <3> QED
        BY ONLY <1>19, <2>1, <2>2
    <2>4. copies[a] = {CloneOf(d, a[2], a[3]) : d \in arrays[old[a[2]][a[3]]]}
      <3>1. a \in {Address(New, q[1], q[2]) : q \in written}
        <4> HIDE DEF written
        <4> QED
          BY <2>1
      <3> HIDE DEF written, target, mine, CloneOf, old, a
      <3> QED
        BY ONLY <3>1, <2>3
    <2>5. arrays'[a] = copies[a]
      <3> HIDE DEF written, copies
      <3> QED
        BY ONLY <1>10, <2>1
    <2> HIDE DEF a, old, CloneOf
    <2>6. arrays'[a] = {CloneOf(d, p[1], p[2]) : d \in arrays[old[p[1]][p[2]]]}
      <3> HIDE DEF copies
      <3> QED
        BY ONLY <2>2, <2>4, <2>5
    <2> QED
      BY ONLY <2>6 DEF a
  <1>20. \A a \in DOMAIN arrays : /\ arrays[a] \subseteq DOMAIN definitions
                                  /\ arrays[a] # {}
                                  /\ \A c, d \in arrays[a] : definitions[c].node = definitions[d].node => c = d
    BY DEF HeapInv, Typed, OnePerNode
  <1>21. ASSUME NEW a \in DOMAIN arrays
         PROVE  IsArray(arrays[a])'
    <2>1. arrays'[a] = arrays[a]
      BY ONLY <1>10, a \in DOMAIN arrays
    <2> HIDE DEF clones, mine
    <2>2. /\ arrays'[a] \subseteq DOMAIN definitions'
          /\ \A c \in arrays[a] : definitions'[c] = definitions[c]
      BY ONLY <1>9, <1>20, <2>1, a \in DOMAIN arrays
    <2> QED
      BY ONLY <1>20, <2>1, <2>2, a \in DOMAIN arrays DEF IsArray
  <1>22. ASSUME NEW p \in written, NEW a, a = Address(New, p[1], p[2])
         PROVE  IsArray(arrays[a])'
    <2>1. CASE p = <<target, name>>
      <3>1. arrays'[a] = {mine}
        <4>1. p[1] = target /\ p[2] = name
          BY <2>1
        <4> HIDE DEF target, mine
        <4> QED
          BY ONLY <1>18, <1>22, <4>1
      <3>2. mine \in DOMAIN definitions'
        <4> HIDE DEF mine, clones
        <4> QED
          BY ONLY <1>9
      <3> HIDE DEF mine
      <3>3. arrays'[a] \subseteq DOMAIN definitions' /\ arrays'[a] # {} /\ \A c, d \in arrays'[a] : c = d
        BY ONLY <3>1, <3>2
      <3> QED
        BY ONLY <3>3 DEF IsArray
    <2>2. CASE p # <<target, name>>
      <3> DEFINE held == arrays[old[p[1]][p[2]]]
                 copy(d) == CloneOf(d, p[1], p[2])
      <3>1. p \in cloned
        <4> HIDE DEF cloned, target
        <4> QED
          BY <2>2
      <3>2. arrays'[a] = {copy(d) : d \in held}
        <4> HIDE DEF cloned, target, CloneOf, old
        <4> QED
          BY ONLY <1>19, <1>22, <2>2, <3>1
      <3>3. /\ held # {} /\ held \subseteq DOMAIN definitions
            /\ \A c, d \in held : definitions[c].node = definitions[d].node => c = d
        <4>1. old[p[1]][p[2]] \in DOMAIN arrays
          <5> HIDE DEF cloned, old
          <5> QED
            BY ONLY <1>6, <3>1
        <4> HIDE DEF old
        <4> QED
          BY ONLY <1>20, <4>1
      <3>4. ASSUME NEW d \in held
            PROVE  copy(d) \in DOMAIN definitions' /\ definitions'[copy(d)] = definitions[d]
        <4>1. copy(d) \in clones
          <5> HIDE DEF cloned, CloneOf, clones, old
          <5> QED
            BY ONLY <1>12, <3>1, d \in held
        <4>2. copy(d) # mine
          <5> HIDE DEF cloned, CloneOf, mine, target
          <5> QED
            BY ONLY <1>14, <3>1, <2>2
        <4>3. definitions'[copy(d)] = definitions[d]
          <5> HIDE DEF cloned, CloneOf, mine, old
          <5> QED
            BY ONLY <1>13, <3>1, <4>2, d \in held
        <4> HIDE DEF copy, clones, mine
        <4> QED
          BY ONLY <1>9, <4>1, <4>3
      <3> HIDE DEF held, copy
      <3>5. arrays'[a] \subseteq DOMAIN definitions' /\ arrays'[a] # {}
        BY ONLY <3>2, <3>3, <3>4
      <3>6. \A c, d \in arrays'[a] : definitions'[c].node = definitions'[d].node => c = d
        BY ONLY <3>2, <3>3, <3>4
      <3> QED
        BY ONLY <3>5, <3>6 DEF IsArray
    <2> QED
      BY ONLY <2>1, <2>2
  <1>23. \A a \in DOMAIN arrays' : IsArray(arrays[a])'
    <2> HIDE DEF written
    <2>1. ASSUME NEW a \in DOMAIN arrays'
          PROVE  IsArray(arrays[a])'
      <3>1. a \in DOMAIN arrays \/ \E p \in written : a = Address(New, p[1], p[2])
        BY ONLY <1>10, a \in DOMAIN arrays'
      <3> QED
        BY ONLY <1>21, <1>22, <3>1
    <2> QED
      BY ONLY <2>1
  <1>24. ASSUME NEW i \in 1 .. Len(old), NEW n \in Names
         PROVE  env[i][n] = IF <<i, n>> \in written THEN Address(New, i, n) ELSE old[i][n]
    <2> HIDE DEF written, old
    <2> QED
      OBVIOUS
  <1>25. env = [i \in 1 .. Len(old) |-> [n \in Names |-> env[i][n]]]
    <2> HIDE DEF written, old
    <2> QED
      OBVIOUS
  <1>26. ASSUME NEW i \in 1 .. Len(old), NEW n \in Names
         PROVE  env[i][n] \in DOMAIN arrays' \cup {Absent}
    <2>1. old[i][n] \in DOMAIN arrays \cup {Absent}
      <3>1. old[i] \in [Names -> DOMAIN arrays \cup {Absent}]
        BY <1>3
      <3> HIDE DEF old
      <3> QED
        BY ONLY <3>1, n \in Names
    <2>2. <<i, n>> \in written => Address(New, i, n) \in DOMAIN arrays'
      <3> HIDE DEF written
      <3>1. <<i, n>> \in written => Address(New, <<i, n>>[1], <<i, n>>[2]) \in DOMAIN arrays'
        BY ONLY <1>10
      <3> QED
        BY ONLY <3>1
    <2> HIDE DEF written, env, old
    <2> QED
      BY ONLY <1>10, <1>24, <2>1, <2>2, i \in 1 .. Len(old), n \in Names
  <1>27. /\ env \in Seq([Names -> DOMAIN arrays' \cup {Absent}])
         /\ Len(env) = Len(old) /\ env # <<>>
    <2> DEFINE F == [Names -> DOMAIN arrays' \cup {Absent}]
    <2> HIDE DEF env, old
    <2>1. \A i \in 1 .. Len(old) : [n \in Names |-> env[i][n]] \in F
      BY ONLY <1>26
    <2> HIDE DEF F
    <2>2. env \in [1 .. Len(old) -> F]
      BY ONLY <1>25, <2>1
    <2>3. Seq(F) = UNION {[1 .. m -> F] : m \in Nat}
      BY SeqDef
    <2>4. env \in Seq(F)
      BY ONLY <1>3, <2>2, <2>3
    <2>5. Len(env) = Len(old)
      BY <1>3, <2>2, <2>4, LenProperties
    <2>6. env # <<>>
      BY <1>3, <2>5
    <2> QED
      BY <2>4, <2>5, <2>6 DEF F
  <1>28. Placed(env)
    <2>1. \A i \in 1 .. Len(env) : \A n \in Names : env[i][n] \in {old[i][n], old[i][n], Address(New, i, n)}
      <3> HIDE DEF env, old, written
      <3> QED
        BY ONLY <1>24, <1>27
    <2> HIDE DEF env
    <2> QED
      BY <1>27, <2>1, ComposedIsPlaced
  <1>29. HeapInv'
    <2>1. DOMAIN arrays \subseteq DOMAIN arrays' /\ DOMAIN definitions \subseteq DOMAIN definitions'
      <3> HIDE DEF written, clones, mine
      <3> QED
        BY ONLY <1>9, <1>10
    <2>2. \A a \in DOMAIN arrays' : a \in DOMAIN arrays \/ (a[1] = New /\ a # Absent)
      <3>1. \A p : Address(New, p[1], p[2])[1] = New /\ Address(New, p[1], p[2]) # Absent
        BY DEF Address, Absent
      <3> HIDE DEF written
      <3>2. \A a \in {Address(New, p[1], p[2]) : p \in written} : a[1] = New /\ a # Absent
        BY ONLY <3>1
      <3> QED
        BY ONLY <1>10, <3>2
    <2> HIDE DEF env
    <2> QED
      BY <2>1, <2>2, <1>2, <1>16, <1>17, <1>23, <1>27, <1>28, GrowthIsSound
  <1>30. ASSUME NEW i \in 1 .. Len(old), NEW n \in Names
         PROVE  HeldAfter(env[i][n]) = IF <<i, n>> = <<target, name>> THEN {Definition(New, FALSE)}
                                       ELSE ContentOf(old[i][n])
    <2> DEFINE p == <<i, n>>
    <2>1. p[1] = i /\ p[2] = n
      OBVIOUS
    <2>2. CASE p = <<target, name>>
      <3>1. p \in written /\ i = target /\ n = name
        BY <2>2
      <3>2. env[i][n] = Address(New, target, name)
        <4> HIDE DEF env, written, target, old
        <4> QED
          BY ONLY <1>24, <3>1, i \in 1 .. Len(old), n \in Names
      <3>3. HeldAfter(env[i][n]) = {definitions'[mine]}
        <4> HIDE DEF env, target, mine
        <4>1. env[i][n] # Absent /\ arrays'[env[i][n]] = {mine}
          BY <1>18, <3>2, NewIsFresh
        <4> QED
          BY ONLY <4>1 DEF HeldAfter
      <3> HIDE DEF mine, env
      <3> QED
        BY ONLY <1>11, <2>2, <3>3
    <2>3. CASE p # <<target, name>> /\ p \in cloned
      <3> DEFINE held == arrays[old[i][n]]
      <3>1. env[i][n] = Address(New, i, n)
        <4>1. p \in written
          BY <2>3
        <4> HIDE DEF env, written, old
        <4> QED
          BY ONLY <1>24, <4>1, i \in 1 .. Len(old), n \in Names
      <3>2. arrays'[env[i][n]] = {CloneOf(d, i, n) : d \in held}
        <4> HIDE DEF cloned, target, CloneOf, old, env
        <4>1. arrays'[Address(New, p[1], p[2])] = {CloneOf(d, p[1], p[2]) : d \in arrays[old[p[1]][p[2]]]}
          BY ONLY <1>19, <2>3
        <4> QED
          BY ONLY <4>1, <2>1, <3>1
      <3>3. \A d \in held : definitions'[CloneOf(d, i, n)] = definitions[d]
        <4>1. ASSUME NEW d \in arrays[old[p[1]][p[2]]]
              PROVE  definitions'[CloneOf(d, p[1], p[2])] = definitions[d]
          <5> HIDE DEF cloned, CloneOf, mine, target, old, p
          <5> QED
            BY ONLY <1>13, <1>14, <2>3, d \in arrays[old[p[1]][p[2]]]
        <4> HIDE DEF CloneOf, old
        <4> QED
          BY ONLY <4>1, <2>1
      <3>4. env[i][n] # Absent /\ old[i][n] # Absent
        <4>1. old[p[1]][p[2]] # Absent
          BY <2>3
        <4> HIDE DEF env, old
        <4> QED
          BY <2>1, <3>1, <4>1, NewIsFresh
      <3> HIDE DEF env, old, CloneOf, held
      <3>5. HeldAfter(env[i][n]) = {definitions[d] : d \in held}
        BY ONLY <3>2, <3>3, <3>4 DEF HeldAfter
      <3>6. ContentOf(old[i][n]) = {definitions[d] : d \in held}
        BY ONLY <3>4 DEF ContentOf, held
      <3> HIDE DEF target
      <3> QED
        BY ONLY <3>5, <3>6, <2>3
    <2>4. CASE p # <<target, name>> /\ p \notin cloned
      <3>1. env[i][n] = old[i][n]
        <4>1. p \notin written
          BY <2>4
        <4> HIDE DEF env, written, old
        <4> QED
          BY ONLY <1>24, <4>1, i \in 1 .. Len(old), n \in Names
      <3>2. HeldAfter(old[i][n]) = ContentOf(old[i][n])
        <4>1. CASE old[i][n] = Absent
          BY ONLY <4>1 DEF HeldAfter, ContentOf
        <4>2. CASE old[i][n] # Absent
          <5>1. old[i][n] \in DOMAIN arrays
            BY <4>2, HeldIsThere
          <5> HIDE DEF old, clones, mine, written
          <5>2. arrays'[old[i][n]] = arrays[old[i][n]]
            BY ONLY <1>10, <5>1
          <5>3. \A d \in arrays[old[i][n]] : definitions'[d] = definitions[d]
            BY ONLY <1>9, <1>20, <5>1
          <5> QED
            BY ONLY <4>2, <5>2, <5>3 DEF HeldAfter, ContentOf
        <4> QED
          BY ONLY <4>1, <4>2
      <3> HIDE DEF env, old, target, cloned
      <3> QED
        BY ONLY <3>1, <3>2, <2>4
    <2> QED
      BY ONLY <2>2, <2>3, <2>4
  <1>31. define(name, Definition(new, FALSE), scope, Content(e)) =
           [i \in 1 .. Len(old) |-> [n \in Names |->
               IF <<i, n>> = <<target, name>> THEN {Definition(New, FALSE)} ELSE ContentOf(old[i][n])]]
    <2>1. Content(e) = [i \in 1 .. Len(old) |-> [n \in Names |-> ContentOf(old[i][n])]]
      BY DEF Content, ContentOfFrame
    <2>2. define(name, Definition(new, FALSE), scope, Content(e)) =
            [Content(e) EXCEPT ![target][name] = {Definition(New, FALSE)}]
      BY DEF define
    <2> DEFINE value == [i \in 1 .. Len(old) |-> [n \in Names |-> ContentOf(old[i][n])]]
    <2> HIDE DEF target, old
    <2>3. [value EXCEPT ![target][name] = {Definition(New, FALSE)}] =
            [i \in 1 .. Len(old) |-> IF i = target THEN [value[i] EXCEPT ![name] = {Definition(New, FALSE)}]
                                                   ELSE value[i]]
      BY ONLY <1>4
    <2>4. ASSUME NEW i \in 1 .. Len(old)
          PROVE  (IF i = target THEN [value[i] EXCEPT ![name] = {Definition(New, FALSE)}] ELSE value[i])
                 = [n \in Names |-> IF <<i, n>> = <<target, name>> THEN {Definition(New, FALSE)}
                                                                  ELSE ContentOf(old[i][n])]
      BY ONLY i \in 1 .. Len(old), name \in Names
    <2> HIDE DEF value
    <2>5. [i \in 1 .. Len(old) |-> IF i = target THEN [value[i] EXCEPT ![name] = {Definition(New, FALSE)}]
                                                ELSE value[i]] =
           [i \in 1 .. Len(old) |-> [n \in Names |->
               IF <<i, n>> = <<target, name>> THEN {Definition(New, FALSE)} ELSE ContentOf(old[i][n])]]
      BY ONLY <2>4
    <2>6. Content(e) = value
      BY ONLY <2>1 DEF value
    <2> QED
      BY ONLY <2>2, <2>3, <2>5, <2>6
  <1>32. Content(new)' = [i \in 1 .. Len(env) |-> [n \in Names |-> HeldAfter(env[i][n])]]
    <2> HIDE DEF env
    <2> QED
      BY <1>2, ContentAfter
  <1> QED
    <2> HIDE DEF env, old, target
    <2>1. [i \in 1 .. Len(env) |-> [n \in Names |-> HeldAfter(env[i][n])]] =
            [i \in 1 .. Len(old) |-> [n \in Names |->
               IF <<i, n>> = <<target, name>> THEN {Definition(New, FALSE)} ELSE ContentOf(old[i][n])]]
      BY ONLY <1>27, <1>30
    <2> QED
      BY ONLY <1>29, <1>31, <1>32, <2>1

-----------------------------------------------------------------------------
(* The theorems.                                                            *)

(* Whatever is done next, the heap stays as it should be.                   *)
LEMMA StepIsSound == HeapInv /\ [Next]_vars => HeapInv'
  <1> SUFFICES ASSUME HeapInv, [Next]_vars PROVE HeapInv'
    OBVIOUS
  <1>1. PICK new : new = New
    OBVIOUS
  <1>2. CASE InitializeClean
    BY <1>2, InitializeCleanIsSound
  <1>3. ASSUME NEW e \in 1 .. Len(envs), Push(e)
        PROVE  HeapInv'
    BY <1>3, PushIsSound
  <1>4. ASSUME NEW e \in 1 .. Len(envs), Pop(e)
        PROVE  HeapInv'
    BY <1>4, PopIsSound
  <1>5. ASSUME NEW e \in 1 .. Len(envs), NEW name \in Names, NEW scope \in {LocalScope, GlobalScope},
               Define(e, name, scope)
        PROVE  HeapInv'
    BY <1>1, <1>5, DefineIsSound
  <1>6. ASSUME NEW e \in 1 .. Len(envs), NEW name \in Names, MakeAllMaybe(e, name)
        PROVE  HeapInv'
    BY <1>6, MakeAllMaybeIsSound
  <1>7. ASSUME NEW e \in 1 .. Len(envs), NEW n \in 1 .. Len(envs), AppendEnvironments(e, n)
        PROVE  HeapInv'
    BY <1>1, <1>7, AppendIsSound
  <1>8. ASSUME NEW e \in 1 .. Len(envs), NEW n \in 1 .. Len(envs), OverwriteEnvironments(e, n)
        PROVE  HeapInv'
    BY <1>1, <1>8, OverwriteIsSound
  <1>9. CASE UNCHANGED vars
    <2>1. definitions' = definitions /\ arrays' = arrays /\ envs' = envs
      BY <1>9 DEF vars
    <2>2. Typed' /\ Fresh' /\ OnePerNode'
      BY <2>1 DEF HeapInv, Typed, Fresh, OnePerNode
    <2>3. \A e \in 1 .. Len(envs') : AtHome(envs[e])'
      BY <2>1 DEF HeapInv, AtHome, HomeLevel
    <2> QED
      BY <2>2, <2>3 DEF HeapInv
  <1> QED
    BY <1>2, <1>3, <1>4, <1>5, <1>6, <1>7, <1>8, <1>9 DEF Next

(* The invariant: environments hold arrays only where these are at home, no *)
(* two of a kind are at one address, and none has two definitions of a node. *)
THEOREM HeapIsSound == Spec => []HeapInv
  <1> QED
    BY InitIsSound, StepIsSound, PTL DEF Spec

(* No environment has an address of nothing, and no array is empty.         *)
THEOREM NoAddressDangles == Spec => []TypeOK
  <1>1. HeapInv => TypeOK
    <2> SUFFICES ASSUME HeapInv PROVE TypeOK
      OBVIOUS
    <2>1. \A a \in DOMAIN arrays : arrays[a] # {} /\ arrays[a] \subseteq DOMAIN definitions
      BY DEF HeapInv, Typed
    <2>2. ASSUME NEW e \in 1 .. Len(envs), NEW i \in 1 .. Len(envs[e]), NEW name \in Names
          PROVE  envs[e][i][name] \in DOMAIN arrays \cup {Absent}
      BY HeldIsThere
    <2> QED
      BY <2>1, <2>2 DEF TypeOK
  <1> QED
    BY <1>1, HeapIsSound, PTL

(* append, overwrite and define return, for all sequences of calls on       *)
(* environments that share their arrays, what they would return if          *)
(* environments were values (src/dataflow/environments/).                   *)
THEOREM SharingDoesNotShow == Spec => ResultsAreRight
  <1>1. HeapInv /\ [Next]_vars =>
          [\A new \in {New} :
             /\ \A b, n \in 1 .. Len(envs) :
                   /\ AppendEnvironments(b, n) =>
                         Content(new)' = appendEnvironments(Content(b), Content(n))
                   /\ OverwriteEnvironments(b, n) =>
                         Content(new)' = overwriteEnvironments(Content(b), Content(n))
             /\ \A e \in 1 .. Len(envs), name \in Names, scope \in {LocalScope, GlobalScope} :
                   Define(e, name, scope) =>
                         Content(new)' = define(name, Definition(new, FALSE), scope, Content(e))]_vars
    <2> SUFFICES ASSUME HeapInv, NEW new, new = New
                 PROVE
             /\ \A b, n \in 1 .. Len(envs) :
                   /\ AppendEnvironments(b, n) =>
                         Content(new)' = appendEnvironments(Content(b), Content(n))
                   /\ OverwriteEnvironments(b, n) =>
                         Content(new)' = overwriteEnvironments(Content(b), Content(n))
             /\ \A e \in 1 .. Len(envs), name \in Names, scope \in {LocalScope, GlobalScope} :
                   Define(e, name, scope) =>
                         Content(new)' = define(name, Definition(new, FALSE), scope, Content(e))
      OBVIOUS
    <2>1. ASSUME NEW b \in 1 .. Len(envs), NEW n \in 1 .. Len(envs), AppendEnvironments(b, n)
          PROVE  Content(new)' = appendEnvironments(Content(b), Content(n))
      BY <2>1, AppendIsSound
    <2>2. ASSUME NEW b \in 1 .. Len(envs), NEW n \in 1 .. Len(envs), OverwriteEnvironments(b, n)
          PROVE  Content(new)' = overwriteEnvironments(Content(b), Content(n))
      BY <2>2, OverwriteIsSound
    <2>3. ASSUME NEW e \in 1 .. Len(envs), NEW name \in Names, NEW scope \in {LocalScope, GlobalScope},
                 Define(e, name, scope)
          PROVE  Content(new)' = define(name, Definition(new, FALSE), scope, Content(e))
      BY <2>3, DefineIsSound
    <2> QED
      BY <2>1, <2>2, <2>3
  <1> QED
    BY <1>1, HeapIsSound, PTL DEF Spec, ResultsAreRight

(* Environments stay, their arrays only grow, and definitions keep their    *)
(* nodes and never become certain again.                                    *)
Grows ==
    /\ \A e \in 1 .. Len(envs) : envs'[e] = envs[e]
    /\ \A a \in DOMAIN arrays : arrays[a] \subseteq arrays'[a]
    /\ \A d \in DOMAIN definitions : /\ definitions'[d].node = definitions[d].node
                                     /\ definitions[d].maybe => definitions'[d].maybe

(* No operation takes anything away.                                        *)
LEMMA StepGrows == HeapInv /\ [Next]_vars => Grows
  <1> SUFFICES ASSUME HeapInv, [Next]_vars PROVE Grows
    OBVIOUS
  <1>1. ASSUME NEW env, Make(env)
        PROVE  \A e \in 1 .. Len(envs) : envs'[e] = envs[e]
    BY <1>1 DEF Make, HeapInv, Typed
  <1>2. ASSUME NEW env, Make(env), UNCHANGED <<definitions, arrays>>
        PROVE  Grows
    BY <1>1, <1>2 DEF Grows
  <1>3. ASSUME NEW base, NEW next, NEW pushed, NEW a \in DOMAIN arrays
        PROVE  /\ DOMAIN WithPushes(base, next, pushed) = DOMAIN arrays
               /\ arrays[a] \subseteq WithPushes(base, next, pushed)[a]
    BY DEF WithPushes
  <1>4. CASE InitializeClean
    BY <1>2, <1>4 DEF InitializeClean
  <1>5. ASSUME NEW e \in 1 .. Len(envs), Push(e) \/ Pop(e)
        PROVE  Grows
    BY <1>2, <1>5 DEF Push, Pop
  <1>6. ASSUME NEW e \in 1 .. Len(envs), NEW name \in Names, NEW scope, Define(e, name, scope)
        PROVE  Grows
    <2>1. PICK env, made, copies : /\ Make(env)
                                   /\ definitions' = Extended(definitions, made)
                                   /\ arrays' = Extended(arrays, copies)
      BY <1>6 DEF Define
    <2>2. \A d \in DOMAIN definitions : Extended(definitions, made)[d] = definitions[d]
      BY ExtendedKeeps
    <2>3. \A a \in DOMAIN arrays : Extended(arrays, copies)[a] = arrays[a]
      BY ExtendedKeeps
    <2> QED
      BY <2>1, <2>2, <2>3, <1>1 DEF Grows
  <1>7. ASSUME NEW e \in 1 .. Len(envs), NEW name \in Names, MakeAllMaybe(e, name)
        PROVE  Grows
    <2>1. /\ arrays' = arrays /\ envs' = envs
          /\ \A d \in DOMAIN definitions :
                definitions'[d] = definitions[d] \/ definitions'[d] = [definitions[d] EXCEPT !.maybe = TRUE]
      BY <1>7 DEF MakeAllMaybe
    <2>2. \A d \in DOMAIN definitions : definitions[d] \in [node : Nat, maybe : BOOLEAN]
      BY DEF HeapInv, Typed
    <2> QED
      BY <2>1, <2>2 DEF Grows
  <1>8. ASSUME NEW b \in 1 .. Len(envs), NEW n \in 1 .. Len(envs), AppendEnvironments(b, n)
        PROVE  Grows
    <2>1. \E env, pushed : Make(env) /\ arrays' = WithPushes(envs[b], envs[n], pushed) /\ definitions' = definitions
      BY <1>8 DEF AppendEnvironments
    <2> QED
      BY <2>1, <1>1, <1>3 DEF Grows
  <1>9. ASSUME NEW b \in 1 .. Len(envs), NEW n \in 1 .. Len(envs), OverwriteEnvironments(b, n)
        PROVE  Grows
    <2>1. PICK env, pushed, copies : /\ Make(env) /\ definitions' = definitions
                                     /\ arrays' = Extended(WithPushes(envs[b], envs[n], pushed), copies)
      BY <1>9 DEF OverwriteEnvironments
    <2> DEFINE after == WithPushes(envs[b], envs[n], pushed)
    <2>2. DOMAIN after = DOMAIN arrays /\ \A a \in DOMAIN arrays : arrays[a] \subseteq after[a]
      <3>1. DOMAIN after = DOMAIN arrays
        BY DEF WithPushes
      <3>2. ASSUME NEW a \in DOMAIN arrays
            PROVE  arrays[a] \subseteq after[a]
        BY <1>3
      <3> QED
        BY <3>1, <3>2
    <2> HIDE DEF after
    <2>3. \A a \in DOMAIN after : Extended(after, copies)[a] = after[a]
      BY ExtendedKeeps
    <2>4. arrays' = Extended(after, copies)
      BY <2>1 DEF after
    <2> QED
      BY <2>1, <2>2, <2>3, <2>4, <1>1 DEF Grows
  <1>10. CASE UNCHANGED vars
    BY <1>10 DEF Grows, vars
  <1> QED
    BY <1>4, <1>5, <1>6, <1>7, <1>8, <1>9, <1>10 DEF Next

(* Environments handed out before only gain definitions, or have theirs     *)
(* turned maybe: nothing the analysis has found is lost by sharing.         *)
THEOREM NothingIsTakenAway == Spec => ExistingOnlyWeakened
  <1>1. HeapInv /\ [Next]_vars =>
          [\A e \in 1 .. Len(envs) : \A i \in 1 .. Len(envs[e]) : \A name \in Names :
              Covers(Content(e)'[i][name], Content(e)[i][name])]_vars
    <2> SUFFICES ASSUME HeapInv, Grows,
                        NEW e \in 1 .. Len(envs), NEW i \in 1 .. Len(envs[e]), NEW name \in Names
                 PROVE  Covers(Content(e)'[i][name], Content(e)[i][name])
      BY StepGrows
    <2> DEFINE a == envs[e][i][name]
    <2>1. Content(e)[i][name] = ContentOf(a)
      BY DEF Content, ContentOfFrame
    <2>2. Content(e)'[i][name] = HeldAfter(a)
      <3>1. envs'[e] = envs[e]
        BY DEF Grows
      <3> QED
        BY <3>1 DEF Content, ContentOfFrame, ContentOf, HeldAfter
    <2>3. ASSUME a # Absent, NEW d \in arrays[a]
          PROVE  /\ d \in arrays'[a]
                 /\ definitions'[d].node = definitions[d].node
                 /\ definitions[d].maybe => definitions'[d].maybe
      <3>1. a \in DOMAIN arrays
        BY <2>3, HeldIsThere
      <3>2. arrays[a] \subseteq DOMAIN definitions
        BY <3>1 DEF HeapInv, Typed
      <3> HIDE DEF a
      <3> QED
        BY <3>1, <3>2 DEF Grows
    <2>4. Covers(HeldAfter(a), ContentOf(a))
      <3> HIDE DEF a
      <3> QED
        BY ONLY <2>3 DEF Covers, HeldAfter, ContentOf
    <2> QED
      BY <2>1, <2>2, <2>4
  <1> QED
    BY <1>1, HeapIsSound, PTL DEF Spec, ExistingOnlyWeakened
=============================================================================
