---------------------------- MODULE MCStaticSlicer ----------------------------
(***************************************************************************)
(* The graph of an R program, with the ids of the AST counted from one:    *)
(*                                                                         *)
(*    z <- 0                    1 (z)                                      *)
(*    a <- function() { y }     4 (a)  5 (y)  7 (function)                 *)
(*    f <- function() { a() }   9 (f)  11 (a())  13 (function)             *)
(*    y <- 1                    15 (y)                                     *)
(*    f()                       19                                         *)
(*    if(z) y <- 2              20 (z)  21 (y)  25 (if)                    *)
(*    f()                       27                                         *)
(*    g <- function() { g() }   28 (g)  30 (g())  32 (function)            *)
(*    g()                       35                                         *)
(*                                                                         *)
(* Its parts are those of the tests: functions using the environment,      *)
(* conditionals and endless recursion (calls-tests.ts, simple-tests.ts).   *)
(***************************************************************************)
EXTENDS StaticSlicer, TLC

MCIds == 1 .. 36

MCParent ==
    [id \in MCIds |->
        CASE id = 36 -> NoParent
          [] id = 21 \/ id = 22 -> 23
          [] id = 23 -> 24
          [] id = 20 \/ id = 24 -> 25
          [] OTHER -> 36]

MCGuard == [id \in MCIds |-> IF id = 25 THEN {20} ELSE {}]

MCVertices == {1, 4, 5, 7, 9, 11, 13, 15, 19, 20, 21, 27, 28, 30, 32, 35}

E(from, type, to) == [from |-> from, to |-> to, type |-> type]

MCEdges == {
    E(4, "defined-by", 7), E(9, "defined-by", 13), E(28, "defined-by", 32),
    E(19, "reads", 9), E(19, "calls", 13), E(19, "reads", 4), E(19, "returns", 11),
    E(27, "reads", 9), E(27, "calls", 13), E(27, "reads", 4), E(27, "returns", 11),
    E(20, "reads", 1), E(15, "same-def-def", 21), E(21, "same-def-def", 15),
    E(35, "reads", 28), E(35, "calls", 32), E(35, "returns", 30) }

Bound(bindings) == <<bindings @@ EmptyFrame>>

Sure(node) == {Definition(node, FALSE)}

BeforeIf == "z" :> Sure(1) @@ "a" :> Sure(4) @@ "f" :> Sure(9) @@ "y" :> Sure(15)

AfterIf == "y" :> {Definition(15, TRUE), Definition(21, TRUE)} @@ BeforeIf

InFunction == <<EmptyFrame, EmptyFrame>>

MCCalls ==
    11 :> [name |-> "a", env |-> InFunction] @@
    19 :> [name |-> "f", env |-> Bound(BeforeIf)] @@
    27 :> [name |-> "f", env |-> Bound(AfterIf)] @@
    30 :> [name |-> "g", env |-> InFunction] @@
    35 :> [name |-> "g", env |-> Bound("g" :> Sure(28) @@ AfterIf)]

MCDefinitions ==
    7 :> [in |-> {"y"}, exitPoints |-> {5}] @@
    13 :> [in |-> {"a"}, exitPoints |-> {11}] @@
    32 :> [in |-> {"g"}, exitPoints |-> {30}]

(* The slices of single criteria.                                           *)
Expected ==
    1 :> {1} @@ 5 :> {5} @@ 21 :> {1, 20, 21} @@
    19 :> {19, 9, 13, 11, 4, 7, 5, 15} @@
    27 :> {27, 9, 13, 11, 4, 7, 5, 15, 21, 20, 1} @@
    35 :> {35, 28, 32, 30}

Single == {<<19>>, <<21>>, <<27>>, <<35>>}

Several == {<<19, 27>>, <<21, 5>>, <<27, 27>>, <<35, 1>>}

All == Single \cup Several

(* The slice for several criteria is the union of the slices of each, and   *)
(* these are the expected ones: a call takes what its function reads from   *)
(* where it is called, and a node in a branch takes the condition.          *)
SliceIsAsExpected ==
    Done /\ timesHitThreshold = 0 =>
        result = UNION {Expected[decodedCriteria[i]] : i \in 1 .. Len(decodedCriteria)}

=============================================================================
