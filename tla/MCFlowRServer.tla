---------------------------- MODULE MCFlowRServer ----------------------------
(* Scripts of clients for the runs of FlowRServer. *)
EXTENDS FlowRServer, TLC

CONSTANTS c1, c2

M(id, type, token, file, criterion) ==
    [id |-> id, type |-> type, token |-> token, file |-> file, criterion |-> criterion]

Analyse(id, token, file) == M(id, "analysis", token, file, None)
Slice(id, token, criterion) == M(id, "slice", token, None, criterion)

(* One client: analyses under a token, slices, re-analyses, slices again, and *)
(* makes every mistake that is answered by an error.                          *)
OneClient == c1 :> <<
    Analyse("a1", "t", "f"),
    Slice("s1", "t", "k1"),
    Slice("s2", "u", "k1"),
    Slice("s3", "t", "unknown"),
    M("g1", "garbage", None, None, None),
    Analyse("a2", "t", "g"),
    Slice("s4", "t", "k2"),
    M("e1", "expression", None, None, None),
    M("d1", "command", None, "h", None),
    M("i1", "invalid", None, None, None),
    Analyse("a3", "u", "bad"),
    M("x1", "unsupported", None, None, None) >>

(* A second client whose messages do not need the shell, and who uses a token *)
(* of the first one.                                                          *)
WithNeighbour == OneClient @@ c2 :> <<
    Slice("s5", "t", "k1"),
    M("g2", "garbage", None, None, None),
    M("i2", "invalid", None, None, None),
    Slice("s6", "u", "k2"),
    M("x2", "unsupported", None, None, None) >>

(* Two clients whose requests overlap. *)
TwoClients ==
    c1 :> << Analyse("a1", "t", "f"), Slice("s1", "t", "k1") >> @@
    c2 :> << Analyse("a2", "t", "g"), M("e1", "expression", None, None, None) >>

SliceAtOnce == c1 :> << Analyse("a1", "t", "f"), Slice("s1", "t", "k1") >>

SliceAfterError == c1 :> << Analyse("a1", "t", "bad"), Slice("s1", "t", "k1") >>

TwoMessages == c1 :> << M("i1", "invalid", None, None, None), Slice("s1", "t", "k1") >>

FailingCommand == c1 :> << M("d1", "command", None, "bad", None) >>

=============================================================================
