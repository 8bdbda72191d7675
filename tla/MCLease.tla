------------------------------- MODULE MCLease -------------------------------
(* The lease and the relay of desktop ops that depends on it, two browsers,    *)
(* the first of which may dial a replacement of its control socket.            *)
EXTENDS LeaseChannel, TLC

CONSTANTS c1, c2, p1, p2, s1, s2, s3, r1
MCClients == {c1, c2}
MCPages == {p1, p2}
MCClientOf == p1 :> c1 @@ p2 :> c2
MCSockets == {s1, s2, s3}
MCPageOf == s1 :> p1 @@ s2 :> p1 @@ s3 :> p2
MCCalls == {r1}

ASSUME LeaseAssumption

\* Bound: a click, a ping or a call.  The lease moves by connects and ends too.
OneRequest ==
    clicks + pings + Cardinality({r \in Calls : call[r].phase # "new"}) <= 1

\* The first browser's sockets are alike
TwoDials == Permutations({s1, s2})
=============================================================================
