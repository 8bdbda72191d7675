------------------------- MODULE MCTerminalControl -------------------------
EXTENDS TerminalControl, TLC
CONSTANTS w1, e1, e2, s1, s2, c1
MCWindows == {w1}
MCEntries == {e1, e2}
MCSockets == {s1, s2}
MCClients == {c1}
MCWindowOf == [e \in MCEntries |-> w1]
MCClientOf == s1 :> c1 @@ s2 :> NoClient

MCSymmetry == Permutations(MCEntries)
\* One producer connection, for the liveness properties
MCOneEntry == {e1}
MCOneWindowOf == [e \in MCOneEntry |-> w1]
=============================================================================
