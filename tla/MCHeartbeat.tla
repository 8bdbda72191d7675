------------------------------ MODULE MCHeartbeat ------------------------------
(* Two terminals, on one host or on two. *)
EXTENDS Heartbeat, TLC
CONSTANTS h1, h2, k1, k2, r1, r2
OneHost == [k \in Keys |-> h1]
None == [restart |-> 0, die |-> 0, away |-> 0, fail |-> 0, edit |-> 0, dog |-> 0, sleep |-> 0,
         click |-> 0, close |-> 0, launch |-> 0, flip |-> 0, other |-> 0, catch |-> 0]
BudgetFast == [None EXCEPT !.restart = 1, !.launch = 1]
================================================================================
