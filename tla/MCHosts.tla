------------------------------- MODULE MCHosts -------------------------------
(* The page and its hosts: the heartbeat that polls them, and the door every   *)
(* request goes through.  What the heartbeat asks goes through the door too,   *)
(* but a poll is an answer or none to it, whichever way it went: `part` names  *)
(* the instance a behaviour exercises, and the other half stays as it began.   *)
(* The part "tokens" is the door under the constants of the configuration.     *)
EXTENDS HostDoor, TLC

CONSTANTS NoRun, h1, h2, k1, k2, r1, r2, ha, hb, hc, px, o1, o2
VARIABLES part,
          up, running, reg, waited, poll, flight, run, cur, inFlight, win, miss, chips,
          pending, due, restoring, quiet, seen, fast, slow, openTerms, layout, gcMiss, pins,
          off, ready, epoch, chains, launching, frames, catch,
          swept, evidence, bleft

-----------------------------------------------------------------------------
(* The heartbeat.                                                             *)

Never == [restart |-> 0, die |-> 0, away |-> 0, fail |-> 0, edit |-> 0, dog |-> 0, sleep |-> 0,
          click |-> 0, close |-> 0, launch |-> 0, flip |-> 0, other |-> 0, catch |-> 0]
Alone == [k \in {k1, k2} |-> h1]
Apart == k1 :> h1 @@ k2 :> h2

\* A host restarts, another host's address is edited
Grace == INSTANCE Heartbeat WITH
    Hosts <- {h1, h2}, Keys <- {k1, k2}, HostOf <- Apart, Runs <- {r1}, MissClose <- 2,
    Living <- {k1, k2}, Late <- {}, Terms <- {}, left <- bleft,
    Budget <- [Never EXCEPT !.restart = 1, !.edit = 1, !.click = 2]
\* A host that goes away, sessions that die
Death == INSTANCE Heartbeat WITH
    Hosts <- {h1}, Keys <- {k1, k2}, HostOf <- Alone, Runs <- {r1}, MissClose <- 2,
    Living <- {k1, k2}, Late <- {}, Terms <- {k1, k2}, left <- bleft,
    Budget <- [Never EXCEPT !.die = 1, !.away = 1, !.close = 1, !.sleep = 1]
\* The watchdog, the lease and another device
Flips == INSTANCE Heartbeat WITH
    Hosts <- {h1}, Keys <- {k1, k2}, HostOf <- Alone, Runs <- {r1, r2}, MissClose <- 2,
    Living <- {k1}, Late <- {}, Terms <- {k1}, left <- bleft,
    Budget <- [Never EXCEPT !.flip = 1, !.dog = 1, !.other = 1, !.launch = 1]
\* A catch-up between a launch, a watchdog and a poll that fails
Catches == INSTANCE Heartbeat WITH
    Hosts <- {h1}, Keys <- {k1, k2}, HostOf <- Alone, Runs <- {r1, r2}, MissClose <- 2,
    Living <- {k1}, Late <- {}, Terms <- {}, left <- bleft,
    Budget <- [Never EXCEPT !.catch = 1, !.dog = 1, !.launch = 1, !.fail = 1]

-----------------------------------------------------------------------------
(* The door.                                                                  *)

None0 == [polls |-> 0, mints |-> 0, idents |-> 0, submits |-> 0, switches |-> 0, adds |-> 0, losses |-> 0,
          opens |-> 0, edits |-> 0, removes |-> 0, grants |-> 0, moves |-> 0, rotations |-> 0]
\* A machine's password, right or wrong
Own(m, n) == Password(m, m, n)
\* A name both networks resolve alike is o2; o1 is one machine here, another there
Named(way, o) == IF o = o1 THEN <<way, o>> ELSE <<"any", o>>
This(n) == [NoRec EXCEPT !.on = TRUE, !.url = Home, !.tok = Own(<<"any", Home>>, n)]
Direct(u) == [NoRec EXCEPT !.on = TRUE, !.url = u, !.tok = Own(Named("direct", u), 1)]
Via(x, o) == [NoRec EXCEPT !.on = TRUE, !.via = "server", !.peer = x, !.url = o, !.paired = o,
                           !.tok = Own(Named("server", o), 1)]
OneVia(n) == [rec |-> (Local :> This(n) @@ ha :> Via(px, o1)), peers |-> (px :> o1)]
OneDirect == [rec |-> (Local :> This(1) @@ ha :> Direct(o1)), peers |-> (px :> o1)]
Spare == [rec |-> (Local :> This(1) @@ ha :> Direct(o1) @@ hb :> Via(px, o2) @@ hc :> NoRec), peers |-> (px :> o2)]

\* Polls, a login and a ticket while the peer moves and the way in is switched
TokenStarts == {OneVia(1)}
TokenBudget == [None0 EXCEPT !.polls = 1, !.mints = 1, !.submits = 1, !.opens = 1, !.moves = 1, !.switches = 1]
\* Passwords are rotated; this broker's own may be wrong from the start
Nags == INSTANCE HostDoor WITH
    Hosts <- {ha}, Peers <- {px}, Origins <- {o1, o2}, Shared <- {o2}, Slots <- {1, 2},
    Starts <- {OneVia(1), OneVia(2)},
    Budget <- [None0 EXCEPT !.polls = 2, !.submits = 1, !.moves = 1, !.rotations = 1, !.losses = 1]
\* Hosts are added, edited, switched and removed
Twins == INSTANCE HostDoor WITH
    Hosts <- {ha, hb, hc}, Peers <- {px}, Origins <- {o1, o2}, Shared <- {o2}, Slots <- {1, 2}, Starts <- {Spare},
    Budget <- [None0 EXCEPT !.adds = 2, !.switches = 1, !.edits = 1, !.moves = 1, !.removes = 1]
\* A clipboard grant, an identity and a login, while the host's record changes
Grants == INSTANCE HostDoor WITH
    Hosts <- {ha}, Peers <- {px}, Origins <- {o1, o2}, Shared <- {o2}, Slots <- {1}, Starts <- {OneDirect},
    Budget <- [None0 EXCEPT !.grants = 1, !.edits = 2, !.idents = 1, !.removes = 1,
                             !.opens = 1, !.submits = 1, !.polls = 1]

-----------------------------------------------------------------------------
ASSUME Grace!HeartbeatAssumption /\ Death!HeartbeatAssumption /\ Flips!HeartbeatAssumption
       /\ Catches!HeartbeatAssumption
ASSUME HostDoorAssumption /\ Nags!HostDoorAssumption /\ Twins!HostDoorAssumption
       /\ Grants!HostDoorAssumption

beat == <<up, running, reg, waited, poll, flight, run, cur, inFlight, win, miss, chips,
          pending, due, restoring, quiet, seen, fast, slow, openTerms, layout, gcMiss, pins,
          off, ready, epoch, chains, launching, frames, catch,
          swept, evidence, bleft>>
door == vars

MCInit ==
        \/ part = "grace" /\ Grace!Init /\ Grants!Init
        \/ part = "death" /\ Death!Init /\ Grants!Init
        \/ part = "flips" /\ Flips!Init /\ Grants!Init
        \/ part = "catches" /\ Catches!Init /\ Grants!Init
        \/ part = "tokens" /\ Init /\ Catches!Init
        \/ part = "nags" /\ Nags!Init /\ Catches!Init
        \/ part = "twins" /\ Twins!Init /\ Catches!Init
        \/ part = "grants" /\ Grants!Init /\ Catches!Init

MCNext ==
        \/ part = "grace" /\ Grace!Next /\ UNCHANGED <<part, door>>
        \/ part = "death" /\ Death!Next /\ UNCHANGED <<part, door>>
        \/ part = "flips" /\ Flips!Next /\ UNCHANGED <<part, door>>
        \/ part = "catches" /\ Catches!Next /\ UNCHANGED <<part, door>>
        \/ part = "tokens" /\ Next /\ UNCHANGED <<part, beat>>
        \/ part = "nags" /\ Nags!Next /\ UNCHANGED <<part, beat>>
        \/ part = "twins" /\ Twins!Next /\ UNCHANGED <<part, beat>>
        \/ part = "grants" /\ Grants!Next /\ UNCHANGED <<part, beat>>

MCSpec == MCInit /\ [][MCNext]_<<part, beat, door>>

-----------------------------------------------------------------------------
\* The heartbeat closes a window only when its session is dead, over enough
\* answers of its own host (Heartbeat).
SweepsAreJustified ==
    [][(part \in {"grace", "death"}) => Grace!SweepsAreJustifiedStep]_<<part, beat>>

\* The mutex of the heartbeat belongs to a run that is alive (Heartbeat); and
\* the types of both halves.
MutexIsOwned == /\ part = "grace" => Grace!TypeOK
                /\ part = "death" => Death!TypeOK
                /\ part \in {"flips", "catches"} => Flips!TypeOK /\ Flips!MutexIsOwned
                /\ part \in {"tokens", "nags"} => TypeOK
                /\ part = "twins" => Twins!TypeOK
                /\ part = "grants" => Grants!TypeOK

\* A catch-up ends with what its poll listed merged (Heartbeat).
CatchUpMerges == [][part = "catches" => Catches!CatchUpMergesStep]_<<part, beat>>

\* A stored password is not erased by an answer to an older one (HostDoor).
NewPasswordKept == [][part = "tokens" => NewPasswordKeptStep]_<<part, door>>
=============================================================================
