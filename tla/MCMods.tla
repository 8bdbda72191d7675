------------------------------- MODULE MCMods -------------------------------
(* The mod loader, the save chain behind a mod's server store, and the        *)
(* applies and restarts of the update mod, checked in one run. They share no  *)
(* variable: `part` names the instance a behaviour exercises, and the other   *)
(* components stay as they began.                                             *)
EXTENDS SaveChain, TLC

CONSTANTS a, b, x, y, l1, l2, f1, None, home, peer, m0, m1, m2
VARIABLES part,
          requires, served, phase, regs, run, toggled, pol, pkg, asked, login, clicks, ops, executed,
          url, boot, cached, applyOps, restartOp, runs, dialog, gone, nextId, edits

-----------------------------------------------------------------------------
(* The loader.                                                             *)

NoPin == [m \in {} |-> TRUE]
Own(p) == [pkg |-> p, id |-> p, attributed |-> TRUE]
Chained == a :> {} @@ b :> {a} @@ x :> {b}

\* A chain, a package with two dependencies, a cycle of two, a cycle of one and what it holds up
Boot == INSTANCE ModLoader WITH
    Shipped <- <<a, b>>, Installed <- {x, y},
    Graphs <- {(a :> {} @@ b :> rb @@ x :> rx @@ y :> ry) :
                 <<rb, rx, ry>> \in {<<{a}, {b}, {x}>>, <<{}, {a, y}, {}>>, <<{a}, {y}, {x}>>, <<{}, {y}, {y}>>}},
    DefaultOn <- {a, b}, Unmet <- {}, MayThrow <- {a},
    Policies <- {NoPin, (y :> TRUE), (x :> TRUE @@ a :> FALSE)}, Masters <- {TRUE},
    Kept <- {{x, y}, {a, x, y}}, Declares <- {Own(x), Own(y)},
    Logins <- {l1}, MaxClicks <- 1, MaxOps <- 0

\* Two logins, an operator, and a package that registers under other ids
Login == INSTANCE ModLoader WITH
    Shipped <- <<a, b>>, Installed <- {x},
    Graphs <- {Chained, a :> {} @@ b :> {} @@ x :> {a, b}},
    DefaultOn <- {a, b, x}, Unmet <- {b}, MayThrow <- {},
    Policies <- {NoPin, (x :> TRUE), (a :> FALSE @@ x :> TRUE)}, Masters <- BOOLEAN,
    Kept <- {{}, {a, x}},
    Declares <- {Own(x), [pkg |-> x, id |-> a, attributed |-> TRUE], [pkg |-> x, id |-> b, attributed |-> FALSE]},
    Logins <- {l1, l2}, MaxClicks <- 1, MaxOps <- 1

\* One initial state: the loader at rest
Unused == INSTANCE ModLoader WITH
    Shipped <- <<a, b>>, Installed <- {}, Graphs <- {a :> {} @@ b :> {a}},
    DefaultOn <- {a, b}, Unmet <- {}, MayThrow <- {}, Policies <- {NoPin}, Masters <- {TRUE},
    Kept <- {{}}, Declares <- {}, Logins <- {}, MaxClicks <- 0, MaxOps <- 0

-----------------------------------------------------------------------------
(* The save chain.                                                         *)

Plain == [purge |-> FALSE, flag |-> "absent"]
Flagged == [purge |-> FALSE, flag |-> "on"]

\* SaveChain itself: two activations of one mod, saves that conflict with another browser's
MCFlushes == {f1}
MCOptions == {Plain}

\* A record that is kept without history, by this mod or by the other browser's
Ring == INSTANCE SaveChain WITH
    MaxChains <- 1, Flushes <- {}, Bad <- {}, Noop <- {2}, ChainOptions <- {Plain, Flagged},
    PeerOptions <- {Plain, Flagged, [purge |-> FALSE, flag |-> "off"], [purge |-> TRUE, flag |-> "off"]},
    Budget <- 1, RingSize <- 2, MaxSaves <- 2, MaxRev <- 4, MaxStrays <- 1, MaxLeases <- 1

\* A save that cannot be composed, a broker that fails: everything still ends
Live == INSTANCE SaveChain WITH
    MaxChains <- 1, Flushes <- {f1}, Bad <- {1}, Noop <- {}, ChainOptions <- {Plain}, PeerOptions <- {Plain},
    Budget <- 1, RingSize <- 2, MaxSaves <- 2, MaxRev <- 2, MaxStrays <- 1, MaxLeases <- 1

-----------------------------------------------------------------------------
(* The update mod: an apply or a restart that is under way, on the serving    *)
(* broker and one peer.                                                       *)

Updates == INSTANCE UpdateApply WITH
    dead <- gone, Host <- {home, peer}, Local <- home, Machine <- {m0, m1, m2},
    Home <- (home :> m0 @@ peer :> m1), MaxBoots <- 2, MaxEdits <- 1, MaxOps <- 2

\* Bounds: two applies or restarts of two machines, or one with a third machine
\* to be re-pointed at
TwoOps == nextId' <= 2 /\ boot'[m2] = 1 /\ \A h \in {home, peer} : url'[h] # m2
OneOp == nextId' + (IF dialog' = None THEN 0 ELSE 1) <= 1

-----------------------------------------------------------------------------
ASSUME Updates!ApplyAssumption
ASSUME Boot!LoaderAssumption /\ Login!LoaderAssumption
ASSUME ChainAssumption /\ Ring!ChainAssumption /\ Live!ChainAssumption

loader == <<requires, served, phase, regs, run, toggled, pol, pkg, asked, login, clicks, ops, executed>>
applies == <<url, boot, cached, applyOps, restartOp, runs, dialog, gone, nextId, edits>>
allVars == <<part, loader, vars, applies>>

MCInit == /\ Updates!Init
          /\ \/ part = "boot" /\ Boot!Init /\ Live!Init
             \/ part = "login" /\ Login!Init /\ Live!Init
             \/ part = "chain" /\ Init /\ Unused!Init
             \/ part = "ring" /\ Ring!Init /\ Unused!Init
             \/ part \in {"live", "applies", "ends"} /\ Live!Init /\ Unused!Init

MCNext == /\ UNCHANGED part
          /\ \/ part = "boot" /\ Boot!Next /\ UNCHANGED <<vars, applies>>
             \/ part = "login" /\ Login!Next /\ UNCHANGED <<vars, applies>>
             \/ part = "chain" /\ Next /\ UNCHANGED <<loader, applies>>
             \/ part = "ring" /\ Ring!Next /\ UNCHANGED <<loader, applies>>
             \/ part = "live" /\ Live!Next /\ UNCHANGED <<loader, applies>>
             \/ part = "applies" /\ Updates!Next /\ TwoOps /\ UNCHANGED <<vars, loader>>
             \/ part = "ends" /\ Updates!Next /\ OneOp /\ UNCHANGED <<vars, loader>>

\* SaveChain's fairness and UpdateApply's, for the instances that need it
MCFairness == /\ WF_vars(part = "live" /\ Live!DebounceFires(1))
              /\ WF_vars(part = "live" /\ (Live!HearGet(1) \/ Live!HearPut(1)))
              /\ WF_vars(part = "live" /\ (Live!ServeGet(1) \/ Live!ServePut(1) \/ Live!Fail(1)))
              /\ WF_applies(part = "ends" /\ Updates!Progress(0))
              /\ SF_applies(part = "ends" /\ Updates!RunsOut(0))

MCSpec == MCInit /\ [][MCNext]_allVars /\ MCFairness

-----------------------------------------------------------------------------
\* No mod is unloaded while an active mod still requires it (ModLoader), and what
\* the loader and the save chain keep has its type.
TeardownsComeInOrder == /\ part = "boot" => Boot!TypeOK
                        /\ part = "login" => Login!TypeOK
                        /\ part = "chain" => TypeOK
                        /\ part = "ring" => Ring!TypeOK
                        /\ part = "live" => Live!TypeOK
                        /\ Boot!TeardownsComeInOrder

\* A choice made for a mod survives all but its own click (ModLoader).
ChoicesSurvive == Login!ChoicesSurvive

\* Every flush is answered, also when its write fails or cannot be composed (SaveChain).
FlushPending == part = "live" /\ ch[1].told[f1] = "pending"
EveryFlushResolves == FlushPending ~> ~FlushPending

\* "Restarted" is shown only of the machine the request went to, and only once
\* it is under another boot id than it accepted with (UpdateApply); and a row
\* that waits has a call behind it.
DoneProvesReboot == part \in {"applies", "ends"} => Updates!TypeOK /\ Updates!DoneProvesReboot

\* No row of the update mod waits for ever (UpdateApply; there is one operation).
RowWaits == part = "ends" /\ ~gone /\ \E op \in {applyOps[home], applyOps[peer], restartOp} : Updates!Waiting(op)
EveryWaitEnds == RowWaits ~> ~RowWaits
=============================================================================
