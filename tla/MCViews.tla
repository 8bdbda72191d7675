------------------------------- MODULE MCViews -------------------------------
(* What a page shows of what others decide: windows handed to a browser window *)
(* of their own, windows greyed out because somebody else drives, and the      *)
(* update mod's rows of other brokers. The three share no state: `part` names  *)
(* the instance a behaviour exercises, and the others stay as they began.      *)
EXTENDS UpdateFleet, Sequences, TLC

CONSTANTS Anon, d1, d2, c1, c2, peer, home, m1, m2
VARIABLES part,
          kid, lock, waiters, win, asked, rec, stored, pend, down, chan, rel, ended, dleft,
          ctl, grid, crec, up, shown, term, sock, sizing, link, push, poll, post, opens, cleft

-----------------------------------------------------------------------------
(* Detached windows.                                                          *)

Nothing == [open |-> 0, timer |-> 0, focus |-> 0, close |-> 0, lease |-> 0,
            reload |-> 0, login |-> 0, rehome |-> 0, drop |-> 0, end |-> 0]

\* One desktop, two children: closes, restores, losses of the lease, a dropped
\* socket
Hands == INSTANCE DetachView WITH
    left <- dleft, Desktop <- {d1}, Child <- {c1, c2}, Proxied <- FALSE,
    Left0 <- [Nothing EXCEPT !.open = 1, !.close = 1, !.focus = 1, !.lease = 1, !.drop = 1]
\* Two desktops of one browser
Both == INSTANCE DetachView WITH
    left <- dleft, Desktop <- {d1, d2}, Child <- {c1}, Proxied <- FALSE,
    Left0 <- [Nothing EXCEPT !.open = 1, !.timer = 1, !.close = 1]
\* A host reached through this broker, a reload, an end, a login
Mints == INSTANCE DetachView WITH
    left <- dleft, Desktop <- {d1}, Child <- {c1}, Proxied <- TRUE,
    Left0 <- [Nothing EXCEPT !.timer = 1, !.focus = 1, !.login = 1, !.rehome = 1,
                             !.reload = 1, !.end = 1]

-----------------------------------------------------------------------------
(* Controlled windows.                                                        *)

Never == [restart |-> 0, link |-> 0, grid |-> 0, sock |-> 0, close |-> 0,
          forget |-> 0, take |-> 0, lost |-> 0]

\* The window's channels in one broker run
Order == INSTANCE ControlledView WITH
    rec <- crec, left <- cleft, Label <- {"A"}, MaxGen <- 3, MaxOpens <- 1,
    Left0 <- [Never EXCEPT !.link = 1, !.grid = 1, !.take = 1]
\* Lost answers
Lost == INSTANCE ControlledView WITH
    rec <- crec, left <- cleft, Label <- {"A"}, MaxGen <- 3, MaxOpens <- 1,
    Left0 <- [Never EXCEPT !.link = 1, !.take = 1, !.lost = 1]
\* A broker restart, windows closed and records forgotten
Again == INSTANCE ControlledView WITH
    rec <- crec, left <- cleft, Label <- {"A"}, MaxGen <- 2, MaxOpens <- 2,
    Left0 <- [Never EXCEPT !.restart = 1, !.forget = 1, !.close = 1, !.sock = 1]

-----------------------------------------------------------------------------
(* The fleet: a peer whose id may be re-pointed, or the serving broker with    *)
(* its consent. The module's own constants are those of "writes": two switches *)
(* thrown at once.                                                             *)

MCHost == {peer}
MCMachine == {m1}
MCHome == peer :> m1
MCBuild == m1 :> "full"

\* A switch while another browser throws one too
Rival == INSTANCE UpdateFleet WITH
    MaxWrites <- 1, MaxReads <- 1, MaxEdits <- 0, MaxOutside <- 1
\* A switch while the id is re-pointed at a machine that cannot do as much
Moves == INSTANCE UpdateFleet WITH
    Machine <- {m1, m2}, Build <- (m1 :> "full" @@ m2 :> "headless"),
    MaxWrites <- 1, MaxReads <- 1, MaxEdits <- 1, MaxOutside <- 0
\* The serving broker asks for consent
Consent == INSTANCE UpdateFleet WITH
    Local <- peer, Realm <- {m1},
    MaxWrites <- 1, MaxReads <- 1, MaxEdits <- 0, MaxOutside <- 0

-----------------------------------------------------------------------------
ASSUME FleetAssumption
ASSUME Rival!FleetAssumption /\ Moves!FleetAssumption /\ Consent!FleetAssumption
ASSUME Hands!DetachAssumption /\ Both!DetachAssumption /\ Mints!DetachAssumption
ASSUME Order!ControlledAssumption /\ Lost!ControlledAssumption /\ Again!ControlledAssumption

detached == <<kid, lock, waiters, win, asked, rec, stored, pend, down, chan, rel, ended, dleft>>
controlled == <<ctl, grid, crec, up, shown, term, sock, sizing, link, push, poll, post, opens, cleft>>
allVars == <<part, vars, detached, controlled>>

\* Nothing known of the peer, and no gate of it open
FleetAtRest == Init /\ cat[peer] = None /\ gate[m1].on = {}

MCInit == /\ \/ part = "writes" /\ Init
             \/ part = "rival" /\ Rival!Init
             \/ part = "moves" /\ Moves!Init
             \/ part = "consent" /\ Consent!Init
             \/ part \in {"hands", "both", "mints", "order", "lost", "again"} /\ FleetAtRest
          /\ CASE part = "both" -> Both!Init
               [] part = "mints" -> Mints!Init
               [] OTHER -> Hands!Init
          /\ CASE part = "lost" -> Lost!Init
               [] part = "again" -> Again!Init
               [] OTHER -> Order!Init

MCNext == /\ UNCHANGED part
          /\ \/ part = "writes" /\ Next /\ UNCHANGED <<detached, controlled>>
             \/ part = "rival" /\ Rival!Next /\ UNCHANGED <<detached, controlled>>
             \/ part = "moves" /\ Moves!Next /\ UNCHANGED <<detached, controlled>>
             \/ part = "consent" /\ Consent!Next /\ UNCHANGED <<detached, controlled>>
             \/ part = "hands" /\ Hands!Next /\ UNCHANGED <<vars, controlled>>
             \/ part = "both" /\ Both!Next /\ UNCHANGED <<vars, controlled>>
             \/ part = "mints" /\ Mints!Next /\ UNCHANGED <<vars, controlled>>
             \/ part = "order" /\ Order!Next /\ UNCHANGED <<vars, detached>>
             \/ part = "lost" /\ Lost!Next /\ UNCHANGED <<vars, detached>>
             \/ part = "again" /\ Again!Next /\ UNCHANGED <<vars, detached>>

\* The browser hands a freed lock on and refuses or grants a child's request, the
\* desktop gets to what waits for it (lock answers, a granted lock, a parked open)
\* and to the channel's frames, and a child that is attached says so every five
\* seconds. Users, crashes and the lease need not come.
InHands(A) == part = "hands" /\ A
InMints(A) == part = "mints" /\ A
DetachFairness ==
    /\ WF_detached(InHands(Hands!Grant \/ Hands!Acquire(c1) \/ Hands!Acquire(c2))
                   \/ InMints(Mints!Grant \/ Mints!Acquire(c1) \/ Mints!EndWatch(c1)))
    /\ WF_detached(InHands(Hands!Turn(d1)) \/ InMints(Mints!Turn(d1)))
    /\ WF_detached(InHands(Hands!HearFrame(d1)) \/ InMints(Mints!HearFrame(d1)))
    /\ WF_detached(InHands(Hands!Ready(c1)) \/ InMints(Mints!Ready(c1)))
    /\ WF_detached(InHands(Hands!Ready(c2)))

\* The page keeps polling (2 s), its sockets are dialed again and what is under
\* way arrives; nobody is bound to claim, to release or to click.
settles == part \in {"lost", "again"}
ControlFairness ==
    /\ WF_controlled(settles /\ Lost!LinkOpens)
    /\ WF_controlled(settles /\ Lost!PushLands)
    /\ WF_controlled(settles /\ Lost!PollSent)
    /\ WF_controlled(settles /\ Lost!PollAnswered)
    /\ WF_controlled(settles /\ Lost!PollLands)
    /\ WF_controlled(settles /\ Lost!Redial)
    /\ WF_controlled(settles /\ (Lost!HearControl \/ Lost!HearResized))

MCSpec == MCInit /\ [][MCNext]_allVars /\ DetachFairness /\ ControlFairness

-----------------------------------------------------------------------------
\* A desktop does not stay attached beside a child that owns the terminal, if
\* it is not marked as out (DetachView).
Beside == part \in {"hands", "mints"} /\ Hands!BesideTheOwner(d1)
YieldsToTheOwner == Beside ~> ~Beside

\* A desktop never takes the terminal back from an instance that still owns
\* it, whichever answer, frame or grant it acts on, a restore click's late one
\* excepted (DetachView; and the types of the three components).
Types == /\ CASE part = "both" -> Both!TypeOK [] part = "mints" -> Mints!TypeOK
              [] OTHER -> Hands!TypeOK
         /\ Order!TypeOK
         /\ CASE part = "moves" -> Moves!TypeOK [] part = "consent" -> Consent!TypeOK
              [] OTHER -> TypeOK
TakesBackOnlyFromTheGone ==
    [][/\ Types'
       /\ part \in {"hands", "mints"} => Hands!TakesBackOnlyFromTheGoneStep
       /\ part = "both" => Both!TakesBackOnlyFromTheGoneStep]_allVars

\* A window that is out comes back once no child owns its terminal, also one the
\* desktop closed meanwhile (DetachView; the record of a closed one outlives a
\* reload unwatched, so that half is asked where no document is replaced).
Stranded == \/ part = "hands" /\ Hands!Stranded(d1)
            \/ part = "mints" /\ Mints!Stranded(d1) /\ win[d1].up
ComesBack == Stranded ~> ~Stranded

\* What a page has been told is never replaced by something older of the same
\* broker run (ControlledView).
NeverShowsOlder ==
    [][(part = "order" => Order!NeverShowsOlderStep)
       /\ (part = "again" => Again!NeverShowsOlderStep)]_allVars

\* When control changes no more the window comes to show what the broker says,
\* whichever of the channels were lost or late (ControlledView).
RestsOnTheTruth == <>[](settles => Lost!ShowsTheTruth)

-----------------------------------------------------------------------------
\* The run of its own: one desktop, one child, a host reached through this broker
HandedSpec == part = "mints" /\ MCInit /\ [][MCNext]_allVars

\* A desktop that has yielded to a child dials no socket while that child owns
\* the terminal (DetachView).
StaysAway == [][Mints!StaysAwayStep]_allVars
=============================================================================
