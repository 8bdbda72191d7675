----------------------------- MODULE LeaseChannel -----------------------------
(***************************************************************************)
(* The single-active-browser lease: the broker's /control handler and the  *)
(* desktop relay (webterm/broker/app.py), with the page's half of the      *)
(* channel (64_js_sessions_poll_control.js).                               *)
(*                                                                         *)
(* A CLIENT is one browser profile (its clientId); each of its open tabs   *)
(* is a PAGE, and a page dials /control SOCKETS one after the other: one   *)
(* in charge (`cur`), and, when that one stops answering, a replacement    *)
(* (`cand`) which takes over with its first status.  The broker gives the  *)
(* lease to one client at a time, a generation per holder, and tells the   *)
(* sockets.  A CALL is a desktop op an MCP agent asks of the holder.       *)
(*                                                                         *)
(* Broker code between two awaits is one step, and lease_lock is never     *)
(* held over an await, so a section under it is one step as well.  A       *)
(* status and a pong carry the same lease, built when the socket's send    *)
(* lock is taken: `owed` says that one is to be built.  Timeouts may       *)
(* always fire.  Left out: the terminals the broker closes with 4409 (a    *)
(* PeerCloses of TerminalControl), broker restarts (bootId), remote hosts. *)
(***************************************************************************)
EXTENDS Naturals, Sequences, FiniteSets

CONSTANTS
    Clients, NoClient,   \* client ids, and the lease nobody holds
    Pages,               \* tabs
    ClientOf,            \* the browser profile a page belongs to
    Sockets, NoSocket,   \* /control connections a page may dial
    PageOf,              \* the page that dials a socket
    Calls,               \* desktop relay calls
    MaxClick, MaxPing    \* bounds: takeover clicks, pings

LeaseAssumption ==
    /\ ClientOf \in [Pages -> Clients] /\ NoClient \notin Clients
    /\ PageOf \in [Sockets -> Pages] /\ NoSocket \notin Sockets
    /\ IsFiniteSet(Pages)
    /\ MaxClick \in Nat /\ MaxPing \in Nat

VARIABLES
    active,     \* ctx.active_client_id
    gen,        \* ctx.lease_generation
    conn,       \* a socket's handler: idle, dialled, serving, over
    owed,       \* sockets with a status or pong still to be built and sent
    closing,    \* sockets the broker closes with 1012
    down, up,   \* frames on their way to the page, and to the broker
    cur, cand,  \* the page's socket in charge, and its replacement
    retired,    \* sockets the page listens to no more
    reported,   \* sockets whose first status has arrived
    known,      \* rec.leaseGen
    belief,     \* the lease level the page acts on
    want,       \* rec.wantActive: a click not settled yet
    clicks,     \* history: takeover clicks
    pings,      \* history: pings answered
    asks,       \* history: become_active frames sent
    call,       \* the relay's calls
    op          \* a page's handling of a call

leaseVars  == <<active, gen>>
brokerVars == <<conn, owed, closing>>
pageVars   == <<cur, cand, retired, reported, known, belief, want>>
clickVars  == <<clicks, pings, asks>>
callVars   == <<call, op>>
vars == <<leaseVars, brokerVars, down, up, pageVars, clickVars, callVars>>

Lease == [kind : {"lease"}, gen : Nat, owner : Clients \cup {NoClient}]
Rpc == [kind : {"rpc"}, rid : Calls, gen : Nat]
Become == [kind : {"become"}]
Result == [kind : {"result"}, rid : Calls, ok : BOOLEAN]
ToPage == Lease \cup Rpc
ToBroker == Become \cup Result

CallRecord ==
    [phase : {"new", "sending", "waiting", "over"},
     client : Clients \cup {NoClient}, gen : Nat,
     tries : SUBSET Sockets, dispatched : BOOLEAN,
     stalled : BOOLEAN, future : {"none", "ok", "refused", "lost"},
     outcome : {"none", "ok", "refused", "lost", "timeout"}]
OpRecord ==
    [state : {"none", "running", "answered"}, applied : Nat, gen : Nat,
     ok : BOOLEAN]

NoCall == [phase |-> "new", client |-> NoClient, gen |-> 0, tries |-> {},
           dispatched |-> FALSE, stalled |-> FALSE, future |-> "none",
           outcome |-> "none"]

TypeOK ==
    /\ active \in Clients \cup {NoClient} /\ gen \in Nat
    /\ conn \in [Sockets -> {"idle", "dialled", "serving", "over"}]
    /\ owed \subseteq Sockets /\ closing \subseteq Sockets
    /\ down \in [Sockets -> Seq(ToPage)]
    /\ up \in [Sockets -> Seq(ToBroker)]
    /\ cur \in [Pages -> Sockets \cup {NoSocket}]
    /\ cand \in [Pages -> Sockets \cup {NoSocket}]
    /\ retired \subseteq Sockets /\ reported \subseteq Sockets
    /\ known \in [Pages -> Nat]
    /\ belief \in [Pages -> {"unknown", "active", "inactive"}]
    /\ want \in [Pages -> BOOLEAN]
    /\ clicks \in Nat /\ pings \in Nat /\ asks \in Nat
    /\ call \in [Calls -> CallRecord]
    /\ op \in [Pages -> [Calls -> OpRecord]]

Init ==
    /\ active = NoClient /\ gen = 0
    /\ conn = [s \in Sockets |-> "idle"]
    /\ owed = {} /\ closing = {}
    /\ down = [s \in Sockets |-> <<>>]
    /\ up = [s \in Sockets |-> <<>>]
    /\ cur = [p \in Pages |-> NoSocket]
    /\ cand = [p \in Pages |-> NoSocket]
    /\ retired = {} /\ reported = {}
    /\ known = [p \in Pages |-> 0]
    /\ belief = [p \in Pages |-> "unknown"]
    /\ want = [p \in Pages |-> FALSE]
    /\ clicks = 0 /\ pings = 0 /\ asks = 0
    /\ call = [r \in Calls |-> NoCall]
    /\ op = [p \in Pages |-> [r \in Calls |->
                [state |-> "none", applied |-> 0, gen |-> 0,
                 ok |-> FALSE]]]

-----------------------------------------------------------------------------
(* The broker.                                                             *)

Owner(s) == ClientOf[PageOf[s]]
Serving == {s \in Sockets : conn[s] = "serving"}    \* control_clients

\* The lease as a status or pong built now carries it.
LiveLease == [kind |-> "lease", gen |-> gen, owner |-> active]

\* Every change of holder takes the next generation.
NextGen == gen + 1

\* _fail_superseded_desktop_rpcs: pending calls of another generation than g
\* leave the table, lost.
FailSuperseded(g) ==
    call' = [r \in Calls |->
        IF call[r].phase \in {"sending", "waiting"} /\ call[r].gen # g
           /\ call[r].future = "none"
          THEN [call[r] EXCEPT !.future = "lost"] ELSE call[r]]

\* The holder changes.
MoveLease(c) ==
    /\ active' = c
    /\ gen' = NextGen
    /\ FailSuperseded(gen')

\* A dialled socket's handler starts: it registers, and a free lease is its
\* client's.  It is told; nobody else is.
Connect(s) ==
    /\ conn[s] = "dialled"
    /\ conn' = [conn EXCEPT ![s] = "serving"]
    /\ owed' = owed \cup {s}
    /\ IF active = NoClient THEN MoveLease(Owner(s))
                            ELSE UNCHANGED <<active, gen, call>>
    /\ UNCHANGED <<closing, down, up, pageVars, clickVars, op>>

\* A frame on its way to the page, unless the page no longer listens.
Sent(s, frame) ==
    IF s \in retired THEN down ELSE [down EXCEPT ![s] = Append(@, frame)]

\* One status or pong: built under the socket's send lock, sent in that order.
SendLease(s) ==
    /\ s \in owed
    /\ owed' = owed \ {s}
    /\ down' = Sent(s, LiveLease)
    /\ UNCHANGED <<leaseVars, conn, closing, up, pageVars, clickVars, callVars>>

\* ... or the socket cannot take it in time: closed.
StallLease(s) ==
    /\ s \in owed
    /\ owed' = owed \ {s}
    /\ closing' = closing \cup {s}
    /\ UNCHANGED <<leaseVars, conn, down, up, pageVars, clickVars, callVars>>

\* A page's ping is answered on its own socket.
Ping(s) ==
    /\ s \in Serving \ (owed \cup retired) /\ pings < MaxPing
    /\ pings' = pings + 1
    /\ owed' = owed \cup {s}
    /\ UNCHANGED <<leaseVars, conn, closing, down, up, pageVars, clicks, asks,
                   callVars>>

ToldWinners(s) == {x \in Serving : Owner(x) = Owner(s)}

\* Whom a takeover by socket s tells: everybody; a repeat by the holder, s.
ToldOfTakeover(s) == IF active = Owner(s) THEN {s} ELSE Serving

\* A become_active frame.
BecomeActive(s) ==
    /\ s \in Serving /\ up[s] # <<>> /\ Head(up[s]).kind = "become"
    /\ up' = [up EXCEPT ![s] = Tail(@)]
    /\ owed' = owed \cup ToldOfTakeover(s)
    /\ IF active = Owner(s) THEN UNCHANGED <<active, gen, call>>
                            ELSE MoveLease(Owner(s))
    /\ UNCHANGED <<conn, closing, down, pageVars, clickVars, op>>

\* Does the end of socket s free the lease?
Frees(s) ==
    active = Owner(s) /\ \A x \in Serving \ {s} : Owner(x) # active

\* Who is told that the lease is free.
ToldOfRelease(s) == Serving \ {s}

\* A handler ends: the page or the broker closed the socket, or it is lost.
\* Only the holder's last socket frees the lease, and nobody is promoted.
Disconnect(s) ==
    /\ s \in Serving
    /\ conn' = [conn EXCEPT ![s] = "over"]
    /\ up' = [up EXCEPT ![s] = <<>>]
    /\ IF Frees(s)
         THEN /\ MoveLease(NoClient)
              /\ owed' = (owed \ {s}) \cup ToldOfRelease(s)
         ELSE /\ owed' = owed \ {s}
              /\ UNCHANGED <<active, gen, call>>
    /\ UNCHANGED <<closing, down, pageVars, clickVars, op>>

-----------------------------------------------------------------------------
(* The desktop relay.                                                      *)

\* The holder, its generation and its sockets are read in one step with the
\* call's registration.  With no holder the call is refused, unregistered.
Relay(r) ==
    /\ call[r].phase = "new" /\ active # NoClient
    /\ call' = [call EXCEPT ![r] =
            [@ EXCEPT !.phase = "sending", !.client = active, !.gen = gen,
                      !.tries = {s \in Serving : Owner(s) = active}]]
    /\ UNCHANGED <<leaseVars, brokerVars, down, up, pageVars, clickVars, op>>

\* Is the call's holding still the live one, in the step that starts a send?
SameHolding(r) == call[r].gen = gen

\* A send of the frame was started on s: the call can no longer promise that it
\* was not applied.
HandedUnmarked(c, s) == [c EXCEPT !.tries = @ \ {s}]
Handed(c, s) == [c EXCEPT !.dispatched = TRUE, !.tries = @ \ {s}]

\* One attempt: sent, which ends the loop; or stalled, which writes nothing and
\* closes the socket; or failed at once.
TrySocket(r, s) ==
    LET c == call[r]
        handed == Handed(c, s)
    IN
    /\ c.phase = "sending" /\ s \in c.tries
    /\ \/ /\ ~SameHolding(r)
          /\ call' = [call EXCEPT ![r] =
                        [c EXCEPT !.phase = "over", !.outcome = "lost"]]
          /\ UNCHANGED <<down, closing>>
       \/ /\ SameHolding(r) /\ s \in Serving
          /\ call' = [call EXCEPT ![r] = [handed EXCEPT !.phase = "waiting"]]
          /\ down' = Sent(s, [kind |-> "rpc", rid |-> r, gen |-> c.gen])
          /\ UNCHANGED closing
       \/ /\ SameHolding(r) /\ s \in Serving
          /\ call' = [call EXCEPT ![r] = [handed EXCEPT !.stalled = TRUE]]
          /\ closing' = closing \cup {s}
          /\ UNCHANGED down
       \/ /\ SameHolding(r) /\ conn[s] = "over"
          /\ call' = [call EXCEPT ![r] = handed]
          /\ UNCHANGED <<down, closing>>
    /\ UNCHANGED <<leaseVars, conn, owed, up, pageVars, clickVars, op>>

\* No socket took it, or the answer, the loss or the deadline came.
EndCall(r) ==
    LET c == call[r]
        end(how) == call' = [call EXCEPT ![r] =
                        [c EXCEPT !.phase = "over", !.outcome = how]]
    IN
    /\ \/ /\ c.phase = "sending" /\ c.tries = {}
          /\ end(IF c.stalled THEN "timeout" ELSE "lost")
       \/ c.phase = "waiting" /\ c.future # "none" /\ end(c.future)
       \/ c.phase = "waiting" /\ end("timeout")
    /\ UNCHANGED <<leaseVars, brokerVars, down, up, pageVars, clickVars, op>>

\* Is an answer by client c to call r taken?  Only of a pending call, from the
\* client it was sent to, in the same generation.
FromHolder(r, c) ==
    /\ call[r].phase \in {"sending", "waiting"} /\ call[r].future = "none"
    /\ call[r].client = c /\ call[r].gen = gen

\* A desktop_result frame.
DesktopResult(s) ==
    LET r == Head(up[s]).rid IN
    /\ s \in Serving /\ up[s] # <<>> /\ Head(up[s]).kind = "result"
    /\ up' = [up EXCEPT ![s] = Tail(@)]
    /\ call' = IF FromHolder(r, Owner(s))
                 THEN [call EXCEPT ![r].future =
                            IF Head(up[s]).ok THEN "ok" ELSE "refused"]
                 ELSE call
    /\ UNCHANGED <<leaseVars, brokerVars, down, pageVars, clickVars, op>>

-----------------------------------------------------------------------------
(* The page's sockets.                                                     *)

\* A page with no socket, or none that answers, dials one.  A third is never
\* dialled beside a replacement in flight.
Dial(s) ==
    LET p == PageOf[s] IN
    /\ conn[s] = "idle" /\ cand[p] = NoSocket
    /\ conn' = [conn EXCEPT ![s] = "dialled"]
    /\ \/ /\ cur[p] = NoSocket
          /\ cur' = [cur EXCEPT ![p] = s]
          /\ UNCHANGED cand
       \/ /\ cur[p] \in reported
          /\ cand' = [cand EXCEPT ![p] = s]
          /\ UNCHANGED cur
    /\ UNCHANGED <<leaseVars, owed, closing, down, up, retired, reported, known,
                   belief, want, clickVars, callVars>>

\* _controlSocketGone: closed, lost, or out of deadlines.  A replacement in
\* flight is left to report; nothing more is heard from the socket.
SocketGone(s) ==
    LET p == PageOf[s] IN
    /\ s \in {cur[p], cand[p]}
    /\ retired' = retired \cup {s}
    /\ cur' = [cur EXCEPT ![p] = IF @ = s THEN NoSocket ELSE @]
    /\ cand' = [cand EXCEPT ![p] = IF @ = s THEN NoSocket ELSE @]
    /\ down' = [down EXCEPT ![s] = <<>>]
    /\ UNCHANGED <<leaseVars, brokerVars, up, reported, known, belief, want,
                   clickVars, callVars>>

\* Is a lease of generation g news to the page?  Two sockets of one replacement
\* may deliver out of the broker's order.
AnyNews(p, g) == TRUE
IsNews(p, g) == g >= known[p]

\* The page can send on its socket in charge.
Writable(s) == s # NoSocket /\ conn[s] \in {"serving", "over"}

Ask(s) ==
    /\ up' = IF conn[s] = "serving"
               THEN [up EXCEPT ![s] = Append(@, [kind |-> "become"])] ELSE up
    /\ asks' = asks + 1

\* The socket a replacement retires, if there still is one.
Replaced(p) == {cur[p]} \ {NoSocket}

\* A status or pong arrives.  The first one on a replacement puts it in charge.
HearLease(s) ==
    LET p == PageOf[s]
        m == Head(down[s])
        mine == m.owner = ClientOf[p]
    IN
    /\ down[s] # <<>> /\ m.kind = "lease"
    /\ reported' = reported \cup {s}
    /\ IF cand[p] = s
         THEN /\ cur' = [cur EXCEPT ![p] = s]
              /\ cand' = [cand EXCEPT ![p] = NoSocket]
              /\ retired' = retired \cup Replaced(p)
         ELSE UNCHANGED <<cur, cand, retired>>
    /\ down' = [x \in Sockets |-> IF x \in retired' THEN <<>>
                                 ELSE IF x = s THEN Tail(down[s]) ELSE down[x]]
    /\ IF IsNews(p, m.gen)
         THEN /\ known' = [known EXCEPT ![p] = m.gen]
              /\ belief' = [belief EXCEPT ![p] =
                                IF mine THEN "active" ELSE "inactive"]
              /\ want' = [want EXCEPT ![p] = FALSE]
              /\ \/ /\ want[p] /\ ~mine
                    /\ Ask(s)
                 \/ UNCHANGED <<up, asks>>
         ELSE UNCHANGED <<known, belief, want, up, asks>>
    /\ UNCHANGED <<leaseVars, brokerVars, clicks, pings, callVars>>

\* The owner clicks "become active": sent now if the channel is up, and kept as
\* an intent either way.
Click(p) ==
    /\ clicks < MaxClick
    /\ clicks' = clicks + 1
    /\ want' = [want EXCEPT ![p] = TRUE]
    /\ IF Writable(cur[p]) THEN Ask(cur[p]) ELSE UNCHANGED <<up, asks>>
    /\ UNCHANGED <<leaseVars, brokerVars, down, cur, cand, retired, reported,
                   known, belief, pings, callVars>>

-----------------------------------------------------------------------------
(* The page's half of the relay.                                           *)

\* desktopLeaseLost: the page was deposed, or knows a newer generation.
LeaseLost(p, g) == belief[p] = "inactive" \/ known[p] > g

\* The reply rides the socket that delivered the call, or the one now in charge.
Reply(p, r, ok) ==
    LET s == cur[p] IN
    up' = IF s # NoSocket /\ conn[s] = "serving"
            THEN [up EXCEPT ![s] =
                    Append(@, [kind |-> "result", rid |-> r, ok |-> ok])]
            ELSE up

\* A desktop_rpc arrives: applied only under the lease it was sent under, and
\* only if the page has not seen the call before.
HearRpc(s) ==
    LET p == PageOf[s]
        m == Head(down[s])
        r == m.rid
    IN
    /\ down[s] # <<>> /\ m.kind = "rpc"
    /\ down' = [down EXCEPT ![s] = Tail(@)]
    /\ IF op[p][r].state # "none"
         THEN /\ UNCHANGED op
              /\ IF op[p][r].state = "answered"
                   THEN Reply(p, r, op[p][r].ok) ELSE UNCHANGED up
       ELSE IF LeaseLost(p, m.gen)
         THEN /\ op' = [op EXCEPT ![p][r].state = "answered"]
              /\ Reply(p, r, FALSE)
         ELSE /\ op' = [op EXCEPT ![p][r] =
                    [state |-> "running", applied |-> @.applied + 1,
                     gen |-> m.gen, ok |-> FALSE]]
              /\ UNCHANGED up
    /\ UNCHANGED <<leaseVars, brokerVars, pageVars, clickVars, call>>

\* Does the answer, once the /state push is over, say the lease held?
HeldThroughout(p, r) == ~LeaseLost(p, op[p][r].gen)

\* The op was applied and the /state push before its answer is over.
Answer(p, r) ==
    /\ op[p][r].state = "running"
    /\ op' = [op EXCEPT ![p][r].state = "answered",
                        ![p][r].ok = HeldThroughout(p, r)]
    /\ Reply(p, r, HeldThroughout(p, r))
    /\ UNCHANGED <<leaseVars, brokerVars, down, pageVars, clickVars, call>>

-----------------------------------------------------------------------------
Next ==
    \/ \E s \in Sockets : Connect(s) \/ SendLease(s) \/ StallLease(s) \/ Ping(s)
    \/ \E s \in Sockets : BecomeActive(s) \/ Disconnect(s) \/ DesktopResult(s)
    \/ \E r \in Calls : Relay(r) \/ EndCall(r)
    \/ \E r \in Calls, s \in Sockets : TrySocket(r, s)
    \/ \E s \in Sockets : Dial(s) \/ SocketGone(s)
    \/ \E s \in Sockets : HearLease(s) \/ HearRpc(s)
    \/ \E p \in Pages : Click(p)
    \/ \E p \in Pages, r \in Calls : Answer(p, r)

Spec == Init /\ [][Next]_vars

-----------------------------------------------------------------------------
(* Properties.                                                             *)

\* Nothing is on its way to or from the page over s.
Quiet(s) == s \in Serving \ (owed \cup closing) /\ down[s] = <<>>

\* The lease is never held by a client with no live channel: whoever's last
\* socket ends gives it up, in any order of connects, takeovers and ends.
HolderIsConnected ==
    active # NoClient => \E s \in Serving : Owner(s) = active

\* A generation names one holder: two leases on the wire, or a page's and the
\* broker's, with the same generation are the same lease.  Pages key "a new
\* holding" on it and the relay accepts answers by it.
GenNamesOneHolder ==
    \A s \in Sockets : \A i \in DOMAIN down[s] :
        LET m == down[s][i] IN
        m.kind = "lease" =>
            /\ m.gen = gen => m.owner = active
            /\ \A p \in Pages : m.gen = known[p] /\ belief[p] # "unknown" =>
                    (m.owner = ClientOf[p] <=> belief[p] = "active")

\* A page whose channel is at rest never believes it holds a lease it does not:
\* every loss of the lease was told, through stalls, closes and replacements.
NoFalseHolder ==
    \A p \in Pages :
        cur[p] # NoSocket /\ Quiet(cur[p]) /\ belief[p] = "active"
            => active = ClientOf[p]

\* A page never goes back to an older lease, although its old socket and the
\* replacement deliver statuses in either order (_controlStatus).
PageNeverGoesBackStep ==
    \A p \in Pages : known'[p] >= known[p]
            /\ (belief'[p] # belief[p] /\ belief[p] # "unknown"
                    => known'[p] > known[p])
PageNeverGoesBack == [][PageNeverGoesBackStep]_vars

\* Two pages cannot pass the lease back and forth by themselves: a click makes
\* one takeover frame at once and at most one later (_settleWantActive).
ClicksBoundTakeovers == asks <= 2 * clicks

\* What every browser may rely on about the holder of the lease.
HolderIsKnown ==
    HolderIsConnected /\ GenNamesOneHolder /\ NoFalseHolder /\ ClicksBoundTakeovers

\* An agent told `lost_lease` with dispatched: false may retry: no page applied
\* the op, nor will one (_desktop_relay, "dispatched:false can").
UndispatchedIsNotApplied ==
    \A r \in Calls : call[r].outcome = "lost" /\ ~call[r].dispatched =>
        /\ \A p \in Pages : op[p][r].applied = 0
        /\ \A s \in Sockets : \A i \in DOMAIN down[s] :
                down[s][i].kind = "rpc" => down[s][i].rid # r

\* A success the agent hears was applied by a page of the holder, in the very
\* holding the call was made to, and that page heard of no loss before it
\* answered: an answer from an older holding, one lost and regained included,
\* is never taken.
OkWithinTheHoldingStep ==
    \A r \in Calls : call'[r].future = "ok" /\ call[r].future = "none" =>
        /\ active = call[r].client /\ gen = call[r].gen
        /\ \E p \in Pages : /\ ClientOf[p] = call[r].client
                            /\ op[p][r].applied = 1

\* Both, as what an agent may rely on.
RelayAnswersAreTrue ==
    [][UndispatchedIsNotApplied' /\ OkWithinTheHoldingStep]_vars

=============================================================================
