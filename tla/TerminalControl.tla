--------------------------- MODULE TerminalControl ---------------------------
(***************************************************************************)
(* Terminal control in the broker (webterm/broker/registry.py, relay.py    *)
(* and POST /session/control of app.py).                                   *)
(*                                                                         *)
(* A PRODUCER connection (an agent's /browserland socket) owns one         *)
(* WindowEntry from its hello to its end; the registry maps a window id to *)
(* the entry registered last.  A browser SOCKET (/ws?session=) subscribes  *)
(* to the entry it dialled, reads the stream, and may drive the terminal:  *)
(* as its CONTROLLER once it has claimed it, or, with no controller, when  *)
(* its client id holds the desktop's lease.  Every change of control takes *)
(* a generation of one broker-wide sequence and is published to the        *)
(* subscribers by a task, one at a time per window id.                     *)
(*                                                                         *)
(* The broker is one asyncio loop: code between two awaits is one step, so *)
(* an action below is the code from one await to the next.  Left out: the  *)
(* label and time of a claim, the bytes of the stream, the management      *)
(* RPCs, the per-window MCP facts.                                         *)
(***************************************************************************)
EXTENDS Naturals, Sequences, FiniteSets

CONSTANTS
    Windows,        \* window ids
    Entries,        \* producer connections, each with its WindowEntry
    Sockets,        \* browser /ws connections
    Clients,        \* client ids that can hold the desktop's lease
    WindowOf,       \* the window id in a producer's hello
    ClientOf,       \* the clientId a socket dials with ...
    NoClient,       \* ... or none; also the lease held by nobody
    NoEntry, Nobody,\* no entry registered; no controller, no socket
    MaxGen,         \* bound: no claim once seq has reached it
    MaxClick        \* bound: no take-back is sent once seq has reached it

ASSUME WindowAssumption == WindowOf \in [Entries -> Windows]
ASSUME ClientAssumption ==
    /\ ClientOf \in [Sockets -> Clients \cup {NoClient}]
    /\ NoClient \notin Clients
ASSUME NullAssumption ==
    /\ NoEntry \notin Entries
    /\ Nobody \notin Sockets \cup Windows
ASSUME BoundAssumption == MaxGen \in Nat /\ MaxClick \in Nat

VARIABLES
    current,        \* registry._entries
    session,        \* where a producer's run_producer_session stands
    closing,        \* entry.closing
    sweep,          \* the replaced entry's sockets register() has yet to close,
                    \* or, cancelled, will never close
    seq,            \* registry._control_seq
    controller,     \* entry.controller.ws (its gen is always controlGen)
    controlGen,     \* entry.control_gen
    pending,        \* publication tasks not finished yet, per window id
    subscribers,    \* entry.subscribers
    revoked,        \* entry.revoked
    published,      \* entry.published_view
    section,        \* who is inside control_section, per window id
    stage,          \* where a socket's handle_browser_ws stands
    target,         \* the entry that socket dialled
    ending,         \* the connection is no longer open: a send on it fails
    held,           \* a frame passed the gate and waits for the send lock
    seen,           \* the last control view sent to a socket
    lease,          \* ctx.active_client_id
    click,          \* a take-back the desktop has sent and the broker not read
    lost,           \* history: sockets that lost an entry, not claimed since
    drove           \* history: the frame the last step gave a producer

registryVars == <<current, session, closing, sweep>>
controlVars  == <<seq, controller, controlGen, pending>>
attachVars   == <<subscribers, revoked>>
publishVars  == <<published, section, seen>>
socketVars   == <<stage, target, ending, held>>
desktopVars  == <<lease, click>>
ghostVars    == <<lost>>
vars == <<registryVars, controlVars, attachVars, publishVars, socketVars,
          desktopVars, ghostVars, drove>>

NoDrive == [entry |-> NoEntry, sock |-> Nobody]
NoClick == [window |-> Nobody, gen |-> 0, entry |-> NoEntry, sock |-> Nobody]

Views == [state : {"free", "controlled"}, gen : Nat]
Publications == [entry : Entries, view : Views, lost : Sockets \cup {Nobody}]
Sections == [kind : {"idle", "attach", "revoke", "send"},
             socks : SUBSET Sockets]

TypeOK ==
    /\ current \in [Windows -> Entries \cup {NoEntry}]
    /\ session \in
            [Entries -> {"new", "running", "exiting", "over", "stranded"}]
    /\ closing \in [Entries -> BOOLEAN]
    /\ sweep \in [Entries -> SUBSET Sockets]
    /\ seq \in Nat
    /\ controller \in [Entries -> Sockets \cup {Nobody}]
    /\ controlGen \in [Entries -> Nat]
    /\ pending \in [Windows -> Seq(Publications)]
    /\ subscribers \in [Entries -> SUBSET Sockets]
    /\ revoked \in [Entries -> SUBSET Sockets]
    /\ published \in [Entries -> Views]
    /\ section \in [Windows -> Sections]
    /\ stage \in [Sockets -> {"idle", "waiting", "telling", "open", "gone"}]
    /\ target \in [Sockets -> Entries \cup {NoEntry}]
    /\ ending \in [Sockets -> BOOLEAN]
    /\ held \in [Sockets -> BOOLEAN]
    /\ seen \in [Sockets -> Views]
    /\ lease \in Clients \cup {NoClient}
    /\ click \in [window : Windows, gen : Nat, entry : Entries,
                  sock : Sockets] \cup {NoClick}
    /\ lost \in [Entries -> SUBSET Sockets]
    /\ drove \in [entry : Entries, sock : Sockets] \cup {NoDrive}

Free(gen) == [state |-> "free", gen |-> gen]
Idle == [kind |-> "idle", socks |-> {}]

Init ==
    /\ current = [w \in Windows |-> NoEntry]
    /\ session = [e \in Entries |-> "new"]
    /\ closing = [e \in Entries |-> FALSE]
    /\ sweep = [e \in Entries |-> {}]
    /\ seq = 0
    /\ controller = [e \in Entries |-> Nobody]
    /\ controlGen = [e \in Entries |-> 0]
    /\ pending = [w \in Windows |-> <<>>]
    /\ subscribers = [e \in Entries |-> {}]
    /\ revoked = [e \in Entries |-> {}]
    /\ published = [e \in Entries |-> Free(0)]
    /\ section = [w \in Windows |-> Idle]
    /\ stage = [s \in Sockets |-> "idle"]
    /\ target = [s \in Sockets |-> NoEntry]
    /\ ending = [s \in Sockets |-> FALSE]
    /\ held = [s \in Sockets |-> FALSE]
    /\ seen = [s \in Sockets |-> Free(0)]
    /\ lease = NoClient
    /\ click = NoClick
    /\ lost = [e \in Entries |-> {}]
    /\ drove = NoDrive

-----------------------------------------------------------------------------
(* The registry's transition operations.                                   *)

\* The live control view of an entry.
View(e) ==
    [state |-> IF controller[e] = Nobody THEN "free" ELSE "controlled",
     gen   |-> controlGen[e]]

\* The entry is registered for its id and not dying.
IsLive(e) == e \in Entries /\ current[WindowOf[e]] = e /\ ~closing[e]

\* A change commits: the next gen, the new controller, and its own view
\* queued for publication, with the socket to send `revoked` to, if any.
Commit(e, s, loser) ==
    /\ seq' = seq + 1
    /\ controller' = [controller EXCEPT ![e] = s]
    /\ controlGen' = [controlGen EXCEPT ![e] = seq + 1]
    /\ pending' = [pending EXCEPT ![WindowOf[e]] =
            Append(@, [entry |-> e, lost |-> loser,
                       view |-> [state |-> IF s = Nobody THEN "free"
                                                         ELSE "controlled",
                                 gen |-> seq + 1]])]

\* release: nobody controls the entry from here on.
Release(e, loser) == Commit(e, Nobody, loser)

\* force_release, and release_by_ws of a socket that goes: a release when
\* there is something to release.
ReleaseIf(held_, e) ==
    IF held_ THEN Release(e, Nobody) ELSE UNCHANGED controlVars

\* remove_subscriber: the socket leaves every set of the entry.
Unsubscribe(e, s) ==
    /\ subscribers' = [subscribers EXCEPT ![e] = @ \ {s}]
    /\ revoked' = [revoked EXCEPT ![e] = @ \ {s}]

\* release_by_ws: s gives up an entry it still controls.
NeverHeldBy(e, s) == FALSE
HeldBySubscriber(e, s) ==
    s \in subscribers[e] /\ IsLive(e) /\ controller[e] = s
HeldBy(e, s) == IsLive(e) /\ controller[e] = s

\* release_by_gen: only the controller at exactly that generation goes.
ControlledNow(e, gen) == IsLive(e) /\ controller[e] # Nobody
ControlledAt(e, gen) ==
    IsLive(e) /\ controller[e] # Nobody /\ controlGen[e] = gen

\* Who is silenced after s claims and `loser` loses: s may drive again.
SilencedNobodyToo(quiet, s, loser) == (quiet \ {s}) \cup {loser}
Silenced(quiet, s, loser) == (quiet \ {s}) \cup ({loser} \ {Nobody})

\* The gate: may this socket send input or a resize to its producer now?
MayDrive(s) ==
    LET e == target[s] IN
    /\ s \notin revoked[e]
    /\ IF controller[e] # Nobody
         THEN controller[e] = s
         ELSE ClientOf[s] # NoClient /\ lease = ClientOf[s]

\* The same question once the frame has the send lock: what happened while it
\* waited counts.
AdmittedOnce(s) == TRUE
MayStillDrive(s) == MayDrive(s)

-----------------------------------------------------------------------------
(* Producers.                                                              *)

\* The replaced entry loses its controller.
Unforced(old) == controller
ForceReleased(old) ==
    [x \in Entries |-> IF x = old THEN Nobody ELSE controller[x]]

\* A hello: the new entry replaces whatever is registered under its id.  The
\* replaced entry is dying and loses its controller before the new one is
\* visible; its subscribers are listed for the 1012 close that follows.
Register(e) ==
    LET w == WindowOf[e]
        old == current[w]
        replaces == old # NoEntry
        freed == replaces /\ controller[old] # Nobody
        gen == IF freed THEN seq + 2 ELSE seq + 1
    IN
    /\ session[e] = "new"
    /\ session' = [session EXCEPT ![e] = "running"]
    /\ current' = [current EXCEPT ![w] = e]
    /\ closing' = [x \in Entries |-> closing[x] \/ x = old]
    /\ sweep' = [sweep EXCEPT ![e] =
                    IF replaces THEN subscribers[old] ELSE {}]
    /\ seq' = gen
    /\ controller' = ForceReleased(old)
    /\ controlGen' = [x \in Entries |->
                        IF x = e THEN gen
                        ELSE IF freed /\ x = old THEN seq + 1
                        ELSE controlGen[x]]
    /\ pending' = IF freed
                    THEN [pending EXCEPT ![w] =
                            Append(@, [entry |-> old, lost |-> Nobody,
                                       view |-> Free(seq + 1)])]
                    ELSE pending
    /\ published' = [published EXCEPT ![e] = Free(gen)]
    /\ drove' = NoDrive
    /\ UNCHANGED <<attachVars, section, seen, socketVars, desktopVars, lost>>

\* register() closes the replaced entry's subscribers one after the other.
CloseOne(e) ==
    \E s \in sweep[e] :
        /\ sweep' = [sweep EXCEPT ![e] = @ \ {s}]
        /\ ending' = [ending EXCEPT ![s] = TRUE]

SweepOne(e) ==
    /\ session[e] = "running"
    /\ CloseOne(e)
    /\ drove' = NoDrive
    /\ UNCHANGED <<current, session, closing, controlVars, attachVars,
                   publishVars, stage, target, held, desktopVars, lost>>

\* The handler is cancelled while it awaits one of those closes, which goes out
\* or not.  `except Exception` lets the cancellation through, so the rest of the
\* sweep is never done; and the session had not got its entry yet, so it ends
\* without deregistering it.
RegisterCancelled(e) ==
    /\ session[e] = "running" /\ sweep[e] # {}
    /\ session' = [session EXCEPT ![e] = "stranded"]
    /\ CloseOne(e) \/ UNCHANGED <<sweep, ending>>
    /\ drove' = NoDrive
    /\ UNCHANGED <<current, closing, controlVars, attachVars, publishVars, stage,
                   target, held, desktopVars, lost>>

\* deregister: only the entry still registered is removed.
Deregister(e) ==
    LET mine == current[WindowOf[e]] = e IN
    /\ current' = IF mine THEN [current EXCEPT ![WindowOf[e]] = NoEntry]
                          ELSE current
    /\ closing' = IF mine THEN [closing EXCEPT ![e] = TRUE] ELSE closing
    /\ ReleaseIf(mine /\ controller[e] # Nobody, e)

\* The terminal's process exits: dying at once, before the `exit` frame is
\* broadcast.
ProducerExits(e) ==
    /\ session[e] = "running" /\ sweep[e] = {}
    /\ session' = [session EXCEPT ![e] = "exiting"]
    /\ closing' = [closing EXCEPT ![e] = TRUE]
    /\ drove' = NoDrive
    /\ UNCHANGED <<current, sweep, controlVars, attachVars, publishVars,
                   socketVars, desktopVars, lost>>

\* The session ends: `exit` has been broadcast, or the connection dropped.
ProducerEnds(e) ==
    /\ session[e] \in {"running", "exiting"} /\ sweep[e] = {}
    /\ session' = [session EXCEPT ![e] = "over"]
    /\ Deregister(e)
    /\ drove' = NoDrive
    /\ UNCHANGED <<sweep, attachVars, publishVars, socketVars, desktopVars,
                   lost>>

\* Output, a title, `exit`...: a subscriber whose connection is no longer open
\* cannot take the broadcast and is removed.
BroadcastFails(e, s) ==
    /\ session[e] \in {"running", "exiting"} /\ sweep[e] = {}
    /\ s \in subscribers[e] /\ ending[s]
    /\ Unsubscribe(e, s)
    /\ drove' = NoDrive
    /\ UNCHANGED <<registryVars, controlVars, publishVars, socketVars,
                   desktopVars, lost>>

-----------------------------------------------------------------------------
(* The publisher: one section per window id.                               *)

\* The oldest task's turn: `revoked` to the loser first, if there is one.
StartPublication(w) ==
    /\ section[w] = Idle /\ pending[w] # <<>>
    /\ LET p == Head(pending[w]) IN
       section' = [section EXCEPT ![w] =
            IF p.lost # Nobody
              THEN [kind |-> "revoke", socks |-> {p.lost}]
              ELSE [kind |-> "send", socks |-> subscribers[p.entry]]]
    /\ drove' = NoDrive
    /\ UNCHANGED <<registryVars, controlVars, attachVars, published, seen,
                   socketVars, desktopVars, lost>>

\* A send that fails or takes too long drops the socket: unsubscribed,
\* released if it was the controller, closed.
DropStalled(e, s) ==
    /\ Unsubscribe(e, s)
    /\ ReleaseIf(controller[e] = s, e)
    /\ ending' = [ending EXCEPT ![s] = TRUE]

\* `revoked` goes out, then the change's view to every subscriber.
SendRevoked(w) ==
    LET e == Head(pending[w]).entry IN
    /\ section[w].kind = "revoke"
    /\ \E s \in section[w].socks :
          \/ /\ ~ending[s]
             /\ UNCHANGED <<attachVars, controlVars, ending>>
          \/ DropStalled(e, s)
    /\ section' = [section EXCEPT ![w] =
                    [kind |-> "send", socks |-> subscribers'[e]]]
    /\ drove' = NoDrive
    /\ UNCHANGED <<registryVars, published, seen, stage, target, held,
                   desktopVars, lost>>

SendView(w) ==
    LET p == Head(pending[w]) IN
    /\ section[w].kind = "send"
    /\ \E s \in section[w].socks :
          /\ section' = [section EXCEPT ![w].socks = @ \ {s}]
          /\ \/ /\ ~ending[s]
                /\ seen' = [seen EXCEPT ![s] = p.view]
                /\ UNCHANGED <<attachVars, controlVars, ending>>
             \/ /\ DropStalled(p.entry, s)
                /\ UNCHANGED seen
    /\ drove' = NoDrive
    /\ UNCHANGED <<registryVars, published, stage, target, held, desktopVars,
                   lost>>

Unrecorded(p) == published
Recorded(p) == [published EXCEPT ![p.entry] = p.view]

\* Every send is over: this is now the view an attaching socket is told.
FinishPublication(w) ==
    LET p == Head(pending[w]) IN
    /\ section[w] = [kind |-> "send", socks |-> {}]
    /\ section' = [section EXCEPT ![w] = Idle]
    /\ published' = Recorded(p)
    /\ pending' = [pending EXCEPT ![w] = Tail(@)]
    /\ drove' = NoDrive
    /\ UNCHANGED <<registryVars, seq, controller, controlGen, attachVars, seen,
                   socketVars, desktopVars, lost>>

-----------------------------------------------------------------------------
(* Browser sockets.                                                        *)

\* A socket dials; the entry it will watch is looked up before it waits.
Dial(s, w) ==
    /\ stage[s] = "idle" /\ current[w] # NoEntry
    /\ stage' = [stage EXCEPT ![s] = "waiting"]
    /\ target' = [target EXCEPT ![s] = current[w]]
    /\ drove' = NoDrive
    /\ UNCHANGED <<registryVars, controlVars, attachVars, publishVars, ending,
                   held, desktopVars, lost>>

\* The section is taken, maybe after a wait: may the socket join the entry?
MayJoin(e) == IsLive(e)

\* Inside the publisher's section: subscribe, unless the entry died meanwhile.
EnterAttach(s) ==
    LET e == target[s]
        w == WindowOf[e]
    IN
    /\ stage[s] = "waiting" /\ section[w] = Idle
    /\ IF MayJoin(e)
         THEN /\ subscribers' = [subscribers EXCEPT ![e] = @ \cup {s}]
              /\ section' = [section EXCEPT ![w] =
                                [kind |-> "attach", socks |-> {s}]]
              /\ stage' = [stage EXCEPT ![s] = "telling"]
              /\ UNCHANGED ending
         ELSE /\ stage' = [stage EXCEPT ![s] = "gone"]
              /\ ending' = [ending EXCEPT ![s] = TRUE]
              /\ UNCHANGED <<subscribers, section>>
    /\ drove' = NoDrive
    /\ UNCHANGED <<registryVars, controlVars, revoked, published, seen, target,
                   held, desktopVars, lost>>

\* Leaving control_section, however its body ends.
SectionKept(s) == section
SectionLeft(s) ==
    IF stage[s] = "telling"
      THEN [section EXCEPT ![WindowOf[target[s]]] = Idle] ELSE section

\* What an attaching socket is told.
ToldPublished(e) == published[e]

\* `resized`, then the published view, and out of the section.
TellAttached(s) ==
    LET e == target[s] IN
    /\ stage[s] = "telling"
    /\ stage' = [stage EXCEPT ![s] = "open"]
    /\ section' = SectionLeft(s)
    /\ seen' = IF ending[s] THEN seen ELSE [seen EXCEPT ![s] = ToldPublished(e)]
    /\ drove' = NoDrive
    /\ UNCHANGED <<registryVars, controlVars, attachVars, published, target,
                   ending, held, desktopVars, lost>>

\* The peer closes or is lost.  The relay notices later (SocketEnds): frames
\* received before the close are still read.
PeerCloses(s) ==
    /\ stage[s] \in {"waiting", "telling", "open"} /\ ~ending[s]
    /\ ending' = [ending EXCEPT ![s] = TRUE]
    /\ drove' = NoDrive
    /\ UNCHANGED <<registryVars, controlVars, attachVars, publishVars, stage,
                   target, held, desktopVars, lost>>

\* The handler's finally, after its read loop or a cancellation of its attach:
\* unsubscribed, and the terminal released if this socket held it.
SocketEnds(s) ==
    LET e == target[s] IN
    /\ stage[s] \in {"waiting", "telling", "open"} /\ ending[s]
    /\ stage' = [stage EXCEPT ![s] = "gone"]
    /\ held' = [held EXCEPT ![s] = FALSE]
    /\ section' = SectionLeft(s)
    /\ Unsubscribe(e, s)
    /\ ReleaseIf(HeldBy(e, s), e)
    /\ drove' = NoDrive
    /\ UNCHANGED <<registryVars, published, seen, target, ending, desktopVars,
                   lost>>

\* An input or resize frame passes the gate and waits for the send lock.  One
\* that does not pass is dropped, which changes nothing here.
AdmitFrame(s) ==
    /\ stage[s] = "open" /\ ~held[s]
    /\ MayDrive(s)
    /\ held' = [held EXCEPT ![s] = TRUE]
    /\ drove' = NoDrive
    /\ UNCHANGED <<registryVars, controlVars, attachVars, publishVars, stage,
                   target, ending, desktopVars, lost>>

\* The send lock is taken: the gate again, then the frame goes out.
SendFrame(s) ==
    /\ stage[s] = "open" /\ held[s]
    /\ held' = [held EXCEPT ![s] = FALSE]
    /\ drove' = IF MayStillDrive(s) THEN [entry |-> target[s], sock |-> s]
                               ELSE NoDrive
    /\ UNCHANGED <<registryVars, controlVars, attachVars, publishVars, stage,
                   target, ending, desktopVars, lost>>

\* A `control` claim.  Whoever held the terminal loses it to this socket; the
\* holder's own claim only takes a new generation.
Claim(s) ==
    LET e == target[s]
        prev == controller[e]
        loser == IF prev = s THEN Nobody ELSE prev
    IN
    /\ stage[s] = "open" /\ ~held[s] /\ seq < MaxGen
    /\ IsLive(e)
    /\ Commit(e, s, loser)
    /\ revoked' = [revoked EXCEPT ![e] = Silenced(@, s, loser)]
    /\ lost' = [lost EXCEPT ![e] = Silenced(@, s, loser)]
    /\ drove' = NoDrive
    /\ UNCHANGED <<registryVars, subscribers, publishVars, socketVars,
                   desktopVars>>

\* A `control` release by the holder.
ReleaseFrame(s) ==
    LET e == target[s] IN
    /\ stage[s] = "open" /\ ~held[s]
    /\ HeldBy(e, s)
    /\ Release(e, Nobody)
    /\ drove' = NoDrive
    /\ UNCHANGED <<registryVars, attachVars, publishVars, socketVars,
                   desktopVars, lost>>

-----------------------------------------------------------------------------
(* The desktop.                                                            *)

\* Another browser becomes active, or none is left (the /control channel).
LeaseMoves(c) ==
    /\ lease' = c
    /\ drove' = NoDrive
    /\ UNCHANGED <<registryVars, controlVars, attachVars, publishVars,
                   socketVars, click, lost>>

\* The owner asks for a terminal back, naming the generation on screen.
ClickTakeBack(w) ==
    LET e == current[w] IN
    /\ click = NoClick /\ seq < MaxClick
    /\ e # NoEntry /\ controller[e] # Nobody
    /\ click' = [window |-> w, gen |-> controlGen[e], entry |-> e,
                 sock |-> controller[e]]
    /\ drove' = NoDrive
    /\ UNCHANGED <<registryVars, controlVars, attachVars, publishVars,
                   socketVars, lease, lost>>

\* POST /session/control arrives with that generation: release_by_gen, unless
\* another browser holds the lease.  `mine` is whether this browser may.
TakeBack(mine) ==
    LET e == current[click.window]
        hit == mine /\ e # NoEntry /\ ControlledAt(e, click.gen)
    IN
    /\ click # NoClick
    /\ click' = NoClick
    /\ IF hit
         THEN /\ Release(e, controller[e])
              /\ revoked' = [revoked EXCEPT ![e] = @ \cup {controller[e]}]
              /\ lost' = [lost EXCEPT ![e] = @ \cup {controller[e]}]
         ELSE UNCHANGED <<controlVars, revoked, lost>>
    /\ drove' = NoDrive
    /\ UNCHANGED <<registryVars, subscribers, publishVars, socketVars, lease>>

-----------------------------------------------------------------------------
Next ==
    \/ \E e \in Entries : Register(e) \/ SweepOne(e)
    \/ \E e \in Entries : RegisterCancelled(e)
    \/ \E e \in Entries : ProducerExits(e) \/ ProducerEnds(e)
    \/ \E e \in Entries, s \in Sockets : BroadcastFails(e, s)
    \/ \E w \in Windows : StartPublication(w) \/ SendRevoked(w) \/ SendView(w)
    \/ \E w \in Windows : FinishPublication(w)
    \/ \E s \in Sockets, w \in Windows : Dial(s, w)
    \/ \E s \in Sockets : EnterAttach(s) \/ TellAttached(s) \/ PeerCloses(s)
    \/ \E s \in Sockets : SocketEnds(s) \/ AdmitFrame(s) \/ SendFrame(s)
    \/ \E s \in Sockets : Claim(s) \/ ReleaseFrame(s)
    \/ \E c \in Clients \cup {NoClient} : LeaseMoves(c)
    \/ \E w \in Windows : ClickTakeBack(w)
    \/ \E mine \in BOOLEAN : TakeBack(mine)

Spec == Init /\ [][Next]_vars

-----------------------------------------------------------------------------
(* Properties.                                                             *)

Attached(s) == stage[s] \in {"telling", "open"} /\ s \in subscribers[target[s]]

\* A socket that lost a terminal and still watches it.
Watching(e) == {s \in lost[e] \cap subscribers[e] : target[s] = e}

\* The drive gate implements DriveRights: a claim, a take-back, a lost lease
\* or a lost terminal counts for every frame not yet handed to the producer,
\* those already admitted and waiting for the send lock included.  A watcher
\* that lost the terminal is silenced by what happened to it (`lost`), not by
\* the set the gate reads (relay._drive_refusal, send_to_producer_if).
Rights == INSTANCE DriveRights WITH
    owner <- controller, over <- closing,
    silenced <- [e \in Entries |-> Watching(e)]
DriveRightsHold == Rights!Spec

\* A socket is told views of its terminal in strictly growing generations,
\* whatever attaches, publications and changes interleave (registry._publish
\* under control_section; relay attach).
ViewsInOrder ==
    [][\A s \in Sockets : seen'[s] # seen[s] => seen'[s].gen > seen[s].gen]_vars

\* Once no publication is left to run for a window id, every socket attached
\* with a working connection has been told the live view of its terminal, and
\* so will the next one to attach: "every /ws socket rests on the live view".
RestsOnLiveView ==
    \A s \in Sockets :
        LET e == target[s] IN
        (/\ stage[s] = "open" /\ s \in subscribers[e] /\ ~ending[s]
         /\ pending[WindowOf[e]] = <<>>)
            => seen[s] = View(e) /\ published[e] = View(e)

\* The socket is the lease: a terminal that is not dying is controlled only by
\* a socket whose handler is still running on that very terminal, however the
\* handler ended (release_by_ws in the relay's finally, _drop_stalled).  While
\* an `exit` is being broadcast, release_by_ws refuses and the grant stays until
\* deregister.
GrantNeverOutlivesSocket ==
    \A e \in Entries : controller[e] # Nobody =>
        /\ target[controller[e]] = e
        /\ stage[controller[e]] = "open" \/ session[e] = "exiting"

\* Only the registered entry of an id is ever controlled, and its generation
\* is above any the id has shown before: a client may order views by it across
\* producer reconnects (registry.register, deregister, claim's is_live).
OnlyTheLiveEntryIsControlled ==
    \A e, old \in Entries :
        (/\ current[WindowOf[e]] = e /\ old # e
         /\ WindowOf[old] = WindowOf[e] /\ session[old] # "new")
            => controller[old] = Nobody /\ controlGen[old] < controlGen[e]

\* A POST /session/control releases the controller its sender saw, or nobody:
\* a claim that crossed it is never undone (registry.release_by_gen).
TakeBackHitsItsTarget ==
    [][click # NoClick /\ click' = NoClick =>
        \A e \in Entries : controller'[e] # controller[e] =>
            e = click.entry /\ controller[e] = click.sock]_vars

\* register() is still closing the sockets it listed; or it was cancelled there.
AboutToBeClosed(s) == \E x \in Entries : session[x] = "running" /\ s \in sweep[x]
LeftUnswept(s) == \E x \in Entries : session[x] = "stranded" /\ s \in sweep[x]

\* A socket attached to an entry that was REPLACED by a reconnected producer is
\* closed or about to be, one that waited for the section during the
\* replacement included; it stays open on the dead entry only when the producer
\* had already ended, or when the sweep that listed it was cancelled
\* (registry.register's 1012 sweep; the relay's liveness re-check).
ReplacedSocketsAreSwept ==
    \A s \in Sockets :
        LET e == target[s] IN
        (/\ Attached(s) /\ session[e] # "over"
         /\ current[WindowOf[e]] # e)
            => ending[s] \/ AboutToBeClosed(s) \/ LeftUnswept(s)

\* Both hold together: a socket rests on the live view of its terminal, and a
\* replaced terminal's sockets are swept, the cancelled sweep's excepted.
SocketsRestOnTheTruth == RestsOnLiveView /\ ReplacedSocketsAreSwept

\* Generations order what everybody does: a socket hears views in growing
\* generations, and a take-back releases the controller its sender saw, or
\* nobody.
GenerationsOrder == ViewsInOrder /\ TakeBackHitsItsTarget

\* As register() explains its sweep: a socket on a dead entry looks healthy but
\* is frozen, so once the id has a new entry it is closed or about to be.
NobodyFrozen ==
    \A s \in Sockets :
        LET e == target[s] IN
        (/\ stage[s] = "open" /\ s \in subscribers[e]
         /\ current[WindowOf[e]] \notin {NoEntry, e})
            => ending[s] \/ AboutToBeClosed(s)

-----------------------------------------------------------------------------
(* Liveness: the loop runs every task that can run, an asyncio lock is     *)
(* FIFO, and every send of the publisher is bounded in time.  Producers,   *)
(* peers, claims and the desktop owe nothing.                              *)
Fairness ==
    /\ \A w \in Windows :
          /\ SF_vars(StartPublication(w)) /\ WF_vars(SendRevoked(w))
          /\ WF_vars(SendView(w)) /\ WF_vars(FinishPublication(w))
    /\ \A s \in Sockets :
          /\ SF_vars(EnterAttach(s)) /\ WF_vars(TellAttached(s))
          /\ WF_vars(SocketEnds(s))

LiveSpec == Spec /\ Fairness

\* Every change is published in the end: no attach that is cancelled or stalls
\* leaves the section taken for good.
EveryChangeIsPublished ==
    \A w \in Windows : pending[w] # <<>> ~> pending[w] = <<>>

\* A dialled socket is attached or refused in the end, and one whose connection
\* is lost gives its terminal up, if the terminal is not dying itself.
EveryAttachIsAnswered ==
    \A s \in Sockets :
        /\ stage[s] = "waiting" ~> stage[s] \in {"open", "gone"}
        /\ (ending[s] /\ \E e \in Entries : controller[e] = s)
                ~> (\A e \in Entries : controller[e] = s => closing[e])
=============================================================================
