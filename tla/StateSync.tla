------------------------------ MODULE StateSync ------------------------------
(***************************************************************************)
(* The shared UI state of a broker (GET and PUT /state of                  *)
(* webterm/broker/app.py) and the page that keeps its layout and settings  *)
(* in step with it (52_js_state_sync.js, driven by the view's teardown and *)
(* rebuild of 84_js_active_view_lifecycle.js).                             *)
(*                                                                         *)
(* The broker keeps one revision and one VALUE (the settings and layout    *)
(* together), in memory and on disk.  A PUT names the revision it is built *)
(* on and is refused with the live state when that is not the live one, or *)
(* when another browser holds the lease.  It runs under a lock, in a task  *)
(* that outlives its request.  One page is modelled in full; any other tab *)
(* or browser is a PEER: it writes whenever it may.                        *)
(*                                                                         *)
(* Page code between two awaits is one step.  The page starts where its    *)
(* first load leaves it.  Left out: the load itself (rev 0, its pull's     *)
(* exemption), the detached surface, a state file put back by hand, and    *)
(* how long a debounce, a deadline or a backoff lasts.                     *)
(***************************************************************************)
EXTENDS Naturals, FiniteSets

CONSTANTS
    Vals, NoVal,        \* contents of the shared state
    Refused,            \* those the broker never takes (413, 400)
    First,              \* what everybody has at first
    RetryFast,          \* STATE_RETRY_FAST
    MaxGen, MaxRev,     \* bounds: edits, the revisions peers write up to,
    MaxEpoch, MaxStrays \* views, PUTs given up on at a time

ASSUME ValueAssumption ==
    /\ First \in Vals /\ NoVal \notin Vals
    /\ Refused \subseteq Vals \ {First}
ASSUME BoundAssumption ==
    /\ RetryFast \in Nat
    /\ MaxGen \in Nat \ {0} /\ MaxRev \in Nat \ {0} /\ MaxEpoch \in Nat \ {0}
    /\ MaxStrays \in Nat

VARIABLES
    srv,        \* ctx.state
    disk,       \* the state file
    section,    \* the PUT running under state_lock
    strays,     \* PUTs the page gave up on that the broker may yet read
    wire,       \* the page's /state exchange in flight (_stateChannel)
    push,       \* the running pushState
    pull,       \* the running pullState, once sent
    page,       \* the page's module state
    chain,      \* where the rebuild of each view stands
    lastPeer,   \* history: the revision of the last peer's write, if that is not
                \* something this page has sent itself, before it or since
    origin,     \* history: the base an edit had when it was first parked or
                \* its first PUT was lost
    slipped     \* history: the last edit that went out with no record kept of
                \* it: sent by a pushState called in an earlier view, or to be
                \* sent again on top of this page's own earlier write

brokerVars == <<srv, disk, section, lastPeer>>
netVars    == <<strays, wire>>
pageVars   == <<push, pull, page, chain, origin, slipped>>
vars == <<brokerVars, netVars, pageVars>>

Gens == 0 .. MaxGen
Epochs == 0 .. MaxEpoch
States == [rev : Nat, val : Vals]

NoSection == [who |-> "none", val |-> NoVal, gen |-> 0, landed |-> FALSE]
NoOut     == [kind |-> "none", rev |-> 0, val |-> NoVal]
NoWire    == [at |-> "none", out |-> NoOut]
NoPush    == [at |-> "idle", epoch |-> 0, gen |-> 0, base |-> 0, val |-> NoVal]
NoPull    == [at |-> "idle", epoch |-> 0, initial |-> FALSE]
NoFail    == [gen |-> 0, base |-> 0, thrown |-> FALSE, fails |-> 0]
NoSends   == [g \in Gens |-> NoVal]

SectionRecord == [who : {"none", "page", "stray", "peer"},
                  val : Vals \cup {NoVal}, gen : Gens, landed : BOOLEAN]
StrayRecord   == [base : Nat, val : Vals, gen : Gens]
OutRecord     == [kind : {"none", "state", "saved", "conflict", "rejected",
                          "error", "lost"},
                  rev : Nat, val : Vals \cup {NoVal}]
WireRecord    == [at : {"none", "asked", "writing", "answered"}, out : OutRecord]
PushRecord    == [at : {"idle", "waiting", "sent"}, epoch : Epochs, gen : Gens,
                  base : Nat, val : Vals \cup {NoVal}]
PullRecord    == [at : {"idle", "sent"}, epoch : Epochs, initial : BOOLEAN]
FailRecord    == [gen : Gens, base : Nat, thrown : BOOLEAN,
                  fails : 0 .. RetryFast + 1]
ParkRecord    == [on : BOOLEAN, gen : Gens, base : Nat]
PageRecord    == [local : Vals,              \* prefs._settings, prefs._layout
                  base : Vals \cup {NoVal},  \* _stateLastSerialized
                  rev : Nat,                 \* _stateRev
                  skipped : BOOLEAN,         \* _stateRevSkipped
                  editGen : Gens, sentGen : Gens,
                  fail : FailRecord, park : ParkRecord,
                  sends : [Gens -> Vals \cup {NoVal}],   \* _stateRecentSends,
                                         \* which keeps four: more than there are
                  timer : BOOLEAN, again : BOOLEAN,
                  off : BOOLEAN,             \* _deactivated
                  epoch : Epochs]            \* _viewEpoch

TypeOK ==
    /\ srv \in States /\ disk \in States
    /\ section \in SectionRecord /\ strays \subseteq StrayRecord
    /\ wire \in WireRecord /\ push \in PushRecord /\ pull \in PullRecord
    /\ page \in PageRecord
    /\ chain \in [Epochs -> {"none", "flush", "pushing", "pull", "pulling",
                             "done"}]
    /\ lastPeer \in Nat
    /\ origin \in [gen : Gens, base : Nat]
    /\ slipped \in Gens

Init ==
    /\ srv = [rev |-> 1, val |-> First] /\ disk = srv
    /\ section = NoSection
    /\ strays = {} /\ wire = NoWire
    /\ push = NoPush /\ pull = NoPull
    /\ page = [local |-> First, base |-> First, rev |-> 1, skipped |-> FALSE,
               editGen |-> 0, sentGen |-> 0, fail |-> NoFail,
               park |-> [on |-> FALSE, gen |-> 0, base |-> 0],
               sends |-> NoSends, timer |-> FALSE, again |-> FALSE,
               off |-> FALSE, epoch |-> 0]
    /\ chain = [e \in Epochs |-> "none"]
    /\ lastPeer = 0 /\ origin = [gen |-> 0, base |-> 0]
    /\ slipped = 0

-----------------------------------------------------------------------------
(* The page's mutation record: operators that map its state.               *)

\* What the page owes the broker: an edit not sent, or sent in vain.
Owed(p) == p.editGen > p.sentGen \/ p.fail # NoFail

\* Something will push by itself.
Queued(p) == p.timer \/ push.at # "idle" \/ p.again

\* schedulePush.
Scheduled(p) == IF p.off THEN p ELSE [p EXCEPT !.timer = TRUE]

\* Nothing is left to send.
SettledAll(p) ==
    [p EXCEPT !.sentGen = p.editGen, !.fail = NoFail, !.park.on = FALSE]

\* What was sent is settled; a later edit is not.
SettledSent(p, g) ==
    [p EXCEPT !.fail = IF @.gen <= g THEN NoFail ELSE @,
              !.park.on = @ /\ g < p.park.gen]

\* A parked edit whose PUT failed in the view before is unsent again.
ParkedFailure(p, g) ==
    IF p.park.on /\ g <= p.park.gen /\ p.sentGen >= g
      THEN [p EXCEPT !.sentGen = g - 1] ELSE p

\* The base a PUT of g carries.  Old intent keeps its own.
SendRebased(p, g) == p.rev

SendBase(p, g) ==
    CASE p.park.on /\ p.park.gen = g -> p.park.base
      [] p.fail.gen = g /\ g # 0
            /\ (p.fail.thrown \/ p.fail.fails > RetryFast)
            /\ ~(p.park.on /\ p.park.gen = g) -> p.fail.base
      [] OTHER -> p.rev

Failed(p, g, b, thrown) ==
    LET f == IF p.fail.gen = g /\ p.fail # NoFail THEN p.fail
             ELSE [NoFail EXCEPT !.gen = g, !.base = b]
    IN [p EXCEPT !.fail =
            [f EXCEPT !.thrown = @ \/ thrown,
                      !.fails = IF @ > RetryFast THEN @ ELSE @ + 1]]

\* Is val what this page sent last before it made edit g?
FromParent(p, g, val) ==
    \E h \in Gens : /\ h < g /\ p.sends[h] = val /\ val # NoVal
                    /\ \A i \in h + 1 .. g - 1 : p.sends[i] = NoVal

\* The broker shows our own earlier write: what was built on it moves up.
SawOwnWrite(p, val, rev) ==
    [p EXCEPT
        !.fail.base = IF p.fail # NoFail /\ FromParent(p, p.fail.gen, val)
                        THEN rev ELSE @,
        !.park.base = IF p.park.on /\ FromParent(p, p.park.gen, val)
                        THEN rev ELSE @]

\* _applyServerState.
Adopted(p, val) ==
    [SettledAll(p) EXCEPT !.local = val, !.base = val, !.sends = NoSends,
                          !.skipped = FALSE]

\* _retryOwedPush: at once, or when the backoff says so.
RetryOwed(p) ==
    IF ~Owed(p) \/ Queued(p) THEN {p}
    ELSE {Scheduled(p)} \cup
         (IF p.fail.gen = p.editGen /\ p.fail.fails > RetryFast THEN {p} ELSE {})

\* _stateParkPendingPush, with the view torn down.
Parked(p) ==
    LET owes == (Owed(p) \/ push.at # "idle") /\ p.local # p.base IN
    [p EXCEPT !.timer = FALSE, !.again = FALSE,
              !.park = IF owes THEN [on |-> TRUE, gen |-> p.editGen,
                                     base |-> SendBase(p, p.editGen)]
                               ELSE [@ EXCEPT !.on = FALSE]]

\* History: old intent is an edit parked, or with a lost PUT; its first base.
NotedOrigin(p, g, b) ==
    IF g # origin.gen THEN [gen |-> g, base |-> b] ELSE origin

-----------------------------------------------------------------------------
(* The broker.                                                             *)

\* The 409 carries the revision and value that won.
Conflict == [kind |-> "conflict", rev |-> srv.rev, val |-> srv.val]

\* GET: the state in memory.
AnswerGet ==
    /\ pull.at = "sent" /\ wire.at = "asked"
    /\ wire' = [at |-> "answered", out |-> [Conflict EXCEPT !.kind = "state"]]
    /\ UNCHANGED <<brokerVars, strays, pageVars>>

\* A PUT gets the lock: refused with the live state (its base is not the live
\* revision, or another browser holds the lease by now), or its write starts.
Writable(base) == base = srv.rev

TakePut ==
    /\ push.at = "sent" /\ wire.at = "asked"
    /\ \/ /\ push.val \in Refused
          /\ wire' = [at |-> "answered",
                      out |-> [NoOut EXCEPT !.kind = "rejected"]]
          /\ UNCHANGED section
       \/ /\ push.val \notin Refused /\ section = NoSection
          /\ wire' = [at |-> "answered", out |-> Conflict]
          /\ UNCHANGED section
       \/ /\ push.val \notin Refused /\ section = NoSection
          /\ Writable(push.base)
          /\ section' = [NoSection EXCEPT !.who = "page", !.val = push.val,
                                          !.gen = push.gen]
          /\ wire' = [wire EXCEPT !.at = "writing"]
    /\ UNCHANGED <<srv, disk, lastPeer, strays, pageVars>>

\* A PUT whose page is no longer waiting is read all the same.
TakeStray ==
    \E st \in strays :
        /\ section = NoSection
        /\ strays' = strays \ {st}
        /\ \/ UNCHANGED section
           \/ /\ Writable(st.base)
              /\ section' = [NoSection EXCEPT !.who = "stray", !.val = st.val,
                                              !.gen = st.gen]
        /\ UNCHANGED <<srv, disk, lastPeer, wire, pageVars>>

\* Another tab or browser writes, on the live state.
TakePeer(v) ==
    /\ section = NoSection /\ srv.rev < MaxRev
    /\ section' = [NoSection EXCEPT !.who = "peer", !.val = v]
    /\ UNCHANGED <<srv, disk, lastPeer, netVars, pageVars>>

\* The executor's thread has replaced the file.
WriteLands ==
    /\ section.who # "none" /\ ~section.landed
    /\ section' = [section EXCEPT !.landed = TRUE]
    /\ disk' = [rev |-> srv.rev + 1, val |-> section.val]
    /\ UNCHANGED <<srv, lastPeer, netVars, pageVars>>

\* ... or the write has failed: 500.
WriteFails ==
    /\ section.who # "none" /\ ~section.landed
    /\ section' = NoSection
    /\ wire' = IF section.who = "page"
                 THEN [at |-> "answered", out |-> [NoOut EXCEPT !.kind = "error"]]
                 ELSE wire
    /\ UNCHANGED <<srv, disk, lastPeer, strays, pageVars>>

\* History: a peer's write has landed.  One that puts back what this page sent
\* is no news to it.
NotedPeer ==
    IF section.who # "peer" THEN lastPeer
    ELSE IF \E g \in Gens : page.sends[g] = section.val THEN 0
    ELSE disk.rev

\* Back on the loop: memory follows, the lock is free, the PUT is answered.
Commit ==
    /\ section.landed
    /\ srv' = disk
    /\ section' = NoSection
    /\ lastPeer' = NotedPeer
    /\ wire' = IF section.who = "page"
                 THEN [at |-> "answered",
                       out |-> [NoOut EXCEPT !.kind = "saved", !.rev = disk.rev]]
                 ELSE wire
    /\ UNCHANGED <<disk, strays, pageVars>>

\* The broker is killed and started again from the file; its exchanges are lost.
Crash ==
    /\ srv' = disk
    /\ section' = NoSection /\ strays' = {}
    /\ lastPeer' = IF section.landed THEN NotedPeer ELSE lastPeer
    /\ wire' = IF wire.at = "none" THEN wire
               ELSE [at |-> "answered", out |-> [NoOut EXCEPT !.kind = "lost"]]
    /\ UNCHANGED <<disk, pageVars>>

\* The section of a request that is gone.
Cancelled == NoSection

\* The section of a request that is given up runs on, on its own.
Shielded == IF section.who = "page" THEN [section EXCEPT !.who = "stray"]
                                    ELSE section

\* The page gives an exchange up: the deadline, a lost connection or reply.
\* A PUT not read yet may be read later, or never; one being written goes on.
GiveUp ==
    /\ wire.at \in {"asked", "writing", "answered"} /\ wire.out.kind # "lost"
    /\ wire' = [at |-> "answered", out |-> [NoOut EXCEPT !.kind = "lost"]]
    /\ section' = IF wire.at = "writing" THEN Shielded ELSE section
    /\ \/ UNCHANGED strays
       \/ /\ push.at = "sent" /\ wire.at = "asked"
          /\ push.val \notin Refused /\ Cardinality(strays) < MaxStrays
          /\ strays' = strays \cup
                {[base |-> push.base, val |-> push.val, gen |-> push.gen]}
    /\ UNCHANGED <<srv, disk, lastPeer, pageVars>>

\* An answer that is not the broker's verdict: 401, 5xx, a proxy's page.
AnswerBadly ==
    /\ wire.at = "asked"
    /\ wire' = [at |-> "answered", out |-> [NoOut EXCEPT !.kind = "error"]]
    /\ UNCHANGED <<brokerVars, strays, pageVars>>

-----------------------------------------------------------------------------
(* The page: pushState.                                                    *)

\* A continuation that may run does so before the page's next event: whoever
\* waits for the channel goes first once it is free.
Waiting ==
    push.at = "waiting" \/ \E e \in Epochs : chain[e] \in {"flush", "pull"}
NextEvent == wire = NoWire => ~Waiting

\* They go in the order they came: a flush came before any push called in its
\* view or a later one, and after those of earlier views.
FlushesBefore(e) == \E x \in Epochs : x < e /\ chain[x] = "flush"

\* A call of pushState in page state p: what becomes of p and of push.
Called(p) == IF ~p.off /\ push.at # "idle" THEN [p EXCEPT !.again = TRUE] ELSE p
PushAfterCall(p) ==
    IF p.off \/ push.at # "idle" THEN push
    ELSE [NoPush EXCEPT !.at = "waiting", !.epoch = p.epoch]

\* The user changes the layout or a setting, and saves.
Edit(v) ==
    /\ NextEvent
    /\ ~page.off /\ v # page.local /\ page.editGen < MaxGen
    /\ page' = Scheduled([page EXCEPT !.local = v, !.editGen = @ + 1])
    /\ UNCHANGED <<brokerVars, netVars, push, pull, chain, origin, slipped>>

\* The debounce is over.
TimerFires ==
    /\ NextEvent /\ page.timer
    /\ page' = Called([page EXCEPT !.timer = FALSE])
    /\ push' = PushAfterCall(page)
    /\ UNCHANGED <<brokerVars, netVars, pull, chain, origin, slipped>>

\* pushState's finally in page state p; a rebuild waiting for it goes on.
Finished(p) ==
    LET q == [p EXCEPT !.again = FALSE] IN
    /\ push' = NoPush
    /\ page' = IF p.again /\ push.epoch = p.epoch THEN Scheduled(q) ELSE q
    /\ chain' = [e \in Epochs |-> IF chain[e] = "pushing" THEN "pull"
                                                          ELSE chain[e]]

\* The channel is free: send, unless there is nothing to say.
PushSends ==
    /\ push.at = "waiting" /\ wire = NoWire /\ ~FlushesBefore(push.epoch + 1)
    /\ IF page.off
         THEN Finished(page) /\ UNCHANGED wire
       ELSE IF page.local = page.base
         THEN /\ Finished(SettledSent([page EXCEPT !.sentGen = page.editGen],
                                      page.editGen))
              /\ UNCHANGED wire
         ELSE /\ push' = [push EXCEPT !.at = "sent", !.gen = page.editGen,
                                      !.val = page.local,
                                      !.base = SendBase(page, page.editGen)]
              /\ page' = [page EXCEPT !.sentGen = page.editGen,
                                      !.sends[page.editGen] = page.local]
              /\ wire' = [NoWire EXCEPT !.at = "asked"]
              /\ UNCHANGED chain
    /\ slipped' = IF wire' # wire /\ push.epoch # page.epoch
                    THEN page.editGen ELSE slipped
    /\ lastPeer' = IF wire' # wire /\ lastPeer = srv.rev /\ page.local = srv.val
                     THEN 0 ELSE lastPeer
    /\ UNCHANGED <<srv, disk, section, strays, pull, origin>>

\* The PUT's reply, for page state p: the broker's state won.
AfterConflict(p, out) ==
    LET q == [SawOwnWrite(p, out.val, out.rev) EXCEPT !.rev = out.rev] IN
    IF FromParent(p, push.gen, out.val)
      THEN [q EXCEPT !.base = out.val, !.skipped = FALSE, !.again = TRUE]
    ELSE IF p.editGen = push.gen THEN Adopted(q, out.val)
    ELSE [q EXCEPT !.base = NoVal, !.skipped = TRUE]

AfterSaved(p, out) ==
    LET q == [p EXCEPT !.rev = out.rev, !.base = push.val, !.skipped = FALSE,
                       !.park.base = IF p.park.on /\ push.gen < p.park.gen
                                        /\ @ < out.rev THEN out.rev ELSE @]
    IN SettledSent(q, push.gen)

\* The broker will never take this payload: back to the saved state, unless
\* there is a newer edit, or the view is over and the edit parked.
Converges == page.editGen = push.gen /\ page.epoch = push.epoch /\ ~page.off
RejectedUnskipped(p) == [SettledSent(p, push.gen) EXCEPT !.base = NoVal]

AfterRejected(p) ==
    IF p.epoch # push.epoch /\ p.park.on /\ push.gen = p.park.gen
      THEN ParkedFailure(p, push.gen)
    ELSE IF Converges
      THEN [SettledSent(p, push.gen) EXCEPT !.skipped = TRUE, !.base = NoVal]
    ELSE SettledSent(p, push.gen)

AfterFailure(p, thrown) ==
    IF p.epoch = push.epoch THEN Failed(p, push.gen, push.base, thrown)
                            ELSE ParkedFailure(p, push.gen)

PushReply ==
    LET out == wire.out IN
    /\ push.at = "sent" /\ wire.at = "answered"
    /\ Finished(CASE out.kind = "saved" -> AfterSaved(page, out)
                  [] out.kind = "conflict" ->
                        IF page.off \/ page.epoch # push.epoch
                          THEN ParkedFailure(page, push.gen)
                          ELSE AfterConflict(page, out)
                  [] out.kind = "rejected" -> AfterRejected(page)
                  [] OTHER -> AfterFailure(page, out.kind = "lost"))
    /\ origin' = IF out.kind = "lost" /\ page.epoch = push.epoch
                   THEN NotedOrigin(page, push.gen, push.base) ELSE origin
    /\ slipped' = IF out.kind = "conflict" /\ FromParent(page, push.gen, out.val)
                     /\ ~page.off /\ page.epoch = push.epoch
                    THEN push.gen ELSE slipped
    /\ IF out.kind = "rejected" /\ Converges
         THEN /\ wire' = [NoWire EXCEPT !.at = "asked"]
              /\ pull' = [NoPull EXCEPT !.at = "sent", !.epoch = page.epoch]
         ELSE wire' = NoWire /\ UNCHANGED pull
    /\ UNCHANGED <<brokerVars, strays>>

-----------------------------------------------------------------------------
(* The page: pullState.                                                    *)

\* A poll: never beside another exchange or push.
PullPolls ==
    /\ NextEvent
    /\ ~page.off /\ wire = NoWire /\ push.at = "idle"
    /\ pull' = [NoPull EXCEPT !.at = "sent", !.epoch = page.epoch]
    /\ wire' = [NoWire EXCEPT !.at = "asked"]
    /\ UNCHANGED <<brokerVars, strays, push, page, chain, origin, slipped>>

\* Must a pull keep the local state rather than adopt?
KeepsLocal(p, initial) ==
    /\ p.local # p.base
    /\ IF initial THEN p.park.on /\ Owed(p) ELSE Queued(p) \/ Owed(p)

\* What a pull may make of page state p when the broker shows `out`.
AfterPull(p0, out) ==
    LET p == IF Owed(p0) /\ p0.local = p0.base THEN SettledAll(p0) ELSE p0
        q == [SawOwnWrite(p, out.val, out.rev) EXCEPT !.rev = out.rev]
    IN
    CASE ~pull.initial /\ out.rev = p.rev /\ ~p.skipped -> RetryOwed(p)
      [] ~pull.initial /\ out.val = p.base /\ ~(out.rev = p.rev /\ ~p.skipped)
            -> RetryOwed([q EXCEPT !.skipped = FALSE])
      [] ~pull.initial /\ out.val = p.local /\ out.val # p.base
            /\ ~(out.rev = p.rev /\ ~p.skipped)
            -> {[SettledAll(q) EXCEPT !.base = out.val, !.skipped = FALSE]}
      [] OTHER -> IF KeepsLocal(q, pull.initial)
                    THEN RetryOwed([q EXCEPT !.skipped = TRUE])
                    ELSE {Adopted(q, out.val)}

PullReply ==
    /\ pull.at = "sent" /\ wire.at = "answered"
    /\ pull' = NoPull /\ wire' = NoWire
    /\ page' \in IF wire.out.kind = "state" /\ pull.epoch = page.epoch
                   THEN AfterPull(page, wire.out) ELSE {page}
    /\ chain' = IF pull.initial THEN [chain EXCEPT ![pull.epoch] = "done"]
                                ELSE chain
    /\ UNCHANGED <<brokerVars, strays, push, origin, slipped>>

-----------------------------------------------------------------------------
(* The page's view.                                                        *)

\* The page hears that it lost the lease.
Teardown ==
    /\ NextEvent /\ ~page.off /\ page.epoch < MaxEpoch
    /\ page' = [Parked(page) EXCEPT !.off = TRUE, !.epoch = @ + 1]
    /\ origin' = IF Parked(page).park.on
                   THEN NotedOrigin(page, page.editGen, Parked(page).park.base)
                   ELSE origin
    /\ UNCHANGED <<brokerVars, netVars, push, pull, chain, slipped>>

\* ... and that it has it again.
Rebuild ==
    /\ NextEvent /\ page.off /\ page.epoch < MaxEpoch
    /\ page' = [page EXCEPT !.off = FALSE, !.epoch = @ + 1]
    /\ chain' = [chain EXCEPT ![page'.epoch] = "flush"]
    /\ UNCHANGED <<brokerVars, netVars, push, pull, origin, slipped>>

\* _stateFlushOwed, once the channel is free: a parked edit goes out first.
Flush(e) ==
    LET flushes == page.park.on /\ Owed(page) IN
    /\ chain[e] = "flush" /\ wire = NoWire /\ ~FlushesBefore(e)
    /\ push.at = "waiting" => push.epoch >= e
    /\ page' = IF flushes THEN Called(page)
                          ELSE [page EXCEPT !.park.on = FALSE]
    /\ push' = IF flushes THEN PushAfterCall(page) ELSE push
    /\ chain' = [chain EXCEPT ![e] =
                    IF flushes /\ push'.at # push.at THEN "pushing" ELSE "pull"]
    /\ UNCHANGED <<brokerVars, netVars, pull, origin, slipped>>

\* Then the initial pull, unless the view is over.
PullsAtRebuild(e) ==
    /\ chain[e] = "pull"
    /\ IF page.off \/ page.epoch # e
         THEN /\ chain' = [chain EXCEPT ![e] = "done"]
              /\ UNCHANGED <<pull, wire>>
         ELSE /\ wire = NoWire
              /\ pull' = [at |-> "sent", epoch |-> e, initial |-> TRUE]
              /\ wire' = [NoWire EXCEPT !.at = "asked"]
              /\ chain' = [chain EXCEPT ![e] = "pulling"]
    /\ UNCHANGED <<brokerVars, strays, push, page, origin, slipped>>

-----------------------------------------------------------------------------
Next ==
    \/ AnswerGet \/ TakePut \/ TakeStray \/ WriteLands \/ WriteFails \/ Commit
    \/ \E v \in Vals \ Refused : TakePeer(v)
    \/ Crash \/ GiveUp \/ AnswerBadly
    \/ \E v \in Vals : Edit(v)
    \/ TimerFires \/ PushSends \/ PushReply \/ PullPolls \/ PullReply
    \/ Teardown \/ Rebuild
    \/ \E e \in Epochs : Flush(e) \/ PullsAtRebuild(e)

Spec == Init /\ [][Next]_vars

-----------------------------------------------------------------------------
(* Properties.                                                             *)

\* With no PUT running, memory is what is on disk: no cancelled request, late
\* PUT or failed write leaves a state only one of them has (_shielded_region).
MemoryIsOnDisk == section = NoSection => srv = disk

\* ... and everything keeps its type.
MemoryIsDurable == TypeOK /\ MemoryIsOnDisk

\* A revision the page has heard of never comes back with another meaning, a
\* broker restart included: the page's revision only grows.
RevNeverGoesBack == [][page'.rev >= page.rev]_vars

\* Nothing is under way, to be retried or to be reconsidered.
AtRest ==
    /\ ~page.off /\ wire = NoWire /\ ~Queued(page)
    /\ ~Owed(page) /\ ~page.skipped
    /\ page.epoch = 0 \/ chain[page.epoch] = "done"

\* A page at rest on the broker's revision shows the broker's state: no order of
\* edits, losses, refusals, teardowns and peers leaves it apart for good.
RestsInStep ==
    AtRest /\ (slipped = 0 \/ slipped # page.editGen) /\ page.rev = srv.rev
        => page.local = srv.val

\* As the mutation record is explained: what the page owes is every edit that no
\* landed PUT, acknowledgement or adopt has covered.
OwedUntilCovered == AtRest /\ page.rev = srv.rev => page.local = srv.val

\* Old intent (an edit parked by a teardown, or whose PUT was lost) never
\* overwrites a peer's write that its base did not include: it lands only if no
\* peer wrote meanwhile, and yields otherwise.
OldIntentYields ==
    [][(/\ srv'.rev > srv.rev /\ section.who \in {"page", "stray"}
        /\ section.gen = origin.gen)
            => lastPeer <= origin.base]_vars

\* A page never goes back to an older revision, and what it meant against an
\* older one is never written over what it has not seen.
IntentsAreOrdered == RevNeverGoesBack /\ OldIntentYields
=============================================================================
