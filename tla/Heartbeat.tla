------------------------------- MODULE Heartbeat -------------------------------
(***************************************************************************)
(* The page's heartbeat: refreshTaskbar (75_js_taskbar_hosts.js) polls     *)
(* every host's /sessions, merges the answers into chips, opens the parked *)
(* windows and closes the ones whose session is gone; with what feeds it:  *)
(* launches (76), MCP launch frames (64), and the boot, teardown and       *)
(* rebuild of the view with the lease (84).                                *)
(*                                                                         *)
(* A RUN of the heartbeat holds a mutex while it waits, at most 150 ms,    *)
(* for the polls; the rest of it is one step.  A watchdog may take the     *)
(* mutex from a run, and with it its generation: refreshSeq is compared    *)
(* for equality only, so it is the run that owns it, or no run.  A poll    *)
(* belongs to its host's record, one at a time, and no run waits for it.   *)
(* Clocks are the guards of SlowTick, Expires and GraceEnds: an agent is   *)
(* back within 10 s of a broker restart, MissClose slow ticks take 12 s, a *)
(* park lasts 15 s and the layout's grace 120 s.                           *)
(* Left out: re-dialling (DetachView, ControlledView), the pull of /state  *)
(* (StateSync), app windows, host list edits other than a host's address.  *)
(***************************************************************************)
EXTENDS Naturals, FiniteSets

CONSTANTS
    Hosts, Keys, HostOf,   \* configured hosts; terminals, and where each runs
    Runs, NoRun,           \* refreshTaskbar calls alive at once
    MissClose,             \* MISSING_POLLS_CLOSE
    Living, Late, Terms,   \* at page load: sessions; those registering late; openTerms
    Budget                 \* bounds: how often each outside event happens

HeartbeatAssumption ==
    /\ HostOf \in [Keys -> Hosts] /\ Living \cup Terms \subseteq Keys /\ Late \subseteq Living
    /\ NoRun \notin Runs /\ MissClose \in Nat \ {0} /\ Hosts # {}

VARIABLES
    up, running, reg,      \* hosts that answer; sessions that live; those listed
    waited,                \* slow ticks since a host's agents began to come back
    poll, flight,          \* hostPolls, and the request out on each record
    run, cur, inFlight,    \* the runs, the owner of refreshSeq, refreshInFlight
    win, miss, chips,      \* windows, their missingPolls, sessions
    pending, due,          \* pendingOpens, and those past their deadline
    restoring, quiet,      \* restoreKeys, quietOpens
    seen,                  \* _launchOpenSeen
    fast, slow,            \* fastPollTimer, _slowPollTimer
    openTerms, layout,     \* the shared restore set, the tiled keys
    gcMiss, pins,          \* layoutGcMiss, settings.mcpModes
    off, ready, epoch,     \* _deactivated, _viewReady, _viewEpoch
    chains,                \* boots and rebuilds in flight
    launching, frames,     \* /launch answers and session_launched frames under way
    catch,                 \* one _catchUpSessions
    swept, evidence,       \* history, read by properties only
    left

worldVars == <<up, running, reg, waited>>
pollVars  == <<poll, flight>>
runVars   == <<run, cur, inFlight>>
deskVars  == <<win, miss, chips>>
parkVars  == <<pending, due, restoring, quiet, seen, fast>>
keepVars  == <<openTerms, layout, gcMiss, pins>>
viewVars  == <<off, ready, epoch, chains, slow>>
askVars   == <<launching, frames>>
histVars  == <<swept, evidence>>
vars == <<worldVars, pollVars, runVars, deskVars, parkVars, keepVars, viewVars,
          askVars, catch, histVars, left>>

Of(h) == {k \in Keys : HostOf[k] = h}
NoFlight == [st |-> "none", list |-> {}]
NoPoll == [ok |-> FALSE, everOk |-> FALSE, list |-> {}, fresh |-> FALSE, gcDone |-> FALSE]
NoCatch == [pc |-> "idle", host |-> CHOOSE h \in Hosts : TRUE, need |-> {}, wait |-> NoRun]
Chain == [kind : {"boot", "rebuild"}, step : {"first", "pull"}, epoch : Nat]

TypeOK ==
    /\ up \subseteq Hosts /\ reg \subseteq running /\ running \subseteq Keys
    /\ waited \in [Hosts -> Nat]
    /\ poll \in [Hosts -> [ok : BOOLEAN, everOk : BOOLEAN, list : SUBSET Keys,
                           fresh : BOOLEAN, gcDone : BOOLEAN]]
    /\ flight \in [Hosts -> [st : {"none", "out", "back", "bad"}, list : SUBSET Keys]]
    /\ run \in [Runs -> {"idle", "settle"}] /\ cur \in Runs \cup {NoRun}
    /\ inFlight \in BOOLEAN
    /\ win \subseteq Keys /\ miss \in [Keys -> 0 .. MissClose] /\ chips \subseteq Keys
    /\ pending \subseteq Keys /\ due \subseteq pending
    /\ restoring \subseteq Keys /\ quiet \subseteq Keys /\ seen \subseteq Keys
    /\ fast \in BOOLEAN /\ slow \in BOOLEAN
    /\ openTerms \subseteq Keys /\ layout \subseteq Keys /\ pins \subseteq Keys
    /\ gcMiss \in [Keys -> {"no", "since", "over"}]
    /\ off \in BOOLEAN /\ ready \in BOOLEAN /\ epoch \in Nat /\ chains \subseteq Chain
    /\ launching \subseteq Keys /\ frames \subseteq Keys
    /\ catch \in [pc : {"idle", "poll", "polled", "before", "after"}, host : Hosts,
                  need : SUBSET Keys, wait : Runs \cup {NoRun}]
    /\ swept \subseteq Keys /\ evidence \in [Keys -> 0 .. MissClose]

Init ==
    /\ up = Hosts /\ running = Living /\ reg = Living \ Late
    /\ waited = [h \in Hosts |-> 0]
    /\ poll = [h \in Hosts |-> NoPoll] /\ flight = [h \in Hosts |-> NoFlight]
    /\ run = [r \in Runs |-> "idle"] /\ cur = NoRun /\ inFlight = FALSE
    /\ win = {} /\ miss = [k \in Keys |-> 0] /\ chips = {}
    /\ pending = {} /\ due = {} /\ restoring = {} /\ quiet = {} /\ seen = {}
    /\ fast = FALSE /\ slow = FALSE
    /\ openTerms = Terms /\ layout = Terms /\ pins = Living
    /\ gcMiss = [k \in Keys |-> "no"]
    /\ off = FALSE /\ ready = FALSE /\ epoch = 1
    /\ chains = {[kind |-> "boot", step |-> "first", epoch |-> 1]}
    /\ launching = {} /\ frames = {} /\ catch = NoCatch
    /\ swept = {} /\ evidence = [k \in Keys |-> 0]
    /\ left = Budget

Spend(what) == left[what] > 0 /\ left' = [left EXCEPT ![what] = @ - 1]

-------------------------------------------------------------------------------
\* Brokers and agents.

\* A broker restarts: the polls out on it break, its agents come back one by one.
Restart(h) ==
    /\ Spend("restart") /\ h \in up
    /\ reg' = reg \ Of(h) /\ waited' = [waited EXCEPT ![h] = 0]
    /\ flight' = [flight EXCEPT ![h] = IF @.st = "out" THEN [@ EXCEPT !.st = "bad"] ELSE @]
    /\ UNCHANGED <<up, running, poll, runVars, deskVars, parkVars, keepVars, viewVars,
                   askVars, catch, histVars>>

\* A launched agent appears in the broker's list.
Registers(k) ==
    /\ k \in running \ reg
    /\ reg' = reg \cup {k}
    /\ waited' = [waited EXCEPT ![HostOf[k]] = IF Of(HostOf[k]) \cap running \subseteq reg' THEN 0 ELSE @]
    /\ UNCHANGED <<up, running, pollVars, runVars, deskVars, parkVars, keepVars, viewVars,
                   askVars, catch, histVars, left>>

Dies(k) ==
    /\ Spend("die") /\ k \in running
    /\ running' = running \ {k} /\ reg' = reg \ {k}
    /\ UNCHANGED <<up, waited, pollVars, runVars, deskVars, parkVars, keepVars, viewVars,
                   askVars, catch, histVars>>

GoesAway(h) ==
    /\ Spend("away") /\ h \in up /\ up' = up \ {h}
    /\ UNCHANGED <<running, reg, waited, pollVars, runVars, deskVars, parkVars, keepVars,
                   viewVars, askVars, catch, histVars>>

ComesBack(h) ==
    /\ h \notin up /\ up' = up \cup {h}
    /\ UNCHANGED <<running, reg, waited, pollVars, runVars, deskVars, parkVars, keepVars,
                   viewVars, askVars, catch, histVars, left>>

-------------------------------------------------------------------------------
\* The polls.

Served(h) ==
    /\ flight[h].st = "out" /\ h \in up
    /\ flight' = [flight EXCEPT ![h] = [st |-> "back", list |-> reg \cap Of(h)]]
    /\ UNCHANGED <<worldVars, poll, runVars, deskVars, parkVars, keepVars, viewVars,
                   askVars, catch, histVars, left>>

\* Nothing answers, or what does is cut off: 3 s later the poll is given up.
Breaks(h) ==
    /\ flight[h].st = "out" /\ (h \in up => Spend("fail")) /\ (h \notin up => UNCHANGED left)
    /\ flight' = [flight EXCEPT ![h] = [@ EXCEPT !.st = "bad"]]
    /\ UNCHANGED <<worldVars, poll, runVars, deskVars, parkVars, keepVars, viewVars,
                   askVars, catch, histVars>>

\* The poll a catch-up asked for is answered.
Polled(h) == IF catch.pc = "poll" /\ catch.host = h THEN [catch EXCEPT !.pc = "polled"]
             ELSE catch

PollLands(h) ==
    /\ flight[h].st \in {"back", "bad"}
    /\ flight' = [flight EXCEPT ![h] = NoFlight]
    /\ poll' = [poll EXCEPT ![h] =
          IF flight[h].st = "bad" THEN [@ EXCEPT !.ok = FALSE]
          ELSE [@ EXCEPT !.ok = TRUE, !.everOk = TRUE, !.fresh = TRUE, !.list = flight[h].list]]
    /\ catch' = Polled(h)
    /\ IF flight[h].st = "bad" THEN UNCHANGED evidence
       ELSE evidence' = [k \in Keys |->
                  IF k \in Of(h) \ flight[h].list /\ evidence[k] < MissClose
                  THEN evidence[k] + 1 ELSE evidence[k]]
    /\ UNCHANGED <<worldVars, runVars, deskVars, parkVars, keepVars, viewVars, askVars,
                   swept, left>>

\* A host's address is edited: its record is dropped, and what is out on it is orphaned.
EditHost(h) ==
    /\ Spend("edit")
    /\ poll' = [poll EXCEPT ![h] = NoPoll] /\ flight' = [flight EXCEPT ![h] = NoFlight]
    /\ catch' = Polled(h)
    /\ UNCHANGED <<worldVars, runVars, deskVars, parkVars, keepVars, viewVars, askVars, histVars>>

-------------------------------------------------------------------------------
\* Runs.

\* pollHostOnce: one poll out per record.
Asked(h) == IF flight[h].st = "none" THEN [NoFlight EXCEPT !.st = "out"] ELSE flight[h]

\* refreshTaskbar up to its first await; a no-op while a run holds the mutex.
Refresh ==
    IF inFlight \/ off THEN UNCHANGED <<runVars, flight>>
    ELSE \E r \in Runs :
            /\ run[r] = "idle"
            /\ run' = [run EXCEPT ![r] = "settle"] /\ cur' = r /\ inFlight' = TRUE
            /\ flight' = [h \in Hosts |-> Asked(h)]

\* The 2 s timer.  Agents are back before it has ticked MissClose times.
SlowTick ==
    /\ slow /\ ~off /\ ~inFlight
    /\ \A h \in Hosts : waited[h] + 1 < MissClose \/ Of(h) \cap running \subseteq reg
    /\ waited' = [h \in Hosts |->
          IF Of(h) \cap running \subseteq reg THEN waited[h] ELSE waited[h] + 1]
    /\ UNCHANGED <<up, running, reg, poll, deskVars, parkVars, keepVars, viewVars, askVars,
                   catch, histVars, left>>
    /\ Refresh

\* The 250 ms timer of the parked opens.
FastTick ==
    /\ fast /\ ~off /\ ~inFlight
    /\ UNCHANGED <<worldVars, poll, deskVars, parkVars, keepVars, viewVars, askVars,
                   catch, histVars, left>>
    /\ Refresh

\* A run is wedged: its mutex and its generation are taken away.
Watchdog ==
    /\ Spend("dog") /\ inFlight
    /\ cur' = NoRun /\ inFlight' = FALSE
    /\ catch' = IF catch.wait = cur THEN NoCatch ELSE catch    \* its budget is shorter
    /\ UNCHANGED <<worldVars, run, pollVars, deskVars, parkVars, keepVars, viewVars,
                   askVars, histVars>>

\* What the polls last said, of every host that ever answered.
Merged == UNION {poll[h].list : h \in {g \in Hosts : poll[g].everOk}}

\* The first good non-empty answer of a host drops the pins of keys it does not list.
Swept1(h) == poll[h].ok /\ ~poll[h].gcDone /\ poll[h].list # {}
PinsKept == {k \in pins : Swept1(HostOf[k]) => k \in Merged \cup win \cup pending}

\* Tiled keys: the clock of one no good answer lists, and the ones whose grace is over.
GcLooks(k) == k \in layout /\ poll[HostOf[k]].ok /\ poll[HostOf[k]].list # {}

GcAlive(k) == k \in Merged \cup win \cup pending
GcDropped == {k \in Keys : GcLooks(k) /\ ~GcAlive(k) /\ gcMiss[k] = "over"}
GcMissed == [k \in Keys |->
    IF ~GcLooks(k) THEN gcMiss[k]
    ELSE IF GcAlive(k) \/ k \in GcDropped THEN "no"
    ELSE IF gcMiss[k] = "no" THEN "since" ELSE gcMiss[k]]

\* A window whose session a NEW answer of its own host does not list.
Missed(k) == k \in (chips \cap win) \ Merged /\ poll[HostOf[k]].ok /\ poll[HostOf[k]].fresh
Misses == [k \in Keys |->
    IF k \in Merged THEN 0 ELSE IF Missed(k) THEN miss[k] + 1 ELSE miss[k]]
DisappearedEarly == {k \in (chips \cap win) \ Merged : Misses[k] + 1 >= MissClose}

\* The windows whose session was missing from MissClose ticks in a row.
Disappeared == {k \in (chips \cap win) \ Merged : Misses[k] >= MissClose}

\* Parked keys that are listed are opened, and those past their deadline dropped.
Opened == pending \cap Merged
Expired == (pending \cap due) \ Merged
Forgotten == {k \in Expired \cap restoring : poll[HostOf[k]].everOk}

\* refreshTaskbarInner after its wait: nothing of a run that lost its generation.
Applies(r) ==
    /\ poll' = [h \in Hosts |-> [poll[h] EXCEPT !.fresh = FALSE,
                                                !.gcDone = @ \/ Swept1(h)]]
    /\ pins' = PinsKept /\ gcMiss' = GcMissed
    /\ win' = (win \ Disappeared) \cup Opened
    /\ chips' = (chips \cap (win \ Disappeared)) \cup Merged
    /\ miss' = [k \in Keys |-> IF k \in Disappeared \cup (Opened \ win) THEN 0 ELSE Misses[k]]
    /\ layout' = (layout \ (GcDropped \cup Disappeared)) \cup Opened
    /\ openTerms' = (openTerms \ (GcDropped \cup Disappeared \cup Forgotten)) \cup Opened
    /\ pending' = pending \ (Opened \cup Expired) /\ due' = due \ (Opened \cup Expired)
    /\ restoring' = restoring \ (Opened \cup Expired)
    /\ quiet' = quiet \cap pending'
    /\ fast' = (fast /\ pending' # {})
    /\ swept' = swept \cup Disappeared
    /\ evidence' = [k \in Keys |-> IF k \in Merged THEN 0 ELSE evidence[k]]
    /\ UNCHANGED seen

IsCurrent(r) == cur = r

ReleasesAny(r) == TRUE

\* The finally of refreshTaskbar.
Releases(r) == IsCurrent(r)

\* Settling is over for run r: it sweeps, and lets the mutex go.
SettleEnds(r) ==
    /\ run[r] = "settle"
    /\ run' = [run EXCEPT ![r] = "idle"]
    /\ inFlight' = (inFlight /\ ~Releases(r))
    /\ cur' = IF IsCurrent(r) THEN NoRun ELSE cur
    /\ catch' = IF catch.wait = r THEN [catch EXCEPT !.wait = NoRun] ELSE catch
    /\ IF off \/ ~IsCurrent(r)
       THEN UNCHANGED <<poll, deskVars, parkVars, keepVars, swept, evidence>>
       ELSE Applies(r)
    /\ UNCHANGED <<worldVars, flight, viewVars, askVars, left>>

\* Fifteen seconds after it was parked.  By then an agent has registered, a host that can
\* be reached has been polled, and a listed key has been opened.
Expires(k) ==
    /\ k \in pending \ due /\ ~off /\ k \notin (running \ reg) \cup poll[HostOf[k]].list
    /\ flight[HostOf[k]].st \notin {"back", "bad"}
    /\ HostOf[k] \in up => poll[HostOf[k]].ok /\ poll[HostOf[k]].list = reg \cap Of(HostOf[k])
    /\ due' = due \cup {k}
    /\ UNCHANGED <<worldVars, pollVars, runVars, deskVars, pending, restoring, quiet, seen,
                   fast, keepVars, viewVars, askVars, catch, histVars, left>>

\* Two minutes after the layout's clock started.  A page that was awake has polled since.
GraceEnds(k) ==
    /\ gcMiss[k] = "since" /\ k \notin running \ reg
    /\ \/ /\ poll[HostOf[k]].ok => poll[HostOf[k]].list = reg \cap Of(HostOf[k])
          /\ flight[HostOf[k]].st # "back" /\ UNCHANGED left
       \/ Spend("sleep")
    /\ gcMiss' = [gcMiss EXCEPT ![k] = "over"]
    /\ UNCHANGED <<worldVars, pollVars, runVars, deskVars, parkVars, openTerms, layout, pins,
                   viewVars, askVars, catch, histVars>>

-------------------------------------------------------------------------------
\* The user, the launches and the MCP frames.

Open(k) ==
    /\ win' = win \cup {k} /\ miss' = [miss EXCEPT ![k] = 0]
    /\ openTerms' = openTerms \cup {k} /\ layout' = layout \cup {k}

ClickChip(k) ==
    /\ ~off /\ k \in chips \ win /\ Spend("click")
    /\ Open(k)
    /\ UNCHANGED <<worldVars, pollVars, runVars, chips, parkVars, gcMiss, pins, viewVars,
                   askVars, catch, histVars>>

CloseWindow(k) ==
    /\ ~off /\ k \in win /\ Spend("close")
    /\ win' = win \ {k} /\ openTerms' = openTerms \ {k} /\ layout' = layout \ {k}
    /\ UNCHANGED <<worldVars, pollVars, runVars, miss, chips, parkVars, gcMiss, pins, viewVars,
                   askVars, catch, histVars>>

\* A window that cannot open yet waits in the park, and the fast ticks begin.
Park(k) == pending' = pending \cup {k} /\ due' = due \ {k} /\ fast' = TRUE

\* The user launches, or an MCP client does: the session exists before its answer or its
\* frame reaches the page, and its agent may not have registered yet.
Launches(k, mcp) ==
    /\ ~off /\ Spend("launch") /\ k \notin running \cup launching \cup frames \cup swept
    /\ k \notin Living /\ HostOf[k] \in up
    /\ running' = running \cup {k} /\ reg' \in {reg, reg \cup {k}}
    /\ IF mcp THEN frames' = frames \cup {k} /\ UNCHANGED launching
       ELSE launching' = launching \cup {k} /\ UNCHANGED frames
    /\ UNCHANGED <<up, waited, pollVars, runVars, deskVars, parkVars, keepVars, viewVars,
                   catch, histVars>>

LaunchAnswered(k) ==
    /\ k \in launching /\ launching' = launching \ {k}
    /\ Park(k)
    /\ UNCHANGED <<worldVars, poll, deskVars, restoring, quiet, seen, keepVars, viewVars,
                   frames, catch, histVars, left>>
    /\ Refresh

\* noteSessionLaunched.  A lost lease drops the frame (LeaseChannel orders the two).
FrameArrives(k) ==
    /\ k \in frames /\ frames' = frames \ {k}
    /\ IF off \/ ~ready \/ k \in seen \cup win \cup pending
       THEN UNCHANGED <<parkVars, runVars, flight>>
       ELSE /\ seen' = seen \cup {k} /\ Park(k) /\ quiet' = quiet \cup {k}
            /\ UNCHANGED restoring
            /\ Refresh
    /\ UNCHANGED <<worldVars, poll, deskVars, keepVars, viewVars, launching, catch,
                   histVars, left>>

-------------------------------------------------------------------------------
\* The view and the lease.

\* The lease is lost: the view goes, and its windows with it.
Teardown ==
    /\ Spend("flip") /\ ~off
    /\ off' = TRUE /\ ready' = FALSE /\ epoch' = epoch + 1 /\ slow' = FALSE
    /\ fast' = FALSE /\ pending' = {} /\ due' = {} /\ restoring' = {}
    /\ win' = {} /\ chips' = {}
    /\ catch' = [catch EXCEPT !.need = {}]     \* what it was to fill is gone
    /\ UNCHANGED <<worldVars, pollVars, runVars, miss, quiet, seen, keepVars, chains,
                   askVars, histVars>>

\* The lease comes back: rebuildView, as far as its flush of an owed edit.
Rebuild ==
    /\ off /\ off' = FALSE /\ epoch' = epoch + 1
    /\ chains' = chains \cup {[kind |-> "rebuild", step |-> "first", epoch |-> epoch + 1]}
    /\ UNCHANGED <<worldVars, pollVars, runVars, deskVars, parkVars, keepVars, ready, slow,
                   askVars, catch, histVars, left>>

\* Another device, which holds the lease, opens and closes windows in the shared set.
OtherDevice(k) ==
    /\ off /\ Spend("other")
    /\ openTerms' = IF k \in openTerms THEN openTerms \ {k} ELSE openTerms \cup {k}
    /\ layout' = IF k \in openTerms THEN layout \ {k} ELSE layout \cup {k}
    /\ running' = running \cup {k} /\ reg' = reg \cup {k}
    /\ UNCHANGED <<up, waited, pollVars, runVars, deskVars, parkVars, gcMiss, pins, viewVars,
                   askVars, catch, histVars>>

\* A chain of another epoch, or of a view that is off, has nothing to do.
Superseded(c) == off \/ c.epoch # epoch

\* seedRestoreQueue: every open terminal of the shared set is parked.
Seeds == openTerms \ (win \cup pending)
SeedRestoreQueue ==
    /\ pending' = pending \cup Seeds /\ restoring' = restoring \cup Seeds
    /\ due' = due \ Seeds /\ fast' = (fast \/ Seeds # {})
    /\ UNCHANGED <<quiet, seen>>

\* The end of bootActiveView and of rebuildView.
Restores(c) ==
    /\ SeedRestoreQueue
    /\ slow' = TRUE /\ ready' = TRUE
    /\ Refresh

\* A chain takes its next window.
ChainStep(c) ==
    /\ c \in chains /\ off' = off
    /\ IF Superseded(c)
       THEN /\ chains' = chains \ {c}
            /\ UNCHANGED <<parkVars, slow, ready, runVars, flight>>
       ELSE IF c.step = "first"
       THEN /\ chains' = (chains \ {c}) \cup {[c EXCEPT !.step = "pull"]}
            /\ UNCHANGED <<parkVars, slow, ready, runVars, flight>>
       ELSE chains' = chains \ {c} /\ Restores(c)
    /\ UNCHANGED <<worldVars, poll, deskVars, keepVars, epoch, askVars, catch,
                   histVars, left>>

-------------------------------------------------------------------------------
\* _catchUpSessions: a desktop op names a window this page has not polled yet.

\* _catchUpSessions begins: poll the host, then refresh.
CatchStart(h) ==
    /\ Spend("catch") /\ catch.pc = "idle" /\ ~off
    /\ catch' = [pc |-> "poll", host |-> h, need |-> {}, wait |-> NoRun]
    /\ flight' = [flight EXCEPT ![h] = Asked(h)]
    /\ UNCHANGED <<worldVars, poll, runVars, deskVars, parkVars, keepVars, viewVars,
                   askVars, histVars>>

\* The poll has settled: wait for the run that may have merged before it did.
CatchPolled ==
    /\ catch.pc = "polled"
    /\ catch' = [catch EXCEPT !.pc = "before", !.wait = cur,
                              !.need = IF poll[catch.host].ok /\ ~off THEN poll[catch.host].list ELSE {}]
    /\ UNCHANGED <<worldVars, pollVars, runVars, deskVars, parkVars, keepVars, viewVars,
                   askVars, histVars, left>>

CatchRefreshOnly ==
    /\ catch.pc = "before" /\ catch.wait = NoRun
    /\ Refresh
    /\ catch' = [catch EXCEPT !.pc = "after", !.wait = IF inFlight THEN NoRun ELSE cur']
    /\ UNCHANGED <<worldVars, poll, deskVars, parkVars, keepVars, viewVars, askVars,
                   histVars, left>>

\* Its own refresh, or the run that took the mutex first.
CatchRefresh ==
    /\ catch.pc = "before" /\ catch.wait = NoRun
    /\ Refresh
    /\ catch' = [catch EXCEPT !.pc = "after", !.wait = cur']
    /\ UNCHANGED <<worldVars, poll, deskVars, parkVars, keepVars, viewVars, askVars,
                   histVars, left>>

CatchDone ==
    /\ catch.pc = "after" /\ catch.wait = NoRun /\ catch' = NoCatch
    /\ UNCHANGED <<worldVars, pollVars, runVars, deskVars, parkVars, keepVars, viewVars,
                   askVars, histVars, left>>

-------------------------------------------------------------------------------
Outside ==
    \/ \E h \in Hosts : Restart(h) \/ GoesAway(h) \/ EditHost(h) \/ CatchStart(h)
    \/ \E k \in Keys : \/ Dies(k) \/ ClickChip(k) \/ CloseWindow(k) \/ OtherDevice(k)
                       \/ Launches(k, TRUE) \/ Launches(k, FALSE)
    \/ Watchdog \/ FastTick \/ Teardown

Page ==
    \/ \E h \in Hosts : ComesBack(h) \/ Served(h) \/ Breaks(h) \/ PollLands(h)
    \/ \E k \in Keys : \/ Registers(k) \/ Expires(k) \/ GraceEnds(k)
                       \/ LaunchAnswered(k) \/ FrameArrives(k)
    \/ \E r \in Runs : SettleEnds(r)
    \/ SlowTick \/ Rebuild \/ (\E c \in chains : ChainStep(c))
    \/ CatchPolled \/ CatchRefresh \/ CatchDone

Next == Outside \/ Page
Spec == Init /\ [][Next]_vars

-------------------------------------------------------------------------------
\* The mutex is held exactly while a run that owns the generation is alive, and a run the
\* watchdog retired never takes it from the next one (refreshTaskbar's finally).
MutexIsOwned ==
    /\ inFlight <=> cur # NoRun
    /\ cur # NoRun => run[cur] = "settle"

\* Across broker restarts the heartbeat closes no window of a session that lives: its
\* grace outlasts the agents' return (75's Removal comment).
GraceOutlivesRestart == [][\A k \in swept' \ swept : k \notin running]_vars

\* And it closes one only over MissClose answers of its own host that left it out: not
\* while that host is silent, not for another host's, not twice for one answer (`fresh`).
SweepsAreJustifiedStep ==
    \A k \in swept' \ swept : k \notin running /\ evidence[k] >= MissClose

\* A catch-up that was not cut short ends with what its poll listed merged into the chips.
CatchUpMergesStep ==
    (catch.pc = "after" /\ catch'.pc = "idle" /\ cur = cur' /\ ~off) =>
        catch.need \cap poll[catch.host].list \subseteq chips
================================================================================
