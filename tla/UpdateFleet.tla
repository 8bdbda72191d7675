----------------------------- MODULE UpdateFleet -----------------------------
(* The update mod of the page (mods/update/update.js and update-policy.js):   *)
(* one page asks every configured broker what it can do (GET /info into the   *)
(* shared catalog cache), asks those that can for a version check, and throws *)
(* each broker's consent switches (POST /update/policy).  Every one of those  *)
(* is an await, so answers land in any order, after the host list was edited, *)
(* after a newer answer, or never.                                            *)
(*                                                                            *)
(* A host id names a machine only for a while: the operator may re-point or   *)
(* remove it.  Commits reach one machine in the order the page sent them,     *)
(* which is what update.js itself assumes; answers do not.                    *)
EXTENDS Naturals, FiniteSets

CONSTANTS Host,          \* host ids the page may have configured
          Local,         \* the id of the broker that served the page
          Machine,       \* brokers an id can point at
          Home,          \* [Host -> Machine]: the host list at load
          Build,         \* [Machine -> "full" | "midway" | "headless" | "old"]
          Realm,         \* machines that ask for the admin token
          None,          \* no record, no answer, no such host
          MaxWrites,     \* bound on switches this page throws
          MaxReads,      \* bound on ticks, re-checks and panel reads
          MaxEdits,      \* bound on edits of the host list
          MaxOutside     \* bound on changes made by anybody else

Key == {"check", "apply", "restart"}
Row == {"check", "self"}

FleetAssumption ==
    /\ Home \in [Host -> Machine]
    /\ Build \in [Machine -> {"full", "midway", "headless", "old"}]
    /\ Realm \subseteq Machine
    /\ None \notin Machine \cup Host
    /\ None \notin [sent : Nat, fp : Machine] \cup [mach : Machine, rev : Nat]

VARIABLES
    url,      \* [Host -> Machine or None]: prefs._hosts, what each id points at
    gate,     \* [Machine -> gates]: each broker's own policy
    cat,      \* [Host -> record or None]: modCatalogCache
    lw,       \* [Host -> view or None]: lastWrite
    lws,      \* [Host -> stamp or None]: lastWriteSent
    opSeq,    \* the page's operation counter
    chk,      \* [Host -> record]: hostChecks
    ops,      \* [Host -> [Row -> phase]]: policyOps
    calls,    \* requests in flight
    dialog,   \* the confirmation on screen, or None
    consent,  \* "due", "sent" or "none": offerConsent
    told,     \* ghost [Host -> [mach, rev]]: newest write answer seen since the
              \* id was last forgotten
    left      \* what remains of the four bounds

vars == <<url, gate, cat, lw, lws, opSeq, chk, ops, calls, dialog, consent,
          told, left>>

Fresh == [inFlight |-> FALSE, done |-> FALSE, error |-> None, got |-> None]
Phase == {"idle", "busy", "failed", "locked"}

\* One request: what it is for, the machine it went to, what came back.
Call(id, kind, h, m, why) ==
    [id |-> id, kind |-> kind, host |-> h, mach |-> m, why |-> why,
     pc |-> "out", ans |-> None, orphan |-> FALSE,
     changes |-> None, row |-> "check", before |-> None, named |-> m]

Spend(what) == left[what] > 0 /\ left' = [left EXCEPT ![what] = @ - 1]

(* -------------------- what a broker says of itself --------------------- *)

\* One broker's update view: which gates are on, which its file has locked.
View(m) == [mach |-> m, rev |-> gate[m].rev,
            on |-> gate[m].on, lock |-> gate[m].lock]

\* A host that says nothing of the update mod.
Silent(state) == [state |-> state, mod |-> FALSE, view |-> None]
Info(m) ==
    [state |-> IF Build[m] = "headless" THEN "headless" ELSE "ok",
     mod   |-> Build[m] \in {"full", "midway"},
     view  |-> IF Build[m] = "full" THEN View(m) ELSE None]

\* The cached record with this page's own last write laid over it, unless the
\* id points at another machine since.
EffectiveRecord(h, c, l) ==
    IF l[h] = None \/ l[h].fp # url[h] THEN c[h]
    ELSE [(IF c[h] = None THEN Silent("absent") ELSE c[h])
              EXCEPT !.view = l[h].view]

\* The grants a row reads now.
UpdateCap(h) == LET r == EffectiveRecord(h, cat, lw)
                IN  IF r = None THEN None ELSE r.view

CapabilityFrom(r) ==
    IF r = None THEN "unreachable"
    ELSE IF r.state \in {"ok", "headless"}
         THEN IF r.view # None
              THEN IF "check" \in r.view.on THEN "ready" ELSE "not-opted-in"
              ELSE IF r.mod THEN "ready"
              ELSE IF r.state = "headless" THEN "unproven" ELSE "route-absent"
         ELSE IF r.state = "unauthorized" THEN "unauthorized"
         ELSE "unreachable"

(* ------------------------------ the poll ------------------------------- *)

\* A check that came to its end.
Settled(error, m) ==
    [inFlight |-> FALSE, done |-> TRUE, error |-> error, got |-> m]
Failure(cap) ==
    IF cap = "unproven" THEN "unreachable-or-too-old" ELSE "unreachable"

\* Past the probe: the reason is the answer, or the version check goes out to
\* the machine the id names now.
Asked(h, cap, id, probed, st) ==
    IF cap \notin {"ready", "unproven"}
    THEN [chk |-> Settled(cap, None), calls |-> {}]
    ELSE IF url[h] = None
    THEN [chk |-> Settled(Failure(cap), None), calls |-> {}]
    ELSE [chk   |-> [st EXCEPT !.inFlight = TRUE],
          calls |-> {[Call(id, "check", h, url[h], cap)
                          EXCEPT !.named = probed]}]

Poll(h, refresh, c, l, id, st) ==
    IF url[h] = None
    THEN [chk |-> Settled("no-such-host", None), calls |-> {}]
    ELSE IF st.inFlight THEN [chk |-> st, calls |-> {}]
    ELSE IF refresh \/ c[h] = None
    THEN [chk   |-> [st EXCEPT !.inFlight = TRUE],
          calls |-> {Call(id, "read", h, url[h], "poll")}]
    ELSE Asked(h, CapabilityFrom(EffectiveRecord(h, c, l)), id, url[h], st)

\* The timer, the start of the mod, or "Check now" (refresh): forget hosts no
\* longer configured, then poll the rest at once.
PollTick(refresh) ==
    LET kept  == {h \in Host : url[h] # None}
        res   == [h \in kept |->
                     Poll(h, refresh, cat, lw, opSeq + 1, chk[h])]
        Known(f, none) == [h \in Host |-> IF h \in kept THEN f[h] ELSE none]
    IN  /\ Spend("reads")
        /\ opSeq' = opSeq + 1
        /\ chk' = [h \in Host |-> IF h \in kept THEN res[h].chk ELSE Fresh]
        /\ calls' = {[c EXCEPT !.orphan = @ \/ c.host \notin kept] :
                         c \in calls}
                      \cup UNION {res[h].calls : h \in kept}
        /\ ops' = Known(ops, [r \in Row |-> "idle"])
        /\ lw' = Known(lw, None)
        /\ lws' = Known(lws, None)
        /\ told' = Known(told, None)
        /\ UNCHANGED <<url, gate, cat, dialog, consent>>

\* The Control Panel reads a broker's /info into the same cache.
PanelRead(h) ==
    /\ url[h] # None /\ Spend("reads")
    /\ \A c \in calls : ~(c.host = h /\ c.why = "panel")
    /\ opSeq' = opSeq + 1
    /\ calls' = calls \cup {Call(opSeq + 1, "read", h, url[h], "panel")}
    /\ UNCHANGED <<url, gate, cat, lw, lws, chk, ops, dialog, consent, told>>

(* --------------------------- the switches ------------------------------ *)

\* setPolicy: the request leaves for the machine the id names now, and keeps the
\* view of that moment to compare the answer with.
SendWrite(others, h, row, changes, why, named, before) ==
    /\ Spend("writes")
    /\ opSeq' = opSeq + 1
    /\ calls' = others \cup {[Call(opSeq + 1, "write", h, url[h], why) EXCEPT
                    !.changes = changes, !.row = row,
                    !.before = before, !.named = named]}
    /\ ops' = [ops EXCEPT ![h] = [@ EXCEPT ![row] = "busy"]]

SelfKeys == {"apply", "restart"}
\* selfUpdateRowModel: on only when both gates are; what a click would post.
SelfRow(v) ==
    LET on == SelfKeys \subseteq v.on
    IN  [on   |-> on,
         keys |-> IF on THEN SelfKeys \ v.lock
                  ELSE IF (SelfKeys \ v.on) \cap v.lock # {} THEN {}
                  ELSE SelfKeys \ v.on]
CheckRow(v) ==
    [on |-> "check" \in v.on, keys |-> {"check"} \ v.lock]
RowModel(row, v) == IF row = "check" THEN CheckRow(v) ELSE SelfRow(v)

\* A click on a host's switch.  Opening a gate of another machine is confirmed
\* first; closing one, or anything local, is not.
Click(h, row) ==
    LET v == UpdateCap(h)
        m == RowModel(row, v)
    IN  /\ dialog = None /\ v # None /\ url[h] # None
        /\ ops[h][row] # "busy"
        /\ m.keys # {}
        /\ IF h # Local /\ ~m.on
           THEN /\ dialog' = [host |-> h, row |-> row, mach |-> url[h],
                               keys |-> m.keys]
                /\ UNCHANGED <<opSeq, calls, ops, left>>
           ELSE /\ SendWrite(calls, h, row, [keys |-> m.keys, want |-> ~m.on],
                             "click", url[h], v)
                /\ UNCHANGED dialog
        /\ UNCHANGED <<url, gate, cat, lw, lws, chk, consent, told>>

Declined ==
    /\ dialog # None
    /\ dialog' = None
    /\ UNCHANGED <<url, gate, cat, lw, lws, opSeq, chk, ops, calls, consent,
                   told, left>>

\* The machine the dialog named is still the one in that row.
StillNamed(d) == url[d.host] = d.mach

\* What a confirmed grant posts, from the facts of now; and from the paint.
PaintedKeys(d, m) == d.keys
KeysNow(d, m) == IF m.on THEN {} ELSE m.keys

\* The confirmed switch: checking posts its one key; self-update rebuilds the
\* grant from the facts of now and never turns into a Stop.
Confirmed ==
    LET d == dialog
        h == d.host
        m == RowModel("self", UpdateCap(h))
        Nothing == UNCHANGED <<opSeq, calls, ops, left>>
    IN  /\ dialog # None
        /\ dialog' = None
        /\ IF ~StillNamed(d)
           THEN /\ ops' = IF d.row = "self"
                          THEN [ops EXCEPT ![h] = [@ EXCEPT !["self"] = "failed"]] ELSE ops
                /\ UNCHANGED <<opSeq, calls, left>>
           ELSE IF d.row = "check"
           THEN SendWrite(calls, h, "check", [keys |-> {"check"}, want |-> TRUE],
                          "click", d.mach, UpdateCap(h))
           ELSE IF UpdateCap(h) = None \/ ops[h].self = "busy" THEN Nothing
           ELSE IF KeysNow(d, m) = {} THEN Nothing
           ELSE SendWrite(calls, h, "self", [keys |-> KeysNow(d, m), want |-> TRUE],
                          "click", d.mach, UpdateCap(h))
        /\ UNCHANGED <<url, gate, cat, lw, lws, chk, consent, told>>

\* The user just enabled the mod: every gate of the serving broker that is
\* ours to open is opened in one request, once per page load.
Grants(v) == Key \ (v.on \cup v.lock)
GrantOrNot(others, v) ==
    IF v = None \/ (v # None /\ Grants(v) = {})
    THEN /\ calls' = others
         /\ UNCHANGED <<opSeq, ops, left>>
    ELSE SendWrite(others, Local, "check", [keys |-> Grants(v), want |-> TRUE],
                   "consent", url[Local], v)
OfferConsent ==
    /\ consent = "due"
    /\ consent' = "sent"
    /\ IF cat[Local] = None
       THEN /\ opSeq' = opSeq + 1
            /\ calls' = calls \cup
                 {Call(opSeq + 1, "read", Local, url[Local], "consent")}
            /\ UNCHANGED <<ops, left>>
       ELSE GrantOrNot(calls, UpdateCap(Local))
    /\ UNCHANGED <<url, gate, cat, lw, lws, chk, dialog, told>>

(* ------------------------ brokers and the network ---------------------- *)

\* Commits reach a machine in the order they were sent.
FirstWrite(c) ==
    \A d \in calls : (d.kind = "write" /\ d.mach = c.mach /\ d.pc = "out")
                         => d.id >= c.id
Back(c, ans) == (calls \ {c}) \cup {[c EXCEPT !.pc = "back", !.ans = ans]}

ServeInfo(c) ==
    /\ c.kind = "read" /\ c.pc = "out"
    /\ calls' = Back(c, Info(c.mach))
    /\ UNCHANGED gate
ServeCheck(c) ==
    /\ c.kind = "check" /\ c.pc = "out" /\ Build[c.mach] # "old"
    /\ calls' = Back(c, IF "check" \in gate[c.mach].on THEN "ok" ELSE "closed")
    /\ UNCHANGED gate
ServeWrite(c) ==
    LET m == c.mach
        locked == c.changes.keys \cap gate[m].lock # {}
        on == IF c.changes.want THEN gate[m].on \cup c.changes.keys
              ELSE gate[m].on \ c.changes.keys
        after == IF locked THEN gate[m]
                 ELSE [gate[m] EXCEPT !.on = on, !.rev = @ + 1]
    IN  /\ c.kind = "write" /\ c.pc = "out" /\ FirstWrite(c)
        /\ gate' = [gate EXCEPT ![m] = after]
        /\ calls' = Back(c, [ok |-> ~locked,
                 view |-> [mach |-> m, rev |-> after.rev, on |-> after.on,
                           lock |-> after.lock]])
Serve(c) ==
    /\ ServeInfo(c) \/ ServeCheck(c) \/ ServeWrite(c)
    /\ UNCHANGED <<url, cat, lw, lws, opSeq, chk, ops, dialog, consent, told,
                   left>>

\* Lost on the way there or back, or refused for its password.
Lose(c, how) ==
    /\ \/ c.pc = "out"
       \/ c.kind = "write" /\ c.pc = "back" /\ how = "fail"
    /\ calls' = (calls \ {c}) \cup {[c EXCEPT !.pc = how, !.ans = None]}
    /\ UNCHANGED <<url, gate, cat, lw, lws, opSeq, chk, ops, dialog, consent,
                   told, left>>

(* ---------------------------- answers land ----------------------------- *)

\* An answer of a later operation than the last one landed.
Supersedes(c, l) == c.id > l.seq
Spoke(rec) == rec.state \in {"ok", "headless"}

\* capabilityFor, or the panel's own read: the cache takes the answer; a read
\* that was answered and began after the standing write retires it.
LandRead(c) ==
    LET h   == c.host
        rec == CASE c.pc = "fail" -> Silent("unreachable")
                 [] c.pc = "refused" -> Silent("unauthorized")
                 [] OTHER -> c.ans
        cat1 == [cat EXCEPT ![h] = rec]
        l1  == IF c.why # "panel" /\ Spoke(rec) /\ lw[h] # None
                    /\ Supersedes(c, lw[h])
               THEN [lw EXCEPT ![h] = None] ELSE lw
        now == EffectiveRecord(h, cat1, l1)
        rest == calls \ {c}
        Continue(r) ==
            /\ calls' = rest \cup {[d EXCEPT !.orphan = c.orphan] :
                                       d \in r.calls}
            /\ chk' = IF c.orphan THEN chk ELSE [chk EXCEPT ![h] = r.chk]
            /\ UNCHANGED <<opSeq, ops, left>>
    IN  /\ c.kind = "read" /\ c.pc # "out"
        /\ cat' = cat1 /\ lw' = l1
        /\ \/ /\ c.why = "poll"
              /\ Continue(Asked(h, CapabilityFrom(now), c.id, c.mach, chk[h]))
           \/ /\ c.why = "reread"
              /\ Continue(Poll(h, FALSE, cat1, l1, c.id, chk[h]))
           \/ /\ c.why = "panel"
              /\ calls' = rest
              /\ UNCHANGED <<opSeq, chk, ops, left>>
           \/ /\ c.why = "consent"
              /\ GrantOrNot(rest, IF now = None THEN None ELSE now.view)
              /\ UNCHANGED chk
        /\ UNCHANGED <<url, gate, lws, dialog, consent, told>>

LandCheck(c) ==
    LET h == c.host
        r == CASE c.pc = "fail" -> Settled(Failure(c.why), None)
               [] c.pc = "refused" -> Settled("unauthorized", None)
               [] c.ans = "closed" -> Settled("not-opted-in", None)
               [] OTHER -> Settled(None, c.mach)
    IN  /\ c.kind = "check" /\ c.pc # "out"
        /\ calls' = calls \ {c}
        /\ chk' = IF c.orphan THEN chk ELSE [chk EXCEPT ![h] = r]
        /\ UNCHANGED <<url, gate, cat, lw, lws, opSeq, ops, dialog, consent,
                       told, left>>

NeverOutdated(c) == FALSE
\* Has a later-sent write's view been installed for this host and machine?
Outdated(c) ==
    /\ lws[c.host] # None /\ lws[c.host].fp = c.mach
    /\ c.id < lws[c.host].sent

\* restartGateMoved: the write named the restart gate and it is not where the
\* row that was clicked showed it.
RestartGateMoved(c) ==
    /\ "restart" \in c.changes.keys
    /\ \/ c.before = None
       \/ c.before # None
            /\ ("restart" \in c.before.on) # ("restart" \in c.ans.view.on)

Row2Phase(c, phase) ==
    ops' = [ops EXCEPT ![c.host] = [@ EXCEPT ![c.row] = phase]]

\* The write never landed, or its answer cannot be read; the gate may have
\* moved all the same.
LandFailedWrite(c) ==
    /\ c.kind = "write" /\ c.pc \in {"fail", "refused"}
    /\ calls' = calls \ {c}
    /\ Row2Phase(c, IF c.pc = "refused" /\ url[c.host] # c.mach
                    THEN "idle" ELSE "failed")
    /\ UNCHANGED <<url, gate, cat, lw, lws, opSeq, chk, dialog, consent, told,
                   left>>

\* The operator declines the admin token: nothing is sent.
CancelWrite(c) ==
    /\ c.kind = "write" /\ c.pc = "out" /\ c.mach \in Realm
    /\ calls' = calls \ {c}
    /\ Row2Phase(c, "idle")
    /\ UNCHANGED <<url, gate, cat, lw, lws, opSeq, chk, dialog, consent, told,
                   left>>

\* The id names another machine by now: the answer is nobody's.
LandMovedWrite(c) ==
    /\ c.kind = "write" /\ c.pc = "back"
    /\ url[c.host] # c.mach
    /\ calls' = calls \ {c}
    /\ Row2Phase(c, "idle")
    /\ UNCHANGED <<url, gate, cat, lw, lws, opSeq, chk, dialog, consent, told,
                   left>>

LandWrite(c) ==
    LET h  == c.host
        l1 == IF Outdated(c) THEN lw
              ELSE [lw EXCEPT ![h] = [view |-> c.ans.view, seq |-> opSeq + 1,
                                      fp |-> c.mach]]
        newer == \/ told[h] = None
                 \/ told[h] # None /\ (\/ told[h].mach # c.mach
                                       \/ told[h].rev < c.ans.view.rev)
        r  == IF ~c.ans.ok THEN [chk |-> chk[h], calls |-> {}]
              ELSE IF RestartGateMoved(c)
              THEN [chk |-> chk[h],
                    calls |-> {Call(opSeq + 2, "read", h, url[h], "reread")}]
              ELSE IF c.why = "consent" THEN [chk |-> chk[h], calls |-> {}]
              ELSE Poll(h, FALSE, cat, l1, opSeq + 2, chk[h])
    IN  /\ c.kind = "write" /\ c.pc = "back"
        /\ url[h] = c.mach
        /\ lw' = l1
        /\ lws' = IF Outdated(c) THEN lws
                  ELSE [lws EXCEPT ![h] = [sent |-> c.id, fp |-> c.mach]]
        /\ opSeq' = opSeq + 2
        /\ Row2Phase(c, IF c.ans.ok THEN "idle" ELSE "locked")
        /\ calls' = (calls \ {c}) \cup r.calls
        /\ chk' = [chk EXCEPT ![h] = r.chk]
        /\ told' = IF newer THEN [told EXCEPT ![h] =
                           [mach |-> c.mach, rev |-> c.ans.view.rev]]
                   ELSE told
        /\ UNCHANGED <<url, gate, cat, dialog, consent, left>>

Land(c) == \/ LandRead(c) \/ LandCheck(c) \/ LandFailedWrite(c)
           \/ LandMovedWrite(c) \/ LandWrite(c)

(* ------------------------ the rest of the world ------------------------ *)

\* The operator edits the host list in Settings: any id but the serving one's.
EditHosts(h, m) ==
    /\ h # Local /\ m # url[h] /\ Spend("edits")
    /\ url' = [url EXCEPT ![h] = m]
    /\ UNCHANGED <<gate, cat, lw, lws, opSeq, chk, ops, calls, dialog, consent,
                   told>>

\* Somebody else throws a switch of that broker, or its config file names it.
Elsewhere(m, k) ==
    /\ Spend("outside")
    /\ \E after \in {[gate[m] EXCEPT !.on = IF k \in @ THEN @ \ {k}
                                           ELSE @ \cup {k}],
                     [gate[m] EXCEPT !.lock = @ \cup {k}]} :
          gate' = [gate EXCEPT ![m] = [after EXCEPT !.rev = @ + 1]]
    /\ UNCHANGED <<url, cat, lw, lws, opSeq, chk, ops, calls, dialog, consent,
                   told>>

Init ==
    /\ url = Home
    /\ gate \in [Machine -> {[rev |-> 0, on |-> on, lock |-> {}] :
                                 on \in {{}, Key}}]
    /\ cat \in {[h \in Host |-> None], [h \in Host |-> Info(Home[h])]}
    /\ lw = [h \in Host |-> None]
    /\ lws = [h \in Host |-> None]
    /\ opSeq = 0
    /\ chk = [h \in Host |-> Fresh]
    /\ ops = [h \in Host |-> [r \in Row |-> "idle"]]
    /\ calls = {}
    /\ dialog = None
    /\ consent \in IF Local \in Host THEN {"due", "none"} ELSE {"none"}
    /\ told = [h \in Host |-> None]
    /\ left = [writes |-> MaxWrites, reads |-> MaxReads,
               edits |-> MaxEdits, outside |-> MaxOutside]

Next ==
    \/ \E refresh \in BOOLEAN : PollTick(refresh)
    \/ \E h \in Host : PanelRead(h)
    \/ \E h \in Host, row \in Row : Click(h, row)
    \/ Declined
    \/ Confirmed
    \/ OfferConsent
    \/ \E c \in calls : Serve(c) \/ Land(c) \/ CancelWrite(c)
    \/ \E c \in calls, how \in {"fail", "refused"} : Lose(c, how)
    \/ \E h \in Host, m \in Machine \cup {None} : EditHosts(h, m)
    \/ \E m \in Machine, k \in Key : Elsewhere(m, k)

Spec == Init /\ [][Next]_vars
(* ----------------------------- properties ------------------------------ *)

\* The page's records have the shapes the code gives them, and no request is
\* out for a machine that is not one.
TypeOK ==
    /\ url \in [Host -> Machine \cup {None}]
    /\ \A m \in Machine : gate[m].on \subseteq Key /\ gate[m].lock \subseteq Key
    /\ \A h \in Host : ops[h] \in [Row -> Phase]
    /\ \A c \in calls : /\ c.mach \in Machine /\ c.pc \in {"out", "back", "fail", "refused"}
                        /\ c.kind \in {"read", "check", "write"}
                        /\ c.id <= opSeq
    /\ \A h \in Host : chk[h].inFlight =>
          \E c \in calls : /\ c.host = h /\ ~c.orphan
                           /\ \/ c.kind = "check"
                              \/ c.kind = "read" /\ c.why = "poll"

\* The view a standing write lays over the cache is at least as new as every
\* answer to a write this page has heard from that machine since it last forgot
\* the id: an older write whose answer comes last (setPolicy's lastWriteSent)
\* does not repaint the rows.
StandingWriteIsNewest ==
    \A h \in Host :
        (lw[h] # None /\ told[h] # None) =>
            (told[h].mach = lw[h].fp => lw[h].view.rev >= told[h].rev)

\* A grant never asks for a gate that, on the facts it was sent from, is open
\* already or is its file's to decide: what the row or the dialog showed when
\* it was painted is not replayed.  And a write goes to the machine the row or
\* the dialog named, wherever its id was pointed while the dialog was open.
GrantsAreCurrent ==
    \A c \in calls : c.kind = "write" =>
        /\ c.named = c.mach
        /\ (c.changes # None /\ c.before # None
            /\ c.changes.want /\ (c.row = "self" \/ c.why = "consent"))
              => c.changes.keys \cap (c.before.on \cup c.before.lock) = {}

==============================================================================
