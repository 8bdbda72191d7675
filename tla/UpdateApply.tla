----------------------------- MODULE UpdateApply -----------------------------
(* Applying an update, and restarting, from the page: update.js (restart row, *)
(* apply rows, their confirmations) and makeApplyFlow in update-apply.js.     *)
(* The broker that is asked answers and then goes away; the page polls /info  *)
(* of whatever machine the host id names until the boot id is another one,    *)
(* the id names another machine, the mod is unloaded or the wait runs out.    *)
(* Meanwhile machines restart on their own, the operator edits the host list, *)
(* requests are lost and other hosts run applies of their own.                *)
EXTENDS Naturals, FiniteSets

CONSTANTS Host, Local, Machine,
          Home,        \* [Host -> Machine]: the host list at load
          None,
          MaxBoots,    \* bound on restarts of one machine
          MaxEdits,    \* bound on edits of the host list
          MaxOps       \* bound on applies and restarts asked for

Phase == {"waiting", "done", "failed", "timeout"}
OpRecord == [id : Nat, phase : Phase, mach : Machine \cup {None}, took : Nat]

ApplyAssumption ==
    /\ Local \in Host
    /\ Home \in [Host -> Machine]
    /\ None \notin Host \cup Machine /\ None \notin OpRecord

VARIABLES
    url,       \* [Host -> Machine or None]
    boot,      \* [Machine -> Nat]: the identity a machine answers with
    cached,    \* [Host -> boot id or None]: bootId in modCatalogCache
    applyOps,  \* [Host -> op or None]; an op is what a row shows, with, as
               \* ghosts, the machine asked and the boot id it accepted with
    restartOp, \* op or None
    runs,      \* performApply / performRestart calls that have not returned
    dialog,    \* the confirmation on screen, or None
    dead,      \* ctx.signal.aborted: the mod was switched off
    nextId, edits

vars == <<url, boot, cached, applyOps, restartOp, runs, dialog, dead, nextId,
          edits>>

\* One continuation: the op it reports into, the machine it asked (fp), where
\* it stands, and the boot id it compares with.
Run(kind, h, m) ==
    [kind |-> kind, host |-> h, id |-> nextId, fp |-> m, pc |-> "posting",
     named |-> IF dialog = None THEN m ELSE dialog.mach,
     before |-> None, asked |-> None, seen |-> None, took |-> 0]

Op(phase, m) == [id |-> nextId, phase |-> phase, mach |-> m, took |-> 0]

Replace(r, s) == (runs \ {r}) \cup {s}

(* ------------------------ where a run reports to ----------------------- *)

Settled(op, r, phase) == [op EXCEPT !.phase = phase, !.took = r.took]

\* settle(): only while the op is still the one its host's entry holds.
Settle(r, phase) ==
    IF r.kind = "apply"
    THEN /\ applyOps' = IF applyOps[r.host] = None \/ applyOps[r.host].id # r.id
                        THEN applyOps
                        ELSE [applyOps EXCEPT ![r.host] = Settled(@, r, phase)]
         /\ UNCHANGED restartOp
    ELSE /\ restartOp' = Settled(restartOp, r, phase)
         /\ UNCHANGED applyOps

Waiting(op) == op # None /\ op.phase = "waiting"

\* noteRefusal(): a live op is the truth and is not shadowed.
NoteRefusal(h) ==
    applyOps' = IF applyOps[h] # None /\ applyOps[h].phase = "waiting"
                THEN applyOps
                ELSE [applyOps EXCEPT ![h] = Op("failed", None)]

(* ------------------------------ the clicks ----------------------------- *)

\* The Update button of a row, and the Restart button of the serving broker:
\* dead while that row's own op is waiting.  A new dialog cancels a live one.
ClickApply(h) ==
    /\ ~dead /\ nextId < MaxOps /\ url[h] # None
    /\ ~Waiting(applyOps[h])
    /\ dialog' = [kind |-> "apply", host |-> h, mach |-> url[h]]
    /\ UNCHANGED <<url, boot, cached, applyOps, restartOp, runs, dead, nextId,
                   edits>>
ClickRestart ==
    /\ ~dead /\ nextId < MaxOps
    /\ ~Waiting(restartOp)
    /\ dialog' = [kind |-> "restart", host |-> Local, mach |-> url[Local]]
    /\ UNCHANGED <<url, boot, cached, applyOps, restartOp, runs, dead, nextId,
                   edits>>
Decline ==
    /\ dialog # None /\ dialog' = None
    /\ UNCHANGED <<url, boot, cached, applyOps, restartOp, runs, dead, nextId,
                   edits>>

StillNamed(d) == url[d.host] = d.mach

\* commitRemoteApply, then performApply: nothing is sent to a machine the
\* dialog did not name, nor while the host's op is live.
ConfirmApply ==
    LET h == dialog.host
    IN  /\ dialog # None /\ dialog.kind = "apply"
        /\ dialog' = None /\ nextId' = nextId + 1
        /\ IF ~StillNamed(dialog)
           THEN NoteRefusal(h) /\ UNCHANGED runs
           ELSE IF Waiting(applyOps[h]) THEN UNCHANGED <<applyOps, runs>>
           ELSE /\ applyOps' = [applyOps EXCEPT ![h] =
                                   Op("waiting", url[h])]
                /\ runs' = runs \cup {Run("apply", h, url[h])}
        /\ UNCHANGED <<url, boot, cached, restartOp, dead, edits>>
ConfirmRestart ==
    /\ dialog # None /\ dialog.kind = "restart"
    /\ dialog' = None /\ nextId' = nextId + 1
    /\ restartOp' = Op("waiting", url[Local])
    /\ runs' = runs \cup {Run("restart", Local, url[Local])}
    /\ UNCHANGED <<url, boot, cached, applyOps, dead, edits>>

(* ----------------------------- the request ----------------------------- *)

\* The machine takes the request: refuses it, or accepts and says who it is.
Accept(r) ==
    /\ r.pc = "posting" /\ ~dead
    /\ runs' = Replace(r, [r EXCEPT !.pc = "accepted", !.took = boot[r.fp]])
    /\ UNCHANGED <<url, boot, cached, applyOps, restartOp, dialog, dead,
                   nextId, edits>>

\* The 202 lands, and the wait for another boot id than the one it carried begins.
Accepted(r) ==
    /\ r.pc = "accepted"
    /\ runs' = Replace(r, [r EXCEPT !.pc = "sleeping",
                                    !.before = r.took])
    /\ Settle(r, "waiting")
    /\ UNCHANGED <<url, boot, cached, dialog, dead, nextId, edits>>

\* Refused, never landed, or accepted without a boot id to confirm it by.
NotConfirmable(r) ==
    /\ r.pc \in {"posting", "accepted"}
    /\ runs' = runs \ {r}
    /\ Settle(r, "failed")
    /\ UNCHANGED <<url, boot, cached, dialog, dead, nextId, edits>>

(* --------------------- pollBootId and what follows ---------------------- *)

NotPinned(r) == FALSE    \* Mutant
\* An apply is pinned to the machine it was sent to; a restart is not.
HostMoved(r) == r.kind = "apply" /\ url[r.host] # r.fp

\* Mutant: a row whose host left keeps waiting.
AskForgetting(r) ==
    LET gone == url[r.host] = None
    IN  /\ r.pc = "sleeping"
        /\ IF dead \/ gone \/ HostMoved(r)
           THEN runs' = runs \ {r}
           ELSE runs' = Replace(r, [r EXCEPT !.pc = "asking",
                                             !.asked = url[r.host]])
        /\ UNCHANGED <<applyOps, restartOp>>
        /\ UNCHANGED <<url, boot, cached, dialog, dead, nextId, edits>>

\* The sleep is over: ask again, unless nobody is left to ask or to tell.
Ask(r) ==
    LET gone == url[r.host] = None
    IN  /\ r.pc = "sleeping"
        /\ IF dead
           THEN runs' = runs \ {r} /\ UNCHANGED <<applyOps, restartOp>>
           ELSE IF gone \/ HostMoved(r)
           THEN runs' = runs \ {r} /\ Settle(r, "failed")
           ELSE /\ runs' = Replace(r, [r EXCEPT !.pc = "asking",
                                                !.asked = url[r.host]])
                /\ UNCHANGED <<applyOps, restartOp>>
        /\ UNCHANGED <<url, boot, cached, dialog, dead, nextId, edits>>

\* The machine that was asked answers, or is not there to (NoAnswer).
Answer(r) ==
    /\ r.pc = "asking"
    /\ runs' = Replace(r, [r EXCEPT !.pc = "answered",
                                    !.seen = boot[r.asked]])
    /\ UNCHANGED <<url, boot, cached, applyOps, restartOp, dialog, dead,
                   nextId, edits>>
NoAnswer(r) ==
    /\ r.pc \in {"asking", "answered"}
    /\ runs' = Replace(r, [r EXCEPT !.pc = "sleeping", !.seen = None])
    /\ UNCHANGED <<url, boot, cached, applyOps, restartOp, dialog, dead,
                   nextId, edits>>

\* The same boot id: sleep on.  Another: the restart is proven, the cached
\* record is dropped, and the host is checked again.
SameBoot(r) ==
    /\ r.pc = "answered" /\ r.seen = r.before
    /\ runs' = Replace(r, [r EXCEPT !.pc = "sleeping", !.seen = None])
    /\ UNCHANGED <<url, boot, cached, applyOps, restartOp, dialog, dead,
                   nextId, edits>>
NewBoot(r) ==
    /\ r.pc = "answered" /\ r.seen # r.before
    /\ IF dead
       THEN /\ runs' = runs \ {r}
            /\ UNCHANGED <<cached, applyOps, restartOp>>
       ELSE /\ Settle(r, "done")
            /\ cached' = [cached EXCEPT ![r.host] = None]
            /\ runs' = IF r.kind = "apply" /\ r.host # Local
                       THEN Replace(r, [r EXCEPT !.pc = "rechecking"])
                       ELSE runs \ {r}
    /\ UNCHANGED <<url, boot, dialog, dead, nextId, edits>>
Rechecked(r) ==
    /\ r.pc = "rechecking"
    /\ runs' = runs \ {r}
    /\ Settle(r, "done")
    /\ UNCHANGED <<url, boot, cached, dialog, dead, nextId, edits>>

\* The bounded wait ran out between two questions.
WaitRanOut(r) ==
    /\ r.pc = "sleeping"
    /\ runs' = runs \ {r}
    /\ IF dead THEN UNCHANGED <<applyOps, restartOp>>
       ELSE Settle(r, "timeout")
    /\ UNCHANGED <<url, boot, cached, dialog, dead, nextId, edits>>

(* ------------------------ the rest of the world ------------------------ *)

\* A machine comes back under a new boot id: it was asked to, it crashed, or
\* somebody restarted it by hand.
Reboot(m) ==
    /\ boot[m] < MaxBoots
    /\ boot' = [boot EXCEPT ![m] = @ + 1]
    /\ UNCHANGED <<url, cached, applyOps, restartOp, runs, dialog, dead,
                   nextId, edits>>
EditHosts(h, m) ==
    /\ h # Local /\ m # url[h] /\ edits < MaxEdits
    /\ url' = [url EXCEPT ![h] = m]
    /\ edits' = edits + 1
    /\ UNCHANGED <<boot, cached, applyOps, restartOp, runs, dialog, dead,
                   nextId>>
\* Some reader of /info refreshed the catalog (the update mod's poll, the
\* Control Panel).
CatalogRead(h) ==
    /\ url[h] # None
    /\ cached' = [cached EXCEPT ![h] = boot[url[h]]]
    /\ UNCHANGED <<url, boot, applyOps, restartOp, runs, dialog, dead, nextId,
                   edits>>
\* The mod is switched off: its windows and dialogs' answers lead nowhere.
Unload ==
    /\ ~dead /\ dead' = TRUE
    /\ UNCHANGED <<url, boot, cached, applyOps, restartOp, runs, dialog,
                   nextId, edits>>

Init ==
    /\ url = Home
    /\ boot = [m \in Machine |-> 1]
    /\ cached = [h \in Host |-> None]
    /\ applyOps = [h \in Host |-> None]
    /\ restartOp = None
    /\ runs = {}
    /\ dialog = None
    /\ dead = FALSE
    /\ nextId = 0 /\ edits = 0

Step(r) == \/ Accept(r) \/ Accepted(r) \/ NotConfirmable(r) \/ Ask(r)
           \/ Answer(r) \/ NoAnswer(r) \/ SameBoot(r) \/ NewBoot(r)
           \/ Rechecked(r) \/ WaitRanOut(r)

Next ==
    \/ \E h \in Host : ClickApply(h) \/ CatalogRead(h)
    \/ ClickRestart \/ Decline \/ ConfirmApply \/ ConfirmRestart \/ Unload
    \/ \E r \in runs : Step(r)
    \/ \E m \in Machine : Reboot(m)
    \/ \E h \in Host, m \in Machine \cup {None} : EditHosts(h, m)

\* Requests end (they carry deadlines) and the wait is bounded.
Progress(id) ==
    \E r \in runs : r.id = id /\ (\/ Accept(r) \/ Accepted(r) \/ Ask(r)
                                 \/ Answer(r) \/ SameBoot(r) \/ NewBoot(r)
                                 \/ Rechecked(r))
RunsOut(id) == \E r \in runs : r.id = id /\ WaitRanOut(r)
Spec == Init /\ [][Next]_vars
(* ----------------------------- properties ------------------------------ *)

\* Records have their shapes; a row that says "waiting" has a call behind it.
TypeOK ==
    /\ url \in [Host -> Machine \cup {None}]
    /\ \A h \in Host : applyOps[h] # None => applyOps[h].phase \in Phase
    /\ restartOp # None => restartOp.phase \in Phase
    /\ \A r \in runs : r.id < nextId /\ r.kind \in {"apply", "restart"}
    /\ \A op \in {applyOps[h] : h \in Host} \cup {restartOp} :
          (Waiting(op) /\ ~dead) => \E r \in runs : r.id = op.id

\* "Restarted" is shown on a row only when the machine the request was sent to
\* is under another boot id than the one it accepted with: never for the 202,
\* nor for what another machine answers under the same host id.
DoneProvesReboot ==
    /\ \A h \in Host : (applyOps[h] # None /\ applyOps[h].phase = "done") =>
           boot[applyOps[h].mach] > applyOps[h].took
    /\ (restartOp # None /\ restartOp.phase = "done") =>
           boot[restartOp.mach] > restartOp.took

==============================================================================
