-------------------------- MODULE UpdateApplyProofs --------------------------
(* What a row of the update list may claim, for any number of hosts, machines *)
(* and restarts: "Restarted" is shown only of the machine the request went to *)
(* and only once that machine is under another boot id than it accepted with; *)
(* and a row that is still waiting has a call behind it that will end.        *)
EXTENDS UpdateApply, TLAPS

Pc == {"posting", "accepted", "sleeping", "asking", "answered", "rechecking"}
Kind == {"apply", "restart"}
RunRecord == [kind : Kind, host : Host, id : Nat, fp : Machine, pc : Pc,
              named : Machine, before : Nat \cup {None},
              asked : Machine \cup {None}, seen : Nat \cup {None}, took : Nat]
DialogRecord == [kind : Kind, host : Host, mach : Machine]

(* ------------------------ the inductive invariant ----------------------- *)

\* The serving broker's own id is never re-pointed.
ApplyTypes ==
    /\ url \in [Host -> Machine \cup {None}] /\ url[Local] = Home[Local]
    /\ boot \in [Machine -> Nat]
    /\ applyOps \in [Host -> OpRecord \cup {None}]
    /\ restartOp \in OpRecord \cup {None}
    /\ runs \subseteq RunRecord
    /\ dialog \in DialogRecord \cup {None}
    /\ dead \in BOOLEAN /\ nextId \in Nat

\* A call only ever asks the machine it was sent to, compares with the boot id
\* that machine accepted with, and rechecks only what has restarted.
GoodRun(r, b) ==
    /\ r.kind = "restart" => r.host = Local /\ r.fp = Home[Local]
    /\ r.took <= b[r.fp]
    /\ r.pc \notin {"posting", "accepted"} => r.before = r.took
    /\ r.pc \in {"asking", "answered"} => r.asked = r.fp
    /\ r.pc = "answered" =>
          r.seen \in Nat /\ r.took <= r.seen /\ r.seen <= b[r.fp]
    /\ r.pc = "rechecking" => r.kind = "apply" /\ r.took < b[r.fp]
RunsKnown == \A r \in runs : r.id < nextId /\ GoodRun(r, boot)

GoodOp(op, b) == op # None /\ op.phase = "done" =>
                     op.mach \in Machine /\ op.took < b[op.mach]
OpsKnown ==
    /\ \A h \in Host : applyOps[h] # None =>
           applyOps[h].id < nextId /\ GoodOp(applyOps[h], boot)
    /\ restartOp # None =>
           restartOp.mach = Home[Local] /\ GoodOp(restartOp, boot)

\* A call reports into the op it was started for, and into no later one: the
\* restart row is held by its one call until that call is done.
Reports(r) ==
    /\ (r.kind = "apply" /\ applyOps[r.host] # None
           /\ applyOps[r.host].id = r.id) => applyOps[r.host].mach = r.fp
    /\ r.kind = "restart" => Waiting(restartOp) /\ restartOp.id = r.id
RunsReport ==
    /\ \A r \in runs : Reports(r)
    /\ \A r, s \in runs : r.kind = "restart" /\ s.kind = "restart" => r = s
    /\ dialog # None /\ dialog.kind = "restart" => ~Waiting(restartOp)

\* While the mod is loaded, a row that waits has its call.
Serves(r, h) == r.kind = "apply" /\ r.host = h /\ r.id = applyOps[h].id
WaitsHaveRuns == ~dead =>
    /\ \A h \in Host : Waiting(applyOps[h]) => \E r \in runs : Serves(r, h)
    /\ Waiting(restartOp) => \E r \in runs : r.kind = "restart"

ApplyInv == ApplyTypes /\ RunsKnown /\ OpsKnown /\ RunsReport /\ WaitsHaveRuns

(* ------------------------------- records -------------------------------- *)

LEMMA OpFields ==
    ASSUME ApplyAssumption, NEW op \in OpRecord
    PROVE  op # None /\ op.id \in Nat /\ op.phase \in Phase
           /\ op.mach \in Machine \cup {None} /\ op.took \in Nat
BY DEF ApplyAssumption, OpRecord

LEMMA RunFields ==
    ASSUME NEW r \in RunRecord
    PROVE  /\ r.kind \in Kind /\ r.host \in Host /\ r.id \in Nat
           /\ r.fp \in Machine /\ r.pc \in Pc /\ r.named \in Machine
           /\ r.before \in Nat \cup {None} /\ r.took \in Nat
           /\ r.asked \in Machine \cup {None} /\ r.seen \in Nat \cup {None}
BY DEF RunRecord

\* An op settled by a call keeps its id and its machine.
LEMMA OpSettles ==
    ASSUME NEW op \in OpRecord, NEW ph \in Phase, NEW r, r.took \in Nat
    PROVE  /\ Settled(op, r, ph) \in OpRecord
           /\ Settled(op, r, ph).id = op.id /\ Settled(op, r, ph).mach = op.mach
           /\ Settled(op, r, ph).phase = ph /\ Settled(op, r, ph).took = r.took
BY DEF OpRecord, Settled

\* What Settle does to the row of an apply, and to every other row.
LEMMA SettleApply ==
    ASSUME ApplyAssumption, ApplyTypes, NEW r \in RunRecord, NEW ph \in Phase,
           r.kind = "apply", Settle(r, ph)
    PROVE  /\ applyOps' \in [Host -> OpRecord \cup {None}]
           /\ restartOp' = restartOp
           /\ \A h \in Host :
                 \/ applyOps'[h] = applyOps[h]
                    /\ ~(h = r.host /\ applyOps[h] # None
                            /\ applyOps[h].id = r.id)
                 \/ /\ h = r.host /\ applyOps[h] # None /\ applyOps'[h] # None
                    /\ applyOps[h].id = r.id /\ applyOps'[h].id = r.id
                    /\ applyOps'[h].mach = applyOps[h].mach
                    /\ applyOps'[h].phase = ph /\ applyOps'[h].took = r.took
<1> DEFINE k == r.host
           new == Settled(applyOps[k], r, ph)
<1>1. k \in Host /\ r.took \in Nat
  BY RunFields
<1>2. applyOps \in [Host -> OpRecord \cup {None}] /\ restartOp' = restartOp
  BY DEF ApplyTypes, Settle
<1>3. CASE applyOps[k] = None \/ applyOps[k].id # r.id
  <2>1. applyOps' = applyOps
    BY <1>3 DEF Settle
  <2> QED
    BY <2>1, <1>1, <1>2, <1>3
<1>4. CASE applyOps[k] # None /\ applyOps[k].id = r.id
  <2>1. applyOps[k] \in OpRecord
    BY <1>1, <1>2, <1>4
  <2>2. applyOps' = [applyOps EXCEPT ![k] = new]
    BY <1>4, <1>2, <1>1, <2>1 DEF Settle
  <2>3. /\ new \in OpRecord /\ new.id = applyOps[k].id
        /\ new.mach = applyOps[k].mach /\ new.phase = ph /\ new.took = r.took
    BY <2>1, <1>1, OpSettles
  <2>4. new # None
    BY <2>3, OpFields
  <2> HIDE DEF new
  <2>5. applyOps'[k] = new /\ \A h \in Host : h # k => applyOps'[h] = applyOps[h]
    BY <2>2, <1>1, <1>2
  <2>6. applyOps' \in [Host -> OpRecord \cup {None}]
    BY <2>2, <1>2, <2>3
  <2> QED
    BY <2>3, <2>4, <2>5, <2>6, <1>2, <1>4
<1> QED
  BY <1>3, <1>4

\* What Settle does to the restart row.
LEMMA SettleRestart ==
    ASSUME ApplyAssumption, ApplyTypes, NEW r \in RunRecord, NEW ph \in Phase,
           r.kind = "restart", restartOp \in OpRecord, Settle(r, ph)
    PROVE  /\ applyOps' = applyOps
           /\ restartOp' \in OpRecord /\ restartOp'.id = restartOp.id
           /\ restartOp'.mach = restartOp.mach
           /\ restartOp'.phase = ph /\ restartOp'.took = r.took
<1>1. applyOps' = applyOps
      /\ restartOp' = Settled(restartOp, r, ph)
  BY DEF Settle
<1>2. r.took \in Nat
  BY RunFields
<1> QED
  BY <1>1, <1>2, OpSettles

(* --------------------- the two ways a call moves on --------------------- *)

\* What a call becomes: the same call, further on.
Further(s, r) ==
    /\ s \in RunRecord /\ s.kind = r.kind /\ s.host = r.host
    /\ s.id = r.id /\ s.fp = r.fp /\ GoodRun(s, boot)

\* Nothing is reported: the call goes on, or it ends because the mod is gone.
LEMMA SwapStep ==
    ASSUME ApplyInv, NEW r \in runs, NEW S,
           \A s \in S : Further(s, r), \A s, t \in S : s = t,
           S = {} => dead,
           runs' = (runs \ {r}) \cup S,
           UNCHANGED <<url, boot, applyOps, restartOp, dialog, dead, nextId>>
    PROVE  ApplyInv'
<1>1. ApplyTypes'
  BY DEF ApplyInv, ApplyTypes, Further
<1>2. RunsKnown'
  BY DEF ApplyInv, RunsKnown, Further
<1>3. OpsKnown'
  BY DEF ApplyInv, OpsKnown
<1>4. RunsReport'
  <2>1. \A s \in runs' : Reports(s)'
    BY DEF ApplyInv, RunsReport, Reports, Waiting, Further
  <2>2. \A s, t \in runs' : s.kind = "restart" /\ t.kind = "restart" => s = t
    BY DEF ApplyInv, RunsReport, Further
  <2> QED
    BY <2>1, <2>2 DEF ApplyInv, RunsReport, Waiting
<1>5. WaitsHaveRuns'
  <2> SUFFICES ASSUME ~dead PROVE WaitsHaveRuns'
    BY DEF WaitsHaveRuns
  <2>1. PICK s \in S : TRUE
    OBVIOUS
  <2>2. Further(s, r) /\ s \in runs'
    BY <2>1
  <2>3. ASSUME NEW h \in Host, Waiting(applyOps[h])
        PROVE  \E t \in runs' : Serves(t, h)'
    <3>1. PICK t \in runs : Serves(t, h)
      BY <2>3 DEF ApplyInv, WaitsHaveRuns
    <3>2. CASE t = r
      <4>1. Serves(s, h)'
        BY <3>1, <3>2, <2>2 DEF Serves, Further
      <4> QED
        BY <4>1, <2>2
    <3>3. CASE t # r
      <4>1. t \in runs' /\ Serves(t, h)'
        BY <3>1, <3>3 DEF Serves
      <4> QED
        BY <4>1
    <3> QED
      BY <3>2, <3>3
  <2>4. ASSUME Waiting(restartOp) PROVE \E t \in runs' : t.kind = "restart"
    <3>1. PICK t \in runs : t.kind = "restart"
      BY <2>4 DEF ApplyInv, WaitsHaveRuns
    <3>2. t # r => t \in runs'
      OBVIOUS
    <3>3. t = r => s.kind = "restart"
      BY <3>1, <2>2 DEF Further
    <3> QED
      BY <3>1, <3>2, <3>3, <2>2
  <2> QED
    BY <2>3, <2>4 DEF WaitsHaveRuns, Waiting
<1> QED
  BY <1>1, <1>2, <1>3, <1>4, <1>5 DEF ApplyInv

\* The call reports: its own op takes the phase, and every other op stands.
LEMMA SettleStep ==
    ASSUME ApplyAssumption, ApplyInv, NEW r \in runs, NEW S, NEW ph \in Phase,
           \A s \in S : Further(s, r), \A s, t \in S : s = t,
           runs' = (runs \ {r}) \cup S, Settle(r, ph),
           ph = "done" => r.took < boot[r.fp],
           ph = "waiting" => S # {},
           (r.kind = "restart" /\ ph # "waiting") => S = {},
           UNCHANGED <<url, boot, dialog, dead, nextId>>
    PROVE  ApplyInv'
<1>1. /\ ApplyTypes /\ RunsKnown /\ OpsKnown /\ RunsReport /\ WaitsHaveRuns
      /\ r \in RunRecord /\ r.kind \in Kind /\ r.host \in Host /\ r.fp \in Machine
  BY RunFields DEF ApplyInv, ApplyTypes
<1>2. RunsKnown' /\ runs' \subseteq RunRecord
  BY <1>1 DEF RunsKnown, Further, ApplyTypes
<1>3. \A s, t \in runs' : s.kind = "restart" /\ t.kind = "restart" => s = t
  BY <1>1 DEF RunsReport, Further
<1>4. r.id < nextId /\ r.id \in Nat
  BY <1>1, RunFields DEF RunsKnown
<1>5. CASE r.kind = "apply"
  <2>1. /\ applyOps' \in [Host -> OpRecord \cup {None}]
        /\ restartOp' = restartOp
        /\ \A h \in Host :
              \/ applyOps'[h] = applyOps[h]
                 /\ ~(h = r.host /\ applyOps[h] # None
                         /\ applyOps[h].id = r.id)
              \/ /\ h = r.host /\ applyOps[h] # None /\ applyOps'[h] # None
                 /\ applyOps[h].id = r.id /\ applyOps'[h].id = r.id
                 /\ applyOps'[h].mach = applyOps[h].mach
                 /\ applyOps'[h].phase = ph /\ applyOps'[h].took = r.took
    BY <1>1, <1>5, SettleApply
  <2>2. ApplyTypes'
    BY <1>1, <1>2, <2>1 DEF ApplyTypes
  <2>3. applyOps[r.host] # None /\ applyOps[r.host].id = r.id =>
            applyOps[r.host].mach = r.fp
    BY <1>1, <1>5 DEF RunsReport, Reports
  <2>4. OpsKnown'
    <3>1. ASSUME NEW h \in Host, applyOps'[h] # None
          PROVE  applyOps'[h].id < nextId /\ GoodOp(applyOps'[h], boot)
      <4>1. CASE applyOps'[h] = applyOps[h]
        BY <1>1, <3>1, <4>1 DEF OpsKnown
      <4>2. CASE applyOps'[h] # applyOps[h]
        <5>1. /\ h = r.host /\ applyOps'[h].id = r.id
              /\ applyOps'[h].mach = r.fp
              /\ applyOps'[h].phase = ph /\ applyOps'[h].took = r.took
          BY <4>2, <2>1, <2>3
        <5> QED
          BY <5>1, <1>1, <1>4 DEF GoodOp
      <4> QED
        BY <4>1, <4>2
    <3> QED
      BY <3>1, <2>1, <1>1 DEF OpsKnown
  <2>5. RunsReport'
    <3>1. ASSUME NEW s \in runs, s.kind = "apply", applyOps'[s.host] # None,
                 applyOps'[s.host].id = s.id
          PROVE  applyOps'[s.host].mach = s.fp
      <4>1. s.host \in Host
        BY <1>1, RunFields DEF ApplyTypes
      <4>2. applyOps[s.host] # None /\ applyOps[s.host].id = s.id
            /\ applyOps'[s.host].mach = applyOps[s.host].mach
        BY <2>1, <3>1, <4>1
      <4> QED
        BY <4>2, <3>1, <1>1 DEF RunsReport, Reports
    <3>2. \A s \in runs : Reports(s)'
      BY <3>1, <2>1, <1>1 DEF RunsReport, Reports, Waiting
    <3>3. \A s \in S : Reports(s)'
      <4>1. Reports(r)'
        BY <3>2
      <4> QED
        BY <4>1, <1>5 DEF Reports, Further
    <3> QED
      BY <3>2, <3>3, <1>3, <2>1, <1>1 DEF RunsReport, Waiting
  <2>6. WaitsHaveRuns'
    <3> SUFFICES ASSUME ~dead PROVE WaitsHaveRuns'
      BY DEF WaitsHaveRuns
    <3>1. ASSUME NEW h \in Host, Waiting(applyOps[h])'
          PROVE  \E t \in runs' : Serves(t, h)'
      <4>1. CASE applyOps'[h] = applyOps[h]
                 /\ ~(h = r.host /\ applyOps[h] # None /\ applyOps[h].id = r.id)
        <5>1. Waiting(applyOps[h])
          BY <3>1, <4>1 DEF Waiting
        <5>2. PICK t \in runs : Serves(t, h)
          BY <5>1, <1>1 DEF WaitsHaveRuns
        <5>3. t # r
          BY <5>1, <5>2, <4>1 DEF Serves, Waiting
        <5>4. t \in runs' /\ Serves(t, h)'
          BY <5>2, <5>3, <4>1 DEF Serves
        <5> QED
          BY <5>4
      <4>2. CASE h = r.host /\ applyOps'[h].id = r.id /\ applyOps'[h].phase = ph
        <5>1. ph = "waiting"
          BY <3>1, <4>2 DEF Waiting
        <5>2. PICK s \in S : TRUE
          BY <5>1
        <5>3. s \in runs' /\ Serves(s, h)'
          BY <5>2, <4>2, <1>5 DEF Serves, Further
        <5> QED
          BY <5>3
      <4> QED
        BY <4>1, <4>2, <2>1
    <3>2. ASSUME Waiting(restartOp)' PROVE \E t \in runs' : t.kind = "restart"
      <4>1. Waiting(restartOp)
        BY <3>2, <2>1 DEF Waiting
      <4>2. PICK t \in runs : t.kind = "restart"
        BY <4>1, <1>1 DEF WaitsHaveRuns
      <4>3. t \in runs'
        BY <4>2, <1>5
      <4> QED
        BY <4>2, <4>3
    <3> QED
      BY <3>1, <3>2 DEF WaitsHaveRuns
  <2> QED
    BY <2>2, <1>2, <2>4, <2>5, <2>6 DEF ApplyInv
<1>6. CASE r.kind = "restart"
  <2>1. Waiting(restartOp) /\ restartOp.id = r.id
    BY <1>1, <1>6 DEF RunsReport, Reports
  <2>2. restartOp \in OpRecord /\ restartOp # None
    BY <2>1, <1>1 DEF ApplyTypes, Waiting
  <2>3. /\ applyOps' = applyOps
        /\ restartOp' \in OpRecord /\ restartOp'.id = restartOp.id
        /\ restartOp'.mach = restartOp.mach
        /\ restartOp'.phase = ph /\ restartOp'.took = r.took
    BY <1>1, <1>6, <2>2, SettleRestart
  <2>4. ApplyTypes'
    BY <1>1, <1>2, <2>3 DEF ApplyTypes
  <2>5. restartOp.mach = Home[Local] /\ r.fp = Home[Local]
    <3>1. r.fp = Home[Local]
      BY <1>1, <1>6 DEF RunsKnown, GoodRun
    <3> QED
      BY <3>1, <1>1, <2>2 DEF OpsKnown
  <2>6. OpsKnown'
    <3>1. GoodOp(restartOp', boot)
      BY <2>3, <2>5, <1>1 DEF GoodOp
    <3> QED
      BY <3>1, <2>3, <2>5, <1>1 DEF OpsKnown
  <2>7. restartOp' # None
    BY <2>3, OpFields
  <2>8. \A s \in runs : s.kind = "restart" => s = r
    BY <1>1, <1>6 DEF RunsReport
  <2>9. RunsReport'
    <3>1. ASSUME NEW s \in runs', s.kind = "restart"
          PROVE  Waiting(restartOp)' /\ restartOp'.id = s.id
      <4>1. s \in S
        BY <3>1, <2>8
      <4>2. ph = "waiting" /\ s.id = r.id
        BY <4>1, <1>6 DEF Further
      <4> QED
        BY <4>2, <2>1, <2>3, <2>7 DEF Waiting
    <3>2. ASSUME NEW s \in runs', s.kind = "apply", applyOps[s.host] # None,
                 applyOps[s.host].id = s.id
          PROVE  applyOps[s.host].mach = s.fp
      <4>1. s \in runs
        BY <3>2, <1>6 DEF Further
      <4> QED
        BY <4>1, <3>2, <1>1 DEF RunsReport, Reports
    <3>3. dialog # None /\ dialog.kind = "restart" => ~Waiting(restartOp')
      BY <2>1, <1>1 DEF RunsReport
    <3> QED
      BY <3>1, <3>2, <3>3, <1>3, <2>3 DEF RunsReport, Reports, Waiting
  <2>10. WaitsHaveRuns'
    <3> SUFFICES ASSUME ~dead PROVE WaitsHaveRuns'
      BY DEF WaitsHaveRuns
    <3>1. ASSUME NEW h \in Host, Waiting(applyOps[h])
          PROVE  \E t \in runs' : Serves(t, h)'
      <4>1. PICK t \in runs : Serves(t, h)
        BY <3>1, <1>1 DEF WaitsHaveRuns
      <4>2. t \in runs' /\ Serves(t, h)'
        BY <4>1, <1>6, <2>3 DEF Serves
      <4> QED
        BY <4>2
    <3>2. ASSUME Waiting(restartOp)' PROVE \E t \in runs' : t.kind = "restart"
      <4>1. ph = "waiting"
        BY <3>2, <2>3 DEF Waiting
      <4>2. PICK s \in S : TRUE
        BY <4>1
      <4>3. s \in runs' /\ s.kind = "restart"
        BY <4>2, <1>6 DEF Further
      <4> QED
        BY <4>3
    <3> QED
      BY <3>1, <3>2, <2>3 DEF WaitsHaveRuns, Waiting
  <2> QED
    BY <2>4, <1>2, <2>6, <2>9, <2>10 DEF ApplyInv
<1> QED
  BY <1>1, <1>5, <1>6 DEF Kind

(* -------------------------- the steps of a call ------------------------- *)

\* A call put at another point stays the same call, with its record's shape.
SameCall(s, r) ==
    /\ s \in RunRecord /\ s.kind = r.kind /\ s.host = r.host
    /\ s.id = r.id /\ s.fp = r.fp

LEMMA AcceptedMoves ==
    ASSUME NEW r \in RunRecord,
           NEW s, s = [r EXCEPT !.pc = "sleeping", !.before = r.took]
    PROVE  SameCall(s, r) /\ s.pc = "sleeping" /\ s.took = r.took
           /\ s.before = r.took
BY DEF RunRecord, SameCall, Pc

LEMMA SleepMoves ==
    ASSUME NEW r \in RunRecord,
           NEW s, s = [r EXCEPT !.pc = "sleeping", !.seen = None]
    PROVE  SameCall(s, r) /\ s.pc = "sleeping" /\ s.took = r.took
           /\ s.before = r.before
BY DEF RunRecord, SameCall, Pc

LEMMA RecheckMoves ==
    ASSUME NEW r \in RunRecord, NEW s, s = [r EXCEPT !.pc = "rechecking"]
    PROVE  SameCall(s, r) /\ s.pc = "rechecking" /\ s.took = r.took
           /\ s.before = r.before
BY DEF RunRecord, SameCall, Pc

\* What the invariant says of one call.
LEMMA RunIsKnown ==
    ASSUME ApplyInv, NEW r \in runs
    PROVE  /\ r \in RunRecord /\ GoodRun(r, boot) /\ r.kind \in Kind
           /\ r.host \in Host /\ r.fp \in Machine /\ r.took \in Nat
           /\ boot[r.fp] \in Nat /\ url[r.host] \in Machine \cup {None}
<1>1. r \in RunRecord /\ GoodRun(r, boot)
  BY DEF ApplyInv, ApplyTypes, RunsKnown
<1>2. r.kind \in Kind /\ r.host \in Host /\ r.fp \in Machine /\ r.took \in Nat
  BY <1>1, RunFields
<1> QED
  BY <1>1, <1>2 DEF ApplyInv, ApplyTypes

\* The two lemmas above, for a call that goes on.
LEMMA CallGoesOn ==
    ASSUME ApplyInv, NEW r \in runs, NEW s, Further(s, r),
           runs' = (runs \ {r}) \cup {s},
           UNCHANGED <<url, boot, applyOps, restartOp, dialog, dead, nextId>>
    PROVE  ApplyInv'
<1> DEFINE S == {s}
<1>1. /\ \A t \in S : Further(t, r)
      /\ \A t, u \in S : t = u
      /\ S = {} => dead
      /\ runs' = (runs \ {r}) \cup S
  OBVIOUS
<1> HIDE DEF S
<1> QED
  BY <1>1, SwapStep

LEMMA CallGoesOnTelling ==
    ASSUME ApplyAssumption, ApplyInv, NEW r \in runs, NEW s, Further(s, r),
           NEW ph \in Phase, Settle(r, ph),
           runs' = (runs \ {r}) \cup {s},
           ph = "done" => r.took < boot[r.fp],
           r.kind = "restart" => ph = "waiting",
           UNCHANGED <<url, boot, dialog, dead, nextId>>
    PROVE  ApplyInv'
<1> DEFINE S == {s}
<1>1. /\ \A t \in S : Further(t, r)
      /\ \A t, u \in S : t = u
      /\ S # {}
      /\ runs' = (runs \ {r}) \cup S
  OBVIOUS
<1> HIDE DEF S
<1> QED
  BY <1>1, SettleStep

LEMMA AcceptStep ==
    ASSUME ApplyAssumption, ApplyInv, NEW r \in runs, Accept(r)
    PROVE  ApplyInv'
<1> DEFINE t == boot[r.fp]
           s == [r EXCEPT !.pc = "accepted", !.took = t]
<1>1. r \in RunRecord /\ t \in Nat
  BY RunIsKnown
<1>2. s = [r EXCEPT !.pc = "accepted", !.took = t]
  OBVIOUS
<1>3. runs' = (runs \ {r}) \cup {s}
      /\ UNCHANGED <<url, boot, applyOps, restartOp, dialog, dead, nextId>>
  BY DEF Accept, Replace
<1> HIDE DEF s, t
<1>4. SameCall(s, r) /\ s.pc = "accepted" /\ s.took = t
  BY <1>1, <1>2 DEF RunRecord, SameCall, Pc
<1>5. Further(s, r)
  BY <1>4, RunIsKnown DEF Further, SameCall, GoodRun, t
<1> QED
  BY <1>3, <1>5, CallGoesOn

LEMMA AcceptedStep ==
    ASSUME ApplyAssumption, ApplyInv, NEW r \in runs, Accepted(r)
    PROVE  ApplyInv'
<1> DEFINE s == [r EXCEPT !.pc = "sleeping", !.before = r.took]
<1>1. SameCall(s, r) /\ s.pc = "sleeping" /\ s.took = r.took /\ s.before = r.took
  BY RunIsKnown, AcceptedMoves
<1>2. runs' = (runs \ {r}) \cup {s} /\ Settle(r, "waiting")
      /\ UNCHANGED <<url, boot, dialog, dead, nextId>>
  BY DEF Accepted, Replace
<1> HIDE DEF s
<1>3. Further(s, r)
  BY <1>1, RunIsKnown DEF Further, SameCall, GoodRun
<1>4. "waiting" \in Phase
  BY DEF Phase
<1> QED
  BY <1>2, <1>3, <1>4, CallGoesOnTelling

\* The call is over, and its row says so.
LEMMA CallEnds ==
    ASSUME ApplyAssumption, ApplyInv, NEW r \in runs,
           NEW ph \in {"done", "failed", "timeout"}, Settle(r, ph),
           ph = "done" => r.took < boot[r.fp],
           runs' = runs \ {r}, UNCHANGED <<url, boot, dialog, dead, nextId>>
    PROVE  ApplyInv'
<1> DEFINE S == {}
<1>1. /\ \A t \in S : Further(t, r)
      /\ \A t, u \in S : t = u
      /\ S = {} /\ runs' = (runs \ {r}) \cup S
  OBVIOUS
<1>2. ph \in Phase /\ ph # "waiting"
  BY DEF Phase
<1> HIDE DEF S
<1> QED
  BY <1>1, <1>2, SettleStep

\* The call is over because the mod is gone: nobody is told.
LEMMA CallDropped ==
    ASSUME ApplyAssumption, ApplyInv, NEW r \in runs, dead,
           runs' = runs \ {r},
           UNCHANGED <<url, boot, applyOps, restartOp, dialog, dead, nextId>>
    PROVE  ApplyInv'
<1> DEFINE S == {}
<1>1. /\ \A t \in S : Further(t, r)
      /\ \A t, u \in S : t = u
      /\ runs' = (runs \ {r}) \cup S
  OBVIOUS
<1> HIDE DEF S
<1> QED
  BY <1>1, SwapStep

LEMMA NotConfirmableStep ==
    ASSUME ApplyAssumption, ApplyInv, NEW r \in runs, NotConfirmable(r)
    PROVE  ApplyInv'
BY CallEnds DEF NotConfirmable

LEMMA AskStep ==
    ASSUME ApplyAssumption, ApplyInv, NEW r \in runs, Ask(r)
    PROVE  ApplyInv'
<1>1. UNCHANGED <<url, boot, dialog, dead, nextId>> /\ r.pc = "sleeping"
  BY DEF Ask
<1>2. CASE dead
  BY <1>1, <1>2, CallDropped DEF Ask
<1>3. CASE ~dead /\ (url[r.host] = None \/ HostMoved(r))
  BY <1>1, <1>3, CallEnds DEF Ask
<1>4. CASE ~dead /\ url[r.host] # None /\ ~HostMoved(r)
  <2> DEFINE m == url[r.host]
             s == [r EXCEPT !.pc = "asking", !.asked = m]
  <2>1. r \in RunRecord /\ m \in Machine \cup {None}
    BY RunIsKnown
  <2>2. s = [r EXCEPT !.pc = "asking", !.asked = m]
    OBVIOUS
  <2>3. runs' = (runs \ {r}) \cup {s} /\ UNCHANGED <<applyOps, restartOp>>
    BY <1>4 DEF Ask, Replace
  <2>4. m = r.fp
    BY <1>4, RunIsKnown DEF HostMoved, Kind, GoodRun, ApplyInv, ApplyTypes
  <2> HIDE DEF s, m
  <2>5. SameCall(s, r) /\ s.pc = "asking" /\ s.took = r.took
        /\ s.before = r.before /\ s.asked = m
    BY <2>1, <2>2 DEF RunRecord, SameCall, Pc
  <2>6. Further(s, r)
    BY <1>1, <2>4, <2>5, RunIsKnown DEF Further, SameCall, GoodRun
  <2> QED
    BY <1>1, <2>3, <2>6, CallGoesOn
<1> QED
  BY <1>2, <1>3, <1>4

LEMMA AnswerStep ==
    ASSUME ApplyAssumption, ApplyInv, NEW r \in runs, Answer(r)
    PROVE  ApplyInv'
<1> DEFINE b == boot[r.asked]
           s == [r EXCEPT !.pc = "answered", !.seen = b]
<1>1. r.asked = r.fp /\ r.pc = "asking"
  BY RunIsKnown DEF Answer, GoodRun
<1>2. r \in RunRecord /\ b \in Nat /\ b = boot[r.fp]
  BY <1>1, RunIsKnown
<1>3. s = [r EXCEPT !.pc = "answered", !.seen = b]
  OBVIOUS
<1>4. runs' = (runs \ {r}) \cup {s}
      /\ UNCHANGED <<url, boot, applyOps, restartOp, dialog, dead, nextId>>
  BY DEF Answer, Replace
<1> HIDE DEF s, b
<1>5. SameCall(s, r) /\ s.pc = "answered" /\ s.took = r.took
      /\ s.before = r.before /\ s.asked = r.asked /\ s.seen = b
  BY <1>2, <1>3 DEF RunRecord, SameCall, Pc
<1>6. Further(s, r)
  BY <1>1, <1>2, <1>5, RunIsKnown DEF Further, SameCall, GoodRun
<1> QED
  BY <1>4, <1>6, CallGoesOn

\* Back to sleep: no answer, or the same boot id.
LEMMA SleepStep ==
    ASSUME ApplyAssumption, ApplyInv, NEW r \in runs, NoAnswer(r) \/ SameBoot(r)
    PROVE  ApplyInv'
<1> DEFINE s == [r EXCEPT !.pc = "sleeping", !.seen = None]
<1>1. SameCall(s, r) /\ s.pc = "sleeping" /\ s.took = r.took
      /\ s.before = r.before
  BY RunIsKnown, SleepMoves
<1>2. /\ runs' = (runs \ {r}) \cup {s} /\ r.pc \in {"asking", "answered"}
      /\ UNCHANGED <<url, boot, applyOps, restartOp, dialog, dead, nextId>>
  BY DEF NoAnswer, SameBoot, Replace
<1> HIDE DEF s
<1>3. Further(s, r)
  BY <1>1, <1>2, RunIsKnown DEF Further, SameCall, GoodRun
<1> QED
  BY <1>2, <1>3, CallGoesOn

\* Another boot id from the machine that was asked: it has restarted.
LEMMA NewBootStep ==
    ASSUME ApplyAssumption, ApplyInv, NEW r \in runs, NewBoot(r)
    PROVE  ApplyInv'
<1> DEFINE s == [r EXCEPT !.pc = "rechecking"]
<1>1. SameCall(s, r) /\ s.pc = "rechecking" /\ s.took = r.took
      /\ s.before = r.before
  BY RunIsKnown, RecheckMoves
<1>2. UNCHANGED <<url, boot, dialog, dead, nextId>> /\ r.pc = "answered"
      /\ r.seen # r.before
  BY DEF NewBoot
<1>3. r.took < boot[r.fp]
  BY <1>2, RunIsKnown DEF GoodRun
<1>4. CASE dead
  BY <1>2, <1>4, CallDropped DEF NewBoot
<1>5. CASE ~dead /\ r.kind = "apply" /\ r.host # Local
  <2>1. runs' = (runs \ {r}) \cup {s} /\ Settle(r, "done")
    BY <1>5 DEF NewBoot, Replace
  <2> HIDE DEF s
  <2>2. Further(s, r)
    BY <1>1, <1>2, <1>3, <1>5, RunIsKnown DEF Further, SameCall, GoodRun
  <2>3. "done" \in Phase
    BY DEF Phase
  <2> QED
    BY <2>1, <2>2, <2>3, <1>2, <1>3, <1>5, CallGoesOnTelling
<1>6. CASE ~dead /\ ~(r.kind = "apply" /\ r.host # Local)
  <2>1. runs' = runs \ {r} /\ Settle(r, "done")
    BY <1>6 DEF NewBoot
  <2> QED
    BY <2>1, <1>2, <1>3, CallEnds
<1> QED
  BY <1>4, <1>5, <1>6

LEMMA RecheckedStep ==
    ASSUME ApplyAssumption, ApplyInv, NEW r \in runs, Rechecked(r)
    PROVE  ApplyInv'
<1>1. r.took < boot[r.fp]
  BY RunIsKnown DEF GoodRun, Rechecked
<1> QED
  BY <1>1, CallEnds DEF Rechecked

LEMMA WaitRanOutStep ==
    ASSUME ApplyAssumption, ApplyInv, NEW r \in runs, WaitRanOut(r)
    PROVE  ApplyInv'
<1>1. CASE dead
  BY <1>1, CallDropped DEF WaitRanOut
<1>2. CASE ~dead
  BY <1>2, CallEnds DEF WaitRanOut
<1> QED
  BY <1>1, <1>2

(* ------------------------------ the clicks ------------------------------ *)

\* Only the confirmation on screen changes: one for a restart appears only
\* while the restart row is free.
LEMMA DialogStep ==
    ASSUME ApplyInv, dialog' \in DialogRecord \cup {None},
           (dialog' # None /\ dialog'.kind = "restart") => ~Waiting(restartOp),
           UNCHANGED <<url, boot, applyOps, restartOp, runs, dead, nextId>>
    PROVE  ApplyInv'
BY DEF ApplyInv, ApplyTypes, RunsKnown, OpsKnown, RunsReport, Reports,
       WaitsHaveRuns, Serves, Waiting

LEMMA ClickStep ==
    ASSUME ApplyAssumption, ApplyInv,
           (\E h \in Host : ClickApply(h)) \/ ClickRestart \/ Decline
    PROVE  ApplyInv'
<1>1. ASSUME NEW h \in Host, ClickApply(h) PROVE ApplyInv'
  <2>1. dialog' = [kind |-> "apply", host |-> h, mach |-> url[h]]
        /\ url[h] # None
    BY <1>1 DEF ClickApply
  <2>2. dialog' \in DialogRecord /\ dialog'.kind = "apply"
    BY <2>1 DEF DialogRecord, Kind, ApplyInv, ApplyTypes
  <2> QED
    BY <1>1, <2>2, DialogStep DEF ClickApply
<1>2. ASSUME ClickRestart PROVE ApplyInv'
  <2>1. dialog' = [kind |-> "restart", host |-> Local, mach |-> Home[Local]]
        /\ ~Waiting(restartOp)
    BY <1>2 DEF ClickRestart, ApplyInv, ApplyTypes
  <2>2. dialog' \in DialogRecord
    BY <2>1 DEF DialogRecord, Kind, ApplyAssumption
  <2> QED
    BY <1>2, <2>1, <2>2, DialogStep DEF ClickRestart
<1>3. ASSUME Decline PROVE ApplyInv'
  BY <1>3, DialogStep DEF Decline
<1> QED
  BY <1>1, <1>2, <1>3

\* A new op, and the call it is started with.
LEMMA OpStarts ==
    ASSUME NEW ph \in Phase, NEW m \in Machine \cup {None}, nextId \in Nat
    PROVE  Op(ph, m) \in OpRecord /\ Op(ph, m).id = nextId
           /\ Op(ph, m).phase = ph /\ Op(ph, m).mach = m
BY DEF Op, OpRecord

LEMMA RunStarts ==
    ASSUME ApplyTypes, dialog # None,
           NEW k \in Kind, NEW h \in Host, NEW m \in Machine
    PROVE  Run(k, h, m) \in RunRecord /\ Run(k, h, m).kind = k
           /\ Run(k, h, m).host = h /\ Run(k, h, m).id = nextId
           /\ Run(k, h, m).fp = m /\ Run(k, h, m).pc = "posting"
           /\ Run(k, h, m).took = 0
<1>1. dialog.mach \in Machine /\ nextId \in Nat
  BY DEF ApplyTypes, DialogRecord
<1> QED
  BY <1>1 DEF Run, RunRecord, Pc

\* A click's new op, and with it a call or none: the row it takes is free.
LEMMA ConfirmApplyStep ==
    ASSUME ApplyAssumption, ApplyInv, ConfirmApply
    PROVE  ApplyInv'
<1> DEFINE h == dialog.host
<1>1. /\ ApplyTypes /\ RunsKnown /\ OpsKnown /\ RunsReport /\ WaitsHaveRuns
      /\ dialog # None /\ h \in Host /\ dialog.mach \in Machine
  BY DEF ApplyInv, ApplyTypes, ConfirmApply, DialogRecord
<1>2. dialog' = None /\ nextId' = nextId + 1 /\ nextId \in Nat
      /\ UNCHANGED <<url, boot, restartOp, dead>>
  BY <1>1 DEF ConfirmApply, ApplyTypes
<1>3. \A r \in runs : r.id < nextId /\ r.id \in Nat
                      /\ r.host \in Host /\ r \in RunRecord
  BY <1>1, RunFields DEF RunsKnown, ApplyTypes
<1>4. \A k \in Host : applyOps[k] # None => applyOps[k].id < nextId
                                            /\ applyOps[k].id \in Nat
  BY <1>1, OpFields DEF OpsKnown, ApplyTypes
<1>5. CASE UNCHANGED <<applyOps, runs>>
  <2>1. ApplyTypes'
    BY <1>1, <1>2, <1>5 DEF ApplyTypes
  <2>2. RunsKnown'
    BY <1>1, <1>2, <1>3, <1>5 DEF RunsKnown
  <2>3. OpsKnown'
    BY <1>1, <1>2, <1>4, <1>5 DEF OpsKnown
  <2>4. RunsReport'
    BY <1>1, <1>2, <1>5 DEF RunsReport, Reports, Waiting
  <2>5. WaitsHaveRuns'
    BY <1>1, <1>2, <1>5 DEF WaitsHaveRuns, Serves, Waiting
  <2> QED
    BY <2>1, <2>2, <2>3, <2>4, <2>5 DEF ApplyInv
<1>6. ASSUME ~Waiting(applyOps[h]), NEW op \in OpRecord, op.id = nextId,
             op.phase # "done", NEW S,
             applyOps' = [applyOps EXCEPT ![h] = op],
             runs' = runs \cup S,
             op.phase = "waiting" => S # {},
             \A s \in S : /\ s \in RunRecord /\ s.kind = "apply"
                          /\ s.host = h /\ s.id = nextId /\ s.fp = op.mach
                          /\ s.pc = "posting" /\ s.took = 0
      PROVE  ApplyInv'
  <2> HIDE DEF h
  <2>1. op # None
    BY OpFields
  <2>2. applyOps'[h] = op
        /\ \A k \in Host : k # h => applyOps'[k] = applyOps[k]
    BY <1>1, <1>6 DEF ApplyTypes
  <2>3. applyOps' \in [Host -> OpRecord \cup {None}]
    BY <1>1, <1>6 DEF ApplyTypes
  <2>4. ApplyTypes'
    BY <1>1, <1>2, <1>6, <2>3 DEF ApplyTypes
  <2>5. RunsKnown'
    <3>1. ASSUME NEW s \in S PROVE s.id < nextId + 1 /\ GoodRun(s, boot)
      <4>1. s.fp \in Machine
        BY <1>6, RunFields
      <4>2. boot[s.fp] \in Nat
        BY <4>1, <1>1 DEF ApplyTypes
      <4> QED
        BY <1>2, <1>6, <4>2 DEF GoodRun
    <3> QED
      BY <3>1, <1>1, <1>2, <1>3, <1>6 DEF RunsKnown
  <2>6. OpsKnown'
    <3>1. \A k \in Host : applyOps'[k] # None =>
              applyOps'[k].id < nextId + 1 /\ GoodOp(applyOps'[k], boot)
      BY <1>1, <1>2, <1>4, <1>6, <2>2 DEF OpsKnown, GoodOp
    <3> QED
      BY <3>1, <1>1, <1>2 DEF OpsKnown
  <2>7. RunsReport'
    <3>1. ASSUME NEW s \in runs, s.kind = "apply", applyOps'[s.host] # None,
                 applyOps'[s.host].id = s.id
          PROVE  applyOps'[s.host].mach = s.fp
      <4>1. s.host # h
        BY <3>1, <1>2, <1>3, <1>6, <2>2
      <4> QED
        BY <4>1, <3>1, <2>2, <1>1, <1>3 DEF RunsReport, Reports
    <3>2. \A s \in runs' : Reports(s)'
      BY <3>1, <2>2, <1>1, <1>2, <1>6 DEF RunsReport, Reports, Waiting
    <3>3. \A s \in runs' : s.kind = "restart" => s \in runs
      BY <1>6
    <3> QED
      BY <3>2, <3>3, <1>1, <1>2 DEF RunsReport
  <2>8. WaitsHaveRuns'
    <3> SUFFICES ASSUME ~dead PROVE WaitsHaveRuns'
      BY <1>2 DEF WaitsHaveRuns
    <3>1. ASSUME NEW k \in Host, Waiting(applyOps[k])'
          PROVE  \E t \in runs' : Serves(t, k)'
      <4>1. CASE k # h
        <5>1. Waiting(applyOps[k])
          BY <3>1, <4>1, <2>2 DEF Waiting
        <5>2. PICK t \in runs : Serves(t, k)
          BY <5>1, <1>1 DEF WaitsHaveRuns
        <5>3. t \in runs' /\ Serves(t, k)'
          BY <5>2, <4>1, <2>2, <1>6 DEF Serves
        <5> QED
          BY <5>3
      <4>2. CASE k = h
        <5>1. op.phase = "waiting"
          BY <3>1, <4>2, <2>2 DEF Waiting
        <5>2. PICK s \in S : TRUE
          BY <5>1, <1>6
        <5>3. s \in runs' /\ Serves(s, k)'
          BY <5>2, <4>2, <2>2, <1>6 DEF Serves
        <5> QED
          BY <5>3
      <4> QED
        BY <4>1, <4>2
    <3>2. ASSUME Waiting(restartOp)' PROVE \E t \in runs' : t.kind = "restart"
      <4>1. Waiting(restartOp)
        BY <3>2, <1>2 DEF Waiting
      <4>2. PICK t \in runs : t.kind = "restart"
        BY <4>1, <1>1 DEF WaitsHaveRuns
      <4>3. t \in runs'
        BY <1>6
      <4> QED
        BY <4>2, <4>3
    <3> QED
      BY <3>1, <3>2 DEF WaitsHaveRuns
  <2> QED
    BY <2>4, <2>5, <2>6, <2>7, <2>8 DEF ApplyInv
<1>7. CASE ~StillNamed(dialog) /\ ~Waiting(applyOps[h])
  <2> DEFINE S == {}
  <2>1. "failed" \in Phase
    BY DEF Phase
  <2>2. Op("failed", None) \in OpRecord /\ Op("failed", None).id = nextId
        /\ Op("failed", None).phase = "failed"
    BY <1>2, <2>1, OpStarts
  <2>3. applyOps' = [applyOps EXCEPT ![h] = Op("failed", None)]
        /\ runs' = runs
    BY <1>7 DEF ConfirmApply, NoteRefusal, Waiting
  <2>4. runs' = runs \cup S /\ \A s \in S : FALSE
    BY <2>3
  <2> HIDE DEF S, h
  <2> QED
    BY <1>6, <1>7, <2>2, <2>3, <2>4
<1>8. CASE Waiting(applyOps[h])
  <2>1. UNCHANGED <<applyOps, runs>>
    BY <1>8 DEF ConfirmApply, NoteRefusal, Waiting
  <2> QED
    BY <2>1, <1>5
<1>9. CASE StillNamed(dialog) /\ ~Waiting(applyOps[h])
  <2> DEFINE op == Op("waiting", url[h])
             s == Run("apply", h, url[h])
             S == {s}
  <2>1. url[h] \in Machine /\ "waiting" \in Phase /\ "apply" \in Kind
    BY <1>1, <1>9 DEF StillNamed, Phase, Kind
  <2>2. op \in OpRecord /\ op.id = nextId /\ op.phase = "waiting"
        /\ op.mach = url[h]
    BY <1>2, <2>1, OpStarts
  <2>3. s \in RunRecord /\ s.kind = "apply" /\ s.host = h /\ s.id = nextId
        /\ s.fp = url[h] /\ s.pc = "posting" /\ s.took = 0
    BY <1>1, <2>1, RunStarts
  <2>4. applyOps' = [applyOps EXCEPT ![h] = op] /\ runs' = runs \cup {s}
    BY <1>9 DEF ConfirmApply
  <2> HIDE DEF op, s, h
  <2>5. /\ S # {} /\ runs' = runs \cup S
        /\ \A t \in S : /\ t \in RunRecord /\ t.kind = "apply"
                        /\ t.host = h /\ t.id = nextId /\ t.fp = op.mach
                        /\ t.pc = "posting" /\ t.took = 0
    BY <2>2, <2>3, <2>4
  <2> HIDE DEF S
  <2> QED
    BY <1>6, <1>9, <2>2, <2>4, <2>5
<1> QED
  BY <1>7, <1>8, <1>9

LEMMA ConfirmRestartStep ==
    ASSUME ApplyAssumption, ApplyInv, ConfirmRestart
    PROVE  ApplyInv'
<1> DEFINE op == Op("waiting", Home[Local])
           s == Run("restart", Local, Home[Local])
<1>1. /\ ApplyTypes /\ RunsKnown /\ OpsKnown /\ RunsReport /\ WaitsHaveRuns
      /\ dialog # None /\ dialog.kind = "restart" /\ nextId \in Nat
      /\ url[Local] = Home[Local]
  BY DEF ApplyInv, ApplyTypes, ConfirmRestart
<1>2. /\ restartOp' = op /\ runs' = runs \cup {s}
      /\ dialog' = None /\ nextId' = nextId + 1
      /\ UNCHANGED <<url, boot, applyOps, dead>>
  BY <1>1 DEF ConfirmRestart
<1>3. Local \in Host /\ Home[Local] \in Machine /\ "waiting" \in Phase
      /\ "restart" \in Kind
  BY DEF ApplyAssumption, Phase, Kind
<1>4. op \in OpRecord /\ op.id = nextId /\ op.phase = "waiting"
      /\ op.mach = Home[Local]
  BY <1>1, <1>3, OpStarts
<1>5. s \in RunRecord /\ s.kind = "restart" /\ s.host = Local /\ s.id = nextId
      /\ s.fp = Home[Local] /\ s.pc = "posting" /\ s.took = 0
  BY <1>1, <1>3, RunStarts
<1> HIDE DEF op, s
<1>6. op # None
  BY <1>4, OpFields
<1>7. \A r \in runs : r.kind # "restart" /\ r.id < nextId /\ r.id \in Nat
  <2>1. \A r \in runs : r.id < nextId /\ r.id \in Nat
    BY <1>1, RunFields DEF RunsKnown, ApplyTypes
  <2> QED
    BY <2>1, <1>1 DEF RunsReport, Reports
<1>8. ApplyTypes'
  BY <1>1, <1>2, <1>4, <1>5 DEF ApplyTypes
<1>9. RunsKnown'
  <2>1. boot[s.fp] \in Nat
    BY <1>1, <1>3, <1>5 DEF ApplyTypes
  <2>2. s.id < nextId + 1 /\ GoodRun(s, boot)
    BY <1>1, <1>5, <2>1 DEF GoodRun
  <2> QED
    BY <2>2, <1>1, <1>2, <1>7 DEF RunsKnown
<1>10. OpsKnown'
  <2>1. \A h \in Host : applyOps[h] # None => applyOps[h].id < nextId + 1
    BY <1>1, OpFields DEF OpsKnown, ApplyTypes
  <2> QED
    BY <2>1, <1>1, <1>2, <1>4 DEF OpsKnown, GoodOp
<1>11. RunsReport'
  <2>1. \A r \in runs' : Reports(r)'
    BY <1>1, <1>2, <1>4, <1>5, <1>6, <1>7 DEF RunsReport, Reports, Waiting
  <2>2. \A r, t \in runs' : r.kind = "restart" /\ t.kind = "restart" => r = t
    BY <1>2, <1>7
  <2> QED
    BY <2>1, <2>2, <1>2 DEF RunsReport
<1>12. WaitsHaveRuns'
  <2>1. s \in runs' /\ s.kind = "restart" /\ runs \subseteq runs'
    BY <1>2, <1>5
  <2>2. ASSUME ~dead, NEW h \in Host, Waiting(applyOps[h])
        PROVE  \E t \in runs' : Serves(t, h)'
    <3>1. PICK t \in runs : Serves(t, h)
      BY <2>2, <1>1 DEF WaitsHaveRuns
    <3>2. t \in runs' /\ Serves(t, h)'
      BY <3>1, <2>1, <1>2 DEF Serves
    <3> QED
      BY <3>2
  <2> QED
    BY <2>1, <2>2, <1>2 DEF WaitsHaveRuns, Waiting
<1> QED
  BY <1>8, <1>9, <1>10, <1>11, <1>12 DEF ApplyInv

(* ------------------------ the rest of the world ------------------------- *)

\* A machine's boot id only grows, so what was once another one stays so.
LEMMA RebootStep ==
    ASSUME ApplyAssumption, ApplyInv, NEW m \in Machine, Reboot(m)
    PROVE  ApplyInv'
<1>1. /\ ApplyTypes /\ RunsKnown /\ OpsKnown /\ RunsReport /\ WaitsHaveRuns
      /\ UNCHANGED <<url, applyOps, restartOp, runs, dialog, dead, nextId>>
  BY DEF ApplyInv, Reboot
<1>2. /\ boot' \in [Machine -> Nat] /\ boot \in [Machine -> Nat]
      /\ \A k \in Machine : boot[k] \in Nat /\ boot'[k] \in Nat
                            /\ boot[k] <= boot'[k]
  BY <1>1 DEF Reboot, ApplyTypes
<1>3. ApplyTypes'
  BY <1>1, <1>2 DEF ApplyTypes
<1>4. RunsKnown'
  <2> SUFFICES ASSUME NEW r \in runs PROVE GoodRun(r, boot')
    BY <1>1 DEF RunsKnown
  <2>1. r.fp \in Machine /\ r.took \in Nat /\ GoodRun(r, boot)
    BY RunIsKnown
  <2> QED
    BY <2>1, <1>2 DEF GoodRun
<1>5. OpsKnown'
  <2>1. ASSUME NEW op \in OpRecord, GoodOp(op, boot) PROVE GoodOp(op, boot')
    BY <2>1, <1>2, OpFields DEF GoodOp
  <2>2. \A h \in Host : applyOps[h] # None => applyOps[h] \in OpRecord
    BY <1>1 DEF ApplyTypes
  <2>3. restartOp # None => restartOp \in OpRecord
    BY <1>1 DEF ApplyTypes
  <2> QED
    BY <2>1, <2>2, <2>3, <1>1 DEF OpsKnown
<1>6. RunsReport' /\ WaitsHaveRuns'
  BY <1>1 DEF RunsReport, Reports, WaitsHaveRuns, Serves, Waiting
<1> QED
  BY <1>3, <1>4, <1>5, <1>6 DEF ApplyInv

LEMMA WorldStep ==
    ASSUME ApplyAssumption, ApplyInv,
           \/ \E h \in Host : CatalogRead(h)
           \/ \E h \in Host, m \in Machine \cup {None} : EditHosts(h, m)
           \/ Unload
           \/ UNCHANGED vars
    PROVE  ApplyInv'
<1>1. UNCHANGED <<boot, applyOps, restartOp, runs, dialog, nextId>>
  BY DEF CatalogRead, EditHosts, Unload, vars
<1>2. (dead' = dead \/ dead' = TRUE) /\ dead \in BOOLEAN
  BY DEF CatalogRead, EditHosts, Unload, vars, ApplyInv, ApplyTypes
<1>3. url' \in [Host -> Machine \cup {None}] /\ url'[Local] = Home[Local]
  BY DEF CatalogRead, EditHosts, Unload, vars, ApplyInv, ApplyTypes,
         ApplyAssumption
<1>4. ApplyTypes'
  BY <1>1, <1>2, <1>3 DEF ApplyInv, ApplyTypes
<1>5. RunsKnown' /\ OpsKnown' /\ RunsReport'
  BY <1>1 DEF ApplyInv, RunsKnown, OpsKnown, RunsReport, Reports
<1>6. WaitsHaveRuns'
  BY <1>1, <1>2 DEF ApplyInv, WaitsHaveRuns, Serves
<1> QED
  BY <1>4, <1>5, <1>6 DEF ApplyInv

(* ------------------------------ the theorems ---------------------------- *)

LEMMA InitApply == ASSUME ApplyAssumption, Init PROVE ApplyInv
<1>1. Local \in Host /\ Home \in [Host -> Machine]
  BY DEF ApplyAssumption
<1>2. ApplyTypes
  BY <1>1 DEF Init, ApplyTypes
<1> QED
  BY <1>2 DEF Init, ApplyInv, RunsKnown, OpsKnown, RunsReport, WaitsHaveRuns,
     Waiting

LEMMA NextApply ==
    ASSUME ApplyAssumption, ApplyInv, [Next]_vars PROVE ApplyInv'
<1>1. ASSUME NEW r \in runs, Step(r) PROVE ApplyInv'
  BY <1>1, AcceptStep, AcceptedStep, NotConfirmableStep, AskStep, AnswerStep,
     SleepStep, NewBootStep, RecheckedStep, WaitRanOutStep DEF Step
<1>2. ASSUME (\E h \in Host : ClickApply(h)) \/ ClickRestart \/ Decline
      PROVE  ApplyInv'
  BY <1>2, ClickStep
<1>3. ASSUME ConfirmApply \/ ConfirmRestart PROVE ApplyInv'
  BY <1>3, ConfirmApplyStep, ConfirmRestartStep
<1>4. ASSUME NEW m \in Machine, Reboot(m) PROVE ApplyInv'
  BY <1>4, RebootStep
<1>5. ASSUME \/ \E h \in Host : CatalogRead(h)
             \/ \E h \in Host, m \in Machine \cup {None} : EditHosts(h, m)
             \/ Unload
             \/ UNCHANGED vars
      PROVE  ApplyInv'
  BY <1>5, WorldStep
<1> QED
  BY <1>1, <1>2, <1>3, <1>4, <1>5 DEF Next

\* A call asks only the machine it was sent to and reports only into the op it
\* was started for; a row that waits has its call (performApply and
\* performRestart of update.js, makeApplyFlow of update-apply.js).
THEOREM ApplyInvariant == ASSUME ApplyAssumption PROVE Spec => []ApplyInv
<1>1. Init => ApplyInv
  BY InitApply
<1>2. ApplyInv /\ [Next]_vars => ApplyInv'
  BY NextApply
<1> QED
  BY <1>1, <1>2, PTL DEF Spec

\* Every row has its shape, every call its bounds, and while the mod is loaded
\* every row that waits has a call that will settle it.
THEOREM ApplyTypeCorrect == ASSUME ApplyAssumption PROVE Spec => []TypeOK
<1>1. ASSUME ApplyInv PROVE TypeOK
  <2>1. /\ ApplyTypes /\ RunsKnown /\ WaitsHaveRuns
    BY <1>1 DEF ApplyInv
  <2>2. \A h \in Host : applyOps[h] # None => applyOps[h].phase \in Phase
    BY <2>1, OpFields DEF ApplyTypes
  <2>3. restartOp # None => restartOp.phase \in Phase
    BY <2>1, OpFields DEF ApplyTypes
  <2>4. \A r \in runs : r.id < nextId /\ r.kind \in {"apply", "restart"}
    BY <2>1, RunFields DEF ApplyTypes, RunsKnown, Kind
  <2>5. ASSUME NEW h \in Host, Waiting(applyOps[h]), ~dead
        PROVE  \E r \in runs : r.id = applyOps[h].id
    BY <2>1, <2>5 DEF WaitsHaveRuns, Serves
  <2>6. ASSUME Waiting(restartOp), ~dead
        PROVE  \E r \in runs : r.id = restartOp.id
    <3>1. PICK r \in runs : r.kind = "restart"
      BY <2>1, <2>6 DEF WaitsHaveRuns
    <3>2. restartOp.id = r.id
      BY <3>1, <1>1 DEF ApplyInv, RunsReport, Reports
    <3> QED
      BY <3>2
  <2> QED
    BY <2>1, <2>2, <2>3, <2>4, <2>5, <2>6 DEF TypeOK, ApplyTypes
<1> QED
  BY <1>1, ApplyInvariant, PTL

\* "Restarted" is shown only of the machine the request was sent to, and only
\* once it is under another boot id than the one it accepted with: never for
\* the 202, never for what another machine answers under the same host id.
THEOREM RestartedIsProven ==
    ASSUME ApplyAssumption PROVE Spec => []DoneProvesReboot
<1>1. ASSUME ApplyInv PROVE DoneProvesReboot
  <2>1. OpsKnown /\ ApplyTypes
    BY <1>1 DEF ApplyInv
  <2>2. ASSUME NEW op \in OpRecord, GoodOp(op, boot), op.phase = "done"
        PROVE  boot[op.mach] > op.took
    <3>1. op # None /\ op.took \in Nat
      BY OpFields
    <3>2. op.mach \in Machine /\ op.took < boot[op.mach]
      BY <2>2, <3>1 DEF GoodOp
    <3>3. boot[op.mach] \in Nat
      BY <3>2, <2>1 DEF ApplyTypes
    <3> QED
      BY <3>1, <3>2, <3>3
  <2>3. \A h \in Host : applyOps[h] # None =>
            applyOps[h] \in OpRecord /\ GoodOp(applyOps[h], boot)
    BY <2>1 DEF OpsKnown, ApplyTypes
  <2>4. restartOp # None => restartOp \in OpRecord /\ GoodOp(restartOp, boot)
    BY <2>1 DEF OpsKnown, ApplyTypes
  <2> QED
    BY <2>2, <2>3, <2>4 DEF DoneProvesReboot
<1> QED
  BY <1>1, ApplyInvariant, PTL
==============================================================================
