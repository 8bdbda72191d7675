---------------------------- MODULE HeartbeatProofs ----------------------------
(***************************************************************************)
(* Proofs about Heartbeat, for any number of hosts, terminals and runs:    *)
(* its types; that the mutex of refreshTaskbar is owned by a run that is   *)
(* alive, and a catch-up waits for none but that one; and that a window is *)
(* closed only over MissClose answers of its own host that left its        *)
(* session out.  When the heartbeat may close one at all is a matter of    *)
(* clocks, and of the runs.                                                *)
(***************************************************************************)
EXTENDS Heartbeat, TLAPS

PollRecord == [ok : BOOLEAN, everOk : BOOLEAN, list : SUBSET Keys, fresh : BOOLEAN, gcDone : BOOLEAN]
FlightRecord == [st : {"none", "out", "back", "bad"}, list : SUBSET Keys]
CatchRecord == [pc : {"idle", "poll", "polled", "before", "after"}, host : Hosts,
                need : SUBSET Keys, wait : Runs \cup {NoRun}]

-----------------------------------------------------------------------------
(* The types, in parts. *)

WorldTypes == up \subseteq Hosts /\ reg \subseteq running /\ running \subseteq Keys /\ waited \in [Hosts -> Nat]
PollTypes == poll \in [Hosts -> PollRecord] /\ flight \in [Hosts -> FlightRecord]
RunTypes == run \in [Runs -> {"idle", "settle"}] /\ cur \in Runs \cup {NoRun} /\ inFlight \in BOOLEAN
DeskTypes == win \subseteq Keys /\ miss \in [Keys -> 0 .. MissClose] /\ chips \subseteq Keys
ParkTypes == /\ pending \subseteq Keys /\ due \subseteq pending
             /\ restoring \subseteq Keys /\ quiet \subseteq Keys /\ seen \subseteq Keys
             /\ fast \in BOOLEAN
KeepTypes == /\ openTerms \subseteq Keys /\ layout \subseteq Keys /\ pins \subseteq Keys
             /\ gcMiss \in [Keys -> {"no", "since", "over"}]
ViewTypes == off \in BOOLEAN /\ ready \in BOOLEAN /\ slow \in BOOLEAN /\ epoch \in Nat /\ chains \subseteq Chain
AskTypes == launching \subseteq Keys /\ frames \subseteq Keys
CatchTypes == catch \in CatchRecord
HistTypes == swept \subseteq Keys /\ evidence \in [Keys -> 0 .. MissClose]

LEMMA TypesAre ==
    TypeOK <=> /\ WorldTypes /\ PollTypes /\ RunTypes /\ DeskTypes /\ ParkTypes
               /\ KeepTypes /\ ViewTypes /\ AskTypes /\ CatchTypes /\ HistTypes
  BY DEF TypeOK, WorldTypes, PollTypes, RunTypes, DeskTypes, ParkTypes, KeepTypes, ViewTypes,
         AskTypes, CatchTypes, HistTypes, PollRecord, FlightRecord, CatchRecord

LEMMA RecordsAre ==
    ASSUME HeartbeatAssumption
    PROVE  /\ NoPoll \in PollRecord /\ ~NoPoll.fresh /\ NoFlight \in FlightRecord
           /\ NoCatch \in CatchRecord /\ NoCatch.wait = NoRun
           /\ \A k \in Keys : HostOf[k] \in Hosts /\ k \in Of(HostOf[k])
           /\ \A h \in Hosts : Of(h) \subseteq Keys
           /\ MissClose \in Nat /\ MissClose > 0
  <1>1. (CHOOSE h \in Hosts : TRUE) \in Hosts BY DEF HeartbeatAssumption
  <1>2. NoCatch \in CatchRecord /\ NoCatch.wait = NoRun BY <1>1 DEF NoCatch, CatchRecord
  <1>3. NoPoll \in PollRecord /\ ~NoPoll.fresh BY DEF NoPoll, PollRecord
  <1>4. NoFlight \in FlightRecord BY DEF NoFlight, FlightRecord
  <1>5. /\ \A k \in Keys : HostOf[k] \in Hosts /\ k \in Of(HostOf[k])
        /\ \A h \in Hosts : Of(h) \subseteq Keys
        /\ MissClose \in Nat /\ MissClose > 0
    BY DEF HeartbeatAssumption, Of
  <1> QED BY <1>2, <1>3, <1>4, <1>5

-----------------------------------------------------------------------------
(* The inductive invariant. *)

\* A catch-up waits for the run that holds the mutex, so no retired run keeps it.
WaitsForOwner == catch.wait # NoRun => catch.wait = cur

\* What a window missed, the answers of its own host can show: one that has not
\* been counted yet is still to come on top.
Counted(k) ==
    /\ miss[k] < MissClose /\ miss[k] <= evidence[k]
    /\ poll[HostOf[k]].fresh /\ k \notin poll[HostOf[k]].list => miss[k] < evidence[k]
AnswersCounted ==
    /\ \A k \in Keys : Counted(k)
    /\ \A h \in Hosts : poll[h].fresh => poll[h].everOk

HeartInv ==
    /\ WorldTypes /\ PollTypes /\ RunTypes /\ DeskTypes /\ ParkTypes
    /\ KeepTypes /\ ViewTypes /\ AskTypes /\ CatchTypes /\ HistTypes
    /\ MutexIsOwned /\ WaitsForOwner /\ AnswersCounted

\* What a step leaves alone stays as it is.
LEMMA Kept ==
    ASSUME HeartInv
    PROVE  /\ UNCHANGED worldVars => WorldTypes'
           /\ UNCHANGED pollVars => PollTypes'
           /\ UNCHANGED runVars => RunTypes' /\ MutexIsOwned'
           /\ UNCHANGED deskVars => DeskTypes'
           /\ UNCHANGED parkVars => ParkTypes'
           /\ UNCHANGED keepVars => KeepTypes'
           /\ UNCHANGED viewVars => ViewTypes'
           /\ UNCHANGED askVars => AskTypes'
           /\ UNCHANGED catch => CatchTypes'
           /\ UNCHANGED histVars => HistTypes'
           /\ UNCHANGED <<catch, cur>> => WaitsForOwner'
           /\ UNCHANGED <<miss, poll, evidence>> => AnswersCounted'
  <1>1. UNCHANGED worldVars => WorldTypes' BY DEF HeartInv, worldVars, WorldTypes
  <1>2. UNCHANGED pollVars => PollTypes' BY DEF HeartInv, pollVars, PollTypes
  <1>3. UNCHANGED runVars => RunTypes' /\ MutexIsOwned'
    BY DEF HeartInv, runVars, RunTypes, MutexIsOwned
  <1>4. UNCHANGED deskVars => DeskTypes' BY DEF HeartInv, deskVars, DeskTypes
  <1>5. UNCHANGED parkVars => ParkTypes' BY DEF HeartInv, parkVars, ParkTypes
  <1>6. UNCHANGED keepVars => KeepTypes' BY DEF HeartInv, keepVars, KeepTypes
  <1>7. UNCHANGED viewVars => ViewTypes' BY DEF HeartInv, viewVars, ViewTypes
  <1>8. UNCHANGED askVars => AskTypes' BY DEF HeartInv, askVars, AskTypes
  <1>9. UNCHANGED catch => CatchTypes' BY DEF HeartInv, CatchTypes
  <1>10. UNCHANGED histVars => HistTypes' BY DEF HeartInv, histVars, HistTypes
  <1>11. UNCHANGED <<catch, cur>> => WaitsForOwner' BY DEF HeartInv, WaitsForOwner
  <1>12. UNCHANGED <<miss, poll, evidence>> => AnswersCounted'
    BY DEF HeartInv, AnswersCounted, Counted
  <1> QED BY <1>1, <1>2, <1>3, <1>4, <1>5, <1>6, <1>7, <1>8, <1>9, <1>10, <1>11, <1>12

LEMMA InitHeart == ASSUME HeartbeatAssumption, Init PROVE HeartInv
  <1>0. /\ NoPoll \in PollRecord /\ ~NoPoll.fresh /\ NoFlight \in FlightRecord
        /\ NoCatch \in CatchRecord /\ NoCatch.wait = NoRun
        /\ MissClose \in Nat /\ MissClose > 0 /\ \A k \in Keys : HostOf[k] \in Hosts
    BY RecordsAre
  <1>1. WorldTypes BY DEF Init, WorldTypes, HeartbeatAssumption
  <1>2. PollTypes BY <1>0 DEF Init, PollTypes
  <1>3. RunTypes /\ MutexIsOwned BY DEF Init, RunTypes, MutexIsOwned
  <1>4. DeskTypes BY <1>0 DEF Init, DeskTypes
  <1>5. ParkTypes BY DEF Init, ParkTypes
  <1>6. KeepTypes BY DEF Init, KeepTypes, HeartbeatAssumption
  <1>7. ViewTypes
    <2>1. [kind |-> "boot", step |-> "first", epoch |-> 1] \in Chain BY DEF Chain
    <2> QED BY <2>1 DEF Init, ViewTypes
  <1>8. AskTypes BY DEF Init, AskTypes
  <1>9. CatchTypes /\ WaitsForOwner BY <1>0 DEF Init, CatchTypes, WaitsForOwner
  <1>10. HistTypes BY <1>0 DEF Init, HistTypes
  <1>11. AnswersCounted BY <1>0 DEF Init, AnswersCounted, Counted
  <1> QED BY <1>1, <1>2, <1>3, <1>4, <1>5, <1>6, <1>7, <1>8, <1>9, <1>10, <1>11 DEF HeartInv

-----------------------------------------------------------------------------
(* Brokers, agents and polls. *)

LEMMA RestartKeeps ==
    ASSUME HeartbeatAssumption, HeartInv, NEW h \in Hosts, Restart(h) PROVE HeartInv'
  <1>1. WorldTypes' BY DEF HeartInv, WorldTypes, Restart
  <1>2. PollTypes'
    <2>1. flight[h] \in FlightRecord BY DEF HeartInv, PollTypes
    <2>2. [flight[h] EXCEPT !.st = "bad"] \in FlightRecord BY <2>1 DEF FlightRecord
    <2> QED BY <2>2 DEF HeartInv, PollTypes, Restart
  <1> QED BY <1>1, <1>2, Kept
          DEF HeartInv, Restart, runVars, deskVars, histVars

LEMMA AgentsKeep ==
    ASSUME HeartbeatAssumption, HeartInv, NEW k \in Keys, Registers(k) \/ Dies(k) PROVE HeartInv'
  <1>1. WorldTypes'
    <2>1. CASE Registers(k)
      <3>1. waited' \in [Hosts -> Nat] BY <2>1 DEF HeartInv, WorldTypes, Registers
      <3> QED BY <2>1, <3>1 DEF HeartInv, WorldTypes, Registers
    <2>2. CASE Dies(k) BY <2>2 DEF HeartInv, WorldTypes, Dies
    <2> QED BY <2>1, <2>2
  <1>2. /\ UNCHANGED <<pollVars, runVars, deskVars, parkVars, keepVars, viewVars>>
        /\ UNCHANGED <<askVars, catch, histVars>>
    BY DEF Registers, Dies
  <1> QED BY <1>1, <1>2, Kept DEF HeartInv, pollVars, runVars, deskVars, histVars

LEMMA HostsKeep ==
    ASSUME HeartbeatAssumption, HeartInv, NEW h \in Hosts, GoesAway(h) \/ ComesBack(h)
    PROVE  HeartInv'
  <1>1. WorldTypes' BY DEF HeartInv, WorldTypes, GoesAway, ComesBack
  <1>2. /\ UNCHANGED <<pollVars, runVars, deskVars, parkVars, keepVars, viewVars>>
        /\ UNCHANGED <<askVars, catch, histVars>>
    BY DEF GoesAway, ComesBack
  <1> QED BY <1>1, <1>2, Kept DEF HeartInv, pollVars, runVars, deskVars, histVars

LEMMA RequestsKeep ==
    ASSUME HeartbeatAssumption, HeartInv, NEW h \in Hosts, Served(h) \/ Breaks(h)
    PROVE  HeartInv'
  <1>1. PollTypes'
    <2>1. flight[h] \in FlightRecord BY DEF HeartInv, PollTypes
    <2>2. [flight[h] EXCEPT !.st = "bad"] \in FlightRecord BY <2>1 DEF FlightRecord
    <2>3. reg \cap Of(h) \in SUBSET Keys BY DEF HeartInv, WorldTypes
    <2>4. [st |-> "back", list |-> reg \cap Of(h)] \in FlightRecord BY <2>3 DEF FlightRecord
    <2> QED BY <2>2, <2>4 DEF HeartInv, PollTypes, Served, Breaks
  <1>2. /\ UNCHANGED <<worldVars, poll, runVars, deskVars, parkVars, keepVars, viewVars>>
        /\ UNCHANGED <<askVars, catch, histVars>>
    BY DEF Served, Breaks
  <1> QED BY <1>1, <1>2, Kept DEF HeartInv, runVars, deskVars, histVars

\* The catch-up's poll: what it waits for does not change.
LEMMA PolledIs ==
    ASSUME HeartInv, NEW h \in Hosts
    PROVE  Polled(h) \in CatchRecord /\ Polled(h).wait = catch.wait
  <1>1. catch \in CatchRecord BY DEF HeartInv, CatchTypes
  <1> QED BY <1>1 DEF Polled, CatchRecord

LEMMA EditKeeps ==
    ASSUME HeartbeatAssumption, HeartInv, NEW h \in Hosts, EditHost(h) PROVE HeartInv'
  <1>0. /\ NoPoll \in PollRecord /\ ~NoPoll.fresh /\ NoFlight \in FlightRecord
        /\ \A k \in Keys : HostOf[k] \in Hosts
    BY RecordsAre
  <1>1. PollTypes' BY <1>0 DEF HeartInv, PollTypes, EditHost
  <1>2. CatchTypes' /\ WaitsForOwner'
    <2>1. catch' = Polled(h) /\ cur' = cur BY DEF EditHost, runVars
    <2> QED BY <2>1, PolledIs DEF HeartInv, CatchTypes, WaitsForOwner
  <1>3. AnswersCounted'
    <2>1. /\ miss' = miss /\ evidence' = evidence /\ poll \in [Hosts -> PollRecord]
          /\ poll' = [poll EXCEPT ![h] = NoPoll]
      BY DEF EditHost, deskVars, histVars, HeartInv, PollTypes
    <2>2. \A g \in Hosts : poll'[g].fresh => poll'[g] = poll[g]
      BY <1>0, <2>1
    <2> QED BY <1>0, <2>1, <2>2 DEF HeartInv, AnswersCounted, Counted
  <1>4. /\ UNCHANGED <<worldVars, runVars, deskVars, parkVars, keepVars, viewVars>>
        /\ UNCHANGED <<askVars, histVars>>
    BY DEF EditHost
  <1> QED BY <1>1, <1>2, <1>3, <1>4, Kept DEF HeartInv

LEMMA LandsKeeps ==
    ASSUME HeartbeatAssumption, HeartInv, NEW h \in Hosts, PollLands(h) PROVE HeartInv'
  <1>0. /\ NoFlight \in FlightRecord /\ MissClose \in Nat
        /\ \A k \in Keys : HostOf[k] \in Hosts /\ k \in Of(HostOf[k])
    BY RecordsAre
  <1>1. /\ poll \in [Hosts -> PollRecord] /\ flight \in [Hosts -> FlightRecord]
        /\ poll[h] \in PollRecord /\ flight[h] \in FlightRecord
        /\ evidence \in [Keys -> 0 .. MissClose] /\ miss \in [Keys -> 0 .. MissClose]
    BY DEF HeartInv, PollTypes, HistTypes, DeskTypes
  <1> DEFINE bad == [poll[h] EXCEPT !.ok = FALSE]
             good == [poll[h] EXCEPT !.ok = TRUE, !.everOk = TRUE, !.fresh = TRUE,
                                     !.list = flight[h].list]
             more == [k \in Keys |-> IF k \in Of(h) \ flight[h].list /\ evidence[k] < MissClose
                                     THEN evidence[k] + 1 ELSE evidence[k]]
  <1>2. /\ bad \in PollRecord /\ bad.fresh = poll[h].fresh /\ bad.everOk = poll[h].everOk
        /\ bad.list = poll[h].list
    BY <1>1 DEF PollRecord
  <1>3. /\ good \in PollRecord /\ good.fresh /\ good.everOk /\ good.list = flight[h].list
    BY <1>1 DEF PollRecord, FlightRecord
  <1>4. more \in [Keys -> 0 .. MissClose] BY <1>0, <1>1
  <1>5. /\ flight' = [flight EXCEPT ![h] = NoFlight] /\ catch' = Polled(h)
        /\ cur' = cur /\ miss' = miss /\ swept' = swept
        /\ \/ poll' = [poll EXCEPT ![h] = bad] /\ evidence' = evidence
           \/ poll' = [poll EXCEPT ![h] = good] /\ evidence' = more
    BY <1>1 DEF PollLands, runVars, deskVars
  <1> HIDE DEF bad, good
  <1>6. PollTypes' BY <1>0, <1>1, <1>2, <1>3, <1>5 DEF PollTypes
  <1>7. CatchTypes' /\ WaitsForOwner'
    BY <1>5, PolledIs DEF HeartInv, CatchTypes, WaitsForOwner
  <1>8. HistTypes' BY <1>1, <1>4, <1>5 DEF HeartInv, HistTypes
  <1>9. AnswersCounted'
    <2>1. CASE poll' = [poll EXCEPT ![h] = bad] /\ evidence' = evidence
      <3>1. \A g \in Hosts : /\ poll'[g].fresh = poll[g].fresh /\ poll'[g].list = poll[g].list
                             /\ poll'[g].everOk = poll[g].everOk
        BY <1>1, <1>2, <2>1
      <3> QED BY <1>0, <1>5, <2>1, <3>1 DEF HeartInv, AnswersCounted, Counted
    <2>2. CASE poll' = [poll EXCEPT ![h] = good] /\ evidence' = more
      <3>1. \A g \in Hosts : poll'[g] = IF g = h THEN good ELSE poll[g]
        BY <1>1, <2>2
      <3>2. \A g \in Hosts : poll'[g].fresh => poll'[g].everOk
        BY <1>3, <3>1 DEF HeartInv, AnswersCounted
      <3>3. ASSUME NEW k \in Keys PROVE Counted(k)'
        <4>1. /\ Counted(k) /\ HostOf[k] \in Hosts /\ miss[k] \in Nat /\ evidence[k] \in Nat
              /\ evidence[k] <= MissClose
          BY <1>0, <1>1 DEF HeartInv, AnswersCounted
        <4>2. evidence'[k] = IF k \in Of(h) \ flight[h].list /\ evidence[k] < MissClose
                             THEN evidence[k] + 1 ELSE evidence[k]
          BY <2>2
        <4>3. CASE HostOf[k] = h
          <5>1. poll'[HostOf[k]].list = flight[h].list BY <1>3, <3>1, <4>1, <4>3
          <5>2. k \in Of(h) BY <1>0, <4>3
          <5> QED BY <1>0, <1>5, <4>1, <4>2, <5>1, <5>2 DEF Counted
        <4>4. CASE HostOf[k] # h
          <5>1. poll'[HostOf[k]] = poll[HostOf[k]] BY <3>1, <4>1, <4>4
          <5>2. evidence'[k] = evidence[k] BY <4>2, <4>4 DEF Of
          <5> QED BY <1>5, <4>1, <5>1, <5>2 DEF Counted
        <4> QED BY <4>3, <4>4
      <3> QED BY <3>2, <3>3 DEF AnswersCounted
    <2> QED BY <1>5, <2>1, <2>2
  <1>10. /\ UNCHANGED <<worldVars, runVars, deskVars, parkVars, keepVars, viewVars>>
         /\ UNCHANGED askVars
    BY DEF PollLands
  <1> QED BY <1>6, <1>7, <1>8, <1>9, <1>10, Kept DEF HeartInv

-----------------------------------------------------------------------------
(* Runs. *)

LEMMA RefreshDoes ==
    ASSUME HeartbeatAssumption, HeartInv, Refresh
    PROVE  /\ RunTypes' /\ MutexIsOwned' /\ flight' \in [Hosts -> FlightRecord]
           /\ cur # NoRun => cur' = cur
  <1>1. /\ run \in [Runs -> {"idle", "settle"}] /\ cur \in Runs \cup {NoRun} /\ inFlight \in BOOLEAN
        /\ flight \in [Hosts -> FlightRecord] /\ NoRun \notin Runs /\ MutexIsOwned
    BY DEF HeartInv, RunTypes, PollTypes, HeartbeatAssumption
  <1>2. CASE UNCHANGED <<runVars, flight>>
    BY <1>1, <1>2, Kept DEF runVars
  <1>3. ASSUME NEW r \in Runs, ~inFlight,
               run' = [run EXCEPT ![r] = "settle"], cur' = r, inFlight' = TRUE,
               flight' = [h \in Hosts |-> Asked(h)]
        PROVE  /\ RunTypes' /\ MutexIsOwned' /\ flight' \in [Hosts -> FlightRecord]
               /\ cur # NoRun => cur' = cur
    <2>1. RunTypes' BY <1>1, <1>3 DEF RunTypes
    <2>2. MutexIsOwned' BY <1>1, <1>3 DEF MutexIsOwned
    <2>3. \A h \in Hosts : Asked(h) \in FlightRecord
      BY <1>1, RecordsAre DEF Asked, FlightRecord
    <2>4. cur = NoRun BY <1>1, <1>3 DEF MutexIsOwned
    <2> QED BY <1>3, <2>1, <2>2, <2>3, <2>4
  <1> QED BY <1>2, <1>3 DEF Refresh

\* A step that refreshes, and leaves the catch-up and the counters to others.
LEMMA RefreshKeeps ==
    ASSUME HeartbeatAssumption, HeartInv, Refresh, catch' = catch,
           UNCHANGED <<poll, miss, evidence>>
    PROVE  RunTypes' /\ MutexIsOwned' /\ PollTypes' /\ WaitsForOwner' /\ AnswersCounted' /\ CatchTypes'
  <1>1. RunTypes' /\ MutexIsOwned' BY RefreshDoes
  <1>2. PollTypes' BY RefreshDoes DEF HeartInv, PollTypes
  <1>3. WaitsForOwner' BY RefreshDoes DEF HeartInv, WaitsForOwner
  <1>4. AnswersCounted' /\ CatchTypes' BY Kept
  <1> QED BY <1>1, <1>2, <1>3, <1>4

LEMMA TicksKeep ==
    ASSUME HeartbeatAssumption, HeartInv, SlowTick \/ FastTick PROVE HeartInv'
  <1>1. /\ Refresh /\ catch' = catch /\ UNCHANGED <<poll, miss, evidence>>
        /\ UNCHANGED <<deskVars, parkVars, keepVars, viewVars, askVars, histVars>>
    BY DEF SlowTick, FastTick, deskVars, histVars
  <1>2. WorldTypes'
    <2>1. CASE SlowTick
      <3>1. waited' \in [Hosts -> Nat] BY <2>1 DEF HeartInv, WorldTypes, SlowTick
      <3> QED BY <2>1, <3>1 DEF HeartInv, WorldTypes, SlowTick
    <2>2. CASE FastTick BY <2>2, Kept DEF FastTick
    <2> QED BY <2>1, <2>2
  <1> QED BY <1>1, <1>2, RefreshKeeps, Kept DEF HeartInv

LEMMA WatchdogKeeps ==
    ASSUME HeartbeatAssumption, HeartInv, Watchdog PROVE HeartInv'
  <1>1. /\ NoCatch \in CatchRecord /\ NoCatch.wait = NoRun BY RecordsAre
  <1>2. /\ cur' = NoRun /\ inFlight' = FALSE /\ run' = run
        /\ catch' = IF catch.wait = cur THEN NoCatch ELSE catch
    BY DEF Watchdog
  <1>3. RunTypes' /\ MutexIsOwned' BY <1>2 DEF HeartInv, RunTypes, MutexIsOwned
  <1>4. CatchTypes' /\ WaitsForOwner'
    BY <1>1, <1>2 DEF HeartInv, CatchTypes, WaitsForOwner
  <1>5. /\ UNCHANGED <<worldVars, pollVars, deskVars, parkVars, keepVars, viewVars>>
        /\ UNCHANGED <<askVars, histVars>> /\ UNCHANGED <<miss, poll, evidence>>
    BY DEF Watchdog, pollVars, deskVars, histVars
  <1> QED BY <1>3, <1>4, <1>5, Kept DEF HeartInv

\* What the sweep counts, of a window whose session no answer lists.
LEMMA MissesAre ==
    ASSUME HeartbeatAssumption, HeartInv, NEW k \in Keys
    PROVE  /\ Misses[k] \in 0 .. MissClose /\ Misses[k] <= evidence[k]
           /\ k \notin Disappeared => Misses[k] < MissClose
           /\ k \in Merged => Misses[k] = 0
  <1>1. /\ miss[k] \in Nat /\ evidence[k] \in 0 .. MissClose /\ MissClose \in Nat /\ MissClose > 0
        /\ HostOf[k] \in Hosts /\ Counted(k)
        /\ poll[HostOf[k]].fresh => poll[HostOf[k]].everOk
    BY RecordsAre DEF HeartInv, DeskTypes, HistTypes, AnswersCounted
  <1>2. Misses[k] = IF k \in Merged THEN 0 ELSE IF Missed(k) THEN miss[k] + 1 ELSE miss[k]
    BY DEF Misses
  <1>3. CASE k \in Merged BY <1>1, <1>2, <1>3
  <1>4. CASE k \notin Merged /\ Missed(k)
    <2>1. poll[HostOf[k]].fresh BY <1>4 DEF Missed
    <2>2. k \notin poll[HostOf[k]].list BY <1>1, <1>4, <2>1 DEF Merged
    <2>3. miss[k] < evidence[k] BY <1>1, <2>1, <2>2 DEF Counted
    <2>4. k \in (chips \cap win) \ Merged BY <1>4 DEF Missed
    <2> QED BY <1>1, <1>2, <1>4, <2>3, <2>4 DEF Disappeared
  <1>5. CASE k \notin Merged /\ ~Missed(k)
    BY <1>1, <1>2, <1>5 DEF Counted
  <1> QED BY <1>3, <1>4, <1>5

\* The windows a run closes have missed MissClose answers of their own host.
LEMMA DisappearedAre ==
    ASSUME HeartbeatAssumption, HeartInv, NEW k \in Disappeared
    PROVE  k \in Keys /\ k \notin Merged /\ evidence[k] >= MissClose
  <1>1. k \in Keys /\ k \notin Merged /\ Misses[k] >= MissClose
    BY DEF HeartInv, DeskTypes, Disappeared
  <1>2. evidence[k] \in Nat /\ MissClose \in Nat
    BY <1>1, RecordsAre DEF HeartInv, HistTypes
  <1> QED BY <1>1, <1>2, MissesAre

LEMMA MergedKnown ==
    ASSUME HeartbeatAssumption, HeartInv
    PROVE  Merged \subseteq Keys /\ Disappeared \subseteq Keys /\ Opened \subseteq Keys
           /\ GcDropped \subseteq Keys
  <1>1. \A h \in Hosts : poll[h].list \subseteq Keys BY DEF HeartInv, PollTypes, PollRecord
  <1> QED BY <1>1 DEF HeartInv, Merged, Disappeared, Opened, GcDropped, DeskTypes, ParkTypes

LEMMA AppliesTypes ==
    ASSUME HeartbeatAssumption, HeartInv, NEW r, Applies(r)
    PROVE  /\ poll' \in [Hosts -> PollRecord] /\ DeskTypes' /\ ParkTypes' /\ KeepTypes' /\ HistTypes'
  <1>1. /\ Merged \subseteq Keys /\ Disappeared \subseteq Keys /\ Opened \subseteq Keys
        /\ GcDropped \subseteq Keys
    BY MergedKnown
  <1>2. poll' \in [Hosts -> PollRecord]
    <2>1. \A h \in Hosts : poll[h] \in PollRecord BY DEF HeartInv, PollTypes
    <2>2. \A h \in Hosts : Swept1(h) \in BOOLEAN BY <2>1 DEF Swept1, PollRecord
    <2>3. \A h \in Hosts : [poll[h] EXCEPT !.fresh = FALSE, !.gcDone = @ \/ Swept1(h)] \in PollRecord
      BY <2>1, <2>2 DEF PollRecord
    <2> QED BY <2>3 DEF Applies
  <1>3. DeskTypes'
    <2>1. win' \subseteq Keys /\ chips' \subseteq Keys
      BY <1>1 DEF HeartInv, DeskTypes, Applies
    <2>2. \A k \in Keys : Misses[k] \in 0 .. MissClose BY MissesAre
    <2>3. miss' = [k \in Keys |-> IF k \in Disappeared \cup (Opened \ win) THEN 0 ELSE Misses[k]]
      BY DEF Applies
    <2>4. 0 \in 0 .. MissClose BY RecordsAre
    <2>5. miss' \in [Keys -> 0 .. MissClose] BY <2>2, <2>3, <2>4
    <2> QED BY <2>1, <2>5 DEF DeskTypes
  <1>4. ParkTypes' BY DEF HeartInv, ParkTypes, Applies
  <1>5. KeepTypes'
    <2>1. pins' \subseteq Keys BY DEF HeartInv, KeepTypes, Applies, PinsKept
    <2>2. layout' \subseteq Keys /\ openTerms' \subseteq Keys
      BY <1>1 DEF HeartInv, KeepTypes, Applies
    <2>3. gcMiss' \in [Keys -> {"no", "since", "over"}]
      BY DEF HeartInv, KeepTypes, Applies, GcMissed
    <2> QED BY <2>1, <2>2, <2>3 DEF KeepTypes
  <1>6. HistTypes'
    <2>1. swept' \subseteq Keys BY <1>1 DEF HeartInv, HistTypes, Applies
    <2>2. evidence' = [k \in Keys |-> IF k \in Merged THEN 0 ELSE evidence[k]]
      BY DEF Applies
    <2>3. 0 \in 0 .. MissClose /\ evidence \in [Keys -> 0 .. MissClose]
      BY RecordsAre DEF HeartInv, HistTypes
    <2>4. evidence' \in [Keys -> 0 .. MissClose] BY <2>2, <2>3
    <2> QED BY <2>1, <2>4 DEF HistTypes
  <1> QED BY <1>2, <1>3, <1>4, <1>5, <1>6

LEMMA AppliesCounts ==
    ASSUME HeartbeatAssumption, HeartInv, NEW r, Applies(r)
    PROVE  AnswersCounted'
  <1>1. \A h \in Hosts : ~poll'[h].fresh
    <2>1. \A h \in Hosts : poll[h] \in PollRecord BY DEF HeartInv, PollTypes
    <2> QED BY <2>1 DEF Applies, PollRecord
  <1>2. ASSUME NEW k \in Keys PROVE Counted(k)'
    <2>1. /\ Misses[k] \in 0 .. MissClose /\ Misses[k] <= evidence[k]
          /\ k \notin Disappeared => Misses[k] < MissClose
          /\ k \in Merged => Misses[k] = 0
      BY MissesAre
    <2>2. MissClose \in Nat /\ MissClose > 0 /\ HostOf[k] \in Hosts
          /\ evidence[k] \in Nat
      BY RecordsAre DEF HeartInv, HistTypes
    <2>3. /\ miss'[k] = IF k \in Disappeared \cup (Opened \ win) THEN 0 ELSE Misses[k]
          /\ evidence'[k] = IF k \in Merged THEN 0 ELSE evidence[k]
      BY DEF Applies
    <2>4. miss'[k] < MissClose /\ miss'[k] <= evidence'[k]
      BY <2>1, <2>2, <2>3
    <2> QED BY <1>1, <2>2, <2>4 DEF Counted
  <1> QED BY <1>1, <1>2 DEF AnswersCounted

LEMMA SettleKeeps ==
    ASSUME HeartbeatAssumption, HeartInv, NEW r \in Runs, SettleEnds(r) PROVE HeartInv'
  <1>1. /\ run \in [Runs -> {"idle", "settle"}] /\ cur \in Runs \cup {NoRun} /\ inFlight \in BOOLEAN
        /\ NoRun \notin Runs /\ MutexIsOwned /\ catch \in CatchRecord
    BY DEF HeartInv, RunTypes, CatchTypes, HeartbeatAssumption
  <1>2. /\ run' = [run EXCEPT ![r] = "idle"]
        /\ inFlight' = (inFlight /\ ~(cur = r)) /\ cur' = IF cur = r THEN NoRun ELSE cur
        /\ catch' = IF catch.wait = r THEN [catch EXCEPT !.wait = NoRun] ELSE catch
        /\ flight' = flight
    BY DEF SettleEnds, Releases, IsCurrent
  <1>3. RunTypes' BY <1>1, <1>2 DEF RunTypes
  <1>4. MutexIsOwned'
    <2>1. CASE cur = r BY <1>1, <1>2, <2>1 DEF MutexIsOwned
    <2>2. CASE cur # r
      <3>1. cur' = cur /\ (inFlight' <=> inFlight) BY <1>2, <2>2
      <3>2. cur # NoRun => run'[cur] = run[cur] BY <1>1, <1>2, <2>2
      <3> QED BY <1>1, <3>1, <3>2 DEF MutexIsOwned
    <2> QED BY <2>1, <2>2
  <1>5. CatchTypes' /\ WaitsForOwner'
    <2>1. [catch EXCEPT !.wait = NoRun] \in CatchRecord
          /\ [catch EXCEPT !.wait = NoRun].wait = NoRun
      BY <1>1 DEF CatchRecord
    <2> QED BY <1>1, <1>2, <2>1 DEF HeartInv, CatchTypes, WaitsForOwner
  <1>6. poll' \in [Hosts -> PollRecord] /\ DeskTypes' /\ ParkTypes' /\ KeepTypes' /\ HistTypes'
        /\ AnswersCounted'
    <2>1. CASE UNCHANGED <<poll, deskVars, parkVars, keepVars, swept, evidence>>
      <3>1. poll' \in [Hosts -> PollRecord] BY <2>1 DEF HeartInv, PollTypes
      <3> QED BY <2>1, <3>1, Kept DEF histVars, deskVars
    <2>2. CASE Applies(r) BY <2>2, AppliesTypes, AppliesCounts
    <2> QED BY <2>1, <2>2 DEF SettleEnds
  <1>7. PollTypes' BY <1>2, <1>6 DEF HeartInv, PollTypes
  <1>8. UNCHANGED <<worldVars, viewVars, askVars>> BY DEF SettleEnds
  <1> QED BY <1>3, <1>4, <1>5, <1>6, <1>7, <1>8, Kept DEF HeartInv

LEMMA ClocksKeep ==
    ASSUME HeartbeatAssumption, HeartInv, NEW k \in Keys, Expires(k) \/ GraceEnds(k)
    PROVE  HeartInv'
  <1>1. /\ UNCHANGED <<worldVars, pollVars, runVars, deskVars, viewVars>>
        /\ UNCHANGED <<askVars, catch, histVars>>
    BY DEF Expires, GraceEnds
  <1>2. ParkTypes' BY Kept DEF HeartInv, ParkTypes, Expires, GraceEnds, parkVars
  <1>3. KeepTypes' BY Kept DEF HeartInv, KeepTypes, Expires, GraceEnds, keepVars
  <1> QED BY <1>1, <1>2, <1>3, Kept DEF HeartInv, pollVars, runVars, deskVars, histVars

-----------------------------------------------------------------------------
(* The user, the launches and the frames. *)

LEMMA ClicksKeep ==
    ASSUME HeartbeatAssumption, HeartInv, NEW k \in Keys, ClickChip(k) \/ CloseWindow(k)
    PROVE  HeartInv'
  <1>1. /\ UNCHANGED <<worldVars, pollVars, runVars, chips, parkVars, viewVars, gcMiss, pins>>
        /\ UNCHANGED <<askVars, catch, histVars>>
    BY DEF ClickChip, CloseWindow
  <1>2. win' \subseteq Keys /\ openTerms' \subseteq Keys /\ layout' \subseteq Keys
    BY DEF HeartInv, DeskTypes, KeepTypes, ClickChip, CloseWindow, Open
  <1>3. miss' = [miss EXCEPT ![k] = 0] \/ miss' = miss
    BY DEF ClickChip, CloseWindow, Open
  <1>4. 0 \in 0 .. MissClose /\ MissClose \in Nat /\ MissClose > 0 BY RecordsAre
  <1>5. DeskTypes' BY <1>1, <1>2, <1>3, <1>4 DEF HeartInv, DeskTypes
  <1>6. KeepTypes' BY <1>1, <1>2 DEF HeartInv, KeepTypes
  <1>7. AnswersCounted'
    <2>1. CASE miss' = miss BY <1>1, <2>1, Kept DEF pollVars, histVars
    <2>2. CASE miss' = [miss EXCEPT ![k] = 0]
      <3>1. poll' = poll /\ evidence' = evidence /\ miss \in [Keys -> 0 .. MissClose]
            /\ evidence \in [Keys -> 0 .. MissClose]
        BY <1>1 DEF pollVars, histVars, HeartInv, DeskTypes, HistTypes
      <3>2. ASSUME NEW x \in Keys PROVE Counted(x)'
        <4>1. Counted(x) /\ miss[x] \in Nat /\ evidence[x] \in Nat
          BY <1>4, <3>1 DEF HeartInv, AnswersCounted
        <4>2. miss'[x] = IF x = k THEN 0 ELSE miss[x] BY <2>2, <3>1
        <4> QED BY <1>4, <3>1, <4>1, <4>2 DEF Counted
      <3> QED BY <3>1, <3>2 DEF HeartInv, AnswersCounted
    <2> QED BY <1>3, <2>1, <2>2
  <1> QED BY <1>1, <1>5, <1>6, <1>7, Kept DEF HeartInv, pollVars, runVars, histVars

LEMMA LaunchesKeep ==
    ASSUME HeartbeatAssumption, HeartInv, NEW k \in Keys, NEW mcp \in BOOLEAN, Launches(k, mcp)
    PROVE  HeartInv'
  <1>1. WorldTypes' BY DEF HeartInv, WorldTypes, Launches
  <1>2. AskTypes' BY DEF HeartInv, AskTypes, Launches
  <1>3. /\ UNCHANGED <<pollVars, runVars, deskVars, parkVars, keepVars, viewVars>>
        /\ UNCHANGED <<catch, histVars>>
    BY DEF Launches
  <1> QED BY <1>1, <1>2, <1>3, Kept DEF HeartInv, pollVars, runVars, deskVars, histVars

LEMMA AnswersKeep ==
    ASSUME HeartbeatAssumption, HeartInv, NEW k \in Keys, LaunchAnswered(k) PROVE HeartInv'
  <1>1. /\ Refresh /\ catch' = catch /\ UNCHANGED <<poll, miss, evidence>>
        /\ UNCHANGED <<worldVars, deskVars, keepVars, viewVars, histVars>>
    BY DEF LaunchAnswered, deskVars, histVars
  <1>2. ParkTypes' BY DEF HeartInv, ParkTypes, LaunchAnswered, Park
  <1>3. AskTypes' BY DEF HeartInv, AskTypes, LaunchAnswered
  <1> QED BY <1>1, <1>2, <1>3, RefreshKeeps, Kept DEF HeartInv

LEMMA FramesKeep ==
    ASSUME HeartbeatAssumption, HeartInv, NEW k \in Keys, FrameArrives(k) PROVE HeartInv'
  <1>1. /\ catch' = catch /\ UNCHANGED <<poll, miss, evidence>>
        /\ UNCHANGED <<worldVars, deskVars, keepVars, viewVars, histVars>>
    BY DEF FrameArrives, deskVars, histVars
  <1>2. AskTypes' BY DEF HeartInv, AskTypes, FrameArrives
  <1>3. CASE UNCHANGED <<parkVars, runVars, flight>>
    <2>1. UNCHANGED pollVars /\ UNCHANGED <<catch, cur>> BY <1>1, <1>3 DEF pollVars, runVars
    <2> QED BY <1>1, <1>2, <1>3, <2>1, Kept DEF HeartInv
  <1>4. CASE Refresh /\ seen' = seen \cup {k} /\ Park(k) /\ quiet' = quiet \cup {k} /\ UNCHANGED restoring
    <2>1. ParkTypes' BY <1>4 DEF HeartInv, ParkTypes, Park
    <2> QED BY <1>1, <1>2, <1>4, <2>1, RefreshKeeps, Kept DEF HeartInv
  <1> QED BY <1>3, <1>4 DEF FrameArrives

-----------------------------------------------------------------------------
(* The view and the lease. *)

LEMMA TeardownKeeps == ASSUME HeartbeatAssumption, HeartInv, Teardown PROVE HeartInv'
  <1>1. /\ UNCHANGED <<worldVars, pollVars, runVars, keepVars, askVars, histVars>>
        /\ UNCHANGED <<miss, poll, evidence>>
    BY DEF Teardown, pollVars, histVars
  <1>2. DeskTypes' BY DEF HeartInv, DeskTypes, Teardown
  <1>3. ParkTypes' BY DEF HeartInv, ParkTypes, Teardown
  <1>4. ViewTypes'
    <2>1. /\ off' = TRUE /\ ready' = FALSE /\ slow' = FALSE /\ epoch' = epoch + 1
          /\ chains' = chains
      BY DEF Teardown
    <2>2. epoch \in Nat /\ chains \subseteq Chain BY DEF HeartInv, ViewTypes
    <2>3. epoch' \in Nat /\ chains' \subseteq Chain BY <2>1, <2>2
    <2> QED BY <2>1, <2>3 DEF ViewTypes
  <1>5. CatchTypes' /\ WaitsForOwner'
    <2>1. catch \in CatchRecord /\ cur' = cur /\ catch' = [catch EXCEPT !.need = {}]
      BY DEF HeartInv, CatchTypes, Teardown, runVars
    <2>2. catch' \in CatchRecord /\ catch'.wait = catch.wait BY <2>1 DEF CatchRecord
    <2> QED BY <2>1, <2>2 DEF HeartInv, CatchTypes, WaitsForOwner
  <1> QED BY <1>1, <1>2, <1>3, <1>4, <1>5, Kept DEF HeartInv

LEMMA RebuildKeeps == ASSUME HeartbeatAssumption, HeartInv, Rebuild PROVE HeartInv'
  <1>1. /\ UNCHANGED <<worldVars, pollVars, runVars, deskVars, parkVars, keepVars>>
        /\ UNCHANGED <<askVars, catch, histVars>>
    BY DEF Rebuild
  <1>2. ViewTypes'
    <2>1. /\ epoch \in Nat /\ chains \subseteq Chain
          /\ ready \in BOOLEAN /\ slow \in BOOLEAN
      BY DEF HeartInv, ViewTypes
    <2>2. [kind |-> "rebuild", step |-> "first", epoch |-> epoch + 1] \in Chain
      BY <2>1 DEF Chain
    <2>3. /\ off' = FALSE /\ ready' = ready /\ slow' = slow /\ epoch' = epoch + 1
          /\ chains' = chains \cup {[kind |-> "rebuild", step |-> "first", epoch |-> epoch + 1]}
      BY DEF Rebuild
    <2>4. epoch' \in Nat /\ chains' \subseteq Chain BY <2>1, <2>2, <2>3
    <2> QED BY <2>1, <2>3, <2>4 DEF ViewTypes
  <1> QED BY <1>1, <1>2, Kept DEF HeartInv, pollVars, runVars, deskVars, histVars

LEMMA OtherKeeps ==
    ASSUME HeartbeatAssumption, HeartInv, NEW k \in Keys, OtherDevice(k) PROVE HeartInv'
  <1>1. WorldTypes' BY DEF HeartInv, WorldTypes, OtherDevice
  <1>2. KeepTypes' BY DEF HeartInv, KeepTypes, OtherDevice
  <1>3. /\ UNCHANGED <<pollVars, runVars, deskVars, parkVars, viewVars>>
        /\ UNCHANGED <<askVars, catch, histVars>>
    BY DEF OtherDevice
  <1> QED BY <1>1, <1>2, <1>3, Kept DEF HeartInv, pollVars, runVars, deskVars, histVars

LEMMA ChainsKeep ==
    ASSUME HeartbeatAssumption, HeartInv, NEW c \in chains, ChainStep(c) PROVE HeartInv'
  <1>1. /\ catch' = catch /\ UNCHANGED <<poll, miss, evidence>>
        /\ UNCHANGED <<worldVars, deskVars, keepVars, askVars, histVars>>
        /\ off' = off /\ epoch' = epoch
    BY DEF ChainStep, deskVars, histVars
  <1>2. c \in Chain /\ chains \subseteq Chain BY DEF HeartInv, ViewTypes
  <1>3. CASE UNCHANGED <<parkVars, slow, ready, runVars, flight>>
             /\ chains' \in {chains \ {c}, (chains \ {c}) \cup {[c EXCEPT !.step = "pull"]}}
    <2>1. [c EXCEPT !.step = "pull"] \in Chain BY <1>2 DEF Chain
    <2>2. ViewTypes' BY <1>1, <1>2, <1>3, <2>1 DEF HeartInv, ViewTypes
    <2>3. UNCHANGED pollVars /\ UNCHANGED <<catch, cur>> BY <1>1, <1>3 DEF pollVars, runVars
    <2> QED BY <1>1, <1>3, <2>2, <2>3, Kept DEF HeartInv
  <1>4. CASE chains' = chains \ {c} /\ Restores(c)
    <2>1. ViewTypes' BY <1>1, <1>2, <1>4 DEF HeartInv, ViewTypes, Restores
    <2>2. ParkTypes'
      <3>1. Seeds \subseteq Keys BY DEF HeartInv, KeepTypes, Seeds
      <3> QED BY <1>4, <3>1 DEF HeartInv, ParkTypes, Restores, SeedRestoreQueue
    <2>3. Refresh BY <1>4 DEF Restores
    <2> QED BY <1>1, <2>1, <2>2, <2>3, RefreshKeeps, Kept DEF HeartInv
  <1> QED BY <1>3, <1>4 DEF ChainStep

-----------------------------------------------------------------------------
(* The catch-up. *)

LEMMA CatchesKeep ==
    ASSUME HeartbeatAssumption, HeartInv,
           (\E h \in Hosts : CatchStart(h)) \/ CatchPolled \/ CatchRefresh \/ CatchDone
    PROVE  HeartInv'
  <1>0. /\ NoCatch \in CatchRecord /\ NoCatch.wait = NoRun /\ NoFlight \in FlightRecord
        /\ catch \in CatchRecord /\ poll \in [Hosts -> PollRecord] /\ flight \in [Hosts -> FlightRecord]
        /\ cur \in Runs \cup {NoRun}
    BY RecordsAre DEF HeartInv, CatchTypes, PollTypes, RunTypes
  <1>1. /\ UNCHANGED <<worldVars, deskVars, parkVars, keepVars, viewVars, askVars, histVars>>
        /\ UNCHANGED <<miss, poll, evidence>>
    BY DEF CatchStart, CatchPolled, CatchRefresh, CatchDone, pollVars, deskVars, histVars
  <1>2. WorldTypes' /\ DeskTypes' /\ ParkTypes' /\ KeepTypes' /\ ViewTypes' /\ AskTypes' /\ HistTypes'
        /\ AnswersCounted'
    BY <1>1, Kept
  <1>3. ASSUME NEW h \in Hosts, CatchStart(h) PROVE HeartInv'
    <2>1. catch' \in CatchRecord /\ catch'.wait = NoRun BY <1>3 DEF CatchStart, CatchRecord
    <2>2. Asked(h) \in FlightRecord BY <1>0 DEF Asked, FlightRecord
    <2>3. PollTypes' BY <1>0, <1>3, <2>2 DEF PollTypes, CatchStart
    <2>4. UNCHANGED runVars BY <1>3 DEF CatchStart
    <2> QED BY <1>2, <2>1, <2>3, <2>4, Kept DEF HeartInv, CatchTypes, WaitsForOwner
  <1>4. CASE CatchPolled
    <2>1. poll[catch.host].list \subseteq Keys BY <1>0 DEF CatchRecord, PollRecord
    <2>2. catch' \in CatchRecord /\ catch'.wait = cur
      BY <1>0, <1>4, <2>1 DEF CatchPolled, CatchRecord
    <2>3. UNCHANGED <<pollVars, runVars>> /\ cur' = cur BY <1>4 DEF CatchPolled, runVars
    <2> QED BY <1>2, <2>2, <2>3, Kept DEF HeartInv, CatchTypes, WaitsForOwner
  <1>5. CASE CatchRefresh
    <2>1. /\ RunTypes' /\ MutexIsOwned' /\ flight' \in [Hosts -> FlightRecord]
      BY <1>5, RefreshDoes DEF CatchRefresh
    <2>2. catch' \in CatchRecord /\ catch'.wait = cur'
      BY <1>0, <1>5, <2>1 DEF CatchRefresh, CatchRecord, RunTypes
    <2>3. PollTypes' BY <1>0, <1>1, <2>1 DEF PollTypes
    <2> QED BY <1>2, <2>1, <2>2, <2>3 DEF HeartInv, CatchTypes, WaitsForOwner
  <1>6. CASE CatchDone
    <2>1. catch' = NoCatch /\ UNCHANGED <<pollVars, runVars>> BY <1>6 DEF CatchDone
    <2> QED BY <1>0, <1>2, <2>1, Kept DEF HeartInv, CatchTypes, WaitsForOwner
  <1> QED BY <1>3, <1>4, <1>5, <1>6

-----------------------------------------------------------------------------
(* The theorems. *)

LEMMA HeartStep == ASSUME HeartbeatAssumption, HeartInv, [Next]_vars PROVE HeartInv'
  <1>1. CASE Outside
    BY <1>1, RestartKeeps, HostsKeep, EditKeeps, CatchesKeep, AgentsKeep, ClicksKeep, OtherKeeps,
       LaunchesKeep, WatchdogKeeps, TicksKeep, TeardownKeeps
       DEF Outside
  <1>2. CASE Page
    BY <1>2, HostsKeep, RequestsKeep, LandsKeeps, AgentsKeep, ClocksKeep, AnswersKeep, FramesKeep,
       SettleKeeps, TicksKeep, RebuildKeeps, ChainsKeep, CatchesKeep
       DEF Page
  <1>3. CASE UNCHANGED vars
    BY <1>3, Kept DEF HeartInv, vars, pollVars, runVars, deskVars, histVars
  <1> QED BY <1>1, <1>2, <1>3 DEF Next

\* The types; the mutex is owned by a run that is alive and a catch-up waits for
\* no other; what a window missed, answers of its own host show.
THEOREM HeartbeatInvariant == ASSUME HeartbeatAssumption PROVE Spec => []HeartInv
  <1>1. Init => HeartInv BY InitHeart
  <1>2. HeartInv /\ [Next]_vars => HeartInv' BY HeartStep
  <1> QED BY <1>1, <1>2, PTL DEF Spec

\* The variables of the heartbeat keep their types.
THEOREM HeartbeatTypeCorrect == ASSUME HeartbeatAssumption PROVE Spec => []TypeOK
  <1>1. HeartInv => TypeOK BY TypesAre DEF HeartInv
  <1> QED BY <1>1, HeartbeatInvariant, PTL

\* The mutex is held exactly while the run that owns the generation is alive, and a
\* run the watchdog retired never takes it from the next one (refreshTaskbar).
THEOREM MutexStaysOwned == ASSUME HeartbeatAssumption PROVE Spec => []MutexIsOwned
  <1>1. HeartInv => MutexIsOwned BY DEF HeartInv
  <1> QED BY <1>1, HeartbeatInvariant, PTL

\* Only the end of a run's wait closes windows.
LEMMA OthersSweepNothing ==
    /\ Outside => swept' = swept
    /\ Page => swept' = swept \/ \E r \in Runs : SettleEnds(r)
  <1> USE DEF histVars
  <1>1. ASSUME Outside PROVE swept' = swept
    BY <1>1 DEF Outside, Restart, GoesAway, EditHost, CatchStart, Dies, ClickChip, CloseWindow,
                OtherDevice, Launches, Watchdog, FastTick, Teardown
  <1>2. ASSUME Page, ~\E r \in Runs : SettleEnds(r) PROVE swept' = swept
    <2>1. ASSUME NEW h \in Hosts, ComesBack(h) \/ Served(h) \/ Breaks(h) \/ PollLands(h)
          PROVE  swept' = swept
      BY <2>1 DEF ComesBack, Served, Breaks, PollLands
    <2>2. ASSUME NEW k \in Keys, \/ Registers(k) \/ Expires(k) \/ GraceEnds(k)
                                 \/ LaunchAnswered(k) \/ FrameArrives(k)
          PROVE  swept' = swept
      BY <2>2 DEF Registers, Expires, GraceEnds, LaunchAnswered, FrameArrives
    <2>3. ASSUME \/ SlowTick \/ Rebuild \/ (\E c \in chains : ChainStep(c))
                 \/ CatchPolled \/ CatchRefresh \/ CatchDone
          PROVE  swept' = swept
      BY <2>3 DEF SlowTick, Rebuild, ChainStep, CatchPolled, CatchRefresh, CatchDone
    <2> QED BY <1>2, <2>1, <2>2, <2>3 DEF Page
  <1> QED BY <1>1, <1>2

\* A window is closed only over MissClose answers of its own host that left its
\* session out, in a row: none counted twice, none while the host was silent, none
\* of another host (the sweep of refreshTaskbarInner).
THEOREM SweptOverAnswers ==
    ASSUME HeartbeatAssumption
    PROVE  Spec => [][\A k \in swept' \ swept : evidence[k] >= MissClose]_vars
  <1>1. ASSUME HeartInv, NEW r \in Runs, SettleEnds(r), NEW k \in swept' \ swept
        PROVE  evidence[k] >= MissClose
    <2>1. Applies(r) BY <1>1 DEF SettleEnds
    <2>2. k \in Disappeared BY <1>1, <2>1 DEF Applies
    <2> QED BY <1>1, <2>2, DisappearedAre
  <1>2. ASSUME [Next]_vars, swept' # swept PROVE \E r \in Runs : SettleEnds(r)
    <2>1. ~Outside BY <1>2, OthersSweepNothing
    <2>2. ~UNCHANGED vars BY <1>2 DEF vars, histVars
    <2> QED BY <1>2, <2>1, <2>2, OthersSweepNothing DEF Next
  <1>3. ASSUME HeartInv, [Next]_vars
        PROVE  [\A k \in swept' \ swept : evidence[k] >= MissClose]_vars
    <2> SUFFICES ASSUME NEW k \in swept' \ swept PROVE evidence[k] >= MissClose
      OBVIOUS
    <2> QED BY <1>1, <1>2, <1>3
  <1> QED BY <1>3, HeartbeatInvariant, PTL DEF Spec
=============================================================================
