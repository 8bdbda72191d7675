---------------------------- MODULE SaveChainProofs ----------------------------
(***************************************************************************)
(* What SaveChain promises for every value of its constants: a write never *)
(* loses what another one stored, and what was stored without history is   *)
(* in no past revision.  Both rest on the broker's record and on what the  *)
(* requests under way know of it: of a chain's own state only its types    *)
(* are used, so no order of saves, timers, flushes and teardowns can       *)
(* disturb them.                                                           *)
(***************************************************************************)
EXTENDS SaveChain, TLAPS

-----------------------------------------------------------------------------
(* The types, and the inductive invariant.                                 *)

Tags == Saves \cup {-r : r \in 1 .. MaxRev}
Values == SUBSET Tags
Queues == Seq(Saves)
Chain == [queue : Queues, batch : Queues, timer : BOOLEAN, ready : BOOLEAN,
          sending : BOOLEAN, conflicted : BOOLEAN, dead : BOOLEAN,
          state : {"idle", "saving", "conflict"}, last : Outcomes \cup {"none"},
          sent : Nat, waiters : SUBSET [need : Nat, flush : Flushes],
          told : [Flushes -> Outcomes \cup {"unused", "pending"}],
          attempt : 0 .. Budget, mine : SUBSET Saves, opts : Options]
Replies == {NoReply} \cup [err : Outcomes, rev : Nat, value : Values, inlined : BOOLEAN]
Requests == [kind : {"none", "get", "put"}, base : Nat, next : Values, reply : Replies]
LatePuts == [chain : Chains, base : Nat, next : Values]
Past == [rev : Nat, value : Values]
Records == [rev : 0 .. MaxRev, value : Values, ring : Seq(Past), flagged : BOOLEAN]

ChainTypes == ch \in [Chains -> Chain]
WireTypes == wire \in [Chains -> Requests]
RecTypes == rec \in Records /\ Len(rec.ring) <= RingSize
RestTypes == strays \subseteq LatePuts /\ leased \in BOOLEAN /\ secret \subseteq Nat

\* A chain sends exactly while it has a batch, and what ended badly has said how.
Good(k) == /\ k.sending <=> k.batch # <<>>
           /\ k.conflicted => k.last # "none"
ChainsGood == \A c \in Chains : Good(ch[c])
\* One request per chain that sends, and none otherwise.
InFlight == \A c \in Chains : ch[c].sending <=> wire[c].kind # "none"

\* What is said of revision r is no news from the future, and if the record still
\* is that revision, v holds all of it.
Extends(v, r) == r <= rec.rev /\ (r = rec.rev => rec.value \subseteq v)

\* A PUT under way, of a chain or late, holds all that it may replace; so does what
\* a chain has been answered, which its next PUT is composed on.
PutsExtend == \A c \in Chains : wire[c].kind = "put" => Extends(wire[c].next, wire[c].base)
RepliesExtend ==
    \A c \in Chains : wire[c].reply # NoReply =>
                          Extends(wire[c].reply.value, wire[c].reply.rev)
StraysExtend == \A m \in strays : Extends(m.next, m.base)

\* The current revision is one without history only while the record is marked.
SecretsMarked ==
    /\ \A r \in secret : r <= rec.rev
    /\ rec.rev \in secret => rec.flagged

TypeInv == ChainTypes /\ WireTypes /\ RecTypes /\ RestTypes
StoreInv ==
    /\ TypeInv /\ ChainsGood /\ InFlight
    /\ PutsExtend /\ RepliesExtend /\ StraysExtend
    /\ SecretsMarked /\ SecretsStayOutOfTheRing

-----------------------------------------------------------------------------
(* The chain's helpers.                                                    *)

Alike(p, k) == /\ p.sending = k.sending /\ p.batch = k.batch /\ p.queue \in {k.queue, <<>>}
               /\ p.conflicted = k.conflicted /\ p.last = k.last /\ p.attempt = k.attempt

LEMMA EmptyQueue == <<>> \in Queues
  BY DEF Queues

LEMMA SettleType ==
    ASSUME NEW k \in Chain, NEW res \in Outcomes, NEW all \in BOOLEAN
    PROVE  Settle(k, res, all) \in Chain /\ Alike(Settle(k, res, all), k)
  <1> DEFINE due == {w \in k.waiters : all \/ k.sent >= w.need}
             told == [f \in Flushes |-> IF \E w \in due : w.flush = f THEN res ELSE k.told[f]]
             rest == k.waiters \ due
  <1>1. told \in [Flushes -> Outcomes \cup {"unused", "pending"}] BY DEF Chain
  <1>2. rest \in SUBSET [need : Nat, flush : Flushes] BY DEF Chain
  <1>3. Settle(k, res, all) = [k EXCEPT !.waiters = rest, !.told = told] BY DEF Settle
  <1> HIDE DEF told, rest, due
  <1>4. Settle(k, res, all) \in Chain BY <1>1, <1>2, <1>3 DEF Chain
  <1>5. Alike(Settle(k, res, all), k) BY <1>3 DEF Chain, Alike
  <1> QED BY <1>4, <1>5

LEMMA DieType ==
    ASSUME NEW k \in Chain
    PROVE  Die(k) \in Chain /\ Alike(Die(k), k)
  <1> DEFINE d == [k EXCEPT !.dead = TRUE, !.timer = FALSE, !.queue = <<>>, !.ready = FALSE]
  <1>1. d \in Chain /\ Alike(d, k) BY EmptyQueue DEF Chain, Alike
  <1>2. Die(k) = Settle(d, "unloaded", TRUE) BY DEF Die
  <1>3. "unloaded" \in Outcomes BY DEF Outcomes
  <1> HIDE DEF d
  <1>4. Die(k) \in Chain /\ Alike(Die(k), d) BY <1>1, <1>2, <1>3, SettleType
  <1> QED BY <1>1, <1>4 DEF Alike

LEMMA RefreshType ==
    ASSUME NEW k \in Chain
    PROVE  Refresh(k) \in Chain /\ Alike(Refresh(k), k)
  BY DEF Refresh, Chain, Alike

LEMMA PumpType ==
    ASSUME ChainAssumption, NEW k \in Chain, Good(k), NEW p \in Pump(k)
    PROVE  p \in Chain /\ Good(p) /\ (k.sending => p.sending)
  <1>1. CASE k.dead
    <2> DEFINE q == [k EXCEPT !.queue = <<>>, !.ready = FALSE]
    <2>1. q \in Chain /\ Alike(q, k) BY EmptyQueue DEF Chain, Alike
    <2>2. p = Settle(q, "unloaded", TRUE) BY <1>1 DEF Pump
    <2>3. "unloaded" \in Outcomes BY DEF Outcomes
    <2> HIDE DEF q
    <2>4. p \in Chain /\ Alike(p, q) BY <2>1, <2>2, <2>3, SettleType
    <2> QED BY <2>1, <2>4 DEF Alike, Good
  <1>2. CASE ~k.dead /\ k.sending BY <1>2 DEF Pump
  <1>3. CASE ~k.dead /\ ~k.sending /\ k.queue = <<>>
    <2> DEFINE q == [k EXCEPT !.ready = FALSE]
    <2>1. p = q BY <1>3 DEF Pump
    <2>2. /\ q \in Chain /\ q.sending = k.sending /\ q.batch = k.batch
          /\ q.conflicted = k.conflicted /\ q.last = k.last
      BY DEF Chain
    <2> HIDE DEF q
    <2> QED BY <2>1, <2>2 DEF Good
  <1>4. CASE ~k.dead /\ ~k.sending /\ k.queue # <<>> /\ ~k.ready BY <1>4 DEF Pump
  <1>5. CASE ~k.dead /\ ~k.sending /\ k.queue # <<>> /\ k.ready
    <2> DEFINE b == [k EXCEPT !.batch = k.queue, !.queue = <<>>, !.ready = FALSE, !.timer = FALSE,
                              !.sending = TRUE, !.attempt = 0]
               s == Refresh(b)
               killed == [Die(s) EXCEPT !.sending = FALSE, !.batch = <<>>]
    <2>0. b \in Chain
      <3> DEFINE b1 == [k EXCEPT !.batch = k.queue, !.queue = <<>>]
      <3>1. b1 \in Chain BY EmptyQueue DEF Chain
      <3>2. b = [b1 EXCEPT !.ready = FALSE, !.timer = FALSE, !.sending = TRUE, !.attempt = 0]
        BY DEF Chain
      <3>3. 0 \in 0 .. Budget BY DEF ChainAssumption
      <3> HIDE DEF b1
      <3> QED BY <3>1, <3>2, <3>3 DEF Chain
    <2>1. /\ b.sending /\ b.batch # <<>>
          /\ b.conflicted = k.conflicted /\ b.last = k.last
      BY <1>5 DEF Chain
    <2>2. p = s \/ p = killed BY <1>5 DEF Pump
    <2> HIDE DEF b
    <2>3. s \in Chain /\ Alike(s, b) BY <2>0, RefreshType
    <2> HIDE DEF s
    <2>4. Die(s) \in Chain /\ Alike(Die(s), s) BY <2>3, DieType
    <2>5. killed \in Chain /\ ~killed.sending /\ killed.batch = <<>>
          /\ killed.conflicted = Die(s).conflicted /\ killed.last = Die(s).last
      BY <2>4, EmptyQueue DEF Chain
    <2> HIDE DEF killed
    <2>6. CASE p = s BY <2>6, <2>1, <2>3 DEF Alike, Good
    <2>7. CASE p = killed BY <2>7, <1>5, <2>1, <2>3, <2>4, <2>5 DEF Alike, Good
    <2> QED BY <2>2, <2>6, <2>7
  <1> QED BY <1>1, <1>2, <1>3, <1>4, <1>5

LEMMA FinishType ==
    ASSUME ChainAssumption, NEW k \in Chain, NEW res \in Outcomes, NEW p \in Finish(k, res)
    PROVE  p \in Chain /\ Good(p)
  <1> DEFINE bad == res \in {"conflict", "not_active"}
             done == [k EXCEPT !.sent = @ + 1, !.last = res, !.sending = FALSE, !.batch = <<>>,
                               !.conflicted = bad]
  <1>1. done \in Chain /\ Good(done)
    <2>1. bad \in BOOLEAN OBVIOUS
    <2> HIDE DEF bad
    <2>2. done \in Chain
      <3> DEFINE d == [k EXCEPT !.sent = @ + 1, !.last = res]
      <3>1. d \in Chain
        <4>1. k.sent + 1 \in Nat BY DEF Chain
        <4>2. d = [k EXCEPT !.sent = k.sent + 1, !.last = res] OBVIOUS
        <4> HIDE DEF d
        <4> QED BY <4>1, <4>2 DEF Chain
      <3>2. done = [d EXCEPT !.sending = FALSE, !.batch = <<>>, !.conflicted = bad] BY DEF Chain
      <3> HIDE DEF d
      <3> QED BY <2>1, <3>1, <3>2, EmptyQueue DEF Chain
    <2>3. ~done.sending /\ done.batch = <<>> /\ done.last # "none" BY DEF Chain, Outcomes
    <2> QED BY <2>2, <2>3 DEF Good
  <1>2. \/ p = Settle(done, "unloaded", TRUE)
        \/ \E q \in Pump(Settle(done, res, FALSE)) : p = Refresh(q)
    BY DEF Finish
  <1> HIDE DEF done
  <1>3. "unloaded" \in Outcomes BY DEF Outcomes
  <1>4. CASE p = Settle(done, "unloaded", TRUE)
    <2>1. p \in Chain /\ Alike(p, done) BY <1>1, <1>3, <1>4, SettleType
    <2> QED BY <1>1, <2>1 DEF Alike, Good
  <1>5. CASE \E q \in Pump(Settle(done, res, FALSE)) : p = Refresh(q)
    <2>1. Settle(done, res, FALSE) \in Chain /\ Good(Settle(done, res, FALSE))
      <3>1. Settle(done, res, FALSE) \in Chain /\ Alike(Settle(done, res, FALSE), done)
        BY <1>1, SettleType
      <3> QED BY <1>1, <3>1 DEF Alike, Good
    <2>2. PICK q \in Pump(Settle(done, res, FALSE)) : p = Refresh(q) BY <1>5
    <2>3. q \in Chain /\ Good(q) BY <2>1, <2>2, PumpType
    <2> QED BY <2>2, <2>3, RefreshType DEF Alike, Good
  <1> QED BY <1>2, <1>4, <1>5

LEMMA TellType ==
    ASSUME NEW k \in Chain, Good(k), NEW f \in Flushes, NEW res \in Outcomes \cup {"pending"}
    PROVE  Tell(k, f, res) \in Chain /\ Good(Tell(k, f, res)) /\ Tell(k, f, res).sending = k.sending
  <1> DEFINE t == [k.told EXCEPT ![f] = res]
  <1>1. t \in [Flushes -> Outcomes \cup {"unused", "pending"}] BY DEF Chain
  <1>2. Tell(k, f, res) = [k EXCEPT !.told = t] BY DEF Tell
  <1> HIDE DEF t
  <1> QED BY <1>1, <1>2 DEF Chain, Good

LEMMA AtRestType ==
    ASSUME NEW k \in Chain, Good(k), NEW f \in Flushes
    PROVE  AtRest(k, f) \in Chain /\ Good(AtRest(k, f)) /\ AtRest(k, f).sending = k.sending
  <1> DEFINE q == [k EXCEPT !.timer = FALSE]
             res == IF k.conflicted THEN k.last ELSE "idle"
  <1>1. q \in Chain /\ Good(q) /\ q.sending = k.sending BY DEF Chain, Good
  <1>2. res \in Outcomes BY DEF Chain, Good, Outcomes
  <1>3. AtRest(k, f) = Tell(q, f, res) BY DEF AtRest
  <1> HIDE DEF q, res
  <1> QED BY <1>1, <1>2, <1>3, TellType

LEMMA WaitingType ==
    ASSUME NEW k \in Chain, Good(k), NEW f \in Flushes
    PROVE  Waiting(k, f) \in Chain /\ Good(Waiting(k, f)) /\ Waiting(k, f).sending = k.sending
  <1> DEFINE q == Tell(k, f, "pending")
             ws == q.waiters \cup {[need |-> Barrier(k), flush |-> f]}
  <1>1. q \in Chain /\ Good(q) /\ q.sending = k.sending BY TellType
  <1>2. Barrier(k) \in Nat BY DEF Barrier, Chain
  <1>3. Waiting(k, f) = [q EXCEPT !.ready = TRUE, !.waiters = ws] BY DEF Waiting
  <1> HIDE DEF q
  <1>4. ws \in SUBSET [need : Nat, flush : Flushes] BY <1>1, <1>2 DEF Chain
  <1> HIDE DEF ws
  <1>5. Waiting(k, f) \in Chain BY <1>1, <1>3, <1>4 DEF Chain
  <1>6. /\ Waiting(k, f).sending = q.sending /\ Waiting(k, f).batch = q.batch
        /\ Waiting(k, f).conflicted = q.conflicted /\ Waiting(k, f).last = q.last
    BY <1>1, <1>3 DEF Chain
  <1> QED BY <1>1, <1>5, <1>6 DEF Good

-----------------------------------------------------------------------------
(* The broker.                                                             *)

LEMMA RequestTypes ==
    /\ GetRequest \in Requests /\ Quiet \in Requests
    /\ GetRequest.kind = "get" /\ GetRequest.reply = NoReply
    /\ Quiet.kind = "none" /\ Quiet.reply = NoReply
  BY DEF GetRequest, Quiet, Requests, Replies, Values

\* What a landing PUT makes of the record.
LEMMA PutStep ==
    ASSUME ChainAssumption, TypeInv, SecretsMarked, SecretsStayOutOfTheRing,
           NEW v \in Values, NEW b \in Nat, NEW o \in Options, NEW w \in BOOLEAN, NEW f \in BOOLEAN,
           Extends(v, b), Put(v, b, o, w, f)
    PROVE  /\ RecTypes' /\ (secret \subseteq Nat)'
           /\ SecretsMarked' /\ SecretsStayOutOfTheRing'
           /\ rec.value \subseteq rec'.value
           /\ rec' = rec \/ rec'.rev = rec.rev + 1
  <1> DEFINE lands == /\ w /\ b = rec.rev /\ ~Locked(o) /\ ~Dedupes(v, o) /\ ~f
             keep == KeepFlag(rec.flagged, o)
             pushed == IF rec.rev = 0 THEN rec.ring
                       ELSE <<[rev |-> rec.rev, value |-> rec.value]>> \o rec.ring
             n == IF Len(pushed) < RingSize THEN Len(pushed) ELSE RingSize
             ring == IF o.purge \/ keep THEN <<>> ELSE SubSeq(pushed, 1, n)
  <1>1. /\ lands => rec.rev < MaxRev
        /\ rec' = IF lands THEN Written(v, o) ELSE rec
        /\ secret' = IF lands /\ keep THEN secret \cup {rec.rev + 1} ELSE secret
    BY DEF Put
  <1>2. /\ rec \in Records /\ rec.rev \in 0 .. MaxRev /\ rec.value \in Values
        /\ rec.ring \in Seq(Past) /\ rec.flagged \in BOOLEAN /\ Len(rec.ring) <= RingSize
        /\ secret \subseteq Nat /\ RingSize \in Nat /\ MaxRev \in Nat
    BY DEF TypeInv, RecTypes, RestTypes, Records, ChainAssumption
  <1>3. CASE ~lands
    <2>1. rec' = rec /\ secret' = secret BY <1>1, <1>3
    <2> QED BY <2>1, <1>2 DEF TypeInv, RecTypes, SecretsMarked, SecretsStayOutOfTheRing
  <1>4. CASE lands
    <2>1. rec' = [rev |-> rec.rev + 1, value |-> v, flagged |-> keep, ring |-> ring]
      BY <1>1, <1>4 DEF Written
    <2>2. keep \in BOOLEAN BY <1>2 DEF KeepFlag
    <2>3. [rev |-> rec.rev, value |-> rec.value] \in Past BY <1>2 DEF Past
    <2>4. pushed \in Seq(Past) BY <1>2, <2>3
    <2>5. n \in Nat /\ n <= Len(pushed) /\ n <= RingSize BY <1>2, <2>4
    <2>6. ring \in Seq(Past) /\ Len(ring) <= RingSize
      <3>1. CASE o.purge \/ keep BY <3>1, <1>2
      <3>2. CASE ~(o.purge \/ keep) BY <3>2, <2>4, <2>5
      <3> QED BY <3>1, <3>2
    <2>7. keep => ring = <<>> OBVIOUS
    <2>8. rec.rev \in secret /\ ~keep => o.purge
      BY <1>4 DEF Locked, KeepFlag, SecretsMarked, Options
    <2>9. ASSUME NEW i \in DOMAIN ring, ~keep
          PROVE  ring[i].rev \notin secret
      <3>1. ~o.purge BY <2>9
      <3>2. ring = SubSeq(pushed, 1, n) BY <2>9, <3>1
      <3>3. i \in 1 .. n /\ ring[i] = pushed[i] /\ i <= Len(pushed)
        <4> HIDE DEF pushed, n
        <4> QED BY <2>4, <2>5, <3>2, <2>9
      <3>4. rec.rev \notin secret BY <2>8, <2>9
      <3>5. CASE rec.rev = 0
        BY <3>3, <3>5, <1>2 DEF SecretsStayOutOfTheRing
      <3>6. CASE rec.rev # 0 /\ i = 1
        BY <3>3, <3>4, <3>6, <1>2
      <3>7. CASE rec.rev # 0 /\ i # 1
        <4>1. pushed[i] = rec.ring[i - 1] /\ i - 1 \in 1 .. Len(rec.ring)
          BY <3>3, <3>7, <1>2
        <4> QED BY <3>3, <4>1, <1>2 DEF SecretsStayOutOfTheRing
      <3> QED BY <3>5, <3>6, <3>7
    <2> HIDE DEF ring, keep, n, pushed
    <2>10. /\ rec'.rev = rec.rev + 1 /\ rec'.value = v /\ rec'.flagged = keep /\ rec'.ring = ring
      BY <2>1
    <2>11. RecTypes'
      BY <2>1, <2>2, <2>6, <1>1, <1>2, <1>4 DEF RecTypes, Records
    <2>12. secret' = IF keep THEN secret \cup {rec.rev + 1} ELSE secret BY <1>1, <1>4
    <2>13. (secret \subseteq Nat)'
      <3>1. rec.rev + 1 \in Nat BY <1>2
      <3> QED BY <2>12, <3>1, <1>2
    <2>14. SecretsMarked' BY <2>10, <2>12, <1>2 DEF SecretsMarked
    <2>15. SecretsStayOutOfTheRing'
      <3>1. CASE keep BY <3>1, <2>7, <2>10 DEF SecretsStayOutOfTheRing
      <3>2. CASE ~keep BY <3>2, <2>2, <2>9, <2>10, <2>12 DEF SecretsStayOutOfTheRing
      <3> QED BY <3>1, <3>2
    <2>16. rec.value \subseteq rec'.value BY <1>4, <2>10 DEF Extends
    <2> QED BY <2>10, <2>11, <2>13, <2>14, <2>15, <2>16
  <1> QED BY <1>3, <1>4

\* A newer record makes old news of what was said of the one before.
LEMMA NewsAges ==
    ASSUME ChainAssumption, TypeInv, rec' = rec \/ rec'.rev = rec.rev + 1
    PROVE  \A v : \A r \in Nat :
               Extends(v, r) => r <= rec'.rev /\ (r = rec'.rev => rec'.value \subseteq v)
  <1>1. rec.rev \in Nat BY DEF TypeInv, RecTypes, Records, ChainAssumption
  <1> QED BY <1>1 DEF Extends

LEMMA AnswerType ==
    ASSUME ChainAssumption, TypeInv, NEW err \in Outcomes, NEW inlined \in BOOLEAN
    PROVE  /\ Answer(err, inlined) \in Replies /\ Answer(err, inlined) # NoReply
           /\ Answer(err, inlined).err = err
           /\ Answer(err, inlined).rev = rec.rev /\ Answer(err, inlined).value = rec.value
  <1>1. rec.rev \in Nat /\ rec.value \in Values
    BY DEF TypeInv, RecTypes, Records, ChainAssumption
  <1>2. err # "none" BY DEF Outcomes
  <1> QED BY <1>1, <1>2 DEF Answer, Replies, NoReply

LEMMA PutAnswerType ==
    ASSUME ChainAssumption, TypeInv, NEW v, NEW b, NEW o, NEW w \in BOOLEAN, NEW f \in BOOLEAN,
           NEW inl \in BOOLEAN
    PROVE  LET a == PutAnswer(v, b, o, w, f, inl)
           IN  a \in Replies /\ a # NoReply /\ a.rev = rec.rev /\ a.value = rec.value
  <1>1. {"not_active", "conflict", "noHistory_locked", "ok", "failed"} \subseteq Outcomes
    BY DEF Outcomes
  <1>2. \E err \in Outcomes, i \in BOOLEAN : PutAnswer(v, b, o, w, f, inl) = Answer(err, i)
    BY <1>1 DEF PutAnswer
  <1> QED BY <1>2, AnswerType

-----------------------------------------------------------------------------
(* The chains, while the broker's record rests.                            *)

\* One chain and its request change; the record, the lease and the secrets do not.
LEMMA OneChain ==
    ASSUME ChainAssumption, StoreInv, NEW c \in Chains, NEW k \in Chain, NEW q \in Requests,
           Good(k), k.sending <=> q.kind # "none",
           q.kind = "put" => Extends(q.next, q.base),
           q.reply # NoReply => Extends(q.reply.value, q.reply.rev),
           ch' = [ch EXCEPT ![c] = k], wire' = [wire EXCEPT ![c] = q],
           UNCHANGED <<rec, leased, secret>>,
           strays' \subseteq LatePuts, \A m \in strays' : Extends(m.next, m.base)
    PROVE  StoreInv'
  <1>1. ch \in [Chains -> Chain] /\ wire \in [Chains -> Requests]
    BY DEF StoreInv, TypeInv, ChainTypes, WireTypes
  <1>2. ch' \in [Chains -> Chain] /\ wire' \in [Chains -> Requests]
    BY <1>1
  <1>3. \A d \in Chains : /\ ch'[d] = IF d = c THEN k ELSE ch[d]
                          /\ wire'[d] = IF d = c THEN q ELSE wire[d]
    BY <1>1
  <1>4. TypeInv' BY <1>2 DEF StoreInv, TypeInv, ChainTypes, WireTypes, RecTypes, RestTypes
  <1>5. ChainsGood' BY <1>3 DEF StoreInv, ChainsGood, Good
  <1>6. InFlight' BY <1>3 DEF StoreInv, InFlight
  <1>7. PutsExtend' BY <1>3 DEF StoreInv, PutsExtend, Extends
  <1>8. RepliesExtend' BY <1>3 DEF StoreInv, RepliesExtend, Extends
  <1>9. StraysExtend' BY DEF StraysExtend, Extends
  <1>10. SecretsMarked' /\ SecretsStayOutOfTheRing'
    BY DEF StoreInv, SecretsMarked, SecretsStayOutOfTheRing
  <1> QED BY <1>4, <1>5, <1>6, <1>7, <1>8, <1>9, <1>10 DEF StoreInv

\* What the invariant says of one chain and its request.
LEMMA ChainFacts ==
    ASSUME ChainAssumption, StoreInv, NEW c \in Chains
    PROVE  /\ ch[c] \in Chain /\ Good(ch[c]) /\ wire[c] \in Requests
           /\ ch[c].sending <=> wire[c].kind # "none"
           /\ wire[c].kind = "put" => Extends(wire[c].next, wire[c].base)
           /\ wire[c].reply # NoReply => Extends(wire[c].reply.value, wire[c].reply.rev)
           /\ strays \subseteq LatePuts /\ \A m \in strays : Extends(m.next, m.base)
           /\ ch = [ch EXCEPT ![c] = ch[c]] /\ wire = [wire EXCEPT ![c] = wire[c]]
  <1>1. ch \in [Chains -> Chain] /\ wire \in [Chains -> Requests]
    BY DEF StoreInv, TypeInv, ChainTypes, WireTypes
  <1> QED BY <1>1 DEF StoreInv, TypeInv, RestTypes, ChainsGood, InFlight, PutsExtend, RepliesExtend,
                      StraysExtend

\* Only the chain's own closure changes.
LEMMA ClosureStep ==
    ASSUME ChainAssumption, StoreInv, NEW c \in Chains, NEW k \in Chain, Good(k),
           k.sending = ch[c].sending, ch' = [ch EXCEPT ![c] = k],
           UNCHANGED <<wire, strays, rec, leased, secret>>
    PROVE  StoreInv'
  <1>1. wire' = [wire EXCEPT ![c] = wire[c]] BY ChainFacts
  <1>2. wire[c] \in Requests /\ (k.sending <=> wire[c].kind # "none") BY ChainFacts
  <1>3. /\ wire[c].kind = "put" => Extends(wire[c].next, wire[c].base)
        /\ wire[c].reply # NoReply => Extends(wire[c].reply.value, wire[c].reply.rev)
        /\ strays' \subseteq LatePuts /\ \A m \in strays' : Extends(m.next, m.base)
    BY ChainFacts
  <1> QED BY <1>1, <1>2, <1>3, OneChain

\* A chain goes on to its next batch, or rests.
LEMMA BecomeStep ==
    ASSUME ChainAssumption, StoreInv, NEW c \in Chains, NEW k \in Chain, Good(k), Become(c, k),
           UNCHANGED <<rec, leased, secret>>,
           strays' \subseteq LatePuts, \A m \in strays' : Extends(m.next, m.base)
    PROVE  StoreInv'
  <1> DEFINE q == IF k.sending /\ k.batch # <<>> THEN GetRequest ELSE Quiet
  <1>1. ch' = [ch EXCEPT ![c] = k] /\ wire' = [wire EXCEPT ![c] = q] BY DEF Become
  <1>2. /\ q \in Requests /\ (k.sending <=> q.kind # "none") /\ q.kind # "put"
        /\ q.reply = NoReply
    BY RequestTypes DEF Good
  <1> HIDE DEF q
  <1> QED BY <1>1, <1>2, OneChain

\* A batch that finishes, however it ends.
LEMMA FinishStep ==
    ASSUME ChainAssumption, StoreInv, NEW c \in Chains, NEW res \in Outcomes,
           \E p \in Finish(ch[c], res) : Become(c, p),
           UNCHANGED <<rec, leased, secret>>,
           strays' \subseteq LatePuts, \A m \in strays' : Extends(m.next, m.base)
    PROVE  StoreInv'
  <1>1. PICK p \in Finish(ch[c], res) : Become(c, p) OBVIOUS
  <1>2. p \in Chain /\ Good(p) BY ChainFacts, FinishType
  <1> QED BY <1>1, <1>2, BecomeStep

\* A PUT is composed on what was read: it keeps it.
LEMMA SendStep ==
    ASSUME ChainAssumption, StoreInv, NEW c \in Chains, NEW v \in Values, NEW r \in Nat,
           NEW n \in 0 .. Budget, Extends(v, r), wire[c].kind # "none",
           SendNext(c, v, r, n), UNCHANGED <<strays, rec, leased, secret>>
    PROVE  StoreInv'
  <1>1. strays' \subseteq LatePuts /\ \A m \in strays' : Extends(m.next, m.base) BY ChainFacts
  <1>2. {"failed", "unloaded"} \subseteq Outcomes BY DEF Outcomes
  <1>3. CASE ReducerFails(ch[c].batch)
    <2>1. \E p \in Finish(ch[c], "failed") : Become(c, p) BY <1>3 DEF SendNext
    <2> QED BY <1>1, <1>2, <2>1, FinishStep
  <1>4. CASE ~ReducerFails(ch[c].batch) /\ ch[c].dead
    <2>1. \E p \in Finish(ch[c], "unloaded") : Become(c, p) BY <1>4 DEF SendNext
    <2> QED BY <1>1, <1>2, <2>1, FinishStep
  <1>5. CASE ~ReducerFails(ch[c].batch) /\ ~ch[c].dead
    <2> DEFINE k == Attempt(ch[c], n)
               t == Threaded(ch[c].batch, v)
               q == [kind |-> "put", base |-> r, next |-> t, reply |-> NoReply]
    <2>1. ch' = [ch EXCEPT ![c] = k] /\ wire' = [wire EXCEPT ![c] = q]
      BY <1>5 DEF SendNext
    <2>2. k \in Chain /\ Good(k) /\ k.sending = ch[c].sending
      <3>1. ch[c] \in Chain /\ Good(ch[c]) BY ChainFacts
      <3> QED BY <3>1 DEF Attempt, Chain, Good
    <2>3. ch[c].sending BY ChainFacts
    <2>4. t \in Values /\ v \subseteq t
      <3>1. ch[c].batch \in Seq(Saves) BY ChainFacts DEF Chain, Queues
      <3>2. ToSet(ch[c].batch) \subseteq Saves BY <3>1 DEF ToSet
      <3> QED BY <3>2 DEF Threaded, Values, Tags
    <2> HIDE DEF k, t
    <2>5. /\ q \in Requests /\ q.kind = "put" /\ q.next = t /\ q.base = r
          /\ q.reply = NoReply
      BY <2>4 DEF Requests, Replies
    <2> HIDE DEF q
    <2>6. Extends(q.next, q.base) BY <2>4, <2>5 DEF Extends
    <2> QED BY <1>1, <2>1, <2>2, <2>3, <2>5, <2>6, OneChain
  <1> QED BY <1>3, <1>4, <1>5

-----------------------------------------------------------------------------
(* The record changes, and the chains' closures do not.                    *)

LEMMA RecordStep ==
    ASSUME ChainAssumption, StoreInv,
           NEW v \in Values, NEW b \in Nat, NEW o \in Options, NEW w \in BOOLEAN, NEW f \in BOOLEAN,
           Extends(v, b), Put(v, b, o, w, f), UNCHANGED <<ch, leased>>, strays' \subseteq strays,
           wire' \in [Chains -> Requests],
           \A c \in Chains :
              /\ wire'[c].kind = wire[c].kind /\ wire'[c].next = wire[c].next
              /\ wire'[c].base = wire[c].base
              /\ wire'[c].reply # NoReply => Extends(wire'[c].reply.value, wire'[c].reply.rev)
    PROVE  StoreInv' /\ rec.value \subseteq rec'.value
  <1>1. /\ RecTypes' /\ (secret \subseteq Nat)'
        /\ SecretsMarked' /\ SecretsStayOutOfTheRing'
        /\ rec.value \subseteq rec'.value
        /\ rec' = rec \/ rec'.rev = rec.rev + 1
    BY PutStep DEF StoreInv
  <1>2. \A u : \A r \in Nat : Extends(u, r) => r <= rec'.rev /\ (r = rec'.rev => rec'.value \subseteq u)
    BY <1>1, NewsAges DEF StoreInv
  <1>3. TypeInv' BY <1>1 DEF StoreInv, TypeInv, ChainTypes, WireTypes, RestTypes
  <1>4. ChainsGood' BY DEF StoreInv, ChainsGood
  <1>5. InFlight' BY DEF StoreInv, InFlight
  <1>6. PutsExtend'
    <2> SUFFICES ASSUME NEW c \in Chains, wire'[c].kind = "put"
                 PROVE  Extends(wire[c].next, wire[c].base)'
      BY DEF PutsExtend
    <2>1. Extends(wire[c].next, wire[c].base) BY DEF StoreInv, PutsExtend
    <2>2. wire[c].base \in Nat BY DEF StoreInv, TypeInv, WireTypes, Requests
    <2> QED BY <1>2, <2>1, <2>2 DEF Extends
  <1>7. RepliesExtend'
    <2> SUFFICES ASSUME NEW c \in Chains, wire'[c].reply # NoReply
                 PROVE  Extends(wire[c].reply.value, wire[c].reply.rev)'
      BY DEF RepliesExtend
    <2>1. wire'[c].reply.rev \in Nat
      <3>1. wire'[c].reply \in Replies BY DEF Requests
      <3> QED BY <3>1 DEF Replies
    <2> QED BY <1>2, <2>1 DEF Extends
  <1>8. StraysExtend'
    <2> SUFFICES ASSUME NEW m \in strays' PROVE Extends(m.next, m.base)' BY DEF StraysExtend
    <2>1. Extends(m.next, m.base) /\ m.base \in Nat
      BY DEF StoreInv, StraysExtend, TypeInv, RestTypes, LatePuts
    <2> QED BY <1>2, <2>1 DEF Extends
  <1> QED BY <1>1, <1>3, <1>4, <1>5, <1>6, <1>7, <1>8 DEF StoreInv

-----------------------------------------------------------------------------
(* The initial state and every action.                                     *)

LEMMA InitStore ==
    ASSUME ChainAssumption, Init
    PROVE  StoreInv
  <1>1. ASSUME NEW c \in Chains
        PROVE  ch[c] \in Chain /\ Good(ch[c]) /\ ~ch[c].sending
    <2> DEFINE t == [f \in Flushes |-> "unused"]
               T == {t}
    <2>1. ch[c] \in [queue : {<<>>}, batch : {<<>>}, timer : {FALSE}, ready : {FALSE},
                     sending : {FALSE}, conflicted : {FALSE}, dead : {FALSE},
                     state : {"idle"}, last : {"none"}, sent : {0}, waiters : {{}},
                     told : T, attempt : {0}, mine : {{}}, opts : ChainOptions]
      BY DEF Init
    <2>2. T \subseteq [Flushes -> Outcomes \cup {"unused", "pending"}]
      OBVIOUS
    <2>3. 0 \in 0 .. Budget /\ ChainOptions \subseteq Options BY DEF ChainAssumption
    <2>4. ~ch[c].sending /\ ch[c].batch = <<>> /\ ~ch[c].conflicted BY <2>1
    <2> HIDE DEF T
    <2>5. PICK tt \in T, o \in ChainOptions :
             ch[c] = [queue |-> <<>>, batch |-> <<>>, timer |-> FALSE, ready |-> FALSE,
                      sending |-> FALSE, conflicted |-> FALSE, dead |-> FALSE,
                      state |-> "idle", last |-> "none", sent |-> 0, waiters |-> {},
                      told |-> tt, attempt |-> 0, mine |-> {}, opts |-> o]
      BY <2>1
    <2>6. ch[c] \in Chain BY <2>5, <2>2, <2>3, EmptyQueue DEF Chain
    <2> QED BY <2>4, <2>6 DEF Good
  <1>2. /\ wire = [c \in Chains |-> Quiet] /\ strays = {} /\ leased = TRUE /\ secret = {}
        /\ rec = [rev |-> 0, value |-> {}, ring |-> <<>>, flagged |-> FALSE]
        /\ \E D : ch \in [Chains -> D]
    BY DEF Init
  <1>3. RecTypes BY <1>2 DEF RecTypes, Records, Values, ChainAssumption
  <1>4. ChainTypes BY <1>1, <1>2 DEF ChainTypes
  <1>5. WireTypes BY <1>2, RequestTypes DEF WireTypes
  <1>6. TypeInv BY <1>2, <1>3, <1>4, <1>5 DEF TypeInv, RestTypes
  <1>7. \A c \in Chains : wire[c].kind = "none" /\ wire[c].reply = NoReply
    BY <1>2, RequestTypes
  <1>8. ChainsGood /\ InFlight BY <1>1, <1>7 DEF ChainsGood, InFlight
  <1>9. PutsExtend /\ RepliesExtend /\ StraysExtend
    BY <1>2, <1>7 DEF PutsExtend, RepliesExtend, StraysExtend
  <1>10. SecretsMarked /\ SecretsStayOutOfTheRing
    BY <1>2 DEF SecretsMarked, SecretsStayOutOfTheRing
  <1> QED BY <1>6, <1>8, <1>9, <1>10 DEF StoreInv

\* The mod and the page's clock.
LEMMA PageStep ==
    ASSUME ChainAssumption, StoreInv, NEW c \in Chains,
           \/ Save(c) \/ DebounceFires(c) \/ Unload(c)
           \/ \E f \in Flushes : Flush(c, f)
    PROVE  StoreInv' /\ rec' = rec
  <1>1. /\ ch[c] \in Chain /\ Good(ch[c])
        /\ strays \subseteq LatePuts /\ \A m \in strays : Extends(m.next, m.base)
        /\ wire = [wire EXCEPT ![c] = wire[c]]
    BY ChainFacts
  <1>2. CASE Save(c)
    <2>1. PICK n \in Saves : ch' = [ch EXCEPT ![c] = Queued(ch[c], n)] BY <1>2 DEF Save
    <2> DEFINE k == Queued(ch[c], n)
    <2>2. k \in Chain /\ Good(k) /\ k.sending = ch[c].sending
      <3>1. Append(ch[c].queue, n) \in Queues BY <1>1 DEF Chain, Queues
      <3> QED BY <1>1, <3>1 DEF Queued, Chain, Good
    <2>3. UNCHANGED <<wire, strays, rec, leased, secret>> BY <1>2 DEF Save
    <2> HIDE DEF k
    <2> QED BY <2>1, <2>2, <2>3, ClosureStep DEF k
  <1>3. CASE DebounceFires(c)
    <2>0. UNCHANGED <<strays, rec, leased, secret>> BY <1>3 DEF DebounceFires
    <2>1. PICK k \in Pump(Fired(ch[c])) :
             IF ch[c].sending THEN ch' = [ch EXCEPT ![c] = k] /\ UNCHANGED wire ELSE Become(c, k)
      BY <1>3 DEF DebounceFires
    <2>2. Fired(ch[c]) \in Chain /\ Good(Fired(ch[c])) /\ Fired(ch[c]).sending = ch[c].sending
      BY <1>1 DEF Fired, Chain, Good
    <2>3. k \in Chain /\ Good(k) /\ (ch[c].sending => k.sending) BY <2>1, <2>2, PumpType
    <2>4. CASE ch[c].sending
      <3>1. k.sending = ch[c].sending BY <2>3, <2>4, <1>1 DEF Chain
      <3> QED BY <2>0, <2>1, <2>3, <2>4, <3>1, ClosureStep
    <2>5. CASE ~ch[c].sending BY <1>1, <2>0, <2>1, <2>3, <2>5, BecomeStep
    <2> QED BY <2>0, <2>4, <2>5
  <1>4. CASE Unload(c)
    <2>1. Die(ch[c]) \in Chain /\ Good(Die(ch[c])) /\ Die(ch[c]).sending = ch[c].sending
      BY <1>1, DieType DEF Alike, Good
    <2>2. ch' = [ch EXCEPT ![c] = Die(ch[c])] /\ UNCHANGED <<wire, strays, rec, leased, secret>>
      BY <1>4 DEF Unload
    <2> QED BY <2>1, <2>2, ClosureStep
  <1>5. ASSUME NEW f \in Flushes, Flush(c, f) PROVE StoreInv' /\ rec' = rec
    <2> DEFINE k == ch[c]
    <2>0. UNCHANGED <<strays, rec, leased, secret>> BY <1>5 DEF Flush
    <2>1. {"unloaded", "idle"} \subseteq Outcomes BY DEF Outcomes
    <2>2. CASE k.dead /\ ch' = [ch EXCEPT ![c] = Tell(ch[c], f, "unloaded")] /\ UNCHANGED wire
      <3>1. Tell(ch[c], f, "unloaded") \in Chain /\ Good(Tell(ch[c], f, "unloaded"))
            /\ Tell(ch[c], f, "unloaded").sending = ch[c].sending
        BY <1>1, <2>1, TellType
      <3> QED BY <2>0, <2>2, <3>1, ClosureStep
    <2>3. CASE ch' = [ch EXCEPT ![c] = AtRest(ch[c], f)] /\ UNCHANGED wire
      <3>1. AtRest(ch[c], f) \in Chain /\ Good(AtRest(ch[c], f))
            /\ AtRest(ch[c], f).sending = ch[c].sending
        BY <1>1, AtRestType
      <3> QED BY <2>0, <2>3, <3>1, ClosureStep
    <2>4. ASSUME NEW p \in Pump(Waiting(ch[c], f))
          PROVE  p \in Chain /\ Good(p) /\ (ch[c].sending => p.sending)
      <3>1. Waiting(ch[c], f) \in Chain /\ Good(Waiting(ch[c], f))
            /\ Waiting(ch[c], f).sending = ch[c].sending
        BY <1>1, WaitingType
      <3> QED BY <3>1, PumpType
    <2>5. CASE /\ ch[c].sending /\ UNCHANGED wire
               /\ \E p \in Pump(Waiting(ch[c], f)) : ch' = [ch EXCEPT ![c] = p]
      <3>1. PICK p \in Pump(Waiting(ch[c], f)) : ch' = [ch EXCEPT ![c] = p] BY <2>5
      <3>2. p \in Chain /\ Good(p) /\ p.sending = ch[c].sending
        BY <1>1, <2>4, <2>5 DEF Chain
      <3> QED BY <2>0, <2>5, <3>1, <3>2, ClosureStep
    <2>6. CASE \E p \in Pump(Waiting(ch[c], f)) : Become(c, p)
      BY <1>1, <2>0, <2>4, <2>6, BecomeStep
    <2> QED BY <1>5, <2>0, <2>2, <2>3, <2>5, <2>6 DEF Flush
  <1> QED BY <1>2, <1>3, <1>4, <1>5 DEF Save, DebounceFires, Unload

\* The broker answers, and the page hears it or gives up.
LEMMA RequestStep ==
    ASSUME ChainAssumption, StoreInv, NEW c \in Chains,
           ServeGet(c) \/ ServePut(c) \/ HearGet(c) \/ HearPut(c) \/ Fail(c)
    PROVE  StoreInv' /\ rec.value \subseteq rec'.value
  <1>1. /\ ch[c] \in Chain /\ Good(ch[c]) /\ wire[c] \in Requests
        /\ ch[c].sending <=> wire[c].kind # "none"
        /\ wire[c].kind = "put" => Extends(wire[c].next, wire[c].base)
        /\ wire[c].reply # NoReply => Extends(wire[c].reply.value, wire[c].reply.rev)
        /\ strays \subseteq LatePuts /\ \A m \in strays : Extends(m.next, m.base)
        /\ ch = [ch EXCEPT ![c] = ch[c]] /\ wire = [wire EXCEPT ![c] = wire[c]]
    BY ChainFacts
  <1>2. /\ wire[c].reply \in Replies /\ wire[c].next \in Values /\ wire[c].base \in Nat
        /\ wire[c].reply # NoReply => /\ wire[c].reply.rev \in Nat
                                      /\ wire[c].reply.value \in Values
                                      /\ wire[c].reply.err \in Outcomes
    BY <1>1 DEF Requests, Replies
  <1>3. /\ ch[c].attempt \in 0 .. Budget /\ ch[c].opts \in Options /\ Budget \in Nat
    BY <1>1 DEF Chain, ChainAssumption
  <1>4. rec.rev \in Nat /\ Extends(rec.value, rec.rev)
    BY DEF StoreInv, TypeInv, RecTypes, Records, ChainAssumption, Extends
  <1>5. {"ok", "failed", "unloaded"} \subseteq Outcomes BY DEF Outcomes
  <1>6. ASSUME NEW r \in Replies
        PROVE  /\ Answered(wire[c], r) \in Requests
               /\ Answered(wire[c], r).kind = wire[c].kind
               /\ Answered(wire[c], r).next = wire[c].next
               /\ Answered(wire[c], r).base = wire[c].base
               /\ Answered(wire[c], r).reply = r
    BY <1>1 DEF Answered, Requests
  <1>7. CASE ServeGet(c)
    <2> DEFINE r == Answer("ok", TRUE)
               q == Answered(wire[c], r)
    <2>1. r \in Replies /\ r.rev = rec.rev /\ r.value = rec.value
      BY <1>5, AnswerType DEF StoreInv
    <2>2. wire' = [wire EXCEPT ![c] = q] /\ UNCHANGED <<ch, strays, rec, leased, secret>>
      BY <1>7 DEF ServeGet
    <2> HIDE DEF r
    <2>3. /\ q \in Requests /\ q.kind = wire[c].kind /\ q.next = wire[c].next
          /\ q.base = wire[c].base /\ q.reply = r
      BY <1>6, <2>1
    <2> HIDE DEF q
    <2>4. ch' = [ch EXCEPT ![c] = ch[c]] BY <1>1, <2>2
    <2>5. StoreInv' BY <1>1, <1>4, <2>1, <2>2, <2>3, <2>4, OneChain
    <2> QED BY <2>2, <2>5
  <1>8. CASE ServePut(c)
    <2>1. PICK fails \in BOOLEAN, inlined \in BOOLEAN :
             /\ Put(wire[c].next, wire[c].base, ch[c].opts, leased, fails)
             /\ wire' = [wire EXCEPT ![c] = Answered(wire[c],
                   PutAnswer(wire[c].next, wire[c].base, ch[c].opts, leased, fails, inlined))]
      BY <1>8 DEF ServePut
    <2> DEFINE r == PutAnswer(wire[c].next, wire[c].base, ch[c].opts, leased, fails, inlined)
               q == Answered(wire[c], r)
    <2>2. r \in Replies /\ r.rev = rec.rev /\ r.value = rec.value
      <3>1. leased \in BOOLEAN BY DEF StoreInv, TypeInv, RestTypes
      <3> QED BY <3>1, PutAnswerType DEF StoreInv
    <2>3. wire' = [wire EXCEPT ![c] = q] BY <2>1
    <2> HIDE DEF r
    <2>4. /\ q \in Requests /\ q.kind = wire[c].kind /\ q.next = wire[c].next
          /\ q.base = wire[c].base /\ q.reply = r
      BY <1>6, <2>2
    <2> HIDE DEF q
    <2>5. Extends(q.reply.value, q.reply.rev) BY <1>4, <2>2, <2>4
    <2>6. wire \in [Chains -> Requests] BY DEF StoreInv, TypeInv, WireTypes
    <2>7. wire' \in [Chains -> Requests] BY <2>3, <2>4, <2>6
    <2>8. \A d \in Chains :
              /\ wire'[d].kind = wire[d].kind /\ wire'[d].next = wire[d].next
              /\ wire'[d].base = wire[d].base
              /\ wire'[d].reply # NoReply => Extends(wire'[d].reply.value, wire'[d].reply.rev)
      <3>1. \A d \in Chains : wire'[d] = IF d = c THEN q ELSE wire[d] BY <2>3, <2>6
      <3> QED BY <2>4, <2>5, <3>1 DEF StoreInv, RepliesExtend
    <2>9. /\ Extends(wire[c].next, wire[c].base) /\ UNCHANGED <<ch, leased>>
          /\ strays' \subseteq strays /\ leased \in BOOLEAN
      BY <1>1, <1>8 DEF ServePut, StoreInv, TypeInv, RestTypes
    <2> QED BY <1>2, <1>3, <2>1, <2>7, <2>8, <2>9, RecordStep
  <1>9. CASE HearGet(c)
    <2>1. /\ wire[c].kind = "get" /\ wire[c].reply # NoReply
          /\ SendNext(c, wire[c].reply.value, wire[c].reply.rev, ch[c].attempt)
          /\ UNCHANGED <<strays, rec, leased, secret>>
      BY <1>9 DEF HearGet
    <2>2. StoreInv' BY <1>1, <1>2, <1>3, <2>1, SendStep
    <2> QED BY <2>1, <2>2
  <1>10. CASE HearPut(c)
    <2>0. /\ wire[c].kind = "put" /\ wire[c].reply # NoReply
          /\ UNCHANGED <<strays, rec, leased, secret>>
      BY <1>10 DEF HearPut
    <2>1. CASE \E p \in Finish(ch[c], wire[c].reply.err) : Become(c, p)
      BY <1>1, <1>2, <2>0, <2>1, FinishStep
    <2>2. CASE /\ ~Exhausted(ch[c])
               /\ SendNext(c, wire[c].reply.value, wire[c].reply.rev, ch[c].attempt + 1)
      <3>1. ch[c].attempt + 1 \in 0 .. Budget BY <1>3, <2>2 DEF Exhausted
      <3> QED BY <1>1, <1>2, <2>0, <2>2, <3>1, SendStep
    <2>3. CASE \E p \in Finish(ch[c], "unloaded") : Become(c, p)
      BY <1>1, <1>5, <2>0, <2>3, FinishStep
    <2>4. CASE /\ ~Exhausted(ch[c])
               /\ ch' = [ch EXCEPT ![c] = Attempt(ch[c], ch[c].attempt + 1)]
               /\ wire' = [wire EXCEPT ![c] = GetRequest]
      <3> DEFINE k == Attempt(ch[c], ch[c].attempt + 1)
      <3>1. k \in Chain /\ Good(k) /\ k.sending = ch[c].sending
        <4>1. ch[c].attempt + 1 \in 0 .. Budget BY <1>3, <2>4 DEF Exhausted
        <4> QED BY <1>1, <4>1 DEF Attempt, Chain, Good
      <3>2. ch' = [ch EXCEPT ![c] = k] BY <2>4
      <3> HIDE DEF k
      <3> QED BY <1>1, <2>0, <2>4, <3>1, <3>2, RequestTypes, OneChain
    <2>5. StoreInv' BY <1>10, <2>1, <2>2, <2>3, <2>4 DEF HearPut, RebaseOn
    <2> QED BY <2>0, <2>5
  <1>11. CASE Fail(c)
    <2>0. UNCHANGED <<rec, leased, secret>> BY <1>11 DEF Fail
    <2>1. \E p \in Finish(ch[c], "failed") : Become(c, p) BY <1>11 DEF Fail
    <2>2. \/ strays' = strays
          \/ /\ wire[c].kind = "put"
             /\ strays' = strays \cup {[chain |-> c, base |-> wire[c].base, next |-> wire[c].next]}
      BY <1>11 DEF Fail
    <2>3. strays' \subseteq LatePuts /\ \A m \in strays' : Extends(m.next, m.base)
      BY <1>1, <1>2, <2>2 DEF LatePuts
    <2>4. StoreInv' BY <1>5, <2>0, <2>1, <2>3, FinishStep
    <2> QED BY <2>0, <2>4
  <1> QED BY <1>7, <1>8, <1>9, <1>10, <1>11

LEMMA StoreStep ==
    ASSUME ChainAssumption, StoreInv, [Next]_vars
    PROVE  StoreInv' /\ rec.value \subseteq rec'.value
  <1>1. ASSUME NEW c \in Chains,
               \/ Save(c) \/ DebounceFires(c) \/ Unload(c)
               \/ \E f \in Flushes : Flush(c, f)
        PROVE  StoreInv' /\ rec.value \subseteq rec'.value
    BY <1>1, PageStep
  <1>2. ASSUME NEW c \in Chains,
               ServeGet(c) \/ ServePut(c) \/ HearGet(c) \/ HearPut(c) \/ Fail(c)
        PROVE  StoreInv' /\ rec.value \subseteq rec'.value
    BY <1>2, RequestStep
  <1>3. /\ wire \in [Chains -> Requests] /\ leased \in BOOLEAN
        /\ \A c \in Chains : wire[c].reply # NoReply =>
                                 Extends(wire[c].reply.value, wire[c].reply.rev)
    BY DEF StoreInv, TypeInv, WireTypes, RestTypes, RepliesExtend
  <1>4. ASSUME NEW m \in strays, ServeStray(m)
        PROVE  StoreInv' /\ rec.value \subseteq rec'.value
    <2>1. /\ m.next \in Values /\ m.base \in Nat /\ m.chain \in Chains
          /\ Extends(m.next, m.base)
      BY DEF StoreInv, TypeInv, RestTypes, LatePuts, StraysExtend
    <2>2. ch[m.chain].opts \in Options BY <2>1, ChainFacts DEF Chain
    <2>3. /\ Put(m.next, m.base, ch[m.chain].opts, leased, FALSE)
          /\ UNCHANGED <<ch, wire, leased>> /\ strays' \subseteq strays
      BY <1>4 DEF ServeStray
    <2> QED BY <1>3, <2>1, <2>2, <2>3, RecordStep
  <1>5. ASSUME NEW o \in PeerOptions, PeerWrites(o)
        PROVE  StoreInv' /\ rec.value \subseteq rec'.value
    <2> DEFINE v == rec.value \cup {-(rec.rev + 1)}
    <2>1. /\ rec.rev \in 0 .. MaxRev /\ rec.value \in Values /\ MaxRev \in Nat
          /\ o \in Options
      BY DEF StoreInv, TypeInv, RecTypes, Records, ChainAssumption
    <2>2. /\ Put(v, rec.rev, o, TRUE, FALSE) /\ UNCHANGED <<ch, wire, leased>>
          /\ strays' \subseteq strays /\ rec.rev < MaxRev
      BY <1>5 DEF PeerWrites
    <2>3. rec.rev + 1 \in 1 .. MaxRev /\ rec.rev \in Nat BY <2>1, <2>2
    <2>4. v \in Values BY <2>1, <2>3 DEF Values, Tags
    <2>5. Extends(v, rec.rev) BY <2>1 DEF Extends
    <2> HIDE DEF v
    <2> QED BY <1>3, <2>1, <2>2, <2>3, <2>4, <2>5, RecordStep
  <1>6. CASE MoveLease
    BY <1>6 DEF MoveLease, StoreInv, TypeInv, ChainTypes, WireTypes, RecTypes, RestTypes,
                ChainsGood, InFlight, PutsExtend, RepliesExtend, StraysExtend, Extends,
                SecretsMarked, SecretsStayOutOfTheRing
  <1>7. CASE UNCHANGED vars
    BY <1>7 DEF vars, StoreInv, TypeInv, ChainTypes, WireTypes, RecTypes, RestTypes,
                ChainsGood, InFlight, PutsExtend, RepliesExtend, StraysExtend, Extends,
                SecretsMarked, SecretsStayOutOfTheRing
  <1> QED BY <1>1, <1>2, <1>4, <1>5, <1>6, <1>7 DEF Next

-----------------------------------------------------------------------------
(* The theorems.                                                           *)

\* What the broker holds of a mod's record, and what every request under way or
\* given up knows of it, stay in step whatever saves, timers, flushes, teardowns,
\* lost requests, other browsers and lease moves come between.
THEOREM StoreInvariant == ASSUME ChainAssumption PROVE Spec => []StoreInv
  <1>1. Init => StoreInv BY InitStore
  <1>2. StoreInv /\ [Next]_vars => StoreInv' BY StoreStep
  <1> QED BY <1>1, <1>2, PTL DEF Spec

\* The types of the save chains and of the record; a chain has a request on the wire
\* exactly while it is sending, never two, and never retries past its budget.
THEOREM SaveTypeCorrect == ASSUME ChainAssumption PROVE Spec => []TypeOK
  <1>1. StoreInv => TypeOK
    <2> SUFFICES ASSUME StoreInv PROVE TypeOK OBVIOUS
    <2>1. ASSUME NEW c \in Chains
          PROVE  /\ ch[c].queue \in Seq(Saves) /\ ch[c].batch \in Seq(Saves)
                 /\ ch[c].state \in {"idle", "saving", "conflict"}
                 /\ \A f \in Flushes : ch[c].told[f] \in Outcomes \cup {"unused", "pending"}
                 /\ ch[c].sending <=> wire[c].kind # "none"
                 /\ ch[c].attempt <= Budget
      <3>1. ch[c] \in Chain /\ (ch[c].sending <=> wire[c].kind # "none") BY ChainFacts
      <3>2. Budget \in Nat BY DEF ChainAssumption
      <3> QED BY <3>1, <3>2 DEF Chain, Queues
    <2>2. rec.value \subseteq Saves \cup {-r : r \in 1 .. MaxRev} /\ Len(rec.ring) <= RingSize
      BY DEF StoreInv, TypeInv, RecTypes, Records, Values, Tags
    <2> QED BY <2>1, <2>2 DEF TypeOK
  <1>2. Spec => []StoreInv BY StoreInvariant
  <1> QED BY <1>1, <1>2, PTL

\* A value stored while the record was without history is no past revision, ever,
\* whatever later writes forget to pass.
THEOREM SecretsStay == ASSUME ChainAssumption PROVE Spec => []SecretsStayOutOfTheRing
  <1>1. StoreInv => SecretsStayOutOfTheRing BY DEF StoreInv
  <1> QED BY <1>1, StoreInvariant, PTL

\* No write of a chain, retried, rebased, late or from a dead chain, and no other
\* browser's, loses what was stored before it.
THEOREM NoLostWrites == ASSUME ChainAssumption PROVE Spec => WinnersSurvive
  <1>1. StoreInv /\ [Next]_vars => [rec.value \subseteq rec'.value]_vars BY StoreStep
  <1> QED BY <1>1, StoreInvariant, PTL DEF Spec, WinnersSurvive

==============================================================================
