------------------------------- MODULE SaveChain -------------------------------
(***************************************************************************)
(* ctx.serverStore.saveChain (86e_js_mod_savechain.js), the compare-and-   *)
(* swap it writes through (_modStoreUpdate, 86c_js_mod_ctx_ext.js), the    *)
(* requests of ctx.serverStore (86_js_mod_loader.js) and the broker's side *)
(* of them, /mod-store (app.py).                                           *)
(*                                                                         *)
(* One mod's record on one broker.  A CHAIN is the save chain of one       *)
(* activation of the mod; the next chain exists once the one before it has *)
(* died.  A stored value is the set of the writes whose reducers made it:  *)
(* save n's reducer adds n, another browser's, stored as revision r, adds  *)
(* -r, a reducer in Noop returns what it is given, one in Bad throws or    *)
(* returns nothing.  A step is the page's code from one await to the next, *)
(* or the broker's handling of one request (its lock covers all of it).    *)
(***************************************************************************)
EXTENDS Integers, Sequences, SequencesExt, FiniteSets

CONSTANTS
    MaxChains,      \* activations of the mod
    Flushes,        \* calls of flush()
    Bad, Noop,      \* saves whose reducers fail, or change nothing
    ChainOptions,   \* what a chain may be built with
    PeerOptions,    \* what other browsers write with
    Budget,         \* _MOD_STORE_UPDATE_RETRIES
    RingSize,       \* MODSTORE_MAX_REVISIONS
    MaxSaves, MaxRev, MaxStrays, MaxLeases     \* bounds

Chains == 1 .. MaxChains
Saves == 1 .. MaxSaves
\* purgeRevisions, and the tri-state noHistory.
Options == [purge : BOOLEAN, flag : {"absent", "on", "off"}]

ChainAssumption ==
    /\ MaxChains \in Nat \ {0} /\ Bad \cup Noop \subseteq Nat
    /\ ChainOptions \subseteq Options /\ PeerOptions \subseteq Options
    /\ Budget \in Nat /\ RingSize \in Nat
    /\ MaxSaves \in Nat /\ MaxRev \in Nat /\ MaxStrays \in Nat /\ MaxLeases \in Nat

VARIABLES
    ch,         \* each chain's closure
    wire,       \* each chain's outstanding request
    strays,     \* PUTs the page has given up and the broker may still read
    rec,        \* the broker's record for the mod
    leased,     \* this browser may write
    leases,     \* how often the lease has moved
    secret      \* history: the revisions written while the record was flagged

vars == <<ch, wire, strays, rec, leased, leases, secret>>

NoReply == [err |-> "none", rev |-> 0, value |-> {}, inlined |-> FALSE]
Quiet == [kind |-> "none", base |-> 0, next |-> {}, reply |-> NoReply]

Init ==
    /\ ch \in [Chains ->
         [queue : {<<>>}, batch : {<<>>}, timer : {FALSE}, ready : {FALSE},
          sending : {FALSE}, conflicted : {FALSE}, dead : {FALSE},
          state : {"idle"}, last : {"none"}, sent : {0}, waiters : {{}},
          told : {[f \in Flushes |-> "unused"]}, attempt : {0},
          mine : {{}}, opts : ChainOptions]]
    /\ wire = [c \in Chains |-> Quiet]
    /\ strays = {}
    /\ rec = [rev |-> 0, value |-> {}, ring |-> <<>>, flagged |-> FALSE]
    /\ leased = TRUE /\ leases = 0
    /\ secret = {}

-----------------------------------------------------------------------------
(* The broker.                                                             *)

\* The record's flag after a write.
AbsentClears(flagged, o) == o.flag = "on"
KeepFlag(flagged, o) == IF o.flag = "absent" THEN flagged ELSE o.flag = "on"

Locked(o) == rec.flagged /\ o.flag = "off" /\ ~o.purge

\* No write: the same value, nothing to clear, the flag as it was.
Dedupes(value, o) ==
    LET keep == KeepFlag(rec.flagged, o) IN
    /\ value = rec.value /\ keep = rec.flagged
    /\ ~ ((o.purge \/ keep) /\ rec.ring # <<>>)

Written(value, o) ==
    LET keep == KeepFlag(rec.flagged, o)
        pushed == IF rec.rev = 0 THEN rec.ring
                  ELSE <<[rev |-> rec.rev, value |-> rec.value]>> \o rec.ring
    IN  [rev |-> rec.rev + 1, value |-> value, flagged |-> keep,
         ring |-> IF o.purge \/ keep THEN <<>>
                  ELSE SubSeq(pushed, 1, IF Len(pushed) < RingSize THEN Len(pushed)
                                         ELSE RingSize)]

Answer(err, inlined) ==
    [err |-> err, rev |-> rec.rev, value |-> rec.value, inlined |-> inlined]

\* _modstore_put's _locked_write; `mayWrite` is the lease, `fails` an OSError.
Put(value, base, o, mayWrite, fails) ==
    LET lands == /\ mayWrite /\ base = rec.rev /\ ~Locked(o)
                 /\ ~Dedupes(value, o) /\ ~fails
    IN  /\ lands => rec.rev < MaxRev
        /\ rec' = IF lands THEN Written(value, o) ELSE rec
        /\ secret' = IF lands /\ KeepFlag(rec.flagged, o)
                       THEN secret \cup {rec.rev + 1} ELSE secret

PutAnswer(value, base, o, mayWrite, fails, inlined) ==
    IF ~mayWrite THEN Answer("not_active", TRUE)
    ELSE IF base # rec.rev THEN Answer("conflict", inlined)
    ELSE IF Locked(o) THEN Answer("noHistory_locked", FALSE)
    ELSE IF Dedupes(value, o) THEN Answer("ok", FALSE)
    ELSE IF fails THEN Answer("failed", FALSE)
    ELSE Answer("ok", FALSE)

-----------------------------------------------------------------------------
(* The chain's helpers, on its record.                                     *)

Born(c) == c > 1 => ch[c - 1].dead

\* refresh(): derived from what is in flight and how the last write ended.
Refresh(k) ==
    [k EXCEPT !.state = IF k.sending THEN "saving"
                        ELSE IF k.conflicted THEN "conflict" ELSE "idle"]

\* settle(): the flushes whose barrier is reached, or all of them.
Settle(k, res, all) ==
    LET due == {w \in k.waiters : all \/ k.sent >= w.need} IN
    [k EXCEPT !.waiters = @ \ due,
              !.told = [f \in Flushes |->
                          IF \E w \in due : w.flush = f THEN res ELSE k.told[f]]]

Die(k) ==
    Settle([k EXCEPT !.dead = TRUE, !.timer = FALSE, !.queue = <<>>,
                     !.ready = FALSE], "unloaded", TRUE)

\* pump(): what it may leave, since a state listener may tear the mod down.
Pump(k) ==
    IF k.dead
      THEN {Settle([k EXCEPT !.queue = <<>>, !.ready = FALSE], "unloaded", TRUE)}
    ELSE IF k.sending THEN {k}
    ELSE IF k.queue = <<>> THEN {[k EXCEPT !.ready = FALSE]}
    ELSE IF ~k.ready THEN {k}
    ELSE LET s == Refresh([k EXCEPT !.batch = k.queue, !.queue = <<>>,
                                    !.ready = FALSE, !.timer = FALSE,
                                    !.sending = TRUE, !.attempt = 0])
             killed == [Die(s) EXCEPT !.sending = FALSE, !.batch = <<>>]
         IN  {s} \cup (IF k.state # "saving" THEN {killed} ELSE {})

\* finish(): the only path that lets the next batch go.
FinishAfterAll(k, res) ==
    {Refresh([k EXCEPT !.sent = @ + 1, !.last = res, !.sending = FALSE,
                       !.batch = <<>>])}
Finish(k, res) ==
    LET done == [k EXCEPT !.sent = @ + 1, !.last = res, !.sending = FALSE,
                          !.batch = <<>>,
                          !.conflicted = res \in {"conflict", "not_active"}]
    IN  IF k.dead THEN {Settle(done, "unloaded", TRUE)}
        ELSE {Refresh(p) : p \in Pump(Settle(done, res, FALSE))}

\* batchReducer(): the queued reducers, one after the other.
Threaded(batch, value) == value \cup (ToSet(batch) \ Noop)
ReducerFails(batch) == \E i \in DOMAIN batch : batch[i] \in Bad

GetRequest == [kind |-> "get", base |-> 0, next |-> {}, reply |-> NoReply]

\* A chain that has started a batch begins with update()'s read.
Become(c, k) ==
    /\ ch' = [ch EXCEPT ![c] = k]
    /\ wire' = [wire EXCEPT ![c] =
                  IF k.sending /\ k.batch # <<>> THEN GetRequest ELSE Quiet]

-----------------------------------------------------------------------------
(* Actions: the mod and the page's clock.                                  *)

Queued(k, n) == [k EXCEPT !.queue = Append(@, n), !.timer = TRUE, !.mine = @ \cup {n}]
Save(c) ==
    /\ Born(c) /\ ~ch[c].dead
    /\ LET n == 1 + Cardinality(UNION {ch[d].mine : d \in Chains}) IN
       /\ n \in Saves
       /\ ch' = [ch EXCEPT ![c] = Queued(@, n)]
    /\ UNCHANGED <<wire, strays, rec, leased, leases, secret>>

Fired(k) == [k EXCEPT !.timer = FALSE, !.ready = TRUE]
DebounceFires(c) ==
    /\ ch[c].timer
    /\ \E k \in Pump(Fired(ch[c])) :
         IF ch[c].sending THEN ch' = [ch EXCEPT ![c] = k] /\ UNCHANGED wire
         ELSE Become(c, k)
    /\ UNCHANGED <<strays, rec, leased, leases, secret>>

\* flush()'s barrier: the batches that have to complete first.
Barrier(k) ==
    k.sent + (IF k.sending THEN 1 ELSE 0) + (IF k.queue # <<>> THEN 1 ELSE 0)

\* What a flush is told, at once or once its barrier is reached.
Tell(k, f, res) == [k EXCEPT !.told = [@ EXCEPT ![f] = res]]
Waiting(k, f) ==
    [Tell(k, f, "pending") EXCEPT !.ready = TRUE,
        !.waiters = @ \cup {[need |-> Barrier(k), flush |-> f]}]
AtRest(k, f) == Tell([k EXCEPT !.timer = FALSE], f, IF k.conflicted THEN k.last ELSE "idle")

Flush(c, f) ==
    /\ Born(c) /\ \A d \in Chains : ch[d].told[f] = "unused"
    /\ LET k == ch[c] IN
       \/ /\ k.dead
          /\ ch' = [ch EXCEPT ![c] = Tell(@, f, "unloaded")] /\ UNCHANGED wire
       \/ /\ ~k.dead /\ ~k.sending /\ k.queue = <<>>
          /\ ch' = [ch EXCEPT ![c] = AtRest(@, f)] /\ UNCHANGED wire
       \/ /\ ~k.dead /\ k.sending
          /\ \E p \in Pump(Waiting(k, f)) : ch' = [ch EXCEPT ![c] = p]
          /\ UNCHANGED wire
       \/ /\ ~k.dead /\ ~k.sending /\ k.queue # <<>>
          /\ \E p \in Pump(Waiting(k, f)) : Become(c, p)
    /\ UNCHANGED <<strays, rec, leased, leases, secret>>

\* The mod is disabled, or the chain's owner disposes of it.
Unload(c) ==
    /\ Born(c) /\ ~ch[c].dead
    /\ ch' = [ch EXCEPT ![c] = Die(@)]
    /\ UNCHANGED <<wire, strays, rec, leased, leases, secret>>

-----------------------------------------------------------------------------
(* Actions: requests and their answers.                                    *)

Answered(w, reply) == [w EXCEPT !.reply = reply]

ServeGet(c) ==
    /\ wire[c].kind = "get" /\ wire[c].reply = NoReply
    /\ wire' = [wire EXCEPT ![c] = Answered(@, Answer("ok", TRUE))]
    /\ UNCHANGED <<ch, strays, rec, leased, leases, secret>>

ServePut(c) ==
    /\ wire[c].kind = "put" /\ wire[c].reply = NoReply
    /\ \E fails, inlined \in BOOLEAN :
         LET w == wire[c] IN
         /\ Put(w.next, w.base, ch[c].opts, leased, fails)
         /\ wire' = [wire EXCEPT ![c] = Answered(@,
               PutAnswer(w.next, w.base, ch[c].opts, leased, fails, inlined))]
    /\ UNCHANGED <<ch, strays, leased, leases>>

\* A PUT that arrives after the page has given it up.
ServeStray(m) ==
    /\ strays' = strays \ {m}
    /\ Put(m.next, m.base, ch[m.chain].opts, leased, FALSE)
    /\ UNCHANGED <<ch, wire, leased, leases>>

Attempt(k, n) == [k EXCEPT !.attempt = n]

\* The reducer runs over what was read, and its result is written.
SendNext(c, value, rev, attempt) ==
    LET k == ch[c] IN
    IF ReducerFails(k.batch)
      THEN \E p \in Finish(k, "failed") : Become(c, p)
    ELSE IF k.dead THEN \E p \in Finish(k, "unloaded") : Become(c, p)
    ELSE /\ ch' = [ch EXCEPT ![c] = Attempt(@, attempt)]
         /\ wire' = [wire EXCEPT ![c] =
                       [kind |-> "put", base |-> rev,
                        next |-> Threaded(k.batch, value), reply |-> NoReply]]

HearGet(c) ==
    /\ wire[c].kind = "get" /\ wire[c].reply # NoReply
    /\ SendNext(c, wire[c].reply.value, wire[c].reply.rev, ch[c].attempt)
    /\ UNCHANGED <<strays, rec, leased, leases, secret>>

\* Mutant: a conflict is rebased on what the page had sent.
RebaseOnLoser(c) == wire[c].next \ ToSet(ch[c].batch)
\* What a conflict is rebased on: the record that won.
RebaseOn(c) == wire[c].reply.value

\* update() gives up after its retries.
Exhausted(k) == k.attempt >= Budget

HearPut(c) ==
    LET r == wire[c].reply
        k == ch[c]
    IN
    /\ wire[c].kind = "put" /\ r # NoReply
    /\ IF r.err # "conflict" \/ Exhausted(k)
         THEN \E p \in Finish(k, r.err) : Become(c, p)
       ELSE IF r.inlined THEN SendNext(c, RebaseOn(c), r.rev, k.attempt + 1)
       ELSE IF k.dead THEN \E p \in Finish(k, "unloaded") : Become(c, p)
       ELSE /\ ch' = [ch EXCEPT ![c] = Attempt(@, k.attempt + 1)]
            /\ wire' = [wire EXCEPT ![c] = GetRequest]
    /\ UNCHANGED <<strays, rec, leased, leases, secret>>

\* The request or its answer is lost; the PUT may still be on its way.
Fail(c) ==
    /\ wire[c].kind # "none"
    /\ strays' \in
         IF /\ wire[c].kind = "put" /\ wire[c].reply = NoReply
            /\ Cardinality(strays) < MaxStrays
           THEN {strays, strays \cup {[chain |-> c, base |-> wire[c].base,
                                       next |-> wire[c].next]}}
           ELSE {strays}
    /\ \E p \in Finish(ch[c], "failed") : Become(c, p)
    /\ UNCHANGED <<rec, leased, leases, secret>>

\* Another browser's update of the same record, and the lease that moves.
PeerWrites(o) ==
    /\ rec.rev < MaxRev
    /\ Put(rec.value \cup {-(rec.rev + 1)}, rec.rev, o, TRUE, FALSE)
    /\ UNCHANGED <<ch, wire, strays, leased, leases>>

MoveLease ==
    /\ leases < MaxLeases
    /\ leases' = leases + 1 /\ leased' = ~leased
    /\ UNCHANGED <<ch, wire, strays, rec, secret>>

Next ==
    \/ \E c \in Chains :
         \/ Save(c) \/ DebounceFires(c) \/ Unload(c)
         \/ \E f \in Flushes : Flush(c, f)
         \/ ServeGet(c) \/ ServePut(c) \/ HearGet(c) \/ HearPut(c) \/ Fail(c)
    \/ \E m \in strays : ServeStray(m)
    \/ \E o \in PeerOptions : PeerWrites(o)
    \/ MoveLease

Spec == Init /\ [][Next]_vars
-----------------------------------------------------------------------------
Outcomes == {"ok", "idle", "conflict", "not_active", "noHistory_locked",
             "failed", "unloaded"}

\* The types; a chain with no batch has no request, and one with a batch has
\* exactly one (single in flight).
TypeOK ==
    /\ \A c \in Chains :
         /\ ch[c].queue \in Seq(Saves) /\ ch[c].batch \in Seq(Saves)
         /\ ch[c].state \in {"idle", "saving", "conflict"}
         /\ \A f \in Flushes : ch[c].told[f] \in Outcomes \cup {"unused", "pending"}
         /\ ch[c].sending <=> wire[c].kind # "none"
         /\ ch[c].attempt <= Budget
    /\ rec.value \subseteq Saves \cup {-r : r \in 1 .. MaxRev} /\ Len(rec.ring) <= RingSize

\* No write, retried, late or from a dead chain, loses what another one stored:
\* the loser of a conflict is composed onto the winner (#158).
WinnersSurvive == [][rec.value \subseteq rec'.value]_vars

\* A value that was stored while the record was marked as without history is
\* never readable as a past revision, whatever later writes forget to pass
\* (#192).
SecretsStayOutOfTheRing ==
    /\ rec.flagged => rec.ring = <<>>
    /\ \A i \in DOMAIN rec.ring : rec.ring[i].rev \notin secret

=============================================================================
