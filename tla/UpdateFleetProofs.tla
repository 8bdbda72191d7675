-------------------------- MODULE UpdateFleetProofs --------------------------
(***************************************************************************)
(* Proofs about UpdateFleet, for any host ids, machines, builds and bounds: *)
(* the types of its records, with the request every check under way waits   *)
(* for; that a grant is current (a fact of each request when it is sent);   *)
(* and that the standing write is the newest, whose strengthening follows   *)
(* the requests: one machine answers writes in the order they were sent, so *)
(* their revisions grow with their ids, whatever order they land in.        *)
(***************************************************************************)
EXTENDS UpdateFleet, TLAPS

(* ------------------------------- the types ------------------------------- *)

CallFields == {"id", "kind", "host", "mach", "why", "pc", "ans", "orphan",
               "changes", "row", "before", "named"}
States  == {"ok", "headless", "absent", "unreachable", "unauthorized"}
Caps    == {"ready", "not-opted-in", "unproven", "route-absent", "unauthorized",
            "unreachable"}
Reasons == Caps \cup {"unreachable-or-too-old", "no-such-host"}
Gates   == [rev : Nat, on : SUBSET Key, lock : SUBSET Key]
Views   == [mach : Machine, rev : Nat, on : SUBSET Key, lock : SUBSET Key]
Records == [state : States, mod : BOOLEAN, view : Views \cup {None}]
Laid    == [view : Views, seq : Nat, fp : Machine]
Stamps  == [sent : Nat, fp : Machine]
Heard   == [mach : Machine, rev : Nat]
Checks  == [inFlight : BOOLEAN, done : BOOLEAN, error : Reasons \cup {None},
            got : Machine \cup {None}]

\* A request, and what came back with it.
IsCall(c) ==
    /\ DOMAIN c = CallFields
    /\ c.id \in Nat /\ c.host \in Host /\ c.mach \in Machine
    /\ c.kind \in {"read", "check", "write"}
    /\ c.pc \in {"out", "back", "fail", "refused"}
    /\ c.why = "consent" => Local \in Host
    /\ c.kind = "read" /\ c.pc = "back" => c.ans \in Records
    /\ c.kind = "write" => c.row \in Row /\ c.changes.keys \subseteq Key
    /\ c.kind = "write" /\ c.pc = "back" => c.ans.view \in Views

\* A check under way waits for a request of its own.
AwaitedBy(h, c) ==
    /\ c.host = h /\ ~c.orphan
    /\ c.kind = "check" \/ (c.kind = "read" /\ c.why = "poll")
Awaited(h, cs) == \E c \in cs : AwaitedBy(h, c)

PageTypes ==
    /\ opSeq \in Nat
    /\ url \in [Host -> Machine \cup {None}]
    /\ Local \in Host => url[Local] \in Machine
    /\ gate \in [Machine -> Gates]
    /\ cat \in [Host -> Records \cup {None}]
    /\ lw \in [Host -> Laid \cup {None}]
    /\ ops \in [Host -> [Row -> Phase]]
    /\ consent = "due" => Local \in Host
    /\ dialog # None => /\ dialog.host \in Host /\ dialog.row \in Row
                        /\ dialog.mach \in Machine
WriteTypes ==
    /\ lws \in [Host -> Stamps \cup {None}]
    /\ told \in [Host -> Heard \cup {None}]
CallTypes == \A c \in calls : IsCall(c) /\ c.id <= opSeq
CheckTypes ==
    /\ chk \in [Host -> Checks]
    /\ \A h \in Host : chk[h].inFlight => Awaited(h, calls)

FleetTypes == PageTypes /\ WriteTypes /\ CallTypes /\ CheckTypes

(* ------------------------- the order of the writes ----------------------- *)

Written == {c \in calls : c.kind = "write"}

OneEach == \A c, d \in Written : c.id = d.id => c = d

\* One machine answers in the order sent, and no answer is ahead of its gates.
Between(c, d) ==
    (c.mach = d.mach /\ c.id < d.id /\ d.pc = "back") =>
        /\ c.pc # "out"
        /\ c.pc = "back" => c.ans.view.rev <= d.ans.view.rev
AnsweredInOrder == \A c, d \in Written : Between(c, d)
Reached(c) == c.pc = "back" => c.ans.view.rev <= gate[c.mach].rev
NoneAhead == \A c \in Written : Reached(c)

\* The last write installed for an id, and what was heard from its machine.
Stamped(h) ==
    /\ lws[h] # None <=> told[h] # None
    /\ lws[h] # None =>
          /\ told[h].mach = lws[h].fp
          /\ told[h].rev <= gate[lws[h].fp].rev
          /\ lws[h].sent <= opSeq
\* A write sent before the one installed is answered and no newer than what
\* was heard; one sent after it is no older, once it is answered.
Beside(h, c) ==
    (lws[h] # None /\ c.mach = lws[h].fp) =>
        /\ c.id # lws[h].sent
        /\ c.id < lws[h].sent =>
              c.pc # "out" /\ (c.pc = "back" => c.ans.view.rev <= told[h].rev)
        /\ c.id > lws[h].sent =>
              (c.pc = "back" => told[h].rev <= c.ans.view.rev)
Overlay(h) ==
    lw[h] # None =>
        /\ lws[h] # None /\ lw[h].fp = lws[h].fp
        /\ lw[h].view.rev = told[h].rev

WriteOrder ==
    /\ OneEach /\ AnsweredInOrder /\ NoneAhead
    /\ \A h \in Host : Stamped(h) /\ Overlay(h)
    /\ \A h \in Host : \A c \in Written : Beside(h, c)

(* --------------------------- records and requests ------------------------ *)

LEMMA CallMade ==
    ASSUME NEW id, NEW kind, NEW h, NEW m, NEW why
    PROVE  LET c == Call(id, kind, h, m, why)
           IN  /\ DOMAIN c = CallFields
               /\ c.id = id /\ c.kind = kind /\ c.host = h /\ c.mach = m
               /\ c.why = why /\ c.pc = "out" /\ ~c.orphan
  BY DEF Call, CallFields

\* A read or a check that leaves is a request.
LEMMA CallTyped ==
    ASSUME NEW id \in Nat, NEW kind \in {"read", "check"}, NEW h \in Host,
           NEW m \in Machine, NEW why, why = "consent" => Local \in Host
    PROVE  IsCall(Call(id, kind, h, m, why))
  BY CallMade DEF IsCall

\* What a request keeps when one field of it changes.
LEMMA OneField ==
    ASSUME NEW c, DOMAIN c = CallFields, NEW f \in CallFields, NEW v
    PROVE  LET d == [c EXCEPT ![f] = v]
           IN  DOMAIN d = CallFields /\ d[f] = v
               /\ \A g \in CallFields : g # f => d[g] = c[g]
  OBVIOUS

\* The request setPolicy sends.
Posted(id, h, m, why, changes, row, before, named) ==
    [Call(id, "write", h, m, why) EXCEPT
        !.changes = changes, !.row = row, !.before = before, !.named = named]

LEMMA PostedFields ==
    ASSUME NEW id, NEW h, NEW m, NEW why, NEW changes, NEW row, NEW before,
           NEW named
    PROVE  LET c == Posted(id, h, m, why, changes, row, before, named)
           IN  /\ DOMAIN c = CallFields
               /\ c.id = id /\ c.kind = "write" /\ c.host = h /\ c.mach = m
               /\ c.why = why /\ c.pc = "out" /\ c.changes = changes
               /\ c.row = row /\ c.before = before /\ c.named = named
  BY DEF Posted, Call, CallFields

\* A request that is answered, lost or forgotten keeps what it was for.
LEMMA Answered ==
    ASSUME NEW c, DOMAIN c = CallFields, NEW pc, NEW ans
    PROVE  LET d == [c EXCEPT !.pc = pc, !.ans = ans]
           IN  /\ DOMAIN d = CallFields /\ d.pc = pc /\ d.ans = ans
               /\ d.id = c.id /\ d.kind = c.kind /\ d.host = c.host
               /\ d.mach = c.mach /\ d.why = c.why /\ d.orphan = c.orphan
               /\ d.row = c.row /\ d.changes = c.changes
               /\ d.before = c.before /\ d.named = c.named
  BY DEF CallFields
LEMMA Forgotten ==
    ASSUME NEW c, DOMAIN c = CallFields, NEW o
    PROVE  LET d == [c EXCEPT !.orphan = o]
           IN  /\ DOMAIN d = CallFields /\ d.pc = c.pc /\ d.ans = c.ans
               /\ d.id = c.id /\ d.kind = c.kind /\ d.host = c.host
               /\ d.mach = c.mach /\ d.why = c.why /\ d.orphan = o
               /\ d.row = c.row /\ d.changes = c.changes
               /\ d.before = c.before /\ d.named = c.named
  BY DEF CallFields

(* ------------------------------- the poll -------------------------------- *)

LEMMA ViewTyped ==
    ASSUME PageTypes, NEW m \in Machine
    PROVE  View(m) \in Views
<1>1. gate[m] \in Gates
  BY DEF PageTypes
<1>2. QED BY <1>1 DEF View, Views, Gates

LEMMA RecordTyped ==
    ASSUME PageTypes, NEW m \in Machine
    PROVE  Info(m) \in Records
<1>1. View(m) \in Views
  BY ViewTyped
<1>2. (IF Build[m] = "headless" THEN "headless" ELSE "ok") \in States
  BY DEF States
<1>3. (Build[m] \in {"full", "midway"}) \in BOOLEAN
  OBVIOUS
<1>4. QED BY <1>1, <1>2, <1>3 DEF Info, Records

\* The record a row reads is a record, whichever cache and overlay it has.
LEMMA EffectiveTyped ==
    ASSUME NEW h \in Host, NEW c \in [Host -> Records \cup {None}],
           NEW l \in [Host -> Laid \cup {None}]
    PROVE  LET r == EffectiveRecord(h, c, l)
           IN  r # None => r \in Records
<1> DEFINE under == IF c[h] = None THEN Silent("absent") ELSE c[h]
<1>1. under \in Records
  BY DEF Silent, Records, States
<1>2. l[h] # None => l[h].view \in Views
  BY DEF Laid
<1>3. l[h] # None => [under EXCEPT !.view = l[h].view] \in Records
  BY <1>1, <1>2 DEF Records
<1>4. QED BY <1>3 DEF EffectiveRecord

LEMMA CapabilityTyped == \A r : CapabilityFrom(r) \in Caps
  BY DEF CapabilityFrom, Caps

LEMMA SettledTyped ==
    ASSUME NEW e \in Reasons \cup {None}, NEW m \in Machine \cup {None}
    PROVE  Settled(e, m) \in Checks /\ ~Settled(e, m).inFlight
  BY DEF Settled, Checks

\* What becomes of a check that is asked for: it is settled, or a request for
\* it leaves.
AskResult(r, h, id) ==
    /\ r.chk \in Checks
    /\ \A c \in r.calls :
          /\ IsCall(c) /\ c.id = id /\ c.kind # "write" /\ c.pc = "out"
          /\ AwaitedBy(h, c)
    /\ r.chk.inFlight => r.calls # {}
\* A check that was under way already is left alone.
LeftAlone(r, st) == r.chk = st /\ r.calls = {}

LEMMA AskedTyped ==
    ASSUME PageTypes, NEW h \in Host, NEW cap \in Caps, NEW id \in Nat,
           NEW probed, NEW st \in Checks
    PROVE  AskResult(Asked(h, cap, id, probed, st), h, id)
<1>1. CASE cap \notin {"ready", "unproven"}
  BY <1>1, SettledTyped DEF Asked, AskResult, Reasons
<1>2. CASE cap \in {"ready", "unproven"} /\ url[h] = None
  <2>1. Failure(cap) \in Reasons
    BY DEF Failure, Reasons, Caps
  <2>2. QED BY <1>2, <2>1, SettledTyped DEF Asked, AskResult
<1>3. CASE cap \in {"ready", "unproven"} /\ url[h] # None
  <2> DEFINE q == Call(id, "check", h, url[h], cap)
             c == [q EXCEPT !.named = probed]
             st1 == [st EXCEPT !.inFlight = TRUE]
  <2>1. url[h] \in Machine
    BY <1>3 DEF PageTypes
  <2>2. /\ IsCall(q) /\ q.id = id /\ q.kind = "check" /\ q.host = h /\ ~q.orphan
        /\ q.pc = "out"
    BY <1>3, <2>1, CallMade, CallTyped
  <2>3. /\ DOMAIN c = CallFields
        /\ \A f \in CallFields \ {"named"} : c[f] = q[f]
    BY <2>2 DEF IsCall, CallFields
  <2>4. /\ IsCall(c) /\ c.id = id /\ c.kind = "check" /\ c.pc = "out"
        /\ AwaitedBy(h, c)
    <3> HIDE DEF c, q
    <3>1. /\ c.id = q.id /\ c.kind = q.kind /\ c.host = q.host
          /\ c.mach = q.mach /\ c.why = q.why /\ c.pc = q.pc
          /\ c.orphan = q.orphan
      BY <2>3 DEF CallFields
    <3>2. QED BY <2>2, <2>3, <3>1 DEF IsCall, AwaitedBy
  <2>5. st1 \in Checks
    BY DEF Checks
  <2>6. Asked(h, cap, id, probed, st) = [chk |-> st1, calls |-> {c}]
    BY <1>3 DEF Asked
  <2> HIDE DEF c, st1
  <2>7. QED BY <2>4, <2>5, <2>6 DEF AskResult
<1>4. QED BY <1>1, <1>2, <1>3

LEMMA PollTyped ==
    ASSUME PageTypes, NEW h \in Host, NEW refresh, NEW id \in Nat,
           NEW c \in [Host -> Records \cup {None}],
           NEW l \in [Host -> Laid \cup {None}], NEW st \in Checks
    PROVE  LET r == Poll(h, refresh, c, l, id, st)
           IN  AskResult(r, h, id) \/ LeftAlone(r, st)
<1> DEFINE r == Poll(h, refresh, c, l, id, st)
<1>1. CASE url[h] = None
  BY <1>1, SettledTyped DEF Poll, AskResult, Reasons
<1>2. CASE url[h] # None /\ st.inFlight
  BY <1>2 DEF Poll, LeftAlone
<1>3. CASE url[h] # None /\ ~st.inFlight /\ (refresh \/ c[h] = None)
  <2> DEFINE q == Call(id, "read", h, url[h], "poll")
             st1 == [st EXCEPT !.inFlight = TRUE]
  <2>1. url[h] \in Machine
    BY <1>3 DEF PageTypes
  <2>2. /\ IsCall(q) /\ q.id = id /\ q.kind = "read" /\ q.host = h
        /\ q.why = "poll" /\ ~q.orphan /\ q.pc = "out"
    BY <2>1, CallMade, CallTyped
  <2>3. st1 \in Checks
    BY DEF Checks
  <2>4. r = [chk |-> st1, calls |-> {q}]
    BY <1>3 DEF Poll
  <2> HIDE DEF q, st1
  <2>5. QED BY <2>2, <2>3, <2>4 DEF AskResult, AwaitedBy
<1>4. CASE url[h] # None /\ ~st.inFlight /\ ~(refresh \/ c[h] = None)
  <2> DEFINE cap == CapabilityFrom(EffectiveRecord(h, c, l))
  <2>1. cap \in Caps
    BY CapabilityTyped
  <2>2. r = Asked(h, cap, id, url[h], st)
    BY <1>4 DEF Poll
  <2> HIDE DEF cap
  <2>3. QED BY <2>1, <2>2, AskedTyped
<1>5. QED BY <1>1, <1>2, <1>3, <1>4

(* ------------------------- how the requests move ------------------------- *)

\* A grant on the facts it was sent from, to the machine that was named
\* (GrantsAreCurrent, of one request).
Current(c) ==
    (c.changes # None /\ c.before # None
     /\ c.changes.want /\ (c.row = "self" \/ c.why = "consent"))
        => c.changes.keys \cap (c.before.on \cup c.before.lock) = {}
Aimed(c) == c.named = c.mach

\* The same request, a step later.
Same(c, b) ==
    /\ c.id = b.id /\ c.kind = b.kind /\ c.host = b.host /\ c.mach = b.mach
    /\ c.why = b.why /\ c.row = b.row /\ c.changes = b.changes
    /\ c.before = b.before /\ c.named = b.named
\* A write is where it was, or lost.
Stays(c, b) ==
    c.kind = "write" => \/ c.pc = b.pc /\ c.ans = b.ans
                        \/ c.pc \notin {"out", "back"}
\* A write has just been answered, the first to its machine.
Served(c, b) ==
    /\ c.kind = "write" /\ b.pc = "out" /\ c.pc = "back" /\ FirstWrite(b)
    /\ c.ans.view.rev = gate'[c.mach].rev
\* A request that has just left; a write is the page's latest operation.
Leaves(c) ==
    /\ c.pc = "out"
    /\ c.kind = "write" => c.id = opSeq + 1 /\ Current(c) /\ Aimed(c)

CallsMove ==
    \A c \in calls' :
        /\ IsCall(c) /\ c.id <= opSeq'
        /\ \/ \E b \in calls : Same(c, b) /\ Stays(c, b)
           \/ \E b \in calls : Same(c, b) /\ Served(c, b)
           \/ Leaves(c)

\* Requests end, and others that are no writes leave.
LEMMA NoWrite ==
    ASSUME FleetTypes, OneEach, opSeq' \in Nat, opSeq <= opSeq',
           \A c \in calls' : \/ c \in calls
                             \/ /\ IsCall(c) /\ c.id <= opSeq'
                                /\ c.pc = "out" /\ c.kind # "write"
    PROVE  CallsMove /\ OneEach'
<1>1. \A c \in calls : IsCall(c) /\ c.id <= opSeq' /\ Same(c, c) /\ Stays(c, c)
  <2>1. opSeq \in Nat /\ \A c \in calls : IsCall(c) /\ c.id <= opSeq
    BY DEF FleetTypes, PageTypes, CallTypes
  <2>2. \A c \in calls : c.id <= opSeq'
    BY <2>1 DEF IsCall
  <2>3. QED BY <2>1, <2>2 DEF Same, Stays
<1>2. CallsMove
  BY <1>1 DEF CallsMove, Leaves
<1>3. OneEach'
  <2>1. \A c \in Written' : c \in Written
    BY DEF Written
  <2>2. QED BY <2>1 DEF OneEach
<1>4. QED BY <1>2, <1>3

\* The requests are those that were, but one, which moves on.
LEMMA OneMoves ==
    ASSUME FleetTypes, OneEach, opSeq' = opSeq, NEW b \in calls, NEW c,
           IsCall(c), Same(c, b), Stays(c, b) \/ Served(c, b),
           calls' = (calls \ {b}) \cup {c}
    PROVE  CallsMove /\ OneEach'
<1>1. opSeq \in Nat /\ \A x \in calls : IsCall(x) /\ x.id <= opSeq
  BY DEF FleetTypes, PageTypes, CallTypes
<1>2. \A x \in calls : Same(x, x) /\ Stays(x, x)
  BY DEF Same, Stays
<1>3. c.id = b.id /\ c.kind = b.kind
  BY DEF Same
<1>4. CallsMove
  BY <1>1, <1>2, <1>3 DEF CallsMove
<1>5. OneEach'
  <2>1. \A x, y \in Written' : x.id = y.id => x = y
    BY <1>3 DEF Written, OneEach
  <2>2. QED BY <2>1 DEF OneEach
<1>6. QED BY <1>4, <1>5

\* setPolicy sends a write.
LEMMA Sends ==
    ASSUME FleetTypes, OneEach, NEW others \in SUBSET calls, NEW h \in Host,
           url[h] \in Machine, NEW row \in Row, NEW changes,
           changes.keys \subseteq Key, NEW why,
           why = "consent" => Local \in Host, NEW named, named = url[h],
           NEW before,
           SendWrite(others, h, row, changes, why, named, before),
           \A c : (/\ c.changes = changes /\ c.before = before
                   /\ c.row = row /\ c.why = why) => Current(c)
    PROVE  /\ CallsMove /\ OneEach'
           /\ opSeq' = opSeq + 1 /\ ops' \in [Host -> [Row -> Phase]]
           /\ others \subseteq calls'
<1> DEFINE w == Posted(opSeq + 1, h, url[h], why, changes, row, before, named)
<1>1. opSeq' = opSeq + 1 /\ calls' = others \cup {w}
  BY DEF SendWrite, Posted
<1>2. opSeq \in Nat /\ \A x \in calls : IsCall(x) /\ x.id <= opSeq
  BY DEF FleetTypes, PageTypes, CallTypes
<1>3. /\ DOMAIN w = CallFields
      /\ w.id = opSeq + 1 /\ w.kind = "write" /\ w.host = h /\ w.mach = url[h]
      /\ w.why = why /\ w.pc = "out" /\ w.changes = changes
      /\ w.row = row /\ w.before = before /\ w.named = named
  BY PostedFields
<1>4. ops' \in [Host -> [Row -> Phase]]
  <2>1. ops \in [Host -> [Row -> Phase]]
    BY DEF FleetTypes, PageTypes
  <2>2. [ops[h] EXCEPT ![row] = "busy"] \in [Row -> Phase]
    BY <2>1 DEF Phase
  <2>3. QED BY <2>1, <2>2 DEF SendWrite
<1> HIDE DEF w
<1>5. IsCall(w) /\ Current(w) /\ Aimed(w)
  BY <1>2, <1>3 DEF IsCall, Aimed
<1>6. CallsMove
  <2>1. \A x \in calls : IsCall(x) /\ x.id <= opSeq' /\ Same(x, x) /\ Stays(x, x)
    BY <1>1, <1>2 DEF IsCall, Same, Stays
  <2>2. IsCall(w) /\ w.id <= opSeq' /\ Leaves(w)
    BY <1>1, <1>2, <1>3, <1>5 DEF Leaves
  <2>3. QED BY <1>1, <2>1, <2>2 DEF CallsMove
<1>7. OneEach'
  <2>1. \A x \in calls : x.id # w.id
    BY <1>2, <1>3 DEF IsCall
  <2>2. \A x, y \in Written' : x.id = y.id => x = y
    BY <1>1, <2>1 DEF Written, OneEach
  <2>3. QED BY <2>2 DEF OneEach
<1>8. QED BY <1>1, <1>4, <1>6, <1>7

(* ------------------------------ each step -------------------------------- *)

Keeps == FleetTypes' /\ CallsMove /\ OneEach'

\* Every check under way still has its request.
LEMMA StillAwaited ==
    ASSUME CheckTypes, UNCHANGED chk,
           \A h \in Host : \A b \in calls :
               AwaitedBy(h, b) => Awaited(h, calls')
    PROVE  CheckTypes'
<1>1. \A h \in Host : Awaited(h, calls) => Awaited(h, calls')
  BY DEF Awaited
<1>2. QED BY <1>1 DEF CheckTypes

LEMMA Together ==
    ASSUME PageTypes', WriteTypes', CheckTypes', CallsMove, OneEach'
    PROVE  Keeps
  BY DEF Keeps, FleetTypes, CallsMove, CallTypes

LEMMA DeclinedKeeps ==
    ASSUME FleetTypes, OneEach, Declined
    PROVE  Keeps
<1>1. PageTypes' /\ WriteTypes' /\ CheckTypes'
  BY DEF Declined, FleetTypes, PageTypes, WriteTypes, CheckTypes
<1>2. opSeq' = opSeq /\ calls' = calls /\ opSeq \in Nat
  BY DEF Declined, FleetTypes, PageTypes
<1>3. QED BY <1>1, <1>2, NoWrite, Together

LEMMA EditHostsKeeps ==
    ASSUME FleetTypes, OneEach, NEW h \in Host, NEW m \in Machine \cup {None},
           EditHosts(h, m)
    PROVE  Keeps
<1>1. /\ url' = [url EXCEPT ![h] = m] /\ h # Local
      /\ UNCHANGED <<gate, cat, lw, lws, opSeq, chk, ops, calls, dialog,
                     consent, told>>
  BY DEF EditHosts
<1>2. PageTypes'
  BY <1>1 DEF FleetTypes, PageTypes
<1>3. WriteTypes' /\ CheckTypes'
  BY <1>1 DEF FleetTypes, WriteTypes, CheckTypes
<1>4. opSeq \in Nat
  BY DEF FleetTypes, PageTypes
<1>5. QED BY <1>1, <1>2, <1>3, <1>4, NoWrite, Together

\* What another browser or a config file does to a broker's gates.
LEMMA ElsewhereGates ==
    ASSUME PageTypes, NEW m \in Machine, NEW k \in Key, Elsewhere(m, k)
    PROVE  /\ gate' \in [Machine -> Gates]
           /\ \A n \in Machine : gate[n].rev <= gate'[n].rev
<1>1. gate \in [Machine -> Gates]
  BY DEF PageTypes
<1>2. PICK after \in {[gate[m] EXCEPT !.on = IF k \in @ THEN @ \ {k}
                                            ELSE @ \cup {k}],
                      [gate[m] EXCEPT !.lock = @ \cup {k}]} :
          gate' = [gate EXCEPT ![m] = [after EXCEPT !.rev = @ + 1]]
  BY DEF Elsewhere
<1>3. gate[m] \in Gates /\ gate[m].on \subseteq Key /\ gate[m].lock \subseteq Key
  BY <1>1 DEF Gates
<1>4. after \in Gates /\ after.rev = gate[m].rev
  <2>1. (IF k \in gate[m].on THEN gate[m].on \ {k} ELSE gate[m].on \cup {k})
            \in SUBSET Key
    BY <1>3
  <2>2. gate[m].lock \cup {k} \in SUBSET Key
    BY <1>3
  <2>3. QED BY <1>2, <1>3, <2>1, <2>2 DEF Gates
<1> DEFINE g == [after EXCEPT !.rev = @ + 1]
<1>5. g \in Gates /\ g.rev = gate[m].rev + 1
  BY <1>4 DEF Gates
<1>6. gate' = [gate EXCEPT ![m] = g]
  BY <1>2
<1>7. \A n \in Machine : gate[n].rev \in Nat
  BY <1>1 DEF Gates
<1> HIDE DEF g
<1>8. QED BY <1>1, <1>5, <1>6, <1>7

LEMMA ElsewhereKeeps ==
    ASSUME FleetTypes, OneEach, NEW m \in Machine, NEW k \in Key,
           Elsewhere(m, k)
    PROVE  Keeps
<1>1. UNCHANGED <<url, cat, lw, lws, opSeq, chk, ops, calls, dialog, consent,
                  told>>
  BY DEF Elsewhere
<1>2. PageTypes'
  BY <1>1, ElsewhereGates DEF FleetTypes, PageTypes
<1>3. WriteTypes' /\ CheckTypes'
  BY <1>1 DEF FleetTypes, WriteTypes, CheckTypes
<1>4. opSeq \in Nat
  BY DEF FleetTypes, PageTypes
<1>5. QED BY <1>1, <1>2, <1>3, <1>4, NoWrite, Together

LEMMA PanelReadKeeps ==
    ASSUME FleetTypes, OneEach, NEW h \in Host, PanelRead(h)
    PROVE  Keeps
<1> DEFINE q == Call(opSeq + 1, "read", h, url[h], "panel")
<1>1. /\ opSeq' = opSeq + 1 /\ calls' = calls \cup {q} /\ url[h] # None
      /\ UNCHANGED <<url, gate, cat, lw, lws, chk, ops, dialog, consent, told>>
  BY DEF PanelRead
<1>2. opSeq \in Nat /\ url[h] \in Machine
  BY <1>1 DEF FleetTypes, PageTypes
<1>3. IsCall(q) /\ q.id = opSeq + 1 /\ q.pc = "out" /\ q.kind = "read"
  BY <1>2, CallMade, CallTyped
<1> HIDE DEF q
<1>4. PageTypes' /\ WriteTypes'
  BY <1>1, <1>2 DEF FleetTypes, PageTypes, WriteTypes
<1>5. CheckTypes'
  BY <1>1, StillAwaited DEF FleetTypes, Awaited
<1>6. CallsMove /\ OneEach'
  BY <1>1, <1>2, <1>3, NoWrite
<1>7. QED BY <1>4, <1>5, <1>6, Together

\* A write that ends without an answer the page keeps: its row comes to rest.
LEMMA WriteEnds ==
    ASSUME FleetTypes, OneEach, NEW c \in calls, c.kind = "write",
           calls' = calls \ {c}, NEW phase \in Phase, Row2Phase(c, phase),
           UNCHANGED <<url, gate, cat, lw, lws, opSeq, chk, dialog, consent,
                       told>>
    PROVE  Keeps
<1>1. IsCall(c) /\ opSeq \in Nat /\ ops \in [Host -> [Row -> Phase]]
  BY DEF FleetTypes, CallTypes, PageTypes
<1>2. ops' \in [Host -> [Row -> Phase]]
  <2>1. c.host \in Host /\ c.row \in Row
    BY <1>1 DEF IsCall
  <2>2. [ops[c.host] EXCEPT ![c.row] = phase] \in [Row -> Phase]
    BY <1>1, <2>1
  <2>3. QED BY <1>1, <2>1, <2>2 DEF Row2Phase
<1>3. PageTypes' /\ WriteTypes'
  BY <1>2 DEF FleetTypes, PageTypes, WriteTypes
<1>4. CheckTypes'
  <2>1. \A h \in Host : \A b \in calls : AwaitedBy(h, b) => b \in calls'
    BY DEF AwaitedBy
  <2>2. QED BY <2>1, StillAwaited DEF FleetTypes, Awaited
<1>5. CallsMove /\ OneEach'
  BY <1>1, NoWrite
<1>6. QED BY <1>3, <1>4, <1>5, Together

LEMMA EndsKeep ==
    ASSUME FleetTypes, OneEach, NEW c \in calls,
           LandFailedWrite(c) \/ LandMovedWrite(c) \/ CancelWrite(c)
    PROVE  Keeps
<1>1. CASE LandFailedWrite(c)
  <2> DEFINE phase == IF c.pc = "refused" /\ url[c.host] # c.mach
                      THEN "idle" ELSE "failed"
  <2>1. phase \in Phase
    BY DEF Phase
  <2>2. Row2Phase(c, phase)
    BY <1>1 DEF LandFailedWrite
  <2> HIDE DEF phase
  <2>3. QED BY <1>1, <2>1, <2>2, WriteEnds DEF LandFailedWrite
<1>2. CASE LandMovedWrite(c) \/ CancelWrite(c)
  <2>1. "idle" \in Phase
    BY DEF Phase
  <2>2. QED BY <1>2, <2>1, WriteEnds DEF LandMovedWrite, CancelWrite
<1>3. QED BY <1>1, <1>2

LEMMA RowKeys ==
    ASSUME NEW v, NEW row \in Row
    PROVE  LET m == RowModel(row, v)
           IN  /\ m.keys \subseteq Key
               /\ (row = "self" /\ ~m.on) => m.keys \cap (v.on \cup v.lock) = {}
<1>1. /\ SelfRow(v).keys \subseteq Key
      /\ ~SelfRow(v).on => SelfRow(v).keys \cap (v.on \cup v.lock) = {}
  BY DEF SelfRow, SelfKeys, Key
<1>2. CheckRow(v).keys \subseteq Key
  BY DEF CheckRow, Key
<1>3. QED BY <1>1, <1>2 DEF RowModel

LEMMA ClickKeeps ==
    ASSUME FleetTypes, OneEach, NEW h \in Host, NEW row \in Row, Click(h, row)
    PROVE  Keeps
<1> DEFINE v == UpdateCap(h)
           m == RowModel(row, v)
<1>1. /\ url[h] # None
      /\ UNCHANGED <<url, gate, cat, lw, lws, chk, consent, told>>
      /\ \/ /\ dialog' = [host |-> h, row |-> row, mach |-> url[h],
                          keys |-> m.keys]
            /\ UNCHANGED <<opSeq, calls, ops>>
         \/ /\ SendWrite(calls, h, row, [keys |-> m.keys, want |-> ~m.on],
                         "click", url[h], v)
            /\ UNCHANGED dialog
  BY DEF Click
<1>2. m.keys \subseteq Key /\ ((row = "self" /\ ~m.on) =>
                                   m.keys \cap (v.on \cup v.lock) = {})
  BY RowKeys
<1> HIDE DEF m, v
<1>3. opSeq \in Nat /\ url[h] \in Machine
  BY <1>1 DEF FleetTypes, PageTypes
<1>4. ASSUME UNCHANGED <<opSeq, calls, ops>>,
             dialog' = [host |-> h, row |-> row, mach |-> url[h],
                        keys |-> m.keys]
      PROVE  Keeps
  <2>1. PageTypes' /\ WriteTypes' /\ CheckTypes'
    BY <1>1, <1>4 DEF FleetTypes, PageTypes, WriteTypes, CheckTypes
  <2>2. QED BY <1>3, <1>4, <2>1, NoWrite, Together
<1>5. ASSUME SendWrite(calls, h, row, [keys |-> m.keys, want |-> ~m.on],
                       "click", url[h], v), UNCHANGED dialog
      PROVE  Keeps
  <2> DEFINE changes == [keys |-> m.keys, want |-> ~m.on]
  <2>1. changes.keys \subseteq Key
    BY <1>2
  <2>2. row = "self" /\ changes.want =>
            changes.keys \cap (v.on \cup v.lock) = {}
    BY <1>2
  <2> HIDE DEF changes
  <2>3. \A c : (/\ c.changes = changes /\ c.before = v
                /\ c.row = row /\ c.why = "click") => Current(c)
    BY <2>2 DEF Current
  <2>4. /\ CallsMove /\ OneEach' /\ opSeq' = opSeq + 1
        /\ ops' \in [Host -> [Row -> Phase]] /\ calls \subseteq calls'
    BY <1>3, <1>5, <2>1, <2>3, Sends DEF changes
  <2>5. PageTypes' /\ WriteTypes'
    BY <1>1, <1>3, <1>5, <2>4 DEF FleetTypes, PageTypes, WriteTypes
  <2>6. CheckTypes'
    BY <1>1, <2>4, StillAwaited DEF FleetTypes, Awaited
  <2>7. QED BY <2>4, <2>5, <2>6, Together
<1>6. QED BY <1>1, <1>4, <1>5

\* A step that settles the dialog, and posts a write or none.
LEMMA Decided ==
    ASSUME FleetTypes, OneEach, UNCHANGED <<url, gate, cat, lw, lws, chk, told>>,
           consent' \in {consent, "sent"}, dialog' \in {dialog, None},
           opSeq' \in Nat, ops' \in [Host -> [Row -> Phase]],
           CallsMove, OneEach', calls \subseteq calls'
    PROVE  Keeps
<1>1. PageTypes' /\ WriteTypes'
  BY DEF FleetTypes, PageTypes, WriteTypes
<1>2. CheckTypes'
  BY StillAwaited DEF FleetTypes, Awaited
<1>3. QED BY <1>1, <1>2, Together

LEMMA ConfirmedKeeps ==
    ASSUME FleetTypes, OneEach, Confirmed
    PROVE  Keeps
<1> DEFINE d == dialog
           h == d.host
           v == UpdateCap(h)
           m == RowModel("self", v)
           Writes(row, changes) ==
               SendWrite(calls, h, row, changes, "click", d.mach, v)
<1>1. /\ dialog # None /\ dialog' = None
      /\ UNCHANGED <<url, gate, cat, lw, lws, chk, consent, told>>
  BY DEF Confirmed
<1>2. h \in Host /\ d.row \in Row /\ opSeq \in Nat
      /\ ops \in [Host -> [Row -> Phase]]
  BY <1>1 DEF FleetTypes, PageTypes
<1>3. \/ /\ UNCHANGED <<opSeq, calls>>
         /\ ops' \in {ops, [ops EXCEPT ![h] = [@ EXCEPT !["self"] = "failed"]]}
      \/ StillNamed(d) /\ Writes("check", [keys |-> {"check"}, want |-> TRUE])
      \/ /\ StillNamed(d) /\ KeysNow(d, m) # {}
         /\ Writes("self", [keys |-> KeysNow(d, m), want |-> TRUE])
  BY DEF Confirmed
<1>4. StillNamed(d) => url[h] \in Machine /\ d.mach = url[h]
  BY <1>1 DEF StillNamed, FleetTypes, PageTypes
<1>5. KeysNow(d, m) # {} => /\ KeysNow(d, m) \subseteq Key /\ ~m.on
                            /\ KeysNow(d, m) \cap (v.on \cup v.lock) = {}
  BY RowKeys DEF KeysNow, Row
<1> DEFINE keys == KeysNow(d, m)
<1> HIDE DEF m, v, keys
<1>6. ASSUME UNCHANGED <<opSeq, calls>>,
             ops' \in {ops, [ops EXCEPT ![h] = [@ EXCEPT !["self"] = "failed"]]}
      PROVE  Keeps
  <2>1. [ops[h] EXCEPT !["self"] = "failed"] \in [Row -> Phase]
    BY <1>2 DEF Phase
  <2>2. ops' \in [Host -> [Row -> Phase]]
    BY <1>2, <1>6, <2>1
  <2>3. CallsMove /\ OneEach'
    BY <1>2, <1>6, NoWrite
  <2>4. QED BY <1>1, <1>2, <1>6, <2>2, <2>3, Decided
<1>7. ASSUME NEW row \in Row, NEW changes, StillNamed(d), Writes(row, changes),
             changes.keys \subseteq Key,
             \A c : (/\ c.changes = changes /\ c.before = v
                     /\ c.row = row /\ c.why = "click") => Current(c)
      PROVE  Keeps
  <2>1. /\ CallsMove /\ OneEach' /\ opSeq' = opSeq + 1
        /\ ops' \in [Host -> [Row -> Phase]] /\ calls \subseteq calls'
    BY <1>2, <1>4, <1>7, Sends
  <2>2. QED BY <1>1, <1>2, <2>1, Decided
<1>8. ASSUME StillNamed(d), Writes("check", [keys |-> {"check"}, want |-> TRUE])
      PROVE  Keeps
  <2> DEFINE changes == [keys |-> {"check"}, want |-> TRUE]
  <2>1. changes.keys \subseteq Key /\ "check" \in Row
    BY DEF Key, Row
  <2>2. \A c : (/\ c.changes = changes /\ c.before = v
                /\ c.row = "check" /\ c.why = "click") => Current(c)
    BY DEF Current
  <2> HIDE DEF changes
  <2>3. QED BY <1>7, <1>8, <2>1, <2>2 DEF changes
<1>9. ASSUME StillNamed(d), keys # {},
             Writes("self", [keys |-> keys, want |-> TRUE])
      PROVE  Keeps
  <2> DEFINE changes == [keys |-> keys, want |-> TRUE]
  <2>1. changes.keys \subseteq Key /\ "self" \in Row
    BY <1>5, <1>9 DEF keys, Row
  <2>2. keys \cap (v.on \cup v.lock) = {}
    BY <1>5, <1>9 DEF keys
  <2>3. \A c : (/\ c.changes = changes /\ c.before = v
                /\ c.row = "self" /\ c.why = "click") => Current(c)
    BY <2>2 DEF Current
  <2> HIDE DEF changes
  <2>4. QED BY <1>7, <1>9, <2>1, <2>3 DEF changes
<1>10. QED BY <1>3, <1>6, <1>8, <1>9 DEF keys

\* Asking for consent: a write of every gate that is ours to open, or nothing.
LEMMA GrantMoves ==
    ASSUME FleetTypes, OneEach, NEW others \in SUBSET calls, Local \in Host,
           NEW v, GrantOrNot(others, v)
    PROVE  /\ CallsMove /\ OneEach' /\ opSeq' \in Nat
           /\ ops' \in [Host -> [Row -> Phase]] /\ others \subseteq calls'
<1>1. /\ opSeq \in Nat /\ ops \in [Host -> [Row -> Phase]]
      /\ url[Local] \in Machine
  BY DEF FleetTypes, PageTypes
<1>2. CASE calls' = others /\ UNCHANGED <<opSeq, ops>>
  BY <1>1, <1>2, NoWrite
<1>3. CASE SendWrite(others, Local, "check",
                     [keys |-> Grants(v), want |-> TRUE],
                     "consent", url[Local], v)
  <2> DEFINE changes == [keys |-> Grants(v), want |-> TRUE]
  <2>1. changes.keys \subseteq Key /\ "check" \in Row
    BY DEF Grants, Row
  <2>2. \A c : (/\ c.changes = changes /\ c.before = v
                /\ c.row = "check" /\ c.why = "consent") => Current(c)
    BY DEF Current, Grants
  <2> HIDE DEF changes
  <2>3. /\ CallsMove /\ OneEach' /\ opSeq' = opSeq + 1
        /\ ops' \in [Host -> [Row -> Phase]] /\ others \subseteq calls'
    BY <1>1, <1>3, <2>1, <2>2, Sends DEF changes
  <2>4. QED BY <1>1, <2>3
<1>4. QED BY <1>2, <1>3 DEF GrantOrNot

LEMMA OfferConsentKeeps ==
    ASSUME FleetTypes, OneEach, OfferConsent
    PROVE  Keeps
<1> DEFINE q == Call(opSeq + 1, "read", Local, url[Local], "consent")
           v == UpdateCap(Local)
<1>1. /\ Local \in Host /\ url[Local] \in Machine /\ opSeq \in Nat
      /\ ops \in [Host -> [Row -> Phase]]
  BY DEF OfferConsent, FleetTypes, PageTypes
<1>2. /\ consent' = "sent"
      /\ UNCHANGED <<url, gate, cat, lw, lws, chk, dialog, told>>
      /\ \/ /\ opSeq' = opSeq + 1 /\ calls' = calls \cup {q}
            /\ UNCHANGED ops
         \/ GrantOrNot(calls, v)
  BY DEF OfferConsent
<1>3. IsCall(q) /\ q.id = opSeq + 1 /\ q.pc = "out" /\ q.kind = "read"
  BY <1>1, CallMade, CallTyped
<1> HIDE DEF q, v
<1>4. ASSUME opSeq' = opSeq + 1, calls' = calls \cup {q}, UNCHANGED ops
      PROVE  Keeps
  <2>1. CallsMove /\ OneEach'
    BY <1>1, <1>3, <1>4, NoWrite
  <2>2. QED BY <1>1, <1>2, <1>4, <2>1, Decided
<1>5. ASSUME GrantOrNot(calls, v) PROVE Keeps
  <2>1. /\ CallsMove /\ OneEach' /\ opSeq' \in Nat
        /\ ops' \in [Host -> [Row -> Phase]] /\ calls \subseteq calls'
    BY <1>1, <1>5, GrantMoves
  <2>2. QED BY <1>2, <2>1, Decided
<1>6. QED BY <1>2, <1>4, <1>5

(* ------------------- brokers answer, requests are lost ------------------- *)

\* A request moves on without ceasing to be what it was for.
LEMMA RequestMoves ==
    ASSUME FleetTypes, OneEach, UNCHANGED <<url, cat, lw, lws, opSeq, chk, ops,
                                            dialog, consent, told>>,
           gate' \in [Machine -> Gates], NEW b \in calls, NEW c, IsCall(c),
           Same(c, b), c.orphan = b.orphan, Stays(c, b) \/ Served(c, b),
           calls' = (calls \ {b}) \cup {c}
    PROVE  Keeps
<1>1. PageTypes' /\ WriteTypes'
  BY DEF FleetTypes, PageTypes, WriteTypes
<1>2. CheckTypes'
  <2>1. \A h \in Host : AwaitedBy(h, b) => AwaitedBy(h, c)
    BY DEF AwaitedBy, Same
  <2>2. \A h \in Host : \A x \in calls : AwaitedBy(h, x) => Awaited(h, calls')
    BY <2>1 DEF Awaited
  <2>3. QED BY <2>2, StillAwaited DEF FleetTypes
<1>3. CallsMove /\ OneEach'
  BY OneMoves
<1>4. QED BY <1>1, <1>2, <1>3, Together

LEMMA LoseKeeps ==
    ASSUME FleetTypes, OneEach, NEW b \in calls, NEW how \in {"fail", "refused"},
           Lose(b, how)
    PROVE  Keeps
<1> DEFINE c == [b EXCEPT !.pc = how, !.ans = None]
<1>1. /\ calls' = (calls \ {b}) \cup {c}
      /\ UNCHANGED <<url, gate, cat, lw, lws, opSeq, chk, ops, dialog, consent,
                     told>>
  BY DEF Lose
<1>2. IsCall(b) /\ DOMAIN b = CallFields /\ gate \in [Machine -> Gates]
  BY DEF FleetTypes, CallTypes, IsCall, PageTypes
<1>3. /\ DOMAIN c = CallFields /\ c.pc = how /\ c.orphan = b.orphan
      /\ Same(c, b)
  BY <1>2, Answered DEF Same
<1> HIDE DEF c
<1>4. IsCall(c)
  BY <1>2, <1>3 DEF IsCall, Same
<1>5. Stays(c, b)
  BY <1>3 DEF Stays
<1>6. QED BY <1>1, <1>2, <1>3, <1>4, <1>5, RequestMoves

\* Gates thrown are gates, one revision on.
LEMMA Thrown ==
    ASSUME NEW g \in Gates, NEW on \in SUBSET Key
    PROVE  LET h == [g EXCEPT !.on = on, !.rev = @ + 1]
           IN  h \in Gates /\ h.rev = g.rev + 1 /\ g.rev <= h.rev
<1> DEFINE h == [g EXCEPT !.on = on, !.rev = @ + 1]
<1>1. g.rev \in Nat /\ g.lock \in SUBSET Key
  BY DEF Gates
<1>2. h.rev = g.rev + 1
  BY DEF Gates
<1>3. h \in Gates
  <2> DEFINE f == [g EXCEPT !.on = on]
  <2>1. f \in Gates /\ f.rev = g.rev
    BY DEF Gates
  <2>2. h = [f EXCEPT !.rev = @ + 1]
    BY DEF Gates
  <2> HIDE DEF f, h
  <2>3. [f EXCEPT !.rev = @ + 1] \in Gates
    BY <2>1 DEF Gates
  <2>4. QED BY <2>2, <2>3
<1>4. QED BY <1>1, <1>2, <1>3

\* What a write leaves of a machine's gates, and the view it answers with.
LEMMA WriteServed ==
    ASSUME FleetTypes, NEW b \in calls, ServeWrite(b)
    PROVE  /\ gate' \in [Machine -> Gates]
           /\ \A n \in Machine : gate[n].rev <= gate'[n].rev
           /\ \E ans : /\ calls' = Back(b, ans) /\ ans.view \in Views
                       /\ ans.view.rev = gate'[b.mach].rev
<1> DEFINE m == b.mach
           locked == b.changes.keys \cap gate[m].lock # {}
           on == IF b.changes.want THEN gate[m].on \cup b.changes.keys
                 ELSE gate[m].on \ b.changes.keys
           after == IF locked THEN gate[m]
                    ELSE [gate[m] EXCEPT !.on = on, !.rev = @ + 1]
           view == [mach |-> m, rev |-> after.rev, on |-> after.on,
                    lock |-> after.lock]
           ans == [ok |-> ~locked, view |-> view]
<1>1. /\ b.kind = "write"
      /\ gate' = [gate EXCEPT ![m] = after]
      /\ calls' = Back(b, ans)
  BY DEF ServeWrite
<1>2. /\ m \in Machine /\ b.changes.keys \subseteq Key
      /\ gate \in [Machine -> Gates] /\ gate[m] \in Gates
  BY <1>1 DEF FleetTypes, CallTypes, IsCall, PageTypes
<1>3. on \in SUBSET Key
  <2>1. gate[m].on \in SUBSET Key
    BY <1>2 DEF Gates
  <2>2. QED BY <1>2, <2>1
<1> HIDE DEF on
<1>4. after \in Gates /\ gate[m].rev <= after.rev
  <2>1. gate[m].rev <= gate[m].rev
    BY <1>2 DEF Gates
  <2>2. QED BY <1>2, <1>3, <2>1, Thrown
<1> HIDE DEF after
<1>5. view \in Views
  BY <1>2, <1>4 DEF Views, Gates
<1>6. gate' \in [Machine -> Gates] /\ gate'[m] = after
  BY <1>1, <1>2, <1>4
<1>7. \A n \in Machine : gate[n].rev <= gate'[n].rev
  <2>1. \A n \in Machine : gate[n].rev \in Nat
    BY <1>2 DEF Gates
  <2>2. QED BY <1>1, <1>2, <1>4, <2>1
<1>8. ans.view = view /\ view.rev = after.rev
  OBVIOUS
<1> HIDE DEF ans, view
<1>9. QED BY <1>1, <1>5, <1>6, <1>7, <1>8

LEMMA ServeKeeps ==
    ASSUME FleetTypes, OneEach, NEW b \in calls, Serve(b)
    PROVE  Keeps
<1>1. /\ ServeInfo(b) \/ ServeCheck(b) \/ ServeWrite(b)
      /\ UNCHANGED <<url, cat, lw, lws, opSeq, chk, ops, dialog, consent, told>>
  BY DEF Serve
<1>2. IsCall(b) /\ DOMAIN b = CallFields /\ gate \in [Machine -> Gates]
  BY DEF FleetTypes, CallTypes, IsCall, PageTypes
<1>3. ASSUME NEW ans, gate' \in [Machine -> Gates], calls' = Back(b, ans),
             b.kind = "read" => ans \in Records,
             b.kind = "write" => /\ ans.view \in Views
                                 /\ b.pc = "out" /\ FirstWrite(b)
                                 /\ ans.view.rev = gate'[b.mach].rev
      PROVE  Keeps
  <2> DEFINE c == [b EXCEPT !.pc = "back", !.ans = ans]
  <2>1. calls' = (calls \ {b}) \cup {c}
    BY <1>3 DEF Back
  <2>2. /\ DOMAIN c = CallFields /\ c.pc = "back" /\ c.ans = ans
        /\ c.orphan = b.orphan /\ Same(c, b)
    BY <1>2, Answered DEF Same
  <2> HIDE DEF c
  <2>3. IsCall(c)
    BY <1>2, <1>3, <2>2 DEF IsCall, Same
  <2>4. Stays(c, b) \/ Served(c, b)
    BY <1>3, <2>2 DEF Stays, Served, Same
  <2>5. QED BY <1>1, <1>3, <2>1, <2>2, <2>3, <2>4, RequestMoves
<1>4. CASE ServeInfo(b)
  <2>1. b.kind = "read" /\ gate' = gate /\ calls' = Back(b, Info(b.mach))
    BY <1>4 DEF ServeInfo
  <2>2. Info(b.mach) \in Records
    BY <1>2, RecordTyped DEF IsCall, FleetTypes
  <2>3. QED BY <1>2, <1>3, <2>1, <2>2
<1>5. CASE ServeCheck(b)
  <2>1. PICK ans : b.kind = "check" /\ gate' = gate /\ calls' = Back(b, ans)
    BY <1>5 DEF ServeCheck
  <2>2. QED BY <1>2, <1>3, <2>1
<1>6. CASE ServeWrite(b)
  <2>1. b.kind = "write" /\ b.pc = "out" /\ FirstWrite(b)
    BY <1>6 DEF ServeWrite
  <2>2. PICK ans : /\ calls' = Back(b, ans) /\ ans.view \in Views
                   /\ ans.view.rev = gate'[b.mach].rev
    BY <1>6, WriteServed
  <2>3. gate' \in [Machine -> Gates]
    BY <1>6, WriteServed
  <2>4. QED BY <1>3, <2>1, <2>2, <2>3
<1>7. QED BY <1>1, <1>4, <1>5, <1>6

(* ----------------------------- answers land ------------------------------ *)

\* A request has ended: the checks that wait for another still have it.
LEMMA OthersAwaited ==
    ASSUME FleetTypes, NEW b \in calls, calls \ {b} \subseteq calls',
           NEW h \in Host, chk[h].inFlight, ~AwaitedBy(h, b)
    PROVE  Awaited(h, calls')
<1>1. PICK c \in calls : AwaitedBy(h, c)
  BY DEF FleetTypes, CheckTypes, Awaited
<1>2. QED BY <1>1 DEF Awaited

\* One check moves to r, with the request b at its end.
LEMMA OneChecked ==
    ASSUME FleetTypes, NEW b \in calls, calls \ {b} \subseteq calls',
           NEW r \in Checks, chk' = [chk EXCEPT ![b.host] = r],
           r.inFlight => Awaited(b.host, calls')
    PROVE  CheckTypes'
<1>1. chk \in [Host -> Checks] /\ b.host \in Host
  BY DEF FleetTypes, CheckTypes, CallTypes, IsCall
<1>2. chk' \in [Host -> Checks] /\ chk'[b.host] = r
      /\ \A h \in Host : h # b.host => chk'[h] = chk[h]
  BY <1>1
<1>3. ASSUME NEW h \in Host, chk'[h].inFlight PROVE Awaited(h, calls')
  <2>1. CASE h = b.host
    BY <1>2, <1>3, <2>1
  <2>2. CASE h # b.host
    <3>1. ~AwaitedBy(h, b) /\ chk[h].inFlight
      BY <1>2, <1>3, <2>2 DEF AwaitedBy
    <3>2. QED BY <3>1, OthersAwaited
  <2>3. QED BY <2>1, <2>2
<1>4. QED BY <1>2, <1>3 DEF CheckTypes

\* No check moves, and none waits for the request that ends.
LEMMA NoneChecked ==
    ASSUME FleetTypes, NEW b \in calls, calls \ {b} \subseteq calls',
           UNCHANGED chk, \A h \in Host : ~AwaitedBy(h, b)
    PROVE  CheckTypes'
<1>1. \A h \in Host : chk[h].inFlight => Awaited(h, calls')
  BY OthersAwaited
<1>2. QED BY <1>1 DEF FleetTypes, CheckTypes

LEMMA LandCheckKeeps ==
    ASSUME FleetTypes, OneEach, NEW c \in calls, LandCheck(c)
    PROVE  Keeps
<1> DEFINE h == c.host
           r == CASE c.pc = "fail" -> Settled(Failure(c.why), None)
                  [] c.pc = "refused" -> Settled("unauthorized", None)
                  [] c.ans = "closed" -> Settled("not-opted-in", None)
                  [] OTHER -> Settled(None, c.mach)
<1>1. /\ calls' = calls \ {c}
      /\ chk' = IF c.orphan THEN chk ELSE [chk EXCEPT ![h] = r]
      /\ UNCHANGED <<url, gate, cat, lw, lws, opSeq, ops, dialog, consent, told>>
  BY DEF LandCheck
<1>2. IsCall(c) /\ opSeq \in Nat
  BY DEF FleetTypes, CallTypes, PageTypes
<1>3. r \in Checks /\ ~r.inFlight
  <2>1. /\ Failure(c.why) \in Reasons
        /\ "unauthorized" \in Reasons /\ "not-opted-in" \in Reasons
    BY DEF Failure, Reasons, Caps
  <2>2. /\ \A e \in Reasons : Settled(e, None) \in Checks
                              /\ ~Settled(e, None).inFlight
        /\ Settled(None, c.mach) \in Checks /\ ~Settled(None, c.mach).inFlight
    BY <1>2, SettledTyped DEF IsCall
  <2>3. r \in {Settled(Failure(c.why), None), Settled("unauthorized", None),
               Settled("not-opted-in", None), Settled(None, c.mach)}
    OBVIOUS
  <2> HIDE DEF r
  <2>4. QED BY <2>1, <2>2, <2>3
<1> HIDE DEF r
<1>4. CheckTypes'
  <2>1. CASE c.orphan
    BY <1>1, <2>1, NoneChecked DEF AwaitedBy
  <2>2. CASE ~c.orphan
    BY <1>1, <1>3, <2>2, OneChecked
  <2>3. QED BY <2>1, <2>2
<1>5. PageTypes' /\ WriteTypes'
  BY <1>1 DEF FleetTypes, PageTypes, WriteTypes
<1>6. CallsMove /\ OneEach'
  BY <1>1, <1>2, NoWrite
<1>7. QED BY <1>4, <1>5, <1>6, Together

\* A read for a check has landed: the check goes on, unless it was forgotten.
LEMMA Continued ==
    ASSUME FleetTypes, OneEach, NEW c \in calls, NEW r,
           \/ AskResult(r, c.host, c.id)
           \/ LeftAlone(r, chk[c.host]) /\ ~AwaitedBy(c.host, c),
           UNCHANGED opSeq,
           calls' = (calls \ {c}) \cup {[d EXCEPT !.orphan = c.orphan] :
                                            d \in r.calls},
           chk' = IF c.orphan THEN chk ELSE [chk EXCEPT ![c.host] = r.chk]
    PROVE  CheckTypes' /\ CallsMove /\ OneEach'
<1> DEFINE h == c.host
           Copy(d) == [d EXCEPT !.orphan = c.orphan]
<1>1. /\ IsCall(c) /\ c.id <= opSeq /\ h \in Host /\ opSeq \in Nat
      /\ chk \in [Host -> Checks]
  BY DEF FleetTypes, CallTypes, CheckTypes, IsCall, PageTypes
<1>2. ASSUME NEW d \in r.calls
      PROVE  /\ IsCall(Copy(d)) /\ Copy(d).id <= opSeq /\ Copy(d).pc = "out"
             /\ Copy(d).kind # "write"
             /\ ~c.orphan => AwaitedBy(h, Copy(d))
  <2>1. /\ IsCall(d) /\ d.id = c.id /\ d.kind # "write" /\ d.pc = "out"
        /\ AwaitedBy(h, d) /\ DOMAIN d = CallFields
    BY <1>2 DEF AskResult, LeftAlone, IsCall
  <2>2. /\ DOMAIN Copy(d) = CallFields /\ Copy(d).orphan = c.orphan
        /\ Copy(d).pc = d.pc /\ Copy(d).ans = d.ans
        /\ Copy(d).id = d.id /\ Copy(d).kind = d.kind
        /\ Copy(d).host = d.host /\ Copy(d).mach = d.mach
        /\ Copy(d).why = d.why
    BY <2>1, Forgotten
  <2> HIDE DEF Copy
  <2>3. QED BY <1>1, <2>1, <2>2 DEF IsCall, AwaitedBy
<1> HIDE DEF Copy
<1>3. calls' = (calls \ {c}) \cup {Copy(d) : d \in r.calls}
  BY DEF Copy
<1>4. CallsMove /\ OneEach'
  BY <1>1, <1>2, <1>3, NoWrite
<1>5. CheckTypes'
  <2>1. CASE c.orphan
    BY <1>3, <2>1, NoneChecked DEF AwaitedBy
  <2>2. CASE ~c.orphan /\ AskResult(r, h, c.id)
    <3>1. r.chk \in Checks /\ (r.chk.inFlight => Awaited(h, calls'))
      BY <1>2, <1>3, <2>2 DEF AskResult, Awaited
    <3>2. QED BY <1>3, <2>2, <3>1, OneChecked
  <2>3. CASE ~c.orphan /\ LeftAlone(r, chk[h]) /\ ~AwaitedBy(h, c)
    <3>1. r.chk \in Checks /\ (r.chk.inFlight => Awaited(h, calls'))
      BY <1>1, <1>3, <2>3, OthersAwaited DEF LeftAlone
    <3>2. QED BY <1>3, <2>3, <3>1, OneChecked
  <2>4. QED BY <2>1, <2>2, <2>3
<1>6. QED BY <1>4, <1>5

\* What a read that lands leaves in the cache and of the overlays.
ReadRecord(c) ==
    CASE c.pc = "fail" -> Silent("unreachable")
      [] c.pc = "refused" -> Silent("unauthorized")
      [] OTHER -> c.ans
ReadOverlay(c) ==
    IF c.why # "panel" /\ Spoke(ReadRecord(c)) /\ lw[c.host] # None
         /\ Supersedes(c, lw[c.host])
    THEN [lw EXCEPT ![c.host] = None] ELSE lw

LEMMA ReadTypes ==
    ASSUME FleetTypes, NEW c \in calls, c.kind = "read", c.pc # "out"
    PROVE  /\ [cat EXCEPT ![c.host] = ReadRecord(c)]
                  \in [Host -> Records \cup {None}]
           /\ ReadOverlay(c) \in [Host -> Laid \cup {None}]
<1>1. /\ IsCall(c) /\ c.host \in Host
      /\ cat \in [Host -> Records \cup {None}]
      /\ lw \in [Host -> Laid \cup {None}]
  BY DEF FleetTypes, CallTypes, PageTypes, IsCall
<1>2. Silent("unreachable") \in Records /\ Silent("unauthorized") \in Records
  BY DEF Silent, Records, States
<1>3. ReadRecord(c) \in Records
  BY <1>1, <1>2 DEF ReadRecord, IsCall
<1>4. QED BY <1>1, <1>3 DEF ReadOverlay

LEMMA LandReadKeeps ==
    ASSUME FleetTypes, OneEach, NEW c \in calls, LandRead(c)
    PROVE  Keeps
<1> DEFINE h == c.host
           cat1 == [cat EXCEPT ![h] = ReadRecord(c)]
           l1 == ReadOverlay(c)
           now == EffectiveRecord(h, cat1, l1)
           rest == calls \ {c}
           GoesOn(r) ==
               /\ calls' = rest \cup {[d EXCEPT !.orphan = c.orphan] :
                                          d \in r.calls}
               /\ chk' = IF c.orphan THEN chk ELSE [chk EXCEPT ![h] = r.chk]
               /\ UNCHANGED <<opSeq, ops>>
           v == IF now = None THEN None ELSE now.view
<1>1. /\ c.kind = "read" /\ c.pc # "out"
      /\ cat' = cat1 /\ lw' = l1
      /\ UNCHANGED <<url, gate, lws, dialog, consent, told>>
  BY DEF LandRead, ReadRecord, ReadOverlay
<1>2. \/ GoesOn(Asked(h, CapabilityFrom(now), c.id, c.mach, chk[h]))
      \/ c.why = "reread" /\ GoesOn(Poll(h, FALSE, cat1, l1, c.id, chk[h]))
      \/ c.why = "panel" /\ calls' = rest /\ UNCHANGED <<opSeq, chk, ops>>
      \/ c.why = "consent" /\ GrantOrNot(rest, v) /\ UNCHANGED chk
  BY DEF LandRead, ReadRecord, ReadOverlay
<1>3. /\ IsCall(c) /\ opSeq \in Nat /\ ops \in [Host -> [Row -> Phase]]
      /\ h \in Host /\ c.id \in Nat /\ chk[h] \in Checks /\ PageTypes
  BY DEF FleetTypes, CallTypes, CheckTypes, PageTypes, IsCall
<1>4. /\ cat1 \in [Host -> Records \cup {None}]
      /\ l1 \in [Host -> Laid \cup {None}]
  BY <1>1, ReadTypes
<1>5. CapabilityFrom(now) \in Caps
  BY CapabilityTyped
<1> HIDE DEF cat1, l1, now, v
<1>6. ASSUME opSeq' \in Nat, ops' \in [Host -> [Row -> Phase]], CheckTypes',
             CallsMove, OneEach'
      PROVE  Keeps
  <2>1. PageTypes' /\ WriteTypes'
    BY <1>1, <1>4, <1>6 DEF FleetTypes, PageTypes, WriteTypes
  <2>2. QED BY <1>6, <2>1, Together
<1>7. ASSUME NEW r, GoesOn(r), \/ AskResult(r, h, c.id)
                               \/ LeftAlone(r, chk[h]) /\ ~AwaitedBy(h, c)
      PROVE  Keeps
  <2>1. CheckTypes' /\ CallsMove /\ OneEach'
    BY <1>7, Continued
  <2>2. QED BY <1>3, <1>6, <1>7, <2>1
<1>8. CASE GoesOn(Asked(h, CapabilityFrom(now), c.id, c.mach, chk[h]))
  BY <1>3, <1>5, <1>7, <1>8, AskedTyped
<1>9. CASE c.why = "reread"
           /\ GoesOn(Poll(h, FALSE, cat1, l1, c.id, chk[h]))
  <2>1. ~AwaitedBy(h, c)
    BY <1>1, <1>9 DEF AwaitedBy
  <2>2. LET r == Poll(h, FALSE, cat1, l1, c.id, chk[h])
        IN  AskResult(r, h, c.id) \/ LeftAlone(r, chk[h])
    BY <1>3, <1>4, PollTyped
  <2>3. QED BY <1>7, <1>9, <2>1, <2>2
<1>10. CASE c.why = "panel" /\ calls' = rest /\ UNCHANGED <<opSeq, chk, ops>>
  <2>1. CheckTypes'
    BY <1>1, <1>10, NoneChecked DEF AwaitedBy
  <2>2. CallsMove /\ OneEach'
    BY <1>3, <1>10, NoWrite
  <2>3. QED BY <1>3, <1>6, <1>10, <2>1, <2>2
<1>11. CASE c.why = "consent" /\ GrantOrNot(rest, v) /\ UNCHANGED chk
  <2>1. Local \in Host
    BY <1>3, <1>11 DEF IsCall
  <2>2. /\ CallsMove /\ OneEach' /\ opSeq' \in Nat
        /\ ops' \in [Host -> [Row -> Phase]] /\ rest \subseteq calls'
    BY <1>11, <2>1, GrantMoves
  <2>3. CheckTypes'
    BY <1>1, <1>11, <2>2, NoneChecked DEF AwaitedBy
  <2>4. QED BY <1>6, <2>2, <2>3
<1>12. QED BY <1>2, <1>8, <1>9, <1>10, <1>11

\* The overlay a write that lands leaves, and the stamp beside it.
LEMMA LaidTypes ==
    ASSUME FleetTypes, NEW c \in calls, c.kind = "write", c.pc = "back"
    PROVE  /\ [view |-> c.ans.view, seq |-> opSeq + 1, fp |-> c.mach] \in Laid
           /\ [sent |-> c.id, fp |-> c.mach] \in Stamps
           /\ [mach |-> c.mach, rev |-> c.ans.view.rev] \in Heard
<1>1. /\ c.id \in Nat /\ c.mach \in Machine /\ c.ans.view \in Views
      /\ opSeq + 1 \in Nat
  BY DEF FleetTypes, CallTypes, IsCall, PageTypes
<1>2. c.ans.view.rev \in Nat
  BY <1>1 DEF Views
<1>3. QED BY <1>1, <1>2 DEF Laid, Stamps, Heard

LEMMA LandWriteKeeps ==
    ASSUME FleetTypes, OneEach, NEW c \in calls, LandWrite(c)
    PROVE  Keeps /\ Written' \subseteq Written \ {c}
<1> DEFINE h == c.host
           laid == [view |-> c.ans.view, seq |-> opSeq + 1, fp |-> c.mach]
           stamp == [sent |-> c.id, fp |-> c.mach]
           heard == [mach |-> c.mach, rev |-> c.ans.view.rev]
           l1 == IF Outdated(c) THEN lw ELSE [lw EXCEPT ![h] = laid]
           q == Call(opSeq + 2, "read", h, url[h], "reread")
           r == IF ~c.ans.ok THEN [chk |-> chk[h], calls |-> {}]
                ELSE IF RestartGateMoved(c)
                THEN [chk |-> chk[h], calls |-> {q}]
                ELSE IF c.why = "consent" THEN [chk |-> chk[h], calls |-> {}]
                ELSE Poll(h, FALSE, cat, l1, opSeq + 2, chk[h])
           phase == IF c.ans.ok THEN "idle" ELSE "locked"
<1>1. /\ c.kind = "write" /\ c.pc = "back" /\ url[h] = c.mach
      /\ lw' = l1
      /\ lws' \in {lws, [lws EXCEPT ![h] = stamp]}
      /\ told' \in {told, [told EXCEPT ![h] = heard]}
      /\ opSeq' = opSeq + 2
      /\ Row2Phase(c, phase)
      /\ calls' = (calls \ {c}) \cup r.calls
      /\ chk' = [chk EXCEPT ![h] = r.chk]
      /\ UNCHANGED <<url, gate, cat, dialog, consent>>
  BY DEF LandWrite
<1>2. laid \in Laid /\ stamp \in Stamps /\ heard \in Heard
  BY <1>1, LaidTypes
<1> HIDE DEF laid, stamp, heard
<1>3. /\ IsCall(c) /\ opSeq \in Nat /\ ops \in [Host -> [Row -> Phase]]
      /\ h \in Host /\ chk[h] \in Checks /\ PageTypes /\ WriteTypes
      /\ lw \in [Host -> Laid \cup {None}] /\ c.row \in Row
      /\ cat \in [Host -> Records \cup {None}]
  BY <1>1 DEF FleetTypes, CallTypes, CheckTypes, PageTypes, IsCall
<1>4. l1 \in [Host -> Laid \cup {None}]
  BY <1>2, <1>3
<1>5. ops' \in [Host -> [Row -> Phase]]
  <2>1. phase \in Phase
    BY DEF Phase
  <2> HIDE DEF phase
  <2>2. [ops[h] EXCEPT ![c.row] = phase] \in [Row -> Phase]
    BY <1>3, <2>1
  <2>3. QED BY <1>1, <1>3, <2>2 DEF Row2Phase
<1> HIDE DEF l1, phase
<1>6. PageTypes'
  BY <1>1, <1>3, <1>4, <1>5 DEF PageTypes
<1>7. WriteTypes'
  <2>1. lws' \in [Host -> Stamps \cup {None}]
    BY <1>1, <1>2, <1>3 DEF WriteTypes
  <2>2. told' \in [Host -> Heard \cup {None}]
    BY <1>1, <1>2, <1>3 DEF WriteTypes
  <2>3. QED BY <2>1, <2>2 DEF WriteTypes
<1>8. IsCall(q) /\ q.id = opSeq + 2 /\ q.pc = "out" /\ q.kind = "read"
  <2>1. url[h] \in Machine
    BY <1>1, <1>3 DEF IsCall
  <2>2. QED BY <1>3, <2>1, CallMade, CallTyped
<1> HIDE DEF q
<1>9. \/ AskResult(r, h, opSeq + 2)
      \/ r.chk = chk[h] /\ r.calls \in {{}, {q}}
  <2>1. LET p == Poll(h, FALSE, cat, l1, opSeq + 2, chk[h])
        IN  AskResult(p, h, opSeq + 2) \/ LeftAlone(p, chk[h])
    <3> DEFINE id == opSeq + 2
    <3>1. id \in Nat
      BY <1>3
    <3> HIDE DEF id
    <3>2. LET p == Poll(h, FALSE, cat, l1, id, chk[h])
          IN  AskResult(p, h, id) \/ LeftAlone(p, chk[h])
      BY <1>3, <1>4, <3>1, PollTyped
    <3>3. QED BY <3>2 DEF id
  <2> HIDE DEF q
  <2>2. \/ r \in {[chk |-> chk[h], calls |-> {}], [chk |-> chk[h], calls |-> {q}]}
        \/ r = Poll(h, FALSE, cat, l1, opSeq + 2, chk[h])
    OBVIOUS
  <2> HIDE DEF r
  <2>3. CASE r \in {[chk |-> chk[h], calls |-> {}],
                    [chk |-> chk[h], calls |-> {q}]}
    BY <2>3
  <2>4. CASE r = Poll(h, FALSE, cat, l1, opSeq + 2, chk[h])
    BY <2>1, <2>4 DEF LeftAlone
  <2>5. QED BY <2>2, <2>3, <2>4
<1> HIDE DEF r
<1>10. CallsMove /\ OneEach'
  <2>1. \A x \in r.calls : /\ IsCall(x) /\ x.id = opSeq + 2 /\ x.pc = "out"
                           /\ x.kind # "write"
    BY <1>8, <1>9 DEF AskResult
  <2>2. QED BY <1>1, <1>3, <2>1, NoWrite
<1>11. CheckTypes'
  <2>1. ~AwaitedBy(h, c)
    BY <1>1 DEF AwaitedBy
  <2>2. r.chk \in Checks
    BY <1>3, <1>9 DEF AskResult
  <2>3. r.chk.inFlight => Awaited(h, calls')
    <3>1. CASE AskResult(r, h, opSeq + 2)
      BY <1>1, <3>1 DEF AskResult, Awaited
    <3>2. CASE r.chk = chk[h]
      BY <1>1, <1>3, <2>1, <3>2, OthersAwaited
    <3>3. QED BY <1>9, <3>1, <3>2
  <2>4. QED BY <1>1, <2>2, <2>3, OneChecked
<1>12. Written' \subseteq Written \ {c}
  <2>1. \A x \in r.calls : x.kind # "write"
    BY <1>8, <1>9 DEF AskResult
  <2>2. QED BY <1>1, <2>1 DEF Written
<1>13. QED BY <1>6, <1>7, <1>10, <1>11, <1>12, Together

(* ----------------------------- the poll ticks ---------------------------- *)

LEMMA PollTickKeeps ==
    ASSUME FleetTypes, OneEach, NEW refresh \in BOOLEAN, PollTick(refresh)
    PROVE  Keeps
<1> DEFINE kept == {h \in Host : url[h] # None}
           res(h) == Poll(h, refresh, cat, lw, opSeq + 1, chk[h])
           Copy(b) == [b EXCEPT !.orphan = @ \/ b.host \notin kept]
           idle == [r \in Row |-> "idle"]
<1>1. /\ opSeq' = opSeq + 1
      /\ chk' = [h \in Host |-> IF h \in kept THEN res(h).chk ELSE Fresh]
      /\ calls' = {Copy(b) : b \in calls} \cup UNION {res(h).calls : h \in kept}
      /\ ops' = [h \in Host |-> IF h \in kept THEN ops[h] ELSE idle]
      /\ lw' = [h \in Host |-> IF h \in kept THEN lw[h] ELSE None]
      /\ lws' = [h \in Host |-> IF h \in kept THEN lws[h] ELSE None]
      /\ told' = [h \in Host |-> IF h \in kept THEN told[h] ELSE None]
      /\ UNCHANGED <<url, gate, cat, dialog, consent>>
  BY DEF PollTick
<1>2. /\ opSeq \in Nat /\ opSeq + 1 \in Nat /\ PageTypes
      /\ ops \in [Host -> [Row -> Phase]] /\ chk \in [Host -> Checks]
      /\ cat \in [Host -> Records \cup {None}]
      /\ lw \in [Host -> Laid \cup {None}]
      /\ \A b \in calls : IsCall(b) /\ b.id <= opSeq
  BY DEF FleetTypes, PageTypes, CheckTypes, CallTypes
<1>3. ASSUME NEW b \in calls
      PROVE  /\ IsCall(Copy(b)) /\ Copy(b).id = b.id /\ Same(Copy(b), b)
             /\ Copy(b).pc = b.pc /\ Copy(b).ans = b.ans
             /\ \A h \in kept : AwaitedBy(h, b) => AwaitedBy(h, Copy(b))
  <2>1. IsCall(b) /\ DOMAIN b = CallFields
    BY <1>2 DEF IsCall
  <2>2. /\ DOMAIN Copy(b) = CallFields
        /\ Copy(b).orphan = (b.orphan \/ b.host \notin kept)
        /\ Copy(b).pc = b.pc /\ Copy(b).ans = b.ans
        /\ Same(Copy(b), b)
    BY <2>1, Forgotten DEF Same
  <2> HIDE DEF Copy
  <2>3. IsCall(Copy(b))
    BY <2>1, <2>2 DEF IsCall, Same
  <2>4. \A h \in kept : AwaitedBy(h, b) => AwaitedBy(h, Copy(b))
    BY <2>2 DEF AwaitedBy, Same
  <2>5. QED BY <2>2, <2>3, <2>4 DEF Same
<1>4. \A b, d \in calls : b = d => Copy(b) = Copy(d)
  OBVIOUS
<1> HIDE DEF Copy
<1>5. ASSUME NEW h \in kept
      PROVE  AskResult(res(h), h, opSeq + 1) \/ LeftAlone(res(h), chk[h])
  <2> DEFINE id == opSeq + 1
  <2>1. id \in Nat /\ h \in Host /\ chk[h] \in Checks
    BY <1>2
  <2> HIDE DEF id
  <2>2. LET r == Poll(h, refresh, cat, lw, id, chk[h])
        IN  AskResult(r, h, id) \/ LeftAlone(r, chk[h])
    BY <1>2, <2>1, PollTyped
  <2>3. QED BY <2>2 DEF id
<1> HIDE DEF res
<1>6. PageTypes'
  <2>1. idle \in [Row -> Phase]
    BY DEF Phase
  <2> HIDE DEF idle
  <2>2. ops' \in [Host -> [Row -> Phase]] /\ lw' \in [Host -> Laid \cup {None}]
    BY <1>1, <1>2, <2>1
  <2> HIDE DEF kept
  <2>3. QED BY <1>1, <1>2, <2>2 DEF PageTypes
<1>7. WriteTypes'
  BY <1>1 DEF FleetTypes, WriteTypes
<1>8. CallsMove
  <2>1. ASSUME NEW c \in calls'
        PROVE  /\ IsCall(c) /\ c.id <= opSeq'
               /\ (\E b \in calls : Same(c, b) /\ Stays(c, b)) \/ Leaves(c)
    <3>1. ASSUME NEW b \in calls, c = Copy(b)
          PROVE  /\ IsCall(c) /\ c.id <= opSeq'
                 /\ Same(c, b) /\ Stays(c, b)
      <4>1. IsCall(c) /\ Same(c, b) /\ Stays(c, b) /\ c.id = b.id
        BY <1>3, <3>1 DEF Stays
      <4>2. b.id <= opSeq /\ b.id \in Nat
        BY <1>2 DEF IsCall
      <4>3. QED BY <1>1, <1>2, <4>1, <4>2
    <3>2. ASSUME NEW h \in kept, c \in res(h).calls
          PROVE  IsCall(c) /\ c.id <= opSeq' /\ Leaves(c)
      BY <1>1, <1>2, <1>5, <3>2 DEF AskResult, LeftAlone, Leaves
    <3>3. (\E b \in calls : c = Copy(b)) \/ (\E h \in kept : c \in res(h).calls)
      BY <1>1, <2>1
    <3>4. QED BY <3>1, <3>2, <3>3
  <2>2. QED BY <2>1 DEF CallsMove
<1>9. OneEach'
  <2>1. ASSUME NEW c \in calls', c.kind = "write"
        PROVE  \E b \in Written : c = Copy(b) /\ c.id = b.id
    <3>1. \A h \in kept : c \notin res(h).calls
      BY <1>5, <2>1 DEF AskResult, LeftAlone
    <3>2. PICK b \in calls : c = Copy(b)
      BY <1>1, <3>1
    <3>3. QED BY <1>3, <2>1, <3>2 DEF Written, Same
  <2>2. \A c, d \in Written' : c.id = d.id => c = d
    BY <1>4, <2>1 DEF Written, OneEach
  <2>3. QED BY <2>2 DEF OneEach
<1>10. CheckTypes'
  <2>1. Fresh \in Checks /\ ~Fresh.inFlight
    BY DEF Fresh, Checks
  <2>2. \A h \in kept : res(h).chk \in Checks
    BY <1>2, <1>5 DEF AskResult, LeftAlone
  <2>3. chk' \in [Host -> Checks]
    BY <1>1, <2>1, <2>2
  <2>4. ASSUME NEW h \in Host, chk'[h].inFlight
        PROVE  Awaited(h, calls')
    <3>1. h \in kept /\ chk'[h] = res(h).chk
      BY <1>1, <2>1, <2>4
    <3>2. CASE AskResult(res(h), h, opSeq + 1)
      <4>1. PICK c \in res(h).calls : AwaitedBy(h, c)
        BY <2>4, <3>1, <3>2 DEF AskResult
      <4>2. QED BY <1>1, <3>1, <4>1 DEF Awaited
    <3>3. CASE LeftAlone(res(h), chk[h])
      <4>1. chk[h].inFlight
        BY <2>4, <3>1, <3>3 DEF LeftAlone
      <4>2. PICK b \in calls : AwaitedBy(h, b)
        BY <4>1 DEF FleetTypes, CheckTypes, Awaited
      <4>3. Copy(b) \in calls' /\ AwaitedBy(h, Copy(b))
        BY <1>1, <1>3, <3>1, <4>2
      <4>4. QED BY <4>3 DEF Awaited
    <3>4. QED BY <1>5, <3>1, <3>2, <3>3
  <2>5. QED BY <2>3, <2>4 DEF CheckTypes
<1>11. QED BY <1>6, <1>7, <1>8, <1>9, <1>10, Together

(* -------------------------- types and the grants ------------------------- *)

LEMMA FleetStarts ==
    ASSUME FleetAssumption, Init
    PROVE  FleetTypes /\ OneEach
<1>1. /\ Home \in [Host -> Machine] /\ url = Home /\ opSeq = 0 /\ calls = {}
      /\ lw = [h \in Host |-> None] /\ lws = [h \in Host |-> None]
      /\ told = [h \in Host |-> None] /\ chk = [h \in Host |-> Fresh]
      /\ ops = [h \in Host |-> [r \in Row |-> "idle"]]
      /\ dialog = None /\ (consent = "due" => Local \in Host)
  BY DEF Init, FleetAssumption
<1>2. gate \in [Machine -> Gates]
  <2>1. \A on \in {{}, Key} : [rev |-> 0, on |-> on, lock |-> {}] \in Gates
    BY DEF Gates
  <2>2. gate \in [Machine -> {[rev |-> 0, on |-> on, lock |-> {}] :
                                  on \in {{}, Key}}]
    BY DEF Init
  <2> DEFINE first == {[rev |-> 0, on |-> on, lock |-> {}] : on \in {{}, Key}}
  <2>3. first \subseteq Gates
    BY <2>1
  <2> HIDE DEF first
  <2>4. QED BY <2>2, <2>3 DEF first
<1>3. cat \in [Host -> Records \cup {None}]
  <2>1. ASSUME NEW h \in Host PROVE Info(Home[h]) \in Records
    <3>1. Home[h] \in Machine
      BY <1>1
    <3>2. View(Home[h]) \in Views
      BY <1>2, <3>1 DEF View, Views, Gates
    <3>3. /\ (IF Build[Home[h]] = "headless" THEN "headless" ELSE "ok")
                 \in States
          /\ (Build[Home[h]] \in {"full", "midway"}) \in BOOLEAN
      BY DEF States
    <3>4. QED BY <3>2, <3>3 DEF Info, Records
  <2>2. cat \in {[h \in Host |-> None], [h \in Host |-> Info(Home[h])]}
    BY DEF Init
  <2>3. QED BY <2>1, <2>2
<1>4. PageTypes
  <2>1. ops \in [Host -> [Row -> Phase]]
    BY <1>1 DEF Phase
  <2>2. url \in [Host -> Machine \cup {None}]
        /\ (Local \in Host => url[Local] \in Machine)
    BY <1>1
  <2>3. QED BY <1>1, <1>2, <1>3, <2>1, <2>2 DEF PageTypes
<1>5. CheckTypes
  <2>1. Fresh \in Checks /\ ~Fresh.inFlight
    BY DEF Fresh, Checks
  <2>2. QED BY <1>1, <2>1 DEF CheckTypes
<1>6. WriteTypes /\ CallTypes /\ OneEach
  BY <1>1 DEF WriteTypes, CallTypes, OneEach, Written
<1>7. QED BY <1>4, <1>5, <1>6 DEF FleetTypes

LEMMA FleetSteps ==
    ASSUME FleetTypes, OneEach, Next
    PROVE  Keeps
<1>1. CASE \E refresh \in BOOLEAN : PollTick(refresh)
  BY <1>1, PollTickKeeps
<1>2. CASE \E h \in Host : PanelRead(h)
  BY <1>2, PanelReadKeeps
<1>3. CASE \E h \in Host, row \in Row : Click(h, row)
  BY <1>3, ClickKeeps
<1>4. CASE Declined
  BY <1>4, DeclinedKeeps
<1>5. CASE Confirmed
  BY <1>5, ConfirmedKeeps
<1>6. CASE OfferConsent
  BY <1>6, OfferConsentKeeps
<1>7. CASE \E c \in calls : Serve(c)
  BY <1>7, ServeKeeps
<1>8. CASE \E c \in calls : Land(c) \/ CancelWrite(c)
  BY <1>8, LandReadKeeps, LandCheckKeeps, LandWriteKeeps, EndsKeep DEF Land
<1>9. CASE \E c \in calls, how \in {"fail", "refused"} : Lose(c, how)
  BY <1>9, LoseKeeps
<1>10. CASE \E h \in Host, m \in Machine \cup {None} : EditHosts(h, m)
  BY <1>10, EditHostsKeeps
<1>11. CASE \E m \in Machine, k \in Key : Elsewhere(m, k)
  BY <1>11, ElsewhereKeeps
<1>12. QED
  BY <1>1, <1>2, <1>3, <1>4, <1>5, <1>6, <1>7, <1>8, <1>9, <1>10, <1>11 DEF Next

LEMMA FleetStutters ==
    ASSUME FleetTypes, OneEach, UNCHANGED vars
    PROVE  FleetTypes' /\ OneEach'
<1>1. FleetTypes'
  BY DEF vars, FleetTypes, PageTypes, WriteTypes, CallTypes, CheckTypes
<1>2. OneEach'
  BY DEF vars, OneEach, Written
<1>3. QED BY <1>1, <1>2

\* The page's records keep the shapes the code gives them, every request is for
\* a machine, and a check under way has a request of its own in flight: none
\* waits for an answer nobody will bring (startCheck's inFlight).
THEOREM FleetTypeCorrect == ASSUME FleetAssumption PROVE Spec => []TypeOK
<1>1. Init => FleetTypes /\ OneEach
  BY FleetStarts
<1>2. FleetTypes /\ OneEach /\ [Next]_vars => (FleetTypes /\ OneEach)'
  BY FleetSteps, FleetStutters DEF Keeps
<1>3. FleetTypes => TypeOK
  <2>1. ASSUME FleetTypes PROVE TypeOK
    <3>1. /\ url \in [Host -> Machine \cup {None}]
          /\ \A h \in Host : ops[h] \in [Row -> Phase]
      BY <2>1 DEF FleetTypes, PageTypes
    <3>2. \A m \in Machine : gate[m].on \subseteq Key /\ gate[m].lock \subseteq Key
      <4>1. \A m \in Machine : gate[m] \in Gates
        BY <2>1 DEF FleetTypes, PageTypes
      <4>2. QED BY <4>1 DEF Gates
    <3>3. \A c \in calls : /\ c.mach \in Machine
                           /\ c.pc \in {"out", "back", "fail", "refused"}
                           /\ c.kind \in {"read", "check", "write"}
                           /\ c.id <= opSeq
      BY <2>1 DEF FleetTypes, CallTypes, IsCall
    <3>4. \A h \in Host : chk[h].inFlight =>
              \E c \in calls : /\ c.host = h /\ ~c.orphan
                               /\ \/ c.kind = "check"
                                  \/ c.kind = "read" /\ c.why = "poll"
      BY <2>1 DEF FleetTypes, CheckTypes, Awaited, AwaitedBy
    <3>5. QED BY <3>1, <3>2, <3>3, <3>4 DEF TypeOK
  <2>2. QED BY <2>1
<1>4. QED BY <1>1, <1>2, <1>3, PTL DEF Spec

LEMMA FleetTyped ==
    ASSUME FleetAssumption PROVE Spec => [](FleetTypes /\ OneEach)
<1>1. Init => FleetTypes /\ OneEach
  BY FleetStarts
<1>2. FleetTypes /\ OneEach /\ [Next]_vars => (FleetTypes /\ OneEach)'
  BY FleetSteps, FleetStutters DEF Keeps
<1>3. QED BY <1>1, <1>2, PTL DEF Spec

\* A grant asks for no gate that is open already, or a file's to decide, on the
\* facts it was sent from: what the dialog showed when it was painted is not
\* replayed (selfUpdateRowModel, read again by the confirmed click), and it goes
\* to the machine the dialog named.
THEOREM GrantsStayCurrent ==
    ASSUME FleetAssumption PROVE Spec => []GrantsAreCurrent
<1>1. Init => GrantsAreCurrent
  BY DEF Init, GrantsAreCurrent
<1>2. ASSUME FleetTypes, OneEach, GrantsAreCurrent, [Next]_vars
      PROVE  GrantsAreCurrent'
  <2>1. CASE Next
    <3>1. CallsMove
      BY <1>2, <2>1, FleetSteps DEF Keeps
    <3>2. \A b \in calls : b.kind = "write" => Current(b) /\ Aimed(b)
      BY <1>2 DEF GrantsAreCurrent, Current, Aimed
    <3>3. ASSUME NEW c \in calls', c.kind = "write"
          PROVE  Current(c) /\ Aimed(c)
      <4>1. CASE \E b \in calls : Same(c, b)
        BY <3>2, <3>3, <4>1 DEF Same, Current, Aimed
      <4>2. CASE Leaves(c)
        BY <3>3, <4>2 DEF Leaves
      <4>3. QED BY <3>1, <4>1, <4>2 DEF CallsMove
    <3>4. QED BY <3>3 DEF GrantsAreCurrent, Current, Aimed
  <2>2. CASE UNCHANGED vars
    BY <1>2, <2>2 DEF vars, GrantsAreCurrent
  <2>3. QED BY <1>2, <2>1, <2>2
<1>3. QED BY <1>1, <1>2, FleetTyped, PTL DEF Spec

(* ------------------------ the order of the writes ------------------------ *)

LEMMA Numbers ==
    ASSUME FleetTypes
    PROVE  /\ opSeq \in Nat
           /\ \A m \in Machine : gate[m].rev \in Nat
           /\ \A c \in Written :
                 /\ c.id \in Nat /\ c.id <= opSeq
                 /\ c.mach \in Machine /\ c.host \in Host
                 /\ c.pc = "back" => c.ans.view.rev \in Nat
           /\ \A h \in Host :
                 /\ lws[h] # None => lws[h].sent \in Nat /\ lws[h].fp \in Machine
                 /\ told[h] # None => told[h].rev \in Nat
<1>1. /\ opSeq \in Nat /\ gate \in [Machine -> Gates]
      /\ lws \in [Host -> Stamps \cup {None}]
      /\ told \in [Host -> Heard \cup {None}]
  BY DEF FleetTypes, PageTypes, WriteTypes
<1>2. \A m \in Machine : gate[m].rev \in Nat
  BY <1>1 DEF Gates
<1>3. ASSUME NEW c \in Written
      PROVE  /\ c.id \in Nat /\ c.id <= opSeq
             /\ c.mach \in Machine /\ c.host \in Host
             /\ c.pc = "back" => c.ans.view.rev \in Nat
  <2>1. IsCall(c) /\ c.id <= opSeq /\ c.kind = "write"
    BY <1>3 DEF Written, FleetTypes, CallTypes
  <2>2. c.pc = "back" => c.ans.view \in Views
    BY <2>1 DEF IsCall
  <2>3. QED BY <2>1, <2>2 DEF IsCall, Views
<1>4. ASSUME NEW h \in Host
      PROVE  /\ lws[h] # None => lws[h].sent \in Nat /\ lws[h].fp \in Machine
             /\ told[h] # None => told[h].rev \in Nat
  BY <1>1 DEF Stamps, Heard
<1>5. QED BY <1>1, <1>2, <1>3, <1>4

\* What a step other than a write's landing does to the records of the writes:
\* nothing, or it forgets those of an id, or retires an overlay.
RecordsRest ==
    \A h \in Host :
        \/ /\ lws'[h] = lws[h] /\ told'[h] = told[h]
           /\ lw'[h] \in {lw[h], None}
        \/ lws'[h] = None /\ told'[h] = None /\ lw'[h] = None

Grows == opSeq <= opSeq' /\ \A m \in Machine : gate[m].rev <= gate'[m].rev

\* A write of the next state: one that stays, one just served, one that leaves.
Kept(c) == \E b \in Written : Same(c, b) /\ Stays(c, b)
Fed(c)  == \E b \in Written : Same(c, b) /\ Served(c, b)

LEMMA WritesMove ==
    ASSUME CallsMove
    PROVE  \A c \in Written' : Kept(c) \/ Fed(c) \/ Leaves(c)
  BY DEF CallsMove, Written, Kept, Fed, Same

LEMMA BetweenCarries ==
    ASSUME FleetTypes, FleetTypes', WriteOrder, Grows,
           NEW c \in Written', Kept(c) \/ Fed(c) \/ Leaves(c),
           NEW d \in Written', Kept(d) \/ Fed(d) \/ Leaves(d)
    PROVE  Between(c, d)
<1> SUFFICES ASSUME c.mach = d.mach, c.id < d.id, d.pc = "back"
             PROVE  /\ c.pc # "out"
                    /\ c.pc = "back" => c.ans.view.rev <= d.ans.view.rev
  BY DEF Between
<1>1. opSeq \in Nat /\ c.kind = "write" /\ d.kind = "write" /\ c.id \in Nat
  <2>1. IsCall(c)
    BY DEF FleetTypes, CallTypes, Written
  <2>2. QED BY <2>1 DEF FleetTypes, PageTypes, Written, IsCall
<1>2. \A b \in Written : b.id \in Nat /\ b.id <= opSeq /\ b.mach \in Machine
  BY Numbers
<1>3. ~Leaves(d)
  BY DEF Leaves
<1>4. ASSUME NEW e \in Written, d.id = e.id PROVE ~Leaves(c)
  BY <1>1, <1>2, <1>4 DEF Leaves
<1>5. CASE Kept(d)
  <2>1. PICK e \in Written : Same(d, e) /\ Stays(d, e)
    BY <1>5 DEF Kept
  <2>2. /\ e.pc = "back" /\ e.ans = d.ans /\ e.id = d.id /\ e.mach = d.mach
    BY <1>1, <2>1 DEF Stays, Same
  <2>3. ASSUME NEW b \in Written, Same(c, b)
        PROVE  b.pc # "out" /\ (b.pc = "back" => b.ans.view.rev <= d.ans.view.rev)
    BY <2>2, <2>3 DEF WriteOrder, AnsweredInOrder, Between, Same
  <2>4. CASE Kept(c)
    BY <1>1, <2>3, <2>4 DEF Kept, Stays
  <2>5. CASE Fed(c)
    BY <2>3, <2>5 DEF Fed, Served
  <2>6. QED BY <1>4, <2>2, <2>4, <2>5
<1>6. CASE Fed(d)
  <2>1. PICK e \in Written : Same(d, e) /\ Served(d, e)
    BY <1>6 DEF Fed
  <2>2. /\ e.id = d.id /\ e.mach = d.mach /\ FirstWrite(e)
        /\ d.ans.view.rev = gate'[d.mach].rev
    BY <2>1 DEF Served, Same
  <2>3. ASSUME NEW b \in Written, Same(c, b)
        PROVE  b.pc # "out" /\ (b.pc = "back" => b.ans.view.rev <= d.ans.view.rev)
    <3>1. b.id < e.id /\ b.mach = e.mach /\ b.kind = "write" /\ b \in calls
      BY <2>2, <2>3 DEF Same, Written
    <3>2. b.pc # "out"
      BY <1>2, <2>2, <3>1 DEF FirstWrite
    <3>3. ASSUME b.pc = "back" PROVE b.ans.view.rev <= d.ans.view.rev
      <4>1. b.ans.view.rev <= gate[b.mach].rev
        BY <3>3 DEF WriteOrder, NoneAhead, Reached
      <4>2. gate[b.mach].rev <= gate'[b.mach].rev
        BY <1>2 DEF Grows
      <4>3. /\ b.ans.view.rev \in Nat /\ gate[b.mach].rev \in Nat
            /\ gate'[b.mach].rev \in Nat
        <5>1. gate' \in [Machine -> Gates]
          BY DEF FleetTypes, PageTypes
        <5>2. gate'[b.mach].rev \in Nat
          BY <1>2, <5>1 DEF Gates
        <5>3. QED BY <1>2, <3>3, <5>2, Numbers
      <4>4. QED BY <2>2, <3>1, <4>1, <4>2, <4>3
    <3>4. QED BY <3>2, <3>3
  <2>4. CASE Kept(c)
    BY <1>1, <2>3, <2>4 DEF Kept, Stays
  <2>5. CASE Fed(c)
    BY <2>3, <2>5 DEF Fed, Served
  <2>6. QED BY <1>4, <2>2, <2>4, <2>5
<1>7. QED BY <1>3, <1>5, <1>6

LEMMA ReachedCarries ==
    ASSUME FleetTypes, FleetTypes', WriteOrder, Grows,
           NEW c \in Written', Kept(c) \/ Fed(c) \/ Leaves(c)
    PROVE  Reached(c)'
<1> SUFFICES ASSUME c.pc = "back" PROVE c.ans.view.rev <= gate'[c.mach].rev
  BY DEF Reached
<1>1. c.kind = "write"
  BY DEF Written
<1>2. \A m \in Machine : gate[m].rev \in Nat /\ gate'[m].rev \in Nat
  <2>1. gate' \in [Machine -> Gates]
    BY DEF FleetTypes, PageTypes
  <2>2. \A m \in Machine : gate'[m].rev \in Nat
    BY <2>1 DEF Gates
  <2>3. QED BY <2>2, Numbers
<1>3. CASE Kept(c)
  <2>1. PICK b \in Written : Same(c, b) /\ Stays(c, b)
    BY <1>3 DEF Kept
  <2>2. b.pc = "back" /\ b.ans = c.ans /\ b.mach = c.mach
    BY <1>1, <2>1 DEF Stays, Same
  <2>3. /\ b.ans.view.rev <= gate[b.mach].rev
        /\ gate[b.mach].rev <= gate'[b.mach].rev
        /\ b.ans.view.rev \in Nat /\ b.mach \in Machine
    BY <2>2, Numbers DEF WriteOrder, NoneAhead, Reached, Grows
  <2>4. QED BY <1>2, <2>2, <2>3
<1>4. CASE Fed(c)
  <2>1. c.ans.view.rev = gate'[c.mach].rev /\ c.mach \in Machine
    BY <1>4, Numbers DEF Fed, Served, Same
  <2>2. QED BY <1>2, <2>1
<1>5. CASE Leaves(c)
  BY <1>5 DEF Leaves
<1>6. QED BY <1>3, <1>4, <1>5

LEMMA BesideCarries ==
    ASSUME FleetTypes, FleetTypes', WriteOrder, Grows, RecordsRest,
           NEW h \in Host,
           NEW c \in Written', Kept(c) \/ Fed(c) \/ Leaves(c)
    PROVE  Beside(h, c)'
<1> SUFFICES ASSUME lws'[h] # None, c.mach = lws'[h].fp
             PROVE  /\ c.id # lws'[h].sent
                    /\ c.id < lws'[h].sent =>
                          /\ c.pc # "out"
                          /\ c.pc = "back" => c.ans.view.rev <= told'[h].rev
                    /\ c.id > lws'[h].sent =>
                          (c.pc = "back" => told'[h].rev <= c.ans.view.rev)
  BY DEF Beside
<1>1. lws'[h] = lws[h] /\ told'[h] = told[h] /\ lws[h] # None
  BY DEF RecordsRest
<1>2. /\ told[h] # None /\ told[h].rev <= gate[lws[h].fp].rev
      /\ lws[h].sent <= opSeq
      /\ lws[h].sent \in Nat /\ lws[h].fp \in Machine /\ told[h].rev \in Nat
      /\ opSeq \in Nat /\ gate[lws[h].fp].rev \in Nat
  BY <1>1, Numbers DEF WriteOrder, Stamped
<1>3. c.kind = "write"
  BY DEF Written
<1>4. \A b \in Written : Beside(h, b) /\ b.id \in Nat
  BY Numbers DEF WriteOrder
<1>5. CASE Kept(c)
  <2>1. PICK b \in Written : Same(c, b) /\ Stays(c, b)
    BY <1>5 DEF Kept
  <2>2. /\ b.id = c.id /\ b.mach = lws[h].fp
        /\ (b.pc = c.pc /\ b.ans = c.ans) \/ c.pc \notin {"out", "back"}
    BY <1>1, <1>3, <2>1 DEF Same, Stays
  <2>3. QED BY <1>1, <1>4, <2>2 DEF Beside
<1>6. CASE Fed(c)
  <2>1. PICK b \in Written : Same(c, b) /\ Served(c, b)
    BY <1>6 DEF Fed
  <2>2. /\ b.id = c.id /\ b.mach = lws[h].fp /\ b.pc = "out" /\ c.pc = "back"
        /\ c.ans.view.rev = gate'[lws[h].fp].rev
    BY <1>1, <2>1 DEF Same, Served
  <2>3. c.id # lws[h].sent /\ ~(c.id < lws[h].sent)
    BY <1>1, <1>4, <2>2 DEF Beside
  <2>4. told[h].rev <= c.ans.view.rev
    <3>1. gate' \in [Machine -> Gates]
      BY DEF FleetTypes, PageTypes
    <3>2. gate'[lws[h].fp].rev \in Nat
      BY <1>2, <3>1 DEF Gates
    <3>3. gate[lws[h].fp].rev <= gate'[lws[h].fp].rev
      BY <1>2 DEF Grows
    <3>4. QED BY <1>2, <2>2, <3>2, <3>3
  <2>5. QED BY <1>1, <2>3, <2>4
<1>7. CASE Leaves(c)
  <2>1. c.pc = "out" /\ c.id = opSeq + 1
    BY <1>3, <1>7 DEF Leaves
  <2>2. QED BY <1>1, <1>2, <2>1
<1>8. QED BY <1>5, <1>6, <1>7

LEMMA OrderCarries ==
    ASSUME FleetTypes, FleetTypes', WriteOrder, CallsMove, OneEach', Grows,
           RecordsRest
    PROVE  WriteOrder'
<1>1. \A c \in Written' : Kept(c) \/ Fed(c) \/ Leaves(c)
  BY WritesMove
<1>2. AnsweredInOrder'
  BY <1>1, BetweenCarries DEF AnsweredInOrder, Between
<1>3. NoneAhead'
  BY <1>1, ReachedCarries DEF NoneAhead
<1>4. \A h \in Host : \A c \in Written' : Beside(h, c)'
  BY <1>1, BesideCarries
<1>5. ASSUME NEW h \in Host PROVE Stamped(h)' /\ Overlay(h)'
  <2>1. CASE lws'[h] = None /\ told'[h] = None /\ lw'[h] = None
    BY <2>1 DEF Stamped, Overlay
  <2>2. CASE /\ lws'[h] = lws[h] /\ told'[h] = told[h]
             /\ lw'[h] \in {lw[h], None}
    <3>1. Stamped(h) /\ Overlay(h)
      BY DEF WriteOrder
    <3>2. Overlay(h)'
      BY <2>2, <3>1 DEF Overlay
    <3>3. ASSUME lws[h] # None
          PROVE  /\ told[h].rev <= gate'[lws[h].fp].rev
                 /\ lws[h].sent <= opSeq'
      <4>1. /\ lws[h].fp \in Machine /\ lws[h].sent \in Nat
            /\ told[h] # None /\ told[h].rev \in Nat /\ opSeq \in Nat
            /\ gate[lws[h].fp].rev \in Nat
        BY <3>1, <3>3, Numbers DEF Stamped
      <4>2. gate' \in [Machine -> Gates] /\ opSeq' \in Nat
        BY DEF FleetTypes, PageTypes
      <4>3. gate'[lws[h].fp].rev \in Nat
        BY <4>1, <4>2 DEF Gates
      <4>4. /\ gate[lws[h].fp].rev <= gate'[lws[h].fp].rev
            /\ opSeq <= opSeq'
        BY <4>1 DEF Grows
      <4>5. QED BY <3>1, <3>3, <4>1, <4>2, <4>3, <4>4 DEF Stamped
    <3>4. Stamped(h)'
      BY <2>2, <3>1, <3>3 DEF Stamped
    <3>5. QED BY <3>2, <3>4
  <2>3. QED BY <2>1, <2>2 DEF RecordsRest
<1>6. QED BY <1>2, <1>3, <1>4, <1>5 DEF WriteOrder

(* ------------------------ the answer of a write -------------------------- *)

\* What the landing of a write does to the records of its id.
LandsAs(c) ==
    /\ c \in Written /\ c.pc = "back"
    /\ opSeq' = opSeq + 2 /\ gate' = gate
    /\ Written' \subseteq Written \ {c}
    /\ \A h \in Host : h # c.host =>
          lws'[h] = lws[h] /\ told'[h] = told[h] /\ lw'[h] = lw[h]

\* The answer of an outdated write is no newer than what was heard already.
OldAnswer(c) ==
    /\ Outdated(c)
    /\ lws' = lws /\ lw' = lw
    /\ told' = told

\* The answer of any other is the newest, and its stamp says so.
NewAnswer(c) ==
    LET h == c.host
    IN  /\ ~Outdated(c)
        /\ lws'[h] # None /\ lws'[h].sent = c.id /\ lws'[h].fp = c.mach
        /\ told'[h] # None
        /\ told'[h].mach = c.mach /\ told'[h].rev = c.ans.view.rev
        /\ lw'[h].fp = c.mach /\ lw'[h].view.rev = c.ans.view.rev

LEMMA AnswerIsOldOrNew ==
    ASSUME FleetAssumption, FleetTypes, WriteOrder, NEW c \in calls,
           LandWrite(c), Written' \subseteq Written \ {c}
    PROVE  LandsAs(c) /\ (OldAnswer(c) \/ NewAnswer(c))
<1> DEFINE h == c.host
           laid == [view |-> c.ans.view, seq |-> opSeq + 1, fp |-> c.mach]
           stamp == [sent |-> c.id, fp |-> c.mach]
           heard == [mach |-> c.mach, rev |-> c.ans.view.rev]
           newer == \/ told[h] = None
                    \/ told[h] # None /\ (\/ told[h].mach # c.mach
                                          \/ told[h].rev < c.ans.view.rev)
<1>1. /\ c.kind = "write" /\ c.pc = "back"
      /\ lw' = IF Outdated(c) THEN lw ELSE [lw EXCEPT ![h] = laid]
      /\ lws' = IF Outdated(c) THEN lws ELSE [lws EXCEPT ![h] = stamp]
      /\ told' = IF newer THEN [told EXCEPT ![h] = heard] ELSE told
      /\ opSeq' = opSeq + 2 /\ gate' = gate
  BY DEF LandWrite
<1>2. c \in Written
  BY <1>1 DEF Written
<1>3. /\ h \in Host /\ c.id \in Nat /\ c.ans.view.rev \in Nat
      /\ lws[h] # None => lws[h].sent \in Nat
      /\ told[h] # None => told[h].rev \in Nat
  BY <1>1, <1>2, Numbers
<1>4. /\ lw \in [Host -> Laid \cup {None}]
      /\ lws \in [Host -> Stamps \cup {None}]
      /\ told \in [Host -> Heard \cup {None}]
  BY DEF FleetTypes, PageTypes, WriteTypes
<1>5. /\ stamp # None /\ stamp.sent = c.id /\ stamp.fp = c.mach
      /\ heard # None /\ heard.mach = c.mach /\ heard.rev = c.ans.view.rev
      /\ laid.fp = c.mach /\ laid.view.rev = c.ans.view.rev
  <2>1. stamp \in Stamps /\ heard \in Heard
    BY <1>1, LaidTypes
  <2>2. None \notin Stamps /\ None \notin Heard
    BY DEF FleetAssumption, Stamps, Heard
  <2>3. QED BY <2>1, <2>2
<1> HIDE DEF stamp, heard, laid
<1>6. LandsAs(c)
  BY <1>1, <1>2, <1>4 DEF LandsAs
<1>7. Stamped(h) /\ Beside(h, c)
  BY <1>2, <1>3 DEF WriteOrder
<1>8. CASE Outdated(c)
  <2>1. /\ lws[h] # None /\ lws[h].fp = c.mach /\ c.id < lws[h].sent
    BY <1>8 DEF Outdated
  <2>2. /\ told[h] # None /\ told[h].mach = c.mach
        /\ c.ans.view.rev <= told[h].rev
    BY <1>1, <1>7, <2>1 DEF Stamped, Beside
  <2>3. ~newer
    BY <1>3, <2>2
  <2>4. QED BY <1>1, <1>6, <1>8, <2>3 DEF OldAnswer
<1>9. CASE ~Outdated(c)
  <2>1. lw'[h] = laid /\ lws'[h] = stamp
    BY <1>1, <1>3, <1>4, <1>9
  <2>2. /\ told'[h] # None /\ told'[h].mach = c.mach
        /\ told'[h].rev = c.ans.view.rev
    <3>1. CASE newer
      <4>1. told'[h] = heard
        BY <1>1, <1>3, <1>4, <3>1
      <4>2. QED BY <1>5, <4>1
    <3>2. CASE ~newer
      <4>1. /\ told' = told /\ told[h] # None /\ told[h].mach = c.mach
            /\ ~(told[h].rev < c.ans.view.rev)
        BY <1>1, <3>2
      <4>2. lws[h] # None /\ lws[h].fp = c.mach
        BY <1>7, <4>1 DEF Stamped
      <4>3. ~(c.id < lws[h].sent) /\ c.id # lws[h].sent
        BY <1>7, <1>9, <4>2 DEF Outdated, Beside
      <4>4. c.id > lws[h].sent
        BY <1>3, <4>2, <4>3
      <4>5. told[h].rev <= c.ans.view.rev
        BY <1>1, <1>7, <4>2, <4>4 DEF Beside
      <4>6. QED BY <1>3, <4>1, <4>5
    <3>3. QED BY <3>1, <3>2
  <2> HIDE DEF newer
  <2>3. QED BY <1>5, <1>6, <1>9, <2>1, <2>2 DEF NewAnswer
<1>10. QED BY <1>8, <1>9

LEMMA OrderLands ==
    ASSUME FleetTypes, WriteOrder, OneEach', NEW c, LandsAs(c),
           OldAnswer(c) \/ NewAnswer(c)
    PROVE  WriteOrder'
<1> DEFINE h == c.host
<1>1. /\ c \in Written /\ c.pc = "back" /\ gate' = gate /\ opSeq' = opSeq + 2
      /\ \A x \in Written' : x \in Written /\ x # c
  BY DEF LandsAs
<1>2. AnsweredInOrder'
  BY <1>1 DEF WriteOrder, AnsweredInOrder, Between
<1>3. NoneAhead'
  BY <1>1 DEF WriteOrder, NoneAhead, Reached
<1>4. ASSUME NEW g \in Host, lws'[g] = lws[g], told'[g] = told[g],
             lw'[g] = lw[g]
      PROVE  /\ Stamped(g)' /\ Overlay(g)'
             /\ \A x \in Written' : Beside(g, x)'
  <2>1. /\ Stamped(g) /\ Overlay(g)
        /\ \A x \in Written : Beside(g, x)
    BY DEF WriteOrder
  <2>2. lws[g] # None => lws[g].sent \in Nat /\ opSeq \in Nat
    BY Numbers
  <2>3. lws[g] # None => lws[g].sent <= opSeq'
    BY <1>1, <2>1, <2>2 DEF Stamped
  <2>4. Stamped(g)'
    BY <1>1, <1>4, <2>1, <2>3 DEF Stamped
  <2>5. Overlay(g)'
    BY <1>4, <2>1 DEF Overlay
  <2>6. \A x \in Written' : Beside(g, x)'
    BY <1>1, <1>4, <2>1 DEF Beside
  <2>7. QED BY <2>4, <2>5, <2>6
<1>5. ASSUME NEW g \in Host, g # h
      PROVE  /\ Stamped(g)' /\ Overlay(g)'
             /\ \A x \in Written' : Beside(g, x)'
  BY <1>4, <1>5 DEF LandsAs
<1>6. ASSUME h \in Host
      PROVE  /\ Stamped(h)' /\ Overlay(h)'
             /\ \A x \in Written' : Beside(h, x)'
  <2>1. CASE OldAnswer(c)
    BY <1>4, <1>6, <2>1 DEF OldAnswer
  <2>2. CASE NewAnswer(c)
    <3>1. /\ lws'[h] # None /\ lws'[h].sent = c.id /\ lws'[h].fp = c.mach
          /\ told'[h] # None
          /\ told'[h].mach = c.mach /\ told'[h].rev = c.ans.view.rev
          /\ lw'[h].fp = c.mach /\ lw'[h].view.rev = c.ans.view.rev
      BY <2>2 DEF NewAnswer
    <3>2. /\ c.id \in Nat /\ c.id <= opSeq /\ opSeq \in Nat
          /\ c.ans.view.rev <= gate[c.mach].rev
      BY <1>1, Numbers DEF WriteOrder, NoneAhead, Reached
    <3>3. Stamped(h)'
      BY <1>1, <3>1, <3>2 DEF Stamped
    <3>4. Overlay(h)'
      BY <3>1 DEF Overlay
    <3>5. ASSUME NEW x \in Written' PROVE Beside(h, x)'
      <4>1. /\ x.id # c.id /\ Between(x, c) /\ Between(c, x)
            /\ x.id \in Nat
        BY <1>1, Numbers DEF WriteOrder, OneEach, AnsweredInOrder
      <4>2. QED BY <1>1, <3>1, <4>1 DEF Beside, Between
    <3>6. QED BY <3>3, <3>4, <3>5
  <2>3. QED BY <2>1, <2>2
<1>7. QED BY <1>2, <1>3, <1>5, <1>6 DEF WriteOrder

(* --------------------------- what is promised ---------------------------- *)

LEMMA OrderStarts ==
    ASSUME Init
    PROVE  WriteOrder
  BY DEF Init, WriteOrder, OneEach, AnsweredInOrder, NoneAhead, Written,
     Stamped, Overlay

\* Every step but the landing of a write leaves the records of the writes.
LEMMA RestOtherwise ==
    ASSUME FleetTypes, Next, ~(\E c \in calls : LandWrite(c))
    PROVE  RecordsRest /\ Grows
<1>1. /\ opSeq \in Nat /\ lw \in [Host -> Laid \cup {None}]
      /\ \A m \in Machine : gate[m].rev \in Nat
      /\ \A m \in Machine : gate[m].rev <= gate[m].rev
  BY Numbers DEF FleetTypes, PageTypes
<1>2. UNCHANGED <<lws, told, lw>> => RecordsRest
  BY DEF RecordsRest
<1>3. UNCHANGED gate /\ opSeq' \in {opSeq, opSeq + 1} => Grows
  BY <1>1 DEF Grows
<1>4. CASE \E refresh \in BOOLEAN : PollTick(refresh)
  <2>1. RecordsRest
    BY <1>4 DEF PollTick, RecordsRest
  <2>2. UNCHANGED gate /\ opSeq' = opSeq + 1
    BY <1>4 DEF PollTick
  <2>3. QED BY <1>3, <2>1, <2>2
<1>5. CASE \E h \in Host : PanelRead(h)
  <2>1. UNCHANGED <<gate, lws, told, lw>> /\ opSeq' = opSeq + 1
    BY <1>5 DEF PanelRead
  <2>2. QED BY <1>2, <1>3, <2>1
<1>6. CASE \E h \in Host, row \in Row : Click(h, row)
  <2>1. UNCHANGED <<gate, lws, told, lw>> /\ opSeq' \in {opSeq, opSeq + 1}
    BY <1>6 DEF Click, SendWrite
  <2>2. QED BY <1>2, <1>3, <2>1
<1>7. CASE Declined
  <2>1. UNCHANGED <<gate, lws, told, lw, opSeq>>
    BY <1>7 DEF Declined
  <2>2. QED BY <1>2, <1>3, <2>1
<1>8. CASE Confirmed
  <2>1. UNCHANGED <<gate, lws, told, lw>>
    BY <1>8 DEF Confirmed
  <2>2. opSeq' \in {opSeq, opSeq + 1}
    BY <1>8 DEF Confirmed, SendWrite
  <2>3. QED BY <1>2, <1>3, <2>1, <2>2
<1>9. CASE OfferConsent
  <2>1. UNCHANGED <<gate, lws, told, lw>> /\ opSeq' \in {opSeq, opSeq + 1}
    BY <1>9 DEF OfferConsent, GrantOrNot, SendWrite
  <2>2. QED BY <1>2, <1>3, <2>1
<1>10. ASSUME NEW c \in calls, Serve(c) PROVE RecordsRest /\ Grows
  <2>1. UNCHANGED <<lws, told, lw, opSeq>>
    BY <1>10 DEF Serve
  <2>2. \A m \in Machine : gate[m].rev <= gate'[m].rev
    <3>1. CASE ServeWrite(c)
      BY <3>1, WriteServed
    <3>2. CASE ServeInfo(c) \/ ServeCheck(c)
      BY <1>1, <3>2 DEF ServeInfo, ServeCheck
    <3>3. QED BY <1>10, <3>1, <3>2 DEF Serve
  <2>3. QED BY <1>1, <1>2, <2>1, <2>2 DEF Grows
<1>11. ASSUME NEW c \in calls, LandRead(c) PROVE RecordsRest /\ Grows
  <2>1. /\ UNCHANGED <<gate, lws, told>> /\ opSeq' \in {opSeq, opSeq + 1}
        /\ lw' \in {lw, [lw EXCEPT ![c.host] = None]}
    BY <1>11 DEF LandRead, GrantOrNot, SendWrite
  <2>2. RecordsRest
    BY <1>1, <2>1 DEF RecordsRest
  <2>3. QED BY <1>3, <2>1, <2>2
<1>12. ASSUME NEW c \in calls,
              LandCheck(c) \/ LandFailedWrite(c) \/ LandMovedWrite(c)
                \/ CancelWrite(c)
       PROVE  RecordsRest /\ Grows
  <2>1. UNCHANGED <<gate, lws, told, lw, opSeq>>
    BY <1>12 DEF LandCheck, LandFailedWrite, LandMovedWrite, CancelWrite
  <2>2. QED BY <1>2, <1>3, <2>1
<1>13. CASE \E c \in calls, how \in {"fail", "refused"} : Lose(c, how)
  <2>1. UNCHANGED <<gate, lws, told, lw, opSeq>>
    BY <1>13 DEF Lose
  <2>2. QED BY <1>2, <1>3, <2>1
<1>14. CASE \E h \in Host, m \in Machine \cup {None} : EditHosts(h, m)
  <2>1. UNCHANGED <<gate, lws, told, lw, opSeq>>
    BY <1>14 DEF EditHosts
  <2>2. QED BY <1>2, <1>3, <2>1
<1>15. ASSUME NEW m \in Machine, NEW k \in Key, Elsewhere(m, k)
       PROVE  RecordsRest /\ Grows
  <2>1. UNCHANGED <<lws, told, lw, opSeq>>
    BY <1>15 DEF Elsewhere
  <2>2. \A n \in Machine : gate[n].rev <= gate'[n].rev
    BY <1>15, ElsewhereGates DEF FleetTypes
  <2>3. QED BY <1>1, <1>2, <2>1, <2>2 DEF Grows
<1>16. QED
  BY <1>4, <1>5, <1>6, <1>7, <1>8, <1>9, <1>10, <1>11, <1>12, <1>13, <1>14,
     <1>15 DEF Next, Land

LEMMA OrderSteps ==
    ASSUME FleetAssumption, FleetTypes, WriteOrder, [Next]_vars
    PROVE  WriteOrder'
<1>1. OneEach
  BY DEF WriteOrder
<1>2. CASE Next
  <2>1. Keeps
    BY <1>1, <1>2, FleetSteps
  <2>2. ASSUME NEW c \in calls, LandWrite(c) PROVE WriteOrder'
    <3>1. Written' \subseteq Written \ {c}
      BY <1>1, <2>2, LandWriteKeeps
    <3>2. LandsAs(c) /\ (OldAnswer(c) \/ NewAnswer(c))
      BY <2>2, <3>1, AnswerIsOldOrNew
    <3>3. QED BY <2>1, <3>2, OrderLands DEF Keeps
  <2>3. ASSUME ~(\E c \in calls : LandWrite(c)) PROVE WriteOrder'
    BY <1>2, <2>1, <2>3, RestOtherwise, OrderCarries DEF Keeps
  <2>4. QED BY <2>2, <2>3
<1>3. CASE UNCHANGED vars
  BY <1>3 DEF vars, WriteOrder, OneEach, AnsweredInOrder, Between, NoneAhead,
     Reached, Written, Stamped, Overlay, Beside
<1>4. QED BY <1>2, <1>3

\* One machine answers writes in the order they were sent, whatever the order
\* they land in, and the page's stamp separates the older from the newer.
THEOREM WritesInOrder ==
    ASSUME FleetAssumption PROVE Spec => [](FleetTypes /\ WriteOrder)
<1>1. Init => FleetTypes /\ WriteOrder
  BY FleetStarts, OrderStarts
<1>2. FleetTypes /\ WriteOrder /\ [Next]_vars => (FleetTypes /\ WriteOrder)'
  <2>1. WriteOrder => OneEach
    BY DEF WriteOrder
  <2>2. QED BY <2>1, OrderSteps, FleetSteps, FleetStutters DEF Keeps
<1>3. QED BY <1>1, <1>2, PTL DEF Spec

\* The view a standing write lays over the cache is at least as new as every
\* answer heard from that machine since the id was last forgotten: an older
\* write whose answer comes last does not repaint the rows (lastWriteSent).
THEOREM StandingIsNewest ==
    ASSUME FleetAssumption PROVE Spec => []StandingWriteIsNewest
<1>1. FleetTypes /\ WriteOrder => StandingWriteIsNewest
  <2> SUFFICES ASSUME FleetTypes, WriteOrder, NEW h \in Host,
                      lw[h] # None, told[h] # None
               PROVE  lw[h].view.rev >= told[h].rev
    BY DEF StandingWriteIsNewest
  <2>1. lw[h].view.rev = told[h].rev
    BY DEF WriteOrder, Overlay
  <2>2. told[h].rev \in Nat
    BY Numbers
  <2>3. QED BY <2>1, <2>2
<1>2. QED BY <1>1, WritesInOrder, PTL

==============================================================================
