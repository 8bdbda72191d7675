--------------------------- MODULE StateSyncProofs ---------------------------
(***************************************************************************)
(* Proofs about StateSync: the shared state survives what happens to its   *)
(* requests, its revision never goes back, a page at rest shows it, and    *)
(* old intent yields to a peer's write (the second half of the module).    *)
(*                                                                         *)
(* The argument.  An answer in flight says what the broker had, and still  *)
(* has if the revision is the same (RepliesTrue); so whatever the page     *)
(* takes as its base is the broker's value whenever the revisions agree    *)
(* and it skipped nothing (BaseTrue).  A local value that differs from the *)
(* base is owed, on its way, to be pulled over, or the one edit that       *)
(* slipped by (EditsKept), for which the PUT of a view that is over is     *)
(* either parked with its edit or older than it.                           *)
(***************************************************************************)
EXTENDS StateSync, TLAPS

-----------------------------------------------------------------------------
(* The page's record, operator by operator: what each leaves alone.        *)

\* q shows, counts and owes what p does; q is in the view p is in.
SameText(q, p) == q.local = p.local /\ q.base = p.base
SameSeen(q, p) == q.rev = p.rev /\ q.skipped = p.skipped
SameMarks(q, p) == q.editGen = p.editGen /\ q.sentGen = p.sentGen
SameView(q, p) == q.off = p.off /\ q.epoch = p.epoch
SameButTimers(q, p) ==
    /\ SameText(q, p) /\ SameSeen(q, p) /\ SameMarks(q, p) /\ SameView(q, p)
    /\ q.fail = p.fail /\ q.park = p.park

LEMMA GenBounds ==
    /\ MaxGen \in Nat /\ MaxRev \in Nat /\ MaxEpoch \in Nat /\ RetryFast \in Nat
    /\ \A g \in Gens : g \in Nat /\ g <= MaxGen
    /\ \A g \in Gens : g # 0 => g - 1 \in Gens
    /\ 0 \in Gens /\ 0 \in Epochs
    /\ \A e \in Epochs : e \in Nat /\ (e < MaxEpoch => e + 1 \in Epochs)
    /\ \A g \in Gens : g < MaxGen => g + 1 \in Gens
  BY BoundAssumption DEF Gens, Epochs

LEMMA RecordsBuilt ==
    /\ NoFail \in FailRecord /\ NoOut \in OutRecord /\ NoWire \in WireRecord
    /\ NoPush \in PushRecord /\ NoPull \in PullRecord /\ NoSection \in SectionRecord
    /\ NoSends \in [Gens -> Vals \cup {NoVal}]
  BY GenBounds DEF NoFail, NoOut, NoWire, NoPush, NoPull, NoSection, NoSends,
     FailRecord, OutRecord, WireRecord, PushRecord, PullRecord, SectionRecord

LEMMA PageFields ==
    ASSUME NEW p \in PageRecord
    PROVE  /\ p.local \in Vals /\ p.base \in Vals \cup {NoVal} /\ p.rev \in Nat
           /\ p.skipped \in BOOLEAN /\ p.editGen \in Gens /\ p.sentGen \in Gens
           /\ p.fail \in FailRecord /\ p.park \in ParkRecord
           /\ p.sends \in [Gens -> Vals \cup {NoVal}]
           /\ p.timer \in BOOLEAN /\ p.again \in BOOLEAN /\ p.off \in BOOLEAN
           /\ p.epoch \in Epochs
  BY DEF PageRecord

LEMMA ParkFields ==
    ASSUME NEW k \in ParkRecord
    PROVE  /\ k.on \in BOOLEAN /\ k.gen \in Gens /\ k.base \in Nat
           /\ LET off == [k EXCEPT !.on = FALSE] IN
              off \in ParkRecord /\ off.gen = k.gen /\ ~off.on /\ off.base = k.base
           /\ \A b \in Nat : LET m == [k EXCEPT !.base = b] IN
              m \in ParkRecord /\ m.gen = k.gen /\ m.on = k.on /\ m.base = b
  BY DEF ParkRecord

LEMMA FailFields ==
    ASSUME NEW f \in FailRecord
    PROVE  /\ f.gen \in Gens /\ f.base \in Nat /\ f.thrown \in BOOLEAN
           /\ f.fails \in 0 .. RetryFast + 1
           /\ \A b \in Nat : LET m == [f EXCEPT !.base = b] IN
              m \in FailRecord /\ m.gen = f.gen
           /\ f = NoFail => f.gen = 0
  BY DEF FailRecord, NoFail

LEMMA ScheduledDoes ==
    ASSUME NEW p \in PageRecord
    PROVE  Scheduled(p) \in PageRecord /\ SameButTimers(Scheduled(p), p)
  BY DEF Scheduled, PageRecord, SameButTimers, SameText, SameSeen, SameMarks,
         SameView

LEMMA SettledAllDoes ==
    ASSUME NEW p \in PageRecord
    PROVE  LET q == SettledAll(p) IN
           /\ q \in PageRecord /\ SameText(q, p) /\ SameSeen(q, p) /\ SameView(q, p)
           /\ q.editGen = p.editGen /\ q.sentGen = p.editGen /\ q.fail = NoFail
           /\ q.park.gen = p.park.gen /\ ~q.park.on /\ q.sends = p.sends
  <1>1. p.park \in ParkRecord BY PageFields
  <1> DEFINE k == [p.park EXCEPT !.on = FALSE]
  <1>2. k \in ParkRecord /\ k.gen = p.park.gen /\ ~k.on BY <1>1, ParkFields
  <1>3. SettledAll(p) = [p EXCEPT !.sentGen = p.editGen, !.fail = NoFail, !.park = k]
    BY DEF SettledAll
  <1> HIDE DEF k
  <1> QED BY <1>2, <1>3, RecordsBuilt
          DEF PageRecord, SameText, SameSeen, SameView

LEMMA SettledSentDoes ==
    ASSUME NEW p \in PageRecord, NEW g \in Gens
    PROVE  LET q == SettledSent(p, g) IN
           /\ q \in PageRecord /\ SameText(q, p) /\ SameSeen(q, p)
           /\ SameMarks(q, p) /\ SameView(q, p)
           /\ q.park.gen = p.park.gen
           /\ q.fail = p.fail \/ q.fail = NoFail
  <1>1. p.park \in ParkRecord /\ p.park.on \in BOOLEAN BY PageFields, ParkFields
  <1> DEFINE k == [p.park EXCEPT !.on = @ /\ g < p.park.gen]
             f == IF p.fail.gen <= g THEN NoFail ELSE p.fail
  <1>2. k \in ParkRecord /\ k.gen = p.park.gen
    <2>1. k = p.park \/ k = [p.park EXCEPT !.on = FALSE] BY <1>1 DEF ParkRecord
    <2> QED BY <1>1, <2>1, ParkFields
  <1>3. f \in FailRecord /\ (f = p.fail \/ f = NoFail) BY RecordsBuilt, PageFields
  <1>4. SettledSent(p, g) = [p EXCEPT !.fail = f, !.park = k]
    BY DEF SettledSent
  <1> HIDE DEF k, f
  <1> QED BY <1>2, <1>3, <1>4
          DEF PageRecord, SameText, SameSeen, SameMarks, SameView

LEMMA ParkedFailureDoes ==
    ASSUME NEW p \in PageRecord, NEW g \in Gens, g # 0
    PROVE  LET q == ParkedFailure(p, g) IN
           /\ q \in PageRecord /\ SameText(q, p) /\ SameSeen(q, p) /\ SameView(q, p)
           /\ q.editGen = p.editGen /\ q.fail = p.fail /\ q.park = p.park
           /\ q.sentGen = IF p.park.on /\ g <= p.park.gen /\ p.sentGen >= g
                            THEN g - 1 ELSE p.sentGen
  BY GenBounds DEF ParkedFailure, PageRecord, SameText, SameSeen, SameView

LEMMA SendBaseIsNat ==
    ASSUME NEW p \in PageRecord, NEW g PROVE SendBase(p, g) \in Nat
  <1>1. p.park.base \in Nat /\ p.fail.base \in Nat /\ p.rev \in Nat
    BY PageFields, ParkFields, FailFields
  <1>2. SendBase(p, g) \in {p.park.base, p.fail.base, p.rev} BY DEF SendBase
  <1> QED BY <1>1, <1>2

LEMMA FailedDoes ==
    ASSUME NEW p \in PageRecord, NEW g \in Gens, NEW b \in Nat, NEW thrown \in BOOLEAN
    PROVE  LET q == Failed(p, g, b, thrown) IN
           /\ q \in PageRecord /\ SameText(q, p) /\ SameSeen(q, p)
           /\ SameMarks(q, p) /\ SameView(q, p) /\ q.park = p.park
           /\ q.fail # NoFail
  <1> DEFINE f == IF p.fail.gen = g /\ p.fail # NoFail THEN p.fail
                  ELSE [NoFail EXCEPT !.gen = g, !.base = b]
             h == [f EXCEPT !.thrown = @ \/ thrown,
                            !.fails = IF @ > RetryFast THEN @ ELSE @ + 1]
  <1>1. f \in FailRecord
    <2>1. [NoFail EXCEPT !.gen = g, !.base = b] \in FailRecord
      BY RecordsBuilt DEF FailRecord
    <2> QED BY <2>1, PageFields
  <1>2. /\ f.thrown \in BOOLEAN /\ f.fails \in 0 .. RetryFast + 1
        /\ f.gen \in Gens /\ f.base \in Nat
    <2> HIDE DEF f
    <2> QED BY <1>1, FailFields
  <1> DEFINE t == f.thrown \/ thrown
             n == IF f.fails > RetryFast THEN f.fails ELSE f.fails + 1
  <1>a. t \in BOOLEAN OBVIOUS
  <1>b. n \in 0 .. RetryFast + 1 /\ n # 0
    <2> HIDE DEF f
    <2> QED BY <1>2, GenBounds
  <1>c. h = [f EXCEPT !.thrown = t, !.fails = n] OBVIOUS
  <1>3. h \in FailRecord /\ h.fails = n
    <2> HIDE DEF f, t, n
    <2>1. [f EXCEPT !.thrown = t, !.fails = n] \in FailRecord
      BY <1>1, <1>a, <1>b DEF FailRecord
    <2>2. [f EXCEPT !.thrown = t, !.fails = n].fails = n
      BY <1>1 DEF FailRecord
    <2> HIDE DEF h
    <2> QED BY <2>1, <2>2, <1>c
  <1>4. h # NoFail
    <2> HIDE DEF h, n
    <2> QED BY <1>3, <1>b DEF NoFail
  <1>5. Failed(p, g, b, thrown) = [p EXCEPT !.fail = h] BY DEF Failed
  <1> HIDE DEF f, h
  <1> QED BY <1>3, <1>4, <1>5
          DEF PageRecord, SameText, SameSeen, SameMarks, SameView

\* A record of a lost PUT stays one: the first edit has no parent.
LEMMA SawOwnWriteDoes ==
    ASSUME NEW p \in PageRecord, NEW val, NEW rev \in Nat
    PROVE  LET q == SawOwnWrite(p, val, rev) IN
           /\ q \in PageRecord /\ SameText(q, p) /\ SameSeen(q, p)
           /\ SameMarks(q, p) /\ SameView(q, p) /\ q.sends = p.sends
           /\ q.park.gen = p.park.gen /\ q.park.on = p.park.on
           /\ (q.fail = NoFail <=> p.fail = NoFail)
  <1> DEFINE moved == p.fail # NoFail /\ FromParent(p, p.fail.gen, val)
             f == [p.fail EXCEPT !.base = IF moved THEN rev ELSE @]
             b == IF p.park.on /\ FromParent(p, p.park.gen, val) THEN rev
                  ELSE p.park.base
             k == [p.park EXCEPT !.base = b]
  <1>1. p.fail \in FailRecord /\ p.park \in ParkRecord BY PageFields
  <1>2. f \in FailRecord /\ f.gen = p.fail.gen
    <2>1. p.fail.base \in Nat BY <1>1, FailFields
    <2> HIDE DEF moved
    <2> QED BY <1>1, <2>1, FailFields
  <1>3. f = NoFail <=> p.fail = NoFail
    <2>1. CASE ~moved
      <3>1. f = p.fail BY <1>1, <2>1 DEF FailRecord
      <3> QED BY <3>1
    <2>2. CASE moved
      <3>1. \E h \in Gens : h < p.fail.gen BY <2>2 DEF FromParent
      <3>2. p.fail.gen # 0 BY <3>1, GenBounds
      <3>3. f # NoFail BY <1>2, <3>2, FailFields
      <3> QED BY <2>2, <3>3
    <2> QED BY <2>1, <2>2
  <1>4. b \in Nat
    <2>1. p.park.base \in Nat BY <1>1, ParkFields
    <2> QED BY <2>1
  <1>5. k \in ParkRecord /\ k.gen = p.park.gen /\ k.on = p.park.on
    <2> HIDE DEF b
    <2> QED BY <1>1, <1>4, ParkFields
  <1>6. SawOwnWrite(p, val, rev) = [p EXCEPT !.fail = f, !.park = k]
    BY DEF SawOwnWrite
  <1> HIDE DEF f, k
  <1> QED BY <1>2, <1>3, <1>5, <1>6
          DEF PageRecord, SameText, SameSeen, SameMarks, SameView

LEMMA AdoptedDoes ==
    ASSUME NEW p \in PageRecord, NEW val \in Vals
    PROVE  LET q == Adopted(p, val) IN
           /\ q \in PageRecord /\ q.local = val /\ q.base = val /\ ~q.skipped
           /\ q.rev = p.rev /\ q.editGen = p.editGen /\ q.sentGen = p.editGen
           /\ SameView(q, p) /\ q.park.gen = p.park.gen
  <1> DEFINE r == SettledAll(p)
  <1>1. /\ r \in PageRecord /\ SameText(r, p) /\ SameSeen(r, p) /\ SameView(r, p)
        /\ r.editGen = p.editGen /\ r.sentGen = p.editGen
        /\ r.park.gen = p.park.gen
    BY SettledAllDoes
  <1>2. Adopted(p, val) = [r EXCEPT !.local = val, !.base = val, !.sends = NoSends,
                                    !.skipped = FALSE]
    BY DEF Adopted
  <1> HIDE DEF r
  <1> QED BY <1>1, <1>2, RecordsBuilt DEF PageRecord, SameSeen, SameView

LEMMA RetryOwedDoes ==
    ASSUME NEW p \in PageRecord, NEW q \in RetryOwed(p)
    PROVE  q \in PageRecord /\ SameButTimers(q, p)
  <1>1. q = p \/ q = Scheduled(p) BY DEF RetryOwed
  <1>2. SameButTimers(p, p)
    BY DEF SameButTimers, SameText, SameSeen, SameMarks, SameView
  <1> QED BY <1>1, <1>2, ScheduledDoes

LEMMA ParkedDoes ==
    ASSUME NEW p \in PageRecord
    PROVE  LET q == Parked(p) IN
           /\ q \in PageRecord /\ SameText(q, p) /\ SameSeen(q, p)
           /\ SameMarks(q, p) /\ SameView(q, p) /\ q.fail = p.fail
           /\ q.park.gen = p.park.gen \/ q.park.gen = p.editGen
           /\ q.park.base \in Nat
           /\ (Owed(p) \/ push.at # "idle") /\ p.local # p.base =>
                    q.park.on /\ q.park.gen = p.editGen
  <1> DEFINE owes == (Owed(p) \/ push.at # "idle") /\ p.local # p.base
             k == IF owes THEN [on |-> TRUE, gen |-> p.editGen,
                                base |-> SendBase(p, p.editGen)]
                          ELSE [p.park EXCEPT !.on = FALSE]
  <1>1. p.park \in ParkRecord /\ p.editGen \in Gens BY PageFields
  <1>2. /\ k \in ParkRecord /\ (k.gen = p.park.gen \/ k.gen = p.editGen)
        /\ owes => k.on /\ k.gen = p.editGen
    <2>1. CASE owes
      <3>1. SendBase(p, p.editGen) \in Nat BY SendBaseIsNat
      <3> QED BY <1>1, <2>1, <3>1 DEF ParkRecord
    <2>2. CASE ~owes
      <3> HIDE DEF owes
      <3> QED BY <1>1, <2>2, ParkFields
    <2> QED BY <2>1, <2>2
  <1>3. Parked(p) = [p EXCEPT !.timer = FALSE, !.again = FALSE, !.park = k]
    BY DEF Parked
  <1>4. k.base \in Nat BY <1>2, ParkFields
  <1> HIDE DEF k
  <1>5. /\ Parked(p) \in PageRecord /\ Parked(p).park = k
        /\ SameText(Parked(p), p) /\ SameSeen(Parked(p), p)
        /\ SameMarks(Parked(p), p) /\ SameView(Parked(p), p)
        /\ Parked(p).fail = p.fail
    BY <1>2, <1>3 DEF PageRecord, SameText, SameSeen, SameMarks, SameView
  <1> QED BY <1>2, <1>4, <1>5

LEMMA CalledDoes ==
    ASSUME NEW p \in PageRecord
    PROVE  Called(p) \in PageRecord /\ SameButTimers(Called(p), p)
  BY DEF Called, PageRecord, SameButTimers, SameText, SameSeen, SameMarks, SameView

LEMMA PushAfterCallDoes ==
    ASSUME NEW p \in PageRecord, push \in PushRecord
    PROVE  LET u == PushAfterCall(p) IN
           /\ u \in PushRecord
           /\ u = push \/ (/\ push.at = "idle" /\ u.at = "waiting" /\ ~p.off
                           /\ u.epoch = p.epoch)
  BY RecordsBuilt, PageFields DEF PushAfterCall, PushRecord, NoPush

-----------------------------------------------------------------------------
(* The inductive invariant.                                                *)

\* The file is the memory until a write has landed, and then one revision on;
\* the page's own write is the PUT it waits for.
DiskFollows ==
    /\ ~section.landed => srv = disk
    /\ section.landed => disk.rev = srv.rev + 1 /\ section.who # "none"
    /\ section.who # "none" => section.val \in Vals
    /\ section.landed => disk.val = section.val
    /\ section.who = "none" => section = NoSection
    /\ section.who = "page" => /\ wire.at = "writing" /\ push.at = "sent"
                               /\ section.val = push.val

\* One exchange at a time holds the channel, and whoever sent it waits.
ChannelHeld ==
    /\ push.at = "sent" => wire.at # "none" /\ pull.at = "idle"
    /\ pull.at = "sent" => wire.at # "none"

\* What an answer says of the broker was so, and still is if the revision is.
RepliesTrue ==
    /\ page.rev <= srv.rev
    /\ wire.out.kind \in {"state", "conflict", "saved"} =>
            page.rev <= wire.out.rev /\ wire.out.rev <= srv.rev
    /\ wire.out.kind \in {"state", "conflict"} =>
            /\ wire.out.val \in Vals
            /\ wire.out.rev = srv.rev => wire.out.val = srv.val
    /\ wire.out.kind = "saved" =>
            /\ push.at = "sent"
            /\ wire.out.rev = srv.rev => push.val = srv.val
    /\ wire.at # "answered" => wire.out = NoOut

\* A PUT on its way is the last edit sent; its view is this one or over.
PushKnown ==
    /\ push.at = "sent" =>
        /\ push.val \in Vals /\ push.gen # 0 /\ push.gen <= page.editGen
        /\ page.sentGen = push.gen
        /\ page.local # push.val => page.editGen > push.gen
    /\ push.at # "idle" => push.epoch <= page.epoch
    /\ push.at # "idle" /\ push.epoch = page.epoch => ~page.off
    /\ page.park.gen <= page.editGen /\ page.sentGen <= page.editGen

\* The page's base is the broker's value, when its revision is the broker's
\* and nothing was skipped.
BaseTrue ==
    /\ page.base = NoVal => page.skipped
    /\ ~page.skipped /\ page.rev = srv.rev => page.base = srv.val

\* An edit that differs from the base is owed, on its way, to be pulled over or
\* the one edit that went out unrecorded.
EditsKept ==
    /\ page.editGen = 0 => page.local = page.base
    /\ page.local # page.base =>
            \/ Owed(page) \/ page.base = NoVal
            \/ push.at = "sent" \/ slipped = page.editGen
    /\ push.at = "sent" /\ push.epoch # page.epoch /\ page.local # page.base =>
            \/ page.park.on /\ push.gen <= page.park.gen
            \/ slipped = page.editGen \/ page.editGen > push.gen

SyncInv ==
    /\ TypeOK
    /\ DiskFollows /\ ChannelHeld /\ RepliesTrue
    /\ PushKnown /\ BaseTrue /\ EditsKept

-----------------------------------------------------------------------------
(* The broker's steps leave the page as it is.                             *)

LEMMA SmallFields ==
    ASSUME TypeOK
    PROVE  /\ srv.rev \in Nat /\ srv.val \in Vals
           /\ disk.rev \in Nat /\ disk.val \in Vals
           /\ section.landed \in BOOLEAN /\ section.val \in Vals \cup {NoVal}
           /\ section.gen \in Gens
           /\ section.who \in {"none", "page", "stray", "peer"}
           /\ wire.at \in {"none", "asked", "writing", "answered"}
           /\ wire.out \in OutRecord /\ wire.out.rev \in Nat
           /\ wire.out.val \in Vals \cup {NoVal}
           /\ push.at \in {"idle", "waiting", "sent"} /\ push.epoch \in Epochs
           /\ push.gen \in Gens /\ push.base \in Nat
           /\ push.val \in Vals \cup {NoVal}
           /\ pull.at \in {"idle", "sent"} /\ pull.epoch \in Epochs
           /\ pull.initial \in BOOLEAN
           /\ push \in PushRecord /\ pull \in PullRecord /\ page \in PageRecord
           /\ slipped \in Gens
  BY DEF TypeOK, States, SectionRecord, WireRecord, OutRecord, PushRecord,
         PullRecord

LEMMA NothingSaid ==
    /\ NoWire.out = NoOut /\ NoWire.at = "none" /\ NoOut.kind = "none"
    /\ NoSection.who = "none" /\ NoSection.landed = FALSE
    /\ NoPush.at = "idle" /\ NoPull.at = "idle" /\ First \in Vals
    /\ NoVal \notin Vals
  BY ValueAssumption DEF NoWire, NoOut, NoSection, NoPush, NoPull

LEMMA WireBuilt ==
    /\ [NoWire EXCEPT !.at = "asked"] \in WireRecord
    /\ [NoWire EXCEPT !.at = "asked"].at = "asked"
    /\ [NoWire EXCEPT !.at = "asked"].out = NoOut
    /\ \A o \in OutRecord : LET w == [at |-> "answered", out |-> o] IN
            w \in WireRecord /\ w.at = "answered" /\ w.out = o
    /\ \A k \in {"rejected", "error", "lost"} : LET o == [NoOut EXCEPT !.kind = k] IN
            o \in OutRecord /\ o.kind = k
    /\ \A w \in WireRecord : LET x == [w EXCEPT !.at = "writing"] IN
            x \in WireRecord /\ x.at = "writing" /\ x.out = w.out
  BY RecordsBuilt DEF WireRecord, OutRecord, NoWire, NoOut

LEMMA InitSync == ASSUME Init PROVE SyncInv
  <1>1. /\ srv = [rev |-> 1, val |-> First] /\ disk = srv /\ section = NoSection
        /\ strays = {} /\ wire = NoWire /\ push = NoPush /\ pull = NoPull
        /\ chain = [e \in Epochs |-> "none"] /\ lastPeer = 0
        /\ origin = [gen |-> 0, base |-> 0] /\ slipped = 0
    BY DEF Init
  <1>2. /\ page.local = First /\ page.base = First /\ page.rev = 1
        /\ page.skipped = FALSE /\ page.editGen = 0 /\ page.sentGen = 0
        /\ page.fail = NoFail /\ page.park.gen = 0 /\ page \in PageRecord
    BY RecordsBuilt, GenBounds, ValueAssumption DEF Init, PageRecord, ParkRecord
  <1>3. TypeOK
    <2>1. srv \in States /\ disk \in States
      BY <1>1, ValueAssumption DEF States
    <2>2. origin \in [gen : Gens, base : Nat] BY <1>1, GenBounds
    <2> QED BY <1>1, <1>2, <2>1, <2>2, RecordsBuilt, GenBounds DEF TypeOK
  <1>4. DiskFollows /\ ChannelHeld BY <1>1, NothingSaid DEF DiskFollows, ChannelHeld
  <1>5. RepliesTrue BY <1>1, <1>2, NothingSaid DEF RepliesTrue
  <1>6. PushKnown BY <1>1, <1>2, NothingSaid DEF PushKnown
  <1>7. BaseTrue /\ EditsKept
    BY <1>1, <1>2, NothingSaid DEF BaseTrue, EditsKept
  <1> QED BY <1>3, <1>4, <1>5, <1>6, <1>7 DEF SyncInv

\* What a step that leaves the page alone has to show.
LEMMA PageLeftAlone ==
    ASSUME SyncInv, UNCHANGED pageVars,
           TypeOK', DiskFollows', RepliesTrue',
           wire.at # "none" => wire'.at # "none",
           srv'.rev = srv.rev => srv'.val = srv.val, srv'.rev >= srv.rev
    PROVE  SyncInv'
  <1>1. /\ push' = push /\ pull' = pull /\ page' = page /\ slipped' = slipped
    BY DEF pageVars
  <1>2. ChannelHeld' BY <1>1 DEF SyncInv, ChannelHeld
  <1>3. PushKnown' BY <1>1 DEF SyncInv, PushKnown
  <1>4. EditsKept' BY <1>1 DEF SyncInv, EditsKept, Owed
  <1>5. BaseTrue'
    <2>1. page.rev <= srv.rev /\ page.rev \in Nat /\ srv.rev \in Nat
          /\ srv'.rev \in Nat
      BY PageFields DEF SyncInv, RepliesTrue, TypeOK, States
    <2>2. page.rev = srv'.rev => srv'.rev = srv.rev BY <2>1
    <2> QED BY <1>1, <2>2 DEF SyncInv, BaseTrue
  <1> QED BY <1>2, <1>3, <1>4, <1>5 DEF SyncInv

LEMMA AnswerGetKeeps == ASSUME SyncInv, AnswerGet PROVE SyncInv'
  <1> DEFINE o == [Conflict EXCEPT !.kind = "state"]
  <1>0. TypeOK /\ DiskFollows /\ ChannelHeld /\ RepliesTrue BY DEF SyncInv
  <1>1. /\ UNCHANGED <<srv, disk, section, lastPeer, strays>> /\ UNCHANGED pageVars
        /\ wire.at = "asked" /\ pull.at = "sent"
        /\ wire' = [at |-> "answered", out |-> o]
    BY DEF AnswerGet, brokerVars
  <1>2. o \in OutRecord /\ o.kind = "state" /\ o.rev = srv.rev /\ o.val = srv.val
    BY <1>0, SmallFields DEF Conflict, OutRecord
  <1> HIDE DEF o
  <1>3. wire' \in WireRecord /\ wire'.at = "answered" /\ wire'.out = o
    BY <1>1, <1>2, WireBuilt
  <1>4. TypeOK' BY <1>0, <1>1, <1>3 DEF TypeOK, pageVars
  <1>5. DiskFollows'
    <2>1. section.who # "page" BY <1>0, <1>1 DEF DiskFollows
    <2> QED BY <1>0, <1>1, <2>1 DEF DiskFollows
  <1>6. RepliesTrue'
    BY <1>0, <1>1, <1>2, <1>3, SmallFields DEF RepliesTrue, pageVars
  <1> QED BY <1>1, <1>3, <1>4, <1>5, <1>6, <1>0, SmallFields, PageLeftAlone

\* An answer that is nobody's verdict.
LEMMA BadAnswerKept ==
    ASSUME SyncInv, NEW k \in {"rejected", "error", "lost"},
           wire' = [at |-> "answered", out |-> [NoOut EXCEPT !.kind = k]],
           UNCHANGED page, UNCHANGED push, srv' \in States, srv'.rev >= srv.rev
    PROVE  RepliesTrue' /\ wire' \in WireRecord /\ wire'.at = "answered"
  <1>1. /\ wire' \in WireRecord /\ wire'.at = "answered" /\ wire'.out.kind = k
    BY WireBuilt
  <1>2. page.rev <= srv.rev /\ page.rev \in Nat /\ srv.rev \in Nat
        /\ srv'.rev \in Nat
    BY PageFields DEF SyncInv, RepliesTrue, TypeOK, States
  <1>3. page'.rev <= srv'.rev BY <1>2
  <1> QED BY <1>1, <1>3 DEF RepliesTrue

LEMMA AnswerBadlyKeeps == ASSUME SyncInv, AnswerBadly PROVE SyncInv'
  <1>0. TypeOK /\ DiskFollows BY DEF SyncInv
  <1>1. /\ UNCHANGED <<srv, disk, section, lastPeer, strays>> /\ UNCHANGED pageVars
        /\ wire.at = "asked"
        /\ wire' = [at |-> "answered", out |-> [NoOut EXCEPT !.kind = "error"]]
    BY DEF AnswerBadly, brokerVars
  <1>2. page' = page /\ push' = push BY <1>1 DEF pageVars
  <1>3. srv' \in States /\ srv'.rev >= srv.rev
    BY <1>0, <1>1, SmallFields DEF TypeOK
  <1>4. RepliesTrue' /\ wire' \in WireRecord /\ wire'.at = "answered"
    BY <1>1, <1>2, <1>3, BadAnswerKept
  <1>5. TypeOK' BY <1>0, <1>1, <1>4 DEF TypeOK, pageVars
  <1>6. DiskFollows' BY <1>0, <1>1 DEF DiskFollows
  <1> QED BY <1>1, <1>3, <1>4, <1>5, <1>6, PageLeftAlone

LEMMA GiveUpKeeps == ASSUME SyncInv, GiveUp PROVE SyncInv'
  <1>0. TypeOK /\ DiskFollows /\ ChannelHeld BY DEF SyncInv
  <1>1. /\ UNCHANGED <<srv, disk, lastPeer>> /\ UNCHANGED pageVars
        /\ wire.at \in {"asked", "writing", "answered"}
        /\ wire' = [at |-> "answered", out |-> [NoOut EXCEPT !.kind = "lost"]]
        /\ section' = IF wire.at = "writing" THEN Shielded ELSE section
        /\ \/ strays' = strays
           \/ /\ push.at = "sent" /\ push.val \notin Refused
              /\ wire.at = "asked"
              /\ strays' = strays \cup
                   {[base |-> push.base, val |-> push.val, gen |-> push.gen]}
    BY DEF GiveUp
  <1>2. page' = page /\ push' = push BY <1>1 DEF pageVars
  <1>3. srv' \in States /\ srv'.rev >= srv.rev
    BY <1>0, <1>1, SmallFields DEF TypeOK
  <1>4. RepliesTrue' /\ wire' \in WireRecord /\ wire'.at = "answered"
    BY <1>1, <1>2, <1>3, BadAnswerKept
  <1>5. strays' \subseteq StrayRecord
    <2>1. push.at = "sent" => push.val \in Vals BY DEF SyncInv, PushKnown
    <2>2. CASE strays' = strays BY <1>0, <2>2 DEF TypeOK
    <2>3. CASE /\ push.at = "sent"
               /\ strays' = strays \cup
                   {[base |-> push.base, val |-> push.val, gen |-> push.gen]}
      <3>1. [base |-> push.base, val |-> push.val, gen |-> push.gen] \in StrayRecord
        BY <1>0, <2>1, <2>3, SmallFields DEF StrayRecord
      <3> QED BY <1>0, <2>3, <3>1 DEF TypeOK
    <2> QED BY <1>1, <2>2, <2>3
  <1>6. /\ section' \in SectionRecord /\ section'.who # "page"
        /\ section'.val = section.val /\ section'.landed = section.landed
        /\ section'.who = "none" => section' = section
        /\ section.who = "none" <=> section'.who = "none"
    <2>1. CASE section.who = "page"
      <3>1. wire.at = "writing" BY <1>0, <2>1 DEF DiskFollows
      <3>2. section' = [section EXCEPT !.who = "stray"]
        BY <1>1, <2>1, <3>1 DEF Shielded
      <3>3. section \in SectionRecord BY <1>0 DEF TypeOK
      <3> QED BY <2>1, <3>2, <3>3 DEF SectionRecord
    <2>2. CASE section.who # "page"
      <3>1. section' = section BY <1>1, <2>2 DEF Shielded
      <3> QED BY <1>0, <2>2, <3>1 DEF TypeOK
    <2> QED BY <2>1, <2>2
  <1>7. TypeOK' BY <1>0, <1>1, <1>4, <1>5, <1>6 DEF TypeOK, pageVars
  <1>8. DiskFollows'
    <2>1. srv' = srv /\ disk' = disk BY <1>1
    <2>2. section'.who = "none" => section' = NoSection
      BY <1>0, <1>6 DEF DiskFollows
    <2>3. section'.landed <=> section.landed BY <1>6
    <2>4. /\ ~section'.landed => srv' = disk'
          /\ section'.landed => disk'.rev = srv'.rev + 1
          /\ section'.landed => disk'.val = section'.val
      BY <1>0, <1>6, <2>1, <2>3 DEF DiskFollows
    <2>5. /\ section'.landed => section'.who # "none"
          /\ section'.who # "none" => section'.val \in Vals
      BY <1>0, <1>6, <2>3 DEF DiskFollows
    <2> QED BY <1>6, <2>2, <2>4, <2>5 DEF DiskFollows
  <1>9. srv' = srv BY <1>1
  <1> QED BY <1>1, <1>3, <1>4, <1>7, <1>8, <1>9, PageLeftAlone

\* A PUT has the lock: the file and the memory are one, and stay so.
LEMMA SectionTaken ==
    ASSUME SyncInv, section = NoSection, srv' = srv, disk' = disk,
           section'.who # "none", section'.val \in Vals, ~section'.landed,
           section'.who = "page" => /\ wire'.at = "writing" /\ push'.at = "sent"
                                    /\ section'.val = push'.val
    PROVE  DiskFollows'
  <1>1. srv' = disk' BY NothingSaid DEF SyncInv, DiskFollows
  <1> QED BY <1>1 DEF DiskFollows

LEMMA TakePutKeeps == ASSUME SyncInv, TakePut PROVE SyncInv'
  <1>0. /\ TypeOK /\ DiskFollows /\ ChannelHeld /\ RepliesTrue /\ PushKnown
    BY DEF SyncInv
  <1>1. /\ UNCHANGED <<srv, disk, lastPeer, strays>> /\ UNCHANGED pageVars
        /\ wire.at = "asked" /\ push.at = "sent"
    BY DEF TakePut
  <1>2. page' = page /\ push' = push BY <1>1 DEF pageVars
  <1>3. srv' = srv /\ srv' \in States /\ srv'.rev >= srv.rev
    BY <1>0, <1>1, SmallFields DEF TypeOK
  <1>4. section.who # "page" BY <1>0, <1>1 DEF DiskFollows
  <1>5. CASE /\ section' = section
             /\ wire' = [at |-> "answered",
                         out |-> [NoOut EXCEPT !.kind = "rejected"]]
    <2>1. RepliesTrue' /\ wire' \in WireRecord /\ wire'.at = "answered"
      BY <1>2, <1>3, <1>5, BadAnswerKept
    <2>2. TypeOK' BY <1>0, <1>1, <1>5, <2>1 DEF TypeOK, pageVars
    <2>3. DiskFollows' BY <1>0, <1>1, <1>4, <1>5 DEF DiskFollows
    <2> QED BY <1>1, <1>3, <2>1, <2>2, <2>3, PageLeftAlone
  <1>6. CASE /\ section' = section
             /\ wire' = [at |-> "answered", out |-> Conflict]
    <2>1. /\ Conflict \in OutRecord /\ Conflict.kind = "conflict"
          /\ Conflict.rev = srv.rev /\ Conflict.val = srv.val
      BY <1>0, SmallFields DEF Conflict, OutRecord
    <2>2. wire' \in WireRecord /\ wire'.at = "answered" /\ wire'.out = Conflict
      BY <1>6, <2>1, WireBuilt
    <2>3. RepliesTrue'
      BY <1>0, <1>2, <1>3, <2>1, <2>2, SmallFields DEF RepliesTrue
    <2>4. TypeOK' BY <1>0, <1>1, <1>6, <2>2 DEF TypeOK, pageVars
    <2>5. DiskFollows' BY <1>0, <1>1, <1>4, <1>6 DEF DiskFollows
    <2> QED BY <1>1, <1>3, <2>2, <2>3, <2>4, <2>5, PageLeftAlone
  <1>7. CASE /\ section = NoSection
             /\ section' = [NoSection EXCEPT !.who = "page", !.val = push.val,
                                             !.gen = push.gen]
             /\ wire' = [wire EXCEPT !.at = "writing"]
    <2>1. wire' \in WireRecord /\ wire'.at = "writing" /\ wire'.out = wire.out
      BY <1>0, <1>7, WireBuilt DEF TypeOK
    <2>2. push.val \in Vals /\ push.gen \in Gens
      BY <1>0, <1>1, SmallFields DEF PushKnown
    <2>3. section' \in SectionRecord /\ DiskFollows'
      <3> DEFINE s == [NoSection EXCEPT !.who = "page", !.val = push.val,
                                        !.gen = push.gen]
      <3>1. s \in SectionRecord /\ s.who = "page" /\ s.val = push.val /\ ~s.landed
        BY <2>2 DEF NoSection, SectionRecord
      <3>2. section' = s BY <1>7
      <3> HIDE DEF s
      <3>3. section' \in SectionRecord /\ section'.who # "none"
            /\ section'.val \in Vals /\ section'.val = push'.val
        BY <1>2, <2>2, <3>1, <3>2
      <3>4. ~section'.landed BY <3>1, <3>2
      <3>5. srv' = srv /\ disk' = disk /\ section = NoSection BY <1>1, <1>7
      <3>6. wire'.at = "writing" /\ push'.at = "sent" BY <1>1, <1>2, <2>1
      <3> QED BY <3>3, <3>4, <3>5, <3>6, SectionTaken
    <2>4. RepliesTrue'
      <3>1. wire.out = NoOut BY <1>0, <1>1 DEF RepliesTrue
      <3> QED BY <1>0, <1>2, <1>3, <2>1, <3>1, NothingSaid DEF RepliesTrue
    <2>5. TypeOK' BY <1>0, <1>1, <2>1, <2>3 DEF TypeOK, pageVars
    <2> QED BY <1>1, <1>3, <2>1, <2>3, <2>4, <2>5, PageLeftAlone
  <1> QED BY <1>5, <1>6, <1>7 DEF TakePut

\* A section is taken for somebody else than the page's PUT in flight.
LEMMA TakenAside ==
    ASSUME SyncInv, UNCHANGED <<srv, disk, lastPeer, wire>>, UNCHANGED pageVars,
           strays' \subseteq strays, section' \in SectionRecord, DiskFollows'
    PROVE  SyncInv'
  <1>0. TypeOK /\ RepliesTrue BY DEF SyncInv
  <1>1. TypeOK' BY <1>0 DEF TypeOK, pageVars
  <1>2. RepliesTrue' BY <1>0 DEF RepliesTrue, pageVars
  <1>3. srv' = srv /\ srv'.rev >= srv.rev BY <1>0, SmallFields
  <1> QED BY <1>1, <1>2, <1>3, PageLeftAlone

LEMMA TakeStrayKeeps == ASSUME SyncInv, TakeStray PROVE SyncInv'
  <1>0. TypeOK /\ DiskFollows BY DEF SyncInv
  <1>1. PICK st \in strays :
          /\ section = NoSection
          /\ strays' = strays \ {st}
          /\ \/ section' = section
             \/ section' = [NoSection EXCEPT !.who = "stray", !.val = st.val,
                                             !.gen = st.gen]
    BY DEF TakeStray
  <1>2. /\ UNCHANGED <<srv, disk, lastPeer, wire>> /\ UNCHANGED pageVars
    BY DEF TakeStray
  <1>3. section' \in SectionRecord /\ DiskFollows'
    <2>1. CASE section' = section
      <3>1. section' \in SectionRecord BY <1>0, <2>1 DEF TypeOK
      <3>2. srv' = srv /\ disk' = disk /\ wire' = wire /\ push' = push
        BY <1>2 DEF pageVars
      <3>3. DiskFollows' BY <1>0, <2>1, <3>2 DEF DiskFollows
      <3> QED BY <3>1, <3>3
    <2>2. CASE section' = [NoSection EXCEPT !.who = "stray", !.val = st.val,
                                            !.gen = st.gen]
      <3>1. st.val \in Vals /\ st.gen \in Gens BY <1>0 DEF TypeOK, StrayRecord
      <3> DEFINE s == [NoSection EXCEPT !.who = "stray", !.val = st.val,
                                        !.gen = st.gen]
      <3>2. s \in SectionRecord /\ s.who = "stray" /\ s.val = st.val /\ ~s.landed
        BY <3>1 DEF NoSection, SectionRecord
      <3>3. section' = s BY <2>2
      <3> HIDE DEF s
      <3>4. section' \in SectionRecord /\ section'.who = "stray"
            /\ section'.val \in Vals
        BY <3>1, <3>2, <3>3
      <3>5. ~section'.landed BY <3>2, <3>3
      <3>6. srv' = srv /\ disk' = disk /\ section = NoSection BY <1>1, <1>2
      <3> QED BY <3>4, <3>5, <3>6, SectionTaken
    <2> QED BY <1>1, <2>1, <2>2
  <1> QED BY <1>1, <1>2, <1>3, TakenAside

LEMMA TakePeerKeeps ==
    ASSUME SyncInv, NEW v \in Vals \ Refused, TakePeer(v) PROVE SyncInv'
  <1>1. /\ UNCHANGED <<srv, disk, lastPeer, wire, strays>> /\ UNCHANGED pageVars
        /\ section = NoSection
        /\ section' = [NoSection EXCEPT !.who = "peer", !.val = v]
    BY DEF TakePeer, netVars
  <1> DEFINE s == [NoSection EXCEPT !.who = "peer", !.val = v]
  <1>2. s \in SectionRecord /\ s.who = "peer" /\ s.val = v /\ ~s.landed
    BY GenBounds DEF NoSection, SectionRecord
  <1>3. section' = s BY <1>1
  <1> HIDE DEF s
  <1>4. section' \in SectionRecord /\ DiskFollows'
    BY <1>1, <1>2, <1>3, SectionTaken
  <1> QED BY <1>1, <1>4, TakenAside

LEMMA WriteLandsKeeps == ASSUME SyncInv, WriteLands PROVE SyncInv'
  <1>0. TypeOK /\ DiskFollows /\ RepliesTrue BY DEF SyncInv
  <1>1. /\ UNCHANGED <<srv, lastPeer, wire, strays>> /\ UNCHANGED pageVars
        /\ section.who # "none" /\ section.landed = FALSE
        /\ section' = [section EXCEPT !.landed = TRUE]
        /\ disk' = [rev |-> srv.rev + 1, val |-> section.val]
    BY <1>0, SmallFields DEF WriteLands, netVars
  <1>2. section.val \in Vals BY <1>0, <1>1 DEF DiskFollows
  <1>3. disk' \in States /\ disk'.rev = srv.rev + 1 /\ disk'.val = section.val
    BY <1>0, <1>1, <1>2, SmallFields DEF States
  <1>4. /\ section' \in SectionRecord /\ section'.landed = TRUE
        /\ section'.who = section.who /\ section'.val = section.val
    BY <1>0, <1>1 DEF TypeOK, SectionRecord
  <1>5. TypeOK' BY <1>0, <1>1, <1>3, <1>4 DEF TypeOK, pageVars
  <1>6. DiskFollows' BY <1>0, <1>1, <1>2, <1>3, <1>4 DEF DiskFollows, pageVars
  <1>7. RepliesTrue' BY <1>0, <1>1 DEF RepliesTrue, pageVars
  <1>8. srv' = srv /\ srv'.rev >= srv.rev BY <1>0, <1>1, SmallFields
  <1> QED BY <1>1, <1>5, <1>6, <1>7, <1>8, PageLeftAlone

LEMMA WriteFailsKeeps == ASSUME SyncInv, WriteFails PROVE SyncInv'
  <1>0. TypeOK /\ DiskFollows /\ RepliesTrue BY DEF SyncInv
  <1>1. /\ UNCHANGED <<srv, disk, lastPeer, strays>> /\ UNCHANGED pageVars
        /\ section.landed = FALSE /\ section' = NoSection
        /\ \/ wire' = wire
           \/ wire' = [at |-> "answered", out |-> [NoOut EXCEPT !.kind = "error"]]
    BY <1>0, SmallFields DEF WriteFails
  <1>2. page' = page /\ push' = push BY <1>1 DEF pageVars
  <1>3. srv' = srv /\ srv' \in States /\ srv'.rev >= srv.rev
    BY <1>0, <1>1, SmallFields DEF TypeOK
  <1>4. /\ RepliesTrue' /\ wire' \in WireRecord
        /\ wire.at # "none" => wire'.at # "none"
    <2>1. CASE wire' = wire BY <1>0, <1>2, <1>3, <2>1 DEF RepliesTrue, TypeOK
    <2>2. CASE wire' = [at |-> "answered", out |-> [NoOut EXCEPT !.kind = "error"]]
      BY <1>2, <1>3, <2>2, BadAnswerKept
    <2> QED BY <1>1, <2>1, <2>2
  <1>5. TypeOK' BY <1>0, <1>1, <1>4, RecordsBuilt DEF TypeOK, pageVars
  <1>6. srv = disk BY <1>0, <1>1 DEF DiskFollows
  <1>7. DiskFollows' BY <1>1, <1>6, NothingSaid DEF DiskFollows
  <1> QED BY <1>1, <1>3, <1>4, <1>5, <1>7, PageLeftAlone

\* A landed write is one revision above all that has been said so far.
LEMMA NewRevision ==
    ASSUME SyncInv, srv' = disk
    PROVE  /\ srv' \in States /\ srv'.rev >= srv.rev
           /\ srv'.rev = srv.rev => srv' = srv
           /\ section.landed => srv'.rev > srv.rev
  <1>1. CASE section.landed
    <2>1. disk.rev = srv.rev + 1 BY <1>1 DEF SyncInv, DiskFollows
    <2> QED BY <2>1, SmallFields DEF SyncInv, TypeOK
  <1>2. CASE ~section.landed
    <2>1. disk = srv BY <1>2 DEF SyncInv, DiskFollows
    <2> QED BY <1>2, <2>1, SmallFields DEF SyncInv, TypeOK
  <1> QED BY <1>1, <1>2

LEMMA NotedPeerIsNat == ASSUME TypeOK PROVE NotedPeer \in Nat
  BY SmallFields DEF NotedPeer, TypeOK

LEMMA CommitKeeps == ASSUME SyncInv, Commit PROVE SyncInv'
  <1>0. TypeOK /\ DiskFollows /\ RepliesTrue BY DEF SyncInv
  <1> DEFINE o == [NoOut EXCEPT !.kind = "saved", !.rev = disk.rev]
  <1>1. /\ disk' = disk /\ strays' = strays /\ UNCHANGED pageVars
        /\ section.landed /\ section' = NoSection /\ srv' = disk
        /\ lastPeer' = NotedPeer
        /\ wire' = IF section.who = "page" THEN [at |-> "answered", out |-> o]
                                           ELSE wire
    BY DEF Commit
  <1>2. page' = page /\ push' = push BY <1>1 DEF pageVars
  <1>3. srv' \in States /\ srv'.rev > srv.rev
    BY <1>1, NewRevision
  <1>4. page.rev <= srv.rev /\ page.rev \in Nat /\ srv.rev \in Nat /\ srv'.rev \in Nat
    BY <1>0, <1>3, PageFields, SmallFields DEF RepliesTrue, States
  <1>5. /\ RepliesTrue' /\ wire' \in WireRecord
        /\ wire.at # "none" => wire'.at # "none"
    <2>1. CASE section.who = "page"
      <3>1. push.at = "sent" /\ push.val = section.val /\ disk.val = section.val
        BY <1>0, <1>1, <2>1 DEF DiskFollows
      <3>2. o \in OutRecord /\ o.kind = "saved" /\ o.rev = disk.rev
        BY <1>0, SmallFields DEF OutRecord, NoOut
      <3> HIDE DEF o
      <3>3. wire' \in WireRecord /\ wire'.at = "answered" /\ wire'.out = o
        BY <1>1, <2>1, <3>2, WireBuilt
      <3>4. page'.rev <= srv'.rev /\ page'.rev <= wire'.out.rev
            /\ wire'.out.rev <= srv'.rev
        BY <1>1, <1>2, <1>3, <1>4, <3>2, <3>3
      <3> QED BY <1>1, <1>2, <3>1, <3>2, <3>3, <3>4 DEF RepliesTrue
    <2>2. CASE section.who # "page"
      <3>1. wire' = wire BY <1>1, <2>2
      <3>2. wire.out.rev \in Nat BY <1>0, SmallFields
      <3> HIDE DEF o
      <3>3. RepliesTrue' BY <1>0, <1>2, <1>3, <1>4, <3>1, <3>2 DEF RepliesTrue
      <3> QED BY <1>0, <3>1, <3>3 DEF TypeOK
    <2> QED BY <2>1, <2>2
  <1> HIDE DEF o
  <1>6. NotedPeer \in Nat BY <1>0, NotedPeerIsNat
  <1>7. TypeOK' BY <1>0, <1>1, <1>3, <1>5, <1>6, RecordsBuilt DEF TypeOK, pageVars
  <1>8. DiskFollows' BY <1>1, NothingSaid DEF DiskFollows
  <1>9. (srv'.rev = srv.rev => srv'.val = srv.val) /\ srv'.rev >= srv.rev
    BY <1>3, <1>4
  <1> QED BY <1>1, <1>5, <1>7, <1>8, <1>9, PageLeftAlone

LEMMA CrashKeeps == ASSUME SyncInv, Crash PROVE SyncInv'
  <1>0. TypeOK /\ DiskFollows /\ RepliesTrue BY DEF SyncInv
  <1>1. /\ disk' = disk /\ strays' = {} /\ UNCHANGED pageVars
        /\ section' = NoSection /\ srv' = disk
        /\ lastPeer' = IF section.landed THEN NotedPeer ELSE lastPeer
        /\ wire' = IF wire.at = "none" THEN wire
                   ELSE [at |-> "answered", out |-> [NoOut EXCEPT !.kind = "lost"]]
    BY DEF Crash
  <1>2. page' = page /\ push' = push BY <1>1 DEF pageVars
  <1>3. srv' \in States /\ srv'.rev >= srv.rev /\ (srv'.rev = srv.rev => srv' = srv)
    BY <1>1, NewRevision
  <1>4. page.rev <= srv.rev /\ page.rev \in Nat /\ srv.rev \in Nat /\ srv'.rev \in Nat
    BY <1>0, <1>3, PageFields, SmallFields DEF RepliesTrue, States
  <1>5. /\ RepliesTrue' /\ wire' \in WireRecord
        /\ wire.at # "none" => wire'.at # "none"
    <2>1. CASE wire.at = "none"
      <3>1. wire' = wire /\ wire.out = NoOut BY <1>0, <1>1, <2>1 DEF RepliesTrue
      <3>2. page'.rev <= srv'.rev BY <1>2, <1>3, <1>4
      <3>3. RepliesTrue' BY <3>1, <3>2, NothingSaid DEF RepliesTrue
      <3> QED BY <1>0, <3>1, <3>3 DEF TypeOK
    <2>2. CASE wire.at # "none" BY <1>1, <1>2, <1>3, <2>2, BadAnswerKept
    <2> QED BY <2>1, <2>2
  <1>6. lastPeer' \in Nat BY <1>0, <1>1, NotedPeerIsNat DEF TypeOK
  <1>7. TypeOK' BY <1>0, <1>1, <1>3, <1>5, <1>6, RecordsBuilt DEF TypeOK, pageVars
  <1>8. DiskFollows' BY <1>1, NothingSaid DEF DiskFollows
  <1> QED BY <1>1, <1>3, <1>5, <1>7, <1>8, PageLeftAlone

-----------------------------------------------------------------------------
(* The page's steps leave the broker as it is.                             *)

LEMMA DiskAlone ==
    ASSUME SyncInv, UNCHANGED <<srv, disk, section>>,
           \/ section.who # "page"
           \/ wire' = wire /\ (push.at = "sent" => push' = push)
    PROVE  /\ DiskFollows'
           /\ srv' = srv /\ srv' \in States /\ disk' \in States
           /\ section' \in SectionRecord
  <1>1. srv' = srv /\ disk' = disk /\ section' = section
    OBVIOUS
  <1>2. section'.who = "page" => /\ wire'.at = "writing" /\ push'.at = "sent"
                                 /\ section'.val = push'.val
    BY <1>1 DEF SyncInv, DiskFollows
  <1> QED BY <1>1, <1>2 DEF SyncInv, DiskFollows, TypeOK

LEMMA NoPagesSection ==
    ASSUME SyncInv, wire.at # "writing" PROVE section.who # "page"
  BY DEF SyncInv, DiskFollows

LEMMA NothingSent ==
    ASSUME SyncInv, wire = NoWire
    PROVE  push.at # "sent" /\ pull.at # "sent" /\ section.who # "page"
  BY NothingSaid DEF SyncInv, DiskFollows, ChannelHeld

\* What a step leaves true of the answers when it says nothing new.
LEMMA NothingNew ==
    ASSUME SyncInv, srv' = srv, page'.rev = page.rev,
           \/ wire' = wire /\ push' = push
           \/ wire'.out = NoOut
    PROVE  RepliesTrue'
  <1>1. page'.rev <= srv'.rev BY DEF SyncInv, RepliesTrue
  <1>2. CASE wire' = wire /\ push' = push
    BY <1>1, <1>2 DEF SyncInv, RepliesTrue
  <1>3. CASE wire'.out = NoOut BY <1>1, <1>3, NothingSaid DEF RepliesTrue
  <1> QED BY <1>2, <1>3

LEMMA OwedMoves ==
    ASSUME NEW p, NEW q, SameMarks(q, p), q.fail = NoFail <=> p.fail = NoFail
    PROVE  Owed(q) <=> Owed(p)
  BY DEF Owed, SameMarks

\* The page's text and records as they were, a push the same or just called
\* for: the page's share of the invariant holds.
LEMMA PageTextAlone ==
    ASSUME SyncInv, srv' = srv, SameButTimers(page', page), slipped' = slipped,
           \/ push' = push
           \/ /\ push.at = "idle" /\ push'.at = "waiting" /\ ~page.off
              /\ push'.epoch = page.epoch
    PROVE  BaseTrue' /\ EditsKept' /\ PushKnown'
  <1>1. /\ page'.local = page.local /\ page'.base = page.base
        /\ page'.rev = page.rev /\ page'.skipped = page.skipped
        /\ page'.editGen = page.editGen /\ page'.sentGen = page.sentGen
        /\ page'.off = page.off /\ page'.epoch = page.epoch
        /\ page'.fail = page.fail /\ page'.park = page.park
    BY DEF SameButTimers, SameText, SameSeen, SameMarks, SameView
  <1>2. Owed(page)' <=> Owed(page) BY <1>1 DEF Owed
  <1>3. BaseTrue' BY <1>1 DEF SyncInv, BaseTrue
  <1>4. CASE push' = push
    <2>1. EditsKept' BY <1>1, <1>2, <1>4 DEF SyncInv, EditsKept
    <2>2. PushKnown' BY <1>1, <1>4 DEF SyncInv, PushKnown
    <2> QED BY <1>3, <2>1, <2>2
  <1>5. CASE /\ push.at = "idle" /\ push'.at = "waiting" /\ ~page.off
             /\ push'.epoch = page.epoch
    <2>1. EditsKept' BY <1>1, <1>2, <1>5 DEF SyncInv, EditsKept
    <2>2. page.epoch \in Nat BY SmallFields, PageFields, GenBounds DEF SyncInv
    <2>3. PushKnown' BY <1>1, <1>5, <2>2 DEF SyncInv, PushKnown
    <2> QED BY <1>3, <2>1, <2>3
  <1> QED BY <1>4, <1>5

\* A step of the page: the invariant from its parts.
LEMMA PageStepNoted ==
    ASSUME SyncInv, UNCHANGED <<srv, disk, section>>, lastPeer' \in Nat,
           \/ section.who # "page"
           \/ wire' = wire /\ (push.at = "sent" => push' = push),
           UNCHANGED strays, wire' \in WireRecord, push' \in PushRecord,
           pull' \in PullRecord, page' \in PageRecord,
           chain' \in [Epochs -> {"none", "flush", "pushing", "pull", "pulling",
                                  "done"}],
           origin' \in [gen : Gens, base : Nat], slipped' \in Gens,
           ChannelHeld', RepliesTrue', PushKnown', BaseTrue', EditsKept'
    PROVE  SyncInv'
  <1>1. /\ DiskFollows'
        /\ srv' = srv /\ srv' \in States /\ disk' \in States
        /\ section' \in SectionRecord
    BY DiskAlone
  <1>2. strays' \subseteq StrayRecord BY DEF SyncInv, TypeOK
  <1>3. TypeOK' BY <1>1, <1>2 DEF TypeOK
  <1> QED BY <1>1, <1>3 DEF SyncInv

LEMMA PageStep ==
    ASSUME SyncInv, UNCHANGED brokerVars,
           \/ section.who # "page"
           \/ wire' = wire /\ (push.at = "sent" => push' = push),
           UNCHANGED strays, wire' \in WireRecord, push' \in PushRecord,
           pull' \in PullRecord, page' \in PageRecord,
           chain' \in [Epochs -> {"none", "flush", "pushing", "pull", "pulling",
                                  "done"}],
           origin' \in [gen : Gens, base : Nat], slipped' \in Gens,
           ChannelHeld', RepliesTrue', PushKnown', BaseTrue', EditsKept'
    PROVE  SyncInv'
  <1>1. UNCHANGED <<srv, disk, section>> /\ lastPeer' \in Nat
    BY DEF brokerVars, SyncInv, TypeOK
  <1> QED BY <1>1, PageStepNoted

LEMMA EditKeeps == ASSUME SyncInv, NEW v \in Vals, Edit(v) PROVE SyncInv'
  <1>0. TypeOK /\ PushKnown /\ BaseTrue /\ EditsKept BY DEF SyncInv
  <1> DEFINE q == [page EXCEPT !.local = v, !.editGen = @ + 1]
  <1>1. /\ UNCHANGED brokerVars
        /\ strays' = strays /\ wire' = wire /\ push' = push /\ pull' = pull
        /\ chain' = chain /\ origin' = origin /\ slipped' = slipped
        /\ page.editGen < MaxGen /\ page' = Scheduled(q)
    BY DEF Edit, netVars
  <1>2. /\ q \in PageRecord /\ q.local = v /\ q.base = page.base /\ q.rev = page.rev
        /\ q.skipped = page.skipped /\ q.editGen = page.editGen + 1
        /\ q.sentGen = page.sentGen /\ q.off = page.off /\ q.epoch = page.epoch
        /\ q.fail = page.fail /\ q.park = page.park
    BY <1>0, <1>1, SmallFields, GenBounds DEF PageRecord
  <1> HIDE DEF q
  <1>3. /\ page' \in PageRecord /\ page'.base = page.base
        /\ page'.rev = page.rev
        /\ page'.skipped = page.skipped /\ page'.editGen = page.editGen + 1
        /\ page'.sentGen = page.sentGen /\ page'.off = page.off
        /\ page'.epoch = page.epoch
        /\ page'.fail = page.fail /\ page'.park = page.park
    <2>1. page' \in PageRecord /\ SameButTimers(page', q)
      BY <1>1, <1>2, ScheduledDoes
    <2> QED BY <1>2, <2>1
            DEF SameButTimers, SameText, SameSeen, SameMarks, SameView
  <1>4. srv' = srv /\ disk' = disk /\ section' = section BY <1>1 DEF brokerVars
  <1>5. /\ page.editGen \in Nat /\ page.sentGen \in Nat /\ page.park.gen \in Nat
        /\ push.gen \in Nat
    BY <1>0, SmallFields, PageFields, ParkFields, GenBounds
  <1>6. page'.editGen > page.editGen /\ page'.editGen # 0
    BY <1>3, <1>5
  <1>7. PushKnown'
    <2>1. push.at = "sent" => push.gen < page'.editGen
      BY <1>0, <1>3, <1>5 DEF PushKnown
    <2>2. page.park.gen <= page'.editGen /\ page.sentGen <= page'.editGen
      BY <1>0, <1>3, <1>5 DEF PushKnown
    <2> QED BY <1>0, <1>1, <1>3, <1>5, <2>1, <2>2 DEF PushKnown
  <1>8. BaseTrue' BY <1>0, <1>3, <1>4 DEF BaseTrue
  <1>9. EditsKept'
    <2>1. page'.editGen > page'.sentGen BY <1>0, <1>3, <1>5 DEF PushKnown
    <2>2. Owed(page)' BY <2>1 DEF Owed
    <2>3. push.at = "sent" => page'.editGen > push.gen
      BY <1>0, <1>3, <1>5 DEF PushKnown
    <2> QED BY <1>1, <1>6, <2>2, <2>3 DEF EditsKept
  <1>10. ChannelHeld' BY <1>1 DEF SyncInv, ChannelHeld
  <1>11. RepliesTrue' BY <1>1, <1>3, <1>4, NothingNew
  <1>12. TypeOK
    BY <1>0
  <1> QED BY <1>1, <1>3, <1>7, <1>8, <1>9, <1>10, <1>11, <1>12, PageStep DEF TypeOK

LEMMA TimerFiresKeeps == ASSUME SyncInv, TimerFires PROVE SyncInv'
  <1>0. TypeOK BY DEF SyncInv
  <1> DEFINE q == [page EXCEPT !.timer = FALSE]
  <1>1. /\ UNCHANGED brokerVars
        /\ strays' = strays /\ wire' = wire /\ pull' = pull
        /\ chain' = chain /\ origin' = origin /\ slipped' = slipped
        /\ page' = Called(q) /\ push' = PushAfterCall(page)
    BY DEF TimerFires, netVars
  <1>2. q \in PageRecord /\ SameButTimers(q, page)
    BY <1>0, SmallFields
       DEF PageRecord, SameButTimers, SameText, SameSeen, SameMarks, SameView
  <1> HIDE DEF q
  <1>3. page' \in PageRecord /\ SameButTimers(page', page)
    <2>1. page' \in PageRecord /\ SameButTimers(page', q)
      BY <1>1, <1>2, CalledDoes
    <2> QED BY <1>2, <2>1
            DEF SameButTimers, SameText, SameSeen, SameMarks, SameView
  <1>4. /\ push' \in PushRecord
        /\ push' = push \/ (/\ push.at = "idle" /\ push'.at = "waiting" /\ ~page.off
                           /\ push'.epoch = page.epoch)
    BY <1>0, <1>1, SmallFields, PushAfterCallDoes
  <1>5. srv' = srv BY <1>1 DEF brokerVars
  <1>6. BaseTrue' /\ EditsKept' /\ PushKnown'
    BY <1>1, <1>3, <1>4, <1>5, PageTextAlone
  <1>7. ChannelHeld' BY <1>1, <1>4 DEF SyncInv, ChannelHeld
  <1>8. RepliesTrue'
    <2>1. page'.rev = page.rev BY <1>3 DEF SameButTimers, SameSeen
    <2>2. CASE push' = push BY <1>1, <1>5, <2>1, <2>2, NothingNew
    <2>3. CASE push.at = "idle"
      BY <1>1, <1>5, <2>1, <2>3 DEF SyncInv, RepliesTrue
    <2> QED BY <1>4, <2>2, <2>3
  <1>9. push.at = "sent" => push' = push BY <1>4
  <1> QED BY <1>0, <1>1, <1>3, <1>4, <1>6, <1>7, <1>8, <1>9, PageStep DEF TypeOK

LEMMA PullPollsKeeps == ASSUME SyncInv, PullPolls PROVE SyncInv'
  <1>0. TypeOK BY DEF SyncInv
  <1>1. /\ UNCHANGED brokerVars
        /\ strays' = strays /\ push' = push /\ page' = page
        /\ chain' = chain /\ origin' = origin /\ slipped' = slipped
        /\ wire = NoWire
        /\ pull' = [NoPull EXCEPT !.at = "sent", !.epoch = page.epoch]
        /\ wire' = [NoWire EXCEPT !.at = "asked"]
    BY DEF PullPolls
  <1>2. push.at # "sent" /\ section.who # "page" BY <1>1, NothingSent
  <1>3. /\ wire' \in WireRecord /\ wire'.at = "asked" /\ wire'.out = NoOut
    BY <1>1, WireBuilt
  <1>4. pull' \in PullRecord
    BY <1>0, <1>1, RecordsBuilt, SmallFields, PageFields DEF PullRecord
  <1>5. srv' = srv BY <1>1 DEF brokerVars
  <1>6. SameButTimers(page', page)
    BY <1>1 DEF SameButTimers, SameText, SameSeen, SameMarks, SameView
  <1>7. BaseTrue' /\ EditsKept' /\ PushKnown'
    BY <1>1, <1>5, <1>6, PageTextAlone
  <1>8. ChannelHeld' BY <1>1, <1>2, <1>3 DEF ChannelHeld
  <1>9. RepliesTrue' BY <1>1, <1>3, <1>5, NothingNew
  <1> QED BY <1>0, <1>1, <1>2, <1>3, <1>4, <1>7, <1>8, <1>9, PageStep DEF TypeOK

LEMMA PullsAtRebuildKeeps ==
    ASSUME SyncInv, NEW e \in Epochs, PullsAtRebuild(e) PROVE SyncInv'
  <1>0. TypeOK BY DEF SyncInv
  <1>1. /\ UNCHANGED brokerVars
        /\ strays' = strays /\ push' = push /\ page' = page
        /\ origin' = origin /\ slipped' = slipped
    BY DEF PullsAtRebuild
  <1>2. chain' \in [Epochs -> {"none", "flush", "pushing", "pull", "pulling",
                               "done"}]
    BY <1>0 DEF TypeOK, PullsAtRebuild
  <1>3. srv' = srv BY <1>1 DEF brokerVars
  <1>4. SameButTimers(page', page)
    BY <1>1 DEF SameButTimers, SameText, SameSeen, SameMarks, SameView
  <1>5. BaseTrue' /\ EditsKept' /\ PushKnown'
    BY <1>1, <1>3, <1>4, PageTextAlone
  <1>6. CASE pull' = pull /\ wire' = wire
    <2>1. ChannelHeld' BY <1>1, <1>6 DEF SyncInv, ChannelHeld
    <2>2. RepliesTrue' BY <1>1, <1>3, <1>6, NothingNew
    <2> QED BY <1>0, <1>1, <1>2, <1>5, <1>6, <2>1, <2>2, PageStep DEF TypeOK
  <1>7. CASE /\ wire = NoWire
             /\ pull' = [at |-> "sent", epoch |-> e, initial |-> TRUE]
             /\ wire' = [NoWire EXCEPT !.at = "asked"]
    <2>1. push.at # "sent" /\ section.who # "page" BY <1>7, NothingSent
    <2>2. /\ wire' \in WireRecord /\ wire'.at = "asked" /\ wire'.out = NoOut
      BY <1>7, WireBuilt
    <2>3. pull' \in PullRecord BY <1>7 DEF PullRecord
    <2>4. ChannelHeld' BY <1>1, <2>1, <2>2 DEF ChannelHeld
    <2>5. RepliesTrue' BY <1>1, <1>3, <2>2, NothingNew
    <2> QED BY <1>0, <1>1, <1>2, <1>5, <2>1, <2>2, <2>3, <2>4, <2>5, PageStep
            DEF TypeOK
  <1> QED BY <1>6, <1>7 DEF PullsAtRebuild

\* pushState's finally changes no more than the timers.
LEMMA FinishedDoes ==
    ASSUME TypeOK, NEW p \in PageRecord, Finished(p)
    PROVE  /\ push' = NoPush /\ push' \in PushRecord /\ push'.at = "idle"
           /\ page' \in PageRecord /\ SameButTimers(page', p)
           /\ chain' \in [Epochs -> {"none", "flush", "pushing", "pull", "pulling",
                                    "done"}]
  <1> DEFINE q == [p EXCEPT !.again = FALSE]
  <1>1. q \in PageRecord /\ SameButTimers(q, p)
    BY DEF PageRecord, SameButTimers, SameText, SameSeen, SameMarks, SameView
  <1>2. /\ push' = NoPush
        /\ page' = q \/ page' = Scheduled(q)
        /\ chain' = [e \in Epochs |-> IF chain[e] = "pushing" THEN "pull"
                                                              ELSE chain[e]]
    BY DEF Finished
  <1> HIDE DEF q
  <1>3. page' \in PageRecord /\ SameButTimers(page', p)
    <2>1. CASE page' = q BY <1>1, <2>1
    <2>2. CASE page' = Scheduled(q)
      <3>1. page' \in PageRecord /\ SameButTimers(page', q)
        BY <1>1, <2>2, ScheduledDoes
      <3> QED BY <1>1, <3>1
              DEF SameButTimers, SameText, SameSeen, SameMarks, SameView
    <2> QED BY <1>2, <2>1, <2>2
  <1>4. chain' \in [Epochs -> {"none", "flush", "pushing", "pull", "pulling",
                              "done"}]
    BY <1>2 DEF TypeOK
  <1> QED BY <1>2, <1>3, <1>4, RecordsBuilt, NothingSaid

\* What a page in state p has to be when its push is over, with s as the edit
\* that slipped by.
Settled(p, s) ==
    /\ page.rev <= p.rev /\ p.rev <= srv.rev
    /\ p.park.gen <= p.editGen /\ p.sentGen <= p.editGen
    /\ p.base = NoVal => p.skipped
    /\ ~p.skipped /\ p.rev = srv.rev => p.base = srv.val
    /\ p.editGen = 0 => p.local = p.base
    /\ p.local # p.base => Owed(p) \/ p.base = NoVal \/ s = p.editGen

LEMMA FinishedSettles ==
    ASSUME SyncInv, NEW p \in PageRecord, Finished(p), Settled(p, slipped'),
           srv' = srv, wire'.out = NoOut
    PROVE  /\ PushKnown' /\ BaseTrue' /\ EditsKept' /\ RepliesTrue'
           /\ page'.rev >= page.rev
  <1>1. /\ push' = NoPush /\ push'.at = "idle" /\ SameButTimers(page', p)
    BY FinishedDoes DEF SyncInv
  <1>2. /\ page'.local = p.local /\ page'.base = p.base
        /\ page'.rev = p.rev /\ page'.skipped = p.skipped
        /\ page'.editGen = p.editGen /\ page'.sentGen = p.sentGen
        /\ page'.fail = p.fail /\ page'.park = p.park
    BY <1>1 DEF SameButTimers, SameText, SameSeen, SameMarks, SameView
  <1>3. Owed(page)' <=> Owed(p) BY <1>2 DEF Owed
  <1>4. PushKnown' BY <1>1, <1>2 DEF PushKnown, Settled
  <1>5. BaseTrue' BY <1>2 DEF BaseTrue, Settled
  <1>6. EditsKept' BY <1>1, <1>2, <1>3 DEF EditsKept, Settled
  <1>7. RepliesTrue' BY <1>2, NothingSaid DEF RepliesTrue, Settled
  <1>8. page.rev \in Nat /\ p.rev \in Nat
    BY SmallFields, PageFields DEF SyncInv
  <1>9. page'.rev >= page.rev BY <1>2, <1>8 DEF Settled
  <1> QED BY <1>4, <1>5, <1>6, <1>7, <1>9

\* The numbers an argument about the page compares.
LEMMA Numbers ==
    ASSUME SyncInv
    PROVE  /\ page.editGen \in Nat /\ page.sentGen \in Nat /\ page.park.gen \in Nat
           /\ push.gen \in Nat /\ page.rev \in Nat /\ srv.rev \in Nat
           /\ page.epoch \in Nat /\ push.epoch \in Nat
           /\ wire.out.rev \in Nat /\ page.fail.gen \in Nat
           /\ page.editGen \in Gens /\ page.sentGen \in Gens /\ page.epoch \in Epochs
           /\ page.park \in ParkRecord /\ page.park.gen \in Gens
  <1>1. TypeOK BY DEF SyncInv
  <1> QED BY <1>1, SmallFields, PageFields, ParkFields, FailFields, GenBounds

LEMMA PushSendsKeeps ==
    ASSUME SyncInv, PushSends PROVE SyncInv' /\ page'.rev >= page.rev
  <1>0. /\ TypeOK /\ DiskFollows /\ ChannelHeld /\ RepliesTrue /\ PushKnown
        /\ BaseTrue /\ EditsKept
    BY DEF SyncInv
  <1>1. /\ UNCHANGED <<srv, disk, section>>
        /\ lastPeer' = lastPeer \/ lastPeer' = 0
        /\ strays' = strays /\ pull' = pull /\ origin' = origin
        /\ wire = NoWire /\ push.at = "waiting"
    BY DEF PushSends
  <1>2. /\ srv' = srv /\ section.who # "page" /\ pull.at # "sent"
        /\ lastPeer' \in Nat
    BY <1>0, <1>1, NothingSent DEF TypeOK
  <1>3. page \in PageRecord /\ push \in PushRecord /\ pull \in PullRecord
    BY <1>0, SmallFields
  <1>4. ASSUME NEW p \in PageRecord, Finished(p), wire' = wire, Settled(p, slipped)
        PROVE  SyncInv' /\ page'.rev >= page.rev
    <2>1. slipped' = slipped BY <1>4 DEF PushSends
    <2>2. wire'.out = NoOut BY <1>1, <1>4, NothingSaid
    <2>3. /\ push' = NoPush /\ push' \in PushRecord /\ push'.at = "idle"
          /\ page' \in PageRecord
          /\ chain' \in [Epochs -> {"none", "flush", "pushing", "pull", "pulling",
                                   "done"}]
      BY <1>0, <1>4, FinishedDoes
    <2>4. /\ PushKnown' /\ BaseTrue' /\ EditsKept' /\ RepliesTrue'
          /\ page'.rev >= page.rev
      BY <1>2, <1>4, <2>1, <2>2, FinishedSettles
    <2>5. ChannelHeld' BY <1>0, <1>1, <1>4, <2>3 DEF ChannelHeld
    <2> QED BY <1>0, <1>1, <1>2, <1>4, <2>1, <2>3, <2>4, <2>5, PageStepNoted
            DEF TypeOK
  <1>5. CASE page.off
    <2>1. Finished(page) /\ wire' = wire BY <1>5 DEF PushSends
    <2>2. Settled(page, slipped)
      BY <1>0, <1>1, Numbers DEF Settled, RepliesTrue, PushKnown, BaseTrue, EditsKept
    <2> QED BY <1>3, <1>4, <2>1, <2>2
  <1>6. CASE ~page.off /\ page.local = page.base
    <2> DEFINE q == [page EXCEPT !.sentGen = page.editGen]
               p == SettledSent(q, page.editGen)
    <2>1. Finished(p) /\ wire' = wire BY <1>6 DEF PushSends
    <2>2. /\ q \in PageRecord /\ q.editGen = page.editGen
          /\ q.sentGen = page.editGen /\ q.park = page.park
          /\ SameText(q, page) /\ SameSeen(q, page)
      BY <1>3, Numbers DEF PageRecord, SameText, SameSeen
    <2> HIDE DEF q
    <2>3. /\ p \in PageRecord /\ p.local = page.local /\ p.base = page.base
          /\ p.rev = page.rev /\ p.skipped = page.skipped
          /\ p.editGen = page.editGen /\ p.sentGen = page.editGen
          /\ p.park.gen = page.park.gen
      BY <2>2, Numbers, SettledSentDoes DEF SameText, SameSeen, SameMarks
    <2> HIDE DEF p
    <2>4. Settled(p, slipped)
      BY <1>0, <1>6, <2>3, Numbers DEF Settled, RepliesTrue, PushKnown, BaseTrue
    <2> QED BY <1>4, <2>1, <2>3, <2>4
  <1>7. CASE ~page.off /\ page.local # page.base
    <2> DEFINE b == SendBase(page, page.editGen)
    <2>1. /\ push' = [push EXCEPT !.at = "sent", !.gen = page.editGen,
                                  !.val = page.local, !.base = b]
          /\ page' = [page EXCEPT !.sentGen = page.editGen,
                                  !.sends[page.editGen] = page.local]
          /\ wire' = [NoWire EXCEPT !.at = "asked"]
          /\ chain' = chain
      BY <1>7 DEF PushSends
    <2>2. wire' \in WireRecord /\ wire'.at = "asked" /\ wire'.out = NoOut
      BY <2>1, WireBuilt
    <2>3. wire' # wire BY <1>1, <2>2, NothingSaid
    <2>4. slipped' = IF push.epoch # page.epoch THEN page.editGen ELSE slipped
      BY <2>3 DEF PushSends
    <2>5. b \in Nat BY <1>3, SendBaseIsNat
    <2> HIDE DEF b
    <2>6. page.local \in Vals BY <1>3, PageFields
    <2>7. /\ push' \in PushRecord /\ push'.at = "sent" /\ push'.gen = page.editGen
          /\ push'.val = page.local /\ push'.epoch = push.epoch
      BY <1>3, <2>1, <2>5, <2>6, Numbers DEF PushRecord
    <2>8. /\ page' \in PageRecord /\ page'.local = page.local
          /\ page'.base = page.base /\ page'.rev = page.rev
          /\ page'.skipped = page.skipped /\ page'.editGen = page.editGen
          /\ page'.sentGen = page.editGen /\ page'.fail = page.fail
          /\ page'.park = page.park /\ page'.off = page.off
          /\ page'.epoch = page.epoch
      <3> DEFINE s == [page.sends EXCEPT ![page.editGen] = page.local]
      <3>1. s \in [Gens -> Vals \cup {NoVal}] BY <1>3, <2>6, PageFields
      <3>2. page' = [page EXCEPT !.sentGen = page.editGen, !.sends = s] BY <2>1
      <3> HIDE DEF s
      <3> QED BY <1>3, <3>1, <3>2, Numbers DEF PageRecord
    <2>9. page.editGen # 0 BY <1>0, <1>7 DEF EditsKept
    <2>10. ChannelHeld'
      BY <1>0, <1>1, <1>2, <2>2, SmallFields DEF ChannelHeld
    <2>11. RepliesTrue' BY <1>2, <2>2, <2>8, NothingNew
    <2>12. PushKnown'
      BY <1>0, <1>1, <2>6, <2>7, <2>8, <2>9, Numbers DEF PushKnown
    <2>13. BaseTrue' BY <1>0, <1>2, <2>8 DEF BaseTrue
    <2>14. EditsKept' BY <2>4, <2>7, <2>8, <2>9 DEF EditsKept
    <2>15. slipped' \in Gens BY <1>0, <2>4, Numbers DEF TypeOK
    <2>16. page'.rev >= page.rev BY <2>8, Numbers
    <2> QED BY <1>0, <1>1, <1>2, <2>1, <2>2, <2>7, <2>8, <2>10, <2>11, <2>12,
               <2>13, <2>14, <2>15, <2>16, PageStepNoted DEF TypeOK
  <1> QED BY <1>5, <1>6, <1>7

\* A PUT of an earlier view that failed: the edit is owed again, was never
\* parked for good reason or slipped by.
LEMMA OldViewSettles ==
    ASSUME SyncInv, push.at = "sent", push.epoch # page.epoch
    PROVE  LET q == ParkedFailure(page, push.gen) IN
           q \in PageRecord /\ Settled(q, slipped)
  <1>0. /\ TypeOK /\ RepliesTrue /\ PushKnown /\ BaseTrue /\ EditsKept
    BY DEF SyncInv
  <1> DEFINE q == ParkedFailure(page, push.gen)
  <1>1. push.gen \in Gens /\ push.gen # 0 /\ page \in PageRecord
    BY <1>0, SmallFields DEF PushKnown
  <1>2. /\ q \in PageRecord /\ SameText(q, page) /\ SameSeen(q, page)
        /\ q.editGen = page.editGen /\ q.fail = page.fail /\ q.park = page.park
        /\ q.sentGen = IF /\ page.park.on /\ push.gen <= page.park.gen
                          /\ page.sentGen >= push.gen
                         THEN push.gen - 1 ELSE page.sentGen
    BY <1>1, ParkedFailureDoes
  <1> HIDE DEF q
  <1>3. /\ q.local = page.local /\ q.base = page.base /\ q.rev = page.rev
        /\ q.skipped = page.skipped
    BY <1>2 DEF SameText, SameSeen
  <1>4. page.sentGen = push.gen /\ push.gen <= page.editGen
    BY <1>0, <1>1 DEF PushKnown
  <1>5. q.sentGen <= q.editGen BY <1>1, <1>2, <1>4, Numbers
  <1>6. ASSUME page.park.on /\ push.gen <= page.park.gen PROVE Owed(q)
    <2>1. q.sentGen = push.gen - 1 BY <1>2, <1>4, <1>6, Numbers
    <2>2. q.editGen > q.sentGen BY <1>2, <1>4, <2>1, Numbers
    <2> QED BY <2>2 DEF Owed
  <1>7. ASSUME page.editGen > push.gen PROVE Owed(q)
    <2>1. q.sentGen <= push.gen BY <1>2, <1>4, Numbers
    <2>2. q.sentGen \in Nat BY <1>1, <1>2, <1>4, Numbers
    <2>3. q.editGen > q.sentGen BY <1>2, <1>7, <2>1, <2>2, Numbers
    <2> QED BY <2>3 DEF Owed
  <1>8. q.local # q.base => Owed(q) \/ slipped = q.editGen
    BY <1>0, <1>2, <1>3, <1>6, <1>7 DEF EditsKept
  <1>9. Settled(q, slipped)
    BY <1>0, <1>2, <1>3, <1>5, <1>8, Numbers
       DEF Settled, RepliesTrue, PushKnown, BaseTrue, EditsKept
  <1> QED BY <1>2, <1>9 DEF q

\* The write is acknowledged.
LEMMA SavedSettles ==
    ASSUME SyncInv, push.at = "sent", wire.out.kind = "saved"
    PROVE  LET q == AfterSaved(page, wire.out) IN
           q \in PageRecord /\ Settled(q, slipped)
  <1>0. /\ TypeOK /\ RepliesTrue /\ PushKnown BY DEF SyncInv
  <1> DEFINE out == wire.out
             b == IF /\ page.park.on /\ push.gen < page.park.gen
                     /\ page.park.base < out.rev
                    THEN out.rev ELSE page.park.base
             k == [page.park EXCEPT !.base = b]
             r == [page EXCEPT !.rev = out.rev, !.base = push.val,
                               !.skipped = FALSE, !.park = k]
             q == SettledSent(r, push.gen)
  <1>1. /\ page \in PageRecord /\ push.val \in Vals /\ push.gen \in Gens
        /\ push.gen # 0 /\ out.rev \in Nat
    BY <1>0, SmallFields DEF PushKnown
  <1>2. k \in ParkRecord /\ k.gen = page.park.gen
    <2>1. page.park.base \in Nat BY <1>1, PageFields, ParkFields
    <2>2. b \in Nat BY <1>1, <2>1
    <2> HIDE DEF b
    <2> QED BY <2>2, Numbers, ParkFields
  <1>3. AfterSaved(page, out) = q
    <2> DEFINE r1 == [page EXCEPT !.rev = out.rev, !.base = push.val,
                                  !.skipped = FALSE,
                        !.park.base = IF page.park.on /\ push.gen < page.park.gen
                                        /\ @ < out.rev THEN out.rev ELSE @]
    <2>1. AfterSaved(page, out) = SettledSent(r1, push.gen) BY DEF AfterSaved
    <2>2. r1 = r OBVIOUS
    <2> HIDE DEF r1, r
    <2> QED BY <2>1, <2>2
  <1> HIDE DEF k
  <1>4. /\ r \in PageRecord /\ r.local = page.local /\ r.base = push.val
        /\ r.rev = out.rev /\ ~r.skipped /\ r.editGen = page.editGen
        /\ r.sentGen = page.sentGen /\ r.park = k
    BY <1>1, <1>2 DEF PageRecord
  <1> HIDE DEF r
  <1>5. /\ q \in PageRecord /\ q.local = page.local /\ q.base = push.val
        /\ q.rev = out.rev /\ ~q.skipped /\ q.editGen = page.editGen
        /\ q.sentGen = page.sentGen /\ q.park.gen = page.park.gen
    <2>1. /\ q \in PageRecord /\ SameText(q, r) /\ SameSeen(q, r)
          /\ SameMarks(q, r) /\ q.park.gen = r.park.gen
      BY <1>1, <1>4, SettledSentDoes
    <2> HIDE DEF q
    <2> QED BY <1>2, <1>4, <2>1 DEF SameText, SameSeen, SameMarks
  <1> HIDE DEF q
  <1>6. q.local # q.base => Owed(q)
    <2>1. q.local # q.base => q.editGen > q.sentGen
      BY <1>0, <1>5 DEF PushKnown
    <2> QED BY <2>1 DEF Owed
  <1>7. q.base # NoVal /\ q.editGen # 0
    <2>1. push.gen <= page.editGen BY <1>0 DEF PushKnown
    <2>2. page.editGen # 0 BY <1>1, <2>1, Numbers
    <2> QED BY <1>1, <1>5, <2>2, NothingSaid
  <1>8. Settled(q, slipped)
    BY <1>0, <1>5, <1>6, <1>7, Numbers DEF Settled, RepliesTrue, PushKnown
  <1> QED BY <1>3, <1>5, <1>8

\* The broker's state won.
LEMMA ConflictSettles ==
    ASSUME SyncInv, push.at = "sent", wire.out.kind = "conflict"
    PROVE  LET q == AfterConflict(page, wire.out)
               s == IF FromParent(page, push.gen, wire.out.val) THEN push.gen
                                                                ELSE slipped
           IN q \in PageRecord /\ Settled(q, s)
  <1>0. /\ TypeOK /\ RepliesTrue /\ PushKnown BY DEF SyncInv
  <1> DEFINE out == wire.out
             u == SawOwnWrite(page, out.val, out.rev)
             r == [u EXCEPT !.rev = out.rev]
             q == AfterConflict(page, out)
             s == IF FromParent(page, push.gen, out.val) THEN push.gen ELSE slipped
  <1>1. /\ page \in PageRecord /\ push.gen \in Gens /\ push.gen # 0
        /\ out.rev \in Nat /\ out.val \in Vals /\ out.val # NoVal
        /\ page.rev <= out.rev /\ out.rev <= srv.rev
        /\ out.rev = srv.rev => out.val = srv.val
    BY <1>0, SmallFields, NothingSaid DEF PushKnown, RepliesTrue
  <1>2. /\ u \in PageRecord /\ SameText(u, page) /\ SameMarks(u, page)
        /\ u.park.gen = page.park.gen
    BY <1>1, SawOwnWriteDoes
  <1>3. /\ r \in PageRecord /\ r.local = page.local /\ r.rev = out.rev
        /\ r.editGen = page.editGen /\ r.sentGen = page.sentGen
        /\ r.park.gen = page.park.gen
    <2> HIDE DEF u
    <2> QED BY <1>1, <1>2 DEF PageRecord, SameText, SameMarks
  <1>4. push.gen <= page.editGen /\ page.sentGen = push.gen /\ page.editGen # 0
    BY <1>0, <1>1, Numbers DEF PushKnown
  <1>5. q = IF FromParent(page, push.gen, out.val)
              THEN [r EXCEPT !.base = out.val, !.skipped = FALSE, !.again = TRUE]
            ELSE IF page.editGen = push.gen THEN Adopted(r, out.val)
            ELSE [r EXCEPT !.base = NoVal, !.skipped = TRUE]
    BY DEF AfterConflict
  <1>6. ASSUME page.editGen # push.gen, NEW x, x.editGen = page.editGen,
               x.sentGen = page.sentGen
        PROVE  Owed(x)
    BY <1>4, <1>6, Numbers DEF Owed
  <1> HIDE DEF u, r, q
  <1>7. CASE FromParent(page, push.gen, out.val)
    <2>1. q = [r EXCEPT !.base = out.val, !.skipped = FALSE, !.again = TRUE]
      BY <1>5, <1>7
    <2>2. /\ q \in PageRecord /\ q.rev = out.rev /\ q.base = out.val /\ ~q.skipped
          /\ q.editGen = page.editGen /\ q.sentGen = page.sentGen
          /\ q.park.gen = page.park.gen
      BY <1>1, <1>3, <2>1 DEF PageRecord
    <2>3. Owed(q) \/ push.gen = q.editGen
      BY <1>6, <2>2
    <2>4. s = push.gen BY <1>7
    <2> HIDE DEF s
    <2>5. Settled(q, s)
      BY <1>0, <1>1, <1>4, <2>2, <2>3, <2>4, Numbers DEF Settled, PushKnown
    <2> QED BY <2>2, <2>5 DEF q, s
  <1>8. CASE ~FromParent(page, push.gen, out.val) /\ page.editGen = push.gen
    <2>1. q = Adopted(r, out.val) BY <1>5, <1>8
    <2>2. /\ q \in PageRecord /\ q.local = out.val /\ q.base = out.val
          /\ q.rev = out.rev /\ q.editGen = page.editGen
          /\ q.sentGen = page.editGen /\ q.park.gen = page.park.gen
      BY <1>1, <1>3, <2>1, AdoptedDoes
    <2> HIDE DEF s
    <2>3. Settled(q, s)
      BY <1>0, <1>1, <2>2, Numbers DEF Settled, PushKnown
    <2> QED BY <2>2, <2>3 DEF q, s
  <1>9. CASE ~FromParent(page, push.gen, out.val) /\ page.editGen # push.gen
    <2>1. q = [r EXCEPT !.base = NoVal, !.skipped = TRUE] BY <1>5, <1>9
    <2>2. /\ q \in PageRecord /\ q.rev = out.rev /\ q.base = NoVal /\ q.skipped
          /\ q.editGen = page.editGen /\ q.sentGen = page.sentGen
          /\ q.park.gen = page.park.gen
      BY <1>1, <1>3, <2>1 DEF PageRecord
    <2> HIDE DEF s
    <2>3. Settled(q, s)
      BY <1>0, <1>1, <1>4, <2>2, Numbers DEF Settled, PushKnown
    <2> QED BY <2>2, <2>3 DEF q, s
  <1> QED BY <1>7, <1>8, <1>9

\* The page's own failure to have an answer.
LEMMA FailedSettles ==
    ASSUME SyncInv, push.at = "sent", NEW thrown \in BOOLEAN
    PROVE  LET q == Failed(page, push.gen, push.base, thrown) IN
           q \in PageRecord /\ Settled(q, slipped)
  <1>0. /\ TypeOK /\ RepliesTrue /\ PushKnown /\ BaseTrue /\ EditsKept
    BY DEF SyncInv
  <1> DEFINE q == Failed(page, push.gen, push.base, thrown)
  <1>1. page \in PageRecord /\ push.gen \in Gens /\ push.base \in Nat
    BY <1>0, SmallFields
  <1>2. /\ q \in PageRecord /\ SameText(q, page) /\ SameSeen(q, page)
        /\ SameMarks(q, page) /\ q.park = page.park /\ q.fail # NoFail
    BY <1>1, FailedDoes
  <1> HIDE DEF q
  <1>3. /\ q.local = page.local /\ q.base = page.base /\ q.rev = page.rev
        /\ q.skipped = page.skipped /\ q.editGen = page.editGen
        /\ q.sentGen = page.sentGen
    BY <1>2 DEF SameText, SameSeen, SameMarks
  <1>4. Owed(q) BY <1>2 DEF Owed
  <1>5. Settled(q, slipped)
    BY <1>0, <1>2, <1>3, <1>4, Numbers
       DEF Settled, RepliesTrue, PushKnown, BaseTrue, EditsKept
  <1> QED BY <1>2, <1>5 DEF q

\* The broker will never take this payload.
LEMMA RejectedSettles ==
    ASSUME SyncInv, push.at = "sent"
    PROVE  LET q == AfterRejected(page) IN q \in PageRecord /\ Settled(q, slipped)
  <1>0. /\ TypeOK /\ RepliesTrue /\ PushKnown /\ BaseTrue /\ EditsKept
    BY DEF SyncInv
  <1> DEFINE r == SettledSent(page, push.gen)
             q == AfterRejected(page)
  <1>1. page \in PageRecord /\ push.gen \in Gens /\ push.gen # 0
    BY <1>0, SmallFields DEF PushKnown
  <1>2. /\ r \in PageRecord /\ SameText(r, page) /\ SameSeen(r, page)
        /\ SameMarks(r, page) /\ r.park.gen = page.park.gen
    BY <1>1, SettledSentDoes
  <1> HIDE DEF r
  <1>3. /\ r.local = page.local /\ r.base = page.base /\ r.rev = page.rev
        /\ r.skipped = page.skipped /\ r.editGen = page.editGen
        /\ r.sentGen = page.sentGen
    BY <1>2 DEF SameText, SameSeen, SameMarks
  <1>4. push.gen <= page.editGen /\ page.sentGen = push.gen /\ page.editGen # 0
    BY <1>0, <1>1, Numbers DEF PushKnown
  <1>5. CASE page.epoch # push.epoch /\ page.park.on /\ push.gen = page.park.gen
    <2>1. q = ParkedFailure(page, push.gen) BY <1>5 DEF AfterRejected
    <2> HIDE DEF q
    <2>2. q \in PageRecord /\ Settled(q, slipped)
      BY <1>5, <2>1, OldViewSettles
    <2> QED BY <2>2 DEF q
  <1>6. CASE /\ ~(page.epoch # push.epoch /\ page.park.on
                  /\ push.gen = page.park.gen)
             /\ Converges
    <2>1. q = [r EXCEPT !.skipped = TRUE, !.base = NoVal]
      BY <1>6 DEF AfterRejected, r
    <2> HIDE DEF q
    <2>2. /\ q \in PageRecord /\ q.rev = page.rev /\ q.base = NoVal /\ q.skipped
          /\ q.editGen = page.editGen /\ q.sentGen = page.sentGen
          /\ q.park.gen = page.park.gen
      BY <1>2, <1>3, <2>1 DEF PageRecord
    <2>3. Settled(q, slipped)
      BY <1>0, <1>4, <2>2, Numbers DEF Settled, RepliesTrue, PushKnown
    <2> QED BY <2>2, <2>3 DEF q
  <1>7. CASE /\ ~(page.epoch # push.epoch /\ page.park.on
                  /\ push.gen = page.park.gen)
             /\ ~Converges
    <2>1. q = r BY <1>7 DEF AfterRejected, r
    <2>2. page.editGen # push.gen => Owed(r)
      BY <1>3, <1>4, Numbers DEF Owed
    <2>3. page.editGen = push.gen => page.epoch # push.epoch
      BY <1>0, <1>7 DEF Converges, PushKnown
    <2>4. r.local # r.base => Owed(r) \/ slipped = r.editGen
      <3>1. SUFFICES ASSUME page.local # page.base, page.editGen = push.gen
                     PROVE  slipped = page.editGen
        BY <1>3, <2>2
      <3>2. page.epoch # push.epoch BY <2>3, <3>1
      <3>3. \/ page.park.on /\ push.gen <= page.park.gen
            \/ slipped = page.editGen \/ page.editGen > push.gen
        BY <1>0, <3>1, <3>2 DEF EditsKept
      <3>4. page.park.gen <= page.editGen BY <1>0 DEF PushKnown
      <3> QED BY <1>7, <3>1, <3>2, <3>3, <3>4, Numbers
    <2>5. Settled(r, slipped)
      BY <1>0, <1>2, <1>3, <1>4, <2>4, Numbers
         DEF Settled, RepliesTrue, PushKnown, BaseTrue, EditsKept
    <2> HIDE DEF q
    <2> QED BY <1>2, <2>1, <2>5 DEF q
  <1> QED BY <1>5, <1>6, <1>7

LEMMA PushReplyKeeps ==
    ASSUME SyncInv, PushReply PROVE SyncInv' /\ page'.rev >= page.rev
  <1>0. /\ TypeOK /\ DiskFollows /\ ChannelHeld /\ RepliesTrue /\ PushKnown
    BY DEF SyncInv
  <1> DEFINE out == wire.out
             p == CASE out.kind = "saved" -> AfterSaved(page, out)
                    [] out.kind = "conflict" ->
                        IF page.off \/ page.epoch # push.epoch
                          THEN ParkedFailure(page, push.gen)
                          ELSE AfterConflict(page, out)
                    [] out.kind = "rejected" -> AfterRejected(page)
                    [] OTHER -> AfterFailure(page, out.kind = "lost")
  <1>1. /\ UNCHANGED brokerVars /\ strays' = strays
        /\ push.at = "sent" /\ wire.at = "answered"
        /\ Finished(p)
        /\ origin' = IF out.kind = "lost" /\ page.epoch = push.epoch
                       THEN NotedOrigin(page, push.gen, push.base) ELSE origin
        /\ slipped' = IF /\ out.kind = "conflict"
                         /\ FromParent(page, push.gen, out.val)
                         /\ ~page.off /\ page.epoch = push.epoch
                        THEN push.gen ELSE slipped
        /\ \/ /\ wire' = [NoWire EXCEPT !.at = "asked"]
              /\ pull' = [NoPull EXCEPT !.at = "sent", !.epoch = page.epoch]
           \/ wire' = NoWire /\ pull' = pull
    BY DEF PushReply
  <1>2. srv' = srv /\ section.who # "page"
    BY <1>1, NoPagesSection DEF brokerVars
  <1>3. page.off => page.epoch # push.epoch BY <1>0, <1>1 DEF PushKnown
  <1>4. p \in PageRecord /\ Settled(p, slipped')
    <2>1. CASE out.kind = "saved"
      <3>1. p = AfterSaved(page, out) /\ slipped' = slipped BY <1>1, <2>1
      <3> HIDE DEF p
      <3> QED BY <1>1, <2>1, <3>1, SavedSettles
    <2>2. CASE out.kind = "conflict" /\ page.epoch # push.epoch
      <3>1. p = ParkedFailure(page, push.gen) /\ slipped' = slipped BY <1>1, <2>2
      <3> HIDE DEF p
      <3> QED BY <1>1, <2>2, <3>1, OldViewSettles
    <2>3. CASE out.kind = "conflict" /\ page.epoch = push.epoch
      <3>1. ~page.off BY <1>3, <2>3
      <3>2. p = AfterConflict(page, out) BY <2>3, <3>1
      <3>3. slipped' = IF FromParent(page, push.gen, out.val) THEN push.gen
                                                              ELSE slipped
        BY <1>1, <2>3, <3>1
      <3> HIDE DEF p
      <3> QED BY <1>1, <2>3, <3>2, <3>3, ConflictSettles
    <2>4. CASE out.kind = "rejected"
      <3>1. p = AfterRejected(page) /\ slipped' = slipped BY <1>1, <2>4
      <3> HIDE DEF p
      <3> QED BY <1>1, <3>1, RejectedSettles
    <2>5. CASE out.kind \notin {"saved", "conflict", "rejected"}
      <3> DEFINE thrown == out.kind = "lost"
      <3>1. p = AfterFailure(page, thrown) /\ slipped' = slipped BY <1>1, <2>5
      <3>2. thrown \in BOOLEAN OBVIOUS
      <3> HIDE DEF p, thrown
      <3>3. CASE page.epoch = push.epoch
        <4>1. p = Failed(page, push.gen, push.base, thrown)
          BY <3>1, <3>3 DEF AfterFailure
        <4> QED BY <1>1, <3>1, <3>2, <4>1, FailedSettles
      <3>4. CASE page.epoch # push.epoch
        <4>1. p = ParkedFailure(page, push.gen) BY <3>1, <3>4 DEF AfterFailure
        <4> QED BY <1>1, <3>1, <3>4, <4>1, OldViewSettles
      <3> QED BY <3>3, <3>4
    <2> QED BY <2>1, <2>2, <2>3, <2>4, <2>5
  <1> HIDE DEF p
  <1>5. /\ push' \in PushRecord /\ push'.at = "idle" /\ page' \in PageRecord
        /\ chain' \in [Epochs -> {"none", "flush", "pushing", "pull", "pulling",
                                 "done"}]
    BY <1>0, <1>1, <1>4, FinishedDoes
  <1>6. wire' \in WireRecord /\ wire'.out = NoOut
    BY <1>1, WireBuilt, RecordsBuilt, NothingSaid
  <1>7. PushKnown' /\ BaseTrue' /\ EditsKept' /\ RepliesTrue' /\ page'.rev >= page.rev
    BY <1>1, <1>2, <1>4, <1>6, FinishedSettles
  <1>8. pull' \in PullRecord /\ ChannelHeld'
    <2>1. CASE /\ wire' = [NoWire EXCEPT !.at = "asked"]
               /\ pull' = [NoPull EXCEPT !.at = "sent", !.epoch = page.epoch]
      <3>1. wire'.at = "asked" BY <2>1, WireBuilt
      <3>2. pull' \in PullRecord
        BY <1>0, <2>1, RecordsBuilt, SmallFields, PageFields DEF PullRecord
      <3> QED BY <1>5, <3>1, <3>2 DEF ChannelHeld
    <2>2. CASE wire' = NoWire /\ pull' = pull
      BY <1>0, <1>1, <1>5, <2>2, SmallFields DEF ChannelHeld
    <2> QED BY <1>1, <2>1, <2>2
  <1>9. slipped' \in Gens /\ origin' \in [gen : Gens, base : Nat]
    BY <1>0, <1>1, SmallFields DEF TypeOK, NotedOrigin
  <1> QED BY <1>1, <1>2, <1>5, <1>6, <1>7, <1>8, <1>9, PageStep

\* What a pull makes of the page.
LEMMA PullSettles ==
    ASSUME SyncInv, pull.at = "sent", wire.out.kind = "state",
           NEW q \in AfterPull(page, wire.out)
    PROVE  q \in PageRecord /\ Settled(q, slipped) /\ SameView(q, page)
  <1>0. /\ TypeOK /\ ChannelHeld /\ RepliesTrue /\ PushKnown /\ BaseTrue /\ EditsKept
    BY DEF SyncInv
  <1> DEFINE out == wire.out
             p == IF Owed(page) /\ page.local = page.base THEN SettledAll(page)
                                                          ELSE page
             u == SawOwnWrite(p, out.val, out.rev)
             r == [u EXCEPT !.rev = out.rev]
  <1>1. /\ page \in PageRecord /\ out.rev \in Nat /\ out.val \in Vals
        /\ out.val # NoVal /\ page.rev <= out.rev /\ out.rev <= srv.rev
        /\ out.rev = srv.rev => out.val = srv.val
        /\ push.at # "sent"
    BY <1>0, SmallFields, NothingSaid DEF RepliesTrue, ChannelHeld
  <1>2. /\ p \in PageRecord /\ p.local = page.local /\ p.base = page.base
        /\ p.rev = page.rev /\ p.skipped = page.skipped
        /\ p.editGen = page.editGen /\ SameView(p, page)
        /\ p.park.gen = page.park.gen /\ p.sentGen <= p.editGen
        /\ p.local # p.base => p = page
    <2>1. CASE Owed(page) /\ page.local = page.base
      <3>1. p = SettledAll(page) BY <2>1
      <3> HIDE DEF p
      <3>2. /\ p \in PageRecord /\ SameText(p, page) /\ SameSeen(p, page)
            /\ SameView(p, page) /\ p.editGen = page.editGen
            /\ p.sentGen = page.editGen /\ p.park.gen = page.park.gen
        BY <1>1, <3>1, SettledAllDoes
      <3> QED BY <2>1, <3>2, Numbers DEF SameText, SameSeen
    <2>2. CASE ~(Owed(page) /\ page.local = page.base)
      <3>1. p = page BY <2>2
      <3> HIDE DEF p
      <3> QED BY <1>0, <1>1, <3>1 DEF SameView, PushKnown
    <2> QED BY <2>1, <2>2
  <1>3. /\ u \in PageRecord /\ SameText(u, p) /\ SameMarks(u, p) /\ SameView(u, p)
        /\ u.park.gen = p.park.gen /\ (u.fail = NoFail <=> p.fail = NoFail)
    <2> HIDE DEF p
    <2> QED BY <1>1, <1>2, SawOwnWriteDoes
  <1>4. /\ r \in PageRecord /\ r.local = page.local /\ r.base = page.base
        /\ r.rev = out.rev /\ r.editGen = page.editGen
        /\ r.sentGen = p.sentGen /\ r.park.gen = page.park.gen
        /\ r.off = page.off /\ r.epoch = page.epoch
        /\ (r.fail = NoFail <=> p.fail = NoFail)
    <2> HIDE DEF u, p
    <2> QED BY <1>1, <1>2, <1>3 DEF PageRecord, SameText, SameMarks, SameView
  <1> HIDE DEF p, u, r
  \* A page that differs from its base is settled if the base says where it is.
  <1>5. ASSUME NEW x, x.local = page.local, x.base = page.base,
               x.editGen = page.editGen, x.sentGen = p.sentGen,
               x.fail = NoFail <=> p.fail = NoFail
        PROVE  /\ x.editGen = 0 => x.local = x.base
               /\ x.local # x.base =>
                        Owed(x) \/ x.base = NoVal \/ slipped = x.editGen
    <2>1. x.editGen = 0 => x.local = x.base BY <1>0, <1>5 DEF EditsKept
    <2>2. ASSUME x.local # x.base
          PROVE  Owed(x) \/ x.base = NoVal \/ slipped = x.editGen
      <3>1. p = page BY <1>2, <1>5, <2>2
      <3>2. Owed(page) => Owed(x) BY <1>5, <3>1 DEF Owed
      <3> QED BY <1>0, <1>1, <1>5, <2>2, <3>2 DEF EditsKept
    <2> QED BY <2>1, <2>2
  <1>6. ASSUME NEW x \in PageRecord, q \in RetryOwed(x),
               x.local = page.local, x.base = page.base,
               x.editGen = page.editGen, x.sentGen = p.sentGen,
               x.fail = NoFail <=> p.fail = NoFail,
               x.park.gen = page.park.gen, x.off = page.off, x.epoch = page.epoch,
               page.rev <= x.rev, x.rev <= srv.rev,
               x.base = NoVal => x.skipped,
               ~x.skipped /\ x.rev = srv.rev => x.base = srv.val
        PROVE  q \in PageRecord /\ Settled(q, slipped) /\ SameView(q, page)
    <2>1. q \in PageRecord /\ SameButTimers(q, x) BY <1>6, RetryOwedDoes
    <2>2. /\ q.local = x.local /\ q.base = x.base /\ q.rev = x.rev
          /\ q.skipped = x.skipped /\ q.editGen = x.editGen
          /\ q.sentGen = x.sentGen /\ q.fail = x.fail /\ q.park = x.park
          /\ q.off = x.off /\ q.epoch = x.epoch
      BY <2>1 DEF SameButTimers, SameText, SameSeen, SameMarks, SameView
    <2>3. /\ q.editGen = 0 => q.local = q.base
          /\ q.local # q.base => Owed(q) \/ q.base = NoVal \/ slipped = q.editGen
      <3> HIDE DEF out
      <3> QED BY <1>5, <1>6, <2>2
    <2>4. q.park.gen <= q.editGen /\ q.sentGen <= q.editGen
      BY <1>0, <1>2, <1>6, <2>2 DEF PushKnown
    <2>5. Settled(q, slipped) BY <1>6, <2>2, <2>3, <2>4 DEF Settled
    <2> QED BY <1>6, <2>1, <2>2, <2>5 DEF SameView
  <1>7. CASE ~pull.initial /\ out.rev = p.rev /\ ~p.skipped
    <2>1. q \in RetryOwed(p) BY <1>7 DEF AfterPull, p
    <2>2. p.base = NoVal => p.skipped BY <1>0, <1>2 DEF BaseTrue
    <2>3. ~p.skipped /\ p.rev = srv.rev => p.base = srv.val
      BY <1>0, <1>2 DEF BaseTrue
    <2>4. page.rev <= p.rev /\ p.rev <= srv.rev
      BY <1>0, <1>2, Numbers DEF RepliesTrue
    <2>5. p.off = page.off /\ p.epoch = page.epoch BY <1>2 DEF SameView
    <2> QED BY <1>2, <1>6, <2>1, <2>2, <2>3, <2>4, <2>5
  <1>8. CASE ~pull.initial /\ out.val = p.base /\ ~(out.rev = p.rev /\ ~p.skipped)
    <2> DEFINE x == [r EXCEPT !.skipped = FALSE]
    <2>1. q \in RetryOwed(x) BY <1>8 DEF AfterPull, p, u, r
    <2>2. /\ x \in PageRecord /\ x.local = r.local /\ x.base = r.base
          /\ x.rev = r.rev /\ ~x.skipped /\ x.editGen = r.editGen
          /\ x.sentGen = r.sentGen /\ x.fail = r.fail /\ x.park = r.park
          /\ x.off = r.off /\ x.epoch = r.epoch
      BY <1>4 DEF PageRecord
    <2> HIDE DEF x
    <2>3. x.base = out.val BY <1>2, <1>4, <1>8, <2>2
    <2> QED BY <1>1, <1>4, <1>6, <2>1, <2>2, <2>3
  <1>9. CASE /\ ~pull.initial /\ out.val = p.local /\ out.val # p.base
             /\ ~(out.rev = p.rev /\ ~p.skipped)
    <2> DEFINE y == SettledAll(r)
               x == [y EXCEPT !.base = out.val, !.skipped = FALSE]
    <2>1. q = x BY <1>9 DEF AfterPull, p, u, r
    <2>2. /\ y \in PageRecord /\ SameText(y, r) /\ SameSeen(y, r) /\ SameView(y, r)
          /\ y.editGen = r.editGen /\ y.sentGen = r.editGen
          /\ y.park.gen = r.park.gen
      BY <1>4, SettledAllDoes
    <2> HIDE DEF y
    <2>3. /\ x \in PageRecord /\ x.local = out.val /\ x.base = out.val
          /\ x.rev = out.rev /\ ~x.skipped /\ x.editGen = page.editGen
          /\ x.sentGen = page.editGen /\ x.park.gen = page.park.gen
          /\ x.off = page.off /\ x.epoch = page.epoch
      <3>1. out.val \in Vals \cup {NoVal} /\ out.val = page.local BY <1>1, <1>2, <1>9 DEF SameText
      <3>2. /\ x \in PageRecord /\ x.base = out.val /\ ~x.skipped
            /\ x.local = y.local /\ x.rev = y.rev /\ x.editGen = y.editGen
            /\ x.sentGen = y.sentGen /\ x.park = y.park
            /\ x.off = y.off /\ x.epoch = y.epoch
        BY <2>2, <3>1 DEF PageRecord
      <3> HIDE DEF x
      <3> QED BY <1>4, <2>2, <3>1, <3>2 DEF SameText, SameSeen, SameView
    <2> HIDE DEF x
    <2>4. Settled(q, slipped)
      BY <1>0, <1>1, <2>1, <2>3, Numbers DEF Settled, PushKnown
    <2> QED BY <2>1, <2>3, <2>4 DEF SameView
  <1>10. CASE /\ ~(~pull.initial /\ out.rev = p.rev /\ ~p.skipped)
              /\ ~(/\ ~pull.initial /\ out.val = p.base
                   /\ ~(out.rev = p.rev /\ ~p.skipped))
              /\ ~(/\ ~pull.initial /\ out.val = p.local /\ out.val # p.base
                   /\ ~(out.rev = p.rev /\ ~p.skipped))
    <2>1. q \in IF KeepsLocal(r, pull.initial)
                  THEN RetryOwed([r EXCEPT !.skipped = TRUE])
                  ELSE {Adopted(r, out.val)}
      BY <1>10 DEF AfterPull, p, u, r
    <2>2. CASE KeepsLocal(r, pull.initial)
      <3> DEFINE x == [r EXCEPT !.skipped = TRUE]
      <3>1. q \in RetryOwed(x) BY <2>1, <2>2
      <3>2. /\ x \in PageRecord /\ x.local = r.local /\ x.base = r.base
            /\ x.rev = r.rev /\ x.skipped /\ x.editGen = r.editGen
            /\ x.sentGen = r.sentGen /\ x.fail = r.fail /\ x.park = r.park
            /\ x.off = r.off /\ x.epoch = r.epoch
        BY <1>4 DEF PageRecord
      <3> HIDE DEF x
      <3> QED BY <1>1, <1>4, <1>6, <3>1, <3>2
    <2>3. CASE ~KeepsLocal(r, pull.initial)
      <3>1. q = Adopted(r, out.val) BY <2>1, <2>3
      <3>2. /\ q \in PageRecord /\ q.local = out.val /\ q.base = out.val
            /\ ~q.skipped /\ q.rev = out.rev /\ q.editGen = page.editGen
            /\ q.sentGen = page.editGen /\ q.park.gen = page.park.gen
            /\ SameView(q, r)
        BY <1>1, <1>4, <3>1, AdoptedDoes
      <3>3. Settled(q, slipped)
        BY <1>0, <1>1, <3>2, Numbers DEF Settled, PushKnown
      <3> QED BY <1>4, <3>2, <3>3 DEF SameView
    <2> QED BY <2>2, <2>3
  <1> QED BY <1>7, <1>8, <1>9, <1>10

LEMMA PullReplyKeeps ==
    ASSUME SyncInv, PullReply PROVE SyncInv' /\ page'.rev >= page.rev
  <1>0. /\ TypeOK /\ DiskFollows /\ ChannelHeld /\ RepliesTrue /\ PushKnown
        /\ BaseTrue /\ EditsKept
    BY DEF SyncInv
  <1>1. /\ UNCHANGED brokerVars /\ strays' = strays /\ push' = push
        /\ origin' = origin /\ slipped' = slipped
        /\ pull.at = "sent" /\ wire.at = "answered"
        /\ pull' = NoPull /\ wire' = NoWire
        /\ page' \in IF wire.out.kind = "state" /\ pull.epoch = page.epoch
                       THEN AfterPull(page, wire.out) ELSE {page}
        /\ chain' = IF pull.initial THEN [chain EXCEPT ![pull.epoch] = "done"]
                                    ELSE chain
    BY DEF PullReply
  <1>2. srv' = srv /\ section.who # "page" /\ push.at # "sent"
    BY <1>0, <1>1, NoPagesSection DEF brokerVars, ChannelHeld
  <1>3. page' \in PageRecord /\ Settled(page', slipped) /\ SameView(page', page)
    <2>1. CASE wire.out.kind = "state" /\ pull.epoch = page.epoch
      <3>1. page' \in AfterPull(page, wire.out) BY <1>1, <2>1
      <3> QED BY <1>1, <2>1, <3>1, PullSettles
    <2>2. CASE ~(wire.out.kind = "state" /\ pull.epoch = page.epoch)
      <3>1. page' = page BY <1>1, <2>2
      <3>2. Settled(page, slipped)
        BY <1>0, <1>2, Numbers
           DEF Settled, RepliesTrue, PushKnown, BaseTrue, EditsKept
      <3>3. page \in PageRecord BY <1>0, SmallFields
      <3> QED BY <3>1, <3>2, <3>3 DEF SameView
    <2> QED BY <2>1, <2>2
  <1>4. /\ page'.off = page.off /\ page'.epoch = page.epoch
        /\ page'.rev \in Nat
    BY <1>3, PageFields DEF SameView
  <1>5. wire' \in WireRecord /\ wire'.out = NoOut /\ wire'.at = "none"
        /\ pull' \in PullRecord /\ pull'.at = "idle"
    BY <1>1, RecordsBuilt, NothingSaid
  <1>6. PushKnown' BY <1>0, <1>1, <1>2, <1>3, <1>4 DEF PushKnown, Settled
  <1>7. BaseTrue' BY <1>2, <1>3 DEF BaseTrue, Settled
  <1>8. EditsKept' BY <1>1, <1>2, <1>3 DEF EditsKept, Settled
  <1>9. RepliesTrue'
    <2>1. page'.rev <= srv'.rev BY <1>2, <1>3 DEF Settled
    <2> QED BY <1>5, <2>1, NothingSaid DEF RepliesTrue
  <1>10. ChannelHeld' BY <1>1, <1>2, <1>5 DEF ChannelHeld
  <1>11. chain' \in [Epochs -> {"none", "flush", "pushing", "pull", "pulling",
                               "done"}]
    BY <1>0, <1>1, SmallFields DEF TypeOK
  <1>12. page'.rev >= page.rev BY <1>3, <1>4, Numbers DEF Settled
  <1> QED BY <1>0, <1>1, <1>2, <1>3, <1>5, <1>6, <1>7, <1>8, <1>9, <1>10, <1>11,
             <1>12, PageStep DEF TypeOK

LEMMA TeardownKeeps == ASSUME SyncInv, Teardown PROVE SyncInv'
  <1>0. /\ TypeOK /\ RepliesTrue /\ PushKnown /\ BaseTrue /\ EditsKept
    BY DEF SyncInv
  <1> DEFINE q == Parked(page)
  <1>1. /\ UNCHANGED brokerVars
        /\ strays' = strays /\ wire' = wire /\ push' = push /\ pull' = pull
        /\ chain' = chain /\ slipped' = slipped
        /\ page.epoch < MaxEpoch
        /\ page' = [q EXCEPT !.off = TRUE, !.epoch = @ + 1]
        /\ origin' = IF q.park.on THEN NotedOrigin(page, page.editGen, q.park.base)
                                  ELSE origin
    BY DEF Teardown, netVars
  <1>2. /\ q \in PageRecord /\ SameText(q, page) /\ SameSeen(q, page)
        /\ SameMarks(q, page) /\ SameView(q, page) /\ q.fail = page.fail
        /\ q.park.gen = page.park.gen \/ q.park.gen = page.editGen
        /\ q.park.base \in Nat
        /\ (Owed(page) \/ push.at # "idle") /\ page.local # page.base =>
                q.park.on /\ q.park.gen = page.editGen
    BY <1>0, SmallFields, ParkedDoes
  <1> HIDE DEF q
  <1>3. /\ page' \in PageRecord /\ page'.local = page.local
        /\ page'.base = page.base /\ page'.rev = page.rev
        /\ page'.skipped = page.skipped /\ page'.editGen = page.editGen
        /\ page'.sentGen = page.sentGen /\ page'.fail = page.fail
        /\ page'.park = q.park /\ page'.off /\ page'.epoch = page.epoch + 1
    <2>1. page.epoch + 1 \in Epochs BY <1>1, Numbers, GenBounds
    <2> QED BY <1>1, <1>2, <2>1
            DEF PageRecord, SameText, SameSeen, SameMarks, SameView
  <1>4. srv' = srv BY <1>1 DEF brokerVars
  <1>5. PushKnown'
    <2>1. push.at # "idle" => push.epoch < page'.epoch
      BY <1>0, <1>3, Numbers DEF PushKnown
    <2>2. push.at # "idle" => push.epoch <= page'.epoch /\ push.epoch # page'.epoch
      BY <1>3, <2>1, Numbers
    <2>3. page'.park.gen <= page'.editGen
      BY <1>0, <1>2, <1>3, Numbers DEF PushKnown
    <2> QED BY <1>0, <1>1, <1>3, <2>2, <2>3 DEF PushKnown
  <1>6. BaseTrue' BY <1>0, <1>3, <1>4 DEF BaseTrue
  <1>7. EditsKept'
    <2>1. Owed(page)' <=> Owed(page) BY <1>3 DEF Owed
    <2>2. push.at = "sent" /\ page.local # page.base =>
              page'.park.on /\ push.gen <= page'.park.gen
      BY <1>0, <1>2, <1>3 DEF PushKnown
    <2> QED BY <1>0, <1>1, <1>3, <2>1, <2>2 DEF EditsKept
  <1>8. RepliesTrue' BY <1>1, <1>3, <1>4, NothingNew
  <1>9. ChannelHeld' BY <1>1 DEF SyncInv, ChannelHeld
  <1>10. origin' \in [gen : Gens, base : Nat]
    BY <1>0, <1>1, <1>2, Numbers DEF TypeOK, NotedOrigin
  <1> QED BY <1>0, <1>1, <1>3, <1>5, <1>6, <1>7, <1>8, <1>9, <1>10, PageStep
          DEF TypeOK

LEMMA RebuildKeeps == ASSUME SyncInv, Rebuild PROVE SyncInv'
  <1>0. /\ TypeOK /\ RepliesTrue /\ PushKnown /\ BaseTrue /\ EditsKept
    BY DEF SyncInv
  <1>1. /\ UNCHANGED brokerVars
        /\ strays' = strays /\ wire' = wire /\ push' = push /\ pull' = pull
        /\ origin' = origin /\ slipped' = slipped
        /\ page.off /\ page.epoch < MaxEpoch
        /\ page' = [page EXCEPT !.off = FALSE, !.epoch = @ + 1]
        /\ chain' = [chain EXCEPT ![page'.epoch] = "flush"]
    BY DEF Rebuild, netVars
  <1>3. /\ page' \in PageRecord /\ page'.local = page.local
        /\ page'.base = page.base /\ page'.rev = page.rev
        /\ page'.skipped = page.skipped /\ page'.editGen = page.editGen
        /\ page'.sentGen = page.sentGen /\ page'.fail = page.fail
        /\ page'.park = page.park /\ ~page'.off /\ page'.epoch = page.epoch + 1
    <2>1. page.epoch + 1 \in Epochs BY <1>1, Numbers, GenBounds
    <2>2. page \in PageRecord BY <1>0, SmallFields
    <2> QED BY <1>1, <2>1, <2>2 DEF PageRecord
  <1>4. srv' = srv BY <1>1 DEF brokerVars
  <1>5. PushKnown'
    <2>1. push.at # "idle" => push.epoch <= page'.epoch
      BY <1>0, <1>3, Numbers DEF PushKnown
    <2> QED BY <1>0, <1>1, <1>3, <2>1 DEF PushKnown
  <1>6. BaseTrue' BY <1>0, <1>3, <1>4 DEF BaseTrue
  <1>7. EditsKept'
    <2>1. Owed(page)' <=> Owed(page) BY <1>3 DEF Owed
    <2>2. push.at = "sent" => push.epoch # page.epoch
      BY <1>0, <1>1 DEF PushKnown
    <2> QED BY <1>0, <1>1, <1>3, <2>1, <2>2 DEF EditsKept
  <1>8. RepliesTrue' BY <1>1, <1>3, <1>4, NothingNew
  <1>9. ChannelHeld' BY <1>1 DEF SyncInv, ChannelHeld
  <1>10. chain' \in [Epochs -> {"none", "flush", "pushing", "pull", "pulling",
                               "done"}]
    BY <1>0, <1>1 DEF TypeOK
  <1> QED BY <1>0, <1>1, <1>3, <1>5, <1>6, <1>7, <1>8, <1>9, <1>10, PageStep
          DEF TypeOK

LEMMA FlushKeeps == ASSUME SyncInv, NEW e \in Epochs, Flush(e) PROVE SyncInv'
  <1>0. /\ TypeOK /\ ChannelHeld /\ RepliesTrue /\ PushKnown /\ BaseTrue /\ EditsKept
    BY DEF SyncInv
  <1> DEFINE flushes == page.park.on /\ Owed(page)
  <1>1. /\ UNCHANGED brokerVars
        /\ strays' = strays /\ wire' = wire /\ pull' = pull
        /\ origin' = origin /\ slipped' = slipped /\ wire = NoWire
        /\ page' = IF flushes THEN Called(page) ELSE [page EXCEPT !.park.on = FALSE]
        /\ push' = IF flushes THEN PushAfterCall(page) ELSE push
        /\ chain' = [chain EXCEPT ![e] =
                       IF flushes /\ push'.at # push.at THEN "pushing" ELSE "pull"]
    BY DEF Flush, netVars
  <1>2. srv' = srv /\ push.at # "sent" /\ pull.at # "sent" /\ section.who # "page"
    BY <1>1, NothingSent DEF brokerVars
  <1>3. page \in PageRecord /\ push \in PushRecord BY <1>0, SmallFields
  <1>4. chain' \in [Epochs -> {"none", "flush", "pushing", "pull", "pulling",
                              "done"}]
    BY <1>0, <1>1 DEF TypeOK
  <1> HIDE DEF flushes
  <1>5. wire'.out = NoOut BY <1>1, NothingSaid
  <1>6. CASE flushes
    <2>1. page' \in PageRecord /\ SameButTimers(page', page)
      BY <1>1, <1>3, <1>6, CalledDoes
    <2>2. /\ push' \in PushRecord
          /\ push' = push \/ (/\ push.at = "idle" /\ push'.at = "waiting"
                             /\ ~page.off /\ push'.epoch = page.epoch)
      BY <1>1, <1>3, <1>6, PushAfterCallDoes
    <2>3. BaseTrue' /\ EditsKept' /\ PushKnown'
      BY <1>1, <1>2, <2>1, <2>2, PageTextAlone
    <2>4. page'.rev = page.rev BY <2>1 DEF SameButTimers, SameSeen
    <2>5. RepliesTrue' BY <1>2, <1>5, <2>4, NothingNew
    <2>6. ChannelHeld' BY <1>1, <1>2, <2>2 DEF ChannelHeld
    <2> QED BY <1>0, <1>1, <1>2, <1>4, <2>1, <2>2, <2>3, <2>5, <2>6, PageStep
            DEF TypeOK
  <1>7. CASE ~flushes
    <2> DEFINE k == [page.park EXCEPT !.on = FALSE]
    <2>1. k \in ParkRecord /\ k.gen = page.park.gen BY Numbers, ParkFields
    <2>2. page' = [page EXCEPT !.park = k] /\ push' = push BY <1>1, <1>7
    <2> HIDE DEF k
    <2>3. /\ page' \in PageRecord /\ page'.local = page.local
          /\ page'.base = page.base /\ page'.rev = page.rev
          /\ page'.skipped = page.skipped /\ page'.editGen = page.editGen
          /\ page'.sentGen = page.sentGen /\ page'.fail = page.fail
          /\ page'.park = k /\ page'.off = page.off /\ page'.epoch = page.epoch
      BY <1>3, <2>1, <2>2 DEF PageRecord
    <2>4. PushKnown' BY <1>0, <1>2, <2>1, <2>2, <2>3 DEF PushKnown
    <2>5. BaseTrue' BY <1>0, <1>2, <2>3 DEF BaseTrue
    <2>6. EditsKept'
      <3>1. Owed(page)' <=> Owed(page) BY <2>3 DEF Owed
      <3> QED BY <1>0, <1>1, <1>2, <2>2, <2>3, <3>1 DEF EditsKept
    <2>7. RepliesTrue' BY <1>2, <1>5, <2>3, NothingNew
    <2>8. ChannelHeld' BY <1>0, <1>1, <2>2 DEF ChannelHeld
    <2> QED BY <1>0, <1>1, <1>2, <1>3, <1>4, <2>2, <2>3, <2>4, <2>5, <2>6, <2>7,
               <2>8, PageStep DEF TypeOK
  <1> QED BY <1>6, <1>7

-----------------------------------------------------------------------------
(* Every step, and the theorems.                                           *)

LEMMA StepSync ==
    ASSUME SyncInv, [Next]_vars PROVE SyncInv' /\ page'.rev >= page.rev
  <1>0. TypeOK /\ page.rev \in Nat BY Numbers DEF SyncInv
  <1>1. CASE UNCHANGED vars
    <2>1. SyncInv'
      BY <1>1 DEF vars, brokerVars, netVars, pageVars, SyncInv, TypeOK,
         DiskFollows, ChannelHeld, RepliesTrue, PushKnown, BaseTrue, EditsKept, Owed
    <2>2. page' = page BY <1>1 DEF vars, pageVars
    <2> QED BY <1>0, <2>1, <2>2
  <1>2. ASSUME \/ AnswerGet \/ TakePut \/ TakeStray \/ WriteLands \/ WriteFails
               \/ Commit \/ (\E v \in Vals \ Refused : TakePeer(v))
               \/ Crash \/ GiveUp \/ AnswerBadly
        PROVE  SyncInv' /\ page'.rev >= page.rev
    <2>1. SyncInv'
      BY <1>2, AnswerGetKeeps, TakePutKeeps, TakeStrayKeeps, WriteLandsKeeps,
         WriteFailsKeeps, CommitKeeps, TakePeerKeeps, CrashKeeps, GiveUpKeeps,
         AnswerBadlyKeeps
    <2>2. page' = page
      BY <1>2 DEF AnswerGet, TakePut, TakeStray, WriteLands, WriteFails, Commit,
         TakePeer, Crash, GiveUp, AnswerBadly, pageVars
    <2> QED BY <1>0, <2>1, <2>2
  <1>3. ASSUME NEW v \in Vals, Edit(v) PROVE SyncInv' /\ page'.rev >= page.rev
    <2>1. page'.rev = page.rev
      BY <1>3, <1>0 DEF Edit, Scheduled, TypeOK, PageRecord
    <2> QED BY <1>0, <1>3, <2>1, EditKeeps
  <1>4. ASSUME TimerFires PROVE SyncInv' /\ page'.rev >= page.rev
    <2>1. page'.rev = page.rev
      BY <1>4, <1>0 DEF TimerFires, Called, TypeOK, PageRecord
    <2> QED BY <1>0, <1>4, <2>1, TimerFiresKeeps
  <1>5. ASSUME PullPolls PROVE SyncInv' /\ page'.rev >= page.rev
    <2>1. page' = page BY <1>5 DEF PullPolls
    <2> QED BY <1>0, <1>5, <2>1, PullPollsKeeps
  <1>6. ASSUME Teardown PROVE SyncInv' /\ page'.rev >= page.rev
    <2>1. Parked(page) \in PageRecord /\ Parked(page).rev = page.rev
      BY <1>0, SmallFields, ParkedDoes DEF SameSeen
    <2>2. page' = [Parked(page) EXCEPT !.off = TRUE, !.epoch = @ + 1]
      BY <1>6 DEF Teardown
    <2>3. page'.rev = page.rev BY <2>1, <2>2 DEF PageRecord
    <2> QED BY <1>0, <1>6, <2>3, TeardownKeeps
  <1>7. ASSUME Rebuild PROVE SyncInv' /\ page'.rev >= page.rev
    <2>1. page'.rev = page.rev BY <1>7, <1>0 DEF Rebuild, TypeOK, PageRecord
    <2> QED BY <1>0, <1>7, <2>1, RebuildKeeps
  <1>8. ASSUME NEW e \in Epochs, Flush(e) PROVE SyncInv' /\ page'.rev >= page.rev
    <2>1. page'.rev = page.rev
      BY <1>8, <1>0 DEF Flush, Called, TypeOK, PageRecord
    <2> QED BY <1>0, <1>8, <2>1, FlushKeeps
  <1>9. ASSUME NEW e \in Epochs, PullsAtRebuild(e)
        PROVE  SyncInv' /\ page'.rev >= page.rev
    <2>1. page' = page BY <1>9 DEF PullsAtRebuild
    <2> QED BY <1>0, <1>9, <2>1, PullsAtRebuildKeeps
  <1> QED BY <1>1, <1>2, <1>3, <1>4, <1>5, <1>6, <1>7, <1>8, <1>9,
             PushSendsKeeps, PushReplyKeeps, PullReplyKeeps
          DEF Next

\* The shared state and its page keep the invariant above: the file follows the
\* memory, answers say what was so, and an edit is never dropped without a trace.
THEOREM SyncInvariant == Spec => []SyncInv
  <1>1. Init => SyncInv BY InitSync
  <1>2. SyncInv /\ [Next]_vars => SyncInv' BY StepSync
  <1> QED BY <1>1, <1>2, PTL DEF Spec

\* Everything keeps its type, and with no PUT running the memory is what is on
\* disk: _shielded_region, under every cancelled request, late PUT and crash.
THEOREM SyncMemoryIsDurable == Spec => []MemoryIsDurable
  <1>1. SyncInv => MemoryIsDurable
    BY NothingSaid DEF SyncInv, MemoryIsDurable, MemoryIsOnDisk, DiskFollows
  <1> QED BY <1>1, SyncInvariant, PTL

\* The page's revision only grows, broker restarts included (_stateRev).
THEOREM SyncRevNeverGoesBack == Spec => RevNeverGoesBack
  <1>1. SyncInv /\ [Next]_vars => [page'.rev >= page.rev]_vars BY StepSync
  <1> QED BY <1>1, SyncInvariant, PTL DEF Spec, RevNeverGoesBack

\* A page at rest on the broker's revision shows the broker's state, unless its
\* last edit is the one that went out with no record kept of it.
THEOREM SyncRestsInStep == Spec => []RestsInStep
  <1>1. SyncInv => RestsInStep
    <2>1. SUFFICES ASSUME SyncInv, AtRest, page.rev = srv.rev,
                          slipped = 0 \/ slipped # page.editGen
                   PROVE  page.local = srv.val
      BY DEF RestsInStep
    <2>2. /\ ~Owed(page) /\ ~page.skipped /\ push.at = "idle"
      BY <2>1 DEF AtRest, Queued
    <2>3. page.base = srv.val /\ page.base # NoVal
      BY <2>1, <2>2 DEF SyncInv, BaseTrue
    <2>4. page.local = page.base
      BY <2>1, <2>2, <2>3 DEF SyncInv, EditsKept
    <2> QED BY <2>3, <2>4
  <1> QED BY <1>1, SyncInvariant, PTL

-----------------------------------------------------------------------------
(* Old intent yields: what the invariant above does not say.               *)
(*                                                                         *)
(* The argument.  While the last edit is not yet old intent, no PUT of it   *)
(* was built on more than the base its next PUT will name (UnnotedSeen): so *)
(* that base bounds them all when the edit is parked or a reply is lost.    *)
(* Once a peer's write passes the base an old intent was noted with, every  *)
(* PUT of it is built on less than that write (GenYields), and so is every  *)
(* PUT still to come (PageYields): while it may be sent at all it is parked *)
(* or has failed (OldIntentKept), and its base moves up only to a revision  *)
(* whose content the page had sent, which a peer's news is not (NewsUnsent).*)

\* The last edit is parked; its PUT has failed.
ParkedNow(p) == p.park.on /\ p.park.gen = p.editGen
FailedNow(p) == p.fail.gen = p.editGen /\ p.editGen # 0

\* The base the next PUT would name.
NextBase(p) == SendBase(p, p.editGen)

\* No PUT that was given up is built on more than r; each on less than r.
StraysUpTo(r) ==
    /\ \A st \in strays : st.base <= r
    /\ section.who = "stray" => srv.rev <= r
StraysBelow(r) ==
    /\ \A st \in strays : st.base < r
    /\ section.who # "stray"

\* Bases are revisions the page has heard of.
PageBounds(p) ==
    /\ origin.gen <= p.editGen /\ origin.base <= p.rev
    /\ p.fail.gen <= p.editGen /\ p.fail.base <= p.rev
    /\ p.park.base <= p.rev
    /\ StraysUpTo(p.rev)
    /\ srv.rev > lastPeer => lastPeer <= p.rev

BasesBounded ==
    /\ lastPeer <= srv.rev
    /\ PageBounds(page)
    /\ push.at = "sent" => push.base <= page.rev

\* The page's own write is its PUT, on the base it named.
PutTaken ==
    /\ section.who = "page" => /\ section.gen = push.gen /\ srv.rev = push.base
                               /\ push.val \notin Refused
    /\ wire.out.kind = "rejected" => push.at = "sent" /\ push.val \in Refused

\* A peer's news is nothing the page has sent.
HasSent(p, v) == \E x \in Gens : p.sends[x] = v

NewsUnsent ==
    lastPeer > 0 =>
        /\ srv.rev = lastPeer => ~HasSent(page, srv.val)
        /\ wire.out.kind \in {"state", "conflict"} /\ wire.out.rev = lastPeer
                => ~HasSent(page, wire.out.val)
        /\ wire.out.kind = "saved" => wire.out.rev # lastPeer

\* The PUT in flight.
PutInHand ==
    push.at = "sent" =>
        /\ push.gen = page.editGen =>
                push.base = NextBase(page) /\ page.local # page.base
        /\ origin.gen = page.editGen => page.local # page.base
        /\ FailedNow(page) => push.gen = page.editGen
        /\ push.epoch = page.epoch => origin.gen <= push.gen

\* What is parked, or had its PUT lost, is the old intent noted.
OldIntentNoted(p) ==
    /\ ParkedNow(p) => origin.gen = p.editGen
    /\ FailedNow(p) /\ p.fail.thrown => origin.gen = p.editGen

\* A peer has written past the base of the old intent.
PassedBy == lastPeer > origin.base

GenYields ==
    PassedBy =>
        /\ \A st \in strays : st.gen = origin.gen => st.base < lastPeer
        /\ section.who = "stray" => section.gen # origin.gen
        /\ push.at = "sent" /\ push.val \notin Refused /\ push.gen = origin.gen
                => push.base < lastPeer

PageYields(p) ==
    PassedBy /\ p.editGen = origin.gen =>
        /\ StraysBelow(lastPeer) /\ srv.rev = lastPeer
        /\ ParkedNow(p) /\ p.local \notin Refused => p.park.base < lastPeer
        /\ FailedNow(p) /\ p.local \notin Refused => p.fail.base < lastPeer

FlightYields ==
    PassedBy /\ page.editGen = origin.gen =>
        /\ push.at = "sent" /\ push.val \notin Refused => push.base < lastPeer
        /\ wire.out.kind = "saved" => wire.out.rev < lastPeer

\* Old intent that may yet be sent is parked or has failed.
OldIntentKept ==
    /\ page.editGen = origin.gen
    /\ page.local # page.base /\ page.local \notin Refused
    /\ Queued(page) \/ Owed(page)
    => ParkedNow(page) \/ (FailedNow(page) /\ page.fail.thrown)

\* Before it is old intent.
UnnotedSeen(p) ==
    origin.gen # p.editGen =>
        /\ StraysUpTo(NextBase(p))
        /\ srv.rev > lastPeer => lastPeer <= NextBase(p)

UnnotedPut ==
    origin.gen # page.editGen /\ push.at = "sent" => push.base <= NextBase(page)

UnnotedFailure ==
    origin.gen # page.editGen /\ FailedNow(page) =>
        /\ ~(push.at = "sent" /\ wire.out.kind = "lost") => StraysUpTo(page.fail.base)
        /\ /\ ~(push.at = "sent" /\ wire.out.kind \in {"lost", "saved"})
           /\ srv.rev > lastPeer
           => lastPeer <= page.fail.base
        /\ push.at # "idle" /\ push.epoch # page.epoch =>
                push.at = "waiting" /\ page.local = page.base

ThisPutSeen ==
    push.at = "sent" /\ push.epoch = page.epoch /\ push.gen # origin.gen =>
        StraysUpTo(push.base)

\* The views, and the flush of one while older exchanges are under way.
ViewsInOrder ==
    /\ wire.at # "none" => push.at = "sent" \/ pull.at = "sent"
    /\ page.off => ~page.timer /\ ~page.again
    /\ \A y \in Epochs : y > page.epoch => chain[y] = "none"
    /\ pull.at = "sent" =>
            /\ pull.epoch <= page.epoch
            /\ pull.epoch = page.epoch => ~page.off
    /\ \A x, y \in Epochs :
            chain[x] = "flush" /\ y > x => chain[y] \in {"none", "flush"}

FlushFirst ==
    \A x \in Epochs : chain[x] = "flush" =>
        /\ push.at = "sent" => push.epoch < x
        /\ pull.at = "sent" => pull.epoch < x
        /\ page.editGen = origin.gen => ~page.timer
        /\ /\ pull.at = "sent"
           /\ page.timer \/ (push.at = "waiting" /\ push.epoch >= x)
           => page.editGen > page.sentGen

FlushOwes ==
    \A x \in Epochs :
        /\ chain[x] = "flush" /\ page.editGen = origin.gen /\ ParkedNow(page)
        /\ push.at # "sent" /\ Queued(page)
        /\ push.at = "waiting" => push.epoch >= x
        => Owed(page)

PutInv == PutInHand /\ UnnotedPut /\ ThisPutSeen /\ FlightYields
ViewInv == ViewsInOrder /\ FlushFirst /\ FlushOwes
IntentInv ==
    /\ BasesBounded /\ PutTaken /\ NewsUnsent
    /\ OldIntentNoted(page) /\ OldIntentKept /\ GenYields /\ PageYields(page)
    /\ UnnotedSeen(page) /\ UnnotedFailure
    /\ PutInv /\ ViewInv

LEMMA InitIntent == ASSUME Init PROVE IntentInv
  <1>1. /\ srv.rev = 1 /\ section = NoSection
        /\ strays = {} /\ wire = NoWire /\ push = NoPush /\ pull = NoPull
        /\ chain = [e \in Epochs |-> "none"] /\ lastPeer = 0
        /\ origin.gen = 0 /\ origin.base = 0
    BY DEF Init
  <1>2. /\ page.local = First /\ page.base = First /\ page.rev = 1
        /\ page.editGen = 0 /\ page.sentGen = 0 /\ page.epoch = 0
        /\ page.fail.gen = 0 /\ page.fail.base = 0
        /\ page.park.on = FALSE /\ page.park.base = 0
        /\ page.timer = FALSE /\ page.again = FALSE /\ page.off = FALSE
    BY DEF Init, NoFail
  <1>3. ~ParkedNow(page) /\ ~FailedNow(page) BY <1>2 DEF ParkedNow, FailedNow
  <1>4. ~PassedBy BY <1>1 DEF PassedBy
  <1>5. \A r \in Nat : StraysUpTo(r)
    BY <1>1, NothingSaid DEF StraysUpTo
  <1>6. push.at = "idle" /\ pull.at = "idle" /\ wire.out.kind = "none"
        /\ wire.at = "none" /\ section.who = "none"
    BY <1>1, NothingSaid
  <1>7. BasesBounded BY <1>1, <1>2, <1>5, <1>6 DEF BasesBounded, PageBounds
  <1>8. PutTaken /\ NewsUnsent BY <1>1, <1>6 DEF PutTaken, NewsUnsent
  <1>9. OldIntentNoted(page) /\ OldIntentKept /\ GenYields /\ PageYields(page)
    BY <1>1, <1>2, <1>3, <1>4 DEF OldIntentNoted, OldIntentKept, GenYields, PageYields
  <1>10. UnnotedSeen(page) /\ UnnotedFailure
    BY <1>1, <1>2 DEF UnnotedSeen, UnnotedFailure
  <1>11. PutInv
    BY <1>4, <1>6 DEF PutInv, PutInHand, UnnotedPut, ThisPutSeen, FlightYields
  <1>12. \A x \in Epochs : chain[x] = "none" BY <1>1
  <1>13. ViewInv
    BY <1>2, <1>6, <1>12 DEF ViewInv, ViewsInOrder, FlushFirst, FlushOwes
  <1> QED BY <1>7, <1>8, <1>9, <1>10, <1>11, <1>13 DEF IntentInv

\* The numbers of the second invariant.
LEMMA IntentNumbers ==
    ASSUME TypeOK
    PROVE  /\ lastPeer \in Nat /\ origin.gen \in Nat /\ origin.base \in Nat
           /\ page.editGen \in Nat /\ page.sentGen \in Nat /\ page.rev \in Nat
           /\ page.fail.gen \in Nat /\ page.fail.base \in Nat
           /\ page.park.gen \in Nat /\ page.park.base \in Nat
           /\ page.epoch \in Nat /\ push.epoch \in Nat /\ pull.epoch \in Nat
           /\ push.gen \in Nat /\ push.base \in Nat /\ srv.rev \in Nat
           /\ wire.out.rev \in Nat /\ section.gen \in Nat
           /\ NextBase(page) \in Nat /\ page \in PageRecord
           /\ \A st \in strays : st.base \in Nat /\ st.gen \in Nat
  <1>1. page \in PageRecord BY SmallFields
  <1>2. origin.gen \in Nat /\ origin.base \in Nat /\ lastPeer \in Nat
    BY GenBounds DEF TypeOK
  <1>3. \A st \in strays : st.base \in Nat /\ st.gen \in Nat
    BY GenBounds DEF TypeOK, StrayRecord
  <1>4. NextBase(page) \in Nat BY <1>1, SendBaseIsNat DEF NextBase
  <1>5. page.fail \in FailRecord /\ page.park \in ParkRecord BY <1>1, PageFields
  <1>6. page.editGen \in Gens /\ page.sentGen \in Gens /\ page.epoch \in Epochs
        /\ page.rev \in Nat
    BY <1>1, PageFields
  <1>7. page.fail.gen \in Gens /\ page.fail.base \in Nat BY <1>5, FailFields
  <1>8. page.park.gen \in Gens /\ page.park.base \in Nat BY <1>5, ParkFields
  <1> QED BY <1>1, <1>2, <1>3, <1>4, <1>6, <1>7, <1>8, SmallFields, GenBounds

-----------------------------------------------------------------------------
(* The broker's steps, as old intent sees them.                            *)

\* A PUT that was given up, or is now; a section, of whom.
StraysFollow ==
    \A st \in strays' :
        \/ st \in strays
        \/ /\ push.at = "sent" /\ push.val \notin Refused
           /\ st.base = push.base /\ st.gen = push.gen
           /\ wire'.out.kind = "lost"

SectionFollows ==
    /\ section'.who = "stray" =>
        \/ section.who = "stray" /\ section'.gen = section.gen
        \/ \E st \in strays : st.base = srv.rev /\ section'.gen = st.gen
        \/ /\ section.who = "page" /\ section'.gen = section.gen
           /\ wire'.out.kind = "lost"
    /\ section'.who = "page" =>
        \/ section.who = "page" /\ section'.gen = section.gen
        \/ /\ push.at = "sent" /\ push.val \notin Refused
           /\ push.base = srv.rev /\ section'.gen = push.gen

AnswerFollows ==
    /\ wire'.at # "none" => wire.at # "none"
    /\ \/ wire'.out = wire.out
       \/ /\ wire.out.kind = "none" /\ wire'.out.kind \in {"state", "conflict"}
          /\ wire'.out.rev = srv.rev /\ wire'.out.val = srv.val
       \/ /\ wire.out.kind = "none" /\ wire'.out.kind = "rejected"
          /\ push.at = "sent" /\ push.val \in Refused
       \/ wire.out.kind = "none" /\ wire'.out.kind = "error"
       \/ wire'.out.kind = "lost"

\* The revision stays, or a write becomes the next.
BrokerQuiet ==
    /\ UNCHANGED pageVars /\ srv' = srv /\ lastPeer' = lastPeer
    /\ StraysFollow /\ SectionFollows /\ AnswerFollows

BrokerCommits ==
    /\ UNCHANGED pageVars /\ strays' \subseteq strays /\ section'.who = "none"
    /\ srv'.rev = srv.rev + 1 /\ section.who # "none"
    /\ section.who # "peer" => lastPeer' = lastPeer
    /\ section.who = "peer" =>
            lastPeer' = 0 \/ (lastPeer' = srv'.rev /\ ~HasSent(page, srv'.val))
    /\ wire'.at # "none" => wire.at # "none"
    /\ \/ wire'.out = wire.out /\ section.who # "page"
       \/ wire'.out.kind = "lost"
       \/ /\ section.who = "page" /\ wire'.out.kind = "saved"
          /\ wire'.out.rev = srv'.rev

LEMMA AnswersAre ==
    /\ \A w : \A o \in OutRecord :
          w = [at |-> "answered", out |-> o] => w.at = "answered" /\ w.out = o
    /\ \A k \in {"state", "conflict", "rejected", "error", "lost"} :
          LET o == [NoOut EXCEPT !.kind = k] IN o \in OutRecord /\ o.kind = k
  BY RecordsBuilt DEF OutRecord, NoOut

\* The section as it was, and no PUT given up, is what most steps leave.
LEMMA NothingTaken ==
    ASSUME strays' \subseteq strays,
           section' = section \/ section'.who \in {"none", "peer"}
    PROVE  StraysFollow /\ SectionFollows
  BY DEF StraysFollow, SectionFollows

LEMMA AnswerGetQuiet == ASSUME SyncInv, AnswerGet PROVE BrokerQuiet
  <1>0. TypeOK /\ RepliesTrue BY DEF SyncInv
  <1> DEFINE o == [Conflict EXCEPT !.kind = "state"]
  <1>1. /\ wire.at = "asked" /\ wire' = [at |-> "answered", out |-> o]
        /\ UNCHANGED brokerVars /\ UNCHANGED strays /\ UNCHANGED pageVars
    BY DEF AnswerGet
  <1>2. o \in OutRecord /\ o.kind = "state" /\ o.rev = srv.rev /\ o.val = srv.val
    BY <1>0, SmallFields DEF Conflict, OutRecord
  <1>3. wire.out.kind = "none" BY <1>0, <1>1, NothingSaid DEF RepliesTrue
  <1> HIDE DEF o
  <1>4. wire'.at = "answered" /\ wire'.out = o BY <1>1, <1>2
  <1>5. AnswerFollows BY <1>1, <1>2, <1>3, <1>4 DEF AnswerFollows
  <1> QED BY <1>1, <1>5, NothingTaken DEF BrokerQuiet, brokerVars

LEMMA AnswerBadlyQuiet == ASSUME SyncInv, AnswerBadly PROVE BrokerQuiet
  <1>0. TypeOK /\ RepliesTrue BY DEF SyncInv
  <1> DEFINE o == [NoOut EXCEPT !.kind = "error"]
  <1>1. /\ wire.at = "asked" /\ wire' = [at |-> "answered", out |-> o]
        /\ UNCHANGED brokerVars /\ UNCHANGED strays /\ UNCHANGED pageVars
    BY DEF AnswerBadly
  <1>2. o \in OutRecord /\ o.kind = "error" BY AnswersAre
  <1>3. wire.out.kind = "none" BY <1>0, <1>1, NothingSaid DEF RepliesTrue
  <1> HIDE DEF o
  <1>4. wire'.at = "answered" /\ wire'.out = o BY <1>1, <1>2
  <1>5. AnswerFollows BY <1>1, <1>2, <1>3, <1>4 DEF AnswerFollows
  <1> QED BY <1>1, <1>5, NothingTaken DEF BrokerQuiet, brokerVars

LEMMA TakePutQuiet == ASSUME SyncInv, TakePut PROVE BrokerQuiet
  <1>0. TypeOK /\ RepliesTrue BY DEF SyncInv
  <1>1. /\ push.at = "sent" /\ wire.at = "asked"
        /\ srv' = srv /\ lastPeer' = lastPeer /\ strays' = strays
        /\ UNCHANGED pageVars
    BY DEF TakePut
  <1>2. wire.out.kind = "none" BY <1>0, <1>1, NothingSaid DEF RepliesTrue
  <1>3. StraysFollow BY <1>1 DEF StraysFollow
  <1>4. CASE /\ push.val \in Refused /\ section' = section
             /\ wire' = [at |-> "answered",
                         out |-> [NoOut EXCEPT !.kind = "rejected"]]
    <2> DEFINE o == [NoOut EXCEPT !.kind = "rejected"]
    <2>1. o \in OutRecord /\ o.kind = "rejected" BY AnswersAre
    <2>2. wire' = [at |-> "answered", out |-> o] BY <1>4
    <2> HIDE DEF o
    <2>3. wire'.at = "answered" /\ wire'.out = o BY <2>1, <2>2
    <2>4. AnswerFollows BY <1>1, <1>2, <1>4, <2>1, <2>3 DEF AnswerFollows
    <2> QED BY <1>1, <1>3, <1>4, <2>4 DEF BrokerQuiet, SectionFollows
  <1>5. CASE /\ section' = section
             /\ wire' = [at |-> "answered", out |-> Conflict]
    <2>1. /\ Conflict \in OutRecord /\ Conflict.kind = "conflict"
          /\ Conflict.rev = srv.rev /\ Conflict.val = srv.val
      BY <1>0, SmallFields DEF Conflict, OutRecord
    <2>2. wire'.at = "answered" /\ wire'.out = Conflict BY <1>5, <2>1
    <2>3. AnswerFollows BY <1>1, <1>2, <2>1, <2>2 DEF AnswerFollows
    <2> QED BY <1>1, <1>3, <1>5, <2>3 DEF BrokerQuiet, SectionFollows
  <1>6. CASE /\ push.val \notin Refused /\ Writable(push.base)
             /\ section' = [NoSection EXCEPT !.who = "page", !.val = push.val,
                                             !.gen = push.gen]
             /\ wire' = [wire EXCEPT !.at = "writing"]
    <2>1. wire'.at = "writing" /\ wire'.out = wire.out
      BY <1>0, <1>6, WireBuilt DEF TypeOK
    <2>2. section'.who = "page" /\ section'.gen = push.gen
      BY <1>6 DEF NoSection
    <2>3. push.base = srv.rev BY <1>6 DEF Writable
    <2>4. AnswerFollows BY <1>1, <2>1 DEF AnswerFollows
    <2>5. SectionFollows BY <1>1, <1>6, <2>2, <2>3 DEF SectionFollows
    <2> QED BY <1>1, <1>3, <2>4, <2>5 DEF BrokerQuiet
  <1> QED BY <1>4, <1>5, <1>6 DEF TakePut

LEMMA TakeStrayQuiet == ASSUME SyncInv, TakeStray PROVE BrokerQuiet
  <1>1. PICK st \in strays :
          /\ strays' = strays \ {st}
          /\ \/ section' = section
             \/ /\ Writable(st.base)
                /\ section' = [NoSection EXCEPT !.who = "stray", !.val = st.val,
                                                !.gen = st.gen]
    BY DEF TakeStray
  <1>2. srv' = srv /\ lastPeer' = lastPeer /\ wire' = wire /\ UNCHANGED pageVars
    BY DEF TakeStray
  <1>3. AnswerFollows BY <1>2 DEF AnswerFollows
  <1>4. StraysFollow BY <1>1 DEF StraysFollow
  <1>5. SectionFollows
    <2>1. CASE section' = section BY <2>1 DEF SectionFollows
    <2>2. CASE /\ Writable(st.base)
               /\ section' = [NoSection EXCEPT !.who = "stray", !.val = st.val,
                                               !.gen = st.gen]
      <3>1. section'.who = "stray" /\ section'.gen = st.gen BY <2>2 DEF NoSection
      <3>2. st.base = srv.rev BY <2>2 DEF Writable
      <3> QED BY <3>1, <3>2 DEF SectionFollows
    <2> QED BY <1>1, <2>1, <2>2
  <1> QED BY <1>2, <1>3, <1>4, <1>5 DEF BrokerQuiet

LEMMA TakePeerQuiet ==
    ASSUME SyncInv, NEW v \in Vals \ Refused, TakePeer(v) PROVE BrokerQuiet
  <1>1. /\ srv' = srv /\ lastPeer' = lastPeer /\ wire' = wire
        /\ strays' = strays /\ UNCHANGED pageVars
        /\ section' = [NoSection EXCEPT !.who = "peer", !.val = v]
    BY DEF TakePeer, netVars
  <1>2. section'.who = "peer" BY <1>1 DEF NoSection
  <1>3. AnswerFollows BY <1>1 DEF AnswerFollows
  <1> QED BY <1>1, <1>2, <1>3, NothingTaken DEF BrokerQuiet

LEMMA WriteLandsQuiet == ASSUME SyncInv, WriteLands PROVE BrokerQuiet
  <1>0. TypeOK BY DEF SyncInv
  <1>1. /\ srv' = srv /\ lastPeer' = lastPeer /\ wire' = wire
        /\ strays' = strays /\ UNCHANGED pageVars
        /\ section' = [section EXCEPT !.landed = TRUE]
    BY DEF WriteLands, netVars
  <1>2. section'.who = section.who /\ section'.gen = section.gen
    BY <1>0, <1>1 DEF TypeOK, SectionRecord
  <1>3. AnswerFollows BY <1>1 DEF AnswerFollows
  <1> QED BY <1>1, <1>2, <1>3 DEF BrokerQuiet, StraysFollow, SectionFollows

LEMMA WriteFailsQuiet == ASSUME SyncInv, WriteFails PROVE BrokerQuiet
  <1>0. TypeOK /\ DiskFollows /\ RepliesTrue BY DEF SyncInv
  <1> DEFINE o == [NoOut EXCEPT !.kind = "error"]
  <1>1. /\ srv' = srv /\ lastPeer' = lastPeer /\ strays' = strays
        /\ UNCHANGED pageVars /\ section' = NoSection
        /\ wire' = IF section.who = "page" THEN [at |-> "answered", out |-> o]
                                           ELSE wire
    BY DEF WriteFails
  <1>2. o \in OutRecord /\ o.kind = "error" BY AnswersAre
  <1> HIDE DEF o
  <1>3. AnswerFollows
    <2>1. CASE section.who = "page"
      <3>1. wire.at = "writing" BY <1>0, <2>1 DEF DiskFollows
      <3>2. wire.out.kind = "none" BY <1>0, <3>1, NothingSaid DEF RepliesTrue
      <3>3. wire'.at = "answered" /\ wire'.out = o BY <1>1, <1>2, <2>1
      <3> QED BY <1>2, <3>1, <3>2, <3>3 DEF AnswerFollows
    <2>2. CASE section.who # "page" BY <1>1, <2>2 DEF AnswerFollows
    <2> QED BY <2>1, <2>2
  <1>4. section'.who = "none" BY <1>1, NothingSaid
  <1> QED BY <1>1, <1>3, <1>4, NothingTaken DEF BrokerQuiet

LEMMA GiveUpQuiet == ASSUME SyncInv, GiveUp PROVE BrokerQuiet
  <1>0. TypeOK /\ DiskFollows BY DEF SyncInv
  <1> DEFINE o == [NoOut EXCEPT !.kind = "lost"]
             w == [base |-> push.base, val |-> push.val, gen |-> push.gen]
  <1>1. /\ wire.at \in {"asked", "writing", "answered"}
        /\ wire' = [at |-> "answered", out |-> o]
        /\ section' = IF wire.at = "writing" THEN Shielded ELSE section
        /\ \/ strays' = strays
           \/ /\ push.at = "sent" /\ push.val \notin Refused
              /\ strays' = strays \cup {w}
        /\ srv' = srv /\ lastPeer' = lastPeer /\ UNCHANGED pageVars
    BY DEF GiveUp
  <1>2. o \in OutRecord /\ o.kind = "lost" BY AnswersAre
  <1>3. w.base = push.base /\ w.gen = push.gen OBVIOUS
  <1> HIDE DEF o, w
  <1>4. wire'.at = "answered" /\ wire'.out = o BY <1>1, <1>2
  <1>5. AnswerFollows BY <1>1, <1>2, <1>4 DEF AnswerFollows
  <1>6. StraysFollow BY <1>1, <1>2, <1>3, <1>4 DEF StraysFollow
  <1>7. SectionFollows
    <2>1. CASE section' = section BY <2>1 DEF SectionFollows
    <2>2. CASE /\ section.who = "page"
               /\ section' = [section EXCEPT !.who = "stray"]
      <3>1. section'.who = "stray" /\ section'.gen = section.gen
        BY <1>0, <2>2 DEF TypeOK, SectionRecord
      <3> QED BY <1>2, <1>4, <2>2, <3>1 DEF SectionFollows
    <2> QED BY <1>1, <2>1, <2>2 DEF Shielded
  <1> QED BY <1>1, <1>5, <1>6, <1>7 DEF BrokerQuiet

\* What a landed write makes of the peers' last one.
LEMMA NotedPeerIs ==
    ASSUME SyncInv, section.landed, srv' = disk
    PROVE  /\ srv'.rev = srv.rev + 1 /\ section.who # "none"
           /\ section.who # "peer" => NotedPeer = lastPeer
           /\ section.who = "peer" =>
                \/ NotedPeer = 0
                \/ NotedPeer = srv'.rev /\ ~HasSent(page, srv'.val)
  <1>1. disk.rev = srv.rev + 1 /\ disk.val = section.val /\ section.who # "none"
    BY DEF SyncInv, DiskFollows
  <1> QED BY <1>1 DEF NotedPeer, HasSent

LEMMA CommitCommits == ASSUME SyncInv, Commit PROVE BrokerCommits
  <1>0. TypeOK /\ DiskFollows BY DEF SyncInv
  <1> DEFINE o == [NoOut EXCEPT !.kind = "saved", !.rev = disk.rev]
  <1>1. /\ strays' = strays /\ UNCHANGED pageVars
        /\ section.landed /\ section' = NoSection /\ srv' = disk
        /\ lastPeer' = NotedPeer
        /\ wire' = IF section.who = "page" THEN [at |-> "answered", out |-> o]
                                           ELSE wire
    BY DEF Commit
  <1>2. o \in OutRecord /\ o.kind = "saved" /\ o.rev = disk.rev
    BY <1>0, SmallFields DEF OutRecord, NoOut
  <1> HIDE DEF o
  <1>3. /\ srv'.rev = srv.rev + 1 /\ section.who # "none"
        /\ section.who # "peer" => lastPeer' = lastPeer
        /\ section.who = "peer" =>
                lastPeer' = 0 \/ (lastPeer' = srv'.rev /\ ~HasSent(page, srv'.val))
    BY <1>1, NotedPeerIs
  <1>4. section'.who = "none" BY <1>1, NothingSaid
  <1>5. CASE section.who = "page"
    <2>1. wire.at # "none" BY <1>0, <1>5 DEF DiskFollows
    <2>2. wire'.out = o BY <1>1, <1>2, <1>5
    <2>3. wire'.out.kind = "saved" /\ wire'.out.rev = srv'.rev
      BY <1>1, <1>2, <2>2
    <2> QED BY <1>1, <1>3, <1>4, <1>5, <2>1, <2>3 DEF BrokerCommits
  <1>6. CASE section.who # "page"
    <2>1. wire' = wire BY <1>1, <1>6
    <2> QED BY <1>1, <1>3, <1>4, <1>6, <2>1 DEF BrokerCommits
  <1> QED BY <1>5, <1>6

LEMMA CrashFollows == ASSUME SyncInv, Crash PROVE BrokerQuiet \/ BrokerCommits
  <1>0. TypeOK /\ DiskFollows BY DEF SyncInv
  <1> DEFINE o == [NoOut EXCEPT !.kind = "lost"]
  <1>1. /\ strays' = {} /\ UNCHANGED pageVars
        /\ section' = NoSection /\ srv' = disk
        /\ lastPeer' = IF section.landed THEN NotedPeer ELSE lastPeer
        /\ wire' = IF wire.at = "none" THEN wire
                   ELSE [at |-> "answered", out |-> o]
    BY DEF Crash
  <1>2. o \in OutRecord /\ o.kind = "lost" BY AnswersAre
  <1> HIDE DEF o
  <1>3. section'.who = "none" BY <1>1, NothingSaid
  <1>4. wire' = wire \/ (wire.at # "none" /\ wire'.out.kind = "lost")
    BY <1>1, <1>2
  <1>5. CASE section.landed
    <2>1. /\ srv'.rev = srv.rev + 1 /\ section.who # "none"
          /\ section.who # "peer" => lastPeer' = lastPeer
          /\ section.who = "peer" =>
                lastPeer' = 0 \/ (lastPeer' = srv'.rev /\ ~HasSent(page, srv'.val))
      BY <1>1, <1>5, NotedPeerIs
    <2>2. section.who = "page" => wire.at # "none" BY <1>0 DEF DiskFollows
    <2>3. /\ wire'.at # "none" => wire.at # "none"
          /\ \/ wire'.out = wire.out /\ section.who # "page"
             \/ wire'.out.kind = "lost"
      BY <1>1, <1>4, <2>2, <1>2
    <2> QED BY <1>1, <1>3, <2>1, <2>3 DEF BrokerCommits
  <1>6. CASE ~section.landed
    <2>1. srv' = srv /\ lastPeer' = lastPeer BY <1>0, <1>1, <1>6 DEF DiskFollows
    <2>2. AnswerFollows BY <1>4 DEF AnswerFollows
    <2> QED BY <1>1, <1>3, <2>1, <2>2, NothingTaken DEF BrokerQuiet
  <1> QED BY <1>5, <1>6

\* What both kinds of step leave alone.
LEMMA PageSideKept ==
    ASSUME SyncInv, IntentInv, UNCHANGED pageVars,
           wire'.at # "none" => wire.at # "none"
    PROVE  PutInHand' /\ OldIntentNoted(page)' /\ OldIntentKept' /\ UnnotedPut'
           /\ ViewInv'
  <1>1. /\ page' = page /\ push' = push /\ pull' = pull /\ chain' = chain
        /\ origin' = origin
    BY DEF pageVars
  <1>2. /\ PutInHand /\ OldIntentNoted(page) /\ OldIntentKept /\ UnnotedPut
        /\ ViewsInOrder /\ FlushFirst /\ FlushOwes
    BY DEF IntentInv, PutInv, ViewInv
  <1>3. /\ NextBase(page)' = NextBase(page) /\ FailedNow(page)' = FailedNow(page)
        /\ ParkedNow(page)' = ParkedNow(page)
    BY <1>1 DEF NextBase, SendBase, FailedNow, ParkedNow
  <1>4. Queued(page)' = Queued(page) /\ Owed(page)' = Owed(page)
    BY <1>1 DEF Queued, Owed
  <1>5. PutInHand' BY <1>1, <1>2, <1>3 DEF PutInHand
  <1>6. OldIntentNoted(page)' BY <1>1, <1>2, <1>3 DEF OldIntentNoted
  <1>7. OldIntentKept' BY <1>1, <1>2, <1>3, <1>4 DEF OldIntentKept
  <1>8. UnnotedPut' BY <1>1, <1>2, <1>3 DEF UnnotedPut
  <1>9. ViewsInOrder' BY <1>1, <1>2 DEF ViewsInOrder
  <1>10. FlushFirst' BY <1>1, <1>2 DEF FlushFirst
  <1>11. FlushOwes' BY <1>1, <1>2, <1>3, <1>4 DEF FlushOwes
  <1> QED BY <1>5, <1>6, <1>7, <1>8, <1>9, <1>10, <1>11 DEF ViewInv

LEMMA QuietKeeps == ASSUME SyncInv, IntentInv, BrokerQuiet PROVE IntentInv'
  <1>0. TypeOK /\ DiskFollows /\ RepliesTrue BY DEF SyncInv
  <1>1. /\ page' = page /\ push' = push /\ origin' = origin /\ srv' = srv
        /\ lastPeer' = lastPeer /\ UNCHANGED pageVars
        /\ StraysFollow /\ SectionFollows /\ AnswerFollows
    BY DEF BrokerQuiet, pageVars
  <1>2. /\ BasesBounded /\ PageBounds(page) /\ PutTaken /\ NewsUnsent /\ GenYields
        /\ PageYields(page) /\ UnnotedSeen(page) /\ UnnotedFailure
        /\ UnnotedPut /\ ThisPutSeen /\ FlightYields
    BY DEF IntentInv, BasesBounded, PutInv
  <1>3. /\ NextBase(page)' = NextBase(page) /\ FailedNow(page)' = FailedNow(page)
        /\ ParkedNow(page)' = ParkedNow(page)
    BY <1>1 DEF NextBase, SendBase, FailedNow, ParkedNow
  <1>4. section.who = "page" => push.at = "sent" BY <1>0 DEF DiskFollows
  <1>5. ASSUME NEW r \in Nat, StraysUpTo(r),
               push.at = "sent" /\ wire'.out.kind = "lost" => push.base <= r
        PROVE  /\ \A st \in strays' : st.base <= r
               /\ section'.who = "stray" => srv'.rev <= r
    <2>1. \A st \in strays' : st.base <= r
      BY <1>1, <1>5 DEF StraysFollow, StraysUpTo
    <2>2. ASSUME section'.who = "stray" PROVE srv.rev <= r
      <3>1. \/ section.who = "stray"
            \/ \E st \in strays : st.base = srv.rev
            \/ section.who = "page" /\ wire'.out.kind = "lost"
        BY <1>1, <2>2 DEF SectionFollows
      <3> QED BY <1>2, <1>4, <1>5, <3>1 DEF StraysUpTo, PutTaken
    <2> QED BY <1>1, <2>1, <2>2
  <1>6. /\ page.rev \in Nat /\ NextBase(page) \in Nat /\ page.fail.base \in Nat
        /\ push.base \in Nat /\ srv.rev \in Nat /\ lastPeer \in Nat
        /\ \A st \in strays : st.base \in Nat
    BY <1>0, IntentNumbers
  <1>7. BasesBounded'
    <2>1. StraysUpTo(page.rev)' BY <1>1, <1>2, <1>5, <1>6
          DEF BasesBounded, PageBounds, StraysUpTo
    <2> QED BY <1>1, <1>2, <2>1 DEF BasesBounded, PageBounds
  <1>8. PutTaken'
    <2>1. section'.who = "page" => /\ section'.gen = push.gen /\ srv.rev = push.base
                                   /\ push.val \notin Refused
      BY <1>1, <1>2 DEF PutTaken, SectionFollows
    <2>2. wire'.out.kind = "rejected" => push.at = "sent" /\ push.val \in Refused
      BY <1>1, <1>2 DEF PutTaken, AnswerFollows
    <2> QED BY <1>1, <2>1, <2>2 DEF PutTaken
  <1>9. NewsUnsent' BY <1>1, <1>2 DEF NewsUnsent, AnswerFollows, HasSent
  <1>10. ASSUME PassedBy PROVE GenYields'
    <2>1. ASSUME NEW st \in strays', st.gen = origin.gen PROVE st.base < lastPeer
      BY <1>1, <1>2, <1>10, <2>1 DEF GenYields, StraysFollow
    <2>2. ASSUME section'.who = "stray" PROVE section'.gen # origin.gen
      <3>1. CASE section.who = "stray" /\ section'.gen = section.gen
        BY <1>2, <1>10, <3>1 DEF GenYields
      <3>2. CASE \E st \in strays : st.base = srv.rev /\ section'.gen = st.gen
        <4>1. PICK st \in strays : st.base = srv.rev /\ section'.gen = st.gen
          BY <3>2
        <4>2. lastPeer <= st.base BY <1>2, <4>1 DEF BasesBounded
        <4>3. ~(st.base < lastPeer) BY <1>6, <4>2
        <4> QED BY <1>2, <1>10, <4>1, <4>3 DEF GenYields
      <3>3. CASE section.who = "page" /\ section'.gen = section.gen
        <4>1. /\ section.gen = push.gen /\ srv.rev = push.base
              /\ push.val \notin Refused /\ push.at = "sent"
          BY <1>2, <1>4, <3>3 DEF PutTaken
        <4>2. lastPeer <= push.base BY <1>2, <4>1 DEF BasesBounded
        <4>3. ~(push.base < lastPeer) BY <1>6, <4>2
        <4> QED BY <1>2, <1>10, <3>3, <4>1, <4>3 DEF GenYields
      <3> QED BY <1>1, <2>2, <3>1, <3>2, <3>3 DEF SectionFollows
    <2> QED BY <1>1, <1>2, <1>10, <2>1, <2>2 DEF GenYields
  <1>11. ASSUME PassedBy, page.editGen = origin.gen
         PROVE  PageYields(page)' /\ FlightYields'
    <2>1. /\ \A st \in strays : st.base < lastPeer
          /\ section.who # "stray" /\ srv.rev = lastPeer
          /\ push.at = "sent" /\ push.val \notin Refused => push.base < lastPeer
          /\ wire.out.kind = "saved" => wire.out.rev < lastPeer
      BY <1>2, <1>11 DEF PageYields, StraysBelow, FlightYields
    <2>2. \A st \in strays' : st.base < lastPeer BY <1>1, <2>1 DEF StraysFollow
    <2>3. ~(\E st \in strays : st.base = srv.rev) BY <1>6, <2>1
    <2>4. section.who # "page"
      <3>1. SUFFICES ASSUME section.who = "page" PROVE FALSE OBVIOUS
      <3>2. /\ push.base = lastPeer /\ push.val \notin Refused /\ push.at = "sent"
        BY <1>2, <1>4, <2>1, <3>1 DEF PutTaken
      <3> QED BY <1>6, <2>1, <3>2
    <2>5. section'.who # "stray" BY <1>1, <2>1, <2>3, <2>4 DEF SectionFollows
    <2>6. StraysBelow(lastPeer)' BY <1>1, <2>2, <2>5 DEF StraysBelow
    <2>7. PageYields(page)'
      BY <1>1, <1>2, <1>3, <1>11, <2>1, <2>6 DEF PageYields, PassedBy
    <2>8. wire'.out.kind = "saved" => wire'.out = wire.out
      BY <1>1 DEF AnswerFollows
    <2>9. FlightYields' BY <1>1, <2>1, <2>8 DEF FlightYields
    <2> QED BY <2>7, <2>9
  <1>12. PassedBy' <=> PassedBy BY <1>1 DEF PassedBy
  <1>13. GenYields' BY <1>10, <1>12 DEF GenYields
  <1>14. PageYields(page)' /\ FlightYields'
    BY <1>1, <1>11, <1>12 DEF PageYields, FlightYields
  <1>15. UnnotedSeen(page)'
    <2>1. SUFFICES ASSUME origin.gen # page.editGen
                   PROVE  StraysUpTo(NextBase(page))' /\
                          (srv.rev > lastPeer => lastPeer <= NextBase(page))
      BY <1>1, <1>3 DEF UnnotedSeen
    <2>2. StraysUpTo(NextBase(page)) /\ (srv.rev > lastPeer => lastPeer <= NextBase(page))
      BY <1>2, <2>1 DEF UnnotedSeen
    <2>3. push.at = "sent" => push.base <= NextBase(page)
      BY <1>2, <2>1 DEF UnnotedPut
    <2>4. /\ \A st \in strays' : st.base <= NextBase(page)
          /\ section'.who = "stray" => srv'.rev <= NextBase(page)
      BY <1>5, <1>6, <2>2, <2>3
    <2>5. StraysUpTo(NextBase(page))' BY <1>3, <2>4 DEF StraysUpTo
    <2> QED BY <2>2, <2>5
  <1>16. UnnotedFailure'
    <2>1. SUFFICES ASSUME origin.gen # page.editGen, FailedNow(page)
                   PROVE  /\ ~(push.at = "sent" /\ wire'.out.kind = "lost") =>
                                StraysUpTo(page.fail.base)'
                          /\ /\ ~(push.at = "sent" /\ wire'.out.kind \in {"lost", "saved"})
                             /\ srv.rev > lastPeer
                             => lastPeer <= page.fail.base
                          /\ push.at # "idle" /\ push.epoch # page.epoch =>
                                push.at = "waiting" /\ page.local = page.base
      BY <1>1, <1>3 DEF UnnotedFailure
    <2>2. /\ ~(push.at = "sent" /\ wire.out.kind = "lost") => StraysUpTo(page.fail.base)
          /\ /\ ~(push.at = "sent" /\ wire.out.kind \in {"lost", "saved"})
             /\ srv.rev > lastPeer
             => lastPeer <= page.fail.base
          /\ push.at # "idle" /\ push.epoch # page.epoch =>
                push.at = "waiting" /\ page.local = page.base
      BY <1>2, <2>1 DEF UnnotedFailure
    <2>3. /\ wire.out.kind = "lost" => wire'.out.kind = "lost"
          /\ wire.out.kind = "saved" => wire'.out.kind \in {"lost", "saved"}
      BY <1>1 DEF AnswerFollows
    <2>4. ASSUME ~(push.at = "sent" /\ wire'.out.kind = "lost")
          PROVE  StraysUpTo(page.fail.base)'
      <3>1. StraysUpTo(page.fail.base) BY <2>2, <2>3, <2>4
      <3>2. /\ \A st \in strays' : st.base <= page.fail.base
            /\ section'.who = "stray" => srv'.rev <= page.fail.base
        BY <1>5, <1>6, <2>4, <3>1
      <3> QED BY <1>1, <3>2 DEF StraysUpTo
    <2> QED BY <2>2, <2>3, <2>4
  <1>17. ThisPutSeen'
    <2>1. SUFFICES ASSUME push.at = "sent", push.epoch = page.epoch,
                          push.gen # origin.gen
                   PROVE  StraysUpTo(push.base)'
      BY <1>1 DEF ThisPutSeen
    <2>2. StraysUpTo(push.base) BY <1>2, <2>1 DEF ThisPutSeen
    <2>3. /\ \A st \in strays' : st.base <= push.base
          /\ section'.who = "stray" => srv'.rev <= push.base
      BY <1>5, <1>6, <2>2
    <2> QED BY <1>1, <2>3 DEF StraysUpTo
  <1>18. wire'.at # "none" => wire.at # "none" BY <1>1 DEF AnswerFollows
  <1>19. PutInHand' /\ OldIntentNoted(page)' /\ OldIntentKept' /\ UnnotedPut'
         /\ ViewInv'
    BY <1>1, <1>18, PageSideKept
  <1> QED BY <1>7, <1>8, <1>9, <1>13, <1>14, <1>15, <1>16, <1>17, <1>19
          DEF IntentInv, PutInv

LEMMA CommitsKeeps == ASSUME SyncInv, IntentInv, BrokerCommits PROVE IntentInv'
  <1>0. TypeOK /\ DiskFollows /\ RepliesTrue BY DEF SyncInv
  <1>1. /\ page' = page /\ push' = push /\ origin' = origin /\ UNCHANGED pageVars
        /\ strays' \subseteq strays /\ section'.who = "none"
        /\ srv'.rev = srv.rev + 1 /\ section.who # "none"
        /\ section.who # "peer" => lastPeer' = lastPeer
        /\ section.who = "peer" =>
              lastPeer' = 0 \/ (lastPeer' = srv'.rev /\ ~HasSent(page, srv'.val))
        /\ wire'.at # "none" => wire.at # "none"
        /\ \/ wire'.out = wire.out /\ section.who # "page"
           \/ wire'.out.kind = "lost"
           \/ /\ section.who = "page" /\ wire'.out.kind = "saved"
              /\ wire'.out.rev = srv'.rev
    BY DEF BrokerCommits, pageVars
  <1>2. /\ BasesBounded /\ PageBounds(page) /\ PutTaken /\ NewsUnsent /\ GenYields
        /\ PageYields(page) /\ UnnotedSeen(page) /\ UnnotedFailure
        /\ UnnotedPut /\ ThisPutSeen /\ FlightYields
    BY DEF IntentInv, BasesBounded, PutInv
  <1>3. /\ NextBase(page)' = NextBase(page) /\ FailedNow(page)' = FailedNow(page)
        /\ ParkedNow(page)' = ParkedNow(page)
    BY <1>1 DEF NextBase, SendBase, FailedNow, ParkedNow
  <1>4. /\ page.rev \in Nat /\ NextBase(page) \in Nat /\ page.fail.base \in Nat
        /\ page.park.base \in Nat /\ push.base \in Nat /\ srv.rev \in Nat
        /\ lastPeer \in Nat /\ origin.base \in Nat /\ wire.out.rev \in Nat
        /\ \A st \in strays : st.base \in Nat
    BY <1>0, IntentNumbers
  <1>5. section.who \in {"page", "stray", "peer"} BY <1>0, <1>1, SmallFields
  <1>6. section.who = "page" =>
            /\ push.at = "sent" /\ wire.out.kind = "none"
            /\ push.val \notin Refused /\ srv.rev = push.base
            /\ section.gen = push.gen
    BY <1>0, <1>2, NothingSaid DEF DiskFollows, RepliesTrue, PutTaken
  <1>7. ASSUME NEW r PROVE StraysUpTo(r) => StraysUpTo(r)'
    BY <1>1 DEF StraysUpTo
  <1>8. lastPeer <= srv.rev /\ page.rev <= srv.rev
    BY <1>0, <1>2 DEF BasesBounded, RepliesTrue
  <1>9. /\ wire.out.kind = "saved" => wire.out.rev <= srv.rev
        /\ wire.out.kind \in {"state", "conflict"} => wire.out.rev <= srv.rev
    BY <1>0 DEF RepliesTrue
  <1>10. lastPeer' = lastPeer \/ lastPeer' = 0 \/ lastPeer' = srv'.rev
    BY <1>1
  <1>11. section.who # "peer" => lastPeer' = lastPeer /\ lastPeer <= page.rev
    <2>1. CASE section.who = "stray"
      BY <1>1, <1>2, <1>4, <1>8, <2>1 DEF PageBounds, StraysUpTo
    <2>2. CASE section.who = "page"
      <3>1. push.base <= page.rev BY <1>2, <1>6, <2>2 DEF BasesBounded
      <3> QED BY <1>1, <1>4, <1>6, <1>8, <2>2, <3>1
    <2> QED BY <1>5, <2>1, <2>2
  <1>12. BasesBounded'
    <2>1. lastPeer' <= srv'.rev BY <1>1, <1>4, <1>8, <1>10
    <2>2. srv'.rev > lastPeer' => lastPeer' <= page.rev
      BY <1>1, <1>4, <1>5, <1>11
    <2>3. StraysUpTo(page.rev)' BY <1>1, <1>2 DEF PageBounds, StraysUpTo
    <2> QED BY <1>1, <1>2, <2>1, <2>2, <2>3 DEF BasesBounded, PageBounds
  <1>13. PutTaken' BY <1>1, <1>2 DEF PutTaken
  <1>14. NewsUnsent'
    <2>1. SUFFICES ASSUME lastPeer' > 0
                   PROVE  /\ srv'.rev = lastPeer' => ~HasSent(page, srv'.val)
                          /\ wire'.out.kind \in {"state", "conflict"}
                             /\ wire'.out.rev = lastPeer'
                                => ~HasSent(page, wire'.out.val)
                          /\ wire'.out.kind = "saved" => wire'.out.rev # lastPeer'
      BY <1>1 DEF NewsUnsent, HasSent
    <2>2. CASE section.who = "peer"
      <3>1. lastPeer' = srv.rev + 1 /\ ~HasSent(page, srv'.val)
        BY <1>1, <2>1, <2>2
      <3> QED BY <1>1, <1>4, <1>9, <2>2, <3>1
    <2>3. CASE section.who # "peer"
      <3>1. lastPeer' = lastPeer /\ srv'.rev # lastPeer /\ lastPeer > 0
        BY <1>1, <1>4, <1>8, <1>11, <2>1, <2>3
      <3> QED BY <1>1, <1>2, <3>1 DEF NewsUnsent
    <2> QED BY <2>2, <2>3
  <1>15. ASSUME section.who = "peer"
         PROVE  GenYields' /\ PageYields(page)' /\ FlightYields'
    <2>1. PassedBy' => lastPeer' = srv.rev + 1
      BY <1>1, <1>4, <1>15 DEF PassedBy
    <2>2. ASSUME PassedBy' PROVE GenYields' /\ PageYields(page)' /\ FlightYields'
      <3>1. \A st \in strays' : st.base < lastPeer'
        BY <1>1, <1>2, <1>4, <1>8, <2>1, <2>2 DEF PageBounds, StraysUpTo
      <3>2. push.at = "sent" => push.base < lastPeer'
        BY <1>2, <1>4, <1>8, <2>1, <2>2 DEF BasesBounded
      <3>3. page.park.base < lastPeer' /\ page.fail.base < lastPeer'
        BY <1>2, <1>4, <1>8, <2>1, <2>2 DEF PageBounds
      <3>4. wire'.out.kind = "saved" => wire'.out.rev < lastPeer'
        BY <1>1, <1>4, <1>9, <1>15, <2>1, <2>2
      <3>5. srv'.rev = lastPeer' BY <1>1, <2>1, <2>2
      <3>6. GenYields' BY <1>1, <3>1, <3>2 DEF GenYields
      <3>7. StraysBelow(lastPeer)' BY <1>1, <3>1 DEF StraysBelow
      <3>8. PageYields(page)' BY <1>1, <3>3, <3>5, <3>7 DEF PageYields
      <3>9. FlightYields' BY <1>1, <3>2, <3>4 DEF FlightYields
      <3> QED BY <3>6, <3>8, <3>9
    <2>3. ASSUME ~PassedBy' PROVE GenYields' /\ PageYields(page)' /\ FlightYields'
      <3>1. GenYields' BY <2>3 DEF GenYields
      <3>2. PageYields(page)' BY <2>3 DEF PageYields
      <3>3. FlightYields' BY <2>3 DEF FlightYields
      <3> QED BY <3>1, <3>2, <3>3
    <2> QED BY <2>2, <2>3
  <1>16. ASSUME section.who # "peer"
         PROVE  GenYields' /\ PageYields(page)' /\ FlightYields'
    <2>1. PassedBy' <=> PassedBy BY <1>1, <1>16 DEF PassedBy
    <2>2. GenYields' BY <1>1, <1>2, <1>16, <2>1 DEF GenYields
    <2>3. ~(PassedBy /\ page.editGen = origin.gen)
      <3>1. SUFFICES ASSUME PassedBy, page.editGen = origin.gen PROVE FALSE
        OBVIOUS
      <3>2. section.who # "stray" /\ srv.rev = lastPeer
        BY <1>2, <3>1 DEF PageYields, StraysBelow
      <3>3. push.base < lastPeer
        BY <1>2, <1>5, <1>6, <1>16, <3>1, <3>2 DEF FlightYields
      <3> QED BY <1>4, <1>5, <1>6, <1>16, <3>2, <3>3
    <2>4. ~(PassedBy' /\ page'.editGen = origin'.gen) BY <1>1, <2>1, <2>3
    <2>5. PageYields(page)' BY <2>4 DEF PageYields
    <2>6. FlightYields' BY <2>4 DEF FlightYields
    <2> QED BY <2>2, <2>5, <2>6
  <1>17. GenYields' /\ PageYields(page)' /\ FlightYields' BY <1>15, <1>16
  <1>18. UnnotedSeen(page)'
    <2>1. SUFFICES ASSUME origin.gen # page.editGen
                   PROVE  /\ StraysUpTo(NextBase(page))'
                          /\ srv'.rev > lastPeer' => lastPeer' <= NextBase(page)
      BY <1>1, <1>3 DEF UnnotedSeen
    <2>2. StraysUpTo(NextBase(page)) BY <1>2, <2>1 DEF UnnotedSeen
    <2>3. StraysUpTo(NextBase(page))' BY <1>1, <1>3, <2>2 DEF StraysUpTo
    <2>4. section.who = "stray" => lastPeer <= NextBase(page)
      BY <1>4, <1>8, <2>2 DEF StraysUpTo
    <2>5. section.who = "page" => lastPeer <= NextBase(page)
      BY <1>2, <1>4, <1>6, <1>8, <2>1 DEF UnnotedPut
    <2> QED BY <1>1, <1>4, <1>5, <2>3, <2>4, <2>5
  <1>19. UnnotedFailure'
    <2>1. SUFFICES ASSUME origin.gen # page.editGen, FailedNow(page)
                   PROVE  /\ ~(push.at = "sent" /\ wire'.out.kind = "lost") =>
                                StraysUpTo(page.fail.base)'
                          /\ /\ ~(push.at = "sent" /\ wire'.out.kind \in {"lost", "saved"})
                             /\ srv'.rev > lastPeer'
                             => lastPeer' <= page.fail.base
                          /\ push.at # "idle" /\ push.epoch # page.epoch =>
                                push.at = "waiting" /\ page.local = page.base
      BY <1>1, <1>3 DEF UnnotedFailure
    <2>2. /\ ~(push.at = "sent" /\ wire.out.kind = "lost") => StraysUpTo(page.fail.base)
          /\ push.at # "idle" /\ push.epoch # page.epoch =>
                push.at = "waiting" /\ page.local = page.base
      BY <1>2, <2>1 DEF UnnotedFailure
    <2>3. wire.out.kind = "lost" => wire'.out.kind = "lost" BY <1>1, <1>6
    <2>4. ASSUME ~(push.at = "sent" /\ wire'.out.kind = "lost")
          PROVE  StraysUpTo(page.fail.base)'
      <3>1. StraysUpTo(page.fail.base) BY <2>2, <2>3, <2>4
      <3> QED BY <1>1, <3>1 DEF StraysUpTo
    <2>5. ASSUME ~(push.at = "sent" /\ wire'.out.kind \in {"lost", "saved"}),
                 srv'.rev > lastPeer'
          PROVE  lastPeer' <= page.fail.base
      <3>1. CASE section.who = "peer" BY <1>1, <1>4, <2>5, <3>1
      <3>2. CASE section.who = "stray"
        <4>1. StraysUpTo(page.fail.base) BY <2>2, <2>3, <2>5
        <4> QED BY <1>1, <1>4, <1>8, <3>2, <4>1 DEF StraysUpTo
      <3>3. CASE section.who = "page" BY <1>1, <1>6, <2>5, <3>3
      <3> QED BY <1>5, <3>1, <3>2, <3>3
    <2> QED BY <2>2, <2>4, <2>5
  <1>20. ThisPutSeen' BY <1>1, <1>2 DEF ThisPutSeen, StraysUpTo
  <1>21. PutInHand' /\ OldIntentNoted(page)' /\ OldIntentKept' /\ UnnotedPut'
         /\ ViewInv'
    BY <1>1, PageSideKept
  <1> QED BY <1>12, <1>13, <1>14, <1>17, <1>18, <1>19, <1>20, <1>21
          DEF IntentInv, PutInv

-----------------------------------------------------------------------------
(* The page's operators, as old intent sees them.                          *)

\* q is what p was, its timers, its view and its count of the sent apart.
SameRecords(q, p) ==
    /\ q.local = p.local /\ q.base = p.base /\ q.rev = p.rev
    /\ q.editGen = p.editGen /\ q.fail = p.fail /\ q.park = p.park
    /\ q.sends = p.sends

SameTimers(q, p) == q.timer = p.timer /\ q.again = p.again

LEMMA ScheduledKeeps ==
    ASSUME NEW p \in PageRecord
    PROVE  LET q == Scheduled(p) IN
           /\ SameRecords(q, p) /\ q.again = p.again
           /\ p.off => q.timer = p.timer
  BY DEF Scheduled, PageRecord, SameRecords

LEMMA ParkedFailureKeeps ==
    ASSUME NEW p \in PageRecord, NEW g
    PROVE  SameRecords(ParkedFailure(p, g), p) /\ SameTimers(ParkedFailure(p, g), p)
  BY DEF ParkedFailure, PageRecord, SameRecords, SameTimers

LEMMA CalledKeeps ==
    ASSUME NEW p \in PageRecord
    PROVE  /\ SameRecords(Called(p), p) /\ Called(p).timer = p.timer
           /\ p.off \/ push.at = "idle" => Called(p).again = p.again
  BY DEF Called, PageRecord, SameRecords

LEMMA RetryOwedKeeps ==
    ASSUME NEW p \in PageRecord, NEW q \in RetryOwed(p)
    PROVE  /\ SameRecords(q, p) /\ q.again = p.again
           /\ q.timer = p.timer \/ Owed(p)
  <1>1. CASE q = p BY <1>1 DEF SameRecords
  <1>2. CASE q = Scheduled(p) /\ Owed(p) BY <1>2, ScheduledKeeps
  <1> QED BY <1>1, <1>2 DEF RetryOwed

LEMMA SettledAllClears ==
    ASSUME NEW p \in PageRecord PROVE SettledAll(p).park.base = p.park.base
                                      /\ SameTimers(SettledAll(p), p)
  <1>1. p.park \in ParkRecord BY PageFields
  <1> DEFINE k == [p.park EXCEPT !.on = FALSE]
  <1>2. k.base = p.park.base BY <1>1, ParkFields
  <1>3. SettledAll(p) = [p EXCEPT !.sentGen = p.editGen, !.fail = NoFail, !.park = k]
    BY DEF SettledAll
  <1> HIDE DEF k
  <1> QED BY <1>2, <1>3 DEF PageRecord, SameTimers

LEMMA SettledSentClears ==
    ASSUME NEW p \in PageRecord, NEW g \in Gens
    PROVE  LET q == SettledSent(p, g) IN
           /\ q.fail = IF p.fail.gen <= g THEN NoFail ELSE p.fail
           /\ q.park.on = (p.park.on /\ g < p.park.gen)
           /\ q.park.base = p.park.base /\ q.sends = p.sends /\ SameTimers(q, p)
  <1>1. p.park \in ParkRecord /\ p.park.on \in BOOLEAN BY PageFields, ParkFields
  <1> DEFINE on == p.park.on /\ g < p.park.gen
             k == [p.park EXCEPT !.on = on]
             f == IF p.fail.gen <= g THEN NoFail ELSE p.fail
  <1>2. on \in BOOLEAN BY <1>1
  <1>3. k.base = p.park.base /\ k.on = on
    <2> HIDE DEF on
    <2> QED BY <1>1, <1>2 DEF ParkRecord
  <1>4. SettledSent(p, g) = [p EXCEPT !.fail = f, !.park = k] BY DEF SettledSent
  <1> HIDE DEF k
  <1>5. /\ SettledSent(p, g).fail = f /\ SettledSent(p, g).park = k
        /\ SettledSent(p, g).sends = p.sends /\ SameTimers(SettledSent(p, g), p)
    <2> HIDE DEF f
    <2> QED BY <1>4 DEF PageRecord, SameTimers
  <1> QED BY <1>3, <1>5

\* A record of the same PUT stays the same record.
LEMMA FailedNotes ==
    ASSUME NEW p \in PageRecord, NEW g \in Gens, NEW b \in Nat, NEW thrown \in BOOLEAN
    PROVE  LET q == Failed(p, g, b, thrown) IN
           /\ q.fail.gen = g /\ q.sends = p.sends /\ SameTimers(q, p)
           /\ \/ /\ p.fail.gen = g /\ p.fail # NoFail
                 /\ q.fail.base = p.fail.base
                 /\ q.fail.thrown = (p.fail.thrown \/ thrown)
              \/ /\ ~(p.fail.gen = g /\ p.fail # NoFail)
                 /\ q.fail.base = b /\ q.fail.thrown = thrown
  <1> DEFINE f == IF p.fail.gen = g /\ p.fail # NoFail THEN p.fail
                  ELSE [NoFail EXCEPT !.gen = g, !.base = b]
             t == f.thrown \/ thrown
             n == IF f.fails > RetryFast THEN f.fails ELSE f.fails + 1
             h == [f EXCEPT !.thrown = t, !.fails = n]
  <1>1. f \in FailRecord /\ f.gen = g
        /\ (f = p.fail \/ (f.base = b /\ f.thrown = FALSE))
    <2>1. CASE p.fail.gen = g /\ p.fail # NoFail
      <3>1. f = p.fail BY <2>1
      <3> HIDE DEF f
      <3> QED BY <2>1, <3>1, PageFields
    <2>2. CASE ~(p.fail.gen = g /\ p.fail # NoFail)
      <3>1. f = [NoFail EXCEPT !.gen = g, !.base = b] BY <2>2
      <3> HIDE DEF f
      <3>2. f \in FailRecord BY <3>1, RecordsBuilt DEF FailRecord
      <3>3. f.gen = g /\ f.base = b /\ f.thrown = FALSE BY <3>1 DEF NoFail
      <3> QED BY <3>2, <3>3
    <2> QED BY <2>1, <2>2
  <1>2. \/ p.fail.gen = g /\ p.fail # NoFail /\ f = p.fail
        \/ /\ ~(p.fail.gen = g /\ p.fail # NoFail)
           /\ f.base = b /\ f.thrown = FALSE
    BY DEF NoFail
  <1>3. Failed(p, g, b, thrown) = [p EXCEPT !.fail = h] BY DEF Failed
  <1> HIDE DEF f
  <1>4. t \in BOOLEAN BY <1>1, FailFields
  <1> HIDE DEF t, n
  <1>5. h.gen = f.gen /\ h.base = f.base /\ h.thrown = t
    BY <1>1 DEF FailRecord
  <1> HIDE DEF h
  <1>6. /\ Failed(p, g, b, thrown).fail = h
        /\ Failed(p, g, b, thrown).sends = p.sends
        /\ SameTimers(Failed(p, g, b, thrown), p)
    BY <1>3 DEF PageRecord, SameTimers
  <1> QED BY <1>1, <1>2, <1>5, <1>6 DEF t

LEMMA SawOwnWriteMoves ==
    ASSUME NEW p \in PageRecord, NEW val, NEW rev \in Nat
    PROVE  LET q == SawOwnWrite(p, val, rev) IN
           /\ q.fail.gen = p.fail.gen /\ q.fail.thrown = p.fail.thrown
           /\ q.fail.base = p.fail.base
              \/ (q.fail.base = rev /\ FromParent(p, p.fail.gen, val))
           /\ q.park.base = p.park.base
              \/ (q.park.base = rev /\ FromParent(p, p.park.gen, val))
           /\ SameTimers(q, p)
  <1> DEFINE fb == IF p.fail # NoFail /\ FromParent(p, p.fail.gen, val) THEN rev
                   ELSE p.fail.base
             f == [p.fail EXCEPT !.base = fb]
             b == IF p.park.on /\ FromParent(p, p.park.gen, val) THEN rev
                  ELSE p.park.base
             k == [p.park EXCEPT !.base = b]
  <1>1. p.fail \in FailRecord /\ p.park \in ParkRecord BY PageFields
  <1>2. SawOwnWrite(p, val, rev) = [p EXCEPT !.fail = f, !.park = k]
    BY DEF SawOwnWrite
  <1>3. /\ fb = p.fail.base \/ (fb = rev /\ FromParent(p, p.fail.gen, val))
        /\ b = p.park.base \/ (b = rev /\ FromParent(p, p.park.gen, val))
    OBVIOUS
  <1> HIDE DEF fb, b
  <1>4. f.gen = p.fail.gen /\ f.thrown = p.fail.thrown /\ f.base = fb
    BY <1>1 DEF FailRecord
  <1>5. k.base = b BY <1>1 DEF ParkRecord
  <1> HIDE DEF f, k
  <1>6. /\ SawOwnWrite(p, val, rev).fail = f /\ SawOwnWrite(p, val, rev).park = k
        /\ SameTimers(SawOwnWrite(p, val, rev), p)
    BY <1>2 DEF PageRecord, SameTimers
  <1> QED BY <1>3, <1>4, <1>5, <1>6

LEMMA AdoptedClears ==
    ASSUME NEW p \in PageRecord, NEW val \in Vals
    PROVE  LET q == Adopted(p, val) IN
           /\ q.fail = NoFail /\ ~q.park.on /\ q.park.base = p.park.base
           /\ q.sends = NoSends /\ SameTimers(q, p)
  <1> DEFINE r == SettledAll(p)
  <1>1. /\ r \in PageRecord /\ r.fail = NoFail /\ ~r.park.on
        /\ r.park.base = p.park.base /\ SameTimers(r, p)
    BY SettledAllDoes, SettledAllClears
  <1>2. Adopted(p, val) = [r EXCEPT !.local = val, !.base = val, !.sends = NoSends,
                                    !.skipped = FALSE]
    BY DEF Adopted
  <1> HIDE DEF r
  <1> QED BY <1>1, <1>2 DEF PageRecord, SameTimers

\* What a teardown parks, and on what base.
LEMMA ParkedParks ==
    ASSUME NEW p \in PageRecord
    PROVE  LET q == Parked(p) IN
           /\ q.timer = FALSE /\ q.again = FALSE /\ q.sends = p.sends
           /\ \/ /\ Owed(p) \/ push.at # "idle"
                 /\ p.local # p.base
                 /\ q.park.on /\ q.park.gen = p.editGen
                 /\ q.park.base = SendBase(p, p.editGen)
              \/ /\ ~((Owed(p) \/ push.at # "idle") /\ p.local # p.base)
                 /\ ~q.park.on /\ q.park.gen = p.park.gen
                 /\ q.park.base = p.park.base
  <1> DEFINE owes == (Owed(p) \/ push.at # "idle") /\ p.local # p.base
             m == [on |-> TRUE, gen |-> p.editGen, base |-> SendBase(p, p.editGen)]
             o == [p.park EXCEPT !.on = FALSE]
             k == IF owes THEN m ELSE o
  <1>1. p.park \in ParkRecord BY PageFields
  <1>2. ~o.on /\ o.gen = p.park.gen /\ o.base = p.park.base BY <1>1, ParkFields
  <1>3. Parked(p) = [p EXCEPT !.timer = FALSE, !.again = FALSE, !.park = k]
    BY DEF Parked
  <1>4. (owes /\ k = m) \/ (~owes /\ k = o) OBVIOUS
  <1>5. m.on /\ m.gen = p.editGen /\ m.base = SendBase(p, p.editGen) OBVIOUS
  <1> HIDE DEF k, m, o
  <1>6. /\ Parked(p).park = k /\ Parked(p).timer = FALSE
        /\ Parked(p).again = FALSE /\ Parked(p).sends = p.sends
    BY <1>3 DEF PageRecord
  <1> QED BY <1>2, <1>4, <1>5, <1>6

\* pushState's finally: its timer is set again only in the view it ran in.
LEMMA FinishedKeeps ==
    ASSUME TypeOK, NEW p \in PageRecord, Finished(p)
    PROVE  /\ push'.at = "idle" /\ SameRecords(page', p) /\ ~page'.again
           /\ page'.off = p.off /\ page'.epoch = p.epoch
           /\ page'.sentGen = p.sentGen
           /\ page'.timer = p.timer
              \/ (p.again /\ push.epoch = p.epoch /\ ~p.off)
           /\ \A x \in Epochs :
                chain'[x] = chain[x] \/ (chain[x] = "pushing" /\ chain'[x] = "pull")
  <1> DEFINE q == [p EXCEPT !.again = FALSE]
  <1>1. /\ q \in PageRecord /\ SameRecords(q, p) /\ ~q.again /\ q.timer = p.timer
        /\ q.off = p.off /\ q.epoch = p.epoch /\ q.sentGen = p.sentGen
    BY DEF PageRecord, SameRecords
  <1>2. /\ push' = NoPush
        /\ page' = q \/ (page' = Scheduled(q) /\ p.again /\ push.epoch = p.epoch)
        /\ chain' = [e \in Epochs |-> IF chain[e] = "pushing" THEN "pull"
                                                              ELSE chain[e]]
    BY DEF Finished
  <1> HIDE DEF q
  <1>3. /\ SameRecords(page', p) /\ ~page'.again
        /\ page'.off = p.off /\ page'.epoch = p.epoch
        /\ page'.sentGen = p.sentGen
        /\ page'.timer = p.timer \/ (p.again /\ push.epoch = p.epoch /\ ~p.off)
    <2>1. CASE page' = q BY <1>1, <2>1
    <2>2. CASE page' = Scheduled(q) /\ p.again /\ push.epoch = p.epoch
      <3>1. /\ SameRecords(page', q) /\ page'.again = q.again
            /\ q.off => page'.timer = q.timer
        BY <1>1, <2>2, ScheduledKeeps
      <3>2. SameButTimers(page', q) BY <1>1, <2>2, ScheduledDoes
      <3> QED BY <1>1, <2>2, <3>1, <3>2
              DEF SameRecords, SameButTimers, SameView, SameMarks
    <2> QED BY <1>2, <2>1, <2>2
  <1>4. \A x \in Epochs :
            chain'[x] = chain[x] \/ (chain[x] = "pushing" /\ chain'[x] = "pull")
    BY <1>2
  <1> QED BY <1>2, <1>3, <1>4, NothingSaid

-----------------------------------------------------------------------------
(* The page's steps: what its records may become.                          *)

\* A PUT of the last edit failed on a base that bounds all its PUTs.
FailSeen(p) ==
    origin.gen # p.editGen /\ FailedNow(p) =>
        StraysUpTo(p.fail.base) /\ (srv.rev > lastPeer => lastPeer <= p.fail.base)

RecordsSound(p) ==
    /\ PageBounds(p) /\ OldIntentNoted(p) /\ PageYields(p) /\ UnnotedSeen(p)
    /\ lastPeer > 0 /\ srv.rev = lastPeer => ~HasSent(p, srv.val)

\* A base moves up, below a peer's write that passed old intent by.
Rises(b, c, r) ==
    c = b \/ (/\ b <= c /\ c <= r
              /\ PassedBy /\ page.editGen = origin.gen => c < lastPeer)

\* q forgets records of the page, or moves their bases up.
Moves(q) ==
    /\ q.editGen = page.editGen /\ page.rev <= q.rev
    /\ \A v \in Vals : HasSent(q, v) => HasSent(page, v)
    /\ \/ q.fail = NoFail
       \/ /\ q.fail.gen = page.fail.gen /\ q.fail.thrown = page.fail.thrown
          /\ Rises(page.fail.base, q.fail.base, q.rev)
    /\ q.park.on => page.park.on
    /\ q.park.gen = page.park.gen
    /\ \/ ~q.park.on /\ q.park.base = page.park.base
       \/ Rises(page.park.base, q.park.base, q.rev)
    /\ ParkedNow(q) \/ FailedNow(q) => q.local = page.local

LEMMA NextBaseIs ==
    ASSUME NEW p \in PageRecord
    PROVE  /\ ParkedNow(p) => NextBase(p) = p.park.base
           /\ ~ParkedNow(p) => \/ NextBase(p) = p.rev
                               \/ NextBase(p) = p.fail.base /\ FailedNow(p)
           /\ ~ParkedNow(p) /\ FailedNow(p) /\ p.fail.thrown =>
                NextBase(p) = p.fail.base
  <1>1. p.park.on \in BOOLEAN BY PageFields, ParkFields
  <1> QED BY <1>1 DEF NextBase, SendBase, ParkedNow, FailedNow

LEMMA RecordNumbers ==
    ASSUME NEW p \in PageRecord
    PROVE  /\ p.editGen \in Nat /\ p.sentGen \in Nat /\ p.rev \in Nat
           /\ p.epoch \in Nat /\ p.fail \in FailRecord /\ p.park \in ParkRecord
           /\ p.fail.gen \in Nat /\ p.fail.base \in Nat
           /\ p.park.gen \in Nat /\ p.park.base \in Nat
           /\ p.fail.thrown \in BOOLEAN /\ p.park.on \in BOOLEAN
           /\ p.local \in Vals /\ p.editGen \in Gens
  BY PageFields, FailFields, ParkFields, GenBounds

\* What is not yet old intent, and not parked, is bounded by what it failed on.
LEMMA SeenFrom ==
    ASSUME NEW q \in PageRecord, PageBounds(q), OldIntentNoted(q), FailSeen(q)
    PROVE  UnnotedSeen(q)
  <1>1. SUFFICES ASSUME origin.gen # q.editGen
                 PROVE  /\ StraysUpTo(NextBase(q))
                        /\ srv.rev > lastPeer => lastPeer <= NextBase(q)
    BY DEF UnnotedSeen
  <1>2. ~ParkedNow(q) BY <1>1 DEF OldIntentNoted
  <1>3. CASE NextBase(q) = q.rev BY <1>3 DEF PageBounds
  <1>4. CASE NextBase(q) = q.fail.base /\ FailedNow(q)
    BY <1>1, <1>4 DEF FailSeen
  <1> QED BY <1>2, <1>3, <1>4, NextBaseIs

LEMMA MovesSound ==
    ASSUME SyncInv, IntentInv, NEW q \in PageRecord, Moves(q),
           FailedNow(q) => FailSeen(page)
    PROVE  RecordsSound(q) /\ FailSeen(q)
  <1>0. TypeOK BY DEF SyncInv
  <1>1. PageBounds(page) /\ OldIntentNoted(page) /\ PageYields(page) /\ NewsUnsent
        /\ lastPeer <= srv.rev
    BY DEF IntentInv, BasesBounded
  <1>2. /\ q.editGen = page.editGen /\ page.rev <= q.rev
        /\ \A v \in Vals : HasSent(q, v) => HasSent(page, v)
        /\ \/ q.fail = NoFail
           \/ /\ q.fail.gen = page.fail.gen /\ q.fail.thrown = page.fail.thrown
              /\ Rises(page.fail.base, q.fail.base, q.rev)
        /\ q.park.on => page.park.on
        /\ q.park.gen = page.park.gen
        /\ \/ ~q.park.on /\ q.park.base = page.park.base
           \/ Rises(page.park.base, q.park.base, q.rev)
        /\ ParkedNow(q) \/ FailedNow(q) => q.local = page.local
    BY DEF Moves
  <1>3. /\ page.rev \in Nat /\ page.fail.base \in Nat /\ page.park.base \in Nat
        /\ page.editGen \in Nat /\ page.fail.gen \in Nat
        /\ q.rev \in Nat /\ q.fail.base \in Nat /\ q.park.base \in Nat
        /\ q.editGen \in Nat /\ q.fail.gen \in Nat
        /\ lastPeer \in Nat /\ origin.gen \in Nat /\ origin.base \in Nat
        /\ srv.rev \in Nat /\ srv.val \in Vals
        /\ \A st \in strays : st.base \in Nat
    BY <1>0, IntentNumbers, RecordNumbers, SmallFields
  <1>4. /\ page.fail.base <= page.rev /\ page.park.base <= page.rev
        /\ page.fail.gen <= page.editGen /\ origin.base <= page.rev
        /\ origin.gen <= page.editGen
        /\ StraysUpTo(page.rev) /\ (srv.rev > lastPeer => lastPeer <= page.rev)
    BY <1>1 DEF PageBounds
  <1>5. NoFail.gen = 0 /\ NoFail.base = 0 BY DEF NoFail
  <1>6. ASSUME NEW b \in Nat, NEW c \in Nat, StraysUpTo(b), b <= c
        PROVE  StraysUpTo(c)
    BY <1>3, <1>6 DEF StraysUpTo
  <1>7. /\ ParkedNow(q) => /\ ParkedNow(page) /\ q.local = page.local
                           /\ Rises(page.park.base, q.park.base, q.rev)
        /\ FailedNow(q) => /\ FailedNow(page) /\ q.local = page.local
                           /\ q.fail.thrown = page.fail.thrown
                           /\ Rises(page.fail.base, q.fail.base, q.rev)
    BY <1>2, <1>5 DEF ParkedNow, FailedNow
  <1>8. PageBounds(q)
    <2>1. q.fail.gen <= q.editGen BY <1>2, <1>3, <1>4, <1>5
    <2>2. q.fail.base <= q.rev BY <1>2, <1>3, <1>4, <1>5 DEF Rises
    <2>3. q.park.base <= q.rev BY <1>2, <1>3, <1>4 DEF Rises
    <2>4. StraysUpTo(q.rev) BY <1>2, <1>3, <1>4, <1>6
    <2>5. origin.gen <= q.editGen /\ origin.base <= q.rev
          /\ (srv.rev > lastPeer => lastPeer <= q.rev)
      BY <1>2, <1>3, <1>4
    <2> QED BY <2>1, <2>2, <2>3, <2>4, <2>5 DEF PageBounds
  <1>9. OldIntentNoted(q) BY <1>1, <1>2, <1>7 DEF OldIntentNoted
  <1>10. PageYields(q)
    <2>1. SUFFICES ASSUME PassedBy, page.editGen = origin.gen
                   PROVE  /\ StraysBelow(lastPeer) /\ srv.rev = lastPeer
                          /\ ParkedNow(q) /\ q.local \notin Refused =>
                                q.park.base < lastPeer
                          /\ FailedNow(q) /\ q.local \notin Refused =>
                                q.fail.base < lastPeer
      BY <1>2 DEF PageYields
    <2>2. /\ StraysBelow(lastPeer) /\ srv.rev = lastPeer
          /\ ParkedNow(page) /\ page.local \notin Refused => page.park.base < lastPeer
          /\ FailedNow(page) /\ page.local \notin Refused => page.fail.base < lastPeer
      BY <1>1, <2>1 DEF PageYields
    <2>3. ParkedNow(q) /\ q.local \notin Refused => q.park.base < lastPeer
      BY <1>3, <1>7, <2>1, <2>2 DEF Rises
    <2>4. FailedNow(q) /\ q.local \notin Refused => q.fail.base < lastPeer
      BY <1>3, <1>7, <2>1, <2>2 DEF Rises
    <2> QED BY <2>2, <2>3, <2>4
  <1>11. FailSeen(q)
    <2>1. SUFFICES ASSUME origin.gen # page.editGen, FailedNow(q)
                   PROVE  /\ StraysUpTo(q.fail.base)
                          /\ srv.rev > lastPeer => lastPeer <= q.fail.base
      BY <1>2 DEF FailSeen
    <2>2. /\ StraysUpTo(page.fail.base)
          /\ srv.rev > lastPeer => lastPeer <= page.fail.base
      BY <1>7, <2>1 DEF FailSeen
    <2>3. page.fail.base <= q.fail.base BY <1>3, <1>7, <2>1 DEF Rises
    <2> QED BY <1>3, <1>6, <2>2, <2>3
  <1>12. UnnotedSeen(q) BY <1>8, <1>9, <1>11, SeenFrom
  <1>13. lastPeer > 0 /\ srv.rev = lastPeer => ~HasSent(q, srv.val)
    BY <1>1, <1>2, <1>3 DEF NewsUnsent
  <1> QED BY <1>8, <1>9, <1>10, <1>11, <1>12, <1>13 DEF RecordsSound

\* What was sound of the page is: without the broker's steps, it is the same.
LEMMA RecordsKept ==
    ASSUME UNCHANGED <<srv, section, strays, lastPeer, origin>>,
           NEW q, SameRecords(page', q), RecordsSound(q)
    PROVE  /\ PageBounds(page)' /\ OldIntentNoted(page)' /\ PageYields(page)'
           /\ UnnotedSeen(page)' /\ NextBase(page)' = NextBase(q)
           /\ lastPeer' > 0 /\ srv'.rev = lastPeer' => ~HasSent(page, srv.val)'
           /\ ParkedNow(page)' = ParkedNow(q) /\ FailedNow(page)' = FailedNow(q)
  <1>1. /\ page'.local = q.local /\ page'.base = q.base /\ page'.rev = q.rev
        /\ page'.editGen = q.editGen /\ page'.fail = q.fail
        /\ page'.park = q.park /\ page'.sends = q.sends
    BY DEF SameRecords
  <1>2. /\ srv' = srv /\ section' = section /\ strays' = strays
        /\ lastPeer' = lastPeer /\ origin' = origin
    OBVIOUS
  <1>3. /\ NextBase(page)' = NextBase(q)
        /\ ParkedNow(page)' = ParkedNow(q) /\ FailedNow(page)' = FailedNow(q)
    BY <1>1 DEF NextBase, SendBase, ParkedNow, FailedNow
  <1>4. PageBounds(page)'
    BY <1>1, <1>2 DEF RecordsSound, PageBounds, StraysUpTo
  <1>5. OldIntentNoted(page)'
    BY <1>1, <1>2, <1>3 DEF RecordsSound, OldIntentNoted
  <1>6. PageYields(page)'
    BY <1>1, <1>2, <1>3 DEF RecordsSound, PageYields, PassedBy, StraysBelow
  <1>7. UnnotedSeen(page)'
    BY <1>1, <1>2, <1>3 DEF RecordsSound, UnnotedSeen, StraysUpTo
  <1>8. lastPeer' > 0 /\ srv'.rev = lastPeer' => ~HasSent(page, srv.val)'
    BY <1>1, <1>2 DEF RecordsSound, HasSent
  <1> QED BY <1>3, <1>4, <1>5, <1>6, <1>7, <1>8

LEMMA PageSound == ASSUME IntentInv PROVE RecordsSound(page)
  BY DEF IntentInv, BasesBounded, NewsUnsent, RecordsSound

\* The page's own PUT is out of the way: none is in flight, or the same one.
PutAside ==
    \/ push' = push /\ wire'.out = wire.out
    \/ /\ push'.at # "sent" /\ section.who # "page"
       /\ wire'.out.kind = "none" \/ (push.at # "sent" /\ wire'.out = wire.out)

\* What does not depend on what becomes of the page's records.
LEMMA AsideKeeps ==
    ASSUME SyncInv, IntentInv, PutAside,
           UNCHANGED <<srv, section, strays, lastPeer, origin>>,
           page'.editGen = page.editGen, page'.rev >= page.rev, page'.rev \in Nat,
           PageBounds(page)',
           lastPeer' > 0 /\ srv'.rev = lastPeer' => ~HasSent(page, srv.val)',
           \A v \in Vals : HasSent(page, v)' => HasSent(page, v)
    PROVE  /\ BasesBounded' /\ PutTaken' /\ NewsUnsent' /\ GenYields'
           /\ FlightYields'
  <1>0. TypeOK /\ RepliesTrue BY DEF SyncInv
  <1>1. BasesBounded /\ PutTaken /\ NewsUnsent /\ GenYields /\ FlightYields
    BY DEF IntentInv, PutInv
  <1>2. /\ srv' = srv /\ section' = section /\ strays' = strays
        /\ lastPeer' = lastPeer /\ origin' = origin
    OBVIOUS
  <1>3. /\ push'.at = "sent" => push' = push
        /\ wire'.out = wire.out \/ wire'.out.kind = "none"
        /\ section.who = "page" => push' = push
        /\ wire'.out.kind = "rejected" => push' = push \/ push.at # "sent"
        /\ wire'.out.kind = "rejected" => wire'.out = wire.out
    BY DEF PutAside
  <1>4. page.rev \in Nat /\ push.base \in Nat BY <1>0, IntentNumbers
  <1>5. BasesBounded'
    <2>1. push'.at = "sent" => push'.base <= page'.rev
      BY <1>1, <1>3, <1>4 DEF BasesBounded
    <2> QED BY <1>1, <1>2, <2>1 DEF BasesBounded
  <1>6. PutTaken'
    <2>1. wire'.out.kind = "rejected" => push'.at = "sent" /\ push'.val \in Refused
      BY <1>1, <1>3 DEF PutTaken
    <2> QED BY <1>1, <1>2, <1>3, <2>1 DEF PutTaken
  <1>7. NewsUnsent'
    <2>1. wire.out.kind \in {"state", "conflict"} => wire.out.val \in Vals
      BY <1>0 DEF RepliesTrue
    <2>2. SUFFICES ASSUME lastPeer > 0
                   PROVE  /\ srv.rev = lastPeer => ~HasSent(page, srv.val)'
                          /\ wire'.out.kind \in {"state", "conflict"}
                             /\ wire'.out.rev = lastPeer
                                  => ~HasSent(page, wire.out.val)'
                          /\ wire'.out.kind = "saved" => wire'.out.rev # lastPeer
      BY <1>2, <1>3 DEF NewsUnsent, HasSent
    <2> QED BY <1>1, <1>2, <1>3, <2>1, <2>2 DEF NewsUnsent, HasSent
  <1>8. PassedBy' <=> PassedBy BY <1>2 DEF PassedBy
  <1>9. GenYields' BY <1>1, <1>2, <1>3, <1>8 DEF GenYields
  <1>10. FlightYields'
    BY <1>1, <1>2, <1>3, <1>8 DEF FlightYields
  <1> QED BY <1>5, <1>6, <1>7, <1>9, <1>10

-----------------------------------------------------------------------------
(* The page's steps that leave its records alone.                          *)

LEMMA KeptSame ==
    ASSUME SyncInv, IntentInv, ViewInv', PutAside,
           push.at = "sent" => push' = push,
           UNCHANGED <<srv, section, strays, lastPeer, origin>>,
           SameRecords(page', page),
           push'.at # "idle" /\ push'.epoch # page'.epoch =>
                push' = push /\ push.epoch # page.epoch,
           push'.at = "sent" /\ push'.epoch = page'.epoch => page'.epoch = page.epoch,
           Queued(page)' \/ Owed(page)' => Queued(page) \/ Owed(page)
    PROVE  IntentInv'
  <1>0. TypeOK BY DEF SyncInv
  <1>1. /\ OldIntentKept /\ UnnotedFailure /\ PutInHand /\ UnnotedPut /\ ThisPutSeen
    BY DEF IntentInv, PutInv
  <1>2. /\ page'.local = page.local /\ page'.base = page.base
        /\ page'.rev = page.rev /\ page'.editGen = page.editGen
        /\ page'.fail = page.fail /\ page'.park = page.park
        /\ page'.sends = page.sends
    BY DEF SameRecords
  <1>3. /\ srv' = srv /\ section' = section /\ strays' = strays
        /\ lastPeer' = lastPeer /\ origin' = origin
    OBVIOUS
  <1>4. /\ PageBounds(page)' /\ OldIntentNoted(page)' /\ PageYields(page)'
        /\ UnnotedSeen(page)' /\ NextBase(page)' = NextBase(page)
        /\ lastPeer' > 0 /\ srv'.rev = lastPeer' => ~HasSent(page, srv.val)'
        /\ ParkedNow(page)' = ParkedNow(page) /\ FailedNow(page)' = FailedNow(page)
    BY PageSound, RecordsKept
  <1>5. page.rev \in Nat BY <1>0, IntentNumbers
  <1>6. page'.rev >= page.rev /\ page'.rev \in Nat BY <1>2, <1>5
  <1>7. \A v \in Vals : HasSent(page, v)' => HasSent(page, v)
    BY <1>2 DEF HasSent
  <1>8. BasesBounded' /\ PutTaken' /\ NewsUnsent' /\ GenYields' /\ FlightYields'
    BY <1>2, <1>4, <1>6, <1>7, AsideKeeps
  <1>9. push'.at = "sent" => push' = push BY DEF PutAside
  <1>10. OldIntentKept' BY <1>1, <1>2, <1>3, <1>4 DEF OldIntentKept
  <1>11. PutInHand' BY <1>1, <1>2, <1>3, <1>4, <1>9 DEF PutInHand
  <1>12. UnnotedPut' BY <1>1, <1>2, <1>3, <1>4, <1>9 DEF UnnotedPut
  <1>13. ThisPutSeen'
    BY <1>1, <1>2, <1>3, <1>9 DEF ThisPutSeen, StraysUpTo
  <1>14. UnnotedFailure'
    <2>1. SUFFICES ASSUME origin.gen # page.editGen, FailedNow(page)
                   PROVE  /\ ~(push'.at = "sent" /\ wire'.out.kind = "lost") =>
                                StraysUpTo(page.fail.base)
                          /\ /\ ~(push'.at = "sent" /\ wire'.out.kind \in {"lost", "saved"})
                             /\ srv.rev > lastPeer
                             => lastPeer <= page.fail.base
                          /\ push'.at # "idle" /\ push'.epoch # page'.epoch =>
                                push'.at = "waiting" /\ page.local = page.base
      BY <1>2, <1>3, <1>4 DEF UnnotedFailure, StraysUpTo
    <2>2. /\ ~(push.at = "sent" /\ wire.out.kind = "lost") => StraysUpTo(page.fail.base)
          /\ /\ ~(push.at = "sent" /\ wire.out.kind \in {"lost", "saved"})
             /\ srv.rev > lastPeer
             => lastPeer <= page.fail.base
          /\ push.at # "idle" /\ push.epoch # page.epoch =>
                push.at = "waiting" /\ page.local = page.base
      BY <1>1, <2>1 DEF UnnotedFailure
    <2>3. push.at = "sent" => push'.at = "sent" /\ wire'.out = wire.out
      BY DEF PutAside
    <2> QED BY <2>2, <2>3
  <1> QED BY <1>4, <1>8, <1>10, <1>11, <1>12, <1>13, <1>14 DEF IntentInv, PutInv

LEMMA RecordsAlone ==
    /\ SameRecords(page, page)
    /\ page' = page => SameRecords(page', page)
    /\ \A q, r : SameRecords(q, r) /\ SameRecords(r, page) => SameRecords(q, page)
  BY DEF SameRecords

LEMMA TimerFiresIntent == ASSUME SyncInv, IntentInv, TimerFires PROVE IntentInv'
  <1>0. TypeOK /\ DiskFollows BY DEF SyncInv
  <1> DEFINE q == [page EXCEPT !.timer = FALSE]
  <1>1. /\ srv' = srv /\ section' = section /\ strays' = strays
        /\ lastPeer' = lastPeer /\ origin' = origin
        /\ wire' = wire /\ pull' = pull /\ chain' = chain
        /\ page.timer /\ page' = Called(q) /\ push' = PushAfterCall(page)
    BY DEF TimerFires, netVars, brokerVars
  <1>2. ViewsInOrder /\ FlushFirst BY DEF IntentInv, ViewInv
  <1>3. ~page.off BY <1>1, <1>2 DEF ViewsInOrder
  <1>4. /\ q \in PageRecord /\ SameRecords(q, page) /\ ~q.timer
        /\ q.off = page.off /\ q.epoch = page.epoch /\ q.sentGen = page.sentGen
    BY <1>0, SmallFields DEF PageRecord, SameRecords
  <1> HIDE DEF q
  <1>5. /\ SameRecords(page', page) /\ ~page'.timer
        /\ page'.off = page.off /\ page'.epoch = page.epoch
        /\ page'.sentGen = page.sentGen
    <2>1. SameButTimers(page', q) BY <1>1, <1>4, CalledDoes
    <2>2. SameRecords(page', q) /\ page'.timer = q.timer
      BY <1>1, <1>4, CalledKeeps
    <2> QED BY <1>4, <2>1, <2>2, RecordsAlone
            DEF SameButTimers, SameView, SameMarks
  <1>6. \/ push' = push
        \/ push.at = "idle" /\ push'.at = "waiting" /\ push'.epoch = page.epoch
    BY <1>0, <1>1, SmallFields, PushAfterCallDoes
  <1>7. section.who = "page" => push.at = "sent" BY <1>0 DEF DiskFollows
  <1>8. PutAside BY <1>1, <1>6, <1>7 DEF PutAside
  <1>9. Queued(page) BY <1>1 DEF Queued
  <1>10. ViewsInOrder'
    <2>1. push'.at = "sent" <=> push.at = "sent" BY <1>6
    <2> QED BY <1>1, <1>2, <1>3, <1>5, <2>1 DEF ViewsInOrder
  <1>11. page'.editGen = page.editGen BY <1>5 DEF SameRecords
  <1>12. ASSUME NEW x \in Epochs, chain[x] = "flush"
         PROVE  /\ push'.at = "sent" => push'.epoch < x
                /\ pull.at = "sent" => pull.epoch < x
                /\ page.editGen # origin.gen
                /\ pull.at = "sent" => page.editGen > page.sentGen
    BY <1>1, <1>2, <1>6, <1>12 DEF FlushFirst
  <1>13. FlushFirst' BY <1>1, <1>5, <1>11, <1>12 DEF FlushFirst
  <1>14. FlushOwes' BY <1>1, <1>11, <1>12 DEF FlushOwes
  <1>15. ViewInv' BY <1>10, <1>13, <1>14 DEF ViewInv
  <1> QED BY <1>1, <1>5, <1>6, <1>8, <1>9, <1>15, KeptSame

LEMMA PullPollsIntent == ASSUME SyncInv, IntentInv, PullPolls PROVE IntentInv'
  <1>0. TypeOK BY DEF SyncInv
  <1> DEFINE l == [NoPull EXCEPT !.at = "sent", !.epoch = page.epoch]
  <1>1. /\ srv' = srv /\ section' = section /\ strays' = strays
        /\ lastPeer' = lastPeer /\ origin' = origin
        /\ push' = push /\ page' = page /\ chain' = chain
        /\ ~page.off /\ wire = NoWire /\ push.at = "idle" /\ pull' = l
        /\ wire' = [NoWire EXCEPT !.at = "asked"]
        /\ \A x \in Epochs : chain[x] # "flush"
    BY DEF PullPolls, brokerVars, NextEvent, Waiting
  <1>2. l.at = "sent" /\ l.epoch = page.epoch BY DEF NoPull
  <1> HIDE DEF l
  <1>3. wire'.out = NoOut BY <1>1, WireBuilt
  <1>4. section.who # "page" BY <1>1, NothingSent
  <1>5. PutAside BY <1>1, <1>3, <1>4, NothingSaid DEF PutAside
  <1>6. ViewsInOrder BY DEF IntentInv, ViewInv
  <1>7. page.epoch \in Nat BY <1>0, IntentNumbers
  <1>8. ViewsInOrder' BY <1>1, <1>2, <1>6, <1>7 DEF ViewsInOrder
  <1>9. FlushFirst' /\ FlushOwes' BY <1>1 DEF FlushFirst, FlushOwes
  <1>10. ViewInv' BY <1>8, <1>9 DEF ViewInv
  <1>11. Queued(page)' \/ Owed(page)' => Queued(page) \/ Owed(page)
    BY <1>1 DEF Queued, Owed
  <1> QED BY <1>1, <1>5, <1>10, <1>11, RecordsAlone, KeptSame

\* Where no flush is due, the views only have to be in order.
LEMMA NoFlushDue ==
    ASSUME ViewsInOrder', \A x \in Epochs : chain'[x] # "flush" PROVE ViewInv'
  BY DEF ViewInv, FlushFirst, FlushOwes

LEMMA PullsAtRebuildIntent ==
    ASSUME SyncInv, IntentInv, NEW e \in Epochs, PullsAtRebuild(e)
    PROVE  IntentInv'
  <1>0. TypeOK BY DEF SyncInv
  <1>1. /\ srv' = srv /\ section' = section /\ strays' = strays
        /\ lastPeer' = lastPeer /\ origin' = origin
        /\ push' = push /\ page' = page /\ chain[e] = "pull"
    BY DEF PullsAtRebuild, brokerVars
  <1>2. ViewsInOrder /\ FlushFirst /\ FlushOwes BY DEF IntentInv, ViewInv
  <1>3. Queued(page)' = Queued(page) /\ Owed(page)' = Owed(page)
    BY <1>1 DEF Queued, Owed
  <1>4. chain \in [Epochs -> {"none", "flush", "pushing", "pull", "pulling", "done"}]
    BY <1>0 DEF TypeOK
  <1>5. page.epoch \in Nat /\ e \in Nat /\ \A x \in Epochs : x \in Nat
    BY <1>0, IntentNumbers, GenBounds
  <1>6. e <= page.epoch BY <1>1, <1>2, <1>5 DEF ViewsInOrder
  <1>7. \A x \in Epochs : chain[x] = "flush" => ~(e > x)
    BY <1>1, <1>2 DEF ViewsInOrder
  <1>8. CASE chain' = [chain EXCEPT ![e] = "done"] /\ pull' = pull /\ wire' = wire
    <2>1. \A x \in Epochs : chain'[x] = IF x = e THEN "done" ELSE chain[x]
      BY <1>4, <1>8
    <2>2. PutAside BY <1>1, <1>8 DEF PutAside
    <2>3. ViewsInOrder'
      <3>1. \A x, y \in Epochs :
                chain'[x] = "flush" /\ y > x => chain'[y] \in {"none", "flush"}
        BY <1>2, <1>7, <2>1 DEF ViewsInOrder
      <3>2. \A y \in Epochs : y > page.epoch => chain'[y] = "none"
        BY <1>2, <1>5, <1>6, <2>1 DEF ViewsInOrder
      <3> QED BY <1>1, <1>2, <1>8, <3>1, <3>2 DEF ViewsInOrder
    <2>4. FlushFirst' BY <1>1, <1>2, <1>8, <2>1 DEF FlushFirst
    <2>5. ParkedNow(page)' = ParkedNow(page) BY <1>1 DEF ParkedNow
    <2>6. FlushOwes' BY <1>1, <1>2, <1>3, <2>1, <2>5 DEF FlushOwes
    <2>7. ViewInv' BY <2>3, <2>4, <2>6 DEF ViewInv
    <2> QED BY <1>1, <1>3, <2>2, <2>7, RecordsAlone, KeptSame
  <1>9. CASE /\ ~page.off /\ page.epoch = e /\ wire = NoWire
             /\ pull' = [at |-> "sent", epoch |-> e, initial |-> TRUE]
             /\ wire' = [NoWire EXCEPT !.at = "asked"]
             /\ chain' = [chain EXCEPT ![e] = "pulling"]
    <2>1. \A x \in Epochs : chain'[x] = IF x = e THEN "pulling" ELSE chain[x]
      BY <1>4, <1>9
    <2>2. section.who # "page" /\ push.at # "sent" BY <1>9, NothingSent
    <2>3. wire'.out.kind = "none" BY <1>9, WireBuilt, NothingSaid
    <2>4. PutAside BY <1>1, <2>2, <2>3 DEF PutAside
    <2>5. pull'.at = "sent" /\ pull'.epoch = e BY <1>9
    <2>6. \A x \in Epochs : chain'[x] # "flush"
      BY <1>2, <1>5, <1>7, <1>9, <2>1 DEF ViewsInOrder
    <2>7. ViewsInOrder'
      <3>1. \A y \in Epochs : y > page.epoch => chain'[y] = "none"
        BY <1>2, <1>5, <1>6, <2>1 DEF ViewsInOrder
      <3> QED BY <1>1, <1>2, <1>5, <1>9, <2>5, <2>6, <3>1 DEF ViewsInOrder
    <2>8. ViewInv' BY <2>6, <2>7, NoFlushDue
    <2> QED BY <1>1, <1>3, <2>2, <2>4, <2>8, RecordsAlone, KeptSame
  <1> QED BY <1>8, <1>9 DEF PullsAtRebuild

LEMMA RebuildIntent == ASSUME SyncInv, IntentInv, Rebuild PROVE IntentInv'
  <1>0. TypeOK /\ PushKnown BY DEF SyncInv
  <1>1. /\ srv' = srv /\ section' = section /\ strays' = strays
        /\ lastPeer' = lastPeer /\ origin' = origin
        /\ wire' = wire /\ push' = push /\ pull' = pull
        /\ page.off /\ page.epoch < MaxEpoch
        /\ page' = [page EXCEPT !.off = FALSE, !.epoch = @ + 1]
        /\ chain' = [chain EXCEPT ![page'.epoch] = "flush"]
    BY DEF Rebuild, netVars, brokerVars
  <1>2. ViewsInOrder /\ FlushFirst /\ FlushOwes BY DEF IntentInv, ViewInv
  <1>3. /\ SameRecords(page', page) /\ page'.epoch = page.epoch + 1
        /\ ~page'.off /\ page'.timer = page.timer /\ page'.again = page.again
        /\ page'.sentGen = page.sentGen
    BY <1>0, <1>1, SmallFields DEF PageRecord, SameRecords
  <1>4. ~page.timer /\ ~page.again BY <1>1, <1>2 DEF ViewsInOrder
  <1>5. /\ chain \in [Epochs -> {"none", "flush", "pushing", "pull", "pulling", "done"}]
        /\ page.epoch \in Nat /\ page.epoch + 1 \in Epochs
        /\ push.epoch \in Nat /\ pull.epoch \in Nat
        /\ \A x \in Epochs : x \in Nat
    BY <1>0, <1>1, SmallFields, PageFields, GenBounds DEF TypeOK
  <1>6. /\ chain'[page.epoch + 1] = "flush"
        /\ \A x \in Epochs : x # page.epoch + 1 => chain'[x] = chain[x]
    BY <1>1, <1>3, <1>5
  <1>7. push.at # "idle" => push.epoch <= page.epoch /\ push.epoch # page.epoch
    BY <1>0, <1>1 DEF PushKnown
  <1>8. Queued(page)' = Queued(page) /\ Owed(page)' = Owed(page)
    BY <1>1, <1>3 DEF Queued, Owed, SameRecords
  <1>9. PutAside BY <1>1 DEF PutAside
  <1>10. ViewsInOrder'
    <2>1. \A y \in Epochs : y > page.epoch + 1 => chain'[y] = "none"
      BY <1>2, <1>5, <1>6 DEF ViewsInOrder
    <2>2. \A x, y \in Epochs :
              chain'[x] = "flush" /\ y > x => chain'[y] \in {"none", "flush"}
      BY <1>2, <1>5, <1>6 DEF ViewsInOrder
    <2>3. pull.at = "sent" => pull.epoch < page.epoch + 1
      BY <1>2, <1>5 DEF ViewsInOrder
    <2>4. pull.at = "sent" => pull.epoch <= page'.epoch /\ pull.epoch # page'.epoch
      BY <1>3, <1>5, <2>3
    <2> QED BY <1>1, <1>2, <1>3, <2>1, <2>2, <2>4 DEF ViewsInOrder
  <1>11. page'.editGen = page.editGen /\ ParkedNow(page)' = ParkedNow(page)
    BY <1>3 DEF SameRecords, ParkedNow
  <1>12. FlushFirst'
    <2>1. ASSUME NEW x \in Epochs, chain'[x] = "flush"
          PROVE  /\ push.at = "sent" => push.epoch < x
                 /\ pull.at = "sent" => pull.epoch < x
                 /\ pull.at = "sent" /\ push.at = "waiting" /\ push.epoch >= x =>
                        page.editGen > page.sentGen
      <3>1. CASE x = page.epoch + 1
        BY <1>2, <1>5, <1>7, <3>1 DEF ViewsInOrder
      <3>2. CASE x # page.epoch + 1 BY <1>2, <1>6, <2>1, <3>2 DEF FlushFirst
      <3> QED BY <3>1, <3>2
    <2> QED BY <1>1, <1>3, <1>4, <1>11, <2>1 DEF FlushFirst
  <1>13. FlushOwes'
    <2>1. SUFFICES ASSUME NEW x \in Epochs, chain'[x] = "flush",
                          page.editGen = origin.gen, ParkedNow(page),
                          push.at # "sent", Queued(page),
                          push.at = "waiting" => push.epoch >= x
                   PROVE  Owed(page)
      BY <1>1, <1>8, <1>11 DEF FlushOwes
    <2>2. CASE x = page.epoch + 1
      <3>1. push.at = "waiting"
        BY <1>0, <1>4, <2>1, SmallFields DEF Queued
      <3> QED BY <1>5, <1>7, <2>1, <2>2, <3>1
    <2>3. CASE x # page.epoch + 1 BY <1>2, <1>6, <2>1, <2>3 DEF FlushOwes
    <2> QED BY <2>2, <2>3
  <1>14. ViewInv' BY <1>10, <1>12, <1>13 DEF ViewInv
  <1>15. push.at = "sent" => push.epoch # page'.epoch BY <1>3, <1>5, <1>7
  <1> QED BY <1>1, <1>3, <1>7, <1>8, <1>9, <1>14, <1>15, KeptSame

-----------------------------------------------------------------------------
(* An edit, a flush, a teardown.                                           *)

LEMMA EditIntent == ASSUME SyncInv, IntentInv, NEW v \in Vals, Edit(v) PROVE IntentInv'
  <1>0. TypeOK /\ PushKnown BY DEF SyncInv
  <1> DEFINE q == [page EXCEPT !.local = v, !.editGen = @ + 1]
  <1>1. /\ srv' = srv /\ section' = section /\ strays' = strays
        /\ lastPeer' = lastPeer /\ origin' = origin
        /\ wire' = wire /\ push' = push /\ pull' = pull /\ chain' = chain
        /\ ~page.off /\ page.editGen < MaxGen /\ page' = Scheduled(q)
    BY DEF Edit, netVars, brokerVars
  <1>2. /\ PageBounds(page) /\ BasesBounded /\ PutTaken /\ NewsUnsent /\ GenYields
        /\ UnnotedFailure /\ PutInHand /\ ThisPutSeen /\ FlightYields
        /\ ViewsInOrder /\ FlushFirst
    BY DEF IntentInv, BasesBounded, PutInv, ViewInv
  <1>3. /\ q \in PageRecord /\ q.rev = page.rev
        /\ q.editGen = page.editGen + 1 /\ q.sentGen = page.sentGen
        /\ q.off = page.off /\ q.epoch = page.epoch
        /\ q.fail = page.fail /\ q.park = page.park /\ q.sends = page.sends
    BY <1>0, <1>1, SmallFields, GenBounds DEF PageRecord
  <1> HIDE DEF q
  <1>4. /\ page'.rev = page.rev /\ page'.editGen = page.editGen + 1
        /\ page'.sentGen = page.sentGen
        /\ page'.off = page.off /\ page'.epoch = page.epoch
        /\ page'.fail = page.fail /\ page'.park = page.park
        /\ page'.sends = page.sends
    <2>1. SameButTimers(page', q) /\ SameRecords(page', q)
      BY <1>1, <1>3, ScheduledDoes, ScheduledKeeps
    <2> QED BY <1>3, <2>1 DEF SameButTimers, SameView, SameMarks, SameRecords
  <1>5. /\ page.editGen \in Nat /\ page.sentGen \in Nat /\ page.park.gen \in Nat
        /\ push.gen \in Nat /\ origin.gen \in Nat /\ page.fail.gen \in Nat
        /\ page.rev \in Nat /\ page \in PageRecord
    BY <1>0, IntentNumbers
  <1>6. /\ page.park.gen # page'.editGen /\ page.fail.gen # page'.editGen
        /\ origin.gen # page'.editGen /\ origin.gen <= page'.editGen
        /\ page.fail.gen <= page'.editGen
        /\ push.at = "sent" => push.gen # page'.editGen
        /\ page'.editGen > page'.sentGen
    BY <1>0, <1>2, <1>4, <1>5 DEF PushKnown, PageBounds
  <1>7. ~ParkedNow(page)' /\ ~FailedNow(page)'
    BY <1>4, <1>6 DEF ParkedNow, FailedNow
  <1>8. NextBase(page)' = page.rev
    BY <1>4, <1>6 DEF NextBase, SendBase
  <1>9. PageBounds(page)'
    BY <1>1, <1>2, <1>4, <1>6 DEF PageBounds, StraysUpTo
  <1>10. BasesBounded' BY <1>1, <1>2, <1>4, <1>9 DEF BasesBounded
  <1>11. PutTaken' BY <1>1, <1>2 DEF PutTaken
  <1>12. NewsUnsent' BY <1>1, <1>2, <1>4 DEF NewsUnsent, HasSent
  <1>13. OldIntentNoted(page)' BY <1>7 DEF OldIntentNoted
  <1>14. OldIntentKept' BY <1>1, <1>6 DEF OldIntentKept
  <1>15. GenYields' BY <1>1, <1>2 DEF GenYields, PassedBy
  <1>16. PageYields(page)' BY <1>1, <1>6 DEF PageYields
  <1>17. UnnotedSeen(page)'
    BY <1>1, <1>2, <1>8 DEF UnnotedSeen, PageBounds, StraysUpTo
  <1>18. UnnotedFailure' BY <1>7 DEF UnnotedFailure
  <1>19. PutInHand'
    BY <1>1, <1>2, <1>4, <1>6, <1>7 DEF PutInHand
  <1>20. UnnotedPut' BY <1>1, <1>2, <1>8 DEF UnnotedPut, BasesBounded
  <1>21. ThisPutSeen' BY <1>1, <1>2, <1>4 DEF ThisPutSeen, StraysUpTo
  <1>22. FlightYields' BY <1>1, <1>6 DEF FlightYields
  <1>23. ViewsInOrder' BY <1>1, <1>2, <1>4 DEF ViewsInOrder
  <1>24. FlushFirst' BY <1>1, <1>2, <1>4, <1>6 DEF FlushFirst
  <1>25. FlushOwes' BY <1>7 DEF FlushOwes
  <1> QED BY <1>10, <1>11, <1>12, <1>13, <1>14, <1>15, <1>16, <1>17, <1>18,
             <1>19, <1>20, <1>21, <1>22, <1>23, <1>24, <1>25
          DEF IntentInv, PutInv, ViewInv

LEMMA FlushIntent ==
    ASSUME SyncInv, IntentInv, NEW e \in Epochs, Flush(e) PROVE IntentInv'
  <1>0. TypeOK /\ PushKnown BY DEF SyncInv
  <1> DEFINE flushes == page.park.on /\ Owed(page)
  <1>1. /\ srv' = srv /\ section' = section /\ strays' = strays
        /\ lastPeer' = lastPeer /\ origin' = origin
        /\ wire' = wire /\ pull' = pull /\ wire = NoWire /\ chain[e] = "flush"
        /\ ~FlushesBefore(e) /\ (push.at = "waiting" => push.epoch >= e)
        /\ page' = IF flushes THEN Called(page) ELSE [page EXCEPT !.park.on = FALSE]
        /\ push' = IF flushes THEN PushAfterCall(page) ELSE push
        /\ chain' = [chain EXCEPT ![e] =
                       IF flushes /\ push'.at # push.at THEN "pushing" ELSE "pull"]
    BY DEF Flush, netVars, brokerVars
  <1>2. push.at # "sent" /\ pull.at # "sent" /\ section.who # "page"
    BY <1>1, NothingSent
  <1>3. ViewsInOrder /\ FlushFirst /\ FlushOwes BY DEF IntentInv, ViewInv
  <1>4. /\ page \in PageRecord /\ page.epoch \in Nat
        /\ \A x \in Epochs : x \in Nat
        /\ chain \in [Epochs -> {"none", "flush", "pushing", "pull", "pulling", "done"}]
    BY <1>0, IntentNumbers, GenBounds DEF TypeOK
  <1>5. /\ \A x \in Epochs : x # e => chain'[x] = chain[x]
        /\ chain'[e] \in {"pushing", "pull"}
    BY <1>1, <1>4
  <1>6. e <= page.epoch BY <1>1, <1>3, <1>4 DEF ViewsInOrder
  <1>7. /\ \A x, y \in Epochs :
               chain'[x] = "flush" /\ y > x => chain'[y] \in {"none", "flush"}
        /\ \A y \in Epochs : y > page.epoch => chain'[y] = "none"
    <2>1. \A x \in Epochs : chain'[x] = "flush" => ~(e > x)
      BY <1>1, <1>4, <1>5 DEF FlushesBefore
    <2> QED BY <1>3, <1>4, <1>5, <1>6, <2>1 DEF ViewsInOrder
  <1> HIDE DEF flushes
  <1>8. CASE flushes
    <2>1. SameButTimers(page', page) /\ SameRecords(page', page)
          /\ page'.timer = page.timer
      BY <1>1, <1>4, <1>8, CalledDoes, CalledKeeps
    <2>2. page.off => page'.again = page.again
      BY <1>1, <1>4, <1>8, CalledKeeps
    <2>3. \/ push' = push
          \/ push.at = "idle" /\ push'.at = "waiting" /\ push'.epoch = page.epoch
      BY <1>0, <1>1, <1>8, SmallFields, PushAfterCallDoes
    <2>4. /\ page'.off = page.off /\ page'.epoch = page.epoch
          /\ page'.editGen = page.editGen /\ page'.sentGen = page.sentGen
          /\ page'.fail = page.fail
      BY <2>1 DEF SameButTimers, SameView, SameMarks
    <2>5. Owed(page) BY <1>8 DEF flushes
    <2>6. Owed(page)' BY <2>4, <2>5 DEF Owed
    <2>7. push'.at # "sent" BY <1>2, <2>3
    <2>8. PutAside BY <1>1, <1>2, <2>7 DEF PutAside
    <2>9. ViewsInOrder'
      BY <1>1, <1>2, <1>3, <1>7, <2>1, <2>2, <2>4, NothingSaid DEF ViewsInOrder
    <2>10. FlushFirst'
      BY <1>1, <1>2, <1>3, <1>5, <2>1, <2>4, <2>7 DEF FlushFirst
    <2>11. FlushOwes' BY <2>6 DEF FlushOwes
    <2>12. ViewInv' BY <2>9, <2>10, <2>11 DEF ViewInv
    <2> QED BY <1>1, <1>2, <2>1, <2>3, <2>4, <2>5, <2>7, <2>8, <2>12, KeptSame
  <1>9. CASE ~flushes
    <2> DEFINE k == [page.park EXCEPT !.on = FALSE]
    <2>1. /\ k.gen = page.park.gen /\ ~k.on /\ k.base = page.park.base
          /\ k \in ParkRecord
      BY <1>4, PageFields, ParkFields
    <2>2. page' = [page EXCEPT !.park = k] /\ push' = push BY <1>1, <1>9
    <2> HIDE DEF k
    <2>3. /\ page'.local = page.local /\ page'.base = page.base
          /\ page'.rev = page.rev /\ page'.editGen = page.editGen
          /\ page'.sentGen = page.sentGen /\ page'.fail = page.fail
          /\ page'.park = k /\ page'.sends = page.sends
          /\ page'.off = page.off /\ page'.epoch = page.epoch
          /\ page'.timer = page.timer /\ page'.again = page.again
          /\ page' \in PageRecord
      BY <1>4, <2>1, <2>2 DEF PageRecord
    <2>4. PageBounds(page) /\ OldIntentNoted(page) /\ OldIntentKept /\ PageYields(page)
          /\ UnnotedSeen(page) /\ UnnotedFailure
      BY DEF IntentInv, BasesBounded
    <2>5. Queued(page)' = Queued(page) /\ Owed(page)' = Owed(page)
      BY <2>2, <2>3 DEF Queued, Owed
    <2>6. ~ParkedNow(page)' /\ FailedNow(page)' = FailedNow(page)
      BY <2>1, <2>3 DEF ParkedNow, FailedNow
    <2>7. ~ParkedNow(page) => NextBase(page)' = NextBase(page)
      BY <2>1, <2>3 DEF NextBase, SendBase, ParkedNow
    <2>8. PageBounds(page)' BY <1>1, <2>1, <2>3, <2>4 DEF PageBounds, StraysUpTo
    <2>9. OldIntentNoted(page)'
      BY <1>1, <2>3, <2>4, <2>6 DEF OldIntentNoted
    <2>10. OldIntentKept'
      <3>1. ASSUME ParkedNow(page), page.editGen = origin.gen,
                   Queued(page) \/ Owed(page)
            PROVE  FALSE
        <4>1. page.park.on BY <3>1 DEF ParkedNow
        <4>2. ~Owed(page) /\ Queued(page) BY <1>9, <3>1, <4>1 DEF flushes
        <4> QED BY <1>1, <1>2, <1>3, <3>1, <4>2 DEF FlushOwes
      <3> QED BY <1>1, <2>3, <2>4, <2>5, <2>6, <3>1 DEF OldIntentKept
    <2>11. PageYields(page)'
      BY <1>1, <2>3, <2>4, <2>6 DEF PageYields, PassedBy, StraysBelow
    <2>12. UnnotedSeen(page)'
      <3>1. SUFFICES ASSUME origin.gen # page.editGen
                     PROVE  /\ StraysUpTo(NextBase(page))'
                            /\ srv.rev > lastPeer => lastPeer <= NextBase(page)'
        BY <1>1, <2>3 DEF UnnotedSeen
      <3>2. NextBase(page)' = NextBase(page)
        BY <2>4, <2>7, <3>1 DEF OldIntentNoted
      <3> QED BY <1>1, <2>4, <3>1, <3>2 DEF UnnotedSeen, StraysUpTo
    <2>13. UnnotedFailure'
      BY <1>1, <1>2, <2>2, <2>3, <2>4, <2>6 DEF UnnotedFailure, StraysUpTo
    <2>14. PutAside BY <1>1, <2>2 DEF PutAside
    <2>15. BasesBounded' /\ PutTaken' /\ NewsUnsent' /\ GenYields' /\ FlightYields'
      <3>1. \A v \in Vals : HasSent(page, v)' => HasSent(page, v)
        BY <2>3 DEF HasSent
      <3>2. lastPeer' > 0 /\ srv'.rev = lastPeer' => ~HasSent(page, srv.val)'
        BY <1>1, <2>3, PageSound DEF RecordsSound, HasSent
      <3>3. page'.rev \in Nat /\ page'.rev >= page.rev
        BY <2>3, RecordNumbers
      <3> QED BY <1>1, <2>3, <2>8, <2>14, <3>1, <3>2, <3>3, AsideKeeps
    <2>16. PutInHand' /\ UnnotedPut' /\ ThisPutSeen'
      BY <1>2, <2>2 DEF PutInHand, UnnotedPut, ThisPutSeen
    <2>17. ViewsInOrder'
      BY <1>1, <1>2, <1>3, <1>7, <2>3, NothingSaid DEF ViewsInOrder
    <2>18. FlushFirst'
      BY <1>1, <1>2, <1>3, <1>5, <2>2, <2>3 DEF FlushFirst
    <2>19. FlushOwes' BY <2>6 DEF FlushOwes
    <2> QED BY <2>9, <2>10, <2>11, <2>12, <2>13, <2>15, <2>16, <2>17, <2>18, <2>19
            DEF IntentInv, PutInv, ViewInv
  <1> QED BY <1>8, <1>9

LEMMA WireInUse ==
    ASSUME SyncInv, IntentInv, wire # NoWire PROVE push.at = "sent" \/ pull.at = "sent"
  <1>1. wire \in WireRecord /\ (wire.at # "answered" => wire.out = NoOut)
    BY DEF SyncInv, TypeOK, RepliesTrue
  <1>2. ASSUME wire.at = "none" PROVE FALSE
    <2>1. wire.out = NoOut BY <1>1, <1>2
    <2>2. wire = [at |-> "none", out |-> NoOut] BY <1>1, <1>2, <2>1 DEF WireRecord
    <2> QED BY <2>2 DEF NoWire
  <1> QED BY <1>2 DEF IntentInv, ViewInv, ViewsInOrder

\* The edit is parked on the base its next PUT would have named, which bounds
\* every PUT of it so far.
LEMMA TeardownIntent == ASSUME SyncInv, IntentInv, Teardown PROVE IntentInv'
  <1>0. TypeOK /\ PushKnown /\ RepliesTrue BY DEF SyncInv
  <1> DEFINE q == Parked(page)
             owes == (Owed(page) \/ push.at # "idle") /\ page.local # page.base
             nb == NextBase(page)
  <1>1. /\ srv' = srv /\ section' = section /\ strays' = strays
        /\ lastPeer' = lastPeer
        /\ wire' = wire /\ push' = push /\ pull' = pull /\ chain' = chain
        /\ NextEvent /\ ~page.off /\ page.epoch < MaxEpoch
        /\ page' = [q EXCEPT !.off = TRUE, !.epoch = @ + 1]
        /\ origin' = IF q.park.on THEN NotedOrigin(page, page.editGen, q.park.base)
                                  ELSE origin
    BY DEF Teardown, netVars, brokerVars
  <1>2. page \in PageRecord BY <1>0, SmallFields
  <1>3. /\ q \in PageRecord /\ SameText(q, page) /\ SameSeen(q, page)
        /\ SameMarks(q, page) /\ SameView(q, page) /\ q.fail = page.fail
    BY <1>2, ParkedDoes
  <1>4. /\ q.timer = FALSE /\ q.again = FALSE /\ q.sends = page.sends
        /\ \/ /\ owes /\ q.park.on /\ q.park.gen = page.editGen
              /\ q.park.base = nb
           \/ ~owes /\ ~q.park.on /\ q.park.gen = page.park.gen
              /\ q.park.base = page.park.base
    BY <1>2, ParkedParks DEF NextBase
  <1> HIDE DEF q
  <1>5. /\ page'.local = page.local /\ page'.base = page.base
        /\ page'.rev = page.rev /\ page'.editGen = page.editGen
        /\ page'.sentGen = page.sentGen /\ page'.fail = page.fail
        /\ page'.park = q.park /\ page'.sends = page.sends
        /\ page'.off /\ page'.epoch = page.epoch + 1
        /\ ~page'.timer /\ ~page'.again
    BY <1>1, <1>3, <1>4 DEF PageRecord, SameText, SameSeen, SameMarks, SameView
  <1>6. /\ lastPeer \in Nat /\ origin.gen \in Nat /\ origin.base \in Nat
        /\ page.editGen \in Nat /\ page.sentGen \in Nat /\ page.rev \in Nat
        /\ page.fail.gen \in Nat /\ page.fail.base \in Nat
        /\ page.park.gen \in Nat /\ page.park.base \in Nat
        /\ page.epoch \in Nat /\ push.epoch \in Nat /\ pull.epoch \in Nat
        /\ push.gen \in Nat /\ push.base \in Nat /\ srv.rev \in Nat
        /\ wire.out.rev \in Nat /\ nb \in Nat
        /\ \A st \in strays : st.base \in Nat
    BY <1>0, IntentNumbers
  <1>7. /\ PageBounds(page) /\ BasesBounded /\ PutTaken /\ NewsUnsent
        /\ OldIntentNoted(page) /\ OldIntentKept /\ GenYields /\ PageYields(page)
        /\ UnnotedSeen(page) /\ UnnotedFailure
        /\ PutInHand /\ UnnotedPut /\ ThisPutSeen /\ FlightYields
        /\ ViewsInOrder /\ FlushFirst /\ FlushOwes
    BY DEF IntentInv, BasesBounded, PutInv, ViewInv
  <1>8. /\ page.fail.base <= page.rev /\ page.park.base <= page.rev
        /\ origin.gen <= page.editGen /\ origin.base <= page.rev
        /\ page.fail.gen <= page.editGen /\ lastPeer <= srv.rev
        /\ StraysUpTo(page.rev) /\ (srv.rev > lastPeer => lastPeer <= page.rev)
    BY <1>7 DEF PageBounds, BasesBounded
  <1>9. /\ ParkedNow(page) => nb = page.park.base
        /\ ~ParkedNow(page) => nb = page.rev \/ (nb = page.fail.base /\ FailedNow(page))
        /\ ~ParkedNow(page) /\ FailedNow(page) /\ page.fail.thrown => nb = page.fail.base
    BY <1>2, NextBaseIs
  <1>10. nb <= page.rev BY <1>6, <1>8, <1>9
  <1>11. FailedNow(page)' = FailedNow(page) BY <1>5 DEF FailedNow
  <1>12. push.at # "idle" => push.epoch # page'.epoch
    BY <1>0, <1>5, <1>6 DEF PushKnown
  <1> HIDE DEF nb
  <1>13. PutTaken' BY <1>1, <1>7 DEF PutTaken
  <1>14. NewsUnsent' BY <1>1, <1>5, <1>7 DEF NewsUnsent, HasSent
  <1>15. ThisPutSeen' BY <1>1, <1>12 DEF ThisPutSeen
  <1>16. ViewsInOrder'
    <2>1. \A y \in Epochs : y > page'.epoch => y > page.epoch
      <3>1. \A y \in Epochs : y \in Nat BY GenBounds
      <3>2. page'.epoch = page.epoch + 1 BY <1>5
      <3> QED BY <1>6, <3>1, <3>2
    <2>2. pull.at = "sent" => pull.epoch <= page'.epoch /\ pull.epoch # page'.epoch
      BY <1>5, <1>6, <1>7 DEF ViewsInOrder
    <2>3. /\ wire.at # "none" => push.at = "sent" \/ pull.at = "sent"
          /\ \A y \in Epochs : y > page.epoch => chain[y] = "none"
          /\ \A x, y \in Epochs :
                chain[x] = "flush" /\ y > x => chain[y] \in {"none", "flush"}
      BY <1>7 DEF ViewsInOrder
    <2>4. \A y \in Epochs : y > page'.epoch => chain[y] = "none" BY <2>1, <2>3
    <2> QED BY <1>1, <1>5, <2>2, <2>3, <2>4 DEF ViewsInOrder
  <1>17. FlushFirst' BY <1>1, <1>5, <1>7 DEF FlushFirst
  <1>18. FlushOwes'
    <2>1. SUFFICES ASSUME NEW x \in Epochs, chain[x] = "flush",
                          push.at # "sent", Queued(page)',
                          push.at = "waiting" => push.epoch >= x
                   PROVE  Owed(page)'
      BY <1>1 DEF FlushOwes
    <2>2. push.at = "waiting" BY <1>0, <1>1, <1>5, <2>1, SmallFields DEF Queued
    <2>3. wire # NoWire BY <1>1, <2>2 DEF NextEvent, Waiting
    <2>4. pull.at = "sent" BY <2>1, <2>3, WireInUse
    <2>5. page.editGen > page.sentGen
      BY <1>7, <2>1, <2>2, <2>4 DEF FlushFirst
    <2> QED BY <1>5, <2>5 DEF Owed
  <1>19. CASE owes
    <2>1. /\ q.park.on /\ q.park.gen = page.editGen /\ q.park.base = nb
          /\ page.local # page.base
      BY <1>4, <1>19
    <2>2. ParkedNow(page)' /\ NextBase(page)' = nb
      BY <1>5, <2>1 DEF ParkedNow, NextBase, SendBase
    <2>3. /\ origin'.gen = page.editGen
          /\ origin.gen = page.editGen => origin' = origin
          /\ origin.gen # page.editGen => origin'.base = nb
      BY <1>1, <2>1 DEF NotedOrigin
    <2>4. PageBounds(page)'
      <3>1. origin'.base <= page.rev BY <1>8, <1>10, <2>3
      <3> QED BY <1>1, <1>5, <1>6, <1>8, <1>10, <2>1, <2>3, <3>1
              DEF PageBounds, StraysUpTo
    <2>5. BasesBounded' BY <1>1, <1>5, <1>7, <2>4 DEF BasesBounded
    <2>6. OldIntentNoted(page)' BY <1>5, <2>3 DEF OldIntentNoted
    <2>7. OldIntentKept' BY <2>2 DEF OldIntentKept
    <2>8. UnnotedSeen(page)' /\ UnnotedFailure' /\ UnnotedPut'
      BY <1>5, <2>3 DEF UnnotedSeen, UnnotedFailure, UnnotedPut
    <2>9. PutInHand'
      <3>1. push.at = "sent" /\ push.gen = page.editGen => push.base = nb
        BY <1>7 DEF PutInHand, nb
      <3> QED BY <1>1, <1>5, <1>7, <1>11, <1>12, <2>1, <2>2, <3>1 DEF PutInHand
    <2>10. ASSUME origin.gen # page.editGen
           PROVE  GenYields' /\ PageYields(page)' /\ FlightYields'
      <3>1. StraysUpTo(nb) /\ (srv.rev > lastPeer => lastPeer <= nb)
        BY <1>7, <2>10 DEF UnnotedSeen, nb
      <3>2. PassedBy' => lastPeer > nb BY <1>1, <2>3, <2>10 DEF PassedBy
      <3>3. ASSUME lastPeer > nb
            PROVE  /\ \A st \in strays : st.base < lastPeer
                   /\ section.who # "stray" /\ srv.rev = lastPeer
                   /\ push.at = "sent" => push.base < lastPeer
                   /\ FailedNow(page) => page.fail.base < lastPeer
                   /\ wire.out.kind = "saved" => wire.out.rev < lastPeer
        <4>1. srv.rev = lastPeer BY <1>6, <1>8, <3>1, <3>3
        <4>2. \A st \in strays : st.base < lastPeer
          BY <1>6, <3>1, <3>3 DEF StraysUpTo
        <4>3. section.who # "stray" BY <1>6, <3>1, <3>3, <4>1 DEF StraysUpTo
        <4>4. push.at = "sent" => push.base < lastPeer
          BY <1>6, <1>7, <2>10, <3>3 DEF UnnotedPut, nb
        <4>5. ~ParkedNow(page) BY <1>7, <2>10 DEF OldIntentNoted
        <4>6. FailedNow(page) => page.fail.base < lastPeer
          BY <1>6, <1>8, <1>9, <3>3, <4>5
        <4>7. wire.out.kind = "saved" => wire.out.rev < lastPeer
          <5>1. lastPeer > 0 BY <1>6, <3>3
          <5>2. wire.out.kind = "saved" => wire.out.rev <= srv.rev
            BY <1>0 DEF RepliesTrue
          <5>3. wire.out.kind = "saved" => wire.out.rev # lastPeer
            BY <1>7, <5>1 DEF NewsUnsent
          <5> QED BY <1>6, <4>1, <5>2, <5>3
        <4> QED BY <4>1, <4>2, <4>3, <4>4, <4>6, <4>7
      <3>4. GenYields' BY <1>1, <3>2, <3>3 DEF GenYields
      <3>5. PageYields(page)'
        BY <1>1, <1>5, <1>11, <2>1, <3>2, <3>3 DEF PageYields, StraysBelow
      <3>6. FlightYields' BY <1>1, <3>2, <3>3 DEF FlightYields
      <3> QED BY <3>4, <3>5, <3>6
    <2>11. ASSUME origin.gen = page.editGen
           PROVE  GenYields' /\ PageYields(page)' /\ FlightYields'
      <3>1. origin' = origin /\ (PassedBy' <=> PassedBy)
        BY <1>1, <2>3, <2>11 DEF PassedBy
      <3>2. GenYields' BY <1>1, <1>7, <3>1 DEF GenYields
      <3>3. FlightYields' BY <1>1, <1>5, <1>7, <3>1 DEF FlightYields
      <3>4. ASSUME PassedBy, page.local \notin Refused PROVE nb < lastPeer
        <4>1. Queued(page) \/ Owed(page) BY <1>19 DEF Queued
        <4>2. ParkedNow(page) \/ (FailedNow(page) /\ page.fail.thrown)
          BY <1>7, <2>1, <2>11, <3>4, <4>1 DEF OldIntentKept
        <4> QED BY <1>7, <1>9, <2>11, <3>4, <4>2 DEF PageYields
      <3>5. PageYields(page)'
        BY <1>1, <1>5, <1>7, <1>11, <2>1, <2>11, <3>1, <3>4
           DEF PageYields, StraysBelow
      <3> QED BY <3>2, <3>3, <3>5
    <2>12. GenYields' /\ PageYields(page)' /\ FlightYields' BY <2>10, <2>11
    <2> QED BY <1>13, <1>14, <1>15, <1>16, <1>17, <1>18, <2>5, <2>6, <2>7, <2>8,
               <2>9, <2>12
            DEF IntentInv, PutInv, ViewInv
  <1>20. CASE ~owes
    <2>1. /\ ~q.park.on /\ q.park.gen = page.park.gen
          /\ q.park.base = page.park.base /\ origin' = origin
      BY <1>1, <1>4, <1>20
    <2>2. ~ParkedNow(page)' BY <1>5, <2>1 DEF ParkedNow
    <2>3. push.at # "idle" => page.local = page.base BY <1>20
    <2>4. ~ParkedNow(page) => NextBase(page)' = nb
      BY <1>5, <2>1 DEF ParkedNow, NextBase, SendBase, nb
    <2>5. PageBounds(page)'
      BY <1>1, <1>5, <1>8, <2>1 DEF PageBounds, StraysUpTo
    <2>6. BasesBounded' BY <1>1, <1>5, <1>7, <2>5 DEF BasesBounded
    <2>7. OldIntentNoted(page)'
      BY <1>5, <1>7, <1>11, <2>1, <2>2 DEF OldIntentNoted
    <2>8. OldIntentKept'
      <3>1. ~(Queued(page)' \/ Owed(page)') \/ page.local = page.base
        BY <1>1, <1>5, <1>20 DEF Queued, Owed
      <3> QED BY <1>5, <3>1 DEF OldIntentKept
    <2>9. PassedBy' <=> PassedBy BY <1>1, <2>1 DEF PassedBy
    <2>10. GenYields' BY <1>1, <1>7, <2>1, <2>9 DEF GenYields
    <2>11. FlightYields' BY <1>1, <1>5, <1>7, <2>1, <2>9 DEF FlightYields
    <2>12. PageYields(page)'
      BY <1>1, <1>5, <1>7, <1>11, <2>1, <2>2, <2>9 DEF PageYields, StraysBelow
    <2>13. ASSUME origin.gen # page.editGen PROVE NextBase(page)' = nb
      BY <1>7, <2>4, <2>13 DEF OldIntentNoted
    <2>14. UnnotedSeen(page)'
      BY <1>1, <1>5, <1>7, <2>1, <2>13 DEF UnnotedSeen, StraysUpTo, nb
    <2>15. UnnotedPut' BY <1>1, <1>5, <1>7, <2>1, <2>13 DEF UnnotedPut, nb
    <2>16. PutInHand'
      <3>1. push.at = "sent" => push.gen # page.editGen BY <1>7, <2>3 DEF PutInHand
      <3> QED BY <1>1, <1>5, <1>7, <1>11, <1>12, <2>1, <3>1 DEF PutInHand
    <2>17. UnnotedFailure'
      <3>1. FailedNow(page) => push.at # "sent" BY <1>7, <2>3 DEF PutInHand
      <3>2. push.at \in {"idle", "waiting", "sent"} BY <1>0, SmallFields
      <3> QED BY <1>1, <1>5, <1>7, <1>11, <2>1, <2>3, <3>1, <3>2
              DEF UnnotedFailure, StraysUpTo
    <2> QED BY <1>13, <1>14, <1>15, <1>16, <1>17, <1>18, <2>6, <2>7, <2>8, <2>10,
               <2>11, <2>12, <2>14, <2>15, <2>16, <2>17
            DEF IntentInv, PutInv, ViewInv
  <1> QED BY <1>19, <1>20

-----------------------------------------------------------------------------
(* A PUT goes out.                                                         *)

LEMMA Unfailed ==
    ASSUME NEW q \in PageRecord, q.fail = NoFail PROVE ~FailedNow(q)
  <1>1. NoFail.gen = 0 BY DEF NoFail
  <1> QED BY <1>1 DEF FailedNow

LEMMA SettledSentMoves ==
    ASSUME SyncInv, IntentInv
    PROVE  LET q == SettledSent([page EXCEPT !.sentGen = page.editGen], page.editGen)
           IN /\ q \in PageRecord /\ Moves(q) /\ q.fail = NoFail /\ ~q.park.on
              /\ q.local = page.local /\ q.base = page.base /\ q.rev = page.rev
              /\ q.off = page.off /\ q.epoch = page.epoch /\ SameTimers(q, page)
  <1>0. TypeOK /\ PushKnown BY DEF SyncInv
  <1> DEFINE r == [page EXCEPT !.sentGen = page.editGen]
             q == SettledSent(r, page.editGen)
  <1>1. page \in PageRecord /\ page.editGen \in Gens /\ page.rev \in Nat
        /\ page.editGen \in Nat /\ page.fail.gen \in Nat /\ page.park.gen \in Nat
    BY <1>0, SmallFields, RecordNumbers
  <1>2. /\ r \in PageRecord /\ SameRecords(r, page) /\ r.off = page.off
        /\ r.epoch = page.epoch /\ SameTimers(r, page)
    BY <1>1 DEF PageRecord, SameRecords, SameTimers
  <1> HIDE DEF r
  <1>3. /\ q \in PageRecord /\ SameText(q, r) /\ SameSeen(q, r) /\ SameMarks(q, r)
        /\ SameView(q, r) /\ q.park.gen = r.park.gen
        /\ q.fail = IF r.fail.gen <= page.editGen THEN NoFail ELSE r.fail
        /\ q.park.on = (r.park.on /\ page.editGen < r.park.gen)
        /\ q.park.base = r.park.base /\ q.sends = r.sends /\ SameTimers(q, r)
    BY <1>1, <1>2, SettledSentDoes, SettledSentClears
  <1> HIDE DEF q
  <1>4. page.fail.gen <= page.editGen BY DEF IntentInv, BasesBounded, PageBounds
  <1>5. page.park.gen <= page.editGen BY <1>0 DEF PushKnown
  <1>6. /\ q.local = page.local /\ q.base = page.base /\ q.rev = page.rev
        /\ q.editGen = page.editGen /\ q.sends = page.sends
        /\ q.off = page.off /\ q.epoch = page.epoch /\ SameTimers(q, page)
        /\ q.park.gen = page.park.gen /\ q.park.base = page.park.base
        /\ r.fail = page.fail /\ r.park = page.park
    BY <1>2, <1>3 DEF SameText, SameSeen, SameMarks, SameView, SameTimers,
       SameRecords
  <1>7. q.fail = NoFail /\ ~q.park.on
    <2>1. q.fail = NoFail BY <1>3, <1>4, <1>6
    <2>2. ~(page.editGen < r.park.gen) BY <1>1, <1>5, <1>6
    <2> QED BY <1>3, <2>1, <2>2
  <1>8. Moves(q) BY <1>1, <1>6, <1>7 DEF Moves, HasSent
  <1> QED BY <1>3, <1>6, <1>7, <1>8 DEF q, r

\* A send of old intent is on the base it was parked or failed with.
LEMMA SendYields ==
    ASSUME SyncInv, IntentInv, page.local # page.base, page.local \notin Refused,
           Queued(page), PassedBy, page.editGen = origin.gen
    PROVE  NextBase(page) < lastPeer
  <1>1. ParkedNow(page) \/ (FailedNow(page) /\ page.fail.thrown)
    BY DEF IntentInv, OldIntentKept
  <1>2. /\ ParkedNow(page) => page.park.base < lastPeer
        /\ FailedNow(page) => page.fail.base < lastPeer
    BY DEF IntentInv, PageYields
  <1>3. page \in PageRecord BY SmallFields DEF SyncInv
  <1> QED BY <1>1, <1>2, <1>3, NextBaseIs

LEMMA PushSendsIntent == ASSUME SyncInv, IntentInv, PushSends PROVE IntentInv'
  <1>0. TypeOK /\ PushKnown /\ RepliesTrue BY DEF SyncInv
  <1>1. /\ srv' = srv /\ section' = section /\ strays' = strays
        /\ origin' = origin /\ pull' = pull
        /\ wire = NoWire /\ push.at = "waiting" /\ ~FlushesBefore(push.epoch + 1)
        /\ lastPeer' = IF /\ wire' # wire /\ lastPeer = srv.rev
                          /\ page.local = srv.val
                         THEN 0 ELSE lastPeer
    BY DEF PushSends
  <1>2. section.who # "page" /\ pull.at # "sent" BY <1>1, NothingSent
  <1>3. ViewsInOrder /\ FlushFirst /\ FlushOwes BY DEF IntentInv, ViewInv
  <1>4. /\ page \in PageRecord /\ page.epoch \in Nat /\ push.epoch \in Nat
        /\ page.rev \in Nat
        /\ \A x \in Epochs : x \in Nat
    BY <1>0, IntentNumbers, GenBounds
  <1>5. \A x \in Epochs : chain[x] = "flush" => push.epoch < x
    BY <1>1, <1>4 DEF FlushesBefore
  <1>6. push.epoch <= page.epoch BY <1>0, <1>1 DEF PushKnown
  <1>7. \A x \in Epochs : chain[x] = "flush" => push.epoch # page.epoch
    BY <1>3, <1>4, <1>5 DEF ViewsInOrder
  <1>8. Queued(page) BY <1>1 DEF Queued
  \* With nothing sent: the push is over.
  <1>10. ASSUME NEW p \in PageRecord, Finished(p), wire' = wire,
                p.off = page.off, p.epoch = page.epoch, SameTimers(p, page),
                p.editGen = page.editGen,
                page.off \/ ~p.park.on \/ ~(p.park.gen = p.editGen)
         PROVE  /\ ViewInv' /\ PutAside /\ push'.at = "idle"
                /\ SameRecords(page', p) /\ lastPeer' = lastPeer
    <2>1. /\ push'.at = "idle" /\ SameRecords(page', p) /\ ~page'.again
          /\ page'.off = p.off /\ page'.epoch = p.epoch
          /\ page'.sentGen = p.sentGen
          /\ page'.timer = p.timer \/ (push.epoch = p.epoch /\ ~p.off)
          /\ \A x \in Epochs :
                chain'[x] = chain[x] \/ (chain[x] = "pushing" /\ chain'[x] = "pull")
      BY <1>0, <1>10, FinishedKeeps
    <2>2. /\ page'.off = page.off /\ page'.epoch = page.epoch
          /\ page'.editGen = page.editGen
          /\ page'.timer = page.timer \/ (push.epoch = page.epoch /\ ~page.off)
      BY <1>10, <2>1 DEF SameTimers, SameRecords
    <2>3. \A x \in Epochs : chain'[x] = "flush" => chain[x] = "flush"
      BY <2>1
    <2>4. ViewsInOrder'
      <3>1. wire'.at = "none" BY <1>1, <1>10, NothingSaid
      <3>2. \A y \in Epochs : y > page.epoch => chain'[y] = "none"
        BY <1>3, <2>1 DEF ViewsInOrder
      <3>3. \A x, y \in Epochs :
                chain'[x] = "flush" /\ y > x => chain'[y] \in {"none", "flush"}
        BY <1>3, <2>1, <2>3 DEF ViewsInOrder
      <3>4. page'.off => ~page'.timer /\ ~page'.again
        BY <1>3, <2>1, <2>2 DEF ViewsInOrder
      <3> QED BY <1>1, <1>2, <2>2, <3>1, <3>2, <3>3, <3>4 DEF ViewsInOrder
    <2>5. FlushFirst'
      <3>1. ASSUME NEW x \in Epochs, chain'[x] = "flush"
            PROVE  page.editGen = origin.gen => ~page'.timer
        BY <1>3, <1>7, <2>2, <2>3, <3>1 DEF FlushFirst
      <3> QED BY <1>1, <1>2, <2>1, <2>2, <3>1 DEF FlushFirst
    <2>6. FlushOwes'
      <3>1. ASSUME NEW x \in Epochs, chain'[x] = "flush",
                   page.editGen = origin.gen
            PROVE  ~Queued(page)'
        BY <1>3, <1>7, <2>1, <2>2, <2>3, <3>1 DEF FlushFirst, Queued
      <3> QED BY <1>1, <2>2, <3>1 DEF FlushOwes
    <2>7. ViewInv' BY <2>4, <2>5, <2>6 DEF ViewInv
    <2>8. PutAside BY <1>1, <1>2, <1>10, <2>1 DEF PutAside
    <2> QED BY <1>1, <1>10, <2>1, <2>7, <2>8
  <1>11. CASE page.off
    <2>1. Finished(page) /\ wire' = wire BY <1>11 DEF PushSends
    <2>2. SameTimers(page, page) BY DEF SameTimers
    <2>3. /\ ViewInv' /\ PutAside /\ push'.at = "idle"
          /\ SameRecords(page', page) /\ lastPeer' = lastPeer
      BY <1>4, <1>10, <1>11, <2>1, <2>2
    <2> QED BY <1>1, <1>8, <2>3, KeptSame
  <1>12. CASE ~page.off /\ page.local = page.base
    <2> DEFINE q == SettledSent([page EXCEPT !.sentGen = page.editGen], page.editGen)
    <2>1. Finished(q) /\ wire' = wire BY <1>12 DEF PushSends
    <2>2. /\ q \in PageRecord /\ Moves(q) /\ q.fail = NoFail /\ ~q.park.on
          /\ q.local = page.local /\ q.base = page.base /\ q.rev = page.rev
          /\ q.off = page.off /\ q.epoch = page.epoch /\ SameTimers(q, page)
      BY SettledSentMoves
    <2> HIDE DEF q
    <2>3. q.editGen = page.editGen BY <2>2 DEF Moves
    <2>4. /\ ViewInv' /\ PutAside /\ push'.at = "idle"
          /\ SameRecords(page', q) /\ lastPeer' = lastPeer
      BY <1>10, <2>1, <2>2, <2>3
    <2>5. ~FailedNow(q) /\ ~ParkedNow(q) BY <2>2, Unfailed DEF ParkedNow
    <2>6. RecordsSound(q) BY <2>2, <2>5, MovesSound
    <2>7. /\ PageBounds(page)' /\ OldIntentNoted(page)' /\ PageYields(page)'
          /\ UnnotedSeen(page)'
          /\ lastPeer' > 0 /\ srv'.rev = lastPeer' => ~HasSent(page, srv.val)'
          /\ FailedNow(page)' = FailedNow(q)
      BY <1>1, <2>4, <2>6, RecordsKept
    <2>8. \A v \in Vals : HasSent(page, v)' => HasSent(page, v)
      BY <2>2, <2>4 DEF Moves, SameRecords, HasSent
    <2>9. /\ page'.rev = page.rev /\ page'.editGen = page.editGen
          /\ page'.local = page'.base
      BY <1>12, <2>2, <2>3, <2>4 DEF SameRecords
    <2>10. page'.rev \in Nat /\ page'.rev >= page.rev BY <1>4, <2>9
    <2>11. BasesBounded' /\ PutTaken' /\ NewsUnsent' /\ GenYields' /\ FlightYields'
      BY <1>1, <2>4, <2>7, <2>8, <2>9, <2>10, AsideKeeps
    <2>12. OldIntentKept' BY <2>9 DEF OldIntentKept
    <2>13. UnnotedFailure' BY <2>5, <2>7 DEF UnnotedFailure
    <2>14. PutInHand' /\ UnnotedPut' /\ ThisPutSeen'
      BY <2>4 DEF PutInHand, UnnotedPut, ThisPutSeen
    <2> QED BY <2>4, <2>7, <2>11, <2>12, <2>13, <2>14 DEF IntentInv, PutInv
  <1>13. CASE ~page.off /\ page.local # page.base
    <2> DEFINE b == NextBase(page)
               s == [page.sends EXCEPT ![page.editGen] = page.local]
    <2>1. /\ push' = [push EXCEPT !.at = "sent", !.gen = page.editGen,
                                  !.val = page.local, !.base = b]
          /\ page' = [page EXCEPT !.sentGen = page.editGen, !.sends = s]
          /\ wire' = [NoWire EXCEPT !.at = "asked"]
          /\ chain' = chain
      BY <1>13 DEF PushSends, NextBase
    <2>2. /\ wire'.at = "asked" /\ wire'.out = NoOut /\ wire'.out.kind = "none"
          /\ wire' # wire
      BY <1>1, <2>1, WireBuilt, NothingSaid
    <2>3. b \in Nat BY <1>0, IntentNumbers
    <2>4. page.local \in Vals /\ page.editGen \in Gens /\ page.editGen \in Nat
      BY <1>4, RecordNumbers
    <2>5. /\ s \in [Gens -> Vals \cup {NoVal}]
          /\ \A g \in Gens : s[g] = page.sends[g] \/ s[g] = page.local
      BY <1>4, <2>4, PageFields
    <2> HIDE DEF b, s
    <2>6. /\ push'.at = "sent" /\ push'.gen = page.editGen
          /\ push'.val = page.local /\ push'.base = b
          /\ push'.epoch = push.epoch
      BY <1>0, <2>1, SmallFields DEF PushRecord
    <2>7. /\ page'.local = page.local /\ page'.base = page.base
          /\ page'.rev = page.rev /\ page'.editGen = page.editGen
          /\ page'.fail = page.fail /\ page'.park = page.park
          /\ page'.sends = s /\ page'.off = page.off /\ page'.epoch = page.epoch
          /\ page'.timer = page.timer /\ page'.again = page.again
      BY <1>4, <2>1, <2>4, <2>5 DEF PageRecord
    <2>8. /\ lastPeer \in Nat /\ origin.base \in Nat /\ srv.rev \in Nat
          /\ page.fail.base \in Nat /\ page.park.base \in Nat
          /\ \A st \in strays : st.base \in Nat
      BY <1>0, IntentNumbers
    <2>9. \/ lastPeer' = lastPeer
             /\ ~(lastPeer = srv.rev /\ page.local = srv.val)
          \/ lastPeer' = 0
      BY <1>1, <2>2
    <2>10. /\ PageBounds(page) /\ BasesBounded /\ PutTaken /\ NewsUnsent
           /\ OldIntentNoted(page) /\ OldIntentKept /\ GenYields /\ PageYields(page)
           /\ UnnotedSeen(page) /\ UnnotedFailure
      BY DEF IntentInv, BasesBounded
    <2>11. /\ NextBase(page)' = b
           /\ ParkedNow(page)' = ParkedNow(page) /\ FailedNow(page)' = FailedNow(page)
      BY <2>7 DEF NextBase, SendBase, ParkedNow, FailedNow, b
    <2>12. PassedBy' => PassedBy /\ lastPeer' = lastPeer
      BY <1>1, <2>8, <2>9 DEF PassedBy
    <2>13. b <= page.rev
      <3>1. b \in {page.rev, page.park.base, page.fail.base}
        BY <1>4, NextBaseIs DEF b
      <3> QED BY <1>4, <2>8, <2>10, <3>1 DEF PageBounds
    <2>14. srv'.rev > lastPeer' => lastPeer' = 0 \/ srv.rev > lastPeer
      BY <1>1, <2>9
    <2>15. PageBounds(page)'
      <3>1. srv'.rev > lastPeer' => lastPeer' <= page.rev
        BY <1>4, <2>9, <2>10, <2>14 DEF PageBounds
      <3> QED BY <1>1, <2>7, <2>10, <3>1 DEF PageBounds, StraysUpTo
    <2>16. BasesBounded'
      <3>1. lastPeer' <= srv'.rev BY <1>1, <2>8, <2>9, <2>10 DEF BasesBounded
      <3> QED BY <2>6, <2>7, <2>13, <2>15, <3>1 DEF BasesBounded
    <2>17. PutTaken' BY <1>1, <1>2, <2>2 DEF PutTaken
    <2>18. NewsUnsent'
      <3>1. SUFFICES ASSUME lastPeer' > 0, srv.rev = lastPeer'
                     PROVE  ~HasSent(page, srv.val)'
        BY <1>1, <2>2 DEF NewsUnsent, HasSent
      <3>2. lastPeer' = lastPeer /\ page.local # srv.val BY <2>9, <3>1
      <3>3. ~HasSent(page, srv.val) BY <2>10, <3>1, <3>2 DEF NewsUnsent
      <3> QED BY <1>1, <2>5, <2>7, <3>2, <3>3 DEF HasSent
    <2>19. OldIntentNoted(page)' BY <1>1, <2>7, <2>10, <2>11 DEF OldIntentNoted
    <2>20. OldIntentKept'
      BY <1>1, <1>8, <2>7, <2>10, <2>11 DEF OldIntentKept
    <2>21. ASSUME PassedBy, page.editGen = origin.gen, page.local \notin Refused
           PROVE  b < lastPeer
      BY <1>8, <1>13, <2>21, SendYields DEF b
    <2>22. GenYields'
      BY <1>1, <2>6, <2>10, <2>12, <2>21 DEF GenYields
    <2>23. PageYields(page)'
      BY <1>1, <2>7, <2>10, <2>11, <2>12 DEF PageYields, StraysBelow
    <2>24. FlightYields'
      BY <1>1, <2>2, <2>6, <2>7, <2>12, <2>21 DEF FlightYields
    <2>25. UnnotedSeen(page)'
      <3>1. SUFFICES ASSUME origin.gen # page.editGen
                     PROVE  /\ \A st \in strays' : st.base <= b
                            /\ section'.who = "stray" => srv'.rev <= b
                            /\ srv'.rev > lastPeer' => lastPeer' <= b
        BY <1>1, <2>7, <2>11 DEF UnnotedSeen, StraysUpTo
      <3>2. StraysUpTo(b) /\ (srv.rev > lastPeer => lastPeer <= b)
        BY <2>10, <3>1 DEF UnnotedSeen, b
      <3>3. srv'.rev > lastPeer' => lastPeer' <= b
        BY <2>3, <2>9, <2>14, <3>2
      <3>4. \A st \in strays' : st.base <= b BY <1>1, <3>2 DEF StraysUpTo
      <3>5. section'.who = "stray" => srv'.rev <= b
        BY <1>1, <3>2 DEF StraysUpTo
      <3> QED BY <3>3, <3>4, <3>5
    <2>26. UnnotedFailure'
      <3>1. SUFFICES ASSUME origin.gen # page.editGen, FailedNow(page)
                     PROVE  /\ StraysUpTo(page.fail.base)
                            /\ srv'.rev > lastPeer' => lastPeer' <= page.fail.base
                            /\ push.epoch = page.epoch
        BY <1>1, <2>2, <2>6, <2>7, <2>11 DEF UnnotedFailure, StraysUpTo
      <3>2. /\ StraysUpTo(page.fail.base)
            /\ srv.rev > lastPeer => lastPeer <= page.fail.base
            /\ push.epoch # page.epoch => page.local = page.base
        BY <1>1, <2>10, <3>1 DEF UnnotedFailure
      <3>3. srv'.rev > lastPeer' => lastPeer' <= page.fail.base
        BY <2>8, <2>9, <2>14, <3>2
      <3> QED BY <1>13, <3>2, <3>3
    <2>27. PutInHand'
      <3>1. origin.gen <= page.editGen BY <2>10 DEF PageBounds
      <3> QED BY <1>1, <1>13, <2>6, <2>7, <2>11, <3>1 DEF PutInHand
    <2>28. UnnotedPut' BY <2>3, <2>6, <2>11 DEF UnnotedPut
    <2>29. ThisPutSeen'
      <3>1. SUFFICES ASSUME page.editGen # origin.gen PROVE StraysUpTo(b)
        BY <1>1, <2>6 DEF ThisPutSeen, StraysUpTo
      <3> QED BY <2>10, <3>1 DEF UnnotedSeen, b
    <2>30. ViewsInOrder' BY <1>1, <1>3, <2>1, <2>6, <2>7 DEF ViewsInOrder
    <2>31. FlushFirst'
      BY <1>1, <1>2, <1>3, <1>5, <2>1, <2>6, <2>7 DEF FlushFirst
    <2>32. FlushOwes' BY <2>6 DEF FlushOwes
    <2> QED BY <2>16, <2>17, <2>18, <2>19, <2>20, <2>22, <2>23, <2>24, <2>25,
               <2>26, <2>27, <2>28, <2>29, <2>30, <2>31, <2>32
            DEF IntentInv, PutInv, ViewInv
  <1> QED BY <1>11, <1>12, <1>13

-----------------------------------------------------------------------------
(* A pull's answer.                                                        *)

LEMMA MovesSame ==
    ASSUME NEW q, NEW x, SameRecords(q, x), Moves(x) PROVE Moves(q)
  BY DEF Moves, SameRecords, HasSent, ParkedNow, FailedNow

LEMMA MovesCleared ==
    ASSUME NEW x, Moves(x), NEW q, q.fail = NoFail, ~q.park.on,
           q.park.gen = x.park.gen, q.park.base = x.park.base, q.rev = x.rev,
           q.editGen = x.editGen, q.sends = x.sends \/ q.sends = NoSends
    PROVE  Moves(q)
  <1>1. NoFail.gen = 0 BY DEF NoFail
  <1>2. ~ParkedNow(q) /\ ~FailedNow(q) BY <1>1 DEF ParkedNow, FailedNow
  <1>3. \A v \in Vals : HasSent(q, v) => HasSent(x, v)
    BY NothingSaid DEF HasSent, NoSends
  <1> QED BY <1>2, <1>3 DEF Moves

\* The broker shows this page's own write: bases move up to its revision, which
\* is not that of a peer's news.
LEMMA OwnWriteMoves ==
    ASSUME SyncInv, IntentInv, wire.out.kind \in {"state", "conflict"},
           NEW p \in PageRecord, p.local = page.local, p.rev = page.rev,
           p.editGen = page.editGen, p.sends = page.sends,
           p.fail = page.fail \/ p.fail = NoFail,
           p.park.gen = page.park.gen, p.park.base = page.park.base,
           p.park.on => page.park.on
    PROVE  LET u == SawOwnWrite(p, wire.out.val, wire.out.rev)
               r == [u EXCEPT !.rev = wire.out.rev]
           IN /\ r \in PageRecord /\ Moves(r) /\ r.rev = wire.out.rev
              /\ SameText(r, p) /\ SameMarks(r, p) /\ SameView(r, p)
              /\ SameTimers(r, p) /\ r.sends = page.sends
              /\ r.park.on = p.park.on /\ r.park.gen = p.park.gen
              /\ r.fail = NoFail <=> p.fail = NoFail
              /\ r.fail.gen = p.fail.gen /\ r.fail.thrown = p.fail.thrown
  <1>0. TypeOK /\ RepliesTrue BY DEF SyncInv
  <1> DEFINE val == wire.out.val
             rev == wire.out.rev
             u == SawOwnWrite(p, val, rev)
             r == [u EXCEPT !.rev = rev]
  <1>1. /\ rev \in Nat /\ val \in Vals /\ page.rev <= rev /\ rev <= srv.rev
        /\ page.rev \in Nat /\ srv.rev \in Nat /\ lastPeer \in Nat
        /\ origin.base \in Nat
        /\ page.fail.base \in Nat /\ page.park.base \in Nat
    BY <1>0, IntentNumbers DEF RepliesTrue
  <1>2. /\ u \in PageRecord /\ SameText(u, p) /\ SameMarks(u, p) /\ SameView(u, p)
        /\ u.sends = p.sends /\ u.park.gen = p.park.gen /\ u.park.on = p.park.on
        /\ u.fail = NoFail <=> p.fail = NoFail
    BY <1>1, SawOwnWriteDoes
  <1>3. /\ u.fail.gen = p.fail.gen /\ u.fail.thrown = p.fail.thrown
        /\ u.fail.base = p.fail.base
           \/ (u.fail.base = rev /\ FromParent(p, p.fail.gen, val))
        /\ u.park.base = p.park.base
           \/ (u.park.base = rev /\ FromParent(p, p.park.gen, val))
        /\ SameTimers(u, p)
    BY <1>1, SawOwnWriteMoves
  <1> HIDE DEF u, val, rev
  <1>4. /\ r \in PageRecord /\ r.rev = rev /\ r.fail = u.fail /\ r.park = u.park
        /\ r.sends = u.sends
        /\ SameText(r, p) /\ SameMarks(r, p) /\ SameView(r, p) /\ SameTimers(r, p)
    BY <1>1, <1>2, <1>3
       DEF PageRecord, SameText, SameMarks, SameView, SameTimers
  <1> HIDE DEF r
  <1>5. ASSUME NEW g, FromParent(p, g, val) PROVE HasSent(page, val)
    BY <1>5 DEF FromParent, HasSent
  <1>6. ASSUME HasSent(page, val), PassedBy, page.editGen = origin.gen
        PROVE  rev < lastPeer
    <2>1. srv.rev = lastPeer BY <1>6 DEF IntentInv, PageYields
    <2>2. lastPeer > 0 BY <1>1, <1>6 DEF PassedBy
    <2>3. rev # lastPeer BY <1>6, <2>2 DEF IntentInv, NewsUnsent, val, rev
    <2> QED BY <1>1, <2>1, <2>3
  <1>7. page.fail.base <= page.rev /\ page.park.base <= page.rev
    BY DEF IntentInv, BasesBounded, PageBounds
  <1>8. ASSUME NEW b \in Nat, b <= page.rev, NEW c,
               c = b \/ (c = rev /\ HasSent(page, val))
        PROVE  Rises(b, c, r.rev)
    <2>1. CASE c = b BY <2>1 DEF Rises
    <2>2. CASE c = rev /\ HasSent(page, val)
      <3>1. b <= c /\ c <= r.rev BY <1>1, <1>4, <1>8, <2>2
      <3> QED BY <1>6, <2>2, <3>1 DEF Rises
    <2> QED BY <1>8, <2>1, <2>2
  <1>9. \/ r.fail = NoFail
        \/ /\ r.fail.gen = page.fail.gen /\ r.fail.thrown = page.fail.thrown
           /\ Rises(page.fail.base, r.fail.base, r.rev)
    <2>1. SUFFICES ASSUME r.fail # NoFail
                   PROVE  /\ r.fail.gen = page.fail.gen
                          /\ r.fail.thrown = page.fail.thrown
                          /\ Rises(page.fail.base, r.fail.base, r.rev)
      OBVIOUS
    <2>2. p.fail = page.fail BY <1>2, <1>4, <2>1
    <2>3. r.fail.base = page.fail.base \/ (r.fail.base = rev /\ HasSent(page, val))
      BY <1>3, <1>4, <1>5, <2>2
    <2>4. Rises(page.fail.base, r.fail.base, r.rev) BY <1>1, <1>7, <1>8, <2>3
    <2> QED BY <1>3, <1>4, <2>2, <2>4
  <1>10. Rises(page.park.base, r.park.base, r.rev)
    <2>1. r.park.base = page.park.base \/ (r.park.base = rev /\ HasSent(page, val))
      BY <1>3, <1>4, <1>5
    <2> QED BY <1>1, <1>7, <1>8, <2>1
  <1>11. \A v \in Vals : HasSent(r, v) => HasSent(page, v)
    BY <1>2, <1>4 DEF HasSent
  <1>12. Moves(r)
    BY <1>1, <1>2, <1>4, <1>9, <1>10, <1>11 DEF Moves, SameText, SameMarks
  <1>13. /\ r.park.on = p.park.on /\ r.park.gen = p.park.gen
         /\ r.fail = NoFail <=> p.fail = NoFail
         /\ r.fail.gen = p.fail.gen /\ r.fail.thrown = p.fail.thrown
         /\ r.sends = page.sends
    BY <1>2, <1>3, <1>4
  <1> QED BY <1>4, <1>12, <1>13 DEF r, u, val, rev

\* What q still means, the page meant: its marks of old intent stay.
IntentStays(q) ==
    q.local # q.base =>
        /\ q.local = page.local /\ q.base = page.base
        /\ q.park.on = page.park.on /\ q.park.gen = page.park.gen
        /\ q.fail.gen = page.fail.gen /\ q.fail.thrown = page.fail.thrown
        /\ Owed(q) \/ q.timer \/ q.again => Owed(page) \/ page.timer \/ page.again

LEMMA PullMoves ==
    ASSUME SyncInv, IntentInv, pull.at = "sent", wire.out.kind = "state",
           NEW q \in AfterPull(page, wire.out)
    PROVE  Moves(q) /\ IntentStays(q)
  <1>0. TypeOK BY DEF SyncInv
  <1> DEFINE out == wire.out
             p == IF Owed(page) /\ page.local = page.base THEN SettledAll(page)
                                                          ELSE page
             u == SawOwnWrite(p, out.val, out.rev)
             r == [u EXCEPT !.rev = out.rev]
  <1>1. page \in PageRecord /\ out.val \in Vals
    BY <1>0, SmallFields DEF SyncInv, RepliesTrue
  <1>2. /\ p \in PageRecord /\ p.local = page.local /\ p.base = page.base
        /\ p.rev = page.rev /\ p.editGen = page.editGen /\ p.sends = page.sends
        /\ p.fail = page.fail \/ p.fail = NoFail
        /\ p.park.gen = page.park.gen /\ p.park.base = page.park.base
        /\ p.park.on => page.park.on
        /\ SameTimers(p, page)
        /\ p.local # p.base => p = page
    <2>1. CASE Owed(page) /\ page.local = page.base
      <3>1. p = SettledAll(page) BY <2>1
      <3> HIDE DEF p
      <3>2. /\ p \in PageRecord /\ SameText(p, page) /\ SameSeen(p, page)
            /\ p.editGen = page.editGen /\ p.fail = NoFail /\ ~p.park.on
            /\ p.park.gen = page.park.gen /\ p.sends = page.sends
            /\ p.park.base = page.park.base /\ SameTimers(p, page)
        BY <1>1, <3>1, SettledAllDoes, SettledAllClears
      <3> QED BY <2>1, <3>2 DEF SameText, SameSeen
    <2>2. CASE ~(Owed(page) /\ page.local = page.base)
      <3>1. p = page BY <2>2
      <3> HIDE DEF p
      <3> QED BY <1>1, <3>1 DEF SameTimers
    <2> QED BY <2>1, <2>2
  <1> HIDE DEF p
  <1>3. /\ r \in PageRecord /\ Moves(r) /\ r.rev = out.rev
        /\ SameText(r, p) /\ SameMarks(r, p) /\ SameView(r, p)
        /\ SameTimers(r, p) /\ r.sends = page.sends
        /\ r.park.on = p.park.on /\ r.park.gen = p.park.gen
        /\ r.fail = NoFail <=> p.fail = NoFail
        /\ r.fail.gen = p.fail.gen /\ r.fail.thrown = p.fail.thrown
    BY <1>2, OwnWriteMoves
  <1>4. Moves(p)
    <2>1. page.fail.base <= page.rev /\ page.rev <= page.rev
      BY <1>0, IntentNumbers DEF IntentInv, BasesBounded, PageBounds
    <2>2. /\ Rises(page.fail.base, page.fail.base, p.rev)
          /\ Rises(page.park.base, p.park.base, p.rev)
      BY <1>2 DEF Rises
    <2>3. \A v \in Vals : HasSent(p, v) => HasSent(page, v) BY <1>2 DEF HasSent
    <2> QED BY <1>2, <2>1, <2>2, <2>3 DEF Moves
  <1> HIDE DEF r, u
  \* A page kept, and sent again or not.
  <1>5. ASSUME NEW x \in PageRecord, q \in RetryOwed(x), Moves(x),
               x.local = p.local, x.base = p.base, SameMarks(x, p), SameTimers(x, p),
               x.park.on = p.park.on, x.park.gen = p.park.gen,
               x.fail = NoFail <=> p.fail = NoFail,
               x.fail.gen = p.fail.gen, x.fail.thrown = p.fail.thrown
        PROVE  Moves(q) /\ IntentStays(q)
    <2>1. /\ SameRecords(q, x) /\ q.again = x.again
          /\ q.timer = x.timer \/ Owed(x)
      BY <1>5, RetryOwedKeeps
    <2>2. SameButTimers(q, x) BY <1>5, RetryOwedDoes
    <2>3. Moves(q) BY <1>5, <2>1, MovesSame
    <2>4. Owed(x) <=> Owed(p) BY <1>5, OwedMoves
    <2>5. Owed(q) <=> Owed(x) BY <2>2 DEF SameButTimers, SameMarks, Owed
    <2>6. IntentStays(q)
      <3>1. SUFFICES ASSUME q.local # q.base
                     PROVE  /\ q.local = page.local /\ q.base = page.base
                            /\ q.park.on = page.park.on
                            /\ q.park.gen = page.park.gen
                            /\ q.fail.gen = page.fail.gen
                            /\ q.fail.thrown = page.fail.thrown
                            /\ Owed(q) \/ q.timer \/ q.again
                                => Owed(page) \/ page.timer \/ page.again
        BY DEF IntentStays
      <3>2. /\ q.local = p.local /\ q.base = p.base
            /\ q.park = x.park /\ q.fail = x.fail
        BY <1>5, <2>1 DEF SameRecords
      <3>3. p = page BY <1>2, <3>1, <3>2
      <3>4. Owed(q) \/ q.timer \/ q.again => Owed(page) \/ page.timer \/ page.again
        BY <1>5, <2>1, <2>4, <2>5, <3>3 DEF SameTimers
      <3> QED BY <1>5, <3>2, <3>3, <3>4
    <2> QED BY <2>3, <2>6
  <1>6. CASE ~pull.initial /\ out.rev = p.rev /\ ~p.skipped
    <2>1. q \in RetryOwed(p) BY <1>6 DEF AfterPull, p
    <2>2. SameMarks(p, p) /\ SameTimers(p, p) BY DEF SameMarks, SameTimers
    <2> QED BY <1>2, <1>4, <1>5, <2>1, <2>2
  <1>7. ASSUME NEW b \in BOOLEAN, q \in RetryOwed([r EXCEPT !.skipped = b])
        PROVE  Moves(q) /\ IntentStays(q)
    <2> DEFINE x == [r EXCEPT !.skipped = b]
    <2>1. /\ x \in PageRecord /\ SameRecords(x, r) /\ SameMarks(x, r)
          /\ SameTimers(x, r)
      BY <1>3 DEF PageRecord, SameRecords, SameMarks, SameTimers
    <2>2. q \in RetryOwed(x) BY <1>7
    <2> HIDE DEF x
    <2>3. Moves(x) BY <1>3, <2>1, MovesSame
    <2>4. /\ x.local = p.local /\ x.base = p.base /\ SameMarks(x, p)
          /\ SameTimers(x, p) /\ x.park = r.park /\ x.fail = r.fail
      BY <1>3, <2>1 DEF SameRecords, SameMarks, SameTimers, SameText
    <2> QED BY <1>3, <1>5, <2>1, <2>2, <2>3, <2>4
  <1>8. CASE ~pull.initial /\ out.val = p.base /\ ~(out.rev = p.rev /\ ~p.skipped)
    <2>1. q \in RetryOwed([r EXCEPT !.skipped = FALSE])
      BY <1>8 DEF AfterPull, p, u, r
    <2> QED BY <1>7, <2>1
  <1>9. CASE /\ ~pull.initial /\ out.val = p.local /\ out.val # p.base
             /\ ~(out.rev = p.rev /\ ~p.skipped)
    <2> DEFINE y == SettledAll(r)
               x == [y EXCEPT !.base = out.val, !.skipped = FALSE]
    <2>1. q = x BY <1>9 DEF AfterPull, p, u, r
    <2>2. /\ y \in PageRecord /\ SameText(y, r) /\ SameSeen(y, r)
          /\ y.editGen = r.editGen /\ y.fail = NoFail /\ ~y.park.on
          /\ y.park.gen = r.park.gen /\ y.park.base = r.park.base
          /\ y.sends = r.sends
      BY <1>3, SettledAllDoes, SettledAllClears
    <2> HIDE DEF y
    <2>3. /\ x.local = y.local /\ x.base = out.val /\ x.rev = y.rev
          /\ x.editGen = y.editGen /\ x.fail = y.fail /\ x.park = y.park
          /\ x.sends = y.sends
      BY <2>2 DEF PageRecord
    <2> HIDE DEF x
    <2>4. /\ x.rev = r.rev /\ x.editGen = r.editGen /\ x.local = out.val
      BY <1>3, <1>9, <2>2, <2>3 DEF SameText, SameSeen
    <2>5. Moves(x) BY <1>3, <2>2, <2>3, <2>4, MovesCleared
    <2> QED BY <2>1, <2>3, <2>4, <2>5 DEF IntentStays
  <1>10. CASE /\ ~(~pull.initial /\ out.rev = p.rev /\ ~p.skipped)
              /\ ~(/\ ~pull.initial /\ out.val = p.base
                   /\ ~(out.rev = p.rev /\ ~p.skipped))
              /\ ~(/\ ~pull.initial /\ out.val = p.local /\ out.val # p.base
                   /\ ~(out.rev = p.rev /\ ~p.skipped))
    <2>1. q \in IF KeepsLocal(r, pull.initial)
                  THEN RetryOwed([r EXCEPT !.skipped = TRUE])
                  ELSE {Adopted(r, out.val)}
      BY <1>10 DEF AfterPull, p, u, r
    <2>2. CASE KeepsLocal(r, pull.initial)
      <3>1. q \in RetryOwed([r EXCEPT !.skipped = TRUE]) BY <2>1, <2>2
      <3> QED BY <1>7, <3>1
    <2>3. CASE ~KeepsLocal(r, pull.initial)
      <3>1. q = Adopted(r, out.val) BY <2>1, <2>3
      <3>2. /\ q.local = out.val /\ q.base = out.val /\ q.rev = r.rev
            /\ q.editGen = r.editGen /\ q.park.gen = r.park.gen
            /\ q.fail = NoFail /\ ~q.park.on /\ q.park.base = r.park.base
            /\ q.sends = NoSends
        BY <1>1, <1>3, <3>1, AdoptedDoes, AdoptedClears
      <3>3. Moves(q) BY <1>3, <3>2, MovesCleared
      <3> QED BY <3>2, <3>3 DEF IntentStays
    <2> QED BY <2>2, <2>3
  <1> QED BY <1>6, <1>8, <1>9, <1>10

LEMMA PullReplyIntent == ASSUME SyncInv, IntentInv, PullReply PROVE IntentInv'
  <1>0. TypeOK /\ DiskFollows /\ ChannelHeld BY DEF SyncInv
  <1>1. /\ srv' = srv /\ section' = section /\ strays' = strays
        /\ lastPeer' = lastPeer /\ origin' = origin /\ push' = push
        /\ pull.at = "sent" /\ wire.at = "answered"
        /\ pull' = NoPull /\ wire' = NoWire
        /\ page' \in IF wire.out.kind = "state" /\ pull.epoch = page.epoch
                       THEN AfterPull(page, wire.out) ELSE {page}
        /\ chain' = IF pull.initial THEN [chain EXCEPT ![pull.epoch] = "done"]
                                    ELSE chain
    BY DEF PullReply, brokerVars
  <1>2. push.at # "sent" /\ section.who # "page"
    BY <1>0, <1>1 DEF ChannelHeld, DiskFollows
  <1>3. wire'.out.kind = "none" /\ wire'.at = "none" /\ pull'.at = "idle"
    BY <1>1, NothingSaid
  <1>4. PutAside BY <1>1, <1>2, <1>3 DEF PutAside
  <1>5. ViewsInOrder /\ FlushFirst /\ FlushOwes BY DEF IntentInv, ViewInv
  <1>6. /\ page.epoch \in Nat /\ pull.epoch \in Nat /\ pull.epoch \in Epochs
        /\ \A x \in Epochs : x \in Nat
        /\ chain \in [Epochs -> {"none", "flush", "pushing", "pull", "pulling",
                                 "done"}]
    BY <1>0, IntentNumbers, SmallFields, GenBounds DEF TypeOK
  <1>7. pull.epoch <= page.epoch /\ (pull.epoch = page.epoch => ~page.off)
    BY <1>1, <1>5 DEF ViewsInOrder
  <1>8. \A x \in Epochs : chain[x] = "flush" => pull.epoch < x
    BY <1>1, <1>5 DEF FlushFirst
  <1>9. \A x \in Epochs :
            chain'[x] = chain[x] \/ (x = pull.epoch /\ chain'[x] = "done")
    BY <1>1, <1>6
  <1>10. \A x \in Epochs : chain'[x] = "flush" => chain[x] = "flush"
    BY <1>9
  <1>11. /\ \A y \in Epochs : y > page.epoch => chain'[y] = "none"
         /\ \A x, y \in Epochs :
                chain'[x] = "flush" /\ y > x => chain'[y] \in {"none", "flush"}
    <2>1. \A y \in Epochs : y > page.epoch => chain'[y] = "none"
      BY <1>5, <1>6, <1>7, <1>9 DEF ViewsInOrder
    <2>2. ASSUME NEW x \in Epochs, NEW y \in Epochs, chain'[x] = "flush", y > x
          PROVE  chain'[y] \in {"none", "flush"}
      <3>1. y # pull.epoch BY <1>6, <1>8, <1>10, <2>2
      <3> QED BY <1>5, <1>9, <1>10, <2>2, <3>1 DEF ViewsInOrder
    <2> QED BY <2>1, <2>2
  <1>12. CASE ~(wire.out.kind = "state" /\ pull.epoch = page.epoch)
    <2>1. page' = page BY <1>1, <1>12
    <2>2. Queued(page)' = Queued(page) /\ Owed(page)' = Owed(page)
          /\ ParkedNow(page)' = ParkedNow(page)
      BY <1>1, <2>1 DEF Queued, Owed, ParkedNow
    <2>3. ViewsInOrder' BY <1>1, <1>3, <1>5, <1>11, <2>1 DEF ViewsInOrder
    <2>4. FlushFirst' BY <1>1, <1>2, <1>3, <1>5, <1>10, <2>1 DEF FlushFirst
    <2>5. FlushOwes' BY <1>1, <1>5, <1>10, <2>1, <2>2 DEF FlushOwes
    <2>6. ViewInv' BY <2>3, <2>4, <2>5 DEF ViewInv
    <2> QED BY <1>1, <1>2, <1>4, <2>1, <2>2, <2>6, RecordsAlone, KeptSame
  <1>13. CASE wire.out.kind = "state" /\ pull.epoch = page.epoch
    <2>1. page' \in AfterPull(page, wire.out) BY <1>1, <1>13
    <2>2. page' \in PageRecord /\ SameView(page', page)
      BY <1>1, <1>13, <2>1, PullSettles
    <2>3. Moves(page') /\ IntentStays(page') BY <1>1, <1>13, <2>1, PullMoves
    <2>4. FailedNow(page') => FailSeen(page)
      <3>1. FailedNow(page) => FailSeen(page)
        BY <1>2 DEF IntentInv, UnnotedFailure, FailSeen
      <3> QED BY <3>1 DEF FailSeen
    <2>5. RecordsSound(page') /\ FailSeen(page') BY <2>2, <2>3, <2>4, MovesSound
    <2>6. SameRecords(page', page') BY DEF SameRecords
    <2>7. /\ PageBounds(page)' /\ OldIntentNoted(page)' /\ PageYields(page)'
          /\ UnnotedSeen(page)'
          /\ lastPeer' > 0 /\ srv'.rev = lastPeer' => ~HasSent(page, srv.val)'
          /\ FailedNow(page)' = FailedNow(page')
          /\ ParkedNow(page)' = ParkedNow(page')
      BY <1>1, <2>5, <2>6, RecordsKept
    <2>8. /\ page'.editGen = page.editGen /\ page'.rev >= page.rev
          /\ page'.rev \in Nat
          /\ \A v \in Vals : HasSent(page, v)' => HasSent(page, v)
      <3>1. page.rev \in Nat /\ page'.rev \in Nat
        BY <1>0, <2>2, IntentNumbers, RecordNumbers
      <3> QED BY <2>3, <3>1 DEF Moves, HasSent
    <2>9. BasesBounded' /\ PutTaken' /\ NewsUnsent' /\ GenYields' /\ FlightYields'
      BY <1>1, <1>4, <2>7, <2>8, AsideKeeps
    <2>10. ASSUME page'.local # page'.base
           PROVE  /\ page'.local = page.local /\ page'.base = page.base
                  /\ page'.park.on = page.park.on /\ page'.park.gen = page.park.gen
                  /\ page'.fail.gen = page.fail.gen
                  /\ page'.fail.thrown = page.fail.thrown
                  /\ Owed(page)' \/ page'.timer \/ page'.again
                        => Owed(page) \/ page.timer \/ page.again
      BY <2>3, <2>10 DEF IntentStays, Owed
    <2>11. OldIntentKept'
      <3>1. SUFFICES ASSUME page.editGen = origin.gen, page'.local # page'.base,
                            page'.local \notin Refused,
                            Queued(page)' \/ Owed(page)'
                     PROVE  ParkedNow(page)' \/ (FailedNow(page)' /\ page'.fail.thrown)
        BY <1>1, <2>8 DEF OldIntentKept
      <3>2. Queued(page) \/ Owed(page) BY <1>1, <2>10, <3>1 DEF Queued
      <3>3. ParkedNow(page) \/ (FailedNow(page) /\ page.fail.thrown)
        BY <2>10, <3>1, <3>2 DEF IntentInv, OldIntentKept
      <3> QED BY <2>8, <2>10, <3>1, <3>3 DEF ParkedNow, FailedNow
    <2>12. UnnotedFailure'
      <3>1. SUFFICES ASSUME origin.gen # page.editGen, FailedNow(page')
                     PROVE  /\ \A st \in strays' : st.base <= page'.fail.base
                            /\ section'.who = "stray" => srv'.rev <= page'.fail.base
                            /\ srv.rev > lastPeer => lastPeer <= page'.fail.base
                            /\ push.at # "idle" /\ push.epoch # page'.epoch =>
                                    push.at = "waiting" /\ page'.local = page'.base
        BY <1>1, <2>7, <2>8 DEF UnnotedFailure, StraysUpTo
      <3>2. /\ StraysUpTo(page'.fail.base)
            /\ srv.rev > lastPeer => lastPeer <= page'.fail.base
        BY <2>5, <2>8, <3>1 DEF FailSeen
      <3>3. /\ \A st \in strays' : st.base <= page'.fail.base
            /\ section'.who = "stray" => srv'.rev <= page'.fail.base
        BY <1>1, <3>2 DEF StraysUpTo
      <3>4. FailedNow(page)
        <4>1. NoFail.gen = 0 BY DEF NoFail
        <4> QED BY <2>3, <2>8, <3>1, <4>1 DEF Moves, FailedNow
      <3>5. push.at # "idle" /\ push.epoch # page.epoch =>
                push.at = "waiting" /\ page.local = page.base
        BY <3>1, <3>4 DEF IntentInv, UnnotedFailure
      <3>6. page'.epoch = page.epoch BY <2>2 DEF SameView
      <3> QED BY <2>10, <3>2, <3>3, <3>5, <3>6
    <2>13. PutInHand' /\ UnnotedPut' /\ ThisPutSeen'
      BY <1>1, <1>2 DEF PutInHand, UnnotedPut, ThisPutSeen
    <2>14. \A x \in Epochs : chain'[x] # "flush"
      BY <1>5, <1>6, <1>8, <1>10, <1>13 DEF ViewsInOrder
    <2>15. ViewsInOrder'
      <3>1. page'.epoch = page.epoch /\ ~page'.off
        BY <1>7, <1>13, <2>2 DEF SameView
      <3> QED BY <1>1, <1>3, <1>11, <3>1 DEF ViewsInOrder
    <2>16. ViewInv' BY <2>14, <2>15, NoFlushDue
    <2> QED BY <2>7, <2>9, <2>11, <2>12, <2>13, <2>16 DEF IntentInv, PutInv
  <1> QED BY <1>12, <1>13

-----------------------------------------------------------------------------
(* A PUT's answer.                                                         *)

\* Old intent that differs from the base has its marks.
IntentMarked(p) ==
    p.editGen = origin.gen /\ p.local # p.base /\ p.local \notin Refused
        => ParkedNow(p) \/ (FailedNow(p) /\ p.fail.thrown)

\* p is in the page's view, its timer as it was.
InView(p) == p.off = page.off /\ p.epoch = page.epoch /\ p.timer = page.timer

\* A flush that is due was there before a view that is over sent this PUT.
LEMMA ReplyViews ==
    ASSUME SyncInv, IntentInv, push.at = "sent", NEW p \in PageRecord, Finished(p),
           InView(p), p.editGen = page.editGen,
           push.epoch # page.epoch => origin' = origin,
           wire'.at # "none" => pull'.at = "sent",
           \/ pull' = pull
           \/ pull'.epoch = page.epoch /\ push.epoch = page.epoch
    PROVE  ViewInv'
  <1>0. TypeOK /\ ChannelHeld /\ PushKnown BY DEF SyncInv
  <1>1. /\ push'.at = "idle" /\ SameRecords(page', p) /\ ~page'.again
        /\ page'.off = p.off /\ page'.epoch = p.epoch
        /\ page'.timer = p.timer \/ (push.epoch = p.epoch /\ ~p.off)
        /\ \A x \in Epochs :
              chain'[x] = chain[x] \/ (chain[x] = "pushing" /\ chain'[x] = "pull")
    BY <1>0, FinishedKeeps
  <1>2. /\ page'.off = page.off /\ page'.epoch = page.epoch
        /\ page'.editGen = page.editGen
        /\ page'.timer = page.timer \/ (push.epoch = page.epoch /\ ~page.off)
    BY <1>1 DEF SameRecords, InView
  <1>3. ViewsInOrder /\ FlushFirst BY DEF IntentInv, ViewInv
  <1>4. page.epoch \in Nat /\ push.epoch \in Nat /\ \A x \in Epochs : x \in Nat
    BY <1>0, IntentNumbers, GenBounds
  <1>5. pull.at = "idle" /\ (push.epoch = page.epoch => ~page.off)
    BY <1>0 DEF ChannelHeld, PushKnown
  <1>6. \A x \in Epochs : chain'[x] = "flush" =>
            chain[x] = "flush" /\ push.epoch # page.epoch
    BY <1>1, <1>3, <1>4 DEF ViewsInOrder, FlushFirst
  <1>7. ViewsInOrder'
    <2>1. \A y \in Epochs : y > page.epoch => chain'[y] = "none"
      BY <1>1, <1>3 DEF ViewsInOrder
    <2>2. \A x, y \in Epochs :
              chain'[x] = "flush" /\ y > x => chain'[y] \in {"none", "flush"}
      BY <1>1, <1>3, <1>6 DEF ViewsInOrder
    <2>3. page'.off => ~page'.timer /\ ~page'.again
      BY <1>1, <1>2, <1>3 DEF ViewsInOrder
    <2>4. pull'.at = "sent" => /\ pull'.epoch <= page.epoch
                               /\ pull'.epoch = page.epoch => ~page.off
      BY <1>4, <1>5
    <2> QED BY <1>2, <2>1, <2>2, <2>3, <2>4 DEF ViewsInOrder
  <1>8. ASSUME NEW x \in Epochs, chain'[x] = "flush"
        PROVE  /\ pull'.at # "sent"
               /\ page'.editGen = origin'.gen => ~page'.timer
    <2>1. chain[x] = "flush" /\ push.epoch # page.epoch BY <1>6, <1>8
    <2>2. pull' = pull /\ origin' = origin /\ page'.timer = page.timer
      BY <1>2, <2>1
    <2> QED BY <1>2, <1>3, <1>5, <2>1, <2>2 DEF FlushFirst
  <1>9. FlushFirst' BY <1>1, <1>8 DEF FlushFirst
  <1>10. FlushOwes' BY <1>1, <1>8 DEF FlushOwes, Queued
  <1> QED BY <1>7, <1>9, <1>10 DEF ViewInv

\* The answer noted, if nothing more became old intent.
LEMMA ReplyKeeps ==
    ASSUME SyncInv, IntentInv, ViewInv',
           UNCHANGED <<srv, section, strays, lastPeer, origin>>,
           section.who # "page", push'.at = "idle", wire'.out = NoOut,
           NEW p \in PageRecord, SameRecords(page', p), RecordsSound(p), FailSeen(p),
           IntentMarked(p), p.editGen = page.editGen, page.rev <= p.rev,
           \A v \in Vals : HasSent(p, v) => HasSent(page, v)
    PROVE  IntentInv'
  <1>1. PutAside BY NothingSaid DEF PutAside
  <1>2. /\ PageBounds(page)' /\ OldIntentNoted(page)' /\ PageYields(page)'
        /\ UnnotedSeen(page)'
        /\ lastPeer' > 0 /\ srv'.rev = lastPeer' => ~HasSent(page, srv.val)'
        /\ ParkedNow(page)' = ParkedNow(p) /\ FailedNow(page)' = FailedNow(p)
    BY RecordsKept
  <1>3. /\ page'.local = p.local /\ page'.base = p.base /\ page'.rev = p.rev
        /\ page'.editGen = page.editGen /\ page'.fail = p.fail
        /\ page'.sends = p.sends
    BY DEF SameRecords
  <1>4. page'.rev >= page.rev /\ page'.rev \in Nat
    <2>1. page.rev \in Nat /\ p.rev \in Nat
      BY IntentNumbers, RecordNumbers DEF SyncInv
    <2> QED BY <1>3, <2>1
  <1>5. \A v \in Vals : HasSent(page, v)' => HasSent(page, v)
    BY <1>3 DEF HasSent
  <1>6. BasesBounded' /\ PutTaken' /\ NewsUnsent' /\ GenYields' /\ FlightYields'
    BY <1>1, <1>2, <1>3, <1>4, <1>5, AsideKeeps
  <1>7. OldIntentKept'
    BY <1>2, <1>3 DEF OldIntentKept, IntentMarked
  <1>8. UnnotedFailure'
    BY <1>2, <1>3 DEF UnnotedFailure, FailSeen, StraysUpTo
  <1>9. PutInHand' /\ UnnotedPut' /\ ThisPutSeen'
    BY DEF PutInHand, UnnotedPut, ThisPutSeen
  <1> QED BY <1>2, <1>6, <1>7, <1>8, <1>9 DEF IntentInv, PutInv

\* What the running PUT is to the last edit.
LEMMA PutInFlight ==
    ASSUME SyncInv, IntentInv, push.at = "sent"
    PROVE  /\ push.gen \in Gens /\ push.gen \in Nat /\ push.gen # 0
           /\ push.gen <= page.editGen /\ page.editGen \in Nat
           /\ push.gen = page.editGen => page.local = push.val
           /\ push.gen = page.editGen => push.base = NextBase(page)
           /\ FailedNow(page) => push.gen = page.editGen
           /\ IntentMarked(page)
           /\ origin.gen = page.editGen => page.local # page.base
           /\ push.epoch # page.epoch => FailSeen(page)
           /\ wire.out.kind \notin {"lost", "saved"} => FailSeen(page)
           /\ push.base <= page.rev /\ push.base \in Nat
  <1>0. TypeOK /\ PushKnown BY DEF SyncInv
  <1>1. /\ push.gen \in Gens /\ push.gen \in Nat /\ page.editGen \in Nat
        /\ push.base \in Nat
    BY <1>0, IntentNumbers, SmallFields
  <1>2. push.gen # 0 /\ push.gen <= page.editGen
        /\ (page.local # push.val => page.editGen > push.gen)
    BY <1>0 DEF PushKnown
  <1>3. /\ push.gen = page.editGen => push.base = NextBase(page)
        /\ FailedNow(page) => push.gen = page.editGen
        /\ origin.gen = page.editGen => page.local # page.base
    BY DEF IntentInv, PutInv, PutInHand
  <1>4. IntentMarked(page)
    <2>1. Queued(page) BY DEF Queued
    <2> QED BY <2>1 DEF IntentInv, OldIntentKept, IntentMarked
  <1>5. push.epoch # page.epoch => FailSeen(page)
    BY DEF IntentInv, UnnotedFailure, FailSeen
  <1>6. wire.out.kind \notin {"lost", "saved"} => FailSeen(page)
    BY DEF IntentInv, UnnotedFailure, FailSeen
  <1>7. push.base <= page.rev BY DEF IntentInv, BasesBounded
  <1> QED BY <1>1, <1>2, <1>3, <1>4, <1>5, <1>6, <1>7

LEMMA PageMoves == ASSUME SyncInv PROVE Moves(page)
  <1>1. page.rev <= page.rev BY IntentNumbers DEF SyncInv
  <1> QED BY <1>1 DEF Moves, Rises

\* The PUT of a view that is over.
LEMMA OldViewMoves ==
    ASSUME SyncInv, IntentInv, push.at = "sent",
           push.epoch # page.epoch \/ wire.out.kind \notin {"lost", "saved"}
    PROVE  LET p == ParkedFailure(page, push.gen) IN
           /\ Moves(p) /\ (FailedNow(p) => FailSeen(page))
           /\ IntentMarked(p) /\ InView(p)
  <1> DEFINE p == ParkedFailure(page, push.gen)
  <1>1. page \in PageRecord /\ push.gen \in Gens /\ push.gen # 0
    BY SmallFields, PutInFlight DEF SyncInv
  <1>2. SameRecords(p, page) /\ SameTimers(p, page) /\ SameView(p, page)
    BY <1>1, ParkedFailureKeeps, ParkedFailureDoes
  <1> HIDE DEF p
  <1>3. Moves(p) BY <1>2, PageMoves, MovesSame
  <1>4. IntentMarked(p)
    BY <1>2, PutInFlight DEF IntentMarked, SameRecords, ParkedNow, FailedNow
  <1>5. InView(p) BY <1>2 DEF InView, SameTimers, SameView
  <1>6. FailSeen(page) BY PutInFlight
  <1> QED BY <1>3, <1>4, <1>5, <1>6 DEF p

LEMMA SentSettled ==
    ASSUME SyncInv, IntentInv, push.at = "sent", NEW r \in PageRecord,
           SameTimers(r, page), SameView(r, page), Moves(r), r.local = page.local,
           r.fail = page.fail, r.park.on = page.park.on, r.sends = page.sends
    PROVE  LET q == SettledSent(r, push.gen) IN
           /\ q \in PageRecord /\ Moves(q) /\ ~FailedNow(q) /\ InView(q)
           /\ SameText(q, r) /\ q.editGen = page.editGen
           /\ page.editGen = origin.gen /\ page.local \notin Refused
              /\ page.editGen # push.gen => ParkedNow(q)
  <1> DEFINE q == SettledSent(r, push.gen)
  <1>1. /\ push.gen \in Gens /\ push.gen \in Nat /\ page.editGen \in Nat
        /\ push.gen <= page.editGen
        /\ FailedNow(page) => push.gen = page.editGen
        /\ IntentMarked(page)
        /\ origin.gen = page.editGen => page.local # page.base
    BY PutInFlight
  <1>2. /\ q \in PageRecord /\ SameText(q, r) /\ SameSeen(q, r) /\ SameMarks(q, r)
        /\ SameView(q, r) /\ q.park.gen = r.park.gen
        /\ q.fail = IF r.fail.gen <= push.gen THEN NoFail ELSE r.fail
        /\ q.park.on = (r.park.on /\ push.gen < r.park.gen)
        /\ q.park.base = r.park.base /\ q.sends = r.sends /\ SameTimers(q, r)
    BY <1>1, SettledSentDoes, SettledSentClears
  <1> HIDE DEF q
  <1>3. /\ r.editGen = page.editGen /\ r.park.gen = page.park.gen
        /\ page.rev <= r.rev
        /\ \A v \in Vals : HasSent(r, v) => HasSent(page, v)
        /\ \/ r.fail = NoFail
           \/ /\ r.fail.gen = page.fail.gen /\ r.fail.thrown = page.fail.thrown
              /\ Rises(page.fail.base, r.fail.base, r.rev)
        /\ \/ ~r.park.on /\ r.park.base = page.park.base
           \/ Rises(page.park.base, r.park.base, r.rev)
    BY DEF Moves
  <1>4. /\ q.local = page.local /\ q.rev = r.rev /\ q.editGen = page.editGen
        /\ q.fail = NoFail \/ q.fail = r.fail
        /\ q.park.on => r.park.on
    BY <1>2, <1>3 DEF SameText, SameSeen, SameMarks
  <1>5. \A v \in Vals : HasSent(q, v) => HasSent(page, v)
    BY <1>2, <1>3 DEF HasSent
  <1>6. Moves(q)
    <2>1. \/ ~q.park.on /\ q.park.base = page.park.base
          \/ Rises(page.park.base, q.park.base, q.rev)
      BY <1>2, <1>3, <1>4
    <2>2. \/ q.fail = NoFail
          \/ /\ q.fail.gen = page.fail.gen /\ q.fail.thrown = page.fail.thrown
             /\ Rises(page.fail.base, q.fail.base, q.rev)
      BY <1>3, <1>4
    <2> QED BY <1>2, <1>3, <1>4, <1>5, <2>1, <2>2 DEF Moves
  <1>7. ~FailedNow(q)
    <2>1. SUFFICES ASSUME FailedNow(q) PROVE FALSE OBVIOUS
    <2>2. q.fail.gen = page.editGen /\ page.editGen # 0
      BY <1>4, <2>1 DEF FailedNow
    <2>3. q.fail # NoFail
      <3>1. NoFail.gen = 0 BY DEF NoFail
      <3> QED BY <2>2, <3>1
    <2>4. q.fail = page.fail /\ ~(page.fail.gen <= push.gen) BY <1>2, <2>3
    <2>5. FailedNow(page) BY <2>2, <2>4 DEF FailedNow
    <2> QED BY <1>1, <2>2, <2>4, <2>5
  <1>8. ASSUME page.editGen = origin.gen, page.local \notin Refused,
               page.editGen # push.gen
        PROVE  ParkedNow(q)
    <2>1. ParkedNow(page) BY <1>1, <1>8 DEF IntentMarked
    <2>2. page.park.on /\ page.park.gen = page.editGen BY <2>1 DEF ParkedNow
    <2>3. push.gen < r.park.gen BY <1>1, <1>3, <1>8, <2>2
    <2> QED BY <1>2, <1>3, <1>4, <2>2, <2>3 DEF ParkedNow
  <1>9. InView(q) BY <1>2 DEF InView, SameView, SameTimers
  <1> QED BY <1>2, <1>4, <1>6, <1>7, <1>8, <1>9 DEF q

LEMMA SavedMoves ==
    ASSUME SyncInv, IntentInv, push.at = "sent", wire.out.kind = "saved"
    PROVE  LET q == AfterSaved(page, wire.out) IN
           /\ q \in PageRecord /\ Moves(q) /\ ~FailedNow(q)
           /\ IntentMarked(q) /\ InView(q)
  <1>0. /\ TypeOK /\ RepliesTrue /\ PushKnown BY DEF SyncInv
  <1> DEFINE out == wire.out
             b == IF /\ page.park.on /\ push.gen < page.park.gen
                     /\ page.park.base < out.rev
                    THEN out.rev ELSE page.park.base
             k == [page.park EXCEPT !.base = b]
             r == [page EXCEPT !.rev = out.rev, !.base = push.val,
                               !.skipped = FALSE, !.park = k]
             q == SettledSent(r, push.gen)
  <1>1. /\ page \in PageRecord /\ push.val \in Vals
        /\ out.rev \in Nat /\ page.rev <= out.rev
        /\ page.park \in ParkRecord /\ page.park.base \in Nat
    BY <1>0, SmallFields, PageFields, IntentNumbers DEF PushKnown, RepliesTrue
  <1>2. AfterSaved(page, out) = q
    <2> DEFINE r1 == [page EXCEPT !.rev = out.rev, !.base = push.val,
                                  !.skipped = FALSE,
                        !.park.base = IF page.park.on /\ push.gen < page.park.gen
                                        /\ @ < out.rev THEN out.rev ELSE @]
    <2>1. AfterSaved(page, out) = SettledSent(r1, push.gen) BY DEF AfterSaved
    <2>2. r1 = r OBVIOUS
    <2> HIDE DEF r1, r
    <2> QED BY <2>1, <2>2
  <1>3. Rises(page.park.base, b, out.rev)
    <2>1. CASE b = page.park.base BY <2>1 DEF Rises
    <2>2. CASE b = out.rev /\ page.park.base < out.rev
      <3>1. PassedBy /\ page.editGen = origin.gen => out.rev < lastPeer
        BY DEF IntentInv, PutInv, FlightYields
      <3> QED BY <1>1, <2>2, <3>1 DEF Rises
    <2> QED BY <2>1, <2>2
  <1>4. b \in Nat BY <1>1
  <1> HIDE DEF b
  <1>5. k \in ParkRecord /\ k.gen = page.park.gen /\ k.on = page.park.on /\ k.base = b
    BY <1>1, <1>4, ParkFields
  <1> HIDE DEF k
  <1>6. /\ r \in PageRecord /\ r.local = page.local /\ r.base = push.val
        /\ r.rev = out.rev /\ r.editGen = page.editGen
        /\ r.fail = page.fail /\ r.park = k /\ r.sends = page.sends
        /\ SameTimers(r, page) /\ SameView(r, page)
    BY <1>1, <1>5 DEF PageRecord, SameTimers, SameView
  <1> HIDE DEF r, q
  <1>7. Moves(r)
    <2>1. \A v \in Vals : HasSent(r, v) => HasSent(page, v) BY <1>6 DEF HasSent
    <2>2. Rises(page.fail.base, r.fail.base, r.rev) BY <1>6 DEF Rises
    <2> QED BY <1>1, <1>3, <1>5, <1>6, <2>1, <2>2 DEF Moves
  <1>8. /\ q \in PageRecord /\ Moves(q) /\ ~FailedNow(q) /\ InView(q)
        /\ SameText(q, r) /\ q.editGen = page.editGen
        /\ page.editGen = origin.gen /\ page.local \notin Refused
           /\ page.editGen # push.gen => ParkedNow(q)
    BY <1>5, <1>6, <1>7, SentSettled DEF q
  <1>9. IntentMarked(q)
    <2>1. q.local = page.local /\ q.base = push.val BY <1>6, <1>8 DEF SameText
    <2>2. push.gen = page.editGen => page.local = push.val BY PutInFlight
    <2> QED BY <1>8, <2>1, <2>2 DEF IntentMarked
  <1> QED BY <1>2, <1>8, <1>9

LEMMA RejectedMoves ==
    ASSUME SyncInv, IntentInv, push.at = "sent", wire.out.kind = "rejected"
    PROVE  LET q == AfterRejected(page) IN
           /\ Moves(q) /\ (FailedNow(q) => FailSeen(page))
           /\ IntentMarked(q) /\ InView(q)
  <1> DEFINE r == SettledSent(page, push.gen)
             q == AfterRejected(page)
  <1>1. page \in PageRecord BY SmallFields DEF SyncInv
  <1>2. /\ r \in PageRecord /\ Moves(r) /\ ~FailedNow(r) /\ InView(r)
        /\ SameText(r, page) /\ r.editGen = page.editGen
        /\ page.editGen = origin.gen /\ page.local \notin Refused
           /\ page.editGen # push.gen => ParkedNow(r)
    <2>1. SameTimers(page, page) /\ SameView(page, page)
      BY DEF SameTimers, SameView
    <2> QED BY <1>1, <2>1, PageMoves, SentSettled
  <1> HIDE DEF r
  <1>3. FailSeen(page) BY PutInFlight
  <1>4. push.gen = page.editGen => page.local \in Refused
    BY PutInFlight DEF IntentInv, PutTaken
  <1>5. IntentMarked(r) BY <1>2, <1>4 DEF IntentMarked, SameText
  <1>6. CASE page.epoch # push.epoch /\ page.park.on /\ push.gen = page.park.gen
    <2>1. q = ParkedFailure(page, push.gen) BY <1>6 DEF AfterRejected
    <2> HIDE DEF q
    <2>2. Moves(q) /\ (FailedNow(q) => FailSeen(page)) /\ IntentMarked(q) /\ InView(q)
      BY <2>1, OldViewMoves
    <2> QED BY <2>2 DEF q
  <1>7. CASE /\ ~(page.epoch # push.epoch /\ page.park.on
                  /\ push.gen = page.park.gen)
             /\ Converges
    <2>1. q = [r EXCEPT !.skipped = TRUE, !.base = NoVal]
      BY <1>7 DEF AfterRejected, r
    <2> HIDE DEF q
    <2>2. /\ q.local = r.local /\ q.rev = r.rev /\ q.editGen = r.editGen
          /\ q.fail = r.fail /\ q.park = r.park /\ q.sends = r.sends
          /\ q.off = r.off /\ q.epoch = r.epoch /\ q.timer = r.timer
      BY <1>2, <2>1 DEF PageRecord
    <2>3. Moves(q)
      <3>1. \A v \in Vals : HasSent(q, v) => HasSent(r, v) BY <2>2 DEF HasSent
      <3> QED BY <1>2, <2>2, <3>1 DEF Moves, ParkedNow, FailedNow
    <2>4. IntentMarked(q)
      BY <1>2, <1>4, <1>7, <2>2 DEF IntentMarked, Converges, SameText
    <2>5. InView(q) BY <1>2, <2>2 DEF InView
    <2> QED BY <1>3, <2>3, <2>4, <2>5 DEF q
  <1>8. CASE /\ ~(page.epoch # push.epoch /\ page.park.on
                  /\ push.gen = page.park.gen)
             /\ ~Converges
    <2>1. q = r BY <1>8 DEF AfterRejected, r
    <2> HIDE DEF q
    <2> QED BY <1>2, <1>3, <1>5, <2>1 DEF q
  <1> QED BY <1>6, <1>7, <1>8

LEMMA ConflictMoves ==
    ASSUME SyncInv, IntentInv, push.at = "sent", wire.out.kind = "conflict"
    PROVE  LET q == AfterConflict(page, wire.out) IN
           /\ Moves(q) /\ (FailedNow(q) => FailSeen(page))
           /\ IntentMarked(q) /\ InView(q)
  <1>0. TypeOK /\ RepliesTrue BY DEF SyncInv
  <1> DEFINE out == wire.out
             u == SawOwnWrite(page, out.val, out.rev)
             r == [u EXCEPT !.rev = out.rev]
             q == AfterConflict(page, out)
  <1>1. page \in PageRecord /\ out.val \in Vals
    BY <1>0, SmallFields DEF RepliesTrue
  <1>2. /\ r \in PageRecord /\ Moves(r)
        /\ SameText(r, page) /\ SameMarks(r, page) /\ SameView(r, page)
        /\ SameTimers(r, page)
        /\ r.park.on = page.park.on /\ r.park.gen = page.park.gen
        /\ r.fail.gen = page.fail.gen /\ r.fail.thrown = page.fail.thrown
    BY <1>1, OwnWriteMoves
  <1>3. q = IF FromParent(page, push.gen, out.val)
              THEN [r EXCEPT !.base = out.val, !.skipped = FALSE, !.again = TRUE]
            ELSE IF page.editGen = push.gen THEN Adopted(r, out.val)
            ELSE [r EXCEPT !.base = NoVal, !.skipped = TRUE]
    BY DEF AfterConflict
  <1> HIDE DEF u, r, q
  <1>4. FailSeen(page) /\ IntentMarked(page)
        /\ (origin.gen = page.editGen => page.local # page.base)
    BY PutInFlight
  <1>5. CASE q = Adopted(r, out.val)
    <2>1. /\ q.local = out.val /\ q.base = out.val /\ q.rev = r.rev
          /\ q.editGen = r.editGen /\ q.park.gen = r.park.gen
          /\ q.fail = NoFail /\ ~q.park.on /\ q.park.base = r.park.base
          /\ q.sends = NoSends /\ SameView(q, r) /\ SameTimers(q, r)
      BY <1>1, <1>2, <1>5, AdoptedDoes, AdoptedClears
    <2>2. Moves(q) BY <1>2, <2>1, MovesCleared
    <2>3. IntentMarked(q) BY <2>1 DEF IntentMarked
    <2>4. InView(q) BY <1>2, <2>1 DEF InView, SameView, SameTimers
    <2> QED BY <1>4, <2>2, <2>3, <2>4 DEF q
  <1>6. CASE \/ q = [r EXCEPT !.base = out.val, !.skipped = FALSE, !.again = TRUE]
             \/ q = [r EXCEPT !.base = NoVal, !.skipped = TRUE]
    <2>1. /\ q.local = r.local /\ q.rev = r.rev /\ q.editGen = r.editGen
          /\ q.fail = r.fail /\ q.park = r.park /\ q.sends = r.sends
          /\ q.off = r.off /\ q.epoch = r.epoch /\ q.timer = r.timer
      BY <1>2, <1>6 DEF PageRecord
    <2>2. Moves(q)
      <3>1. \A v \in Vals : HasSent(q, v) => HasSent(r, v) BY <2>1 DEF HasSent
      <3> QED BY <1>2, <2>1, <3>1 DEF Moves, ParkedNow, FailedNow
    <2>3. IntentMarked(q)
      BY <1>2, <1>4, <2>1
         DEF IntentMarked, ParkedNow, FailedNow, SameText, SameMarks
    <2>4. InView(q) BY <1>2, <2>1 DEF InView, SameView, SameTimers
    <2> QED BY <1>4, <2>2, <2>3, <2>4 DEF q
  <1> QED BY <1>3, <1>5, <1>6

\* The PUT of this view has no answer, or not the broker's: the record of it.
LEMMA PutFailed ==
    ASSUME SyncInv, IntentInv, push.at = "sent", push.epoch = page.epoch,
           NEW thrown \in BOOLEAN
    PROVE  LET q == Failed(page, push.gen, push.base, thrown) IN
           /\ q \in PageRecord /\ SameText(q, page) /\ SameSeen(q, page)
           /\ q.editGen = page.editGen /\ q.park = page.park
           /\ q.sends = page.sends /\ InView(q) /\ q.fail.gen = push.gen
           /\ \/ q.fail.base = push.base /\ q.fail.thrown = thrown
              \/ /\ page.fail.gen = push.gen /\ q.fail.base = page.fail.base
                 /\ q.fail.thrown = (page.fail.thrown \/ thrown)
           /\ FailedNow(page) /\ page.fail.thrown => q.fail.thrown
           /\ FailedNow(q) <=> push.gen = page.editGen
           /\ ParkedNow(q) <=> ParkedNow(page)
  <1> DEFINE q == Failed(page, push.gen, push.base, thrown)
  <1>1. page \in PageRecord /\ push.gen \in Gens /\ push.base \in Nat
        /\ push.gen # 0 /\ (FailedNow(page) => push.gen = page.editGen)
    BY SmallFields, PutInFlight DEF SyncInv
  <1>2. /\ q \in PageRecord /\ SameText(q, page) /\ SameSeen(q, page)
        /\ SameMarks(q, page) /\ SameView(q, page) /\ q.park = page.park
    BY <1>1, FailedDoes
  <1>3. /\ q.fail.gen = push.gen /\ q.sends = page.sends /\ SameTimers(q, page)
        /\ \/ /\ page.fail.gen = push.gen /\ page.fail # NoFail
              /\ q.fail.base = page.fail.base
              /\ q.fail.thrown = (page.fail.thrown \/ thrown)
           \/ /\ ~(page.fail.gen = push.gen /\ page.fail # NoFail)
              /\ q.fail.base = push.base /\ q.fail.thrown = thrown
    BY <1>1, FailedNotes
  <1> HIDE DEF q
  <1>4. InView(q) /\ q.editGen = page.editGen
    BY <1>2, <1>3 DEF InView, SameView, SameTimers, SameMarks
  <1>5. ASSUME FailedNow(page), page.fail.thrown PROVE q.fail.thrown
    <2>1. NoFail.gen = 0 BY DEF NoFail
    <2>2. page.fail.gen = push.gen /\ page.fail # NoFail
      BY <1>1, <1>5, <2>1 DEF FailedNow
    <2> QED BY <1>3, <1>5, <2>2
  <1>6. FailedNow(q) <=> push.gen = page.editGen
    BY <1>1, <1>3, <1>4 DEF FailedNow
  <1>7. ParkedNow(q) <=> ParkedNow(page) BY <1>2, <1>4 DEF ParkedNow
  <1>8. \/ q.fail.base = push.base /\ q.fail.thrown = thrown
        \/ /\ page.fail.gen = push.gen /\ q.fail.base = page.fail.base
           /\ q.fail.thrown = (page.fail.thrown \/ thrown)
    BY <1>3
  <1> QED BY <1>2, <1>3, <1>4, <1>5, <1>6, <1>7, <1>8 DEF q

LEMMA FailedSound ==
    ASSUME SyncInv, IntentInv, push.at = "sent", push.epoch = page.epoch,
           NEW thrown \in BOOLEAN
    PROVE  LET q == Failed(page, push.gen, push.base, thrown) IN
           PageBounds(q) /\ PageYields(q) /\ IntentMarked(q)
  <1> DEFINE q == Failed(page, push.gen, push.base, thrown)
  <1>1. /\ SameText(q, page) /\ SameSeen(q, page)
        /\ q.editGen = page.editGen /\ q.park = page.park
        /\ q.fail.gen = push.gen
        /\ q.fail.base = push.base
           \/ (page.fail.gen = push.gen /\ q.fail.base = page.fail.base)
        /\ FailedNow(page) /\ page.fail.thrown => q.fail.thrown
        /\ FailedNow(q) <=> push.gen = page.editGen
        /\ ParkedNow(q) <=> ParkedNow(page)
    BY PutFailed
  <1> HIDE DEF q
  <1>2. q.local = page.local /\ q.base = page.base /\ q.rev = page.rev
    BY <1>1 DEF SameText, SameSeen
  <1>3. /\ push.gen <= page.editGen /\ push.base <= page.rev /\ push.gen # 0
        /\ push.gen = page.editGen => page.local = push.val
        /\ FailedNow(page) => push.gen = page.editGen
        /\ IntentMarked(page)
    BY PutInFlight
  <1>4. PageBounds(page) /\ PageYields(page) /\ FlightYields
    BY DEF IntentInv, BasesBounded, PutInv
  <1>5. PageBounds(q)
    <2>1. q.fail.base <= q.rev BY <1>1, <1>2, <1>3, <1>4 DEF PageBounds
    <2>2. q.fail.gen <= q.editGen BY <1>1, <1>3
    <2>3. q.park.base <= q.rev BY <1>1, <1>2, <1>4 DEF PageBounds
    <2> QED BY <1>1, <1>2, <1>4, <2>1, <2>2, <2>3 DEF PageBounds
  <1>6. PageYields(q)
    <2>1. SUFFICES ASSUME PassedBy, page.editGen = origin.gen
                   PROVE  /\ StraysBelow(lastPeer) /\ srv.rev = lastPeer
                          /\ ParkedNow(q) /\ q.local \notin Refused =>
                                q.park.base < lastPeer
                          /\ FailedNow(q) /\ q.local \notin Refused =>
                                q.fail.base < lastPeer
      BY <1>1 DEF PageYields
    <2>2. /\ StraysBelow(lastPeer) /\ srv.rev = lastPeer
          /\ ParkedNow(page) /\ page.local \notin Refused => page.park.base < lastPeer
          /\ FailedNow(page) /\ page.local \notin Refused => page.fail.base < lastPeer
      BY <1>4, <2>1 DEF PageYields
    <2>3. ASSUME FailedNow(q), q.local \notin Refused
          PROVE  q.fail.base < lastPeer
      <3>1. push.gen = page.editGen /\ push.val \notin Refused
        BY <1>1, <1>2, <1>3, <2>3
      <3>2. push.base < lastPeer BY <1>4, <2>1, <3>1 DEF FlightYields
      <3>3. page.fail.gen = push.gen => FailedNow(page)
        BY <1>3, <3>1 DEF FailedNow
      <3> QED BY <1>1, <1>2, <2>2, <2>3, <3>2, <3>3
    <2> QED BY <1>1, <1>2, <2>2, <2>3
  <1>7. IntentMarked(q)
    BY <1>1, <1>2, <1>3 DEF IntentMarked
  <1> QED BY <1>5, <1>6, <1>7 DEF q

\* An error, or the loss of a PUT that is old intent already.
LEMMA PutFailedSound ==
    ASSUME SyncInv, IntentInv, push.at = "sent", push.epoch = page.epoch,
           NEW thrown \in BOOLEAN,
           push.gen = origin.gen
           \/ (~thrown /\ wire.out.kind \notin {"lost", "saved"})
    PROVE  LET q == Failed(page, push.gen, push.base, thrown) IN
           RecordsSound(q) /\ FailSeen(q)
  <1> DEFINE q == Failed(page, push.gen, push.base, thrown)
  <1>1. /\ q \in PageRecord
        /\ q.editGen = page.editGen /\ q.fail.gen = push.gen
        /\ q.sends = page.sends
        /\ \/ q.fail.base = push.base /\ q.fail.thrown = thrown
           \/ /\ page.fail.gen = push.gen /\ q.fail.base = page.fail.base
              /\ q.fail.thrown = (page.fail.thrown \/ thrown)
        /\ FailedNow(q) <=> push.gen = page.editGen
        /\ ParkedNow(q) <=> ParkedNow(page)
    BY PutFailed
  <1>2. PageBounds(q) /\ PageYields(q) BY FailedSound
  <1> HIDE DEF q
  <1>3. /\ push.gen # 0 /\ push.gen = page.editGen => push.base = NextBase(page)
        /\ wire.out.kind \notin {"lost", "saved"} => FailSeen(page)
    BY PutInFlight
  <1>4. /\ OldIntentNoted(page) /\ UnnotedSeen(page) /\ ThisPutSeen /\ NewsUnsent
    BY DEF IntentInv, PutInv
  <1>5. push.gen = page.editGen /\ page.fail.gen = push.gen => FailedNow(page)
    BY PutInFlight DEF FailedNow
  <1>6. OldIntentNoted(q)
    <2>1. ParkedNow(q) => origin.gen = q.editGen BY <1>1, <1>4 DEF OldIntentNoted
    <2>2. ASSUME FailedNow(q), q.fail.thrown PROVE origin.gen = q.editGen
      <3>1. push.gen = page.editGen BY <1>1, <2>2
      <3>2. CASE push.gen = origin.gen BY <1>1, <3>1, <3>2
      <3>3. CASE ~thrown /\ page.fail.gen = push.gen /\ page.fail.thrown
        BY <1>1, <1>4, <1>5, <3>1, <3>3 DEF OldIntentNoted
      <3> QED BY <1>1, <2>2, <3>2, <3>3
    <2> QED BY <2>1, <2>2 DEF OldIntentNoted
  <1>7. FailSeen(q)
    <2>1. SUFFICES ASSUME origin.gen # page.editGen, push.gen = page.editGen
                   PROVE  /\ StraysUpTo(q.fail.base)
                          /\ srv.rev > lastPeer => lastPeer <= q.fail.base
      BY <1>1 DEF FailSeen
    <2>2. FailSeen(page) BY <1>3, <2>1
    <2>3. CASE q.fail.base = push.base
      <3>1. StraysUpTo(push.base) BY <1>4, <2>1 DEF ThisPutSeen
      <3>2. srv.rev > lastPeer => lastPeer <= push.base
        BY <1>4, <2>1, PutInFlight DEF UnnotedSeen
      <3> QED BY <2>3, <3>1, <3>2
    <2>4. CASE page.fail.gen = push.gen /\ q.fail.base = page.fail.base
      BY <1>5, <2>1, <2>2, <2>4 DEF FailSeen
    <2> QED BY <1>1, <2>3, <2>4
  <1>8. UnnotedSeen(q) BY <1>1, <1>2, <1>6, <1>7, SeenFrom
  <1>9. lastPeer > 0 /\ srv.rev = lastPeer => ~HasSent(q, srv.val)
    BY <1>1, <1>4 DEF NewsUnsent, HasSent
  <1> QED BY <1>2, <1>6, <1>7, <1>8, <1>9 DEF RecordsSound, q

\* The PUT of an edit is lost, and makes it old intent.
LEMMA LostNoted ==
    ASSUME SyncInv, IntentInv, ViewInv', push.at = "sent",
           push.epoch = page.epoch, push.gen # origin.gen,
           UNCHANGED <<srv, section, strays, lastPeer>>,
           section.who # "page", push'.at = "idle", wire'.out = NoOut,
           origin' = [gen |-> push.gen, base |-> push.base],
           SameRecords(page', Failed(page, push.gen, push.base, TRUE))
    PROVE  IntentInv'
  <1> DEFINE q == Failed(page, push.gen, push.base, TRUE)
  <1>0. TypeOK BY DEF SyncInv
  <1>1. /\ q \in PageRecord /\ SameText(q, page) /\ SameSeen(q, page)
        /\ q.editGen = page.editGen /\ q.park = page.park
        /\ q.sends = page.sends /\ q.fail.gen = push.gen
        /\ q.fail.base = push.base
           \/ (page.fail.gen = push.gen /\ q.fail.base = page.fail.base)
        /\ q.fail.thrown
        /\ FailedNow(q) <=> push.gen = page.editGen
        /\ ParkedNow(q) <=> ParkedNow(page)
    BY PutFailed
  <1>2. PageBounds(q) BY FailedSound
  <1>3. SameRecords(page', q) OBVIOUS
  <1> HIDE DEF q
  <1>4. /\ page'.local = page.local /\ page'.base = page.base
        /\ page'.rev = page.rev /\ page'.editGen = page.editGen
        /\ page'.park = page.park /\ page'.sends = page.sends
        /\ page'.fail = q.fail
    BY <1>1, <1>3 DEF SameRecords, SameText, SameSeen
  <1>5. /\ srv' = srv /\ section' = section /\ strays' = strays
        /\ lastPeer' = lastPeer
        /\ origin'.gen = push.gen /\ origin'.base = push.base
    OBVIOUS
  <1>6. /\ push.gen \in Nat /\ page.editGen \in Nat /\ push.gen # 0
        /\ push.gen <= page.editGen
        /\ push.gen = page.editGen => push.base = NextBase(page)
        /\ push.base <= page.rev /\ push.base \in Nat
    BY PutInFlight
  <1>7. /\ BasesBounded /\ NewsUnsent /\ OldIntentNoted(page) /\ UnnotedSeen(page)
        /\ PutInHand /\ ThisPutSeen /\ PageBounds(page)
    BY DEF IntentInv, PutInv, BasesBounded
  <1>8. /\ lastPeer \in Nat /\ srv.rev \in Nat /\ page.rev \in Nat
        /\ origin.gen \in Nat /\ page.fail.base \in Nat /\ page \in PageRecord
        /\ \A st \in strays : st.base \in Nat
    BY <1>0, IntentNumbers
  <1>9. ~ParkedNow(page)
    <2>1. origin.gen <= push.gen BY <1>7 DEF PutInHand
    <2> QED BY <1>6, <1>7, <1>8, <2>1 DEF OldIntentNoted
  <1>10. /\ ParkedNow(page)' = ParkedNow(page)
         /\ FailedNow(page)' <=> push.gen = page.editGen
    BY <1>1, <1>4 DEF ParkedNow, FailedNow
  <1>11. StraysUpTo(push.base) BY <1>7 DEF ThisPutSeen
  <1>12. PageBounds(page)'
    <2>1. page'.fail.gen <= page'.editGen /\ page'.fail.base <= page'.rev
      BY <1>1, <1>2, <1>3 DEF PageBounds, SameRecords
    <2> QED BY <1>4, <1>5, <1>6, <1>7, <2>1 DEF PageBounds, StraysUpTo
  <1>13. BasesBounded' BY <1>5, <1>7, <1>12 DEF BasesBounded
  <1>14. PutTaken' BY <1>5, NothingSaid DEF PutTaken
  <1>15. NewsUnsent' BY <1>4, <1>5, <1>7, NothingSaid DEF NewsUnsent, HasSent
  <1>16. OldIntentNoted(page)'
    BY <1>4, <1>5, <1>9, <1>10 DEF OldIntentNoted
  <1>17. OldIntentKept'
    BY <1>1, <1>4, <1>5, <1>10 DEF OldIntentKept
  <1>18. ASSUME lastPeer > push.base PROVE StraysBelow(lastPeer)
    <2>1. lastPeer <= srv.rev BY <1>7 DEF BasesBounded
    <2> QED BY <1>6, <1>8, <1>11, <1>18, <2>1 DEF StraysUpTo, StraysBelow
  <1>19. PassedBy' <=> lastPeer > push.base BY <1>5 DEF PassedBy
  <1>20. GenYields'
    BY <1>5, <1>18, <1>19 DEF GenYields, StraysBelow
  <1>21. PageYields(page)'
    <2>1. SUFFICES ASSUME lastPeer > push.base, page.editGen = push.gen
                   PROVE  /\ StraysBelow(lastPeer) /\ srv.rev = lastPeer
                          /\ q.fail.base < lastPeer
      BY <1>4, <1>5, <1>9, <1>10, <1>19 DEF PageYields, StraysBelow
    <2>2. srv.rev = lastPeer
      <3>1. srv.rev > lastPeer => lastPeer <= push.base
        BY <1>6, <1>7, <2>1 DEF UnnotedSeen
      <3>2. lastPeer <= srv.rev BY <1>7 DEF BasesBounded
      <3> QED BY <1>6, <1>8, <2>1, <3>1, <3>2
    <2>3. q.fail.base < lastPeer
      <3>1. CASE q.fail.base = push.base BY <2>1, <3>1
      <3>2. CASE page.fail.gen = push.gen /\ q.fail.base = page.fail.base
        <4>1. push.base = page.rev \/ push.base = page.fail.base
          BY <1>6, <1>8, <1>9, <2>1, NextBaseIs
        <4>2. page.fail.base <= page.rev BY <1>7 DEF PageBounds
        <4> QED BY <1>6, <1>8, <2>1, <3>2, <4>1, <4>2
      <3> QED BY <1>1, <3>1, <3>2
    <2> QED BY <1>18, <2>1, <2>2, <2>3
  <1>22. UnnotedSeen(page)'
    <2>1. SUFFICES ASSUME push.gen # page.editGen
                   PROVE  /\ \A st \in strays' : st.base <= NextBase(q)
                          /\ section'.who = "stray" => srv'.rev <= NextBase(q)
                          /\ srv'.rev > lastPeer' => lastPeer' <= NextBase(q)
      <3>1. NextBase(page)' = NextBase(q)
        BY <1>3 DEF NextBase, SendBase, SameRecords
      <3> QED BY <1>4, <1>5, <3>1 DEF UnnotedSeen, StraysUpTo
    <2>2. NextBase(q) = q.rev BY <1>1, <1>9, <2>1, NextBaseIs
    <2> QED BY <1>2, <1>5, <2>2 DEF PageBounds, StraysUpTo
  <1>23. UnnotedFailure' BY <1>4, <1>5, <1>10 DEF UnnotedFailure
  <1>24. PutInv'
    BY NothingSaid
       DEF PutInv, PutInHand, UnnotedPut, ThisPutSeen, FlightYields
  <1> QED BY <1>13, <1>14, <1>15, <1>16, <1>17, <1>20, <1>21, <1>22, <1>23, <1>24
          DEF IntentInv

LEMMA PushReplyIntent == ASSUME SyncInv, IntentInv, PushReply PROVE IntentInv'
  <1>0. TypeOK /\ DiskFollows /\ ChannelHeld /\ PushKnown BY DEF SyncInv
  <1> DEFINE out == wire.out
             p == CASE out.kind = "saved" -> AfterSaved(page, out)
                    [] out.kind = "conflict" ->
                        IF page.off \/ page.epoch # push.epoch
                          THEN ParkedFailure(page, push.gen)
                          ELSE AfterConflict(page, out)
                    [] out.kind = "rejected" -> AfterRejected(page)
                    [] OTHER -> AfterFailure(page, out.kind = "lost")
  <1>1. /\ srv' = srv /\ section' = section /\ strays' = strays
        /\ lastPeer' = lastPeer
        /\ push.at = "sent" /\ wire.at = "answered"
        /\ Finished(p)
        /\ origin' = IF out.kind = "lost" /\ page.epoch = push.epoch
                       THEN NotedOrigin(page, push.gen, push.base) ELSE origin
        /\ \/ /\ wire' = [NoWire EXCEPT !.at = "asked"]
              /\ pull' = [NoPull EXCEPT !.at = "sent", !.epoch = page.epoch]
              /\ Converges
           \/ wire' = NoWire /\ pull' = pull
    BY DEF PushReply, brokerVars
  <1>2. section.who # "page" BY <1>0, <1>1 DEF DiskFollows
  <1>3. page.off => page.epoch # push.epoch BY <1>0, <1>1 DEF PushKnown
  <1>4. wire'.out = NoOut BY <1>1, WireBuilt, NothingSaid
  <1>5. /\ wire'.at # "none" => pull'.at = "sent"
        /\ \/ pull' = pull
           \/ pull'.epoch = page.epoch /\ push.epoch = page.epoch
    <2>1. CASE /\ pull' = [NoPull EXCEPT !.at = "sent", !.epoch = page.epoch]
               /\ Converges
      <3>1. pull'.at = "sent" /\ pull'.epoch = page.epoch BY <2>1 DEF NoPull
      <3> QED BY <2>1, <3>1 DEF Converges
    <2>2. CASE wire' = NoWire /\ pull' = pull BY <2>2, NothingSaid
    <2> QED BY <1>1, <2>1, <2>2
  <1>6. page \in PageRecord /\ push.gen \in Gens /\ push.gen # 0 /\ push.base \in Nat
    BY <1>0, <1>1, SmallFields, PutInFlight
  <1> HIDE DEF p
  \* The records, moved or cleared.
  <1>7. ASSUME p \in PageRecord, Moves(p), FailedNow(p) => FailSeen(page),
               IntentMarked(p), InView(p), origin' = origin
        PROVE  IntentInv'
    <2>1. /\ p.editGen = page.editGen /\ page.rev <= p.rev
          /\ \A v \in Vals : HasSent(p, v) => HasSent(page, v)
      BY <1>7 DEF Moves
    <2>2. ViewInv' BY <1>1, <1>5, <1>7, <2>1, ReplyViews
    <2>3. RecordsSound(p) /\ FailSeen(p) BY <1>7, MovesSound
    <2>4. push'.at = "idle" /\ SameRecords(page', p)
      BY <1>0, <1>1, <1>7, FinishedKeeps
    <2> QED BY <1>1, <1>2, <1>4, <1>7, <2>1, <2>2, <2>3, <2>4, ReplyKeeps
  \* ... or with the PUT of this view noted as failed.
  <1>8. ASSUME NEW thrown \in BOOLEAN, push.epoch = page.epoch,
               p = Failed(page, push.gen, push.base, thrown)
        PROVE  /\ p \in PageRecord /\ p.editGen = page.editGen /\ IntentMarked(p)
               /\ page.rev <= p.rev
               /\ \A v \in Vals : HasSent(p, v) => HasSent(page, v)
               /\ ViewInv' /\ push'.at = "idle" /\ SameRecords(page', p)
    <2>1. /\ p \in PageRecord /\ SameSeen(p, page) /\ p.editGen = page.editGen
          /\ p.sends = page.sends /\ InView(p)
      BY <1>1, <1>8, PutFailed
    <2>2. IntentMarked(p) BY <1>1, <1>8, FailedSound
    <2>3. page.rev \in Nat BY <1>0, IntentNumbers
    <2>4. page.rev <= p.rev BY <2>1, <2>3 DEF SameSeen
    <2>5. \A v \in Vals : HasSent(p, v) => HasSent(page, v) BY <2>1 DEF HasSent
    <2>6. ViewInv' BY <1>1, <1>5, <1>8, <2>1, ReplyViews
    <2>7. push'.at = "idle" /\ SameRecords(page', p)
      BY <1>0, <1>1, <2>1, FinishedKeeps
    <2> QED BY <2>1, <2>2, <2>4, <2>5, <2>6, <2>7
  <1>9. CASE out.kind = "saved"
    <2>1. p = AfterSaved(page, out) /\ origin' = origin BY <1>1, <1>9 DEF p
    <2>2. p \in PageRecord /\ Moves(p) /\ ~FailedNow(p) /\ IntentMarked(p) /\ InView(p)
      BY <1>1, <1>9, <2>1, SavedMoves
    <2> QED BY <1>7, <2>1, <2>2
  <1>10. ASSUME push.epoch # page.epoch \/ out.kind \notin {"lost", "saved"},
                p = ParkedFailure(page, push.gen), origin' = origin
         PROVE  IntentInv'
    <2>1. p \in PageRecord BY <1>6, <1>10, ParkedFailureDoes
    <2>2. /\ Moves(p) /\ (FailedNow(p) => FailSeen(page))
          /\ IntentMarked(p) /\ InView(p)
      BY <1>1, <1>10, OldViewMoves
    <2> QED BY <1>7, <1>10, <2>1, <2>2
  <1>11. CASE out.kind = "conflict" /\ push.epoch # page.epoch
    <2>1. p = ParkedFailure(page, push.gen) /\ origin' = origin
      BY <1>1, <1>11 DEF p
    <2> QED BY <1>10, <1>11, <2>1
  <1>12. CASE out.kind = "conflict" /\ push.epoch = page.epoch
    <2>1. p = AfterConflict(page, out) /\ origin' = origin
      BY <1>1, <1>3, <1>12 DEF p
    <2>2. p \in PageRecord BY <1>1, <1>12, <2>1, ConflictSettles
    <2>3. /\ Moves(p) /\ (FailedNow(p) => FailSeen(page))
          /\ IntentMarked(p) /\ InView(p)
      BY <1>1, <1>12, <2>1, ConflictMoves
    <2> QED BY <1>7, <2>1, <2>2, <2>3
  <1>13. CASE out.kind = "rejected"
    <2>1. p = AfterRejected(page) /\ origin' = origin BY <1>1, <1>13 DEF p
    <2>2. p \in PageRecord BY <1>1, <2>1, RejectedSettles
    <2>3. /\ Moves(p) /\ (FailedNow(p) => FailSeen(page))
          /\ IntentMarked(p) /\ InView(p)
      BY <1>1, <1>13, <2>1, RejectedMoves
    <2> QED BY <1>7, <2>1, <2>2, <2>3
  <1>14. CASE /\ out.kind \notin {"saved", "conflict", "rejected"}
              /\ push.epoch # page.epoch
    <2>1. p = ParkedFailure(page, push.gen) /\ origin' = origin
      BY <1>1, <1>14 DEF p, AfterFailure
    <2> QED BY <1>10, <1>14, <2>1
  <1>15. CASE /\ out.kind \notin {"saved", "conflict", "rejected", "lost"}
              /\ push.epoch = page.epoch
    <2>1. p = Failed(page, push.gen, push.base, FALSE) /\ origin' = origin
      BY <1>1, <1>15 DEF p, AfterFailure
    <2>2. /\ p \in PageRecord /\ p.editGen = page.editGen /\ IntentMarked(p)
          /\ page.rev <= p.rev
          /\ \A v \in Vals : HasSent(p, v) => HasSent(page, v)
          /\ ViewInv' /\ push'.at = "idle" /\ SameRecords(page', p)
      BY <1>8, <1>15, <2>1
    <2>3. RecordsSound(p) /\ FailSeen(p) BY <1>1, <1>15, <2>1, PutFailedSound
    <2> QED BY <1>1, <1>2, <1>4, <2>1, <2>2, <2>3, ReplyKeeps
  <1>16. CASE out.kind = "lost" /\ push.epoch = page.epoch
    <2>1. /\ p = Failed(page, push.gen, push.base, TRUE)
          /\ origin' = NotedOrigin(page, push.gen, push.base)
      BY <1>1, <1>16 DEF p, AfterFailure
    <2>2. /\ p \in PageRecord /\ p.editGen = page.editGen /\ IntentMarked(p)
          /\ page.rev <= p.rev
          /\ \A v \in Vals : HasSent(p, v) => HasSent(page, v)
          /\ ViewInv' /\ push'.at = "idle" /\ SameRecords(page', p)
      BY <1>8, <1>16, <2>1
    <2>3. CASE push.gen = origin.gen
      <3>1. origin' = origin BY <2>1, <2>3 DEF NotedOrigin
      <3>2. RecordsSound(p) /\ FailSeen(p)
        BY <1>1, <1>16, <2>1, <2>3, PutFailedSound
      <3> QED BY <1>1, <1>2, <1>4, <2>2, <3>1, <3>2, ReplyKeeps
    <2>4. CASE push.gen # origin.gen
      <3>1. origin' = [gen |-> push.gen, base |-> push.base]
        BY <2>1, <2>4 DEF NotedOrigin
      <3> QED BY <1>1, <1>2, <1>4, <1>16, <2>1, <2>2, <2>4, <3>1, LostNoted
    <2> QED BY <2>3, <2>4
  <1> QED BY <1>9, <1>11, <1>12, <1>13, <1>14, <1>15, <1>16

-----------------------------------------------------------------------------
(* Every step keeps the second invariant, and what follows from it.        *)

LEMMA StepIntent == ASSUME SyncInv, IntentInv, [Next]_vars PROVE IntentInv'
  <1>1. CASE UNCHANGED vars
    <2>1. /\ UNCHANGED pageVars /\ srv' = srv /\ lastPeer' = lastPeer
          /\ section' = section /\ strays' = strays /\ wire' = wire
      BY <1>1 DEF vars, brokerVars, netVars
    <2>2. StraysFollow /\ SectionFollows BY <2>1, NothingTaken
    <2>3. AnswerFollows BY <2>1 DEF AnswerFollows
    <2> QED BY <2>1, <2>2, <2>3, QuietKeeps DEF BrokerQuiet
  <1>2. CASE \/ AnswerGet \/ TakePut \/ TakeStray \/ WriteLands \/ WriteFails
             \/ Commit \/ (\E v \in Vals \ Refused : TakePeer(v))
             \/ Crash \/ GiveUp \/ AnswerBadly
    <2>1. BrokerQuiet \/ BrokerCommits
      BY <1>2, AnswerGetQuiet, TakePutQuiet, TakeStrayQuiet, WriteLandsQuiet,
         WriteFailsQuiet, CommitCommits, TakePeerQuiet, CrashFollows, GiveUpQuiet,
         AnswerBadlyQuiet
    <2> QED BY <2>1, QuietKeeps, CommitsKeeps
  <1>3. CASE \/ (\E v \in Vals : Edit(v)) \/ TimerFires \/ PushSends \/ PushReply
             \/ PullPolls \/ PullReply \/ Teardown \/ Rebuild
             \/ \E e \in Epochs : Flush(e) \/ PullsAtRebuild(e)
    BY <1>3, EditIntent, TimerFiresIntent, PushSendsIntent, PushReplyIntent,
       PullPollsIntent, PullReplyIntent, TeardownIntent, RebuildIntent,
       FlushIntent, PullsAtRebuildIntent
  <1> QED BY <1>1, <1>2, <1>3 DEF Next

\* A write of old intent that runs, runs on less than a peer's it passed by: so
\* there is none it passed by.
LEMMA WriteYields ==
    ASSUME SyncInv, IntentInv, section.who \in {"page", "stray"},
           section.gen = origin.gen
    PROVE  lastPeer <= origin.base
  <1>1. lastPeer \in Nat /\ origin.base \in Nat /\ srv.rev \in Nat
    BY IntentNumbers DEF SyncInv
  <1>2. SUFFICES ASSUME PassedBy PROVE FALSE BY <1>1 DEF PassedBy
  <1>3. section.who = "page" BY <1>2 DEF IntentInv, GenYields
  <1>4. push.at = "sent" BY <1>3 DEF SyncInv, DiskFollows
  <1>5. push.gen = origin.gen /\ srv.rev = push.base /\ push.val \notin Refused
    BY <1>3 DEF IntentInv, PutTaken
  <1>6. push.base < lastPeer BY <1>2, <1>4, <1>5 DEF IntentInv, GenYields
  <1>7. lastPeer <= srv.rev BY DEF IntentInv, BasesBounded
  <1> QED BY <1>1, <1>5, <1>6, <1>7

\* Both invariants hold throughout: the second is what old intent needs.
THEOREM SyncIntent == Spec => [](SyncInv /\ IntentInv)
  <1>1. Init => SyncInv /\ IntentInv BY InitSync, InitIntent
  <1>2. SyncInv /\ IntentInv /\ [Next]_vars => SyncInv' /\ IntentInv'
    BY StepSync, StepIntent
  <1> QED BY <1>1, <1>2, PTL DEF Spec

\* An edit that was parked by a teardown, or whose PUT was lost, never overwrites
\* a peer's write that its base did not include (pushState's choice of its base,
\* _stateParkPendingPush, the 409 of PUT /state).
THEOREM SyncOldIntentYields == Spec => OldIntentYields
  <1>1. SyncInv /\ IntentInv /\ [Next]_vars =>
            [(/\ srv'.rev > srv.rev /\ section.who \in {"page", "stray"}
              /\ section.gen = origin.gen)
                => lastPeer <= origin.base]_vars
    BY WriteYields
  <1> QED BY <1>1, SyncIntent, PTL DEF Spec, OldIntentYields

\* The page's revision never goes back, and old intent yields: what it meant on
\* an older state is never written over what it has not seen.
THEOREM SyncIntentsAreOrdered == Spec => IntentsAreOrdered
  BY SyncRevNeverGoesBack, SyncOldIntentYields, PTL DEF IntentsAreOrdered

=============================================================================
