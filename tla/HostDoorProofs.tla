----------------------------- MODULE HostDoorProofs -----------------------------
(***************************************************************************)
(* What HostDoor promises for every value of its constants: a password is  *)
(* only ever handed to the machine it is kept for.  A record's password is *)
(* kept for the machine its record leads to, and a request's for the one   *)
(* it is on its way to; nothing of the reads of /info, their memo or the   *)
(* broker's own state is needed, so no order of restarts, stale reads and  *)
(* switches can break it.  The second half proves the types, and with them *)
(* that no request waits for nothing and that a read always finds a place. *)
(***************************************************************************)
EXTENDS HostDoor, FiniteSetTheorems, TLAPS

-----------------------------------------------------------------------------
(* The inductive invariant; `late` are the hosts whose password was stored  *)
(* by a login that their address had changed under.                         *)

PageFields == {"rec", "memo", "asks", "reqs", "login", "asked", "grants", "boot"}
RecFields == {"on", "via", "peer", "url", "tok", "paired", "bid"}
ReqFields == {"id", "kind", "h", "from", "url", "stage", "ask", "way", "org", "tok", "btok",
              "ans", "m", "fit", "cur"}
TokFields == {"at", "of", "n"}
HistFields == {"stray", "late", "off", "nagged"}

TokShaped(tok) == tok # None => DOMAIN tok = TokFields

\* A record's password is kept for the machine the record leads to.  A record
\* without a pairing leads nowhere: the broker refuses what it sends.
RecTokKept(r, h, late) ==
    r.tok # None => \/ h \in late
                    \/ r.tok.at = Where(r)
                    \/ Proxied(r) /\ r.paired = None
RecKept(r, h, late) ==
    /\ DOMAIN r = RecFields /\ TokShaped(r.tok)
    /\ Proxied(r) <=> r.peer # None
    /\ ~Proxied(r) => r.paired = None
    /\ RecTokKept(r, h, late)

\* A request's password is kept for the machine it is on its way to.
Astray(r) == /\ r.way = None => r.tok.at # Machine("direct", r.url)
             /\ r.way # None => r.org # None /\ r.tok.at # Machine("server", r.org)
OnItsWay(r) == \/ r.stage = "sent"
               \/ r.kind \in {"probe", "add"} /\ r.stage \in {"back", "again"}
ReqTokKept(r, late) ==
    r.tok # None =>
        /\ OnItsWay(r) => r.h \in late \/ ~Astray(r)
        /\ (r.stage = "info" /\ r.kind \in {"probe", "ident"}) =>
               r.h \in late \/ r.org = None \/ r.tok.at = Machine("server", r.org)

\* Which way a login went: a host that was direct when it was submitted is
\* asked directly, and one that was not but is when the pairing is known goes
\* without a pairing.
LoginWay(r) ==
    /\ DOMAIN r.tok = TokFields
    /\ r.stage = "pair" => r.way = None /\ r.from # None
    /\ r.stage = "info" => r.way # None
    /\ r.way # None => r.from # None
    /\ (r.way = None /\ r.from # None /\ r.stage # "pair") => r.org = None
ReqKept(r, late) ==
    /\ DOMAIN r = ReqFields /\ TokShaped(r.tok) /\ r.h \in Ids
    /\ r.kind \in {"poll", "mint", "ident", "probe", "add", "switch"}
    /\ r.stage \in {"pair", "info", "sent", "back", "again"}
    /\ r.kind = "switch" => r.stage = "pair"
    /\ r.stage = "pair" => r.kind \in {"probe", "switch"}
    /\ r.kind = "add" => r.way = None /\ r.stage # "info"
    /\ r.kind = "probe" => LoginWay(r)
    /\ ReqTokKept(r, late)

PageKept(P, late) ==
    /\ DOMAIN P = PageFields /\ DOMAIN P.rec = Ids
    /\ \A h \in Ids : RecKept(P.rec[h], h, late)
    /\ \A r \in P.reqs : ReqKept(r, late)

DoorInv == /\ DOMAIN hist = HistFields
           /\ PageKept(pg, hist.late)
           /\ TokenReachesItsMachine

-----------------------------------------------------------------------------
(* What leaves the records and the requests alone.                          *)

Alike(q, r) == q = r \/ q = [r EXCEPT !.cur = FALSE]
Carries(P, Q) == /\ DOMAIN Q = PageFields /\ Q.rec = P.rec
                 /\ \A q \in Q.reqs : \E r \in P.reqs : Alike(q, r)

LEMMA AlikeKept ==
    ASSUME NEW L, NEW r, ReqKept(r, L), NEW q, Alike(q, r)
    PROVE  ReqKept(q, L)
  <1>1. CASE q = r BY <1>1
  <1>2. CASE q = [r EXCEPT !.cur = FALSE]
    <2>1. DOMAIN r = ReqFields BY DEF ReqKept
    <2>2. /\ DOMAIN q = ReqFields /\ q.kind = r.kind /\ q.stage = r.stage /\ q.h = r.h
          /\ q.tok = r.tok /\ q.way = r.way /\ q.org = r.org /\ q.from = r.from /\ q.url = r.url
      BY <1>2, <2>1 DEF ReqFields
    <2> QED BY <2>2 DEF ReqKept, ReqTokKept, OnItsWay, Astray, LoginWay
  <1> QED BY <1>1, <1>2 DEF Alike

LEMMA CarryKept ==
    ASSUME NEW L, NEW P, PageKept(P, L), NEW Q, Carries(P, Q)
    PROVE  PageKept(Q, L)
  <1>1. \A q \in Q.reqs : ReqKept(q, L) BY AlikeKept DEF Carries, PageKept
  <1> QED BY <1>1 DEF Carries, PageKept

LEMMA FieldsCarry ==
    ASSUME NEW P, DOMAIN P = PageFields, NEW i, NEW a, NEW hs
    PROVE  /\ Carries(P, SetAsk(P, i, a)) /\ Carries(P, Asked(P)) /\ Carries(P, Forgotten(P))
           /\ Carries(P, Tidy(P)) /\ Carries(P, Pruned(P)) /\ Carries(P, Invalidated(P, hs))
           /\ Carries(P, Stale(P)) /\ Carries(P, Hide(P))
  <1>1. Carries(P, SetAsk(P, i, a)) BY DEF SetAsk, Carries, Alike, PageFields
  <1>2. Carries(P, Asked(P))
    <2>1. CASE P.memo # None BY <2>1 DEF Asked, Carries, Alike
    <2>2. CASE P.memo = None
      <3> DEFINE j == CHOOSE j \in Asks : ~Waits(P, j)
                 b == [NoAsk EXCEPT !.st = "out", !.tok = P.rec[Local].tok]
      <3>1. Asked(P) = [SetAsk(P, j, b) EXCEPT !.memo = j] BY <2>2 DEF Asked
      <3> HIDE DEF j, b
      <3> QED BY <3>1 DEF SetAsk, Carries, Alike, PageFields
    <2> QED BY <2>1, <2>2
  <1>3. Carries(P, Forgotten(P)) BY DEF Forgotten, Carries, Alike, PageFields
  <1>4. Carries(P, Tidy(P)) BY DEF Tidy, Carries, Alike, PageFields
  <1>5. Carries(P, Pruned(P)) BY DEF Pruned, Carries, Alike, PageFields
  <1>6. Carries(P, Invalidated(P, hs)) BY DEF Invalidated, Carries, Alike, PageFields
  <1>7. Carries(P, Stale(P)) BY DEF Stale, Carries, Alike, PageFields
  <1>8. Carries(P, Hide(P))
    <2>1. Hide(P).rec = Stale(P).rec /\ Hide(P).reqs = Stale(P).reqs /\ DOMAIN Hide(P) = PageFields
      BY <1>7 DEF Hide, Carries, PageFields
    <2> QED BY <1>7, <2>1 DEF Carries
  <1> QED BY <1>1, <1>2, <1>3, <1>4, <1>5, <1>6, <1>7, <1>8

\* The same, as what is kept.
LEMMA FieldsKept ==
    ASSUME NEW L, NEW P, PageKept(P, L), NEW i, NEW a, NEW hs
    PROVE  /\ PageKept(SetAsk(P, i, a), L) /\ PageKept(Asked(P), L) /\ PageKept(Forgotten(P), L)
           /\ PageKept(Tidy(P), L) /\ PageKept(Pruned(P), L) /\ PageKept(Invalidated(P, hs), L)
           /\ PageKept(Stale(P), L) /\ PageKept(Hide(P), L)
  <1>1. DOMAIN P = PageFields BY DEF PageKept
  <1> QED BY <1>1, FieldsCarry, CarryKept

LEMMA ShowKept ==
    ASSUME NEW L, NEW P, PageKept(P, L), NEW h, NEW force
    PROVE  PageKept(Show(P, h, force), L)
  <1>1. PageKept(Stale(P), L) BY FieldsKept
  <1> DEFINE Q == [Stale(P) EXCEPT !.login = h, !.asked = @ \cup {h}]
  <1>2. DOMAIN Q = PageFields /\ Q.rec = Stale(P).rec /\ Q.reqs = Stale(P).reqs
    BY <1>1 DEF PageKept, PageFields
  <1>3. Show(P, h, force) \in {P, Q} BY DEF Show
  <1> HIDE DEF Q
  <1>4. PageKept(Q, L) BY <1>1, <1>2 DEF PageKept
  <1> QED BY <1>3, <1>4

LEMMA WithKept ==
    ASSUME NEW L, NEW P, PageKept(P, L), NEW r, NEW q, ReqKept(q, L)
    PROVE  PageKept(With(P, q), L) /\ PageKept(Without(P, r), L) /\ PageKept(AsIs(P, r, q), L)
  <1>1. ASSUME NEW Q, PageKept(Q, L) PROVE PageKept(With(Q, q), L)
    BY <1>1 DEF PageKept, With, PageFields
  <1>2. PageKept(Without(P, r), L) BY DEF PageKept, Without, PageFields
  <1> QED BY <1>1, <1>2 DEF AsIs

LEMMA WithoutKept ==
    ASSUME NEW L, NEW P, PageKept(P, L), NEW r
    PROVE  PageKept(Without(P, r), L)
  BY DEF PageKept, Without, PageFields

LEMMA SetRecKept ==
    ASSUME NEW L, NEW P, PageKept(P, L), NEW h \in Ids, NEW x, RecKept(x, h, L)
    PROVE  PageKept(SetRec(P, h, x), L)
  <1> DEFINE f == [P.rec EXCEPT ![h] = x]
  <1>1. DOMAIN f = Ids /\ \A d \in Ids : f[d] = IF d = h THEN x ELSE P.rec[d] BY DEF PageKept
  <1>2. SetRec(P, h, x) = [P EXCEPT !.rec = f] BY DEF SetRec
  <1> HIDE DEF f
  <1> QED BY <1>1, <1>2 DEF PageKept, PageFields

-----------------------------------------------------------------------------
(* What changes the records.                                                *)

LEMMA NotPublished ==
    ASSUME HostDoorAssumption, NEW info
    PROVE  Published(info, None) = None
  BY DEF HostDoorAssumption, Published

\* A record whose peer is published elsewhere loses its password.
LEMMA RePairKept ==
    ASSUME NEW L, NEW P, PageKept(P, L), NEW info
    PROVE  PageKept(RePaired(P, info), L)
  <1> DEFINE new(r) == [r EXCEPT !.tok = None, !.paired = Published(info, r.peer),
                                 !.url = Published(info, r.peer)]
             f == [h \in Ids |-> IF h \in Moved(P, info) THEN new(P.rec[h]) ELSE P.rec[h]]
             Q == [P EXCEPT !.rec = f]
  <1>1. RePaired(P, info) \in {P, Pruned(Invalidated(Q, Moved(P, info)))} BY DEF RePaired
  <1>2. ASSUME NEW h \in Ids PROVE RecKept(f[h], h, L)
    <2>1. RecKept(P.rec[h], h, L) BY DEF PageKept
    <2>2. CASE h \in Moved(P, info)
      <3>1. Proxied(P.rec[h]) BY <2>2 DEF Moved
      <3>2. /\ DOMAIN new(P.rec[h]) = RecFields /\ new(P.rec[h]).tok = None
            /\ new(P.rec[h]).via = P.rec[h].via /\ new(P.rec[h]).peer = P.rec[h].peer
        BY <2>1 DEF RecKept, RecFields
      <3>3. f[h] = new(P.rec[h]) BY <2>2
      <3> HIDE DEF new, f
      <3> QED BY <2>1, <3>1, <3>2, <3>3 DEF RecKept, RecTokKept, TokShaped, Proxied
    <2>3. CASE h \notin Moved(P, info) BY <2>1, <2>3
    <2> QED BY <2>2, <2>3
  <1>3. DOMAIN f = Ids OBVIOUS
  <1> HIDE DEF f
  <1>4. PageKept(Q, L) BY <1>2, <1>3 DEF PageKept, PageFields
  <1> HIDE DEF Q
  <1>5. PageKept(Invalidated(Q, Moved(P, info)), L) BY <1>4, FieldsKept
  <1>6. PageKept(Pruned(Invalidated(Q, Moved(P, info))), L) BY <1>5, FieldsKept
  <1> QED BY <1>1, <1>6

LEMMA CommitKept ==
    ASSUME NEW L, NEW P, PageKept(P, L), NEW i
    PROVE  PageKept(Commit(P, i), L)
  BY RePairKept DEF Commit

\* A switch keeps the password only for an address both networks mean alike.
LEMMA SetHostModeKept ==
    ASSUME HostDoorAssumption, NEW L, NEW P, PageKept(P, L), NEW h \in Ids, NEW p, NEW info
    PROVE  PageKept(SetHostMode(P, h, p, info), L)
  <1> DEFINE r == P.rec[h]
             o == Published(info, p)
             able == r.on /\ ~Twin(P, h, p) /\ (IF p # None THEN o # None /\ r.peer # p ELSE Proxied(r))
             keep == IF p # None THEN ~Proxied(r) /\ r.url = o /\ o \in Shared
                                 ELSE r.paired = r.url /\ r.url \in Shared
             tok == IF keep THEN r.tok ELSE None
             new == IF p # None
                      THEN [r EXCEPT !.via = "server", !.peer = p, !.paired = o, !.url = o,
                                     !.tok = tok, !.bid = None]
                      ELSE [r EXCEPT !.via = "direct", !.peer = None, !.paired = None,
                                     !.tok = tok, !.bid = None]
  <1>1. SetHostMode(P, h, p, info) \in {P, Pruned(Invalidated(SetRec(P, h, new), {h}))}
    BY DEF SetHostMode
  <1>2. CASE ~able BY <1>2 DEF SetHostMode
  <1>3. CASE able
    <2>1. RecKept(r, h, L) BY DEF PageKept
    <2>2. Shared \subseteq Origins /\ None \notin Origins BY DEF HostDoorAssumption
    <2>3. \A x \in Shared : Machine("server", x) = Machine("direct", x) BY DEF Machine
    <2>4. ASSUME p # None PROVE RecKept(new, h, L)
      <3>1. /\ DOMAIN new = RecFields /\ new.via = "server" /\ new.peer = p /\ new.paired = o
            /\ new.tok = tok
        BY <2>1, <2>4 DEF RecKept, RecFields
      <3>2. tok # None => /\ r.tok # None /\ tok = r.tok /\ ~Proxied(r) /\ r.url = o /\ o \in Shared
        BY <2>4
      <3>3. tok # None => h \in L \/ tok.at = Machine("server", o)
        BY <2>1, <2>3, <3>2 DEF RecKept, RecTokKept, Where
      <3>4. TokShaped(tok) BY <2>1, <3>2 DEF RecKept, TokShaped
      <3> HIDE DEF new, tok, o
      <3> QED BY <2>4, <3>1, <3>3, <3>4 DEF RecKept, RecTokKept, Proxied, Where
    <2>5. ASSUME p = None PROVE RecKept(new, h, L)
      <3>1. /\ DOMAIN new = RecFields /\ new.via = "direct" /\ new.peer = None /\ new.paired = None
            /\ new.tok = tok /\ new.url = r.url
        BY <2>1, <2>5 DEF RecKept, RecFields
      <3>2. tok # None => /\ r.tok # None /\ tok = r.tok /\ Proxied(r) /\ r.paired = r.url
                          /\ r.url \in Shared
        BY <1>3, <2>5
      <3>3. tok # None => h \in L \/ tok.at = Machine("direct", r.url)
        BY <2>1, <2>2, <2>3, <3>2 DEF RecKept, RecTokKept, Where
      <3>4. TokShaped(tok) BY <2>1, <3>2 DEF RecKept, TokShaped
      <3> HIDE DEF new, tok, o
      <3> QED BY <3>1, <3>3, <3>4 DEF RecKept, RecTokKept, Proxied, Where
    <2>6. RecKept(new, h, L) BY <2>4, <2>5
    <2> HIDE DEF new, able
    <2>7. PageKept(SetRec(P, h, new), L) BY <2>6, SetRecKept
    <2>8. PageKept(Invalidated(SetRec(P, h, new), {h}), L) BY <2>7, FieldsKept
    <2>9. PageKept(Pruned(Invalidated(SetRec(P, h, new), {h})), L) BY <2>8, FieldsKept
    <2> QED BY <1>1, <2>9
  <1> QED BY <1>2, <1>3

-----------------------------------------------------------------------------
(* Requests on their way.                                                   *)

\* A request as it is made from its host's record.
LEMMA NewMade ==
    ASSUME HostDoorAssumption, NEW L, PageKept(pg, L), NEW s, NEW h \in Ids,
           NEW kind \in {"poll", "mint", "ident", "probe"}
    PROVE  LET r == New(s, kind, h)
           IN  /\ DOMAIN r = ReqFields /\ r.kind = kind /\ r.h = h /\ r.stage = "sent"
               /\ r.way = None /\ r.from = WayIn(pg.rec[h]) /\ r.url = pg.rec[h].url
               /\ r.tok = pg.rec[h].tok /\ r.org = pg.rec[h].paired
  BY DEF New, NoReq, ReqFields

LEMMA LeavesKept ==
    ASSUME HostDoorAssumption, NEW L, PageKept(pg, L), NEW s, NEW h \in Ids,
           NEW kind \in {"poll", "mint", "ident"}
    PROVE  PageKept(Leaves(pg, New(s, kind, h), pg.rec[h]), L)
  <1> DEFINE r == New(s, kind, h)
             rec == pg.rec[h]
  <1>1. /\ DOMAIN r = ReqFields /\ r.kind = kind /\ r.h = h /\ r.stage = "sent"
        /\ r.way = None /\ r.url = rec.url /\ r.tok = rec.tok /\ r.org = rec.paired
    BY NewMade
  <1>2. RecKept(rec, h, L) BY DEF PageKept
  <1> HIDE DEF r
  <1>3. CASE Proxied(rec)
    <2> DEFINE q == [r EXCEPT !.stage = "info", !.ask = Asked(pg).memo]
    <2>1. /\ DOMAIN q = ReqFields /\ q.kind = kind /\ q.h = h /\ q.stage = "info"
          /\ q.way = None /\ q.url = rec.url /\ q.tok = rec.tok /\ q.org = rec.paired
      BY <1>1 DEF ReqFields
    <2>2. Leaves(pg, r, rec) = With(Asked(pg), q) BY <1>3 DEF Leaves
    <2> HIDE DEF q
    <2>3. ReqKept(q, L)
      BY <1>2, <1>3, <2>1 DEF ReqKept, ReqTokKept, OnItsWay, RecKept, RecTokKept, Where
    <2>4. PageKept(Asked(pg), L) BY FieldsKept
    <2> QED BY <2>2, <2>3, <2>4, WithKept DEF r
  <1>4. CASE ~Proxied(rec)
    <2> DEFINE q == [r EXCEPT !.stage = "sent", !.url = rec.url]
    <2>1. /\ DOMAIN q = ReqFields /\ q.kind = kind /\ q.h = h /\ q.stage = "sent"
          /\ q.way = None /\ q.url = rec.url /\ q.tok = rec.tok
      BY <1>1 DEF ReqFields
    <2>2. Leaves(pg, r, rec) = With(pg, q) BY <1>4 DEF Leaves
    <2> HIDE DEF q
    <2>3. ReqKept(q, L)
      BY <1>2, <1>4, <2>1 DEF ReqKept, ReqTokKept, OnItsWay, Astray, RecKept, RecTokKept, Where
    <2> QED BY <2>2, <2>3, WithKept DEF r
  <1> QED BY <1>3, <1>4

\* The stages a request goes through, but for being sent.
LEMMA MovesKept ==
    ASSUME NEW L, NEW r, ReqKept(r, L), NEW ask, NEW ans
    PROVE  /\ r.stage \in {"info", "sent"} \/ r.stage = "again" =>
                ReqKept([r EXCEPT !.stage = "back", !.ask = ask, !.ans = ans], L)
           /\ r.stage = "sent" => ReqKept([r EXCEPT !.stage = "back", !.ans = ans], L)
  <1>1. ASSUME NEW q, DOMAIN q = ReqFields, q.kind = r.kind, q.h = r.h, q.tok = r.tok, q.way = r.way,
               q.org = r.org, q.from = r.from, q.url = r.url, q.stage = "back",
               r.stage \in {"info", "sent", "again"}
        PROVE  ReqKept(q, L)
    BY <1>1 DEF ReqKept, ReqTokKept, OnItsWay, Astray, LoginWay
  <1>2. DOMAIN r = ReqFields BY DEF ReqKept
  <1> DEFINE q1 == [r EXCEPT !.stage = "back", !.ask = ask, !.ans = ans]
             q2 == [r EXCEPT !.stage = "back", !.ans = ans]
  <1>3. DOMAIN q1 = ReqFields /\ q1.kind = r.kind /\ q1.h = r.h /\ q1.tok = r.tok /\ q1.way = r.way
        /\ q1.org = r.org /\ q1.from = r.from /\ q1.url = r.url /\ q1.stage = "back"
    BY <1>2 DEF ReqFields
  <1>4. DOMAIN q2 = ReqFields /\ q2.kind = r.kind /\ q2.h = r.h /\ q2.tok = r.tok /\ q2.way = r.way
        /\ q2.org = r.org /\ q2.from = r.from /\ q2.url = r.url /\ q2.stage = "back"
    BY <1>2 DEF ReqFields
  <1> HIDE DEF q1, q2
  <1>5. r.stage \in {"info", "sent"} \/ r.stage = "again" => ReqKept(q1, L) BY <1>1, <1>3
  <1>6. r.stage = "sent" => ReqKept(q2, L) BY <1>1, <1>4
  <1> QED BY <1>5, <1>6 DEF q1, q2

LEMMA ThroughKept ==
    ASSUME HostDoorAssumption, NEW L, NEW P, PageKept(P, L), NEW r, ReqKept(r, L), r.stage = "info"
    PROVE  PageKept(Through(P, r), L)
  <1> DEFINE rec == P.rec[r.h]
             copy == r.kind \in {"probe", "ident"}
             p == IF r.kind = "probe" THEN r.way ELSE IF r.kind = "ident" THEN r.from ELSE WayIn(rec)
  <1>1. CASE Published(P.asks[r.ask], p) = None
    <2> DEFINE q == [r EXCEPT !.stage = "back", !.ask = None, !.ans = "503"]
    <2>1. Through(P, r) = AsIs(Forgotten(P), r, q) BY <1>1 DEF Through
    <2>2. ReqKept(q, L) BY MovesKept
    <2>3. PageKept(Forgotten(P), L) BY FieldsKept
    <2> HIDE DEF q
    <2> QED BY <2>1, <2>2, <2>3, WithKept
  <1>2. CASE Published(P.asks[r.ask], p) # None
    <2> DEFINE tok == IF copy THEN r.tok ELSE rec.tok
               org == IF copy THEN r.org ELSE rec.paired
               q == [r EXCEPT !.stage = "sent", !.ask = None, !.way = p, !.btok = P.rec[Local].tok,
                              !.tok = tok, !.org = org]
    <2>1. Through(P, r) = AsIs(P, r, q) BY <1>2 DEF Through
    <2>2. p # None BY <1>2, NotPublished
    <2>3. DOMAIN r = ReqFields /\ r.h \in Ids /\ RecKept(rec, r.h, L) BY DEF ReqKept, PageKept
    <2>4. /\ DOMAIN q = ReqFields /\ q.kind = r.kind /\ q.h = r.h /\ q.stage = "sent"
          /\ q.way = p /\ q.tok = tok /\ q.org = org /\ q.from = r.from
      BY <2>3 DEF ReqFields
    <2>5. TokShaped(tok) BY <2>3 DEF RecKept, ReqKept
    <2>6. tok # None => r.h \in L \/ org = None \/ tok.at = Machine("server", org)
      <3>1. CASE copy BY <3>1 DEF ReqKept, ReqTokKept
      <3>2. CASE ~copy
        <4>1. Proxied(rec) BY <2>2, <3>2 DEF WayIn
        <4> QED BY <2>3, <3>2, <4>1 DEF RecKept, RecTokKept, Where
      <3> QED BY <3>1, <3>2
    <2>7. r.kind = "probe" => r.from # None /\ DOMAIN tok = TokFields BY DEF ReqKept, LoginWay
    <2>8. r.kind \in {"poll", "mint", "ident", "probe"} BY DEF ReqKept
    <2> HIDE DEF q, tok, org, p
    <2>9. ReqKept(q, L)
      BY <2>2, <2>3, <2>4, <2>5, <2>6, <2>7, <2>8 DEF ReqKept, ReqTokKept, OnItsWay, Astray, LoginWay
    <2> QED BY <2>1, <2>9, WithKept
  <1> QED BY <1>1, <1>2

LEMMA TokMade ==
    ASSUME NEW tok, DOMAIN tok = TokFields, NEW at, NEW m
    PROVE  /\ DOMAIN KeptFor(tok, at) = TokFields /\ KeptFor(tok, at).at = at
           /\ DOMAIN RightFor(at, m) = TokFields /\ RightFor(at, m).at = at
  BY DEF KeptFor, RightFor, Password, TokFields

\* The login's candidate is paired with what is published now.
LEMMA PairedKept ==
    ASSUME HostDoorAssumption, NEW L, NEW P, PageKept(P, L), NEW r, ReqKept(r, L),
           r.stage = "pair", r.kind = "probe"
    PROVE  PageKept(Paired(P, r), L)
  <1> DEFINE rec == P.rec[r.h]
             o == Published(P.asks[r.ask], WayIn(rec))
  <1>1. /\ DOMAIN r = ReqFields /\ r.h \in Ids /\ RecKept(rec, r.h, L)
        /\ DOMAIN r.tok = TokFields /\ r.from # None /\ r.way = None
    BY DEF ReqKept, PageKept, LoginWay
  <1>2. CASE Proxied(rec)
    <2> DEFINE tok == KeptFor(r.tok, Machine("server", o))
               q == [r EXCEPT !.stage = "info", !.ask = Asked(P).memo, !.way = rec.peer, !.org = o,
                              !.tok = tok]
    <2>1. Paired(P, r) = AsIs(Asked(P), r, q) BY <1>2 DEF Paired
    <2>2. DOMAIN tok = TokFields /\ tok.at = Machine("server", o) BY <1>1, TokMade
    <2> HIDE DEF tok
    <2>3. /\ DOMAIN q = ReqFields /\ q.kind = "probe" /\ q.h = r.h /\ q.stage = "info"
          /\ q.way = rec.peer /\ q.org = o /\ q.tok = tok /\ q.from = r.from
      BY <1>1 DEF ReqFields
    <2>4. rec.peer # None BY <1>1, <1>2 DEF RecKept
    <2> HIDE DEF q, o
    <2>5. ReqKept(q, L)
      BY <1>1, <2>2, <2>3, <2>4 DEF ReqKept, ReqTokKept, OnItsWay, LoginWay, TokShaped
    <2>6. PageKept(Asked(P), L) BY FieldsKept
    <2> QED BY <2>1, <2>5, <2>6, WithKept
  <1>3. CASE ~Proxied(rec)
    <2> DEFINE tok == KeptFor(r.tok, Machine("direct", rec.url))
               q == [r EXCEPT !.stage = "sent", !.ask = None, !.url = rec.url, !.org = o, !.tok = tok]
    <2>1. Paired(P, r) = AsIs(P, r, q) BY <1>3 DEF Paired
    <2>2. DOMAIN tok = TokFields /\ tok.at = Machine("direct", rec.url) BY <1>1, TokMade
    <2>3. o = None BY <1>3, NotPublished DEF WayIn
    <2> HIDE DEF tok
    <2>4. /\ DOMAIN q = ReqFields /\ q.kind = "probe" /\ q.h = r.h /\ q.stage = "sent"
          /\ q.way = None /\ q.org = o /\ q.tok = tok /\ q.from = r.from /\ q.url = rec.url
      BY <1>1 DEF ReqFields
    <2> HIDE DEF q, o
    <2>5. ReqKept(q, L)
      BY <1>1, <2>2, <2>3, <2>4 DEF ReqKept, ReqTokKept, OnItsWay, Astray, LoginWay, TokShaped
    <2> QED BY <2>1, <2>5, WithKept
  <1> QED BY <1>2, <1>3

LEMMA ContinueKept ==
    ASSUME HostDoorAssumption, DoorInv, NEW r \in pg.reqs, Continue(r)
    PROVE  DoorInv'
  <1> DEFINE L == hist.late
  <1>1. PageKept(pg, L) /\ ReqKept(r, L) /\ r.h \in Ids BY DEF DoorInv, PageKept, ReqKept
  <1> DEFINE back == [r EXCEPT !.stage = "back", !.ask = None, !.ans = "401"]
  <1>2. r.stage = "again" => ReqKept(back, L) BY <1>1, MovesKept
  <1> HIDE DEF back
  <1>3. ASSUME NEW P, PageKept(P, L)
        PROVE  PageKept(Rejected(P, r), L) /\ PageKept(Resolved(P, r), L)
    <2>1. PageKept(Without(P, r), L) BY <1>3, WithoutKept
    <2>2. CASE r.stage = "again"
      <3>1. PageKept(AsIs(P, r, back), L) BY <1>2, <1>3, <2>2, WithKept
      <3>2. r.kind # "switch" BY <1>1, <2>2 DEF ReqKept
      <3>3. Rejected(P, r) = AsIs(P, r, back) /\ Resolved(P, r) = AsIs(P, r, back)
        BY <2>2, <3>2 DEF Rejected, Resolved, back
      <3> QED BY <3>1, <3>3
    <2>3. CASE r.stage # "again" /\ r.kind = "switch"
      <3>1. \A info : PageKept(SetHostMode(Without(P, r), r.h, r.way, info), L)
        BY <1>1, <2>1, SetHostModeKept
      <3> QED BY <2>3, <3>1 DEF Rejected, Resolved
    <2>4. CASE r.stage # "again" /\ r.kind # "switch"
      <3>1. Rejected(P, r) = Without(P, r) BY <2>4 DEF Rejected
      <3>2. CASE r.stage = "pair"
        <4>1. r.kind = "probe" BY <1>1, <2>4, <3>2 DEF ReqKept
        <4>2. Resolved(P, r) = Paired(P, r) BY <2>4, <3>2, <4>1 DEF Resolved
        <4> QED BY <1>1, <1>3, <2>1, <3>1, <3>2, <4>1, <4>2, PairedKept
      <3>3. CASE r.stage = "info"
        <4>1. Resolved(P, r) = Through(P, r) BY <2>4, <3>3 DEF Resolved
        <4> QED BY <1>1, <1>3, <2>1, <3>1, <3>3, <4>1, ThroughKept
      <3> QED BY <2>4, <3>2, <3>3 DEF Continue
    <2> QED BY <2>2, <2>3, <2>4
  <1>4. PageKept(Rejected(pg, r), L) BY <1>1, <1>3
  <1>5. PageKept(Resolved(Commit(pg, r.ask), r), L)
    <2>1. PageKept(Commit(pg, r.ask), L) BY <1>1, CommitKept
    <2> QED BY <1>3, <2>1
  <1>6. PageKept(Tidy(Rejected(pg, r)), L) BY <1>4, FieldsKept
  <1>7. PageKept(Tidy(Resolved(Commit(pg, r.ask), r)), L) BY <1>5, FieldsKept
  <1>8. PageKept(pg', L) /\ hist' = hist BY <1>6, <1>7 DEF Continue, Page
  <1> QED BY <1>8 DEF DoorInv, TokenReachesItsMachine

-----------------------------------------------------------------------------
(* The machine at the end.                                                  *)

LEMMA ServeKept ==
    ASSUME HostDoorAssumption, DoorInv, NEW r \in pg.reqs, Serve(r)
    PROVE  DoorInv'
  <1> DEFINE L == hist.late
             gate == IF r.way = None THEN "through" ELSE Gate(r)
             m == Reached(r)
             gone == gate = "through" /\ r.tok # None /\ r.tok.at # m
             ans == IF gate # "through" THEN gate ELSE IF Fits(r.tok, m) THEN "ok" ELSE "401"
             fit == Fits(r.tok, m)
             q == [r EXCEPT !.stage = "back", !.ans = ans, !.m = m, !.fit = fit]
  <1>1. PageKept(pg, L) /\ ReqKept(r, L) BY DEF DoorInv, PageKept
  <1>2. r.stage = "sent" /\ pg' = AsIs(pg, r, q) BY DEF Serve
  <1>3. gone => r.h \in L
    <2> SUFFICES ASSUME gone PROVE r.h \in L OBVIOUS
    <2>1. r.h \in L \/ ~Astray(r) BY <1>1, <1>2 DEF ReqKept, ReqTokKept, OnItsWay
    <2>2. CASE r.way = None BY <2>1, <2>2 DEF Astray, Reached
    <2>3. CASE r.way # None
      <3>1. hub.peers[r.way] # None /\ r.org = hub.peers[r.way] BY <2>3 DEF Gate
      <3> QED BY <2>1, <2>3, <3>1 DEF Astray, Reached
    <2> QED BY <2>2, <2>3
  <1>4. ReqKept(q, L)
    <2>1. DOMAIN r = ReqFields BY <1>1 DEF ReqKept
    <2> HIDE DEF ans, fit, m
    <2>2. /\ DOMAIN q = ReqFields /\ q.kind = r.kind /\ q.h = r.h /\ q.stage = "back"
          /\ q.way = r.way /\ q.org = r.org /\ q.tok = r.tok /\ q.from = r.from /\ q.url = r.url
      BY <2>1 DEF ReqFields
    <2> HIDE DEF q
    <2> QED BY <1>1, <1>2, <2>2 DEF ReqKept, ReqTokKept, OnItsWay, Astray, LoginWay
  <1>5. PageKept(pg', L) BY <1>1, <1>2, <1>4, WithKept
  <1>6. /\ DOMAIN hist' = HistFields /\ hist'.late = hist.late
        /\ hist'.stray = IF gone THEN hist.stray \cup {r.h} ELSE hist.stray
    BY DEF DoorInv, Serve, HistFields
  <1> QED BY <1>3, <1>5, <1>6 DEF DoorInv, TokenReachesItsMachine

-----------------------------------------------------------------------------
(* An answer comes back.                                                    *)

LEMMA MoreLate ==
    ASSUME NEW L, NEW P, PageKept(P, L), NEW M, L \subseteq M
    PROVE  PageKept(P, M)
  BY DEF PageKept, RecKept, RecTokKept, ReqKept, ReqTokKept

\* The pairing was refused: the password goes.
LEMMA RefusedKept ==
    ASSUME HostDoorAssumption, NEW L, NEW P, PageKept(P, L), NEW r, ReqKept(r, L), r.stage = "back"
    PROVE  /\ PageKept(Forgotten(P), L)
           /\ Proxied(P.rec[r.h]) => PageKept(Asked(Dropped(Forgotten(P), r.h)), L)
           /\ \A ask, cur : ReqKept([r EXCEPT !.stage = "again", !.ask = ask, !.cur = cur], L)
  <1>1. PageKept(Forgotten(P), L) /\ Forgotten(P).rec = P.rec /\ r.h \in Ids
    <2>1. DOMAIN P = PageFields /\ r.h \in Ids BY DEF PageKept, ReqKept
    <2>2. Carries(P, Forgotten(P)) BY <2>1, FieldsCarry
    <2>3. PageKept(Forgotten(P), L) BY FieldsKept
    <2> QED BY <2>1, <2>2, <2>3 DEF Carries
  <1>2. ASSUME Proxied(P.rec[r.h]) PROVE PageKept(Asked(Dropped(Forgotten(P), r.h)), L)
    <2> DEFINE F == Forgotten(P)
               x == [F.rec[r.h] EXCEPT !.tok = None, !.paired = None]
    <2>1. RecKept(F.rec[r.h], r.h, L) /\ Proxied(F.rec[r.h]) BY <1>1, <1>2 DEF PageKept
    <2>2. /\ DOMAIN x = RecFields /\ x.tok = None /\ x.paired = None
          /\ x.via = F.rec[r.h].via /\ x.peer = F.rec[r.h].peer
      BY <2>1 DEF RecKept, RecFields
    <2> HIDE DEF x, F
    <2>3. RecKept(x, r.h, L) BY <2>1, <2>2 DEF RecKept, RecTokKept, TokShaped, Proxied
    <2>4. PageKept(SetRec(F, r.h, x), L) BY <1>1, <2>3, SetRecKept DEF F
    <2>5. PageKept(Invalidated(SetRec(F, r.h, x), {r.h}), L) BY <2>4, FieldsKept
    <2>6. PageKept(Pruned(Invalidated(SetRec(F, r.h, x), {r.h})), L) BY <2>5, FieldsKept
    <2>7. Dropped(F, r.h) = Pruned(Invalidated(SetRec(F, r.h, x), {r.h})) BY DEF Dropped, x
    <2>8. PageKept(Dropped(F, r.h), L) BY <2>6, <2>7
    <2>9. PageKept(Asked(Dropped(F, r.h)), L) BY <2>8, FieldsKept
    <2> QED BY <2>9 DEF F
  <1>3. ASSUME NEW ask, NEW cur
        PROVE  ReqKept([r EXCEPT !.stage = "again", !.ask = ask, !.cur = cur], L)
    <2> DEFINE q == [r EXCEPT !.stage = "again", !.ask = ask, !.cur = cur]
    <2>1. DOMAIN r = ReqFields BY DEF ReqKept
    <2>2. /\ DOMAIN q = ReqFields /\ q.kind = r.kind /\ q.h = r.h /\ q.stage = "again"
          /\ q.way = r.way /\ q.org = r.org /\ q.tok = r.tok /\ q.from = r.from /\ q.url = r.url
      BY <2>1 DEF ReqFields
    <2> HIDE DEF q
    <2>3. ReqKept(q, L) BY <2>1, <2>2 DEF ReqKept, ReqTokKept, OnItsWay, Astray, LoginWay
    <2> QED BY <2>3 DEF q
  <1> QED BY <1>1, <1>2, <1>3

\* The login stores a password kept for the machine it answered from, or is late.
LEMMA ProbeBackKept ==
    ASSUME HostDoorAssumption, NEW L, NEW P, PageKept(P, L), NEW r, ReqKept(r, L), r.stage = "back",
           NEW ans, r.kind = "probe",
           Stores(P, r, ans) /\ ~Proxied(P.rec[r.h]) /\ P.rec[r.h].url # r.url => r.h \in L
    PROVE  PageKept(ProbeBack(P, r, ans), L)
  <1> DEFINE old == P.rec[r.h]
             paired == IF Proxied(old) THEN r.org ELSE old.paired
             rec == [old EXCEPT !.tok = r.tok, !.paired = paired]
  <1>1. CASE ~Stores(P, r, ans) BY <1>1 DEF ProbeBack
  <1>2. CASE Stores(P, r, ans)
    <2>1. r.h \in Ids /\ RecKept(old, r.h, L) /\ DOMAIN r.tok = TokFields
      BY DEF PageKept, ReqKept, LoginWay
    <2>2. WayIn(old) = r.from BY <1>2 DEF Stores, SameWay
    <2>3. /\ DOMAIN rec = RecFields /\ rec.tok = r.tok /\ rec.paired = paired /\ rec.via = old.via
          /\ rec.peer = old.peer /\ rec.url = old.url
      BY <2>1 DEF RecKept, RecFields
    <2>4. r.tok # None => r.h \in L \/ ~Astray(r) BY DEF ReqKept, ReqTokKept, OnItsWay
    <2> HIDE DEF rec
    <2>5. ASSUME Proxied(old) PROVE RecKept(rec, r.h, L)
      <3>1. r.from # None BY <2>1, <2>2, <2>5 DEF WayIn, RecKept
      <3>2. r.way = None => r.org = None BY <3>1 DEF ReqKept, LoginWay
      <3>3. paired = r.org BY <2>5
      <3>4. Proxied(rec) /\ rec.peer # None BY <2>1, <2>3, <2>5 DEF Proxied, RecKept
      <3>5. r.tok # None => r.h \in L \/ r.org = None \/ r.tok.at = Machine("server", r.org)
        BY <2>4, <3>2 DEF Astray
      <3> QED BY <2>1, <2>3, <3>3, <3>4, <3>5 DEF RecKept, RecTokKept, TokShaped, Where
    <2>6. ASSUME ~Proxied(old) PROVE RecKept(rec, r.h, L)
      <3>1. r.from = None BY <2>2, <2>6 DEF WayIn
      <3>2. r.way = None BY <3>1 DEF ReqKept, LoginWay
      <3>3. ~Proxied(rec) /\ rec.peer = None /\ rec.paired = None
        BY <2>1, <2>3, <2>6 DEF Proxied, RecKept
      <3>4. r.h \in L \/ old.url = r.url BY <1>2, <2>6
      <3>5. r.tok # None => r.h \in L \/ r.tok.at = Machine("direct", old.url)
        BY <2>4, <3>2, <3>4 DEF Astray
      <3> QED BY <2>1, <2>3, <3>3, <3>5 DEF RecKept, RecTokKept, TokShaped, Where
    <2>7. RecKept(rec, r.h, L) BY <2>5, <2>6
    <2> DEFINE Q == [SetRec(P, r.h, rec) EXCEPT !.asked = @ \ {r.h}]
    <2>8. PageKept(SetRec(P, r.h, rec), L) BY <2>1, <2>7, SetRecKept
    <2>9. DOMAIN Q = PageFields /\ Q.rec = SetRec(P, r.h, rec).rec /\ Q.reqs = SetRec(P, r.h, rec).reqs
      BY <2>8 DEF PageKept, PageFields
    <2>10. ProbeBack(P, r, ans) = Hide(Q) BY <1>2 DEF ProbeBack, rec
    <2> HIDE DEF Q
    <2>11. PageKept(Q, L) BY <2>8, <2>9 DEF PageKept
    <2> QED BY <2>10, <2>11, FieldsKept
  <1> QED BY <1>1, <1>2

LEMMA BackKept ==
    ASSUME HostDoorAssumption, NEW L, NEW P, PageKept(P, L), NEW r, ReqKept(r, L), r.stage = "back",
           NEW ans, NEW go,
           Stores(P, r, ans) /\ ~Proxied(P.rec[r.h]) /\ P.rec[r.h].url # r.url => r.h \in L
    PROVE  PageKept(Back(P, r, ans, go), L)
  <1>1. r.h \in Ids /\ DOMAIN P = PageFields /\ RecKept(P.rec[r.h], r.h, L) BY DEF PageKept, ReqKept
  <1>2. CASE r.kind = "poll"
    <2> DEFINE Q == [P EXCEPT !.asked = @ \ {r.h}]
    <2>1. PageKept(Q, L) BY <1>1 DEF PageKept, PageFields
    <2>2. PageKept(Show(P, r.h, FALSE), L) BY ShowKept
    <2>3. Back(P, r, ans, go) \in {P, Q, Show(P, r.h, FALSE)} BY <1>2 DEF Back, PollBack
    <2> HIDE DEF Q
    <2> QED BY <2>1, <2>2, <2>3
  <1>3. CASE r.kind = "mint"
    <2>1. PageKept(Show(P, r.h, FALSE), L) BY ShowKept
    <2>2. Back(P, r, ans, go) \in {P, Show(P, r.h, FALSE)} BY <1>3 DEF Back, MintBack
    <2> QED BY <2>1, <2>2
  <1>4. CASE r.kind = "ident"
    <2> DEFINE x == [P.rec[r.h] EXCEPT !.bid = r.m]
    <2>1. /\ DOMAIN x = RecFields /\ x.tok = P.rec[r.h].tok /\ x.paired = P.rec[r.h].paired
          /\ x.via = P.rec[r.h].via /\ x.peer = P.rec[r.h].peer /\ x.url = P.rec[r.h].url
      BY <1>1 DEF RecKept, RecFields
    <2>2. Back(P, r, ans, go) \in {P, SetRec(P, r.h, x)} BY <1>4 DEF Back, IdentBack
    <2> HIDE DEF x
    <2>3. RecKept(x, r.h, L) BY <1>1, <2>1 DEF RecKept, RecTokKept, Where, Proxied
    <2> QED BY <1>1, <2>2, <2>3, SetRecKept
  <1>5. CASE r.kind = "probe"
    <2>1. Back(P, r, ans, go) = ProbeBack(P, r, ans) BY <1>5 DEF Back
    <2> QED BY <1>5, <2>1, ProbeBackKept
  <1>6. CASE r.kind = "add"
    <2> DEFINE bid == IF ans = "ok" THEN r.m ELSE None
               x == [NoRec EXCEPT !.on = TRUE, !.url = r.url, !.tok = r.tok, !.bid = bid]
    <2>1. /\ DOMAIN x = RecFields /\ x.tok = r.tok /\ x.paired = None
          /\ x.via = "direct" /\ x.peer = None /\ x.url = r.url
      BY DEF NoRec, RecFields
    <2>2. Back(P, r, ans, go) \in {P, SetRec(P, r.h, x)} BY <1>6 DEF Back, AddBack
    <2>3. r.way = None /\ TokShaped(r.tok) BY <1>6 DEF ReqKept
    <2>4. r.tok # None => r.h \in L \/ r.tok.at = Machine("direct", r.url)
      BY <1>6, <2>3 DEF ReqKept, ReqTokKept, OnItsWay, Astray
    <2> HIDE DEF x
    <2>5. RecKept(x, r.h, L) BY <2>1, <2>3, <2>4 DEF RecKept, RecTokKept, Where, Proxied
    <2> QED BY <1>1, <2>2, <2>5, SetRecKept
  <1>7. r.kind \in {"poll", "mint", "ident", "probe", "add"} BY DEF ReqKept
  <1> QED BY <1>2, <1>3, <1>4, <1>5, <1>6, <1>7

LEMMA LandKept ==
    ASSUME HostDoorAssumption, DoorInv, NEW r \in pg.reqs, NEW go \in BOOLEAN, Land(r, go)
    PROVE  DoorInv'
  <1> DEFINE d == Door(pg, r)
             stored == Stores(pg, r, r.ans) /\ ~Proxied(pg.rec[r.h]) /\ pg.rec[r.h].url # r.url
             L == hist.late
             M == IF stored THEN L \cup {r.h} ELSE L
             Q == IF r.ans = "409" THEN Refused(pg, r) ELSE Back(Without(d[1], r), r, d[2], go)
  <1>1. /\ DOMAIN hist' = HistFields /\ hist'.late = M /\ hist'.stray = hist.stray
        /\ DOMAIN hist = HistFields
    BY DEF DoorInv, Land, HistFields
  <1>2. PageKept(pg, M) /\ ReqKept(r, M) /\ L \subseteq M /\ (stored => r.h \in M)
    <2>1. PageKept(pg, L) /\ L \subseteq M BY DEF DoorInv
    <2>2. PageKept(pg, M) BY <2>1, MoreLate
    <2> QED BY <2>1, <2>2 DEF PageKept
  <1>3. r.stage = "back" /\ pg' = Tidy(Q) BY DEF Land, Page
  <1> HIDE DEF M
  <1>4. PageKept(d[1], M) /\ d[1].rec = pg.rec /\ (d[2] = "ok" => r.ans = "ok")
    <2>1. CASE d = <<pg, r.ans>> \/ d = <<pg, "401">> BY <1>2, <2>1
    <2>2. CASE d = <<Show(pg, Local, FALSE), "503">>
      <3>1. PageKept(Show(pg, Local, FALSE), M) BY <1>2, ShowKept
      <3>2. Show(pg, Local, FALSE).rec = pg.rec
        <4>1. DOMAIN Stale(pg) = PageFields /\ Stale(pg).rec = pg.rec
          BY <1>2, FieldsCarry DEF PageKept, Carries
        <4> QED BY <4>1 DEF Show, PageFields
      <3> DEFINE S == Show(pg, Local, FALSE)
      <3>3. PageKept(S, M) /\ S.rec = pg.rec /\ d = <<S, "503">> BY <2>2, <3>1, <3>2
      <3> HIDE DEF S, d
      <3> QED BY <3>3
    <2> QED BY <2>1, <2>2 DEF Door
  <1> HIDE DEF d
  <1>5. CASE r.ans # "409"
    <2> DEFINE W == Without(d[1], r)
    <2>1. PageKept(W, M) BY <1>4, WithoutKept
    <2>2. W.rec = pg.rec BY <1>4 DEF Without, PageKept, PageFields
    <2>3. Stores(W, r, d[2]) /\ ~Proxied(W.rec[r.h]) /\ W.rec[r.h].url # r.url => r.h \in M
      BY <1>2, <1>4, <2>2 DEF Stores, SameWay
    <2> HIDE DEF W
    <2>4. PageKept(Back(W, r, d[2], go), M) BY <1>2, <1>3, <2>1, <2>3, BackKept
    <2>5. PageKept(Tidy(Back(W, r, d[2], go)), M) BY <2>4, FieldsKept
    <2> QED BY <1>1, <1>2, <1>3, <1>5, <2>5 DEF W, DoorInv, TokenReachesItsMachine
  <1>6. CASE r.ans = "409"
    <2> DEFINE F == Forgotten(pg)
               D == Asked(Dropped(F, r.h))
               cur == r.cur /\ r.kind # "poll"
               q == [r EXCEPT !.stage = "again", !.ask = D.memo, !.cur = cur]
               W == Without(F, r)
    <2>1. /\ PageKept(F, M) /\ (Proxied(pg.rec[r.h]) => PageKept(D, M)) /\ ReqKept(q, M)
      BY <1>2, <1>3, RefusedKept
    <2>2. \/ Proxied(pg.rec[r.h]) /\ Refused(pg, r) = AsIs(D, r, q)
          \/ Refused(pg, r) = Back(W, r, "409", FALSE)
      BY DEF Refused
    <2> HIDE DEF q, D
    <2>3. Proxied(pg.rec[r.h]) => PageKept(AsIs(D, r, q), M) BY <2>1, WithKept
    <2>4. PageKept(W, M) BY <2>1, WithoutKept
    <2>5. ~Stores(W, r, "409") BY DEF Stores
    <2> HIDE DEF W
    <2>6. PageKept(Back(W, r, "409", FALSE), M) BY <1>2, <1>3, <2>4, <2>5, BackKept
    <2>7. PageKept(Refused(pg, r), M) BY <2>2, <2>3, <2>6
    <2>8. PageKept(Tidy(Refused(pg, r)), M) BY <2>7, FieldsKept
    <2> QED BY <1>1, <1>2, <1>3, <1>6, <2>8 DEF DoorInv, TokenReachesItsMachine
  <1> QED BY <1>5, <1>6

-----------------------------------------------------------------------------
(* Requests leave, and the user.                                            *)

\* A step of the page that leaves the history's hosts alone.
LEMMA PageStep ==
    ASSUME DoorInv, NEW Q, PageKept(Q, hist.late), pg' = Tidy(Q) \/ pg' = Q,
           DOMAIN hist' = HistFields, hist'.late = hist.late, hist'.stray = hist.stray
    PROVE  DoorInv'
  <1>1. PageKept(Tidy(Q), hist.late) BY FieldsKept
  <1> QED BY <1>1 DEF DoorInv, TokenReachesItsMachine

LEMMA StartsKept ==
    ASSUME HostDoorAssumption, DoorInv,
           \/ \E h \in Ids : StartPoll(h)
           \/ \E h \in Hosts : StartMint(h) \/ StartIdent(h)
    PROVE  DoorInv'
  <1>1. PageKept(pg, hist.late) /\ DOMAIN hist = HistFields BY DEF DoorInv
  <1>2. PICK h \in Ids, kind \in {"poll", "mint", "ident"}, s \in Slots :
           pg' = Tidy(Leaves(pg, New(s, kind, h), pg.rec[h])) /\ hist' = hist
    BY DEF StartPoll, StartMint, StartIdent, Page, Ids, FreeSlots
  <1>3. PageKept(Leaves(pg, New(s, kind, h), pg.rec[h]), hist.late) BY <1>1, LeavesKept
  <1> QED BY <1>1, <1>2, <1>3, PageStep

\* A login is submitted.
LEMMA SubmitKept ==
    ASSUME HostDoorAssumption, DoorInv, NEW h \in Ids, NEW m \in Machines, Submit(h, m)
    PROVE  DoorInv'
  <1> DEFINE r == pg.rec[h]
             L == hist.late
             q(s, tok) == [New(s, "probe", h) EXCEPT !.tok = tok]
             far(s) == [q(s, RightFor(m, m)) EXCEPT !.stage = "pair", !.ask = Asked(pg).memo]
             near(s) == q(s, RightFor(Machine("direct", r.url), m))
  <1>1. PageKept(pg, L) /\ DOMAIN hist = HistFields /\ RecKept(r, h, L) BY DEF DoorInv, PageKept
  <1>2. PICK s \in Slots :
           /\ hist' = hist
           /\ \/ pg' = Tidy(Hide(pg))
              \/ Proxied(r) /\ pg' = Tidy(With(Asked(pg), far(s)))
              \/ ~Proxied(r) /\ pg' = Tidy(With(pg, near(s)))
    BY DEF Submit, Page, FreeSlots
  <1>3. /\ DOMAIN New(s, "probe", h) = ReqFields /\ New(s, "probe", h).kind = "probe"
        /\ New(s, "probe", h).h = h /\ New(s, "probe", h).stage = "sent"
        /\ New(s, "probe", h).way = None /\ New(s, "probe", h).from = WayIn(r)
        /\ New(s, "probe", h).url = r.url
    BY <1>1, NewMade
  <1>4. ASSUME NEW tok, DOMAIN tok = TokFields
        PROVE  /\ DOMAIN q(s, tok) = ReqFields /\ q(s, tok).kind = "probe" /\ q(s, tok).h = h
               /\ q(s, tok).stage = "sent" /\ q(s, tok).way = None /\ q(s, tok).from = WayIn(r)
               /\ q(s, tok).url = r.url /\ q(s, tok).tok = tok
    BY <1>3 DEF ReqFields
  <1>5. Proxied(r) => ReqKept(far(s), L)
    <2> SUFFICES ASSUME Proxied(r) PROVE ReqKept(far(s), L) OBVIOUS
    <2>1. DOMAIN RightFor(m, m) = TokFields BY DEF RightFor, Password, TokFields
    <2> DEFINE b == q(s, RightFor(m, m))
    <2>2. /\ DOMAIN b = ReqFields /\ b.kind = "probe" /\ b.h = h /\ b.way = None
          /\ b.from = WayIn(r) /\ b.tok = RightFor(m, m)
      BY <1>4, <2>1
    <2> HIDE DEF b
    <2> DEFINE f == [b EXCEPT !.stage = "pair", !.ask = Asked(pg).memo]
    <2>3. /\ DOMAIN f = ReqFields /\ f.kind = "probe" /\ f.h = h /\ f.way = None
          /\ f.from = WayIn(r) /\ f.tok = RightFor(m, m) /\ f.stage = "pair"
      BY <2>2 DEF ReqFields
    <2> HIDE DEF f
    <2>4. WayIn(r) # None BY <1>1 DEF WayIn, RecKept
    <2>5. ReqKept(f, L) BY <2>1, <2>3, <2>4 DEF ReqKept, ReqTokKept, OnItsWay, LoginWay, TokShaped
    <2> QED BY <2>5 DEF f, b
  <1>6. ~Proxied(r) => ReqKept(near(s), L)
    <2> SUFFICES ASSUME ~Proxied(r) PROVE ReqKept(near(s), L) OBVIOUS
    <2> DEFINE tok == RightFor(Machine("direct", r.url), m)
               b == q(s, tok)
    <2>1. DOMAIN tok = TokFields /\ tok.at = Machine("direct", r.url)
      BY DEF RightFor, Password, TokFields
    <2> HIDE DEF tok
    <2>2. /\ DOMAIN b = ReqFields /\ b.kind = "probe" /\ b.h = h /\ b.way = None
          /\ b.from = WayIn(r) /\ b.tok = tok /\ b.stage = "sent" /\ b.url = r.url
      BY <1>4, <2>1
    <2>3. WayIn(r) = None BY DEF WayIn
    <2> HIDE DEF b
    <2>4. ReqKept(b, L)
      BY <2>1, <2>2, <2>3 DEF ReqKept, ReqTokKept, OnItsWay, Astray, LoginWay, TokShaped
    <2> QED BY <2>4 DEF b, tok
  <1> HIDE DEF far, near
  <1>7. PageKept(Hide(pg), L) /\ PageKept(Asked(pg), L) BY <1>1, FieldsKept
  <1>8. Proxied(r) => PageKept(With(Asked(pg), far(s)), L) BY <1>5, <1>7, WithKept
  <1>9. ~Proxied(r) => PageKept(With(pg, near(s)), L) BY <1>1, <1>6, WithKept
  <1> QED BY <1>1, <1>2, <1>7, <1>8, <1>9, PageStep

LEMMA SwitchKept ==
    ASSUME HostDoorAssumption, DoorInv, NEW h \in Hosts, NEW p, StartSwitch(h, p)
    PROVE  DoorInv'
  <1> DEFINE q(s) == [NoReq EXCEPT !.id = s, !.kind = "switch", !.h = h, !.way = p, !.stage = "pair",
                                   !.ask = Asked(pg).memo]
  <1>1. PageKept(pg, hist.late) /\ DOMAIN hist = HistFields BY DEF DoorInv
  <1>2. PICK s \in Slots : pg' = Tidy(With(Asked(pg), q(s))) /\ hist' = hist
    BY DEF StartSwitch, Page, FreeSlots
  <1>3. /\ DOMAIN q(s) = ReqFields /\ q(s).kind = "switch" /\ q(s).h = h /\ q(s).stage = "pair"
        /\ q(s).tok = None
    BY DEF NoReq, ReqFields
  <1> HIDE DEF q
  <1>4. ReqKept(q(s), hist.late) BY <1>3 DEF ReqKept, ReqTokKept, TokShaped, Ids
  <1>5. PageKept(Asked(pg), hist.late) BY <1>1, FieldsKept
  <1>6. PageKept(With(Asked(pg), q(s)), hist.late) BY <1>4, <1>5, WithKept
  <1> QED BY <1>1, <1>2, <1>6, PageStep

LEMMA AddKept ==
    ASSUME HostDoorAssumption, DoorInv, NEW h \in Hosts, NEW u, StartAdd(h, u)
    PROVE  DoorInv'
  <1> DEFINE m == Machine("direct", u)
             q(s) == [NoReq EXCEPT !.id = s, !.kind = "add", !.h = h, !.url = u, !.tok = RightFor(m, m)]
  <1>1. PageKept(pg, hist.late) /\ DOMAIN hist = HistFields BY DEF DoorInv
  <1>2. PICK s \in Slots : pg' = Tidy(With(pg, q(s))) /\ hist' = hist
    BY DEF StartAdd, Page, FreeSlots
  <1>3. DOMAIN RightFor(m, m) = TokFields /\ RightFor(m, m).at = m
    BY DEF RightFor, Password, TokFields
  <1>4. /\ DOMAIN q(s) = ReqFields /\ q(s).kind = "add" /\ q(s).h = h /\ q(s).stage = "sent"
        /\ q(s).way = None /\ q(s).url = u /\ q(s).tok = RightFor(m, m)
    BY DEF NoReq, ReqFields
  <1> HIDE DEF q
  <1>5. ReqKept(q(s), hist.late)
    BY <1>3, <1>4 DEF ReqKept, ReqTokKept, OnItsWay, Astray, TokShaped, Ids
  <1>6. PageKept(With(pg, q(s)), hist.late) BY <1>1, <1>5, WithKept
  <1> QED BY <1>1, <1>2, <1>6, PageStep

LEMMA EditKept ==
    ASSUME HostDoorAssumption, DoorInv, NEW h \in Hosts, NEW u, NEW typed \in BOOLEAN,
           EditHost(h, u, typed)
    PROVE  DoorInv'
  <1> DEFINE r == pg.rec[h]
             L == hist.late
             at == IF Proxied(r) THEN Where(r) ELSE Machine("direct", u)
             tok == IF typed THEN RightFor(at, at) ELSE IF r.tok = None THEN None ELSE KeptFor(r.tok, at)
             bid == IF r.url = u THEN r.bid ELSE None
             x == [r EXCEPT !.url = u, !.tok = tok, !.bid = bid]
             Q == Invalidated(SetRec(pg, h, x), {h})
  <1>1. h \in Ids /\ PageKept(pg, L) /\ RecKept(r, h, L) /\ DOMAIN hist = HistFields
    BY DEF DoorInv, PageKept, Ids
  <1>2. /\ pg' = Tidy(Q) /\ (Proxied(r) => u = r.url)
        /\ DOMAIN hist' = HistFields /\ hist'.late = L /\ hist'.stray = hist.stray
    BY <1>1 DEF EditHost, Page, Edited, HistFields
  <1>3. TokShaped(tok) /\ (tok # None => tok.at = at)
    <2>1. CASE typed
      <3>1. tok = RightFor(at, at) BY <2>1
      <3>2. DOMAIN RightFor(at, at) = TokFields /\ RightFor(at, at).at = at
        BY DEF RightFor, Password, TokFields
      <3> QED BY <3>1, <3>2 DEF TokShaped
    <2>2. CASE ~typed /\ r.tok = None BY <2>2 DEF TokShaped
    <2>3. CASE ~typed /\ r.tok # None
      <3>1. DOMAIN r.tok = TokFields BY <1>1, <2>3 DEF RecKept, TokShaped
      <3>2. tok = KeptFor(r.tok, at) BY <2>3
      <3>3. DOMAIN KeptFor(r.tok, at) = TokFields /\ KeptFor(r.tok, at).at = at
        BY <3>1, TokMade
      <3> QED BY <3>2, <3>3 DEF TokShaped
    <2> QED BY <2>1, <2>2, <2>3
  <1> HIDE DEF tok, bid
  <1>4. /\ DOMAIN x = RecFields /\ x.tok = tok /\ x.paired = r.paired /\ x.via = r.via
        /\ x.peer = r.peer /\ x.url = u
    BY <1>1 DEF RecKept, RecFields
  <1> HIDE DEF x
  <1>5. Where(x) = at BY <1>2, <1>4 DEF Where, Proxied
  <1>6. RecKept(x, h, L) BY <1>1, <1>3, <1>4, <1>5 DEF RecKept, RecTokKept, Proxied
  <1>7. PageKept(SetRec(pg, h, x), L) BY <1>1, <1>6, SetRecKept
  <1>8. PageKept(Q, L) BY <1>7, FieldsKept
  <1> QED BY <1>2, <1>8, PageStep

LEMMA RemoveKept ==
    ASSUME HostDoorAssumption, DoorInv, NEW h \in Hosts, RemoveHost(h)
    PROVE  DoorInv'
  <1> DEFINE x == [pg.rec[h] EXCEPT !.on = FALSE]
  <1>1. /\ h \in Ids /\ PageKept(pg, hist.late) /\ RecKept(pg.rec[h], h, hist.late)
        /\ DOMAIN hist = HistFields
    BY DEF DoorInv, PageKept, Ids
  <1>2. /\ DOMAIN x = RecFields /\ x.tok = pg.rec[h].tok /\ x.paired = pg.rec[h].paired
        /\ x.via = pg.rec[h].via /\ x.peer = pg.rec[h].peer /\ x.url = pg.rec[h].url
    BY <1>1 DEF RecKept, RecFields
  <1>3. pg' = Tidy(Invalidated(SetRec(pg, h, x), {h})) /\ hist' = hist BY DEF RemoveHost, Page
  <1> HIDE DEF x
  <1>4. RecKept(x, h, hist.late) BY <1>1, <1>2 DEF RecKept, RecTokKept, Where, Proxied
  <1>5. PageKept(SetRec(pg, h, x), hist.late) BY <1>1, <1>4, SetRecKept
  <1>6. PageKept(Invalidated(SetRec(pg, h, x), {h}), hist.late) BY <1>5, FieldsKept
  <1> QED BY <1>1, <1>3, <1>6, PageStep

\* Steps that touch neither a record nor a password.
LEMMA AsideKept ==
    ASSUME HostDoorAssumption, DoorInv,
           \/ \E h \in Ids : OpenLogin(h)
           \/ CancelLogin \/ CheckClip \/ NoteBoot
           \/ \E h \in Hosts : AllowClip(h)
           \/ \E i \in Asks : AskServed(i) \/ AskLands(i)
           \/ \E r \in pg.reqs : Lose(r)
           \/ \E p \in Peers, o \in Origins \cup {None} : HubMoves(p, o)
           \/ \E m \in Machines : Rotate(m)
    PROVE  DoorInv'
  <1> DEFINE L == hist.late
  <1>1. PageKept(pg, L) /\ DOMAIN hist = HistFields /\ DOMAIN pg = PageFields
    BY DEF DoorInv, PageKept
  <1>2. ASSUME NEW h, OpenLogin(h) PROVE DoorInv'
    <2>1. PageKept(Show(pg, h, TRUE), L) BY <1>1, ShowKept
    <2> QED BY <1>1, <1>2, <2>1, PageStep DEF OpenLogin, Page
  <1>3. CASE CancelLogin
    <2>1. PageKept(Hide(pg), L) BY <1>1, FieldsKept
    <2> QED BY <1>1, <1>3, <2>1, PageStep DEF CancelLogin, Page
  <1>4. CASE CheckClip
    <2>1. PageKept(Pruned(pg), L) BY <1>1, FieldsKept
    <2> QED BY <1>1, <1>4, <2>1, PageStep DEF CheckClip, Page
  <1>5. CASE NoteBoot
    <2> DEFINE P == IF pg.boot = 0 THEN pg ELSE Forgotten(pg)
               Q == [P EXCEPT !.boot = hub.run]
    <2>1. PageKept(P, L) BY <1>1, FieldsKept
    <2>2. pg' = Tidy(Q) /\ hist' = hist BY <1>5 DEF NoteBoot, Page
    <2> HIDE DEF P
    <2>3. PageKept(Q, L) BY <2>1 DEF PageKept, PageFields
    <2> HIDE DEF Q
    <2> QED BY <1>1, <2>2, <2>3, PageStep
  <1>6. ASSUME NEW h \in Hosts, AllowClip(h) PROVE DoorInv'
    <2> DEFINE Q == [Pruned(pg) EXCEPT !.grants = @ \cup {Key(h, pg.rec[h])}]
    <2>1. PageKept(Pruned(pg), L) BY <1>1, FieldsKept
    <2>2. pg' = Tidy(Q) /\ hist' = hist BY <1>6 DEF AllowClip, Page
    <2>3. DOMAIN Q = PageFields /\ Q.rec = Pruned(pg).rec /\ Q.reqs = Pruned(pg).reqs
      BY <2>1 DEF PageKept, PageFields
    <2> HIDE DEF Q
    <2>4. PageKept(Q, L) BY <2>1, <2>3 DEF PageKept
    <2> QED BY <1>1, <2>2, <2>4, PageStep
  <1>7. ASSUME NEW i, AskServed(i) PROVE DoorInv'
    <2>1. PICK a : pg' = SetAsk(pg, i, a) /\ hist' = hist BY <1>7 DEF AskServed
    <2>2. PageKept(SetAsk(pg, i, a), L) BY <1>1, FieldsKept
    <2> QED BY <1>1, <2>1, <2>2, PageStep
  <1>8. ASSUME NEW i, AskLands(i) PROVE DoorInv'
    <2> DEFINE b == [pg.asks[i] EXCEPT !.st = IF Fits(pg.asks[i].tok, HomeMachine) THEN "known" ELSE "bad"]
               P == SetAsk(pg, i, b)
               Q == [P EXCEPT !.boot = pg.asks[i].run]
    <2>1. hist' = hist /\ (pg' = Tidy(P) \/ pg' = Tidy(Q) \/ pg' = Tidy(Forgotten(P)))
      BY <1>8 DEF AskLands, Page
    <2>2. PageKept(P, L) BY <1>1, FieldsKept
    <2> HIDE DEF P
    <2>3. PageKept(Forgotten(P), L) BY <2>2, FieldsKept
    <2>4. PageKept(Q, L) BY <2>2 DEF PageKept, PageFields
    <2> HIDE DEF Q
    <2> QED BY <1>1, <2>1, <2>2, <2>3, <2>4, PageStep
  <1>9. ASSUME NEW r \in pg.reqs, Lose(r) PROVE DoorInv'
    <2> DEFINE q == [r EXCEPT !.stage = "back", !.ans = "fail"]
    <2>1. ReqKept(r, L) BY <1>1 DEF PageKept
    <2>2. ReqKept(q, L) BY <1>9, <2>1, MovesKept DEF Lose
    <2>3. pg' = AsIs(pg, r, q) /\ hist' = hist BY <1>9 DEF Lose
    <2> HIDE DEF q
    <2>4. PageKept(AsIs(pg, r, q), L) BY <1>1, <2>2, WithKept
    <2> QED BY <1>1, <2>3, <2>4, PageStep
  <1>10. ASSUME NEW p, NEW o, HubMoves(p, o) PROVE DoorInv'
    <2> DEFINE broken(r) == r.stage = "sent" /\ (r.way # None \/ r.h = Local)
               q(r) == [r EXCEPT !.stage = "back", !.ans = "fail"]
               reqs == {IF broken(r) THEN q(r) ELSE r : r \in pg.reqs}
    <2>1. PICK asks : pg' = [pg EXCEPT !.reqs = reqs, !.asks = asks] BY <1>10 DEF HubMoves
    <2>2. \A r \in reqs : ReqKept(r, L)
      <3>1. \A r \in pg.reqs : ReqKept(r, L) BY <1>1 DEF PageKept
      <3>2. \A r \in pg.reqs : broken(r) => ReqKept(q(r), L) BY <3>1, MovesKept
      <3> HIDE DEF q, broken
      <3> QED BY <3>1, <3>2
    <2> HIDE DEF reqs
    <2>3. PageKept(pg', L) BY <1>1, <2>1, <2>2 DEF PageKept, PageFields
    <2>4. DOMAIN hist' = HistFields /\ hist'.late = L /\ hist'.stray = hist.stray
      BY <1>1, <1>10 DEF HubMoves, HistFields
    <2> QED BY <2>3, <2>4, PageStep
  <1>11. ASSUME NEW m, Rotate(m) PROVE DoorInv'
    BY <1>1, <1>11, PageStep DEF Rotate
  <1> QED BY <1>2, <1>3, <1>4, <1>5, <1>6, <1>7, <1>8, <1>9, <1>10, <1>11

-----------------------------------------------------------------------------
(* The theorem.                                                             *)

LEMMA InitDoor ==
    ASSUME HostDoorAssumption, Init
    PROVE  DoorInv
  <1>1. PICK s \in Starts :
          /\ pg = [rec |-> s.rec, memo |-> None, asks |-> [i \in Asks |-> NoAsk], reqs |-> {},
                   login |-> None, asked |-> {}, grants |-> {}, boot |-> 0]
          /\ hist = [stray |-> {}, late |-> {}, off |-> {}, nagged |-> FALSE]
    BY DEF Init
  <1>2. s.rec \in [Ids -> Records] /\ \A h \in Ids : Whole(s.rec[h])
    BY DEF HostDoorAssumption
  <1>3. ASSUME NEW h \in Ids PROVE RecKept(s.rec[h], h, {})
    <2>1. s.rec[h] \in Records /\ Whole(s.rec[h]) BY <1>2
    <2>2. DOMAIN s.rec[h] = RecFields /\ s.rec[h].tok \in Tokens BY <2>1 DEF Records, RecFields
    <2>3. TokShaped(s.rec[h].tok) BY <2>2 DEF Tokens, TokShaped, TokFields
    <2> QED BY <2>1, <2>2, <2>3 DEF RecKept, RecTokKept, Whole
  <1>4. DOMAIN pg = PageFields /\ pg.rec = s.rec /\ pg.reqs = {} BY <1>1 DEF PageFields
  <1>5. PageKept(pg, {}) BY <1>2, <1>3, <1>4 DEF PageKept
  <1>6. DOMAIN hist = HistFields /\ hist.late = {} /\ hist.stray = {} BY <1>1 DEF HistFields
  <1> QED BY <1>5, <1>6 DEF DoorInv, TokenReachesItsMachine

LEMMA DoorStep ==
    ASSUME HostDoorAssumption, DoorInv, [Next]_vars
    PROVE  DoorInv'
  <1>1. ASSUME NEW h \in Ids, NEW m \in Machines, Submit(h, m) PROVE DoorInv'
    BY <1>1, SubmitKept
  <1>2. ASSUME NEW h \in Hosts, NEW u \in Origins, NEW typed \in BOOLEAN, EditHost(h, u, typed)
        PROVE  DoorInv'
    BY <1>2, EditKept
  <1>3. ASSUME NEW h \in Hosts, RemoveHost(h) PROVE DoorInv' BY <1>3, RemoveKept
  <1>4. ASSUME NEW h \in Hosts, NEW p, StartSwitch(h, p) PROVE DoorInv' BY <1>4, SwitchKept
  <1>5. ASSUME NEW h \in Hosts, NEW u, StartAdd(h, u) PROVE DoorInv' BY <1>5, AddKept
  <1>6. ASSUME NEW r \in pg.reqs, Continue(r) PROVE DoorInv' BY <1>6, ContinueKept
  <1>7. ASSUME NEW r \in pg.reqs, Serve(r) PROVE DoorInv' BY <1>7, ServeKept
  <1>8. ASSUME NEW r \in pg.reqs, NEW go \in BOOLEAN, Land(r, go) PROVE DoorInv'
    BY <1>8, LandKept
  <1>9. CASE UNCHANGED vars BY <1>9 DEF vars, DoorInv, TokenReachesItsMachine
  <1>10. CASE \/ \E h \in Ids : StartPoll(h)
              \/ \E h \in Hosts : StartMint(h) \/ StartIdent(h)
    BY <1>10, StartsKept
  <1>11. CASE \/ \E h \in Ids : OpenLogin(h)
              \/ CancelLogin \/ CheckClip \/ NoteBoot
              \/ \E h \in Hosts : AllowClip(h)
              \/ \E i \in Asks : AskServed(i) \/ AskLands(i)
              \/ \E r \in pg.reqs : Lose(r)
              \/ \E p \in Peers, o \in Origins \cup {None} : HubMoves(p, o)
              \/ \E m \in Machines : Rotate(m)
    BY <1>11, AsideKept
  <1>12. CASE User
    BY <1>1, <1>2, <1>3, <1>4, <1>5, <1>11, <1>12 DEF User
  <1> QED BY <1>6, <1>7, <1>8, <1>9, <1>10, <1>11, <1>12 DEF Next

\* What a record's password is kept for is the machine the record leads to, and
\* what a request carries is kept for the machine it is on its way to, through
\* restarts, stale reads, edits, switches, logins and refusals.
THEOREM DoorInvariant == ASSUME HostDoorAssumption PROVE Spec => []DoorInv
  <1>1. Init => DoorInv BY InitDoor
  <1>2. DoorInv /\ [Next]_vars => DoorInv' BY DoorStep
  <1> QED BY <1>1, <1>2, PTL DEF Spec

\* A password reaches only the machine it is kept for, but for one that a login
\* stored after its host's address was changed under it.
THEOREM PasswordsReachTheirMachine ==
    ASSUME HostDoorAssumption PROVE Spec => []TokenReachesItsMachine
  <1>1. DoorInv => TokenReachesItsMachine BY DEF DoorInv
  <1> QED BY <1>1, DoorInvariant, PTL

-----------------------------------------------------------------------------
(* The types, and what they rest on: every read of /info somebody waits for *)
(* is under way or answered, and no two requests share a place, so that a   *)
(* read always finds one.                                                   *)

Stages == {"pair", "info", "sent", "back", "again"}
Kinds == {"poll", "mint", "ident", "probe", "add", "switch"}
Listed == Origins \cup {None}
AskTyped(a) == DOMAIN a = {"st", "tok", "run", "peers"} /\ a.peers \in [Peers -> Listed]
ReqTyped(r) ==
    /\ DOMAIN r = ReqFields /\ r.id \in Slots /\ r.h \in Ids
    /\ r.kind \in Kinds /\ r.stage \in Stages /\ r.tok \in Tokens
    /\ r.url \in Urls /\ r.org \in Urls /\ r.way \in Peers \cup {None} /\ r.m \in Places \cup {None}
    /\ r.ask \in Asks \cup {None} /\ (r.stage \in {"pair", "info", "again"} <=> r.ask # None)
    /\ r.kind = "switch" => r.stage = "pair"
    /\ r.stage = "pair" => r.kind \in {"probe", "switch"}
    /\ r.kind = "probe" => r.tok # None

RecsTyped(P) == DOMAIN P.rec = Ids /\ \A h \in Ids : RecOK(P.rec[h])
AsksTyped(P) ==
    /\ DOMAIN P.asks = Asks /\ \A i \in Asks : AskTyped(P.asks[i])
    /\ P.memo \in Asks \cup {None} /\ (P.memo # None => P.asks[P.memo].st # "none")
ReqsTyped(P) ==
    /\ \A r \in P.reqs : ReqTyped(r) /\ (r.ask # None => P.asks[r.ask].st # "none")
    /\ \A r, q \in P.reqs : r.id = q.id => r = q
FormTyped(P) == P.login \in Ids \cup {None} /\ P.asked \subseteq Ids
PageTyped(P) ==
    DOMAIN P = PageFields /\ RecsTyped(P) /\ AsksTyped(P) /\ ReqsTyped(P) /\ FormTyped(P)
HubTyped == /\ DOMAIN hub = {"peers", "run", "pw"}
            /\ hub.peers \in [Peers -> Listed] /\ hub.pw \in [Machines -> Nat]
TypesInv == PageTyped(pg) /\ HubTyped

LEMMA TypesAre == TypesInv => TypeOK
  <1> SUFFICES ASSUME TypesInv PROVE TypeOK OBVIOUS
  <1>1. \A h \in Ids : RecOK(pg.rec[h]) BY DEF TypesInv, PageTyped, RecsTyped
  <1>2. pg.memo \in Asks \cup {None} /\ pg.login \in Ids \cup {None} /\ pg.asked \subseteq Ids
    BY DEF TypesInv, PageTyped, AsksTyped, FormTyped
  <1>3. ASSUME NEW r \in pg.reqs
        PROVE  /\ r.id \in Slots /\ r.tok \in Tokens /\ r.h \in Ids
               /\ (r.stage \in {"pair", "info", "again"}) <=> (r.ask # None)
               /\ r.ask # None => pg.asks[r.ask].st # "none"
    BY <1>3 DEF TypesInv, PageTyped, ReqsTyped, ReqTyped
  <1>4. \A r, q \in pg.reqs : r.id = q.id => r = q BY DEF TypesInv, PageTyped, ReqsTyped
  <1> QED BY <1>1, <1>2, <1>3, <1>4 DEF TypeOK

\* What is published, and the places and passwords it makes.
LEMMA PlacesTyped ==
    ASSUME HostDoorAssumption
    PROVE  /\ None \notin Peers /\ None \notin Asks /\ None \notin Ids /\ None \notin Origins
           /\ \A u \in Urls : Machine("direct", u) \in Places /\ Machine("server", u) \in Places
           /\ Machines \subseteq Places /\ None \notin Places
           /\ \A u \in Origins \cup {Home} : Machine("direct", u) \in Machines
           /\ HomeMachine \in Machines /\ Listed \subseteq Urls /\ Local \in Ids /\ Hosts \subseteq Ids
           /\ None \in Tokens /\ None \in Urls
  <1>1. /\ None \notin Peers /\ None \notin Asks /\ None \notin Ids /\ None \notin Origins
        /\ None \notin Places /\ Local \in Ids /\ Hosts \subseteq Ids
    BY DEF HostDoorAssumption, Ids
  <1>2. \A u \in Urls : Machine("direct", u) \in Places /\ Machine("server", u) \in Places
    BY DEF Places
  <1>3. Machines \subseteq Places BY DEF Machines, Places, Urls
  <1>4. \A u \in Origins \cup {Home} : Machine("direct", u) \in Machines BY DEF Machines
  <1>5. HomeMachine \in Machines BY <1>4 DEF HomeMachine, Machine
  <1>6. Listed \subseteq Urls /\ None \in Tokens /\ None \in Urls
    BY DEF Listed, Urls, Tokens
  <1> QED BY <1>1, <1>2, <1>3, <1>4, <1>5, <1>6

LEMMA TokensTyped ==
    ASSUME HostDoorAssumption, HubTyped, NEW at \in Places
    PROVE  /\ \A tok \in Tokens : tok # None => KeptFor(tok, at) \in Tokens /\ KeptFor(tok, at) # None
           /\ \A m \in Machines : RightFor(at, m) \in Tokens /\ RightFor(at, m) # None
  <1> DEFINE Made == [at : Places, of : Machines, n : Nat]
  <1>1. None \notin Made /\ Tokens = {None} \cup Made BY DEF HostDoorAssumption, Tokens
  <1>2. ASSUME NEW tok \in Tokens, tok # None PROVE KeptFor(tok, at) \in Made
    <2>1. tok \in Made BY <1>1, <1>2
    <2>2. [tok EXCEPT !.at = at] \in Made BY <2>1
    <2> QED BY <2>2 DEF KeptFor
  <1>3. ASSUME NEW m \in Machines PROVE RightFor(at, m) \in Made
    BY DEF RightFor, Password, HubTyped
  <1> HIDE DEF Made
  <1> QED BY <1>1, <1>2, <1>3

\* Some read has a place: fewer requests can wait than there are places.
LEMMA FreePlace ==
    ASSUME HostDoorAssumption, NEW P, ReqsTyped(P), P.memo = None
    PROVE  \E i \in Asks : ~Waits(P, i)
  <1> SUFFICES ASSUME \A i \in Asks : Waits(P, i) PROVE FALSE OBVIOUS
  <1> DEFINE n == Cardinality(Slots)
             Of(i) == CHOOSE r \in P.reqs : r.ask = i
             T == {Of(i).id : i \in Asks}
             f == [s \in T |-> (CHOOSE r \in P.reqs : r.id = s).ask]
  <1>1. n \in Nat BY FS_CardinalityType DEF HostDoorAssumption
  <1>2. ASSUME NEW i \in Asks PROVE Of(i) \in P.reqs /\ Of(i).ask = i
    <2>1. \E r \in P.reqs : r.ask = i
      <3>1. i # None BY DEF HostDoorAssumption
      <3> QED BY <3>1 DEF Waits
    <2> QED BY <2>1
  <1>3. T \subseteq Slots
    <2>1. \A i \in Asks : Of(i).id \in Slots BY <1>2 DEF ReqsTyped, ReqTyped
    <2> HIDE DEF Of
    <2> QED BY <2>1
  <1>4. ASSUME NEW i \in Asks PROVE Of(i).id \in T /\ f[Of(i).id] = i
    <2>1. Of(i).id \in T OBVIOUS
    <2> DEFINE q == CHOOSE r \in P.reqs : r.id = Of(i).id
    <2>2. q \in P.reqs /\ q.id = Of(i).id BY <1>2
    <2>3. q = Of(i) BY <1>2, <2>2 DEF ReqsTyped
    <2>4. f[Of(i).id] = q.ask BY <2>1
    <2> HIDE DEF q, f, Of
    <2> QED BY <1>2, <2>1, <2>3, <2>4
  <1>5. f \in [T -> Asks]
    <2>1. ASSUME NEW s \in T PROVE f[s] \in Asks
      <3>1. PICK i \in Asks : s = Of(i).id OBVIOUS
      <3> HIDE DEF T, f, Of
      <3> QED BY <1>4, <3>1
    <2> QED BY <2>1
  <1> HIDE DEF T, f, Of, n
  <1>6. f \in Surjection(T, Asks)
    BY <1>4, <1>5 DEF Surjection
  <1>7. IsFiniteSet(T) /\ Cardinality(T) <= n
    BY <1>3, FS_Subset DEF HostDoorAssumption, n
  <1>8. Cardinality(Asks) <= Cardinality(T) BY <1>6, <1>7, FS_Surjection
  <1>9. Cardinality(Asks) = n + 1
    <2>1. Asks = 1 .. (n + 1) BY DEF Asks, n
    <2> QED BY <1>1, <2>1, FS_Interval
  <1>10. Cardinality(T) \in Nat BY <1>7, FS_CardinalityType
  <1> QED BY <1>1, <1>7, <1>8, <1>9, <1>10

-----------------------------------------------------------------------------
(* What the parts of a step leave typed.                                    *)

\* Requests are only marked out of date, and the rest of the page is as it was.
LEMMA MarkedTyped ==
    ASSUME NEW P, PageTyped(P), NEW D, NEW Q, DOMAIN Q = PageFields,
           Q.rec = P.rec, Q.asks = P.asks, Q.memo \in {P.memo, None},
           Q.login \in Ids \cup {None}, Q.asked \subseteq Ids,
           Q.reqs = {IF r \in D THEN [r EXCEPT !.cur = FALSE] ELSE r : r \in P.reqs}
    PROVE  PageTyped(Q)
  <1> DEFINE mark(r) == IF r \in D THEN [r EXCEPT !.cur = FALSE] ELSE r
  <1>1. ASSUME NEW r \in P.reqs
        PROVE  /\ ReqTyped(mark(r)) /\ mark(r).id = r.id
               /\ mark(r).ask # None => P.asks[mark(r).ask].st # "none"
    <2>1. ReqTyped(r) /\ (r.ask # None => P.asks[r.ask].st # "none")
      BY DEF PageTyped, ReqsTyped
    <2> DEFINE x == [r EXCEPT !.cur = FALSE]
    <2>2. /\ DOMAIN x = ReqFields /\ x.id = r.id /\ x.h = r.h /\ x.kind = r.kind /\ x.stage = r.stage
          /\ x.tok = r.tok /\ x.url = r.url /\ x.org = r.org /\ x.way = r.way /\ x.m = r.m
          /\ x.ask = r.ask
      BY <2>1 DEF ReqTyped, ReqFields
    <2> HIDE DEF x
    <2>3. ReqTyped(x) BY <2>1, <2>2 DEF ReqTyped
    <2>4. mark(r) = x \/ mark(r) = r BY DEF x
    <2> HIDE DEF mark
    <2> QED BY <2>1, <2>2, <2>3, <2>4
  <1>2. Q.reqs = {mark(r) : r \in P.reqs} OBVIOUS
  <1> HIDE DEF mark
  <1>3. \A r, q \in P.reqs : r.id = q.id => r = q BY DEF PageTyped, ReqsTyped
  <1>4. ReqsTyped(Q) BY <1>1, <1>2, <1>3 DEF ReqsTyped
  <1>5. RecsTyped(Q) BY DEF PageTyped, RecsTyped
  <1>6. AsksTyped(Q) BY DEF PageTyped, AsksTyped
  <1> QED BY <1>4, <1>5, <1>6 DEF PageTyped, FormTyped

\* The login form and the marks on hosts.
LEMMA FormsTyped ==
    ASSUME NEW P, PageTyped(P), NEW Q, DOMAIN Q = PageFields,
           Q.rec = P.rec, Q.asks = P.asks, Q.memo \in {P.memo, None},
           Q.login \in Ids \cup {None}, Q.asked \subseteq Ids, Q.reqs = P.reqs
    PROVE  PageTyped(Q)
  <1>1. ReqsTyped(Q) BY DEF PageTyped, ReqsTyped
  <1>2. RecsTyped(Q) /\ AsksTyped(Q) BY DEF PageTyped, RecsTyped, AsksTyped
  <1> QED BY <1>1, <1>2 DEF PageTyped, FormTyped

LEMMA MarksTyped ==
    ASSUME NEW P, PageTyped(P), NEW hs
    PROVE  /\ PageTyped(Forgotten(P)) /\ PageTyped(Pruned(P)) /\ PageTyped(Invalidated(P, hs))
           /\ PageTyped(Stale(P)) /\ PageTyped(Hide(P))
           /\ \A h \in Ids : \A force : PageTyped(Show(P, h, force))
           /\ Forgotten(P).rec = P.rec /\ Forgotten(P).reqs = P.reqs
  <1>0. DOMAIN P = PageFields /\ FormTyped(P) BY DEF PageTyped
  <1>1. PageTyped(Forgotten(P)) /\ Forgotten(P).rec = P.rec /\ Forgotten(P).reqs = P.reqs
    <2> DEFINE Q == Forgotten(P)
    <2>1. /\ DOMAIN Q = PageFields /\ Q.rec = P.rec /\ Q.asks = P.asks /\ Q.memo = None
          /\ Q.login = P.login /\ Q.asked = P.asked /\ Q.reqs = P.reqs
      BY <1>0 DEF Forgotten, PageFields
    <2> HIDE DEF Q
    <2>2. PageTyped(Q) BY <1>0, <2>1, FormsTyped DEF FormTyped
    <2> QED BY <2>1, <2>2 DEF Q
  <1>2. PageTyped(Pruned(P))
    <2> DEFINE Q == Pruned(P)
    <2>1. /\ DOMAIN Q = PageFields /\ Q.rec = P.rec /\ Q.asks = P.asks /\ Q.memo = P.memo
          /\ Q.login = P.login /\ Q.asked = P.asked /\ Q.reqs = P.reqs
      BY <1>0 DEF Pruned, PageFields
    <2> HIDE DEF Q
    <2>2. PageTyped(Q) BY <1>0, <2>1, FormsTyped DEF FormTyped
    <2> QED BY <2>2 DEF Q
  <1>3. PageTyped(Invalidated(P, hs))
    <2> DEFINE Q == Invalidated(P, hs)
               D == {r \in P.reqs : r.kind = "poll" /\ r.h \in hs}
    <2>1. /\ DOMAIN Q = PageFields /\ Q.rec = P.rec /\ Q.asks = P.asks /\ Q.memo = P.memo
          /\ Q.login = P.login /\ Q.asked = P.asked \ hs
          /\ Q.reqs = {IF r.kind = "poll" /\ r.h \in hs THEN [r EXCEPT !.cur = FALSE] ELSE r : r \in P.reqs}
      BY <1>0 DEF Invalidated, PageFields
    <2>2. Q.reqs = {IF r \in D THEN [r EXCEPT !.cur = FALSE] ELSE r : r \in P.reqs} BY <2>1
    <2> HIDE DEF Q, D
    <2>3. PageTyped(Q) BY <1>0, <2>1, <2>2, MarkedTyped DEF FormTyped
    <2> QED BY <2>3 DEF Q
  <1>4. PageTyped(Stale(P)) /\ DOMAIN Stale(P) = PageFields
    <2> DEFINE Q == Stale(P)
               D == {r \in P.reqs : r.kind = "probe"}
    <2>1. /\ DOMAIN Q = PageFields /\ Q.rec = P.rec /\ Q.asks = P.asks /\ Q.memo = P.memo
          /\ Q.login = P.login /\ Q.asked = P.asked
          /\ Q.reqs = {IF r.kind = "probe" THEN [r EXCEPT !.cur = FALSE] ELSE r : r \in P.reqs}
      BY <1>0 DEF Stale, PageFields
    <2>2. Q.reqs = {IF r \in D THEN [r EXCEPT !.cur = FALSE] ELSE r : r \in P.reqs} BY <2>1
    <2> HIDE DEF Q, D
    <2>3. PageTyped(Q) BY <1>0, <2>1, <2>2, MarkedTyped DEF FormTyped
    <2> QED BY <2>1, <2>3 DEF Q
  <1>5. ASSUME NEW S, PageTyped(S), DOMAIN S = PageFields PROVE PageTyped([S EXCEPT !.login = None])
    <2> DEFINE Q == [S EXCEPT !.login = None]
    <2>1. /\ DOMAIN Q = PageFields /\ Q.rec = S.rec /\ Q.asks = S.asks /\ Q.memo = S.memo
          /\ Q.login = None /\ Q.asked = S.asked /\ Q.reqs = S.reqs
      BY <1>5 DEF PageFields
    <2> HIDE DEF Q
    <2>2. S.asked \subseteq Ids BY <1>5 DEF PageTyped, FormTyped
    <2>3. PageTyped(Q) BY <1>5, <2>1, <2>2, FormsTyped
    <2> QED BY <2>3 DEF Q
  <1>6. PageTyped(Hide(P)) BY <1>4, <1>5 DEF Hide
  <1>7. ASSUME NEW h \in Ids, NEW force PROVE PageTyped(Show(P, h, force))
    <2> DEFINE S == Stale(P)
               Q == [S EXCEPT !.login = h, !.asked = @ \cup {h}]
    <2>1. Show(P, h, force) \in {P, Q} BY DEF Show
    <2>2. S.asked \subseteq Ids BY <1>4 DEF PageTyped, FormTyped
    <2>3. PageTyped(S) /\ DOMAIN S = PageFields BY <1>4
    <2> HIDE DEF S
    <2>4. /\ DOMAIN Q = PageFields /\ Q.rec = S.rec /\ Q.asks = S.asks /\ Q.memo = S.memo
          /\ Q.login = h /\ Q.asked = S.asked \cup {h} /\ Q.reqs = S.reqs
      BY <2>3 DEF PageFields
    <2> HIDE DEF Q
    <2>5. PageTyped(Q) BY <2>2, <2>3, <2>4, FormsTyped
    <2> QED BY <2>1, <2>5
  <1> QED BY <1>1, <1>2, <1>3, <1>4, <1>6, <1>7

\* A read of /info is opened or answered.
LEMMA SetAskTyped ==
    ASSUME NEW P, PageTyped(P), NEW i \in Asks, NEW a, AskTyped(a), a.st # "none"
    PROVE  /\ PageTyped(SetAsk(P, i, a)) /\ SetAsk(P, i, a).asks[i] = a
           /\ SetAsk(P, i, a).reqs = P.reqs /\ SetAsk(P, i, a).memo = P.memo
  <1> DEFINE Q == SetAsk(P, i, a)
  <1>1. /\ DOMAIN P = PageFields /\ DOMAIN P.asks = Asks BY DEF PageTyped, AsksTyped
  <1>2. /\ DOMAIN Q = PageFields /\ Q.rec = P.rec /\ Q.memo = P.memo
        /\ Q.login = P.login /\ Q.asked = P.asked /\ Q.reqs = P.reqs
        /\ Q.asks = [P.asks EXCEPT ![i] = a]
    BY <1>1 DEF SetAsk, PageFields
  <1>3. DOMAIN Q.asks = Asks /\ Q.asks[i] = a /\ \A j \in Asks : Q.asks[j] = IF j = i THEN a ELSE P.asks[j]
    BY <1>1, <1>2
  <1> HIDE DEF Q
  <1>4. \A j \in Asks : AskTyped(Q.asks[j]) /\ (P.asks[j].st # "none" => Q.asks[j].st # "none")
    BY <1>3 DEF PageTyped, AsksTyped
  <1>5. AsksTyped(Q) BY <1>2, <1>3, <1>4 DEF PageTyped, AsksTyped
  <1>6. ReqsTyped(Q) BY <1>2, <1>4 DEF PageTyped, ReqsTyped, ReqTyped
  <1>7. PageTyped(Q) BY <1>2, <1>5, <1>6 DEF PageTyped, RecsTyped, FormTyped
  <1> QED BY <1>2, <1>3, <1>7 DEF Q

LEMMA NoAskTyped == AskTyped(NoAsk) /\ DOMAIN NoAsk = {"st", "tok", "run", "peers"}
  BY DEF NoAsk, AskTyped, Listed

\* Whoever needs what is published joins the read under way, or begins one.
LEMMA AskedTyped ==
    ASSUME HostDoorAssumption, NEW P, PageTyped(P)
    PROVE  LET Q == Asked(P)
           IN  /\ PageTyped(Q) /\ Q.memo \in Asks /\ Q.memo # None
               /\ Q.asks[Q.memo].st # "none" /\ Q.reqs = P.reqs
  <1>0. None \notin Asks BY DEF HostDoorAssumption
  <1>1. CASE P.memo # None BY <1>1 DEF Asked, PageTyped, AsksTyped
  <1>2. CASE P.memo = None
    <2> DEFINE i == CHOOSE i \in Asks : ~Waits(P, i)
               a == [NoAsk EXCEPT !.st = "out", !.tok = P.rec[Local].tok]
               R == SetAsk(P, i, a)
               Q == [R EXCEPT !.memo = i]
    <2>1. i \in Asks BY <1>2, FreePlace DEF PageTyped
    <2>2. AskTyped(a) /\ a.st = "out"
      <3>1. DOMAIN a = DOMAIN NoAsk /\ a.peers = NoAsk.peers /\ a.st = "out" BY NoAskTyped
      <3> HIDE DEF a
      <3> QED BY <3>1, NoAskTyped DEF AskTyped
    <2>3. Asked(P) = Q BY <1>2 DEF Asked
    <2> HIDE DEF i, a
    <2>4. PageTyped(R) /\ R.asks[i] = a /\ R.reqs = P.reqs BY <2>1, <2>2, SetAskTyped
    <2> HIDE DEF R
    <2>5. /\ DOMAIN Q = PageFields /\ Q.rec = R.rec /\ Q.memo = i /\ Q.asks = R.asks
          /\ Q.login = R.login /\ Q.asked = R.asked /\ Q.reqs = R.reqs
      BY <2>4 DEF PageTyped, PageFields
    <2> HIDE DEF Q
    <2>6. AsksTyped(Q) BY <2>1, <2>2, <2>4, <2>5 DEF PageTyped, AsksTyped
    <2>7. ReqsTyped(Q) BY <2>4, <2>5 DEF PageTyped, ReqsTyped
    <2>8. PageTyped(Q) BY <2>4, <2>5, <2>6, <2>7 DEF PageTyped, RecsTyped, FormTyped
    <2> QED BY <1>0, <2>1, <2>2, <2>3, <2>4, <2>5, <2>8
  <1> QED BY <1>1, <1>2

\* A read nobody waits for is dropped.
LEMMA TidyTyped ==
    ASSUME HostDoorAssumption, NEW P, PageTyped(P)
    PROVE  PageTyped(Tidy(P))
  <1> DEFINE f == [i \in Asks |-> IF Waits(P, i) THEN P.asks[i] ELSE NoAsk]
             Q == Tidy(P)
  <1>1. /\ DOMAIN Q = PageFields /\ Q.rec = P.rec /\ Q.memo = P.memo
        /\ Q.login = P.login /\ Q.asked = P.asked /\ Q.reqs = P.reqs /\ Q.asks = f
    BY DEF Tidy, PageTyped, PageFields
  <1>2. \A i \in Asks : f[i] = IF Waits(P, i) THEN P.asks[i] ELSE NoAsk OBVIOUS
  <1>3. DOMAIN f = Asks OBVIOUS
  <1> HIDE DEF f, Q
  <1>4. \A i \in Asks : AskTyped(f[i]) BY <1>2, NoAskTyped DEF PageTyped, AsksTyped
  <1>5. P.memo # None => P.memo \in Asks /\ f[P.memo] = P.asks[P.memo]
    BY <1>2 DEF PageTyped, AsksTyped, Waits
  <1>6. AsksTyped(Q) BY <1>1, <1>3, <1>4, <1>5 DEF PageTyped, AsksTyped
  <1>7. ASSUME NEW r \in P.reqs, r.ask # None PROVE f[r.ask].st # "none"
    <2>1. r.ask \in Asks /\ r.stage \in {"pair", "info", "again"} /\ P.asks[r.ask].st # "none"
      BY <1>7 DEF PageTyped, ReqsTyped, ReqTyped
    <2>2. Waits(P, r.ask) BY <2>1 DEF Waits
    <2> QED BY <1>2, <2>1, <2>2
  <1>8. ReqsTyped(Q) BY <1>1, <1>7 DEF PageTyped, ReqsTyped
  <1>9. PageTyped(Q) BY <1>1, <1>6, <1>8 DEF PageTyped, RecsTyped, FormTyped
  <1> QED BY <1>9 DEF Q

\* Requests come, go and move on.
LEMMA WithTyped ==
    ASSUME NEW P, PageTyped(P), NEW r
    PROVE  /\ PageTyped(Without(P, r))
           /\ \A q : /\ ReqTyped(q) /\ (q.ask # None => P.asks[q.ask].st # "none")
                     => /\ (\A x \in P.reqs : x.id # q.id) => PageTyped(With(P, q))
                        /\ q.id = r.id => PageTyped(AsIs(P, r, q))
  <1>1. ASSUME NEW R, R \subseteq P.reqs PROVE PageTyped([P EXCEPT !.reqs = R])
    <2> DEFINE Q == [P EXCEPT !.reqs = R]
    <2>1. /\ DOMAIN Q = PageFields /\ Q.rec = P.rec /\ Q.memo = P.memo /\ Q.asks = P.asks
          /\ Q.login = P.login /\ Q.asked = P.asked /\ Q.reqs = R
      BY DEF PageTyped, PageFields
    <2> HIDE DEF Q
    <2>2. ReqsTyped(Q) BY <1>1, <2>1 DEF PageTyped, ReqsTyped
    <2>3. PageTyped(Q) BY <2>1, <2>2 DEF PageTyped, RecsTyped, FormTyped, AsksTyped
    <2> QED BY <2>3 DEF Q
  <1>2. PageTyped(Without(P, r)) BY <1>1 DEF Without
  <1>3. ASSUME NEW S, PageTyped(S), S.asks = P.asks, NEW q, ReqTyped(q),
               q.ask # None => P.asks[q.ask].st # "none", \A x \in S.reqs : x.id # q.id
        PROVE  PageTyped(With(S, q))
    <2> DEFINE Q == With(S, q)
    <2>1. /\ DOMAIN Q = PageFields /\ Q.rec = S.rec /\ Q.memo = S.memo /\ Q.asks = S.asks
          /\ Q.login = S.login /\ Q.asked = S.asked /\ Q.reqs = S.reqs \cup {q}
      BY <1>3 DEF With, PageTyped, PageFields
    <2> HIDE DEF Q
    <2>2. ReqsTyped(Q) BY <1>3, <2>1 DEF PageTyped, ReqsTyped
    <2>3. PageTyped(Q) BY <1>3, <2>1, <2>2 DEF PageTyped, RecsTyped, FormTyped, AsksTyped
    <2> QED BY <2>3 DEF Q
  <1>4. Without(P, r).asks = P.asks /\ \A x \in Without(P, r).reqs : x.id # r.id
    BY DEF Without, PageTyped, PageFields
  <1> QED BY <1>2, <1>3, <1>4 DEF AsIs

LEMMA SetRecTyped ==
    ASSUME NEW P, PageTyped(P), NEW h \in Ids, NEW x, RecOK(x)
    PROVE  PageTyped(SetRec(P, h, x))
  <1> DEFINE f == [P.rec EXCEPT ![h] = x]
             Q == SetRec(P, h, x)
  <1>1. DOMAIN f = Ids /\ \A d \in Ids : f[d] = IF d = h THEN x ELSE P.rec[d]
    BY DEF PageTyped, RecsTyped
  <1>2. /\ DOMAIN Q = PageFields /\ Q.rec = f /\ Q.memo = P.memo /\ Q.asks = P.asks
        /\ Q.login = P.login /\ Q.asked = P.asked /\ Q.reqs = P.reqs
    BY DEF SetRec, PageTyped, PageFields
  <1> HIDE DEF f, Q
  <1>3. RecsTyped(Q) BY <1>1, <1>2 DEF PageTyped, RecsTyped
  <1>4. PageTyped(Q) BY <1>2, <1>3 DEF PageTyped, ReqsTyped, FormTyped, AsksTyped
  <1> QED BY <1>4 DEF Q

-----------------------------------------------------------------------------
(* What changes the records, typed.                                         *)

LEMMA PublishedTyped ==
    ASSUME HostDoorAssumption, NEW info, info.peers \in [Peers -> Listed], NEW p
    PROVE  /\ Published(info, p) \in Listed
           /\ Published(info, p) # None => p \in Peers
  BY DEF Published, Listed

LEMMA RePairTyped ==
    ASSUME HostDoorAssumption, NEW P, PageTyped(P), NEW info, info.peers \in [Peers -> Listed]
    PROVE  PageTyped(RePaired(P, info))
  <1> DEFINE new(r) == [r EXCEPT !.tok = None, !.paired = Published(info, r.peer),
                                 !.url = Published(info, r.peer)]
             f == [h \in Ids |-> IF h \in Moved(P, info) THEN new(P.rec[h]) ELSE P.rec[h]]
             Q == [P EXCEPT !.rec = f]
  <1>1. RePaired(P, info) \in {P, Pruned(Invalidated(Q, Moved(P, info)))} BY DEF RePaired
  <1>2. ASSUME NEW h \in Ids PROVE RecOK(f[h])
    <2>1. RecOK(P.rec[h]) BY DEF PageTyped, RecsTyped
    <2>2. CASE h \in Moved(P, info)
      <3> DEFINE r == P.rec[h]
                 o == Published(info, r.peer)
                 x == [r EXCEPT !.tok = None, !.paired = o, !.url = o]
      <3>1. Proxied(r) BY <2>2 DEF Moved
      <3>2. o \in Urls /\ None \in Tokens BY PublishedTyped, PlacesTyped
      <3>3. f[h] = x BY <2>2
      <3> HIDE DEF o, r, f
      <3>4. x \in Records /\ x.via = r.via /\ x.peer = r.peer
        BY <2>1, <3>2 DEF RecOK, Records, r
      <3> HIDE DEF x
      <3> QED BY <2>1, <3>1, <3>3, <3>4 DEF RecOK, Proxied, r
    <2>3. CASE h \notin Moved(P, info) BY <2>1, <2>3
    <2> QED BY <2>2, <2>3
  <1>3. DOMAIN f = Ids OBVIOUS
  <1> HIDE DEF f
  <1>4. /\ DOMAIN Q = PageFields /\ Q.rec = f /\ Q.memo = P.memo /\ Q.asks = P.asks
        /\ Q.login = P.login /\ Q.asked = P.asked /\ Q.reqs = P.reqs
    BY DEF PageTyped, PageFields
  <1> HIDE DEF Q
  <1>5. PageTyped(Q)
    <2>1. RecsTyped(Q) BY <1>2, <1>3, <1>4 DEF RecsTyped
    <2> QED BY <1>4, <2>1 DEF PageTyped, ReqsTyped, FormTyped, AsksTyped
  <1>6. PageTyped(Pruned(Invalidated(Q, Moved(P, info)))) BY <1>5, MarksTyped
  <1> QED BY <1>1, <1>6

LEMMA CommitTyped ==
    ASSUME HostDoorAssumption, NEW P, PageTyped(P), NEW i \in Asks
    PROVE  PageTyped(Commit(P, i))
  <1>1. P.asks[i].peers \in [Peers -> Listed] BY DEF PageTyped, AsksTyped, AskTyped
  <1> QED BY <1>1, RePairTyped DEF Commit

LEMMA SetHostModeTyped ==
    ASSUME HostDoorAssumption, NEW P, PageTyped(P), NEW h \in Ids, NEW p \in Peers \cup {None},
           NEW info, info.peers \in [Peers -> Listed]
    PROVE  PageTyped(SetHostMode(P, h, p, info))
  <1> DEFINE r == P.rec[h]
             o == Published(info, p)
             able == r.on /\ ~Twin(P, h, p) /\ (IF p # None THEN o # None /\ r.peer # p ELSE Proxied(r))
             keep == IF p # None THEN ~Proxied(r) /\ r.url = o /\ o \in Shared
                                 ELSE r.paired = r.url /\ r.url \in Shared
             tok == IF keep THEN r.tok ELSE None
             new == IF p # None
                      THEN [r EXCEPT !.via = "server", !.peer = p, !.paired = o, !.url = o,
                                     !.tok = tok, !.bid = None]
                      ELSE [r EXCEPT !.via = "direct", !.peer = None, !.paired = None,
                                     !.tok = tok, !.bid = None]
  <1>1. SetHostMode(P, h, p, info) \in {P, Pruned(Invalidated(SetRec(P, h, new), {h}))}
    BY DEF SetHostMode
  <1>2. RecOK(r) BY DEF PageTyped, RecsTyped
  <1>3. o \in Urls /\ None \in Tokens /\ None \in Urls BY PublishedTyped, PlacesTyped
  <1>4. tok \in Tokens BY <1>2, <1>3 DEF RecOK, Records
  <1> HIDE DEF tok, o, r
  <1>5. RecOK(new)
    <2>1. CASE p # None
      <3> DEFINE x == [r EXCEPT !.via = "server", !.peer = p, !.paired = o, !.url = o, !.tok = tok, !.bid = None]
      <3>1. x \in Records /\ x.via = "server" /\ x.peer = p
        BY <1>2, <1>3, <1>4 DEF RecOK, Records
      <3>2. new = x BY <2>1
      <3> HIDE DEF x, new
      <3> QED BY <2>1, <3>1, <3>2 DEF RecOK, Proxied
    <2>2. CASE p = None
      <3> DEFINE x == [r EXCEPT !.via = "direct", !.peer = None, !.paired = None, !.tok = tok, !.bid = None]
      <3>1. x \in Records /\ x.via = "direct" /\ x.peer = None /\ x.paired = None
        BY <1>2, <1>3, <1>4 DEF RecOK, Records
      <3>2. new = x BY <2>2
      <3> HIDE DEF x, new
      <3> QED BY <3>1, <3>2 DEF RecOK, Proxied
    <2> QED BY <2>1, <2>2
  <1> HIDE DEF new
  <1>6. PageTyped(SetRec(P, h, new)) BY <1>5, SetRecTyped
  <1>7. PageTyped(Invalidated(SetRec(P, h, new), {h})) BY <1>6, MarksTyped
  <1>8. PageTyped(Pruned(Invalidated(SetRec(P, h, new), {h}))) BY <1>7, MarksTyped
  <1> QED BY <1>1, <1>8

-----------------------------------------------------------------------------
(* Requests on their way, typed.                                            *)

\* A request as it is made from its host's record, before it waits for anything.
LEMMA NewTyped ==
    ASSUME HostDoorAssumption, PageTyped(pg), NEW s \in Slots, NEW h \in Ids,
           NEW kind \in {"poll", "mint", "ident", "probe"}
    PROVE  LET r == New(s, kind, h)
           IN  /\ DOMAIN r = ReqFields /\ r.id = s /\ r.h = h /\ r.kind = kind /\ r.stage = "sent"
               /\ r.tok = pg.rec[h].tok /\ r.url = pg.rec[h].url /\ r.org = pg.rec[h].paired
               /\ r.way = None /\ r.m = None /\ r.ask = None
               /\ r.tok \in Tokens /\ r.url \in Urls /\ r.org \in Urls
  <1>1. pg.rec[h] \in Records BY DEF PageTyped, RecsTyped, RecOK
  <1>2. pg.rec[h].tok \in Tokens /\ pg.rec[h].url \in Urls /\ pg.rec[h].paired \in Urls
    BY <1>1 DEF Records
  <1> QED BY <1>2 DEF New, NoReq, ReqFields

LEMMA LeavesTyped ==
    ASSUME HostDoorAssumption, PageTyped(pg), NEW s \in FreeSlots(pg), NEW h \in Ids,
           NEW kind \in {"poll", "mint", "ident"}
    PROVE  PageTyped(Leaves(pg, New(s, kind, h), pg.rec[h]))
  <1> DEFINE r == New(s, kind, h)
             rec == pg.rec[h]
  <1>1. /\ DOMAIN r = ReqFields /\ r.id = s /\ r.h = h /\ r.kind = kind
        /\ r.way = None /\ r.m = None /\ r.ask = None
        /\ r.tok \in Tokens /\ r.url \in Urls /\ r.org \in Urls /\ rec.url \in Urls /\ r.url = rec.url
        /\ r.stage = "sent"
    BY NewTyped DEF FreeSlots
  <1>2. s \in Slots /\ \A x \in pg.reqs : x.id # s BY DEF FreeSlots
  <1> HIDE DEF r, rec
  <1>3. CASE Proxied(rec)
    <2> DEFINE Q == Asked(pg)
               q == [r EXCEPT !.stage = "info", !.ask = Q.memo]
    <2>1. /\ PageTyped(Q) /\ Q.memo \in Asks /\ Q.memo # None
          /\ Q.asks[Q.memo].st # "none" /\ Q.reqs = pg.reqs
      BY AskedTyped
    <2>2. Leaves(pg, r, rec) = With(Q, q) BY <1>3 DEF Leaves
    <2> HIDE DEF Q
    <2>3. /\ DOMAIN q = ReqFields /\ q.id = s /\ q.h = h /\ q.kind = kind /\ q.stage = "info"
          /\ q.way = None /\ q.m = None /\ q.ask = Q.memo
          /\ q.tok = r.tok /\ q.url = r.url /\ q.org = r.org
      BY <1>1 DEF ReqFields
    <2> HIDE DEF q
    <2>4. ReqTyped(q) BY <1>1, <1>2, <2>1, <2>3 DEF ReqTyped, Kinds, Stages
    <2>5. PageTyped(With(Q, q)) BY <1>2, <2>1, <2>3, <2>4, WithTyped
    <2> QED BY <2>2, <2>5 DEF r, rec
  <1>4. CASE ~Proxied(rec)
    <2> DEFINE q == [r EXCEPT !.stage = "sent", !.url = rec.url]
    <2>2. Leaves(pg, r, rec) = With(pg, q) BY <1>4 DEF Leaves
    <2>3. /\ DOMAIN q = ReqFields /\ q.id = s /\ q.h = h /\ q.kind = kind /\ q.stage = "sent"
          /\ q.way = None /\ q.m = None /\ q.ask = None
          /\ q.tok = r.tok /\ q.url = rec.url /\ q.org = r.org
      BY <1>1 DEF ReqFields
    <2> HIDE DEF q
    <2>4. ReqTyped(q) BY <1>1, <1>2, <2>3 DEF ReqTyped, Kinds, Stages
    <2>5. PageTyped(With(pg, q)) BY <1>2, <2>3, <2>4, WithTyped
    <2> QED BY <2>2, <2>5 DEF r, rec
  <1> QED BY <1>3, <1>4

\* A request whose caller is told it failed, or that is answered.
LEMMA BackTypes ==
    ASSUME NEW r, ReqTyped(r), r.kind # "switch", NEW q, DOMAIN q = ReqFields, q.id = r.id, q.h = r.h,
           q.kind = r.kind, q.tok = r.tok, q.url = r.url, q.org = r.org, q.way = r.way,
           q.m \in {r.m} \cup Places, q.stage = "back", q.ask = None
    PROVE  ReqTyped(q)
  BY DEF ReqTyped, Stages

LEMMA MovesTyped ==
    ASSUME NEW r, ReqTyped(r), r.kind # "switch", NEW ans,
           NEW q, q = [r EXCEPT !.stage = "back", !.ask = None, !.ans = ans]
    PROVE  ReqTyped(q) /\ q.ask = None /\ q.id = r.id
  <1>1. DOMAIN r = ReqFields BY DEF ReqTyped
  <1>2. /\ DOMAIN q = ReqFields /\ q.id = r.id /\ q.h = r.h /\ q.kind = r.kind /\ q.tok = r.tok
        /\ q.url = r.url /\ q.org = r.org /\ q.way = r.way /\ q.m = r.m /\ q.stage = "back"
        /\ q.ask = None
    BY <1>1 DEF ReqFields
  <1> QED BY <1>2, BackTypes

LEMMA ThroughTyped ==
    ASSUME HostDoorAssumption, NEW P, PageTyped(P), NEW r, ReqTyped(r), r.stage = "info"
    PROVE  PageTyped(Through(P, r))
  <1> DEFINE rec == P.rec[r.h]
             copy == r.kind \in {"probe", "ident"}
             p == IF r.kind = "probe" THEN r.way ELSE IF r.kind = "ident" THEN r.from ELSE WayIn(rec)
             info == P.asks[r.ask]
  <1>1. info.peers \in [Peers -> Listed] BY DEF ReqTyped, PageTyped, AsksTyped, AskTyped
  <1>2. CASE Published(info, p) = None
    <2> DEFINE q == [r EXCEPT !.stage = "back", !.ask = None, !.ans = "503"]
    <2>1. Through(P, r) = AsIs(Forgotten(P), r, q) BY <1>2 DEF Through
    <2>2. r.kind # "switch" BY DEF ReqTyped
    <2>3. ReqTyped(q) /\ q.ask = None /\ q.id = r.id BY <2>2, MovesTyped
    <2> HIDE DEF q
    <2>4. PageTyped(Forgotten(P)) BY MarksTyped
    <2> QED BY <2>1, <2>3, <2>4, WithTyped
  <1>3. CASE Published(info, p) # None
    <2> DEFINE tok == IF copy THEN r.tok ELSE rec.tok
               org == IF copy THEN r.org ELSE rec.paired
               q == [r EXCEPT !.stage = "sent", !.ask = None, !.way = p, !.btok = P.rec[Local].tok,
                              !.tok = tok, !.org = org]
    <2>1. Through(P, r) = AsIs(P, r, q) BY <1>3 DEF Through
    <2>2. p \in Peers BY <1>1, <1>3, PublishedTyped
    <2>3. rec \in Records BY DEF ReqTyped, PageTyped, RecsTyped, RecOK
    <2>4. tok \in Tokens /\ org \in Urls /\ (r.kind = "probe" => tok = r.tok)
      BY <2>3 DEF ReqTyped, Records
    <2> HIDE DEF p, tok, org
    <2>5. /\ DOMAIN q = ReqFields /\ q.id = r.id /\ q.h = r.h /\ q.kind = r.kind /\ q.stage = "sent"
          /\ q.way = p /\ q.m = r.m /\ q.ask = None /\ q.tok = tok /\ q.url = r.url /\ q.org = org
      BY DEF ReqTyped, ReqFields
    <2> HIDE DEF q
    <2>6. ReqTyped(q) BY <2>2, <2>4, <2>5 DEF ReqTyped, Stages
    <2> QED BY <2>1, <2>5, <2>6, WithTyped
  <1> QED BY <1>2, <1>3

LEMMA PairedTyped ==
    ASSUME HostDoorAssumption, HubTyped, NEW P, PageTyped(P), NEW r, ReqTyped(r),
           r.stage = "pair", r.kind = "probe"
    PROVE  PageTyped(Paired(P, r))
  <1> DEFINE rec == P.rec[r.h]
             o == Published(P.asks[r.ask], WayIn(rec))
  <1>1. P.asks[r.ask].peers \in [Peers -> Listed]
    BY DEF ReqTyped, PageTyped, AsksTyped, AskTyped
  <1>2. o \in Urls BY <1>1, PublishedTyped, PlacesTyped
  <1>3. rec \in Records BY DEF ReqTyped, PageTyped, RecsTyped, RecOK
  <1>4. rec.url \in Urls /\ rec.peer \in Peers \cup {None} BY <1>3 DEF Records
  <1>5. DOMAIN r = ReqFields /\ r.tok \in Tokens /\ r.tok # None BY DEF ReqTyped
  <1> HIDE DEF o
  <1>6. CASE Proxied(rec)
    <2> DEFINE Q == Asked(P)
               tok == KeptFor(r.tok, Machine("server", o))
               q == [r EXCEPT !.stage = "info", !.ask = Q.memo, !.way = rec.peer, !.org = o,
                              !.tok = tok]
    <2>1. Paired(P, r) = AsIs(Q, r, q) BY <1>6 DEF Paired, o
    <2>2. tok \in Tokens /\ tok # None BY <1>2, <1>5, PlacesTyped, TokensTyped
    <2>3. /\ PageTyped(Q) /\ Q.memo \in Asks /\ Q.memo # None /\ Q.asks[Q.memo].st # "none"
      BY AskedTyped
    <2> HIDE DEF tok, Q, rec
    <2>4. /\ DOMAIN q = ReqFields /\ q.id = r.id /\ q.h = r.h /\ q.kind = "probe" /\ q.stage = "info"
          /\ q.way = rec.peer /\ q.m = r.m /\ q.ask = Q.memo /\ q.tok = tok /\ q.url = r.url /\ q.org = o
      BY <1>5 DEF ReqFields
    <2> HIDE DEF q
    <2>5. ReqTyped(q) BY <1>2, <1>4, <2>2, <2>3, <2>4 DEF ReqTyped, Stages
    <2> QED BY <2>1, <2>3, <2>4, <2>5, WithTyped
  <1>7. CASE ~Proxied(rec)
    <2> DEFINE tok == KeptFor(r.tok, Machine("direct", rec.url))
               q == [r EXCEPT !.stage = "sent", !.ask = None, !.url = rec.url, !.org = o, !.tok = tok]
    <2>1. Paired(P, r) = AsIs(P, r, q) BY <1>7 DEF Paired, o
    <2>2. tok \in Tokens /\ tok # None BY <1>4, <1>5, PlacesTyped, TokensTyped
    <2> HIDE DEF tok, rec
    <2>3. /\ DOMAIN q = ReqFields /\ q.id = r.id /\ q.h = r.h /\ q.kind = "probe" /\ q.stage = "sent"
          /\ q.way = r.way /\ q.m = r.m /\ q.ask = None /\ q.tok = tok /\ q.url = rec.url /\ q.org = o
      BY <1>5 DEF ReqFields
    <2> HIDE DEF q
    <2>4. ReqTyped(q) BY <1>2, <1>4, <2>2, <2>3 DEF ReqTyped, Stages
    <2> QED BY <2>1, <2>3, <2>4, WithTyped
  <1> QED BY <1>6, <1>7

\* A step of the page alone.
LEMMA PageStepTyped ==
    ASSUME HostDoorAssumption, TypesInv, NEW Q, PageTyped(Q), pg' = Tidy(Q) \/ pg' = Q, hub' = hub
    PROVE  TypesInv'
  <1>1. PageTyped(Tidy(Q)) BY TidyTyped
  <1>2. PageTyped(pg') BY <1>1
  <1> QED BY <1>2 DEF TypesInv, HubTyped

LEMMA ContinueTyped ==
    ASSUME HostDoorAssumption, TypesInv, NEW r \in pg.reqs, Continue(r)
    PROVE  TypesInv'
  <1>1. PageTyped(pg) /\ HubTyped /\ ReqTyped(r) BY DEF TypesInv, PageTyped, ReqsTyped
  <1>2. /\ r.h \in Ids /\ r.way \in Peers \cup {None} /\ r.ask \in Asks
        /\ (r.stage = "again" => r.kind # "switch")
        /\ r.stage \in {"pair", "info", "again"} /\ r.kind \in Kinds
        /\ (r.kind = "switch" => r.stage = "pair")
        /\ (r.stage = "pair" => r.kind \in {"probe", "switch"})
    BY <1>1 DEF Continue, ReqTyped
  <1> DEFINE back == [r EXCEPT !.stage = "back", !.ask = None, !.ans = "401"]
  <1>3. r.stage = "again" => ReqTyped(back) /\ back.ask = None /\ back.id = r.id
    BY <1>1, <1>2, MovesTyped
  <1> HIDE DEF back
  <1>4. ASSUME NEW P, PageTyped(P)
        PROVE  PageTyped(Rejected(P, r)) /\ PageTyped(Resolved(P, r))
    <2>1. PageTyped(Without(P, r)) BY <1>4, WithTyped
    <2>2. CASE r.stage = "again"
      <3>1. PageTyped(AsIs(P, r, back)) BY <1>3, <1>4, <2>2, WithTyped
      <3>2. Rejected(P, r) = AsIs(P, r, back) /\ Resolved(P, r) = AsIs(P, r, back)
        BY <1>2, <2>2 DEF Rejected, Resolved, back
      <3> QED BY <3>1, <3>2
    <2>3. CASE r.stage # "again" /\ r.kind = "switch"
      <3>1. NoAsk.peers \in [Peers -> Listed] BY NoAskTyped DEF AskTyped
      <3>2. P.asks[r.ask].peers \in [Peers -> Listed]
        BY <1>2, <1>4 DEF PageTyped, AsksTyped, AskTyped
      <3>3. PageTyped(SetHostMode(Without(P, r), r.h, r.way, NoAsk))
        BY <1>2, <2>1, <3>1, SetHostModeTyped
      <3>4. PageTyped(SetHostMode(Without(P, r), r.h, r.way, P.asks[r.ask]))
        BY <1>2, <2>1, <3>2, SetHostModeTyped
      <3> QED BY <2>3, <3>3, <3>4 DEF Rejected, Resolved
    <2>4. CASE r.stage # "again" /\ r.kind # "switch"
      <3>1. Rejected(P, r) = Without(P, r) BY <2>4 DEF Rejected
      <3>2. CASE r.stage = "pair"
        <4>1. r.kind = "probe" BY <1>2, <2>4, <3>2
        <4>2. Resolved(P, r) = Paired(P, r) BY <2>4, <3>2, <4>1 DEF Resolved
        <4> QED BY <1>1, <1>4, <2>1, <3>1, <3>2, <4>1, <4>2, PairedTyped
      <3>3. CASE r.stage = "info"
        <4>1. Resolved(P, r) = Through(P, r) BY <2>4, <3>3 DEF Resolved
        <4> QED BY <1>1, <1>4, <2>1, <3>1, <3>3, <4>1, ThroughTyped
      <3> QED BY <1>2, <2>4, <3>2, <3>3
    <2> QED BY <2>2, <2>3, <2>4
  <1>5. PageTyped(Rejected(pg, r)) BY <1>1, <1>4
  <1>6. PageTyped(Resolved(Commit(pg, r.ask), r))
    <2>1. PageTyped(Commit(pg, r.ask)) BY <1>1, <1>2, CommitTyped
    <2> QED BY <1>4, <2>1
  <1>7. hub' = hub /\ (pg' = Tidy(Rejected(pg, r)) \/ pg' = Tidy(Resolved(Commit(pg, r.ask), r)))
    BY DEF Continue, Page
  <1> QED BY <1>5, <1>6, <1>7, PageStepTyped

LEMMA ServeTyped ==
    ASSUME HostDoorAssumption, TypesInv, NEW r \in pg.reqs, Serve(r) \/ Lose(r)
    PROVE  TypesInv'
  <1>1. PageTyped(pg) /\ HubTyped /\ ReqTyped(r) BY DEF TypesInv, PageTyped, ReqsTyped
  <1>2. CASE Serve(r)
    <2> DEFINE m == Reached(r)
               gate == IF r.way = None THEN "through" ELSE Gate(r)
               ans == IF gate # "through" THEN gate ELSE IF Fits(r.tok, m) THEN "ok" ELSE "401"
               fit == Fits(r.tok, m)
               q == [r EXCEPT !.stage = "back", !.ans = ans, !.m = m, !.fit = fit]
    <2>1. m \in Places
      <3>1. CASE r.way = None BY <1>1, <3>1, PlacesTyped DEF Reached, ReqTyped
      <3>2. CASE r.way # None
        <4>1. r.way \in Peers BY <1>1, <3>2 DEF ReqTyped
        <4>2. hub.peers[r.way] \in Urls BY <1>1, <4>1, PlacesTyped DEF HubTyped
        <4> QED BY <3>2, <4>2, PlacesTyped DEF Reached
      <3> QED BY <3>1, <3>2
    <2>2. r.stage = "sent" /\ hub' = hub /\ pg' = AsIs(pg, r, q) BY <1>2 DEF Serve
    <2> HIDE DEF m, gate, ans, fit
    <2>3. DOMAIN r = ReqFields /\ r.ask = None /\ r.kind # "switch" BY <1>1, <2>2 DEF ReqTyped
    <2>4. /\ DOMAIN q = ReqFields /\ q.id = r.id /\ q.h = r.h /\ q.kind = r.kind /\ q.tok = r.tok
          /\ q.url = r.url /\ q.org = r.org /\ q.way = r.way /\ q.m = m /\ q.stage = "back"
          /\ q.ask = r.ask
      BY <2>3 DEF ReqFields
    <2> HIDE DEF q
    <2>5. ReqTyped(q) BY <1>1, <2>1, <2>3, <2>4, BackTypes
    <2>6. PageTyped(AsIs(pg, r, q)) BY <1>1, <2>3, <2>4, <2>5, WithTyped
    <2> QED BY <2>2, <2>6, PageStepTyped
  <1>3. CASE Lose(r)
    <2> DEFINE q == [r EXCEPT !.stage = "back", !.ans = "fail"]
    <2>1. r.stage = "sent" /\ hub' = hub /\ pg' = AsIs(pg, r, q) BY <1>3 DEF Lose
    <2>2. DOMAIN r = ReqFields /\ r.ask = None /\ r.kind # "switch" BY <1>1, <2>1 DEF ReqTyped
    <2>3. /\ DOMAIN q = ReqFields /\ q.id = r.id /\ q.h = r.h /\ q.kind = r.kind /\ q.tok = r.tok
          /\ q.url = r.url /\ q.org = r.org /\ q.way = r.way /\ q.m = r.m /\ q.stage = "back"
          /\ q.ask = r.ask
      BY <2>2 DEF ReqFields
    <2> HIDE DEF q
    <2>4. ReqTyped(q) BY <1>1, <2>2, <2>3, BackTypes
    <2>5. PageTyped(AsIs(pg, r, q)) BY <1>1, <2>2, <2>3, <2>4, WithTyped
    <2> QED BY <2>1, <2>5, PageStepTyped
  <1> QED BY <1>2, <1>3

-----------------------------------------------------------------------------
(* An answer comes back, typed.                                             *)

LEMMA RefusedTyped ==
    ASSUME HostDoorAssumption, NEW P, PageTyped(P), NEW h \in Ids
    PROVE  PageTyped(Dropped(P, h))
  <1> DEFINE old == P.rec[h]
             x == [old EXCEPT !.tok = None, !.paired = None]
  <1>1. RecOK(old) BY DEF PageTyped, RecsTyped
  <1> HIDE DEF old
  <1>2. x \in Records /\ x.via = old.via /\ x.peer = old.peer /\ x.paired = None
    BY <1>1, PlacesTyped DEF RecOK, Records
  <1>3. Dropped(P, h) = Pruned(Invalidated(SetRec(P, h, x), {h})) BY DEF Dropped, old
  <1> HIDE DEF x
  <1>4. RecOK(x) BY <1>1, <1>2 DEF RecOK, Proxied
  <1>5. PageTyped(SetRec(P, h, x)) BY <1>4, SetRecTyped
  <1>6. PageTyped(Invalidated(SetRec(P, h, x), {h})) BY <1>5, MarksTyped
  <1>7. PageTyped(Pruned(Invalidated(SetRec(P, h, x), {h}))) BY <1>6, MarksTyped
  <1> QED BY <1>3, <1>7

LEMMA AskedMarkTyped ==
    ASSUME NEW P, PageTyped(P), NEW h
    PROVE  PageTyped([P EXCEPT !.asked = @ \ {h}])
  <1> DEFINE Q == [P EXCEPT !.asked = @ \ {h}]
  <1>1. /\ DOMAIN Q = PageFields /\ Q.rec = P.rec /\ Q.memo = P.memo /\ Q.asks = P.asks
        /\ Q.login = P.login /\ Q.asked = P.asked \ {h} /\ Q.reqs = P.reqs
    BY DEF PageTyped, PageFields
  <1> HIDE DEF Q
  <1>2. PageTyped(Q) BY <1>1, FormsTyped DEF PageTyped, FormTyped
  <1> QED BY <1>2 DEF Q

LEMMA BackTyped ==
    ASSUME HostDoorAssumption, NEW P, PageTyped(P), NEW r, ReqTyped(r), r.stage = "back",
           NEW ans, NEW go
    PROVE  PageTyped(Back(P, r, ans, go))
  <1> DEFINE rec == P.rec[r.h]
  <1>1. /\ r.h \in Ids /\ DOMAIN P = PageFields /\ RecOK(rec) /\ r.tok \in Tokens /\ r.org \in Urls
        /\ r.url \in Urls /\ r.m \in Places \cup {None}
    BY DEF PageTyped, RecsTyped, ReqTyped
  <1>2. CASE r.kind = "poll"
    <2>1. PageTyped([P EXCEPT !.asked = @ \ {r.h}]) BY AskedMarkTyped
    <2>2. PageTyped(Show(P, r.h, FALSE)) BY <1>1, MarksTyped
    <2>3. Back(P, r, ans, go) \in {P, [P EXCEPT !.asked = @ \ {r.h}], Show(P, r.h, FALSE)}
      BY <1>2 DEF Back, PollBack
    <2> QED BY <2>1, <2>2, <2>3
  <1>3. CASE r.kind = "mint"
    <2>1. PageTyped(Show(P, r.h, FALSE)) BY <1>1, MarksTyped
    <2>2. Back(P, r, ans, go) \in {P, Show(P, r.h, FALSE)} BY <1>3 DEF Back, MintBack
    <2> QED BY <2>1, <2>2
  <1>4. CASE r.kind = "ident"
    <2> DEFINE x == [rec EXCEPT !.bid = r.m]
    <2>1. Back(P, r, ans, go) \in {P, SetRec(P, r.h, x)} BY <1>4 DEF Back, IdentBack
    <2> HIDE DEF rec
    <2>2. x \in Records /\ x.via = rec.via /\ x.peer = rec.peer /\ x.paired = rec.paired
      BY <1>1 DEF RecOK, Records
    <2> HIDE DEF x
    <2>3. RecOK(x) BY <1>1, <2>2 DEF RecOK, Proxied
    <2> QED BY <1>1, <2>1, <2>3, SetRecTyped
  <1>5. CASE r.kind = "probe"
    <2> DEFINE paired == IF Proxied(rec) THEN r.org ELSE rec.paired
               x == [rec EXCEPT !.tok = r.tok, !.paired = paired]
               S == SetRec(P, r.h, x)
               Q == [S EXCEPT !.asked = @ \ {r.h}]
    <2>1. Back(P, r, ans, go) \in {P, Hide(Q)} BY <1>5 DEF Back, ProbeBack
    <2>2. /\ paired \in Urls /\ (~Proxied(rec) => paired = None)
      BY <1>1 DEF RecOK, Records
    <2> HIDE DEF rec, paired
    <2>3. x \in Records /\ x.via = rec.via /\ x.peer = rec.peer /\ x.paired = paired
      BY <1>1, <2>2 DEF RecOK, Records
    <2> HIDE DEF x
    <2>4. RecOK(x) BY <1>1, <2>2, <2>3 DEF RecOK, Proxied
    <2>5. PageTyped(S) BY <1>1, <2>4, SetRecTyped
    <2> HIDE DEF S
    <2>6. PageTyped(Q) BY <2>5, AskedMarkTyped
    <2> HIDE DEF Q
    <2>7. PageTyped(Hide(Q)) BY <2>6, MarksTyped
    <2> QED BY <2>1, <2>7
  <1>6. CASE r.kind = "add"
    <2> DEFINE bid == IF ans = "ok" THEN r.m ELSE None
               x == [NoRec EXCEPT !.on = TRUE, !.url = r.url, !.tok = r.tok, !.bid = bid]
    <2>1. Back(P, r, ans, go) \in {P, SetRec(P, r.h, x)} BY <1>6 DEF Back, AddBack
    <2>2. bid \in Places \cup {None} BY <1>1
    <2> HIDE DEF bid
    <2>3. x \in Records /\ x.via = "direct" /\ x.peer = None /\ x.paired = None
      BY <1>1, <2>2, PlacesTyped DEF NoRec, Records
    <2> HIDE DEF x
    <2>4. RecOK(x) BY <2>3 DEF RecOK, Proxied
    <2> QED BY <1>1, <2>1, <2>4, SetRecTyped
  <1>7. r.kind \in {"poll", "mint", "ident", "probe", "add"} BY DEF ReqTyped, Kinds
  <1> QED BY <1>2, <1>3, <1>4, <1>5, <1>6, <1>7

LEMMA LandTyped ==
    ASSUME HostDoorAssumption, TypesInv, NEW r \in pg.reqs, NEW go \in BOOLEAN, Land(r, go)
    PROVE  TypesInv'
  <1> DEFINE d == Door(pg, r)
             Q == IF r.ans = "409" THEN Refused(pg, r) ELSE Back(Without(d[1], r), r, d[2], go)
  <1>1. PageTyped(pg) /\ ReqTyped(r) BY DEF TypesInv, PageTyped, ReqsTyped
  <1>2. r.stage = "back" /\ pg' = Tidy(Q) /\ hub' = hub BY DEF Land, Page
  <1>3. PageTyped(d[1])
    <2>1. PageTyped(Show(pg, Local, FALSE)) BY <1>1, MarksTyped, PlacesTyped
    <2>2. d[1] = pg \/ d[1] = Show(pg, Local, FALSE) BY DEF Door
    <2> HIDE DEF d
    <2> QED BY <1>1, <2>1, <2>2
  <1> HIDE DEF d
  <1>4. CASE r.ans # "409"
    <2>1. PageTyped(Without(d[1], r)) BY <1>3, WithTyped
    <2>2. PageTyped(Back(Without(d[1], r), r, d[2], go)) BY <1>1, <1>2, <2>1, BackTyped
    <2>3. PageTyped(Q) BY <1>4, <2>2
    <2> HIDE DEF Q
    <2> QED BY <1>2, <2>3, PageStepTyped
  <1>5. CASE r.ans = "409"
    <2> DEFINE F == Forgotten(pg)
               D == Asked(Dropped(F, r.h))
               cur == r.cur /\ r.kind # "poll"
               q == [r EXCEPT !.stage = "again", !.ask = D.memo, !.cur = cur]
               W == Without(F, r)
    <2>1. Refused(pg, r) = AsIs(D, r, q) \/ Refused(pg, r) = Back(W, r, "409", FALSE)
      BY DEF Refused
    <2>2. PageTyped(F) BY <1>1, MarksTyped
    <2>3. r.h \in Ids /\ DOMAIN r = ReqFields BY <1>1 DEF ReqTyped
    <2>4. PageTyped(Dropped(F, r.h)) BY <2>2, <2>3, RefusedTyped
    <2>5. PageTyped(D) /\ D.memo \in Asks /\ D.memo # None /\ D.asks[D.memo].st # "none"
      BY <2>4, AskedTyped
    <2> HIDE DEF D, cur
    <2>6. /\ DOMAIN q = ReqFields /\ q.id = r.id /\ q.h = r.h /\ q.kind = r.kind /\ q.tok = r.tok
          /\ q.url = r.url /\ q.org = r.org /\ q.way = r.way /\ q.m = r.m /\ q.stage = "again"
          /\ q.ask = D.memo
      BY <2>3 DEF ReqFields
    <2> HIDE DEF q
    <2>7. r.kind # "switch" BY <1>1, <1>2 DEF ReqTyped
    <2>8. ReqTyped(q) BY <1>1, <2>5, <2>6, <2>7 DEF ReqTyped, Stages
    <2>9. PageTyped(AsIs(D, r, q)) BY <2>5, <2>6, <2>8, WithTyped
    <2>10. PageTyped(W) BY <2>2, WithTyped
    <2> HIDE DEF W
    <2>11. PageTyped(Back(W, r, "409", FALSE)) BY <1>1, <1>2, <2>10, BackTyped
    <2>12. PageTyped(Q) BY <1>5, <2>1, <2>9, <2>11
    <2> HIDE DEF Q
    <2> QED BY <1>2, <2>12, PageStepTyped
  <1> QED BY <1>4, <1>5

-----------------------------------------------------------------------------
(* Requests leave, and the user, typed.                                     *)

LEMMA StartsTyped ==
    ASSUME HostDoorAssumption, TypesInv,
           \/ \E h \in Ids : StartPoll(h)
           \/ \E h \in Hosts : StartMint(h) \/ StartIdent(h)
    PROVE  TypesInv'
  <1>1. PICK h \in Ids, kind \in {"poll", "mint", "ident"}, s \in FreeSlots(pg) :
           pg' = Tidy(Leaves(pg, New(s, kind, h), pg.rec[h])) /\ hub' = hub
    BY DEF StartPoll, StartMint, StartIdent, Page, Ids
  <1>2. PageTyped(Leaves(pg, New(s, kind, h), pg.rec[h])) BY LeavesTyped DEF TypesInv
  <1> QED BY <1>1, <1>2, PageStepTyped

LEMMA SubmitTyped ==
    ASSUME HostDoorAssumption, TypesInv, NEW h \in Ids, NEW m \in Machines, Submit(h, m)
    PROVE  TypesInv'
  <1> DEFINE r == pg.rec[h]
             n(s) == New(s, "probe", h)
             far(s) == [[n(s) EXCEPT !.tok = RightFor(m, m)] EXCEPT !.stage = "pair", !.ask = Asked(pg).memo]
             near(s) == [n(s) EXCEPT !.tok = RightFor(Machine("direct", r.url), m)]
  <1>1. PageTyped(pg) /\ HubTyped BY DEF TypesInv
  <1>2. PICK s \in FreeSlots(pg) :
           /\ hub' = hub
           /\ \/ pg' = Tidy(Hide(pg))
              \/ pg' = Tidy(With(Asked(pg), far(s)))
              \/ pg' = Tidy(With(pg, near(s)))
    BY DEF Submit, Page
  <1>3. s \in Slots /\ \A x \in pg.reqs : x.id # s BY DEF FreeSlots
  <1> DEFINE b == n(s)
  <1>4. /\ DOMAIN b = ReqFields /\ b.id = s /\ b.h = h /\ b.kind = "probe" /\ b.stage = "sent"
        /\ b.way = None /\ b.m = None /\ b.ask = None /\ b.url = r.url
        /\ b.url \in Urls /\ b.org \in Urls
    BY <1>1, <1>3, NewTyped
  <1>5. far(s) = [b EXCEPT !.tok = RightFor(m, m), !.stage = "pair", !.ask = Asked(pg).memo]
    <2> HIDE DEF b
    <2> QED BY <1>4 DEF ReqFields, b
  <1>6. near(s) = [b EXCEPT !.tok = RightFor(Machine("direct", r.url), m)] OBVIOUS
  <1> HIDE DEF b, far, near, n
  <1>7. PageTyped(With(Asked(pg), far(s)))
    <2> DEFINE tok == RightFor(m, m)
               Q == Asked(pg)
               q == [b EXCEPT !.tok = tok, !.stage = "pair", !.ask = Q.memo]
    <2>1. m \in Places BY PlacesTyped
    <2>2. tok \in Tokens /\ tok # None BY <1>1, <2>1, TokensTyped
    <2>3. /\ PageTyped(Q) /\ Q.memo \in Asks /\ Q.memo # None
          /\ Q.asks[Q.memo].st # "none" /\ Q.reqs = pg.reqs
      BY <1>1, AskedTyped
    <2>4. far(s) = q BY <1>5
    <2> HIDE DEF tok, Q
    <2>5. /\ DOMAIN q = ReqFields /\ q.id = s /\ q.h = h /\ q.kind = "probe" /\ q.stage = "pair"
          /\ q.way = None /\ q.m = None /\ q.ask = Q.memo /\ q.tok = tok /\ q.url = b.url /\ q.org = b.org
      BY <1>4 DEF ReqFields
    <2> HIDE DEF q
    <2>6. ReqTyped(q) BY <1>3, <1>4, <2>2, <2>3, <2>5 DEF ReqTyped, Kinds, Stages
    <2>7. PageTyped(With(Q, q)) BY <1>3, <2>3, <2>5, <2>6, WithTyped
    <2> QED BY <2>4, <2>7 DEF Q
  <1>8. PageTyped(With(pg, near(s)))
    <2> DEFINE tok == RightFor(Machine("direct", r.url), m)
               q == [b EXCEPT !.tok = tok]
    <2>1. Machine("direct", r.url) \in Places BY <1>4, PlacesTyped
    <2>2. tok \in Tokens /\ tok # None BY <1>1, <2>1, TokensTyped
    <2>3. near(s) = q BY <1>6
    <2> HIDE DEF tok
    <2>4. /\ DOMAIN q = ReqFields /\ q.id = s /\ q.h = h /\ q.kind = "probe" /\ q.stage = "sent"
          /\ q.way = None /\ q.m = None /\ q.ask = None /\ q.tok = tok /\ q.url = b.url /\ q.org = b.org
      BY <1>4 DEF ReqFields
    <2> HIDE DEF q
    <2>5. ReqTyped(q) BY <1>3, <1>4, <2>2, <2>4 DEF ReqTyped, Kinds, Stages
    <2>6. PageTyped(With(pg, q)) BY <1>1, <1>3, <2>4, <2>5, WithTyped
    <2> QED BY <2>3, <2>6
  <1>9. PageTyped(Hide(pg)) BY <1>1, MarksTyped
  <1> QED BY <1>2, <1>7, <1>8, <1>9, PageStepTyped

LEMMA SwitchTyped ==
    ASSUME HostDoorAssumption, TypesInv, NEW h \in Hosts, NEW p \in Peers \cup {None}, StartSwitch(h, p)
    PROVE  TypesInv'
  <1> DEFINE Q == Asked(pg)
             q(s) == [NoReq EXCEPT !.id = s, !.kind = "switch", !.h = h, !.way = p, !.stage = "pair",
                                   !.ask = Q.memo]
  <1>1. PageTyped(pg) BY DEF TypesInv
  <1>2. PICK s \in FreeSlots(pg) : pg' = Tidy(With(Q, q(s))) /\ hub' = hub
    BY DEF StartSwitch, Page
  <1>3. s \in Slots /\ \A x \in pg.reqs : x.id # s BY DEF FreeSlots
  <1>4. /\ PageTyped(Q) /\ Q.memo \in Asks /\ Q.memo # None
        /\ Q.asks[Q.memo].st # "none" /\ Q.reqs = pg.reqs
    BY <1>1, AskedTyped
  <1> HIDE DEF Q
  <1>5. /\ DOMAIN q(s) = ReqFields /\ q(s).id = s /\ q(s).h = h /\ q(s).kind = "switch"
        /\ q(s).stage = "pair" /\ q(s).way = p /\ q(s).m = None /\ q(s).ask = Q.memo
        /\ q(s).tok = None /\ q(s).url = None /\ q(s).org = None
    BY DEF NoReq, ReqFields
  <1> HIDE DEF q
  <1>6. h \in Ids /\ None \in Tokens /\ None \in Urls BY PlacesTyped
  <1>7. ReqTyped(q(s)) BY <1>3, <1>4, <1>5, <1>6 DEF ReqTyped, Kinds, Stages
  <1>8. PageTyped(With(Q, q(s))) BY <1>3, <1>4, <1>5, <1>7, WithTyped
  <1> QED BY <1>2, <1>8, PageStepTyped

LEMMA AddTyped ==
    ASSUME HostDoorAssumption, TypesInv, NEW h \in Hosts, NEW u \in Origins, StartAdd(h, u)
    PROVE  TypesInv'
  <1> DEFINE m == Machine("direct", u)
             tok == RightFor(m, m)
             q(s) == [NoReq EXCEPT !.id = s, !.kind = "add", !.h = h, !.url = u, !.tok = tok]
  <1>1. PageTyped(pg) /\ HubTyped BY DEF TypesInv
  <1>2. PICK s \in FreeSlots(pg) : pg' = Tidy(With(pg, q(s))) /\ hub' = hub
    BY DEF StartAdd, Page
  <1>3. s \in Slots /\ \A x \in pg.reqs : x.id # s BY DEF FreeSlots
  <1>4. m \in Machines /\ m \in Places BY PlacesTyped
  <1>5. tok \in Tokens BY <1>1, <1>4, TokensTyped
  <1> HIDE DEF m, tok
  <1>6. /\ DOMAIN q(s) = ReqFields /\ q(s).id = s /\ q(s).h = h /\ q(s).kind = "add"
        /\ q(s).stage = "sent" /\ q(s).way = None /\ q(s).m = None /\ q(s).ask = None
        /\ q(s).tok = tok /\ q(s).url = u /\ q(s).org = None
    BY DEF NoReq, ReqFields
  <1> HIDE DEF q
  <1>7. h \in Ids /\ None \in Urls /\ u \in Urls BY PlacesTyped DEF Urls
  <1>8. ReqTyped(q(s)) BY <1>3, <1>5, <1>6, <1>7 DEF ReqTyped, Kinds, Stages
  <1>9. PageTyped(With(pg, q(s))) BY <1>1, <1>3, <1>6, <1>8, WithTyped
  <1> QED BY <1>2, <1>9, PageStepTyped

LEMMA EditTyped ==
    ASSUME HostDoorAssumption, TypesInv, NEW h \in Hosts, NEW u \in Origins, NEW typed \in BOOLEAN,
           EditHost(h, u, typed)
    PROVE  TypesInv'
  <1> DEFINE r == pg.rec[h]
             at == IF Proxied(r) THEN Where(r) ELSE Machine("direct", u)
             tok == IF typed THEN RightFor(at, at) ELSE IF r.tok = None THEN None ELSE KeptFor(r.tok, at)
             bid == IF r.url = u THEN r.bid ELSE None
             x == [r EXCEPT !.url = u, !.tok = tok, !.bid = bid]
             Q == Invalidated(SetRec(pg, h, x), {h})
  <1>1. PageTyped(pg) /\ HubTyped /\ h \in Ids BY PlacesTyped DEF TypesInv
  <1>2. RecOK(r) BY <1>1 DEF PageTyped, RecsTyped
  <1>3. pg' = Tidy(Q) /\ hub' = hub /\ (typed => at \in Machines)
    BY DEF EditHost, Page, Edited
  <1>4. u \in Urls BY DEF Urls
  <1>5. /\ r.tok \in Tokens /\ r.paired \in Urls /\ bid \in Places \cup {None}
    BY <1>2 DEF RecOK, Records
  <1>6. at \in Places BY <1>4, <1>5, PlacesTyped DEF Where
  <1> HIDE DEF at
  <1>7. tok \in Tokens
    <2>1. CASE typed BY <1>1, <1>3, <1>6, <2>1, TokensTyped
    <2>2. CASE ~typed /\ r.tok = None BY <2>2, PlacesTyped
    <2>3. CASE ~typed /\ r.tok # None BY <1>1, <1>5, <1>6, <2>3, TokensTyped
    <2> QED BY <2>1, <2>2, <2>3
  <1> HIDE DEF tok, bid, r
  <1>8. x \in Records /\ x.via = r.via /\ x.peer = r.peer /\ x.paired = r.paired
    BY <1>2, <1>4, <1>5, <1>7 DEF RecOK, Records
  <1> HIDE DEF x
  <1>9. RecOK(x) BY <1>2, <1>8 DEF RecOK, Proxied
  <1>10. PageTyped(SetRec(pg, h, x)) BY <1>1, <1>9, SetRecTyped
  <1>11. PageTyped(Q) BY <1>10, MarksTyped
  <1> HIDE DEF Q
  <1> QED BY <1>3, <1>11, PageStepTyped

LEMMA RemoveTyped ==
    ASSUME HostDoorAssumption, TypesInv, NEW h \in Hosts, RemoveHost(h)
    PROVE  TypesInv'
  <1> DEFINE r == pg.rec[h]
             x == [r EXCEPT !.on = FALSE]
             Q == Invalidated(SetRec(pg, h, x), {h})
  <1>1. PageTyped(pg) /\ h \in Ids BY PlacesTyped DEF TypesInv
  <1>2. RecOK(r) BY <1>1 DEF PageTyped, RecsTyped
  <1>3. pg' = Tidy(Q) /\ hub' = hub BY DEF RemoveHost, Page
  <1> HIDE DEF r
  <1>4. x \in Records /\ x.via = r.via /\ x.peer = r.peer /\ x.paired = r.paired
    BY <1>2 DEF RecOK, Records
  <1> HIDE DEF x
  <1>5. RecOK(x) BY <1>2, <1>4 DEF RecOK, Proxied
  <1>6. PageTyped(SetRec(pg, h, x)) BY <1>1, <1>5, SetRecTyped
  <1>7. PageTyped(Q) BY <1>6, MarksTyped
  <1> HIDE DEF Q
  <1> QED BY <1>3, <1>7, PageStepTyped

\* The run the page knows, and the grants, are of no account here.
LEMMA AsideFields ==
    ASSUME NEW P, PageTyped(P), NEW b, NEW g
    PROVE  PageTyped([P EXCEPT !.boot = b]) /\ PageTyped([P EXCEPT !.grants = g])
  <1>1. ASSUME NEW Q, DOMAIN Q = PageFields, Q.rec = P.rec, Q.memo = P.memo, Q.asks = P.asks,
               Q.login = P.login, Q.asked = P.asked, Q.reqs = P.reqs
        PROVE  PageTyped(Q)
    <2>1. P.login \in Ids \cup {None} /\ P.asked \subseteq Ids BY DEF PageTyped, FormTyped
    <2> QED BY <1>1, <2>1, FormsTyped
  <1>2. DOMAIN P = PageFields BY DEF PageTyped
  <1> DEFINE Q1 == [P EXCEPT !.boot = b]
             Q2 == [P EXCEPT !.grants = g]
  <1>3. /\ DOMAIN Q1 = PageFields /\ Q1.rec = P.rec /\ Q1.memo = P.memo /\ Q1.asks = P.asks
        /\ Q1.login = P.login /\ Q1.asked = P.asked /\ Q1.reqs = P.reqs
    BY <1>2 DEF PageFields
  <1>4. /\ DOMAIN Q2 = PageFields /\ Q2.rec = P.rec /\ Q2.memo = P.memo /\ Q2.asks = P.asks
        /\ Q2.login = P.login /\ Q2.asked = P.asked /\ Q2.reqs = P.reqs
    BY <1>2 DEF PageFields
  <1> HIDE DEF Q1, Q2
  <1>5. PageTyped(Q1) /\ PageTyped(Q2) BY <1>1, <1>3, <1>4
  <1> QED BY <1>5 DEF Q1, Q2

\* This broker is restarted: what is out breaks, and what is published changes.
LEMMA HubMovesTyped ==
    ASSUME HostDoorAssumption, TypesInv, NEW p \in Peers, NEW o \in Origins \cup {None}, HubMoves(p, o)
    PROVE  TypesInv'
  <1> DEFINE broken(r) == r.stage = "sent" /\ (r.way # None \/ r.h = Local)
             q(r) == [r EXCEPT !.stage = "back", !.ans = "fail"]
             b(r) == IF broken(r) THEN q(r) ELSE r
             reqs == {b(r) : r \in pg.reqs}
             ask(i) == LET a == pg.asks[i]
                       IN  IF a.st = "out" /\ a.run = 0 THEN [a EXCEPT !.run = hub.run, !.tok = None] ELSE a
             asks == [i \in Asks |-> ask(i)]
  <1>1. PageTyped(pg) /\ HubTyped BY DEF TypesInv
  <1>2. pg' = [pg EXCEPT !.reqs = reqs, !.asks = asks] BY DEF HubMoves
  <1>3. ASSUME NEW r \in pg.reqs
        PROVE  ReqTyped(b(r)) /\ b(r).id = r.id /\ b(r).ask = r.ask
    <2>1. ReqTyped(r) BY <1>1 DEF PageTyped, ReqsTyped
    <2>2. CASE broken(r)
      <3>1. DOMAIN r = ReqFields /\ r.ask = None /\ r.kind # "switch" BY <2>1, <2>2 DEF ReqTyped
      <3> DEFINE x == q(r)
      <3>2. /\ DOMAIN x = ReqFields /\ x.id = r.id /\ x.h = r.h /\ x.kind = r.kind /\ x.tok = r.tok
            /\ x.url = r.url /\ x.org = r.org /\ x.way = r.way /\ x.m = r.m /\ x.stage = "back"
            /\ x.ask = r.ask
        BY <3>1 DEF ReqFields
      <3>3. b(r) = x BY <2>2
      <3> HIDE DEF x, b
      <3>4. ReqTyped(x) BY <2>1, <3>1, <3>2, BackTypes
      <3> QED BY <3>2, <3>3, <3>4
    <2>3. CASE ~broken(r) BY <2>1, <2>3
    <2> QED BY <2>2, <2>3
  <1>4. ASSUME NEW i \in Asks
        PROVE  AskTyped(ask(i)) /\ ask(i).st = pg.asks[i].st
    <2> DEFINE a == pg.asks[i]
               x == [a EXCEPT !.run = hub.run, !.tok = None]
    <2>1. AskTyped(a) BY <1>1 DEF PageTyped, AsksTyped
    <2>2. ask(i) \in {a, x} OBVIOUS
    <2> HIDE DEF a, ask
    <2>3. DOMAIN x = DOMAIN a /\ x.st = a.st /\ x.peers = a.peers BY <2>1 DEF AskTyped
    <2> HIDE DEF x
    <2>4. AskTyped(x) BY <2>1, <2>3 DEF AskTyped
    <2> QED BY <2>1, <2>2, <2>3, <2>4 DEF a
  <1>5. DOMAIN asks = Asks /\ \A i \in Asks : asks[i] = ask(i) OBVIOUS
  <1> HIDE DEF b, ask, asks
  <1>6. /\ DOMAIN pg' = PageFields /\ pg'.rec = pg.rec /\ pg'.memo = pg.memo /\ pg'.asks = asks
        /\ pg'.login = pg.login /\ pg'.asked = pg.asked /\ pg'.reqs = {b(r) : r \in pg.reqs}
    BY <1>1, <1>2 DEF PageTyped, PageFields
  <1>7. AsksTyped(pg') BY <1>1, <1>4, <1>5, <1>6 DEF PageTyped, AsksTyped
  <1>8. ReqsTyped(pg')
    <2>1. \A r \in pg.reqs : r.ask # None => r.ask \in Asks /\ pg.asks[r.ask].st # "none"
      BY <1>1 DEF PageTyped, ReqsTyped, ReqTyped
    <2>2. \A r \in pg.reqs : r.ask # None => asks[r.ask].st # "none" BY <1>4, <1>5, <2>1
    <2>3. \A r, y \in pg.reqs : r.id = y.id => r = y BY <1>1 DEF PageTyped, ReqsTyped
    <2> QED BY <1>3, <1>6, <2>2, <2>3 DEF ReqsTyped
  <1>9. PageTyped(pg') BY <1>1, <1>6, <1>7, <1>8 DEF PageTyped, RecsTyped, FormTyped
  <1>10. HubTyped'
    <2>1. hub' = [hub EXCEPT !.peers[p] = o, !.run = @ + 1] BY DEF HubMoves
    <2>2. /\ DOMAIN hub' = {"peers", "run", "pw"} /\ hub'.pw = hub.pw
          /\ hub'.peers = [hub.peers EXCEPT ![p] = o]
      BY <1>1, <2>1 DEF HubTyped
    <2> QED BY <1>1, <2>2 DEF HubTyped, Listed
  <1> QED BY <1>9, <1>10 DEF TypesInv

\* Reads of /info are served and answered.
LEMMA AsksServedTyped ==
    ASSUME HostDoorAssumption, TypesInv, NEW i \in Asks, AskServed(i) \/ AskLands(i)
    PROVE  TypesInv'
  <1> DEFINE a == pg.asks[i]
  <1>1. PageTyped(pg) /\ HubTyped /\ AskTyped(a) BY DEF TypesInv, PageTyped, AsksTyped
  <1>2. CASE AskServed(i)
    <2> DEFINE x == [a EXCEPT !.run = hub.run, !.peers = hub.peers]
    <2>1. pg' = SetAsk(pg, i, x) /\ hub' = hub /\ a.st = "out" BY <1>2 DEF AskServed
    <2> HIDE DEF a
    <2>2. DOMAIN x = DOMAIN a /\ x.peers = hub.peers /\ x.st = a.st BY <1>1 DEF AskTyped
    <2> HIDE DEF x
    <2>3. AskTyped(x) /\ x.st # "none" BY <1>1, <2>1, <2>2 DEF AskTyped, HubTyped
    <2>4. PageTyped(SetAsk(pg, i, x)) BY <1>1, <2>3, SetAskTyped
    <2> QED BY <2>1, <2>4, PageStepTyped
  <1>3. CASE AskLands(i)
    <2> DEFINE st == IF Fits(a.tok, HomeMachine) THEN "known" ELSE "bad"
               x == [a EXCEPT !.st = st]
               P == SetAsk(pg, i, x)
               Q == [P EXCEPT !.boot = a.run]
    <2>1. hub' = hub /\ (pg' = Tidy(P) \/ pg' = Tidy(Q) \/ pg' = Tidy(Forgotten(P)))
      BY <1>3 DEF AskLands, Page
    <2>2. st # "none" OBVIOUS
    <2> HIDE DEF a, st
    <2>3. DOMAIN x = DOMAIN a /\ x.peers = a.peers /\ x.st = st BY <1>1 DEF AskTyped
    <2> HIDE DEF x
    <2>4. AskTyped(x) /\ x.st # "none" BY <1>1, <2>2, <2>3 DEF AskTyped
    <2>5. PageTyped(P) BY <1>1, <2>4, SetAskTyped
    <2> HIDE DEF P
    <2>6. PageTyped(Q) /\ PageTyped(Forgotten(P)) BY <2>5, AsideFields, MarksTyped
    <2> HIDE DEF Q
    <2> QED BY <2>1, <2>5, <2>6, PageStepTyped
  <1> QED BY <1>2, <1>3

LEMMA AsideTyped ==
    ASSUME HostDoorAssumption, TypesInv,
           \/ \E h \in Ids : OpenLogin(h)
           \/ CancelLogin \/ CheckClip \/ NoteBoot
           \/ \E h \in Hosts : AllowClip(h)
           \/ \E m \in Machines : Rotate(m)
           \/ UNCHANGED vars
    PROVE  TypesInv'
  <1>1. PageTyped(pg) /\ HubTyped BY DEF TypesInv
  <1>2. ASSUME NEW h \in Ids, OpenLogin(h) PROVE TypesInv'
    <2>1. PageTyped(Show(pg, h, TRUE)) BY <1>1, MarksTyped
    <2> QED BY <1>2, <2>1, PageStepTyped DEF OpenLogin, Page
  <1>3. CASE CancelLogin
    <2>1. PageTyped(Hide(pg)) BY <1>1, MarksTyped
    <2> QED BY <1>3, <2>1, PageStepTyped DEF CancelLogin, Page
  <1>4. CASE CheckClip
    <2>1. PageTyped(Pruned(pg)) BY <1>1, MarksTyped
    <2> QED BY <1>4, <2>1, PageStepTyped DEF CheckClip, Page
  <1>5. CASE NoteBoot
    <2> DEFINE P == IF pg.boot = 0 THEN pg ELSE Forgotten(pg)
               Q == [P EXCEPT !.boot = hub.run]
    <2>1. PageTyped(P) BY <1>1, MarksTyped
    <2>2. pg' = Tidy(Q) /\ hub' = hub BY <1>5 DEF NoteBoot, Page
    <2> HIDE DEF P
    <2>3. PageTyped(Q) BY <2>1, AsideFields
    <2> HIDE DEF Q
    <2> QED BY <2>2, <2>3, PageStepTyped
  <1>6. ASSUME NEW h \in Hosts, AllowClip(h) PROVE TypesInv'
    <2> DEFINE P == Pruned(pg)
               g == P.grants \cup {Key(h, pg.rec[h])}
               Q == [P EXCEPT !.grants = g]
    <2>1. pg' = Tidy(Q) /\ hub' = hub BY <1>6 DEF AllowClip, Page
    <2>2. PageTyped(P) BY <1>1, MarksTyped
    <2> HIDE DEF P, g
    <2>3. PageTyped(Q) BY <2>2, AsideFields
    <2> HIDE DEF Q
    <2> QED BY <2>1, <2>3, PageStepTyped
  <1>7. ASSUME NEW m \in Machines, Rotate(m) PROVE TypesInv'
    <2>1. pg' = pg /\ hub' = [hub EXCEPT !.pw[m] = @ + 1] BY <1>7 DEF Rotate
    <2>2. /\ DOMAIN hub' = {"peers", "run", "pw"} /\ hub'.peers = hub.peers
          /\ hub'.pw = [hub.pw EXCEPT ![m] = @ + 1]
      BY <1>1, <2>1 DEF HubTyped
    <2>3. hub'.pw \in [Machines -> Nat] BY <1>1, <2>2 DEF HubTyped
    <2> QED BY <1>1, <2>1, <2>2, <2>3 DEF TypesInv, HubTyped
  <1>8. CASE UNCHANGED vars BY <1>1, <1>8 DEF vars, TypesInv, HubTyped
  <1> QED BY <1>2, <1>3, <1>4, <1>5, <1>6, <1>7, <1>8

-----------------------------------------------------------------------------
LEMMA InitTyped == ASSUME HostDoorAssumption, Init PROVE TypesInv
  <1>1. PICK s \in Starts :
          /\ hub = [peers |-> s.peers, run |-> 1, pw |-> [m \in Machines |-> 1]]
          /\ pg = [rec |-> s.rec, memo |-> None, asks |-> [i \in Asks |-> NoAsk], reqs |-> {},
                   login |-> None, asked |-> {}, grants |-> {}, boot |-> 0]
    BY DEF Init
  <1>2. /\ s.rec \in [Ids -> Records] /\ \A h \in Ids : Whole(s.rec[h])
        /\ s.peers \in [Peers -> Listed]
    BY DEF HostDoorAssumption, Listed
  <1>3. /\ DOMAIN pg = PageFields /\ pg.rec = s.rec /\ pg.memo = None /\ pg.reqs = {}
        /\ pg.asks = [i \in Asks |-> NoAsk] /\ pg.login = None /\ pg.asked = {}
    BY <1>1 DEF PageFields
  <1>4. RecsTyped(pg) BY <1>2, <1>3 DEF RecsTyped, RecOK, Whole
  <1>5. AsksTyped(pg) BY <1>3, NoAskTyped DEF AsksTyped
  <1>6. ReqsTyped(pg) /\ FormTyped(pg) BY <1>3 DEF ReqsTyped, FormTyped
  <1>7. HubTyped BY <1>1, <1>2 DEF HubTyped
  <1> QED BY <1>3, <1>4, <1>5, <1>6, <1>7 DEF TypesInv, PageTyped

LEMMA TypesStep == ASSUME HostDoorAssumption, TypesInv, [Next]_vars PROVE TypesInv'
  <1>1. ASSUME NEW h \in Ids, NEW m \in Machines, Submit(h, m) PROVE TypesInv'
    BY <1>1, SubmitTyped
  <1>2. ASSUME NEW h \in Hosts, NEW u \in Origins, NEW typed \in BOOLEAN, EditHost(h, u, typed)
        PROVE  TypesInv'
    BY <1>2, EditTyped
  <1>3. ASSUME NEW h \in Hosts, RemoveHost(h) PROVE TypesInv' BY <1>3, RemoveTyped
  <1>4. ASSUME NEW h \in Hosts, NEW p \in Peers \cup {None}, StartSwitch(h, p) PROVE TypesInv'
    BY <1>4, SwitchTyped
  <1>5. ASSUME NEW h \in Hosts, NEW u \in Origins, StartAdd(h, u) PROVE TypesInv' BY <1>5, AddTyped
  <1>6. ASSUME NEW r \in pg.reqs, Continue(r) PROVE TypesInv' BY <1>6, ContinueTyped
  <1>7. ASSUME NEW r \in pg.reqs, Serve(r) \/ Lose(r) PROVE TypesInv' BY <1>7, ServeTyped
  <1>8. ASSUME NEW r \in pg.reqs, NEW go \in BOOLEAN, Land(r, go) PROVE TypesInv'
    BY <1>8, LandTyped
  <1>9. CASE \/ \E h \in Ids : StartPoll(h)
             \/ \E h \in Hosts : StartMint(h) \/ StartIdent(h)
    BY <1>9, StartsTyped
  <1>10. CASE \/ \E h \in Ids : OpenLogin(h)
              \/ CancelLogin \/ CheckClip \/ NoteBoot
              \/ \E h \in Hosts : AllowClip(h)
              \/ \E m \in Machines : Rotate(m)
              \/ UNCHANGED vars
    BY <1>10, AsideTyped
  <1>11. ASSUME NEW i \in Asks, AskServed(i) \/ AskLands(i) PROVE TypesInv'
    BY <1>11, AsksServedTyped
  <1>12. ASSUME NEW p \in Peers, NEW o \in Origins \cup {None}, HubMoves(p, o) PROVE TypesInv'
    BY <1>12, HubMovesTyped
  <1>13. CASE User BY <1>1, <1>2, <1>3, <1>4, <1>5, <1>10, <1>13 DEF User
  <1> QED BY <1>6, <1>7, <1>8, <1>9, <1>10, <1>11, <1>12, <1>13 DEF Next

\* The door's variables keep their types.  A record leads somewhere, or names no peer;
\* no two requests share a place; whoever waits for what is published waits for a read
\* that is under way or answered, so that no request waits for nothing (63, localPeers).
THEOREM DoorTypeCorrect == ASSUME HostDoorAssumption PROVE Spec => []TypeOK
  <1>1. Init => TypesInv BY InitTyped
  <1>2. TypesInv /\ [Next]_vars => TypesInv' BY TypesStep
  <1> QED BY <1>1, <1>2, TypesAre, PTL DEF Spec
=============================================================================
