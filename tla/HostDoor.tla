------------------------------- MODULE HostDoor -------------------------------
(***************************************************************************)
(* The one door every request of the page goes through (63, hostFetch),    *)
(* the hosts it leads to and the passwords it carries.                     *)
(*                                                                         *)
(* A host is DIRECT (its url is dialed) or reached FROM SERVER: through    *)
(* this broker's /peer/<id>/, at the origin this broker publishes for that *)
(* peer (63, _peerFetch; 56).  The two networks may mean different         *)
(* machines by one name.  A password belongs to the machine it was entered *)
(* for; for a host from server it is paired with the published origin, and *)
(* the broker refuses a request whose pairing is not what it publishes now *)
(* (409).  The page reads what is published from /info, memoizes the       *)
(* answer, and re-pairs its hosts on every use of it.                      *)
(*                                                                         *)
(* Requests, reads of /info, the login form, the Hosts form and the mode   *)
(* switch overlap freely.  pg is the page; an operator on it is what one   *)
(* synchronous piece of code does.  A broker that cannot proxy is one that *)
(* publishes no peer.                                                      *)
(***************************************************************************)
EXTENDS Integers, FiniteSets

CONSTANTS Hosts,     \* ids of remote host records
          Local,     \* the record of this broker
          Peers,     \* ids of the peers this broker may publish
          Origins,   \* addresses of other brokers
          Home,      \* this broker's own address
          Shared,    \* the addresses both networks resolve alike (originKeepsToken)
          Slots,     \* requests that may be out at once
          None,
          Starts,    \* the records and the published peers a run starts from
          Budget     \* how often a run does each kind of thing

VARIABLES hub,    \* this broker: what it publishes, its run, and every machine's password
          pg,     \* the page
          hist,   \* grants consented to, passwords gone astray, and more (history)
          left

vars == <<hub, pg, hist, left>>

Ids == Hosts \cup {Local}
Asks == 1 .. (Cardinality(Slots) + 1)
Machine(way, o) == IF o \in Shared \cup {Home} THEN <<"any", o>> ELSE <<way, o>>
HomeMachine == <<"any", Home>>
Machines == {Machine(w, o) : w \in {"direct", "server"}, o \in Origins \cup {Home}}
Endless == 99   \* what a run may do as often as it likes
Spend(k) == left[k] > 0 /\ left' = IF left[k] = Endless THEN left ELSE [left EXCEPT ![k] = @ - 1]

-----------------------------------------------------------------------------
(* The records *)

NoRec == [on |-> FALSE, via |-> "direct", peer |-> None, url |-> None, tok |-> None, paired |-> None, bid |-> None]
Proxied(r) == r.via = "server"
WayIn(r) == IF Proxied(r) THEN r.peer ELSE None
\* The machine the page takes the host to be
Where(r) == IF Proxied(r) THEN Machine("server", r.paired) ELSE Machine("direct", r.url)
\* A password: the machine it is kept for, and its text (whose, and which)
Password(at, m, n) == [at |-> at, of |-> m, n |-> n]
Text(tok) == IF tok = None THEN <<>> ELSE <<tok.of, tok.n>>
KeptFor(tok, at) == [tok EXCEPT !.at = at]
RightFor(at, m) == Password(at, m, hub.pw[m])
Fits(tok, m) == tok # None /\ m \in Machines /\ tok.of = m /\ tok.n = hub.pw[m]

\* What a record may hold.  A run starts from records that are whole, each
\* password kept for the machine its record leads to.
Urls == Origins \cup {Home, None}
Places == {Machine(w, o) : w \in {"direct", "server"}, o \in Urls}
Tokens == {None} \cup [at : Places, of : Machines, n : Nat]
Records == [on : BOOLEAN, via : {"direct", "server"}, peer : Peers \cup {None}, url : Urls, tok : Tokens,
            paired : Urls, bid : Places \cup {None}]
Whole(r) == /\ Proxied(r) <=> r.peer # None
            /\ ~Proxied(r) => r.paired = None
            /\ r.tok # None => r.tok.at = Where(r)
HostDoorAssumption ==
    /\ Local \notin Hosts /\ Home \notin Origins /\ Shared \subseteq Origins
    /\ None \notin Hosts \cup {Local, Home} \cup Peers \cup Origins \cup Places \cup [at : Places, of : Machines, n : Nat]
    /\ Slots \subseteq Nat /\ IsFiniteSet(Slots) /\ None \notin Asks
    /\ \A s \in Starts : /\ s.rec \in [Ids -> Records] /\ \A h \in Ids : Whole(s.rec[h])
                         /\ s.peers \in [Peers -> Origins \cup {None}]

SetRec(P, h, r) == [P EXCEPT !.rec = [@ EXCEPT ![h] = r]]

\* The OSC 52 grant's key carries the pairing (63, _osc52KeyOf)
Key(h, r) == <<h, r.url, WayIn(r), IF Proxied(r) THEN r.paired ELSE None>>
Pruned(P) == [P EXCEPT !.grants = {k \in @ : \E h \in Ids : P.rec[h].on /\ k = Key(h, P.rec[h])}]

\* Every cache of the host goes: its "already asked" mark, and the record of the
\* poll that may be out (50, invalidateHost)
Invalidated(P, hs) ==
    [P EXCEPT !.asked = @ \ hs,
              !.reqs = {IF r.kind = "poll" /\ r.h \in hs THEN [r EXCEPT !.cur = FALSE] ELSE r : r \in @}]

-----------------------------------------------------------------------------
(* What this broker publishes, as the page knows it (56, localPeers) *)

SetAsk(P, i, a) == [P EXCEPT !.asks = [@ EXCEPT ![i] = a]]
NoAsk == [st |-> "none", tok |-> None, run |-> 0, peers |-> [p \in Peers |-> None]]
Waits(P, i) == P.memo = i \/ \E r \in P.reqs : r.stage \in {"pair", "info", "again"} /\ r.ask = i
Tidy(P) == [P EXCEPT !.asks = [i \in Asks |-> IF Waits(P, i) THEN P.asks[i] ELSE NoAsk]]
Asked(P) == IF P.memo # None THEN P
            ELSE LET i == CHOOSE i \in Asks : ~Waits(P, i)
                 IN [SetAsk(P, i, [NoAsk EXCEPT !.st = "out", !.tok = P.rec[Local].tok]) EXCEPT !.memo = i]
Forgotten(P) == [P EXCEPT !.memo = None]
Published(info, p) == IF p \in Peers THEN info.peers[p] ELSE None

\* Hosts paired with another machine than the one published now.
Moved(P, info) == {h \in Hosts : /\ P.rec[h].on /\ Proxied(P.rec[h])
                                 /\ Published(info, P.rec[h].peer) \notin {None, P.rec[h].paired}}
\* Mutant: the host follows the peer with the password it has
RePairedKept(P, info) ==
    [P EXCEPT !.rec = [h \in Ids |-> LET o == Published(info, P.rec[h].peer)
                                     IN IF h \in Moved(P, info) THEN [P.rec[h] EXCEPT !.paired = o, !.url = o] ELSE P.rec[h]]]
\* rePairPeers: a host whose peer is published elsewhere loses its password
RePaired(P, info) ==
    LET new(r) == [r EXCEPT !.tok = None, !.paired = Published(info, r.peer), !.url = Published(info, r.peer)]
        Q == [P EXCEPT !.rec = [h \in Ids |-> IF h \in Moved(P, info) THEN new(P.rec[h]) ELSE P.rec[h]]]
    IN IF Moved(P, info) = {} THEN P ELSE Pruned(Invalidated(Q, Moved(P, info)))
\* Only the read that is still the memo changes anything
Commit(P, i) == IF P.memo = i /\ P.asks[i].st = "known" THEN RePaired(P, P.asks[i]) ELSE P

-----------------------------------------------------------------------------
(* The login form (63, showAuthOverlay) and one request *)

\* A form that comes up makes the probes still out stale.
Stale(P) == [P EXCEPT !.reqs = {IF r.kind = "probe" THEN [r EXCEPT !.cur = FALSE] ELSE r : r \in @}]
Show(P, h, force) ==
    IF (P.login # None /\ (P.login = h \/ ~force)) \/ (P.login = None /\ ~force /\ h \in P.asked) THEN P
    ELSE [Stale(P) EXCEPT !.login = h, !.asked = @ \cup {h}]
Hide(P) == [Stale(P) EXCEPT !.login = None]

NoReq == [id |-> 0, kind |-> "poll", h |-> None, from |-> None, url |-> None, stage |-> "sent", ask |-> None,
          way |-> None, org |-> None, tok |-> None, btok |-> None, ans |-> "none", m |-> None, fit |-> FALSE, cur |-> TRUE]
Busy(P, kind) == \E r \in P.reqs : r.kind = kind
FreeSlots(P) == {s \in Slots : \A r \in P.reqs : r.id # s}
Without(P, r) == [P EXCEPT !.reqs = {q \in @ : q.id # r.id}]
With(P, r) == [P EXCEPT !.reqs = @ \cup {r}]
AsIs(P, r, q) == With(Without(P, r), q)
\* A request leaves by the door: at once for a direct host, after a read of
\* what is published for a proxied one
Leaves(P, r, rec) ==
    IF Proxied(rec) THEN LET Q == Asked(P) IN With(Q, [r EXCEPT !.stage = "info", !.ask = Q.memo])
    ELSE With(P, [r EXCEPT !.stage = "sent", !.url = rec.url])
\* Reads of /info that have answered go on before anything else runs
Settled(P) == \A r \in P.reqs : r.stage \in {"pair", "info", "again"} => P.asks[r.ask].st = "out"
Calm == Settled(pg)
\* The page is brought to Q; every other step waits for what is already resolved
Page(Q) == pg' = Tidy(Q)

-----------------------------------------------------------------------------
(* What the history remembers: the hosts whose pairing was not what is published
   at some time since their password was stored; the hosts whose password went
   to another machine than it is kept for, and those that were given one by a
   login their address had changed under *)

OffNow(hs, h) == LET r == pg'.rec[h] IN IF Proxied(r) /\ hub.peers[r.peer] # r.paired THEN hs \cup {h} ELSE hs \ {h}

-----------------------------------------------------------------------------
(* Requests leave *)

\* A request as it leaves: the address, password and pairing the record has
\* then.
New(s, kind, h) == [NoReq EXCEPT !.id = s, !.kind = kind, !.h = h, !.from = WayIn(pg.rec[h]), !.url = pg.rec[h].url,
                                 !.tok = pg.rec[h].tok, !.org = pg.rec[h].paired]
\* pollHost: the taskbar's poll; its record is dropped with the caches, so one
\* may still be out for a host that was edited
StartPoll(h) ==
    /\ Calm /\ Spend("polls") /\ pg.rec[h].on
    /\ \A r \in pg.reqs : ~(r.kind = "poll" /\ r.h = h /\ r.cur)
    /\ \E s \in FreeSlots(pg) : Page(Leaves(pg, New(s, "poll", h), pg.rec[h]))
    /\ UNCHANGED <<hub, hist>>
\* _peerMint: a ticket for one socket of a proxied host
StartMint(h) ==
    /\ Calm /\ Spend("mints") /\ pg.rec[h].on /\ Proxied(pg.rec[h])
    /\ \E s \in FreeSlots(pg) : Page(Leaves(pg, New(s, "mint", h), pg.rec[h]))
    /\ UNCHANGED <<hub, hist>>
\* refreshHostIdentities: one host at a time, those without an identity; it
\* asks with the record as it is now
StartIdent(h) ==
    /\ Calm /\ Spend("idents") /\ ~Busy(pg, "ident") /\ pg.rec[h].on /\ pg.rec[h].bid = None
    /\ \E s \in FreeSlots(pg) : Page(Leaves(pg, New(s, "ident", h), pg.rec[h]))
    /\ UNCHANGED <<hub, hist>>
\* The login form is submitted, with the right password of the machine that is
\* there now or of the one the form shows.  A direct host is asked at once; a
\* proxied one after a first read of what is published.
Meant(r) == Machines \cap (IF Proxied(r) THEN {Where(r), Machine("server", hub.peers[r.peer])} ELSE {Where(r)})
Submit(h, m) ==
    LET r == pg.rec[h]
        q(s, tok) == [New(s, "probe", h) EXCEPT !.tok = tok]
    IN /\ Calm /\ pg.login = h /\ ~Busy(pg, "probe") /\ m \in Meant(r) /\ Spend("submits")
       /\ \E s \in FreeSlots(pg) :
             IF ~r.on THEN Page(Hide(pg))
             ELSE IF Proxied(r) THEN Page(LET Q == Asked(pg) IN With(Q, [q(s, RightFor(m, m)) EXCEPT !.stage = "pair", !.ask = Q.memo]))
             ELSE Page(With(pg, q(s, RightFor(Machine("direct", r.url), m))))
       /\ UNCHANGED <<hub, hist>>
\* switchHostMode: the new way is p, or direct (None)
StartSwitch(h, p) ==
    /\ Calm /\ Spend("switches") /\ pg.rec[h].on /\ (p = None => Proxied(pg.rec[h]))
    /\ \E s \in FreeSlots(pg) :
          Page(LET Q == Asked(pg) IN With(Q, [NoReq EXCEPT !.id = s, !.kind = "switch", !.h = h, !.way = p, !.stage = "pair", !.ask = Q.memo]))
    /\ UNCHANGED <<hub, hist>>
\* The Hosts form's Add: refused for an address already listed, else the new
\* address is asked who it is (83, commitHostForm)
DirectAt(P, u) == \E h \in Hosts : P.rec[h].on /\ ~Proxied(P.rec[h]) /\ P.rec[h].url = u
StartAdd(h, u) ==
    LET m == Machine("direct", u)
    IN /\ Calm /\ Spend("adds") /\ pg.rec[h] = NoRec /\ \A r \in pg.reqs : r.h # h
       /\ ~Busy(pg, "add") /\ ~DirectAt(pg, u)
       /\ \E s \in FreeSlots(pg) : Page(With(pg, [NoReq EXCEPT !.id = s, !.kind = "add", !.h = h, !.url = u, !.tok = RightFor(m, m)]))
       /\ UNCHANGED <<hub, hist>>

-----------------------------------------------------------------------------
(* The mode switch (56, setHostMode) *)

\* Would the record duplicate another one?
Twin(P, h, p) == \E o \in Hosts \ {h} : /\ P.rec[o].on
                                        /\ IF p # None THEN Proxied(P.rec[o]) /\ P.rec[o].peer = p
                                           ELSE ~Proxied(P.rec[o]) /\ P.rec[o].url = P.rec[h].url
\* The password survives only for an address both networks mean alike; the
\* identity learned for the old way in is dropped
SetHostMode(P, h, p, info) ==
    LET r == P.rec[h]
        o == Published(info, p)
        able == r.on /\ ~Twin(P, h, p) /\ (IF p # None THEN o # None /\ r.peer # p ELSE Proxied(r))
        keep == IF p # None THEN ~Proxied(r) /\ r.url = o /\ o \in Shared ELSE r.paired = r.url /\ r.url \in Shared
        tok == IF keep THEN r.tok ELSE None
        new == IF p # None THEN [r EXCEPT !.via = "server", !.peer = p, !.paired = o, !.url = o, !.tok = tok, !.bid = None]
               ELSE [r EXCEPT !.via = "direct", !.peer = None, !.paired = None, !.tok = tok, !.bid = None]
    IN IF able THEN Pruned(Invalidated(SetRec(P, h, new), {h})) ELSE P

-----------------------------------------------------------------------------
(* An answered read of /info: whoever waits for it goes on, one at a time *)

\* The door goes on with a proxied request: a peer that is not published is
\* refused here, undialed, and the memo is dropped
Through(P, r) ==
    LET rec == P.rec[r.h]
        copy == r.kind \in {"probe", "ident"}
        p == IF r.kind = "probe" THEN r.way ELSE IF r.kind = "ident" THEN r.from ELSE WayIn(rec)
    IN IF Published(P.asks[r.ask], p) = None
       THEN AsIs(Forgotten(P), r, [r EXCEPT !.stage = "back", !.ask = None, !.ans = "503"])
       ELSE AsIs(P, r, [r EXCEPT !.stage = "sent", !.ask = None, !.way = p, !.btok = P.rec[Local].tok,
                                 !.tok = IF copy THEN r.tok ELSE rec.tok, !.org = IF copy THEN r.org ELSE rec.paired])
\* The login's candidate is paired with what is published now, and sent
Paired(P, r) ==
    LET rec == P.rec[r.h]
        o == Published(P.asks[r.ask], WayIn(rec))
    IN IF Proxied(rec)
       THEN LET Q == Asked(P)
            IN AsIs(Q, r, [r EXCEPT !.stage = "info", !.ask = Q.memo, !.way = rec.peer, !.org = o, !.tok = KeptFor(@, Machine("server", o))])
       ELSE AsIs(P, r, [r EXCEPT !.stage = "sent", !.ask = None, !.url = rec.url, !.org = o, !.tok = KeptFor(@, Machine("direct", rec.url))])
\* A read that failed: a request is lost, a switch to direct still goes on,
\* and the 409's re-read is only for the re-pairing
Rejected(P, r) ==
    CASE r.stage = "again" -> AsIs(P, r, [r EXCEPT !.stage = "back", !.ask = None, !.ans = "401"])
      [] r.kind = "switch" -> SetHostMode(Without(P, r), r.h, r.way, NoAsk)
      [] OTHER -> Without(P, r)
Resolved(P, r) ==
    CASE r.stage = "again" -> AsIs(P, r, [r EXCEPT !.stage = "back", !.ask = None, !.ans = "401"])
      [] r.kind = "switch" -> SetHostMode(Without(P, r), r.h, r.way, P.asks[r.ask])
      [] r.stage = "pair" /\ r.kind = "probe" -> Paired(P, r)
      [] OTHER -> Through(P, r)
Continue(r) ==
    /\ r.stage \in {"pair", "info", "again"} /\ pg.asks[r.ask].st # "out"
    /\ Page(IF pg.asks[r.ask].st = "bad" THEN Rejected(pg, r) ELSE Resolved(Commit(pg, r.ask), r))
    /\ UNCHANGED <<hub, hist, left>>
\* /info answers the page that has this broker's password; the memo's answer
\* seeds the run the page knows
AskLands(i) ==
    LET a == pg.asks[i]
        ok == Fits(a.tok, HomeMachine)
        P == SetAsk(pg, i, [a EXCEPT !.st = IF ok THEN "known" ELSE "bad"])
    IN /\ Calm /\ a.st = "out" /\ a.run # 0
       /\ Page(IF pg.memo # i THEN P ELSE IF ok THEN [P EXCEPT !.boot = a.run] ELSE Forgotten(P))
       /\ UNCHANGED <<hub, hist, left>>
AskServed(i) ==
    /\ pg.asks[i].st = "out" /\ pg.asks[i].run = 0
    /\ pg' = SetAsk(pg, i, [pg.asks[i] EXCEPT !.run = hub.run, !.peers = hub.peers])
    /\ UNCHANGED <<hub, hist, left>>

-----------------------------------------------------------------------------
(* The machine at the end, and this broker's gate before a peer's: its own
   password, then the peer, then a password for it, then the pairing *)

Gate(r) == IF ~Fits(r.btok, HomeMachine) THEN "hub401" ELSE IF hub.peers[r.way] = None THEN "404"
           ELSE IF r.tok = None THEN "hub401" ELSE IF r.org # hub.peers[r.way] THEN "409" ELSE "through"
Reached(r) == IF r.way = None THEN Machine("direct", r.url) ELSE Machine("server", hub.peers[r.way])
Serve(r) ==
    LET gate == IF r.way = None THEN "through" ELSE Gate(r)
        m == Reached(r)
        ans == IF gate # "through" THEN gate ELSE IF Fits(r.tok, m) THEN "ok" ELSE "401"
    IN /\ r.stage = "sent"
       /\ pg' = AsIs(pg, r, [r EXCEPT !.stage = "back", !.ans = ans, !.m = m, !.fit = Fits(r.tok, m)])
       /\ hist' = [hist EXCEPT !.stray = IF gate = "through" /\ r.tok # None /\ r.tok.at # m THEN @ \cup {r.h} ELSE @]
       /\ UNCHANGED <<hub, left>>
\* A request times out, or its connection breaks
Lose(r) ==
    /\ r.stage = "sent" /\ Spend("losses")
    /\ pg' = AsIs(pg, r, [r EXCEPT !.stage = "back", !.ans = "fail"]) /\ UNCHANGED <<hub, hist>>

-----------------------------------------------------------------------------
(* An answer comes back *)

\* The host is what it was when the request left: the switch and the removal
\* are noticed, an edit and a re-pairing are not
SameWay(P, r) == P.rec[r.h].on /\ WayIn(P.rec[r.h]) = r.from
PollBack(P, r, ans) ==
    CASE ans = "401" -> Show(P, r.h, FALSE)
      [] ans = "ok" -> [P EXCEPT !.asked = @ \ {r.h}]
      [] OTHER -> P
MintBack(P, r, ans) == IF ans = "401" /\ SameWay(P, r) THEN Show(P, r.h, FALSE) ELSE P
\* The identity is kept only if the address is the one it was asked at
IdentBack(P, r, ans) == IF ans = "ok" /\ P.rec[r.h].url = r.url THEN SetRec(P, r.h, [P.rec[r.h] EXCEPT !.bid = r.m]) ELSE P
\* The login: a dismissed form, a host switched meanwhile and a refusal store
\* nothing; an address that has changed meanwhile is not noticed
Stores(P, r, ans) == r.kind = "probe" /\ r.cur /\ SameWay(P, r) /\ ans = "ok"
ProbeBack(P, r, ans) ==
    LET rec == [P.rec[r.h] EXCEPT !.tok = r.tok, !.paired = IF Proxied(P.rec[r.h]) THEN r.org ELSE @]
    IN IF ~Stores(P, r, ans) THEN P
       ELSE Hide([SetRec(P, r.h, rec) EXCEPT !.asked = @ \ {r.h}])
\* The new record is added, answered or not, unless its address is listed by
\* now; for a broker already known by another name the user is asked (go)
AddBack(P, r, ans, go) ==
    LET bid == IF ans = "ok" THEN r.m ELSE None
        known == bid # None /\ \E h \in Ids : P.rec[h].on /\ P.rec[h].bid = bid
    IN IF (known /\ ~go) \/ DirectAt(P, r.url) THEN P
       ELSE SetRec(P, r.h, [NoRec EXCEPT !.on = TRUE, !.url = r.url, !.tok = r.tok, !.bid = bid])
Back(P, r, ans, go) ==
    CASE r.kind = "poll" -> PollBack(P, r, ans)
      [] r.kind = "mint" -> MintBack(P, r, ans)
      [] r.kind = "ident" -> IdentBack(P, r, ans)
      [] r.kind = "probe" -> ProbeBack(P, r, ans)
      [] r.kind = "add" -> AddBack(P, r, ans, go)

\* The pairing was refused: the password goes, unless the record has moved on
\* since this request left; what is published is read again, and the caller
\* hears 401
Dropped(P, h) == Pruned(Invalidated(SetRec(P, h, [P.rec[h] EXCEPT !.tok = None, !.paired = None]), {h}))
\* Mutant: whatever the record holds goes
RefusedAny(P, r) ==
    LET Q == Asked(Dropped(Forgotten(P), r.h))
    IN AsIs(Q, r, [r EXCEPT !.stage = "again", !.ask = Q.memo, !.cur = @ /\ r.kind # "poll"])
Refused(P, r) ==
    LET rec == P.rec[r.h]
        Q == Asked(Dropped(Forgotten(P), r.h))
    IN IF rec.on /\ Proxied(rec) /\ Text(rec.tok) = Text(r.tok) /\ rec.paired = r.org
       THEN AsIs(Q, r, [r EXCEPT !.stage = "again", !.ask = Q.memo, !.cur = @ /\ r.kind # "poll"])
       ELSE Back(Without(Forgotten(P), r), r, "409", FALSE)
\* Mutant: a 401 is the peer's
DoorHeard(P, r) == IF r.ans = "hub401" THEN <<P, "401">> ELSE <<P, r.ans>>
\* Whose 401: this broker's own refusal of a request that sent a peer's
\* password is about this broker's password
Door(P, r) ==
    IF r.ans = "hub401" THEN (IF r.tok # None THEN <<Show(P, Local, FALSE), "503">> ELSE <<P, "401">>)
    ELSE <<P, r.ans>>
Land(r, go) ==
    /\ Calm /\ r.stage = "back"
    /\ LET d == Door(pg, r)
       IN Page(IF r.ans = "409" THEN Refused(pg, r) ELSE Back(Without(d[1], r), r, d[2], go))
    /\ hist' = [hist EXCEPT !.off = IF r.kind = "probe" /\ pg'.login = None /\ pg.login = r.h THEN OffNow(@, r.h) ELSE @,
                            !.late = IF Stores(pg, r, r.ans) /\ ~Proxied(pg.rec[r.h]) /\ pg.rec[r.h].url # r.url
                                     THEN @ \cup {r.h} ELSE @,
                            !.nagged = @ \/ (pg'.login # pg.login /\ pg'.login = r.h /\ r.fit)]
    /\ UNCHANGED <<hub, left>>

-----------------------------------------------------------------------------
(* The user *)

\* The chip of a host opens its login form
OpenLogin(h) ==
    /\ Calm /\ Spend("opens") /\ pg.rec[h].on /\ pg.login # h
    /\ Page(Show(pg, h, TRUE)) /\ UNCHANGED <<hub, hist>>
CancelLogin == Calm /\ pg.login # None /\ Page(Hide(pg)) /\ UNCHANGED <<hub, hist, left>>
\* The Hosts form's Save: a direct host may move, a proxied one keeps its
\* address; an empty password keeps the one there is
Edited(r, u, tok) == [r EXCEPT !.url = u, !.tok = tok, !.bid = IF r.url = u THEN @ ELSE None]
EditHost(h, u, typed) ==
    LET r == pg.rec[h]
        at == IF Proxied(r) THEN Where(r) ELSE Machine("direct", u)
        tok == IF typed THEN RightFor(at, at) ELSE IF r.tok = None THEN None ELSE KeptFor(r.tok, at)
        Q == Invalidated(SetRec(pg, h, Edited(r, u, tok)), {h})
    IN /\ Calm /\ r.on /\ ~Busy(pg, "add") /\ Spend("edits") /\ (typed => at \in Machines)
       /\ IF Proxied(r) THEN u = r.url ELSE ~\E o \in Hosts \ {h} : pg.rec[o].on /\ ~Proxied(pg.rec[o]) /\ pg.rec[o].url = u
       /\ Page(Q)
       /\ hist' = [hist EXCEPT !.off = IF typed THEN OffNow(@, h) ELSE @]
       /\ UNCHANGED hub
RemoveHost(h) ==
    /\ Calm /\ pg.rec[h].on /\ Spend("removes")
    /\ Page(Invalidated(SetRec(pg, h, [pg.rec[h] EXCEPT !.on = FALSE]), {h}))
    /\ UNCHANGED <<hub, hist>>
\* The user allows the host's programs to set the clipboard; every read and
\* write of the grants drops those that name no current host (63)
AllowClip(h) ==
    /\ Calm /\ pg.rec[h].on /\ Spend("grants")
    /\ Page([Pruned(pg) EXCEPT !.grants = @ \cup {Key(h, pg.rec[h])}])
    /\ UNCHANGED <<hub, hist>>
CheckClip == Calm /\ Pruned(pg) # pg /\ Page(Pruned(pg)) /\ UNCHANGED <<hub, hist, left>>

-----------------------------------------------------------------------------
(* The other side *)

\* This broker is restarted with another peers config: what is out breaks
HubMoves(p, o) ==
    /\ Spend("moves") /\ hub.peers[p] # o
    /\ hub' = [hub EXCEPT !.peers[p] = o, !.run = @ + 1]
    /\ pg' = [pg EXCEPT !.reqs = {IF r.stage = "sent" /\ (r.way # None \/ r.h = Local) THEN [r EXCEPT !.stage = "back", !.ans = "fail"] ELSE r : r \in @},
                        !.asks = [i \in Asks |-> LET a == pg.asks[i]
                                                 IN IF a.st = "out" /\ a.run = 0 THEN [a EXCEPT !.run = hub.run, !.tok = None] ELSE a]]
    /\ hist' = [hist EXCEPT !.off = @ \cup {h \in Hosts : Proxied(pg.rec[h]) /\ pg.rec[h].peer = p}]
Rotate(m) ==
    /\ Spend("rotations") /\ hub' = [hub EXCEPT !.pw[m] = @ + 1] /\ UNCHANGED <<pg, hist>>
\* noteLocalBootId: the control channel's first status names another run
NoteBoot ==
    /\ Calm /\ pg.boot # hub.run
    /\ Page([(IF pg.boot = 0 THEN pg ELSE Forgotten(pg)) EXCEPT !.boot = hub.run]) /\ UNCHANGED <<hub, hist, left>>

Init ==
    /\ left = Budget
    /\ \E s \in Starts :
          /\ hub = [peers |-> s.peers, run |-> 1, pw |-> [m \in Machines |-> 1]]
          /\ pg = [rec |-> s.rec, memo |-> None, asks |-> [i \in Asks |-> NoAsk], reqs |-> {}, login |-> None,
                   asked |-> {}, grants |-> {}, boot |-> 0]
    /\ hist = [stray |-> {}, late |-> {}, off |-> {}, nagged |-> FALSE]
User == \/ \E h \in Ids : OpenLogin(h)
        \/ CancelLogin
        \/ \E h \in Ids, m \in Machines : Submit(h, m)
        \/ \E h \in Hosts : \/ \E u \in Origins, typed \in BOOLEAN : EditHost(h, u, typed)
                            \/ RemoveHost(h)
                            \/ AllowClip(h)
                            \/ \E p \in Peers \cup {None} : StartSwitch(h, p)
                            \/ \E u \in Origins : StartAdd(h, u)
Next == \/ User
        \/ \E h \in Ids : StartPoll(h)
        \/ \E h \in Hosts : StartMint(h) \/ StartIdent(h)
        \/ \E i \in Asks : AskServed(i) \/ AskLands(i)
        \/ \E r \in pg.reqs : Continue(r) \/ Serve(r) \/ Lose(r) \/ \E go \in BOOLEAN : Land(r, go)
        \/ CheckClip \/ NoteBoot
        \/ \E p \in Peers, o \in Origins \cup {None} : HubMoves(p, o)
        \/ \E m \in Machines : Rotate(m)
Spec == Init /\ [][Next]_vars

-----------------------------------------------------------------------------
(* Properties *)

RecOK(r) == /\ r \in Records
            /\ (Proxied(r) <=> r.peer # None) /\ (~Proxied(r) => r.paired = None)
TypeOK ==
    /\ \A h \in Ids : RecOK(pg.rec[h])
    /\ pg.memo \in Asks \cup {None} /\ pg.login \in Ids \cup {None} /\ pg.asked \subseteq Ids
    /\ \A r \in pg.reqs : /\ r.id \in Slots /\ r.tok \in Tokens /\ r.h \in Ids
                          /\ (r.stage \in {"pair", "info", "again"}) <=> (r.ask # None)
                          /\ r.ask # None => pg.asks[r.ask].st # "none"
    /\ \A r, q \in pg.reqs : r.id = q.id => r = q

\* 56 (rePairPeers, originKeepsToken), 63 (_peerFetch): whatever a restart
\* publishes, a switch keeps and a stale read says, a password is only ever
\* handed to the machine it is kept for: but for the one that a login stores
\* after its host's address was changed under it.
TokenReachesItsMachine == hist.stray \subseteq hist.late

\* 63 ("a password entered meanwhile must not be erased by a stale answer"):
\* a password that was stored is dropped by the page itself only if what this
\* broker publishes was not its pairing at some time since; but when the peer
\* moves away and back under a login with the password the host already had.
NewPasswordKeptStep ==
    \A h \in Hosts : (/\ pg.rec[h].on /\ pg.rec[h].tok # None /\ pg'.rec[h].tok = None
                          /\ WayIn(pg.rec[h]) = WayIn(pg'.rec[h])) => h \in hist.off

\* 63 (_peerFetch): an answer never opens a host's login form when the request
\* carried the password that machine takes, whoever refused it; but when an edit
\* that keeps the password, a switch and a move of the peer follow each other.
AsksOnlyForABadPassword == ~hist.nagged

=============================================================================
