-------------------------- MODULE LeaseChannelProofs --------------------------
(***************************************************************************)
(* Proofs about the lease channel, for any clients, pages, sockets, calls  *)
(* and any number of clicks and pings.  After type correctness, one lemma  *)
(* per action (the record types of frames, calls and ops are opened only   *)
(* by the lemmas about them), the inductive invariant has three parts: how *)
(* a page's sockets are wired, that a generation names one holder wherever *)
(* it is written, and LossesTold: an attentive socket of a page that       *)
(* believes, or is about to hear, a lease it has lost has a newer one on   *)
(* its way.  LossesTold is what NoFalseHolder needs and what no step is to *)
(* break; RelayInv adds what the calls of the relay rest on.               *)
(***************************************************************************)
EXTENDS LeaseChannel, FiniteSetTheorems, TLAPS

-----------------------------------------------------------------------------
(* Frames and records.                                                     *)

LEMMA FrameKinds ==
    /\ \A m \in ToPage : m.kind = "lease" => m \in Lease
    /\ \A m \in ToPage : m.kind = "rpc" => m \in Rpc
    /\ \A m \in ToBroker : m.kind = "result" => m \in Result
    /\ \A m \in ToPage : m.gen \in Nat
  BY DEF ToPage, ToBroker, Lease, Rpc, Become, Result

LEMMA FrameFields ==
    /\ \A m \in Lease : m.gen \in Nat /\ m.owner \in Clients \cup {NoClient}
                        /\ m.kind = "lease"
    /\ \A m \in Rpc : m.gen \in Nat /\ m.rid \in Calls /\ m.kind = "rpc"
    /\ \A m \in Result : m.rid \in Calls /\ m.ok \in BOOLEAN
  BY DEF Lease, Rpc, Result

LEMMA FramesBuilt ==
    /\ TypeOK => LiveLease \in ToPage
    /\ \A r \in Calls, g \in Nat :
            [kind |-> "rpc", rid |-> r, gen |-> g] \in ToPage
    /\ [kind |-> "become"] \in ToBroker
    /\ \A r \in Calls, ok \in BOOLEAN :
            [kind |-> "result", rid |-> r, ok |-> ok] \in ToBroker
  BY DEF TypeOK, LiveLease, ToPage, ToBroker, Lease, Rpc, Become, Result

\* What the relay does to a call's record keeps its type.
LEMMA CallFields ==
    ASSUME NEW c \in CallRecord
    PROVE  /\ c.client \in Clients \cup {NoClient} /\ c.gen \in Nat
           /\ c.tries \subseteq Sockets /\ c.dispatched \in BOOLEAN
           /\ c.future \in {"none", "ok", "refused", "lost"}
  BY DEF CallRecord

LEMMA CallHeard ==
    ASSUME NEW c \in CallRecord, NEW f \in {"ok", "refused", "lost"}
    PROVE  [c EXCEPT !.future = f] \in CallRecord
  BY DEF CallRecord

LEMMA CallOver ==
    ASSUME NEW c \in CallRecord, NEW how \in {"ok", "refused", "lost", "timeout"}
    PROVE  /\ [c EXCEPT !.phase = "over", !.outcome = how] \in CallRecord
           /\ [c EXCEPT !.phase = "over", !.outcome = how].dispatched = c.dispatched
           /\ [c EXCEPT !.phase = "over", !.outcome = how].future = c.future
           /\ [c EXCEPT !.phase = "over", !.outcome = how].gen = c.gen
           /\ [c EXCEPT !.phase = "over", !.outcome = how].client = c.client
  BY DEF CallRecord

LEMMA CallSent ==
    ASSUME NEW c \in CallRecord
    PROVE  /\ [c EXCEPT !.phase = "waiting"] \in CallRecord
           /\ [c EXCEPT !.stalled = TRUE] \in CallRecord
  BY DEF CallRecord

LEMMA CallHanded ==
    ASSUME NEW c \in CallRecord, NEW s
    PROVE  Handed(c, s) \in CallRecord
  BY DEF CallRecord, Handed

LEMMA CallBegun ==
    ASSUME NEW c \in CallRecord, NEW k \in Clients \cup {NoClient}, NEW g \in Nat,
           NEW t \in SUBSET Sockets
    PROVE  [c EXCEPT !.phase = "sending", !.client = k, !.gen = g, !.tries = t]
               \in CallRecord
  BY DEF CallRecord

\* A function of which one value is replaced by another of its range.
LEMMA Replaces ==
    ASSUME NEW S, NEW T, NEW f \in [S -> T], NEW x \in S, NEW v \in T
    PROVE  [f EXCEPT ![x] = v] \in [S -> T]
  OBVIOUS

\* ... and what the page does to an op's.
LEMMA OpUpdates ==
    ASSUME NEW o \in OpRecord
    PROVE  /\ o.applied \in Nat /\ o.gen \in Nat /\ o.ok \in BOOLEAN
           /\ o.state \in {"none", "running", "answered"}
           /\ [o EXCEPT !.state = "answered"] \in OpRecord
           /\ \A ok \in BOOLEAN :
                    [o EXCEPT !.state = "answered", !.ok = ok] \in OpRecord
           /\ \A g \in Nat : [state |-> "running", applied |-> o.applied + 1,
                              gen |-> g, ok |-> FALSE] \in OpRecord
  <1>1. /\ o.applied \in Nat /\ o.gen \in Nat /\ o.ok \in BOOLEAN
        /\ o.state \in {"none", "running", "answered"}
        /\ [o EXCEPT !.state = "answered"] \in OpRecord
    BY DEF OpRecord
  <1>2. ASSUME NEW ok \in BOOLEAN
        PROVE  [o EXCEPT !.state = "answered", !.ok = ok] \in OpRecord
    BY DEF OpRecord
  <1>3. ASSUME NEW g \in Nat
        PROVE  [state |-> "running", applied |-> o.applied + 1,
                gen |-> g, ok |-> FALSE] \in OpRecord
    BY <1>1 DEF OpRecord
  <1> QED BY <1>1, <1>2, <1>3

LEMMA OwnerIsClient ==
    ASSUME LeaseAssumption, NEW s \in Sockets
    PROVE  Owner(s) \in Clients /\ PageOf[s] \in Pages
           /\ Owner(s) = ClientOf[PageOf[s]]
  BY DEF LeaseAssumption, Owner

\* A sequence of frames one of which is taken, or to which one is added.
LEMMA QueueTypes ==
    ASSUME NEW S, NEW q \in Seq(S)
    PROVE  /\ q # <<>> => Head(q) \in S /\ Tail(q) \in Seq(S)
           /\ \A m \in S : Append(q, m) \in Seq(S)
  OBVIOUS

LEMMA SentTypes ==
    ASSUME TypeOK, NEW s \in Sockets, NEW m \in ToPage
    PROVE  Sent(s, m) \in [Sockets -> Seq(ToPage)]
  <1>1. down[s] \in Seq(ToPage) BY DEF TypeOK
  <1>2. Append(down[s], m) \in Seq(ToPage) BY <1>1, QueueTypes
  <1> QED BY <1>2 DEF Sent, TypeOK

LEMMA AskTypes ==
    ASSUME TypeOK, NEW s \in Sockets, Ask(s)
    PROVE  up' \in [Sockets -> Seq(ToBroker)] /\ asks' \in Nat
  <1>1. up[s] \in Seq(ToBroker) BY DEF TypeOK
  <1>2. Append(up[s], [kind |-> "become"]) \in Seq(ToBroker)
    BY <1>1, QueueTypes, FramesBuilt
  <1> QED BY <1>2 DEF Ask, TypeOK

LEMMA ReplyTypes ==
    ASSUME TypeOK, NEW p \in Pages, NEW r \in Calls, NEW ok \in BOOLEAN,
           Reply(p, r, ok)
    PROVE  up' \in [Sockets -> Seq(ToBroker)]
  <1> DEFINE m == [kind |-> "result", rid |-> r, ok |-> ok]
             s == cur[p]
  <1>1. CASE s # NoSocket /\ conn[s] = "serving"
    <2>1. s \in Sockets /\ up[s] \in Seq(ToBroker) BY <1>1 DEF TypeOK
    <2>2. m \in ToBroker BY FramesBuilt
    <2>3. Append(up[s], m) \in Seq(ToBroker) BY <2>1, <2>2, QueueTypes
    <2>4. up' = [up EXCEPT ![s] = Append(up[s], m)] BY <1>1 DEF Reply
    <2>5. up \in [Sockets -> Seq(ToBroker)] BY DEF TypeOK
    <2> HIDE DEF m, s
    <2> QED BY <2>1, <2>3, <2>4, <2>5, Replaces
  <1>2. CASE ~(s # NoSocket /\ conn[s] = "serving")
    BY <1>2 DEF Reply, TypeOK
  <1> QED BY <1>1, <1>2

\* The calls keep their type when the holding they were made in ends.
LEMMA MoveLeaseTypes ==
    ASSUME TypeOK, NEW c \in Clients \cup {NoClient}, MoveLease(c)
    PROVE  /\ active' \in Clients \cup {NoClient} /\ gen' \in Nat
           /\ call' \in [Calls -> CallRecord]
  <1>1. ASSUME NEW r \in Calls
        PROVE  call[r] \in CallRecord /\ [call[r] EXCEPT !.future = "lost"] \in CallRecord
    <2>1. call[r] \in CallRecord BY DEF TypeOK
    <2> QED BY <2>1, CallHeard
  <1>2. call' \in [Calls -> CallRecord]
    BY <1>1 DEF MoveLease, FailSuperseded
  <1> QED BY <1>2 DEF MoveLease, NextGen, TypeOK

-----------------------------------------------------------------------------
(* The broker's actions.                                                   *)

LEMMA TypeConnect ==
    ASSUME LeaseAssumption, TypeOK, NEW s \in Sockets, Connect(s) PROVE TypeOK'
  <1>1. active' \in Clients \cup {NoClient} /\ gen' \in Nat
        /\ call' \in [Calls -> CallRecord]
    <2>1. CASE active = NoClient BY <2>1, OwnerIsClient, MoveLeaseTypes DEF Connect
    <2>2. CASE active # NoClient BY <2>2 DEF Connect, TypeOK
    <2> QED BY <2>1, <2>2
  <1>2. conn' \in [Sockets -> {"idle", "dialled", "serving", "over"}]
        /\ owed' \subseteq Sockets
    BY DEF Connect, TypeOK
  <1> QED BY <1>1, <1>2 DEF TypeOK, Connect, pageVars, clickVars

LEMMA TypeSendLease ==
    ASSUME TypeOK, NEW s \in Sockets, SendLease(s) PROVE TypeOK'
  <1>1. down' \in [Sockets -> Seq(ToPage)]
    BY FramesBuilt, SentTypes DEF SendLease
  <1> QED BY <1>1 DEF TypeOK, SendLease, leaseVars, pageVars, clickVars, callVars

LEMMA TypeStall ==
    ASSUME TypeOK, NEW s \in Sockets, StallLease(s) PROVE TypeOK'
  BY DEF TypeOK, StallLease, leaseVars, pageVars, clickVars, callVars

LEMMA TypePing ==
    ASSUME TypeOK, NEW s \in Sockets, Ping(s) PROVE TypeOK'
  BY DEF TypeOK, Ping, leaseVars, pageVars, callVars, Serving

LEMMA TypeBecome ==
    ASSUME LeaseAssumption, TypeOK, NEW s \in Sockets, BecomeActive(s) PROVE TypeOK'
  <1>1. active' \in Clients \cup {NoClient} /\ gen' \in Nat
        /\ call' \in [Calls -> CallRecord]
    <2>1. CASE active # Owner(s)
      BY <2>1, OwnerIsClient, MoveLeaseTypes DEF BecomeActive
    <2>2. CASE active = Owner(s) BY <2>2 DEF BecomeActive, TypeOK
    <2> QED BY <2>1, <2>2
  <1>2. up[s] \in Seq(ToBroker) BY DEF TypeOK
  <1>3. up' \in [Sockets -> Seq(ToBroker)]
    BY <1>2, QueueTypes DEF BecomeActive, TypeOK
  <1>4. owed' \subseteq Sockets BY DEF BecomeActive, TypeOK, ToldOfTakeover, Serving
  <1> QED BY <1>1, <1>3, <1>4 DEF TypeOK, BecomeActive, pageVars, clickVars

LEMMA TypeDisconnect ==
    ASSUME LeaseAssumption, TypeOK, NEW s \in Sockets, Disconnect(s) PROVE TypeOK'
  <1>1. active' \in Clients \cup {NoClient} /\ gen' \in Nat
        /\ call' \in [Calls -> CallRecord]
    <2>1. CASE Frees(s) BY <2>1, MoveLeaseTypes DEF Disconnect
    <2>2. CASE ~Frees(s) BY <2>2 DEF Disconnect, TypeOK
    <2> QED BY <2>1, <2>2
  <1>2. up' \in [Sockets -> Seq(ToBroker)] BY DEF Disconnect, TypeOK
  <1>3. conn' \in [Sockets -> {"idle", "dialled", "serving", "over"}]
    BY DEF Disconnect, TypeOK
  <1>4. owed' \subseteq Sockets BY DEF Disconnect, TypeOK, ToldOfRelease, Serving
  <1> QED BY <1>1, <1>2, <1>3, <1>4 DEF TypeOK, Disconnect, pageVars, clickVars

LEMMA TypeRelay ==
    ASSUME TypeOK, NEW r \in Calls, Relay(r) PROVE TypeOK'
  <1>1. call[r] \in CallRecord BY DEF TypeOK
  <1>2. {s \in Serving : Owner(s) = active} \in SUBSET Sockets BY DEF Serving
  <1>3. [call[r] EXCEPT !.phase = "sending", !.client = active, !.gen = gen,
                        !.tries = {s \in Serving : Owner(s) = active}]
            \in CallRecord
    <2>1. active \in Clients \cup {NoClient} /\ gen \in Nat BY DEF TypeOK
    <2> QED BY <1>1, <1>2, <2>1, CallBegun
  <1>4. call' \in [Calls -> CallRecord] BY <1>3 DEF TypeOK, Relay
  <1> QED BY <1>4 DEF TypeOK, Relay, leaseVars, brokerVars, pageVars, clickVars

LEMMA TypeTry ==
    ASSUME TypeOK, NEW r \in Calls, NEW s \in Sockets, TrySocket(r, s) PROVE TypeOK'
  <1> DEFINE c == call[r]
             h == Handed(c, s)
             m == [kind |-> "rpc", rid |-> r, gen |-> c.gen]
  <1>1. c \in CallRecord BY DEF TypeOK
  <1>2. h \in CallRecord
    <2> HIDE DEF c
    <2> QED BY <1>1, CallHanded
  <1>3. /\ [c EXCEPT !.phase = "over", !.outcome = "lost"] \in CallRecord
        /\ [h EXCEPT !.phase = "waiting"] \in CallRecord
        /\ [h EXCEPT !.stalled = TRUE] \in CallRecord
    <2> HIDE DEF h, c
    <2> QED BY <1>1, <1>2, CallOver, CallSent
  <1>4. \/ call' = [call EXCEPT ![r] = [c EXCEPT !.phase = "over", !.outcome = "lost"]]
        \/ call' = [call EXCEPT ![r] = [h EXCEPT !.phase = "waiting"]]
        \/ call' = [call EXCEPT ![r] = [h EXCEPT !.stalled = TRUE]]
        \/ call' = [call EXCEPT ![r] = h]
    BY DEF TrySocket
  <1>5. call' \in [Calls -> CallRecord]
    <2> HIDE DEF h, c
    <2> QED BY <1>2, <1>3, <1>4 DEF TypeOK
  <1>6. down' = down \/ down' = Sent(s, m) BY DEF TrySocket
  <1>7. m \in ToPage BY <1>1, CallFields, FramesBuilt
  <1>8. down' \in [Sockets -> Seq(ToPage)]
    <2> HIDE DEF m
    <2> QED BY <1>6, <1>7, SentTypes DEF TypeOK
  <1>9. closing' \subseteq Sockets BY DEF TypeOK, TrySocket
  <1>10. UNCHANGED <<leaseVars, conn, owed, up, pageVars, clickVars, op>>
    BY DEF TrySocket
  <1> QED BY <1>5, <1>8, <1>9, <1>10 DEF TypeOK, leaseVars, pageVars, clickVars

LEMMA TypeEnd ==
    ASSUME TypeOK, NEW r \in Calls, EndCall(r) PROVE TypeOK'
  <1>1. call[r] \in CallRecord BY DEF TypeOK
  <1>2. PICK how \in {"ok", "refused", "lost", "timeout"} :
            call' = [call EXCEPT ![r] =
                        [call[r] EXCEPT !.phase = "over", !.outcome = how]]
    <2>1. call[r].future \in {"none", "ok", "refused", "lost"} BY <1>1, CallFields
    <2> QED BY <2>1 DEF EndCall
  <1>3. [call[r] EXCEPT !.phase = "over", !.outcome = how] \in CallRecord
    BY <1>1, CallOver
  <1>4. call' \in [Calls -> CallRecord] BY <1>2, <1>3 DEF TypeOK
  <1> QED BY <1>4 DEF TypeOK, EndCall, leaseVars, brokerVars, pageVars, clickVars

LEMMA TypeResult ==
    ASSUME TypeOK, NEW s \in Sockets, DesktopResult(s) PROVE TypeOK'
  <1> DEFINE m == Head(up[s])
  <1>1. up[s] \in Seq(ToBroker) /\ up[s] # <<>> BY DEF TypeOK, DesktopResult
  <1>2. m \in ToBroker /\ Tail(up[s]) \in Seq(ToBroker) BY <1>1, QueueTypes
  <1>3. m \in Result BY <1>2, FrameKinds DEF DesktopResult
  <1>4. m.rid \in Calls BY <1>3, FrameFields
  <1>5. up' \in [Sockets -> Seq(ToBroker)] BY <1>2 DEF DesktopResult, TypeOK
  <1>6. PICK f \in {"ok", "refused"} :
            \/ call' = call
            \/ call' = [call EXCEPT ![m.rid] = [@ EXCEPT !.future = f]]
    BY DEF DesktopResult
  <1>7. call' \in [Calls -> CallRecord]
    <2>1. call[m.rid] \in CallRecord BY <1>4 DEF TypeOK
    <2>2. [call[m.rid] EXCEPT !.future = f] \in CallRecord BY <2>1, CallHeard
    <2> HIDE DEF m
    <2> QED BY <1>6, <2>2 DEF TypeOK
  <1> QED BY <1>5, <1>7 DEF TypeOK, DesktopResult, leaseVars, brokerVars,
             pageVars, clickVars

-----------------------------------------------------------------------------
(* The page's actions.                                                     *)

LEMMA TypeDial ==
    ASSUME LeaseAssumption, TypeOK, NEW s \in Sockets, Dial(s) PROVE TypeOK'
  <1>1. PageOf[s] \in Pages BY OwnerIsClient
  <1>2. conn' \in [Sockets -> {"idle", "dialled", "serving", "over"}]
    BY DEF TypeOK, Dial
  <1>3. cur' \in [Pages -> Sockets \cup {NoSocket}]
        /\ cand' \in [Pages -> Sockets \cup {NoSocket}]
    <2> DEFINE p == PageOf[s]
    <2>1. /\ cur' = cur \/ cur' = [cur EXCEPT ![p] = s]
          /\ cand' = cand \/ cand' = [cand EXCEPT ![p] = s]
      BY DEF Dial
    <2>2. /\ cur \in [Pages -> Sockets \cup {NoSocket}]
          /\ cand \in [Pages -> Sockets \cup {NoSocket}]
          /\ s \in Sockets \cup {NoSocket}
      BY DEF TypeOK
    <2> HIDE DEF p
    <2> QED BY <1>1, <2>1, <2>2, Replaces DEF p
  <1> QED BY <1>2, <1>3 DEF TypeOK, Dial, leaseVars, clickVars, callVars

LEMMA TypeGone ==
    ASSUME LeaseAssumption, TypeOK, NEW s \in Sockets, SocketGone(s) PROVE TypeOK'
  <1>1. PageOf[s] \in Pages BY OwnerIsClient
  <1>2. down' \in [Sockets -> Seq(ToPage)] BY DEF TypeOK, SocketGone
  <1>3. cur' \in [Pages -> Sockets \cup {NoSocket}]
        /\ cand' \in [Pages -> Sockets \cup {NoSocket}]
    BY <1>1 DEF TypeOK, SocketGone
  <1> QED BY <1>2, <1>3 DEF TypeOK, SocketGone, leaseVars, brokerVars, clickVars,
             callVars

LEMMA TypeHearLease ==
    ASSUME LeaseAssumption, TypeOK, NEW s \in Sockets, HearLease(s) PROVE TypeOK'
  <1> DEFINE p == PageOf[s]
             m == Head(down[s])
  <1>1. p \in Pages BY OwnerIsClient
  <1>2. down[s] \in Seq(ToPage) /\ down[s] # <<>> BY DEF TypeOK, HearLease
  <1>3. m \in ToPage /\ Tail(down[s]) \in Seq(ToPage) BY <1>2, QueueTypes
  <1>4. m.gen \in Nat BY <1>3, FrameKinds
  <1>5. up' \in [Sockets -> Seq(ToBroker)] /\ asks' \in Nat
    <2>1. Ask(s) \/ UNCHANGED <<up, asks>> BY DEF HearLease
    <2> QED BY <2>1, AskTypes DEF TypeOK
  <1>6. known' \in [Pages -> Nat]
    <2>1. known' = known \/ known' = [known EXCEPT ![p] = m.gen] BY DEF HearLease
    <2> HIDE DEF m, p
    <2> QED BY <2>1, <1>1, <1>4 DEF TypeOK
  <1>7. belief' \in [Pages -> {"unknown", "active", "inactive"}]
    <2>1. \/ belief' = belief
          \/ belief' = [belief EXCEPT ![p] = "active"]
          \/ belief' = [belief EXCEPT ![p] = "inactive"]
      BY DEF HearLease
    <2> HIDE DEF p
    <2> QED BY <2>1, <1>1 DEF TypeOK
  <1>8. want' \in [Pages -> BOOLEAN]
    <2>1. want' = want \/ want' = [want EXCEPT ![p] = FALSE] BY DEF HearLease
    <2> QED BY <2>1, <1>1 DEF TypeOK
  <1>9. down' \in [Sockets -> Seq(ToPage)]
    <2>1. down' = [x \in Sockets |-> IF x \in retired' THEN <<>>
                        ELSE IF x = s THEN Tail(down[s]) ELSE down[x]]
      BY DEF HearLease
    <2> QED BY <2>1, <1>3 DEF TypeOK
  <1>10. /\ cur' \in [Pages -> Sockets \cup {NoSocket}]
         /\ cand' \in [Pages -> Sockets \cup {NoSocket}]
         /\ retired' \subseteq Sockets
    <2>1. \/ UNCHANGED <<cur, cand, retired>>
          \/ /\ cur' = [cur EXCEPT ![p] = s]
             /\ cand' = [cand EXCEPT ![p] = NoSocket]
             /\ retired' = retired \cup Replaced(p)
      BY DEF HearLease
    <2>2. Replaced(p) \subseteq Sockets BY <1>1 DEF Replaced, TypeOK
    <2>3. /\ cur \in [Pages -> Sockets \cup {NoSocket}]
          /\ cand \in [Pages -> Sockets \cup {NoSocket}]
          /\ retired \subseteq Sockets
          /\ {s, NoSocket} \subseteq Sockets \cup {NoSocket}
      BY DEF TypeOK
    <2> HIDE DEF p
    <2>4. /\ cur' = cur \/ cur' \in [Pages -> Sockets \cup {NoSocket}]
          /\ cand' = cand \/ cand' \in [Pages -> Sockets \cup {NoSocket}]
      BY <1>1, <2>1, <2>3, Replaces
    <2> QED BY <2>1, <2>2, <2>3, <2>4
  <1>11. reported' \subseteq Sockets BY DEF TypeOK, HearLease
  <1>12. UNCHANGED <<leaseVars, brokerVars, clicks, pings, callVars>>
    BY DEF HearLease
  <1> QED BY <1>5, <1>6, <1>7, <1>8, <1>9, <1>10, <1>11, <1>12
          DEF TypeOK, leaseVars, brokerVars, callVars

LEMMA TypeClick ==
    ASSUME TypeOK, NEW p \in Pages, Click(p) PROVE TypeOK'
  <1>1. up' \in [Sockets -> Seq(ToBroker)] /\ asks' \in Nat
    <2>1. CASE Writable(cur[p])
      <3>1. cur[p] \in Sockets BY <2>1 DEF Writable, TypeOK
      <3> QED BY <2>1, <3>1, AskTypes DEF Click
    <2>2. CASE ~Writable(cur[p]) BY <2>2 DEF Click, TypeOK
    <2> QED BY <2>1, <2>2
  <1>2. want' \in [Pages -> BOOLEAN] /\ clicks' \in Nat BY DEF Click, TypeOK
  <1> QED BY <1>1, <1>2 DEF TypeOK, Click, leaseVars, brokerVars, callVars

LEMMA TypeHearRpc ==
    ASSUME LeaseAssumption, TypeOK, NEW s \in Sockets, HearRpc(s) PROVE TypeOK'
  <1> DEFINE p == PageOf[s]
             m == Head(down[s])
             r == m.rid
  <1>1. p \in Pages BY OwnerIsClient
  <1>2. down[s] \in Seq(ToPage) /\ down[s] # <<>> BY DEF TypeOK, HearRpc
  <1>3. m \in ToPage /\ Tail(down[s]) \in Seq(ToPage) BY <1>2, QueueTypes
  <1>4. m \in Rpc BY <1>3, FrameKinds DEF HearRpc
  <1>5. r \in Calls /\ m.gen \in Nat BY <1>4, FrameFields
  <1>6. op[p][r] \in OpRecord BY <1>1, <1>5 DEF TypeOK
  <1>7. down' \in [Sockets -> Seq(ToPage)] BY <1>3 DEF TypeOK, HearRpc
  <1>8. up' \in [Sockets -> Seq(ToBroker)]
    <2>1. op[p][r].ok \in BOOLEAN BY <1>6, OpUpdates
    <2>2. Reply(p, r, op[p][r].ok) \/ Reply(p, r, FALSE) \/ up' = up
      BY DEF HearRpc
    <2> HIDE DEF p, r
    <2>3. ASSUME NEW ok \in BOOLEAN, Reply(p, r, ok)
          PROVE  up' \in [Sockets -> Seq(ToBroker)]
      BY <1>1, <1>5, <2>3, ReplyTypes
    <2>4. up \in [Sockets -> Seq(ToBroker)] BY DEF TypeOK
    <2> QED BY <2>1, <2>2, <2>3, <2>4
  <1>9. op' \in [Pages -> [Calls -> OpRecord]]
    <2> DEFINE answered == [op[p][r] EXCEPT !.state = "answered"]
               run == [state |-> "running", applied |-> op[p][r].applied + 1,
                       gen |-> m.gen, ok |-> FALSE]
    <2>1. answered \in OpRecord /\ run \in OpRecord BY <1>5, <1>6, OpUpdates
    <2>2. \/ op' = op
          \/ op' = [op EXCEPT ![p] = [@ EXCEPT ![r] = answered]]
          \/ op' = [op EXCEPT ![p] = [@ EXCEPT ![r] = run]]
      BY DEF HearRpc
    <2>3. op[p] \in [Calls -> OpRecord] BY <1>1 DEF TypeOK
    <2> HIDE DEF p, r, answered, run
    <2>4. [op[p] EXCEPT ![r] = answered] \in [Calls -> OpRecord]
          /\ [op[p] EXCEPT ![r] = run] \in [Calls -> OpRecord]
      BY <1>5, <2>1, <2>3
    <2> QED BY <1>1, <2>2, <2>4 DEF TypeOK
  <1> QED BY <1>7, <1>8, <1>9 DEF TypeOK, HearRpc, leaseVars, brokerVars,
             pageVars, clickVars

LEMMA TypeAnswer ==
    ASSUME TypeOK, NEW p \in Pages, NEW r \in Calls, Answer(p, r) PROVE TypeOK'
  <1> DEFINE held == HeldThroughout(p, r)
             answered == [op[p][r] EXCEPT !.state = "answered", !.ok = held]
  <1>1. held \in BOOLEAN BY DEF HeldThroughout, LeaseLost
  <1>2. up' \in [Sockets -> Seq(ToBroker)] BY <1>1, ReplyTypes DEF Answer
  <1>3. op[p] \in [Calls -> OpRecord] /\ op[p][r] \in OpRecord BY DEF TypeOK
  <1>4. answered \in OpRecord BY <1>1, <1>3, OpUpdates
  <1>5. op' = [op EXCEPT ![p] = [@ EXCEPT ![r] = answered]]
    BY <1>3 DEF Answer, TypeOK
  <1>6. op' \in [Pages -> [Calls -> OpRecord]]
    <2> HIDE DEF answered
    <2>1. [op[p] EXCEPT ![r] = answered] \in [Calls -> OpRecord] BY <1>3, <1>4
    <2> QED BY <1>5, <2>1 DEF TypeOK
  <1> QED BY <1>2, <1>6 DEF TypeOK, Answer, leaseVars, brokerVars, pageVars,
             clickVars

-----------------------------------------------------------------------------
LEMMA InitType == ASSUME LeaseAssumption, Init PROVE TypeOK
  <1>1. NoCall \in CallRecord BY DEF NoCall, CallRecord
  <1>2. call \in [Calls -> CallRecord] BY <1>1 DEF Init
  <1>3. op \in [Pages -> [Calls -> OpRecord]] BY DEF Init, OpRecord
  <1>4. down \in [Sockets -> Seq(ToPage)] /\ up \in [Sockets -> Seq(ToBroker)]
    BY DEF Init
  <1> QED BY <1>2, <1>3, <1>4 DEF Init, TypeOK

LEMMA TypeStep == ASSUME LeaseAssumption, TypeOK, [Next]_vars PROVE TypeOK'
  <1>1. CASE Next
    BY <1>1, TypeConnect, TypeSendLease, TypeStall, TypePing, TypeBecome,
       TypeDisconnect, TypeResult, TypeRelay, TypeEnd, TypeTry, TypeDial,
       TypeGone, TypeHearLease, TypeHearRpc, TypeClick, TypeAnswer DEF Next
  <1>2. CASE UNCHANGED vars
    BY <1>2 DEF TypeOK, vars, leaseVars, brokerVars, pageVars, clickVars, callVars
  <1> QED BY <1>1, <1>2

\* Every variable of the broker and of the pages keeps its type.
THEOREM LeaseTypeCorrect == ASSUME LeaseAssumption PROVE Spec => []TypeOK
  <1>1. Init => TypeOK BY InitType
  <1>2. TypeOK /\ [Next]_vars => TypeOK' BY TypeStep
  <1> QED BY <1>1, <1>2, PTL DEF Spec

-----------------------------------------------------------------------------
(* The frames of a queue as a set, and the order of its leases.            *)

Elems(q) == {q[i] : i \in 1..Len(q)}
Leases(s) == {m \in Elems(down[s]) : m.kind = "lease"}

InOrder(q) ==
    \A i, j \in 1..Len(q) :
        i < j /\ q[i].kind = "lease" /\ q[j].kind = "lease"
            => q[i].gen <= q[j].gen

LEMMA ElemsEmpty == Elems(<<>>) = {} /\ InOrder(<<>>)
  BY DEF Elems, InOrder

LEMMA ElemsAppend ==
    ASSUME NEW S, NEW q \in Seq(S), NEW m \in S
    PROVE  Elems(Append(q, m)) = Elems(q) \cup {m}
  <1> DEFINE a == Append(q, m)
  <1>1. Len(a) = Len(q) + 1 /\ a[Len(q) + 1] = m /\ Len(q) \in Nat
        /\ \A i \in 1..Len(q) : a[i] = q[i]
    OBVIOUS
  <1> HIDE DEF a
  <1> QED BY <1>1 DEF Elems

LEMMA ElemsTail ==
    ASSUME NEW S, NEW q \in Seq(S), q # <<>>
    PROVE  Elems(q) = {Head(q)} \cup Elems(Tail(q))
  <1> DEFINE t == Tail(q)
  <1>1. /\ Len(t) = Len(q) - 1 /\ Len(q) \in Nat \ {0} /\ Head(q) = q[1]
        /\ \A i \in 1..Len(t) : t[i] = q[i + 1]
    OBVIOUS
  <1>2. ASSUME NEW i \in 1..Len(q) PROVE q[i] \in {Head(q)} \cup Elems(t)
    <2>1. CASE i = 1 BY <1>1, <2>1
    <2>2. CASE i # 1
      <3>1. i - 1 \in 1..Len(t) /\ t[i - 1] = q[i] BY <1>1, <2>2
      <3> QED BY <3>1 DEF Elems
    <2> QED BY <2>1, <2>2
  <1>3. ASSUME NEW i \in 1..Len(t) PROVE t[i] \in Elems(q)
    <2>1. i + 1 \in 1..Len(q) /\ t[i] = q[i + 1] BY <1>1
    <2> QED BY <2>1 DEF Elems
  <1>4. Head(q) \in Elems(q)
    <2>1. 1 \in 1..Len(q) BY <1>1
    <2> QED BY <1>1, <2>1 DEF Elems
  <1> HIDE DEF t
  <1>5. Elems(q) \subseteq {Head(q)} \cup Elems(t) BY <1>2 DEF Elems
  <1>6. Elems(t) \subseteq Elems(q) BY <1>3 DEF Elems
  <1> QED BY <1>4, <1>5, <1>6 DEF t

LEMMA OrderAppend ==
    ASSUME NEW q \in Seq(ToPage), NEW m \in ToPage, InOrder(q),
           m.kind = "lease" =>
                \A n \in Elems(q) : n.kind = "lease" => n.gen <= m.gen
    PROVE  InOrder(Append(q, m))
  <1> DEFINE a == Append(q, m)
  <1>1. Len(a) = Len(q) + 1 /\ a[Len(q) + 1] = m /\ Len(q) \in Nat
        /\ \A i \in 1..Len(q) : a[i] = q[i]
    OBVIOUS
  <1> SUFFICES ASSUME NEW i \in 1..Len(a), NEW j \in 1..Len(a), i < j,
                      a[i].kind = "lease", a[j].kind = "lease"
               PROVE  a[i].gen <= a[j].gen
    BY DEF InOrder
  <1>2. i \in 1..Len(q) /\ a[i] = q[i] BY <1>1
  <1>3. CASE j \in 1..Len(q)
    <2>1. a[j] = q[j] BY <1>1, <1>3
    <2> HIDE DEF a
    <2> QED BY <1>2, <1>3, <2>1 DEF InOrder
  <1>4. CASE j = Len(q) + 1
    <2>1. a[j] = m BY <1>1, <1>4
    <2>2. q[i] \in Elems(q) BY <1>2 DEF Elems
    <2> HIDE DEF a
    <2> QED BY <1>2, <2>1, <2>2
  <1> QED BY <1>1, <1>3, <1>4

LEMMA OrderTail ==
    ASSUME NEW q \in Seq(ToPage), q # <<>>, InOrder(q)
    PROVE  /\ InOrder(Tail(q))
           /\ Head(q).kind = "lease" =>
                \A n \in Elems(q) : n.kind = "lease" => Head(q).gen <= n.gen
  <1> DEFINE t == Tail(q)
  <1>1. /\ Len(t) = Len(q) - 1 /\ Len(q) \in Nat \ {0} /\ Head(q) = q[1]
        /\ \A i \in 1..Len(t) : t[i] = q[i + 1]
    OBVIOUS
  <1>2. ASSUME NEW i \in 1..Len(t), NEW j \in 1..Len(t), i < j,
               t[i].kind = "lease", t[j].kind = "lease"
        PROVE  t[i].gen <= t[j].gen
    <2>1. i + 1 \in 1..Len(q) /\ j + 1 \in 1..Len(q) /\ i + 1 < j + 1 BY <1>1, <1>2
    <2>2. t[i] = q[i + 1] /\ t[j] = q[j + 1] BY <1>1
    <2> HIDE DEF t
    <2> QED BY <1>2, <2>1, <2>2 DEF InOrder
  <1>3. InOrder(t) BY <1>2 DEF InOrder
  <1>4. ASSUME Head(q).kind = "lease", NEW i \in 1..Len(q), q[i].kind = "lease"
        PROVE  Head(q).gen <= q[i].gen
    <2>1. CASE i = 1
      <3>1. q[i] = Head(q) BY <1>1, <2>1
      <3>2. Head(q) \in ToPage BY QueueTypes
      <3>3. Head(q).gen \in Nat BY <3>2, FrameKinds
      <3> QED BY <3>1, <3>3
    <2>2. CASE i # 1
      <3>1. 1 \in 1..Len(q) /\ 1 < i BY <1>1, <2>2
      <3> QED BY <1>1, <1>4, <3>1 DEF InOrder
    <2> QED BY <2>1, <2>2
  <1> QED BY <1>3, <1>4 DEF Elems

-----------------------------------------------------------------------------
(* The inductive invariant.                                                *)

\* A page's sockets are its own, dialled and still listened to; a socket
\* nobody listens to has nothing on its way; statuses are owed to live ones.
SocketsWired ==
    /\ \A p \in Pages : cur[p] # NoSocket =>
            PageOf[cur[p]] = p /\ cur[p] \notin retired /\ conn[cur[p]] # "idle"
    /\ \A p \in Pages : cand[p] # NoSocket =>
            /\ PageOf[cand[p]] = p /\ cand[p] \notin retired
            /\ conn[cand[p]] # "idle" /\ cand[p] # cur[p]
    /\ \A s \in Sockets : conn[s] # "idle" =>
            s = cur[PageOf[s]] \/ s = cand[PageOf[s]] \/ s \in retired
    /\ \A s \in Sockets : conn[s] = "idle" => s \notin retired
    /\ \A s \in Sockets : conn[s] = "idle" \/ s \in retired => down[s] = <<>>
    /\ owed \subseteq Serving

\* A generation names one holder, on the wire, at the pages and at the broker,
\* and a socket's leases come in the order they were built in.
LeasesNamed ==
    /\ \A s \in Sockets : \A m \in Leases(s) :
            m.gen <= gen /\ (m.gen = gen => m.owner = active)
    /\ \A p \in Pages :
            known[p] <= gen
            /\ (known[p] = gen /\ belief[p] # "unknown" =>
                    (active = ClientOf[p] <=> belief[p] = "active"))
    /\ \A s, x \in Sockets : \A m \in Leases(s), n \in Leases(x) :
            m.gen = n.gen => m.owner = n.owner
    /\ \A s \in Sockets : \A m \in Leases(s) : \A p \in Pages :
            m.gen = known[p] /\ belief[p] # "unknown" =>
                (m.owner = ClientOf[p] <=> belief[p] = "active")
    /\ \A s \in Sockets : InOrder(down[s])

\* A socket that is live, listened to, not about to be closed, and to which
\* nothing is owed.
Attentive(s) == s \in Serving \ (owed \cup closing \cup retired)

NewerTold(s, g) == \E m \in Leases(s) : m.gen > g

\* Whoever lost the lease is told: an attentive socket of a page that believes,
\* or is about to believe, a lost lease has a newer one on its way.
LossesTold ==
    /\ \A p \in Pages :
            cand[p] # NoSocket /\ Attentive(cand[p]) => Leases(cand[p]) # {}
    /\ \A s, x \in Sockets : \A m \in Leases(x) :
            /\ Attentive(s) /\ Leases(s) # {}
            /\ m.owner = Owner(s) /\ active # Owner(s)
            => NewerTold(s, m.gen)
    /\ \A s \in Sockets :
            /\ Attentive(s) /\ s \in {cur[PageOf[s]], cand[PageOf[s]]}
            /\ belief[PageOf[s]] = "active" /\ active # Owner(s)
            => NewerTold(s, known[PageOf[s]])

LeaseInv == TypeOK /\ SocketsWired /\ LeasesNamed /\ LossesTold /\ HolderIsConnected

LEMMA LeaseFields ==
    ASSUME TypeOK, NEW s \in Sockets, NEW m \in Leases(s)
    PROVE  m \in Lease /\ m.gen \in Nat /\ m.kind = "lease"
  <1>1. m \in Elems(down[s]) /\ m.kind = "lease" BY DEF Leases
  <1>2. down[s] \in Seq(ToPage) BY DEF TypeOK
  <1>3. \A i \in 1..Len(down[s]) : down[s][i] \in ToPage BY <1>2
  <1>4. m \in ToPage BY <1>1, <1>3 DEF Elems
  <1> QED BY <1>1, <1>4, FrameKinds, FrameFields

-----------------------------------------------------------------------------
(* What each action does to the leases on the wire.                        *)

LEMMA LeasesSame == ASSUME UNCHANGED down
    PROVE  /\ \A s \in Sockets : Leases(s)' = Leases(s)
           /\ \A s \in Sockets : InOrder(down'[s]) <=> InOrder(down[s])
  BY DEF Leases

LEMMA LeasesSent ==
    ASSUME TypeOK, NEW s \in Sockets, NEW m \in ToPage, down' = Sent(s, m)
    PROVE  /\ \A x \in Sockets \ {s} : down'[x] = down[x] /\ Leases(x)' = Leases(x)
           /\ s \in retired => down'[s] = down[s] /\ Leases(s)' = Leases(s)
           /\ s \notin retired => down'[s] = Append(down[s], m)
           /\ s \notin retired /\ m.kind = "lease" => Leases(s)' = Leases(s) \cup {m}
           /\ m.kind # "lease" => Leases(s)' = Leases(s)
  <1>1. down[s] \in Seq(ToPage) BY DEF TypeOK
  <1>2. Elems(Append(down[s], m)) = Elems(down[s]) \cup {m} BY <1>1, ElemsAppend
  <1>3. \A x \in Sockets \ {s} : down'[x] = down[x] BY DEF Sent, TypeOK
  <1>4. s \in retired => down'[s] = down[s] BY DEF Sent
  <1>5. s \notin retired => down'[s] = Append(down[s], m) BY DEF Sent, TypeOK
  <1>6. s \notin retired => Elems(down[s])' = Elems(down[s]) \cup {m} BY <1>2, <1>5
  <1> QED BY <1>3, <1>4, <1>5, <1>6 DEF Leases

LEMMA OrderSent ==
    ASSUME TypeOK, NEW s \in Sockets, NEW m \in ToPage, down' = Sent(s, m),
           \A x \in Sockets : InOrder(down[x]),
           m.kind = "lease" => \A n \in Leases(s) : n.gen <= m.gen
    PROVE  \A x \in Sockets : InOrder(down'[x])
  <1>1. down[s] \in Seq(ToPage) BY DEF TypeOK
  <1>2. m.kind = "lease" => \A n \in Elems(down[s]) : n.kind = "lease" => n.gen <= m.gen
    BY DEF Leases
  <1>3. InOrder(Append(down[s], m)) BY <1>1, <1>2, OrderAppend
  <1> QED BY <1>3, LeasesSent

LEMMA LeasesGone ==
    ASSUME TypeOK, NEW s \in Sockets, down' = [down EXCEPT ![s] = <<>>]
    PROVE  /\ \A x \in Sockets \ {s} : down'[x] = down[x] /\ Leases(x)' = Leases(x)
           /\ down'[s] = <<>> /\ Leases(s)' = {}
  <1>1. \A x \in Sockets \ {s} : down'[x] = down[x] BY DEF TypeOK
  <1>2. down'[s] = <<>> BY DEF TypeOK
  <1> QED BY <1>1, <1>2, ElemsEmpty DEF Leases

LEMMA LeasesHeardRpc ==
    ASSUME TypeOK, NEW s \in Sockets, HearRpc(s)
    PROVE  /\ \A x \in Sockets : Leases(x)' = Leases(x)
           /\ \A x \in Sockets : down[x] = <<>> => down'[x] = <<>>
           /\ (\A x \in Sockets : InOrder(down[x])) =>
                    \A x \in Sockets : InOrder(down'[x])
  <1>1. down[s] \in Seq(ToPage) /\ down[s] # <<>> /\ Head(down[s]).kind = "rpc"
    BY DEF TypeOK, HearRpc
  <1>2. \A x \in Sockets \ {s} : down'[x] = down[x] BY DEF TypeOK, HearRpc
  <1>3. down'[s] = Tail(down[s]) BY DEF TypeOK, HearRpc
  <1>4. Elems(down[s]) = {Head(down[s])} \cup Elems(down[s])'
    BY <1>1, <1>3, ElemsTail
  <1>5. Leases(s)' = Leases(s) BY <1>1, <1>4 DEF Leases
  <1>6. InOrder(down[s]) => InOrder(down'[s]) BY <1>1, <1>3, OrderTail
  <1> QED BY <1>1, <1>2, <1>5, <1>6 DEF Leases

\* The socket a page hears a lease on is one of its two, and stays; what it
\* hears is the oldest lease on its way.
LEMMA LeasesHeard ==
    ASSUME LeaseAssumption, TypeOK, SocketsWired, NEW s \in Sockets, HearLease(s)
    PROVE  /\ s \notin retired' /\ conn[s] # "idle"
           /\ s = cur[PageOf[s]] \/ s = cand[PageOf[s]]
           /\ Head(down[s]) \in Leases(s)
           /\ \A x \in retired' : x \in Sockets => down'[x] = <<>> /\ Leases(x)' = {}
           /\ \A x \in Sockets \ (retired' \cup {s}) :
                    down'[x] = down[x] /\ Leases(x)' = Leases(x)
           /\ down'[s] = Tail(down[s])
           /\ Leases(s) = {Head(down[s])} \cup Leases(s)'
           /\ \A x \in Sockets : Leases(x)' \subseteq Leases(x)
           /\ InOrder(down[s]) => \A n \in Leases(s) : Head(down[s]).gen <= n.gen
           /\ (\A x \in Sockets : InOrder(down[x])) =>
                    \A x \in Sockets : InOrder(down'[x])
  <1> DEFINE p == PageOf[s]
             m == Head(down[s])
  <1>0. p \in Pages BY OwnerIsClient
  <1>1. down[s] \in Seq(ToPage) /\ down[s] # <<>> /\ m.kind = "lease"
    BY DEF TypeOK, HearLease
  <1>2. s \notin retired /\ conn[s] # "idle" /\ (s = cur[p] \/ s = cand[p])
    BY <1>1 DEF SocketsWired
  <1>3. s \notin retired'
    <2>1. CASE cand[p] = s
      <3>1. NoSocket # s /\ cand[p] # NoSocket BY <2>1 DEF LeaseAssumption
      <3>2. cur[p] # s BY <1>0, <2>1, <3>1 DEF SocketsWired
      <3>3. retired' = retired \cup Replaced(p) BY <2>1 DEF HearLease
      <3> QED BY <1>2, <3>2, <3>3 DEF Replaced
    <2>2. CASE cand[p] # s BY <1>2, <2>2 DEF HearLease
    <2> QED BY <2>1, <2>2
  <1>4. down' = [x \in Sockets |-> IF x \in retired' THEN <<>>
                        ELSE IF x = s THEN Tail(down[s]) ELSE down[x]]
    BY DEF HearLease
  <1>5. /\ \A x \in Sockets : x \in retired' => down'[x] = <<>>
        /\ \A x \in Sockets \ (retired' \cup {s}) : down'[x] = down[x]
        /\ down'[s] = Tail(down[s])
    BY <1>3, <1>4
  <1>6. Elems(down[s]) = {m} \cup Elems(down[s])' BY <1>1, <1>5, ElemsTail
  <1>7. Leases(s) = {m} \cup Leases(s)' BY <1>1, <1>6 DEF Leases
  <1>8. \A x \in Sockets : x \in retired' => Leases(x)' = {}
    BY <1>5, ElemsEmpty DEF Leases
  <1>9. \A x \in Sockets \ (retired' \cup {s}) : Leases(x)' = Leases(x)
    BY <1>5 DEF Leases
  <1>10. InOrder(down[s]) =>
            InOrder(down'[s]) /\ \A n \in Leases(s) : m.gen <= n.gen
    BY <1>1, <1>5, OrderTail DEF Leases
  <1>11. (\A x \in Sockets : InOrder(down[x])) =>
            \A x \in Sockets : InOrder(down'[x])
    BY <1>5, <1>10, ElemsEmpty
  <1> QED BY <1>2, <1>3, <1>5, <1>7, <1>8, <1>9, <1>10, <1>11

-----------------------------------------------------------------------------
(* Steps of the broker, which leave the pages and the wire alone.          *)

pageSide == <<down, cur, cand, retired, known, belief>>

\* The lease stays with its holder, or moves under the next generation.
Holds == UNCHANGED <<active, gen>>
Moves == gen' = NextGen

LEMMA WiredByBroker ==
    ASSUME SocketsWired, UNCHANGED <<down, cur, cand, retired>>,
           \A s \in Sockets : conn'[s] = "idle" <=> conn[s] = "idle",
           TypeOK, owed' \subseteq Serving'
    PROVE  SocketsWired'
  <1>1. /\ \A p \in Pages : cur[p] # NoSocket => cur[p] \in Sockets
        /\ \A p \in Pages : cand[p] # NoSocket => cand[p] \in Sockets
    BY DEF TypeOK
  <1> QED BY <1>1 DEF SocketsWired

LEMMA NamedByBroker ==
    ASSUME TypeOK, LeasesNamed, UNCHANGED <<down, known, belief>>, Holds \/ Moves
    PROVE  LeasesNamed'
  <1>1. \A s \in Sockets : Leases(s)' = Leases(s) /\ (InOrder(down[s]))' = InOrder(down[s])
    BY LeasesSame
  <1>2. CASE Holds BY <1>1, <1>2 DEF LeasesNamed, Holds
  <1>3. CASE Moves
    <2>1. gen \in Nat /\ gen' = gen + 1 /\ \A p \in Pages : known[p] \in Nat
      BY <1>3 DEF Moves, NextGen, TypeOK
    <2>2. \A s \in Sockets : \A m \in Leases(s)' : m.gen <= gen' /\ m.gen # gen'
      BY <1>1, <2>1, LeaseFields DEF LeasesNamed
    <2>3. \A p \in Pages : known'[p] <= gen' /\ known'[p] # gen'
      BY <2>1 DEF LeasesNamed
    <2>4. \A s, x \in Sockets : \A m \in Leases(s)', n \in Leases(x)' :
            m.gen = n.gen => m.owner = n.owner
      BY <1>1 DEF LeasesNamed
    <2>5. \A s \in Sockets : \A m \in Leases(s)' : \A p \in Pages :
            m.gen = known'[p] /\ belief'[p] # "unknown" =>
                (m.owner = ClientOf[p] <=> belief'[p] = "active")
      BY <1>1 DEF LeasesNamed
    <2>6. \A s \in Sockets : InOrder(down'[s]) BY <1>1 DEF LeasesNamed
    <2> QED BY <2>2, <2>3, <2>4, <2>5, <2>6 DEF LeasesNamed
  <1> QED BY <1>2, <1>3

LEMMA ToldByBroker ==
    ASSUME LossesTold, UNCHANGED <<down, cur, cand, known, belief>>,
           \A s \in Sockets : Attentive(s)' =>
                Attentive(s) /\ (active' # Owner(s) => active # Owner(s)),
           TypeOK
    PROVE  LossesTold'
  <1>1. \A s \in Sockets : Leases(s)' = Leases(s) BY LeasesSame
  <1>2. \A s \in Sockets : \A g : NewerTold(s, g)' = NewerTold(s, g)
    BY <1>1 DEF NewerTold
  <1>3. \A p \in Pages : cand[p] # NoSocket => cand[p] \in Sockets BY DEF TypeOK
  <1>4. \A s \in Sockets : Owner(s)' = Owner(s) BY DEF Owner
  <1> QED BY <1>1, <1>2, <1>3, <1>4 DEF LossesTold

LEMMA InvConnect ==
    ASSUME LeaseAssumption, LeaseInv, NEW s \in Sockets, Connect(s)
    PROVE  SocketsWired' /\ LeasesNamed' /\ LossesTold' /\ HolderIsConnected'
  <1>1. TypeOK /\ UNCHANGED pageSide /\ UNCHANGED closing
    BY DEF LeaseInv, Connect, pageVars, pageSide
  <1>2. /\ conn[s] = "dialled" /\ Serving' = Serving \cup {s} /\ owed' = owed \cup {s}
        /\ \A x \in Sockets : conn'[x] = "idle" <=> conn[x] = "idle"
    BY <1>1 DEF TypeOK, Connect, Serving
  <1>3. \/ active = NoClient /\ active' = Owner(s) /\ Moves
        \/ active # NoClient /\ Holds
    BY DEF Connect, MoveLease, Moves, Holds
  <1>4. SocketsWired' BY <1>1, <1>2, WiredByBroker DEF LeaseInv, SocketsWired, pageSide
  <1>5. LeasesNamed' BY <1>1, <1>3, NamedByBroker DEF LeaseInv, pageSide
  <1>6. LossesTold'
    <2>1. \A x \in Sockets : Attentive(x)' => Attentive(x)
      BY <1>1, <1>2 DEF Attentive, pageSide
    <2>2. \A x \in Sockets : active' # Owner(x) => active # Owner(x)
      BY <1>3, OwnerIsClient DEF LeaseAssumption, Holds
    <2> QED BY <1>1, <2>1, <2>2, ToldByBroker DEF LeaseInv, pageSide
  <1>7. HolderIsConnected'
    BY <1>2, <1>3 DEF LeaseInv, HolderIsConnected, Holds, Owner
  <1> QED BY <1>4, <1>5, <1>6, <1>7

LEMMA InvStall ==
    ASSUME LeaseInv, NEW s \in Sockets, StallLease(s)
    PROVE  SocketsWired' /\ LeasesNamed' /\ LossesTold' /\ HolderIsConnected'
  <1>1. TypeOK /\ UNCHANGED pageSide /\ Holds /\ UNCHANGED conn
        /\ owed' = owed \ {s} /\ closing' = closing \cup {s} /\ Serving' = Serving
    BY DEF LeaseInv, StallLease, pageVars, leaseVars, pageSide, Holds, Serving
  <1>2. SocketsWired' BY <1>1, WiredByBroker DEF LeaseInv, SocketsWired, pageSide
  <1>3. LeasesNamed' BY <1>1, NamedByBroker DEF LeaseInv, pageSide
  <1>4. \A x \in Sockets : Attentive(x)' => Attentive(x)
    BY <1>1 DEF Attentive, pageSide
  <1>5. LossesTold' BY <1>1, <1>4, ToldByBroker DEF LeaseInv, pageSide, Holds
  <1>6. HolderIsConnected' BY <1>1 DEF LeaseInv, HolderIsConnected, Holds, Owner
  <1> QED BY <1>2, <1>3, <1>5, <1>6

LEMMA InvPing ==
    ASSUME LeaseInv, NEW s \in Sockets, Ping(s)
    PROVE  SocketsWired' /\ LeasesNamed' /\ LossesTold' /\ HolderIsConnected'
  <1>1. TypeOK /\ UNCHANGED pageSide /\ Holds /\ UNCHANGED <<conn, closing>>
        /\ owed' = owed \cup {s} /\ s \in Serving /\ Serving' = Serving
    BY DEF LeaseInv, Ping, pageVars, leaseVars, pageSide, Holds, Serving
  <1>2. SocketsWired' BY <1>1, WiredByBroker DEF LeaseInv, SocketsWired, pageSide
  <1>3. LeasesNamed' BY <1>1, NamedByBroker DEF LeaseInv, pageSide
  <1>4. \A x \in Sockets : Attentive(x)' => Attentive(x)
    BY <1>1 DEF Attentive, pageSide
  <1>5. LossesTold' BY <1>1, <1>4, ToldByBroker DEF LeaseInv, pageSide, Holds
  <1>6. HolderIsConnected' BY <1>1 DEF LeaseInv, HolderIsConnected, Holds, Owner
  <1> QED BY <1>2, <1>3, <1>5, <1>6

LEMMA InvBecome ==
    ASSUME LeaseAssumption, LeaseInv, NEW s \in Sockets, BecomeActive(s)
    PROVE  SocketsWired' /\ LeasesNamed' /\ LossesTold' /\ HolderIsConnected'
  <1>1. TypeOK /\ UNCHANGED pageSide /\ UNCHANGED <<conn, closing>>
        /\ owed' = owed \cup ToldOfTakeover(s) /\ s \in Serving /\ Serving' = Serving
    BY DEF LeaseInv, BecomeActive, pageVars, pageSide, Serving
  <1>2. \/ active # Owner(s) /\ active' = Owner(s) /\ Moves /\ owed' = owed \cup Serving
        \/ active = Owner(s) /\ Holds /\ owed' = owed \cup {s}
    BY <1>1 DEF BecomeActive, MoveLease, Moves, Holds, ToldOfTakeover
  <1>3. SocketsWired'
    BY <1>1, <1>2, WiredByBroker DEF LeaseInv, SocketsWired, pageSide
  <1>4. LeasesNamed' BY <1>1, <1>2, NamedByBroker DEF LeaseInv, pageSide
  <1>5. \A x \in Sockets : Attentive(x)' => Attentive(x) /\ active' = active
    BY <1>1, <1>2 DEF Attentive, pageSide, Holds
  <1>6. LossesTold' BY <1>1, <1>5, ToldByBroker DEF LeaseInv, pageSide
  <1>7. HolderIsConnected'
    BY <1>1, <1>2 DEF LeaseInv, HolderIsConnected, Holds, Owner
  <1> QED BY <1>3, <1>4, <1>6, <1>7

LEMMA InvDisconnect ==
    ASSUME LeaseAssumption, LeaseInv, NEW s \in Sockets, Disconnect(s)
    PROVE  SocketsWired' /\ LeasesNamed' /\ LossesTold' /\ HolderIsConnected'
  <1>1. TypeOK /\ UNCHANGED pageSide /\ UNCHANGED closing /\ s \in Serving
    BY DEF LeaseInv, Disconnect, pageVars, pageSide
  <1>2. /\ Serving' = Serving \ {s}
        /\ \A x \in Sockets : conn'[x] = "idle" <=> conn[x] = "idle"
    BY <1>1 DEF TypeOK, Disconnect, Serving
  <1>3. \/ /\ Frees(s) /\ active' = NoClient /\ Moves
           /\ owed' = (owed \ {s}) \cup (Serving \ {s})
        \/ ~Frees(s) /\ Holds /\ owed' = owed \ {s}
    BY DEF Disconnect, MoveLease, Moves, Holds, ToldOfRelease
  <1>4. owed \subseteq Serving BY DEF LeaseInv, SocketsWired
  <1>5. SocketsWired'
    BY <1>1, <1>2, <1>3, <1>4, WiredByBroker DEF LeaseInv, pageSide
  <1>6. LeasesNamed' BY <1>1, <1>3, NamedByBroker DEF LeaseInv, pageSide
  <1>7. \A x \in Sockets : Attentive(x)' => Attentive(x) /\ active' = active
    BY <1>1, <1>2, <1>3 DEF Attentive, pageSide, Holds
  <1>8. LossesTold' BY <1>1, <1>7, ToldByBroker DEF LeaseInv, pageSide
  <1>9. HolderIsConnected'
    BY <1>2, <1>3 DEF LeaseInv, HolderIsConnected, Holds, Frees, Owner
  <1> QED BY <1>5, <1>6, <1>8, <1>9

\* A status or pong: what is built is the live lease, so it is newer than
\* whatever its socket was told of a holder who lost it.
LEMMA InvSend ==
    ASSUME LeaseAssumption, LeaseInv, NEW s \in Sockets, SendLease(s)
    PROVE  SocketsWired' /\ LeasesNamed' /\ LossesTold' /\ HolderIsConnected'
  <1>1. TypeOK /\ Holds /\ UNCHANGED <<conn, closing, cur, cand, retired, known, belief>>
        /\ owed' = owed \ {s} /\ Serving' = Serving
    BY DEF LeaseInv, SendLease, pageVars, leaseVars, Holds, Serving
  <1>2. down' = Sent(s, LiveLease) /\ LiveLease \in ToPage
        /\ LiveLease.kind = "lease" /\ LiveLease.gen = gen /\ LiveLease.owner = active
    BY <1>1, FramesBuilt DEF SendLease, LiveLease
  <1> DEFINE n == LiveLease
  <1> HIDE DEF n
  <1>3. /\ \A x \in Sockets \ {s} : down'[x] = down[x] /\ Leases(x)' = Leases(x)
        /\ s \in retired => down'[s] = down[s] /\ Leases(s)' = Leases(s)
        /\ s \notin retired => Leases(s)' = Leases(s) \cup {n}
    BY <1>1, <1>2, LeasesSent DEF n
  <1>4. n.gen = gen /\ n.owner = active BY <1>2 DEF n
  <1>5. \A x \in Sockets : \A m \in Leases(x)' : m \in Leases(x) \/ m = n BY <1>3
  <1>6. SocketsWired'
    <2>1. s \in owed /\ s \in Serving BY DEF LeaseInv, SendLease, SocketsWired
    <2>2. conn[s] # "idle" BY <2>1 DEF Serving
    <2>3. /\ \A p \in Pages : cur[p] # NoSocket => cur[p] \in Sockets
          /\ \A p \in Pages : cand[p] # NoSocket => cand[p] \in Sockets
      BY <1>1 DEF TypeOK
    <2>4. \A x \in Sockets : conn[x] = "idle" \/ x \in retired => down'[x] = <<>>
      BY <1>3, <2>2 DEF LeaseInv, SocketsWired
    <2> QED BY <1>1, <2>3, <2>4 DEF LeaseInv, SocketsWired
  <1>7. LeasesNamed'
    <2>1. LeasesNamed BY DEF LeaseInv
    <2>2. gen \in Nat /\ \A x \in Sockets : \A m \in Leases(x) : m.gen \in Nat
      BY <1>1, LeaseFields DEF TypeOK
    <2>3. \A x \in Sockets : \A m \in Leases(x)' :
            m.gen <= gen' /\ (m.gen = gen' => m.owner = active')
      BY <1>1, <1>4, <1>5, <2>1, <2>2 DEF LeasesNamed, Holds
    <2>4. \A p \in Pages : known'[p] <= gen'
            /\ (known'[p] = gen' /\ belief'[p] # "unknown" =>
                    (active' = ClientOf[p] <=> belief'[p] = "active"))
      BY <1>1, <2>1 DEF LeasesNamed, Holds
    <2>5. \A x, y \in Sockets : \A m \in Leases(x)', k \in Leases(y)' :
            m.gen = k.gen => m.owner = k.owner
      BY <1>4, <1>5, <2>1 DEF LeasesNamed
    <2>6. \A x \in Sockets : \A m \in Leases(x)' : \A p \in Pages :
            m.gen = known'[p] /\ belief'[p] # "unknown" =>
                (m.owner = ClientOf[p] <=> belief'[p] = "active")
      BY <1>1, <1>4, <1>5, <2>1 DEF LeasesNamed
    <2>7. \A x \in Sockets : InOrder(down'[x])
      BY <1>1, <1>2, <2>1, OrderSent DEF LeasesNamed
    <2> QED BY <2>3, <2>4, <2>5, <2>6, <2>7 DEF LeasesNamed
  <1>8. LossesTold'
    <2>1. LeasesNamed /\ LossesTold BY DEF LeaseInv
    <2>2. \A x \in Sockets : Attentive(x)' =>
            Attentive(x) \/ (x = s /\ Leases(s)' = Leases(s) \cup {n})
      BY <1>1, <1>3 DEF Attentive
    <2>3. \A x \in Sockets : Leases(x) \subseteq Leases(x)' BY <1>3
    <2>4. \A x \in Sockets : \A g : NewerTold(x, g) => NewerTold(x, g)'
      BY <2>3 DEF NewerTold
    <2>5. \A x \in Sockets : Owner(x)' = Owner(x) BY DEF Owner
    <2>6. \A p \in Pages : cand'[p] # NoSocket /\ Attentive(cand[p])'
                => Leases(cand[p])' # {}
      <3>1. \A p \in Pages : cand[p] # NoSocket => cand[p] \in Sockets
        BY <1>1 DEF TypeOK
      <3> QED BY <1>1, <2>1, <2>2, <2>3, <3>1 DEF LossesTold
    <2>7. ASSUME NEW y \in Sockets, NEW x \in Sockets, NEW m \in Leases(x)',
                 Attentive(y)', Leases(y)' # {}, m.owner = Owner(y), active # Owner(y)
          PROVE  NewerTold(y, m.gen)'
      <3>1. m \in Leases(x) BY <1>4, <1>5, <2>7
      <3>2. CASE y = s /\ Leases(s)' = Leases(s) \cup {n}
        <4>1. m.gen \in Nat /\ m.gen <= gen /\ m.gen # gen
          BY <1>1, <2>1, <2>7, <3>1, LeaseFields DEF LeasesNamed
        <4>2. n.gen > m.gen BY <1>1, <1>4, <4>1 DEF TypeOK
        <4> QED BY <3>2, <4>2 DEF NewerTold
      <3>3. CASE Attentive(y) /\ ~(y = s /\ Leases(s)' = Leases(s) \cup {n})
        <4>1. Leases(y)' = Leases(y) BY <1>3, <3>3
        <4>2. NewerTold(y, m.gen) BY <2>1, <2>7, <3>1, <3>3, <4>1 DEF LossesTold
        <4> QED BY <2>4, <4>2
      <3> QED BY <2>2, <2>7, <3>2, <3>3
    <2>8. ASSUME NEW y \in Sockets, Attentive(y)',
                 y \in {cur[PageOf[y]], cand[PageOf[y]]},
                 belief[PageOf[y]] = "active", active # Owner(y)
          PROVE  NewerTold(y, known[PageOf[y]])'
      <3>1. CASE Attentive(y) BY <2>1, <2>4, <2>8, <3>1, <1>1 DEF LossesTold
      <3>2. CASE y = s /\ Leases(s)' = Leases(s) \cup {n}
        <4>1. PageOf[y] \in Pages /\ Owner(y) = ClientOf[PageOf[y]] BY OwnerIsClient
        <4>2. known[PageOf[y]] \in Nat /\ known[PageOf[y]] <= gen
              /\ known[PageOf[y]] # gen
          BY <1>1, <2>1, <2>8, <4>1 DEF LeasesNamed, TypeOK
        <4>3. n.gen > known[PageOf[y]] BY <1>1, <1>4, <4>2 DEF TypeOK
        <4> QED BY <1>1, <3>2, <4>3 DEF NewerTold
      <3> QED BY <2>2, <2>8, <3>1, <3>2
    <2> QED BY <1>1, <2>5, <2>6, <2>7, <2>8 DEF LossesTold, Holds
  <1>9. HolderIsConnected' BY <1>1 DEF LeaseInv, HolderIsConnected, Holds, Owner
  <1> QED BY <1>6, <1>7, <1>8, <1>9

-----------------------------------------------------------------------------
(* Steps of the pages and of the relay.                                    *)

\* Whatever leaves the leases on the wire, the broker and the page's sockets
\* and belief alone keeps the invariant.
LEMMA InvAside ==
    ASSUME LeaseInv, UNCHANGED <<active, gen, conn, owed, cur, cand, retired,
                                 known, belief>>,
           closing \subseteq closing',
           \A x \in Sockets : Leases(x)' = Leases(x),
           \A x \in Sockets : down[x] = <<>> => \/ down'[x] = <<>>
                                  \/ (conn[x] # "idle" /\ x \notin retired),
           \A x \in Sockets : InOrder(down'[x])
    PROVE  SocketsWired' /\ LeasesNamed' /\ LossesTold' /\ HolderIsConnected'
  <1>1. /\ \A p \in Pages : cur[p] # NoSocket => cur[p] \in Sockets
        /\ \A p \in Pages : cand[p] # NoSocket => cand[p] \in Sockets
    BY DEF LeaseInv, TypeOK
  <1>2. Serving' = Serving BY DEF Serving
  <1>3. SocketsWired' BY <1>1, <1>2 DEF LeaseInv, SocketsWired
  <1>4. LeasesNamed' BY DEF LeaseInv, LeasesNamed
  <1>5. \A x \in Sockets : Attentive(x)' => Attentive(x) BY <1>2 DEF Attentive
  <1>6. \A x \in Sockets : \A g : NewerTold(x, g)' = NewerTold(x, g) BY DEF NewerTold
  <1>7. LossesTold'
    BY <1>1, <1>5, <1>6 DEF LeaseInv, LossesTold, Owner
  <1>8. HolderIsConnected' BY <1>2 DEF LeaseInv, HolderIsConnected, Owner
  <1> QED BY <1>3, <1>4, <1>7, <1>8

LEMMA InvSame ==
    ASSUME LeaseInv, UNCHANGED <<active, gen, conn, owed, closing, down, cur, cand,
                                 retired, known, belief>>
    PROVE  SocketsWired' /\ LeasesNamed' /\ LossesTold' /\ HolderIsConnected'
  <1>1. \A x \in Sockets : InOrder(down'[x]) BY DEF LeaseInv, LeasesNamed
  <1> QED BY <1>1, InvAside, LeasesSame

LEMMA InvTry ==
    ASSUME LeaseInv, NEW r \in Calls, NEW s \in Sockets, TrySocket(r, s)
    PROVE  SocketsWired' /\ LeasesNamed' /\ LossesTold' /\ HolderIsConnected'
  <1> DEFINE m == [kind |-> "rpc", rid |-> r, gen |-> call[r].gen]
  <1>1. UNCHANGED <<active, gen, conn, owed, cur, cand, retired, known, belief>>
        /\ closing \subseteq closing'
    BY DEF TrySocket, leaseVars, pageVars
  <1>2. \A x \in Sockets : InOrder(down[x]) BY DEF LeaseInv, LeasesNamed
  <1>3. CASE UNCHANGED down
    BY <1>1, <1>2, <1>3, InvAside, LeasesSame
  <1>4. CASE down' = Sent(s, m) /\ conn[s] = "serving"
    <2>1. TypeOK /\ call[r] \in CallRecord BY DEF LeaseInv, TypeOK
    <2>2. m \in ToPage /\ m.kind # "lease" BY <2>1, CallFields, FramesBuilt
    <2> HIDE DEF m
    <2>3. \A x \in Sockets : Leases(x)' = Leases(x)
      BY <1>4, <2>1, <2>2, LeasesSent
    <2>4. \A x \in Sockets : down[x] = <<>> => \/ down'[x] = <<>>
                                  \/ (conn[x] # "idle" /\ x \notin retired)
      BY <1>4, <2>1, <2>2, LeasesSent
    <2>5. \A x \in Sockets : InOrder(down'[x])
      BY <1>2, <1>4, <2>1, <2>2, OrderSent
    <2> QED BY <1>1, <2>3, <2>4, <2>5, InvAside
  <1>5. UNCHANGED down \/ (down' = Sent(s, m) /\ conn[s] = "serving")
    BY DEF TrySocket, Serving
  <1> QED BY <1>3, <1>4, <1>5

LEMMA InvHearRpc ==
    ASSUME LeaseInv, NEW s \in Sockets, HearRpc(s)
    PROVE  SocketsWired' /\ LeasesNamed' /\ LossesTold' /\ HolderIsConnected'
  <1>1. UNCHANGED <<active, gen, conn, owed, closing, cur, cand, retired, known, belief>>
    BY DEF HearRpc, leaseVars, brokerVars, pageVars
  <1>2. TypeOK /\ \A x \in Sockets : InOrder(down[x]) BY DEF LeaseInv, LeasesNamed
  <1> QED BY <1>1, <1>2, LeasesHeardRpc, InvAside

LEMMA InvDial ==
    ASSUME LeaseAssumption, LeaseInv, NEW s \in Sockets, Dial(s)
    PROVE  SocketsWired' /\ LeasesNamed' /\ LossesTold' /\ HolderIsConnected'
  <1> DEFINE p == PageOf[s]
  <1>1. TypeOK /\ UNCHANGED <<active, gen, owed, closing, down, retired, known, belief>>
        /\ p \in Pages /\ conn[s] = "idle" /\ s # NoSocket
    BY OwnerIsClient DEF LeaseInv, Dial, leaseVars, LeaseAssumption
  <1>2. /\ conn'[s] = "dialled" /\ \A x \in Sockets \ {s} : conn'[x] = conn[x]
        /\ Serving' = Serving
    BY <1>1 DEF Dial, TypeOK, Serving
  <1>3. cand[p] = NoSocket BY DEF Dial
  <1>4. \/ cur[p] = NoSocket /\ cur' = [cur EXCEPT ![p] = s] /\ cand' = cand
        \/ cand' = [cand EXCEPT ![p] = s] /\ cur' = cur
    BY DEF Dial
  <1>5. /\ \A q \in Pages : cur[q] # NoSocket => cur[q] \in Sockets
        /\ \A q \in Pages : cand[q] # NoSocket => cand[q] \in Sockets
        /\ cur \in [Pages -> Sockets \cup {NoSocket}]
        /\ cand \in [Pages -> Sockets \cup {NoSocket}]
    BY <1>1 DEF TypeOK
  <1>6. SocketsWired /\ LeasesNamed /\ LossesTold BY DEF LeaseInv
  <1>7. s \notin retired /\ \A q \in Pages : cur[q] # s /\ cand[q] # s
    BY <1>1, <1>6 DEF SocketsWired
  <1>8. /\ \A q \in Pages \ {p} : cur'[q] = cur[q] /\ cand'[q] = cand[q]
        /\ \/ cur[p] = NoSocket /\ cur'[p] = s /\ cand'[p] = NoSocket
           \/ cur'[p] = cur[p] /\ cand'[p] = s
    BY <1>1, <1>3, <1>4, <1>5
  <1>9. SocketsWired'
    <2>1. \A q \in Pages : cur'[q] # NoSocket =>
            PageOf[cur'[q]] = q /\ cur'[q] \notin retired' /\ conn'[cur'[q]] # "idle"
      BY <1>1, <1>2, <1>5, <1>6, <1>7, <1>8 DEF SocketsWired
    <2>2. \A q \in Pages : cand'[q] # NoSocket =>
            /\ PageOf[cand'[q]] = q /\ cand'[q] \notin retired'
            /\ conn'[cand'[q]] # "idle" /\ cand'[q] # cur'[q]
      BY <1>1, <1>2, <1>5, <1>6, <1>7, <1>8 DEF SocketsWired
    <2>3. ASSUME NEW x \in Sockets, conn'[x] # "idle"
          PROVE  x = cur'[PageOf[x]] \/ x = cand'[PageOf[x]] \/ x \in retired'
      <3>1. CASE x = s BY <1>8, <3>1
      <3>2. CASE x # s
        <4>1. PageOf[x] \in Pages BY OwnerIsClient
        <4>2. x = cur[PageOf[x]] \/ x = cand[PageOf[x]] \/ x \in retired
          BY <1>2, <1>6, <2>3, <3>2 DEF SocketsWired
        <4>3. x # NoSocket BY DEF LeaseAssumption
        <4> QED BY <1>1, <1>3, <1>8, <4>1, <4>2, <4>3
      <3> QED BY <3>1, <3>2
    <2>4. \A x \in Sockets : conn'[x] = "idle" => x \notin retired'
      BY <1>1, <1>2, <1>6 DEF SocketsWired
    <2>5. \A x \in Sockets : conn'[x] = "idle" \/ x \in retired' => down'[x] = <<>>
      BY <1>1, <1>2, <1>6 DEF SocketsWired
    <2>6. owed' \subseteq Serving' BY <1>1, <1>2, <1>6 DEF SocketsWired
    <2> QED BY <2>1, <2>2, <2>3, <2>4, <2>5, <2>6 DEF SocketsWired
  <1>10. LeasesNamed' BY <1>1, <1>6, NamedByBroker DEF Holds
  <1>11. LossesTold'
    <2>1. /\ \A x \in Sockets : Leases(x)' = Leases(x)
          /\ \A x \in Sockets : \A g : NewerTold(x, g)' = NewerTold(x, g)
      BY <1>1, LeasesSame DEF NewerTold
    <2>2. \A x \in Sockets : Attentive(x)' <=> Attentive(x)
      BY <1>1, <1>2 DEF Attentive
    <2>3. ~Attentive(s) BY <1>1 DEF Attentive, Serving
    <2>4. \A q \in Pages : cand'[q] # NoSocket /\ Attentive(cand[q])'
            => Leases(cand[q])' # {}
      <3>1. SUFFICES ASSUME NEW q \in Pages, cand'[q] # NoSocket, Attentive(cand'[q])
                     PROVE  Leases(cand'[q]) # {}
        <4>1. \A q \in Pages : cand'[q] # NoSocket => cand'[q] \in Sockets
          BY <1>5, <1>8
        <4> QED BY <3>1, <4>1, <2>1, <2>2, <1>1, <1>2 DEF Attentive, Leases
      <3>2. q # p \/ cand'[p] # s BY <2>3, <3>1
      <3>3. cand'[q] = cand[q] BY <1>3, <1>8, <3>1, <3>2
      <3> QED BY <1>6, <3>1, <3>3 DEF LossesTold
    <2>5. \A y, x \in Sockets : \A m \in Leases(x)' :
            /\ Attentive(y)' /\ Leases(y)' # {}
            /\ m.owner = Owner(y) /\ active' # Owner(y)
            => NewerTold(y, m.gen)'
      BY <1>1, <1>6, <2>1, <2>2 DEF LossesTold
    <2>6. \A y \in Sockets :
            /\ Attentive(y)' /\ y \in {cur'[PageOf[y]], cand'[PageOf[y]]}
            /\ belief'[PageOf[y]] = "active" /\ active' # Owner(y)
            => NewerTold(y, known[PageOf[y]])'
      <3>1. SUFFICES ASSUME NEW y \in Sockets, Attentive(y),
                            y \in {cur'[PageOf[y]], cand'[PageOf[y]]},
                            belief[PageOf[y]] = "active", active # Owner(y)
                     PROVE  NewerTold(y, known[PageOf[y]])
        BY <1>1, <2>1, <2>2
      <3>2. y # s /\ PageOf[y] \in Pages /\ y # NoSocket
        BY <2>3, <3>1, OwnerIsClient DEF LeaseAssumption
      <3>3. y \in {cur[PageOf[y]], cand[PageOf[y]]} BY <1>8, <3>1, <3>2
      <3> QED BY <1>6, <3>1, <3>3 DEF LossesTold
    <2>7. \A x \in Sockets : Owner(x)' = Owner(x) BY DEF Owner
    <2> QED BY <2>4, <2>5, <2>6, <2>7 DEF LossesTold
  <1>12. HolderIsConnected'
    BY <1>1, <1>2 DEF LeaseInv, HolderIsConnected, Owner
  <1> QED BY <1>9, <1>10, <1>11, <1>12

LEMMA InvGone ==
    ASSUME LeaseAssumption, LeaseInv, NEW s \in Sockets, SocketGone(s)
    PROVE  SocketsWired' /\ LeasesNamed' /\ LossesTold' /\ HolderIsConnected'
  <1> DEFINE p == PageOf[s]
  <1>1. TypeOK /\ UNCHANGED <<active, gen, conn, owed, closing, known, belief>>
        /\ p \in Pages /\ s # NoSocket /\ s \in {cur[p], cand[p]}
        /\ retired' = retired \cup {s}
    BY OwnerIsClient DEF LeaseInv, SocketGone, leaseVars, brokerVars, LeaseAssumption
  <1>2. SocketsWired /\ LeasesNamed /\ LossesTold BY DEF LeaseInv
  <1>3. /\ \A x \in Sockets \ {s} : down'[x] = down[x] /\ Leases(x)' = Leases(x)
        /\ down'[s] = <<>> /\ Leases(s)' = {}
    BY <1>1, LeasesGone DEF SocketGone
  <1>4. /\ \A q \in Pages : cur[q] # NoSocket => cur[q] \in Sockets
        /\ \A q \in Pages : cand[q] # NoSocket => cand[q] \in Sockets
        /\ cur \in [Pages -> Sockets \cup {NoSocket}]
        /\ cand \in [Pages -> Sockets \cup {NoSocket}]
    BY <1>1 DEF TypeOK
  <1>5. /\ cur' = [cur EXCEPT ![p] = IF @ = s THEN NoSocket ELSE @]
        /\ cand' = [cand EXCEPT ![p] = IF @ = s THEN NoSocket ELSE @]
    BY DEF SocketGone
  <1>6. /\ \A q \in Pages : cur'[q] = cur[q] \/ (q = p /\ cur[p] = s /\ cur'[q] = NoSocket)
        /\ \A q \in Pages : cand'[q] = cand[q] \/ (q = p /\ cand[p] = s /\ cand'[q] = NoSocket)
        /\ cur'[p] # s /\ cand'[p] # s
    BY <1>1, <1>4, <1>5
  <1>7. conn[s] # "idle"
    BY <1>1, <1>2 DEF SocketsWired
  <1>8. \A q \in Pages : (cur'[q] # NoSocket => cur'[q] # s)
                      /\ (cand'[q] # NoSocket => cand'[q] # s)
    BY <1>1, <1>2, <1>6 DEF SocketsWired
  <1>9. SocketsWired'
    <2>1. \A q \in Pages : cur'[q] # NoSocket =>
            PageOf[cur'[q]] = q /\ cur'[q] \notin retired' /\ conn'[cur'[q]] # "idle"
      BY <1>1, <1>2, <1>6, <1>8 DEF SocketsWired
    <2>2. \A q \in Pages : cand'[q] # NoSocket =>
            /\ PageOf[cand'[q]] = q /\ cand'[q] \notin retired'
            /\ conn'[cand'[q]] # "idle" /\ cand'[q] # cur'[q]
      BY <1>1, <1>2, <1>6, <1>8 DEF SocketsWired
    <2>3. \A x \in Sockets : conn'[x] # "idle" =>
            x = cur'[PageOf[x]] \/ x = cand'[PageOf[x]] \/ x \in retired'
      BY <1>1, <1>2, <1>6, OwnerIsClient DEF SocketsWired
    <2>4. \A x \in Sockets : conn'[x] = "idle" => x \notin retired'
      BY <1>1, <1>2, <1>7 DEF SocketsWired
    <2>5. \A x \in Sockets : conn'[x] = "idle" \/ x \in retired' => down'[x] = <<>>
      BY <1>1, <1>2, <1>3 DEF SocketsWired
    <2>6. owed' \subseteq Serving' BY <1>1, <1>2 DEF SocketsWired, Serving
    <2> QED BY <2>1, <2>2, <2>3, <2>4, <2>5, <2>6 DEF SocketsWired
  <1>10. \A x \in Sockets : Leases(x)' \subseteq Leases(x) BY <1>3
  <1>11. LeasesNamed'
    <2>1. \A x \in Sockets : InOrder(down'[x])
      BY <1>2, <1>3, ElemsEmpty DEF LeasesNamed
    <2>2. \A x \in Sockets : \A m \in Leases(x)' : m \in Leases(x) BY <1>10
    <2> QED BY <1>1, <1>2, <2>1, <2>2 DEF LeasesNamed
  <1>12. LossesTold'
    <2>1. \A x \in Sockets : Attentive(x)' => Attentive(x) /\ x # s
      BY <1>1 DEF Attentive, Serving
    <2>2. \A x \in Sockets \ {s} : \A g : NewerTold(x, g)' = NewerTold(x, g)
      BY <1>3 DEF NewerTold
    <2>3. \A x \in Sockets : Owner(x)' = Owner(x) BY DEF Owner
    <2>4. \A q \in Pages : cand'[q] # NoSocket /\ Attentive(cand[q])'
            => Leases(cand[q])' # {}
      <3> SUFFICES ASSUME NEW q \in Pages, cand'[q] # NoSocket, Attentive(cand[q])'
                   PROVE  Leases(cand[q])' # {}
        OBVIOUS
      <3>1. cand'[q] = cand[q] /\ cand[q] \in Sockets /\ cand[q] # s
        BY <1>4, <1>6, <1>8
      <3>2. Attentive(cand[q]) BY <1>1, <3>1 DEF Attentive, Serving
      <3>3. Leases(cand[q]) # {} BY <1>2, <3>1, <3>2 DEF LossesTold
      <3>4. Leases(cand[q])' = Leases(cand[q]) BY <1>3, <3>1 DEF Leases
      <3> QED BY <3>3, <3>4
    <2>5. \A y, x \in Sockets : \A m \in Leases(x)' :
            /\ Attentive(y)' /\ Leases(y)' # {}
            /\ m.owner = Owner(y) /\ active' # Owner(y)
            => NewerTold(y, m.gen)'
      BY <1>1, <1>2, <1>10, <2>1, <2>2 DEF LossesTold
    <2>6. \A y \in Sockets :
            /\ Attentive(y)' /\ y \in {cur'[PageOf[y]], cand'[PageOf[y]]}
            /\ belief'[PageOf[y]] = "active" /\ active' # Owner(y)
            => NewerTold(y, known[PageOf[y]])'
      <3> SUFFICES ASSUME NEW y \in Sockets, Attentive(y)',
                          y \in {cur'[PageOf[y]], cand'[PageOf[y]]},
                          belief'[PageOf[y]] = "active", active' # Owner(y)
                   PROVE  NewerTold(y, known[PageOf[y]])'
        OBVIOUS
      <3>1. Attentive(y) /\ y # s /\ PageOf[y] \in Pages /\ y # NoSocket
        BY <2>1, OwnerIsClient DEF LeaseAssumption
      <3>2. y \in {cur[PageOf[y]], cand[PageOf[y]]} BY <1>6, <3>1
      <3>3. NewerTold(y, known[PageOf[y]]) BY <1>1, <1>2, <3>1, <3>2 DEF LossesTold
      <3> QED BY <1>1, <2>2, <3>1, <3>3
    <2> QED BY <2>3, <2>4, <2>5, <2>6 DEF LossesTold
  <1>13. HolderIsConnected'
    BY <1>1 DEF LeaseInv, HolderIsConnected, Owner, Serving
  <1> QED BY <1>9, <1>11, <1>12, <1>13

\* What HearLease does to the page that hears.
LEMMA HeardPage ==
    ASSUME LeaseAssumption, LeaseInv, NEW s \in Sockets, HearLease(s)
    PROVE  LET p == PageOf[s]
               m == Head(down[s])
           IN
           /\ p \in Pages /\ s # NoSocket /\ s # cand'[p]
           /\ UNCHANGED <<active, gen, conn, owed, closing>>
           /\ m \in Lease /\ m.gen \in Nat
           /\ \A q \in Pages \ {p} : /\ cur'[q] = cur[q] /\ cand'[q] = cand[q]
                                     /\ known'[q] = known[q] /\ belief'[q] = belief[q]
           /\ \/ /\ m.gen >= known[p] /\ known'[p] = m.gen
                 /\ belief'[p] = IF m.owner = ClientOf[p] THEN "active" ELSE "inactive"
              \/ m.gen < known[p] /\ known'[p] = known[p] /\ belief'[p] = belief[p]
           /\ \/ /\ cand[p] = s /\ cur[p] # s /\ cur'[p] = s /\ cand'[p] = NoSocket
                 /\ retired' = retired \cup ({cur[p]} \ {NoSocket})
              \/ /\ cand[p] # s /\ cur[p] = s /\ cur'[p] = s /\ cand'[p] = cand[p]
                 /\ retired' = retired
  <1> DEFINE p == PageOf[s]
             m == Head(down[s])
  <1>1. p \in Pages /\ s # NoSocket /\ TypeOK /\ SocketsWired
    BY OwnerIsClient DEF LeaseAssumption, LeaseInv
  <1>2. UNCHANGED <<active, gen, conn, owed, closing>>
    BY DEF HearLease, leaseVars, brokerVars
  <1>3. s = cur[p] \/ s = cand[p] BY <1>1, LeasesHeard
  <1>4. m \in Lease /\ m.gen \in Nat
    <2>1. m \in Leases(s) BY <1>1, LeasesHeard
    <2> QED BY <1>1, <2>1, LeaseFields
  <1>5. \/ /\ cand[p] = s /\ cur' = [cur EXCEPT ![p] = s]
           /\ cand' = [cand EXCEPT ![p] = NoSocket]
           /\ retired' = retired \cup ({cur[p]} \ {NoSocket})
        \/ cand[p] # s /\ UNCHANGED <<cur, cand, retired>>
    BY DEF HearLease, Replaced
  <1>6. cand[p] = s => cur[p] # s BY <1>1 DEF SocketsWired
  <1>7. \/ /\ m.gen >= known[p] /\ known' = [known EXCEPT ![p] = m.gen]
           /\ belief' = [belief EXCEPT ![p] =
                    IF m.owner = ClientOf[p] THEN "active" ELSE "inactive"]
        \/ ~(m.gen >= known[p]) /\ UNCHANGED <<known, belief>>
    BY DEF HearLease, IsNews
  <1> HIDE DEF m, p
  <1>8. /\ \A q \in Pages \ {p} : known'[q] = known[q] /\ belief'[q] = belief[q]
        /\ \/ /\ m.gen >= known[p] /\ known'[p] = m.gen
              /\ belief'[p] = IF m.owner = ClientOf[p] THEN "active" ELSE "inactive"
           \/ m.gen < known[p] /\ known'[p] = known[p] /\ belief'[p] = belief[p]
    BY <1>1, <1>4, <1>7 DEF TypeOK
  <1>9. /\ \A q \in Pages \ {p} : cur'[q] = cur[q] /\ cand'[q] = cand[q]
        /\ \/ /\ cand[p] = s /\ cur[p] # s /\ cur'[p] = s /\ cand'[p] = NoSocket
              /\ retired' = retired \cup ({cur[p]} \ {NoSocket})
           \/ /\ cand[p] # s /\ cur[p] = s /\ cur'[p] = s /\ cand'[p] = cand[p]
              /\ retired' = retired
    BY <1>1, <1>3, <1>5, <1>6 DEF TypeOK
  <1>10. s # cand'[p] BY <1>1, <1>9
  <1> QED BY <1>1, <1>2, <1>4, <1>8, <1>9, <1>10 DEF m, p

\* A page hears a lease.  A lost lease it hears is followed by a newer one, on
\* this socket and on the other; an older one than it knows is not news.
LEMMA InvHearLease ==
    ASSUME LeaseAssumption, LeaseInv, NEW s \in Sockets, HearLease(s)
    PROVE  SocketsWired' /\ LeasesNamed' /\ LossesTold' /\ HolderIsConnected'
  <1> DEFINE p == PageOf[s]
             m == Head(down[s])
  <1>1. /\ TypeOK /\ p \in Pages /\ s # NoSocket
        /\ UNCHANGED <<active, gen, conn, owed, closing>>
        /\ m.gen \in Nat
    BY HeardPage DEF LeaseInv
  <1>2. SocketsWired /\ LeasesNamed /\ LossesTold BY DEF LeaseInv
  <1>3. \A q \in Pages \ {p} : /\ cur'[q] = cur[q] /\ cand'[q] = cand[q]
                               /\ known'[q] = known[q] /\ belief'[q] = belief[q]
    BY HeardPage
  <1>4. \/ /\ m.gen >= known[p] /\ known'[p] = m.gen
           /\ belief'[p] = IF m.owner = ClientOf[p] THEN "active" ELSE "inactive"
        \/ m.gen < known[p] /\ known'[p] = known[p] /\ belief'[p] = belief[p]
    BY HeardPage
  <1>5. \/ /\ cand[p] = s /\ cur[p] # s /\ cur'[p] = s /\ cand'[p] = NoSocket
           /\ retired' = retired \cup ({cur[p]} \ {NoSocket})
        \/ /\ cand[p] # s /\ cur[p] = s /\ cur'[p] = s /\ cand'[p] = cand[p]
           /\ retired' = retired
    BY HeardPage
  <1>6. /\ s \notin retired' /\ conn[s] # "idle"
        /\ m \in Leases(s)
        /\ \A x \in retired' : x \in Sockets => down'[x] = <<>> /\ Leases(x)' = {}
        /\ \A x \in Sockets \ (retired' \cup {s}) :
                down'[x] = down[x] /\ Leases(x)' = Leases(x)
        /\ Leases(s) = {m} \cup Leases(s)'
        /\ \A x \in Sockets : Leases(x)' \subseteq Leases(x)
        /\ \A n \in Leases(s) : m.gen <= n.gen
        /\ \A x \in Sockets : InOrder(down'[x])
    BY <1>1, <1>2, LeasesHeard DEF LeasesNamed
  <1>7. /\ \A q \in Pages : cur[q] # NoSocket => cur[q] \in Sockets
        /\ \A q \in Pages : cand[q] # NoSocket => cand[q] \in Sockets
    BY <1>1 DEF TypeOK
  <1> HIDE DEF m, p
  <1>8. retired \subseteq retired' BY <1>5
  <1>9. /\ PageOf[s] = p /\ ClientOf[p] = Owner(s)
        /\ \A x \in Sockets : PageOf[x] \in Pages /\ Owner(x) = ClientOf[PageOf[x]]
    BY OwnerIsClient DEF p
  <1>10. SocketsWired'
    <2>1. \A x \in retired' \ retired : x = cur[p] /\ x # NoSocket /\ x \in Sockets
      BY <1>1, <1>5, <1>7
    <2>2. \A q \in Pages \ {p} : /\ cur[q] # NoSocket => cur[q] \notin retired'
                                 /\ cand[q] # NoSocket => cand[q] \notin retired'
      BY <1>1, <1>2, <2>1 DEF SocketsWired
    <2>3. \A q \in Pages : cur'[q] # NoSocket =>
            PageOf[cur'[q]] = q /\ cur'[q] \notin retired' /\ conn'[cur'[q]] # "idle"
      <3> SUFFICES ASSUME NEW q \in Pages, cur'[q] # NoSocket
                   PROVE  PageOf[cur'[q]] = q /\ cur'[q] \notin retired'
                          /\ conn'[cur'[q]] # "idle"
        OBVIOUS
      <3>1. CASE q = p BY <1>1, <1>5, <1>6, <1>9, <3>1
      <3>2. CASE q # p BY <1>1, <1>2, <1>3, <2>2, <3>2 DEF SocketsWired
      <3> QED BY <3>1, <3>2
    <2>4. \A q \in Pages : cand'[q] # NoSocket =>
            /\ PageOf[cand'[q]] = q /\ cand'[q] \notin retired'
            /\ conn'[cand'[q]] # "idle" /\ cand'[q] # cur'[q]
      <3> SUFFICES ASSUME NEW q \in Pages, cand'[q] # NoSocket
                   PROVE  /\ PageOf[cand'[q]] = q /\ cand'[q] \notin retired'
                          /\ conn'[cand'[q]] # "idle" /\ cand'[q] # cur'[q]
        OBVIOUS
      <3>1. CASE q = p BY <1>1, <1>2, <1>5, <3>1 DEF SocketsWired
      <3>2. CASE q # p BY <1>1, <1>2, <1>3, <2>2, <3>2 DEF SocketsWired
      <3> QED BY <3>1, <3>2
    <2>5. \A x \in Sockets : conn'[x] # "idle" =>
            x = cur'[PageOf[x]] \/ x = cand'[PageOf[x]] \/ x \in retired'
      <3> SUFFICES ASSUME NEW x \in Sockets, conn[x] # "idle"
                   PROVE  x = cur'[PageOf[x]] \/ x = cand'[PageOf[x]] \/ x \in retired'
        BY <1>1
      <3>1. x = cur[PageOf[x]] \/ x = cand[PageOf[x]] \/ x \in retired
        BY <1>2 DEF SocketsWired
      <3>2. x # NoSocket BY DEF LeaseAssumption
      <3>3. CASE PageOf[x] = p BY <1>5, <1>8, <3>1, <3>2, <3>3
      <3>4. CASE PageOf[x] # p BY <1>3, <1>8, <1>9, <3>1, <3>4
      <3> QED BY <3>3, <3>4
    <2>6. \A x \in Sockets : conn'[x] = "idle" => x \notin retired'
      BY <1>1, <1>2, <2>1 DEF SocketsWired
    <2>7. \A x \in Sockets : conn'[x] = "idle" \/ x \in retired' => down'[x] = <<>>
      BY <1>1, <1>2, <1>6, <2>6 DEF SocketsWired
    <2>8. owed' \subseteq Serving' BY <1>1, <1>2 DEF SocketsWired, Serving
    <2> QED BY <2>3, <2>4, <2>5, <2>6, <2>7, <2>8 DEF SocketsWired
  <1>11. LeasesNamed'
    <2>1. gen \in Nat /\ \A q \in Pages : known[q] \in Nat BY <1>1 DEF TypeOK
    <2>2. m.gen <= gen /\ (m.gen = gen => m.owner = active)
      BY <1>2, <1>6 DEF LeasesNamed
    <2>3. \A x \in Sockets : \A n \in Leases(x)' : n \in Leases(x) BY <1>6
    <2>4. \A x \in Sockets : \A n \in Leases(x)' :
            n.gen <= gen' /\ (n.gen = gen' => n.owner = active')
      BY <1>1, <1>2, <2>3 DEF LeasesNamed
    <2>5. \A q \in Pages : known'[q] <= gen'
            /\ (known'[q] = gen' /\ belief'[q] # "unknown" =>
                    (active' = ClientOf[q] <=> belief'[q] = "active"))
      <3> SUFFICES ASSUME NEW q \in Pages
                   PROVE  known'[q] <= gen
                          /\ (known'[q] = gen /\ belief'[q] # "unknown" =>
                                (active = ClientOf[q] <=> belief'[q] = "active"))
        BY <1>1
      <3>1. CASE q = p BY <1>2, <1>4, <2>2, <3>1 DEF LeasesNamed
      <3>2. CASE q # p BY <1>2, <1>3, <3>2 DEF LeasesNamed
      <3> QED BY <3>1, <3>2
    <2>6. \A x, y \in Sockets : \A n \in Leases(x)', k \in Leases(y)' :
            n.gen = k.gen => n.owner = k.owner
      BY <1>2, <2>3 DEF LeasesNamed
    <2>7. \A x \in Sockets : \A n \in Leases(x)' : \A q \in Pages :
            n.gen = known'[q] /\ belief'[q] # "unknown" =>
                (n.owner = ClientOf[q] <=> belief'[q] = "active")
      <3> SUFFICES ASSUME NEW x \in Sockets, NEW n \in Leases(x), NEW q \in Pages,
                          n.gen = known'[q], belief'[q] # "unknown"
                   PROVE  n.owner = ClientOf[q] <=> belief'[q] = "active"
        BY <2>3
      <3>1. CASE q = p
        <4>1. n.gen = m.gen => n.owner = m.owner BY <1>2, <1>6 DEF LeasesNamed
        <4> QED BY <1>2, <1>4, <3>1, <4>1 DEF LeasesNamed
      <3>2. CASE q # p BY <1>2, <1>3, <3>2 DEF LeasesNamed
      <3> QED BY <3>1, <3>2
    <2>8. \A x \in Sockets : InOrder(down'[x]) BY <1>6
    <2> QED BY <2>4, <2>5, <2>6, <2>7, <2>8 DEF LeasesNamed
  <1>12. LossesTold'
    <2>1. \A x \in Sockets : Attentive(x)' => Attentive(x) /\ x \notin retired'
      BY <1>1, <1>8 DEF Attentive, Serving
    <2>2. \A x \in Sockets \ {s} : Attentive(x)' => Leases(x)' = Leases(x)
      BY <1>6, <2>1
    <2>3. \A n \in Leases(s) : n = m \/ n \in Leases(s)' BY <1>6
    <2>4. ASSUME NEW q \in Pages, cand'[q] # NoSocket, Attentive(cand[q])'
          PROVE  Leases(cand[q])' # {}
      <3>1. cand'[q] = cand[q] /\ cand[q] # s
        <4>1. CASE q = p BY <1>5, <2>4, <4>1
        <4>2. CASE q # p BY <1>2, <1>3, <1>9, <2>4, <4>2 DEF SocketsWired
        <4> QED BY <4>1, <4>2
      <3>2. cand[q] \in Sockets BY <1>7, <2>4, <3>1
      <3>3. cand[q] \notin retired' /\ Attentive(cand[q])
        BY <1>1, <1>8, <2>4, <3>1, <3>2 DEF Attentive, Serving
      <3>4. Leases(cand[q]) # {} BY <1>2, <2>4, <3>1, <3>3 DEF LossesTold
      <3>5. down'[cand'[q]] = down[cand[q]] BY <1>6, <3>1, <3>2, <3>3
      <3> QED BY <3>4, <3>5 DEF Leases
    <2>5. ASSUME NEW y \in Sockets, NEW x \in Sockets, NEW n \in Leases(x)',
                 Attentive(y)', Leases(y)' # {}, n.owner = Owner(y), active # Owner(y)
          PROVE  NewerTold(y, n.gen)'
      <3>1. n \in Leases(x) /\ Attentive(y) /\ Leases(y) # {} BY <1>6, <2>1, <2>5
      <3>2. PICK k \in Leases(y) : k.gen > n.gen
        BY <1>2, <2>5, <3>1 DEF LossesTold, NewerTold
      <3>3. CASE k \in Leases(y)' BY <3>2, <3>3 DEF NewerTold
      <3>4. CASE k \notin Leases(y)'
        <4>1. y = s /\ k = m BY <2>2, <2>3, <2>5, <3>4
        <4>2. PICK l \in Leases(s)' : TRUE BY <2>5, <4>1
        <4>3. l \in Leases(s) /\ m.gen <= l.gen BY <1>6, <4>2
        <4>4. l.gen \in Nat /\ n.gen \in Nat BY <1>1, <3>1, <4>3, LeaseFields
        <4>5. l.gen > n.gen BY <1>1, <3>2, <4>1, <4>3, <4>4
        <4> QED BY <4>1, <4>2, <4>5 DEF NewerTold
      <3> QED BY <3>3, <3>4
    <2>6. ASSUME NEW y \in Sockets, Attentive(y)',
                 y \in {cur'[PageOf[y]], cand'[PageOf[y]]},
                 belief'[PageOf[y]] = "active", active # Owner(y)
          PROVE  NewerTold(y, known[PageOf[y]])'
      <3>1. Attentive(y) /\ y \notin retired' /\ y # NoSocket
        BY <2>1, <2>6 DEF LeaseAssumption
      <3>2. CASE PageOf[y] # p
        <4>1. y # s /\ Leases(y)' = Leases(y) BY <1>9, <2>2, <2>6, <3>2
        <4>2. NewerTold(y, known[PageOf[y]])
          BY <1>2, <1>3, <1>9, <2>6, <3>1, <3>2 DEF LossesTold
        <4> QED BY <1>3, <1>9, <3>2, <4>1, <4>2 DEF NewerTold
      <3>3. CASE PageOf[y] = p
        <4>1. y = s \/ (y = cand[p] /\ cur[p] = s) BY <1>5, <2>6, <3>1, <3>3
        <4>2. y \in {cur[p], cand[p]} BY <1>5, <4>1
        <4>3. Owner(y) = ClientOf[p] BY <1>9, <3>3
        <4>4. CASE m.gen >= known[p] /\ known'[p] = m.gen
                   /\ belief'[p] = IF m.owner = ClientOf[p] THEN "active" ELSE "inactive"
          <5>1. m.owner = Owner(y) BY <2>6, <3>3, <4>3, <4>4
          <5>2. Leases(y) # {}
            <6>1. CASE y = s BY <1>6, <6>1
            <6>2. CASE y = cand[p] BY <1>1, <1>2, <3>1, <6>2 DEF LossesTold
            <6> QED BY <4>1, <6>1, <6>2
          <5>3. PICK k \in Leases(y) : k.gen > m.gen
            BY <1>2, <1>6, <2>6, <3>1, <5>1, <5>2 DEF LossesTold, NewerTold
          <5>4. k # m BY <1>1, <5>3
          <5>5. k \in Leases(y)' BY <2>2, <2>3, <2>6, <5>3, <5>4
          <5> QED BY <3>3, <4>4, <5>3, <5>5 DEF NewerTold
        <4>5. CASE m.gen < known[p] /\ known'[p] = known[p] /\ belief'[p] = belief[p]
          <5>1. NewerTold(y, known[p])
            BY <1>2, <2>6, <3>1, <3>3, <4>2, <4>5 DEF LossesTold
          <5>2. PICK k \in Leases(y) : k.gen > known[p] BY <5>1 DEF NewerTold
          <5>3. k # m
            <6>1. known[p] \in Nat BY <1>1 DEF TypeOK
            <6> QED BY <1>1, <4>5, <5>2, <6>1
          <5>4. k \in Leases(y)' BY <2>2, <2>3, <2>6, <5>2, <5>3
          <5> QED BY <3>3, <4>5, <5>2, <5>4 DEF NewerTold
        <4> QED BY <1>4, <4>4, <4>5
      <3> QED BY <3>2, <3>3
    <2>7. \A x \in Sockets : Owner(x)' = Owner(x) BY DEF Owner
    <2> QED BY <1>1, <2>4, <2>5, <2>6, <2>7 DEF LossesTold
  <1>13. HolderIsConnected'
    BY <1>1 DEF LeaseInv, HolderIsConnected, Owner, Serving
  <1> QED BY <1>10, <1>11, <1>12, <1>13

LEMMA InvStep ==
    ASSUME LeaseAssumption, LeaseInv, [Next]_vars PROVE LeaseInv'
  <1>1. TypeOK' BY TypeStep DEF LeaseInv
  <1>2. SocketsWired' /\ LeasesNamed' /\ LossesTold' /\ HolderIsConnected'
    <2>1. ASSUME NEW s \in Sockets, DesktopResult(s)
          PROVE  UNCHANGED <<active, gen, conn, owed, closing, down, cur, cand,
                             retired, known, belief>>
      BY <2>1 DEF DesktopResult, leaseVars, brokerVars, pageVars
    <2>2. ASSUME NEW r \in Calls, Relay(r) \/ EndCall(r)
          PROVE  UNCHANGED <<active, gen, conn, owed, closing, down, cur, cand,
                             retired, known, belief>>
      BY <2>2 DEF Relay, EndCall, leaseVars, brokerVars, pageVars
    <2>3. ASSUME NEW p \in Pages, Click(p)
          PROVE  UNCHANGED <<active, gen, conn, owed, closing, down, cur, cand,
                             retired, known, belief>>
      BY <2>3 DEF Click, leaseVars, brokerVars, pageVars
    <2>4. ASSUME NEW p \in Pages, NEW r \in Calls, Answer(p, r)
          PROVE  UNCHANGED <<active, gen, conn, owed, closing, down, cur, cand,
                             retired, known, belief>>
      BY <2>4 DEF Answer, leaseVars, brokerVars, pageVars
    <2>5. ASSUME UNCHANGED vars
          PROVE  UNCHANGED <<active, gen, conn, owed, closing, down, cur, cand,
                             retired, known, belief>>
      BY <2>5 DEF vars, leaseVars, brokerVars, pageVars
    <2>6. CASE UNCHANGED vars BY <2>5, <2>6, InvSame
    <2>7. CASE Next
      BY <2>1, <2>2, <2>3, <2>4, <2>7, InvSame, InvConnect, InvSend, InvStall,
         InvPing, InvBecome, InvDisconnect, InvTry, InvDial, InvGone,
         InvHearLease, InvHearRpc DEF Next
    <2> QED BY <2>6, <2>7
  <1> QED BY <1>1, <1>2 DEF LeaseInv

LEMMA InitInv == ASSUME LeaseAssumption, Init PROVE LeaseInv
  <1>1. TypeOK BY InitType
  <1>2. \A s \in Sockets : down[s] = <<>> /\ Leases(s) = {} /\ InOrder(down[s])
    BY ElemsEmpty DEF Init, Leases
  <1>3. SocketsWired BY <1>2 DEF Init, SocketsWired, Serving
  <1>4. LeasesNamed BY <1>2 DEF Init, LeasesNamed
  <1>5. LossesTold BY <1>2 DEF Init, LossesTold, Attentive, Serving
  <1>6. HolderIsConnected BY DEF Init, HolderIsConnected
  <1> QED BY <1>1, <1>3, <1>4, <1>5, <1>6 DEF LeaseInv

-----------------------------------------------------------------------------
(* A click makes one takeover frame at once and one later at most.         *)

Wanting == {p \in Pages : want[p]}
TakeoversPaidFor ==
    asks \in Nat /\ clicks \in Nat /\ asks + Cardinality(Wanting) <= 2 * clicks

LEMMA WantingFinite ==
    ASSUME LeaseAssumption
    PROVE  IsFiniteSet(Wanting) /\ Cardinality(Wanting) \in Nat
  <1>1. Wanting \subseteq Pages BY DEF Wanting
  <1>2. IsFiniteSet(Wanting) BY <1>1, FS_Subset DEF LeaseAssumption
  <1> QED BY <1>2, FS_CardinalityType

LEMMA PaidByClick ==
    ASSUME LeaseAssumption, TypeOK, TakeoversPaidFor, NEW p \in Pages, Click(p)
    PROVE  TakeoversPaidFor'
  <1>1. Wanting' = Wanting \cup {p} BY DEF Wanting, Click, TypeOK
  <1>2. clicks' = clicks + 1 BY DEF Click
  <1>3. asks' = asks \/ asks' = asks + 1 BY DEF Click, Ask
  <1> DEFINE a == Cardinality(Wanting)
             b == Cardinality(Wanting')
  <1>4. b = IF p \in Wanting THEN a ELSE a + 1
    BY <1>1, WantingFinite, FS_AddElement
  <1>5. a \in Nat BY WantingFinite
  <1>6. Cardinality(Wanting)' = b OBVIOUS
  <1>7. b \in Nat /\ b <= a + 1
    <2> HIDE DEF a, b
    <2> QED BY <1>4, <1>5
  <1>8. asks \in Nat /\ clicks \in Nat /\ asks + a <= 2 * clicks BY DEF TakeoversPaidFor
  <1> HIDE DEF a, b
  <1>9. asks' \in Nat /\ clicks' \in Nat /\ asks' + b <= 2 * clicks'
    BY <1>2, <1>3, <1>5, <1>7, <1>8
  <1> QED BY <1>6, <1>9 DEF TakeoversPaidFor

LEMMA PaidByHearing ==
    ASSUME LeaseAssumption, TypeOK, TakeoversPaidFor, NEW s \in Sockets, HearLease(s)
    PROVE  TakeoversPaidFor'
  <1> DEFINE p == PageOf[s]
  <1>1. p \in Pages BY OwnerIsClient
  <1>2. clicks' = clicks BY DEF HearLease
  <1>3. \/ UNCHANGED <<want, asks>>
        \/ want' = [want EXCEPT ![p] = FALSE] /\ (asks' = asks \/ (want[p] /\ asks' = asks + 1))
    BY DEF HearLease, Ask
  <1>4. CASE UNCHANGED <<want, asks>>
    BY <1>2, <1>4 DEF TakeoversPaidFor, Wanting
  <1>5. CASE want' = [want EXCEPT ![p] = FALSE] /\ (asks' = asks \/ (want[p] /\ asks' = asks + 1))
    <2>1. Wanting' = Wanting \ {p} BY <1>1, <1>5 DEF Wanting, TypeOK
    <2> DEFINE a == Cardinality(Wanting)
               b == Cardinality(Wanting')
    <2>2. b = IF p \in Wanting THEN a - 1 ELSE a
      BY <2>1, WantingFinite, FS_RemoveElement
    <2>3. want[p] => p \in Wanting BY <1>1 DEF Wanting
    <2>4. a \in Nat BY WantingFinite
    <2>5. asks \in Nat /\ clicks \in Nat /\ asks + a <= 2 * clicks BY DEF TakeoversPaidFor
    <2>6. Cardinality(Wanting)' = b OBVIOUS
    <2> HIDE DEF a, b
    <2>7. asks' \in Nat /\ clicks' \in Nat /\ asks' + b <= 2 * clicks'
      BY <1>2, <1>5, <2>2, <2>3, <2>4, <2>5
    <2> QED BY <2>6, <2>7 DEF TakeoversPaidFor
  <1> QED BY <1>3, <1>4, <1>5

LEMMA PaidStep ==
    ASSUME LeaseAssumption, TypeOK, TakeoversPaidFor, [Next]_vars
    PROVE  TakeoversPaidFor'
  <1>1. ASSUME UNCHANGED <<want, clicks, asks>> PROVE TakeoversPaidFor'
    BY <1>1 DEF TakeoversPaidFor, Wanting
  <1>2. ASSUME NEW s \in Sockets,
               \/ Connect(s) \/ SendLease(s) \/ StallLease(s) \/ Ping(s)
               \/ BecomeActive(s) \/ Disconnect(s) \/ DesktopResult(s)
               \/ Dial(s) \/ SocketGone(s) \/ HearRpc(s)
        PROVE  UNCHANGED <<want, clicks, asks>>
    BY <1>2 DEF Connect, SendLease, StallLease, Ping, BecomeActive, Disconnect,
       DesktopResult, Dial, SocketGone, HearRpc, pageVars, clickVars
  <1>3. ASSUME NEW r \in Calls,
               Relay(r) \/ EndCall(r) \/ \E s \in Sockets : TrySocket(r, s)
        PROVE  UNCHANGED <<want, clicks, asks>>
    BY <1>3 DEF Relay, EndCall, TrySocket, pageVars, clickVars
  <1>4. ASSUME NEW p \in Pages, NEW r \in Calls, Answer(p, r)
        PROVE  UNCHANGED <<want, clicks, asks>>
    BY <1>4 DEF Answer, pageVars, clickVars
  <1>5. CASE UNCHANGED vars BY <1>1, <1>5 DEF vars, pageVars, clickVars
  <1>6. CASE Next
    BY <1>1, <1>2, <1>3, <1>4, <1>6, PaidByClick, PaidByHearing DEF Next
  <1> QED BY <1>5, <1>6

LEMMA PaidInit == ASSUME LeaseAssumption, Init PROVE TakeoversPaidFor
  <1>1. Wanting = {} BY DEF Init, Wanting
  <1> QED BY <1>1, FS_EmptySet DEF Init, TakeoversPaidFor

-----------------------------------------------------------------------------
(* What the invariant gives.                                               *)

LEMMA HolderKnown ==
    ASSUME LeaseAssumption, LeaseInv, TakeoversPaidFor PROVE HolderIsKnown
  <1>1. GenNamesOneHolder
    <2> SUFFICES ASSUME NEW s \in Sockets, NEW i \in DOMAIN down[s],
                        down[s][i].kind = "lease"
                 PROVE  /\ down[s][i].gen = gen => down[s][i].owner = active
                        /\ \A p \in Pages :
                            down[s][i].gen = known[p] /\ belief[p] # "unknown" =>
                              (down[s][i].owner = ClientOf[p] <=> belief[p] = "active")
      BY DEF GenNamesOneHolder
    <2>1. down[s] \in Seq(ToPage) BY DEF LeaseInv, TypeOK
    <2>2. i \in 1..Len(down[s]) BY <2>1
    <2>3. down[s][i] \in Leases(s) BY <2>2 DEF Leases, Elems
    <2> QED BY <2>3 DEF LeaseInv, LeasesNamed
  <1>2. NoFalseHolder
    <2> SUFFICES ASSUME NEW p \in Pages, cur[p] # NoSocket, Quiet(cur[p]),
                        belief[p] = "active", active # ClientOf[p]
                 PROVE  FALSE
      BY DEF NoFalseHolder
    <2>1. cur[p] \in Sockets BY DEF LeaseInv, TypeOK
    <2>2. PageOf[cur[p]] = p /\ cur[p] \notin retired BY DEF LeaseInv, SocketsWired
    <2>3. Attentive(cur[p]) /\ down[cur[p]] = <<>> BY <2>2 DEF Quiet, Attentive
    <2>4. NewerTold(cur[p], known[p])
      BY <2>1, <2>2, <2>3, OwnerIsClient DEF LeaseInv, LossesTold
    <2>5. Leases(cur[p]) = {} BY <2>3, ElemsEmpty DEF Leases
    <2> QED BY <2>4, <2>5 DEF NewerTold
  <1>3. ClicksBoundTakeovers
    <2> DEFINE a == Cardinality(Wanting)
    <2>1. a \in Nat BY WantingFinite
    <2>2. asks \in Nat /\ clicks \in Nat /\ asks + a <= 2 * clicks
      BY DEF TakeoversPaidFor
    <2> HIDE DEF a
    <2> QED BY <2>1, <2>2 DEF ClicksBoundTakeovers
  <1> QED BY <1>1, <1>2, <1>3 DEF HolderIsKnown, LeaseInv

LEMMA PageGoesOn ==
    ASSUME LeaseAssumption, LeaseInv, [Next]_vars PROVE PageNeverGoesBackStep
  <1>0. TypeOK BY DEF LeaseInv
  <1>1. ASSUME UNCHANGED <<known, belief>> PROVE PageNeverGoesBackStep
    <2>1. \A p \in Pages : known[p] \in Nat BY <1>0 DEF TypeOK
    <2> QED BY <1>1, <2>1 DEF PageNeverGoesBackStep
  <1>2. ASSUME NEW s \in Sockets,
               \/ Connect(s) \/ SendLease(s) \/ StallLease(s) \/ Ping(s)
               \/ BecomeActive(s) \/ Disconnect(s) \/ DesktopResult(s)
               \/ Dial(s) \/ SocketGone(s) \/ HearRpc(s)
        PROVE  UNCHANGED <<known, belief>>
    BY <1>2 DEF Connect, SendLease, StallLease, Ping, BecomeActive, Disconnect,
       DesktopResult, Dial, SocketGone, HearRpc, pageVars
  <1>3. ASSUME NEW r \in Calls,
               Relay(r) \/ EndCall(r) \/ \E s \in Sockets : TrySocket(r, s)
        PROVE  UNCHANGED <<known, belief>>
    BY <1>3 DEF Relay, EndCall, TrySocket, pageVars
  <1>4. ASSUME NEW p \in Pages, Click(p) \/ \E r \in Calls : Answer(p, r)
        PROVE  UNCHANGED <<known, belief>>
    BY <1>4 DEF Click, Answer, pageVars
  <1>5. CASE UNCHANGED vars BY <1>1, <1>5 DEF vars, pageVars
  <1>6. ASSUME NEW s \in Sockets, HearLease(s) PROVE PageNeverGoesBackStep
    <2> DEFINE p == PageOf[s]
               m == Head(down[s])
    <2>1. /\ p \in Pages /\ m.gen \in Nat
          /\ \A q \in Pages \ {p} : known'[q] = known[q] /\ belief'[q] = belief[q]
          /\ \/ /\ m.gen >= known[p] /\ known'[p] = m.gen
                /\ belief'[p] = IF m.owner = ClientOf[p] THEN "active" ELSE "inactive"
             \/ known'[p] = known[p] /\ belief'[p] = belief[p]
      BY <1>6, HeardPage
    <2>2. m \in Leases(s) BY <1>6, LeasesHeard DEF LeaseInv
    <2>3. m.gen = known[p] /\ belief[p] # "unknown" =>
                (m.owner = ClientOf[p] <=> belief[p] = "active")
      BY <2>1, <2>2 DEF LeaseInv, LeasesNamed
    <2>4. /\ \A q \in Pages : known[q] \in Nat
          /\ belief[p] \in {"unknown", "active", "inactive"}
      BY <1>0, <2>1 DEF TypeOK
    <2> HIDE DEF m, p
    <2>5. known'[p] >= known[p]
          /\ (belief'[p] # belief[p] /\ belief[p] # "unknown" => known'[p] > known[p])
      BY <2>1, <2>3, <2>4
    <2>6. \A q \in Pages \ {p} : known'[q] >= known[q] /\ belief'[q] = belief[q]
      BY <2>1, <2>4
    <2> QED BY <2>5, <2>6 DEF PageNeverGoesBackStep
  <1>7. CASE Next
    BY <1>1, <1>2, <1>3, <1>4, <1>6, <1>7 DEF Next
  <1> QED BY <1>5, <1>7

-----------------------------------------------------------------------------
\* The inductive invariant holds of every reachable state.
THEOREM LeaseInvariant == ASSUME LeaseAssumption PROVE Spec => []LeaseInv
  <1>1. Init => LeaseInv BY InitInv
  <1>2. LeaseInv /\ [Next]_vars => LeaseInv' BY InvStep
  <1> QED BY <1>1, <1>2, PTL DEF Spec

\* The holder of the lease has a live channel, a generation names one holder,
\* no page at rest believes it holds a lease it does not, and clicks bound the
\* takeovers.
THEOREM LeaseHolderIsKnown == ASSUME LeaseAssumption PROVE Spec => []HolderIsKnown
  <1>1. Init => LeaseInv /\ TakeoversPaidFor BY InitInv, PaidInit
  <1>2. LeaseInv /\ TakeoversPaidFor /\ [Next]_vars => (LeaseInv /\ TakeoversPaidFor)'
    <2>1. LeaseInv => TypeOK BY DEF LeaseInv
    <2> QED BY <2>1, InvStep, PaidStep
  <1>3. LeaseInv /\ TakeoversPaidFor => HolderIsKnown BY HolderKnown
  <1> QED BY <1>1, <1>2, <1>3, PTL DEF Spec

\* A page never goes back to an older lease.
THEOREM PagesNeverGoBack == ASSUME LeaseAssumption PROVE Spec => PageNeverGoesBack
  <1>1. Init => LeaseInv BY InitInv
  <1>2. LeaseInv /\ [Next]_vars => LeaseInv' BY InvStep
  <1>3. LeaseInv /\ [Next]_vars => [PageNeverGoesBackStep]_vars BY PageGoesOn
  <1> QED BY <1>1, <1>2, <1>3, PTL DEF Spec, PageNeverGoesBack

-----------------------------------------------------------------------------
(* The relay of desktop ops.                                               *)

\* A call's holding: its generation is no later than the live one, and the
\* live one is its client's.
CallsNameHoldings ==
    \A r \in Calls : call[r].phase # "new" =>
        call[r].gen <= gen /\ (call[r].gen = gen => call[r].client = active)

\* A call no send was started for is unknown to the pages and on no wire.
UndispatchedIsUnsent ==
    \A r \in Calls : ~call[r].dispatched =>
        /\ \A p \in Pages : op[p][r].state = "none"
        /\ \A s \in Sockets : \A m \in Elems(down[s]) :
                m.kind = "rpc" => m.rid # r

\* A page applies a call once at most, and says so only if it did.
OpsApplyOnce ==
    \A p \in Pages, r \in Calls :
        LET o == op[p][r] IN
        /\ o.state = "none" => o.applied = 0 /\ ~o.ok
        /\ o.state = "running" => o.applied = 1
        /\ o.state = "answered" /\ o.ok => o.applied = 1

\* A success on its way to the broker is of a page that applied the call.
SuccessIsApplied ==
    \A s \in Sockets : \A m \in Elems(up[s]) :
        m.kind = "result" /\ m.ok => op[PageOf[s]][m.rid].applied = 1

RelayInv ==
    CallsNameHoldings /\ UndispatchedIsUnsent /\ OpsApplyOnce /\ SuccessIsApplied

LEMMA SentElems ==
    ASSUME TypeOK, NEW s \in Sockets, NEW m \in ToPage, down' = Sent(s, m)
    PROVE  \A x \in Sockets : \A n \in Elems(down'[x]) : n \in Elems(down[x]) \/ n = m
  <1>1. down[s] \in Seq(ToPage) BY DEF TypeOK
  <1>2. Elems(Append(down[s], m)) = Elems(down[s]) \cup {m} BY <1>1, ElemsAppend
  <1> QED BY <1>2, LeasesSent

LEMMA AskElems ==
    ASSUME TypeOK, NEW s \in Sockets, Ask(s)
    PROVE  \A x \in Sockets : \A n \in Elems(up'[x]) :
                n \in Elems(up[x]) \/ n.kind = "become"
  <1> DEFINE m == [kind |-> "become"]
  <1>1. up[s] \in Seq(ToBroker) /\ m \in ToBroker BY FramesBuilt DEF TypeOK
  <1>2. Elems(Append(up[s], m)) = Elems(up[s]) \cup {m} BY <1>1, ElemsAppend
  <1>3. up' = up \/ up' = [up EXCEPT ![s] = Append(up[s], m)] BY DEF Ask
  <1>4. m.kind = "become" OBVIOUS
  <1> HIDE DEF m
  <1>5. /\ up'[s] = up[s] \/ up'[s] = Append(up[s], m)
        /\ \A x \in Sockets \ {s} : up'[x] = up[x]
    BY <1>3 DEF TypeOK
  <1> QED BY <1>2, <1>4, <1>5

LEMMA ReplyElems ==
    ASSUME LeaseInv, NEW p \in Pages, NEW r \in Calls, NEW ok \in BOOLEAN,
           Reply(p, r, ok)
    PROVE  \A x \in Sockets : \A n \in Elems(up'[x]) :
                n \in Elems(up[x]) \/ (PageOf[x] = p /\ n.rid = r /\ n.ok = ok)
  <1> DEFINE m == [kind |-> "result", rid |-> r, ok |-> ok]
             s == cur[p]
  <1>1. CASE ~(s # NoSocket /\ conn[s] = "serving") BY <1>1 DEF Reply
  <1>2. CASE s # NoSocket /\ conn[s] = "serving"
    <2>1. /\ s \in Sockets /\ up[s] \in Seq(ToBroker) /\ PageOf[s] = p
          /\ m \in ToBroker /\ up \in [Sockets -> Seq(ToBroker)]
      BY <1>2, FramesBuilt DEF LeaseInv, TypeOK, SocketsWired
    <2>2. up' = [up EXCEPT ![s] = Append(up[s], m)] BY <1>2 DEF Reply
    <2>3. m.rid = r /\ m.ok = ok OBVIOUS
    <2>4. Elems(Append(up[s], m)) = Elems(up[s]) \cup {m} BY <2>1, ElemsAppend
    <2> HIDE DEF m, s
    <2>5. /\ up'[s] = Append(up[s], m)
          /\ \A x \in Sockets \ {s} : up'[x] = up[x]
      BY <2>1, <2>2
    <2> QED BY <2>1, <2>3, <2>4, <2>5
  <1> QED BY <1>1, <1>2

\* Taking the head of a queue adds nothing.
LEMMA TakenElems ==
    ASSUME NEW S, NEW q \in Seq(S), q # <<>>
    PROVE  Elems(Tail(q)) \subseteq Elems(q) /\ Head(q) \in Elems(q)
  BY ElemsTail

\* The end of a holding, and of the calls made in it.
LEMMA CallsAtMove ==
    ASSUME TypeOK, CallsNameHoldings, NEW c, MoveLease(c)
    PROVE  /\ CallsNameHoldings'
           /\ \A r \in Calls : call'[r].dispatched = call[r].dispatched
           /\ \A r \in Calls : call'[r].future = "ok" => call[r].future = "ok"
  <1>1. \A r \in Calls : call'[r] = call[r]
                \/ call'[r] = [call[r] EXCEPT !.future = "lost"]
    BY DEF MoveLease, FailSuperseded
  <1>2. gen' = gen + 1 /\ gen \in Nat BY DEF MoveLease, NextGen, TypeOK
  <1>3. \A r \in Calls : /\ call'[r].phase = call[r].phase
                         /\ call'[r].gen = call[r].gen
                         /\ call'[r].dispatched = call[r].dispatched
                         /\ call'[r].future = "ok" => call[r].future = "ok"
                         /\ call[r].gen \in Nat
    <2> SUFFICES ASSUME NEW r \in Calls
                 PROVE  /\ call'[r].phase = call[r].phase
                        /\ call'[r].gen = call[r].gen
                        /\ call'[r].dispatched = call[r].dispatched
                        /\ call'[r].future = "ok" => call[r].future = "ok"
                        /\ call[r].gen \in Nat
      OBVIOUS
    <2>1. call[r] \in CallRecord BY DEF TypeOK
    <2>2. \A k \in CallRecord :
            LET l == [k EXCEPT !.future = "lost"] IN
            /\ l.phase = k.phase /\ l.gen = k.gen /\ l.dispatched = k.dispatched
            /\ l.future = "lost" /\ k.gen \in Nat
      BY DEF CallRecord
    <2> QED BY <1>1, <2>1, <2>2
  <1>4. \A r \in Calls : call[r].phase # "new" => call[r].gen <= gen
    BY DEF CallsNameHoldings
  <1>5. CallsNameHoldings' BY <1>2, <1>3, <1>4 DEF CallsNameHoldings
  <1> QED BY <1>3, <1>5

\* The answer to a call: a success is only taken of a page of the call's holder
\* in the call's holding.
NoAnswer == \A r \in Calls : call'[r].future = "ok" => call[r].future = "ok"

LEMMA RelayBroker ==
    ASSUME LeaseInv, RelayInv,
           NEW s \in Sockets, Connect(s) \/ BecomeActive(s) \/ Disconnect(s)
    PROVE  RelayInv' /\ NoAnswer
  <1>1. TypeOK BY DEF LeaseInv
  <1>2. CallsNameHoldings' /\ (\A r \in Calls : call'[r].dispatched = call[r].dispatched)
        /\ NoAnswer
    <2>1. (\E c : MoveLease(c)) \/ UNCHANGED <<active, gen, call>>
      BY DEF Connect, BecomeActive, Disconnect
    <2>2. CASE UNCHANGED <<active, gen, call>>
      BY <2>2 DEF RelayInv, CallsNameHoldings, NoAnswer
    <2> QED BY <1>1, <2>1, <2>2, CallsAtMove DEF RelayInv, NoAnswer
  <1>3. UNCHANGED <<down, op>> BY DEF Connect, BecomeActive, Disconnect
  <1>4. \A x \in Sockets : Elems(up'[x]) \subseteq Elems(up[x])
    <2>1. CASE Connect(s) BY <2>1 DEF Connect
    <2>2. CASE BecomeActive(s)
      <3>1. up[s] \in Seq(ToBroker) /\ up[s] # <<>> BY <1>1, <2>2 DEF BecomeActive, TypeOK
      <3>2. up' = [up EXCEPT ![s] = Tail(up[s])] BY <2>2 DEF BecomeActive
      <3> QED BY <1>1, <3>1, <3>2, TakenElems DEF TypeOK
    <2>3. CASE Disconnect(s)
      <3>1. up' = [up EXCEPT ![s] = <<>>] BY <2>3 DEF Disconnect
      <3> QED BY <1>1, <3>1, ElemsEmpty DEF TypeOK
    <2> QED BY <2>1, <2>2, <2>3
  <1>5. UndispatchedIsUnsent' BY <1>2, <1>3 DEF RelayInv, UndispatchedIsUnsent
  <1>6. OpsApplyOnce' BY <1>3 DEF RelayInv, OpsApplyOnce
  <1>7. SuccessIsApplied' BY <1>3, <1>4 DEF RelayInv, SuccessIsApplied
  <1> QED BY <1>2, <1>5, <1>6, <1>7 DEF RelayInv

\* Steps that leave the calls and the ops alone, put no call on the wire and
\* no success on the way back.
LEMMA RelayAside ==
    ASSUME RelayInv, UNCHANGED <<active, gen, call, op>>,
           \A x \in Sockets : \A n \in Elems(down'[x]) :
                n \in Elems(down[x]) \/ n.kind # "rpc",
           \A x \in Sockets : \A n \in Elems(up'[x]) :
                n \in Elems(up[x]) \/ n.kind # "result"
    PROVE  RelayInv' /\ NoAnswer
  <1>1. CallsNameHoldings' BY DEF RelayInv, CallsNameHoldings
  <1>2. UndispatchedIsUnsent' BY DEF RelayInv, UndispatchedIsUnsent
  <1>3. OpsApplyOnce' BY DEF RelayInv, OpsApplyOnce
  <1>4. SuccessIsApplied' BY DEF RelayInv, SuccessIsApplied
  <1> QED BY <1>1, <1>2, <1>3, <1>4 DEF RelayInv, NoAnswer

LEMMA RelaySocketSteps ==
    ASSUME LeaseAssumption, LeaseInv, RelayInv, NEW s \in Sockets,
           \/ SendLease(s) \/ StallLease(s) \/ Ping(s) \/ Dial(s)
           \/ SocketGone(s) \/ HearLease(s)
    PROVE  RelayInv' /\ NoAnswer
  <1>1. TypeOK /\ SocketsWired BY DEF LeaseInv
  <1>2. UNCHANGED <<active, gen, call, op>>
    BY DEF SendLease, StallLease, Ping, Dial, SocketGone, HearLease, leaseVars, callVars
  <1>3. CASE StallLease(s) \/ Ping(s) \/ Dial(s)
    <2>1. UNCHANGED <<down, up>> BY <1>3 DEF StallLease, Ping, Dial
    <2> QED BY <1>2, <2>1, RelayAside
  <1>4. CASE SendLease(s)
    <2>1. UNCHANGED up /\ down' = Sent(s, LiveLease) /\ LiveLease \in ToPage
          /\ LiveLease.kind # "rpc"
      BY <1>1, <1>4, FramesBuilt DEF SendLease, LiveLease
    <2>2. \A x \in Sockets : \A n \in Elems(down'[x]) :
                n \in Elems(down[x]) \/ n.kind # "rpc"
      BY <1>1, <2>1, SentElems
    <2> QED BY <1>2, <2>1, <2>2, RelayAside
  <1>5. CASE SocketGone(s)
    <2>1. UNCHANGED up /\ down' = [down EXCEPT ![s] = <<>>] BY <1>5 DEF SocketGone
    <2>2. \A x \in Sockets : \A n \in Elems(down'[x]) : n \in Elems(down[x])
      BY <1>1, <2>1, ElemsEmpty DEF TypeOK
    <2> QED BY <1>2, <2>1, <2>2, RelayAside
  <1>6. CASE HearLease(s)
    <2>1. down[s] \in Seq(ToPage) /\ down[s] # <<>> BY <1>1, <1>6 DEF TypeOK, HearLease
    <2>2. \A x \in Sockets : Elems(down'[x]) \subseteq Elems(down[x])
      <3>1. /\ \A x \in retired' : x \in Sockets => down'[x] = <<>>
            /\ \A x \in Sockets \ (retired' \cup {s}) : down'[x] = down[x]
            /\ down'[s] = Tail(down[s])
        BY <1>1, <1>6, LeasesHeard
      <3> QED BY <2>1, <3>1, TakenElems, ElemsEmpty
    <2>3. Ask(s) \/ UNCHANGED up BY <1>6 DEF HearLease
    <2>4. \A x \in Sockets : \A n \in Elems(up'[x]) :
                n \in Elems(up[x]) \/ n.kind # "result"
      BY <1>1, <2>3, AskElems
    <2> QED BY <1>2, <2>2, <2>4, RelayAside
  <1> QED BY <1>3, <1>4, <1>5, <1>6

LEMMA RelayClick ==
    ASSUME LeaseInv, RelayInv, NEW p \in Pages, Click(p)
    PROVE  RelayInv' /\ NoAnswer
  <1>1. UNCHANGED <<active, gen, call, op, down>> BY DEF Click, leaseVars, callVars
  <1>2. \A x \in Sockets : \A n \in Elems(up'[x]) :
                n \in Elems(up[x]) \/ n.kind # "result"
    <2>1. CASE Writable(cur[p])
      <3>1. cur[p] \in Sockets BY <2>1 DEF LeaseInv, TypeOK, Writable
      <3> QED BY <2>1, <3>1, AskElems DEF Click, LeaseInv
    <2>2. CASE ~Writable(cur[p]) BY <2>2 DEF Click
    <2> QED BY <2>1, <2>2
  <1> QED BY <1>1, <1>2, RelayAside

\* The call's own steps at the broker: registered, sent, over.
LEMMA RelayCall ==
    ASSUME LeaseInv, RelayInv, NEW r \in Calls, Relay(r) \/ EndCall(r)
    PROVE  RelayInv' /\ NoAnswer
  <1>1. UNCHANGED <<active, gen, down, up, op>>
    BY DEF Relay, EndCall, leaseVars
  <1>2. call[r] \in CallRecord /\ call \in [Calls -> CallRecord] /\ gen \in Nat
    BY DEF LeaseInv, TypeOK
  <1>3. \A q \in Calls \ {r} : call'[q] = call[q] BY <1>2 DEF Relay, EndCall
  <1>4. /\ call'[r].dispatched = call[r].dispatched
        /\ call'[r].future = call[r].future
        /\ \/ call'[r].gen = gen /\ call'[r].client = active
           \/ /\ call'[r].gen = call[r].gen /\ call'[r].client = call[r].client
              /\ call[r].phase # "new"
    <2>1. CASE Relay(r)
      <3>1. call'[r] = [call[r] EXCEPT !.phase = "sending", !.client = active,
                            !.gen = gen, !.tries = {s \in Serving : Owner(s) = active}]
        BY <1>2, <2>1 DEF Relay
      <3> QED BY <1>2, <3>1 DEF CallRecord
    <2>2. CASE EndCall(r)
      <3>1. PICK how \in {"ok", "refused", "lost", "timeout"} :
                call'[r] = [call[r] EXCEPT !.phase = "over", !.outcome = how]
        <4>1. call[r].future \in {"none", "ok", "refused", "lost"}
          BY <1>2, CallFields
        <4>2. PICK how \in {"ok", "refused", "lost", "timeout"} :
                call' = [call EXCEPT ![r] =
                            [call[r] EXCEPT !.phase = "over", !.outcome = how]]
          BY <2>2, <4>1 DEF EndCall
        <4>3. call'[r] = [call[r] EXCEPT !.phase = "over", !.outcome = how]
          BY <1>2, <4>2
        <4> QED BY <4>3
      <3>2. call[r].phase # "new" BY <2>2 DEF EndCall
      <3> DEFINE over == [call[r] EXCEPT !.phase = "over", !.outcome = how]
      <3>3. /\ over.dispatched = call[r].dispatched /\ over.future = call[r].future
            /\ over.gen = call[r].gen /\ over.client = call[r].client
        BY <1>2, CallOver
      <3> HIDE DEF over
      <3>4. call'[r] = over BY <3>1 DEF over
      <3> QED BY <3>2, <3>3, <3>4
    <2> QED BY <2>1, <2>2
  <1>5. CallsNameHoldings'
    BY <1>1, <1>2, <1>3, <1>4 DEF RelayInv, CallsNameHoldings
  <1>6. UndispatchedIsUnsent'
    BY <1>1, <1>3, <1>4 DEF RelayInv, UndispatchedIsUnsent
  <1>7. OpsApplyOnce' BY <1>1 DEF RelayInv, OpsApplyOnce
  <1>8. SuccessIsApplied' BY <1>1 DEF RelayInv, SuccessIsApplied
  <1> QED BY <1>3, <1>4, <1>5, <1>6, <1>7, <1>8 DEF RelayInv, NoAnswer

LEMMA RelayTry ==
    ASSUME LeaseInv, RelayInv, NEW r \in Calls, NEW s \in Sockets, TrySocket(r, s)
    PROVE  RelayInv' /\ NoAnswer
  <1> DEFINE m == [kind |-> "rpc", rid |-> r, gen |-> call[r].gen]
             c == call[r]
             h == Handed(c, s)
  <1>1. UNCHANGED <<active, gen, up, op>> BY DEF TrySocket, leaseVars
  <1>2. c \in CallRecord /\ call \in [Calls -> CallRecord] /\ TypeOK
    BY DEF LeaseInv, TypeOK
  <1>3. c.phase = "sending" BY DEF TrySocket
  <1>4. \/ /\ call' = [call EXCEPT ![r] = [c EXCEPT !.phase = "over", !.outcome = "lost"]]
           /\ down' = down
        \/ /\ \/ call' = [call EXCEPT ![r] = [h EXCEPT !.phase = "waiting"]]
              \/ call' = [call EXCEPT ![r] = [h EXCEPT !.stalled = TRUE]]
              \/ call' = [call EXCEPT ![r] = h]
           /\ down' = down \/ down' = Sent(s, m)
    BY DEF TrySocket
  <1>5. \A q \in Calls \ {r} : call'[q] = call[q]
    <2> HIDE DEF h, c
    <2> QED BY <1>2, <1>4
  <1>6. /\ call'[r].gen = c.gen /\ call'[r].client = c.client
        /\ call'[r].future = c.future
        /\ call'[r].dispatched = TRUE
           \/ (call'[r].dispatched = c.dispatched /\ down' = down)
    <2>1. \/ /\ call'[r] = [c EXCEPT !.phase = "over", !.outcome = "lost"]
             /\ down' = down
          \/ call'[r] = [h EXCEPT !.phase = "waiting"]
          \/ call'[r] = [h EXCEPT !.stalled = TRUE]
          \/ call'[r] = h
      <3> HIDE DEF h, c
      <3> QED BY <1>2, <1>4
    <2>2. h = [c EXCEPT !.dispatched = TRUE, !.tries = @ \ {s}] BY DEF Handed
    <2>3. h.gen = c.gen /\ h.client = c.client /\ h.future = c.future
          /\ h.dispatched = TRUE /\ h \in CallRecord
      <3> HIDE DEF c
      <3>1. h \in CallRecord BY <1>2, CallHanded
      <3> QED BY <1>2, <2>2, <3>1 DEF CallRecord
    <2> HIDE DEF c, h
    <2>4. CASE call'[r] = [c EXCEPT !.phase = "over", !.outcome = "lost"]
               /\ down' = down
      <3> DEFINE lost == [c EXCEPT !.phase = "over", !.outcome = "lost"]
      <3>1. /\ lost.dispatched = c.dispatched /\ lost.future = c.future
            /\ lost.gen = c.gen /\ lost.client = c.client
        BY <1>2, CallOver
      <3>2. call'[r] = lost BY <2>4
      <3> HIDE DEF lost
      <3> QED BY <2>4, <3>1, <3>2
    <2>5. CASE call'[r] = [h EXCEPT !.phase = "waiting"]
      BY <2>3, <2>5 DEF CallRecord
    <2>6. CASE call'[r] = [h EXCEPT !.stalled = TRUE]
      BY <2>3, <2>6 DEF CallRecord
    <2>7. CASE call'[r] = h BY <2>3, <2>7
    <2> QED BY <2>1, <2>4, <2>5, <2>6, <2>7
  <1>7. CallsNameHoldings'
    <2>1. c.gen <= gen /\ (c.gen = gen => c.client = active)
      BY <1>3 DEF RelayInv, CallsNameHoldings
    <2> HIDE DEF c, h, m
    <2> QED BY <1>1, <1>5, <1>6, <2>1 DEF RelayInv, CallsNameHoldings
  <1>8. UndispatchedIsUnsent'
    <2>1. m \in ToPage /\ m.kind = "rpc" /\ m.rid = r BY <1>2, CallFields, FramesBuilt
    <2>2. \A x \in Sockets : \A n \in Elems(down'[x]) : n \in Elems(down[x]) \/ n = m
      <3> HIDE DEF c, h, m
      <3> QED BY <1>2, <1>4, <2>1, SentElems
    <2>3. ASSUME NEW q \in Calls, ~call'[q].dispatched
          PROVE  /\ \A p \in Pages : op'[p][q].state = "none"
                 /\ \A x \in Sockets : \A n \in Elems(down'[x]) :
                        n.kind = "rpc" => n.rid # q
      <3>1. CASE q = r
        <4>1. ~c.dispatched /\ down' = down BY <1>6, <2>3, <3>1
        <4> QED BY <1>1, <3>1, <4>1 DEF RelayInv, UndispatchedIsUnsent
      <3>2. CASE q # r
        <4>1. ~call[q].dispatched BY <1>5, <2>3, <3>2
        <4> HIDE DEF m
        <4> QED BY <1>1, <2>1, <2>2, <3>2, <4>1 DEF RelayInv, UndispatchedIsUnsent
      <3> QED BY <3>1, <3>2
    <2> QED BY <2>3 DEF UndispatchedIsUnsent
  <1>9. OpsApplyOnce' BY <1>1 DEF RelayInv, OpsApplyOnce
  <1>10. SuccessIsApplied' BY <1>1 DEF RelayInv, SuccessIsApplied
  <1> QED BY <1>5, <1>6, <1>7, <1>8, <1>9, <1>10 DEF RelayInv, NoAnswer

\* A success the agent hears was applied by a page of the holder, in the
\* holding the call was made to.
LEMMA RelayResult ==
    ASSUME LeaseAssumption, LeaseInv, RelayInv, NEW s \in Sockets, DesktopResult(s)
    PROVE  RelayInv' /\ OkWithinTheHoldingStep
  <1> DEFINE m == Head(up[s])
             r == m.rid
  <1>1. UNCHANGED <<active, gen, down, op>> BY DEF DesktopResult, leaseVars
  <1>2. up[s] \in Seq(ToBroker) /\ up[s] # <<>> /\ m.kind = "result"
        /\ call \in [Calls -> CallRecord] /\ up \in [Sockets -> Seq(ToBroker)]
    BY DEF LeaseInv, TypeOK, DesktopResult
  <1>3. m \in Result /\ m \in Elems(up[s]) /\ Elems(Tail(up[s])) \subseteq Elems(up[s])
    BY <1>2, QueueTypes, FrameKinds, TakenElems
  <1>4. r \in Calls BY <1>3, FrameFields
  <1>5. up' = [up EXCEPT ![s] = Tail(up[s])] BY DEF DesktopResult
  <1>6. \/ call' = call
        \/ /\ FromHolder(r, Owner(s))
           /\ call' = [call EXCEPT ![r] = [call[r] EXCEPT !.future =
                            IF m.ok THEN "ok" ELSE "refused"]]
    BY DEF DesktopResult
  <1>7. \A x \in Sockets : Elems(up'[x]) \subseteq Elems(up[x]) BY <1>2, <1>3, <1>5
  <1>8. SuccessIsApplied' BY <1>1, <1>7 DEF RelayInv, SuccessIsApplied
  <1>9. OpsApplyOnce' BY <1>1 DEF RelayInv, OpsApplyOnce
  <1>10. /\ \A q \in Calls \ {r} : call'[q] = call[q]
         /\ call'[r].phase = call[r].phase /\ call'[r].gen = call[r].gen
         /\ call'[r].client = call[r].client
         /\ call'[r].dispatched = call[r].dispatched
         /\ \/ call'[r].future = call[r].future
            \/ FromHolder(r, Owner(s)) /\ (call'[r].future = "ok" => m.ok)
    <2>1. call[r] \in CallRecord BY <1>2, <1>4
    <2> HIDE DEF m, r
    <2>2. CASE call' = call BY <2>2
    <2>3. CASE /\ FromHolder(r, Owner(s))
               /\ call' = [call EXCEPT ![r] = [call[r] EXCEPT !.future =
                            IF m.ok THEN "ok" ELSE "refused"]]
      <3>1. call'[r] = [call[r] EXCEPT !.future = IF m.ok THEN "ok" ELSE "refused"]
            /\ \A q \in Calls \ {r} : call'[q] = call[q]
        BY <1>2, <1>4, <2>3
      <3> QED BY <2>1, <2>3, <3>1 DEF CallRecord
    <2> QED BY <1>6, <2>2, <2>3
  <1>11. CallsNameHoldings'
    <2> HIDE DEF m, r
    <2> QED BY <1>1, <1>4, <1>10 DEF RelayInv, CallsNameHoldings
  <1>12. UndispatchedIsUnsent'
    <2> HIDE DEF m, r
    <2> QED BY <1>1, <1>4, <1>10 DEF RelayInv, UndispatchedIsUnsent
  <1>13. ASSUME NEW q \in Calls, call'[q].future = "ok", call[q].future = "none"
         PROVE  /\ active = call[q].client /\ gen = call[q].gen
                /\ \E p \in Pages : ClientOf[p] = call[q].client /\ op[p][q].applied = 1
    <2>1. q = r /\ FromHolder(r, Owner(s)) /\ m.ok BY <1>10, <1>13
    <2>2. PageOf[s] \in Pages /\ Owner(s) = ClientOf[PageOf[s]] BY OwnerIsClient
    <2>3. /\ call[q].phase # "new" /\ call[q].client = Owner(s)
          /\ call[q].gen = gen
      BY <2>1 DEF FromHolder
    <2>4. call[q].client = active BY <2>3 DEF RelayInv, CallsNameHoldings
    <2>5. op[PageOf[s]][q].applied = 1
      BY <1>2, <1>3, <2>1 DEF RelayInv, SuccessIsApplied
    <2> QED BY <2>2, <2>3, <2>4, <2>5
  <1> QED BY <1>8, <1>9, <1>11, <1>12, <1>13 DEF RelayInv, OkWithinTheHoldingStep

-----------------------------------------------------------------------------
(* The page's half.                                                        *)

\* A page's ops change only as: seen, applied once, answered.
LEMMA RelayHears ==
    ASSUME LeaseAssumption, LeaseInv, RelayInv, NEW s \in Sockets, HearRpc(s)
    PROVE  RelayInv' /\ NoAnswer
  <1> DEFINE p == PageOf[s]
             m == Head(down[s])
             r == m.rid
             o == op[p][r]
  <1>1. UNCHANGED <<active, gen, call>> BY DEF HearRpc, leaseVars
  <1>2. /\ TypeOK /\ p \in Pages /\ down[s] \in Seq(ToPage) /\ down[s] # <<>>
        /\ m.kind = "rpc"
    BY OwnerIsClient DEF LeaseInv, TypeOK, HearRpc
  <1>3. m \in Rpc /\ m \in Elems(down[s]) /\ Elems(Tail(down[s])) \subseteq Elems(down[s])
    BY <1>2, QueueTypes, FrameKinds, TakenElems
  <1>4. r \in Calls BY <1>3, FrameFields
  <1>5. o \in OpRecord /\ op \in [Pages -> [Calls -> OpRecord]]
        /\ op[p] \in [Calls -> OpRecord]
    BY <1>2, <1>4 DEF TypeOK
  <1>6. call[r].dispatched BY <1>2, <1>3, <1>4 DEF RelayInv, UndispatchedIsUnsent
  <1>7. \A x \in Sockets : Elems(down'[x]) \subseteq Elems(down[x])
    <2>1. down' = [down EXCEPT ![s] = Tail(down[s])] BY DEF HearRpc
    <2> QED BY <1>2, <1>3, <2>1 DEF TypeOK
  <1>8. \/ /\ op' = op
           /\ (o.state = "answered" /\ Reply(p, r, o.ok)) \/ UNCHANGED up
        \/ /\ o.state = "none" /\ Reply(p, r, FALSE)
           /\ op' = [op EXCEPT ![p] = [op[p] EXCEPT ![r] =
                        [o EXCEPT !.state = "answered"]]]
        \/ /\ o.state = "none" /\ UNCHANGED up
           /\ op' = [op EXCEPT ![p] = [op[p] EXCEPT ![r] =
                        [state |-> "running", applied |-> o.applied + 1,
                         gen |-> m.gen, ok |-> FALSE]]]
    BY DEF HearRpc
  <1>9. /\ o.state = "none" => o.applied = 0 /\ ~o.ok
        /\ o.state = "running" => o.applied = 1
        /\ o.state = "answered" /\ o.ok => o.applied = 1
    BY <1>2, <1>4 DEF RelayInv, OpsApplyOnce
  <1>10. /\ \A q \in Pages, x \in Calls : (q # p \/ x # r) => op'[q][x] = op[q][x]
         /\ \/ op'[p][r] = o
            \/ /\ o.state = "none"
               /\ op'[p][r].state = "answered" /\ ~op'[p][r].ok
            \/ /\ o.state = "none"
               /\ op'[p][r].state = "running" /\ op'[p][r].applied = 1
    <2> HIDE DEF p, r, m
    <2>1. CASE op' = op BY <2>1
    <2>2. CASE /\ o.state = "none"
               /\ op' = [op EXCEPT ![p] = [op[p] EXCEPT ![r] =
                            [o EXCEPT !.state = "answered"]]]
      <3> DEFINE a == [o EXCEPT !.state = "answered"]
      <3>1. a.state = "answered" /\ ~a.ok BY <1>5, <1>9, <2>2 DEF OpRecord
      <3>2. op' = [op EXCEPT ![p] = [op[p] EXCEPT ![r] = a]] BY <2>2
      <3> HIDE DEF a
      <3>3. op'[p][r] = a
            /\ \A q \in Pages, x \in Calls : (q # p \/ x # r) => op'[q][x] = op[q][x]
        BY <1>2, <1>4, <1>5, <3>2
      <3> QED BY <2>2, <3>1, <3>3
    <2>3. CASE /\ o.state = "none"
               /\ op' = [op EXCEPT ![p] = [op[p] EXCEPT ![r] =
                        [state |-> "running", applied |-> o.applied + 1,
                         gen |-> m.gen, ok |-> FALSE]]]
      <3> DEFINE a == [state |-> "running", applied |-> o.applied + 1,
                       gen |-> m.gen, ok |-> FALSE]
      <3>1. a.state = "running" /\ a.applied = 1 BY <1>9, <2>3
      <3>2. op' = [op EXCEPT ![p] = [op[p] EXCEPT ![r] = a]] BY <2>3
      <3> HIDE DEF a
      <3>3. op'[p][r] = a
            /\ \A q \in Pages, x \in Calls : (q # p \/ x # r) => op'[q][x] = op[q][x]
        BY <1>2, <1>4, <1>5, <3>2
      <3> QED BY <2>3, <3>1, <3>3
    <2> QED BY <1>8, <2>1, <2>2, <2>3
  <1>11. CallsNameHoldings' BY <1>1 DEF RelayInv, CallsNameHoldings
  <1>12. UndispatchedIsUnsent'
    <2> HIDE DEF p, r, m, o
    <2>1. \A q \in Calls : ~call[q].dispatched => q # r BY <1>6
    <2> QED BY <1>1, <1>7, <1>10, <2>1 DEF RelayInv, UndispatchedIsUnsent
  <1>13. OpsApplyOnce'
    <2>1. ASSUME NEW q \in Pages, NEW x \in Calls
          PROVE  /\ op'[q][x].state = "none" => op'[q][x].applied = 0 /\ ~op'[q][x].ok
                 /\ op'[q][x].state = "running" => op'[q][x].applied = 1
                 /\ op'[q][x].state = "answered" /\ op'[q][x].ok => op'[q][x].applied = 1
      <3>1. CASE q = p /\ x = r
        <4> HIDE DEF p, r, m
        <4> QED BY <1>9, <1>10, <3>1
      <3>2. CASE ~(q = p /\ x = r) BY <1>10, <3>2 DEF RelayInv, OpsApplyOnce
      <3> QED BY <3>1, <3>2
    <2> QED BY <2>1 DEF OpsApplyOnce
  <1>14. \A q \in Pages : \A x : op[q][x].applied = 1 /\ x \in Calls => op'[q][x].applied = 1
    <2> HIDE DEF p, r, m
    <2> QED BY <1>9, <1>10
  <1>15. \A x \in Sockets : \A n \in Elems(up'[x]) :
            n \in Elems(up[x]) \/ ~n.ok
            \/ (PageOf[x] = p /\ n.rid = r /\ op[p][r].applied = 1 /\ op' = op)
    <2>1. CASE UNCHANGED up BY <2>1
    <2>2. CASE o.state = "answered" /\ Reply(p, r, o.ok) /\ op' = op
      <3>1. o.ok \in BOOLEAN BY <1>5, OpUpdates
      <3>2. \A x \in Sockets : \A n \in Elems(up'[x]) :
                n \in Elems(up[x]) \/ (PageOf[x] = p /\ n.rid = r /\ n.ok = o.ok)
        BY <1>2, <1>4, <2>2, <3>1, ReplyElems
      <3> HIDE DEF p, r, m
      <3> QED BY <1>9, <2>2, <3>2
    <2>3. CASE Reply(p, r, FALSE)
      <3>1. \A x \in Sockets : \A n \in Elems(up'[x]) :
                n \in Elems(up[x]) \/ (PageOf[x] = p /\ n.rid = r /\ n.ok = FALSE)
        <4>1. r \in Calls /\ p \in Pages /\ TypeOK /\ FALSE \in BOOLEAN BY <1>2, <1>4
        <4> HIDE DEF p, r, m
        <4> QED BY <2>3, <4>1, ReplyElems
      <3> HIDE DEF p, r, m
      <3> QED BY <3>1
    <2>4. \/ UNCHANGED up
          \/ o.state = "answered" /\ Reply(p, r, o.ok) /\ op' = op
          \/ Reply(p, r, FALSE)
      BY <1>8, Zenon
    <2> HIDE DEF p, r, m, o
    <2> QED BY <2>1, <2>2, <2>3, <2>4, Zenon
  <1>16. SuccessIsApplied'
    <2> SUFFICES ASSUME NEW x \in Sockets, NEW n \in Elems(up'[x]),
                        n.kind = "result", n.ok
                 PROVE  op'[PageOf[x]][n.rid].applied = 1
      BY DEF SuccessIsApplied
    <2>1. PageOf[x] \in Pages BY OwnerIsClient
    <2>2. CASE n \in Elems(up[x])
      <3>1. op[PageOf[x]][n.rid].applied = 1 BY <2>2 DEF RelayInv, SuccessIsApplied
      <3>2. n.rid \in Calls
        <4>1. up[x] \in Seq(ToBroker) BY <1>2 DEF TypeOK
        <4>2. \A i \in 1..Len(up[x]) : up[x][i] \in ToBroker BY <4>1
        <4>3. n \in ToBroker BY <2>2, <4>2 DEF Elems
        <4> QED BY <4>3, FrameKinds, FrameFields
      <3> HIDE DEF p, r, m
      <3> QED BY <1>14, <2>1, <3>1, <3>2
    <2>3. CASE n \notin Elems(up[x])
      <3>1. PageOf[x] = p /\ n.rid = r /\ op[p][r].applied = 1 /\ op' = op
        BY <1>15, <2>3
      <3> QED BY <3>1
    <2> QED BY <2>2, <2>3
  <1> QED BY <1>1, <1>11, <1>12, <1>13, <1>16 DEF RelayInv, NoAnswer

\* The answer of a page whose /state push is over.
LEMMA RelayAnswers ==
    ASSUME LeaseAssumption, LeaseInv, RelayInv, NEW p \in Pages, NEW r \in Calls,
           Answer(p, r)
    PROVE  RelayInv' /\ NoAnswer
  <1> DEFINE o == op[p][r]
             held == HeldThroughout(p, r)
             a == [o EXCEPT !.state = "answered", !.ok = held]
  <1>1. UNCHANGED <<active, gen, call, down>> BY DEF Answer, leaseVars
  <1>2. held \in BOOLEAN BY DEF HeldThroughout, LeaseLost
  <1>3. o \in OpRecord /\ op \in [Pages -> [Calls -> OpRecord]]
        /\ op[p] \in [Calls -> OpRecord]
    BY DEF LeaseInv, TypeOK
  <1>4. o.state = "running" /\ o.applied = 1 BY DEF Answer, RelayInv, OpsApplyOnce
  <1>5. op' = [op EXCEPT ![p] = [op[p] EXCEPT ![r] = a]]
    BY <1>3 DEF Answer
  <1>6. a.state = "answered" /\ a.applied = 1
    <2> HIDE DEF held
    <2> QED BY <1>3, <1>4 DEF OpRecord
  <1>7. /\ \A q \in Pages, x \in Calls : (q # p \/ x # r) => op'[q][x] = op[q][x]
        /\ op'[p][r].state = "answered" /\ op'[p][r].applied = 1
    <2> HIDE DEF a
    <2>1. op'[p][r] = a
          /\ \A q \in Pages, x \in Calls : (q # p \/ x # r) => op'[q][x] = op[q][x]
      BY <1>3, <1>5
    <2> QED BY <1>6, <2>1
  <1>8. CallsNameHoldings' BY <1>1 DEF RelayInv, CallsNameHoldings
  <1>9. UndispatchedIsUnsent'
    <2>1. call[r].dispatched BY <1>4 DEF RelayInv, UndispatchedIsUnsent
    <2> QED BY <1>1, <1>7, <2>1 DEF RelayInv, UndispatchedIsUnsent
  <1>10. OpsApplyOnce'
    <2>1. ASSUME NEW q \in Pages, NEW x \in Calls
          PROVE  /\ op'[q][x].state = "none" => op'[q][x].applied = 0 /\ ~op'[q][x].ok
                 /\ op'[q][x].state = "running" => op'[q][x].applied = 1
                 /\ op'[q][x].state = "answered" /\ op'[q][x].ok => op'[q][x].applied = 1
      <3>1. CASE q = p /\ x = r BY <1>7, <3>1
      <3>2. CASE ~(q = p /\ x = r) BY <1>7, <3>2 DEF RelayInv, OpsApplyOnce
      <3> QED BY <3>1, <3>2
    <2> QED BY <2>1 DEF OpsApplyOnce
  <1>11. \A x \in Sockets : \A n \in Elems(up'[x]) :
            n \in Elems(up[x]) \/ (PageOf[x] = p /\ n.rid = r)
    <2>1. Reply(p, r, held) BY DEF Answer
    <2> HIDE DEF held
    <2> QED BY <1>2, <2>1, ReplyElems
  <1>12. SuccessIsApplied'
    <2> SUFFICES ASSUME NEW x \in Sockets, NEW n \in Elems(up'[x]),
                        n.kind = "result", n.ok
                 PROVE  op'[PageOf[x]][n.rid].applied = 1
      BY DEF SuccessIsApplied
    <2>1. PageOf[x] \in Pages BY OwnerIsClient
    <2>2. CASE n \in Elems(up[x])
      <3>1. op[PageOf[x]][n.rid].applied = 1 BY <2>2 DEF RelayInv, SuccessIsApplied
      <3>2. n.rid \in Calls
        <4>1. up[x] \in Seq(ToBroker) BY DEF LeaseInv, TypeOK
        <4>2. \A i \in 1..Len(up[x]) : up[x][i] \in ToBroker BY <4>1
        <4>3. n \in ToBroker BY <2>2, <4>2 DEF Elems
        <4> QED BY <4>3, FrameKinds, FrameFields
      <3> QED BY <1>7, <2>1, <3>1, <3>2
    <2>3. CASE n \notin Elems(up[x]) BY <1>7, <1>11, <2>3
    <2> QED BY <2>2, <2>3
  <1> QED BY <1>1, <1>8, <1>9, <1>10, <1>12 DEF RelayInv, NoAnswer

-----------------------------------------------------------------------------
LEMMA RelayStep ==
    ASSUME LeaseAssumption, LeaseInv, RelayInv, [Next]_vars
    PROVE  RelayInv' /\ OkWithinTheHoldingStep
  <1>1. NoAnswer => OkWithinTheHoldingStep
    BY DEF NoAnswer, OkWithinTheHoldingStep
  <1>2. CASE UNCHANGED vars
    <2>1. UNCHANGED <<active, gen, call, op, down, up>>
      BY <1>2 DEF vars, leaseVars, callVars
    <2> QED BY <1>1, <2>1, RelayAside
  <1>3. CASE Next
    BY <1>1, <1>3, RelayBroker, RelaySocketSteps, RelayResult, RelayCall,
       RelayTry, RelayHears, RelayClick, RelayAnswers DEF Next
  <1> QED BY <1>2, <1>3

LEMMA RelayInit == Init => RelayInv
  <1> SUFFICES ASSUME Init PROVE RelayInv
    OBVIOUS
  <1>1. \A s \in Sockets : Elems(down[s]) = {} /\ Elems(up[s]) = {}
    BY ElemsEmpty DEF Init
  <1>2. \A r \in Calls : call[r].phase = "new" BY DEF Init, NoCall
  <1>3. \A p \in Pages, r \in Calls :
            op[p][r].state = "none" /\ op[p][r].applied = 0 /\ ~op[p][r].ok
    BY DEF Init
  <1>4. CallsNameHoldings BY <1>2 DEF CallsNameHoldings
  <1>5. UndispatchedIsUnsent BY <1>1, <1>3 DEF UndispatchedIsUnsent
  <1>6. OpsApplyOnce BY <1>3 DEF OpsApplyOnce
  <1>7. SuccessIsApplied BY <1>1 DEF SuccessIsApplied
  <1> QED BY <1>4, <1>5, <1>6, <1>7 DEF RelayInv

\* An agent told that its call was lost before it was dispatched may retry: no
\* page applied it or will.  And a success it hears was applied by a page of the
\* holder, in the holding the call was made to.
THEOREM RelayAnswersTruly ==
    ASSUME LeaseAssumption PROVE Spec => RelayAnswersAreTrue
  <1>1. Init => LeaseInv /\ RelayInv BY InitInv, RelayInit
  <1>2. LeaseInv /\ RelayInv /\ [Next]_vars =>
            /\ (LeaseInv /\ RelayInv)'
            /\ [OkWithinTheHoldingStep]_vars
    BY InvStep, RelayStep
  <1>3. LeaseInv /\ RelayInv => UndispatchedIsNotApplied
    <2> SUFFICES ASSUME LeaseInv, RelayInv, NEW r \in Calls, ~call[r].dispatched
                 PROVE  /\ \A p \in Pages : op[p][r].applied = 0
                        /\ \A s \in Sockets : \A i \in DOMAIN down[s] :
                                down[s][i].kind = "rpc" => down[s][i].rid # r
      BY DEF UndispatchedIsNotApplied
    <2>1. \A p \in Pages : op[p][r].applied = 0
      BY DEF RelayInv, UndispatchedIsUnsent, OpsApplyOnce
    <2>2. ASSUME NEW s \in Sockets, NEW i \in DOMAIN down[s], down[s][i].kind = "rpc"
          PROVE  down[s][i].rid # r
      <3>1. down[s] \in Seq(ToPage) BY DEF LeaseInv, TypeOK
      <3>2. i \in 1..Len(down[s]) BY <3>1
      <3>3. down[s][i] \in Elems(down[s]) BY <3>2 DEF Elems
      <3> QED BY <2>2, <3>3 DEF RelayInv, UndispatchedIsUnsent
    <2> QED BY <2>1, <2>2
  <1>4. (LeaseInv /\ RelayInv)' => UndispatchedIsNotApplied' BY <1>3, PTL
  <1>5. LeaseInv /\ RelayInv /\ [Next]_vars =>
            [UndispatchedIsNotApplied' /\ OkWithinTheHoldingStep]_vars
    BY <1>2, <1>4
  <1> QED BY <1>1, <1>2, <1>5, PTL DEF Spec, RelayAnswersAreTrue

===============================================================================
