------------------------ MODULE TerminalControlProofs ------------------------
(***************************************************************************)
(* Proofs about TerminalControl, for any number of windows, producers and  *)
(* sockets: the type invariant, with the two facts it rests on (a socket   *)
(* past its dial has a target, and the publisher works on the head of a    *)
(* queue that is not empty); and the control invariants, of which CInv is  *)
(* the strengthening; that TerminalControl implements DriveRights; in the  *)
(* second half, what a socket is told of all this; and last, what a page   *)
(* makes of it (ControlledView): it is never shown an older view.          *)
(***************************************************************************)
EXTENDS TerminalControl, TLAPS

\* A socket past its dial knows its entry.
Dialled == \A s \in Sockets : stage[s] # "idle" => target[s] \in Entries

\* While a publication is being sent its task is the head of the queue.
Publishing ==
    \A w \in Windows : section[w].kind \in {"revoke", "send"}
                            => pending[w] # <<>>

TInv == TypeOK /\ Dialled /\ Publishing

\* The tail of a queue of publications and its first element have their types.
LEMMA QueueTypes ==
    ASSUME NEW S, NEW q \in Seq(S)
    PROVE  /\ \A x \in S : Append(q, x) \in Seq(S) /\ Append(q, x) # <<>>
           /\ q # <<>> => Head(q) \in S /\ Tail(q) \in Seq(S)
<1>1. ASSUME NEW x \in S PROVE Append(q, x) \in Seq(S) /\ Append(q, x) # <<>>
  <2>1. Append(q, x) \in Seq(S)
    OBVIOUS
  <2>2. Len(Append(q, x)) = Len(q) + 1
    OBVIOUS
  <2>3. Len(q) + 1 # Len(<<>>)
    OBVIOUS
  <2>4. QED BY <2>1, <2>2, <2>3
<1>2. ASSUME q # <<>> PROVE Head(q) \in S /\ Tail(q) \in Seq(S)
  BY <1>2
<1>3. QED BY <1>1, <1>2

LEMMA NullsTyped ==
    /\ NoDrive \in [entry : Entries, sock : Sockets] \cup {NoDrive}
    /\ Idle \in Sections
    /\ \A g \in Nat : Free(g) \in Views
  BY DEF Idle, Sections, Free, Views

\* Commit keeps the types of what it changes, and no queue becomes empty.
LEMMA CommitTypes ==
    ASSUME TInv, NEW e \in Entries, NEW s \in Sockets \cup {Nobody},
           NEW loser \in Sockets \cup {Nobody}, Commit(e, s, loser)
    PROVE  /\ seq' \in Nat
           /\ controller' \in [Entries -> Sockets \cup {Nobody}]
           /\ controlGen' \in [Entries -> Nat]
           /\ pending' \in [Windows -> Seq(Publications)]
           /\ \A w \in Windows : pending[w] # <<>> => pending'[w] # <<>>
<1> DEFINE p == [entry |-> e, lost |-> loser,
                 view |-> [state |-> IF s = Nobody THEN "free" ELSE "controlled",
                           gen |-> seq + 1]]
<1>1. p \in Publications
  BY DEF TInv, TypeOK, Publications, Views
<1>2. WindowOf[e] \in Windows
  BY WindowAssumption
<1>3. \A w \in Windows : pending[w] \in Seq(Publications)
  BY DEF TInv, TypeOK
<1>4. pending' = [pending EXCEPT ![WindowOf[e]] = Append(@, p)]
  BY DEF Commit
<1>5. \A w \in Windows :
        /\ Append(pending[w], p) \in Seq(Publications)
        /\ Append(pending[w], p) # <<>>
  BY <1>1, <1>3, QueueTypes
<1>6. /\ pending' \in [Windows -> Seq(Publications)]
      /\ \A w \in Windows : pending[w] # <<>> => pending'[w] # <<>>
  <2> HIDE DEF p
  <2> QED BY <1>2, <1>4, <1>5 DEF TInv, TypeOK
<1>7. seq' \in Nat
  BY DEF Commit, TInv, TypeOK
<1>8. controller' \in [Entries -> Sockets \cup {Nobody}]
  BY DEF Commit, TInv, TypeOK
<1>9. controlGen' \in [Entries -> Nat]
  BY DEF Commit, TInv, TypeOK
<1>10. QED BY <1>6, <1>7, <1>8, <1>9

\* So does a release that may have nothing to release.
LEMMA ReleaseIfTypes ==
    ASSUME TInv, NEW held_ \in BOOLEAN, NEW e \in Entries, ReleaseIf(held_, e)
    PROVE  /\ seq' \in Nat
           /\ controller' \in [Entries -> Sockets \cup {Nobody}]
           /\ controlGen' \in [Entries -> Nat]
           /\ pending' \in [Windows -> Seq(Publications)]
           /\ \A w \in Windows : pending[w] # <<>> => pending'[w] # <<>>
<1>1. CASE held_
  BY <1>1, CommitTypes DEF ReleaseIf, Release
<1>2. CASE ~held_
  BY <1>2 DEF ReleaseIf, controlVars, TInv, TypeOK
<1>3. QED BY <1>1, <1>2

-----------------------------------------------------------------------------
LEMMA InitTInv == Init => TInv
  BY NullAssumption DEF Init, TInv, TypeOK, Dialled, Publishing, Free, Idle,
     Views, Sections, NoDrive, NoClick

LEMMA RegisterTInv ==
    ASSUME TInv, NEW e \in Entries, Register(e) PROVE TInv'
<1> USE WindowAssumption DEF TInv, Register
<1> DEFINE w == WindowOf[e]
           old == current[w]
           p == [entry |-> old, lost |-> Nobody, view |-> Free(seq + 1)]
<1>1. w \in Windows /\ old \in Entries \cup {NoEntry}
  BY DEF TypeOK
<1>2. /\ pending' \in [Windows -> Seq(Publications)]
      /\ \A x \in Windows : pending[x] # <<>> => pending'[x] # <<>>
  <2>1. CASE old # NoEntry /\ controller[old] # Nobody
    <3>1. p \in Publications
      BY <1>1, <2>1 DEF TypeOK, Publications, Views, Free
    <3>2. pending' = [pending EXCEPT ![w] = Append(@, p)]
      BY <2>1
    <3>3. \A x \in Windows : pending[x] \in Seq(Publications)
      BY DEF TypeOK
    <3> HIDE DEF p, w, Register
    <3>4. Append(pending[w], p) \in Seq(Publications) /\ Append(pending[w], p) # <<>>
      BY <1>1, <3>1, <3>3, QueueTypes
    <3>5. QED BY <1>1, <3>2, <3>4 DEF TypeOK
  <2>2. CASE ~(old # NoEntry /\ controller[old] # Nobody)
    BY <2>2 DEF TypeOK
  <2>3. QED BY <2>1, <2>2
<1>3. seq' \in Nat /\ controlGen' \in [Entries -> Nat]
  BY DEF TypeOK
<1>4. /\ session' \in
            [Entries -> {"new", "running", "exiting", "over", "stranded"}]
      /\ closing' \in [Entries -> BOOLEAN]
  BY DEF TypeOK
<1>5. current' \in [Windows -> Entries \cup {NoEntry}]
  BY <1>1 DEF TypeOK
<1>6. controller' \in [Entries -> Sockets \cup {Nobody}]
  BY DEF TypeOK, ForceReleased
<1>7. sweep' \in [Entries -> SUBSET Sockets]
  BY <1>1 DEF TypeOK
<1>8. published' \in [Entries -> Views]
  BY <1>3 DEF TypeOK, Views, Free
<1>9. TypeOK'
  BY <1>2, <1>3, <1>4, <1>5, <1>6, <1>7, <1>8
  DEF TypeOK, attachVars, socketVars, desktopVars
<1>10. (Dialled /\ Publishing)'
  BY <1>2 DEF Dialled, Publishing, socketVars
<1>11. QED BY <1>9, <1>10

LEMMA ProducerTInv ==
    ASSUME TInv, NEW e \in Entries,
           SweepOne(e) \/ RegisterCancelled(e)
             \/ ProducerExits(e) \/ ProducerEnds(e)
             \/ \E s \in Sockets : BroadcastFails(e, s)
    PROVE  TInv'
<1> USE WindowAssumption, NullAssumption DEF TInv
<1>1. CASE SweepOne(e) \/ RegisterCancelled(e)
  <2>1. CloseOne(e) \/ UNCHANGED <<sweep, ending>>
    BY <1>1 DEF SweepOne, RegisterCancelled
  <2>2. /\ sweep' \in [Entries -> SUBSET Sockets]
        /\ ending' \in [Sockets -> BOOLEAN]
    <3>1. sweep \in [Entries -> SUBSET Sockets] /\ ending \in [Sockets -> BOOLEAN]
      BY DEF TypeOK
    <3>2. CASE CloseOne(e)
      <4>1. PICK s \in sweep[e] :
                /\ sweep' = [sweep EXCEPT ![e] = @ \ {s}]
                /\ ending' = [ending EXCEPT ![s] = TRUE]
        BY <3>2 DEF CloseOne
      <4>2. QED BY <3>1, <4>1
    <3>3. QED BY <2>1, <3>1, <3>2
  <2>3. session' \in {session, [session EXCEPT ![e] = "stranded"]}
    BY <1>1 DEF SweepOne, RegisterCancelled
  <2>4. session' \in
            [Entries -> {"new", "running", "exiting", "over", "stranded"}]
    BY <2>3 DEF TypeOK
  <2>5. /\ UNCHANGED <<current, closing, controlVars, attachVars, publishVars,
                       stage, target, held, desktopVars, lost>>
        /\ drove' = NoDrive
    BY <1>1 DEF SweepOne, RegisterCancelled
  <2>6. TypeOK'
    BY <2>2, <2>4, <2>5
    DEF TypeOK, controlVars, attachVars, publishVars, desktopVars
  <2>7. (Dialled /\ Publishing)'
    BY <2>5 DEF Dialled, Publishing, controlVars, publishVars
  <2>8. QED BY <2>6, <2>7
<1>2. CASE ProducerExits(e)
  BY <1>2 DEF ProducerExits, TypeOK, Dialled, Publishing, controlVars,
     attachVars, publishVars, socketVars, desktopVars
<1>3. CASE ProducerEnds(e)
  <2>1. /\ seq' \in Nat
        /\ controller' \in [Entries -> Sockets \cup {Nobody}]
        /\ controlGen' \in [Entries -> Nat]
        /\ pending' \in [Windows -> Seq(Publications)]
        /\ \A w \in Windows : pending[w] # <<>> => pending'[w] # <<>>
    BY <1>3, ReleaseIfTypes DEF ProducerEnds, Deregister
  <2>2. QED
    BY <1>3, <2>1 DEF ProducerEnds, Deregister, TypeOK, Dialled, Publishing,
       attachVars, publishVars, socketVars, desktopVars
<1>4. CASE \E s \in Sockets : BroadcastFails(e, s)
  BY <1>4 DEF BroadcastFails, Unsubscribe, TypeOK, Dialled, Publishing,
     registryVars, controlVars, publishVars, socketVars, desktopVars
<1>5. QED BY <1>1, <1>2, <1>3, <1>4

\* DropStalled keeps the types of what it changes.
LEMMA DropTypes ==
    ASSUME TInv, NEW e \in Entries, NEW s \in Sockets, DropStalled(e, s)
    PROVE  /\ seq' \in Nat
           /\ controller' \in [Entries -> Sockets \cup {Nobody}]
           /\ controlGen' \in [Entries -> Nat]
           /\ pending' \in [Windows -> Seq(Publications)]
           /\ \A w \in Windows : pending[w] # <<>> => pending'[w] # <<>>
           /\ subscribers' \in [Entries -> SUBSET Sockets]
           /\ revoked' \in [Entries -> SUBSET Sockets]
           /\ ending' \in [Sockets -> BOOLEAN]
<1>1. ReleaseIf(controller[e] = s, e) /\ (controller[e] = s) \in BOOLEAN
  BY DEF DropStalled
<1>2. /\ subscribers' \in [Entries -> SUBSET Sockets]
      /\ revoked' \in [Entries -> SUBSET Sockets]
      /\ ending' \in [Sockets -> BOOLEAN]
  BY DEF DropStalled, Unsubscribe, TInv, TypeOK
<1>3. QED BY <1>1, <1>2, ReleaseIfTypes

LEMMA PublisherTInv ==
    ASSUME TInv, NEW w \in Windows,
           StartPublication(w) \/ SendRevoked(w) \/ SendView(w)
             \/ FinishPublication(w)
    PROVE  TInv'
<1> USE DEF TInv
<1> DEFINE p == Head(pending[w])
<1>1. pending[w] # <<>> => p \in Publications /\ Tail(pending[w]) \in Seq(Publications)
  BY QueueTypes DEF TypeOK
<1>2. section[w] \in Sections
  BY DEF TypeOK
<1>3. CASE StartPublication(w)
  <2>1. p \in Publications
    BY <1>1, <1>3 DEF StartPublication
  <2>2. section' \in [Windows -> Sections]
    <3>1. p.lost # Nobody => [kind |-> "revoke", socks |-> {p.lost}] \in Sections
      BY <2>1 DEF Publications, Sections
    <3>2. [kind |-> "send", socks |-> subscribers[p.entry]] \in Sections
      BY <2>1 DEF Publications, Sections, TypeOK
    <3>3. QED BY <1>3, <3>1, <3>2 DEF StartPublication, TypeOK
  <2>3. QED
    BY <1>3, <2>2 DEF StartPublication, TypeOK, Dialled, Publishing,
       registryVars, controlVars, attachVars, socketVars, desktopVars
<1>4. CASE SendRevoked(w)
  <2>1. p \in Publications /\ p.entry \in Entries
    BY <1>1, <1>4 DEF SendRevoked, Publishing, Publications
  <2>2. PICK s \in section[w].socks :
            \/ /\ ~ending[s]
               /\ UNCHANGED <<attachVars, controlVars, ending>>
            \/ DropStalled(p.entry, s)
    BY <1>4 DEF SendRevoked
  <2>3. s \in Sockets
    BY <1>2 DEF Sections
  <2>4. /\ seq' \in Nat
        /\ controller' \in [Entries -> Sockets \cup {Nobody}]
        /\ controlGen' \in [Entries -> Nat]
        /\ pending' \in [Windows -> Seq(Publications)]
        /\ \A x \in Windows : pending[x] # <<>> => pending'[x] # <<>>
        /\ subscribers' \in [Entries -> SUBSET Sockets]
        /\ revoked' \in [Entries -> SUBSET Sockets]
        /\ ending' \in [Sockets -> BOOLEAN]
    BY <2>1, <2>2, <2>3, DropTypes DEF TypeOK, attachVars, controlVars
  <2>5. section' \in [Windows -> Sections]
    BY <1>4, <2>1, <2>4 DEF SendRevoked, Sections, TypeOK
  <2>6. Publishing'
    BY <1>4, <2>4 DEF SendRevoked, Publishing, TypeOK
  <2>7. QED
    BY <1>4, <2>4, <2>5, <2>6 DEF SendRevoked, TypeOK, Dialled, registryVars,
       desktopVars
<1>5. CASE SendView(w)
  <2>1. p \in Publications /\ p.entry \in Entries /\ p.view \in Views
    BY <1>1, <1>5 DEF SendView, Publishing, Publications
  <2>2. PICK s \in section[w].socks :
            /\ section' = [section EXCEPT ![w].socks = @ \ {s}]
            /\ \/ /\ ~ending[s]
                  /\ seen' = [seen EXCEPT ![s] = p.view]
                  /\ UNCHANGED <<attachVars, controlVars, ending>>
               \/ /\ DropStalled(p.entry, s)
                  /\ UNCHANGED seen
    BY <1>5 DEF SendView
  <2>3. s \in Sockets
    BY <1>2 DEF Sections
  <2>4. /\ seq' \in Nat
        /\ controller' \in [Entries -> Sockets \cup {Nobody}]
        /\ controlGen' \in [Entries -> Nat]
        /\ pending' \in [Windows -> Seq(Publications)]
        /\ \A x \in Windows : pending[x] # <<>> => pending'[x] # <<>>
        /\ subscribers' \in [Entries -> SUBSET Sockets]
        /\ revoked' \in [Entries -> SUBSET Sockets]
        /\ ending' \in [Sockets -> BOOLEAN]
    <3>1. CASE UNCHANGED <<attachVars, controlVars, ending>>
      BY <3>1 DEF TypeOK, attachVars, controlVars
    <3>2. CASE DropStalled(p.entry, s) BY <2>1, <2>3, <3>2, DropTypes
    <3> QED BY <2>2, <3>1, <3>2
  <2>5. /\ section' \in [Windows -> Sections]
        /\ \A x \in Windows : section'[x].kind = section[x].kind
    BY <1>2, <2>2 DEF Sections, TypeOK
  <2>6. seen' \in [Sockets -> Views]
    BY <2>1, <2>2 DEF TypeOK
  <2>7. Publishing'
    BY <2>4, <2>5 DEF Publishing
  <2>8. QED
    BY <1>5, <2>4, <2>5, <2>6, <2>7 DEF SendView, TypeOK, Dialled,
       registryVars, desktopVars
<1>6. CASE FinishPublication(w)
  <2>1. p \in Publications /\ Tail(pending[w]) \in Seq(Publications)
    BY <1>1, <1>6 DEF FinishPublication, Publishing
  <2>2. /\ pending' \in [Windows -> Seq(Publications)]
        /\ \A x \in Windows \ {w} : pending'[x] = pending[x]
    BY <1>6, <2>1 DEF FinishPublication, TypeOK
  <2>3. published' \in [Entries -> Views]
    BY <1>6, <2>1 DEF FinishPublication, Recorded, Publications, TypeOK
  <2>4. section' \in [Windows -> Sections]
    BY <1>6, NullsTyped DEF FinishPublication, TypeOK
  <2>5. Publishing'
    BY <1>6, <2>2 DEF FinishPublication, Publishing, Idle, TypeOK
  <2>6. QED
    BY <1>6, <2>2, <2>3, <2>4, <2>5 DEF FinishPublication, TypeOK, Dialled,
       registryVars, attachVars, socketVars, desktopVars
<1>7. QED BY <1>3, <1>4, <1>5, <1>6

LEMMA AttachTInv ==
    ASSUME TInv, NEW s \in Sockets,
           \/ \E w \in Windows : Dial(s, w)
           \/ EnterAttach(s) \/ TellAttached(s) \/ PeerCloses(s)
    PROVE  TInv'
<1> USE WindowAssumption, NullAssumption DEF TInv
<1>1. CASE \E w \in Windows : Dial(s, w)
  BY <1>1 DEF Dial, TypeOK, Dialled, Publishing, registryVars, controlVars,
     attachVars, publishVars, desktopVars
<1>2. CASE EnterAttach(s)
  <2>1. target[s] \in Entries /\ WindowOf[target[s]] \in Windows
    BY <1>2 DEF EnterAttach, Dialled
  <2>2. [kind |-> "attach", socks |-> {s}] \in Sections
    BY DEF Sections
  <2>3. section' \in [Windows -> Sections] /\ Publishing'
    <3> DEFINE inside == [kind |-> "attach", socks |-> {s}]
    <3>1. \/ section' = section
          \/ section' = [section EXCEPT ![WindowOf[target[s]]] = inside]
      BY <1>2 DEF EnterAttach
    <3>2. section' \in [Windows -> Sections]
      <4> HIDE DEF inside
      <4> QED BY <2>1, <2>2, <3>1 DEF TypeOK, inside
    <3>3. pending' = pending
      BY <1>2 DEF EnterAttach, controlVars
    <3>4. inside.kind = "attach"
      OBVIOUS
    <3>5. Publishing'
      <4> HIDE DEF inside
      <4> QED BY <2>1, <3>1, <3>3, <3>4 DEF Publishing, TypeOK
    <3>6. QED BY <3>2, <3>5
  <2>4. subscribers' \in [Entries -> SUBSET Sockets]
    <3> DEFINE e == target[s]
    <3>1. /\ subscribers \in [Entries -> SUBSET Sockets]
          /\ subscribers[e] \cup {s} \in SUBSET Sockets
      BY <2>1 DEF TypeOK
    <3>2. \/ subscribers' = subscribers
          \/ subscribers' = [subscribers EXCEPT ![e] = subscribers[e] \cup {s}]
      BY <1>2 DEF EnterAttach
    <3> HIDE DEF e, TInv, TypeOK
    <3> QED BY <2>1, <3>1, <3>2 DEF e
  <2>5. /\ stage' \in [Sockets -> {"idle", "waiting", "telling", "open", "gone"}]
        /\ ending' \in [Sockets -> BOOLEAN]
        /\ Dialled'
    BY <1>2, <2>1 DEF EnterAttach, TypeOK, Dialled
  <2>6. QED
    BY <1>2, <2>3, <2>4, <2>5 DEF EnterAttach, TypeOK, registryVars,
       controlVars, desktopVars
<1>3. CASE TellAttached(s)
  <2>1. target[s] \in Entries
    BY <1>3 DEF TellAttached, Dialled
  <2>2. section' \in [Windows -> Sections] /\ Publishing'
    BY <1>3, NullsTyped DEF TellAttached, SectionLeft, TypeOK, Publishing,
       Idle, controlVars
  <2>3. seen' \in [Sockets -> Views]
    BY <1>3, <2>1 DEF TellAttached, ToldPublished, TypeOK
  <2>4. QED
    BY <1>3, <2>1, <2>2, <2>3 DEF TellAttached, TypeOK, Dialled, registryVars,
       controlVars, attachVars, desktopVars
<1>4. CASE PeerCloses(s)
  BY <1>4 DEF PeerCloses, TypeOK, Dialled, Publishing, registryVars,
     controlVars, attachVars, publishVars, desktopVars
<1>5. QED BY <1>1, <1>2, <1>3, <1>4

LEMMA SocketTInv ==
    ASSUME TInv, NEW s \in Sockets,
           SocketEnds(s) \/ AdmitFrame(s) \/ SendFrame(s) \/ Claim(s)
             \/ ReleaseFrame(s)
    PROVE  TInv'
<1> USE WindowAssumption, NullAssumption DEF TInv
<1> DEFINE e == target[s]
<1>1. e \in Entries
  BY DEF SocketEnds, AdmitFrame, SendFrame, Claim, ReleaseFrame, Dialled
<1>2. CASE SocketEnds(s)
  <2>1. ReleaseIf(HeldBy(e, s), e) /\ HeldBy(e, s) \in BOOLEAN
    BY <1>2 DEF SocketEnds, HeldBy, IsLive
  <2>2. /\ seq' \in Nat
        /\ controller' \in [Entries -> Sockets \cup {Nobody}]
        /\ controlGen' \in [Entries -> Nat]
        /\ pending' \in [Windows -> Seq(Publications)]
        /\ \A x \in Windows : pending[x] # <<>> => pending'[x] # <<>>
    BY <1>1, <2>1, ReleaseIfTypes
  <2>3. section' \in [Windows -> Sections] /\ Publishing'
    BY <1>2, <2>2, NullsTyped DEF SocketEnds, SectionLeft, TypeOK, Publishing,
       Idle
  <2>4. /\ subscribers' \in [Entries -> SUBSET Sockets]
        /\ revoked' \in [Entries -> SUBSET Sockets]
    BY <1>2 DEF SocketEnds, Unsubscribe, TypeOK
  <2>5. /\ stage' \in [Sockets -> {"idle", "waiting", "telling", "open", "gone"}]
        /\ held' \in [Sockets -> BOOLEAN]
        /\ Dialled'
    BY <1>1, <1>2 DEF SocketEnds, TypeOK, Dialled
  <2>6. QED
    BY <1>2, <2>2, <2>3, <2>4, <2>5 DEF SocketEnds, TypeOK, registryVars,
       desktopVars
<1>3. CASE AdmitFrame(s)
  BY <1>3 DEF AdmitFrame, TypeOK, Dialled, Publishing, registryVars,
     controlVars, attachVars, publishVars, desktopVars
<1>4. CASE SendFrame(s)
  BY <1>1, <1>4 DEF SendFrame, TypeOK, Dialled, Publishing, registryVars,
     controlVars, attachVars, publishVars, desktopVars
<1>5. CASE Claim(s)
  <2> DEFINE prev == controller[e]
             loser == IF prev = s THEN Nobody ELSE prev
  <2>1. loser \in Sockets \cup {Nobody}
    BY <1>1 DEF TypeOK
  <2>2. Commit(e, s, loser)
    BY <1>5 DEF Claim
  <2>3. /\ revoked' \in [Entries -> SUBSET Sockets]
        /\ lost' \in [Entries -> SUBSET Sockets]
    BY <1>1, <1>5, <2>1 DEF Claim, Silenced, TypeOK
  <2>4. QED
    BY <1>1, <1>5, <2>1, <2>2, <2>3, CommitTypes DEF Claim, TypeOK, Dialled,
       Publishing, registryVars, publishVars, socketVars, desktopVars
<1>6. CASE ReleaseFrame(s)
  BY <1>1, <1>6, CommitTypes DEF ReleaseFrame, Release, TypeOK, Dialled,
     Publishing, registryVars, attachVars, publishVars, socketVars, desktopVars
<1>7. QED BY <1>2, <1>3, <1>4, <1>5, <1>6

LEMMA DesktopTInv ==
    ASSUME TInv,
           \/ \E c \in Clients \cup {NoClient} : LeaseMoves(c)
           \/ \E w \in Windows : ClickTakeBack(w)
           \/ \E mine \in BOOLEAN : TakeBack(mine)
    PROVE  TInv'
<1> USE NullAssumption DEF TInv
<1>1. CASE \E c \in Clients \cup {NoClient} : LeaseMoves(c)
  BY <1>1 DEF LeaseMoves, TypeOK, Dialled, Publishing, registryVars,
     controlVars, attachVars, publishVars, socketVars
<1>2. CASE \E w \in Windows : ClickTakeBack(w)
  BY <1>2 DEF ClickTakeBack, TypeOK, Dialled, Publishing, registryVars,
     controlVars, attachVars, publishVars, socketVars
<1>3. ASSUME NEW mine \in BOOLEAN, TakeBack(mine) PROVE TInv'
  <2> DEFINE e == current[click.window]
             hit == mine /\ e # NoEntry /\ ControlledAt(e, click.gen)
  <2>1. CASE hit
    <3>1. e \in Entries
      BY <2>1 DEF ControlledAt, IsLive
    <3>2. controller[e] \in Sockets
      BY <2>1, <3>1 DEF ControlledAt, TypeOK
    <3>3. /\ revoked' \in [Entries -> SUBSET Sockets]
          /\ lost' \in [Entries -> SUBSET Sockets]
      <4>1. /\ revoked' = [revoked EXCEPT ![e] = @ \cup {controller[e]}]
            /\ lost' = [lost EXCEPT ![e] = @ \cup {controller[e]}]
        BY <1>3, <2>1 DEF TakeBack
      <4> HIDE DEF e, hit
      <4>2. QED BY <3>1, <3>2, <4>1 DEF TypeOK
    <3>4. Commit(e, Nobody, controller[e])
      BY <1>3, <2>1 DEF TakeBack, Release
    <3>5. QED
      BY <1>3, <3>1, <3>2, <3>3, <3>4, CommitTypes DEF TakeBack, TypeOK,
         Dialled, Publishing, registryVars, publishVars, socketVars
  <2>2. CASE ~hit
    BY <1>3, <2>2 DEF TakeBack, TypeOK, Dialled, Publishing, registryVars,
       controlVars, publishVars, socketVars
  <2>3. QED BY <2>1, <2>2
<1>4. QED BY <1>1, <1>2, <1>3

\* TInv is inductive.
LEMMA TInvStep == ASSUME TInv, [Next]_vars PROVE TInv'
<1>1. ASSUME NEW e \in Entries,
               Register(e) \/ SweepOne(e) \/ RegisterCancelled(e)
      PROVE  TInv'
  BY <1>1, RegisterTInv, ProducerTInv
<1>2. ASSUME NEW e \in Entries, ProducerExits(e) \/ ProducerEnds(e) PROVE TInv'
  BY <1>2, ProducerTInv
<1>3. ASSUME NEW e \in Entries, NEW s \in Sockets, BroadcastFails(e, s)
      PROVE  TInv'
  BY <1>3, ProducerTInv
<1>4. ASSUME NEW w \in Windows,
               StartPublication(w) \/ SendRevoked(w) \/ SendView(w)
                 \/ FinishPublication(w)
      PROVE  TInv'
  BY <1>4, PublisherTInv
<1>5. ASSUME NEW s \in Sockets, NEW w \in Windows, Dial(s, w) PROVE TInv'
  BY <1>5, AttachTInv
<1>6. ASSUME NEW s \in Sockets,
               EnterAttach(s) \/ TellAttached(s) \/ PeerCloses(s)
      PROVE  TInv'
  BY <1>6, AttachTInv
<1>7. ASSUME NEW s \in Sockets,
               SocketEnds(s) \/ AdmitFrame(s) \/ SendFrame(s) \/ Claim(s)
                 \/ ReleaseFrame(s)
      PROVE  TInv'
  BY <1>7, SocketTInv
<1>8. ASSUME NEW c \in Clients \cup {NoClient}, LeaseMoves(c) PROVE TInv'
  BY <1>8, DesktopTInv
<1>9. ASSUME NEW w \in Windows, ClickTakeBack(w) PROVE TInv'
  BY <1>9, DesktopTInv
<1>10. ASSUME NEW mine \in BOOLEAN, TakeBack(mine) PROVE TInv'
  BY <1>10, DesktopTInv
<1>11. CASE UNCHANGED vars
  BY <1>11 DEF vars, TInv, TypeOK, Dialled, Publishing, registryVars,
       controlVars, attachVars, publishVars, socketVars, desktopVars, ghostVars
<1>12. QED
  BY <1>1, <1>2, <1>3, <1>4, <1>5, <1>6, <1>7, <1>8, <1>9, <1>10, <1>11
  DEF Next

LEMMA TInvInvariant == Spec => []TInv
  BY InitTInv, TInvStep, PTL DEF Spec

\* Every variable keeps its type, whatever producers, sockets, the publisher
\* and the desktop do: no queue, set or view of registry.py ever holds None or
\* a stranger.
THEOREM TypeCorrect == Spec => []TypeOK
<1>1. TInv => TypeOK
  BY DEF TInv
<1>2. QED BY TInvInvariant, <1>1, PTL

-----------------------------------------------------------------------------
(***************************************************************************)
(* The control invariants of TerminalControl are not inductive alone.  A   *)
(* release is right only because a controlled entry is the registered one; *)
(* that needs a dying registered entry to be one whose session is exiting; *)
(* and that a loser stays silent needs what the gate reads (`revoked`) to  *)
(* cover what happened (`lost`) for whoever still subscribes.              *)
(***************************************************************************)
\* What is registered is an entry of that id whose session is not over, or was
\* cancelled before it could deregister.
Registered ==
    \A w \in Windows : current[w] # NoEntry =>
        /\ WindowOf[current[w]] = w
        /\ session[current[w]] \in {"running", "exiting", "stranded"}

\* A registered entry is dying exactly while its session is exiting; one that
\* has not said hello is not dying.
DyingIsExiting ==
    \A e \in Entries :
        /\ session[e] = "new" => ~closing[e]
        /\ session[e] = "exiting" => closing[e]
        /\ current[WindowOf[e]] = e /\ closing[e] => session[e] = "exiting"

ControlledIsRegistered ==
    \A e \in Entries : controller[e] # Nobody => current[WindowOf[e]] = e

GensBelowSeq == \A e \in Entries : controlGen[e] <= seq

\* Losers were controllers, so their handlers got past the attach; a controller
\* is no loser; and a loser that still subscribes is in `revoked`.
LosersKnown ==
    \A e \in Entries : \A s \in Sockets :
        /\ s \in lost[e] => stage[s] \in {"open", "gone"}
        /\ s \in lost[e] => controller[e] # s
        /\ s \in lost[e] /\ s \in subscribers[e] => s \in revoked[e]

\* A socket that has not dialled has no terminal.
Undialled == \A s \in Sockets : stage[s] = "idle" => target[s] = NoEntry

CInv ==
    /\ Undialled /\ Registered /\ DyingIsExiting /\ ControlledIsRegistered
    /\ GensBelowSeq /\ LosersKnown
    /\ GrantNeverOutlivesSocket /\ OnlyTheLiveEntryIsControlled

\* What a step may do to the state CInv speaks of without disturbing it: free
\* one controller of a registered entry, with the next generation.
Frees(e) ==
    /\ controller' = [controller EXCEPT ![e] = Nobody]
    /\ controlGen' = [controlGen EXCEPT ![e] = seq + 1]
    /\ seq' = seq + 1

LEMMA ReleaseIfFrees ==
    ASSUME NEW held_ \in BOOLEAN, NEW e \in Entries, ReleaseIf(held_, e)
    PROVE  \/ UNCHANGED <<seq, controller, controlGen>>
           \/ held_ /\ Frees(e)
  BY DEF ReleaseIf, Release, Commit, Frees, controlVars

LEMMA InitCInv == Init => CInv
  BY DEF Init, CInv, Undialled, Registered, DyingIsExiting, ControlledIsRegistered,
     GensBelowSeq, LosersKnown, GrantNeverOutlivesSocket,
     OnlyTheLiveEntryIsControlled

\* Steps that leave registration, control and the gate's sets alone, and only
\* move a socket forward.
LEMMA QuietCInv ==
    ASSUME TInv, CInv,
           UNCHANGED <<current, session, closing, seq, controller, controlGen,
                       revoked, lost>>,
           \A e \in Entries : \A s \in lost[e] :
                s \in subscribers'[e] => s \in subscribers[e],
           \A s \in Sockets : stage[s] = "open" => stage'[s] = "open",
           \A s \in Sockets : stage[s] = "gone" => stage'[s] = "gone",
           \A s \in Sockets : stage[s] # "idle" =>
                target'[s] = target[s] /\ stage'[s] # "idle",
           \A s \in Sockets : stage'[s] = "idle" => target'[s] = target[s]
    PROVE  CInv'
<1>1. (Registered /\ DyingIsExiting /\ ControlledIsRegistered
         /\ GensBelowSeq /\ OnlyTheLiveEntryIsControlled)'
  BY DEF CInv, Registered, DyingIsExiting, ControlledIsRegistered,
     GensBelowSeq, OnlyTheLiveEntryIsControlled
<1>2. LosersKnown'
  BY DEF CInv, LosersKnown
<1>3. Undialled'
  BY DEF CInv, Undialled
<1>4. GrantNeverOutlivesSocket'
  <2> SUFFICES ASSUME NEW e \in Entries, controller[e] # Nobody
               PROVE  /\ target'[controller[e]] = e
                      /\ stage'[controller[e]] = "open" \/ session[e] = "exiting"
    BY DEF GrantNeverOutlivesSocket
  <2>1. controller[e] \in Sockets
    BY DEF TInv, TypeOK
  <2>2. target[controller[e]] = e /\ e # NoEntry
    BY NullAssumption DEF CInv, GrantNeverOutlivesSocket
  <2>3. QED BY <2>1, <2>2 DEF CInv, GrantNeverOutlivesSocket, Undialled
<1>5. QED BY <1>1, <1>2, <1>3, <1>4 DEF CInv

\* A cancelled register() leaves its entry registered, not dying.
LEMMA CancelledStep ==
    ASSUME TInv, CInv, NEW e \in Entries, RegisterCancelled(e)
    PROVE  CInv'
<1> USE DEF TInv, TypeOK
<1>1. /\ session[e] = "running"
      /\ session' = [session EXCEPT ![e] = "stranded"]
      /\ UNCHANGED <<current, closing, seq, controller, controlGen, subscribers,
                     revoked, lost, stage, target>>
  BY DEF RegisterCancelled, controlVars, attachVars
<1>2. (Undialled /\ LosersKnown /\ GensBelowSeq /\ ControlledIsRegistered)'
  BY <1>1 DEF CInv, Undialled, LosersKnown, GensBelowSeq, ControlledIsRegistered
<1>3. (Registered /\ DyingIsExiting)'
  BY <1>1 DEF CInv, Registered, DyingIsExiting
<1>4. (GrantNeverOutlivesSocket /\ OnlyTheLiveEntryIsControlled)'
  BY <1>1 DEF CInv, GrantNeverOutlivesSocket, OnlyTheLiveEntryIsControlled
<1>5. QED BY <1>2, <1>3, <1>4 DEF CInv

\* Steps that only move a socket, the publisher, the lease or a request.
LEMMA QuietSteps ==
    ASSUME TInv, CInv,
           \/ \E e \in Entries : SweepOne(e) \/ RegisterCancelled(e)
           \/ \E w \in Windows : StartPublication(w) \/ FinishPublication(w)
           \/ \E s \in Sockets, w \in Windows : Dial(s, w)
           \/ \E s \in Sockets : EnterAttach(s) \/ TellAttached(s) \/ PeerCloses(s)
           \/ \E s \in Sockets : AdmitFrame(s) \/ SendFrame(s)
           \/ \E c \in Clients \cup {NoClient} : LeaseMoves(c)
           \/ \E w \in Windows : ClickTakeBack(w)
           \/ UNCHANGED vars
    PROVE  CInv'
<1> USE DEF TInv, TypeOK, registryVars, controlVars, attachVars, publishVars,
     socketVars, desktopVars
<1>1. CASE \E e \in Entries : SweepOne(e)
  BY <1>1, QuietCInv DEF SweepOne
<1>2. CASE \E w \in Windows : StartPublication(w) \/ FinishPublication(w)
  BY <1>2, QuietCInv DEF StartPublication, FinishPublication
<1>3. CASE \E s \in Sockets, w \in Windows : Dial(s, w)
  BY <1>3, QuietCInv DEF Dial
<1>4. ASSUME NEW s \in Sockets, EnterAttach(s) PROVE CInv'
  <2>1. \A e \in Entries : s \notin lost[e]
    BY <1>4 DEF EnterAttach, CInv, LosersKnown
  <2>2. \A e \in Entries : \A x \in lost[e] :
            x \in subscribers'[e] => x \in subscribers[e]
    <3>1. \/ subscribers' = subscribers
          \/ subscribers' = [subscribers EXCEPT ![target[s]] = @ \cup {s}]
      BY <1>4 DEF EnterAttach
    <3>2. target[s] \in Entries /\ subscribers \in [Entries -> SUBSET Sockets]
      BY <1>4 DEF EnterAttach, Dialled
    <3>3. ASSUME NEW e \in Entries PROVE subscribers'[e] \subseteq subscribers[e] \cup {s}
      BY <3>1, <3>2
    <3>4. QED BY <2>1, <3>3
  <2>3. /\ stage[s] = "waiting"
        /\ stage' \in {[stage EXCEPT ![s] = "telling"], [stage EXCEPT ![s] = "gone"]}
        /\ UNCHANGED <<current, session, closing, seq, controller, controlGen,
                       revoked, lost, target>>
    BY <1>4 DEF EnterAttach
  <2>4. QED BY <2>2, <2>3, QuietCInv
<1>5. CASE \E s \in Sockets : TellAttached(s) \/ PeerCloses(s)
  BY <1>5, QuietCInv DEF TellAttached, PeerCloses
<1>6. CASE \E s \in Sockets : AdmitFrame(s) \/ SendFrame(s)
  BY <1>6, QuietCInv DEF AdmitFrame, SendFrame
<1>7. CASE \E c \in Clients \cup {NoClient} : LeaseMoves(c)
  BY <1>7, QuietCInv DEF LeaseMoves
<1>8. CASE \E w \in Windows : ClickTakeBack(w)
  BY <1>8, QuietCInv DEF ClickTakeBack
<1>9. CASE UNCHANGED vars
  BY <1>9, QuietCInv DEF vars, ghostVars
<1>10. ASSUME NEW e \in Entries, RegisterCancelled(e) PROVE CInv'
  BY <1>10, CancelledStep
<1>11. QED BY <1>1, <1>2, <1>3, <1>4, <1>5, <1>6, <1>7, <1>8, <1>9, <1>10

\* A socket leaves an entry, which it may have controlled.
LEMMA LeaveCInv ==
    ASSUME TInv, CInv, NEW e \in Entries, NEW s \in Sockets,
           Unsubscribe(e, s),
           UNCHANGED <<current, session, closing, target, lost>>,
           \/ UNCHANGED <<seq, controller, controlGen>>
           \/ controller[e] = s /\ Frees(e),
           \/ stage' = stage
           \/ /\ stage' = [stage EXCEPT ![s] = "gone"]
              /\ stage[s] # "idle"
              /\ \A x \in Entries : controller'[x] = s => session[x] = "exiting"
    PROVE  CInv'
<1> USE DEF TInv, TypeOK
<1>1. \A x \in Entries : controller'[x] # Nobody => controller'[x] = controller[x]
  BY DEF Frees
<1>2. seq' >= seq /\ \A x \in Entries : x # e => controlGen'[x] = controlGen[x]
  BY DEF Frees
<1>3. (Registered /\ DyingIsExiting /\ ControlledIsRegistered)'
  <2>1. Registered'
    BY DEF CInv, Registered
  <2>2. DyingIsExiting'
    BY DEF CInv, DyingIsExiting
  <2>3. ControlledIsRegistered'
    BY <1>1 DEF CInv, ControlledIsRegistered
  <2>4. QED BY <2>1, <2>2, <2>3
<1>4. GensBelowSeq'
  <2> SUFFICES ASSUME NEW x \in Entries PROVE controlGen'[x] <= seq'
    BY DEF GensBelowSeq
  <2>1. controlGen[x] \in Nat /\ controlGen[x] <= seq /\ seq \in Nat
    BY DEF CInv, GensBelowSeq
  <2>2. \/ controlGen'[x] = controlGen[x] /\ seq' \in {seq, seq + 1}
        \/ controlGen'[x] = seq + 1 /\ seq' = seq + 1
    BY DEF Frees
  <2>3. QED BY <2>1, <2>2
<1>5. OnlyTheLiveEntryIsControlled'
  <2> SUFFICES ASSUME NEW a \in Entries, NEW old \in Entries,
                      current[WindowOf[a]] = a, old # a,
                      WindowOf[old] = WindowOf[a], session[old] # "new"
               PROVE  controller'[old] = Nobody /\ controlGen'[old] < controlGen'[a]
    BY DEF OnlyTheLiveEntryIsControlled
  <2>1. controller[old] = Nobody /\ controlGen[old] < controlGen[a]
    BY DEF CInv, OnlyTheLiveEntryIsControlled
  <2>2. controlGen'[old] = controlGen[old]
    BY <2>1, NullAssumption DEF Frees
  <2>3. controlGen'[a] = controlGen[a] \/ controlGen'[a] = seq + 1
    BY DEF Frees
  <2>4. /\ controlGen[old] \in Nat /\ controlGen[a] \in Nat /\ seq \in Nat
        /\ controlGen[a] <= seq
    BY DEF CInv, GensBelowSeq
  <2>5. controller'[old] = Nobody
    BY <1>1, <2>1
  <2>6. QED BY <2>1, <2>2, <2>3, <2>4, <2>5
<1>6. GrantNeverOutlivesSocket'
  BY <1>1, NullAssumption DEF CInv, GrantNeverOutlivesSocket
<1>7. LosersKnown'
  <2> SUFFICES ASSUME NEW x \in Entries, NEW y \in Sockets, y \in lost[x]
               PROVE  /\ stage'[y] \in {"open", "gone"}
                      /\ controller'[x] # y
                      /\ y \in subscribers'[x] => y \in revoked'[x]
    BY DEF LosersKnown
  <2>1. /\ stage[y] \in {"open", "gone"}
        /\ controller[x] # y
        /\ y \in subscribers[x] => y \in revoked[x]
    BY DEF CInv, LosersKnown
  <2>2. y \in subscribers'[x] => y \in revoked'[x]
    <3>1. /\ x # e => subscribers'[x] = subscribers[x] /\ revoked'[x] = revoked[x]
          /\ subscribers'[e] = subscribers[e] \ {s}
          /\ revoked'[e] = revoked[e] \ {s}
      BY DEF Unsubscribe
    <3>2. QED BY <2>1, <3>1
  <2>3. controller'[x] # y
    BY <1>1, <2>1, NullAssumption
  <2>4. stage'[y] \in {"open", "gone"}
    BY <2>1
  <2>5. QED BY <2>2, <2>3, <2>4
<1>8. Undialled'
  BY DEF CInv, Undialled
<1>9. QED BY <1>3, <1>4, <1>5, <1>6, <1>7, <1>8 DEF CInv

LEMMA LeaveSteps ==
    ASSUME TInv, CInv,
           \/ \E e \in Entries, s \in Sockets : BroadcastFails(e, s)
           \/ \E w \in Windows : SendRevoked(w) \/ SendView(w)
           \/ \E s \in Sockets : SocketEnds(s)
    PROVE  CInv'
<1>1. ASSUME NEW e \in Entries, NEW s \in Sockets, BroadcastFails(e, s)
      PROVE  CInv'
  BY <1>1, LeaveCInv DEF BroadcastFails, registryVars, controlVars, socketVars
<1>2. ASSUME NEW w \in Windows, SendRevoked(w) \/ SendView(w) PROVE CInv'
  <2> DEFINE e == Head(pending[w]).entry
  <2>1. e \in Entries
    <3>1. pending[w] \in Seq(Publications) /\ pending[w] # <<>>
      BY <1>2 DEF SendRevoked, SendView, TInv, TypeOK, Publishing
    <3>2. Head(pending[w]) \in Publications
      BY <3>1, QueueTypes
    <3>3. QED BY <3>2 DEF Publications
  <2>2. /\ UNCHANGED <<current, session, closing, target, lost, stage>>
        /\ \/ UNCHANGED <<subscribers, revoked, seq, controller, controlGen>>
           \/ \E s \in Sockets : DropStalled(e, s)
    BY <1>2 DEF SendRevoked, SendView, TInv, TypeOK, Sections, attachVars,
       controlVars, registryVars
  <2>3. CASE UNCHANGED <<subscribers, revoked, seq, controller, controlGen>>
    BY <2>2, <2>3, QuietCInv DEF TInv, TypeOK
  <2>4. ASSUME NEW s \in Sockets, DropStalled(e, s) PROVE CInv'
    <3>1. Unsubscribe(e, s) /\ ReleaseIf(controller[e] = s, e)
      BY <2>4 DEF DropStalled
    <3>2. (controller[e] = s) \in BOOLEAN
      OBVIOUS
    <3> HIDE DEF e
    <3>3. \/ UNCHANGED <<seq, controller, controlGen>>
          \/ controller[e] = s /\ Frees(e)
      BY <2>1, <3>1, <3>2, ReleaseIfFrees
    <3>4. QED BY <2>1, <2>2, <3>1, <3>3, LeaveCInv
  <2>5. QED BY <2>2, <2>3, <2>4
<1>3. ASSUME NEW s \in Sockets, SocketEnds(s) PROVE CInv'
  <2> DEFINE e == target[s]
  <2>1. e \in Entries /\ stage[s] # "idle"
    BY <1>3 DEF SocketEnds, TInv, Dialled
  <2>2. HeldBy(e, s) \in BOOLEAN
    BY <2>1 DEF HeldBy, IsLive, TInv, TypeOK
  <2>3. \/ UNCHANGED <<seq, controller, controlGen>> /\ ~HeldBy(e, s)
        \/ HeldBy(e, s) /\ Frees(e)
    BY <1>3, <2>1, <2>2 DEF SocketEnds, ReleaseIf, Release, Commit, Frees,
       controlVars
  <2>4. HeldBy(e, s) => controller[e] = s
    BY DEF HeldBy
  <2>5. \A x \in Entries : controller'[x] = s => session[x] = "exiting"
    <3> SUFFICES ASSUME NEW x \in Entries, controller'[x] = s
                 PROVE  session[x] = "exiting"
      OBVIOUS
    <3>1. controller[x] = s
      BY <2>3, NullAssumption DEF Frees, TInv, TypeOK
    <3>2. x = e
      BY <3>1, NullAssumption DEF CInv, GrantNeverOutlivesSocket
    <3>3. ~HeldBy(e, s)
      BY <2>3, <3>2, NullAssumption DEF Frees, TInv, TypeOK
    <3>4. current[WindowOf[e]] = e
      BY <3>1, <3>2, NullAssumption DEF CInv, ControlledIsRegistered
    <3>5. QED
      BY <3>1, <3>2, <3>3, <3>4 DEF HeldBy, IsLive, CInv, DyingIsExiting
  <2>6. /\ Unsubscribe(e, s)
        /\ UNCHANGED <<current, session, closing, target, lost>>
        /\ stage' = [stage EXCEPT ![s] = "gone"]
    BY <1>3 DEF SocketEnds, registryVars
  <2> HIDE DEF e
  <2>7. QED BY <2>1, <2>3, <2>4, <2>5, <2>6, LeaveCInv
<1>4. QED BY <1>1, <1>2, <1>3

\* A live entry changes hands (or is freed); whoever had it may become a loser.
LEMMA HandOverCInv ==
    ASSUME TInv, CInv, NEW e \in Entries, NEW s \in Sockets \cup {Nobody},
           IsLive(e),
           s # Nobody => stage[s] = "open" /\ target[s] = e,
           controller' = [controller EXCEPT ![e] = s],
           controlGen' = [controlGen EXCEPT ![e] = seq + 1],
           seq' = seq + 1,
           \A x \in Entries : x # e => lost'[x] = lost[x] /\ revoked'[x] = revoked[x],
           lost'[e] \subseteq (lost[e] \cup {controller[e]}) \ {s},
           lost'[e] \subseteq Sockets,
           \A y \in lost'[e] : y \in revoked'[e] \/ (y \in lost[e] /\ y \notin subscribers[e]),
           UNCHANGED <<current, session, closing, subscribers, stage, target>>
    PROVE  CInv'
<1> USE DEF TInv, TypeOK
<1>1. current[WindowOf[e]] = e /\ ~closing[e] /\ session[e] # "exiting"
  BY DEF IsLive, CInv, DyingIsExiting
<1>2. /\ controller'[e] = s
      /\ \A x \in Entries : x # e => controller'[x] = controller[x]
  OBVIOUS
<1>3. /\ controlGen'[e] = seq + 1
      /\ \A x \in Entries : x # e => controlGen'[x] = controlGen[x]
  OBVIOUS
<1>4. seq \in Nat /\ \A x \in Entries : controlGen[x] \in Nat /\ controlGen[x] <= seq
  BY DEF CInv, GensBelowSeq
<1>5. (Undialled /\ Registered /\ DyingIsExiting)'
  BY DEF CInv, Undialled, Registered, DyingIsExiting
<1>6. ControlledIsRegistered'
  BY <1>1, <1>2 DEF CInv, ControlledIsRegistered
<1>7. GensBelowSeq'
  BY <1>3, <1>4 DEF GensBelowSeq
<1>8. controller[e] # Nobody => stage[controller[e]] = "open"
  BY <1>1 DEF CInv, GrantNeverOutlivesSocket
<1>9. LosersKnown'
  <2> SUFFICES ASSUME NEW x \in Entries, NEW y \in Sockets, y \in lost'[x]
               PROVE  /\ stage[y] \in {"open", "gone"}
                      /\ controller'[x] # y
                      /\ y \in subscribers[x] => y \in revoked'[x]
    BY DEF LosersKnown
  <2>1. CASE x = e
    BY <1>2, <1>8, <2>1, NullAssumption DEF CInv, LosersKnown
  <2>2. CASE x # e
    BY <1>2, <2>2 DEF CInv, LosersKnown
  <2>3. QED BY <2>1, <2>2
<1>10. GrantNeverOutlivesSocket'
  BY <1>2, NullAssumption DEF CInv, GrantNeverOutlivesSocket
<1>11. OnlyTheLiveEntryIsControlled'
  <2> SUFFICES ASSUME NEW a \in Entries, NEW old \in Entries,
                      current[WindowOf[a]] = a, old # a,
                      WindowOf[old] = WindowOf[a], session[old] # "new"
               PROVE  controller'[old] = Nobody /\ controlGen'[old] < controlGen'[a]
    BY DEF OnlyTheLiveEntryIsControlled
  <2>1. controller[old] = Nobody /\ controlGen[old] < controlGen[a]
    BY DEF CInv, OnlyTheLiveEntryIsControlled
  <2>2. old # e
    BY <1>1
  <2>3. controller'[old] = Nobody /\ controlGen'[old] = controlGen[old]
    BY <1>2, <1>3, <2>1, <2>2
  <2>4. controlGen'[a] = controlGen[a] \/ controlGen'[a] = seq + 1
    BY <1>3
  <2>5. QED BY <1>4, <2>1, <2>3, <2>4
<1>12. QED BY <1>5, <1>6, <1>7, <1>9, <1>10, <1>11 DEF CInv

\* A loser that still subscribes is silenced by the gate's own set.
LEMMA LosersInRevoked ==
    ASSUME TInv, CInv, NEW e \in Entries
    PROVE  \A y \in lost[e] : y \in revoked[e] \/ y \notin subscribers[e]
<1>1. \A y \in lost[e] : y \in Sockets
  BY DEF TInv, TypeOK
<1>2. QED BY <1>1 DEF CInv, LosersKnown

LEMMA HandOverSteps ==
    ASSUME TInv, CInv,
           \/ \E s \in Sockets : Claim(s) \/ ReleaseFrame(s)
           \/ \E mine \in BOOLEAN : TakeBack(mine)
    PROVE  CInv'
<1> USE DEF TInv, TypeOK
<1>1. ASSUME NEW s \in Sockets, Claim(s) PROVE CInv'
  <2> DEFINE e == target[s]
             loser == IF controller[e] = s THEN Nobody ELSE controller[e]
  <2>1. e \in Entries /\ IsLive(e) /\ stage[s] = "open"
    BY <1>1 DEF Claim, IsLive
  <2>2. /\ Commit(e, s, loser)
        /\ revoked' = [revoked EXCEPT ![e] = Silenced(@, s, loser)]
        /\ lost' = [lost EXCEPT ![e] = Silenced(@, s, loser)]
        /\ UNCHANGED <<current, session, closing, subscribers, stage, target>>
    BY <1>1 DEF Claim, registryVars, socketVars
  <2>3. loser \in Sockets \cup {Nobody} /\ loser # s
    BY <2>1, NullAssumption
  <2>4. s # Nobody
    BY NullAssumption
  <2>5. target[s] = e
    OBVIOUS
  <2>6. {loser} \ {Nobody} \subseteq {controller[e]}
    OBVIOUS
  <2> HIDE DEF e, loser
  <2>7. /\ lost'[e] = (lost[e] \ {s}) \cup ({loser} \ {Nobody})
        /\ revoked'[e] = (revoked[e] \ {s}) \cup ({loser} \ {Nobody})
        /\ \A x \in Entries : x # e => lost'[x] = lost[x] /\ revoked'[x] = revoked[x]
    BY <2>1, <2>2 DEF Silenced
  <2>8. \A y \in lost'[e] : y \in revoked'[e] \/ (y \in lost[e] /\ y \notin subscribers[e])
    <3>1. \A y \in lost[e] : y \in revoked[e] \/ y \notin subscribers[e]
      BY <2>1, LosersInRevoked
    <3> HIDE DEF TInv, TypeOK
    <3>2. QED BY <3>1, <2>7
  <2>9. lost'[e] \subseteq (lost[e] \cup {controller[e]}) \ {s} /\ lost'[e] \subseteq Sockets
    BY <2>1, <2>3, <2>6, <2>7
  <2>10. /\ controller' = [controller EXCEPT ![e] = s]
         /\ controlGen' = [controlGen EXCEPT ![e] = seq + 1]
         /\ seq' = seq + 1
    BY <2>2 DEF Commit
  <2>11. QED
    BY <2>1, <2>2, <2>5, <2>7, <2>8, <2>9, <2>10, HandOverCInv
<1>2. ASSUME NEW s \in Sockets, ReleaseFrame(s) PROVE CInv'
  <2> DEFINE e == target[s]
  <2>1. e \in Entries /\ IsLive(e)
    BY <1>2 DEF ReleaseFrame, HeldBy, IsLive
  <2>2. /\ controller' = [controller EXCEPT ![e] = Nobody]
        /\ controlGen' = [controlGen EXCEPT ![e] = seq + 1]
        /\ seq' = seq + 1
        /\ UNCHANGED <<current, session, closing, subscribers, revoked, lost,
                       stage, target>>
    BY <1>2 DEF ReleaseFrame, Release, Commit, registryVars, attachVars,
       socketVars
  <2> HIDE DEF e
  <2>3. /\ lost[e] \subseteq (lost[e] \cup {controller[e]}) \ {Nobody}
        /\ lost[e] \subseteq Sockets
    BY <2>1, NullAssumption
  <2>4. \A y \in lost[e] : y \in revoked[e] \/ (y \in lost[e] /\ y \notin subscribers[e])
    BY <2>1, LosersInRevoked
  <2>5. QED BY <2>1, <2>2, <2>3, <2>4, HandOverCInv
<1>3. ASSUME NEW mine \in BOOLEAN, TakeBack(mine) PROVE CInv'
  <2> DEFINE e == current[click.window]
             hit == mine /\ e # NoEntry /\ ControlledAt(e, click.gen)
  <2>1. CASE hit
    <3>1. e \in Entries /\ IsLive(e) /\ controller[e] \in Sockets
      BY <2>1 DEF ControlledAt, IsLive
    <3>2. /\ revoked' = [revoked EXCEPT ![e] = @ \cup {controller[e]}]
          /\ lost' = [lost EXCEPT ![e] = @ \cup {controller[e]}]
          /\ controller' = [controller EXCEPT ![e] = Nobody]
          /\ controlGen' = [controlGen EXCEPT ![e] = seq + 1]
          /\ seq' = seq + 1
          /\ UNCHANGED <<current, session, closing, subscribers, stage, target>>
      BY <1>3, <2>1 DEF TakeBack, Release, Commit, registryVars, socketVars
    <3> HIDE DEF e, hit
    <3>3. /\ lost'[e] = lost[e] \cup {controller[e]}
          /\ revoked'[e] = revoked[e] \cup {controller[e]}
          /\ \A x \in Entries : x # e => lost'[x] = lost[x] /\ revoked'[x] = revoked[x]
      BY <3>1, <3>2
    <3>4. /\ lost'[e] \subseteq (lost[e] \cup {controller[e]}) \ {Nobody}
          /\ lost'[e] \subseteq Sockets
      BY <3>1, <3>3, NullAssumption
    <3>5. \A y \in lost'[e] : y \in revoked'[e] \/ (y \in lost[e] /\ y \notin subscribers[e])
      <4>1. \A y \in lost[e] : y \in revoked[e] \/ y \notin subscribers[e]
        BY <3>1, LosersInRevoked
      <4> HIDE DEF TInv, TypeOK
      <4>2. QED BY <3>3, <4>1
    <3>6. QED BY <3>1, <3>2, <3>3, <3>4, <3>5, HandOverCInv
  <2>2. CASE ~hit
    BY <1>3, <2>2, QuietCInv DEF TakeBack, registryVars, controlVars,
       socketVars
  <2>3. QED BY <2>1, <2>2
<1>4. QED BY <1>1, <1>2, <1>3

\* The terminal exits: the entry turns dying and stays registered.
LEMMA ExitsStep ==
    ASSUME TInv, CInv, NEW e \in Entries, ProducerExits(e)
    PROVE  CInv'
<1> USE DEF TInv, TypeOK
<1>1. /\ session[e] = "running"
      /\ session' = [session EXCEPT ![e] = "exiting"]
      /\ closing' = [closing EXCEPT ![e] = TRUE]
      /\ UNCHANGED <<current, seq, controller, controlGen, subscribers, revoked,
                     lost, stage, target>>
  BY DEF ProducerExits, controlVars, attachVars, socketVars
<1>2. (Undialled /\ LosersKnown /\ GensBelowSeq /\ ControlledIsRegistered)'
  BY <1>1 DEF CInv, Undialled, LosersKnown, GensBelowSeq, ControlledIsRegistered
<1>3. (Registered /\ DyingIsExiting)'
  BY <1>1 DEF CInv, Registered, DyingIsExiting
<1>4. (GrantNeverOutlivesSocket /\ OnlyTheLiveEntryIsControlled)'
  BY <1>1 DEF CInv, GrantNeverOutlivesSocket, OnlyTheLiveEntryIsControlled
<1>5. QED BY <1>2, <1>3, <1>4 DEF CInv

\* A session ends: its entry leaves the registry if it is still there, freed.
LEMMA EndsStep ==
    ASSUME TInv, CInv, NEW e \in Entries, ProducerEnds(e)
    PROVE  CInv'
<1> DEFINE mine == current[WindowOf[e]] = e
<1> USE DEF TInv, TypeOK
<1>1. /\ session[e] \in {"running", "exiting"}
      /\ session' = [session EXCEPT ![e] = "over"]
      /\ UNCHANGED <<subscribers, revoked, lost, stage, target>>
      /\ Deregister(e)
  BY DEF ProducerEnds, attachVars, socketVars
<1>2. /\ current' = IF mine THEN [current EXCEPT ![WindowOf[e]] = NoEntry]
                            ELSE current
      /\ closing' = IF mine THEN [closing EXCEPT ![e] = TRUE] ELSE closing
  BY <1>1 DEF Deregister
<1>3. \/ /\ UNCHANGED <<seq, controller, controlGen>>
         /\ controller[e] = Nobody
      \/ Frees(e)
  <2>1. ReleaseIf(mine /\ controller[e] # Nobody, e)
    BY <1>1 DEF Deregister
  <2>2. CASE mine /\ controller[e] # Nobody
    BY <2>1, <2>2 DEF ReleaseIf, Release, Commit, Frees
  <2>3. CASE ~(mine /\ controller[e] # Nobody)
    <3>1. controller[e] = Nobody
      BY <2>3 DEF CInv, ControlledIsRegistered
    <3>2. QED BY <2>1, <2>3, <3>1 DEF ReleaseIf, controlVars
  <2>4. QED BY <2>2, <2>3
<1>4. /\ controller'[e] = Nobody
      /\ \A x \in Entries : x # e => controller'[x] = controller[x]
      /\ \A x \in Entries : x # e => controlGen'[x] = controlGen[x]
  BY <1>3 DEF Frees
<1>5. \A w \in Windows : current'[w] # NoEntry =>
          current'[w] = current[w] /\ current[w] # e
  BY <1>2 DEF CInv, Registered
<1>6. \A x \in Entries : /\ x # e /\ current[WindowOf[x]] = x
                              => current'[WindowOf[x]] = x
                         /\ x # e => closing'[x] = closing[x]
  BY <1>2, WindowAssumption
<1>7. Registered'
  BY <1>1, <1>5 DEF CInv, Registered
<1>8. DyingIsExiting'
  <2>1. ASSUME NEW x \in Entries, x # e
        PROVE  /\ session'[x] = "new" => ~closing'[x]
               /\ session'[x] = "exiting" => closing'[x]
               /\ current'[WindowOf[x]] = x /\ closing'[x] => session'[x] = "exiting"
    <3>1. WindowOf[x] \in Windows /\ x # NoEntry
      BY WindowAssumption, NullAssumption
    <3>2. current'[WindowOf[x]] = x => current[WindowOf[x]] = x
      BY <1>5, <3>1
    <3>3. session'[x] = session[x] /\ closing'[x] = closing[x]
      BY <1>1, <1>6, <2>1
    <3>4. QED BY <3>2, <3>3 DEF CInv, DyingIsExiting
  <2>2. session'[e] = "over" /\ current'[WindowOf[e]] # e
    <3>1. WindowOf[e] \in Windows /\ e # NoEntry
      BY WindowAssumption, NullAssumption
    <3>2. QED BY <1>1, <1>5, <3>1
  <2>3. QED BY <2>1, <2>2 DEF DyingIsExiting
<1>9. ControlledIsRegistered'
  BY <1>4, <1>6 DEF CInv, ControlledIsRegistered
<1>10. GensBelowSeq'
  <2> SUFFICES ASSUME NEW x \in Entries PROVE controlGen'[x] <= seq'
    BY DEF GensBelowSeq
  <2>1. controlGen[x] \in Nat /\ controlGen[x] <= seq /\ seq \in Nat
    BY DEF CInv, GensBelowSeq
  <2>2. \/ controlGen'[x] = controlGen[x] /\ seq' \in {seq, seq + 1}
        \/ controlGen'[x] = seq + 1 /\ seq' = seq + 1
    BY <1>3 DEF Frees
  <2>3. QED BY <2>1, <2>2
<1>11. LosersKnown'
  <2>1. \A x \in Entries : controller'[x] \in {controller[x], Nobody}
    BY <1>4
  <2>2. QED BY <1>1, <2>1, NullAssumption DEF CInv, LosersKnown
<1>12. Undialled'
  BY <1>1 DEF CInv, Undialled
<1>13. GrantNeverOutlivesSocket'
  BY <1>1, <1>4 DEF CInv, GrantNeverOutlivesSocket
<1>14. OnlyTheLiveEntryIsControlled'
  <2> SUFFICES ASSUME NEW a \in Entries, NEW old \in Entries,
                      current'[WindowOf[a]] = a, old # a,
                      WindowOf[old] = WindowOf[a], session'[old] # "new"
               PROVE  controller'[old] = Nobody /\ controlGen'[old] < controlGen'[a]
    BY DEF OnlyTheLiveEntryIsControlled
  <2>1. WindowOf[a] \in Windows /\ a # NoEntry
    BY WindowAssumption, NullAssumption
  <2>2. current[WindowOf[a]] = a /\ a # e
    BY <1>5, <2>1
  <2>3. session[old] # "new"
    BY <1>1
  <2>4. controller[old] = Nobody /\ controlGen[old] < controlGen[a]
    BY <2>2, <2>3 DEF CInv, OnlyTheLiveEntryIsControlled
  <2>5. UNCHANGED controlGen \/ old # e
    <3>1. CASE old = e
      <4>1. ~mine
        BY <2>2, <3>1
      <4>2. UNCHANGED controlGen
        BY <1>1, <4>1 DEF Deregister, ReleaseIf, controlVars
      <4>3. QED BY <4>2
    <3>2. QED BY <3>1
  <2>6. QED BY <1>4, <2>2, <2>4, <2>5
<1>15. QED
  BY <1>7, <1>8, <1>9, <1>10, <1>11, <1>12, <1>13, <1>14 DEF CInv

\* A hello: a new entry takes its id over from the one registered, if any.
LEMMA RegisterStep ==
    ASSUME TInv, CInv, NEW e \in Entries, Register(e)
    PROVE  CInv'
<1> DEFINE w == WindowOf[e]
           old == current[w]
           freed == old # NoEntry /\ controller[old] # Nobody
           gen == IF freed THEN seq + 2 ELSE seq + 1
<1> USE DEF TInv, TypeOK
<1>1. w \in Windows /\ e # NoEntry
  BY WindowAssumption, NullAssumption
<1>2. /\ session[e] = "new" /\ session' = [session EXCEPT ![e] = "running"]
      /\ current' = [current EXCEPT ![w] = e]
      /\ closing' = [x \in Entries |-> closing[x] \/ x = old]
      /\ seq' = gen
      /\ controller' = ForceReleased(old)
      /\ controlGen' = [x \in Entries |-> IF x = e THEN gen
                            ELSE IF freed /\ x = old THEN seq + 1
                            ELSE controlGen[x]]
      /\ UNCHANGED <<subscribers, revoked, lost, stage, target>>
  BY DEF Register, attachVars, socketVars
<1>3. /\ old # NoEntry => old \in Entries /\ WindowOf[old] = w
      /\ old # NoEntry => session[old] # "new"
      /\ old # e
  <2>1. old \in Entries \cup {NoEntry}
    BY <1>1
  <2>2. old # NoEntry => WindowOf[old] = w /\ session[old] \in {"running", "exiting", "stranded"}
    BY <1>1 DEF CInv, Registered
  <2>3. QED BY <1>1, <1>2, <2>1, <2>2
<1> HIDE DEF w, old, freed, gen
<1>4. \A x \in Entries : controller'[x] = IF x = old THEN Nobody ELSE controller[x]
  BY <1>2 DEF ForceReleased
<1>5. \A x \in Entries : controller[x] # Nobody => current[WindowOf[x]] = x
  BY DEF CInv, ControlledIsRegistered
<1>6. controller[e] = Nobody
  BY <1>1, <1>2, <1>5 DEF CInv, Registered, w
<1>7. \A x \in Entries : WindowOf[x] # w => current'[WindowOf[x]] = current[WindowOf[x]]
  BY <1>2, WindowAssumption
<1>8. current'[w] = e
  BY <1>1, <1>2
<1>9. seq \in Nat /\ gen \in {seq + 1, seq + 2} /\ (freed => gen = seq + 2)
  BY DEF gen
<1>10. Registered'
  BY <1>1, <1>2, <1>8 DEF CInv, Registered, w
<1>11. DyingIsExiting'
  <2> SUFFICES ASSUME NEW x \in Entries
               PROVE  /\ session'[x] = "new" => ~closing'[x]
                      /\ session'[x] = "exiting" => closing'[x]
                      /\ current'[WindowOf[x]] = x /\ closing'[x]
                            => session'[x] = "exiting"
    BY DEF DyingIsExiting
  <2>1. CASE x = e
    BY <1>2, <1>3, <2>1 DEF CInv, DyingIsExiting
  <2>2. CASE x # e
    <3>1. session'[x] = session[x]
      BY <1>2, <2>2
    <3>2. x = old => session[x] # "new"
      BY <1>3, NullAssumption
    <3>3. closing'[x] <=> closing[x] \/ x = old
      BY <1>2
    <3>4. current'[WindowOf[x]] = x => current[WindowOf[x]] = x /\ x # old
      <4>1. x # NoEntry /\ (x = old => WindowOf[x] = w)
        BY <1>3, NullAssumption
      <4>2. current'[WindowOf[x]] = x => WindowOf[x] # w
        BY <1>8, <2>2
      <4>3. QED BY <1>7, <4>1, <4>2
    <3>5. QED BY <3>1, <3>2, <3>3, <3>4 DEF CInv, DyingIsExiting
  <2>3. QED BY <2>1, <2>2
<1>12. ControlledIsRegistered'
  <2> SUFFICES ASSUME NEW x \in Entries, controller'[x] # Nobody
               PROVE  current'[WindowOf[x]] = x
    BY DEF ControlledIsRegistered
  <2>1. x # old /\ controller[x] # Nobody
    BY <1>4
  <2>2. current[WindowOf[x]] = x
    BY <1>5, <2>1
  <2>3. WindowOf[x] # w
    BY <2>1, <2>2 DEF old
  <2>4. QED BY <1>7, <2>2, <2>3
<1>13. GensBelowSeq'
  <2> SUFFICES ASSUME NEW x \in Entries PROVE controlGen'[x] <= seq'
    BY DEF GensBelowSeq
  <2>1. controlGen[x] \in Nat /\ controlGen[x] <= seq
    BY DEF CInv, GensBelowSeq
  <2>2. controlGen'[x] \in {gen, seq + 1, controlGen[x]} /\ seq' = gen
    BY <1>2
  <2>3. QED BY <1>9, <2>1, <2>2
<1>14. LosersKnown'
  <2>1. \A x \in Entries : controller'[x] \in {controller[x], Nobody}
    BY <1>4
  <2>2. QED BY <1>2, <2>1, NullAssumption DEF CInv, LosersKnown
<1>15. Undialled'
  BY <1>2 DEF CInv, Undialled
<1>16. GrantNeverOutlivesSocket'
  BY <1>2, <1>4, <1>6 DEF CInv, GrantNeverOutlivesSocket
<1>17. OnlyTheLiveEntryIsControlled'
  <2> SUFFICES ASSUME NEW a \in Entries, NEW b \in Entries,
                      current'[WindowOf[a]] = a, b # a,
                      WindowOf[b] = WindowOf[a], session'[b] # "new"
               PROVE  controller'[b] = Nobody /\ controlGen'[b] < controlGen'[a]
    BY DEF OnlyTheLiveEntryIsControlled
  <2>1. CASE WindowOf[a] = w
    <3>1. a = e /\ b # e
      BY <1>8, <2>1
    <3>2. controller'[b] = Nobody
      <4>1. controller[b] # Nobody => b = old
        BY <1>5, <2>1 DEF old
      <4>2. QED BY <1>4, <4>1
    <3>3. controlGen'[a] = gen
      BY <1>2, <3>1
    <3>4. controlGen[b] \in Nat /\ controlGen[b] <= seq
      BY DEF CInv, GensBelowSeq
    <3>5. controlGen'[b] = IF freed /\ b = old THEN seq + 1 ELSE controlGen[b]
      BY <1>2, <3>1
    <3>6. QED BY <1>9, <3>2, <3>3, <3>4, <3>5
  <2>2. CASE WindowOf[a] # w
    <3>1. /\ a # e /\ b # e /\ a # old /\ b # old
          /\ current[WindowOf[a]] = a
      BY <1>3, <1>7, <2>2, NullAssumption DEF w
    <3>2. session[b] # "new"
      BY <1>2, <3>1
    <3>3. controller[b] = Nobody /\ controlGen[b] < controlGen[a]
      BY <3>1, <3>2 DEF CInv, OnlyTheLiveEntryIsControlled
    <3>4. controlGen'[a] = controlGen[a] /\ controlGen'[b] = controlGen[b]
      BY <1>2, <3>1
    <3>5. controller'[b] = Nobody
      BY <1>4, <3>3
    <3>6. QED BY <3>3, <3>4, <3>5
  <2>3. QED BY <2>1, <2>2
<1>18. QED
  BY <1>10, <1>11, <1>12, <1>13, <1>14, <1>15, <1>16, <1>17 DEF CInv

-----------------------------------------------------------------------------
\* Every step of the broker keeps the strengthened invariant.
LEMMA CInvStep == ASSUME TInv, CInv, [Next]_vars PROVE CInv'
<1>1. CASE \E e \in Entries :
              Register(e) \/ SweepOne(e) \/ RegisterCancelled(e)
  BY <1>1, RegisterStep, QuietSteps
<1>2. CASE \E e \in Entries : ProducerExits(e) \/ ProducerEnds(e)
  BY <1>2, ExitsStep, EndsStep
<1>3. CASE \/ \E e \in Entries, s \in Sockets : BroadcastFails(e, s)
           \/ \E w \in Windows : SendRevoked(w) \/ SendView(w)
           \/ \E s \in Sockets : SocketEnds(s)
  BY <1>3, LeaveSteps
<1>4. CASE \/ \E s \in Sockets : Claim(s) \/ ReleaseFrame(s)
           \/ \E mine \in BOOLEAN : TakeBack(mine)
  BY <1>4, HandOverSteps
<1>5. CASE \/ \E w \in Windows : StartPublication(w) \/ FinishPublication(w)
           \/ \E s \in Sockets, w \in Windows : Dial(s, w)
           \/ \E s \in Sockets : EnterAttach(s) \/ TellAttached(s) \/ PeerCloses(s)
           \/ \E s \in Sockets : AdmitFrame(s) \/ SendFrame(s)
           \/ \E c \in Clients \cup {NoClient} : LeaseMoves(c)
           \/ \E w \in Windows : ClickTakeBack(w)
           \/ UNCHANGED vars
  BY <1>5, QuietSteps
<1>6. QED BY <1>1, <1>2, <1>3, <1>4, <1>5 DEF Next

\* For every set of windows, producers, sockets and clients, the control
\* invariants hold: registration, generations and losers included.
THEOREM ControlInvariant == Spec => []CInv
<1>1. Init => CInv
  BY InitCInv
<1>2. TInv /\ CInv /\ [Next]_vars => CInv'
  BY CInvStep
<1>3. Spec => []TInv
  BY TInvInvariant
<1>4. QED BY <1>1, <1>2, <1>3, PTL DEF Spec

\* A terminal that is not dying is never left to a socket whose handler is over
\* (registry.release_by_ws, _drop_stalled, register, deregister).
THEOREM GrantEndsWithSocket == Spec => []GrantNeverOutlivesSocket
<1>1. CInv => GrantNeverOutlivesSocket
  BY DEF CInv
<1>2. QED BY <1>1, ControlInvariant, PTL

\* A replaced or ended entry is never controlled, and its generation stays below
\* the one its successor shows (registry.register's burnt generation).
THEOREM OnlyLiveControlled == Spec => []OnlyTheLiveEntryIsControlled
<1>1. CInv => OnlyTheLiveEntryIsControlled
  BY DEF CInv
<1>2. QED BY <1>1, ControlInvariant, PTL

(* ---------------------- the refinement of DriveRights ---------------------- *)
(* Every step of the broker is a step of the promise, or none of its business. *)
(* What `silenced` stands for, the losers still watching, moves only with a    *)
(* claim, a take-back or a socket that leaves; and a frame is delivered only   *)
(* within the rights, because the gate's own set covers those losers (CInv's   *)
(* LosersKnown).                                                               *)


\* Only what the losers of e are and which of them subscribe decides who is
\* silenced: a loser has dialled, and a socket dials once.
SameLosers(e) ==
    /\ lost'[e] = lost[e]
    /\ \A s \in lost[e] : s \in subscribers'[e] <=> s \in subscribers[e]
    /\ \A s \in lost[e] : target'[s] = target[s]

LEMMA SameWatching ==
    ASSUME NEW e \in Entries, SameLosers(e)
    PROVE  Watching(e)' = Watching(e)
  BY DEF SameLosers, Watching

\* A step that leaves control, deaths, the lease and the losers alone.
LEMMA Forgets ==
    ASSUME UNCHANGED <<controller, closing, lease>>, drove' = NoDrive,
           \A e \in Entries : SameLosers(e)
    PROVE  Rights!Forget
<1>1. \A e \in Entries : Watching(e)' = Watching(e)
  BY SameWatching
<1>2. QED BY <1>1 DEF Rights!Forget, Rights!NoDrive, NoDrive

LEMMA QuietRights ==
    ASSUME TInv, CInv,
           \/ \E e \in Entries : SweepOne(e) \/ RegisterCancelled(e)
           \/ \E w \in Windows : StartPublication(w) \/ FinishPublication(w)
           \/ \E s \in Sockets, w \in Windows : Dial(s, w)
           \/ \E s \in Sockets : EnterAttach(s) \/ TellAttached(s)
           \/ \E s \in Sockets : PeerCloses(s) \/ AdmitFrame(s)
           \/ \E w \in Windows : ClickTakeBack(w)
    PROVE  Rights!Next
<1> USE DEF registryVars, controlVars, attachVars, publishVars, socketVars,
     desktopVars
<1>1. UNCHANGED <<controller, closing, lease, lost>> /\ drove' = NoDrive
  BY DEF SweepOne, RegisterCancelled, StartPublication, FinishPublication,
     Dial, EnterAttach, TellAttached, PeerCloses, AdmitFrame, ClickTakeBack
<1>2. \A e \in Entries : \A s \in lost[e] : stage[s] \in {"open", "gone"}
  BY DEF CInv, LosersKnown, TInv, TypeOK
<1>3. \A e \in Entries : SameLosers(e)
  <2>1. CASE UNCHANGED <<subscribers, target>>
    BY <1>1, <2>1 DEF SameLosers
  <2>2. ASSUME NEW s \in Sockets, NEW w \in Windows, Dial(s, w)
        PROVE  \A e \in Entries : SameLosers(e)
    <3>1. /\ stage[s] = "idle" /\ subscribers' = subscribers
          /\ target' = [target EXCEPT ![s] = current[w]]
      BY <2>2 DEF Dial
    <3>2. \A x : x # s => target'[x] = target[x] \/ x \notin Sockets
      BY <3>1 DEF TInv, TypeOK
    <3>3. \A e \in Entries : \A x \in lost[e] : x \in Sockets /\ x # s
      BY <1>2, <3>1 DEF TInv, TypeOK
    <3>4. QED BY <1>1, <3>1, <3>2, <3>3 DEF SameLosers
  <2>3. ASSUME NEW s \in Sockets, EnterAttach(s)
        PROVE  \A e \in Entries : SameLosers(e)
    <3>1. /\ stage[s] = "waiting" /\ target' = target
          /\ \/ subscribers' = subscribers
             \/ subscribers' = [subscribers EXCEPT ![target[s]] = @ \cup {s}]
      BY <2>3 DEF EnterAttach
    <3>2. \A e \in Entries : subscribers'[e] \in
                                {subscribers[e], subscribers[e] \cup {s}}
      BY <3>1 DEF TInv, TypeOK
    <3>3. \A e \in Entries : s \notin lost[e]
      BY <1>2, <3>1
    <3>4. \A e \in Entries : \A x \in lost[e] :
              x \in subscribers'[e] <=> x \in subscribers[e]
      BY <3>2, <3>3
    <3>5. QED BY <1>1, <3>1, <3>4 DEF SameLosers
  <2>4. QED
    BY <2>1, <2>2, <2>3 DEF SweepOne, RegisterCancelled, StartPublication, FinishPublication,
       TellAttached, PeerCloses, AdmitFrame, ClickTakeBack
<1>4. QED BY <1>1, <1>3, Forgets DEF Rights!Next

-----------------------------------------------------------------------------
\* A frame reaches the producer within its rights: a loser that still watches is
\* in the set the gate reads.
LEMMA DriveWithinRights ==
    ASSUME TInv, CInv, NEW s \in Sockets, SendFrame(s)
    PROVE  Rights!Next
<1> DEFINE e == target[s]
<1>1. e \in Entries
  BY DEF SendFrame, TInv, Dialled
<1>2. UNCHANGED <<controller, closing, lease, lost, subscribers, target>>
  BY DEF SendFrame, registryVars, controlVars, attachVars, desktopVars
<1>3. \A x \in Entries : Watching(x)' = Watching(x)
  BY <1>2, SameWatching DEF SameLosers
<1>4. CASE MayStillDrive(s)
  <2>1. /\ s \notin revoked[e]
        /\ \/ controller[e] = s
           \/ controller[e] = Nobody /\ lease = ClientOf[s] /\ lease # NoClient
    BY <1>4 DEF MayStillDrive, MayDrive
  <2>2. s \notin Watching(e)
    BY <1>1, <2>1 DEF Watching, CInv, LosersKnown
  <2>3. drove' = [entry |-> e, sock |-> s]
    BY <1>4 DEF SendFrame
  <2>4. Rights!Drive(e, s)
    BY <1>1, <1>2, <1>3, <2>1, <2>2, <2>3 DEF Rights!Drive
  <2>5. QED BY <1>1, <2>4 DEF Rights!Next
<1>5. CASE ~MayStillDrive(s)
  <2>1. drove' = NoDrive
    BY <1>5 DEF SendFrame
  <2>2. QED BY <1>2, <1>3, <2>1 DEF Rights!Next, Rights!Forget, Rights!NoDrive, NoDrive
<1>6. QED BY <1>4, <1>5

LEMMA LeaseRights ==
    ASSUME NEW c \in Clients \cup {NoClient}, LeaseMoves(c)
    PROVE  Rights!Next
<1>1. /\ lease' = c /\ drove' = NoDrive
      /\ UNCHANGED <<controller, closing, lost, subscribers, target>>
  BY DEF LeaseMoves, registryVars, controlVars, attachVars, socketVars
<1>2. \A x \in Entries : Watching(x)' = Watching(x)
  BY <1>1, SameWatching DEF SameLosers
<1>3. Rights!LeaseMoves
  BY <1>1, <1>2 DEF Rights!LeaseMoves, Rights!NoDrive, NoDrive
<1>4. QED BY <1>3 DEF Rights!Next

-----------------------------------------------------------------------------
\* A socket leaves an entry, with its control of it or without having any.  A
\* controller is no loser, so one that is left a dying terminal changes nothing.
LEMMA LeaveRights ==
    ASSUME TInv, CInv, NEW e \in Entries, NEW s \in Sockets,
           Unsubscribe(e, s),
           UNCHANGED <<closing, target, lost, lease>>, drove' = NoDrive,
           \/ controller' = controller
           \/ controller[e] = s /\ controller' = [controller EXCEPT ![e] = Nobody]
    PROVE  Rights!Next
<1>1. subscribers' = [subscribers EXCEPT ![e] = @ \ {s}]
  BY DEF Unsubscribe
<1>2. \A x \in Entries : Watching(x)' =
          IF x = e THEN Watching(x) \ {s} ELSE Watching(x)
  BY <1>1 DEF Watching, TInv, TypeOK
<1>3. CASE controller[e] = s /\ controller' = controller
  <2>1. s \notin Watching(e)
    BY <1>3 DEF Watching, CInv, LosersKnown
  <2>2. \A x \in Entries : Watching(x)' = Watching(x)
    BY <1>2, <2>1
  <2>3. QED BY <1>3, <2>2 DEF Rights!Next, Rights!Forget, Rights!NoDrive, NoDrive
<1>4. CASE \/ controller[e] = s /\ controller' = [controller EXCEPT ![e] = Nobody]
           \/ controller[e] # s /\ controller' = controller
  <2>1. controller' = [controller EXCEPT ![e] = IF @ = s THEN Nobody ELSE @]
    BY <1>4 DEF TInv, TypeOK
  <2>2. [x \in Entries |-> Watching(x)]' =
            [[x \in Entries |-> Watching(x)] EXCEPT ![e] = @ \ {s}]
    BY <1>2
  <2>3. Rights!Leave(e, s)
    BY <2>1, <2>2 DEF Rights!Leave, Rights!NoDrive, NoDrive
  <2>4. QED BY <2>3 DEF Rights!Next
<1>5. QED BY <1>3, <1>4

LEMMA LeavingSteps ==
    ASSUME TInv, CInv,
           \/ \E e \in Entries, s \in Sockets : BroadcastFails(e, s)
           \/ \E w \in Windows : SendRevoked(w) \/ SendView(w)
           \/ \E s \in Sockets : SocketEnds(s)
    PROVE  Rights!Next
<1>1. ASSUME NEW e \in Entries, NEW s \in Sockets, BroadcastFails(e, s)
      PROVE  Rights!Next
  BY <1>1, LeaveRights DEF BroadcastFails, registryVars, controlVars,
     socketVars, desktopVars
<1>2. ASSUME NEW w \in Windows, SendRevoked(w) \/ SendView(w)
      PROVE  Rights!Next
  <2> DEFINE e == Head(pending[w]).entry
  <2>1. e \in Entries
    <3>1. pending[w] \in Seq(Publications) /\ pending[w] # <<>>
      BY <1>2 DEF SendRevoked, SendView, TInv, TypeOK, Publishing
    <3>2. Head(pending[w]) \in Publications
      BY <3>1, QueueTypes
    <3>3. QED BY <3>2 DEF Publications
  <2>2. /\ UNCHANGED <<closing, target, lost, lease>> /\ drove' = NoDrive
        /\ \/ UNCHANGED <<subscribers, controller>>
           \/ \E s \in Sockets : DropStalled(e, s)
    BY <1>2 DEF SendRevoked, SendView, TInv, TypeOK, Sections, attachVars,
       controlVars, registryVars, desktopVars
  <2>3. CASE UNCHANGED <<subscribers, controller>>
    BY <2>2, <2>3, Forgets DEF SameLosers, Rights!Next
  <2>4. ASSUME NEW s \in Sockets, DropStalled(e, s) PROVE Rights!Next
    <3>1. Unsubscribe(e, s) /\ ReleaseIf(controller[e] = s, e)
      BY <2>4 DEF DropStalled
    <3>2. (controller[e] = s) \in BOOLEAN
      OBVIOUS
    <3> HIDE DEF e
    <3>3. \/ controller' = controller
          \/ controller[e] = s /\ controller' = [controller EXCEPT ![e] = Nobody]
      BY <2>1, <3>1, <3>2, ReleaseIfFrees DEF Frees
    <3>4. QED BY <2>1, <2>2, <3>1, <3>3, LeaveRights
  <2>5. QED BY <2>2, <2>3, <2>4
<1>3. ASSUME NEW s \in Sockets, SocketEnds(s) PROVE Rights!Next
  <2> DEFINE e == target[s]
  <2>1. e \in Entries
    BY <1>3 DEF SocketEnds, TInv, Dialled
  <2>2. HeldBy(e, s) \in BOOLEAN /\ (HeldBy(e, s) => controller[e] = s)
    BY <2>1 DEF HeldBy, IsLive, TInv, TypeOK
  <2>3. \/ controller' = controller
        \/ controller[e] = s /\ controller' = [controller EXCEPT ![e] = Nobody]
    BY <1>3, <2>1, <2>2, ReleaseIfFrees DEF SocketEnds, Frees
  <2>4. /\ Unsubscribe(e, s) /\ drove' = NoDrive
        /\ UNCHANGED <<closing, target, lost, lease>>
    BY <1>3 DEF SocketEnds, registryVars, desktopVars
  <2> HIDE DEF e
  <2>5. QED BY <2>1, <2>3, <2>4, LeaveRights
<1>4. QED BY <1>1, <1>2, <1>3

-----------------------------------------------------------------------------
\* A claim takes the terminal, and silences who lost it if it still watches.
LEMMA TakeRights ==
    ASSUME TInv, CInv, NEW s \in Sockets, Claim(s)
    PROVE  Rights!Next
<1>1. PICK e \in Entries : e = target[s] /\ IsLive(e)
  BY DEF Claim, IsLive
<1>2. PICK loser \in Sockets \cup {Nobody} :
          loser = IF controller[e] = s THEN Nobody ELSE controller[e]
  BY DEF TInv, TypeOK
<1>3. PICK quiet : quiet = {x \in {loser} \cap subscribers[e] : target[x] = e}
  OBVIOUS
<1>4. /\ controller' = [controller EXCEPT ![e] = s]
      /\ lost' = [lost EXCEPT ![e] = Silenced(@, s, loser)]
      /\ drove' = NoDrive
      /\ UNCHANGED <<closing, lease, subscribers, target>>
  BY <1>1, <1>2 DEF Claim, Commit, registryVars, socketVars, desktopVars
<1>5. loser # s /\ Nobody \notin subscribers[e]
  BY <1>2, NullAssumption DEF TInv, TypeOK
<1>6. quiet \in SUBSET {controller[e]} /\ s \notin quiet
  BY <1>2, <1>3, <1>5
<1>7. /\ lost'[e] = (lost[e] \ {s}) \cup ({loser} \ {Nobody})
      /\ \A x \in Entries : x # e => lost'[x] = lost[x]
  BY <1>4 DEF Silenced, TInv, TypeOK
<1>8. Watching(e)' = (Watching(e) \cup (quiet \ {Nobody})) \ {s}
  <2>1. Watching(e)' = {x \in lost'[e] \cap subscribers[e] : target[x] = e}
    BY <1>4 DEF Watching
  <2>2. QED BY <1>3, <1>6, <1>7, <2>1 DEF Watching
<1>9. \A x \in Entries : x # e => Watching(x)' = Watching(x)
  BY <1>4, <1>7 DEF Watching
<1>10. [x \in Entries |-> Watching(x)]' =
           [[x \in Entries |-> Watching(x)] EXCEPT ![e] =
                 (@ \cup (quiet \ {Nobody})) \ {s}]
  BY <1>8, <1>9
<1>11. Rights!Take(e, s)
  BY <1>1, <1>4, <1>6, <1>10 DEF IsLive, Rights!Take, Rights!NoDrive, NoDrive
<1>12. QED BY <1>11 DEF Rights!Next

\* A release frees the terminal; a take-back that hits also silences.
LEMMA FreeRights ==
    ASSUME TInv, NEW e \in Entries, NEW took \in SUBSET {controller[e]},
           took \subseteq Sockets,
           controller' = [controller EXCEPT ![e] = Nobody],
           lost' = [lost EXCEPT ![e] = @ \cup took],
           drove' = NoDrive,
           UNCHANGED <<closing, lease, subscribers, target>>
    PROVE  Rights!Next
<1> DEFINE quiet == took \cap {x \in subscribers[e] : target[x] = e}
<1>1. quiet \in SUBSET {controller[e]} /\ Nobody \notin quiet
  BY NullAssumption
<1>2. lost'[e] = lost[e] \cup took /\ \A x \in Entries : x # e => lost'[x] = lost[x]
  BY DEF TInv, TypeOK
<1>3. /\ Watching(e)' = Watching(e) \cup (quiet \ {Nobody})
      /\ \A x \in Entries : x # e => Watching(x)' = Watching(x)
  BY <1>1, <1>2 DEF Watching
<1>4. [x \in Entries |-> Watching(x)]' =
          [[x \in Entries |-> Watching(x)] EXCEPT ![e] = @ \cup (quiet \ {Nobody})]
  BY <1>3
<1> HIDE DEF quiet
<1>5. Rights!Free(e)
  BY <1>1, <1>4 DEF Rights!Free, Rights!NoDrive, NoDrive
<1>6. QED BY <1>5 DEF Rights!Next

LEMMA FreeingSteps ==
    ASSUME TInv, CInv,
           \/ \E s \in Sockets : ReleaseFrame(s)
           \/ \E mine \in BOOLEAN : TakeBack(mine)
    PROVE  Rights!Next
<1>1. ASSUME NEW s \in Sockets, ReleaseFrame(s) PROVE Rights!Next
  <2> DEFINE e == target[s]
  <2>1. e \in Entries
    BY <1>1 DEF ReleaseFrame, HeldBy, IsLive
  <2>2. /\ controller' = [controller EXCEPT ![e] = Nobody] /\ drove' = NoDrive
        /\ UNCHANGED <<closing, lease, lost, subscribers, target>>
    BY <1>1 DEF ReleaseFrame, Release, Commit, registryVars, attachVars,
       socketVars, desktopVars
  <2> HIDE DEF e
  <2> DEFINE took == {}
  <2>3. /\ took \in SUBSET {controller[e]} /\ took \subseteq Sockets
        /\ lost' = [lost EXCEPT ![e] = @ \cup took]
    BY <2>2 DEF TInv, TypeOK
  <2> HIDE DEF took
  <2>4. QED BY <2>1, <2>2, <2>3, FreeRights
<1>2. ASSUME NEW mine \in BOOLEAN, TakeBack(mine) PROVE Rights!Next
  <2> DEFINE e == current[click.window]
             hit == mine /\ e # NoEntry /\ ControlledAt(e, click.gen)
  <2>1. /\ drove' = NoDrive
        /\ UNCHANGED <<closing, lease, subscribers, target>>
    BY <1>2 DEF TakeBack, registryVars, socketVars
  <2>2. CASE hit
    <3>1. e \in Entries /\ controller[e] \in Sockets
      BY <2>2 DEF ControlledAt, IsLive, TInv, TypeOK
    <3>2. /\ controller' = [controller EXCEPT ![e] = Nobody]
          /\ lost' = [lost EXCEPT ![e] = @ \cup {controller[e]}]
      BY <1>2, <2>2 DEF TakeBack, Release, Commit
    <3> HIDE DEF e, hit
    <3>3. QED BY <2>1, <3>1, <3>2, FreeRights
  <2>3. CASE ~hit
    <3>1. UNCHANGED <<controller, lost>>
      BY <1>2, <2>3 DEF TakeBack, controlVars
    <3>2. QED BY <2>1, <3>1, Forgets DEF SameLosers, Rights!Next
  <2>4. QED BY <2>2, <2>3
<1>3. QED BY <1>1, <1>2

-----------------------------------------------------------------------------
\* A terminal is over, and its owner out now or a moment later.
LEMMA EndRights ==
    ASSUME TInv, NEW e \in Entries,
           closing' = [closing EXCEPT ![e] = TRUE],
           controller' \in {controller, [controller EXCEPT ![e] = Nobody]},
           UNCHANGED <<lost, lease, subscribers, target>>, drove' = NoDrive
    PROVE  Rights!Next
<1>1. \A x \in Entries : Watching(x)' = Watching(x)
  BY SameWatching DEF SameLosers
<1>2. Rights!End(e)
  BY <1>1 DEF Rights!End, Rights!NoDrive, NoDrive
<1>3. QED BY <1>2 DEF Rights!Next

LEMMA EndingSteps ==
    ASSUME TInv, CInv, NEW e \in Entries,
           Register(e) \/ ProducerExits(e) \/ ProducerEnds(e)
    PROVE  Rights!Next
<1>1. /\ UNCHANGED <<lost, lease, subscribers, target>> /\ drove' = NoDrive
  BY DEF Register, ProducerExits, ProducerEnds, attachVars, socketVars,
     desktopVars
<1>2. CASE ProducerExits(e)
  BY <1>1, <1>2, EndRights DEF ProducerExits, controlVars
<1>3. CASE ProducerEnds(e)
  <2>1. Deregister(e)
    BY <1>3 DEF ProducerEnds
  <2>2. CASE current[WindowOf[e]] = e
    <3>1. closing' = [closing EXCEPT ![e] = TRUE]
      BY <2>1, <2>2 DEF Deregister
    <3>2. controller' \in {controller, [controller EXCEPT ![e] = Nobody]}
      BY <2>1, <2>2 DEF Deregister, ReleaseIf, Release, Commit, controlVars
    <3>3. QED BY <1>1, <3>1, <3>2, EndRights
  <2>3. CASE current[WindowOf[e]] # e
    <3>1. UNCHANGED <<closing, controller>>
      BY <2>1, <2>3 DEF Deregister, ReleaseIf, controlVars
    <3>2. QED BY <1>1, <3>1, Forgets DEF SameLosers, Rights!Next
  <2>4. QED BY <2>2, <2>3
<1>4. CASE Register(e)
  <2> DEFINE old == current[WindowOf[e]]
  <2>1. old \in Entries \cup {NoEntry}
    BY WindowAssumption DEF TInv, TypeOK
  <2>2. /\ closing' = [x \in Entries |-> closing[x] \/ x = old]
        /\ controller' = [x \in Entries |->
                              IF x = old THEN Nobody ELSE controller[x]]
    BY <1>4 DEF Register, ForceReleased
  <2> HIDE DEF old
  <2>3. CASE old \in Entries
    <3>1. closing' = [closing EXCEPT ![old] = TRUE]
      BY <2>2, <2>3 DEF TInv, TypeOK
    <3>2. controller' = [controller EXCEPT ![old] = Nobody]
      BY <2>2, <2>3 DEF TInv, TypeOK
    <3>3. QED BY <1>1, <2>3, <3>1, <3>2, EndRights
  <2>4. CASE old = NoEntry
    <3>1. UNCHANGED <<closing, controller>>
      BY <2>2, <2>4, NullAssumption DEF TInv, TypeOK
    <3>2. QED BY <1>1, <3>1, Forgets DEF SameLosers, Rights!Next
  <2>5. QED BY <2>1, <2>3, <2>4
<1>5. QED BY <1>2, <1>3, <1>4

-----------------------------------------------------------------------------
LEMMA InitRights == Init => Rights!Init
  BY DEF Init, Rights!Init, Rights!NoDrive, NoDrive, Watching

\* Every step of the broker is a step of the promise, or none of its business.
LEMMA StepRights == ASSUME TInv, CInv, [Next]_vars PROVE [Rights!Next]_(Rights!vars)
<1>1. CASE \E e \in Entries :
              Register(e) \/ SweepOne(e) \/ RegisterCancelled(e)
  BY <1>1, EndingSteps, QuietRights
<1>2. CASE \E e \in Entries : ProducerExits(e) \/ ProducerEnds(e)
  BY <1>2, EndingSteps
<1>3. CASE \/ \E e \in Entries, s \in Sockets : BroadcastFails(e, s)
           \/ \E w \in Windows : SendRevoked(w) \/ SendView(w)
           \/ \E s \in Sockets : SocketEnds(s)
  BY <1>3, LeavingSteps
<1>4. CASE \/ \E w \in Windows : StartPublication(w) \/ FinishPublication(w)
           \/ \E s \in Sockets, w \in Windows : Dial(s, w)
           \/ \E s \in Sockets : EnterAttach(s) \/ TellAttached(s) \/ PeerCloses(s)
           \/ \E s \in Sockets : AdmitFrame(s)
           \/ \E w \in Windows : ClickTakeBack(w)
  BY <1>4, QuietRights
<1>5. CASE \E s \in Sockets : SendFrame(s)
  BY <1>5, DriveWithinRights
<1>6. CASE \E s \in Sockets : Claim(s)
  BY <1>6, TakeRights
<1>7. CASE \/ \E s \in Sockets : ReleaseFrame(s)
           \/ \E mine \in BOOLEAN : TakeBack(mine)
  BY <1>7, FreeingSteps
<1>8. CASE \E c \in Clients \cup {NoClient} : LeaseMoves(c)
  BY <1>8, LeaseRights
<1>9. CASE UNCHANGED vars
  <2>1. UNCHANGED <<controller, closing, lease, drove, lost, subscribers, target>>
    BY <1>9 DEF vars, registryVars, controlVars, attachVars, socketVars,
       desktopVars, ghostVars
  <2>2. \A e \in Entries : Watching(e)' = Watching(e)
    BY <2>1, SameWatching DEF SameLosers
  <2>3. QED BY <2>1, <2>2 DEF Rights!vars
<1>10. QED
  BY <1>1, <1>2, <1>3, <1>4, <1>5, <1>6, <1>7, <1>8, <1>9 DEF Next

\* Terminal control keeps its promise whatever the windows, producers, sockets
\* and clients: a frame reaches a producer only from the terminal's controller
\* or, uncontrolled, from the lease's browser, and never from a watcher that
\* lost it (relay._drive_refusal under send_to_producer_if, registry.claim,
\* release_by_gen).
THEOREM ImplementsDriveRights == Spec => DriveRightsHold
<1>1. Init => Rights!Init
  BY InitRights
<1>2. TInv /\ CInv /\ [Next]_vars => [Rights!Next]_(Rights!vars)
  BY StepRights
<1>3. Spec => []TInv
  BY TInvInvariant
<1>4. Spec => []CInv
  BY ControlInvariant
<1>5. QED
  BY <1>1, <1>2, <1>3, <1>4, PTL DEF Spec, DriveRightsHold, Rights!Spec

-----------------------------------------------------------------------------
(***************************************************************************)
(* What a socket is told: it hears growing generations, it rests on the    *)
(* live view once the publisher has nothing left to do, none stays on a    *)
(* replaced entry unswept, and a take-back hits the controller its sender  *)
(* saw.                                                                    *)
(*                                                                         *)
(* None of it is inductive alone.  The strengthening says, in five parts,  *)
(* how the publisher's queue, the entries, the section and the sockets fit *)
(* together: QueueInv (what is queued is newer than what is published and  *)
(* ends in the live view), GenInv (a generation names one change), SockInv *)
(* (who has been told what while a publication is half sent), SweepInv,    *)
(* and the control invariants above.                                       *)
(***************************************************************************)

-----------------------------------------------------------------------------
(* Queues of publications.                                                 *)

\* Appending keeps every element where it is, and the head.
LEMMA AppendShape ==
    ASSUME NEW S, NEW q \in Seq(S), NEW x \in S
    PROVE  /\ Len(q) \in Nat /\ Len(Append(q, x)) = Len(q) + 1
           /\ \A i \in 1 .. Len(q) : Append(q, x)[i] = q[i]
           /\ Append(q, x)[Len(q) + 1] = x
           /\ q # <<>> => Head(Append(q, x)) = Head(q)
  OBVIOUS

LEMMA TailShape ==
    ASSUME NEW S, NEW q \in Seq(S), q # <<>>
    PROVE  /\ Len(q) \in Nat /\ Len(q) > 0 /\ Len(Tail(q)) = Len(q) - 1
           /\ \A i \in 1 .. Len(q) - 1 : Tail(q)[i] = q[i + 1]
           /\ Head(q) = q[1]
  OBVIOUS

LEMMA PublicationParts ==
    ASSUME NEW p \in Publications
    PROVE  /\ p.entry \in Entries /\ p.view \in Views /\ p.view.gen \in Nat
           /\ p.lost \in Sockets \cup {Nobody}
  BY DEF Publications, Views

\* What is queued under an id is of that id, newer than what is published of
\* its entry and in growing generations, up to the entry's own.
QueueOrdered ==
    \A w \in Windows : \A i \in 1 .. Len(pending[w]) :
        LET p == pending[w][i] IN
        /\ WindowOf[p.entry] = w /\ session[p.entry] # "new"
        /\ published[p.entry].gen < p.view.gen
        /\ p.view.gen <= controlGen[p.entry]
        /\ \A j \in 1 .. i - 1 : pending[w][j].view.gen < p.view.gen

\* The live view of an entry is published, or queued.
LiveViewComes ==
    \A e \in Entries :
        \/ published[e] = View(e)
        \/ \E i \in 1 .. Len(pending[WindowOf[e]]) :
             /\ pending[WindowOf[e]][i].entry = e
             /\ pending[WindowOf[e]][i].view = View(e)

ZeroIsFree == \A e \in Entries : published[e].gen = 0 => published[e] = Free(0)

QueueInv == QueueOrdered /\ LiveViewComes /\ ZeroIsFree

LEMMA QueueTyped ==
    ASSUME TInv, NEW w \in Windows
    PROVE  /\ pending[w] \in Seq(Publications) /\ Len(pending[w]) \in Nat
           /\ \A i \in 1 .. Len(pending[w]) :
                /\ pending[w][i] \in Publications
                /\ pending[w][i].entry \in Entries
                /\ pending[w][i].view \in Views /\ pending[w][i].view.gen \in Nat
  <1>1. pending[w] \in Seq(Publications) BY DEF TInv, TypeOK
  <1>2. \A i \in 1 .. Len(pending[w]) : pending[w][i] \in Publications BY <1>1
  <1> QED BY <1>1, <1>2, PublicationParts

LEMMA EntryTyped ==
    ASSUME TInv, NEW e \in Entries
    PROVE  /\ WindowOf[e] \in Windows /\ controlGen[e] \in Nat /\ seq \in Nat
           /\ published[e] \in Views /\ published[e].gen \in Nat
           /\ View(e) \in Views /\ View(e).gen = controlGen[e]
           /\ controller[e] \in Sockets \cup {Nobody} /\ Nobody \notin Sockets
  BY WindowAssumption, NullAssumption DEF TInv, TypeOK, Views, View

LEMMA InitQueue == ASSUME Init PROVE QueueInv
  <1>1. \A w \in Windows : Len(pending[w]) = 0 BY DEF Init
  <1>2. QueueOrdered BY <1>1 DEF QueueOrdered
  <1>3. LiveViewComes BY DEF Init, LiveViewComes, View, Free
  <1>4. ZeroIsFree BY DEF Init, ZeroIsFree, Free
  <1> QED BY <1>2, <1>3, <1>4 DEF QueueInv

\* Nothing of the kind moved: entries may only come up or go.
LEMMA QueueAlone ==
    ASSUME QueueInv, UNCHANGED <<pending, published, controller, controlGen>>,
           \A e \in Entries : session[e] # "new" => session'[e] # "new",
           TInv
    PROVE  QueueInv'
  <1>1. QueueOrdered'
    BY QueueTyped DEF QueueInv, QueueOrdered
  <1>2. \A e \in Entries : View(e)' = View(e) BY DEF View
  <1>3. LiveViewComes' BY <1>2 DEF QueueInv, LiveViewComes
  <1>4. ZeroIsFree' BY DEF QueueInv, ZeroIsFree
  <1> QED BY <1>1, <1>3, <1>4 DEF QueueInv


\* Appending to one queue keeps what is queued where it is.
LEMMA QueueAppended ==
    ASSUME TInv, NEW w \in Windows, NEW p \in Publications,
           pending' = [pending EXCEPT ![w] = Append(@, p)]
    PROVE  /\ \A y \in Windows : \A i \in 1 .. Len(pending[y]) :
                i \in 1 .. Len(pending'[y]) /\ pending'[y][i] = pending[y][i]
           /\ \A y \in Windows : \A i \in 1 .. Len(pending'[y]) :
                \/ i \in 1 .. Len(pending[y])
                \/ y = w /\ i = Len(pending[w]) + 1
           /\ Len(pending[w]) + 1 \in 1 .. Len(pending'[w])
           /\ pending'[w][Len(pending[w]) + 1] = p
           /\ \A y \in Windows : pending[y] # <<>> =>
                pending'[y] # <<>> /\ Head(pending'[y]) = Head(pending[y])
  <1>1. /\ pending'[w] = Append(pending[w], p)
        /\ \A y \in Windows \ {w} : pending'[y] = pending[y]
    BY DEF TInv, TypeOK
  <1>2. pending[w] \in Seq(Publications) /\ Len(pending[w]) \in Nat
    BY QueueTyped
  <1>3. /\ Len(pending'[w]) = Len(pending[w]) + 1
        /\ \A i \in 1 .. Len(pending[w]) : pending'[w][i] = pending[w][i]
        /\ pending'[w][Len(pending[w]) + 1] = p
        /\ pending[w] # <<>> => Head(pending'[w]) = Head(pending[w])
    BY <1>1, <1>2, AppendShape
  <1>4. \A i \in 1 .. Len(pending[w]) : i \in 1 .. Len(pending'[w])
    BY <1>2, <1>3
  <1>5. \A i \in 1 .. Len(pending'[w]) :
            i \in 1 .. Len(pending[w]) \/ i = Len(pending[w]) + 1
    BY <1>2, <1>3
  <1>6. Len(pending[w]) + 1 \in 1 .. Len(pending'[w]) BY <1>2, <1>3
  <1>7. pending'[w] # <<>> BY <1>1, <1>2, QueueTypes
  <1> QED BY <1>1, <1>3, <1>4, <1>5, <1>6, <1>7

\* What is appended is last.
LEMMA QueueLast ==
    ASSUME TInv, NEW w \in Windows, NEW p \in Publications,
           pending' = [pending EXCEPT ![w] = Append(@, p)]
    PROVE  /\ Len(pending[w]) + 1 \in 1 .. Len(pending'[w])
           /\ pending'[w][Len(pending[w]) + 1] = p
  BY QueueAppended

\* A newer publication joins the queue of its id; entries come up meanwhile.
LEMMA OrderedGrows ==
    ASSUME TInv, QueueOrdered, NEW w \in Windows, NEW p \in Publications,
           pending' = [pending EXCEPT ![w] = Append(@, p)],
           WindowOf[p.entry] = w, session'[p.entry] # "new",
           published'[p.entry].gen < p.view.gen,
           p.view.gen <= controlGen'[p.entry],
           \A i \in 1 .. Len(pending[w]) : pending[w][i].view.gen < p.view.gen,
           \A x \in Entries : session[x] # "new" =>
                session'[x] # "new" /\ published'[x] = published[x],
           \A x \in Entries : controlGen[x] <= controlGen'[x],
           controlGen' \in [Entries -> Nat]
    PROVE  QueueOrdered'
  <1> SUFFICES ASSUME NEW y \in Windows, NEW i \in 1 .. Len(pending'[y])
               PROVE  LET x == pending'[y][i] IN
                      /\ WindowOf[x.entry] = y /\ session'[x.entry] # "new"
                      /\ published'[x.entry].gen < x.view.gen
                      /\ x.view.gen <= controlGen'[x.entry]
                      /\ \A j \in 1 .. i - 1 :
                            pending'[y][j].view.gen < x.view.gen
    BY DEF QueueOrdered
  <1>1. CASE i \in 1 .. Len(pending[y])
    <2> DEFINE x == pending[y][i]
    <2>1. Len(pending[y]) \in Nat BY QueueTyped
    <2>2. pending'[y][i] = x BY <1>1, QueueAppended
    <2>3. \A j \in 1 .. i - 1 : j \in 1 .. Len(pending[y]) BY <1>1, <2>1
    <2>4. \A j \in 1 .. i - 1 : pending'[y][j] = pending[y][j]
      BY <2>3, QueueAppended
    <2>5. /\ WindowOf[x.entry] = y /\ session[x.entry] # "new"
          /\ published[x.entry].gen < x.view.gen
          /\ x.view.gen <= controlGen[x.entry]
          /\ \A j \in 1 .. i - 1 : pending[y][j].view.gen < x.view.gen
      BY <1>1 DEF QueueOrdered
    <2>6. x.entry \in Entries /\ x.view.gen \in Nat BY <1>1, QueueTyped
    <2> HIDE DEF x
    <2>7. x.view.gen <= controlGen'[x.entry]
      BY <2>5, <2>6, EntryTyped
    <2> QED BY <2>2, <2>4, <2>5, <2>6, <2>7
  <1>2. CASE y = w /\ i = Len(pending[w]) + 1
    <2>1. pending'[y][i] = p BY <1>2, QueueAppended
    <2>2. \A j \in 1 .. i - 1 : j \in 1 .. Len(pending[w])
      BY <1>2, QueueTyped
    <2>3. \A j \in 1 .. i - 1 : pending'[y][j].view.gen < p.view.gen
      BY <1>2, <2>2, QueueAppended
    <2> QED BY <1>2, <2>1, <2>3
  <1> QED BY <1>1, <1>2, QueueAppended

\* What is published or queued of an entry stays so when its view does.
LEMMA LiveGrows ==
    ASSUME TInv, LiveViewComes, NEW w \in Windows, NEW p \in Publications,
           pending' = [pending EXCEPT ![w] = Append(@, p)],
           NEW x \in Entries, View(x)' = View(x), published'[x] = published[x]
    PROVE  \/ published'[x] = View(x)'
           \/ \E i \in 1 .. Len(pending'[WindowOf[x]]) :
                /\ pending'[WindowOf[x]][i].entry = x
                /\ pending'[WindowOf[x]][i].view = View(x)'
  <1>1. CASE published[x] = View(x) BY <1>1
  <1>2. CASE published[x] # View(x)
    <2>1. PICK i \in 1 .. Len(pending[WindowOf[x]]) :
              /\ pending[WindowOf[x]][i].entry = x
              /\ pending[WindowOf[x]][i].view = View(x)
      BY <1>2 DEF LiveViewComes
    <2>2. WindowOf[x] \in Windows BY EntryTyped
    <2>3. /\ i \in 1 .. Len(pending'[WindowOf[x]])
          /\ pending'[WindowOf[x]][i] = pending[WindowOf[x]][i]
      BY <2>2, QueueAppended
    <2> QED BY <2>1, <2>3
  <1> QED BY <1>1, <1>2

\* Nothing published or queued has a generation the sequence has not reached.
LEMMA PublishedBelowSeq ==
    ASSUME TInv, CInv, QueueInv
    PROVE  /\ \A e \in Entries : published[e].gen <= controlGen[e]
           /\ \A e \in Entries : controlGen[e] <= seq
           /\ \A w \in Windows : \A i \in 1 .. Len(pending[w]) :
                pending[w][i].view.gen <= seq
  <1>1. \A e \in Entries : controlGen[e] <= seq BY DEF CInv, GensBelowSeq
  <1>2. ASSUME NEW e \in Entries PROVE published[e].gen <= controlGen[e]
    <2> DEFINE w == WindowOf[e]
    <2>1. /\ published[e].gen \in Nat /\ View(e).gen = controlGen[e]
          /\ w \in Windows /\ controlGen[e] \in Nat
      BY EntryTyped
    <2>2. CASE published[e] = View(e) BY <2>1, <2>2
    <2>3. CASE published[e] # View(e)
      <3>1. PICK i \in 1 .. Len(pending[w]) :
                pending[w][i].entry = e /\ pending[w][i].view = View(e)
        BY <2>3 DEF QueueInv, LiveViewComes
      <3>2. published[e].gen < pending[w][i].view.gen
        BY <2>1, <3>1 DEF QueueInv, QueueOrdered
      <3>3. pending[w][i].view.gen = controlGen[e] BY <2>1, <3>1
      <3> HIDE DEF w
      <3> QED BY <2>1, <3>2, <3>3
    <2> QED BY <2>2, <2>3
  <1>3. ASSUME NEW w \in Windows, NEW i \in 1 .. Len(pending[w])
        PROVE  pending[w][i].view.gen <= seq
    <2> DEFINE p == pending[w][i]
    <2>1. p.entry \in Entries /\ p.view.gen \in Nat BY QueueTyped
    <2>2. p.view.gen <= controlGen[p.entry] BY DEF QueueInv, QueueOrdered
    <2> HIDE DEF p
    <2>3. /\ controlGen[p.entry] \in Nat /\ seq \in Nat
          /\ controlGen[p.entry] <= seq
      BY <1>1, <2>1, EntryTyped
    <2>4. p.view.gen <= seq BY <2>1, <2>2, <2>3
    <2> QED BY <2>4 DEF p
  <1> QED BY <1>1, <1>2, <1>3

\* A change of an entry that has said hello queues its view behind the others.
LEMMA QueueCommit ==
    ASSUME TInv, CInv, QueueInv, NEW e \in Entries, session[e] # "new",
           NEW s \in Sockets \cup {Nobody}, NEW loser \in Sockets \cup {Nobody},
           Commit(e, s, loser), UNCHANGED published,
           \A x \in Entries : session[x] # "new" => session'[x] # "new"
    PROVE  QueueInv'
  <1> DEFINE w == WindowOf[e]
             v == [state |-> IF s = Nobody THEN "free" ELSE "controlled",
                   gen |-> seq + 1]
             p == [entry |-> e, lost |-> loser, view |-> v]
  <1>1. w \in Windows /\ seq \in Nat BY EntryTyped
  <1>2. v \in Views /\ v.gen = seq + 1 BY <1>1 DEF Views
  <1>3. p \in Publications /\ p.entry = e /\ p.view = v
    BY <1>2 DEF Publications
  <1>4. /\ pending' = [pending EXCEPT ![w] = Append(@, p)]
        /\ controller' = [controller EXCEPT ![e] = s]
        /\ controlGen' = [controlGen EXCEPT ![e] = seq + 1]
    BY DEF Commit
  <1>5. View(e)' = v /\ \A x \in Entries \ {e} : View(x)' = View(x)
    BY <1>4 DEF View, TInv, TypeOK
  <1> HIDE DEF p, v
  <1>6. /\ \A x \in Entries : controlGen[x] <= seq /\ controlGen[x] \in Nat
        /\ controlGen'[e] = seq + 1
        /\ \A x \in Entries \ {e} : controlGen'[x] = controlGen[x]
        /\ controlGen' \in [Entries -> Nat]
    BY <1>1, <1>4 DEF CInv, GensBelowSeq, TInv, TypeOK
  <1>7. published[e].gen <= seq /\ published[e].gen \in Nat
    BY <1>1, <1>6, PublishedBelowSeq, EntryTyped
  <1>8. \A i \in 1 .. Len(pending[w]) : pending[w][i].view.gen < p.view.gen
    <2> TAKE i \in 1 .. Len(pending[w])
    <2>1. pending[w][i].view.gen <= seq /\ pending[w][i].view.gen \in Nat
      BY <1>1, PublishedBelowSeq, QueueTyped
    <2> QED BY <1>1, <1>2, <1>3, <2>1
  <1>9. \A x \in Entries : controlGen[x] <= controlGen'[x] BY <1>1, <1>6
  <1>10. /\ published'[p.entry].gen < p.view.gen
         /\ p.view.gen <= controlGen'[p.entry]
    BY <1>1, <1>2, <1>3, <1>6, <1>7
  <1>11. QueueOrdered'
    <2>1. WindowOf[p.entry] = w /\ session'[p.entry] # "new" BY <1>3
    <2>2. \A x \in Entries : session[x] # "new" =>
                session'[x] # "new" /\ published'[x] = published[x]
      OBVIOUS
    <2>3. QueueOrdered BY DEF QueueInv
    <2> HIDE DEF w
    <2> QED
      BY <1>1, <1>3, <1>4, <1>6, <1>8, <1>9, <1>10, <2>1, <2>2, <2>3, OrderedGrows
  <1>12. LiveViewComes'
    <2>1. ASSUME NEW x \in Entries, x # e
          PROVE  \/ published'[x] = View(x)'
                 \/ \E i \in 1 .. Len(pending'[WindowOf[x]]) :
                      /\ pending'[WindowOf[x]][i].entry = x
                      /\ pending'[WindowOf[x]][i].view = View(x)'
      BY <1>1, <1>3, <1>4, <1>5, <2>1, LiveGrows DEF QueueInv
    <2>2. \E i \in 1 .. Len(pending'[w]) :
             pending'[w][i].entry = e /\ pending'[w][i].view = View(e)'
      <3>1. /\ Len(pending[w]) + 1 \in 1 .. Len(pending'[w])
            /\ pending'[w][Len(pending[w]) + 1] = p
        BY <1>1, <1>3, <1>4, QueueAppended
      <3> QED BY <1>3, <1>5, <3>1
    <2> QED BY <2>1, <2>2 DEF LiveViewComes
  <1>13. ZeroIsFree' BY DEF QueueInv, ZeroIsFree
  <1> QED BY <1>11, <1>12, <1>13 DEF QueueInv

\* An entry comes up; nothing joins a queue.
LEMMA OrderedKept ==
    ASSUME TInv, QueueOrdered, pending' = pending,
           \A x \in Entries : session[x] # "new" =>
                session'[x] # "new" /\ published'[x] = published[x],
           \A x \in Entries : controlGen[x] <= controlGen'[x],
           controlGen' \in [Entries -> Nat]
    PROVE  QueueOrdered'
  <1> SUFFICES ASSUME NEW y \in Windows, NEW i \in 1 .. Len(pending[y])
               PROVE  LET x == pending[y][i] IN
                      /\ WindowOf[x.entry] = y /\ session'[x.entry] # "new"
                      /\ published'[x.entry].gen < x.view.gen
                      /\ x.view.gen <= controlGen'[x.entry]
                      /\ \A j \in 1 .. i - 1 :
                            pending[y][j].view.gen < x.view.gen
    BY DEF QueueOrdered
  <1> DEFINE x == pending[y][i]
  <1>1. /\ WindowOf[x.entry] = y /\ session[x.entry] # "new"
        /\ published[x.entry].gen < x.view.gen
        /\ x.view.gen <= controlGen[x.entry]
        /\ \A j \in 1 .. i - 1 : pending[y][j].view.gen < x.view.gen
    BY DEF QueueOrdered
  <1>2. x.entry \in Entries /\ x.view.gen \in Nat BY QueueTyped
  <1> HIDE DEF x
  <1>3. x.view.gen <= controlGen'[x.entry] BY <1>1, <1>2, EntryTyped
  <1> QED BY <1>1, <1>2, <1>3 DEF x

\* A hello: the new entry is published free at once; the one it replaces, if it
\* was controlled, has its release queued.
LEMMA RegisterQueue ==
    ASSUME TInv, CInv, QueueInv, NEW e \in Entries, Register(e)
    PROVE  QueueInv'
  <1> DEFINE w == WindowOf[e]
             old == current[w]
             freed == old # NoEntry /\ controller[old] # Nobody
             gen == IF freed THEN seq + 2 ELSE seq + 1
             p == [entry |-> old, lost |-> Nobody, view |-> Free(seq + 1)]
  <1>1. /\ w \in Windows /\ e # NoEntry /\ seq \in Nat /\ gen \in Nat
        /\ gen > seq
    BY WindowAssumption, NullAssumption, EntryTyped
  <1>2. /\ session[e] = "new" /\ session' = [session EXCEPT ![e] = "running"]
        /\ current' = [current EXCEPT ![w] = e]
        /\ controller' = ForceReleased(old)
        /\ controlGen' = [x \in Entries |-> IF x = e THEN gen
                              ELSE IF freed /\ x = old THEN seq + 1
                              ELSE controlGen[x]]
        /\ published' = [published EXCEPT ![e] = Free(gen)]
        /\ pending' = IF freed THEN [pending EXCEPT ![w] = Append(@, p)]
                               ELSE pending
    BY DEF Register
  <1>3. /\ old # NoEntry => old \in Entries /\ WindowOf[old] = w
        /\ old # NoEntry => session[old] # "new"
        /\ old # e
    <2>1. old \in Entries \cup {NoEntry} BY <1>1 DEF TInv, TypeOK
    <2>2. old # NoEntry => /\ WindowOf[old] = w
                           /\ session[old] \in {"running", "exiting", "stranded"}
      BY <1>1 DEF CInv, Registered
    <2> QED BY <1>1, <1>2, <2>1, <2>2
  <1>4. controller[e] = Nobody
    BY <1>1, <1>2, <1>3 DEF CInv, ControlledIsRegistered
  <1>5. \A x \in Entries : controlGen[x] <= seq /\ controlGen[x] \in Nat
    BY DEF CInv, GensBelowSeq, TInv, TypeOK
  <1> HIDE DEF w, old, freed, gen, p
  <1>6. freed => /\ p \in Publications /\ p.entry = old
                 /\ p.view = Free(seq + 1) /\ p.view.gen = seq + 1
    <2>1. Free(seq + 1) \in Views /\ Free(seq + 1).gen = seq + 1
      BY <1>1 DEF Free, Views
    <2> QED BY <1>3, <2>1 DEF p, freed, Publications
  <1>7. /\ controlGen' \in [Entries -> Nat]
        /\ controlGen'[e] = gen
        /\ \A x \in Entries : controlGen[x] <= controlGen'[x]
        /\ freed => controlGen'[old] = seq + 1
        /\ \A x \in Entries \ {e} :
             ~(freed /\ x = old) => controlGen'[x] = controlGen[x]
    <2>1. controlGen' \in [Entries -> Nat] BY <1>1, <1>2, <1>5
    <2>2. controlGen'[e] = gen BY <1>2
    <2>3. \A x \in Entries \ {e} :
             ~(freed /\ x = old) => controlGen'[x] = controlGen[x]
      BY <1>2
    <2>4. freed => controlGen'[old] = seq + 1 BY <1>2, <1>3 DEF freed
    <2>5. ASSUME NEW x \in Entries PROVE controlGen[x] <= controlGen'[x]
      <3>1. controlGen'[x] \in {gen, seq + 1, controlGen[x]} BY <1>2
      <3> QED BY <1>1, <1>5, <3>1
    <2> QED BY <2>1, <2>2, <2>3, <2>4, <2>5
  <1>8. \A x \in Entries :
            controller'[x] = IF x = old THEN Nobody ELSE controller[x]
    BY <1>2 DEF ForceReleased
  <1>9. /\ published'[e] = Free(gen)
        /\ \A x \in Entries \ {e} : published'[x] = published[x]
    BY <1>2 DEF TInv, TypeOK
  <1>10. \A x \in Entries : session[x] # "new" =>
                session'[x] # "new" /\ published'[x] = published[x]
    BY <1>2, <1>9 DEF TInv, TypeOK
  <1>11. View(e)' = published'[e]
    BY <1>4, <1>7, <1>8, <1>9 DEF View, Free
  <1>12. ASSUME NEW x \in Entries, x # e, ~(freed /\ x = old)
         PROVE  View(x)' = View(x)
    <2>1. controller'[x] = controller[x]
      <3>1. x # NoEntry BY NullAssumption
      <3> QED BY <1>8, <1>12, <3>1 DEF freed
    <2>2. controlGen'[x] = controlGen[x] BY <1>7, <1>12
    <2> QED BY <2>1, <2>2 DEF View
  <1>13. QueueOrdered' /\ LiveViewComes'
    <2>1. CASE freed
      <3>1. /\ p \in Publications /\ p.entry = old
            /\ p.view = Free(seq + 1) /\ p.view.gen = seq + 1
            /\ old \in Entries /\ WindowOf[old] = w /\ session[old] # "new"
            /\ pending' = [pending EXCEPT ![w] = Append(@, p)]
        BY <1>2, <1>3, <1>6, <2>1 DEF freed
      <3>2. /\ published'[p.entry].gen < p.view.gen
            /\ p.view.gen <= controlGen'[p.entry]
            /\ WindowOf[p.entry] = w /\ session'[p.entry] # "new"
        <4>1. /\ published[old].gen <= seq /\ published[old].gen \in Nat
              /\ published'[old] = published[old] /\ controlGen'[old] = seq + 1
          BY <1>1, <1>3, <1>5, <1>7, <1>9, <2>1, <3>1, PublishedBelowSeq,
             EntryTyped
        <4> QED BY <1>1, <1>10, <3>1, <4>1
      <3>3. \A i \in 1 .. Len(pending[w]) : pending[w][i].view.gen < p.view.gen
        <4> TAKE i \in 1 .. Len(pending[w])
        <4>1. pending[w][i].view.gen <= seq /\ pending[w][i].view.gen \in Nat
          BY <1>1, PublishedBelowSeq, QueueTyped
        <4> QED BY <1>1, <3>1, <4>1
      <3>4. QueueOrdered'
        BY <1>1, <1>7, <1>10, <3>1, <3>2, <3>3, OrderedGrows DEF QueueInv
      <3>5. ASSUME NEW x \in Entries, x # e, x # old
            PROVE  \/ published'[x] = View(x)'
                   \/ \E i \in 1 .. Len(pending'[WindowOf[x]]) :
                        /\ pending'[WindowOf[x]][i].entry = x
                        /\ pending'[WindowOf[x]][i].view = View(x)'
        BY <1>1, <1>9, <1>12, <3>1, <3>5, LiveGrows DEF QueueInv
      <3>6. ASSUME NEW x \in Entries, x = old PROVE View(x)' = Free(seq + 1)
        <4>1. controller'[x] = Nobody /\ controlGen'[x] = seq + 1
          BY <1>7, <1>8, <2>1, <3>6
        <4> QED BY <4>1 DEF View, Free
      <3>7. ASSUME NEW x \in Entries, x = old
            PROVE  \E i \in 1 .. Len(pending'[WindowOf[x]]) :
                     /\ pending'[WindowOf[x]][i].entry = x
                     /\ pending'[WindowOf[x]][i].view = View(x)'
        <4>1. /\ Len(pending[w]) + 1 \in 1 .. Len(pending'[w])
              /\ pending'[w][Len(pending[w]) + 1] = p
          <5> HIDE DEF w, p, old, freed
          <5> QED BY <1>1, <3>1, QueueLast
        <4>2. WindowOf[x] = w BY <3>1, <3>7
        <4>3. View(x)' = Free(seq + 1) BY <3>6, <3>7
        <4> QED BY <3>1, <3>7, <4>1, <4>2, <4>3
      <3>8. ASSUME NEW x \in Entries
            PROVE  \/ published'[x] = View(x)'
                   \/ \E i \in 1 .. Len(pending'[WindowOf[x]]) :
                        /\ pending'[WindowOf[x]][i].entry = x
                        /\ pending'[WindowOf[x]][i].view = View(x)'
        <4>1. CASE x = e BY <1>11, <4>1
        <4>2. CASE x = old BY <3>7, <4>2
        <4> QED BY <3>5, <4>1, <4>2
      <3>9. LiveViewComes' BY <3>8 DEF LiveViewComes
      <3> QED BY <3>4, <3>9
    <2>2. CASE ~freed
      <3>1. pending' = pending BY <1>2, <2>2
      <3>2. QueueOrdered' BY <1>7, <1>10, <3>1, OrderedKept DEF QueueInv
      <3>3. \A x \in Entries \ {e} :
               View(x)' = View(x) /\ published'[x] = published[x]
        BY <1>9, <1>12, <2>2
      <3>4. LiveViewComes'
        BY <1>11, <3>1, <3>3 DEF QueueInv, LiveViewComes
      <3> QED BY <3>2, <3>4
    <2> QED BY <2>1, <2>2
  <1>14. ZeroIsFree'
    <2>1. Free(gen).gen # 0 BY <1>1 DEF Free
    <2> QED BY <1>9, <2>1 DEF QueueInv, ZeroIsFree
  <1> QED BY <1>13, <1>14 DEF QueueInv

\* The oldest publication is over: what it announced is now published.
LEMMA FinishQueue ==
    ASSUME TInv, CInv, QueueInv, NEW w \in Windows, FinishPublication(w)
    PROVE  QueueInv'
  <1> DEFINE q == pending[w]
             p == Head(q)
  <1>1. /\ section[w] = [kind |-> "send", socks |-> {}]
        /\ published' = [published EXCEPT ![p.entry] = p.view]
        /\ pending' = [pending EXCEPT ![w] = Tail(@)]
        /\ UNCHANGED <<session, controller, controlGen>>
    BY DEF FinishPublication, Recorded, registryVars
  <1>2. q # <<>> BY <1>1 DEF TInv, Publishing
  <1>3. q \in Seq(Publications) /\ Len(q) \in Nat BY QueueTyped
  <1>4. /\ pending'[w] = Tail(q)
        /\ \A y \in Windows \ {w} : pending'[y] = pending[y]
    BY <1>1 DEF TInv, TypeOK
  <1>5. /\ Len(q) > 0 /\ Len(pending'[w]) = Len(q) - 1
        /\ \A i \in 1 .. Len(q) - 1 : pending'[w][i] = q[i + 1]
        /\ p = q[1]
    BY <1>2, <1>3, <1>4, TailShape
  <1>6. 1 \in 1 .. Len(q) BY <1>3, <1>5
  <1>7. /\ p.entry \in Entries /\ p.view.gen \in Nat /\ p.view \in Views
        /\ WindowOf[p.entry] = w /\ published[p.entry].gen < p.view.gen
        /\ p.view.gen <= controlGen[p.entry]
    BY <1>5, <1>6, QueueTyped DEF QueueInv, QueueOrdered
  <1>8. /\ published'[p.entry] = p.view
        /\ \A x \in Entries \ {p.entry} : published'[x] = published[x]
    BY <1>1, <1>7 DEF TInv, TypeOK
  <1>9. \A x \in Entries : View(x)' = View(x) BY <1>1 DEF View
  <1>10. QueueOrdered'
    <2> SUFFICES ASSUME NEW y \in Windows, NEW i \in 1 .. Len(pending'[y])
                 PROVE  LET x == pending'[y][i] IN
                        /\ WindowOf[x.entry] = y /\ session'[x.entry] # "new"
                        /\ published'[x.entry].gen < x.view.gen
                        /\ x.view.gen <= controlGen'[x.entry]
                        /\ \A j \in 1 .. i - 1 :
                              pending'[y][j].view.gen < x.view.gen
      BY DEF QueueOrdered
    <2>1. CASE y = w
      <3> DEFINE x == q[i + 1]
      <3>1. i \in 1 .. Len(q) - 1 /\ i \in Nat BY <1>3, <1>5, <2>1
      <3>2. /\ i + 1 \in 1 .. Len(q)
            /\ \A j \in 1 .. i - 1 : /\ j \in 1 .. Len(q) - 1
                                     /\ j + 1 \in 1 .. (i + 1) - 1
        BY <1>3, <3>1
      <3>3. 1 \in 1 .. (i + 1) - 1 BY <3>1
      <3>4. /\ WindowOf[x.entry] = w /\ session[x.entry] # "new"
            /\ published[x.entry].gen < x.view.gen
            /\ x.view.gen <= controlGen[x.entry]
            /\ \A j \in 1 .. (i + 1) - 1 : q[j].view.gen < x.view.gen
        BY <3>2 DEF QueueInv, QueueOrdered
      <3>5. pending'[y][i] = x BY <1>5, <2>1, <3>1
      <3>6. x.entry \in Entries BY <3>2, QueueTyped
      <3>7. p.view.gen < x.view.gen BY <1>5, <3>3, <3>4
      <3>8. \A j \in 1 .. i - 1 : pending'[y][j].view.gen < x.view.gen
        BY <1>5, <2>1, <3>2, <3>4
      <3> HIDE DEF x, q, p
      <3>9. published'[x.entry].gen < x.view.gen
        BY <1>8, <3>4, <3>6, <3>7
      <3> QED BY <1>1, <2>1, <3>4, <3>5, <3>8, <3>9
    <2>2. CASE y # w
      <3> DEFINE x == pending[y][i]
      <3>1. pending'[y] = pending[y] BY <1>4, <2>2
      <3>2. /\ WindowOf[x.entry] = y /\ session[x.entry] # "new"
            /\ published[x.entry].gen < x.view.gen
            /\ x.view.gen <= controlGen[x.entry]
            /\ \A j \in 1 .. i - 1 : pending[y][j].view.gen < x.view.gen
        BY <3>1 DEF QueueInv, QueueOrdered
      <3>3. x.entry \in Entries BY <3>1, QueueTyped
      <3>4. x.entry # p.entry BY <1>7, <2>2, <3>2
      <3> HIDE DEF x, q, p
      <3>5. published'[x.entry] = published[x.entry] BY <1>8, <3>3, <3>4
      <3> QED BY <1>1, <3>1, <3>2, <3>5 DEF x
    <2> QED BY <2>1, <2>2
  <1>11. LiveViewComes'
    <2> SUFFICES ASSUME NEW x \in Entries, published'[x] # View(x)
                 PROVE  \E i \in 1 .. Len(pending'[WindowOf[x]]) :
                             /\ pending'[WindowOf[x]][i].entry = x
                             /\ pending'[WindowOf[x]][i].view = View(x)
      BY <1>9 DEF LiveViewComes
    <2>1. published[x] # View(x)
      <3>1. CASE x = p.entry
        <4>1. View(x).gen = controlGen[x] /\ controlGen[x] \in Nat
          BY EntryTyped
        <4>2. published[x].gen \in Nat BY EntryTyped
        <4>3. published[x].gen < controlGen[x]
          BY <1>7, <3>1, <4>1, <4>2
        <4> HIDE DEF p, q
        <4> QED BY <4>1, <4>2, <4>3
      <3>2. CASE x # p.entry BY <1>8, <3>2
      <3> QED BY <3>1, <3>2
    <2>2. PICK i \in 1 .. Len(pending[WindowOf[x]]) :
              /\ pending[WindowOf[x]][i].entry = x
              /\ pending[WindowOf[x]][i].view = View(x)
      BY <2>1 DEF QueueInv, LiveViewComes
    <2>3. WindowOf[x] \in Windows BY EntryTyped
    <2>4. CASE WindowOf[x] # w BY <1>4, <2>2, <2>3, <2>4
    <2>5. CASE WindowOf[x] = w
      <3>1. q[i].entry = x /\ q[i].view = View(x) /\ i \in 1 .. Len(q)
        BY <2>2, <2>5
      <3>2. i # 1
        <4>1. i = 1 => p.entry = x /\ p.view = View(x) BY <1>5, <3>1
        <4> HIDE DEF p, q
        <4> QED BY <1>8, <4>1
      <3>3. i - 1 \in 1 .. Len(q) - 1 /\ (i - 1) + 1 = i BY <1>3, <3>1, <3>2
      <3>4. pending'[w][i - 1] = q[i] BY <1>5, <3>3
      <3>5. i - 1 \in 1 .. Len(pending'[w]) BY <1>5, <3>3
      <3> HIDE DEF p, q
      <3> QED BY <2>5, <3>1, <3>4, <3>5
    <2> QED BY <2>4, <2>5
  <1>12. ZeroIsFree'
    <2>1. p.view.gen # 0
      <3>1. published[p.entry].gen \in Nat BY <1>7, EntryTyped
      <3> HIDE DEF p, q
      <3> QED BY <1>7, <3>1
    <2> HIDE DEF p, q
    <2> QED BY <1>8, <2>1 DEF QueueInv, ZeroIsFree
  <1> QED BY <1>10, <1>11, <1>12 DEF QueueInv

\* A release that may have nothing to release.
LEMMA QueueReleaseIf ==
    ASSUME TInv, CInv, QueueInv, NEW b \in BOOLEAN, NEW e \in Entries,
           b => session[e] # "new", ReleaseIf(b, e), UNCHANGED published,
           \A x \in Entries : session[x] # "new" => session'[x] # "new"
    PROVE  QueueInv'
  <1>1. CASE b
    <2>1. Commit(e, Nobody, Nobody) BY <1>1 DEF ReleaseIf, Release
    <2> QED BY <1>1, <2>1, QueueCommit
  <1>2. CASE ~b
    <2>1. UNCHANGED <<pending, published, controller, controlGen>>
      BY <1>2 DEF ReleaseIf, controlVars
    <2> QED BY <2>1, QueueAlone
  <1> QED BY <1>1, <1>2

\* The head of the queue being published.
LEMMA HeadTyped ==
    ASSUME TInv, QueueInv, NEW w \in Windows,
           section[w].kind \in {"revoke", "send"}
    PROVE  LET p == Head(pending[w]) IN
           /\ pending[w] # <<>> /\ p \in Publications /\ p.entry \in Entries
           /\ p.lost \in Sockets \cup {Nobody} /\ p.view \in Views
           /\ p.view.gen \in Nat
           /\ WindowOf[p.entry] = w /\ session[p.entry] # "new"
           /\ published[p.entry].gen < p.view.gen
  <1> DEFINE q == pending[w]
  <1>1. q # <<>> BY DEF TInv, Publishing
  <1>2. q \in Seq(Publications) BY QueueTyped
  <1>3. Len(q) \in Nat /\ Len(q) > 0 /\ Head(q) = q[1] BY <1>1, <1>2, TailShape
  <1>4. 1 \in 1 .. Len(q) BY <1>3
  <1>5. q[1] \in Publications BY <1>4, QueueTyped
  <1>6. /\ q[1].entry \in Entries /\ q[1].view \in Views
        /\ q[1].view.gen \in Nat /\ q[1].lost \in Sockets \cup {Nobody}
    BY <1>5, PublicationParts
  <1>7. /\ WindowOf[q[1].entry] = w /\ session[q[1].entry] # "new"
        /\ published[q[1].entry].gen < q[1].view.gen
    BY <1>4 DEF QueueInv, QueueOrdered
  <1> QED BY <1>1, <1>3, <1>5, <1>6, <1>7

\* A live entry has said hello.
LEMMA LiveHasSaidHello ==
    ASSUME TInv, CInv, NEW e \in Entries, IsLive(e)
    PROVE  session[e] # "new"
  BY NullAssumption, WindowAssumption DEF IsLive, CInv, Registered

LEMMA QueueStep == ASSUME TInv, CInv, QueueInv, [Next]_vars PROVE QueueInv'
  <1> DEFINE Same == UNCHANGED <<pending, published, controller, controlGen>>
             Up == \A x \in Entries : session[x] # "new" => session'[x] # "new"
  <1>1. ASSUME NEW e \in Entries, Register(e) PROVE QueueInv'
    BY <1>1, RegisterQueue
  <1>2. ASSUME NEW e \in Entries,
               SweepOne(e) \/ RegisterCancelled(e) \/ ProducerExits(e)
        PROVE  QueueInv'
    <2>1. Same
      BY <1>2 DEF SweepOne, RegisterCancelled, CloseOne, ProducerExits, controlVars, publishVars
    <2>2. Up BY <1>2 DEF SweepOne, RegisterCancelled, CloseOne, ProducerExits, TInv, TypeOK
    <2> QED BY <2>1, <2>2, QueueAlone
  <1>3. ASSUME NEW e \in Entries, ProducerEnds(e) PROVE QueueInv'
    <2> DEFINE b == current[WindowOf[e]] = e /\ controller[e] # Nobody
    <2>1. ReleaseIf(b, e) /\ UNCHANGED published /\ session[e] # "new"
      BY <1>3 DEF ProducerEnds, Deregister, publishVars
    <2>2. Up BY <1>3 DEF ProducerEnds, TInv, TypeOK
    <2>3. b \in BOOLEAN OBVIOUS
    <2> HIDE DEF b
    <2> QED BY <2>1, <2>2, <2>3, QueueReleaseIf
  <1>4. ASSUME NEW e \in Entries, NEW s \in Sockets, BroadcastFails(e, s)
        PROVE  QueueInv'
    <2>1. Same /\ Up
      BY <1>4 DEF BroadcastFails, controlVars, publishVars, registryVars
    <2> QED BY <2>1, QueueAlone
  <1>5. ASSUME NEW w \in Windows, StartPublication(w) PROVE QueueInv'
    <2>1. Same /\ Up BY <1>5 DEF StartPublication, controlVars, registryVars
    <2> QED BY <2>1, QueueAlone
  <1>6. ASSUME NEW w \in Windows, SendRevoked(w) \/ SendView(w)
        PROVE  QueueInv'
    <2> DEFINE e == Head(pending[w]).entry
    <2>1. e \in Entries /\ session[e] # "new"
      BY <1>6, HeadTyped DEF SendRevoked, SendView
    <2>2. UNCHANGED published /\ Up
      BY <1>6 DEF SendRevoked, SendView, registryVars
    <2>3. \/ UNCHANGED controlVars
          \/ \E s \in section[w].socks : ReleaseIf(controller[e] = s, e)
      BY <1>6 DEF SendRevoked, SendView, DropStalled
    <2> HIDE DEF e
    <2>4. CASE UNCHANGED controlVars
      <3>1. Same BY <2>2, <2>4 DEF controlVars
      <3> QED BY <2>2, <3>1, QueueAlone
    <2>5. ASSUME NEW s \in section[w].socks, ReleaseIf(controller[e] = s, e)
          PROVE  QueueInv'
      <3>1. (controller[e] = s) \in BOOLEAN OBVIOUS
      <3> QED BY <2>1, <2>2, <2>5, <3>1, QueueReleaseIf
    <2> QED BY <2>3, <2>4, <2>5
  <1>7. ASSUME NEW w \in Windows, FinishPublication(w) PROVE QueueInv'
    BY <1>7, FinishQueue
  <1>8. ASSUME NEW s \in Sockets, NEW w \in Windows, Dial(s, w)
        PROVE  QueueInv'
    <2>1. Same /\ Up BY <1>8 DEF Dial, controlVars, publishVars, registryVars
    <2> QED BY <2>1, QueueAlone
  <1>9. ASSUME NEW s \in Sockets,
               EnterAttach(s) \/ TellAttached(s) \/ PeerCloses(s)
                 \/ AdmitFrame(s) \/ SendFrame(s)
        PROVE  QueueInv'
    <2>1. Same /\ Up
      BY <1>9 DEF EnterAttach, TellAttached, PeerCloses, AdmitFrame, SendFrame,
                  controlVars, publishVars, registryVars
    <2> QED BY <2>1, QueueAlone
  <1>10. ASSUME NEW s \in Sockets, SocketEnds(s) PROVE QueueInv'
    <2> DEFINE e == target[s]
               b == HeldBy(e, s)
    <2>1. e \in Entries BY <1>10 DEF SocketEnds, TInv, Dialled
    <2>2. ReleaseIf(b, e) /\ UNCHANGED published /\ Up
      BY <1>10 DEF SocketEnds, registryVars
    <2>3. b => session[e] # "new" BY <2>1, LiveHasSaidHello DEF HeldBy
    <2>4. b \in BOOLEAN BY <2>1 DEF HeldBy, IsLive, TInv, TypeOK
    <2> HIDE DEF b, e
    <2> QED BY <2>1, <2>2, <2>3, <2>4, QueueReleaseIf
  <1>11. ASSUME NEW s \in Sockets, Claim(s) PROVE QueueInv'
    <2> DEFINE e == target[s]
               loser == IF controller[e] = s THEN Nobody ELSE controller[e]
    <2>1. e \in Entries /\ IsLive(e) BY <1>11 DEF Claim, IsLive
    <2>2. Commit(e, s, loser) /\ UNCHANGED published /\ Up
      BY <1>11 DEF Claim, registryVars, publishVars
    <2>3. loser \in Sockets \cup {Nobody} BY <2>1, EntryTyped
    <2> HIDE DEF e, loser
    <2> QED BY <2>1, <2>2, <2>3, QueueCommit, LiveHasSaidHello
  <1>12. ASSUME NEW s \in Sockets, ReleaseFrame(s) PROVE QueueInv'
    <2> DEFINE e == target[s]
    <2>1. e \in Entries /\ IsLive(e)
      BY <1>12 DEF ReleaseFrame, HeldBy, IsLive
    <2>2. Commit(e, Nobody, Nobody) /\ UNCHANGED published /\ Up
      BY <1>12 DEF ReleaseFrame, Release, registryVars, publishVars
    <2> HIDE DEF e
    <2> QED BY <2>1, <2>2, QueueCommit, LiveHasSaidHello
  <1>13. ASSUME NEW c \in Clients \cup {NoClient}, LeaseMoves(c)
         PROVE  QueueInv'
    <2>1. Same /\ Up
      BY <1>13 DEF LeaseMoves, controlVars, publishVars, registryVars
    <2> QED BY <2>1, QueueAlone
  <1>14. ASSUME NEW w \in Windows, ClickTakeBack(w) PROVE QueueInv'
    <2>1. Same /\ Up
      BY <1>14 DEF ClickTakeBack, controlVars, publishVars, registryVars
    <2> QED BY <2>1, QueueAlone
  <1>15. ASSUME NEW mine \in BOOLEAN, TakeBack(mine) PROVE QueueInv'
    <2> DEFINE e == current[click.window]
               hit == mine /\ e # NoEntry /\ ControlledAt(e, click.gen)
    <2>1. UNCHANGED published /\ Up
      BY <1>15 DEF TakeBack, registryVars, publishVars
    <2>2. CASE hit
      <3>1. e \in Entries /\ IsLive(e) BY <2>2 DEF ControlledAt, IsLive
      <3>2. Commit(e, Nobody, controller[e])
        BY <1>15, <2>2 DEF TakeBack, Release
      <3>3. controller[e] \in Sockets \cup {Nobody} BY <3>1, EntryTyped
      <3> HIDE DEF e, hit
      <3> QED BY <2>1, <3>1, <3>2, <3>3, QueueCommit, LiveHasSaidHello
    <2>3. CASE ~hit
      <3>1. Same BY <1>15, <2>1, <2>3 DEF TakeBack, controlVars
      <3> QED BY <2>1, <3>1, QueueAlone
    <2> QED BY <2>2, <2>3
  <1>16. CASE UNCHANGED vars
    <2>1. Same /\ Up
      BY <1>16 DEF vars, controlVars, publishVars, registryVars
    <2> QED BY <2>1, QueueAlone
  <1> QED
    BY <1>1, <1>2, <1>3, <1>4, <1>5, <1>6, <1>7, <1>8, <1>9, <1>10, <1>11,
       <1>12, <1>13, <1>14, <1>15, <1>16 DEF Next

-----------------------------------------------------------------------------
(* Generations name one change each.                                       *)

GensUnique ==
    /\ \A x, y \in Entries :
         x # y /\ controlGen[x] = controlGen[y] => controlGen[x] = 0
    /\ \A x \in Entries : controller[x] # Nobody => controlGen[x] # 0

\* A take-back on its way names the change its sender saw, and only the entry
\* that change was of can still show its generation, with that controller.
ClickTrue ==
    click # NoClick =>
        /\ click.gen \in Nat /\ click.gen <= seq /\ click.gen # 0
        /\ \A x \in Entries : controlGen[x] = click.gen =>
             x = click.entry /\ controller[x] \in {click.sock, Nobody}

GenInv == GensUnique /\ ClickTrue

LEMMA InitGen == ASSUME Init PROVE GenInv
  BY DEF Init, GenInv, GensUnique, ClickTrue

\* What a step may do to controllers and generations: nothing; hand one entry
\* over with the next generation; or free an entry and bring up a new one.
NextGens ==
    \/ UNCHANGED <<seq, controller, controlGen>>
    \/ /\ seq' > seq
       /\ \A x \in Entries :
            \/ controlGen'[x] > seq
            \/ /\ controlGen'[x] = controlGen[x]
               /\ controller'[x] \in {controller[x], Nobody}
       /\ \A x, y \in Entries : x # y /\ controlGen'[x] > seq
            => controlGen'[x] # controlGen'[y]

LEMMA GenKept ==
    ASSUME TInv, TInv', CInv, GenInv, NextGens,
           click' = click \/ click' = NoClick
    PROVE  GenInv'
  <1>1. \A x \in Entries : /\ controlGen[x] \in Nat /\ controlGen'[x] \in Nat
                           /\ controlGen[x] <= seq
    BY EntryTyped DEF CInv, GensBelowSeq, TInv, TypeOK
  <1>2. seq \in Nat /\ seq' \in Nat BY DEF TInv, TypeOK
  <1>3. CASE UNCHANGED <<seq, controller, controlGen>>
    BY <1>3 DEF GenInv, GensUnique, ClickTrue
  <1>4. CASE ~UNCHANGED <<seq, controller, controlGen>>
    <2>1. /\ seq' > seq
          /\ \A x \in Entries :
               \/ controlGen'[x] > seq
               \/ /\ controlGen'[x] = controlGen[x]
                  /\ controller'[x] \in {controller[x], Nobody}
          /\ \A x, y \in Entries : x # y /\ controlGen'[x] > seq
               => controlGen'[x] # controlGen'[y]
      BY <1>4 DEF NextGens
    <2>2. ASSUME NEW x \in Entries, NEW y \in Entries, x # y,
                 controlGen'[x] = controlGen'[y]
          PROVE  controlGen'[x] = 0
      <3>1. ~(controlGen'[x] > seq) /\ ~(controlGen'[y] > seq)
        BY <2>1, <2>2
      <3>2. controlGen'[x] = controlGen[x] /\ controlGen'[y] = controlGen[y]
        BY <2>1, <3>1
      <3> QED BY <2>2, <3>2 DEF GenInv, GensUnique
    <2>3. ASSUME NEW x \in Entries, controller'[x] # Nobody
          PROVE  controlGen'[x] # 0
      <3>1. CASE controlGen'[x] > seq BY <1>1, <1>2, <3>1
      <3>2. CASE ~(controlGen'[x] > seq)
        BY <2>1, <2>3, <3>2 DEF GenInv, GensUnique
      <3> QED BY <3>1, <3>2
    <2>4. ClickTrue'
      <3> SUFFICES ASSUME click' # NoClick
                   PROVE  /\ click'.gen \in Nat /\ click'.gen <= seq'
                          /\ click'.gen # 0
                          /\ \A x \in Entries : controlGen'[x] = click'.gen =>
                               /\ x = click'.entry
                               /\ controller'[x] \in {click'.sock, Nobody}
        BY DEF ClickTrue
      <3>1. click' = click /\ click # NoClick OBVIOUS
      <3>2. /\ click.gen \in Nat /\ click.gen <= seq /\ click.gen # 0
            /\ \A x \in Entries : controlGen[x] = click.gen =>
                 x = click.entry /\ controller[x] \in {click.sock, Nobody}
        BY <3>1 DEF GenInv, ClickTrue
      <3>3. ASSUME NEW x \in Entries, controlGen'[x] = click.gen
            PROVE  /\ x = click.entry
                   /\ controller'[x] \in {click.sock, Nobody}
        <4>1. ~(controlGen'[x] > seq) BY <1>1, <1>2, <3>2, <3>3
        <4>2. /\ controlGen'[x] = controlGen[x]
              /\ controller'[x] \in {controller[x], Nobody}
          BY <2>1, <4>1
        <4> QED BY <3>2, <3>3, <4>2
      <3>4. click.gen <= seq' BY <1>2, <2>1, <3>2
      <3> QED BY <3>1, <3>2, <3>3, <3>4
    <2> QED BY <2>2, <2>3, <2>4 DEF GenInv, GensUnique
  <1> QED BY <1>3, <1>4

\* A change of one entry, and a release that may have nothing to release.
LEMMA CommitGens ==
    ASSUME TInv, CInv, NEW e \in Entries, NEW s, NEW loser, Commit(e, s, loser)
    PROVE  NextGens
  <1>1. /\ seq' = seq + 1 /\ seq \in Nat
        /\ controller' = [controller EXCEPT ![e] = s]
        /\ controlGen' = [controlGen EXCEPT ![e] = seq + 1]
    BY DEF Commit, TInv, TypeOK
  <1>2. /\ controlGen'[e] = seq + 1
        /\ \A x \in Entries \ {e} : /\ controlGen'[x] = controlGen[x]
                                    /\ controller'[x] = controller[x]
    BY <1>1 DEF TInv, TypeOK
  <1>3. \A x \in Entries : controlGen[x] \in Nat /\ controlGen[x] <= seq
    BY DEF CInv, GensBelowSeq, TInv, TypeOK
  <1>4. \A x, y \in Entries : x # y /\ controlGen'[x] > seq
            => controlGen'[x] # controlGen'[y]
    <2> SUFFICES ASSUME NEW x \in Entries, NEW y \in Entries, x # y,
                        controlGen'[x] > seq
                 PROVE  controlGen'[x] # controlGen'[y]
      OBVIOUS
    <2>1. x = e BY <1>1, <1>2, <1>3
    <2> QED BY <1>1, <1>2, <1>3, <2>1
  <1>5. \A x \in Entries :
            \/ controlGen'[x] > seq
            \/ /\ controlGen'[x] = controlGen[x]
               /\ controller'[x] \in {controller[x], Nobody}
    <2> TAKE x \in Entries
    <2>1. CASE x = e BY <1>1, <1>2, <2>1
    <2>2. CASE x # e BY <1>2, <2>2
    <2> QED BY <2>1, <2>2
  <1>6. seq' > seq BY <1>1
  <1> QED BY <1>4, <1>5, <1>6 DEF NextGens

LEMMA ReleaseIfGens ==
    ASSUME TInv, CInv, NEW b \in BOOLEAN, NEW e \in Entries, ReleaseIf(b, e)
    PROVE  NextGens
  <1>1. CASE b BY <1>1, CommitGens DEF ReleaseIf, Release
  <1>2. CASE ~b BY <1>2 DEF ReleaseIf, controlVars, NextGens
  <1> QED BY <1>1, <1>2

LEMMA RegisterGens ==
    ASSUME TInv, CInv, NEW e \in Entries, Register(e)
    PROVE  NextGens
  <1> DEFINE w == WindowOf[e]
             old == current[w]
             freed == old # NoEntry /\ controller[old] # Nobody
             gen == IF freed THEN seq + 2 ELSE seq + 1
  <1>1. /\ seq' = gen /\ controller' = ForceReleased(old)
        /\ controlGen' = [x \in Entries |-> IF x = e THEN gen
                              ELSE IF freed /\ x = old THEN seq + 1
                              ELSE controlGen[x]]
    BY DEF Register
  <1>2. seq \in Nat /\ gen \in {seq + 1, seq + 2} /\ (freed => gen = seq + 2)
    BY EntryTyped
  <1>3. \A x \in Entries : controlGen[x] <= seq /\ controlGen[x] \in Nat
    BY DEF CInv, GensBelowSeq, TInv, TypeOK
  <1> HIDE DEF w, old, freed, gen
  <1>4. \A x \in Entries : controller'[x] \in {controller[x], Nobody}
    BY <1>1 DEF ForceReleased
  <1>5. \A x, y \in Entries : x # y /\ controlGen'[x] > seq
            => controlGen'[x] # controlGen'[y]
    <2> SUFFICES ASSUME NEW x \in Entries, NEW y \in Entries, x # y,
                        controlGen'[x] > seq
                 PROVE  controlGen'[x] # controlGen'[y]
      OBVIOUS
    <2>1. /\ controlGen'[x] = IF x = e THEN gen
                              ELSE IF freed /\ x = old THEN seq + 1
                              ELSE controlGen[x]
          /\ controlGen'[y] = IF y = e THEN gen
                              ELSE IF freed /\ y = old THEN seq + 1
                              ELSE controlGen[y]
      BY <1>1
    <2> QED BY <1>2, <1>3, <2>1
  <1>6. \A x \in Entries :
            controlGen'[x] > seq \/ controlGen'[x] = controlGen[x]
    BY <1>1, <1>2
  <1>7. seq' > seq BY <1>1, <1>2
  <1> QED BY <1>4, <1>5, <1>6, <1>7 DEF NextGens

LEMMA GenStep ==
    ASSUME TInv, CInv, GenInv, QueueInv, [Next]_vars
    PROVE  GenInv'
  <1> DEFINE Same == UNCHANGED <<seq, controller, controlGen>>
  <1>1. TInv' BY TInvStep
  <1>2. ASSUME NEW e \in Entries, Register(e) PROVE GenInv'
    <2>1. click' = click BY <1>2 DEF Register, desktopVars
    <2> QED BY <1>1, <1>2, <2>1, RegisterGens, GenKept
  <1>3. ASSUME NEW e \in Entries, ProducerEnds(e) PROVE GenInv'
    <2> DEFINE b == current[WindowOf[e]] = e /\ controller[e] # Nobody
    <2>1. ReleaseIf(b, e) /\ click' = click /\ b \in BOOLEAN
      BY <1>3 DEF ProducerEnds, Deregister, desktopVars
    <2> HIDE DEF b
    <2> QED BY <1>1, <2>1, ReleaseIfGens, GenKept
  <1>4. ASSUME NEW w \in Windows, SendRevoked(w) \/ SendView(w)
        PROVE  GenInv'
    <2> DEFINE e == Head(pending[w]).entry
    <2>1. e \in Entries BY <1>4, HeadTyped DEF SendRevoked, SendView
    <2>2. click' = click BY <1>4 DEF SendRevoked, SendView, desktopVars
    <2>3. \/ UNCHANGED controlVars
          \/ \E s \in section[w].socks : ReleaseIf(controller[e] = s, e)
      BY <1>4 DEF SendRevoked, SendView, DropStalled
    <2> HIDE DEF e
    <2>4. CASE UNCHANGED controlVars
      <3>1. NextGens BY <2>4 DEF controlVars, NextGens
      <3> QED BY <1>1, <2>2, <3>1, GenKept
    <2>5. ASSUME NEW s \in section[w].socks, ReleaseIf(controller[e] = s, e)
          PROVE  GenInv'
      <3>1. (controller[e] = s) \in BOOLEAN OBVIOUS
      <3> QED BY <1>1, <2>1, <2>2, <2>5, <3>1, ReleaseIfGens, GenKept
    <2> QED BY <2>3, <2>4, <2>5
  <1>5. ASSUME NEW s \in Sockets, SocketEnds(s) PROVE GenInv'
    <2> DEFINE e == target[s]
               b == HeldBy(e, s)
    <2>1. e \in Entries BY <1>5 DEF SocketEnds, TInv, Dialled
    <2>2. ReleaseIf(b, e) /\ click' = click
      BY <1>5 DEF SocketEnds, desktopVars
    <2>3. b \in BOOLEAN BY <2>1 DEF HeldBy, IsLive, TInv, TypeOK
    <2> HIDE DEF b, e
    <2> QED BY <1>1, <2>1, <2>2, <2>3, ReleaseIfGens, GenKept
  <1>6. ASSUME NEW s \in Sockets, Claim(s) \/ ReleaseFrame(s) PROVE GenInv'
    <2>1. target[s] \in Entries BY <1>6 DEF Claim, ReleaseFrame, HeldBy, IsLive
    <2>2. \E x, y : Commit(target[s], x, y)
      BY <1>6 DEF Claim, ReleaseFrame, Release
    <2>3. click' = click BY <1>6 DEF Claim, ReleaseFrame, desktopVars
    <2> QED BY <1>1, <2>1, <2>2, <2>3, CommitGens, GenKept
  <1>7. ASSUME NEW w \in Windows, ClickTakeBack(w) PROVE GenInv'
    <2> DEFINE e == current[w]
    <2>1. /\ e \in Entries /\ controller[e] # Nobody /\ Same
          /\ click' = [window |-> w, gen |-> controlGen[e], entry |-> e,
                       sock |-> controller[e]]
      BY <1>7 DEF ClickTakeBack, controlVars, TInv, TypeOK
    <2> HIDE DEF e
    <2>2. /\ click'.gen = controlGen[e] /\ click'.entry = e
          /\ click'.sock = controller[e]
      BY <2>1
    <2>3. controlGen[e] \in Nat /\ controlGen[e] <= seq /\ controlGen[e] # 0
      BY <2>1 DEF CInv, GensBelowSeq, GenInv, GensUnique, TInv, TypeOK
    <2>4. \A x \in Entries : controlGen[x] = controlGen[e] => x = e
      BY <2>1, <2>3 DEF GenInv, GensUnique
    <2>5. GensUnique' BY <2>1 DEF GenInv, GensUnique
    <2>6. ClickTrue'
      <3>1. click'.gen \in Nat /\ click'.gen <= seq' /\ click'.gen # 0
        BY <2>1, <2>2, <2>3
      <3>2. \A x \in Entries : controlGen'[x] = click'.gen =>
                /\ x = click'.entry
                /\ controller'[x] \in {click'.sock, Nobody}
        BY <2>1, <2>2, <2>4
      <3> QED BY <3>1, <3>2 DEF ClickTrue
    <2> QED BY <2>5, <2>6 DEF GenInv
  <1>8. ASSUME NEW mine \in BOOLEAN, TakeBack(mine) PROVE GenInv'
    <2> DEFINE e == current[click.window]
               hit == mine /\ e # NoEntry /\ ControlledAt(e, click.gen)
    <2>1. click' = NoClick BY <1>8 DEF TakeBack
    <2>2. CASE hit
      <3>1. e \in Entries BY <2>2 DEF ControlledAt, IsLive
      <3>2. Commit(e, Nobody, controller[e])
        BY <1>8, <2>2 DEF TakeBack, Release
      <3> HIDE DEF e, hit
      <3> QED BY <1>1, <2>1, <3>1, <3>2, CommitGens, GenKept
    <2>3. CASE ~hit
      <3>1. NextGens BY <1>8, <2>3 DEF TakeBack, controlVars, NextGens
      <3> QED BY <1>1, <2>1, <3>1, GenKept
    <2> QED BY <2>2, <2>3
  <1>9. ASSUME Same /\ click' = click PROVE GenInv'
    BY <1>1, <1>9, GenKept DEF NextGens
  <1>10. ASSUME NEW e \in Entries,
               SweepOne(e) \/ RegisterCancelled(e) \/ ProducerExits(e)
         PROVE  GenInv'
    <2>1. Same /\ click' = click
      BY <1>10 DEF SweepOne, RegisterCancelled, CloseOne, ProducerExits, controlVars, desktopVars
    <2> QED BY <1>9, <2>1
  <1>11. ASSUME NEW e \in Entries, NEW s \in Sockets, BroadcastFails(e, s)
         PROVE  GenInv'
    <2>1. Same /\ click' = click
      BY <1>11 DEF BroadcastFails, controlVars, desktopVars
    <2> QED BY <1>9, <2>1
  <1>12. ASSUME NEW w \in Windows, StartPublication(w) \/ FinishPublication(w)
         PROVE  GenInv'
    <2>1. Same /\ click' = click
      BY <1>12 DEF StartPublication, FinishPublication, controlVars, desktopVars
    <2> QED BY <1>9, <2>1
  <1>13. ASSUME NEW s \in Sockets, NEW w \in Windows, Dial(s, w)
         PROVE  GenInv'
    <2>1. Same /\ click' = click BY <1>13 DEF Dial, controlVars, desktopVars
    <2> QED BY <1>9, <2>1
  <1>14. ASSUME NEW s \in Sockets,
                EnterAttach(s) \/ TellAttached(s) \/ PeerCloses(s)
                  \/ AdmitFrame(s) \/ SendFrame(s)
         PROVE  GenInv'
    <2>1. Same /\ click' = click
      BY <1>14 DEF EnterAttach, TellAttached, PeerCloses, AdmitFrame, SendFrame,
                   controlVars, desktopVars
    <2> QED BY <1>9, <2>1
  <1>15. ASSUME NEW c \in Clients \cup {NoClient}, LeaseMoves(c)
         PROVE  GenInv'
    <2>1. Same /\ click' = click BY <1>15 DEF LeaseMoves, controlVars
    <2> QED BY <1>9, <2>1
  <1>16. CASE UNCHANGED vars
    <2>1. Same /\ click' = click BY <1>16 DEF vars, controlVars, desktopVars
    <2> QED BY <1>9, <2>1
  <1> QED
    BY <1>2, <1>3, <1>4, <1>5, <1>6, <1>7, <1>8, <1>10, <1>11, <1>12, <1>13,
       <1>14, <1>15, <1>16 DEF Next

\* A take-back that is read releases the controller its sender saw, or nobody.
LEMMA TakeBackHits ==
    ASSUME TInv, CInv, GenInv, [Next]_vars, click # NoClick, click' = NoClick,
           NEW x \in Entries, controller'[x] # controller[x]
    PROVE  x = click.entry /\ controller[x] = click.sock
  <1>1. click' # click OBVIOUS
  <1>2. PICK mine \in BOOLEAN : TakeBack(mine)
    <2>1. ~UNCHANGED vars BY <1>1 DEF vars, desktopVars
    <2>2. /\ \A e \in Entries : /\ ~Register(e) /\ ~SweepOne(e)
                                /\ ~RegisterCancelled(e)
                                /\ ~ProducerExits(e) /\ ~ProducerEnds(e)
          /\ \A e \in Entries, s \in Sockets : ~BroadcastFails(e, s)
      BY <1>1 DEF desktopVars, Register, SweepOne, RegisterCancelled,
                  CloseOne, ProducerExits, ProducerEnds,
                  BroadcastFails
    <2>3. /\ \A w \in Windows : /\ ~StartPublication(w) /\ ~SendRevoked(w)
                                /\ ~SendView(w) /\ ~FinishPublication(w)
          /\ \A s \in Sockets, w \in Windows : ~Dial(s, w)
      BY <1>1 DEF desktopVars, StartPublication, SendRevoked, SendView,
                  FinishPublication, Dial
    <2>4. /\ \A s \in Sockets : ~EnterAttach(s) /\ ~TellAttached(s) /\ ~PeerCloses(s)
          /\ \A s \in Sockets : ~SocketEnds(s) /\ ~AdmitFrame(s) /\ ~SendFrame(s)
      BY <1>1 DEF desktopVars, EnterAttach, TellAttached, PeerCloses, SocketEnds,
                  AdmitFrame, SendFrame
    <2>5. /\ \A s \in Sockets : ~Claim(s) /\ ~ReleaseFrame(s)
          /\ \A c \in Clients \cup {NoClient} : ~LeaseMoves(c)
          /\ \A w \in Windows : ~ClickTakeBack(w)
      BY <1>1 DEF desktopVars, Claim, ReleaseFrame, LeaseMoves, ClickTakeBack
    <2> QED BY <2>1, <2>2, <2>3, <2>4, <2>5 DEF Next
  <1> DEFINE e == current[click.window]
             hit == mine /\ e # NoEntry /\ ControlledAt(e, click.gen)
  <1>3. CASE hit
    <2>1. /\ e \in Entries /\ controller[e] # Nobody
          /\ controlGen[e] = click.gen
      BY <1>3 DEF ControlledAt, IsLive
    <2>2. controller' = [controller EXCEPT ![e] = Nobody]
      BY <1>2, <1>3 DEF TakeBack, Release, Commit
    <2> HIDE DEF e, hit
    <2>3. x = e BY <2>1, <2>2 DEF TInv, TypeOK
    <2>4. e = click.entry /\ controller[e] \in {click.sock, Nobody}
      BY <2>1 DEF GenInv, ClickTrue
    <2> QED BY <2>1, <2>3, <2>4
  <1>4. CASE ~hit
    BY <1>2, <1>4 DEF TakeBack, controlVars
  <1> QED BY <1>3, <1>4

-----------------------------------------------------------------------------
(* Sockets and the publisher's section.                                    *)

\* Whoever subscribes to an entry dialled it and is being or was told.
Joined ==
    \A e \in Entries : \A s \in subscribers[e] :
        target[s] = e /\ stage[s] \in {"telling", "open"}

\* A socket that is being told has the section of its id to itself.
AttachHoldsSection ==
    \A s \in Sockets : stage[s] = "telling" =>
        /\ section[WindowOf[target[s]]].kind = "attach"
        /\ section[WindowOf[target[s]]].socks = {s}

\* Nobody has dialled an entry that has not said hello.
DialledHello ==
    \A s \in Sockets : target[s] \in Entries => session[target[s]] # "new"

\* The running publication of its terminal has reached this socket.
Sent(s) ==
    LET w == WindowOf[target[s]] IN
    /\ section[w].kind = "send" /\ Head(pending[w]).entry = target[s]
    /\ s \notin section[w].socks

\* An attached socket with a working connection has been told what is
\* published of its terminal, or what is being published.
Told ==
    \A s \in Sockets :
        (stage[s] = "open" /\ s \in subscribers[target[s]] /\ ~ending[s])
        => seen[s] = IF Sent(s) THEN Head(pending[WindowOf[target[s]]]).view
                                ELSE published[target[s]]

Untold ==
    \A s \in Sockets :
        stage[s] \in {"idle", "waiting", "telling"} => seen[s] = Free(0)

\* Whom a publication has still to reach subscribes, or is lost.
Listed ==
    \A w \in Windows : section[w].kind = "send" =>
        \A s \in section[w].socks :
            ending[s] \/ s \in subscribers[Head(pending[w]).entry]

SockInv ==
    /\ Joined /\ AttachHoldsSection /\ DialledHello /\ Told /\ Untold /\ Listed

LEMMA InitSock == ASSUME Init PROVE SockInv
  BY NullAssumption DEF Init, SockInv, Joined, AttachHoldsSection,
     DialledHello, Told, Untold, Listed, Idle

\* What a step may do to one socket without telling it anything: leave it where
\* it is, dial, or end.
Moves(s) ==
    \/ stage'[s] = stage[s] /\ target'[s] = target[s]
    \/ /\ stage[s] = "idle" /\ stage'[s] = "waiting"
       /\ target'[s] \in Entries /\ session'[target'[s]] # "new"
    \/ /\ stage[s] \in {"waiting", "telling", "open"} /\ stage'[s] = "gone"
       /\ target'[s] = target[s]
       /\ \A e \in Entries : s \notin subscribers'[e]

\* The section of an id stays, or is left by the socket that was attaching.
SectionMoves ==
    \/ UNCHANGED section
    \/ \E s \in Sockets :
         /\ stage[s] = "telling" /\ stage'[s] = "gone"
         /\ section' = [section EXCEPT ![WindowOf[target[s]]] = Idle]

Quiet ==
    /\ SectionMoves
    /\ UNCHANGED seen
    /\ \A s \in Sockets : stage[s] = "telling" /\ stage'[s] = "gone" =>
         section' = [section EXCEPT ![WindowOf[target[s]]] = Idle]
    /\ \A w \in Windows :
         pending[w] # <<>> => Head(pending'[w]) = Head(pending[w])
    /\ \A e \in Entries : session[e] # "new" =>
         session'[e] # "new" /\ published'[e] = published[e]
    /\ \A e \in Entries : subscribers'[e] \subseteq subscribers[e]
    /\ \A e \in Entries : \A s \in subscribers[e] \ subscribers'[e] : ending'[s]
    /\ \A s \in Sockets : ending[s] => ending'[s]
    /\ \A s \in Sockets : Moves(s)

\* A section only one attaching socket held is nobody's once it leaves.
LEMMA QuietSection ==
    ASSUME TInv, SockInv, SectionMoves, NEW w \in Windows
    PROVE  /\ section'[w].kind = "send" => section'[w] = section[w]
           /\ section[w].kind = "send" => section'[w] = section[w]
           /\ \A s \in Sockets :
                (/\ stage[s] = "telling" /\ stage'[s] = "telling"
                 /\ WindowOf[target[s]] = w) => section'[w] = section[w]
  <1>1. CASE UNCHANGED section BY <1>1
  <1>2. ASSUME NEW x \in Sockets, stage[x] = "telling", stage'[x] = "gone",
               section' = [section EXCEPT ![WindowOf[target[x]]] = Idle]
        PROVE  /\ section'[w].kind = "send" => section'[w] = section[w]
               /\ section[w].kind = "send" => section'[w] = section[w]
               /\ \A s \in Sockets :
                    (/\ stage[s] = "telling" /\ stage'[s] = "telling"
                     /\ WindowOf[target[s]] = w) => section'[w] = section[w]
    <2>1. target[x] \in Entries /\ WindowOf[target[x]] \in Windows
      BY <1>2, WindowAssumption DEF TInv, Dialled
    <2>2. /\ section[WindowOf[target[x]]].kind = "attach"
          /\ section[WindowOf[target[x]]].socks = {x}
      BY <1>2 DEF SockInv, AttachHoldsSection
    <2>3. CASE w # WindowOf[target[x]]
      <3>1. section'[w] = section[w] BY <1>2, <2>3 DEF TInv, TypeOK
      <3> QED BY <3>1
    <2>4. CASE w = WindowOf[target[x]]
      <3>1. section'[w] = Idle BY <1>2, <2>1, <2>4 DEF TInv, TypeOK
      <3>2. section'[w].kind # "send" /\ section[w].kind # "send"
        BY <2>2, <2>4, <3>1 DEF Idle
      <3>3. ASSUME NEW s \in Sockets, stage[s] = "telling",
                   stage'[s] = "telling", WindowOf[target[s]] = w
            PROVE  FALSE
        <4>1. section[w].socks = {s}
          BY <3>3 DEF SockInv, AttachHoldsSection
        <4>2. s = x BY <2>2, <2>4, <4>1
        <4> QED BY <1>2, <3>3, <4>2
      <3> QED BY <3>2, <3>3
    <2> QED BY <2>3, <2>4
  <1> QED BY <1>1, <1>2 DEF SectionMoves

LEMMA QuietSock ==
    ASSUME TInv, TInv', QueueInv, SockInv, Quiet
    PROVE  SockInv'
  <1> USE DEF Quiet
  <1>1. Joined'
    <2> SUFFICES ASSUME NEW e \in Entries, NEW s \in subscribers'[e]
                 PROVE  target'[s] = e /\ stage'[s] \in {"telling", "open"}
      BY DEF Joined
    <2>1. s \in subscribers[e] /\ s \in Sockets BY DEF TInv, TypeOK
    <2>2. target[s] = e /\ stage[s] \in {"telling", "open"}
      BY <2>1 DEF SockInv, Joined
    <2> QED BY <2>1, <2>2 DEF Moves
  <1>2. AttachHoldsSection'
    <2> SUFFICES ASSUME NEW s \in Sockets, stage'[s] = "telling"
                 PROVE  /\ section'[WindowOf[target'[s]]].kind = "attach"
                        /\ section'[WindowOf[target'[s]]].socks = {s}
      BY DEF AttachHoldsSection
    <2>1. stage[s] = "telling" /\ target'[s] = target[s] BY DEF Moves
    <2>2. WindowOf[target[s]] \in Windows
      BY <2>1, WindowAssumption DEF TInv, Dialled
    <2>3. section'[WindowOf[target[s]]] = section[WindowOf[target[s]]]
      BY <2>1, <2>2, QuietSection
    <2> QED BY <2>1, <2>3 DEF SockInv, AttachHoldsSection
  <1>3. DialledHello'
    <2> SUFFICES ASSUME NEW s \in Sockets, target'[s] \in Entries
                 PROVE  session'[target'[s]] # "new"
      BY DEF DialledHello
    <2>1. CASE target'[s] = target[s] BY <2>1 DEF SockInv, DialledHello
    <2>2. CASE target'[s] # target[s] BY <2>2 DEF Moves
    <2> QED BY <2>1, <2>2
  <1>4. Told'
    <2> SUFFICES ASSUME NEW s \in Sockets, stage'[s] = "open",
                        s \in subscribers'[target'[s]], ~ending'[s]
                 PROVE  seen'[s] = IF Sent(s)'
                                   THEN Head(pending'[WindowOf[target'[s]]]).view
                                   ELSE published'[target'[s]]
      BY DEF Told
    <2>1. stage[s] = "open" /\ target'[s] = target[s] BY DEF Moves
    <2>2. /\ target[s] \in Entries /\ WindowOf[target[s]] \in Windows
          /\ session[target[s]] # "new"
      BY <2>1, WindowAssumption DEF TInv, Dialled, SockInv, DialledHello
    <2>3. s \in subscribers[target[s]] /\ ~ending[s] BY <2>1, <2>2
    <2> DEFINE w == WindowOf[target[s]]
    <2>4. Sent(s) => /\ Sent(s)' /\ pending[w] # <<>>
                     /\ Head(pending'[w]) = Head(pending[w])
      <3> SUFFICES ASSUME Sent(s)
                   PROVE  /\ Sent(s)' /\ pending[w] # <<>>
                          /\ Head(pending'[w]) = Head(pending[w])
        OBVIOUS
      <3>1. section[w].kind = "send" BY DEF Sent
      <3>2. section'[w] = section[w] BY <2>2, <3>1, QuietSection
      <3>3. pending[w] # <<>> BY <2>2, <3>1 DEF TInv, Publishing
      <3>4. Head(pending'[w]) = Head(pending[w]) BY <2>2, <3>3
      <3> QED BY <2>1, <3>2, <3>3, <3>4 DEF Sent
    <2>5. Sent(s)' => Sent(s)
      <3> SUFFICES ASSUME Sent(s)' PROVE Sent(s)
        OBVIOUS
      <3>1. section'[w].kind = "send" BY <2>1 DEF Sent
      <3>2. section'[w] = section[w] BY <2>2, <3>1, QuietSection
      <3>3. pending[w] # <<>> BY <2>2, <3>1, <3>2 DEF TInv, Publishing
      <3>4. Head(pending'[w]) = Head(pending[w]) BY <2>2, <3>3
      <3> QED BY <2>1, <3>2, <3>4 DEF Sent
    <2>6. seen[s] = IF Sent(s) THEN Head(pending[w]).view
                               ELSE published[target[s]]
      BY <2>1, <2>3 DEF SockInv, Told
    <2>7. published'[target[s]] = published[target[s]] BY <2>2
    <2>8. CASE Sent(s) BY <2>1, <2>4, <2>6, <2>8
    <2>9. CASE ~Sent(s)
      <3>1. ~Sent(s)' BY <2>5, <2>9
      <3>2. seen'[s] = published'[target'[s]] BY <2>1, <2>6, <2>7, <2>9
      <3> QED BY <3>1, <3>2
    <2> QED BY <2>8, <2>9
  <1>5. Untold'
    <2>1. \A s \in Sockets : stage'[s] \in {"idle", "waiting", "telling"}
             => stage[s] \in {"idle", "waiting", "telling"}
      BY DEF Moves
    <2> QED BY <2>1 DEF SockInv, Untold
  <1>6. Listed'
    <2> SUFFICES ASSUME NEW w \in Windows, section'[w].kind = "send",
                        NEW s \in section'[w].socks, ~ending'[s]
                 PROVE  s \in subscribers'[Head(pending'[w]).entry]
      BY DEF Listed
    <2>1. section'[w] = section[w] BY QuietSection
    <2>2. s \in Sockets BY <2>1 DEF TInv, TypeOK, Sections
    <2>3. pending[w] # <<>> /\ Head(pending[w]).entry \in Entries
      BY <2>1, HeadTyped
    <2>4. s \in subscribers[Head(pending[w]).entry]
      BY <2>1, <2>2 DEF SockInv, Listed
    <2> QED BY <2>2, <2>3, <2>4
  <1> QED BY <1>1, <1>2, <1>3, <1>4, <1>5, <1>6 DEF SockInv

\* Whatever joins a queue, the publication at its head stays the same.
HeadsKept ==
    \A w \in Windows :
        pending[w] # <<>> => Head(pending'[w]) = Head(pending[w])

LEMMA CommitHeads ==
    ASSUME TInv, NEW e \in Entries, NEW s \in Sockets \cup {Nobody},
           NEW loser \in Sockets \cup {Nobody}, Commit(e, s, loser)
    PROVE  HeadsKept
  <1> DEFINE p == [entry |-> e, lost |-> loser,
                   view |-> [state |-> IF s = Nobody THEN "free"
                                                     ELSE "controlled",
                             gen |-> seq + 1]]
  <1>1. p \in Publications /\ WindowOf[e] \in Windows
    BY EntryTyped DEF Publications, Views
  <1>2. pending' = [pending EXCEPT ![WindowOf[e]] = Append(@, p)]
    BY DEF Commit
  <1> HIDE DEF p
  <1> QED BY <1>1, <1>2, QueueAppended DEF HeadsKept

LEMMA ReleaseIfHeads ==
    ASSUME TInv, NEW b \in BOOLEAN, NEW e \in Entries, ReleaseIf(b, e)
    PROVE  HeadsKept
  <1>1. CASE b BY <1>1, CommitHeads DEF ReleaseIf, Release
  <1>2. CASE ~b BY <1>2 DEF ReleaseIf, controlVars, HeadsKept
  <1> QED BY <1>1, <1>2

LEMMA RegisterHeads ==
    ASSUME TInv, NEW e \in Entries, Register(e)
    PROVE  HeadsKept
  <1> DEFINE w == WindowOf[e]
             old == current[w]
             freed == old # NoEntry /\ controller[old] # Nobody
             p == [entry |-> old, lost |-> Nobody, view |-> Free(seq + 1)]
  <1>1. /\ w \in Windows /\ seq \in Nat /\ old \in Entries \cup {NoEntry}
        /\ pending' = IF freed THEN [pending EXCEPT ![w] = Append(@, p)]
                               ELSE pending
    BY EntryTyped DEF Register, TInv, TypeOK
  <1>2. CASE freed
    <2>1. p \in Publications BY <1>1, <1>2 DEF Publications, Views, Free
    <2> HIDE DEF p, w
    <2> QED BY <1>1, <1>2, <2>1, QueueAppended DEF HeadsKept
  <1>3. CASE ~freed BY <1>1, <1>3 DEF HeadsKept
  <1> QED BY <1>2, <1>3

\* Steps that leave sockets, their sets and the section alone.
LEMMA AloneSock ==
    ASSUME TInv, TInv', QueueInv, SockInv, HeadsKept,
           UNCHANGED <<section, seen, subscribers, stage, target>>,
           \A e \in Entries : session[e] # "new" =>
                session'[e] # "new" /\ published'[e] = published[e],
           \A s \in Sockets : ending[s] => ending'[s]
    PROVE  SockInv'
  <1>1. Quiet BY DEF Quiet, SectionMoves, Moves, HeadsKept
  <1> QED BY <1>1, QuietSock

\* Steps of which a socket sees nothing.
LEMMA AloneSteps ==
    ASSUME TInv, TInv', CInv, QueueInv, SockInv,
           \/ \E e \in Entries :
                 Register(e) \/ SweepOne(e) \/ RegisterCancelled(e)
           \/ \E e \in Entries : ProducerExits(e) \/ ProducerEnds(e)
           \/ \E s \in Sockets : PeerCloses(s) \/ AdmitFrame(s) \/ SendFrame(s)
           \/ \E s \in Sockets : Claim(s) \/ ReleaseFrame(s)
           \/ \E c \in Clients \cup {NoClient} : LeaseMoves(c)
           \/ \E w \in Windows : ClickTakeBack(w)
           \/ \E mine \in BOOLEAN : TakeBack(mine)
           \/ UNCHANGED vars
    PROVE  SockInv'
  <1> USE DEF registryVars, attachVars, publishVars, socketVars
  <1>1. ASSUME NEW e \in Entries, Register(e) PROVE SockInv'
    <2>1. HeadsKept BY <1>1, RegisterHeads
    <2>2. /\ UNCHANGED <<section, seen, subscribers, stage, target, ending>>
          /\ session[e] = "new" /\ session' = [session EXCEPT ![e] = "running"]
      BY <1>1 DEF Register
    <2>3. PICK v : published' = [published EXCEPT ![e] = v]
      BY <1>1 DEF Register
    <2>4. ASSUME NEW x \in Entries, session[x] # "new"
          PROVE  session'[x] # "new" /\ published'[x] = published[x]
      <3>1. x # e BY <2>2, <2>4
      <3>2. session'[x] = session[x]
        BY <2>2, <3>1 DEF TInv, TypeOK
      <3>3. published'[x] = published[x]
        BY <2>3, <3>1 DEF TInv, TypeOK
      <3> QED BY <2>4, <3>2, <3>3
    <2> QED BY <2>1, <2>2, <2>4, AloneSock
  <1>2. ASSUME NEW e \in Entries,
               SweepOne(e) \/ RegisterCancelled(e) \/ ProducerExits(e)
        PROVE  SockInv'
    <2>1. HeadsKept
      BY <1>2 DEF SweepOne, RegisterCancelled, CloseOne, ProducerExits, controlVars, HeadsKept
    <2>2. /\ UNCHANGED <<section, seen, subscribers, stage, target, published>>
          /\ \A x \in Entries : session[x] # "new" => session'[x] # "new"
          /\ \A s \in Sockets : ending[s] => ending'[s]
      BY <1>2 DEF SweepOne, RegisterCancelled, CloseOne, ProducerExits, TInv, TypeOK
    <2> QED BY <2>1, <2>2, AloneSock
  <1>3. ASSUME NEW e \in Entries, ProducerEnds(e) PROVE SockInv'
    <2> DEFINE b == current[WindowOf[e]] = e /\ controller[e] # Nobody
    <2>1. ReleaseIf(b, e) /\ b \in BOOLEAN
      BY <1>3 DEF ProducerEnds, Deregister
    <2>2. /\ UNCHANGED <<section, seen, subscribers, stage, target, published,
                         ending>>
          /\ \A x \in Entries : session[x] # "new" => session'[x] # "new"
      BY <1>3 DEF ProducerEnds, TInv, TypeOK
    <2> HIDE DEF b
    <2>3. HeadsKept BY <2>1, ReleaseIfHeads
    <2> QED BY <2>2, <2>3, AloneSock
  <1>4. ASSUME NEW s \in Sockets,
               PeerCloses(s) \/ AdmitFrame(s) \/ SendFrame(s)
        PROVE  SockInv'
    <2>1. HeadsKept
      BY <1>4 DEF PeerCloses, AdmitFrame, SendFrame, controlVars, HeadsKept
    <2>2. /\ UNCHANGED <<section, seen, subscribers, stage, target, published,
                         session>>
          /\ \A x \in Sockets : ending[x] => ending'[x]
      BY <1>4 DEF PeerCloses, AdmitFrame, SendFrame, TInv, TypeOK
    <2> QED BY <2>1, <2>2, AloneSock
  <1>5. ASSUME NEW s \in Sockets, Claim(s) \/ ReleaseFrame(s) PROVE SockInv'
    <2>1. target[s] \in Entries BY <1>5 DEF Claim, ReleaseFrame, HeldBy, IsLive
    <2>2. controller[target[s]] \in Sockets \cup {Nobody} BY <2>1, EntryTyped
    <2>3. \E x, y \in Sockets \cup {Nobody} : Commit(target[s], x, y)
      BY <1>5, <2>2 DEF Claim, ReleaseFrame, Release
    <2>4. HeadsKept BY <2>1, <2>3, CommitHeads
    <2>5. UNCHANGED <<section, seen, subscribers, stage, target, published,
                      session, ending>>
      BY <1>5 DEF Claim, ReleaseFrame
    <2> QED BY <2>4, <2>5, AloneSock
  <1>6. ASSUME \/ \E c \in Clients \cup {NoClient} : LeaseMoves(c)
               \/ \E w \in Windows : ClickTakeBack(w)
               \/ UNCHANGED vars
        PROVE  SockInv'
    <2>1. HeadsKept
      BY <1>6 DEF LeaseMoves, ClickTakeBack, vars, controlVars, HeadsKept
    <2>2. UNCHANGED <<section, seen, subscribers, stage, target, published,
                      session, ending>>
      BY <1>6 DEF LeaseMoves, ClickTakeBack, vars
    <2> QED BY <2>1, <2>2, AloneSock
  <1>7. ASSUME NEW mine \in BOOLEAN, TakeBack(mine) PROVE SockInv'
    <2> DEFINE e == current[click.window]
               hit == mine /\ e # NoEntry /\ ControlledAt(e, click.gen)
    <2>1. UNCHANGED <<section, seen, subscribers, stage, target, published,
                      session, ending>>
      BY <1>7 DEF TakeBack
    <2>2. CASE hit
      <3>1. e \in Entries BY <2>2 DEF ControlledAt, IsLive
      <3>2. Commit(e, Nobody, controller[e])
        BY <1>7, <2>2 DEF TakeBack, Release
      <3>3. controller[e] \in Sockets \cup {Nobody} BY <3>1, EntryTyped
      <3> HIDE DEF e, hit
      <3>4. HeadsKept BY <3>1, <3>2, <3>3, CommitHeads
      <3> QED BY <2>1, <3>4, AloneSock
    <2>3. CASE ~hit
      <3>1. HeadsKept BY <1>7, <2>3 DEF TakeBack, controlVars, HeadsKept
      <3> QED BY <2>1, <3>1, AloneSock
    <2> QED BY <2>2, <2>3
  <1> QED BY <1>1, <1>2, <1>3, <1>4, <1>5, <1>6, <1>7

\* Steps that move one socket without telling it anything.
LEMMA MoveSteps ==
    ASSUME TInv, TInv', CInv, QueueInv, SockInv,
           \/ \E e \in Entries, s \in Sockets : BroadcastFails(e, s)
           \/ \E s \in Sockets, w \in Windows : Dial(s, w)
           \/ \E s \in Sockets : SocketEnds(s)
           \/ \E s \in Sockets :
                EnterAttach(s) /\ ~MayJoin(target[s])
    PROVE  SockInv'
  <1> USE DEF registryVars, attachVars, publishVars, socketVars
  <1>1. ASSUME NEW e \in Entries, NEW s \in Sockets, BroadcastFails(e, s)
        PROVE  SockInv'
    <2>1. /\ UNCHANGED <<section, seen, pending, session, published, stage,
                         target, ending>>
          /\ subscribers' = [subscribers EXCEPT ![e] = @ \ {s}] /\ ending[s]
      BY <1>1 DEF BroadcastFails, Unsubscribe, controlVars
    <2>2. \A x \in Entries : /\ subscribers'[x] \subseteq subscribers[x]
                             /\ subscribers[x] \ subscribers'[x] \subseteq {s}
      BY <2>1 DEF TInv, TypeOK
    <2>3. Quiet BY <2>1, <2>2 DEF Quiet, SectionMoves, Moves
    <2> QED BY <2>3, QuietSock
  <1>2. ASSUME NEW s \in Sockets, NEW w \in Windows, Dial(s, w)
        PROVE  SockInv'
    <2>1. /\ UNCHANGED <<section, seen, pending, session, published,
                         subscribers, ending>>
          /\ stage[s] = "idle" /\ current[w] # NoEntry
          /\ stage' = [stage EXCEPT ![s] = "waiting"]
          /\ target' = [target EXCEPT ![s] = current[w]]
      BY <1>2 DEF Dial, controlVars
    <2>2. current[w] \in Entries /\ session[current[w]] # "new"
      <3>1. current[w] \in Entries BY <2>1 DEF TInv, TypeOK
      <3>2. session[current[w]] \in {"running", "exiting", "stranded"}
        BY <2>1 DEF CInv, Registered
      <3> QED BY <3>1, <3>2
    <2>3. ASSUME NEW x \in Sockets PROVE Moves(x)
      <3>1. CASE x = s
        <4>1. stage'[x] = "waiting" /\ target'[x] = current[w]
          BY <2>1, <3>1 DEF TInv, TypeOK
        <4> QED BY <2>1, <2>2, <3>1, <4>1 DEF Moves
      <3>2. CASE x # s
        <4>1. stage'[x] = stage[x] /\ target'[x] = target[x]
          BY <2>1, <3>2 DEF TInv, TypeOK
        <4> QED BY <4>1 DEF Moves
      <3> QED BY <3>1, <3>2
    <2>4. \A x \in Sockets : ~(stage[x] = "telling" /\ stage'[x] = "gone")
      BY <2>1 DEF TInv, TypeOK
    <2>5. Quiet BY <2>1, <2>3, <2>4 DEF Quiet, SectionMoves
    <2> QED BY <2>5, QuietSock
  <1>3. ASSUME NEW s \in Sockets, SocketEnds(s) PROVE SockInv'
    <2> DEFINE e == target[s]
               b == HeldBy(e, s)
    <2>1. e \in Entries BY <1>3 DEF SocketEnds, TInv, Dialled
    <2>2. /\ ReleaseIf(b, e) /\ section' = SectionLeft(s) /\ ending[s]
          /\ stage[s] \in {"waiting", "telling", "open"}
          /\ stage' = [stage EXCEPT ![s] = "gone"]
          /\ subscribers' = [subscribers EXCEPT ![e] = @ \ {s}]
          /\ UNCHANGED <<seen, session, published, target, ending>>
      BY <1>3 DEF SocketEnds, Unsubscribe
    <2>3. b \in BOOLEAN BY <2>1 DEF HeldBy, IsLive, TInv, TypeOK
    <2> HIDE DEF b
    <2>4. HeadsKept BY <2>1, <2>2, <2>3, ReleaseIfHeads
    <2>5. \A x \in Entries : /\ subscribers'[x] \subseteq subscribers[x]
                             /\ subscribers[x] \ subscribers'[x] \subseteq {s}
      BY <2>2 DEF TInv, TypeOK
    <2>6. \A x \in Entries : s \notin subscribers'[x]
      <3> TAKE x \in Entries
      <3>1. CASE x = e BY <2>1, <2>2, <3>1 DEF TInv, TypeOK
      <3>2. CASE x # e BY <2>5, <3>2 DEF SockInv, Joined
      <3> QED BY <3>1, <3>2
    <2>7. \A x \in Sockets : x # s => stage'[x] = stage[x]
      BY <2>2 DEF TInv, TypeOK
    <2>8. stage'[s] = "gone" BY <2>2 DEF TInv, TypeOK
    <2>9. \A x \in Sockets : Moves(x) BY <2>2, <2>6, <2>7, <2>8 DEF Moves
    <2>10. /\ SectionMoves
           /\ \A x \in Sockets : stage[x] = "telling" /\ stage'[x] = "gone" =>
                section' = [section EXCEPT ![WindowOf[target[x]]] = Idle]
      BY <2>2, <2>7, <2>8 DEF SectionMoves, SectionLeft
    <2>11. Quiet
      BY <2>2, <2>4, <2>5, <2>9, <2>10 DEF Quiet, HeadsKept
    <2> QED BY <2>11, QuietSock
  <1>4. ASSUME NEW s \in Sockets, EnterAttach(s), ~MayJoin(target[s])
        PROVE  SockInv'
    <2>1. /\ stage[s] = "waiting" /\ stage' = [stage EXCEPT ![s] = "gone"]
          /\ ending' = [ending EXCEPT ![s] = TRUE]
          /\ UNCHANGED <<section, seen, pending, session, published,
                         subscribers, target>>
      BY <1>4 DEF EnterAttach, controlVars
    <2>2. \A x \in Entries : s \notin subscribers[x]
      BY <2>1 DEF SockInv, Joined
    <2>3. \A x \in Sockets : x # s => stage'[x] = stage[x]
      BY <2>1 DEF TInv, TypeOK
    <2>4. stage'[s] = "gone" BY <2>1 DEF TInv, TypeOK
    <2>5. \A x \in Sockets : Moves(x) BY <2>1, <2>2, <2>3, <2>4 DEF Moves
    <2>6. \A x \in Sockets : ending[x] => ending'[x]
      BY <2>1 DEF TInv, TypeOK
    <2>7. \A x \in Sockets : ~(stage[x] = "telling" /\ stage'[x] = "gone")
      BY <2>1, <2>3
    <2>8. Quiet BY <2>1, <2>5, <2>6, <2>7 DEF Quiet, SectionMoves
    <2> QED BY <2>8, QuietSock
  <1> QED BY <1>1, <1>2, <1>3, <1>4

\* The oldest task takes the section and lists whom it has to reach.
LEMMA StartSock ==
    ASSUME TInv, TInv', QueueInv, SockInv, NEW w \in Windows,
           StartPublication(w)
    PROVE  SockInv'
  <1> DEFINE p == Head(pending[w])
             sec == IF p.lost # Nobody
                      THEN [kind |-> "revoke", socks |-> {p.lost}]
                      ELSE [kind |-> "send", socks |-> subscribers[p.entry]]
  <1>1. /\ section[w] = Idle /\ section' = [section EXCEPT ![w] = sec]
        /\ UNCHANGED <<session, pending, published, seen, subscribers, stage,
                       target, ending>>
    BY DEF StartPublication, registryVars, controlVars, attachVars, socketVars
  <1>2. /\ section[w].kind = "idle" BY <1>1 DEF Idle
  <1>3. /\ sec.kind \in {"revoke", "send"}
        /\ sec.kind = "send" => sec.socks = subscribers[p.entry]
    OBVIOUS
  <1> HIDE DEF sec
  <1>4. /\ section'[w] = sec
        /\ \A y \in Windows \ {w} : section'[y] = section[y]
    BY <1>1 DEF TInv, TypeOK
  <1>5. Joined' /\ DialledHello' /\ Untold'
    BY <1>1 DEF SockInv, Joined, DialledHello, Untold
  <1>6. AttachHoldsSection'
    <2> SUFFICES ASSUME NEW s \in Sockets, stage[s] = "telling"
                 PROVE  /\ section'[WindowOf[target[s]]].kind = "attach"
                        /\ section'[WindowOf[target[s]]].socks = {s}
      BY <1>1 DEF AttachHoldsSection
    <2>1. WindowOf[target[s]] \in Windows
      BY WindowAssumption DEF TInv, Dialled
    <2>2. WindowOf[target[s]] # w
      BY <1>2 DEF SockInv, AttachHoldsSection
    <2> QED BY <1>4, <2>1, <2>2 DEF SockInv, AttachHoldsSection
  <1>7. Told'
    <2> SUFFICES ASSUME NEW s \in Sockets, stage[s] = "open",
                        s \in subscribers[target[s]], ~ending[s]
                 PROVE  seen[s] = IF Sent(s)'
                                  THEN Head(pending[WindowOf[target[s]]]).view
                                  ELSE published[target[s]]
      BY <1>1 DEF Told
    <2>1. WindowOf[target[s]] \in Windows
      BY WindowAssumption DEF TInv, Dialled
    <2>2. Sent(s)' <=> Sent(s)
      <3>1. CASE WindowOf[target[s]] = w
        <4>1. ~Sent(s) BY <1>2, <3>1 DEF Sent
        <4>2. ~Sent(s)' BY <1>1, <1>3, <1>4, <3>1 DEF Sent
        <4> QED BY <4>1, <4>2
      <3>2. CASE WindowOf[target[s]] # w
        BY <1>1, <1>4, <2>1, <3>2 DEF Sent
      <3> QED BY <3>1, <3>2
    <2>3. seen[s] = IF Sent(s) THEN Head(pending[WindowOf[target[s]]]).view
                               ELSE published[target[s]]
      BY DEF SockInv, Told
    <2> QED BY <2>2, <2>3
  <1>8. Listed'
    <2> SUFFICES ASSUME NEW y \in Windows, section'[y].kind = "send",
                        NEW s \in section'[y].socks, ~ending[s]
                 PROVE  s \in subscribers[Head(pending[y]).entry]
      BY <1>1 DEF Listed
    <2>1. CASE y = w BY <1>3, <1>4, <2>1
    <2>2. CASE y # w BY <1>4, <2>2 DEF SockInv, Listed
    <2> QED BY <2>1, <2>2
  <1> QED BY <1>5, <1>6, <1>7, <1>8 DEF SockInv

\* The publication is over: whoever it has reached was told what is published
\* from here on.
LEMMA FinishSock ==
    ASSUME TInv, TInv', QueueInv, SockInv, NEW w \in Windows,
           FinishPublication(w)
    PROVE  SockInv'
  <1> DEFINE p == Head(pending[w])
  <1>1. /\ section[w] = [kind |-> "send", socks |-> {}]
        /\ section' = [section EXCEPT ![w] = Idle]
        /\ published' = [published EXCEPT ![p.entry] = p.view]
        /\ pending' = [pending EXCEPT ![w] = Tail(@)]
        /\ UNCHANGED <<session, seen, subscribers, stage, target, ending>>
    BY DEF FinishPublication, Recorded, registryVars, attachVars, socketVars
  <1>2. section[w].kind = "send" /\ section[w].socks = {} BY <1>1
  <1>3. /\ section'[w].kind = "idle"
        /\ \A y \in Windows \ {w} : /\ section'[y] = section[y]
                                    /\ pending'[y] = pending[y]
    BY <1>1 DEF TInv, TypeOK, Idle
  <1>4. p.entry \in Entries /\ WindowOf[p.entry] = w BY <1>2, HeadTyped
  <1>5. /\ published'[p.entry] = p.view
        /\ \A x \in Entries \ {p.entry} : published'[x] = published[x]
    BY <1>1, <1>4 DEF TInv, TypeOK
  <1>6. Joined' /\ DialledHello' /\ Untold'
    BY <1>1 DEF SockInv, Joined, DialledHello, Untold
  <1>7. AttachHoldsSection'
    <2> SUFFICES ASSUME NEW s \in Sockets, stage[s] = "telling"
                 PROVE  /\ section'[WindowOf[target[s]]].kind = "attach"
                        /\ section'[WindowOf[target[s]]].socks = {s}
      BY <1>1 DEF AttachHoldsSection
    <2>1. WindowOf[target[s]] \in Windows
      BY WindowAssumption DEF TInv, Dialled
    <2>2. WindowOf[target[s]] # w
      BY <1>2 DEF SockInv, AttachHoldsSection
    <2> QED BY <1>3, <2>1, <2>2 DEF SockInv, AttachHoldsSection
  <1>8. Told'
    <2> SUFFICES ASSUME NEW s \in Sockets, stage[s] = "open",
                        s \in subscribers[target[s]], ~ending[s]
                 PROVE  seen[s] = IF Sent(s)'
                                  THEN Head(pending'[WindowOf[target[s]]]).view
                                  ELSE published'[target[s]]
      BY <1>1 DEF Told
    <2>1. target[s] \in Entries /\ WindowOf[target[s]] \in Windows
      BY WindowAssumption DEF TInv, Dialled
    <2>2. seen[s] = IF Sent(s) THEN Head(pending[WindowOf[target[s]]]).view
                               ELSE published[target[s]]
      BY DEF SockInv, Told
    <2>3. CASE WindowOf[target[s]] = w
      <3>1. ~Sent(s)' BY <1>1, <1>3, <2>3 DEF Sent
      <3>2. CASE target[s] = p.entry
        <4>1. Sent(s) BY <1>2, <2>3, <3>2 DEF Sent
        <4> QED BY <1>5, <2>2, <2>3, <3>1, <3>2, <4>1
      <3>3. CASE target[s] # p.entry
        <4>1. ~Sent(s) BY <2>3, <3>3 DEF Sent
        <4> QED BY <1>5, <2>1, <2>2, <3>1, <3>3, <4>1
      <3> QED BY <3>2, <3>3
    <2>4. CASE WindowOf[target[s]] # w
      <3>1. Sent(s)' <=> Sent(s) BY <1>1, <1>3, <2>1, <2>4 DEF Sent
      <3>2. target[s] # p.entry BY <1>4, <2>4
      <3>3. /\ pending'[WindowOf[target[s]]] = pending[WindowOf[target[s]]]
            /\ published'[target[s]] = published[target[s]]
        BY <1>3, <1>5, <2>1, <2>4, <3>2
      <3> QED BY <2>2, <3>1, <3>3
    <2> QED BY <2>3, <2>4
  <1>9. Listed'
    <2> SUFFICES ASSUME NEW y \in Windows, section'[y].kind = "send",
                        NEW s \in section'[y].socks, ~ending[s]
                 PROVE  s \in subscribers[Head(pending'[y]).entry]
      BY <1>1 DEF Listed
    <2>1. y # w BY <1>3
    <2> QED BY <1>3, <2>1 DEF SockInv, Listed
  <1> QED BY <1>6, <1>7, <1>8, <1>9 DEF SockInv

\* A socket joins the entry it dialled, inside the section.
LEMMA JoinSock ==
    ASSUME TInv, TInv', QueueInv, SockInv, NEW s \in Sockets,
           EnterAttach(s), MayJoin(target[s])
    PROVE  SockInv'
  <1> DEFINE e == target[s]
             w == WindowOf[e]
             inside == [kind |-> "attach", socks |-> {s}]
  <1>1. /\ stage[s] = "waiting" /\ section[w] = Idle
        /\ subscribers' = [subscribers EXCEPT ![e] = @ \cup {s}]
        /\ section' = [section EXCEPT ![w] = inside]
        /\ stage' = [stage EXCEPT ![s] = "telling"]
        /\ UNCHANGED <<session, pending, published, seen, target, ending>>
    BY DEF EnterAttach, registryVars, controlVars
  <1>2. e \in Entries /\ w \in Windows
    BY <1>1, WindowAssumption DEF TInv, Dialled
  <1>3. /\ section[w].kind = "idle" /\ inside.kind = "attach"
        /\ inside.socks = {s}
    BY <1>1 DEF Idle
  <1> HIDE DEF inside
  <1>4. /\ section'[w] = inside
        /\ \A y \in Windows \ {w} : section'[y] = section[y]
    BY <1>1, <1>2 DEF TInv, TypeOK
  <1>5. /\ stage'[s] = "telling"
        /\ \A x \in Sockets \ {s} : stage'[x] = stage[x]
    BY <1>1 DEF TInv, TypeOK
  <1>6. /\ subscribers'[e] = subscribers[e] \cup {s}
        /\ \A x \in Entries \ {e} : subscribers'[x] = subscribers[x]
    BY <1>1, <1>2 DEF TInv, TypeOK
  <1>7. Joined'
    <2> SUFFICES ASSUME NEW x \in Entries, NEW y \in subscribers'[x]
                 PROVE  target[y] = x /\ stage'[y] \in {"telling", "open"}
      BY <1>1 DEF Joined
    <2>1. y \in Sockets BY DEF TInv, TypeOK
    <2>2. CASE y = s
      <3>1. s \notin subscribers[x] BY <1>1 DEF SockInv, Joined
      <3>2. x = e BY <1>6, <2>2, <3>1
      <3> QED BY <1>5, <2>2, <3>2
    <2>3. CASE y # s
      <3>1. y \in subscribers[x] BY <1>6, <2>3
      <3> QED BY <1>5, <2>1, <2>3, <3>1 DEF SockInv, Joined
    <2> QED BY <2>2, <2>3
  <1>8. AttachHoldsSection'
    <2> SUFFICES ASSUME NEW x \in Sockets, stage'[x] = "telling"
                 PROVE  /\ section'[WindowOf[target[x]]].kind = "attach"
                        /\ section'[WindowOf[target[x]]].socks = {x}
      BY <1>1 DEF AttachHoldsSection
    <2>1. CASE x = s BY <1>3, <1>4, <2>1
    <2>2. CASE x # s
      <3>1. stage[x] = "telling" BY <1>5, <2>2
      <3>2. WindowOf[target[x]] \in Windows
        BY <3>1, WindowAssumption DEF TInv, Dialled
      <3>3. WindowOf[target[x]] # w
        BY <1>3, <3>1 DEF SockInv, AttachHoldsSection
      <3> QED BY <1>4, <3>1, <3>2, <3>3 DEF SockInv, AttachHoldsSection
    <2> QED BY <2>1, <2>2
  <1>9. DialledHello' BY <1>1 DEF SockInv, DialledHello
  <1>10. Told'
    <2> SUFFICES ASSUME NEW x \in Sockets, stage'[x] = "open",
                        x \in subscribers'[target[x]], ~ending[x]
                 PROVE  seen[x] = IF Sent(x)'
                                  THEN Head(pending[WindowOf[target[x]]]).view
                                  ELSE published[target[x]]
      BY <1>1 DEF Told
    <2>1. x # s /\ stage[x] = "open" BY <1>5
    <2>2. target[x] \in Entries /\ WindowOf[target[x]] \in Windows
      BY <2>1, WindowAssumption DEF TInv, Dialled
    <2>3. x \in subscribers[target[x]] BY <1>6, <2>1, <2>2
    <2>4. Sent(x)' <=> Sent(x)
      <3>1. CASE WindowOf[target[x]] = w
        BY <1>1, <1>3, <1>4, <3>1 DEF Sent
      <3>2. CASE WindowOf[target[x]] # w
        BY <1>1, <1>4, <2>2, <3>2 DEF Sent
      <3> QED BY <3>1, <3>2
    <2>5. seen[x] = IF Sent(x) THEN Head(pending[WindowOf[target[x]]]).view
                               ELSE published[target[x]]
      BY <2>1, <2>3 DEF SockInv, Told
    <2> QED BY <2>4, <2>5
  <1>11. Untold'
    <2>1. seen[s] = Free(0) BY <1>1 DEF SockInv, Untold
    <2> QED BY <1>1, <1>5, <2>1 DEF SockInv, Untold
  <1>12. Listed'
    <2> SUFFICES ASSUME NEW y \in Windows, section'[y].kind = "send",
                        NEW x \in section'[y].socks, ~ending[x]
                 PROVE  x \in subscribers'[Head(pending[y]).entry]
      BY <1>1 DEF Listed
    <2>1. y # w BY <1>3, <1>4
    <2>2. section'[y] = section[y] BY <1>4, <2>1
    <2>3. x \in subscribers[Head(pending[y]).entry]
      BY <2>2 DEF SockInv, Listed
    <2>4. Head(pending[y]).entry \in Entries BY <2>2, HeadTyped
    <2> QED BY <1>6, <2>3, <2>4
  <1> QED BY <1>7, <1>8, <1>9, <1>10, <1>11, <1>12 DEF SockInv

\* The socket is told what is published, and leaves the section.
LEMMA TellSock ==
    ASSUME TInv, TInv', QueueInv, SockInv, NEW s \in Sockets, TellAttached(s)
    PROVE  SockInv'
  <1> DEFINE e == target[s]
             w == WindowOf[e]
  <1>1. /\ stage[s] = "telling"
        /\ stage' = [stage EXCEPT ![s] = "open"]
        /\ section' = [section EXCEPT ![w] = Idle]
        /\ seen' = IF ending[s] THEN seen
                                ELSE [seen EXCEPT ![s] = published[e]]
        /\ UNCHANGED <<session, pending, published, subscribers, target, ending>>
    BY DEF TellAttached, SectionLeft, ToldPublished, registryVars, controlVars,
       attachVars
  <1>2. e \in Entries /\ w \in Windows
    BY <1>1, WindowAssumption DEF TInv, Dialled
  <1>3. section[w].kind = "attach" /\ section[w].socks = {s}
    BY <1>1 DEF SockInv, AttachHoldsSection
  <1>4. /\ section'[w].kind = "idle"
        /\ \A y \in Windows \ {w} : section'[y] = section[y]
    BY <1>1, <1>2 DEF TInv, TypeOK, Idle
  <1>5. /\ stage'[s] = "open"
        /\ \A x \in Sockets \ {s} : stage'[x] = stage[x] /\ seen'[x] = seen[x]
    BY <1>1 DEF TInv, TypeOK
  <1>6. ~ending[s] => seen'[s] = published[e] BY <1>1 DEF TInv, TypeOK
  <1>7. Joined'
    <2> SUFFICES ASSUME NEW x \in Entries, NEW y \in subscribers[x]
                 PROVE  target[y] = x /\ stage'[y] \in {"telling", "open"}
      BY <1>1 DEF Joined
    <2>1. y \in Sockets BY DEF TInv, TypeOK
    <2> QED BY <1>5, <2>1 DEF SockInv, Joined
  <1>8. AttachHoldsSection'
    <2> SUFFICES ASSUME NEW x \in Sockets, stage'[x] = "telling"
                 PROVE  /\ section'[WindowOf[target[x]]].kind = "attach"
                        /\ section'[WindowOf[target[x]]].socks = {x}
      BY <1>1 DEF AttachHoldsSection
    <2>1. x # s /\ stage[x] = "telling" BY <1>5
    <2>2. WindowOf[target[x]] \in Windows
      BY <2>1, WindowAssumption DEF TInv, Dialled
    <2>3. /\ section[WindowOf[target[x]]].kind = "attach"
          /\ section[WindowOf[target[x]]].socks = {x}
      BY <2>1 DEF SockInv, AttachHoldsSection
    <2>4. WindowOf[target[x]] # w
      <3>1. s \notin {x} BY <2>1
      <3> QED BY <1>3, <2>3, <3>1
    <2> QED BY <1>4, <2>2, <2>3, <2>4
  <1>9. DialledHello' BY <1>1 DEF SockInv, DialledHello
  <1>10. Told'
    <2> SUFFICES ASSUME NEW x \in Sockets, stage'[x] = "open",
                        x \in subscribers[target[x]], ~ending[x]
                 PROVE  seen'[x] = IF Sent(x)'
                                   THEN Head(pending[WindowOf[target[x]]]).view
                                   ELSE published[target[x]]
      BY <1>1 DEF Told
    <2>1. CASE x = s
      <3>1. ~Sent(x)' BY <1>1, <1>4, <2>1 DEF Sent
      <3> QED BY <1>6, <2>1, <3>1
    <2>2. CASE x # s
      <3>1. stage[x] = "open" /\ seen'[x] = seen[x] BY <1>5, <2>2
      <3>2. target[x] \in Entries /\ WindowOf[target[x]] \in Windows
        BY <3>1, WindowAssumption DEF TInv, Dialled
      <3>3. Sent(x)' <=> Sent(x)
        <4>1. CASE WindowOf[target[x]] = w
          BY <1>1, <1>3, <1>4, <4>1 DEF Sent
        <4>2. CASE WindowOf[target[x]] # w
          BY <1>1, <1>4, <3>2, <4>2 DEF Sent
        <4> QED BY <4>1, <4>2
      <3>4. seen[x] = IF Sent(x) THEN Head(pending[WindowOf[target[x]]]).view
                                 ELSE published[target[x]]
        BY <3>1 DEF SockInv, Told
      <3> QED BY <3>1, <3>3, <3>4
    <2> QED BY <2>1, <2>2
  <1>11. Untold'
    <2> SUFFICES ASSUME NEW x \in Sockets,
                        stage'[x] \in {"idle", "waiting", "telling"}
                 PROVE  seen'[x] = Free(0)
      BY DEF Untold
    <2>1. x # s /\ stage'[x] = stage[x] /\ seen'[x] = seen[x] BY <1>5
    <2> QED BY <2>1 DEF SockInv, Untold
  <1>12. Listed'
    <2> SUFFICES ASSUME NEW y \in Windows, section'[y].kind = "send",
                        NEW x \in section'[y].socks, ~ending[x]
                 PROVE  x \in subscribers[Head(pending[y]).entry]
      BY <1>1 DEF Listed
    <2>1. y # w BY <1>4
    <2> QED BY <1>4, <2>1 DEF SockInv, Listed
  <1> QED BY <1>7, <1>8, <1>9, <1>10, <1>11, <1>12 DEF SockInv

\* A socket that cannot be reached in time leaves the entry; or nothing of the
\* kind happens.
DropOrNot(e, s) ==
    /\ HeadsKept
    /\ \A x \in Entries : /\ subscribers'[x] \subseteq subscribers[x]
                          /\ subscribers[x] \ subscribers'[x] \subseteq {s}
    /\ \A x \in Sockets : ending[x] => ending'[x]
    /\ UNCHANGED subscribers \/ ending'[s]

LEMMA DropDoes ==
    ASSUME TInv, NEW e \in Entries, NEW s \in Sockets, DropStalled(e, s)
    PROVE  DropOrNot(e, s) /\ ending'[s]
  <1>1. /\ ReleaseIf(controller[e] = s, e) /\ (controller[e] = s) \in BOOLEAN
        /\ subscribers' = [subscribers EXCEPT ![e] = @ \ {s}]
        /\ ending' = [ending EXCEPT ![s] = TRUE]
    BY DEF DropStalled, Unsubscribe
  <1>2. HeadsKept BY <1>1, ReleaseIfHeads
  <1>3. /\ \A x \in Entries : /\ subscribers'[x] \subseteq subscribers[x]
                              /\ subscribers[x] \ subscribers'[x] \subseteq {s}
        /\ \A x \in Sockets : ending[x] => ending'[x]
        /\ ending'[s]
    BY <1>1 DEF TInv, TypeOK
  <1> QED BY <1>2, <1>3 DEF DropOrNot

\* `revoked` is out, or its addressee lost: the view goes to whom is left.
LEMMA RevokedSock ==
    ASSUME TInv, TInv', QueueInv, SockInv, NEW w \in Windows, SendRevoked(w)
    PROVE  SockInv'
  <1> DEFINE e == Head(pending[w]).entry
  <1>1. /\ section[w].kind = "revoke"
        /\ section' = [section EXCEPT ![w] =
                        [kind |-> "send", socks |-> subscribers'[e]]]
        /\ UNCHANGED <<session, published, seen, stage, target>>
    BY DEF SendRevoked, registryVars
  <1>2. e \in Entries /\ WindowOf[e] = w /\ pending[w] # <<>>
    BY <1>1, HeadTyped
  <1>3. \E s \in Sockets : DropOrNot(e, s)
    <2>1. PICK s \in section[w].socks :
              \/ UNCHANGED <<attachVars, controlVars, ending>>
              \/ DropStalled(e, s)
      BY DEF SendRevoked
    <2>2. s \in Sockets BY <2>1 DEF TInv, TypeOK, Sections
    <2> HIDE DEF e
    <2>3. CASE UNCHANGED <<attachVars, controlVars, ending>>
      <3>1. UNCHANGED <<subscribers, pending, ending>>
        BY <2>3 DEF attachVars, controlVars
      <3>2. DropOrNot(e, s) BY <3>1 DEF DropOrNot, HeadsKept
      <3> QED BY <2>2, <3>2
    <2>4. CASE DropStalled(e, s) BY <1>2, <2>2, <2>4, DropDoes
    <2> QED BY <2>1, <2>3, <2>4
  <1>4. /\ HeadsKept
        /\ \A x \in Entries : subscribers'[x] \subseteq subscribers[x]
        /\ \A x \in Entries : \A s \in subscribers[x] \ subscribers'[x] :
             ending'[s]
        /\ \A x \in Sockets : ending[x] => ending'[x]
    BY <1>3 DEF DropOrNot
  <1>5. /\ section'[w].kind = "send" /\ section'[w].socks = subscribers'[e]
        /\ \A y \in Windows \ {w} : section'[y] = section[y]
    BY <1>1 DEF TInv, TypeOK
  <1>6. Head(pending'[w]) = Head(pending[w]) BY <1>2, <1>4 DEF HeadsKept
  <1>7. Joined'
    <2> SUFFICES ASSUME NEW x \in Entries, NEW s \in subscribers'[x]
                 PROVE  target[s] = x /\ stage[s] \in {"telling", "open"}
      BY <1>1 DEF Joined
    <2> QED BY <1>4 DEF SockInv, Joined
  <1>8. AttachHoldsSection'
    <2> SUFFICES ASSUME NEW s \in Sockets, stage[s] = "telling"
                 PROVE  /\ section'[WindowOf[target[s]]].kind = "attach"
                        /\ section'[WindowOf[target[s]]].socks = {s}
      BY <1>1 DEF AttachHoldsSection
    <2>1. WindowOf[target[s]] \in Windows
      BY WindowAssumption DEF TInv, Dialled
    <2>2. WindowOf[target[s]] # w
      BY <1>1 DEF SockInv, AttachHoldsSection
    <2> QED BY <1>5, <2>1, <2>2 DEF SockInv, AttachHoldsSection
  <1>9. DialledHello' /\ Untold'
    BY <1>1 DEF SockInv, DialledHello, Untold
  <1>10. Told'
    <2> SUFFICES ASSUME NEW s \in Sockets, stage[s] = "open",
                        s \in subscribers'[target[s]], ~ending'[s]
                 PROVE  seen[s] = IF Sent(s)'
                                  THEN Head(pending'[WindowOf[target[s]]]).view
                                  ELSE published[target[s]]
      BY <1>1 DEF Told
    <2>1. target[s] \in Entries /\ WindowOf[target[s]] \in Windows
      BY WindowAssumption DEF TInv, Dialled
    <2>2. s \in subscribers[target[s]] /\ ~ending[s] BY <1>4, <2>1
    <2>3. seen[s] = IF Sent(s) THEN Head(pending[WindowOf[target[s]]]).view
                               ELSE published[target[s]]
      BY <2>2 DEF SockInv, Told
    <2>4. CASE WindowOf[target[s]] = w
      <3>1. ~Sent(s) BY <1>1, <2>4 DEF Sent
      <3>2. ~Sent(s)'
        <4> SUFFICES ASSUME Sent(s)' PROVE FALSE
          OBVIOUS
        <4>1. Head(pending'[w]).entry = target[s] /\ s \notin section'[w].socks
          BY <1>1, <2>4 DEF Sent
        <4>2. target[s] = e BY <1>6, <4>1
        <4> QED BY <1>5, <4>1, <4>2
      <3> QED BY <2>3, <3>1, <3>2
    <2>5. CASE WindowOf[target[s]] # w
      <3> DEFINE y == WindowOf[target[s]]
      <3>1. section'[y] = section[y] BY <1>5, <2>1, <2>5
      <3>2. section[y].kind = "send" => Head(pending'[y]) = Head(pending[y])
        BY <1>4, <2>1 DEF HeadsKept, TInv, Publishing
      <3>3. Sent(s)' <=> Sent(s) BY <1>1, <3>1, <3>2 DEF Sent
      <3>4. Sent(s) => Head(pending'[y]) = Head(pending[y])
        BY <3>2 DEF Sent
      <3> QED BY <2>3, <3>3, <3>4
    <2> QED BY <2>4, <2>5
  <1>11. Listed'
    <2> SUFFICES ASSUME NEW y \in Windows, section'[y].kind = "send",
                        NEW s \in section'[y].socks, ~ending'[s]
                 PROVE  s \in subscribers'[Head(pending'[y]).entry]
      BY DEF Listed
    <2>1. CASE y = w BY <1>5, <1>6, <2>1
    <2>2. CASE y # w
      <3>1. section'[y] = section[y] BY <1>5, <2>2
      <3>2. s \in Sockets BY <3>1 DEF TInv, TypeOK, Sections
      <3>3. pending[y] # <<>> /\ Head(pending[y]).entry \in Entries
        BY <3>1, HeadTyped
      <3>4. Head(pending'[y]) = Head(pending[y]) BY <1>4, <3>3 DEF HeadsKept
      <3>5. s \in subscribers[Head(pending[y]).entry]
        BY <1>4, <3>1, <3>2 DEF SockInv, Listed
      <3> QED BY <1>4, <3>3, <3>4, <3>5
    <2> QED BY <2>1, <2>2
  <1> QED BY <1>7, <1>8, <1>9, <1>10, <1>11 DEF SockInv

\* The socket the view goes out to next, and what becomes of it.
LEMMA SendDoes ==
    ASSUME TInv, QueueInv, SockInv, NEW w \in Windows, SendView(w)
    PROVE  LET p == Head(pending[w]) IN
           \E s \in section[w].socks :
              /\ s \in Sockets
              /\ section' = [section EXCEPT ![w].socks = @ \ {s}]
              /\ DropOrNot(p.entry, s)
              /\ \/ /\ ~ending[s] /\ s \in subscribers[p.entry]
                    /\ target[s] = p.entry /\ stage[s] = "open"
                    /\ seen[s] = published[p.entry]
                    /\ seen' = [seen EXCEPT ![s] = p.view]
                 \/ ending'[s] /\ UNCHANGED seen
  <1> DEFINE p == Head(pending[w])
  <1>1. section[w].kind = "send" BY DEF SendView
  <1>2. p.entry \in Entries /\ WindowOf[p.entry] = w BY <1>1, HeadTyped
  <1>3. PICK s \in section[w].socks :
            /\ section' = [section EXCEPT ![w].socks = @ \ {s}]
            /\ \/ /\ ~ending[s]
                  /\ seen' = [seen EXCEPT ![s] = p.view]
                  /\ UNCHANGED <<attachVars, controlVars, ending>>
               \/ /\ DropStalled(p.entry, s)
                  /\ UNCHANGED seen
    BY DEF SendView
  <1>4. s \in Sockets BY <1>3 DEF TInv, TypeOK, Sections
  <1> HIDE DEF p
  <1>5. CASE /\ ~ending[s]
             /\ seen' = [seen EXCEPT ![s] = p.view]
             /\ UNCHANGED <<attachVars, controlVars, ending>>
    <2>1. UNCHANGED <<subscribers, pending, ending>>
      BY <1>5 DEF attachVars, controlVars
    <2>2. DropOrNot(p.entry, s) BY <2>1 DEF DropOrNot, HeadsKept
    <2>3. s \in subscribers[p.entry] BY <1>1, <1>5 DEF SockInv, Listed, p
    <2>4. target[s] = p.entry /\ stage[s] \in {"telling", "open"}
      BY <1>2, <2>3 DEF SockInv, Joined
    <2>5. stage[s] # "telling"
      BY <1>1, <1>2, <1>4, <2>4 DEF SockInv, AttachHoldsSection
    <2>6. ~Sent(s) BY <1>2, <2>4 DEF Sent
    <2>7. seen[s] = published[p.entry]
      BY <1>4, <1>5, <2>3, <2>4, <2>5, <2>6 DEF SockInv, Told
    <2> QED BY <1>3, <1>4, <1>5, <2>2, <2>3, <2>4, <2>5, <2>7 DEF p
  <1>6. CASE DropStalled(p.entry, s) /\ UNCHANGED seen
    <2>1. DropOrNot(p.entry, s) /\ ending'[s] BY <1>2, <1>4, <1>6, DropDoes
    <2> QED BY <1>3, <1>4, <1>6, <2>1 DEF p
  <1> QED BY <1>3, <1>5, <1>6

LEMMA ViewSock ==
    ASSUME TInv, TInv', QueueInv, SockInv, NEW w \in Windows, SendView(w)
    PROVE  SockInv'
  <1> DEFINE p == Head(pending[w])
             e == p.entry
  <1>1. /\ section[w].kind = "send"
        /\ UNCHANGED <<session, published, stage, target>>
    BY DEF SendView, registryVars
  <1>2. e \in Entries /\ WindowOf[e] = w /\ pending[w] # <<>>
    BY <1>1, HeadTyped
  <1>3. PICK s \in section[w].socks :
              /\ s \in Sockets
              /\ section' = [section EXCEPT ![w].socks = @ \ {s}]
              /\ DropOrNot(e, s)
              /\ \/ /\ ~ending[s] /\ s \in subscribers[e]
                    /\ target[s] = e /\ stage[s] = "open"
                    /\ seen[s] = published[e]
                    /\ seen' = [seen EXCEPT ![s] = p.view]
                 \/ ending'[s] /\ UNCHANGED seen
    BY SendDoes
  <1>4. /\ HeadsKept
        /\ \A x \in Entries : subscribers'[x] \subseteq subscribers[x]
        /\ \A x \in Entries : \A y \in subscribers[x] \ subscribers'[x] :
             ending'[y]
        /\ \A x \in Sockets : ending[x] => ending'[x]
    BY <1>3 DEF DropOrNot
  <1>5. /\ section'[w].kind = "send"
        /\ section'[w].socks = section[w].socks \ {s}
        /\ \A y \in Windows \ {w} : section'[y] = section[y]
    BY <1>1, <1>3 DEF TInv, TypeOK, Sections
  <1>6. Head(pending'[w]) = p BY <1>2, <1>4 DEF HeadsKept
  <1>7. \A x \in Sockets \ {s} : seen'[x] = seen[x]
    BY <1>3 DEF TInv, TypeOK
  <1>8. ending'[s] \/ (target[s] = e /\ seen'[s] = p.view /\ stage[s] = "open")
    BY <1>3 DEF TInv, TypeOK
  <1>9. seen' = seen \/ stage[s] = "open" BY <1>3
  <1>10. Joined'
    <2> SUFFICES ASSUME NEW x \in Entries, NEW y \in subscribers'[x]
                 PROVE  target[y] = x /\ stage[y] \in {"telling", "open"}
      BY <1>1 DEF Joined
    <2> QED BY <1>4 DEF SockInv, Joined
  <1>11. AttachHoldsSection'
    <2> SUFFICES ASSUME NEW x \in Sockets, stage[x] = "telling"
                 PROVE  /\ section'[WindowOf[target[x]]].kind = "attach"
                        /\ section'[WindowOf[target[x]]].socks = {x}
      BY <1>1 DEF AttachHoldsSection
    <2>1. WindowOf[target[x]] \in Windows
      BY WindowAssumption DEF TInv, Dialled
    <2>2. WindowOf[target[x]] # w
      BY <1>1 DEF SockInv, AttachHoldsSection
    <2> QED BY <1>5, <2>1, <2>2 DEF SockInv, AttachHoldsSection
  <1>12. DialledHello' BY <1>1 DEF SockInv, DialledHello
  <1>13. Untold'
    <2> SUFFICES ASSUME NEW x \in Sockets,
                        stage[x] \in {"idle", "waiting", "telling"}
                 PROVE  seen'[x] = Free(0)
      BY <1>1 DEF Untold
    <2>1. seen'[x] = seen[x] BY <1>7, <1>9
    <2> QED BY <2>1 DEF SockInv, Untold
  <1>14. Told'
    <2> SUFFICES ASSUME NEW x \in Sockets, stage[x] = "open",
                        x \in subscribers'[target[x]], ~ending'[x]
                 PROVE  seen'[x] = IF Sent(x)'
                                   THEN Head(pending'[WindowOf[target[x]]]).view
                                   ELSE published[target[x]]
      BY <1>1 DEF Told
    <2>1. target[x] \in Entries /\ WindowOf[target[x]] \in Windows
      BY WindowAssumption DEF TInv, Dialled
    <2>2. x \in subscribers[target[x]] /\ ~ending[x] BY <1>4, <2>1
    <2>3. seen[x] = IF Sent(x) THEN Head(pending[WindowOf[target[x]]]).view
                               ELSE published[target[x]]
      BY <2>2 DEF SockInv, Told
    <2>4. CASE x = s
      <3>1. target[x] = e /\ seen'[x] = p.view BY <1>8, <2>4
      <3>2. Sent(x)' BY <1>1, <1>2, <1>5, <1>6, <2>4, <3>1 DEF Sent
      <3>3. Head(pending'[WindowOf[target[x]]]) = p BY <1>2, <1>6, <3>1
      <3> QED BY <3>1, <3>2, <3>3
    <2>5. CASE x # s
      <3> DEFINE y == WindowOf[target[x]]
      <3>1. seen'[x] = seen[x] BY <1>7, <2>5
      <3>2. CASE y = w
        <4>1. Sent(x)' <=> Sent(x)
          BY <1>1, <1>5, <1>6, <2>5, <3>2 DEF Sent
        <4>2. Head(pending'[y]) = Head(pending[y]) BY <1>6, <3>2
        <4> QED BY <2>3, <3>1, <4>1, <4>2
      <3>3. CASE y # w
        <4>1. section'[y] = section[y] BY <1>5, <2>1, <3>3
        <4>2. section[y].kind = "send" => Head(pending'[y]) = Head(pending[y])
          BY <1>4, <2>1 DEF HeadsKept, TInv, Publishing
        <4>3. Sent(x)' <=> Sent(x) BY <1>1, <4>1, <4>2 DEF Sent
        <4>4. Sent(x) => Head(pending'[y]) = Head(pending[y])
          BY <4>2 DEF Sent
        <4> QED BY <2>3, <3>1, <4>3, <4>4
      <3> QED BY <3>2, <3>3
    <2> QED BY <2>4, <2>5
  <1>15. Listed'
    <2> SUFFICES ASSUME NEW y \in Windows, section'[y].kind = "send",
                        NEW x \in section'[y].socks, ~ending'[x]
                 PROVE  x \in subscribers'[Head(pending'[y]).entry]
      BY DEF Listed
    <2>1. section[y].kind = "send" /\ x \in section[y].socks
      BY <1>1, <1>5
    <2>2. x \in Sockets BY <2>1 DEF TInv, TypeOK, Sections
    <2>3. pending[y] # <<>> /\ Head(pending[y]).entry \in Entries
      BY <2>1, HeadTyped
    <2>4. Head(pending'[y]) = Head(pending[y]) BY <1>4, <2>3 DEF HeadsKept
    <2>5. x \in subscribers[Head(pending[y]).entry]
      BY <1>4, <2>1, <2>2 DEF SockInv, Listed
    <2> QED BY <1>4, <2>3, <2>4, <2>5
  <1> QED BY <1>10, <1>11, <1>12, <1>13, <1>14, <1>15 DEF SockInv

LEMMA SockStep ==
    ASSUME TInv, TInv', CInv, QueueInv, SockInv, [Next]_vars
    PROVE  SockInv'
  <1>1. ASSUME NEW w \in Windows,
               StartPublication(w) \/ SendRevoked(w) \/ SendView(w)
                 \/ FinishPublication(w)
        PROVE  SockInv'
    BY <1>1, StartSock, RevokedSock, ViewSock, FinishSock
  <1>2. ASSUME NEW s \in Sockets, EnterAttach(s) PROVE SockInv'
    BY <1>2, JoinSock, MoveSteps
  <1>3. ASSUME NEW s \in Sockets, TellAttached(s) PROVE SockInv'
    BY <1>3, TellSock
  <1> QED BY <1>1, <1>2, <1>3, AloneSteps, MoveSteps DEF Next

-----------------------------------------------------------------------------
(* The sweep of a replaced entry's sockets.                                *)

\* Only a register() under way, or one that was cancelled, has a list.
OnlyRegisterSweeps ==
    \A e \in Entries : session[e] \notin {"running", "stranded"} => sweep[e] = {}

SweepInv == ReplacedSocketsAreSwept /\ OnlyRegisterSweeps

LEMMA InitSweep == ASSUME Init PROVE SweepInv
  BY DEF Init, SweepInv, ReplacedSocketsAreSwept, OnlyRegisterSweeps, Attached

\* A listed socket is about to be closed, or its list was abandoned.
LEMMA ListedSomewhere ==
    ASSUME OnlyRegisterSweeps'
    PROVE  \A s \in Sockets, x \in Entries :
              s \in sweep'[x] => (AboutToBeClosed(s) \/ LeftUnswept(s))'
  BY DEF OnlyRegisterSweeps, AboutToBeClosed, LeftUnswept

\* Steps that replace no entry: a swept socket is ending or still on the list,
\* and whoever joins joins the registered entry.
SweepCalm ==
    /\ \A w \in Windows : current'[w] = current[w] \/ current'[w] = NoEntry
    /\ \A e \in Entries : session'[e] # "over" =>
         /\ session[e] # "over"
         /\ current'[WindowOf[e]] = current[WindowOf[e]]
              \/ current[WindowOf[e]] # e
    /\ \A e \in Entries :
         sweep'[e] # {} /\ session[e] \in {"running", "stranded"}
            => session'[e] \in {"running", "stranded"}
    /\ \A e \in Entries : sweep'[e] \subseteq sweep[e]
    /\ \A e \in Entries : \A s \in sweep[e] \ sweep'[e] : ending'[s]
    /\ \A s \in Sockets : ending[s] => ending'[s]
    /\ \A s \in Sockets : Attached(s)' =>
         \/ Attached(s) /\ target'[s] = target[s]
         \/ current'[WindowOf[target'[s]]] = target'[s]

LEMMA CalmSweep ==
    ASSUME TInv, TInv', SweepInv, SweepCalm
    PROVE  SweepInv'
  <1> USE DEF SweepCalm
  <1>2. OnlyRegisterSweeps' BY DEF SweepInv, OnlyRegisterSweeps
  <1>1. ReplacedSocketsAreSwept'
    <2> SUFFICES ASSUME NEW s \in Sockets, Attached(s)',
                        session'[target'[s]] # "over",
                        current'[WindowOf[target'[s]]] # target'[s]
                 PROVE  ending'[s] \/ \E x \in Entries : s \in sweep'[x]
      BY <1>2, ListedSomewhere DEF ReplacedSocketsAreSwept
    <2>1. Attached(s) /\ target'[s] = target[s] OBVIOUS
    <2>2. target[s] \in Entries /\ WindowOf[target[s]] \in Windows
      BY <2>1, WindowAssumption DEF TInv, Dialled, Attached
    <2>3. /\ session[target[s]] # "over"
          /\ current[WindowOf[target[s]]] # target[s]
      BY <2>1, <2>2
    <2>4. ending[s] \/ \E x \in Entries : s \in sweep[x]
      BY <2>1, <2>3
      DEF SweepInv, ReplacedSocketsAreSwept, AboutToBeClosed, LeftUnswept
    <2> QED BY <2>4
  <1> QED BY <1>1, <1>2 DEF SweepInv

LEMMA RegisterSweep ==
    ASSUME TInv, TInv', CInv, SockInv, SweepInv, NEW e \in Entries, Register(e)
    PROVE  SweepInv'
  <1> DEFINE w == WindowOf[e]
             old == current[w]
  <1>1. /\ session[e] = "new" /\ session' = [session EXCEPT ![e] = "running"]
        /\ current' = [current EXCEPT ![w] = e]
        /\ sweep' = [sweep EXCEPT ![e] =
                        IF old # NoEntry THEN subscribers[old] ELSE {}]
        /\ UNCHANGED <<subscribers, stage, target, ending>>
    BY DEF Register, attachVars, socketVars
  <1>2. w \in Windows /\ sweep[e] = {}
    BY <1>1, WindowAssumption DEF SweepInv, OnlyRegisterSweeps
  <1>3. /\ current'[w] = e /\ session'[e] = "running"
        /\ \A y \in Windows \ {w} : current'[y] = current[y]
        /\ \A x \in Entries \ {e} : /\ session'[x] = session[x]
                                    /\ sweep'[x] = sweep[x]
        /\ sweep'[e] = IF old # NoEntry THEN subscribers[old] ELSE {}
    BY <1>1, <1>2 DEF TInv, TypeOK
  <1> HIDE DEF w
  <1>5. OnlyRegisterSweeps'
    <2> SUFFICES ASSUME NEW x \in Entries,
                        session'[x] \notin {"running", "stranded"}
                 PROVE  sweep'[x] = {}
      BY DEF OnlyRegisterSweeps
    <2>1. x # e BY <1>3
    <2> QED BY <1>3, <2>1 DEF SweepInv, OnlyRegisterSweeps
  <1>4. ReplacedSocketsAreSwept'
    <2> SUFFICES ASSUME NEW s \in Sockets, Attached(s),
                        session'[target[s]] # "over",
                        current'[WindowOf[target[s]]] # target[s]
                 PROVE  ending[s] \/ \E x \in Entries : s \in sweep'[x]
      BY <1>1, <1>5, ListedSomewhere DEF ReplacedSocketsAreSwept, Attached
    <2> DEFINE y == target[s]
    <2>1. /\ y \in Entries /\ WindowOf[y] \in Windows
          /\ session[y] # "new"
      BY WindowAssumption DEF TInv, Dialled, Attached, SockInv, DialledHello
    <2>2. y # e BY <1>1, <2>1
    <2>3. session[y] # "over" BY <1>3, <2>1, <2>2
    <2>4. CASE current[WindowOf[y]] = y
      <3>1. WindowOf[y] = w BY <1>3, <2>1, <2>4
      <3>2. y = old BY <2>4, <3>1
      <3>3. old # NoEntry BY <2>1, <3>2, NullAssumption
      <3>4. s \in sweep'[e] BY <1>3, <3>2, <3>3 DEF Attached
      <3> QED BY <3>4
    <2>5. CASE current[WindowOf[y]] # y
      <3>1. ending[s] \/ \E x \in Entries : s \in sweep[x]
        BY <2>3, <2>5
        DEF SweepInv, ReplacedSocketsAreSwept, AboutToBeClosed, LeftUnswept
      <3> QED BY <1>2, <1>3, <3>1
    <2> QED BY <2>4, <2>5
  <1> QED BY <1>4, <1>5 DEF SweepInv

\* Nothing of what the sweep speaks of moves, but sockets may leave or end.
LEMMA StillSweep ==
    ASSUME TInv, TInv', SweepInv, UNCHANGED <<current, session, sweep>>,
           \A s \in Sockets : ending[s] => ending'[s],
           \A s \in Sockets : Attached(s)' =>
                Attached(s) /\ target'[s] = target[s]
    PROVE  SweepInv'
  <1>1. SweepCalm BY DEF SweepCalm
  <1> QED BY <1>1, CalmSweep

\* A cancelled session is the only one that moves.
LEMMA Strands ==
    ASSUME TInv, NEW e \in Entries, session[e] = "running",
           session' = [session EXCEPT ![e] = "stranded"]
    PROVE  \A x \in Entries : \/ session'[x] = session[x]
                              \/ session[x] = "running" /\ session'[x] = "stranded"
  <1>1. session \in [Entries -> {"new", "running", "exiting", "over", "stranded"}]
    BY DEF TInv, TypeOK
  <1> QED BY <1>1

LEMMA SweepStep ==
    ASSUME TInv, TInv', CInv, QueueInv, SockInv, SweepInv, [Next]_vars
    PROVE  SweepInv'
  <1> USE DEF registryVars, attachVars, publishVars, socketVars
  <1>1. ASSUME NEW e \in Entries, Register(e) PROVE SweepInv'
    BY <1>1, RegisterSweep
  <1>2. ASSUME NEW e \in Entries, SweepOne(e) \/ RegisterCancelled(e), CloseOne(e)
        PROVE  SweepInv'
    <2>1. PICK s \in sweep[e] :
              /\ sweep' = [sweep EXCEPT ![e] = @ \ {s}]
              /\ ending' = [ending EXCEPT ![s] = TRUE]
      BY <1>2 DEF CloseOne
    <2>2. /\ UNCHANGED <<current, subscribers, stage, target>>
          /\ session[e] = "running"
          /\ session' \in {session, [session EXCEPT ![e] = "stranded"]}
      BY <1>2 DEF SweepOne, RegisterCancelled
    <2>3. s \in Sockets BY <2>1 DEF TInv, TypeOK
    <2>4. /\ \A x \in Entries : /\ sweep'[x] \subseteq sweep[x]
                                /\ sweep[x] \ sweep'[x] \subseteq {s}
          /\ ending'[s] /\ \A x \in Sockets : ending[x] => ending'[x]
      BY <2>1, <2>3 DEF TInv, TypeOK
    <2>5. \A x \in Entries : \/ session'[x] = session[x]
                             \/ session[x] = "running" /\ session'[x] = "stranded"
      BY <2>2, Strands
    <2>6. \A x \in Sockets : Attached(x)' => Attached(x)
      BY <2>2 DEF Attached
    <2>7. SweepCalm
      <3>1. /\ \A w \in Windows : current'[w] = current[w]
            /\ \A x \in Entries : session'[x] # "over" =>
                 /\ session[x] # "over"
                 /\ current'[WindowOf[x]] = current[WindowOf[x]]
            /\ \A x \in Entries : session[x] \in {"running", "stranded"} =>
                 session'[x] \in {"running", "stranded"}
        BY <2>2, <2>5
      <3>2. /\ \A x \in Entries : sweep'[x] \subseteq sweep[x]
            /\ \A x \in Entries : \A y \in sweep[x] \ sweep'[x] : ending'[y]
            /\ \A x \in Sockets : ending[x] => ending'[x]
        BY <2>2, <2>4, <2>5
      <3>3. \A x \in Sockets : Attached(x)' => Attached(x) /\ target'[x] = target[x]
        BY <2>2, <2>6
      <3> QED BY <3>1, <3>2, <3>3 DEF SweepCalm
    <2> QED BY <2>7, CalmSweep
  <1>12. ASSUME NEW e \in Entries, RegisterCancelled(e),
                UNCHANGED <<sweep, ending>>
         PROVE  SweepInv'
    <2>1. /\ UNCHANGED <<current, subscribers, stage, target>>
          /\ session[e] = "running"
          /\ session' = [session EXCEPT ![e] = "stranded"]
      BY <1>12 DEF RegisterCancelled
    <2>2. \A x \in Entries : \/ session'[x] = session[x]
                             \/ session[x] = "running" /\ session'[x] = "stranded"
      BY <2>1, Strands
    <2>3. \A x \in Sockets : Attached(x)' => Attached(x)
      BY <2>1 DEF Attached
    <2>4. SweepCalm
      <3>1. /\ \A w \in Windows : current'[w] = current[w]
            /\ \A x \in Entries : session'[x] # "over" =>
                 /\ session[x] # "over"
                 /\ current'[WindowOf[x]] = current[WindowOf[x]]
            /\ \A x \in Entries : session[x] \in {"running", "stranded"} =>
                 session'[x] \in {"running", "stranded"}
        BY <2>1, <2>2
      <3>2. /\ \A x \in Entries : sweep'[x] \subseteq sweep[x]
            /\ \A x \in Entries : \A y \in sweep[x] \ sweep'[x] : ending'[y]
            /\ \A x \in Sockets : ending[x] => ending'[x]
        BY <1>12, <2>1, <2>2
      <3>3. \A x \in Sockets : Attached(x)' => Attached(x) /\ target'[x] = target[x]
        BY <2>1, <2>3
      <3> QED BY <3>1, <3>2, <3>3 DEF SweepCalm
    <2> QED BY <2>4, CalmSweep
  <1>3. ASSUME NEW e \in Entries, ProducerExits(e) PROVE SweepInv'
    <2>1. /\ session[e] = "running" /\ sweep[e] = {}
          /\ session' = [session EXCEPT ![e] = "exiting"]
          /\ UNCHANGED <<current, sweep, subscribers, stage, target, ending>>
      BY <1>3 DEF ProducerExits
    <2>2. /\ session'[e] = "exiting"
          /\ \A x \in Entries \ {e} : session'[x] = session[x]
      BY <2>1 DEF TInv, TypeOK
    <2>3. SweepCalm BY <2>1, <2>2 DEF SweepCalm, Attached
    <2> QED BY <2>3, CalmSweep
  <1>4. ASSUME NEW e \in Entries, ProducerEnds(e) PROVE SweepInv'
    <2>1. /\ session' = [session EXCEPT ![e] = "over"] /\ sweep[e] = {}
          /\ current' = IF current[WindowOf[e]] = e
                          THEN [current EXCEPT ![WindowOf[e]] = NoEntry]
                          ELSE current
          /\ UNCHANGED <<sweep, subscribers, stage, target, ending>>
      BY <1>4 DEF ProducerEnds, Deregister
    <2>2. /\ session'[e] = "over"
          /\ \A x \in Entries \ {e} : session'[x] = session[x]
      BY <2>1 DEF TInv, TypeOK
    <2>3. WindowOf[e] \in Windows BY WindowAssumption
    <2>4. \A w \in Windows :
              \/ current'[w] = current[w]
              \/ current'[w] = NoEntry /\ current[w] = e
      BY <2>1, <2>3 DEF TInv, TypeOK
    <2>5. ASSUME NEW x \in Entries, session'[x] # "over"
          PROVE  /\ session[x] # "over"
                 /\ \/ current'[WindowOf[x]] = current[WindowOf[x]]
                    \/ current[WindowOf[x]] # x
      <3>1. x # e BY <2>2, <2>5
      <3>2. WindowOf[x] \in Windows BY WindowAssumption
      <3> QED BY <2>2, <2>4, <2>5, <3>1, <3>2
    <2>6. \A x \in Entries : sweep'[x] # {} => session'[x] = session[x]
      BY <2>1, <2>2
    <2>7. SweepCalm BY <2>1, <2>4, <2>5, <2>6 DEF SweepCalm, Attached
    <2> QED BY <2>7, CalmSweep
  <1>5. ASSUME NEW e \in Entries, NEW s \in Sockets, BroadcastFails(e, s)
        PROVE  SweepInv'
    <2>1. /\ UNCHANGED <<current, session, sweep, stage, target, ending>>
          /\ subscribers' = [subscribers EXCEPT ![e] = @ \ {s}]
      BY <1>5 DEF BroadcastFails, Unsubscribe
    <2>2. \A x \in Entries : subscribers'[x] \subseteq subscribers[x]
      BY <2>1 DEF TInv, TypeOK
    <2>3. \A x \in Sockets : Attached(x)' => Attached(x)
      BY <2>1, <2>2 DEF Attached, TInv, Dialled
    <2> QED BY <2>1, <2>3, StillSweep
  <1>6. ASSUME NEW w \in Windows, SendRevoked(w) \/ SendView(w)
        PROVE  SweepInv'
    <2>1. UNCHANGED <<current, session, sweep, stage, target>>
      BY <1>6 DEF SendRevoked, SendView
    <2>2. /\ \A x \in Entries : subscribers'[x] \subseteq subscribers[x]
          /\ \A x \in Sockets : ending[x] => ending'[x]
      <3> DEFINE e == Head(pending[w]).entry
      <3>1. section[w].kind \in {"revoke", "send"}
        BY <1>6 DEF SendRevoked, SendView
      <3>2. e \in Entries BY <3>1, HeadTyped
      <3>3. PICK s \in section[w].socks :
                \/ UNCHANGED <<attachVars, ending>>
                \/ DropStalled(e, s)
        BY <1>6 DEF SendRevoked, SendView
      <3>4. s \in Sockets BY <3>3 DEF TInv, TypeOK, Sections
      <3> HIDE DEF e
      <3>5. CASE UNCHANGED <<attachVars, ending>> BY <3>5
      <3>6. CASE DropStalled(e, s)
        BY <3>2, <3>4, <3>6, DropDoes DEF DropOrNot
      <3> QED BY <3>3, <3>5, <3>6
    <2>3. \A x \in Sockets : Attached(x)' => Attached(x)
      BY <2>1, <2>2 DEF Attached, TInv, Dialled
    <2> QED BY <2>1, <2>2, <2>3, StillSweep
  <1>7. ASSUME NEW s \in Sockets, NEW w \in Windows, Dial(s, w)
        PROVE  SweepInv'
    <2>1. /\ UNCHANGED <<current, session, sweep, subscribers, ending>>
          /\ stage[s] = "idle"
          /\ stage' = [stage EXCEPT ![s] = "waiting"]
          /\ target' = [target EXCEPT ![s] = current[w]]
      BY <1>7 DEF Dial
    <2>2. /\ stage'[s] = "waiting"
          /\ \A x \in Sockets \ {s} : /\ stage'[x] = stage[x]
                                      /\ target'[x] = target[x]
      BY <2>1 DEF TInv, TypeOK
    <2>3. ASSUME NEW x \in Sockets, Attached(x)'
          PROVE  Attached(x) /\ target'[x] = target[x]
      <3>1. x # s BY <2>2, <2>3 DEF Attached
      <3> QED BY <2>1, <2>2, <2>3, <3>1 DEF Attached
    <2> QED BY <2>1, <2>3, StillSweep
  <1>8. ASSUME NEW s \in Sockets, EnterAttach(s) PROVE SweepInv'
    <2>1. /\ UNCHANGED <<current, session, sweep, target>>
          /\ stage[s] = "waiting"
      BY <1>8 DEF EnterAttach
    <2>2. target[s] \in Entries BY <2>1 DEF TInv, Dialled
    <2>3. CASE MayJoin(target[s])
      <3>1. /\ subscribers' =
                  [subscribers EXCEPT ![target[s]] = @ \cup {s}]
            /\ stage' = [stage EXCEPT ![s] = "telling"]
            /\ ending' = ending
            /\ current[WindowOf[target[s]]] = target[s]
        BY <1>8, <2>3 DEF EnterAttach, MayJoin, IsLive
      <3>2. /\ \A x \in Entries : subscribers'[x] \subseteq subscribers[x] \cup {s}
            /\ \A x \in Sockets \ {s} : stage'[x] = stage[x]
        BY <2>2, <3>1 DEF TInv, TypeOK
      <3>3. ASSUME NEW x \in Sockets, x # s, Attached(x)' PROVE Attached(x)
        <4>1. stage'[x] = stage[x] /\ target'[x] = target[x]
          BY <2>1, <3>2, <3>3
        <4>2. target[x] \in Entries
          BY <3>3, <4>1 DEF Attached, TInv, Dialled
        <4> QED BY <3>2, <3>3, <4>1, <4>2 DEF Attached
      <3>4. SweepCalm BY <2>1, <3>1, <3>3 DEF SweepCalm
      <3> QED BY <3>4, CalmSweep
    <2>4. CASE ~MayJoin(target[s])
      <3>1. /\ stage' = [stage EXCEPT ![s] = "gone"]
            /\ ending' = [ending EXCEPT ![s] = TRUE]
            /\ subscribers' = subscribers
        BY <1>8, <2>4 DEF EnterAttach
      <3>2. /\ \A x \in Sockets : Attached(x)' => Attached(x)
            /\ \A x \in Sockets : ending[x] => ending'[x]
        BY <2>1, <3>1 DEF Attached, TInv, TypeOK
      <3> QED BY <2>1, <3>2, StillSweep
    <2> QED BY <2>3, <2>4
  <1>9. ASSUME NEW s \in Sockets, TellAttached(s) PROVE SweepInv'
    <2>1. /\ UNCHANGED <<current, session, sweep, subscribers, ending, target>>
          /\ stage[s] = "telling"
          /\ stage' = [stage EXCEPT ![s] = "open"]
      BY <1>9 DEF TellAttached
    <2>2. \A x \in Sockets : Attached(x)' => Attached(x)
      BY <2>1 DEF Attached, TInv, TypeOK
    <2> QED BY <2>1, <2>2, StillSweep
  <1>10. ASSUME NEW s \in Sockets, SocketEnds(s) PROVE SweepInv'
    <2>1. /\ UNCHANGED <<current, session, sweep, ending, target>>
          /\ stage' = [stage EXCEPT ![s] = "gone"]
          /\ subscribers' = [subscribers EXCEPT ![target[s]] = @ \ {s}]
      BY <1>10 DEF SocketEnds, Unsubscribe
    <2>2. /\ \A x \in Entries : subscribers'[x] \subseteq subscribers[x]
          /\ \A x \in Sockets :
               stage'[x] \in {"telling", "open"} => stage'[x] = stage[x]
      BY <2>1 DEF TInv, TypeOK
    <2>3. \A x \in Sockets : Attached(x)' => Attached(x)
      BY <2>1, <2>2 DEF Attached, TInv, Dialled
    <2> QED BY <2>1, <2>3, StillSweep
  <1>11. ASSUME \/ \E w \in Windows : StartPublication(w) \/ FinishPublication(w)
                \/ \E s \in Sockets : PeerCloses(s) \/ AdmitFrame(s)
                                        \/ SendFrame(s)
                \/ \E s \in Sockets : Claim(s) \/ ReleaseFrame(s)
                \/ \E c \in Clients \cup {NoClient} : LeaseMoves(c)
                \/ \E w \in Windows : ClickTakeBack(w)
                \/ \E mine \in BOOLEAN : TakeBack(mine)
                \/ UNCHANGED vars
         PROVE  SweepInv'
    <2>1. /\ UNCHANGED <<current, session, sweep, subscribers, stage, target>>
          /\ \A x \in Sockets : ending[x] => ending'[x]
      BY <1>11 DEF StartPublication, FinishPublication, PeerCloses, AdmitFrame,
         SendFrame, Claim, ReleaseFrame, LeaseMoves, ClickTakeBack, TakeBack,
         vars, TInv, TypeOK
    <2>2. \A x \in Sockets : Attached(x)' => Attached(x) BY <2>1 DEF Attached
    <2> QED BY <2>1, <2>2, StillSweep
  <1> QED
    BY <1>1, <1>2, <1>3, <1>4, <1>5, <1>6, <1>7, <1>8, <1>9, <1>10, <1>11,
       <1>12
    DEF Next, SweepOne, RegisterCancelled

-----------------------------------------------------------------------------
PubInv == TInv /\ CInv /\ QueueInv /\ GenInv /\ SockInv /\ SweepInv

\* For every set of windows, producers, sockets and clients: what is queued,
\* published, told and still to be swept fits together.
THEOREM PublicationInvariant == Spec => []PubInv
  <1>1. Init => PubInv
    BY InitTInv, InitCInv, InitQueue, InitGen, InitSock, InitSweep DEF PubInv
  <1>2. PubInv /\ [Next]_vars => PubInv'
    <2> SUFFICES ASSUME PubInv, [Next]_vars PROVE PubInv'
      OBVIOUS
    <2>1. TInv' BY TInvStep DEF PubInv
    <2> QED
      BY <2>1, CInvStep, QueueStep, GenStep, SockStep, SweepStep DEF PubInv
  <1> QED BY <1>1, <1>2, PTL DEF Spec

\* Once no publication of a terminal is left to run, every attached socket with
\* a working connection has been told its live view; and one attached to an
\* entry that was replaced, by a sweep that was not cancelled, is closed or about
\* to be (registry._publish, register's sweep).
THEOREM SocketsRest == Spec => []SocketsRestOnTheTruth
  <1>1. PubInv => SocketsRestOnTheTruth
    <2> SUFFICES ASSUME PubInv PROVE SocketsRestOnTheTruth
      OBVIOUS
    <2> USE DEF PubInv
    <2>1. ASSUME NEW s \in Sockets, stage[s] = "open",
                 s \in subscribers[target[s]], ~ending[s],
                 pending[WindowOf[target[s]]] = <<>>
          PROVE  /\ seen[s] = View(target[s])
                 /\ published[target[s]] = View(target[s])
      <3> DEFINE w == WindowOf[target[s]]
      <3>1. target[s] \in Entries /\ w \in Windows
        BY <2>1, WindowAssumption DEF TInv, Dialled
      <3>2. Len(pending[w]) = 0 BY <2>1
      <3>3. published[target[s]] = View(target[s])
        BY <3>1, <3>2 DEF QueueInv, LiveViewComes
      <3>4. ~Sent(s) BY <2>1, <3>1 DEF Sent, TInv, Publishing
      <3>5. seen[s] = published[target[s]] BY <2>1, <3>4 DEF SockInv, Told
      <3> QED BY <3>3, <3>5
    <2>2. RestsOnLiveView BY <2>1 DEF RestsOnLiveView
    <2>3. ReplacedSocketsAreSwept BY DEF SweepInv
    <2> QED BY <2>2, <2>3 DEF SocketsRestOnTheTruth
  <1> QED BY <1>1, PublicationInvariant, PTL

\* What a step tells a socket is newer than what it was told before.
LEMMA ToldNewer ==
    ASSUME PubInv, [Next]_vars, NEW s \in Sockets, seen'[s] # seen[s]
    PROVE  seen'[s].gen > seen[s].gen
  <1> USE DEF PubInv
  <1>1. seen' # seen OBVIOUS
  <1>2. \/ \E w \in Windows : SendView(w)
        \/ \E x \in Sockets : TellAttached(x)
    <2>1. ~UNCHANGED vars BY <1>1 DEF vars, publishVars
    <2>2. /\ \A e \in Entries : /\ ~Register(e) /\ ~SweepOne(e)
                                /\ ~RegisterCancelled(e)
                                /\ ~ProducerExits(e) /\ ~ProducerEnds(e)
          /\ \A e \in Entries, x \in Sockets : ~BroadcastFails(e, x)
      BY <1>1 DEF publishVars, Register, SweepOne, RegisterCancelled,
                  CloseOne, ProducerExits, ProducerEnds,
                  BroadcastFails
    <2>3. /\ \A w \in Windows : /\ ~StartPublication(w) /\ ~SendRevoked(w)
                                /\ ~FinishPublication(w) /\ ~ClickTakeBack(w)
          /\ \A x \in Sockets, w \in Windows : ~Dial(x, w)
      BY <1>1 DEF publishVars, StartPublication, SendRevoked, FinishPublication,
                  Dial, ClickTakeBack
    <2>4. /\ \A x \in Sockets : ~EnterAttach(x) /\ ~PeerCloses(x) /\ ~SocketEnds(x)
          /\ \A x \in Sockets : ~AdmitFrame(x) /\ ~SendFrame(x)
      BY <1>1 DEF publishVars, EnterAttach, PeerCloses, SocketEnds, AdmitFrame,
                  SendFrame
    <2>5. /\ \A x \in Sockets : ~Claim(x) /\ ~ReleaseFrame(x)
          /\ \A c \in Clients \cup {NoClient} : ~LeaseMoves(c)
          /\ \A mine \in BOOLEAN : ~TakeBack(mine)
      BY <1>1 DEF publishVars, Claim, ReleaseFrame, LeaseMoves, TakeBack
    <2> QED BY <2>1, <2>2, <2>3, <2>4, <2>5 DEF Next
  <1>3. ASSUME NEW w \in Windows, SendView(w)
        PROVE  seen'[s].gen > seen[s].gen
    <2> DEFINE p == Head(pending[w])
    <2>1. section[w].kind = "send" BY <1>3 DEF SendView
    <2>2. /\ p.entry \in Entries /\ p.view.gen \in Nat
          /\ published[p.entry].gen < p.view.gen
      BY <2>1, HeadTyped
    <2>3. PICK x \in Sockets :
              /\ seen[x] = published[p.entry]
              /\ seen' = [seen EXCEPT ![x] = p.view]
      BY <1>1, <1>3, SendDoes
    <2> HIDE DEF p
    <2>4. x = s /\ seen'[s] = p.view BY <2>3 DEF TInv, TypeOK
    <2>5. published[p.entry].gen \in Nat BY <2>2, EntryTyped
    <2> QED BY <2>2, <2>3, <2>4, <2>5
  <1>4. ASSUME NEW x \in Sockets, TellAttached(x)
        PROVE  seen'[s].gen > seen[s].gen
    <2>1. /\ stage[x] = "telling"
          /\ seen' = [seen EXCEPT ![x] = published[target[x]]]
      BY <1>1, <1>4 DEF TellAttached, ToldPublished
    <2>2. x = s /\ seen'[s] = published[target[s]]
      BY <2>1 DEF TInv, TypeOK
    <2>3. target[s] \in Entries BY <2>1, <2>2 DEF TInv, Dialled
    <2>4. seen[s] = Free(0) /\ Free(0).gen = 0
      BY <2>1, <2>2 DEF SockInv, Untold, Free
    <2>5. published[target[s]].gen # 0
      BY <2>2, <2>3, <2>4 DEF QueueInv, ZeroIsFree
    <2>6. published[target[s]].gen \in Nat BY <2>3, EntryTyped
    <2> QED BY <2>2, <2>4, <2>5, <2>6
  <1> QED BY <1>2, <1>3, <1>4

\* A socket hears the views of its terminal in growing generations, whatever
\* attaches, publications and changes interleave; and a take-back releases the
\* controller its sender saw, or nobody (registry._publish, release_by_gen).
THEOREM GenerationsInOrder == Spec => GenerationsOrder
  <1>1. PubInv /\ [Next]_vars =>
            [\A s \in Sockets :
                seen'[s] # seen[s] => seen'[s].gen > seen[s].gen]_vars
    BY ToldNewer
  <1>2. PubInv /\ [Next]_vars =>
            [click # NoClick /\ click' = NoClick =>
                \A e \in Entries : controller'[e] # controller[e] =>
                    e = click.entry /\ controller[e] = click.sock]_vars
    <2>1. ASSUME PubInv, [Next]_vars, click # NoClick, click' = NoClick,
                 NEW e \in Entries, controller'[e] # controller[e]
          PROVE  e = click.entry /\ controller[e] = click.sock
      BY <2>1, TakeBackHits DEF PubInv
    <2> QED BY <2>1
  <1>3. Spec => ViewsInOrder
    BY <1>1, PublicationInvariant, PTL DEF Spec, ViewsInOrder
  <1>4. Spec => TakeBackHitsItsTarget
    BY <1>2, PublicationInvariant, PTL DEF Spec, TakeBackHitsItsTarget
  <1> QED BY <1>3, <1>4 DEF GenerationsOrder

-----------------------------------------------------------------------------
(* The other end of all this: what a page makes of what it is told of one     *)
(* terminal (ControlledView), for any controllers, losses and bounds.  MaxGen *)
(* bounds the control changes of either model.                                *)

CONSTANTS Label, None, MaxOpens, Left0
VARIABLES ctl, grid, rec, up, shown, term, sock, sizing, link, push, poll, post, opens, left

Desk == INSTANCE ControlledView

\* No view is of a control change yet to come.  After a restart gens may start
\* over, and nothing is said but that they stay within their bound.
Grids == {"desk", "phone"}
Within(n) == [label : Label \cup {"free"}, gen : 0 .. n]
Frames(n) == [t : {"control"}, v : Within(n)] \cup [t : {"resized"}, v : Grids]
Socks(n) == {None} \cup [q : Seq(Frames(n)), first : BOOLEAN, held : Grids \cup {None}, drop : BOOLEAN]
Recs(n) == {None} \cup [label : Label \cup {"free"}, gen : 0 .. n \cup {None}, unordered : BOOLEAN]
Showns(n) == {None} \cup [label : Label, gen : 0 .. n]
Polls(n) == {None} \cup [ans : Within(n) \cup {None}, old : BOOLEAN]
Answers(n) == {None} \cup [t : {"view"}, v : Within(n)] \cup [t : {"failed"}, v : {None}]
Posts(n) == {None} \cup [gen : 0 .. n, ans : Answers(n)]

Sound == left.restart = Left0.restart
Newest == IF Sound THEN ctl.gen ELSE MaxGen
Heard(n) == /\ rec \in Recs(n) /\ shown \in Showns(n) /\ sock \in Socks(n)
            /\ push \subseteq Within(n) /\ poll \in Polls(n) /\ post \in Posts(n)

\* The row of a poll under way is no older than the record, unless the record
\* was written since the poll was sent.
PollNoOlder == (/\ Sound /\ poll # None /\ poll.ans # None /\ ~poll.old
                /\ rec # None /\ rec.gen # None) => rec.gen <= poll.ans.gen
Outer == /\ ctl \in Within(MaxGen) /\ {grid, term} \subseteq Grids
         /\ {up, sizing, link} \subseteq BOOLEAN
         /\ left \in [DOMAIN Left0 -> Nat] /\ left.restart <= Left0.restart
DeskInv == Outer /\ Heard(Newest) /\ PollNoOlder

LEMMA NewestTyped ==
    ASSUME Desk!ControlledAssumption, Outer
    PROVE  Newest \in Nat /\ ctl.gen \in 0 .. Newest /\ Newest \in 0 .. MaxGen /\ ctl \in Within(Newest)
<1>1. ctl = [label |-> ctl.label, gen |-> ctl.gen] /\ ctl.label \in Label \cup {"free"} /\ ctl.gen \in 0 .. MaxGen
  BY DEF Outer, Within
<1>2. MaxGen \in Nat
  BY DEF Desk!ControlledAssumption
<1>3. Newest \in Nat /\ ctl.gen \in 0 .. Newest /\ Newest \in 0 .. MaxGen
  BY <1>1, <1>2 DEF Newest
<1>4. QED BY <1>1, <1>3 DEF Within

LEMMA FramesGrow == ASSUME NEW m \in Nat, NEW n \in Nat, m <= n
                    PROVE  Within(m) \subseteq Within(n) /\ Socks(m) \subseteq Socks(n)
<1>1. 0 .. m \subseteq 0 .. n
  OBVIOUS
<1>2. Within(m) \subseteq Within(n)
  BY <1>1 DEF Within
<1>3. Frames(m) \subseteq Frames(n)
  BY <1>2 DEF Frames
<1>4. Seq(Frames(m)) \subseteq Seq(Frames(n))
  <2>1. ASSUME NEW q \in Seq(Frames(m)) PROVE q \in Seq(Frames(n))
    <3>1. Len(q) \in Nat /\ q \in [1 .. Len(q) -> Frames(m)]
      OBVIOUS
    <3>2. q \in [1 .. Len(q) -> Frames(n)]
      BY <1>3, <3>1
    <3>3. QED BY <3>1, <3>2
  <2>2. QED BY <2>1
<1>5. Socks(m) \subseteq Socks(n)
  BY <1>4 DEF Socks
<1>6. QED BY <1>2, <1>5

\* What is within one bound is within every larger one.
LEMMA HeardGrows == ASSUME NEW m \in Nat, NEW n \in Nat, m <= n, Heard(m) PROVE Heard(n)
<1>1. 0 .. m \subseteq 0 .. n /\ Within(m) \subseteq Within(n) /\ Socks(m) \subseteq Socks(n)
  BY FramesGrow
<1>2. Recs(m) \subseteq Recs(n) /\ Showns(m) \subseteq Showns(n)
  BY <1>1 DEF Recs, Showns
<1>3. Polls(m) \subseteq Polls(n)
  BY <1>1 DEF Polls
<1>4. Answers(m) \subseteq Answers(n)
  BY <1>1 DEF Answers
<1>5. Posts(m) \subseteq Posts(n)
  BY <1>1, <1>4 DEF Posts
<1>6. QED BY <1>1, <1>2, <1>3, <1>5 DEF Heard

LEMMA SpendTyped ==
    ASSUME Desk!ControlledAssumption, Outer, NEW x \in DOMAIN Left0, Desk!Spend(x)
    PROVE  /\ left' \in [DOMAIN Left0 -> Nat] /\ left'.restart <= left.restart
           /\ x # "restart" => left'.restart = left.restart
           /\ x = "restart" => left'.restart < left.restart
<1>1. "restart" \in DOMAIN Left0 /\ left \in [DOMAIN Left0 -> Nat]
  BY DEF Outer, Desk!ControlledAssumption
<1>2. left[x] \in Nat /\ left[x] > 0 /\ left' = [left EXCEPT ![x] = left[x] - 1]
  BY <1>1 DEF Desk!Spend
<1>3. left[x] - 1 \in Nat
  BY <1>2
<1>4. left' \in [DOMAIN Left0 -> Nat] /\ left'[x] = left[x] - 1
  BY <1>1, <1>2, <1>3
<1>5. left.restart \in Nat /\ x # "restart" => left'.restart = left.restart
  BY <1>1, <1>2
<1>6. QED BY <1>2, <1>4, <1>5, <1>1

\* A new socket of the window has been told what is so now.
LEMMA AttachedTyped ==
    ASSUME NEW n \in Nat, ctl \in Within(n), grid \in Grids, NEW leaving \in BOOLEAN
    PROVE  Desk!Attached(leaving) \in Socks(n)
<1>1. Desk!ResizedFrame(grid) \in Frames(n) /\ Desk!ControlFrame(ctl) \in Frames(n)
  BY DEF Frames, Desk!ResizedFrame, Desk!ControlFrame
<1>2. <<Desk!ResizedFrame(grid), Desk!ControlFrame(ctl)>> \in Seq(Frames(n))
  BY <1>1
<1>3. QED BY <1>2 DEF Desk!Attached, Socks

\* One more frame on its way to the window.
LEMMA SentTyped ==
    ASSUME NEW n \in Nat, NEW s \in Socks(n), NEW f \in Frames(n)
    PROVE  Desk!Sent(s, f) \in Socks(n)
<1>1. CASE s = None
  BY <1>1 DEF Desk!Sent, Socks
<1>2. CASE s # None
  <2>1. s \in [q : Seq(Frames(n)), first : BOOLEAN, held : Grids \cup {None}, drop : BOOLEAN]
    BY <1>2 DEF Socks
  <2>2. Append(s.q, f) \in Seq(Frames(n))
    BY <2>1
  <2>3. QED BY <1>2, <2>1, <2>2 DEF Desk!Sent, Socks
<1>3. QED BY <1>1, <1>2

\* A view, or a free row without a gen.
RowOf(v, n) == /\ v \in [label : Label \cup {"free"}, gen : 0 .. n \cup {None}]
               /\ v.label # "free" => v.gen \in 0 .. n
LEMMA WithinIsRow == ASSUME NEW n, NEW v \in Within(n) PROVE RowOf(v, n)
BY DEF Within, RowOf

\* Applying a view keeps the bound, and marks a poll under way as older unless
\* the record stands.
LEMMA ApplyTells ==
    ASSUME Desk!ControlledAssumption, NEW n \in Nat, Heard(n), ctl \in Within(n), grid \in Grids,
           sizing \in BOOLEAN, NEW v, RowOf(v, n), NEW src, NEW s \in Socks(n),
           Desk!Apply(v, src, s)
    PROVE  /\ rec' \in Recs(n) /\ shown' \in Showns(n) /\ sock' \in Socks(n)
           /\ sizing' \in BOOLEAN /\ poll' \in Polls(n)
           /\ src = "poll" => poll' = None
           /\ poll' # None => /\ poll # None /\ poll'.ans = poll.ans
                              /\ poll'.old \/ (poll' = poll /\ rec' = rec)
           /\ rec' # rec => Desk!Accepts(v, src) /\ rec'.gen = v.gen
<1>1. /\ v.label \in Label \cup {"free"} /\ v.gen \in 0 .. n \cup {None}
      /\ v.label # "free" => v.label \in Label /\ v.gen \in 0 .. n
  BY DEF RowOf
<1>2. Desk!Attached(TRUE) \in Socks(n)
  BY AttachedTyped
<1>3. shown \in Showns(n) /\ poll \in Polls(n) /\ rec \in Recs(n)
  BY DEF Heard
<1>4. None \in Showns(n) /\ None \in Polls(n) /\ None \in Socks(n)
  BY DEF Showns, Polls, Socks
<1>5. poll # None => /\ [poll EXCEPT !.old = TRUE] \in Polls(n)
                     /\ [poll EXCEPT !.old = TRUE].ans = poll.ans
                     /\ [poll EXCEPT !.old = TRUE].old
  BY <1>3 DEF Polls
<1>6. CASE Desk!Accepts(v, src)
  <2>1. /\ rec' = [label |-> v.label, gen |-> v.gen, unordered |-> FALSE]
        /\ poll' = IF poll = None \/ src = "poll" THEN None ELSE [poll EXCEPT !.old = TRUE]
        /\ Desk!Transition(v, s)
    BY <1>6 DEF Desk!Apply
  <2>2. rec' \in Recs(n) /\ rec'.gen = v.gen
    BY <1>1, <2>1 DEF Recs
  <2>3. shown' \in Showns(n) /\ sock' \in Socks(n) /\ sizing' \in BOOLEAN
    <3>1. CASE ~up
      BY <3>1, <2>1, <1>3 DEF Desk!Transition
    <3>2. CASE up /\ v.label = "free"
      BY <3>2, <2>1, <1>2, <1>3, <1>4 DEF Desk!Transition
    <3>3. CASE up /\ v.label # "free"
      <4>1. shown' = [label |-> v.label, gen |-> v.gen] /\ sock' = None /\ sizing' = sizing
        BY <3>3, <2>1 DEF Desk!Transition
      <4>2. QED BY <4>1, <3>3, <1>1, <1>4 DEF Showns
    <3>4. QED BY <3>1, <3>2, <3>3
  <2>4. QED BY <1>4, <1>5, <1>6, <2>1, <2>2, <2>3
<1>7. CASE ~Desk!Accepts(v, src)
  <2>1. /\ rec' = rec /\ shown' = shown /\ sizing' = sizing /\ sock' = s
        /\ poll' = IF src = "poll" THEN None ELSE poll
    BY <1>7 DEF Desk!Apply
  <2>2. QED BY <2>1, <1>3, <1>4
<1>8. QED BY <1>6, <1>7

HeardNext(n) == /\ rec' \in Recs(n) /\ shown' \in Showns(n) /\ sock' \in Socks(n)
                /\ push' \subseteq Within(n) /\ poll' \in Polls(n) /\ post' \in Posts(n)

\* What a step must show when no restart comes with it.
LEMMA Settles ==
    ASSUME Desk!ControlledAssumption, DeskInv, Outer', left'.restart = left.restart,
           ctl.gen <= ctl'.gen, HeardNext(Newest'), PollNoOlder'
    PROVE  DeskInv'
<1>1. Heard(Newest)'
  BY DEF Heard, HeardNext
<1>2. QED BY <1>1 DEF DeskInv

\* While the broker's view stands, so does the bound.
LEMMA Stands ==
    ASSUME ctl' = ctl, left'.restart = left.restart
    PROVE  Newest' = Newest /\ (Sound' <=> Sound)
BY DEF Newest, Sound

\* Nothing is told that was not said before: the record and the poll stand.
LEMMA DeskQuiet ==
    ASSUME DeskInv, left'.restart = left.restart, poll' = poll,
           rec' = rec \/ rec' = None \/ (rec # None /\ rec'.gen = rec.gen)
    PROVE  PollNoOlder' /\ Desk!NeverShowsOlderStep
<1>1. PollNoOlder'
  BY DEF DeskInv, PollNoOlder, Sound
<1>2. CASE rec' = rec \/ rec' = None
  BY <1>1, <1>2 DEF Desk!NeverShowsOlderStep
<1>3. CASE rec # None /\ rec.gen # None /\ rec'.gen = rec.gen
  <2>1. rec.gen \in Nat
    BY <1>3 DEF DeskInv, Heard, Recs
  <2>2. QED BY <1>1, <2>1, <1>3 DEF Desk!NeverShowsOlderStep
<1>4. CASE rec # None /\ rec.gen = None
  BY <1>1, <1>4 DEF Desk!NeverShowsOlderStep
<1>5. QED BY <1>2, <1>3, <1>4

\* The parts of the invariant a step starts from.
LEMMA DeskParts ==
    ASSUME Desk!ControlledAssumption, DeskInv
    PROVE  /\ Newest \in Nat /\ Newest <= MaxGen /\ ctl \in Within(Newest) /\ ctl \in Within(MaxGen)
           /\ ctl.gen \in 0 .. Newest /\ grid \in Grids /\ term \in Grids
           /\ up \in BOOLEAN /\ sizing \in BOOLEAN /\ link \in BOOLEAN
           /\ left \in [DOMAIN Left0 -> Nat] /\ left.restart \in Nat /\ left.restart <= Left0.restart
           /\ Left0.restart \in Nat /\ MaxGen \in Nat
           /\ {"restart", "link", "grid", "sock", "close", "forget", "take", "lost"} = DOMAIN Left0
           /\ rec \in Recs(Newest) /\ shown \in Showns(Newest) /\ sock \in Socks(Newest)
           /\ push \subseteq Within(Newest) /\ poll \in Polls(Newest) /\ post \in Posts(Newest)
           /\ None \in Recs(Newest) /\ None \in Showns(Newest) /\ None \in Socks(Newest)
           /\ None \in Polls(Newest) /\ None \in Posts(Newest)
<1>1. Outer /\ Heard(Newest)
  BY DEF DeskInv
<1>2. /\ Newest \in Nat /\ Newest \in 0 .. MaxGen /\ MaxGen \in Nat /\ ctl \in Within(Newest)
      /\ ctl.gen \in 0 .. Newest
  BY <1>1, NewestTyped DEF Desk!ControlledAssumption
<1>3. /\ {"restart", "link", "grid", "sock", "close", "forget", "take", "lost"} = DOMAIN Left0
      /\ Left0.restart \in Nat /\ left.restart \in Nat
  BY <1>1 DEF Outer, Desk!ControlledAssumption
<1>4. QED BY <1>1, <1>2, <1>3 DEF Outer, Heard, Recs, Showns, Socks, Polls, Posts

\* A step that leaves the broker's view alone settles if what the page knows is
\* still within the bound.
LEMMA SettlesHere ==
    ASSUME Desk!ControlledAssumption, DeskInv, ctl' = ctl, left' \in [DOMAIN Left0 -> Nat],
           left'.restart = left.restart, {grid', term'} \subseteq Grids,
           {up', sizing', link'} \subseteq BOOLEAN, HeardNext(Newest), PollNoOlder'
    PROVE  DeskInv'
<1>1. Outer'
  BY DeskParts DEF Outer
<1>2. HeardNext(Newest')
  BY Stands
<1>3. ctl.gen <= ctl'.gen
  BY DeskParts
<1>4. QED BY <1>1, <1>2, <1>3, Settles

\* Sockets, grids, windows and losses tell the page nothing it was not told.
LEMMA DeskQuietSteps ==
    ASSUME Desk!ControlledAssumption, DeskInv,
           \/ Desk!ControllerResizes \/ Desk!ResizeArrives \/ Desk!LinkDies \/ Desk!LinkOpens
           \/ Desk!SocketDies \/ Desk!Close \/ Desk!Forget \/ Desk!TakeBack \/ Desk!TakeBackLost
           \/ Desk!Open \/ Desk!Redial \/ Desk!HearResized \/ UNCHANGED Desk!vars
    PROVE  DeskInv' /\ Desk!NeverShowsOlderStep
<1> DEFINE n == Newest
           SpendOther == \E x \in DOMAIN Left0 \ {"restart"} : Desk!Spend(x)
           Kept == \/ left' = left
                   \/ SpendOther
           RecKept == rec' = rec \/ rec' = None \/ (rec # None /\ rec'.gen = rec.gen)
           Shape == {grid', term'} \subseteq Grids /\ {up', sizing', link'} \subseteq BOOLEAN
<1>0. n \in Nat /\ HeardNext(n) = HeardNext(Newest)
  BY DeskParts
<1>f. \A g \in Grids : Desk!ResizedFrame(g) \in Frames(n)
  BY DEF Desk!ResizedFrame, Frames
<1>p. post # None /\ post.ans = None
        => [post EXCEPT !.ans = [t |-> "failed", v |-> None]] \in Posts(n)
  BY DeskParts DEF Posts, Answers
<1>q. sock # None => /\ sock.q \in Seq(Frames(n)) /\ sock.held \in Grids \cup {None}
                     /\ sock.first \in BOOLEAN /\ sock.drop \in BOOLEAN
                     /\ DOMAIN sock = {"q", "first", "held", "drop"}
  BY DeskParts DEF Socks
<1>a. \A l \in BOOLEAN : Desk!Attached(l) \in Socks(n)
  BY DeskParts, AttachedTyped
<1>1. SUFFICES ctl' = ctl /\ Kept /\ RecKept /\ Shape /\ poll' = poll /\ HeardNext(n)
  <2>1. ASSUME NEW x \in DOMAIN Left0 \ {"restart"}, Desk!Spend(x)
        PROVE  left' \in [DOMAIN Left0 -> Nat] /\ left'.restart = left.restart
    BY <2>1, SpendTyped DEF DeskInv
  <2>2. left' \in [DOMAIN Left0 -> Nat] /\ left'.restart = left.restart
    BY <1>1, <2>1, DeskParts
  <2>3. PollNoOlder' /\ Desk!NeverShowsOlderStep
    BY <1>1, <2>2, DeskQuiet
  <2>4. QED BY <1>1, <2>2, <2>3, SettlesHere
<1> USE DeskParts DEF HeardNext
<1>2. CASE Desk!ControllerResizes
  <2>1. sock' \in Socks(n)
    BY <1>2, <1>0, <1>f, SentTyped DEF Desk!ControllerResizes, Grids
  <2>2. QED BY <1>2, <2>1 DEF Desk!ControllerResizes, Grids
<1>3. CASE Desk!ResizeArrives
  <2>1. sock' \in Socks(n)
    BY <1>3, <1>0, <1>f, SentTyped DEF Desk!ResizeArrives, Grids
  <2>2. QED BY <1>3, <2>1 DEF Desk!ResizeArrives, Grids
<1>4. CASE Desk!LinkDies
  BY <1>4 DEF Desk!LinkDies, Desk!brokerVars, Desk!pageVars
<1>5. CASE Desk!LinkOpens
  <2>1. rec # None => [rec EXCEPT !.unordered = TRUE] \in Recs(n) /\ [rec EXCEPT !.unordered = TRUE].gen = rec.gen
    BY DEF Recs
  <2>2. QED BY <1>5, <2>1 DEF Desk!LinkOpens, Desk!brokerVars
<1>6. CASE Desk!SocketDies
  BY <1>6 DEF Desk!SocketDies, Desk!brokerVars, Desk!wireVars
<1>7. CASE Desk!Close
  BY <1>7 DEF Desk!Close, Desk!brokerVars, Desk!wireVars
<1>8. CASE Desk!Forget
  BY <1>8 DEF Desk!Forget, Desk!brokerVars, Desk!wireVars
<1>9. CASE Desk!TakeBack
  <2>1. [gen |-> shown.gen, ans |-> None] \in Posts(n)
    BY <1>9 DEF Desk!TakeBack, Showns, Posts, Answers
  <2>2. QED BY <1>9, <2>1 DEF Desk!TakeBack, Desk!brokerVars, Desk!pageVars
<1>10. CASE Desk!TakeBackLost
  BY <1>10, <1>p DEF Desk!TakeBackLost, Desk!brokerVars, Desk!pageVars
<1>11. CASE Desk!Open
  <2>1. rec # None /\ rec.label # "free" /\ rec.gen # None
          => [label |-> rec.label, gen |-> rec.gen] \in Showns(n)
    BY DEF Recs, Showns
  <2>2. shown' \in Showns(n) /\ sock' \in Socks(n) /\ sizing' \in BOOLEAN
    BY <1>11, <1>a, <2>1 DEF Desk!Open
  <2>3. QED BY <1>11, <2>2 DEF Desk!Open, Desk!brokerVars, Desk!wireVars, Grids
<1>12. CASE Desk!Redial
  <2>1. sock' \in Socks(n)
    BY <1>12, <1>a DEF Desk!Redial
  <2>2. QED BY <1>12, <2>1 DEF Desk!Redial, Desk!brokerVars, Desk!wireVars
<1>13. CASE Desk!HearResized
  <2> DEFINE f == Head(sock.q)
  <2>1. sock # None /\ sock.q # <<>> /\ f.t = "resized"
    BY <1>13 DEF Desk!HearResized
  <2>2. f \in Frames(n) /\ Tail(sock.q) \in Seq(Frames(n))
    BY <1>q, <2>1
  <2>3. f.v \in Grids
    BY <2>1, <2>2 DEF Frames
  <2>4. sock' \in Socks(n) /\ term' \in Grids
    <3>1. CASE sock.first
      <4>1. /\ sock' = [sock EXCEPT !.q = Tail(sock.q), !.first = FALSE,
                                    !.held = IF sock.drop THEN None ELSE f.v]
            /\ term' = term
        BY <1>13, <3>1 DEF Desk!HearResized
      <4>2. QED BY <4>1, <1>q, <2>1, <2>2, <2>3 DEF Socks
    <3>2. CASE ~sock.first
      <4>1. sock' = [sock EXCEPT !.q = Tail(sock.q)] /\ term' = f.v
        BY <1>13, <3>2 DEF Desk!HearResized
      <4>2. QED BY <4>1, <1>q, <2>1, <2>2, <2>3 DEF Socks
    <3>3. QED BY <3>1, <3>2
  <2>5. QED BY <1>13, <2>4 DEF Desk!HearResized, Desk!brokerVars, Desk!wireVars
<1>14. CASE UNCHANGED Desk!vars
  BY <1>14 DEF Desk!vars
<1>15. QED
  BY <1>2, <1>3, <1>4, <1>5, <1>6, <1>7, <1>8, <1>9, <1>10, <1>11, <1>12, <1>13, <1>14

\* Whoever brings a view, the page is told nothing older; a poll's row that is
\* applied must itself be no older.
LEMMA AppliedSteps ==
    ASSUME Desk!ControlledAssumption, DeskInv, ctl' = ctl, grid' = grid, left' = left, up' = up,
           link' = link, term' \in Grids, push' \subseteq Within(Newest), post' \in Posts(Newest),
           NEW v, NEW src, NEW s \in Socks(Newest), RowOf(v, Newest), Desk!Apply(v, src, s),
           (/\ src = "poll" /\ ~poll.old /\ Sound /\ rec # None /\ rec.gen # None
            /\ v.gen # None) => v.gen >= rec.gen
    PROVE  DeskInv' /\ Desk!NeverShowsOlderStep
<1>1. /\ rec' \in Recs(Newest) /\ shown' \in Showns(Newest) /\ sock' \in Socks(Newest)
      /\ sizing' \in BOOLEAN /\ poll' \in Polls(Newest)
      /\ src = "poll" => poll' = None
      /\ poll' # None => /\ poll # None /\ poll'.ans = poll.ans
                         /\ poll'.old \/ (poll' = poll /\ rec' = rec)
      /\ rec' # rec => Desk!Accepts(v, src) /\ rec'.gen = v.gen
  <2>1. Heard(Newest)
    BY DEF DeskInv
  <2>2. QED BY <2>1, DeskParts, ApplyTells
<1>2. HeardNext(Newest)
  BY <1>1 DEF HeardNext
<1>3. PollNoOlder'
  BY <1>1 DEF DeskInv, PollNoOlder, Sound
<1>4. DeskInv'
  BY <1>1, <1>2, <1>3, DeskParts, SettlesHere
<1>5. Desk!NeverShowsOlderStep
  <2>1. SUFFICES ASSUME rec # None, rec.gen # None, ~rec.unordered, rec' # rec, rec'.gen # None,
                        left'.restart = Left0.restart
                 PROVE  rec'.gen >= rec.gen
    BY DEF Desk!NeverShowsOlderStep
  <2>2. Desk!Accepts(v, src) /\ rec'.gen = v.gen /\ Sound
    BY <1>1, <2>1 DEF Sound
  <2>3. rec.gen \in Nat /\ v.gen \in Nat
    BY <2>1, <2>2, DeskParts DEF Recs, RowOf
  <2>4. CASE src = "poll"
    BY <2>1, <2>2, <2>4 DEF Desk!Accepts
  <2>5. CASE src # "poll"
    BY <2>1, <2>2, <2>3, <2>5 DEF Desk!Accepts
  <2>6. QED BY <2>4, <2>5
<1>6. QED BY <1>4, <1>5

LEMMA ViewsApplied ==
    ASSUME Desk!ControlledAssumption, DeskInv,
           Desk!PushLands \/ Desk!PollLands \/ Desk!HearControl \/ Desk!TakeBackLands
    PROVE  DeskInv' /\ Desk!NeverShowsOlderStep
<1> DEFINE n == Newest
<1>1. CASE Desk!PushLands
  <2>1. PICK v \in push : push' = push \ {v} /\ Desk!Apply(v, "push", sock)
    BY <1>1 DEF Desk!PushLands
  <2>2. RowOf(v, n) /\ push' \subseteq Within(n)
    BY <2>1, DeskParts, WithinIsRow
  <2>3. /\ ctl' = ctl /\ grid' = grid /\ left' = left /\ up' = up /\ link' = link
        /\ term' = term /\ post' = post
    BY <1>1 DEF Desk!PushLands, Desk!brokerVars
  <2>4. QED BY <2>1, <2>2, <2>3, DeskParts, AppliedSteps
<1>2. CASE Desk!PollLands
  <2> DEFINE v == Desk!Row(poll.ans)
  <2>1. poll # None /\ poll.ans \in Within(n) /\ Desk!Apply(v, "poll", sock)
    BY <1>2, DeskParts DEF Desk!PollLands, Polls
  <2>2. v.label = poll.ans.label /\ DOMAIN v = {"label", "gen"}
    BY <2>1 DEF Desk!Row, Within
  <2>3. CASE poll.ans.label # "free"
    <3>1. v = poll.ans
      BY <2>3 DEF Desk!Row
    <3>2. RowOf(v, n)
      BY <2>1, <3>1, WithinIsRow
    <3>3. (~poll.old /\ Sound /\ rec # None /\ rec.gen # None) => v.gen >= rec.gen
      <4>1. PollNoOlder /\ (poll.ans # None => rec.gen <= poll.ans.gen \/ ~(~poll.old /\ Sound /\ rec # None /\ rec.gen # None))
        BY <2>1 DEF DeskInv, PollNoOlder
      <4>2. poll.ans # None
        BY <1>2 DEF Desk!PollLands
      <4>3. rec # None /\ rec.gen # None => rec.gen \in Nat
        BY DeskParts DEF Recs
      <4>4. poll.ans.gen \in Nat
        BY <2>1 DEF Within
      <4>5. QED BY <3>1, <4>1, <4>2, <4>3, <4>4
    <3>4. /\ ctl' = ctl /\ grid' = grid /\ left' = left /\ up' = up /\ link' = link
          /\ term' = term /\ push' = push /\ post' = post
      BY <1>2 DEF Desk!PollLands, Desk!brokerVars
    <3> HIDE DEF v
    <3>5. QED BY <2>1, <3>2, <3>3, <3>4, DeskParts, AppliedSteps
  <2>4. CASE poll.ans.label = "free"
    <3>1. v.gen = IF rec # None /\ rec.label = "free" /\ ~rec.unordered THEN rec.gen ELSE None
      BY <2>1, <2>4 DEF Desk!Row, Within
    <3>2. v = [label |-> "free", gen |-> v.gen]
      BY <2>1, <2>4 DEF Desk!Row, Within
    <3>3. v.gen = None \/ (rec # None /\ v.gen = rec.gen)
      BY <3>1
    <3>4. rec # None => rec.gen \in 0 .. n \cup {None}
      BY DeskParts DEF Recs
    <3>5. /\ ctl' = ctl /\ grid' = grid /\ left' = left /\ up' = up /\ link' = link
          /\ term' = term /\ push' = push /\ post' = post
      BY <1>2 DEF Desk!PollLands, Desk!brokerVars
    <3> HIDE DEF v
    <3>6. RowOf(v, n)
      <4>1. v.gen \in 0 .. n \cup {None}
        BY <3>3, <3>4
      <4>2. QED BY <3>2, <4>1 DEF RowOf
    <3>7. (rec # None /\ rec.gen # None /\ v.gen # None) => v.gen >= rec.gen
      BY <3>3, <3>4, DeskParts
    <3>8. QED BY <2>1, <3>5, <3>6, <3>7, DeskParts, AppliedSteps
  <2>5. QED BY <2>3, <2>4
<1>3. CASE Desk!HearControl
  <2> DEFINE f == Head(sock.q)
             s == [sock EXCEPT !.q = Tail(sock.q), !.held = None]
  <2>1. sock # None /\ sock.q # <<>> /\ f.t = "control" /\ Desk!Apply(f.v, "ws", s)
    BY <1>3 DEF Desk!HearControl
  <2>2. /\ sock \in [q : Seq(Frames(n)), first : BOOLEAN, held : Grids \cup {None}, drop : BOOLEAN]
    BY <2>1, DeskParts DEF Socks
  <2>3. f \in Frames(n) /\ Tail(sock.q) \in Seq(Frames(n))
    BY <2>1, <2>2
  <2>4. f.v \in Within(n)
    BY <2>1, <2>3 DEF Frames
  <2>5. s \in Socks(n)
    BY <2>2, <2>3 DEF Socks
  <2>6. term' \in Grids
    <3>1. term' = term \/ (term' = sock.held /\ sock.held # None)
      BY <1>3 DEF Desk!HearControl
    <3>2. QED BY <3>1, <2>2, DeskParts
  <2>7. /\ ctl' = ctl /\ grid' = grid /\ left' = left /\ up' = up /\ link' = link
        /\ push' = push /\ post' = post
    BY <1>3 DEF Desk!HearControl, Desk!brokerVars
  <2>8. RowOf(f.v, n)
    BY <2>4, WithinIsRow
  <2> HIDE DEF f, s
  <2>9. QED BY <2>1, <2>5, <2>6, <2>7, <2>8, DeskParts, AppliedSteps
<1>4. CASE Desk!TakeBackLands
  <2>1. post # None /\ post.ans # None /\ post' = None
    BY <1>4 DEF Desk!TakeBackLands
  <2>2. /\ ctl' = ctl /\ grid' = grid /\ left' = left /\ up' = up /\ link' = link
        /\ term' = term /\ push' = push
    BY <1>4 DEF Desk!TakeBackLands, Desk!brokerVars
  <2>3. CASE post.ans.t = "view"
    <3>1. Desk!Apply(post.ans.v, "post", sock)
      BY <1>4, <2>3 DEF Desk!TakeBackLands
    <3>2. post.ans.v \in Within(n)
      BY <2>1, <2>3, DeskParts DEF Posts, Answers
    <3>3. RowOf(post.ans.v, n)
      BY <3>2, WithinIsRow
    <3>4. QED BY <2>1, <2>2, <3>1, <3>3, DeskParts, AppliedSteps
  <2>4. CASE post.ans.t # "view"
    <3>1. rec' = rec /\ shown' = shown /\ sock' = sock /\ sizing' = sizing /\ poll' = poll
      BY <1>4, <2>4 DEF Desk!TakeBackLands
    <3>2. HeardNext(n)
      BY <2>1, <2>2, <3>1, DeskParts DEF HeardNext
    <3>3. PollNoOlder' /\ Desk!NeverShowsOlderStep
      BY <2>2, <3>1, DeskQuiet
    <3>4. QED BY <2>2, <3>1, <3>2, <3>3, DeskParts, SettlesHere
  <2>5. QED BY <2>3, <2>4
<1>5. QED BY <1>1, <1>2, <1>3, <1>4

LEMMA PollSteps ==
    ASSUME Desk!ControlledAssumption, DeskInv, Desk!PollSent \/ Desk!PollAnswered
    PROVE  DeskInv' /\ Desk!NeverShowsOlderStep
<1>1. /\ ctl' = ctl /\ grid' = grid /\ left' = left /\ up' = up /\ link' = link /\ term' = term
      /\ push' = push /\ post' = post /\ rec' = rec /\ shown' = shown /\ sock' = sock
      /\ sizing' = sizing
  BY DEF Desk!PollSent, Desk!PollAnswered, Desk!brokerVars, Desk!pageVars
<1>2. Desk!NeverShowsOlderStep
  BY <1>1 DEF Desk!NeverShowsOlderStep
<1>3. poll' \in Polls(Newest) /\ PollNoOlder'
  <2>1. CASE Desk!PollSent
    <3>1. poll' = [ans |-> None, old |-> FALSE]
      BY <2>1 DEF Desk!PollSent
    <3>2. QED BY <3>1 DEF Polls, PollNoOlder
  <2>2. CASE Desk!PollAnswered
    <3>1. poll # None /\ poll' = [poll EXCEPT !.ans = ctl]
      BY <2>2 DEF Desk!PollAnswered
    <3>2. poll' \in Polls(Newest) /\ poll'.ans = ctl
      BY <3>1, DeskParts DEF Polls
    <3>3. (Sound /\ rec # None /\ rec.gen # None) => rec.gen <= ctl.gen
      BY DeskParts DEF Newest, Recs
    <3>4. QED BY <1>1, <3>2, <3>3 DEF PollNoOlder, Sound
  <2>3. QED BY <2>1, <2>2
<1>4. HeardNext(Newest)
  BY <1>1, <1>3, DeskParts DEF HeardNext
<1>5. QED BY <1>1, <1>2, <1>3, <1>4, DeskParts, SettlesHere

\* A change of control is newer than all that was told, and told itself.
LEMMA ChangesTold ==
    ASSUME Desk!ControlledAssumption, DeskInv, NEW l \in Label \cup {"free"}, ctl.gen < MaxGen,
           Desk!Changed([label |-> l, gen |-> ctl.gen + 1]), left' = left,
           grid' = grid, rec' = rec, up' = up, shown' = shown, term' = term, sizing' = sizing,
           link' = link, poll' = poll,
           post' = post \/ (/\ post # None
                            /\ post' = [post EXCEPT !.ans =
                                   Desk!Released([label |-> l, gen |-> ctl.gen + 1])])
    PROVE  DeskInv' /\ Desk!NeverShowsOlderStep
<1> DEFINE v == [label |-> l, gen |-> ctl.gen + 1]
           m == Newest'
<1>1. /\ ctl' = v /\ sock' = Desk!Sent(sock, Desk!ControlFrame(v))
      /\ push' = IF link THEN push \cup {v} ELSE push
  BY DEF Desk!Changed
<1>2. ctl.gen \in Nat /\ ctl'.gen = ctl.gen + 1 /\ v \in Within(MaxGen) /\ (Sound' <=> Sound)
  BY <1>1, DeskParts DEF Within, Sound
<1>3. m \in Nat /\ Newest <= m /\ v \in Within(m)
  <2>1. CASE Sound
    <3>1. Newest = ctl.gen /\ m = ctl.gen + 1
      BY <2>1, <1>2 DEF Newest
    <3>2. QED BY <3>1, <1>2 DEF Within
  <2>2. CASE ~Sound
    <3>1. Newest = MaxGen /\ m = MaxGen
      BY <2>2, <1>2 DEF Newest
    <3>2. QED BY <3>1, <1>2, DeskParts
  <2>3. QED BY <2>1, <2>2
<1>4. /\ rec \in Recs(m) /\ shown \in Showns(m) /\ sock \in Socks(m)
      /\ push \subseteq Within(m) /\ poll \in Polls(m) /\ post \in Posts(m)
  <2>1. Newest \in Nat /\ Heard(Newest)
    BY DeskParts DEF DeskInv
  <2>2. ASSUME NEW k \in Nat, Newest <= k PROVE Heard(k)
    BY <2>1, <2>2, HeardGrows
  <2> HIDE DEF m
  <2>3. Heard(m)
    BY <1>3, <2>2
  <2>4. QED BY <2>3 DEF Heard
<1> HIDE DEF m
<1>5. sock' \in Socks(m)
  <2>1. Desk!ControlFrame(v) \in Frames(m)
    BY <1>3 DEF Desk!ControlFrame, Frames
  <2>2. QED BY <1>1, <1>3, <1>4, <2>1, SentTyped
<1>6. post' \in Posts(m)
  <2>1. Desk!Released(v) \in Answers(m)
    BY <1>3 DEF Desk!Released, Answers
  <2>2. QED BY <1>4, <2>1 DEF Posts
<1>7. HeardNext(m)
  BY <1>1, <1>3, <1>4, <1>5, <1>6 DEF HeardNext
<1>8. Outer'
  BY <1>1, <1>2, DeskParts DEF Outer
<1>9. PollNoOlder' /\ Desk!NeverShowsOlderStep
  BY DeskQuiet
<1>10. ctl.gen <= ctl'.gen
  BY <1>2
<1>11. QED BY <1>7, <1>8, <1>9, <1>10, Settles DEF m

LEMMA ControlSteps ==
    ASSUME Desk!ControlledAssumption, DeskInv,
           (\E l \in Label : Desk!Claim(l)) \/ Desk!Release \/ Desk!TakeBackServed
    PROVE  DeskInv' /\ Desk!NeverShowsOlderStep
<1>1. ASSUME NEW l \in Label, Desk!Claim(l) PROVE DeskInv' /\ Desk!NeverShowsOlderStep
  BY <1>1, ChangesTold DEF Desk!Claim
<1>2. CASE Desk!Release
  BY <1>2, ChangesTold DEF Desk!Release
<1>3. CASE Desk!TakeBackServed
  <2>1. /\ post # None /\ left' = left /\ grid' = grid /\ rec' = rec /\ up' = up /\ shown' = shown
        /\ term' = term /\ sizing' = sizing /\ link' = link /\ poll' = poll
    BY <1>3 DEF Desk!TakeBackServed
  <2>2. CASE ~Desk!Free /\ ctl.gen = post.gen /\ ctl.gen < MaxGen
    BY <1>3, <2>1, <2>2, ChangesTold DEF Desk!TakeBackServed
  <2>3. CASE ~(~Desk!Free /\ ctl.gen = post.gen /\ ctl.gen < MaxGen)
    <3>1. /\ ctl' = ctl /\ sock' = sock /\ push' = push
          /\ post' = [post EXCEPT !.ans = Desk!Released(ctl)]
      BY <1>3, <2>3 DEF Desk!TakeBackServed
    <3>2. Desk!Released(ctl) \in Answers(Newest)
      BY DeskParts DEF Desk!Released, Answers
    <3>3. post' \in Posts(Newest)
      BY <2>1, <3>1, <3>2, DeskParts DEF Posts
    <3>4. HeardNext(Newest)
      BY <2>1, <3>1, <3>3, DeskParts DEF HeardNext
    <3>5. PollNoOlder' /\ Desk!NeverShowsOlderStep
      BY <2>1, DeskQuiet
    <3>6. QED BY <2>1, <3>1, <3>4, <3>5, DeskParts, SettlesHere
  <2>4. QED BY <2>2, <2>3
<1>4. QED BY <1>1, <1>2, <1>3

LEMMA RestartStep ==
    ASSUME Desk!ControlledAssumption, DeskInv, Desk!Restart
    PROVE  DeskInv' /\ Desk!NeverShowsOlderStep
<1>1. left' \in [DOMAIN Left0 -> Nat] /\ left'.restart < left.restart
  <2>1. Outer /\ Desk!Spend("restart")
    BY DEF DeskInv, Desk!Restart
  <2>2. QED BY <2>1, DeskParts, SpendTyped
<1>2. left'.restart # Left0.restart /\ left'.restart <= Left0.restart /\ Newest' = MaxGen
  BY <1>1, DeskParts DEF Newest, Sound
<1>3. PollNoOlder' /\ Desk!NeverShowsOlderStep
  BY <1>2 DEF PollNoOlder, Sound, Desk!NeverShowsOlderStep
<1>4. /\ ctl' \in Within(MaxGen) /\ grid' = "desk" /\ sock' = None /\ sizing' = FALSE
      /\ link' = FALSE /\ push' = {} /\ rec' = rec /\ up' = up /\ shown' = shown /\ term' = term
  BY DeskParts DEF Desk!Restart, Within
<1>5. Outer'
  BY <1>1, <1>2, <1>4, DeskParts DEF Outer, Grids
<1>6. /\ rec \in Recs(MaxGen) /\ shown \in Showns(MaxGen) /\ None \in Socks(MaxGen)
      /\ poll \in Polls(MaxGen) /\ post \in Posts(MaxGen) /\ None \in Polls(MaxGen)
  <2>1. Heard(MaxGen)
    BY DeskParts, HeardGrows DEF DeskInv
  <2>2. QED BY <2>1 DEF Heard, Socks, Polls
<1>7. poll' \in Polls(MaxGen)
  BY <1>6 DEF Desk!Restart
<1>8. post' \in Posts(MaxGen)
  BY <1>6 DEF Desk!Restart, Posts, Answers
<1>9. Heard(Newest)'
  BY <1>2, <1>4, <1>6, <1>7, <1>8 DEF Heard
<1>10. QED BY <1>3, <1>5, <1>9 DEF DeskInv

LEMMA DeskStep ==
    ASSUME Desk!ControlledAssumption, DeskInv, [Desk!Next]_Desk!vars
    PROVE  DeskInv' /\ Desk!NeverShowsOlderStep
<1>1. CASE Desk!Page
  BY <1>1, DeskQuietSteps, PollSteps, ViewsApplied DEF Desk!Page
<1>2. CASE Desk!Outside
  BY <1>2, DeskQuietSteps, ControlSteps, RestartStep DEF Desk!Outside
<1>3. CASE UNCHANGED Desk!vars
  BY <1>3, DeskQuietSteps
<1>4. QED BY <1>1, <1>2, <1>3 DEF Desk!Next

LEMMA DeskStart == ASSUME Desk!ControlledAssumption, Desk!Init PROVE DeskInv
<1>1. /\ ctl = [label |-> "free", gen |-> 0] /\ left = Left0 /\ rec = None /\ poll = None
      /\ post = None /\ push = {} /\ shown = None /\ sock = None
  BY DEF Desk!Init
<1>2. Left0.restart \in Nat /\ MaxGen \in Nat /\ Left0 \in [DOMAIN Left0 -> Nat]
  BY DEF Desk!ControlledAssumption
<1>3. ctl \in Within(MaxGen)
  BY <1>1, <1>2 DEF Within
<1>4. Outer
  <2>1. /\ grid = "desk" /\ term = "desk" /\ up = FALSE /\ sizing = FALSE /\ link = TRUE
    BY DEF Desk!Init
  <2>2. {grid, term} \subseteq Grids /\ {up, sizing, link} \subseteq BOOLEAN
    BY <2>1 DEF Grids
  <2>3. left.restart <= Left0.restart
    BY <1>1, <1>2
  <2>4. QED BY <1>1, <1>2, <1>3, <2>2, <2>3 DEF Outer
<1>5. Heard(Newest)
  BY <1>1 DEF Heard, Recs, Showns, Socks, Polls, Posts
<1>6. PollNoOlder
  BY <1>1 DEF PollNoOlder
<1>7. QED BY <1>4, <1>5, <1>6 DEF DeskInv

\* Nothing the page was told of a terminal, and nothing on its way to it, is of a
\* control change yet to come; and the row of a poll is no older than a record that
\* stands since the poll was sent (84b, controlViewAccept and applyControlRow).
THEOREM DeskInvariant ==
    ASSUME Desk!ControlledAssumption PROVE Desk!Spec => []DeskInv
<1>1. Desk!Init => DeskInv
  BY DeskStart
<1>2. DeskInv /\ [Desk!Next]_Desk!vars => DeskInv'
  BY DeskStep
<1>3. QED BY <1>1, <1>2, PTL DEF Desk!Spec

\* What the page has been told of a terminal is never replaced by something older of
\* the same broker run, whatever order pushes, polls, answers and frames arrive in
\* and whichever are lost (84b, controlViewAccept).
THEOREM DeskNeverShowsOlder ==
    ASSUME Desk!ControlledAssumption
    PROVE  Desk!Spec => [][Desk!NeverShowsOlderStep]_Desk!vars
<1>1. DeskInv /\ [Desk!Next]_Desk!vars => [Desk!NeverShowsOlderStep]_Desk!vars
  BY DeskStep
<1>2. QED BY <1>1, DeskInvariant, PTL DEF Desk!Spec

LEMMA DeskTypesAre == ASSUME Desk!ControlledAssumption, DeskInv PROVE Desk!TypeOK
<1>1. 0 .. Newest \subseteq 0 .. MaxGen /\ Within(Newest) \subseteq Within(MaxGen)
  BY DeskParts, FramesGrow
<1>2. Within(MaxGen) = Desk!View
  BY DEF Within, Desk!View
<1>3. ctl \in Desk!View /\ {grid, term} \subseteq {"desk", "phone"} /\ {up, sizing, link} \subseteq BOOLEAN
  BY <1>2 DEF DeskInv, Outer, Grids
<1>4. rec = None \/ rec \in [label : Label \cup {"free"}, gen : 0 .. MaxGen \cup {None}, unordered : BOOLEAN]
  BY <1>1, DeskParts DEF Recs
<1>5. shown = None \/ shown \in [label : Label, gen : 0 .. MaxGen]
  BY <1>1, DeskParts DEF Showns
<1>6. /\ push \subseteq Desk!View
      /\ poll = None \/ poll.ans = None \/ poll.ans \in Desk!View
      /\ post = None \/ post.gen \in 0 .. MaxGen
  BY <1>1, <1>2, DeskParts DEF Polls, Posts
<1>7. QED BY <1>3, <1>4, <1>5, <1>6 DEF Desk!TypeOK

\* The page's record, its window and what is on its way keep their types.
THEOREM DeskTypeCorrect == ASSUME Desk!ControlledAssumption PROVE Desk!Spec => []Desk!TypeOK
<1>1. QED BY DeskInvariant, DeskTypesAre, PTL
=============================================================================
