----------------------------- MODULE DriveRights -----------------------------
(***************************************************************************)
(* What terminal control promises, without sockets' lives, publication or  *)
(* locks: at any moment one party may drive a terminal.  It is the owner   *)
(* if there is one, else any watcher of the browser that holds the lease;  *)
(* a watcher that lost the terminal stays silent until it owns it again;   *)
(* and a terminal that is over is never owned again.  A frame counts in    *)
(* the very step that hands it to the producer.                            *)
(***************************************************************************)
CONSTANTS Entries, Sockets, Clients, ClientOf, NoClient, NoEntry, Nobody

VARIABLES
    owner,      \* who controls each terminal
    over,       \* the terminals that are dying or dead
    silenced,   \* watchers that lost a terminal and have not owned it since
    lease,      \* the client that drives what nobody owns
    drove       \* the frame delivered by the last step

vars == <<owner, over, silenced, lease, drove>>

NoDrive == [entry |-> NoEntry, sock |-> Nobody]

Init ==
    /\ owner = [e \in Entries |-> Nobody]
    /\ over = [e \in Entries |-> FALSE]
    /\ silenced = [e \in Entries |-> {}]
    /\ lease = NoClient
    /\ drove = NoDrive

\* s takes a living terminal; the previous owner, if it still watches, is
\* silenced.
Take(e, s) ==
    /\ ~over[e]
    /\ owner' = [owner EXCEPT ![e] = s]
    /\ \E quiet \in SUBSET {owner[e]} :
          silenced' = [silenced EXCEPT ![e] =
                            (@ \cup (quiet \ {Nobody})) \ {s}]
    /\ UNCHANGED <<over, lease>>
    /\ drove' = NoDrive

\* The owner is out: of its own will, silenced by the desktop, or gone.
Free(e) ==
    /\ owner' = [owner EXCEPT ![e] = Nobody]
    /\ \E quiet \in SUBSET {owner[e]} :
          silenced' = [silenced EXCEPT ![e] = @ \cup (quiet \ {Nobody})]
    /\ UNCHANGED <<over, lease>>
    /\ drove' = NoDrive

\* A watcher leaves, and with it what it owned.
Leave(e, s) ==
    /\ owner' = [owner EXCEPT ![e] = IF @ = s THEN Nobody ELSE @]
    /\ silenced' = [silenced EXCEPT ![e] = @ \ {s}]
    /\ UNCHANGED <<over, lease>>
    /\ drove' = NoDrive

\* The terminal is over; its owner is out now, or a moment later.
End(e) ==
    /\ over' = [over EXCEPT ![e] = TRUE]
    /\ owner' \in {owner, [owner EXCEPT ![e] = Nobody]}
    /\ UNCHANGED <<silenced, lease>>
    /\ drove' = NoDrive

LeaseMoves ==
    /\ lease' \in Clients \cup {NoClient}
    /\ UNCHANGED <<owner, over, silenced>>
    /\ drove' = NoDrive

\* Nothing happens, but the last frame is not a new one.
Forget == UNCHANGED <<owner, over, silenced, lease>> /\ drove' = NoDrive

Drive(e, s) ==
    /\ s \notin silenced[e]
    /\ \/ owner[e] = s
       \/ owner[e] = Nobody /\ lease = ClientOf[s] /\ lease # NoClient
    /\ drove' = [entry |-> e, sock |-> s]
    /\ UNCHANGED <<owner, over, silenced, lease>>

Next ==
    \/ \E e \in Entries, s \in Sockets : Take(e, s) \/ Leave(e, s) \/ Drive(e, s)
    \/ \E e \in Entries : Free(e) \/ End(e)
    \/ LeaseMoves \/ Forget

Spec == Init /\ [][Next]_vars
=============================================================================
