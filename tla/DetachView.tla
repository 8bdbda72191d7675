----------------------------- MODULE DetachView -----------------------------
(* One terminal shown by desktops of one browser and handed to a browser      *)
(* window of its own (84a_js_detached_view.js, with the attach path of 73,    *)
(* the healing loops of 75, 63 and 56 and the teardown of 84).  The broker    *)
(* serves every socket that attaches, so which page attaches is decided here: *)
(* a Web Lock held by the child, frames on a BroadcastChannel, and the        *)
(* desktop's record of the keys that are out.  Documents die, reload and lose *)
(* the lease at any point; a lock query answers before its answer is used.    *)
EXTENDS Naturals, Sequences, SequencesExt, FiniteSets

CONSTANTS Desktop, Child,
          None,       \* JavaScript's null
          Anon,       \* a record whose inst is null: found out, not yielded to
          Proxied,    \* TRUE: the host is reached through this broker, so a
                      \* dial mints a ticket first
          Left0       \* bounds: how often each thing outside may happen

DetachAssumption ==
    /\ Desktop \cap Child = {} /\ {None, Anon} \cap (Desktop \cup Child) = {}
    /\ None # Anon /\ Proxied \in BOOLEAN

VARIABLES
    kid,      \* [Child -> [pc, sock]]: one document each, DETACH_INST
    lock,     \* holder of bl-detach:<ckey>, or None
    waiters,  \* desktops queued for it by _watchRecord, in order
    win,      \* [Desktop -> the terminal's window]
    asked,    \* [Desktop -> lock queries in flight, by what asked]
    rec,      \* [Desktop -> prefs._detached[key]: inst, Anon or None]
    stored,   \* the same in localStorage, shared by the desktops
    pend,     \* [Desktop -> BOOLEAN]: key \in pendingOpens
    down,     \* desktops torn down by the loss of the lease
    chan,     \* [Desktop -> frames not heard yet]
    rel,      \* children a `released` is under way to
    ended,    \* the session exited
    left

vars == <<kid, lock, waiters, win, asked, rec, stored, pend, down, chan, rel,
          ended, left>>

Closed == [up |-> FALSE, det |-> FALSE, inst |-> None, sock |-> FALSE,
           mint |-> FALSE]
Query == {"gate", "focus", "prune"}
NoAsk == [q \in Query |-> "none"]
Frame == [t : {"claim", "ready", "bye"}, inst : Child]

Spend(x) == left[x] > 0 /\ left' = [left EXCEPT ![x] = @ - 1]

\* The browser hands a freed lock on at once: no request sees it in between.
Settled == lock # None \/ waiters = <<>>

Owner(c) == lock = c                      \* _detachIsOwner
ChildOwns == lock \in Child
Post(t, c) == chan' = [d \in Desktop |-> Append(chan[d], [t |-> t, inst |-> c])]

\* attachWebSocket: with a ticket to mint the socket comes later, and a dial
\* while one is being minted leaves it to that answer.
Dial(w) == [w EXCEPT !.sock = ~Proxied, !.mint = Proxied]

Hung(w) == [w EXCEPT !.sock = FALSE]      \* _closeWinSocket

\* Mutant: no watch is started.
NotWatched(d) == SelectSeq(waiters, LAMBDA e : e # d)

Unwatched(d) == SelectSeq(waiters, LAMBDA e : e # d)   \* _unwatchRecord
Watched(d) == Append(Unwatched(d), d)                  \* _watchRecord

SetRec(d, r) == rec' = [rec EXCEPT ![d] = r] /\ stored' = r

(* -------------------------------- child -------------------------------- *)

\* detachWindow, or a bookmark: a new document that will ask for the lock.
NewChild(c) ==
    /\ kid[c].pc = "unborn"
    /\ kid' = [kid EXCEPT ![c].pc = "booting"]
    /\ UNCHANGED <<lock, waiters, win, asked, rec, stored, pend, down, chan,
                   rel, ended, left>>

\* bootDetachedView: ifAvailable is refused by a holder, whoever that is;
\* granted, the child claims the PTY.
Acquire(c) ==
    /\ kid[c].pc = "booting" /\ Settled
    /\ IF lock = None
       THEN /\ lock' = c
            /\ kid' = [kid EXCEPT ![c].pc = "claiming"]
            /\ Post("claim", c)
       ELSE /\ kid' = [kid EXCEPT ![c].pc = "refused"]
            /\ UNCHANGED <<lock, chan>>
    /\ UNCHANGED <<waiters, win, asked, rec, stored, pend, down, rel, ended,
                   left>>

\* open() in _claimAndOpen: the window opens once the session is listed.
Opened(c) == kid' = [kid EXCEPT ![c] = [pc |-> "open", sock |-> ~ended]]

\* The desktop's `released` lands.
ReleasedLands(c) ==
    /\ c \in rel
    /\ rel' = rel \ {c}
    /\ IF kid[c].pc = "claiming" /\ Owner(c) THEN Opened(c) ELSE UNCHANGED kid
    /\ UNCHANGED <<lock, waiters, win, asked, rec, stored, pend, down, chan,
                   ended, left>>

\* Nobody answered for 700 ms: no desktop, or a slow one.
ClaimTimesOut(c) ==
    /\ kid[c].pc = "claiming"
    /\ Spend("timer")
    /\ Opened(c)
    /\ UNCHANGED <<lock, waiters, win, asked, rec, stored, pend, down, chan,
                   rel, ended>>

\* The tick of _adoptChildWindow: `ready`, every few seconds, while attached.
Ready(c) ==
    /\ kid[c].pc = "open" /\ kid[c].sock
    /\ \A d \in Desktop : \A i \in DOMAIN chan[d] : chan[d][i].inst # c
    /\ Post("ready", c)
    /\ UNCHANGED <<kid, lock, waiters, win, asked, rec, stored, pend, down,
                   rel, ended, left>>

\* The child window dials its terminal.
ChildDials(c) ==
    /\ kid[c].pc = "open" /\ ~kid[c].sock /\ ~ended
    /\ kid' = [kid EXCEPT ![c].sock = TRUE]
    /\ UNCHANGED <<lock, waiters, win, asked, rec, stored, pend, down, chan,
                   rel, ended, left>>

\* detachedChildReturn: socket first, then the frame, then the lock.
ChildReturn(c) ==
    /\ kid[c].pc = "open"
    /\ kid' = [kid EXCEPT ![c] = [pc |-> "returned", sock |-> FALSE]]
    /\ Post("bye", c)
    /\ lock' = None
    /\ UNCHANGED <<waiters, win, asked, rec, stored, pend, down, rel, ended,
                   left>>

\* _startDetachEndWatch: the session ended, the lock is let go without a frame.
EndWatch(c) ==
    /\ kid[c].pc = "open" /\ ended
    /\ kid' = [kid EXCEPT ![c] = [pc |-> "returned", sock |-> FALSE]]
    /\ lock' = None
    /\ UNCHANGED <<waiters, win, asked, rec, stored, pend, down, chan, rel,
                   ended, left>>

\* Closed, crashed, discarded or navigated away: the browser frees the lock.
ChildDies(c) ==
    /\ kid[c].pc \in {"booting", "claiming", "open", "down"}
    /\ kid' = [kid EXCEPT ![c] = [pc |-> "gone", sock |-> FALSE]]
    /\ lock' = IF lock = c THEN None ELSE lock
    /\ rel' = rel \ {c}
    /\ UNCHANGED <<waiters, win, asked, rec, stored, pend, down, chan, ended,
                   left>>

\* teardownView on the child, and rebuildDetachedView: the lock is kept.
ChildDown(c) ==
    /\ kid[c].pc = "open" /\ Spend("lease")
    /\ kid' = [kid EXCEPT ![c] = [pc |-> "down", sock |-> FALSE]]
    /\ UNCHANGED <<lock, waiters, win, asked, rec, stored, pend, down, chan,
                   rel, ended>>

\* The child comes back up and claims its record again.
ChildRebuilds(c) ==
    /\ kid[c].pc = "down"
    /\ kid' = [kid EXCEPT ![c].pc = "claiming"]
    /\ Post("claim", c)
    /\ UNCHANGED <<lock, waiters, win, asked, rec, stored, pend, down, rel,
                   ended, left>>

(* ------------------------------- desktop ------------------------------- *)

\* openWindow's tail, detachGateAttach: a recorded key is built unattached;
\* either way the lock is asked.
OpenTerm(d) ==
    /\ ~win[d].up /\ d \notin down /\ ~ended
    /\ win' = [win EXCEPT ![d] =
                 IF rec[d] # None
                 THEN [Closed EXCEPT !.up = TRUE, !.det = TRUE,
                                     !.inst = IF rec[d] = Anon THEN None
                                              ELSE rec[d]]
                 ELSE Dial([Closed EXCEPT !.up = TRUE])]
    /\ asked' = [asked EXCEPT ![d].gate = "asked"]
    /\ pend' = [pend EXCEPT ![d] = FALSE]

\* A parked open (pend) or the user's.
ParkedOpens(d) == /\ pend[d] /\ OpenTerm(d)
                  /\ UNCHANGED <<kid, lock, waiters, rec, stored, down, chan,
                                 rel, ended, left>>
UserOpens(d) == /\ ~pend[d] /\ Spend("open") /\ OpenTerm(d)
                /\ UNCHANGED <<kid, lock, waiters, rec, stored, down, chan,
                               rel, ended>>

\* AUTO_OPEN_TIMEOUT_MS: the session is not listed any more.
ParkExpires(d) ==
    /\ pend[d] /\ ended
    /\ pend' = [pend EXCEPT ![d] = FALSE]
    /\ UNCHANGED <<kid, lock, waiters, win, asked, rec, stored, down, chan,
                   rel, ended, left>>

\* _childAlive: the browser answers now, the page uses the answer later.
QueryAnswered(d, q) ==
    /\ asked[d][q] = "asked" /\ Settled
    /\ asked' = [asked EXCEPT ![d][q] = IF lock # None THEN "alive" ELSE "dead"]
    /\ UNCHANGED <<kid, lock, waiters, win, rec, stored, pend, down, chan,
                   rel, ended, left>>

\* returnDetached, after the caller's part: the record goes, the watch with
\* it; a torn-down view stops there, a closed window is opened again, a
\* window that is out dials.
ReturnDetached(d, ask) ==
    /\ waiters' = Unwatched(d)
    /\ rec' = [rec EXCEPT ![d] = None]
    /\ stored' = IF rec[d] # None THEN None ELSE stored
    /\ pend' = [pend EXCEPT ![d] = @ \/ (d \notin down /\ ~win[d].up)]
    /\ IF d \notin down /\ win[d].up /\ win[d].det
       THEN /\ win' = [win EXCEPT ![d] =
                         Dial([@ EXCEPT !.det = FALSE, !.inst = None])]
            /\ asked' = [asked EXCEPT ![d] = [ask EXCEPT !.gate = "none"]]
       ELSE asked' = [asked EXCEPT ![d] = ask] /\ UNCHANGED win

\* detachGateAttach's answer; a move of the window meanwhile (detachGen) has
\* dropped it, see Yield and ReturnDetached.
GateLands(d) ==
    LET ask == [asked[d] EXCEPT !.gate = "none"] IN
    /\ asked[d].gate \in {"alive", "dead"}
    /\ \/ /\ asked[d].gate = "alive"
          /\ waiters' = Watched(d)
          /\ asked' = [asked EXCEPT ![d] = ask]
          /\ IF win[d].det THEN UNCHANGED <<win, rec, stored>>
             ELSE /\ win' = [win EXCEPT ![d] = [Hung(@) EXCEPT !.det = TRUE]]
                  /\ SetRec(d, Anon)
          /\ UNCHANGED pend
       \/ /\ asked[d].gate = "dead" /\ win[d].det
          /\ ReturnDetached(d, ask)
       \/ /\ asked[d].gate = "dead" /\ ~win[d].det
          /\ asked' = [asked EXCEPT ![d] = ask]
          /\ UNCHANGED <<waiters, win, rec, stored, pend>>
    /\ UNCHANGED <<kid, lock, down, chan, rel, ended, left>>

\* restoreWindow on a window that is out: focusDetachedChild asks the lock ...
RestoreClick(d) ==
    /\ win[d].up /\ win[d].det /\ asked[d].focus = "none"
    /\ Spend("focus")
    /\ asked' = [asked EXCEPT ![d].focus = "asked"]
    /\ UNCHANGED <<kid, lock, waiters, win, rec, stored, pend, down, chan,
                   rel, ended>>

\* ... and takes the terminal back when no child was alive.
FocusLands(d) ==
    LET ask == [asked[d] EXCEPT !.focus = "none"] IN
    /\ asked[d].focus \in {"alive", "dead"}
    /\ IF asked[d].focus = "dead" /\ win[d].det THEN ReturnDetached(d, ask)
       ELSE /\ asked' = [asked EXCEPT ![d] = ask]
            /\ UNCHANGED <<waiters, win, rec, stored, pend>>
    /\ UNCHANGED <<kid, lock, down, chan, rel, ended, left>>

\* pruneDetachedSet, asked at boot of a key with no window.
PruneLands(d) ==
    /\ asked[d].prune \in {"alive", "dead"}
    /\ asked' = [asked EXCEPT ![d].prune = "none"]
    /\ IF asked[d].prune = "dead" THEN SetRec(d, None)
       ELSE UNCHANGED <<rec, stored>>
    /\ UNCHANGED <<kid, lock, waiters, win, pend, down, chan, rel, ended, left>>

\* Mutant: the generation is not moved, an answer under way still counts.
YieldSameGen(d, m) ==
    LET c == m.inst IN
    /\ IF win[d].up /\ ~(win[d].det /\ win[d].inst = c)
       THEN /\ win' = [win EXCEPT ![d] =
                         [Hung(@) EXCEPT !.det = TRUE, !.inst = c]]
            /\ SetRec(d, c)
            /\ waiters' = Watched(d)
       ELSE UNCHANGED <<win, rec, stored, waiters>>
    /\ rel' = IF win[d].up \/ m.t = "claim" THEN rel \cup {c} ELSE rel
    /\ UNCHANGED <<asked, pend>>

\* Mutant: only a claim is yielded to.
YieldToClaims(d, m) ==
    LET c == m.inst IN
    /\ IF m.t = "claim" /\ win[d].up /\ ~(win[d].det /\ win[d].inst = c)
       THEN /\ win' = [win EXCEPT ![d] =
                         [Hung(@) EXCEPT !.det = TRUE, !.inst = c]]
            /\ asked' = [asked EXCEPT ![d].gate = "none"]
            /\ SetRec(d, c)
            /\ waiters' = Watched(d)
       ELSE UNCHANGED <<win, asked, rec, stored, waiters>>
    /\ rel' = IF win[d].up \/ m.t = "claim" THEN rel \cup {c} ELSE rel
    /\ UNCHANGED pend

\* _yieldToChild, for a claim or a ready.
Yield(d, m) ==
    LET c == m.inst IN
    /\ IF win[d].up /\ ~(win[d].det /\ win[d].inst = c)
       THEN /\ win' = [win EXCEPT ![d] =
                         [Hung(@) EXCEPT !.det = TRUE, !.inst = c]]
            /\ asked' = [asked EXCEPT ![d].gate = "none"]
            /\ SetRec(d, c)
            /\ waiters' = Watched(d)
       ELSE UNCHANGED <<win, asked, rec, stored, waiters>>
    /\ rel' = IF win[d].up \/ m.t = "claim" THEN rel \cup {c} ELSE rel
    /\ UNCHANGED pend

\* `bye`: from the instance yielded to, or the one the record of a closed
\* window names.
Bye(d, c) ==
    /\ IF \/ win[d].up /\ win[d].det /\ win[d].inst = c
          \/ ~win[d].up /\ rec[d] = c
       THEN ReturnDetached(d, asked[d])
       ELSE UNCHANGED <<win, asked, rec, stored, waiters, pend>>
    /\ UNCHANGED rel

\* A frame of the channel reaches the desktop.
HearFrame(d) ==
    /\ chan[d] # <<>>
    /\ chan' = [chan EXCEPT ![d] = Tail(@)]
    /\ LET m == Head(chan[d]) IN
       IF m.t = "bye" THEN Bye(d, m.inst) ELSE Yield(d, m)
    /\ UNCHANGED <<kid, lock, down, ended, left>>

\* The queued request is granted the moment the lock is free ...
Grant ==
    /\ lock = None /\ waiters # <<>>
    /\ lock' = Head(waiters) /\ waiters' = Tail(waiters)
    /\ UNCHANGED <<kid, win, asked, rec, stored, pend, down, chan, rel, ended,
                   left>>

\* ... and let go in the page; its verdict counts while the record stands.
Granted(d) ==
    /\ lock = d /\ lock' = None
    /\ IF rec[d] # None THEN ReturnDetached(d, asked[d])
       ELSE UNCHANGED <<win, asked, rec, stored, waiters, pend>>
    /\ UNCHANGED <<kid, down, chan, rel, ended, left>>

\* 75's healing loop: only a window that is not out.
Heal(d) ==
    /\ win[d].up /\ ~win[d].det /\ ~win[d].sock /\ ~win[d].mint
    /\ d \notin down /\ ~ended
    /\ win' = [win EXCEPT ![d] = Dial(@)]
    /\ UNCHANGED <<kid, lock, waiters, asked, rec, stored, pend, down, chan,
                   rel, ended, left>>

\* An accepted login re-dials its host's windows that have no socket (63).
LoginHeals(d) ==
    /\ Spend("login")
    /\ win[d].up /\ ~win[d].sock
    /\ win' = [win EXCEPT ![d] = Dial(@)]
    /\ UNCHANGED <<kid, lock, waiters, asked, rec, stored, pend, down, chan,
                   rel, ended>>

\* switchHostMode re-dials all of them (rehomeHostSockets, 56).
Rehome(d) ==
    /\ Spend("rehome")
    /\ win[d].up
    /\ win' = [win EXCEPT ![d] = Dial(@)]
    /\ UNCHANGED <<kid, lock, waiters, asked, rec, stored, pend, down, chan,
                   rel, ended>>

\* The ticket came: attachWebSocket again, which asks for everything but
\* whether the window is out.  Or it was refused, and healing tries later.
TicketComes(d) ==
    /\ win[d].mint
    /\ \E ok \in BOOLEAN :
         win' = [win EXCEPT ![d].mint = FALSE, ![d].sock = ok]
    /\ UNCHANGED <<kid, lock, waiters, asked, rec, stored, pend, down, chan,
                   rel, ended, left>>

SocketDies(d) ==
    /\ win[d].sock /\ Spend("drop")
    /\ win' = [win EXCEPT ![d].sock = FALSE]
    /\ UNCHANGED <<kid, lock, waiters, asked, rec, stored, pend, down, chan,
                   rel, ended>>

\* The window leaves the desktop's map.
Unmapped(d) ==
    /\ win' = [win EXCEPT ![d] = Closed]
    /\ asked' = [asked EXCEPT ![d].gate = "none", ![d].focus = "none"]

\* closeWindow: the record and the watch outlive the window.
CloseWin(d) ==
    /\ win[d].up /\ Spend("close")
    /\ Unmapped(d)
    /\ UNCHANGED <<kid, lock, waiters, rec, stored, pend, down, chan, rel, ended>>

\* teardownView and rebuildView; what was open is opened again (pend).
Teardown(d) ==
    /\ d \notin down /\ Spend("lease")
    /\ down' = down \cup {d}
    /\ Unmapped(d)
    /\ pend' = [pend EXCEPT ![d] = FALSE]
    /\ UNCHANGED <<kid, lock, waiters, rec, stored, chan, rel, ended>>

\* The desktop comes back up; a window it had open is pending again.
Rebuild(d) ==
    /\ d \in down
    /\ down' = down \ {d}
    /\ \E open \in BOOLEAN : pend' = [pend EXCEPT ![d] = open]
    /\ UNCHANGED <<kid, lock, waiters, win, asked, rec, stored, chan, rel,
                   ended, left>>

\* The desktop's document is replaced: only localStorage survives.
Reload(d) ==
    /\ Spend("reload")
    /\ win' = [win EXCEPT ![d] = Closed]
    /\ rec' = [rec EXCEPT ![d] = stored]
    /\ \E open \in BOOLEAN :
         /\ pend' = [pend EXCEPT ![d] = open]
         /\ asked' = [asked EXCEPT ![d] =
              [NoAsk EXCEPT !.prune = IF stored # None /\ ~open THEN "asked"
                                      ELSE "none"]]
    /\ chan' = [chan EXCEPT ![d] = <<>>]
    /\ waiters' = Unwatched(d)
    /\ lock' = IF lock = d THEN None ELSE lock
    /\ down' = down \ {d}
    /\ UNCHANGED <<kid, stored, rel, ended>>

\* The session exits: attached windows hear it, the poll reaps the others.
SessionEnds ==
    /\ ~ended /\ Spend("end")
    /\ ended' = TRUE
    /\ kid' = [c \in Child |-> [kid[c] EXCEPT !.sock = FALSE]]
    /\ UNCHANGED <<lock, waiters, win, asked, rec, stored, pend, down, chan, rel>>

\* The desktop's heartbeat closes the window of a session that ended.
Reaped(d) ==
    /\ ended /\ win[d].up
    /\ Unmapped(d)
    /\ UNCHANGED <<kid, lock, waiters, rec, stored, pend, down, chan, rel,
                   ended, left>>

Init ==
    /\ kid = [c \in Child |-> [pc |-> "unborn", sock |-> FALSE]]
    /\ lock = None /\ waiters = <<>>
    /\ win = [d \in Desktop |-> Dial([Closed EXCEPT !.up = TRUE])]
    /\ asked = [d \in Desktop |-> [NoAsk EXCEPT !.gate = "asked"]]
    /\ rec = [d \in Desktop |-> None] /\ stored = None
    /\ pend = [d \in Desktop |-> FALSE] /\ down = {}
    /\ chan = [d \in Desktop |-> <<>>] /\ rel = {}
    /\ ended = FALSE /\ left = Left0

ChildStep(c) ==
    \/ NewChild(c) \/ Acquire(c) \/ ReleasedLands(c) \/ ClaimTimesOut(c)
    \/ Ready(c) \/ ChildDials(c) \/ ChildReturn(c) \/ EndWatch(c)
    \/ ChildDies(c) \/ ChildDown(c) \/ ChildRebuilds(c)

DesktopStep(d) ==
    \/ ParkedOpens(d) \/ UserOpens(d) \/ ParkExpires(d)
    \/ \E q \in Query : QueryAnswered(d, q)
    \/ GateLands(d) \/ RestoreClick(d) \/ FocusLands(d) \/ PruneLands(d)
    \/ HearFrame(d) \/ Granted(d) \/ Heal(d) \/ LoginHeals(d) \/ Rehome(d)
    \/ TicketComes(d) \/ SocketDies(d) \/ CloseWin(d) \/ Teardown(d)
    \/ Rebuild(d) \/ Reload(d) \/ Reaped(d)

Next ==
    \/ \E c \in Child : ChildStep(c)
    \/ \E d \in Desktop : DesktopStep(d)
    \/ Grant \/ SessionEnds

Spec == Init /\ [][Next]_vars

\* What waits for the desktop's next turn, frames apart.
Turn(d) == \/ ParkedOpens(d) \/ Granted(d) \/ GateLands(d) \/ FocusLands(d)
           \/ \E q \in Query : QueryAnswered(d, q)

(* ------------------------------ properties ----------------------------- *)

TypeOK ==
    /\ kid \in [Child -> [pc : {"unborn", "booting", "claiming", "open",
                                "down", "refused", "returned", "gone"},
                          sock : BOOLEAN]]
    /\ lock \in Desktop \cup Child \cup {None}
    /\ waiters \in Seq(Desktop) /\ Len(waiters) <= Cardinality(Desktop)
    /\ win \in [Desktop -> [up : BOOLEAN, det : BOOLEAN, sock : BOOLEAN,
                            mint : BOOLEAN, inst : Child \cup {None}]]
    /\ asked \in [Desktop -> [Query -> {"none", "asked", "alive", "dead"}]]
    /\ rec \in [Desktop -> Child \cup {None, Anon}]
    /\ stored \in Child \cup {None, Anon}
    /\ pend \in [Desktop -> BOOLEAN] /\ down \subseteq Desktop
    /\ chan \in [Desktop -> Seq(Frame)] /\ rel \subseteq Child

\* A desktop that attaches, or is about to, while a child that is attached owns
\* the terminal: both xterms answer its queries ("Two attached xterms are two
\* WRITERS", 84a:6).  A window marked as out is not counted here, the yield
\* passes it over: see StaysAwayStep.
BesideTheOwner(d) ==
    /\ win[d].up /\ ~win[d].det /\ win[d].sock
    /\ ChildOwns /\ kid[lock].pc = "open" /\ kid[lock].sock

\* A desktop that has yielded to a child dials no socket while that child owns
\* the terminal ("which PAGE is allowed to be attached, and the answer is
\* exactly one at a time", 84a:5).  The logins and re-homes of 63 and 56, a
\* ticket under way (73) and a restore click's late answer break it.
StaysAwayStep ==
    \A d \in Desktop :
         win[d].det /\ ~win[d].sock /\ win[d].inst # None /\ lock = win[d].inst
         => ~win'[d].sock /\ (win'[d].mint => win[d].mint)

\* A restore click's answer is used whatever moved since it was asked.
LateRestore(d) == asked[d].focus = "dead" /\ asked'[d].focus = "none"

\* A desktop never takes the terminal back from the instance it yielded to
\* while that instance still owns it, whichever answer, frame or grant it acts
\* on; but for the answer to a restore click, which no detachGen guards.
TakesBackOnlyFromTheGoneStep ==
    \A d \in Desktop :
         win[d].up /\ win[d].det /\ win[d].inst # None
         /\ win'[d].up /\ ~win'[d].det
         => lock # win[d].inst \/ LateRestore(d)

\* A window that is out while no child owns its terminal, or the record of one
\* the desktop closed meanwhile.
Stranded(d) == ~ChildOwns /\ IF win[d].up THEN win[d].det ELSE rec[d] # None
=============================================================================
