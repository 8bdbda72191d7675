--------------------------- MODULE ControlledView ---------------------------
(* What the page knows of who drives one terminal (84b_js_controlled_view.js, *)
(* with the socket handlers of 73, the pushes of 64 and the poll rows of 75). *)
(* Four channels tell it: the window's own socket, pushes on the control      *)
(* socket (ordered by gen, not by arrival), the poll's rows and the answer to *)
(* Take back.  A controlled window has no socket, so it must learn of its     *)
(* release from the others, and must neither show an older view over a newer  *)
(* one nor take the controller's grid.                                        *)
EXTENDS Naturals, Sequences, FiniteSets

CONSTANTS Label,      \* who may claim the terminal from outside
          None,
          MaxGen,     \* bound on control changes
          MaxOpens,   \* bound on windows opened, and on reconnects
          Left0       \* bounds on restarts, losses and grids set

ControlledAssumption ==
    /\ "free" \notin Label /\ None \notin Label \cup {"free"}
    /\ {MaxGen, MaxOpens} \subseteq Nat
    /\ Left0 \in [{"restart", "link", "grid", "sock", "close", "forget", "take", "lost"} -> Nat]

VARIABLES
    ctl,     \* the broker's view: [label, gen], "free" when nobody drives
    grid,    \* the PTY's grid: whose it is, "desk" or "phone"
    rec,     \* terminalControl[key] or None: a view, `gen` None for "no
             \* baseline", and `unordered`
    up,      \* the terminal has a window
    shown,   \* win.controlled: [label, gen] or None
    term,    \* the xterm's grid
    sock,    \* the window's socket or None: frames under way, and what it
             \* did with its first `resized`
    sizing,  \* a resize of this page is on its way to the broker
    link,    \* the control socket is up
    push,    \* terminal_control frames under way on it
    poll,    \* the poll under way or None: its answer, and whether the record
             \* was written since it was sent
    post,    \* Take back under way or None: the gen it names, its answer
    opens, left

vars == <<ctl, grid, rec, up, shown, term, sock, sizing, link, push, poll,
          post, opens, left>>
brokerVars == <<ctl, grid>>
pageVars == <<rec, up, shown, term, sock, sizing>>
wireVars == <<link, push, poll, post>>

Free == ctl.label = "free"
Spend(x) == left[x] > 0 /\ left' = [left EXCEPT ![x] = @ - 1]

ControlFrame(v) == [t |-> "control", v |-> v]
ResizedFrame(g) == [t |-> "resized", v |-> g]
Sent(s, f) == IF s = None THEN None ELSE [s EXCEPT !.q = Append(@, f)]

\* A socket as the relay greets it: the grid, then who drives.
Attached(leaving) ==
    [q |-> <<ResizedFrame(grid), ControlFrame(ctl)>>, first |-> TRUE,
     held |-> None, drop |-> leaving]

(* ------------------------------- the record ---------------------------- *)

\* Mutant: the order of arrival is trusted.
AcceptsAny(v, src) == src # "poll" \/ ~poll.old
\* controlViewAccept.
Accepts(v, src) ==
    \/ rec = None
    \/ src = "poll" /\ ~poll.old
    \/ src # "poll" /\ (rec.gen = None \/ rec.unordered)
    \/ src # "poll" /\ rec.gen # None /\ v.gen > rec.gen

\* transitionControlledWindow: entering closes the socket first; leaving
\* clears first and then attaches again, its first `resized` not applied.
Transition(v, s) ==
    IF ~up THEN UNCHANGED <<shown, sizing>> /\ sock' = s
    ELSE IF v.label = "free"
    THEN IF shown = None THEN UNCHANGED <<shown, sizing>> /\ sock' = s
         ELSE /\ shown' = None
              /\ sock' = Attached(TRUE)
              /\ sizing' = TRUE
    ELSE /\ shown' = [label |-> v.label, gen |-> v.gen]
         /\ sock' = None
         /\ UNCHANGED sizing

\* applyControlView: record, then the window.  `s` is the window's socket
\* after what the caller did with it.
Apply(v, src, s) ==
    IF Accepts(v, src)
    THEN /\ rec' = [label |-> v.label, gen |-> v.gen, unordered |-> FALSE]
         /\ poll' = IF poll = None \/ src = "poll" THEN None
                    ELSE [poll EXCEPT !.old = TRUE]
         /\ Transition(v, s)
    ELSE /\ UNCHANGED <<rec, shown, sizing>>
         /\ poll' = IF src = "poll" THEN None ELSE poll
         /\ sock' = s

(* ------------------------------- outside ------------------------------- *)

\* Every change is told to the terminal's sockets and pushed.
Changed(v) ==
    /\ ctl' = v
    /\ sock' = Sent(sock, ControlFrame(v))
    /\ push' = IF link THEN push \cup {v} ELSE push

\* A controller attaches, or replaces another: a new generation.
Claim(l) ==
    /\ ctl.gen < MaxGen
    /\ Changed([label |-> l, gen |-> ctl.gen + 1])
    /\ UNCHANGED <<grid, rec, up, shown, term, sizing, link, poll, post, opens, left>>

\* The controller leaves: free, in a new generation.
Release ==
    /\ ~Free /\ ctl.gen < MaxGen
    /\ Changed([label |-> "free", gen |-> ctl.gen + 1])
    /\ UNCHANGED <<grid, rec, up, shown, term, sizing, link, poll, post, opens, left>>

\* The controller sets its grid.
ControllerResizes ==
    /\ ~Free /\ grid # "phone" /\ Spend("grid")
    /\ grid' = "phone"
    /\ sock' = Sent(sock, ResizedFrame("phone"))
    /\ UNCHANGED <<ctl, rec, up, shown, term, sizing, link, push, poll, post,
                   opens>>

\* This page's resize arrives; a controlled terminal does not take it.
ResizeArrives ==
    /\ sizing
    /\ sizing' = FALSE
    /\ IF Free
       THEN /\ grid' = "desk"
            /\ sock' = Sent(sock, ResizedFrame("desk"))
       ELSE UNCHANGED <<grid, sock>>
    /\ UNCHANGED <<ctl, rec, up, shown, term, link, push, poll, post, opens, left>>

\* A broker restart: nobody drives, gens start over from its clock, every
\* socket dies.
Restart ==
    /\ Spend("restart")
    /\ \E g \in {0, ctl.gen + 1} : g <= MaxGen /\ ctl' = [label |-> "free", gen |-> g]
    /\ grid' = "desk"
    /\ sock' = None /\ sizing' = FALSE
    /\ link' = FALSE /\ push' = {}
    /\ poll' = IF poll # None /\ poll.ans = None THEN None ELSE poll
    /\ post' = IF post # None /\ post.ans = None
               THEN [post EXCEPT !.ans = [t |-> "failed", v |-> None]] ELSE post
    /\ UNCHANGED <<rec, up, shown, term, opens>>

\* A push that cannot be delivered in time closes the control socket (1012).
LinkDies ==
    /\ link /\ Spend("link")
    /\ link' = FALSE /\ push' = {}
    /\ UNCHANGED <<brokerVars, pageVars, poll, post, opens>>

(* -------------------------------- page --------------------------------- *)

\* A new control socket: resetControlBaselines.
LinkOpens ==
    /\ ~link
    /\ link' = TRUE
    /\ rec' = IF rec = None THEN None ELSE [rec EXCEPT !.unordered = TRUE]
    /\ UNCHANGED <<brokerVars, up, shown, term, sock, sizing, push, poll, post,
                   opens, left>>

\* A push arrives; pushes keep no order among themselves, or with the polls.
PushLands ==
    \E v \in push :
        /\ push' = push \ {v}
        /\ Apply(v, "push", sock)
        /\ UNCHANGED <<brokerVars, up, term, link, post, opens, left>>

\* The session poll, and what it found when it lands.
PollSent ==
    /\ poll = None
    /\ poll' = [ans |-> None, old |-> FALSE]
    /\ UNCHANGED <<brokerVars, pageVars, link, push, post, opens, left>>

PollAnswered ==
    /\ poll # None /\ poll.ans = None
    /\ poll' = [poll EXCEPT !.ans = ctl]
    /\ UNCHANGED <<brokerVars, pageVars, link, push, post, opens, left>>

\* applyControlRow: a free row has no gen; it keeps an ordered free record's.
Row(v) ==
    IF v.label # "free" THEN v
    ELSE [v EXCEPT !.gen = IF rec # None /\ rec.label = "free" /\ ~rec.unordered
                           THEN rec.gen ELSE None]

\* Mutant: a free row says nothing.
PollLandsControlled ==
    /\ poll # None /\ poll.ans # None
    /\ IF poll.ans.label # "free" THEN Apply(Row(poll.ans), "poll", sock)
       ELSE poll' = None /\ UNCHANGED <<rec, shown, sock, sizing>>
    /\ UNCHANGED <<brokerVars, up, term, link, push, post, opens, left>>

\* The row of a poll lands.
PollLands ==
    /\ poll # None /\ poll.ans # None
    /\ Apply(Row(poll.ans), "poll", sock)
    /\ UNCHANGED <<brokerVars, up, term, link, push, post, opens, left>>

\* openWindow with seedControlledWindow: built greyed and unattached when the
\* record says so and has a gen, else attached.
Open ==
    /\ ~up /\ opens < MaxOpens
    /\ up' = TRUE /\ opens' = opens + 1 /\ term' = "desk"
    /\ IF rec # None /\ rec.label # "free" /\ rec.gen # None
       THEN /\ shown' = [label |-> rec.label, gen |-> rec.gen]
            /\ sock' = None /\ UNCHANGED sizing
       ELSE /\ shown' = None
            /\ sock' = Attached(FALSE) /\ sizing' = TRUE
    /\ UNCHANGED <<brokerVars, rec, wireVars, left>>

\* The healing loop: attachWebSocket refuses a controlled window.
Redial ==
    /\ up /\ sock = None /\ shown = None
    /\ sock' = Attached(FALSE) /\ sizing' = TRUE
    /\ UNCHANGED <<brokerVars, rec, up, shown, term, wireVars, opens, left>>

\* The terminal's socket breaks with what it still carried.
SocketDies ==
    /\ sock # None /\ Spend("sock")
    /\ sock' = None
    /\ UNCHANGED <<brokerVars, rec, up, shown, term, sizing, wireVars, opens>>

Close ==
    /\ up /\ Spend("close")
    /\ up' = FALSE /\ shown' = None /\ sock' = None
    /\ UNCHANGED <<brokerVars, rec, term, sizing, wireVars, opens>>

\* The poll drops the session of a key with no window: its record goes.
Forget ==
    /\ ~up /\ rec # None /\ Spend("forget")
    /\ rec' = None
    /\ UNCHANGED <<brokerVars, up, shown, term, sock, sizing, wireVars, opens>>

\* onmessage, a `control` frame: the held grid is applied when the view leaves
\* this very socket standing and uncontrolled, else dropped with it.
HearControl ==
    /\ sock # None /\ sock.q # <<>> /\ Head(sock.q).t = "control"
    /\ LET v == Head(sock.q).v
           s == [sock EXCEPT !.q = Tail(@), !.held = None]
       IN /\ Apply(v, "ws", s)
          /\ term' = IF sock' = s /\ shown' = None /\ sock.held # None
                     THEN sock.held ELSE term
    /\ UNCHANGED <<brokerVars, up, link, push, post, opens, left>>

\* onmessage, `resized`: the first one waits for the first control frame (or
\* is dropped by a leave's attach), the others are applied.
HearResized ==
    /\ sock # None /\ sock.q # <<>> /\ Head(sock.q).t = "resized"
    /\ LET g == Head(sock.q).v IN
       IF sock.first
       THEN /\ sock' = [sock EXCEPT !.q = Tail(@), !.first = FALSE,
                                    !.held = IF sock.drop THEN None ELSE g]
            /\ UNCHANGED term
       ELSE /\ sock' = [sock EXCEPT !.q = Tail(@)]
            /\ term' = g
    /\ UNCHANGED <<brokerVars, rec, up, shown, sizing, wireVars, opens, left>>

\* takeBackControl: the gen the overlay shows is the one it asks to release.
TakeBack ==
    /\ up /\ shown # None /\ post = None /\ Spend("take")
    /\ post' = [gen |-> shown.gen, ans |-> None]
    /\ UNCHANGED <<brokerVars, pageVars, link, push, poll, opens>>

\* POST /session/control: the controller at exactly that gen is released; else
\* 409 with the live view.
Released(v) == [t |-> "view", v |-> v]
TakeBackServed ==
    /\ post # None /\ post.ans = None
    /\ IF ~Free /\ ctl.gen = post.gen /\ ctl.gen < MaxGen
       THEN LET v == [label |-> "free", gen |-> ctl.gen + 1] IN
            /\ Changed(v)
            /\ post' = [post EXCEPT !.ans = Released(v)]
       ELSE /\ post' = [post EXCEPT !.ans = Released(ctl)]
            /\ UNCHANGED <<ctl, sock, push>>
    /\ UNCHANGED <<grid, rec, up, shown, term, sizing, link, poll, opens, left>>

\* The take-back POST, or its answer, is lost.
TakeBackLost ==
    /\ post # None /\ post.ans = None /\ Spend("lost")
    /\ post' = [post EXCEPT !.ans = [t |-> "failed", v |-> None]]
    /\ UNCHANGED <<brokerVars, pageVars, link, push, poll, opens>>

\* The answer carries the view the take-back made.
TakeBackLands ==
    /\ post # None /\ post.ans # None
    /\ post' = None
    /\ IF post.ans.t = "view" THEN Apply(post.ans.v, "post", sock)
       ELSE UNCHANGED <<rec, shown, sock, sizing, poll>>
    /\ UNCHANGED <<brokerVars, up, term, link, push, opens, left>>

Init ==
    /\ ctl = [label |-> "free", gen |-> 0] /\ grid = "desk"
    /\ rec = None /\ up = FALSE /\ shown = None /\ term = "desk"
    /\ sock = None /\ sizing = FALSE
    /\ link = TRUE /\ push = {} /\ poll = None /\ post = None
    /\ opens = 0 /\ left = Left0

Page ==
    \/ LinkOpens \/ PushLands \/ PollSent \/ PollAnswered \/ PollLands
    \/ Open \/ Redial \/ Close \/ Forget \/ HearControl \/ HearResized
    \/ TakeBack \/ TakeBackLands

Outside ==
    \/ \E l \in Label : Claim(l)
    \/ Release \/ ControllerResizes \/ ResizeArrives \/ Restart \/ LinkDies
    \/ SocketDies \/ TakeBackServed \/ TakeBackLost

Next == Page \/ Outside

Spec == Init /\ [][Next]_vars

(* ------------------------------ properties ----------------------------- *)

View == [label : Label \cup {"free"}, gen : 0..MaxGen]

TypeOK ==
    /\ ctl \in View /\ {grid, term} \subseteq {"desk", "phone"}
    /\ rec = None \/ rec \in [label : Label \cup {"free"},
                              gen : 0..MaxGen \cup {None}, unordered : BOOLEAN]
    /\ shown = None \/ shown \in [label : Label, gen : 0..MaxGen]
    /\ {up, sizing, link} \subseteq BOOLEAN
    /\ push \subseteq View
    /\ poll = None \/ poll.ans = None \/ poll.ans \in View
    /\ post = None \/ post.gen \in 0..MaxGen

\* What a page has been told is never replaced by something older of the same
\* broker run, but where the record holds no baseline: a row of a poll sent
\* before, a push overtaken by another, a late answer to Take back.
NeverShowsOlderStep ==
    rec # None /\ rec' # None /\ rec.gen # None /\ ~rec.unordered
    /\ rec'.gen # None /\ rec' # rec /\ left'.restart = Left0.restart
    => rec'.gen >= rec.gen

\* The window shows what the broker says of who drives.
ShowsTheTruth ==
    up => IF Free THEN shown = None
          ELSE shown # None /\ shown.label = ctl.label
=============================================================================
