------------------------------- MODULE MCDesk -------------------------------
(* The tiled strip and the workspaces mod, checked in one run. Each of them    *)
(* keeps its own picture of the layout and they share no variable: `part`      *)
(* names the instance a behaviour exercises, and the other stays as it began.  *)
EXTENDS Integers, Sequences, FiniteSets, TLC
LOCAL INSTANCE SequencesExt

CONSTANTS None, All, ka, kb, kc, x, y, z, s1, s2,
          w1, w2, w3, w4, c1, c2, c3, c4, k1, k2, k3
VARIABLES part,
          columns, focusedCol, openTerms, activeWs, win, frontId, later,
          pg, srv, held, seen, own, did, left

-----------------------------------------------------------------------------
(* The strip: three windows dragged about at rest ("drag"), and between the    *)
(* frames that draw them ("tabs"), two over two workspaces ("alone"), and the  *)
(* layouts that other browsers and older versions left ("sync"): holds says    *)
(* which windows a blob mentions.                                              *)

Drag == INSTANCE Tiling WITH Keys <- {x, y, z}, Spaces <- {s1}, Blobs <- {}, MaxLater <- 0,
                             Ops <- {"drag", "group", "menu"}, GroupSizes <- {2, 3}
Tabs == INSTANCE Tiling WITH Keys <- {x, y, z}, Spaces <- {s1}, Blobs <- {}, MaxLater <- 2,
                             Ops <- {"drag", "click", "min", "close", "tab"}, GroupSizes <- {2}
Alone == INSTANCE Tiling WITH Keys <- {ka, kb}, Spaces <- {s1, s2}, Blobs <- {}, GroupSizes <- {2}, MaxLater <- 2,
                              Ops <- {"float", "min", "close", "click", "quiet", "menu", "ws"}
\* Sound: no blob names these three, and only "drag" and "tabs" open them, to which they are all alike
AnyWindow == Permutations({x, y, z})

\* The layouts a peer may have arranged them in, with some of them listed as open
Arranged ==
    LET Column(s, rows) == [ws |-> s, rows |-> rows]
    IN {<<>>,
        <<Column(s1, <<Drag!Single(kb)>>)>>,
        <<Column(s2, <<Drag!Single(ka), Drag!Single(kc)>>)>>,
        <<Column(s1, <<Drag!Split(<<Drag!Leaf(ka), Drag!Cell(<<kb, kc>>, kb)>>)>>)>>,
        <<Column(s1, <<Drag!Single(ka)>>), Column(s2, <<Drag!Tabbed(<<kb, kc>>, kc)>>)>>}
PeerBlobs == {[columns |-> cs, focus |-> 1, open |-> up, holds |-> ToSet(Drag!AllKeys(cs))] :
                 cs \in Arranged, up \in {{}, {kc}, {ka, kb}, {ka, kb, kc}}}
\* From before workspaces were a mod: groups of columns, one of them in two groups
LegacyBlob ==
    [workspaces |-> << <<[keys |-> <<ka, kb>>, tabbed |-> TRUE, act |-> kb]>>,
                       <<[keys |-> <<kc, ka>>, tabbed |-> FALSE, act |-> None]>> >>,
     focus |-> 3, open |-> {ka, kc}, holds |-> {ka, kb, kc}]
\* Damaged: a key twice, a tab that left, a split that lost a cell, two windows in a single row
DamagedBlob ==
    [columns |-> <<[ws |-> s1, rows |-> <<[mode |-> "single", keys |-> <<kb, ka>>, act |-> None, cells |-> <<>>]>>],
                   [ws |-> s2, rows |-> <<Drag!Split(<<Drag!Cell(<<ka>>, None), Drag!Cell(<<kc, kb>>, kb)>>)>>]>>,
     focus |-> 0, open |-> {ka, kb, kc}, holds |-> {ka, kb, kc}]
\* From before cells and modes
FlatBlob ==
    [columns |-> <<[rows |-> <<[mode |-> "split", keys |-> <<ka, kb>>, act |-> None, cells |-> <<>>]>>],
                   [rows |-> <<[mode |-> None, tabbed |-> TRUE, keys |-> <<kc>>, act |-> ka, cells |-> <<>>]>>]>>,
     focus |-> 1, open |-> {kb, kc}, holds |-> {ka, kb, kc}]

Sync == INSTANCE Tiling WITH Keys <- {ka, kb, kc}, Spaces <- {s1, s2}, GroupSizes <- {2}, MaxLater <- 0,
                             Blobs <- PeerBlobs \cup {LegacyBlob, DamagedBlob, FlatBlob},
                             Ops <- {"adopt", "float", "close", "tab"}

-----------------------------------------------------------------------------
(* Workspaces: three of them with two columns on the first, a stack, and      *)
(* layouts from before the mod.                                               *)

Nothing == [switch |-> 0, remove |-> 0, relabel |-> 0, unstack |-> 0, stack |-> 0, move |-> 0, drag |-> 0,
            send |-> 0, sendnew |-> 0, pin |-> 0, add |-> 0, float |-> 0, close |-> 0, reveal |-> 0,
            focus |-> 0, reload |-> 0, peer |-> 0]
NewWs(w) == [id |-> w, stack |-> None, tag |-> 0, fc |-> 0, fid |-> None, fat |-> 0]
Blank == [list |-> <<>>, rows |-> {}, active |-> None, focus |-> 0, legacy |-> <<>>, legacyAt |-> 0, cols |-> <<>>]
Col(cid, w, ks) == [id |-> cid, ws |-> w, keys |-> ks]
In(w, s) == [NewWs(w) EXCEPT !.stack = s]
Plain == [Blank EXCEPT !.list = <<In(w1, None), In(w2, None), In(w3, None)>>, !.active = w1,
                       !.cols = <<Col(c1, w1, <<k1>>), Col(c2, w1, <<k2>>), Col(c3, w2, <<k3>>)>>]
Half == [Blank EXCEPT !.list = <<In(w1, None), In(w2, None)>>, !.active = w1, !.cols = <<Col(c1, w1, <<k1, k2>>)>>]
Stacked == [Plain EXCEPT !.list = <<In(w1, None), In(w2, w4), In(w3, w4)>>, !.rows = {[id |-> w4, last |-> None]}]
Fresh == [Blank EXCEPT !.cols = <<Col(c1, None, <<k1>>), Col(c2, None, <<k2>>)>>, !.focus = 1]
Legacy == [Fresh EXCEPT !.focus = 0, !.legacy = <<[id |-> w1, cids |-> {c1}], [id |-> w2, cids |-> {c2}]>>]

Begin(layouts, budget) == {[layout |-> l, budget |-> budget] : l \in layouts}
Scenario ==
    [return |-> Begin({Plain, [Plain EXCEPT !.focus = 1]},
                      [Nothing EXCEPT !.switch = 2, !.remove = 1, !.send = 1]),
     acts |-> Begin({Stacked}, [Nothing EXCEPT !.unstack = 1, !.stack = 1, !.move = 1, !.add = 1, !.sendnew = 1]),
     peers |-> Begin({Plain}, [Nothing EXCEPT !.remove = 1, !.drag = 1, !.peer = 1]),
     float |-> Begin({Half}, [Nothing EXCEPT !.float = 1, !.pin = 1, !.switch = 1, !.reveal = 1, !.focus = 1])
               \cup Begin({Half}, [Nothing EXCEPT !.float = 1, !.switch = 1, !.close = 1, !.relabel = 1, !.reload = 1]),
     settle |-> Begin({Plain, Stacked, Fresh, Legacy}, [Nothing EXCEPT !.switch = 1, !.peer = 2])]
Desk == INSTANCE Workspaces WITH Ids <- {w1, w2, w3, w4}, Cols <- {c1, c2, c3, c4}, Keys <- {k1, k2, k3},
                                 Starts <- UNION {Scenario[n] : n \in DOMAIN Scenario}

-----------------------------------------------------------------------------
ASSUME Drag!TilingAssumption /\ Tabs!TilingAssumption /\ Alone!TilingAssumption /\ Sync!TilingAssumption
ASSUME Desk!WorkspacesAssumption

strip == <<columns, focusedCol, openTerms, activeWs, win, frontId, later>>
desk == <<pg, srv, held, seen, own, did, left>>
vars == <<part, strip, desk>>

StripAsItBegan == Drag!Init
Starts(n) == Desk!Init /\ [layout |-> pg.L, budget |-> left] \in Scenario[n]
DeskAsItBegan == Starts("peers")

Init == \/ part = "drag" /\ Drag!Init /\ DeskAsItBegan
        \/ part = "tabs" /\ Tabs!Init /\ DeskAsItBegan
        \/ part = "alone" /\ Alone!Init /\ DeskAsItBegan
        \/ part = "sync" /\ Sync!Init /\ DeskAsItBegan
        \/ part \in DOMAIN Scenario /\ Starts(part) /\ StripAsItBegan

Next == \/ part = "drag" /\ Drag!Next /\ UNCHANGED <<part, desk>>
        \/ part = "tabs" /\ Tabs!Next /\ UNCHANGED <<part, desk>>
        \/ part = "alone" /\ Alone!Next /\ UNCHANGED <<part, desk>>
        \/ part = "sync" /\ Sync!Next /\ UNCHANGED <<part, desk>>
        \/ part \in DOMAIN Scenario /\ Desk!Next /\ UNCHANGED <<part, strip>>

\* Workspaces' fairness, for the instance that needs it
Fairness == /\ []<>(part = "settle" => ~pg.relay) /\ []<>(part = "settle" => ~pg.owes)
            /\ []<>(part = "settle" => ~(pg.rev # srv.rev /\ ~pg.owes))

Spec == Init /\ [][Next]_vars /\ Fairness

-----------------------------------------------------------------------------
\* No operation leaves the strip a row, cell or tab to heal (Tiling), and what
\* the strip and the workspaces keep has its type.
NothingToHeal == /\ part = "drag" => Drag!TypeOK
                 /\ part = "tabs" => Tabs!TypeOK
                 /\ part = "alone" => Alone!TypeOK
                 /\ part = "sync" => Sync!TypeOK
                 /\ IF part \in DOMAIN Scenario THEN Desk!TypeOK ELSE Drag!NothingToHeal

\* Adopting a layout loses no window that is open here (Tiling).
AdoptLosesNothing == [][part = "sync" => Sync!AdoptLosesNothingStep]_vars

\* Once the frames have run the front window of the strip can be seen (Tiling).
FrontIsSeen == [][/\ part = "drag" => Drag!FrontIsSeenStep
                  /\ part = "tabs" => Tabs!FrontIsSeenStep
                  /\ part = "alone" => Alone!FrontIsSeenStep]_vars

\* Going back to a workspace goes back to the column it was left on (Workspaces).
ReturnsToItsColumn == [][part = "return" => Desk!ReturnsToItsColumnStep]_vars

\* What a menu or a drag does concerns what it named when it was opened (Workspaces).
ActsOnTheNamed == [][(part \in {"acts", "peers"}) => Desk!ActsOnTheNamedStep]_vars

\* Two browsers, one with the mod and one without, come to rest on one layout (Workspaces).
AgreesInTheEnd == <>[](part = "settle" => pg.L = Desk!Taken(srv.L))
=============================================================================
