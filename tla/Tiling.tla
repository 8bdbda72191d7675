------------------------------- MODULE Tiling -------------------------------
(***************************************************************************)
(* The tiling desktop of the page: the synced layout (57_js_tiling_model), *)
(* its mutators (58), the drop at the end of a drag (59), the moves        *)
(* between float and tile (62a), bringToFront (66) and the part of a       *)
(* relayout that writes state (60, 61).                                    *)
(*                                                                         *)
(* A relayout, the focus of a window that is not drawn yet, and the focus  *)
(* a window leaves behind wait for the next animation frame.  A frame runs *)
(* what waits in the order it was asked for; what that asks for waits for  *)
(* the frame after, and operations may come between the two.               *)
(*                                                                         *)
(* The layout is a sequence of columns, a column a sequence of rows, and a *)
(* row one of                                                              *)
(*   single   one window                                                   *)
(*   tabbed   some windows, one of them the visible tab                    *)
(*   split    two or more cells side by side, each a window or a tab group *)
(* Heights, widths and ids are left out.  A row's keys live in keys unless *)
(* it is split, then in its cells.                                         *)
(*                                                                         *)
(* A drag, a menu and an RPC act on a target they captured earlier: the    *)
(* slot, the column or the window may since have moved or gone.  Every     *)
(* action therefore takes any slot, any column or none, any target window  *)
(* and any group of keys, and no gesture is part of the state.             *)
(*                                                                         *)
(* Columns of a workspace that is not shown are hidden by the workspaces   *)
(* mod's filter: slots and focusedCol count visible columns, the splices   *)
(* count stored ones.                                                      *)
(***************************************************************************)
EXTENDS Integers, Sequences, FiniteSets, SequencesExt

CONSTANTS Keys,        \* the windows
          Spaces,      \* the workspaces
          None,        \* no key, no workspace, no column
          Blobs,       \* the layouts /state may hand this page, and what each holds
          Ops,         \* the operations a run exercises
          GroupSizes,  \* the sizes of the tab groups a run drags
          MaxLater     \* bound: an operation comes with at most this much waiting for a frame

TilingAssumption == /\ None \notin Keys \cup Spaces
                    /\ IsFiniteSet(Keys) /\ Spaces # {}
                    /\ GroupSizes \subseteq Nat \ {0} /\ MaxLater \in Nat

VARIABLES columns,     \* _layout.columns
          focusedCol,  \* _layout.focusedCol, an index of a visible column
          openTerms,   \* _layout.openTerms
          activeWs,    \* the workspace on screen
          win,         \* the windows of this page
          frontId,     \* the window in front
          later        \* the callbacks that wait for the next animation frame

vars == <<columns, focusedCol, openTerms, activeWs, win, frontId, later>>

\* F of x, where x is worked out first
Do(x, F(_)) == CHOOSE r \in {F(q) : q \in {x}} : TRUE

-----------------------------------------------------------------------------
(* Rows, cells and keys *)

At(s, k) == CHOOSE i \in DOMAIN s : s[i] = k

\* setRowMode: the fields a mode does not use are cleared
Single(k) == [mode |-> "single", keys |-> <<k>>, act |-> None, cells |-> <<>>]
Tabbed(ks, a) == [mode |-> "tabbed", keys |-> ks, act |-> a, cells |-> <<>>]
Split(cs) == [mode |-> "split", keys |-> <<>>, act |-> None, cells |-> cs]
Cell(ks, a) == [keys |-> ks, act |-> a]
Leaf(k) == Cell(<<k>>, None)

IsSplit(r) == r.mode = "split" /\ r.cells # <<>>
RowKeys(r) == IF IsSplit(r) THEN FlattenSeq([i \in DOMAIN r.cells |-> r.cells[i].keys]) ELSE r.keys
ColKeys(c) == FlattenSeq([i \in DOMAIN c.rows |-> RowKeys(c.rows[i])])
AllKeys(cs) == FlattenSeq([i \in DOMAIN cs |-> ColKeys(cs[i])])
RowHas(r, k) == Contains(r.keys, k) \/ \E x \in DOMAIN r.cells : Contains(r.cells[x].keys, k)
ColHas(c, k) == \E j \in DOMAIN c.rows : RowHas(c.rows[j], k)
InLayout(cs, k) == \E i \in DOMAIN cs : ColHas(cs[i], k)

\* The active tab, healed to a tab that is there
Healed(ks, a) == IF Contains(ks, a) THEN a ELSE ks[1]
HealedCell(c) == IF Len(c.keys) = 1 THEN Leaf(c.keys[1])
                 ELSE Cell(c.keys, Healed(c.keys, c.act))

\* A split row of these cells: one cell is no split
AsRow(cells) ==
    IF Len(cells) # 1 THEN Split(cells)
    ELSE IF Len(cells[1].keys) = 1 THEN Single(cells[1].keys[1])
    ELSE Tabbed(cells[1].keys, Healed(cells[1].keys, cells[1].act))

EmptyRow(r) == RowKeys(r) = <<>>

\* Where a key is: column, row, and the cell of a split row (0 when none)
Tile(cs, c, r, k) ==
    [c |-> c, r |-> r, row |-> cs[c].rows[r],
     x |-> IF IsSplit(cs[c].rows[r])
             THEN CHOOSE x \in DOMAIN cs[c].rows[r].cells : Contains(cs[c].rows[r].cells[x].keys, k) ELSE 0]
ColWith(cs, k) == CHOOSE i \in DOMAIN cs : ColHas(cs[i], k)
Loc(cs, k) ==
    LET c == ColWith(cs, k)
    IN Tile(cs, c, CHOOSE j \in DOMAIN cs[c].rows : RowHas(cs[c].rows[j], k), k)

PutRow(cs, c, r, row) == [cs EXCEPT ![c].rows[r] = row]
SwapOut(s, i, new) == SubSeq(s, 1, i - 1) \o new \o SubSeq(s, i + 1, Len(s))

-----------------------------------------------------------------------------
(* Visible and stored indices *)

Shown(c) == c.ws \in {activeWs, None}
Visible(cs) == SelectSeq(cs, Shown)
VisibleAt(cs) == SelectSeq([i \in DOMAIN cs |-> i], LAMBDA i : Shown(cs[i]))   \* stored indices
VisibleIx(cs, c) ==
    IF c \in DOMAIN cs /\ Shown(cs[c]) THEN Cardinality({i \in 1..c - 1 : Shown(cs[i])}) ELSE -1

\* A visible slot as a place to splice at
StorageIx(cs, slot) ==
    Do(VisibleAt(cs), LAMBDA vis : IF vis = <<>> THEN Len(cs)
                                   ELSE IF slot <= 0 THEN vis[1] - 1
                                   ELSE IF slot >= Len(vis) THEN vis[Len(vis)]
                                   ELSE vis[slot + 1] - 1)

Clamp(i, n) == IF i < 0 \/ n = 0 THEN 0 ELSE IF i >= n THEN n - 1 ELSE i

\* A column the page makes is claimed for the workspace on screen at once
NewColumn(k) == [ws |-> activeWs, rows |-> <<Single(k)>>]

-----------------------------------------------------------------------------
(* The mutators, on a layout L of columns and focus.  Each is what one     *)
(* synchronous call leaves behind.                                         *)

\* Mutant: a split row keeps its last cell
RowKeepsSplit(r, k) ==
    IF IsSplit(r) THEN Split(SelectSeq([x \in DOMAIN r.cells |-> [r.cells[x] EXCEPT !.keys = Remove(@, k)]],
                                       LAMBDA c : c.keys # <<>>))
    ELSE [r EXCEPT !.keys = Remove(@, k)]
CellWithout(c, k) == IF Contains(c.keys, k) THEN HealedCell([c EXCEPT !.keys = Remove(@, k)]) ELSE c
TabsOnly(r, ks) == IF ks = <<>> THEN [r EXCEPT !.keys = <<>>]
                   ELSE IF Len(ks) = 1 THEN Single(ks[1])
                   ELSE Tabbed(ks, Healed(ks, r.act))
RowWithout(r, k) ==
    IF IsSplit(r)
      THEN AsRow(LET cells == SelectSeq(r.cells, LAMBDA c : Remove(c.keys, k) # <<>>)
                 IN [i \in DOMAIN cells |-> CellWithout(cells[i], k)])
      ELSE IF Contains(r.keys, k) THEN TabsOnly(r, Remove(r.keys, k)) ELSE r

ColumnWithout(c, k) ==
    [c EXCEPT !.rows = SelectSeq([j \in DOMAIN @ |-> RowWithout(@[j], k)], LAMBDA r : ~EmptyRow(r))]

\* removeKeyFromLayout: the key goes, empty rows and columns go, the focus is clamped
RemoveKey(L, k) ==
    Do(SelectSeq([i \in DOMAIN L.columns |-> ColumnWithout(L.columns[i], k)], LAMBDA c : c.rows # <<>>),
       LAMBDA cs : [columns |-> cs,
                    focus |-> IF Len(cs) < Len(L.columns) THEN Clamp(L.focus, Len(Visible(cs))) ELSE L.focus])

\* The layout cs with the focus on stored column c, the first when c is not drawn
FocusedOn(cs, c) == [columns |-> cs, focus |-> IF VisibleIx(cs, c) < 0 THEN 0 ELSE VisibleIx(cs, c)]
Inserted(cs, c, col) == Do(InsertAt(cs, c, col), LAMBDA new : FocusedOn(new, c))
AtSlot(L, slot, col) == Inserted(L.columns, StorageIx(L.columns, slot) + 1, col)

\* layoutAddColumn; a quiet open leaves the focus on its column
AddColumn(L, k, slot, quiet) ==
    Do(AtSlot(L, IF slot = None THEN Len(Visible(L.columns)) ELSE slot, NewColumn(k)),
       LAMBDA n : IF ~quiet THEN n
                  ELSE [n EXCEPT !.focus = IF @ <= L.focus /\ Len(n.columns) > 1 THEN L.focus + 1 ELSE L.focus])

OnlyKey(L, k) == ColKeys(L.columns[ColWith(L.columns, k)]) = <<k>>

\* The tile goes to column c as its bottom row (c indexes L, before the removal)
OnTopOf(M, k, e) == [columns |-> [M.columns EXCEPT ![e].rows = Append(@, Single(k))],
                     focus |-> VisibleIx(M.columns, e)]
Stack(L, k, c) ==
    OnTopOf(RemoveKey(L, k), k, IF OnlyKey(L, k) /\ ColWith(L.columns, k) < c THEN c - 1 ELSE c)

\* consumeIntoAdjacentColumn: the neighbour on screen
Consume(L, k, dir) ==
    LET vis == VisibleAt(L.columns)
        t == VisibleIx(L.columns, ColWith(L.columns, k)) + dir
    IN IF t < 0 \/ t >= Len(vis) THEN L ELSE Stack(L, k, vis[t + 1])

\* dragDropConsume: the column the drag pointed at, if it is still there
DropConsume(L, k, c) ==
    IF c \notin DOMAIN L.columns \/ c = ColWith(L.columns, k) THEN L ELSE Stack(L, k, c)

\* expelToNewColumn
Expel(L, k) ==
    IF OnlyKey(L, k) THEN L
    ELSE Inserted(RemoveKey(L, k).columns, ColWith(L.columns, k) + 1, NewColumn(k))

\* Alone and dropped beside itself
StaysPut(L, k, slot) ==
    OnlyKey(L, k) /\ \E v \in {VisibleIx(L.columns, ColWith(L.columns, k))} : slot \in {v, v + 1}

\* dragDropNewColumn: a source column that collapses left of the slot shifts it
DropNewColumn(L, k, slot) ==
    LET left == OnlyKey(L, k) /\ VisibleIx(L.columns, ColWith(L.columns, k)) \in 0..slot - 1
    IN IF StaysPut(L, k, slot) THEN L
       ELSE Do(RemoveKey(L, k), LAMBDA M : AtSlot(M, Clamp(IF left THEN slot - 1 ELSE slot, Len(Visible(M.columns)) + 1),
                                                  NewColumn(k)))

\* tabWindowIntoTile: into the target's tile l as it is after the removal
TabAlone(L, s, k) ==
    IF s.row.mode = "split" THEN L
    ELSE [columns |-> PutRow(L.columns, s.c, s.r, Tabbed(s.row.keys, k)), focus |-> VisibleIx(L.columns, s.c)]
TabAt(M, l, k) ==
    [columns |-> PutRow(M.columns, l.c, l.r,
                        IF l.x = 0 THEN Tabbed(Append(l.row.keys, k), k)
                        ELSE Split([l.row.cells EXCEPT ![l.x] = Cell(Append(@.keys, k), k)])),
     focus |-> VisibleIx(M.columns, l.c)]
TabInto(L, k, t) ==
    IF ~InLayout(L.columns, t) THEN L
    ELSE IF k = t THEN TabAlone(L, Loc(L.columns, t), k)
    ELSE IF ~InLayout(L.columns, k) THEN L
    ELSE Do(RemoveKey(L, k), LAMBDA M : TabAt(M, Loc(M.columns, t), k))

\* dragDropSplitRow: a row of its own above or below the target's
RowAt(M, l, k, after) ==
    [columns |-> [M.columns EXCEPT ![l.c].rows = InsertAt(@, IF after THEN l.r + 1 ELSE l.r, Single(k))],
     focus |-> VisibleIx(M.columns, l.c)]
SplitRow(L, k, t, after) ==
    IF k = t \/ ~InLayout(L.columns, t) THEN L
    ELSE Do(RemoveKey(L, k), LAMBDA M : RowAt(M, Loc(M.columns, t), k, after))

\* The tile of row as one cell of a split: a tab group stays a group
AsCell(row, t) == IF row.mode = "tabbed" THEN HealedCell(Cell(row.keys, row.act)) ELSE Leaf(t)
Beside(cells, x, new, after) == InsertAt(cells, IF after THEN x + 1 ELSE x, new)
SideAt(M, l, k, t, after) ==
    [columns |-> PutRow(M.columns, l.c, l.r,
                        Split(IF l.x # 0 THEN Beside(l.row.cells, l.x, Leaf(k), after)
                              ELSE Beside(<<AsCell(l.row, t)>>, 1, Leaf(k), after))),
     focus |-> VisibleIx(M.columns, l.c)]
\* Alone in a cell of the target's row, the tile only moves along it
CellBeside(d, s, k) == d.c = s.c /\ d.r = s.r /\ d.x # 0 /\ d.row.cells[d.x].keys = <<k>>
Along(cells, k, t, after) ==
    Beside(cells, CHOOSE x \in DOMAIN cells : Contains(cells[x].keys, t), Leaf(k), after)
MovedAlong(L, s, k, t, after) ==
    [L EXCEPT !.columns = PutRow(@, s.c, s.r,
        Split(Along(SelectSeq(s.row.cells, LAMBDA c : c.keys # <<k>>), k, t, after)))]
\* dragDropSplitHoriz: beside the target, in its row
SplitHoriz(L, k, t, after) ==
    IF k = t \/ ~InLayout(L.columns, t) THEN L
    ELSE IF CellBeside(Loc(L.columns, k), Loc(L.columns, t), k)
      THEN MovedAlong(L, Loc(L.columns, t), k, t, after)
    ELSE Do(RemoveKey(L, k), LAMBDA M : SideAt(M, Loc(M.columns, t), k, t, after))

\* untabTile and unsplitRow: one row per tab, one row per cell
Explode(L, c, r) ==
    LET row == L.columns[c].rows[r]
        new == IF row.mode = "split"
                 THEN [x \in DOMAIN row.cells |-> AsRow(<<row.cells[x]>>)]
                 ELSE [i \in DOMAIN row.keys |-> Single(row.keys[i])]
    IN [L EXCEPT !.columns[c].rows = SwapOut(@, r, new)]

\* nestedUntabCell: the tabs of a cell become cells of the same row
Ungroup(L, c, r, x) ==
    LET row == L.columns[c].rows[r]
    IN [L EXCEPT !.columns = PutRow(@, c, r,
            Split(SwapOut(row.cells, x, [i \in DOMAIN row.cells[x].keys |-> Leaf(row.cells[x].keys[i])])))]

\* moveColumn: two neighbours on screen trade their stored places
MoveColumn(L, i, dir) ==
    LET vis == VisibleAt(L.columns) j == i + dir
    IN IF j < 0 \/ j >= Len(vis) THEN L
       ELSE [columns |-> [L.columns EXCEPT ![vis[i + 1]] = L.columns[vis[j + 1]],
                                           ![vis[j + 1]] = L.columns[vis[i + 1]]], focus |-> j]

-----------------------------------------------------------------------------
(* reconcileLayout, on whatever /state holds: a layout of this page, a     *)
(* peer's, one from before workspaces, tab groups or cells, a damaged one. *)

\* The keys of s that were not seen before, once each
Unseen(s, seen) ==
    FoldLeft(LAMBDA ks, k : IF k \in seen \cup ToSet(ks) THEN ks ELSE Append(ks, k), <<>>, s)

\* cleanSplitCellsRow, cell by cell
WithCell(acc, cell, ks) ==
    IF ks = <<>> THEN acc
    ELSE [seen |-> acc.seen \cup ToSet(ks), cells |-> Append(acc.cells, HealedCell(Cell(ks, cell.act)))]
CleanCell(acc, cell) == WithCell(acc, cell, Unseen(cell.keys, acc.seen))

RowMode(row, n) ==
    LET m == IF row.mode # None THEN row.mode
             ELSE IF "tabbed" \in DOMAIN row /\ row.tabbed THEN "tabbed" ELSE "single"
    IN IF m = "split" /\ n < 2 THEN "single" ELSE m

FromCells(acc, f) ==
    [seen |-> f.seen, rows |-> IF f.cells = <<>> THEN acc.rows ELSE Append(acc.rows, AsRow(f.cells))]
FromKeys(acc, row, ks, mode) ==
    [seen |-> acc.seen \cup ToSet(ks),
     rows |-> acc.rows \o CASE ks = <<>>       -> <<>>
                            [] mode = "tabbed" -> <<Tabbed(ks, Healed(ks, row.act))>>
                            [] mode = "split"  -> <<Split([i \in DOMAIN ks |-> Leaf(ks[i])])>>
                            [] OTHER           -> [i \in DOMAIN ks |-> Single(ks[i])]]
CleanRow(acc, row) ==
    IF row.mode = "split" /\ \E x \in DOMAIN row.cells : row.cells[x].keys # <<>>
      THEN FromCells(acc, FoldLeft(CleanCell, [seen |-> acc.seen, cells |-> <<>>], row.cells))
      ELSE Do(Unseen(row.keys, acc.seen), LAMBDA ks : FromKeys(acc, row, ks, RowMode(row, Len(ks))))

\* The rows of a column in its three historical shapes
RawRows(col) ==
    IF "rows" \in DOMAIN col /\ col.rows # <<>> THEN col.rows
    ELSE IF "keys" \notin DOMAIN col THEN <<>>
    ELSE IF col.tabbed THEN <<Tabbed(col.keys, col.act)>>
    ELSE [i \in DOMAIN col.keys |-> Single(col.keys[i])]

FromRows(acc, col, f) ==
    [seen |-> f.seen,
     columns |-> IF f.rows = <<>> THEN acc.columns
                 ELSE Append(acc.columns, [ws |-> IF "ws" \in DOMAIN col THEN col.ws ELSE None, rows |-> f.rows])]
CleanColumn(acc, col) ==
    FromRows(acc, col, FoldLeft(CleanRow, [seen |-> acc.seen, rows |-> <<>>], RawRows(col)))

\* migrateLegacyWorkspaces: the columns of the old groups follow the others
RawColumns(b) ==
    (IF "columns" \in DOMAIN b THEN b.columns ELSE <<>>)
      \o (IF "workspaces" \in DOMAIN b THEN FlattenSeq(b.workspaces) ELSE <<>>)

Reconcile(b) ==
    Do(FoldLeft(CleanColumn, [seen |-> {}, columns |-> <<>>], RawColumns(b)).columns,
       LAMBDA cs : [columns |-> cs, focus |-> Clamp(b.focus, Len(cs))])

-----------------------------------------------------------------------------
(* The page: its layout, its windows, the one in front, and what waits for *)
(* a frame.  The operators below are what one call does to it.             *)

Closed == [up |-> FALSE, tiled |-> FALSE, min |-> FALSE]
L0 == [columns |-> columns, focus |-> focusedCol]
Now == [L |-> L0, win |-> win, front |-> frontId, later |-> later]

\* Every reader of the layout reconciles it first, which clamps the focus
Lay(S, L) == [S EXCEPT !.L = [L EXCEPT !.focus = Clamp(@, Len(L.columns))]]
Becomes(S) == /\ columns' = S.L.columns /\ focusedCol' = S.L.focus
              /\ win' = S.win /\ frontId' = S.front /\ later' = S.later

Task(do, key, heirs) == [do |-> do, key |-> key, heirs |-> heirs]
RelayoutTask == Task("relayout", None, <<>>)
InFrame(S, task) == [S EXCEPT !.later = Append(@, task)]
\* requestRelayout: once per frame
Asked(S) == IF Contains(S.later, RelayoutTask) THEN S ELSE InFrame(S, RelayoutTask)

TabShown(L, l, k) ==
    IF l.x # 0 /\ Len(l.row.cells[l.x].keys) > 1
      THEN [L EXCEPT !.columns[l.c].rows[l.r].cells[l.x].act = k]
    ELSE IF l.row.mode = "tabbed" THEN [L EXCEPT !.columns[l.c].rows[l.r].act = k]
    ELSE L
ShowTab(L, k) == IF InLayout(L.columns, k) THEN TabShown(L, Loc(L.columns, k), k) ELSE L
HiddenTab(L, k) == ShowTab(L, k) # L

CanFront(w, k) == w[k].up /\ ~w[k].min
FocusColumn(L, k) ==
    Do(VisibleIx(L.columns, ColWith(L.columns, k)), LAMBDA v : IF v < 0 THEN L ELSE [L EXCEPT !.focus = v])
\* The first half of bringToFront, for a tab that is not shown: its turn comes again in a frame
Revealed(S, k) ==
    InFrame(Asked(Lay(S, [ShowTab(S.L, k) EXCEPT !.focus = VisibleIx(S.L.columns, ColWith(S.L.columns, k))])),
            Task("retry", k, <<>>))
\* Mutant: the second turn starts over
NeverConcedes(S, k, retry) ==
    IF ~CanFront(S.win, k) THEN S
    ELSE IF ~S.win[k].tiled \/ ~InLayout(S.L.columns, k) THEN [S EXCEPT !.front = k]
    ELSE IF ~HiddenTab(S.L, k) THEN [Lay(S, FocusColumn(S.L, k)) EXCEPT !.front = k]
    ELSE Revealed(S, k)
\* bringToFront: a retry that finds the tab hidden again concedes
ToFront(S, k, retry) ==
    IF ~CanFront(S.win, k) THEN S
    ELSE IF ~S.win[k].tiled \/ ~InLayout(S.L.columns, k) THEN [S EXCEPT !.front = k]
    ELSE IF ~HiddenTab(S.L, k) THEN [Lay(S, FocusColumn(S.L, k)) EXCEPT !.front = k]
    ELSE IF retry THEN S ELSE Revealed(S, k)
\* A mutator that moved k leaves layout L: drawn in a frame, k in front at once or in that frame
MovedNow(S, L, k) == ToFront(Asked(Lay(S, L)), k, FALSE)
MovedLater(S, L, k) == InFrame(Asked(Lay(S, L)), Task("front", k, <<>>))

-----------------------------------------------------------------------------
(* relayoutStrip: the live windows of the visible columns are tiled, a dead *)
(* active tab gives way, and the workspaces mod claims unstamped columns    *)

LiveTab(w, ks, a) ==
    LET live == SelectSeq(ks, LAMBDA k : w[k].up /\ ~w[k].min)
    IN IF live = <<>> \/ Len(ks) < 2 THEN a ELSE Healed(live, a)
Rendered(w, r) ==
    IF r.mode = "tabbed" THEN [r EXCEPT !.act = LiveTab(w, r.keys, @)]
    ELSE [r EXCEPT !.cells = [x \in DOMAIN @ |-> [@[x] EXCEPT !.act = LiveTab(w, r.cells[x].keys, @)]]]
Relaid(S) ==
    [S EXCEPT !.L.columns = [c \in DOMAIN @ |->
                  IF ~Shown(@[c]) THEN @[c]
                  ELSE [ws |-> IF @[c].ws = None THEN activeWs ELSE @[c].ws,
                        rows |-> [r \in DOMAIN @[c].rows |-> Rendered(S.win, @[c].rows[r])]]],
              !.win = [k \in Keys |->
                  IF @[k].up /\ ~@[k].min /\ InLayout(Visible(S.L.columns), k) THEN [@[k] EXCEPT !.tiled = TRUE] ELSE @[k]]]

-----------------------------------------------------------------------------
(* Drops: commitDrop, and dragDropMoveGroup over it *)

Target(kind, t, i, after) == [kind |-> kind, key |-> t, at |-> i, after |-> after]
\* Every target a drag may hold: slots and columns one past the end stand for those that went
Targets ==
    {Target("newcol", None, i, FALSE) : i \in 0..Len(columns)}
      \cup {Target("consume", None, c, FALSE) : c \in 1..Len(columns) + 1}
      \cup {Target("tab", t, 0, FALSE) : t \in Keys}
      \cup {Target(kind, t, 0, after) : kind \in {"row", "side"}, t \in Keys, after \in BOOLEAN}

\* The call returns at once: the target is where the window is, or has gone
Ignored(L, k, to) ==
    CASE to.kind = "newcol"  -> StaysPut(L, k, to.at)
      [] to.kind = "consume" -> to.at \notin DOMAIN L.columns \/ to.at = ColWith(L.columns, k)
      [] ~InLayout(L.columns, to.key) -> TRUE
      [] to.kind = "tab"     -> k = to.key /\ Loc(L.columns, k).row.mode = "split"
      [] OTHER               -> k = to.key

\* tabWindowIntoTile leaves the focus to the frame
Tab(S, k, t) ==
    IF ~InLayout(S.L.columns, k) \/ Ignored(S.L, k, Target("tab", t, 0, FALSE)) THEN S
    ELSE MovedLater(S, TabInto(S.L, k, t), k)
Commit(S, k, to) ==
    IF ~InLayout(S.L.columns, k) \/ Ignored(S.L, k, to) THEN S
    ELSE CASE to.kind = "newcol"  -> MovedNow(S, DropNewColumn(S.L, k, to.at), k)
           [] to.kind = "consume" -> MovedNow(S, DropConsume(S.L, k, to.at), k)
           [] to.kind = "tab"     -> Tab(S, k, to.key)
           [] to.kind = "row"     -> MovedNow(S, SplitRow(S.L, k, to.key, to.after), k)
           [] to.kind = "side"    -> MovedNow(S, SplitHoriz(S.L, k, to.key, to.after), k)

\* The drop left the window in the row and the cell it was in
SameSpot(L, k, to) ==
    \/ Ignored(L, k, to)
    \/ to.kind \in {"tab", "side"} /\ \E d \in {Loc(L.columns, k)}, t \in {Loc(L.columns, to.key)} :
          \/ to.kind = "tab" /\ t.c = d.c /\ t.r = d.r /\ t.x = d.x
          \/ to.kind = "side" /\ CellBeside(d, t, k)

PullTogether(S, active, others) == FoldLeft(LAMBDA M, k : Tab(M, k, active), S, others)
MoveGroup(S, group, active, to) ==
    IF Contains(group, to.key) THEN S
    ELSE InFrame(Do(Commit(S, active, to), LAMBDA M :
                    IF ~InLayout(M.L.columns, active) \/ SameSpot(S.L, active, to) THEN M
                    ELSE Do(PullTogether(M, active, Remove(group, active)),
                            LAMBDA P : Asked(Lay(P, ShowTab(P.L, active))))),
                 Task("front", active, <<>>))

-----------------------------------------------------------------------------
(* A window that leaves hands the focus on, in a frame *)

Live(w, k) == w[k].up /\ ~w[k].min /\ w[k].tiled
\* captureTiledFocusContext: below, then above
NearFirst(ks, i) == SubSeq(ks, i + 1, Len(ks)) \o Reverse(SubSeq(ks, 1, i - 1))
Near(ks, k) == NearFirst(ks, At(ks, k))
\* What the frame is to hand the focus of k to, if k has it
Captured(S, k) ==
    IF S.front = k /\ S.win[k].tiled /\ InLayout(S.L.columns, k)
      THEN <<Task("heir", None, Near(ColKeys(S.L.columns[ColWith(S.L.columns, k)]), k))>> ELSE <<>>
Behind(S, k) == IF S.front = k THEN [S EXCEPT !.front = None] ELSE S
\* reconcileTiledFocus: the first of them that is live, then of the focused column
KeysAt(vis, i) == IF i < Len(vis) THEN ColKeys(vis[i + 1]) ELSE <<>>
Heirs(S, ks) == SelectSeq(ks \o KeysAt(Visible(S.L.columns), S.L.focus), LAMBDA x : Live(S.win, x))
HandOn(S, ks) == Do(Heirs(S, ks), LAMBDA heirs : IF heirs = <<>> THEN S ELSE ToFront(S, heirs[1], FALSE))

Run(S, task) ==
    CASE task.do = "relayout" -> Relaid(S)
      [] task.do = "front"    -> ToFront(S, task.key, FALSE)
      [] task.do = "retry"    -> ToFront(S, task.key, TRUE)
      [] task.do = "heir"     -> HandOn(S, task.heirs)
\* One animation frame
Framed(S) == FoldLeft(Run, [S EXCEPT !.later = <<>>], S.later)
Frame == later # <<>> /\ Becomes(Framed(Now)) /\ UNCHANGED <<openTerms, activeWs>>

-----------------------------------------------------------------------------
(* Opening, closing, float and tile *)

Init == /\ columns = <<>> /\ focusedCol = 0 /\ openTerms = {} /\ later = <<>>
        /\ activeWs \in Spaces /\ win = [k \in Keys |-> Closed] /\ frontId = None

\* placeWindowTiled: a column of its own if it has none, and the strip drawn at once
InStrip(L, k, quiet) == IF InLayout(L.columns, k) THEN L ELSE AddColumn(L, k, None, quiet)
Drawn(S, k) == IF VisibleIx(S.L.columns, ColWith(S.L.columns, k)) < 0 THEN S ELSE Relaid(S)
Placed(S, k, quiet) == Drawn([Lay(S, InStrip(S.L, k, quiet)) EXCEPT !.win[k].tiled = TRUE], k)

\* A terminal opens: where the layout has it, else a known float floats, else its role or
\* the mode decides.  One opened quietly, or gated on a lock, is not brought to the front.
Open(k, byRole, quiet) ==
    LET known == k \in openTerms /\ ~InLayout(columns, k)
        S == [Now EXCEPT !.win[k] = [Closed EXCEPT !.up = TRUE]]
        O == IF InLayout(columns, k) \/ (~known /\ byRole) THEN Placed(S, k, quiet) ELSE S
    IN /\ ~win[k].up
       /\ quiet => "quiet" \in Ops
       /\ openTerms' = openTerms \cup {k}
       /\ Becomes(IF quiet THEN O ELSE ToFront(O, k, FALSE))
       /\ UNCHANGED activeWs

Removed(S, k) == IF S.win[k].tiled THEN Asked(Lay(S, RemoveKey(S.L, k))) ELSE S
Close(k) ==
    /\ "close" \in Ops /\ win[k].up
    /\ openTerms' = openTerms \ {k}
    /\ Becomes([Behind(Removed(Now, k), k) EXCEPT !.win[k] = Closed, !.later = @ \o Captured(Now, k)])
    /\ UNCHANGED activeWs

Minimize(k) ==
    /\ "min" \in Ops /\ win[k].up /\ ~win[k].min
    /\ Becomes([Behind(IF win[k].tiled THEN Asked(Now) ELSE Now, k)
                  EXCEPT !.win[k].min = TRUE, !.later = @ \o Captured(Now, k)])
    /\ UNCHANGED <<openTerms, activeWs>>

Restore(k) ==
    /\ win[k].up /\ win[k].min
    /\ Becomes(ToFront([IF win[k].tiled THEN Asked(Now) ELSE Now EXCEPT !.win[k].min = FALSE], k, FALSE))
    /\ UNCHANGED <<openTerms, activeWs>>

Attached(S, k) == ToFront(Placed(S, k, FALSE), k, FALSE)
AttachToStrip(k) ==
    /\ "float" \in Ops /\ win[k].up /\ ~win[k].tiled
    /\ Becomes(Attached(Now, k))
    /\ UNCHANGED <<openTerms, activeWs>>

Floated(S, k) == Asked(ToFront([Lay(S, RemoveKey(S.L, k)) EXCEPT !.win[k].tiled = FALSE], k, FALSE))
DetachToFloat(k) ==
    /\ "float" \in Ops /\ win[k].up
    /\ Becomes(Floated(Now, k))
    /\ UNCHANGED <<openTerms, activeWs>>

\* A float dropped on a window tabs into its tile: both are attached first
TabWindowInto(k, t) ==
    LET S == IF win[t].tiled THEN Now ELSE Attached(Now, t)
    IN /\ "tab" \in Ops /\ k # t /\ win[k].up /\ win[t].up /\ ~win[k].tiled
       /\ Becomes(Tab(Attached(S, k), k, t))
       /\ UNCHANGED <<openTerms, activeWs>>

BringToFront(k) ==
    /\ "click" \in Ops
    /\ Becomes(ToFront(Now, k, FALSE))
    /\ UNCHANGED <<openTerms, activeWs>>

\* A click on a tab of a strip that is drawn as it is
ClickTab(k) ==
    /\ "click" \in Ops /\ ~Contains(later, RelayoutTask) /\ CanFront(win, k) /\ HiddenTab(L0, k)
    /\ Becomes(MovedLater(Now, ShowTab(L0, k), k))
    /\ UNCHANGED <<openTerms, activeWs>>

-----------------------------------------------------------------------------
(* Menus, keys and drags *)

Does(S) == S # Now /\ Becomes(S) /\ UNCHANGED <<openTerms, activeWs>>
MoveBy(L, k) == L # L0 /\ Does(MovedNow(Now, L, k))

ConsumeIntoAdjacentColumn(k, dir) ==
    "menu" \in Ops /\ win[k].up /\ InLayout(columns, k) /\ MoveBy(Consume(L0, k, dir), k)
ExpelToNewColumn(k) == "menu" \in Ops /\ win[k].up /\ InLayout(columns, k) /\ MoveBy(Expel(L0, k), k)
TabThisWindow(k) == "menu" \in Ops /\ win[k].up /\ Does(Tab(Now, k, k))

Reshapes(L) == Does(Asked(Lay(Now, L)))
MoveAColumn(i, dir) == "menu" \in Ops /\ i < Len(Visible(columns)) /\ Reshapes(MoveColumn(L0, i, dir))
UntabTile(c, r) == "menu" \in Ops /\ columns[c].rows[r].mode = "tabbed" /\ Reshapes(Explode(L0, c, r))
UnsplitRow(c, r) == "menu" \in Ops /\ columns[c].rows[r].mode = "split" /\ Reshapes(Explode(L0, c, r))
NestedUntabCell(c, r, x) ==
    /\ "menu" \in Ops /\ Len(columns[c].rows[r].cells[x].keys) > 1
    /\ Reshapes(Ungroup(L0, c, r, x))

\* A drag of one window ends on a target it captured earlier
DropWindow(k, to) == "drag" \in Ops /\ win[k].up /\ Does(Commit(Now, k, to))

Groups == {g \in UNION {[1..n -> Keys] : n \in GroupSizes} : IsInjective(g)}
\* A drag of a tab group: the keys were its tabs when the drag began
DropGroup(g, active, to) ==
    /\ "group" \in Ops /\ win[active].up /\ Contains(g, active)
    /\ Does(MoveGroup(Now, g, active, to))
\* Dropped on the float band the group dissolves
FloatGroup(g, active) ==
    /\ "group" \in Ops /\ win[active].up /\ Contains(g, active)
    /\ Does(InFrame(FoldLeft(Floated, Now, SelectSeq(g, LAMBDA k : win[k].up)), Task("front", active, <<>>)))

-----------------------------------------------------------------------------
(* The other browsers, and the rest of the page *)

\* Mutant: the windows listed as open are read before the layout is taken
FloatedFromBefore(b, L, k) == win[k].up /\ win[k].tiled /\ ~InLayout(L.columns, k) /\ k \in openTerms
\* A window of this page the layout of a peer leaves out floats
FloatedElsewhere(b, L, k) == win[k].up /\ win[k].tiled /\ ~InLayout(L.columns, k) /\ k \in b.open
Adopted(b, L) ==
    /\ openTerms' = b.open
    /\ Becomes([Asked(Lay(Now, L)) EXCEPT !.win = [k \in Keys |->
                   IF FloatedElsewhere(b, L, k) THEN [@[k] EXCEPT !.tiled = FALSE] ELSE @[k]]])
    /\ UNCHANGED activeWs
Adopt(b) == "adopt" \in Ops /\ Adopted(b, Reconcile(b))

\* switchWorkspace: another group of columns is drawn, with the focus it had
SwitchWorkspace(s, f) ==
    /\ "ws" \in Ops /\ s # activeWs
    /\ activeWs' = s
    /\ Becomes(Asked([Now EXCEPT !.L.focus = f]))
    /\ UNCHANGED openTerms

Operation ==
    \/ \E k \in Keys : \E byRole, quiet \in BOOLEAN : Open(k, byRole, quiet)
    \/ \E k \in Keys : Close(k) \/ Minimize(k) \/ Restore(k) \/ BringToFront(k) \/ ClickTab(k)
    \/ \E k \in Keys : AttachToStrip(k) \/ DetachToFloat(k)
    \/ \E k, t \in Keys : TabWindowInto(k, t)
    \/ \E k \in Keys : ExpelToNewColumn(k) \/ TabThisWindow(k)
    \/ \E k \in Keys, dir \in {-1, 1} : ConsumeIntoAdjacentColumn(k, dir)
    \/ \E i \in 0..Len(columns), dir \in {-1, 1} : MoveAColumn(i, dir)
    \/ \E c \in DOMAIN columns : \E r \in DOMAIN columns[c].rows :
          \/ UntabTile(c, r)
          \/ UnsplitRow(c, r)
          \/ \E x \in DOMAIN columns[c].rows[r].cells : NestedUntabCell(c, r, x)
    \/ \E k \in Keys, to \in Targets : DropWindow(k, to)
    \/ \E g \in Groups, a \in Keys, to \in Targets : DropGroup(g, a, to)
    \/ \E g \in Groups, a \in Keys : FloatGroup(g, a)
    \/ \E b \in Blobs : Adopt(b)
    \/ \E s \in Spaces : \E f \in 0..Len(columns) - 1 : SwitchWorkspace(s, f)
Next == Frame \/ (Len(later) <= MaxLater /\ Operation)

Spec == Init /\ [][Next]_vars

-----------------------------------------------------------------------------
(* Properties *)

TypeOK ==
    /\ \A c \in DOMAIN columns :
         /\ columns[c].ws \in Spaces \cup {None}
         /\ \A r \in DOMAIN columns[c].rows :
              columns[c].rows[r].mode \in {"single", "tabbed", "split"}
    /\ ToSet(AllKeys(columns)) \subseteq Keys
    /\ focusedCol \in Nat /\ openTerms \subseteq Keys /\ activeWs \in Spaces
    /\ win \in [Keys -> [up : BOOLEAN, tiled : BOOLEAN, min : BOOLEAN]]
    /\ frontId \in Keys \cup {None}
    /\ \A i \in DOMAIN later : /\ later[i].do \in {"relayout", "front", "retry", "heir"}
                               /\ later[i].key \in Keys \cup {None}
                               /\ ToSet(later[i].heirs) \subseteq Keys

\* The mutators leave nothing to heal: the repair that every reader of the
\* layout runs (57, reconcileLayout) would return it as it is.  So no window
\* is in two tiles, no row or column is empty, no tab strip shows a tab that
\* left, and no split has a single cell.
NothingToHeal == Reconcile([columns |-> columns, focus |-> focusedCol]) = L0

\* The window in front can be seen, and nothing waits any more
Seen(S) ==
    /\ S.later = <<>>
    /\ S.front # None => CanFront(S.win, S.front)
    /\ S.front # None /\ S.win[S.front].tiled /\ InLayout(Visible(S.L.columns), S.front) => ~HiddenTab(S.L, S.front)
NextFrame(S) == IF S.later = <<>> THEN S ELSE Framed(S)
\* ... once three frames have run with no operation between them
SeenInTheEnd(S) == Do(NextFrame(S), LAMBDA S1 : Do(NextFrame(S1), LAMBDA S2 : Do(NextFrame(S2), Seen)))
After == [L |-> [columns |-> columns', focus |-> focusedCol'], win |-> win', front |-> frontId', later |-> later']

\* The focus settles (66, bringToFront, in two turns when a tab is hidden; 58 and
\* 59, the focus a drop leaves to the frame; 73, the focus a closed window hands
\* on).  Whatever operation comes, and whatever waits for a frame when it comes:
\* within three frames nothing waits any more, so that tabs that each ask for
\* the focus do not fight over their strip for ever, and the window in front
\* then shows, not a tab behind another.  Not so when a window that waited
\* for its turn left the screen first (minimized, closed): its tab was made the
\* active one and its strip falls to another tab, which is not put in front;
\* and a switch of workspace brings columns this says nothing of.
FrontIsSeenStep ==
    \/ activeWs' # activeWs
    \/ \E task \in ToSet(later \o later') : task.do \in {"front", "retry"} /\ ~CanFront(win', task.key)
    \/ Do(After, SeenInTheEnd)
    \/ ~Do(Now, SeenInTheEnd)

\* A tiled window that is listed as open is in a column
NoneVanishes == \A k \in Keys : win[k].up /\ win[k].tiled /\ k \in openTerms => InLayout(columns, k)

\* Adopting the layout of another browser, of an older version or a damaged one
\* loses no window (57, reconcileLayout and its migrations; 62a, reconcileWindowRoles):
\* the columns hold the windows it mentions and no other, and a window tiled here
\* that it does not mention floats, if the shared list says it is open.  One gone
\* from that list was closed elsewhere and is left as it is.  And no other operation,
\* before or after it, leaves such a window tiled in no column.
AdoptLosesNothingStep ==
    /\ \A b \in Blobs : Adopt(b) => ToSet(AllKeys(columns')) = b.holds
    /\ NoneVanishes'

=============================================================================
