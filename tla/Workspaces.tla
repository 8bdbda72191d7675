----------------------------- MODULE Workspaces -----------------------------
(***************************************************************************)
(* The workspaces mod (mods/workspaces/workspaces.js): named groups of the *)
(* tiling columns, kept in the synced layout beside the columns, and the   *)
(* workspaces of floating windows, kept in this browser only.              *)
(*                                                                         *)
(* A column carries the id of its workspace.  The strip draws the columns  *)
(* of the active one; focusedCol counts only those.  A browser without the *)
(* mod makes columns that carry no id.  Neighbouring workspaces can form a *)
(* stack, which the pager shows as one entry.                              *)
(*                                                                         *)
(* The page reads its layout through wsStore, which repairs it in place    *)
(* and remembers that it did (_wsDirty); the next relayout saves.  Another *)
(* browser's layout may arrive at any time, also while a menu is open, a   *)
(* dialog asks, or a pager entry is being dragged.                         *)
(***************************************************************************)
EXTENDS Integers, Sequences, FiniteSets, SequencesExt

CONSTANTS Ids,      \* ids of workspaces and stacks
          Cols,     \* ids of columns
          Keys,     \* the windows
          None,     \* no id
          All,      \* a floating window shown on every workspace
          Starts    \* what a run begins with: the layout /state holds, and how
                    \* often each kind of thing is done

WorkspacesAssumption == /\ IsFiniteSet(Ids) /\ IsFiniteSet(Cols) /\ IsFiniteSet(Keys)
                        /\ {None, All} \cap (Ids \cup Cols \cup Keys) = {} /\ None # All
                        /\ Starts # {}

VARIABLES pg,      \* the page: its layout, its windows and what it owes the broker
          srv,     \* /state: the layout and its revision
          held,    \* a menu, a dialog or a drag: what it will do, and to what
          seen,    \* the column each workspace was left on (history)
          own,     \* the page changed something since it took its layout over (history)
          did,     \* what the last step did (history)
          left

vars == <<pg, srv, held, seen, own, did, left>>

-----------------------------------------------------------------------------
(* The layout L: list, rows (the stacks), active, cols, focus and legacy   *)

NewWs(id) == [id |-> id, stack |-> None, tag |-> 0, fc |-> 0, fid |-> None, fat |-> 0]
Names(L) == {L.list[i].id : i \in DOMAIN L.list}
RowIds(L) == {r.id : r \in L.rows}
WsAt(L, id) == CHOOSE i \in DOMAIN L.list : L.list[i].id = id
Member(list, s) == SelectSeq(list, LAMBDA w : w.stack = s)

\* A column's workspace: the active one when it names none, or one that is gone
WsOf(L, c) == IF c.ws \in Names(L) THEN c.ws ELSE L.active
ColsOf(L, id) == SelectSeq(L.cols, LAMBDA c : WsOf(L, c) = id)
Shown(L, c) == L.list = <<>> \/ c.ws \notin Names(L) \/ c.ws = L.active
Visible(L) == SelectSeq(L.cols, LAMBDA c : Shown(L, c))
ColIds(cs) == [i \in DOMAIN cs |-> cs[i].id]
IxOf(s, x) == IF Contains(s, x) THEN (CHOOSE i \in DOMAIN s : s[i] = x) - 1 ELSE -1
VisibleIx(L, cid) == IxOf(ColIds(Visible(L)), cid)
Clamped(i, n) == IF n = 0 \/ i < 0 THEN 0 ELSE IF i >= n THEN n - 1 ELSE i
ColAt(L, i) == IF i + 1 \in DOMAIN Visible(L) THEN Visible(L)[i + 1].id ELSE None
FocusedColumn(L) == ColAt(L, L.focus)

Holds(L, k) == \E i \in DOMAIN L.cols : Contains(L.cols[i].keys, k)
ColOf(L, k) == CHOOSE c \in ToSet(L.cols) : Contains(c.keys, k)
Restamped(L, Is(_), id) == [L EXCEPT !.cols = [i \in DOMAIN L.cols |-> IF Is(L.cols[i]) THEN [L.cols[i] EXCEPT !.ws = id] ELSE L.cols[i]]]

\* F of x, where x is worked out first
Do(x, F(_)) == CHOOSE r \in {F(q) : q \in {x}} : TRUE

-----------------------------------------------------------------------------
(* wsStore: the repair every reader runs *)

\* The grouping of a layout older than the mod is taken over once
AdoptLegacy(L) ==
    LET list == FoldLeft(LAMBDA acc, e : IF \E i \in DOMAIN acc : acc[i].id = e.id THEN acc
                                         ELSE Append(acc, NewWs(e.id)), L.list, L.legacy)
        group(c) == LET g == SelectSeq(L.legacy, LAMBDA e : c.id \in e.cids)
                    IN IF c.ws = None /\ g # <<>> THEN g[1].id ELSE c.ws
    IN IF L.legacy = <<>> THEN L
       ELSE [L EXCEPT !.list = list, !.legacy = <<>>,
                      !.cols = [i \in DOMAIN L.cols |-> [L.cols[i] EXCEPT !.ws = group(L.cols[i])]],
                      !.active = list[Clamped(L.legacyAt, Len(list)) + 1].id]

Deduped(list) == FoldLeft(LAMBDA acc, w : IF \E i \in DOMAIN acc : acc[i].id = w.id THEN acc
                                          ELSE Append(acc, w), <<>>, list)
Seeded(L) == IF L.list # <<>> THEN L ELSE [L EXCEPT !.list = <<NewWs(CHOOSE id \in Ids : TRUE)>>]

\* The members of a stack are neighbours: all of them stand where the first stands
Grouped(list) ==
    FoldLeft(LAMBDA acc, w : IF w.stack = None THEN Append(acc, w)
                             ELSE IF Contains(acc, w) THEN acc
                             ELSE acc \o Member(list, w.stack), <<>>, list)

\* The rows that still have members; the last-used member is one of them (last)
Kept(L) == [L EXCEPT !.rows = {[r EXCEPT !.last = IF \E w \in ToSet(Member(L.list, r.id)) : w.id = r.last THEN r.last ELSE None] :
                                 r \in {q \in L.rows : Len(Member(L.list, q.id)) >= 2}}]
\* A stack of one dissolves
Dissolved(L) ==
    LET alone(w) == w.stack # None /\ Len(Member(L.list, w.stack)) < 2
        list == [i \in DOMAIN L.list |-> IF alone(L.list[i]) THEN [L.list[i] EXCEPT !.stack = None] ELSE L.list[i]]
    IN Do([L EXCEPT !.list = list], Kept)
\* The stacks of the list, each member in one of them
Known(L) == LET rows == {r \in L.rows : r.id \notin Names(L)}
                known(w) == \E r \in rows : r.id = w.stack
                list == [i \in DOMAIN L.list |-> IF known(L.list[i]) THEN L.list[i] ELSE [L.list[i] EXCEPT !.stack = None]]
            IN [L EXCEPT !.rows = rows, !.list = list]
HealStacks(L) == Do(Do(Known(L), LAMBDA M : [M EXCEPT !.list = Grouped(M.list)]), Dissolved)

\* The active workspace is one of the list.
Active(L) == IF L.active \in Names(L) THEN L ELSE [L EXCEPT !.active = L.list[1].id]
Heal(L) == Do(Do(Do(Do([L EXCEPT !.list = Deduped(L.list)], AdoptLegacy), Seeded), HealStacks), Active)

-----------------------------------------------------------------------------
(* What the operations do to a repaired layout *)

\* recordFocus: the index and the column it was taken on
Recorded(L, id, i, cid) ==
    [L EXCEPT !.list[WsAt(L, id)] = [@ EXCEPT !.fc = i, !.fid = cid, !.fat = IF cid = None THEN 0 ELSE i]]

\* Mutant: by the index alone
ViewByIndex(L) == [L EXCEPT !.focus = Clamped(L.list[WsAt(L, L.active)].fc, Len(ColsOf(L, L.active)))]
\* applyWorkspaceView: the column the workspace was left on
View(L) ==
    LET e == L.list[WsAt(L, L.active)]
    IN IF e.fid # None /\ e.fat = e.fc /\ VisibleIx(L, e.fid) >= 0
         THEN [L EXCEPT !.focus = VisibleIx(L, e.fid)]
         ELSE [L EXCEPT !.focus = Clamped(e.fc, Len(ColsOf(L, L.active)))]

SwitchL(L, id) ==
    LET left1 == Recorded(L, L.active, L.focus, FocusedColumn(L))
        s == L.list[WsAt(L, id)].stack
    IN IF id \notin Names(L) \/ id = L.active THEN L
       ELSE View([left1 EXCEPT !.active = id,
                               !.rows = {IF r.id = s THEN [r EXCEPT !.last = id] ELSE r : r \in @}])

Neighbour(L, id) == LET i == WsAt(L, id) IN IF i > 1 THEN L.list[i - 1].id ELSE L.list[2].id
\* removeWorkspaceById: the columns move to the neighbour, the workspace goes
RemoveL(L, id) ==
    LET to == Neighbour(L, id)
        keep == FocusedColumn(L)
        M == [Restamped(L, LAMBDA c : WsOf(L, c) = id, to) EXCEPT !.list = RemoveAt(@, WsAt(L, id))]
    IN Heal(IF L.active = id THEN View([M EXCEPT !.active = to])
            ELSE IF keep # None /\ VisibleIx(M, keep) >= 0 THEN [M EXCEPT !.focus = VisibleIx(M, keep)]
            ELSE M)

\* A pager entry: a workspace of its own, or a stack
Entry(w) == IF w.stack = None THEN <<"w", w.id>> ELSE <<"s", w.stack>>
Entries(L) == LET es == [i \in DOMAIN L.list |-> Entry(L.list[i])]
              IN FoldLeft(LAMBDA acc, e : IF Contains(acc, e) THEN acc ELSE Append(acc, e), <<>>, es)
Block(list, e) == SelectSeq(list, LAMBDA w : Entry(w) = e)
Others(list, e) == SelectSeq(list, LAMBDA w : Entry(w) # e)

\* moveEntryTo: entry src goes before or after entry dst
MoveTo(L, src, dst, after) ==
    LET rest == Others(L.list, src)
        at == {i \in DOMAIN rest : Entry(rest[i]) = dst}
        cut == IF after THEN CHOOSE i \in at : \A j \in at : j <= i ELSE (CHOOSE i \in at : \A j \in at : i <= j) - 1
    IN IF src = dst \/ ~Contains(Entries(L), src) \/ ~Contains(Entries(L), dst) THEN L
       ELSE [L EXCEPT !.list = SubSeq(rest, 1, cut) \o Block(@, src) \o SubSeq(rest, cut + 1, Len(rest))]

\* moveEntry: one step, inside the stack for a workspace of one
MoveEntry(L, e, dir) ==
    LET es == Entries(L)
        i == IF e[1] = "w" /\ e[2] \in Names(L) THEN WsAt(L, e[2]) ELSE 0
        stacked == i > 0 /\ L.list[i].stack # None
        p == IxOf(es, e) + 1
    IN IF stacked
         THEN IF i + dir \in DOMAIN L.list /\ L.list[i + dir].stack = L.list[i].stack
              THEN [L EXCEPT !.list[i] = L.list[i + dir], !.list[i + dir] = L.list[i]] ELSE L
         ELSE IF p > 0 /\ p + dir \in DOMAIN es THEN MoveTo(L, e, es[p + dir], dir > 0) ELSE L

\* A workspace at the end of stack s, whose members are in the list
AtEndOf(list, w, s) ==
    LET at == {i \in DOMAIN list : list[i].stack = s}
        end == CHOOSE i \in at : \A j \in at : j <= i
    IN InsertAt(list, end + 1, w)
\* Mutant: the store is read while the workspace is out of the list
StackMidway(L, id, e, sid) ==
    LET i == WsAt(L, id)
        rest == RemoveAt([j \in DOMAIN L.list |-> IF e = <<"w", L.list[j].id>> THEN [L.list[j] EXCEPT !.stack = sid]
                                                  ELSE L.list[j]], i)
    IN IF \E w \in ToSet(L.list) : w.stack # None \/ e \notin {<<"w", x>> : x \in Names(L) \ {id}} THEN L
       ELSE Heal([L EXCEPT !.rows = @ \cup {[id |-> sid, last |-> None]},
                           !.active = IF @ = id THEN rest[1].id ELSE @,
                           !.list = AtEndOf(rest, [L.list[i] EXCEPT !.stack = sid], sid)])
\* stackWith: into entry e's stack, or a new stack sid at e's place
StackL(L, id, e, sid) ==
    LET i == WsAt(L, id)
        there == IF e[1] = "s" THEN e[2] \in RowIds(L) ELSE e[2] \in Names(L) \ {id}
        s == IF e[1] = "s" THEN e[2] ELSE IF L.list[WsAt(L, e[2])].stack # None THEN L.list[WsAt(L, e[2])].stack ELSE sid
        target(w) == e = <<"w", w.id>>
        rest == RemoveAt([j \in DOMAIN L.list |-> IF target(L.list[j]) THEN [L.list[j] EXCEPT !.stack = s]
                                                  ELSE L.list[j]], i)
    IN IF id \notin Names(L) \/ ~there THEN L
       ELSE IF L.list[i].stack = s THEN L
       ELSE Heal([L EXCEPT !.rows = @ \cup (IF s \in RowIds(L) THEN {} ELSE {[id |-> s, last |-> None]}),
                           !.list = AtEndOf(rest, [L.list[i] EXCEPT !.stack = s], s)])

\* unstackById: out, to just after the block
UnstackL(L, id) ==
    IF id \notin Names(L) \/ L.list[WsAt(L, id)].stack = None THEN L
    ELSE LET i == WsAt(L, id)
             w == [L.list[i] EXCEPT !.stack = None]
         IN Heal([L EXCEPT !.list = AtEndOf(RemoveAt(L.list, i), w, L.list[i].stack)])

\* rename and recolour.
Relabelled(L, id) == IF id \in Names(L) THEN [L EXCEPT !.list[WsAt(L, id)].tag = 1 - @] ELSE L
Added(L, id) == [L EXCEPT !.list = Append(@, NewWs(id))]
FreshWs(L) == Ids \ (Names(L) \cup RowIds(L))

-----------------------------------------------------------------------------
(* The page.  P is the page record; each operator is one synchronous call. *)

Saved(P) == [P EXCEPT !.owes = TRUE]
Store(P) == Do(Heal(P.L), LAMBDA L : IF L = P.L THEN P ELSE [P EXCEPT !.L = L, !.heal = TRUE])
Loose(P, k) == P.win[k] = "float" /\ P.float[k] # All /\ P.float[k] \notin Names(P.L)

\* setWindowWs: the map is saved whole
SetFloats(P, f) == [P EXCEPT !.float = f, !.kept = IF f = P.float THEN @ ELSE f]
Off(P, k) == P.win[k] = "float" /\ P.float[k] \notin {All, None, P.L.active}
Masked(P) == {k \in Keys : Off(P, k)}

\* applyWorkspaceVisibility: homes for the floats that have none, then the masks
Homed(P) == SetFloats(P, [k \in Keys |-> IF Loose(P, k) THEN P.L.active ELSE P.float[k]])
Remasked(R) == [R EXCEPT !.masked = Masked(R), !.front = IF R.front \in Masked(R) \ R.masked THEN None ELSE R.front]
Visibility(Q) == Do(Do(Store(Q), Homed), Remasked)

\* adoptUnstampedColumns
Stray(L, c) == c.ws \notin Names(L)
\* Mutant: a repair alone is not saved
ClaimQuiet(P) == LET L == Restamped(P.L, LAMBDA c : c.ws \notin Names(P.L), P.L.active)
                 IN [P EXCEPT !.L = L, !.heal = FALSE, !.owes = P.owes \/ L # P.L]

\* The columns of no known workspace go to the active one, and the page owes a
\* push for it.
Claimed(P) == LET L == Restamped(P.L, LAMBDA c : Stray(P.L, c), P.L.active)
              IN [P EXCEPT !.L = L, !.heal = FALSE, !.owes = P.owes \/ P.heal \/ L # P.L]
Stamped(P) == Do(Store(P), Claimed)

\* syncFocusedCol: only an index out of range is written
SyncFocus(P) ==
    LET f == Clamped(P.L.focus, Len(Visible(P.L)))
    IN IF f = P.L.focus THEN P ELSE Saved([P EXCEPT !.L.focus = f])

\* The mod's part of a relayout
Rendered(P) == Visibility(Do(Stamped(P), SyncFocus))

Refocusing(cs) == [on |-> TRUE, keys |-> cs]
NoRefocus == [on |-> FALSE, keys |-> <<>>]

\* bringToFront (66): a masked float is refused
Fronted(P, k) ==
    IF P.win[k] = "none" \/ k \in P.masked THEN P
    ELSE IF P.win[k] = "float" \/ ~Holds(P.L, k) \/ VisibleIx(P.L, ColOf(P.L, k).id) < 0 THEN [P EXCEPT !.front = k]
    ELSE Saved([P EXCEPT !.front = k, !.L.focus = VisibleIx(P.L, ColOf(P.L, k).id)])

LiveIn(P, cid) == SelectSeq((CHOOSE c \in ToSet(P.L.cols) : c.id = cid).keys, LAMBDA k : P.win[k] = "tiled")
FirstFronted(P) ==
    LET c == FocusedColumn(P.L)
    IN IF c = None \/ LiveIn(P, c) = <<>> THEN P ELSE Fronted(P, LiveIn(P, c)[1])

Switched(Q, id) ==
    Do(Store(Q), LAMBDA P : IF id \notin Names(P.L) \/ id = P.L.active THEN P
                            ELSE Do(Rendered(Visibility(Saved([P EXCEPT !.L = SwitchL(P.L, id)]))), FirstFronted))

\* The floats of a workspace follow it.
FloatsTo(P, from, to) == SetFloats(P, [k \in Keys |-> IF P.float[k] = from THEN to ELSE P.float[k]])
Removed(Q, id) ==
    Do(Store(Q), LAMBDA P : IF id \notin Names(P.L) \/ Len(P.L.list) <= 1 THEN P
         ELSE Visibility(Rendered(Saved([FloatsTo(P, id, Neighbour(P.L, id)) EXCEPT !.L = RemoveL(P.L, id)]))))

NewIn(P, id) == Switched(Saved([P EXCEPT !.L = Added(@, id)]), id)
Regrouped(Q, Op(_)) ==
    Do(Store(Q), LAMBDA P : Do(Op(P.L), LAMBDA L : IF L = P.L THEN P ELSE Saved([P EXCEPT !.L = L])))

\* expelToNewColumn (58): a column of its own, beside the one it shared
NewCol(k, cid, ws) == [id |-> cid, ws |-> ws, keys |-> <<k>>]
ColIx(L, cid) == IxOf(ColIds(L.cols), cid) + 1
Expelled(P, k, cid) ==
    LET c == ColOf(P.L, k)
        L == [P.L EXCEPT !.cols = InsertAt([i \in DOMAIN P.L.cols |-> [P.L.cols[i] EXCEPT !.keys = Remove(@, k)]],
                                           ColIx(P.L, c.id) + 1, NewCol(k, cid, P.L.active))]
    IN Fronted(Saved([P EXCEPT !.L = [L EXCEPT !.focus = VisibleIx(L, cid)], !.relay = TRUE]), k)

\* The column stands after the last column of its new workspace
Seated(L, cid, id) ==
    LET c == L.cols[ColIx(L, cid)]
        rest == SelectSeq(L.cols, LAMBDA d : d.id # cid)
        peers == {i \in DOMAIN rest : WsOf(L, rest[i]) = id}
    IN [L EXCEPT !.cols = IF peers = {} THEN Append(rest, c)
                          ELSE InsertAt(rest, (CHOOSE i \in peers : \A j \in peers : j <= i) + 1, c)]

SendFocus(L, keep, i) == IF keep # None /\ VisibleIx(L, keep) >= 0 THEN VisibleIx(L, keep)
                         ELSE Clamped(i, Len(Visible(L)))
\* The views of the workspace it leaves and of the one on screen
Viewed(T, id, i) == View(IF id = T.active THEN T ELSE Recorded(T, T.active, i, ColAt(T, i)))
Noted(M, id, c) == Recorded(M, id, IxOf(ColIds(ColsOf(M, id)), c), c)
SentL(L, c, id, keep, i) ==
    Do(Seated([L EXCEPT !.cols[ColIx(L, c)].ws = id], c, id), LAMBDA M :
       Do(Noted(M, id, c), LAMBDA T : Viewed(T, id, SendFocus(T, keep, i))))
\* E is the page P once the window has a column of its own
SentFrom(P, E, k, id) ==
    Saved([E EXCEPT !.L = SentL(@, ColOf(E.L, k).id, id, FocusedColumn(P.L), P.L.focus), !.relay = TRUE,
                    !.front = IF @ = k THEN None ELSE @,
                    !.refocus = IF P.front = k THEN Refocusing(Remove(ColOf(P.L, k).keys, k)) ELSE @])
SentTo(Q, k, id, cid) ==
    Do(Store(Q), LAMBDA P :
       IF P.win[k] = "none" \/ id \notin Names(P.L) \/ ~Holds(P.L, k) THEN P
       ELSE IF WsOf(P.L, ColOf(P.L, k)) = id THEN P
       ELSE Do(IF Len(ColOf(P.L, k).keys) > 1 THEN Expelled(P, k, cid) ELSE P, LAMBDA E : SentFrom(P, E, k, id)))
SentToNew(Q, k, id, cid) == Do(Store(Q), LAMBDA P : SentTo(Saved([P EXCEPT !.L = Added(@, id)]), k, id, cid))

\* A float is placed (adoptFloatWorkspace); hint is the workspace its column was on
SetHome(P, k, id) == SetFloats(P, [P.float EXCEPT ![k] = id])
Hinted(P, k, hint) == IF hint \in Names(P.L) THEN SetHome(P, k, hint) ELSE P
AtHome(P, k) == IF Loose(P, k) THEN SetHome(P, k, P.L.active) ELSE P
MaskedIfOff(P, k) == IF Off(P, k) THEN [P EXCEPT !.masked = @ \cup {k}, !.front = IF @ = k THEN None ELSE @]
                     ELSE [P EXCEPT !.masked = @ \ {k}]
Placed(Q, k, hint) ==
    MaskedIfOff(Do(Do(Store(Q), LAMBDA P : Hinted(P, k, hint)), LAMBDA P : AtHome(P, k)), k)

\* The reveal hook, then the focus (62a, revealAndFocusWindow)
Revealed(P, k) ==
    LET tiledOff == P.win[k] = "tiled" /\ Holds(P.L, k) /\ VisibleIx(P.L, ColOf(P.L, k).id) < 0
    IN Fronted(IF tiledOff THEN Switched(P, WsOf(P.L, ColOf(P.L, k)))
               ELSE IF Off(P, k) THEN Visibility(SetFloats(P, [P.float EXCEPT ![k] = P.L.active]))
               ELSE IF k \in P.masked THEN Visibility(P) ELSE P, k)

\* A click on a taskbar chip: the mod switches first (75, onTaskbarClick)
ChipWs(P, k) == IF Holds(P.L, k) THEN WsOf(P.L, ColOf(P.L, k)) ELSE P.float[k]
ChipClicked(Q, k) ==
    Do(Do(Store(Q), LAMBDA P : IF ChipWs(P, k) \in Names(P.L) THEN Switched(P, ChipWs(P, k)) ELSE P),
       LAMBDA S : Fronted(IF k \in S.masked THEN Revealed(S, k) ELSE S, k))

\* Another browser's layout replaces this one (52, _applyServerState); a tiled
\* window it has no column for was floated there (62a, reconcileWindowRoles)
Taken(L) == [L EXCEPT !.focus = Clamped(@, Len(L.cols))]
Lost(P, M) == {k \in Keys : P.win[k] = "tiled" /\ Holds(P.L, k) /\ ~Holds(M, k)}
Floated(P, k, hint) ==
    Do(Placed([P EXCEPT !.win[k] = "float"], k, hint), LAMBDA R : IF R.front = k THEN Fronted(R, k) ELSE R)
TakenOver(P, L) ==
    Do(Taken(L), LAMBDA M :
       FoldLeft(LAMBDA Q, k : Floated(Q, k, ColOf(P.L, k).ws),
                [P EXCEPT !.L = M, !.base = M, !.owes = FALSE, !.relay = TRUE], SetToSeq(Lost(P, M))))

-----------------------------------------------------------------------------
(* The actions *)

NoGesture == [op |-> "none", a |-> None, b |-> <<"w", None>>, dir |-> 1]
Did(op, id) == did' = [op |-> op, id |-> id]
Spend(x) == left[x] > 0 /\ left' = [left EXCEPT ![x] = @ - 1]

Init ==
    /\ \E start \in Starts : LET L == start.layout IN
         /\ left = start.budget
         /\ srv = [rev |-> 1, L |-> L]
         /\ pg = [L |-> L, base |-> L, rev |-> 1, heal |-> FALSE, owes |-> FALSE, relay |-> TRUE,
                  float |-> [k \in Keys |-> None], kept |-> [k \in Keys |-> None],
                  win |-> [k \in Keys |-> IF Holds(L, k) THEN "tiled" ELSE "none"],
                  masked |-> {}, front |-> None, refocus |-> NoRefocus]
    /\ held = NoGesture /\ seen = [id \in Ids |-> None] /\ own = FALSE
    /\ did = [op |-> "start", id |-> None]

\* The menu, the dialog or the drag names what it will act on
Gestures(L, es) ==
    [op : {"switch", "remove", "relabel", "unstack"}, a : Names(L), b : {<<"w", None>>}, dir : {1}]
    \cup [op : {"stack"}, a : Names(L), b : es, dir : {1}]
    \cup [op : {"move"}, a : {None}, b : es \cup {<<"w", id>> : id \in Names(L)}, dir : {-1, 1}]
    \cup [op : {"drag"}, a : {None}, b : es, dir : {1}]
    \cup {[op |-> "send", a |-> k, b |-> <<"w", id>>, dir |-> 1] : k \in Keys, id \in Names(L)}
    \cup [op : {"sendnew", "pin"}, a : Keys, b : {<<"w", None>>}, dir : {1}]
    \cup {[NoGesture EXCEPT !.op = "add"]}
Open ==
    /\ held = NoGesture
    /\ \E L \in {Heal(pg.L)} : \E g \in Gestures(L, ToSet(Entries(L))) : Spend(g.op) /\ held' = g
    /\ pg' = Store(pg) /\ Did("open", None) /\ UNCHANGED <<srv, seen, own>>

\* A column that is new has an id of its own.
FreshCol(L) == CHOOSE c \in Cols : c \notin {L.cols[i].id : i \in DOMAIN L.cols}
\* What the click, the confirmed dialog or the drop does, resolved now
Effect(P, g, id, dst, after) ==
    CASE g.op = "switch"  -> Switched(P, g.a)
      [] g.op = "remove"  -> Removed(P, g.a)
      [] g.op = "relabel" -> Regrouped(P, LAMBDA L : Relabelled(L, g.a))
      [] g.op = "unstack" -> Regrouped(P, LAMBDA L : UnstackL(L, g.a))
      [] g.op = "stack"   -> Regrouped(P, LAMBDA L : StackL(L, g.a, g.b, id))
      [] g.op = "move"    -> Regrouped(P, LAMBDA L : MoveEntry(L, g.b, g.dir))
      [] g.op = "drag"    -> Regrouped(P, LAMBDA L : MoveTo(L, g.b, dst, after))
      [] g.op = "send"    -> SentTo(P, g.a, g.b[2], FreshCol(P.L))
      [] g.op = "sendnew" -> SentToNew(P, g.a, id, FreshCol(P.L))
      [] g.op = "pin"     -> IF P.win[g.a] # "float" THEN P
                             ELSE Visibility(SetFloats(P, [P.float EXCEPT ![g.a] = IF @ = All THEN P.L.active ELSE All]))
      [] g.op = "add"     -> NewIn(Store(P), id)
NeedsId(g) == g.op \in {"stack", "sendnew", "add"}
NotesLeaving(L, M) ==
    seen' = IF L.active # M.active THEN [seen EXCEPT ![L.active] = FocusedColumn(L)] ELSE seen
Sent(P, g) == IF g.op \in {"send", "sendnew"} /\ Holds(P.L, g.a) THEN WsOf(Heal(P.L), ColOf(P.L, g.a)) ELSE None
Act ==
    /\ held.op # "none"
    /\ \E id \in IF NeedsId(held) THEN FreshWs(Heal(pg.L)) ELSE {None},
          dst \in IF held.op = "drag" THEN ToSet(Entries(Heal(pg.L))) ELSE {<<"w", None>>},
          after \in IF held.op = "drag" THEN BOOLEAN ELSE {TRUE} :
         pg' = Effect(pg, held, id, dst, after)
    /\ IF Sent(pg', held) # Sent(pg, held)   \* sent: the workspace will show that window first
         THEN seen' = [seen EXCEPT ![Sent(pg', held)] = ColOf(pg'.L, held.a).id]
         ELSE NotesLeaving(Heal(pg.L), pg'.L)
    /\ own' = TRUE /\ held' = NoGesture /\ Did(held.op, held.a) /\ UNCHANGED <<srv, left>>
Cancel == held.op # "none" /\ held' = NoGesture /\ Did("cancel", None) /\ UNCHANGED <<pg, srv, seen, own, left>>

Core(P, op) == pg' = P /\ own' = TRUE /\ Did(op, None) /\ UNCHANGED <<srv, held>>
OpenFloat(k) == pg.win[k] = "none" /\ ~Holds(pg.L, k) /\ Spend("float")
                /\ Core(Fronted(Placed([pg EXCEPT !.win[k] = "float"], k, None), k), "core") /\ UNCHANGED seen
CloseFloat(k) == pg.win[k] = "float" /\ Spend("close")   \* onForgotten drops the entry of the map in memory
                 /\ Core([pg EXCEPT !.win[k] = "none", !.float[k] = None, !.masked = @ \ {k},
                                    !.front = IF @ = k THEN None ELSE @], "core") /\ UNCHANGED seen
Reveal(k) == pg.win[k] # "none" /\ Spend("reveal") /\ Core(Revealed(Store(pg), k), "core") /\ NotesLeaving(Heal(pg.L), pg'.L)
Chip(k) == pg.win[k] # "none" /\ Spend("reveal") /\ Core(ChipClicked(pg, k), "core") /\ NotesLeaving(Heal(pg.L), pg'.L)
FocusTile(k) == pg.win[k] = "tiled" /\ Holds(pg.L, k) /\ VisibleIx(pg.L, ColOf(pg.L, k).id) >= 0
                /\ Spend("focus") /\ Core(Fronted(pg, k), "core") /\ UNCHANGED seen

Refocus ==   \* reconcileTiledFocus, in the next frame
    /\ pg.refocus.on
    /\ LET ks == SelectSeq(pg.refocus.keys, LAMBDA k : pg.win[k] = "tiled")
           P == [pg EXCEPT !.refocus = NoRefocus]
       IN pg' = IF ks # <<>> THEN Fronted(P, ks[1]) ELSE FirstFronted(P)
    /\ Did("refocus", None) /\ UNCHANGED <<srv, held, seen, own, left>>
Relayout == /\ pg.relay /\ pg' = Rendered([pg EXCEPT !.relay = FALSE])
            /\ Did("relayout", None) /\ UNCHANGED <<srv, held, seen, own, left>>

Push ==
    /\ pg.owes
    /\ \/ pg.L = pg.base /\ pg' = [pg EXCEPT !.owes = FALSE] /\ UNCHANGED <<srv, own>>
       \/ /\ pg.L # pg.base /\ pg.rev = srv.rev /\ UNCHANGED own
          /\ srv' = [rev |-> srv.rev + 1, L |-> pg.L]
          /\ pg' = [pg EXCEPT !.owes = FALSE, !.base = pg.L, !.rev = srv.rev + 1]
       \/ /\ pg.L # pg.base /\ pg.rev # srv.rev /\ UNCHANGED srv /\ own' = FALSE
          /\ pg' = [TakenOver(pg, srv.L) EXCEPT !.rev = srv.rev]
    /\ Did("push", None) /\ UNCHANGED <<held, seen, left>>
Poll == /\ pg.rev # srv.rev /\ ~pg.owes /\ pg' = [TakenOver(pg, srv.L) EXCEPT !.rev = srv.rev] /\ own' = FALSE
        /\ Did("poll", None) /\ UNCHANGED <<srv, held, seen, left>>
Reload == /\ Spend("reload") /\ own' = FALSE /\ held' = NoGesture
          /\ pg' = [TakenOver([pg EXCEPT !.float = pg.kept, !.heal = FALSE, !.refocus = NoRefocus, !.front = None,
                                         !.masked = {}], srv.L) EXCEPT !.rev = srv.rev]
          /\ Did("reload", None) /\ UNCHANGED <<srv, seen>>

\* Another browser writes /state: the same operations, and a browser without
\* the mod, which makes columns nobody claimed and counts all of them
PeerWrites(L) ==
    {SwitchL(L, id) : id \in Names(L)}
    \cup {RemoveL(L, id) : id \in {x \in Names(L) : Len(L.list) > 1}}
    \cup {Added(L, id) : id \in FreshWs(L)}
    \cup {MoveEntry(L, e, 1) : e \in ToSet(Entries(L))}
    \cup {StackL(L, x, <<"w", y>>, id) : x \in Names(L), y \in Names(L), id \in FreshWs(L)}
    \cup {UnstackL(L, id) : id \in Names(L)}
    \cup {[L EXCEPT !.focus = i - 1] : i \in DOMAIN L.cols}
    \cup {[L EXCEPT !.cols[i].ws = None] : i \in DOMAIN L.cols}
    \cup {[L EXCEPT !.cols = RemoveAt(@, i)] : i \in DOMAIN L.cols}
Peer == /\ Spend("peer") /\ \E M \in PeerWrites(Heal(srv.L)) : srv' = [rev |-> srv.rev + 1, L |-> M]
        /\ Did("peer", None) /\ UNCHANGED <<pg, held, seen, own>>

Next == \/ Open \/ Act \/ Cancel
        \/ \E k \in Keys : OpenFloat(k) \/ CloseFloat(k) \/ Reveal(k) \/ Chip(k) \/ FocusTile(k)
        \/ Refocus \/ Relayout \/ Push \/ Poll \/ Reload \/ Peer

Spec == Init /\ [][Next]_vars
-----------------------------------------------------------------------------
(* Properties *)

TypeOK ==
    /\ \A i \in DOMAIN pg.L.list : /\ pg.L.list[i].id \in Ids /\ pg.L.list[i].stack \in Ids \cup {None}
                                   /\ pg.L.list[i].fid \in Cols \cup {None}
    /\ \A i \in DOMAIN pg.L.cols : pg.L.cols[i].id \in Cols /\ pg.L.cols[i].ws \in Ids \cup {None}
    /\ pg.float \in [Keys -> Ids \cup {None, All}] /\ pg.kept \in [Keys -> Ids \cup {None, All}]
    /\ pg.win \in [Keys -> {"none", "tiled", "float"}] /\ pg.masked \subseteq Keys
    /\ pg.front \in Keys \cup {None} /\ {pg.heal, pg.owes, pg.relay, own} \subseteq BOOLEAN
    /\ seen \in [Ids -> Cols \cup {None}]

\* What a menu, a dialog or a drag does concerns what it named when it was
\* opened, although workspaces were moved, added or removed meanwhile.  The
\* other windows keep their workspaces
Acted == did'.op \in {"switch", "remove", "relabel", "stack", "unstack", "move", "drag", "send", "sendnew"}
Place(P, k) == IF P.win[k] = "tiled" /\ Holds(P.L, k) THEN WsOf(P.L, ColOf(P.L, k)) ELSE P.float[k]
ActsOnTheNamedStep ==
    Acted =>
         LET L == Heal(pg.L) M == pg'.L IN
         /\ Names(L) \ Names(M) \subseteq (IF held.op = "remove" THEN {held.a} ELSE {})
         /\ \A k \in Keys : Place([pg EXCEPT !.L = L], k) \in {Place(pg', k), None}
                            \/ (held.op = "remove" /\ Place([pg EXCEPT !.L = L], k) \in {held.a} \cup (Ids \ Names(L)))
                            \/ (held.op \in {"send", "sendnew"} /\ k = held.a)
                            \/ Place([pg EXCEPT !.L = L], k) \notin Names(L)
         /\ held.op \notin {"switch", "remove"} => M.active = L.active

\* Going back to a workspace goes back to the column it was left on (#247)
ReturnsToItsColumnStep ==
    pg'.L.active # pg.L.active /\ did'.op \in {"switch", "core", "remove"} =>
         LET c == seen[pg'.L.active]
         IN c # None /\ VisibleIx(pg'.L, c) >= 0 => FocusedColumn(pg'.L) = c

================================================================================
