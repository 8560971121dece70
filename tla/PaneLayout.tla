----------------------------- MODULE PaneLayout -----------------------------
(***************************************************************************)
(* The panes of one window: the binary split tree of src/layout.rs, the    *)
(* set of panes around it (src/pane_set.rs), the hidden pane that a close  *)
(* can be undone from (src/closed_pane.rs), and the sizes of the PTYs,     *)
(* which every handler of src/terminal.rs that changes the geometry has to *)
(* bring up to date.  A pane that would get no cell makes that fail, and   *)
(* the failure ends the session with all its shells.                       *)
(*                                                                         *)
(* A tree is two functions on paths: a path is a sequence over {1, 2}, the *)
(* first and second child of every split on the way down from the root.    *)
(* Dimension 1 are the rows, dimension 2 the columns.                      *)
(***************************************************************************)
EXTENDS Integers, FiniteSets, SequencesExt

CONSTANTS
    Heights,     \* numbers of rows, and ...
    Widths,      \* ... of columns that the window's canvas can have
    MaxPanes,    \* MAX_PANES
    Ids,         \* pane identities; more are given out over time, never one twice
    Cells,       \* cells of a scripted resize or of a movement of the pointer
    None

ASSUME LayoutAssumption ==
    /\ Heights \subseteq Nat \ {0} /\ Widths \subseteq Nat \ {0}
    /\ MaxPanes \in Nat \ {0}
    /\ Cells \subseteq Nat \ {0}

VARIABLES
    layout,      \* tree, size, focus, zoom and next identity
    closed,      \* the hidden pane with the layouts around its close, or None
    pty,         \* size of the PTY of every visible pane
    dragging,    \* a separator has been dragged, the PTYs follow later
    status       \* "running", "exited", or "failed" by an error

vars == <<layout, closed, pty, dragging, status>>

-----------------------------------------------------------------------------
(* The tree.                                                               *)

Dimensions == {1, 2}
Sizes == Heights \X Widths
Border == 2         \* SPLIT_BORDER_CELLS

Larger(m, n) == IF m < n THEN n ELSE m
Clamp(n, low, high) == IF n < low THEN low ELSE IF n > high THEN high ELSE n

Panes(l) == {l.leaf[p] : p \in DOMAIN l.leaf}
Count(l) == Cardinality(DOMAIN l.leaf)
Nodes(l) == DOMAIN l.leaf \cup DOMAIN l.split
PathOf(l, id) == CHOOSE p \in DOMAIN l.leaf : l.leaf[p] = id
Tree(l) == [leaf |-> l.leaf, split |-> l.split]

\* The first subtree comes before the second.
Before(p, q) ==
    \E n \in 1 .. Len(p) :
        /\ n <= Len(q) /\ p[n] < q[n]
        /\ \A m \in 1 .. n - 1 : p[m] = q[m]

Order(l) ==
    [i \in 1 .. Count(l) |->
       l.leaf[CHOOSE p \in DOMAIN l.leaf :
                Cardinality({q \in DOMAIN l.leaf : Before(q, p)}) = i - 1]]

\* Mutant: the separators are forgotten.
MinimumOfPanes(l) ==
    LET m[p \in Nodes(l)] ==
          IF p \in DOMAIN l.leaf THEN <<1, 1>>
          ELSE LET a == m[p \o <<1>>]
                   b == m[p \o <<2>>]
               IN  [d \in Dimensions |->
                      IF d = l.split[p].axis THEN a[d] + b[d] ELSE Larger(a[d], b[d])]
    IN  [p \in Nodes(l) |-> m[p]]

\* Node::minimum of every node.
Minimum(l) ==
    LET m[p \in Nodes(l)] ==
          IF p \in DOMAIN l.leaf THEN <<1, 1>>
          ELSE LET a == m[p \o <<1>>]
                   b == m[p \o <<2>>]
               IN  [d \in Dimensions |->
                      IF d = l.split[p].axis THEN a[d] + Border + b[d]
                                             ELSE Larger(a[d], b[d])]
    IN  [p \in Nodes(l) |-> m[p]]

\* split_rects: the share of the space without the separator, within minima.
FirstExtent(l, m, p, extent) ==
    LET s == l.split[p]
        available == extent - Border
    IN  Clamp((available * s.share[1]) \div s.share[2],
              m[p \o <<1>>][s.axis], available - m[p \o <<2>>][s.axis])

\* The rectangle of every node; at counts from zero.
Rects(l) ==
    LET m == Minimum(l)
        r[p \in Nodes(l)] ==
          IF p = <<>> THEN [at |-> <<0, 0>>, size |-> l.size]
          ELSE LET q == Front(p)
                   d == l.split[q].axis
                   whole == r[q]
                   first == FirstExtent(l, m, q, whole.size[d])
               IN  IF Last(p) = 1
                   THEN [whole EXCEPT !.size[d] = first]
                   ELSE [at |-> [whole.at EXCEPT ![d] = @ + first + Border],
                         size |-> [whole.size EXCEPT ![d] = @ - Border - first]]
    IN  [p \in Nodes(l) |-> r[p]]

\* content_geometry: a rectangle at the edge of the canvas loses a border cell.
Content(l, rect) ==
    [d \in Dimensions |->
       IF l.size[d] < 3 THEN rect.size[d]
       ELSE rect.size[d] - (IF rect.at[d] = 0 THEN 1 ELSE 0)
              - (IF rect.at[d] + rect.size[d] = l.size[d] THEN 1 ELSE 0)]

\* The sizes that the PTYs should have; a zoomed pane fills the canvas.
PtySizes(l) ==
    LET r == Rects(l)
    IN  [id \in Panes(l) |->
           IF l.zoomed /\ id = l.active
           THEN Content(l, [at |-> <<0, 0>>, size |-> l.size])
           ELSE Content(l, r[PathOf(l, id)])]

HasCells(sizes) == \A id \in DOMAIN sizes, d \in Dimensions : sizes[id][d] > 0

\* require_content_cells looks at the tiled geometry, zoomed or not.
Fits(l) == HasCells(PtySizes([l EXCEPT !.zoomed = FALSE]))

RootFits(l, size) == \A d \in Dimensions : Minimum(l)[<<>>][d] <= size[d]

-----------------------------------------------------------------------------
(* Changes of a tree.                                                      *)

\* Layout::new.
Single(size, id) ==
    [leaf |-> [p \in {<<>>} |-> id], split |-> <<>>, size |-> size,
     active |-> id, zoomed |-> FALSE]

\* Identities count up in the code; here one that nothing mentions is new.
NewIds(l) ==
    Ids \ (Panes(l) \cup IF closed = None THEN {} ELSE Panes(closed.before))

\* split_active: the active pane becomes a split of itself and a new one.
CanSplit(l, axis) ==
    /\ Count(l) < MaxPanes
    /\ Rects(l)[PathOf(l, l.active)].size[axis] >= 2 + Border

Split(l, axis, id) ==
    LET p == PathOf(l, l.active)
        first == p \o <<1>>
        second == p \o <<2>>
    IN  [l EXCEPT
           !.leaf = [q \in (DOMAIN l.leaf \ {p}) \cup {first, second} |->
                       IF q = first THEN l.active ELSE IF q = second THEN id ELSE l.leaf[q]],
           !.split = [q \in DOMAIN l.split \cup {p} |->
                        IF q = p THEN [axis |-> axis, share |-> <<1, 2>>] ELSE l.split[q]],
           !.active = id, !.zoomed = FALSE]

\* The neighbour that inherits the focus of a closed pane.
Heir(l, id) ==
    LET o == Order(l)
        i == CHOOSE n \in DOMAIN o : o[n] = id
    IN  IF i = Len(o) THEN o[i - 1] ELSE o[i + 1]

\* Node::remove: the sibling's subtree takes the place of the parent.
Removed(l, id) ==
    LET p == PathOf(l, id)
        parent == Front(p)
        sibling == parent \o <<3 - Last(p)>>
        Promote(q) == IF IsPrefix(sibling, q)
                      THEN parent \o SubSeq(q, Len(sibling) + 1, Len(q)) ELSE q
        Demote(q) == IF IsPrefix(parent, q)
                     THEN sibling \o SubSeq(q, Len(parent) + 1, Len(q)) ELSE q
    IN  [l EXCEPT
           !.leaf = [q \in {Promote(x) : x \in DOMAIN l.leaf \ {p}} |-> l.leaf[Demote(q)]],
           !.split = [q \in {Promote(x) : x \in DOMAIN l.split \ {parent}} |->
                        l.split[Demote(q)]],
           !.active = IF l.active = id THEN Heir(l, id) ELSE l.active]

\* Layout::close.
Without(l, id) == [Removed(l, id) EXCEPT !.zoomed = FALSE]

\* Node::exchange.
Exchange(l, a, b) ==
    [l EXCEPT !.leaf = [p \in DOMAIN l.leaf |->
                          CASE l.leaf[p] = a -> b [] l.leaf[p] = b -> a
                            [] OTHER -> l.leaf[p]]]

\* adjust_share: the separator of split p moves by delta, within the minima.
MoveSeparator(l, p, delta) ==
    LET d == l.split[p].axis
        m == Minimum(l)
        extent == Rects(l)[p].size[d]
        first == FirstExtent(l, m, p, extent)
        moved == Clamp(first + delta, m[p \o <<1>>][d],
                       extent - Border - m[p \o <<2>>][d])
    IN  IF moved = first THEN l
        ELSE [l EXCEPT !.split[p].share = <<moved, extent - Border>>]

\* Layout::adjust_pane: the nearest split around the pane on that axis, alone.
Adjust(l, id, axis, delta) ==
    LET path == PathOf(l, id)
        around == {p \in DOMAIN l.split : IsPrefix(p, path) /\ l.split[p].axis = axis}
    IN  IF around = {} THEN l
        ELSE MoveSeparator(l, CHOOSE p \in around : \A q \in around : Len(q) <= Len(p),
                           delta)

\* focus_score: what a pane at r prefers of a pane at s in a direction.
Start(r, d) == r.at[d]
End(r, d)   == r.at[d] + r.size[d]

Gap(r, s, d, forward) ==
    IF forward THEN Start(s, d) - End(r, d) ELSE Start(r, d) - End(s, d)

Overlap(r, s, d) ==
    (IF End(r, d) < End(s, d) THEN End(r, d) ELSE End(s, d))
      - Larger(Start(r, d), Start(s, d))

Distance(m, n) == IF m < n THEN n - m ELSE m - n

Score(r, s, d, forward) ==
    LET c == 3 - d
    IN  <<Gap(r, s, d, forward), Distance(Start(r, c), Start(s, c)),
          -Overlap(r, s, c),
          Distance(Start(r, c) + End(r, c), Start(s, c) + End(s, c))>>

Lower(s, t) ==
    \E n \in DOMAIN s : s[n] < t[n] /\ \A m \in 1 .. n - 1 : s[m] = t[m]

\* directional_neighbor, as a set of at most one pane.
Neighbor(l, id, d, forward) ==
    LET r == Rects(l)
        from == PathOf(l, id)
        score == [p \in DOMAIN l.leaf |-> Score(r[from], r[p], d, forward)]
        options == {p \in DOMAIN l.leaf \ {from} :
                      score[p][1] >= 0 /\ score[p][3] < 0}
    IN  {l.leaf[p] : p \in {p \in options : \A q \in options \ {p} :
           Lower(score[p], score[q]) \/ (~Lower(score[q], score[p]) /\ Before(p, q))}}

\* Layout::resize never changes the tree.
Resized(l, size) == [l EXCEPT !.size = size]

\* restore_closed: the old tree when the window still has the one the close
\* left behind, else a new split on the old axis.  (The pane then gets a new
\* identity; its old one, which nothing else mentions, stands for it.)
ParentAxis(l, id) ==
    LET p == PathOf(l, id) IN IF p = <<>> THEN 2 ELSE l.split[Front(p)].axis

\* Mutant: any tree with as many panes passes for the one of the close.
CanRestoreTreeByCount(l, c) ==
    Count(l) = Count(c.after) /\ RootFits(c.before, l.size)

CanRestoreTree(l, c) == Tree(l) = c.after /\ RootFits(c.before, l.size)

Restored(l, c) ==
    IF CanRestoreTree(l, c)
    THEN [l EXCEPT !.leaf = c.before.leaf, !.split = c.before.split,
                   !.active = c.id, !.zoomed = FALSE]
    ELSE Split(l, ParentAxis(c.before, c.id), c.id)

CanRestore(l, c) ==
    \/ CanRestoreTree(l, c)
    \/ Tree(l) # c.after /\ CanSplit(l, ParentAxis(c.before, c.id))

-----------------------------------------------------------------------------
(* The handlers of the event loop.  Each one that changes the geometry ends *)
(* with PaneSet::synchronize_sizes, here or in the refresh after a script   *)
(* request; its error is the end of the session.                            *)

Becomes(l, pending) ==
    /\ layout' = l
    /\ \/ /\ HasCells(PtySizes(l))
          /\ pty' = PtySizes(l) /\ dragging' \in pending /\ status' = status
       \/ /\ ~HasCells(PtySizes(l))
          /\ pty' = <<>> /\ dragging' = FALSE /\ status' = "failed"

\* A script request also drops a pending resize, a key leaves it.
Refresh == {dragging, FALSE}

Init ==
    /\ \E size \in Sizes, id \in Ids : layout = Single(size, id)
    /\ closed = None
    /\ pty = PtySizes(layout)
    /\ dragging = FALSE
    /\ status = "running"

Selected(id) == [layout EXCEPT !.active = id]

\* Mutant: the new pane's cells inside the border are not checked.
SplitPaneUnchecked(id, axis) ==
    /\ CanSplit(Selected(id), axis)
    /\ \E new \in NewIds(layout) : Becomes(Split(Selected(id), axis, new), Refresh)
    /\ UNCHANGED closed

\* WindowKey::Split and script split-pane.  A candidate that has no cell for
\* some pane, or a shell that cannot be spawned, leaves everything as it was.
SplitPane(id, axis) ==
    /\ CanSplit(Selected(id), axis)
    /\ \E new \in NewIds(layout) :
         /\ Fits(Split(Selected(id), axis, new))
         /\ Becomes(Split(Selected(id), axis, new), Refresh)
    /\ UNCHANGED closed

\* Script close-pane, or an exited shell.  The last one ends the session.
ClosePane(id) ==
    \/ /\ Count(layout) > 1
       /\ Becomes(Without(layout, id), Refresh)
       /\ UNCHANGED closed
    \/ /\ Count(layout) = 1
       /\ status' = "exited"
       /\ UNCHANGED <<layout, closed, pty, dragging>>

\* A pane closed by key is kept for undo; one kept before is dropped.
HidePane(id) ==
    /\ Count(layout) > 1
    /\ Becomes(Without(layout, id), {dragging})
    /\ closed' = [before |-> Tree(layout), after |-> Tree(layout'), id |-> id]

\* The hidden shell exits.
HiddenExits ==
    /\ closed # None
    /\ closed' = None
    /\ UNCHANGED <<layout, pty, dragging, status>>

\* ClosedPane::restore resizes the hidden pane alone before it is inserted; when
\* that fails the slot is kept, when the others cannot follow the session ends.
UndoClose ==
    /\ closed # None /\ CanRestore(layout, closed)
    /\ LET l == Restored(layout, closed)
       IN  /\ \A d \in Dimensions : PtySizes(l)[l.active][d] > 0
           /\ Becomes(l, {dragging})
    /\ closed' = None

SelectPane(id) == Becomes(Selected(id), Refresh) /\ UNCHANGED closed

SelectDirection(id, d, forward) ==
    \E other \in Neighbor(layout, id, d, forward) : SelectPane(other)

\* Swap and move are refused while zoomed.
SwapPanes(a, b) ==
    /\ ~layout.zoomed /\ a # b
    /\ Becomes(Exchange(layout, a, b), Refresh)
    /\ UNCHANGED closed

MovePane(id, d, forward) ==
    \E other \in Neighbor(layout, id, d, forward) : SwapPanes(id, other)

Signed(cells, forward) == IF forward THEN cells ELSE -cells

\* PaneSet::resize_pane: the largest movement that leaves every pane a cell; the
\* binary search finds it, since a pane that has lost its cells by a movement
\* does not get them back by a longer one.
ResizePane(id, d, forward, cells) ==
    LET moved(n) == Adjust(layout, id, d, Signed(n, forward))
        allowed == {n \in 1 .. cells : moved(n) # layout /\ Fits(moved(n))}
    IN  /\ ~layout.zoomed /\ allowed # {}
        /\ Becomes(moved(Max(allowed)), Refresh)
        /\ UNCHANGED closed

\* A separator follows the pointer; the PTYs follow after 33 ms or the release.
\* Several movements before that are one.
Drag(p, cells, forward) ==
    LET l == MoveSeparator(layout, p, Signed(cells, forward))
    IN  /\ ~layout.zoomed /\ ~dragging /\ l # layout
        /\ layout' = l /\ dragging' = TRUE
        /\ UNCHANGED <<closed, pty, status>>

FinishDrag ==
    /\ dragging
    /\ Becomes(layout, {FALSE})
    /\ UNCHANGED closed

\* Mutant: a handler that forgets to synchronize.
ZoomPaneAlone(id) ==
    /\ layout' = [Selected(id) EXCEPT !.zoomed = Count(layout) > 1 /\ ~layout.zoomed]
    /\ UNCHANGED <<closed, pty, dragging, status>>

\* WindowKey::ToggleZoom and script zoom-pane.
ZoomPane(id) ==
    /\ Becomes([Selected(id) EXCEPT !.zoomed = Count(layout) > 1 /\ ~layout.zoomed], Refresh)
    /\ UNCHANGED closed

\* The outer terminal has a new size.  A window that does not fit is an error.
ResizeOuter(size) ==
    /\ size # layout.size
    /\ \/ /\ RootFits(layout, size) /\ Fits(Resized(layout, size))
          /\ Becomes(Resized(layout, size), {FALSE})
       \/ /\ ~(RootFits(layout, size) /\ Fits(Resized(layout, size)))
          /\ status' = "failed" /\ UNCHANGED <<layout, pty, dragging>>
    /\ UNCHANGED closed

PaneStep(id) ==
    \/ ClosePane(id) \/ HidePane(id) \/ SelectPane(id) \/ ZoomPane(id)
    \/ \E b \in Panes(layout) : SwapPanes(id, b)
    \/ \E d \in Dimensions : SplitPane(id, d)
    \/ \E d \in Dimensions, forward \in BOOLEAN :
         \/ SelectDirection(id, d, forward) \/ MovePane(id, d, forward)
         \/ \E cells \in Cells : ResizePane(id, d, forward, cells)

Next ==
    /\ status = "running"
    /\ \/ \E id \in Panes(layout) : PaneStep(id)
       \/ HiddenExits \/ UndoClose
       \/ \E p \in DOMAIN layout.split, cells \in Cells, forward \in BOOLEAN :
            Drag(p, cells, forward)
       \/ FinishDrag
       \/ \E size \in Sizes : ResizeOuter(size)

Spec == Init /\ [][Next]_vars

-----------------------------------------------------------------------------
(* Properties.                                                             *)

\* The tree is a binary tree whose leaves are distinct panes, and the focus
\* and a zoom are on panes that exist; the PTYs belong to these panes.
TypeOK ==
    /\ DOMAIN layout.split \cap DOMAIN layout.leaf = {}
    /\ <<>> \in Nodes(layout)
    /\ \A p \in Nodes(layout) \ {<<>>} : Front(p) \in DOMAIN layout.split
    /\ \A p \in DOMAIN layout.split :
         /\ p \o <<1>> \in Nodes(layout) /\ p \o <<2>> \in Nodes(layout)
         /\ layout.split[p].axis \in Dimensions
    /\ Cardinality(Panes(layout)) = Count(layout) /\ Count(layout) <= MaxPanes
    /\ layout.active \in Panes(layout) /\ layout.size \in Sizes
    /\ Panes(layout) \subseteq Ids
    /\ layout.zoomed => Count(layout) > 1
    /\ dragging \in BOOLEAN
    /\ status \in {"running", "exited", "failed"}
    /\ status # "failed" => DOMAIN pty = Panes(layout)

\* Every pane and every separator has a cell and lies inside the canvas, and no
\* two overlap, at every size, whatever shares earlier sizes and drags have left.
Separator(l, r, p) ==
    LET d == l.split[p].axis
        first == r[p \o <<1>>]
    IN  [at |-> [first.at EXCEPT ![d] = @ + first.size[d]],
         size |-> [first.size EXCEPT ![d] = Border]]

Tiling ==
    LET r == Rects(layout)
        parts == [p \in Nodes(layout) |->
                    IF p \in DOMAIN layout.leaf THEN r[p] ELSE Separator(layout, r, p)]
        Inside(p) == \A d \in Dimensions :
                       /\ Start(parts[p], d) >= 0 /\ End(parts[p], d) <= layout.size[d]
                       /\ parts[p].size[d] > 0
        Apart(p, q) == \E d \in Dimensions :
                         \/ End(parts[p], d) <= Start(parts[q], d)
                         \/ End(parts[q], d) <= Start(parts[p], d)
    IN  /\ \A p \in Nodes(layout) : Inside(p)
        /\ \A p \in Nodes(layout) : \A q \in Nodes(layout) \ {p} : Apart(p, q)

\* Between two events every PTY has the size of its pane, zoomed or tiled,
\* except while a drag is waiting for its next resize.
SizesFollow == status = "running" /\ ~dragging => pty = PtySizes(layout)

\* Keys and scripts do not take the last cell of a pane and so do not end the
\* session: only the close of another pane, an undo at a size that has become
\* too small, or a drag can.
ContentKept ==
    [][Fits(layout) /\ ~Fits(layout') =>
         \/ layout'.leaf = layout.leaf /\ dragging'
         \/ Count(layout') < Count(layout)
         \/ closed # None /\ closed' = None]_vars

\* interactive-splits.md on a shell's exit: "Siblings expand to fill the vacated
\* area"; they do not take the session down with them.
SiblingsExpand ==
    [][Count(layout') < Count(layout) /\ Fits(layout) => status' # "failed"]_vars

\* Panes enter and leave one at a time, keep their order, and an undo brings
\* its pane back without losing one of those opened since.
Listed == INSTANCE PaneList WITH order <- Order(layout), active <- layout.active

ListedSpec == Listed!Spec

\* Identities are only compared for equality.
IdSymmetry == Permutations(Ids)
=============================================================================
