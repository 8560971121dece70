--------------------------- MODULE SavedWorkspace ---------------------------
(***************************************************************************)
(* A workspace on disk: the flat split trees of layout/snapshot.rs, what   *)
(* persistence.rs captures of the windows, and the restore of a file that  *)
(* this or another version wrote, or that somebody edited, into a terminal *)
(* of another size.  Panes start with fresh shells; their histories and    *)
(* directories are not modelled.  The trees are those of PaneLayout.       *)
(***************************************************************************)
EXTENDS Integers, Sequences, FiniteSets, SequencesExt

CONSTANTS
    Names,          \* names of windows, none of them twice
    Terminals,      \* sizes of outer terminals, <<rows, columns>>
    MaxPanes,       \* MAX_PANES
    Ids,            \* pane identities
    MaxWindows,     \* MAX_WINDOWS
    Edited,         \* layouts that an edited file holds
    None

VARIABLES
    windows,    \* the bar: name, layout, and whether it is an editor of the history
    active,     \* position of the selected window of the bar
    floating,   \* the floating terminal: "none", "hidden" or "visible"
    terminal,   \* size of the outer terminal, and whether the bars are compact
    file        \* the snapshot while no server runs, else None

vars == <<windows, active, floating, terminal, file>>

Trees == INSTANCE PaneLayout WITH
    Heights <- {t[1] : t \in Terminals}, Widths <- {t[2] : t \in Terminals}, Cells <- {1},
    layout <- None, closed <- None, pty <- None, dragging <- FALSE, status <- "running"

\* pane_rows_for_layout: a top bar, and a footer unless compact or too low.
Canvas(t) ==
    LET bars == IF ~t.compact /\ t.size[1] >= 3 THEN 2 ELSE 1
    IN  <<Trees!Larger(t.size[1] - bars, 1), t.size[2]>>

Fresh(name, temporary, t) ==
    [name |-> name, temporary |-> temporary,
     layout |-> Trees!Single(Canvas(t), CHOOSE id \in Ids : TRUE)]

Init ==
    /\ \E size \in Terminals, compact \in BOOLEAN :
          terminal = [size |-> size, compact |-> compact]
    /\ \E name \in Names : windows = <<Fresh(name, FALSE, terminal)>>
    /\ active = 1 /\ floating = "none" /\ file = None
-----------------------------------------------------------------------------
(* The flat tree.                                                          *)

\* A parent comes before its children, the first subtree before the second.
NodeOrder(p, q) == p # q /\ (IsPrefix(p, q) \/ Trees!Before(p, q))

\* Layout::saved: the nodes in this order, children by their positions.
Saved(l) ==
    LET paths == SetToSortSeq(Trees!Nodes(l), NodeOrder)
        position(p) == CHOOSE i \in DOMAIN paths : paths[i] = p
        node(p) == IF p \in DOMAIN l.leaf THEN [kind |-> "pane", id |-> l.leaf[p]]
                   ELSE [kind |-> "split", axis |-> l.split[p].axis, share |-> l.split[p].share,
                         first |-> position(p \o <<1>>), second |-> position(p \o <<2>>)]
    IN  [active |-> l.active, zoomed |-> l.zoomed,
         nodes |-> [i \in DOMAIN paths |-> node(paths[i])]]

Bad == <<[path |-> <<>>, at |-> 0]>>

\* build: the nodes that a walk from node i meets, each with its path; links lead to
\* later nodes and a share lies strictly inside.
Visited(nodes) ==
    LET below(v, c, i, j) ==
          IF j \notin i + 1 .. Len(nodes) THEN Bad
          ELSE [k \in DOMAIN v[j] |-> [v[j][k] EXCEPT !.path = <<c>> \o @]]
        v[i \in DOMAIN nodes] ==
          <<[path |-> <<>>, at |-> i]>> \o
            IF nodes[i].kind = "pane" THEN <<>>
            ELSE IF nodes[i].share[1] \in 1 .. nodes[i].share[2] - 1
                 THEN below(v, 1, i, nodes[i].first) \o below(v, 2, i, nodes[i].second)
                 ELSE Bad
    IN  v[1]

\* The tree of a file: every node is met exactly once, no pane twice, and the focus is one
\* of them; else there is none.
TreeOf(saved, size) ==
    LET n == saved.nodes
        visited == IF n = <<>> THEN Bad ELSE Visited(n)
        nodes == {visited[k].at : k \in DOMAIN visited}
        place(i) == visited[CHOOSE k \in DOMAIN visited : visited[k].at = i].path
        panes == {i \in nodes \ {0} : n[i].kind = "pane"}
        at(S, value(_)) == [p \in {place(i) : i \in S} |->
                              value(CHOOSE i \in S : place(i) = p)]
        layout == [leaf |-> at(panes, LAMBDA i : n[i].id),
                   split |-> at(nodes \ panes, LAMBDA i : [axis |-> n[i].axis,
                                                           share |-> n[i].share]),
                   size |-> size, active |-> saved.active,
                   zoomed |-> saved.zoomed /\ Cardinality(panes) > 1]
    IN  IF /\ Len(n) \in 1 .. 2 * MaxPanes - 1 /\ 0 \notin nodes
           /\ IsInjective([k \in DOMAIN visited |-> visited[k].at])
           /\ \A i, j \in panes : n[i].id = n[j].id => i = j
           /\ nodes = DOMAIN n /\ \E i \in panes : n[i].id = saved.active
        THEN layout ELSE None

\* Layout::from_saved: and each pane gets a cell inside its border.
WithRoom(l, size) ==
    IF l # None /\ Trees!RootFits(l, size) /\ Trees!Fits(l) THEN l ELSE None
FromSaved(saved, size) == WithRoom(TreeOf(saved, size), size)
-----------------------------------------------------------------------------
(* The snapshot.                                                           *)

Ordinary == SelectSeq(windows, LAMBDA w : ~w.temporary)

\* Mutant: the position in the bar is taken, editors and all.
ActiveSavedOfBar == IF windows[active].temporary THEN 1 ELSE active

\* The position of the selected window among those saved; from an editor, the first.
ActiveSaved ==
    IF windows[active].temporary THEN 1
    ELSE Len(SelectSeq(SubSeq(windows, 1, active), LAMBDA w : ~w.temporary))

\* PreparedSnapshot::capture
Capture ==
    [size |-> terminal.size, active |-> ActiveSaved, floating |-> floating,
     windows |-> [i \in DOMAIN Ordinary |->
                    [name |-> Ordinary[i].name, layout |-> Saved(Ordinary[i].layout)]]]

\* Snapshot::layouts, also of the floating terminal, which is a single pane.
Layouts(snapshot, t) ==
    [i \in DOMAIN snapshot.windows |-> FromSaved(snapshot.windows[i].layout, Canvas(t))]

\* Snapshot::validate: against the larger of the two canvases.
Valid(snapshot) ==
    /\ Len(snapshot.windows) \in 1 .. MaxWindows /\ snapshot.active \in DOMAIN snapshot.windows
    /\ None \notin ToSet(Layouts(snapshot, [size |-> snapshot.size, compact |-> TRUE]))

\* Snapshot::restore into a terminal, without any effect where something does not fit.
WindowsOf(snapshot, layouts) ==
    IF None \in ToSet(layouts) THEN None
    ELSE [i \in DOMAIN layouts |-> [name |-> snapshot.windows[i].name, temporary |-> FALSE,
                                    layout |-> layouts[i]]]
Restored(snapshot, t) ==
    IF Valid(snapshot) THEN WindowsOf(snapshot, Layouts(snapshot, t)) ELSE None
-----------------------------------------------------------------------------
Running == windows # <<>>
Layout == windows[active].layout
Edit(l) ==
    /\ windows' = [windows EXCEPT ![active].layout = l]
    /\ UNCHANGED <<active, floating, terminal, file>>

\* split_with, refused where a pane would have no cell.
SplitPane(axis) ==
    /\ Trees!CanSplit(Layout, axis)
    /\ \E id \in Ids \ Trees!Panes(Layout) :
         /\ \A other \in Ids \ Trees!Panes(Layout) : id <= other
         /\ Trees!Fits(Trees!Split(Layout, axis, id))
         /\ Edit(Trees!Split(Layout, axis, id))

SelectPane(id) == id # Layout.active /\ Edit([Layout EXCEPT !.active = id])
ZoomPane == Trees!Count(Layout) > 1 /\ Edit([Layout EXCEPT !.zoomed = ~@])
ResizePane(p, delta) ==
    /\ ~Layout.zoomed
    /\ Trees!MoveSeparator(Layout, p, delta) # Layout
    /\ Trees!Fits(Trees!MoveSeparator(Layout, p, delta))
    /\ Edit(Trees!MoveSeparator(Layout, p, delta))

SpareNames == Names \ {windows[i].name : i \in DOMAIN windows}
NewWindow(name) ==
    /\ Len(windows) < MaxWindows /\ name \in SpareNames
    /\ windows' = InsertAt(windows, active + 1, Fresh(name, FALSE, terminal))
    /\ active' = active + 1
    /\ floating' = IF floating = "none" THEN "none" ELSE "hidden"
    /\ UNCHANGED <<terminal, file>>

\* HistoryEditor and LastCommandEditor: a window at the end of the bar.
OpenEditor(name) ==
    /\ Len(windows) < MaxWindows /\ name \in SpareNames
    /\ windows' = Append(windows, Fresh(name, TRUE, terminal))
    /\ active' = Len(windows) + 1
    /\ floating' = IF floating = "none" THEN "none" ELSE "hidden"
    /\ UNCHANGED <<terminal, file>>

CloseWindow(i) ==
    /\ Len(windows) > 1 /\ windows' = RemoveAt(windows, i)
    /\ active' = IF i < active \/ active = Len(windows) THEN active - 1 ELSE active
    /\ UNCHANGED <<floating, terminal, file>>

SelectWindow(i) ==
    /\ i # active /\ active' = i
    /\ floating' = IF floating = "none" THEN "none" ELSE "hidden"
    /\ UNCHANGED <<windows, terminal, file>>

\* move_window, also from one edge of the bar to the other.
MoveRight ==
    /\ Len(windows) > 1
    /\ LET last == active = Len(windows)
       IN  /\ windows' = IF last THEN <<Last(windows)>> \o Front(windows)
                         ELSE [windows EXCEPT ![active] = windows[active + 1],
                                              ![active + 1] = windows[active]]
           /\ active' = IF last THEN 1 ELSE active + 1
    /\ UNCHANGED <<floating, terminal, file>>

ToggleFloating ==
    /\ floating' = IF floating = "visible" THEN "hidden" ELSE "visible"
    /\ UNCHANGED <<windows, active, terminal, file>>

\* The orderly end of the server with a checkpoint.
Stop ==
    /\ Valid(Capture) /\ file' = Capture
    /\ windows' = <<>> /\ active' = 1 /\ floating' = "none" /\ UNCHANGED terminal

\* Somebody edits the file of a stopped session; bound: one of a single pane, since what it
\* held is lost.
EditFile(layout) ==
    /\ file # None /\ Len(file.windows[1].layout.nodes) = 1
    /\ file' = [file EXCEPT !.windows[1].layout = layout]
    /\ UNCHANGED <<windows, active, floating, terminal>>

\* new and Restore: nothing starts, and the file stays, unless all of it fits.
Start(t) ==
    /\ file # None
    /\ \E restored \in {Restored(file, t)} :
         IF restored = None THEN UNCHANGED <<windows, active, floating, file>>
         ELSE /\ windows' = restored /\ active' = file.active
              /\ floating' = file.floating /\ file' = None
    /\ terminal' = t

Work ==
    \/ \E axis \in {1, 2} : SplitPane(axis)
    \/ \E id \in Trees!Panes(Layout) : SelectPane(id)
    \/ ZoomPane
    \/ \E p \in DOMAIN Layout.split, delta \in {-1, 1} : ResizePane(p, delta)
    \/ \E name \in Names : NewWindow(name) \/ OpenEditor(name)
    \/ \E i \in DOMAIN windows : CloseWindow(i) \/ SelectWindow(i)
    \/ MoveRight \/ ToggleFloating \/ Stop
Next ==
    \/ Running /\ Work
    \/ \E layout \in Edited : EditFile(layout)
    \/ \E size \in Terminals, compact \in BOOLEAN :
         Start([size |-> size, compact |-> compact])
Spec == Init /\ [][Next]_vars
-----------------------------------------------------------------------------
\* What a saved workspace promises: the windows without the editors, their trees, focus
\* and zoom, the selected window, and the floating terminal.
\* Whatever the user built, a save succeeds as long as a window is no editor, and a start
\* in the same terminal brings exactly that back ("Snapshots include window names/order,
\* split axes/ratios, focused panes, active window, zoom state",
\* docs/reference/session-snapshots.md:49-51).
RestoresWhatItSaves ==
    Running /\ Ordinary # <<>> =>
        \A snapshot \in {Capture} :
            /\ Valid(snapshot)
            /\ Restored(snapshot, terminal) = Ordinary
            /\ ~windows[active].temporary =>
                 Ordinary[snapshot.active].name = windows[active].name

\* No file starts anything but whole windows: every split has its two children and every
\* pane a place of its own with a cell in it, the focus is on one of them, and only one of
\* several is zoomed.
StartsWhole ==
    \A i \in DOMAIN windows :
        LET l == windows[i].layout
            nodes == Trees!Nodes(l)
        IN  /\ DOMAIN l.leaf \cap DOMAIN l.split = {} /\ <<>> \in nodes
            /\ \A p \in DOMAIN l.split : p \o <<1>> \in nodes /\ p \o <<2>> \in nodes
            /\ \A p \in nodes \ {<<>>} : Front(p) \in DOMAIN l.split
            /\ \A p, q \in DOMAIN l.leaf : l.leaf[p] = l.leaf[q] => p = q
            /\ l.active \in Trees!Panes(l) /\ (l.zoomed => Trees!Count(l) > 1)
            /\ l.size = Canvas(terminal) /\ Trees!RootFits(l, l.size) /\ Trees!Fits(l)
=============================================================================
