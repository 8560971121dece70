------------------------------ MODULE Workspace ------------------------------
(***************************************************************************)
(* The windows of a session (src/window.rs), each with its panes in layout *)
(* order, the floating window over them, the pane whose close can be       *)
(* undone, and the handlers of src/terminal.rs and src/terminal/control.rs *)
(* that create, select, move, join, break and close.  Keys and scripts     *)
(* arrive in any order, shells exit in between, and a confirmed close waits *)
(* for the frame that is being written.                                    *)
(*                                                                         *)
(* Geometry is PaneLayout's subject: a split, or an exact restore, may or  *)
(* may not have the space it needs.                                        *)
(***************************************************************************)
EXTENDS Naturals, FiniteSets, SequencesExt

CONSTANTS
    Panes,        \* runtime identities of shells
    WindowIds,    \* identities of windows; both count up in the code
    MaxWindows,   \* MAX_WINDOWS
    MaxPanes,     \* MAX_PANES, of one window
    None

\* A window; the close that can be undone, and the one that waits.
WindowType  == [id : WindowIds, panes : Seq(Panes), active : Panes]
ClosedType  == [pane : Panes, window : WindowIds \cup {None}]
RequestType == [window : WindowIds, whole : BOOLEAN, pane : Panes \cup {None}]

\* Identities are 64-bit counters: there is always one that neither an ordinary or
\* floating window nor the close that waits nor the one to undo refers to.
ASSUME WorkspaceAssumption ==
    /\ MaxWindows \in Nat \ {0} /\ MaxPanes \in Nat \ {0}
    /\ None \notin WindowIds \cup Panes \cup WindowType \cup ClosedType \cup RequestType
    /\ IsFiniteSet(WindowIds) => Cardinality(WindowIds) >= MaxWindows + 3

VARIABLES
    windows,      \* entries, active, last_active, floating and its visibility
    closed,       \* the hidden pane, or None
    request,      \* a confirmed close that has not been carried out, or None
    status        \* "running", "exited" or "panicked"

vars == <<windows, closed, request, status>>

-----------------------------------------------------------------------------
(* One window: its panes in layout order, and the active one.              *)

PanesOf(win) == ToSet(win.panes)
PlaceOf(win, p) == CHOOSE i \in DOMAIN win.panes : win.panes[i] = p

SplitOff(win, q, p) ==
    [win EXCEPT !.panes = InsertAt(@, PlaceOf(win, q) + 1, p), !.active = p]

\* The next pane inherits the focus, or the one before the last.
Heir(win, p) ==
    LET i == PlaceOf(win, p)
    IN  IF i = Len(win.panes) THEN win.panes[i - 1] ELSE win.panes[i + 1]

Removed(win, p) ==
    [win EXCEPT !.panes = RemoveAt(@, PlaceOf(win, p)),
                !.active = IF @ = p THEN Heir(win, p) ELSE @]

Exchanged(win, p, q) ==
    [win EXCEPT !.panes = [i \in DOMAIN @ |-> CASE @[i] = p -> q [] @[i] = q -> p
                                                [] OTHER -> @[i]]]

-----------------------------------------------------------------------------
(* Windows: the operations of the collection.                              *)

Single(id, p) == [id |-> id, panes |-> <<p>>, active |-> p]

Ids(w) == {w.entries[i].id : i \in DOMAIN w.entries}
Index(w, id) == CHOOSE i \in DOMAIN w.entries : w.entries[i].id = id
TiledActive(w) == w.entries[w.active]
Active(w) == IF w.visible THEN w.floating ELSE TiledActive(w)
IsFloating(w, id) == w.floating # None /\ w.floating.id = id
\* The layout of the floating window refuses to split.
Splits(w, win) == ~IsFloating(w, win.id) /\ Len(win.panes) < MaxPanes

All(w) == ToSet(w.entries) \cup (IF w.floating = None THEN {} ELSE {w.floating})
Shown(w) == UNION {PanesOf(win) : win \in All(w)}
Holder(w, p) == CHOOSE win \in All(w) : p \in PanesOf(win)

\* A window with new contents takes the place of the one with its identity.
Put(w, win) ==
    IF IsFloating(w, win.id) THEN [w EXCEPT !.floating = win]
    ELSE [w EXCEPT !.entries[Index(w, win.id)] = win]

\* activate: only a change is worth remembering.
Activated(w, i) ==
    [w EXCEPT !.visible = FALSE, !.active = i,
              !.last = IF i = w.active THEN @ ELSE TiledActive(w).id]

Selected(w, id) ==
    IF IsFloating(w, id) THEN [w EXCEPT !.visible = TRUE]
    ELSE Activated(w, Index(w, id))

SelectedLast(w) ==
    LET hidden == [w EXCEPT !.visible = FALSE]
    IN  IF w.last \in Ids(w) THEN Activated(hidden, Index(w, w.last)) ELSE hidden

Inserted(w, i, win) ==
    [w EXCEPT !.visible = FALSE, !.last = TiledActive(w).id,
              !.entries = InsertAt(@, i, win), !.active = i]

\* The index of the active window in the remaining ones.
NextActive(w, i, left) ==
    IF w.active > 1 /\ (i < w.active \/ (i = w.active /\ (left \/ i = Len(w.entries))))
    THEN w.active - 1 ELSE w.active

Closed(w, i, left) ==
    [w EXCEPT !.entries = RemoveAt(@, i), !.active = NextActive(w, i, left)]

WithoutFloating(w) == [w EXCEPT !.floating = None, !.visible = FALSE]

\* Mutant: the record of the last window survives the window.
WithoutButRemembered(w, id, left) ==
    IF IsFloating(w, id) THEN WithoutFloating(w)
    ELSE LET next == Closed(w, Index(w, id), left)
         IN  [next EXCEPT !.last = IF @ = Active(next).id THEN None ELSE @]

\* Mutant: the fallback can be the window that is remembered.
WithoutLookingBack(w, id, left) ==
    IF IsFloating(w, id) THEN WithoutFloating(w)
    ELSE LET next == Closed(w, Index(w, id), left)
         IN  [next EXCEPT !.last = IF @ = id THEN None ELSE @]

\* close: left is the configured preference when the active window closes.
Without(w, id, left) ==
    IF IsFloating(w, id) THEN WithoutFloating(w)
    ELSE LET next == Closed(w, Index(w, id), left)
         IN  [next EXCEPT !.last = IF @ \in {id, Active(next).id} THEN None ELSE @]

\* move_window: one position, around the edge.
Reordered(w, id, right) ==
    LET i == Index(w, id)
        n == Len(w.entries)
        From(k) == IF right /\ i = n THEN (IF k = 1 THEN n ELSE k - 1)
                   ELSE IF ~right /\ i = 1 THEN (IF k = n THEN 1 ELSE k + 1)
                   ELSE LET j == IF right THEN i + 1 ELSE i - 1
                        IN  IF k = i THEN j ELSE IF k = j THEN i ELSE k
    IN  [w EXCEPT !.entries = [k \in 1 .. n |-> w.entries[From(k)]]]

\* A pane leaves; its window goes with the last one.
WithoutPane(w, p, left) ==
    LET win == Holder(w, p)
    IN  IF Len(win.panes) = 1 THEN Without(w, win.id, left)
        ELSE Put(w, Removed(win, p))

\* Mutant: the source is closed although panes are left in it.
JoinedClosing(w, p, q) ==
    LET moved == Put(w, SplitOff(Holder(w, q), q, p))
    IN  Without(Selected(moved, Holder(w, q).id), Holder(w, p).id, FALSE)

\* join_pane_from: the pane becomes a split of q; the target is selected before
\* an emptied source is closed, so that no configured neighbor is needed.
Joined(w, p, q) ==
    LET source == Holder(w, p)
        target == Holder(w, q)
        moved  == Put(w, SplitOff(target, q, p))
    IN  IF Len(source.panes) = 1
        THEN Without(Selected(moved, target.id), source.id, FALSE)
        ELSE Selected(Put(moved, Removed(source, p)), target.id)

\* break_active_pane, after its source has been selected.
Broken(w, p, id) ==
    LET source == Holder(w, p)
        left   == Put(w, Removed(source, p))
    IN  [left EXCEPT !.visible = FALSE, !.entries = Append(@, Single(id, p)),
                     !.last = source.id, !.active = Len(w.entries) + 1]

-----------------------------------------------------------------------------
(* Identities count up in the code; one that nothing mentions is as new.   *)
(* Which window identity it is does not matter.                            *)

HiddenPanes == IF closed = None THEN {} ELSE {closed.pane}
SparePanes  == Panes \ (Shown(windows) \cup HiddenPanes)
\* Mutant: the floating window is overlooked.
SpareIdsOfBar == WindowIds \ Ids(windows)

SpareIds ==
    WindowIds \ ({win.id : win \in All(windows)}
                   \cup (IF closed = None THEN {} ELSE {closed.window})
                   \cup (IF request = None THEN {} ELSE {request.window}))

\* A new window's identity.
NewId == CHOOSE id \in SpareIds : TRUE

\* A pane that moves gets another identity within its layout, so that a close
\* confirmed for the old one finds nothing.
Forgotten(p) ==
    IF request # None /\ request.pane = p THEN [request EXCEPT !.pane = None] ELSE request

Becomes(w) == windows' = w /\ status' = status

\* Keys wait while a confirmed close does.
KeysRead == request = None

Init ==
    /\ \E p \in Panes :
         windows = [entries |-> <<Single(CHOOSE id \in WindowIds : TRUE, p)>>, active |-> 1,
                    last |-> None, floating |-> None, visible |-> FALSE]
    /\ closed = None /\ request = None /\ status = "running"

\* Script select-pane, and the focus keys within the active window.
SelectPane(p) ==
    /\ LET win == Holder(windows, p)
       IN  Becomes(Selected(Put(windows, [win EXCEPT !.active = p]), win.id))
    /\ UNCHANGED <<closed, request>>

\* By number, next and previous.
SelectWindow(id) == Becomes(Selected(windows, id)) /\ UNCHANGED <<closed, request>>

SelectLast ==
    /\ KeysRead
    /\ Becomes(SelectedLast(windows)) /\ UNCHANGED <<closed, request>>

\* The first toggle starts a shell, later ones show and hide it.
ToggleFloating ==
    /\ KeysRead
    /\ \/ windows.visible
          /\ Becomes([windows EXCEPT !.visible = FALSE])
       \/ ~windows.visible /\ windows.floating # None
          /\ Becomes([windows EXCEPT !.visible = TRUE])
       \/ windows.floating = None
          /\ \E p \in SparePanes :
               Becomes([windows EXCEPT !.floating = Single(NewId, p), !.visible = TRUE])
    /\ UNCHANGED <<closed, request>>

Room == Len(windows.entries) < MaxWindows

\* Script new-window and the editor windows append; the key inserts.
NewWindow(i) ==
    /\ Room
    /\ i = Len(windows.entries) + 1 \/ (KeysRead /\ i = windows.active + 1)
    /\ \E p \in SparePanes : Becomes(Inserted(windows, i, Single(NewId, p)))
    /\ UNCHANGED <<closed, request>>

\* Split and break are refused for the pane of the floating window.
Tiled(p) == windows.floating # None => windows.floating.active # p

SplitPane(p) ==
    /\ Tiled(p)
    /\ LET win == Holder(windows, p)
       IN  /\ Splits(windows, win)
           /\ \E new \in SparePanes :
                Becomes(Selected(Put(windows, SplitOff(win, p, new)), win.id))
    /\ UNCHANGED <<closed, request>>

BreakPane(p) ==
    /\ Tiled(p) /\ Len(Holder(windows, p).panes) > 1 /\ Room
    /\ Becomes(Broken(Selected(windows, Holder(windows, p).id), p, NewId))
    /\ request' = Forgotten(p)
    /\ UNCHANGED closed

\* Script join-pane, the move prompt, and the keys that move the active pane to
\* the first pane of the next or previous window.
JoinPane(p, q) ==
    LET source == Holder(windows, p).id
        target == Holder(windows, q).id
    IN  /\ source # target /\ {source, target} \subseteq Ids(windows)
        /\ Splits(windows, Holder(windows, q))
        /\ Becomes(Joined(windows, p, q))
        /\ request' = Forgotten(p)
        /\ UNCHANGED closed

\* Keys and scripts that exchange or move panes within a window.
SwapPanes(p, q) ==
    /\ LET win == Holder(windows, p)
       IN  /\ q \in PanesOf(win) /\ PlaceOf(win, p) < PlaceOf(win, q)
           /\ Becomes(Put(windows, Exchanged(win, p, q)))
    /\ UNCHANGED <<closed, request>>

\* The only ordinary window; the floating one does not keep a session alive.
Final(id) == Len(windows.entries) = 1 /\ ~IsFloating(windows, id)

\* Script close-pane refuses the final pane; its exit ends the session.
ClosePane(p, left) ==
    LET win == Holder(windows, p)
    IN  /\ IF Final(win.id) /\ Len(win.panes) = 1
           THEN status' = "exited" /\ UNCHANGED windows
           ELSE Becomes(WithoutPane(windows, p, left))
        /\ UNCHANGED <<closed, request>>

\* Without a number the visible floating window is the target.
CloseWindow(id, left) ==
    /\ id \in Ids(windows) \/ (windows.visible /\ IsFloating(windows, id))
    /\ ~Final(id)
    /\ Becomes(Without(windows, id, left))
    /\ UNCHANGED <<closed, request>>

\* Mutant: the active position is not followed.
MoveWindowInPlace(id, right) ==
    /\ id \in Ids(windows) /\ Len(windows.entries) > 1
    /\ Becomes(Reordered(windows, id, right))
    /\ UNCHANGED <<closed, request>>

\* Script move-window, and the keys, which move the active window.  The active
\* window is looked up among the ordinary ones, which fails for a floating one.
MoveWindow(id, right) ==
    LET moved == Reordered(windows, id, right)
    IN  /\ id \in Ids(windows) /\ Len(windows.entries) > 1
        /\ IF windows.visible
           THEN windows' = moved /\ status' = "panicked"
           ELSE Becomes([moved EXCEPT !.active = Index(moved, Active(windows).id)])
        /\ UNCHANGED <<closed, request>>

\* "yes" at a close prompt, for the active window or its active pane.
AskClose(whole) ==
    /\ KeysRead
    /\ request' = [window |-> Active(windows).id, whole |-> whole,
                   pane |-> IF whole THEN None ELSE Active(windows).active]
    /\ UNCHANGED <<windows, closed, status>>

Hide(p, left) ==
    LET win == Holder(windows, p)
    IN  /\ Becomes(WithoutPane(windows, p, left))
        /\ closed' = [pane |-> p, window |-> IF Len(win.panes) = 1 THEN None ELSE win.id]

\* Mutant: the request names a position, here the active pane, not a pane.
FinishCloseAtFocus(left) ==
    /\ request # None
    /\ request' = None
    /\ \E win \in All(windows) :
         /\ win.id = request.window /\ ~Final(win.id)
         /\ IF IsFloating(windows, win.id) \/ request.whole
            THEN Becomes(Without(windows, win.id, left)) /\ UNCHANGED closed
            ELSE Hide(win.active, left)

\* The window, or the pane, may be gone by the time the frame is written.
FinishClose(left) ==
    /\ request # None
    /\ request' = None
    /\ LET win == CHOOSE win \in All(windows) : win.id = request.window
           sole == Final(win.id) /\ (request.whole \/ Len(win.panes) = 1)
       IN  CASE \/ request.window \notin {v.id : v \in All(windows)}
                \/ ~request.whole /\ request.pane \notin PanesOf(win) ->
                  UNCHANGED <<windows, closed, status>>
             [] OTHER ->
                  IF sole THEN status' = "exited" /\ UNCHANGED <<windows, closed>>
                  ELSE IF request.whole \/ IsFloating(windows, win.id)
                  THEN Becomes(Without(windows, win.id, left)) /\ UNCHANGED closed
                  ELSE Hide(request.pane, left)

\* A client that leaves takes its unwritten frame and the request with it.
Disconnect ==
    /\ request # None
    /\ request' = None
    /\ UNCHANGED <<windows, closed, status>>

HiddenExits ==
    /\ closed # None
    /\ closed' = None
    /\ UNCHANGED <<windows, request, status>>

\* Into its window: at its old place when nothing has changed there since, or
\* else beside the active pane; which of them is PaneLayout's subject.
UndoToWindow(win) ==
    /\ win.id = closed.window /\ Splits(windows, win)
    /\ \E i \in 1 .. Len(win.panes) + 1 :
         Becomes(Selected(Put(windows, [win EXCEPT !.panes = InsertAt(@, i, closed.pane),
                                                   !.active = closed.pane]), win.id))

\* Mutant: the limit is not checked.
UndoToAnyNewWindow ==
    /\ closed.window \notin Ids(windows)
    /\ Becomes(Inserted(windows, Len(windows.entries) + 1, Single(NewId, closed.pane)))

UndoToNewWindow ==
    /\ closed.window \notin Ids(windows)
    /\ Room
    /\ Becomes(Inserted(windows, Len(windows.entries) + 1, Single(NewId, closed.pane)))

UndoClose ==
    /\ KeysRead /\ ~windows.visible /\ closed # None
    /\ UndoToNewWindow \/ \E win \in ToSet(windows.entries) : UndoToWindow(win)
    /\ closed' = None
    /\ UNCHANGED request

\* The configured preference matters where the active window may close.
Sides(id) == IF id = TiledActive(windows).id THEN BOOLEAN ELSE {TRUE}

Next ==
    /\ status = "running"
    /\ \/ \E p \in Shown(windows) :
            \/ SelectPane(p) \/ SplitPane(p) \/ BreakPane(p)
            \/ \E left \in Sides(Holder(windows, p).id) : ClosePane(p, left)
            \/ \E q \in Shown(windows) :
                 SwapPanes(p, q) \/ JoinPane(p, q)
       \/ \E win \in All(windows) :
            \/ \E left \in Sides(win.id) : CloseWindow(win.id, left)
            \/ \E right \in BOOLEAN : MoveWindow(win.id, right)
       \/ \E id \in Ids(windows) : SelectWindow(id)
       \/ \E i \in 1 .. MaxWindows : NewWindow(i)
       \/ request # None /\ \E left \in Sides(request.window) : FinishClose(left)
       \/ \E whole \in BOOLEAN : AskClose(whole)
       \/ SelectLast \/ ToggleFloating \/ Disconnect \/ HiddenExits \/ UndoClose

Spec == Init /\ [][Next]_vars

-----------------------------------------------------------------------------
(* Properties.                                                             *)

\* Focus is on a window that exists, and in each window on one of its panes.
TypeOK ==
    /\ windows.entries \in Seq(WindowType) /\ windows.entries # <<>>
    /\ windows.active \in DOMAIN windows.entries
    /\ windows.floating \in WindowType \cup {None}
    /\ windows.visible => windows.floating # None
    /\ \A win \in All(windows) : win.active \in PanesOf(win)
    /\ status \in {"running", "exited", "panicked"}

\* No shell is in two places, and no window identity is used twice.
OneOwner ==
    /\ \A i, j \in DOMAIN windows.entries :
         i # j => windows.entries[i].id # windows.entries[j].id
    /\ windows.floating = None \/ windows.floating.id \notin Ids(windows)
    /\ \A win \in All(windows) :
         /\ IsInjective(win.panes)
         /\ PanesOf(win) \cap HiddenPanes = {}
         /\ \A v \in All(windows) \ {win} : PanesOf(v) \cap PanesOf(win) = {}

\* However windows come into being, there are never more than the limit, which
\* bounds the descriptors and the grids of the process.
WindowLimit == Len(windows.entries) <= MaxWindows

\* The record for "last window" never names a window that is gone or floats.
LastLives == windows.last \in Ids(windows) \cup {None}

\* When windows only leave or change places, the focus stays on the window it is
\* on, although that window's position may be another one.
FocusKept ==
    [][/\ windows'.entries # windows.entries /\ status' = "running"
       /\ ToSet(windows'.entries) \subseteq ToSet(windows.entries)
       /\ TiledActive(windows) \in ToSet(windows'.entries)
       => /\ TiledActive(windows') = TiledActive(windows)
          /\ windows'.visible = windows.visible]_vars

\* A close takes the pane or the window it was confirmed for, or nothing, however
\* panes and windows have moved while it waited.
ClosesWhatWasAsked ==
    [][request # None /\ request' = None =>
         \A p \in Shown(windows) \ Shown(windows') :
           IF request.whole THEN Holder(windows, p).id = request.window
                            ELSE p = request.pane]_vars

\* windows.md on automatic focus fallback: the record is never "the newly active
\* fallback itself".  This is what each step keeps while the floating window is
\* hidden; close compares the record with the floating window when it is shown.
LastIsElsewhere ==
    [][~windows.visible /\ windows.last # TiledActive(windows).id =>
         windows'.last # TiledActive(windows').id]_vars

\* window.rs on move_window: "reordering preserves windows", whichever window
\* has the focus.
MovesKeepRunning == status # "panicked"

\* The shells, seen without order and focus.
Owner == (UNION {PanesOf(win) \X {win.id} : win \in All(windows)})
         \cup (HiddenPanes \X {None})

Owners == INSTANCE PaneOwners WITH owner <- Owner, Hidden <- None

OwnersSpec == Owners!Spec

\* Shells are only compared for equality.
PaneSymmetry == Permutations(Panes)
=============================================================================
