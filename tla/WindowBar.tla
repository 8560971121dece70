------------------------------ MODULE WindowBar ------------------------------
(***************************************************************************)
(* The bar above the panes (chrome.rs): the session badge, the labels of   *)
(* the windows from one that keeps the active label in view, and in the    *)
(* compact layout the mode badge.  The bar is laid out by one function and *)
(* drawn, hit-tested and given a rename cursor by three others, each of    *)
(* which clips on its own.  A text is the sequence of its characters'      *)
(* widths: 0 for a combining mark, 2 for a wide glyph.                     *)
(***************************************************************************)
EXTENDS Integers, Sequences, SequencesExt

CONSTANTS
  Names,       \* the names windows may have
  Session,     \* the badge of a named session
  Mode,        \* the badge of the input mode
  MaxWindows,  \* bound: windows
  MaxColumns   \* bound: columns of the outer terminal

VARIABLES columns, names, active, named, compact

vars == <<columns, names, active, named, compact>>

Least(a, b) == IF a < b THEN a ELSE b
Minus(a, b) == IF a > b THEN a - b ELSE 0
Width(text) == FoldLeft(+, 0, text)

\* The longest prefix that fits; a leading combining mark is dropped.
Clipped(text, width) ==
  LET Take[n \in 0..Len(text)] ==
        IF n = 0 THEN [kept |-> <<>>, used |-> 0, full |-> FALSE]
        ELSE LET before == Take[n - 1] IN
             IF before.full \/ before.used + text[n] > width
             THEN [before EXCEPT !.full = TRUE]
             ELSE IF text[n] = 0 /\ before.kept = <<>> THEN before
             ELSE [kept |-> Append(before.kept, text[n]), used |-> before.used + text[n],
                   full |-> FALSE]
  IN Take[Len(text)].kept

\* " 1 name ": the number has one digit here.
Label(i) == <<1, 1, 1>> \o names[i] \o <<1>>
Segment(i) == Width(Label(i)) + 2

BarColumns ==
  IF compact THEN Minus(columns, Least(Width(Mode), Minus(columns, 3))) ELSE columns

Layout ==
  LET wide == Least(Segment(active), BarColumns)
      session == IF named THEN Clipped(Session, Minus(BarColumns, wide)) ELSE <<>>
      available == Minus(BarColumns, Width(session))
      Needed(i) == FoldLeft(LAMBDA n, j: n + Segment(j), 0, [k \in 1..(active - i + 1) |-> i + k - 1])
      start == CHOOSE i \in 1..active:
                 /\ i = active \/ Needed(i) <= available
                 /\ \A j \in 1..(i - 1): Needed(j) > available
  IN [session |-> Width(session), start |-> start]

-----------------------------------------------------------------------------
(* Drawing: one segment after another while three columns are left.        *)

\* The windows that may be in the bar: from the first one shown to the last given.
InBar(start, last) == [k \in 1..(last - start + 1) |-> start + k - 1]

\* What is drawn so far: the window of each column, and the columns that are left.
DrawSegment(so, i) ==
  LET label == Clipped(Label(i), Minus(Minus(so.left, 1), 1))
      cells == Width(label) + 2
  IN IF so.left < 3 THEN so
     ELSE [at |-> so.at \o [c \in 1..cells |-> i], left |-> so.left - cells]

\* The window each column of the bar shows, 0 for none.
DrawnIn(layout) ==
  FoldLeft(DrawSegment,
           [at |-> [c \in 1..layout.session |-> 0], left |-> Minus(BarColumns, layout.session)],
           InBar(layout.start, Len(names))).at
Drawn == DrawnIn(Layout)

-----------------------------------------------------------------------------
(* Hit testing: one-based, half-open targets.                              *)

HitSegment(so, i) ==
  LET cells == Width(Clipped(Label(i), so.left - 2)) + 2
  IN IF so.left < 3 THEN so
     ELSE [boxes |-> so.boxes \cup
             {[from |-> so.used + 1, to |-> so.used + cells + 1, window |-> i]},
           used |-> so.used + cells, left |-> so.left - cells]

HitboxesIn(layout) ==
  FoldLeft(HitSegment,
           [boxes |-> {}, used |-> layout.session, left |-> Minus(BarColumns, layout.session)],
           InBar(layout.start, Len(names))).boxes
WindowHitboxes == HitboxesIn(Layout)

\* The zero-based column of the cursor while the active window is renamed, -1 if none.
WalkSegment(so, i) ==
  LET label == Clipped(Label(i), so.left - 2)
      prefix == Clipped(<<1, 1, 1>> \o names[i], Width(label))
      offset == Least(Width(prefix), Minus(Width(label), 1))
  IN IF so.left < 3 THEN so
     ELSE [used |-> so.used + Width(label) + 2, left |-> so.left - (Width(label) + 2),
           at |-> IF i = active THEN Least(so.used + 1 + offset, Minus(BarColumns, 1)) ELSE -1]

CursorIn(layout) ==
  FoldLeft(WalkSegment,
           [used |-> layout.session, left |-> Minus(BarColumns, layout.session), at |-> -1],
           InBar(layout.start, active)).at
NameCursor == CursorIn(Layout)

-----------------------------------------------------------------------------

Resize == /\ \E c \in 0..MaxColumns: columns' = c
          /\ UNCHANGED <<names, active, named, compact>>

Select == /\ \E i \in DOMAIN names: active' = i
          /\ UNCHANGED <<columns, names, named, compact>>

\* A click selects the window under it; outside the targets it does nothing.
Click == /\ \E box \in WindowHitboxes: active' = box.window
         /\ UNCHANGED <<columns, names, named, compact>>

Create == /\ Len(names) < MaxWindows
          /\ \E n \in Names: names' = Append(names, n)
          /\ active' = Len(names) + 1
          /\ UNCHANGED <<columns, named, compact>>

Rename == /\ \E n \in Names: names' = [names EXCEPT ![active] = n]
          /\ UNCHANGED <<columns, active, named, compact>>

Close == /\ Len(names) > 1
         /\ names' = RemoveAt(names, active)
         /\ active' = Least(active, Len(names) - 1)
         /\ UNCHANGED <<columns, named, compact>>

Init == /\ columns = MaxColumns
        /\ \E n \in Names: names = <<n>>
        /\ active = 1
        /\ named \in BOOLEAN /\ compact \in BOOLEAN

Next == Resize \/ Select \/ Click \/ Create \/ Rename \/ Close

Spec == Init /\ [][Next]_vars

-----------------------------------------------------------------------------

TypeOK == columns \in 0..MaxColumns /\ active \in DOMAIN names

\* A click selects the window whose label is drawn under it, on every column
\* and however the label is clipped (docs/reference/windows.md:405).
ClickIsWhatIsDrawn ==
  \A drawn \in {Drawn}, boxes \in {WindowHitboxes}:
  LET Hit(c) == {box.window: box \in {b \in boxes: b.from <= c /\ c < b.to}}
      Shown(c) == IF c \in DOMAIN drawn THEN {drawn[c]} \ {0} ELSE {}
  IN Len(drawn) <= BarColumns /\ \A c \in 1..columns: Hit(c) = Shown(c)

\* A bar of three columns or more shows the active window, whole when its
\* label fits the bar, and the cursor of a rename is inside that label.
ActiveIsInView ==
  BarColumns >= 3 =>
  \A drawn \in {Drawn}:
  LET cells == {c \in DOMAIN drawn: drawn[c] = active} IN
    /\ cells # {}
    /\ LET s == Segment(active) IN s <= BarColumns => \E c \in cells: c + s - 1 \in cells
    /\ NameCursor + 1 \in cells

BarIsTrue == ClickIsWhatIsDrawn /\ ActiveIsInView
=============================================================================
