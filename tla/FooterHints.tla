----------------------------- MODULE FooterHints -----------------------------
(***************************************************************************)
(* The bottom bar (chrome.rs): the mode badge and the hints that fit       *)
(* beside it, each a key text and a label.  One function chooses the       *)
(* hints, another draws them and a third gives the targets of a click: a   *)
(* key of a grouped hint runs that key's action, the rest of the hint its  *)
(* first action.  A mode with configured hints shows one key per hint.     *)
(* While the history is open the bar shows a status and the hints that     *)
(* leave it room.                                                          *)
(***************************************************************************)
EXTENDS Integers, Sequences, SequencesExt

CONSTANTS
  Hints,       \* the built-in hints of each mode, in order
  Help,        \* the built-in hint that is kept to the last, and
  Manager,     \* the one only a named session has
  Configured,  \* the hints a configuration declares, in order
  HistoryHints,\* the hints of the history
  Widths,      \* widths a key may be displayed with
  Badge,       \* columns of the mode badge
  HistoryBadge, MinimumStatus,
  MaxColumns   \* bound: columns of the outer terminal

VARIABLES
  columns, mode, session,
  configured,  \* the mode has configured hints
  keys         \* what each action is bound to: a displayed width, 0 if unbound

vars == <<columns, mode, session, configured, keys>>

Minus(a, b) == IF a > b THEN a - b ELSE 0
Least(a, b) == IF a < b THEN a ELSE b
Actions == DOMAIN keys
Total(widths) == FoldLeft(+, 0, widths)

Active(hint) == \A i \in DOMAIN hint.actions: keys[hint.actions[i]] # 0

-----------------------------------------------------------------------------

\* The width of each key of a hint as it is displayed.
KeyWidths(hint) ==
  [i \in DOMAIN hint.actions |-> IF hint.fixed THEN 1 ELSE keys[hint.actions[i]]]
Breadth(hint) == Total(KeyWidths(hint)) + (Len(hint.actions) - 1) + hint.label + 6

BadgeWidth == Least(Badge, columns)
Room == Minus(Minus(columns, BadgeWidth), 1)

\* Hints in order until one does not fit.
Leading(hints, room) ==
  LET Take[i \in 0..Len(hints)] ==
        IF i = 0 THEN [shown |-> <<>>, left |-> room, full |-> FALSE]
        ELSE LET before == Take[i - 1]
                 hint == hints[i]
             IN IF before.full \/ ~Active(hint) THEN before
                ELSE IF Breadth(hint) > before.left THEN [before EXCEPT !.full = TRUE]
                ELSE [before EXCEPT !.shown = Append(@, hint), !.left = @ - Breadth(hint)]
  IN Take[Len(hints)].shown

Reserved(wanted, hint, room) ==
  IF wanted /\ Active(hint) /\ Breadth(hint) <= room THEN <<hint>> ELSE <<>>

Breadths(hints) == Total([i \in DOMAIN hints |-> Breadth(hints[i])])

VisibleShortcuts ==
  IF mode # "normal" THEN Leading(Hints[mode], Room)
  ELSE LET help == Reserved(TRUE, Help, Room)
           manager == Reserved(session, Manager, Room - Breadths(help))
           shown == Leading(Hints["normal"], Room - Breadths(help) - Breadths(manager))
       IN shown \o manager \o help

\* Configured hints: those that do not fit are skipped, Help keeps its place.
DisplayedHints ==
  LET bound == SelectSeq(Configured, LAMBDA h: Active(h))
      help == SelectSeq(bound, LAMBDA h: h.help /\ Breadth(h) <= Room)
      Take[i \in 0..Len(bound)] ==
        IF i = 0 THEN [shown |-> <<>>, left |-> Room - Breadths(help)]
        ELSE LET before == Take[i - 1] IN
             IF bound[i].help \/ Breadth(bound[i]) > before.left THEN before
             ELSE [shown |-> Append(before.shown, bound[i]),
                   left |-> before.left - Breadth(bound[i])]
  IN Take[Len(bound)].shown \o help

FooterShortcuts == IF configured THEN DisplayedHints ELSE VisibleShortcuts

-----------------------------------------------------------------------------

Start(hints) == BadgeWidth + (IF hints = <<>> THEN 0 ELSE 1)
Before(hints, i) == Start(hints) + Breadths(SubSeq(hints, 1, i - 1))

HintColumns(hints, i) ==
  (Before(hints, i) + 1)..(Before(hints, i) + Breadth(hints[i]))

\* The columns of key j of a hint after column `start`, its keys so many cells wide.
KeyColumns(start, cells, j) ==
  LET from == start + 2 + Total(SubSeq(cells, 1, j - 1)) + (j - 1)
  IN from..(from + cells[j] - 1)

\* What a hint shows in a column: one of its keys, or the rest of it.
Drawn(hint, start, c) ==
  LET on == {j \in DOMAIN hint.actions: c \in KeyColumns(start, KeyWidths(hint), j)}
  IN hint.actions[IF on = {} THEN 1 ELSE CHOOSE j \in on: TRUE]

\* What each one-based column shows.
DrawHints(hints) ==
  [c \in UNION {HintColumns(hints, i): i \in DOMAIN hints} |->
     LET i == CHOOSE k \in DOMAIN hints: c \in HintColumns(hints, k)
     IN Drawn(hints[i], Before(hints, i), c)]
DrawFooter == DrawHints(FooterShortcuts)

\* A key of LOCKED or NORMAL is taken to be one column wide.
HitWidths(hint) ==
  IF mode \in {"locked", "normal"} /\ ~configured THEN [j \in DOMAIN hint.actions |-> 1]
  ELSE KeyWidths(hint)

\* The hitboxes of the keys come before that of their hint, the first that holds wins.
Hit(hint, start, c) ==
  LET on == {j \in DOMAIN hint.actions: c \in KeyColumns(start, HitWidths(hint), j)}
  IN hint.actions[IF on = {} THEN 1 ELSE CHOOSE j \in on: \A k \in on: j <= k]

\* The targets of a click.
HintHitboxes(hints) ==
  [c \in UNION {HintColumns(hints, i): i \in DOMAIN hints} |->
     LET i == CHOOSE k \in DOMAIN hints: c \in HintColumns(hints, k)
     IN Hit(hints[i], Before(hints, i), c)]
FooterHitboxes == HintHitboxes(FooterShortcuts)

-----------------------------------------------------------------------------
(* The bar of the history.                                                 *)

HistoryHintWidth(hint) == hint.key + hint.label + 6
HistoryRoom == Minus(columns, HistoryBadge + 1)

VisibleHistoryHints ==
  LET Take[i \in 0..Len(HistoryHints)] ==
        IF i = 0
        THEN [n |-> 0, left |-> Minus(HistoryRoom, Least(HistoryRoom, MinimumStatus)), full |-> FALSE]
        ELSE LET before == Take[i - 1]
                 width == HistoryHintWidth(HistoryHints[i])
             IN IF before.full \/ width > Minus(before.left, 1)
                THEN [before EXCEPT !.full = TRUE]
                ELSE [n |-> i, left |-> before.left - width, full |-> FALSE]
  IN SubSeq(HistoryHints, 1, Take[Len(HistoryHints)].n)

HistoryWidths == Total([i \in DOMAIN VisibleHistoryHints |-> HistoryHintWidth(HistoryHints[i])])

StatusColumns ==
  Minus(Minus(HistoryRoom, HistoryWidths), IF VisibleHistoryHints = <<>> THEN 0 ELSE 1)

-----------------------------------------------------------------------------

BuiltIn == UNION {ToSet(Hints[m]): m \in DOMAIN Hints} \cup {Help, Manager}

Resize == /\ \E c \in 0..MaxColumns: columns' = c
          /\ UNCHANGED <<mode, session, configured, keys>>

Enter == /\ \E m \in DOMAIN Hints: mode' = m
         /\ configured' \in BOOLEAN
         /\ UNCHANGED <<columns, session, keys>>

Remap == /\ \E a \in Actions, w \in Widths \cup {0}:
              (a = "prefix" => w # 0) /\ keys' = [keys EXCEPT ![a] = w]
         /\ UNCHANGED <<columns, mode, session, configured>>

Init == /\ columns = MaxColumns /\ mode = "locked" /\ configured = FALSE
        /\ session \in BOOLEAN
        /\ keys = [a \in UNION {ToSet(hint.actions): hint \in BuiltIn} |-> 1]

Next == Resize \/ Enter \/ Remap

Spec == Init /\ [][Next]_vars

-----------------------------------------------------------------------------

TypeOK == columns \in 0..MaxColumns /\ mode \in DOMAIN Hints

\* A click does what the hint drawn under it says, key by key in a grouped
\* hint, and nothing is drawn or hit beyond the last column
\* (docs/reference/windows.md:421).
ClickIsTheHint ==
  \A drawn \in {DrawFooter}: FooterHitboxes = drawn /\ DOMAIN drawn \subseteq 1..columns

\* Help is shown in NORMAL on every bar it fits, whatever the other hints are;
\* the status of the history keeps its columns and the hints beside it fit.
HelpIsReachable ==
  /\ (mode = "normal" /\ ~configured /\ Active(Help) /\ Breadth(Help) <= Room) =>
       Help \in ToSet(VisibleShortcuts)
  /\ LET used == HistoryBadge + 1 + StatusColumns + HistoryWidths
                   + (IF VisibleHistoryHints = <<>> THEN 0 ELSE 1)
     IN columns > HistoryBadge => used = columns
  /\ StatusColumns >= Least(HistoryRoom, MinimumStatus)

FooterIsTrue == ClickIsTheHint /\ HelpIsReachable
=============================================================================
