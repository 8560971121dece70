------------------------------ MODULE TermModes ------------------------------
(***************************************************************************)
(* What the commands of a program set besides the cells: the modes, the     *)
(* keyboard flags and mouse pointers of each grid, the dynamic colors, which *)
(* grid is shown, and which of the pictures of the pane are dropped with a   *)
(* grid that is cleared (parser.rs dispatch, screen.rs, pointer.rs,          *)
(* pane.rs process_output_segment).                                         *)
(*                                                                         *)
(* A mode the program only switches stands for all modes that the same       *)
(* resets clear.  One color, one set of keyboard flags and one pointer shape *)
(* besides the default stand for the others.                                *)
(***************************************************************************)
EXTENDS Naturals, Sequences, SequencesExt, FiniteSets

CONSTANTS
    Depth,          \* MAX_KEYBOARD_MODE_STACK_DEPTH, DEPTH, MAX_COLOR_STACK_DEPTH
    MaxCommands     \* bound

Grids == {"main", "alternate"}
\* Modes that a soft reset clears, and those only a full reset does.
SoftModes == {"insert"}
HardModes == {"bracketed"}
Modes == SoftModes \cup HardModes
Tracking == {"button", "drag"}

VARIABLES
    alternate,      \* Screen::alternate
    mode,           \* the modes that are on
    mouse,          \* mouse_tracking
    keyboard,       \* keyboard_main and keyboard_alternate
    pointer,        \* pointer_main and pointer_alternate
    colors,         \* the dynamic colors and color_stack
    cells,          \* whether a grid has text, and whether a picture was put over it
    images,         \* grids with a picture of ImageStore
    clears,         \* Parser::graphics_clears
    log             \* the commands so far

input == <<mode, mouse, keyboard, pointer, colors>>
picture == <<cells, images, clears>>
vars == <<alternate, input, picture, log>>

Grid == IF alternate THEN "alternate" ELSE "main"
NoKeyboard == [flags |-> "none", stack |-> << >>]

Init ==
    /\ alternate = FALSE
    /\ mode = {}
    /\ mouse = "off"
    /\ keyboard = [g \in Grids |-> NoKeyboard]
    /\ pointer = [g \in Grids |-> << >>]
    /\ colors = [now |-> "inherited", stack |-> << >>]
    /\ cells = [g \in Grids |-> "blank"]
    /\ images = {}
    /\ clears = {}
    /\ log = << >>

\* A full stack loses its oldest entry.
Pushed(stack, x) == Append(IF Len(stack) = Depth THEN Tail(stack) ELSE stack, x)

-----------------------------------------------------------------------------
(* Modes *)

Switch(m, on) ==
    /\ log' = Append(log, <<IF on THEN "h" ELSE "l", m>>)
    /\ mode' = IF on THEN mode \cup {m} ELSE mode \ {m}
    /\ UNCHANGED <<alternate, mouse, keyboard, pointer, colors, picture>>

\* Any of the three tracking modes that is switched off ends all tracking.
Track(t, on) ==
    /\ log' = Append(log, <<IF on THEN "h" ELSE "l", t>>)
    /\ mouse' = IF on THEN t ELSE "off"
    /\ UNCHANGED <<alternate, mode, keyboard, pointer, colors, picture>>

\* DECRQM: what a mode query says of a mode.
Answer(m) ==
    IF m \in Tracking THEN mouse = m
    ELSE IF m = "alternate" THEN alternate ELSE m \in mode

-----------------------------------------------------------------------------
(* The keyboard flags and pointers of the grid that is shown, and the colors. *)

Keyboard(op) ==
    LET k == keyboard[Grid] IN
    /\ log' = Append(log, <<"keyboard", op>>)
    /\ keyboard' = [keyboard EXCEPT ![Grid] =
           CASE op = "set" -> [k EXCEPT !.flags = "some"]
             [] op = "push" -> [flags |-> "none", stack |-> Pushed(k.stack, k.flags)]
             [] op = "pop" -> IF k.stack = << >> THEN NoKeyboard
                              ELSE [flags |-> Last(k.stack), stack |-> Front(k.stack)]]
    /\ UNCHANGED <<alternate, mode, mouse, pointer, colors, picture>>

\* A shape that is set replaces the top of the stack, or becomes its first entry.
Pointer(op) ==
    LET p == pointer[Grid] IN
    /\ log' = Append(log, <<"pointer", op>>)
    /\ pointer' = [pointer EXCEPT ![Grid] =
           CASE op = "set" -> Append(IF p = << >> THEN p ELSE Front(p), "some")
             [] op = "push" -> Pushed(p, "none")
             [] op = "pop" -> IF p = << >> THEN p ELSE Front(p)]
    /\ UNCHANGED <<alternate, mode, mouse, keyboard, colors, picture>>
PointerShape(g) == IF pointer[g] = << >> THEN "none" ELSE Last(pointer[g])

Colors(op) ==
    /\ log' = Append(log, <<"colors", op>>)
    /\ colors' =
           CASE op = "set" -> [colors EXCEPT !.now = "some"]
             [] op = "reset" -> [colors EXCEPT !.now = "inherited"]
             [] op = "push" -> [colors EXCEPT !.stack = Pushed(@, colors.now)]
             [] op = "pop" -> IF colors.stack = << >> THEN colors
                              ELSE [now |-> Last(colors.stack), stack |-> Front(colors.stack)]
    /\ UNCHANGED <<alternate, mode, mouse, keyboard, pointer, picture>>

-----------------------------------------------------------------------------
(* The two grids *)

\* 47, 1047 and 1049 show the alternate grid; 1049 clears it, unless it is
\* shown already.
EnterAlternate(m) ==
    /\ log' = Append(log, <<"h", m>>)
    /\ alternate' = TRUE
    /\ clears' = IF m = "1049" /\ ~alternate THEN clears \cup {"alternate"} ELSE clears
    /\ cells' = IF m = "1049" /\ ~alternate
                THEN [cells EXCEPT !["alternate"] = "blank"] ELSE cells
    /\ UNCHANGED <<input, images>>

\* 1047 and 1049 clear the alternate grid on the way back, 47 keeps it.
LeaveAlternate(m) ==
    LET clear == alternate /\ m # "47" IN
    /\ log' = Append(log, <<"l", m>>)
    /\ alternate' = FALSE
    /\ clears' = IF clear THEN clears \cup {"alternate"} ELSE clears
    /\ cells' = IF clear THEN [cells EXCEPT !["alternate"] = "blank"] ELSE cells
    /\ UNCHANGED <<input, images>>

Write ==
    /\ log' = Append(log, <<"write">>)
    /\ cells' = [cells EXCEPT ![Grid] = IF @ = "blank" THEN "text" ELSE @]
    /\ UNCHANGED <<alternate, input, images, clears>>

\* ED 2
EraseDisplay ==
    /\ log' = Append(log, <<"erase">>)
    /\ cells' = [cells EXCEPT ![Grid] = "blank"]
    /\ clears' = clears \cup {Grid}
    /\ UNCHANGED <<alternate, input, images>>

\* The end of the bytes before a graphics command, or of what was read: the
\* pictures of the grids that were cleared go.
EndSegment ==
    /\ clears # {}
    /\ images' = images \ clears
    /\ clears' = {}
    /\ UNCHANGED <<alternate, input, cells, log>>

\* A graphics command is the end of a segment.  Pictures are put over text.
Place ==
    /\ clears = {}
    /\ cells[Grid] # "blank"
    /\ cells' = [cells EXCEPT ![Grid] = "under"]
    /\ images' = images \cup {Grid}
    /\ log' = Append(log, <<"place">>)
    /\ UNCHANGED <<alternate, input, clears>>

-----------------------------------------------------------------------------
(* Resets *)

\* RIS keeps the dynamic colors, and forgets those that were pushed.
Reset ==
    /\ log' = Append(log, <<"ris">>)
    /\ alternate' = FALSE
    /\ mode' = {}
    /\ mouse' = "off"
    /\ keyboard' = [g \in Grids |-> NoKeyboard]
    /\ pointer' = [g \in Grids |-> << >>]
    /\ colors' = [colors EXCEPT !.stack = << >>]
    /\ cells' = [g \in Grids |-> "blank"]
    /\ clears' = Grids
    /\ UNCHANGED images

\* Mutant: a soft reset is a reset of the input modes, too.
SoftResetAll ==
    /\ log' = Append(log, <<"decstr">>)
    /\ mode' = {}
    /\ pointer' = [g \in Grids |-> << >>]
    /\ UNCHANGED <<alternate, mouse, keyboard, colors, picture>>

\* DECSTR
SoftReset ==
    /\ log' = Append(log, <<"decstr">>)
    /\ mode' = mode \ SoftModes
    /\ pointer' = [g \in Grids |-> << >>]
    /\ UNCHANGED <<alternate, mouse, keyboard, colors, picture>>

Command ==
    \/ \E m \in Modes, on \in BOOLEAN : Switch(m, on)
    \/ \E t \in Tracking, on \in BOOLEAN : Track(t, on)
    \/ \E op \in {"set", "push", "pop"} : Keyboard(op) \/ Pointer(op)
    \/ \E op \in {"set", "reset", "push", "pop"} : Colors(op)
    \/ \E m \in {"47", "1047", "1049"} : EnterAlternate(m) \/ LeaveAlternate(m)
    \/ Write \/ EraseDisplay \/ Place
    \/ Reset \/ SoftReset

Next == (Len(log) < MaxCommands /\ Command) \/ EndSegment

Spec == Init /\ [][Next]_vars

-----------------------------------------------------------------------------
(* The state as the commands so far define it. *)

Pos == DOMAIN log
LastOf(S) == CHOOSE i \in S : \A j \in S : j <= i
\* The grid command i works on.
Shows == {"47", "1047", "1049"}
Toggles(n) == {i \in 1..n : log[i] = <<"ris">> \/ (Len(log[i]) = 2 /\ log[i][2] \in Shows)}
GridAt(i) ==
    IF Toggles(i - 1) = {} \/ log[LastOf(Toggles(i - 1))][1] \in {"l", "ris"}
    THEN "main" ELSE "alternate"

\* A mode is what the last command about it said.
Says(m) == {i \in Pos : \/ log[i] \in {<<"h", m>>, <<"l", m>>, <<"ris">>}
                        \/ log[i] = <<"decstr">> /\ m \in SoftModes}
Tracks == {i \in Pos : log[i] = <<"ris">> \/ (Len(log[i]) = 2 /\ log[i][2] \in Tracking)}
Said(m) ==
    CASE m \in Modes -> Says(m) # {} /\ log[LastOf(Says(m))] = <<"h", m>>
      [] m \in Tracking -> Tracks # {} /\ log[LastOf(Tracks)] = <<"h", m>>
      [] m = "alternate" -> GridAt(Len(log) + 1) = "alternate"

\* The operations on a stack since it was last reset.
Operations(kind, g, resets) ==
    LET from == {i \in Pos : log[i][1] \in resets}
        after == {i \in Pos : \A j \in from : j < i}
        mine == {i \in after : log[i][1] = kind /\ (kind # "colors" => GridAt(i) = g)}
    IN  SetToSortSeq(mine, <)
\* What a stack shows after the first n operations: a pop goes back to before
\* the push it matches, when no more than Depth pushes were ever open since.
Shown(kind, ops, start) ==
    LET op(i) == log[ops[i]][2]
        count(a, b, what) == Cardinality({i \in a..b : op(i) = what})
        open(j, i) == count(j, i, "push") - count(j, i, "pop")
        matches(j, i) ==
            /\ op(j) = "push" /\ count(j, i, "push") = count(j, i, "pop")
            /\ \A k \in j..(i - 1) :
                  count(j, k, "push") > count(j, k, "pop") /\ open(j, k) <= Depth
        shown[i \in 0..Len(ops)] ==
            IF i = 0 THEN start
            ELSE CASE op(i) = "set" -> "some"
                   [] op(i) = "reset" -> "inherited"
                   [] op(i) = "push" -> IF kind = "colors" THEN shown[i - 1] ELSE "none"
                   [] op(i) = "pop" ->
                        IF \E j \in 1..(i - 1) : matches(j, i)
                        THEN shown[(CHOOSE j \in 1..(i - 1) : matches(j, i)) - 1]
                        ELSE IF kind = "colors" THEN shown[i - 1] ELSE "none"
    IN  shown[Len(ops)]

\* Every mode query answers what the commands so far said, every grid has the
\* keyboard flags its own programs gave it, however often the other one was
\* shown, and nested programs that restore colors and flags find what they
\* saved, up to the depth of the stacks.
SettingsFollowCommands ==
    /\ \A m \in Modes \cup Tracking \cup {"alternate"} : Answer(m) = Said(m)
    /\ \A g \in Grids :
          keyboard[g].flags = Shown("keyboard", Operations("keyboard", g, {"ris"}), "none")
    /\ \A g \in Grids : PointerShape(g) = "some" =>
          \E i \in Range(Operations("pointer", g, {"ris", "decstr"})) : log[i][2] = "set"
    /\ \E kept \in (IF <<"ris">> \in Range(log) THEN {"some"} ELSE {}) \cup {"inherited"} :
          colors.now = Shown("colors", Operations("colors", "main", {"ris"}), kept)

\* A picture goes with the text it was put over: no grid that was cleared, by an
\* erase, a reset or a visit of the alternate grid, still shows one, and none
\* disappears while its text is still there.
PicturesFollowText ==
    clears = {} => \A g \in Grids : g \in images <=> cells[g] = "under"
=============================================================================
