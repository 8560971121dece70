---------------------------- MODULE ShortcutHelp ----------------------------
(***************************************************************************)
(* The Help panel of shortcut_help.rs: a list of commands broken into      *)
(* columns and pages, drawn over the view, that takes every byte of the    *)
(* terminal while it is open (terminal.rs, forward).  Drawing fills the    *)
(* table of hitboxes that the clicks of later reports are compared with;   *)
(* a report that turns the page is handled before the panel is drawn       *)
(* again.                                                                  *)
(*                                                                         *)
(* A control sequence arrives whole, after an ESC that may be waiting.  A  *)
(* cell is <<row, column>>, from 1 as in mouse reports.  Colours and the   *)
(* wording of labels are left out.  What a key does is KeyBindings: here a *)
(* letter runs itself when the panel is live for it.                       *)
(***************************************************************************)
EXTENDS Integers, Sequences, SequencesExt

CONSTANTS
    Panels,      \* what Help may be opened for: [arrows, commands, live]
    Sizes,       \* sizes of the terminal, <<rows, columns>>
    Letters,     \* keys
    Points,      \* cells that are clicked
    MaxResizes   \* bound: resizes

None == "none"
\* Nothing has been drawn yet.
Unseen == [size |-> <<0, 0>>, page |-> 0, pages |-> 0]

VARIABLES
    panel,    \* the panel that was opened
    size,     \* the terminal's size now
    shown,    \* size and page at the last drawing
    page, pages,
    escape,   \* an ESC byte waits for the rest of its sequence
    paste,    \* inside a bracketed paste
    hits,     \* the hitboxes, in the order they are tried
    pressed,  \* the target of the last press
    state,    \* "open", "closed", "ran", or "taken" by another event
    ran,      \* what was run
    aim,      \* what the panel showed at the cell that was pressed
    pasting,  \* the terminal is sending a paste
    resizes

vars == <<panel, size, shown, page, pages, escape, paste, hits, pressed,
          state, ran, aim, pasting, resizes>>

----------------------------------------------------------------------------
(* Layout.                                                                 *)

Least(a, b) == IF a < b THEN a ELSE b
Most(a, b) == IF a > b THEN a ELSE b

KeyWidth == 11
TwoColumnWidth == 58

Box(s) ==
    LET height == Least(17, s[1])
        width == Least(72, s[2])
    IN  [height |-> height, width |-> width, top |-> (s[1] - height) \div 2,
         left |-> (s[2] - width) \div 2, inner |-> Most(0, width - 4),
         rows |-> Most(1, height - 3),
         abreast |-> IF width - 4 >= TwoColumnWidth THEN 2 ELSE 1]

Drawable(s) == Box(s).width > 4 /\ Box(s).height > 2

\* A row of a column: the heading of a group (command 0) or a command.
Heading(g) == [group |-> g, command |-> 0]
Row(c) == [group |-> panel.commands[c].group, command |-> c]

\* Command c after the columns placed so far.
Placed(columns, c, rows) ==
    LET column == Last(columns)
        Items(last) ==
            IF rows >= 2 /\ (last = <<>> \/ Last(last).group # Row(c).group)
            THEN <<Heading(Row(c).group), Row(c)>> ELSE <<Row(c)>>
    IN  IF Len(column) + Len(Items(column)) <= rows
        THEN Append(Front(columns), column \o Items(column))
        ELSE Append(columns, Items(<<>>))

LayoutColumns(rows) ==
    FoldLeft(LAMBDA columns, c : Placed(columns, c, rows), <<<<>>>>,
             [c \in DOMAIN panel.commands |-> c])

PagesAt(s) ==
    LET n == Len(LayoutColumns(Box(s).rows)) IN
    Most(1, (n + Box(s).abreast - 1) \div Box(s).abreast)

\* The columns of page p, each with the 0-based column it starts at.
PageColumns(s, p) ==
    LET b == Box(s)
        all == LayoutColumns(b.rows)
        first == p * b.abreast
    IN  [i \in 1..Least(b.abreast, Most(0, Len(all) - first)) |->
           [items |-> all[first + i],
            at |-> b.left + 2 + (i - 1) * (b.inner \div b.abreast)]]

\* The commands of page p: [command, row, at], 0-based, in drawing order.
RowsOf(column, top) ==
    SelectSeq([j \in DOMAIN column.items |->
                  [command |-> column.items[j].command, row |-> top + j, at |-> column.at]],
              LAMBDA x : x.command # 0)
RowsOfAll(columns, top) == FlattenSeq([i \in DOMAIN columns |-> RowsOf(columns[i], top)])
CommandRows(s, p) == RowsOfAll(PageColumns(s, p), Box(s).top)

ColumnWidth(s) == Box(s).inner \div Box(s).abreast
KeyRoom(s) == Least(KeyWidth, ColumnWidth(s))

\* The footer is "PgUp/PgDn  1/2  Esc/q/? Close", with "<-/-> Pages" where
\* the arrows are not bound (an arrow is one column), or
\* "Esc / q / ?  Close".
FooterRow(s) == Box(s).top + Box(s).height - 2
FooterWidth(n) == IF n > 1 THEN 29 ELSE 18

----------------------------------------------------------------------------
(* Drawing.                                                                *)

Hitbox(row, start, end, target) ==
    [row |-> row, start |-> start, end |-> end, target |-> target]

\* draw_command: the keys of a grouped command, then the whole row.  A row of
\* a mode's own bindings has one key.
CommandHits(s, x) ==
    LET c == panel.commands[x.command]
        keys == SelectSeq(c.keys, LAMBDA k : k[1] < Least(c.width, KeyRoom(s)))
        Key(k) == Hitbox(x.row + 1, x.at + 1 + k[1], x.at + 2 + k[1], k[2])
    IN  [i \in DOMAIN keys |-> Key(keys[i])]
        \o <<Hitbox(x.row + 1, x.at + 1, x.at + ColumnWidth(s) + 1, c.keys[1][2])>>

ControlHits(s, n) ==
    LET b == Box(s)
        row == FooterRow(s) + 1
        start == b.left + 2 + FooterWidth(n) - 5
    IN  (IF n > 1 THEN <<Hitbox(row, b.left + 3, b.left + 8, "previous"),
                         Hitbox(row, b.left + 8, b.left + 14, "next")>> ELSE <<>>)
        \o <<Hitbox(row, start + 1, Least(b.left + b.width - 1, start + 6), "close")>>

RowHits(s, rows) == FlattenSeq([i \in DOMAIN rows |-> CommandHits(s, rows[i])])
Hitboxes(s, p, n) ==
    IF Drawable(s) THEN RowHits(s, CommandRows(s, p)) \o ControlHits(s, n) ELSE <<>>

Target(cell) ==
    LET at == {i \in DOMAIN hits : /\ hits[i].row = cell[1]
                                   /\ cell[2] >= hits[i].start
                                   /\ cell[2] < hits[i].end}
    IN  IF at = {} THEN None
        ELSE hits[CHOOSE i \in at : \A j \in at : i <= j].target

Init ==
    /\ panel \in Panels
    /\ size \in Sizes
    /\ shown = Unseen
    /\ page = 0 /\ pages = 1
    /\ escape = FALSE /\ paste = FALSE
    /\ hits = <<>> /\ pressed = None
    /\ state = "open" /\ ran = None /\ aim = None
    /\ pasting = FALSE
    /\ resizes = 0

\* overlay_themed
Overlay ==
    /\ state = "open"
    /\ pages' = PagesAt(size)
    /\ page' = Least(page, pages' - 1)
    /\ hits' = Hitboxes(size, page', pages')
    /\ shown' = [size |-> size, page |-> page', pages |-> pages']
    /\ shown' # shown
    /\ UNCHANGED <<panel, size, escape, paste, pressed, state, ran, aim,
                   pasting, resizes>>

Resize ==
    /\ state = "open" /\ resizes < MaxResizes
    /\ size' \in Sizes \ {size}
    /\ resizes' = resizes + 1
    /\ UNCHANGED <<panel, shown, page, pages, escape, paste, hits, pressed,
                   state, ran, aim, pasting>>

\* A script, the end of the pane or of the server closes the panel.
Taken ==
    /\ state = "open"
    /\ state' = "taken"
    /\ UNCHANGED <<panel, size, shown, page, pages, escape, paste, hits,
                   pressed, ran, aim, pasting, resizes>>

----------------------------------------------------------------------------
(* What is on the screen, by the last drawing: the row of a command, its   *)
(* keys, and the footer that is written after them.                        *)

Footer(cell) ==
    LET b == Box(shown.size)
        i == cell[2] - (b.left + 3)
        width == FooterWidth(shown.pages)
    IN  CASE i < 0 \/ i >= Least(width, b.inner) -> "blank"
          [] i >= width - 5 -> "close"
          [] shown.pages > 1 /\ i \in (IF panel.arrows THEN 0..3 ELSE {0}) -> "previous"
          [] shown.pages > 1 /\ i \in (IF panel.arrows THEN 5..8 ELSE {2}) -> "next"
          [] OTHER -> "text"

RowsAt(rows, cell) ==
    {rows[i] : i \in {j \in DOMAIN rows :
        /\ rows[j].row + 1 = cell[1]
        /\ cell[2] - rows[j].at \in 1..ColumnWidth(shown.size)}}

\* A key of the row that is shown at the column, or else the command's first.
InRow(x, column) ==
    LET keys == panel.commands[x.command].keys
        at == {k \in ToSet(keys) : x.at + 1 + k[1] = column /\ k[1] < KeyRoom(shown.size)}
    IN  IF at = {} THEN keys[1][2] ELSE (CHOOSE k \in at : TRUE)[2]

\* The rows are those of the commands that were drawn.
Shows(rows, cell) ==
    LET s == shown.size IN
    IF shown = Unseen \/ ~Drawable(s) THEN None
    ELSE IF cell[1] = FooterRow(s) + 1 /\ Footer(cell) # "blank" THEN Footer(cell)
    ELSE IF RowsAt(rows, cell) = {} THEN None
    ELSE InRow(CHOOSE x \in RowsAt(rows, cell) : TRUE, cell[2])

OnScreen(cell) == Shows(CommandRows(shown.size, shown.page), cell)

----------------------------------------------------------------------------
(* Input.  An event of the panel is the page it turns to, how it ends and  *)
(* what it runs.                                                           *)

Result(p, st, what) == page' = p /\ state' = st /\ ran' = what
Continue == Result(page, "open", ran)
Turned(delta) == Result((page + delta + pages) % pages, "open", ran)

Forget == pressed' = None /\ aim' = None
Rest == UNCHANGED <<panel, size, shown, pages, hits, resizes>>
Keep == UNCHANGED <<pressed, aim>>

Activate(target) ==
    CASE target = "close" -> Result(page, "closed", ran)
      [] target = "previous" -> Turned(-1)
      [] target = "next" -> Turned(1)
      [] OTHER -> Result(page, "ran", target)

ChangePage(delta) ==
    IF pages <= 1 THEN Continue /\ Keep ELSE Turned(delta) /\ Forget

\* A complete control sequence.  A pending ESC takes the first byte of it,
\* and the others are keys without a meaning.
Heard(event) ==
    /\ state = "open" /\ ~pasting
    /\ escape' = FALSE
    /\ IF escape \/ paste THEN Continue /\ Keep ELSE event
    /\ UNCHANGED <<paste, pasting>> /\ Rest

Press(cell) ==
    Heard(pressed' = Target(cell) /\ aim' = OnScreen(cell) /\ Continue)

Drag == Heard(Continue /\ Forget)

Release(cell) ==
    Heard(/\ Forget
          /\ IF pressed # None /\ Target(cell) = pressed
             THEN Activate(pressed) ELSE Continue)

Wheel(delta) == Heard(ChangePage(delta))

\* Left and Right run what NORMAL binds them to, if it does; Page Up and
\* Page Down always turn the page.
Arrow(delta) ==
    Heard(IF panel.arrows
          THEN Result(page, "ran", "arrow") /\ Keep ELSE ChangePage(delta))
PageKey(delta) == Heard(ChangePage(delta))

\* The terminal does not start a paste within 30 ms of an Esc key.
PasteBegins ==
    /\ state = "open" /\ ~pasting /\ ~escape
    /\ paste' = TRUE /\ pasting' = TRUE
    /\ UNCHANGED escape /\ Continue /\ Keep /\ Rest

PasteEnds ==
    /\ state = "open" /\ pasting
    /\ pasting' = FALSE /\ escape' = FALSE
    /\ paste' = (paste /\ escape)
    /\ Continue /\ Keep /\ Rest

\* A key, typed or pasted.
Byte(event) ==
    /\ state = "open"
    /\ event
    /\ Keep /\ UNCHANGED <<paste, pasting>> /\ Rest

Esc == Byte(escape' = ~escape /\ Continue)

Letter(k) ==
    Byte(/\ escape' = FALSE
         /\ CASE escape \/ paste -> Continue
              [] ~escape /\ ~paste /\ k = "q" -> Result(page, "closed", ran)
              [] ~escape /\ ~paste /\ k # "q" ->
                    IF k \in panel.live THEN Result(page, "ran", k) ELSE Continue)

\* 30 ms after an ESC that nothing followed.
EscapeExpires ==
    Byte(/\ escape /\ ~paste
         /\ escape' = FALSE
         /\ Result(page, "closed", ran))

Next ==
    \/ Overlay \/ Resize \/ Taken
    \/ \E cell \in Points : Press(cell) \/ Release(cell)
    \/ Drag \/ PasteBegins \/ PasteEnds \/ Esc \/ EscapeExpires
    \/ \E d \in {-1, 1} : Wheel(d) \/ Arrow(d) \/ PageKey(d)
    \/ \E k \in Letters : Letter(k)

Spec == Init /\ [][Next]_vars

----------------------------------------------------------------------------
(* Properties.                                                             *)

\* Every cell of the panel that shows a control or belongs to the row of a
\* command is the target it shows, and a blank cell or the border is none;
\* the text between two controls may belong to either of them.
PointsAtWhatIsShown ==
    shown # Unseen =>
        \A rows \in {CommandRows(shown.size, shown.page)} :
        \A row \in 1..shown.size[1], column \in 1..shown.size[2] :
            Shows(rows, <<row, column>>) \in {"text", Target(<<row, column>>)}

\* Whatever the size, the pages together list every command once, in order,
\* no column is longer than the panel, each begins with the heading of its
\* group where there is room for one, and the page shown is one of them
\* (docs/reference/shortcut-help.md: a heading is repeated when its group
\* continues in another column; resizing clamps the current page).
EveryCommandIsListed ==
    shown # Unseen =>
        LET s == shown.size
            commands(rows) == [i \in DOMAIN rows |-> rows[i].command]
        IN  /\ shown.page < shown.pages
            /\ commands(FlattenSeq([p \in 1..shown.pages |-> CommandRows(s, p - 1)]))
                  = [c \in DOMAIN panel.commands |-> c]
            /\ \A column \in ToSet(LayoutColumns(Box(s).rows)) :
                  /\ Len(column) <= Box(s).rows
                  /\ Box(s).rows >= 2 => column[1].command = 0

\* A click runs what the panel showed where the button went down, with no
\* drag and no other page in between; pasted text runs and closes nothing.
ClickRuns ==
    (\E cell \in Points : Release(cell)) /\ state' # "open"
        => (IF state' = "ran" THEN ran' ELSE "close") = aim
PasteIsText == pasting /\ state' # state => state' = "taken"
RunsWhatIsClicked == ClickRuns /\ PasteIsText
=============================================================================
