------------------------------ MODULE HistoryView ------------------------------
(***************************************************************************)
(* The history browser of one pane (history_view.rs, history_view/search.rs): *)
(* navigation, selection by keys and by mouse, search and copying over a    *)
(* frozen snapshot.                                                         *)
(*                                                                         *)
(* A row of the snapshot is the sequence of its used columns: "c" is a text  *)
(* cell, " " a space, "w" a wide glyph and "t" its second column; `joined`   *)
(* are the rows that continue the one before.  A query matches a run of "c"; *)
(* it is its length.  Keys are bound as they are by default.                 *)
(***************************************************************************)
EXTENDS Integers, Sequences, FiniteSets, FiniteSetsExt

CONSTANTS
    Texts,          \* the rows a snapshot is made of
    Width,          \* its columns
    History,        \* its rows above the screen
    Height,         \* the rows of the screen, which are those of the view
    MaxQuery,       \* the longest query
    MaxQueries      \* MAX_QUERY_HISTORY

Total == History + Height
Rows == 1..Total
None == "none"
Nowhere == <<0, 0>>
NoSelection == [source |-> None, anchor |-> Nowhere, cursor |-> Nowhere, column |-> 0]
NoEditor == [on |-> FALSE, text |-> 0, forward |-> TRUE, recalled |-> 0, draft |-> 0]
NoDrag == None
NoCopy == [staged |-> FALSE, cells |-> {}]
Copy(cells) == [staged |-> TRUE, cells |-> cells]

VARIABLES
    text, joined,   \* the snapshot
    open,           \* the view exists
    offset,         \* rows above the newest position
    selection,
    editor, queries,    \* QueryInput, QueryHistory (oldest first)
    query, forward, selected,   \* the submitted search and the place of its hit
    escape,         \* an ESC byte that waits: None, "search" or "browse"
    paste,          \* inside a bracketed paste
    drag,           \* DragScroll: None, "older" or "newer"
    copied          \* the copy that was staged: its text cells

vars == <<text, joined, open, offset, selection, editor, queries, query, forward,
          selected, escape, paste, drag, copied>>
snapshot == <<text, joined>>
search == <<query, forward, selected>>

Init ==
    /\ text \in [Rows -> Texts]
    /\ joined \in SUBSET (2..Total)
    /\ open = TRUE
    /\ offset = 0
    /\ selection = NoSelection
    /\ editor = NoEditor
    /\ queries = << >>
    /\ query = 0 /\ forward = TRUE /\ selected = 0
    /\ escape = None /\ paste = FALSE /\ drag = NoDrag
    /\ copied = NoCopy

-----------------------------------------------------------------------------
(* Cells. *)

IsBase(row, column) ==
    column \in DOMAIN text[row] /\ text[row][column] # "t"

Bases(row) == {c \in DOMAIN text[row] : text[row][c] # "t"}
FirstCell(row) == IF Bases(row) = {} THEN 1 ELSE Min(Bases(row))
LastCell(row) == IF Bases(row) = {} THEN 1 ELSE Max(Bases(row))

CellAtOrBefore(row, column) ==
    LET left == {c \in Bases(row) : c <= column} IN
    IF left = {} THEN 1 ELSE Max(left)

Earlier(p, q) == p[1] < q[1] \/ (p[1] = q[1] /\ p[2] <= q[2])
Ordered(p, q) == IF Earlier(p, q) THEN <<p, q>> ELSE <<q, p>>

\* Mutant: the end of a match is taken for its last cell.
PreviousSame(p) == <<p[1], Min({p[2], Width})>>

PreviousCell(p) ==
    LET left == {c \in Bases(p[1]) : c < p[2]} IN
    IF left # {} THEN <<p[1], Max(left)>>
    ELSE IF p[1] = 1 THEN <<1, FirstCell(1)>>
    ELSE <<p[1] - 1, LastCell(p[1] - 1)>>

NextCell(p) ==
    LET right == {c \in Bases(p[1]) : c > p[2]} IN
    IF right # {} THEN <<p[1], Min(right)>>
    ELSE IF p[1] = Total THEN <<Total, LastCell(Total)>>
    ELSE <<p[1] + 1, FirstCell(p[1] + 1)>>

\* adjacent_cell: the neighbour that has text, with whether a hard line boundary
\* lies between; itself when there is none.
Adjacent(p, ahead) ==
    LET same == {c \in Bases(p[1]) : IF ahead THEN c > p[2] ELSE c < p[2]}
        others == {r \in Rows : Bases(r) # {} /\ IF ahead THEN r > p[1] ELSE r < p[1]}
        row == IF ahead THEN Min(others) ELSE Max(others)
        crossed == IF ahead THEN p[1] + 1..row ELSE row + 1..p[1]
    IN
    CASE same # {} -> [at |-> <<p[1], IF ahead THEN Min(same) ELSE Max(same)>>, hard |-> FALSE]
      [] same = {} /\ others # {} ->
            [at |-> <<row, IF ahead THEN FirstCell(row) ELSE LastCell(row)>>,
             hard |-> ~(crossed \subseteq joined)]
      [] OTHER -> [at |-> p, hard |-> TRUE]

IsSpace(p) == ~IsBase(p[1], p[2]) \/ text[p[1]][p[2]] = " "

\* The last cell of the word at p.
WordEnd(p, ahead) ==
    LET end[n \in 0..Width * Total] ==
            IF n = 0 THEN p
            ELSE LET next == Adjacent(end[n - 1], ahead) IN
                 IF next.hard \/ IsSpace(next.at) THEN end[n - 1] ELSE next.at
    IN end[Width * Total]

\* The first cell of the next word, or the last cell there is.
WordStart(p, ahead) ==
    LET start[n \in 0..Width * Total] ==
            IF n = 0 THEN Adjacent(p, ahead).at
            ELSE IF IsSpace(start[n - 1]) THEN Adjacent(start[n - 1], ahead).at
            ELSE start[n - 1]
    IN start[Width * Total]

\* Where a move goes from p, in a word that ends at `end`, or from the next one at q.
FromWord(p, end, next) == IF ~IsSpace(p) /\ end # p THEN end ELSE next
NextWord(q, ahead) == IF IsSpace(q) THEN q ELSE WordEnd(q, ahead)
WordMove(p, ahead) == FromWord(p, WordEnd(p, ahead), NextWord(WordStart(p, ahead), ahead))

-----------------------------------------------------------------------------
(* Search: the matches of n text cells in a row, over soft wraps. *)

Succ(p) == Adjacent(p, TRUE)

Matches(n) ==
    LET run[i \in 1..MaxQuery, p \in Rows \X (1..Width)] ==
            IF ~IsBase(p[1], p[2]) \/ text[p[1]][p[2]] # "c" THEN FALSE
            ELSE i = 1 \/ (~Succ(p).hard /\ Succ(p).at # p /\ run[i - 1, Succ(p).at])
    IN IF n = 0 THEN {} ELSE {p \in Rows \X (1..Width) : run[n, p]}

\* Hit: its first cell and the column after its last one.
HitEnd(p, n) ==
    LET last[i \in 1..MaxQuery] == IF i = 1 THEN p ELSE Succ(last[i - 1]).at
    IN <<last[n][1], last[n][2] + 1>>

Hits(n) == Matches(n)
Nth(hits, i) == CHOOSE p \in hits : Cardinality({q \in hits : Earlier(q, p)}) = i
Hit == IF selected = 0 THEN Nowhere ELSE Nth(Hits(query), selected)

-----------------------------------------------------------------------------
(* Copying: the text cells between two positions; what the view shows otherwise. *)

Cells(p, q) ==
    {x \in Rows \X (1..Width) : IsBase(x[1], x[2]) /\ Earlier(p, x) /\ Earlier(x, q)}

Top(o) == History - o + 1
InView(row, o) == row \in Top(o)..Top(o) + Height - 1
Viewport == {x \in Cells(<<1, 1>>, <<Total, Width>>) : InView(x[1], offset)}

CellsOf(span) == Cells(span[1], span[2])
Selected(sel) == CellsOf(Ordered(sel.anchor, sel.cursor))
HitSpan(hit) == <<hit, PreviousCell(HitEnd(hit, query))>>
HitCells == CellsOf(HitSpan(Hit))

KeyboardSelection == selection.source = "keyboard"
NoMouse(sel) == IF sel.source = "mouse" THEN NoSelection ELSE sel

\* The first that holds: the view is there and takes keys of the browser.
Browses == open /\ ~paste /\ ~editor.on /\ escape = None /\ copied = NoCopy
\* A key ends what the mouse has selected.
Keys == Browses /\ drag' = NoDrag

Up(o, n) == Min({o + n, History})
Down(o, n) == Max({o - n, 0})

\* The offset at which a row can be seen.
Reveal(o, row) ==
    IF row < Top(o) THEN History - row + 1
    ELSE IF row >= Top(o) + Height THEN Max({History - row + Height, 0}) ELSE o

-----------------------------------------------------------------------------
(* Selection by keys.  A move is a function of the selection. *)

Vertical(sel, row) ==
    LET column == IF sel.column = 0 THEN sel.cursor[2] ELSE sel.column IN
    [sel EXCEPT !.cursor = <<row, CellAtOrBefore(row, column)>>, !.column = column]

Horizontal(sel, cell) == [sel EXCEPT !.cursor = cell, !.column = 0]

RowBy(row, n) == Max({1, Min({row + n, Total})})

\* The moves of the keys h j k l, the pages, g G, b e, 0 $ and o.
Moves(sel) ==
    {Vertical(sel, RowBy(sel.cursor[1], n)) : n \in {-1, 1, -Height, Height}}
    \cup {Vertical(sel, row) : row \in {1, Total}}
    \cup {Horizontal(sel, PreviousCell(sel.cursor)), Horizontal(sel, NextCell(sel.cursor))}
    \cup {Horizontal(sel, WordMove(sel.cursor, ahead)) : ahead \in BOOLEAN}
    \cup {Horizontal([sel EXCEPT !.anchor = sel.cursor], sel.anchor)}

\* Without a reveal: the row stays.
LineEnds(sel) ==
    {Horizontal(sel, <<sel.cursor[1], c>>) : c \in {FirstCell(sel.cursor[1]),
                                                     LastCell(sel.cursor[1])}}

\* Ctrl-Shift-Home and -End: the first and the last cell that has text.
SnapshotEnds(sel) ==
    LET rows == {r \in Rows : Bases(r) # {}} IN
    IF rows = {} THEN {Horizontal(sel, <<1, 1>>)}
    ELSE {Horizontal(sel, <<Min(rows), FirstCell(Min(rows))>>),
          Horizontal(sel, <<Max(rows), LastCell(Max(rows))>>)}

\* toggle_selection: the match, or the first cell of the view.
Started ==
    LET first == <<Top(offset), FirstCell(Top(offset))>>
        Over(span) == [source |-> "keyboard", column |-> 0,
                       anchor |-> span[1], cursor |-> span[2]]
    IN  Over(IF selected # 0 THEN HitSpan(Hit) ELSE <<first, first>>)

\* prepare_selection: a selection that starts towards the front moves its start.
BothWays(sel) == {sel, [sel EXCEPT !.anchor = sel.cursor, !.cursor = sel.anchor]}
Prepared == IF KeyboardSelection THEN {selection} ELSE BothWays(Started)

Toggles ==
    /\ Keys
    /\ selection' = IF KeyboardSelection THEN NoSelection ELSE Started
    /\ UNCHANGED <<snapshot, open, offset, editor, queries, search, escape, paste, copied>>

Extends ==
    /\ Keys
    /\ \E sel \in Prepared :
        \/ /\ selection' \in Moves(sel) \cup SnapshotEnds(sel)
           /\ offset' = Reveal(offset, selection'.cursor[1])
        \/ /\ selection' \in LineEnds(sel)
           /\ UNCHANGED offset
    /\ UNCHANGED <<snapshot, open, editor, queries, search, escape, paste, copied>>

CopiesSelection ==
    /\ Keys
    /\ KeyboardSelection
    /\ copied' = Copy(Selected(selection))
    /\ selection' = NoSelection
    /\ UNCHANGED <<snapshot, open, offset, editor, queries, search, escape, paste>>

-----------------------------------------------------------------------------
(* Browsing. *)

Scrolls ==
    /\ Keys
    /\ ~KeyboardSelection
    /\ \E n \in {1, Height} : offset' \in {Up(offset, n), Down(offset, n), History, 0}
    /\ selection' = NoMouse(selection)
    /\ UNCHANGED <<snapshot, open, editor, queries, search, escape, paste, copied>>

Copies ==
    /\ Keys
    /\ ~KeyboardSelection
    /\ copied' = Copy(IF selected # 0 THEN HitCells ELSE Viewport)
    /\ selection' = NoMouse(selection)
    /\ UNCHANGED <<snapshot, open, offset, editor, queries, search, escape, paste>>

\* select: the row of the match goes to the top.
Shows(hits, i) ==
    /\ selected' = i
    /\ offset' = IF i = 0 THEN offset ELSE Max({0, History - Nth(hits, i)[1] + 1})

NextMatch ==
    /\ Keys
    /\ ~KeyboardSelection
    /\ selected # 0
    /\ \E hits \in {Hits(query)}, backwards \in BOOLEAN :
           LET count == Cardinality(hits)
           IN  Shows(hits, IF backwards THEN ((selected + count - 2) % count) + 1
                           ELSE (selected % count) + 1)
    /\ selection' = NoMouse(selection)
    /\ UNCHANGED <<snapshot, open, editor, queries, query, forward, escape, paste, copied>>

Exits ==
    /\ Keys
    /\ open' = FALSE
    /\ UNCHANGED <<snapshot, offset, selection, editor, queries, search, escape, paste, copied>>

OpensEditor ==
    /\ Keys
    /\ ~KeyboardSelection
    /\ \E f \in BOOLEAN : editor' = [NoEditor EXCEPT !.on = TRUE, !.forward = f]
    /\ selection' = NoMouse(selection)
    /\ UNCHANGED <<snapshot, open, offset, queries, search, escape, paste, copied>>

-----------------------------------------------------------------------------
(* The query editor. *)

Edits == open /\ editor.on /\ escape = None

\* A key, or a byte of a paste, that changes the text makes it a new draft; Alt-D
\* (delete_next_word) does not touch the place in the history.
Types ==
    /\ Edits
    /\ \E t \in 0..MaxQuery \ {editor.text} :
        \/ editor' = [editor EXCEPT !.text = t, !.recalled = 0, !.draft = 0]
        \/ ~paste /\ t < editor.text /\ editor' = [editor EXCEPT !.text = t]
    /\ UNCHANGED <<snapshot, open, offset, selection, queries, search, escape, paste, drag, copied>>

Recalls ==
    /\ Edits /\ ~paste
    /\ queries # << >>
    /\ \/ LET i == IF editor.recalled = 0 THEN Len(queries) ELSE Max({1, editor.recalled - 1}) IN
          editor' = [editor EXCEPT !.text = queries[i], !.recalled = i,
                                   !.draft = IF editor.recalled = 0 THEN editor.text ELSE @]
       \/ /\ editor.recalled # 0
          /\ editor' = IF editor.recalled < Len(queries)
                       THEN [editor EXCEPT !.text = queries[editor.recalled + 1], !.recalled = @ + 1]
                       ELSE [editor EXCEPT !.text = editor.draft, !.recalled = 0, !.draft = 0]
    /\ UNCHANGED <<snapshot, open, offset, selection, queries, search, escape, paste, drag, copied>>

CancelsEditor ==
    /\ Edits /\ ~paste
    /\ editor' = NoEditor
    /\ UNCHANGED <<snapshot, open, offset, selection, queries, search, escape, paste, drag, copied>>

Remembered(t) ==
    LET kept == SelectSeq(queries, LAMBDA q : q # t)
        all == Append(kept, t)
    IN IF t = 0 THEN queries
       ELSE SubSeq(all, Max({1, Len(all) - MaxQueries + 1}), Len(all))

\* Both directions start at the top row of the view and wrap.
Found(hits, f) ==
    LET at == {i \in 1..Cardinality(hits) : LET row == Nth(hits, i)[1] IN
                  IF f THEN row >= Top(offset) ELSE row <= Top(offset)}
    IN IF hits = {} THEN 0
       ELSE IF f THEN (IF at = {} THEN 1 ELSE Min(at))
       ELSE (IF at = {} THEN Cardinality(hits) ELSE Max(at))

Submits ==
    /\ Edits /\ ~paste
    /\ editor' = NoEditor
    /\ query' = editor.text
    /\ forward' = editor.forward
    /\ queries' = Remembered(editor.text)
    /\ \E hits \in {Hits(query')} : Shows(hits, Found(hits, forward'))
    /\ UNCHANGED <<snapshot, open, selection, escape, paste, drag, copied>>

-----------------------------------------------------------------------------
(* The mouse, in columns of the view; a second column means its glyph. *)

MousePosition(o, row, column) ==
    LET r == Top(o) + row - 1 IN
    <<r, IF column \in DOMAIN text[r] /\ text[r][column] = "t" THEN column - 1 ELSE column>>

Listens == open /\ ~paste /\ escape = None /\ copied = NoCopy /\ ~editor.on /\ ~KeyboardSelection

Presses ==
    /\ Listens
    /\ \E row \in 1..Height, column \in 1..Width :
        LET p == MousePosition(offset, row, column) IN
        selection' = [source |-> "mouse", anchor |-> p, cursor |-> p, column |-> 0]
    /\ drag' = NoDrag
    /\ UNCHANGED <<snapshot, open, offset, editor, queries, search, escape, paste, copied>>

\* A motion or the release, at a row of the view or beyond its edges.
Drags ==
    /\ Listens
    /\ selection.source = "mouse"
    /\ \E row \in 0..Height + 1, column \in 1..Width, released \in BOOLEAN :
        LET older == row = 0
            newer == row > Height
            p == MousePosition(offset', Min({Max({row, 1}), Height}), column)
            sel == [selection EXCEPT !.cursor = p]
        IN
        /\ offset' = IF older THEN Up(offset, 1) ELSE IF newer THEN Down(offset, 1) ELSE offset
        /\ selection' = IF released THEN NoSelection ELSE sel
        /\ copied' = IF released /\ sel.anchor # p THEN Copy(Selected(sel)) ELSE copied
        /\ drag' = IF ~released /\ older /\ offset' < History THEN "older"
                   ELSE IF ~released /\ newer /\ offset' > 0 THEN "newer" ELSE NoDrag
    /\ UNCHANGED <<snapshot, open, editor, queries, search, escape, paste>>

Wheels ==
    /\ Listens
    /\ offset' \in {Up(offset, 3), Down(offset, 3)}
    /\ selection' = NoMouse(selection)
    /\ drag' = NoDrag
    /\ UNCHANGED <<snapshot, open, editor, queries, search, escape, paste, copied>>

\* expire_drag_scroll, while the pointer stays beyond an edge.
DragsOn ==
    /\ open /\ drag # NoDrag
    /\ offset' = IF drag = "older" THEN Up(offset, 1) ELSE Down(offset, 1)
    /\ IF offset' = offset THEN drag' = NoDrag /\ UNCHANGED selection
       ELSE /\ \E column \in 1..Width :
                  selection' = IF selection = NoSelection THEN selection
                               ELSE [selection EXCEPT !.cursor = MousePosition(offset',
                                       IF drag = "older" THEN 1 ELSE Height, column)]
            /\ drag' = IF offset' = (IF drag = "older" THEN History ELSE 0) THEN NoDrag ELSE drag
    /\ UNCHANGED <<snapshot, open, editor, queries, search, escape, paste, copied>>

-----------------------------------------------------------------------------
(* Escape and paste. *)

EscapeByte ==
    /\ open /\ escape = None /\ copied = NoCopy
    /\ escape' = IF editor.on \/ query # 0 THEN "search" ELSE "browse"
    /\ UNCHANGED <<snapshot, open, offset, selection, editor, queries, search, paste, drag, copied>>

\* The byte after it makes it a sequence that means nothing.
Swallows ==
    /\ open /\ escape # None
    /\ escape' = None
    /\ selection' = NoMouse(selection)
    /\ drag' = NoDrag
    /\ UNCHANGED <<snapshot, open, offset, editor, queries, search, paste, copied>>

\* expire_escape: nothing followed within 30 ms.
Expires ==
    /\ open /\ escape # None
    /\ escape' = None
    /\ IF selection # NoSelection
       THEN /\ selection' = NoSelection /\ drag' = NoDrag
            /\ UNCHANGED <<open, editor, query, selected>>
       ELSE IF escape = "search"
       THEN /\ editor' = NoEditor /\ query' = 0 /\ selected' = 0
            /\ UNCHANGED <<open, selection, drag>>
       ELSE open' = FALSE /\ UNCHANGED <<editor, query, selected, selection, drag>>
    /\ UNCHANGED <<snapshot, offset, queries, forward, paste, copied>>

Pastes ==
    /\ open /\ escape = None /\ copied = NoCopy
    /\ paste' = ~paste
    /\ selection' = NoMouse(selection)
    /\ drag' = NoDrag
    /\ UNCHANGED <<snapshot, open, offset, editor, queries, search, escape, copied>>

\* The event loop takes the copy before it reads more input.
TakesCopy ==
    /\ copied # NoCopy
    /\ copied' = NoCopy
    /\ UNCHANGED <<snapshot, open, offset, selection, editor, queries, search, escape, paste, drag>>

Next ==
    \/ Toggles \/ Extends \/ CopiesSelection
    \/ Scrolls \/ Copies \/ NextMatch \/ Exits \/ OpensEditor
    \/ Types \/ Recalls \/ CancelsEditor \/ Submits
    \/ Presses \/ Drags \/ Wheels \/ DragsOn
    \/ EscapeByte \/ Swallows \/ Expires \/ Pastes \/ TakesCopy

Spec == Init /\ [][Next]_vars

-----------------------------------------------------------------------------
\* render: the text that is drawn in inverse.
Before(x, end) == x[1] < end[1] \/ (x[1] = end[1] /\ x[2] < end[2])
InHit(cells, hit, end) == {x \in cells : Earlier(hit, x) /\ Before(x, end)}
Inverted(sel) ==
    IF sel # NoSelection THEN Selected(sel)
    ELSE InHit(Viewport \cup HitCells, Hit, HitEnd(Hit, query))

Highlights(sel) == sel # NoSelection \/ selected # 0

\* The text that leaves for the clipboard is the text that was drawn as selected:
\* the selection, or else the match, or else all that the view shows; for a drag
\* up to a place in the view where the button was released.
CopiedIsShown ==
    LET sel == NoMouse(selection) IN
    copied = NoCopy /\ copied' # NoCopy =>
        \/ copied'.cells = IF Highlights(sel) THEN Inverted(sel) ELSE Viewport
        \/ /\ selection.source = "mouse"
           /\ \E p \in Rows \X (1..Width) :
                InView(p[1], offset') /\ copied'.cells = Selected([selection EXCEPT !.cursor = p])

\* A key that moves the end of a selection to another row scrolls the view to it.
CursorIsSeen ==
    (/\ KeyboardSelection /\ selection'.source = "keyboard"
     /\ selection'.cursor[1] # selection.cursor[1])
    => InView(selection'.cursor[1], offset')

\* The end of a keyboard selection is a text cell (or the first column of a row
\* without any), and a step down and up again, over shorter rows and wide
\* glyphs, comes back to it.
ColumnIsKept ==
    KeyboardSelection =>
        LET cursor == selection.cursor
            down == Vertical(selection, cursor[1] + 1)
        IN /\ IsBase(cursor[1], cursor[2]) \/ (Bases(cursor[1]) = {} /\ cursor[2] = 1)
           /\ cursor[1] < Total => Vertical(down, cursor[1]).cursor = cursor
=============================================================================
