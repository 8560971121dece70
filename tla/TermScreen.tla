------------------------------ MODULE TermScreen ------------------------------
(***************************************************************************)
(* A pane's text grid: src/screen.rs, screen/reflow.rs, scrollback.rs,      *)
(* screen/history_snapshot.rs, and the control sequences of parser.rs that *)
(* act on it.                                                              *)
(*                                                                         *)
(* A cell is a blank in the default or in a coloured background, a narrow  *)
(* glyph, or one half of a wide glyph.  Of styles only the background is    *)
(* kept (it decides what an erased cell is); every operator takes a screen *)
(* and returns the screen after it.  Rows and columns count from one.      *)
(***************************************************************************)
EXTENDS Integers, SequencesExt

CONSTANTS
    Sizes,          \* the dimensions the outer terminal can give a pane
    HistoryLimit,   \* scrollback_lines
    MaxSteps,       \* bound: operations of a behaviour
    Programs        \* the programs in the pane: the operations each one uses

VARIABLES
    screen,
    program,        \* what the program uses
    step, last      \* the number and the name of the latest operation

vars == <<screen, program, step, last>>

Empty   == " "      \* a blank in the default background
Painted == "#"      \* a blank in the active background
Narrow  == "a"
Lead    == "W"
Rest    == "w"
Cells   == {Empty, Painted, Narrow, Lead, Rest}

Least(a, b)    == IF a < b THEN a ELSE b
Greatest(a, b) == IF a > b THEN a ELSE b
Clamp(n, lo, hi) == Greatest(lo, Least(n, hi))

Line(n, cell) == [i \in 1..n |-> cell]
Row(cells, used, continued) ==
    [cells |-> cells, used |-> used, continued |-> continued]
NoCursor == [row |-> 0, column |-> 0, pending |-> FALSE, painted |-> FALSE,
             origin |-> FALSE, wrap |-> TRUE]

\* Screen::new_with_scrollback_limit.  saved, otherSaved and mainSaved are the
\* cursor-save slots of both grids and the snapshot of mode 1049.
New(rows, columns) ==
    [rows |-> rows, columns |-> columns,
     grid  |-> [r \in 1..rows |-> Row(Line(columns, Empty), 0, FALSE)],
     other |-> [r \in 1..rows |-> Row(Line(columns, Empty), 0, FALSE)],
     history |-> << >>, alternate |-> FALSE,
     row |-> 1, column |-> 1, pending |-> FALSE,
     region |-> <<1, rows>>, otherRegion |-> <<1, rows>>,
     insert |-> FALSE, wrap |-> TRUE, origin |-> FALSE, painted |-> FALSE,
     saved |-> NoCursor, otherSaved |-> NoCursor, mainSaved |-> NoCursor]

-----------------------------------------------------------------------------
(* Cursor. *)

Blank(s) == IF s.painted THEN Painted ELSE Empty
BlankRow(s) == Row(Line(s.columns, Blank(s)),
                   IF s.painted THEN s.columns ELSE 0, FALSE)
Settled(s) == [s EXCEPT !.pending = FALSE]

MoveTo(s, row, column) ==
    [s EXCEPT !.row = IF s.origin THEN Clamp(row, s.region[1], s.region[2])
                      ELSE Least(row, s.rows),
              !.column = Least(column, s.columns), !.pending = FALSE]

\* position: relative to the margins in origin mode.
Position(s, row, column) ==
    MoveTo(s, (IF s.origin THEN s.region[1] ELSE 1) + row - 1, column)

MoveUp(s, n) ==
    LET top == IF s.row >= s.region[1] THEN s.region[1] ELSE 1
    IN  MoveTo(s, Greatest(s.row - n, top), s.column)
MoveDown(s, n) ==
    LET bottom == IF s.row <= s.region[2] THEN s.region[2] ELSE s.rows
    IN  MoveTo(s, Least(s.row + n, bottom), s.column)
MoveLeft(s, n) == MoveTo(s, s.row, Greatest(s.column - n, 1))

Saved(s) == [row |-> s.row, column |-> s.column, pending |-> s.pending,
             painted |-> s.painted, origin |-> s.origin, wrap |-> s.wrap]
SaveCursor(s) == [s EXCEPT !.saved = Saved(s)]

ApplySaved(s, c) ==
    LET t == MoveTo([s EXCEPT !.origin = c.origin, !.wrap = c.wrap],
                    c.row, c.column)
    IN  [t EXCEPT !.painted = c.painted,
                  !.pending = c.pending /\ t.row = c.row /\ t.column = c.column]

RestoreCursor(s) == IF s.saved = NoCursor THEN s ELSE ApplySaved(s, s.saved)

SetRegion(s, top, bottom) ==
    IF bottom > s.rows \/ top > bottom \/ (top = bottom /\ s.rows # 1) THEN s
    ELSE Position([s EXCEPT !.region = <<top, bottom>>], 1, 1)
SetOrigin(s, on) == Position([s EXCEPT !.origin = on], 1, 1)

-----------------------------------------------------------------------------
(* Erasing.  Touching half a wide glyph clears both halves. *)

\* clear_range within one row.
ClearedRow(s, line, from, to) ==
    LET lo == IF line.cells[from] = Rest THEN from - 1 ELSE from
        hi == IF line.cells[to] = Lead THEN to + 1 ELSE to
    IN  [line EXCEPT
           !.cells = [i \in 1..s.columns |->
                        IF i \in lo..hi THEN Blank(s) ELSE @[i]],
           !.used = IF s.painted THEN Greatest(@, hi)
                    ELSE IF hi >= @ THEN Least(@, lo - 1) ELSE @]

Clear(s, r, from, to) == [s EXCEPT !.grid[r] = ClearedRow(s, @, from, to)]

\* The line links into rows from..to and out of the last are severed.
Unlinked(s, from, to) ==
    [s EXCEPT !.grid = [r \in 1..s.rows |->
        IF r \in from..(to + 1) THEN [@[r] EXCEPT !.continued = FALSE]
        ELSE @[r]]]
\* The columns a count starting at the cursor can reach.
Reach(s, n) == Least(n, s.columns - s.column + 1)

EraseCharacters(s, n) ==
    Settled(Clear(Unlinked(s, s.row, s.row), s.row,
                  s.column, s.column + Reach(s, n) - 1))
EraseLine(s, mode) ==
    Settled(Clear(Unlinked(s, s.row, s.row), s.row,
                  IF mode = "end" THEN s.column ELSE 1,
                  IF mode = "start" THEN s.column ELSE s.columns))
EraseDisplay(s, mode) ==
    LET first == IF mode = "end" THEN s.row ELSE 1
        final == IF mode = "start" THEN s.row ELSE s.rows
        from(r) == IF mode = "end" /\ r = s.row THEN s.column ELSE 1
        to(r)   == IF mode = "start" /\ r = s.row THEN s.column ELSE s.columns
        t == Unlinked(s, first, final)
    IN  Settled([t EXCEPT !.grid = [r \in 1..s.rows |->
            IF r \in first..final THEN ClearedRow(s, @[r], from(r), to(r))
            ELSE @[r]]])

\* A wide glyph whose second half column c is, or whose first half it is.
WithoutRest(s, c) == IF s.grid[s.row].cells[c] = Rest THEN Clear(s, s.row, c, c) ELSE s
WithoutLead(s, c) == IF c >= s.column /\ s.grid[s.row].cells[c] = Lead
                     THEN Clear(s, s.row, c, c) ELSE s

\* From the cursor on, the row moves right by count cells.
MovedRight(s, count) ==
    LET c == s.column
        used == s.grid[s.row].used
        shifted == IF used >= c THEN Least(used + count, s.columns) ELSE used
    IN  [s EXCEPT !.grid[s.row] = [@ EXCEPT
            !.cells = [i \in 1..s.columns |->
                         IF i < c THEN @[i]
                         ELSE IF i < c + count THEN Blank(s) ELSE @[i - count]],
            !.used = IF s.painted THEN Greatest(shifted, c + count - 1)
                     ELSE shifted]]

\* insert_characters: the glyph at the cursor and the one that loses its
\* second half at the edge are cleared, the rest of the row moves right.
InsertCharacters(s, n) ==
    LET whole == WithoutRest(Unlinked(s, s.row, s.row), s.column)
    IN  Settled(MovedRight(WithoutLead(whole, s.columns - Reach(s, n)), Reach(s, n)))

DeleteCharacters(s, n) ==
    LET count == Reach(s, n)
        c == s.column
        used == s.grid[s.row].used
        t == Clear(Unlinked(s, s.row, s.row), s.row, c, c + count - 1)
    IN  Settled([t EXCEPT !.grid[s.row] = [@ EXCEPT
            !.cells = [i \in 1..s.columns |->
                         IF i < c THEN @[i]
                         ELSE IF i + count <= s.columns THEN @[i + count]
                         ELSE Blank(s)],
            !.used = IF s.painted THEN s.columns
                     ELSE IF used < c THEN used
                     ELSE IF used < c + count THEN Least(@, c - 1)
                     ELSE used - count]])

-----------------------------------------------------------------------------
(* Scrolling. *)

\* Scrollback::push: the oldest rows make room.
Pushed(history, lines) ==
    LET all == history \o lines
    IN  SubSeq(all, Greatest(1, Len(all) - HistoryLimit + 1), Len(all))

\* shift_rows: whole rows move, their links are kept where both ends moved.
ShiftRows(s, top, bottom, n, down) ==
    LET count == Least(n, bottom - top + 1)
        from(r) == IF down THEN r - count ELSE r + count
        moved(r) == IF from(r) \in top..bottom THEN s.grid[from(r)]
                    ELSE BlankRow(s)
        severed(r) == \/ r = bottom + 1
                      \/ down /\ r = top + count
                      \/ ~down /\ r = top /\ (top # 1 \/ bottom # s.rows)
        placed(r) == IF r \in top..bottom THEN moved(r) ELSE s.grid[r]
    IN  [s EXCEPT !.grid = [r \in 1..s.rows |->
            IF severed(r) THEN [placed(r) EXCEPT !.continued = FALSE]
            ELSE placed(r)]]

FullRegion(s) == s.region = <<1, s.rows>>
ScrollUp(s, n) ==
    LET t == IF s.alternate \/ ~FullRegion(s) THEN s
             ELSE [s EXCEPT !.history =
                     Pushed(@, SubSeq(s.grid, 1, Least(n, s.rows)))]
    IN  Settled(ShiftRows(t, s.region[1], s.region[2], n, FALSE))
ScrollDown(s, n) == Settled(ShiftRows(s, s.region[1], s.region[2], n, TRUE))

InRegion(s) == s.row \in s.region[1]..s.region[2]
InsertLines(s, n) ==
    IF ~InRegion(s) THEN s
    ELSE MoveTo(ShiftRows(s, s.row, s.region[2], n, TRUE), s.row, 1)
DeleteLines(s, n) ==
    IF ~InRegion(s) THEN s
    ELSE LET t == ShiftRows(s, s.row, s.region[2], n, FALSE)
         IN  MoveTo([t EXCEPT !.grid[s.row].continued = FALSE], s.row, 1)

\* advance_line: a line feed, or the wrap of a full row.
Advance(s, continued) ==
    LET t == Settled(s) IN
    IF s.row = s.region[2]
    THEN [ScrollUp(t, 1) EXCEPT !.grid[s.row].continued = continued]
    ELSE IF s.row < s.rows
    THEN [t EXCEPT !.row = @ + 1, !.grid[s.row + 1].continued = continued]
    ELSE t
ReverseIndex(s) ==
    IF s.row = s.region[1] THEN ScrollDown(Settled(s), 1)
    ELSE [Settled(s) EXCEPT !.row = Greatest(@ - 1, 1)]

-----------------------------------------------------------------------------
(* Printing. *)

Put(s, r, c, glyph) ==
    LET width == IF glyph = Lead THEN 2 ELSE 1 IN
    [s EXCEPT !.grid[r] = [@ EXCEPT
        !.cells = [i \in 1..s.columns |->
                     IF i = c THEN glyph
                     ELSE IF i = c + 1 /\ width = 2 THEN Rest ELSE @[i]],
        !.used = Greatest(@, c + width - 1)]]
\* The cursor after a glyph that ends in column c: it waits at the edge.
After(s, c) == [s EXCEPT !.column = Least(c + 1, s.columns),
                         !.pending = c = s.columns]

\* The glyph is written over cells from..to, which it need not fill.
Write(s, from, to, glyph, end) ==
    After(Put(Clear(s, s.row, from, to), s.row, from, glyph), end)

\* Where there is room for a glyph: here, or after a wrap.
Wrapped(s, width) ==
    LET overflow == s.column + width - 1 > s.columns
        tail == Clear(s, s.row, s.column, s.columns)
        cut == [tail EXCEPT !.grid[s.row].used = Least(@, s.column - 1)]
    IN  IF ~(s.wrap /\ (s.pending \/ overflow)) THEN s
        ELSE Advance([(IF s.pending THEN s ELSE cut) EXCEPT !.column = 1], TRUE)

\* In insert mode the row moves first, and keeps its link.
Opened(s, width) ==
    IF s.insert
    THEN [InsertCharacters(s, width) EXCEPT
            !.grid[s.row].continued = s.grid[s.row].continued]
    ELSE s

PrintAt(s, glyph, width) ==
    LET end == s.column + width - 1
    IN  IF end > s.columns THEN s
        ELSE Write(Opened(s, width), s.column, end, glyph, end)

\* print_cell.  A glyph that does not fit wraps, or is ignored without wrap.
PrintCell(s, glyph0) ==
    LET glyph == IF glyph0 = Lead /\ s.columns = 1 THEN Narrow ELSE glyph0
        width == IF glyph = Lead THEN 2 ELSE 1
    IN  PrintAt(Wrapped(s, width), glyph, width)

\* resize_selected_cell: a variation selector after a glyph changes its width.
Preceding(s) == IF s.pending THEN s.column ELSE s.column - 1
Reselect(s) ==
    LET p == Preceding(s)
        at == IF p > 0 /\ s.grid[s.row].cells[p] = Rest THEN p - 1 ELSE p
        old == IF at = 0 THEN Empty ELSE s.grid[s.row].cells[at]
        glyph == IF old = Lead THEN Narrow
                 ELSE IF s.columns = 1 THEN Narrow ELSE Lead
        was == IF old = Lead THEN 2 ELSE 1
        width == IF glyph = Lead THEN 2 ELSE 1
        overflow == at + width - 1 > s.columns
        wrapped == Advance([Clear(s, s.row, at, at + was - 1) EXCEPT !.column = 1],
                           TRUE)
        t == IF overflow
             THEN IF s.insert THEN InsertCharacters(wrapped, width) ELSE wrapped
             ELSE IF s.insert /\ width > was
             THEN InsertCharacters(s, width - was) ELSE s
        c == IF overflow THEN 1 ELSE at
        end == Least(c + Greatest(was, width) - 1, s.columns)
    IN  IF old \notin {Narrow, Lead} \/ (overflow /\ ~s.wrap) THEN s
        ELSE Write(t, c, end, glyph, c + width - 1)

-----------------------------------------------------------------------------
(* The two grids. *)

Swap(s) ==
    [s EXCEPT !.grid = s.other, !.other = s.grid,
              !.region = s.otherRegion, !.otherRegion = s.region,
              !.saved = s.otherSaved, !.otherSaved = s.saved,
              !.alternate = ~@, !.pending = FALSE]
Cleared(s) == [s EXCEPT !.grid = [r \in 1..s.rows |-> BlankRow(s)]]

\* Modes 47 and 1047.
EnterBuffer(s) ==
    IF s.alternate THEN s ELSE Swap([s EXCEPT !.mainSaved = NoCursor])
LeaveBuffer(s, clear) ==
    IF ~s.alternate THEN s
    ELSE LET t == [s EXCEPT !.mainSaved = NoCursor]
         IN  Swap(IF clear THEN Cleared(t) ELSE t)

\* Mode 1049.
EnterAlternate(s) ==
    IF s.alternate THEN s
    ELSE [Cleared(Swap([s EXCEPT !.mainSaved = Saved(s)])) EXCEPT
             !.saved = NoCursor]
LeaveAlternate(s) ==
    IF ~s.alternate THEN s
    ELSE LET t == [Swap(s) EXCEPT
                !.mainSaved = NoCursor, !.otherSaved = NoCursor,
                !.other = [r \in 1..s.rows |-> Row(Line(s.columns, Empty), 0, FALSE)],
                !.otherRegion = <<1, s.rows>>]
         IN  IF s.mainSaved = NoCursor THEN t ELSE ApplySaved(t, s.mainSaved)

Reset(s) == New(s.rows, s.columns)
SoftReset(s) ==
    [s EXCEPT !.insert = FALSE, !.region = <<1, s.rows>>, !.painted = FALSE,
              !.pending = FALSE, !.origin = FALSE, !.wrap = TRUE,
              !.saved = [NoCursor EXCEPT !.row = 1, !.column = 1]]

-----------------------------------------------------------------------------
(* Resizing.  A width change reflows the primary grid and its history and   *)
(* clips the alternate one; a height change moves rows to or from history.  *)

\* clipped_used and move_overlap: a wide glyph cut in half is left out.
Clip(s, line, columns, cell, grows) ==
    LET kept == Least(s.columns, columns)
        cells == [i \in 1..columns |->
                    IF i > kept \/ (i = columns /\ line.cells[i] = Lead)
                    THEN cell ELSE line.cells[i]]
        end == Least(line.used, columns)
        used == IF end = columns /\ line.cells[end] = Lead THEN end - 1 ELSE end
    IN  Row(cells, IF grows /\ cell = Painted THEN columns ELSE used,
            s.columns = columns /\ line.continued)

Resized(s, lines, rows, columns, cell) ==
    [r \in 1..rows |->
        IF r <= Len(lines)
        THEN Clip(s, lines[r], columns, cell, columns > s.columns)
        ELSE Row(Line(columns, cell), IF cell = Painted THEN columns ELSE 0,
                 FALSE)]

ResizeGrid(s, rows, columns, withHistory) ==
    LET hidden == s.mainSaved # NoCursor
        main == IF s.alternate THEN s.other ELSE s.grid
        mainRow == IF hidden THEN s.mainSaved.row ELSE s.row
        shift == IF withHistory THEN Greatest(mainRow - rows, 0) ELSE 0
        restore == IF withHistory
                   THEN Least(Greatest(rows - s.rows, 0), Len(s.history)) ELSE 0
        history == Pushed(s.history, SubSeq(main, 1, shift))
        kept == Len(history) - restore
        back == SubSeq(history, kept + 1, Len(history))
        moved == back \o SubSeq(main, shift + 1, Len(main))
        active == IF s.alternate THEN s.grid ELSE moved
        hiddenLines == IF s.alternate THEN moved ELSE s.other
        hiddenCell == IF hidden /\ s.mainSaved.painted THEN Painted ELSE Empty
        rowOf(r, ofMain) ==
            Least(IF ofMain THEN Greatest(r - shift, 1) + restore ELSE r, rows)
        moveCursor(c, ofMain) ==
            IF c = NoCursor THEN c
            ELSE [c EXCEPT !.row = rowOf(@, ofMain),
                           !.column = Least(@, columns), !.pending = FALSE]
    IN  [s EXCEPT
            !.rows = rows, !.columns = columns, !.pending = FALSE,
            !.grid = Resized(s, active, rows, columns, Blank(s)),
            !.other = Resized(s, hiddenLines, rows, columns, hiddenCell),
            !.history = SubSeq(history, 1, kept),
            !.row = rowOf(@, ~s.alternate), !.column = Least(@, columns),
            !.region = <<1, rows>>, !.otherRegion = <<1, rows>>,
            !.saved = moveCursor(@, ~s.alternate),
            !.otherSaved = moveCursor(@, s.alternate),
            !.mainSaved = moveCursor(@, TRUE)]

\* pack: the cells of one logical line in rows of the new width.  at[i] is
\* where cell i went, at[n + 1] where the line ends.
Packed(cells, width) ==
    LET place(p, i) ==
            LET size == Least(IF cells[i] = Lead THEN 2 ELSE 1, width)
                full == Len(p.row) + size > width
                row == IF full THEN << >> ELSE p.row
                out == IF full THEN Append(p.out, p.row) ELSE p.out
                glyph == IF cells[i] = Lead /\ width = 1 THEN Narrow ELSE cells[i]
            IN  [out |-> out, row |-> Append(row, glyph),
                 at |-> Append(p.at, <<Len(out) + 1, Len(row) + 1>>)]
        second(p) ==
            LET lead == Last(p.at) IN
            [p EXCEPT !.row = IF width = 1 THEN @ ELSE Append(@, Rest),
                      !.at = Append(@, <<lead[1],
                                         lead[2] + (IF width = 1 THEN 0 ELSE 1)>>)]
        done == FoldLeftDomain(
                    LAMBDA p, i : IF cells[i] = Rest THEN second(p) ELSE place(p, i),
                    [out |-> << >>, row |-> << >>, at |-> << >>], cells)
        rows == Append(done.out, done.row)
    IN  [rows |-> rows,
         at |-> Append(done.at, <<Len(rows), Least(Len(done.row) + 1, width)>>),
         full |-> Len(done.row) = width]

\* How many cells of its row a cursor has behind it.
Offset(c) == c.column - 1 + (IF c.pending /\ c.wrap THEN 1 ELSE 0)

\* What reflow_primary_into reads: the hidden grid if mode 1049 saved a cursor.
ReflowLines(s) == IF s.mainSaved # NoCursor THEN s.other ELSE s.grid

\* The cursor of the primary grid, wherever it is kept.
Current(s) == IF s.mainSaved # NoCursor THEN s.mainSaved
              ELSE [Saved(s) EXCEPT !.pending = s.pending /\ s.wrap]

\* The cursor saved beside it.
Beside(s) == IF s.mainSaved # NoCursor THEN s.otherSaved ELSE s.saved

\* The logical lines of history and grid, down to the last used row or cursor: the
\* cells of each, and for each cursor in it the cell the cursor is at.
LogicalLines(s, current, other) ==
    LET lines == ReflowLines(s)
        used == {r \in 1..s.rows : lines[r].used # 0}
        bottom == Greatest(IF used = {} THEN 1 ELSE CHOOSE r \in used :
                                                 \A q \in used : q <= r,
                           Greatest(current.row, other.row))
        all == s.history \o SubSeq(lines, 1, bottom)
        base == Len(s.history)
        extent(i) == Greatest(all[i].used,
            Greatest(IF i = base + current.row THEN Offset(current) ELSE 0,
                     IF i = base + other.row THEN Offset(other) ELSE 0))
        \* The rows of each logical line, first and last.
        starts == SetToSortSeq({i \in 1..Len(all) : i = 1 \/ ~all[i].continued},
                               LAMBDA a, b : a < b)
        final(k) == IF k = Len(starts) THEN Len(all) ELSE starts[k + 1] - 1
        before(k, i) == FoldLeft(LAMBDA n, j : n + extent(j), 0,
                                 [j \in 1..(i - starts[k]) |-> starts[k] + j - 1])
        inside(k) == {c \in {current, other} \ {NoCursor} :
                         base + c.row \in starts[k]..final(k)}
    IN  [k \in 1..Len(starts) |->
           [cells |-> FlattenSeq([j \in 1..(final(k) - starts[k] + 1) |->
                          SubSeq(all[starts[k] + j - 1].cells, 1,
                                 extent(starts[k] + j - 1))]),
            point |-> [c \in inside(k) |-> before(k, base + c.row) + Offset(c) + 1]]]

\* A logical line in rows of the new width, and where its cursors go.  A cursor
\* behind a full row that is not waiting there needs a new row.
Refilled(line, packed) ==
    LET full == Len(packed.rows)
        cursors == DOMAIN line.point
        end(c) == packed.full /\ line.point[c] = Len(packed.at)
        beyond(c) == end(c) /\ ~(c.pending /\ c.wrap)
    IN  [rows |-> [r \in 1..(full + (IF \E c \in cursors : beyond(c) THEN 1 ELSE 0)) |->
                     [cells |-> IF r <= full THEN packed.rows[r] ELSE << >>,
                      continued |-> r > 1]],
         place |-> [c \in cursors |->
                      IF beyond(c) THEN <<full + 1, 1, FALSE>>
                      ELSE <<packed.at[line.point[c]][1], packed.at[line.point[c]][2],
                             end(c)>>]]

\* The rows that do not fit go to the history; the cursor's row stays.
Placed(s, t, current, other, refilled) ==
    LET width == t.columns
        output == FlattenSeq([k \in DOMAIN refilled |-> refilled[k].rows])
        first(k) == FoldLeft(LAMBDA n, j : n + Len(refilled[j].rows), 0,
                             [j \in 1..(k - 1) |-> j])
        lineOf(c) == CHOOSE k \in DOMAIN refilled : c \in DOMAIN refilled[k].place
        rowOf(c) == first(lineOf(c)) + refilled[lineOf(c)].place[c][1]
        top == Least(Greatest(Len(output) - t.rows, 0), rowOf(current) - 1)
        cell == IF current.painted THEN Painted ELSE Empty
        wide(row) == Row([i \in 1..width |-> IF i <= Len(row.cells)
                                             THEN row.cells[i] ELSE cell],
                         Len(row.cells), row.continued)
        grid == [r \in 1..t.rows |->
                    IF top + r <= Len(output) THEN wide(output[top + r])
                    ELSE Row(Line(width, cell), 0, FALSE)]
        translate(c) ==
            IF c = NoCursor THEN c
            ELSE [c EXCEPT !.row = Clamp(rowOf(c) - top, 1, t.rows),
                           !.column = refilled[lineOf(c)].place[c][2],
                           !.pending = refilled[lineOf(c)].place[c][3]
                               /\ rowOf(c) - top \in 1..t.rows]
        now == translate(current)
        u == [t EXCEPT !.history =
                 Pushed(<< >>, [r \in 1..top |-> wide(output[r])])]
    IN  IF s.alternate
        THEN [u EXCEPT !.other = grid, !.mainSaved = now,
                       !.otherSaved = translate(other)]
        ELSE [u EXCEPT !.grid = grid, !.row = now.row, !.column = now.column,
                       !.pending = now.pending, !.saved = translate(other)]

\* reflow_primary_into: s is the screen before, t the one with clipped grids.
\* The destination is the hidden grid if the alternate one is shown.
Reflow(s, t) ==
    LET Refill(lines) == [k \in DOMAIN lines |->
                            Refilled(lines[k], Packed(lines[k].cells, t.columns))]
    IN  Placed(s, t, Current(s), Beside(s), Refill(LogicalLines(s, Current(s), Beside(s))))

ResizeScreen(s, rows, columns) ==
    IF columns # s.columns
    THEN Reflow(s, ResizeGrid(s, rows, columns, FALSE))
    ELSE IF rows = s.rows THEN s
    ELSE ResizeGrid(s, rows, columns, TRUE)

-----------------------------------------------------------------------------
(* Saved history. *)

Primary(s) == s.history \o (IF s.alternate THEN s.other ELSE s.grid)
Text(line) == SelectSeq(SubSeq(line.cells, 1, line.used), LAMBDA c : c # Rest)

\* saved_history without a limit and without colours: the text of every row
\* down to the last used one, and its link.
SavedHistory(s) ==
    LET all == Primary(s)
        used == {i \in 1..Len(all) : i <= Len(s.history) \/ all[i].used # 0}
        count == Cardinality({i \in 1..Len(all) : \E j \in used : i <= j})
        plain(text) == [j \in 1..Len(text) |->
                          IF text[j] = Painted THEN Empty ELSE text[j]]
    IN  [i \in 1..count |-> [text |-> plain(Text(all[i])),
                             continued |-> i > 1 /\ all[i].continued]]

\* Mutant: the link of the row itself decides.
EndsLineOwn(saved, i) == ~saved[i].continued

\* A line ends where the next row does not continue it.
EndsLine(saved, i) == i = Len(saved) \/ ~saved[i + 1].continued

\* restore_history: the rows are printed on a screen of one row.
RestoreHistory(saved, columns) ==
    LET printed(s, i) == FoldLeft(PrintCell, s, saved[i].text)
        newline(s, i) == IF EndsLine(saved, i)
                         THEN Advance([Settled(s) EXCEPT !.column = 1], FALSE)
                         ELSE s
    IN  FoldLeftDomain(LAMBDA s, i : newline(printed(s, i), i),
                       New(1, columns), saved).history

-----------------------------------------------------------------------------
(* The program in the pane, and the window around it. *)

Init ==
    /\ \E size \in Sizes : screen = New(size[1], size[2])
    /\ program \in Programs
    /\ step = 0
    /\ last = "none"

Apply(name, result) ==
    /\ name \in program
    /\ step < MaxSteps
    /\ screen' = result
    /\ step' = step + 1
    /\ last' = name
    /\ UNCHANGED program

Printing ==
    \/ Apply("print", PrintCell(screen, Narrow))
    \/ Apply("wide", PrintCell(screen, Lead))
    \/ Apply("select", Reselect(screen))
Moving ==
    \/ Apply("home", Position(screen, 1, 1))
    \/ Apply("up", MoveUp(screen, 1))
    \/ Apply("down", MoveDown(screen, 1))
    \/ Apply("left", MoveLeft(screen, 1))
    \/ Apply("return", [Settled(screen) EXCEPT !.column = 1])
    \/ Apply("feed", Advance(screen, FALSE))
    \/ Apply("reverse", ReverseIndex(screen))
    \/ Apply("save", SaveCursor(screen))
    \/ Apply("restore", RestoreCursor(screen))
Erasing ==
    \/ \E mode \in {"end", "start", "all"} :
          \/ Apply("erase_line", EraseLine(screen, mode))
          \/ Apply("erase_display", EraseDisplay(screen, mode))
    \/ Apply("erase_characters", EraseCharacters(screen, 1))
    \/ Apply("insert_characters", InsertCharacters(screen, 1))
    \/ Apply("delete_characters", DeleteCharacters(screen, 1))
Scrolling ==
    \/ Apply("scroll_up", ScrollUp(screen, 1))
    \/ Apply("scroll_down", ScrollDown(screen, 1))
    \/ Apply("insert_lines", InsertLines(screen, 1))
    \/ Apply("delete_lines", DeleteLines(screen, 1))
Modes ==
    \/ Apply("region", SetRegion(screen, 2, screen.rows))
    \/ Apply("origin", SetOrigin(screen, ~screen.origin))
    \/ Apply("insert", [screen EXCEPT !.insert = ~@])
    \/ Apply("autowrap", [screen EXCEPT !.wrap = ~@])
    \/ Apply("background", [screen EXCEPT !.painted = ~@])
    \/ Apply("enter_buffer", EnterBuffer(screen))
    \/ \E clear \in BOOLEAN : Apply("leave_buffer", LeaveBuffer(screen, clear))
    \/ Apply("enter_alternate", EnterAlternate(screen))
    \/ Apply("leave_alternate", LeaveAlternate(screen))
    \/ Apply("reset", Reset(screen))
    \/ Apply("soft_reset", SoftReset(screen))
ResizeWindow == \E size \in Sizes :
    Apply("resize", ResizeScreen(screen, size[1], size[2]))

Next == Printing \/ Moving \/ Erasing \/ Scrolling \/ Modes \/ ResizeWindow

Spec == Init /\ [][Next]_vars

-----------------------------------------------------------------------------
(* Properties. *)

\* Both grids have the size of the screen, every cursor is inside it.
TypeOK ==
    LET s == screen
        size(g) == /\ DOMAIN g = 1..s.rows
                   /\ \A r \in 1..s.rows : /\ DOMAIN g[r].cells = 1..s.columns
                                           /\ g[r].used \in 0..s.columns
        inside(c) == c.row \in 1..s.rows /\ c.column \in 1..s.columns
    IN  /\ size(s.grid) /\ size(s.other)
        /\ inside(s)
        /\ \A c \in {s.saved, s.otherSaved, s.mainSaved} \ {NoCursor} : inside(c)
        /\ Len(s.history) <= HistoryLimit

\* No wide glyph is ever cut: its halves stand side by side in both grids and
\* in the history, and the text of a row ends after its last glyph.
WideWhole ==
    \A line \in Range(Primary(screen)) \cup Range(screen.grid) :
        LET n == Len(line.cells) IN
        /\ \A i \in 1..n :
              /\ line.cells[i] = Lead => i < n /\ line.cells[i + 1] = Rest
              /\ line.cells[i] = Rest => i > 1 /\ line.cells[i - 1] = Lead
              /\ line.cells[i] \in {Narrow, Lead, Rest} => i <= line.used

\* docs/reference/origin-mode.md: with mode 6 the cursor cannot leave the
\* scrolling region.
OriginConfines == screen.origin => InRegion(screen)

\* The glyphs of the primary screen before its cursor, with line breaks.
Break == "/"
Before(s) ==
    LET all == Primary(s)
        c == IF s.alternate THEN s.mainSaved ELSE Current(s)
        at == Len(s.history) + c.row
        upto == c.column - 1 + (IF c.pending /\ c.wrap THEN 1 ELSE 0)
        cut(i) == IF i = at THEN [all[i] EXCEPT !.used = upto] ELSE all[i]
    IN  FlattenSeq([i \in 1..at |->
            (IF i > 1 /\ all[i].continued THEN << >> ELSE <<Break>>)
                \o SelectSeq(Text(cut(i)), LAMBDA g : g \in {Narrow, Lead})])

\* A new width moves text between rows and into the history but loses, joins
\* and splits nothing of what stands before the cursor: only the oldest rows
\* may fall out of a full history.
ReflowKeepsText ==
    last' = "resize" /\ screen'.columns # screen.columns /\ screen'.columns >= 2 =>
        IF Len(screen'.history) < HistoryLimit
        THEN Before(screen') = Before(screen)
        ELSE IsSuffix(SubSeq(Before(screen'), 2, Len(Before(screen'))), Before(screen))

\* What the saved history of a session prints at another width is the text
\* that was saved.
Joined(rows) ==
    FlattenSeq([i \in 1..Len(rows) |->
        (IF i > 1 /\ rows[i].continued THEN << >> ELSE <<Break>>) \o rows[i].text])
RestoreKeepsText ==
    \A size \in Sizes :
        LET saved == SavedHistory(screen)
            restored == RestoreHistory(saved, size[2])
            text == [i \in 1..Len(restored) |->
                       [text |-> Text(restored[i]),
                        continued |-> restored[i].continued]]
        IN  size[2] >= 2 /\ Len(restored) < HistoryLimit =>
                Joined(text) = Joined(saved)
=============================================================================
