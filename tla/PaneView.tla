------------------------------ MODULE PaneView ------------------------------
(***************************************************************************)
(* The view that is drawn: the screens of the visible panes composed with  *)
(* their borders and titles, a floating pane over its backdrop             *)
(* (pane_view.rs), and what the event loop puts over and around them: bar, *)
(* footer, prompt, history status, help and errors (terminal.rs).          *)
(*                                                                         *)
(* Coordinates of the content start at 0, as in the source.  A cell is its *)
(* glyph and width, and of whom it is.                                     *)
(***************************************************************************)
EXTENDS Integers, Sequences, FiniteSets, SequencesExt

CONSTANTS
    Contents,   \* contents to compose: a layout with fills and titles of its panes,
                \* and the same of the backdrop of a floating one
    Chromes     \* what is around them: outer rows, layout, mode and editors

VARIABLES
    request,    \* what is to be drawn
    view        \* what is drawn, or None

vars == <<request, view>>
None == [none |-> TRUE]

Cell(glyph, width, of) == [glyph |-> glyph, width |-> width, of |-> of]
Border == Cell("border", 1, "frame")
Blank(of) == Cell("blank", 1, of)
-----------------------------------------------------------------------------
(* The screen of a pane, by what it is full of: wide glyphs start in even  *)
(* columns of even rows and odd columns of odd rows.                       *)
Fill(kind, id, row, column, columns) ==
    LET start == row % 2
        leads == (column - start) % 2 = 0
    IN  CASE kind = "narrow" -> Cell("text", 1, id)
          [] kind = "image" -> Cell("placeholder", 1, id)
          [] kind = "wide" ->
               IF column < start \/ (leads /\ column = columns - 1) THEN Cell("text", 1, id)
               ELSE IF leads THEN Cell("wide", 2, id) ELSE Cell("trailer", 0, id)

\* content_geometry_from: the canvas has a border where it is large enough.
ContentOf(rect, size) ==
    LET inset(at, extent, canvas) ==
          IF canvas < 3 THEN <<at, extent>>
          ELSE LET first == IF at = 0 THEN 1 ELSE at
                   end == IF at + extent = canvas THEN canvas - 1 ELSE at + extent
               IN  <<first, end - first>>
        r == inset(rect.row, rect.rows, size[1])
        c == inset(rect.column, rect.columns, size[2])
    IN  [row |-> r[1], column |-> c[1], rows |-> r[2], columns |-> c[2]]

\* frame_bounds, as the rectangle that hitboxes makes of it
Bounds(rect, size) ==
    LET side(at, extent, canvas) ==
          <<IF at = 0 THEN 0 ELSE at - 1,
            IF at + extent = canvas THEN canvas - 1 ELSE at + extent>>
        r == side(rect.row, rect.rows, size[1])
        c == side(rect.column, rect.columns, size[2])
    IN  [row |-> r[1], column |-> c[1], rows |-> r[2] - r[1] + 1, columns |-> c[2] - c[1] + 1]

\* tiled_geometry of a floating pane: it leaves a border of its own on every side that
\* is not the canvas's.
FloatingRect(size) ==
    LET clamp(n, low, high) == IF n > high THEN high ELSE IF n < low /\ low < high THEN low
                               ELSE IF n < low THEN high ELSE n
        width == clamp((size[2] * 3) \div 4, 12, size[2])
        height == clamp((size[1] * 7) \div 10, 5, size[1])
        h == IF width < size[2] THEN 1 ELSE 0
        v == IF height < size[1] THEN 1 ELSE 0
    IN  [row |-> (size[1] - height) \div 2 + v, column |-> (size[2] - width) \div 2 + h,
         rows |-> height - 2 * v, columns |-> width - 2 * h]

Holds(rect, row, column) ==
    /\ rect.row <= row /\ row < rect.row + rect.rows
    /\ rect.column <= column /\ column < rect.column + rect.columns

\* geometry: all panes, or the zoomed one alone.
Visible(layout) ==
    LET whole == [row |-> 0, column |-> 0, rows |-> layout.size[1], columns |-> layout.size[2]]
    IN  IF layout.floating THEN [p \in {layout.active} |-> FloatingRect(layout.size)]
        ELSE IF layout.zoomed THEN [p \in {layout.active} |-> whole] ELSE layout.rects
-----------------------------------------------------------------------------
\* draw_frame: where the border of a pane is.
OnFrame(rect, size, row, column) ==
    LET b == Bounds(rect, size)
    IN  /\ Holds(b, row, column)
        /\ \/ size[1] >= 3 /\ row \in {b.row, b.row + b.rows - 1}
           \/ size[2] >= 3 /\ column \in {b.column, b.column + b.columns - 1}

\* clipped: the part of a title that fits, a wide glyph never in part.
Clipped(title, width) ==
    LET Next1(a, w) == IF a.full \/ a.used + w > width THEN [a EXCEPT !.full = TRUE]
                       ELSE [a EXCEPT !.used = @ + w, !.text = Append(@, w)]
    IN  FoldLeft(Next1, [used |-> 0, full |-> FALSE, text |-> <<>>], title).text

\* draw_title: the cells of the label, a sequence of widths, in the top border.
TitleCells(rect, size, title) ==
    LET b == Bounds(rect, size)
        right == b.column + b.columns - 1
        Put(a, w) ==
          IF a.at + w > right THEN a
          ELSE [at |-> a.at + w,
                cells |-> [c \in DOMAIN a.cells \cup a.at .. a.at + w - 1 |->
                             IF c \in DOMAIN a.cells THEN a.cells[c]
                             ELSE IF c = a.at THEN Cell("title", w, "frame")
                             ELSE Cell("trailer", 0, "frame")]]
    IN  IF size[1] < 3 \/ right <= b.column + 1 THEN <<>>
        ELSE FoldLeft(Put, [at |-> b.column + 1, cells |-> [c \in {} |-> 0]],
                      Clipped(title, b.columns - 2)).cells

\* A pane's cell in the frame; its image placeholders name images of its own terminal
\* and are never forwarded.
Shown(cell) == IF cell.glyph = "placeholder" THEN Blank(cell.of) ELSE cell

\* A cell of the frame, of the panes' rectangles, their contents' and their titles' cells:
\* all titles are over all borders, and these over the screens of all visible panes.
CellAt(content, rects, inner, titles, row, column) ==
    LET size == content.layout.size
        titled == {p \in DOMAIN rects : row = Bounds(rects[p], size).row
                                        /\ column \in DOMAIN titles[p]}
        inside == {p \in DOMAIN rects : Holds(inner[p], row, column)}
        Of(p, r) == Fill(content.fills[p], p, row - r.row, column - r.column, r.columns)
        Under(p, r) == IF row < r.rows /\ column < r.columns
                       THEN Fill(content.fills[p], p, row, column, r.columns) ELSE Blank(p)
    IN  CASE titled # {} -> titles[CHOOSE p \in titled : TRUE][column]
          [] titled = {} /\ \E p \in DOMAIN rects : OnFrame(rects[p], size, row, column) -> Border
          [] OTHER -> IF inside # {}
                      THEN LET p == CHOOSE q \in inside : TRUE IN Shown(Of(p, inner[p]))
                      ELSE Under(content.layout.active, inner[content.layout.active])

\* compose_themed: the active screen, resized, is the frame; the screens of all visible
\* panes, then all borders, then all titles are drawn into it.
Frame(content, rects, inner, titles) ==
    [row \in 0 .. content.layout.size[1] - 1 |->
        [column \in 0 .. content.layout.size[2] - 1 |->
            CellAt(content, rects, inner, titles, row, column)]]

Compose(content) ==
    LET rects == Visible(content.layout)
        size == content.layout.size
    IN  Frame(content, rects, [p \in DOMAIN rects |-> ContentOf(rects[p], size)],
              [p \in DOMAIN rects |-> TitleCells(rects[p], size, content.titles[p])])

\* floating_over: a glyph of the backdrop that reaches under the floating pane is erased.
FloatingOver(base, overlay, layout) ==
    LET b == Bounds(FloatingRect(layout.size), layout.size)
        beside(row) == b.row <= row /\ row < b.row + b.rows
        cut(row, column) ==
          LET cell == base[row][column]
          IN  beside(row) /\ \/ column < b.column /\ column + cell.width > b.column
                             \/ column = b.column + b.columns /\ cell.width = 0
    IN  [row \in DOMAIN base |-> [column \in DOMAIN base[row] |->
           IF Holds(b, row, column) THEN overlay[row][column]
           ELSE IF cut(row, column) THEN Blank(base[row][column].of)
           ELSE base[row][column]]]

OverBackdrop(frame, content) ==
    IF content.layout.floating
    THEN FloatingOver(Compose(content.base), frame, content.layout) ELSE frame
Content(content) == OverBackdrop(Compose(content), content)
-----------------------------------------------------------------------------
(* Around the content.  A place is the bar, the footer, the prompt's row,  *)
(* or a pane; "bar" and "prompt" are row 0, "footer" the last row.         *)

HasBar(chrome) == chrome.rows > 1
HasFooter(chrome) == ~chrome.compact /\ chrome.rows >= 3

\* The error of a reload or a save, if there is a row for it and nothing over it.
ErrorIsDrawn(chrome) ==
    /\ chrome.error /\ chrome.editor = "none"
    /\ HasFooter(chrome) \/ (chrome.compact /\ HasBar(chrome))

\* The text of the error: printed with the character set of the view, which bar and
\* footer were printed without and the cursor's restoring has brought back.
ErrorText(chrome) == IF chrome.graphics THEN "line drawing" ELSE "text"

\* Where the cursor is: a new name is edited in the bar, a query in the footer or the
\* bar, other prompts in a row over it; an error saves and restores it.
Cursor(chrome) ==
    CASE chrome.editor = "rename" /\ ~chrome.compact -> IF HasBar(chrome) THEN "bar" ELSE "pane"
      [] chrome.editor = "close" \/ (chrome.editor = "rename" /\ chrome.compact) -> "prompt"
      [] chrome.editor = "query" /\ HasFooter(chrome) -> "footer"
      [] chrome.editor = "query" /\ ~HasFooter(chrome) /\ HasBar(chrome) -> "bar"
      [] OTHER -> "pane"

\* An ended pane, the help and history hide the cursor; prompts and queries show it.
CursorVisible(chrome) ==
    CASE chrome.editor \in {"rename", "close"} -> TRUE
      [] chrome.editor = "help" -> FALSE
      [] chrome.editor = "query" -> HasBar(chrome)
      [] chrome.editor = "history" -> FALSE
      [] chrome.editor = "none" -> chrome.visible /\ ~chrome.ended

Draw ==
    /\ view = None
    /\ view' = [cells |-> Content(request.content),
                error |-> IF ErrorIsDrawn(request.chrome) THEN ErrorText(request.chrome)
                          ELSE "none",
                cursor |-> IF CursorVisible(request.chrome) THEN Cursor(request.chrome)
                           ELSE "hidden"]
    /\ UNCHANGED request

Init == request \in [content : Contents, chrome : Chromes] /\ view = None
Next == Draw
Spec == Init /\ [][Next]_vars
-----------------------------------------------------------------------------
\* The view is made of whole glyphs: wherever panes, titles and a floating pane meet,
\* every wide glyph is followed by its other half and no half is alone.
GlyphsAreWhole ==
    view # None =>
        \A row \in DOMAIN view.cells : \A column \in DOMAIN view.cells[row] :
            LET cell(c) == view.cells[row][c]
            IN  /\ cell(column).width = 2 =>
                     /\ column + 1 \in DOMAIN view.cells[row]
                     /\ cell(column + 1).width = 0 /\ cell(column + 1).of = cell(column).of
                /\ cell(column).width = 0 => column - 1 \in DOMAIN view.cells[row]
                                             /\ cell(column - 1).width = 2

\* Every cell of a visible pane is where its program believes it to be, neither covered
\* by a border or a title nor cut, and no image placeholder of its own gets out.
PanesAreShown ==
    view # None =>
        LET c == request.content
            rects == Visible(c.layout)
        IN  \A p \in DOMAIN rects :
              LET r == ContentOf(rects[p], c.layout.size)
              IN  \A row \in 0 .. r.rows - 1, column \in 0 .. r.columns - 1 :
                    view.cells[r.row + row][r.column + column]
                        = Shown(Fill(c.fills[p], p, row, column, r.columns))

\* The cursor that is seen is where the next key goes: to the name, the query or the
\* prompt that is edited, and never to a program that has ended.  In a terminal of one
\* row a name that is edited is not drawn at all.
CursorIsWhereKeysGo ==
    view # None =>
        LET c == request.chrome
        IN  CASE view.cursor = "pane" ->
                   (c.editor = "none" /\ ~c.ended) \/ (c.editor = "rename" /\ c.rows = 1)
              [] view.cursor = "hidden" -> c.editor \notin {"rename", "close"}
              [] view.cursor \in {"bar", "footer"} -> c.editor \in {"rename", "query"}
              [] view.cursor = "prompt" -> c.editor \in {"rename", "close"}
=============================================================================
