----------------------------- MODULE FrameOutput -----------------------------
(***************************************************************************)
(* Renderer (render.rs): a frame is sent to the outer terminal as the      *)
(* changes from the last one.  The outer terminal is part of the state: it *)
(* knows cursor, style, link and delayed wrap, and a glyph written over    *)
(* half of a wide one leaves a blank where the other half was.             *)
(*                                                                         *)
(* Which of two ways to write a row is shorter in bytes is left open: the  *)
(* row as a whole or its changed ranges, each gap between two of them      *)
(* skipped or written again.  Every choice must show the same.             *)
(***************************************************************************)
EXTENDS Naturals, Sequences, FiniteSets, SequencesExt

CONSTANTS
    Narrow, Wide,   \* cells of width 1, and leaders of width 2, without their width
    Sizes,          \* <<rows, columns>> of the outer terminal
    Looks,          \* visibility of the cursor, and pairs of cached modes
    LinkLimit       \* MAX_HYPERLINK_FRAME_BYTES, in links opened

VARIABLES
    screen,     \* the view to show: rows, cursor, visible, modes
    host,       \* the outer terminal
    cache       \* the Renderer

vars == <<screen, host, cache>>

Plain == "plain"        \* Style::default
NoLink == "no link"
Cell(c, width) == [glyph |-> c.glyph, style |-> c.style, link |-> c.link, width |-> width]
Trailer(c) == [glyph |-> "trailer", style |-> c.style, link |-> c.link, width |-> 0]
Unknown == [glyph |-> "unknown", style |-> Plain, link |-> NoLink, width |-> 1]
Rest(style) == [glyph |-> "rest", style |-> style, link |-> NoLink, width |-> 1]

\* The rows a Screen can hold: a trailer follows every wide leader, and only it.
RowsOf(columns) ==
    LET Cells == {Cell(c, 1) : c \in Narrow} \cup {Cell(c, 2) : c \in Wide}
                 \cup {Trailer(c) : c \in Wide}
    IN  {r \in [1 .. columns -> Cells] :
           /\ \A i \in 1 .. columns : r[i].width = 2 => i < columns /\ r[i + 1] = Trailer(r[i])
           /\ \A i \in 1 .. columns : r[i].width = 0 => i > 1 /\ r[i - 1].width = 2}
Screens ==
    {[rows |-> rows, cursor |-> <<1, Len(rows[1])>>, visible |-> look.visible,
      modes |-> look.modes] :
        rows \in UNION {[1 .. size[1] -> RowsOf(size[2])] : size \in Sizes}, look \in Looks}
Dimensions(rows) == <<Len(rows), Len(rows[1])>>

\* A terminal whose contents, modes and links are not known.
Damaged(size) ==
    [rows |-> [r \in 1 .. size[1] |-> [c \in 1 .. size[2] |-> Unknown]],
     at |-> <<1, 1>>, style |-> "unknown", link |-> "unknown", visible |-> TRUE,
     modes |-> <<"unknown", "unknown">>]
NoCache == [known |-> FALSE, modes |-> <<>>, rows |-> <<>>, links |-> FALSE]

Init ==
    /\ screen \in Screens
    /\ host = Damaged(Dimensions(screen.rows)) /\ cache = NoCache
-----------------------------------------------------------------------------
(* The outer terminal, which reads what the renderer writes.               *)

Prints(h, command) ==
    LET columns == Len(h.rows[1])
        wraps == h.at[2] + command.width - 1 > columns
        r == IF wraps /\ h.at[1] < Len(h.rows) THEN h.at[1] + 1 ELSE h.at[1]
        c == IF wraps THEN 1 ELSE h.at[2]
        last == c + command.width - 1
        new == [glyph |-> command.glyph, style |-> h.style, link |-> h.link,
                width |-> command.width]
        row == [i \in 1 .. columns |->
                  CASE i = c -> new
                    [] i = last /\ i # c -> Trailer(new)
                    [] i = c - 1 /\ h.rows[r][i].width = 2 -> Rest(h.rows[r][i].style)
                    [] i = last + 1 /\ h.rows[r][i].width = 0 -> Rest(h.rows[r][i].style)
                    [] OTHER -> h.rows[r][i]]
    IN  [h EXCEPT !.rows[r] = row, !.at = <<r, last + 1>>]

Reads(h, command) ==
    CASE command.do = "move" -> [h EXCEPT !.at = command.to]
      [] command.do = "style" -> [h EXCEPT !.style = command.style]
      [] command.do = "link" -> [h EXCEPT !.link = command.link]
      [] command.do = "show" -> [h EXCEPT !.visible = command.visible]
      [] command.do = "mode" -> [h EXCEPT !.modes[command.mode] = command.value]
      [] command.do = "print" -> Prints(h, command)

MoveTo(row, column) == [do |-> "move", to |-> <<row, column>>]
StyleOf(style) == [do |-> "style", style |-> style]
Opens(link) == [do |-> "link", link |-> link]
Shows(visible) == [do |-> "show", visible |-> visible]
-----------------------------------------------------------------------------
\* changed_ranges: the changed cells with both halves of every wide glyph, old or new,
\* that they touch.
ChangedRanges(old, cells) ==
    LET changed == {i \in DOMAIN cells : old[i] # cells[i]}
        half(i) == old[i].width = 0 \/ cells[i].width = 0
        grown == {i \in DOMAIN cells :
                    \/ i \in changed
                    \/ \E j \in changed : j < i /\ \A k \in j + 1 .. i : half(k)
                    \/ \E j \in changed : i < j /\ \A k \in i + 1 .. j : half(k)}
        starts == {i \in grown : i - 1 \notin grown}
        end(i) == CHOOSE j \in grown : j >= i /\ j + 1 \notin grown /\ i .. j \subseteq grown
    IN  SetToSortSeq({<<i, end(i)>> : i \in starts}, LAMBDA a, b : a[1] < b[1])

\* write_cells: w is what is written so far and the style it ends with.
WriteCells(w, cells, links) ==
    LET Next1(a, cell) ==
          LET link == IF links THEN cell.link ELSE NoLink
              linked == IF link = a.link THEN a.out
                        ELSE a.out \o (IF a.link = NoLink THEN <<>> ELSE <<Opens(NoLink)>>)
                                   \o (IF link = NoLink THEN <<>> ELSE <<Opens(link)>>)
              styled == IF cell.style = a.style THEN linked
                        ELSE Append(linked, StyleOf(cell.style))
          IN  IF cell.width = 0 THEN a
              ELSE [link |-> link, style |-> cell.style,
                    out |-> Append(styled, [do |-> "print", glyph |-> cell.glyph,
                                            width |-> cell.width])]
        end == FoldLeft(Next1, [out |-> w.out, style |-> w.style, link |-> NoLink], cells)
    IN  [out |-> IF end.link = NoLink THEN end.out ELSE Append(end.out, Opens(NoLink)),
         style |-> end.style]

\* write_run
WriteRun(w, row, column, cells, links) ==
    WriteCells([w EXCEPT !.out = Append(@, MoveTo(row, column))], cells, links)

\* The ranges of a row, those after a gap in bridged written on from the one before.
WriteRanges(w, row, cells, ranges, bridged, links) ==
    FoldLeft(LAMBDA a, n :
        IF n \in bridged
        THEN WriteCells(WriteCells(a, SubSeq(cells, ranges[n - 1][2] + 1, ranges[n][1] - 1), links),
                        SubSeq(cells, ranges[n][1], ranges[n][2]), links)
        ELSE WriteRun(a, row, ranges[n][1], SubSeq(cells, ranges[n][1], ranges[n][2]), links),
        w, [n \in DOMAIN ranges |-> n])

\* A changed row by its plan; a row of an unknown terminal is written whole.
WriteRow(w, row, old, cells, links, plan) ==
    IF ~plan.partly THEN WriteRun(w, row, 1, cells, links)
    ELSE WriteRanges(w, row, cells, ChangedRanges(old, cells), plan.bridged, links)

\* The plans for a row: bridge_cost, restart_cost and row_cost choose among them.
Plans(known, old, cells) ==
    {[partly |-> FALSE, bridged |-> {}]} \cup
    (IF ~known THEN {}
     ELSE {[partly |-> TRUE, bridged |-> b] :
             b \in SUBSET (2 .. Len(ChangedRanges(old, cells)))})

\* hyperlinks_fit: the links a whole frame opens are counted.
HyperlinksFit(rows) ==
    LET opened(cells) ==
          LET shown == SelectSeq(cells, LAMBDA cell : cell.width # 0)
          IN  Cardinality({i \in DOMAIN shown : shown[i].link # NoLink
                             /\ (i = 1 \/ shown[i - 1].link # shown[i].link)})
    IN  FoldLeft(LAMBDA n, cells : n + opened(cells), 0, rows) <= LinkLimit

\* Whether a cached frame can be compared with the new one.
Comparable(c, rows) ==
    /\ c.known /\ Dimensions(c.rows) = Dimensions(rows)
    /\ c.links = HyperlinksFit(rows)

\* What comes before the cells: what is known of modes is not sent again.
Preamble(s) ==
    (IF cache.known THEN <<>> ELSE <<Opens(NoLink)>>)
    \o <<Shows(FALSE), StyleOf(Plain)>>
    \o FlattenSeq([m \in DOMAIN s.modes |->
          IF cache.known /\ cache.modes[m] = s.modes[m] THEN <<>>
          ELSE <<[do |-> "mode", mode |-> m, value |-> s.modes[m]]>>])

\* Where the cursor, its style and its visibility end.
Ending(s) == <<StyleOf(Plain), MoveTo(s.cursor[1], s.cursor[2]), Shows(s.visible)>>

\* render_frame
Frame(s, plan) ==
    LET links == HyperlinksFit(s.rows)
        known == Comparable(cache, s.rows)
        Row(w, r) ==
            IF known /\ cache.rows[r] = s.rows[r] THEN w
            ELSE WriteRow(w, r, IF known THEN cache.rows[r] ELSE <<>>, s.rows[r], links, plan[r])
        w0 == [out |-> Preamble(s), style |-> Plain]
    IN  FoldLeft(Row, w0, [r \in DOMAIN s.rows |-> r]).out \o Ending(s)
-----------------------------------------------------------------------------
\* render: the cache is what was shown.
Remember(s) ==
    cache' = [known |-> TRUE, modes |-> s.modes, rows |-> s.rows,
              links |-> HyperlinksFit(s.rows)]

\* A frame written and delivered; panes and chrome have made a new view for it.
RenderAs(s, plan) ==
    /\ Dimensions(s.rows) = Dimensions(host.rows)
    /\ screen' = s
    /\ host' = FoldLeft(Reads, host, Frame(s, plan))
    /\ Remember(s)

Render(s) ==
    \E plan \in {f \in [DOMAIN s.rows -> [partly : BOOLEAN, bridged : SUBSET (2 .. Len(s.rows[1]))]] :
                   \A r \in DOMAIN s.rows :
                     f[r] \in Plans(Comparable(cache, s.rows),
                                    IF Comparable(cache, s.rows) THEN cache.rows[r] ELSE <<>>,
                                    s.rows[r])} :
        RenderAs(s, plan)

\* invalidate
Invalidate == cache' = NoCache

\* A frame that was cut short, discarded or drawn over by something else, or a resized
\* terminal: the terminal shows anything, and the renderer is told.
Damage(size) ==
    /\ host' = Damaged(size) /\ Invalidate /\ UNCHANGED screen

\* A frame that exceeds the output limit: synchronized_frame takes it back.
FailedFrame == Invalidate /\ UNCHANGED <<screen, host>>

Next ==
    \/ \E s \in Screens : Render(s)
    \/ \E size \in Sizes : Damage(size)
    \/ FailedFrame
Spec == Init /\ [][Next]_vars
-----------------------------------------------------------------------------
\* A delivered frame is what is on the outer terminal, cell by cell: no half of an old
\* wide glyph is left, no style or link leaks into another cell or frame, and modes and
\* cursor are those of the view, however short the way to write it was; a frame with
\* too many links shows none.
Shown ==
    LET plain(cells) == [i \in DOMAIN cells |-> [cells[i] EXCEPT !.link = NoLink]]
        drawn == IF cache.links THEN screen.rows
                 ELSE [r \in DOMAIN screen.rows |-> plain(screen.rows[r])]
    IN  /\ host.rows = drawn /\ host.at = screen.cursor
        /\ host.visible = screen.visible /\ host.modes = screen.modes
        /\ host.style = Plain /\ host.link = NoLink
FrameIsShown == cache.known => Shown
=============================================================================
