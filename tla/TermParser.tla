------------------------------ MODULE TermParser ------------------------------
(***************************************************************************)
(* The byte machine of parser.rs: UTF-8, C0 controls, escape and control    *)
(* sequences, and strings.                                                  *)
(*                                                                         *)
(* A byte is one of its classes; each of the printable ones has a meaning   *)
(* of its own after an escape.  `out` is what the bytes so far have done to  *)
(* the screen, in order; what a command does there is TermModes and          *)
(* TermScreen.                                                              *)
(***************************************************************************)
EXTENDS Naturals, Sequences, SequencesExt

CONSTANTS
    Limit,          \* MAX_STRING_CONTROL_BYTES
    Places,         \* how many parameters a control sequence has
    MaxBytes        \* bound

Printable == {"[", "]", "P", "\\", "1", ";", "#", "h"}
\* Bytes that end a control sequence.
Finals == {"h", "[", "]", "P", "\\"}
Executed == {"lf", "bel"}
Bytes == Printable \cup Executed \cup {"esc", "can", "lead", "cont"}

VARIABLES
    parser,     \* Parser: its state with the fields of that state
    out,        \* what the screen was told
    seen        \* the bytes so far

vars == <<parser, out, seen>>

Ground == [state |-> "ground", osc |-> FALSE, utf8 |-> FALSE, index |-> 1, length |-> 0,
           invalid |-> FALSE, escape |-> FALSE, overflowed |-> FALSE]
In(state) == [Ground EXCEPT !.state = state]

Init == parser = Ground /\ out = << >> /\ seen = << >>

Result(p, events) == [parser |-> p, events |-> events]

Opened(b) == [In("string") EXCEPT !.osc = b = "]"]

\* An OSC ends with BEL, every string with ST.  Whatever else follows an escape,
\* or is too long, keeps it from being a command.
InString(p, b) ==
    LET bell == p.osc /\ b = "bel"
        ends == bell \/ (p.escape /\ b = "\\")
        whole == ~p.overflowed /\ (bell => ~p.escape)
        over == p.overflowed \/ p.escape
        keeps == b # "esc" /\ ~over
    IN  IF ends THEN Result(Ground, IF whole THEN <<"string">> ELSE << >>)
        ELSE Result([p EXCEPT !.escape = b = "esc",
                              !.overflowed = over \/ (keeps /\ p.length = Limit),
                              !.length = IF keeps /\ p.length < Limit THEN @ + 1 ELSE @],
                    << >>)

\* A parameter, a separator, or something no supported sequence has.
Collects(p, b) ==
    CASE b = "1" /\ ~p.invalid -> p
      [] b = ";" /\ ~p.invalid /\ p.index < Places -> [p EXCEPT !.index = @ + 1]
      [] OTHER -> [p EXCEPT !.invalid = TRUE]

\* After an escape, or in a control sequence.
InSequence(p, b) ==
    CASE p.state = "escape" /\ b = "[" -> Result(In("csi"), << >>)
      [] p.state = "escape" /\ b \in {"]", "P"} -> Result(Opened(b), << >>)
      [] p.state = "escape" /\ b = "h" -> Result(Ground, <<"escape">>)
      [] p.state \in {"escape", "intermediate"} /\ b = "#" ->
             Result(In("intermediate"), << >>)
      [] p.state = "csi" /\ b \in Finals ->
             Result(Ground, IF p.invalid THEN << >> ELSE <<"csi">>)
      [] p.state = "csi" -> Result(Collects(p, b), << >>)
      [] OTHER -> Result(Ground, << >>)

\* Parser::byte without a UTF-8 prefix.
Plain(p, b) ==
    CASE b = "can" -> Result(Ground, << >>)
      [] p.state = "string" /\ b # "can" -> InString(p, b)
      [] p.state # "string" /\ b \in Executed -> Result(p, <<b>>)
      [] p.state # "string" /\ b = "esc" -> Result(In("escape"), << >>)
      [] p.state = "ground" /\ b = "lead" -> Result([p EXCEPT !.utf8 = TRUE], << >>)
      [] p.state = "ground" /\ b = "cont" -> Result(p, <<"replacement">>)
      [] p.state = "ground" /\ b \in Printable -> Result(p, <<"glyph">>)
      [] p.state \in {"escape", "intermediate", "csi"} /\ b \in Printable -> InSequence(p, b)
      [] p.state = "csi" /\ b \in {"lead", "cont"} -> Result(Collects(p, b), << >>)
      [] OTHER -> Result(Ground, << >>)

\* text_byte: what follows a prefix that was cut off keeps its own meaning.
Byte(p, b) ==
    IF ~p.utf8 THEN Plain(p, b)
    ELSE IF b = "cont" THEN Result(Ground, <<"glyph">>)
    ELSE LET rest == Plain(Ground, b)
         IN  Result(rest.parser, <<"replacement">> \o rest.events)

Advance(b) ==
    /\ Len(seen) < MaxBytes
    /\ parser' = Byte(parser, b).parser
    /\ out' = out \o Byte(parser, b).events
    /\ seen' = Append(seen, b)

\* The stream ends: Parser::finish.
Finish ==
    /\ seen # << >>
    /\ out' = IF parser.utf8 THEN Append(out, "replacement") ELSE out
    /\ parser' = Ground
    /\ seen' = Append(seen, "end")

Next ==
    \/ Last(<<"start">> \o seen) # "end" /\ (Finish \/ \E b \in Bytes : Advance(b))
    \/ Last(<<"start">> \o seen) = "end" /\ UNCHANGED vars

Spec == Init /\ [][Next]_vars

-----------------------------------------------------------------------------
(* The grammar of a finished stream, as a division into tokens. *)

Only(s, set) == \A i \in DOMAIN s : s[i] \in set

\* The controls inside a sequence do not count.
Body(s, skip) == SelectSeq(SubSeq(s, skip + 1, Len(s)), LAMBDA b : b \notin Executed)
Controls(s) == SelectSeq(s, LAMBDA b : b \in Executed)

\* Everything of an escape or control sequence before its last byte.
OpenEscape(s) ==
    /\ s # << >> /\ s[1] = "esc"
    /\ Only(Body(s, 1), {"#"})
OpenCsi(s) == \E n \in 2..Len(s) :
    /\ s[1] = "esc" /\ s[n] = "[" /\ Only(SubSeq(s, 2, n - 1), Executed)
    /\ Only(Body(s, n), {"1", ";", "#", "lead", "cont"})
OpenString(s) == \E n \in 2..Len(s) :
    /\ s[1] = "esc" /\ s[n] \in {"]", "P"} /\ Only(SubSeq(s, 2, n - 1), Executed)
    /\ \A i \in (n + 1)..Len(s) :
          /\ s[i] # "can" /\ (s[n] = "]" => s[i] # "bel")
          /\ ~(s[i] = "\\" /\ s[i - 1] = "esc" /\ i > n + 1)

\* The parameters of a control sequence that are supported.
Wellformed(s) == LET p == Body(s, 2) IN
    /\ Only(p, {"1", ";"})
    /\ Len(SelectSeq(p, LAMBDA b : b = ";")) < Places
Opener(s) == CHOOSE i \in DOMAIN s :
    s[i] \in {"]", "P"} /\ Only(SubSeq(s, 2, i - 1), Executed)
Text(s) == SubSeq(s, Opener(s) + 1, Len(s))

\* A token t before the byte after, and what it does.
Meaning(t, after) ==
    LET open == SubSeq(t, 1, Len(t) - 1)
        last == t[Len(t)]
    IN
    CASE Len(t) = 1 /\ last \in Printable -> <<"glyph">>
      [] Len(t) = 1 /\ last \in Executed -> <<last>>
      [] Len(t) = 1 /\ last = "cont" -> <<"replacement">>
      [] Len(t) = 1 /\ last = "can" -> << >>
      [] t = <<"lead">> /\ after # "cont" -> <<"replacement">>
      [] t = <<"lead", "cont">> -> <<"glyph">>
      [] OpenString(open) /\ last = "bel" /\ open[Opener(open)] = "]" ->
             Controls(SubSeq(open, 1, Len(open) - Len(Text(open)))) \o
             (IF Len(Text(open)) <= Limit /\ Only(Text(open), Bytes \ {"esc"})
              THEN <<"string">> ELSE << >>)
      [] OpenString(open) /\ last = "\\" /\ open[Len(open)] = "esc" ->
             LET text == SubSeq(Text(open), 1, Len(Text(open)) - 1) IN
             Controls(SubSeq(open, 1, Len(open) - Len(text) - 1)) \o
             (IF Len(text) <= Limit /\ Only(text, Bytes \ {"esc"})
              THEN <<"string">> ELSE << >>)
      [] OpenString(open) /\ last = "can" ->
             Controls(SubSeq(open, 1, Len(open) - Len(Text(open))))
      [] OpenString(t) /\ after = "end" ->
             Controls(SubSeq(t, 1, Len(t) - Len(Text(t))))
      [] OpenCsi(open) /\ last \in Finals ->
             Controls(open) \o
             (IF Wellformed(SelectSeq(open, LAMBDA b : b \notin Executed))
              THEN <<"csi">> ELSE << >>)
      [] OpenEscape(open) /\ last \in (Printable \ {"#"}) \cup {"lead", "cont"}
                          /\ ~OpenCsi(t) /\ ~OpenString(t) ->
             Controls(open) \o
             (IF last = "h" /\ Only(Body(open, 1), {}) THEN <<"escape">> ELSE << >>)
      [] OpenCsi(t) /\ after \in {"esc", "end"} -> Controls(t)
      [] OpenEscape(t) /\ after \in {"esc", "end"} -> Controls(t)
      [] (OpenCsi(open) \/ OpenEscape(open)) /\ last = "can" -> Controls(open)
      [] OTHER -> <<"no token">>

IsToken(t, after) == Meaning(t, after) # <<"no token">>

\* meaning[i]: what the first i bytes do when a token ends there.
Reading(s) ==
    LET cut(i) == {j \in 0..(i - 1) : IsToken(SubSeq(s, j + 1, i), s[i + 1])}
        meaning[i \in 0..(Len(s) - 1)] ==
            IF i = 0 THEN << >>
            ELSE LET good == {j \in cut(i) : meaning[j] # <<"none">>}
                 IN  IF good = {} THEN <<"none">>
                     ELSE LET j == CHOOSE j \in good : TRUE
                          IN  meaning[j] \o Meaning(SubSeq(s, j + 1, i), s[i + 1])
    IN  meaning[Len(s) - 1]

\* Every stream has a division into tokens, and the parser does what the tokens
\* say: nothing of a sequence, a string or a bad character is shown as text or
\* taken for another command, and no text or control behind it is swallowed.
ReadsTokens ==
    Last(<<"start">> \o seen) = "end" => out = Reading(seen)
=============================================================================
