---------------------------- MODULE ImageFraming ----------------------------
(***************************************************************************)
(* How graphics commands are taken out of the bytes of a program             *)
(* (graphics/passthrough.rs, graphics/mod.rs): one machine unwraps what comes *)
(* in the DCS of tmux, a second one, that reads what the first one lets       *)
(* through, separates APC G commands from the text.                          *)
(*                                                                         *)
(* A byte is one of its classes; "tmux" stands for the bytes tmux; of the     *)
(* prefix.  A stream is a sequence of tokens, which is cut off nowhere.      *)
(***************************************************************************)
EXTENDS Naturals, Sequences, SequencesExt

CONSTANTS
    Limit,          \* MAX_GRAPHICS_COMMAND_BYTES
    MaxTokens       \* bound

VARIABLES
    input,      \* bytes that are still to be read
    meant,      \* what the tokens of the stream say
    outer,      \* TmuxPassthrough: state, utf8_continuations
    inner,      \* GraphicsFramer: state, utf8_continuations
    events      \* what GraphicsFramer has returned: text bytes and commands

vars == <<input, meant, outer, inner, events>>

Cancels == {"can"}
\* Openers of strings after an escape, and as one byte.
Opens == {"]", "_", "P"}
C1Opens == {"c1apc"}

Ground == [state |-> "ground", utf8 |-> FALSE, bytes |-> << >>, escape |-> FALSE, c1 |-> FALSE,
           osc |-> FALSE]
In(state) == [Ground EXCEPT !.state = state]
Step(next, out) == [next |-> next, out |-> out]

-----------------------------------------------------------------------------
(* TmuxPassthrough::advance *)

Prefix == <<"esc", "P", "tmux">>

\* string_state
StringState(b, escape, osc) ==
    IF b \in Cancels \cup {"c1st"} \/ (escape /\ b = "\\") \/ (osc /\ b = "bel") THEN Ground
    ELSE [In("string") EXCEPT !.escape = b = "esc", !.osc = osc]

\* In the DCS of tmux an escape is doubled; a single one ends it, or spoils it.
Unwrap(p, b) ==
    CASE b \in Cancels -> Step(Ground, << >>)
      [] p.escape /\ b = "\\" -> Step(Ground, p.bytes)
      [] p.escape /\ b \notin Cancels \cup {"\\", "esc"} -> Step(In("discard"), << >>)
      [] ~p.escape /\ b = "esc" -> Step([p EXCEPT !.escape = TRUE], << >>)
      [] b \notin Cancels /\ (p.escape <=> b = "esc") ->
             IF Len(p.bytes) = Limit THEN Step(In("discard"), << >>)
             ELSE Step([p EXCEPT !.bytes = Append(@, b), !.escape = FALSE], << >>)

Outer(p, b) ==
    CASE p.state = "ground" /\ p.utf8 /\ b = "cont" -> Step(Ground, <<b>>)
      [] p.state = "ground" /\ b = "lead" -> Step([Ground EXCEPT !.utf8 = TRUE], <<b>>)
      [] p.state = "ground" /\ b = "esc" -> Step(In("escape"), << >>)
      [] p.state = "ground" /\ b \in C1Opens -> Step(In("string"), <<b>>)
      [] p.state = "escape" /\ b = "P" ->
             Step([In("prefix") EXCEPT !.bytes = <<"esc", "P">>], << >>)
      [] p.state = "escape" /\ b \in {"]", "_"} ->
             Step([In("string") EXCEPT !.osc = b = "]"], <<"esc", b>>)
      [] p.state = "escape" /\ b = "esc" -> Step(p, <<"esc">>)
      [] p.state = "escape" -> Step(Ground, <<"esc", b>>)
      [] p.state = "prefix" ->
             IF b = Prefix[Len(p.bytes) + 1] THEN Step(In("wrapped"), << >>)
             ELSE Step(StringState(b, Last(p.bytes) = "esc", FALSE), Append(p.bytes, b))
      [] p.state = "wrapped" -> Unwrap(p, b)
      [] p.state = "discard" ->
             IF b \in Cancels \/ (p.escape /\ b = "\\") THEN Step(Ground, << >>)
             ELSE Step([p EXCEPT !.escape = ~p.escape /\ b = "esc"], << >>)
      [] p.state = "string" -> Step(StringState(b, p.escape, p.osc), <<b>>)
      [] OTHER -> Step(Ground, <<b>>)

-----------------------------------------------------------------------------
(* GraphicsFramer::advance_unwrapped *)

Ends(p, b) == b \in Cancels \/ (p.escape /\ b = "\\") \/ (p.c1 /\ b = "c1st")

\* An escape that does not end the command spoils it, and so does its length.
Graphics(p, b) ==
    LET command == Append(p.bytes, b)
        ends == (p.escape /\ b = "\\") \/ (p.c1 /\ b = "c1st")
        rest == [In("discard") EXCEPT !.escape = b = "esc", !.c1 = p.c1]
    IN  CASE b \in Cancels -> Step(Ground, << >>)
          [] b \notin Cancels /\ p.escape /\ b # "\\" -> Step(rest, << >>)
          [] ends -> Step(Ground, IF Len(command) <= Limit
                                  THEN <<<<"command", command>>>> ELSE << >>)
          [] OTHER -> IF Len(command) >= Limit THEN Step(rest, << >>)
                      ELSE Step([p EXCEPT !.bytes = command, !.escape = b = "esc"], << >>)

Inner(p, b) ==
    LET start == IF p.c1 THEN <<"c1apc">> ELSE <<"esc", "_">>
        other(s) == [In(s) EXCEPT !.escape = b = "esc", !.c1 = p.c1]
    IN
    CASE p.state = "ground" /\ p.utf8 /\ b = "cont" -> Step(Ground, <<b>>)
      [] p.state = "ground" /\ b = "lead" -> Step([Ground EXCEPT !.utf8 = TRUE], <<b>>)
      [] p.state = "ground" /\ b = "esc" -> Step(In("escape"), << >>)
      [] p.state = "ground" /\ b = "c1apc" -> Step([In("apc") EXCEPT !.c1 = TRUE], << >>)
      [] p.state = "escape" /\ b = "_" -> Step(In("apc"), << >>)
      [] p.state = "escape" /\ b = "P" -> Step(In("dcs"), <<"esc", "P">>)
      [] p.state = "escape" /\ b = "esc" -> Step(p, <<"esc">>)
      [] p.state = "escape" /\ b = "c1apc" -> Step([In("apc") EXCEPT !.c1 = TRUE], <<"esc">>)
      [] p.state = "escape" -> Step(Ground, <<"esc", b>>)
      [] p.state = "apc" /\ b = "G" ->
             Step([In("graphics") EXCEPT !.bytes = Append(start, "G"), !.c1 = p.c1], << >>)
      [] p.state = "apc" ->
             Step(IF b \in Cancels \/ (p.c1 /\ b = "c1st") THEN Ground ELSE other("other"),
                  Append(start, b))
      [] p.state = "graphics" -> Graphics(p, b)
      [] p.state = "discard" -> Step(IF Ends(p, b) THEN Ground ELSE other("discard"), << >>)
      [] p.state = "other" -> Step(IF Ends(p, b) THEN Ground ELSE other("other"), <<b>>)
      [] p.state = "dcs" ->
             Step(IF Ends(p, b) \/ b = "c1st" THEN Ground ELSE other("dcs"), <<b>>)
      [] OTHER -> Step(Ground, <<b>>)

\* What the first machine lets through goes through the second one.
Through(p, bytes) ==
    FoldLeft(LAMBDA acc, b : LET s == Inner(acc.next, b)
                             IN  Step(s.next, acc.out \o s.out),
             Step(p, << >>), bytes)

Advance ==
    /\ input # << >>
    /\ LET unwrapped == Outer(outer, Head(input))
           framed == Through(inner, unwrapped.out)
       IN  /\ outer' = unwrapped.next
           /\ inner' = framed.next
           /\ events' = events \o framed.out
    /\ input' = Tail(input)
    /\ UNCHANGED meant

-----------------------------------------------------------------------------
(* Streams *)

Token(bytes, says) == [bytes |-> bytes, says |-> says]
AsText(bytes) == Token(bytes, bytes)
Command(bytes) == <<<<"command", bytes>>>>
\* How tmux wraps bytes: every escape is doubled.
Wrapped(bytes) ==
    <<"esc", "P", "tmux">> \o
    FlattenSeq([i \in DOMAIN bytes |->
                   IF bytes[i] = "esc" THEN <<"esc", "esc">> ELSE <<bytes[i]>>]) \o
    <<"esc", "\\">>

Esc7 == <<"esc", "_", "G", "x", "esc", "\\">>
C1 == <<"c1apc", "G", "x", "c1st">>
Mixed == <<"c1apc", "G", "esc", "\\">>
Long == <<"esc", "_", "G">> \o [i \in 1..Limit |-> "x"] \o <<"esc", "\\">>
Spoilt == <<"esc", "_", "G", "esc", "x", "esc", "\\">>
Cancelled == <<"esc", "_", "G", "x", "can">>
Tokens ==
    {AsText(<<"x">>), AsText(<<"G">>), AsText(<<"lead", "cont">>), AsText(<<"lead">>),
     AsText(<<"esc", "x">>), AsText(<<"esc", "P", "x", "esc", "\\">>),
     AsText(<<"esc", "P", "_", "G", "c1st">>), AsText(<<"esc", "_", "x", "esc", "\\">>),
     AsText(<<"esc", "]", "x", "bel">>), AsText(<<"c1apc", "x", "c1st">>),
     Token(Esc7, Command(Esc7)), Token(C1, Command(C1)), Token(Mixed, Command(Mixed)),
     Token(Long, << >>), Token(Spoilt, << >>), Token(Cancelled, << >>),
     Token(Wrapped(Esc7), Command(Esc7)), Token(Wrapped(C1), Command(C1)),
     Token(Wrapped(<<"x">>), <<"x">>), Token(Wrapped(Spoilt), << >>),
     Token(Wrapped(<<"esc", "x">>), <<"esc", "x">>),
     Token(<<"esc", "P", "tmux", "x", "can">>, << >>),
     Token(<<"esc", "P", "tmux", "esc", "x", "esc", "esc", "\\", "esc", "\\">>, << >>),
     \* A command in two wrappings.
     Token(Wrapped(<<"esc", "_", "G">>) \o Wrapped(<<"x", "esc", "\\">>), Command(Esc7))}

Init == \E n \in 1..MaxTokens : \E tokens \in [1..n -> Tokens] :
    /\ input = FlattenSeq([i \in 1..n |-> tokens[i].bytes])
    /\ meant = FlattenSeq([i \in 1..n |-> tokens[i].says])
    /\ outer = Ground /\ inner = Ground /\ events = << >>

Next == Advance \/ (input = << >> /\ UNCHANGED vars)

Spec == Init /\ [][Next]_vars

\* Whatever the order of text, commands and wrappings, and of those that are too
\* long, spoilt or cancelled: every whole command is taken out, in its place, no
\* byte of a command reaches the text, and no byte of the text is lost.
FramesTokens == input = << >> => events = meant
=============================================================================
