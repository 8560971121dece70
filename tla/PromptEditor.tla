---------------------------- MODULE PromptEditor ----------------------------
(***************************************************************************)
(* The editor of names, destinations and confirmations (prompt.rs) and     *)
(* what its answers do to the windows, while windows and panes end and     *)
(* scripts change them.                                                    *)
(*                                                                         *)
(* A byte is one of its classes: "c" a letter, "hi" the first and "lo" the   *)
(* second byte of a two-byte letter, "y" a final byte, "e" the bytes of    *)
(* "yes" typed at once, digits by their value.  Input comes in tokens: a   *)
(* key, a paste, or a report the terminal sends.                           *)
(***************************************************************************)
EXTENDS Naturals, Sequences, FiniteSets, SequencesExt

CONSTANTS
    Windows,        \* identities of windows
    Keys, Pastes,   \* tokens typed, and payloads pasted
    MaxBytes,       \* MAX_NAME_BYTES
    MaxSequence,    \* the bound of an escape sequence, 16 bytes
    MaxTokens       \* bound

VARIABLES
    windows,    \* the windows in the order of the bar
    active,     \* the active one; its active pane ends only with it here
    prompt,     \* the WindowPrompt, or None
    opened,     \* what the user saw when it opened: kind, windows, active one
    typed,      \* the text as a reader of tokens knows it
    answer,     \* what the last token did: nothing, saved or cancelled, and to what
    tokens

vars == <<windows, active, prompt, opened, typed, answer, tokens>>

Kinds == {"rename", "close", "move"}
None == [kind |-> "none"]
Nothing == [did |-> "nothing"]
Did(what, kind, text, on) == [did |-> what, kind |-> kind, text |-> text, on |-> on]
Digits == <<"1", "2", "3">>
Size(text) == FoldLeft(LAMBDA n, c : n + (IF c = "hilo" THEN 2 ELSE 1), 0, text)

Init ==
    /\ windows \in {s \in [1 .. Cardinality(Windows) -> Windows] : IsInjective(s)}
    /\ active \in Windows
    /\ prompt = None /\ opened = None /\ typed = <<>> /\ answer = Nothing /\ tokens = 0
-----------------------------------------------------------------------------
\* new, close, close_pane, move_pane
WindowPrompt(kind) ==
    [kind |-> kind, text |-> <<>>, destinations |-> IF kind = "move" THEN windows ELSE <<>>,
     utf8 |-> <<>>, escape |-> <<>>, paste |-> FALSE, result |-> "continue"]

\* append: a character that does not fit or is a control is ignored.
Append1(p, character) ==
    IF Size(p.text) + Size(<<character>>) > MaxBytes THEN p
    ELSE [p EXCEPT !.text = Append(@, character)]

Final(byte) == byte \in {"c", "y", "~", "O", "["}    \* 0x40 to 0x7e

\* feed after an escape: the sequence is consumed, only the marks of a paste count.
InEscape(p, byte) ==
    LET escape == Append(p.escape, byte)
        done == (Len(escape) = 2 /\ byte \notin {"[", "O"})
                  \/ (Len(escape) > 2 /\ Final(byte)) \/ Len(escape) >= MaxSequence
    IN  IF ~done THEN [p EXCEPT !.escape = escape]
        ELSE [p EXCEPT !.escape = <<>>,
                       !.paste = \/ escape = <<"esc", "[", "200", "~">>
                                 \/ p.paste /\ escape # <<"esc", "[", "201", "~">>]

\* feed of a byte that is text: a letter of two bytes is complete with the second, and
\* what does not continue the first drops it.
Character(p, byte) ==
    IF byte \notin {"hi", "lo"} THEN Append1([p EXCEPT !.utf8 = <<>>], byte)
    ELSE CASE p.utf8 = <<>> /\ byte = "hi" -> [p EXCEPT !.utf8 = <<byte>>]
           [] p.utf8 = <<"hi">> /\ byte = "lo" -> Append1([p EXCEPT !.utf8 = <<>>], "hilo")
           [] OTHER -> [p EXCEPT !.utf8 = <<>>]

\* feed
Feed(p, byte) ==
    LET control == byte \in {"enter", "cancel", "back", "kill"}
    IN  CASE p.escape # <<>> -> InEscape(p, byte)
          [] p.escape = <<>> /\ byte = "esc" -> [p EXCEPT !.utf8 = <<>>, !.escape = <<"esc">>]
          [] p.escape = <<>> /\ ~p.paste /\ byte = "enter" -> [p EXCEPT !.result = "save"]
          [] p.escape = <<>> /\ ~p.paste /\ byte = "cancel" -> [p EXCEPT !.result = "cancel"]
          [] p.escape = <<>> /\ ~p.paste /\ byte = "back" ->
               [p EXCEPT !.utf8 = <<>>, !.text = IF @ = <<>> THEN @ ELSE Front(@)]
          [] p.escape = <<>> /\ ~p.paste /\ byte = "kill" ->
               [p EXCEPT !.utf8 = <<>>, !.text = <<>>]
          [] p.escape = <<>> /\ p.paste /\ control -> [p EXCEPT !.utf8 = <<>>]
          [] p.escape = <<>> /\ ~control /\ byte # "esc" -> Character(p, byte)
-----------------------------------------------------------------------------
(* What a reader of whole keys and pastes makes of the text.               *)

\* The letters of a payload: no control, no cut letter, and an escape with its byte.
Letters(bytes) ==
    LET letter(i) == IF bytes[i] = "hi" /\ i < Len(bytes) /\ bytes[i + 1] = "lo" THEN "hilo"
                     ELSE bytes[i]
        kept == SelectSeq([i \in DOMAIN bytes |-> i],
                  LAMBDA i : /\ bytes[i] \notin {"enter", "cancel", "back", "kill", "lo", "esc"}
                             /\ bytes[i] = "hi" => letter(i) = "hilo"
                             /\ i > 1 => bytes[i - 1] # "esc")
    IN  [n \in DOMAIN kept |-> letter(kept[n])]

Added(text, letters) ==
    FoldLeft(LAMBDA t, c : IF Size(t) + Size(<<c>>) > MaxBytes THEN t ELSE Append(t, c),
             text, letters)

ReadKey(token) ==
    CASE token = <<"back">> -> IF typed = <<>> THEN typed ELSE Front(typed)
      [] token = <<"kill">> -> <<>>
      [] token[1] = "esc" -> typed
      [] OTHER -> Added(typed, Letters(token))
-----------------------------------------------------------------------------
\* Opening from a key: Rename, Close, ClosePane and JoinPane.
Open(kind) ==
    /\ prompt.kind = "none"
    /\ prompt' = WindowPrompt(kind) /\ typed' = <<>> /\ answer' = Nothing
    /\ opened' = [kind |-> kind, windows |-> windows, active |-> active]
    /\ UNCHANGED <<windows, active>>

\* What the numbers of a move prompt mean.
Destinations(p) == p.destinations

\* The window of a typed number, if it is one and still there.
Target(p) ==
    LET d == Destinations(p)
        named == {n \in DOMAIN d : p.text = <<Digits[n]>> /\ d[n] \in ToSet(windows)}
    IN  IF named = {} THEN "no window" ELSE d[CHOOSE n \in named : TRUE]

\* Enter: renames, asks to close what is active, or moves to the numbered window, which
\* is followed; an ordinary answer closes the prompt and does nothing.
Save(p) ==
    /\ prompt' = None
    /\ answer' = IF p.kind = "close" /\ p.text # <<"yes">>
                 THEN Did("nothing", p.kind, p.text, active)
                 ELSE Did("saved", p.kind, p.text,
                          IF p.kind = "move" THEN Target(p) ELSE active)
    /\ \/ (p.kind # "move" \/ Target(p) \in {"no window", active}) /\ UNCHANGED <<windows, active>>
       \/ /\ p.kind = "move" /\ Target(p) \notin {"no window", active} /\ active' = Target(p)
          /\ windows' \in {windows, SelectSeq(windows, LAMBDA w : w # active)}

Finish(p) ==
    CASE p.result = "save" -> Save(p)
      [] p.result = "cancel" ->
           /\ prompt' = None /\ answer' = Did("cancelled", p.kind, p.text, active)
           /\ UNCHANGED <<windows, active>>
      [] p.result = "continue" ->
           prompt' = p /\ answer' = Nothing /\ UNCHANGED <<windows, active>>

\* A token is fed byte by byte; what follows the byte that closes the prompt is for
\* another reader.
FeedAll(bytes) ==
    Finish(FoldLeft(LAMBDA p, b : IF p.result = "continue" THEN Feed(p, b) ELSE p, prompt, bytes))

\* A key, or a report of the terminal; an Esc that is all for 30 ms is a key by itself.
Key(token) ==
    /\ prompt.kind # "none" /\ prompt.escape = <<>>
    /\ IF token = <<"esc">>
       THEN /\ ~prompt.paste
            /\ prompt' = None /\ answer' = Did("cancelled", prompt.kind, prompt.text, active)
            /\ UNCHANGED <<windows, active>>
       ELSE FeedAll(token)
    /\ typed' = ReadKey(token)
    /\ UNCHANGED opened

\* A bracketed paste.
Paste(payload) ==
    /\ prompt.kind # "none" /\ prompt.escape = <<>>
    /\ FeedAll(<<"esc", "[", "200", "~">> \o payload \o <<"esc", "[", "201", "~">>)
    /\ typed' = Added(typed, Letters(payload))
    /\ UNCHANGED opened

\* A window in the background ends by itself: the bar's numbers move.
BackgroundExit(w) ==
    /\ w # active /\ w \in ToSet(windows)
    /\ windows' = SelectSeq(windows, LAMBDA v : v # w)
    /\ answer' = Nothing /\ UNCHANGED <<active, prompt, opened, typed>>

\* The active window ends, or a script changes the windows: the prompt is closed.
ActiveExit ==
    /\ Len(windows) > 1
    /\ windows' = SelectSeq(windows, LAMBDA v : v # active)
    /\ active' \in ToSet(windows')
    /\ prompt' = None /\ answer' = Nothing /\ UNCHANGED <<opened, typed>>

ScriptSelect(w) ==
    /\ w \in ToSet(windows) \ {active} /\ active' = w
    /\ prompt' = None /\ answer' = Nothing /\ UNCHANGED <<windows, opened, typed>>

Next ==
    /\ tokens < MaxTokens /\ tokens' = tokens + 1
    /\ \/ \E kind \in Kinds : Open(kind)
       \/ \E token \in Keys : Key(token)
       \/ \E payload \in Pastes : Paste(payload)
       \/ \E w \in Windows : BackgroundExit(w) \/ ScriptSelect(w)
       \/ ActiveExit
Spec == Init /\ [][Next]_vars
-----------------------------------------------------------------------------
\* The text is what the keys and pastes say: sequences and reports of the terminal leave
\* no letter, cut characters and controls of a paste neither, and between tokens the
\* editor waits for nothing ("Its payload is treated as name text, ... and control
\* characters such as newlines are ignored", docs/reference/windows.md:339-342).
TextIsTyped ==
    prompt.kind # "none" => prompt.text = typed /\ ~prompt.paste /\ prompt.escape = <<>>

\* An answer acts on what was on the screen when it was asked for: what is closed or
\* renamed is the window the question was about, and a number stays the window it was
\* in the bar ("confirmation never transfers to another pane",
\* docs/reference/interactive-splits.md:240).
AnswerIsForTheQuestion ==
    answer.did = "saved" =>
        /\ answer.text = typed
        /\ answer.kind = "close" => answer.text = <<"yes">>
        /\ answer.kind # "move" => answer.on = opened.active
        /\ answer.kind = "move" /\ answer.on # "no window" =>
             \E n \in DOMAIN opened.windows :
                 /\ opened.windows[n] = answer.on
                 /\ answer.text = <<Digits[n]>>
=============================================================================
