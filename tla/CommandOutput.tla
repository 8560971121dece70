---------------------------- MODULE CommandOutput ----------------------------
(***************************************************************************)
(* The second reader of a pane's output, SemanticOutput (semantic.rs): the *)
(* marks of shell integration, OSC 133 A (prompt), C (command) and D       *)
(* (done), the text between them, the programs seen while a command runs,  *)
(* and the reminder pane.rs makes of a finished one.                       *)
(*                                                                         *)
(* A byte is one of its classes; "A", "C", "D" and "t" in an OSC stand for *)
(* a whole payload: the marks and anything else.  Output comes in tokens,  *)
(* each a finished piece of a terminal's language or one cut short by CAN. *)
(***************************************************************************)
EXTENDS Naturals, Sequences, FiniteSets, SequencesExt

CONSTANTS
    Tokens,         \* the tokens a program writes, sequences of byte classes
    OutputLimit,    \* MAX_OUTPUT_BYTES
    Applications,   \* the programs that may be in the foreground
    Excluded,       \* exclude_applications
    MaxApplications,\* MAX_COMMAND_APPLICATIONS
    EmptyLines,     \* whether Enters may run nothing, or commands stay unmarked
    MaxSteps        \* bound

VARIABLES
    machine,    \* the state of the escape machine: its name and payload
    capture,    \* capturing, semantic_boundaries, overflowed, current
    last,       \* the last command's output, or NoOutput
    running,    \* command_started_at is set
    apps,       \* command_applications and whether they overflowed
    reminder,   \* command_reminder
    ran,        \* what the marks say: the text of the last command, and of this one
    during,     \* the programs seen during this command
    deserved,   \* a finished command was long and ran nothing excluded, and few programs
    steps

vars == <<machine, capture, last, running, apps, reminder, ran, during, deserved, steps>>

NoOutput == [none |-> TRUE, text |-> <<>>]
Output(text) == [none |-> FALSE, text |-> text]
Idle == [capturing |-> FALSE, semantic |-> FALSE, overflowed |-> FALSE, current |-> <<>>]
NoApps == [names |-> {}, overflowed |-> FALSE]
Ground == [state |-> "ground", payload |-> <<>>]
In(state, payload) == [state |-> state, payload |-> payload]

Init ==
    /\ machine = Ground /\ capture = Idle /\ last = NoOutput
    /\ running = FALSE /\ apps = NoApps /\ reminder = FALSE
    /\ ran = [last |-> NoOutput, text |-> <<>>, on |-> FALSE, prompt |-> TRUE]
    /\ during = {} /\ deserved = FALSE /\ steps = 0
-----------------------------------------------------------------------------
(* One byte.  What it changes is a record of the whole reader.             *)

Reader == [machine |-> machine, capture |-> capture, last |-> last,
           running |-> running, apps |-> apps, completed |-> <<>>]

\* push
Pushed(c, b) ==
    IF Len(c.current) = OutputLimit THEN [c EXCEPT !.overflowed = TRUE]
    ELSE IF c.overflowed THEN c ELSE [c EXCEPT !.current = Append(@, b)]

\* complete: the text becomes the last output, the command one of those completed.
Complete(r) ==
    [r EXCEPT !.last = IF r.capture.overflowed THEN NoOutput ELSE Output(r.capture.current),
              !.completed = IF r.running THEN Append(@, r.apps) ELSE @,
              !.capture = Idle, !.running = FALSE, !.apps = NoApps]

Started(r) ==
    [r EXCEPT !.capture = [Idle EXCEPT !.capturing = TRUE, !.semantic = TRUE],
              !.running = TRUE, !.apps = NoApps]

\* osc
Osc(r, payload) ==
    CASE payload = <<"C">> -> Started(r)
      [] payload \in {<<"A">>, <<"D">>} /\ r.capture.capturing -> Complete(r)
      [] OTHER -> r

\* ground
Text(r, b) ==
    CASE b = "esc" -> [r EXCEPT !.machine = In("escape", <<>>)]
      [] b \notin {"esc", "back", "bel"} /\ r.capture.capturing ->
             [r EXCEPT !.capture = Pushed(@, b)]
      [] b = "back" /\ r.capture.capturing /\ r.capture.current # <<>> ->
             [r EXCEPT !.capture.current = Front(@)]
      [] OTHER -> r

Ends(r) == Osc([r EXCEPT !.machine = Ground], r.machine.payload)
Goes(r, state, payload) == [r EXCEPT !.machine = In(state, payload)]

\* advance_with_prompt_events
Byte(r, b) ==
    LET state == r.machine.state
        payload == r.machine.payload
    IN  CASE b = "can" -> [r EXCEPT !.machine = Ground]
          [] b # "can" /\ state = "ground" -> Text(r, b)
          [] b # "can" /\ state = "escape" ->
                 Goes(r, CASE b = "[" -> "csi" [] b = "]" -> "osc" [] b = "P" -> "string"
                           [] b = "esc" -> "escape" [] OTHER -> "ground", <<>>)
          [] b # "can" /\ state = "csi" ->
                 Goes(r, CASE b = "esc" -> "escape" [] b = "m" -> "ground"
                           [] OTHER -> "csi", <<>>)
          [] b # "can" /\ state = "osc" ->
                 IF b = "bel" THEN Ends(r)
                 ELSE IF b = "esc" THEN Goes(r, "osc escape", payload)
                 ELSE Goes(r, "osc", Append(payload, b))
          [] b # "can" /\ state = "osc escape" ->
                 IF b = "\\" THEN Ends(r) ELSE Goes(r, "osc", payload \o <<"esc", b>>)
          [] b # "can" /\ state = "string" ->
                 Goes(r, IF b = "esc" THEN "string escape" ELSE "string", <<>>)
          [] b # "can" /\ state = "string escape" ->
                 Goes(r, CASE b = "\\" -> "ground" [] b = "esc" -> state
                           [] OTHER -> "string", <<>>)

\* last_output, and fallback_output of a capture by Enter: neither the first line,
\* which the terminal echoed, nor the last, which is the prompt.
Inner(text) ==
    LET breaks == {i \in DOMAIN text : text[i] = "nl"}
        from == CHOOSE i \in breaks : \A j \in breaks : i <= j
        to == CHOOSE i \in breaks : \A j \in breaks : i >= j
    IN  IF Cardinality(breaks) < 2 THEN <<>> ELSE SubSeq(text, from + 1, to - 1)

LastOutput ==
    IF ~capture.capturing THEN last
    ELSE IF capture.semantic \/ capture.overflowed \/ Inner(capture.current) = <<>>
    THEN NoOutput ELSE Output(Inner(capture.current))
-----------------------------------------------------------------------------
(* What a stream of tokens says, read without the machine.                 *)

Mark(token) ==
    IF Len(token) >= 4 /\ token[2] = "]" /\ Last(token) # "can" /\ token[3] \in {"A", "C", "D"}
    THEN token[3] ELSE "no"

Said(token) ==
    CASE Mark(token) = "C" ->
             [ran EXCEPT !.text = <<>>, !.on = TRUE, !.prompt = FALSE]
      [] Mark(token) \in {"A", "D"} /\ ran.on ->
             [last |-> IF Len(ran.text) > OutputLimit THEN NoOutput ELSE Output(ran.text),
              text |-> <<>>, on |-> FALSE, prompt |-> Mark(token) = "A"]
      [] Mark(token) = "A" /\ ~ran.on -> [ran EXCEPT !.prompt = TRUE]
      [] Len(token) = 1 /\ ran.on /\ token[1] = "back" ->
             [ran EXCEPT !.text = IF @ = <<>> THEN @ ELSE Front(@)]
      [] Len(token) = 1 /\ ran.on /\ token[1] # "back" ->
             [ran EXCEPT !.text = Append(@, token[1])]
      [] OTHER -> ran
-----------------------------------------------------------------------------

\* Whether a completed command that was long enough earns a reminder.
Deserves(a) == ~(a.overflowed /\ Excluded # {}) /\ a.names \cap Excluded = {}

\* process_output_inner: a token of output, and the reminder of a long command in it.
Advance(token) ==
    \E long \in BOOLEAN :
        LET r == FoldLeft(Byte, Reader, token)
            reminds == long /\ r.completed # <<>> /\ Deserves(r.completed[1])
        IN  /\ long => r.completed # <<>>
            \* Backspaces over text that was not kept are not followed up.
            /\ token = <<"back">> => ~capture.overflowed
            /\ EmptyLines \/ Mark(token) \notin {"A", "D"} \/ ~capture.capturing \/ capture.semantic
            /\ machine' = r.machine /\ capture' = r.capture /\ last' = r.last
            /\ running' = r.running /\ apps' = r.apps
            /\ reminder' = (reminder \/ reminds)
            /\ ran' = Said(token)
            /\ during' = IF Mark(token) = "C" \/ (Mark(token) # "no" /\ ran.on) THEN {}
                         ELSE during
            /\ deserved' = (deserved
                  \/ (Mark(token) \in {"A", "D"} /\ ran.on /\ long /\ during \cap Excluded = {}
                      /\ (Excluded # {} => Cardinality(during) <= MaxApplications)))

\* command_submitted: an Enter starts a capture, unless marks delimit one.
Submit ==
    /\ ran.prompt
    /\ EmptyLines \/ ~capture.capturing \/ capture.semantic
    /\ IF capture.capturing /\ capture.semantic THEN UNCHANGED <<capture, last>>
       ELSE /\ last' = IF ~capture.capturing THEN last
                       ELSE IF capture.overflowed \/ Inner(capture.current) = <<>>
                       THEN NoOutput ELSE Output(Inner(capture.current))
            /\ capture' = [Idle EXCEPT !.capturing = TRUE]
    /\ UNCHANGED <<machine, running, apps, reminder, ran, during, deserved>>

\* observe_application, on the event loop's samples.
ObserveApplication(app) ==
    /\ running /\ app \notin apps.names
    /\ apps' = IF Cardinality(apps.names) = MaxApplications
               THEN [apps EXCEPT !.overflowed = TRUE]
               ELSE [apps EXCEPT !.names = @ \cup {app}]
    /\ during' = during \cup {app}
    /\ UNCHANGED <<machine, capture, last, running, reminder, ran, deserved>>

\* cancel_current, of a pane that is hidden.
CancelCurrent ==
    /\ capture' = Idle /\ running' = FALSE /\ apps' = NoApps
    /\ ran' = [ran EXCEPT !.on = FALSE, !.text = <<>>] /\ during' = {}
    /\ UNCHANGED <<machine, last, reminder, deserved>>

\* take_command_reminder
TakeReminder ==
    /\ reminder /\ reminder' = FALSE /\ deserved' = FALSE
    /\ UNCHANGED <<machine, capture, last, running, apps, ran, during>>

Next ==
    /\ steps < MaxSteps /\ steps' = steps + 1
    /\ \/ \E token \in Tokens : Advance(token)
       \/ Submit \/ CancelCurrent \/ TakeReminder
       \/ \E app \in Applications : ObserveApplication(app)
Spec == Init /\ [][Next]_vars
-----------------------------------------------------------------------------
\* Between commands the last output offered is the text the last marked command
\* printed, whatever escapes, titles and cut marks were between ("capture starts at
\* OSC 133;C and completes at OSC 133;D or the following OSC 133;A",
\* docs/reference/windows.md:279); while one runs there is none.  A shell that marks its
\* commands is asked to run one by every Enter here.
LastIsOneCommand ==
    ~EmptyLines /\ ~(capture.capturing /\ ~capture.semantic) => LastOutput = IF ran.on THEN NoOutput ELSE ran.last

\* A reminder is due exactly for a long command during which no excluded program was
\* seen, whatever was seen during the one before it or while none ran.
RemindersAreDeserved == reminder = deserved
=============================================================================
