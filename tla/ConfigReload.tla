----------------------------- MODULE ConfigReload -----------------------------
(***************************************************************************)
(* Hot reload of the configuration (config/reload.rs) and its application  *)
(* by the server loop (terminal.rs).  A worker reads the file the session  *)
(* was started with and leaves what it read in a mailbox of one; the loop  *)
(* samples the mailbox, checks the update against the policy that needs a  *)
(* restart, and applies it at a boundary between two inputs, or at once    *)
(* when no client is attached.  Applying revokes what the new file no      *)
(* longer permits, in the visible panes and in the one kept for undo.      *)
(***************************************************************************)
EXTENDS Naturals, FiniteSets

CONSTANTS
  Versions,  \* what the file may hold, one of them "missing"
  Startup,   \* the version the session started with
  Invalid,   \* versions that do not parse, or cannot be read
  OtherEntry,\* versions that change the entry key or clear_defaults
  Compact,   \* versions with the compact layout
  Reads,     \* versions that permit clipboard reads
  Panes,     \* the panes, and "closed": the one kept for undo
  MaxEdits,  \* bound: changes of the file
  MaxToggles \* bound: other turns of the user

VARIABLES
  file,       \* what the path holds
  last,       \* what the worker read last
  mailbox,    \* the update the loop has not sampled
  candidate,  \* the update that waits for a boundary
  current,    \* the configuration in force
  error,      \* the reload error shown: "none", "invalid", "entry", "layout"
  generation,
  attached,
  busy,       \* an input, a gesture or an overlay is in progress
  room,       \* every window fits the canvas of the other layout
  granted,    \* panes that hold a clipboard read grant
  sampled,    \* the update sampled last
  edits, toggles

worker == <<last, mailbox>>
vars == <<file, worker, candidate, current, error, generation, attached, busy, room,
          granted, sampled, edits, toggles>>

None == "none"
Valid(v) == v \notin Invalid

-----------------------------------------------------------------------------

\* One look of the worker; an unsampled update is replaced.
WorkerReads ==
  /\ last # file
  /\ last' = file
  /\ mailbox' = file
  /\ UNCHANGED <<file, candidate, current, error, generation, attached, busy, room,
                 granted, sampled, edits, toggles>>

\* What an update becomes under the policy of the server.
Refusal(v) ==
  CASE ~Valid(v) -> "invalid"
    [] v \in OtherEntry -> "entry"
    [] OTHER -> None

Sample ==
  /\ mailbox # None
  /\ mailbox' = None
  /\ sampled' = mailbox
  /\ error' = Refusal(mailbox)
  /\ candidate' = IF error' = None /\ mailbox # current THEN mailbox ELSE None
  /\ UNCHANGED <<file, last, current, generation, attached, busy, room, granted, edits,
                 toggles>>

\* Panes lose what the configuration does not permit; the closed one loses it
\* in any case.
Revoked(v) == IF v \in Reads THEN granted \ {"closed"} ELSE {}

Fits(v) == ((v \in Compact) = (current \in Compact)) \/ room

Apply ==
  /\ candidate # None
  /\ attached => ~busy
  /\ candidate' = None
  /\ IF Fits(candidate)
     THEN /\ current' = candidate
          /\ generation' = generation + 1
          /\ granted' = Revoked(candidate)
          /\ UNCHANGED error
     ELSE /\ error' = "layout"
          /\ UNCHANGED <<current, generation, granted>>
  /\ UNCHANGED <<file, worker, attached, busy, room, sampled, edits, toggles>>

-----------------------------------------------------------------------------

Edit(v) ==
  /\ edits < MaxEdits
  /\ v # file
  /\ file' = v
  /\ edits' = edits + 1
  /\ UNCHANGED <<worker, candidate, current, error, generation, attached, busy, room,
                 granted, sampled, toggles>>

Toggle ==
  /\ toggles < MaxToggles
  /\ toggles' = toggles + 1
  /\ \/ attached' = ~attached /\ busy' = FALSE /\ UNCHANGED room
     \/ room' = ~room /\ UNCHANGED <<attached, busy>>
     \/ attached /\ ~busy /\ busy' = TRUE /\ UNCHANGED <<attached, room>>
  /\ UNCHANGED <<file, worker, candidate, current, error, generation, granted, sampled,
                 edits>>

\* The user finishes the input, or closes the overlay.
Finishes ==
  /\ busy
  /\ busy' = FALSE
  /\ UNCHANGED <<file, worker, candidate, current, error, generation, attached, room,
                 granted, sampled, edits, toggles>>

\* A program asks for the clipboard; a pane whose program has exited keeps its
\* grant when it is closed.
Grant(p) ==
  /\ current \in Reads
  /\ p \notin granted
  /\ granted' = granted \cup {p}
  /\ UNCHANGED <<file, worker, candidate, current, error, generation, attached, busy,
                 room, sampled, edits, toggles>>

Init ==
  /\ file = Startup /\ last = None /\ mailbox = None /\ candidate = None
  /\ current = Startup /\ error = None /\ generation = 0
  /\ attached \in BOOLEAN /\ busy = FALSE /\ room \in BOOLEAN
  /\ granted = {} /\ sampled = None /\ edits = 0 /\ toggles = 0

Next ==
  \/ WorkerReads \/ Sample \/ Apply \/ Toggle \/ Finishes
  \/ \E v \in Versions: Edit(v)
  \/ \E p \in Panes: Grant(p)

\* The worker looks twice a second, the loop samples at every turn, and a user
\* who began an input finishes it.
Fairness == WF_vars(WorkerReads) /\ WF_vars(Sample) /\ SF_vars(Apply) /\ WF_vars(Finishes)

Spec == Init /\ [][Next]_vars
FairSpec == Spec /\ Fairness

-----------------------------------------------------------------------------
(* Correctness.                                                            *)

TypeOK ==
  /\ {file, current} \subseteq Versions
  /\ {last, mailbox, candidate, sampled} \subseteq Versions \cup {None}
  /\ error \in {None, "invalid", "entry", "layout"}
  /\ granted \subseteq Panes /\ generation \in 0..MaxEdits

\* What is in force is a valid file under the entry policy of the start, a file
\* that is refused cancels the one that waits, and no pane, not even the hidden
\* one, keeps a permission the file in force has withdrawn
\* (docs/reference/config-reload.md).
LastGoodInForce ==
  /\ Valid(current) /\ current \notin OtherEntry
  /\ candidate # None => candidate = sampled /\ error = None /\ candidate # current
  /\ current \notin Reads => granted = {}

\* Nobody edits the file any more, or switches terminals.
Edited == edits = MaxEdits /\ toggles = MaxToggles

\* The file is in force, or the reason why it is not is shown: its own, not that of
\* a file before it.
Followed ==
  \/ current = file /\ error = None
  \/ error # None /\ error = Refusal(file)
  \/ error = "layout" /\ sampled = file
=============================================================================
