----------------------------- MODULE PaneProcess -----------------------------
(***************************************************************************)
(* One pane, the process behind it and the server's event loop: spawning,  *)
(* reading and answering the PTY, noticing the exit, drawing the last      *)
(* frame, removing or retaining the pane, closing it into the undo slot,   *)
(* serving it there, and respawning it (src/src/pane.rs, pty.rs,           *)
(* closed_pane.rs and the loop of terminal.rs).                            *)
(*                                                                         *)
(* The child, its background job (the holder of the PTY's slave side) and  *)
(* the kernel's two queues are the environment; they move between any two  *)
(* steps of the loop.  Output is a sequence of tokens: "text", "query"     *)
(* (answered by ReplySize tokens of input), "begin" and "end" of a         *)
(* synchronized update, and "noise" of the holder.  The pane's input queue *)
(* holds <<"key", i>> and <<"reply", i>>, i the process they are for.      *)
(***************************************************************************)
EXTENDS Integers, Sequences

CONSTANTS
    QueueLimit,     \* INPUT_LIMIT, the room of the pane's input queue
    ReplySize,      \* MAX_REPLY_BYTES, the most one token of output is answered with
    ReadSize,       \* the most tokens one read takes
    PipeLimit,      \* the kernel's room for output
    TtyLimit,       \* the kernel's room for input
    Tokens,         \* the kinds of output the child writes
    MaxWrites,      \* bound: tokens the child and the holder write
    MaxKeys,        \* bound: keys, closes, undos and switches of the policy
    MaxRespawns     \* bound: replacements of the process

VARIABLES
    os,        \* the child: alive, open (holds the slave), holder, pipe, tty, wrote
    pane,      \* eof, status, queue, dirty, sync: the fields of Pane and PaneIo
    inc,       \* which process this is (incarnation)
    place,     \* "shown", "hidden" (the undo slot) or "gone"
    view,      \* "active", "background" or "detached": who draws the pane; "dropped" is
               \* detached too, by a close that failed
    alone,     \* whether the pane is the last of the last window
    retain,    \* remain_on_exit, as it applies to this pane
    closing,   \* close_requested
    drawn,     \* the screen as the client was last sent it is the screen
    frame,     \* to_terminal holds bytes the client has not taken
    ready,     \* what poll was asked and what it answered
    pc,        \* the step of the turn of the loop
    server,    \* "runs", "exited", or why it failed
    keyed      \* how much the user did

vars == <<os, pane, inc, place, view, alone, retain, closing, drawn, frame,
          ready, pc, server, keyed>>

NewChild == [alive |-> TRUE, open |-> TRUE, holder |-> FALSE,
             pipe |-> <<>>, tty |-> 0, wrote |-> 0]
NewPane == [eof |-> FALSE, status |-> FALSE, queue |-> <<>>, dirty |-> TRUE,
            sync |-> FALSE]
NotPolled == [read |-> FALSE, write |-> FALSE, readable |-> FALSE, writable |-> FALSE]

Init ==
    /\ os = NewChild /\ pane = NewPane /\ inc = 0 /\ place = "shown"
    /\ view \in {"active", "background", "detached"} /\ alone \in BOOLEAN
    /\ retain \in BOOLEAN
    /\ closing = FALSE /\ drawn = FALSE /\ frame = FALSE /\ ready = NotPolled
    /\ pc = "close" /\ server = "runs" /\ keyed = 0

HungUp == ~os.open /\ ~os.holder
-----------------------------------------------------------------------------
\* The environment

EnvUnchanged == UNCHANGED <<pane, inc, place, view, alone, retain, closing, frame,
                            ready, pc, server, keyed>>

Writes(token) ==
    /\ os.wrote < MaxWrites /\ Len(os.pipe) < PipeLimit
    /\ os' = [os EXCEPT !.pipe = Append(@, token), !.wrote = @ + 1]
    /\ EnvUnchanged /\ UNCHANGED drawn

ChildWrites ==
    /\ os.alive /\ os.open
    /\ \E token \in Tokens : Writes(token)

HolderWrites == os.holder /\ Writes("noise")

ChildMoves ==
    /\ os.alive
    /\ \/ ~os.holder /\ os.open /\ os' = [os EXCEPT !.holder = TRUE]
       \/ os.tty > 0 /\ os' = [os EXCEPT !.tty = @ - 1]
       \/ os.open /\ os' = [os EXCEPT !.open = FALSE]
    /\ EnvUnchanged /\ UNCHANGED drawn

ChildExits ==
    /\ os.alive
    /\ os' = [os EXCEPT !.alive = FALSE, !.open = FALSE]
    /\ EnvUnchanged /\ UNCHANGED drawn

HolderExits ==
    /\ os.holder
    /\ os' = [os EXCEPT !.holder = FALSE]
    /\ EnvUnchanged /\ UNCHANGED drawn

\* The client takes the frame.
ClientTakes ==
    /\ frame /\ frame' = FALSE /\ server = "runs" /\ place # "gone"
    /\ UNCHANGED <<os, pane, inc, place, view, alone, retain, closing, drawn,
                   ready, pc, server, keyed>>
-----------------------------------------------------------------------------
\* The pane's operations

\* PaneIo::reply_read_limit: how much may be read so that the replies fit.
ReplyReadLimit ==
    IF pane.eof THEN 0
    ELSE IF pane.status THEN ReadSize
    ELSE (QueueLimit - Len(pane.queue)) \div ReplySize

AcceptsInput == ~pane.eof /\ ~pane.status /\ Len(pane.queue) < QueueLimit

Least(a, b) == IF a < b THEN a ELSE b

\* process_output_for_runtime on the first n tokens of the pipe.
Replies(n) ==
    LET asked == SelectSeq(SubSeq(os.pipe, 1, n), LAMBDA t : t = "query")
    IN  [i \in 1 .. Len(asked) * ReplySize |-> <<"reply", inc>>]

SyncAfter(n) ==
    LET marks == {i \in 1 .. n : os.pipe[i] \in {"begin", "end"}}
    IN  IF marks = {} THEN pane.sync
        ELSE os.pipe[CHOOSE i \in marks : \A j \in marks : j <= i] = "begin"

Processed(n) ==
    [pane EXCEPT !.dirty = TRUE,
                 !.sync = SyncAfter(n),
                 !.queue = IF pane.status THEN @ ELSE @ \o Replies(n)]

\* The write of a PtyShell: what the kernel has room for; a hung up terminal
\* takes everything and nobody reads it.
WriteTo(p) ==
    LET n == IF HungUp THEN Len(p.queue) ELSE Least(Len(p.queue), TtyLimit - os.tty)
    IN  [rest |-> SubSeq(p.queue, n + 1, Len(p.queue)),
         tty  |-> os.tty + (IF HungUp THEN 0 ELSE n)]

\* The first n tokens leave the kernel.
Taken(n) == SubSeq(os.pipe, n + 1, Len(os.pipe))

\* finish_output
Finished(p) == [p EXCEPT !.eof = TRUE, !.dirty = TRUE]

Stopped == pane.eof \/ pane.status
Goes(next) == pc' = next /\ server = "runs" /\ place # "gone"
-----------------------------------------------------------------------------
\* The turn of the loop

\* stop_foreground: a shell that already exited has no foreground to stop.
ForegroundStops == os.alive

\* The error leaves the loop: a named session takes it for a client that has gone, and
\* its panes go on without one; a session without a name ends, with every pane.
CloseFails ==
    /\ \/ view' = "dropped" /\ UNCHANGED server
       \/ server' = "close failed" /\ UNCHANGED view
    /\ UNCHANGED <<place, pane>>

\* stop_for_hide: the pane's input is discarded and its foreground job stopped.  A
\* separate job is killed and its modes are reset; else the shell is interrupted.
\* A shell that is dead by now and not yet observed is an error.
StopForHide ==
    \/ /\ Stopped
       /\ place' = "hidden" /\ pane' = [pane EXCEPT !.queue = <<>>]
       /\ UNCHANGED <<view, server>>
    \/ ~Stopped /\ ~ForegroundStops /\ CloseFails
    \/ /\ ~Stopped /\ ForegroundStops
       /\ place' = "hidden"
       /\ \E sync \in {pane.sync, FALSE} :
              pane' = [pane EXCEPT !.queue = <<>>, !.sync = sync]
       /\ UNCHANGED <<view, server>>

\* A confirmed close, once the frame on its way is out.
Close ==
    /\ pc = "close" /\ Goes("observe")
    /\ IF ~closing \/ frame
       THEN UNCHANGED <<place, pane, view, closing, server>>
       ELSE /\ closing' = FALSE
            /\ IF place # "shown" THEN UNCHANGED <<place, pane, view, server>>
               ELSE IF alone THEN server' = "exited" /\ UNCHANGED <<place, pane, view>>
               ELSE StopForHide
    /\ UNCHANGED <<os, inc, alone, retain, drawn, frame, ready, keyed>>

\* observe_exit
Observe ==
    /\ pc = "observe" /\ Goes("hidden")
    /\ pane' = IF place # "shown" \/ pane.status \/ os.alive THEN pane
               ELSE IF retain
               THEN [pane EXCEPT !.status = TRUE, !.queue = <<>>, !.sync = FALSE,
                                 !.dirty = TRUE]
               ELSE [pane EXCEPT !.status = TRUE]
    /\ UNCHANGED <<os, inc, place, view, alone, retain, closing, drawn, frame,
                   ready, server, keyed>>

\* ClosedPane::service: the hidden pane is read, answered and written to, and
\* dropped, which kills it, once its process is gone or its terminal hung up.
ServeHidden ==
    /\ pc = "hidden" /\ Goes("frame")
    /\ LET limit == Least(ReplyReadLimit, ReadSize)
           n == Least(Len(os.pipe), limit)
           gone == ~os.alive \/ (limit > 0 /\ os.pipe = <<>> /\ HungUp)
       IN  IF place # "hidden" THEN UNCHANGED <<os, pane, place>>
           ELSE IF gone THEN place' = "gone" /\ UNCHANGED <<os, pane>>
           ELSE LET p == IF n = 0 THEN pane ELSE Processed(n)
                    w == WriteTo(p)
                IN  /\ pane' = [p EXCEPT !.queue = w.rest]
                    /\ os' = [os EXCEPT !.pipe = Taken(n), !.tty = w.tty]
                    /\ UNCHANGED place
    /\ UNCHANGED <<inc, view, alone, retain, closing, drawn, frame, ready, server, keyed>>

\* When a frame is drawn: something changed, no frame is on its way, and the next one
\* is due, which the end of the output and a forced one do not wait for.
FrameIsDue(paused, forced, due) ==
    /\ view = "active" /\ ~closing /\ ~frame
    /\ pane.dirty \/ forced
    /\ ~paused \/ forced
    /\ pane.eof \/ forced \/ due

\* synchronized_pause and the frame: a batch is held until it ends, its second is
\* over (expired) or the output has; something else of the view may force a frame.
Frame ==
    /\ pc = "frame" /\ Goes("remove")
    /\ \E expired, forced, due \in BOOLEAN :
        /\ LET paused == pane.sync /\ ~pane.eof /\ ~expired
               now == [pane EXCEPT !.sync = paused]
               draws == place = "shown" /\ FrameIsDue(paused, forced, due)
           IN  IF place # "shown" THEN UNCHANGED <<pane, drawn, frame>>
               ELSE IF draws
               THEN pane' = [now EXCEPT !.dirty = FALSE] /\ drawn' = TRUE /\ frame' = TRUE
               ELSE pane' = now /\ UNCHANGED <<drawn, frame>>
        /\ forced => keyed < MaxKeys
        /\ keyed' = keyed + (IF forced THEN 1 ELSE 0)
    /\ UNCHANGED <<os, inc, place, view, alone, retain, closing, ready, server>>

\* Whether the end of the pane may be acted on: its last frame is out, where it has one.
LastFrameIsOut == view # "active" \/ (~pane.dirty /\ ~frame)

\* The finished panes, attached and detached.  A process that goes on for a second
\* after the end of its output is an error.
RemoveFinished ==
    /\ pc = "remove" /\ Goes("keys")
    /\ IF place = "shown" /\ pane.eof /\ pane.status /\ ~retain /\ LastFrameIsOut
       THEN IF alone THEN server' = "exited" /\ UNCHANGED place
            ELSE place' = "gone" /\ UNCHANGED server
       ELSE /\ UNCHANGED place
            /\ \/ UNCHANGED server
               \/ place = "shown" /\ pane.eof /\ ~pane.status /\ server' = "lingering"
    /\ UNCHANGED <<os, pane, inc, view, alone, retain, closing, drawn, frame, ready, keyed>>

\* Keys that reach the pane, are held, or are thrown away with it.
Type ==
    /\ place = "shown" /\ AcceptsInput
    /\ pane' = [pane EXCEPT !.queue = Append(@, <<"key", inc>>)]
    /\ UNCHANGED <<os, inc, place, retain, closing, drawn, ready>>

ConfirmClose ==
    /\ place = "shown" /\ ~closing /\ closing' = TRUE
    /\ UNCHANGED <<os, pane, inc, place, retain, drawn, ready>>

\* The undo: the hidden pane is resized and shown again.
Undo ==
    /\ place = "hidden" /\ place' = "shown" /\ drawn' = FALSE
    /\ pane' = [pane EXCEPT !.sync = FALSE, !.dirty = TRUE]
    /\ UNCHANGED <<os, inc, retain, closing, ready>>

SwitchRetention ==
    /\ retain' = ~retain
    /\ UNCHANGED <<os, pane, inc, place, closing, drawn, ready>>

\* respawn: a drained pane whose process was observed dead gets a new one.
Respawn ==
    /\ place = "shown" /\ pane.eof /\ pane.status /\ inc < MaxRespawns
    /\ os' = NewChild /\ pane' = NewPane /\ inc' = inc + 1
    /\ drawn' = FALSE /\ ready' = NotPolled
    /\ UNCHANGED <<place, retain, closing>>

Keys ==
    /\ pc = "keys" /\ Goes("poll")
    /\ \/ UNCHANGED <<os, pane, inc, place, retain, closing, drawn, ready, keyed>>
       \/ /\ keyed < MaxKeys /\ keyed' = keyed + 1
          /\ SwitchRetention \/ (view = "active" /\ (Type \/ ConfirmClose \/ Undo))
       \/ view = "active" /\ Respawn /\ UNCHANGED keyed
    /\ UNCHANGED <<view, alone, frame, server>>

\* poll: output is asked for when its answers fit and no frame is on its way.
Poll ==
    /\ pc = "poll" /\ Goes("service")
    /\ ready' = [read     |-> ReplyReadLimit # 0 /\ (view # "active" \/ ~frame),
                 write    |-> ~Stopped /\ pane.queue # <<>>,
                 readable |-> os.pipe # <<>> \/ HungUp,
                 writable |-> HungUp \/ os.tty < TtyLimit]
    /\ UNCHANGED <<os, pane, inc, place, view, alone, retain, closing, drawn, frame,
                   server, keyed>>

\* A read of service_pane: what the pane is after it, and how many tokens it took.
ReadCount == Least(Len(os.pipe), Least(ReadSize, ReplyReadLimit))
ReadOf(n) == [pane |-> IF n = 0 THEN pane ELSE Processed(n), taken |-> n]
End == [pane |-> Finished(pane), taken |-> 0]

\* Mutant: an observed exit is the end of the output.
ReadUntilExit ==
    IF pane.eof \/ ~ready.read THEN ReadOf(0)
    ELSE IF pane.status \/ (os.pipe = <<>> /\ HungUp) THEN End
    ELSE IF ready.readable THEN ReadOf(ReadCount) ELSE ReadOf(0)

\* The output ends with the hangup, or with the exit once nothing was left to read:
\* descendants that keep the terminal open do not delay the exit of the child.
Read ==
    IF pane.eof \/ ~ready.read THEN ReadOf(0)
    ELSE IF ready.readable
    THEN IF os.pipe = <<>> /\ HungUp THEN End ELSE ReadOf(ReadCount)
    ELSE IF pane.status THEN End ELSE ReadOf(0)

\* service_pane: at most one read and one write.
Service ==
    /\ pc = "service" /\ Goes("close")
    /\ LET read == Read
           p == read.pane
           writes == ready.write /\ ready.writable /\ ~p.eof /\ ~p.status
           w == WriteTo(p)
       IN  IF place # "shown" THEN UNCHANGED <<os, pane, drawn>>
           ELSE /\ pane' = IF writes THEN [p EXCEPT !.queue = w.rest] ELSE p
                /\ os' = [os EXCEPT !.pipe = Taken(read.taken),
                                    !.tty = IF writes THEN w.tty ELSE @]
                /\ drawn' = (drawn /\ read.taken = 0)
    /\ ready' = NotPolled
    /\ UNCHANGED <<inc, place, view, alone, retain, closing, frame, server, keyed>>
-----------------------------------------------------------------------------
Turn == Close \/ Observe \/ ServeHidden \/ Frame \/ RemoveFinished \/ Keys \/ Poll \/ Service
Environment == ChildWrites \/ HolderWrites \/ ChildMoves \/ ChildExits \/ HolderExits
\* The steps between "hidden" and "poll" look at nothing the environment changes: what
\* it does in between may as well be done at "poll".
EnvironmentMoves ==
    /\ pc \in {"close", "observe", "poll", "service"} /\ server = "runs" /\ place # "gone"
    /\ Environment
Next == Turn \/ EnvironmentMoves \/ ClientTakes
Spec == Init /\ [][Next]_vars

\* The loop goes round, and the client takes what it is sent.
FairSpec == Spec /\ WF_vars(Turn) /\ WF_vars(ClientTakes)
-----------------------------------------------------------------------------
TypeOK ==
    /\ os \in [alive : BOOLEAN, open : BOOLEAN, holder : BOOLEAN,
               pipe : Seq({"text", "query", "begin", "end", "noise"}),
               tty : 0 .. TtyLimit, wrote : 0 .. MaxWrites]
    /\ pane \in [eof : BOOLEAN, status : BOOLEAN, queue : Seq({"key", "reply"} \X Nat),
                 dirty : BOOLEAN, sync : BOOLEAN]
    /\ view \in {"active", "background", "detached", "dropped"}
    /\ server \in {"runs", "exited", "close failed", "lingering"}

\* The pane's output is at its end only when everything its own process wrote was
\* read: the exit of the process, noticed first, does not cut its last words, and a
\* background job that keeps the terminal open adds nothing that had to be waited for.
LastWordsAreRead ==
    place = "shown" /\ pane.eof => \A i \in 1 .. Len(os.pipe) : os.pipe[i] = "noise"

\* What waits to be written to a process was typed for that process while its pane
\* was shown: a respawned one, and the shell hidden for the undo, get no old keys.
KeysAreForThisProcess ==
    \A i \in 1 .. Len(pane.queue) :
        /\ pane.queue[i][2] = inc
        /\ place = "hidden" => pane.queue[i][1] = "reply"

\* However many questions one read holds, the answers fit the input queue.
AnswersFit == Len(pane.queue) <= QueueLimit

\* A pane that ended by itself in front of the user is removed only once a frame with
\* everything it said has been taken by the client.
LastFrameIsShown ==
    place = "shown" /\ view = "active" /\ pc = "remove"
        /\ (place' = "gone" \/ server' = "exited")
    => drawn /\ ~frame

\* Closing a pane neither throws the client out nor ends the session, whenever the shell
\* of the pane ends ("A target that exits naturally during confirmation follows ordinary
\* exit handling", docs/reference/interactive-splits.md:239).
CloseSurvivesExit == view # "dropped" /\ server # "close failed"

\* A process that ended is acted on: its pane is removed, retained with all its
\* output, or respawned, although a background job still holds its terminal.
Ended == ~os.alive
Settled ==
    \/ place = "gone" \/ server # "runs" \/ os.alive
    \/ place = "shown" /\ pane.eof /\ pane.status
=============================================================================
