--------------------------- MODULE SnapshotService ---------------------------
(***************************************************************************)
(* Saving a named session: src/session/snapshot.rs and the file protocol   *)
(* of src/persistence.rs.                                                  *)
(*                                                                         *)
(* Four parties run concurrently: the event loop of the server, whose tick *)
(* accepts, reads, captures, starts the writer and answers; the writer     *)
(* thread; the processes that ask for a save; and the file system, which   *)
(* after a power failure may show the directory as it was at its last sync,*)
(* and a file whose data was not synced torn.                              *)
(* The event loop is single-threaded: tick and finish are sequences of     *)
(* phases that the other parties interleave with.                          *)
(*                                                                         *)
(* The workspace is a number that grows with every change.                 *)
(***************************************************************************)
EXTENDS Naturals, FiniteSets, TLC, TLAPS

CONSTANTS
    Requesters,  \* processes that ask for saves
    MaxClients,  \* MAX_CLIENTS, also the number of accepts of a tick
    MaxVersion,  \* bound on the changes of the workspace
    Autosave,    \* autosave_interval_seconds > 0
    None

ASSUME ServiceAssumption ==
    /\ IsFiniteSet(Requesters)
    /\ MaxClients \in Nat \ {0}
    /\ MaxVersion \in Nat
    /\ Autosave \in BOOLEAN
    /\ None \notin Nat

VARIABLES
    pc,          \* phase of the event loop
    stopping,    \* the loop has ended; finish and Drop remain
    content,     \* the workspace of the session, or the one to restore
    pending,     \* captured workspace that waits for the writer, or None
    writing,     \* workspace of the writer thread, or None
    worker,      \* progress of the writer thread
    lastError,   \* workspace whose save failed last, or None
    failed,      \* a save has failed since finish began
    at,          \* where the server's end of every connection is
    cpc,         \* control of every requester
    asked,       \* workspace of the session when the request was written, or None
    visible,     \* workspace in NAME.toml
    synced,      \* whether the data of the temporary file and of NAME.toml is on disk
    stored,      \* workspace in NAME.toml after a power failure now
    promised     \* newest workspace acknowledged with OK

service == <<pc, stopping, content>>
saving  == <<pending, writing, worker, lastError, failed>>
peers   == <<at, cpc, asked, promised>>
disk    == <<visible, synced, stored>>
vars    == <<service, saving, peers, disk>>

Phases ==
    {"idle", "poll", "send", "accept", "read", "start",     \* tick
     "checkpoint", "wait", "restart", "flush",              \* finish
     "drop", "down"}

\* Requests, clients of the two saves, and replies; "ok" and "error" are in the
\* requester's socket buffer, "closed" is the end of file alone.
Held    == {"request", "pending", "running", "ok_reply", "error_reply"}
Replies == {"ok_reply", "error_reply"}
Places  == {"none", "backlog", "ok", "error", "closed"} \cup Held

Versions == 0 .. MaxVersion

TypeOK ==
    /\ pc \in Phases /\ stopping \in BOOLEAN
    /\ content \in Versions
    /\ pending \in Versions \cup {None}
    /\ writing \in Versions \cup {None}
    /\ worker \in {"none", "write", "written", "flushed", "renamed", "done", "failed"}
    /\ lastError \in Versions \cup {None} /\ failed \in BOOLEAN
    /\ at \in [Requesters -> Places]
    /\ cpc \in [Requesters -> {"idle", "open", "waiting", "gone"}]
    /\ asked \in [Requesters -> Versions \cup {None}]
    /\ visible \in Versions /\ stored \in Versions /\ promised \in Versions
    /\ synced \in [temporary : BOOLEAN, named : BOOLEAN]

Init ==
    /\ pc = "idle" /\ stopping = FALSE /\ content = 0
    /\ pending = None /\ writing = None /\ worker = "none"
    /\ lastError = None /\ failed = FALSE
    /\ at = [c \in Requesters |-> "none"]
    /\ cpc = [c \in Requesters |-> "idle"]
    /\ asked = [c \in Requesters |-> None]
    /\ visible = 0 /\ stored = 0 /\ promised = 0
    /\ synced = [temporary |-> FALSE, named |-> TRUE]

-----------------------------------------------------------------------------
(* Helpers.                                                                *)

At(place) == {c \in Requesters : at[c] = place}

Move(set, place) == [c \in Requesters |-> IF c \in set THEN place ELSE at[c]]

\* client_count.
ClientCount == Cardinality({c \in Requesters : at[c] \in Held})

Larger(m, n) == IF m < n THEN n ELSE m
Smaller(m, n) == IF m < n THEN m ELSE n

Serving(c) == cpc[c] \in {"open", "waiting"}

Goto(label) == pc' = label /\ UNCHANGED <<stopping, content>>

\* complete: the result becomes the reply of every client of that save.
Answer(set, ok) == Move(set, IF ok THEN "ok_reply" ELSE "error_reply")

Complete(set, version, ok) ==
    /\ at' = Answer(set, ok)
    /\ lastError' = IF ok THEN None ELSE version
    /\ failed' = (failed \/ ~ok)
    /\ UNCHANGED <<cpc, asked, promised>>

-----------------------------------------------------------------------------
(* The requesters: save_session_inner.                                     *)

\* connect(2) succeeds while the listener exists, busy or not.
Connect(c) ==
    /\ cpc[c] = "idle" /\ pc # "down"
    /\ cpc' = [cpc EXCEPT ![c] = "open"]
    /\ at' = [at EXCEPT ![c] = "backlog"]
    /\ UNCHANGED <<service, saving, asked, promised, disk>>

Ask(c) ==
    /\ cpc[c] = "open"
    /\ cpc' = [cpc EXCEPT ![c] = "waiting"]
    /\ asked' = [asked EXCEPT ![c] = content]
    /\ UNCHANGED <<service, saving, at, promised, disk>>

Close(c) ==
    /\ cpc' = [cpc EXCEPT ![c] = "idle"]
    /\ at' = [at EXCEPT ![c] = "none"]
    /\ asked' = [asked EXCEPT ![c] = None]

\* Only the exact reply OK is a success.
ReadReply(c) ==
    /\ cpc[c] = "waiting" /\ at[c] \in {"ok", "error", "closed"}
    /\ promised' = IF at[c] = "ok" THEN Larger(promised, asked[c]) ELSE promised
    /\ Close(c)
    /\ UNCHANGED <<service, saving, disk>>

\* The write fails, the acknowledgement times out, or the process is killed.
GiveUp(c) ==
    /\ Serving(c)
    /\ cpc' = [cpc EXCEPT ![c] = "gone"]
    /\ UNCHANGED <<service, saving, at, asked, promised, disk>>

\* The server has let go of an abandoned connection: its end may start anew.
Forget(c) ==
    /\ cpc[c] = "gone" /\ at[c] \notin Held \cup {"backlog"}
    /\ Close(c)
    /\ UNCHANGED <<service, saving, promised, disk>>

-----------------------------------------------------------------------------
(* The writer thread: persistence::save.                                   *)

\* The snapshot is valid, and a new temporary file holds it.
WorkerWrite ==
    /\ worker = "write" /\ worker' = "written"
    /\ synced' = [synced EXCEPT !.temporary = FALSE]
    /\ UNCHANGED <<service, pending, writing, lastError, failed, peers, visible, stored>>

\* sync_all.
WorkerFlush ==
    /\ worker = "written" /\ worker' = "flushed"
    /\ synced' = [synced EXCEPT !.temporary = TRUE]
    /\ UNCHANGED <<service, pending, writing, lastError, failed, peers, visible, stored>>

\* The rename replaces the file and what is known of its data.
Rename ==
    /\ visible' = writing
    /\ synced' = [temporary |-> FALSE, named |-> synced.temporary]
    /\ UNCHANGED <<service, pending, writing, lastError, failed, peers, stored>>

\* Mutant: the temporary file need not be synced before it is renamed.
WorkerPersistUnsynced ==
    worker \in {"written", "flushed"} /\ worker' = "renamed" /\ Rename

\* Mutant: the save ends with the rename, before the directory is synced.
WorkerPersistLast ==
    worker = "flushed" /\ worker' = "done" /\ Rename

WorkerPersist ==
    worker = "flushed" /\ worker' = "renamed" /\ Rename

WorkerSyncDirectory ==
    /\ worker = "renamed" /\ worker' = "done"
    /\ stored' = visible
    /\ UNCHANGED <<service, pending, writing, lastError, failed, peers, visible,
                   synced>>

\* An error of any step, or a panic.
WorkerFails ==
    /\ worker \in {"write", "written", "flushed", "renamed"} /\ worker' = "failed"
    /\ UNCHANGED <<service, pending, writing, lastError, failed, peers, disk>>

-----------------------------------------------------------------------------
(* The event loop.                                                         *)

\* Anything between two ticks that changes the workspace.
Edit ==
    /\ pc = "idle" /\ content < MaxVersion
    /\ content' = content + 1
    /\ UNCHANGED <<pc, stopping, saving, peers, disk>>

Tick ==
    /\ pc = "idle" /\ Goto("poll")
    /\ UNCHANGED <<saving, peers, disk>>

\* poll_worker once the writer has ended.
Join ==
    /\ worker \in {"done", "failed"}
    /\ Complete(At("running"), writing, worker = "done")
    /\ worker' = "none" /\ writing' = None
    /\ UNCHANGED <<pending, disk>>

Poll ==
    /\ pc = "poll" /\ Goto("send")
    /\ \/ Join
       \/ worker \notin {"done", "failed"} /\ UNCHANGED <<saving, peers, disk>>

\* send_replies: a reply is written, kept for the next tick, or dropped after
\* two seconds or when the peer has gone.
SendReplies ==
    \E sent \in SUBSET {c \in Requesters : at[c] \in Replies /\ Serving(c)} :
      \E kept \in SUBSET ({c \in Requesters : at[c] \in Replies} \ sent) :
        /\ at' = [c \in Requesters |->
                    IF at[c] \notin Replies \/ c \in kept THEN at[c]
                    ELSE IF c \notin sent THEN "closed"
                    ELSE IF at[c] = "ok_reply" THEN "ok" ELSE "error"]
        /\ UNCHANGED <<cpc, asked, promised>>

Send ==
    /\ pc = "send" /\ Goto("accept")
    /\ SendReplies
    /\ UNCHANGED <<saving, disk>>

\* At most MAX_CLIENTS connections of the backlog, of which those are kept
\* that there is room for.
Accept ==
    /\ pc = "accept" /\ Goto("read")
    /\ \E taken \in SUBSET At("backlog") : \E kept \in SUBSET taken :
         /\ Cardinality(taken) = Smaller(MaxClients, Cardinality(At("backlog")))
         /\ Cardinality(kept)
              = Smaller(Cardinality(taken),
                        IF ClientCount < MaxClients THEN MaxClients - ClientCount ELSE 0)
         /\ at' = [c \in Requesters |-> IF c \in kept THEN "request"
                                        ELSE IF c \in taken THEN "closed" ELSE at[c]]
    /\ UNCHANGED <<saving, cpc, asked, promised, disk>>

\* queue: a capture replaces the pending one and inherits its clients; a
\* failed capture leaves it alone.
Queue(ready, dropped) ==
    \/ /\ pending' = content
       /\ at' = [c \in Requesters |-> IF c \in ready THEN "pending"
                                      ELSE IF c \in dropped THEN "closed" ELSE at[c]]
       /\ UNCHANGED <<writing, worker, lastError, failed, cpc, asked, promised>>
    \/ /\ at' = [c \in Requesters |-> IF c \in ready THEN "error_reply"
                                      ELSE IF c \in dropped THEN "closed" ELSE at[c]]
       /\ lastError' = content /\ failed' = TRUE
       /\ UNCHANGED <<pending, writing, worker, cpc, asked, promised>>

\* Mutant: a connection that sends nothing is kept for good.
ReadNoDeadline ==
    /\ pc = "read" /\ Goto("start")
    /\ LET ready == {c \in At("request") : asked[c] # None}
           left == {c \in At("request") \ ready : cpc[c] = "gone"} IN
       \/ (ready # {} \/ Autosave) /\ Queue(ready, left)
       \/ ready = {} /\ at' = Move(left, "closed")
            /\ UNCHANGED <<saving, cpc, asked, promised>>
    /\ UNCHANGED disk

\* The requests that have arrived are queued; a connection that sent nothing
\* is kept for two seconds.  Without a request an autosave may be due.
Read ==
    /\ pc = "read" /\ Goto("start")
    /\ LET ready == {c \in At("request") : asked[c] # None} IN
       \E dropped \in SUBSET (At("request") \ ready) :
         /\ \A c \in At("request") \ ready : cpc[c] = "gone" => c \in dropped
         /\ \/ (ready # {} \/ Autosave) /\ Queue(ready, dropped)
            \/ ready = {} /\ at' = Move(dropped, "closed")
               /\ UNCHANGED <<saving, cpc, asked, promised>>
    /\ UNCHANGED disk

\* start_pending.
StartPending ==
    \/ /\ writing = None /\ pending # None
       /\ writing' = pending /\ worker' = "write"
       /\ at' = Move(At("pending"), "running")
       /\ UNCHANGED <<lastError, failed, cpc, asked, promised>>
    \/ /\ writing = None /\ pending # None      \* no thread can be spawned
       /\ Complete(At("pending"), pending, FALSE)
       /\ UNCHANGED <<writing, worker>>
    \/ /\ writing # None \/ pending = None
       /\ UNCHANGED <<writing, worker, lastError, failed, peers>>

\* What StartPending leaves in the queue.
Dequeue == pending' = IF writing = None THEN None ELSE pending

Start ==
    /\ pc = "start" /\ Goto("idle")
    /\ StartPending /\ Dequeue
    /\ UNCHANGED disk

-----------------------------------------------------------------------------
(* serve_inner calls finish(true) when a client has detached, and when the *)
(* loop has ended.                                                         *)

Finish(end) ==
    /\ pc = "idle" /\ pc' = "checkpoint"
    /\ stopping' = end
    /\ failed' = FALSE
    /\ UNCHANGED <<content, pending, writing, worker, lastError, peers, disk>>

Detach == Finish(FALSE)
Stop   == Finish(TRUE)

Checkpoint ==
    /\ pc = "checkpoint" /\ Goto("wait")
    /\ \/ Autosave /\ Queue({}, {})
       \/ ~Autosave /\ UNCHANGED <<saving, peers>>
    /\ UNCHANGED disk

\* poll_worker(true) joins the writer, then the next one starts, if any.
Wait ==
    /\ pc = "wait" /\ Goto("restart")
    /\ \/ Join
       \/ worker = "none" /\ UNCHANGED <<saving, peers, disk>>

\* Mutant: finish waits for one writer, not for the one it starts.
StartNextAndLeave ==
    /\ pc = "restart"
    /\ StartPending /\ Dequeue
    /\ Goto("flush")
    /\ UNCHANGED disk

StartNext ==
    /\ pc = "restart"
    /\ StartPending /\ Dequeue
    /\ Goto(IF writing' = None THEN "flush" ELSE "wait")
    /\ UNCHANGED disk

Flush ==
    /\ pc = "flush" /\ Goto(IF stopping THEN "drop" ELSE "idle")
    /\ SendReplies
    /\ UNCHANGED <<saving, disk>>

-----------------------------------------------------------------------------
(* The end of the service, and its next start.                             *)

\* All connections end; what has been sent can still be read.
Hangup == Move({c \in Requesters : at[c] \in Held \cup {"backlog"}}, "closed")

\* The process has ended: the next server restores what NAME.toml holds.
Gone ==
    /\ pc' = "down" /\ stopping' = FALSE
    /\ pending' = None /\ writing' = None /\ worker' = "none"
    /\ lastError' = None /\ failed' = FALSE

\* Drop sends what it can once more; finish has left no save to wait for.
Drop ==
    /\ pc = "drop"
    /\ \E sent \in SUBSET {c \in Requesters : at[c] \in Replies /\ Serving(c)} :
         at' = [c \in Requesters |->
                  IF c \notin sent THEN Hangup[c]
                  ELSE IF at[c] = "ok_reply" THEN "ok" ELSE "error"]
    /\ Gone /\ content' = visible
    /\ UNCHANGED <<cpc, asked, promised, disk>>

\* SIGKILL, a panic or an abort: the writer dies with the process.
Crash ==
    /\ pc # "down" /\ Gone
    /\ at' = Hangup /\ content' = visible
    /\ UNCHANGED <<cpc, asked, promised, disk>>

\* Every process ends, and a rename that has not been synced may be lost.  A file
\* whose data was not on disk when it was renamed may be torn: nothing of what was
\* saved, 0, is left of it.
PowerFailure ==
    /\ visible' \in {visible, stored} \cup (IF synced.named THEN {} ELSE {0})
    /\ stored' = visible' /\ content' = visible'
    /\ synced' = [temporary |-> FALSE, named |-> TRUE]
    /\ Gone
    /\ at' = [c \in Requesters |-> "none"]
    /\ cpc' = [c \in Requesters |-> "idle"]
    /\ asked' = [c \in Requesters |-> None]
    /\ UNCHANGED promised

\* The kernel writes the directory back on its own.
WriteBack ==
    /\ stored # visible /\ stored' = visible
    /\ UNCHANGED <<service, saving, peers, visible, synced>>

\* The name is created again and its snapshot loaded.
Restore ==
    /\ pc = "down" /\ Goto("idle")
    /\ UNCHANGED <<saving, peers, disk>>

-----------------------------------------------------------------------------

Requester(c) ==
    Connect(c) \/ Ask(c) \/ ReadReply(c) \/ GiveUp(c) \/ Forget(c)

Writer ==
    WorkerWrite \/ WorkerFlush \/ WorkerPersist \/ WorkerSyncDirectory \/ WorkerFails

Loop ==
    \/ Poll \/ Send \/ Accept \/ Read \/ Start
    \/ Checkpoint \/ Wait \/ StartNext \/ Flush \/ Drop

Next ==
    \/ \E c \in Requesters : Requester(c)
    \/ Writer \/ Loop
    \/ Edit \/ Tick \/ Detach \/ Stop
    \/ Crash \/ PowerFailure \/ WriteBack \/ Restore

Spec == Init /\ [][Next]_vars

-----------------------------------------------------------------------------
(* Properties.                                                             *)

\* A caller that has read OK will find a workspace at least as new as the one
\* at its request, after any crash or power failure, whatever coalescing,
\* failed captures and later saves there were: a file is synced before it is
\* renamed, and the directory before the reply.
AckIsDurable == promised <= stored

\* At most MAX_CLIENTS connections are retained, over all phases of a save.
RetainedBounded == ClientCount <= MaxClients

\* An orderly shutdown with autosave loses no change, not even by a later power
\* failure, unless a save failed during it: the writes that finish waits for
\* end with the newest capture.
FinalCheckpoint == pc = "drop" /\ Autosave /\ ~failed => stored = content

Durable == INSTANCE DurableSnapshot

DurableSpec == Durable!Spec

-----------------------------------------------------------------------------
(* Liveness.  The event loop polls with a timeout and ticks at least once  *)
(* between two attachments (wait_for_client), so it ticks again and again; *)
(* the writer has a finite amount to do; requests and replies have         *)
(* deadlines of two seconds.                                               *)

Reads(c) == Read /\ at'[c] # "request"

Sends(c) == Send /\ at'[c] \notin Replies

Fairness ==
    /\ WF_vars(Loop) /\ SF_vars(Tick) /\ WF_vars(Writer)
    /\ \A c \in Requesters : SF_vars(Reads(c)) /\ SF_vars(Sends(c))

FairSpec == Spec /\ Fairness

\* No retained connection stays retained: four of them cannot lock everybody
\* else out of saving.
Retained(c) == at[c] \in Held

\* Requesters are alike (for runs of safety properties).
Symmetry == Permutations(Requesters)

-----------------------------------------------------------------------------
(* Proofs for any set of requesters, any limit and any number of changes:  *)
(* an acknowledged workspace is durable, an orderly shutdown loses no      *)
(* change, and saving implements DurableSnapshot.                          *)

(* The inductive invariant.                                                *)

\* On disk, written, captured, live: each workspace is at least as new as the
\* one before it.
Ordered ==
    /\ stored <= visible /\ visible <= content
    /\ writing # None => visible <= writing /\ writing <= content
    /\ pending # None => visible <= pending /\ pending <= content
    /\ writing # None /\ pending # None => writing <= pending

\* What the progress of the writer says of the disk: only a synced file is renamed.
WriterInv ==
    /\ worker = "none" <=> writing = None
    /\ worker \in {"renamed", "done"} => visible = writing
    /\ worker = "done" => stored = writing
    /\ worker = "flushed" => synced.temporary
    /\ synced.named

\* Wherever a request is, the workspace it will be answered with is at least
\* as new as the one it was written for.
RequestOK(c) ==
    /\ at[c] \in {"backlog", "request"} /\ asked[c] # None => asked[c] <= content
    /\ at[c] = "pending" => pending # None /\ asked[c] # None /\ asked[c] <= pending
    /\ at[c] = "running" => writing # None /\ asked[c] # None /\ asked[c] <= writing
    /\ at[c] \in {"ok_reply", "ok"} => asked[c] # None /\ asked[c] <= stored
    /\ cpc[c] = "waiting" => asked[c] # None
    /\ cpc[c] \in {"idle", "open"} => asked[c] = None

RequestInv == \A c \in Requesters : RequestOK(c)

SInv ==
    /\ TypeOK
    /\ Ordered
    /\ WriterInv
    /\ RequestInv
    /\ AckIsDurable

-----------------------------------------------------------------------------
(* One lemma per shared part of a step, one case per action.              *)

\* A capture, or a failed one, for the requests that have arrived.
LEMMA QueueStep ==
    ASSUME SInv, NEW ready \in SUBSET At("request"),
           \A c \in ready : asked[c] # None,
           NEW dropped \in SUBSET (At("request") \ ready),
           Queue(ready, dropped), pc' \in Phases,
           UNCHANGED <<stopping, content, disk>>
    PROVE  SInv'
  <1> USE ServiceAssumption DEF SInv, Queue, At, disk
  <1>a. stopping' \in BOOLEAN /\ failed' \in BOOLEAN
    BY Zenon DEF TypeOK
  <1>b. at' \in [Requesters -> Places]
    BY DEF TypeOK, Places, Held
  <1>1. TypeOK'
    BY SMTT(60), <1>a, <1>b DEF TypeOK, Versions, Phases
  <1>2. Ordered' /\ WriterInv' /\ AckIsDurable'
    BY SMTT(60) DEF TypeOK, Ordered, WriterInv, AckIsDurable, Versions
  <1>3. RequestInv'
    <2> SUFFICES ASSUME NEW c \in Requesters PROVE RequestOK(c)'
      BY DEF RequestInv
    <2> QED
      BY SMTT(60) DEF TypeOK, Ordered, RequestInv, RequestOK, WriterInv, Versions, Places, Held
  <1> QED BY <1>1, <1>2, <1>3


\* The writer has ended, and its clients get their replies.
LEMMA JoinStep ==
    ASSUME SInv, Join, pc' \in Phases, UNCHANGED <<stopping, content>>
    PROVE  SInv'
  <1> USE ServiceAssumption DEF SInv, Join, Complete, Answer, Move, At, disk
  <1>a. stopping' \in BOOLEAN /\ failed' \in BOOLEAN
    BY Zenon DEF TypeOK
  <1>b. at' \in [Requesters -> Places]
    BY DEF TypeOK, Places, Held
  <1>1. TypeOK'
    BY SMTT(60), <1>a, <1>b DEF TypeOK, Versions, Phases
  <1>2. Ordered' /\ WriterInv' /\ AckIsDurable'
    BY SMTT(60) DEF TypeOK, Ordered, WriterInv, AckIsDurable, Versions
  <1>3. RequestInv'
    <2> SUFFICES ASSUME NEW c \in Requesters PROVE RequestOK(c)'
      BY DEF RequestInv
    <2> QED
      BY SMTT(60) DEF TypeOK, RequestInv, RequestOK, WriterInv, Versions, Places, Held
  <1> QED BY <1>1, <1>2, <1>3


\* The pending save starts, fails to start, or waits.
LEMMA DequeueStep ==
    ASSUME SInv, StartPending, Dequeue, pc' \in Phases,
           UNCHANGED <<stopping, content, disk>>
    PROVE  SInv'
  <1> USE ServiceAssumption DEF SInv, StartPending, Dequeue, Complete, Answer, Move, At, disk, peers
  <1>a. stopping' \in BOOLEAN /\ failed' \in BOOLEAN
    BY Zenon DEF TypeOK
  <1>b. at' \in [Requesters -> Places]
    BY DEF TypeOK, Places, Held
  <1>1. TypeOK'
    BY SMTT(60), <1>a, <1>b DEF TypeOK, Versions, Phases
  <1>2. Ordered' /\ WriterInv' /\ AckIsDurable'
    BY SMTT(60) DEF TypeOK, Ordered, WriterInv, AckIsDurable, Versions
  <1>3. RequestInv'
    <2> SUFFICES ASSUME NEW c \in Requesters PROVE RequestOK(c)'
      BY DEF RequestInv
    <2> QED
      BY SMTT(60) DEF TypeOK, RequestInv, RequestOK, WriterInv, Versions, Places, Held
  <1> QED BY <1>1, <1>2, <1>3


\* The process ends and leaves the connections as they are or closed.
LEMMA DropStep ==
    ASSUME SInv, Gone, content' = visible,
           at' \in [Requesters -> Places],
           \A c \in Requesters :
             at'[c] \in Held \cup {"backlog"} \/ at'[c] = "ok"
               => at'[c] = "ok" /\ at[c] \in {"ok", "ok_reply"},
           UNCHANGED <<cpc, asked, promised, disk>>
    PROVE  SInv'
  <1> USE ServiceAssumption DEF SInv, Gone, disk, Held, Places, Phases
  <1>a. stopping' \in BOOLEAN /\ failed' \in BOOLEAN
    BY Zenon DEF TypeOK
  <1>b. at' \in [Requesters -> Places]
    BY DEF TypeOK, Places, Held
  <1>1. TypeOK'
    BY SMTT(60), <1>a, <1>b DEF TypeOK, Versions, Phases
  <1>2. Ordered' /\ WriterInv' /\ AckIsDurable'
    BY SMTT(60) DEF TypeOK, Ordered, WriterInv, AckIsDurable, Versions
  <1>3. RequestInv'
    <2> SUFFICES ASSUME NEW c \in Requesters PROVE RequestOK(c)'
      BY DEF RequestInv
    <2> QED
      BY SMTT(60) DEF TypeOK, RequestInv, RequestOK, WriterInv, Versions, Places, Held
  <1> QED BY <1>1, <1>2, <1>3

LEMMA RequesterPreserves ==
    ASSUME SInv, NEW c \in Requesters, Requester(c)
    PROVE  SInv'
  <1> USE ServiceAssumption DEF SInv, TypeOK, Ordered, WriterInv, RequestInv, RequestOK, AckIsDurable, Versions,
             Phases, Places, Held, Replies, service, saving, peers, disk, Goto, At, Move
  <1>1. CASE Connect(c)
    <2> USE <1>1 DEF Connect
    <2>a. stopping' \in BOOLEAN /\ failed' \in BOOLEAN
      BY Zenon
    <2>1. TypeOK' BY SMTT(60), <2>a
    <2>2. Ordered' /\ WriterInv' /\ AckIsDurable' BY SMTT(60)
    <2>3. RequestInv' BY SMTT(60)
    <2> QED BY <2>1, <2>2, <2>3
  <1>2. CASE Ask(c)
    BY SMTT(60), <1>2 DEF Ask
  <1>3. CASE ReadReply(c)
    BY SMTT(60), <1>3 DEF ReadReply, Close, Larger
  <1>4. CASE GiveUp(c)
    BY SMTT(60), <1>4 DEF GiveUp, Serving
  <1>5. CASE Forget(c)
    BY SMTT(60), <1>5 DEF Forget, Close
  <1> QED BY <1>1, <1>2, <1>3, <1>4, <1>5 DEF Requester

LEMMA WriterPreserves ==
    ASSUME SInv, Writer
    PROVE  SInv'
  <1> USE ServiceAssumption DEF SInv, TypeOK, Ordered, WriterInv, RequestInv, RequestOK, AckIsDurable, Versions,
             Phases, Places, Held, Replies, service, saving, peers, disk, Goto, At, Move
  <1>0. CASE WorkerWrite
    <2> USE <1>0 DEF WorkerWrite
    <2>1. synced' \in [temporary : BOOLEAN, named : BOOLEAN] /\ synced'.named
      BY Zenon
    <2>2. worker' = "flushed" => synced'.temporary
      BY Zenon
    <2>a. stopping' \in BOOLEAN /\ failed' \in BOOLEAN
      BY Zenon
    <2>3. TypeOK' BY SMTT(60), <2>1, <2>a
    <2>4. Ordered' /\ WriterInv' /\ AckIsDurable' BY SMTT(60), <2>1, <2>2
    <2>5. RequestInv' BY SMTT(60)
    <2> QED BY <2>3, <2>4, <2>5
  <1>1. CASE WorkerFlush
    <2> USE <1>1 DEF WorkerFlush
    <2>1. synced' \in [temporary : BOOLEAN, named : BOOLEAN] /\ synced'.named
      BY Zenon
    <2>2. worker' = "flushed" => synced'.temporary
      BY Zenon
    <2>a. stopping' \in BOOLEAN /\ failed' \in BOOLEAN
      BY Zenon
    <2>3. TypeOK' BY SMTT(60), <2>1, <2>a
    <2>4. Ordered' /\ WriterInv' /\ AckIsDurable' BY SMTT(60), <2>1, <2>2
    <2>5. RequestInv' BY SMTT(60)
    <2> QED BY <2>3, <2>4, <2>5
  <1>2. CASE WorkerPersist
    BY SMTT(60), <1>2 DEF WorkerPersist, Rename
  <1>3. CASE WorkerSyncDirectory
    BY SMTT(60), <1>3 DEF WorkerSyncDirectory
  <1>4. CASE WorkerFails
    BY SMTT(60), <1>4 DEF WorkerFails
  <1> QED BY <1>0, <1>1, <1>2, <1>3, <1>4 DEF Writer

LEMMA LoopPreserves ==
    ASSUME SInv, Loop
    PROVE  SInv'
  <1> USE ServiceAssumption DEF SInv, TypeOK, Ordered, WriterInv, RequestInv, RequestOK, AckIsDurable, Versions,
             Phases, Places, Held, Replies, service, saving, peers, disk, Goto, At, Move
  <1>1. CASE Poll
    <2>1. CASE Join BY <1>1, <2>1, JoinStep DEF Poll
    <2>2. CASE UNCHANGED <<saving, peers, disk>>
      BY SMTT(60), <1>1, <2>2 DEF Poll
    <2> QED BY <1>1, <2>1, <2>2 DEF Poll
  <1>2. CASE Send
    BY SMTT(60), <1>2 DEF Send, SendReplies, Serving
  <1>3. CASE Accept
    BY SMTT(60), <1>3 DEF Accept
  <1>4. CASE Read
    <2> DEFINE ready == {c \in At("request") : asked[c] # None}
    <2>1. PICK dropped \in SUBSET (At("request") \ ready) :
            \/ Queue(ready, dropped)
            \/ /\ at' = Move(dropped, "closed")
               /\ UNCHANGED <<saving, cpc, asked, promised>>
      BY <1>4 DEF Read
    <2>2. CASE Queue(ready, dropped)
      BY <1>4, <2>2, QueueStep DEF Read
    <2>3. CASE at' = Move(dropped, "closed") /\ UNCHANGED <<saving, cpc, asked, promised>>
      BY SMTT(60), <1>4, <2>3 DEF Read
    <2> QED BY <2>1, <2>2, <2>3
  <1>5. CASE Start
    BY <1>5, DequeueStep DEF Start
  <1>6. CASE Checkpoint
    <2>1. CASE Queue({}, {})
      BY <1>6, <2>1, QueueStep DEF Checkpoint
    <2>2. CASE UNCHANGED <<saving, peers>>
      BY SMTT(60), <1>6, <2>2 DEF Checkpoint
    <2> QED BY <1>6, <2>1, <2>2 DEF Checkpoint
  <1>7. CASE Wait
    <2>1. CASE Join BY <1>7, <2>1, JoinStep DEF Wait
    <2>2. CASE UNCHANGED <<saving, peers, disk>>
      BY SMTT(60), <1>7, <2>2 DEF Wait
    <2> QED BY <1>7, <2>1, <2>2 DEF Wait
  <1>8. CASE StartNext
    BY <1>8, DequeueStep DEF StartNext
  <1>9. CASE Flush
    BY SMTT(60), <1>9 DEF Flush, SendReplies, Serving
  <1>10. CASE Drop
    <2>1. at' \in [Requesters -> Places] BY <1>10 DEF Drop, Hangup
    <2>2. \A c \in Requesters :
             at'[c] \in Held \cup {"backlog"} \/ at'[c] = "ok"
               => at'[c] = "ok" /\ at[c] \in {"ok", "ok_reply"}
      BY SMTT(60), <1>10 DEF Drop, Hangup
    <2> QED BY ONLY <1>10, <2>1, <2>2, SInv, DropStep DEF Drop
  <1> QED BY <1>1, <1>2, <1>3, <1>4, <1>5, <1>6, <1>7, <1>8, <1>9, <1>10 DEF Loop

LEMMA OtherPreserves ==
    ASSUME SInv, Edit \/ Tick \/ Detach \/ Stop
           \/ Crash \/ PowerFailure \/ WriteBack \/ Restore
    PROVE  SInv'
  <1> USE ServiceAssumption DEF SInv, TypeOK, Ordered, WriterInv, RequestInv, RequestOK, AckIsDurable, Versions,
             Phases, Places, Held, Replies, service, saving, peers, disk, Goto, At, Move
  <1>1. CASE Edit
    <2> USE <1>1 DEF Edit
    <2>a. stopping' \in BOOLEAN /\ failed' \in BOOLEAN
      BY Zenon
    <2>1. TypeOK' BY SMTT(60), <2>a
    <2>2. Ordered' /\ WriterInv' /\ AckIsDurable' BY SMTT(60)
    <2>3. RequestInv' BY SMTT(60)
    <2> QED BY <2>1, <2>2, <2>3
  <1>2. CASE Tick
    BY SMTT(60), <1>2 DEF Tick
  <1>3. CASE Detach
    <2> USE <1>3 DEF Detach, Finish
    <2>a. stopping' \in BOOLEAN /\ failed' \in BOOLEAN
      BY Zenon
    <2>1. TypeOK' BY SMTT(60), <2>a
    <2>2. Ordered' /\ WriterInv' /\ AckIsDurable' BY SMTT(60)
    <2>3. RequestInv' BY SMTT(60)
    <2> QED BY <2>1, <2>2, <2>3
  <1>4. CASE Stop
    <2> USE <1>4 DEF Stop, Finish
    <2>a. stopping' \in BOOLEAN /\ failed' \in BOOLEAN
      BY Zenon
    <2>1. TypeOK' BY SMTT(60), <2>a
    <2>2. Ordered' /\ WriterInv' /\ AckIsDurable' BY SMTT(60)
    <2>3. RequestInv' BY SMTT(60)
    <2> QED BY <2>1, <2>2, <2>3
  <1>5. CASE Crash
    <2>1. at' \in [Requesters -> Places] BY <1>5 DEF Crash, Hangup
    <2>2. \A c \in Requesters :
             at'[c] \in Held \cup {"backlog"} \/ at'[c] = "ok"
               => at'[c] = "ok" /\ at[c] \in {"ok", "ok_reply"}
      BY SMTT(60), <1>5 DEF Crash, Hangup
    <2> QED BY ONLY <1>5, <2>1, <2>2, SInv, DropStep DEF Crash
  <1>6. CASE PowerFailure
    <2> USE <1>6 DEF PowerFailure, Gone
    <2>a. stopping' \in BOOLEAN /\ failed' \in BOOLEAN
      BY Zenon
    <2>1. TypeOK' BY SMTT(60), <2>a
    <2>2. Ordered' /\ WriterInv' /\ AckIsDurable' BY SMTT(60)
    <2>3. RequestInv' BY SMTT(60)
    <2> QED BY <2>1, <2>2, <2>3
  <1>7. CASE WriteBack
    BY SMTT(60), <1>7 DEF WriteBack
  <1>8. CASE Restore
    BY SMTT(60), <1>8 DEF Restore
  <1> QED BY <1>1, <1>2, <1>3, <1>4, <1>5, <1>6, <1>7, <1>8

LEMMA SInitially == Init => SInv
  <1> SUFFICES ASSUME Init PROVE SInv
    OBVIOUS
  <1> USE ServiceAssumption DEF Init
  <1>1. TypeOK
    <2>1. 0 \in Versions BY SMT DEF Versions
    <2> QED BY <2>1 DEF TypeOK, Phases, Places
  <1>2. Ordered /\ WriterInv /\ RequestInv /\ AckIsDurable
    BY DEF Ordered, WriterInv, RequestInv, RequestOK, AckIsDurable
  <1> QED BY <1>1, <1>2 DEF SInv

LEMMA SInductive == SInv /\ [Next]_vars => SInv'
  <1>1. ASSUME SInv, UNCHANGED vars PROVE SInv'
    BY <1>1 DEF vars, SInv, TypeOK, Ordered, WriterInv, RequestInv, RequestOK, AckIsDurable, Versions,
             Phases, Places, Held, Replies, service, saving, peers, disk, Goto, At, Move
  <1> QED BY <1>1, RequesterPreserves, WriterPreserves, LoopPreserves,
             OtherPreserves DEF Next

\* Every reachable state satisfies the inductive invariant.
THEOREM SavingInvariance == Spec => []SInv
  BY SInitially, SInductive, PTL DEF Spec

\* The variables keep their types.
THEOREM SavingTypeCorrect == Spec => []TypeOK
  BY SavingInvariance, PTL DEF SInv

\* Whoever has read OK finds a workspace at least as new as the one it asked
\* to save, after any crash or power failure (tick, persistence::save).
THEOREM AcknowledgedIsDurable == Spec => []AckIsDurable
  BY SavingInvariance, PTL DEF SInv

-----------------------------------------------------------------------------
(* An orderly shutdown.                                                    *)

\* The newest workspace that is on its way to the disk, or there.
Newest == IF pending # None THEN pending ELSE IF writing # None THEN writing ELSE stored

\* What the phases of finish know: from its capture on, the newest save is of the
\* workspace as it is, and no save is left once the loop of the writers ends.
FinishInv ==
    /\ pc \in {"restart", "flush", "drop"} => writing = None
    /\ pc \in {"flush", "drop"} => pending = None
    /\ pc \in {"wait", "restart", "flush", "drop"} /\ Autosave /\ ~failed => Newest = content

\* In finish: a capture, a writer that has ended, and one that starts or cannot.
LEMMA FinishStep ==
    ASSUME SInv, FinishInv, Checkpoint \/ Wait \/ StartNext \/ Flush
    PROVE  FinishInv'
  <1> USE ServiceAssumption DEF SInv, TypeOK, Ordered, WriterInv, Versions, FinishInv, Newest, disk,
             saving, peers, Goto
  <1>1. CASE Checkpoint
    BY <1>1 DEF Checkpoint, Queue
  <1>2. CASE Wait
    BY SMTT(60), <1>2 DEF Wait, Join, Complete
  <1>3. CASE StartNext
    <2>1. /\ pc = "restart" /\ writing = None /\ pending' = None
          /\ pc' = IF writing' = None THEN "flush" ELSE "wait"
          /\ content' = content /\ stored' = stored
      BY <1>3 DEF StartNext, Dequeue
    <2>2. CASE pending # None /\ writing' = pending /\ UNCHANGED failed
      BY SMTT(60), <2>1, <2>2
    <2>3. CASE Complete(At("pending"), pending, FALSE) /\ UNCHANGED writing
      <3>1. failed' /\ writing' = writing
        BY ONLY <2>3, Zenon DEF Complete
      <3> QED BY <2>1, <3>1
    <2>4. CASE pending = None /\ UNCHANGED <<writing, failed>>
      BY SMTT(60), <2>1, <2>4
    <2> QED BY <1>3, <2>1, <2>2, <2>3, <2>4 DEF StartNext, StartPending
  <1>4. CASE Flush
    BY <1>4 DEF Flush
  <1> QED BY <1>1, <1>2, <1>3, <1>4

LEMMA FinishInductive == SInv /\ FinishInv /\ [Next]_vars => FinishInv'
  <1> SUFFICES ASSUME SInv, FinishInv, [Next]_vars PROVE FinishInv'
    OBVIOUS
  <1> USE ServiceAssumption DEF SInv, TypeOK, Ordered, WriterInv, Versions, FinishInv, Newest, disk,
             service, saving, peers, Goto
  <1>1. CASE \E c \in Requesters : Requester(c)
    BY <1>1 DEF Requester, Connect, Ask, ReadReply, GiveUp, Forget
  <1>2. CASE WorkerWrite \/ WorkerFlush \/ WorkerPersist \/ WorkerFails
    BY <1>2 DEF WorkerWrite, WorkerFlush, WorkerPersist, Rename, WorkerFails
  <1>3. CASE WorkerSyncDirectory \/ WriteBack
    BY SMTT(60), <1>3 DEF WorkerSyncDirectory, WriteBack
  <1>4. CASE Poll \/ Send \/ Accept \/ Read \/ Start
    BY <1>4 DEF Poll, Send, Accept, Read, Start
  <1>5. CASE Checkpoint \/ Wait \/ StartNext \/ Flush
    BY <1>5, FinishStep
  <1>6. CASE Edit \/ Tick \/ Detach \/ Stop \/ Restore
    BY <1>6 DEF Edit, Tick, Detach, Stop, Finish, Restore
  <1>7. CASE Drop \/ Crash \/ PowerFailure
    BY <1>7 DEF Drop, Crash, PowerFailure, Gone
  <1>8. CASE UNCHANGED vars
    BY <1>8 DEF vars
  <1> QED BY <1>1, <1>2, <1>3, <1>4, <1>5, <1>6, <1>7, <1>8 DEF Next, Writer, Loop

\* However the last captures and writers overlap, an orderly shutdown with autosave
\* leaves on the disk the workspace the session ended with (finish, start_pending).
THEOREM FinalCheckpointKept == Spec => []FinalCheckpoint
  <1>1. Init => FinishInv
    BY DEF Init, FinishInv
  <1>2. SInv /\ FinishInv => FinalCheckpoint
    BY DEF FinishInv, FinalCheckpoint, Newest
  <1> QED BY <1>1, <1>2, FinishInductive, SavingInvariance, PTL DEF Spec

-----------------------------------------------------------------------------
(* Saving implements DurableSnapshot.                                      *)

\* The versions that both specifications compare are natural numbers, in order.
LEMMA InOrder ==
    ASSUME SInv
    PROVE  /\ content \in Nat /\ stored \in Nat /\ visible \in Nat
           /\ promised \in Nat /\ promised <= stored
           /\ stored <= visible /\ visible <= content
  BY ServiceAssumption DEF SInv, TypeOK, Versions, Ordered, AckIsDurable

LEMMA StepImplements ==
    ASSUME SInv, SInv', Next
    PROVE  [Durable!Next]_Durable!vars
  <1> USE InOrder DEF Durable!Next, Durable!vars, service, disk, peers, saving
  <1>0. /\ content' \in Nat /\ stored' \in Nat /\ promised' \in Nat
        /\ promised' <= stored' /\ stored' <= visible' /\ visible' <= content'
    BY ServiceAssumption DEF SInv, TypeOK, Versions, Ordered, AckIsDurable
  <1>1. CASE UNCHANGED <<content, stored, promised>>
    BY <1>1
  <1>2. ASSUME NEW c \in Requesters, ReadReply(c)
        PROVE  Durable!Acknowledge \/ UNCHANGED <<content, stored, promised>>
    <2>1. CASE at[c] = "ok"
      <3>1. asked[c] \in Nat
        BY <2>1 DEF SInv, RequestInv, RequestOK, TypeOK, Versions
      <3>2. promised <= promised'
        BY <1>2, <2>1, <3>1 DEF ReadReply, Larger
      <3> QED BY <1>0, <1>2, <3>2 DEF ReadReply, Durable!Acknowledge
    <2>2. CASE at[c] # "ok"
      BY <1>2, <2>2 DEF ReadReply
    <2> QED BY <2>1, <2>2
  <1>3. CASE Edit
    BY <1>3, <1>0 DEF Edit, Durable!Edit
  <1>4. CASE WorkerSyncDirectory \/ WriteBack
    BY <1>4, <1>0 DEF WorkerSyncDirectory, WriteBack, Durable!Store
  <1>5. CASE Crash \/ Drop
    BY <1>5, <1>0 DEF Crash, Drop, Durable!Crash
  <1>6. CASE PowerFailure
    <2>1. synced.named
      BY DEF SInv, WriterInv
    <2>2. visible' \in {visible, stored} /\ stored' = visible' /\ content' = visible'
      BY <1>6, <2>1 DEF PowerFailure
    <2> QED BY <1>6, <1>0, <2>2 DEF PowerFailure, Durable!Crash
  <1>7. CASE \E c \in Requesters : Connect(c) \/ Ask(c) \/ GiveUp(c) \/ Forget(c)
    BY <1>7, <1>1 DEF Connect, Ask, GiveUp, Forget
  <1>8. CASE WorkerWrite \/ WorkerFlush \/ WorkerPersist \/ WorkerFails
    BY <1>8, <1>1 DEF WorkerWrite, WorkerFlush, WorkerPersist, Rename, WorkerFails
  <1>9. CASE Poll \/ Send \/ Accept \/ Read \/ Start
    <2>1. Join \/ (\E a, b \in SUBSET Requesters : Queue(a, b)) \/ StartPending
             => promised' = promised
      BY DEF Join, Complete, Queue, StartPending
    <2> QED BY <1>9, <1>1, <2>1
          DEF Poll, Send, SendReplies, Accept, Read, Start, Goto, Join, Queue, At
  <1>10. CASE Checkpoint \/ Wait \/ StartNext \/ Flush
    BY <1>10, <1>1
       DEF Checkpoint, Wait, StartNext, Flush, SendReplies, Goto, Join, Complete,
           Queue, StartPending
  <1>11. CASE Tick \/ Detach \/ Stop \/ Restore
    BY <1>11, <1>1 DEF Tick, Detach, Stop, Finish, Restore, Goto
  <1> QED
    BY <1>2, <1>3, <1>4, <1>5, <1>6, <1>7, <1>8, <1>9, <1>10, <1>11
       DEF Next, Requester, Writer, Loop

\* Tick, finish, the writer and the failures of process and machine implement
\* the promise: what survives is never older than what was acknowledged.
THEOREM SavingImplementsDurable == Spec => DurableSpec
  <1>1. Init => Durable!Init
    BY DEF Init, Durable!Init
  <1>2. SInv /\ SInv' /\ [Next]_vars => [Durable!Next]_Durable!vars
    <2>1. UNCHANGED vars => UNCHANGED Durable!vars
      BY DEF vars, service, disk, peers, Durable!vars
    <2> QED BY <2>1, StepImplements
  <1> QED BY <1>1, <1>2, SavingInvariance, PTL DEF Spec, DurableSpec, Durable!Spec

=============================================================================
