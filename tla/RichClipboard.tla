----------------------------- MODULE RichClipboard -----------------------------
(***************************************************************************)
(* The relay of OSC 5522 clipboard transactions between the panes and the    *)
(* outer terminal (rich_clipboard.rs and rich_clipboard/write.rs), as the    *)
(* event loop drives it.                                                     *)
(*                                                                         *)
(* Owners are pane processes.  A request is a number; `got` is the history   *)
(* of the statuses its process was sent.  The outer terminal may answer      *)
(* anything at any time; it commits a write when it reads its end packet.    *)
(* Of a write only the count of its data packets is kept.  The child's own   *)
(* queue takes an entry at a time, and not always.                           *)
(***************************************************************************)
EXTENDS Integers, Sequences, FiniteSets, SequencesExt

CONSTANTS
    Owners,         \* pane processes over time
    Capacity,       \* LIMIT: packets the queue to the terminal takes
    MaxRequests, MaxData, MaxAnswers, MaxPending    \* bounds

None == 0

Requests == 1..MaxRequests
Reads == {"OK", "DATA", "DONE"}
Errors == {"EPERM", "EBUSY", "EINVAL"}
Final == Errors \cup {"DONE"}
Kinds == {"read", "write"}

VARIABLES
    live,           \* the processes that accept input
    enabled,        \* the kinds the configuration permits
    lease,          \* Router.lease
    pending,        \* Router.pending: what goes to the panes
    outer,          \* the queue to the terminal
    host,           \* the terminal: its staging and what it committed
    owner, got,     \* request -> its process, the statuses it was sent
    full,           \* request -> the data packets of its complete write
    cut             \* the requests whose answer a cancel dropped

vars == <<live, enabled, lease, pending, outer, host, owner,
          got, full, cut>>

NoLease == [req |-> None, kind |-> "read", started |-> FALSE, finished |-> FALSE,
            state |-> "collecting", data |-> 0, sent |-> 0]
NoStage == [req |-> None, data |-> 0]

Init ==
    /\ live = Owners
    /\ enabled = Kinds
    /\ lease = NoLease
    /\ pending = << >>
    /\ outer = << >>
    /\ host = [stage |-> NoStage, committed |-> {}]
    /\ owner = [r \in Requests |-> None]
    /\ got = [r \in Requests |-> << >>]
    /\ full = [r \in Requests |-> -1]
    /\ cut = {}

Leased == lease.req # None
Writing == Leased /\ lease.kind = "write"
Collecting == Writing /\ lease.state = "collecting"
Entry(r, status, delivery) ==
    [owner |-> owner[r], req |-> r, status |-> status, delivery |-> delivery]
Local(r, status) == Entry(r, status, "local")
Packet(type, r, n) == [type |-> type, req |-> r, n |-> n]

\* Transaction::abort: never an end packet, which would commit.
Abort(l) == IF l.kind = "write" /\ l.state = "relaying" /\ l.started
            THEN <<Packet("abort", l.req, 0)>> ELSE << >>

\* fail_write: what the lease still had queued gives way to the error.
WithoutWrites(q, o) ==
    SelectSeq(q, LAMBDA e : ~(e.owner = o /\ e.delivery = "write"))

FailedWrite(status) ==
    /\ lease' = NoLease
    /\ outer' = outer \o Abort(lease)
    /\ pending' = Append(WithoutWrites(pending, owner[lease.req]),
                         Local(lease.req, status))

Fresh(o) == CHOOSE r \in Requests :
    owner[r] = None /\ \A q \in 1..(r - 1) : owner[q] # None
CanAsk == \E r \in Requests : owner[r] = None

-----------------------------------------------------------------------------
(* The panes.  The loop takes what a process wrote and hands it on at once. *)

Lease(r, kind) == [NoLease EXCEPT !.req = r, !.kind = kind]

\* Observer::advance and Router::request for a new transaction.
Asks(o, kind) ==
    LET r == Fresh(o)
        reply == [Local(r, "EBUSY") EXCEPT !.owner = o]
        own == kind = "write" /\ Collecting /\ owner[lease.req] = o
        behind == IF own THEN Append(WithoutWrites(pending, o), Local(lease.req, "EBUSY"))
                  ELSE pending
    IN
    /\ o \in live
    /\ CanAsk
    /\ owner' = [owner EXCEPT ![r] = o]
    /\ IF kind \notin enabled
       THEN /\ got' = [got EXCEPT ![r] = <<"EPERM">>]
            /\ UNCHANGED <<lease, pending, outer>>
       ELSE /\ UNCHANGED got
            /\ IF \/ Leased /\ ~own
                  \/ kind = "read" /\ Len(outer) >= Capacity
               THEN /\ pending' = Append(behind, reply)
                    /\ UNCHANGED <<lease, outer>>
               ELSE /\ lease' = Lease(r, kind)
                    /\ pending' = behind
                    /\ outer' = IF kind = "read"
                                THEN Append(outer, Packet("read", r, 0)) ELSE outer
    /\ UNCHANGED <<live, enabled, host, full, cut>>

\* A wdata packet: more data, the end, or one that is not accepted.
Continues(o, what) ==
    /\ o \in live /\ Collecting /\ owner[lease.req] = o
    /\ CASE what = "data" ->
                   /\ lease.data < MaxData
                   /\ lease' = [lease EXCEPT !.data = @ + 1]
                   /\ UNCHANGED <<pending, outer, full>>
              [] what = "end" ->
                   /\ lease' = [lease EXCEPT !.state = "relaying"]
                   /\ full' = [full EXCEPT ![lease.req] = lease.data]
                   /\ UNCHANGED <<pending, outer>>
              [] OTHER -> FailedWrite("EINVAL") /\ UNCHANGED full
    /\ UNCHANGED <<live, enabled, host, owner, got, cut>>

\* The process ends, or its pane is hidden, closed or respawned: forget.
Ends(o) ==
    LET mine == Leased /\ owner[lease.req] = o IN
    /\ o \in live
    /\ live' = live \ {o}
    /\ lease' = IF mine THEN NoLease ELSE lease
    /\ outer' = IF mine THEN outer \o Abort(lease) ELSE outer
    /\ pending' = SelectSeq(pending, LAMBDA e : e.owner # o)
    /\ UNCHANGED <<enabled, host, owner, got, full, cut>>

\* The process is gone before the loop hears of it.
Dies(o) ==
    /\ o \in live
    /\ live' = live \ {o}
    /\ UNCHANGED <<enabled, lease, pending, outer, host, owner, got, full, cut>>

-----------------------------------------------------------------------------
(* The loop. *)

Permitted(e, kinds) == CASE e.delivery = "local" -> TRUE
                         [] e.delivery = "write" -> "write" \in kinds
                         [] OTHER -> "read" \in kinds

\* tick: the lease ends with its process, its permission or its time.
TakesLease(kinds, expired) ==
    Leased /\ ( \/ owner[lease.req] \notin live
                \/ lease.kind \notin kinds
                \/ ~lease.finished /\ expired )

Ticked(kinds, expired) ==
    LET kept == SelectSeq(pending, LAMBDA e : Permitted(e, kinds))
        alive == Leased /\ owner[lease.req] \in live
        status == IF lease.kind \in kinds THEN "EBUSY" ELSE "EPERM"
    IN  IF TakesLease(kinds, expired)
        THEN /\ lease' = NoLease
             /\ outer' = outer \o Abort(lease)
             /\ pending' = IF alive THEN Append(kept, Local(lease.req, status))
                           ELSE kept
        ELSE /\ pending' = kept
             /\ UNCHANGED <<lease, outer>>

Tick(expired) ==
    /\ Ticked(enabled, expired)
    /\ UNCHANGED <<live, enabled, host, owner, got, full, cut>>

\* A reload: the observers drop what they were in, and the loop ticks.
Reloads(kinds) ==
    /\ kinds # enabled
    /\ enabled' = kinds
    /\ Ticked(kinds, FALSE)
    /\ UNCHANGED <<live, host, owner, got, full, cut>>

\* Router::drain, one entry at a time; the answer out, the lease is free.
Drains ==
    LET e == Head(pending)
        rest == Tail(pending)
        waits == \E i \in DOMAIN rest : /\ rest[i].owner = owner[lease.req]
                                        /\ rest[i].delivery \in Kinds
    IN
    /\ pending # << >>
    /\ pending' = rest
    /\ got' = IF e.owner \in live
              THEN [got EXCEPT ![e.req] = Append(@, e.status)] ELSE got
    /\ lease' = IF Leased /\ lease.finished /\ ~waits THEN NoLease ELSE lease
    /\ UNCHANGED <<live, enabled, outer, host, owner, full, cut>>

\* Router::pump: one packet of a complete write.
Pumps ==
    /\ Writing /\ lease.state = "relaying" /\ ~lease.finished
    /\ Len(outer) < Capacity
    /\ IF ~lease.started
       THEN /\ outer' = Append(outer, Packet("begin", lease.req, 0))
            /\ lease' = [lease EXCEPT !.started = TRUE]
       ELSE IF lease.sent < lease.data
       THEN /\ outer' = Append(outer, Packet("data", lease.req, lease.sent + 1))
            /\ lease' = [lease EXCEPT !.sent = @ + 1]
       ELSE /\ outer' = Append(outer, Packet("end", lease.req, 0))
            /\ lease' = [lease EXCEPT !.state = "ended"]
    /\ UNCHANGED <<live, enabled, pending, host, owner, got, full, cut>>

\* Router::cancel, at a detach or an explicit copy from History.
Cancels ==
    /\ lease' = NoLease
    /\ outer' = outer \o Abort(lease)
    /\ pending' = << >>
    /\ got' = IF Leased /\ owner[lease.req] \in live
              THEN [got EXCEPT ![lease.req] = Append(@, "EBUSY")] ELSE got
    /\ cut' = cut \cup {e.req : e \in Range(pending)}
    /\ UNCHANGED <<live, enabled, host, owner, full>>

-----------------------------------------------------------------------------
(* The outer terminal. *)

\* response: only an answer to the active request, under its own id.
Matches(r, kind) == Leased /\ ~lease.finished /\ r = lease.req /\ kind = lease.kind

\* The statuses the lease accepts now.
Accepts(status) ==
    IF lease.kind = "write"
    THEN lease.started /\ (status \in Errors \/ (status = "DONE" /\ lease.state = "ended"))
    ELSE \/ status = "OK" /\ ~lease.started
         \/ status \in {"DATA", "DONE"} /\ lease.started
         \/ status \in Errors \ {"EINVAL"}

Answers(r, kind, status) ==
    /\ owner[r] # None
    /\ Matches(r, kind) /\ Accepts(status)
    /\ status = "DATA" => Len(got[lease.req]) + Len(pending) < MaxAnswers
    /\ lease' = [lease EXCEPT
          !.started = TRUE,
          !.finished = status \in Final,
          !.state = IF kind = "write" THEN "ended" ELSE @]
    /\ pending' = Append(pending, Entry(lease.req, status, kind))
    /\ UNCHANGED <<live, enabled, outer, host, owner, got, full, cut>>

HostReads ==
    LET p == Head(outer)
        mine == host.stage.req = p.req IN
    /\ outer # << >>
    /\ outer' = Tail(outer)
    /\ host' = CASE p.type = "begin" -> [host EXCEPT !.stage = [req |-> p.req, data |-> 0]]
                 [] p.type = "data" /\ mine -> [host EXCEPT !.stage.data = @ + 1]
                 [] p.type = "abort" /\ mine -> [host EXCEPT !.stage = NoStage]
                 [] p.type = "end" /\ mine ->
                       [host EXCEPT !.stage = NoStage,
                                    !.committed = @ \cup {host.stage}]
                 [] OTHER -> host
    /\ UNCHANGED <<live, enabled, lease, pending, owner, got, full, cut>>

Next ==
    \/ \E o \in Owners, kind \in Kinds : Asks(o, kind)
    \/ \E o \in Owners, what \in {"data", "end", "malformed"} : Continues(o, what)
    \/ \E o \in Owners : Ends(o) \/ Dies(o)
    \/ \E expired \in BOOLEAN : Tick(expired)
    \/ \E kinds \in SUBSET Kinds : Reloads(kinds)
    \/ Drains \/ Pumps \/ Cancels
    \/ \E r \in Requests, kind \in Kinds, status \in Reads \cup Errors :
          Answers(r, kind, status)
    \/ HostReads

\* Bound on what waits for the panes.
Bounded == Len(pending) <= MaxPending

Spec == Init /\ [][Next]_vars

-----------------------------------------------------------------------------
(* Properties. *)

\* What was sent for a request or is waiting, in order.
Statuses(r) ==
    LET own == SelectSeq(pending, LAMBDA e : e.req = r)
    IN  got[r] \o [i \in 1..Len(own) |-> own[i].status]

\* A pane application gets one final answer to a request and nothing after it,
\* whatever the terminal answers late; and no request is lost: it has its
\* answer, or the lease is its own (only a detach or a copy from History drops
\* an answer that waits).
AnsweredOnce == \A r \in Requests :
    LET s == Statuses(r)
        mine == Leased /\ lease.req = r
    IN
    /\ \A i \in DOMAIN s : s[i] \in Final => i = Len(s)
    /\ mine /\ ~lease.finished => \A i \in DOMAIN s : s[i] \notin Final
    /\ owner[r] \in live /\ r \notin cut =>
           mine \/ (s # << >> /\ s[Len(s)] \in Final)

\* The clipboard changes only by a whole write: a cancelled, failed or timed
\* out one leaves nothing of it.
CommitsWhole == \A c \in host.committed : c.data = full[c.req]
=============================================================================
