------------------------------ MODULE FileTransfer ------------------------------
(***************************************************************************)
(* The relay of OSC 5113 file transfers between the panes and the outer      *)
(* terminal (file_transfer.rs) as the event loop drives it.                  *)
(*                                                                         *)
(* A transfer is a number; its process and its own id for it are `owner`.    *)
(* `wire` is the history of what was put into the queue to the terminal and  *)
(* `got` of the final statuses a process was sent.  The terminal answers     *)
(* what it likes, about any transfer it was told of.                         *)
(***************************************************************************)
EXTENDS Integers, Sequences, FiniteSets, SequencesExt

CONSTANTS
    Owners,         \* pane processes over time
    MaxSessions,    \* MAX_SESSIONS
    MaxTransfers, MaxPackets, MaxQueue      \* bounds

None == 0

Transfers == 1..MaxTransfers

VARIABLES
    live,           \* the processes that accept input
    transfers,      \* Router.transfers, by number
    outgoing,       \* Router.outgoing: packets for the terminal
    incoming,       \* Router.incoming: packets for the panes
    wire,           \* transfer -> the packets the terminal was sent
    closed,         \* the transfers the terminal itself ended
    owner, got,     \* transfer -> its process, the final statuses it was sent
    data            \* transfer -> data packets its process wrote

vars == <<live, transfers, outgoing, incoming, wire, closed, owner, got, data>>

Out(t, type) == [id |-> t, type |-> type]
\* An entry without an id is a reply of the router itself.
In(t, own, final) == [id |-> IF own THEN None ELSE t, for |-> t, final |-> final]

New == [sent |-> FALSE, finishing |-> FALSE, finishSent |-> FALSE, canceling |-> FALSE]
Active == DOMAIN transfers

\* The transfer has ended.
Drop(t) == [u \in Active \ {t} |-> transfers[u]]

Set(t, r) == [transfers EXCEPT ![t] = r]

Init ==
    /\ live = Owners
    /\ transfers = << >>
    /\ outgoing = << >>
    /\ incoming = << >>
    /\ wire = [t \in Transfers |-> << >>]
    /\ closed = {}
    /\ owner = [t \in Transfers |-> None]
    /\ got = [t \in Transfers |-> 0]
    /\ data = [t \in Transfers |-> 0]

Without(queue, t) == SelectSeq(queue, LAMBDA p : p.id # t)

-----------------------------------------------------------------------------
(* Router::discard, applied to all transfers of a set. *)

\* Mutant: a transfer the terminal was told of is forgotten without a word.
CancelledQuietly(gone) == {}

\* The terminal must hear of the end of a transfer it was told of, except after
\* the finish of the process itself.
Cancelled(gone) ==
    {t \in gone : transfers[t].sent /\ ~transfers[t].finishSent}

Discarded(gone, told, kept) ==
    LET clean(queue) == SelectSeq(queue, LAMBDA p : p.id \notin gone)
        cancels == SetToSeq(Cancelled(gone))
        notes == SetToSeq({t \in gone \cap told : ~transfers[t].finishSent})
    IN
    /\ transfers' = [t \in Active \ gone |-> transfers[t]]
    /\ outgoing' = clean(outgoing) \o [i \in DOMAIN cancels |-> Out(cancels[i], "cancel")]
    /\ incoming' = clean(kept) \o [i \in DOMAIN notes |-> In(notes[i], TRUE, TRUE)]

Rest == UNCHANGED <<wire, closed, owner, got, data>>

-----------------------------------------------------------------------------
(* Router::request. *)

\* send and receive; too many are refused.
Starts(o) == \E t \in Transfers :
    /\ o \in live
    /\ owner[t] = None /\ \A u \in 1..(t - 1) : owner[u] # None
    /\ owner' = [owner EXCEPT ![t] = o]
    /\ IF Cardinality(Active) = MaxSessions
       THEN /\ incoming' = Append(incoming, In(t, TRUE, TRUE))
            /\ UNCHANGED <<transfers, outgoing>>
       ELSE /\ transfers' = [u \in Active \cup {t} |->
                               IF u = t THEN New ELSE transfers[u]]
            /\ outgoing' = Append(outgoing, Out(t, "start"))
            /\ UNCHANGED incoming
    /\ UNCHANGED <<live, wire, closed, got, data>>

Open(t) == t \in Active /\ ~transfers[t].finishing /\ ~transfers[t].canceling

\* file, data and end_data, or finish.
Continues(t, type) ==
    /\ owner[t] \in live /\ Open(t)
    /\ type = "data" => data[t] < MaxPackets
    /\ data' = IF type = "data" THEN [data EXCEPT ![t] = @ + 1] ELSE data
    /\ transfers' = Set(t, [transfers[t] EXCEPT !.finishing = type = "finish"])
    /\ outgoing' = Append(outgoing, Out(t, type))
    /\ UNCHANGED <<live, incoming, wire, closed, owner, got>>

\* The process cancels; a transfer the terminal never saw ends at once.
CancelsOwn(t) ==
    /\ owner[t] \in live /\ Open(t)
    /\ IF transfers[t].sent
       THEN /\ transfers' = Set(t, [transfers[t] EXCEPT !.canceling = TRUE])
            /\ outgoing' = Append(Without(outgoing, t), Out(t, "cancel"))
            /\ incoming' = Without(incoming, t)
       ELSE /\ transfers' = Drop(t)
            /\ outgoing' = Without(outgoing, t)
            /\ incoming' = Append(Without(incoming, t), In(t, TRUE, TRUE))
    /\ UNCHANGED live
    /\ Rest

\* More than a read may hold: everything of the process is given up.
Overflows(o) ==
    LET mine == {t \in Active : owner[t] = o} IN
    /\ o \in live
    /\ mine # {}
    /\ Discarded(mine, mine, SelectSeq(incoming, LAMBDA p : owner[p.for] # o))
    /\ UNCHANGED live
    /\ Rest

-----------------------------------------------------------------------------
(* The loop. *)

\* The process exits; its finished transfers are still sent out.
Dies(o) ==
    /\ o \in live
    /\ live' = live \ {o}
    /\ UNCHANGED <<transfers, outgoing, incoming>>
    /\ Rest

\* Its pane is hidden, closed or respawned: forget.
Leaves(o) ==
    LET mine == {t \in Active : owner[t] = o} IN
    /\ o \in live
    /\ live' = live \ {o}
    /\ Discarded(mine, mine, SelectSeq(incoming, LAMBDA p : owner[p.for] # o))
    /\ Rest

\* tick: transfers without a process or that were idle too long.
Ticks(late) ==
    LET dead(t) == owner[t] \notin live
        tail(t) == /\ dead(t) /\ t \notin late
                   /\ transfers[t].finishing /\ ~transfers[t].finishSent
        gone == {t \in Active : ~tail(t) /\ (dead(t) \/ t \in late)}
    IN
    /\ late \subseteq Active
    /\ Discarded(gone, {t \in gone : ~dead(t)},
                 SelectSeq(incoming, LAMBDA p : owner[p.for] \in live))
    /\ UNCHANGED live
    /\ Rest

\* cancel_all: the policy is turned off or the client detaches.
CancelsAll ==
    /\ Discarded(Active, Active, SelectSeq(incoming, LAMBDA p : p.id = None))
    /\ UNCHANGED live
    /\ Rest

\* pump
Pumps ==
    LET p == Head(outgoing)
        t == p.id
    IN
    /\ outgoing # << >>
    /\ outgoing' = Tail(outgoing)
    /\ wire' = [wire EXCEPT ![t] = Append(@, p.type)]
    /\ transfers' = IF t \notin Active THEN transfers
                    ELSE Set(t, [transfers[t] EXCEPT
                                   !.sent = @ \/ p.type = "start",
                                   !.finishSent = @ \/ p.type = "finish"])
    /\ UNCHANGED <<live, incoming, closed, owner, got, data>>

\* drain
Drains ==
    LET p == Head(incoming) IN
    /\ incoming # << >>
    /\ incoming' = Tail(incoming)
    /\ got' = IF p.final /\ owner[p.for] \in live
              THEN [got EXCEPT ![p.for] = @ + 1] ELSE got
    /\ UNCHANGED <<live, transfers, outgoing, wire, closed, owner, data>>

\* response: the status of a file passes; one of the whole transfer ends it.
\* While a cancel is under way only its confirmation passes.
Answers(t, kind) ==
    /\ t \in Active /\ transfers[t].sent
    /\ kind \in IF transfers[t].canceling THEN {"canceled"}
                ELSE {"file", "failed", "canceled"}
    /\ IF kind = "file"
       THEN /\ incoming' = Append(incoming, In(t, FALSE, FALSE))
            /\ UNCHANGED <<transfers, outgoing, closed>>
       ELSE /\ transfers' = Drop(t)
            /\ outgoing' = Without(outgoing, t)
            /\ incoming' = Append(incoming, In(t, FALSE, TRUE))
            /\ closed' = closed \cup {t}
    /\ UNCHANGED <<live, wire, owner, got, data>>

Next ==
    \/ \E o \in Owners : Starts(o) \/ Overflows(o) \/ Dies(o) \/ Leaves(o)
    \/ \E t \in Transfers, type \in {"data", "finish"} : Continues(t, type)
    \/ \E t \in Transfers : CancelsOwn(t)
    \/ \E late \in SUBSET Transfers : Ticks(late)
    \/ CancelsAll \/ Pumps \/ Drains
    \/ \E t \in Transfers, kind \in {"file", "failed", "canceled"} : Answers(t, kind)

\* Bound on the queues.
Bounded == Len(incoming) <= MaxQueue /\ Len(outgoing) <= MaxQueue + 1

Spec == Init /\ [][Next]_vars

-----------------------------------------------------------------------------
(* Properties. *)

\* What the terminal was sent of a transfer or will be.
Sent(t) ==
    LET queued == SelectSeq(outgoing, LAMBDA p : p.id = t)
    IN  wire[t] \o [i \in 1..Len(queued) |-> queued[i].type]

\* The terminal sees a transfer from its start, with all the data before a
\* finish and nothing after its end.
WireInOrder == \A t \in Transfers :
    LET s == Sent(t) IN
    /\ s # << >> => s[1] = "start"
    /\ \A i \in DOMAIN s : s[i] \in {"finish", "cancel"} =>
           \A j \in (i + 1)..Len(s) : s[j] = "cancel"
    /\ \A i \in DOMAIN s : s[i] = "finish" =>
           Cardinality({j \in 1..i : s[j] = "data"}) = data[t]

\* No transfer stays open at the terminal that the router has forgotten.
NoneLeftOpen == \A t \in Transfers :
    Sent(t) # << >> /\ t \notin Active =>
        \/ t \in closed
        \/ \E i \in DOMAIN Sent(t) : Sent(t)[i] \in {"finish", "cancel"}

\* A process is told the end of a transfer at most once.
ToldOnce == \A t \in Transfers :
    got[t] + Cardinality({i \in DOMAIN incoming : incoming[i].for = t /\ incoming[i].final})
        <= IF t \in Active THEN 0 ELSE 1
=============================================================================
