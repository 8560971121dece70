------------------------------ MODULE ProgramIpc ------------------------------
(***************************************************************************)
(* The observers of a pane's output (rich_clipboard.rs, file_transfer.rs,    *)
(* drag_source.rs and drop_target.rs, each its Observer): every one has a    *)
(* framer of its own, queues the requests the configuration permits, and     *)
(* puts a marker in place of what it had to drop.                            *)
(*                                                                         *)
(* `own` says which observer this is.  The program sends tokens              *)
(* [bytes, kind]: a packet that opens an exchange, goes on with it ("cont",  *)
(* and "last" for the end of it), asks something else ("other"), or cannot   *)
(* be parsed ("junk"), and broken ones.  Tokens are numbered, and a queued   *)
(* packet knows its number and that of the packet of an exchange before it.  *)
(***************************************************************************)
EXTENDS IpcFramer

CONSTANTS
    Tokens(_),      \* what the program of an observer sends
    Capacity,       \* packets the queue takes (the bytes of two)
    MaxTokens       \* bound

Observers == {"clipboard", "file", "drag", "drop"}
Control(own) == IF own = "drop" THEN "drag" ELSE own

VARIABLES
    own, framer, rest, kind,        \* the observer; the token being read
    permission, write,              \* what the configuration grants
    started,                        \* a write is under way; of drag, a chunk
    pending,                        \* Observer.pending
    number, previous,               \* of the token, of the exchange before it
    changed,                        \* the token a change of the permission fell into
    last                            \* what was taken last of an exchange

vars == <<own, framer, rest, kind, permission, write, started, pending,
          number, previous, changed, last>>

Marker == [kind |-> "marker", number |-> 0, previous |-> 0]

Init ==
    /\ own \in Observers
    /\ framer = ObserverFramer(Control(own))
    /\ rest = << >> /\ kind = "other"
    /\ permission \in BOOLEAN /\ write \in BOOLEAN
    /\ started = FALSE
    /\ pending = << >>
    /\ number = 0 /\ previous = 0 /\ changed = 0
    /\ last = Marker

Has(kinds) == \E i \in 1..Len(pending) : pending[i].kind \in kinds
Packets == Len(SelectSeq(pending, LAMBDA entry : entry.kind # "marker"))
Entry(as) == [kind |-> as, number |-> number, previous |-> previous]

\* Overflow: the queue is given up for a marker.
Overflows == pending' = <<Marker>> /\ started' = FALSE

\* Observer.push of the clipboard: what does not fit ends the write.
Pushes(as, going) ==
    IF Packets < Capacity THEN pending' = Append(pending, Entry(as)) /\ started' = going
    ELSE /\ pending' = IF going /\ ~Has({"marker"}) THEN Append(pending, Marker) ELSE pending
         /\ started' = FALSE

\* A clipboard packet was dropped: a write under way is void.
Voids ==
    IF started THEN pending' = Append(pending, Marker) /\ started' = FALSE
    ELSE UNCHANGED <<pending, started>>

Clipboard(as) ==
    CASE as = "open" /\ write -> Pushes(as, TRUE)
      [] as = "open" /\ ~write -> started' = FALSE /\ UNCHANGED pending
      [] as \in {"cont", "last"} /\ started -> Pushes(as, TRUE)
      [] as = "other" /\ permission /\ ~Has({"other"}) -> Pushes(as, started)
      [] as = "junk" -> Voids
      [] OTHER -> UNCHANGED <<pending, started>>

\* A file packet: a queue that overflows forgets the owner's transfers.
File(as) ==
    /\ UNCHANGED started
    /\ pending' = IF ~permission \/ as = "junk" THEN pending
                  ELSE IF Packets < Capacity THEN Append(pending, Entry(as)) ELSE <<Marker>>

\* A drag packet without a type is the next chunk of the one before it; where
\* there is none, a drop takes it for a registration and a source leaves it.
Drag(as) ==
    LET goesOn == as \in {"cont", "last"}
        is == IF own = "drop" /\ goesOn /\ ~started THEN "open" ELSE as
        chunk == IF as = "other" THEN started
                 ELSE as # "last" /\ (own = "drop" \/ as = "open" \/ started) IN
    IF as = "junk" THEN IF permission THEN Overflows ELSE UNCHANGED <<pending, started>>
    ELSE IF ~permission \/ (own = "drag" /\ goesOn /\ ~started)
         THEN started' = chunk /\ UNCHANGED pending
    ELSE IF Packets < Capacity THEN pending' = Append(pending, Entry(is)) /\ started' = chunk
    ELSE Overflows

Observes(as) ==
    CASE own = "clipboard" -> Clipboard(as)
      [] own = "file" -> File(as)
      [] OTHER -> Drag(as)

\* A packet that is not whole: only a file observer says nothing of it.
Misses ==
    CASE own = "clipboard" -> Voids
      [] own = "file" -> UNCHANGED <<pending, started>>
      [] OTHER -> IF permission THEN Overflows ELSE UNCHANGED <<pending, started>>

Reads(byte) ==
    LET r == Advance(framer, byte) IN
    /\ framer' = r.framer
    /\ CASE r.packet # << >> -> Observes(kind)
         [] r.bad -> Misses
         [] OTHER -> UNCHANGED <<pending, started>>

Exchange == {"open", "cont", "last", "junk", "broken"}

Starts ==
    /\ rest = << >>
    /\ number < MaxTokens
    /\ \E token \in Tokens(own) :
         /\ Reads(Head(token.bytes))
         /\ rest' = Tail(token.bytes)
         /\ kind' = token.kind
    /\ number' = number + 1
    /\ previous' = IF kind \in Exchange THEN number ELSE previous
    /\ UNCHANGED <<own, permission, write, changed, last>>

Continues ==
    /\ rest # << >>
    /\ Reads(Head(rest))
    /\ rest' = Tail(rest)
    /\ UNCHANGED <<own, kind, permission, write, number, previous, changed, last>>

\* A reload, an attach or a detach changes what is granted.
Partial == pending # << >> \/ framer.state \in {"escape", "prefix", "packet"}

Invalidates ==
    /\ framer' = IF own = "drop" THEN ObserverFramer("drag") ELSE CancelPacket(framer)
    /\ pending' = IF own = "clipboard" /\ Partial /\ started THEN <<Marker>> ELSE << >>

Configures ==
    /\ Invalidates
    /\ \/ permission' = ~permission /\ UNCHANGED write
          /\ started' = (own = "clipboard" /\ started)
       \/ own = "clipboard" /\ write' = ~write /\ UNCHANGED permission
          /\ started' = (started /\ write')
    /\ changed' = number
    /\ UNCHANGED <<own, rest, kind, number, previous, last>>

\* The event loop takes a request.
Takes ==
    /\ pending # << >>
    /\ last' = IF Head(pending).kind = "other" THEN last ELSE Head(pending)
    /\ pending' = Tail(pending)
    /\ UNCHANGED <<own, framer, rest, kind, permission, write, started, number,
                   previous, changed>>

Next == Starts \/ Continues \/ Configures \/ Takes

Spec == Init /\ [][Next]_vars
-----------------------------------------------------------------------------
\* A packet that goes on with an exchange is taken directly after the one the
\* program sent before it; where one between them was broken, unreadable, revoked
\* or too much, a marker comes first, so that a relay never puts together an
\* exchange with a hole in it.
NoHoleIsTaken ==
    Takes /\ own # "file" /\ Head(pending).kind \in {"cont", "last"} =>
        \/ last.kind = "marker"
        \/ last.number = Head(pending).previous

\* A request that was read, even in part, before the permission changed is never
\* taken after it.
RevokedIsGone == \A i \in 1..Len(pending) : pending[i].kind # "marker" => pending[i].number > changed
=============================================================================
