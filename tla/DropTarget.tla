----------------------------- MODULE DropTarget -----------------------------
(***************************************************************************)
(* What is dragged over the terminal and dropped (drop_target.rs, Router).  *)
(* The terminal outside knows one target, the whole window; the router      *)
(* finds the pane under the pointer and stands between the two: it has      *)
(* registrations, one drag, and a queue to each side, both of them read     *)
(* when the other side likes.  Every packet to the outside carries the id   *)
(* of its registration, the wire, and packets of a drag that is over are    *)
(* taken out of the queues.  A queue that is full discards what is put in.  *)
(***************************************************************************)
EXTENDS Naturals, Sequences, FiniteSets, FiniteSetTheorems, WellFoundedInduction, TLAPS

CONSTANTS
    Programs,       \* the processes in the panes
    MaxPending,     \* MAX_PENDING, in packets that carry data: the room of a queue
    MaxWires,       \* bound: registrations outside
    MaxQueue        \* bound: packets waiting when more is done

NoOne == "nobody"

VARIABLES
    on,             \* enabled and supported: the outside answered the probe
    allowed,        \* no menu, prompt, help or history: as the last tick saw it
    registered,     \* registrations
    advertised,     \* the wire and the programs it stands for, or none
    active,         \* the drag: whose, on which wire, dropped, answers due; and, of the
                    \* model only, that the packet of the drop was not discarded (told)
    chunk,          \* event_chunks: the first part of an event
    outgoing, incoming,
    wires,          \* wires used
    world,          \* what a tick reads: mode, panes in sight, processes alive
    host,           \* the terminal outside: its registration, the drop it waits for, and
                    \* whether that came while none was allowed
    sees,           \* sees[p]: what program p knows: nothing, a drag, a drop
    deaf            \* programs that were not told at a detach: their queue was full

vars == <<on, allowed, registered, advertised, active, chunk, outgoing, incoming, wires,
          world, host, sees, deaf>>

NotAdvertised == [wire |-> 0, stands |-> {}]
NoDrag == [owner |-> NoOne, wire |-> 0, placed |-> FALSE, due |-> FALSE, told |-> TRUE]
NoChunk == [kind |-> "none", at |-> NoOne]

Init ==
    /\ on \in BOOLEAN /\ allowed = FALSE /\ registered = {}
    /\ advertised = NotAdvertised /\ active = NoDrag /\ chunk = NoChunk
    /\ outgoing = << >> /\ incoming = << >> /\ wires = 0
    /\ world = [mode |-> TRUE, seen |-> Programs, alive |-> Programs]
    /\ host = [registered |-> 0, dropped |-> 0, asked |-> FALSE, ignored |-> FALSE]
    /\ sees = [p \in Programs |-> "nothing"] /\ deaf = {}

Out(tag, kind, wire) == [tag |-> tag, kind |-> kind, wire |-> wire]
In(p, tag, kind) == [to |-> p, tag |-> tag, kind |-> kind]

\* The model's bound.  can_receive is no guard of the steps: it is asked before a read,
\* and one read brings events for more than the room that is left.
Enough == Len(outgoing) + Len(incoming) <= MaxQueue

\* A step of the router works on its own state.
Router == [registered |-> registered, advertised |-> advertised, active |-> active,
           chunk |-> chunk, outgoing |-> outgoing, incoming |-> incoming, wires |-> wires]

Become(r) ==
    /\ registered' = r.registered /\ advertised' = r.advertised /\ active' = r.active
    /\ chunk' = r.chunk /\ outgoing' = r.outgoing /\ incoming' = r.incoming /\ wires' = r.wires

\* Only what carries a list, a name or data fills a queue; for what is one short line
\* the room that can_receive reserves is always enough.
Bulky == {"register", "machine", "status", "drag", "drop", "data"}
HasRoom(q, kind) ==
    kind \in Bulky => Cardinality({i \in 1..Len(q) : q[i].kind \in Bulky}) < MaxPending

\* outer, inner: a packet that there is no room for is discarded, without a word.  An
\* event of several parts that loses one of them is none.
Outer(r, tag, kind, wire) ==
    IF HasRoom(r.outgoing, kind)
    THEN [r EXCEPT !.outgoing = Append(@, Out(tag, kind, wire))] ELSE r
Inner(r, p, tag, kind) ==
    IF HasRoom(r.incoming, kind)
    THEN [r EXCEPT !.incoming = Append(@, In(p, tag, kind))] ELSE r

\* retain: a queue keeps what is at the places K, in its order.
Place(K, n) == CHOOSE i \in K : Cardinality({k \in K : k <= i}) = n
Kept(q, K) == [n \in 1..Cardinality(K) |-> q[Place(K, n)]]
Without(q, tag) == Kept(q, {i \in 1..Len(q) : q[i].tag # tag})

Forget(r, tag) == [r EXCEPT !.outgoing = Without(@, tag), !.incoming = Without(@, tag)]

Unadvertise(r) ==
    IF r.advertised.wire = 0 THEN r
    ELSE [Outer(r, 0, "unregister", r.advertised.wire) EXCEPT !.advertised = NotAdvertised]

\* cancel: both sides are told, and what the drag still has in the queues goes.
Cancel(r) ==
    LET d == r.active
        over == [Forget(r, d.wire) EXCEPT !.active = NoDrag]
        told == IF d.owner = NoOne THEN r
                ELSE IF d.placed THEN Inner(Outer(over, 0, "finish", d.wire), d.owner, 0, "end")
                ELSE Inner(Outer(over, 0, "reject", d.wire), d.owner, 0, "leave")
    IN  [Unadvertise(told) EXCEPT !.chunk = NoChunk]

\* finish: the drop is over, with its registration.
Finish(r) == Unadvertise([r EXCEPT !.active = NoDrag, !.chunk = NoChunk])

-----------------------------------------------------------------------------
\* tick.  "late" says that nothing has come for 30 seconds.
Timeouts(r, late) ==
    LET d == r.active
        c == IF late /\ r.chunk # NoChunk THEN Cancel(r) ELSE r
    IN  IF c.active.owner # NoOne
           /\ (late \/ d.owner \notin world.alive \cap world.seen \/ ~world.mode)
        THEN Cancel(c) ELSE c

Advertise(r) ==
    LET stands == IF world.mode THEN r.registered \cap world.seen ELSE {}
        gone == Unadvertise(r)
    IN  IF r.active.owner # NoOne \/ r.chunk # NoChunk \/ r.advertised.stands = stands THEN r
        ELSE IF stands = {} THEN gone
        ELSE [Outer(gone, r.wires + 1, "register", r.wires + 1)
                 EXCEPT !.wires = @ + 1, !.advertised = [wire |-> r.wires + 1, stands |-> stands]]

Tick ==
    /\ on /\ Enough
    /\ allowed' = world.mode
    /\ \E late \in BOOLEAN :
          Become(Advertise(Timeouts([Router EXCEPT !.registered = @ \cap world.alive], late)))
    /\ wires' <= MaxWires
    /\ UNCHANGED <<on, world, host, sees, deaf>>

\* Disabled by the configuration: cancel_all.
Disable ==
    /\ on /\ on' = FALSE
    /\ Become([Cancel(Router) EXCEPT !.registered = {}])
    /\ UNCHANGED <<allowed, world, host, sees, deaf>>

\* A client detaches: cancel_all, and the queues are read once more, as far as the
\* programs take what is for them.  Then they are dropped with the router; the next
\* client has a terminal that knows of nothing.
Detach ==
    LET r == Cancel(Router)
        mine(p) == {i \in 1..Len(r.incoming) : r.incoming[i].to = p}
    IN  /\ on' \in BOOLEAN
        /\ Become([r EXCEPT !.registered = {}, !.outgoing = << >>, !.incoming = << >>])
        /\ host' = [registered |-> 0, dropped |-> 0, asked |-> FALSE, ignored |-> FALSE]
        /\ \E n \in 0..Len(r.incoming) :
              LET taken(p) == {i \in mine(p) : i <= n}
                  ends(p) == \E i \in taken(p) : r.incoming[i].kind \in {"leave", "end"}
                  lost == {p \in world.alive : mine(p) # taken(p)}
              IN  /\ n < Len(r.incoming) => r.incoming[n + 1].to \in world.alive
                  /\ deaf' = deaf \cup lost
                  /\ sees' = [p \in Programs |-> IF ends(p) THEN "nothing" ELSE sees[p]]
        /\ UNCHANGED <<allowed, world>>

-----------------------------------------------------------------------------
\* request: what a program writes.
Asks(p, r) ==
    /\ p \in world.alive /\ Enough
    /\ Become(r)
    /\ UNCHANGED <<on, allowed, world, host, deaf>>

Mine(p) == active.owner = p
CancelMine(p) == IF Mine(p) THEN Cancel(Router) ELSE Router

Register(p) ==
    /\ on /\ Asks(p, [CancelMine(p) EXCEPT !.registered = @ \cup {p}])
    /\ UNCHANGED sees

Unregister(p) ==
    /\ p \in registered
    /\ Asks(p, [CancelMine(p) EXCEPT !.registered = @ \ {p}])
    /\ UNCHANGED sees

\* A program says whether it would take the drag.
Status(p) ==
    /\ sees[p] = "drag" /\ on
    /\ Mine(p) /\ ~active.placed
    /\ Asks(p, Outer(Router, active.wire, "status", active.wire))
    /\ UNCHANGED sees

\* It asks for what was dropped.
Fetch(p) ==
    /\ sees[p] = "drop" /\ on
    /\ Asks(p, IF ~Mine(p) \/ ~active.placed THEN Inner(Router, p, 0, "refused")
               ELSE [Outer(Router, active.wire, "fetch", active.wire)
                        EXCEPT !.active.due = TRUE])
    /\ UNCHANGED sees

\* It has what it wants.  The drop that is finished is the one the router has.
Done(p) ==
    /\ sees[p] = "drop" /\ on
    /\ Asks(p, IF ~Mine(p) \/ ~active.placed THEN Inner(Router, p, 0, "refused")
               ELSE Finish(Outer(Forget(Router, active.wire), active.wire, "finish", active.wire)))
    /\ sees' = [sees EXCEPT ![p] = "nothing"]

-----------------------------------------------------------------------------
\* The terminal outside reads its packets in order.  The end of a registration is the
\* end of its drop.
Ended(wire) ==
    IF host.dropped # wire THEN host
    ELSE [host EXCEPT !.dropped = 0, !.asked = FALSE, !.ignored = FALSE]

HostReads ==
    /\ outgoing # << >>
    /\ outgoing' = Tail(outgoing)
    /\ LET m == Head(outgoing) IN
       host' = CASE m.kind = "register" -> [host EXCEPT !.registered = m.wire]
                 [] m.kind = "unregister" ->
                       [Ended(m.wire) EXCEPT !.registered = IF @ = m.wire THEN 0 ELSE @]
                 [] m.kind = "finish" -> Ended(m.wire)
                 [] m.kind = "fetch" /\ m.wire = host.dropped -> [host EXCEPT !.asked = TRUE]
                 [] OTHER -> host
    /\ UNCHANGED <<on, allowed, registered, advertised, active, chunk, incoming, wires,
                   world, sees, deaf>>

\* The drag leaves a pane for another, or for none.
Switch(r, wire) ==
    LET old == r.active
    IN  Outer(IF old.owner = NoOne THEN r
              ELSE Inner([Forget(r, old.wire) EXCEPT !.active = NoDrag], old.owner, 0, "leave"),
              0, "reject", wire)

\* A drop is placed before its packet is queued, discarded or not.
Placing(r, p, wire, kind) ==
    [Inner(r, p, wire, kind) EXCEPT
        !.active.placed = kind = "drop",
        !.active.told = kind = "drop" => HasRoom(r.incoming, kind)]

\* Mutant: a drop on no pane is only kept from the panes.
EventDropOnNothing(r, kind, at, wire) ==
    LET target == IF at \in r.registered \cap world.seen THEN at ELSE NoOne
        s == IF r.active.owner # target THEN Switch(r, wire) ELSE r
        t == IF s.active.owner = NoOne
             THEN [Outer(s, wire, "machine", wire)
                      EXCEPT !.active = [NoDrag EXCEPT !.owner = target, !.wire = wire]]
             ELSE s
    IN  IF r.active.placed THEN r
        ELSE IF kind = "gone" THEN Cancel(r)
        ELSE IF target = NoOne THEN s
        ELSE Placing(t, target, wire, kind)

\* event: a drag moves over the panes, or drops.
Event(r, kind, at, wire) ==
    LET target == IF at \in r.registered \cap world.seen THEN at ELSE NoOne
        s == IF r.active.owner # target THEN Switch(r, wire) ELSE r
        t == IF s.active.owner = NoOne
             THEN [Outer(s, wire, "machine", wire)
                      EXCEPT !.active = [NoDrag EXCEPT !.owner = target, !.wire = wire]]
             ELSE s
    IN  IF r.active.placed THEN r
        ELSE IF kind = "gone" THEN Cancel(r)
        ELSE IF target = NoOne THEN (IF kind = "drop" THEN Cancel(s) ELSE s)
        ELSE Placing(t, target, wire, kind)

\* response: the event is for the registration the router has, or ignored.  Its
\* second part only has to be of the same wire.  A list that is too long, or a drop
\* without one, cancels.
HostMoves ==
    /\ host.registered # 0 /\ host.dropped = 0 /\ Enough
    /\ \E kind \in {"drag", "drop", "gone"}, at \in Programs \cup {NoOne} :
          LET known == advertised.wire = host.registered
              drops(ignored) ==
                 IF kind = "drop" THEN [host EXCEPT !.dropped = host.registered, !.ignored = ignored]
                 ELSE host
          IN  /\ kind = "gone" => at = NoOne
              /\ \/ /\ chunk = NoChunk
                    /\ Become(IF known /\ allowed THEN Event(Router, kind, at, advertised.wire)
                              ELSE Router)
                    /\ host' = drops(known /\ ~allowed)
                 \/ /\ chunk = NoChunk /\ known /\ allowed /\ kind # "gone"
                    /\ Become([Router EXCEPT !.chunk = [kind |-> kind, at |-> at]])
                    /\ UNCHANGED host
                 \/ /\ chunk # NoChunk /\ kind = chunk.kind /\ at = chunk.at
                    /\ Become(IF known
                              THEN Event([Router EXCEPT !.chunk = NoChunk], kind, at, advertised.wire)
                              ELSE Cancel(Router))
                    /\ host' = drops(FALSE)
                 \/ /\ \/ chunk # NoChunk /\ kind = chunk.kind /\ at = chunk.at
                       \/ chunk = NoChunk /\ known /\ allowed
                    /\ Become(Cancel(Router))
                    /\ host' = drops(FALSE)
    /\ UNCHANGED <<on, allowed, world, sees, deaf>>

\* It sends what was asked for, or that it cannot; an error in several packets cancels.
HostAnswers ==
    /\ host.dropped # 0 /\ host.asked /\ Enough
    /\ \E r \in {[Inner(Router, active.owner, active.wire, "data") EXCEPT !.active.due = FALSE],
                 Finish(Outer(Inner(Forget(Router, active.wire), active.owner, 0, "end"),
                              0, "finish", active.wire)),
                 Cancel(Router)} :
          Become(IF active.placed /\ active.wire = host.dropped /\ active.due THEN r ELSE Router)
    /\ host' = [host EXCEPT !.asked = FALSE]
    /\ UNCHANGED <<on, allowed, world, sees, deaf>>

\* A program reads; what is for a process that has gone is dropped.
ProgramReads ==
    /\ incoming # << >>
    /\ incoming' = Tail(incoming)
    /\ LET m == Head(incoming)
           now == CASE m.kind = "drag" -> "drag"
                    [] m.kind = "drop" -> "drop"
                    [] m.kind \in {"leave", "end"} -> "nothing"
                    [] OTHER -> sees[m.to]
       IN  sees' = IF m.to \in world.alive THEN [sees EXCEPT ![m.to] = now] ELSE sees
    /\ UNCHANGED <<on, allowed, registered, advertised, active, chunk, outgoing, wires,
                   world, host, deaf>>

\* A prompt opens or closes, a pane is hidden or shown, a process ends.
World ==
    /\ \/ world' = [world EXCEPT !.mode = ~@]
       \/ \E p \in world.alive :
             \/ world' = [world EXCEPT !.seen = IF p \in @ THEN @ \ {p} ELSE @ \cup {p}]
             \/ world' = [world EXCEPT !.alive = @ \ {p}, !.seen = @ \ {p}]
    /\ UNCHANGED <<on, allowed, registered, advertised, active, chunk, outgoing, incoming,
                   wires, host, sees, deaf>>

Next ==
    \/ Tick \/ Disable \/ Detach
    \/ HostReads \/ HostMoves \/ HostAnswers \/ ProgramReads \/ World
    \/ \E p \in Programs : Register(p) \/ Unregister(p) \/ Status(p) \/ Fetch(p) \/ Done(p)

Spec == Init /\ [][Next]_vars

-----------------------------------------------------------------------------
\* The drop of the drag is in the queue to its program, or was read.
Reached(r) == r.active.placed /\ r.active.told

\* A program that was told of a drag or of a drop, and has read all there is, is the
\* one that the drag is over or that may fetch the drop: whatever else ended it, it
\* has been told, also where a queue was full.  Only of a drop whose packet was
\* discarded does it know no more than of the drag.
ToldOfTheEnd ==
    \A p \in world.alive \ deaf :
       (\A i \in 1..Len(incoming) : incoming[i].to # p) /\ sees[p] # "nothing" =>
          active.owner = p /\ (Reached(Router) <=> sees[p] = "drop")

\* A drop that the terminal outside waits for is under way, or its end is on its way.
\* One that came while a menu was open is not taken, and ends with the registration.
DropIsFinished ==
    host.dropped # 0 /\ ~host.ignored =>
       \/ active.placed /\ active.wire = host.dropped
       \/ \E i \in 1..Len(outgoing) :
             outgoing[i].kind \in {"finish", "unregister"} /\ outgoing[i].wire = host.dropped

-----------------------------------------------------------------------------
(* Proofs, for any programs and any bounds.  Most are about a router r, some    *)
(* programs that hear: alive, and told all there was at each detach; what       *)
(* those saw; the registration that is used outside; and the drop that the      *)
(* terminal outside waits for.                                                  *)

Parameters == NoOne \notin Programs

OutPacket ==
    [tag : Nat, kind : {"register", "unregister", "reject", "machine", "status", "fetch", "finish"},
     wire : Nat]
InPacket == [to : Programs, tag : Nat, kind : {"drag", "drop", "leave", "data", "end", "refused"}]
Drags ==
    [owner : Programs \cup {NoOne}, wire : Nat, placed : BOOLEAN, due : BOOLEAN, told : BOOLEAN]
Chunks == [kind : {"none", "drag", "drop"}, at : Programs \cup {NoOne}]
Routers ==
    [registered : SUBSET Programs, advertised : [wire : Nat, stands : SUBSET Programs],
     active : Drags, chunk : Chunks,
     outgoing : Seq(OutPacket), incoming : Seq(InPacket), wires : Nat]

Tells(r, p, i) == r.incoming[i].to = p /\ r.incoming[i].kind \in {"leave", "end"}
Begins(r, i) == r.incoming[i].kind \in {"drag", "drop"}
Drops(r, i) == r.incoming[i].kind = "drop"
Withdraws(r, i, wire) ==
    r.outgoing[i].kind = "unregister" /\ r.outgoing[i].tag = 0 /\ r.outgoing[i].wire = wire
Recalls(r, i) == r.outgoing[i].kind \in {"finish", "unregister"} /\ r.outgoing[i].tag = 0

\* A drag is of the registration outside.
Bound(r) ==
    /\ r.active.owner # NoOne => r.active.wire = r.advertised.wire /\ r.advertised.wire # 0
    /\ r.active.placed => r.active.owner # NoOne

\* What waits to be read of a drag is of the one there is.  Nothing behind it says that it
\* is over, and a drop is the last of it.
Current(r) ==
    \A i \in 1..Len(r.incoming) :
       Begins(r, i) => r.active.owner = r.incoming[i].to /\ r.active.wire = r.incoming[i].tag
Ordered(r) ==
    \A i \in 1..Len(r.incoming) :
       Begins(r, i) => \A j \in i + 1..Len(r.incoming) : ~Tells(r, r.incoming[i].to, j)
Placed(r) ==
    \A i \in 1..Len(r.incoming) :
       IF Reached(r)
       THEN r.incoming[i].kind = "drag" => \E j \in i + 1..Len(r.incoming) : Drops(r, j)
       ELSE ~Drops(r, i)

\* What says that a drag is over stays when the drag is forgotten.
Lasting(r) ==
    \A i \in 1..Len(r.incoming) : r.incoming[i].kind \in {"leave", "end"} => r.incoming[i].tag = 0

\* A program that saw a drag has it, or its end waits to be read; and it has seen the
\* drop of its drag, or will, unless that was discarded.
Heard(r, saw, hear) ==
    \A p \in hear :
       LET told == \E i \in 1..Len(r.incoming) : Tells(r, p, i)
           dropped == \E i \in 1..Len(r.incoming) : Drops(r, i)
       IN  /\ saw[p] # "nothing" => r.active.owner = p \/ told
           /\ r.active.owner = p /\ Reached(r) => dropped \/ (saw[p] = "drop" /\ ~told)
           /\ r.active.owner = p /\ ~Reached(r) /\ saw[p] = "drop" => told

\* A registration that the terminal has, or is about to read, is the one advertised or
\* is withdrawn behind it.
Listed(r) ==
    \A i \in 1..Len(r.outgoing) :
       r.outgoing[i].kind = "register" =>
          /\ r.outgoing[i].wire # 0
          /\ \/ r.advertised.wire = r.outgoing[i].wire
             \/ \E j \in i + 1..Len(r.outgoing) : Withdraws(r, j, r.outgoing[i].wire)
Known(r, wire) ==
    wire # 0 => \/ r.advertised.wire = wire
                \/ \E i \in 1..Len(r.outgoing) : Withdraws(r, i, wire)

\* A drop that the terminal waits for is the router's, or its end is on its way.
Answered(r, wire) ==
    wire # 0 => \/ r.active.placed /\ r.active.wire = wire
                \/ \E i \in 1..Len(r.outgoing) : Recalls(r, i) /\ r.outgoing[i].wire = wire

Sound(r, saw, hear, used, drop) ==
    /\ r \in Routers /\ Bound(r)
    /\ Current(r) /\ Ordered(r) /\ Placed(r) /\ Lasting(r) /\ Heard(r, saw, hear)
    /\ Listed(r) /\ Known(r, used) /\ Answered(r, drop)

Hearing == world.alive \ deaf
Awaited == IF host.ignored THEN 0 ELSE host.dropped

IInv ==
    /\ world \in [mode : BOOLEAN, seen : SUBSET Programs, alive : SUBSET Programs]
    /\ host \in [registered : Nat, dropped : Nat, asked : BOOLEAN, ignored : BOOLEAN]
    /\ sees \in [Programs -> {"nothing", "drag", "drop"}]
    /\ Sound(Router, sees, Hearing, host.registered, Awaited)

\* A set of naturals that is not empty has a least element.
LEMMA LeastNatural ==
    ASSUME NEW T \in SUBSET Nat, T # {}
    PROVE  \E n \in T : \A m \in T : n <= m
  <1>1. T \subseteq Nat
    OBVIOUS
  <1>2. PICK n \in T : \A m \in T : ~(<<m, n>> \in OpToRel(<, Nat))
    BY <1>1, NatLessThanWellFounded, WFMin
  <1>3. \A m \in T : m \in Nat /\ n \in Nat
    BY <1>1
  <1>4. \A m \in T : ~(m < n)
    BY <1>2, <1>3 DEF OpToRel
  <1> QED BY <1>3, <1>4

\* Kept takes exactly the places of K, and in their order.
LEMMA KeptInOrder ==
    ASSUME NEW S, NEW q \in Seq(S), NEW K \in SUBSET (1..Len(q))
    PROVE  /\ Kept(q, K) \in Seq(S)
           /\ \E h \in [1..Len(Kept(q, K)) -> K] :
                 /\ \A n \in 1..Len(Kept(q, K)) : Kept(q, K)[n] = q[h[n]]
                 /\ \A m, n \in 1..Len(Kept(q, K)) : m < n => h[m] < h[n]
                 /\ \A i \in K : \E n \in 1..Len(Kept(q, K)) : h[n] = i
  <1> DEFINE upto(i) == {k \in K : k <= i}
             rank(i) == Cardinality(upto(i))
             N == Cardinality(K)
             h == [n \in 1..N |-> Place(K, n)]
  <1>0. Len(q) \in Nat /\ \A k \in K : k \in Nat /\ 1 <= k /\ k <= Len(q)
    OBVIOUS
  <1>1. Len(q) \in Nat /\ IsFiniteSet(K) /\ N \in Nat
    <2>1. IsFiniteSet(1..Len(q))
      BY <1>0, FS_Interval
    <2>2. IsFiniteSet(K)
      BY <2>1, FS_Subset
    <2> QED BY <1>0, <2>2, FS_CardinalityType
  <1>2. \A i \in Nat : IsFiniteSet(upto(i)) /\ rank(i) \in 0..N
    BY <1>1, FS_Subset, FS_CardinalityType
  <1>3. rank(0) = 0 /\ rank(Len(q)) = N
    <2>1. upto(0) = {}
      <3>1. \A k \in K : ~(k <= 0)
        BY <1>0
      <3> QED BY <3>1
    <2>2. upto(Len(q)) = K
      <3>1. \A k \in K : k <= Len(q)
        BY <1>0
      <3> QED BY <3>1
    <2> HIDE DEF upto
    <2> QED BY <2>1, <2>2, FS_EmptySet
  <1>4. \A i \in Nat : rank(i + 1) = IF i + 1 \in K THEN rank(i) + 1 ELSE rank(i)
    <2> TAKE i \in Nat
    <2>1. IsFiniteSet(upto(i)) /\ i + 1 \notin upto(i)
      BY <1>2
    <2>2. CASE i + 1 \in K
      <3>1. \A k \in K : k <= i + 1 <=> k <= i \/ k = i + 1
        BY <1>0
      <3>2. upto(i + 1) = upto(i) \cup {i + 1}
        BY <2>2, <3>1
      <3> HIDE DEF upto
      <3> QED BY <2>1, <2>2, <3>2, FS_AddElement
    <2>3. CASE i + 1 \notin K
      <3>1. \A k \in K : k <= i + 1 <=> k <= i
        BY <1>0, <2>3
      <3>2. upto(i + 1) = upto(i)
        BY <3>1
      <3> HIDE DEF upto
      <3> QED BY <2>3, <3>2
    <2> QED BY <2>2, <2>3
  <1>5. \A n \in 1..N : \E i \in K : rank(i) = n
    <2> TAKE n \in 1..N
    <2> DEFINE T == {i \in Nat : n <= rank(i)}
    <2>1. T \in SUBSET Nat /\ Len(q) \in T
      BY <1>1, <1>3
    <2>2. PICK i \in T : \A m \in T : i <= m
      BY <2>1, LeastNatural
    <2> HIDE DEF upto
    <2>3. i \in Nat /\ n <= rank(i) /\ n \in Nat /\ 1 <= n
      BY <1>1
    <2>4. i # 0
      BY <1>3, <2>3
    <2>5. i - 1 \in Nat /\ (i - 1) + 1 = i
      BY <2>3, <2>4
    <2>6. rank(i - 1) < n
      BY <1>2, <2>2, <2>5, <2>3
    <2>7. rank(i) = IF i \in K THEN rank(i - 1) + 1 ELSE rank(i - 1)
      BY <1>4, <2>5
    <2>8. rank(i - 1) \in 0..N /\ rank(i) \in 0..N
      BY <1>2, <2>3, <2>5
    <2> QED BY <1>1, <2>3, <2>6, <2>7, <2>8
  <1>6. \A i, j \in K : i < j => rank(i) < rank(j)
    <2> SUFFICES ASSUME NEW i \in K, NEW j \in K, i < j PROVE rank(i) < rank(j)
      OBVIOUS
    <2>1. i \in Nat /\ j \in Nat /\ \A k \in K : k \in Nat /\ (k <= i => k <= j)
      BY <1>0
    <2>2. upto(i) \in SUBSET upto(j) /\ j \in upto(j) /\ j \notin upto(i)
      <3>1. j <= j /\ ~(j <= i)
        BY <2>1
      <3> QED BY <2>1, <3>1
    <2>3. IsFiniteSet(upto(j)) /\ rank(i) \in 0..N /\ rank(j) \in 0..N
      BY <1>2, <2>1
    <2> HIDE DEF upto
    <2> QED BY <1>1, <2>2, <2>3, FS_Subset
  <1>7. \A n \in 1..N : h[n] \in K /\ rank(h[n]) = n
    BY <1>5 DEF Place
  <1>8. \A i \in K : i \in Nat /\ rank(i) \in 1..N
    <2> TAKE i \in K
    <2>1. i \in Nat /\ i \in upto(i) /\ IsFiniteSet(upto(i))
      BY <1>1, <1>2
    <2> HIDE DEF upto
    <2> QED BY <1>1, <1>2, <2>1, FS_EmptySet
  <1>9. Kept(q, K) \in [1..N -> S] /\ Kept(q, K) = [n \in 1..N |-> q[h[n]]]
    <2>1. Kept(q, K) = [n \in 1..N |-> q[h[n]]]
      BY DEF Kept
    <2>2. \A n \in 1..N : q[h[n]] \in S
      <3>1. \A i \in K : q[i] \in S
        OBVIOUS
      <3> HIDE DEF h
      <3> QED BY <1>7, <3>1
    <2> HIDE DEF h, N
    <2> QED BY <2>1, <2>2
  <1>10. Kept(q, K) \in Seq(S) /\ Len(Kept(q, K)) = N
    <2> HIDE DEF N, h
    <2> QED BY <1>1, <1>9
  <1>11. \A m, n \in 1..N : m < n => h[m] < h[n]
    <2> SUFFICES ASSUME NEW m \in 1..N, NEW n \in 1..N, m < n PROVE h[m] < h[n]
      OBVIOUS
    <2>1. h[m] \in K /\ rank(h[m]) = m /\ h[n] \in K /\ rank(h[n]) = n
      BY <1>7
    <2>2. m \in Nat /\ n \in Nat
      BY <1>1
    <2> HIDE DEF h, upto
    <2>3. h[n] \in Nat /\ h[m] \in Nat
      BY <1>8, <2>1
    <2>4. h[n] # h[m]
      BY <2>1, <2>2
    <2>5. ~(h[n] < h[m])
      <3> SUFFICES ASSUME h[n] < h[m] PROVE FALSE
        OBVIOUS
      <3>1. n < m
        BY <1>6, <2>1
      <3> QED BY <2>2, <3>1
    <2> QED BY <2>3, <2>4, <2>5
  <1>12. \A i \in K : \E n \in 1..N : h[n] = i
    <2> TAKE i \in K
    <2>1. rank(i) \in 1..N
      BY <1>8
    <2>2. h[rank(i)] \in K /\ rank(h[rank(i)]) = rank(i)
      BY <1>7, <2>1
    <2> HIDE DEF h, upto
    <2>3. h[rank(i)] \in Nat /\ i \in Nat
      BY <1>8, <2>2
    <2>4. h[rank(i)] = i
      BY <1>6, <1>8, <2>2, <2>3
    <2> QED BY <2>1, <2>4
  <1>13. h \in [1..N -> K]
    BY <1>7
  <1> HIDE DEF h, N
  <1> QED BY <1>9, <1>10, <1>11, <1>12, <1>13
-----------------------------------------------------------------------------
\* What only notes something else.
LEMMA NotedKeeps ==
    ASSUME NEW r, NEW saw, NEW hear \in SUBSET Programs, NEW used, NEW drop,
           Sound(r, saw, hear, used, drop),
           NEW t \in Routers, t.active.owner = r.active.owner, t.active.wire = r.active.wire,
           t.active.placed = r.active.placed, t.active.told = r.active.told,
           t.advertised = r.advertised, t.incoming = r.incoming, t.outgoing = r.outgoing
    PROVE  Sound(t, saw, hear, used, drop)
  <1>1. Bound(t) /\ Current(t) /\ Ordered(t) /\ Lasting(t)
    BY DEF Sound, Bound, Current, Ordered, Lasting, Tells, Begins
  <1>2. Placed(t) /\ Heard(t, saw, hear)
    BY DEF Sound, Placed, Heard, Reached, Tells, Drops
  <1>3. Listed(t) /\ Known(t, used) /\ Answered(t, drop)
    BY DEF Sound, Listed, Known, Answered, Withdraws, Recalls
  <1> QED BY <1>1, <1>2, <1>3 DEF Sound

\* What says that something is over is never discarded.
LEMMA ShortFits == ASSUME NEW q, NEW kind, kind \notin Bulky PROVE HasRoom(q, kind)
  BY DEF HasRoom

\* What a packet more leaves alone, there being room for it; else it leaves all alone.
LEMMA OuterFields ==
    ASSUME NEW r \in Routers, NEW m \in OutPacket
    PROVE  LET t == Outer(r, m.tag, m.kind, m.wire) IN
           /\ t \in Routers
           /\ t.registered = r.registered /\ t.advertised = r.advertised /\ t.active = r.active
           /\ t.chunk = r.chunk /\ t.incoming = r.incoming /\ t.wires = r.wires
           /\ Len(r.outgoing) \in Nat /\ (~HasRoom(r.outgoing, m.kind) => t = r)
           /\ HasRoom(r.outgoing, m.kind) =>
                 /\ t.outgoing = Append(r.outgoing, m)
                 /\ Len(t.outgoing) = Len(r.outgoing) + 1
                 /\ t.outgoing[Len(r.outgoing) + 1] = m
  <1> DEFINE t == Outer(r, m.tag, m.kind, m.wire)
  <1>1. r.outgoing \in Seq(OutPacket)
    BY DEF Routers
  <1>0. CASE ~HasRoom(r.outgoing, m.kind)
    <2>1. t = r /\ Len(r.outgoing) \in Nat
      BY <1>0, <1>1 DEF Outer
    <2> HIDE DEF t
    <2> QED BY <1>0, <2>1 DEF t
  <1> SUFFICES ASSUME HasRoom(r.outgoing, m.kind)
               PROVE  /\ t \in Routers
                      /\ t.registered = r.registered /\ t.advertised = r.advertised
                      /\ t.active = r.active /\ t.chunk = r.chunk /\ t.wires = r.wires
                      /\ t.incoming = r.incoming
                      /\ t.outgoing = Append(r.outgoing, m) /\ Len(r.outgoing) \in Nat
                      /\ Len(t.outgoing) = Len(r.outgoing) + 1 /\ t.outgoing[Len(r.outgoing) + 1] = m
    BY <1>0
  <1>2. t = [r EXCEPT !.outgoing = Append(r.outgoing, m)]
    BY DEF Outer, Out, OutPacket, Routers
  <1>3. /\ Append(r.outgoing, m) \in Seq(OutPacket)
        /\ Len(Append(r.outgoing, m)) = Len(r.outgoing) + 1 /\ Len(r.outgoing) \in Nat
        /\ Append(r.outgoing, m)[Len(r.outgoing) + 1] = m
    BY <1>1
  <1> HIDE DEF t
  <1>4. t \in Routers
    BY <1>2, <1>3 DEF Routers
  <1>5. /\ t.registered = r.registered /\ t.advertised = r.advertised /\ t.active = r.active
        /\ t.chunk = r.chunk /\ t.incoming = r.incoming /\ t.wires = r.wires
        /\ t.outgoing = Append(r.outgoing, m)
    BY <1>2 DEF Routers
  <1> QED BY <1>3, <1>4, <1>5

LEMMA InnerFields ==
    ASSUME NEW r \in Routers, NEW m \in InPacket
    PROVE  LET t == Inner(r, m.to, m.tag, m.kind) IN
           /\ t \in Routers
           /\ t.registered = r.registered /\ t.advertised = r.advertised /\ t.active = r.active
           /\ t.chunk = r.chunk /\ t.outgoing = r.outgoing /\ t.wires = r.wires
           /\ Len(r.incoming) \in Nat /\ (~HasRoom(r.incoming, m.kind) => t = r)
           /\ HasRoom(r.incoming, m.kind) =>
                 /\ t.incoming = Append(r.incoming, m)
                 /\ Len(t.incoming) = Len(r.incoming) + 1
                 /\ t.incoming[Len(r.incoming) + 1] = m
  <1> DEFINE t == Inner(r, m.to, m.tag, m.kind)
  <1>1. r.incoming \in Seq(InPacket)
    BY DEF Routers
  <1>0. CASE ~HasRoom(r.incoming, m.kind)
    <2>1. t = r /\ Len(r.incoming) \in Nat
      BY <1>0, <1>1 DEF Inner
    <2> HIDE DEF t
    <2> QED BY <1>0, <2>1 DEF t
  <1> SUFFICES ASSUME HasRoom(r.incoming, m.kind)
               PROVE  /\ t \in Routers
                      /\ t.registered = r.registered /\ t.advertised = r.advertised
                      /\ t.active = r.active /\ t.chunk = r.chunk /\ t.wires = r.wires
                      /\ t.outgoing = r.outgoing
                      /\ t.incoming = Append(r.incoming, m) /\ Len(r.incoming) \in Nat
                      /\ Len(t.incoming) = Len(r.incoming) + 1 /\ t.incoming[Len(r.incoming) + 1] = m
    BY <1>0
  <1>2. t = [r EXCEPT !.incoming = Append(r.incoming, m)]
    BY DEF Inner, In, InPacket, Routers
  <1>3. /\ Append(r.incoming, m) \in Seq(InPacket)
        /\ Len(Append(r.incoming, m)) = Len(r.incoming) + 1 /\ Len(r.incoming) \in Nat
        /\ Append(r.incoming, m)[Len(r.incoming) + 1] = m
    BY <1>1
  <1> HIDE DEF t
  <1>4. t \in Routers
    BY <1>2, <1>3 DEF Routers
  <1>5. /\ t.registered = r.registered /\ t.advertised = r.advertised /\ t.active = r.active
        /\ t.chunk = r.chunk /\ t.outgoing = r.outgoing /\ t.wires = r.wires
        /\ t.incoming = Append(r.incoming, m)
    BY <1>2 DEF Routers
  <1> QED BY <1>3, <1>4, <1>5

\* A packet more for the terminal, which is no registration.
LEMMA OuterKeeps ==
    ASSUME NEW r, NEW saw, NEW hear \in SUBSET Programs, NEW used, NEW drop,
           Sound(r, saw, hear, used, drop),
           NEW m \in OutPacket, m.kind # "register"
    PROVE  Sound(Outer(r, m.tag, m.kind, m.wire), saw, hear, used, drop)
  <1> DEFINE t == Outer(r, m.tag, m.kind, m.wire)
             N == Len(r.outgoing)
  <1>1. r \in Routers /\ r.outgoing \in Seq(OutPacket)
    BY DEF Sound, Routers
  <1>2. CASE ~HasRoom(r.outgoing, m.kind)
    <2>1. t = r
      BY <1>1, <1>2, OuterFields
    <2> HIDE DEF t
    <2> QED BY <2>1 DEF t
  <1> SUFFICES ASSUME HasRoom(r.outgoing, m.kind) PROVE Sound(t, saw, hear, used, drop)
    BY <1>2
  <1>4. t \in Routers
    BY <1>1, OuterFields
  <1>5. /\ t.registered = r.registered /\ t.advertised = r.advertised /\ t.active = r.active
        /\ t.chunk = r.chunk /\ t.incoming = r.incoming /\ t.wires = r.wires
        /\ t.outgoing = Append(r.outgoing, m)
    BY <1>1, OuterFields
  <1> HIDE DEF t
  <1>6. /\ Len(t.outgoing) = N + 1 /\ N \in Nat
        /\ \A i \in 1..N : t.outgoing[i] = r.outgoing[i]
        /\ t.outgoing[N + 1] = m
        /\ \A i \in 1..N + 1 : i \in 1..N \/ i = N + 1
        /\ \A i \in 1..N : i \in 1..N + 1
    BY <1>1, <1>5
  <1>7. Bound(t) /\ Current(t) /\ Ordered(t) /\ Lasting(t)
    BY <1>5 DEF Sound, Bound, Current, Ordered, Lasting, Tells, Begins
  <1>8. Placed(t) /\ Heard(t, saw, hear)
    BY <1>5 DEF Sound, Placed, Heard, Reached, Tells, Drops
  <1>9. Listed(t)
    <2> SUFFICES ASSUME NEW i \in 1..N + 1, t.outgoing[i].kind = "register"
                 PROVE  /\ t.outgoing[i].wire # 0
                        /\ \/ t.advertised.wire = t.outgoing[i].wire
                           \/ \E j \in i + 1..N + 1 : Withdraws(t, j, t.outgoing[i].wire)
      BY <1>6 DEF Listed
    <2>1. i \in 1..N /\ t.outgoing[i] = r.outgoing[i]
      BY <1>6
    <2>2. /\ r.outgoing[i].wire # 0
          /\ \/ r.advertised.wire = r.outgoing[i].wire
             \/ \E j \in i + 1..N : Withdraws(r, j, r.outgoing[i].wire)
      BY <2>1 DEF Sound, Listed
    <2>3. \A j \in i + 1..N : j \in i + 1..N + 1 /\ j \in 1..N
      BY <1>6, <2>1
    <2> QED BY <1>5, <1>6, <2>1, <2>2, <2>3 DEF Withdraws
  <1>10. Known(t, used) /\ Answered(t, drop)
    BY <1>5, <1>6 DEF Sound, Known, Answered, Withdraws, Recalls
  <1> QED BY <1>4, <1>7, <1>8, <1>9, <1>10 DEF Sound

\* A packet more for a program, which is no beginning: an end only for a program whose
\* drag there is not.
LEMMA InnerKeeps ==
    ASSUME Parameters,
           NEW r, NEW saw, NEW hear \in SUBSET Programs, NEW used, NEW drop,
           Sound(r, saw, hear, used, drop),
           NEW m \in InPacket, m.kind \notin {"drag", "drop"},
           m.kind \in {"leave", "end"} => m.tag = 0 /\ r.active.owner # m.to
    PROVE  Sound(Inner(r, m.to, m.tag, m.kind), saw,
                 IF m.kind \in {"leave", "end"} THEN hear \cup {m.to} ELSE hear, used, drop)
  <1> DEFINE t == Inner(r, m.to, m.tag, m.kind)
             N == Len(r.incoming)
             now == IF m.kind \in {"leave", "end"} THEN hear \cup {m.to} ELSE hear
  <1>1. r \in Routers /\ r.incoming \in Seq(InPacket)
    BY DEF Sound, Routers
  <1>2. CASE ~HasRoom(r.incoming, m.kind)
    <2>1. t = r
      BY <1>1, <1>2, InnerFields
    <2>2. now = hear
      BY <1>2, ShortFits DEF Bulky
    <2> HIDE DEF t, now
    <2> QED BY <2>1, <2>2 DEF t, now
  <1> SUFFICES ASSUME HasRoom(r.incoming, m.kind) PROVE Sound(t, saw, now, used, drop)
    BY <1>2
  <1>4. t \in Routers
    BY <1>1, InnerFields
  <1>5. /\ t.registered = r.registered /\ t.advertised = r.advertised /\ t.active = r.active
        /\ t.chunk = r.chunk /\ t.outgoing = r.outgoing /\ t.wires = r.wires
        /\ t.incoming = Append(r.incoming, m)
    BY <1>1, InnerFields
  <1> HIDE DEF t
  <1>6. /\ Len(t.incoming) = N + 1 /\ N \in Nat
        /\ \A i \in 1..N : t.incoming[i] = r.incoming[i]
        /\ t.incoming[N + 1] = m
        /\ \A i \in 1..N + 1 : i \in 1..N \/ i = N + 1
        /\ N + 1 \in 1..N + 1 /\ \A i \in 1..N : i \in 1..N + 1
    BY <1>1, <1>5
  <1>7. Bound(t) /\ Listed(t) /\ Known(t, used) /\ Answered(t, drop)
    BY <1>5 DEF Sound, Bound, Listed, Known, Answered, Withdraws, Recalls
  <1>8. Current(t)
    BY <1>5, <1>6 DEF Sound, Current, Begins
  <1>9. Ordered(t)
    <2> SUFFICES ASSUME NEW i \in 1..N + 1, Begins(t, i), NEW j \in i + 1..N + 1,
                        Tells(t, t.incoming[i].to, j)
                 PROVE  FALSE
      BY <1>6 DEF Ordered
    <2>1. i \in 1..N /\ t.incoming[i] = r.incoming[i]
      BY <1>6 DEF Begins
    <2>2. CASE j = N + 1
      BY <1>6, <2>1, <2>2 DEF Sound, Current, Tells, Begins
    <2>3. CASE j # N + 1
      <3>1. j \in i + 1..N /\ j \in 1..N
        BY <1>6, <2>1, <2>3
      <3> QED BY <1>6, <2>1, <3>1 DEF Sound, Ordered, Tells, Begins
    <2> QED BY <2>2, <2>3
  <1>10. Placed(t)
    <2> SUFFICES ASSUME NEW i \in 1..N + 1
                 PROVE  IF Reached(t)
                        THEN t.incoming[i].kind = "drag" => \E j \in i + 1..N + 1 : Drops(t, j)
                        ELSE ~Drops(t, i)
      BY <1>6 DEF Placed
    <2>1. CASE i = N + 1
      BY <1>6, <2>1 DEF Drops
    <2>2. CASE i \in 1..N
      <3>1. \A j \in i + 1..N : j \in i + 1..N + 1 /\ j \in 1..N
        BY <1>6, <2>2
      <3> QED BY <1>5, <1>6, <2>2, <3>1 DEF Sound, Placed, Reached, Drops
    <2> QED BY <1>6, <2>1, <2>2
  <1>11. Lasting(t)
    BY <1>6 DEF Sound, Lasting
  <1>12. Heard(t, saw, now)
    <2>1. \A p \in Programs : (\E i \in 1..N : Tells(r, p, i)) => \E i \in 1..N + 1 : Tells(t, p, i)
      BY <1>6 DEF Tells
    <2>2. (\E i \in 1..N : Drops(r, i)) => \E i \in 1..N + 1 : Drops(t, i)
      BY <1>6 DEF Drops
    <2> SUFFICES ASSUME NEW p \in now
                 PROVE  LET told == \E i \in 1..N + 1 : Tells(t, p, i)
                            dropped == \E i \in 1..N + 1 : Drops(t, i)
                        IN  /\ saw[p] # "nothing" => t.active.owner = p \/ told
                            /\ t.active.owner = p /\ Reached(t) => dropped \/ (saw[p] = "drop" /\ ~told)
                            /\ t.active.owner = p /\ ~Reached(t) /\ saw[p] = "drop" => told
      BY <1>6 DEF Heard
    <2>3. CASE m.kind \in {"leave", "end"} /\ p = m.to
      <3>1. Tells(t, p, N + 1)
        BY <1>6, <2>3 DEF Tells
      <3> QED BY <1>5, <1>6, <2>3, <3>1
    <2>4. CASE p \in hear /\ ~(m.kind \in {"leave", "end"} /\ p = m.to)
      <3>1. \A i \in 1..N + 1 : Tells(t, p, i) => i \in 1..N /\ Tells(r, p, i)
        BY <1>6, <2>4 DEF Tells
      <3> QED BY <1>5, <2>1, <2>2, <2>4, <3>1 DEF Sound, Heard, Reached
    <2> QED BY <2>3, <2>4
  <1> QED BY <1>4, <1>7, <1>8, <1>9, <1>10, <1>11, <1>12 DEF Sound

\* The drag is over, and its packets are forgotten: both sides have yet to be told.
LEMMA OverKeeps ==
    ASSUME Parameters,
           NEW r, NEW saw, NEW hear \in SUBSET Programs, NEW used, NEW drop,
           Sound(r, saw, hear, used, drop), r.active.owner # NoOne
    PROVE  LET w == r.active.wire
               f == Forget(r, w)
               t == [f EXCEPT !.active = NoDrag]
           IN  /\ f \in Routers /\ t \in Routers
               /\ Sound(t, saw, hear \ {r.active.owner}, used,
                        IF r.active.placed /\ drop = w THEN 0 ELSE drop)
               /\ t.registered = r.registered /\ t.advertised = r.advertised
               /\ t.chunk = r.chunk /\ t.active = NoDrag /\ t.wires = r.wires
               /\ f.incoming = t.incoming /\ f.outgoing = t.outgoing /\ f.active = r.active
               /\ f.registered = r.registered /\ f.advertised = r.advertised
               /\ f.chunk = r.chunk /\ f.wires = r.wires
  <1> DEFINE w == r.active.wire
             p == r.active.owner
             K == {i \in 1..Len(r.outgoing) : r.outgoing[i].tag # w}
             I == {i \in 1..Len(r.incoming) : r.incoming[i].tag # w}
             out == Kept(r.outgoing, K)
             in == Kept(r.incoming, I)
             f == Forget(r, w)
             t == [f EXCEPT !.active = NoDrag]
  <1>1. r \in Routers /\ r.incoming \in Seq(InPacket) /\ r.outgoing \in Seq(OutPacket)
    BY DEF Sound, Routers
  <1>2. /\ w \in Nat /\ w # 0 /\ w = r.advertised.wire /\ p \in Programs
    BY <1>1 DEF Sound, Bound, Routers, Drags
  <1>3. f = [r EXCEPT !.outgoing = out, !.incoming = in]
    BY <1>1 DEF Forget, Without, Routers
  <1>4. /\ out \in Seq(OutPacket)
        /\ \E h \in [1..Len(out) -> K] :
              /\ \A n \in 1..Len(out) : out[n] = r.outgoing[h[n]]
              /\ \A m, n \in 1..Len(out) : m < n => h[m] < h[n]
              /\ \A i \in K : \E n \in 1..Len(out) : h[n] = i
    <2>1. K \in SUBSET (1..Len(r.outgoing))
      OBVIOUS
    <2> HIDE DEF K
    <2>2. out \in Seq(OutPacket)
      BY <1>1, <2>1, KeptInOrder
    <2>3. \E h \in [1..Len(out) -> K] :
             /\ \A n \in 1..Len(out) : out[n] = r.outgoing[h[n]]
             /\ \A m, n \in 1..Len(out) : m < n => h[m] < h[n]
             /\ \A i \in K : \E n \in 1..Len(out) : h[n] = i
      BY <1>1, <2>1, KeptInOrder, SMTT(90)
    <2> QED BY <2>2, <2>3
  <1>5. /\ in \in Seq(InPacket)
        /\ \E h \in [1..Len(in) -> I] :
              /\ \A n \in 1..Len(in) : in[n] = r.incoming[h[n]]
              /\ \A m, n \in 1..Len(in) : m < n => h[m] < h[n]
              /\ \A i \in I : \E n \in 1..Len(in) : h[n] = i
    <2>1. I \in SUBSET (1..Len(r.incoming))
      OBVIOUS
    <2> HIDE DEF I
    <2>2. in \in Seq(InPacket)
      BY <1>1, <2>1, KeptInOrder
    <2>3. \E h \in [1..Len(in) -> I] :
             /\ \A n \in 1..Len(in) : in[n] = r.incoming[h[n]]
             /\ \A m, n \in 1..Len(in) : m < n => h[m] < h[n]
             /\ \A i \in I : \E n \in 1..Len(in) : h[n] = i
      BY <1>1, <2>1, KeptInOrder, SMTT(90)
    <2> QED BY <2>2, <2>3
  <1>6. /\ \A k \in K : k \in 1..Len(r.outgoing) /\ r.outgoing[k].tag # w
        /\ \A i \in 1..Len(r.outgoing) : r.outgoing[i].tag = 0 => i \in K
        /\ \A k \in I : k \in 1..Len(r.incoming) /\ r.incoming[k].tag # w
        /\ \A i \in 1..Len(r.incoming) : r.incoming[i].tag = 0 => i \in I
    BY <1>2
  <1> HIDE DEF K, I, out, in
  <1>7. /\ f \in Routers /\ f.incoming = in /\ f.outgoing = out /\ f.active = r.active
        /\ f.registered = r.registered /\ f.advertised = r.advertised
        /\ f.chunk = r.chunk /\ f.wires = r.wires
    <2> HIDE DEF f
    <2> QED BY <1>1, <1>3, <1>4, <1>5 DEF Routers
  <1> HIDE DEF f
  <1>8. /\ t \in Routers /\ t.incoming = in /\ t.outgoing = out /\ t.active = NoDrag
        /\ t.registered = r.registered /\ t.advertised = r.advertised
        /\ t.chunk = r.chunk /\ t.wires = r.wires
    BY <1>7 DEF Routers, NoDrag, Drags
  <1> HIDE DEF t
  <1>9. PICK g \in [1..Len(out) -> K] :
           /\ \A n \in 1..Len(out) : out[n] = r.outgoing[g[n]]
           /\ \A m, n \in 1..Len(out) : m < n => g[m] < g[n]
           /\ \A i \in K : \E n \in 1..Len(out) : g[n] = i
    BY <1>4
  <1>10. PICK h \in [1..Len(in) -> I] :
           /\ \A n \in 1..Len(in) : in[n] = r.incoming[h[n]]
           /\ \A i \in I : \E n \in 1..Len(in) : h[n] = i
    BY <1>5
  <1>11. Bound(t)
    BY <1>8 DEF Bound, NoDrag
  <1>12. \A i \in 1..Len(in) : ~Begins(t, i)
    BY <1>6, <1>8, <1>10 DEF Sound, Current, Begins
  <1>13. Current(t) /\ Ordered(t) /\ Placed(t)
    BY <1>8, <1>12 DEF Current, Ordered, Placed, Reached, Begins, Drops, NoDrag
  <1>14. Lasting(t)
    BY <1>6, <1>8, <1>10 DEF Sound, Lasting
  <1>15. Heard(t, saw, hear \ {p})
    <2> SUFFICES ASSUME NEW q \in hear \ {p}, saw[q] # "nothing"
                 PROVE  \E n \in 1..Len(in) : Tells(t, q, n)
      BY <1>2, <1>8 DEF Heard, Reached, NoDrag, Parameters
    <2>1. PICK i \in 1..Len(r.incoming) : Tells(r, q, i)
      BY DEF Sound, Heard
    <2>2. i \in I
      BY <1>6, <2>1 DEF Sound, Lasting, Tells
    <2>3. PICK n \in 1..Len(in) : h[n] = i
      BY <1>10, <2>2
    <2> QED BY <1>8, <1>10, <2>1, <2>3 DEF Tells
  <1>16. \A wire, j : j \in 1..Len(r.outgoing) /\ Withdraws(r, j, wire) =>
            \E n \in 1..Len(out) : g[n] = j /\ Withdraws(t, n, wire)
    <2> SUFFICES ASSUME NEW wire, NEW j, j \in 1..Len(r.outgoing), Withdraws(r, j, wire)
                 PROVE  \E n \in 1..Len(out) : g[n] = j /\ Withdraws(t, n, wire)
      OBVIOUS
    <2>1. PICK n \in 1..Len(out) : g[n] = j
      BY <1>6, <1>9 DEF Withdraws
    <2> QED BY <1>8, <1>9, <2>1 DEF Withdraws
  <1>17. Listed(t)
    <2> SUFFICES ASSUME NEW i \in 1..Len(out), t.outgoing[i].kind = "register"
                 PROVE  /\ t.outgoing[i].wire # 0
                        /\ \/ t.advertised.wire = t.outgoing[i].wire
                           \/ \E j \in i + 1..Len(out) : Withdraws(t, j, t.outgoing[i].wire)
      BY <1>8 DEF Listed
    <2>1. t.outgoing[i] = r.outgoing[g[i]] /\ g[i] \in 1..Len(r.outgoing)
      BY <1>6, <1>8, <1>9
    <2>2. /\ r.outgoing[g[i]].wire # 0
          /\ \/ r.advertised.wire = r.outgoing[g[i]].wire
             \/ \E j \in g[i] + 1..Len(r.outgoing) : Withdraws(r, j, r.outgoing[g[i]].wire)
      BY <2>1 DEF Sound, Listed
    <2>3. ASSUME NEW j \in g[i] + 1..Len(r.outgoing), Withdraws(r, j, r.outgoing[g[i]].wire)
          PROVE  \E n \in i + 1..Len(out) : Withdraws(t, n, t.outgoing[i].wire)
      <3>1. j \in 1..Len(r.outgoing) /\ g[i] < j
        BY <2>1
      <3>2. PICK n \in 1..Len(out) : g[n] = j /\ Withdraws(t, n, t.outgoing[i].wire)
        BY <1>16, <2>1, <2>3, <3>1
      <3>3. ~(n < i) /\ n # i
        <4>1. n < i => g[n] < g[i]
          BY <1>9
        <4> QED BY <2>1, <3>1, <3>2, <4>1
      <3>4. n \in i + 1..Len(out)
        BY <3>2, <3>3
      <3> QED BY <3>2, <3>4
    <2> QED BY <1>8, <2>1, <2>2, <2>3
  <1>18. Known(t, used)
    BY <1>8, <1>16 DEF Sound, Known
  <1>19. Answered(t, IF r.active.placed /\ drop = w THEN 0 ELSE drop)
    <2> SUFFICES ASSUME drop # 0, ~(r.active.placed /\ drop = w)
                 PROVE  \E n \in 1..Len(out) : Recalls(t, n) /\ t.outgoing[n].wire = drop
      BY <1>8 DEF Answered
    <2>1. PICK i \in 1..Len(r.outgoing) : Recalls(r, i) /\ r.outgoing[i].wire = drop
      BY DEF Sound, Answered
    <2>2. PICK n \in 1..Len(out) : g[n] = i
      BY <1>6, <1>9, <2>1 DEF Recalls
    <2> QED BY <1>8, <1>9, <2>1, <2>2 DEF Recalls
  <1>20. Sound(t, saw, hear \ {p}, used, IF r.active.placed /\ drop = w THEN 0 ELSE drop)
    BY <1>8, <1>11, <1>13, <1>14, <1>15, <1>17, <1>18, <1>19 DEF Sound
  <1> QED BY <1>7, <1>8, <1>20 DEF t, f

\* Between drags the registration outside can go; what is left of a drop goes with it.
LEMMA UnadvertiseKeeps ==
    ASSUME NEW r, NEW saw, NEW hear \in SUBSET Programs, NEW used, NEW drop,
           Sound(r, saw, hear, used, IF drop = r.advertised.wire THEN 0 ELSE drop),
           r.active.owner = NoOne
    PROVE  LET t == Unadvertise(r) IN
           /\ Sound(t, saw, hear, used, drop)
           /\ t.active = r.active /\ t.advertised.wire = 0 /\ t.chunk = r.chunk
           /\ t.registered = r.registered /\ t.wires = r.wires
  <1> DEFINE w == r.advertised.wire
  <1>1. r \in Routers
    BY DEF Sound
  <1>2. CASE w = 0
    <2>1. Unadvertise(r) = r
      BY <1>2 DEF Unadvertise
    <2>2. (IF drop = w THEN 0 ELSE drop) = drop
      BY <1>2
    <2> QED BY <1>2, <2>1, <2>2
  <1>3. CASE w # 0
    <2> DEFINE m == [tag |-> 0, kind |-> "unregister", wire |-> w]
               u == Outer(r, m.tag, m.kind, m.wire)
               t == [u EXCEPT !.advertised = NotAdvertised]
               N == Len(r.outgoing)
    <2>1. m \in OutPacket /\ m.kind = "unregister" /\ m.tag = 0 /\ m.wire = w
      BY <1>1 DEF OutPacket, Routers
    <2>2. t = Unadvertise(r)
      BY <1>3 DEF Unadvertise
    <2> HIDE DEF m
    <2> DEFINE left == IF drop = w THEN 0 ELSE drop
    <2>0. Sound(r, saw, hear, used, left)
      OBVIOUS
    <2> HIDE DEF left
    <2>3. /\ Sound(u, saw, hear, used, left)
          /\ u.registered = r.registered /\ u.advertised = r.advertised /\ u.active = r.active
          /\ u.chunk = r.chunk /\ u.incoming = r.incoming /\ u.wires = r.wires
          /\ u.outgoing = Append(r.outgoing, m)
      <3>1. Sound(u, saw, hear, used, left)
        BY <2>0, <2>1, OuterKeeps
      <3>2. /\ u.registered = r.registered /\ u.advertised = r.advertised /\ u.active = r.active
            /\ u.chunk = r.chunk /\ u.incoming = r.incoming /\ u.wires = r.wires
            /\ u.outgoing = Append(r.outgoing, m)
        <4>1. HasRoom(r.outgoing, m.kind)
          BY <2>1, ShortFits DEF Bulky
        <4> QED BY <1>1, <2>1, <4>1, OuterFields
      <3> QED BY <3>1, <3>2
    <2> HIDE DEF u
    <2>4. u \in Routers
      BY <2>3 DEF Sound
    <2>5. /\ t \in Routers /\ t.advertised = NotAdvertised /\ t.active = u.active
          /\ t.registered = u.registered /\ t.chunk = u.chunk /\ t.wires = u.wires
          /\ t.incoming = u.incoming /\ t.outgoing = u.outgoing
      BY <2>4 DEF Routers, NotAdvertised
    <2> HIDE DEF t
    <2>6. /\ Len(t.outgoing) = N + 1 /\ N \in Nat
          /\ t.outgoing[N + 1] = m
          /\ \A i \in 1..N : t.outgoing[i] = r.outgoing[i]
          /\ \A i \in 1..N + 1 : i \in 1..N \/ i = N + 1
          /\ N + 1 \in 1..N + 1 /\ \A i \in 1..N : N + 1 \in i + 1..N + 1
      <3>1. r.outgoing \in Seq(OutPacket)
        BY <1>1 DEF Routers
      <3> QED BY <2>1, <2>3, <2>5, <3>1
    <2>7. Withdraws(t, N + 1, w)
      BY <2>1, <2>6 DEF Withdraws
    <2>8. Bound(t)
      BY <2>3, <2>5 DEF Sound, Bound
    <2>9. Current(t) /\ Ordered(t) /\ Placed(t) /\ Lasting(t) /\ Heard(t, saw, hear)
      BY <2>3, <2>5
         DEF Sound, Current, Ordered, Placed, Lasting, Heard, Reached, Tells, Begins, Drops
    <2>10. Listed(t)
      <3> SUFFICES ASSUME NEW i \in 1..N + 1, t.outgoing[i].kind = "register"
                   PROVE  /\ t.outgoing[i].wire # 0
                          /\ \E j \in i + 1..N + 1 : Withdraws(t, j, t.outgoing[i].wire)
        BY <2>6 DEF Listed
      <3>1. i \in 1..N /\ i \in 1..Len(u.outgoing)
        BY <2>1, <2>5, <2>6
      <3>2. /\ u.outgoing[i].wire # 0
            /\ \/ u.advertised.wire = u.outgoing[i].wire
               \/ \E j \in i + 1..Len(u.outgoing) : Withdraws(u, j, u.outgoing[i].wire)
        BY <2>3, <2>5, <3>1 DEF Sound, Listed
      <3> QED BY <2>3, <2>5, <2>6, <2>7, <3>1, <3>2 DEF Withdraws
    <2>11. Known(t, used)
      BY <2>3, <2>5, <2>6, <2>7 DEF Sound, Known, Withdraws
    <2>12. Answered(t, drop)
      <3>1. CASE drop = w
        BY <2>6, <2>7, <3>1 DEF Answered, Withdraws, Recalls
      <3>2. CASE drop # w
        BY <2>3, <2>5, <3>2 DEF Sound, Answered, Recalls, left
      <3> QED BY <3>1, <3>2
    <2>13. Sound(t, saw, hear, used, drop)
      BY <2>5, <2>8, <2>9, <2>10, <2>11, <2>12 DEF Sound
    <2> QED BY <2>2, <2>3, <2>5, <2>13 DEF NotAdvertised
  <1> QED BY <1>2, <1>3

\* One packet to each side ends a drag that is forgotten.
LEMMA ToldKeeps ==
    ASSUME Parameters,
           NEW r, NEW saw, NEW hear \in SUBSET Programs, NEW used, NEW drop,
           Sound(r, saw, hear, used, drop), r.active.owner # NoOne,
           NEW m \in OutPacket, m.kind \in {"finish", "reject"}, m.tag = 0,
           m.wire = r.active.wire, r.active.placed => m.kind = "finish",
           NEW n \in InPacket, n.kind \in {"leave", "end"}, n.tag = 0, n.to = r.active.owner
    PROVE  LET over == [Forget(r, r.active.wire) EXCEPT !.active = NoDrag]
               t == Inner(Outer(over, m.tag, m.kind, m.wire), n.to, n.tag, n.kind)
           IN  /\ Sound(t, saw, hear, used, drop)
               /\ t.active = NoDrag /\ t.advertised = r.advertised /\ t.chunk = r.chunk
               /\ t.registered = r.registered /\ t.wires = r.wires
               /\ t.outgoing = Append(over.outgoing, m) /\ t.incoming = Append(over.incoming, n)
  <1> DEFINE w == r.active.wire
             p == r.active.owner
             over == [Forget(r, w) EXCEPT !.active = NoDrag]
             u == Outer(over, m.tag, m.kind, m.wire)
             t == Inner(u, n.to, n.tag, n.kind)
             left == IF r.active.placed /\ drop = w THEN 0 ELSE drop
             rest == hear \ {p}
  <1>1. /\ Sound(over, saw, rest, used, left)
        /\ over.registered = r.registered /\ over.advertised = r.advertised
        /\ over.chunk = r.chunk /\ over.active = NoDrag /\ over.wires = r.wires
    BY OverKeeps
  <1>2. rest \in SUBSET Programs /\ rest \cup {p} \in SUBSET Programs /\ hear \subseteq rest \cup {p}
        /\ p # NoOne
    <2>1. p \in Programs
      BY DEF Sound, Routers, Drags
    <2> QED BY <2>1
  <1> HIDE DEF over, rest, left
  <1>0. m.kind # "register"
    OBVIOUS
  <1>3. /\ Sound(u, saw, rest, used, left)
        /\ u.registered = over.registered /\ u.advertised = over.advertised
        /\ u.chunk = over.chunk /\ u.active = over.active /\ u.wires = over.wires
        /\ u.incoming = over.incoming
        /\ u.outgoing = Append(over.outgoing, m)
        /\ Len(u.outgoing) \in Nat \ {0} /\ u.outgoing[Len(u.outgoing)] = m
    <2>1. Sound(u, saw, rest, used, left)
      BY <1>0, <1>1, <1>2, OuterKeeps
    <2>2. over \in Routers
      BY <1>1 DEF Sound
    <2>3. /\ u.registered = over.registered /\ u.advertised = over.advertised
          /\ u.chunk = over.chunk /\ u.active = over.active /\ u.wires = over.wires
          /\ u.incoming = over.incoming /\ u.outgoing = Append(over.outgoing, m)
          /\ Len(u.outgoing) = Len(over.outgoing) + 1 /\ Len(over.outgoing) \in Nat
          /\ u.outgoing[Len(over.outgoing) + 1] = m
      <3>1. HasRoom(over.outgoing, m.kind)
        BY ShortFits DEF Bulky
      <3> QED BY <2>2, <3>1, OuterFields
    <2> HIDE DEF u
    <2> QED BY <2>1, <2>3
  <1>4. Sound(u, saw, rest, used, drop)
    <2>1. Answered(u, drop)
      <3>1. CASE r.active.placed /\ drop = w
        <4>1. Len(u.outgoing) \in 1..Len(u.outgoing)
          BY <1>3
        <4> QED BY <1>3, <3>1, <4>1 DEF Answered, Recalls
      <3>2. CASE ~(r.active.placed /\ drop = w)
        BY <1>3, <3>2 DEF Sound, left
      <3> QED BY <3>1, <3>2
    <2> QED BY <1>3, <2>1 DEF Sound
  <1> HIDE DEF u
  <1>5. /\ Sound(t, saw, rest \cup {p}, used, drop)
        /\ t.registered = u.registered /\ t.advertised = u.advertised
        /\ t.chunk = u.chunk /\ t.active = u.active /\ t.wires = u.wires
        /\ t.outgoing = u.outgoing /\ t.incoming = Append(u.incoming, n)
    <2>1. /\ n.kind \notin {"drag", "drop"} /\ n.kind \in {"leave", "end"} /\ n.tag = 0
          /\ u.active.owner # n.to /\ n.to = p
      BY <1>1, <1>2, <1>3 DEF NoDrag
    <2>2. Sound(t, saw, IF n.kind \in {"leave", "end"} THEN rest \cup {n.to} ELSE rest, used, drop)
      BY <1>2, <1>4, <2>1, InnerKeeps
    <2>3. Sound(t, saw, rest \cup {p}, used, drop)
      BY <2>1, <2>2
    <2>4. u \in Routers
      BY <1>3 DEF Sound
    <2>5. /\ t.registered = u.registered /\ t.advertised = u.advertised
          /\ t.chunk = u.chunk /\ t.active = u.active /\ t.wires = u.wires
          /\ t.outgoing = u.outgoing /\ t.incoming = Append(u.incoming, n)
      <3>1. HasRoom(u.incoming, n.kind)
        BY ShortFits DEF Bulky
      <3> QED BY <2>4, <3>1, InnerFields
    <2> HIDE DEF t
    <2> QED BY <2>3, <2>5
  <1>6. Sound(t, saw, hear, used, drop)
    BY <1>2, <1>5 DEF Sound, Heard
  <1> QED BY <1>1, <1>3, <1>5, <1>6 DEF t, u, over

LEMMA CancelKeeps ==
    ASSUME Parameters,
           NEW r, NEW saw, NEW hear \in SUBSET Programs, NEW used, NEW drop,
           Sound(r, saw, hear, used, drop)
    PROVE  LET t == Cancel(r) IN
           /\ Sound(t, saw, hear, used, drop)
           /\ t.active.owner = NoOne /\ t.advertised.wire = 0 /\ t.chunk = NoChunk
           /\ t.registered = r.registered
  <1> DEFINE d == r.active
             over == [Forget(r, d.wire) EXCEPT !.active = NoDrag]
             told == IF d.owner = NoOne THEN r
                     ELSE IF d.placed THEN Inner(Outer(over, 0, "finish", d.wire), d.owner, 0, "end")
                     ELSE Inner(Outer(over, 0, "reject", d.wire), d.owner, 0, "leave")
             u == Unadvertise(told)
             t == [u EXCEPT !.chunk = NoChunk]
  <1>1. t = Cancel(r)
    BY DEF Cancel
  <1>2. /\ Sound(told, saw, hear, used, drop) /\ told.active.owner = NoOne
        /\ told.registered = r.registered
    <2>1. CASE d.owner = NoOne
      BY <2>1
    <2>2. ASSUME NEW a \in {"finish", "reject"}, NEW b \in {"leave", "end"}, d.owner # NoOne,
                 d.placed => a = "finish", told = Inner(Outer(over, 0, a, d.wire), d.owner, 0, b)
          PROVE  Sound(told, saw, hear, used, drop) /\ told.active = NoDrag /\ told.registered = r.registered
      <3> DEFINE m == [tag |-> 0, kind |-> a, wire |-> d.wire]
                 n == [to |-> d.owner, tag |-> 0, kind |-> b]
      <3>1. d.owner \in Programs /\ d.wire \in Nat
        BY <2>2 DEF Sound, Routers, Drags
      <3>2. m \in OutPacket /\ m.tag = 0 /\ m.kind = a /\ m.wire = d.wire
        BY <3>1 DEF OutPacket
      <3>3. n \in InPacket /\ n.tag = 0 /\ n.kind = b /\ n.to = d.owner
        BY <3>1 DEF InPacket
      <3>4. told = Inner(Outer(over, m.tag, m.kind, m.wire), n.to, n.tag, n.kind)
        BY <2>2
      <3>5. n.kind \in {"leave", "end"} /\ m.kind \in {"finish", "reject"} /\ m.wire = r.active.wire
            /\ (r.active.placed => m.kind = "finish") /\ n.to = r.active.owner
        BY <2>2, <3>2, <3>3
      <3> HIDE DEF m, n, told
      <3>6. r.active.owner # NoOne
        BY <2>2
      <3> QED BY <3>2, <3>3, <3>4, <3>5, <3>6, ToldKeeps
    <2>3. CASE d.owner # NoOne /\ d.placed
      <3>1. told = Inner(Outer(over, 0, "finish", d.wire), d.owner, 0, "end")
        BY <2>3
      <3> HIDE DEF told, over
      <3> QED BY <2>2, <2>3, <3>1 DEF NoDrag
    <2>4. CASE d.owner # NoOne /\ ~d.placed
      <3>1. told = Inner(Outer(over, 0, "reject", d.wire), d.owner, 0, "leave")
        BY <2>4
      <3> HIDE DEF told, over
      <3> QED BY <2>2, <2>4, <3>1 DEF NoDrag
    <2> QED BY <2>1, <2>3, <2>4
  <1> HIDE DEF told
  <1>3. Sound(told, saw, hear, used, IF drop = told.advertised.wire THEN 0 ELSE drop)
    BY <1>2 DEF Sound, Answered
  <1>4. /\ Sound(u, saw, hear, used, drop) /\ u.active = told.active /\ u.advertised.wire = 0
        /\ u.registered = told.registered
    BY <1>2, <1>3, UnadvertiseKeeps
  <1> HIDE DEF u
  <1>5. u \in Routers
    BY <1>4 DEF Sound
  <1>6. /\ t \in Routers /\ t.active = u.active /\ t.advertised = u.advertised /\ t.chunk = NoChunk
        /\ t.incoming = u.incoming /\ t.outgoing = u.outgoing /\ t.registered = u.registered
    BY <1>5 DEF Routers, NoChunk, Chunks
  <1> HIDE DEF t
  <1>7. Sound(t, saw, hear, used, drop)
    BY <1>4, <1>6, NotedKeeps
  <1> QED BY <1>1, <1>2, <1>4, <1>6, <1>7

\* Between drags the panes that can be dropped on are made those outside.
LEMMA AdvertiseKeeps ==
    ASSUME NEW r, NEW saw, NEW hear \in SUBSET Programs, NEW used, NEW drop,
           Sound(r, saw, hear, used, drop)
    PROVE  Sound(Advertise(r), saw, hear, used, drop)
  <1> DEFINE stands == IF world.mode THEN r.registered \cap world.seen ELSE {}
             gone == Unadvertise(r)
             n == r.wires + 1
             m == [tag |-> n, kind |-> "register", wire |-> n]
             u == Outer(gone, m.tag, m.kind, m.wire)
             a == [wire |-> n, stands |-> stands]
             t == [u EXCEPT !.wires = @ + 1, !.advertised = a]
             N == Len(gone.outgoing)
  <1>1. CASE r.active.owner # NoOne \/ r.chunk # NoChunk \/ r.advertised.stands = stands
    BY <1>1 DEF Advertise
  <1>2. ASSUME r.active.owner = NoOne
        PROVE  /\ Sound(gone, saw, hear, used, drop)
               /\ gone.active = r.active /\ gone.advertised.wire = 0 /\ gone.wires = r.wires
    <2>1. Sound(r, saw, hear, used, IF drop = r.advertised.wire THEN 0 ELSE drop)
      BY DEF Sound, Answered
    <2> QED BY <1>2, <2>1, UnadvertiseKeeps
  <1>3. CASE Advertise(r) = gone /\ r.active.owner = NoOne
    BY <1>2, <1>3
  <1>4. CASE Advertise(r) = t /\ r.active.owner = NoOne
    <2>1. /\ r.wires \in Nat /\ stands \in SUBSET Programs /\ a \in [wire : Nat, stands : SUBSET Programs]
      BY DEF Sound, Routers
    <2>2. n \in Nat /\ n # 0 /\ m \in OutPacket /\ m.kind = "register" /\ m.wire = n
      BY <2>1 DEF OutPacket
    <2>3. a.wire = n
      OBVIOUS
    <2>4. gone \in Routers
      BY <1>2, <1>4 DEF Sound
    <2> HIDE DEF m, a, gone
    <2>5. /\ u \in Routers
          /\ u.registered = gone.registered /\ u.advertised = gone.advertised /\ u.active = gone.active
          /\ u.chunk = gone.chunk /\ u.incoming = gone.incoming /\ u.wires = gone.wires
          /\ u.outgoing \in {gone.outgoing, Append(gone.outgoing, m)}
      <3>1. CASE HasRoom(gone.outgoing, m.kind)
        BY <2>2, <2>4, <3>1, OuterFields
      <3>2. CASE ~HasRoom(gone.outgoing, m.kind)
        <4>1. u = gone
          BY <2>2, <2>4, <3>2, OuterFields
        <4> HIDE DEF u
        <4> QED BY <2>4, <4>1
      <3> QED BY <3>1, <3>2
    <2> HIDE DEF u
    <2>6. u.wires + 1 \in Nat
      BY <2>5 DEF Routers
    <2>7. /\ t \in Routers /\ t.advertised = a /\ t.active = u.active
          /\ t.incoming = u.incoming /\ t.outgoing = u.outgoing
      BY <2>1, <2>5, <2>6 DEF Routers
    <2> HIDE DEF t
    <2> DEFINE L == Len(t.outgoing)
    <2>8. /\ N \in Nat /\ L \in {N, N + 1}
          /\ \A i \in 1..N : t.outgoing[i] = gone.outgoing[i]
          /\ \A i \in 1..L : i \in 1..N \/ t.outgoing[i] = m
          /\ \A i \in 1..N : i \in 1..L /\ \A j \in i + 1..N : j \in i + 1..L /\ j \in 1..N
      <3>1. gone.outgoing \in Seq(OutPacket)
        BY <2>4 DEF Routers
      <3>2. CASE u.outgoing = gone.outgoing
        BY <2>7, <3>1, <3>2
      <3>3. CASE u.outgoing = Append(gone.outgoing, m)
        BY <2>2, <2>7, <3>1, <3>3
      <3> QED BY <2>5, <3>2, <3>3
    <2>9. Sound(gone, saw, hear, used, drop) /\ gone.active.owner = NoOne /\ gone.advertised.wire = 0
      BY <1>2, <1>4
    <2>10. Bound(t)
      BY <2>5, <2>7, <2>9 DEF Sound, Bound
    <2>11. Current(t) /\ Ordered(t) /\ Placed(t) /\ Lasting(t) /\ Heard(t, saw, hear)
      BY <2>5, <2>7, <2>9
         DEF Sound, Current, Ordered, Placed, Lasting, Heard, Reached, Tells, Begins, Drops
    <2>12. Listed(t)
      <3> SUFFICES ASSUME NEW i \in 1..L, t.outgoing[i].kind = "register"
                   PROVE  /\ t.outgoing[i].wire # 0
                          /\ \/ t.advertised.wire = t.outgoing[i].wire
                             \/ \E j \in i + 1..L : Withdraws(t, j, t.outgoing[i].wire)
        BY DEF Listed
      <3>1. CASE t.outgoing[i] = m
        BY <2>2, <2>3, <2>7, <2>8, <3>1
      <3>2. CASE i \in 1..N
        <4>1. /\ gone.outgoing[i].wire # 0
              /\ \E j \in i + 1..N : Withdraws(gone, j, gone.outgoing[i].wire)
          BY <2>8, <2>9, <3>2 DEF Sound, Listed
        <4> QED BY <2>8, <3>2, <4>1 DEF Withdraws
      <3> QED BY <2>8, <3>1, <3>2
    <2>13. Known(t, used)
      BY <2>8, <2>9 DEF Sound, Known, Withdraws
    <2>14. Answered(t, drop)
      BY <2>5, <2>7, <2>8, <2>9 DEF Sound, Answered, Recalls
    <2> QED BY <1>4, <2>7, <2>10, <2>11, <2>12, <2>13, <2>14 DEF Sound
  <1>5. \/ r.active.owner # NoOne \/ r.chunk # NoChunk \/ r.advertised.stands = stands
        \/ Advertise(r) = gone /\ r.active.owner = NoOne
        \/ Advertise(r) = t /\ r.active.owner = NoOne
    BY DEF Advertise
  <1> QED BY <1>1, <1>3, <1>4, <1>5

\* A drag comes over a pane that it was not over before.
LEMMA EntersKeeps ==
    ASSUME Parameters,
           NEW r, NEW saw, NEW hear \in SUBSET Programs, NEW used,
           Sound(r, saw, hear, used, 0), r.active.owner = NoOne,
           NEW p \in Programs, NEW wire, wire = r.advertised.wire, wire # 0
    PROVE  LET t == [Outer(r, wire, "machine", wire)
                        EXCEPT !.active = [NoDrag EXCEPT !.owner = p, !.wire = wire]]
           IN  /\ Sound(t, saw, hear, used, 0) /\ t.advertised = r.advertised
               /\ t.active.owner = p /\ t.active.wire = wire /\ ~t.active.placed
  <1> DEFINE m == [tag |-> wire, kind |-> "machine", wire |-> wire]
             d == [NoDrag EXCEPT !.owner = p, !.wire = wire]
             u == Outer(r, m.tag, m.kind, m.wire)
             t == [u EXCEPT !.active = d]
  <1>1. r \in Routers /\ wire \in Nat
    BY DEF Sound, Routers
  <1>2. m \in OutPacket /\ m.kind # "register"
    BY <1>1 DEF OutPacket
  <1>3. /\ d \in Drags /\ d.owner = p /\ d.wire = wire /\ ~d.placed
    BY <1>1 DEF NoDrag, Drags
  <1>4. t = [Outer(r, wire, "machine", wire) EXCEPT !.active = [NoDrag EXCEPT !.owner = p, !.wire = wire]]
    OBVIOUS
  <1> HIDE DEF m, d
  <1>5. Sound(u, saw, hear, used, 0) /\ u \in Routers
    BY <1>2, OuterKeeps DEF Sound
  <1>6. u.advertised = r.advertised /\ u.active = r.active
    BY <1>1, <1>2, OuterFields
  <1> HIDE DEF u
  <1>7. /\ t \in Routers /\ t.active = d /\ t.advertised = u.advertised
        /\ t.incoming = u.incoming /\ t.outgoing = u.outgoing
    BY <1>3, <1>5 DEF Routers
  <1> HIDE DEF t
  <1>8. \A i \in 1..Len(u.incoming) : ~Begins(u, i)
    <2>1. \A i \in 1..Len(u.incoming) : u.incoming[i].to # NoOne
      <3>1. \A i \in 1..Len(u.incoming) : u.incoming[i] \in InPacket
        BY <1>5 DEF Routers
      <3> QED BY <3>1 DEF InPacket, Parameters
    <2> QED BY <1>5, <1>6, <2>1 DEF Sound, Current
  <1>9. Bound(t)
    BY <1>3, <1>6, <1>7 DEF Bound
  <1>10. Current(t) /\ Ordered(t) /\ Placed(t) /\ Lasting(t)
    BY <1>3, <1>5, <1>7, <1>8 DEF Sound, Current, Ordered, Placed, Lasting, Reached, Begins, Drops
  <1>11. Heard(t, saw, hear)
    BY <1>3, <1>5, <1>6, <1>7 DEF Sound, Heard, Reached, Tells, Drops, Parameters
  <1>12. Listed(t) /\ Known(t, used) /\ Answered(t, 0)
    BY <1>5, <1>7 DEF Sound, Listed, Known, Answered, Withdraws
  <1> QED BY <1>3, <1>4, <1>6, <1>7, <1>9, <1>10, <1>11, <1>12 DEF Sound

\* The program under the pointer is told of the drag or the drop, if there is room: the
\* drop is placed all the same.
LEMMA BeginsKeeps ==
    ASSUME Parameters,
           NEW r, NEW saw, NEW hear \in SUBSET Programs, NEW used, Sound(r, saw, hear, used, 0),
           NEW m \in InPacket, m.kind \in {"drag", "drop"}, m.to = r.active.owner,
           m.tag = r.active.wire, ~r.active.placed, r.advertised.wire # 0
    PROVE  LET t == Placing(r, m.to, m.tag, m.kind) IN
           /\ Sound(t, saw, hear, used, 0)
           /\ m.kind = "drop" => Answered(t, r.advertised.wire)
  <1> DEFINE u == Inner(r, m.to, m.tag, m.kind)
             room == HasRoom(r.incoming, m.kind)
             t == [u EXCEPT !.active.placed = m.kind = "drop",
                            !.active.told = m.kind = "drop" => room]
             N == Len(r.incoming)
  <1>1. r \in Routers /\ r.incoming \in Seq(InPacket)
    BY DEF Sound, Routers
  <1>2. /\ u \in Routers
        /\ u.advertised = r.advertised /\ u.active = r.active
        /\ u.outgoing = r.outgoing
        /\ u.incoming = IF room THEN Append(r.incoming, m) ELSE r.incoming
    BY <1>1, InnerFields
  <1>3. m.to \in Programs /\ m.to # NoOne
    BY DEF InPacket, Parameters
  <1>4. t = Placing(r, m.to, m.tag, m.kind)
    BY DEF Placing
  <1> HIDE DEF u, room
  <1>5. /\ t \in Routers /\ t.active.owner = m.to /\ t.active.wire = r.active.wire
        /\ t.active.placed = (m.kind = "drop")
        /\ Reached(t) <=> m.kind = "drop" /\ room
        /\ t.advertised = r.advertised /\ t.outgoing = r.outgoing
        /\ t.incoming = u.incoming
    <2>1. (m.kind = "drop") \in BOOLEAN /\ (m.kind = "drop" => room) \in BOOLEAN
      OBVIOUS
    <2>2. /\ t \in Routers
          /\ t.active = [u.active EXCEPT !.placed = m.kind = "drop",
                                         !.told = m.kind = "drop" => room]
          /\ t.advertised = u.advertised /\ t.outgoing = u.outgoing /\ t.incoming = u.incoming
      BY <1>2, <2>1 DEF Routers, Drags
    <2>3. u.active \in Drags
      BY <1>2 DEF Routers
    <2> HIDE DEF t
    <2>4. /\ t.active.owner = m.to /\ t.active.wire = r.active.wire
          /\ t.active.placed = (m.kind = "drop") /\ t.active.told = (m.kind = "drop" => room)
      BY <1>2, <2>2, <2>3 DEF Drags
    <2>5. Reached(t) <=> m.kind = "drop" /\ room
      BY <2>4, Zenon DEF Reached
    <2> QED BY <1>2, <2>2, <2>4, <2>5
  <1> HIDE DEF t
  <1>6. Bound(t) /\ Answered(t, 0) /\ (m.kind = "drop" => Answered(t, r.advertised.wire))
    BY <1>3, <1>5 DEF Sound, Bound, Answered
  <1>7. Listed(t) /\ Known(t, used)
    BY <1>5 DEF Sound, Listed, Known, Withdraws
  <1>8. CASE ~room
    <2>1. t.incoming = r.incoming /\ ~Reached(t) /\ ~Reached(r)
      BY <1>2, <1>5, <1>8 DEF Reached
    <2>2. Current(t) /\ Ordered(t) /\ Lasting(t)
      BY <1>5, <2>1 DEF Sound, Current, Ordered, Lasting, Tells, Begins
    <2>3. Placed(t)
      BY <2>1 DEF Sound, Placed, Drops
    <2>4. Heard(t, saw, hear)
      BY <1>5, <2>1 DEF Sound, Heard, Tells, Drops
    <2> QED BY <1>5, <1>4, <1>6, <1>7, <2>2, <2>3, <2>4 DEF Sound
  <1>9. CASE room
    <2>1. /\ Len(t.incoming) = N + 1 /\ N \in Nat
          /\ \A i \in 1..N : t.incoming[i] = r.incoming[i]
          /\ t.incoming[N + 1] = m
          /\ \A i \in 1..N + 1 : i \in 1..N \/ i = N + 1
          /\ N + 1 \in 1..N + 1 /\ \A i \in 1..N : i \in 1..N + 1 /\ N + 1 \in i + 1..N + 1
      BY <1>1, <1>2, <1>5, <1>9
    <2>2. Current(t)
      BY <1>5, <2>1 DEF Sound, Current, Begins
    <2>3. Ordered(t)
      <3> SUFFICES ASSUME NEW i \in 1..N + 1, Begins(t, i), NEW j \in i + 1..N + 1,
                          Tells(t, t.incoming[i].to, j)
                   PROVE  FALSE
        BY <2>1 DEF Ordered
      <3>1. j # N + 1
        BY <2>1 DEF Tells
      <3>2. i \in 1..N /\ j \in i + 1..N /\ j \in 1..N
        BY <2>1, <3>1
      <3> QED BY <2>1, <3>2 DEF Sound, Ordered, Tells, Begins
    <2>4. Placed(t)
      <3>1. CASE m.kind = "drop"
        <4>1. Drops(t, N + 1)
          BY <2>1, <3>1 DEF Drops
        <4> QED BY <1>5, <1>9, <2>1, <3>1, <4>1 DEF Placed
      <3>2. CASE m.kind = "drag"
        BY <1>5, <2>1, <3>2 DEF Sound, Placed, Reached, Drops
      <3> QED BY <3>1, <3>2
    <2>5. Lasting(t)
      BY <2>1 DEF Sound, Lasting
    <2>6. Heard(t, saw, hear)
      <3>1. \A p \in Programs : (\E i \in 1..N : Tells(r, p, i)) => \E i \in 1..N + 1 : Tells(t, p, i)
        BY <2>1 DEF Tells
      <3>2. m.kind = "drop" => \E i \in 1..N + 1 : Drops(t, i)
        BY <2>1 DEF Drops
      <3> QED BY <1>5, <1>9, <2>1, <3>1, <3>2 DEF Sound, Heard, Reached
    <2> QED BY <1>5, <1>4, <1>6, <1>7, <2>2, <2>3, <2>4, <2>5, <2>6 DEF Sound
  <1> QED BY <1>8, <1>9

\* A drag leaves a pane.
LEMMA SwitchKeeps ==
    ASSUME Parameters,
           NEW r, NEW saw, NEW hear \in SUBSET Programs, NEW used, NEW drop,
           Sound(r, saw, hear, used, drop), ~r.active.placed, NEW wire \in Nat
    PROVE  LET t == Switch(r, wire) IN
           /\ Sound(t, saw, hear, used, drop)
           /\ t.active.owner = NoOne /\ ~t.active.placed /\ t.advertised = r.advertised
           /\ t.registered = r.registered
  <1> DEFINE old == r.active
             over == [Forget(r, old.wire) EXCEPT !.active = NoDrag]
             n == [to |-> old.owner, tag |-> 0, kind |-> "leave"]
             told == IF old.owner = NoOne THEN r ELSE Inner(over, n.to, n.tag, n.kind)
             m == [tag |-> 0, kind |-> "reject", wire |-> wire]
             t == Outer(told, m.tag, m.kind, m.wire)
             rest == hear \ {old.owner}
  <1>1. t = Switch(r, wire)
    BY DEF Switch
  <1>2. m \in OutPacket /\ m.kind # "register"
    BY DEF OutPacket
  <1>3. /\ Sound(told, saw, hear, used, drop) /\ told.active.owner = NoOne /\ ~told.active.placed
        /\ told.advertised = r.advertised /\ told.registered = r.registered
    <2>1. CASE old.owner = NoOne
      BY <2>1
    <2>2. CASE old.owner # NoOne
      <3>1. /\ Sound(over, saw, rest, used, drop) /\ over \in Routers
            /\ over.registered = r.registered /\ over.advertised = r.advertised
            /\ over.active = NoDrag
        BY <2>2, OverKeeps
      <3>2. old.owner \in Programs
        BY <2>2 DEF Sound, Routers, Drags
      <3>3. n \in InPacket /\ n.kind = "leave" /\ n.to = old.owner /\ n.tag = 0
        BY <3>2 DEF InPacket
      <3>4. told = Inner(over, n.to, n.tag, n.kind)
        BY <2>2
      <3> HIDE DEF over, n, told
      <3>5. Sound(told, saw, IF n.kind \in {"leave", "end"} THEN rest \cup {n.to} ELSE rest, used, drop)
        <4>1. over.active.owner # n.to
          BY <2>2, <3>1, <3>3 DEF NoDrag
        <4>2. rest \in SUBSET Programs /\ n.kind \notin {"drag", "drop"}
          BY <3>3
        <4> HIDE DEF rest
        <4> QED BY <3>1, <3>3, <3>4, <4>1, <4>2, InnerKeeps
      <3>6. Sound(told, saw, hear, used, drop)
        <4>1. hear \subseteq IF n.kind \in {"leave", "end"} THEN rest \cup {n.to} ELSE rest
          BY <3>3
        <4> HIDE DEF rest
        <4> QED BY <3>5, <4>1 DEF Sound, Heard
      <3>7. told.registered = over.registered /\ told.advertised = over.advertised /\ told.active = over.active
        BY <3>1, <3>3, <3>4, InnerFields
      <3> QED BY <3>1, <3>6, <3>7 DEF NoDrag
    <2> QED BY <2>1, <2>2
  <1> HIDE DEF told, m
  <1>4. Sound(t, saw, hear, used, drop)
    BY <1>2, <1>3, OuterKeeps
  <1>5. t.active = told.active /\ t.advertised = told.advertised /\ t.registered = told.registered
    <2>1. told \in Routers
      BY <1>3 DEF Sound
    <2> QED BY <1>2, <2>1, OuterFields
  <1> HIDE DEF t
  <1> QED BY <1>1, <1>3, <1>4, <1>5

-----------------------------------------------------------------------------
\* A drag moves, drops or goes away: a drop is the router's, or its end is on its way.
LEMMA EventKeeps ==
    ASSUME Parameters,
           NEW r, NEW saw, NEW hear \in SUBSET Programs, NEW used, Sound(r, saw, hear, used, 0),
           NEW kind \in {"drag", "drop", "gone"}, NEW at,
           NEW wire, wire = r.advertised.wire, wire # 0
    PROVE  LET t == Event(r, kind, at, wire) IN
           Sound(t, saw, hear, used, 0) /\ (kind = "drop" => Answered(t, wire))
  <1> DEFINE target == IF at \in r.registered \cap world.seen THEN at ELSE NoOne
             s == IF r.active.owner # target THEN Switch(r, wire) ELSE r
             e == [Outer(s, wire, "machine", wire)
                      EXCEPT !.active = [NoDrag EXCEPT !.owner = target, !.wire = wire]]
             t == IF s.active.owner = NoOne THEN e ELSE s
             over == Event(r, kind, at, wire)
  <1>1. r \in Routers /\ wire \in Nat /\ target \in Programs \cup {NoOne}
    BY DEF Sound, Routers
  <1>2. /\ over = IF r.active.placed THEN r
                  ELSE IF kind = "gone" THEN Cancel(r)
                  ELSE IF target = NoOne THEN (IF kind = "drop" THEN Cancel(s) ELSE s)
                  ELSE Placing(t, target, wire, kind)
    BY DEF Event
  <1> SUFFICES Sound(over, saw, hear, used, 0) /\ (kind = "drop" => Answered(over, wire))
    OBVIOUS
  <1> HIDE DEF over, target
  <1>3. CASE r.active.placed
    BY <1>2, <1>3 DEF Sound, Bound, Answered
  <1>4. CASE ~r.active.placed /\ kind = "gone"
    BY <1>2, <1>4, CancelKeeps
  <1>5. CASE ~r.active.placed /\ kind # "gone"
    <2>1. /\ Sound(s, saw, hear, used, 0) /\ s.advertised = r.advertised /\ ~s.active.placed
          /\ s.active.owner \in {NoOne, target}
      BY <1>1, <1>5, SwitchKeeps
    <2> HIDE DEF s
    <2>2. CASE target = NoOne /\ kind = "drop"
      <3>1. over = Cancel(s)
        BY <1>2, <1>5, <2>2
      <3>2. Sound(over, saw, hear, used, 0)
        BY <2>1, <3>1, CancelKeeps
      <3>3. Sound(s, saw, hear, wire, 0)
        BY <2>1 DEF Sound, Known
      <3>4. Sound(over, saw, hear, wire, 0) /\ over.advertised.wire = 0
        BY <3>1, <3>3, CancelKeeps
      <3>5. Answered(over, wire)
        BY <3>4 DEF Sound, Known, Answered, Withdraws, Recalls
      <3> QED BY <3>2, <3>5
    <2>3. CASE target = NoOne /\ kind # "drop"
      BY <1>2, <1>5, <2>1, <2>3
    <2>4. CASE target # NoOne
      <3>1. target \in Programs
        BY <1>1, <2>4
      <3>2. /\ Sound(t, saw, hear, used, 0) /\ t.advertised = r.advertised
            /\ t.active.owner = target /\ t.active.wire = wire /\ ~t.active.placed
        <4>1. CASE s.active.owner = NoOne
          <5>0. Sound(s, saw, hear, used, 0) /\ wire = s.advertised.wire
            BY <2>1
          <5>1. /\ Sound(e, saw, hear, used, 0) /\ e.advertised = s.advertised
                /\ e.active.owner = target /\ e.active.wire = wire /\ ~e.active.placed
            BY <3>1, <4>1, <5>0, EntersKeeps
          <5> HIDE DEF e
          <5> QED BY <2>1, <4>1, <5>1
        <4>2. CASE s.active.owner # NoOne
          BY <2>1, <2>4, <4>2 DEF Sound, Bound
        <4> QED BY <4>1, <4>2
      <3> DEFINE m == [to |-> target, tag |-> wire, kind |-> kind]
      <3>3. m \in InPacket /\ m.to = target /\ m.tag = wire /\ m.kind = kind
        BY <1>1, <1>5, <3>1 DEF InPacket
      <3>4. over = Placing(t, m.to, m.tag, m.kind)
        BY <1>2, <1>5, <2>4
      <3> HIDE DEF m, t
      <3>5. m.kind \in {"drag", "drop"}
        BY <1>5, <3>3
      <3>6. m.to = t.active.owner /\ m.tag = t.active.wire /\ t.advertised.wire # 0
        BY <3>2, <3>3
      <3>7. PICK b : b = Placing(t, m.to, m.tag, m.kind)
        OBVIOUS
      <3>8. Sound(b, saw, hear, used, 0) /\ (m.kind = "drop" => Answered(b, t.advertised.wire))
        BY <3>2, <3>3, <3>5, <3>6, <3>7, BeginsKeeps
      <3> QED BY <3>2, <3>3, <3>4, <3>7, <3>8
    <2> QED BY <2>2, <2>3, <2>4
  <1> QED BY <1>3, <1>4, <1>5

-----------------------------------------------------------------------------
LEMMA Starts == Parameters /\ Init => IInv
  <1> SUFFICES ASSUME Parameters, Init PROVE IInv
    OBVIOUS
  <1>1. Router \in Routers
    <2>1. << >> \in Seq(OutPacket) /\ << >> \in Seq(InPacket)
      OBVIOUS
    <2> QED BY <2>1 DEF Init, Router, Routers, NotAdvertised, NoDrag, NoChunk, Drags, Chunks
  <1>2. /\ Router.advertised = NotAdvertised /\ Router.active = NoDrag
        /\ Router.outgoing = << >> /\ Router.incoming = << >>
    BY DEF Init, Router
  <1>3. Bound(Router) /\ Known(Router, 0) /\ Answered(Router, 0) /\ Listed(Router)
    BY <1>2 DEF Bound, Known, Answered, Listed, NotAdvertised, NoDrag
  <1>4. Lasting(Router) /\ Current(Router) /\ Ordered(Router) /\ Placed(Router)
    BY <1>2 DEF Lasting, Current, Ordered, Placed
  <1>5. Heard(Router, sees, Hearing)
    BY <1>2 DEF Init, Heard, Hearing, Reached, NoDrag, Parameters
  <1> QED BY <1>1, <1>3, <1>4, <1>5 DEF Init, IInv, Sound, Awaited

\* What a step that only works on the router has to show.
LEMMA RouterStep ==
    ASSUME IInv, NEW r, Sound(r, sees, Hearing, host.registered, Awaited), Become(r),
           UNCHANGED <<world, host, sees, deaf>>
    PROVE  IInv'
  <1>1. Router' = r
    BY DEF Sound, Routers, Become, Router
  <1> QED BY <1>1 DEF IInv, Hearing, Awaited

LEMMA RouterIsSound ==
    ASSUME IInv
    PROVE  /\ Sound(Router, sees, Hearing, host.registered, Awaited)
           /\ Hearing \in SUBSET Programs
           /\ Router \in Routers
           /\ Router.registered = registered /\ Router.advertised = advertised
           /\ Router.active = active /\ Router.chunk = chunk
           /\ Router.outgoing = outgoing /\ Router.incoming = incoming
           /\ Router.wires = wires
  BY DEF IInv, Hearing, Sound, Router

LEMMA TimeoutsKeep ==
    ASSUME Parameters,
           NEW r, NEW saw, NEW hear \in SUBSET Programs, NEW used, NEW drop,
           Sound(r, saw, hear, used, drop), NEW late \in BOOLEAN
    PROVE  Sound(Timeouts(r, late), saw, hear, used, drop)
  <1>1. PICK c : c = IF late /\ r.chunk # NoChunk THEN Cancel(r) ELSE r
    OBVIOUS
  <1>2. Sound(c, saw, hear, used, drop)
    BY <1>1, CancelKeeps
  <1>3. Timeouts(r, late) \in {c, Cancel(c)}
    BY <1>1 DEF Timeouts
  <1> QED BY <1>2, <1>3, CancelKeeps

LEMMA TickKeeps == ASSUME Parameters, IInv, Tick PROVE IInv'
  <1>1. PICK r : r = [Router EXCEPT !.registered = @ \cap world.alive]
    OBVIOUS
  <1>2. PICK late \in BOOLEAN : Become(Advertise(Timeouts(r, late)))
    BY <1>1 DEF Tick
  <1>3. PICK s : s = Timeouts(r, late)
    OBVIOUS
  <1>4. PICK t : t = Advertise(s)
    OBVIOUS
  <1>5. Sound(r, sees, Hearing, host.registered, Awaited)
    <2>1. /\ r \in Routers /\ r.active = active /\ r.advertised = advertised
          /\ r.incoming = incoming /\ r.outgoing = outgoing
      BY <1>1, RouterIsSound DEF Routers
    <2> QED BY <2>1, RouterIsSound, NotedKeeps
  <1>6. Sound(s, sees, Hearing, host.registered, Awaited)
    BY <1>3, <1>5, TimeoutsKeep, RouterIsSound
  <1>7. Sound(t, sees, Hearing, host.registered, Awaited)
    BY <1>4, <1>6, AdvertiseKeeps, RouterIsSound
  <1> QED BY <1>2, <1>3, <1>4, <1>7, RouterStep DEF Tick

LEMMA DisableKeeps == ASSUME Parameters, IInv, Disable PROVE IInv'
  <1>1. PICK r : r = Cancel(Router)
    OBVIOUS
  <1>2. Sound(r, sees, Hearing, host.registered, Awaited)
    BY <1>1, CancelKeeps, RouterIsSound
  <1>3. PICK t : t = [r EXCEPT !.registered = {}]
    OBVIOUS
  <1>4. /\ t \in Routers /\ t.active = r.active /\ t.advertised = r.advertised
        /\ t.incoming = r.incoming /\ t.outgoing = r.outgoing
    <2>1. r \in Routers
      BY <1>2 DEF Sound
    <2> QED BY <1>3, <2>1 DEF Routers
  <1>5. Sound(t, sees, Hearing, host.registered, Awaited)
    BY <1>2, <1>4, NotedKeeps, RouterIsSound
  <1> QED BY <1>1, <1>3, <1>5, RouterStep DEF Disable

LEMMA DetachKeeps == ASSUME Parameters, IInv, Detach PROVE IInv'
  <1>1. PICK r : r = Cancel(Router)
    OBVIOUS
  <1>2. /\ Sound(r, sees, Hearing, host.registered, Awaited) /\ r \in Routers
        /\ r.active.owner = NoOne /\ r.advertised.wire = 0
    BY <1>1, CancelKeeps, RouterIsSound DEF Sound
  <1> DEFINE mine(p) == {i \in 1..Len(r.incoming) : r.incoming[i].to = p}
             s == [r EXCEPT !.registered = {}, !.outgoing = << >>, !.incoming = << >>]
             taken(p, n) == {i \in mine(p) : i <= n}
             ends(p, n) == \E i \in taken(p, n) : r.incoming[i].kind \in {"leave", "end"}
  <1>3. /\ Become(s) /\ UNCHANGED world
        /\ host' = [registered |-> 0, dropped |-> 0, asked |-> FALSE, ignored |-> FALSE]
    BY <1>1 DEF Detach
  <1>4. PICK n \in 0..Len(r.incoming) :
           /\ deaf' = deaf \cup {p \in world.alive : mine(p) # taken(p, n)}
           /\ sees' = [p \in Programs |-> IF ends(p, n) THEN "nothing" ELSE sees[p]]
    BY <1>1 DEF Detach
  <1>5. \A p \in world.alive \ deaf' : sees'[p] = "nothing"
    <2> SUFFICES ASSUME NEW p \in world.alive \ deaf', sees'[p] # "nothing" PROVE FALSE
      OBVIOUS
    <2>1. p \in Hearing /\ p \in Programs /\ mine(p) = taken(p, n)
      BY <1>4, RouterIsSound DEF Hearing
    <2>2. sees[p] # "nothing" /\ ~ends(p, n)
      <3> HIDE DEF ends
      <3> QED BY <1>4, <2>1
    <2>3. p # NoOne
      BY <2>1 DEF Parameters
    <2>4. PICK i \in 1..Len(r.incoming) : Tells(r, p, i)
      BY <1>2, <2>1, <2>2, <2>3 DEF Sound, Heard
    <2>5. i \in mine(p) /\ r.incoming[i].kind \in {"leave", "end"}
      BY <2>4 DEF Tells
    <2> HIDE DEF mine
    <2> QED BY <2>1, <2>2, <2>5
  <1>6. sees' \in [Programs -> {"nothing", "drag", "drop"}]
    <2> HIDE DEF ends
    <2> QED BY <1>4 DEF IInv
  <1>7. /\ s \in Routers /\ s.active = r.active /\ s.advertised = r.advertised
        /\ s.outgoing = << >> /\ s.incoming = << >>
    <2>1. << >> \in Seq(OutPacket) /\ << >> \in Seq(InPacket)
      OBVIOUS
    <2>2. s \in Routers
      BY <1>2, <2>1 DEF Routers
    <2> QED BY <1>2, <2>2 DEF Routers
  <1> HIDE DEF s
  <1>8. Router' = s
    BY <1>3, <1>7 DEF Routers, Become, Router
  <1>9. Bound(s) /\ Lasting(s) /\ Current(s) /\ Ordered(s) /\ Placed(s)
    BY <1>2, <1>7 DEF Sound, Bound, Lasting, Current, Ordered, Placed, Reached
  <1>10. Listed(s) /\ Known(s, 0) /\ Answered(s, 0)
    BY <1>7 DEF Listed, Known, Answered
  <1>11. Heard(s, sees', Hearing')
    <2>1. Hearing' = world.alive \ deaf'
      BY <1>3 DEF Hearing
    <2>2. Hearing' \subseteq Programs
      BY <2>1 DEF IInv
    <2> QED BY <1>2, <1>5, <1>7, <2>1, <2>2 DEF Heard, Reached, Parameters
  <1>12. host'.registered = 0 /\ Awaited' = 0
    BY <1>3 DEF Awaited
  <1> QED BY <1>3, <1>6, <1>7, <1>8, <1>9, <1>10, <1>11, <1>12 DEF IInv, Sound

LEMMA WorldKeeps == ASSUME IInv, World PROVE IInv'
  <1>1. Router' = Router
    BY DEF World, Router
  <1>2. /\ world'.alive \subseteq world.alive
        /\ world' \in [mode : BOOLEAN, seen : SUBSET Programs, alive : SUBSET Programs]
    <2>1. world \in [mode : BOOLEAN, seen : SUBSET Programs, alive : SUBSET Programs]
      BY DEF IInv
    <2>2. CASE world' = [world EXCEPT !.mode = ~@]
      BY <2>1, <2>2
    <2>3. ASSUME NEW p \in world.alive,
                 world' = [world EXCEPT !.seen = IF p \in @ THEN @ \ {p} ELSE @ \cup {p}]
          PROVE  <1>2!1 /\ <1>2!2
      BY <2>1, <2>3
    <2>4. ASSUME NEW p \in world.alive,
                 world' = [world EXCEPT !.alive = @ \ {p}, !.seen = @ \ {p}]
          PROVE  <1>2!1 /\ <1>2!2
      BY <2>1, <2>4
    <2> QED BY <2>2, <2>3, <2>4 DEF World
  <1>3. Heard(Router, sees, Hearing') /\ UNCHANGED Awaited
    BY <1>2, RouterIsSound DEF World, Sound, Heard, Hearing, Awaited
  <1> QED BY <1>1, <1>2, <1>3 DEF World, IInv, Sound

-----------------------------------------------------------------------------
\* What the requests of a program begin with.
LEMMA CancelMineKeeps ==
    ASSUME Parameters, IInv, NEW p \in Programs, NEW r, r = CancelMine(p),
           NEW have \in SUBSET Programs, Become([r EXCEPT !.registered = have]),
           UNCHANGED <<world, host, sees, deaf>>
    PROVE  IInv'
  <1>1. Sound(r, sees, Hearing, host.registered, Awaited) /\ r \in Routers
    BY CancelKeeps, RouterIsSound DEF CancelMine, Sound
  <1>2. PICK t : t = [r EXCEPT !.registered = have]
    OBVIOUS
  <1>3. /\ t \in Routers /\ t.active = r.active /\ t.advertised = r.advertised
        /\ t.incoming = r.incoming /\ t.outgoing = r.outgoing
    BY <1>1, <1>2 DEF Routers
  <1>4. Sound(t, sees, Hearing, host.registered, Awaited)
    BY <1>1, <1>3, NotedKeeps, RouterIsSound
  <1> QED BY <1>2, <1>4, RouterStep

LEMMA RegisterKeeps ==
    ASSUME Parameters, IInv, NEW p \in Programs, Register(p) \/ Unregister(p)
    PROVE  IInv'
  <1>1. PICK r : r = CancelMine(p)
    OBVIOUS
  <1>2. r \in Routers
    BY <1>1, CancelKeeps, RouterIsSound DEF CancelMine, Sound
  <1>3. r.registered \cup {p} \in SUBSET Programs /\ r.registered \ {p} \in SUBSET Programs
    BY <1>2 DEF Routers
  <1>4. CASE Register(p)
    <2>1. PICK have : have = r.registered \cup {p}
      OBVIOUS
    <2>2. [r EXCEPT !.registered = @ \cup {p}] = [r EXCEPT !.registered = have]
      BY <1>2, <2>1 DEF Routers
    <2>3. Become([r EXCEPT !.registered = have]) /\ UNCHANGED <<world, host, sees, deaf>>
      BY <1>1, <1>4, <2>2 DEF Register, Asks
    <2> QED BY <1>1, <1>3, <2>1, <2>3, CancelMineKeeps
  <1>5. CASE Unregister(p)
    <2>1. PICK have : have = r.registered \ {p}
      OBVIOUS
    <2>2. [r EXCEPT !.registered = @ \ {p}] = [r EXCEPT !.registered = have]
      BY <1>2, <2>1 DEF Routers
    <2>3. Become([r EXCEPT !.registered = have]) /\ UNCHANGED <<world, host, sees, deaf>>
      BY <1>1, <1>5, <2>2 DEF Unregister, Asks
    <2> QED BY <1>1, <1>3, <2>1, <2>3, CancelMineKeeps
  <1> QED BY <1>4, <1>5

LEMMA StatusKeeps == ASSUME IInv, NEW p \in Programs, Status(p) PROVE IInv'
  <1> DEFINE m == [tag |-> active.wire, kind |-> "status", wire |-> active.wire]
  <1>1. PICK r : r = Outer(Router, m.tag, m.kind, m.wire)
    OBVIOUS
  <1>2. m \in OutPacket /\ m.kind # "register"
    BY RouterIsSound DEF Routers, Drags, OutPacket
  <1>3. Become(r) /\ UNCHANGED <<world, host, sees, deaf>>
    BY <1>1 DEF Status, Asks
  <1> HIDE DEF m
  <1>4. Sound(r, sees, Hearing, host.registered, Awaited)
    BY <1>1, <1>2, OuterKeeps, RouterIsSound
  <1> QED BY <1>3, <1>4, RouterStep

\* A program that asks for what it has not is told so.
LEMMA RefusedKeeps ==
    ASSUME Parameters, IInv, NEW p \in Programs,
           NEW r, r = Inner(Router, p, 0, "refused")
    PROVE  Sound(r, sees, Hearing, host.registered, Awaited) /\ r.active = active
  <1> DEFINE m == [to |-> p, tag |-> 0, kind |-> "refused"]
  <1>1. m \in InPacket /\ m.kind = "refused" /\ r = Inner(Router, m.to, m.tag, m.kind)
    BY DEF InPacket
  <1> HIDE DEF m
  <1>2. m.kind \notin {"drag", "drop"} /\ m.kind \notin {"leave", "end"}
    BY <1>1
  <1>3. Sound(r, sees, IF m.kind \in {"leave", "end"} THEN Hearing \cup {m.to} ELSE Hearing,
              host.registered, Awaited)
    BY <1>1, <1>2, InnerKeeps, RouterIsSound
  <1>4. r.active = active
    BY <1>1, InnerFields, RouterIsSound
  <1> QED BY <1>2, <1>3, <1>4

LEMMA FetchKeeps == ASSUME Parameters, IInv, NEW p \in Programs, Fetch(p) PROVE IInv'
  <1> DEFINE m == [tag |-> active.wire, kind |-> "fetch", wire |-> active.wire]
  <1>1. UNCHANGED <<world, host, sees, deaf>>
    BY DEF Fetch, Asks
  <1>2. PICK r : r = Inner(Router, p, 0, "refused")
    OBVIOUS
  <1>3. PICK s : s = Outer(Router, m.tag, m.kind, m.wire)
    OBVIOUS
  <1>4. PICK t : t = [s EXCEPT !.active.due = TRUE]
    OBVIOUS
  <1>5. Become(r) \/ Become(t)
    BY <1>2, <1>3, <1>4 DEF Fetch, Asks
  <1>6. CASE Become(r)
    BY <1>1, <1>2, <1>6, RefusedKeeps, RouterStep
  <1>7. CASE Become(t)
    <2>1. m \in OutPacket /\ m.kind # "register"
      BY RouterIsSound DEF Routers, Drags, OutPacket
    <2> HIDE DEF m
    <2>2. Sound(s, sees, Hearing, host.registered, Awaited) /\ s \in Routers
      BY <1>3, <2>1, OuterKeeps, RouterIsSound DEF Sound
    <2>3. /\ t \in Routers /\ t.active.owner = s.active.owner /\ t.active.wire = s.active.wire
          /\ t.active.placed = s.active.placed /\ t.active.told = s.active.told
          /\ t.advertised = s.advertised
          /\ t.incoming = s.incoming /\ t.outgoing = s.outgoing
      BY <1>4, <2>2 DEF Routers, Drags
    <2>4. Sound(t, sees, Hearing, host.registered, Awaited)
      BY <2>2, <2>3, NotedKeeps, RouterIsSound
    <2> QED BY <1>1, <1>7, <2>4, RouterStep
  <1> QED BY <1>5, <1>6, <1>7

\* A drop that is over takes its registration with it.
LEMMA FinishKeeps ==
    ASSUME NEW r \in Routers, NEW o, o = [r EXCEPT !.active = NoDrag],
           NEW saw, NEW hear \in SUBSET Programs, NEW used, NEW drop,
           NEW left, left = IF drop = r.advertised.wire THEN 0 ELSE drop,
           Sound(o, saw, hear, used, left),
           NEW m \in OutPacket, m.kind = "finish"
    PROVE  LET t == Finish(Outer(r, m.tag, m.kind, m.wire)) IN
           Sound(t, saw, hear, used, drop) /\ t.active = NoDrag
  <1>1. PICK s : s = Outer(r, m.tag, m.kind, m.wire)
    OBVIOUS
  <1>2. PICK u : u = Outer(o, m.tag, m.kind, m.wire)
    OBVIOUS
  <1>3. PICK v : v = [s EXCEPT !.active = NoDrag, !.chunk = NoChunk]
    OBVIOUS
  <1>5. Sound(u, saw, hear, used, left)
    BY <1>2, OuterKeeps
  <1>6. /\ o \in Routers /\ o.active = NoDrag /\ o.advertised = r.advertised
        /\ o.incoming = r.incoming /\ o.outgoing = r.outgoing
    BY DEF Sound, Routers
  <1>7. /\ s \in Routers /\ s.advertised = r.advertised
        /\ s.incoming = r.incoming /\ s.outgoing = Append(r.outgoing, m)
    BY <1>1, OuterFields, ShortFits DEF Bulky
  <1>8. /\ u.active = NoDrag /\ u.advertised = r.advertised
        /\ u.incoming = r.incoming /\ u.outgoing = Append(r.outgoing, m)
    <2>1. /\ u.active = o.active /\ u.advertised = o.advertised
          /\ u.incoming = o.incoming /\ u.outgoing = Append(o.outgoing, m)
      BY <1>2, <1>6, OuterFields, ShortFits DEF Bulky
    <2> QED BY <1>6, <2>1
  <1>9. /\ v \in Routers /\ v.active = NoDrag /\ v.advertised = s.advertised
        /\ v.incoming = s.incoming /\ v.outgoing = s.outgoing
    BY <1>3, <1>7 DEF Routers, NoDrag, Drags, NoChunk, Chunks
  <1>10. Sound(v, saw, hear, used, left)
    BY <1>5, <1>7, <1>8, <1>9, NotedKeeps
  <1>11. Sound(v, saw, hear, used, IF drop = v.advertised.wire THEN 0 ELSE drop)
    BY <1>7, <1>9, <1>10
  <1>12. v.active.owner = NoOne
    BY <1>9 DEF NoDrag
  <1>13. Sound(Unadvertise(v), saw, hear, used, drop) /\ Unadvertise(v).active = v.active
    BY <1>11, <1>12, UnadvertiseKeeps
  <1> QED BY <1>1, <1>3, <1>9, <1>13 DEF Finish

LEMMA DoneKeeps == ASSUME Parameters, IInv, NEW p \in Programs, Done(p) PROVE IInv'
  <1> DEFINE w == active.wire
             m == [tag |-> w, kind |-> "finish", wire |-> w]
  <1>1. /\ UNCHANGED <<world, host, deaf>>
        /\ sees' = [sees EXCEPT ![p] = "nothing"]
        /\ sees \in [Programs -> {"nothing", "drag", "drop"}]
    BY DEF Done, Asks, IInv
  <1>2. PICK r : r = Inner(Router, p, 0, "refused")
    OBVIOUS
  <1>3. PICK f : f = Forget(Router, w)
    OBVIOUS
  <1>4. PICK t : t = Finish(Outer(f, m.tag, m.kind, m.wire))
    OBVIOUS
  <1>5. \/ Become(r) /\ (active.owner # p \/ ~active.placed)
        \/ Become(t) /\ active.owner = p /\ active.placed
    BY <1>2, <1>3, <1>4 DEF Done, Asks, Mine
  <1>6. ASSUME NEW s, Become(s), Sound(s, sees', Hearing, host.registered, Awaited) PROVE IInv'
    <2>1. Router' = s
      BY <1>6 DEF Sound, Routers, Become, Router
    <2>2. sees' \in [Programs -> {"nothing", "drag", "drop"}]
      BY <1>1
    <2> QED BY <1>1, <1>6, <2>1, <2>2 DEF IInv, Hearing, Awaited
  <1>7. CASE Become(r) /\ (active.owner # p \/ ~active.placed)
    <2>1. Sound(r, sees, Hearing, host.registered, Awaited) /\ r.active = active
      BY <1>2, RefusedKeeps
    <2>2. Heard(r, sees', Hearing)
      BY <1>1, <1>7, <2>1, RouterIsSound DEF Sound, Heard, Reached
    <2> QED BY <1>6, <1>7, <2>1, <2>2 DEF Sound
  <1>8. CASE Become(t) /\ active.owner = p /\ active.placed
    <2>1. PICK o : o = [f EXCEPT !.active = NoDrag]
      OBVIOUS
    <2>2. p # NoOne
      BY DEF Parameters
    <2>3. PICK rest : rest = Hearing \ {p}
      OBVIOUS
    <2>4. /\ f \in Routers /\ f.advertised = advertised
          /\ Sound(o, sees, rest, host.registered,
                   IF active.placed /\ Awaited = w THEN 0 ELSE Awaited)
      <3>1. PICK drop : drop = Awaited
        OBVIOUS
      <3>2. Sound(Router, sees, Hearing, host.registered, drop) /\ Router.active.owner # NoOne
        BY <1>8, <2>2, <3>1, RouterIsSound
      <3>3. /\ Forget(Router, Router.active.wire) \in Routers
            /\ Forget(Router, Router.active.wire).advertised = Router.advertised
            /\ Sound([Forget(Router, Router.active.wire) EXCEPT !.active = NoDrag], sees,
                     Hearing \ {Router.active.owner}, host.registered,
                     IF Router.active.placed /\ drop = Router.active.wire THEN 0 ELSE drop)
        BY <3>2, OverKeeps, RouterIsSound
      <3> QED BY <1>3, <1>8, <2>1, <2>3, <3>1, <3>3, RouterIsSound
    <2>5. advertised.wire = w
      BY <1>8, <2>2, RouterIsSound DEF Sound, Bound
    <2>6. Sound(o, sees, rest, host.registered, IF Awaited = f.advertised.wire THEN 0 ELSE Awaited)
      BY <1>8, <2>4, <2>5
    <2>7. m \in OutPacket /\ m.kind = "finish"
      BY RouterIsSound DEF Routers, Drags, OutPacket
    <2> HIDE DEF m
    <2>8. Sound(t, sees, rest, host.registered, Awaited) /\ t.active = NoDrag
      <3>1. rest \in SUBSET Programs
        BY <2>3, RouterIsSound
      <3>2. PICK drop : drop = Awaited
        OBVIOUS
      <3>3. PICK n : n = m
        OBVIOUS
      <3>4. f \in Routers
        BY <2>4
      <3>5. n \in OutPacket /\ n.kind = "finish"
        BY <2>7, <3>3
      <3>6. PICK used : used = host.registered
        OBVIOUS
      <3>a. PICK left : left = IF drop = f.advertised.wire THEN 0 ELSE drop
        OBVIOUS
      <3>7. Sound(o, sees, rest, used, left)
        BY <2>6, <3>2, <3>6, <3>a
      <3>8. t = Finish(Outer(f, n.tag, n.kind, n.wire))
        BY <1>4, <3>3
      <3>9. Sound(t, sees, rest, used, drop) /\ t.active = NoDrag
        BY <2>1, <3>1, <3>4, <3>5, <3>7, <3>8, <3>a, FinishKeeps
      <3> QED BY <3>2, <3>6, <3>9
    <2>9. Heard(t, sees', Hearing)
      <3>1. \A q \in Hearing : q \in Programs /\ (q = p \/ q \in rest)
        BY <2>3, RouterIsSound
      <3>2. \A q \in Hearing : q # NoOne
        BY <3>1 DEF Parameters
      <3>3. t.active.owner = NoOne
        BY <2>8 DEF NoDrag
      <3>4. \A q \in rest : sees[q] # "nothing" => \E i \in 1..Len(t.incoming) : Tells(t, q, i)
        BY <2>3, <2>8, <3>2, <3>3 DEF Sound, Heard
      <3> QED BY <1>1, <3>1, <3>2, <3>3, <3>4 DEF Heard, Reached
    <2> QED BY <1>6, <1>8, <2>8, <2>9 DEF Sound
  <1> QED BY <1>5, <1>7, <1>8

-----------------------------------------------------------------------------
LEMMA HostReadsKeeps == ASSUME IInv, HostReads PROVE IInv'
  <1> DEFINE t == [Router EXCEPT !.outgoing = Tail(@)]
             m == Head(outgoing)
             N == Len(outgoing)
  <1>1. Router \in Routers /\ outgoing \in Seq(OutPacket) /\ outgoing # << >>
    BY RouterIsSound DEF HostReads, Routers
  <1>2. /\ t.outgoing = Tail(outgoing) /\ t.incoming = incoming /\ t.registered = registered
        /\ t.advertised = advertised /\ t.active = active /\ t.chunk = chunk /\ t.wires = wires
    BY RouterIsSound DEF Router
  <1>3. t \in Routers
    <2>1. Tail(outgoing) \in Seq(OutPacket)
      BY <1>1
    <2> QED BY <1>1, <2>1, RouterIsSound DEF Routers
  <1> HIDE DEF t
  <1>4. Router' = t
    <2>1. /\ outgoing' = Tail(outgoing)
          /\ UNCHANGED <<registered, advertised, active, chunk, incoming, wires>>
      BY DEF HostReads
    <2> QED BY <1>2, <1>3, <2>1 DEF Router, Routers
  <1>5. /\ Len(t.outgoing) = N - 1 /\ N \in Nat
        /\ \A i \in 1..N - 1 : t.outgoing[i] = outgoing[i + 1] /\ i + 1 \in 1..N
        /\ m = outgoing[1] /\ 1 \in 1..N
        /\ \A i \in 1..N : i = 1 \/ (i - 1 \in 1..N - 1 /\ (i - 1) + 1 = i)
    BY <1>1, <1>2
  <1>6. \A i \in 1..N : i = 1 \/ (i - 1 \in 1..Len(t.outgoing) /\ t.outgoing[i - 1] = outgoing[i])
    <2> TAKE i \in 1..N
    <2>1. CASE i # 1
      <3>1. i - 1 \in 1..N - 1 /\ (i - 1) + 1 = i
        BY <1>5, <2>1
      <3>2. t.outgoing[i - 1] = outgoing[(i - 1) + 1]
        BY <1>5, <3>1
      <3> QED BY <1>5, <3>1, <3>2
    <2> QED BY <2>1
  <1>7. Bound(t) /\ Current(t) /\ Ordered(t) /\ Placed(t) /\ Lasting(t) /\ Heard(t, sees, Hearing)
    <2>1. Bound(t) /\ Current(t) /\ Lasting(t)
      BY <1>2, RouterIsSound DEF Sound, Bound, Current, Lasting, Begins
    <2>2. Ordered(t) /\ Placed(t)
      BY <1>2, RouterIsSound DEF Sound, Ordered, Placed, Reached, Tells, Begins, Drops
    <2>3. Heard(t, sees, Hearing)
      BY <1>2, RouterIsSound DEF Sound, Heard, Reached, Tells, Drops
    <2> QED BY <2>1, <2>2, <2>3
  <1>8. Listed(t)
    <2> SUFFICES ASSUME NEW i \in 1..N - 1, t.outgoing[i].kind = "register"
                 PROVE  /\ t.outgoing[i].wire # 0
                        /\ \/ t.advertised.wire = t.outgoing[i].wire
                           \/ \E j \in i + 1..N - 1 : Withdraws(t, j, t.outgoing[i].wire)
      BY <1>5 DEF Listed
    <2>1. /\ i + 1 \in 1..N /\ t.outgoing[i] = outgoing[i + 1]
      BY <1>5
    <2>2. /\ outgoing[i + 1].wire # 0
          /\ \/ advertised.wire = outgoing[i + 1].wire
             \/ \E j \in (i + 1) + 1..N : Withdraws(Router, j, outgoing[i + 1].wire)
      BY <2>1, RouterIsSound DEF Sound, Listed
    <2>3. \A j \in (i + 1) + 1..N : j \in 1..N /\ j # 1 /\ j - 1 \in i + 1..N - 1
      BY <1>5
    <2> QED BY <1>2, <1>6, <2>1, <2>2, <2>3, RouterIsSound DEF Withdraws
  <1>9. /\ host \in [registered : Nat, dropped : Nat, asked : BOOLEAN, ignored : BOOLEAN]
        /\ m \in OutPacket
    BY <1>1 DEF IInv
  <1>10. /\ host' = CASE m.kind = "register" -> [host EXCEPT !.registered = m.wire]
                      [] m.kind = "unregister" ->
                            [Ended(m.wire) EXCEPT !.registered = IF @ = m.wire THEN 0 ELSE @]
                      [] m.kind = "finish" -> Ended(m.wire)
                      [] m.kind = "fetch" /\ m.wire = host.dropped -> [host EXCEPT !.asked = TRUE]
                      [] OTHER -> host
         /\ UNCHANGED <<world, sees, deaf>>
    BY DEF HostReads
  <1> HIDE DEF m
  <1>11. /\ Ended(m.wire) \in [registered : Nat, dropped : Nat, asked : BOOLEAN, ignored : BOOLEAN]
         /\ Ended(m.wire).registered = host.registered
         /\ host.dropped = m.wire => Ended(m.wire).dropped = 0
         /\ host.dropped # m.wire => Ended(m.wire) = host
    BY <1>9 DEF Ended
  <1>12. /\ host' \in [registered : Nat, dropped : Nat, asked : BOOLEAN, ignored : BOOLEAN]
         /\ host'.registered = IF m.kind = "register" THEN m.wire
                               ELSE IF m.kind = "unregister" /\ host.registered = m.wire THEN 0
                               ELSE host.registered
         /\ m.kind \in {"finish", "unregister"} => host'.dropped = Ended(m.wire).dropped
                                                   /\ host'.ignored = Ended(m.wire).ignored
         /\ m.kind \notin {"finish", "unregister"} => host'.dropped = host.dropped
                                                      /\ host'.ignored = host.ignored
    <2>1. CASE m.kind = "register"
      BY <1>9, <1>10, <2>1 DEF OutPacket
    <2>2. CASE m.kind = "unregister"
      <3> HIDE DEF Ended
      <3> QED BY <1>10, <1>11, <2>2
    <2>3. CASE m.kind = "finish"
      BY <1>10, <1>11, <2>3
    <2>4. CASE m.kind = "fetch"
      BY <1>9, <1>10, <2>4
    <2>5. CASE m.kind \notin {"register", "unregister", "finish", "fetch"}
      BY <1>9, <1>10, <2>5
    <2> QED BY <2>1, <2>2, <2>3, <2>4, <2>5
  <1>13. Known(t, host'.registered)
    <2> SUFFICES ASSUME host'.registered # 0, advertised.wire # host'.registered
                 PROVE  \E i \in 1..Len(t.outgoing) : Withdraws(t, i, host'.registered)
      BY <1>2 DEF Known
    <2>1. CASE m.kind = "register"
      <3>1. PICK j \in 1 + 1..N : Withdraws(Router, j, m.wire)
        BY <1>5, <1>12, <2>1, RouterIsSound DEF Sound, Listed
      <3>2. j \in 1..N /\ j # 1
        BY <1>5, <3>1
      <3> QED BY <1>6, <1>12, <2>1, <3>1, <3>2, RouterIsSound DEF Withdraws
    <2>2. CASE m.kind # "register"
      <3>1. host'.registered = host.registered /\ ~(m.kind = "unregister" /\ host.registered = m.wire)
        BY <1>12, <2>2
      <3>2. PICK j \in 1..N : Withdraws(Router, j, host.registered)
        BY <3>1, RouterIsSound DEF Sound, Known
      <3>3. j # 1
        BY <1>5, <3>1, <3>2, RouterIsSound DEF Withdraws
      <3> QED BY <1>6, <3>1, <3>2, <3>3, RouterIsSound DEF Withdraws
    <2> QED BY <2>1, <2>2
  <1>14. Answered(t, Awaited')
    <2> SUFFICES ASSUME Awaited' # 0, ~(active.placed /\ active.wire = Awaited')
                 PROVE  \E i \in 1..Len(t.outgoing) : Recalls(t, i) /\ t.outgoing[i].wire = Awaited'
      BY <1>2 DEF Answered
    <2>1. /\ Awaited' = Awaited /\ Awaited = host.dropped
          /\ ~(m.kind \in {"finish", "unregister"} /\ host.dropped = m.wire)
      BY <1>11, <1>12 DEF Awaited
    <2>2. PICK j \in 1..N : Recalls(Router, j) /\ outgoing[j].wire = Awaited
      BY <2>1, RouterIsSound DEF Sound, Answered
    <2>3. j # 1
      BY <1>5, <2>1, <2>2, RouterIsSound DEF Recalls
    <2> QED BY <1>6, <2>1, <2>2, <2>3, RouterIsSound DEF Recalls
  <1>15. UNCHANGED Hearing
    BY <1>10 DEF Hearing
  <1> QED BY <1>3, <1>4, <1>7, <1>8, <1>10, <1>12, <1>13, <1>14, <1>15 DEF IInv, Sound

LEMMA HostMovesKeeps == ASSUME Parameters, IInv, HostMoves PROVE IInv'
  <1> DEFINE known == advertised.wire = host.registered
             wire == advertised.wire
             drops(kind, ignored) ==
                IF kind = "drop" THEN [host EXCEPT !.dropped = host.registered, !.ignored = ignored]
                ELSE host
  <1>1. /\ host.registered # 0 /\ host.dropped = 0
        /\ UNCHANGED <<world, sees, deaf>>
    BY DEF HostMoves
  <1>2. /\ Awaited = 0
        /\ host \in [registered : Nat, dropped : Nat, asked : BOOLEAN, ignored : BOOLEAN]
    BY <1>1 DEF Awaited, IInv
  <1>3. Sound(Router, sees, Hearing, host.registered, 0)
    BY <1>2, RouterIsSound
  <1>4. ASSUME NEW r, Become(r), Sound(r, sees, Hearing, host.registered, 0),
               NEW kind, NEW ignored \in BOOLEAN, host' = drops(kind, ignored),
               kind = "drop" /\ ~ignored => Answered(r, host.registered)
        PROVE  IInv'
    <2>1. Router' = r
      BY <1>4 DEF Sound, Routers, Become, Router
    <2>2. /\ host' \in [registered : Nat, dropped : Nat, asked : BOOLEAN, ignored : BOOLEAN]
          /\ host'.registered = host.registered
          /\ Awaited' = IF kind = "drop" /\ ~ignored THEN host.registered ELSE 0
      <3>1. CASE kind = "drop"
        BY <1>2, <1>4, <3>1 DEF Awaited
      <3>2. CASE kind # "drop"
        BY <1>1, <1>2, <1>4, <3>2 DEF Awaited
      <3> QED BY <3>1, <3>2
    <2>3. Answered(r, Awaited')
      BY <1>4, <2>2 DEF Sound
    <2>4. UNCHANGED Hearing
      BY <1>1 DEF Hearing
    <2>5. Sound(r, sees, Hearing, host.registered, Awaited')
      BY <1>4, <2>3 DEF Sound
    <2> QED BY <1>1, <2>1, <2>2, <2>4, <2>5 DEF IInv
  <1>5. \A r : r.advertised.wire # host.registered /\ Known(r, host.registered)
                  => Answered(r, host.registered)
    BY DEF Known, Answered, Withdraws, Recalls
  <1>6. PICK kind \in {"drag", "drop", "gone"}, at \in Programs \cup {NoOne} :
           \/ /\ chunk = NoChunk
              /\ Become(IF known /\ allowed THEN Event(Router, kind, at, advertised.wire) ELSE Router)
              /\ host' = drops(kind, known /\ ~allowed)
           \/ /\ chunk = NoChunk /\ known /\ allowed /\ kind # "gone"
              /\ Become([Router EXCEPT !.chunk = [kind |-> kind, at |-> at]])
              /\ UNCHANGED host
           \/ /\ chunk # NoChunk /\ kind = chunk.kind /\ at = chunk.at
              /\ Become(IF known
                        THEN Event([Router EXCEPT !.chunk = NoChunk], kind, at, advertised.wire)
                        ELSE Cancel(Router))
              /\ host' = drops(kind, FALSE)
           \/ Become(Cancel(Router)) /\ host' = drops(kind, FALSE)
    BY DEF HostMoves
  <1>7. CASE /\ Become(IF known /\ allowed THEN Event(Router, kind, at, advertised.wire) ELSE Router)
             /\ host' = drops(kind, known /\ ~allowed)
    <2>1. PICK r : r = Event(Router, kind, at, wire)
      OBVIOUS
    <2>2. PICK s : s = Router
      OBVIOUS
    <2>3. PICK ignored \in BOOLEAN : ignored = (known /\ ~allowed)
      OBVIOUS
    <2>4. host' = drops(kind, ignored)
      BY <1>7, <2>3
    <2>5. CASE known /\ allowed
      <3>1. Become(r) /\ ~ignored
        BY <1>7, <2>1, <2>3, <2>5
      <3>2. wire = Router.advertised.wire /\ wire # 0
        BY <1>1, <2>5, RouterIsSound
      <3>3. Sound(r, sees, Hearing, host.registered, 0) /\ (kind = "drop" => Answered(r, wire))
        BY <1>3, <2>1, <3>2, EventKeeps, RouterIsSound
      <3> HIDE DEF drops
      <3> QED BY <1>4, <2>4, <2>5, <3>1, <3>3
    <2>6. CASE ~(known /\ allowed)
      <3>1. Become(s) /\ Sound(s, sees, Hearing, host.registered, 0)
        BY <1>3, <1>7, <2>2, <2>6
      <3>2. ~ignored => Answered(s, host.registered)
        <4>1. ~ignored => s.advertised.wire # host.registered
          BY <2>2, <2>3, <2>6, RouterIsSound
        <4> QED BY <1>5, <3>1, <4>1 DEF Sound
      <3> HIDE DEF drops
      <3> QED BY <1>4, <2>4, <3>1, <3>2
    <2> QED BY <2>5, <2>6
  <1>8. CASE /\ kind # "gone" /\ Become([Router EXCEPT !.chunk = [kind |-> kind, at |-> at]])
             /\ UNCHANGED host
    <2>1. PICK c : c = [kind |-> kind, at |-> at]
      OBVIOUS
    <2>2. PICK t : t = [Router EXCEPT !.chunk = c]
      OBVIOUS
    <2>3. c \in Chunks
      BY <1>8, <2>1 DEF Chunks
    <2>4. /\ t \in Routers /\ t.active = active /\ t.advertised = advertised
          /\ t.incoming = incoming /\ t.outgoing = outgoing
      BY <2>2, <2>3, RouterIsSound DEF Routers
    <2>5. Sound(t, sees, Hearing, host.registered, Awaited)
      BY <2>4, RouterIsSound, NotedKeeps
    <2> QED BY <1>1, <1>8, <2>1, <2>2, <2>5, RouterStep
  <1>9. ASSUME Become(Cancel(Router)), host' = drops(kind, FALSE) PROVE IInv'
    <2>1. PICK s : s = Cancel(Router)
      OBVIOUS
    <2>2. Sound(s, sees, Hearing, host.registered, 0) /\ s.advertised.wire = 0
      BY <1>3, <2>1, CancelKeeps, RouterIsSound
    <2>3. Answered(s, host.registered)
      BY <1>1, <1>5, <2>2 DEF Sound
    <2>4. Become(s)
      BY <1>9, <2>1
    <2> HIDE DEF drops
    <2> QED BY <1>4, <1>9, <2>2, <2>3, <2>4
  <1>10. CASE /\ Become(IF known
                        THEN Event([Router EXCEPT !.chunk = NoChunk], kind, at, advertised.wire)
                        ELSE Cancel(Router))
              /\ host' = drops(kind, FALSE)
    <2>1. PICK q : q = [Router EXCEPT !.chunk = NoChunk]
      OBVIOUS
    <2>2. PICK r : r = Event(q, kind, at, wire)
      OBVIOUS
    <2>3. CASE known
      <3>1. /\ q \in Routers /\ q.active = active /\ q.advertised = advertised
            /\ q.incoming = incoming /\ q.outgoing = outgoing
        BY <2>1, RouterIsSound DEF Routers, NoChunk, Chunks
      <3>2. Sound(q, sees, Hearing, host.registered, 0)
        BY <1>3, <3>1, NotedKeeps, RouterIsSound
      <3>3. wire = q.advertised.wire /\ wire # 0
        BY <1>1, <2>3, <3>1
      <3>4. Sound(r, sees, Hearing, host.registered, 0) /\ (kind = "drop" => Answered(r, wire))
        BY <2>2, <3>2, <3>3, EventKeeps, RouterIsSound
      <3>5. Become(r)
        BY <1>10, <2>1, <2>2, <2>3
      <3> HIDE DEF drops
      <3> QED BY <1>4, <1>10, <2>3, <3>4, <3>5
    <2>4. CASE ~known
      <3>1. Become(Cancel(Router)) /\ host' = drops(kind, FALSE)
        BY <1>10, <2>4
      <3> HIDE DEF drops
      <3> QED BY <1>9, <3>1
    <2> QED BY <2>3, <2>4
  <1> QED BY <1>6, <1>7, <1>8, <1>9, <1>10

LEMMA HostAnswersKeeps == ASSUME Parameters, IInv, HostAnswers PROVE IInv'
  <1> DEFINE p == active.owner
             w == active.wire
  <1>1. /\ host' = [host EXCEPT !.asked = FALSE] /\ UNCHANGED <<world, sees, deaf>>
        /\ host \in [registered : Nat, dropped : Nat, asked : BOOLEAN, ignored : BOOLEAN]
    BY DEF HostAnswers, IInv
  <1>2. ASSUME NEW r, Become(r), Sound(r, sees, Hearing, host.registered, Awaited) PROVE IInv'
    <2>1. Router' = r
      BY <1>2 DEF Sound, Routers, Become, Router
    <2>2. /\ host' \in [registered : Nat, dropped : Nat, asked : BOOLEAN, ignored : BOOLEAN]
          /\ host'.registered = host.registered /\ Awaited' = Awaited
      BY <1>1 DEF Awaited
    <2> QED BY <1>1, <1>2, <2>1, <2>2 DEF IInv, Hearing
  <1>3. PICK s : s = Router
    OBVIOUS
  <1>4. PICK a : a = Inner(Router, p, w, "data")
    OBVIOUS
  <1>5. PICK b : b = [a EXCEPT !.active.due = FALSE]
    OBVIOUS
  <1>6. PICK f : f = Forget(Router, w)
    OBVIOUS
  <1>7. PICK y : y = Inner(f, p, 0, "end")
    OBVIOUS
  <1>8. PICK z : z = Finish(Outer(y, 0, "finish", w))
    OBVIOUS
  <1>9. \/ Become(s) \/ (Become(b) /\ active.placed) \/ (Become(z) /\ active.placed)
        \/ Become(Cancel(Router))
    BY <1>3, <1>4, <1>5, <1>6, <1>7, <1>8 DEF HostAnswers
  <1>10. CASE Become(s)
    BY <1>2, <1>3, <1>10, RouterIsSound
  <1>11. active.placed => p \in Programs /\ p # NoOne /\ w \in Nat /\ advertised.wire = w
    BY RouterIsSound DEF Sound, Bound, Routers, Drags
  <1>12. CASE Become(b) /\ active.placed
    <2> DEFINE m == [to |-> p, tag |-> w, kind |-> "data"]
    <2>1. m \in InPacket /\ m.kind = "data" /\ a = Inner(Router, m.to, m.tag, m.kind)
      BY <1>4, <1>11, <1>12 DEF InPacket
    <2> HIDE DEF m
    <2>2. Sound(a, sees, IF m.kind \in {"leave", "end"} THEN Hearing \cup {m.to} ELSE Hearing,
                host.registered, Awaited)
      BY <2>1, InnerKeeps, RouterIsSound
    <2>3. Sound(a, sees, Hearing, host.registered, Awaited) /\ a \in Routers
      BY <2>1, <2>2 DEF Sound
    <2>4. /\ b \in Routers /\ b.active.owner = a.active.owner /\ b.active.wire = a.active.wire
          /\ b.active.placed = a.active.placed /\ b.active.told = a.active.told
          /\ b.advertised = a.advertised
          /\ b.incoming = a.incoming /\ b.outgoing = a.outgoing
      BY <1>5, <2>3 DEF Routers, Drags
    <2>5. Sound(b, sees, Hearing, host.registered, Awaited)
      BY <2>3, <2>4, NotedKeeps, RouterIsSound
    <2> QED BY <1>2, <1>12, <2>5
  <1>13. CASE Become(z) /\ active.placed
    <2> DEFINE n == [to |-> p, tag |-> 0, kind |-> "end"]
               m == [tag |-> 0, kind |-> "finish", wire |-> w]
    <2>1. PICK o : o = [f EXCEPT !.active = NoDrag]
      OBVIOUS
    <2>2. PICK drop : drop = Awaited
      OBVIOUS
    <2>3. PICK left : left = IF drop = w THEN 0 ELSE drop
      OBVIOUS
    <2>4. PICK rest : rest = Hearing \ {p}
      OBVIOUS
    <2>5. /\ f \in Routers /\ f.advertised = advertised /\ o \in Routers /\ o.active = NoDrag
          /\ Sound(o, sees, rest, host.registered, left)
      <3>1. Sound(Router, sees, Hearing, host.registered, drop) /\ Router.active.owner # NoOne
        BY <1>11, <1>13, <2>2, RouterIsSound
      <3>2. /\ Forget(Router, Router.active.wire) \in Routers
            /\ Forget(Router, Router.active.wire).advertised = Router.advertised
            /\ [Forget(Router, Router.active.wire) EXCEPT !.active = NoDrag] \in Routers
            /\ [Forget(Router, Router.active.wire) EXCEPT !.active = NoDrag].active = NoDrag
            /\ Sound([Forget(Router, Router.active.wire) EXCEPT !.active = NoDrag], sees,
                     Hearing \ {Router.active.owner}, host.registered,
                     IF Router.active.placed /\ drop = Router.active.wire THEN 0 ELSE drop)
        BY <3>1, OverKeeps, RouterIsSound
      <3> QED BY <1>6, <1>13, <2>1, <2>3, <2>4, <3>2, RouterIsSound
    <2>6. /\ n \in InPacket /\ n.kind = "end" /\ n.tag = 0 /\ n.to = p
          /\ y = Inner(f, n.to, n.tag, n.kind)
      BY <1>7, <1>11, <1>13 DEF InPacket
    <2>7. /\ m \in OutPacket /\ m.kind = "finish"
          /\ z = Finish(Outer(y, m.tag, m.kind, m.wire))
      BY <1>8, <1>11, <1>13 DEF OutPacket
    <2> HIDE DEF m, n
    <2>8. PICK x : x = Inner(o, n.to, n.tag, n.kind)
      OBVIOUS
    <2>9. Sound(x, sees, Hearing, host.registered, left)
      <3>1. o.active.owner # n.to
        BY <1>11, <1>13, <2>5, <2>6 DEF NoDrag
      <3>2. rest \in SUBSET Programs /\ Hearing \subseteq rest \cup {n.to}
        BY <2>4, <2>6, RouterIsSound
      <3>3. Sound(x, sees, IF n.kind \in {"leave", "end"} THEN rest \cup {n.to} ELSE rest,
                  host.registered, left)
        BY <2>5, <2>6, <2>8, <3>1, <3>2, InnerKeeps
      <3>4. Hearing \subseteq IF n.kind \in {"leave", "end"} THEN rest \cup {n.to} ELSE rest
        BY <2>6, <3>2
      <3> QED BY <3>3, <3>4 DEF Sound, Heard
    <2>10. /\ y \in Routers /\ y.advertised = advertised
           /\ x = [y EXCEPT !.active = NoDrag]
      <3>1. /\ y \in Routers
            /\ y.registered = f.registered /\ y.advertised = f.advertised /\ y.active = f.active
            /\ y.chunk = f.chunk /\ y.outgoing = f.outgoing /\ y.wires = f.wires
            /\ y.incoming = Append(f.incoming, n)
        BY <2>5, <2>6, InnerFields, ShortFits DEF Bulky
      <3>2. /\ x \in Routers
            /\ x.registered = o.registered /\ x.advertised = o.advertised /\ x.active = o.active
            /\ x.chunk = o.chunk /\ x.outgoing = o.outgoing /\ x.wires = o.wires
            /\ x.incoming = Append(o.incoming, n)
        BY <2>5, <2>6, <2>8, InnerFields, ShortFits DEF Bulky
      <3>3. /\ o.registered = f.registered /\ o.advertised = f.advertised
            /\ o.chunk = f.chunk /\ o.outgoing = f.outgoing /\ o.wires = f.wires
            /\ o.incoming = f.incoming
        BY <2>1, <2>5 DEF Routers
      <3>4. PICK u : u = [y EXCEPT !.active = NoDrag]
        OBVIOUS
      <3>5. /\ u \in Routers
            /\ u.registered = y.registered /\ u.advertised = y.advertised /\ u.active = NoDrag
            /\ u.chunk = y.chunk /\ u.outgoing = y.outgoing /\ u.wires = y.wires
            /\ u.incoming = y.incoming
        BY <3>1, <3>4 DEF Routers, NoDrag, Drags
      <3>6. /\ x.registered = u.registered /\ x.advertised = u.advertised /\ x.active = u.active
            /\ x.chunk = u.chunk /\ x.outgoing = u.outgoing /\ x.wires = u.wires
            /\ x.incoming = u.incoming
        BY <2>5, <3>1, <3>2, <3>3, <3>5
      <3>7. x = u
        <4> DEFINE all(q) == [registered |-> q.registered, advertised |-> q.advertised,
                              active |-> q.active, chunk |-> q.chunk, outgoing |-> q.outgoing,
                              incoming |-> q.incoming, wires |-> q.wires]
        <4>1. x = all(x)
          BY <3>2 DEF Routers
        <4>2. u = all(u)
          BY <3>5 DEF Routers
        <4>3. all(x) = all(u)
          BY <3>6
        <4> HIDE DEF all
        <4> QED BY <4>1, <4>2, <4>3
      <3> QED BY <2>5, <3>1, <3>4, <3>7
    <2>11. Sound(x, sees, Hearing, host.registered, IF drop = y.advertised.wire THEN 0 ELSE drop)
      BY <1>11, <1>13, <2>3, <2>9, <2>10
    <2>12. Sound(z, sees, Hearing, host.registered, drop)
      BY <2>7, <2>10, <2>11, FinishKeeps, RouterIsSound
    <2> QED BY <1>2, <1>13, <2>2, <2>12
  <1>14. CASE Become(Cancel(Router))
    <2>1. PICK c : c = Cancel(Router)
      OBVIOUS
    <2>2. Sound(c, sees, Hearing, host.registered, Awaited)
      BY <2>1, CancelKeeps, RouterIsSound
    <2> QED BY <1>2, <1>14, <2>1, <2>2
  <1> QED BY <1>9, <1>10, <1>12, <1>13, <1>14

LEMMA ProgramReadsKeeps == ASSUME Parameters, IInv, ProgramReads PROVE IInv'
  <1> DEFINE t == [Router EXCEPT !.incoming = Tail(@)]
             m == Head(incoming)
             N == Len(incoming)
             now == CASE m.kind = "drag" -> "drag"
                      [] m.kind = "drop" -> "drop"
                      [] m.kind \in {"leave", "end"} -> "nothing"
                      [] OTHER -> sees[m.to]
  <1>1. Router \in Routers /\ incoming \in Seq(InPacket) /\ incoming # << >>
    BY RouterIsSound DEF ProgramReads, Routers
  <1>2. /\ t.incoming = Tail(incoming) /\ t.outgoing = outgoing /\ t.registered = registered
        /\ t.advertised = advertised /\ t.active = active /\ t.chunk = chunk /\ t.wires = wires
    BY RouterIsSound DEF Router
  <1>3. t \in Routers
    <2>1. Tail(incoming) \in Seq(InPacket)
      BY <1>1
    <2> QED BY <1>1, <2>1, RouterIsSound DEF Routers
  <1> HIDE DEF t
  <1>4. Router' = t
    <2>1. /\ incoming' = Tail(incoming)
          /\ UNCHANGED <<registered, advertised, active, chunk, outgoing, wires>>
      BY DEF ProgramReads
    <2> QED BY <1>2, <1>3, <2>1 DEF Router, Routers
  <1>5. /\ Len(t.incoming) = N - 1 /\ N \in Nat
        /\ \A i \in 1..N - 1 : t.incoming[i] = incoming[i + 1] /\ i + 1 \in 1..N
        /\ m = incoming[1] /\ 1 \in 1..N
        /\ \A i \in 1..N : i = 1 \/ (i - 1 \in 1..N - 1 /\ (i - 1) + 1 = i)
    BY <1>1, <1>2
  <1>6. \A i \in 1..N : i = 1 \/ (i - 1 \in 1..Len(t.incoming) /\ t.incoming[i - 1] = incoming[i])
    <2> TAKE i \in 1..N
    <2>1. CASE i # 1
      <3>1. i - 1 \in 1..N - 1 /\ (i - 1) + 1 = i
        BY <1>5, <2>1
      <3>2. t.incoming[i - 1] = incoming[(i - 1) + 1]
        BY <1>5, <3>1
      <3> QED BY <1>5, <3>1, <3>2
    <2> QED BY <2>1
  <1>7. Bound(t) /\ Listed(t) /\ Known(t, host.registered) /\ Answered(t, Awaited)
    BY <1>2, RouterIsSound DEF Sound, Bound, Listed, Known, Answered, Withdraws, Recalls
  <1>8. Current(t) /\ Lasting(t)
    BY <1>2, <1>5, RouterIsSound DEF Sound, Current, Lasting, Begins
  <1>9. Ordered(t)
    <2> SUFFICES ASSUME NEW i \in 1..N - 1, Begins(t, i), NEW j \in i + 1..N - 1,
                        Tells(t, t.incoming[i].to, j)
                 PROVE  FALSE
      BY <1>5 DEF Ordered
    <2>1. /\ i + 1 \in 1..N /\ t.incoming[i] = incoming[i + 1]
          /\ j + 1 \in (i + 1) + 1..N /\ j \in 1..N - 1
      BY <1>5
    <2>2. t.incoming[j] = incoming[j + 1]
      BY <1>5, <2>1
    <2> QED BY <2>1, <2>2, RouterIsSound DEF Sound, Ordered, Tells, Begins
  <1>10. Reached(t) <=> Reached(Router)
    BY <1>2, RouterIsSound DEF Reached
  <1>11. Placed(t)
    <2> SUFFICES ASSUME NEW i \in 1..N - 1
                 PROVE  IF Reached(Router)
                        THEN t.incoming[i].kind = "drag" => \E j \in i + 1..N - 1 : Drops(t, j)
                        ELSE ~Drops(t, i)
      BY <1>2, <1>5, <1>10 DEF Placed
    <2>1. /\ i + 1 \in 1..N /\ t.incoming[i] = incoming[i + 1]
      BY <1>5
    <2>2. CASE Reached(Router) /\ t.incoming[i].kind = "drag"
      <3>1. PICK j \in (i + 1) + 1..N : Drops(Router, j)
        BY <2>1, <2>2, RouterIsSound DEF Sound, Placed
      <3>2. j \in 1..N /\ j # 1 /\ j - 1 \in i + 1..N - 1
        BY <1>5, <3>1
      <3> QED BY <1>6, <2>2, <3>1, <3>2, RouterIsSound DEF Drops
    <2>3. CASE ~Reached(Router)
      BY <2>1, <2>3, RouterIsSound DEF Sound, Placed, Drops
    <2> QED BY <2>2, <2>3
  <1>12. /\ sees' = IF m.to \in world.alive THEN [sees EXCEPT ![m.to] = now] ELSE sees
         /\ UNCHANGED <<world, host, deaf>>
    BY DEF ProgramReads
  <1>13. m \in InPacket /\ sees \in [Programs -> {"nothing", "drag", "drop"}]
    BY <1>1 DEF IInv
  <1> HIDE DEF m
  <1>14. now \in {"nothing", "drag", "drop"} /\ m.to \in Programs
    BY <1>13 DEF InPacket
  <1>15. /\ m.kind = "drag" => now = "drag"
         /\ m.kind = "drop" => now = "drop"
         /\ m.kind \in {"leave", "end"} => now = "nothing"
         /\ m.kind \notin {"drag", "drop", "leave", "end"} => now = sees[m.to]
    OBVIOUS
  <1> HIDE DEF now
  <1>16. sees' \in [Programs -> {"nothing", "drag", "drop"}]
    BY <1>12, <1>13, <1>14
  <1>17. Heard(t, sees', Hearing)
    <2> SUFFICES ASSUME NEW p \in Hearing
                 PROVE  LET told == \E i \in 1..Len(t.incoming) : Tells(t, p, i)
                            dropped == \E i \in 1..Len(t.incoming) : Drops(t, i)
                        IN  /\ sees'[p] # "nothing" => active.owner = p \/ told
                            /\ active.owner = p /\ Reached(Router) => dropped \/ (sees'[p] = "drop" /\ ~told)
                            /\ active.owner = p /\ ~Reached(Router) /\ sees'[p] = "drop" => told
      BY <1>2, <1>10 DEF Heard
    <2> DEFINE tells == \E i \in 1..Len(t.incoming) : Tells(t, p, i)
               drops == \E i \in 1..Len(t.incoming) : Drops(t, i)
               was == \E i \in 1..N : Tells(Router, p, i)
               had == \E i \in 1..N : Drops(Router, i)
    <2>1. /\ p \in Programs /\ p \in world.alive
          /\ sees'[p] = IF m.to = p THEN now ELSE sees[p]
      BY <1>12, <1>13, RouterIsSound DEF Hearing
    <2>2. /\ sees[p] # "nothing" => active.owner = p \/ was
          /\ active.owner = p /\ Reached(Router) => had \/ (sees[p] = "drop" /\ ~was)
          /\ active.owner = p /\ ~Reached(Router) /\ sees[p] = "drop" => was
      BY RouterIsSound DEF Sound, Heard
    <2>3. was /\ ~(m.to = p /\ m.kind \in {"leave", "end"}) => tells
      <3> SUFFICES ASSUME NEW i \in 1..N, Tells(Router, p, i),
                          ~(m.to = p /\ m.kind \in {"leave", "end"})
                   PROVE  tells
        OBVIOUS
      <3>1. i # 1
        BY <1>5, RouterIsSound DEF Tells
      <3> QED BY <1>6, <3>1, RouterIsSound DEF Tells
    <2>4. had /\ m.kind # "drop" => drops
      <3> SUFFICES ASSUME NEW i \in 1..N, Drops(Router, i), m.kind # "drop" PROVE drops
        OBVIOUS
      <3>1. i # 1
        BY <1>5, RouterIsSound DEF Drops
      <3> QED BY <1>6, <3>1, RouterIsSound DEF Drops
    <2>5. /\ tells => was
          /\ m.to = p /\ m.kind \in {"leave", "end"} => was
      BY <1>5, RouterIsSound DEF Tells
    <2>6. m.kind \in {"drag", "drop"} => active.owner = m.to
      BY <1>5, RouterIsSound DEF Sound, Current, Begins
    <2>7. m.kind \in {"drag", "drop"} /\ m.to = p => ~tells
      <3> SUFFICES ASSUME m.kind \in {"drag", "drop"}, m.to = p,
                          NEW i \in 1..N - 1, Tells(t, p, i)
                   PROVE  FALSE
        BY <1>5
      <3>1. i + 1 \in 1 + 1..N /\ t.incoming[i] = incoming[i + 1]
        BY <1>5
      <3>2. Begins(Router, 1) /\ incoming[1].to = p
        BY <1>5, RouterIsSound DEF Begins
      <3>3. ~Tells(Router, p, i + 1)
        BY <1>5, <3>1, <3>2, RouterIsSound DEF Sound, Ordered
      <3> QED BY <3>1, <3>3, RouterIsSound DEF Tells
    <2>8. m.kind = "drag" /\ Reached(Router) => drops
      <3> SUFFICES ASSUME m.kind = "drag", Reached(Router) PROVE drops
        OBVIOUS
      <3>1. PICK j \in 1 + 1..N : Drops(Router, j)
        BY <1>5, RouterIsSound DEF Sound, Placed
      <3>2. j \in 1..N /\ j # 1
        BY <1>5, <3>1
      <3> QED BY <1>6, <3>1, <3>2, RouterIsSound DEF Drops
    <2>9. m.kind = "drop" => Reached(Router)
      BY <1>5, RouterIsSound DEF Sound, Placed, Drops
    <2> HIDE DEF tells, drops, was, had
    <2>10. sees'[p] # "nothing" => active.owner = p \/ tells
      BY <1>15, <2>1, <2>2, <2>3, <2>6
    <2>11. active.owner = p /\ Reached(Router) => drops \/ (sees'[p] = "drop" /\ ~tells)
      BY <1>15, <2>1, <2>2, <2>4, <2>5, <2>6, <2>7, <2>8
    <2>12. active.owner = p /\ ~Reached(Router) /\ sees'[p] = "drop" => tells
      BY <1>15, <2>1, <2>2, <2>3, <2>9
    <2> QED BY <2>10, <2>11, <2>12 DEF tells, drops
  <1>18. UNCHANGED <<Hearing, Awaited>>
    BY <1>12 DEF Hearing, Awaited
  <1> QED BY <1>3, <1>4, <1>7, <1>8, <1>9, <1>11, <1>12, <1>16, <1>17, <1>18 DEF IInv, Sound

LEMMA StepsKeep == Parameters /\ IInv /\ (Next \/ UNCHANGED vars) => IInv'
  <1> SUFFICES ASSUME Parameters, IInv, Next \/ UNCHANGED vars PROVE IInv'
    OBVIOUS
  <1>1. CASE UNCHANGED vars
    BY <1>1 DEF vars, IInv, Router, Hearing, Awaited
  <1>2. CASE \E p \in Programs : Register(p) \/ Unregister(p) \/ Status(p) \/ Fetch(p) \/ Done(p)
    BY <1>2, RegisterKeeps, StatusKeeps, FetchKeeps, DoneKeeps
  <1>3. CASE Tick \/ Disable \/ Detach \/ World
    BY <1>3, TickKeeps, DisableKeeps, DetachKeeps, WorldKeeps
  <1>4. CASE HostReads \/ HostMoves \/ HostAnswers \/ ProgramReads
    BY <1>4, HostReadsKeeps, HostMovesKeeps, HostAnswersKeeps, ProgramReadsKeeps
  <1> QED BY <1>1, <1>2, <1>3, <1>4 DEF Next

LEMMA Promises == Parameters /\ IInv => ToldOfTheEnd /\ DropIsFinished
  <1> SUFFICES ASSUME Parameters, IInv PROVE ToldOfTheEnd /\ DropIsFinished
    OBVIOUS
  <1>1. ToldOfTheEnd
    <2> SUFFICES ASSUME NEW p \in Hearing, \A i \in 1..Len(incoming) : incoming[i].to # p,
                        sees[p] # "nothing"
                 PROVE  active.owner = p /\ (Reached(Router) <=> sees[p] = "drop")
      BY DEF ToldOfTheEnd, Hearing
    <2>1. \A i \in 1..Len(incoming) : ~Tells(Router, p, i)
      BY RouterIsSound DEF Tells
    <2>2. active.owner = p
      BY <2>1, RouterIsSound DEF Sound, Heard
    <2>3. \A i \in 1..Len(incoming) : ~Drops(Router, i)
      <3> SUFFICES ASSUME NEW i \in 1..Len(incoming), Drops(Router, i) PROVE FALSE
        OBVIOUS
      <3> QED BY <2>2, RouterIsSound DEF Sound, Current, Begins, Drops
    <2>4. /\ Reached(Router) => sees[p] = "drop"
          /\ ~Reached(Router) => sees[p] # "drop"
      BY <2>1, <2>2, <2>3, RouterIsSound DEF Sound, Heard
    <2> QED BY <2>2, <2>4
  <1>2. DropIsFinished
    BY RouterIsSound DEF DropIsFinished, Sound, Answered, Recalls, Awaited
  <1> QED BY <1>1, <1>2

\* What is on its way between the programs, the router and the terminal outside is what
\* it is taken to be in every state: packets of a drag that is over are out of the
\* queues, and no end is lost.
THEOREM Invariance == ASSUME Parameters PROVE Spec => []IInv
  <1>1. Init => IInv
    BY Starts
  <1>2. IInv /\ [Next]_vars => IInv'
    BY StepsKeep
  <1> QED BY <1>1, <1>2, PTL DEF Spec

\* Whatever ends a drag or a drop (the programs, the terminal, a menu, a timeout, a
\* process that ends or a detach), with any number of programs, registrations and
\* packets: the program that was told of it is told of its end, and the drop that the
\* terminal waits for is finished, also where a full queue discards packets (outer, inner).
THEOREM DropsAreToldOver ==
    ASSUME Parameters
    PROVE  Spec => [](ToldOfTheEnd /\ DropIsFinished)
  <1>1. IInv => ToldOfTheEnd /\ DropIsFinished
    BY Promises
  <1> QED BY <1>1, Invariance, PTL
=============================================================================
