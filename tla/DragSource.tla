----------------------------- MODULE DragSource -----------------------------
(***************************************************************************)
(* A program in a pane offers something to drag out of the terminal         *)
(* (drag_source.rs, Router).  The registration of the pane in focus stands  *)
(* for the window outside; a gesture the terminal reports binds that        *)
(* program until one side ends it, and what the program then sends goes out *)
(* in its order.  A queue that is full discards what is put in.             *)
(***************************************************************************)
EXTENDS Naturals, Sequences, FiniteSets, FiniteSetTheorems, WellFoundedInduction, TLAPS

CONSTANTS
    Programs,       \* the processes in the panes
    MaxPending,     \* MAX_PENDING, in packets that carry data: the room of a queue
    MaxWires,       \* bound: registrations outside
    MaxQueue        \* bound: packets waiting when more is done

NoOne == "nobody"

VARIABLES
    on,             \* enabled and supported
    registered,     \* registrations
    advertised,     \* the wire and the program it stands for
    gesture,        \* whose, on which wire, and how far it is
    outgoing, incoming,
    wires,          \* wires used
    world,          \* what a tick reads: mode, focus, processes alive
    host,           \* the terminal outside: registration, gesture, whether it has the offer
    sees,           \* sees[p]: program p knows of a gesture
    deaf            \* programs not told at a detach

vars == <<on, registered, advertised, gesture, outgoing, incoming, wires, world, host,
          sees, deaf>>

NotAdvertised == [wire |-> 0, owner |-> NoOne]
NoGesture == [owner |-> NoOne, wire |-> 0, offered |-> FALSE, started |-> FALSE, chunk |-> FALSE]
Idle == [registered |-> 0, gesture |-> 0, offered |-> FALSE]

Init ==
    /\ on \in BOOLEAN /\ registered = {} /\ advertised = NotAdvertised
    /\ gesture = NoGesture /\ outgoing = << >> /\ incoming = << >> /\ wires = 0
    /\ world \in [mode : {TRUE}, focus : Programs, alive : {Programs}]
    /\ host = Idle
    /\ sees = [p \in Programs |-> FALSE] /\ deaf = {}

\* The model's bound.  can_receive is no guard of the steps: it is asked before a read,
\* and one read brings answers for more than the room that is left.
Enough == Len(outgoing) + Len(incoming) <= MaxQueue

\* A step of the router works on its own state.
Router == [advertised |-> advertised, gesture |-> gesture, outgoing |-> outgoing,
           incoming |-> incoming, wires |-> wires]
Become(r) ==
    /\ advertised' = r.advertised /\ gesture' = r.gesture /\ outgoing' = r.outgoing
    /\ incoming' = r.incoming /\ wires' = r.wires

\* Only what carries a list, a name or data fills a queue; for the end of a gesture or of
\* a registration, and for a refusal, the room that can_receive reserves is enough.
Bulky == {"register", "offer", "data", "answer", "gesture", "ok", "event"}
HasRoom(q, kind) ==
    kind \in Bulky => Cardinality({i \in 1..Len(q) : q[i].kind \in Bulky}) < MaxPending

\* outer, inner: a packet that there is no room for is discarded, without a word.
Outer(r, tag, kind, wire) ==
    IF HasRoom(r.outgoing, kind)
    THEN [r EXCEPT !.outgoing = Append(@, [tag |-> tag, kind |-> kind, wire |-> wire])] ELSE r
Inner(r, p, tag, kind) ==
    IF HasRoom(r.incoming, kind)
    THEN [r EXCEPT !.incoming = Append(@, [to |-> p, tag |-> tag, kind |-> kind])] ELSE r

\* retain: a queue keeps what is at the places K, in its order.
Place(K, n) == CHOOSE i \in K : Cardinality({k \in K : k <= i}) = n
Kept(q, K) == [n \in 1..Cardinality(K) |-> q[Place(K, n)]]
Without(q, tag) == Kept(q, {i \in 1..Len(q) : q[i].tag # tag})

ForgetWire(r, tag) == [r EXCEPT !.outgoing = Without(@, tag), !.incoming = Without(@, tag)]

Unadvertise(r) ==
    IF r.advertised.wire = 0 THEN r
    ELSE [Outer(ForgetWire(r, r.advertised.wire), 0, "unregister", r.advertised.wire)
             EXCEPT !.advertised = NotAdvertised]

\* The gesture is over, and the terminal is told.
Recall(r) ==
    Outer([ForgetWire(r, r.gesture.wire) EXCEPT !.gesture = NoGesture], 0, "cancel", r.gesture.wire)

\* cancel_gesture
Cancel(r) ==
    Unadvertise(IF r.gesture.owner = NoOne THEN r ELSE Inner(Recall(r), r.gesture.owner, 0, "end"))

\* tick: the registration of the pane in focus is the one outside, between gestures.
Advertise(r, have) ==
    LET focus == world.focus
        owner == IF world.mode /\ focus \in have \cap world.alive THEN focus ELSE NoOne
        gone == Unadvertise(r)
    IN  IF r.gesture.owner # NoOne \/ r.advertised.owner = owner THEN r
        ELSE IF owner = NoOne THEN gone
        ELSE [Outer(gone, r.wires + 1, "register", r.wires + 1)
                 EXCEPT !.wires = @ + 1, !.advertised = [wire |-> r.wires + 1, owner |-> owner]]

Tick ==
    /\ on /\ Enough
    /\ registered' = registered \cap world.alive
    /\ \E late \in BOOLEAN :
          LET alive == {i \in 1..Len(incoming) : incoming[i].to \in world.alive}
              r == [Router EXCEPT !.incoming = Kept(@, alive)]
              over == gesture.owner # NoOne
                         /\ (late \/ gesture.owner \notin world.alive \/ ~world.mode)
          IN  Become(Advertise(IF over THEN Cancel(r) ELSE r, registered'))
    /\ wires' <= MaxWires
    /\ UNCHANGED <<on, world, host, sees, deaf>>

\* Disabled by the configuration: cancel_all.
Disable ==
    /\ on /\ on' = FALSE /\ registered' = {}
    /\ Become(Cancel(Router))
    /\ UNCHANGED <<world, host, sees, deaf>>

\* A client detaches: cancel_all, what programs take at once is delivered, and the
\* router goes.
Detach ==
    LET r == Cancel(Router)
        mine(p) == {i \in 1..Len(r.incoming) : r.incoming[i].to = p}
    IN  /\ on' \in BOOLEAN /\ registered' = {}
        /\ Become([r EXCEPT !.outgoing = << >>, !.incoming = << >>])
        /\ host' = Idle
        /\ \E n \in 0..Len(r.incoming) :
              LET taken(p) == {i \in mine(p) : i <= n}
                  ends(p) == \E i \in taken(p) : r.incoming[i].kind = "end"
              IN  /\ n < Len(r.incoming) => r.incoming[n + 1].to \in world.alive
                  /\ deaf' = deaf \cup {p \in world.alive : mine(p) # taken(p)}
                  /\ sees' = [p \in Programs |-> sees[p] /\ ~ends(p)]
        /\ UNCHANGED world

-----------------------------------------------------------------------------
\* request: what a program writes.
Asks(p, r) ==
    /\ p \in world.alive /\ on /\ Enough
    /\ Become(r)
    /\ UNCHANGED <<on, world, host, deaf>>

CancelMine(p) == IF gesture.owner = p THEN Cancel(Router) ELSE Router

\* Registered anew: the gesture of the registration before is over.
Register(p) ==
    /\ Asks(p, CancelMine(p)) /\ registered' = registered \cup {p}
    /\ UNCHANGED sees

Unregister(p) ==
    /\ p \in registered
    /\ Asks(p, CancelMine(p)) /\ registered' = registered \ {p}
    /\ UNCHANGED sees

\* What the program sends for its gesture: an offer, data that is asked of it, and
\* more of what it has begun.
Permitted(kind) ==
    IF gesture.chunk THEN kind # "end" ELSE
    CASE kind = "offer" -> ~gesture.offered
      [] kind = "data" -> gesture.offered
      [] kind = "answer" -> gesture.started
      [] OTHER -> FALSE

Sends(p) ==
    /\ sees[p] /\ UNCHANGED <<registered, sees>>
    /\ \E kind \in {"offer", "data", "answer"}, more \in BOOLEAN :
          Asks(p, IF gesture.owner # p
                  THEN IF kind = "offer" THEN Inner(Router, p, 0, "refused") ELSE Router
                  ELSE IF ~Permitted(kind) THEN Router
                  ELSE [Outer(Router, gesture.wire, kind, gesture.wire)
                           EXCEPT !.gesture.offered = @ \/ (kind = "offer" /\ ~gesture.chunk),
                                  !.gesture.chunk = more])

\* It gives the drag up.
GivesUp(p) ==
    /\ sees[p] /\ UNCHANGED registered
    /\ Asks(p, IF gesture.owner # p THEN Router ELSE Unadvertise(Recall(Router)))
    /\ sees' = [sees EXCEPT ![p] = FALSE]

-----------------------------------------------------------------------------
HostReads ==
    /\ outgoing # << >>
    /\ outgoing' = Tail(outgoing)
    /\ LET m == Head(outgoing)
           ended == IF host.gesture = m.wire
                    THEN [host EXCEPT !.gesture = 0, !.offered = FALSE] ELSE host
       IN  host' = CASE m.kind = "register" -> [host EXCEPT !.registered = m.wire]
                     [] m.kind = "unregister" ->
                           [ended EXCEPT !.registered = IF @ = m.wire THEN 0 ELSE @]
                     [] m.kind = "cancel" -> ended
                     [] m.kind = "offer" /\ host.gesture = m.wire ->
                           [host EXCEPT !.offered = TRUE]
                     [] OTHER -> host
    /\ UNCHANGED <<on, registered, advertised, gesture, incoming, wires, world, sees, deaf>>

\* A drag begins on the window.  The report names no registration: it is taken to be
\* for the one advertised, when that pane is the one under the pointer.
HostBegins ==
    /\ host.registered # 0 /\ host.gesture = 0 /\ Enough
    /\ \E inside \in BOOLEAN :
          IF gesture.owner # NoOne \/ advertised.wire = 0 \/ ~inside
             \/ world.focus # advertised.owner
          THEN Become(Router) /\ UNCHANGED host
          ELSE LET a == advertised
               IN  /\ Become(Inner([Router EXCEPT !.gesture =
                                       [NoGesture EXCEPT !.owner = a.owner, !.wire = a.wire]],
                                   a.owner, a.wire, "gesture"))
                   /\ host' = [host EXCEPT !.gesture = a.wire]
    /\ UNCHANGED <<on, registered, world, sees, deaf>>

\* The end of a gesture: what the program sent for it goes, what is for it stays.
End(r) == [r EXCEPT !.gesture = NoGesture, !.outgoing = Without(@, r.gesture.wire)]

\* The answers to an offer: it is taken ("ok"), refused or over ("end"), or moves on.  One
\* in parts ends the gesture.
HostSays ==
    /\ host.gesture # 0 /\ host.offered /\ Enough
    /\ \E kind \in {"ok", "event", "end"}, more \in BOOLEAN :
          /\ Become(LET g == gesture
                        told == Inner(Router, g.owner, g.wire, kind)
                        over == End(told)
                    IN  IF g.wire # host.gesture \/ g.owner = NoOne THEN Router
                        ELSE IF more THEN Cancel(Router)
                        ELSE IF kind = "ok"
                             THEN IF g.offered THEN [told EXCEPT !.gesture.started = TRUE] ELSE Router
                        ELSE IF kind = "event" THEN told
                        ELSE IF advertised.wire = 0 THEN over
                        ELSE [Outer(over, 0, "unregister", advertised.wire)
                                 EXCEPT !.advertised = NotAdvertised])
          /\ host' = IF kind = "end" THEN [host EXCEPT !.gesture = 0, !.offered = FALSE] ELSE host
    /\ UNCHANGED <<on, registered, world, sees, deaf>>

\* A program reads; what is for a process that has gone is dropped.
ProgramReads ==
    /\ incoming # << >>
    /\ incoming' = Tail(incoming)
    /\ LET m == Head(incoming) IN
       sees' = IF m.to \notin world.alive \/ m.kind \notin {"gesture", "end"} THEN sees
               ELSE [sees EXCEPT ![m.to] = m.kind = "gesture"]
    /\ UNCHANGED <<on, registered, advertised, gesture, outgoing, wires, world, host, deaf>>

\* A menu opens or closes, the focus moves, a process ends.
World ==
    /\ \/ world' = [world EXCEPT !.mode = ~@]
       \/ \E p \in Programs \ {world.focus} : world' = [world EXCEPT !.focus = p]
       \/ \E p \in world.alive : world' = [world EXCEPT !.alive = @ \ {p}]
    /\ UNCHANGED <<on, registered, advertised, gesture, outgoing, incoming, wires, host,
                   sees, deaf>>

Next ==
    \/ Tick \/ Disable \/ Detach
    \/ HostReads \/ HostBegins \/ HostSays \/ ProgramReads \/ World
    \/ \E p \in Programs : Register(p) \/ Unregister(p) \/ Sends(p) \/ GivesUp(p)

Spec == Init /\ [][Next]_vars

-----------------------------------------------------------------------------
\* A program that was told of a gesture and has read all there is, is the one it
\* belongs to: however it ended, the program has been told.
GestureIsToldOver ==
    \A p \in world.alive \ deaf :
       sees[p] /\ (\A i \in 1..Len(incoming) : incoming[i].to # p) => gesture.owner = p

\* While a gesture lasts the registration outside is that of its program, and a gesture
\* outside is that of the router, or its end is on its way.
GestureIsBound ==
    /\ gesture.owner # NoOne => advertised = [wire |-> gesture.wire, owner |-> gesture.owner]
    /\ host.gesture # 0 =>
          \/ gesture.wire = host.gesture
          \/ \E i \in 1..Len(outgoing) :
                outgoing[i].kind \in {"cancel", "unregister"} /\ outgoing[i].wire = host.gesture

-----------------------------------------------------------------------------
(* Proofs, for any programs and any bounds.  Most are about a router r, some    *)
(* programs that hear: alive, and told all there was at each detach; what       *)
(* those saw; and the wire of the gesture outside.                              *)

Parameters == NoOne \notin Programs

OutPacket ==
    [tag : Nat, kind : {"register", "unregister", "cancel", "offer", "data", "answer"}, wire : Nat]
InPacket == [to : Programs, tag : Nat, kind : {"gesture", "ok", "event", "end", "refused"}]
Routers ==
    [advertised : [wire : Nat, owner : Programs \cup {NoOne}],
     gesture : [owner : Programs \cup {NoOne}, wire : Nat, offered : BOOLEAN,
                started : BOOLEAN, chunk : BOOLEAN],
     outgoing : Seq(OutPacket), incoming : Seq(InPacket), wires : Nat]

Tells(r, p, i) == r.incoming[i].to = p /\ r.incoming[i].kind = "end"
Recalls(r, i) == r.outgoing[i].kind \in {"cancel", "unregister"}

\* A gesture is of the registration outside, which is the last one.
Bound(r) ==
    /\ r.gesture.owner # NoOne => r.advertised = [wire |-> r.gesture.wire, owner |-> r.gesture.owner]
    /\ r.gesture.owner = NoOne => r.gesture.wire = 0
    /\ r.advertised.owner = NoOne <=> r.advertised.wire = 0
    /\ r.advertised.wire <= r.wires

\* What says that a gesture is over is of none that still lasts: what is taken out of
\* the queues later is other packets.
Lasting(r) ==
    /\ \A i \in 1..Len(r.incoming) :
          r.incoming[i].kind = "end" =>
             /\ r.incoming[i].tag <= r.wires
             /\ r.incoming[i].tag = 0 \/ r.incoming[i].tag # r.advertised.wire
    /\ \A i \in 1..Len(r.outgoing) : Recalls(r, i) => r.outgoing[i].tag = 0

\* A gesture that waits to be read is the one that lasts, or its end waits behind it.
Followed(r) ==
    \A i \in 1..Len(r.incoming) :
       r.incoming[i].kind = "gesture" =>
          \/ r.gesture.owner = r.incoming[i].to /\ r.gesture.wire = r.incoming[i].tag
          \/ \E j \in i + 1..Len(r.incoming) : Tells(r, r.incoming[i].to, j)

\* A program that saw a gesture has it, or its end waits to be read.
Heard(r, saw, hear) ==
    \A p \in hear :
       saw[p] => r.gesture.owner = p \/ \E i \in 1..Len(r.incoming) : Tells(r, p, i)

\* The gesture outside is the router's, or is recalled.
Recalled(r, wire) ==
    wire # 0 => \/ r.gesture.wire = wire
                \/ \E i \in 1..Len(r.outgoing) : Recalls(r, i) /\ r.outgoing[i].wire = wire

Sound(r, saw, hear, wire) ==
    /\ r \in Routers /\ Bound(r) /\ Lasting(r) /\ Followed(r)
    /\ Heard(r, saw, hear) /\ Recalled(r, wire)

IInv ==
    /\ registered \subseteq Programs
    /\ world \in [mode : BOOLEAN, focus : Programs, alive : SUBSET Programs]
    /\ host \in [registered : Nat, gesture : Nat, offered : BOOLEAN]
    /\ sees \in [Programs -> BOOLEAN]
    /\ Sound(Router, sees, world.alive \ deaf, host.gesture)

\* A set of naturals that is not empty has a least element.
LEMMA LeastNatural ==
    ASSUME NEW T \in SUBSET Nat, T # {}
    PROVE  \E n \in T : \A m \in T : n <= m
  <1>1. T \subseteq Nat
    OBVIOUS
  <1>2. PICK n \in T : \A m \in T : ~(<<m, n>> \in OpToRel(<, Nat))
    BY <1>1, NatLessThanWellFounded, WFMin
  <1>3. \A m \in T : m \in Nat /\ n \in Nat
    BY <1>1
  <1>4. \A m \in T : ~(m < n)
    BY <1>2, <1>3 DEF OpToRel
  <1> QED BY <1>3, <1>4

\* Kept takes exactly the places of K, and in their order.
LEMMA KeptInOrder ==
    ASSUME NEW S, NEW q \in Seq(S), NEW K \in SUBSET (1..Len(q))
    PROVE  /\ Kept(q, K) \in Seq(S)
           /\ \E h \in [1..Len(Kept(q, K)) -> K] :
                 /\ \A n \in 1..Len(Kept(q, K)) : Kept(q, K)[n] = q[h[n]]
                 /\ \A m, n \in 1..Len(Kept(q, K)) : m < n => h[m] < h[n]
                 /\ \A i \in K : \E n \in 1..Len(Kept(q, K)) : h[n] = i
  <1> DEFINE upto(i) == {k \in K : k <= i}
             rank(i) == Cardinality(upto(i))
             N == Cardinality(K)
             h == [n \in 1..N |-> Place(K, n)]
  <1>0. Len(q) \in Nat /\ \A k \in K : k \in Nat /\ 1 <= k /\ k <= Len(q)
    OBVIOUS
  <1>1. Len(q) \in Nat /\ IsFiniteSet(K) /\ N \in Nat
    <2>1. IsFiniteSet(1..Len(q))
      BY <1>0, FS_Interval
    <2>2. IsFiniteSet(K)
      BY <2>1, FS_Subset
    <2> QED BY <1>0, <2>2, FS_CardinalityType
  <1>2. \A i \in Nat : IsFiniteSet(upto(i)) /\ rank(i) \in 0..N
    BY <1>1, FS_Subset, FS_CardinalityType
  <1>3. rank(0) = 0 /\ rank(Len(q)) = N
    <2>1. upto(0) = {}
      <3>1. \A k \in K : ~(k <= 0)
        BY <1>0
      <3> QED BY <3>1
    <2>2. upto(Len(q)) = K
      <3>1. \A k \in K : k <= Len(q)
        BY <1>0
      <3> QED BY <3>1
    <2> HIDE DEF upto
    <2> QED BY <2>1, <2>2, FS_EmptySet
  <1>4. \A i \in Nat : rank(i + 1) = IF i + 1 \in K THEN rank(i) + 1 ELSE rank(i)
    <2> TAKE i \in Nat
    <2>1. IsFiniteSet(upto(i)) /\ i + 1 \notin upto(i)
      BY <1>2
    <2>2. CASE i + 1 \in K
      <3>1. \A k \in K : k <= i + 1 <=> k <= i \/ k = i + 1
        BY <1>0
      <3>2. upto(i + 1) = upto(i) \cup {i + 1}
        BY <2>2, <3>1
      <3> HIDE DEF upto
      <3> QED BY <2>1, <2>2, <3>2, FS_AddElement
    <2>3. CASE i + 1 \notin K
      <3>1. \A k \in K : k <= i + 1 <=> k <= i
        BY <1>0, <2>3
      <3>2. upto(i + 1) = upto(i)
        BY <3>1
      <3> HIDE DEF upto
      <3> QED BY <2>3, <3>2
    <2> QED BY <2>2, <2>3
  <1>5. \A n \in 1..N : \E i \in K : rank(i) = n
    <2> TAKE n \in 1..N
    <2> DEFINE T == {i \in Nat : n <= rank(i)}
    <2>1. T \in SUBSET Nat /\ Len(q) \in T
      BY <1>1, <1>3
    <2>2. PICK i \in T : \A m \in T : i <= m
      BY <2>1, LeastNatural
    <2> HIDE DEF upto
    <2>3. i \in Nat /\ n <= rank(i) /\ n \in Nat /\ 1 <= n
      BY <1>1
    <2>4. i # 0
      BY <1>3, <2>3
    <2>5. i - 1 \in Nat /\ (i - 1) + 1 = i
      BY <2>3, <2>4
    <2>6. rank(i - 1) < n
      BY <1>2, <2>2, <2>5, <2>3
    <2>7. rank(i) = IF i \in K THEN rank(i - 1) + 1 ELSE rank(i - 1)
      BY <1>4, <2>5
    <2>8. rank(i - 1) \in 0..N /\ rank(i) \in 0..N
      BY <1>2, <2>3, <2>5
    <2> QED BY <1>1, <2>3, <2>6, <2>7, <2>8
  <1>6. \A i, j \in K : i < j => rank(i) < rank(j)
    <2> SUFFICES ASSUME NEW i \in K, NEW j \in K, i < j PROVE rank(i) < rank(j)
      OBVIOUS
    <2>1. i \in Nat /\ j \in Nat /\ \A k \in K : k \in Nat /\ (k <= i => k <= j)
      BY <1>0
    <2>2. upto(i) \in SUBSET upto(j) /\ j \in upto(j) /\ j \notin upto(i)
      <3>1. j <= j /\ ~(j <= i)
        BY <2>1
      <3> QED BY <2>1, <3>1
    <2>3. IsFiniteSet(upto(j)) /\ rank(i) \in 0..N /\ rank(j) \in 0..N
      BY <1>2, <2>1
    <2> HIDE DEF upto
    <2> QED BY <1>1, <2>2, <2>3, FS_Subset
  <1>7. \A n \in 1..N : h[n] \in K /\ rank(h[n]) = n
    BY <1>5 DEF Place
  <1>8. \A i \in K : i \in Nat /\ rank(i) \in 1..N
    <2> TAKE i \in K
    <2>1. i \in Nat /\ i \in upto(i) /\ IsFiniteSet(upto(i))
      BY <1>1, <1>2
    <2> HIDE DEF upto
    <2> QED BY <1>1, <1>2, <2>1, FS_EmptySet
  <1>9. Kept(q, K) \in [1..N -> S] /\ Kept(q, K) = [n \in 1..N |-> q[h[n]]]
    <2>1. Kept(q, K) = [n \in 1..N |-> q[h[n]]]
      BY DEF Kept
    <2>2. \A n \in 1..N : q[h[n]] \in S
      <3>1. \A i \in K : q[i] \in S
        OBVIOUS
      <3> HIDE DEF h
      <3> QED BY <1>7, <3>1
    <2> HIDE DEF h, N
    <2> QED BY <2>1, <2>2
  <1>10. Kept(q, K) \in Seq(S) /\ Len(Kept(q, K)) = N
    <2> HIDE DEF N, h
    <2> QED BY <1>1, <1>9
  <1>11. \A m, n \in 1..N : m < n => h[m] < h[n]
    <2> SUFFICES ASSUME NEW m \in 1..N, NEW n \in 1..N, m < n PROVE h[m] < h[n]
      OBVIOUS
    <2>1. h[m] \in K /\ rank(h[m]) = m /\ h[n] \in K /\ rank(h[n]) = n
      BY <1>7
    <2>2. m \in Nat /\ n \in Nat
      BY <1>1
    <2> HIDE DEF h, upto
    <2>3. h[n] \in Nat /\ h[m] \in Nat
      BY <1>8, <2>1
    <2>4. h[n] # h[m]
      BY <2>1, <2>2
    <2>5. ~(h[n] < h[m])
      <3> SUFFICES ASSUME h[n] < h[m] PROVE FALSE
        OBVIOUS
      <3>1. n < m
        BY <1>6, <2>1
      <3> QED BY <2>2, <3>1
    <2> QED BY <2>3, <2>4, <2>5
  <1>12. \A i \in K : \E n \in 1..N : h[n] = i
    <2> TAKE i \in K
    <2>1. rank(i) \in 1..N
      BY <1>8
    <2>2. h[rank(i)] \in K /\ rank(h[rank(i)]) = rank(i)
      BY <1>7, <2>1
    <2> HIDE DEF h, upto
    <2>3. h[rank(i)] \in Nat /\ i \in Nat
      BY <1>8, <2>2
    <2>4. h[rank(i)] = i
      BY <1>6, <1>8, <2>2, <2>3
    <2> QED BY <2>1, <2>4
  <1>13. h \in [1..N -> K]
    BY <1>7
  <1> HIDE DEF h, N
  <1> QED BY <1>9, <1>10, <1>11, <1>12, <1>13
-----------------------------------------------------------------------------
\* Packets of the queue to the programs go, none of them an end that a program still
\* has to read.
LEMMA Thins ==
    ASSUME NEW r, NEW saw, NEW hear \in SUBSET Programs, NEW wire, Sound(r, saw, hear, wire),
           NEW K \in SUBSET (1..Len(r.incoming)),
           \A i \in 1..Len(r.incoming) :
              r.incoming[i].kind = "end" /\ i \notin K =>
                 /\ r.incoming[i].to \notin hear
                 /\ \A k \in K : r.incoming[k].to # r.incoming[i].to
    PROVE  Sound([r EXCEPT !.incoming = Kept(@, K)], saw, hear, wire)
  <1> DEFINE t == [r EXCEPT !.incoming = Kept(@, K)]
             N == Len(t.incoming)
  <1>1. r \in Routers
    BY DEF Sound
  <1>2. /\ t.incoming = Kept(r.incoming, K) /\ t.outgoing = r.outgoing
        /\ t.advertised = r.advertised /\ t.gesture = r.gesture /\ t.wires = r.wires
    BY <1>1 DEF Routers
  <1>3. r.incoming \in Seq(InPacket)
    BY <1>1 DEF Routers
  <1>5. t.incoming \in Seq(InPacket)
    BY <1>2, <1>3, KeptInOrder
  <1> DEFINE kept == Kept(r.incoming, K)
  <1>a. \E h \in [1..Len(kept) -> K] :
           /\ \A n \in 1..Len(kept) : kept[n] = r.incoming[h[n]]
           /\ \A m, n \in 1..Len(kept) : m < n => h[m] < h[n]
           /\ \A i \in K : \E n \in 1..Len(kept) : h[n] = i
    BY <1>3, KeptInOrder
  <1>b. t.incoming = kept
    BY <1>2
  <1> HIDE DEF kept, t
  <1>4. PICK h \in [1..N -> K] :
           /\ \A n \in 1..N : t.incoming[n] = r.incoming[h[n]]
           /\ \A m, n \in 1..N : m < n => h[m] < h[n]
           /\ \A i \in K : \E n \in 1..N : h[n] = i
    BY <1>a, <1>b
  <1>6. t \in Routers
    BY <1>1, <1>2, <1>5 DEF Routers, t
  <1>7. \A n \in 1..N : h[n] \in 1..Len(r.incoming) /\ h[n] \in K
    BY <1>4
  <1>8. Bound(t) /\ Recalled(t, wire)
    BY <1>2 DEF Sound, Bound, Recalled, Recalls
  <1>9. Lasting(t)
    <2>1. t.outgoing = r.outgoing /\ t.advertised = r.advertised /\ t.wires = r.wires
      BY <1>2
    <2>2. \A n \in 1..N : t.incoming[n] = r.incoming[h[n]] /\ h[n] \in 1..Len(r.incoming)
      BY <1>4, <1>7
    <2> QED BY <2>1, <2>2 DEF Sound, Lasting, Recalls
  <1>10. Followed(t)
    <2> SUFFICES ASSUME NEW n \in 1..N, t.incoming[n].kind = "gesture",
                        ~(t.gesture.owner = t.incoming[n].to /\ t.gesture.wire = t.incoming[n].tag)
                 PROVE  \E m \in n + 1..N : Tells(t, t.incoming[n].to, m)
      BY DEF Followed
    <2>1. t.incoming[n] = r.incoming[h[n]] /\ h[n] \in 1..Len(r.incoming) /\ h[n] \in K
      BY <1>4, <1>7
    <2>2. PICK j \in h[n] + 1..Len(r.incoming) : Tells(r, r.incoming[h[n]].to, j)
      BY <1>2, <2>1 DEF Sound, Followed
    <2>3. j \in 1..Len(r.incoming) /\ h[n] < j
      BY <2>1, <2>2
    <2>4. j \in K
      BY <2>1, <2>2, <2>3 DEF Tells
    <2>5. PICK m \in 1..N : h[m] = j
      BY <1>4, <2>4
    <2>6. n < m
      <3>1. ~(m < n) /\ m # n
        BY <1>4, <1>7, <2>1, <2>3, <2>5
      <3> QED BY <1>5, <3>1
    <2>7. m \in n + 1..N
      BY <1>5, <2>6
    <2> QED BY <1>4, <2>1, <2>2, <2>5, <2>7 DEF Tells
  <1>11. Heard(t, saw, hear)
    <2> SUFFICES ASSUME NEW p \in hear, saw[p], t.gesture.owner # p
                 PROVE  \E n \in 1..N : Tells(t, p, n)
      BY DEF Heard
    <2>1. PICK i \in 1..Len(r.incoming) : Tells(r, p, i)
      BY <1>2 DEF Sound, Heard
    <2>2. i \in K
      BY <2>1 DEF Tells
    <2>3. PICK n \in 1..N : h[n] = i
      BY <1>4, <2>2
    <2> QED BY <1>4, <2>1, <2>3 DEF Tells
  <1> QED BY <1>6, <1>8, <1>9, <1>10, <1>11 DEF Sound, t

\* Packets of the queue to the terminal go, none of which recalls a gesture.
LEMMA ThinsOut ==
    ASSUME NEW r, NEW saw, NEW hear \in SUBSET Programs, NEW wire, Sound(r, saw, hear, wire),
           NEW K \in SUBSET (1..Len(r.outgoing)),
           \A i \in 1..Len(r.outgoing) : Recalls(r, i) => i \in K
    PROVE  Sound([r EXCEPT !.outgoing = Kept(@, K)], saw, hear, wire)
  <1> DEFINE t == [r EXCEPT !.outgoing = Kept(@, K)]
             N == Len(t.outgoing)
  <1>1. r \in Routers
    BY DEF Sound
  <1>2. /\ t.outgoing = Kept(r.outgoing, K) /\ t.incoming = r.incoming
        /\ t.advertised = r.advertised /\ t.gesture = r.gesture /\ t.wires = r.wires
    BY <1>1 DEF Routers
  <1>3. r.outgoing \in Seq(OutPacket)
    BY <1>1 DEF Routers
  <1>5. t.outgoing \in Seq(OutPacket)
    BY <1>2, <1>3, KeptInOrder
  <1> DEFINE kept == Kept(r.outgoing, K)
  <1>a. \E h \in [1..Len(kept) -> K] :
           /\ \A n \in 1..Len(kept) : kept[n] = r.outgoing[h[n]]
           /\ \A m, n \in 1..Len(kept) : m < n => h[m] < h[n]
           /\ \A i \in K : \E n \in 1..Len(kept) : h[n] = i
    BY <1>3, KeptInOrder
  <1>b. t.outgoing = kept
    BY <1>2
  <1> HIDE DEF kept, t
  <1>4. PICK h \in [1..N -> K] :
           /\ \A n \in 1..N : t.outgoing[n] = r.outgoing[h[n]]
           /\ \A i \in K : \E n \in 1..N : h[n] = i
    BY <1>a, <1>b
  <1>6. t \in Routers
    BY <1>1, <1>2, <1>5 DEF Routers, t
  <1>7. \A n \in 1..N : h[n] \in 1..Len(r.outgoing)
    BY <1>4
  <1>8. Bound(t) /\ Followed(t) /\ Heard(t, saw, hear)
    BY <1>2 DEF Sound, Bound, Followed, Heard, Tells
  <1>9. Lasting(t)
    BY <1>2, <1>4, <1>7 DEF Sound, Lasting, Recalls
  <1>10. Recalled(t, wire)
    <2> SUFFICES ASSUME wire # 0, t.gesture.wire # wire
                 PROVE  \E n \in 1..N : Recalls(t, n) /\ t.outgoing[n].wire = wire
      BY DEF Recalled
    <2>1. PICK i \in 1..Len(r.outgoing) : Recalls(r, i) /\ r.outgoing[i].wire = wire
      BY <1>2 DEF Sound, Recalled
    <2>2. PICK n \in 1..N : h[n] = i
      BY <1>4, <2>1
    <2> QED BY <1>4, <2>1, <2>2 DEF Recalls
  <1> QED BY <1>6, <1>8, <1>9, <1>10 DEF Sound, t

\* What says that a gesture or a registration is over is never discarded.
LEMMA ShortFits == ASSUME NEW q, NEW kind, kind \notin Bulky PROVE HasRoom(q, kind)
  BY DEF HasRoom

\* What a packet more leaves alone, there being room for it; else it leaves all alone.
LEMMA OuterFields ==
    ASSUME NEW r \in Routers, NEW m \in OutPacket
    PROVE  LET t == Outer(r, m.tag, m.kind, m.wire) IN
           /\ t \in Routers
           /\ t.advertised = r.advertised /\ t.gesture = r.gesture
           /\ t.incoming = r.incoming /\ t.wires = r.wires
           /\ ~HasRoom(r.outgoing, m.kind) => t = r
           /\ HasRoom(r.outgoing, m.kind) => t.outgoing = Append(r.outgoing, m)
  <1> DEFINE t == Outer(r, m.tag, m.kind, m.wire)
  <1>1. r.outgoing \in Seq(OutPacket)
    BY DEF Routers
  <1>2. CASE ~HasRoom(r.outgoing, m.kind)
    <2>1. t = r
      BY <1>2 DEF Outer
    <2> HIDE DEF t
    <2> QED BY <1>2, <2>1 DEF t
  <1>3. CASE HasRoom(r.outgoing, m.kind)
    <2>1. t = [r EXCEPT !.outgoing = Append(r.outgoing, m)]
      BY <1>3 DEF Outer, OutPacket
    <2>2. Append(r.outgoing, m) \in Seq(OutPacket)
      BY <1>1
    <2> HIDE DEF t
    <2>3. t \in Routers
      BY <2>1, <2>2 DEF Routers
    <2>4. /\ t.advertised = r.advertised /\ t.gesture = r.gesture
          /\ t.incoming = r.incoming /\ t.wires = r.wires
          /\ t.outgoing = Append(r.outgoing, m)
      BY <2>1 DEF Routers
    <2> QED BY <1>3, <2>3, <2>4 DEF t
  <1> QED BY <1>2, <1>3

LEMMA InnerFields ==
    ASSUME NEW r \in Routers, NEW m \in InPacket
    PROVE  LET t == Inner(r, m.to, m.tag, m.kind) IN
           /\ t \in Routers
           /\ t.advertised = r.advertised /\ t.gesture = r.gesture
           /\ t.outgoing = r.outgoing /\ t.wires = r.wires
           /\ ~HasRoom(r.incoming, m.kind) => t = r
           /\ HasRoom(r.incoming, m.kind) => t.incoming = Append(r.incoming, m)
  <1> DEFINE t == Inner(r, m.to, m.tag, m.kind)
  <1>1. r.incoming \in Seq(InPacket)
    BY DEF Routers
  <1>2. CASE ~HasRoom(r.incoming, m.kind)
    <2>1. t = r
      BY <1>2 DEF Inner
    <2> HIDE DEF t
    <2> QED BY <1>2, <2>1 DEF t
  <1>3. CASE HasRoom(r.incoming, m.kind)
    <2>1. t = [r EXCEPT !.incoming = Append(r.incoming, m)]
      BY <1>3 DEF Inner, InPacket
    <2>2. Append(r.incoming, m) \in Seq(InPacket)
      BY <1>1
    <2> HIDE DEF t
    <2>3. t \in Routers
      BY <2>1, <2>2 DEF Routers
    <2>4. /\ t.advertised = r.advertised /\ t.gesture = r.gesture
          /\ t.outgoing = r.outgoing /\ t.wires = r.wires
          /\ t.incoming = Append(r.incoming, m)
      BY <2>1 DEF Routers
    <2> QED BY <1>3, <2>3, <2>4 DEF t
  <1> QED BY <1>2, <1>3

\* A packet more for the terminal.
LEMMA OuterKeeps ==
    ASSUME NEW r, NEW saw, NEW hear \in SUBSET Programs, NEW wire, Sound(r, saw, hear, wire),
           NEW m \in OutPacket, m.kind \in {"cancel", "unregister"} => m.tag = 0
    PROVE  Sound(Outer(r, m.tag, m.kind, m.wire), saw, hear, wire)
  <1> DEFINE t == Outer(r, m.tag, m.kind, m.wire)
  <1>1. r \in Routers /\ r.outgoing \in Seq(OutPacket)
    BY DEF Sound, Routers
  <1>0. CASE ~HasRoom(r.outgoing, m.kind)
    <2>1. t = r
      BY <1>0, <1>1, OuterFields
    <2> HIDE DEF t
    <2> QED BY <2>1 DEF t
  <1> SUFFICES ASSUME HasRoom(r.outgoing, m.kind) PROVE Sound(t, saw, hear, wire)
    BY <1>0
  <1>2. /\ t.outgoing = Append(r.outgoing, m) /\ t.incoming = r.incoming
        /\ t.advertised = r.advertised /\ t.gesture = r.gesture /\ t.wires = r.wires
    BY <1>1, OuterFields
  <1>3. t \in Routers
    BY <1>1, OuterFields
  <1> HIDE DEF t
  <1>4. /\ Len(t.outgoing) = Len(r.outgoing) + 1
        /\ \A i \in 1..Len(r.outgoing) : t.outgoing[i] = r.outgoing[i]
        /\ t.outgoing[Len(r.outgoing) + 1] = m
    BY <1>1, <1>2
  <1>5. Bound(t) /\ Followed(t) /\ Heard(t, saw, hear)
    BY <1>2 DEF Sound, Bound, Followed, Heard, Tells
  <1>6. Lasting(t)
    <2>1. \A i \in 1..Len(t.outgoing) : Recalls(t, i) => t.outgoing[i].tag = 0
      <3> TAKE i \in 1..Len(t.outgoing)
      <3>1. i \in 1..Len(r.outgoing) \/ i = Len(r.outgoing) + 1
        BY <1>1, <1>4
      <3> QED BY <1>4, <3>1 DEF Sound, Lasting, Recalls
    <2> QED BY <1>2, <2>1 DEF Sound, Lasting
  <1>7. Recalled(t, wire)
    <2>1. \A i \in 1..Len(r.outgoing) : i \in 1..Len(t.outgoing)
      BY <1>1, <1>4
    <2> QED BY <1>2, <1>4, <2>1 DEF Sound, Recalled, Recalls
  <1> QED BY <1>3, <1>5, <1>6, <1>7 DEF Sound, t

\* A packet more for a program, which is no beginning of a gesture.
LEMMA InnerKeeps ==
    ASSUME NEW r, NEW saw, NEW hear \in SUBSET Programs, NEW wire, Sound(r, saw, hear, wire),
           NEW m \in InPacket, m.kind # "gesture",
           m.kind = "end" => m.tag <= r.wires /\ (m.tag = 0 \/ m.tag # r.advertised.wire)
    PROVE  Sound(Inner(r, m.to, m.tag, m.kind), saw,
                 IF m.kind = "end" THEN hear \cup {m.to} ELSE hear, wire)
  <1> DEFINE t == Inner(r, m.to, m.tag, m.kind)
             N == Len(r.incoming)
  <1>1. r \in Routers /\ r.incoming \in Seq(InPacket)
    BY DEF Sound, Routers
  <1>0. CASE ~HasRoom(r.incoming, m.kind)
    <2>1. t = r /\ m.kind # "end"
      BY <1>0, <1>1, InnerFields, ShortFits DEF Bulky
    <2> HIDE DEF t
    <2> QED BY <2>1 DEF t
  <1> SUFFICES ASSUME HasRoom(r.incoming, m.kind)
               PROVE  Sound(t, saw, IF m.kind = "end" THEN hear \cup {m.to} ELSE hear, wire)
    BY <1>0
  <1>2. /\ t.incoming = Append(r.incoming, m) /\ t.outgoing = r.outgoing
        /\ t.advertised = r.advertised /\ t.gesture = r.gesture /\ t.wires = r.wires
    BY <1>1, InnerFields
  <1>3. t \in Routers
    BY <1>1, InnerFields
  <1> HIDE DEF t
  <1>4. /\ Len(t.incoming) = N + 1
        /\ \A i \in 1..N : t.incoming[i] = r.incoming[i]
        /\ t.incoming[N + 1] = m
        /\ \A i \in 1..N + 1 : i \in 1..N \/ i = N + 1
        /\ N + 1 \in 1..N + 1 /\ \A i \in 1..N : i \in 1..N + 1
    BY <1>1, <1>2
  <1>5. Bound(t) /\ Recalled(t, wire)
    BY <1>2 DEF Sound, Bound, Recalled, Recalls
  <1>6. Lasting(t)
    <2>1. \A i \in 1..N + 1 :
             t.incoming[i].kind = "end" =>
                /\ t.incoming[i].tag <= t.wires
                /\ t.incoming[i].tag = 0 \/ t.incoming[i].tag # t.advertised.wire
      <3> TAKE i \in 1..N + 1
      <3>1. CASE i \in 1..N
        BY <1>2, <1>4, <3>1 DEF Sound, Lasting
      <3>2. CASE i = N + 1
        BY <1>2, <1>4, <3>2
      <3> QED BY <1>4, <3>1, <3>2
    <2> QED BY <1>2, <1>4, <2>1 DEF Sound, Lasting, Recalls
  <1>7. Followed(t)
    <2> SUFFICES ASSUME NEW i \in 1..N + 1, t.incoming[i].kind = "gesture",
                        ~(t.gesture.owner = t.incoming[i].to /\ t.gesture.wire = t.incoming[i].tag)
                 PROVE  \E j \in i + 1..N + 1 : Tells(t, t.incoming[i].to, j)
      BY <1>4 DEF Followed
    <2>1. i \in 1..N /\ t.incoming[i] = r.incoming[i]
      BY <1>4
    <2>2. PICK j \in i + 1..N : Tells(r, r.incoming[i].to, j)
      BY <1>2, <2>1 DEF Sound, Followed
    <2>3. j \in i + 1..N + 1 /\ j \in 1..N
      BY <1>1, <2>1, <2>2
    <2> QED BY <1>4, <2>1, <2>2, <2>3 DEF Tells
  <1>8. Heard(t, saw, IF m.kind = "end" THEN hear \cup {m.to} ELSE hear)
    <2> SUFFICES ASSUME NEW p \in IF m.kind = "end" THEN hear \cup {m.to} ELSE hear,
                        saw[p], t.gesture.owner # p
                 PROVE  \E i \in 1..N + 1 : Tells(t, p, i)
      BY <1>4 DEF Heard
    <2>1. CASE p \in hear
      <3>1. PICK i \in 1..N : Tells(r, p, i)
        BY <1>2, <2>1 DEF Sound, Heard
      <3> QED BY <1>4, <3>1 DEF Tells
    <2>2. CASE p = m.to /\ m.kind = "end"
      <3>1. Tells(t, p, N + 1)
        BY <1>4, <2>2 DEF Tells
      <3> QED BY <1>4, <3>1
    <2> QED BY <2>1, <2>2
  <1> QED BY <1>3, <1>5, <1>6, <1>7, <1>8 DEF Sound, t

\* The packets of a registration are forgotten.
LEMMA ForgetKeeps ==
    ASSUME NEW r, NEW saw, NEW hear \in SUBSET Programs, NEW wire, Sound(r, saw, hear, wire),
           r.advertised.wire # 0
    PROVE  LET t == ForgetWire(r, r.advertised.wire) IN
           /\ Sound(t, saw, hear, wire)
           /\ t.advertised = r.advertised /\ t.gesture = r.gesture /\ t.wires = r.wires
           /\ \A i \in 1..Len(t.incoming) : t.incoming[i].tag # r.advertised.wire
  <1> DEFINE w == r.advertised.wire
             K == {i \in 1..Len(r.outgoing) : r.outgoing[i].tag # w}
             I == {i \in 1..Len(r.incoming) : r.incoming[i].tag # w}
             u == [r EXCEPT !.outgoing = Kept(@, K)]
             t == [u EXCEPT !.incoming = Kept(@, I)]
  <1>1. r \in Routers /\ r.incoming \in Seq(InPacket)
    BY DEF Sound, Routers
  <1>2. Sound(u, saw, hear, wire)
    <2>1. \A i \in 1..Len(r.outgoing) : Recalls(r, i) => i \in K
      BY DEF Sound, Lasting
    <2> QED BY <2>1, ThinsOut
  <1>3. u.incoming = r.incoming /\ u.advertised = r.advertised
    BY <1>1 DEF Routers
  <1>4. Sound(t, saw, hear, wire)
    <2>1. \A i \in 1..Len(r.incoming) : r.incoming[i].kind = "end" => i \in I
      BY DEF Sound, Lasting
    <2>2. I \in SUBSET (1..Len(r.incoming))
      OBVIOUS
    <2> HIDE DEF u, I
    <2> QED BY <1>2, <1>3, <2>1, <2>2, Thins
  <1>5. t = ForgetWire(r, w)
    BY <1>1 DEF Routers, ForgetWire, Without
  <1>6. t.advertised = r.advertised /\ t.gesture = r.gesture /\ t.wires = r.wires
    BY <1>1 DEF Routers
  <1>7. t.incoming = Kept(r.incoming, I)
    BY <1>1 DEF Routers
  <1>8. \A i \in 1..Len(t.incoming) : t.incoming[i].tag # w
    <2>1. I \in SUBSET (1..Len(r.incoming))
      OBVIOUS
    <2>2. \E h \in [1..Len(Kept(r.incoming, I)) -> I] :
             \A n \in 1..Len(Kept(r.incoming, I)) : Kept(r.incoming, I)[n] = r.incoming[h[n]]
      <3> HIDE DEF I
      <3> QED BY <1>1, <2>1, KeptInOrder
    <2>3. PICK h \in [1..Len(t.incoming) -> I] :
             \A n \in 1..Len(t.incoming) : t.incoming[n] = r.incoming[h[n]]
      <3> HIDE DEF t
      <3> QED BY <1>7, <2>2
    <2>4. \A i \in I : r.incoming[i].tag # w
      OBVIOUS
    <2> HIDE DEF t, I
    <2> QED BY <2>3, <2>4
  <1> HIDE DEF t
  <1> QED BY <1>4, <1>5, <1>6, <1>8

\* Between gestures the registration outside can go.
LEMMA UnadvertiseKeeps ==
    ASSUME NEW r, NEW saw, NEW hear \in SUBSET Programs, NEW wire, Sound(r, saw, hear, wire),
           r.gesture.owner = NoOne
    PROVE  LET t == Unadvertise(r) IN
           /\ Sound(t, saw, hear, wire)
           /\ t.gesture = r.gesture /\ t.advertised = NotAdvertised /\ t.wires = r.wires
  <1> DEFINE w == r.advertised.wire
  <1>1. r \in Routers
    BY DEF Sound
  <1>2. CASE w = 0
    <2>1. Unadvertise(r) = r
      BY <1>2 DEF Unadvertise
    <2>2. r.advertised = NotAdvertised
      BY <1>1, <1>2 DEF Sound, Bound, Routers, NotAdvertised
    <2> QED BY <2>1, <2>2
  <1>3. CASE w # 0
    <2> DEFINE f == ForgetWire(r, w)
               m == [tag |-> 0, kind |-> "unregister", wire |-> w]
               u == Outer(f, m.tag, m.kind, m.wire)
               t == [u EXCEPT !.advertised = NotAdvertised]
    <2>1. Sound(f, saw, hear, wire) /\ f.gesture = r.gesture /\ f.wires = r.wires
      BY <1>3, ForgetKeeps
    <2>2. m \in OutPacket /\ m.tag = 0
      BY <1>1 DEF OutPacket, Routers
    <2> HIDE DEF f
    <2>3. Sound(u, saw, hear, wire)
      <3> HIDE DEF m
      <3> QED BY <2>1, <2>2, OuterKeeps
    <2>4. f \in Routers
      BY <2>1 DEF Sound
    <2>5. u.gesture = r.gesture /\ u.wires = r.wires /\ u \in Routers
      <3> HIDE DEF m
      <3> QED BY <2>1, <2>2, <2>4, OuterFields
    <2>6. t = Unadvertise(r)
      BY <1>3 DEF Unadvertise, f
    <2> HIDE DEF u
    <2>7. /\ t.advertised = NotAdvertised /\ t.gesture = u.gesture /\ t.wires = u.wires
          /\ t.incoming = u.incoming /\ t.outgoing = u.outgoing
      BY <2>5 DEF Routers
    <2>8. t \in Routers
      BY <2>5 DEF Routers, NotAdvertised
    <2> HIDE DEF t
    <2>9. Bound(t)
      BY <2>3, <2>5, <2>7, <2>8 DEF Sound, Bound, NotAdvertised, Routers
    <2>10. Lasting(t)
      BY <2>3, <2>7 DEF Sound, Lasting, Recalls, NotAdvertised
    <2>11. Followed(t) /\ Heard(t, saw, hear) /\ Recalled(t, wire)
      BY <2>3, <2>7 DEF Sound, Followed, Heard, Recalled, Tells, Recalls
    <2> QED BY <2>5, <2>6, <2>7, <2>8, <2>9, <2>10, <2>11 DEF Sound
  <1> QED BY <1>2, <1>3

\* A gesture ends and the terminal is told: its program has yet to be.
LEMMA RecallKeeps ==
    ASSUME Parameters,
           NEW r, NEW saw, NEW hear \in SUBSET Programs, NEW wire, Sound(r, saw, hear, wire),
           r.gesture.owner # NoOne
    PROVE  /\ Sound(Recall(r), saw, hear \ {r.gesture.owner}, wire)
           /\ Recall(r).gesture = NoGesture
           /\ Recall(r).wires = r.wires
  <1> DEFINE w == r.advertised.wire
             p == r.gesture.owner
             f == ForgetWire(r, w)
             u == [f EXCEPT !.gesture = NoGesture]
             m == [tag |-> 0, kind |-> "cancel", wire |-> w]
             t == Outer(u, m.tag, m.kind, m.wire)
             known == IF wire = w THEN 0 ELSE wire
  <1>1. r \in Routers
    BY DEF Sound
  <1>2. w = r.gesture.wire /\ w # 0 /\ p \in Programs
    BY <1>1 DEF Sound, Bound, Routers
  <1>3. /\ Sound(f, saw, hear, wire) /\ f.gesture = r.gesture /\ f.advertised = r.advertised
        /\ f.wires = r.wires
        /\ \A i \in 1..Len(f.incoming) : f.incoming[i].tag # w
    BY <1>2, ForgetKeeps
  <1>4. t = Recall(r)
    BY <1>2 DEF Recall
  <1>5. m \in OutPacket /\ m.tag = 0
    BY <1>1 DEF OutPacket, Routers
  <1> HIDE DEF f
  <1>6. f \in Routers
    BY <1>3 DEF Sound
  <1>7. /\ u.gesture = NoGesture /\ u.advertised = f.advertised /\ u.wires = f.wires
        /\ u.incoming = f.incoming /\ u.outgoing = f.outgoing
    BY <1>6 DEF Routers
  <1>8. u \in Routers
    BY <1>6 DEF Routers, NoGesture
  <1> HIDE DEF u
  <1>9. Bound(u)
    BY <1>3, <1>7 DEF Sound, Bound, NoGesture
  <1>10. Lasting(u)
    BY <1>3, <1>7 DEF Sound, Lasting, Recalls
  <1>11. Followed(u)
    BY <1>2, <1>3, <1>7 DEF Sound, Followed, Tells
  <1>12. Heard(u, saw, hear \ {p})
    BY <1>3, <1>7 DEF Sound, Heard, Tells
  <1>13. Recalled(u, known)
    BY <1>2, <1>3, <1>7 DEF Sound, Recalled, Recalls
  <1>14. Sound(u, saw, hear \ {p}, known)
    BY <1>8, <1>9, <1>10, <1>11, <1>12, <1>13 DEF Sound
  <1>15. Sound(t, saw, hear \ {p}, known)
    <2>1. hear \ {p} \in SUBSET Programs
      OBVIOUS
    <2> HIDE DEF m, known
    <2> QED BY <1>5, <1>14, <2>1, OuterKeeps
  <1>16. t.outgoing = Append(u.outgoing, m) /\ t.gesture = NoGesture /\ t.wires = r.wires
    <2>1. HasRoom(u.outgoing, m.kind)
      BY ShortFits DEF Bulky
    <2> HIDE DEF m
    <2> QED BY <1>3, <1>5, <1>7, <1>8, <2>1, OuterFields
  <1>17. /\ Len(u.outgoing) \in Nat /\ Len(t.outgoing) = Len(u.outgoing) + 1
         /\ t.outgoing[Len(u.outgoing) + 1] = m
    <2>1. u.outgoing \in Seq(OutPacket)
      BY <1>8 DEF Routers
    <2> HIDE DEF m, t
    <2> QED BY <1>5, <1>16, <2>1
  <1> HIDE DEF t
  <1>18. Recalled(t, wire)
    <2>1. CASE wire # w
      BY <1>15, <2>1 DEF Sound
    <2>2. CASE wire = w
      BY <1>17, <2>2 DEF Recalled, Recalls
    <2> QED BY <2>1, <2>2
  <1> QED BY <1>4, <1>15, <1>16, <1>18 DEF Sound

\* Whatever there is ends, and both sides are told.
LEMMA CancelKeeps ==
    ASSUME Parameters,
           NEW r, NEW saw, NEW hear \in SUBSET Programs, NEW wire, Sound(r, saw, hear, wire)
    PROVE  /\ Sound(Cancel(r), saw, hear, wire)
           /\ Cancel(r).gesture.owner = NoOne
           /\ Cancel(r).advertised = NotAdvertised
  <1>1. CASE r.gesture.owner = NoOne
    <2>1. Cancel(r) = Unadvertise(r)
      BY <1>1 DEF Cancel
    <2> QED BY <1>1, <2>1, UnadvertiseKeeps
  <1>2. CASE r.gesture.owner # NoOne
    <2> DEFINE p == r.gesture.owner
               m == [to |-> p, tag |-> 0, kind |-> "end"]
               t == Inner(Recall(r), m.to, m.tag, m.kind)
    <2>1. /\ Sound(Recall(r), saw, hear \ {p}, wire) /\ Recall(r).gesture = NoGesture
          /\ Recall(r).wires = r.wires
      BY <1>2, RecallKeeps
    <2>2. p \in Programs /\ r.wires \in Nat
      BY <1>2 DEF Sound, Routers
    <2>3. m \in InPacket /\ m.tag = 0 /\ m.kind = "end" /\ m.to = p /\ 0 <= r.wires
      BY <2>2 DEF InPacket
    <2>4. Sound(t, saw, (hear \ {p}) \cup {p}, wire)
      <3>1. hear \ {p} \in SUBSET Programs
        OBVIOUS
      <3> HIDE DEF m, p
      <3> QED BY <2>1, <2>3, <3>1, InnerKeeps
    <2>5. t.gesture = NoGesture
      <3>1. Recall(r) \in Routers
        BY <2>1 DEF Sound
      <3> HIDE DEF m
      <3> QED BY <2>1, <2>3, <3>1, InnerFields
    <2>6. Cancel(r) = Unadvertise(t)
      BY <1>2 DEF Cancel
    <2> HIDE DEF t
    <2>7. hear \subseteq (hear \ {p}) \cup {p} /\ (hear \ {p}) \cup {p} \in SUBSET Programs
      BY <2>2
    <2>8. Sound(t, saw, hear, wire)
      BY <2>4, <2>7 DEF Sound, Heard
    <2> QED BY <2>5, <2>6, <2>8, UnadvertiseKeeps DEF NoGesture
  <1> QED BY <1>1, <1>2

\* The pane in focus, or none, is made the one outside, unless there is a gesture.
LEMMA AdvertiseKeeps ==
    ASSUME Parameters,
           NEW r, NEW saw, NEW hear \in SUBSET Programs, NEW wire, Sound(r, saw, hear, wire),
           NEW have, have \subseteq Programs
    PROVE  Sound(Advertise(r, have), saw, hear, wire)
  <1> DEFINE focus == world.focus
             owner == IF world.mode /\ focus \in have \cap world.alive THEN focus ELSE NoOne
             gone == Unadvertise(r)
             n == r.wires + 1
             m == [tag |-> n, kind |-> "register", wire |-> n]
             u == Outer(gone, m.tag, m.kind, m.wire)
             t == [u EXCEPT !.wires = @ + 1, !.advertised = [wire |-> n, owner |-> owner]]
  <1>1. CASE r.gesture.owner # NoOne \/ r.advertised.owner = owner
    BY <1>1 DEF Advertise
  <1>2. CASE r.gesture.owner = NoOne /\ owner = NoOne /\ r.advertised.owner # owner
    <2>1. Advertise(r, have) = gone
      BY <1>2 DEF Advertise
    <2> QED BY <1>2, <2>1, UnadvertiseKeeps
  <1>3. CASE r.gesture.owner = NoOne /\ owner # NoOne /\ owner \in Programs /\ r.advertised.owner # owner
    <2>1. Advertise(r, have) = t
      BY <1>3 DEF Advertise
    <2>2. /\ Sound(gone, saw, hear, wire) /\ gone.gesture = r.gesture
          /\ gone.advertised = NotAdvertised /\ gone.wires = r.wires
      BY <1>3, UnadvertiseKeeps
    <2>3. r.wires \in Nat
      BY DEF Sound, Routers
    <2>4. m \in OutPacket /\ m.kind = "register"
      BY <2>3 DEF OutPacket
    <2> HIDE DEF gone, owner
    <2>5. Sound(u, saw, hear, wire)
      <3> HIDE DEF m
      <3> QED BY <2>2, <2>4, OuterKeeps
    <2>6. u \in Routers /\ gone \in Routers
      BY <2>2, <2>5 DEF Sound
    <2>7. u.gesture = r.gesture /\ u.advertised = NotAdvertised /\ u.wires = r.wires
      <3> HIDE DEF m
      <3> QED BY <2>2, <2>4, <2>6, OuterFields
    <2> HIDE DEF u
    <2>8. /\ t.gesture = u.gesture /\ t.incoming = u.incoming /\ t.outgoing = u.outgoing
          /\ t.wires = n /\ t.advertised = [wire |-> n, owner |-> owner]
      BY <2>6, <2>7 DEF Routers
    <2>9. t \in Routers
      <3> DEFINE a == [wire |-> n, owner |-> owner]
      <3>1. n \in Nat /\ a \in [wire : Nat, owner : Programs \cup {NoOne}]
        BY <1>3, <2>3
      <3>2. t = [u EXCEPT !.wires = n, !.advertised = a]
        BY <2>6, <2>7 DEF Routers
      <3> HIDE DEF a, n, t
      <3> QED BY <2>6, <3>1, <3>2 DEF Routers
    <2> HIDE DEF t
    <2>10. Bound(t)
      BY <1>3, <2>3, <2>5, <2>7, <2>8 DEF Sound, Bound
    <2>11. Lasting(t)
      <3>1. \A i \in 1..Len(t.incoming) :
               t.incoming[i].kind = "end" => t.incoming[i].tag \in Nat /\ t.incoming[i].tag <= r.wires
        <4>1. \A i \in 1..Len(t.incoming) : t.incoming[i] \in InPacket
          BY <2>9 DEF Routers
        <4> QED BY <2>5, <2>7, <2>8, <4>1 DEF Sound, Lasting, InPacket
      <3> QED BY <2>3, <2>5, <2>7, <2>8, <3>1 DEF Sound, Lasting, Recalls
    <2>12. Followed(t) /\ Heard(t, saw, hear) /\ Recalled(t, wire)
      <3>1. Followed(t)
        BY <2>5, <2>8 DEF Sound, Followed, Tells
      <3>2. Heard(t, saw, hear)
        BY <2>5, <2>8 DEF Sound, Heard, Tells
      <3>3. Recalled(t, wire)
        BY <2>5, <2>8 DEF Sound, Recalled, Recalls
      <3> QED BY <3>1, <3>2, <3>3
    <2> QED BY <2>1, <2>9, <2>10, <2>11, <2>12 DEF Sound
  <1>4. owner = NoOne \/ (owner # NoOne /\ owner \in Programs)
    OBVIOUS
  <1> QED BY <1>1, <1>2, <1>3, <1>4

-----------------------------------------------------------------------------
Hearing == world.alive \ deaf

LEMMA Starts == Parameters /\ Init => IInv
  <1> SUFFICES ASSUME Parameters, Init PROVE IInv
    OBVIOUS
  <1>1. Router \in Routers
    BY DEF Init, Router, Routers, NotAdvertised, NoGesture
  <1>2. /\ Router.advertised = NotAdvertised /\ Router.gesture = NoGesture
        /\ Router.outgoing = << >> /\ Router.incoming = << >> /\ Router.wires = 0
    BY DEF Init, Router
  <1>3. Bound(Router) /\ Recalled(Router, 0)
    BY <1>2 DEF Bound, Recalled, NotAdvertised, NoGesture
  <1>4. Lasting(Router) /\ Followed(Router)
    BY <1>2 DEF Lasting, Followed
  <1>5. Heard(Router, sees, world.alive \ deaf)
    BY DEF Init, Heard
  <1> QED BY <1>1, <1>3, <1>4, <1>5 DEF Init, IInv, Sound, Idle

\* What a step that only works on the router has to show.
LEMMA RouterStep ==
    ASSUME IInv, NEW r, Sound(r, sees, Hearing, host.gesture), Become(r),
           registered' \subseteq Programs, UNCHANGED <<world, host, sees, deaf>>
    PROVE  IInv'
  <1>1. Router' = r
    BY DEF Sound, Routers, Become, Router
  <1> QED BY <1>1 DEF IInv, Hearing

LEMMA RouterIsSound ==
    ASSUME IInv
    PROVE  /\ Sound(Router, sees, Hearing, host.gesture)
           /\ Hearing \in SUBSET Programs
           /\ Router \in Routers
           /\ Router.advertised = advertised /\ Router.gesture = gesture
           /\ Router.outgoing = outgoing /\ Router.incoming = incoming
           /\ Router.wires = wires
  BY DEF IInv, Hearing, Sound, Router

LEMMA TickKeeps == ASSUME Parameters, IInv, Tick PROVE IInv'
  <1> PICK late \in BOOLEAN :
          LET alive == {i \in 1..Len(incoming) : incoming[i].to \in world.alive}
              r == [Router EXCEPT !.incoming = Kept(@, alive)]
              over == gesture.owner # NoOne
                         /\ (late \/ gesture.owner \notin world.alive \/ ~world.mode)
          IN  Become(Advertise(IF over THEN Cancel(r) ELSE r, registered'))
    BY DEF Tick
  <1> DEFINE alive == {i \in 1..Len(incoming) : incoming[i].to \in world.alive}
             over == gesture.owner # NoOne
                         /\ (late \/ gesture.owner \notin world.alive \/ ~world.mode)
  <1>1. PICK r : r = [Router EXCEPT !.incoming = Kept(@, alive)]
    OBVIOUS
  <1>2. PICK s : s = IF over THEN Cancel(r) ELSE r
    OBVIOUS
  <1>3. PICK t : t = Advertise(s, registered')
    OBVIOUS
  <1>4. Become(t)
    BY <1>1, <1>2, <1>3
  <1>5. Sound(r, sees, Hearing, host.gesture)
    <2>1. alive \in SUBSET (1..Len(Router.incoming))
      BY RouterIsSound
    <2>2. \A i \in 1..Len(Router.incoming) :
             Router.incoming[i].kind = "end" /\ i \notin alive =>
                /\ Router.incoming[i].to \notin Hearing
                /\ \A k \in alive : Router.incoming[k].to # Router.incoming[i].to
      BY RouterIsSound DEF Hearing
    <2> HIDE DEF alive
    <2> QED BY <1>1, <2>1, <2>2, RouterIsSound, Thins
  <1>6. Sound(s, sees, Hearing, host.gesture)
    BY <1>2, <1>5, CancelKeeps, RouterIsSound
  <1>7. registered' \subseteq Programs
    BY DEF Tick, IInv
  <1>8. Sound(t, sees, Hearing, host.gesture)
    <2>1. PICK have : have = registered'
      OBVIOUS
    <2> QED BY <1>3, <1>6, <1>7, <2>1, AdvertiseKeeps, RouterIsSound
  <1> QED BY <1>4, <1>7, <1>8, RouterStep DEF Tick

LEMMA DisableKeeps == ASSUME Parameters, IInv, Disable PROVE IInv'
  <1>1. PICK r : r = Cancel(Router)
    OBVIOUS
  <1>2. Sound(r, sees, Hearing, host.gesture)
    BY <1>1, CancelKeeps, RouterIsSound
  <1> QED BY <1>1, <1>2, RouterStep DEF Disable

LEMMA DetachKeeps == ASSUME Parameters, IInv, Detach PROVE IInv'
  <1>1. PICK r : r = Cancel(Router)
    OBVIOUS
  <1>2. Sound(r, sees, Hearing, host.gesture) /\ r.gesture.owner = NoOne /\ r.advertised = NotAdvertised
    BY <1>1, CancelKeeps, RouterIsSound
  <1> DEFINE mine(p) == {i \in 1..Len(r.incoming) : r.incoming[i].to = p}
             s == [r EXCEPT !.outgoing = << >>, !.incoming = << >>]
  <1>3. /\ registered' = {} /\ Become(s) /\ host' = Idle /\ UNCHANGED world
    BY <1>1 DEF Detach
  <1>4. PICK n \in 0..Len(r.incoming) :
           /\ deaf' = deaf \cup {p \in world.alive : mine(p) # {i \in mine(p) : i <= n}}
           /\ sees' = [p \in Programs |->
                          sees[p] /\ ~\E i \in {k \in mine(p) : k <= n} : r.incoming[i].kind = "end"]
    BY <1>1 DEF Detach
  <1>5. \A p \in world.alive \ deaf' : ~sees'[p]
    <2> SUFFICES ASSUME NEW p \in world.alive \ deaf', sees'[p] PROVE FALSE
      OBVIOUS
    <2>1. p \in Hearing /\ p \in Programs /\ mine(p) = {i \in mine(p) : i <= n}
      BY <1>4, RouterIsSound DEF Hearing
    <2>2. sees[p] /\ ~\E i \in {k \in mine(p) : k <= n} : r.incoming[i].kind = "end"
      BY <1>4, <2>1
    <2>3. p # NoOne
      BY <2>1 DEF Parameters
    <2>4. PICK i \in 1..Len(r.incoming) : Tells(r, p, i)
      BY <1>2, <2>1, <2>2, <2>3 DEF Sound, Heard
    <2>5. i \in mine(p) /\ r.incoming[i].kind = "end"
      BY <2>4 DEF Tells
    <2> QED BY <2>1, <2>2, <2>5
  <1>6. r \in Routers
    BY <1>2 DEF Sound
  <1>7. /\ s \in Routers /\ s.gesture = r.gesture /\ s.advertised = r.advertised /\ s.wires = r.wires
        /\ s.outgoing = << >> /\ s.incoming = << >>
    <2>1. << >> \in Seq(OutPacket) /\ << >> \in Seq(InPacket)
      OBVIOUS
    <2>2. s \in Routers
      BY <1>6, <2>1 DEF Routers
    <2> QED BY <1>6, <2>2 DEF Routers
  <1> HIDE DEF s
  <1>8. Router' = s
    BY <1>3, <1>7 DEF Routers, Become, Router
  <1>9. Bound(s) /\ Lasting(s) /\ Followed(s) /\ Recalled(s, 0)
    BY <1>2, <1>7 DEF Sound, Bound, Lasting, Followed, Recalled
  <1>10. Heard(s, sees', world.alive \ deaf')
    BY <1>5 DEF Heard
  <1>11. sees' \in [Programs -> BOOLEAN]
    BY <1>4 DEF IInv
  <1> QED BY <1>3, <1>7, <1>8, <1>9, <1>10, <1>11 DEF IInv, Sound, Idle

LEMMA WorldKeeps == ASSUME IInv, World PROVE IInv'
  <1>1. Router' = Router
    BY DEF World, Router
  <1>2. world'.alive \subseteq world.alive /\ world' \in [mode : BOOLEAN, focus : Programs, alive : SUBSET Programs]
    BY DEF World, IInv
  <1>3. Heard(Router, sees, world'.alive \ deaf)
    BY <1>2, RouterIsSound DEF Sound, Heard, Hearing
  <1> QED BY <1>1, <1>2, <1>3 DEF World, IInv, Sound

-----------------------------------------------------------------------------
LEMMA RegisterKeeps ==
    ASSUME Parameters, IInv, NEW p \in Programs, Register(p) \/ Unregister(p)
    PROVE  IInv'
  <1>1. PICK r : r = CancelMine(p)
    OBVIOUS
  <1>2. Sound(r, sees, Hearing, host.gesture)
    BY <1>1, CancelKeeps, RouterIsSound DEF CancelMine
  <1>3. Become(r) /\ UNCHANGED <<world, host, sees, deaf>>
    BY <1>1 DEF Register, Unregister, Asks
  <1>4. registered' \subseteq Programs
    BY DEF IInv, Register, Unregister
  <1> QED BY <1>2, <1>3, <1>4, RouterStep

\* What is left when the gesture only notes how far it is.
LEMMA NotedKeeps ==
    ASSUME NEW r, NEW saw, NEW hear \in SUBSET Programs, NEW wire, Sound(r, saw, hear, wire),
           NEW t \in Routers, t.gesture.owner = r.gesture.owner, t.gesture.wire = r.gesture.wire,
           t.advertised = r.advertised, t.wires = r.wires,
           t.incoming = r.incoming, t.outgoing = r.outgoing
    PROVE  Sound(t, saw, hear, wire)
  BY DEF Sound, Bound, Lasting, Followed, Heard, Recalled, Tells, Recalls

LEMMA SendsKeeps == ASSUME Parameters, IInv, NEW p \in Programs, Sends(p) PROVE IInv'
  <1> PICK kind \in {"offer", "data", "answer"}, more \in BOOLEAN :
          Asks(p, IF gesture.owner # p
                  THEN IF kind = "offer" THEN Inner(Router, p, 0, "refused") ELSE Router
                  ELSE IF ~Permitted(kind) THEN Router
                  ELSE [Outer(Router, gesture.wire, kind, gesture.wire)
                           EXCEPT !.gesture.offered = @ \/ (kind = "offer" /\ ~gesture.chunk),
                                  !.gesture.chunk = more])
    BY DEF Sends
  <1>1. UNCHANGED <<registered, world, host, sees, deaf>> /\ registered' \subseteq Programs
    BY DEF Sends, Asks, IInv
  <1>2. CASE Become(Router)
    BY <1>1, <1>2, RouterIsSound, RouterStep
  <1>3. CASE Become(Inner(Router, p, 0, "refused"))
    <2> DEFINE m == [to |-> p, tag |-> 0, kind |-> "refused"]
    <2>1. PICK r : r = Inner(Router, p, 0, "refused")
      OBVIOUS
    <2>2. m \in InPacket /\ m.kind = "refused" /\ r = Inner(Router, m.to, m.tag, m.kind)
      BY <2>1 DEF InPacket
    <2> HIDE DEF m
    <2>3. Sound(r, sees, Hearing, host.gesture)
      BY <2>2, RouterIsSound, InnerKeeps
    <2> QED BY <1>1, <1>3, <2>1, <2>3, RouterStep
  <1>4. CASE Become([Outer(Router, gesture.wire, kind, gesture.wire)
                           EXCEPT !.gesture.offered = @ \/ (kind = "offer" /\ ~gesture.chunk),
                                  !.gesture.chunk = more])
    <2> DEFINE m == [tag |-> gesture.wire, kind |-> kind, wire |-> gesture.wire]
               far == gesture.offered \/ (kind = "offer" /\ ~gesture.chunk)
    <2>1. PICK r : r = Outer(Router, m.tag, m.kind, m.wire)
      OBVIOUS
    <2>2. gesture.wire \in Nat /\ gesture.offered \in BOOLEAN /\ gesture.chunk \in BOOLEAN
      BY RouterIsSound DEF Routers
    <2>3. m \in OutPacket /\ m.kind \notin {"cancel", "unregister"}
      BY <2>2 DEF OutPacket
    <2>4. Sound(r, sees, Hearing, host.gesture)
      <3> HIDE DEF m
      <3> QED BY <2>1, <2>3, RouterIsSound, OuterKeeps
    <2>5. r.gesture = gesture /\ r \in Routers
      <3> HIDE DEF m
      <3> QED BY <2>1, <2>3, RouterIsSound, OuterFields
    <2>6. PICK t : t = [r EXCEPT !.gesture.offered = @ \/ (kind = "offer" /\ ~gesture.chunk),
                                 !.gesture.chunk = more]
      OBVIOUS
    <2>7. Become(t)
      BY <1>4, <2>1, <2>6
    <2> DEFINE g == [r.gesture EXCEPT !.offered = far, !.chunk = more]
    <2>8. t = [r EXCEPT !.gesture = g]
      BY <2>5, <2>6 DEF Routers
    <2>9. far \in BOOLEAN
      BY <2>2
    <2>10. /\ g \in [owner : Programs \cup {NoOne}, wire : Nat, offered : BOOLEAN,
                     started : BOOLEAN, chunk : BOOLEAN]
           /\ g.owner = r.gesture.owner /\ g.wire = r.gesture.wire
      <3> HIDE DEF far
      <3> QED BY <2>5, <2>9 DEF Routers
    <2> HIDE DEF g, far
    <2>11. /\ t \in Routers /\ t.gesture = g /\ t.advertised = r.advertised /\ t.wires = r.wires
           /\ t.incoming = r.incoming /\ t.outgoing = r.outgoing
      BY <2>5, <2>8, <2>10 DEF Routers
    <2>12. Sound(t, sees, Hearing, host.gesture)
      BY <2>4, <2>10, <2>11, NotedKeeps, RouterIsSound
    <2> QED BY <1>1, <2>7, <2>12, RouterStep
  <1> QED BY <1>2, <1>3, <1>4 DEF Asks

LEMMA GivesUpKeeps == ASSUME Parameters, IInv, NEW p \in Programs, GivesUp(p) PROVE IInv'
  <1>1. PICK r : r = IF gesture.owner # p THEN Router ELSE Unadvertise(Recall(Router))
    OBVIOUS
  <1>2. /\ Become(r) /\ UNCHANGED <<registered, world, host, deaf>>
        /\ sees' = [sees EXCEPT ![p] = FALSE] /\ sees \in [Programs -> BOOLEAN]
    BY <1>1 DEF GivesUp, Asks, IInv
  <1>3. Sound(r, sees, Hearing \ {p}, host.gesture)
    <2>1. CASE gesture.owner # p
      BY <1>1, <2>1, RouterIsSound DEF Sound, Heard
    <2>2. CASE gesture.owner = p
      <3>1. p # NoOne /\ Hearing \ {p} \in SUBSET Programs
        BY RouterIsSound DEF Parameters
      <3>2. Sound(Recall(Router), sees, Hearing \ {p}, host.gesture) /\ Recall(Router).gesture = NoGesture
        BY <2>2, <3>1, RecallKeeps, RouterIsSound
      <3> QED BY <1>1, <2>2, <3>1, <3>2, UnadvertiseKeeps DEF NoGesture
    <2> QED BY <2>1, <2>2
  <1>4. Sound(r, sees', Hearing, host.gesture)
    BY <1>2, <1>3, RouterIsSound DEF Sound, Heard
  <1>5. Router' = r
    BY <1>2, <1>3 DEF Sound, Routers, Become, Router
  <1> QED BY <1>2, <1>4, <1>5 DEF IInv, Hearing

-----------------------------------------------------------------------------
LEMMA HostReadsKeeps == ASSUME IInv, HostReads PROVE IInv'
  <1> DEFINE t == [Router EXCEPT !.outgoing = Tail(@)]
             m == Head(outgoing)
  <1>1. Router \in Routers /\ outgoing \in Seq(OutPacket) /\ outgoing # << >>
    BY RouterIsSound DEF HostReads, Routers
  <1>2. /\ t.outgoing = Tail(outgoing) /\ t.incoming = incoming
        /\ t.advertised = advertised /\ t.gesture = gesture /\ t.wires = wires
    BY RouterIsSound DEF Router
  <1>4. t \in Routers
    <2>1. Tail(outgoing) \in Seq(OutPacket)
      BY <1>1
    <2> QED BY <1>1, <2>1, RouterIsSound DEF Routers
  <1> HIDE DEF t
  <1>3. Router' = t
    <2>1. outgoing' = Tail(outgoing) /\ UNCHANGED <<advertised, gesture, incoming, wires>>
      BY DEF HostReads
    <2> QED BY <1>2, <1>4, <2>1 DEF Router, Routers
  <1>5. /\ Len(t.outgoing) = Len(outgoing) - 1 /\ Len(outgoing) \in Nat
        /\ \A i \in 1..Len(outgoing) - 1 : t.outgoing[i] = outgoing[i + 1]
        /\ m = outgoing[1]
    BY <1>1, <1>2
  <1>6. Bound(t) /\ Followed(t) /\ Heard(t, sees, Hearing)
    BY <1>2, RouterIsSound DEF Sound, Bound, Followed, Heard, Tells
  <1>7. Lasting(t)
    <2>1. \A i \in 1..Len(outgoing) - 1 : i + 1 \in 1..Len(outgoing)
      BY <1>5
    <2>2. \A i \in 1..Len(t.outgoing) : Recalls(t, i) => t.outgoing[i].tag = 0
      BY <1>5, <2>1, RouterIsSound DEF Sound, Lasting, Recalls
    <2> QED BY <1>2, <2>2, RouterIsSound DEF Sound, Lasting
  <1> DEFINE ended == IF host.gesture = m.wire
                      THEN [host EXCEPT !.gesture = 0, !.offered = FALSE] ELSE host
  <1>8. /\ host' = CASE m.kind = "register" -> [host EXCEPT !.registered = m.wire]
                     [] m.kind = "unregister" ->
                           [ended EXCEPT !.registered = IF @ = m.wire THEN 0 ELSE @]
                     [] m.kind = "cancel" -> ended
                     [] m.kind = "offer" /\ host.gesture = m.wire ->
                           [host EXCEPT !.offered = TRUE]
                     [] OTHER -> host
        /\ UNCHANGED <<registered, world, sees, deaf>>
    BY DEF HostReads
  <1>9. host \in [registered : Nat, gesture : Nat, offered : BOOLEAN] /\ m \in OutPacket
    BY <1>1 DEF IInv
  <1>10. /\ host' \in [registered : Nat, gesture : Nat, offered : BOOLEAN]
         /\ host'.gesture = IF host.gesture = m.wire /\ m.kind \in {"cancel", "unregister"}
                            THEN 0 ELSE host.gesture
    <2> HIDE DEF m
    <2> QED BY <1>8, <1>9 DEF OutPacket
  <1>11. Recalled(t, host'.gesture)
    <2> SUFFICES ASSUME host'.gesture # 0, t.gesture.wire # host'.gesture
                 PROVE  \E i \in 1..Len(t.outgoing) :
                           Recalls(t, i) /\ t.outgoing[i].wire = host'.gesture
      BY DEF Recalled
    <2>1. host'.gesture = host.gesture
      BY <1>10
    <2>2. PICK i \in 1..Len(outgoing) : Recalls(Router, i) /\ outgoing[i].wire = host.gesture
      BY <1>2, <2>1, RouterIsSound DEF Sound, Recalled
    <2>3. i # 1
      BY <1>5, <1>10, <2>1, <2>2, RouterIsSound DEF Recalls
    <2>4. i - 1 \in 1..Len(outgoing) - 1 /\ (i - 1) + 1 = i
      BY <1>5, <2>2, <2>3
    <2>5. t.outgoing[i - 1] = outgoing[i]
      BY <1>5, <2>4
    <2> QED BY <1>5, <2>1, <2>2, <2>4, <2>5, RouterIsSound DEF Recalls
  <1> QED BY <1>3, <1>4, <1>6, <1>7, <1>8, <1>10, <1>11 DEF IInv, Sound, Hearing

LEMMA ProgramReadsKeeps == ASSUME IInv, ProgramReads PROVE IInv'
  <1> DEFINE t == [Router EXCEPT !.incoming = Tail(@)]
             m == Head(incoming)
             N == Len(incoming)
  <1>1. Router \in Routers /\ incoming \in Seq(InPacket) /\ incoming # << >>
    BY RouterIsSound DEF ProgramReads, Routers
  <1>2. /\ t.incoming = Tail(incoming) /\ t.outgoing = outgoing
        /\ t.advertised = advertised /\ t.gesture = gesture /\ t.wires = wires
    BY RouterIsSound DEF Router
  <1>4. t \in Routers
    <2>1. Tail(incoming) \in Seq(InPacket)
      BY <1>1
    <2> QED BY <1>1, <2>1, RouterIsSound DEF Routers
  <1> HIDE DEF t
  <1>3. Router' = t
    <2>1. incoming' = Tail(incoming) /\ UNCHANGED <<advertised, gesture, outgoing, wires>>
      BY DEF ProgramReads
    <2> QED BY <1>2, <1>4, <2>1 DEF Router, Routers
  <1>5. /\ Len(t.incoming) = N - 1 /\ N \in Nat
        /\ \A i \in 1..N - 1 : t.incoming[i] = incoming[i + 1]
        /\ m = incoming[1] /\ 1 \in 1..N
    BY <1>1, <1>2
  <1>6. \A i \in 1..N : i = 1 \/ (i - 1 \in 1..N - 1 /\ (i - 1) + 1 = i)
    BY <1>5
  <1>7. \A i \in 1..N - 1 : i + 1 \in 1..N
    BY <1>5
  <1>8. Bound(t) /\ Recalled(t, host.gesture)
    BY <1>2, RouterIsSound DEF Sound, Bound, Recalled, Recalls
  <1>9. Lasting(t)
    BY <1>2, <1>5, <1>7, RouterIsSound DEF Sound, Lasting, Recalls
  <1>10. Followed(t)
    <2> SUFFICES ASSUME NEW i \in 1..N - 1, t.incoming[i].kind = "gesture",
                        ~(t.gesture.owner = t.incoming[i].to /\ t.gesture.wire = t.incoming[i].tag)
                 PROVE  \E j \in i + 1..N - 1 : Tells(t, t.incoming[i].to, j)
      BY <1>5 DEF Followed
    <2>1. t.incoming[i] = incoming[i + 1] /\ i + 1 \in 1..N
      BY <1>5, <1>7
    <2>2. PICK j \in (i + 1) + 1..N : Tells(Router, incoming[i + 1].to, j)
      BY <1>2, <2>1, RouterIsSound DEF Sound, Followed
    <2>3. j - 1 \in i + 1..N - 1 /\ j - 1 \in 1..N - 1 /\ (j - 1) + 1 = j
      BY <1>5, <2>1, <2>2
    <2>4. t.incoming[j - 1] = incoming[j]
      BY <1>5, <2>3
    <2> QED BY <2>1, <2>2, <2>3, <2>4, RouterIsSound DEF Tells
  <1>11. /\ sees' = IF m.to \notin world.alive \/ m.kind \notin {"gesture", "end"} THEN sees
                    ELSE [sees EXCEPT ![m.to] = m.kind = "gesture"]
         /\ UNCHANGED <<registered, world, host, deaf>>
    BY DEF ProgramReads
  <1>12. m \in InPacket /\ sees \in [Programs -> BOOLEAN]
    BY <1>1 DEF IInv
  <1>13. sees' \in [Programs -> BOOLEAN]
    <2> HIDE DEF m
    <2> QED BY <1>11, <1>12 DEF InPacket
  <1>14. Heard(t, sees', Hearing)
    <2> SUFFICES ASSUME NEW p \in Hearing, sees'[p], gesture.owner # p
                 PROVE  \E i \in 1..N - 1 : Tells(t, p, i)
      BY <1>2, <1>5 DEF Heard
    <2>1. p \in Programs /\ p \in world.alive
      BY RouterIsSound DEF Hearing
    <2>2. CASE m.to = p /\ m.kind = "gesture"
      <3>1. PICK j \in 1 + 1..N : Tells(Router, p, j)
        BY <1>2, <1>5, <2>2, RouterIsSound DEF Sound, Followed
      <3>2. j - 1 \in 1..N - 1 /\ (j - 1) + 1 = j
        BY <1>5, <3>1
      <3>3. t.incoming[j - 1] = incoming[j]
        BY <1>5, <3>2
      <3> QED BY <3>1, <3>2, <3>3, RouterIsSound DEF Tells
    <2>3. CASE ~(m.to = p /\ m.kind = "gesture")
      <3>1. sees[p] /\ ~(m.to = p /\ m.kind = "end")
        <4> HIDE DEF m
        <4> QED BY <1>11, <1>12, <2>1, <2>3 DEF InPacket
      <3>2. PICK j \in 1..N : Tells(Router, p, j)
        BY <3>1, RouterIsSound DEF Sound, Heard
      <3>3. j # 1
        BY <1>5, <3>1, <3>2, RouterIsSound DEF Tells
      <3>4. j - 1 \in 1..N - 1 /\ t.incoming[j - 1] = incoming[j]
        BY <1>5, <1>6, <3>2, <3>3
      <3> QED BY <3>2, <3>4, RouterIsSound DEF Tells
    <2> QED BY <2>2, <2>3
  <1> QED BY <1>3, <1>4, <1>8, <1>9, <1>10, <1>11, <1>13, <1>14 DEF IInv, Sound, Hearing

LEMMA HostBeginsKeeps == ASSUME Parameters, IInv, HostBegins PROVE IInv'
  <1>1. UNCHANGED <<registered, world, sees, deaf>>
    BY DEF HostBegins
  <1>2. CASE Become(Router) /\ UNCHANGED host
    BY <1>1, <1>2, RouterIsSound, RouterStep DEF IInv
  <1> DEFINE a == advertised
             m == [to |-> a.owner, tag |-> a.wire, kind |-> "gesture"]
             g == [NoGesture EXCEPT !.owner = a.owner, !.wire = a.wire]
             u == [Router EXCEPT !.gesture = g]
             t == Inner(u, m.to, m.tag, m.kind)
             N == Len(incoming)
  <1>3. CASE /\ gesture.owner = NoOne /\ advertised.wire # 0
             /\ Become(t) /\ host' = [host EXCEPT !.gesture = a.wire]
    <2>1. Router \in Routers /\ incoming \in Seq(InPacket)
      BY RouterIsSound DEF Routers
    <2>2. /\ a \in [wire : Nat, owner : Programs \cup {NoOne}] /\ a.owner \in Programs
          /\ a.wire <= wires
      BY <1>3, <2>1, RouterIsSound DEF Routers, Sound, Bound
    <2>3. m \in InPacket /\ m.to = a.owner /\ m.tag = a.wire /\ m.kind = "gesture"
      BY <2>2 DEF InPacket
    <2>4. /\ g \in [owner : Programs \cup {NoOne}, wire : Nat, offered : BOOLEAN,
                    started : BOOLEAN, chunk : BOOLEAN]
          /\ g.owner = a.owner /\ g.wire = a.wire
      BY <2>2 DEF NoGesture
    <2> HIDE DEF g
    <2>5. /\ u \in Routers /\ u.gesture = g /\ u.incoming = incoming /\ u.outgoing = outgoing
          /\ u.advertised = a /\ u.wires = wires
      BY <2>1, <2>4, RouterIsSound DEF Routers
    <2> HIDE DEF u, m
    <2>6. Sound(u, sees, Hearing, a.wire)
      <3>1. Bound(u) /\ Recalled(u, a.wire)
        BY <1>3, <2>2, <2>4, <2>5, RouterIsSound DEF Sound, Bound, Recalled, Parameters
      <3>2. Lasting(u)
        BY <2>5, RouterIsSound DEF Sound, Lasting, Recalls
      <3>3. Followed(u)
        <4> SUFFICES ASSUME NEW i \in 1..N, incoming[i].kind = "gesture"
                     PROVE  \E j \in i + 1..N : Tells(u, incoming[i].to, j)
          BY <2>5 DEF Followed
        <4>1. incoming[i].to # NoOne
          <5>1. incoming[i] \in InPacket
            BY <2>1
          <5> QED BY <5>1 DEF Parameters, InPacket
        <4>2. PICK j \in i + 1..N : Tells(Router, incoming[i].to, j)
          BY <1>3, <4>1, RouterIsSound DEF Sound, Followed
        <4> QED BY <2>5, <4>2, RouterIsSound DEF Tells
      <3>4. Heard(u, sees, Hearing)
        <4> SUFFICES ASSUME NEW p \in Hearing, sees[p] PROVE \E i \in 1..N : Tells(u, p, i)
          BY <2>5 DEF Heard
        <4>1. p # NoOne
          BY RouterIsSound DEF Parameters
        <4>2. PICK i \in 1..N : Tells(Router, p, i)
          BY <1>3, <4>1, RouterIsSound DEF Sound, Heard
        <4> QED BY <2>5, <4>2, RouterIsSound DEF Tells
      <3> QED BY <2>5, <3>1, <3>2, <3>3, <3>4 DEF Sound
    <2>7. Sound(t, sees, Hearing, a.wire)
      <3>1. CASE ~HasRoom(u.incoming, m.kind)
        <4>1. t = u
          BY <2>3, <2>5, <3>1, InnerFields
        <4> HIDE DEF t
        <4> QED BY <2>6, <4>1
      <3>2. CASE HasRoom(u.incoming, m.kind)
        <4>1. /\ t \in Routers /\ t.gesture = g /\ t.incoming = Append(incoming, m)
              /\ t.outgoing = outgoing /\ t.advertised = a /\ t.wires = wires
          BY <2>3, <2>5, <3>2, InnerFields
        <4> HIDE DEF t
        <4>2. /\ Len(t.incoming) = N + 1
              /\ \A i \in 1..N : t.incoming[i] = incoming[i]
              /\ t.incoming[N + 1] = m
              /\ \A i \in 1..N + 1 : i \in 1..N \/ i = N + 1
              /\ N \in Nat /\ \A i \in 1..N : i \in 1..N + 1
          BY <2>1, <2>3, <4>1
        <4>3. Bound(t) /\ Recalled(t, a.wire)
          BY <2>5, <2>6, <4>1 DEF Sound, Bound, Recalled, Recalls
        <4>4. Lasting(t)
          <5>1. \A i \in 1..N + 1 :
                   t.incoming[i].kind = "end" =>
                      /\ t.incoming[i].tag <= wires
                      /\ t.incoming[i].tag = 0 \/ t.incoming[i].tag # a.wire
            <6> TAKE i \in 1..N + 1
            <6>1. CASE i \in 1..N
              BY <2>5, <2>6, <4>2, <6>1 DEF Sound, Lasting
            <6>2. CASE i = N + 1
              BY <2>3, <4>2, <6>2
            <6> QED BY <4>2, <6>1, <6>2
          <5> QED BY <2>5, <2>6, <4>1, <4>2, <5>1 DEF Sound, Lasting, Recalls
        <4>5. Followed(t)
          <5> SUFFICES ASSUME NEW i \in 1..N + 1, t.incoming[i].kind = "gesture",
                              ~(t.gesture.owner = t.incoming[i].to /\ t.gesture.wire = t.incoming[i].tag)
                       PROVE  \E j \in i + 1..N + 1 : Tells(t, t.incoming[i].to, j)
            BY <4>2 DEF Followed
          <5>1. i # N + 1
            BY <2>3, <2>4, <4>1, <4>2
          <5>2. i \in 1..N /\ t.incoming[i] = incoming[i]
            BY <4>2, <5>1
          <5>3. PICK j \in i + 1..N : Tells(u, incoming[i].to, j)
            BY <2>5, <2>6, <4>1, <5>2 DEF Sound, Followed
          <5>4. j \in i + 1..N + 1 /\ j \in 1..N
            BY <4>2, <5>2, <5>3
          <5> QED BY <2>5, <4>2, <5>2, <5>3, <5>4 DEF Tells
        <4>6. Heard(t, sees, Hearing)
          BY <2>5, <2>6, <4>1, <4>2 DEF Sound, Heard, Tells
        <4> QED BY <4>1, <4>3, <4>4, <4>5, <4>6 DEF Sound
      <3> QED BY <3>1, <3>2
    <2> HIDE DEF t
    <2>8. Router' = t
      BY <1>3, <2>7 DEF Sound, Become, Router, Routers
    <2>9. host' \in [registered : Nat, gesture : Nat, offered : BOOLEAN] /\ host'.gesture = a.wire
      BY <1>3, <2>2 DEF IInv
    <2> QED BY <1>1, <2>7, <2>8, <2>9 DEF IInv, Hearing
  <1> QED BY <1>2, <1>3 DEF HostBegins

\* The end that the terminal reports: the answer waits for the program, and the
\* registration goes with the gesture.
LEMMA EndKeeps ==
    ASSUME Parameters, IInv, gesture.owner # NoOne
    PROVE  LET over == End(Inner(Router, gesture.owner, gesture.wire, "end")) IN
           /\ advertised.wire # 0
           /\ Sound([Outer(over, 0, "unregister", advertised.wire) EXCEPT !.advertised = NotAdvertised],
                    sees, Hearing, 0)
  <1> DEFINE p == gesture.owner
             w == gesture.wire
             N == Len(incoming)
             m == [to |-> p, tag |-> w, kind |-> "end"]
             n == [tag |-> 0, kind |-> "unregister", wire |-> w]
             K == {i \in 1..Len(outgoing) : outgoing[i].tag # w}
             u == [Router EXCEPT !.outgoing = Kept(@, K)]
             v == Outer(u, n.tag, n.kind, n.wire)
             t == [v EXCEPT !.gesture = NoGesture, !.advertised = NotAdvertised,
                            !.incoming = Append(incoming, m)]
  <1>1. Router \in Routers /\ incoming \in Seq(InPacket)
    BY RouterIsSound DEF Routers
  <1>2. /\ p \in Programs /\ w \in Nat /\ w # 0 /\ w <= wires
        /\ advertised = [wire |-> w, owner |-> p]
    BY <1>1, RouterIsSound DEF Routers, Sound, Bound
  <1>3. Sound(u, sees, Hearing, host.gesture)
    <2>1. \A i \in 1..Len(Router.outgoing) : Recalls(Router, i) => i \in K
      BY <1>2, RouterIsSound DEF Sound, Lasting, Recalls
    <2>2. K \in SUBSET (1..Len(Router.outgoing))
      BY RouterIsSound
    <2> HIDE DEF K
    <2> QED BY <2>1, <2>2, RouterIsSound, ThinsOut
  <1>4. n \in OutPacket /\ n.tag = 0
    BY <1>2 DEF OutPacket
  <1> HIDE DEF u
  <1>5. Sound(v, sees, Hearing, host.gesture) /\ v \in Routers
    <2> HIDE DEF n
    <2> QED BY <1>3, <1>4, RouterIsSound, OuterKeeps DEF Sound
  <1>0. u \in Routers /\ HasRoom(u.outgoing, n.kind) /\ HasRoom(Router.incoming, m.kind)
    BY <1>3, ShortFits DEF Sound, Bulky
  <1>6. v.incoming = incoming /\ v.wires = wires /\ v.gesture = gesture
    <2>1. u.incoming = incoming /\ u.wires = wires /\ u.gesture = gesture
      BY <1>1, RouterIsSound DEF u, Routers
    <2> HIDE DEF n
    <2> QED BY <1>0, <1>4, <2>1, OuterFields
  <1>7. t = [Outer(End(Inner(Router, p, w, "end")), 0, "unregister", w) EXCEPT !.advertised = NotAdvertised]
    <2> DEFINE x == Inner(Router, p, w, "end")
               e == [Router EXCEPT !.incoming = Append(incoming, m), !.gesture = NoGesture,
                                   !.outgoing = Kept(outgoing, K)]
    <2>1. x = [Router EXCEPT !.incoming = Append(incoming, m)]
      BY <1>0, <1>1, RouterIsSound DEF Inner, Routers
    <2>2. x.gesture = gesture /\ x.outgoing = outgoing
      <3> HIDE DEF m, x
      <3> QED BY <1>1, <2>1, RouterIsSound DEF Routers
    <2>3. End(x) = [x EXCEPT !.gesture = NoGesture, !.outgoing = Without(@, x.gesture.wire)]
      BY DEF End
    <2>4. End(x) = [x EXCEPT !.gesture = NoGesture, !.outgoing = Kept(outgoing, K)]
      <3>1. Without(outgoing, w) = Kept(outgoing, K)
        BY DEF Without
      <3> HIDE DEF x, K
      <3>2. [x EXCEPT !.outgoing = Without(@, x.gesture.wire)] = [x EXCEPT !.outgoing = Kept(outgoing, K)]
        BY <2>2, <3>1
      <3> QED BY <2>2, <2>3, <3>1
    <2>5. End(x) = e
      <3> HIDE DEF m, K, x
      <3> QED BY <1>1, <2>1, <2>4, RouterIsSound DEF Routers
    <2>6. u = [Router EXCEPT !.outgoing = Kept(outgoing, K)]
      BY <1>1, RouterIsSound DEF u, Routers
    <2> HIDE DEF K, m
    <2>7. v = [Router EXCEPT !.outgoing = Append(Kept(outgoing, K), n)]
      BY <1>0, <1>1, <2>6, RouterIsSound DEF Outer, Routers
    <2>8. Outer(e, 0, "unregister", w) = [e EXCEPT !.outgoing = Append(Kept(outgoing, K), n)]
      <3>1. HasRoom(e.outgoing, "unregister")
        BY ShortFits DEF Bulky
      <3> QED BY <1>1, <3>1, RouterIsSound DEF Outer, Routers
    <2> HIDE DEF n, x
    <2>9. Outer(End(Inner(Router, p, w, "end")), 0, "unregister", w)
             = [e EXCEPT !.outgoing = Append(Kept(outgoing, K), n)]
      BY <2>5, <2>8 DEF x
    <2>10. [[e EXCEPT !.outgoing = Append(Kept(outgoing, K), n)] EXCEPT !.advertised = NotAdvertised] = t
      BY <1>1, <2>7, RouterIsSound DEF Routers
    <2> HIDE DEF t, e
    <2> QED BY <2>9, <2>10
  <1>8. m \in InPacket /\ Append(incoming, m) \in Seq(InPacket)
    <2>1. m \in InPacket
      BY <1>2 DEF InPacket
    <2> HIDE DEF m
    <2> QED BY <1>1, <2>1
  <1> HIDE DEF v
  <1>9. /\ t.gesture = NoGesture /\ t.advertised = NotAdvertised /\ t.wires = wires
        /\ t.incoming = Append(incoming, m) /\ t.outgoing = v.outgoing
    <2> HIDE DEF m
    <2> QED BY <1>5, <1>6 DEF Routers
  <1>10. t \in Routers
    <2> HIDE DEF m
    <2> QED BY <1>5, <1>8 DEF Routers, NotAdvertised, NoGesture
  <1>11. m.to = p /\ m.tag = w /\ m.kind = "end"
    OBVIOUS
  <1> HIDE DEF t, m
  <1>12. /\ Len(t.incoming) = N + 1
         /\ \A i \in 1..N : t.incoming[i] = incoming[i]
         /\ t.incoming[N + 1] = m
         /\ \A i \in 1..N + 1 : i \in 1..N \/ i = N + 1
         /\ N \in Nat /\ \A i \in 1..N : i \in 1..N + 1
    BY <1>1, <1>8, <1>9
  <1>13. Bound(t) /\ Recalled(t, 0)
    BY <1>9, <1>10 DEF Bound, Recalled, NotAdvertised, NoGesture, Routers
  <1>14. Lasting(t)
    <2>1. \A i \in 1..N + 1 :
             t.incoming[i].kind = "end" =>
                /\ t.incoming[i].tag <= wires
                /\ t.incoming[i].tag = 0 \/ t.incoming[i].tag # 0
      <3> TAKE i \in 1..N + 1
      <3>1. CASE i \in 1..N
        BY <1>12, <3>1, RouterIsSound DEF Sound, Lasting
      <3>2. CASE i = N + 1
        BY <1>2, <1>11, <1>12, <3>2
      <3> QED BY <1>12, <3>1, <3>2
    <2> QED BY <1>5, <1>9, <1>12, <2>1 DEF Sound, Lasting, Recalls, NotAdvertised
  <1>15. Followed(t)
    <2> SUFFICES ASSUME NEW i \in 1..N + 1, t.incoming[i].kind = "gesture"
                 PROVE  \E j \in i + 1..N + 1 : Tells(t, t.incoming[i].to, j)
      BY <1>12 DEF Followed
    <2>1. i \in 1..N /\ t.incoming[i] = incoming[i]
      BY <1>11, <1>12
    <2>2. CASE incoming[i].to = p
      <3>1. Tells(t, p, N + 1) /\ N + 1 \in i + 1..N + 1
        BY <1>11, <1>12, <2>1 DEF Tells
      <3> QED BY <2>1, <2>2, <3>1
    <2>3. CASE incoming[i].to # p
      <3>1. PICK j \in i + 1..N : Tells(Router, incoming[i].to, j)
        BY <2>1, <2>3, RouterIsSound DEF Sound, Followed
      <3>2. j \in i + 1..N + 1 /\ j \in 1..N
        BY <1>12, <2>1, <3>1
      <3> QED BY <1>12, <2>1, <3>1, <3>2, RouterIsSound DEF Tells
    <2> QED BY <2>2, <2>3
  <1>16. Heard(t, sees, Hearing)
    <2> SUFFICES ASSUME NEW q \in Hearing, sees[q] PROVE \E i \in 1..N + 1 : Tells(t, q, i)
      BY <1>12 DEF Heard
    <2>1. CASE q = p
      <3>1. Tells(t, p, N + 1) /\ N + 1 \in 1..N + 1
        BY <1>11, <1>12 DEF Tells
      <3> QED BY <2>1, <3>1
    <2>2. CASE q # p
      <3>1. PICK i \in 1..N : Tells(Router, q, i)
        BY <2>2, RouterIsSound DEF Sound, Heard
      <3> QED BY <1>12, <3>1, RouterIsSound DEF Tells
    <2> QED BY <2>1, <2>2
  <1> QED BY <1>2, <1>7, <1>10, <1>13, <1>14, <1>15, <1>16 DEF Sound

LEMMA HostSaysKeeps == ASSUME Parameters, IInv, HostSays PROVE IInv'
  <1> PICK kind \in {"ok", "event", "end"}, more \in BOOLEAN :
          /\ Become(LET g == gesture
                        told == Inner(Router, g.owner, g.wire, kind)
                        over == End(told)
                    IN  IF g.wire # host.gesture \/ g.owner = NoOne THEN Router
                        ELSE IF more THEN Cancel(Router)
                        ELSE IF kind = "ok"
                             THEN IF g.offered THEN [told EXCEPT !.gesture.started = TRUE] ELSE Router
                        ELSE IF kind = "event" THEN told
                        ELSE IF advertised.wire = 0 THEN over
                        ELSE [Outer(over, 0, "unregister", advertised.wire)
                                 EXCEPT !.advertised = NotAdvertised])
          /\ host' = IF kind = "end" THEN [host EXCEPT !.gesture = 0, !.offered = FALSE] ELSE host
    BY DEF HostSays
  <1> DEFINE p == gesture.owner
             w == gesture.wire
  <1>1. UNCHANGED <<registered, world, sees, deaf>> /\ registered' \subseteq Programs
    BY DEF HostSays, IInv
  <1>2. /\ host' \in [registered : Nat, gesture : Nat, offered : BOOLEAN]
        /\ host'.gesture = IF kind = "end" THEN 0 ELSE host.gesture
    BY DEF IInv
  <1>3. ASSUME NEW r, Sound(r, sees, Hearing, host.gesture), Become(r) PROVE IInv'
    <2>1. Router' = r
      BY <1>3 DEF Sound, Routers, Become, Router
    <2>2. Recalled(r, host'.gesture)
      BY <1>2, <1>3 DEF Sound, Recalled
    <2> QED BY <1>1, <1>2, <1>3, <2>1, <2>2 DEF IInv, Sound, Hearing
  <1>4. CASE Become(Router)
    <2>1. PICK r : r = Router
      OBVIOUS
    <2> QED BY <1>3, <1>4, <2>1, RouterIsSound
  <1>5. p # NoOne /\ kind # "end" => Sound(Inner(Router, p, w, kind), sees, Hearing, host.gesture)
    <2> SUFFICES ASSUME p # NoOne, kind # "end"
                 PROVE  Sound(Inner(Router, p, w, kind), sees, Hearing, host.gesture)
      OBVIOUS
    <2> DEFINE m == [to |-> p, tag |-> w, kind |-> kind]
    <2>1. m \in InPacket /\ m.to = p /\ m.tag = w /\ m.kind = kind
      BY RouterIsSound DEF InPacket, Routers
    <2>2. Sound(Inner(Router, m.to, m.tag, m.kind), sees, Hearing, host.gesture)
      <3> HIDE DEF m
      <3> QED BY <2>1, RouterIsSound, InnerKeeps
    <2> QED BY <2>1, <2>2
  <1>a. CASE Become(Cancel(Router))
    <2>1. PICK r : r = Cancel(Router)
      OBVIOUS
    <2>2. Sound(r, sees, Hearing, host.gesture)
      BY <2>1, CancelKeeps, RouterIsSound
    <2> QED BY <1>3, <1>a, <2>1, <2>2
  <1>6. CASE p # NoOne /\ kind = "event" /\ Become(Inner(Router, p, w, kind))
    <2>1. PICK r : r = Inner(Router, p, w, kind)
      OBVIOUS
    <2> QED BY <1>3, <1>5, <1>6, <2>1
  <1>7. CASE p # NoOne /\ kind = "ok" /\ Become([Inner(Router, p, w, kind) EXCEPT !.gesture.started = TRUE])
    <2>1. PICK r : r = Inner(Router, p, w, kind)
      OBVIOUS
    <2>2. PICK t : t = [r EXCEPT !.gesture.started = TRUE]
      OBVIOUS
    <2>3. Sound(r, sees, Hearing, host.gesture) /\ r \in Routers
      BY <1>5, <1>7, <2>1 DEF Sound
    <2>4. /\ t \in Routers /\ t.gesture.owner = r.gesture.owner /\ t.gesture.wire = r.gesture.wire
          /\ t.advertised = r.advertised /\ t.wires = r.wires
          /\ t.incoming = r.incoming /\ t.outgoing = r.outgoing
      BY <2>2, <2>3 DEF Routers
    <2>5. Sound(t, sees, Hearing, host.gesture)
      BY <2>3, <2>4, NotedKeeps, RouterIsSound
    <2> QED BY <1>3, <1>7, <2>1, <2>2, <2>5
  <1>8. CASE /\ p # NoOne /\ kind = "end"
             /\ Become([Outer(End(Inner(Router, p, w, "end")), 0, "unregister", advertised.wire)
                           EXCEPT !.advertised = NotAdvertised])
    <2>1. PICK r : r = [Outer(End(Inner(Router, p, w, "end")), 0, "unregister", advertised.wire)
                           EXCEPT !.advertised = NotAdvertised]
      OBVIOUS
    <2>2. Sound(r, sees, Hearing, 0)
      BY <1>8, <2>1, EndKeeps
    <2>3. Router' = r
      BY <1>8, <2>1, <2>2 DEF Sound, Routers, Become, Router
    <2> QED BY <1>1, <1>2, <1>8, <2>2, <2>3 DEF IInv, Sound, Hearing
  <1>9. p # NoOne => advertised.wire # 0
    BY EndKeeps
  <1> QED BY <1>4, <1>6, <1>7, <1>8, <1>9, <1>a

LEMMA StepsKeep == Parameters /\ IInv /\ (Next \/ UNCHANGED vars) => IInv'
  <1> SUFFICES ASSUME Parameters, IInv, Next \/ UNCHANGED vars PROVE IInv'
    OBVIOUS
  <1>1. CASE UNCHANGED vars
    BY <1>1 DEF vars, IInv, Router, Hearing
  <1>2. CASE \E p \in Programs : Register(p) \/ Unregister(p) \/ Sends(p) \/ GivesUp(p)
    BY <1>2, RegisterKeeps, SendsKeeps, GivesUpKeeps
  <1>3. CASE Tick \/ Disable \/ Detach \/ World
    BY <1>3, TickKeeps, DisableKeeps, DetachKeeps, WorldKeeps
  <1>4. CASE HostReads \/ HostBegins \/ HostSays \/ ProgramReads
    BY <1>4, HostReadsKeeps, HostBeginsKeeps, HostSaysKeeps, ProgramReadsKeeps
  <1> QED BY <1>1, <1>2, <1>3, <1>4 DEF Next

LEMMA Promises == Parameters /\ IInv => GestureIsToldOver /\ GestureIsBound
  <1> SUFFICES ASSUME Parameters, IInv PROVE GestureIsToldOver /\ GestureIsBound
    OBVIOUS
  <1>1. GestureIsToldOver
    BY RouterIsSound DEF GestureIsToldOver, Sound, Heard, Tells, Hearing
  <1>2. GestureIsBound
    BY RouterIsSound DEF GestureIsBound, Sound, Bound, Recalled, Recalls
  <1> QED BY <1>1, <1>2

\* What is on its way between the programs, the router and the terminal outside is what
\* it is taken to be in every state: no end is lost.
THEOREM Invariance == ASSUME Parameters PROVE Spec => []IInv
  <1>1. Init => IInv
    BY Starts
  <1>2. IInv /\ [Next]_vars => IInv'
    BY StepsKeep
  <1> QED BY <1>1, <1>2, PTL DEF Spec

\* Whatever ends a gesture (the programs, the terminal, a menu, a timeout, a process that
\* ends or a detach), with any number of programs, registrations and packets: the program
\* that was told of it is told of its end, and the terminal that it is over, also where
\* a full queue discards packets (outer, inner).
THEOREM GesturesAreToldOver ==
    ASSUME Parameters
    PROVE  Spec => [](GestureIsToldOver /\ GestureIsBound)
  <1>1. IInv => GestureIsToldOver /\ GestureIsBound
    BY Promises
  <1> QED BY <1>1, Invariance, PTL

=============================================================================
