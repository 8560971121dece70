---------------------------- MODULE ControlService ----------------------------
(***************************************************************************)
(* The script control service of a session (control.rs), its clients, and   *)
(* the raw output of panes that `pane subscribe` and `pane log` follow with *)
(* cursors (pane_output.rs).                                                *)
(*                                                                         *)
(* One Service::tick is the sequence Accepts, Serves for each client in its  *)
(* place, and the end of the tick (`turn`): the clients run meanwhile.  A    *)
(* request and a reply are written in pieces.  A byte of output is named by  *)
(* its server, pane, generation and position, so that what a follower wrote  *)
(* says by itself where it came from.                                        *)
(***************************************************************************)
EXTENDS Integers, Sequences, FiniteSets, FiniteSetsExt, SequencesExt,
        SequenceTheorems, WellFoundedInduction, TLAPS

CONSTANTS
    Callers, Followers,     \* commands that change something; that follow output
    Panes,
    MaxClients,             \* MAX_CLIENTS
    MaxResponse,            \* MAX_RESPONSE, in units of which a short reply is one
    Limit,                  \* pane_output::LIMIT
    Whole,                  \* the pieces of a request
    MaxOutput, MaxServers, MaxGenerations    \* bounds

Clients == Callers \cup Followers
None == "none"

VARIABLES
    server,         \* the process id of the server
    active,         \* the pane a request without a pane means
    output,         \* pane -> Output and whether its end was read
    backlog,        \* connections not accepted yet
    clients,        \* Service.clients, in order
    turn,           \* [left, budget] of the tick that is running
    command,        \* client -> its own state
    written,        \* follower -> the bytes it has written
    applied         \* caller -> how often its request was executed

vars == <<server, active, output, backlog, clients, turn, command, written, applied>>

Fresh == [oldest |-> 0, end |-> 0, generation |-> 0, eof |-> FALSE]
Idle == [left |-> << >>, budget |-> 0]
NoReply == [size |-> 0]
NewClient(c) == [id |-> c, got |-> 0, reply |-> NoReply, offset |-> 0]
\* follow_output before its first chunk: no pane, no server, no cursor.
Unpinned == [pane |-> None, server |-> 0, generation |-> 0, next |-> -1]

Init ==
    /\ server = 1
    /\ active \in Panes
    /\ output = [p \in Panes |-> Fresh]
    /\ backlog = << >>
    /\ clients = << >>
    /\ turn = Idle
    /\ command = [c \in Clients |-> [pc |-> "start", sent |-> 0, arrived |-> 0,
                                     reply |-> NoReply, pin |-> Unpinned]]
    /\ written = [c \in Followers |-> << >>]
    /\ applied = [c \in Callers |-> 0]

-----------------------------------------------------------------------------
(* Panes. *)

\* The tail keeps the last Limit bytes.
Appended(o, n) == [o EXCEPT !.end = @ + n, !.oldest = Max({@, o.end + n - Limit})]

\* Output::restart in respawn, which needs the end of the output.
Restarted(o) ==
    [o EXCEPT !.oldest = o.end, !.generation = @ + 1, !.eof = FALSE]

Prints ==
    \E p \in Panes, n \in 1..Limit + 1 :
        /\ ~output[p].eof
        /\ MapThenSumSet(LAMBDA q : output[q].end, Panes) + n <= MaxOutput
        /\ output' = [output EXCEPT ![p] = Appended(@, n)]
        /\ UNCHANGED <<server, active, backlog, clients, turn, command, written, applied>>

EndsOutput ==
    \E p \in Panes :
        /\ ~output[p].eof
        /\ output' = [output EXCEPT ![p].eof = TRUE]
        /\ UNCHANGED <<server, active, backlog, clients, turn, command, written, applied>>

Respawns ==
    \E p \in Panes :
        /\ output[p].eof
        /\ output[p].generation < MaxGenerations
        /\ output' = [output EXCEPT ![p] = Restarted(@)]
        /\ UNCHANGED <<server, active, backlog, clients, turn, command, written, applied>>

Focuses ==
    \E p \in Panes \ {active} :
        /\ active' = p
        /\ UNCHANGED <<server, output, backlog, clients, turn, command, written, applied>>

\* Output::read: what follows the cursor and is still there.
Chunk(p, after) ==
    LET o == output[p]
        from == IF after = -1 THEN o.end ELSE after
        start == Max({from, o.oldest})
    IN
    [ok |-> from <= o.end, pane |-> p, server |-> server, generation |-> o.generation,
     start |-> start, next |-> o.end, dropped |-> start - from, complete |-> o.eof,
     size |-> IF from <= o.end THEN 1 + o.end - start ELSE 1]

-----------------------------------------------------------------------------
(* The service. *)

Refusal == [ok |-> FALSE, size |-> 1]

\* The replies that wait take their share of the 16 MiB first.
Held(s) ==
    LET sum[n \in 0..Len(s)] == IF n = 0 THEN 0 ELSE sum[n - 1] + s[n].reply.size
    IN  sum
Waiting == Held(clients)[Len(clients)]

\* What a tick may add to the replies.
Budget == Max({0, MaxResponse - Waiting})

\* At most MaxClients are taken from the backlog; one too many is closed.
Accepts ==
    LET taken == SubSeq(backlog, 1, Min({MaxClients, Len(backlog)}))
        room == Min({MaxClients - Len(clients), Len(taken)})
        new == [i \in 1..room |-> NewClient(taken[i])]
    IN
    /\ turn = Idle
    /\ clients \o backlog # << >>
    /\ backlog' = SubSeq(backlog, Len(taken) + 1, Len(backlog))
    /\ clients' = clients \o new
    /\ turn' = [left |-> [i \in DOMAIN clients' |-> clients'[i].id], budget |-> Budget]
    /\ UNCHANGED <<server, active, output, command, written, applied>>

Place(c) == CHOOSE i \in DOMAIN clients : clients[i].id = c
Served(c) == clients[Place(c)]
Closed(c) == command[c].pc \in {"ok", "error"}

\* `retain_mut` keeps the client as it is now, or drops it.
Keeps(c, new) == clients' = [clients EXCEPT ![Place(c)] = new]
Drops(c) == clients' = RemoveAt(clients, Place(c))
Passes(budget) == turn' = [left |-> Tail(turn.left), budget |-> budget]

\* Mutant: the waiting bytes are kept with the reply and read again.
WritesAgain(c, reply, offset, got) ==
    \E n \in 0..reply.size - offset :
        LET told == offset + n = reply.size IN
        /\ command' = [command EXCEPT ![c].arrived = @ + n,
                                      ![c].reply = IF told THEN reply ELSE @]
        /\ IF told THEN Drops(c)
           ELSE Keeps(c, [id |-> c, got |-> Whole - 1, reply |-> NoReply, offset |-> 0])

\* What fits is written; a client that has its whole reply is done with, and so
\* is one that has gone.
Writes(c, reply, offset, got) ==
    IF Closed(c) THEN Drops(c) /\ UNCHANGED command
    ELSE \E n \in 0..reply.size - offset :
        LET told == offset + n = reply.size IN
        /\ command' = [command EXCEPT ![c].arrived = @ + n,
                                      ![c].reply = IF told THEN reply ELSE @]
        /\ IF told THEN Drops(c)
           ELSE Keeps(c, [id |-> c, got |-> got, reply |-> reply, offset |-> offset + n])

Pane(pin) == IF pin.pane = None THEN active ELSE pin.pane

\* What the event loop answers (terminal/control.rs): it may refuse.
Replies(c) ==
    {Refusal} \cup
    IF c \in Callers THEN [ok : {TRUE}, size : {1, MaxResponse}]
    ELSE {Chunk(Pane(command[c].pin), command[c].pin.next)}

Executes(c, reply) ==
    applied' = IF c \in Callers /\ reply.ok THEN [applied EXCEPT ![c] = @ + 1] ELSE applied

\* A request that is whole is executed; its reply has to fit what is left.
Handles(c) ==
    \E reply \in Replies(c) :
        LET fits == IF reply.size <= turn.budget THEN reply ELSE Refusal IN
        /\ Executes(c, reply)
        /\ IF fits.size > turn.budget
           THEN Drops(c) /\ Passes(turn.budget) /\ UNCHANGED command
           ELSE Passes(turn.budget - fits.size) /\ Writes(c, fits, 0, 0)

\* One bounded read, or one write, for each client of the tick.
Serves ==
    /\ turn.left # << >>
    /\ LET c == Head(turn.left)
           client == Served(c)
           pending == command[c].sent - client.got
       IN
       \* The deadline.
       \/ Drops(c) /\ Passes(turn.budget) /\ UNCHANGED <<command, applied>>
       \/ /\ client.reply # NoReply
          /\ Writes(c, client.reply, client.offset, client.got)
          /\ Passes(turn.budget)
          /\ UNCHANGED applied
       \/ /\ client.reply = NoReply
          /\ pending = 0
          /\ IF Closed(c) THEN Drops(c) ELSE UNCHANGED clients
          /\ Passes(turn.budget)
          /\ UNCHANGED <<command, applied>>
       \/ \E n \in 1..pending :
            /\ client.reply = NoReply
            /\ IF client.got + n = Whole
               THEN Handles(c)
               ELSE /\ Keeps(c, [client EXCEPT !.got = @ + n])
                    /\ Passes(turn.budget)
                    /\ UNCHANGED <<command, applied>>
    /\ UNCHANGED <<server, active, output, backlog, written>>

EndsTick ==
    /\ turn.left = << >>
    /\ turn # Idle
    /\ turn' = Idle
    /\ UNCHANGED <<server, active, output, backlog, clients, command, written, applied>>

\* The server ends and another one of the name starts: its panes are others.
Restarts ==
    /\ server < MaxServers
    /\ server' = server + 1
    /\ output' = [p \in Panes |-> Fresh]
    /\ backlog' = << >>
    /\ clients' = << >>
    /\ turn' = Idle
    /\ UNCHANGED <<active, command, written, applied>>

-----------------------------------------------------------------------------
(* The commands: request_session, and the loop of follow_output. *)

Ends(c, pc) == command' = [command EXCEPT ![c].pc = pc]

Connects(c) ==
    /\ command[c].pc = "start"
    /\ command' = [command EXCEPT ![c] = [@ EXCEPT !.pc = "asks", !.sent = 0,
                                                   !.arrived = 0, !.reply = NoReply]]
    /\ backlog' = Append(backlog, c)
    /\ UNCHANGED <<server, active, output, clients, turn, written, applied>>

Sends(c) ==
    /\ command[c].pc = "asks"
    /\ command[c].sent < Whole
    /\ command' = [command EXCEPT ![c].sent = @ + 1]
    /\ UNCHANGED <<server, active, output, backlog, clients, turn, written, applied>>

\* The connection was closed before the reply was whole, or a timeout has passed.
Fails(c) ==
    /\ command[c].pc = "asks"
    /\ command[c].reply = NoReply
    /\ Ends(c, "error")
    /\ UNCHANGED <<server, active, output, backlog, clients, turn, written, applied>>

IsTold(c) ==
    /\ c \in Callers
    /\ command[c].pc = "asks"
    /\ command[c].reply # NoReply
    /\ Ends(c, IF command[c].reply.ok THEN "ok" ELSE "error")
    /\ UNCHANGED <<server, active, output, backlog, clients, turn, written, applied>>

Bytes(chunk) ==
    [i \in 1..chunk.next - chunk.start |->
        [server |-> chunk.server, pane |-> chunk.pane, generation |-> chunk.generation,
         at |-> chunk.start + i - 1]]

\* The pane is pinned by the first chunk; a chunk of another server or
\* generation, or one that has lost bytes, ends the command.
Writable(pin, chunk) ==
    /\ chunk.ok
    /\ pin.pane # None => chunk.server = pin.server /\ chunk.generation = pin.generation
    /\ chunk.dropped = 0

Follows(c) ==
    LET pin == command[c].pin
        chunk == command[c].reply
    IN
    /\ c \in Followers
    /\ command[c].pc = "asks"
    /\ chunk # NoReply
    /\ IF ~Writable(pin, chunk)
       THEN Ends(c, "error") /\ UNCHANGED written
       ELSE /\ written' = [written EXCEPT ![c] = @ \o Bytes(chunk)]
            /\ command' = [command EXCEPT
                   ![c] = [@ EXCEPT !.pc = IF chunk.complete THEN "ok" ELSE "start",
                                    !.pin = [pane |-> chunk.pane, server |-> chunk.server,
                                             generation |-> chunk.generation,
                                             next |-> chunk.next]]]
    /\ UNCHANGED <<server, active, output, backlog, clients, turn, applied>>

Next ==
    \/ Prints \/ EndsOutput \/ Respawns \/ Focuses
    \/ Accepts \/ Serves \/ EndsTick \/ Restarts
    \/ \E c \in Clients : Connects(c) \/ Sends(c) \/ Fails(c) \/ IsTold(c) \/ Follows(c)

Spec == Init /\ [][Next]_vars

-----------------------------------------------------------------------------
\* What a follower writes is one gapless run of the output of one process of
\* one pane of one server, whatever restarts, respawns, losses of the tail and
\* changes of focus come between its requests.
StreamIsWhole ==
    \A c \in Followers : \A i \in 1..Len(written[c]) - 1 :
        written[c][i + 1] = [written[c][i] EXCEPT !.at = @ + 1]

\* A follower that ends well has written up to the end of that process: while
\* the pane has no other process, there is nothing after its cursor.
EndIsReached ==
    \A c \in Followers :
        LET pin == command[c].pin IN
        command[c].pc = "ok" /\ pin.server = server
            /\ pin.generation = output[pin.pane].generation
            => output[pin.pane].eof /\ pin.next = output[pin.pane].end

\* A request is executed at most once, however it is cut and whoever leaves,
\* and exactly once when its command reports success.
RunsOnce ==
    \A c \in Callers : applied[c] <= 1 /\ (command[c].pc = "ok" => applied[c] = 1)

\* The replies that wait for slow readers stay within the limit together.
RepliesFit == Waiting <= MaxResponse

-----------------------------------------------------------------------------
(* The proofs, for any commands, panes and limits.  The invariant follows a  *)
(* request from its command to the server and back: where it waits, whether  *)
(* it has been executed, what an answer on its way says of the output, and    *)
(* what the answers that wait need of the limit.                            *)

\* A command changes something or follows output; "none" names no pane.
Parameters ==
    /\ Callers \cap Followers = {}
    /\ None \notin Panes
    /\ MaxClients \in Nat /\ MaxResponse \in Nat \ {0} /\ Limit \in Nat /\ Whole \in Nat

AnyChunk ==
    [ok : BOOLEAN, pane : Panes, server : Nat, generation : Nat, start : Int, next : Nat,
     dropped : Int, complete : BOOLEAN, size : Nat \ {0}]
AnyAnswer == {Refusal} \cup [ok : {TRUE}, size : {1, MaxResponse}] \cup AnyChunk
AnyClient == [id : Clients, got : Nat, reply : {NoReply} \cup AnyAnswer, offset : Nat]
AnyPin == {Unpinned} \cup [pane : Panes, server : Nat, generation : Nat, next : Nat]
AnyCommand ==
    [pc : {"start", "asks", "ok", "error"}, sent : Nat, arrived : Nat,
     reply : {NoReply} \cup AnyAnswer, pin : AnyPin]
AnyByte == [server : Nat, pane : Panes, generation : Nat, at : Int]
AnyOutput == [oldest : Nat, end : Nat, generation : Nat, eof : BOOLEAN]

TypeOK ==
    /\ server \in Nat
    /\ active \in Panes
    /\ output \in [Panes -> AnyOutput]
    /\ backlog \in Seq(Clients)
    /\ clients \in Seq(AnyClient)
    /\ turn \in [left : Seq(Clients), budget : Nat]
    /\ command \in [Clients -> AnyCommand]
    /\ written \in [Followers -> Seq(AnyByte)]
    /\ applied \in [Callers -> Nat]

\* The tail of the output ends where the output does.
TailsEnd == \A p \in Panes : output[p].oldest <= output[p].end

\* A command is at one place at most, and only while an answer is due.
Placed ==
    /\ \A i, j \in 1..Len(backlog) : backlog[i] = backlog[j] => i = j
    /\ \A i, j \in 1..Len(clients) : clients[i].id = clients[j].id => i = j
    /\ \A i \in 1..Len(backlog), j \in 1..Len(clients) : backlog[i] # clients[j].id
    /\ \A c \in Clients : command[c].pc = "start" \/ command[c].reply # NoReply =>
          /\ \A i \in 1..Len(backlog) : backlog[i] # c
          /\ \A i \in 1..Len(clients) : clients[i].id # c

\* A tick has its clients, once each, until it has served them.
Turns ==
    /\ \A i, j \in 1..Len(turn.left) : turn.left[i] = turn.left[j] => i = j
    /\ \A i \in 1..Len(turn.left) : \E j \in 1..Len(clients) : clients[j].id = turn.left[i]

\* What was the end of a process's output is, while that process is the pane's.
IsTheEnd(pane, of, generation, at) ==
    /\ of <= server
    /\ of = server =>
          /\ generation <= output[pane].generation
          /\ generation = output[pane].generation => output[pane].eof /\ at = output[pane].end

\* An answer on its way to command c.
AnswerTrue(c, r) ==
    r.ok =>
      /\ c \in Callers => applied[c] = 1
      /\ c \in Followers =>
            /\ r \in AnyChunk
            /\ r.start <= r.next
            /\ r.complete => IsTheEnd(r.pane, r.server, r.generation, r.next)
            /\ LET pin == command[c].pin IN
               pin.pane # None => r.pane = pin.pane /\ r.start - r.dropped = pin.next

\* A request that waits has not been executed; one that was, has its answer.
Answers ==
    /\ \A i \in 1..Len(clients) :
          IF clients[i].reply = NoReply
          THEN clients[i].id \in Callers => applied[clients[i].id] = 0
          ELSE AnswerTrue(clients[i].id, clients[i].reply)
    /\ \A c \in Clients :
          command[c].pc = "asks" /\ command[c].reply # NoReply => AnswerTrue(c, command[c].reply)
    /\ \A c \in Callers :
          /\ applied[c] <= 1
          /\ command[c].pc = "start" => applied[c] = 0
          /\ command[c].pc = "ok" => applied[c] = 1
          /\ \A i \in 1..Len(backlog) : backlog[i] = c => applied[c] = 0

\* A follower has written what comes before its cursor.
Followed ==
    \A c \in Followers :
      LET pin == command[c].pin IN
      /\ pin.pane = None => written[c] = << >> /\ command[c].pc # "ok"
      /\ pin.pane # None => \A i \in 1..Len(written[c]) :
            written[c][i] = [server |-> pin.server, pane |-> pin.pane,
                             generation |-> pin.generation,
                             at |-> pin.next - Len(written[c]) + i - 1]
      /\ command[c].pc = "ok" => IsTheEnd(pin.pane, pin.server, pin.generation, pin.next)

\* The answers that wait and what the tick may add to them.
Budgeted == Waiting + turn.budget <= MaxResponse

IInv ==
    TypeOK /\ TailsEnd /\ Placed /\ Turns /\ Answers /\ Followed /\ Budgeted

-----------------------------------------------------------------------------
(* Sums and sequences.                                                     *)

LEMMA Induction ==
    ASSUME NEW S, 0 \in S, \A n \in Nat : n \in S => n + 1 \in S
    PROVE  \A n \in Nat : n \in S
  <1> DEFINE T == Nat \ S
  <1>1. SUFFICES ASSUME T # {} PROVE FALSE
    OBVIOUS
  <1>2. T \subseteq Nat
    OBVIOUS
  <1> HIDE DEF T
  <1>3. PICK n \in T : \A m \in T : ~(<<m, n>> \in OpToRel(<, Nat))
    BY <1>1, <1>2, NatLessThanWellFounded, WFMin
  <1>4. \A m \in T : ~(m < n)
    BY <1>2, <1>3 DEF OpToRel
  <1>5. n # 0 /\ n \in Nat /\ n \notin S
    BY <1>3 DEF T
  <1>6. n - 1 \in Nat /\ n - 1 \in S
    BY <1>4, <1>5 DEF T
  <1>7. n - 1 + 1 \in S /\ n - 1 + 1 = n
    BY <1>5, <1>6
  <1> QED BY <1>5, <1>7

\* Held is what it says it is.
LEMMA HeldRule ==
    ASSUME NEW s \in Seq(AnyClient),
           \A i \in 1..Len(s) : s[i].reply.size \in Nat
    PROVE  /\ Held(s)[0] = 0
           /\ \A n \in 1..Len(s) : Held(s)[n] = Held(s)[n - 1] + s[n].reply.size
           /\ \A n \in 0..Len(s) : Held(s)[n] \in Nat
  <1> DEFINE N == Len(s)
             At(f, n) == IF n = 0 THEN 0 ELSE f[n - 1] + s[n].reply.size
             S == {k \in Nat : \E g : \A n \in 0..N : n < k => g[n] = At(g, n)}
  <1>1. N \in Nat
    OBVIOUS
  <1>2. 0 \in S
    OBVIOUS
  <1>3. ASSUME NEW k \in Nat, k \in S PROVE k + 1 \in S
    <2>1. PICK g : \A n \in 0..N : n < k => g[n] = At(g, n)
      BY <1>3
    <2> DEFINE h == [n \in 0..N |-> At(g, n)]
    <2>2. ASSUME NEW n \in 0..N, n < k + 1 PROVE h[n] = At(h, n)
      <3>1. CASE n = 0
        BY <3>1
      <3>2. CASE n # 0
        <4>1. n - 1 \in 0..N /\ n - 1 < k
          BY <1>1, <2>2, <3>2
        <4>2. h[n - 1] = g[n - 1]
          BY <2>1, <4>1
        <4> QED BY <3>2, <4>2
      <3> QED BY <3>1, <3>2
    <2> HIDE DEF h
    <2> QED BY <2>2
  <1> HIDE DEF S
  <1>4. N + 1 \in S
    BY <1>1, <1>2, <1>3, Induction
  <1>5. PICK g : \A n \in 0..N : g[n] = At(g, n)
    <2>1. PICK g : \A n \in 0..N : n < N + 1 => g[n] = At(g, n)
      BY <1>4 DEF S
    <2> QED BY <1>1, <2>1
  <1> DEFINE h == [n \in 0..N |-> g[n]]
  <1>6. h = [n \in 0..N |-> At(h, n)]
    <2>1. ASSUME NEW n \in 0..N PROVE h[n] = At(h, n)
      <3>1. n # 0 => n - 1 \in 0..N
        BY <1>1
      <3> QED BY <1>5, <3>1
    <2> QED BY <2>1
  <1> DEFINE c == CHOOSE f : f = [n \in 0..N |-> At(f, n)]
  <1>7. c = [n \in 0..N |-> At(c, n)]
    <2> HIDE DEF h
    <2> QED BY <1>6
  <1>8. c = Held(s)
    BY DEF Held
  <1> HIDE DEF c
  <1>9. \A n \in 0..N : Held(s)[n] = At(Held(s), n)
    BY <1>7, <1>8
  <1>10. Held(s)[0] = 0
    BY <1>1, <1>9
  <1>11. \A n \in 1..N : Held(s)[n] = Held(s)[n - 1] + s[n].reply.size
    BY <1>1, <1>9
  <1> DEFINE T == {n \in Nat : n <= N => Held(s)[n] \in Nat}
  <1>12. 0 \in T
    BY <1>10
  <1>13. ASSUME NEW n \in Nat, n \in T PROVE n + 1 \in T
    <2>1. ASSUME n + 1 <= N PROVE Held(s)[n + 1] \in Nat
      <3>1. n + 1 \in 1..N /\ n \in 0..N /\ (n + 1) - 1 = n
        BY <1>1, <2>1
      <3>2. Held(s)[n] \in Nat
        BY <1>13, <3>1
      <3>3. Held(s)[n + 1] = Held(s)[n] + s[n + 1].reply.size
        BY <1>11, <3>1
      <3> QED BY <3>1, <3>2, <3>3
    <2> QED BY <2>1
  <1> HIDE DEF T
  <1>14. \A n \in Nat : n \in T
    BY <1>12, <1>13, Induction
  <1>15. \A n \in 0..N : Held(s)[n] \in Nat
    BY <1>14 DEF T
  <1> QED BY <1>10, <1>11, <1>15

\* Another client in the place of one, with another reply.
LEMMA HeldReplaced ==
    ASSUME NEW s \in Seq(AnyClient), NEW k \in 1..Len(s), NEW x \in AnyClient,
           \A i \in 1..Len(s) : s[i].reply.size \in Nat, x.reply.size \in Nat
    PROVE  LET t == [s EXCEPT ![k] = x] IN
           Held(t)[Len(t)] = Held(s)[Len(s)] - s[k].reply.size + x.reply.size
  <1> DEFINE t == [s EXCEPT ![k] = x]
             N == Len(s)
  <1>1. /\ t \in Seq(AnyClient) /\ Len(t) = N /\ N \in Nat
        /\ \A i \in 1..N : t[i] = IF i = k THEN x ELSE s[i]
    BY ExceptSeq
  <1> HIDE DEF t
  <1>2. \A i \in 1..N : t[i].reply.size \in Nat
    BY <1>1
  <1>3. /\ Held(t)[0] = 0
        /\ \A n \in 1..N : Held(t)[n] = Held(t)[n - 1] + t[n].reply.size
        /\ \A n \in 0..N : Held(t)[n] \in Nat
    BY <1>1, <1>2, HeldRule
  <1>4. /\ Held(s)[0] = 0
        /\ \A n \in 1..N : Held(s)[n] = Held(s)[n - 1] + s[n].reply.size
        /\ \A n \in 0..N : Held(s)[n] \in Nat
    BY HeldRule
  <1> DEFINE S == {n \in Nat : n <= N =>
                     Held(t)[n] = IF n < k THEN Held(s)[n]
                                  ELSE Held(s)[n] - s[k].reply.size + x.reply.size}
  <1>5. 0 \in S
    BY <1>3, <1>4
  <1>6. ASSUME NEW n \in Nat, n \in S PROVE n + 1 \in S
    <2>1. ASSUME n + 1 <= N
          PROVE  Held(t)[n + 1] = IF n + 1 < k THEN Held(s)[n + 1]
                                  ELSE Held(s)[n + 1] - s[k].reply.size + x.reply.size
      <3>1. n + 1 \in 1..N /\ n \in 0..N /\ (n + 1) - 1 = n
        BY <1>1, <2>1
      <3>2. /\ Held(t)[n + 1] = Held(t)[n] + t[n + 1].reply.size
            /\ Held(s)[n + 1] = Held(s)[n] + s[n + 1].reply.size
        BY <1>3, <1>4, <3>1
      <3>3. Held(t)[n] = IF n < k THEN Held(s)[n]
                         ELSE Held(s)[n] - s[k].reply.size + x.reply.size
        BY <1>6, <3>1
      <3>4. /\ Held(s)[n] \in Nat /\ s[k].reply.size \in Nat /\ s[n + 1].reply.size \in Nat
            /\ x.reply.size \in Nat
        BY <1>4, <3>1
      <3>5. t[n + 1].reply.size = IF n + 1 = k THEN x.reply.size ELSE s[n + 1].reply.size
        BY <1>1, <3>1
      <3> HIDE DEF S
      <3>6. CASE n + 1 = k
        BY <3>2, <3>3, <3>4, <3>5, <3>6
      <3>7. CASE n + 1 < k
        BY <3>2, <3>3, <3>4, <3>5, <3>7
      <3>8. CASE n + 1 > k
        BY <3>2, <3>3, <3>4, <3>5, <3>8, SMTT(60)
      <3> QED BY <3>6, <3>7, <3>8
    <2> QED BY <2>1
  <1> HIDE DEF S
  <1>7. N \in S
    <2>1. \A n \in Nat : n \in S
      BY <1>5, <1>6, Induction
    <2> QED BY <1>1, <2>1
  <1>8. Held(t)[N] = Held(s)[N] - s[k].reply.size + x.reply.size
    BY <1>1, <1>7 DEF S
  <1> QED BY <1>1, <1>8 DEF t

\* RemoveAt takes one client out and keeps the others in their order.
LEMMA Removed ==
    ASSUME NEW s \in Seq(AnyClient), NEW k \in 1..Len(s)
    PROVE  /\ RemoveAt(s, k) \in Seq(AnyClient)
           /\ Len(RemoveAt(s, k)) = Len(s) - 1
           /\ \A i \in 1..Len(s) - 1 : RemoveAt(s, k)[i] = IF i < k THEN s[i] ELSE s[i + 1]
  <1> DEFINE a == SubSeq(s, 1, k - 1)
             b == SubSeq(s, k + 1, Len(s))
  <1>1. Len(s) \in Nat /\ \A i \in 1..Len(s) : s[i] \in AnyClient
    OBVIOUS
  <1>2. /\ a \in Seq(AnyClient) /\ Len(a) = k - 1
        /\ \A i \in 1..k - 1 : a[i] = s[i]
    <2>1. \A i \in 1..k - 1 : s[i] \in AnyClient
      BY <1>1
    <2> QED BY <1>1, <2>1, SubSeqProperties
  <1>3. /\ b \in Seq(AnyClient) /\ Len(b) = Len(s) - k
        /\ \A i \in 1..Len(s) - k : b[i] = s[k + i]
    <2>1. \A i \in k + 1..Len(s) : s[i] \in AnyClient
      BY <1>1
    <2>2. /\ b \in Seq(AnyClient)
          /\ Len(b) = IF k + 1 <= Len(s) THEN Len(s) - (k + 1) + 1 ELSE 0
          /\ \A i \in 1..Len(s) - (k + 1) + 1 : b[i] = s[(k + 1) + i - 1]
      BY <1>1, <2>1, SubSeqProperties
    <2> QED BY <1>1, <2>2
  <1> HIDE DEF a, b
  <1>4. /\ a \o b \in Seq(AnyClient) /\ Len(a \o b) = Len(s) - 1
        /\ \A i \in 1..Len(s) - 1 : (a \o b)[i] = IF i <= k - 1 THEN a[i] ELSE b[i - (k - 1)]
    <2>1. /\ a \o b \in Seq(AnyClient) /\ Len(a \o b) = Len(a) + Len(b)
          /\ \A i \in 1..Len(a) + Len(b) : (a \o b)[i] = IF i <= Len(a) THEN a[i] ELSE b[i - Len(a)]
      BY <1>2, <1>3, ConcatProperties
    <2>2. Len(a) = k - 1 /\ Len(a) + Len(b) = Len(s) - 1
      BY <1>1, <1>2, <1>3
    <2> QED BY <2>1, <2>2
  <1>5. ASSUME NEW i \in 1..Len(s) - 1
        PROVE  (a \o b)[i] = IF i < k THEN s[i] ELSE s[i + 1]
    <2>1. CASE i < k
      <3>1. i \in 1..k - 1
        BY <1>1, <2>1
      <3> QED BY <1>2, <1>4, <2>1, <3>1
    <2>2. CASE ~(i < k)
      <3>1. i - (k - 1) \in 1..Len(s) - k /\ k + (i - (k - 1)) = i + 1
        BY <1>1, <2>2
      <3> QED BY <1>3, <1>4, <2>2, <3>1
    <2> QED BY <2>1, <2>2
  <1> QED BY <1>4, <1>5 DEF RemoveAt, a, b

\* What a client that goes had is not needed any more.
LEMMA HeldRemoved ==
    ASSUME NEW s \in Seq(AnyClient), NEW k \in 1..Len(s),
           \A i \in 1..Len(s) : s[i].reply.size \in Nat
    PROVE  LET t == RemoveAt(s, k) IN
           Held(t)[Len(t)] = Held(s)[Len(s)] - s[k].reply.size
  <1> DEFINE t == RemoveAt(s, k)
             N == Len(s)
  <1>1. /\ t \in Seq(AnyClient) /\ Len(t) = N - 1 /\ N \in Nat
        /\ \A i \in 1..N - 1 : t[i] = IF i < k THEN s[i] ELSE s[i + 1]
    <2>1. N \in Nat
      OBVIOUS
    <2> HIDE DEF N
    <2>2. k \in 1..Len(s)
      OBVIOUS
    <2>3. /\ t \in Seq(AnyClient) /\ Len(t) = Len(s) - 1
          /\ \A i \in 1..Len(s) - 1 : t[i] = IF i < k THEN s[i] ELSE s[i + 1]
      BY <2>2, Removed
    <2> QED BY <2>1, <2>3 DEF N
  <1> HIDE DEF t
  <1>2. \A i \in 1..N - 1 : t[i].reply.size \in Nat
    <2> TAKE i \in 1..N - 1
    <2>1. i \in 1..N /\ i + 1 \in 1..N
      BY <1>1
    <2> QED BY <1>1, <2>1
  <1>3. /\ Held(t)[0] = 0
        /\ \A n \in 1..N - 1 : Held(t)[n] = Held(t)[n - 1] + t[n].reply.size
        /\ \A n \in 0..N - 1 : Held(t)[n] \in Nat
    BY <1>1, <1>2, HeldRule
  <1>4. /\ Held(s)[0] = 0
        /\ \A n \in 1..N : Held(s)[n] = Held(s)[n - 1] + s[n].reply.size
        /\ \A n \in 0..N : Held(s)[n] \in Nat
    BY HeldRule
  <1> DEFINE S == {n \in Nat : n <= N - 1 =>
                     Held(t)[n] = IF n < k THEN Held(s)[n]
                                  ELSE Held(s)[n + 1] - s[k].reply.size}
  <1>5. 0 \in S
    BY <1>3, <1>4
  <1>6. ASSUME NEW n \in Nat, n \in S PROVE n + 1 \in S
    <2>1. ASSUME n + 1 <= N - 1
          PROVE  Held(t)[n + 1] = IF n + 1 < k THEN Held(s)[n + 1]
                                  ELSE Held(s)[n + 2] - s[k].reply.size
      <3>1. /\ n + 1 \in 1..N - 1 /\ n \in 0..N - 1 /\ (n + 1) - 1 = n
            /\ n + 1 \in 1..N /\ n + 2 \in 1..N /\ (n + 2) - 1 = n + 1
        BY <1>1, <2>1
      <3>2. /\ Held(t)[n + 1] = Held(t)[n] + t[n + 1].reply.size
            /\ Held(s)[n + 1] = Held(s)[n] + s[n + 1].reply.size
            /\ Held(s)[n + 2] = Held(s)[n + 1] + s[n + 2].reply.size
        BY <1>3, <1>4, <3>1
      <3>3. Held(t)[n] = IF n < k THEN Held(s)[n] ELSE Held(s)[n + 1] - s[k].reply.size
        BY <1>6, <3>1
      <3>4. /\ Held(s)[n] \in Nat /\ s[k].reply.size \in Nat
            /\ s[n + 1].reply.size \in Nat /\ s[n + 2].reply.size \in Nat
        BY <1>1, <1>4, <3>1
      <3>5. t[n + 1].reply.size = IF n + 1 < k THEN s[n + 1].reply.size ELSE s[n + 2].reply.size
        <4>1. t[n + 1] = IF n + 1 < k THEN s[n + 1] ELSE s[(n + 1) + 1]
          BY <1>1, <3>1
        <4>2. (n + 1) + 1 = n + 2
          OBVIOUS
        <4> QED BY <4>1, <4>2
      <3> HIDE DEF S
      <3>6. CASE n + 1 = k
        BY <3>2, <3>3, <3>4, <3>5, <3>6
      <3>7. CASE n + 1 < k
        BY <3>2, <3>3, <3>4, <3>5, <3>7
      <3>8. CASE n + 1 > k
        <4>1. k \in Nat /\ ~(n < k) /\ ~(n + 1 < k)
          BY <3>8
        <4>2. /\ Held(t)[n + 1] = Held(s)[n + 1] - s[k].reply.size + s[n + 2].reply.size
              /\ Held(s)[n + 1] \in Nat
          BY <1>4, <3>1, <3>2, <3>3, <3>5, <4>1
        <4>3. Held(t)[n + 1] = Held(s)[n + 2] - s[k].reply.size
          <5> DEFINE a == Held(s)[n + 1]
                     b == Held(s)[n + 2]
                     x == s[n + 2].reply.size
                     y == s[k].reply.size
          <5>1. a \in Nat /\ x \in Nat /\ y \in Nat /\ b = a + x /\ Held(t)[n + 1] = a - y + x
            BY <3>2, <3>4, <4>2
          <5> HIDE DEF a, b, x, y
          <5>2. Held(t)[n + 1] = b - y
            BY <5>1
          <5> QED BY <5>2 DEF b, y
        <4> QED BY <4>1, <4>3
      <3> QED BY <3>6, <3>7, <3>8
    <2> QED BY <2>1
  <1> HIDE DEF S
  <1>7. N - 1 \in S
    <2>1. \A n \in Nat : n \in S
      BY <1>5, <1>6, Induction
    <2>2. N - 1 \in Nat
      BY <1>1
    <2> QED BY <2>1, <2>2
  <1>8. Held(t)[N - 1] = IF N - 1 < k THEN Held(s)[N - 1] ELSE Held(s)[N] - s[k].reply.size
    BY <1>1, <1>7 DEF S
  <1>9. N \in 1..N /\ Held(s)[N] = Held(s)[N - 1] + s[N].reply.size
        /\ Held(s)[N] \in Nat /\ Held(s)[N - 1] \in Nat /\ s[N].reply.size \in Nat
    BY <1>1, <1>4
  <1>10. Held(t)[N - 1] = Held(s)[N] - s[k].reply.size
    <2>1. CASE N - 1 < k
      <3>1. k = N
        BY <1>1, <2>1
      <3> QED BY <1>8, <1>9, <3>1
    <2>2. CASE ~(N - 1 < k)
      BY <1>8, <2>2
    <2> QED BY <2>1, <2>2
  <1> QED BY <1>1, <1>10 DEF t

\* Clients without a reply need nothing.
LEMMA HeldAppended ==
    ASSUME NEW s \in Seq(AnyClient), NEW new \in Seq(AnyClient),
           \A i \in 1..Len(s) : s[i].reply.size \in Nat,
           \A i \in 1..Len(new) : new[i].reply.size = 0
    PROVE  LET t == s \o new IN Held(t)[Len(t)] = Held(s)[Len(s)]
  <1> DEFINE t == s \o new
             N == Len(s)
             M == Len(new)
  <1>1. /\ t \in Seq(AnyClient) /\ Len(t) = N + M /\ N \in Nat /\ M \in Nat
        /\ \A i \in 1..N + M : t[i] = IF i <= N THEN s[i] ELSE new[i - N]
    BY ConcatProperties
  <1> HIDE DEF t
  <1>2. \A i \in 1..N + M : t[i].reply.size = IF i <= N THEN s[i].reply.size ELSE 0
    <2> TAKE i \in 1..N + M
    <2>1. i > N => i - N \in 1..M
      BY <1>1
    <2> QED BY <1>1, <2>1
  <1>3. /\ Held(t)[0] = 0
        /\ \A n \in 1..N + M : Held(t)[n] = Held(t)[n - 1] + t[n].reply.size
        /\ \A n \in 0..N + M : Held(t)[n] \in Nat
    <2>1. \A i \in 1..Len(t) : t[i].reply.size \in Nat
      BY <1>1, <1>2
    <2> QED BY <1>1, <2>1, HeldRule
  <1>4. /\ Held(s)[0] = 0
        /\ \A n \in 1..N : Held(s)[n] = Held(s)[n - 1] + s[n].reply.size
        /\ \A n \in 0..N : Held(s)[n] \in Nat
    BY HeldRule
  <1> DEFINE S == {n \in Nat : n <= N + M =>
                     Held(t)[n] = IF n <= N THEN Held(s)[n] ELSE Held(s)[N]}
  <1>5. 0 \in S
    BY <1>1, <1>3, <1>4
  <1>6. ASSUME NEW n \in Nat, n \in S PROVE n + 1 \in S
    <2>1. ASSUME n + 1 <= N + M
          PROVE  Held(t)[n + 1] = IF n + 1 <= N THEN Held(s)[n + 1] ELSE Held(s)[N]
      <3>1. n + 1 \in 1..N + M /\ n \in 0..N + M /\ (n + 1) - 1 = n
        BY <1>1, <2>1
      <3>2. Held(t)[n + 1] = Held(t)[n] + t[n + 1].reply.size
        BY <1>3, <3>1
      <3>3. Held(t)[n] = IF n <= N THEN Held(s)[n] ELSE Held(s)[N]
        BY <1>6, <3>1
      <3>4. CASE n + 1 <= N
        <4>1. n + 1 \in 1..N
          BY <1>1, <3>1, <3>4
        <4>2. Held(s)[n + 1] = Held(s)[n] + s[n + 1].reply.size
          BY <1>4, <3>1, <4>1
        <4> QED BY <1>1, <1>2, <3>1, <3>2, <3>3, <3>4, <4>2
      <3>5. CASE ~(n + 1 <= N)
        <4>1. t[n + 1].reply.size = 0
          BY <1>2, <3>1, <3>5
        <4>2. Held(t)[n] \in Nat /\ N \in Nat
          BY <1>1, <1>3, <3>1
        <4>3. n <= N => n = N
          BY <4>2, <3>5
        <4> QED BY <3>2, <3>3, <3>5, <4>1, <4>2, <4>3
      <3> QED BY <3>4, <3>5
    <2> QED BY <2>1
  <1> HIDE DEF S
  <1>7. N + M \in S
    <2>1. \A n \in Nat : n \in S
      BY <1>5, <1>6, Induction
    <2> QED BY <1>1, <2>1
  <1>8. Held(t)[N + M] = IF N + M <= N THEN Held(s)[N + M] ELSE Held(s)[N]
    BY <1>1, <1>7 DEF S
  <1>9. N + M <= N => N + M = N
    BY <1>1
  <1> QED BY <1>1, <1>8, <1>9 DEF t

-----------------------------------------------------------------------------
(* The invariant: how it starts, and what each step keeps.                 *)

\* An answer is not the lack of one.
LEMMA AnAnswer ==
    ASSUME Parameters
    PROVE  /\ \A r \in AnyAnswer :
                /\ r.size \in Nat /\ r.size >= 1 /\ r # NoReply /\ r.ok \in BOOLEAN
           /\ NoReply.size = 0
           /\ Refusal \in AnyAnswer /\ ~Refusal.ok /\ Refusal.size = 1
  <1>1. \A r \in AnyAnswer : r.size \in Nat /\ r.size >= 1 /\ r.ok \in BOOLEAN
    <2> TAKE r \in AnyAnswer
    <2>1. CASE r = Refusal
      BY <2>1 DEF Refusal
    <2>2. CASE r \in [ok : {TRUE}, size : {1, MaxResponse}]
      <3>1. r.ok = TRUE /\ r.size \in {1, MaxResponse}
        BY <2>2
      <3>2. r.size \in Nat /\ r.size >= 1
        <4>1. MaxResponse \in Nat /\ MaxResponse >= 1
          BY DEF Parameters
        <4> QED BY <3>1, <4>1
      <3> QED BY <3>1, <3>2
    <2>3. CASE r \in AnyChunk
      BY <2>3 DEF AnyChunk
    <2> QED BY <2>1, <2>2, <2>3 DEF AnyAnswer
  <1>2. NoReply.size = 0
    BY DEF NoReply
  <1>3. \A r \in AnyAnswer : r # NoReply
    <2> TAKE r \in AnyAnswer
    <2> QED BY <1>1, <1>2
  <1>4. Refusal \in AnyAnswer /\ ~Refusal.ok /\ Refusal.size = 1
    BY DEF AnyAnswer, Refusal
  <1> QED BY <1>1, <1>2, <1>3, <1>4

\* Every client has room for its answer in the sum.
LEMMA SizesAreNumbers ==
    ASSUME Parameters, TypeOK
    PROVE  /\ \A i \in 1..Len(clients) :
                clients[i] \in AnyClient /\ clients[i].reply.size \in Nat
           /\ Waiting \in Nat
  <1>1. \A i \in 1..Len(clients) : clients[i] \in AnyClient
    BY DEF TypeOK
  <1>2. \A i \in 1..Len(clients) : clients[i].reply.size \in Nat
    BY <1>1, AnAnswer DEF AnyClient
  <1>3. Len(clients) \in 0..Len(clients) /\ clients \in Seq(AnyClient)
    BY DEF TypeOK
  <1>4. \A n \in 0..Len(clients) : Held(clients)[n] \in Nat
    BY <1>2, <1>3, HeldRule
  <1> QED BY <1>1, <1>2, <1>3, <1>4 DEF Waiting

LEMMA Starts ==
    ASSUME Parameters, Init
    PROVE  IInv
  <1> USE DEF Init
  <1>1. TypeOK
    BY DEF TypeOK, Fresh, AnyOutput, Idle, AnyCommand, NoReply, AnyPin
  <1>2. TailsEnd
    BY DEF TailsEnd, Fresh
  <1>3. /\ Len(backlog) = 0 /\ Len(clients) = 0 /\ Len(turn.left) = 0
        /\ 1..0 = {}
    BY DEF Idle
  <1>4. Placed /\ Turns
    BY <1>3 DEF Placed, Turns
  <1>5. Answers
    BY <1>3 DEF Answers, Clients
  <1>6. Followed
    BY DEF Followed, Unpinned, Clients
  <1>7. Budgeted
    <2>1. \A i \in 1..Len(clients) : clients[i].reply.size \in Nat
      BY <1>3
    <2>2. Held(clients)[0] = 0
      BY <1>1, <2>1, HeldRule DEF TypeOK
    <2> QED BY <1>3, <2>2 DEF Budgeted, Waiting, Idle, Parameters
  <1> QED BY <1>1, <1>2, <1>4, <1>5, <1>6, <1>7 DEF IInv

\* The end of an output stays what it was: a process that has ended prints no more,
\* and the next one of the pane has another generation.
LEMMA EndsStay ==
    ASSUME Parameters, TypeOK,
           \/ Prints \/ EndsOutput \/ Respawns \/ Restarts
           \/ UNCHANGED <<server, output>>,
           NEW pane \in Panes, NEW of \in Nat, NEW generation \in Nat, NEW at \in Nat,
           IsTheEnd(pane, of, generation, at)
    PROVE  IsTheEnd(pane, of, generation, at)'
  <1>0. /\ server \in Nat
        /\ output \in [Panes -> AnyOutput]
        /\ \A p \in Panes : /\ output[p].end \in Nat /\ output[p].generation \in Nat
                            /\ output[p].eof \in BOOLEAN /\ output[p].oldest \in Nat
    BY DEF TypeOK, AnyOutput
  <1>1. CASE Prints
    <2>1. PICK p \in Panes, n \in 1..Limit + 1 :
             ~output[p].eof /\ output' = [output EXCEPT ![p] = Appended(@, n)] /\ server' = server
      BY <1>1 DEF Prints
    <2>2. output'[pane].generation = output[pane].generation
      BY <1>0, <2>1 DEF Appended, AnyOutput
    <2>3. pane # p => output'[pane] = output[pane]
      BY <1>0, <2>1
    <2> QED BY <2>1, <2>2, <2>3 DEF IsTheEnd
  <1>2. CASE EndsOutput
    <2>1. PICK p \in Panes : output' = [output EXCEPT ![p].eof = TRUE] /\ server' = server
      BY <1>2 DEF EndsOutput
    <2>2. /\ output'[pane].generation = output[pane].generation
          /\ output'[pane].end = output[pane].end
          /\ output[pane].eof => output'[pane].eof
      BY <1>0, <2>1 DEF AnyOutput
    <2> QED BY <2>1, <2>2 DEF IsTheEnd
  <1>3. CASE Respawns
    <2>1. PICK p \in Panes : output' = [output EXCEPT ![p] = Restarted(@)] /\ server' = server
      BY <1>3 DEF Respawns
    <2>2. pane # p => output'[pane] = output[pane]
      BY <1>0, <2>1
    <2>3. pane = p => output'[pane].generation = output[pane].generation + 1
      BY <1>0, <2>1 DEF Restarted, AnyOutput
    <2>4. CASE pane = p
      BY <1>0, <2>1, <2>3, <2>4 DEF IsTheEnd
    <2> QED BY <2>1, <2>2, <2>4 DEF IsTheEnd
  <1>4. CASE Restarts
    BY <1>0, <1>4 DEF Restarts, IsTheEnd
  <1>5. CASE UNCHANGED <<server, output>>
    BY <1>5 DEF IsTheEnd
  <1> QED BY <1>1, <1>2, <1>3, <1>4, <1>5

\* While nothing changes between a command and its answer, the answer stays true.
LEMMA AnswersStay ==
    ASSUME Parameters, TypeOK,
           \/ Prints \/ EndsOutput \/ Respawns \/ Restarts
           \/ UNCHANGED <<server, output>>,
           NEW c \in Clients, NEW r \in AnyAnswer, AnswerTrue(c, r),
           c \in Callers => applied'[c] = applied[c] \/ applied'[c] = 1,
           command'[c].pin = command[c].pin
    PROVE  AnswerTrue(c, r)'
  <1>1. SUFFICES ASSUME r.ok
                 PROVE  /\ c \in Callers => applied'[c] = 1
                        /\ c \in Followers =>
                              /\ r \in AnyChunk
                              /\ r.start <= r.next
                              /\ r.complete => IsTheEnd(r.pane, r.server, r.generation, r.next)'
                              /\ LET pin == command'[c].pin IN
                                 pin.pane # None => r.pane = pin.pane /\ r.start - r.dropped = pin.next
    BY DEF AnswerTrue
  <1>2. c \in Callers => applied'[c] = 1
    BY <1>1 DEF AnswerTrue
  <1>3. ASSUME c \in Followers, r.complete
        PROVE  IsTheEnd(r.pane, r.server, r.generation, r.next)'
    <2>1. r \in AnyChunk /\ IsTheEnd(r.pane, r.server, r.generation, r.next)
      BY <1>1, <1>3 DEF AnswerTrue
    <2>2. r.pane \in Panes /\ r.server \in Nat /\ r.generation \in Nat /\ r.next \in Nat
      BY <2>1 DEF AnyChunk
    <2> QED BY <2>1, <2>2, EndsStay
  <1> QED BY <1>1, <1>2, <1>3 DEF AnswerTrue

-----------------------------------------------------------------------------
(* The panes and the end of a server.                                      *)

LEMMA MaxOfTwo ==
    ASSUME NEW a \in Int, NEW b \in Int
    PROVE  Max({a, b}) = IF a >= b THEN a ELSE b
  <1> DEFINE m == IF a >= b THEN a ELSE b
  <1>1. m \in {a, b} /\ \A y \in {a, b} : m >= y
    OBVIOUS
  <1>2. \A x \in {a, b} : (\A y \in {a, b} : x >= y) => x = m
    OBVIOUS
  <1> HIDE DEF m
  <1> QED BY <1>1, <1>2 DEF Max, m

LEMMA MinOfTwo ==
    ASSUME NEW a \in Int, NEW b \in Int
    PROVE  Min({a, b}) = IF a <= b THEN a ELSE b
  <1> DEFINE m == IF a <= b THEN a ELSE b
  <1>1. m \in {a, b} /\ \A y \in {a, b} : m <= y
    OBVIOUS
  <1>2. \A x \in {a, b} : (\A y \in {a, b} : x <= y) => x = m
    OBVIOUS
  <1> HIDE DEF m
  <1> QED BY <1>1, <1>2 DEF Min, m

\* What a pane does: its output changes, what was true of it stays true.
LEMMA PanesKeep ==
    ASSUME Parameters, IInv, Prints \/ EndsOutput \/ Respawns \/ Focuses
    PROVE  IInv'
  <1> USE DEF IInv
  <1>1. /\ UNCHANGED <<server, backlog, clients, turn, command, written, applied>>
        /\ \/ Prints \/ EndsOutput \/ Respawns \/ UNCHANGED <<server, output>>
    BY DEF Prints, EndsOutput, Respawns, Focuses
  <1>2. /\ \A p \in Panes : /\ output[p] \in AnyOutput /\ output[p].end \in Nat
                            /\ output[p].oldest \in Nat /\ output[p].oldest <= output[p].end
        /\ output \in [Panes -> AnyOutput]
    BY DEF TypeOK, AnyOutput, TailsEnd
  <1>3. output' \in [Panes -> AnyOutput] /\ TailsEnd' /\ active' \in Panes
    <2>1. CASE Prints
      <3>1. PICK p \in Panes, n \in 1..Limit + 1 :
               output' = [output EXCEPT ![p] = Appended(@, n)] /\ active' = active
        BY <2>1 DEF Prints
      <3> DEFINE o == output[p]
                 a == Appended(o, n)
      <3>2. /\ n \in Nat /\ n >= 1 /\ o.end \in Nat /\ o.oldest \in Nat /\ o.oldest <= o.end
            /\ Limit \in Nat /\ o \in AnyOutput
        BY <1>2 DEF Parameters
      <3>3. Max({o.oldest, o.end + n - Limit})
              = IF o.oldest >= o.end + n - Limit THEN o.oldest ELSE o.end + n - Limit
        BY <3>2, MaxOfTwo
      <3>4. a = [o EXCEPT !.end = o.end + n,
                          !.oldest = Max({o.oldest, o.end + n - Limit})]
        BY DEF Appended
      <3>5. a \in AnyOutput /\ a.oldest <= a.end
        <4> DEFINE m == Max({o.oldest, o.end + n - Limit})
        <4>1. m \in Nat /\ m <= o.end + n /\ o.end + n \in Nat
          <5> HIDE DEF o, m
          <5> QED BY <3>2, <3>3 DEF m
        <4> HIDE DEF o, m
        <4>2. a = [o EXCEPT !.end = o.end + n, !.oldest = m]
          BY <3>4 DEF m
        <4> HIDE DEF a
        <4> QED BY <3>2, <4>1, <4>2 DEF AnyOutput
      <3> HIDE DEF a, o
      <3>6. output' = [output EXCEPT ![p] = a]
        BY <3>1 DEF a, o
      <3> QED BY <1>2, <3>1, <3>5, <3>6 DEF TailsEnd, TypeOK
    <2>2. CASE EndsOutput
      <3>1. PICK p \in Panes : output' = [output EXCEPT ![p].eof = TRUE] /\ active' = active
        BY <2>2 DEF EndsOutput
      <3>2. \A q \in Panes : /\ output'[q] \in AnyOutput
                             /\ output'[q].oldest = output[q].oldest
                             /\ output'[q].end = output[q].end
        BY <1>2, <3>1 DEF AnyOutput
      <3> QED BY <1>2, <3>1, <3>2 DEF TailsEnd, TypeOK
    <2>3. CASE Respawns
      <3>1. PICK p \in Panes : output' = [output EXCEPT ![p] = Restarted(@)] /\ active' = active
        BY <2>3 DEF Respawns
      <3>2. Restarted(output[p]) \in AnyOutput
            /\ Restarted(output[p]).oldest <= Restarted(output[p]).end
        <4> DEFINE o == output[p]
        <4>1. o \in AnyOutput /\ o.end \in Nat /\ o.generation + 1 \in Nat
          BY <1>2 DEF AnyOutput
        <4>2. Restarted(o) = [o EXCEPT !.oldest = o.end, !.generation = o.generation + 1,
                                       !.eof = FALSE]
          BY DEF Restarted
        <4> HIDE DEF o
        <4>3. Restarted(o) \in AnyOutput /\ Restarted(o).oldest = o.end /\ Restarted(o).end = o.end
          BY <4>1, <4>2 DEF AnyOutput
        <4> QED BY <4>1, <4>3 DEF o
      <3> QED BY <1>2, <3>1, <3>2 DEF TailsEnd, TypeOK
    <2>4. CASE Focuses
      BY <2>4 DEF Focuses, TailsEnd, TypeOK
    <2> QED BY <2>1, <2>2, <2>3, <2>4
  <1>4. TypeOK'
    BY <1>1, <1>3 DEF TypeOK
  <1>5. Placed' /\ Turns' /\ Budgeted'
    BY <1>1 DEF Placed, Turns, Budgeted, Waiting
  <1>6. Answers'
    <2>1. ASSUME NEW c \in Clients, NEW r \in AnyAnswer, AnswerTrue(c, r)
          PROVE  AnswerTrue(c, r)'
      BY <1>1, <2>1, AnswersStay
    <2>2. \A i \in 1..Len(clients) :
             clients[i].id \in Clients /\ clients[i].reply \in {NoReply} \cup AnyAnswer
      BY SizesAreNumbers DEF AnyClient
    <2>3. \A c \in Clients : command[c].reply \in {NoReply} \cup AnyAnswer
      BY DEF TypeOK, AnyCommand
    <2> QED BY <1>1, <2>1, <2>2, <2>3 DEF Answers
  <1>7. Followed'
    <2> SUFFICES ASSUME NEW c \in Followers, command[c].pc = "ok"
                 PROVE  LET pin == command[c].pin IN
                        IsTheEnd(pin.pane, pin.server, pin.generation, pin.next)'
      BY <1>1 DEF Followed
    <2> DEFINE pin == command[c].pin
    <2>1. pin \in [pane : Panes, server : Nat, generation : Nat, next : Nat]
          /\ IsTheEnd(pin.pane, pin.server, pin.generation, pin.next)
      BY DEF Followed, TypeOK, AnyCommand, AnyPin, Clients, Unpinned
    <2> QED BY <1>1, <2>1, EndsStay
  <1> QED BY <1>3, <1>4, <1>5, <1>6, <1>7

LEMMA RestartsKeep ==
    ASSUME Parameters, IInv, Restarts
    PROVE  IInv'
  <1> USE DEF IInv, Restarts
  <1>1. TypeOK' /\ TailsEnd'
    BY DEF TypeOK, TailsEnd, Fresh, AnyOutput, Idle
  <1>2. Len(backlog') = 0 /\ Len(clients') = 0 /\ Len(turn'.left) = 0 /\ 1..0 = {}
    BY DEF Idle
  <1>3. Placed' /\ Turns'
    BY <1>2 DEF Placed, Turns
  <1>4. Budgeted'
    <2>1. \A i \in 1..Len(clients') : clients'[i].reply.size \in Nat
      BY <1>2
    <2>2. Held(clients')[0] = 0
      BY <1>1, <2>1, HeldRule DEF TypeOK
    <2> QED BY <1>2, <2>2 DEF Budgeted, Waiting, Idle, Parameters
  <1>5. Answers'
    <2>1. ASSUME NEW c \in Clients, command[c].reply # NoReply, AnswerTrue(c, command[c].reply)
          PROVE  AnswerTrue(c, command[c].reply)'
      <3>1. command[c].reply \in AnyAnswer
        BY <2>1 DEF TypeOK, AnyCommand
      <3>2. \A r \in AnyAnswer : AnswerTrue(c, r) => AnswerTrue(c, r)'
        BY AnswersStay
      <3> QED BY <2>1, <3>1, <3>2
    <2> QED BY <1>2, <2>1 DEF Answers
  <1>6. Followed'
    <2> SUFFICES ASSUME NEW c \in Followers, command[c].pc = "ok"
                 PROVE  LET pin == command[c].pin IN
                        IsTheEnd(pin.pane, pin.server, pin.generation, pin.next)'
      BY DEF Followed
    <2> DEFINE pin == command[c].pin
    <2>1. pin \in [pane : Panes, server : Nat, generation : Nat, next : Nat]
          /\ IsTheEnd(pin.pane, pin.server, pin.generation, pin.next)
      BY DEF Followed, TypeOK, AnyCommand, AnyPin, Clients, Unpinned
    <2> QED BY <2>1, EndsStay
  <1> QED BY <1>1, <1>3, <1>4, <1>5, <1>6

-----------------------------------------------------------------------------
(* The commands.                                                           *)

\* One command changes, and neither its answer nor where it was executed.
LEMMA ConnectsKeep ==
    ASSUME Parameters, IInv, NEW c \in Clients, Connects(c)
    PROVE  IInv'
  <1> USE DEF IInv, Connects
  <1> DEFINE new == [command[c] EXCEPT !.pc = "asks", !.sent = 0, !.arrived = 0, !.reply = NoReply]
  <1>1. /\ command \in [Clients -> AnyCommand] /\ backlog \in Seq(Clients)
        /\ command' = [command EXCEPT ![c] = new]
        /\ backlog' = Append(backlog, c)
    BY DEF TypeOK
  <1>2. new \in AnyCommand /\ new.pc = "asks" /\ new.reply = NoReply /\ new.pin = command[c].pin
    BY <1>1 DEF AnyCommand
  <1> HIDE DEF new
  <1>3. /\ backlog' \in Seq(Clients) /\ Len(backlog') = Len(backlog) + 1 /\ Len(backlog) \in Nat
        /\ \A i \in 1..Len(backlog) : backlog'[i] = backlog[i]
        /\ backlog'[Len(backlog) + 1] = c
    BY <1>1
  <1>4. /\ command' \in [Clients -> AnyCommand] /\ command'[c] = new
        /\ \A d \in Clients : d # c => command'[d] = command[d]
        /\ \A d \in Clients : command'[d].pin = command[d].pin
    BY <1>1, <1>2
  <1>5. TypeOK'
    BY <1>3, <1>4 DEF TypeOK
  <1>6. TailsEnd' /\ Turns' /\ Budgeted'
    BY DEF TailsEnd, Turns, Budgeted, Waiting
  <1>7. Placed'
    <2>1. /\ \A i \in 1..Len(backlog) : backlog[i] # c
          /\ \A i \in 1..Len(clients) : clients[i].id # c
      BY DEF Placed
    <2>2. \A i \in 1..Len(backlog') : i = Len(backlog) + 1 \/ i \in 1..Len(backlog)
      BY <1>3
    <2>3. \A i, j \in 1..Len(backlog') : backlog'[i] = backlog'[j] => i = j
      BY <1>3, <2>1, <2>2 DEF Placed
    <2>4. \A i \in 1..Len(backlog'), j \in 1..Len(clients) : backlog'[i] # clients[j].id
      BY <1>3, <2>1, <2>2 DEF Placed
    <2>5. ASSUME NEW d \in Clients, command'[d].pc = "start" \/ command'[d].reply # NoReply
          PROVE  /\ \A i \in 1..Len(backlog') : backlog'[i] # d
                 /\ \A i \in 1..Len(clients) : clients[i].id # d
      <3>1. d # c
        BY <1>2, <1>4, <2>5
      <3> QED BY <1>3, <1>4, <2>2, <2>5, <3>1 DEF Placed
    <2> QED BY <2>3, <2>4, <2>5 DEF Placed
  <1>8. Answers'
    <2>1. ASSUME NEW d \in Clients, NEW r \in AnyAnswer, AnswerTrue(d, r)
          PROVE  AnswerTrue(d, r)'
      BY <1>4, <2>1, AnswersStay
    <2>2. \A i \in 1..Len(clients) :
             clients[i].id \in Clients /\ clients[i].reply \in {NoReply} \cup AnyAnswer
      BY SizesAreNumbers DEF AnyClient
    <2>3. \A d \in Clients : command[d].reply \in {NoReply} \cup AnyAnswer
      BY DEF TypeOK, AnyCommand
    <2>4. \A i \in 1..Len(clients') :
            IF clients'[i].reply = NoReply
            THEN clients'[i].id \in Callers => applied'[clients'[i].id] = 0
            ELSE AnswerTrue(clients[i].id, clients[i].reply)'
      BY <1>1, <2>1, <2>2 DEF Answers
    <2>5. \A d \in Clients : command'[d].pc = "asks" /\ command'[d].reply # NoReply =>
             AnswerTrue(d, command[d].reply)'
      BY <1>2, <1>4, <2>1, <2>3 DEF Answers
    <2>6. \A d \in Callers :
            /\ applied[d] <= 1
            /\ command'[d].pc = "start" => applied[d] = 0
            /\ command'[d].pc = "ok" => applied[d] = 1
            /\ \A i \in 1..Len(backlog') : backlog'[i] = d => applied[d] = 0
      <3> TAKE d \in Callers
      <3>1. d \in Clients
        BY DEF Clients
      <3>2. \A i \in 1..Len(backlog') : i = Len(backlog) + 1 \/ i \in 1..Len(backlog)
        BY <1>3
      <3>3. d = c => applied[d] = 0
        BY DEF Answers
      <3> QED BY <1>2, <1>3, <1>4, <3>1, <3>2, <3>3 DEF Answers
    <2> QED BY <2>4, <2>5, <2>6 DEF Answers
  <1>9. Followed'
    <2>1. \A d \in Followers : d \in Clients /\ (command'[d].pc = "ok" => command[d].pc = "ok")
      BY <1>2, <1>4 DEF Clients
    <2> QED BY <1>4, <2>1 DEF Followed, IsTheEnd
  <1> QED BY <1>5, <1>6, <1>7, <1>8, <1>9

\* A command sends, fails, or takes the answer it has.
LEMMA CallersKeep ==
    ASSUME Parameters, IInv, NEW c \in Clients, Sends(c) \/ Fails(c) \/ IsTold(c)
    PROVE  IInv'
  <1> USE DEF IInv
  <1>1. /\ UNCHANGED <<server, active, output, backlog, clients, turn, written, applied>>
        /\ command[c].pc = "asks"
        /\ command \in [Clients -> AnyCommand]
    BY DEF Sends, Fails, IsTold, Ends, TypeOK
  <1>2. /\ command' \in [Clients -> AnyCommand]
        /\ \A d \in Clients : d # c => command'[d] = command[d]
        /\ \A d \in Clients : command'[d].pin = command[d].pin /\ command'[d].reply = command[d].reply
        /\ \/ command'[c].pc \in {"asks", "error"}
           \/ /\ c \in Callers /\ command'[c].pc = "ok"
              /\ command[c].reply # NoReply /\ command[c].reply.ok
    <2>1. CASE Sends(c)
      <3>1. command' = [command EXCEPT ![c].sent = @ + 1]
        BY <2>1 DEF Sends
      <3>2. command[c].sent + 1 \in Nat
        BY <1>1 DEF AnyCommand
      <3> QED BY <1>1, <3>1, <3>2 DEF AnyCommand
    <2>2. CASE Fails(c)
      <3>1. command' = [command EXCEPT ![c].pc = "error"]
        BY <2>2 DEF Fails, Ends
      <3> QED BY <1>1, <3>1 DEF AnyCommand
    <2>3. CASE IsTold(c)
      <3>1. command' = [command EXCEPT ![c].pc = IF command[c].reply.ok THEN "ok" ELSE "error"]
            /\ c \in Callers /\ command[c].reply # NoReply
        BY <2>3 DEF IsTold, Ends
      <3>2. CASE command[c].reply.ok
        BY <1>1, <3>1, <3>2 DEF AnyCommand
      <3>3. CASE ~command[c].reply.ok
        BY <1>1, <3>1, <3>3 DEF AnyCommand
      <3> QED BY <3>2, <3>3
    <2> QED BY <2>1, <2>2, <2>3
  <1>3. TypeOK'
    BY <1>1, <1>2 DEF TypeOK
  <1>4. TailsEnd' /\ Turns' /\ Budgeted'
    BY <1>1 DEF TailsEnd, Turns, Budgeted, Waiting
  <1>5. Placed'
    <2>1. \A d \in Clients : command'[d].pc = "start" => command[d].pc = "start"
      BY <1>1, <1>2
    <2> QED BY <1>1, <1>2, <2>1 DEF Placed
  <1>6. Answers'
    <2>1. ASSUME NEW d \in Clients, NEW r \in AnyAnswer, AnswerTrue(d, r)
          PROVE  AnswerTrue(d, r)'
      BY <1>1, <1>2, <2>1, AnswersStay
    <2>2. \A i \in 1..Len(clients) :
             clients[i].id \in Clients /\ clients[i].reply \in {NoReply} \cup AnyAnswer
      BY SizesAreNumbers DEF AnyClient
    <2>3. \A d \in Clients : command[d].reply \in {NoReply} \cup AnyAnswer
      BY DEF TypeOK, AnyCommand
    <2>4. \A i \in 1..Len(clients') :
            IF clients'[i].reply = NoReply
            THEN clients'[i].id \in Callers => applied'[clients'[i].id] = 0
            ELSE AnswerTrue(clients[i].id, clients[i].reply)'
      BY <1>1, <2>1, <2>2 DEF Answers
    <2>5. \A d \in Clients : command'[d].pc = "asks" /\ command'[d].reply # NoReply =>
             AnswerTrue(d, command[d].reply)'
      BY <1>1, <1>2, <2>1, <2>3 DEF Answers
    <2>6. \A d \in Callers :
            /\ command'[d].pc = "start" => applied[d] = 0
            /\ command'[d].pc = "ok" => applied[d] = 1
      <3> TAKE d \in Callers
      <3>1. d \in Clients
        BY DEF Clients
      <3>2. command[c].reply # NoReply /\ command[c].reply.ok /\ c \in Callers => applied[c] = 1
        BY <1>1 DEF Answers, AnswerTrue
      <3> QED BY <1>1, <1>2, <3>1, <3>2 DEF Answers
    <2> QED BY <1>1, <2>4, <2>5, <2>6 DEF Answers
  <1>7. Followed'
    <2>1. \A d \in Followers : d \in Clients /\ (command'[d].pc = "ok" => command[d].pc = "ok")
      BY <1>1, <1>2 DEF Clients, Parameters
    <2> QED BY <1>1, <1>2, <2>1 DEF Followed, IsTheEnd
  <1> QED BY <1>3, <1>4, <1>5, <1>6, <1>7

\* What a chunk says in bytes.
LEMMA BytesOfAChunk ==
    ASSUME Parameters, NEW r \in AnyChunk, r.start <= r.next
    PROVE  /\ Bytes(r) \in Seq(AnyByte) /\ Len(Bytes(r)) = r.next - r.start
           /\ \A i \in 1..r.next - r.start :
                Bytes(r)[i] = [server |-> r.server, pane |-> r.pane,
                               generation |-> r.generation, at |-> r.start + i - 1]
  <1> DEFINE n == r.next - r.start
  <1>1. /\ n \in Nat /\ r.start \in Int /\ r.server \in Nat /\ r.pane \in Panes
        /\ r.generation \in Nat
    BY DEF AnyChunk
  <1>2. \A i \in 1..n : [server |-> r.server, pane |-> r.pane, generation |-> r.generation,
                         at |-> r.start + i - 1] \in AnyByte
    <2> HIDE DEF n
    <2> QED BY <1>1 DEF AnyByte
  <1>3. Bytes(r) = [i \in 1..n |-> [server |-> r.server, pane |-> r.pane,
                                    generation |-> r.generation, at |-> r.start + i - 1]]
    BY DEF Bytes
  <1>4. Bytes(r) \in [1..n -> AnyByte]
    BY <1>2, <1>3
  <1> HIDE DEF n
  <1>5. Bytes(r) \in Seq(AnyByte) /\ Len(Bytes(r)) = n
    BY <1>1, <1>4
  <1> QED BY <1>3, <1>5 DEF n

\* A follower writes a chunk and moves its cursor, or ends.
LEMMA FollowsKeep ==
    ASSUME Parameters, IInv, NEW c \in Clients, Follows(c)
    PROVE  IInv'
  <1> USE DEF IInv
  <1> DEFINE pin == command[c].pin
             r == command[c].reply
  <1>1. /\ UNCHANGED <<server, active, output, backlog, clients, turn, applied>>
        /\ c \in Followers /\ c \notin Callers /\ command[c].pc = "asks" /\ r # NoReply
        /\ command \in [Clients -> AnyCommand] /\ written \in [Followers -> Seq(AnyByte)]
    BY DEF Follows, TypeOK, Parameters
  <1>2. r \in AnyAnswer /\ AnswerTrue(c, r)
    BY <1>1 DEF AnyCommand, Answers
  <1>3. pin \in AnyPin /\ (pin.pane # None => pin \in [pane : Panes, server : Nat, generation : Nat, next : Nat])
    BY <1>1 DEF AnyCommand, AnyPin, Unpinned
  <1> DEFINE to == [pane |-> r.pane, server |-> r.server, generation |-> r.generation, next |-> r.next]
  <1>4. \/ command' = [command EXCEPT ![c].pc = "error"] /\ written' = written
        \/ /\ Writable(pin, r)
           /\ written' = [written EXCEPT ![c] = @ \o Bytes(r)]
           /\ command' = [command EXCEPT ![c] =
                 [@ EXCEPT !.pc = IF r.complete THEN "ok" ELSE "start", !.pin = to]]
    BY DEF Follows, Ends
  <1> HIDE DEF r, pin, to
  <1>5. CASE command' = [command EXCEPT ![c].pc = "error"] /\ written' = written
    <2>1. /\ command' \in [Clients -> AnyCommand]
          /\ \A d \in Clients : d # c => command'[d] = command[d]
          /\ \A d \in Clients : command'[d].pin = command[d].pin /\ command'[d].reply = command[d].reply
          /\ command'[c].pc = "error"
      BY <1>1, <1>5 DEF AnyCommand
    <2>2. TypeOK'
      BY <1>1, <1>5, <2>1 DEF TypeOK
    <2>3. TailsEnd' /\ Turns' /\ Budgeted'
      BY <1>1 DEF TailsEnd, Turns, Budgeted, Waiting
    <2>4. Placed'
      <3>1. \A d \in Clients : command'[d].pc = "start" => command[d].pc = "start"
        BY <1>1, <2>1
      <3> QED BY <1>1, <2>1, <3>1 DEF Placed
    <2>5. Answers'
      <3>1. ASSUME NEW d \in Clients, NEW x \in AnyAnswer, AnswerTrue(d, x)
            PROVE  AnswerTrue(d, x)'
        BY <1>1, <2>1, <3>1, AnswersStay
      <3>2. \A i \in 1..Len(clients) :
               clients[i].id \in Clients /\ clients[i].reply \in {NoReply} \cup AnyAnswer
        BY SizesAreNumbers DEF AnyClient
      <3>3. \A d \in Clients : command[d].reply \in {NoReply} \cup AnyAnswer
        BY DEF TypeOK, AnyCommand
      <3>4. \A i \in 1..Len(clients') :
              IF clients'[i].reply = NoReply
              THEN clients'[i].id \in Callers => applied'[clients'[i].id] = 0
              ELSE AnswerTrue(clients[i].id, clients[i].reply)'
        BY <1>1, <3>1, <3>2 DEF Answers
      <3>5. \A d \in Clients : command'[d].pc = "asks" /\ command'[d].reply # NoReply =>
               AnswerTrue(d, command[d].reply)'
        BY <1>1, <2>1, <3>1, <3>3 DEF Answers
      <3>6. \A d \in Callers :
              /\ command'[d].pc = "start" => applied[d] = 0
              /\ command'[d].pc = "ok" => applied[d] = 1
        BY <1>1, <2>1 DEF Answers, Clients
      <3> QED BY <1>1, <3>4, <3>5, <3>6 DEF Answers
    <2>6. Followed'
      <3>1. \A d \in Followers : d \in Clients /\ (command'[d].pc = "ok" => command[d].pc = "ok")
        BY <1>1, <2>1 DEF Clients
      <3> QED BY <1>1, <1>5, <2>1, <3>1 DEF Followed, IsTheEnd
    <2> QED BY <2>2, <2>3, <2>4, <2>5, <2>6
  <1>6. CASE /\ Writable(pin, r)
             /\ written' = [written EXCEPT ![c] = @ \o Bytes(r)]
             /\ command' = [command EXCEPT ![c] =
                   [@ EXCEPT !.pc = IF r.complete THEN "ok" ELSE "start", !.pin = to]]
    <2>1. /\ r.ok /\ r.dropped = 0
          /\ pin.pane # None => r.server = pin.server /\ r.generation = pin.generation
      BY <1>6 DEF Writable
    <2>2. /\ r \in AnyChunk /\ r.start <= r.next
          /\ r.complete => IsTheEnd(r.pane, r.server, r.generation, r.next)
          /\ pin.pane # None => r.pane = pin.pane /\ r.start - r.dropped = pin.next
      BY <1>1, <1>2, <2>1 DEF AnswerTrue, pin
    <2>3. /\ to \in [pane : Panes, server : Nat, generation : Nat, next : Nat]
          /\ r.pane \in Panes /\ r.server \in Nat /\ r.generation \in Nat /\ r.next \in Nat
          /\ r.start \in Int /\ r.complete \in BOOLEAN /\ to.pane # None
      BY <2>2 DEF to, AnyChunk, Parameters
    <2> DEFINE new == [command[c] EXCEPT !.pc = IF r.complete THEN "ok" ELSE "start", !.pin = to]
    <2>4. new \in AnyCommand /\ new.pin = to /\ new.reply = r
          /\ new.pc = IF r.complete THEN "ok" ELSE "start"
      <3>1. command[c] \in AnyCommand /\ to \in AnyPin
        BY <1>1, <2>3 DEF AnyPin
      <3>2. CASE r.complete
        BY <3>1, <3>2 DEF AnyCommand, r
      <3>3. CASE ~r.complete
        BY <3>1, <3>3 DEF AnyCommand, r
      <3> QED BY <3>2, <3>3
    <2>5. command' = [command EXCEPT ![c] = new]
      BY <1>6
    <2> HIDE DEF new
    <2>6. /\ command' \in [Clients -> AnyCommand] /\ command'[c] = new
          /\ \A d \in Clients : d # c => command'[d] = command[d]
      BY <1>1, <2>4, <2>5
    <2>7. /\ Bytes(r) \in Seq(AnyByte) /\ Len(Bytes(r)) = r.next - r.start
          /\ \A i \in 1..r.next - r.start :
               Bytes(r)[i] = [server |-> r.server, pane |-> r.pane,
                              generation |-> r.generation, at |-> r.start + i - 1]
      BY <2>2, BytesOfAChunk
    <2> DEFINE w == written[c]
               b == Bytes(r)
    <2>8. /\ w \o b \in Seq(AnyByte) /\ Len(w \o b) = Len(w) + (r.next - r.start)
          /\ Len(w) \in Nat
          /\ \A i \in 1..Len(w) + (r.next - r.start) :
               (w \o b)[i] = IF i <= Len(w) THEN w[i] ELSE b[i - Len(w)]
      <3>1. w \in Seq(AnyByte) /\ b \in Seq(AnyByte) /\ Len(b) = r.next - r.start
        BY <1>1, <2>7
      <3> HIDE DEF w, b
      <3>2. /\ w \o b \in Seq(AnyByte) /\ Len(w \o b) = Len(w) + Len(b)
            /\ \A i \in 1..Len(w) + Len(b) :
                 (w \o b)[i] = IF i <= Len(w) THEN w[i] ELSE b[i - Len(w)]
        BY <3>1, ConcatProperties
      <3>3. Len(w) \in Nat
        BY <3>1
      <3> QED BY <3>1, <3>2, <3>3
    <2>9. /\ written' \in [Followers -> Seq(AnyByte)] /\ written'[c] = w \o b
          /\ \A d \in Followers : d # c => written'[d] = written[d]
      BY <1>1, <1>6, <2>8
    <2>10. TypeOK'
      BY <1>1, <2>6, <2>9 DEF TypeOK
    <2>11. TailsEnd' /\ Turns' /\ Budgeted'
      BY <1>1 DEF TailsEnd, Turns, Budgeted, Waiting
    <2>12. Placed'
      <3>1. \A d \in Clients : command'[d].pc = "start" \/ command'[d].reply # NoReply
                                 => command[d].pc = "start" \/ command[d].reply # NoReply
        BY <1>1, <2>6 DEF r
      <3> QED BY <1>1, <3>1 DEF Placed
    <2>13. Answers'
      <3>1. ASSUME NEW d \in Clients, d # c, NEW x \in AnyAnswer, AnswerTrue(d, x)
            PROVE  AnswerTrue(d, x)'
        BY <1>1, <2>6, <3>1, AnswersStay
      <3>2. \A i \in 1..Len(clients) :
               /\ clients[i].id \in Clients /\ clients[i].reply \in {NoReply} \cup AnyAnswer
               /\ clients[i].id # c
        BY <1>1, SizesAreNumbers DEF AnyClient, Placed, r
      <3>3. \A d \in Clients : command[d].reply \in {NoReply} \cup AnyAnswer
        BY DEF TypeOK, AnyCommand
      <3>4. \A i \in 1..Len(clients') :
              IF clients'[i].reply = NoReply
              THEN clients'[i].id \in Callers => applied'[clients'[i].id] = 0
              ELSE AnswerTrue(clients[i].id, clients[i].reply)'
        BY <1>1, <3>1, <3>2 DEF Answers
      <3>5. \A d \in Clients : command'[d].pc = "asks" /\ command'[d].reply # NoReply =>
               AnswerTrue(d, command[d].reply)'
        <4>1. new.pc # "asks"
          BY <2>4
        <4> QED BY <2>6, <3>1, <3>3, <4>1 DEF Answers
      <3>6. \A d \in Callers :
              /\ command'[d].pc = "start" => applied[d] = 0
              /\ command'[d].pc = "ok" => applied[d] = 1
        BY <1>1, <2>6 DEF Answers, Clients
      <3> QED BY <1>1, <3>4, <3>5, <3>6 DEF Answers
    <2>14. Followed'
      <3>1. ASSUME NEW i \in 1..Len(w \o b)
            PROVE  (w \o b)[i] = [server |-> r.server, pane |-> r.pane,
                                  generation |-> r.generation,
                                  at |-> r.next - Len(w \o b) + i - 1]
        <4>1. CASE i <= Len(w)
          <5>1. i \in 1..Len(w)
            BY <2>8, <4>1
          <5>2. pin.pane # None
            <6>1. w # << >>
              BY <5>1
            <6> QED BY <1>1, <6>1 DEF Followed, pin
          <5>3. w[i] = [server |-> pin.server, pane |-> pin.pane, generation |-> pin.generation,
                        at |-> pin.next - Len(w) + i - 1]
            BY <1>1, <5>1, <5>2 DEF Followed, pin
          <5>4. pin.next = r.start /\ pin.server = r.server /\ pin.pane = r.pane
                /\ pin.generation = r.generation
            BY <2>1, <2>2, <2>3, <5>2
          <5>5. r.start - Len(w) + i - 1 = r.next - Len(w \o b) + i - 1
            BY <2>3, <2>8, SMTT(60)
          <5> QED BY <2>8, <4>1, <5>3, <5>4, <5>5
        <4>2. CASE ~(i <= Len(w))
          <5>0. /\ r.start \in Int /\ r.next \in Int /\ Len(w) \in Nat
                /\ Len(w \o b) = Len(w) + (r.next - r.start)
                /\ i \in Nat /\ i <= Len(w \o b)
            BY <2>3, <2>8
          <5>1. i - Len(w) \in 1..r.next - r.start
            BY <4>2, <5>0
          <5>2. r.start + (i - Len(w)) - 1 = r.next - Len(w \o b) + i - 1
            BY <5>0
          <5> QED BY <2>7, <2>8, <4>2, <5>1, <5>2
        <4> QED BY <4>1, <4>2
      <3> HIDE DEF w, b
      <3>2. ASSUME NEW d \in Followers
            PROVE  LET q == command'[d].pin IN
                   /\ q.pane = None => written'[d] = << >> /\ command'[d].pc # "ok"
                   /\ q.pane # None => \A i \in 1..Len(written'[d]) :
                         written'[d][i] = [server |-> q.server, pane |-> q.pane,
                                           generation |-> q.generation,
                                           at |-> q.next - Len(written'[d]) + i - 1]
                   /\ command'[d].pc = "ok" => IsTheEnd(q.pane, q.server, q.generation, q.next)
        <4>1. CASE d = c
          <5>1. to.pane = r.pane /\ to.server = r.server /\ to.generation = r.generation /\ to.next = r.next
            BY DEF to
          <5>2. command'[d].pin = to /\ written'[d] = w \o b /\ to.pane # None
            BY <2>3, <2>4, <2>6, <2>9, <4>1
          <5>3. command'[d].pc = "ok" => r.complete
            BY <2>4, <2>6, <4>1
          <5>4. command'[d].pc = "ok" => IsTheEnd(to.pane, to.server, to.generation, to.next)
            BY <2>2, <5>1, <5>3
          <5>5. \A i \in 1..Len(w \o b) :
                  (w \o b)[i] = [server |-> to.server, pane |-> to.pane,
                                 generation |-> to.generation,
                                 at |-> to.next - Len(w \o b) + i - 1]
            BY <3>1, <5>1
          <5> QED BY <5>2, <5>4, <5>5
        <4>2. CASE d # c
          <5>1. d \in Clients
            BY DEF Clients
          <5> QED BY <2>6, <2>9, <4>2, <5>1 DEF Followed
        <4> QED BY <4>1, <4>2
      <3> QED BY <1>1, <3>2 DEF Followed, IsTheEnd
    <2> QED BY <2>10, <2>11, <2>12, <2>13, <2>14
  <1> QED BY <1>4, <1>5, <1>6

-----------------------------------------------------------------------------
(* The service.                                                            *)

\* The clients of the backlog that are accepted need nothing yet.
LEMMA AcceptsKeep ==
    ASSUME Parameters, IInv, Accepts
    PROVE  IInv'
  <1> USE DEF IInv
  <1> DEFINE N == Min({MaxClients, Len(backlog)})
             taken == SubSeq(backlog, 1, N)
             M == Min({MaxClients - Len(clients), N})
             new == [i \in 1..M |-> NewClient(taken[i])]
  <1>1. /\ UNCHANGED <<server, active, output, command, written, applied>>
        /\ backlog' = SubSeq(backlog, Len(taken) + 1, Len(backlog))
        /\ clients' = clients \o [i \in 1..Min({MaxClients - Len(clients), Len(taken)}) |->
                                     NewClient(taken[i])]
        /\ turn' = [left |-> [i \in DOMAIN clients' |-> clients'[i].id], budget |-> Budget]
        /\ turn = Idle
    BY DEF Accepts
  <1>2. /\ backlog \in Seq(Clients) /\ clients \in Seq(AnyClient)
        /\ Len(backlog) \in Nat /\ Len(clients) \in Nat /\ MaxClients \in Nat
        /\ \A i \in 1..Len(backlog) : backlog[i] \in Clients
    BY DEF TypeOK, Parameters
  <1>3. N \in Nat /\ N <= Len(backlog) /\ M \in Int /\ M <= N
    <2>1. N = IF MaxClients <= Len(backlog) THEN MaxClients ELSE Len(backlog)
      BY <1>2, MinOfTwo
    <2>2. N \in Nat /\ N <= Len(backlog)
      BY <1>2, <2>1
    <2> HIDE DEF N
    <2>3. M = IF MaxClients - Len(clients) <= N THEN MaxClients - Len(clients) ELSE N
      BY <1>2, <2>2, MinOfTwo
    <2> QED BY <1>2, <2>2, <2>3
  <1> HIDE DEF N
  <1>4. /\ Len(taken) = N
        /\ \A i \in 1..N : taken[i] = backlog[i]
    <2>1. \A i \in 1..N : backlog[i] \in Clients
      BY <1>2, <1>3
    <2> QED BY <1>2, <1>3, <2>1, SubSeqProperties
  <1> HIDE DEF taken
  <1>5. clients' = clients \o new
    BY <1>1, <1>4
  <1> HIDE DEF M
  <1>6. /\ new \in Seq(AnyClient) /\ Len(new) = (IF M >= 0 THEN M ELSE 0)
        /\ \A i \in 1..Len(new) :
             /\ new[i].id = backlog[i] /\ new[i].reply = NoReply /\ new[i].reply.size = 0
             /\ i \in 1..N
    <2>1. \A i \in 1..M : i \in 1..N /\ i \in 1..Len(backlog) /\ NewClient(taken[i]) \in AnyClient
      BY <1>2, <1>3, <1>4 DEF NewClient, AnyClient
    <2>2. CASE M >= 0
      <3>1. new \in Seq(AnyClient) /\ Len(new) = M
        <4>1. new \in [1..M -> AnyClient]
          BY <2>1
        <4> HIDE DEF new
        <4> QED BY <1>3, <2>2, <4>1
      <3> QED BY <1>4, <2>1, <2>2, <3>1 DEF NewClient, NoReply
    <2>3. CASE ~(M >= 0)
      <3>1. 1..M = {}
        BY <1>3, <2>3
      <3>2. new = << >>
        BY <3>1
      <3> HIDE DEF new
      <3> QED BY <2>3, <3>2
    <2> QED BY <2>2, <2>3
  <1> HIDE DEF new
  <1>7. Len(new) \in Nat /\ Len(new) <= N
    BY <1>3, <1>6
  <1>8. /\ clients' \in Seq(AnyClient) /\ Len(clients') = Len(clients) + Len(new)
        /\ \A i \in 1..Len(clients) + Len(new) :
             clients'[i] = IF i <= Len(clients) THEN clients[i] ELSE new[i - Len(clients)]
    BY <1>2, <1>5, <1>6, ConcatProperties
  <1>9. \A i \in 1..Len(clients') :
          \/ i \in 1..Len(clients) /\ clients'[i] = clients[i]
          \/ /\ i - Len(clients) \in 1..Len(new) /\ i - Len(clients) \in 1..Len(backlog)
             /\ i > Len(clients)
             /\ i - Len(clients) <= N
             /\ clients'[i].id = backlog[i - Len(clients)] /\ clients'[i].reply = NoReply
    <2> TAKE i \in 1..Len(clients')
    <2>1. CASE i <= Len(clients)
      BY <1>2, <1>8, <2>1
    <2>2. CASE ~(i <= Len(clients))
      <3>1. i - Len(clients) \in 1..Len(new)
        BY <1>2, <1>7, <1>8, <2>2
      <3> QED BY <1>2, <1>3, <1>6, <1>7, <1>8, <2>2, <3>1
    <2> QED BY <2>1, <2>2
  <1>10. /\ backlog' \in Seq(Clients) /\ Len(backlog') = Len(backlog) - N
         /\ \A i \in 1..Len(backlog) - N : /\ backlog'[i] = backlog[N + i]
                                           /\ N + i \in 1..Len(backlog)
    <2>1. \A i \in N + 1..Len(backlog) : backlog[i] \in Clients
      BY <1>2, <1>3
    <2>2. /\ backlog' \in Seq(Clients)
          /\ Len(backlog') = IF N + 1 <= Len(backlog) THEN Len(backlog) - (N + 1) + 1 ELSE 0
          /\ \A i \in 1..Len(backlog) - (N + 1) + 1 : backlog'[i] = backlog[(N + 1) + i - 1]
      BY <1>1, <1>2, <1>3, <1>4, <2>1, SubSeqProperties
    <2>3. Len(backlog') = Len(backlog) - N
      BY <1>2, <1>3, <2>2
    <2>4. ASSUME NEW i \in 1..Len(backlog) - N
          PROVE  backlog'[i] = backlog[N + i] /\ N + i \in 1..Len(backlog)
      <3>1. i \in 1..Len(backlog) - (N + 1) + 1 /\ (N + 1) + i - 1 = N + i
        BY <1>2, <1>3
      <3>2. N + i \in 1..Len(backlog)
        BY <1>2, <1>3
      <3> QED BY <2>2, <3>1, <3>2
    <2> QED BY <2>2, <2>3, <2>4
  <1>11. /\ turn'.left \in Seq(Clients) /\ Len(turn'.left) = Len(clients')
         /\ \A i \in 1..Len(clients') : turn'.left[i] = clients'[i].id
         /\ turn'.budget = Budget
    <2>1. DOMAIN clients' = 1..Len(clients') /\ Len(clients') \in Nat
          /\ \A i \in 1..Len(clients') : clients'[i].id \in Clients
      <3>1. DOMAIN clients' = 1..Len(clients') /\ Len(clients') \in Nat
            /\ \A i \in 1..Len(clients') : clients'[i] \in AnyClient
        BY <1>8
      <3>2. \A x \in AnyClient : x.id \in Clients
        BY DEF AnyClient
      <3> QED BY <3>1, <3>2
    <2>2. turn'.left = [i \in 1..Len(clients') |-> clients'[i].id]
      BY <1>1, <2>1
    <2>3. turn'.left \in [1..Len(clients') -> Clients]
      BY <2>1, <2>2
    <2>4. turn'.left \in Seq(Clients) /\ Len(turn'.left) = Len(clients')
      BY <2>1, <2>3
    <2>5. \A i \in 1..Len(clients') : turn'.left[i] = clients'[i].id
      BY <2>2
    <2> QED BY <1>1, <2>4, <2>5
  <1>12. Budget \in Nat /\ Waiting + Budget <= MaxResponse
    <2>1. Waiting \in Nat /\ MaxResponse \in Nat /\ Waiting <= MaxResponse
      BY <1>1, SizesAreNumbers DEF Budgeted, Idle, Parameters
    <2> QED BY <2>1, MaxOfTwo DEF Budget
  <1>13. TypeOK'
    <2>1. turn' \in [left : Seq(Clients), budget : Nat]
      BY <1>1, <1>11, <1>12
    <2> QED BY <1>1, <1>8, <1>10, <2>1 DEF TypeOK
  <1>14. TailsEnd'
    BY <1>1 DEF TailsEnd
  <1>15. Placed'
    <2>1. \A i, j \in 1..Len(backlog') : backlog'[i] = backlog'[j] => i = j
      <3> TAKE i, j \in 1..Len(backlog')
      <3>1. /\ backlog'[i] = backlog[N + i] /\ N + i \in 1..Len(backlog)
            /\ backlog'[j] = backlog[N + j] /\ N + j \in 1..Len(backlog)
        BY <1>10
      <3>2. backlog'[i] = backlog'[j] => N + i = N + j
        BY <3>1 DEF Placed
      <3> QED BY <1>3, <1>10, <3>2
    <2>2. \A i, j \in 1..Len(clients') : clients'[i].id = clients'[j].id => i = j
      <3> SUFFICES ASSUME NEW i \in 1..Len(clients'), NEW j \in 1..Len(clients'),
                          clients'[i].id = clients'[j].id
                   PROVE  i = j
        OBVIOUS
      <3>1. CASE i \in 1..Len(clients) /\ j \in 1..Len(clients)
                 /\ clients'[i] = clients[i] /\ clients'[j] = clients[j]
        BY <3>1 DEF Placed
      <3>2. CASE i > Len(clients) /\ j > Len(clients)
        <4>1. /\ i - Len(clients) \in 1..Len(backlog) /\ j - Len(clients) \in 1..Len(backlog)
              /\ backlog[i - Len(clients)] = backlog[j - Len(clients)]
          BY <1>2, <1>9, <3>2
        <4>2. i - Len(clients) = j - Len(clients)
          BY <4>1 DEF Placed
        <4> QED BY <1>2, <1>8, <4>2
      <3>3. CASE i \in 1..Len(clients) /\ j > Len(clients)
        <4>1. /\ clients'[i] = clients[i]
              /\ j - Len(clients) \in 1..Len(backlog)
              /\ clients'[j].id = backlog[j - Len(clients)]
          BY <1>2, <1>9, <3>3
        <4>2. backlog[j - Len(clients)] # clients[i].id
          BY <4>1, <3>3 DEF Placed
        <4> QED BY <4>1, <4>2
      <3>4. CASE j \in 1..Len(clients) /\ i > Len(clients)
        <4>1. /\ clients'[j] = clients[j]
              /\ i - Len(clients) \in 1..Len(backlog)
              /\ clients'[i].id = backlog[i - Len(clients)]
          BY <1>2, <1>9, <3>4
        <4>2. backlog[i - Len(clients)] # clients[j].id
          BY <4>1, <3>4 DEF Placed
        <4> QED BY <4>1, <4>2
      <3> QED BY <1>9, <3>1, <3>2, <3>3, <3>4
    <2>3. \A i \in 1..Len(backlog'), j \in 1..Len(clients') : backlog'[i] # clients'[j].id
      <3> TAKE i \in 1..Len(backlog'), j \in 1..Len(clients')
      <3>1. backlog'[i] = backlog[N + i] /\ N + i \in 1..Len(backlog)
        BY <1>10
      <3>2. CASE j \in 1..Len(clients) /\ clients'[j] = clients[j]
        BY <3>1, <3>2 DEF Placed
      <3>3. CASE /\ j - Len(clients) \in 1..Len(backlog) /\ j - Len(clients) <= N
                 /\ clients'[j].id = backlog[j - Len(clients)]
        <4>1. j - Len(clients) # N + i
          BY <1>2, <1>3, <1>10, <3>3
        <4> QED BY <3>1, <3>3, <4>1 DEF Placed
      <3> QED BY <1>9, <3>2, <3>3
    <2>4. ASSUME NEW d \in Clients, command[d].pc = "start" \/ command[d].reply # NoReply
          PROVE  /\ \A i \in 1..Len(backlog') : backlog'[i] # d
                 /\ \A i \in 1..Len(clients') : clients'[i].id # d
      <3>1. /\ \A i \in 1..Len(backlog) : backlog[i] # d
            /\ \A i \in 1..Len(clients) : clients[i].id # d
        BY <2>4 DEF Placed
      <3>2. \A i \in 1..Len(backlog') : backlog'[i] # d
        BY <1>10, <3>1
      <3>3. \A i \in 1..Len(clients') : clients'[i].id # d
        BY <1>9, <3>1
      <3> QED BY <3>2, <3>3
    <2> QED BY <1>1, <2>1, <2>2, <2>3, <2>4 DEF Placed
  <1>16. Turns'
    <2>1. \A i, j \in 1..Len(turn'.left) : turn'.left[i] = turn'.left[j] => i = j
      BY <1>11, <1>15 DEF Placed
    <2> QED BY <1>11, <2>1 DEF Turns
  <1>17. Answers'
    <2>1. \A d \in Clients, x \in AnyAnswer : AnswerTrue(d, x) => AnswerTrue(d, x)'
      BY <1>1, AnswersStay
    <2>2. \A i \in 1..Len(clients) :
             clients[i].id \in Clients /\ clients[i].reply \in {NoReply} \cup AnyAnswer
      BY SizesAreNumbers DEF AnyClient
    <2>3. \A d \in Clients : command[d].reply \in {NoReply} \cup AnyAnswer
      BY DEF TypeOK, AnyCommand
    <2>4. ASSUME NEW i \in 1..Len(clients')
          PROVE  IF clients'[i].reply = NoReply
                 THEN clients'[i].id \in Callers => applied[clients'[i].id] = 0
                 ELSE \E d \in Clients, x \in AnyAnswer :
                        d = clients'[i].id /\ x = clients'[i].reply /\ AnswerTrue(d, x)'
      <3>1. CASE i \in 1..Len(clients) /\ clients'[i] = clients[i]
        BY <2>1, <2>2, <3>1 DEF Answers
      <3>2. CASE /\ i - Len(clients) \in 1..Len(backlog)
                 /\ clients'[i].id = backlog[i - Len(clients)] /\ clients'[i].reply = NoReply
        BY <3>2 DEF Answers
      <3> QED BY <1>9, <3>1, <3>2
    <2>5. \A d \in Clients : command[d].pc = "asks" /\ command[d].reply # NoReply =>
             AnswerTrue(d, command[d].reply)'
      BY <1>1, <2>1, <2>3 DEF Answers
    <2>6. \A d \in Callers, i \in 1..Len(backlog') : backlog'[i] = d => applied[d] = 0
      BY <1>10 DEF Answers
    <2> QED BY <1>1, <2>4, <2>5, <2>6 DEF Answers
  <1>18. Followed'
    BY <1>1 DEF Followed, IsTheEnd
  <1>19. Budgeted'
    <2>1. Held(clients')[Len(clients')] = Held(clients)[Len(clients)]
      BY <1>2, <1>5, <1>6, SizesAreNumbers, HeldAppended
    <2> QED BY <1>11, <1>12, <2>1 DEF Budgeted, Waiting
  <1> QED BY <1>13, <1>14, <1>15, <1>16, <1>17, <1>18, <1>19

LEMMA EndsTickKeeps ==
    ASSUME Parameters, IInv, EndsTick
    PROVE  IInv'
  <1> USE DEF IInv, EndsTick
  <1>1. TypeOK' /\ TailsEnd' /\ Placed'
    BY DEF TypeOK, TailsEnd, Placed, Idle
  <1>5. Followed'
    BY DEF Followed, IsTheEnd
  <1>2. Turns'
    <2>1. Len(turn'.left) = 0 /\ 1..0 = {}
      BY DEF Idle
    <2> QED BY <2>1 DEF Turns
  <1>4. Answers'
    BY DEF Answers, AnswerTrue, IsTheEnd
  <1>3. Budgeted'
    <2>1. turn.budget \in Nat /\ Waiting \in Nat /\ MaxResponse \in Nat
      BY SizesAreNumbers DEF TypeOK, Parameters
    <2>2. turn'.budget = 0 /\ Waiting' = Waiting
      BY DEF Idle, Waiting
    <2> QED BY <2>1, <2>2 DEF Budgeted
  <1> QED BY <1>1, <1>2, <1>3, <1>4, <1>5

\* The client that is served is one of the service's, and no other of the tick is.
LEMMA TheServed ==
    ASSUME Parameters, IInv, turn.left # << >>
    PROVE  /\ Head(turn.left) \in Clients
           /\ Place(Head(turn.left)) \in 1..Len(clients)
           /\ clients[Place(Head(turn.left))].id = Head(turn.left)
           /\ Tail(turn.left) \in Seq(Clients)
           /\ \A i \in 1..Len(Tail(turn.left)) :
                /\ Tail(turn.left)[i] # Head(turn.left)
                /\ \E j \in 1..Len(clients) : clients[j].id = Tail(turn.left)[i]
                /\ \A j \in 1..Len(Tail(turn.left)) :
                     Tail(turn.left)[i] = Tail(turn.left)[j] => i = j
           /\ command[Head(turn.left)].reply = NoReply
           /\ command[Head(turn.left)].pc # "start"
  <1> USE DEF IInv
  <1> DEFINE left == turn.left
             rest == Tail(left)
             c == Head(left)
  <1>1. left \in Seq(Clients) /\ left # << >>
    BY DEF TypeOK
  <1>2. /\ Len(left) \in Nat /\ Len(left) >= 1 /\ c = left[1] /\ c \in Clients
        /\ rest \in Seq(Clients) /\ Len(rest) = Len(left) - 1
        /\ \A i \in 1..Len(rest) : rest[i] = left[i + 1]
    <2> HIDE DEF left
    <2> QED BY <1>1, HeadTailProperties
  <1>3. PICK j \in 1..Len(clients) : clients[j].id = c
    BY <1>2 DEF Turns
  <1>4. Place(c) \in 1..Len(clients) /\ clients[Place(c)].id = c
    <2>1. DOMAIN clients = 1..Len(clients)
      BY DEF TypeOK
    <2> HIDE DEF c
    <2> QED BY <1>3, <2>1 DEF Place
  <1>5. ASSUME NEW i \in 1..Len(rest)
        PROVE  /\ rest[i] # c
               /\ \E n \in 1..Len(clients) : clients[n].id = rest[i]
               /\ \A n \in 1..Len(rest) : rest[i] = rest[n] => i = n
    <2>1. i + 1 \in 1..Len(left) /\ 1 \in 1..Len(left) /\ i + 1 # 1
      BY <1>2
    <2>2. \A n \in 1..Len(rest) : n + 1 \in 1..Len(left)
      BY <1>2
    <2>3. \A n \in 1..Len(rest) : rest[i] = rest[n] => i + 1 = n + 1
      BY <1>2, <2>1, <2>2 DEF Turns
    <2>4. \A n \in 1..Len(rest) : i + 1 = n + 1 => i = n
      BY <1>2
    <2> QED BY <1>2, <2>1, <2>3, <2>4 DEF Turns
  <1>6. command[c].reply = NoReply /\ command[c].pc # "start"
    BY <1>2, <1>3 DEF Placed
  <1> QED BY <1>2, <1>4, <1>5, <1>6

\* What serving client c, at place k, does but for the clients: budget b is left and
\* z is the answer its command has.
ServesOne(c, k, b, z) ==
    /\ c \in Clients /\ k \in 1..Len(clients) /\ clients[k].id = c
    /\ turn.left # << >> /\ c = Head(turn.left)
    /\ b \in Nat /\ turn' = [left |-> Tail(turn.left), budget |-> b]
    /\ command' \in [Clients -> AnyCommand]
    /\ \A d \in Clients : /\ d # c => command'[d] = command[d]
                          /\ command'[d].pc = command[d].pc /\ command'[d].pin = command[d].pin
    /\ z \in {NoReply} \cup AnyAnswer /\ command'[c].reply = z
    /\ applied' \in [Callers -> Nat]
    /\ \A d \in Callers : \/ applied'[d] = applied[d]
                          \/ d = c /\ applied[d] = 0 /\ applied'[d] = 1
    /\ UNCHANGED <<server, active, output, backlog, written>>

\* Whether the client goes or stays, the others are as they were.
LEMMA ServingKeeps ==
    ASSUME Parameters, IInv, NEW c, NEW k, NEW b, NEW z, ServesOne(c, k, b, z),
           clients' \in Seq(AnyClient),
           \A i \in 1..Len(clients') :
              \/ clients'[i].id = c
              \/ \E j \in 1..Len(clients) : j # k /\ clients'[i] = clients[j],
           \A i, j \in 1..Len(clients') : clients'[i].id = clients'[j].id => i = j,
           \A j \in 1..Len(clients) : j # k =>
              \E i \in 1..Len(clients') : clients'[i].id = clients[j].id,
           z # NoReply => AnswerTrue(c, z)' /\ \A i \in 1..Len(clients') : clients'[i].id # c,
           \A i \in 1..Len(clients') : clients'[i].id = c =>
              IF clients'[i].reply = NoReply THEN c \in Callers => applied'[c] = 0
              ELSE \E y \in AnyAnswer : y = clients'[i].reply /\ AnswerTrue(c, y)',
           Waiting' + b <= MaxResponse
    PROVE  IInv'
  <1> USE DEF IInv
  <1>1. /\ c \in Clients /\ k \in 1..Len(clients) /\ clients[k].id = c
        /\ turn.left # << >> /\ c = Head(turn.left)
        /\ b \in Nat /\ turn' = [left |-> Tail(turn.left), budget |-> b]
        /\ command' \in [Clients -> AnyCommand]
        /\ \A d \in Clients : /\ d # c => command'[d] = command[d]
                              /\ command'[d].pc = command[d].pc /\ command'[d].pin = command[d].pin
        /\ z \in {NoReply} \cup AnyAnswer /\ command'[c].reply = z
        /\ applied' \in [Callers -> Nat]
        /\ \A d \in Callers : \/ applied'[d] = applied[d]
                              \/ d = c /\ applied[d] = 0 /\ applied'[d] = 1
        /\ UNCHANGED <<server, active, output, backlog, written>>
    BY DEF ServesOne
  <1>2. /\ Tail(turn.left) \in Seq(Clients)
        /\ \A i \in 1..Len(Tail(turn.left)) :
             /\ Tail(turn.left)[i] # c
             /\ \E j \in 1..Len(clients) : clients[j].id = Tail(turn.left)[i]
             /\ \A j \in 1..Len(Tail(turn.left)) :
                  Tail(turn.left)[i] = Tail(turn.left)[j] => i = j
        /\ command[c].reply = NoReply /\ command[c].pc # "start"
    BY <1>1, TheServed
  <1>3. TypeOK'
    BY <1>1, <1>2 DEF TypeOK
  <1>4. TailsEnd'
    BY <1>1 DEF TailsEnd
  <1>5. Budgeted'
    BY <1>1 DEF Budgeted
  <1>6. Turns'
    <2>1. \A i \in 1..Len(turn'.left) : \E j \in 1..Len(clients') : clients'[j].id = turn'.left[i]
      <3> TAKE i \in 1..Len(turn'.left)
      <3>1. turn'.left[i] # c /\ \E j \in 1..Len(clients) : clients[j].id = turn'.left[i]
        BY <1>1, <1>2
      <3>2. PICK j \in 1..Len(clients) : clients[j].id = turn'.left[i]
        BY <3>1
      <3>3. j # k
        BY <1>1, <3>1, <3>2
      <3> QED BY <3>2, <3>3
    <2> QED BY <1>1, <1>2, <2>1 DEF Turns
  <1>7. Placed'
    <2>1. \A i \in 1..Len(backlog) : backlog[i] # c
      BY <1>1 DEF Placed
    <2>2. \A i \in 1..Len(backlog), j \in 1..Len(clients') : backlog[i] # clients'[j].id
      BY <2>1 DEF Placed
    <2>3. ASSUME NEW d \in Clients, command'[d].pc = "start" \/ command'[d].reply # NoReply
          PROVE  /\ \A i \in 1..Len(backlog) : backlog[i] # d
                 /\ \A i \in 1..Len(clients') : clients'[i].id # d
      <3>1. CASE d = c
        BY <1>1, <1>2, <2>1, <2>3, <3>1
      <3>2. CASE d # c
        <4>1. command[d].pc = "start" \/ command[d].reply # NoReply
          BY <1>1, <2>3, <3>2
        <4>2. /\ \A i \in 1..Len(backlog) : backlog[i] # d
              /\ \A i \in 1..Len(clients) : clients[i].id # d
          BY <4>1 DEF Placed
        <4>3. \A i \in 1..Len(clients') : clients'[i].id # d
          <5> TAKE i \in 1..Len(clients')
          <5>1. \/ clients'[i].id = c
                \/ \E j \in 1..Len(clients) : clients'[i] = clients[j]
            OBVIOUS
          <5> QED BY <3>2, <4>2, <5>1
        <4> QED BY <4>2, <4>3
      <3> QED BY <3>1, <3>2
    <2> QED BY <1>1, <2>2, <2>3 DEF Placed
  <1>8. Answers'
    <2>1. \A d \in Clients, x \in AnyAnswer : AnswerTrue(d, x) => AnswerTrue(d, x)'
      BY <1>1, AnswersStay
    <2>2. \A i \in 1..Len(clients) :
             clients[i].id \in Clients /\ clients[i].reply \in {NoReply} \cup AnyAnswer
      BY SizesAreNumbers DEF AnyClient
    <2>3. \A d \in Clients : command[d].reply \in {NoReply} \cup AnyAnswer
      BY DEF TypeOK, AnyCommand
    <2>4. ASSUME NEW i \in 1..Len(clients')
          PROVE  IF clients'[i].reply = NoReply
                 THEN clients'[i].id \in Callers => applied'[clients'[i].id] = 0
                 ELSE \E d \in Clients, x \in AnyAnswer :
                        d = clients'[i].id /\ x = clients'[i].reply /\ AnswerTrue(d, x)'
      <3>1. CASE clients'[i].id = c
        BY <1>1, <3>1
      <3>2. CASE \E j \in 1..Len(clients) : j # k /\ clients'[i] = clients[j]
        <4>1. PICK j \in 1..Len(clients) : j # k /\ clients'[i] = clients[j]
          BY <3>2
        <4>2. clients[j].id # c
          BY <1>1, <4>1 DEF Placed
        <4>3. IF clients[j].reply = NoReply
              THEN clients[j].id \in Callers => applied[clients[j].id] = 0
              ELSE AnswerTrue(clients[j].id, clients[j].reply)
          BY DEF Answers
        <4> QED BY <1>1, <2>1, <2>2, <4>1, <4>2, <4>3
      <3> QED BY <3>1, <3>2
    <2>5. ASSUME NEW d \in Clients, command'[d].pc = "asks", command'[d].reply # NoReply
          PROVE  \E x \in AnyAnswer : x = command'[d].reply /\ AnswerTrue(d, x)'
      <3>1. CASE d = c
        BY <1>1, <2>5, <3>1
      <3>2. CASE d # c
        BY <1>1, <2>1, <2>3, <2>5, <3>2 DEF Answers
      <3> QED BY <3>1, <3>2
    <2>6. \A d \in Callers :
            /\ applied'[d] <= 1
            /\ command'[d].pc = "start" => applied'[d] = 0
            /\ command'[d].pc = "ok" => applied'[d] = 1
            /\ \A i \in 1..Len(backlog) : backlog[i] = d => applied'[d] = 0
      <3> TAKE d \in Callers
      <3>1. d \in Clients
        BY DEF Clients
      <3>2. \A i \in 1..Len(backlog) : backlog[i] # c
        BY <1>1 DEF Placed
      <3>3. command'[d].pc = command[d].pc
        BY <1>1, <3>1
      <3>4. CASE applied'[d] = applied[d]
        BY <3>3, <3>4 DEF Answers
      <3>5. CASE d = c /\ applied'[d] = 1
        BY <1>2, <3>2, <3>3, <3>5
      <3> QED BY <1>1, <3>4, <3>5
    <2> QED BY <1>1, <2>4, <2>5, <2>6 DEF Answers
  <1>9. Followed'
    <2>1. \A d \in Followers : d \in Clients
      BY DEF Clients
    <2> QED BY <1>1, <2>1, SMTT(60) DEF Followed, IsTheEnd
  <1> QED BY <1>3, <1>4, <1>5, <1>6, <1>7, <1>8, <1>9

\* The client goes, with its answer or without.
LEMMA LeavingKeeps ==
    ASSUME Parameters, IInv, NEW c, NEW k, NEW b, NEW z, ServesOne(c, k, b, z),
           clients' = RemoveAt(clients, k),
           z # NoReply => AnswerTrue(c, z)',
           b <= turn.budget + clients[k].reply.size
    PROVE  IInv'
  <1> USE DEF IInv
  <1>1. k \in 1..Len(clients) /\ clients[k].id = c /\ b \in Nat
    BY DEF ServesOne
  <1>2. clients \in Seq(AnyClient) /\ Len(clients) \in Nat
    BY DEF TypeOK
  <1>3. /\ clients' \in Seq(AnyClient) /\ Len(clients') = Len(clients) - 1
        /\ \A i \in 1..Len(clients) - 1 : clients'[i] = IF i < k THEN clients[i] ELSE clients[i + 1]
    BY <1>1, <1>2, Removed
  <1>4. \A i \in 1..Len(clients') :
          \E j \in 1..Len(clients) : j # k /\ clients'[i] = clients[j]
                                     /\ j = IF i < k THEN i ELSE i + 1
    <2> TAKE i \in 1..Len(clients')
    <2>1. CASE i < k
      BY <1>1, <1>2, <1>3, <2>1
    <2>2. CASE ~(i < k)
      <3>1. i + 1 \in 1..Len(clients) /\ i + 1 # k
        BY <1>1, <1>2, <1>3, <2>2
      <3> QED BY <1>3, <2>2, <3>1
    <2> QED BY <2>1, <2>2
  <1>5. \A i \in 1..Len(clients') : clients'[i].id # c
    BY <1>1, <1>4 DEF Placed
  <1>6. \A i, j \in 1..Len(clients') : clients'[i].id = clients'[j].id => i = j
    <2> SUFFICES ASSUME NEW i \in 1..Len(clients'), NEW j \in 1..Len(clients'),
                        clients'[i].id = clients'[j].id
                 PROVE  i = j
      OBVIOUS
    <2>1. PICK m \in 1..Len(clients) : clients'[i] = clients[m] /\ m = IF i < k THEN i ELSE i + 1
      BY <1>4
    <2>2. PICK n \in 1..Len(clients) : clients'[j] = clients[n] /\ n = IF j < k THEN j ELSE j + 1
      BY <1>4
    <2>3. m = n
      <3>1. clients[m].id = clients[n].id
        BY <2>1, <2>2
      <3> QED BY <3>1 DEF Placed
    <2>4. i \in Nat /\ j \in Nat /\ k \in Nat
      BY <1>1, <1>2, <1>3
    <2> HIDE DEF IInv
    <2> QED BY <2>1, <2>2, <2>3, <2>4
  <1>7. ASSUME NEW j \in 1..Len(clients), j # k
        PROVE  \E i \in 1..Len(clients') : clients'[i].id = clients[j].id
    <2>1. CASE j < k
      <3>1. j \in 1..Len(clients) - 1
        BY <1>1, <1>2, <2>1
      <3> QED BY <1>3, <2>1, <3>1
    <2>2. CASE j > k
      <3>1. j - 1 \in 1..Len(clients) - 1 /\ ~(j - 1 < k) /\ (j - 1) + 1 = j
        BY <1>1, <1>2, <2>2
      <3> QED BY <1>3, <3>1
    <2> QED BY <1>1, <1>7, <2>1, <2>2
  <1>8. Waiting' + b <= MaxResponse
    <2>1. /\ \A i \in 1..Len(clients) : clients[i].reply.size \in Nat
          /\ Waiting \in Nat
      BY SizesAreNumbers
    <2>2. Held(clients')[Len(clients')] = Held(clients)[Len(clients)] - clients[k].reply.size
      BY <1>1, <1>2, <2>1, HeldRemoved
    <2>3. Waiting' = Waiting - clients[k].reply.size
      BY <2>2 DEF Waiting
    <2>4. Waiting + turn.budget <= MaxResponse /\ turn.budget \in Nat /\ MaxResponse \in Nat
      BY DEF Budgeted, TypeOK, Parameters
    <2> QED BY <1>1, <2>1, <2>3, <2>4
  <1>9. \A i \in 1..Len(clients') :
           clients'[i].id = c \/ \E j \in 1..Len(clients) : j # k /\ clients'[i] = clients[j]
    BY <1>4
  <1> QED BY <1>3, <1>5, <1>6, <1>7, <1>8, <1>9, ServingKeeps

\* The client stays in its place.
LEMMA StayingKeeps ==
    ASSUME Parameters, IInv, NEW c, NEW k, NEW b, ServesOne(c, k, b, NoReply),
           NEW y \in AnyClient, y.id = c, clients' = [clients EXCEPT ![k] = y],
           IF y.reply = NoReply THEN c \in Callers => applied'[c] = 0
           ELSE \E x \in AnyAnswer : x = y.reply /\ AnswerTrue(c, x)',
           b + y.reply.size <= turn.budget + clients[k].reply.size
    PROVE  IInv'
  <1> USE DEF IInv
  <1>1. k \in 1..Len(clients) /\ clients[k].id = c /\ b \in Nat
    BY DEF ServesOne
  <1>2. clients \in Seq(AnyClient) /\ Len(clients) \in Nat
    BY DEF TypeOK
  <1>3. /\ clients' \in Seq(AnyClient) /\ Len(clients') = Len(clients)
        /\ \A i \in 1..Len(clients) : clients'[i] = IF i = k THEN y ELSE clients[i]
    BY <1>1, <1>2, ExceptSeq
  <1>4. \A i \in 1..Len(clients') :
           clients'[i].id = c \/ \E j \in 1..Len(clients) : j # k /\ clients'[i] = clients[j]
    BY <1>1, <1>3
  <1>5. \A i \in 1..Len(clients) : clients'[i].id = clients[i].id
    BY <1>1, <1>3
  <1>6. Waiting' + b <= MaxResponse
    <2>1. /\ \A i \in 1..Len(clients) : clients[i].reply.size \in Nat
          /\ Waiting \in Nat /\ y.reply.size \in Nat
      BY SizesAreNumbers, AnAnswer DEF AnyClient
    <2>2. Held(clients')[Len(clients')]
             = Held(clients)[Len(clients)] - clients[k].reply.size + y.reply.size
      BY <1>1, <1>2, <2>1, HeldReplaced
    <2>3. Waiting' = Waiting - clients[k].reply.size + y.reply.size
      BY <2>2 DEF Waiting
    <2>4. Waiting + turn.budget <= MaxResponse /\ turn.budget \in Nat /\ MaxResponse \in Nat
      BY DEF Budgeted, TypeOK, Parameters
    <2>5. clients[k].reply.size \in Nat
      BY <1>1, <2>1
    <2>6. b + y.reply.size <= turn.budget + clients[k].reply.size
      OBVIOUS
    <2>7. \A w, x, u, v, m \in Nat :
             w + u <= m /\ b + x <= u + v => (w - v + x) + b <= m
      BY <1>1
    <2>8. (Waiting - clients[k].reply.size + y.reply.size) + b <= MaxResponse
      BY <2>1, <2>4, <2>5, <2>6, <2>7
    <2> QED BY <2>3, <2>8
  <1>7. \A i, j \in 1..Len(clients') : clients'[i].id = clients'[j].id => i = j
    BY <1>3, <1>5 DEF Placed
  <1>8. \A i \in 1..Len(clients') : clients'[i].id = c =>
          IF clients'[i].reply = NoReply THEN c \in Callers => applied'[c] = 0
          ELSE \E x \in AnyAnswer : x = clients'[i].reply /\ AnswerTrue(c, x)'
    <2> SUFFICES ASSUME NEW i \in 1..Len(clients'), clients'[i].id = c
                 PROVE  clients'[i] = y
      OBVIOUS
    <2>1. i = k
      BY <1>1, <1>3, <1>5 DEF Placed
    <2> QED BY <1>3, <2>1
  <1>9. \A j \in 1..Len(clients) : j # k =>
          \E i \in 1..Len(clients') : clients'[i].id = clients[j].id
    BY <1>3, <1>5
  <1> QED BY <1>3, <1>4, <1>6, <1>7, <1>8, <1>9, ServingKeeps

\* What is read of a pane's output is there, follows the cursor, and is the end of the
\* output of its process when it says so.
LEMMA ChunkIsTrue ==
    ASSUME Parameters, IInv, NEW d \in Followers
    PROVE  LET r == Chunk(Pane(command[d].pin), command[d].pin.next) IN
           r \in AnyAnswer /\ AnswerTrue(d, r)
  <1> USE DEF IInv
  <1> DEFINE pin == command[d].pin
             p == Pane(pin)
             o == output[p]
             from == IF pin.next = -1 THEN o.end ELSE pin.next
             start == Max({from, o.oldest})
             r == Chunk(p, pin.next)
  <1>1. d \in Clients /\ d \notin Callers
    BY DEF Clients, Parameters
  <1>2. /\ pin \in AnyPin
        /\ pin.pane = None => pin = Unpinned
        /\ pin.pane # None => pin.pane \in Panes /\ pin.next \in Nat
        /\ pin.next \in Int
    <2>1. pin \in AnyPin
      BY <1>1 DEF TypeOK, AnyCommand
    <2> HIDE DEF pin
    <2>2. None \notin Panes
      BY DEF Parameters
    <2> QED BY <2>1, <2>2 DEF AnyPin, Unpinned
  <1> HIDE DEF pin
  <1>3. p \in Panes /\ (pin.pane # None => p = pin.pane)
    BY <1>2 DEF Pane, TypeOK
  <1> HIDE DEF p
  <1>4. /\ o.oldest \in Nat /\ o.end \in Nat /\ o.generation \in Nat /\ o.eof \in BOOLEAN
        /\ o.oldest <= o.end /\ server \in Nat
    <2>1. o \in AnyOutput /\ o.oldest <= o.end /\ server \in Nat
      BY <1>3 DEF TypeOK, TailsEnd
    <2> QED BY <2>1 DEF AnyOutput
  <1> HIDE DEF o
  <1>5. from \in Int /\ (pin.pane # None => from = pin.next)
    BY <1>2, <1>4
  <1> HIDE DEF from
  <1>6. start \in Int /\ start >= from /\ (from <= o.end => start <= o.end)
    <2>1. start = IF from >= o.oldest THEN from ELSE o.oldest
      BY <1>4, <1>5, MaxOfTwo
    <2> QED BY <1>4, <1>5, <2>1
  <1> HIDE DEF start
  <1>7. r = [ok |-> from <= o.end, pane |-> p, server |-> server, generation |-> o.generation,
             start |-> start, next |-> o.end, dropped |-> start - from, complete |-> o.eof,
             size |-> IF from <= o.end THEN 1 + o.end - start ELSE 1]
    BY DEF Chunk, start, from, o
  <1> HIDE DEF r
  <1>8. r \in AnyChunk
    <2>1. (IF from <= o.end THEN 1 + o.end - start ELSE 1) \in Nat \ {0}
      BY <1>4, <1>5, <1>6
    <2>2. start - from \in Int
      BY <1>5, <1>6
    <2> QED BY <1>3, <1>4, <1>6, <1>7, <2>1, <2>2 DEF AnyChunk
  <1>9. r.complete => IsTheEnd(r.pane, r.server, r.generation, r.next)
    BY <1>4, <1>7 DEF IsTheEnd, o
  <1>10. r.ok => r.start <= r.next
    BY <1>6, <1>7
  <1>11. pin.pane # None => r.pane = pin.pane /\ r.start - r.dropped = pin.next
    <2>1. r.pane = p /\ r.start = start /\ r.dropped = start - from
      BY <1>7
    <2>2. start - (start - from) = from
      BY <1>5, <1>6
    <2> QED BY <1>3, <1>5, <2>1, <2>2
  <1>12. AnswerTrue(d, r)
    BY <1>1, <1>8, <1>9, <1>10, <1>11 DEF AnswerTrue, pin
  <1> QED BY <1>8, <1>12 DEF AnyAnswer, r, p, pin

\* What fits of an answer is written, to the client that is served.
LEMMA WritesKeep ==
    ASSUME Parameters, IInv, NEW c, NEW b \in Nat, NEW r \in AnyAnswer,
           NEW offset \in Nat, NEW got \in Nat,
           turn.left # << >>, c = Head(turn.left),
           Writes(c, r, offset, got), Passes(b),
           applied' \in [Callers -> Nat],
           \A d \in Callers : \/ applied'[d] = applied[d]
                              \/ d = c /\ applied[d] = 0 /\ applied'[d] = 1,
           c \in Callers /\ r.ok => applied'[c] = 1,
           c \in Followers => AnswerTrue(c, r),
           b + r.size <= turn.budget + Served(c).reply.size,
           UNCHANGED <<server, active, output, backlog, written>>
    PROVE  IInv'
  <1> USE DEF IInv
  <1> DEFINE k == Place(c)
  <1>1. /\ c \in Clients /\ k \in 1..Len(clients) /\ clients[k].id = c
        /\ command[c].reply = NoReply
    BY TheServed
  <1>2. clients \in Seq(AnyClient) /\ DOMAIN clients = 1..Len(clients)
        /\ clients[k].reply.size \in Nat /\ Served(c) = clients[k]
    BY <1>1, SizesAreNumbers DEF TypeOK, Served
  <1>3. turn' = [left |-> Tail(turn.left), budget |-> b] /\ turn.budget \in Nat
    BY DEF Passes, TypeOK
  <1>4. r.size \in Nat /\ r.size >= 1 /\ r # NoReply
    BY AnAnswer
  <1>5. b <= turn.budget + clients[k].reply.size
        /\ b + r.size <= turn.budget + clients[k].reply.size
    BY <1>2, <1>3, <1>4, SMTT(60)
  <1>6. command \in [Clients -> AnyCommand]
    BY DEF TypeOK
  <1> HIDE DEF k
  <1>7. ASSUME command'[c].pin = command[c].pin PROVE AnswerTrue(c, r)'
    <2>1. CASE c \in Callers
      <3>1. c \notin Followers
        BY <2>1 DEF Parameters
      <3> QED BY <2>1, <3>1 DEF AnswerTrue
    <2>2. CASE c \notin Callers
      <3>1. c \in Followers
        BY <1>1, <2>2 DEF Clients
      <3> QED BY <1>1, <1>7, <2>2, <3>1, AnswersStay
    <2> QED BY <2>1, <2>2
  <1>8. CASE Closed(c)
    <2>1. clients' = RemoveAt(clients, k) /\ command' = command
      BY <1>8 DEF Writes, Drops, k
    <2>2. ServesOne(c, k, b, NoReply)
      BY <1>1, <1>3, <1>6, <2>1 DEF ServesOne
    <2> QED BY <1>5, <2>1, <2>2, LeavingKeeps
  <1>9. CASE ~Closed(c)
    <2>1. PICK n \in 0..r.size - offset :
             LET told == offset + n = r.size IN
             /\ command' = [command EXCEPT ![c].arrived = @ + n,
                                           ![c].reply = IF told THEN r ELSE @]
             /\ IF told THEN Drops(c)
                ELSE Keeps(c, [id |-> c, got |-> got, reply |-> r, offset |-> offset + n])
      BY <1>9 DEF Writes
    <2> DEFINE told == offset + n = r.size
               z == IF told THEN r ELSE NoReply
    <2>2. n \in Nat /\ offset + n \in Nat /\ command[c].arrived + n \in Nat
      <3>1. n \in Nat
        BY <1>4
      <3>2. command[c].arrived \in Nat /\ offset \in Nat
        BY <1>1, <1>6 DEF AnyCommand
      <3>3. \A u, v \in Nat : u + v \in Nat
        OBVIOUS
      <3> QED BY <3>1, <3>2, <3>3
    <2>3. /\ command' \in [Clients -> AnyCommand]
          /\ \A d \in Clients : /\ d # c => command'[d] = command[d]
                                /\ command'[d].pc = command[d].pc
                                /\ command'[d].pin = command[d].pin
          /\ command'[c].reply = z
      <3> DEFINE new == [command[c] EXCEPT !.arrived = @ + n,
                                           !.reply = IF told THEN r ELSE @]
      <3>1. command' = [command EXCEPT ![c] = new]
        BY <1>1, <1>6, <2>1
      <3>2. command[c] \in AnyCommand /\ z \in {NoReply} \cup AnyAnswer
        BY <1>1, <1>6
      <3>3. /\ new \in AnyCommand /\ new.reply = z
            /\ new.pc = command[c].pc /\ new.pin = command[c].pin
        BY <1>1, <2>2, <3>2 DEF AnyCommand
      <3> HIDE DEF new, z
      <3> QED BY <1>1, <1>6, <3>1, <3>3
    <2>4. AnswerTrue(c, r)'
      BY <1>1, <1>7, <2>3
    <2>5. ServesOne(c, k, b, z)
      BY <1>1, <1>3, <2>3 DEF ServesOne
    <2>6. CASE told
      <3>1. clients' = RemoveAt(clients, k)
        BY <2>1, <2>6 DEF Drops, k
      <3>2. z = r
        BY <2>6
      <3> HIDE DEF z, told
      <3> QED BY <1>5, <2>4, <2>5, <3>1, <3>2, LeavingKeeps
    <2>7. CASE ~told
      <3> DEFINE y == [id |-> c, got |-> got, reply |-> r, offset |-> offset + n]
      <3>1. clients' = [clients EXCEPT ![k] = y]
        BY <2>1, <2>7 DEF Keeps, k
      <3>2. y \in AnyClient /\ y.id = c /\ y.reply = r
        BY <1>1, <2>2 DEF AnyClient
      <3>3. ServesOne(c, k, b, NoReply)
        BY <2>5, <2>7
      <3> HIDE DEF y, z, told
      <3> QED BY <1>4, <1>5, <2>4, <3>1, <3>2, <3>3, StayingKeeps
    <2> QED BY <2>6, <2>7
  <1> QED BY <1>8, <1>9
LEMMA ServesKeep ==
    ASSUME Parameters, IInv, Serves
    PROVE  IInv'
  <1> USE DEF IInv
  <1>a. PICK c : c = Head(turn.left)
    OBVIOUS
  <1>b. PICK k : k = Place(c)
    OBVIOUS
  <1>c. PICK client : client = Served(c)
    OBVIOUS
  <1>d. PICK budget : budget = turn.budget
    OBVIOUS
  <1> DEFINE pending == command[c].sent - client.got
  <1>0. /\ turn.left # << >>
        /\ UNCHANGED <<server, active, output, backlog, written>>
    BY DEF Serves
  <1>1. /\ c \in Clients /\ k \in 1..Len(clients) /\ clients[k].id = c
        /\ command[c].reply = NoReply
    BY <1>0, <1>a, <1>b, TheServed
  <1>2. /\ client = clients[k] /\ client \in AnyClient /\ client.reply.size \in Nat
        /\ clients \in Seq(AnyClient) /\ DOMAIN clients = 1..Len(clients)
    BY <1>1, <1>b, <1>c, SizesAreNumbers DEF TypeOK, Served
  <1>3. /\ command \in [Clients -> AnyCommand] /\ applied \in [Callers -> Nat]
        /\ budget \in Nat /\ MaxResponse \in Nat
    BY <1>d DEF TypeOK, Parameters
  <1>4. /\ client.id = c /\ client.got \in Nat /\ client.offset \in Nat
        /\ client.reply \in {NoReply} \cup AnyAnswer /\ pending \in Int
    BY <1>1, <1>2, <1>3 DEF AnyClient, AnyCommand
  <1>5. IF client.reply = NoReply THEN c \in Callers => applied[c] = 0
        ELSE AnswerTrue(c, client.reply)
    BY <1>1, <1>2 DEF Answers
  <1>6. Callers \cap Followers = {} /\ NoReply.size = 0
    BY AnAnswer DEF Parameters
  <1>7. ASSUME Passes(budget), UNCHANGED <<command, applied>>
        PROVE  ServesOne(c, k, budget, NoReply)
    BY <1>0, <1>1, <1>3, <1>7, <1>a DEF ServesOne, Passes
  <1>8. ASSUME Passes(budget), UNCHANGED <<command, applied>>, Drops(c)
        PROVE  IInv'
    <2>1. ServesOne(c, k, budget, NoReply)
      BY <1>7, <1>8
    <2>2. clients' = RemoveAt(clients, k)
      BY <1>8, <1>b DEF Drops
    <2>3. budget <= turn.budget + clients[k].reply.size
      BY <1>2, <1>3, <1>d
    <2> QED BY <2>1, <2>2, <2>3, LeavingKeeps
  <1>9. ASSUME Passes(budget), UNCHANGED <<command, applied>>,
               NEW y \in AnyClient, y.id = c, y.reply = client.reply, Keeps(c, y)
        PROVE  IInv'
    <2>1. ServesOne(c, k, budget, NoReply)
      BY <1>7, <1>9
    <2>2. clients' = [clients EXCEPT ![k] = y]
      BY <1>9, <1>b DEF Keeps
    <2>3. budget + y.reply.size <= turn.budget + clients[k].reply.size
      BY <1>2, <1>3, <1>9, <1>d
    <2>4. IF y.reply = NoReply THEN c \in Callers => applied'[c] = 0
          ELSE \E x \in AnyAnswer : x = y.reply /\ AnswerTrue(c, x)'
      <3>0. /\ command' = command /\ applied' = applied
            /\ UNCHANGED <<server, output>>
        BY <1>0, <1>9
      <3>1. \A x \in AnyAnswer : AnswerTrue(c, x) => AnswerTrue(c, x)'
        <4> QED BY <1>1, <3>0, AnswersStay
      <3> QED BY <1>4, <1>5, <1>9, <3>1
    <2> QED BY <1>9, <2>1, <2>2, <2>3, <2>4, StayingKeeps
  <1>10. CASE Drops(c) /\ Passes(budget) /\ UNCHANGED <<command, applied>>
    BY <1>8, <1>10
  <1>11. CASE /\ client.reply # NoReply
              /\ Writes(c, client.reply, client.offset, client.got)
              /\ Passes(budget)
              /\ UNCHANGED applied
    <2>1. client.reply \in AnyAnswer /\ AnswerTrue(c, client.reply)
      BY <1>4, <1>5, <1>11
    <2>2. c \in Callers /\ client.reply.ok => applied'[c] = 1
      BY <1>11, <2>1 DEF AnswerTrue
    <2>3. budget + client.reply.size <= turn.budget + Served(c).reply.size
      BY <1>2, <1>3, <1>c, <1>d
    <2> QED BY <1>0, <1>a, <1>3, <1>4, <1>11, <2>1, <2>2, <2>3, WritesKeep
  <1>12. CASE /\ client.reply = NoReply
              /\ pending = 0
              /\ IF Closed(c) THEN Drops(c) ELSE UNCHANGED clients
              /\ Passes(budget)
              /\ UNCHANGED <<command, applied>>
    <2>1. CASE Closed(c)
      BY <1>8, <1>12, <2>1
    <2>2. CASE ~Closed(c)
      <3>1. clients' = [clients EXCEPT ![k] = client]
        <4>1. clients = [clients EXCEPT ![k] = client]
          <5>1. \A s \in Seq(AnyClient), i \in 1..Len(clients) : s = [s EXCEPT ![i] = s[i]]
            OBVIOUS
          <5> QED BY <1>1, <1>2, <5>1
        <4> QED BY <1>12, <2>2, <4>1
      <3>2. Keeps(c, client)
        BY <1>b, <3>1 DEF Keeps
      <3> QED BY <1>2, <1>4, <1>9, <1>12, <3>2
    <2> QED BY <2>1, <2>2
  <1>13. ASSUME NEW n \in 1..pending, client.reply = NoReply,
                client.got + n # Whole,
                Keeps(c, [client EXCEPT !.got = @ + n]),
                Passes(budget), UNCHANGED <<command, applied>>
         PROVE  IInv'
    <2> DEFINE y == [client EXCEPT !.got = @ + n]
    <2>0. client.got + n \in Nat
      <3>1. n \in Nat
        <4> HIDE DEF pending
        <4> QED BY <1>4, <1>13
      <3> QED BY <1>4, <3>1
    <2>1. y \in AnyClient /\ y.id = c /\ y.reply = client.reply
      BY <1>2, <1>4, <2>0 DEF AnyClient
    <2>2. Keeps(c, y)
      BY <1>13
    <2> HIDE DEF y
    <2> QED BY <1>9, <1>13, <2>1, <2>2
  <1>14. ASSUME client.reply = NoReply, Handles(c)
         PROVE  IInv'
    <2>1. PICK reply \in Replies(c) :
            LET f == IF reply.size <= budget THEN reply ELSE Refusal IN
            /\ Executes(c, reply)
            /\ IF f.size > budget
               THEN Drops(c) /\ Passes(budget) /\ UNCHANGED command
               ELSE Passes(budget - f.size) /\ Writes(c, f, 0, 0)
      BY <1>14, <1>d DEF Handles
    <2> DEFINE fits == IF reply.size <= budget THEN reply ELSE Refusal
    <2>2. reply \in AnyAnswer /\ (c \in Followers => AnswerTrue(c, reply))
      <3>1. CASE reply = Refusal
        BY <3>1, AnAnswer DEF AnswerTrue
      <3>2. CASE c \in Callers /\ reply \in [ok : {TRUE}, size : {1, MaxResponse}]
        BY <1>6, <3>2 DEF AnyAnswer
      <3>3. CASE c \notin Callers /\ reply = Chunk(Pane(command[c].pin), command[c].pin.next)
        <4>1. c \in Followers
          BY <1>1, <3>3 DEF Clients
        <4> QED BY <3>3, <4>1, ChunkIsTrue
      <3> QED BY <3>1, <3>2, <3>3 DEF Replies
    <2>3. /\ applied' \in [Callers -> Nat]
          /\ \A d \in Callers : \/ applied'[d] = applied[d]
                                \/ d = c /\ applied[d] = 0 /\ applied'[d] = 1
          /\ c \in Callers /\ reply.ok => applied'[c] = 1
      <3>1. c \in Callers => applied[c] = 0
        BY <1>5, <1>14
      <3>2. applied' = IF c \in Callers /\ reply.ok THEN [applied EXCEPT ![c] = @ + 1] ELSE applied
        BY <2>1 DEF Executes
      <3>3. CASE c \in Callers /\ reply.ok
        BY <1>3, <3>1, <3>2, <3>3
      <3>4. CASE ~(c \in Callers /\ reply.ok)
        BY <1>3, <3>2, <3>4
      <3> QED BY <3>3, <3>4
    <2>4. /\ fits \in AnyAnswer /\ (c \in Followers => AnswerTrue(c, fits))
          /\ (fits.ok => reply.ok) /\ fits.size \in Nat
      BY <2>2, AnAnswer DEF AnswerTrue
    <2>5. CASE fits.size > budget
      <3>1. ServesOne(c, k, budget, NoReply)
        BY <1>0, <1>a, <1>1, <1>3, <2>1, <2>3, <2>5 DEF ServesOne, Passes
      <3>2. clients' = RemoveAt(clients, k)
        BY <1>b, <2>1, <2>5 DEF Drops
      <3>3. budget <= turn.budget + clients[k].reply.size
        BY <1>2, <1>3, <1>d
      <3> QED BY <3>1, <3>2, <3>3, LeavingKeeps
    <2>6. CASE ~(fits.size > budget)
      <3>1. Passes(budget - fits.size) /\ Writes(c, fits, 0, 0)
        BY <2>1, <2>6
      <3>2. /\ budget - fits.size \in Nat
            /\ (budget - fits.size) + fits.size <= turn.budget + Served(c).reply.size
        BY <1>2, <1>3, <1>c, <1>d, <2>4, <2>6
      <3>3. c \in Callers /\ fits.ok => applied'[c] = 1
        BY <2>3, <2>4
      <3> HIDE DEF fits
      <3> QED BY <1>0, <1>a, <2>3, <2>4, <3>1, <3>2, <3>3, WritesKeep
    <2> QED BY <2>5, <2>6
  <1>15. \/ Drops(c) /\ Passes(budget) /\ UNCHANGED <<command, applied>>
         \/ /\ client.reply # NoReply
            /\ Writes(c, client.reply, client.offset, client.got)
            /\ Passes(budget)
            /\ UNCHANGED applied
         \/ /\ client.reply = NoReply
            /\ pending = 0
            /\ IF Closed(c) THEN Drops(c) ELSE UNCHANGED clients
            /\ Passes(budget)
            /\ UNCHANGED <<command, applied>>
         \/ \E n \in 1..pending :
              /\ client.reply = NoReply
              /\ IF client.got + n = Whole
                 THEN Handles(c)
                 ELSE /\ Keeps(c, [client EXCEPT !.got = @ + n])
                      /\ Passes(budget)
                      /\ UNCHANGED <<command, applied>>
    BY <1>a, <1>c, <1>d DEF Serves
  <1>16. CASE \E n \in 1..pending :
              /\ client.reply = NoReply
              /\ IF client.got + n = Whole
                 THEN Handles(c)
                 ELSE /\ Keeps(c, [client EXCEPT !.got = @ + n])
                      /\ Passes(budget)
                      /\ UNCHANGED <<command, applied>>
    <2> HIDE DEF pending
    <2> QED BY <1>13, <1>14, <1>16
  <1> HIDE DEF pending
  <1> QED BY <1>10, <1>11, <1>12, <1>15, <1>16

-----------------------------------------------------------------------------
(* What holds of the service, its commands and their followers.            *)

LEMMA StepsKeep ==
    ASSUME Parameters, IInv, [Next]_vars
    PROVE  IInv'
  <1>1. CASE Prints \/ EndsOutput \/ Respawns \/ Focuses
    BY <1>1, PanesKeep
  <1>2. CASE Accepts
    BY <1>2, AcceptsKeep
  <1>3. CASE Serves
    BY <1>3, ServesKeep
  <1>4. CASE EndsTick
    BY <1>4, EndsTickKeeps
  <1>5. CASE Restarts
    BY <1>5, RestartsKeep
  <1>6. ASSUME NEW c \in Clients,
               Connects(c) \/ Sends(c) \/ Fails(c) \/ IsTold(c) \/ Follows(c)
        PROVE  IInv'
    BY <1>6, ConnectsKeep, CallersKeep, FollowsKeep
  <1>7. CASE UNCHANGED vars
    <2> USE <1>7 DEF vars, IInv
    <2>1. TypeOK' /\ TailsEnd' /\ Placed' /\ Turns'
      BY DEF TypeOK, TailsEnd, Placed, Turns
    <2>2. Answers'
      BY DEF Answers, AnswerTrue, IsTheEnd
    <2>3. Followed'
      BY DEF Followed, IsTheEnd
    <2>4. Budgeted'
      BY DEF Budgeted, Waiting
    <2> QED BY <2>1, <2>2, <2>3, <2>4
  <1> QED BY <1>1, <1>2, <1>3, <1>4, <1>5, <1>6, <1>7 DEF Next

\* What the four properties say, from the invariant.
LEMMA Promises ==
    ASSUME Parameters, IInv
    PROVE  StreamIsWhole /\ EndIsReached /\ RunsOnce /\ RepliesFit
  <1> USE DEF IInv
  <1>1. ASSUME NEW c \in Followers, NEW i \in 1..Len(written[c]) - 1
        PROVE  written[c][i + 1] = [written[c][i] EXCEPT !.at = @ + 1]
    <2> DEFINE pin == command[c].pin
               N == Len(written[c])
    <2>1. written[c] \in Seq(AnyByte) /\ c \in Clients
      BY DEF TypeOK, Clients
    <2>2. N \in Nat /\ i \in 1..N /\ i + 1 \in 1..N
      BY <2>1
    <2>3. pin.pane # None
      <3>1. written[c] # << >>
        BY <2>1, <2>2
      <3> QED BY <3>1 DEF Followed
    <2>4. pin.next \in Int
      <3>1. command[c].pin \in AnyPin
        BY <2>1 DEF TypeOK, AnyCommand
      <3> QED BY <3>1 DEF AnyPin, Unpinned
    <2>5. \A j \in 1..N :
             written[c][j] = [server |-> pin.server, pane |-> pin.pane,
                              generation |-> pin.generation, at |-> pin.next - N + j - 1]
      BY <2>3 DEF Followed
    <2> HIDE DEF pin, N
    <2>6. pin.next - N + (i + 1) - 1 = (pin.next - N + i - 1) + 1
      BY <2>2, <2>4
    <2>7. /\ written[c][i] = [server |-> pin.server, pane |-> pin.pane,
                              generation |-> pin.generation, at |-> pin.next - N + i - 1]
          /\ written[c][i + 1] = [server |-> pin.server, pane |-> pin.pane,
                                  generation |-> pin.generation,
                                  at |-> (pin.next - N + i - 1) + 1]
      <3>1. written[c][i + 1] = [server |-> pin.server, pane |-> pin.pane,
                                 generation |-> pin.generation,
                                 at |-> pin.next - N + (i + 1) - 1]
        BY <2>2, <2>5
      <3> QED BY <2>2, <2>5, <2>6, <3>1
    <2> QED BY <2>7
  <1>2. ASSUME NEW c \in Followers,
               command[c].pc = "ok", command[c].pin.server = server,
               command[c].pin.generation = output[command[c].pin.pane].generation
        PROVE  /\ output[command[c].pin.pane].eof
               /\ command[c].pin.next = output[command[c].pin.pane].end
    BY <1>2 DEF Followed, IsTheEnd
  <1>3. RunsOnce
    BY DEF RunsOnce, Answers
  <1>4. RepliesFit
    <2>1. turn.budget \in Nat /\ Waiting \in Nat /\ MaxResponse \in Nat
      BY SizesAreNumbers DEF TypeOK, Parameters
    <2> QED BY <2>1 DEF Budgeted, RepliesFit
  <1> QED BY <1>1, <1>2, <1>3, <1>4 DEF StreamIsWhole, EndIsReached

\* The invariant: where a request is, what its answer says, and what the answers need.
THEOREM Invariance == ASSUME Parameters PROVE Spec => []IInv
  <1>1. Init => IInv
    BY Starts
  <1>2. IInv /\ [Next]_vars => IInv'
    BY StepsKeep
  <1> QED BY <1>1, <1>2, PTL DEF Spec

\* The service, its clients and their followers keep the types they are given.
THEOREM TypeCorrect == ASSUME Parameters PROVE Spec => []TypeOK
  <1>1. IInv => TypeOK
    BY DEF IInv
  <1> QED BY <1>1, Invariance, PTL

\* Whatever restarts, respawns, losses and changes of focus there are, a follower writes
\* one gapless run of the output of one process, and ends well at its end only.
THEOREM FollowersAreWhole ==
    ASSUME Parameters PROVE Spec => [](StreamIsWhole /\ EndIsReached)
  <1>1. IInv => StreamIsWhole /\ EndIsReached
    BY Promises
  <1> QED BY <1>1, Invariance, PTL

\* A request is executed once at most, and once when its command says so; the answers
\* that wait for slow readers fit the limit together.
THEOREM CallersAreServed ==
    ASSUME Parameters PROVE Spec => [](RunsOnce /\ RepliesFit)
  <1>1. IInv => RunsOnce /\ RepliesFit
    BY Promises
  <1> QED BY <1>1, Invariance, PTL

=============================================================================
