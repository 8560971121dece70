------------------------------ MODULE Attachment ------------------------------
(***************************************************************************)
(* One attachment after another: the client's bridge (session/client.rs),    *)
(* the handshake (session/handshake.rs), the server's end of the socket      *)
(* (session/frontend.rs) and the part of the event loop that feeds and ends  *)
(* it (terminal.rs: forward, serve_inner, wait_for_client).                  *)
(*                                                                         *)
(* A connection has a queue of frames in each direction.  A frame of output  *)
(* or input is a number and takes the server one write or two; a socket      *)
(* holds at most Wire frames, so a side that does not read makes the other   *)
(* one wait.  The three terminal frames are small and always fit.            *)
(***************************************************************************)
EXTENDS Integers, Sequences, FiniteSets

CONSTANTS
    Wire,           \* frames a socket holds in one direction
    FrontLimit,     \* MAX_FRAME_BYTES: input kept beside the server's loop
    InputLimit,     \* LIMIT: input staged in the loop
    ChildLimit,     \* LIMIT: input queued for the child
    MaxTyped, MaxRendered, MaxRenames, MaxClients     \* bounds

Conns == 1..MaxClients
None == 0

VARIABLES
    client,         \* the client process: its connection and its queues
    server,         \* the server: the peer it serves and the loop's queues
    c2s, s2c,       \* connection -> the frames under way
    open,           \* the connections whose client end is open
    left,           \* connection -> how the server's end was closed
    rendered, sent, \* connection -> output made for it, input sent by it
    name,           \* how often the session was renamed
    queue, read     \* the child's input: queued, and read so far

vars == <<client, server, c2s, s2c, open, left, rendered, sent, name, queue, read>>

Frame(kind, n) == [kind |-> kind, n |-> n]
Input(c, n) == [conn |-> c, n |-> n]
Final == {"exit", "detach", "manager"}

NewClient(c) ==
    [conn |-> c, state |-> "greeting", outbound |-> << >>, typed |-> 0,
     toTerminal |-> << >>, shown |-> << >>, asked |-> "none",
     control |-> Frame("none", 0), result |-> "none", name |-> 0]

Idle == [state |-> "waiting", peer |-> None, phase |-> "decide",
         front |-> << >>, ended |-> "attached", connection |-> "attached",
         detach |-> FALSE, asked |-> FALSE, manager |-> FALSE,
         toTerminal |-> << >>, partial |-> "none", queued |-> -1,
         notice |-> FALSE, known |-> 0, input |-> << >>]
NewPeer(c) == [Idle EXCEPT !.state = "attached", !.peer = c, !.known = name]

\* The first client has connected; some say something else than Hello.
Init ==
    /\ name = 0
    /\ client = NewClient(1)
    /\ server = Idle
    /\ \E hello \in {"hello", "junk"} :
          c2s = [c \in Conns |-> IF c = 1 THEN <<Frame(hello, 0)>> ELSE << >>]
    /\ s2c = [c \in Conns |-> << >>]
    /\ open = {1}
    /\ left = [c \in Conns |-> "no"]
    /\ rendered = [c \in Conns |-> 0]
    /\ sent = [c \in Conns |-> 0]
    /\ queue = << >>
    /\ read = << >>

Served(c) == left[c] = "no"
Room(wire, c) == Len(wire[c]) < Wire

-----------------------------------------------------------------------------
(* The client. *)

ServerUnchanged == UNCHANGED <<server, left, rendered, name, queue, read>>
ClientUnchanged == UNCHANGED sent /\ ServerUnchanged

Ends(result) ==
    /\ client' = [client EXCEPT !.state = "ended", !.result = result]
    /\ open' = open \ {client.conn}

ClientStarts == \E hello \in {"hello", "junk"} :
    /\ client.state = "ended"
    /\ client.conn < MaxClients
    /\ server.state # "ended"
    /\ client' = NewClient(client.conn + 1)
    /\ open' = open \cup {client.conn + 1}
    /\ c2s' = [c2s EXCEPT ![client.conn + 1] = <<Frame(hello, 0)>>]
    /\ UNCHANGED s2c
    /\ ClientUnchanged

\* client_with_size: the first frame from the server decides.
Greeted ==
    LET c == client.conn IN
    /\ client.state = "greeting"
    /\ \/ /\ s2c[c] # << >>
          /\ s2c' = [s2c EXCEPT ![c] = Tail(@)]
          /\ IF Head(s2c[c]).kind = "attached"
             THEN /\ client' = [client EXCEPT !.state = "attached",
                                   !.name = Head(s2c[c]).n]
                  /\ UNCHANGED open
             ELSE Ends("refused")
       \/ /\ s2c[c] = << >>
          /\ ~Served(c)
          /\ Ends("refused")
          /\ UNCHANGED s2c
    /\ UNCHANGED c2s
    /\ ClientUnchanged

\* The terminal is read only while nothing waits to be sent.
Reads == /\ client.state = "attached"
         /\ client.control.kind = "none"
         /\ client.asked = "none"
         /\ client.outbound = << >>

Types ==
    /\ Reads
    /\ client.typed < MaxTyped
    /\ client' = [client EXCEPT !.typed = @ + 1,
                                !.outbound = <<Frame("input", client.typed + 1)>>]
    /\ UNCHANGED <<c2s, s2c, open>>
    /\ ClientUnchanged

\* Prefix and d, or prefix and Ctrl-W, perhaps behind other input.
AsksToLeave == \E exit \in {"detach", "manager"}, more \in 0..1 :
    /\ Reads
    /\ client.typed + more <= MaxTyped
    /\ client' = [client EXCEPT
          !.asked = exit,
          !.typed = @ + more,
          !.outbound = [i \in 1..more |-> Frame("input", client.typed + i)]
                           \o <<Frame("detach", 0)>>]
    /\ UNCHANGED <<c2s, s2c, open>>
    /\ ClientUnchanged

ClientSends ==
    LET c == client.conn
        frame == Head(client.outbound) IN
    /\ client.state = "attached"
    /\ client.outbound # << >>
    /\ IF ~Served(c)
       THEN Ends("error") /\ UNCHANGED <<c2s, sent>>
       ELSE /\ Room(c2s, c)
            /\ c2s' = [c2s EXCEPT ![c] = Append(@, frame)]
            /\ client' = [client EXCEPT !.outbound = Tail(@)]
            /\ sent' = [sent EXCEPT ![c] = IF frame.kind = "input" THEN frame.n
                                           ELSE @]
            /\ UNCHANGED open
    /\ UNCHANGED s2c
    /\ ServerUnchanged

\* apply_server_messages.  The socket is read only while the terminal has
\* taken everything.
ClientReceives ==
    LET c == client.conn
        frame == Head(s2c[c]) IN
    /\ client.state = "attached"
    /\ client.control.kind = "none"
    /\ client.toTerminal = << >>
    /\ s2c[c] # << >>
    /\ s2c' = [s2c EXCEPT ![c] = Tail(@)]
    /\ client' = [client EXCEPT
          !.toTerminal = IF frame.kind = "output" THEN <<frame.n>> ELSE @,
          !.name = IF frame.kind = "renamed" THEN frame.n ELSE @,
          !.control = IF frame.kind \in Final THEN frame ELSE @]
    /\ UNCHANGED <<c2s, open>>
    /\ ClientUnchanged

ClientAtEnd ==
    /\ client.state = "attached"
    /\ client.control.kind = "none"
    /\ client.toTerminal = << >>
    /\ s2c[client.conn] = << >>
    /\ ~Served(client.conn)
    /\ Ends(IF client.asked # "none" THEN client.asked ELSE "error")
    /\ UNCHANGED <<c2s, s2c>>
    /\ ClientUnchanged

Shows ==
    /\ client.state = "attached"
    /\ client.toTerminal # << >>
    /\ client' = [client EXCEPT !.shown = Append(@, Head(client.toTerminal)),
                                !.toTerminal = Tail(@)]
    /\ UNCHANGED <<c2s, s2c, open>>
    /\ ClientUnchanged

\* The server's last frame was shown out; what the user asked for has priority.
Released ==
    /\ client.state = "attached"
    /\ client.control.kind # "none"
    /\ client.toTerminal = << >>
    /\ Ends(IF client.control.kind = "exit" \/ client.asked = "none"
            THEN client.control.kind ELSE client.asked)
    /\ UNCHANGED <<c2s, s2c>>
    /\ ClientUnchanged

\* Five seconds after Detach was queued.
GivesUp ==
    /\ client.state = "attached"
    /\ client.asked # "none"
    /\ Ends("late")
    /\ UNCHANGED <<c2s, s2c>>
    /\ ClientUnchanged

\* A signal, a closed terminal window, or a handshake that timed out.
Dies ==
    /\ client.state # "ended"
    /\ Ends("died")
    /\ UNCHANGED <<c2s, s2c>>
    /\ ClientUnchanged

Client == \/ ClientStarts \/ Greeted \/ Types \/ AsksToLeave \/ ClientSends
          \/ ClientReceives \/ ClientAtEnd \/ Shows \/ Released \/ GivesUp \/ Dies

-----------------------------------------------------------------------------
(* The server between clients. *)

Leaves(how) ==
    /\ left' = [left EXCEPT ![server.peer] = how]
    /\ server' = Idle

\* wait_for_client and server_with_keybinds: a bad peer is not an end.
Accepts == \E c \in Conns :
    /\ server.state = "waiting"
    /\ Served(c)
    /\ c2s[c] # << >>
    /\ c2s' = [c2s EXCEPT ![c] = Tail(@)]
    /\ IF c \in open /\ Head(c2s[c]).kind = "hello"
       THEN /\ server' = NewPeer(c)
            /\ s2c' = [s2c EXCEPT ![c] = <<Frame("attached", name)>>]
            /\ UNCHANGED left
       ELSE /\ left' = [left EXCEPT ![c] = "refused"]
            /\ s2c' = [s2c EXCEPT ![c] = <<Frame("rejected", 0)>>]
            /\ UNCHANGED server
    /\ UNCHANGED <<client, open, rendered, sent, name, queue, read>>

\* A rename served by the detached loop; the attached one tells its client.
Renames ==
    /\ name < MaxRenames
    /\ server.state # "ended"
    /\ name' = name + 1
    /\ server' = IF server.state = "attached"
                 THEN [server EXCEPT !.known = name + 1, !.notice = TRUE]
                 ELSE server
    /\ UNCHANGED <<client, c2s, s2c, open, left, rendered, sent, queue, read>>

\* The last pane is gone: the exit status follows the last frame.
ShellEnds ==
    /\ server.state # "ended"
    /\ IF server.state = "waiting" THEN UNCHANGED <<left, s2c>>
       ELSE LET p == server.peer IN
            /\ server.toTerminal = << >>
            /\ left' = [left EXCEPT ![p] = "exit"]
            /\ s2c' = IF p \notin open \/ server.partial # "none" THEN s2c
                      ELSE [s2c EXCEPT ![p] = Append(@, Frame("exit", name))]
    /\ server' = [Idle EXCEPT !.state = "ended"]
    /\ UNCHANGED <<client, c2s, open, rendered, sent, name, queue, read>>

ChildReads ==
    /\ queue # << >>
    /\ read' = Append(read, Head(queue))
    /\ queue' = Tail(queue)
    /\ UNCHANGED <<client, server, c2s, s2c, open, left, rendered, sent, name>>

-----------------------------------------------------------------------------
(* The attached loop: first it decides, then it polls. *)

\* A client that asked to leave still gets what is being sent.
TakeDetach(s) ==
    IF s.connection = "detached"
    THEN [s EXCEPT !.connection = "attached", !.detach = TRUE, !.asked = TRUE]
    ELSE s

\* frontend.drain_input
Drain(s) ==
    LET n == IF Len(s.front) < InputLimit - Len(s.input) THEN Len(s.front)
             ELSE InputLimit - Len(s.input)
    IN  [s EXCEPT !.input = @ \o SubSeq(s.front, 1, n),
                  !.front = SubSeq(@, n + 1, Len(@))]

\* The size of what the child's queue can still take of the staged input.
Fits(s) == IF Len(s.input) < ChildLimit - Len(queue) THEN Len(s.input)
           ELSE ChildLimit - Len(queue)
Delivered(s) == [s EXCEPT !.input = SubSeq(@, Fits(s) + 1, Len(@))]

\* frontend_exit: not before the staged input is gone.
FrontendExits(s) == s.connection = "disconnected" /\ s.input = << >>

\* Mutant: output that was rendered but not sent is dropped.
ReadyToLeaveCutting(s) == ~s.notice /\ s.partial = "none"

\* The order of the last frames: output, the new name, then the terminal one.
ReadyToLeave(s) == s.toTerminal = << >> /\ ~s.notice

\* The last poll sent the notice out; it is not sent again.
WasTold(s) == s.queued = s.known /\ s.partial = "none"

\* send_renamed: the notice is a frame of its own, never inside another one.
Told(s, whole) ==
    IF ~s.notice \/ s.toTerminal # << >> \/ s.partial = "output" THEN s
    ELSE IF WasTold(s) THEN [s EXCEPT !.notice = FALSE]
    ELSE IF s.queued # s.known /\ s.partial # "none" THEN s
    ELSE [s EXCEPT !.queued = s.known, !.notice = ~whole,
                   !.partial = IF whole THEN "none" ELSE "notice"]

\* send_control fails with a frame half sent; a closed peer is a lost one.
\* wire is what was sent to the peer before.
Controls(s, kind, wire) ==
    LET p == s.peer
        gone == p \notin open \/ s.ended = "disconnected"
        fails == s.ended # "disconnected" /\ s.partial # "none"
        how == IF fails THEN "failed"
               ELSE IF s.asked THEN "detached"
               ELSE IF gone THEN "lost" ELSE kind
    IN  /\ s2c' = [s2c EXCEPT ![p] = IF ~gone /\ ~fails
                                     THEN Append(wire, Frame(kind, s.known))
                                     ELSE wire]
        /\ left' = [left EXCEPT ![p] = how]
        /\ server' = IF fails THEN [Idle EXCEPT !.state = "ended"] ELSE Idle

Deciding == server.state = "attached" /\ server.phase = "decide"

\* A new frame is drawn only when the last one was taken whole.
Renders ==
    LET p == server.peer IN
    /\ Deciding
    /\ server.connection = "attached"
    /\ ~server.detach /\ ~server.manager
    /\ server.toTerminal = << >>
    /\ rendered[p] < MaxRendered
    /\ rendered' = [rendered EXCEPT ![p] = @ + 1]
    /\ server' = [server EXCEPT !.toTerminal = <<rendered[p] + 1>>]
    /\ UNCHANGED <<client, c2s, s2c, open, left, sent, name, queue, read>>

\* `session disconnect` of another process, or a click on the footer.
AsksClientToLeave ==
    /\ Deciding
    /\ server.connection = "attached"
    /\ \/ server' = [server EXCEPT !.detach = TRUE]
       \/ server' = [server EXCEPT !.manager = TRUE]
    /\ UNCHANGED <<client, c2s, s2c, open, left, rendered, sent, name, queue, read>>

Decides ==
    LET drained == Drain(TakeDetach(server))
        s == IF drained.connection = "attached" THEN drained
             ELSE [drained EXCEPT !.toTerminal = << >>]
        d == Delivered(s)
        p == server.peer
        tells(t) == d.notice /\ ~t.notice /\ ~WasTold(d)
        wire(t) == IF tells(t) /\ p \in open
                   THEN Append(s2c[p], Frame("renamed", d.known)) ELSE s2c[p]
    IN
    /\ Deciding
    /\ IF FrontendExits(s)
       THEN Leaves("eof") /\ UNCHANGED <<s2c, queue>>
       ELSE /\ queue' = queue \o SubSeq(s.input, 1, Fits(s))
            /\ \E whole \in BOOLEAN :
               LET t == Told(d, whole) IN
               /\ whole => Room(s2c, p) \/ p \notin open
               /\ d.partial # "none" /\ Room(s2c, p) => whole
               /\ IF tells(t) /\ p \notin open
                  THEN Leaves("lost") /\ UNCHANGED s2c
                  ELSE IF t.manager /\ ~t.detach /\ ReadyToLeave(t)
                  THEN Controls(t, "manager", wire(t))
                  ELSE IF t.detach /\ ReadyToLeave(t)
                  THEN Controls(t, "detach", wire(t))
                  ELSE IF FrontendExits(t)
                  THEN Leaves("eof") /\ s2c' = [s2c EXCEPT ![p] = wire(t)]
                  ELSE /\ server' = [t EXCEPT !.phase = "poll"]
                       /\ s2c' = [s2c EXCEPT ![p] = wire(t)]
                       /\ UNCHANGED left
    /\ UNCHANGED <<client, c2s, open, rendered, sent, name, read>>

\* ServerFrontend::receive and apply: the first k frames of the socket.
Received(s, k) ==
    LET p == s.peer
        frames == SubSeq(c2s[p], 1, k)
        inputs == SelectSeq(frames, LAMBDA f : f.kind = "input")
        ended == IF \E i \in 1..k : frames[i].kind = "detach" THEN "detached"
                 ELSE IF k = 0 /\ s.ended = "attached" THEN "disconnected"
                 ELSE s.ended
    IN  Drain([s EXCEPT !.front = @ \o [i \in 1..Len(inputs) |-> Input(p, inputs[i].n)],
                        !.ended = ended, !.connection = ended])

CanReceive(s) == s.ended = "attached" /\ Len(s.front) < FrontLimit

\* A hang-up is reported even when no input is asked for.
Readable(s) ==
    /\ s.connection = "attached"
    /\ \/ s.peer \notin open
       \/ /\ c2s[s.peer] # << >>
          /\ ~s.manager /\ ~s.detach
          /\ Len(s.input) < InputLimit
          /\ CanReceive(s)

\* Outbound::write_to: one write; the source is drained with its whole frame.
Sends(s) ==
    LET p == s.peer IN
    IF p \notin open
    THEN /\ left' = [left EXCEPT ![p] = IF s.asked THEN "detached" ELSE "lost"]
         /\ server' = Idle
         /\ UNCHANGED s2c
    ELSE \E whole \in BOOLEAN :
         LET notice == s.partial = "notice"
             frame == IF notice THEN Frame("renamed", s.queued)
                      ELSE Frame("output", Head(s.toTerminal))
         IN  /\ s.partial # "none" => whole
             /\ s2c' = IF whole THEN [s2c EXCEPT ![p] = Append(@, frame)] ELSE s2c
             /\ server' = [s EXCEPT
                   !.phase = "decide",
                   !.partial = IF whole THEN "none"
                               ELSE IF notice THEN "notice" ELSE "output",
                   !.toTerminal = IF whole /\ ~notice THEN Tail(@) ELSE @]
             /\ UNCHANGED left

Writable(s) ==
    /\ s.connection = "attached"
    /\ s.toTerminal # << >> \/ s.partial = "notice"
    /\ s.peer \notin open \/ Room(s2c, s.peer)

Polls ==
    LET p == server.peer
        counts == IF ~Readable(server) \/ ~CanReceive(server) \/ c2s[p] = << >>
                  THEN {0} ELSE 1..Len(c2s[p])
    IN
    /\ server.state = "attached"
    /\ server.phase = "poll"
    /\ \E k \in counts :
          LET s == IF ~Readable(server) THEN server
                   ELSE IF ~CanReceive(server)
                   THEN [server EXCEPT !.connection = server.ended]
                   ELSE Received(server, k)
          IN  /\ c2s' = [c2s EXCEPT ![p] = SubSeq(@, k + 1, Len(@))]
              /\ IF Writable(s) THEN Sends(s)
                 ELSE /\ server' = [s EXCEPT !.phase = "decide"]
                      /\ UNCHANGED <<s2c, left>>
    /\ UNCHANGED <<client, open, rendered, sent, name, queue, read>>

Server == \/ Accepts \/ Renames \/ ShellEnds \/ Renders \/ AsksClientToLeave
          \/ Decides \/ Polls

Next == Client \/ Server \/ ChildReads

Spec == Init /\ [][Next]_vars

Bridge == \/ Greeted \/ ClientSends \/ ClientReceives \/ ClientAtEnd \/ Shows
          \/ Released
Loop == Decides \/ Polls

\* Both loops run, the child reads, the terminal takes output, time passes.
Fairness ==
    /\ WF_vars(Bridge) /\ WF_vars(GivesUp)
    /\ WF_vars(Accepts) /\ WF_vars(Loop)
    /\ WF_vars(ChildReads)

FairSpec == Spec /\ Fairness

-----------------------------------------------------------------------------
(* Properties. *)

Numbers(seq, c) ==
    LET own == SelectSeq(seq, LAMBDA i : i.conn = c)
    IN  [i \in 1..Len(own) |-> own[i].n]
Upto(n) == [i \in 1..n |-> i]

\* What the terminal shows is what was rendered, in order, and all of it when
\* the server let the client go: no last frame is cut off by Detach.
ShownWhole ==
    /\ client.shown = Upto(Len(client.shown))
    /\ client.result \in {"detach", "manager"} /\ client.control.kind # "none" =>
           Len(client.shown) = rendered[client.conn]

\* A client the server let go knows the name the session has: it returns to
\* it from the session manager.
NameTold ==
    client.state = "ended" /\ client.control.kind \in {"detach", "manager"} =>
        client.name = client.control.n

\* A terminal frame never meets a frame half sent, which would end the server
\* and its panes.
NeverFails == \A c \in Conns : left[c] # "failed"

\* What a client sent before its connection broke reaches the child, once and
\* in order.
HangupKeepsInput == \A c \in Conns :
    LET got == Numbers(read \o queue, c) IN
    /\ got = Upto(Len(got))
    /\ left[c] = "eof" => Len(got) = sent[c]

\* The server of a client that is gone without a word is freed: poll's hang-up is
\* seen even while nothing is read.  One that asked to be let go first is not: see
\* the input that Detach waits for.
HungUp(c) == server.peer = c /\ c \notin open /\ client.asked = "none"
Freed(c) == server.peer # c

\* A client that is asked to leave, or asks to, is let go: neither output, a
\* name notice nor blocked input keeps it.
Leaving(c) == server.peer = c /\ server.detach
Left(c) == server.peer # c \/ c \notin open
=============================================================================
