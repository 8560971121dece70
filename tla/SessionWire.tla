------------------------------ MODULE SessionWire ------------------------------
(***************************************************************************)
(* The wire of an attachment, byte by byte: the frames of                    *)
(* session/protocol.rs, the handshake of session/handshake.rs, and the       *)
(* messages that are handed over with a peer (its decoder and `pending`) to  *)
(* the server's frontend and the client's bridge.  Attachment.tla takes      *)
(* whole messages and goes on from here.                                     *)
(*                                                                         *)
(* A frame is its type, the length of its payload and the payload; lengths   *)
(* and numbers take one byte.  A program that is not this client may         *)
(* connect: it opens with any of Openings and does not wait for the answer.  *)
(* Reads take any number of bytes; either side may end in the middle of a    *)
(* frame.                                                                    *)
(***************************************************************************)
EXTENDS Integers, Sequences, SequencesExt

CONSTANTS
    Openings,       \* what strangers send first: sequences of bytes
    MaxFrame,       \* MAX_FRAME_BYTES
    Chunk,          \* bytes a read takes at most
    MaxMessages     \* bound: messages sent in each direction

Hello == 1
Input == 2
Resize == 3
Detach == 4
Attached == 128
Output == 129
Exit == 130
Rejected == 131
Version == 7

Message(type, payload) == [type |-> type, payload |-> payload]
Encode(m) == <<m.type, Len(m.payload)>> \o m.payload

\* The client sends its version and size, the server the version it accepted.
HelloNow == Message(Hello, <<Version, 9>>)
AttachedNow == Message(Attached, <<Version>>)
Header == 2

\* What a payload must be: decode_client and decode_server.
Lengths == [t \in {Hello, Input, Resize, Detach, Attached, Output, Exit, Rejected} |->
              CASE t = Hello -> {2} [] t \in {Resize, Attached, Exit} -> {1}
                [] t = Detach -> {0} [] OTHER -> 0..MaxFrame]
ValidSize(m) == CASE m.type = Hello -> m.payload[2] # 0
                  [] m.type = Resize -> m.payload[1] # 0
                  [] OTHER -> TRUE
Decodes(m, types) ==
    m.type \in types /\ Len(m.payload) \in Lengths[m.type] /\ ValidSize(m)
FromClient == {Hello, Input, Resize, Detach}
FromServer == {Attached, Output, Exit, Rejected}

\* FrameDecoder: the bytes of a frame that is not whole yet; it keeps no more
\* than one.
Decoder == [bytes |-> << >>, messages |-> << >>, error |-> FALSE]
TakeByte(types, d, byte) ==
    LET bytes == Append(d.bytes, byte)
        m == Message(bytes[1], SubSeq(bytes, Header + 1, Len(bytes))) IN
    IF d.error THEN d
    ELSE IF Len(bytes) < Header THEN [d EXCEPT !.bytes = bytes]
    ELSE IF bytes[Header] > MaxFrame THEN [d EXCEPT !.bytes = << >>, !.error = TRUE]
    ELSE IF Len(bytes) < Header + bytes[Header] THEN [d EXCEPT !.bytes = bytes]
    ELSE IF Decodes(m, types)
         THEN [d EXCEPT !.bytes = << >>, !.messages = Append(@, m)]
    ELSE [d EXCEPT !.bytes = << >>, !.error = TRUE]

Push(types, rest, chunk) ==
    FoldLeft(LAMBDA d, byte : TakeByte(types, d, byte), [Decoder EXCEPT !.bytes = rest], chunk)

VARIABLES
    up, down,           \* the bytes under way to the server, to the client
    upEnds, downEnds,   \* that end is closed
    server, client,     \* [phase, rest, retained, got]: decoder, pending, and
                        \* what was taken of the messages
    upSent, downSent    \* the messages that were sent

vars == <<up, down, upEnds, downEnds, server, client, upSent, downSent>>

Peer(phase) == [phase |-> phase, rest |-> << >>, retained |-> << >>, got |-> << >>]

Init ==
    /\ \/ up = Encode(HelloNow) /\ client = Peer("waits")
       \/ up \in Openings /\ client = Peer("stranger")
    /\ upSent = Push(FromClient, << >>, up).messages
    /\ down = << >> /\ downSent = << >>
    /\ upEnds = FALSE /\ downEnds = FALSE
    /\ server = Peer("waits")

First(wire, n) == SubSeq(wire, 1, n)
Beyond(wire, n) == SubSeq(wire, n + 1, Len(wire))
Has(messages, type) == \E i \in 1..Len(messages) : messages[i].type = type

\* What follows the first message is handed over with the peer.
HandsOver(messages) == Tail(messages)

-----------------------------------------------------------------------------
\* The server's half: read until a message, check it, answer.
Answers(m) == down' = down \o Encode(m) /\ downSent' = Append(downSent, m)
Silent == UNCHANGED <<down, downSent>>
ServerFails(told) ==
    /\ server' = [Peer(IF told THEN "refused" ELSE "failed") EXCEPT !.got = server.got]
    /\ downEnds' = TRUE
    /\ IF told THEN Answers(Message(Rejected, << >>)) ELSE Silent

AcceptsHello(m) == m.type = Hello /\ m.payload[1] = Version

ServerGreets(n) ==
    LET d == Push(FromClient, server.rest, First(up, n)) IN
    /\ server.phase = "waits"
    /\ up' = Beyond(up, n)
    /\ IF d.error THEN ServerFails(FALSE)
       ELSE IF d.messages = << >>
       THEN server' = [server EXCEPT !.rest = d.bytes] /\ UNCHANGED downEnds /\ Silent
       ELSE IF ~AcceptsHello(Head(d.messages)) THEN ServerFails(TRUE)
       ELSE IF Has(Tail(d.messages), Hello) THEN ServerFails(FALSE)
       ELSE /\ server' = [phase |-> "attached", rest |-> d.bytes,
                          retained |-> HandsOver(d.messages), got |-> <<Head(d.messages)>>]
            /\ Answers(AttachedNow)
            /\ UNCHANGED downEnds
    /\ UNCHANGED <<upEnds, client, upSent>>

\* Two seconds without an answer, or the end of the stream.
ServerGivesUp ==
    /\ server.phase = "waits"
    /\ up = << >>
    /\ server' = [server EXCEPT !.phase = "silent"]
    /\ downEnds' = TRUE
    /\ UNCHANGED <<up, down, upEnds, client, upSent, downSent>>

\* ServerFrontend.apply: nothing may follow a Detach, and no second Hello.
Leaves(messages) == IF Has(messages, Detach) THEN "left" ELSE "attached"
Breaks(messages) == Has(messages, Hello) \/ Has(First(messages, Len(messages) - 1), Detach)
Applies(messages, rest) ==
    IF messages # << >> /\ Breaks(messages) THEN ServerFails(FALSE)
    ELSE /\ server' = [phase |-> Leaves(messages), rest |-> rest, retained |-> << >>,
                       got |-> server.got \o messages]
         /\ UNCHANGED downEnds /\ Silent

\* ServerFrontend.receive: what was handed over goes before what is read.
ServerReceives ==
    /\ server.phase = "attached"
    /\ IF server.retained # << >>
       THEN (up # << >> \/ upEnds) /\ Applies(server.retained, server.rest) /\ UNCHANGED up
       ELSE \E n \in 1..Chunk :
              LET d == Push(FromClient, server.rest, First(up, n)) IN
              /\ n <= Len(up)
              /\ up' = Beyond(up, n)
              /\ IF d.error THEN ServerFails(FALSE) ELSE Applies(d.messages, d.bytes)
    /\ UNCHANGED <<upEnds, client, upSent>>

\* A stream that ends, in a frame or not, is a lost connection.
ServerLoses ==
    /\ server.phase = "attached" /\ server.retained = << >>
    /\ up = << >> /\ upEnds
    /\ server' = [server EXCEPT !.phase = "lost"]
    /\ downEnds' = TRUE
    /\ UNCHANGED <<up, down, upEnds, client, upSent, downSent>>

\* It sends output, and the last message ends the attachment; it may end inside one.
ServerSends(m) ==
    /\ server.phase \in {"attached", "left"} /\ ~downEnds
    /\ Len(downSent) < MaxMessages
    /\ Answers(m)
    /\ downEnds' = (m.type = Exit)
    /\ UNCHANGED <<up, upEnds, server, client, upSent>>

ServerDies(m, n) ==
    /\ ~downEnds
    /\ server' = [server EXCEPT !.phase = "dead"]
    /\ down' = IF server.phase = "attached" THEN down \o First(Encode(m), n) ELSE down
    /\ downEnds' = TRUE
    /\ UNCHANGED <<up, upEnds, client, upSent, downSent>>

-----------------------------------------------------------------------------
\* The client's half.
ClientFails ==
    /\ client' = [client EXCEPT !.phase = "failed"]
    /\ upEnds' = TRUE

ClientGreets(n) ==
    LET d == Push(FromServer, client.rest, First(down, n)) IN
    /\ client.phase = "waits"
    /\ down' = Beyond(down, n)
    /\ IF d.error \/ (d.messages # << >> /\ (Head(d.messages) # AttachedNow
                                             \/ Has(Tail(d.messages), Attached)))
       THEN ClientFails
       ELSE /\ client' = IF d.messages = << >> THEN [client EXCEPT !.rest = d.bytes]
                         ELSE [phase |-> "holds", rest |-> d.bytes,
                               retained |-> HandsOver(d.messages), got |-> <<Head(d.messages)>>]
            /\ UNCHANGED upEnds
    /\ UNCHANGED <<up, server, upSent, downSent, downEnds>>

ClientGivesUp ==
    /\ client.phase = "waits"
    /\ down = << >>
    /\ ClientFails
    /\ UNCHANGED <<up, down, server, upSent, downSent, downEnds>>

Ended(messages) == IF Has(messages, Exit) THEN "ended" ELSE "bridges"

\* bridge: before its first wait it takes what came with the answer.
Bridges ==
    /\ client.phase = "holds"
    /\ client' = [client EXCEPT !.phase = Ended(client.retained), !.retained = << >>,
                                !.got = @ \o client.retained]
    /\ upEnds' = (client'.phase = "ended")
    /\ UNCHANGED <<up, down, downEnds, server, upSent, downSent>>

ClientReceives(n) ==
    LET d == Push(FromServer, client.rest, First(down, n))
        messages == client.retained \o d.messages IN
    /\ client.phase = "bridges"
    /\ down' = Beyond(down, n)
    /\ IF d.error THEN ClientFails
       ELSE /\ client' = [phase |-> Ended(messages), rest |-> d.bytes, retained |-> << >>,
                          got |-> client.got \o messages]
            /\ upEnds' = (client'.phase = "ended")
    /\ UNCHANGED <<up, server, upSent, downSent, downEnds>>

ClientLoses ==
    /\ client.phase = "bridges"
    /\ down = << >> /\ downEnds
    /\ ClientFails
    /\ UNCHANGED <<up, down, server, upSent, downSent, downEnds>>

\* It forwards input and sizes; a stranger does without having been answered.
ClientSends(m) ==
    /\ client.phase \in {"bridges", "stranger"} /\ ~upEnds
    /\ Len(upSent) < MaxMessages
    /\ ~Has(upSent, Detach)
    /\ up' = up \o Encode(m)
    /\ upSent' = Append(upSent, m)
    /\ UNCHANGED <<down, upEnds, downEnds, server, client, downSent>>

ClientDies(m, n) ==
    /\ ~upEnds /\ client.phase # "failed"
    /\ client' = [client EXCEPT !.phase = "dead"]
    /\ up' = IF client.phase = "bridges" THEN up \o First(Encode(m), n) ELSE up
    /\ upEnds' = TRUE
    /\ UNCHANGED <<down, downEnds, server, upSent, downSent>>

ClientMessages == {Message(Input, <<1>>), Message(Resize, <<8>>), Message(Detach, << >>)}
ServerMessages == {Message(Output, <<1>>), Message(Exit, <<0>>)}

Next ==
    \/ \E n \in 1..Chunk : n <= Len(up) /\ ServerGreets(n)
    \/ \E n \in 1..Chunk : n <= Len(down) /\ (ClientGreets(n) \/ ClientReceives(n))
    \/ ServerGivesUp \/ ServerReceives \/ ServerLoses
    \/ ClientGivesUp \/ Bridges \/ ClientLoses
    \/ \E m \in ServerMessages : ServerSends(m) \/ \E n \in 0..(Len(Encode(m)) - 1) : ServerDies(m, n)
    \/ \E m \in ClientMessages : ClientSends(m) \/ \E n \in 0..(Len(Encode(m)) - 1) : ClientDies(m, n)

Spec == Init /\ [][Next]_vars
-----------------------------------------------------------------------------
\* What one side has taken, holds and is still to read is what the other sent,
\* each message once and in order, wherever the reads cut the stream and across
\* the handshake; a partial frame at the end is no message.
Ordered(peer, wire, types, sent) ==
    LET d == Push(types, peer.rest, wire) IN
    peer.phase \in {"failed", "silent", "refused", "dead"} \/ d.error
        \/ peer.got \o peer.retained \o d.messages = sent
OrderIsKept ==
    /\ Ordered(server, up, FromClient, upSent)
    /\ client.phase = "stranger" \/ Ordered(client, down, FromServer, downSent)

\* A server is attached to a client of its own version, and a client that is
\* attached, and still waits for its server, has heard everything it was sent
\* before: the end of the session does not stay in its buffer.
PeersAgree ==
    /\ server.phase \in {"attached", "left", "lost"} =>
         upSent[1].type = Hello /\ upSent[1].payload[1] = Version
    /\ client.phase = "bridges" => client.retained = << >> /\ ~Has(client.got, Exit)
=============================================================================
