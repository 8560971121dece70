----------------------------- MODULE HostProbes -----------------------------
(* What a frontend asks of the terminal outside before its first frame, and
   how the answers are kept out of the typing (graphics/capability.rs,
   terminal_colors.rs, and the steps of `forward` in terminal.rs that use
   them).  Four filters stand in a row: the colors, the support of pictures,
   the support of shared memory, and the errors of the pictures drawn.  Each
   holds the beginning of what may be an answer to it, and passes on the rest.

   A byte is [b |-> its value, of |-> who wrote it].  An answer is ESC and one
   byte ("C" colors, "D" device attributes) or ESC, "_" and "G" with the name
   of the picture; the length limits and the UTF-8 bytes are left out. *)
EXTENDS Integers, Sequences, SequencesExt

CONSTANTS Keys,     \* the bytes of the keyboard: "k" a plain key, "E" ESC, "_"
          MaxKeys,  \* bytes the user types
          MaxWire   \* bytes on their way at once

VARIABLES
  queue,     \* to_terminal: the requests that are not yet sent
  asked,     \* sent, and not answered by the terminal outside
  wire,      \* bytes on their way to the server
  colors,    \* color_probe
  pictures,  \* graphics_probe
  shared,    \* shm_probe
  errors,    \* outer_image_replies: the bytes held
  timers,    \* the deadlines that are set
  support,   \* what the server believes: graphics_support, shm_support
  started,   \* shm_probe_started
  typed,     \* what went on as typing
  drawn,     \* a picture is on the screen
  keys,      \* of this run: what the user typed
  told,      \* of this run: the answers the terminal gave
  expired    \* of this run: the probes that were given up

vars == <<queue, asked, wire, colors, pictures, shared, errors, timers, support,
          started, typed, drawn, keys, told, expired>>

Answer(r) ==
  LET by(b) == [b |-> b, of |-> r]
  IN CASE r = "colors" -> <<by("E"), by("C")>>
       [] r \in {"da", "da2"} -> <<by("E"), by("D")>>
       [] OTHER -> <<by("E"), by("_"), by("G")>>

Values(bytes) == [i \in DOMAIN bytes |-> bytes[i].b]

(* inspect: what the bytes held are, for the colors and for the pictures.  The
   filter of errors knows no device attributes. *)
ColorCandidate(held) ==
  CASE Values(held) = <<"E">> -> "incomplete"
    [] Values(held) = <<"E", "C">> -> "reply"
    [] OTHER -> "unrelated"

Candidate(held) ==
  CASE Values(held) \in {<<"E">>, <<"E", "_">>} -> "incomplete"
    [] Values(held) = <<"E", "_", "G">> -> "graphics"
    [] Values(held) = <<"E", "D">> -> "attributes"
    [] OTHER -> "unrelated"

ErrorCandidate(held) == IF Candidate(held) = "attributes" THEN "unrelated" ELSE Candidate(held)

(* Bytes that cannot begin an answer go on one at a time, from the first. *)
Settled(f, byte, Is(_)) ==
  LET all == Append(f.held, byte)
      rest(n) == SubSeq(all, n + 1, Len(all))
      n == CHOOSE m \in 0..Len(all) :
             /\ m = Len(all) \/ Is(rest(m)) # "unrelated"
             /\ \A k \in 0..(m - 1) : Is(rest(k)) = "unrelated"
  IN [f EXCEPT !.held = rest(n), !.out = @ \o SubSeq(all, 1, n)]

Filter == [live |-> TRUE, held |-> <<>>, out |-> <<>>, support |-> "unknown",
           complete |-> FALSE]
Gone == [Filter EXCEPT !.live = FALSE]

(* ColorProbe::advance *)
ColorByte(f, byte) ==
  LET g == Settled(f, byte, ColorCandidate)
  IN IF ColorCandidate(g.held) = "reply" THEN [g EXCEPT !.held = <<>>] ELSE g

\* Mutant: an answer to the query ends the probe, and the barrier behind it is typed.
ProbeByteHasty(f, byte, name) ==
  LET g == Settled(f, byte, Candidate)
  IN CASE f.complete -> [f EXCEPT !.out = Append(@, byte)]
       [] ~f.complete /\ Candidate(g.held) \in {"graphics", "attributes"} ->
            [g EXCEPT !.held = <<>>, !.complete = TRUE,
                      !.support = IF Candidate(g.held) = "graphics" THEN "supported"
                                  ELSE "unsupported"]
       [] OTHER -> g

(* GraphicsCapabilityProbe::advance.  The strict probe takes an error for a
   refusal; the device attributes end it, whoever asked for them. *)
ProbeByte(f, byte, name) ==
  LET g == Settled(f, byte, Candidate)
      mine == g.held # <<>> /\ g.held[Len(g.held)].of \in {name, name \o " refused"}
      refused == name = "shared" /\ g.held[Len(g.held)].of = "shared refused"
  IN CASE f.complete -> [f EXCEPT !.out = Append(@, byte)]
       [] ~f.complete /\ Candidate(g.held) = "graphics" ->
            IF mine /\ g.support = "unknown"
            THEN [g EXCEPT !.held = <<>>,
                           !.support = IF refused THEN "unsupported" ELSE "supported"]
            ELSE [g EXCEPT !.held = <<>>, !.out = @ \o g.held]
       [] ~f.complete /\ Candidate(g.held) = "attributes" ->
            [g EXCEPT !.held = <<>>, !.complete = TRUE,
                      !.support = IF @ = "unknown" THEN "unsupported" ELSE @]
       [] OTHER -> g

(* OuterImageReplies::advance: an error of a picture of this server is taken,
   any other answer goes on. *)
ErrorByte(f, byte) ==
  LET g == Settled(f, byte, ErrorCandidate)
      mine == g.held # <<>> /\ g.held[Len(g.held)].of = "picture"
  IN IF ErrorCandidate(g.held) # "graphics" THEN g
     ELSE IF mine THEN [g EXCEPT !.held = <<>>, !.complete = TRUE]
     ELSE [g EXCEPT !.held = <<>>, !.out = @ \o g.held]

Fresh(f) == [f EXCEPT !.out = <<>>]

(* finish: what was held is typing after all. *)
Released(f) == f.held

Begin ==
  [colors |-> Filter, pictures |-> Filter, shared |-> Gone]

(* The requests are queued before the first turn of the loop. *)
Init ==
  /\ queue = <<"colors", "pictures", "da">> /\ asked = <<>> /\ wire = <<>>
  /\ colors = Begin.colors /\ pictures = Begin.pictures /\ shared = Begin.shared
  /\ errors = Filter /\ timers = {} /\ started = FALSE
  /\ support = [pictures |-> "unknown", shared |-> "unknown"]
  /\ typed = <<>> /\ drawn = FALSE /\ keys = <<>>
  /\ told = {} /\ expired = {}

(* finish_color_probe_at_barrier *)
AtBarrier(p) == ~p.live \/ p.complete

(* The filters in a row, on the bytes of one read. *)
ThroughColors(bytes) == IF colors.live THEN FoldLeft(ColorByte, colors, bytes)
                        ELSE [Gone EXCEPT !.out = bytes]
ThroughProbe(f, bytes, name) ==
  LET step(g, byte) == ProbeByte(g, byte, name)
  IN IF f.live THEN FoldLeft(step, f, bytes) ELSE [f EXCEPT !.out = bytes]
ThroughErrors(bytes) == FoldLeft(ErrorByte, errors, bytes)

(* The server reads what came, and passes it on (the chain behind `receive`). *)
Receive(n) ==
  \E c \in {ThroughColors(SubSeq(wire, 1, n))} :
    \E p \in {ThroughProbe(pictures, c.out, "pictures")} :
      \E s \in {ThroughProbe(shared, p.out, "shared")} :
        LET ends == colors.live /\ AtBarrier(p)
        IN \E e \in {ThroughErrors(s.out \o (IF ends THEN Released(c) ELSE <<>>))} :
             /\ wire' = SubSeq(wire, n + 1, Len(wire))
             /\ colors' = IF ends THEN Gone ELSE Fresh(c)
             /\ pictures' = Fresh(p) /\ shared' = Fresh(s)
             /\ errors' = [Fresh(e) EXCEPT !.complete = FALSE]
             /\ drawn' = (drawn /\ ~e.complete)
             /\ support' = [pictures |-> IF p.support # "unknown" THEN p.support
                                         ELSE support.pictures,
                            shared |-> IF s.support # "unknown" THEN s.support
                                       ELSE support.shared]
             /\ typed' = typed \o e.out
             /\ UNCHANGED <<queue, asked, timers, started, keys, told, expired>>

(* 25 ms (500 ms for the beginning of a graphics answer) have passed. *)
Expire ==
  /\ errors.held # <<>>
  /\ typed' = typed \o errors.held /\ errors' = Filter
  /\ expired' = expired \union {"errors"}
  /\ UNCHANGED <<queue, asked, wire, colors, pictures, shared, timers, support,
                 started, drawn, keys, told>>

(* The query of shared memory is made once pictures are known to be shown, and
   nothing else is asked. *)
StartsShared(p) ==
  /\ support.pictures = "supported" /\ ~started
  /\ ~p.live \/ p.complete

(* The top of a turn: deadlines, then what the probes have come to.  The bytes
   a probe held when it is given up go straight on. *)
Turn(late, made) ==
  LET over(f, name) == f.live /\ name \in late
      p == IF over(pictures, "pictures") THEN Gone ELSE pictures
      s == IF over(shared, "shared") \/ shared.complete THEN Gone ELSE shared
      freed == (IF over(pictures, "pictures") THEN Released(pictures) ELSE <<>>)
               \o (IF over(shared, "shared") THEN Released(shared) ELSE <<>>)
      ends == colors.live /\ AtBarrier(p)
      starts == StartsShared(p)
  IN /\ typed' = typed \o freed \o (IF ends THEN Released(colors) ELSE <<>>)
     /\ colors' = IF ends THEN Gone ELSE colors
     /\ pictures' = p
     /\ started' = (started \/ starts)
     /\ shared' = IF starts /\ made THEN Filter ELSE s
     /\ queue' = IF starts /\ made THEN queue \o <<"shared", "da2">> ELSE queue
     /\ timers' = timers \union {t \in {"pictures"} : queue = <<>>}
                         \union {t \in {"shared"} : shared.live /\ queue = <<>>}
     /\ expired' = expired \union
          {x \in late : /\ x = "pictures" => pictures.live /\ ~pictures.complete
                        /\ x = "shared" => shared.live /\ ~shared.complete}
     /\ UNCHANGED <<asked, wire, errors, support, drawn, keys, told>>

(* A frame with a picture, which the terminal may refuse. *)
Draw ==
  /\ ~colors.live /\ support.pictures = "supported" /\ ~drawn /\ "picture" \notin told
  /\ drawn' = TRUE /\ queue' = Append(queue, "picture")
  /\ UNCHANGED <<asked, wire, colors, pictures, shared, errors, timers, support,
                 started, typed, keys, told, expired>>

(* The frontend takes the queue, and the terminal outside reads it. *)
Send ==
  /\ queue # <<>> /\ queue' = <<>> /\ asked' = asked \o queue
  /\ UNCHANGED <<wire, colors, pictures, shared, errors, timers, support, started,
                 typed, drawn, keys, told, expired>>

(* The terminal answers in order, or knows nothing of the request; a refusal
   of shared memory is an answer, too. *)
Replies(r) == {<<>>, Answer(r)} \union (IF r = "shared" THEN {Answer("shared refused")} ELSE {})

Reply ==
  /\ asked # <<>> /\ asked' = Tail(asked)
  /\ \E a \in Replies(Head(asked)) :
       /\ Len(wire \o a) <= MaxWire
       /\ wire' = wire \o a
       /\ told' = IF a = <<>> THEN told ELSE told \union {a[1].of}
  /\ UNCHANGED <<queue, colors, pictures, shared, errors, timers, support, started,
                 typed, drawn, keys, expired>>

Type(b) ==
  /\ Len(keys) < MaxKeys /\ Len(wire) < MaxWire
  /\ keys' = Append(keys, b) /\ wire' = Append(wire, [b |-> b, of |-> "user"])
  /\ UNCHANGED <<queue, asked, colors, pictures, shared, errors, timers, support,
                 started, typed, drawn, told, expired>>

Next ==
  \/ \E n \in 1..Len(wire) : Receive(n)
  \/ Expire
  \/ \E late \in SUBSET timers, made \in BOOLEAN : Turn(late, made)
  \/ Draw \/ Send \/ Reply
  \/ \E b \in Keys : Type(b)

Spec == Init /\ [][Next]_vars

(* Keys ------------------------------------------------------------------ *)

Pressed(bytes) == Values(SelectSeq(bytes, LAMBDA x : x.of = "user"))

(* Every key typed is in one place, and goes on once.  The bytes that a probe
   held when it is given up overtake those that a later filter still holds, and
   an ESC may change places with that of an answer: the order is promised where
   no probe was given up, the plain keys in any case. *)
InAllPlaces ==
  Pressed(typed) \o Pressed(errors.held) \o Pressed(shared.held) \o Pressed(pictures.held)
    \o Pressed(colors.held) \o Pressed(wire)
Plain(bytes) == SelectSeq(bytes, LAMBDA b : b = "k")

(* The filters lose, repeat and reorder nothing that is typed while the server
   starts. *)
KeysAreKept ==
  /\ expired \subseteq {"errors"} => InAllPlaces = keys
  /\ Plain(InAllPlaces) = Plain(keys)

(* An answer that comes before its probe is given up is not typed into the
   focused program. *)
AnswersAreTaken == expired = {} => \A i \in DOMAIN typed : typed[i].of = "user"

(* Pictures are drawn, and shared memory is used, only where the terminal said
   so; and they are not ruled out while it says so in time. *)
SupportIsTrue ==
  /\ support.pictures = "supported" => "pictures" \in told
  /\ support.shared = "supported" => "shared" \in told
  /\ expired = {} /\ support.pictures = "unsupported" => "pictures" \notin told
  /\ expired = {} /\ support.shared = "unsupported" => "shared" \notin told
=============================================================================
