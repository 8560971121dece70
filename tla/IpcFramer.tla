------------------------------ MODULE IpcFramer ------------------------------
(***************************************************************************)
(* The framer that finds the clipboard, file and drag controls in a stream   *)
(* of bytes (terminal_ipc.rs): as functions of a framer and a byte.          *)
(*                                                                         *)
(* A byte is a symbol.  The numbers that tell the protocols apart are cut to *)
(* the bytes that differ: clipboard is ESC ] 5 2, file ESC ] 5 1, drag       *)
(* ESC ] 7; "200" and "201" stand for those digits of the paste marks, and   *)
(* "raw" for a byte no packet may contain.                                   *)
(***************************************************************************)
EXTENDS Integers, Sequences, SequencesExt

CONSTANT MaxPacket      \* bytes a packet may have (bound)

Nobody == "nobody"

Prefix(protocol) ==
    CASE protocol = "clipboard" -> <<"esc", "]", "5", "2">>
      [] protocol = "file" -> <<"esc", "]", "5", "1">>
      [] protocol = "drag" -> <<"esc", "]", "7">>

\* One framer of the host captures every protocol, the one of an observer its own.
Framer(own, host) ==
    [state |-> "ground", bytes |-> << >>, protocol |-> Nobody, escape |-> FALSE,
     valid |-> FALSE, osc |-> FALSE, paste |-> FALSE, since |-> FALSE,
     canceled |-> Nobody, own |-> own, host |-> host]

HostFramer == Framer("clipboard", TRUE)
ObserverFramer(own) == Framer(own, FALSE)

Aborts == {"can"}                       \* CAN and SUB
Finals == {"~", "A", "[", "]", "\\", "P", "a", "b"}
Strings == {"]", "P"}                   \* what starts a control string

\* What one byte makes of a framer, what it lets through, and the packet that
\* it ends, whole or not.
Result(f, pass) == [framer |-> f, pass |-> pass, packet |-> << >>, bad |-> FALSE]
Goes(f, state) == [f EXCEPT !.state = state, !.bytes = << >>, !.escape = FALSE]
Holds(f, state, bytes) == [f EXCEPT !.state = state, !.bytes = bytes]

Ground(f, byte) ==
    IF byte = "esc" THEN Result([Goes(f, "escape") EXCEPT !.since = TRUE], << >>)
    ELSE Result(f, <<byte>>)

Escape(f, byte) ==
    IF byte = "]" /\ ~f.paste THEN Result(Holds(f, "prefix", <<"esc", "]">>), << >>)
    ELSE IF byte = "[" THEN Result(Goes(f, "csi"), <<"esc", "[">>)
    ELSE IF byte \in Strings /\ ~f.paste
         THEN Result([Goes(f, "other") EXCEPT !.osc = (byte = "]")], <<"esc", byte>>)
    ELSE IF byte = "esc" THEN Result(f, <<"esc">>)
    ELSE Result(Goes(f, "ground"), <<"esc", byte>>)

\* The protocol whose prefix these bytes start, of those this framer captures.
Begun(f, bytes) ==
    LET those == {p \in {f.own} \cup (IF f.host THEN {"file", "drag"} ELSE {}) :
                    IsPrefix(bytes, Prefix(p))} IN
    IF those = {} THEN Nobody
    ELSE IF f.own \in those THEN f.own ELSE CHOOSE p \in those : TRUE

InPrefix(f, byte) ==
    LET bytes == Append(f.bytes, byte)
        protocol == Begun(f, bytes) IN
    IF protocol # Nobody /\ bytes = Prefix(protocol)
    THEN Result([Goes(f, "packet") EXCEPT !.protocol = protocol,
                                          !.valid = (f.canceled # protocol)], << >>)
    ELSE IF protocol # Nobody THEN Result(Holds(f, "prefix", bytes), << >>)
    ELSE IF byte \in Aborts \cup {"bel"} THEN Result(Goes(f, "ground"), bytes)
    ELSE Result([Goes(f, "other") EXCEPT !.osc = TRUE, !.escape = (byte = "esc")], bytes)

Csi(f, byte) ==
    IF byte \in Finals
    THEN Result([Goes(f, "ground") EXCEPT
                    !.paste = IF byte # "~" THEN @
                              ELSE IF f.bytes = <<"200">> THEN TRUE
                              ELSE IF f.bytes = <<"201">> THEN FALSE ELSE @], <<byte>>)
    ELSE IF byte \in Aborts THEN Result(Goes(f, "ground"), <<byte>>)
    ELSE IF byte = "esc" THEN Result(Goes(f, "escape"), <<byte>>)
    ELSE Result(Holds(f, "csi", IF Len(f.bytes) < 2 THEN Append(f.bytes, byte) ELSE f.bytes),
                <<byte>>)

Other(f, byte) ==
    IF byte \in Aborts \/ (f.osc /\ byte = "bel") \/ (f.escape /\ byte = "\\")
    THEN Result(Goes(f, "ground"), <<byte>>)
    ELSE Result([f EXCEPT !.escape = (byte = "esc")], <<byte>>)

Printable(byte) == byte \notin {"esc", "bel", "can", "raw"}

\* A packet: its bytes are kept only while they are valid and fit.
Packet(f, byte) ==
    LET ends == [Goes(f, "ground") EXCEPT !.protocol = Nobody, !.valid = FALSE]
        whole == [Result(ends, << >>) EXCEPT !.packet = <<[protocol |-> f.protocol,
                                                           body |-> f.bytes]>>]
        broken == [Result([ends EXCEPT !.protocol = Nobody], << >>) EXCEPT !.bad = TRUE]
        keeps == f.valid /\ (byte = "esc" \/ (Printable(byte) /\ Len(f.bytes) < MaxPacket))
                 /\ ~f.escape IN
    IF byte = "bel" /\ f.host /\ f.valid /\ ~f.escape THEN whole
    ELSE IF byte \in Aborts \cup {"bel"} THEN broken
    ELSE IF f.escape /\ byte = "\\" THEN IF f.valid THEN whole ELSE broken
    ELSE Result([f EXCEPT !.valid = keeps, !.escape = (byte = "esc"),
                          !.bytes = IF ~keeps THEN << >>
                                    ELSE IF byte = "esc" THEN @ ELSE Append(@, byte)], << >>)

Step(f, byte) ==
    CASE f.state = "ground" -> Ground(f, byte)
      [] f.state = "escape" -> Escape(f, byte)
      [] f.state = "prefix" -> InPrefix(f, byte)
      [] f.state = "csi" -> Csi(f, byte)
      [] f.state = "other" -> Other(f, byte)
      [] f.state = "packet" -> Packet(f, byte)

\* Only an Escape and a prefix are held for a time, and can be cancelled.
Settled(f) ==
    IF f.state \in {"escape", "prefix"} THEN f
    ELSE [f EXCEPT !.since = FALSE, !.canceled = Nobody]

Advance(f, byte) == LET r == Step(f, byte) IN [r EXCEPT !.framer = Settled(@)]

\* 50 ms later the bytes that are held are let through.
ExpirePrefix(f) ==
    IF ~f.since THEN Result(f, << >>)
    ELSE LET next == CASE f.state = "escape" -> Goes(f, "ground")
                       [] f.state = "prefix" -> [Goes(f, "other") EXCEPT !.osc = TRUE]
                       [] OTHER -> f IN
         Result([next EXCEPT !.since = FALSE, !.canceled = Nobody],
                CASE f.state = "escape" -> <<"esc">>
                  [] f.state = "prefix" -> f.bytes
                  [] OTHER -> << >>)

\* A policy change: what there is of a packet of the own protocol is void.
CancelPacket(f) ==
    LET held == IF f.state \in {"escape", "prefix"} THEN [f EXCEPT !.canceled = f.own] ELSE f IN
    IF held.state = "packet" /\ held.protocol = held.own
    THEN [held EXCEPT !.bytes = << >>, !.valid = FALSE] ELSE held

=============================================================================
