------------------------------- MODULE HostIpc -------------------------------
(***************************************************************************)
(* The input of the server's terminal on its way through the shared framer   *)
(* (rich_clipboard.rs advance_with_ipc, rich_clipboard/paste.rs, terminal.rs *)
(* filter_rich_clipboard_input): keys go on to the event loop, file and drag *)
(* packets to their routers, and the clipboard packets of a paste are staged *)
(* for the pane that had the focus when the paste began.                     *)
(*                                                                         *)
(* The terminal sends tokens: [bytes, owes], where owes is the packet the    *)
(* token amounts to, if it is one.  The loop reads them a byte at a time,    *)
(* and between two bytes it may go round: time passes, panes end, the focus  *)
(* and the configuration change.                                             *)
(***************************************************************************)
EXTENDS IpcFramer, FiniteSets

CONSTANTS Tokens, Panes, MaxPending     \* bound: the pastes that wait

None == "none"
NoEvent == [owner |-> None, data |-> FALSE]

VARIABLES
    framer, rest,       \* Router.framer; the bytes of the token that are to come
    pass,               \* what the last byte let through
    focus, live, enabled,
    target, aim,        \* Router.paste_target and prefix_target
    event, pending,     \* Router.paste, and the whole pastes that wait
    owes, got, hit,     \* the token's packet, the packets read from it,
                        \* whether a timeout fell into it, or into the
                        \* mark that ended the paste before it
    start, began        \* the target when the control began, and when the packet
                        \* that opened the event did, while these can take it

vars == <<framer, rest, pass, focus, live, enabled, target, aim, event, pending,
          owes, got, hit, start, began>>

Init ==
    /\ framer = HostFramer
    /\ rest = << >> /\ pass = << >>
    /\ focus \in Panes
    /\ live = Panes /\ enabled = TRUE
    /\ target = None /\ aim = None
    /\ event = NoEvent /\ pending = << >>
    /\ owes = << >> /\ got = << >> /\ hit = FALSE
    /\ start = None /\ began = None

CanReceive == Len(pending) < MaxPending

\* The packet of a paste: it opens one, goes on with it, ends it, or voids it.
Opens(for) == IF for = None THEN NoEvent ELSE [owner |-> for, data |-> FALSE]

\* Event.accept: its data, then the end of it; anything else voids it.
Accept(body) ==
    CASE event = NoEvent -> "invalid"
      [] body = <<"data">> -> "more"
      [] body = <<"done">> /\ event.data -> "whole"
      [] OTHER -> "invalid"

PasteResponse(body, for) ==
    IF body = <<"ok">> THEN event' = Opens(for) /\ UNCHANGED pending
    ELSE /\ event' = IF Accept(body) = "more" THEN [event EXCEPT !.data = TRUE] ELSE NoEvent
         /\ pending' = IF Accept(body) = "whole" THEN Append(pending, event.owner) ELSE pending

\* One byte: the target is taken with the ESC that may start a packet.
Aimed(byte) == IF byte = "esc" /\ framer.state \in {"ground", "escape"} THEN target ELSE aim

Reads(byte) ==
    LET r == Advance(framer, byte) IN
    /\ framer' = r.framer
    /\ pass' = r.pass
    /\ aim' = Aimed(byte)
    /\ IF r.packet # << >> /\ r.packet[1].protocol = "clipboard"
       THEN PasteResponse(r.packet[1].body, aim')
       ELSE /\ event' = IF r.bad /\ framer.protocol = "clipboard" THEN NoEvent ELSE event
            /\ UNCHANGED pending
    /\ UNCHANGED <<focus, live, enabled, target>>

\* The target when a control begins.
Beginning(bytes) == IF IsPrefix(<<"esc", "]">>, bytes) THEN target ELSE start

\* The first byte of a token, and the next of it.
Starts ==
    /\ CanReceive
    /\ rest = << >>
    /\ \E token \in Tokens :
         /\ Reads(Head(token.bytes))
         /\ rest' = Tail(token.bytes)
         /\ owes' = token.owes
         /\ start' = Beginning(token.bytes)
    /\ got' = << >>
    /\ hit' = framer.paste
    /\ UNCHANGED began

Continues ==
    /\ CanReceive
    /\ rest # << >>
    /\ Reads(Head(rest))
    /\ rest' = Tail(rest)
    /\ LET packet == Advance(framer, Head(rest)).packet IN
         /\ got' = got \o packet
         /\ began' = IF packet # << >> /\ packet[1].body = <<"ok">> THEN start ELSE began
    /\ start' = Beginning(rest)
    /\ UNCHANGED <<owes, hit>>

\* tick: 50 ms have gone by since the ESC.
Expires ==
    LET r == ExpirePrefix(framer) IN
    /\ framer.since
    /\ framer' = r.framer
    /\ pass' = r.pass
    /\ hit' = (rest # << >>)
    /\ UNCHANGED <<rest, focus, live, enabled, target, aim, event, pending, owes, got,
                   start, began>>

\* The loop goes round: tick_paste, then set_paste_target.
Stays(owner) == enabled' /\ owner \in live'
OrNone(owner, stays) == IF stays THEN owner ELSE None

TickPaste ==
    /\ aim' = OrNone(aim, Stays(aim))
    /\ event' = IF Stays(event.owner) THEN event ELSE NoEvent
    /\ pending' = SelectSeq(pending, Stays)
    /\ target' = OrNone(focus', Stays(focus'))

Rounds ==
    /\ focus' \in Panes
    /\ enabled' \in BOOLEAN
    /\ live' \in {live} \cup {live \ {p} : p \in Panes} \cup {live \cup {p} : p \in Panes}
    /\ TickPaste
    /\ start' = OrNone(start, Stays(start))
    /\ began' = OrNone(began, Stays(began))
    /\ UNCHANGED <<framer, rest, pass, owes, got, hit>>

\* A program turned its paste events off and on again: forget_paste.
Forgets(p) ==
    /\ p \in live
    /\ event' = IF event.owner = p THEN NoEvent ELSE event
    /\ aim' = OrNone(aim, aim # p)
    /\ target' = OrNone(target, target # p)
    /\ pending' = SelectSeq(pending, LAMBDA owner : owner # p)
    /\ start' = OrNone(start, start # p)
    /\ began' = OrNone(began, began # p)
    /\ UNCHANGED <<framer, rest, pass, focus, live, enabled, owes, got, hit>>

\* A paste that does not go on for 30 s is dropped.
Times ==
    /\ event # NoEvent
    /\ event' = NoEvent
    /\ UNCHANGED <<framer, rest, pass, focus, live, enabled, target, aim, pending,
                   owes, got, hit, start, began>>

Drains ==
    /\ pending # << >>
    /\ pending' = Tail(pending)
    /\ UNCHANGED <<framer, rest, pass, focus, live, enabled, target, aim, event,
                   owes, got, hit, start, began>>

Next ==
    \/ Starts \/ Continues \/ Expires \/ Rounds \/ Times \/ Drains
    \/ \E p \in Panes : Forgets(p)

Spec == Init /\ [][Next]_vars
-----------------------------------------------------------------------------
\* The bytes a framer holds back, that may still be typing.
Held(f) == CASE f.state = "escape" -> <<"esc">> [] f.state = "prefix" -> f.bytes [] OTHER -> << >>

\* Whatever is not a packet goes on to the event loop, each byte once and in
\* order: what a byte lets through, and what is held after it, is what was held
\* and the byte.
BytesAreKept ==
    LET byte == IF rest = << >> THEN << >> ELSE <<Head(rest)>> IN
    Continues /\ framer.state # "packet" /\ framer'.state # "packet" =>
        pass' \o Held(framer') = Held(framer) \o byte

\* A packet is delivered once, whole and to its protocol, wherever the reads cut
\* it, unless a timeout took its prefix, or the mark that ended the last paste,
\* for typing; what a paste, a title or
\* another control string contains is never taken for one.
PacketsAreDelivered == rest = << >> /\ ~hit => got = owes

\* A paste event reaches the pane that had the focus at the first byte of it, if
\* that pane could take it all the time since; a focus change in between does
\* not send it elsewhere.
PasteGoesWhereItBegan ==
    \A i \in 1..Len(pending') : i > Len(pending) => pending'[i] = began
=============================================================================
