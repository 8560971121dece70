------------------------------ MODULE HostInput ------------------------------
(***************************************************************************)
(* The decoder of what the outer terminal sends (WindowInput in            *)
(* terminal.rs): typed keys, escape sequences, Kitty key events, bracketed *)
(* pastes and pointer reports become commands of the multiplexer or input  *)
(* of the focused program.  One decoder serves all modes, and its          *)
(* bindings are replaced by a configuration reload while it runs.          *)
(*                                                                         *)
(* Input comes in tokens: a byte, a whole escape sequence, or one of the   *)
(* two parts of a paste marker (a read may end inside it).  A pointer      *)
(* report says what the left button did and on which part of the window.   *)
(***************************************************************************)
EXTENDS Naturals, Sequences, FiniteSets, SequencesExt

CONSTANTS
  Keys,        \* the bytes that are typed or pasted; "Esc" is one of them
  Entry,       \* the byte that leaves LOCKED (no reload changes it)
  Keymaps,     \* the bindings a valid configuration file can declare
  Panes,       \* the panes of the window
  DefaultMode, \* the mode a fresh decoder starts in
  MaxReloads   \* bound: configurations applied

VARIABLES
  mode, paste, tail, mouse, paneDrag, barPress, footerPress, panePress,
  keymap,      \* the bindings in force
  bar,         \* whether the window shows its bars
  tracking,    \* the pointer reports each program asked for
  active,      \* the focused pane
  out,         \* what the last token became, in order
  pasting,     \* what the outer terminal has sent of a paste
  cut,         \* the decoder was replaced during this paste, or its marker stalled
  down,        \* the left button is held
  took,        \* who was given the press of the held button
  reloads

decoder == <<mode, paste, tail, mouse, paneDrag, barPress, footerPress, panePress>>
host == <<pasting, cut, down, took>>
vars == <<decoder, keymap, bar, tracking, active, out, host, reloads>>

Modal == {"pane", "resize"}
Modes == {"locked", "normal"} \cup Modal
Kinds == {"press", "motion", "hover", "release", "wheel"}
Places == {"bar", "footer", "separator", "frame"} \cup Panes
Nobody == "nobody"

Byte(k) == [is |-> "byte", of |-> k]
Sequence(s) == [is |-> "sequence", of |-> s]
Torn(s) == [is |-> "torn", of |-> s]      \* a sequence that lost its Escape
Pointer(k) == [is |-> "pointer", of |-> k]
Command(c) == [is |-> "command", of |-> c]
ToChild(item) == item.is # "command"

-----------------------------------------------------------------------------
(* Keys.  A dispatch is the mode it leaves and what it emits.              *)

Dispatch(m, items) == [mode |-> m, out |-> items]
Bound(b, m) == Dispatch(b.to, IF b.run = "" THEN <<>> ELSE <<Command(b.run)>>)

NormalKey(km, k) ==
  CASE k \in km.dead -> Dispatch("normal", <<>>)
    [] k \in DOMAIN km.normal -> Bound(km.normal[k], "normal")
    [] k \in km.exits -> Dispatch("locked", <<>>)
    [] k = Entry -> Dispatch("locked", <<Byte(k)>>)
    [] OTHER -> Dispatch("locked", <<Byte(Entry), Byte(k)>>)

ModalKey(km, m, k) ==
  IF k \in DOMAIN km[m] THEN Bound(km[m][k], m) ELSE Dispatch(m, <<>>)

LockedKey(km, k) ==
  CASE k \in km.history -> Dispatch("locked", <<Command("history")>>)
    [] k = Entry -> Dispatch("normal", <<>>)
    [] OTHER -> Dispatch("locked", <<Byte(k)>>)

Plain(m, k) ==
  CASE m = "normal" -> NormalKey(keymap, k)
    [] m \in Modal -> ModalKey(keymap, m, k)
    [] OTHER -> LockedKey(keymap, k)

\* A key as the Kitty protocol reports it: press or repeat, then release.
KittyPress(m, k) ==
  CASE k = Entry -> Plain(m, k)
    [] m = "locked" /\ k \in keymap.history -> Dispatch(m, <<Command("history")>>)
    [] m = "locked" -> Dispatch(m, <<Sequence("key")>>)
    [] OTHER -> Plain(m, k)

KittyRelease(m, k) ==
  IF m = "locked" /\ k # Entry /\ k \notin keymap.history
  THEN Dispatch(m, <<Sequence("key")>>)
  ELSE Dispatch(m, <<>>)

\* A completed sequence nobody claims: its Escape is a key, its rest is text.
Unclaimed(m, s) ==
  IF m = "locked" THEN Dispatch(m, <<Sequence(s)>>)
  ELSE LET escape == NormalKey(keymap, "Esc")
           kept == Byte("Esc") \in ToSet(escape.out)
       IN Dispatch(escape.mode,
                   SelectSeq(escape.out, LAMBDA item: item # Byte("Esc"))
                     \o <<IF kept THEN Sequence(s) ELSE Torn(s)>>)

Arrow(m, event) ==
  CASE m = "normal" /\ keymap.arrow # "" ->
         IF event = "release" THEN Dispatch(m, <<>>)
         ELSE Dispatch("locked", <<Command(keymap.arrow)>>)
    [] m \in Modal ->
         IF event = "release" THEN Dispatch(m, <<>>) ELSE ModalKey(keymap, m, "arrow")
    [] OTHER -> Unclaimed(m, "arrow")

-----------------------------------------------------------------------------
(* What becomes of a token.                                                *)

Others == Panes \ {active}

\* Commands that move the focus take effect before the next token is read.
Focus(items) ==
  IF \E i \in DOMAIN items: items[i] = Command("next-pane") THEN CHOOSE p \in Others: TRUE
  ELSE active

Emit(d) == /\ mode' = d.mode
           /\ out' = d.out
           /\ active' = Focus(d.out)

Holding ==
  \/ bar
  \/ tracking[active] # "off"
  \/ mode \in Modal
  \/ mode = "normal" /\ keymap.arrow # ""

Idle == mouse = "none" /\ pasting = "none"

Type(k) ==
  /\ Idle
  /\ \/ k # "Esc" /\ Emit(Plain(mode, k)) /\ UNCHANGED mouse
     \/ k = "Esc" /\ ~Holding /\ Emit(Plain(mode, k)) /\ UNCHANGED mouse
     \/ k = "Esc" /\ Holding /\ mouse' = "esc" /\ Emit(Dispatch(mode, <<>>))
  /\ tail' = "none"
  /\ UNCHANGED <<paste, paneDrag, barPress, footerPress, panePress, keymap, bar,
                 tracking, host, reloads>>

Event(d) ==
  /\ Idle
  /\ Emit(d)
  /\ tail' = "none"
  /\ UNCHANGED <<paste, mouse, paneDrag, barPress, footerPress, panePress, keymap, bar,
                 tracking, host, reloads>>

KittyKey(k) == Holding /\ (Event(KittyPress(mode, k)) \/ Event(KittyRelease(mode, k)))
ArrowKey == \E event \in {"press", "release"}: Holding /\ Event(Arrow(mode, event))

\* The first bytes of a paste marker.
PasteHead ==
  /\ Idle
  /\ pasting' = "head"
  /\ IF Holding
     THEN mouse' = "head" /\ Emit(Dispatch(mode, <<>>)) /\ UNCHANGED tail
     ELSE Emit(Unclaimed(mode, "head")) /\ tail' = "head" /\ UNCHANGED mouse
  /\ UNCHANGED <<paste, paneDrag, barPress, footerPress, panePress, keymap, bar, tracking,
                 cut, down, took, reloads>>

\* Its last bytes: the marker was held and is decided now, or streamed.
PasteRest ==
  /\ pasting = "head"
  /\ pasting' = "open"
  /\ mouse' = "none" /\ tail' = "none"
  /\ paste' = (mouse = "head" \/ tail = "head")
  /\ cut' = (cut \/ ~paste')
  /\ CASE mouse = "head" /\ mode \in Modal -> Emit(Dispatch("locked", <<Sequence("start")>>))
       [] mouse = "head" /\ mode \notin Modal -> Emit(Unclaimed(mode, "start"))
       [] OTHER -> Emit(Plain(mode, "rest"))
  /\ UNCHANGED <<paneDrag, barPress, footerPress, panePress, keymap, bar, tracking, down,
                 took, reloads>>

\* Mutant: the text of a paste goes through the keymap of the mode.
PasteTextDispatched(k) ==
  /\ pasting = "open"
  /\ mouse = "none"
  /\ k # "Esc"
  /\ Emit(Plain(mode, k))
  /\ tail' = "none"
  /\ UNCHANGED <<paste, mouse, paneDrag, barPress, footerPress, panePress, keymap, bar,
                 tracking, host, reloads>>

PasteText(k) ==
  /\ pasting = "open"
  /\ mouse = "none"
  /\ k # "Esc"
  /\ Emit(IF paste THEN Dispatch(mode, <<Byte(k)>>) ELSE Plain(mode, k))
  /\ tail' = "none"
  /\ UNCHANGED <<paste, mouse, paneDrag, barPress, footerPress, panePress, keymap, bar,
                 tracking, host, reloads>>

PasteEnd ==
  /\ pasting = "open"
  /\ mouse = "none"
  /\ pasting' = "none" /\ cut' = FALSE
  /\ paste' = FALSE
  /\ Emit(IF paste THEN Dispatch(mode, <<Sequence("end")>>)
          ELSE IF mode \in Modal THEN Dispatch(mode, <<>>) ELSE Unclaimed(mode, "end"))
  /\ tail' = "none"
  /\ UNCHANGED <<mouse, paneDrag, barPress, footerPress, panePress, keymap, bar, tracking,
                 down, took, reloads>>

\* Held bytes are released after 30 ms; they bypass the decoder.
MouseExpired ==
  /\ mouse # "none"
  /\ mouse' = "none"
  /\ LET held == IF mouse = "esc" THEN Byte("Esc") ELSE Sequence("head") IN
     Emit(CASE mode = "locked" -> Dispatch("locked", <<held>>)
            [] mode = "normal" /\ mouse = "esc" /\ "Esc" \in keymap.exits ->
                 Dispatch("locked", <<>>)
            [] mode = "normal" /\ ~(mouse = "esc" /\ "Esc" \in keymap.exits) ->
                 Dispatch("locked", <<Byte("Ctrl-B"), held>>)
            [] OTHER -> Dispatch("locked", <<>>))
  /\ cut' = (pasting # "none")
  /\ UNCHANGED <<paste, tail, paneDrag, barPress, footerPress, panePress, keymap, bar,
                 tracking, pasting, down, took, reloads>>

-----------------------------------------------------------------------------
(* Pointer reports.                                                        *)

Wanted(kind) ==
  CASE kind = "motion" -> tracking[active] \in {"drag", "any"}
    [] kind = "hover" -> tracking[active] = "any"
    [] OTHER -> tracking[active] # "off"

PointerOutcome(kind, place, now) ==
  \* A report that no local control takes.
  LET given == Wanted(kind) /\ (place = active \/ kind = "release") IN
  Emit(Dispatch(now, IF given THEN <<Pointer(kind)>> ELSE <<>>))

Swallowed(now) == Emit(Dispatch(now, <<>>))

\* What the hint under the pointer does is the choice of the footer's layout.
FooterClick ==
  \/ Swallowed("locked")
  \/ \E m \in Modes: Emit(Dispatch(m, <<>>))
  \/ \E c \in {"next-pane", "new"}: Emit(Dispatch("locked", <<Command(c)>>))

Pressed(place, now) ==
  /\ down' = TRUE
  /\ CASE place = "footer" ->
            footerPress' = TRUE /\ FooterClick /\ took' = "footer"
            /\ UNCHANGED <<paneDrag, barPress, panePress>>
       [] place = "separator" ->
            paneDrag' = TRUE /\ Swallowed(now) /\ took' = "separator"
            /\ UNCHANGED <<barPress, footerPress, panePress>>
       [] place = "bar" ->
            barPress' = TRUE /\ Emit(Dispatch(now, <<Command("select")>>)) /\ took' = "bar"
            /\ UNCHANGED <<paneDrag, footerPress, panePress>>
       [] place \in Others ->
            /\ panePress' = TRUE /\ took' = "pane"
            /\ mode' = now /\ out' = <<Command("select-pane")>> /\ active' = place
            /\ UNCHANGED <<paneDrag, barPress, footerPress>>
       [] OTHER ->
            /\ PointerOutcome("press", place, now)
            /\ took' = IF place = active /\ Wanted("press") THEN active ELSE Nobody
            /\ UNCHANGED <<paneDrag, barPress, footerPress, panePress>>

\* While the button that pressed a local control is held, in this order.
Held(kind, place, now) ==
  \/ /\ footerPress
     /\ footerPress' = (kind # "release")
     /\ Swallowed(mode)
     /\ UNCHANGED <<paneDrag, barPress, panePress>>
  \/ /\ ~footerPress /\ paneDrag
     /\ paneDrag' = (kind # "release")
     /\ Emit(Dispatch(now, CASE kind = "release" -> <<Command("finish-resize")>>
                             [] kind = "motion" -> <<Command("resize")>>
                             [] OTHER -> <<>>))
     /\ UNCHANGED <<barPress, footerPress, panePress>>
  \/ /\ ~footerPress /\ ~paneDrag /\ kind = "release" /\ barPress
     /\ barPress' = FALSE
     /\ Swallowed(now)
     /\ UNCHANGED <<paneDrag, footerPress, panePress>>

Unheld(kind) == ~footerPress /\ ~paneDrag /\ ~(kind = "release" /\ barPress)

Report(kind, place) ==
  /\ Idle
  /\ bar \/ tracking[active] # "off"
  /\ bar \/ place \notin {"bar", "footer"}
  /\ down = (kind \in {"motion", "release"})
  /\ LET now == IF kind = "hover" THEN mode ELSE "locked" IN
     \/ /\ kind = "hover" /\ mode # "locked"
        /\ Swallowed(mode)
        /\ UNCHANGED <<paneDrag, barPress, footerPress, panePress, down, took>>
     \/ /\ ~(kind = "hover" /\ mode # "locked")
        /\ Held(kind, place, now)
        /\ down' = (kind # "release" /\ (down \/ kind = "press"))
        /\ took' = IF kind = "release" THEN Nobody ELSE took
     \/ /\ ~(kind = "hover" /\ mode # "locked")
        /\ Unheld(kind)
        /\ \/ /\ kind = "press"
              /\ Pressed(place, now)
           \/ /\ kind # "press" /\ place = "footer"
              /\ Swallowed(now)
              /\ down' = (down /\ kind # "release")
              /\ took' = IF kind = "release" THEN Nobody ELSE took
              /\ UNCHANGED <<paneDrag, barPress, footerPress, panePress>>
           \/ /\ kind = "release" /\ place # "footer"
              /\ IF panePress THEN Swallowed(now) ELSE PointerOutcome(kind, place, now)
              /\ panePress' = FALSE
              /\ down' = FALSE /\ took' = Nobody
              /\ UNCHANGED <<paneDrag, barPress, footerPress>>
           \/ /\ kind \in {"motion", "hover", "wheel"} /\ place # "footer"
              /\ IF place = "bar"
                 THEN Emit(Dispatch(now, IF kind = "wheel" THEN <<Command("select")>> ELSE <<>>))
                 ELSE PointerOutcome(kind, place, now)
              /\ UNCHANGED <<paneDrag, barPress, footerPress, panePress, down, took>>
  /\ UNCHANGED <<paste, tail, mouse, keymap, bar, tracking, pasting, cut, reloads>>

-----------------------------------------------------------------------------
(* The rest of the loop.                                                   *)

CanReload ==
  /\ mode = "locked"
  /\ ~paste
  /\ mouse = "none"
  /\ ~paneDrag /\ ~barPress /\ ~footerPress /\ ~panePress
  /\ tail # "head"

Reload ==
  /\ CanReload
  /\ reloads < MaxReloads
  /\ reloads' = reloads + 1
  /\ \E km \in Keymaps \ {keymap}: keymap' = km
  /\ out' = <<>>
  /\ UNCHANGED <<decoder, bar, tracking, active, host>>

Retrack ==
  /\ \E t \in {"off", "button", "drag", "any"}: tracking' = [tracking EXCEPT ![active] = t]
  /\ out' = <<>>
  /\ UNCHANGED <<decoder, keymap, bar, active, host, reloads>>

\* The focused program exits: its queued input goes, and so does the decoder.
PaneExits ==
  /\ mode' = DefaultMode
  /\ paste' = FALSE /\ tail' = "none" /\ mouse' = "none"
  /\ paneDrag' = FALSE /\ barPress' = FALSE /\ footerPress' = FALSE /\ panePress' = FALSE
  /\ active' = CHOOSE p \in Others: TRUE
  /\ tracking' = [tracking EXCEPT ![active] = "off"]
  /\ took' = Nobody
  /\ cut' = (pasting # "none")
  /\ out' = <<>>
  /\ UNCHANGED <<keymap, bar, pasting, down, reloads>>

Init ==
  /\ mode = DefaultMode /\ paste = FALSE /\ tail = "none" /\ mouse = "none"
  /\ paneDrag = FALSE /\ barPress = FALSE /\ footerPress = FALSE /\ panePress = FALSE
  /\ keymap \in Keymaps
  /\ bar \in BOOLEAN
  /\ tracking = [p \in Panes |-> "off"]
  /\ active \in Panes
  /\ out = <<>>
  /\ pasting = "none" /\ cut = FALSE /\ down = FALSE /\ took = Nobody
  /\ reloads = 0

Next ==
  \/ \E k \in Keys: Type(k) \/ KittyKey(k) \/ PasteText(k)
  \/ ArrowKey \/ PasteHead \/ PasteRest \/ PasteEnd \/ MouseExpired
  \/ \E kind \in Kinds, place \in Places: Report(kind, place)
  \/ Reload \/ Retrack \/ PaneExits

Spec == Init /\ [][Next]_vars

-----------------------------------------------------------------------------
(* Correctness.                                                            *)

TypeOK ==
  /\ mode \in Modes /\ paste \in BOOLEAN /\ tail \in {"none", "head"}
  /\ mouse \in {"none", "esc", "head"}
  /\ keymap \in Keymaps /\ active \in Panes
  /\ pasting \in {"none", "head", "open"}

\* Once a paste is open its text reaches the focused program byte for byte:
\* whatever mode it began in, it runs no command and changes no mode, and both
\* its markers are whole (docs/reference/windows.md:196).  The exception is a
\* paste during which the decoder was replaced or whose marker stalled.
PasteIsInert ==
  (pasting = "open" /\ ~cut /\ ~cut') =>
    /\ paste /\ mode' = mode
    /\ \A i \in DOMAIN out': ToChild(out'[i]) /\ out'[i].is # "torn"

\* A press that a bar, a border or another pane took keeps its release, and a
\* separator also its motion, from the programs, wherever the pointer ends.
LocalGestureIsLocal ==
  \/ took \notin {"bar", "footer", "separator", "pane"}
  \/ \A i \in DOMAIN out': out'[i].is = "pointer" => out'[i].of = "motion" /\ took # "separator"
GestureStaysLocal == down => LocalGestureIsLocal

\* A reload changes the bindings only between inputs: no paste, not even the
\* first bytes of its marker, no held bytes and no local press is in progress
\* (docs/reference/config-reload.md: actions in progress finish with their
\* original bindings).
ReloadWaits ==
  keymap' # keymap =>
    /\ mode = "locked"
    /\ mouse = "none"
    /\ pasting = "none" \/ cut
    /\ took \notin {"bar", "footer", "separator", "pane"}

\* A key means the same command whether it is typed or reported as an event.
KittyIsTyping ==
  \A k \in Keys:
    LET typed == Plain(mode, k)
        event == KittyPress(mode, k)
        Commands(d) == SelectSeq(d.out, LAMBDA item: ~ToChild(item))
    IN /\ typed.mode = event.mode
       /\ Commands(typed) = Commands(event)

\* What a program is given of an escape sequence is whole.
SequencesAreWhole == \A i \in DOMAIN out: out[i].is # "torn"
=============================================================================
