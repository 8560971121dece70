---------------------------- MODULE KeyBindings ----------------------------
(***************************************************************************)
(* How a configuration file becomes the keys a person presses:             *)
(* config/overrides.rs merges the layers of the file (the shared root, the *)
(* block of this operating system, the block of this machine), config.rs   *)
(* turns the merged document into shortcuts and refuses ambiguous ones,    *)
(* and terminal.rs and shortcut_help.rs act on the keys.                   *)
(*                                                                         *)
(* A slot is a physical key of an input mode.  A NORMAL command is named   *)
(* by its default key, as in the code: pressing "n" resolves to "n", the   *)
(* next window.  PANE stands for the five modal key maps (pane, resize,    *)
(* move, tab, session), whose tables, entry keys and dispatch repeat each  *)
(* other.  Not modelled: key aliases, History bindings, arrows and the     *)
(* legacy [shortcuts] table, which fills the same slots.                   *)
(***************************************************************************)
EXTENDS Sequences, FiniteSets, FiniteSetsExt, Functions, Integers

CONSTANTS
    Letters,      \* keys pressed in NORMAL and PANE
    Legacy,       \* commands with a key slot of their own: new_window, splits
    Commands,     \* commands of NORMAL that a binding may name, by default key
    Fixed,        \* FIXED_SHORTCUT_KEYS
    Detach,       \* the key of NORMAL that detaches a session
    HelpCommand,  \* the command that opens Help, "?"
    History,      \* the command that opens History, "["
    Entries,      \* control keys that may enter NORMAL from LOCKED
    DefaultEntry, \* Ctrl-B
    Session,      \* a named session: it can be detached from
    Order,        \* slots in the order a TOML table lists them
    Inputs        \* the files considered: sequences of layers

None == "none"
Removed == "removed"

VARIABLES
    layers,    \* the layers still to be merged
    patch,     \* the entries of the current layer still to be merged
    document,  \* slot -> [act, show]: the merged keybinds
    disabled,  \* slots a layer removed
    clear,     \* the effective clear_defaults
    cut,       \* removed slots nothing declared again
    gone,      \* commands whose remapped key was removed, nothing since
    phase,     \* merging, running or refused
    mode,      \* the input mode
    help       \* the mode Help was opened in, or none

vars == <<layers, patch, document, disabled, clear, cut, gone, phase,
          mode, help>>

----------------------------------------------------------------------------
(* The shortcuts of a document.                                            *)

Act(s) == IF s \in DOMAIN document THEN document[s].act ELSE None
ActsOf(m, a) == {s[2] : s \in {t \in DOMAIN document :
                                 t[1] = m /\ document[t].act = a}}

Shown(s) ==
    IF s \in DOMAIN document THEN document[s].show ELSE "always"

Key(c) ==
    IF ActsOf("normal", c) = {} THEN c ELSE CHOOSE k \in ActsOf("normal", c) : TRUE
Configured(c) == ActsOf("normal", c) # {}
KeyInUse(k) == \E c \in Legacy : Key(c) = k /\ (~clear \/ Configured(c))

\* The commands in the table of NORMAL actions, with the keys they are on.
NormalActions == Commands \ Legacy
LockedEntry ==
    IF ActsOf("locked", "enter") = {} THEN DefaultEntry
    ELSE CHOOSE k \in ActsOf("locked", "enter") : TRUE
LockedConfigured == ActsOf("locked", "enter") # {}
EntersHistory(k) == k \in ActsOf("locked", "history")
EntersPane(k) == k \in ActsOf("normal", "pane")
ExitsNormal(k) == k \in ActsOf("normal", "lock")

Disabled(m, k) == phase = "running" /\ <<m, k>> \in disabled

Resolve(k) ==
    IF Disabled("normal", k) THEN None
    ELSE IF Act(<<"normal", k>>) \in NormalActions THEN Act(<<"normal", k>>)
    ELSE IF /\ \E c \in NormalActions : c = k /\ Configured(c)
            /\ ~(k = History /\ ~clear)
         THEN None
    ELSE IF \E c \in Legacy : Key(c) = k /\ (clear => Configured(c))
         THEN CHOOSE c \in Legacy : Key(c) = k /\ (clear => Configured(c))
    ELSE IF clear \/ k \in Legacy THEN None ELSE k

\* What Help and the footer say a key does.
LockedLabel(k) ==
    CASE EntersHistory(k) -> "history"
      [] ~EntersHistory(k) /\ k = LockedEntry /\ (~clear \/ LockedConfigured) -> "normal"
      [] OTHER -> None

NormalLabel(k) ==
    CASE EntersPane(k) -> "pane"
      [] ExitsNormal(k) -> "lock"
      [] k = LockedEntry -> "literal"
      [] ~EntersPane(k) /\ Resolve(k) \in Commands -> Resolve(k)
      [] ~EntersPane(k) /\ Resolve(k) = Detach /\ Session -> "detach"
      [] OTHER -> None

PaneLabel(k) == Act(<<"pane", k>>)

Label(m, k) ==
    CASE Disabled(m, k) -> None
      [] ~Disabled(m, k) /\ m = "locked" -> LockedLabel(k)
      [] ~Disabled(m, k) /\ m = "normal" -> NormalLabel(k)
      [] ~Disabled(m, k) /\ m = "pane" -> PaneLabel(k)

----------------------------------------------------------------------------
(* Keys.  An effect is the mode that follows and what was done.            *)

Effect(to, did) == [to |-> to, did |-> did]

LockedKey(k) ==
    IF EntersHistory(k) THEN Effect("locked", "history")
    ELSE IF k = LockedEntry THEN Effect("normal", None)
    ELSE Effect("locked", "program")

NormalKey(k) ==
    IF Disabled("normal", k) THEN Effect("normal", None)
    ELSE IF Session /\ ~clear /\ k = Detach THEN Effect("locked", "detach")
    ELSE IF EntersPane(k) THEN Effect("pane", None)
    ELSE IF ExitsNormal(k) THEN Effect("locked", None)
    ELSE IF k # LockedEntry /\ Resolve(k) \in Commands
         THEN Effect("locked", Resolve(k))
         ELSE Effect("locked", "literal")

PaneKey(k) ==
    IF Disabled("pane", k) THEN Effect("pane", None)
    ELSE CASE Act(<<"pane", k>>) = "lock" -> Effect("locked", None)
           [] Act(<<"pane", k>>) = None -> Effect("pane", None)
           [] OTHER -> Effect("pane", Act(<<"pane", k>>))

KeyEffect(m, k) ==
    CASE m = "locked" -> LockedKey(k)
      [] m = "normal" -> NormalKey(k)
      [] m = "pane" -> PaneKey(k)

\* Help lists the bindings themselves once one of them was shown, hidden or
\* removed by hand, and in every mode but NORMAL; else its fixed table.
Dynamic(m) ==
    \/ m # "normal"
    \/ \E s \in disabled : s[1] = m
    \/ \E s \in DOMAIN document : s[1] = m /\ document[s].show # "always"

\* In the fixed table a key runs the command it resolves to, in LOCKED.
HelpKey(m, k) ==
    IF Dynamic(m)
    THEN IF Label(m, k) # None THEN KeyEffect(m, k) ELSE Effect(m, None)
    ELSE IF Resolve(k) \in Commands
         THEN Effect("locked", Resolve(k))
         ELSE Effect(m, None)

----------------------------------------------------------------------------
(* Merging.                                                                *)

Init ==
    /\ layers \in Inputs
    /\ patch = <<>> /\ document = <<>> /\ disabled = {} /\ clear = FALSE
    /\ cut = {} /\ gone = {}
    /\ phase = "merging"
    /\ mode = "locked" /\ help = None

\* A block with clear_defaults starts from nothing; a later false keeps true.
Layer ==
    /\ phase = "merging" /\ patch = <<>> /\ layers # <<>>
    /\ LET layer == Head(layers) IN
         /\ patch' = layer.binds
         /\ clear' = (clear \/ layer.clear)
         /\ document' = IF layer.clear THEN <<>> ELSE document
         /\ disabled' = IF layer.clear THEN {} ELSE disabled
         /\ cut' = IF layer.clear THEN {} ELSE cut
         /\ gone' = IF layer.clear THEN {} ELSE gone
    /\ layers' = Tail(layers)
    /\ UNCHANGED <<phase, mode, help>>

\* The default keys a removed NORMAL binding had displaced.
Displaced(s) ==
    IF s[1] = "normal" /\ Act(s) \in Commands \ {s[2], History}
    THEN {<<"normal", Act(s)>>} ELSE {}

Next1 == CHOOSE s \in DOMAIN patch :
            \A t \in DOMAIN patch :
                \E i, j \in DOMAIN Order : Order[i] = s /\ Order[j] = t /\ i <= j

Unbind(s) ==
    /\ document' = Restrict(document, DOMAIN document \ {s})
    /\ disabled' = disabled \cup {s} \cup Displaced(s)
    /\ cut' = cut \cup {s}
    /\ gone' = gone \cup {c \in Commands \cap Letters :
                            /\ c = Act(s) /\ s[1] = "normal" /\ c # s[2]
                            /\ ActsOf("normal", c) = {s[2]}
                            /\ Act(<<"normal", c>>) = None}
    /\ UNCHANGED phase

Enabled(s) == disabled \ {s}

Bind(s, entry) ==
    /\ ~(entry.act = None /\ s \in disabled)
    /\ document' = [t \in DOMAIN document \cup {s} |->
                      IF t # s THEN document[t]
                      ELSE [act |-> IF entry.act = None THEN Act(s) ELSE entry.act,
                            show |-> IF entry.show = "keep" THEN Shown(s) ELSE entry.show]]
    /\ disabled' = Enabled(s)
    /\ cut' = cut \ {s}
    /\ gone' = gone \ {entry.act, IF s[1] = "normal" THEN s[2] ELSE None}
    /\ UNCHANGED phase

\* Metadata alone cannot bring a removed binding back.
Lost(s, entry) ==
    /\ entry.act = None /\ s \in disabled
    /\ phase' = "refused"
    /\ UNCHANGED <<document, disabled, cut, gone>>

Merge ==
    /\ phase = "merging" /\ patch # <<>>
    /\ LET s == Next1
           entry == patch[s]
       IN  /\ \/ entry.act = Removed /\ Unbind(s)
              \/ entry.act # Removed /\ Bind(s, entry)
              \/ Lost(s, entry)
           /\ patch' = Restrict(patch, DOMAIN patch \ {s})
    /\ UNCHANGED <<layers, clear, mode, help>>

----------------------------------------------------------------------------
(* Validation.                                                             *)

OneKeyEach ==
    /\ Cardinality(ActsOf("locked", "enter")) <= 1
    /\ Cardinality(ActsOf("normal", "pane")) <= 1
    /\ \A c \in Legacy : Cardinality(ActsOf("normal", c)) <= 1

LegacyDistinct ==
    \A c \in Legacy : ~clear \/ Configured(c) =>
        /\ \A d \in Legacy \ {c} : Key(d) # Key(c) \/ (clear /\ ~Configured(d))
        /\ clear \/ Key(c) \notin Fixed

EntryIsFree ==
    /\ ~EntersHistory(LockedEntry)
    /\ ~ExitsNormal(LockedEntry) /\ ~EntersPane(LockedEntry)

ActionsAreFree ==
    \A c \in NormalActions : \A k \in ActsOf("normal", c) :
        /\ ~KeyInUse(k) /\ k # LockedEntry
        /\ c = History => ~EntersPane(k)

ExitsAreFree ==
    \A k \in ActsOf("normal", "lock") :
        ~KeyInUse(k) /\ (clear \/ k \notin Fixed)

\* Metadata needs a binding to describe.
ShownIsBound ==
    \A s \in DOMAIN document :
        document[s].act = None => Label(s[1], s[2]) # None

\* Mutant: removals are not compared with the entry key.
EntryIsLeftAnyway == TRUE

EntryIsLeft == <<"locked", LockedEntry>> \notin disabled

Valid ==
    /\ OneKeyEach /\ LegacyDistinct /\ ShownIsBound
    /\ EntryIsFree /\ ActionsAreFree /\ ExitsAreFree
    /\ clear => LockedConfigured
    /\ EntryIsLeft

Parse ==
    /\ phase = "merging" /\ patch = <<>> /\ layers = <<>>
    /\ phase' = IF Valid THEN "running" ELSE "refused"
    /\ UNCHANGED <<layers, patch, document, disabled, clear, cut, gone,
                   mode, help>>

----------------------------------------------------------------------------
(* Use.                                                                    *)

\* The Help command keeps the mode to return to; NORMAL is left for LOCKED.
After(e, m) ==
    /\ help' = IF e.did = HelpCommand THEN m ELSE None
    /\ mode' = IF e.did = HelpCommand /\ m # "normal" THEN m ELSE e.to

Press(k) ==
    /\ phase = "running" /\ help = None
    /\ After(KeyEffect(mode, k), mode)
    /\ UNCHANGED <<layers, patch, document, disabled, clear, cut, gone,
                   phase>>

PressInHelp(k) ==
    /\ phase = "running" /\ help # None
    /\ IF k = HelpCommand
       THEN help' = None /\ UNCHANGED mode
       ELSE /\ HelpKey(help, k) # Effect(help, None)
            /\ After(HelpKey(help, k), help)
    /\ UNCHANGED <<layers, patch, document, disabled, clear, cut, gone,
                   phase>>

KeysOf(m) == IF m = "locked" THEN Entries ELSE Letters

Next ==
    \/ Layer \/ Merge \/ Parse
    \/ \E k \in KeysOf(mode) : Press(k)
    \/ \E k \in Letters : PressInHelp(k)

Spec == Init /\ [][Next]_vars

----------------------------------------------------------------------------
(* Properties.                                                             *)

\* A removed key does nothing in its mode, is not listed, and does nothing
\* in Help; and the command a removed binding had moved to another key does
\* not come back on its default key (docs/reference/config-overrides.md,
\* Merge rules).
RemovedStaysRemoved ==
    phase = "running" =>
        /\ \A s \in cut : s[1] # "locked" =>
              /\ KeyEffect(s[1], s[2]) = Effect(s[1], None)
              /\ Label(s[1], s[2]) = None
              /\ HelpKey(s[1], s[2]) = Effect(s[1], None)
        /\ \A c \in gone : KeyEffect("normal", c).did # c

\* Every accepted configuration has a key that opens NORMAL from LOCKED, and
\* that key is the one the LOCKED footer names.
EntryIsReachable ==
    phase = "running" =>
        \E k \in Entries : /\ LockedKey(k).to = "normal"
                           /\ Label("locked", k) = "normal"
=============================================================================
