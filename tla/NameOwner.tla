------------------------------ MODULE NameOwner ------------------------------
(***************************************************************************)
(* What a session endpoint promises, without files, locks or commands: a   *)
(* name has at most one owner; a live owner gives the name up only itself; *)
(* an owner that has died is removed before another one takes its place.   *)
(***************************************************************************)
CONSTANTS Servers, None

VARIABLES
    owner,    \* the server that the name leads to, dead or alive, or None
    holders,  \* servers that live and have not given the name up
    up        \* servers whose endpoint accepts connections

vars == <<owner, holders, up>>

Init == owner = None /\ holders = {} /\ up = {}

Claim(s) ==
    /\ owner = None /\ s \notin up \cup holders
    /\ owner' = s
    /\ holders' = holders \cup {s} /\ up' = up \cup {s}

Resign(s) ==
    /\ owner = s /\ s \in holders
    /\ owner' = None
    /\ holders' = holders \ {s} /\ up' = up

\* A process dies, or the last one that kept an endpoint open closes it.
Vanish(s) ==
    /\ owner' = owner
    /\ holders' \in {holders, holders \ {s}}
    /\ up' \in {up, up \ {s}}

RemoveStale ==
    /\ owner # None /\ owner \notin up \cup holders
    /\ owner' = None
    /\ UNCHANGED <<holders, up>>

Next ==
    \/ RemoveStale
    \/ \E s \in Servers : Claim(s) \/ Resign(s) \/ Vanish(s)

Spec == Init /\ [][Next]_vars
=============================================================================
