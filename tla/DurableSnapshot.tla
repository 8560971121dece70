--------------------------- MODULE DurableSnapshot ---------------------------
(***************************************************************************)
(* What saving promises, without files, threads or sockets: the workspace  *)
(* that survives a crash is one the session really had, it never gets      *)
(* older, and it is never older than a workspace whose saving has been     *)
(* acknowledged.  Workspaces are numbered in the order of their changes.   *)
(***************************************************************************)
EXTENDS Naturals

VARIABLES
    content,   \* the workspace of the running session, or the one to restore
    stored,    \* the workspace that survives any crash
    promised   \* the newest workspace that a caller was told is saved

vars == <<content, stored, promised>>

Init == content = 0 /\ stored = 0 /\ promised = 0

Edit == content' > content /\ UNCHANGED <<stored, promised>>

Store ==
    /\ stored' \in stored .. content
    /\ UNCHANGED <<content, promised>>

Acknowledge ==
    /\ promised' \in promised .. stored
    /\ UNCHANGED <<content, stored>>

Crash ==
    /\ content' \in stored .. content
    /\ stored' \in stored .. content'
    /\ UNCHANGED promised

Next == Edit \/ Store \/ Acknowledge \/ Crash

Spec == Init /\ [][Next]_vars
=============================================================================
