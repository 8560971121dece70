------------------------------ MODULE PaneList ------------------------------
(***************************************************************************)
(* What a window promises of its panes, without geometry: they have one    *)
(* order, the one in which focus cycles and positions are exchanged; one   *)
(* of them is active; a pane enters and leaves on its own, and leaves the  *)
(* focus where it was or hands it to its neighbour.                        *)
(***************************************************************************)
EXTENDS Naturals, SequencesExt

VARIABLES
    order,   \* the panes, first subtree before second
    active   \* the pane that has the focus

Init == Len(order) = 1 /\ active = order[1]

Insert(id, i) ==
    /\ id \notin ToSet(order)
    /\ order' = InsertAt(order, i, id)
    /\ active' = id

Heir(i) == IF i = Len(order) THEN order[i - 1] ELSE order[i + 1]

Delete(i) ==
    /\ Len(order) > 1
    /\ order' = RemoveAt(order, i)
    /\ active' = IF active = order[i] THEN Heir(i) ELSE active

Exchange(i, j) ==
    /\ order' = [order EXCEPT ![i] = order[j], ![j] = order[i]]
    /\ active' = active

Focus(id) == id \in ToSet(order) /\ active' = id /\ order' = order

Next ==
    \/ Focus(active')
    \/ \E i \in 1 .. Len(order') : Insert(active', i)
    \/ \E i \in DOMAIN order : Delete(i)
    \/ \E i, j \in DOMAIN order : Exchange(i, j)

Spec == Init /\ [][Next]_<<order, active>>
=============================================================================
