----------------------------- MODULE PaneOwners -----------------------------
(***************************************************************************)
(* What a workspace promises about its shells, whatever happens to order   *)
(* and focus: every shell that runs is in one window or hidden, one at a   *)
(* time moves, and a shell ends alone, with its whole window, or because   *)
(* another one is hidden in its place.                                     *)
(***************************************************************************)
CONSTANT Hidden

VARIABLE owner    \* pairs of a pane that has a shell and its window, or Hidden

In(w, o) == {x \in o : x[2] = w}

Init == \E x \in owner : owner = {x}

Start(o, gone, new) ==
    /\ gone = {}
    /\ \E x \in new : new = {x} /\ \A y \in o : y[1] # x[1]

\* To another window, into hiding in the place of another pane, or back.
Move(o, gone, new) ==
    \E x \in new, y \in gone :
      /\ x[1] = y[1] /\ new = {x}
      /\ gone = IF x[2] = Hidden THEN {y} \cup In(Hidden, o) ELSE {y}

\* Alone, or the whole window.
End(o, gone, new) ==
    /\ new = {}
    /\ \E y \in gone : gone = {y} \/ gone = In(y[2], o)

Step(o, gone, new) == Start(o, gone, new) \/ Move(o, gone, new) \/ End(o, gone, new)

\* Bound here so that TLC evaluates what is substituted for owner once.
Next == \E o \in {owner}, n \in {owner'} : Step(o, o \ n, n \ o)

Spec == Init /\ [][Next]_owner
=============================================================================
