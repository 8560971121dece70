-------------------------- MODULE Workspace_proofs --------------------------
(***************************************************************************)
(* Proofs about Workspace for any sets of shells and window identities and *)
(* any limits: the inductive invariant of the windows, the focus and the   *)
(* record of the last window, and that the workspace implements PaneOwners. *)
(***************************************************************************)
EXTENDS Workspace, SequenceTheorems, FiniteSetTheorems, TLAPS

-----------------------------------------------------------------------------
(* Sequences that gain or lose an element.                                 *)

\* Everything from the place of the new element on moves up by one.
LEMMA InsertAtProperties ==
    ASSUME NEW S, NEW s \in Seq(S), NEW i \in 1 .. Len(s) + 1, NEW e \in S
    PROVE  /\ InsertAt(s, i, e) \in Seq(S)
           /\ Len(InsertAt(s, i, e)) = Len(s) + 1
           /\ \A k \in 1 .. Len(s) + 1 :
                InsertAt(s, i, e)[k] = IF k < i THEN s[k] ELSE IF k = i THEN e ELSE s[k - 1]
  <1> DEFINE front == SubSeq(s, 1, i - 1)
             back  == SubSeq(s, i, Len(s))
             head  == front \o <<e>>
  <1>0. Len(s) \in Nat /\ i \in Int /\ \A k \in 1 .. Len(s) : s[k] \in S
    OBVIOUS
  <1>1. /\ front \in Seq(S) /\ Len(front) = i - 1
        /\ \A k \in 1 .. i - 1 : front[k] = s[k]
    <2>1. \A k \in 1 .. i - 1 : s[k] \in S
      BY <1>0
    <2> HIDE DEF front
    <2>2. /\ front \in Seq(S) /\ Len(front) = IF 1 <= i - 1 THEN i - 1 - 1 + 1 ELSE 0
          /\ \A k \in 1 .. i - 1 - 1 + 1 : front[k] = s[1 + k - 1]
      BY <1>0, <2>1, SubSeqProperties DEF front
    <2> QED BY <1>0, <2>2
  <1>2. /\ back \in Seq(S) /\ Len(back) = Len(s) - i + 1
        /\ \A k \in 1 .. Len(s) - i + 1 : back[k] = s[i + k - 1]
    <2>1. \A k \in i .. Len(s) : s[k] \in S
      BY <1>0
    <2> HIDE DEF back
    <2>2. /\ back \in Seq(S) /\ Len(back) = IF i <= Len(s) THEN Len(s) - i + 1 ELSE 0
          /\ \A k \in 1 .. Len(s) - i + 1 : back[k] = s[i + k - 1]
      BY <1>0, <2>1, SubSeqProperties DEF back
    <2> QED BY <1>0, <2>2
  <1> HIDE DEF front, back
  <1>3. /\ head \in Seq(S) /\ Len(head) = i
        /\ \A k \in 1 .. i : head[k] = IF k < i THEN s[k] ELSE e
    <2>1. <<e>> \in Seq(S) /\ Len(<<e>>) = 1 /\ <<e>>[1] = e
      OBVIOUS
    <2>2. /\ head \in Seq(S) /\ Len(head) = Len(front) + Len(<<e>>)
          /\ \A k \in 1 .. Len(front) + Len(<<e>>) :
               head[k] = IF k <= Len(front) THEN front[k] ELSE <<e>>[k - Len(front)]
      BY <1>1, <2>1, ConcatProperties
    <2> QED BY <1>0, <1>1, <2>1, <2>2
  <1> HIDE DEF head
  <1>4. /\ head \o back \in Seq(S) /\ Len(head \o back) = Len(head) + Len(back)
        /\ \A k \in 1 .. Len(head) + Len(back) :
             (head \o back)[k] = IF k <= Len(head) THEN head[k] ELSE back[k - Len(head)]
    BY <1>2, <1>3, ConcatProperties
  <1>5. InsertAt(s, i, e) = head \o back
    BY DEF InsertAt, head, front, back
  <1> QED BY <1>0, <1>2, <1>3, <1>4, <1>5

\* The place behind the last element.
LEMMA AppendIsInsertAt ==
    ASSUME NEW S, NEW s \in Seq(S), NEW e \in S
    PROVE  Append(s, e) = InsertAt(s, Len(s) + 1, e)
  <1>1. Len(s) \in Nat /\ Len(s) + 1 \in 1 .. Len(s) + 1
    OBVIOUS
  <1> DEFINE t == InsertAt(s, Len(s) + 1, e)
  <1>2. /\ t \in Seq(S) /\ Len(t) = Len(s) + 1
        /\ \A k \in 1 .. Len(s) + 1 :
             t[k] = IF k < Len(s) + 1 THEN s[k] ELSE IF k = Len(s) + 1 THEN e ELSE s[k - 1]
    BY <1>1, InsertAtProperties, SMTT(60)
  <1> HIDE DEF t
  <1>3. Append(s, e) \in Seq(S) /\ Len(Append(s, e)) = Len(s) + 1
    OBVIOUS
  <1>4. \A k \in 1 .. Len(s) + 1 : Append(s, e)[k] = t[k]
    BY <1>1, <1>2
  <1>5. Append(s, e) = t
    BY <1>2, <1>3, <1>4, SeqEqual
  <1> QED BY <1>5 DEF t

\* Everything behind the place that is left moves down by one.
LEMMA RemoveAtProperties ==
    ASSUME NEW S, NEW s \in Seq(S), NEW i \in 1 .. Len(s)
    PROVE  /\ RemoveAt(s, i) \in Seq(S)
           /\ Len(RemoveAt(s, i)) = Len(s) - 1
           /\ \A k \in 1 .. Len(s) - 1 :
                RemoveAt(s, i)[k] = IF k < i THEN s[k] ELSE s[k + 1]
  <1> DEFINE front == SubSeq(s, 1, i - 1)
             back  == SubSeq(s, i + 1, Len(s))
  <1>0. Len(s) \in Nat /\ i \in Int /\ \A k \in 1 .. Len(s) : s[k] \in S
    OBVIOUS
  <1>1. /\ front \in Seq(S) /\ Len(front) = i - 1
        /\ \A k \in 1 .. i - 1 : front[k] = s[k]
    <2>1. \A k \in 1 .. i - 1 : s[k] \in S
      BY <1>0
    <2> HIDE DEF front
    <2>2. /\ front \in Seq(S) /\ Len(front) = IF 1 <= i - 1 THEN i - 1 - 1 + 1 ELSE 0
          /\ \A k \in 1 .. i - 1 - 1 + 1 : front[k] = s[1 + k - 1]
      BY <1>0, <2>1, SubSeqProperties DEF front
    <2> QED BY <1>0, <2>2
  <1>2. /\ back \in Seq(S) /\ Len(back) = Len(s) - i
        /\ \A k \in 1 .. Len(s) - i : back[k] = s[i + k]
    <2>1. \A k \in i + 1 .. Len(s) : s[k] \in S
      BY <1>0
    <2> HIDE DEF back
    <2>2. /\ back \in Seq(S)
          /\ Len(back) = IF i + 1 <= Len(s) THEN Len(s) - (i + 1) + 1 ELSE 0
          /\ \A k \in 1 .. Len(s) - (i + 1) + 1 : back[k] = s[i + 1 + k - 1]
      BY <1>0, <2>1, SubSeqProperties DEF back
    <2> QED BY <1>0, <2>2
  <1> HIDE DEF front, back
  <1>3. /\ front \o back \in Seq(S) /\ Len(front \o back) = Len(front) + Len(back)
        /\ \A k \in 1 .. Len(front) + Len(back) :
             (front \o back)[k] = IF k <= Len(front) THEN front[k] ELSE back[k - Len(front)]
    BY <1>1, <1>2, ConcatProperties
  <1>4. RemoveAt(s, i) = front \o back
    BY DEF RemoveAt, front, back
  <1>5. ASSUME NEW k \in 1 .. Len(s) - 1
        PROVE  (front \o back)[k] = IF k < i THEN s[k] ELSE s[k + 1]
    <2>1. CASE k < i
      BY <1>0, <1>1, <1>2, <1>3, <2>1
    <2>2. CASE ~(k < i)
      <3>1. k - Len(front) \in 1 .. Len(s) - i /\ i + (k - Len(front)) = k + 1
        BY <1>0, <1>1, <2>2
      <3>2. (front \o back)[k] = back[k - Len(front)]
        BY <1>0, <1>1, <1>2, <1>3, <2>2
      <3> QED BY <1>2, <2>2, <3>1, <3>2
    <2> QED BY <2>1, <2>2
  <1>6. Len(front) + Len(back) = Len(s) - 1
    BY <1>0, <1>1, <1>2
  <1> QED BY <1>3, <1>4, <1>5, <1>6

-----------------------------------------------------------------------------
(* The invariant.                                                          *)

Bar == [entries : Seq(WindowType), active : Nat, last : WindowIds \cup {None},
        floating : WindowType \cup {None}, visible : BOOLEAN]

\* One window by itself: no pane twice, the focus on one of them.
Sound(win) == IsInjective(win.panes) /\ win.active \in PanesOf(win)

\* The windows without regard to who shares panes: a pane that is being moved is
\* in two of them for a moment.
Whole(w) ==
    /\ w \in Bar
    /\ w.active \in DOMAIN w.entries
    /\ w.visible => w.floating # None
    /\ \A i, j \in DOMAIN w.entries : w.entries[i].id = w.entries[j].id => i = j
    /\ w.floating # None => w.floating.id \notin Ids(w) /\ Len(w.floating.panes) = 1
    /\ w.last \in Ids(w) \cup {None}
    /\ \A win \in All(w) : Sound(win)

Apart(ws) == \A u, v \in ws : u # v => PanesOf(u) \cap PanesOf(v) = {}

WInv ==
    /\ Whole(windows) /\ Apart(All(windows))
    /\ Shown(windows) \cap HiddenPanes = {}
    /\ closed \in ClosedType \cup {None} /\ request \in RequestType \cup {None}
    /\ status \in {"running", "exited", "panicked"}
    /\ Len(windows.entries) <= MaxWindows

-----------------------------------------------------------------------------
(* One window.                                                             *)

LEMMA PlaceProperties ==
    ASSUME NEW win \in WindowType, NEW p \in PanesOf(win)
    PROVE  PlaceOf(win, p) \in 1 .. Len(win.panes) /\ win.panes[PlaceOf(win, p)] = p
  <1>1. \E i \in DOMAIN win.panes : win.panes[i] = p
    BY DEF PanesOf, ToSet
  <1>2. DOMAIN win.panes = 1 .. Len(win.panes)
    BY DEF WindowType
  <1> QED BY <1>1, <1>2 DEF PlaceOf

LEMMA InsertedPane ==
    ASSUME NEW win \in WindowType, Sound(win), NEW p \in Panes, p \notin PanesOf(win),
           NEW i \in 1 .. Len(win.panes) + 1,
           NEW new, new = [win EXCEPT !.panes = InsertAt(@, i, p), !.active = p]
    PROVE  /\ new \in WindowType /\ Sound(new) /\ new.id = win.id
           /\ PanesOf(new) = PanesOf(win) \cup {p} /\ Len(new.panes) = Len(win.panes) + 1
  <1> DEFINE s == win.panes
             t == InsertAt(s, i, p)
  <1>1. /\ s \in Seq(Panes) /\ Len(s) \in Nat /\ DOMAIN s = 1 .. Len(s)
        /\ i \in 1 .. Len(s) + 1
    BY DEF WindowType
  <1>2. /\ t \in Seq(Panes) /\ Len(t) = Len(s) + 1
        /\ \A k \in 1 .. Len(s) + 1 : t[k] = IF k < i THEN s[k] ELSE IF k = i THEN p ELSE s[k - 1]
    <2> HIDE DEF s
    <2> QED BY ONLY <1>1, p \in Panes, InsertAtProperties
  <1>3. DOMAIN t = 1 .. Len(s) + 1
    BY <1>2, LenProperties
  <1>4. new \in WindowType /\ new.id = win.id /\ new.panes = t /\ new.active = p
    BY <1>2 DEF WindowType
  <1> HIDE DEF t, s
  <1>5. \A k \in 1 .. Len(s) : s[k] # p
    BY <1>1 DEF PanesOf, ToSet, s
  <1>6. \A j, k \in 1 .. Len(s) : s[j] = s[k] => j = k
    BY <1>1 DEF Sound, IsInjective, s
  <1>7. IsInjective(t)
    <2> SUFFICES ASSUME NEW j \in 1 .. Len(s) + 1, NEW k \in 1 .. Len(s) + 1, j < k,
                        t[j] = t[k]
                 PROVE  FALSE
      BY <1>1, <1>3 DEF IsInjective
    <2>1. CASE k < i
      BY <1>1, <1>2, <1>6, <2>1
    <2>2. CASE k = i
      BY <1>1, <1>2, <1>5, <2>2
    <2>3. CASE j = i
      <3>1. k - 1 \in 1 .. Len(s) /\ t[k] = s[k - 1] /\ t[j] = p
        BY <1>1, <1>2, <2>3
      <3> QED BY <1>5, <3>1
    <2>4. CASE k > i /\ j # i
      <3>1. k - 1 \in 1 .. Len(s) /\ t[k] = s[k - 1]
        BY <1>1, <1>2, <2>4
      <3>2. PICK l \in 1 .. Len(s) : l < k - 1 /\ t[j] = s[l]
        <4>1. CASE j < i
          BY <1>1, <1>2, <2>4, <4>1
        <4>2. CASE j > i
          <5>1. j - 1 \in 1 .. Len(s) /\ j - 1 < k - 1 /\ t[j] = s[j - 1]
            BY <1>1, <1>2, <4>2
          <5> QED BY <5>1
        <4> QED BY <1>1, <2>4, <4>1, <4>2
      <3> QED BY <1>6, <3>1, <3>2
    <2> QED BY <1>1, <2>1, <2>2, <2>3, <2>4
  <1>8. ToSet(t) = ToSet(s) \cup {p}
    <2>1. t[i] = p
      BY <1>1, <1>2
    <2>2. \A k \in 1 .. Len(s) : \E j \in 1 .. Len(s) + 1 : t[j] = s[k]
      <3> SUFFICES ASSUME NEW k \in 1 .. Len(s) PROVE \E j \in 1 .. Len(s) + 1 : t[j] = s[k]
        OBVIOUS
      <3>1. CASE k < i
        BY <1>1, <1>2, <3>1
      <3>2. CASE ~(k < i)
        <4>1. k + 1 \in 1 .. Len(s) + 1 /\ ~(k + 1 < i) /\ k + 1 # i /\ k + 1 - 1 = k
          BY <1>1, <3>2
        <4>2. t[k + 1] = s[k]
          BY <1>2, <4>1
        <4> QED BY <4>1, <4>2
      <3> QED BY <3>1, <3>2
    <2>3. \A j \in 1 .. Len(s) + 1 : t[j] = p \/ \E k \in 1 .. Len(s) : t[j] = s[k]
      <3> SUFFICES ASSUME NEW j \in 1 .. Len(s) + 1, j # i
                   PROVE  \E k \in 1 .. Len(s) : t[j] = s[k]
        BY <2>1
      <3>1. CASE j < i
        BY <1>1, <1>2, <3>1
      <3>2. CASE j > i
        <4>1. j - 1 \in 1 .. Len(s) /\ t[j] = s[j - 1]
          BY <1>1, <1>2, <3>2
        <4> QED BY <4>1
      <3> QED BY <3>1, <3>2, <1>1
    <2> QED BY <1>1, <1>3, <2>1, <2>2, <2>3 DEF ToSet
  <1> QED BY <1>1, <1>2, <1>4, <1>7, <1>8 DEF Sound, PanesOf, s

LEMMA SplitOffWindow ==
    ASSUME NEW win \in WindowType, Sound(win), NEW q \in PanesOf(win),
           NEW p \in Panes, p \notin PanesOf(win)
    PROVE  LET new == SplitOff(win, q, p)
           IN  /\ new \in WindowType /\ Sound(new) /\ new.id = win.id
               /\ PanesOf(new) = PanesOf(win) \cup {p} /\ Len(new.panes) = Len(win.panes) + 1
  <1>1. PlaceOf(win, q) + 1 \in 1 .. Len(win.panes) + 1
    BY PlaceProperties DEF WindowType
  <1>2. SplitOff(win, q, p) =
            [win EXCEPT !.panes = InsertAt(@, PlaceOf(win, q) + 1, p), !.active = p]
    BY DEF SplitOff
  <1> DEFINE new == SplitOff(win, q, p)
             i == PlaceOf(win, q) + 1
  <1> HIDE DEF new, i
  <1>3. new = [win EXCEPT !.panes = InsertAt(@, i, p), !.active = p]
    BY <1>2 DEF new, i
  <1>4. /\ new \in WindowType /\ Sound(new) /\ new.id = win.id
        /\ PanesOf(new) = PanesOf(win) \cup {p} /\ Len(new.panes) = Len(win.panes) + 1
    <2>1. i \in 1 .. Len(win.panes) + 1
      BY <1>1 DEF i
    <2> QED BY ONLY Zenon, <1>3, <2>1, win \in WindowType, Sound(win), p \in Panes,
               p \notin PanesOf(win), InsertedPane
  <1> QED BY <1>4 DEF new

LEMMA RemovedPane ==
    ASSUME NEW win \in WindowType, Sound(win), NEW p \in PanesOf(win), Len(win.panes) # 1
    PROVE  LET new == Removed(win, p)
           IN  /\ new \in WindowType /\ Sound(new) /\ new.id = win.id
               /\ PanesOf(new) = PanesOf(win) \ {p}
               /\ p \in PanesOf(win) /\ new # win
  <1> DEFINE s == win.panes
             i == PlaceOf(win, p)
             t == RemoveAt(s, i)
             new == Removed(win, p)
  <1>1. /\ s \in Seq(Panes) /\ Len(s) \in Nat /\ DOMAIN s = 1 .. Len(s) /\ win.active \in Panes
        /\ \A k \in 1 .. Len(s) : s[k] \in Panes
        /\ Len(s) # 1
    BY DEF WindowType
  <1>2. i \in 1 .. Len(s) /\ s[i] = p
    BY PlaceProperties
  <1> HIDE DEF i
  <1>3. /\ t \in Seq(Panes) /\ Len(t) = Len(s) - 1
        /\ \A k \in 1 .. Len(s) - 1 : t[k] = IF k < i THEN s[k] ELSE s[k + 1]
    BY <1>1, <1>2, RemoveAtProperties
  <1>4. DOMAIN t = 1 .. Len(s) - 1
    BY <1>3, LenProperties
  <1>5. Len(s) > 1
    <2> HIDE DEF s
    <2> QED BY ONLY <1>1, <1>2
  <1>6. /\ Heir(win, p) \in Panes
        /\ \E k \in 1 .. Len(s) : k # i /\ Heir(win, p) = s[k]
    <2>1. Heir(win, p) = IF i = Len(s) THEN s[i - 1] ELSE s[i + 1]
      BY DEF Heir, i
    <2> HIDE DEF s
    <2>2. \E k \in 1 .. Len(s) : k # i /\ Heir(win, p) = s[k]
      <3>0. Len(s) \in Nat /\ i \in 1 .. Len(s)
        BY ONLY <1>1, <1>2
      <3>1. CASE i = Len(s)
        <4>1. i - 1 \in 1 .. Len(s) /\ i - 1 # i
          BY ONLY <1>5, <3>0, <3>1
        <4> QED BY ONLY <2>1, <3>1, <4>1
      <3>2. CASE i # Len(s)
        <4>1. i + 1 \in 1 .. Len(s) /\ i + 1 # i
          BY ONLY <3>0, <3>2
        <4> QED BY ONLY <2>1, <3>2, <4>1
      <3> QED BY ONLY <3>1, <3>2
    <2> QED BY ONLY <1>1, <2>2
  <1>7. /\ new \in WindowType /\ new.id = win.id /\ new.panes = t
        /\ new.active = IF win.active = p THEN Heir(win, p) ELSE win.active
    BY <1>1, <1>3, <1>6 DEF WindowType, Removed, i
  <1> HIDE DEF t, s, new
  <1>8. \A j, k \in 1 .. Len(s) : s[j] = s[k] => j = k
    BY <1>1 DEF Sound, IsInjective, s
  <1>9. IsInjective(t)
    BY <1>1, <1>2, <1>3, <1>4, <1>8 DEF IsInjective
  <1>10. \A k \in 1 .. Len(s) : k # i => s[k] \in ToSet(t)
    <2> SUFFICES ASSUME NEW k \in 1 .. Len(s), k # i
                 PROVE  \E j \in 1 .. Len(s) - 1 : t[j] = s[k]
      BY <1>4 DEF ToSet
    <2>1. CASE k < i
      BY <1>1, <1>2, <1>3, <2>1
    <2>2. CASE k > i
      <3>1. k - 1 \in 1 .. Len(s) - 1 /\ t[k - 1] = s[k]
        BY <1>1, <1>2, <1>3, <2>2
      <3> QED BY <3>1
    <2> QED BY <1>1, <1>2, <2>1, <2>2
  <1>11. \A j \in 1 .. Len(s) - 1 : \E k \in 1 .. Len(s) : k # i /\ t[j] = s[k]
    <2> SUFFICES ASSUME NEW j \in 1 .. Len(s) - 1
                 PROVE  \E k \in 1 .. Len(s) : k # i /\ t[j] = s[k]
      OBVIOUS
    <2>1. CASE j < i
      BY <1>1, <1>2, <1>3, <2>1
    <2>2. CASE ~(j < i)
      <3>1. j + 1 \in 1 .. Len(s) /\ j + 1 # i /\ t[j] = s[j + 1]
        BY <1>1, <1>2, <1>3, <2>2
      <3> QED BY <3>1
    <2> QED BY <2>1, <2>2
  <1>12. ToSet(t) = ToSet(s) \ {p}
    <2>1. ASSUME NEW x \in ToSet(t) PROVE x \in ToSet(s) /\ x # p
      <3>1. PICK j \in 1 .. Len(s) - 1 : x = t[j]
        BY <1>4 DEF ToSet
      <3>2. PICK k \in 1 .. Len(s) : k # i /\ x = s[k]
        BY <1>11, <3>1
      <3> QED BY <1>1, <1>2, <1>8, <3>2 DEF ToSet, s
    <2>2. ASSUME NEW x \in ToSet(s), x # p PROVE x \in ToSet(t)
      <3>1. PICK k \in 1 .. Len(s) : x = s[k]
        BY <1>1 DEF ToSet, s
      <3> QED BY <1>2, <1>10, <2>2, <3>1
    <2> QED BY <2>1, <2>2
  <1>13. new.active \in ToSet(t)
    <2>1. win.active \in ToSet(s)
      BY DEF Sound, PanesOf, s
    <2> QED BY <1>6, <1>7, <1>10, <1>12, <2>1
  <1>14. new # win
    BY <1>7, <1>12 DEF PanesOf, s
  <1> QED BY <1>7, <1>9, <1>12, <1>13, <1>14 DEF Sound, PanesOf, s, new

LEMMA ExchangedPanes ==
    ASSUME NEW win \in WindowType, Sound(win), NEW p \in PanesOf(win), NEW q \in PanesOf(win)
    PROVE  LET new == Exchanged(win, p, q)
           IN  /\ new \in WindowType /\ Sound(new) /\ new.id = win.id
               /\ PanesOf(new) = PanesOf(win) /\ Len(new.panes) = Len(win.panes)
  <1> DEFINE s == win.panes
             other(x) == CASE x = p -> q [] x = q -> p [] OTHER -> x
             t == [i \in DOMAIN s |-> other(s[i])]
             new == Exchanged(win, p, q)
  <1>1. /\ s \in Seq(Panes) /\ Len(s) \in Nat /\ DOMAIN s = 1 .. Len(s)
        /\ \A k \in 1 .. Len(s) : s[k] \in Panes
    BY DEF WindowType
  <1>2. PICK i \in 1 .. Len(s), j \in 1 .. Len(s) : s[i] = p /\ s[j] = q
    BY PlaceProperties
  <1>3. \A k \in 1 .. Len(s) : other(s[k]) \in Panes /\ other(other(s[k])) = s[k]
    BY <1>1, <1>2
  <1>4. t \in Seq(Panes) /\ Len(t) = Len(s)
    BY <1>1, <1>3
  <1>5. /\ new \in WindowType /\ new.id = win.id /\ new.panes = t
        /\ new.active = win.active
    BY <1>4 DEF WindowType, Exchanged
  <1>6. DOMAIN t = 1 .. Len(s) /\ \A k \in 1 .. Len(s) : t[k] = other(s[k])
    BY <1>1
  <1> HIDE DEF t, s, new
  <1>7. \A k, l \in 1 .. Len(s) : s[k] = s[l] => k = l
    BY <1>1 DEF Sound, IsInjective, s
  <1>8. \A k, l \in 1 .. Len(s) : t[k] = t[l] => s[k] = s[l]
    BY <1>3, <1>6
  <1>9. IsInjective(t)
    BY <1>6, <1>7, <1>8 DEF IsInjective
  <1>10. ToSet(t) = ToSet(s)
    BY <1>1, <1>2, <1>6 DEF ToSet
  <1> QED BY <1>4, <1>5, <1>9, <1>10 DEF Sound, PanesOf, s, new

-----------------------------------------------------------------------------
(* The collection of windows.                                              *)

\* The record of the last window is not the active one.
Elsewhere(w) == w.last # TiledActive(w).id

\* Windows are found by their identity.
LEMMA Found ==
    ASSUME NEW w, Whole(w)
    PROVE  /\ w.entries \in Seq(WindowType) /\ Len(w.entries) \in Nat \ {0}
           /\ DOMAIN w.entries = 1 .. Len(w.entries) /\ w.active \in 1 .. Len(w.entries)
           /\ \A i \in 1 .. Len(w.entries) :
                /\ w.entries[i] \in WindowType /\ w.entries[i] \in All(w)
                /\ w.entries[i].id \in Ids(w) /\ Index(w, w.entries[i].id) = i
           /\ \A id \in Ids(w) :
                /\ Index(w, id) \in 1 .. Len(w.entries) /\ w.entries[Index(w, id)].id = id
                /\ ~IsFloating(w, id) /\ id \in WindowIds
           /\ \A win \in All(w) :
                /\ win \in WindowType /\ Sound(win)
                /\ IF IsFloating(w, win.id)
                   THEN win = w.floating /\ Len(win.panes) = 1
                   ELSE win.id \in Ids(w) /\ w.entries[Index(w, win.id)] = win
           /\ \A u, v \in All(w) : u.id = v.id => u = v
  <1>1. /\ w.entries \in Seq(WindowType) /\ w.active \in DOMAIN w.entries
        /\ w.floating \in WindowType \cup {None}
    BY DEF Whole, Bar
  <1>2. Len(w.entries) \in Nat /\ DOMAIN w.entries = 1 .. Len(w.entries)
    BY <1>1, LenProperties
  <1>3. Len(w.entries) # 0 /\ w.active \in 1 .. Len(w.entries)
    BY <1>1, <1>2
  <1>4. ASSUME NEW i \in 1 .. Len(w.entries)
        PROVE  /\ w.entries[i] \in WindowType /\ w.entries[i] \in All(w)
               /\ w.entries[i].id \in Ids(w) /\ Index(w, w.entries[i].id) = i
    <2>1. w.entries[i] \in WindowType
      BY <1>1
    <2>2. w.entries[i] \in All(w) /\ w.entries[i].id \in Ids(w)
      BY <1>2 DEF All, Ids, ToSet
    <2>3. \A j \in DOMAIN w.entries : w.entries[j].id = w.entries[i].id <=> j = i
      BY <1>2 DEF Whole
    <2>4. Index(w, w.entries[i].id) = i
      BY <1>2, <2>3 DEF Index
    <2> QED BY <2>1, <2>2, <2>4
  <1>5. ASSUME NEW id \in Ids(w)
        PROVE  /\ Index(w, id) \in 1 .. Len(w.entries) /\ w.entries[Index(w, id)].id = id
               /\ ~IsFloating(w, id) /\ id \in WindowIds
    <2>1. PICK i \in 1 .. Len(w.entries) : w.entries[i].id = id
      BY <1>2 DEF Ids
    <2>2. Index(w, id) = i
      BY <1>4, <2>1
    <2>3. ~IsFloating(w, id)
      BY DEF Whole, IsFloating
    <2>4. id \in WindowIds
      BY <1>4, <2>1 DEF WindowType
    <2> QED BY <2>1, <2>2, <2>3, <2>4
  <1>6. ASSUME NEW win \in All(w)
        PROVE  /\ win \in WindowType /\ Sound(win)
               /\ IF IsFloating(w, win.id)
                  THEN win = w.floating /\ Len(win.panes) = 1
                  ELSE win.id \in Ids(w) /\ w.entries[Index(w, win.id)] = win
    <2>1. Sound(win)
      BY DEF Whole
    <2>2. CASE win \in ToSet(w.entries)
      <3>1. PICK i \in 1 .. Len(w.entries) : win = w.entries[i]
        BY <1>2, <2>2 DEF ToSet
      <3> QED BY <1>4, <1>5, <2>1, <3>1
    <2>3. CASE w.floating # None /\ win = w.floating
      BY <1>1, <2>1, <2>3 DEF IsFloating, Whole
    <2> QED BY <2>2, <2>3 DEF All
  <1>7. \A u, v \in All(w) : u.id = v.id => u = v
    BY <1>6
  <1> QED BY <1>1, <1>2, <1>3, <1>4, <1>5, <1>6, <1>7

LEMMA HolderFound ==
    ASSUME NEW w, Whole(w), NEW p \in Shown(w)
    PROVE  Holder(w, p) \in All(w) /\ p \in PanesOf(Holder(w, p))
  <1>1. \E win \in All(w) : p \in PanesOf(win)
    BY DEF Shown
  <1> QED BY <1>1 DEF Holder

LEMMA ShownPanes ==
    ASSUME NEW w, Whole(w)
    PROVE  Shown(w) \subseteq Panes
  <1>1. \A win \in All(w) : PanesOf(win) \subseteq Panes
    BY Found DEF PanesOf, ToSet, WindowType
  <1> QED BY <1>1 DEF Shown

\* New contents change the window with their identity and nothing else.
LEMMA PutWindow ==
    ASSUME NEW w, Whole(w), NEW old \in All(w), NEW win \in WindowType,
           win.id = old.id, Sound(win), IsFloating(w, old.id) => Len(win.panes) = 1
    PROVE  LET v == Put(w, win)
           IN  /\ Whole(v) /\ All(v) = (All(w) \ {old}) \cup {win}
               /\ Ids(v) = Ids(w) /\ Len(v.entries) = Len(w.entries)
               /\ v.active = w.active /\ v.last = w.last /\ v.visible = w.visible
               /\ TiledActive(v).id = TiledActive(w).id
               /\ \A id : IsFloating(v, id) <=> IsFloating(w, id)
               /\ win # old /\ ~IsFloating(w, old.id) => win \in ToSet(v.entries) \ ToSet(w.entries)
               /\ win = old \/ IsFloating(w, old.id) => v.entries = w.entries
  <1> DEFINE v == Put(w, win)
             s == w.entries
             i == Index(w, win.id)
  <1>1. /\ s \in Seq(WindowType) /\ Len(s) \in Nat /\ DOMAIN s = 1 .. Len(s)
        /\ w \in Bar /\ w.active \in 1 .. Len(s)
    BY Found DEF Whole
  <1>2. win # None
    BY WorkspaceAssumption
  <1>3. CASE IsFloating(w, old.id)
    <2>1. old = w.floating /\ w.floating # None /\ old \notin ToSet(s)
      BY <1>3, Found DEF IsFloating, ToSet
    <2>2. v = [w EXCEPT !.floating = win]
      BY <1>3 DEF Put
    <2> HIDE DEF v
    <2>3. /\ v \in Bar /\ v.entries = s /\ v.floating = win /\ v.active = w.active
          /\ v.last = w.last /\ v.visible = w.visible
      BY <1>1, <2>2 DEF Bar
    <2>4. Ids(v) = Ids(w) /\ All(w) = ToSet(s) \cup {old} /\ All(v) = ToSet(s) \cup {win}
      BY <1>2, <2>1, <2>3 DEF Ids, All
    <2>5. Whole(v)
      BY <1>2, <1>3, <2>1, <2>3, <2>4 DEF Whole
    <2>6. \A id : IsFloating(v, id) <=> IsFloating(w, id)
      BY <1>2, <2>1, <2>3 DEF IsFloating
    <2> QED BY <1>3, <2>1, <2>3, <2>4, <2>5, <2>6 DEF TiledActive, v
  <1>4. CASE ~IsFloating(w, old.id)
    <2>1. i \in 1 .. Len(s) /\ s[i] = old
      BY <1>4, Found
    <2>2. v = [w EXCEPT !.entries[i] = win]
      BY <1>4 DEF Put
    <2> DEFINE t == [s EXCEPT ![i] = win]
    <2> HIDE DEF v, i
    <2>3. /\ t \in Seq(WindowType) /\ Len(t) = Len(s) /\ DOMAIN t = 1 .. Len(s)
          /\ \A j \in 1 .. Len(s) : t[j] = IF j = i THEN win ELSE s[j]
      BY <1>1, <2>1, ExceptSeq
    <2>4. /\ v \in Bar /\ v.entries = t /\ v.floating = w.floating /\ v.active = w.active
          /\ v.last = w.last /\ v.visible = w.visible
      BY <1>1, <2>2, <2>3 DEF Bar
    <2> HIDE DEF t
    <2>5. \A j \in 1 .. Len(s) : t[j].id = s[j].id
      BY <2>1, <2>3
    <2>6. Ids(v) = Ids(w)
      BY <1>1, <2>3, <2>4, <2>5 DEF Ids
    <2>7. \A j \in 1 .. Len(s) : s[j] = old <=> j = i
      BY <1>1, <2>1 DEF Whole
    <2>8. ToSet(t) = (ToSet(s) \ {old}) \cup {win}
      BY <1>1, <2>1, <2>3, <2>7 DEF ToSet
    <2>9. w.floating # None => w.floating # old
      BY <1>4 DEF IsFloating
    <2>10. All(v) = (All(w) \ {old}) \cup {win}
      BY <2>4, <2>8, <2>9 DEF All
    <2>11. Whole(v)
      <3>1. \A j, k \in DOMAIN t : t[j].id = t[k].id => j = k
        BY <1>1, <2>3, <2>5 DEF Whole
      <3>2. \A x \in All(v) : Sound(x)
        BY <2>10 DEF Whole
      <3> QED BY <1>1, <2>3, <2>4, <2>6, <3>1, <3>2 DEF Whole
    <2>12. win # old => win \in ToSet(t) \ ToSet(s)
      <3>1. \A x \in ToSet(s) : x.id = old.id => x = old
        BY <1>1, Found DEF ToSet
      <3> QED BY <2>8, <3>1
    <2>13. win = old => t = s
      BY <1>1, <2>1, <2>3, SeqEqual
    <2> QED BY <1>1, <1>4, <2>3, <2>4, <2>5, <2>6, <2>10, <2>11, <2>12, <2>13
            DEF TiledActive, IsFloating, v
  <1> QED BY <1>3, <1>4

\* Selecting moves the focus and nothing else, and remembers where it was.
LEMMA SelectedStep ==
    ASSUME NEW w, Whole(w), NEW id, id \in Ids(w) \/ IsFloating(w, id)
    PROVE  LET v == Selected(w, id)
           IN  /\ Whole(v) /\ v.entries = w.entries /\ v.floating = w.floating
               /\ Ids(v) = Ids(w) /\ All(v) = All(w)
               /\ Elsewhere(w) => Elsewhere(v)
               /\ id \in Ids(w) => ~v.visible /\ TiledActive(v).id = id
  <1> DEFINE v == Selected(w, id)
  <1>1. /\ w \in Bar /\ w.entries \in Seq(WindowType) /\ w.active \in 1 .. Len(w.entries)
        /\ DOMAIN w.entries = 1 .. Len(w.entries) /\ Len(w.entries) \in Nat
    BY Found DEF Whole
  <1>2. CASE IsFloating(w, id)
    <2>1. v = [w EXCEPT !.visible = TRUE] /\ w.floating # None
      BY <1>2 DEF Selected, IsFloating
    <2> HIDE DEF v
    <2>2. /\ v \in Bar /\ v.entries = w.entries /\ v.floating = w.floating
          /\ v.active = w.active /\ v.last = w.last /\ v.visible = TRUE
      BY <1>1, <2>1 DEF Bar
    <2>3. Ids(v) = Ids(w) /\ All(v) = All(w) /\ id \notin Ids(w)
      BY <1>2, <2>2, Found DEF Ids, All
    <2>4. Whole(v)
      <3>1. /\ \A x \in All(v) : Sound(x)
            /\ v.floating # None => v.floating.id \notin Ids(v) /\ Len(v.floating.panes) = 1
            /\ v.last \in Ids(v) \cup {None} /\ v.floating # None
        BY <2>1, <2>2, <2>3 DEF Whole
      <3>2. /\ v.active \in DOMAIN v.entries
            /\ \A i, j \in DOMAIN v.entries : v.entries[i].id = v.entries[j].id => i = j
        BY <2>2 DEF Whole
      <3> QED BY ONLY <2>2, <3>1, <3>2 DEF Whole
    <2> QED BY <2>2, <2>3, <2>4 DEF Elsewhere, TiledActive, v
  <1>3. CASE ~IsFloating(w, id)
    <2> DEFINE i == Index(w, id)
               last == IF i = w.active THEN w.last ELSE TiledActive(w).id
    <2>1. /\ id \in Ids(w) /\ i \in 1 .. Len(w.entries) /\ w.entries[i].id = id
          /\ i \in Nat
      BY <1>3, Found
    <2>2. v = [w EXCEPT !.visible = FALSE, !.active = i, !.last = last]
      BY <1>3 DEF Selected, Activated
    <2>3. TiledActive(w).id \in Ids(w) /\ TiledActive(w).id \in WindowIds
      BY <1>1, Found DEF TiledActive
    <2>4. last \in Ids(w) \cup {None} /\ last \in WindowIds \cup {None}
      BY <2>3, Found DEF Whole, Bar
    <2>5. Elsewhere(w) => last # id
      BY <1>1, <2>1 DEF Whole, Elsewhere, TiledActive
    <2> HIDE DEF v, i, last
    <2>6. /\ v \in Bar /\ v.entries = w.entries /\ v.floating = w.floating
          /\ v.active = i /\ v.last = last /\ v.visible = FALSE
      BY <1>1, <2>1, <2>2, <2>4 DEF Bar
    <2>7. Ids(v) = Ids(w) /\ All(v) = All(w)
      BY <2>6 DEF Ids, All
    <2>8. Whole(v)
      BY <1>1, <2>1, <2>4, <2>6, <2>7 DEF Whole
    <2> QED BY <2>1, <2>5, <2>6, <2>7, <2>8 DEF Elsewhere, TiledActive, v
  <1> QED BY <1>2, <1>3

\* The last window, if one is remembered: it is not the active one then.
LEMMA LastStep ==
    ASSUME NEW w, Whole(w)
    PROVE  LET v == SelectedLast(w)
           IN  /\ Whole(v) /\ v.entries = w.entries /\ v.floating = w.floating
               /\ Ids(v) = Ids(w) /\ All(v) = All(w)
               /\ Elsewhere(w) => Elsewhere(v)
  <1> DEFINE hidden == [w EXCEPT !.visible = FALSE]
             v == SelectedLast(w)
  <1>1. /\ hidden \in Bar /\ hidden.entries = w.entries /\ hidden.floating = w.floating
        /\ hidden.active = w.active /\ hidden.last = w.last /\ hidden.visible = FALSE
    BY DEF Whole, Bar
  <1>2. v = IF w.last \in Ids(w) THEN Activated(hidden, Index(w, w.last)) ELSE hidden
    BY DEF SelectedLast
  <1> HIDE DEF hidden, v
  <1>3. Ids(hidden) = Ids(w) /\ All(hidden) = All(w) /\ \A id : Index(hidden, id) = Index(w, id)
    BY <1>1 DEF Ids, All, Index
  <1>4. Whole(hidden) /\ (Elsewhere(w) => Elsewhere(hidden))
    BY <1>1, <1>3 DEF Whole, Elsewhere, TiledActive
  <1>5. CASE w.last \in Ids(w)
    <2>1. ~IsFloating(hidden, w.last)
      BY <1>3, <1>4, <1>5, Found
    <2>2. v = Selected(hidden, w.last)
      BY <1>2, <1>3, <1>5, <2>1 DEF Selected
    <2> QED BY <1>1, <1>3, <1>4, <1>5, <2>2, SelectedStep DEF v
  <1>6. CASE w.last \notin Ids(w)
    BY <1>1, <1>2, <1>3, <1>4, <1>6 DEF v
  <1> QED BY <1>5, <1>6

\* A window with a new identity takes the focus.
LEMMA InsertedWindow ==
    ASSUME NEW w, Whole(w), NEW win \in WindowType, Sound(win),
           \A u \in All(w) : u.id # win.id, NEW i \in 1 .. Len(w.entries) + 1
    PROVE  LET v == Inserted(w, i, win)
           IN  /\ Whole(v) /\ All(v) = All(w) \cup {win} /\ Ids(v) = Ids(w) \cup {win.id}
               /\ Len(v.entries) = Len(w.entries) + 1 /\ Elsewhere(v)
               /\ win \in ToSet(v.entries) \ ToSet(w.entries)
  <1> DEFINE v == Inserted(w, i, win)
             s == w.entries
             t == InsertAt(s, i, win)
  <1>1. /\ s \in Seq(WindowType) /\ Len(s) \in Nat /\ DOMAIN s = 1 .. Len(s)
        /\ w \in Bar /\ w.active \in 1 .. Len(s) /\ i \in 1 .. Len(s) + 1 /\ i \in Nat
        /\ \A k \in 1 .. Len(s) : s[k] \in WindowType /\ s[k].id # win.id
    BY Found DEF Whole
  <1>2. /\ t \in Seq(WindowType) /\ Len(t) = Len(s) + 1
        /\ \A k \in 1 .. Len(s) + 1 :
             t[k] = IF k < i THEN s[k] ELSE IF k = i THEN win ELSE s[k - 1]
    <2> HIDE DEF s
    <2> QED BY ONLY <1>1, win \in WindowType, InsertAtProperties, SMTT(60)
  <1>3. DOMAIN t = 1 .. Len(s) + 1
    BY <1>2, LenProperties
  <1>4. TiledActive(w).id \in Ids(w) /\ TiledActive(w).id \in WindowIds /\ TiledActive(w) \in All(w)
    BY <1>1, Found DEF TiledActive
  <1>5. v = [w EXCEPT !.visible = FALSE, !.last = TiledActive(w).id, !.entries = t, !.active = i]
    BY DEF Inserted
  <1> HIDE DEF v, t
  <1>6. /\ v \in Bar /\ v.entries = t /\ v.floating = w.floating /\ v.active = i
        /\ v.last = TiledActive(w).id /\ v.visible = FALSE
    BY <1>1, <1>2, <1>4, <1>5 DEF Bar
  <1>7. \A k \in 1 .. Len(s) : \E j \in 1 .. Len(s) + 1 : t[j] = s[k]
    <2> SUFFICES ASSUME NEW k \in 1 .. Len(s) PROVE \E j \in 1 .. Len(s) + 1 : t[j] = s[k]
      OBVIOUS
    <2>1. CASE k < i
      <3>1. k \in 1 .. Len(s) + 1
        BY <1>1
      <3> QED BY <1>2, <2>1, <3>1
    <2>2. CASE ~(k < i)
      <3>1. k + 1 \in 1 .. Len(s) + 1 /\ ~(k + 1 < i) /\ k + 1 # i /\ k + 1 - 1 = k
        BY <1>1, <2>2
      <3>2. t[k + 1] = s[k]
        BY <1>2, <3>1
      <3> QED BY <3>1, <3>2
    <2> QED BY <2>1, <2>2
  <1>8. ASSUME NEW j \in 1 .. Len(s) + 1, j # i
        PROVE  \E k \in 1 .. Len(s) : t[j] = s[k] /\ k = IF j < i THEN j ELSE j - 1
    <2>1. CASE j < i
      BY <1>1, <1>2, <2>1
    <2>2. CASE j > i
      <3>1. j - 1 \in 1 .. Len(s) /\ ~(j < i)
        BY <1>1, <2>2
      <3> QED BY <1>2, <1>8, <3>1
    <2> QED BY <1>1, <1>8, <2>1, <2>2
  <1>9. t[i] = win
    BY <1>1, <1>2
  <1>10. ToSet(t) = ToSet(s) \cup {win}
    <2>1. /\ ToSet(s) = {s[k] : k \in 1 .. Len(s)}
          /\ ToSet(t) = {t[k] : k \in 1 .. Len(s) + 1}
      BY ONLY <1>1, <1>3 DEF ToSet
    <2>2. \A j \in 1 .. Len(s) + 1 : t[j] = win \/ \E k \in 1 .. Len(s) : t[j] = s[k]
      BY <1>8, <1>9
    <2>3. ASSUME NEW x \in ToSet(t) PROVE x \in ToSet(s) \cup {win}
      BY ONLY <2>1, <2>2, <2>3
    <2>4. ASSUME NEW x \in ToSet(s) PROVE x \in ToSet(t)
      BY ONLY <1>7, <2>1, <2>4
    <2>5. win \in ToSet(t)
      BY ONLY <1>1, <1>9, <2>1
    <2> QED BY <2>3, <2>4, <2>5
  <1>11. Ids(v) = Ids(w) \cup {win.id}
    <2>1. Ids(w) = {x.id : x \in ToSet(s)} /\ Ids(v) = {x.id : x \in ToSet(t)}
      BY <1>1, <1>3, <1>6 DEF Ids, ToSet
    <2> QED BY <1>10, <2>1
  <1>12. All(v) = All(w) \cup {win}
    BY <1>6, <1>10 DEF All
  <1>13. \A j, k \in DOMAIN t : t[j].id = t[k].id => j = k
    <2> SUFFICES ASSUME NEW j \in 1 .. Len(s) + 1, NEW k \in 1 .. Len(s) + 1, t[j].id = t[k].id
                 PROVE  j = k
      BY <1>3
    <2>1. CASE j = i \/ k = i
      BY <1>1, <1>8, <1>9, <2>1
    <2>2. CASE j # i /\ k # i
      <3>1. PICK a \in 1 .. Len(s) : t[j] = s[a] /\ a = IF j < i THEN j ELSE j - 1
        BY <1>8, <2>2
      <3>2. PICK b \in 1 .. Len(s) : t[k] = s[b] /\ b = IF k < i THEN k ELSE k - 1
        BY <1>8, <2>2
      <3>3. a = b
        BY <1>1, <3>1, <3>2 DEF Whole
      <3> QED BY <1>1, <2>2, <3>1, <3>2, <3>3
    <2> QED BY <2>1, <2>2
  <1>14. w.floating # None => w.floating.id \notin Ids(v) /\ Len(w.floating.panes) = 1
    BY <1>11 DEF Whole, All
  <1>15. \A x \in All(v) : Sound(x)
    BY <1>12 DEF Whole
  <1>16. Whole(v)
    BY <1>1, <1>3, <1>4, <1>6, <1>11, <1>13, <1>14, <1>15 DEF Whole
  <1>17. Elsewhere(v)
    BY <1>4, <1>6, <1>9 DEF Elsewhere, TiledActive
  <1>18. win \notin ToSet(s)
    BY <1>1 DEF ToSet
  <1> QED BY <1>2, <1>6, <1>10, <1>11, <1>12, <1>16, <1>17, <1>18 DEF v

\* A window leaves, with the focus if it had it, and no record names it.
LEMMA ClosedWindow ==
    ASSUME NEW w, Whole(w), NEW id, NEW left,
           (id \in Ids(w) /\ Len(w.entries) # 1) \/ IsFloating(w, id)
    PROVE  LET v == Without(w, id, left)
           IN  /\ Whole(v) /\ All(v) = {u \in All(w) : u.id # id} /\ Ids(v) = Ids(w) \ {id}
               /\ Len(v.entries) <= Len(w.entries)
               /\ ~w.visible /\ Elsewhere(w) => Elsewhere(v)
               /\ IsFloating(w, id) => v.entries = w.entries
               /\ ~IsFloating(w, id) =>
                    /\ v.visible = w.visible
                    /\ TiledActive(w).id # id => TiledActive(v) = TiledActive(w)
  <1> DEFINE v == Without(w, id, left)
             s == w.entries
  <1>1. /\ s \in Seq(WindowType) /\ Len(s) \in Nat /\ DOMAIN s = 1 .. Len(s)
        /\ w \in Bar /\ w.active \in 1 .. Len(s) /\ w.active \in Nat
    BY Found DEF Whole
  <1>2. CASE IsFloating(w, id)
    <2>1. v = [w EXCEPT !.floating = None, !.visible = FALSE] /\ w.floating # None
      BY <1>2 DEF Without, WithoutFloating, IsFloating
    <2> HIDE DEF v
    <2>2. /\ v \in Bar /\ v.entries = w.entries /\ v.floating = None
          /\ v.active = w.active /\ v.last = w.last /\ v.visible = FALSE
      BY <1>1, <2>1 DEF Bar
    <2>3. Ids(v) = Ids(w) /\ All(v) = ToSet(s) /\ All(w) = ToSet(s) \cup {w.floating}
      BY <2>1, <2>2 DEF Ids, All
    <2>4. id = w.floating.id /\ id \notin Ids(w) /\ \A u \in ToSet(s) : u.id \in Ids(w)
      BY <1>1, <1>2, Found DEF IsFloating, ToSet
    <2>5. All(v) = {u \in All(w) : u.id # id}
      BY <2>3, <2>4
    <2>6. Whole(v)
      <3>1. /\ \A x \in All(v) : Sound(x)
            /\ v.last \in Ids(v) \cup {None}
        BY <2>1, <2>2, <2>3 DEF Whole
      <3>2. /\ v.active \in DOMAIN v.entries
            /\ \A i, j \in DOMAIN v.entries : v.entries[i].id = v.entries[j].id => i = j
        BY <2>2 DEF Whole
      <3> QED BY ONLY <2>2, <3>1, <3>2 DEF Whole
    <2> QED BY <1>1, <1>2, <2>2, <2>3, <2>4, <2>5, <2>6 DEF Elsewhere, TiledActive, v
  <1>3. CASE ~IsFloating(w, id)
    <2> DEFINE i == Index(w, id)
               t == RemoveAt(s, i)
               a == NextActive(w, i, left)
               next == Closed(w, i, left)
               last == IF w.last \in {id, Active(next).id} THEN None ELSE w.last
    <2>1. /\ id \in Ids(w) /\ id \in WindowIds /\ i \in 1 .. Len(s) /\ s[i].id = id
          /\ Len(s) # 1 /\ i \in Nat
      BY <1>3, Found
    <2>2. v = [next EXCEPT !.last = last] /\ next = [w EXCEPT !.entries = t, !.active = a]
      BY <1>1, <1>3 DEF Without, Closed, Bar
    <2> HIDE DEF v, i, next
    <2>3. /\ t \in Seq(WindowType) /\ Len(t) = Len(s) - 1
          /\ \A k \in 1 .. Len(s) - 1 : t[k] = IF k < i THEN s[k] ELSE s[k + 1]
      <3>1. s \in Seq(WindowType) /\ i \in 1 .. Len(s)
        BY <1>1, <2>1
      <3> HIDE DEF s
      <3> QED BY ONLY Zenon, <3>1, RemoveAtProperties DEF t
    <2>4. DOMAIN t = 1 .. Len(s) - 1
      BY <2>3, LenProperties
    <2>5. /\ a \in 1 .. Len(s) - 1 /\ a \in Nat
          /\ w.active < i => a = w.active
          /\ i < w.active => a = w.active - 1
      <3> HIDE DEF s
      <3>1. a = IF w.active > 1 /\ (i < w.active \/ (i = w.active /\ (left \/ i = Len(s))))
                THEN w.active - 1 ELSE w.active
        BY DEF NextActive, s
      <3>2. /\ Len(s) \in Nat /\ Len(s) # 1 /\ i \in 1 .. Len(s) /\ i \in Nat
            /\ w.active \in 1 .. Len(s) /\ w.active \in Nat
        BY <1>1, <2>1
      <3>3. Len(s) > 1
        <4>1. \A n \in Nat : \A k \in 1 .. n : n # 1 => n > 1
          BY ONLY TRUE
        <4> QED BY ONLY Zenon, <3>2, <4>1
      <3> HIDE DEF a
      <3>4. CASE w.active < i
        <4>1. ~(i < w.active) /\ i # w.active
          BY ONLY <3>2, <3>4
        <4>2. a = w.active
          BY ONLY <3>1, <4>1
        <4> QED BY ONLY <3>2, <3>4, <4>1, <4>2
      <3>5. CASE i < w.active
        <4>1. w.active > 1
          BY ONLY <3>2, <3>5
        <4>2. a = w.active - 1
          BY ONLY <3>1, <3>5, <4>1
        <4> QED BY ONLY <3>2, <3>5, <4>2
      <3>6. CASE i = w.active
        <4>1. CASE w.active > 1 /\ a = w.active - 1
          BY ONLY <3>2, <3>6, <4>1
        <4>2. CASE a = w.active /\ w.active < Len(s)
          BY ONLY <3>2, <3>6, <4>2
        <4>3. a = w.active - 1 \/ a = w.active
          BY ONLY <3>1
        <4>4. a = w.active - 1 => w.active > 1
          <5>1. a = w.active - 1 => a # w.active
            BY ONLY <3>2
          <5> QED BY ONLY <3>1, <5>1
        <4>5. a = w.active => w.active < Len(s)
          <5>1. w.active = Len(s) => w.active > 1 /\ i = Len(s)
            BY ONLY <3>3, <3>6
          <5>2. w.active = Len(s) => a = w.active - 1
            BY ONLY <3>1, <3>6, <5>1
          <5> QED BY ONLY <3>2, <5>2
        <4> QED BY ONLY <4>1, <4>2, <4>3, <4>4, <4>5
      <3> QED BY ONLY <3>2, <3>4, <3>5, <3>6
    <2> HIDE DEF t, a
    <2>6. /\ next \in Bar /\ next.entries = t /\ next.active = a /\ next.floating = w.floating
          /\ next.visible = w.visible /\ next.last = w.last
      BY <1>1, <2>2, <2>3, <2>5 DEF Bar
    <2>7. ASSUME NEW k \in 1 .. Len(s), k # i
          PROVE  \E j \in 1 .. Len(s) - 1 : t[j] = s[k]
      <3>1. CASE k < i
        <4>1. k \in 1 .. Len(s) - 1
          BY <1>1, <2>1, <3>1
        <4> QED BY <2>3, <3>1, <4>1
      <3>2. CASE k > i
        <4>1. k - 1 \in 1 .. Len(s) - 1 /\ ~(k - 1 < i) /\ k - 1 + 1 = k
          BY <1>1, <2>1, <3>2
        <4> QED BY <2>3, <4>1
      <3> QED BY <1>1, <2>1, <2>7, <3>1, <3>2
    <2>8. ASSUME NEW j \in 1 .. Len(s) - 1
          PROVE  \E k \in 1 .. Len(s) : k # i /\ t[j] = s[k] /\ k = IF j < i THEN j ELSE j + 1
      <3>1. CASE j < i
        <4>1. j \in 1 .. Len(s) /\ j # i
          BY <1>1, <2>1, <3>1
        <4> QED BY <2>3, <3>1, <4>1
      <3>2. CASE ~(j < i)
        <4>1. j + 1 \in 1 .. Len(s) /\ j + 1 # i
          BY <1>1, <2>1, <3>2
        <4> QED BY <2>3, <3>2, <4>1
      <3> QED BY <3>1, <3>2
    <2>9. \A k \in 1 .. Len(s) : s[k].id = id <=> k = i
      BY <1>1, <2>1 DEF Whole
    <2>10. ToSet(t) = {u \in ToSet(s) : u.id # id}
      <3>1. /\ ToSet(s) = {s[k] : k \in 1 .. Len(s)}
            /\ ToSet(t) = {t[k] : k \in 1 .. Len(s) - 1}
        BY ONLY <1>1, <2>4 DEF ToSet
      <3>2. ASSUME NEW x \in ToSet(t) PROVE x \in ToSet(s) /\ x.id # id
        BY ONLY <2>8, <2>9, <3>1, <3>2
      <3>3. ASSUME NEW x \in ToSet(s), x.id # id PROVE x \in ToSet(t)
        BY ONLY <2>7, <2>9, <3>1, <3>3
      <3> QED BY <3>2, <3>3
    <2>11. /\ v \in Bar /\ v.entries = t /\ v.active = a /\ v.floating = w.floating
           /\ v.visible = w.visible /\ v.last = last
      <3>1. last \in WindowIds \cup {None}
        BY <1>1 DEF Bar
      <3> HIDE DEF last
      <3> QED BY <2>2, <2>6, <3>1 DEF Bar
    <2>12. Ids(v) = Ids(w) \ {id}
      <3>1. Ids(w) = {x.id : x \in ToSet(s)} /\ Ids(v) = {x.id : x \in ToSet(t)}
        BY <1>1, <2>4, <2>11 DEF Ids, ToSet
      <3> QED BY <2>10, <3>1
    <2>13. w.floating # None => w.floating.id # id /\ w.floating.id \notin Ids(w)
      BY <1>3 DEF IsFloating, Whole
    <2>14. All(v) = {u \in All(w) : u.id # id}
      BY <2>10, <2>11, <2>13 DEF All
    <2>15. \A j, k \in DOMAIN t : t[j].id = t[k].id => j = k
      <3> SUFFICES ASSUME NEW j \in 1 .. Len(s) - 1, NEW k \in 1 .. Len(s) - 1, t[j].id = t[k].id
                   PROVE  j = k
        BY <2>4
      <3>1. PICK b \in 1 .. Len(s) : t[j] = s[b] /\ b # i /\ b = IF j < i THEN j ELSE j + 1
        BY <2>8
      <3>2. PICK c \in 1 .. Len(s) : t[k] = s[c] /\ c # i /\ c = IF k < i THEN k ELSE k + 1
        BY <2>8
      <3>3. b = c
        BY <1>1, <3>1, <3>2 DEF Whole
      <3> QED BY <1>1, <2>1, <3>1, <3>2, <3>3
    <2>16. v.last \in Ids(v) \cup {None}
      BY <2>11, <2>12 DEF Whole
    <2>17. Whole(v)
      <3>1. /\ \A x \in All(v) : Sound(x)
            /\ w.visible => w.floating # None
            /\ w.floating # None => w.floating.id \notin Ids(v) /\ Len(w.floating.panes) = 1
        BY <2>12, <2>14 DEF Whole
      <3> QED BY <2>4, <2>5, <2>11, <2>15, <2>16, <3>1 DEF Whole
    <2>18. ~w.visible => Elsewhere(v)
      <3>1. TiledActive(next) = TiledActive(v) /\ TiledActive(v) = t[a] /\ t[a] \in ToSet(t)
        BY <2>4, <2>5, <2>6, <2>11 DEF TiledActive, ToSet
      <3>2. t[a].id # None
        <4>1. t[a] \in WindowType
          BY <2>3, <2>5
        <4> QED BY ONLY <4>1, WorkspaceAssumption DEF WindowType
      <3>3. ~w.visible => Active(next) = t[a]
        BY <2>6, <3>1 DEF Active
      <3> QED BY <2>11, <3>1, <3>2, <3>3 DEF Elsewhere
    <2>19. TiledActive(w).id # id => TiledActive(v) = TiledActive(w)
      <3> SUFFICES ASSUME w.active # i PROVE t[a] = s[w.active]
        BY <1>1, <2>9, <2>11 DEF TiledActive
      <3>1. CASE w.active < i
        BY <1>1, <2>1, <2>3, <2>5, <3>1
      <3>2. CASE i < w.active
        <4>1. a \in 1 .. Len(s) - 1 /\ ~(a < i) /\ a + 1 = w.active
          BY <1>1, <2>1, <2>5, <3>2
        <4> QED BY <2>3, <4>1
      <3> QED BY <1>1, <2>1, <3>1, <3>2
    <2>20. Len(v.entries) <= Len(s)
      BY <1>1, <2>3, <2>11
    <2> HIDE DEF last
    <2> QED BY <1>3, <2>11, <2>12, <2>14, <2>17, <2>18, <2>19, <2>20 DEF v
  <1> QED BY <1>2, <1>3


\* Moving by one position around the edge is one-to-one.
LEMMA AroundRight ==
    ASSUME NEW n \in Nat, NEW f, \A k \in 1 .. n : f[k] = IF k = 1 THEN n ELSE k - 1
    PROVE  /\ \A k \in 1 .. n : f[k] \in 1 .. n
           /\ \A k, l \in 1 .. n : f[k] = f[l] => k = l
           /\ \A k \in 1 .. n : \E l \in 1 .. n : f[l] = k
  <1>1. ASSUME NEW k \in 1 .. n PROVE \E l \in 1 .. n : f[l] = k
    <2>1. CASE k = n
      BY <2>1
    <2>2. CASE k # n
      <3>1. k + 1 \in 1 .. n /\ k + 1 # 1 /\ k + 1 - 1 = k
        BY <2>2
      <3>2. f[k + 1] = k
        BY <3>1
      <3> QED BY <3>1, <3>2
    <2> QED BY <2>1, <2>2
  <1> QED BY <1>1

\* In the other direction too.
LEMMA AroundLeft ==
    ASSUME NEW n \in Nat, NEW f, \A k \in 1 .. n : f[k] = IF k = n THEN 1 ELSE k + 1
    PROVE  /\ \A k \in 1 .. n : f[k] \in 1 .. n
           /\ \A k, l \in 1 .. n : f[k] = f[l] => k = l
           /\ \A k \in 1 .. n : \E l \in 1 .. n : f[l] = k
  <1>1. ASSUME NEW k \in 1 .. n PROVE \E l \in 1 .. n : f[l] = k
    <2>1. CASE k = 1
      BY <2>1
    <2>2. CASE k # 1
      <3>1. k - 1 \in 1 .. n /\ k - 1 # n /\ k - 1 + 1 = k
        BY <2>2
      <3>2. f[k - 1] = k
        BY <3>1
      <3> QED BY <3>1, <3>2
    <2> QED BY <2>1, <2>2
  <1> QED BY <1>1

\* And so is changing places with a neighbor.
LEMMA Exchange ==
    ASSUME NEW n \in Nat, NEW f, NEW i \in 1 .. n, NEW j \in 1 .. n,
           \A k \in 1 .. n : f[k] = IF k = i THEN j ELSE IF k = j THEN i ELSE k
    PROVE  /\ \A k \in 1 .. n : f[k] \in 1 .. n
           /\ \A k, l \in 1 .. n : f[k] = f[l] => k = l
           /\ \A k \in 1 .. n : \E l \in 1 .. n : f[l] = k
  OBVIOUS

\* The windows change places, and the focus can be found again.
LEMMA ReorderedStep ==
    ASSUME NEW w, Whole(w), NEW id \in Ids(w), Len(w.entries) > 1, NEW right \in BOOLEAN
    PROVE  LET m == Reordered(w, id, right)
               v == [m EXCEPT !.active = Index(m, TiledActive(w).id)]
           IN  /\ Whole(m) /\ All(m) = All(w) /\ Len(m.entries) = Len(w.entries)
               /\ Whole(v) /\ All(v) = All(w) /\ Len(v.entries) = Len(w.entries)
               /\ v.last = w.last /\ TiledActive(v) = TiledActive(w) /\ v.visible = w.visible
  <1> DEFINE s == w.entries
             n == Len(s)
             i == Index(w, id)
             j == IF right THEN i + 1 ELSE i - 1
             f == [k \in 1 .. n |->
                     IF right /\ i = n THEN (IF k = 1 THEN n ELSE k - 1)
                     ELSE IF ~right /\ i = 1 THEN (IF k = n THEN 1 ELSE k + 1)
                     ELSE IF k = i THEN j ELSE IF k = j THEN i ELSE k]
             t == [k \in 1 .. n |-> s[f[k]]]
             m == Reordered(w, id, right)
             a == Index(m, TiledActive(w).id)
             v == [m EXCEPT !.active = a]
  <1>1. /\ s \in Seq(WindowType) /\ n \in Nat /\ n > 1 /\ DOMAIN s = 1 .. n
        /\ w \in Bar /\ w.active \in 1 .. n /\ i \in 1 .. n
        /\ \A k \in 1 .. n : s[k] \in WindowType
    BY Found DEF Whole
  <1>2. m = [w EXCEPT !.entries = t]
    BY DEF Reordered
  <1> HIDE DEF i, n
  <1>3. /\ \A k \in 1 .. n : f[k] \in 1 .. n
        /\ \A k, l \in 1 .. n : f[k] = f[l] => k = l
        /\ \A k \in 1 .. n : \E l \in 1 .. n : f[l] = k
    <2>1. CASE right /\ i = n
      <3>1. \A k \in 1 .. n : f[k] = IF k = 1 THEN n ELSE k - 1
        BY <2>1
      <3> HIDE DEF f
      <3>2. n \in Nat /\ i \in 1 .. n
        BY <1>1
      <3> QED BY ONLY SMT, <3>1, <3>2, AroundRight
    <2>2. CASE ~right /\ i = 1
      <3>1. \A k \in 1 .. n : f[k] = IF k = n THEN 1 ELSE k + 1
        BY <2>2
      <3> HIDE DEF f
      <3>2. n \in Nat /\ i \in 1 .. n
        BY <1>1
      <3> QED BY ONLY SMT, <3>1, <3>2, AroundLeft
    <2>3. CASE ~(right /\ i = n) /\ ~(~right /\ i = 1)
      <3>1. \A k \in 1 .. n : f[k] = IF k = i THEN j ELSE IF k = j THEN i ELSE k
        BY <2>3
      <3>2. j \in 1 .. n
        BY <1>1, <2>3
      <3> HIDE DEF f, j
      <3> QED BY ONLY <1>1, <3>1, <3>2, Exchange
    <2> QED BY <2>1, <2>2, <2>3
  <1> HIDE DEF f, m
  <1>4. /\ t \in Seq(WindowType) /\ Len(t) = n /\ DOMAIN t = 1 .. n
        /\ \A k \in 1 .. n : t[k] = s[f[k]]
    <2>1. \A k \in 1 .. n : s[f[k]] \in WindowType
      BY <1>1, <1>3
    <2> HIDE DEF s
    <2> QED BY ONLY <1>1, <2>1 DEF t
  <1>5. ToSet(t) = ToSet(s)
    <2>1. ToSet(t) = {t[k] : k \in 1 .. n} /\ ToSet(s) = {s[k] : k \in 1 .. n}
      BY <1>1, <1>4 DEF ToSet
    <2> HIDE DEF t
    <2>2. \A k \in 1 .. n : f[k] \in 1 .. n /\ t[k] = s[f[k]]
      BY <1>3, <1>4
    <2>3. ASSUME NEW x \in ToSet(t) PROVE x \in ToSet(s)
      <3>1. PICK k \in 1 .. n : x = t[k]
        BY ONLY Zenon, <2>1, <2>3
      <3> QED BY ONLY Zenon, <2>1, <2>2, <3>1
    <2>4. ASSUME NEW x \in ToSet(s) PROVE x \in ToSet(t)
      <3>1. PICK k \in 1 .. n : x = s[k]
        BY ONLY Zenon, <2>1, <2>4
      <3>2. PICK l \in 1 .. n : f[l] = k
        BY <1>3
      <3> QED BY ONLY Zenon, <2>1, <2>2, <3>1, <3>2
    <2> QED BY <2>3, <2>4
  <1> HIDE DEF t
  <1>6. /\ m \in Bar /\ m.entries = t /\ m.active = w.active /\ m.floating = w.floating
        /\ m.last = w.last /\ m.visible = w.visible
    BY <1>1, <1>2, <1>4 DEF Bar
  <1>7. Ids(m) = Ids(w)
    <2>1. Ids(w) = {x.id : x \in ToSet(s)} /\ Ids(m) = {x.id : x \in ToSet(t)}
      BY <1>1, <1>4, <1>6 DEF Ids, ToSet
    <2> QED BY <1>5, <2>1
  <1>8. All(m) = All(w)
    BY <1>5, <1>6 DEF All
  <1>9. \A k, l \in DOMAIN t : t[k].id = t[l].id => k = l
    <2> SUFFICES ASSUME NEW k \in 1 .. n, NEW l \in 1 .. n, t[k].id = t[l].id PROVE k = l
      BY <1>4
    <2>1. \A x, y \in 1 .. n : s[x].id = s[y].id => x = y
      BY <1>1 DEF Whole
    <2>2. f[k] \in 1 .. n /\ f[l] \in 1 .. n /\ s[f[k]].id = s[f[l]].id
      BY <1>3, <1>4
    <2>3. f[k] = f[l]
      BY ONLY Zenon, <2>1, <2>2
    <2> QED BY <1>3, <2>3
  <1>10. /\ \A x \in All(m) : Sound(x)
         /\ m.visible => m.floating # None
         /\ m.floating # None => m.floating.id \notin Ids(m) /\ Len(m.floating.panes) = 1
         /\ m.last \in Ids(m) \cup {None}
    BY <1>6, <1>7, <1>8 DEF Whole
  <1>11. Whole(m)
    BY <1>1, <1>4, <1>6, <1>9, <1>10 DEF Whole
  <1>12. a \in 1 .. n /\ a \in Nat /\ t[a] = TiledActive(w)
    <2>1. TiledActive(w) \in ToSet(t)
      BY <1>1, <1>5 DEF TiledActive, ToSet
    <2>2. PICK k \in 1 .. n : t[k] = TiledActive(w)
      BY <1>4, <2>1 DEF ToSet
    <2>3. a = k
      BY <1>4, <1>6, <1>11, <2>2, Found
    <2> QED BY <1>1, <2>2, <2>3
  <1> HIDE DEF a
  <1>13. /\ v \in Bar /\ v.entries = t /\ v.active = a /\ v.floating = w.floating
         /\ v.last = w.last /\ v.visible = w.visible
    BY <1>6, <1>12 DEF Bar
  <1> HIDE DEF v
  <1>14. Ids(v) = Ids(m) /\ All(v) = All(m)
    BY <1>6, <1>13 DEF Ids, All
  <1>15. Whole(v)
    BY <1>4, <1>6, <1>9, <1>10, <1>12, <1>13, <1>14 DEF Whole
  <1> QED BY <1>4, <1>6, <1>8, <1>11, <1>12, <1>13, <1>14, <1>15 DEF TiledActive, v, m, n, a

-----------------------------------------------------------------------------
(* New identities.                                                         *)

LEMMA WithAnother ==
    ASSUME NEW S, IsFiniteSet(S), NEW x, NEW T, T \subseteq S \cup {x}
    PROVE  IsFiniteSet(T) /\ Cardinality(T) <= Cardinality(S) + 1
  <1>1. /\ IsFiniteSet(S \cup {x}) /\ Cardinality(S) \in Nat
        /\ Cardinality(S \cup {x}) = IF x \in S THEN Cardinality(S) ELSE Cardinality(S) + 1
    BY FS_AddElement, FS_CardinalityType
  <1>2. Cardinality(S \cup {x}) <= Cardinality(S) + 1 /\ Cardinality(S \cup {x}) \in Nat
    BY ONLY <1>1
  <1>3. IsFiniteSet(T) /\ Cardinality(T) <= Cardinality(S \cup {x}) /\ Cardinality(T) \in Nat
    BY <1>1, FS_Subset, FS_CardinalityType
  <1> QED BY ONLY <1>1, <1>2, <1>3

\* There are at most as many identities as places.
LEMMA IdsCounted ==
    ASSUME NEW w, Whole(w)
    PROVE  IsFiniteSet(Ids(w)) /\ Cardinality(Ids(w)) <= Len(w.entries)
  <1> DEFINE n == Len(w.entries)
             f == [i \in 1 .. n |-> w.entries[i].id]
  <1>1. n \in Nat /\ DOMAIN w.entries = 1 .. n /\ Ids(w) = {f[i] : i \in 1 .. n}
    <2>1. n \in Nat /\ DOMAIN w.entries = 1 .. n
      BY Found
    <2>2. \A i \in 1 .. n : f[i] = w.entries[i].id
      OBVIOUS
    <2> HIDE DEF n, f
    <2> QED BY <2>1, <2>2 DEF Ids
  <1>2. f \in Surjection(1 .. n, Ids(w))
    <2>1. f \in [1 .. n -> Ids(w)]
      BY <1>1
    <2> QED BY <1>1, <2>1 DEF Surjection
  <1> HIDE DEF n, f
  <1>3. IsFiniteSet(1 .. n) /\ Cardinality(1 .. n) = n
    <2>1. 1 \in Int /\ n \in Int
      BY <1>1
    <2>2. IsFiniteSet(1 .. n) /\ Cardinality(1 .. n) = IF 1 > n THEN 0 ELSE n - 1 + 1
      BY ONLY <2>1, FS_Interval
    <2> QED BY <1>1, <2>2
  <1> QED BY <1>2, <1>3, FS_Surjection DEF n

\* Windows at the limit, the floating one, the close that waits and the one to
\* undo do not use up the identities that WorkspaceAssumption asks for.
LEMMA NewIdIsSpare ==
    ASSUME WInv, Room \/ windows.floating = None
    PROVE  /\ NewId \in WindowIds /\ NewId \notin Ids(windows)
           /\ \A u \in All(windows) : u.id # NewId
           /\ closed # None => closed.window # NewId
           /\ request # None => request.window # NewId
  <1> DEFINE A == Ids(windows) \cup (IF windows.floating = None THEN {} ELSE {windows.floating.id})
             B == A \cup (IF closed = None THEN {} ELSE {closed.window})
             C == B \cup (IF request = None THEN {} ELSE {request.window})
             n == Len(windows.entries)
  <1>1. Whole(windows) /\ n \in Nat /\ n <= MaxWindows /\ MaxWindows \in Nat
    BY Found, WorkspaceAssumption DEF WInv
  <1>2. {win.id : win \in All(windows)} = A
    <2>1. Ids(windows) = {win.id : win \in ToSet(windows.entries)}
      BY DEF Ids, ToSet
    <2> QED BY <2>1 DEF All
  <1>3. SpareIds = WindowIds \ C
    BY <1>2 DEF SpareIds
  <1>4. IsFiniteSet(Ids(windows)) /\ Cardinality(Ids(windows)) <= n
        /\ Cardinality(Ids(windows)) \in Nat
    BY <1>1, IdsCounted, FS_CardinalityType
  <1>5. IsFiniteSet(A) /\ Cardinality(A) <= MaxWindows /\ Cardinality(A) \in Nat
    <2>1. CASE windows.floating = None
      <3>1. A = Ids(windows)
        BY <2>1
      <3> HIDE DEF A, n
      <3> QED BY ONLY <1>1, <1>4, <3>1
    <2>2. CASE windows.floating # None
      <3>1. A = Ids(windows) \cup {windows.floating.id}
        BY <2>2
      <3>2. n < MaxWindows
        BY <2>2 DEF Room
      <3> HIDE DEF A, n
      <3>3. IsFiniteSet(A) /\ Cardinality(A) <= Cardinality(Ids(windows)) + 1
            /\ Cardinality(A) \in Nat
        BY <1>4, <3>1, WithAnother, FS_CardinalityType
      <3> QED BY ONLY <1>1, <1>4, <3>2, <3>3
    <2> QED BY <2>1, <2>2
  <1> HIDE DEF A
  <1>6. IsFiniteSet(B) /\ Cardinality(B) <= Cardinality(A) + 1 /\ Cardinality(B) \in Nat
    <2>1. B \subseteq A \cup {closed.window}
      OBVIOUS
    <2> HIDE DEF B
    <2> QED BY <1>5, <2>1, WithAnother, FS_CardinalityType
  <1> HIDE DEF B
  <1>7. IsFiniteSet(C) /\ Cardinality(C) <= Cardinality(B) + 1 /\ Cardinality(C) \in Nat
    <2>1. C \subseteq B \cup {request.window}
      OBVIOUS
    <2> HIDE DEF C
    <2> QED BY <1>6, <2>1, WithAnother, FS_CardinalityType
  <1> HIDE DEF C
  <1>8. SpareIds # {}
    <2> SUFFICES ASSUME WindowIds \subseteq C PROVE FALSE
      BY <1>3
    <2>1. IsFiniteSet(WindowIds) /\ Cardinality(WindowIds) <= Cardinality(C)
      BY <1>7, FS_Subset
    <2>2. Cardinality(WindowIds) \in Nat /\ Cardinality(WindowIds) >= MaxWindows + 3
      BY <2>1, WorkspaceAssumption, FS_CardinalityType
    <2> QED BY ONLY <1>1, <1>5, <1>6, <1>7, <2>1, <2>2
  <1>9. NewId \in SpareIds
    BY <1>8 DEF NewId
  <1> QED BY <1>2, <1>3, <1>9 DEF A, B, C

-----------------------------------------------------------------------------
(* Who has which pane, and what a step does to it.                         *)

Owns(w, id, p) == \E win \in All(w) : win.id = id /\ p \in PanesOf(win)

Same(w, v)           == \A id, r : Owns(v, id, r) <=> Owns(w, id, r)
Arrives(w, v, p, to) == \A id, r : Owns(v, id, r) <=> IF r = p THEN id = to ELSE Owns(w, id, r)
Leaves(w, v, p)      == \A id, r : Owns(v, id, r) <=> r # p /\ Owns(w, id, r)
Empties(w, v, gone)  == \A id, r : Owns(v, id, r) <=> id # gone /\ Owns(w, id, r)

\* What LastIsElsewhere and FocusKept say of one step.
LooksBack(w, v) == ~w.visible /\ Elsewhere(w) => Elsewhere(v)

Steady(w, v) ==
    /\ v.entries # w.entries
    /\ ToSet(v.entries) \subseteq ToSet(w.entries)
    /\ TiledActive(w) \in ToSet(v.entries)
    => TiledActive(v) = TiledActive(w) /\ v.visible = w.visible

\* A window is known by its identity, and so is what it has.
LEMMA OwnsWhole ==
    ASSUME NEW w, Whole(w)
    PROVE  /\ \A win \in All(w) : \A p : Owns(w, win.id, p) <=> p \in PanesOf(win)
           /\ \A p : p \in Shown(w) <=> \E id : Owns(w, id, p)
           /\ Apart(All(w)) <=> \A p, id, jd : Owns(w, id, p) /\ Owns(w, jd, p) => id = jd
  <1>1. \A u, v \in All(w) : u.id = v.id => u = v
    BY Found
  <1>2. \A win \in All(w) : \A p : Owns(w, win.id, p) <=> p \in PanesOf(win)
    BY <1>1 DEF Owns
  <1>3. \A p : p \in Shown(w) <=> \E id : Owns(w, id, p)
    BY DEF Owns, Shown
  <1>4. ASSUME Apart(All(w)), NEW p, NEW id, NEW jd, Owns(w, id, p), Owns(w, jd, p)
        PROVE  id = jd
    BY <1>4 DEF Owns, Apart
  <1>5. ASSUME \A p, id, jd : Owns(w, id, p) /\ Owns(w, jd, p) => id = jd
        PROVE  Apart(All(w))
    BY <1>1, <1>2, <1>5 DEF Apart
  <1> QED BY <1>2, <1>3, <1>4, <1>5

LEMMA HolderIs ==
    ASSUME NEW w, Whole(w), Apart(All(w)), NEW p \in Shown(w)
    PROVE  /\ Holder(w, p) \in All(w) /\ Holder(w, p) \in WindowType /\ Sound(Holder(w, p))
           /\ p \in PanesOf(Holder(w, p)) /\ p \in Panes
           /\ \A id : Owns(w, id, p) <=> id = Holder(w, p).id
           /\ \A win \in All(w) : p \in PanesOf(win) => win = Holder(w, p)
  <1>1. Holder(w, p) \in All(w) /\ p \in PanesOf(Holder(w, p)) /\ p \in Panes
    BY HolderFound, ShownPanes
  <1>2. \A win \in All(w) : p \in PanesOf(win) => win = Holder(w, p)
    BY <1>1 DEF Apart
  <1> QED BY <1>1, <1>2, Found DEF Owns

\* However panes come and go, none is in two windows afterwards.
LEMMA StaysApart ==
    ASSUME NEW w, Whole(w), Apart(All(w)), NEW v, Whole(v),
           \/ Same(w, v)
           \/ \E p : Leaves(w, v, p) \/ \E to : Arrives(w, v, p, to)
           \/ \E gone : Empties(w, v, gone)
    PROVE  Apart(All(v))
  <1>1. \A p, id, jd : Owns(w, id, p) /\ Owns(w, jd, p) => id = jd
    BY OwnsWhole
  <1>2. \A p, id, jd : Owns(v, id, p) /\ Owns(v, jd, p) => id = jd
    <2>1. CASE Same(w, v)
      BY <1>1, <2>1 DEF Same
    <2>2. CASE \E p : Leaves(w, v, p)
      BY <1>1, <2>2 DEF Leaves
    <2>3. CASE \E p, to : Arrives(w, v, p, to)
      BY <1>1, <2>3 DEF Arrives
    <2>4. CASE \E gone : Empties(w, v, gone)
      BY <1>1, <2>4 DEF Empties
    <2> QED BY <2>1, <2>2, <2>3, <2>4
  <1> QED BY <1>2, OwnsWhole

LEMMA OwnsPut ==
    ASSUME NEW w, Whole(w), NEW v, NEW old \in All(w), NEW win, win.id = old.id,
           All(v) = (All(w) \ {old}) \cup {win}
    PROVE  \A id, p : Owns(v, id, p) <=> IF id = old.id THEN p \in PanesOf(win) ELSE Owns(w, id, p)
  <1>1. \A u \in All(w) : u.id = old.id => u = old
    BY Found
  <1> QED BY <1>1 DEF Owns

LEMMA OwnsClosed ==
    ASSUME NEW w, NEW v, NEW gone, All(v) = {u \in All(w) : u.id # gone}
    PROVE  Empties(w, v, gone)
  BY DEF Owns, Empties

-----------------------------------------------------------------------------
(* The operations that handlers are made of.                               *)

\* New contents for a window, which takes the focus.
LEMMA Refocused ==
    ASSUME NEW w, Whole(w), NEW old \in All(w), NEW win \in WindowType,
           win.id = old.id, Sound(win), IsFloating(w, old.id) => Len(win.panes) = 1
    PROVE  LET v == Selected(Put(w, win), win.id)
           IN  /\ Whole(v) /\ All(v) = (All(w) \ {old}) \cup {win}
               /\ Len(v.entries) = Len(w.entries)
               /\ LooksBack(w, v) /\ Steady(w, v)
  <1> DEFINE m == Put(w, win)
             v == Selected(m, win.id)
  <1>1. /\ Whole(m) /\ All(m) = (All(w) \ {old}) \cup {win}
        /\ Ids(m) = Ids(w) /\ Len(m.entries) = Len(w.entries)
        /\ m.active = w.active /\ m.last = w.last /\ m.visible = w.visible
        /\ TiledActive(m).id = TiledActive(w).id
        /\ \A id : IsFloating(m, id) <=> IsFloating(w, id)
        /\ win # old /\ ~IsFloating(w, old.id) => win \in ToSet(m.entries) \ ToSet(w.entries)
        /\ win = old \/ IsFloating(w, old.id) => m.entries = w.entries
    BY PutWindow
  <1> HIDE DEF m
  <1>2. win.id \in Ids(m) \/ IsFloating(m, win.id)
    BY <1>1, Found
  <1>3. /\ Whole(v) /\ v.entries = m.entries /\ v.floating = m.floating
        /\ Ids(v) = Ids(m) /\ All(v) = All(m)
        /\ Elsewhere(m) => Elsewhere(v)
    BY <1>1, <1>2, SelectedStep
  <1>4. LooksBack(w, v)
    BY <1>1, <1>3 DEF LooksBack, Elsewhere
  <1>5. Steady(w, v)
    BY <1>1, <1>3 DEF Steady
  <1> QED BY <1>1, <1>3, <1>4, <1>5 DEF m

\* A window leaves and takes its panes with it.
LEMMA WindowLeaves ==
    ASSUME NEW w, Whole(w), NEW id, NEW left,
           (id \in Ids(w) /\ Len(w.entries) # 1) \/ IsFloating(w, id)
    PROVE  LET v == Without(w, id, left)
           IN  /\ Whole(v) /\ Len(v.entries) <= Len(w.entries) /\ Empties(w, v, id)
               /\ LooksBack(w, v) /\ Steady(w, v)
  <1> DEFINE v == Without(w, id, left)
  <1>1. /\ Whole(v) /\ All(v) = {u \in All(w) : u.id # id} /\ Ids(v) = Ids(w) \ {id}
        /\ Len(v.entries) <= Len(w.entries)
        /\ ~w.visible /\ Elsewhere(w) => Elsewhere(v)
        /\ IsFloating(w, id) => v.entries = w.entries
        /\ ~IsFloating(w, id) =>
             /\ v.visible = w.visible
             /\ TiledActive(w).id # id => TiledActive(v) = TiledActive(w)
    BY ClosedWindow
  <1> HIDE DEF v
  <1>2. TiledActive(w) \in ToSet(v.entries) => TiledActive(w).id # id
    <2>1. \A x \in ToSet(v.entries) : x.id \in Ids(v)
      BY DEF ToSet, Ids
    <2> QED BY <1>1, <2>1
  <1>3. Steady(w, v)
    BY <1>1, <1>2 DEF Steady
  <1>4. Empties(w, v, id)
    BY <1>1, OwnsClosed
  <1> QED BY <1>1, <1>3, <1>4 DEF LooksBack, v

\* The only pane of a window.
LEMMA LonePane ==
    ASSUME NEW win \in WindowType, Len(win.panes) = 1, NEW p \in PanesOf(win)
    PROVE  PanesOf(win) = {p}
  <1>1. win.panes \in Seq(Panes) /\ DOMAIN win.panes = 1 .. 1
    BY LenProperties DEF WindowType
  <1>2. ToSet(win.panes) = {win.panes[1]}
    BY ONLY <1>1 DEF ToSet
  <1> QED BY <1>2 DEF PanesOf

\* A pane leaves, and its window with it if it was the only one.
LEMMA PaneLeaves ==
    ASSUME NEW w, Whole(w), Apart(All(w)), NEW p \in Shown(w), NEW left,
           \/ Len(Holder(w, p).panes) # 1 \/ Len(w.entries) # 1
           \/ IsFloating(w, Holder(w, p).id)
    PROVE  LET v == WithoutPane(w, p, left)
           IN  /\ Whole(v) /\ Len(v.entries) <= Len(w.entries) /\ Leaves(w, v, p)
               /\ LooksBack(w, v) /\ Steady(w, v)
  <1> DEFINE win == Holder(w, p)
             v == WithoutPane(w, p, left)
  <1>1. /\ win \in All(w) /\ win \in WindowType /\ Sound(win) /\ p \in PanesOf(win)
        /\ \A id : Owns(w, id, p) <=> id = win.id
    BY HolderIs
  <1>2. CASE Len(win.panes) = 1
    <2>1. v = Without(w, win.id, left)
      BY <1>2 DEF WithoutPane
    <2>2. (win.id \in Ids(w) /\ Len(w.entries) # 1) \/ IsFloating(w, win.id)
      BY <1>1, <1>2, Found
    <2> HIDE DEF v, win
    <2>3. /\ Whole(v) /\ Len(v.entries) <= Len(w.entries) /\ Empties(w, v, win.id)
          /\ LooksBack(w, v) /\ Steady(w, v)
      BY <2>1, <2>2, WindowLeaves
    <2>4. \A r : Owns(w, win.id, r) <=> r = p
      <3>1. PanesOf(win) = {p}
        BY ONLY <1>1, <1>2, LonePane
      <3> QED BY <1>1, <3>1, OwnsWhole
    <2>5. Leaves(w, v, p)
      BY <1>1, <2>3, <2>4 DEF Leaves, Empties
    <2> QED BY <2>3, <2>5 DEF v
  <1>3. CASE Len(win.panes) # 1
    <2> DEFINE new == Removed(win, p)
    <2>1. v = Put(w, new)
      BY <1>3 DEF WithoutPane
    <2> HIDE DEF win
    <2>2. /\ new \in WindowType /\ Sound(new) /\ new.id = win.id
          /\ PanesOf(new) = PanesOf(win) \ {p} /\ new # win
      BY <1>1, <1>3, RemovedPane
    <2>3. ~IsFloating(w, win.id)
      BY <1>1, <1>3, Found
    <2> HIDE DEF v, new
    <2>4. /\ Whole(v) /\ All(v) = (All(w) \ {win}) \cup {new}
          /\ Len(v.entries) = Len(w.entries)
          /\ v.last = w.last /\ TiledActive(v).id = TiledActive(w).id
          /\ new \in ToSet(v.entries) \ ToSet(w.entries)
      BY <1>1, <2>1, <2>2, <2>3, PutWindow
    <2>5. \A id, r : Owns(v, id, r) <=>
                       IF id = win.id THEN r \in PanesOf(new) ELSE Owns(w, id, r)
      BY <1>1, <2>2, <2>4, OwnsPut
    <2>6. \A r : Owns(w, win.id, r) <=> r \in PanesOf(win)
      BY <1>1, OwnsWhole
    <2>7. Leaves(w, v, p)
      BY <1>1, <2>2, <2>5, <2>6 DEF Leaves
    <2>8. LooksBack(w, v) /\ Steady(w, v)
      BY <2>4 DEF LooksBack, Elsewhere, Steady
    <2>9. Len(v.entries) <= Len(w.entries)
      BY <2>4, Found
    <2> QED BY <2>4, <2>7, <2>8, <2>9 DEF v
  <1> QED BY <1>2, <1>3

\* A window with one new pane.
LEMMA WindowArrives ==
    ASSUME NEW w, Whole(w), NEW p \in Panes, \A id : ~Owns(w, id, p), NEW id \in WindowIds,
           \A u \in All(w) : u.id # id, NEW i \in 1 .. Len(w.entries) + 1
    PROVE  LET v == Inserted(w, i, Single(id, p))
           IN  /\ Whole(v) /\ Len(v.entries) = Len(w.entries) + 1
               /\ Arrives(w, v, p, id) /\ Elsewhere(v) /\ Steady(w, v)
  <1> DEFINE win == Single(id, p)
             v == Inserted(w, i, win)
  <1>1. win \in WindowType /\ Sound(win) /\ win.id = id /\ PanesOf(win) = {p}
    BY DEF Single, WindowType, Sound, PanesOf, ToSet, IsInjective
  <1> HIDE DEF win
  <1>2. /\ Whole(v) /\ All(v) = All(w) \cup {win}
        /\ Len(v.entries) = Len(w.entries) + 1 /\ Elsewhere(v)
        /\ win \in ToSet(v.entries) \ ToSet(w.entries)
    BY <1>1, InsertedWindow
  <1> HIDE DEF v
  <1>3. Arrives(w, v, p, id)
    BY <1>1, <1>2 DEF Arrives, Owns
  <1>4. Steady(w, v)
    BY <1>2 DEF Steady
  <1> QED BY <1>2, <1>3, <1>4 DEF v, win

\* A pane becomes a split of a pane in another window.  It is in both windows
\* until it has left its own.
LEMMA PaneJoins ==
    ASSUME NEW w, Whole(w), Apart(All(w)), NEW p \in Shown(w), NEW q \in Shown(w),
           Holder(w, p).id # Holder(w, q).id,
           Holder(w, p).id \in Ids(w), Holder(w, q).id \in Ids(w)
    PROVE  LET v == Joined(w, p, q)
           IN  /\ Whole(v) /\ Len(v.entries) <= Len(w.entries)
               /\ Arrives(w, v, p, Holder(w, q).id)
               /\ LooksBack(w, v) /\ Steady(w, v)
  <1> DEFINE source == Holder(w, p)
             target == Holder(w, q)
             grown  == SplitOff(target, q, p)
             moved  == Put(w, grown)
             v      == Joined(w, p, q)
  <1>1. /\ source \in All(w) /\ source \in WindowType /\ Sound(source) /\ p \in PanesOf(source)
        /\ p \in Panes /\ \A id : Owns(w, id, p) <=> id = source.id
        /\ target \in All(w) /\ target \in WindowType /\ Sound(target) /\ q \in PanesOf(target)
        /\ source.id # target.id /\ source.id \in Ids(w) /\ target.id \in Ids(w)
    BY HolderIs
  <1>2. v = IF Len(source.panes) = 1
            THEN Without(Selected(moved, target.id), source.id, FALSE)
            ELSE Selected(Put(moved, Removed(source, p)), target.id)
    BY DEF Joined
  <1> HIDE DEF v, source, target
  <1>3. ~IsFloating(w, source.id) /\ ~IsFloating(w, target.id)
    BY <1>1, Found
  <1>4. p \notin PanesOf(target)
    BY <1>1, OwnsWhole
  <1>5. /\ grown \in WindowType /\ Sound(grown) /\ grown.id = target.id
        /\ PanesOf(grown) = PanesOf(target) \cup {p}
    BY <1>1, <1>4, SplitOffWindow
  <1>6. grown # target
    BY <1>4, <1>5
  <1> HIDE DEF grown
  <1>7. /\ Whole(moved) /\ All(moved) = (All(w) \ {target}) \cup {grown}
        /\ Ids(moved) = Ids(w) /\ Len(moved.entries) = Len(w.entries)
        /\ moved.last = w.last /\ TiledActive(moved).id = TiledActive(w).id
        /\ \A id : IsFloating(moved, id) <=> IsFloating(w, id)
    BY <1>1, <1>3, <1>5, PutWindow
  <1> HIDE DEF moved
  <1>8. \A id, r : Owns(moved, id, r) <=>
                     IF id = target.id THEN r \in PanesOf(grown) ELSE Owns(w, id, r)
    BY <1>1, <1>5, <1>7, OwnsPut
  <1>9. \A r : /\ Owns(w, target.id, r) <=> r \in PanesOf(target)
               /\ Owns(w, source.id, r) <=> r \in PanesOf(source)
    BY <1>1, OwnsWhole
  <1>10. Elsewhere(w) => Elsewhere(moved)
    BY <1>7 DEF Elsewhere
  <1>11. source \in All(moved) /\ grown \in All(moved)
    BY <1>1, <1>7
  \* A window of v that w does not have is an ordinary one.
  <1>12. ASSUME NEW x, Whole(x), grown \in All(x), \A id : IsFloating(x, id) => IsFloating(w, id)
         PROVE  Steady(w, x)
    <2>1. grown \in ToSet(x.entries)
      BY <1>3, <1>5, <1>12 DEF All, IsFloating
    <2>2. grown \notin ToSet(w.entries)
      <3>1. grown \notin All(w)
        BY <1>1, <1>5, <1>6, Found
      <3> QED BY <3>1 DEF All
    <2> QED BY <2>1, <2>2 DEF Steady
  <1>13. CASE Len(source.panes) = 1
    <2> DEFINE at == Selected(moved, target.id)
    <2>1. v = Without(at, source.id, FALSE)
      BY <1>2, <1>13
    <2>2. /\ Whole(at) /\ at.entries = moved.entries /\ at.floating = moved.floating
          /\ Ids(at) = Ids(moved) /\ All(at) = All(moved)
          /\ Elsewhere(moved) => Elsewhere(at)
          /\ ~at.visible
      BY <1>1, <1>7, SelectedStep
    <2> HIDE DEF at
    <2>3. source.id \in Ids(at) /\ Len(at.entries) # 1
      <3>1. PICK i \in DOMAIN w.entries : w.entries[i].id = source.id
        BY <1>1 DEF Ids
      <3>2. PICK j \in DOMAIN w.entries : w.entries[j].id = target.id
        BY <1>1 DEF Ids
      <3>3. i # j /\ DOMAIN w.entries = 1 .. Len(w.entries)
        BY <1>1, <3>1, <3>2, Found
      <3>4. Len(w.entries) # 1
        BY ONLY <3>1, <3>2, <3>3
      <3> QED BY <1>1, <1>7, <2>2, <3>4
    <2>4. /\ Whole(v) /\ All(v) = {u \in All(at) : u.id # source.id}
          /\ Len(v.entries) <= Len(at.entries)
          /\ ~at.visible /\ Elsewhere(at) => Elsewhere(v)
          /\ Empties(at, v, source.id)
      <3>1. /\ Whole(v) /\ All(v) = {u \in All(at) : u.id # source.id}
            /\ Len(v.entries) <= Len(at.entries)
            /\ ~at.visible /\ Elsewhere(at) => Elsewhere(v)
        <4>1. Whole(at) /\ source.id \in Ids(at) /\ Len(at.entries) # 1
          BY <2>2, <2>3
        <4>2. ASSUME NEW gone, gone \in Ids(at), NEW side
              PROVE  LET u == Without(at, gone, side)
                     IN  /\ Whole(u) /\ All(u) = {x \in All(at) : x.id # gone}
                         /\ Len(u.entries) <= Len(at.entries)
                         /\ ~at.visible /\ Elsewhere(at) => Elsewhere(u)
          BY ONLY <4>1, <4>2, ClosedWindow
        <4> QED BY <2>1, <4>1, <4>2
      <3> QED BY <3>1, OwnsClosed
    <2>5. Arrives(w, v, p, target.id)
      <3>1. \A r : Owns(w, source.id, r) <=> r = p
        BY <1>1, <1>9, <1>13, LonePane
      <3>2. \A id, r : Owns(v, id, r) <=> id # source.id /\ Owns(moved, id, r)
        BY <2>2, <2>4 DEF Empties, Owns
      <3> QED BY <1>1, <1>5, <1>8, <1>9, <3>1, <3>2 DEF Arrives
    <2>6. grown \in All(v) /\ \A id : IsFloating(v, id) => IsFloating(w, id)
      <3>1. grown \in All(v)
        BY <1>1, <1>5, <1>11, <2>2, <2>4
      <3>2. v.floating \in {at.floating, None}
        BY <2>1, <2>2, <2>3, Found DEF Without, WithoutFloating, Closed, Whole, Bar
      <3> QED BY <1>7, <2>2, <3>1, <3>2 DEF IsFloating
    <2>7. Len(v.entries) <= Len(w.entries)
      BY <1>7, <2>2, <2>4
    <2> QED BY <1>10, <1>12, <2>2, <2>4, <2>5, <2>6, <2>7 DEF LooksBack, v, target
  <1>14. CASE Len(source.panes) # 1
    <2> DEFINE rest == Removed(source, p)
               left == Put(moved, rest)
    <2>1. v = Selected(left, target.id)
      BY <1>2, <1>14
    <2>2. /\ rest \in WindowType /\ Sound(rest) /\ rest.id = source.id
          /\ PanesOf(rest) = PanesOf(source) \ {p}
      BY <1>1, <1>14, RemovedPane
    <2> HIDE DEF rest
    <2>3. /\ Whole(left) /\ All(left) = (All(moved) \ {source}) \cup {rest}
          /\ Ids(left) = Ids(moved) /\ Len(left.entries) = Len(moved.entries)
          /\ left.last = moved.last /\ TiledActive(left).id = TiledActive(moved).id
          /\ \A id : IsFloating(left, id) <=> IsFloating(moved, id)
      BY <1>3, <1>7, <1>11, <2>2, PutWindow
    <2> HIDE DEF left
    <2>4. /\ Whole(v) /\ v.entries = left.entries /\ v.floating = left.floating
          /\ All(v) = All(left)
          /\ Elsewhere(left) => Elsewhere(v)
      BY <1>1, <1>7, <2>1, <2>3, SelectedStep
    <2>5. \A id, r : Owns(left, id, r) <=>
                       IF id = source.id THEN r \in PanesOf(rest) ELSE Owns(moved, id, r)
      BY <1>7, <1>11, <2>2, <2>3, OwnsPut
    <2>6. Arrives(w, v, p, target.id)
      <3>1. \A id, r : Owns(v, id, r) <=> Owns(left, id, r)
        BY <2>4 DEF Owns
      <3> QED BY <1>1, <1>5, <1>8, <1>9, <2>2, <2>5, <3>1 DEF Arrives
    <2>7. grown \in All(v) /\ \A id : IsFloating(v, id) => IsFloating(w, id)
      BY <1>1, <1>5, <1>7, <1>11, <2>3, <2>4 DEF IsFloating
    <2>8. Elsewhere(moved) => Elsewhere(left)
      BY <2>3 DEF Elsewhere
    <2>9. Len(v.entries) <= Len(w.entries)
      BY <1>7, <2>3, <2>4, Found
    <2> QED BY <1>10, <1>12, <2>4, <2>6, <2>7, <2>8, <2>9 DEF LooksBack, v, target
  <1> QED BY <1>13, <1>14

\* A pane leaves the window that has the focus for a window of its own.
LEMMA PaneBreaks ==
    ASSUME NEW w, Whole(w), Apart(All(w)), NEW p \in Shown(w),
           Len(Holder(w, p).panes) # 1, Holder(w, p) = TiledActive(w), NEW id \in WindowIds,
           \A u \in All(w) : u.id # id
    PROVE  LET v == Broken(w, p, id)
           IN  /\ Whole(v) /\ Len(v.entries) = Len(w.entries) + 1
               /\ Arrives(w, v, p, id) /\ Elsewhere(v)
               /\ Single(id, p) \in ToSet(v.entries) \ ToSet(w.entries)
  <1> DEFINE source == Holder(w, p)
             rest == Removed(source, p)
             left == Put(w, rest)
             v == Broken(w, p, id)
             n == Len(w.entries)
  <1>1. /\ source \in All(w) /\ source \in WindowType /\ Sound(source) /\ p \in PanesOf(source)
        /\ p \in Panes /\ \A jd : Owns(w, jd, p) <=> jd = source.id
    BY HolderIs
  <1>2. v = [left EXCEPT !.visible = FALSE, !.entries = Append(@, Single(id, p)),
                         !.last = source.id, !.active = n + 1]
    BY DEF Broken
  <1> HIDE DEF v
  <1>3. /\ rest \in WindowType /\ Sound(rest) /\ rest.id = source.id
        /\ PanesOf(rest) = PanesOf(source) \ {p}
    BY <1>1, RemovedPane
  <1>4. ~IsFloating(w, source.id)
    BY <1>1, Found
  <1> HIDE DEF rest
  <1>5. /\ Whole(left) /\ All(left) = (All(w) \ {source}) \cup {rest}
        /\ Len(left.entries) = n /\ TiledActive(left).id = source.id
    <2> HIDE DEF source
    <2> QED BY <1>1, <1>3, <1>4, PutWindow DEF source
  <1> HIDE DEF left
  <1>6. \A jd, r : Owns(left, jd, r) <=>
                     IF jd = source.id THEN r \in PanesOf(rest) ELSE Owns(w, jd, r)
    <2> HIDE DEF source
    <2> QED BY <1>1, <1>3, <1>5, OwnsPut
  <1>7. n \in Nat /\ left.entries \in Seq(WindowType) /\ n + 1 \in 1 .. Len(left.entries) + 1
    BY <1>5, Found
  <1>8. v = Inserted(left, n + 1, Single(id, p))
    <2>1. Append(left.entries, Single(id, p)) = InsertAt(left.entries, n + 1, Single(id, p))
      <3>1. Single(id, p) \in WindowType
        BY <1>1 DEF Single, WindowType
      <3> QED BY <1>5, <1>7, <3>1, AppendIsInsertAt
    <2> QED BY <1>2, <1>5, <2>1 DEF Inserted
  <1>9. \A r : Owns(w, source.id, r) <=> r \in PanesOf(source)
    BY <1>1, OwnsWhole
  <1>10. \A jd : ~Owns(left, jd, p)
    BY <1>1, <1>3, <1>6
  <1>11. \A u \in All(left) : u.id # id
    BY <1>1, <1>3, <1>5
  <1>12. /\ Whole(v) /\ Len(v.entries) = Len(left.entries) + 1
         /\ Arrives(left, v, p, id) /\ Elsewhere(v)
    BY <1>1, <1>5, <1>7, <1>8, <1>10, <1>11, WindowArrives
  <1>13. Arrives(w, v, p, id)
    BY <1>1, <1>3, <1>6, <1>9, <1>12 DEF Arrives
  <1>14. Single(id, p) \in ToSet(v.entries) \ ToSet(w.entries)
    <2>1. Single(id, p) \in ToSet(v.entries)
      <3>1. v.entries[n + 1] = Single(id, p) /\ n + 1 \in DOMAIN v.entries
        <4>1. v.entries = Append(left.entries, Single(id, p))
          BY <1>2, <1>5 DEF Whole, Bar
        <4> QED BY <1>1, <1>5, <1>7, <4>1 DEF Single, WindowType
      <3> QED BY <3>1 DEF ToSet
    <2>2. Single(id, p) \notin ToSet(w.entries)
      BY DEF All, Single
    <2> QED BY <2>1, <2>2
  <1> QED BY <1>5, <1>12, <1>13, <1>14 DEF v

-----------------------------------------------------------------------------
(* The handlers.  Each one leaves the windows whole, obeys LastIsElsewhere *)
(* and FocusKept, and does with the shells one of the following.           *)

Transfer ==
    \/ Same(windows, windows') /\ closed' = closed
    \/ Same(windows, windows') /\ closed # None /\ closed' = None
    \/ closed' = closed /\ \E p \in SparePanes, to \in WindowIds : Arrives(windows, windows', p, to)
    \/ closed' = closed /\ \E p \in Shown(windows), to \in WindowIds :
                             Arrives(windows, windows', p, to)
    \/ closed' = closed /\ \E p \in Shown(windows) : Leaves(windows, windows', p)
    \/ closed' = closed /\ \E win \in All(windows) : Empties(windows, windows', win.id)
    \/ closed' # None /\ closed'.pane \in Shown(windows) /\ Leaves(windows, windows', closed'.pane)
    \/ /\ closed # None /\ closed' = None
       /\ \E to \in WindowIds : Arrives(windows, windows', closed.pane, to)

Proper ==
    /\ Whole(windows') /\ Len(windows'.entries) <= MaxWindows
    /\ closed' \in ClosedType \cup {None} /\ request' \in RequestType \cup {None}
    /\ status' \in {"running", "exited", "panicked"}
    /\ LooksBack(windows, windows')
    /\ status' = "running" => Steady(windows, windows')
    /\ Transfer

LEMMA ProperKeeps ==
    ASSUME WInv, Proper
    PROVE  WInv'
  <1>1. Whole(windows) /\ Apart(All(windows)) /\ Whole(windows') /\ Transfer
    BY DEF WInv, Proper
  <1>2. Apart(All(windows'))
    <2>1. \/ Same(windows, windows')
          \/ \E p : Leaves(windows, windows', p) \/ \E to : Arrives(windows, windows', p, to)
          \/ \E gone : Empties(windows, windows', gone)
      BY <1>1 DEF Transfer
    <2> QED BY <1>1, <2>1, StaysApart
  <1>3. Shown(windows') \cap HiddenPanes' = {}
    <2>1. /\ \A p : p \in Shown(windows) <=> \E id : Owns(windows, id, p)
          /\ \A p : p \in Shown(windows') <=> \E id : Owns(windows', id, p)
      BY <1>1, OwnsWhole
    <2>2. Shown(windows) \cap HiddenPanes = {}
      BY DEF WInv
    <2>3. CASE closed' = closed
      <3>1. HiddenPanes' = HiddenPanes
        BY <2>3 DEF HiddenPanes
      <3>2. CASE \E p \in SparePanes, to \in WindowIds : Arrives(windows, windows', p, to)
        BY <2>1, <2>2, <3>1, <3>2 DEF SparePanes, Arrives
      <3>3. CASE Shown(windows') \subseteq Shown(windows)
        BY <2>2, <3>1, <3>3
      <3>4. CASE Same(windows, windows')
        BY <2>1, <3>3, <3>4 DEF Same
      <3>5. CASE \E p \in Shown(windows), to \in WindowIds : Arrives(windows, windows', p, to)
        BY <2>1, <3>3, <3>5 DEF Arrives
      <3>6. CASE \E p : Leaves(windows, windows', p)
        BY <2>1, <3>3, <3>6 DEF Leaves
      <3>7. CASE \E gone : Empties(windows, windows', gone)
        BY <2>1, <3>3, <3>7 DEF Empties
      <3>8. CASE closed' = None
        BY <3>8 DEF HiddenPanes
      <3> QED BY <1>1, <3>2, <3>4, <3>5, <3>6, <3>7, <3>8 DEF Transfer
    <2>4. CASE closed' # None /\ closed'.pane \in Shown(windows)
               /\ Leaves(windows, windows', closed'.pane)
      BY <2>1, <2>4 DEF HiddenPanes, Leaves
    <2>5. CASE closed' = None
      BY <2>5 DEF HiddenPanes
    <2> QED BY <1>1, <2>3, <2>4, <2>5 DEF Transfer
  <1> QED BY <1>2, <1>3 DEF WInv, Proper

\* The same windows, however they are looked at.
LEMMA LooksOnly ==
    ASSUME NEW w, NEW v, All(v) = All(w)
    PROVE  Same(w, v)
  BY DEF Same, Owns

LEMMA SelectPaneStep ==
    ASSUME WInv, status = "running", NEW p \in Shown(windows), SelectPane(p)
    PROVE  Proper
  <1> DEFINE w == windows
             win == Holder(w, p)
             new == [win EXCEPT !.active = p]
             v == Selected(Put(w, new), new.id)
  <1>1. /\ Whole(w) /\ Apart(All(w)) /\ Len(w.entries) <= MaxWindows
        /\ win \in All(w) /\ win \in WindowType /\ Sound(win) /\ p \in PanesOf(win) /\ p \in Panes
    BY HolderIs DEF WInv
  <1>2. new \in WindowType /\ new.id = win.id /\ PanesOf(new) = PanesOf(win) /\ Sound(new)
        /\ new.panes = win.panes
    BY <1>1 DEF WindowType, PanesOf, Sound
  <1>3. windows' = v
    BY <1>2 DEF SelectPane, Becomes
  <1>4. IsFloating(w, win.id) => Len(new.panes) = 1
    BY <1>1, <1>2, Found
  <1> HIDE DEF win, new
  <1>5. /\ Whole(v) /\ All(v) = (All(w) \ {win}) \cup {new} /\ Len(v.entries) = Len(w.entries)
        /\ LooksBack(w, v) /\ Steady(w, v)
    BY <1>1, <1>2, <1>4, Refocused
  <1> HIDE DEF v
  <1>6. Same(w, v)
    BY <1>1, <1>2, <1>5, OwnsPut, OwnsWhole DEF Same
  <1> QED BY <1>1, <1>3, <1>5, <1>6 DEF Proper, Transfer, SelectPane, Becomes, WInv

LEMMA SelectWindowStep ==
    ASSUME WInv, status = "running", NEW id \in Ids(windows), SelectWindow(id)
    PROVE  Proper
  <1> DEFINE v == Selected(windows, id)
  <1>1. /\ Whole(v) /\ v.entries = windows.entries /\ All(v) = All(windows)
        /\ Elsewhere(windows) => Elsewhere(v)
    BY SelectedStep DEF WInv
  <1> HIDE DEF v
  <1>2. Same(windows, v) /\ LooksBack(windows, v) /\ Steady(windows, v)
    BY <1>1, LooksOnly DEF LooksBack, Steady
  <1>3. windows' = v
    BY DEF SelectWindow, Becomes, v
  <1> QED BY <1>1, <1>2, <1>3 DEF Proper, Transfer, SelectWindow, Becomes, WInv

LEMMA SelectLastStep ==
    ASSUME WInv, status = "running", SelectLast
    PROVE  Proper
  <1> DEFINE v == SelectedLast(windows)
  <1>1. /\ Whole(v) /\ v.entries = windows.entries /\ All(v) = All(windows)
        /\ Elsewhere(windows) => Elsewhere(v)
    BY LastStep DEF WInv
  <1> HIDE DEF v
  <1>2. Same(windows, v) /\ LooksBack(windows, v) /\ Steady(windows, v)
    BY <1>1, LooksOnly DEF LooksBack, Steady
  <1>3. windows' = v
    BY DEF SelectLast, Becomes, v
  <1> QED BY <1>1, <1>2, <1>3 DEF Proper, Transfer, SelectLast, Becomes, WInv

LEMMA ToggleFloatingStep ==
    ASSUME WInv, status = "running", ToggleFloating
    PROVE  Proper
  <1> DEFINE w == windows
  <1>1. Whole(w) /\ Len(w.entries) <= MaxWindows /\ w \in Bar
    BY DEF WInv, Whole
  <1>2. UNCHANGED <<closed, request, status>>
    BY ONLY Zenon, ToggleFloating DEF ToggleFloating, Becomes
  <1>3. CASE w.floating # None
    <2>1. PICK seen \in BOOLEAN : windows' = [w EXCEPT !.visible = seen]
      BY ONLY Zenon, <1>3, ToggleFloating DEF ToggleFloating, Becomes
    <2> DEFINE v == [w EXCEPT !.visible = seen]
    <2>2. /\ v.entries = w.entries /\ v.active = w.active /\ v.last = w.last
          /\ v.floating = w.floating /\ v \in Bar
      BY <1>1 DEF Bar
    <2>6. windows' = v
      BY <2>1
    <2> HIDE DEF v
    <2>3. All(v) = All(w) /\ Ids(v) = Ids(w)
      BY <2>2 DEF All, Ids
    <2>4. Whole(v)
      BY <1>1, <1>3, <2>2, <2>3 DEF Whole
    <2>5. Same(w, v) /\ LooksBack(w, v) /\ Steady(w, v)
      BY <2>2, <2>3, LooksOnly DEF LooksBack, Steady, Elsewhere, TiledActive
    <2> QED BY <1>1, <1>2, <2>2, <2>4, <2>5, <2>6 DEF Proper, Transfer, WInv
  <1>4. CASE w.floating = None
    <2>1. PICK p \in SparePanes :
            windows' = [w EXCEPT !.floating = Single(NewId, p), !.visible = TRUE]
      <3>1. w.visible => w.floating # None
        BY <1>1 DEF Whole
      <3> QED BY ONLY Zenon, <1>4, <3>1, ToggleFloating DEF ToggleFloating, Becomes
    <2> DEFINE win == Single(NewId, p)
               v == [w EXCEPT !.floating = win, !.visible = TRUE]
    <2>2. NewId \in WindowIds /\ NewId \notin Ids(w) /\ \A u \in All(w) : u.id # NewId
      BY <1>4, NewIdIsSpare
    <2>3. /\ win \in WindowType /\ Sound(win) /\ win.id = NewId /\ PanesOf(win) = {p}
          /\ Len(win.panes) = 1
      <3>1. p \in Panes
        BY DEF SparePanes
      <3> QED BY <2>2, <3>1 DEF Single, WindowType, Sound, PanesOf, ToSet, IsInjective
    <2>4. win # None
      BY <2>3, WorkspaceAssumption
    <2> HIDE DEF win
    <2>5. /\ v.entries = w.entries /\ v.active = w.active /\ v.last = w.last
          /\ v.floating = win /\ v \in Bar
      BY <1>1, <2>3 DEF Bar
    <2>6. windows' = v
      BY <2>1 DEF win
    <2> HIDE DEF v
    <2>7. All(v) = All(w) \cup {win} /\ Ids(v) = Ids(w)
      BY <1>4, <2>4, <2>5 DEF All, Ids
    <2>8. Whole(v)
      BY <1>1, <2>2, <2>3, <2>4, <2>5, <2>7 DEF Whole
    <2>9. LooksBack(w, v) /\ Steady(w, v)
      BY <2>5 DEF LooksBack, Steady, Elsewhere, TiledActive
    <2>10. Arrives(w, v, p, NewId)
      <3>1. \A id : ~Owns(w, id, p)
        BY <1>1, OwnsWhole DEF SparePanes
      <3> QED BY <2>2, <2>3, <2>7, <3>1 DEF Arrives, Owns
    <2> QED BY <1>1, <1>2, <2>2, <2>5, <2>6, <2>8, <2>9, <2>10 DEF Proper, Transfer, WInv
  <1> QED BY <1>3, <1>4

LEMMA NewWindowStep ==
    ASSUME WInv, status = "running", NEW i \in 1 .. MaxWindows, NewWindow(i)
    PROVE  Proper
  <1> DEFINE w == windows
  <1>1. Whole(w) /\ Len(w.entries) < MaxWindows
    BY DEF WInv, NewWindow, Room
  <1>2. PICK p \in SparePanes : windows' = Inserted(w, i, Single(NewId, p))
    BY DEF NewWindow, Becomes
  <1>3. UNCHANGED <<closed, request, status>>
    BY DEF NewWindow, Becomes
  <1>4. NewId \in WindowIds /\ \A u \in All(w) : u.id # NewId
    BY NewIdIsSpare DEF NewWindow
  <1>5. p \in Panes /\ \A id : ~Owns(w, id, p)
    BY <1>1, OwnsWhole DEF SparePanes
  <1>6. Len(w.entries) \in Nat /\ i \in 1 .. Len(w.entries) + 1
    BY <1>1, Found DEF NewWindow
  <1> DEFINE v == Inserted(w, i, Single(NewId, p))
  <1>7. /\ Whole(v) /\ Len(v.entries) = Len(w.entries) + 1
        /\ Arrives(w, v, p, NewId) /\ Elsewhere(v) /\ Steady(w, v)
    BY <1>1, <1>4, <1>5, <1>6, WindowArrives
  <1> HIDE DEF v
  <1>8. Len(v.entries) <= MaxWindows
    BY <1>1, <1>6, <1>7, WorkspaceAssumption
  <1>9. windows' = v
    BY <1>2 DEF v
  <1> QED BY <1>3, <1>4, <1>7, <1>8, <1>9 DEF Proper, Transfer, LooksBack, WInv

LEMMA SplitPaneStep ==
    ASSUME WInv, status = "running", NEW p \in Shown(windows), SplitPane(p)
    PROVE  Proper
  <1> DEFINE w == windows
             win == Holder(w, p)
  <1>1. /\ Whole(w) /\ Apart(All(w)) /\ Len(w.entries) <= MaxWindows
        /\ win \in All(w) /\ win \in WindowType /\ Sound(win) /\ p \in PanesOf(win)
    BY HolderIs DEF WInv
  <1>2. PICK new \in SparePanes : windows' = Selected(Put(w, SplitOff(win, p, new)), win.id)
    BY DEF SplitPane, Becomes
  <1>3. ~IsFloating(w, win.id) /\ UNCHANGED <<closed, request, status>>
    BY DEF SplitPane, Becomes, Splits
  <1>4. new \in Panes /\ \A id : ~Owns(w, id, new)
    BY <1>1, OwnsWhole DEF SparePanes
  <1>5. \A r : Owns(w, win.id, r) <=> r \in PanesOf(win)
    BY <1>1, OwnsWhole
  <1> DEFINE grown == SplitOff(win, p, new)
             v == Selected(Put(w, grown), grown.id)
  <1> HIDE DEF win
  <1>6. /\ grown \in WindowType /\ Sound(grown) /\ grown.id = win.id
        /\ PanesOf(grown) = PanesOf(win) \cup {new}
    BY <1>1, <1>4, <1>5, SplitOffWindow
  <1>7. windows' = v
    BY <1>2, <1>6
  <1> HIDE DEF grown
  <1>8. /\ Whole(v) /\ All(v) = (All(w) \ {win}) \cup {grown} /\ Len(v.entries) = Len(w.entries)
        /\ LooksBack(w, v) /\ Steady(w, v)
    BY <1>1, <1>3, <1>6, Refocused
  <1> HIDE DEF v
  <1>9. \A id, r : Owns(v, id, r) <=> IF id = win.id THEN r \in PanesOf(grown) ELSE Owns(w, id, r)
    BY <1>1, <1>6, <1>8, OwnsPut
  <1>10. Arrives(w, v, new, win.id) /\ win.id \in WindowIds
    BY <1>1, <1>4, <1>5, <1>6, <1>9 DEF Arrives, WindowType
  <1> QED BY <1>1, <1>3, <1>7, <1>8, <1>10 DEF Proper, Transfer, WInv

\* A request is never forgotten, but it may name no pane any more.
LEMMA ForgottenRequest ==
    ASSUME WInv, NEW p
    PROVE  /\ Forgotten(p) \in RequestType \cup {None}
           /\ request # None => Forgotten(p) # None
  <1>1. CASE request # None /\ request.pane = p
    <2>1. request \in RequestType
      BY <1>1 DEF WInv
    <2>2. [request EXCEPT !.pane = None] \in RequestType
      BY <2>1 DEF RequestType
    <2>3. Forgotten(p) = [request EXCEPT !.pane = None]
      BY <1>1 DEF Forgotten
    <2> HIDE DEF Forgotten
    <2>4. Forgotten(p) \in RequestType
      BY <2>2, <2>3
    <2> QED BY ONLY <2>4, WorkspaceAssumption
  <1>2. CASE ~(request # None /\ request.pane = p)
    BY <1>2 DEF Forgotten, WInv
  <1> QED BY <1>1, <1>2

LEMMA BreakPaneStep ==
    ASSUME WInv, status = "running", NEW p \in Shown(windows), BreakPane(p)
    PROVE  Proper
  <1> DEFINE w == windows
             win == Holder(w, p)
             at == Selected(w, win.id)
             v == Broken(at, p, NewId)
  <1>1. /\ Whole(w) /\ Apart(All(w)) /\ Len(w.entries) < MaxWindows
        /\ win \in All(w) /\ win \in WindowType /\ p \in PanesOf(win) /\ Len(win.panes) # 1
    <2>1. Whole(w) /\ Apart(All(w)) /\ Len(w.entries) < MaxWindows
      BY DEF WInv, BreakPane, Room
    <2>2. win \in All(w) /\ win \in WindowType /\ p \in PanesOf(win)
      BY <2>1, HolderIs
    <2>3. Len(win.panes) # 1
      <3>1. Len(win.panes) > 1
        BY ONLY Zenon, BreakPane(p) DEF BreakPane
      <3>2. \A n : n > 1 => n # 1
        BY ONLY TRUE
      <3> QED BY ONLY Zenon, <3>1, <3>2
    <2> QED BY <2>1, <2>2, <2>3
  <1>2. windows' = v /\ request' = Forgotten(p) /\ UNCHANGED <<closed, status>>
    BY DEF BreakPane, Becomes
  <1>3. win.id \in Ids(w) /\ Len(w.entries) \in Nat
    BY <1>1, Found
  <1>4. NewId \in WindowIds /\ \A u \in All(w) : u.id # NewId
    BY NewIdIsSpare DEF BreakPane
  <1>5. /\ Whole(at) /\ at.entries = w.entries /\ All(at) = All(w)
        /\ TiledActive(at).id = win.id
    BY <1>1, <1>3, SelectedStep
  <1> HIDE DEF at
  <1>6. Holder(at, p) = win /\ p \in Shown(at)
    BY <1>5 DEF Holder, Shown
  <1>7. TiledActive(at) = win
    <2>1. TiledActive(at) \in All(at)
      BY <1>5, Found DEF TiledActive
    <2> QED BY <1>1, <1>5, <2>1, Found
  <1> HIDE DEF win
  <1>8. /\ Whole(v) /\ Len(v.entries) = Len(at.entries) + 1
        /\ Arrives(at, v, p, NewId) /\ Elsewhere(v)
        /\ Single(NewId, p) \in ToSet(v.entries) \ ToSet(at.entries)
    BY <1>1, <1>4, <1>5, <1>6, <1>7, PaneBreaks
  <1> HIDE DEF v
  <1>9. Arrives(w, v, p, NewId)
    BY <1>5, <1>8 DEF Arrives, Owns
  <1>10. LooksBack(w, v) /\ Steady(w, v)
    BY <1>5, <1>8 DEF LooksBack, Steady
  <1>11. Len(v.entries) <= MaxWindows
    BY <1>1, <1>3, <1>5, <1>8, WorkspaceAssumption
  <1> QED BY <1>2, <1>4, <1>8, <1>9, <1>10, <1>11, ForgottenRequest DEF Proper, Transfer, WInv

LEMMA JoinPaneStep ==
    ASSUME WInv, status = "running", NEW p \in Shown(windows), NEW q \in Shown(windows),
           JoinPane(p, q)
    PROVE  Proper
  <1> DEFINE v == Joined(windows, p, q)
             to == Holder(windows, q).id
  <1>1. Whole(windows) /\ Apart(All(windows)) /\ Len(windows.entries) <= MaxWindows
    BY DEF WInv
  <1>2. windows' = v /\ request' = Forgotten(p) /\ UNCHANGED <<closed, status>>
    BY DEF JoinPane, Becomes
  <1>3. /\ Holder(windows, p).id # Holder(windows, q).id
        /\ Holder(windows, p).id \in Ids(windows) /\ Holder(windows, q).id \in Ids(windows)
    BY DEF JoinPane
  <1>4. /\ Whole(v) /\ Len(v.entries) <= Len(windows.entries)
        /\ Arrives(windows, v, p, to) /\ LooksBack(windows, v) /\ Steady(windows, v)
    BY <1>1, <1>3, PaneJoins
  <1>5. to \in WindowIds
    BY <1>1, <1>3, Found
  <1> HIDE DEF v, to
  <1>6. Len(v.entries) <= MaxWindows
    BY <1>1, <1>4, Found, WorkspaceAssumption
  <1> QED BY <1>2, <1>4, <1>5, <1>6, ForgottenRequest DEF Proper, Transfer, WInv

LEMMA SwapPanesStep ==
    ASSUME WInv, status = "running", NEW p \in Shown(windows), NEW q, SwapPanes(p, q)
    PROVE  Proper
  <1> DEFINE w == windows
             win == Holder(w, p)
             new == Exchanged(win, p, q)
             v == Put(w, new)
  <1>1. /\ Whole(w) /\ Len(w.entries) <= MaxWindows /\ q \in PanesOf(win)
        /\ win \in All(w) /\ win \in WindowType /\ Sound(win) /\ p \in PanesOf(win)
    BY HolderIs DEF WInv, SwapPanes
  <1>2. windows' = v /\ UNCHANGED <<closed, request, status>>
    BY DEF SwapPanes, Becomes
  <1> HIDE DEF win
  <1>3. /\ new \in WindowType /\ Sound(new) /\ new.id = win.id
        /\ PanesOf(new) = PanesOf(win) /\ Len(new.panes) = Len(win.panes)
    BY <1>1, ExchangedPanes
  <1> HIDE DEF new
  <1>4. IsFloating(w, win.id) => Len(new.panes) = 1
    BY <1>1, <1>3, Found
  <1>5. /\ Whole(v) /\ All(v) = (All(w) \ {win}) \cup {new} /\ Len(v.entries) = Len(w.entries)
        /\ v.last = w.last /\ TiledActive(v).id = TiledActive(w).id
        /\ new # win /\ ~IsFloating(w, win.id) => new \in ToSet(v.entries) \ ToSet(w.entries)
        /\ new = win \/ IsFloating(w, win.id) => v.entries = w.entries
    BY <1>1, <1>3, <1>4, PutWindow
  <1> HIDE DEF v
  <1>6. LooksBack(w, v) /\ Steady(w, v)
    BY <1>5 DEF LooksBack, Elsewhere, Steady
  <1>7. Same(w, v)
    BY <1>1, <1>3, <1>5, OwnsPut, OwnsWhole DEF Same
  <1> QED BY <1>1, <1>2, <1>5, <1>6, <1>7 DEF Proper, Transfer, WInv

LEMMA ClosePaneStep ==
    ASSUME WInv, status = "running", NEW p \in Shown(windows), NEW left, ClosePane(p, left)
    PROVE  Proper
  <1> DEFINE win == Holder(windows, p)
             v == WithoutPane(windows, p, left)
  <1>1. Whole(windows) /\ Apart(All(windows)) /\ Len(windows.entries) <= MaxWindows
    BY DEF WInv
  <1>2. CASE Final(win.id) /\ Len(win.panes) = 1
    <2>1. status' = "exited" /\ UNCHANGED <<windows, closed, request>>
      BY <1>2 DEF ClosePane
    <2> QED BY <1>1, <2>1, LooksOnly DEF Proper, Transfer, LooksBack, WInv
  <1>3. CASE ~(Final(win.id) /\ Len(win.panes) = 1)
    <2>1. windows' = v /\ UNCHANGED <<closed, request, status>>
      BY <1>3 DEF ClosePane, Becomes
    <2>2. /\ Whole(v) /\ Len(v.entries) <= Len(windows.entries) /\ Leaves(windows, v, p)
          /\ LooksBack(windows, v) /\ Steady(windows, v)
      BY <1>1, <1>3, PaneLeaves DEF Final
    <2> HIDE DEF v
    <2>3. Len(v.entries) <= MaxWindows
      BY <1>1, <2>2, Found, WorkspaceAssumption
    <2> QED BY <2>1, <2>2, <2>3 DEF Proper, Transfer, WInv
  <1> QED BY <1>2, <1>3

LEMMA CloseWindowStep ==
    ASSUME WInv, status = "running", NEW win \in All(windows), NEW left,
           CloseWindow(win.id, left)
    PROVE  Proper
  <1> DEFINE v == Without(windows, win.id, left)
  <1>1. Whole(windows) /\ Len(windows.entries) <= MaxWindows
    BY DEF WInv
  <1>2. windows' = v /\ UNCHANGED <<closed, request, status>>
    BY DEF CloseWindow, Becomes
  <1>3. (win.id \in Ids(windows) /\ Len(windows.entries) # 1) \/ IsFloating(windows, win.id)
    BY DEF CloseWindow, Final
  <1>4. /\ Whole(v) /\ Len(v.entries) <= Len(windows.entries) /\ Empties(windows, v, win.id)
        /\ LooksBack(windows, v) /\ Steady(windows, v)
    BY <1>1, <1>3, WindowLeaves
  <1> HIDE DEF v
  <1>5. Len(v.entries) <= MaxWindows
    BY <1>1, <1>4, Found, WorkspaceAssumption
  <1> QED BY <1>2, <1>4, <1>5 DEF Proper, Transfer, WInv

LEMMA MoveWindowStep ==
    ASSUME WInv, status = "running", NEW id, NEW right \in BOOLEAN, MoveWindow(id, right)
    PROVE  Proper
  <1> DEFINE w == windows
             m == Reordered(w, id, right)
             v == [m EXCEPT !.active = Index(m, TiledActive(w).id)]
  <1>1. Whole(w) /\ Len(w.entries) <= MaxWindows /\ id \in Ids(w) /\ Len(w.entries) > 1
    BY DEF WInv, MoveWindow
  <1>2. /\ Whole(m) /\ All(m) = All(w) /\ Len(m.entries) = Len(w.entries)
        /\ Whole(v) /\ All(v) = All(w) /\ Len(v.entries) = Len(w.entries)
        /\ v.last = w.last /\ TiledActive(v) = TiledActive(w) /\ v.visible = w.visible
    BY <1>1, ReorderedStep
  <1>3. UNCHANGED <<closed, request>>
    BY DEF MoveWindow
  <1>4. CASE w.visible
    <2>1. windows' = m /\ status' = "panicked"
      BY <1>4 DEF MoveWindow
    <2> HIDE DEF m
    <2> QED BY <1>1, <1>2, <1>3, <1>4, <2>1, LooksOnly DEF Proper, Transfer, LooksBack, WInv
  <1>5. CASE ~w.visible
    <2>1. windows' = v /\ status' = status
      BY <1>5 DEF MoveWindow, Becomes, Active
    <2> HIDE DEF v
    <2>2. LooksBack(w, v) /\ Steady(w, v)
      BY <1>2 DEF LooksBack, Steady, Elsewhere
    <2> QED BY <1>1, <1>2, <1>3, <2>1, <2>2, LooksOnly DEF Proper, Transfer, WInv
  <1> QED BY <1>4, <1>5

LEMMA AskCloseStep ==
    ASSUME WInv, status = "running", NEW whole \in BOOLEAN, AskClose(whole)
    PROVE  Proper
  <1>1. Whole(windows) /\ Len(windows.entries) <= MaxWindows
    BY DEF WInv
  <1>2. Active(windows) \in WindowType
    <2>1. CASE windows.visible
      BY <1>1, <2>1 DEF Active, Whole, Bar
    <2>2. CASE ~windows.visible
      BY <1>1, <2>2, Found DEF Active, TiledActive
    <2> QED BY <2>1, <2>2
  <1>3. /\ UNCHANGED <<windows, closed, status>>
        /\ request' = [window |-> Active(windows).id, whole |-> whole,
                       pane |-> IF whole THEN None ELSE Active(windows).active]
    BY DEF AskClose
  <1>4. request' \in RequestType
    BY <1>2, <1>3 DEF RequestType, WindowType
  <1> QED BY <1>1, <1>3, <1>4, LooksOnly DEF Proper, Transfer, LooksBack, Steady, WInv

\* What ClosesWhatWasAsked says of one step.
Asked ==
    request # None /\ request' = None =>
      \A p \in Shown(windows) \ Shown(windows') :
        IF request.whole THEN Holder(windows, p).id = request.window ELSE p = request.pane

\* The request names a window and a pane by identity: whatever has happened since,
\* the pane leaves alone, or with all of its window if that was asked for.
LEMMA FinishCloseStep ==
    ASSUME WInv, status = "running", NEW left, FinishClose(left)
    PROVE  Proper /\ Asked
  <1> DEFINE w == windows
             win == CHOOSE x \in All(w) : x.id = request.window
             gone == \/ request.window \notin {v.id : v \in All(w)}
                     \/ ~request.whole /\ request.pane \notin PanesOf(win)
             sole == Final(win.id) /\ (request.whole \/ Len(win.panes) = 1)
  <1>1. /\ Whole(w) /\ Apart(All(w)) /\ Len(w.entries) <= MaxWindows
        /\ request # None /\ request' = None /\ request \in RequestType
        /\ closed \in ClosedType \cup {None} /\ status \in {"running", "exited", "panicked"}
    BY DEF WInv, FinishClose
  <1>2. CASE gone
    <2>1. UNCHANGED <<windows, closed, status>>
      BY <1>2 DEF FinishClose
    <2> QED BY <1>1, <2>1, LooksOnly DEF Proper, Transfer, LooksBack, Steady, Asked
  <1>3. CASE ~gone
    <2>1. win \in All(w) /\ win.id = request.window
      <3>1. \E x \in All(w) : x.id = request.window
        BY <1>3
      <3> QED BY <3>1
    <2>2. ~request.whole => request.pane \in PanesOf(win)
      BY <1>3
    <2>3. win \in WindowType /\ Sound(win) /\ win.id \in WindowIds
          /\ IF IsFloating(w, win.id) THEN Len(win.panes) = 1 ELSE win.id \in Ids(w)
      BY <1>1, <2>1, Found DEF WindowType
    <2>4. /\ sole => status' = "exited" /\ UNCHANGED <<windows, closed>>
          /\ ~sole /\ (request.whole \/ IsFloating(w, win.id)) =>
               windows' = Without(w, win.id, left) /\ status' = status /\ UNCHANGED closed
          /\ ~sole /\ ~(request.whole \/ IsFloating(w, win.id)) => Hide(request.pane, left)
      <3> USE <1>3 DEF FinishClose, Becomes
      <3>1. CASE sole
        BY <3>1
      <3>2. CASE ~sole /\ (request.whole \/ IsFloating(w, win.id))
        BY <3>2
      <3>3. CASE ~sole /\ ~(request.whole \/ IsFloating(w, win.id))
        BY <3>3
      <3> QED BY ONLY <3>1, <3>2, <3>3
    <2> HIDE DEF win, gone
    <2>5. CASE sole
      <3>1. status' = "exited" /\ UNCHANGED <<windows, closed>>
        BY <2>4, <2>5
      <3> QED BY <1>1, <3>1, LooksOnly DEF Proper, Transfer, LooksBack, Asked
    <2>6. CASE ~sole /\ (request.whole \/ IsFloating(w, win.id))
      <3> DEFINE v == Without(w, win.id, left)
      <3>1. windows' = v /\ status' = status /\ UNCHANGED closed
        BY <2>4, <2>6
      <3>2. (win.id \in Ids(w) /\ Len(w.entries) # 1) \/ IsFloating(w, win.id)
        BY <2>3, <2>6 DEF Final
      <3>3. /\ Whole(v) /\ Len(v.entries) <= Len(w.entries) /\ Empties(w, v, win.id)
            /\ LooksBack(w, v) /\ Steady(w, v)
        BY <1>1, <3>2, WindowLeaves
      <3> HIDE DEF v, sole
      <3>4. Len(v.entries) <= MaxWindows
        BY <1>1, <3>3, Found, WorkspaceAssumption
      <3>5. ASSUME NEW p \in Shown(w), p \notin Shown(v)
            PROVE  IF request.whole THEN Holder(w, p).id = request.window ELSE p = request.pane
        <4>1. Owns(w, win.id, p)
          <5>1. PICK id : Owns(w, id, p)
            BY <1>1, OwnsWhole
          <5>2. ~Owns(v, id, p)
            BY <3>3, <3>5, OwnsWhole
          <5> QED BY <3>3, <5>1, <5>2 DEF Empties
        <4>2. p \in PanesOf(win) /\ win = Holder(w, p)
          BY <1>1, <2>1, <4>1, OwnsWhole, HolderIs
        <4>3. ~request.whole => p = request.pane
          <5>1. ~request.whole => Len(win.panes) = 1
            BY <2>3, <2>6
          <5> QED BY <2>2, <2>3, <4>2, <5>1, LonePane
        <4> QED BY <2>1, <4>2, <4>3
      <3> QED BY <1>1, <2>1, <3>1, <3>3, <3>4, <3>5 DEF Proper, Transfer, Asked
    <2>7. CASE ~sole /\ ~(request.whole \/ IsFloating(w, win.id))
      <3> DEFINE p == request.pane
                 v == WithoutPane(w, p, left)
      <3>1. p \in PanesOf(win) /\ p \in Shown(w) /\ Holder(w, p) = win
        <4>1. p \in PanesOf(win) /\ p \in Shown(w)
          BY <2>1, <2>2, <2>7 DEF Shown
        <4> HIDE DEF p
        <4> QED BY <1>1, <2>1, <4>1, HolderIs
      <3>2. /\ windows' = v /\ status' = status
            /\ closed' = [pane |-> p, window |-> IF Len(win.panes) = 1 THEN None ELSE win.id]
        BY <2>4, <2>7, <3>1 DEF Hide, Becomes
      <3>3. \/ Len(Holder(w, p).panes) # 1 \/ Len(w.entries) # 1
            \/ IsFloating(w, Holder(w, p).id)
        BY <2>7, <3>1 DEF Final
      <3> HIDE DEF v, p, sole
      <3>4. /\ Whole(v) /\ Len(v.entries) <= Len(w.entries) /\ Leaves(w, v, p)
            /\ LooksBack(w, v) /\ Steady(w, v)
        BY <1>1, <3>1, <3>3, PaneLeaves DEF v
      <3>5. Len(v.entries) <= MaxWindows
        BY <1>1, <3>4, Found, WorkspaceAssumption
      <3>6. closed' \in ClosedType /\ closed'.pane = p /\ closed' # None
        <4>1. p \in Panes
          BY <1>1, <3>1, HolderIs
        <4>2. closed' \in ClosedType /\ closed'.pane = p
          BY <2>3, <3>2, <4>1 DEF ClosedType
        <4> QED BY ONLY <4>2, WorkspaceAssumption
      <3>7. \A r \in Shown(w) \ Shown(v) : r = p
        BY <1>1, <3>4, OwnsWhole DEF Leaves
      <3>8. Asked
        BY <2>7, <3>2, <3>7 DEF Asked, p
      <3>9. Transfer
        BY <3>1, <3>2, <3>4, <3>6 DEF Transfer
      <3> QED BY <1>1, <3>2, <3>4, <3>5, <3>6, <3>8, <3>9 DEF Proper
    <2> QED BY <2>5, <2>6, <2>7
  <1> QED BY <1>2, <1>3

LEMMA DisconnectStep ==
    ASSUME WInv, status = "running", Disconnect
    PROVE  Proper /\ Asked
  <1>1. UNCHANGED <<windows, closed, status>> /\ request' = None
    BY DEF Disconnect
  <1> QED BY <1>1, LooksOnly DEF Proper, Transfer, LooksBack, Steady, Asked, WInv

LEMMA HiddenExitsStep ==
    ASSUME WInv, status = "running", HiddenExits
    PROVE  Proper
  <1>1. UNCHANGED <<windows, request, status>> /\ closed # None /\ closed' = None
    BY DEF HiddenExits
  <1> QED BY <1>1, LooksOnly DEF Proper, Transfer, LooksBack, Steady, WInv

LEMMA UndoCloseStep ==
    ASSUME WInv, status = "running", UndoClose
    PROVE  Proper
  <1> DEFINE w == windows
             p == closed.pane
  <1>1. /\ Whole(w) /\ Apart(All(w)) /\ Len(w.entries) <= MaxWindows
        /\ closed # None /\ closed' = None /\ request' = request /\ p \in Panes
        /\ p \notin Shown(w)
    BY DEF WInv, UndoClose, HiddenPanes, ClosedType
  <1>2. \A id : ~Owns(w, id, p)
    BY <1>1, OwnsWhole
  <1>3. CASE UndoToNewWindow
    <2> DEFINE n == Len(w.entries)
               v == Inserted(w, n + 1, Single(NewId, p))
    <2>1. windows' = v /\ status' = status /\ n < MaxWindows
      BY <1>3 DEF UndoToNewWindow, Becomes, Room
    <2>2. NewId \in WindowIds /\ \A u \in All(w) : u.id # NewId
      BY <1>3, NewIdIsSpare DEF UndoToNewWindow
    <2>3. n \in Nat /\ n + 1 \in 1 .. n + 1
      BY <1>1, Found
    <2> HIDE DEF p
    <2>4. /\ Whole(v) /\ Len(v.entries) = n + 1
          /\ Arrives(w, v, p, NewId) /\ Elsewhere(v) /\ Steady(w, v)
      BY <1>1, <1>2, <2>2, <2>3, WindowArrives
    <2> HIDE DEF v
    <2>5. Len(v.entries) <= MaxWindows
      BY <2>1, <2>3, <2>4, WorkspaceAssumption
    <2>6. Transfer
      BY <1>1, <2>1, <2>2, <2>4 DEF Transfer, p
    <2> QED BY <1>1, <2>1, <2>4, <2>5, <2>6 DEF Proper, LooksBack, WInv
  <1>4. CASE \E win \in ToSet(w.entries) : UndoToWindow(win)
    <2>1. PICK win \in ToSet(w.entries) : UndoToWindow(win)
      BY <1>4
    <2>2. PICK i \in 1 .. Len(win.panes) + 1 :
            /\ windows' = Selected(Put(w, [win EXCEPT !.panes = InsertAt(@, i, p),
                                                      !.active = p]), win.id)
            /\ status' = status
      BY ONLY Zenon, <2>1 DEF UndoToWindow, Becomes
    <2>3. win \in All(w) /\ win \in WindowType /\ Sound(win) /\ win.id \in WindowIds
      BY <1>1, Found DEF All, WindowType
    <2>4. ~IsFloating(w, win.id)
      BY <2>1 DEF UndoToWindow, Splits
    <2>5. \A r : Owns(w, win.id, r) <=> r \in PanesOf(win)
      BY <1>1, <2>3, OwnsWhole
    <2> DEFINE grown == [win EXCEPT !.panes = InsertAt(@, i, p), !.active = p]
               v == Selected(Put(w, grown), grown.id)
    <2> HIDE DEF p
    <2>6. /\ grown \in WindowType /\ Sound(grown) /\ grown.id = win.id
          /\ PanesOf(grown) = PanesOf(win) \cup {p}
      <3>1. p \notin PanesOf(win)
        BY <1>2, <2>5
      <3> DEFINE new == [win EXCEPT !.panes = InsertAt(@, i, p), !.active = p]
      <3>2. /\ new \in WindowType /\ Sound(new) /\ new.id = win.id
            /\ PanesOf(new) = PanesOf(win) \cup {p}
        <4>0. new = [win EXCEPT !.panes = InsertAt(@, i, p), !.active = p]
          OBVIOUS
        <4> HIDE DEF new
        <4> QED BY ONLY Zenon, <1>1, <2>3, <3>1, <4>0, i \in 1 .. Len(win.panes) + 1,
                   InsertedPane
      <3> QED BY <3>2
    <2>7. windows' = v
      BY <2>2, <2>6
    <2> HIDE DEF grown
    <2>8. /\ Whole(v) /\ All(v) = (All(w) \ {win}) \cup {grown} /\ Len(v.entries) = Len(w.entries)
          /\ LooksBack(w, v) /\ Steady(w, v)
      BY <1>1, <2>3, <2>4, <2>6, Refocused
    <2> HIDE DEF v
    <2>9. \A id, r : Owns(v, id, r) <=> IF id = win.id THEN r \in PanesOf(grown) ELSE Owns(w, id, r)
      BY <1>1, <2>3, <2>6, <2>8, OwnsPut
    <2>10. Arrives(w, v, p, win.id)
      BY <1>2, <2>5, <2>6, <2>9 DEF Arrives
    <2>11. Transfer
      BY <1>1, <2>3, <2>7, <2>10 DEF Transfer, p
    <2> QED BY <1>1, <2>2, <2>7, <2>8, <2>11 DEF Proper, WInv
  <1> QED BY <1>3, <1>4 DEF UndoClose

-----------------------------------------------------------------------------
(* The workspace, for any shells, identities and limits.                   *)

LEMMA InitHolds ==
    ASSUME Init
    PROVE  WInv
  <1>1. PICK p \in Panes :
          windows = [entries |-> <<Single(CHOOSE id \in WindowIds : TRUE, p)>>, active |-> 1,
                     last |-> None, floating |-> None, visible |-> FALSE]
    BY DEF Init
  <1> DEFINE id == CHOOSE x \in WindowIds : TRUE
             win == Single(id, p)
  <1>2. id \in WindowIds
    <2>1. WindowIds # {}
      <3> SUFFICES ASSUME WindowIds = {} PROVE FALSE
        OBVIOUS
      <3>1. IsFiniteSet(WindowIds) /\ Cardinality(WindowIds) = 0
        BY FS_EmptySet
      <3> QED BY ONLY <3>1, WorkspaceAssumption
    <2> QED BY <2>1
  <1>3. win \in WindowType /\ Sound(win) /\ win.id = id /\ PanesOf(win) = {p}
    BY <1>2 DEF Single, WindowType, Sound, PanesOf, ToSet, IsInjective
  <1> HIDE DEF win, id
  <1>4. /\ windows \in Bar /\ windows.entries = <<win>> /\ windows.active = 1
        /\ windows.last = None /\ windows.floating = None /\ windows.visible = FALSE
    BY <1>1, <1>3 DEF Bar, win, id
  <1>5. /\ All(windows) = {win} /\ DOMAIN windows.entries = {1} /\ windows.entries[1] = win
        /\ Len(windows.entries) = 1
    BY <1>4 DEF All, ToSet
  <1>6. Whole(windows)
    BY <1>3, <1>4, <1>5 DEF Whole
  <1>7. Apart(All(windows)) /\ Len(windows.entries) <= MaxWindows
    BY <1>5, WorkspaceAssumption DEF Apart
  <1> QED BY <1>6, <1>7 DEF Init, WInv, HiddenPanes

LEMMA EveryStep ==
    ASSUME WInv, Next
    PROVE  Proper /\ Asked
  <1>0. status = "running"
    BY DEF Next
  <1>1. ASSUME NEW p \in Shown(windows), SelectPane(p) PROVE Proper /\ Asked
    BY <1>0, <1>1, SelectPaneStep DEF SelectPane, Asked
  <1>2. ASSUME NEW p \in Shown(windows), SplitPane(p) PROVE Proper /\ Asked
    BY <1>0, <1>2, SplitPaneStep DEF SplitPane, Asked
  <1>3. ASSUME NEW p \in Shown(windows), BreakPane(p) PROVE Proper /\ Asked
    <2>1. request # None => request' # None
      BY <1>3, ForgottenRequest DEF BreakPane
    <2> QED BY <1>0, <1>3, <2>1, BreakPaneStep DEF Asked
  <1>4. ASSUME NEW p \in Shown(windows), NEW left, ClosePane(p, left) PROVE Proper /\ Asked
    BY <1>0, <1>4, ClosePaneStep DEF ClosePane, Asked
  <1>5. ASSUME NEW p \in Shown(windows), NEW q, SwapPanes(p, q) PROVE Proper /\ Asked
    BY <1>0, <1>5, SwapPanesStep DEF SwapPanes, Asked
  <1>6. ASSUME NEW p \in Shown(windows), NEW q \in Shown(windows), JoinPane(p, q)
        PROVE  Proper /\ Asked
    <2>1. request # None => request' # None
      BY <1>6, ForgottenRequest DEF JoinPane
    <2> QED BY <1>0, <1>6, <2>1, JoinPaneStep DEF Asked
  <1>7. ASSUME NEW win \in All(windows), NEW left, CloseWindow(win.id, left)
        PROVE  Proper /\ Asked
    BY <1>0, <1>7, CloseWindowStep DEF CloseWindow, Asked
  <1>8. ASSUME NEW win \in All(windows), NEW right \in BOOLEAN, MoveWindow(win.id, right)
        PROVE  Proper /\ Asked
    BY <1>0, <1>8, MoveWindowStep DEF MoveWindow, Asked
  <1>9. ASSUME NEW id \in Ids(windows), SelectWindow(id) PROVE Proper /\ Asked
    BY <1>0, <1>9, SelectWindowStep DEF SelectWindow, Asked
  <1>10. ASSUME NEW i \in 1 .. MaxWindows, NewWindow(i) PROVE Proper /\ Asked
    BY <1>0, <1>10, NewWindowStep DEF NewWindow, Asked
  <1>11. ASSUME NEW left, FinishClose(left) PROVE Proper /\ Asked
    BY <1>0, <1>11, FinishCloseStep
  <1>12. ASSUME NEW whole \in BOOLEAN, AskClose(whole) PROVE Proper /\ Asked
    BY <1>0, <1>12, AskCloseStep DEF AskClose, Asked, KeysRead
  <1>13. ASSUME SelectLast PROVE Proper /\ Asked
    BY <1>0, <1>13, SelectLastStep DEF SelectLast, Asked
  <1>14. ASSUME ToggleFloating PROVE Proper /\ Asked
    <2>1. UNCHANGED request
      BY ONLY Zenon, <1>14 DEF ToggleFloating
    <2> QED BY <1>0, <1>14, <2>1, ToggleFloatingStep DEF Asked
  <1>15. ASSUME Disconnect PROVE Proper /\ Asked
    BY <1>0, <1>15, DisconnectStep
  <1>16. ASSUME HiddenExits PROVE Proper /\ Asked
    BY <1>0, <1>16, HiddenExitsStep DEF HiddenExits, Asked
  <1>17. ASSUME UndoClose PROVE Proper /\ Asked
    BY <1>0, <1>17, UndoCloseStep DEF UndoClose, Asked
  <1> HIDE DEF Proper, Asked
  <1> QED BY Zenon, <1>1, <1>2, <1>3, <1>4, <1>5, <1>6, <1>7, <1>8, <1>9, <1>10, <1>11,
             <1>12, <1>13, <1>14, <1>15, <1>16, <1>17 DEF Next

\* Every reachable state has whole windows that share no pane.
THEOREM WorkspaceInvariance == Spec => []WInv
  <1>1. Init => WInv
    BY InitHolds
  <1>2. WInv /\ [Next]_vars => WInv'
    <2> SUFFICES ASSUME WInv, [Next]_vars PROVE WInv'
      OBVIOUS
    <2>1. CASE Next
      BY <2>1, EveryStep, ProperKeeps
    <2>2. CASE UNCHANGED vars
      BY <2>2 DEF vars, WInv, HiddenPanes
    <2> QED BY <2>1, <2>2
  <1> QED BY <1>1, <1>2, PTL DEF Spec

\* The focus is on a window that exists, and in each window on one of its panes.
THEOREM WorkspaceTypeCorrect == Spec => []TypeOK
  <1>1. WInv => TypeOK
    <2> SUFFICES ASSUME WInv PROVE TypeOK
      OBVIOUS
    <2>1. Whole(windows) /\ status \in {"running", "exited", "panicked"}
      BY DEF WInv
    <2>2. windows.entries # <<>>
      BY <2>1, Found
    <2> QED BY <2>1, <2>2 DEF Whole, Bar, Sound, TypeOK
  <1> QED BY <1>1, WorkspaceInvariance, PTL

\* No shell is in two places, and no window identity is used twice, whatever is
\* split, broken off, joined, closed and brought back.
THEOREM EveryShellHasOnePlace == Spec => []OneOwner
  <1>1. WInv => OneOwner
    <2> SUFFICES ASSUME WInv PROVE OneOwner
      OBVIOUS
    <2>1. Whole(windows) /\ Apart(All(windows)) /\ Shown(windows) \cap HiddenPanes = {}
      BY DEF WInv
    <2>2. \A i, j \in DOMAIN windows.entries :
            i # j => windows.entries[i].id # windows.entries[j].id
      BY <2>1 DEF Whole
    <2>3. windows.floating = None \/ windows.floating.id \notin Ids(windows)
      BY <2>1 DEF Whole
    <2>4. ASSUME NEW win \in All(windows)
          PROVE  /\ IsInjective(win.panes)
                 /\ PanesOf(win) \cap HiddenPanes = {}
                 /\ \A v \in All(windows) \ {win} : PanesOf(v) \cap PanesOf(win) = {}
      <3>1. IsInjective(win.panes)
        BY <2>1 DEF Whole, Sound
      <3>2. PanesOf(win) \subseteq Shown(windows)
        BY DEF Shown
      <3> QED BY <2>1, <3>1, <3>2 DEF Apart
    <2> QED BY <2>2, <2>3, <2>4 DEF OneOwner
  <1> QED BY <1>1, WorkspaceInvariance, PTL

\* Every way to a new window respects MAX_WINDOWS.
THEOREM WindowsAreLimited == Spec => []WindowLimit
  <1>1. WInv => WindowLimit
    BY DEF WInv, WindowLimit
  <1> QED BY <1>1, WorkspaceInvariance, PTL

\* The record of the last window never names a window that is gone or floats.
THEOREM LastWindowLives == Spec => []LastLives
  <1>1. WInv => LastLives
    BY DEF WInv, Whole, LastLives
  <1> QED BY <1>1, WorkspaceInvariance, PTL

\* While the floating window is hidden, no step makes the record of the last
\* window name the active one.
THEOREM LastIsNotTheActiveOne == Spec => LastIsElsewhere
  <1>1. WInv /\ [Next]_vars =>
          [~windows.visible /\ windows.last # TiledActive(windows).id =>
             windows'.last # TiledActive(windows').id]_vars
    BY EveryStep DEF Proper, LooksBack, Elsewhere
  <1> QED BY <1>1, WorkspaceInvariance, PTL DEF Spec, LastIsElsewhere

\* Moving and closing windows leaves the focus on the window that had it.
THEOREM FocusIsKept == Spec => FocusKept
  <1>1. WInv /\ [Next]_vars =>
          [/\ windows'.entries # windows.entries /\ status' = "running"
           /\ ToSet(windows'.entries) \subseteq ToSet(windows.entries)
           /\ TiledActive(windows) \in ToSet(windows'.entries)
           => /\ TiledActive(windows') = TiledActive(windows)
              /\ windows'.visible = windows.visible]_vars
    BY EveryStep DEF Proper, Steady
  <1> QED BY <1>1, WorkspaceInvariance, PTL DEF Spec, FocusKept

\* A confirmed close takes the pane or the window it was confirmed for.
THEOREM CloseIsWhatWasAsked == Spec => ClosesWhatWasAsked
  <1>1. WInv /\ [Next]_vars =>
          [request # None /\ request' = None =>
             \A p \in Shown(windows) \ Shown(windows') :
               IF request.whole THEN Holder(windows, p).id = request.window
                                ELSE p = request.pane]_vars
    BY EveryStep DEF Asked
  <1> QED BY <1>1, WorkspaceInvariance, PTL DEF Spec, ClosesWhatWasAsked

-----------------------------------------------------------------------------
(* The workspace implements PaneOwners.                                    *)

\* What the pairs of the refinement mapping are.
OwnerFacts ==
    /\ \A x \in Owner : x = <<x[1], x[2]>>
    /\ \A r, id : <<r, id>> \in Owner <=>
                    Owns(windows, id, r) \/ (id = None /\ closed # None /\ r = closed.pane)
    /\ \A r, id : Owns(windows, id, r) => id # None /\ r \in Shown(windows)
    /\ \A r, id, jd : Owns(windows, id, r) /\ Owns(windows, jd, r) => id = jd
    /\ \A r, id, jd : <<r, id>> \in Owner /\ <<r, jd>> \in Owner => id = jd

LEMMA OwnerPairs == WInv => OwnerFacts
  <1> SUFFICES ASSUME WInv PROVE OwnerFacts
    OBVIOUS
  <1>1. Whole(windows) /\ Apart(All(windows)) /\ Shown(windows) \cap HiddenPanes = {}
    BY DEF WInv
  <1> DEFINE A == UNION {PanesOf(win) \X {win.id} : win \in All(windows)}
             B == HiddenPanes \X {None}
  <1>2. Owner = A \cup B
    BY DEF Owner
  <1>3. \A x : x \in A <=> \E win \in All(windows) : x \in PanesOf(win) \X {win.id}
    BY ONLY Zenon
  <1>4. ASSUME NEW x \in Owner PROVE x = <<x[1], x[2]>>
    <2>1. \/ \E win \in All(windows) : x \in PanesOf(win) \X {win.id}
          \/ x \in HiddenPanes \X {None}
      BY ONLY Zenon, <1>2, <1>3, <1>4
    <2> QED BY ONLY <2>1
  <1>5. ASSUME NEW r, NEW id
        PROVE  <<r, id>> \in Owner <=>
                 Owns(windows, id, r) \/ (id = None /\ closed # None /\ r = closed.pane)
    <2>1. <<r, id>> \in A <=> Owns(windows, id, r)
      <3>1. \A win : <<r, id>> \in PanesOf(win) \X {win.id} <=> r \in PanesOf(win) /\ win.id = id
        OBVIOUS
      <3> HIDE DEF A
      <3> QED BY ONLY <1>3, <3>1 DEF Owns
    <2>2. <<r, id>> \in B <=> id = None /\ closed # None /\ r = closed.pane
      BY DEF HiddenPanes
    <2> HIDE DEF A, B
    <2> QED BY ONLY <1>2, <2>1, <2>2
  <1>6. \A r, id : Owns(windows, id, r) => id # None /\ r \in Shown(windows)
    <2>1. \A win \in All(windows) : win.id \in WindowIds
      BY <1>1, Found DEF WindowType
    <2>2. None \notin WindowIds
      BY WorkspaceAssumption
    <2> QED BY <1>1, <2>1, <2>2, OwnsWhole DEF Owns
  <1>7. \A r, id, jd : Owns(windows, id, r) /\ Owns(windows, jd, r) => id = jd
    BY <1>1, OwnsWhole
  <1>8. closed # None => closed.pane \notin Shown(windows)
    BY <1>1 DEF HiddenPanes
  <1> QED BY <1>4, <1>5, <1>6, <1>7, <1>8 DEF OwnerFacts

LEMMA OwnersInit ==
    ASSUME Init
    PROVE  Owners!Init
  <1>1. PICK p \in Panes :
          windows = [entries |-> <<Single(CHOOSE id \in WindowIds : TRUE, p)>>, active |-> 1,
                     last |-> None, floating |-> None, visible |-> FALSE]
    BY DEF Init
  <1> DEFINE id == CHOOSE x \in WindowIds : TRUE
             win == Single(id, p)
  <1>2. All(windows) = {win} /\ win.id = id /\ PanesOf(win) = {p}
    <2>1. windows.entries = <<win>> /\ windows.floating = None
      BY <1>1
    <2>2. win.id = id /\ win.panes = <<p>>
      BY DEF Single
    <2> HIDE DEF win, id
    <2> QED BY <2>1, <2>2 DEF All, ToSet, PanesOf
  <1>3. HiddenPanes = {}
    BY DEF Init, HiddenPanes
  <1> HIDE DEF win, id
  <1>4. Owner = {<<p, id>>}
    <2>1. Owner = UNION {PanesOf(win) \X {win.id}}
      BY <1>2, <1>3 DEF Owner
    <2>2. PanesOf(win) \X {win.id} = {<<p, id>>}
      BY <1>2
    <2> QED BY <2>1, <2>2
  <1> QED BY <1>4 DEF Owners!Init

\* A step of the workspace starts, moves or ends a shell, ends all of a window, or
\* does nothing with shells.
LEMMA OwnersStep ==
    ASSUME WInv, WInv', Transfer
    PROVE  Owners!Next \/ Owner' = Owner
  <1> DEFINE o == Owner
             n == Owner'
  <1>1. /\ \A x \in o : x = <<x[1], x[2]>>
        /\ \A r, id : <<r, id>> \in o <=>
                        Owns(windows, id, r) \/ (id = None /\ closed # None /\ r = closed.pane)
        /\ \A r, id : Owns(windows, id, r) => id # None /\ r \in Shown(windows)
        /\ \A r, id, jd : Owns(windows, id, r) /\ Owns(windows, jd, r) => id = jd
        /\ \A r, id, jd : <<r, id>> \in o /\ <<r, jd>> \in o => id = jd
    BY OwnerPairs DEF OwnerFacts
  <1>2. /\ \A x \in n : x = <<x[1], x[2]>>
        /\ \A r, id : <<r, id>> \in n <=>
                        Owns(windows', id, r) \/ (id = None /\ closed' # None /\ r = closed'.pane)
        /\ \A r, id : Owns(windows', id, r) => id # None
    <2>1. OwnerFacts'
      BY OwnerPairs, PTL
    <2> QED BY <2>1 DEF OwnerFacts
  <1>3. \A r \in Shown(windows) : \E id : Owns(windows, id, r)
    BY OwnsWhole DEF WInv
  <1> DEFINE gone == o \ n
             new  == n \ o
  <1>4. Owners!Step(o, gone, new) => Owners!Next
    BY ONLY Zenon DEF Owners!Next
  <1>5. (\A r, id : <<r, id>> \in n <=> <<r, id>> \in o) => n = o
    <2> HIDE DEF o, n
    <2>1. ASSUME \A r, id : <<r, id>> \in n <=> <<r, id>> \in o, NEW x
          PROVE  x \in n <=> x \in o
      BY ONLY <1>1, <1>2, <2>1
    <2> QED BY <2>1
  <1> HIDE DEF o, n
  <1>6. CASE Same(windows, windows') /\ closed' = closed
    <2>1. \A r, id : <<r, id>> \in n <=> <<r, id>> \in o
      BY <1>1, <1>2, <1>6 DEF Same
    <2> QED BY <1>5, <2>1 DEF o, n
  <1>7. CASE Same(windows, windows') /\ closed # None /\ closed' = None
    <2> DEFINE y == <<closed.pane, None>>
    <2>1. \A r, id : <<r, id>> \in n <=> Owns(windows, id, r)
      BY <1>2, <1>7 DEF Same
    <2>2. y \in gone /\ \A r, id : <<r, id>> \in gone => <<r, id>> = y
      BY <1>1, <1>7, <2>1
    <2>3. gone = {y} /\ new = {}
      <3>1. \A x \in gone : x = y
        BY <1>1, <2>2
      <3>2. \A x \in new : FALSE
        BY <1>1, <1>2, <2>1
      <3> QED BY <2>2, <3>1, <3>2
    <2>4. Owners!End(o, gone, new)
      BY <2>3 DEF Owners!End
    <2> QED BY <1>4, <2>4 DEF Owners!Step
  \* A shell that starts in a window.
  <1>8. CASE closed' = closed /\ \E p \in SparePanes, to \in WindowIds :
                                   Arrives(windows, windows', p, to)
    <2>1. PICK p \in SparePanes, to \in WindowIds : Arrives(windows, windows', p, to)
      BY <1>8
    <2> DEFINE x == <<p, to>>
    <2>2. \A id : <<p, id>> \notin o
      BY <1>1 DEF SparePanes, HiddenPanes
    <2>3. \A r, id : <<r, id>> \in n <=> <<r, id>> \in o \/ (r = p /\ id = to)
      BY <1>1, <1>2, <1>8, <2>1, <2>2 DEF Arrives
    <2>4. gone = {} /\ new = {x}
      <3>1. \A z \in gone : FALSE
        BY <1>1, <2>3
      <3>2. \A z \in new : z = x
        BY <1>2, <2>3
      <3>3. x \in new
        BY <2>2, <2>3
      <3> QED BY <3>1, <3>2, <3>3
    <2>5. \A z \in o : z[1] # p
      BY <1>1, <2>2
    <2>6. Owners!Start(o, gone, new)
      BY <2>4, <2>5 DEF Owners!Start
    <2> QED BY <1>4, <2>6 DEF Owners!Step
  \* A shell that moves to another window.
  <1>9. CASE closed' = closed /\ \E p \in Shown(windows), to \in WindowIds :
                                   Arrives(windows, windows', p, to)
    <2>1. PICK p \in Shown(windows), to \in WindowIds : Arrives(windows, windows', p, to)
      BY <1>9
    <2>2. PICK from : Owns(windows, from, p)
      BY <1>3
    <2>3. <<p, from>> \in o /\ from # None /\ to # None
      BY <1>1, <2>2, WorkspaceAssumption
    <2>4. \A r, id : <<r, id>> \in n <=> IF r = p THEN id = to ELSE <<r, id>> \in o
      <3>1. closed # None => closed.pane # p
        BY <1>1, <2>3
      <3> QED BY <1>1, <1>2, <1>9, <2>1, <3>1 DEF Arrives
    <2>5. CASE from = to
      <3>1. \A r, id : <<r, id>> \in n <=> <<r, id>> \in o
        BY <1>1, <2>3, <2>4, <2>5
      <3> QED BY <1>5, <3>1 DEF o, n
    <2>6. CASE from # to
      <3> DEFINE x == <<p, to>>
                 y == <<p, from>>
      <3>1. gone = {y} /\ new = {x}
        <4>1. y \in gone /\ x \in new
          BY <1>1, <2>3, <2>4, <2>6
        <4>2. \A z \in gone : z = y
          BY <1>1, <2>3, <2>4
        <4>3. \A z \in new : z = x
          BY <1>2, <2>4
        <4> QED BY <4>1, <4>2, <4>3
      <3>2. x[1] = y[1] /\ x[2] # None
        BY <2>3
      <3>3. Owners!Move(o, gone, new)
        BY <3>1, <3>2 DEF Owners!Move
      <3> QED BY <1>4, <3>3 DEF Owners!Step
    <2> QED BY <2>5, <2>6
  \* A shell that ends.
  <1>10. CASE closed' = closed /\ \E p \in Shown(windows) : Leaves(windows, windows', p)
    <2>1. PICK p \in Shown(windows) : Leaves(windows, windows', p)
      BY <1>10
    <2>2. PICK from : Owns(windows, from, p)
      BY <1>3
    <2> DEFINE y == <<p, from>>
    <2>3. y \in o
      BY <1>1, <2>2
    <2>4. \A r, id : <<r, id>> \in n <=> r # p /\ <<r, id>> \in o
      <3>1. closed # None => closed.pane # p
        BY <1>1, <2>2, <2>3
      <3> QED BY <1>1, <1>2, <1>10, <2>1, <3>1 DEF Leaves
    <2>5. gone = {y} /\ new = {}
      <3>1. y \in gone
        BY <2>3, <2>4
      <3>2. \A z \in gone : z = y
        BY <1>1, <2>3, <2>4
      <3>3. \A z \in new : FALSE
        BY <1>2, <2>4
      <3> QED BY <3>1, <3>2, <3>3
    <2>6. Owners!End(o, gone, new)
      BY <2>5 DEF Owners!End
    <2> QED BY <1>4, <2>6 DEF Owners!Step
  \* A window that closes with its shells.
  <1>11. CASE closed' = closed /\ \E win \in All(windows) :
                                    Empties(windows, windows', win.id)
    <2>1. PICK win \in All(windows) : Empties(windows, windows', win.id)
      BY <1>11
    <2>2. PICK p : Owns(windows, win.id, p)
      <3>1. win.active \in PanesOf(win)
        BY DEF WInv, Whole, Sound
      <3> QED BY <3>1 DEF Owns
    <2> DEFINE id == win.id
               y == <<p, id>>
    <2>3. y \in o /\ id # None
      BY <1>1, <2>2
    <2> HIDE DEF id
    <2>4. \A r, jd : <<r, jd>> \in n <=> jd # id /\ <<r, jd>> \in o
      BY <1>1, <1>2, <1>11, <2>1, <2>3 DEF Empties, id
    <2>5. y \in gone /\ gone = Owners!In(id, o) /\ new = {}
      <3>1. y \in gone
        BY <2>3, <2>4
      <3>2. \A z \in o : z \in n <=> z[2] # id
        BY <1>1, <2>4
      <3>3. gone = {z \in o : z[2] = id}
        BY <3>2
      <3>4. \A z \in new : FALSE
        BY <1>2, <2>4
      <3> QED BY <3>1, <3>3, <3>4 DEF Owners!In
    <2>6. Owners!End(o, gone, new)
      <3>1. y[2] = id
        OBVIOUS
      <3> HIDE DEF y, gone, new
      <3> QED BY <2>5, <3>1 DEF Owners!End
    <2> QED BY <1>4, <2>6 DEF Owners!Step
  \* A shell that is hidden, and the one that was hidden before ends.
  <1>12. CASE /\ closed' # None /\ closed'.pane \in Shown(windows)
              /\ Leaves(windows, windows', closed'.pane)
    <2> DEFINE p == closed'.pane
    <2>1. PICK from : Owns(windows, from, p)
      BY <1>3, <1>12
    <2> DEFINE x == <<p, None>>
               y == <<p, from>>
    <2>2. y \in o /\ from # None
      BY <1>1, <2>1
    <2> HIDE DEF p
    <2>3. \A r, id : <<r, id>> \in n <=>
                       \/ id # None /\ r # p /\ <<r, id>> \in o
                       \/ id = None /\ r = p
      BY <1>1, <1>2, <1>12 DEF Leaves, p
    <2>4. <<p, None>> \notin o
      BY <1>1, <2>2
    <2>5. new = {x}
      <3>1. x \in new
        BY <2>3, <2>4
      <3>2. \A z \in new : z = x
        BY <1>2, <2>3
      <3> QED BY <3>1, <3>2
    <2>6. gone = {y} \cup Owners!In(None, o)
      <3>1. y \in gone
        BY <2>2, <2>3
      <3>2. \A z \in o : z[2] = None => z \in gone
        BY <1>1, <2>3, <2>4
      <3>3. \A z \in gone : z = y \/ z[2] = None
        BY <1>1, <2>2, <2>3
      <3> QED BY <3>1, <3>2, <3>3 DEF Owners!In
    <2>7. x[1] = y[1] /\ x[2] = None /\ y \in gone
      BY <2>2, <2>3
    <2> HIDE DEF x, y, gone, new
    <2>8. Owners!Move(o, gone, new)
      BY <2>5, <2>6, <2>7 DEF Owners!Move
    <2> QED BY <1>4, <2>8 DEF Owners!Step
  \* The hidden shell that comes back.
  <1>13. CASE /\ closed # None /\ closed' = None
              /\ \E to \in WindowIds : Arrives(windows, windows', closed.pane, to)
    <2> DEFINE p == closed.pane
    <2>1. PICK to \in WindowIds : Arrives(windows, windows', p, to)
      BY <1>13
    <2> DEFINE x == <<p, to>>
               y == <<p, None>>
    <2>2. y \in o /\ to # None
      BY <1>1, <1>13, WorkspaceAssumption
    <2>3. \A r, id : <<r, id>> \in n <=> IF r = p THEN id = to ELSE <<r, id>> \in o
      BY <1>1, <1>2, <1>13, <2>1 DEF Arrives
    <2> HIDE DEF p
    <2>4. gone = {y} /\ new = {x}
      <3>1. y \in gone /\ x \in new
        BY <1>1, <2>2, <2>3
      <3>2. \A z \in gone : z = y
        BY <1>1, <2>2, <2>3
      <3>3. \A z \in new : z = x
        BY <1>2, <2>3
      <3> QED BY <3>1, <3>2, <3>3
    <2>5. x[1] = y[1] /\ x[2] # None
      BY <2>2
    <2>6. Owners!Move(o, gone, new)
      BY <2>4, <2>5 DEF Owners!Move
    <2> QED BY <1>4, <2>6 DEF Owners!Step
  <1> QED BY <1>6, <1>7, <1>8, <1>9, <1>10, <1>11, <1>12, <1>13 DEF Transfer

\* The workspace with its order, focus and records implements PaneOwners: a shell
\* is in one window or hidden, and only leaves for one of the reasons stated there.
THEOREM WorkspaceImplementsOwners == Spec => OwnersSpec
  <1>1. Init => Owners!Init
    BY OwnersInit
  <1>2. WInv /\ WInv' /\ [Next]_vars => [Owners!Next]_Owner
    <2> SUFFICES ASSUME WInv, WInv', [Next]_vars PROVE Owners!Next \/ Owner' = Owner
      OBVIOUS
    <2>1. CASE Next
      BY <2>1, EveryStep, OwnersStep DEF Proper
    <2>2. CASE UNCHANGED vars
      BY <2>2 DEF vars, Owner, HiddenPanes
    <2> QED BY <2>1, <2>2
  <1> QED BY <1>1, <1>2, WorkspaceInvariance, PTL DEF Spec, OwnersSpec, Owners!Spec
=============================================================================
