------------------------- MODULE PaneLayout_proofs -------------------------
(***************************************************************************)
(* Proofs about PaneLayout for windows of any size, any number of panes    *)
(* and any tree: no pane loses its place, no two overlap, and the order of *)
(* the panes is the one that PaneList promises.                            *)
(*                                                                         *)
(* A tree is finite because its paths have a greatest length: what is      *)
(* defined from the leaves up or from the root down is followed by         *)
(* induction on a set of lengths.                                          *)
(***************************************************************************)
EXTENDS PaneLayout, SequenceTheorems, FiniteSetTheorems, WellFoundedInduction, TLAPS

-----------------------------------------------------------------------------
(* Induction.                                                              *)

LEMMA Least ==
    ASSUME NEW S, S \subseteq Nat, S # {}
    PROVE  \E n \in S : \A m \in S : n <= m
  <1>1. PICK n \in S : \A m \in S : ~(<<m, n>> \in OpToRel(<, Nat))
    BY NatLessThanWellFounded, WFMin
  <1>2. \A m \in S : ~(m < n)
    BY <1>1 DEF OpToRel
  <1> QED BY <1>2

LEMMA Greatest ==
    ASSUME NEW S, S \subseteq Nat, S # {}, NEW high \in Nat, \A n \in S : n <= high
    PROVE  \E n \in S : \A m \in S : m <= n
  <1> DEFINE T == {high - n : n \in S}
  <1>1. T \subseteq Nat /\ T # {}
    <2>1. ASSUME NEW n \in S PROVE high - n \in Nat
      <3>1. n \in Nat /\ n <= high
        OBVIOUS
      <3> QED BY <3>1
    <2> QED BY <2>1
  <1> HIDE DEF T
  <1>2. PICK t \in T : \A u \in T : t <= u
    BY <1>1, Least
  <1>3. PICK n \in S : t = high - n
    BY DEF T
  <1>4. \A m \in S : high - n <= high - m
    BY <1>2, <1>3 DEF T
  <1> QED BY <1>4

LEMMA Induction ==
    ASSUME NEW S, 0 \in S, \A n \in Nat : n \in S => n + 1 \in S
    PROVE  \A n \in Nat : n \in S
  <1> DEFINE T == Nat \ S
  <1>1. SUFFICES ASSUME T # {} PROVE FALSE
    OBVIOUS
  <1>2. T \subseteq Nat
    OBVIOUS
  <1> HIDE DEF T
  <1>3. PICK n \in T : \A m \in T : n <= m
    BY <1>1, <1>2, Least
  <1>4. n # 0 /\ n \in Nat /\ n \notin S
    BY <1>3 DEF T
  <1>5. n - 1 \in Nat /\ n - 1 \in S
    BY <1>3, <1>4 DEF T
  <1>6. n - 1 + 1 \in S /\ n - 1 + 1 = n
    BY <1>5, <1>4
  <1> QED BY <1>4, <1>6

-----------------------------------------------------------------------------
(* Paths.                                                                  *)

Paths == Seq({1, 2})

\* p is on the way to q, or q itself.
Above(p, q) == Len(p) <= Len(q) /\ \A n \in 1 .. Len(p) : p[n] = q[n]

LEMMA PathFacts ==
    ASSUME NEW p \in Paths
    PROVE  Len(p) \in Nat /\ \A n \in 1 .. Len(p) : p[n] \in {1, 2}
  BY DEF Paths

LEMMA SamePath ==
    ASSUME NEW p \in Paths, NEW q \in Paths, Len(p) = Len(q), \A n \in 1 .. Len(p) : p[n] = q[n]
    PROVE  p = q
  BY SeqEqual DEF Paths

LEMMA Extend ==
    ASSUME NEW p \in Paths, NEW i \in {1, 2}
    PROVE  /\ p \o <<i>> \in Paths /\ Len(p \o <<i>>) = Len(p) + 1
           /\ (p \o <<i>>)[Len(p) + 1] = i
           /\ \A n \in 1 .. Len(p) : (p \o <<i>>)[n] = p[n]
           /\ Above(p, p \o <<i>>) /\ p \o <<i>> # <<>>
           /\ Front(p \o <<i>>) = p /\ Last(p \o <<i>>) = i
  <1>1. /\ p \o <<i>> \in Paths /\ Len(p \o <<i>>) = Len(p) + 1
        /\ (p \o <<i>>)[Len(p) + 1] = i
        /\ \A n \in 1 .. Len(p) : (p \o <<i>>)[n] = p[n]
    BY DEF Paths
  <1> DEFINE q == p \o <<i>>
  <1>2. Front(q) = p
    <2> HIDE DEF q
    <2>1. Len(p) \in Nat /\ Len(q) = Len(p) + 1 /\ q \in Paths
      BY <1>1, PathFacts DEF q
    <2>2. /\ Front(q) \in Paths /\ Len(Front(q)) = Len(p)
          /\ \A n \in 1 .. Len(p) : Front(q)[n] = q[n]
      <3>1. \A n \in 1 .. Len(p) : q[n] \in {1, 2}
        BY <2>1, PathFacts
      <3>2. /\ Front(q) \in Paths
            /\ Len(Front(q)) = IF 1 <= Len(p) THEN Len(p) - 1 + 1 ELSE 0
            /\ \A n \in 1 .. Len(p) - 1 + 1 : Front(q)[n] = q[1 + n - 1]
        BY <2>1, <3>1, SubSeqProperties DEF Front, Paths
      <3> QED BY <2>1, <3>2
    <2>3. \A n \in 1 .. Len(p) : Front(q)[n] = p[n]
      BY <1>1, <2>2 DEF q
    <2> QED BY <2>2, <2>3, SamePath
  <1>3. Last(q) = i
    BY <1>1 DEF Last
  <1>4. q # <<>>
    BY <1>1, PathFacts
  <1> QED BY <1>1, <1>2, <1>3, <1>4, PathFacts DEF Above

\* The way to a path's parent, and the last step from there.
LEMMA Shorten ==
    ASSUME NEW q \in Paths, q # <<>>
    PROVE  /\ Front(q) \in Paths /\ Len(q) = Len(Front(q)) + 1 /\ Last(q) \in {1, 2}
           /\ q = Front(q) \o <<Last(q)>>
           /\ \A n \in 1 .. Len(Front(q)) : Front(q)[n] = q[n]
           /\ Last(q) = q[Len(q)]
  <1>1. PICK k \in Nat : Len(q) = k + 1
    <2>1. Len(q) \in Nat /\ Len(q) # 0
      BY EmptySeq DEF Paths
    <2>2. \A n \in Nat : n # 0 => n - 1 \in Nat /\ n = n - 1 + 1
      OBVIOUS
    <2> QED BY <2>1, <2>2
  <1>2. Last(q) \in {1, 2} /\ Last(q) = q[Len(q)]
    BY <1>1, PathFacts DEF Last
  <1>3. /\ Front(q) \in Paths /\ Len(Front(q)) = k
        /\ \A n \in 1 .. k : Front(q)[n] = q[n]
    <2>1. Len(q) - 1 = k /\ \A n \in 1 .. k : q[n] \in {1, 2}
      BY <1>1, PathFacts
    <2>2. /\ Front(q) \in Paths
          /\ Len(Front(q)) = IF 1 <= k THEN k - 1 + 1 ELSE 0
          /\ \A n \in 1 .. k - 1 + 1 : Front(q)[n] = q[1 + n - 1]
      BY <1>1, <2>1, SubSeqProperties DEF Front, Paths
    <2>3. k - 1 + 1 = k /\ (1 <= k \/ k = 0) /\ \A n \in 1 .. k : 1 + n - 1 = n
      OBVIOUS
    <2> QED BY <2>2, <2>3
  <1>4. q = Front(q) \o <<Last(q)>>
    <2> DEFINE t == Front(q) \o <<Last(q)>>
    <2>1. /\ t \in Paths /\ Len(t) = Len(q) /\ t[Len(q)] = Last(q)
          /\ \A n \in 1 .. k : t[n] = Front(q)[n]
      BY <1>1, <1>2, <1>3, Extend
    <2> HIDE DEF t
    <2>2. \A n \in 1 .. Len(q) : q[n] = t[n]
      BY <1>1, <1>2, <1>3, <2>1
    <2>3. q = t
      BY <2>1, <2>2, SamePath
    <2> QED BY <2>3 DEF t
  <1> QED BY <1>1, <1>2, <1>3, <1>4

LEMMA AboveTransitive ==
    ASSUME NEW p \in Paths, NEW q \in Paths, NEW x \in Paths, Above(p, q), Above(q, x)
    PROVE  Above(p, x)
  BY PathFacts DEF Above

\* Two paths are the same, or one is above the other, or they part somewhere.
Parts(z, p, q) == Above(z \o <<1>>, p) /\ Above(z \o <<2>>, q)

LEMMA TakeStep ==
    ASSUME NEW p \in Paths, NEW q \in Paths, Above(p, q), p # q
    PROVE  /\ q[Len(p) + 1] \in {1, 2} /\ Len(p) < Len(q)
           /\ Above(p \o <<q[Len(p) + 1]>>, q)
  <1>1. Len(p) \in Nat /\ Len(q) \in Nat
    BY PathFacts
  <1>2. Len(p) < Len(q)
    BY <1>1, SamePath DEF Above
  <1>3. q[Len(p) + 1] \in {1, 2}
    BY <1>1, <1>2, PathFacts
  <1> QED BY <1>1, <1>2, <1>3, Extend DEF Above

LEMMA WaysPart ==
    ASSUME NEW p \in Paths, NEW q \in Paths, ~Above(p, q), ~Above(q, p)
    PROVE  \E z \in Paths : Above(z, p) /\ Above(z, q) /\ (Parts(z, p, q) \/ Parts(z, q, p))
  <1>0. Len(p) \in Nat /\ Len(q) \in Nat
    BY PathFacts
  <1> DEFINE S == {n \in Nat : n \in 1 .. Len(p) /\ n \in 1 .. Len(q) /\ p[n] # q[n]}
  <1>1. S # {} /\ S \subseteq Nat
    BY <1>0 DEF Above
  <1>2. PICK n \in S : \A m \in S : n <= m
    <2> HIDE DEF S
    <2> QED BY <1>1, Least
  <1>3. \A m \in 1 .. n - 1 : p[m] = q[m]
    BY <1>0, <1>2
  <1> DEFINE z == SubSeq(p, 1, n - 1)
  <1>4. z \in Paths /\ Len(z) = n - 1 /\ \A m \in 1 .. n - 1 : z[m] = p[m]
    <2>1. n \in 1 .. Len(p) /\ \A m \in 1 .. n - 1 : p[m] \in {1, 2}
      BY <1>0, <1>2, PathFacts
    <2>2. /\ z \in Paths /\ Len(z) = IF 1 <= n - 1 THEN n - 1 - 1 + 1 ELSE 0
          /\ \A m \in 1 .. n - 1 - 1 + 1 : z[m] = p[1 + m - 1]
      BY <1>0, <2>1, SubSeqProperties DEF Paths
    <2> HIDE DEF z
    <2> QED BY <1>0, <2>1, <2>2
  <1> HIDE DEF z
  <1>5. Above(z, p) /\ Above(z, q) /\ z # p /\ z # q
    BY <1>0, <1>2, <1>3, <1>4 DEF Above
  <1>6. Above(z \o <<p[n]>>, p) /\ Above(z \o <<q[n]>>, q)
    <2>1. Len(z) + 1 = n
      BY <1>2, <1>4
    <2> QED BY <1>4, <1>5, <2>1, TakeStep
  <1>7. p[n] \in {1, 2} /\ q[n] \in {1, 2} /\ p[n] # q[n]
    BY <1>2, PathFacts
  <1>8. CASE p[n] = 1
    <2>1. q[n] = 2
      BY <1>7, <1>8
    <2> QED BY <1>4, <1>5, <1>6, <1>8, <2>1 DEF Parts
  <1>9. CASE p[n] = 2
    <2>1. q[n] = 1
      BY <1>7, <1>9
    <2> QED BY <1>4, <1>5, <1>6, <1>9, <2>1 DEF Parts
  <1> QED BY <1>7, <1>8, <1>9

\* Before says of two paths that they part, the first one to the first side.
LEMMA BeforeParts ==
    ASSUME NEW p \in Paths, NEW q \in Paths, NEW z \in Paths, Parts(z, p, q)
    PROVE  Before(p, q)
  <1>1. /\ Len(z) \in Nat /\ Len(p) \in Nat /\ Len(q) \in Nat
    BY PathFacts
  <1>2. /\ Len(z \o <<1>>) = Len(z) + 1 /\ Len(z \o <<2>>) = Len(z) + 1
        /\ (z \o <<1>>)[Len(z) + 1] = 1 /\ (z \o <<2>>)[Len(z) + 1] = 2
        /\ \A n \in 1 .. Len(z) : (z \o <<1>>)[n] = z[n] /\ (z \o <<2>>)[n] = z[n]
    BY Extend
  <1>3. Len(z) + 1 \in 1 .. Len(p) /\ Len(z) + 1 <= Len(q)
    BY <1>1, <1>2 DEF Parts, Above
  <1>4. p[Len(z) + 1] = 1 /\ q[Len(z) + 1] = 2
    BY <1>1, <1>2 DEF Parts, Above
  <1>5. \A m \in 1 .. Len(z) + 1 - 1 : p[m] = q[m]
    BY <1>1, <1>2 DEF Parts, Above
  <1> QED BY <1>3, <1>4, <1>5 DEF Before

-----------------------------------------------------------------------------
(* Trees.                                                                  *)

\* The nodes are what is reached from the root, and no leaf is divided.
Grown(t) ==
    /\ Nodes(t) \subseteq Paths
    /\ DOMAIN t.leaf \cap DOMAIN t.split = {}
    /\ <<>> \in Nodes(t)
    /\ \A p \in Nodes(t) \ {<<>>} : Front(p) \in DOMAIN t.split
    /\ \A p \in DOMAIN t.split : p \o <<1>> \in Nodes(t) /\ p \o <<2>> \in Nodes(t)
    /\ \E high \in Nat : \A p \in Nodes(t) : Len(p) <= high

\* Every leaf is another pane; a share is a proper fraction.
Marked(t) ==
    /\ t.leaf \in [DOMAIN t.leaf -> Ids]
    /\ \A p, q \in DOMAIN t.leaf : t.leaf[p] = t.leaf[q] => p = q
    /\ t.split \in [DOMAIN t.split -> [axis : Dimensions, share : Nat \X (Nat \ {0})]]

LEMMA NodeFacts ==
    ASSUME NEW t, Grown(t), NEW p \in Nodes(t)
    PROVE  /\ p \in Paths /\ Len(p) \in Nat
           /\ p \in DOMAIN t.leaf \/ p \in DOMAIN t.split
           /\ p \in DOMAIN t.split =>
                /\ p \notin DOMAIN t.leaf
                /\ p \o <<1>> \in Nodes(t) /\ Len(p \o <<1>>) = Len(p) + 1
                /\ p \o <<2>> \in Nodes(t) /\ Len(p \o <<2>>) = Len(p) + 1
           /\ p # <<>> =>
                /\ Front(p) \in DOMAIN t.split /\ Front(p) \in Nodes(t)
                /\ Last(p) \in {1, 2} /\ p = Front(p) \o <<Last(p)>>
                /\ Len(p) = Len(Front(p)) + 1
  <1>1. p \in Paths
    BY DEF Grown
  <1> QED BY <1>1, PathFacts, Extend, Shorten DEF Grown, Nodes

LEMMA SplitFacts ==
    ASSUME NEW t, Marked(t), NEW p \in DOMAIN t.split
    PROVE  /\ t.split[p].axis \in Dimensions
           /\ t.split[p].share[1] \in Nat /\ t.split[p].share[2] \in Nat \ {0}
  <1>1. t.split[p] \in [axis : Dimensions, share : Nat \X (Nat \ {0})]
    BY DEF Marked
  <1> QED BY <1>1

\* A proper part of the way to a node is a split.
LEMMA Ancestor ==
    ASSUME NEW t, Grown(t)
    PROVE  \A q \in Nodes(t), p \in Paths : Above(p, q) /\ p # q => p \in DOMAIN t.split
  <1> DEFINE S == {k \in Nat : \A q \in Nodes(t), p \in Paths :
                      Len(q) <= k /\ Above(p, q) /\ p # q => p \in DOMAIN t.split}
  <1>1. 0 \in S
    <2>1. ASSUME NEW q \in Nodes(t), NEW p \in Paths, Len(q) <= 0, Above(p, q), p # q PROVE FALSE
      <3>1. q \in Paths /\ Len(q) \in Nat /\ Len(p) \in Nat
        BY NodeFacts, PathFacts
      <3>2. Len(p) = Len(q)
        BY <2>1, <3>1 DEF Above
      <3> QED BY <2>1, <3>1, <3>2, SamePath DEF Above
    <2> QED BY <2>1
  <1>2. ASSUME NEW k \in Nat, k \in S PROVE k + 1 \in S
    <2>1. ASSUME NEW q \in Nodes(t), NEW p \in Paths, Len(q) <= k + 1, Above(p, q), p # q
          PROVE  p \in DOMAIN t.split
      <3>1. q \in Paths /\ Len(q) \in Nat /\ Len(p) \in Nat
        BY NodeFacts, PathFacts
      <3>2. Len(p) < Len(q)
        BY <2>1, <3>1, SamePath DEF Above
      <3>3. q # <<>>
        BY <3>1, <3>2
      <3>4. /\ Front(q) \in Nodes(t) /\ Front(q) \in DOMAIN t.split
            /\ Len(q) = Len(Front(q)) + 1 /\ Len(Front(q)) \in Nat
        BY <3>3, NodeFacts
      <3>5. Above(p, Front(q))
        <4>1. \A n \in 1 .. Len(Front(q)) : Front(q)[n] = q[n]
          BY <3>1, <3>3, Shorten
        <4> QED BY <2>1, <3>1, <3>2, <3>4, <4>1 DEF Above
      <3>6. CASE p = Front(q)
        BY <3>4, <3>6
      <3>7. CASE p # Front(q)
        <4>1. Len(Front(q)) <= k
          BY <2>1, <3>1, <3>4
        <4> QED BY <1>2, <3>4, <3>5, <3>7, <4>1
      <3> QED BY <3>6, <3>7
    <2> QED BY <2>1
  <1> HIDE DEF S
  <1>3. \A k \in Nat : k \in S
    BY <1>1, <1>2, Induction
  <1>4. ASSUME NEW q \in Nodes(t), NEW p \in Paths, Above(p, q), p # q PROVE p \in DOMAIN t.split
    <2>1. Len(q) \in Nat
      BY NodeFacts
    <2> QED BY <1>3, <1>4, <2>1 DEF S
  <1> QED BY <1>4

-----------------------------------------------------------------------------
(* What a tree needs: Minimum is defined from the leaves up.               *)

Need(l, m, p) ==
    IF p \in DOMAIN l.leaf THEN <<1, 1>>
    ELSE [d \in Dimensions |->
            IF d = l.split[p].axis THEN m[p \o <<1>>][d] + Border + m[p \o <<2>>][d]
                                   ELSE Larger(m[p \o <<1>>][d], m[p \o <<2>>][d])]

LEMMA MinimumEquation ==
    ASSUME NEW l, Grown(l)
    PROVE  Minimum(l) = [p \in Nodes(l) |-> Need(l, Minimum(l), p)]
  <1> DEFINE N == Nodes(l)
  <1>1. PICK high \in Nat : \A p \in N : Len(p) <= high
    BY DEF Grown
  <1> DEFINE S == {k \in Nat : \E g : \A p \in N : Len(p) + k > high => g[p] = Need(l, g, p)}
  <1>2. 0 \in S
    <2>1. \A p \in N : ~(Len(p) + 0 > high)
      BY <1>1, NodeFacts
    <2> QED BY <2>1
  <1>3. ASSUME NEW k \in Nat, k \in S PROVE k + 1 \in S
    <2>1. PICK g : \A p \in N : Len(p) + k > high => g[p] = Need(l, g, p)
      BY <1>3
    <2> DEFINE h == [p \in N |-> Need(l, g, p)]
    <2>2. ASSUME NEW p \in N, Len(p) + (k + 1) > high PROVE h[p] = Need(l, h, p)
      <3>1. CASE p \in DOMAIN l.leaf
        BY <3>1 DEF Need
      <3>2. CASE p \notin DOMAIN l.leaf
        <4>1. /\ p \in DOMAIN l.split /\ Len(p) \in Nat
              /\ p \o <<1>> \in N /\ Len(p \o <<1>>) = Len(p) + 1
              /\ p \o <<2>> \in N /\ Len(p \o <<2>>) = Len(p) + 1
          BY <3>2, NodeFacts
        <4>2. Len(p \o <<1>>) + k > high /\ Len(p \o <<2>>) + k > high
          BY <1>1, <2>2, <4>1
        <4>3. h[p \o <<1>>] = g[p \o <<1>>] /\ h[p \o <<2>>] = g[p \o <<2>>]
          BY <2>1, <4>1, <4>2
        <4> QED BY <4>3 DEF Need
      <3> QED BY <3>1, <3>2
    <2> HIDE DEF h
    <2> QED BY <2>2
  <1> HIDE DEF S
  <1>4. high + 1 \in S
    BY <1>2, <1>3, Induction
  <1>5. PICK g : \A p \in N : g[p] = Need(l, g, p)
    <2>1. PICK g : \A p \in N : Len(p) + (high + 1) > high => g[p] = Need(l, g, p)
      BY <1>4 DEF S
    <2> QED BY <2>1, NodeFacts
  <1> DEFINE h == [p \in N |-> g[p]]
  <1>6. h = [p \in N |-> Need(l, h, p)]
    <2>1. ASSUME NEW p \in N PROVE h[p] = Need(l, h, p)
      <3>1. CASE p \in DOMAIN l.leaf
        BY <1>5, <3>1 DEF Need
      <3>2. CASE p \notin DOMAIN l.leaf
        <4>1. h[p \o <<1>>] = g[p \o <<1>>] /\ h[p \o <<2>>] = g[p \o <<2>>]
          BY <3>2, NodeFacts
        <4> QED BY <1>5, <4>1 DEF Need
      <3> QED BY <3>1, <3>2
    <2> QED BY <2>1
  <1> DEFINE c == CHOOSE m : m = [p \in N |-> Need(l, m, p)]
  <1>7. c = [p \in N |-> Need(l, c, p)]
    <2> HIDE DEF h
    <2> QED BY <1>6
  <1>8. c = CHOOSE m : m = [p \in Nodes(l) |->
          IF p \in DOMAIN l.leaf THEN <<1, 1>>
          ELSE LET a == m[p \o <<1>>]
                   b == m[p \o <<2>>]
               IN  [d \in Dimensions |->
                      IF d = l.split[p].axis THEN a[d] + Border + b[d]
                                             ELSE Larger(a[d], b[d])]]
    BY DEF Need
  <1> HIDE DEF c
  <1>9. Minimum(l) = [p \in Nodes(l) |-> c[p]]
    BY <1>8 DEF Minimum
  <1> QED BY <1>7, <1>9

\* A leaf needs a cell, a split what its children need beside or below each other.
LEMMA MinimumRules ==
    ASSUME NEW l, Grown(l), Marked(l)
    PROVE  /\ \A p \in DOMAIN l.leaf, d \in Dimensions : Minimum(l)[p][d] = 1
           /\ \A p \in DOMAIN l.split, d \in Dimensions :
                LET a == Minimum(l)[p \o <<1>>][d]
                    b == Minimum(l)[p \o <<2>>][d]
                IN  Minimum(l)[p][d] = IF d = l.split[p].axis THEN a + 2 + b ELSE Larger(a, b)
           /\ \A p \in Nodes(l), d \in Dimensions :
                Minimum(l)[p][d] \in Nat /\ Minimum(l)[p][d] >= 1
  <1> DEFINE m == Minimum(l)
  <1>1. \A p \in Nodes(l) : m[p] = Need(l, m, p)
    BY MinimumEquation
  <1> HIDE DEF m
  <1>2. \A p \in DOMAIN l.leaf, d \in Dimensions : m[p][d] = 1
    <2>1. \A d \in Dimensions : <<1, 1>>[d] = 1
      BY DEF Dimensions
    <2>2. \A p \in DOMAIN l.leaf : m[p] = <<1, 1>>
      BY <1>1 DEF Need, Nodes
    <2> QED BY <2>1, <2>2
  <1>3. ASSUME NEW p \in DOMAIN l.split, NEW d \in Dimensions
        PROVE  m[p][d] = IF d = l.split[p].axis THEN m[p \o <<1>>][d] + 2 + m[p \o <<2>>][d]
                         ELSE Larger(m[p \o <<1>>][d], m[p \o <<2>>][d])
    <2>1. p \notin DOMAIN l.leaf /\ p \in Nodes(l)
      BY DEF Grown, Nodes
    <2>2. m[p] = [e \in Dimensions |->
                   IF e = l.split[p].axis THEN m[p \o <<1>>][e] + Border + m[p \o <<2>>][e]
                   ELSE Larger(m[p \o <<1>>][e], m[p \o <<2>>][e])]
      BY <1>1, <2>1 DEF Need
    <2> QED BY <2>2 DEF Border
  <1>4. PICK high \in Nat : \A p \in Nodes(l) : Len(p) <= high
    BY DEF Grown
  <1> DEFINE S == {k \in Nat : \A p \in Nodes(l), d \in Dimensions :
                      Len(p) + k > high => m[p][d] \in Nat /\ m[p][d] >= 1}
  <1>5. 0 \in S
    <2>1. \A p \in Nodes(l) : ~(Len(p) + 0 > high)
      BY <1>4, NodeFacts
    <2> QED BY <2>1
  <1>6. ASSUME NEW k \in Nat, k \in S PROVE k + 1 \in S
    <2>1. ASSUME NEW p \in Nodes(l), NEW d \in Dimensions, Len(p) + (k + 1) > high
          PROVE  m[p][d] \in Nat /\ m[p][d] >= 1
      <3>1. CASE p \in DOMAIN l.leaf
        BY <1>2, <3>1
      <3>2. CASE p \in DOMAIN l.split
        <4>1. /\ Len(p) \in Nat
              /\ p \o <<1>> \in Nodes(l) /\ Len(p \o <<1>>) = Len(p) + 1
              /\ p \o <<2>> \in Nodes(l) /\ Len(p \o <<2>>) = Len(p) + 1
          BY <3>2, NodeFacts
        <4>2. /\ m[p \o <<1>>][d] \in Nat /\ m[p \o <<1>>][d] >= 1
              /\ m[p \o <<2>>][d] \in Nat /\ m[p \o <<2>>][d] >= 1
          <5>1. Len(p \o <<1>>) + k > high /\ Len(p \o <<2>>) + k > high
            BY <1>4, <2>1, <4>1
          <5> QED BY <1>6, <4>1, <5>1
        <4> HIDE DEF S
        <4> QED BY <1>3, <3>2, <4>2 DEF Larger
      <3> QED BY <3>1, <3>2, NodeFacts
    <2> QED BY <2>1
  <1> HIDE DEF S
  <1>7. high + 1 \in S
    BY <1>5, <1>6, Induction
  <1>8. \A p \in Nodes(l), d \in Dimensions : m[p][d] \in Nat /\ m[p][d] >= 1
    BY <1>7, NodeFacts DEF S
  <1> QED BY <1>2, <1>3, <1>8 DEF m

\* b gives every split of l what its two children ask for.
EnoughForSplits(l, b) ==
    \A p \in DOMAIN l.split, d \in Dimensions :
      IF d = l.split[p].axis THEN b[p][d] >= b[p \o <<1>>][d] + 2 + b[p \o <<2>>][d]
      ELSE b[p][d] >= b[p \o <<1>>][d] /\ b[p][d] >= b[p \o <<2>>][d]

\* What is enough for every split is enough: Minimum is the least such demand.
LEMMA MinimumIsLeast ==
    ASSUME NEW l, Grown(l), Marked(l), NEW b,
           \A p \in Nodes(l), d \in Dimensions : b[p][d] \in Nat /\ b[p][d] >= 1,
           EnoughForSplits(l, b)
    PROVE  \A p \in Nodes(l), d \in Dimensions : Minimum(l)[p][d] <= b[p][d]
  <1> DEFINE m == Minimum(l)
  <1>1. PICK high \in Nat : \A p \in Nodes(l) : Len(p) <= high
    BY DEF Grown
  <1> DEFINE S == {k \in Nat : \A p \in Nodes(l), d \in Dimensions :
                      Len(p) + k > high => m[p][d] <= b[p][d]}
  <1>2. /\ \A p \in DOMAIN l.leaf, d \in Dimensions : m[p][d] = 1
        /\ \A p \in DOMAIN l.split, d \in Dimensions :
             m[p][d] = IF d = l.split[p].axis THEN m[p \o <<1>>][d] + 2 + m[p \o <<2>>][d]
                       ELSE Larger(m[p \o <<1>>][d], m[p \o <<2>>][d])
        /\ \A p \in Nodes(l), d \in Dimensions : m[p][d] \in Nat
    BY MinimumRules
  <1> HIDE DEF m
  <1>3. 0 \in S
    <2>1. \A p \in Nodes(l) : ~(Len(p) + 0 > high)
      BY <1>1, NodeFacts
    <2> QED BY <2>1
  <1>4. ASSUME NEW k \in Nat, k \in S PROVE k + 1 \in S
    <2>1. ASSUME NEW p \in Nodes(l), NEW d \in Dimensions, Len(p) + (k + 1) > high
          PROVE  m[p][d] <= b[p][d]
      <3>1. CASE p \in DOMAIN l.leaf
        BY <1>2, <3>1
      <3>2. CASE p \in DOMAIN l.split
        <4>1. /\ Len(p) \in Nat
              /\ p \o <<1>> \in Nodes(l) /\ Len(p \o <<1>>) = Len(p) + 1
              /\ p \o <<2>> \in Nodes(l) /\ Len(p \o <<2>>) = Len(p) + 1
          BY <3>2, NodeFacts
        <4>2. /\ m[p \o <<1>>][d] <= b[p \o <<1>>][d]
              /\ m[p \o <<2>>][d] <= b[p \o <<2>>][d]
          <5>1. Len(p \o <<1>>) + k > high /\ Len(p \o <<2>>) + k > high
            BY <1>1, <2>1, <4>1
          <5> QED BY <1>4, <4>1, <5>1
        <4>3. /\ m[p \o <<1>>][d] \in Nat /\ m[p \o <<2>>][d] \in Nat /\ m[p][d] \in Nat
              /\ b[p \o <<1>>][d] \in Nat /\ b[p \o <<2>>][d] \in Nat /\ b[p][d] \in Nat
          BY <1>2, <4>1
        <4> HIDE DEF S
        <4>4. CASE d = l.split[p].axis
          <5>1. /\ m[p][d] = m[p \o <<1>>][d] + 2 + m[p \o <<2>>][d]
                /\ b[p][d] >= b[p \o <<1>>][d] + 2 + b[p \o <<2>>][d]
            BY <1>2, <3>2, <4>4 DEF EnoughForSplits
          <5> QED BY ONLY <4>2, <4>3, <5>1
        <4>5. CASE d # l.split[p].axis
          BY <1>2, <3>2, <4>2, <4>3, <4>5 DEF Larger, EnoughForSplits
        <4> QED BY <4>4, <4>5
      <3> QED BY <3>1, <3>2, NodeFacts
    <2> QED BY <2>1
  <1> HIDE DEF S
  <1>5. high + 1 \in S
    BY <1>3, <1>4, Induction
  <1>6. \A p \in Nodes(l), d \in Dimensions : m[p][d] <= b[p][d]
    BY <1>5, NodeFacts DEF S
  <1> QED BY <1>6 DEF m

-----------------------------------------------------------------------------
(* Where the nodes are: Rects is defined from the root down.               *)

\* What a separator behind the first cells of a rectangle leaves on its two sides.
FirstHalf(whole, d, first) == [whole EXCEPT !.size[d] = first]

SecondHalf(whole, d, first) ==
    [at |-> [whole.at EXCEPT ![d] = @ + first + Border],
     size |-> [whole.size EXCEPT ![d] = @ - Border - first]]

\* The place of a node, from the place of its parent.
Place(l, m, r, p) ==
    IF p = <<>> THEN [at |-> <<0, 0>>, size |-> l.size]
    ELSE LET q == Front(p)
             d == l.split[q].axis
             first == FirstExtent(l, m, q, r[q].size[d])
         IN  IF Last(p) = 1 THEN FirstHalf(r[q], d, first) ELSE SecondHalf(r[q], d, first)

LEMMA PlaceOfParent ==
    ASSUME NEW l, NEW m, NEW g, NEW h, NEW p, g[Front(p)] = h[Front(p)]
    PROVE  Place(l, m, g, p) = Place(l, m, h, p)
  BY DEF Place

LEMMA RectsEquation ==
    ASSUME NEW l, Grown(l)
    PROVE  Rects(l) = [p \in Nodes(l) |-> Place(l, Minimum(l), Rects(l), p)]
  <1> DEFINE N == Nodes(l)
             m == Minimum(l)
  <1>1. PICK high \in Nat : \A p \in N : Len(p) <= high
    BY DEF Grown
  <1> DEFINE S == {k \in Nat : \E g : \A p \in N : Len(p) < k => g[p] = Place(l, m, g, p)}
  <1>2. 0 \in S
    <2>1. \A p \in N : ~(Len(p) < 0)
      BY NodeFacts
    <2> QED BY <2>1
  <1>3. ASSUME NEW k \in Nat, k \in S PROVE k + 1 \in S
    <2>1. PICK g : \A p \in N : Len(p) < k => g[p] = Place(l, m, g, p)
      BY <1>3
    <2> DEFINE h == [p \in N |-> Place(l, m, g, p)]
    <2> HIDE DEF m
    <2>2. ASSUME NEW p \in N, Len(p) < k + 1 PROVE h[p] = Place(l, m, h, p)
      <3>1. CASE p = <<>>
        BY <3>1 DEF Place
      <3>2. CASE p # <<>>
        <4>1. /\ Front(p) \in N /\ Len(Front(p)) \in Nat /\ Len(p) = Len(Front(p)) + 1
          BY <3>2, NodeFacts
        <4>2. Len(Front(p)) < k
          BY <2>2, <4>1
        <4>3. h[Front(p)] = g[Front(p)]
          BY <2>1, <4>1, <4>2
        <4> HIDE DEF h
        <4>4. Place(l, m, g, p) = Place(l, m, h, p)
          BY <4>3, PlaceOfParent
        <4> QED BY <4>4 DEF h
      <3> QED BY <3>1, <3>2
    <2> HIDE DEF h
    <2> QED BY <2>2
  <1> HIDE DEF S
  <1>4. high + 1 \in S
    BY <1>2, <1>3, Induction
  <1>5. PICK g : \A p \in N : g[p] = Place(l, m, g, p)
    <2>1. PICK g : \A p \in N : Len(p) < high + 1 => g[p] = Place(l, m, g, p)
      BY <1>4 DEF S
    <2>2. \A p \in N : Len(p) < high + 1
      BY <1>1, NodeFacts
    <2> QED BY <2>1, <2>2
  <1> DEFINE h == [p \in N |-> g[p]]
  <1> HIDE DEF m
  <1>6. h = [p \in N |-> Place(l, m, h, p)]
    <2>1. ASSUME NEW p \in N PROVE h[p] = Place(l, m, h, p)
      <3>1. CASE p = <<>>
        BY <1>5, <3>1 DEF Place
      <3>2. CASE p # <<>>
        <4>1. h[Front(p)] = g[Front(p)]
          BY <3>2, NodeFacts
        <4>2. h[p] = Place(l, m, g, p)
          BY <1>5
        <4> HIDE DEF h
        <4> QED BY <4>1, <4>2, PlaceOfParent
      <3> QED BY <3>1, <3>2
    <2> QED BY <2>1
  <1> DEFINE c == CHOOSE r : r = [p \in N |-> Place(l, m, r, p)]
  <1>7. c = [p \in N |-> Place(l, m, c, p)]
    <2> HIDE DEF h
    <2> QED BY <1>6
  <1>8. Rects(l) = [p \in Nodes(l) |-> c[p]]
    BY ZenonT(60) DEF Rects, c, Place, FirstHalf, SecondHalf, m
  <1> HIDE DEF c
  <1>9. Rects(l) = c
    BY <1>7, <1>8
  <1> QED BY <1>7, <1>9 DEF m

\* The two parts of a split, each from the whole.
LEMMA RectsOfHalves ==
    ASSUME NEW l, Grown(l), NEW q \in DOMAIN l.split, NEW d, d = l.split[q].axis,
           NEW first, first = FirstExtent(l, Minimum(l), q, Rects(l)[q].size[d])
    PROVE  /\ Rects(l)[q \o <<1>>] = FirstHalf(Rects(l)[q], d, first)
           /\ Rects(l)[q \o <<2>>] = SecondHalf(Rects(l)[q], d, first)
  <1> DEFINE r == Rects(l)
             m == Minimum(l)
  <1>1. \A p \in Nodes(l) : r[p] = Place(l, m, r, p)
    BY RectsEquation
  <1>2. first = FirstExtent(l, m, q, r[q].size[d])
    OBVIOUS
  <1> HIDE DEF r, m
  <1>3. q \in Paths /\ q \o <<1>> \in Nodes(l) /\ q \o <<2>> \in Nodes(l)
    BY DEF Grown, Nodes
  <1>4. /\ q \o <<1>> # <<>> /\ Front(q \o <<1>>) = q /\ Last(q \o <<1>>) = 1
        /\ q \o <<2>> # <<>> /\ Front(q \o <<2>>) = q /\ Last(q \o <<2>>) = 2
    BY <1>3, Extend
  <1>5. Place(l, m, r, q \o <<1>>) = FirstHalf(r[q], d, first)
    <2>1. PICK p : p = q \o <<1>>
      OBVIOUS
    <2>2. p # <<>> /\ q = Front(p) /\ Last(p) = 1
      BY <1>4, <2>1
    <2>3. Place(l, m, r, p) = FirstHalf(r[q], d, first)
      BY <1>2, <2>2 DEF Place
    <2> QED BY <2>1, <2>3
  <1>6. Place(l, m, r, q \o <<2>>) = SecondHalf(r[q], d, first)
    <2>1. PICK p : p = q \o <<2>>
      OBVIOUS
    <2>2. p # <<>> /\ q = Front(p) /\ Last(p) = 2
      BY <1>4, <2>1
    <2>3. Place(l, m, r, p) = SecondHalf(r[q], d, first)
      BY <1>2, <2>2 DEF Place
    <2> QED BY <2>1, <2>3
  <1> QED BY <1>1, <1>3, <1>5, <1>6 DEF r

LEMMA RectsRules ==
    ASSUME NEW l, Grown(l)
    PROVE  /\ Rects(l)[<<>>] = [at |-> <<0, 0>>, size |-> l.size]
           /\ \A q \in DOMAIN l.split :
                LET d == l.split[q].axis
                    whole == Rects(l)[q]
                    first == FirstExtent(l, Minimum(l), q, whole.size[d])
                IN  /\ Rects(l)[q \o <<1>>] = [whole EXCEPT !.size[d] = first]
                    /\ Rects(l)[q \o <<2>>] =
                         [at |-> [whole.at EXCEPT ![d] = @ + first + Border],
                          size |-> [whole.size EXCEPT ![d] = @ - Border - first]]
  <1>1. Rects(l)[<<>>] = [at |-> <<0, 0>>, size |-> l.size]
    <2>1. <<>> \in Nodes(l)
      BY DEF Grown
    <2> QED BY <2>1, RectsEquation DEF Place
  <1>2. ASSUME NEW q \in DOMAIN l.split
        PROVE  LET d == l.split[q].axis
                   whole == Rects(l)[q]
                   first == FirstExtent(l, Minimum(l), q, whole.size[d])
               IN  /\ Rects(l)[q \o <<1>>] = [whole EXCEPT !.size[d] = first]
                   /\ Rects(l)[q \o <<2>>] =
                        [at |-> [whole.at EXCEPT ![d] = @ + first + Border],
                         size |-> [whole.size EXCEPT ![d] = @ - Border - first]]
    BY RectsOfHalves DEF FirstHalf, SecondHalf
  <1> QED BY <1>1, <1>2

\* A rectangle by its four bounds.
Box(r) ==
    /\ r = [at |-> r.at, size |-> r.size]
    /\ r.at \in [Dimensions -> Nat] /\ r.size \in [Dimensions -> Nat]

LEMMA Clamped ==
    ASSUME NEW n \in Int, NEW low \in Int, NEW high \in Int, low <= high
    PROVE  Clamp(n, low, high) \in Int /\ low <= Clamp(n, low, high) /\ Clamp(n, low, high) <= high
  BY DEF Clamp

\* The separator of a split that has what it needs leaves to both sides what they need.
LEMMA FirstExtentFacts ==
    ASSUME NEW l, Grown(l), Marked(l), NEW q \in DOMAIN l.split, NEW extent \in Nat,
           extent >= Minimum(l)[q][l.split[q].axis]
    PROVE  LET d == l.split[q].axis
               first == FirstExtent(l, Minimum(l), q, extent)
           IN  /\ first \in Nat /\ first >= Minimum(l)[q \o <<1>>][d]
               /\ extent - 2 - first >= Minimum(l)[q \o <<2>>][d]
               /\ extent >= 4
  <1> DEFINE d == l.split[q].axis
             a == Minimum(l)[q \o <<1>>][d]
             b == Minimum(l)[q \o <<2>>][d]
             n == ((extent - Border) * l.split[q].share[1]) \div l.split[q].share[2]
  <1>1. d \in Dimensions /\ l.split[q].share[1] \in Nat /\ l.split[q].share[2] \in Nat \ {0}
    BY SplitFacts
  <1>2. q \o <<1>> \in Nodes(l) /\ q \o <<2>> \in Nodes(l) /\ q \in Nodes(l)
    BY DEF Grown, Nodes
  <1>3. a \in Nat /\ b \in Nat /\ a >= 1 /\ b >= 1 /\ Minimum(l)[q][d] = a + 2 + b
    BY <1>1, <1>2, MinimumRules
  <1>4. n \in Int
    <2>1. (extent - Border) * l.split[q].share[1] \in Int
      BY <1>1 DEF Border
    <2> QED BY <1>1, <2>1
  <1>5. FirstExtent(l, Minimum(l), q, extent) = Clamp(n, a, extent - 2 - b)
    BY DEF FirstExtent, Border
  <1> HIDE DEF a, b, n
  <1>6. PICK high \in Int : high = extent - 2 - b /\ a <= high
    BY <1>3 DEF d
  <1>7. Clamp(n, a, high) \in Int /\ a <= Clamp(n, a, high) /\ Clamp(n, a, high) <= high
    <2>1. n \in Int /\ a \in Int /\ a <= high
      BY <1>3, <1>4, <1>6
    <2> QED BY <2>1, Clamped
  <1>8. PICK first \in Int : first = FirstExtent(l, Minimum(l), q, extent)
    BY <1>5, <1>6, <1>7
  <1>9. a <= first /\ first <= extent - 2 - b
    BY <1>5, <1>6, <1>7, <1>8
  <1>10. first \in Nat /\ first >= a /\ extent - 2 - first >= b /\ extent >= 4
    BY <1>3, <1>9
  <1> QED BY <1>8, <1>10 DEF a, b

\* Every node has what it needs, inside the canvas, if the root has.
Fitting(l) ==
    /\ l.size \in (Nat \ {0}) \X (Nat \ {0})
    /\ RootFits(l, l.size)

LEMMA RectsFit ==
    ASSUME NEW l, Grown(l), Marked(l), Fitting(l)
    PROVE  \A p \in Nodes(l) :
             /\ Box(Rects(l)[p])
             /\ \A d \in Dimensions :
                  /\ Rects(l)[p].size[d] >= Minimum(l)[p][d]
                  /\ End(Rects(l)[p], d) <= l.size[d]
  <1> DEFINE r == Rects(l)
             m == Minimum(l)
             Good(p) == /\ Box(r[p])
                        /\ \A d \in Dimensions : r[p].size[d] >= m[p][d] /\ End(r[p], d) <= l.size[d]
             S == {k \in Nat : \A p \in Nodes(l) : Len(p) <= k => Good(p)}
  <1>1. Good(<<>>)
    <2>1. r[<<>>] = [at |-> <<0, 0>>, size |-> l.size]
      BY RectsRules
    <2>2. <<0, 0>> \in [Dimensions -> Nat] /\ l.size \in [Dimensions -> Nat]
      BY DEF Fitting, Dimensions
    <2>3. \A d \in Dimensions : <<0, 0>>[d] = 0 /\ l.size[d] \in Nat /\ l.size[d] >= m[<<>>][d]
      BY <2>2 DEF Fitting, RootFits, Dimensions
    <2> QED BY <2>1, <2>2, <2>3 DEF Box, End
  <1>2. 0 \in S
    <2>1. \A p \in Nodes(l) : Len(p) <= 0 => p = <<>>
      <3> TAKE p \in Nodes(l)
      <3>1. p \in Paths /\ Len(p) \in Nat
        BY NodeFacts
      <3> QED BY <3>1, EmptySeq DEF Paths
    <2> QED BY <1>1, <2>1
  <1>3. ASSUME NEW q \in DOMAIN l.split, Good(q) PROVE Good(q \o <<1>>) /\ Good(q \o <<2>>)
    <2> DEFINE d == l.split[q].axis
               whole == r[q]
               first == FirstExtent(l, m, q, whole.size[d])
               a == r[q \o <<1>>]
               b == r[q \o <<2>>]
    <2>1. /\ d \in Dimensions /\ Box(whole) /\ q \in Nodes(l)
          /\ q \o <<1>> \in Nodes(l) /\ q \o <<2>> \in Nodes(l)
      BY <1>3, SplitFacts DEF Grown, Nodes
    <2>2. whole.size[d] \in Nat /\ whole.size[d] >= m[q][d]
      BY <1>3, <2>1 DEF Box
    <2>3. /\ first \in Nat /\ first >= m[q \o <<1>>][d]
          /\ whole.size[d] - 2 - first >= m[q \o <<2>>][d] /\ m[q \o <<2>>][d] \in Nat
      BY <2>1, <2>2, FirstExtentFacts, MinimumRules
    <2>4. /\ a = [whole EXCEPT !.size[d] = first]
          /\ b = [at |-> [whole.at EXCEPT ![d] = @ + first + Border],
                  size |-> [whole.size EXCEPT ![d] = @ - Border - first]]
      BY RectsRules, ZenonT(60)
    <2>5. \A e \in Dimensions : e # d =>
            whole.size[e] >= m[q \o <<1>>][e] /\ whole.size[e] >= m[q \o <<2>>][e]
      <3> TAKE e \in Dimensions
      <3> HAVE e # d
      <3>1. /\ m[q][e] = Larger(m[q \o <<1>>][e], m[q \o <<2>>][e])
            /\ m[q \o <<1>>][e] \in Nat /\ m[q \o <<2>>][e] \in Nat
        BY <2>1, MinimumRules
      <3>2. whole.size[e] \in Nat /\ whole.size[e] >= m[q][e]
        BY <1>3, <2>1 DEF Box
      <3> QED BY <3>1, <3>2 DEF Larger
    <2>6. \A e \in Dimensions : whole.at[e] \in Nat /\ whole.size[e] \in Nat
                                /\ whole.at[e] + whole.size[e] <= l.size[e]
      BY <1>3, <2>1 DEF Box, End
    <2> HIDE DEF d, whole, first, a, b, r, m
    <2>7. /\ a.at = whole.at /\ a.size = [whole.size EXCEPT ![d] = first]
          /\ a = [at |-> a.at, size |-> a.size]
      BY <2>1, <2>4 DEF Box
    <2>8. /\ b.at = [whole.at EXCEPT ![d] = @ + first + 2]
          /\ b.size = [whole.size EXCEPT ![d] = @ - 2 - first]
          /\ b = [at |-> b.at, size |-> b.size]
      BY <2>1, <2>4 DEF Box, Border
    <2>9. \A e \in Dimensions :
            /\ a.at[e] = whole.at[e] /\ a.size[e] = IF e = d THEN first ELSE whole.size[e]
            /\ b.at[e] = IF e = d THEN whole.at[e] + first + 2 ELSE whole.at[e]
            /\ b.size[e] = IF e = d THEN whole.size[e] - 2 - first ELSE whole.size[e]
      BY <2>1, <2>7, <2>8 DEF Box
    <2>10. Box(a) /\ Box(b)
      BY <2>1, <2>2, <2>3, <2>6, <2>7, <2>8 DEF Box
    <2>11. ASSUME NEW e \in Dimensions
           PROVE  /\ a.size[e] >= m[q \o <<1>>][e] /\ a.at[e] + a.size[e] <= l.size[e]
                  /\ b.size[e] >= m[q \o <<2>>][e] /\ b.at[e] + b.size[e] <= l.size[e]
      <3>1. l.size[e] \in Nat
        BY DEF Fitting, Dimensions
      <3> QED BY <2>2, <2>3, <2>5, <2>6, <2>9, <3>1
    <2> QED BY <2>10, <2>11 DEF End, a, b
  <1>4. ASSUME NEW k \in Nat, k \in S PROVE k + 1 \in S
    <2>1. ASSUME NEW p \in Nodes(l), Len(p) <= k + 1 PROVE Good(p)
      <3>1. CASE p = <<>>
        BY <1>1, <3>1
      <3>2. CASE p # <<>>
        <4>1. /\ Front(p) \in DOMAIN l.split /\ Front(p) \in Nodes(l) /\ Len(Front(p)) \in Nat
              /\ Last(p) \in {1, 2} /\ p = Front(p) \o <<Last(p)>> /\ Len(p) = Len(Front(p)) + 1
          BY <3>2, NodeFacts
        <4>2. Len(Front(p)) <= k
          BY <2>1, <4>1
        <4>3. Good(Front(p))
          BY <1>4, <4>1, <4>2
        <4>4. Good(Front(p) \o <<1>>) /\ Good(Front(p) \o <<2>>)
          BY <1>3, <4>1, <4>3
        <4> HIDE DEF Good
        <4> QED BY <4>1, <4>4
      <3> QED BY <3>1, <3>2
    <2> HIDE DEF Good
    <2> QED BY <2>1
  <1> HIDE DEF S, Good
  <1>5. \A k \in Nat : k \in S
    BY <1>2, <1>4, Induction
  <1>6. \A p \in Nodes(l) : Good(p)
    BY <1>5, NodeFacts DEF S
  <1> QED BY <1>6 DEF Good, r, m

-----------------------------------------------------------------------------
(* Rectangles inside and beside each other.                                *)

Within(r, s) == \A d \in Dimensions : Start(s, d) <= Start(r, d) /\ End(r, d) <= End(s, d)

Beside(r, s) == \E d \in Dimensions : End(r, d) <= Start(s, d) \/ End(s, d) <= Start(r, d)

LEMMA BoxBounds ==
    ASSUME NEW r, Box(r), NEW d \in Dimensions
    PROVE  Start(r, d) \in Nat /\ End(r, d) \in Nat
  BY DEF Box, Start, End

LEMMA WithinTransitive ==
    ASSUME NEW r, NEW s, NEW t, Box(r), Box(s), Box(t), Within(r, s), Within(s, t)
    PROVE  Within(r, t)
  <1>1. ASSUME NEW d \in Dimensions PROVE Start(t, d) <= Start(r, d) /\ End(r, d) <= End(t, d)
    <2>1. /\ Start(r, d) \in Nat /\ Start(s, d) \in Nat /\ Start(t, d) \in Nat
          /\ End(r, d) \in Nat /\ End(s, d) \in Nat /\ End(t, d) \in Nat
      BY BoxBounds
    <2>2. /\ Start(t, d) <= Start(s, d) /\ Start(s, d) <= Start(r, d)
          /\ End(r, d) <= End(s, d) /\ End(s, d) <= End(t, d)
      BY DEF Within
    <2> QED BY <2>1, <2>2
  <1> QED BY <1>1 DEF Within

LEMMA WithinApart ==
    ASSUME NEW r, NEW s, NEW t, NEW u, Box(r), Box(s), Box(t), Box(u),
           Within(r, t), Within(s, u), Beside(t, u)
    PROVE  Beside(r, s) /\ Beside(s, r)
  <1>1. PICK d \in Dimensions : End(t, d) <= Start(u, d) \/ End(u, d) <= Start(t, d)
    BY DEF Beside
  <1>2. /\ Start(r, d) \in Nat /\ Start(s, d) \in Nat /\ Start(t, d) \in Nat /\ Start(u, d) \in Nat
        /\ End(r, d) \in Nat /\ End(s, d) \in Nat /\ End(t, d) \in Nat /\ End(u, d) \in Nat
    BY BoxBounds
  <1>3. /\ Start(t, d) <= Start(r, d) /\ End(r, d) <= End(t, d)
        /\ Start(u, d) <= Start(s, d) /\ End(s, d) <= End(u, d)
    BY DEF Within
  <1>4. End(r, d) <= Start(s, d) \/ End(s, d) <= Start(r, d)
    BY <1>1, <1>2, <1>3
  <1> QED BY <1>4 DEF Beside

\* The halves of a split and its separator share it.
LEMMA Halves ==
    ASSUME NEW l, Grown(l), Marked(l), Fitting(l), NEW q \in DOMAIN l.split
    PROVE  LET r == Rects(l)
               a == r[q \o <<1>>]
               b == r[q \o <<2>>]
               c == Separator(l, r, q)
           IN  /\ Box(r[q]) /\ Box(a) /\ Box(b) /\ Box(c)
               /\ Within(a, r[q]) /\ Within(b, r[q]) /\ Within(c, r[q])
               /\ Beside(a, b) /\ Beside(a, c) /\ Beside(b, c)
               /\ \A e \in Dimensions : c.size[e] > 0
               /\ \A e \in Dimensions :
                    IF e = l.split[q].axis THEN r[q].size[e] = a.size[e] + 2 + b.size[e]
                    ELSE r[q].size[e] = a.size[e] /\ r[q].size[e] = b.size[e]
  <1> DEFINE r == Rects(l)
             d == l.split[q].axis
             whole == r[q]
             a == r[q \o <<1>>]
             b == r[q \o <<2>>]
             c == Separator(l, r, q)
             first == FirstExtent(l, Minimum(l), q, whole.size[d])
  <1>1. /\ d \in Dimensions /\ q \in Nodes(l)
        /\ q \o <<1>> \in Nodes(l) /\ q \o <<2>> \in Nodes(l)
    BY SplitFacts DEF Grown, Nodes
  <1>2. /\ Box(whole) /\ Box(a) /\ Box(b)
        /\ \A e \in Dimensions : whole.size[e] >= Minimum(l)[q][e] /\ a.size[e] >= Minimum(l)[q \o <<1>>][e]
    BY <1>1, RectsFit
  <1>3. \A e \in Dimensions : /\ whole.at[e] \in Nat /\ whole.size[e] \in Nat
                              /\ a.at[e] \in Nat /\ a.size[e] \in Nat
                              /\ b.at[e] \in Nat /\ b.size[e] \in Nat
    BY <1>2 DEF Box
  <1>4. first \in Nat /\ whole.size[d] - 2 - first \in Nat
    <2>1. first \in Nat /\ whole.size[d] - 2 - first >= Minimum(l)[q \o <<2>>][d]
      BY <1>1, <1>2, <1>3, FirstExtentFacts
    <2>2. Minimum(l)[q \o <<2>>][d] \in Nat
      BY <1>1, MinimumRules
    <2> HIDE DEF first
    <2> QED BY <1>1, <1>3, <2>1, <2>2
  <1>5. /\ a = [whole EXCEPT !.size[d] = first]
        /\ b = [at |-> [whole.at EXCEPT ![d] = @ + first + Border],
                size |-> [whole.size EXCEPT ![d] = @ - Border - first]]
    BY RectsRules, ZenonT(60)
  <1>6. c = [at |-> [a.at EXCEPT ![d] = @ + a.size[d]], size |-> [a.size EXCEPT ![d] = 2]]
    BY DEF Separator, Border
  <1>7. \A e \in Dimensions : a.size[e] >= 1 /\ whole.size[e] >= 1
    <2>1. \A e \in Dimensions : /\ Minimum(l)[q \o <<1>>][e] \in Nat /\ Minimum(l)[q \o <<1>>][e] >= 1
                                /\ Minimum(l)[q][e] \in Nat /\ Minimum(l)[q][e] >= 1
      BY <1>1, MinimumRules
    <2> HIDE DEF a, whole
    <2> QED BY <1>2, <1>3, <2>1
  <1> HIDE DEF first, c, d
  <1>8. \A e \in Dimensions :
          /\ a.at[e] = whole.at[e] /\ a.size[e] = IF e = d THEN first ELSE whole.size[e]
          /\ b.at[e] = IF e = d THEN whole.at[e] + first + 2 ELSE whole.at[e]
          /\ b.size[e] = IF e = d THEN whole.size[e] - 2 - first ELSE whole.size[e]
    <2> HIDE DEF a, b, whole
    <2>1. /\ a.at = whole.at /\ a.size = [whole.size EXCEPT ![d] = first]
          /\ b.at = [whole.at EXCEPT ![d] = @ + first + 2]
          /\ b.size = [whole.size EXCEPT ![d] = @ - 2 - first]
      BY <1>1, <1>2, <1>5 DEF Box, Border
    <2> QED BY <1>1, <1>2, <2>1 DEF Box
  <1> HIDE DEF a, b, whole
  <1>9. /\ Box(c)
        /\ \A e \in Dimensions :
             /\ c.at[e] = IF e = d THEN a.at[e] + a.size[e] ELSE a.at[e]
             /\ c.size[e] = IF e = d THEN 2 ELSE a.size[e]
    <2>1. /\ c.at = [a.at EXCEPT ![d] = @ + a.size[d]] /\ c.size = [a.size EXCEPT ![d] = 2]
          /\ c = [at |-> c.at, size |-> c.size]
      BY <1>6
    <2> QED BY <1>1, <1>2, <1>3, <2>1 DEF Box
  <1>10. ASSUME NEW e \in Dimensions
         PROVE  /\ Start(whole, e) <= Start(a, e) /\ End(a, e) <= End(whole, e)
                /\ Start(whole, e) <= Start(b, e) /\ End(b, e) <= End(whole, e)
                /\ Start(whole, e) <= Start(c, e) /\ End(c, e) <= End(whole, e)
                /\ c.size[e] > 0
    BY <1>1, <1>3, <1>4, <1>7, <1>8, <1>9 DEF Start, End
  <1>11. End(a, d) <= Start(b, d) /\ End(a, d) <= Start(c, d) /\ End(c, d) <= Start(b, d)
    BY <1>1, <1>3, <1>4, <1>8, <1>9 DEF Start, End
  <1>12. Beside(a, b) /\ Beside(a, c) /\ Beside(b, c)
    BY <1>1, <1>11 DEF Beside
  <1>13. Within(a, whole) /\ Within(b, whole) /\ Within(c, whole)
    BY <1>10 DEF Within
  <1>14. ASSUME NEW e \in Dimensions
         PROVE  IF e = d THEN whole.size[e] = a.size[e] + 2 + b.size[e]
                ELSE whole.size[e] = a.size[e] /\ whole.size[e] = b.size[e]
    BY <1>1, <1>3, <1>4, <1>8
  <1> QED BY <1>2, <1>9, <1>10, <1>12, <1>13, <1>14 DEF a, b, c, d, whole, r

\* A node lies in those on the way to it.
LEMMA Nested ==
    ASSUME NEW l, Grown(l), Marked(l), Fitting(l)
    PROVE  \A p, q \in Nodes(l) : Above(p, q) => Within(Rects(l)[q], Rects(l)[p])
  <1> DEFINE r == Rects(l)
             S == {k \in Nat : \A p, q \in Nodes(l) : Len(q) <= k /\ Above(p, q) => Within(r[q], r[p])}
  <1>1. \A p \in Nodes(l) : Box(r[p])
    BY RectsFit
  <1> HIDE DEF r
  <1>2. ASSUME NEW p \in Nodes(l) PROVE Within(r[p], r[p])
    <2>1. \A d \in Dimensions : Start(r[p], d) \in Nat /\ End(r[p], d) \in Nat
      BY <1>1, BoxBounds
    <2> QED BY <2>1 DEF Within
  <1>3. 0 \in S
    <2>1. ASSUME NEW p \in Nodes(l), NEW q \in Nodes(l), Len(q) <= 0, Above(p, q) PROVE p = q
      <3>1. p \in Paths /\ q \in Paths /\ Len(p) \in Nat /\ Len(q) \in Nat
        BY NodeFacts
      <3>2. Len(p) = Len(q)
        BY <2>1, <3>1 DEF Above
      <3> QED BY <2>1, <3>1, <3>2, SamePath DEF Above
    <2> QED BY <1>2, <2>1
  <1>4. ASSUME NEW k \in Nat, k \in S PROVE k + 1 \in S
    <2>1. ASSUME NEW p \in Nodes(l), NEW q \in Nodes(l), Len(q) <= k + 1, Above(p, q), p # q
          PROVE  Within(r[q], r[p])
      <3>1. p \in Paths /\ q \in Paths /\ Len(p) \in Nat /\ Len(q) \in Nat
        BY NodeFacts
      <3>2. Len(p) < Len(q)
        BY <2>1, <3>1, SamePath DEF Above
      <3>3. q # <<>>
        BY <3>1, <3>2
      <3> DEFINE f == Front(q)
      <3>4. /\ f \in Nodes(l) /\ f \in DOMAIN l.split /\ Last(q) \in {1, 2}
            /\ q = f \o <<Last(q)>> /\ Len(q) = Len(f) + 1 /\ Len(f) \in Nat
            /\ \A n \in 1 .. Len(f) : f[n] = q[n]
        BY <3>1, <3>3, NodeFacts, Shorten
      <3> HIDE DEF f
      <3>5. Above(p, f) /\ Len(f) <= k
        BY <2>1, <3>1, <3>2, <3>4 DEF Above
      <3>6. Within(r[f], r[p])
        BY <1>4, <3>4, <3>5
      <3>7. Within(r[f \o <<1>>], r[f]) /\ Within(r[f \o <<2>>], r[f])
        BY <3>4, Halves DEF r
      <3>8. Within(r[q], r[f])
        BY <3>4, <3>7
      <3> QED BY <1>1, <3>4, <3>6, <3>8, WithinTransitive
    <2> QED BY <1>2, <2>1
  <1> HIDE DEF S
  <1>5. \A k \in Nat : k \in S
    BY <1>3, <1>4, Induction
  <1>6. \A p, q \in Nodes(l) : Above(p, q) => Within(r[q], r[p])
    BY <1>5, NodeFacts DEF S
  <1> QED BY <1>6 DEF r

Part(l, p) == IF p \in DOMAIN l.leaf THEN Rects(l)[p] ELSE Separator(l, Rects(l), p)

LEMMA PartsTile ==
    ASSUME NEW l, Grown(l), Marked(l), Fitting(l)
    PROVE  /\ \A p \in Nodes(l), d \in Dimensions :
                /\ Start(Part(l, p), d) >= 0 /\ End(Part(l, p), d) <= l.size[d]
                /\ Part(l, p).size[d] > 0
           /\ \A p \in Nodes(l) : \A q \in Nodes(l) \ {p} : Beside(Part(l, p), Part(l, q))
  <1> DEFINE r == Rects(l)
             part(p) == Part(l, p)
  <1>1. \A p \in Nodes(l) : /\ Box(r[p])
                            /\ \A d \in Dimensions : /\ r[p].size[d] >= Minimum(l)[p][d]
                                                     /\ End(r[p], d) <= l.size[d]
    BY RectsFit
  <1>2. \A q \in DOMAIN l.split :
          /\ q \o <<1>> \in Nodes(l) /\ q \o <<2>> \in Nodes(l) /\ q \in Nodes(l)
          /\ Box(r[q \o <<1>>]) /\ Box(r[q \o <<2>>])
          /\ part(q) = Separator(l, r, q)
          /\ Box(part(q)) /\ Within(part(q), r[q])
          /\ Beside(r[q \o <<1>>], r[q \o <<2>>])
          /\ Beside(r[q \o <<1>>], part(q)) /\ Beside(r[q \o <<2>>], part(q))
          /\ \A e \in Dimensions : part(q).size[e] > 0
    <2> TAKE q \in DOMAIN l.split
    <2>1. q \notin DOMAIN l.leaf /\ q \in Nodes(l) /\ q \o <<1>> \in Nodes(l) /\ q \o <<2>> \in Nodes(l)
      BY DEF Grown, Nodes
    <2>2. part(q) = Separator(l, r, q)
      BY <2>1 DEF Part
    <2> QED BY <2>1, <2>2, Halves
  <1>3. \A p \in DOMAIN l.leaf : part(p) = r[p] /\ p \in Nodes(l)
    BY DEF Part, Nodes
  <1>4. ASSUME NEW p \in Nodes(l) PROVE Box(part(p)) /\ Within(part(p), r[p])
    <2>1. CASE p \in DOMAIN l.split
      BY <1>2, <2>1
    <2>2. CASE p \in DOMAIN l.leaf
      <3>1. Box(r[p])
        BY <1>1
      <3>2. \A d \in Dimensions : Start(r[p], d) \in Nat /\ End(r[p], d) \in Nat
        BY <3>1, BoxBounds
      <3>3. Within(r[p], r[p])
        BY <3>2 DEF Within
      <3> QED BY <1>3, <2>2, <3>1, <3>3
    <2> QED BY <2>1, <2>2, NodeFacts
  <1>5. \A p, q \in Nodes(l) : Above(p, q) => Within(r[q], r[p])
    BY Nested
  <1> HIDE DEF r, part
  <1>6. ASSUME NEW p \in Nodes(l), NEW d \in Dimensions
        PROVE  /\ Start(part(p), d) >= 0 /\ End(part(p), d) <= l.size[d]
               /\ part(p).size[d] > 0
    <2>1. /\ Start(part(p), d) \in Nat /\ End(part(p), d) \in Nat /\ End(r[p], d) \in Nat
          /\ End(part(p), d) <= End(r[p], d) /\ End(r[p], d) <= l.size[d] /\ l.size[d] \in Nat
      BY <1>1, <1>4, BoxBounds DEF Within, Fitting, Dimensions
    <2>2. part(p).size[d] > 0
      <3>1. CASE p \in DOMAIN l.split
        BY <1>2, <3>1
      <3>2. CASE p \in DOMAIN l.leaf
        <4>1. r[p].size[d] >= Minimum(l)[p][d]
          BY <1>1
        <4>2. Minimum(l)[p][d] = 1
          BY <3>2, MinimumRules
        <4>3. r[p].size \in [Dimensions -> Nat]
          BY <1>1 DEF Box
        <4>4. part(p) = r[p]
          BY <1>3, <3>2
        <4> QED BY <4>1, <4>2, <4>3, <4>4
      <3> QED BY <3>1, <3>2, NodeFacts
    <2> QED BY <2>1, <2>2
  <1>7. ASSUME NEW p \in Nodes(l), NEW q \in Nodes(l), Above(p, q), p # q
        PROVE  Beside(part(p), part(q)) /\ Beside(part(q), part(p))
    <2>1. p \in Paths /\ q \in Paths
      BY NodeFacts
    <2>2. p \in DOMAIN l.split
      BY <1>7, <2>1, Ancestor
    <2> DEFINE i == q[Len(p) + 1]
               c == p \o <<i>>
    <2>3. i \in {1, 2} /\ Above(c, q)
      BY <1>7, <2>1, TakeStep
    <2>4. c \in Nodes(l) /\ Beside(r[c], part(p)) /\ Box(r[c])
      BY <1>2, <2>2, <2>3
    <2> HIDE DEF c
    <2>5. Within(part(q), r[c])
      <3>1. Within(r[q], r[c])
        BY <1>5, <2>3, <2>4
      <3> QED BY <1>1, <1>4, <2>4, <3>1, WithinTransitive
    <2>6. Within(part(p), part(p))
      <3>1. \A d \in Dimensions : Start(part(p), d) \in Nat /\ End(part(p), d) \in Nat
        BY <1>4, BoxBounds
      <3> QED BY <3>1 DEF Within
    <2> QED BY <1>4, <2>4, <2>5, <2>6, WithinApart
  <1>8. ASSUME NEW p \in Nodes(l), NEW q \in Nodes(l), NEW z \in Paths, Above(z, p), Parts(z, p, q)
        PROVE  Beside(part(p), part(q)) /\ Beside(part(q), part(p))
    <2>1. p \in Paths /\ q \in Paths
      BY NodeFacts
    <2>2. z # p
      <3>1. Len(z \o <<1>>) = Len(z) + 1 /\ Len(z \o <<1>>) <= Len(p) /\ Len(z) \in Nat
        BY <1>8, Extend, PathFacts DEF Parts, Above
      <3> QED BY <3>1
    <2>3. z \in DOMAIN l.split
      BY <1>8, <2>1, <2>2, Ancestor
    <2>4. /\ z \o <<1>> \in Nodes(l) /\ z \o <<2>> \in Nodes(l)
          /\ Box(r[z \o <<1>>]) /\ Box(r[z \o <<2>>]) /\ Beside(r[z \o <<1>>], r[z \o <<2>>])
      BY <1>2, <2>3
    <2>5. Within(r[p], r[z \o <<1>>]) /\ Within(r[q], r[z \o <<2>>])
      BY <1>5, <1>8, <2>4 DEF Parts
    <2>6. Within(part(p), r[z \o <<1>>]) /\ Within(part(q), r[z \o <<2>>])
      BY <1>1, <1>4, <2>4, <2>5, WithinTransitive
    <2> QED BY <1>4, <2>4, <2>6, WithinApart
  <1>9. ASSUME NEW p \in Nodes(l), NEW q \in Nodes(l), p # q PROVE Beside(part(p), part(q))
    <2>1. CASE Above(p, q)
      BY <1>7, <1>9, <2>1
    <2>2. CASE Above(q, p)
      BY <1>7, <1>9, <2>2
    <2>3. CASE ~Above(p, q) /\ ~Above(q, p)
      <3>1. p \in Paths /\ q \in Paths
        BY NodeFacts
      <3>2. PICK z \in Paths : Above(z, p) /\ Above(z, q) /\ (Parts(z, p, q) \/ Parts(z, q, p))
        BY <2>3, <3>1, WaysPart
      <3> QED BY <1>8, <3>2
    <2> QED BY <2>1, <2>2, <2>3
  <1> QED BY <1>6, <1>9 DEF part

-----------------------------------------------------------------------------
(* What the operations leave of a tree.                                    *)

LEMMA PathOfFacts ==
    ASSUME NEW t, Marked(t), NEW id \in Panes(t)
    PROVE  PathOf(t, id) \in DOMAIN t.leaf /\ t.leaf[PathOf(t, id)] = id
  <1>1. \E p \in DOMAIN t.leaf : t.leaf[p] = id
    BY DEF Panes
  <1> QED BY <1>1 DEF PathOf

LEMMA PathOfLeaf ==
    ASSUME NEW t, Marked(t), NEW p \in DOMAIN t.leaf
    PROVE  PathOf(t, t.leaf[p]) = p /\ t.leaf[p] \in Panes(t) /\ t.leaf[p] \in Ids
  <1>1. t.leaf[p] \in Panes(t)
    BY DEF Panes
  <1>2. PathOf(t, t.leaf[p]) \in DOMAIN t.leaf /\ t.leaf[PathOf(t, t.leaf[p])] = t.leaf[p]
    BY <1>1, PathOfFacts
  <1> QED BY <1>1, <1>2 DEF Marked

\* The tree in which the leaf p has become a split of itself and a new pane.
IsSplit(t, p, axis, id, k) ==
    /\ k.leaf = [q \in (DOMAIN t.leaf \ {p}) \cup {p \o <<1>>, p \o <<2>>} |->
                   IF q = p \o <<1>> THEN t.leaf[p]
                   ELSE IF q = p \o <<2>> THEN id ELSE t.leaf[q]]
    /\ k.split = [q \in DOMAIN t.split \cup {p} |->
                    IF q = p THEN [axis |-> axis, share |-> <<1, 2>>] ELSE t.split[q]]

LEMMA SplitTree ==
    ASSUME NEW t, Grown(t), Marked(t), NEW p \in DOMAIN t.leaf, NEW axis \in Dimensions,
           NEW id \in Ids \ Panes(t), NEW k, IsSplit(t, p, axis, id, k)
    PROVE  /\ Grown(k) /\ Marked(k)
           /\ p \o <<1>> \notin Nodes(t) /\ p \o <<2>> \notin Nodes(t)
           /\ DOMAIN k.leaf = (DOMAIN t.leaf \ {p}) \cup {p \o <<1>>, p \o <<2>>}
           /\ DOMAIN k.split = DOMAIN t.split \cup {p}
           /\ k.leaf[p \o <<1>>] = t.leaf[p] /\ k.leaf[p \o <<2>>] = id
           /\ \A q \in DOMAIN t.leaf \ {p} : k.leaf[q] = t.leaf[q]
           /\ k.split[p].axis = axis
           /\ \A q \in DOMAIN t.split : k.split[q] = t.split[q]
           /\ Panes(k) = Panes(t) \cup {id}
  <1> DEFINE a == p \o <<1>>
             b == p \o <<2>>
  <1>1. /\ p \in Paths /\ p \in Nodes(t) /\ p \notin DOMAIN t.split /\ Len(p) \in Nat
        /\ a \in Paths /\ b \in Paths /\ a # <<>> /\ b # <<>>
        /\ Len(a) = Len(p) + 1 /\ Len(b) = Len(p) + 1 /\ Last(a) = 1 /\ Last(b) = 2
        /\ Front(a) = p /\ Front(b) = p
    BY Extend, PathFacts DEF Grown, Nodes
  <1>2. a # b /\ a # p /\ b # p
    BY <1>1
  <1>3. a \notin Nodes(t) /\ b \notin Nodes(t)
    BY <1>1 DEF Grown
  <1> HIDE DEF a, b
  <1>4. /\ DOMAIN k.leaf = (DOMAIN t.leaf \ {p}) \cup {a, b}
        /\ k.leaf[a] = t.leaf[p] /\ k.leaf[b] = id
        /\ \A q \in DOMAIN t.leaf \ {p} : k.leaf[q] = t.leaf[q]
    <2>1. k.leaf = [q \in (DOMAIN t.leaf \ {p}) \cup {a, b} |->
                      IF q = a THEN t.leaf[p] ELSE IF q = b THEN id ELSE t.leaf[q]]
      BY DEF IsSplit, a, b
    <2> QED BY <1>2, <1>3, <2>1 DEF Nodes
  <1>5. /\ DOMAIN k.split = DOMAIN t.split \cup {p}
        /\ k.split[p] = [axis |-> axis, share |-> <<1, 2>>]
        /\ \A q \in DOMAIN t.split : k.split[q] = t.split[q]
    <2>1. k.split = [q \in DOMAIN t.split \cup {p} |->
                       IF q = p THEN [axis |-> axis, share |-> <<1, 2>>] ELSE t.split[q]]
      BY DEF IsSplit
    <2> QED BY <1>1, <2>1
  <1>6. Nodes(k) = Nodes(t) \cup {a, b}
    BY <1>4, <1>5 DEF Nodes
  <1>7. Grown(k)
    <2>1. Nodes(k) \subseteq Paths /\ <<>> \in Nodes(k)
      BY <1>1, <1>6 DEF Grown
    <2>2. DOMAIN k.leaf \cap DOMAIN k.split = {}
      BY <1>1, <1>2, <1>3, <1>4, <1>5 DEF Grown, Nodes
    <2>3. \A q \in Nodes(k) \ {<<>>} : Front(q) \in DOMAIN k.split
      BY <1>1, <1>5, <1>6 DEF Grown
    <2>4. \A q \in DOMAIN k.split : q \o <<1>> \in Nodes(k) /\ q \o <<2>> \in Nodes(k)
      BY <1>5, <1>6 DEF Grown, a, b
    <2>5. \E high \in Nat : \A q \in Nodes(k) : Len(q) <= high
      <3>1. PICK high \in Nat : \A q \in Nodes(t) : Len(q) <= high
        BY DEF Grown
      <3>2. high + 1 \in Nat /\ \A q \in Nodes(k) : Len(q) <= high + 1
        BY <1>1, <1>6, <3>1, NodeFacts
      <3> QED BY <3>2
    <2> QED BY <2>1, <2>2, <2>3, <2>4, <2>5 DEF Grown
  <1>8. t.leaf[p] \in Ids /\ t.leaf[p] \in Panes(t) /\ t.leaf[p] # id
    BY PathOfLeaf
  <1>9. Panes(k) = Panes(t) \cup {id}
    BY <1>3, <1>4 DEF Panes, Nodes
  <1>10. Marked(k)
    <2>1. k.leaf \in [DOMAIN k.leaf -> Ids]
      <3>1. k.leaf = [q \in DOMAIN k.leaf |-> k.leaf[q]]
        BY DEF IsSplit
      <3>2. \A q \in DOMAIN k.leaf : k.leaf[q] \in Ids
        BY <1>4, <1>8 DEF Marked
      <3> QED BY <3>1, <3>2
    <2>2. \A q, x \in DOMAIN k.leaf : k.leaf[q] = k.leaf[x] => q = x
      <3>1. \A q \in DOMAIN t.leaf : t.leaf[q] # id
        BY DEF Panes
      <3> QED BY <1>4, <3>1 DEF Marked
    <2>3. k.split \in [DOMAIN k.split -> [axis : Dimensions, share : Nat \X (Nat \ {0})]]
      <3>1. k.split = [q \in DOMAIN k.split |-> k.split[q]]
        BY DEF IsSplit
      <3>2. k.split[p] \in [axis : Dimensions, share : Nat \X (Nat \ {0})]
        BY <1>5
      <3>3. \A q \in DOMAIN k.split : k.split[q] \in [axis : Dimensions, share : Nat \X (Nat \ {0})]
        BY <1>5, <3>2 DEF Marked
      <3> QED BY <3>1, <3>3
    <2> QED BY <2>1, <2>2, <2>3 DEF Marked
  <1> QED BY <1>3, <1>4, <1>5, <1>7, <1>9, <1>10 DEF a, b

\* A pane of two cells and a separator can be divided without making the root too small.
LEMMA SplitFits ==
    ASSUME NEW t, Grown(t), Marked(t), Fitting(t), NEW p \in DOMAIN t.leaf, NEW axis \in Dimensions,
           NEW id \in Ids \ Panes(t), NEW k, IsSplit(t, p, axis, id, k),
           Rects(t)[p].size[axis] >= 4
    PROVE  RootFits(k, t.size)
  <1> DEFINE r == Rects(t)
             a == p \o <<1>>
             b == p \o <<2>>
             half == [d \in Dimensions |-> IF d = axis THEN 1 ELSE r[p].size[d]]
             need == [q \in Nodes(k) |-> IF q \in {a, b} THEN half ELSE r[q].size]
  <1>1. /\ Grown(k) /\ Marked(k) /\ a \notin Nodes(t) /\ b \notin Nodes(t)
        /\ DOMAIN k.leaf = (DOMAIN t.leaf \ {p}) \cup {a, b}
        /\ DOMAIN k.split = DOMAIN t.split \cup {p}
        /\ k.split[p].axis = axis
        /\ \A q \in DOMAIN t.split : k.split[q] = t.split[q]
    BY SplitTree
  <1>2. Nodes(k) = Nodes(t) \cup {a, b} /\ p \in Nodes(t)
    BY <1>1 DEF Nodes
  <1>3. \A q \in Nodes(t), d \in Dimensions : r[q].size[d] \in Nat /\ r[q].size[d] >= 1
    <2> TAKE q \in Nodes(t), d \in Dimensions
    <2>1. /\ r[q].size[d] \in Nat /\ r[q].size[d] >= Minimum(t)[q][d]
          /\ Minimum(t)[q][d] \in Nat /\ Minimum(t)[q][d] >= 1
      <3>1. Box(r[q]) /\ r[q].size[d] >= Minimum(t)[q][d]
        BY RectsFit
      <3>2. r[q].size[d] \in Nat
        <4> HIDE DEF r
        <4> QED BY <3>1 DEF Box
      <3>3. Minimum(t)[q][d] \in Nat /\ Minimum(t)[q][d] >= 1
        BY MinimumRules
      <3> QED BY <3>1, <3>2, <3>3
    <2> HIDE DEF r
    <2> QED BY <2>1
  <1>4. \A q \in DOMAIN t.split :
          /\ q \o <<1>> \in Nodes(t) /\ q \o <<2>> \in Nodes(t) /\ q \in Nodes(t) /\ q # p
          /\ \A d \in Dimensions :
               IF d = t.split[q].axis THEN r[q].size[d] = r[q \o <<1>>].size[d] + 2 + r[q \o <<2>>].size[d]
               ELSE r[q].size[d] = r[q \o <<1>>].size[d] /\ r[q].size[d] = r[q \o <<2>>].size[d]
    BY Halves DEF Grown, Nodes
  <1>5. r[<<>>].size = t.size /\ <<>> \in Nodes(t)
    <2>1. r[<<>>] = [at |-> <<0, 0>>, size |-> t.size]
      BY RectsRules
    <2> HIDE DEF r
    <2> QED BY <2>1 DEF Grown
  <1>6. r[p].size[axis] >= 4
    OBVIOUS
  <1> HIDE DEF r, a, b
  <1>7. \A d \in Dimensions : half[d] \in Nat /\ half[d] >= 1
    BY <1>2, <1>3
  <1>8. \A q \in Nodes(k), d \in Dimensions : need[q][d] \in Nat /\ need[q][d] >= 1
    BY <1>2, <1>3, <1>7
  <1>9. ASSUME NEW q \in DOMAIN k.split, NEW d \in Dimensions
        PROVE  IF d = k.split[q].axis THEN need[q][d] >= need[q \o <<1>>][d] + 2 + need[q \o <<2>>][d]
               ELSE need[q][d] >= need[q \o <<1>>][d] /\ need[q][d] >= need[q \o <<2>>][d]
    <2>1. CASE q = p
      <3>1. /\ need[q] = r[p].size /\ need[q \o <<1>>] = half /\ need[q \o <<2>>] = half
            /\ k.split[q].axis = axis
        BY <1>1, <1>2, <2>1 DEF a, b
      <3>2. r[p].size[d] \in Nat /\ r[p].size[axis] \in Nat
        BY <1>2, <1>3
      <3> HIDE DEF need
      <3> QED BY <1>6, <3>1, <3>2
    <2>2. CASE q # p
      <3>1. q \in DOMAIN t.split /\ k.split[q] = t.split[q]
        BY <1>1, <2>2
      <3>2. /\ need[q] = r[q].size /\ need[q \o <<1>>] = r[q \o <<1>>].size
            /\ need[q \o <<2>>] = r[q \o <<2>>].size
        BY <1>1, <1>2, <1>4, <3>1, ZenonT(60)
      <3>3. r[q].size[d] \in Nat /\ r[q \o <<1>>].size[d] \in Nat /\ r[q \o <<2>>].size[d] \in Nat
        BY <1>3, <1>4, <3>1
      <3> HIDE DEF need
      <3>4. IF d = t.split[q].axis THEN r[q].size[d] = r[q \o <<1>>].size[d] + 2 + r[q \o <<2>>].size[d]
            ELSE r[q].size[d] = r[q \o <<1>>].size[d] /\ r[q].size[d] = r[q \o <<2>>].size[d]
        BY <1>4, <3>1
      <3> QED BY <3>1, <3>2, <3>3, <3>4
    <2> QED BY <2>1, <2>2
  <1>10. need[<<>>] = t.size
    BY <1>1, <1>2, <1>5
  <1> HIDE DEF need
  <1>11. \A d \in Dimensions : Minimum(k)[<<>>][d] <= t.size[d]
    <2>1. \A q \in Nodes(k), d \in Dimensions : Minimum(k)[q][d] <= need[q][d]
      BY <1>1, <1>8, <1>9, MinimumIsLeast DEF EnoughForSplits
    <2> QED BY <1>2, <1>5, <1>10, <2>1
  <1> QED BY <1>11 DEF RootFits


-----------------------------------------------------------------------------
(* A pane is taken out: the subtree at its sibling moves to their parent.  *)

LEMMA Join ==
    ASSUME NEW p \in Paths, NEW u \in Paths
    PROVE  /\ p \o u \in Paths /\ Len(p \o u) = Len(p) + Len(u)
           /\ \A n \in 1 .. Len(p) : (p \o u)[n] = p[n]
           /\ \A n \in 1 .. Len(u) : (p \o u)[Len(p) + n] = u[n]
           /\ Above(p, p \o u)
  <1>1. Len(p) \in Nat /\ Len(u) \in Nat
    BY PathFacts
  <1>2. /\ p \o u \in Paths /\ Len(p \o u) = Len(p) + Len(u)
        /\ \A n \in 1 .. Len(p) + Len(u) :
             (p \o u)[n] = IF n <= Len(p) THEN p[n] ELSE u[n - Len(p)]
    BY ConcatProperties DEF Paths
  <1>3. \A n \in 1 .. Len(p) : (p \o u)[n] = p[n]
    BY <1>1, <1>2
  <1>4. \A n \in 1 .. Len(u) : (p \o u)[Len(p) + n] = u[n]
    <2> TAKE n \in 1 .. Len(u)
    <2>1. Len(p) + n \in 1 .. Len(p) + Len(u) /\ ~(Len(p) + n <= Len(p)) /\ Len(p) + n - Len(p) = n
      BY <1>1
    <2> QED BY <1>2, <2>1
  <1> QED BY <1>1, <1>2, <1>3, <1>4 DEF Above

LEMMA Rest ==
    ASSUME NEW p \in Paths, NEW q \in Paths, Above(p, q)
    PROVE  \E u \in Paths : q = p \o u
  <1>1. Len(p) \in Nat /\ Len(q) \in Nat /\ Len(p) <= Len(q)
    BY PathFacts DEF Above
  <1>2. PICK k \in Nat : Len(q) = Len(p) + k
    <2>1. Len(q) - Len(p) \in Nat /\ Len(q) = Len(p) + (Len(q) - Len(p))
      BY <1>1
    <2> QED BY <2>1
  <1> DEFINE u == SubSeq(q, Len(p) + 1, Len(q))
  <1>3. u \in Paths /\ Len(u) = k /\ \A n \in 1 .. k : u[n] = q[Len(p) + n]
    <2>1. \A n \in Len(p) + 1 .. Len(q) : q[n] \in {1, 2}
      BY <1>1, PathFacts
    <2>2. /\ u \in Paths
          /\ Len(u) = IF Len(p) + 1 <= Len(q) THEN Len(q) - (Len(p) + 1) + 1 ELSE 0
          /\ \A n \in 1 .. Len(q) - (Len(p) + 1) + 1 : u[n] = q[Len(p) + 1 + n - 1]
      BY <1>1, <2>1, SubSeqProperties DEF Paths
    <2> HIDE DEF u
    <2>3. Len(q) - (Len(p) + 1) + 1 = k /\ \A n \in 1 .. k : Len(p) + 1 + n - 1 = Len(p) + n
      BY <1>1, <1>2
    <2>4. Len(p) + 1 <= Len(q) \/ k = 0
      BY <1>1, <1>2
    <2> QED BY <1>1, <1>2, <2>2, <2>3, <2>4
  <1> HIDE DEF u
  <1>4. /\ p \o u \in Paths /\ Len(p \o u) = Len(q)
        /\ \A n \in 1 .. Len(p) : (p \o u)[n] = p[n]
        /\ \A n \in 1 .. k : (p \o u)[Len(p) + n] = u[n]
    BY <1>2, <1>3, Join
  <1>5. ASSUME NEW n \in 1 .. Len(q) PROVE q[n] = (p \o u)[n]
    <2>1. CASE n <= Len(p)
      BY <1>1, <1>4, <2>1 DEF Above
    <2>2. CASE n > Len(p)
      <3>1. PICK i \in 1 .. k : n = Len(p) + i
        <4>1. n - Len(p) \in 1 .. k /\ n = Len(p) + (n - Len(p))
          BY <1>1, <1>2, <2>2
        <4> QED BY <4>1
      <3> QED BY <1>3, <1>4, <3>1
    <2>3. n <= Len(p) \/ n > Len(p)
      BY <1>1
    <2> QED BY <2>1, <2>2, <2>3
  <1> QED BY <1>3, <1>4, <1>5, SamePath

LEMMA PrefixIsAbove ==
    ASSUME NEW p \in Paths, NEW q \in Paths
    PROVE  IsPrefix(p, q) <=> Above(p, q)
  <1>1. Len(p) \in Nat /\ Len(q) \in Nat
    BY PathFacts
  <1>2. CASE Len(p) <= Len(q)
    <2> DEFINE a == SubSeq(p, 1, Len(p))
               b == SubSeq(q, 1, Len(p))
    <2>1. /\ a \in Paths /\ Len(a) = Len(p) /\ \A n \in 1 .. Len(p) : a[n] = p[n]
          /\ b \in Paths /\ Len(b) = Len(p) /\ \A n \in 1 .. Len(p) : b[n] = q[n]
      <3>1. \A n \in 1 .. Len(p) : p[n] \in {1, 2} /\ q[n] \in {1, 2}
        BY <1>1, <1>2, PathFacts
      <3>2. /\ a \in Paths /\ Len(a) = IF 1 <= Len(p) THEN Len(p) - 1 + 1 ELSE 0
            /\ \A n \in 1 .. Len(p) - 1 + 1 : a[n] = p[1 + n - 1]
        BY <1>1, <3>1, SubSeqProperties DEF Paths
      <3>3. /\ b \in Paths /\ Len(b) = IF 1 <= Len(p) THEN Len(p) - 1 + 1 ELSE 0
            /\ \A n \in 1 .. Len(p) - 1 + 1 : b[n] = q[1 + n - 1]
        BY <1>1, <3>1, SubSeqProperties DEF Paths
      <3>4. Len(p) - 1 + 1 = Len(p) /\ (1 <= Len(p) \/ Len(p) = 0)
            /\ \A n \in 1 .. Len(p) : 1 + n - 1 = n
        BY <1>1
      <3> HIDE DEF a, b
      <3> QED BY <3>2, <3>3, <3>4
    <2> HIDE DEF a, b
    <2>2. a = b <=> \A n \in 1 .. Len(p) : p[n] = q[n]
      BY <2>1, SamePath
    <2> QED BY <1>2, <2>2 DEF IsPrefix, Above, a, b
  <1>3. CASE ~(Len(p) <= Len(q))
    BY <1>3 DEF IsPrefix, Above
  <1> QED BY <1>2, <1>3

\* What the code's removal does with a path under one node: it comes to hang under another.
Moved(from, to, q) ==
    IF IsPrefix(from, q) THEN to \o SubSeq(q, Len(from) + 1, Len(q)) ELSE q

LEMMA MovedRest ==
    ASSUME NEW from \in Paths, NEW to \in Paths, NEW u \in Paths
    PROVE  Moved(from, to, from \o u) = to \o u
  <1> DEFINE q == from \o u
             v == SubSeq(q, Len(from) + 1, Len(q))
  <1>1. /\ Len(from) \in Nat /\ Len(u) \in Nat /\ q \in Paths /\ Len(q) = Len(from) + Len(u)
        /\ \A n \in 1 .. Len(u) : q[Len(from) + n] = u[n]
    BY PathFacts, Join
  <1>2. IsPrefix(from, q)
    BY <1>1, Join, PrefixIsAbove
  <1> HIDE DEF q
  <1>3. v \in Paths /\ Len(v) = Len(u) /\ \A n \in 1 .. Len(u) : v[n] = q[Len(from) + n]
    <2>1. \A n \in Len(from) + 1 .. Len(q) : q[n] \in {1, 2}
      BY <1>1, PathFacts
    <2>2. /\ v \in Paths
          /\ Len(v) = IF Len(from) + 1 <= Len(q) THEN Len(q) - (Len(from) + 1) + 1 ELSE 0
          /\ \A n \in 1 .. Len(q) - (Len(from) + 1) + 1 : v[n] = q[Len(from) + 1 + n - 1]
      BY <1>1, <2>1, SubSeqProperties DEF Paths
    <2> HIDE DEF v
    <2>3. Len(q) - (Len(from) + 1) + 1 = Len(u)
          /\ \A n \in 1 .. Len(u) : Len(from) + 1 + n - 1 = Len(from) + n
      BY <1>1
    <2>4. Len(from) + 1 <= Len(q) \/ Len(u) = 0
      BY <1>1
    <2> QED BY <1>1, <2>2, <2>3, <2>4
  <1>4. v = u
    <2> HIDE DEF v
    <2> QED BY <1>1, <1>3, SamePath
  <1> QED BY <1>2, <1>4 DEF Moved, q

LEMMA Associative ==
    ASSUME NEW p \in Paths, NEW u \in Paths, NEW v \in Paths
    PROVE  (p \o u) \o v = p \o (u \o v)
  BY ConcatAssociative DEF Paths

\* A node that moves takes its two sides with it.
LEMMA MovedStep ==
    ASSUME NEW from \in Paths, NEW to \in Paths, NEW q \in Paths, Above(from, q), NEW i \in {1, 2}
    PROVE  Moved(from, to, q \o <<i>>) = Moved(from, to, q) \o <<i>> /\ Above(from, q \o <<i>>)
  <1>1. PICK u \in Paths : q = from \o u
    BY Rest
  <1>2. Moved(from, to, q) = to \o u
    BY <1>1, MovedRest
  <1>3. <<i>> \in Paths /\ u \o <<i>> \in Paths
    BY Extend DEF Paths
  <1>4. PICK v \in Paths : v = u \o <<i>>
    BY <1>3
  <1>5. q \o <<i>> = from \o v
    BY <1>1, <1>3, <1>4, Associative, SMTT(60)
  <1>6. Moved(from, to, q) \o <<i>> = to \o v
    BY <1>2, <1>3, <1>4, Associative, SMTT(60)
  <1>7. Moved(from, to, from \o v) = to \o v /\ Above(from, from \o v)
    BY MovedRest, Join, ZenonT(60)
  <1> QED BY ONLY <1>5, <1>6, <1>7

LEMMA MovedFacts ==
    ASSUME NEW from \in Paths, NEW to \in Paths, NEW q \in Paths, Above(from, q)
    PROVE  /\ Moved(from, to, q) \in Paths /\ Above(to, Moved(from, to, q))
           /\ Len(Moved(from, to, q)) + Len(from) = Len(q) + Len(to)
           /\ Moved(to, from, Moved(from, to, q)) = q
           /\ \A i \in {1, 2} : /\ Moved(from, to, q \o <<i>>) = Moved(from, to, q) \o <<i>>
                                /\ Above(from, q \o <<i>>)
  <1>1. PICK u \in Paths : q = from \o u
    BY Rest
  <1>2. Moved(from, to, q) = to \o u /\ Moved(to, from, to \o u) = q
    BY <1>1, MovedRest, SMTT(60)
  <1>3. /\ to \o u \in Paths /\ Above(to, to \o u)
        /\ Len(to \o u) = Len(to) + Len(u) /\ Len(q) = Len(from) + Len(u)
        /\ Len(to) \in Nat /\ Len(u) \in Nat /\ Len(from) \in Nat
    BY <1>1, Join, PathFacts
  <1>4. \A i \in {1, 2} : /\ Moved(from, to, q \o <<i>>) = Moved(from, to, q) \o <<i>>
                          /\ Above(from, q \o <<i>>)
    BY MovedStep
  <1>5. Len(to \o u) + Len(from) = Len(q) + Len(to)
    BY <1>3
  <1> QED BY <1>2, <1>3, <1>4, <1>5

LEMMA MovedNot ==
    ASSUME NEW from \in Paths, NEW to \in Paths, NEW q \in Paths, ~Above(from, q)
    PROVE  Moved(from, to, q) = q
  BY PrefixIsAbove DEF Moved

SiblingOf(p) == Front(p) \o <<3 - Last(p)>>
Up(p, x)     == Moved(SiblingOf(p), Front(p), x)
Down(p, y)   == Moved(Front(p), SiblingOf(p), y)
Kept(t, p)   == Nodes(t) \ {p, Front(p)}

LEMMA Family ==
    ASSUME NEW t, Grown(t), NEW p \in DOMAIN t.leaf, p # <<>>
    PROVE  /\ p \in Paths /\ Front(p) \in Paths /\ SiblingOf(p) \in Paths
           /\ Front(p) \in DOMAIN t.split /\ Front(p) \in Nodes(t)
           /\ p # Front(p) /\ SiblingOf(p) # p /\ SiblingOf(p) # Front(p)
           /\ SiblingOf(p) \in Kept(t, p)
           /\ Above(Front(p), SiblingOf(p)) /\ Front(SiblingOf(p)) = Front(p)
           /\ Len(SiblingOf(p)) = Len(Front(p)) + 1
           /\ \E i \in {1, 2} : /\ p = Front(p) \o <<i>> /\ SiblingOf(p) = Front(p) \o <<3 - i>>
                                /\ i = Last(p)
  <1> DEFINE f == Front(p)
             i == Last(p)
  <1>1. /\ p \in Paths /\ p \in Nodes(t) /\ f \in DOMAIN t.split /\ f \in Nodes(t) /\ i \in {1, 2}
        /\ p = f \o <<i>> /\ Len(p) = Len(f) + 1
    <2>1. p \in Nodes(t)
      BY DEF Nodes
    <2> QED BY <2>1, NodeFacts
  <1>2. f \in Paths /\ 3 - i \in {1, 2} /\ 3 - i # i
    <2> HIDE DEF f, i
    <2>1. f \in Paths
      BY <1>1 DEF Grown
    <2> QED BY <1>1, <2>1
  <1>3. SiblingOf(p) = f \o <<3 - i>>
    BY DEF SiblingOf
  <1> HIDE DEF f, i
  <1>4. f \o <<3 - i>> \in Nodes(t)
    <2>1. f \o <<1>> \in Nodes(t) /\ f \o <<2>> \in Nodes(t)
      BY <1>1 DEF Grown
    <2>2. 3 - i = 1 \/ 3 - i = 2
      BY <1>2
    <2> QED BY <2>1, <2>2
  <1>5. PICK j \in {1, 2} : j = 3 - i
    BY <1>2
  <1>6. /\ f \o <<j>> \in Paths /\ Len(f \o <<j>>) = Len(f) + 1 /\ Above(f, f \o <<j>>)
        /\ Front(f \o <<j>>) = f /\ Last(f \o <<j>>) = j /\ Last(p) = i
    BY <1>1, <1>2, Extend
  <1>7. Len(f) \in Nat /\ f \o <<j>> # p /\ f \o <<j>> # f /\ p # f
    BY <1>1, <1>2, <1>5, <1>6, PathFacts
  <1> QED BY <1>1, <1>2, <1>3, <1>4, <1>5, <1>6, <1>7 DEF f, Kept, i

\* What is left is under the sibling or not under the parent.
LEMMA KeptSides ==
    ASSUME NEW t, Grown(t), NEW p \in DOMAIN t.leaf, p # <<>>, NEW x \in Kept(t, p)
    PROVE  Above(SiblingOf(p), x) \/ ~Above(Front(p), x)
  <1> DEFINE f == Front(p)
             s == SiblingOf(p)
  <1>1. SUFFICES ASSUME Above(f, x) PROVE Above(s, x)
    OBVIOUS
  <1>2. x \in Nodes(t) /\ x # p /\ x # f /\ x \in Paths
    BY NodeFacts DEF Kept
  <1>3. /\ p \in Paths /\ f \in Paths /\ Len(p) \in Nat
    BY Family, PathFacts
  <1>4. PICK i \in {1, 2} : p = f \o <<i>> /\ s = f \o <<3 - i>>
    BY Family
  <1> HIDE DEF f, s
  <1>5. PICK j \in {1, 2} : Above(f \o <<j>>, x)
    BY <1>1, <1>2, <1>3, TakeStep
  <1>6. j # i
    <2> SUFFICES ASSUME j = i PROVE FALSE
      OBVIOUS
    <2>1. Above(p, x)
      BY <1>4, <1>5
    <2>2. p \in DOMAIN t.split
      BY <1>2, <1>3, <2>1, Ancestor
    <2> QED BY <2>2 DEF Grown
  <1>7. j = 3 - i
    BY <1>6
  <1> QED BY <1>4, <1>5, <1>7

LEMMA UpFacts ==
    ASSUME NEW t, Grown(t), NEW p \in DOMAIN t.leaf, p # <<>>, NEW x \in Kept(t, p)
    PROVE  /\ Up(p, x) \in Paths /\ Down(p, Up(p, x)) = x /\ Len(Up(p, x)) <= Len(x)
           /\ Above(SiblingOf(p), x) => Above(Front(p), Up(p, x))
           /\ ~Above(SiblingOf(p), x) => Up(p, x) = x /\ ~Above(Front(p), x)
           /\ \A i \in {1, 2} : x \o <<i>> # Front(p) => Up(p, x \o <<i>>) = Up(p, x) \o <<i>>
  <1> DEFINE f == Front(p)
             s == SiblingOf(p)
  <1>1. x \in Paths /\ f \in Paths /\ s \in Paths /\ Len(s) = Len(f) + 1 /\ Above(f, s)
    BY Family, NodeFacts DEF Kept
  <1>2. Len(x) \in Nat /\ Len(f) \in Nat /\ Len(s) \in Nat
    BY <1>1, PathFacts
  <1> HIDE DEF f, s
  <1>3. CASE Above(s, x)
    <2>1. /\ Moved(s, f, x) \in Paths /\ Above(f, Moved(s, f, x))
          /\ Len(Moved(s, f, x)) + Len(s) = Len(x) + Len(f)
          /\ Moved(f, s, Moved(s, f, x)) = x
          /\ \A i \in {1, 2} : Moved(s, f, x \o <<i>>) = Moved(s, f, x) \o <<i>>
      <3>1. Moved(s, f, x) \in Paths /\ Above(f, Moved(s, f, x))
        BY <1>1, <1>3, MovedFacts
      <3>2. Len(Moved(s, f, x)) + Len(s) = Len(x) + Len(f)
        BY <1>1, <1>3, MovedFacts
      <3>3. Moved(f, s, Moved(s, f, x)) = x
        BY <1>1, <1>3, MovedFacts
      <3>4. \A i \in {1, 2} : Moved(s, f, x \o <<i>>) = Moved(s, f, x) \o <<i>>
        BY <1>1, <1>3, MovedStep
      <3> QED BY ONLY <3>1, <3>2, <3>3, <3>4
    <2>2. Len(Moved(s, f, x)) <= Len(x)
      <3>1. Len(Moved(s, f, x)) \in Nat
        BY <2>1, PathFacts
      <3> QED BY <1>1, <1>2, <2>1, <3>1
    <2> QED BY <1>3, <2>1, <2>2 DEF Up, Down, f, s
  <1>4. CASE ~Above(s, x)
    <2>1. ~Above(f, x)
      BY <1>4, KeptSides DEF f, s
    <2>2. Moved(s, f, x) = x /\ Moved(f, s, x) = x
      BY <1>1, <1>4, <2>1, MovedNot
    <2>3. ASSUME NEW i \in {1, 2}, x \o <<i>> # f PROVE Moved(s, f, x \o <<i>>) = x \o <<i>>
      <3>1. /\ x \o <<i>> \in Paths /\ Len(x \o <<i>>) = Len(x) + 1
            /\ \A n \in 1 .. Len(x) : (x \o <<i>>)[n] = x[n]
        BY <1>1, Extend
      <3>2. ~Above(s, x \o <<i>>)
        <4> SUFFICES ASSUME Above(s, x \o <<i>>) PROVE FALSE
          OBVIOUS
        <4>1. Above(f, x \o <<i>>)
          BY <1>1, <3>1, AboveTransitive
        <4>2. Len(f) # Len(x \o <<i>>)
          BY <1>1, <2>3, <3>1, <4>1, SamePath DEF Above
        <4>3. Len(f) <= Len(x) /\ \A n \in 1 .. Len(f) : n \in 1 .. Len(x)
          BY <1>2, <3>1, <4>1, <4>2 DEF Above
        <4>4. Above(f, x)
          BY <1>2, <3>1, <4>1, <4>3 DEF Above
        <4> QED BY <2>1, <4>4
      <3> QED BY <1>1, <3>1, <3>2, MovedNot
    <2>4. Len(x) <= Len(x)
      BY <1>2
    <2> QED BY <1>1, <1>4, <2>1, <2>2, <2>3, <2>4 DEF Up, Down, f, s
  <1> QED BY <1>3, <1>4

LEMMA JoinEmpty ==
    ASSUME NEW p \in Paths
    PROVE  <<>> \in Paths /\ p \o <<>> = p
  <1>1. p \in Seq({1, 2})
    BY DEF Paths
  <1>2. p \o <<>> = p
    BY <1>1, ConcatEmptySeq
  <1>3. <<>> \in Seq({1, 2})
    OBVIOUS
  <1> QED BY <1>2, <1>3 DEF Paths

\* The sibling takes the place of the parent; the root is kept or handed on.
LEMMA UpPlaces ==
    ASSUME NEW t, Grown(t), NEW p \in DOMAIN t.leaf, p # <<>>
    PROVE  /\ Up(p, SiblingOf(p)) = Front(p)
           /\ Front(p) # <<>> => <<>> \in Kept(t, p) /\ Up(p, <<>>) = <<>>
           /\ Front(p) # <<>> =>
                /\ Front(Front(p)) \in Kept(t, p) /\ Front(Front(p)) \in DOMAIN t.split
                /\ Up(p, Front(Front(p))) = Front(Front(p))
  <1> DEFINE f == Front(p)
             s == SiblingOf(p)
  <1>1. /\ p \in Paths /\ f \in Paths /\ s \in Paths /\ f \in Nodes(t) /\ Len(s) = Len(f) + 1
        /\ Above(f, s) /\ p # f /\ p \notin DOMAIN t.split
    BY Family DEF Grown
  <1>2. Len(f) \in Nat /\ Len(p) \in Nat /\ Len(s) \in Nat
    BY <1>1, PathFacts
  <1> HIDE DEF f, s
  <1>3. Moved(s, f, s) = f
    <2>1. PICK e \in Paths : e = <<>> /\ s \o e = s /\ f \o e = f
      BY <1>1, JoinEmpty
    <2>2. Moved(s, f, s \o e) = f \o e
      BY <1>1, MovedRest
    <2> QED BY <2>1, <2>2
  <1>4. ASSUME NEW x \in Paths, Len(x) < Len(f) PROVE Moved(s, f, x) = x
    <2>1. Len(x) \in Nat
      BY PathFacts
    <2>2. ~Above(s, x)
      BY <1>1, <1>2, <1>4, <2>1 DEF Above
    <2> QED BY <1>1, <2>2, MovedNot
  <1>5. ASSUME f # <<>> PROVE <<>> \in Kept(t, p) /\ Moved(s, f, <<>>) = <<>>
    <2>1. <<>> \in Paths /\ Len(<<>>) = 0 /\ Len(f) # 0
      BY <1>1, <1>5, EmptySeq DEF Paths
    <2>2. Moved(s, f, <<>>) = <<>>
      BY <1>2, <1>4, <2>1
    <2> QED BY <1>5, <2>2 DEF Kept, Grown, f
  <1>6. ASSUME f # <<>>
        PROVE  /\ Front(f) \in Kept(t, p) /\ Front(f) \in DOMAIN t.split
               /\ Moved(s, f, Front(f)) = Front(f)
    <2>1. Front(f) \in DOMAIN t.split /\ Front(f) \in Nodes(t) /\ Len(f) = Len(Front(f)) + 1
      BY <1>1, <1>6, NodeFacts
    <2>2. Front(f) \in Paths /\ Len(Front(f)) \in Nat
      BY <2>1, NodeFacts
    <2>3. Len(Front(f)) < Len(f) /\ Front(f) # f
      BY <1>2, <2>1, <2>2
    <2> QED BY <1>1, <1>4, <2>1, <2>2, <2>3 DEF Kept, f
  <1> QED BY <1>3, <1>5, <1>6 DEF Up, f, s

\* The tree without the leaf p.
IsRemoval(t, p, k) ==
    /\ k.leaf = [y \in {Up(p, x) : x \in DOMAIN t.leaf \ {p}} |-> t.leaf[Down(p, y)]]
    /\ k.split = [y \in {Up(p, x) : x \in DOMAIN t.split \ {Front(p)}} |-> t.split[Down(p, y)]]

LEMMA RemovalMap ==
    ASSUME NEW t, Grown(t), NEW p \in DOMAIN t.leaf, p # <<>>, NEW k, IsRemoval(t, p, k)
    PROVE  /\ DOMAIN t.leaf \ {p} \subseteq Kept(t, p)
           /\ DOMAIN t.split \ {Front(p)} \subseteq Kept(t, p)
           /\ Kept(t, p) = (DOMAIN t.leaf \ {p}) \cup (DOMAIN t.split \ {Front(p)})
           /\ DOMAIN k.leaf = {Up(p, x) : x \in DOMAIN t.leaf \ {p}}
           /\ DOMAIN k.split = {Up(p, x) : x \in DOMAIN t.split \ {Front(p)}}
           /\ Nodes(k) = {Up(p, x) : x \in Kept(t, p)}
           /\ \A x \in DOMAIN t.leaf \ {p} : Up(p, x) \in DOMAIN k.leaf /\ k.leaf[Up(p, x)] = t.leaf[x]
           /\ \A x \in DOMAIN t.split \ {Front(p)} :
                Up(p, x) \in DOMAIN k.split /\ k.split[Up(p, x)] = t.split[x]
           /\ \A x, y \in Kept(t, p) : Up(p, x) = Up(p, y) => x = y
  <1>1. /\ Front(p) \in DOMAIN t.split /\ Front(p) \notin DOMAIN t.leaf /\ p \notin DOMAIN t.split
    BY Family DEF Grown
  <1>2. /\ DOMAIN t.leaf \ {p} \subseteq Kept(t, p)
        /\ DOMAIN t.split \ {Front(p)} \subseteq Kept(t, p)
        /\ Kept(t, p) = (DOMAIN t.leaf \ {p}) \cup (DOMAIN t.split \ {Front(p)})
    BY <1>1 DEF Kept, Nodes
  <1>3. \A x \in Kept(t, p) : Down(p, Up(p, x)) = x
    BY UpFacts
  <1>4. \A x, y \in Kept(t, p) : Up(p, x) = Up(p, y) => x = y
    BY <1>3
  <1>5. /\ DOMAIN k.leaf = {Up(p, x) : x \in DOMAIN t.leaf \ {p}}
        /\ \A y \in DOMAIN k.leaf : k.leaf[y] = t.leaf[Down(p, y)]
    BY DEF IsRemoval
  <1>6. /\ DOMAIN k.split = {Up(p, x) : x \in DOMAIN t.split \ {Front(p)}}
        /\ \A y \in DOMAIN k.split : k.split[y] = t.split[Down(p, y)]
    BY DEF IsRemoval
  <1>7. \A x \in DOMAIN t.leaf \ {p} : Up(p, x) \in DOMAIN k.leaf /\ k.leaf[Up(p, x)] = t.leaf[x]
    BY <1>2, <1>3, <1>5
  <1>8. \A x \in DOMAIN t.split \ {Front(p)} :
          Up(p, x) \in DOMAIN k.split /\ k.split[Up(p, x)] = t.split[x]
    BY <1>2, <1>3, <1>6
  <1>9. Nodes(k) = {Up(p, x) : x \in Kept(t, p)}
    <2>1. ASSUME NEW y \in Nodes(k) PROVE \E x \in Kept(t, p) : y = Up(p, x)
      BY <1>2, <1>5, <1>6 DEF Nodes
    <2>2. ASSUME NEW x \in Kept(t, p) PROVE Up(p, x) \in Nodes(k)
      BY <1>2, <1>7, <1>8 DEF Nodes
    <2> QED BY <2>1, <2>2
  <1> QED BY <1>2, <1>4, <1>5, <1>6, <1>7, <1>8, <1>9

\* The children of a node that is kept, and the parent of one.
LEMMA RemovalSteps ==
    ASSUME NEW t, Grown(t), NEW p \in DOMAIN t.leaf, p # <<>>, NEW k, IsRemoval(t, p, k)
    PROVE  /\ \A x \in DOMAIN t.split \ {Front(p)}, i \in {1, 2} :
                \E y \in Kept(t, p) :
                   /\ Up(p, x) \o <<i>> = Up(p, y)
                   /\ y = x \o <<i>> \/ (x \o <<i>> = Front(p) /\ y = SiblingOf(p))
           /\ \A x \in Kept(t, p) : Up(p, x) # <<>> => Front(Up(p, x)) \in DOMAIN k.split
  <1> DEFINE f == Front(p)
             s == SiblingOf(p)
  <1>1. /\ f \in Paths /\ s \in Paths /\ f \in Nodes(t) /\ f \in DOMAIN t.split /\ s \in Kept(t, p)
        /\ Front(s) = f /\ p \in Paths
    BY Family
  <1>2. /\ \A x \in Kept(t, p), i \in {1, 2} : x \o <<i>> # f => Up(p, x \o <<i>>) = Up(p, x) \o <<i>>
        /\ \A x \in Kept(t, p) : Up(p, x) \in Paths
        /\ Up(p, s) = f
        /\ f # <<>> => <<>> \in Kept(t, p) /\ Up(p, <<>>) = <<>>
        /\ f # <<>> => /\ Front(f) \in Kept(t, p) /\ Front(f) \in DOMAIN t.split
                       /\ Up(p, Front(f)) = Front(f)
    BY UpFacts, UpPlaces
  <1>3. /\ DOMAIN t.split \ {f} \subseteq Kept(t, p)
        /\ DOMAIN k.split = {Up(p, x) : x \in DOMAIN t.split \ {f}}
        /\ \A x, y \in Kept(t, p) : Up(p, x) = Up(p, y) => x = y
    BY RemovalMap
  <1>4. \A x \in Kept(t, p) : x \in Nodes(t) /\ x \in Paths /\ x # p /\ x # f
    BY NodeFacts DEF Kept
  <1> HIDE DEF s
  <1>5. ASSUME NEW x \in DOMAIN t.split \ {f}, NEW i \in {1, 2}
        PROVE  \E y \in Kept(t, p) : /\ Up(p, x) \o <<i>> = Up(p, y)
                                     /\ y = x \o <<i>> \/ (x \o <<i>> = f /\ y = s)
    <2>1. x \in Kept(t, p) /\ x \in Paths
      BY <1>3, <1>4
    <2>2. x \o <<i>> \in Nodes(t)
      BY DEF Grown
    <2>3. Front(x \o <<i>>) = x
      BY <2>1, Extend
    <2>4. x \o <<i>> # p
      BY <2>3
    <2>5. CASE x \o <<i>> # f
      <3>1. x \o <<i>> \in Kept(t, p)
        BY <2>2, <2>4, <2>5 DEF Kept
      <3> QED BY <1>2, <2>1, <2>5, <3>1
    <2>6. CASE x \o <<i>> = f
      <3>1. f # <<>> /\ Front(f) = x
        BY <2>1, <2>3, <2>6, Extend
      <3>2. Up(p, x) = x
        BY <1>2, <3>1
      <3> QED BY <1>1, <1>2, <2>6, <3>2
    <2> QED BY <2>5, <2>6
  <1>6. ASSUME NEW x \in Kept(t, p), Up(p, x) # <<>> PROVE Front(Up(p, x)) \in DOMAIN k.split
    <2>1. CASE x = s
      <3>1. Up(p, x) = f /\ f # <<>>
        BY <1>2, <1>6, <2>1
      <3>2. Front(f) \in DOMAIN t.split /\ Front(f) # f /\ Up(p, Front(f)) = Front(f)
        BY <1>2, <1>4, <3>1
      <3> QED BY <1>3, <3>1, <3>2
    <2>2. CASE x # s
      <3>1. x # <<>>
        <4> SUFFICES ASSUME x = <<>> PROVE FALSE
          OBVIOUS
        <4>1. CASE f = <<>>
          BY <1>4, <4>1
        <4>2. CASE f # <<>>
          BY <1>2, <1>6, <4>2
        <4> QED BY <4>1, <4>2
      <3>2. PICK z \in Nodes(t) : z = Front(x) /\ z \in DOMAIN t.split
        BY <1>4, <3>1, NodeFacts
      <3>3. PICK i \in {1, 2} : x = z \o <<i>>
        BY <1>4, <3>1, <3>2, NodeFacts
      <3>4. z # f
        <4> SUFFICES ASSUME z = f PROVE FALSE
          OBVIOUS
        <4>1. PICK j \in {1, 2} : p = f \o <<j>> /\ s = f \o <<3 - j>>
          BY Family DEF s
        <4>2. i = j \/ i = 3 - j
          OBVIOUS
        <4> QED BY <1>4, <2>2, <3>3, <4>1, <4>2
      <3>5. z \in Kept(t, p) /\ Up(p, z) \in Paths /\ z \o <<i>> # f
        BY <1>2, <1>3, <1>4, <3>2, <3>3, <3>4
      <3>6. Up(p, x) = Up(p, z) \o <<i>>
        BY <1>2, <3>3, <3>5
      <3>7. Front(Up(p, x)) = Up(p, z)
        BY <3>5, <3>6, Extend
      <3> QED BY <1>3, <3>2, <3>4, <3>7
    <2> QED BY <2>1, <2>2
  <1> QED BY <1>5, <1>6 DEF s

LEMMA RemovalTree ==
    ASSUME NEW t, Grown(t), Marked(t), NEW p \in DOMAIN t.leaf, p # <<>>, NEW k, IsRemoval(t, p, k)
    PROVE  Grown(k) /\ Marked(k) /\ Panes(k) = Panes(t) \ {t.leaf[p]}
  <1> DEFINE f == Front(p)
  <1>1. /\ DOMAIN t.leaf \ {p} \subseteq Kept(t, p)
        /\ DOMAIN t.split \ {f} \subseteq Kept(t, p)
        /\ DOMAIN k.leaf = {Up(p, x) : x \in DOMAIN t.leaf \ {p}}
        /\ DOMAIN k.split = {Up(p, x) : x \in DOMAIN t.split \ {f}}
        /\ Nodes(k) = {Up(p, x) : x \in Kept(t, p)}
        /\ \A x \in DOMAIN t.leaf \ {p} : Up(p, x) \in DOMAIN k.leaf /\ k.leaf[Up(p, x)] = t.leaf[x]
        /\ \A x \in DOMAIN t.split \ {f} : Up(p, x) \in DOMAIN k.split /\ k.split[Up(p, x)] = t.split[x]
        /\ \A x, y \in Kept(t, p) : Up(p, x) = Up(p, y) => x = y
    BY RemovalMap
  <1>2. \A x \in Kept(t, p) : Up(p, x) \in Paths /\ Len(Up(p, x)) <= Len(x)
    BY UpFacts
  <1>3. /\ \A x \in DOMAIN t.split \ {f}, i \in {1, 2} : \E y \in Kept(t, p) : Up(p, x) \o <<i>> = Up(p, y)
        /\ \A x \in Kept(t, p) : Up(p, x) # <<>> => Front(Up(p, x)) \in DOMAIN k.split
    <2>1. \A x \in DOMAIN t.split \ {f}, i \in {1, 2} : \E y \in Kept(t, p) :
             /\ Up(p, x) \o <<i>> = Up(p, y)
             /\ y = x \o <<i>> \/ (x \o <<i>> = f /\ y = SiblingOf(p))
      BY RemovalSteps, ZenonT(60)
    <2>2. \A x \in Kept(t, p) : Up(p, x) # <<>> => Front(Up(p, x)) \in DOMAIN k.split
      BY RemovalSteps
    <2> QED BY ONLY <2>1, <2>2
  <1>4. <<>> \in Nodes(k)
    <2>1. /\ Up(p, SiblingOf(p)) = f /\ SiblingOf(p) \in Kept(t, p)
          /\ f # <<>> => <<>> \in Kept(t, p) /\ Up(p, <<>>) = <<>>
      BY UpPlaces, Family
    <2> QED BY <1>1, <2>1
  <1> HIDE DEF f
  <1>5. Grown(k)
    <2>1. Nodes(k) \subseteq Paths
      BY <1>1, <1>2
    <2>2. DOMAIN k.leaf \cap DOMAIN k.split = {}
      <3> SUFFICES ASSUME NEW x \in DOMAIN t.leaf \ {p}, NEW y \in DOMAIN t.split \ {f},
                          Up(p, x) = Up(p, y)
                   PROVE  FALSE
        BY <1>1
      <3>1. x = y
        BY <1>1
      <3> QED BY <3>1 DEF Grown
    <2>3. \A y \in Nodes(k) \ {<<>>} : Front(y) \in DOMAIN k.split
      BY <1>1, <1>3
    <2>4. ASSUME NEW y \in DOMAIN k.split PROVE y \o <<1>> \in Nodes(k) /\ y \o <<2>> \in Nodes(k)
      <3>1. PICK x \in DOMAIN t.split \ {f} : y = Up(p, x)
        BY <1>1
      <3>2. \A i \in {1, 2} : Up(p, x) \o <<i>> \in Nodes(k)
        BY <1>1, <1>3
      <3> QED BY <3>1, <3>2
    <2>5. \E high \in Nat : \A y \in Nodes(k) : Len(y) <= high
      <3>1. PICK high \in Nat : \A x \in Nodes(t) : Len(x) <= high
        BY DEF Grown
      <3>2. ASSUME NEW x \in Kept(t, p) PROVE Len(Up(p, x)) <= high
        <4>1. Len(x) \in Nat /\ Len(Up(p, x)) \in Nat /\ Len(x) <= high
          BY <1>2, <3>1, NodeFacts, PathFacts DEF Kept
        <4> QED BY <1>2, <4>1
      <3> QED BY <1>1, <3>2
    <2> QED BY <1>4, <2>1, <2>2, <2>3, <2>4, <2>5 DEF Grown
  <1>6. Panes(k) = Panes(t) \ {t.leaf[p]}
    <2>1. \A x \in DOMAIN t.leaf \ {p} : t.leaf[x] # t.leaf[p]
      BY DEF Marked
    <2> QED BY <1>1, <2>1 DEF Panes
  <1>7. Marked(k)
    <2>1. k.leaf \in [DOMAIN k.leaf -> Ids]
      <3>1. k.leaf = [y \in DOMAIN k.leaf |-> k.leaf[y]]
        BY DEF IsRemoval
      <3>2. \A y \in DOMAIN k.leaf : k.leaf[y] \in Ids
        BY <1>1 DEF Marked
      <3> QED BY <3>1, <3>2
    <2>2. \A x, y \in DOMAIN k.leaf : k.leaf[x] = k.leaf[y] => x = y
      BY <1>1 DEF Marked
    <2>3. k.split \in [DOMAIN k.split -> [axis : Dimensions, share : Nat \X (Nat \ {0})]]
      <3>1. k.split = [y \in DOMAIN k.split |-> k.split[y]]
        BY DEF IsRemoval
      <3>2. \A y \in DOMAIN k.split : k.split[y] \in [axis : Dimensions, share : Nat \X (Nat \ {0})]
        BY <1>1 DEF Marked
      <3> QED BY <3>1, <3>2
    <2> QED BY <2>1, <2>2, <2>3 DEF Marked
  <1> QED BY <1>5, <1>6, <1>7

\* What is left of a tree needs no more than the whole did.
LEMMA RemovalFits ==
    ASSUME NEW t, Grown(t), Marked(t), NEW p \in DOMAIN t.leaf, p # <<>>, NEW k, IsRemoval(t, p, k)
    PROVE  \A d \in Dimensions : Minimum(k)[<<>>][d] <= Minimum(t)[<<>>][d]
  <1> DEFINE f == Front(p)
             s == SiblingOf(p)
             m == Minimum(t)
             b == [y \in Nodes(k) |-> m[Down(p, y)]]
  <1>1. /\ DOMAIN t.split \ {f} \subseteq Kept(t, p)
        /\ DOMAIN k.split = {Up(p, x) : x \in DOMAIN t.split \ {f}}
        /\ Nodes(k) = {Up(p, x) : x \in Kept(t, p)}
        /\ \A x \in DOMAIN t.split \ {f} : k.split[Up(p, x)] = t.split[x]
    BY RemovalMap
  <1>2. \A x \in Kept(t, p) : b[Up(p, x)] = m[x] /\ Up(p, x) \in Nodes(k)
    <2>1. \A x \in Kept(t, p) : Down(p, Up(p, x)) = x
      BY UpFacts
    <2> QED BY <1>1, <2>1
  <1>3. /\ f \in DOMAIN t.split /\ s \in Kept(t, p) /\ f \in Nodes(t)
        /\ s = f \o <<1>> \/ s = f \o <<2>>
    <2>1. PICK i \in {1, 2} : s = f \o <<3 - i>>
      BY Family
    <2>2. 3 - i = 1 \/ 3 - i = 2
      OBVIOUS
    <2> HIDE DEF f, s
    <2>3. s = f \o <<1>> \/ s = f \o <<2>>
      BY <2>1, <2>2
    <2> QED BY <2>3, Family DEF f, s
  <1>4. \A x \in Nodes(t), d \in Dimensions : m[x][d] \in Nat /\ m[x][d] >= 1
    BY MinimumRules
  <1>5. \A x \in DOMAIN t.split, d \in Dimensions :
          /\ x \in Nodes(t) /\ x \o <<1>> \in Nodes(t) /\ x \o <<2>> \in Nodes(t)
          /\ m[x][d] = IF d = t.split[x].axis THEN m[x \o <<1>>][d] + 2 + m[x \o <<2>>][d]
                       ELSE Larger(m[x \o <<1>>][d], m[x \o <<2>>][d])
    BY MinimumRules DEF Grown, Nodes
  <1>6. \A x \in DOMAIN t.split \ {f}, i \in {1, 2} :
          \E y \in Kept(t, p) : /\ Up(p, x) \o <<i>> = Up(p, y)
                                /\ y = x \o <<i>> \/ (x \o <<i>> = f /\ y = s)
    BY RemovalSteps
  <1>7. /\ Up(p, s) = f
        /\ f # <<>> => <<>> \in Kept(t, p) /\ Up(p, <<>>) = <<>>
    BY UpPlaces
  <1>8. Grown(k) /\ Marked(k)
    BY RemovalTree
  <1> HIDE DEF f, s, m, b
  <1>9. \A d \in Dimensions : m[s][d] \in Nat /\ m[s][d] <= m[f][d]
    <2> TAKE d \in Dimensions
    <2>1. /\ m[f \o <<1>>][d] \in Nat /\ m[f \o <<2>>][d] \in Nat
          /\ m[f][d] = IF d = t.split[f].axis THEN m[f \o <<1>>][d] + 2 + m[f \o <<2>>][d]
                       ELSE Larger(m[f \o <<1>>][d], m[f \o <<2>>][d])
      BY <1>3, <1>4, <1>5
    <2>2. m[f \o <<1>>][d] <= m[f][d] /\ m[f \o <<2>>][d] <= m[f][d]
      BY <2>1 DEF Larger
    <2> QED BY <1>3, <2>1, <2>2
  <1>10. \A y \in Nodes(k), d \in Dimensions : b[y][d] \in Nat /\ b[y][d] >= 1
    BY <1>1, <1>2, <1>4 DEF Kept
  <1>11. ASSUME NEW x \in DOMAIN t.split \ {f}, NEW i \in {1, 2}, NEW d \in Dimensions
         PROVE  /\ b[Up(p, x) \o <<i>>][d] \in Nat /\ m[x \o <<i>>][d] \in Nat
                /\ b[Up(p, x) \o <<i>>][d] <= m[x \o <<i>>][d]
    <2>1. PICK y \in Kept(t, p) : /\ Up(p, x) \o <<i>> = Up(p, y)
                                  /\ y = x \o <<i>> \/ (x \o <<i>> = f /\ y = s)
      BY <1>6
    <2>2. b[Up(p, x) \o <<i>>] = m[y] /\ y \in Nodes(t) /\ m[y][d] \in Nat /\ m[f][d] \in Nat
      BY <1>2, <1>3, <1>4, <2>1 DEF Kept
    <2>3. CASE y = x \o <<i>>
      BY <2>2, <2>3
    <2>4. CASE x \o <<i>> = f /\ y = s
      BY <1>9, <2>2, <2>4
    <2> QED BY <2>1, <2>3, <2>4
  <1>12. ASSUME NEW q \in DOMAIN k.split, NEW d \in Dimensions
         PROVE  IF d = k.split[q].axis THEN b[q][d] >= b[q \o <<1>>][d] + 2 + b[q \o <<2>>][d]
                ELSE b[q][d] >= b[q \o <<1>>][d] /\ b[q][d] >= b[q \o <<2>>][d]
    <2>1. PICK x \in DOMAIN t.split \ {f} : q = Up(p, x)
      BY <1>1
    <2>2. /\ b[q \o <<1>>][d] \in Nat /\ m[x \o <<1>>][d] \in Nat
          /\ b[q \o <<1>>][d] <= m[x \o <<1>>][d]
          /\ b[q \o <<2>>][d] \in Nat /\ m[x \o <<2>>][d] \in Nat
          /\ b[q \o <<2>>][d] <= m[x \o <<2>>][d]
      BY <1>11, <2>1
    <2>3. b[q][d] = m[x][d] /\ m[x][d] \in Nat /\ k.split[q].axis = t.split[x].axis
      BY <1>1, <1>2, <1>4, <1>5, <2>1
    <2>4. m[x][d] = IF d = t.split[x].axis THEN m[x \o <<1>>][d] + 2 + m[x \o <<2>>][d]
                    ELSE Larger(m[x \o <<1>>][d], m[x \o <<2>>][d])
      BY <1>5
    <2>5. CASE d = t.split[x].axis
      <3>1. m[x][d] = m[x \o <<1>>][d] + 2 + m[x \o <<2>>][d]
        BY <2>4, <2>5
      <3>2. b[q][d] >= b[q \o <<1>>][d] + 2 + b[q \o <<2>>][d]
        <4>1. \A u, v, w, x1, y1 \in Nat : u <= v /\ w <= x1 /\ y1 = v + 2 + x1 => y1 >= u + 2 + w
          OBVIOUS
        <4> QED BY ONLY <2>2, <2>3, <3>1, <4>1
      <3> QED BY <2>3, <2>5, <3>2
    <2>6. CASE d # t.split[x].axis
      BY <2>2, <2>3, <2>4, <2>6 DEF Larger
    <2> QED BY <2>5, <2>6
  <1>13. ASSUME NEW d \in Dimensions PROVE Minimum(k)[<<>>][d] <= m[<<>>][d]
    <2>1. \A y \in Nodes(k), e \in Dimensions : Minimum(k)[y][e] <= b[y][e]
      BY <1>8, <1>10, <1>12, MinimumIsLeast DEF EnoughForSplits
    <2>2. <<>> \in Nodes(k) /\ <<>> \in Nodes(t)
      BY <1>8 DEF Grown
    <2>3. Minimum(k)[<<>>][d] \in Nat /\ m[<<>>][d] \in Nat
      BY <1>4, <1>8, <2>2, MinimumRules
    <2>4. b[<<>>][d] \in Nat /\ b[<<>>][d] <= m[<<>>][d]
      <3>1. CASE f = <<>>
        <4>1. b[<<>>] = m[s]
          BY <1>2, <1>3, <1>7, <3>1
        <4> QED BY <1>9, <3>1, <4>1
      <3>2. CASE f # <<>>
        <4>1. b[<<>>] = m[<<>>]
          BY <1>2, <1>7, <3>2
        <4> QED BY <2>3, <4>1
      <3> QED BY <3>1, <3>2
    <2> QED BY <2>1, <2>2, <2>3, <2>4
  <1> QED BY <1>13 DEF m

-----------------------------------------------------------------------------
(* Changes that keep the shape of the tree.                                *)

SameShape(a, b) ==
    /\ DOMAIN a.leaf = DOMAIN b.leaf /\ DOMAIN a.split = DOMAIN b.split
    /\ \A p \in DOMAIN a.split : a.split[p].axis = b.split[p].axis

LEMMA SameNeeds ==
    ASSUME NEW a, NEW b, Grown(a), Marked(a), Grown(b), Marked(b), SameShape(a, b)
    PROVE  \A p \in Nodes(a), d \in Dimensions : Minimum(a)[p][d] = Minimum(b)[p][d]
  <1> DEFINE m == Minimum(a)
             n == Minimum(b)
  <1>1. Nodes(a) = Nodes(b) /\ DOMAIN a.split = DOMAIN b.split
    BY DEF SameShape, Nodes
  <1>2. /\ \A p \in DOMAIN a.split : a.split[p].axis = b.split[p].axis
        /\ \A p \in DOMAIN a.split : p \o <<1>> \in Nodes(a) /\ p \o <<2>> \in Nodes(a)
    BY DEF SameShape, Grown
  <1>3. /\ \A p \in DOMAIN a.split, d \in Dimensions :
             m[p][d] = IF d = a.split[p].axis THEN m[p \o <<1>>][d] + 2 + m[p \o <<2>>][d]
                       ELSE Larger(m[p \o <<1>>][d], m[p \o <<2>>][d])
        /\ \A p \in Nodes(a), d \in Dimensions : m[p][d] \in Nat /\ m[p][d] >= 1
        /\ \A p \in DOMAIN b.split, d \in Dimensions :
             n[p][d] = IF d = b.split[p].axis THEN n[p \o <<1>>][d] + 2 + n[p \o <<2>>][d]
                       ELSE Larger(n[p \o <<1>>][d], n[p \o <<2>>][d])
        /\ \A p \in Nodes(b), d \in Dimensions : n[p][d] \in Nat /\ n[p][d] >= 1
    BY MinimumRules
  <1> HIDE DEF m, n
  <1>4. ASSUME NEW p \in DOMAIN a.split, NEW d \in Dimensions
        PROVE  /\ IF d = b.split[p].axis THEN m[p][d] >= m[p \o <<1>>][d] + 2 + m[p \o <<2>>][d]
                  ELSE m[p][d] >= m[p \o <<1>>][d] /\ m[p][d] >= m[p \o <<2>>][d]
               /\ IF d = a.split[p].axis THEN n[p][d] >= n[p \o <<1>>][d] + 2 + n[p \o <<2>>][d]
                  ELSE n[p][d] >= n[p \o <<1>>][d] /\ n[p][d] >= n[p \o <<2>>][d]
    <2>1. /\ m[p \o <<1>>][d] \in Nat /\ m[p \o <<2>>][d] \in Nat
          /\ n[p \o <<1>>][d] \in Nat /\ n[p \o <<2>>][d] \in Nat
      BY <1>1, <1>2, <1>3
    <2>2. a.split[p].axis = b.split[p].axis
      BY <1>2
    <2>3. /\ m[p][d] = IF d = a.split[p].axis THEN m[p \o <<1>>][d] + 2 + m[p \o <<2>>][d]
                       ELSE Larger(m[p \o <<1>>][d], m[p \o <<2>>][d])
          /\ n[p][d] = IF d = a.split[p].axis THEN n[p \o <<1>>][d] + 2 + n[p \o <<2>>][d]
                       ELSE Larger(n[p \o <<1>>][d], n[p \o <<2>>][d])
      BY <1>1, <1>3, <2>2
    <2>4. CASE d = a.split[p].axis
      <3>1. /\ m[p][d] = m[p \o <<1>>][d] + 2 + m[p \o <<2>>][d]
            /\ n[p][d] = n[p \o <<1>>][d] + 2 + n[p \o <<2>>][d]
        BY <2>3, <2>4
      <3>2. /\ m[p][d] >= m[p \o <<1>>][d] + 2 + m[p \o <<2>>][d]
            /\ n[p][d] >= n[p \o <<1>>][d] + 2 + n[p \o <<2>>][d]
        BY ONLY <2>1, <3>1
      <3> QED BY <2>2, <2>4, <3>2
    <2>5. CASE d # a.split[p].axis
      BY <2>1, <2>2, <2>3, <2>5 DEF Larger
    <2> QED BY <2>4, <2>5
  <1>5. \A p \in Nodes(b), d \in Dimensions : n[p][d] <= m[p][d]
    <2>1. /\ \A p \in Nodes(b), d \in Dimensions : m[p][d] \in Nat /\ m[p][d] >= 1
          /\ \A p \in DOMAIN b.split, d \in Dimensions :
               IF d = b.split[p].axis THEN m[p][d] >= m[p \o <<1>>][d] + 2 + m[p \o <<2>>][d]
               ELSE m[p][d] >= m[p \o <<1>>][d] /\ m[p][d] >= m[p \o <<2>>][d]
      BY <1>1, <1>3, <1>4
    <2> QED BY <2>1, MinimumIsLeast DEF n, EnoughForSplits
  <1>6. \A p \in Nodes(a), d \in Dimensions : m[p][d] <= n[p][d]
    <2>1. /\ \A p \in Nodes(a), d \in Dimensions : n[p][d] \in Nat /\ n[p][d] >= 1
          /\ \A p \in DOMAIN a.split, d \in Dimensions :
               IF d = a.split[p].axis THEN n[p][d] >= n[p \o <<1>>][d] + 2 + n[p \o <<2>>][d]
               ELSE n[p][d] >= n[p \o <<1>>][d] /\ n[p][d] >= n[p \o <<2>>][d]
      BY <1>1, <1>3, <1>4
    <2> QED BY <2>1, MinimumIsLeast DEF m, EnoughForSplits
  <1>7. \A p \in Nodes(a), d \in Dimensions : m[p][d] = n[p][d]
    <2> TAKE p \in Nodes(a), d \in Dimensions
    <2>1. m[p][d] \in Nat /\ n[p][d] \in Nat /\ m[p][d] <= n[p][d] /\ n[p][d] <= m[p][d]
      BY <1>1, <1>3, <1>5, <1>6
    <2> QED BY <2>1
  <1> QED BY <1>7 DEF m, n

\* Trees of one shape are as large as each other.
LEMMA SameFits ==
    ASSUME NEW a, NEW b, Grown(a), Marked(a), Grown(b), Marked(b), SameShape(a, b), NEW size,
           RootFits(a, size)
    PROVE  RootFits(b, size)
  <1>1. <<>> \in Nodes(a)
    BY DEF Grown
  <1> QED BY <1>1, SameNeeds DEF RootFits

\* With the same shares too, and the same canvas, every node has the same place.
LEMMA SameRects ==
    ASSUME NEW a, NEW b, Grown(a), Marked(a), Grown(b), Marked(b),
           DOMAIN a.leaf = DOMAIN b.leaf, a.split = b.split, a.size = b.size
    PROVE  \A p \in Nodes(a) : Rects(a)[p] = Rects(b)[p]
  <1> DEFINE r == Rects(a)
             s == Rects(b)
             S == {k \in Nat : \A p \in Nodes(a) : Len(p) <= k => r[p] = s[p]}
  <1>1. SameShape(a, b) /\ DOMAIN a.split = DOMAIN b.split
    BY DEF SameShape
  <1>2. r[<<>>] = s[<<>>]
    <2>1. Rects(a)[<<>>] = [at |-> <<0, 0>>, size |-> a.size]
      BY RectsRules
    <2>2. Rects(b)[<<>>] = [at |-> <<0, 0>>, size |-> b.size]
      BY RectsRules
    <2> QED BY <2>1, <2>2
  <1>3. ASSUME NEW q \in DOMAIN a.split, NEW extent
        PROVE  FirstExtent(a, Minimum(a), q, extent) = FirstExtent(b, Minimum(b), q, extent)
    <2>1. /\ q \o <<1>> \in Nodes(a) /\ q \o <<2>> \in Nodes(a) /\ a.split[q].axis \in Dimensions
      BY SplitFacts DEF Grown
    <2>2. /\ Minimum(a)[q \o <<1>>][a.split[q].axis] = Minimum(b)[q \o <<1>>][a.split[q].axis]
          /\ Minimum(a)[q \o <<2>>][a.split[q].axis] = Minimum(b)[q \o <<2>>][a.split[q].axis]
      BY <1>1, <2>1, SameNeeds
    <2> QED BY <2>2 DEF FirstExtent
  <1>4. ASSUME NEW q \in DOMAIN a.split, r[q] = s[q]
        PROVE  r[q \o <<1>>] = s[q \o <<1>>] /\ r[q \o <<2>>] = s[q \o <<2>>]
    <2>1. PICK d : d = a.split[q].axis
      OBVIOUS
    <2>2. PICK first : first = FirstExtent(a, Minimum(a), q, r[q].size[d])
      OBVIOUS
    <2>3. r[q \o <<1>>] = FirstHalf(r[q], d, first) /\ r[q \o <<2>>] = SecondHalf(r[q], d, first)
      BY <2>1, <2>2, RectsOfHalves
    <2>4. d = b.split[q].axis /\ q \in DOMAIN b.split
      BY <1>1, <2>1
    <2>5. first = FirstExtent(b, Minimum(b), q, s[q].size[d])
      BY <1>3, <1>4, <2>2
    <2>6. s[q \o <<1>>] = FirstHalf(s[q], d, first) /\ s[q \o <<2>>] = SecondHalf(s[q], d, first)
      BY <2>4, <2>5, RectsOfHalves
    <2> HIDE DEF r, s
    <2> QED BY <1>4, <2>3, <2>6
  <1> HIDE DEF r, s
  <1>5. 0 \in S
    <2>1. \A p \in Nodes(a) : Len(p) <= 0 => p = <<>>
      <3> TAKE p \in Nodes(a)
      <3>1. p \in Paths /\ Len(p) \in Nat
        BY NodeFacts
      <3> QED BY <3>1, EmptySeq DEF Paths
    <2> QED BY <1>2, <2>1
  <1>6. ASSUME NEW k \in Nat, k \in S PROVE k + 1 \in S
    <2>1. ASSUME NEW p \in Nodes(a), Len(p) <= k + 1 PROVE r[p] = s[p]
      <3>1. CASE p = <<>>
        BY <1>2, <3>1
      <3>2. CASE p # <<>>
        <4>1. /\ Front(p) \in DOMAIN a.split /\ Front(p) \in Nodes(a) /\ Len(Front(p)) \in Nat
              /\ Last(p) \in {1, 2} /\ p = Front(p) \o <<Last(p)>> /\ Len(p) = Len(Front(p)) + 1
          BY <3>2, NodeFacts
        <4>2. Len(Front(p)) <= k
          BY <2>1, <4>1
        <4>3. r[Front(p)] = s[Front(p)]
          BY <1>6, <4>1, <4>2
        <4>4. r[Front(p) \o <<1>>] = s[Front(p) \o <<1>>] /\ r[Front(p) \o <<2>>] = s[Front(p) \o <<2>>]
          BY <1>4, <4>1, <4>3
        <4> QED BY <4>1, <4>4
      <3> QED BY <3>1, <3>2
    <2> QED BY <2>1
  <1> HIDE DEF S
  <1>7. \A k \in Nat : k \in S
    BY <1>5, <1>6, Induction
  <1>8. \A p \in Nodes(a) : r[p] = s[p]
    <2> TAKE p \in Nodes(a)
    <2>1. Len(p) \in Nat /\ Len(p) <= Len(p)
      BY NodeFacts
    <2> QED BY <1>7, <2>1 DEF S
  <1> QED BY <1>8 DEF r, s

\* Another shape than leaf and split does not matter to a tree.
LEMMA SameTree ==
    ASSUME NEW a, NEW b, a.leaf = b.leaf, a.split = b.split
    PROVE  /\ Nodes(a) = Nodes(b) /\ Panes(a) = Panes(b) /\ Count(a) = Count(b)
           /\ Grown(a) <=> Grown(b)
           /\ Marked(a) <=> Marked(b)
           /\ SameShape(a, b)
  BY DEF Nodes, Panes, Count, Grown, Marked, SameShape

-----------------------------------------------------------------------------
(* The order of the leaves: a tree is read by a sequence of its leaves.    *)

LEMMA BeforeStrict ==
    ASSUME NEW p \in Paths, NEW q \in Paths
    PROVE  ~Before(p, p) /\ (Before(p, q) => ~Before(q, p) /\ p # q)
  <1>1. Len(p) \in Nat /\ Len(q) \in Nat
    BY PathFacts
  <1>2. \A n \in 1 .. Len(p) : p[n] \in {1, 2}
    BY PathFacts
  <1>3. \A n \in 1 .. Len(q) : q[n] \in {1, 2}
    BY PathFacts
  <1>4. ~Before(p, p)
    BY <1>2 DEF Before
  <1>5. ASSUME Before(p, q), Before(q, p) PROVE FALSE
    <2>1. PICK n \in 1 .. Len(p) : /\ n <= Len(q) /\ p[n] < q[n]
                                   /\ \A m \in 1 .. n - 1 : p[m] = q[m]
      BY <1>5 DEF Before
    <2>2. PICK k \in 1 .. Len(q) : /\ k <= Len(p) /\ q[k] < p[k]
                                   /\ \A m \in 1 .. k - 1 : q[m] = p[m]
      BY <1>5 DEF Before
    <2>3. n \in 1 .. Len(q) /\ k \in 1 .. Len(p) /\ n \in Nat /\ k \in Nat
      BY <1>1, <2>1, <2>2
    <2>4. p[n] \in Nat /\ q[n] \in Nat /\ p[k] \in Nat /\ q[k] \in Nat
      BY <1>2, <1>3, <2>3
    <2>5. CASE n < k
      <3>1. n \in 1 .. k - 1
        BY <1>1, <2>3, <2>5
      <3> QED BY <2>1, <2>2, <2>4, <3>1
    <2>6. CASE k < n
      <3>1. k \in 1 .. n - 1
        BY <1>1, <2>3, <2>6
      <3> QED BY <2>1, <2>2, <2>4, <3>1
    <2>7. CASE n = k
      BY <2>1, <2>2, <2>4, <2>7
    <2> QED BY <2>3, <2>5, <2>6, <2>7
  <1> QED BY <1>4, <1>5

\* What is under a path comes before and after the same paths as it does.
LEMMA BeforeBelow ==
    ASSUME NEW p \in Paths, NEW q \in Paths, NEW x \in Paths, Above(p, x)
    PROVE  (Before(q, p) => Before(q, x)) /\ (Before(p, q) => Before(x, q))
  <1>1. Len(p) \in Nat /\ Len(q) \in Nat /\ Len(x) \in Nat
    BY PathFacts
  <1>2. Len(p) <= Len(x) /\ \A n \in 1 .. Len(p) : p[n] = x[n]
    BY DEF Above
  <1>3. ASSUME Before(q, p) PROVE Before(q, x)
    <2>1. PICK n \in 1 .. Len(q) : /\ n <= Len(p) /\ q[n] < p[n]
                                   /\ \A m \in 1 .. n - 1 : q[m] = p[m]
      BY <1>3 DEF Before
    <2>2. n \in 1 .. Len(p) /\ n <= Len(x) /\ \A m \in 1 .. n - 1 : m \in 1 .. Len(p)
      BY <1>1, <1>2, <2>1
    <2> QED BY <1>2, <2>1, <2>2 DEF Before
  <1>4. ASSUME Before(p, q) PROVE Before(x, q)
    <2>1. PICK n \in 1 .. Len(p) : /\ n <= Len(q) /\ p[n] < q[n]
                                   /\ \A m \in 1 .. n - 1 : p[m] = q[m]
      BY <1>4 DEF Before
    <2>2. n \in 1 .. Len(x) /\ \A m \in 1 .. n - 1 : m \in 1 .. Len(p)
      BY <1>1, <1>2, <2>1
    <2> QED BY <1>2, <2>1, <2>2 DEF Before
  <1> QED BY <1>3, <1>4

\* Outside a subtree only the way to its root matters.
LEMMA BeforeOutside ==
    ASSUME NEW f \in Paths, NEW x \in Paths, NEW y \in Paths, Above(f, x), ~Above(f, y)
    PROVE  (Before(x, y) => Before(f, y)) /\ (Before(y, x) => Before(y, f))
  <1>1. Len(f) \in Nat /\ Len(x) \in Nat /\ Len(y) \in Nat
    BY PathFacts
  <1>2. Len(f) <= Len(x) /\ \A n \in 1 .. Len(f) : f[n] = x[n]
    BY DEF Above
  <1>3. ASSUME NEW n \in Nat, n > Len(f), n <= Len(y), \A m \in 1 .. n - 1 : x[m] = y[m]
        PROVE  FALSE
    <2>1. Len(f) <= Len(y) /\ \A m \in 1 .. Len(f) : m \in 1 .. n - 1
      BY <1>1, <1>3
    <2> QED BY <1>2, <1>3, <2>1 DEF Above
  <1>4. ASSUME Before(x, y) PROVE Before(f, y)
    <2>1. PICK n \in 1 .. Len(x) : /\ n <= Len(y) /\ x[n] < y[n]
                                   /\ \A m \in 1 .. n - 1 : x[m] = y[m]
      BY <1>4 DEF Before
    <2>2. n \in 1 .. Len(f) /\ \A m \in 1 .. n - 1 : m \in 1 .. Len(f)
      BY <1>1, <1>3, <2>1
    <2> QED BY <1>2, <2>1, <2>2 DEF Before
  <1>5. ASSUME Before(y, x) PROVE Before(y, f)
    <2>1. PICK n \in 1 .. Len(y) : /\ n <= Len(x) /\ y[n] < x[n]
                                   /\ \A m \in 1 .. n - 1 : y[m] = x[m]
      BY <1>5 DEF Before
    <2>2. n <= Len(f) /\ n \in 1 .. Len(f) /\ \A m \in 1 .. n - 1 : m \in 1 .. Len(f)
      BY <1>1, <1>3, <2>1
    <2> QED BY <1>2, <2>1, <2>2 DEF Before
  <1> QED BY <1>4, <1>5

\* A subtree that hangs elsewhere keeps its own order.
LEMMA BeforeMoved ==
    ASSUME NEW s \in Paths, NEW f \in Paths, NEW u \in Paths, NEW v \in Paths,
           Before(s \o u, s \o v)
    PROVE  Before(f \o u, f \o v)
  <1>1. /\ Len(s) \in Nat /\ Len(f) \in Nat /\ Len(u) \in Nat /\ Len(v) \in Nat
    BY PathFacts
  <1>2. /\ Len(s \o u) = Len(s) + Len(u) /\ Len(s \o v) = Len(s) + Len(v)
        /\ \A n \in 1 .. Len(s) : (s \o u)[n] = s[n] /\ (s \o v)[n] = s[n]
        /\ \A n \in 1 .. Len(u) : (s \o u)[Len(s) + n] = u[n]
        /\ \A n \in 1 .. Len(v) : (s \o v)[Len(s) + n] = v[n]
        /\ s \o u \in Paths
    BY Join
  <1>3. /\ Len(f \o u) = Len(f) + Len(u) /\ Len(f \o v) = Len(f) + Len(v)
        /\ \A n \in 1 .. Len(f) : (f \o u)[n] = f[n] /\ (f \o v)[n] = f[n]
        /\ \A n \in 1 .. Len(u) : (f \o u)[Len(f) + n] = u[n]
        /\ \A n \in 1 .. Len(v) : (f \o v)[Len(f) + n] = v[n]
    BY Join
  <1> DEFINE a == s \o u
             b == s \o v
             c == f \o u
             e == f \o v
  <1>4. PICK n \in 1 .. Len(a) : /\ n <= Len(b) /\ a[n] < b[n] /\ \A m \in 1 .. n - 1 : a[m] = b[m]
    BY DEF Before
  <1>5. \A m \in 1 .. Len(a) : a[m] \in {1, 2}
    BY <1>2, PathFacts
  <1> HIDE DEF a, b, c, e
  <1>6. ~(n <= Len(s))
    <2> SUFFICES ASSUME n <= Len(s) PROVE FALSE
      OBVIOUS
    <2>1. n \in 1 .. Len(s)
      BY <1>1, <1>4
    <2>2. a[n] = b[n] /\ a[n] \in {1, 2}
      BY <1>2, <1>4, <1>5, <2>1 DEF a, b
    <2> QED BY <1>4, <2>2
  <1>7. PICK k \in Nat : n = Len(s) + k /\ k >= 1 /\ k <= Len(u) /\ k <= Len(v)
    <2>1. /\ n - Len(s) \in Nat /\ n = Len(s) + (n - Len(s)) /\ n - Len(s) >= 1
          /\ n - Len(s) <= Len(u) /\ n - Len(s) <= Len(v)
      BY <1>1, <1>2, <1>4, <1>6 DEF a, b
    <2> QED BY <2>1
  <1>8. u[k] < v[k]
    BY <1>1, <1>2, <1>4, <1>7 DEF a, b
  <1>9. \A m \in 1 .. k - 1 : u[m] = v[m]
    <2> TAKE m \in 1 .. k - 1
    <2>1. m \in 1 .. Len(u) /\ m \in 1 .. Len(v) /\ Len(s) + m \in 1 .. n - 1
      BY <1>1, <1>7
    <2>2. a[Len(s) + m] = u[m] /\ b[Len(s) + m] = v[m]
      BY <1>2, <2>1 DEF a, b
    <2> QED BY <1>4, <2>1, <2>2
  <1>10. Len(f) + k \in 1 .. Len(c) /\ Len(f) + k <= Len(e)
    BY <1>1, <1>3, <1>7 DEF c, e
  <1>11. c[Len(f) + k] < e[Len(f) + k]
    <2>1. k \in 1 .. Len(u) /\ k \in 1 .. Len(v)
      BY <1>1, <1>7
    <2> QED BY <1>3, <1>8, <2>1 DEF c, e
  <1>12. ASSUME NEW m \in 1 .. Len(f) + k - 1 PROVE c[m] = e[m]
    <2>1. CASE m <= Len(f)
      <3>1. m \in 1 .. Len(f)
        BY <1>1, <2>1
      <3> QED BY <1>3, <3>1 DEF c, e
    <2>2. CASE ~(m <= Len(f))
      <3>1. PICK i \in 1 .. k - 1 : m = Len(f) + i
        <4>1. m - Len(f) \in 1 .. k - 1 /\ m = Len(f) + (m - Len(f))
          BY <1>1, <1>7, <2>2
        <4> QED BY <4>1
      <3>2. i \in 1 .. Len(u) /\ i \in 1 .. Len(v)
        BY <1>1, <1>7, <3>1
      <3> QED BY <1>3, <1>9, <3>1, <3>2 DEF c, e
    <2> QED BY <2>1, <2>2
  <1>13. Before(c, e)
    <2>1. PICK j \in 1 .. Len(c) : j = Len(f) + k
      BY <1>10
    <2>2. j <= Len(e) /\ c[j] < e[j] /\ \A m \in 1 .. j - 1 : c[m] = e[m]
      BY <1>10, <1>11, <1>12, <2>1
    <2> QED BY <2>2 DEF Before
  <1> QED BY <1>13 DEF c, e

Enumerates(t, w) ==
    /\ DOMAIN t.leaf = {w[i] : i \in 1 .. Len(w)}
    /\ \A i, j \in 1 .. Len(w) : i < j => Before(w[i], w[j])

Ordered(t) == \E w \in Seq(Paths) : Len(w) > 0 /\ Enumerates(t, w)

LEMMA CountOfSequence ==
    ASSUME NEW w, NEW high \in Nat, \A i, j \in 1 .. high : i < j => w[i] # w[j]
    PROVE  \A n \in 0 .. high : /\ IsFiniteSet({w[i] : i \in 1 .. n})
                                /\ Cardinality({w[i] : i \in 1 .. n}) = n
  <1> DEFINE T(n) == {w[i] : i \in 1 .. n}
             S == {n \in Nat : n <= high => IsFiniteSet(T(n)) /\ Cardinality(T(n)) = n}
  <1>1. 0 \in S
    <2>1. T(0) = {}
      OBVIOUS
    <2> HIDE DEF T
    <2> QED BY <2>1, FS_EmptySet
  <1>2. ASSUME NEW n \in Nat, n \in S PROVE n + 1 \in S
    <2> SUFFICES ASSUME n + 1 <= high PROVE IsFiniteSet(T(n + 1)) /\ Cardinality(T(n + 1)) = n + 1
      OBVIOUS
    <2>1. T(n + 1) = T(n) \cup {w[n + 1]}
      <3>1. 1 .. n + 1 = (1 .. n) \cup {n + 1}
        OBVIOUS
      <3> QED BY <3>1
    <2>2. w[n + 1] \notin T(n)
      <3>1. \A i \in 1 .. n : i \in 1 .. high /\ n + 1 \in 1 .. high /\ i < n + 1
        OBVIOUS
      <3> QED BY <3>1
    <2>3. IsFiniteSet(T(n)) /\ Cardinality(T(n)) = n
      BY <1>2
    <2> HIDE DEF T
    <2>4. PICK e : e = w[n + 1]
      OBVIOUS
    <2>5. IsFiniteSet(T(n) \cup {e}) /\ Cardinality(T(n) \cup {e}) = n + 1
      BY <2>2, <2>3, <2>4, FS_AddElement
    <2> QED BY <2>1, <2>4, <2>5
  <1> HIDE DEF S
  <1>3. \A n \in Nat : n \in S
    BY <1>1, <1>2, Induction
  <1>4. \A n \in 0 .. high : IsFiniteSet(T(n)) /\ Cardinality(T(n)) = n
    BY <1>3 DEF S
  <1> QED BY <1>4 DEF T

\* The order of the model is the order of an enumeration of the leaves.
LEMMA OrderIs ==
    ASSUME NEW t, NEW w \in Seq(Paths), Enumerates(t, w)
    PROVE  /\ IsFiniteSet(DOMAIN t.leaf) /\ Count(t) = Len(w)
           /\ Order(t) = [i \in 1 .. Len(w) |-> t.leaf[w[i]]]
  <1> DEFINE D == DOMAIN t.leaf
             ahead(p) == {q \in D : Before(q, p)}
  <1>1. Len(w) \in Nat /\ \A i \in 1 .. Len(w) : w[i] \in Paths
    OBVIOUS
  <1>2. /\ D = {w[i] : i \in 1 .. Len(w)}
        /\ \A i, j \in 1 .. Len(w) : i < j => Before(w[i], w[j])
    BY DEF Enumerates
  <1>3. \A i, j \in 1 .. Len(w) : i < j => w[i] # w[j] /\ ~Before(w[j], w[i])
    BY <1>1, <1>2, BeforeStrict
  <1>4. \A n \in 0 .. Len(w) : /\ IsFiniteSet({w[i] : i \in 1 .. n})
                               /\ Cardinality({w[i] : i \in 1 .. n}) = n
    <2>1. \A i, j \in 1 .. Len(w) : i < j => w[i] # w[j]
      BY <1>3
    <2> QED BY <1>1, <2>1, CountOfSequence, ZenonT(60)
  <1>5. IsFiniteSet(D) /\ Cardinality(D) = Len(w)
    <2>1. Len(w) \in 0 .. Len(w)
      BY <1>1
    <2> QED BY <1>2, <1>4, <2>1
  <1> HIDE DEF D
  <1>6. ASSUME NEW i \in 1 .. Len(w) PROVE Cardinality(ahead(w[i])) = i - 1
    <2>1. ahead(w[i]) = {w[j] : j \in 1 .. i - 1}
      <3>1. ASSUME NEW j \in 1 .. i - 1 PROVE w[j] \in ahead(w[i])
        <4>1. j \in 1 .. Len(w) /\ j < i
          BY <1>1
        <4> QED BY <1>2, <4>1
      <3>2. ASSUME NEW q \in ahead(w[i]) PROVE \E j \in 1 .. i - 1 : q = w[j]
        <4>1. PICK j \in 1 .. Len(w) : q = w[j]
          BY <1>2
        <4>2. Before(w[j], w[i])
          BY <3>2, <4>1
        <4>3. ~(i < j) /\ i # j
          BY <1>1, <1>3, <4>2, BeforeStrict
        <4>4. j \in 1 .. i - 1
          BY <1>1, <4>3
        <4> QED BY <4>1, <4>4
      <3> HIDE DEF ahead
      <3> QED BY <3>1, <3>2 DEF ahead
    <2>2. i - 1 \in 0 .. Len(w)
      BY <1>1
    <2> HIDE DEF ahead
    <2> QED BY <1>4, <2>1, <2>2
  <1>7. ASSUME NEW i \in 1 .. Len(w)
        PROVE  (CHOOSE p \in D : Cardinality(ahead(p)) = i - 1) = w[i]
    <2>1. w[i] \in D
      BY <1>2
    <2>2. ASSUME NEW p \in D, Cardinality(ahead(p)) = i - 1 PROVE p = w[i]
      <3>1. PICK j \in 1 .. Len(w) : p = w[j]
        BY <1>2
      <3>2. Cardinality(ahead(p)) = j - 1
        BY <1>6, <3>1
      <3> HIDE DEF ahead
      <3>3. i = j
        BY <2>2, <3>2
      <3> QED BY <3>1, <3>3
    <2>3. Cardinality(ahead(w[i])) = i - 1
      BY <1>6
    <2> HIDE DEF ahead
    <2> QED BY <2>1, <2>2, <2>3
  <1>8. Order(t) = [i \in 1 .. Len(w) |-> t.leaf[CHOOSE p \in D : Cardinality(ahead(p)) = i - 1]]
    BY <1>5 DEF Order, Count, D
  <1> HIDE DEF ahead
  <1>9. Order(t) = [i \in 1 .. Len(w) |-> t.leaf[w[i]]]
    BY <1>7, <1>8
  <1> QED BY <1>5, <1>9 DEF Count, D

\* Order, in one sentence: it lists the panes, each of them once.
LEMMA OrderFacts ==
    ASSUME NEW t, Marked(t), Ordered(t)
    PROVE  /\ Order(t) \in Seq(Ids) /\ Len(Order(t)) = Count(t) /\ Count(t) \in Nat /\ Count(t) > 0
           /\ IsFiniteSet(DOMAIN t.leaf)
           /\ Panes(t) = {Order(t)[i] : i \in 1 .. Count(t)}
           /\ \A i, j \in 1 .. Count(t) : Order(t)[i] = Order(t)[j] => i = j
  <1>1. PICK w \in Seq(Paths) : Len(w) > 0 /\ Enumerates(t, w)
    BY DEF Ordered
  <1>2. /\ IsFiniteSet(DOMAIN t.leaf) /\ Count(t) = Len(w)
        /\ Order(t) = [i \in 1 .. Len(w) |-> t.leaf[w[i]]]
    BY <1>1, OrderIs
  <1>3. /\ Len(w) \in Nat /\ \A i \in 1 .. Len(w) : w[i] \in Paths /\ w[i] \in DOMAIN t.leaf
    BY <1>1 DEF Enumerates
  <1>4. \A i \in 1 .. Len(w) : t.leaf[w[i]] \in Ids
    BY <1>3 DEF Marked
  <1>5. Order(t) \in Seq(Ids) /\ Len(Order(t)) = Len(w)
    BY <1>2, <1>3, <1>4
  <1>6. Panes(t) = {Order(t)[i] : i \in 1 .. Len(w)}
    <2>1. DOMAIN t.leaf = {w[i] : i \in 1 .. Len(w)}
      BY <1>1 DEF Enumerates
    <2>2. \A i \in 1 .. Len(w) : Order(t)[i] = t.leaf[w[i]]
      BY <1>2
    <2> HIDE <1>2
    <2> QED BY <2>1, <2>2 DEF Panes
  <1>7. ASSUME NEW i \in 1 .. Len(w), NEW j \in 1 .. Len(w), Order(t)[i] = Order(t)[j] PROVE i = j
    <2>1. t.leaf[w[i]] = t.leaf[w[j]]
      BY <1>2, <1>7
    <2>2. w[i] = w[j]
      BY <1>3, <2>1 DEF Marked
    <2>3. ~(i < j) /\ ~(j < i)
      BY <1>1, <1>3, <2>2, BeforeStrict DEF Enumerates
    <2> QED BY <2>3, <1>3
  <1> QED BY <1>1, <1>2, <1>3, <1>5, <1>6, <1>7

IsLayout(l) == l = [leaf |-> l.leaf, split |-> l.split, size |-> l.size,
                    active |-> l.active, zoomed |-> l.zoomed]

LEMMA MoveFacts ==
    ASSUME NEW l, IsLayout(l), Grown(l), Marked(l), Fitting(l),
           NEW p \in DOMAIN l.split, NEW delta \in Int,
           NEW k, k = MoveSeparator(l, p, delta)
    PROVE  /\ IsLayout(k) /\ Grown(k) /\ Marked(k) /\ Fitting(k) /\ SameShape(l, k)
           /\ k.leaf = l.leaf /\ k.size = l.size /\ k.active = l.active /\ k.zoomed = l.zoomed
  <1> DEFINE d == l.split[p].axis
             m == Minimum(l)
             extent == Rects(l)[p].size[d]
             first == FirstExtent(l, m, p, extent)
             low == m[p \o <<1>>][d]
             high == extent - Border - m[p \o <<2>>][d]
             moved == Clamp(first + delta, low, high)
  <1>1. /\ d \in Dimensions /\ p \in Nodes(l) /\ p \o <<1>> \in Nodes(l) /\ p \o <<2>> \in Nodes(l)
    BY SplitFacts DEF Grown, Nodes
  <1>2. extent \in Nat /\ extent >= m[p][d]
    <2>1. Box(Rects(l)[p]) /\ Rects(l)[p].size[d] >= m[p][d]
      BY <1>1, RectsFit
    <2> HIDE DEF d, m
    <2> QED BY <1>1, <2>1 DEF Box
  <1>3. first \in Nat
    BY <1>1, <1>2, FirstExtentFacts
  <1>4. /\ m[p][d] = low + 2 + m[p \o <<2>>][d]
        /\ low \in Nat /\ low >= 1 /\ m[p \o <<2>>][d] \in Nat /\ m[p \o <<2>>][d] >= 1
    BY <1>1, MinimumRules
  <1> HIDE DEF d, m, first, extent
  <1>5. high \in Int /\ low <= high /\ extent - Border \in Nat \ {0}
    BY <1>2, <1>4 DEF Border
  <1> HIDE DEF low, high
  <1>6. moved \in Nat
    <2>1. PICK n \in Int : n = first + delta
      BY <1>3
    <2>2. Clamp(n, low, high) \in Int /\ low <= Clamp(n, low, high)
      <3>1. low \in Int /\ high \in Int /\ low <= high
        BY <1>4, <1>5
      <3> QED BY <3>1, Clamped
    <2>3. moved \in Int /\ low <= moved
      BY <2>1, <2>2
    <2> HIDE DEF moved
    <2> QED BY <1>4, <2>3
  <1> HIDE DEF moved
  <1>7. k = IF moved = first THEN l
            ELSE [l EXCEPT !.split[p].share = <<moved, extent - Border>>]
    BY DEF MoveSeparator, moved, first, extent, d, m, low, high
  <1>8. CASE moved = first
    <2>1. k = l
      BY <1>7, <1>8
    <2> QED BY <2>1, SameTree
  <1>9. CASE moved # first
    <2> DEFINE part == [l.split[p] EXCEPT !.share = <<moved, extent - Border>>]
    <2>1. k = [l EXCEPT !.split = [l.split EXCEPT ![p] = part]]
      BY <1>7, <1>9
    <2>2. part \in [axis : Dimensions, share : Nat \X (Nat \ {0})] /\ part.axis = l.split[p].axis
      <3>1. l.split[p] \in [axis : Dimensions, share : Nat \X (Nat \ {0})]
        BY DEF Marked
      <3> QED BY <1>5, <1>6, <3>1
    <2> HIDE DEF part
    <2>3. /\ IsLayout(k) /\ k.leaf = l.leaf /\ k.size = l.size /\ k.active = l.active
          /\ k.zoomed = l.zoomed /\ k.split = [l.split EXCEPT ![p] = part]
      BY <2>1 DEF IsLayout
    <2>4. /\ DOMAIN k.split = DOMAIN l.split
          /\ \A q \in DOMAIN l.split : k.split[q].axis = l.split[q].axis
      BY <2>2, <2>3
    <2>5. Nodes(k) = Nodes(l)
      BY <2>3, <2>4 DEF Nodes
    <2>6. Grown(k)
      BY <2>3, <2>4, <2>5 DEF Grown
    <2>7. Marked(k)
      BY <2>2, <2>3 DEF Marked
    <2>8. SameShape(l, k)
      BY <2>3, <2>4 DEF SameShape
    <2>9. Fitting(k)
      BY <2>3, <2>6, <2>7, <2>8, SameFits DEF Fitting
    <2> QED BY <2>3, <2>6, <2>7, <2>8, <2>9
  <1> QED BY <1>8, <1>9

LEMMA AdjustFacts ==
    ASSUME NEW l, IsLayout(l), Grown(l), Marked(l), Fitting(l),
           NEW id \in Panes(l), NEW axis, NEW delta \in Int,
           NEW k, k = Adjust(l, id, axis, delta)
    PROVE  /\ IsLayout(k) /\ Grown(k) /\ Marked(k) /\ Fitting(k) /\ SameShape(l, k)
           /\ k.leaf = l.leaf /\ k.size = l.size /\ k.active = l.active /\ k.zoomed = l.zoomed
  <1> DEFINE path == PathOf(l, id)
             around == {p \in DOMAIN l.split : IsPrefix(p, path) /\ l.split[p].axis = axis}
             chosen == CHOOSE p \in around : \A q \in around : Len(q) <= Len(p)
  <1>1. k = IF around = {} THEN l ELSE MoveSeparator(l, chosen, delta)
    BY DEF Adjust
  <1> HIDE DEF around
  <1>2. CASE around = {}
    <2>1. k = l
      BY <1>1, <1>2
    <2> QED BY <2>1, SameTree
  <1>3. CASE around # {}
    <2> DEFINE lengths == {Len(p) : p \in around}
    <2>1. PICK high \in Nat : \A p \in Nodes(l) : Len(p) <= high
      BY DEF Grown
    <2>2. around \subseteq DOMAIN l.split /\ around \subseteq Nodes(l)
      BY DEF around, Nodes
    <2>3. \A p \in around : Len(p) \in Nat /\ Len(p) <= high
      BY <2>1, <2>2, NodeFacts
    <2>4. lengths \subseteq Nat /\ lengths # {} /\ \A n \in lengths : n <= high
      BY <1>3, <2>3
    <2> HIDE DEF lengths
    <2>5. PICK n \in lengths : \A i \in lengths : i <= n
      BY <2>4, Greatest
    <2>6. \E p \in around : \A q \in around : Len(q) <= Len(p)
      BY <2>5 DEF lengths
    <2>7. chosen \in around
      BY <2>6
    <2>8. chosen \in DOMAIN l.split
      BY <2>2, <2>7
    <2> HIDE DEF chosen
    <2>9. k = MoveSeparator(l, chosen, delta)
      BY <1>1, <1>3
    <2> QED BY <2>8, <2>9, MoveFacts
  <1> QED BY <1>2, <1>3

LEMMA ExchangeFacts ==
    ASSUME NEW l, IsLayout(l), Grown(l), Marked(l), Fitting(l),
           NEW a \in Panes(l), NEW b \in Panes(l), NEW k, k = Exchange(l, a, b)
    PROVE  /\ IsLayout(k) /\ Grown(k) /\ Marked(k) /\ Fitting(k)
           /\ DOMAIN k.leaf = DOMAIN l.leaf /\ k.split = l.split /\ Panes(k) = Panes(l)
           /\ k.size = l.size /\ k.active = l.active /\ k.zoomed = l.zoomed
           /\ \A p \in DOMAIN l.leaf :
                k.leaf[p] = IF l.leaf[p] = a THEN b ELSE IF l.leaf[p] = b THEN a ELSE l.leaf[p]
  <1> DEFINE new == [p \in DOMAIN l.leaf |->
                       CASE l.leaf[p] = a -> b [] l.leaf[p] = b -> a [] OTHER -> l.leaf[p]]
  <1>1. k = [l EXCEPT !.leaf = new]
    BY DEF Exchange
  <1>2. ASSUME NEW p \in DOMAIN l.leaf
        PROVE  new[p] = IF l.leaf[p] = a THEN b ELSE IF l.leaf[p] = b THEN a ELSE l.leaf[p]
    OBVIOUS
  <1>3. DOMAIN new = DOMAIN l.leaf /\ new = [p \in DOMAIN l.leaf |-> new[p]]
    OBVIOUS
  <1> HIDE DEF new
  <1>4. /\ IsLayout(k) /\ k.leaf = new /\ k.split = l.split /\ k.size = l.size
        /\ k.active = l.active /\ k.zoomed = l.zoomed
    BY <1>1 DEF IsLayout
  <1>5. DOMAIN k.leaf = DOMAIN l.leaf /\ Nodes(k) = Nodes(l)
    BY <1>3, <1>4 DEF Nodes
  <1>6. PICK x \in DOMAIN l.leaf : l.leaf[x] = a
    BY DEF Panes
  <1>7. PICK y \in DOMAIN l.leaf : l.leaf[y] = b
    BY DEF Panes
  <1>8. new[x] = b /\ new[y] = a
    BY <1>2, <1>6, <1>7
  <1>9. Panes(k) = Panes(l)
    <2>1. ASSUME NEW p \in DOMAIN l.leaf PROVE new[p] \in Panes(l)
      BY <1>2, <1>6, <1>7 DEF Panes
    <2>2. ASSUME NEW p \in DOMAIN l.leaf PROVE \E q \in DOMAIN l.leaf : new[q] = l.leaf[p]
      <3>1. CASE l.leaf[p] = a
        BY <1>8, <3>1
      <3>2. CASE l.leaf[p] = b
        BY <1>8, <3>2
      <3>3. CASE l.leaf[p] # a /\ l.leaf[p] # b
        BY <1>2, <3>3
      <3> QED BY <3>1, <3>2, <3>3
    <2> QED BY <1>4, <1>5, <2>1, <2>2 DEF Panes
  <1>10. Grown(k)
    BY <1>4, <1>5 DEF Grown
  <1>11. Marked(k)
    <2>1. \A p \in DOMAIN l.leaf : new[p] \in Ids
      BY <1>2, <1>6, <1>7 DEF Marked
    <2>2. k.leaf \in [DOMAIN k.leaf -> Ids]
      BY <1>3, <1>4, <1>5, <2>1
    <2>3. \A p, q \in DOMAIN l.leaf : l.leaf[p] = l.leaf[q] => p = q
      BY DEF Marked
    <2>4. ASSUME NEW p \in DOMAIN l.leaf, NEW q \in DOMAIN l.leaf, new[p] = new[q] PROVE p = q
      BY <1>2, <2>3, <2>4
    <2> QED BY <1>4, <1>5, <2>2, <2>4 DEF Marked
  <1>12. SameShape(l, k)
    BY <1>4, <1>5 DEF SameShape
  <1>13. Fitting(k)
    BY <1>4, <1>10, <1>11, <1>12, SameFits DEF Fitting
  <1> QED BY <1>2, <1>4, <1>5, <1>9, <1>10, <1>11, <1>13

-----------------------------------------------------------------------------
(* Sequences that gain or lose an element.                                 *)

\* Everything from the place of the new element on moves up by one.
LEMMA InsertAtProperties ==
    ASSUME NEW S, NEW s \in Seq(S), NEW i \in 1 .. Len(s) + 1, NEW e \in S
    PROVE  /\ InsertAt(s, i, e) \in Seq(S)
           /\ Len(InsertAt(s, i, e)) = Len(s) + 1
           /\ \A k \in 1 .. Len(s) + 1 :
                InsertAt(s, i, e)[k] = IF k < i THEN s[k] ELSE IF k = i THEN e ELSE s[k - 1]
  <1> DEFINE front == SubSeq(s, 1, i - 1)
             back  == SubSeq(s, i, Len(s))
             head  == front \o <<e>>
  <1>0. Len(s) \in Nat /\ i \in Int /\ \A k \in 1 .. Len(s) : s[k] \in S
    OBVIOUS
  <1>1. /\ front \in Seq(S) /\ Len(front) = i - 1
        /\ \A k \in 1 .. i - 1 : front[k] = s[k]
    <2>1. \A k \in 1 .. i - 1 : s[k] \in S
      BY <1>0
    <2> HIDE DEF front
    <2>2. /\ front \in Seq(S) /\ Len(front) = IF 1 <= i - 1 THEN i - 1 - 1 + 1 ELSE 0
          /\ \A k \in 1 .. i - 1 - 1 + 1 : front[k] = s[1 + k - 1]
      BY <1>0, <2>1, SubSeqProperties DEF front
    <2> QED BY <1>0, <2>2
  <1>2. /\ back \in Seq(S) /\ Len(back) = Len(s) - i + 1
        /\ \A k \in 1 .. Len(s) - i + 1 : back[k] = s[i + k - 1]
    <2>1. \A k \in i .. Len(s) : s[k] \in S
      BY <1>0
    <2> HIDE DEF back
    <2>2. /\ back \in Seq(S) /\ Len(back) = IF i <= Len(s) THEN Len(s) - i + 1 ELSE 0
          /\ \A k \in 1 .. Len(s) - i + 1 : back[k] = s[i + k - 1]
      BY <1>0, <2>1, SubSeqProperties DEF back
    <2> QED BY <1>0, <2>2
  <1> HIDE DEF front, back
  <1>3. /\ head \in Seq(S) /\ Len(head) = i
        /\ \A k \in 1 .. i : head[k] = IF k < i THEN s[k] ELSE e
    <2>1. <<e>> \in Seq(S) /\ Len(<<e>>) = 1 /\ <<e>>[1] = e
      OBVIOUS
    <2>2. /\ head \in Seq(S) /\ Len(head) = Len(front) + Len(<<e>>)
          /\ \A k \in 1 .. Len(front) + Len(<<e>>) :
               head[k] = IF k <= Len(front) THEN front[k] ELSE <<e>>[k - Len(front)]
      BY <1>1, <2>1, ConcatProperties
    <2> QED BY <1>0, <1>1, <2>1, <2>2
  <1> HIDE DEF head
  <1>4. /\ head \o back \in Seq(S) /\ Len(head \o back) = Len(head) + Len(back)
        /\ \A k \in 1 .. Len(head) + Len(back) :
             (head \o back)[k] = IF k <= Len(head) THEN head[k] ELSE back[k - Len(head)]
    BY <1>2, <1>3, ConcatProperties
  <1>5. InsertAt(s, i, e) = head \o back
    BY DEF InsertAt, head, front, back
  <1> QED BY <1>0, <1>2, <1>3, <1>4, <1>5

\* Everything behind the place that is left moves down by one.
LEMMA RemoveAtProperties ==
    ASSUME NEW S, NEW s \in Seq(S), NEW i \in 1 .. Len(s)
    PROVE  /\ RemoveAt(s, i) \in Seq(S)
           /\ Len(RemoveAt(s, i)) = Len(s) - 1
           /\ \A k \in 1 .. Len(s) - 1 :
                RemoveAt(s, i)[k] = IF k < i THEN s[k] ELSE s[k + 1]
  <1> DEFINE front == SubSeq(s, 1, i - 1)
             back  == SubSeq(s, i + 1, Len(s))
  <1>0. Len(s) \in Nat /\ i \in Int /\ \A k \in 1 .. Len(s) : s[k] \in S
    OBVIOUS
  <1>1. /\ front \in Seq(S) /\ Len(front) = i - 1
        /\ \A k \in 1 .. i - 1 : front[k] = s[k]
    <2>1. \A k \in 1 .. i - 1 : s[k] \in S
      BY <1>0
    <2> HIDE DEF front
    <2>2. /\ front \in Seq(S) /\ Len(front) = IF 1 <= i - 1 THEN i - 1 - 1 + 1 ELSE 0
          /\ \A k \in 1 .. i - 1 - 1 + 1 : front[k] = s[1 + k - 1]
      BY <1>0, <2>1, SubSeqProperties DEF front
    <2> QED BY <1>0, <2>2
  <1>2. /\ back \in Seq(S) /\ Len(back) = Len(s) - i
        /\ \A k \in 1 .. Len(s) - i : back[k] = s[i + k]
    <2>1. \A k \in i + 1 .. Len(s) : s[k] \in S
      BY <1>0
    <2> HIDE DEF back
    <2>2. /\ back \in Seq(S)
          /\ Len(back) = IF i + 1 <= Len(s) THEN Len(s) - (i + 1) + 1 ELSE 0
          /\ \A k \in 1 .. Len(s) - (i + 1) + 1 : back[k] = s[i + 1 + k - 1]
      BY <1>0, <2>1, SubSeqProperties DEF back
    <2> QED BY <1>0, <2>2
  <1> HIDE DEF front, back
  <1>3. /\ front \o back \in Seq(S) /\ Len(front \o back) = Len(front) + Len(back)
        /\ \A k \in 1 .. Len(front) + Len(back) :
             (front \o back)[k] = IF k <= Len(front) THEN front[k] ELSE back[k - Len(front)]
    BY <1>1, <1>2, ConcatProperties
  <1>4. RemoveAt(s, i) = front \o back
    BY DEF RemoveAt, front, back
  <1>5. ASSUME NEW k \in 1 .. Len(s) - 1
        PROVE  (front \o back)[k] = IF k < i THEN s[k] ELSE s[k + 1]
    <2>1. CASE k < i
      BY <1>0, <1>1, <1>2, <1>3, <2>1
    <2>2. CASE ~(k < i)
      <3>1. k - Len(front) \in 1 .. Len(s) - i /\ i + (k - Len(front)) = k + 1
        BY <1>0, <1>1, <2>2
      <3>2. (front \o back)[k] = back[k - Len(front)]
        BY <1>0, <1>1, <1>2, <1>3, <2>2
      <3> QED BY <1>2, <2>2, <3>1, <3>2
    <2> QED BY <2>1, <2>2
  <1>6. Len(front) + Len(back) = Len(s) - 1
    BY <1>0, <1>1, <1>2
  <1> QED BY <1>3, <1>4, <1>5, <1>6

\* A split puts the new pane behind the one it divides.
SplitWay(w, i, p) ==
    [k \in 1 .. Len(w) + 1 |->
       IF k < i THEN w[k] ELSE IF k = i THEN p \o <<1>> ELSE IF k = i + 1 THEN p \o <<2>> ELSE w[k - 1]]

LEMMA SplitOrder ==
    ASSUME NEW t, Grown(t), Marked(t), NEW p \in DOMAIN t.leaf, NEW axis \in Dimensions,
           NEW id \in Ids \ Panes(t), NEW k, IsSplit(t, p, axis, id, k),
           NEW w \in Seq(Paths), Enumerates(t, w), NEW i \in 1 .. Len(w), w[i] = p
    PROVE  /\ SplitWay(w, i, p) \in Seq(Paths) /\ Len(SplitWay(w, i, p)) = Len(w) + 1
           /\ Enumerates(k, SplitWay(w, i, p))
  <1> DEFINE a == p \o <<1>>
             b == p \o <<2>>
             v == SplitWay(w, i, p)
  <1>1. Len(w) \in Nat /\ \A n \in 1 .. Len(w) : w[n] \in Paths
    OBVIOUS
  <1>2. p \in Paths /\ a \in Paths /\ b \in Paths /\ Above(p, a) /\ Above(p, b)
    BY <1>1, Extend
  <1>3. /\ v \in Seq(Paths) /\ Len(v) = Len(w) + 1
        /\ \A n \in 1 .. Len(w) + 1 : v[n] = IF n < i THEN w[n] ELSE IF n = i THEN a
                                             ELSE IF n = i + 1 THEN b ELSE w[n - 1]
    <2>1. \A n \in 1 .. Len(w) + 1 : v[n] = IF n < i THEN w[n] ELSE IF n = i THEN a
                                            ELSE IF n = i + 1 THEN b ELSE w[n - 1]
      BY DEF SplitWay
    <2>2. \A n \in 1 .. Len(w) + 1 : v[n] \in Paths
      <3> TAKE n \in 1 .. Len(w) + 1
      <3>1. n < i => n \in 1 .. Len(w)
        BY <1>1
      <3>2. n > i + 1 => n - 1 \in 1 .. Len(w)
        BY <1>1
      <3>3. n < i \/ n = i \/ n = i + 1 \/ n > i + 1
        BY <1>1
      <3> HIDE DEF a, b, v
      <3> QED BY <1>1, <1>2, <2>1, <3>1, <3>2, <3>3
    <2>3. v = [n \in 1 .. Len(w) + 1 |-> v[n]]
      BY DEF SplitWay
    <2> HIDE DEF v, a, b
    <2>4. v \in [1 .. Len(w) + 1 -> Paths]
      BY <2>2, <2>3
    <2>5. v \in Seq(Paths) /\ Len(v) = Len(w) + 1
      BY <1>1, <2>4
    <2> QED BY <2>1, <2>5
  <1>4. DOMAIN k.leaf = (DOMAIN t.leaf \ {p}) \cup {a, b}
    BY SplitTree
  <1>5. /\ DOMAIN t.leaf = {w[n] : n \in 1 .. Len(w)}
        /\ \A m, n \in 1 .. Len(w) : m < n => Before(w[m], w[n])
    BY DEF Enumerates
  <1>6. Before(a, b)
    <2>1. Above(p \o <<1>>, a) /\ Above(p \o <<2>>, b)
      BY <1>2, PathFacts DEF Above
    <2> QED BY <1>2, <2>1, BeforeParts DEF Parts
  <1> HIDE DEF a, b, v
  <1>7. \A n \in 1 .. Len(w) : n # i => w[n] # p
    <2> TAKE n \in 1 .. Len(w)
    <2>1. n < i \/ i < n \/ n = i
      BY <1>1
    <2> QED BY <1>1, <1>5, <2>1, BeforeStrict
  <1>8. DOMAIN k.leaf = {v[n] : n \in 1 .. Len(v)}
    <2>1. ASSUME NEW n \in 1 .. Len(v) PROVE v[n] \in DOMAIN k.leaf
      <3>1. CASE n < i
        <4>1. n \in 1 .. Len(w) /\ n # i /\ n \in 1 .. Len(w) + 1
          BY <1>1, <3>1
        <4> QED BY <1>3, <1>4, <1>5, <1>7, <3>1, <4>1
      <3>2. CASE n = i \/ n = i + 1
        <4>1. v[n] = a \/ v[n] = b
          BY <1>1, <1>3, <3>2
        <4> QED BY <1>4, <4>1
      <3>3. CASE n > i + 1
        <4>1. n - 1 \in 1 .. Len(w) /\ n - 1 # i /\ n \in 1 .. Len(w) + 1 /\ ~(n < i) /\ n # i /\ n # i + 1
          BY <1>1, <1>3, <3>3
        <4>2. v[n] = w[n - 1]
          BY <1>3, <4>1
        <4> QED BY <1>4, <1>5, <1>7, <4>1, <4>2
      <3>4. n < i \/ n = i \/ n = i + 1 \/ n > i + 1
        BY <1>1, <1>3
      <3> QED BY <3>1, <3>2, <3>3, <3>4
    <2>2. ASSUME NEW q \in DOMAIN k.leaf PROVE \E n \in 1 .. Len(v) : q = v[n]
      <3>1. CASE q = a
        <4>1. i \in 1 .. Len(v) /\ i \in 1 .. Len(w) + 1 /\ ~(i < i)
          BY <1>1, <1>3
        <4> QED BY <1>3, <3>1, <4>1
      <3>2. CASE q = b
        <4>1. i + 1 \in 1 .. Len(v) /\ i + 1 \in 1 .. Len(w) + 1 /\ ~(i + 1 < i) /\ i + 1 # i
          BY <1>1, <1>3
        <4>2. v[i + 1] = b
          BY <1>3, <4>1
        <4> QED BY <3>2, <4>1, <4>2
      <3>3. CASE q \in DOMAIN t.leaf \ {p}
        <4>1. PICK m \in 1 .. Len(w) : q = w[m]
          BY <1>5, <3>3
        <4>2. m # i
          BY <3>3, <4>1
        <4>3. CASE m < i
          <5>1. m \in 1 .. Len(v) /\ m \in 1 .. Len(w) + 1
            BY <1>1, <1>3
          <5> QED BY <1>3, <4>1, <4>3, <5>1
        <4>4. CASE m > i
          <5>1. PICK n \in 1 .. Len(w) + 1 : n = m + 1
            BY <1>1
          <5>2. ~(n < i) /\ n # i /\ n # i + 1 /\ n - 1 = m /\ n \in 1 .. Len(v)
            BY <1>1, <1>3, <4>4, <5>1
          <5>3. v[n] = w[m]
            BY <1>3, <5>2
          <5> QED BY <4>1, <5>2, <5>3
        <4>5. m < i \/ m > i
          BY <1>1, <4>2
        <4> QED BY <4>3, <4>4, <4>5
      <3> QED BY <1>4, <3>1, <3>2, <3>3
    <2> QED BY <2>1, <2>2
  <1>9. \A n \in 1 .. Len(w), x \in {a, b} :
          (n < i => Before(w[n], x)) /\ (i < n => Before(x, w[n]))
    <2> TAKE n \in 1 .. Len(w), x \in {a, b}
    <2>1. x \in Paths /\ Above(p, x) /\ w[n] \in Paths
      BY <1>1, <1>2
    <2>2. (n < i => Before(w[n], p)) /\ (i < n => Before(p, w[n]))
      BY <1>5
    <2> QED BY <1>2, <2>1, <2>2, BeforeBelow
  <1>10. ASSUME NEW m \in 1 .. Len(v), NEW n \in 1 .. Len(v), m < n PROVE Before(v[m], v[n])
    <2>1. m \in 1 .. Len(w) + 1 /\ n \in 1 .. Len(w) + 1
      BY <1>3
    <2>2. CASE n < i
      <3>1. m \in 1 .. Len(w) /\ n \in 1 .. Len(w) /\ m < i
        BY <1>1, <1>10, <2>1, <2>2
      <3> QED BY <1>3, <1>5, <1>10, <2>1, <2>2, <3>1
    <2>3. CASE m < i /\ (n = i \/ n = i + 1)
      <3>1. m \in 1 .. Len(w) /\ v[m] = w[m] /\ v[n] \in {a, b}
        BY <1>1, <1>3, <2>1, <2>3
      <3> QED BY <1>9, <2>3, <3>1
    <2>4. CASE m < i /\ n > i + 1
      <3>1. /\ m \in 1 .. Len(w) /\ v[m] = w[m] /\ n - 1 \in 1 .. Len(w) /\ v[n] = w[n - 1]
            /\ m < n - 1
        BY <1>1, <1>3, <2>1, <2>4
      <3> QED BY <1>5, <3>1
    <2>5. CASE m = i /\ n = i + 1
      <3>1. v[m] = a /\ v[n] = b
        BY <1>1, <1>3, <2>1, <2>5
      <3> QED BY <1>6, <3>1
    <2>6. CASE (m = i \/ m = i + 1) /\ n > i + 1
      <3>1. v[m] \in {a, b} /\ n - 1 \in 1 .. Len(w) /\ v[n] = w[n - 1] /\ i < n - 1
        BY <1>1, <1>3, <2>1, <2>6
      <3> QED BY <1>9, <3>1
    <2>7. CASE m > i + 1
      <3>1. /\ m - 1 \in 1 .. Len(w) /\ v[m] = w[m - 1] /\ n - 1 \in 1 .. Len(w) /\ v[n] = w[n - 1]
            /\ m - 1 < n - 1
        BY <1>1, <1>3, <1>10, <2>1, <2>7
      <3> QED BY <1>5, <3>1
    <2>8. \/ n < i \/ (m < i /\ (n = i \/ n = i + 1)) \/ (m < i /\ n > i + 1)
          \/ (m = i /\ n = i + 1) \/ ((m = i \/ m = i + 1) /\ n > i + 1) \/ m > i + 1
      BY <1>1, <1>10, <2>1
    <2> QED BY <2>2, <2>3, <2>4, <2>5, <2>6, <2>7, <2>8
  <1>11. Enumerates(k, v)
    BY <1>8, <1>10 DEF Enumerates
  <1> QED BY <1>3, <1>11 DEF v

\* A removal leaves the others in their order.
RemovalWay(w, i, p) == [n \in 1 .. Len(w) - 1 |-> Up(p, IF n < i THEN w[n] ELSE w[n + 1])]

LEMMA BeforeUp ==
    ASSUME NEW t, Grown(t), NEW p \in DOMAIN t.leaf, p # <<>>,
           NEW x \in Kept(t, p), NEW y \in Kept(t, p), Before(x, y)
    PROVE  Before(Up(p, x), Up(p, y))
  <1> DEFINE f == Front(p)
             s == SiblingOf(p)
  <1>1. f \in Paths /\ s \in Paths /\ x \in Paths /\ y \in Paths
    BY Family, NodeFacts DEF Kept
  <1>2. /\ Up(p, x) \in Paths /\ Up(p, y) \in Paths
        /\ Above(s, x) => Above(f, Up(p, x))
        /\ Above(s, y) => Above(f, Up(p, y))
        /\ ~Above(s, x) => Up(p, x) = x /\ ~Above(f, x)
        /\ ~Above(s, y) => Up(p, y) = y /\ ~Above(f, y)
    BY UpFacts
  <1>3. Above(f, s)
    BY Family
  <1> HIDE DEF f, s
  <1>4. CASE Above(s, x) /\ Above(s, y)
    <2>1. PICK u \in Paths : x = s \o u
      BY <1>1, <1>4, Rest
    <2>2. PICK v \in Paths : y = s \o v
      BY <1>1, <1>4, Rest
    <2>3. Before(f \o u, f \o v)
      BY <1>1, <2>1, <2>2, BeforeMoved
    <2>4. Up(p, x) = f \o u
      BY <1>1, <2>1, MovedRest, ZenonT(60) DEF Up, f, s
    <2>5. Up(p, y) = f \o v
      BY <1>1, <2>2, MovedRest, ZenonT(60) DEF Up, f, s
    <2> QED BY <2>3, <2>4, <2>5
  <1>5. CASE Above(s, x) /\ ~Above(s, y)
    <2>1. Above(f, x)
      BY <1>1, <1>3, <1>5, AboveTransitive
    <2>2. Before(f, y)
      BY <1>1, <1>2, <1>5, <2>1, BeforeOutside
    <2> QED BY <1>1, <1>2, <1>5, <2>2, BeforeBelow
  <1>6. CASE ~Above(s, x) /\ Above(s, y)
    <2>1. Above(f, y)
      BY <1>1, <1>3, <1>6, AboveTransitive
    <2>2. Before(x, f)
      BY <1>1, <1>2, <1>6, <2>1, BeforeOutside
    <2> QED BY <1>1, <1>2, <1>6, <2>2, BeforeBelow
  <1>7. CASE ~Above(s, x) /\ ~Above(s, y)
    BY <1>2, <1>7
  <1> QED BY <1>4, <1>5, <1>6, <1>7

LEMMA RemovalOrder ==
    ASSUME NEW t, Grown(t), Marked(t), NEW p \in DOMAIN t.leaf, p # <<>>, NEW k, IsRemoval(t, p, k),
           NEW w \in Seq(Paths), Enumerates(t, w), NEW i \in 1 .. Len(w), w[i] = p
    PROVE  /\ RemovalWay(w, i, p) \in Seq(Paths) /\ Len(RemovalWay(w, i, p)) = Len(w) - 1
           /\ Enumerates(k, RemovalWay(w, i, p))
           /\ \A n \in 1 .. Len(w) - 1 :
                k.leaf[RemovalWay(w, i, p)[n]] = t.leaf[IF n < i THEN w[n] ELSE w[n + 1]]
  <1> DEFINE v == RemovalWay(w, i, p)
             o(n) == IF n < i THEN w[n] ELSE w[n + 1]
  <1>1. Len(w) \in Nat /\ Len(w) - 1 \in Nat /\ \A n \in 1 .. Len(w) : w[n] \in Paths
    OBVIOUS
  <1>2. /\ DOMAIN t.leaf = {w[n] : n \in 1 .. Len(w)}
        /\ \A m, n \in 1 .. Len(w) : m < n => Before(w[m], w[n])
    BY DEF Enumerates
  <1>3. \A n \in 1 .. Len(w) : n # i => w[n] # p
    <2> TAKE n \in 1 .. Len(w)
    <2>1. n < i \/ i < n \/ n = i
      BY <1>1
    <2> QED BY <1>1, <1>2, <2>1, BeforeStrict
  <1>4. /\ DOMAIN t.leaf \ {p} \subseteq Kept(t, p)
        /\ DOMAIN k.leaf = {Up(p, x) : x \in DOMAIN t.leaf \ {p}}
        /\ \A x \in DOMAIN t.leaf \ {p} : k.leaf[Up(p, x)] = t.leaf[x]
    BY RemovalMap
  <1>5. \A x \in Kept(t, p) : Up(p, x) \in Paths
    BY UpFacts
  <1>6. ASSUME NEW n \in 1 .. Len(w) - 1
        PROVE  o(n) \in DOMAIN t.leaf \ {p} /\ o(n) \in Kept(t, p)
    <2>1. CASE n < i
      <3>1. n \in 1 .. Len(w) /\ n # i
        BY <1>1, <2>1
      <3> QED BY <1>2, <1>3, <1>4, <2>1, <3>1
    <2>2. CASE ~(n < i)
      <3>1. n + 1 \in 1 .. Len(w) /\ n + 1 # i
        BY <1>1, <2>2
      <3> QED BY <1>2, <1>3, <1>4, <2>2, <3>1
    <2> QED BY <2>1, <2>2
  <1>7. /\ \A n \in 1 .. Len(w) - 1 : v[n] = Up(p, o(n))
        /\ v = [n \in 1 .. Len(w) - 1 |-> v[n]]
    BY DEF RemovalWay
  <1> HIDE DEF v, o
  <1>8. v \in Seq(Paths) /\ Len(v) = Len(w) - 1
    <2>1. \A n \in 1 .. Len(w) - 1 : v[n] \in Paths
      BY <1>5, <1>6, <1>7
    <2>2. v \in [1 .. Len(w) - 1 -> Paths]
      BY <1>7, <2>1
    <2> QED BY <1>1, <2>2
  <1>9. DOMAIN k.leaf = {v[n] : n \in 1 .. Len(v)}
    <2>1. ASSUME NEW n \in 1 .. Len(v) PROVE v[n] \in DOMAIN k.leaf
      BY <1>4, <1>6, <1>7, <1>8
    <2>2. ASSUME NEW q \in DOMAIN k.leaf PROVE \E n \in 1 .. Len(v) : q = v[n]
      <3>1. PICK x \in DOMAIN t.leaf \ {p} : q = Up(p, x)
        BY <1>4
      <3>2. PICK m \in 1 .. Len(w) : x = w[m]
        BY <1>2
      <3>3. m # i
        BY <3>1, <3>2
      <3>4. CASE m < i
        <4>1. m \in 1 .. Len(w) - 1 /\ m \in 1 .. Len(v) /\ o(m) = x
          BY <1>1, <1>8, <3>2, <3>4 DEF o
        <4> QED BY <1>7, <3>1, <4>1
      <3>5. CASE m > i
        <4>1. PICK n \in 1 .. Len(w) - 1 : m = n + 1
          <5>1. m - 1 \in 1 .. Len(w) - 1 /\ m = m - 1 + 1
            BY <1>1, <3>5
          <5> QED BY <5>1
        <4>2. n \in 1 .. Len(v) /\ o(n) = x
          BY <1>1, <1>8, <3>2, <3>5, <4>1 DEF o
        <4> QED BY <1>7, <3>1, <4>2
      <3>6. m < i \/ m > i
        BY <1>1, <3>3
      <3> QED BY <3>4, <3>5, <3>6
    <2> QED BY <2>1, <2>2
  <1>10. ASSUME NEW m \in 1 .. Len(v), NEW n \in 1 .. Len(v), m < n PROVE Before(v[m], v[n])
    <2>1. m \in 1 .. Len(w) - 1 /\ n \in 1 .. Len(w) - 1
      BY <1>8
    <2>2. Before(o(m), o(n))
      <3>1. CASE n < i
        <4>1. m < i /\ m \in 1 .. Len(w) /\ n \in 1 .. Len(w)
          BY <1>1, <1>10, <2>1, <3>1
        <4> QED BY <1>2, <1>10, <3>1, <4>1 DEF o
      <3>2. CASE m < i /\ ~(n < i)
        <4>1. m \in 1 .. Len(w) /\ n + 1 \in 1 .. Len(w) /\ m < n + 1
          BY <1>1, <1>10, <2>1
        <4> QED BY <1>2, <3>2, <4>1 DEF o
      <3>3. CASE ~(m < i)
        <4>1. /\ m + 1 \in 1 .. Len(w) /\ n + 1 \in 1 .. Len(w) /\ m + 1 < n + 1 /\ ~(n < i)
          BY <1>1, <1>10, <2>1, <3>3
        <4> QED BY <1>2, <3>3, <4>1 DEF o
      <3> QED BY <3>1, <3>2, <3>3
    <2> QED BY <1>6, <1>7, <2>1, <2>2, BeforeUp
  <1>11. Enumerates(k, v)
    BY <1>9, <1>10 DEF Enumerates
  <1>12. \A n \in 1 .. Len(w) - 1 : k.leaf[v[n]] = t.leaf[o(n)]
    BY <1>4, <1>6, <1>7
  <1> QED BY <1>8, <1>11, <1>12 DEF v, o

\* A root that is a leaf is the whole tree.
LEMMA RootAlone ==
    ASSUME NEW t, Grown(t), <<>> \in DOMAIN t.leaf
    PROVE  DOMAIN t.leaf = {<<>>}
  <1>1. ASSUME NEW q \in DOMAIN t.leaf, q # <<>> PROVE FALSE
    <2>1. q \in Nodes(t) /\ <<>> \in Paths
      BY DEF Grown, Nodes
    <2>2. Above(<<>>, q)
      <3>1. Len(q) \in Nat /\ Len(<<>>) = 0
        BY <2>1, NodeFacts
      <3> QED BY <3>1 DEF Above
    <2>3. <<>> \in DOMAIN t.split
      BY <1>1, <2>1, <2>2, Ancestor
    <2> QED BY <2>3 DEF Grown
  <1> QED BY <1>1

-----------------------------------------------------------------------------
(* Whole layouts, and what the operations make of them.                    *)

Whole(l) ==
    /\ IsLayout(l) /\ Grown(l) /\ Marked(l) /\ Fitting(l) /\ Ordered(l)
    /\ l.size \in Sizes /\ l.active \in Panes(l) /\ l.zoomed \in BOOLEAN
    /\ Count(l) <= MaxPanes /\ (l.zoomed => Count(l) > 1)

\* What a layout has become when one pane has left it ...
Lost(l, id, k) ==
    /\ Whole(k) /\ Panes(k) = Panes(l) \ {id} /\ Count(k) = Count(l) - 1
    /\ \E i \in 1 .. Len(Order(l)) :
         /\ Order(l)[i] = id /\ Order(k) = RemoveAt(Order(l), i)
         /\ k.active = IF l.active = id
                       THEN (IF i = Len(Order(l)) THEN Order(l)[i - 1] ELSE Order(l)[i + 1])
                       ELSE l.active

\* ... when one has entered it, behind another ...
Gained(l, id, k) ==
    /\ Whole(k) /\ Panes(k) = Panes(l) \cup {id} /\ Count(k) = Count(l) + 1 /\ k.active = id
    /\ \E i \in 1 .. Len(Order(l)) : Order(k) = InsertAt(Order(l), i + 1, id)

\* ... and when it has taken over the tree of another.
Replaced(b, id, size, k) ==
    /\ Whole(k) /\ Panes(k) = Panes(b) /\ Order(k) = Order(b) /\ Count(k) = Count(b)
    /\ k.active = id /\ k.size = size

LEMMA SameOrder ==
    ASSUME NEW a, NEW b, a.leaf = b.leaf, Ordered(a)
    PROVE  Ordered(b) /\ Order(b) = Order(a)
  <1>1. PICK w \in Seq(Paths) : Len(w) > 0 /\ Enumerates(a, w)
    BY DEF Ordered
  <1>2. Enumerates(b, w)
    BY <1>1 DEF Enumerates
  <1>3. Order(a) = [i \in 1 .. Len(w) |-> a.leaf[w[i]]]
    BY <1>1, OrderIs
  <1>4. Order(b) = [i \in 1 .. Len(w) |-> b.leaf[w[i]]]
    BY <1>2, OrderIs
  <1> QED BY <1>1, <1>2, <1>3, <1>4 DEF Ordered

\* One root, as large as the canvas.
LEMMA SingleWhole ==
    ASSUME LayoutAssumption, NEW size \in Sizes, NEW id \in Ids, NEW l, l = Single(size, id)
    PROVE  Whole(l) /\ Order(l) = <<id>> /\ l.active = id
  <1>1. /\ IsLayout(l) /\ l.leaf = [p \in {<<>>} |-> id] /\ l.split = <<>> /\ l.size = size
        /\ l.active = id /\ l.zoomed = FALSE
    BY DEF Single, IsLayout
  <1>2. DOMAIN l.leaf = {<<>>} /\ DOMAIN l.split = {} /\ Nodes(l) = {<<>>} /\ l.leaf[<<>>] = id
    BY <1>1 DEF Nodes
  <1>3. <<>> \in Paths /\ Len(<<>>) = 0
    BY DEF Paths
  <1>4. Grown(l)
    <2>1. \E high \in Nat : \A p \in Nodes(l) : Len(p) <= high
      BY <1>2, <1>3
    <2> QED BY <1>2, <1>3, <2>1 DEF Grown
  <1>5. Panes(l) = {id}
    BY <1>2 DEF Panes
  <1>6. Marked(l)
    <2>1. l.split \in [DOMAIN l.split -> [axis : Dimensions, share : Nat \X (Nat \ {0})]]
      BY <1>1, <1>2
    <2>2. l.leaf \in [DOMAIN l.leaf -> Ids]
      BY <1>1, <1>2
    <2> QED BY <1>2, <2>1, <2>2 DEF Marked
  <1>7. Fitting(l)
    <2>1. size \in (Nat \ {0}) \X (Nat \ {0}) /\ size[1] \in Nat \ {0} /\ size[2] \in Nat \ {0}
      BY DEF LayoutAssumption, Sizes
    <2>2. \A d \in Dimensions : Minimum(l)[<<>>][d] = 1
      BY <1>2, <1>4, <1>6, MinimumRules
    <2>3. \A d \in Dimensions : size[d] \in Nat \ {0}
      BY <2>1 DEF Dimensions
    <2>4. \A d \in Dimensions : Minimum(l)[<<>>][d] <= size[d]
      BY <2>2, <2>3
    <2> QED BY <1>1, <2>1, <2>4 DEF Fitting, RootFits
  <1> DEFINE w == <<<<>>>>
  <1>8. w \in Seq(Paths) /\ Len(w) = 1 /\ w[1] = <<>>
    BY <1>3
  <1> HIDE DEF w
  <1>9. Enumerates(l, w)
    <2>1. {w[i] : i \in 1 .. Len(w)} = {<<>>}
      BY <1>8
    <2> QED BY <1>2, <1>8, <2>1 DEF Enumerates
  <1>10. Count(l) = 1 /\ Order(l) = [i \in 1 .. 1 |-> l.leaf[w[i]]]
    BY <1>8, <1>9, OrderIs
  <1>11. Order(l) = <<id>>
    <2>1. \A i \in 1 .. 1 : l.leaf[w[i]] = id
      BY <1>2, <1>8
    <2>2. Order(l) = [i \in 1 .. 1 |-> id]
      BY <1>10, <2>1
    <2> QED BY <2>2
  <1>12. Ordered(l)
    BY <1>8, <1>9 DEF Ordered
  <1>13. Count(l) <= MaxPanes
    BY <1>10 DEF LayoutAssumption
  <1> QED BY <1>1, <1>4, <1>5, <1>6, <1>7, <1>11, <1>12, <1>13 DEF Whole

\* A new pane enters behind the active one and takes the focus.
LEMMA SplitWhole ==
    ASSUME NEW l, Whole(l), NEW axis \in Dimensions, CanSplit(l, axis), NEW id \in Ids \ Panes(l),
           MaxPanes \in Nat, NEW k, k = Split(l, axis, id)
    PROVE  Gained(l, id, k)
  <1> DEFINE p == PathOf(l, l.active)
  <1>0. /\ IsLayout(l) /\ Grown(l) /\ Marked(l) /\ Fitting(l) /\ Ordered(l)
        /\ l.size \in Sizes /\ l.active \in Panes(l) /\ Count(l) <= MaxPanes
    BY DEF Whole
  <1>1. p \in DOMAIN l.leaf /\ l.leaf[p] = l.active
    BY <1>0, PathOfFacts
  <1>2. k = [l EXCEPT
               !.leaf = [q \in (DOMAIN l.leaf \ {p}) \cup {p \o <<1>>, p \o <<2>>} |->
                           IF q = p \o <<1>> THEN l.active
                           ELSE IF q = p \o <<2>> THEN id ELSE l.leaf[q]],
               !.split = [q \in DOMAIN l.split \cup {p} |->
                            IF q = p THEN [axis |-> axis, share |-> <<1, 2>>] ELSE l.split[q]],
               !.active = id, !.zoomed = FALSE]
    BY DEF Split
  <1> HIDE DEF p
  <1>3. /\ IsLayout(k) /\ k.size = l.size /\ k.active = id /\ k.zoomed = FALSE
        /\ IsSplit(l, p, axis, id, k)
    <2> DEFINE leaf == [q \in (DOMAIN l.leaf \ {p}) \cup {p \o <<1>>, p \o <<2>>} |->
                          IF q = p \o <<1>> THEN l.active
                          ELSE IF q = p \o <<2>> THEN id ELSE l.leaf[q]]
               split == [q \in DOMAIN l.split \cup {p} |->
                           IF q = p THEN [axis |-> axis, share |-> <<1, 2>>] ELSE l.split[q]]
    <2>1. k = [l EXCEPT !.leaf = leaf, !.split = split, !.active = id, !.zoomed = FALSE]
      BY <1>2
    <2>2. IsSplit(l, p, axis, id, [leaf |-> leaf, split |-> split])
      BY <1>1 DEF IsSplit
    <2> HIDE DEF leaf, split
    <2>3. /\ IsLayout(k) /\ k.leaf = leaf /\ k.split = split /\ k.size = l.size
          /\ k.active = id /\ k.zoomed = FALSE
      BY <1>0, <2>1 DEF IsLayout
    <2>4. IsSplit(l, p, axis, id, k)
      BY <2>2, <2>3 DEF IsSplit
    <2> QED BY <2>3, <2>4
  <1>4. /\ Grown(k) /\ Marked(k) /\ Panes(k) = Panes(l) \cup {id}
        /\ k.leaf[p \o <<1>>] = l.leaf[p] /\ k.leaf[p \o <<2>>] = id
        /\ \A q \in DOMAIN l.leaf \ {p} : k.leaf[q] = l.leaf[q]
    BY <1>0, <1>1, <1>3, SplitTree
  <1>5. Fitting(k)
    <2>1. Rects(l)[p].size[axis] >= 4
      BY DEF CanSplit, Border, p
    <2>2. RootFits(k, l.size)
      BY <1>0, <1>1, <1>3, <2>1, SplitFits
    <2> QED BY <1>0, <1>3, <2>2 DEF Fitting
  <1>6. PICK w \in Seq(Paths) : Len(w) > 0 /\ Enumerates(l, w)
    BY <1>0 DEF Ordered
  <1>7. PICK i \in 1 .. Len(w) : w[i] = p
    BY <1>1, <1>6 DEF Enumerates
  <1> DEFINE v == SplitWay(w, i, p)
  <1>8. v \in Seq(Paths) /\ Len(v) = Len(w) + 1 /\ Enumerates(k, v)
    BY <1>0, <1>1, <1>3, <1>6, <1>7, SplitOrder
  <1>9. \A n \in 1 .. Len(w) + 1 : v[n] = IF n < i THEN w[n] ELSE IF n = i THEN p \o <<1>>
                                          ELSE IF n = i + 1 THEN p \o <<2>> ELSE w[n - 1]
    BY DEF SplitWay
  <1> HIDE DEF v
  <1>10. Len(w) \in Nat /\ Ordered(k)
    BY <1>6, <1>8 DEF Ordered
  <1>11. /\ Count(l) = Len(w) /\ Order(l) = [n \in 1 .. Len(w) |-> l.leaf[w[n]]]
         /\ Count(k) = Len(w) + 1 /\ Order(k) = [n \in 1 .. Len(w) + 1 |-> k.leaf[v[n]]]
    BY <1>6, <1>8, OrderIs, SMTT(60)
  <1>12. /\ Order(l) \in Seq(Ids) /\ Len(Order(l)) = Len(w)
         /\ Order(k) \in Seq(Ids) /\ Len(Order(k)) = Len(w) + 1
    BY <1>0, <1>4, <1>10, <1>11, OrderFacts
  <1>13. \A n \in 1 .. Len(w) : n # i => w[n] \in DOMAIN l.leaf \ {p} /\ k.leaf[w[n]] = l.leaf[w[n]]
    <2> TAKE n \in 1 .. Len(w)
    <2> HAVE n # i
    <2>1. w[n] \in DOMAIN l.leaf
      BY <1>6 DEF Enumerates
    <2>2. w[n] # p
      <3>1. n < i \/ i < n
        BY <1>10
      <3>2. w[n] \in Paths /\ w[i] \in Paths
        BY <1>6
      <3> QED BY <1>6, <1>7, <3>1, <3>2, BeforeStrict DEF Enumerates
    <2> QED BY <1>4, <2>1, <2>2
  <1>14. Order(k) = InsertAt(Order(l), i + 1, id)
    <2> DEFINE o == Order(l)
               z == InsertAt(o, i + 1, id)
    <2>1. i + 1 \in 1 .. Len(o) + 1 /\ id \in Ids /\ o \in Seq(Ids)
      BY <1>10, <1>12
    <2>2. /\ z \in Seq(Ids) /\ Len(z) = Len(w) + 1
          /\ \A n \in 1 .. Len(w) + 1 :
               z[n] = IF n < i + 1 THEN o[n] ELSE IF n = i + 1 THEN id ELSE o[n - 1]
      <3>1. Len(o) = Len(w)
        BY <1>12
      <3> HIDE DEF o
      <3>2. PICK j \in 1 .. Len(o) + 1 : j = i + 1
        BY <2>1
      <3>3. /\ InsertAt(o, j, id) \in Seq(Ids) /\ Len(InsertAt(o, j, id)) = Len(o) + 1
            /\ \A n \in 1 .. Len(o) + 1 :
                 InsertAt(o, j, id)[n] = IF n < j THEN o[n] ELSE IF n = j THEN id ELSE o[n - 1]
        BY <2>1, InsertAtProperties
      <3> QED BY <3>1, <3>2, <3>3
    <2>3. \A n \in 1 .. Len(w) : o[n] = l.leaf[w[n]]
      BY <1>11
    <2> HIDE DEF o, z
    <2>4. ASSUME NEW n \in 1 .. Len(w) + 1 PROVE Order(k)[n] = z[n]
      <3>0. Order(k)[n] = k.leaf[v[n]]
        BY <1>11
      <3>1. CASE n < i
        <4>1. n \in 1 .. Len(w) /\ n # i /\ n < i + 1
          BY <1>10, <3>1
        <4> QED BY <1>9, <1>13, <2>2, <2>3, <3>0, <3>1, <4>1
      <3>2. CASE n = i
        <4>1. n < i + 1 /\ ~(n < i)
          BY <3>2
        <4>2. v[n] = p \o <<1>>
          BY <1>9, <3>2, <4>1
        <4>3. z[n] = l.leaf[p]
          BY <1>7, <2>2, <2>3, <3>2, <4>1
        <4> QED BY <1>4, <3>0, <4>2, <4>3
      <3>3. CASE n = i + 1
        <4>1. ~(n < i) /\ n # i /\ ~(n < i + 1)
          BY <3>3
        <4>2. v[n] = p \o <<2>>
          BY <1>9, <3>3, <4>1
        <4> QED BY <1>4, <2>2, <3>0, <3>3, <4>1, <4>2
      <3>4. CASE n > i + 1
        <4>1. n - 1 \in 1 .. Len(w) /\ n - 1 # i /\ ~(n < i) /\ n # i /\ n # i + 1 /\ ~(n < i + 1)
          BY <1>10, <3>4
        <4>2. v[n] = w[n - 1] /\ z[n] = o[n - 1]
          BY <1>9, <2>2, <4>1
        <4> QED BY <1>13, <2>3, <3>0, <4>1, <4>2
      <3>5. n < i \/ n = i \/ n = i + 1 \/ n > i + 1
        BY <1>10
      <3> QED BY <3>1, <3>2, <3>3, <3>4, <3>5
    <2>5. Order(k) = z
      BY <1>12, <2>2, <2>4, SeqEqual
    <2> QED BY <2>5 DEF z, o
  <1>15. Count(k) <= MaxPanes
    BY <1>10, <1>11 DEF CanSplit
  <1>16. Whole(k)
    BY <1>0, <1>3, <1>4, <1>5, <1>10, <1>15 DEF Whole
  <1> QED BY <1>3, <1>4, <1>10, <1>11, <1>12, <1>14, <1>16 DEF Gained

LEMMA SingleLeaf ==
    ASSUME NEW l, Grown(l), Ordered(l), NEW p \in DOMAIN l.leaf, Count(l) > 1
    PROVE  p # <<>>
  <1> SUFFICES ASSUME p = <<>> PROVE FALSE
    OBVIOUS
  <1>1. DOMAIN l.leaf = {<<>>}
    BY RootAlone
  <1>2. Count(l) = 1
    BY <1>1, FS_Singleton DEF Count
  <1> QED BY <1>2

\* A pane leaves on its own; the focus stays or goes to a neighbour in the order.
LEMMA WithoutWhole ==
    ASSUME NEW l, Whole(l), Count(l) > 1, NEW id \in Panes(l), MaxPanes \in Nat,
           NEW k, k = Without(l, id)
    PROVE  Lost(l, id, k)
  <1> DEFINE p == PathOf(l, id)
             o == Order(l)
             heir == IF l.active = id THEN Heir(l, id) ELSE l.active
  <1>0. /\ IsLayout(l) /\ Grown(l) /\ Marked(l) /\ Fitting(l) /\ Ordered(l)
        /\ l.size \in Sizes /\ l.active \in Panes(l) /\ Count(l) <= MaxPanes
    BY DEF Whole
  <1>1. p \in DOMAIN l.leaf /\ l.leaf[p] = id
    BY <1>0, PathOfFacts
  <1>2. p # <<>>
    BY <1>0, <1>1, SingleLeaf
  <1> DEFINE leaf == [y \in {Up(p, x) : x \in DOMAIN l.leaf \ {p}} |-> l.leaf[Down(p, y)]]
             split == [y \in {Up(p, x) : x \in DOMAIN l.split \ {Front(p)}} |-> l.split[Down(p, y)]]
  <1>3. k = [[l EXCEPT !.leaf = leaf, !.split = split, !.active = heir] EXCEPT !.zoomed = FALSE]
    BY DEF Without, Removed, Up, Down, Moved, SiblingOf
  <1>4. IsRemoval(l, p, [leaf |-> leaf, split |-> split])
    BY DEF IsRemoval
  <1> HIDE DEF leaf, split, heir, p
  <1>5. /\ IsLayout(k) /\ k.leaf = leaf /\ k.split = split /\ k.size = l.size
        /\ k.active = heir /\ k.zoomed = FALSE
    BY <1>0, <1>3 DEF IsLayout
  <1>6. IsRemoval(l, p, k)
    BY <1>4, <1>5 DEF IsRemoval
  <1>7. Grown(k) /\ Marked(k) /\ Panes(k) = Panes(l) \ {id}
    BY <1>0, <1>1, <1>2, <1>6, RemovalTree
  <1>8. Fitting(k)
    <2>1. ASSUME NEW d \in Dimensions PROVE Minimum(k)[<<>>][d] <= l.size[d]
      <3>1. Minimum(k)[<<>>][d] <= Minimum(l)[<<>>][d]
        BY <1>0, <1>1, <1>2, <1>6, RemovalFits
      <3>2. Minimum(l)[<<>>][d] <= l.size[d]
        BY <1>0 DEF Fitting, RootFits
      <3>3. <<>> \in Nodes(k) /\ <<>> \in Nodes(l)
        BY <1>0, <1>7 DEF Grown
      <3>4. Minimum(k)[<<>>][d] \in Nat
        BY <1>7, <3>3, MinimumRules
      <3>5. Minimum(l)[<<>>][d] \in Nat
        BY <1>0, <3>3, MinimumRules
      <3>6. l.size[d] \in Nat
        BY <1>0 DEF Fitting, Dimensions
      <3> QED BY <3>1, <3>2, <3>4, <3>5, <3>6
    <2> QED BY <1>0, <1>5, <2>1 DEF Fitting, RootFits
  <1>9. PICK w \in Seq(Paths) : Len(w) > 0 /\ Enumerates(l, w)
    BY <1>0 DEF Ordered
  <1>10. PICK i \in 1 .. Len(w) : w[i] = p
    BY <1>1, <1>9 DEF Enumerates
  <1> DEFINE v == RemovalWay(w, i, p)
  <1>11. /\ v \in Seq(Paths) /\ Len(v) = Len(w) - 1 /\ Enumerates(k, v)
         /\ \A n \in 1 .. Len(w) - 1 : k.leaf[v[n]] = l.leaf[IF n < i THEN w[n] ELSE w[n + 1]]
    BY <1>0, <1>1, <1>2, <1>6, <1>9, <1>10, RemovalOrder
  <1> HIDE DEF v
  <1>12. /\ Count(l) = Len(w) /\ o = [n \in 1 .. Len(w) |-> l.leaf[w[n]]]
         /\ Count(k) = Len(w) - 1 /\ Order(k) = [n \in 1 .. Len(w) - 1 |-> k.leaf[v[n]]]
    <2>1. Count(l) = Len(w) /\ o = [n \in 1 .. Len(w) |-> l.leaf[w[n]]]
      BY <1>9, OrderIs
    <2>2. Count(k) = Len(v) /\ Order(k) = [n \in 1 .. Len(v) |-> k.leaf[v[n]]]
      BY <1>11, OrderIs
    <2> QED BY <1>11, <2>1, <2>2
  <1>13. Len(w) \in Nat /\ Len(w) > 1 /\ Ordered(k)
    <2>1. Len(w) \in Nat /\ Len(w) > 1
      BY <1>12
    <2>2. Len(v) > 0
      BY <1>11, <2>1
    <2> QED BY <1>11, <2>1, <2>2 DEF Ordered
  <1>14. /\ o \in Seq(Ids) /\ Len(o) = Len(w)
         /\ Panes(l) = {o[n] : n \in 1 .. Len(w)}
         /\ \A m, n \in 1 .. Len(w) : o[m] = o[n] => m = n
    BY <1>0, <1>12, OrderFacts
  <1>15. Order(k) \in Seq(Ids) /\ Len(Order(k)) = Len(w) - 1
    BY <1>7, <1>12, <1>13, OrderFacts
  <1>16. o[i] = id
    BY <1>1, <1>10, <1>12
  <1>17. \A n \in 1 .. Len(w) - 1 : Order(k)[n] = IF n < i THEN o[n] ELSE o[n + 1]
    <2> TAKE n \in 1 .. Len(w) - 1
    <2>1. Order(k)[n] = l.leaf[IF n < i THEN w[n] ELSE w[n + 1]]
      BY <1>11, <1>12
    <2>2. n \in 1 .. Len(w) /\ n + 1 \in 1 .. Len(w)
      BY <1>13
    <2>3. \A m \in 1 .. Len(w) : o[m] = l.leaf[w[m]]
      BY <1>12
    <2> HIDE DEF o
    <2> QED BY <2>1, <2>2, <2>3
  <1> HIDE DEF o
  <1>18. Order(k) = RemoveAt(o, i)
    <2>1. i \in 1 .. Len(o) /\ Len(o) \in Nat
      BY <1>13, <1>14
    <2>2. /\ RemoveAt(o, i) \in Seq(Ids) /\ Len(RemoveAt(o, i)) = Len(o) - 1
          /\ \A n \in 1 .. Len(o) - 1 : RemoveAt(o, i)[n] = IF n < i THEN o[n] ELSE o[n + 1]
      BY <1>14, <2>1, RemoveAtProperties
    <2>3. /\ Len(RemoveAt(o, i)) = Len(w) - 1
          /\ \A n \in 1 .. Len(w) - 1 : Order(k)[n] = RemoveAt(o, i)[n]
      BY <1>14, <1>17, <2>2
    <2> QED BY <1>15, <2>2, <2>3, SeqEqual
  <1>19. Heir(l, id) = IF i = Len(o) THEN o[i - 1] ELSE o[i + 1]
    <2>1. DOMAIN o = 1 .. Len(w)
      BY <1>14
    <2> DEFINE c == CHOOSE n \in DOMAIN o : o[n] = id
    <2>2. c = i
      <3>1. \A n \in DOMAIN o : o[n] = id => n = i
        BY <1>14, <1>16, <2>1
      <3> QED BY <1>16, <2>1, <3>1
    <2>3. Heir(l, id) = IF c = Len(o) THEN o[c - 1] ELSE o[c + 1]
      BY DEF Heir, o
    <2> HIDE DEF c
    <2> QED BY <2>2, <2>3
  <1>20. heir \in Panes(k) /\ heir = IF l.active = id THEN (IF i = Len(o) THEN o[i - 1] ELSE o[i + 1])
                                     ELSE l.active
    <2>1. CASE l.active # id
      BY <1>0, <1>7, <2>1 DEF heir
    <2>2. CASE l.active = id
      <3>1. CASE i = Len(o)
        <4>1. i - 1 \in 1 .. Len(w) /\ i - 1 # i
          BY <1>13, <1>14, <3>1
        <4>2. o[i - 1] \in Panes(l) /\ o[i - 1] # id
          BY <1>14, <1>16, <4>1
        <4> QED BY <1>7, <1>19, <2>2, <3>1, <4>2 DEF heir
      <3>2. CASE i # Len(o)
        <4>1. i + 1 \in 1 .. Len(w) /\ i + 1 # i
          BY <1>13, <1>14, <3>2
        <4>2. o[i + 1] \in Panes(l) /\ o[i + 1] # id
          BY <1>14, <1>16, <4>1
        <4> QED BY <1>7, <1>19, <2>2, <3>2, <4>2 DEF heir
      <3> QED BY <3>1, <3>2
    <2> QED BY <2>1, <2>2
  <1>21. Count(k) <= MaxPanes /\ Count(k) = Count(l) - 1
    BY <1>0, <1>12, <1>13
  <1>22. Whole(k)
    BY <1>0, <1>5, <1>7, <1>8, <1>13, <1>20, <1>21 DEF Whole
  <1> QED BY <1>7, <1>14, <1>16, <1>18, <1>20, <1>21, <1>22, <1>5 DEF Lost, o

\* Nothing of what makes a layout whole is lost by a change of shares or focus.
LEMMA SameWhole ==
    ASSUME NEW l, Whole(l), NEW k, IsLayout(k), Grown(k), Marked(k), Fitting(k),
           k.leaf = l.leaf, k.size \in Sizes, k.active \in Panes(l),
           k.zoomed \in BOOLEAN, k.zoomed => Count(l) > 1
    PROVE  Whole(k) /\ Panes(k) = Panes(l) /\ Order(k) = Order(l) /\ Count(k) = Count(l)
  <1>1. Ordered(k) /\ Order(k) = Order(l)
    BY SameOrder DEF Whole
  <1>2. Panes(k) = Panes(l) /\ Count(k) = Count(l)
    BY DEF Panes, Count
  <1> QED BY <1>1, <1>2 DEF Whole

\* Focus and zoom.
Focused(l, id, k) ==
    /\ Whole(k) /\ Panes(k) = Panes(l) /\ Order(k) = Order(l) /\ Count(k) = Count(l)
    /\ k.leaf = l.leaf /\ k.split = l.split /\ k.size = l.size /\ k.active = id

LEMMA FocusWhole ==
    ASSUME NEW l, Whole(l), NEW id \in Panes(l), NEW zoom \in BOOLEAN, zoom => Count(l) > 1,
           NEW k, k = [l EXCEPT !.active = id, !.zoomed = zoom]
    PROVE  Focused(l, id, k)
  <1>1. /\ IsLayout(k) /\ k.leaf = l.leaf /\ k.split = l.split /\ k.size = l.size
        /\ k.active = id /\ k.zoomed = zoom
    BY DEF Whole, IsLayout
  <1>2. Grown(k) /\ Marked(k)
    BY <1>1, SameTree DEF Whole
  <1>3. Fitting(k)
    <2>1. SameShape(l, k)
      BY <1>1, SameTree
    <2>2. RootFits(l, l.size) /\ Grown(l) /\ Marked(l)
      BY DEF Whole, Fitting
    <2>3. RootFits(k, l.size)
      BY <1>2, <2>1, <2>2, SameFits
    <2> QED BY <1>1, <2>3 DEF Whole, Fitting
  <1>4. l.size \in Sizes
    BY DEF Whole
  <1>5. Whole(k) /\ Panes(k) = Panes(l) /\ Order(k) = Order(l) /\ Count(k) = Count(l)
    BY <1>1, <1>2, <1>3, <1>4, SameWhole
  <1> QED BY <1>1, <1>5 DEF Focused

LEMMA SelectWhole ==
    ASSUME NEW l, Whole(l), NEW id \in Panes(l), NEW k, k = [l EXCEPT !.active = id]
    PROVE  Focused(l, id, k)
  <1>1. l.zoomed \in BOOLEAN /\ (l.zoomed => Count(l) > 1)
    BY DEF Whole
  <1>2. k = [l EXCEPT !.active = id, !.zoomed = l.zoomed]
    BY DEF Whole, IsLayout
  <1>3. PICK zoom : zoom = l.zoomed
    OBVIOUS
  <1> QED BY <1>1, <1>2, <1>3, FocusWhole

\* Another canvas or other shares.
Reshaped(l, k) ==
    /\ Whole(k) /\ Panes(k) = Panes(l) /\ Order(k) = Order(l) /\ Count(k) = Count(l)
    /\ k.leaf = l.leaf /\ k.active = l.active

LEMMA ResizedWhole ==
    ASSUME LayoutAssumption, NEW l, Whole(l), NEW size \in Sizes, RootFits(l, size),
           NEW k, k = Resized(l, size)
    PROVE  Reshaped(l, k)
  <1>1. /\ IsLayout(k) /\ k.leaf = l.leaf /\ k.split = l.split /\ k.size = size
        /\ k.active = l.active /\ k.zoomed = l.zoomed
    BY DEF Whole, IsLayout, Resized
  <1>2. Grown(k) /\ Marked(k)
    BY <1>1, SameTree DEF Whole
  <1>3. Fitting(k)
    <2>1. RootFits(k, size)
      BY <1>1, <1>2, SameTree, SameFits DEF Whole
    <2>2. size \in (Nat \ {0}) \X (Nat \ {0})
      BY DEF LayoutAssumption, Sizes
    <2> QED BY <1>1, <2>1, <2>2 DEF Fitting
  <1>4. l.active \in Panes(l) /\ l.zoomed \in BOOLEAN /\ (l.zoomed => Count(l) > 1)
    BY DEF Whole
  <1>5. Whole(k) /\ Panes(k) = Panes(l) /\ Order(k) = Order(l) /\ Count(k) = Count(l)
    BY <1>1, <1>2, <1>3, <1>4, SameWhole
  <1> QED BY <1>1, <1>5 DEF Reshaped

\* The tree of before the close, in today's canvas.
LEMMA TreeWhole ==
    ASSUME NEW l, Whole(l), NEW b, Whole(b), RootFits(b, l.size), NEW id \in Panes(b),
           NEW k, k = [l EXCEPT !.leaf = b.leaf, !.split = b.split, !.active = id, !.zoomed = FALSE]
    PROVE  Replaced(b, id, l.size, k)
  <1>1. /\ IsLayout(k) /\ k.leaf = b.leaf /\ k.split = b.split /\ k.size = l.size
        /\ k.active = id /\ k.zoomed = FALSE
    BY DEF Whole, IsLayout
  <1>2. Grown(k) /\ Marked(k)
    BY <1>1, SameTree DEF Whole
  <1>3. Fitting(k)
    <2>1. SameShape(b, k)
      BY <1>1, SameTree
    <2>2. Grown(b) /\ Marked(b)
      BY DEF Whole
    <2>3. RootFits(k, l.size)
      BY <1>2, <2>1, <2>2, SameFits
    <2> QED BY <1>1, <2>3 DEF Whole, Fitting
  <1>4. k.size \in Sizes /\ k.active \in Panes(b) /\ k.zoomed \in BOOLEAN /\ ~k.zoomed
    BY <1>1 DEF Whole
  <1>5. Whole(k) /\ Panes(k) = Panes(b) /\ Order(k) = Order(b) /\ Count(k) = Count(b)
    BY <1>1, <1>2, <1>3, <1>4, SameWhole
  <1> QED BY <1>1, <1>5 DEF Replaced

\* Two panes trade places.
Exchanged(l, k) ==
    /\ Whole(k) /\ Panes(k) = Panes(l) /\ Count(k) = Count(l) /\ k.active = l.active
    /\ k.size = l.size /\ DOMAIN k.leaf = DOMAIN l.leaf /\ k.split = l.split
    /\ \E i, j \in DOMAIN Order(l) :
         Order(k) = [Order(l) EXCEPT ![i] = Order(l)[j], ![j] = Order(l)[i]]

LEMMA ExchangeWhole ==
    ASSUME NEW l, Whole(l), NEW a \in Panes(l), NEW b \in Panes(l), NEW k, k = Exchange(l, a, b)
    PROVE  Exchanged(l, k)
  <1> DEFINE o == Order(l)
  <1>0. IsLayout(l) /\ Grown(l) /\ Marked(l) /\ Fitting(l) /\ Ordered(l)
    BY DEF Whole
  <1>1. /\ IsLayout(k) /\ Grown(k) /\ Marked(k) /\ Fitting(k)
        /\ DOMAIN k.leaf = DOMAIN l.leaf /\ k.split = l.split /\ Panes(k) = Panes(l)
        /\ k.size = l.size /\ k.active = l.active /\ k.zoomed = l.zoomed
        /\ \A p \in DOMAIN l.leaf :
             k.leaf[p] = IF l.leaf[p] = a THEN b ELSE IF l.leaf[p] = b THEN a ELSE l.leaf[p]
    BY <1>0, ExchangeFacts
  <1>2. PICK w \in Seq(Paths) : Len(w) > 0 /\ Enumerates(l, w)
    BY <1>0 DEF Ordered
  <1>3. Enumerates(k, w) /\ Ordered(k)
    BY <1>1, <1>2 DEF Enumerates, Ordered
  <1>4. Count(l) = Len(w) /\ o = [n \in 1 .. Len(w) |-> l.leaf[w[n]]]
    BY <1>2, OrderIs
  <1>5. Count(k) = Len(w) /\ Order(k) = [n \in 1 .. Len(w) |-> k.leaf[w[n]]]
    BY <1>3, OrderIs
  <1>6. Whole(k)
    BY <1>1, <1>3, <1>4, <1>5 DEF Whole
  <1>7. /\ Panes(l) = {o[n] : n \in 1 .. Len(w)}
        /\ \A m, n \in 1 .. Len(w) : o[m] = o[n] => m = n
    BY <1>0, <1>4, OrderFacts
  <1>8. \A n \in 1 .. Len(w) : w[n] \in DOMAIN l.leaf /\ o[n] = l.leaf[w[n]]
    BY <1>2, <1>4 DEF Enumerates
  <1>9. DOMAIN o = 1 .. Len(w)
    BY <1>4
  <1> HIDE DEF o
  <1>10. PICK i \in 1 .. Len(w) : o[i] = a
    BY <1>7
  <1>11. PICK j \in 1 .. Len(w) : o[j] = b
    BY <1>7
  <1>12. \A n \in 1 .. Len(w) : Order(k)[n] = IF n = i THEN o[j] ELSE IF n = j THEN o[i] ELSE o[n]
    <2> TAKE n \in 1 .. Len(w)
    <2>1. Order(k)[n] = IF o[n] = a THEN b ELSE IF o[n] = b THEN a ELSE o[n]
      BY <1>1, <1>5, <1>8
    <2>2. (o[n] = a <=> n = i) /\ (o[n] = b <=> n = j)
      BY <1>7, <1>10, <1>11
    <2> QED BY <1>10, <1>11, <2>1, <2>2
  <1>13. Order(k) = [o EXCEPT ![i] = o[j], ![j] = o[i]]
    <2> DEFINE z == [o EXCEPT ![i] = o[j], ![j] = o[i]]
    <2>1. o = [n \in 1 .. Len(w) |-> o[n]]
      BY <1>4 DEF o
    <2>2. DOMAIN z = 1 .. Len(w) /\ z = [n \in 1 .. Len(w) |-> z[n]]
      BY <1>9
    <2>3. \A n \in 1 .. Len(w) : z[n] = IF n = j THEN o[i] ELSE IF n = i THEN o[j] ELSE o[n]
      BY <1>9, <1>10, <1>11
    <2>4. Order(k) = [n \in 1 .. Len(w) |-> Order(k)[n]]
      BY <1>5
    <2>5. \A n \in 1 .. Len(w) : Order(k)[n] = z[n]
      BY <1>12, <2>3
    <2> HIDE DEF z
    <2> QED BY <2>2, <2>4, <2>5 DEF z
  <1> QED BY <1>1, <1>4, <1>5, <1>6, <1>9, <1>10, <1>11, <1>13 DEF Exchanged, o

\* Separators have moved.
LEMMA MoveWhole ==
    ASSUME NEW l, Whole(l), NEW p \in DOMAIN l.split, NEW delta \in Int,
           NEW k, k = MoveSeparator(l, p, delta)
    PROVE  Reshaped(l, k)
  <1>1. /\ IsLayout(k) /\ Grown(k) /\ Marked(k) /\ Fitting(k)
        /\ k.leaf = l.leaf /\ k.size = l.size /\ k.active = l.active /\ k.zoomed = l.zoomed
    BY MoveFacts DEF Whole
  <1>2. /\ k.size \in Sizes /\ k.active \in Panes(l) /\ k.zoomed \in BOOLEAN
        /\ (k.zoomed => Count(l) > 1)
    BY <1>1 DEF Whole
  <1>3. Whole(k) /\ Panes(k) = Panes(l) /\ Order(k) = Order(l) /\ Count(k) = Count(l)
    BY <1>1, <1>2, SameWhole
  <1> QED BY <1>1, <1>3 DEF Reshaped

LEMMA AdjustWhole ==
    ASSUME NEW l, Whole(l), NEW id \in Panes(l), NEW axis, NEW delta \in Int,
           NEW k, k = Adjust(l, id, axis, delta)
    PROVE  Reshaped(l, k)
  <1>1. /\ IsLayout(k) /\ Grown(k) /\ Marked(k) /\ Fitting(k)
        /\ k.leaf = l.leaf /\ k.size = l.size /\ k.active = l.active /\ k.zoomed = l.zoomed
    BY AdjustFacts DEF Whole
  <1>2. /\ k.size \in Sizes /\ k.active \in Panes(l) /\ k.zoomed \in BOOLEAN
        /\ (k.zoomed => Count(l) > 1)
    BY <1>1 DEF Whole
  <1>3. Whole(k) /\ Panes(k) = Panes(l) /\ Order(k) = Order(l) /\ Count(k) = Count(l)
    BY <1>1, <1>2, SameWhole
  <1> QED BY <1>1, <1>3 DEF Reshaped

LEMMA InsertRemoved ==
    ASSUME NEW S, NEW s \in Seq(S), NEW i \in 1 .. Len(s)
    PROVE  InsertAt(RemoveAt(s, i), i, s[i]) = s
  <1> DEFINE r == RemoveAt(s, i)
  <1>1. Len(s) \in Nat /\ s[i] \in S
    OBVIOUS
  <1>2. /\ r \in Seq(S) /\ Len(r) = Len(s) - 1
        /\ \A k \in 1 .. Len(s) - 1 : r[k] = IF k < i THEN s[k] ELSE s[k + 1]
    BY RemoveAtProperties
  <1> HIDE DEF r
  <1>0. PICK e : e = s[i]
    OBVIOUS
  <1> DEFINE z == InsertAt(r, i, e)
  <1>3. i \in 1 .. Len(r) + 1 /\ Len(r) + 1 = Len(s)
    BY <1>1, <1>2
  <1>7. e \in S /\ r \in Seq(S)
    BY <1>0, <1>1, <1>2
  <1>4. /\ z \in Seq(S) /\ Len(z) = Len(r) + 1
        /\ \A k \in 1 .. Len(r) + 1 : z[k] = IF k < i THEN r[k] ELSE IF k = i THEN e ELSE r[k - 1]
    BY <1>3, <1>7, InsertAtProperties
  <1> HIDE DEF z
  <1>5. ASSUME NEW k \in 1 .. Len(s) PROVE z[k] = s[k]
    <2>1. CASE k < i
      <3>1. k \in 1 .. Len(s) - 1 /\ k \in 1 .. Len(r) + 1
        BY <1>1, <1>3, <2>1
      <3> QED BY <1>2, <1>4, <2>1, <3>1
    <2>2. CASE k = i
      BY <1>0, <1>3, <1>4, <2>2
    <2>3. CASE k > i
      <3>1. k - 1 \in 1 .. Len(s) - 1 /\ ~(k - 1 < i) /\ ~(k < i) /\ k # i /\ k - 1 + 1 = k
        BY <1>1, <2>3
      <3>2. r[k - 1] = s[k - 1 + 1]
        BY <1>2, <3>1
      <3> QED BY <1>3, <1>4, <3>1, <3>2
    <2>4. k < i \/ k = i \/ k > i
      BY <1>1
    <2> QED BY <2>1, <2>2, <2>3, <2>4
  <1>6. z = s
    BY <1>3, <1>4, <1>5, SeqEqual
  <1> QED BY <1>0, <1>6 DEF z, r

\* What is remembered of a close: the whole layout it found, and what it made of it.
Remembered(c, l) ==
    c # None =>
      /\ c.id \notin Panes(l)
      /\ \E b : /\ Whole(b) /\ Count(b) > 1 /\ c.id \in Panes(b)
                /\ c.before = Tree(b) /\ c.after = Tree(Without(b, c.id))

\* The undo of a close puts the pane back between the same neighbours, or beside
\* the active pane when other panes have come or gone.
LEMMA RestoredWhole ==
    ASSUME LayoutAssumption, NEW l, Whole(l), NEW c, c # None, Remembered(c, l),
           CanRestore(l, c), NEW k, k = Restored(l, c)
    PROVE  /\ Whole(k) /\ k.active = c.id /\ c.id \notin Panes(l)
           /\ \E i \in 1 .. Len(Order(k)) : Order(k) = InsertAt(Order(l), i, c.id)
  <1>0. PICK id : id = c.id
    OBVIOUS
  <1>1. PICK b : /\ Whole(b) /\ Count(b) > 1 /\ id \in Panes(b)
                 /\ c.before = Tree(b) /\ c.after = Tree(Without(b, id))
    BY <1>0 DEF Remembered
  <1>2. id \notin Panes(l) /\ MaxPanes \in Nat
    BY <1>0 DEF Remembered, LayoutAssumption
  <1>3. /\ IsLayout(b) /\ Grown(b) /\ Marked(b) /\ Fitting(b) /\ Ordered(b)
    BY <1>1 DEF Whole
  <1>4. Order(b) \in Seq(Ids) /\ Panes(b) \subseteq Ids
    BY <1>3, OrderFacts DEF Marked, Panes
  <1>5. c.before.leaf = b.leaf /\ c.before.split = b.split
    BY <1>1 DEF Tree
  <1>6. Grown(c.before) /\ Marked(c.before) /\ SameShape(c.before, b) /\ Panes(c.before) = Panes(b)
    BY <1>3, <1>5, SameTree
  <1>7. CASE CanRestoreTree(l, c)
    <2>1. Tree(l) = c.after /\ RootFits(c.before, l.size)
      BY <1>7 DEF CanRestoreTree
    <2>2. PICK w : w = Without(b, id)
      OBVIOUS
    <2>11. Whole(b) /\ Count(b) > 1 /\ id \in Panes(b) /\ MaxPanes \in Nat
      BY <1>1, <1>2
    <2>12. Lost(b, id, w)
      BY <2>2, <2>11, WithoutWhole
    <2>3. PICK i \in 1 .. Len(Order(b)) : Order(b)[i] = id /\ Order(w) = RemoveAt(Order(b), i)
      BY <2>12 DEF Lost
    <2>4. Whole(w) /\ Panes(w) = Panes(b) \ {id}
      BY <2>12 DEF Lost
    <2>5. w.leaf = l.leaf
      BY <1>1, <2>1, <2>2 DEF Tree
    <2>6. Order(l) = Order(w) /\ Panes(l) = Panes(w)
      BY <2>4, <2>5, SameOrder DEF Whole, Panes
    <2>7. RootFits(b, l.size)
      BY <1>3, <1>6, <2>1, SameFits
    <2>8. k = [l EXCEPT !.leaf = b.leaf, !.split = b.split, !.active = id, !.zoomed = FALSE]
      BY <1>0, <1>5, <1>7 DEF Restored
    <2>9. Replaced(b, id, l.size, k)
      BY <2>7, <2>8, <2>11, TreeWhole
    <2>13. Whole(k) /\ Panes(k) = Panes(b) /\ Order(k) = Order(b) /\ k.active = id
      BY <2>9 DEF Replaced
    <2>10. Order(b) = InsertAt(Order(l), i, id)
      <3>1. InsertAt(RemoveAt(Order(b), i), i, Order(b)[i]) = Order(b)
        BY <1>4, InsertRemoved
      <3> QED BY <2>3, <2>6, <3>1
    <2> QED BY <1>0, <1>1, <1>2, <1>4, <2>4, <2>6, <2>13, <2>10
  <1>8. CASE ~CanRestoreTree(l, c)
    <2> DEFINE axis == ParentAxis(c.before, id)
    <2>1. CanSplit(l, axis) /\ k = Split(l, axis, id)
      BY <1>0, <1>8 DEF CanRestore, Restored
    <2>2. axis \in Dimensions
      <3>1. PICK p : p = PathOf(c.before, id)
        OBVIOUS
      <3>2. p \in DOMAIN c.before.leaf /\ p \in Nodes(c.before)
        BY <1>1, <1>6, <3>1, PathOfFacts DEF Nodes
      <3>3. axis = IF p = <<>> THEN 2 ELSE c.before.split[Front(p)].axis
        BY <3>1 DEF ParentAxis
      <3>4. CASE p = <<>>
        BY <3>3, <3>4 DEF Dimensions
      <3>5. CASE p # <<>>
        <4>1. Front(p) \in DOMAIN c.before.split
          BY <1>6, <3>2, <3>5, NodeFacts
        <4>2. c.before.split[Front(p)].axis \in Dimensions
          BY <1>6, <4>1, SplitFacts
        <4> HIDE DEF axis
        <4> QED BY <3>3, <3>5, <4>2
      <3> QED BY <3>4, <3>5
    <2> HIDE DEF axis
    <2>3. id \in Ids \ Panes(l)
      BY <1>1, <1>2, <1>4
    <2>8. Gained(l, id, k)
      BY <1>2, <2>1, <2>2, <2>3, SplitWhole
    <2>4. /\ Whole(k) /\ Panes(k) = Panes(l) \cup {id} /\ Count(k) = Count(l) + 1 /\ k.active = id
          /\ \E i \in 1 .. Len(Order(l)) : Order(k) = InsertAt(Order(l), i + 1, id)
      BY <2>8 DEF Gained
    <2>5. PICK i \in 1 .. Len(Order(l)) : Order(k) = InsertAt(Order(l), i + 1, id)
      BY <2>4
    <2>6. Len(Order(l)) = Count(l) /\ Len(Order(k)) = Count(k) /\ Count(l) \in Nat
      BY <2>4, OrderFacts DEF Whole
    <2>7. i + 1 \in 1 .. Len(Order(k))
      BY <2>4, <2>6
    <2> QED BY <1>0, <2>3, <2>4, <2>5, <2>7
  <1> QED BY <1>7, <1>8

-----------------------------------------------------------------------------
(* Cells inside the borders.                                               *)

LEMMA SameContent ==
    ASSUME NEW a, NEW b, a.size = b.size, NEW rect
    PROVE  Content(a, rect) = Content(b, rect)
  BY DEF Content

LEMMA FitsMeaning ==
    ASSUME NEW l, IsLayout(l), Grown(l), Marked(l)
    PROVE  Fits(l) <=> \A p \in DOMAIN l.leaf, d \in Dimensions : Content(l, Rects(l)[p])[d] > 0
  <1>1. PICK u : u = [l EXCEPT !.zoomed = FALSE]
    OBVIOUS
  <1>2. u.leaf = l.leaf /\ u.split = l.split /\ u.size = l.size /\ u.zoomed = FALSE
    BY <1>1 DEF IsLayout
  <1>3. Grown(u) /\ Marked(u) /\ Panes(u) = Panes(l)
    BY <1>2, SameTree
  <1>4. \A p \in Nodes(l) : Rects(u)[p] = Rects(l)[p]
    BY <1>2, <1>3, SameRects
  <1>5. PtySizes(u) = [id \in Panes(u) |-> Content(u, Rects(u)[PathOf(u, id)])]
    BY <1>2 DEF PtySizes
  <1>6. Fits(l) <=> HasCells(PtySizes(u))
    BY <1>1 DEF Fits
  <1>7. Fits(l) <=> \A id \in Panes(u), d \in Dimensions : Content(u, Rects(u)[PathOf(u, id)])[d] > 0
    BY <1>5, <1>6 DEF HasCells
  <1>8. ASSUME NEW p \in DOMAIN l.leaf PROVE Content(u, Rects(u)[p]) = Content(l, Rects(l)[p])
    <2>1. Rects(u)[p] = Rects(l)[p]
      BY <1>4 DEF Nodes
    <2> QED BY <1>2, <2>1, SameContent
  <1>9. ASSUME NEW p \in DOMAIN l.leaf PROVE l.leaf[p] \in Panes(u) /\ PathOf(u, l.leaf[p]) = p
    <2>1. p \in DOMAIN u.leaf /\ u.leaf[p] = l.leaf[p]
      BY <1>2
    <2> QED BY <1>3, <2>1, PathOfLeaf
  <1>10. ASSUME NEW id \in Panes(u) PROVE PathOf(u, id) \in DOMAIN l.leaf
    <2>1. PathOf(u, id) \in DOMAIN u.leaf
      BY <1>3, PathOfFacts
    <2> QED BY <1>2, <2>1
  <1>11. ASSUME Fits(l), NEW p \in DOMAIN l.leaf, NEW d \in Dimensions
         PROVE  Content(l, Rects(l)[p])[d] > 0
    <2>1. Content(u, Rects(u)[PathOf(u, l.leaf[p])])[d] > 0
      BY <1>7, <1>9, <1>11
    <2> QED BY <1>8, <1>9, <2>1
  <1>12. ASSUME \A p \in DOMAIN l.leaf, d \in Dimensions : Content(l, Rects(l)[p])[d] > 0
         PROVE  Fits(l)
    <2>1. ASSUME NEW id \in Panes(u), NEW d \in Dimensions
          PROVE  Content(u, Rects(u)[PathOf(u, id)])[d] > 0
      <3>1. PICK p : p = PathOf(u, id)
        OBVIOUS
      <3>2. p \in DOMAIN l.leaf
        BY <1>10, <3>1
      <3>3. Content(u, Rects(u)[p]) = Content(l, Rects(l)[p])
        BY <1>8, <3>2
      <3>4. Content(l, Rects(l)[p])[d] > 0
        BY <1>12, <3>2
      <3> QED BY <3>1, <3>3, <3>4
    <2> QED BY <1>7, <2>1
  <1> QED BY <1>11, <1>12

\* Focus, zoom and the exchange of two panes change no rectangle.
LEMMA SameFitting ==
    ASSUME NEW l, Whole(l), NEW k, Whole(k),
           DOMAIN k.leaf = DOMAIN l.leaf, k.split = l.split, k.size = l.size
    PROVE  Fits(k) <=> Fits(l)
  <1>1. IsLayout(l) /\ Grown(l) /\ Marked(l) /\ IsLayout(k) /\ Grown(k) /\ Marked(k)
    BY DEF Whole
  <1>2. \A p \in DOMAIN l.leaf : Rects(l)[p] = Rects(k)[p]
    BY <1>1, SameRects DEF Nodes
  <1>3. \A p \in DOMAIN l.leaf : Content(l, Rects(l)[p]) = Content(k, Rects(k)[p])
    <2> TAKE p \in DOMAIN l.leaf
    <2>1. Rects(l)[p] = Rects(k)[p]
      BY <1>2
    <2> QED BY <2>1, SameContent
  <1>4. Fits(l) <=> \A p \in DOMAIN l.leaf, d \in Dimensions : Content(l, Rects(l)[p])[d] > 0
    BY <1>1, FitsMeaning
  <1>5. Fits(k) <=> \A p \in DOMAIN k.leaf, d \in Dimensions : Content(k, Rects(k)[p])[d] > 0
    BY <1>1, FitsMeaning
  <1> QED BY <1>3, <1>4, <1>5

-----------------------------------------------------------------------------
(* The steps of the abstract list.                                         *)

Listing == [Listed!Next]_<<Order(layout), layout.active>>

LEMMA ListedPanes ==
    ASSUME NEW l, Whole(l)
    PROVE  ToSet(Order(l)) = Panes(l) /\ DOMAIN Order(l) = 1 .. Len(Order(l)) /\ Len(Order(l)) = Count(l)
  <1>1. /\ Order(l) \in Seq(Ids) /\ Len(Order(l)) = Count(l)
        /\ Panes(l) = {Order(l)[i] : i \in 1 .. Count(l)}
    BY OrderFacts DEF Whole
  <1>2. DOMAIN Order(l) = 1 .. Len(Order(l))
    BY <1>1
  <1> QED BY <1>1, <1>2 DEF ToSet

LEMMA ListFocus ==
    ASSUME Whole(layout), Order(layout') = Order(layout), layout'.active \in Panes(layout)
    PROVE  Listing
  <1>1. layout'.active \in ToSet(Order(layout))
    BY ListedPanes
  <1>2. Listed!Focus(layout'.active)
    BY <1>1 DEF Listed!Focus, Listed!ToSet, ToSet
  <1> QED BY <1>2 DEF Listing, Listed!Next

LEMMA ListInsert ==
    ASSUME Whole(layout), layout'.active \notin Panes(layout), NEW i \in 1 .. Len(Order(layout')),
           Order(layout') = InsertAt(Order(layout), i, layout'.active)
    PROVE  Listing
  <1>1. layout'.active \notin ToSet(Order(layout))
    BY ListedPanes
  <1>2. Listed!Insert(layout'.active, i)
    BY <1>1 DEF Listed!Insert, Listed!InsertAt, InsertAt, Listed!ToSet, ToSet
  <1> QED BY <1>2 DEF Listing, Listed!Next

LEMMA ListDelete ==
    ASSUME Whole(layout), Count(layout) > 1, NEW id, Lost(layout, id, layout')
    PROVE  Listing
  <1>1. PICK i \in 1 .. Len(Order(layout)) :
          /\ Order(layout)[i] = id /\ Order(layout') = RemoveAt(Order(layout), i)
          /\ layout'.active =
               IF layout.active = id
               THEN (IF i = Len(Order(layout)) THEN Order(layout)[i - 1] ELSE Order(layout)[i + 1])
               ELSE layout.active
    BY DEF Lost
  <1>2. i \in DOMAIN Order(layout) /\ Len(Order(layout)) > 1
    BY <1>1, ListedPanes
  <1>3. Listed!Delete(i)
    BY <1>1, <1>2 DEF Listed!Delete, Listed!Heir, Listed!RemoveAt, RemoveAt
  <1> QED BY <1>2, <1>3 DEF Listing, Listed!Next

LEMMA ListExchange ==
    ASSUME NEW i \in DOMAIN Order(layout), NEW j \in DOMAIN Order(layout),
           Order(layout') = [Order(layout) EXCEPT ![i] = Order(layout)[j], ![j] = Order(layout)[i]],
           layout'.active = layout.active
    PROVE  Listing
  <1>1. Listed!Exchange(i, j)
    BY DEF Listed!Exchange
  <1> QED BY <1>1 DEF Listing, Listed!Next

-----------------------------------------------------------------------------
(* The inductive invariant: the layout is whole, and a close can be undone *)
(* because what it found was whole too.                                    *)

Shown ==
    /\ dragging \in BOOLEAN
    /\ status \in {"running", "exited", "failed"}
    /\ status # "failed" => DOMAIN pty = Panes(layout)

IInv == Whole(layout) /\ Remembered(closed, layout) /\ Shown /\ SizesFollow

\* What a step is shown to do, beside bringing the sizes up to date.
KeepsCells ==
    Fits(layout) /\ ~Fits(layout') =>
      \/ layout'.leaf = layout.leaf /\ dragging'
      \/ Count(layout') < Count(layout)
      \/ closed # None /\ closed' = None

Good == Whole(layout') /\ Remembered(closed', layout') /\ KeepsCells /\ Listing

LEMMA PtyDomain ==
    ASSUME NEW l
    PROVE  DOMAIN PtySizes(l) = Panes(l)
  BY DEF PtySizes

LEMMA BecomesShown ==
    ASSUME NEW l, NEW pending, Becomes(l, pending), pending \subseteq BOOLEAN, status = "running"
    PROVE  Shown' /\ SizesFollow'
  <1>1. CASE pty' = PtySizes(l) /\ dragging' \in pending /\ status' = status /\ layout' = l
    <2>1. DOMAIN pty' = Panes(layout')
      BY <1>1, PtyDomain
    <2> QED BY <1>1, <2>1 DEF Shown, SizesFollow
  <1>2. CASE dragging' = FALSE /\ status' = "failed"
    BY <1>2 DEF Shown, SizesFollow
  <1> QED BY <1>1, <1>2 DEF Becomes

LEMMA RefreshShown ==
    ASSUME IInv, NEW l, NEW pending \in {Refresh, {dragging}, {FALSE}}, Becomes(l, pending),
           status = "running"
    PROVE  Shown' /\ SizesFollow' /\ layout' = l
  <1>1. pending \subseteq BOOLEAN
    BY ZenonT(60) DEF IInv, Shown, Refresh
  <1>2. layout' = l
    BY DEF Becomes
  <1> QED BY <1>1, <1>2, BecomesShown

LEMMA StillRemembered ==
    ASSUME Remembered(closed, layout), closed' = closed, closed # None => closed.id \notin Panes(layout')
    PROVE  Remembered(closed', layout')
  BY DEF Remembered

LEMMA SamePanesRemembered ==
    ASSUME Remembered(closed, layout), closed' = closed, Panes(layout') \subseteq Panes(layout)
    PROVE  Remembered(closed', layout')
  BY StillRemembered DEF Remembered

LEMMA MaxIsOne ==
    ASSUME NEW S, S \subseteq Nat, S # {}, NEW high \in Nat, \A n \in S : n <= high
    PROVE  Max(S) \in S
  <1>1. PICK n \in S : \A m \in S : m <= n
    BY Greatest
  <1>2. \A m \in S : n >= m
    BY <1>1
  <1> QED BY <1>1, <1>2 DEF Max

LEMMA SplitPaneStep ==
    ASSUME LayoutAssumption, IInv, status = "running", NEW id \in Panes(layout),
           NEW axis \in Dimensions, SplitPane(id, axis)
    PROVE  IInv' /\ Good
  <1>1. PICK l : l = Selected(id)
    OBVIOUS
  <1>2. CanSplit(l, axis) /\ closed' = closed
    BY <1>1 DEF SplitPane
  <1>3. PICK new \in NewIds(layout) :
          Fits(Split(l, axis, new)) /\ Becomes(Split(l, axis, new), Refresh)
    BY <1>1 DEF SplitPane
  <1>4. Shown' /\ SizesFollow' /\ layout' = Split(l, axis, new)
    BY <1>3, RefreshShown
  <1>5. Whole(layout) /\ Remembered(closed, layout)
    BY DEF IInv
  <1>6. Focused(layout, id, l)
    BY <1>1, <1>5, SelectWhole DEF Selected
  <1>7. Whole(l) /\ Panes(l) = Panes(layout) /\ Order(l) = Order(layout) /\ Count(l) = Count(layout)
    BY <1>6 DEF Focused
  <1>8. new \in Ids \ Panes(l) /\ MaxPanes \in Nat
    BY <1>3, <1>7 DEF NewIds, LayoutAssumption
  <1>9. Gained(l, new, layout')
    BY <1>2, <1>4, <1>7, <1>8, SplitWhole
  <1>10. Whole(layout') /\ Panes(layout') = Panes(l) \cup {new} /\ Count(layout') = Count(l) + 1
         /\ layout'.active = new
    BY <1>9 DEF Gained
  <1>11. PICK i \in 1 .. Len(Order(l)) : Order(layout') = InsertAt(Order(l), i + 1, new)
    BY <1>9 DEF Gained
  <1>12. Remembered(closed', layout')
    <2>1. ASSUME closed # None PROVE closed.id \notin Panes(layout')
      <3>1. PICK b : /\ closed.id \in Panes(b) /\ closed.before = Tree(b)
                     /\ closed.id \notin Panes(layout)
        BY <1>5, <2>1 DEF Remembered
      <3>2. Panes(closed.before) = Panes(b)
        BY <3>1 DEF Panes, Tree
      <3>3. new \notin Panes(closed.before)
        BY <1>3, <2>1 DEF NewIds
      <3> QED BY <1>7, <1>10, <3>1, <3>2, <3>3
    <2> QED BY <1>2, <1>5, <2>1, StillRemembered
  <1>13. Listing
    <2>1. Len(Order(l)) = Count(l) /\ Len(Order(layout')) = Count(layout') /\ Count(l) \in Nat
      BY <1>7, <1>10, OrderFacts DEF Whole
    <2>2. i + 1 \in 1 .. Len(Order(layout'))
      BY <1>10, <2>1
    <2>3. PICK n \in 1 .. Len(Order(layout')) : n = i + 1
      BY <2>2
    <2>4. layout'.active \notin Panes(layout)
      BY <1>7, <1>8, <1>10
    <2>5. Order(layout') = InsertAt(Order(layout), n, layout'.active)
      BY <1>7, <1>10, <1>11, <2>3
    <2> QED BY <1>5, <2>4, <2>5, ListInsert
  <1>14. KeepsCells
    BY <1>3, <1>4 DEF KeepsCells
  <1>15. IInv'
    BY <1>4, <1>10, <1>12 DEF IInv
  <1> QED BY <1>10, <1>12, <1>13, <1>14, <1>15 DEF Good

LEMMA FocusedGood ==
    ASSUME IInv, NEW id \in Panes(layout), Focused(layout, id, layout'), closed' = closed
    PROVE  Good
  <1>1. Whole(layout) /\ Remembered(closed, layout)
    BY DEF IInv
  <1>2. /\ Whole(layout') /\ Panes(layout') = Panes(layout) /\ Order(layout') = Order(layout)
        /\ layout'.leaf = layout.leaf /\ layout'.split = layout.split
        /\ layout'.size = layout.size /\ layout'.active = id
    BY DEF Focused
  <1>3. Remembered(closed', layout')
    BY <1>1, <1>2, SamePanesRemembered
  <1>4. Fits(layout') <=> Fits(layout)
    BY <1>1, <1>2, SameFitting
  <1>5. Listing
    BY <1>1, <1>2, ListFocus
  <1> QED BY <1>2, <1>3, <1>4, <1>5 DEF Good, KeepsCells

LEMMA ReshapedGood ==
    ASSUME IInv, Reshaped(layout, layout'), closed' = closed,
           Fits(layout') \/ dragging'
    PROVE  Good
  <1>1. Whole(layout) /\ Remembered(closed, layout) /\ layout.active \in Panes(layout)
    BY DEF IInv, Whole
  <1>2. /\ Whole(layout') /\ Panes(layout') = Panes(layout) /\ Order(layout') = Order(layout)
        /\ layout'.leaf = layout.leaf /\ layout'.active = layout.active
    BY DEF Reshaped
  <1>3. Remembered(closed', layout')
    BY <1>1, <1>2, SamePanesRemembered
  <1>4. Listing
    BY <1>1, <1>2, ListFocus
  <1> QED BY <1>2, <1>3, <1>4 DEF Good, KeepsCells

LEMMA UnchangedGood ==
    ASSUME IInv, layout' = layout, closed' = closed \/ closed' = None
    PROVE  Good
  <1>1. Whole(layout) /\ Remembered(closed, layout) /\ layout.active \in Panes(layout)
    BY DEF IInv, Whole
  <1>2. Remembered(closed', layout')
    BY <1>1 DEF Remembered
  <1>3. Listing
    BY <1>1, ListFocus
  <1> QED BY <1>1, <1>2, <1>3 DEF Good, KeepsCells

LEMMA LostListing ==
    ASSUME IInv, NEW id \in Panes(layout), Count(layout) > 1, layout' = Without(layout, id),
           LayoutAssumption
    PROVE  /\ Whole(layout') /\ Panes(layout') = Panes(layout) \ {id}
           /\ KeepsCells /\ Listing
  <1>1. Whole(layout) /\ MaxPanes \in Nat
    BY DEF IInv, LayoutAssumption
  <1>2. Lost(layout, id, layout')
    BY <1>1, WithoutWhole
  <1>3. Listing
    BY <1>1, <1>2, ListDelete
  <1>4. Whole(layout') /\ Panes(layout') = Panes(layout) \ {id} /\ Count(layout') = Count(layout) - 1
    BY <1>2 DEF Lost
  <1>5. Count(layout) \in Nat
    BY <1>1, OrderFacts DEF Whole
  <1>6. Count(layout') < Count(layout)
    BY <1>4, <1>5
  <1> QED BY <1>3, <1>4, <1>6 DEF KeepsCells

LEMMA ClosePaneStep ==
    ASSUME LayoutAssumption, IInv, status = "running", NEW id \in Panes(layout), ClosePane(id)
    PROVE  IInv' /\ Good
  <1>1. CASE Count(layout) > 1 /\ Becomes(Without(layout, id), Refresh) /\ UNCHANGED closed
    <2>1. Shown' /\ SizesFollow' /\ layout' = Without(layout, id)
      BY <1>1, RefreshShown
    <2>2. /\ Whole(layout') /\ Panes(layout') = Panes(layout) \ {id} /\ KeepsCells /\ Listing
      BY <1>1, <2>1, LostListing
    <2>3. Remembered(closed', layout')
      BY <1>1, <2>2, SamePanesRemembered DEF IInv
    <2> QED BY <2>1, <2>2, <2>3 DEF IInv, Good
  <1>2. CASE status' = "exited" /\ UNCHANGED <<layout, closed, pty, dragging>>
    <2>1. Good
      BY <1>2, UnchangedGood
    <2>2. Shown' /\ SizesFollow'
      BY <1>2 DEF IInv, Shown, SizesFollow
    <2> QED BY <2>1, <2>2 DEF IInv, Good
  <1> QED BY <1>1, <1>2 DEF ClosePane

\* The layout that the undo finds again is the one that was whole here.
LEMMA HidePaneStep ==
    ASSUME LayoutAssumption, IInv, status = "running", NEW id \in Panes(layout), HidePane(id)
    PROVE  IInv' /\ Good
  <1>1. Count(layout) > 1 /\ Becomes(Without(layout, id), {dragging})
    BY DEF HidePane
  <1>2. closed' = [before |-> Tree(layout), after |-> Tree(layout'), id |-> id]
    BY DEF HidePane
  <1>3. Shown' /\ SizesFollow' /\ layout' = Without(layout, id)
    BY <1>1, RefreshShown
  <1>4. /\ Whole(layout') /\ Panes(layout') = Panes(layout) \ {id} /\ KeepsCells /\ Listing
    BY <1>1, <1>3, LostListing
  <1>5. Remembered(closed', layout')
    <2>1. closed'.id = id /\ closed'.before = Tree(layout) /\ closed'.after = Tree(layout')
      BY <1>2
    <2>2. closed'.id \notin Panes(layout')
      BY <1>4, <2>1
    <2>3. /\ Whole(layout) /\ Count(layout) > 1 /\ closed'.id \in Panes(layout)
          /\ closed'.before = Tree(layout) /\ closed'.after = Tree(Without(layout, closed'.id))
      BY <1>1, <1>3, <2>1 DEF IInv
    <2> QED BY <2>2, <2>3 DEF Remembered
  <1> QED BY <1>3, <1>4, <1>5 DEF IInv, Good

LEMMA HiddenExitsStep ==
    ASSUME IInv, HiddenExits
    PROVE  IInv' /\ Good
  <1>1. Good
    BY UnchangedGood DEF HiddenExits
  <1>2. Shown' /\ SizesFollow'
    BY DEF HiddenExits, IInv, Shown, SizesFollow
  <1> QED BY <1>1, <1>2 DEF IInv, Good

LEMMA UndoCloseStep ==
    ASSUME LayoutAssumption, IInv, status = "running", UndoClose
    PROVE  IInv' /\ Good
  <1>1. closed # None /\ CanRestore(layout, closed) /\ closed' = None
    BY DEF UndoClose
  <1>2. Becomes(Restored(layout, closed), {dragging})
    BY DEF UndoClose
  <1>3. Shown' /\ SizesFollow' /\ layout' = Restored(layout, closed)
    BY <1>2, RefreshShown
  <1>4. Whole(layout) /\ Remembered(closed, layout)
    BY DEF IInv
  <1>5. /\ Whole(layout') /\ layout'.active = closed.id /\ closed.id \notin Panes(layout)
        /\ \E i \in 1 .. Len(Order(layout')) : Order(layout') = InsertAt(Order(layout), i, closed.id)
    BY <1>1, <1>3, <1>4, RestoredWhole
  <1>6. Listing
    <2>1. PICK i \in 1 .. Len(Order(layout')) :
            Order(layout') = InsertAt(Order(layout), i, layout'.active)
      BY <1>5
    <2> QED BY <1>4, <1>5, <2>1, ListInsert
  <1>7. Remembered(closed', layout')
    BY <1>1 DEF Remembered
  <1> QED BY <1>1, <1>3, <1>5, <1>6, <1>7 DEF IInv, Good, KeepsCells

LEMMA SelectPaneStep ==
    ASSUME IInv, status = "running", NEW id \in Panes(layout), SelectPane(id)
    PROVE  IInv' /\ Good
  <1>1. Shown' /\ SizesFollow' /\ layout' = Selected(id)
    BY RefreshShown DEF SelectPane
  <1>2. Focused(layout, id, layout')
    BY <1>1, SelectWhole DEF IInv, Selected
  <1>3. Good
    BY <1>2, FocusedGood DEF SelectPane
  <1> QED BY <1>1, <1>3 DEF IInv, Good

LEMMA ZoomPaneStep ==
    ASSUME IInv, status = "running", NEW id \in Panes(layout), ZoomPane(id)
    PROVE  IInv' /\ Good
  <1>1. PICK zoom : zoom = (Count(layout) > 1 /\ ~layout.zoomed)
    OBVIOUS
  <1>2. Becomes([Selected(id) EXCEPT !.zoomed = zoom], Refresh) /\ closed' = closed
    BY <1>1 DEF ZoomPane
  <1>3. Shown' /\ SizesFollow' /\ layout' = [Selected(id) EXCEPT !.zoomed = zoom]
    BY <1>2, RefreshShown
  <1>4. layout' = [layout EXCEPT !.active = id, !.zoomed = zoom]
    BY <1>3 DEF Selected
  <1>5. zoom \in BOOLEAN /\ (zoom => Count(layout) > 1)
    BY <1>1
  <1>6. Focused(layout, id, layout')
    BY <1>4, <1>5, FocusWhole DEF IInv
  <1>7. Good
    BY <1>2, <1>6, FocusedGood
  <1> QED BY <1>3, <1>7 DEF IInv, Good

LEMMA SwapPanesStep ==
    ASSUME IInv, status = "running", NEW a \in Panes(layout), NEW b \in Panes(layout), SwapPanes(a, b)
    PROVE  IInv' /\ Good
  <1>1. Shown' /\ SizesFollow' /\ layout' = Exchange(layout, a, b)
    BY RefreshShown DEF SwapPanes
  <1>2. Whole(layout) /\ Remembered(closed, layout) /\ closed' = closed
    BY DEF IInv, SwapPanes
  <1>3. Exchanged(layout, layout')
    BY <1>1, <1>2, ExchangeWhole
  <1>4. /\ Whole(layout') /\ Panes(layout') = Panes(layout) /\ layout'.active = layout.active
        /\ layout'.size = layout.size /\ DOMAIN layout'.leaf = DOMAIN layout.leaf
        /\ layout'.split = layout.split
    BY <1>3 DEF Exchanged
  <1>5. PICK i \in DOMAIN Order(layout), j \in DOMAIN Order(layout) :
          Order(layout') = [Order(layout) EXCEPT ![i] = Order(layout)[j], ![j] = Order(layout)[i]]
    BY <1>3 DEF Exchanged
  <1>6. Listing
    BY <1>4, <1>5, ListExchange
  <1>7. Remembered(closed', layout')
    BY <1>2, <1>4, SamePanesRemembered
  <1>8. Fits(layout') <=> Fits(layout)
    BY <1>2, <1>4, SameFitting
  <1> QED BY <1>1, <1>4, <1>6, <1>7, <1>8 DEF IInv, Good, KeepsCells

LEMMA NeighborIsPane ==
    ASSUME NEW l, NEW id, NEW d, NEW forward, NEW other \in Neighbor(l, id, d, forward)
    PROVE  other \in Panes(l)
  BY DEF Neighbor, Panes

\* Of the movements allowed the longest is one.
LEMMA ResizePaneStep ==
    ASSUME LayoutAssumption, IInv, status = "running", NEW id \in Panes(layout),
           NEW d \in Dimensions, NEW forward \in BOOLEAN, NEW cells \in Cells,
           ResizePane(id, d, forward, cells)
    PROVE  IInv' /\ Good
  <1> DEFINE moved(n) == Adjust(layout, id, d, Signed(n, forward))
             allowed == {n \in 1 .. cells : moved(n) # layout /\ Fits(moved(n))}
  <1>1. allowed # {} /\ Becomes(moved(Max(allowed)), Refresh) /\ closed' = closed
    BY DEF ResizePane
  <1>2. cells \in Nat
    BY DEF LayoutAssumption
  <1>3. allowed \subseteq Nat /\ \A n \in allowed : n <= cells
    BY <1>2
  <1>4. Max(allowed) \in allowed
    <2> HIDE DEF allowed
    <2> QED BY <1>1, <1>2, <1>3, MaxIsOne
  <1>5. PICK n : n = Max(allowed)
    OBVIOUS
  <1>6. n \in 1 .. cells /\ Fits(moved(n)) /\ Becomes(moved(n), Refresh)
    BY <1>1, <1>4, <1>5
  <1>7. Shown' /\ SizesFollow' /\ layout' = moved(n)
    BY <1>6, RefreshShown
  <1>8. PICK delta \in Int : delta = Signed(n, forward)
    <2>1. n \in Int /\ -n \in Int
      BY <1>2, <1>6
    <2> QED BY <2>1 DEF Signed
  <1>9. layout' = Adjust(layout, id, d, delta) /\ Fits(layout')
    BY <1>6, <1>7, <1>8
  <1> HIDE DEF moved, allowed
  <1>10. Reshaped(layout, layout')
    BY <1>9, AdjustWhole DEF IInv
  <1>11. Good
    BY <1>1, <1>9, <1>10, ReshapedGood
  <1> QED BY <1>7, <1>11 DEF IInv, Good

LEMMA DragStep ==
    ASSUME LayoutAssumption, IInv, status = "running", NEW p \in DOMAIN layout.split,
           NEW cells \in Cells, NEW forward \in BOOLEAN, Drag(p, cells, forward)
    PROVE  IInv' /\ Good
  <1>1. PICK delta \in Int : delta = Signed(cells, forward)
    <2>1. cells \in Int /\ -cells \in Int
      BY DEF LayoutAssumption
    <2> QED BY <2>1 DEF Signed
  <1>2. layout' = MoveSeparator(layout, p, delta) /\ dragging' = TRUE /\ UNCHANGED <<closed, pty, status>>
    BY <1>1 DEF Drag
  <1>3. Reshaped(layout, layout')
    BY <1>2, MoveWhole DEF IInv
  <1>4. Good
    BY <1>2, <1>3, ReshapedGood
  <1>5. Panes(layout') = Panes(layout)
    BY <1>3 DEF Reshaped
  <1>6. Shown' /\ SizesFollow'
    BY <1>2, <1>5 DEF IInv, Shown, SizesFollow
  <1> QED BY <1>4, <1>6 DEF IInv, Good

LEMMA FinishDragStep ==
    ASSUME IInv, status = "running", FinishDrag
    PROVE  IInv' /\ Good
  <1>1. Shown' /\ SizesFollow' /\ layout' = layout
    BY RefreshShown DEF FinishDrag
  <1>2. Good
    BY <1>1, UnchangedGood DEF FinishDrag
  <1> QED BY <1>1, <1>2 DEF IInv, Good

LEMMA ResizeOuterStep ==
    ASSUME LayoutAssumption, IInv, status = "running", NEW size \in Sizes, ResizeOuter(size)
    PROVE  IInv' /\ Good
  <1>0. closed' = closed
    BY DEF ResizeOuter
  <1>1. CASE /\ RootFits(layout, size) /\ Fits(Resized(layout, size))
             /\ Becomes(Resized(layout, size), {FALSE})
    <2>1. Shown' /\ SizesFollow' /\ layout' = Resized(layout, size)
      BY <1>1, RefreshShown
    <2>2. Reshaped(layout, layout')
      BY <1>1, <2>1, ResizedWhole DEF IInv
    <2>3. Good
      BY <1>0, <1>1, <2>1, <2>2, ReshapedGood
    <2> QED BY <2>1, <2>3 DEF IInv, Good
  <1>2. CASE status' = "failed" /\ UNCHANGED <<layout, pty, dragging>>
    <2>1. Good
      BY <1>0, <1>2, UnchangedGood
    <2>2. Shown' /\ SizesFollow'
      BY <1>2 DEF IInv, Shown, SizesFollow
    <2> QED BY <2>1, <2>2 DEF IInv, Good
  <1> QED BY <1>1, <1>2 DEF ResizeOuter

-----------------------------------------------------------------------------
(* The theorems.                                                           *)

LEMMA InitIsWhole ==
    ASSUME LayoutAssumption, Init
    PROVE  IInv /\ Listed!Init
  <1>1. PICK size \in Sizes, id \in Ids : layout = Single(size, id)
    BY DEF Init
  <1>2. Whole(layout) /\ Order(layout) = <<id>> /\ layout.active = id
    BY <1>1, SingleWhole
  <1>3. Remembered(closed, layout)
    BY DEF Init, Remembered
  <1>4. Shown /\ SizesFollow
    <2>1. DOMAIN pty = Panes(layout)
      BY PtyDomain DEF Init
    <2> QED BY <2>1 DEF Init, Shown, SizesFollow
  <1>5. Listed!Init
    BY <1>2 DEF Listed!Init
  <1> QED BY <1>2, <1>3, <1>4, <1>5 DEF IInv

LEMMA AnyStep ==
    ASSUME LayoutAssumption, IInv, Next
    PROVE  IInv' /\ Good
  <1>0. status = "running"
    BY DEF Next
  <1>1. ASSUME NEW id \in Panes(layout), PaneStep(id) PROVE IInv' /\ Good
    <2>1. CASE ClosePane(id)
      BY <1>0, <2>1, ClosePaneStep
    <2>2. CASE HidePane(id)
      BY <1>0, <2>2, HidePaneStep
    <2>3. CASE SelectPane(id)
      BY <1>0, <2>3, SelectPaneStep
    <2>4. CASE ZoomPane(id)
      BY <1>0, <2>4, ZoomPaneStep
    <2>5. ASSUME NEW b \in Panes(layout), SwapPanes(id, b) PROVE IInv' /\ Good
      BY <1>0, <2>5, SwapPanesStep
    <2>6. ASSUME NEW d \in Dimensions, SplitPane(id, d) PROVE IInv' /\ Good
      BY <1>0, <2>6, SplitPaneStep
    <2>7. ASSUME NEW d \in Dimensions, NEW forward \in BOOLEAN, SelectDirection(id, d, forward)
          PROVE  IInv' /\ Good
      <3>1. PICK other \in Neighbor(layout, id, d, forward) : SelectPane(other)
        BY <2>7 DEF SelectDirection
      <3>2. other \in Panes(layout)
        BY NeighborIsPane
      <3> QED BY <1>0, <3>1, <3>2, SelectPaneStep
    <2>8. ASSUME NEW d \in Dimensions, NEW forward \in BOOLEAN, MovePane(id, d, forward)
          PROVE  IInv' /\ Good
      <3>1. PICK other \in Neighbor(layout, id, d, forward) : SwapPanes(id, other)
        BY <2>8 DEF MovePane
      <3>2. other \in Panes(layout)
        BY NeighborIsPane
      <3> QED BY <1>0, <3>1, <3>2, SwapPanesStep
    <2>9. ASSUME NEW d \in Dimensions, NEW forward \in BOOLEAN, NEW cells \in Cells,
                 ResizePane(id, d, forward, cells)
          PROVE  IInv' /\ Good
      BY <1>0, <2>9, ResizePaneStep
    <2> QED BY <1>1, <2>1, <2>2, <2>3, <2>4, <2>5, <2>6, <2>7, <2>8, <2>9 DEF PaneStep
  <1>2. CASE HiddenExits
    BY <1>2, HiddenExitsStep
  <1>3. CASE UndoClose
    BY <1>0, <1>3, UndoCloseStep
  <1>4. ASSUME NEW p \in DOMAIN layout.split, NEW cells \in Cells, NEW forward \in BOOLEAN,
               Drag(p, cells, forward)
        PROVE  IInv' /\ Good
    BY <1>0, <1>4, DragStep
  <1>5. CASE FinishDrag
    BY <1>0, <1>5, FinishDragStep
  <1>6. ASSUME NEW size \in Sizes, ResizeOuter(size) PROVE IInv' /\ Good
    BY <1>0, <1>6, ResizeOuterStep
  <1> QED BY <1>1, <1>2, <1>3, <1>4, <1>5, <1>6 DEF Next

LEMMA Stutters ==
    ASSUME IInv, UNCHANGED vars
    PROVE  IInv' /\ UNCHANGED <<Order(layout), layout.active>>
  BY DEF IInv, vars, Shown, SizesFollow

\* In every reachable state the layout is whole: a finite binary tree that fits
\* its canvas, whose leaves are distinct panes in one order; what a close has
\* kept can be restored, and the PTYs follow the layout.
THEOREM Invariance == Spec => []IInv
  <1>1. Init => IInv
    BY InitIsWhole, LayoutAssumption
  <1>2. IInv /\ [Next]_vars => IInv'
    BY AnyStep, Stutters, LayoutAssumption
  <1> QED BY <1>1, <1>2, PTL DEF Spec

LEMMA WholeIsTyped ==
    ASSUME IInv
    PROVE  TypeOK
  <1>1. /\ Grown(layout) /\ Marked(layout) /\ Ordered(layout) /\ layout.size \in Sizes
        /\ layout.active \in Panes(layout) /\ Count(layout) <= MaxPanes
        /\ (layout.zoomed => Count(layout) > 1)
    BY DEF IInv, Whole
  <1>2. \A p \in DOMAIN layout.split : layout.split[p].axis \in Dimensions
    BY <1>1, SplitFacts
  <1>3. PICK n \in Nat : n = Count(layout)
    BY <1>1, OrderFacts
  <1>7. PICK o : o = Order(layout)
    OBVIOUS
  <1>4. Panes(layout) = {o[i] : i \in 1 .. n} /\ \A i, j \in 1 .. n : o[i] = o[j] => i = j
    BY <1>1, <1>3, <1>7, OrderFacts
  <1>5. Cardinality(Panes(layout)) = n
    <2>1. \A i, j \in 1 .. n : i < j => o[i] # o[j]
      BY <1>4
    <2>2. \A m \in 0 .. n : /\ IsFiniteSet({o[i] : i \in 1 .. m})
                            /\ Cardinality({o[i] : i \in 1 .. m}) = m
      BY <2>1, CountOfSequence
    <2>3. n \in 0 .. n
      OBVIOUS
    <2> QED BY <1>4, <2>2, <2>3
  <1>6. Panes(layout) \subseteq Ids
    BY <1>1 DEF Panes, Marked
  <1> QED BY <1>1, <1>2, <1>3, <1>5, <1>6 DEF TypeOK, IInv, Shown, Grown

\* The panes form a binary tree of at most MAX_PANES distinct leaves, focus and
\* zoom are on one of them, and the PTYs are theirs, on every canvas and after
\* every mix of keys, scripts, drags, resizes and exits.
THEOREM TypeCorrect == Spec => []TypeOK
  <1>1. IInv => TypeOK
    BY WholeIsTyped
  <1> QED BY <1>1, Invariance, PTL

LEMMA WholeTiles ==
    ASSUME IInv
    PROVE  Tiling
  <1> DEFINE r == Rects(layout)
             parts == [p \in Nodes(layout) |->
                         IF p \in DOMAIN layout.leaf THEN r[p] ELSE Separator(layout, r, p)]
  <1>1. Grown(layout) /\ Marked(layout) /\ Fitting(layout)
    BY DEF IInv, Whole
  <1>2. /\ \A p \in Nodes(layout), d \in Dimensions :
             /\ Start(Part(layout, p), d) >= 0 /\ End(Part(layout, p), d) <= layout.size[d]
             /\ Part(layout, p).size[d] > 0
        /\ \A p \in Nodes(layout) : \A q \in Nodes(layout) \ {p} :
             Beside(Part(layout, p), Part(layout, q))
    BY <1>1, PartsTile
  <1>3. \A p \in Nodes(layout) : parts[p] = Part(layout, p)
    BY DEF Part
  <1> HIDE DEF parts
  <1>4. \A p \in Nodes(layout), d \in Dimensions :
          /\ Start(parts[p], d) >= 0 /\ End(parts[p], d) <= layout.size[d]
          /\ parts[p].size[d] > 0
    BY <1>2, <1>3
  <1>5. \A p \in Nodes(layout) : \A q \in Nodes(layout) \ {p} :
          \E d \in Dimensions : \/ End(parts[p], d) <= Start(parts[q], d)
                                \/ End(parts[q], d) <= Start(parts[p], d)
    <2>1. \A p \in Nodes(layout) : \A q \in Nodes(layout) \ {p} : Beside(parts[p], parts[q])
      BY <1>2, <1>3
    <2> QED BY <2>1 DEF Beside
  <1> QED BY <1>4, <1>5 DEF Tiling, parts

\* split_rects gives every pane and every separator of every reachable tree at
\* least a cell inside the canvas and no cell twice, whatever the sequence of
\* splits, closes, drags and resizes that has left its shares.
THEOREM AlwaysTiled == Spec => []Tiling
  <1>1. IInv => Tiling
    BY WholeTiles
  <1> QED BY <1>1, Invariance, PTL

\* No handler leaves a PTY behind at the size its pane had before: outside of a
\* drag the sizes are those of the layout, zoomed or tiled.
THEOREM SizesSynchronized == Spec => []SizesFollow
  <1>1. IInv => SizesFollow
    BY DEF IInv
  <1> QED BY <1>1, Invariance, PTL

\* No key and no script request takes the last cell of a pane, except by a
\* close or an undo: the guards of split, resize and outer resize are enough, and
\* focus, zoom, swap and move change no rectangle.
THEOREM CellsKept == Spec => ContentKept
  <1>1. IInv /\ [Next]_vars => [KeepsCells]_vars
    BY AnyStep, LayoutAssumption DEF Good
  <1>2. Spec => [][KeepsCells]_vars
    BY <1>1, Invariance, PTL DEF Spec
  <1> QED BY <1>2 DEF ContentKept, KeepsCells

\* Whatever happens to its geometry, a window is the list of panes of PaneList:
\* a split inserts one, a close deletes one and hands the focus to its neighbour,
\* an undo inserts the closed one again and loses none of those opened since.
THEOREM ListRefinement == Spec => ListedSpec
  <1>1. Init => Listed!Init
    BY InitIsWhole, LayoutAssumption
  <1>2. IInv /\ [Next]_vars => [Listed!Next]_<<Order(layout), layout.active>>
    BY AnyStep, Stutters, LayoutAssumption DEF Good, Listing
  <1> QED BY <1>1, <1>2, Invariance, PTL DEF Spec, ListedSpec, Listed!Spec
=============================================================================
