-------------------------- MODULE ConfigTreeProofs --------------------------
(***************************************************************************)
(* Theorems about ConfigTree, for any layers, files, types and resolvers:  *)
(* what its walks over trees return, at any height; that layers which fit  *)
(* the destination one by one still do when merged and resolved; and that  *)
(* a layer expands exactly if what it includes can be reached without a    *)
(* failure, at most MaxIncludeDepth files deep.                            *)
(* Induction over a tree is induction over its height, which is an         *)
(* argument about the least height at which the claim would be false.      *)
(***************************************************************************)
EXTENDS ConfigTree, SequenceTheorems, WellFoundedInduction, TLAPS

LEMMA Induction ==
  ASSUME NEW N \in Nat, NEW S, \A n \in 0 .. N : (\A k \in 0 .. n - 1 : k \in S) => n \in S
  PROVE  \A n \in 0 .. N : n \in S
<1> DEFINE R == OpToRel(<, Nat)
           T == (0 .. N) \ S
<1>1. \A a, b \in Nat : a < b => <<a, b>> \in R
  BY DEF OpToRel
<1>2. IsWellFoundedOn(R, Nat)
  BY NatLessThanWellFounded DEF R
<1> HIDE DEF R
<1>3. ASSUME T # {} PROVE FALSE
  <2>1. T \subseteq Nat
    OBVIOUS
  <2>2. PICK m \in T : \A k \in T : <<k, m>> \notin R
    BY <1>2, <1>3, <2>1, WFMin
  <2>3. ASSUME NEW k \in 0 .. m - 1, k \notin S PROVE FALSE
    <3>1. k \in T /\ k \in Nat /\ m \in Nat /\ k < m
      BY <2>3
    <3> QED BY <1>1, <2>2, <3>1
  <2> QED BY <2>2, <2>3
<1> QED BY <1>3

LEMMA HighestIsNat == Highest \in Nat /\ Height \in Nat /\ Height <= Highest
<1>1. Height \in Nat /\ MaxIncludeDepth \in Nat
  BY TreeAssumption
<1>2. \A a, b \in Nat : a * (b + 1) \in Nat /\ a <= a * (b + 1)
  OBVIOUS
<1> QED BY <1>1, <1>2 DEF Highest

-----------------------------------------------------------------------------
(* Trees of each height. *)
Inner(kids) == [kind : {"map", "seq"}, kids : [Keys -> kids]]

Stacked(upTo, leaves, n) ==
  upTo = [h \in 0 .. n |->
            IF h = 0 THEN leaves \cup {Nil} ELSE leaves \cup {Nil} \cup Inner(upTo[h - 1])]

LEMMA StackExists ==
  ASSUME NEW leaves, NEW n \in Nat
  PROVE  \E upTo : Stacked(upTo, leaves, n)
<1> DEFINE S == {m \in 0 .. n : \E upTo : Stacked(upTo, leaves, m)}
<1>1. ASSUME NEW m \in 0 .. n, \A k \in 0 .. m - 1 : k \in S
      PROVE  \E upTo : Stacked(upTo, leaves, m)
  <2>1. CASE m = 0
    <3>1. Stacked([h \in {0} |-> leaves \cup {Nil}], leaves, 0)
      BY DEF Stacked
    <3> QED BY <2>1, <3>1
  <2>2. CASE m > 0
    <3>1. m - 1 \in Nat /\ m - 1 \in S
      BY <1>1, <2>2
    <3>2. PICK u : Stacked(u, leaves, m - 1)
      BY <3>1
    <3> DEFINE v == [h \in 0 .. m |-> IF h < m THEN u[h] ELSE leaves \cup {Nil} \cup Inner(u[m - 1])]
    <3>3. /\ v = [h \in 0 .. m |-> v[h]]
          /\ \A h \in 0 .. m : h < m => v[h] = u[h]
          /\ v[m] = leaves \cup {Nil} \cup Inner(u[m - 1])
      BY <2>2
    <3>4. \A h \in 0 .. m - 1 : u[h] = IF h = 0 THEN leaves \cup {Nil}
                                       ELSE leaves \cup {Nil} \cup Inner(u[h - 1])
      BY <3>1, <3>2 DEF Stacked
    <3> HIDE DEF v
    <3>5. ASSUME NEW h \in 0 .. m
          PROVE  v[h] = IF h = 0 THEN leaves \cup {Nil} ELSE leaves \cup {Nil} \cup Inner(v[h - 1])
      <4>1. CASE h = m
        BY <2>2, <3>3, <4>1
      <4>2. CASE h < m
        <5>1. h \in 0 .. m - 1 /\ (h # 0 => h - 1 \in 0 .. m /\ h - 1 < m)
          BY <3>1, <4>2
        <5>2. v[h] = u[h] /\ (h # 0 => v[h - 1] = u[h - 1])
          BY <3>3, <4>2, <5>1
        <5>3. u[h] = IF h = 0 THEN leaves \cup {Nil} ELSE leaves \cup {Nil} \cup Inner(u[h - 1])
          BY <3>4, <5>1
        <5> QED BY <5>2, <5>3
      <4> QED BY <4>1, <4>2
    <3>6. Stacked(v, leaves, m)
      BY <3>3, <3>5 DEF Stacked
    <3> QED BY <3>6
  <2> QED BY <2>1, <2>2
<1>2. \A m \in 0 .. n : m \in S
  <2> HIDE DEF S
  <2>1. \A m \in 0 .. n : (\A k \in 0 .. m - 1 : k \in S) => m \in S
    BY <1>1 DEF S
  <2> QED BY <2>1, Induction
<1> QED BY <1>2

LEMMA TreesByHeight ==
  ASSUME NEW leaves, NEW h \in 0 .. Highest
  PROVE  /\ h = 0 => Trees(leaves)[h] = leaves \cup {Nil}
         /\ h # 0 => Trees(leaves)[h] = leaves \cup {Nil} \cup Inner(Trees(leaves)[h - 1])
<1> DEFINE upTo == CHOOSE u : Stacked(u, leaves, Highest)
<1>1. Stacked(upTo, leaves, Highest)
  BY StackExists, HighestIsNat
<1>2. Trees(leaves) = upTo
  BY DEF Trees, Stacked, Inner
<1> HIDE DEF upTo
<1> QED BY <1>1, <1>2, HighestIsNat DEF Stacked

LEMMA Shapes ==
  ASSUME NEW leaves \in SUBSET (Unplaced \cup Placed), NEW h \in 0 .. Highest, NEW n \in Trees(leaves)[h]
  PROVE  /\ HasKids(n) => h > 0 /\ n = [kind |-> n.kind, kids |-> n.kids]
                          /\ n.kids \in [Keys -> Trees(leaves)[h - 1]] /\ n # Nil
         /\ ~HasKids(n) => n = Nil \/ (n \in leaves /\ n.kind = "scalar" /\ n # Nil)
         /\ ~IsError(n)
<1> DEFINE kids == Trees(leaves)[h - 1]
<1>1. n \in leaves \/ n = Nil \/ (h > 0 /\ n \in Inner(kids))
  BY TreesByHeight
<1> HIDE DEF kids
<1>2. ASSUME n \in leaves PROVE n.kind = "scalar" /\ n # Nil
  BY <1>2 DEF Unplaced, Placed, Nil
<1>3. ASSUME n \in Inner(kids)
      PROVE  n.kind \in {"map", "seq"} /\ n = [kind |-> n.kind, kids |-> n.kids] /\ n.kids \in [Keys -> kids]
             /\ n # Nil
  BY <1>3 DEF Inner, Nil
<1> QED BY <1>1, <1>2, <1>3 DEF HasKids, IsError, Nil, kids

LEMMA Branch ==
  ASSUME NEW leaves, NEW h \in 1 .. Highest, NEW kids \in [Keys -> Trees(leaves)[h - 1]],
         NEW kind \in {"map", "seq"}
  PROVE  [kind |-> kind, kids |-> kids] \in Trees(leaves)[h]
<1>1. h \in 0 .. Highest /\ h # 0
  BY HighestIsNat
<1>2. [kind |-> kind, kids |-> kids] \in Inner(Trees(leaves)[h - 1])
  BY DEF Inner
<1> QED BY <1>1, <1>2, TreesByHeight

LEMMA LeavesAreTrees ==
  ASSUME NEW leaves, NEW h \in 0 .. Highest
  PROVE  leaves \cup {Nil} \subseteq Trees(leaves)[h]
BY TreesByHeight

(* More leaves, or more room, make more trees. *)
LEMMA TreesGrow ==
  ASSUME NEW leaves, NEW more, leaves \subseteq more, NEW h \in 0 .. Highest, NEW g \in h .. Highest
  PROVE  Trees(leaves)[h] \subseteq Trees(more)[g]
<1> DEFINE S == {a \in 0 .. Highest : \A b \in a .. Highest : Trees(leaves)[a] \subseteq Trees(more)[b]}
<1>1. ASSUME NEW a \in 0 .. Highest, \A k \in 0 .. a - 1 : k \in S, NEW b \in a .. Highest
      PROVE  Trees(leaves)[a] \subseteq Trees(more)[b]
  <2>1. leaves \cup {Nil} \subseteq Trees(more)[b]
    <3>1. b \in 0 .. Highest
      BY HighestIsNat
    <3> QED BY <3>1, LeavesAreTrees
  <2>2. CASE a = 0
    <3>1. Trees(leaves)[a] = leaves \cup {Nil}
      BY <2>2, TreesByHeight
    <3> QED BY <2>1, <3>1
  <2>3. CASE a # 0
    <3>1. a - 1 \in 0 .. a - 1 /\ b - 1 \in a - 1 .. Highest /\ b \in 1 .. Highest
      BY <2>3, HighestIsNat
    <3>2. Trees(leaves)[a - 1] \subseteq Trees(more)[b - 1]
      BY <1>1, <3>1
    <3>3. Inner(Trees(leaves)[a - 1]) \subseteq Inner(Trees(more)[b - 1])
      BY <3>2 DEF Inner
    <3>4. Trees(leaves)[a] = leaves \cup {Nil} \cup Inner(Trees(leaves)[a - 1])
      BY <2>3, TreesByHeight
    <3>5. Inner(Trees(more)[b - 1]) \subseteq Trees(more)[b]
      <4>1. b \in 0 .. Highest /\ b # 0
        BY <3>1
      <4> QED BY <4>1, TreesByHeight
    <3> QED BY <2>1, <3>3, <3>4, <3>5
  <2> QED BY <2>2, <2>3
<1>2. \A a \in 0 .. Highest : a \in S
  <2> HIDE DEF S
  <2>1. \A a \in 0 .. Highest : (\A k \in 0 .. a - 1 : k \in S) => a \in S
    BY <1>1 DEF S
  <2> QED BY <2>1, Induction, HighestIsNat
<1> QED BY <1>2

-----------------------------------------------------------------------------
(* A walk looks at a node's children before the node. *)
Nodes(h) == Trees(Unplaced \cup Placed)[h]

Walked(leaf, walk, n) ==
  IF HasKids(n) THEN Collect([n EXCEPT !.kids = [k \in Keys |-> walk[n.kids[k]]]])
  ELSE IF n = Nil THEN Nil ELSE leaf[n]

LEMMA NodesHaveNodes ==
  ASSUME NEW h \in 0 .. Highest, NEW n \in Nodes(h), HasKids(n), NEW k \in Keys
  PROVE  h - 1 \in 0 .. h - 1 /\ h - 1 \in 0 .. Highest /\ n.kids[k] \in Nodes(h - 1) /\ n.kids[k] \in Nodes(h)
<1>1. h > 0 /\ n.kids[k] \in Nodes(h - 1)
  BY Shapes DEF Nodes
<1>2. h - 1 \in 0 .. Highest /\ h \in h - 1 .. Highest
  BY <1>1, HighestIsNat
<1>3. Nodes(h - 1) \subseteq Nodes(h)
  BY <1>2, TreesGrow DEF Nodes
<1> QED BY <1>1, <1>2, <1>3

LEMMA WalkExists ==
  ASSUME NEW leaf
  PROVE  \E walk : walk = [n \in Node |-> Walked(leaf, walk, n)]
<1> DEFINE Of(walk, h) == walk = [n \in Nodes(h) |-> Walked(leaf, walk, n)]
           S == {h \in 0 .. Highest : \E walk : Of(walk, h)}
<1>1. ASSUME NEW h \in 0 .. Highest, \A k \in 0 .. h - 1 : k \in S
      PROVE  \E walk : Of(walk, h)
  <2>1. CASE h = 0
    <3> DEFINE w == [n \in Nodes(0) |-> IF n = Nil THEN Nil ELSE leaf[n]]
    <3>1. \A n \in Nodes(0) : ~HasKids(n)
      BY Shapes, HighestIsNat DEF Nodes
    <3>2. \A n \in Nodes(0) : w[n] = Walked(leaf, w, n)
      BY <3>1 DEF Walked
    <3> HIDE DEF w
    <3>3. w = [n \in Nodes(0) |-> w[n]]
      BY DEF w
    <3>4. Of(w, 0)
      BY <3>2, <3>3
    <3> QED BY <2>1, <3>4
  <2>2. CASE h # 0
    <3>1. h - 1 \in S
      BY <1>1, <2>2
    <3>2. PICK u : Of(u, h - 1)
      BY <3>1
    <3> DEFINE w == [n \in Nodes(h) |-> IF n \in Nodes(h - 1) THEN u[n] ELSE Walked(leaf, u, n)]
    <3>3. w = [n \in Nodes(h) |-> w[n]]
      OBVIOUS
    <3>4. /\ \A n \in Nodes(h) : n \in Nodes(h - 1) => w[n] = u[n]
          /\ \A n \in Nodes(h) : n \notin Nodes(h - 1) => w[n] = Walked(leaf, u, n)
      OBVIOUS
    <3> HIDE DEF w
    <3>5. ASSUME NEW n \in Nodes(h) PROVE w[n] = Walked(leaf, u, n)
      BY <3>2, <3>4
    <3>6. ASSUME NEW n \in Nodes(h) PROVE Walked(leaf, w, n) = Walked(leaf, u, n)
      <4>1. ASSUME HasKids(n), NEW k \in Keys PROVE w[n.kids[k]] = u[n.kids[k]]
        BY <3>4, <4>1, NodesHaveNodes
      <4>2. HasKids(n) => [k \in Keys |-> w[n.kids[k]]] = [k \in Keys |-> u[n.kids[k]]]
        BY <4>1
      <4> QED BY <4>2 DEF Walked
    <3>7. Of(w, h)
      BY <3>3, <3>5, <3>6
    <3> QED BY <3>7
  <2> QED BY <2>1, <2>2
<1>2. Highest \in S
  <2> HIDE DEF S
  <2>1. \A h \in 0 .. Highest : (\A k \in 0 .. h - 1 : k \in S) => h \in S
    BY <1>1 DEF S
  <2> QED BY <2>1, Induction, HighestIsNat
<1> QED BY <1>2 DEF Node, Nodes

LEMMA Walking ==
  ASSUME NEW leaf, NEW n \in Node
  PROVE  /\ HasKids(n) => Walk(leaf, n) = Collect([n EXCEPT !.kids = [k \in Keys |-> Walk(leaf, n.kids[k])]])
         /\ n = Nil => Walk(leaf, n) = Nil
         /\ ~HasKids(n) /\ n # Nil => Walk(leaf, n) = leaf[n]
<1> DEFINE walk == CHOOSE w : w = [m \in Node |-> Walked(leaf, w, m)]
<1>1. walk = [m \in Node |-> Walked(leaf, walk, m)]
  BY WalkExists
<1>2. \A m : Walk(leaf, m) = walk[m]
  BY DEF Walk, Walked
<1> HIDE DEF walk
<1>3. walk[n] = Walked(leaf, walk, n)
  BY <1>1
<1>4. ~HasKids(Nil)
  BY DEF HasKids, Nil
<1> QED BY <1>2, <1>3, <1>4 DEF Walked

LEMMA Collected ==
  ASSUME NEW kind \in {"map", "seq"}, NEW kids, kids = [k \in Keys |-> kids[k]]
  PROVE  LET c == Collect([kind |-> kind, kids |-> kids])
         IN  IF \E k \in Keys : IsError(kids[k]) THEN IsError(c) ELSE c = [kind |-> kind, kids |-> kids]
<1> DEFINE bad == {k \in Keys : IsError(kids[k])}
           first == CHOOSE k \in bad : TRUE
<1>1. bad # {} => first \in bad
  OBVIOUS
<1>2. Collect([kind |-> kind, kids |-> kids]) = IF bad = {} THEN [kind |-> kind, kids |-> kids] ELSE kids[first]
  BY DEF Collect
<1> QED BY <1>1, <1>2

LEMMA WalkingKids ==
  ASSUME NEW leaf, NEW h \in 0 .. Highest, NEW n \in Nodes(h), HasKids(n)
  PROVE  LET kids == [k \in Keys |-> Walk(leaf, n.kids[k])]
         IN  IF \E k \in Keys : IsError(kids[k]) THEN IsError(Walk(leaf, n))
             ELSE Walk(leaf, n) = [kind |-> n.kind, kids |-> kids]
<1> DEFINE kids == [k \in Keys |-> Walk(leaf, n.kids[k])]
<1>1. n \in Node
  BY TreesGrow, HighestIsNat DEF Nodes, Node
<1>2. n = [kind |-> n.kind, kids |-> n.kids] /\ n.kind \in {"map", "seq"}
  BY Shapes DEF Nodes, HasKids
<1>3. [n EXCEPT !.kids = kids] = [kind |-> n.kind, kids |-> kids]
  BY <1>2
<1>4. Walk(leaf, n) = Collect([kind |-> n.kind, kids |-> kids])
  BY <1>1, <1>3, Walking
<1>5. kids = [k \in Keys |-> kids[k]]
  OBVIOUS
<1> HIDE DEF kids
<1> QED BY <1>2, <1>4, <1>5, Collected DEF kids

(* What walks return: an error, or a tree that is as much higher as what   *)
(* replaces its leaves, with the same root.                                *)
LEMMA WalkReturns ==
  ASSUME NEW leaves \in SUBSET (Unplaced \cup Placed), NEW more \in SUBSET (Unplaced \cup Placed),
         NEW leaf, NEW g \in 0 .. Highest,
         \A l \in leaves : IsError(leaf[l]) \/ leaf[l] \in Trees(more)[g],
         NEW h \in 0 .. Highest, g + h <= Highest, NEW n \in Trees(leaves)[h]
  PROVE  LET walk == Walk(leaf, n)
         IN  /\ IsError(walk) \/ walk \in Trees(more)[g + h]
             /\ HasKids(n) /\ ~IsError(walk) => walk.kind = n.kind
<1> DEFINE S == {a \in 0 .. h : \A m \in Trees(leaves)[a] :
                   IsError(Walk(leaf, m)) \/ Walk(leaf, m) \in Trees(more)[g + a]}
<1>1. \A a \in 0 .. h : a \in 0 .. Highest /\ Trees(leaves)[a] \subseteq Nodes(a)
  <2> TAKE a \in 0 .. h
  <2>1. a \in 0 .. Highest /\ a \in a .. Highest
    BY HighestIsNat
  <2> QED BY <2>1, TreesGrow DEF Nodes
<1>2. ASSUME NEW a \in 0 .. h, \A k \in 0 .. a - 1 : k \in S, NEW m \in Trees(leaves)[a]
      PROVE  IsError(Walk(leaf, m)) \/ Walk(leaf, m) \in Trees(more)[g + a]
  <2>1. a \in 0 .. Highest /\ g + a \in 0 .. Highest /\ m \in Nodes(a) /\ m \in Node
    <3>1. Highest \in a .. Highest /\ Highest \in 0 .. Highest
      BY HighestIsNat
    <3>2. Nodes(a) \subseteq Node
      BY <1>1, <3>1, TreesGrow DEF Nodes, Node
    <3>3. g + a \in 0 .. Highest
      BY HighestIsNat
    <3> QED BY <1>1, <3>2, <3>3
  <2>2. CASE HasKids(m)
    <3> DEFINE kids == [k \in Keys |-> Walk(leaf, m.kids[k])]
    <3>1. a - 1 \in S /\ a > 0 /\ m.kids \in [Keys -> Trees(leaves)[a - 1]] /\ m.kind \in {"map", "seq"}
      <4>1. a > 0 /\ m.kids \in [Keys -> Trees(leaves)[a - 1]]
        BY <2>1, <2>2, Shapes
      <4> QED BY <1>2, <2>2, <4>1 DEF HasKids
    <3>2. CASE \E k \in Keys : IsError(kids[k])
      BY <2>1, <2>2, <3>2, WalkingKids
    <3>3. CASE ~ \E k \in Keys : IsError(kids[k])
      <4>1. \A k \in Keys : kids[k] \in Trees(more)[g + (a - 1)]
        BY <3>1, <3>3
      <4>2. g + a \in 1 .. Highest /\ g + (a - 1) = (g + a) - 1
        BY <2>1, <3>1
      <4>3. kids \in [Keys -> Trees(more)[(g + a) - 1]]
        BY <4>1, <4>2
      <4>4. Walk(leaf, m) = [kind |-> m.kind, kids |-> kids]
        BY <2>1, <2>2, <3>3, WalkingKids
      <4> HIDE DEF kids
      <4>5. [kind |-> m.kind, kids |-> kids] \in Trees(more)[g + a]
        BY <3>1, <4>2, <4>3, Branch
      <4> QED BY <4>4, <4>5
    <3> QED BY <3>2, <3>3
  <2>3. CASE ~HasKids(m)
    <3>1. Trees(more)[g] \subseteq Trees(more)[g + a] /\ Nil \in Trees(more)[g + a]
      <4>1. g + a \in g .. Highest
        BY <2>1
      <4> QED BY <2>1, <4>1, TreesGrow, LeavesAreTrees
    <3>2. m = Nil \/ (m # Nil /\ m \in leaves)
      BY <2>1, <2>3, Shapes
    <3>3. CASE m = Nil
      BY <2>1, <3>1, <3>3, Walking
    <3>4. CASE m # Nil /\ m \in leaves
      BY <2>1, <2>3, <3>1, <3>4, Walking
    <3> QED BY <3>2, <3>3, <3>4
  <2> QED BY <2>2, <2>3
<1>3. h \in S
  <2> HIDE DEF S
  <2>1. \A a \in 0 .. h : (\A k \in 0 .. a - 1 : k \in S) => a \in S
    BY <1>2 DEF S
  <2> QED BY <2>1, Induction, HighestIsNat
<1>4. HasKids(n) /\ ~IsError(Walk(leaf, n)) => Walk(leaf, n).kind = n.kind
  <2>1. n \in Nodes(h)
    BY <1>1
  <2> SUFFICES ASSUME HasKids(n), ~IsError(Walk(leaf, n)) PROVE Walk(leaf, n).kind = n.kind
    OBVIOUS
  <2>2. PICK kids : Walk(leaf, n) = [kind |-> n.kind, kids |-> kids]
    BY <2>1, WalkingKids
  <2> QED BY <2>2
<1> QED BY <1>3, <1>4

(* It does not fail if no leaf does. *)
LEMMA WalkSucceeds ==
  ASSUME NEW leaves \in SUBSET (Unplaced \cup Placed), NEW leaf, \A l \in leaves : ~IsError(leaf[l]),
         NEW h \in 0 .. Highest, NEW n \in Trees(leaves)[h]
  PROVE  ~IsError(Walk(leaf, n))
<1> DEFINE S == {a \in 0 .. h : \A m \in Trees(leaves)[a] : ~IsError(Walk(leaf, m))}
<1>1. ASSUME NEW a \in 0 .. h, \A k \in 0 .. a - 1 : k \in S, NEW m \in Trees(leaves)[a]
      PROVE  ~IsError(Walk(leaf, m))
  <2>1. a \in 0 .. Highest /\ m \in Nodes(a) /\ m \in Node
    <3>1. a \in 0 .. Highest /\ a \in a .. Highest /\ Highest \in a .. Highest
      BY HighestIsNat
    <3> QED BY <3>1, TreesGrow DEF Nodes, Node
  <2>2. CASE HasKids(m)
    <3>1. a - 1 \in S /\ m.kids \in [Keys -> Trees(leaves)[a - 1]]
      <4>1. a > 0 /\ m.kids \in [Keys -> Trees(leaves)[a - 1]]
        BY <2>1, <2>2, Shapes
      <4> QED BY <1>1, <4>1
    <3>2. \A k \in Keys : ~IsError(Walk(leaf, m.kids[k]))
      BY <3>1
    <3>3. PICK kids : Walk(leaf, m) = [kind |-> m.kind, kids |-> kids]
      BY <2>1, <2>2, <3>2, WalkingKids
    <3> QED BY <2>2, <3>3 DEF HasKids, IsError
  <2>3. CASE m = Nil
    BY <2>1, <2>3, Walking DEF IsError, Nil
  <2>4. CASE ~HasKids(m) /\ m # Nil
    <3>1. m \in leaves /\ Walk(leaf, m) = leaf[m]
      BY <2>1, <2>4, Walking, Shapes
    <3> QED BY <3>1
  <2> QED BY <2>2, <2>3, <2>4
<1>2. h \in S
  <2> HIDE DEF S
  <2>1. \A a \in 0 .. h : (\A k \in 0 .. a - 1 : k \in S) => a \in S
    BY <1>1 DEF S
  <2> QED BY <2>1, Induction, HighestIsNat
<1> QED BY <1>2

-----------------------------------------------------------------------------
(* Merging two maps merges their children. *)
Both(b, o) == b.kind = "map" /\ o.kind = "map"

Merged(onto, b) ==
  [o \in Tree |->
     IF b = Nil THEN o
     ELSE IF o = Nil THEN b
     ELSE IF b.kind = "map" /\ o.kind = "map"
       THEN MapNode([k \in Keys |-> onto[b.kids[k]][o.kids[k]]])
     ELSE o]

PlacedAt(h) == Trees(Placed)[h]

LEMMA PlacedKids ==
  ASSUME NEW h \in 0 .. Highest, NEW n \in PlacedAt(h), HasKids(n), NEW k \in Keys
  PROVE  /\ h - 1 \in 0 .. h - 1 /\ h - 1 \in 0 .. Highest
         /\ n.kids[k] \in PlacedAt(h - 1) /\ n.kids[k] \in PlacedAt(h)
<1>1. h > 0 /\ n.kids[k] \in PlacedAt(h - 1)
  BY Shapes DEF PlacedAt
<1>2. h - 1 \in 0 .. Highest /\ h \in h - 1 .. Highest
  BY <1>1, HighestIsNat
<1>3. PlacedAt(h - 1) \subseteq PlacedAt(h)
  BY <1>2, TreesGrow DEF PlacedAt
<1> QED BY <1>1, <1>2, <1>3

LEMMA MergeExists == \E onto : onto = [b \in Tree |-> Merged(onto, b)]
<1> DEFINE Of(onto, h) == onto = [b \in PlacedAt(h) |-> Merged(onto, b)]
           S == {h \in 0 .. Highest : \E onto : Of(onto, h)}
<1>1. ASSUME NEW h \in 0 .. Highest, \A k \in 0 .. h - 1 : k \in S
      PROVE  \E onto : Of(onto, h)
  <2>1. ASSUME NEW u, NEW w, NEW b \in PlacedAt(h),
               HasKids(b) => \A k \in Keys : w[b.kids[k]] = u[b.kids[k]]
        PROVE  Merged(w, b) = Merged(u, b)
    <3>1. ASSUME NEW o, Both(b, o)
          PROVE  [k \in Keys |-> w[b.kids[k]][o.kids[k]]] = [k \in Keys |-> u[b.kids[k]][o.kids[k]]]
      BY <2>1, <3>1 DEF Both, HasKids
    <3> QED BY <3>1 DEF Merged, Both
  <2>2. CASE h = 0
    <3> DEFINE w == [b \in PlacedAt(0) |-> Merged(0, b)]
    <3>1. w = [b \in PlacedAt(0) |-> w[b]] /\ \A b \in PlacedAt(0) : w[b] = Merged(0, b)
      OBVIOUS
    <3>2. \A b \in PlacedAt(0) : ~HasKids(b)
      BY Shapes, HighestIsNat DEF PlacedAt
    <3> HIDE DEF w
    <3>3. \A b \in PlacedAt(0) : Merged(w, b) = Merged(0, b)
      BY <2>1, <2>2, <3>2
    <3>4. Of(w, 0)
      BY <3>1, <3>3
    <3> QED BY <2>2, <3>4
  <2>3. CASE h # 0
    <3>1. PICK u : Of(u, h - 1)
      BY <1>1, <2>3
    <3> DEFINE w == [b \in PlacedAt(h) |-> IF b \in PlacedAt(h - 1) THEN u[b] ELSE Merged(u, b)]
    <3>2. /\ w = [b \in PlacedAt(h) |-> w[b]]
          /\ \A b \in PlacedAt(h) : b \in PlacedAt(h - 1) => w[b] = u[b]
          /\ \A b \in PlacedAt(h) : b \notin PlacedAt(h - 1) => w[b] = Merged(u, b)
      OBVIOUS
    <3> HIDE DEF w
    <3>3. \A b \in PlacedAt(h) : w[b] = Merged(u, b)
      BY <3>1, <3>2
    <3>4. \A b \in PlacedAt(h) : HasKids(b) => \A k \in Keys : w[b.kids[k]] = u[b.kids[k]]
      BY <3>2, PlacedKids
    <3>5. \A b \in PlacedAt(h) : w[b] = Merged(w, b)
      BY <2>1, <3>3, <3>4
    <3>6. Of(w, h)
      BY <3>2, <3>5
    <3> QED BY <3>6
  <2> QED BY <2>2, <2>3
<1>2. Highest \in S
  <2> HIDE DEF S
  <2>1. \A h \in 0 .. Highest : (\A k \in 0 .. h - 1 : k \in S) => h \in S
    BY <1>1 DEF S
  <2> QED BY <2>1, Induction, HighestIsNat
<1> QED BY <1>2 DEF Tree, PlacedAt

LEMMA Merging ==
  ASSUME NEW b \in Tree, NEW o \in Tree
  PROVE  /\ b = Nil => MergeNode(b, o) = o
         /\ o = Nil => MergeNode(b, o) = b
         /\ Both(b, o) => MergeNode(b, o) = MapNode([k \in Keys |-> MergeNode(b.kids[k], o.kids[k])])
         /\ b # Nil /\ o # Nil /\ ~Both(b, o) => MergeNode(b, o) = o
<1> DEFINE onto == CHOOSE m : m = [x \in Tree |-> Merged(m, x)]
<1>1. onto = [x \in Tree |-> Merged(onto, x)]
  BY MergeExists
<1>2. \A x, y : MergeNode(x, y) = onto[x][y]
  BY DEF MergeNode, Merged
<1> HIDE DEF onto
<1>3. onto[b][o] = Merged(onto, b)[o]
  BY <1>1
<1>4. Nil.kind # "map"
  BY DEF Nil
<1> QED BY <1>2, <1>3, <1>4 DEF Merged, Both

LEMMA MergeReturns ==
  ASSUME NEW b \in Tree, NEW o \in Tree
  PROVE  MergeNode(b, o) \in Tree /\ (Both(b, o) => MergeNode(b, o).kind = "map")
<1> DEFINE S == {h \in 0 .. Highest : \A x, y \in PlacedAt(h) : MergeNode(x, y) \in PlacedAt(h)}
<1>1. \A h \in 0 .. Highest : PlacedAt(h) \subseteq Tree
  BY TreesGrow, HighestIsNat DEF PlacedAt, Tree
<1>2. ASSUME NEW h \in 0 .. Highest, \A k \in 0 .. h - 1 : k \in S,
             NEW x \in PlacedAt(h), NEW y \in PlacedAt(h)
      PROVE  MergeNode(x, y) \in PlacedAt(h)
  <2>1. x \in Tree /\ y \in Tree
    BY <1>1
  <2>2. CASE Both(x, y)
    <3> DEFINE kids == [k \in Keys |-> MergeNode(x.kids[k], y.kids[k])]
    <3>1. HasKids(x) /\ HasKids(y)
      BY <2>2 DEF Both, HasKids
    <3>2. h \in 1 .. Highest /\ h - 1 \in 0 .. h - 1
      BY <3>1, Shapes, HighestIsNat DEF PlacedAt
    <3>3. ASSUME NEW k \in Keys PROVE kids[k] \in PlacedAt(h - 1)
      <4>1. h - 1 \in S
        BY <1>2, <3>2
      <4>2. x.kids[k] \in PlacedAt(h - 1) /\ y.kids[k] \in PlacedAt(h - 1)
        BY <3>1, PlacedKids
      <4> QED BY <4>1, <4>2
    <3>4. kids \in [Keys -> Trees(Placed)[h - 1]]
      BY <3>3 DEF PlacedAt
    <3>5. MergeNode(x, y) = [kind |-> "map", kids |-> kids]
      BY <2>1, <2>2, Merging DEF MapNode
    <3> HIDE DEF kids
    <3>6. [kind |-> "map", kids |-> kids] \in Trees(Placed)[h]
      BY <3>2, <3>4, Branch
    <3> QED BY <3>5, <3>6 DEF PlacedAt
  <2>3. CASE ~Both(x, y)
    BY <2>1, <2>3, Merging
  <2> QED BY <2>2, <2>3
<1>3. Highest \in S
  <2> HIDE DEF S
  <2>1. \A h \in 0 .. Highest : (\A k \in 0 .. h - 1 : k \in S) => h \in S
    BY <1>2 DEF S
  <2> QED BY <2>1, Induction, HighestIsNat
<1>4. Both(b, o) => MergeNode(b, o).kind = "map"
  BY Merging DEF MapNode
<1> QED BY <1>3, <1>4 DEF Tree, PlacedAt

-----------------------------------------------------------------------------
(* A node fits a type if its children fit the parts of the type. *)
Fitted(fitted, n) ==
  {t \in Types :
     \/ n = Nil \/ t.kind = "any"
     \/ t.kind = "struct" /\ n.kind = "map" /\ \A k \in DOMAIN t.fields : t.fields[k] \in fitted[n.kids[k]]
     \/ t.kind \in {"map", "seq"} /\ n.kind = t.kind /\ \A k \in Keys : t.elem \in fitted[n.kids[k]]
     \/ t.kind = "scalar" /\ n.kind = "scalar"}

LEMMA FitsExists == \E fitted : fitted = [n \in Node |-> Fitted(fitted, n)]
<1> DEFINE Of(fitted, h) == fitted = [n \in Nodes(h) |-> Fitted(fitted, n)]
           S == {h \in 0 .. Highest : \E fitted : Of(fitted, h)}
<1>1. ASSUME NEW h \in 0 .. Highest, \A k \in 0 .. h - 1 : k \in S
      PROVE  \E fitted : Of(fitted, h)
  <2>1. ASSUME NEW u, NEW w, NEW n \in Nodes(h), HasKids(n) => \A k \in Keys : w[n.kids[k]] = u[n.kids[k]]
        PROVE  Fitted(w, n) = Fitted(u, n)
    <3>1. CASE HasKids(n)
      <4>1. ASSUME NEW t \in Types, t.kind = "struct" PROVE DOMAIN t.fields \subseteq Keys
        BY <4>1, TypesAssumption
      <4> QED BY <2>1, <3>1, <4>1 DEF Fitted
    <3>2. CASE ~HasKids(n)
      BY <3>2 DEF Fitted, HasKids
    <3> QED BY <3>1, <3>2
  <2>2. CASE h = 0
    <3> DEFINE w == [n \in Nodes(0) |-> Fitted(0, n)]
    <3>1. w = [n \in Nodes(0) |-> w[n]] /\ \A n \in Nodes(0) : w[n] = Fitted(0, n)
      OBVIOUS
    <3>2. \A n \in Nodes(0) : ~HasKids(n)
      BY Shapes, HighestIsNat DEF Nodes
    <3> HIDE DEF w
    <3>3. \A n \in Nodes(0) : Fitted(w, n) = Fitted(0, n)
      BY <2>1, <2>2, <3>2
    <3>4. Of(w, 0)
      BY <3>1, <3>3
    <3> QED BY <2>2, <3>4
  <2>3. CASE h # 0
    <3>1. PICK u : Of(u, h - 1)
      BY <1>1, <2>3
    <3> DEFINE w == [n \in Nodes(h) |-> IF n \in Nodes(h - 1) THEN u[n] ELSE Fitted(u, n)]
    <3>2. /\ w = [n \in Nodes(h) |-> w[n]]
          /\ \A n \in Nodes(h) : n \in Nodes(h - 1) => w[n] = u[n]
          /\ \A n \in Nodes(h) : n \notin Nodes(h - 1) => w[n] = Fitted(u, n)
      OBVIOUS
    <3> HIDE DEF w
    <3>3. \A n \in Nodes(h) : w[n] = Fitted(u, n)
      BY <3>1, <3>2
    <3>4. \A n \in Nodes(h) : HasKids(n) => \A k \in Keys : w[n.kids[k]] = u[n.kids[k]]
      BY <3>2, NodesHaveNodes
    <3>5. \A n \in Nodes(h) : w[n] = Fitted(w, n)
      BY <2>1, <3>3, <3>4
    <3>6. Of(w, h)
      BY <3>2, <3>5
    <3> QED BY <3>6
  <2> QED BY <2>2, <2>3
<1>2. Highest \in S
  <2> HIDE DEF S
  <2>1. \A h \in 0 .. Highest : (\A k \in 0 .. h - 1 : k \in S) => h \in S
    BY <1>1 DEF S
  <2> QED BY <2>1, Induction, HighestIsNat
<1> QED BY <1>2 DEF Node, Nodes

LEMMA Fitting ==
  ASSUME NEW n \in Node, NEW t \in Types
  PROVE  Fits(n, t) <=>
           \/ n = Nil \/ t.kind = "any"
           \/ t.kind = "struct" /\ n.kind = "map" /\ \A k \in DOMAIN t.fields : Fits(n.kids[k], t.fields[k])
           \/ t.kind \in {"map", "seq"} /\ n.kind = t.kind /\ \A k \in Keys : Fits(n.kids[k], t.elem)
           \/ t.kind = "scalar" /\ n.kind = "scalar"
<1> DEFINE fitted == CHOOSE f : f = [m \in Node |-> Fitted(f, m)]
<1>1. fitted = [m \in Node |-> Fitted(fitted, m)]
  BY FitsExists
<1>2. \A m, u : Fits(m, u) <=> u \in fitted[m]
  BY DEF Fits, Fitted
<1> HIDE DEF fitted
<1>3. t \in fitted[n] <=> t \in Fitted(fitted, n)
  BY <1>1
<1> QED BY <1>2, <1>3 DEF Fitted

LEMMA TreesAreNodes ==
  ASSUME NEW leaves \in SUBSET (Unplaced \cup Placed), NEW h \in 0 .. Highest
  PROVE  Trees(leaves)[h] \subseteq Node
<1>1. Highest \in h .. Highest
  BY HighestIsNat
<1> QED BY <1>1, TreesGrow DEF Node

(* Two trees that fit a type merge to one that fits it. *)
LEMMA MergeFits ==
  ASSUME NEW b \in Tree, NEW o \in Tree, NEW t \in Types, Fits(b, t), Fits(o, t)
  PROVE  Fits(MergeNode(b, o), t)
<1> DEFINE P(x, y, u) == Fits(x, u) /\ Fits(y, u) => Fits(MergeNode(x, y), u)
           S == {h \in 0 .. Highest : \A x, y \in PlacedAt(h) : \A u \in Types : P(x, y, u)}
<1>1. \A h \in 0 .. Highest : PlacedAt(h) \subseteq Tree /\ PlacedAt(h) \subseteq Node
  BY TreesGrow, TreesAreNodes, HighestIsNat DEF PlacedAt, Tree
<1>2. ASSUME NEW h \in 0 .. Highest, \A k \in 0 .. h - 1 : k \in S,
             NEW x \in PlacedAt(h), NEW y \in PlacedAt(h), NEW u \in Types, Fits(x, u), Fits(y, u)
      PROVE  Fits(MergeNode(x, y), u)
  <2>1. x \in Tree /\ y \in Tree /\ x \in Node /\ y \in Node
    BY <1>1
  <2>2. CASE Both(x, y)
    <3> DEFINE kids == [k \in Keys |-> MergeNode(x.kids[k], y.kids[k])]
               m == MergeNode(x, y)
    <3>1. HasKids(x) /\ HasKids(y)
      BY <2>2 DEF Both, HasKids
    <3>2. m = [kind |-> "map", kids |-> kids]
      BY <2>1, <2>2, Merging DEF MapNode
    <3>3. m.kind = "map" /\ \A k \in Keys : m.kids[k] = MergeNode(x.kids[k], y.kids[k])
      BY <3>2
    <3>4. m \in Node /\ x # Nil /\ y # Nil
      BY <2>1, <2>2, MergeReturns, TreesAreNodes, HighestIsNat DEF Tree, Both, Nil
    <3> HIDE DEF m
    <3>5. ASSUME NEW k \in Keys, NEW v \in Types, Fits(x.kids[k], v), Fits(y.kids[k], v)
          PROVE  Fits(m.kids[k], v)
      <4>1. h - 1 \in S
        BY <1>2, <3>1, PlacedKids
      <4>2. x.kids[k] \in PlacedAt(h - 1) /\ y.kids[k] \in PlacedAt(h - 1)
        BY <3>1, PlacedKids
      <4> QED BY <3>3, <3>5, <4>1, <4>2
    <3>6. CASE u.kind = "any"
      BY <3>4, <3>6, Fitting DEF m
    <3>7. CASE u.kind = "struct"
      <4>1. \A k \in DOMAIN u.fields : k \in Keys /\ u.fields[k] \in Types
        BY <3>7, TypesAssumption
      <4>2. \A k \in DOMAIN u.fields : Fits(x.kids[k], u.fields[k]) /\ Fits(y.kids[k], u.fields[k])
        BY <1>2, <2>1, <3>4, <3>7, Fitting
      <4>3. \A k \in DOMAIN u.fields : Fits(m.kids[k], u.fields[k])
        BY <3>5, <4>1, <4>2
      <4>4. Fits(m, u)
        BY <3>3, <3>4, <3>7, <4>3, Fitting
      <4> QED BY <4>4 DEF m
    <3>8. CASE u.kind \in {"map", "seq"}
      <4>1. u.elem \in Types
        BY <3>8, TypesAssumption
      <4>2. u.kind = "map" /\ \A k \in Keys : Fits(x.kids[k], u.elem) /\ Fits(y.kids[k], u.elem)
        BY <1>2, <2>1, <2>2, <3>4, <3>8, Fitting DEF Both
      <4>3. \A k \in Keys : Fits(m.kids[k], u.elem)
        BY <3>5, <4>1, <4>2
      <4>4. Fits(m, u)
        BY <3>3, <3>4, <3>8, <4>2, <4>3, Fitting
      <4> QED BY <4>4 DEF m
    <3>9. u.kind \in {"any", "struct", "map", "seq"}
      BY <1>2, <2>1, <2>2, <3>4, Fitting DEF Both
    <3> QED BY <3>6, <3>7, <3>8, <3>9
  <2>3. CASE ~Both(x, y)
    BY <1>2, <2>1, <2>3, Merging
  <2> QED BY <2>2, <2>3
<1>3. Highest \in S
  <2> HIDE DEF S
  <2>1. \A h \in 0 .. Highest : (\A k \in 0 .. h - 1 : k \in S) => h \in S
    BY <1>2 DEF S
  <2> QED BY <2>1, Induction, HighestIsNat
<1> QED BY <1>3 DEF Tree, PlacedAt

(* A walk that replaces scalars by scalars returns what fits as before. *)
LEMMA WalkFits ==
  ASSUME NEW leaves \in SUBSET (Unplaced \cup Placed), NEW more \in SUBSET (Unplaced \cup Placed),
         NEW leaf, \A l \in leaves : IsError(leaf[l]) \/ leaf[l] \in more,
         NEW n \in Trees(leaves)[Highest], ~IsError(Walk(leaf, n)), NEW t \in Types, Fits(n, t)
  PROVE  Fits(Walk(leaf, n), t)
<1> DEFINE P(x, u) == ~IsError(Walk(leaf, x)) /\ Fits(x, u) => Fits(Walk(leaf, x), u)
           S == {h \in 0 .. Highest : \A x \in Trees(leaves)[h] : \A u \in Types : P(x, u)}
<1>1. ASSUME NEW h \in 0 .. Highest, \A k \in 0 .. h - 1 : k \in S,
             NEW x \in Trees(leaves)[h], NEW u \in Types, ~IsError(Walk(leaf, x)), Fits(x, u)
      PROVE  Fits(Walk(leaf, x), u)
  <2> DEFINE w == Walk(leaf, x)
  <2>1. x \in Nodes(h) /\ x \in Node
    <3>1. h \in h .. Highest
      BY HighestIsNat
    <3> QED BY <3>1, TreesGrow, TreesAreNodes DEF Nodes
  <2>2. w \in Node
    <3>1. \A l \in leaves : IsError(leaf[l]) \/ leaf[l] \in Trees(more)[0]
      BY LeavesAreTrees, HighestIsNat
    <3>2. w \in Trees(more)[0 + h]
      BY <1>1, <3>1, WalkReturns, HighestIsNat
    <3> QED BY <3>2, TreesAreNodes
  <2>3. CASE HasKids(x)
    <3> DEFINE kids == [k \in Keys |-> Walk(leaf, x.kids[k])]
    <3>1. w = [kind |-> x.kind, kids |-> kids] /\ \A k \in Keys : ~IsError(kids[k])
      BY <1>1, <2>1, <2>3, WalkingKids
    <3>2. w.kind = x.kind /\ \A k \in Keys : w.kids[k] = Walk(leaf, x.kids[k]) /\ ~IsError(Walk(leaf, x.kids[k]))
      BY <3>1
    <3> HIDE DEF w
    <3>3. ASSUME NEW k \in Keys, NEW v \in Types, Fits(x.kids[k], v) PROVE Fits(w.kids[k], v)
      <4>1. h > 0 /\ x.kids[k] \in Trees(leaves)[h - 1]
        BY <2>3, Shapes
      <4>2. h - 1 \in S
        BY <1>1, <4>1
      <4> QED BY <3>2, <3>3, <4>1, <4>2
    <3>4. x # Nil
      BY <2>3 DEF HasKids, Nil
    <3>5. CASE u.kind = "any"
      BY <2>2, <3>5, Fitting DEF w
    <3>6. CASE u.kind = "struct"
      <4>1. \A k \in DOMAIN u.fields : k \in Keys /\ u.fields[k] \in Types
        BY <3>6, TypesAssumption
      <4>2. x.kind = "map" /\ \A k \in DOMAIN u.fields : Fits(x.kids[k], u.fields[k])
        BY <1>1, <2>1, <3>4, <3>6, Fitting
      <4>3. \A k \in DOMAIN u.fields : Fits(w.kids[k], u.fields[k])
        BY <3>3, <4>1, <4>2
      <4>4. Fits(w, u)
        BY <2>2, <3>2, <3>6, <4>2, <4>3, Fitting
      <4> QED BY <4>4 DEF w
    <3>7. CASE u.kind \in {"map", "seq"}
      <4>1. u.elem \in Types
        BY <3>7, TypesAssumption
      <4>2. x.kind = u.kind /\ \A k \in Keys : Fits(x.kids[k], u.elem)
        BY <1>1, <2>1, <3>4, <3>7, Fitting
      <4>3. \A k \in Keys : Fits(w.kids[k], u.elem)
        BY <3>3, <4>1, <4>2
      <4>4. Fits(w, u)
        BY <2>2, <3>2, <3>7, <4>2, <4>3, Fitting
      <4> QED BY <4>4 DEF w
    <3>8. u.kind \in {"any", "struct", "map", "seq"}
      BY <1>1, <2>1, <2>3, <3>4, Fitting DEF HasKids
    <3> QED BY <3>5, <3>6, <3>7, <3>8
  <2>4. CASE x = Nil
    BY <1>1, <2>1, <2>4, Walking
  <2>5. CASE ~HasKids(x) /\ x # Nil
    <3>1. x \in leaves /\ x.kind = "scalar" /\ w = leaf[x]
      BY <2>1, <2>5, Shapes, Walking
    <3>2. w.kind = "scalar"
      BY <1>1, <3>1 DEF Unplaced, Placed
    <3>3. u.kind \in {"any", "scalar"}
      BY <1>1, <2>1, <2>5, <3>1, Fitting
    <3> HIDE DEF w
    <3>4. Fits(w, u)
      BY <2>2, <3>2, <3>3, Fitting
    <3> QED BY <3>4 DEF w
  <2> QED BY <2>3, <2>4, <2>5
<1>2. Highest \in S
  <2> HIDE DEF S
  <2>1. \A h \in 0 .. Highest : (\A k \in 0 .. h - 1 : k \in S) => h \in S
    BY <1>1 DEF S
  <2> QED BY <2>1, Induction, HighestIsNat
<1> QED BY <1>2

-----------------------------------------------------------------------------
(* Paths. *)
LEMMA DroppingTheLast ==
  ASSUME NEW S, NEW s \in Seq(S)
  PROVE  Front(s) \in Seq(S) /\ (s # <<>> => Last(s) \in S)
<1>1. Len(s) \in Nat /\ \A i \in 1 .. Len(s) : s[i] \in S
  BY LenProperties, ElementOfSeq
<1>2. Len(s) - 1 \in Int /\ \A i \in 1 .. Len(s) - 1 : s[i] \in S
  BY <1>1
<1>3. SubSeq(s, 1, Len(s) - 1) \in Seq(S)
  BY <1>2, SubSeqProperties
<1>4. s # <<>> => Len(s) \in 1 .. Len(s)
  BY <1>1, EmptySeq
<1> QED BY <1>1, <1>3, <1>4 DEF Front, Last

Cleaned(upTo, path, i) ==
  IF i = 0 THEN <<>>
  ELSE IF path[i] # ".." THEN Append(upTo[i - 1], path[i])
  ELSE IF upTo[i - 1] = <<>> THEN <<>> ELSE Front(upTo[i - 1])

LEMMA CleanExists ==
  ASSUME NEW path, NEW n \in Nat
  PROVE  \E upTo : upTo = [i \in 0 .. n |-> Cleaned(upTo, path, i)]
<1> DEFINE Of(upTo, m) == upTo = [i \in 0 .. m |-> Cleaned(upTo, path, i)]
           S == {m \in 0 .. n : \E upTo : Of(upTo, m)}
<1>1. ASSUME NEW m \in 0 .. n, \A k \in 0 .. m - 1 : k \in S
      PROVE  \E upTo : Of(upTo, m)
  <2>1. CASE m = 0
    <3> DEFINE w == [i \in 0 .. 0 |-> <<>>]
    <3>1. w = [i \in 0 .. 0 |-> w[i]] /\ \A i \in 0 .. 0 : i = 0 /\ w[i] = <<>>
      OBVIOUS
    <3> HIDE DEF w
    <3>2. \A i \in 0 .. 0 : w[i] = Cleaned(w, path, i)
      BY <3>1 DEF Cleaned
    <3>3. Of(w, 0)
      BY <3>1, <3>2
    <3> QED BY <2>1, <3>3
  <2>2. CASE m # 0
    <3>1. m - 1 \in S
      BY <1>1, <2>2
    <3>2. PICK u : Of(u, m - 1)
      BY <3>1
    <3> DEFINE w == [i \in 0 .. m |-> IF i < m THEN u[i] ELSE Cleaned(u, path, i)]
    <3>3. /\ w = [i \in 0 .. m |-> w[i]]
          /\ \A i \in 0 .. m : i < m => w[i] = u[i]
          /\ w[m] = Cleaned(u, path, m)
      OBVIOUS
    <3> HIDE DEF w
    <3>4. ASSUME NEW i \in 0 .. m PROVE w[i] = Cleaned(u, path, i)
      <4>1. CASE i < m
        <5>1. i \in 0 .. m - 1
          BY <4>1
        <5> QED BY <3>2, <3>3, <4>1, <5>1
      <4>2. CASE i = m
        BY <3>3, <4>2
      <4> QED BY <4>1, <4>2
    <3>5. \A i \in 0 .. m : Cleaned(w, path, i) = Cleaned(u, path, i)
      BY <3>3 DEF Cleaned
    <3>6. Of(w, m)
      BY <3>3, <3>4, <3>5
    <3> QED BY <3>6
  <2> QED BY <2>1, <2>2
<1>2. n \in S
  <2> HIDE DEF S
  <2>1. \A m \in 0 .. n : (\A k \in 0 .. m - 1 : k \in S) => m \in S
    BY <1>1 DEF S
  <2> QED BY <2>1, Induction
<1> QED BY <1>2

LEMMA CleanReturns ==
  ASSUME NEW path \in Path
  PROVE  Clean(path) \in Path
<1> DEFINE n == Len(path)
           upTo == CHOOSE u : u = [i \in 0 .. n |-> Cleaned(u, path, i)]
           S == {i \in 0 .. n : upTo[i] \in Path}
<1>1. n \in Nat /\ \A i \in 1 .. n : path[i] \in STRING
  BY LenProperties, ElementOfSeq DEF Path
<1>2. upTo = [i \in 0 .. n |-> Cleaned(upTo, path, i)]
  BY <1>1, CleanExists
<1>3. Clean(path) = upTo[n]
  BY DEF Clean, Cleaned
<1> HIDE DEF upTo, n
<1>4. ASSUME NEW i \in 0 .. n, \A k \in 0 .. i - 1 : k \in S
      PROVE  upTo[i] \in Path
  <2>1. upTo[i] = Cleaned(upTo, path, i)
    BY <1>2
  <2>2. <<>> \in Path
    BY EmptySeq DEF Path
  <2>3. CASE i = 0
    BY <2>1, <2>2, <2>3 DEF Cleaned
  <2>4. CASE i # 0
    <3>1. upTo[i - 1] \in Path /\ path[i] \in STRING
      BY <1>1, <1>4, <2>4
    <3>2. Append(upTo[i - 1], path[i]) \in Path
      BY <3>1, AppendProperties DEF Path
    <3>3. Front(upTo[i - 1]) \in Path
      BY <3>1, DroppingTheLast DEF Path
    <3> QED BY <2>1, <2>2, <2>4, <3>2, <3>3 DEF Cleaned
  <2> QED BY <2>3, <2>4
<1>5. n \in S
  <2> HIDE DEF S
  <2>1. \A i \in 0 .. n : (\A k \in 0 .. i - 1 : k \in S) => i \in S
    BY <1>4 DEF S
  <2> QED BY <1>1, <2>1, Induction
<1> QED BY <1>3, <1>5

LEMMA FilesHavePaths ==
  ASSUME NEW i \in DOMAIN Dirs
  PROVE  Dirs[i] \in Path /\ File(i) \in Path
<1>1. Dirs[i] \in Path /\ Name \in STRING
  BY TreeAssumption, ElementOfSeq, LenProperties
<1>2. Append(Dirs[i], Name) \in Path
  BY <1>1, AppendProperties DEF Path
<1> QED BY <1>1, <1>2, CleanReturns DEF File

LEMMA TargetReturns ==
  ASSUME NEW ref \in Ref, NEW file \in Path
  PROVE  Target(ref, file) \in Path
<1>1. ref.segs \in Path
  BY DEF Ref
<1>2. Front(file) \o ref.segs \in Path
  BY <1>1, DroppingTheLast, ConcatProperties DEF Path
<1> QED BY <1>1, <1>2, CleanReturns DEF Target

LEMMA ReadReturns ==
  ASSUME NEW f \in FileSystems, NEW path
  PROVE  Read(f, path) \in {NoFile, Broken} \/ Read(f, path) \in Trees(Unplaced)[Height]
BY TreeAssumption DEF Read

LEMMA FromYAMLReturns ==
  ASSUME NEW raw \in Trees(Unplaced)[Height], NEW file \in Path
  PROVE  LET t == FromYAML(raw, file)
         IN  /\ t \in Trees(Placed)[Height] /\ ~IsError(t)
             /\ HasKids(raw) => t.kind = raw.kind
<1> DEFINE leaf == [n \in Unplaced |-> [kind |-> "scalar", segs |-> n.segs, file |-> file]]
<1>1. \A n \in Unplaced : leaf[n] \in Placed
  BY DEF Unplaced, Placed
<1>2. FromYAML(raw, file) = Walk(leaf, raw)
  BY DEF FromYAML
<1> HIDE DEF leaf
<1>3. \A n \in Unplaced : ~IsError(leaf[n]) /\ leaf[n] \in Trees(Placed)[0]
  <2> TAKE n \in Unplaced
  <2>1. leaf[n] \in Placed
    BY <1>1
  <2>2. ~IsError(leaf[n])
    BY <2>1 DEF Placed, IsError
  <2>3. Placed \subseteq Trees(Placed)[0]
    BY LeavesAreTrees, HighestIsNat
  <2> QED BY <2>1, <2>2, <2>3
<1>4. Height \in 0 .. Highest /\ 0 \in 0 .. Highest /\ 0 + Height = Height
  BY HighestIsNat
<1>5. ~IsError(Walk(leaf, raw))
  BY <1>3, <1>4, WalkSucceeds
<1>6. Unplaced \in SUBSET (Unplaced \cup Placed) /\ Placed \in SUBSET (Unplaced \cup Placed)
  OBVIOUS
<1>7. /\ IsError(Walk(leaf, raw)) \/ Walk(leaf, raw) \in Trees(Placed)[0 + Height]
      /\ HasKids(raw) /\ ~IsError(Walk(leaf, raw)) => Walk(leaf, raw).kind = raw.kind
  <2>1. 0 + Height <= Highest
    BY HighestIsNat
  <2> QED BY <1>3, <1>4, <1>6, <2>1, WalkReturns
<1> QED BY <1>2, <1>4, <1>5, <1>7

-----------------------------------------------------------------------------
(* Includes.  What a chain of files expands to depends on chains that are  *)
(* one file longer, up to the longest that is allowed.                     *)
LEMMA TokensHavePaths ==
  ASSUME NEW seg \in Segment, IsToken(seg)
  PROVE  seg.scheme \in {"config", "file"} => seg.path \in Ref
<1>1. "scheme" \in DOMAIN seg
  BY DEF IsToken
<1>2. seg \notin [lit : STRING] /\ seg \notin [content : Path] /\ seg \notin [malformed : STRING]
  BY <1>1
<1>3. CASE seg \in [scheme : {"config", "file"}, path : Ref]
  BY <1>3
<1>4. CASE seg \in [scheme : STRING \ {"config", "file"}, path : STRING]
  BY <1>4
<1> QED BY <1>2, <1>3, <1>4 DEF Segment

LEMMA IncludesNamePaths ==
  ASSUME NEW n \in Placed, Includes(n.segs) # {}, Len(n.segs) = 1
  PROVE  n.file \in Path /\ n.segs[1].path \in Ref /\ Target(n.segs[1].path, n.file) \in Path
<1>1. n.segs \in Seq(Segment) /\ n.file \in Path
  BY DEF Placed
<1>2. DOMAIN n.segs = 1 .. 1 /\ n.segs[1] \in Segment
  BY <1>1, LenProperties, ElementOfSeq
<1>3. IsToken(n.segs[1]) /\ n.segs[1].scheme = "config"
  BY <1>2 DEF Includes
<1> QED BY <1>1, <1>2, <1>3, TokensHavePaths, TargetReturns

LEMMA ScalarsDependOnLongerChains ==
  ASSUME NEW f, NEW n \in Placed, NEW d, NEW chain \in Seq(Path), NEW u, NEW w,
         Len(chain) < MaxIncludeDepth => \A p \in Path : u[Append(chain, p)] = w[Append(chain, p)]
  PROVE  ExpandScalar(f, n, d, chain, u) = ExpandScalar(f, n, d, chain, w)
<1> DEFINE t == Target(n.segs[1].path, n.file)
<1>1. CASE Includes(n.segs) # {} /\ Len(n.segs) = 1
  <2>1. t \in Path
    BY <1>1, IncludesNamePaths
  <2> HIDE DEF t
  <2>2. Len(chain) \in Nat /\ MaxIncludeDepth \in Nat
    BY LenProperties, TreeAssumption
  <2>3. IncludeFile(f, t, d, chain, u) = IncludeFile(f, t, d, chain, w)
    BY <2>1, <2>2 DEF IncludeFile
  <2> QED BY <2>3 DEF ExpandScalar, t
<1> QED BY <1>1 DEF ExpandScalar

Expanded(f, d, expanded, chain) ==
  Walk([n \in Placed |-> ExpandScalar(f, n, d, chain, expanded)], FromYAML(Read(f, Last(chain)), Last(chain)))

LEMMA ChainsDependOnLongerChains ==
  ASSUME NEW f, NEW d, NEW chain \in Seq(Path), NEW u, NEW w,
         Len(chain) < MaxIncludeDepth => \A p \in Path : u[Append(chain, p)] = w[Append(chain, p)]
  PROVE  Expanded(f, d, u, chain) = Expanded(f, d, w, chain)
<1>1. [n \in Placed |-> ExpandScalar(f, n, d, chain, u)] = [n \in Placed |-> ExpandScalar(f, n, d, chain, w)]
  BY ScalarsDependOnLongerChains
<1> QED BY <1>1 DEF Expanded

LEMMA ExpandExists ==
  ASSUME NEW f, NEW d
  PROVE  \E expanded : expanded = [chain \in Seq(Path) |-> Expanded(f, d, expanded, chain)]
<1> DEFINE Chains(m) == {c \in Seq(Path) : Len(c) + m >= MaxIncludeDepth}
           Of(e, m) == e = [c \in Chains(m) |-> Expanded(f, d, e, c)]
           S == {m \in 0 .. MaxIncludeDepth : \E e : Of(e, m)}
<1>1. MaxIncludeDepth \in Nat /\ \A c \in Seq(Path) : Len(c) \in Nat
  BY TreeAssumption, LenProperties
<1>2. ASSUME NEW m \in 0 .. MaxIncludeDepth, \A k \in 0 .. m - 1 : k \in S
      PROVE  \E e : Of(e, m)
  <2>1. CASE m = 0
    <3> DEFINE w == [c \in Chains(0) |-> Expanded(f, d, 0, c)]
    <3>1. w = [c \in Chains(0) |-> w[c]] /\ \A c \in Chains(0) : w[c] = Expanded(f, d, 0, c)
      OBVIOUS
    <3> HIDE DEF w
    <3>2. ASSUME NEW c \in Chains(0) PROVE Expanded(f, d, w, c) = Expanded(f, d, 0, c)
      <4>1. c \in Seq(Path) /\ ~(Len(c) < MaxIncludeDepth)
        BY <1>1
      <4> QED BY <4>1, ChainsDependOnLongerChains
    <3>3. Of(w, 0)
      BY <3>1, <3>2
    <3> QED BY <2>1, <3>3
  <2>2. CASE m # 0
    <3>1. PICK u : Of(u, m - 1)
      <4>1. m - 1 \in 0 .. m - 1
        BY <1>1, <2>2
      <4>2. m - 1 \in S
        <5> HIDE DEF S
        <5> QED BY <1>2, <4>1
      <4> QED BY <4>2
    <3> DEFINE w == [c \in Chains(m) |-> IF c \in Chains(m - 1) THEN u[c] ELSE Expanded(f, d, u, c)]
    <3>2. /\ w = [c \in Chains(m) |-> w[c]]
          /\ \A c \in Chains(m) : c \in Chains(m - 1) => w[c] = u[c]
          /\ \A c \in Chains(m) : c \notin Chains(m - 1) => w[c] = Expanded(f, d, u, c)
      OBVIOUS
    <3> HIDE DEF w
    <3>3. \A c \in Chains(m) : w[c] = Expanded(f, d, u, c)
      <4> HIDE DEF Chains
      <4> QED BY <3>1, <3>2
    <3>4. ASSUME NEW c \in Chains(m) PROVE Expanded(f, d, w, c) = Expanded(f, d, u, c)
      <4>1. ASSUME NEW p \in Path PROVE w[Append(c, p)] = u[Append(c, p)]
        <5>1. Append(c, p) \in Seq(Path) /\ Len(Append(c, p)) = Len(c) + 1
          BY AppendProperties
        <5>2. Append(c, p) \in Chains(m) /\ Append(c, p) \in Chains(m - 1)
          BY <1>1, <5>1
        <5> QED BY <3>2, <5>2
      <4>2. c \in Seq(Path)
        OBVIOUS
      <4> HIDE DEF Chains
      <4> QED BY <4>1, <4>2, ChainsDependOnLongerChains
    <3>5. Of(w, m)
      <4> HIDE DEF Chains
      <4> QED BY <3>2, <3>3, <3>4
    <3> QED BY <3>5
  <2> QED BY <2>1, <2>2
<1>3. MaxIncludeDepth \in S
  <2> HIDE DEF S
  <2>1. \A m \in 0 .. MaxIncludeDepth : (\A k \in 0 .. m - 1 : k \in S) => m \in S
    BY <1>2 DEF S
  <2> QED BY <1>1, <2>1, Induction
<1>4. Chains(MaxIncludeDepth) = Seq(Path)
  BY <1>1
<1> HIDE DEF Chains
<1> QED BY <1>3, <1>4

Room(m) == Height * (m + 1)

(* An include adds at most the height of a file, and keeps what is at the  *)
(* root.                                                                   *)
LEMMA ExpandReturns ==
  ASSUME NEW f \in FileSystems, NEW file \in Path, NEW d, Read(f, file) \notin {NoFile, Broken}
  PROVE  LET t == Expand(f, file, d)
         IN  \/ IsError(t)
             \/ t \in Tree /\ (HasKids(Read(f, file)) => t.kind = Read(f, file).kind)
<1> DEFINE e == CHOOSE u : u = [c \in Seq(Path) |-> Expanded(f, d, u, c)]
           M == MaxIncludeDepth
           leaf(c) == [n \in Placed |-> ExpandScalar(f, n, d, c, e)]
           Good(c, m) == \/ IsError(e[c])
                         \/ /\ e[c] \in Trees(Placed)[Room(m)]
                            /\ HasKids(Read(f, Last(c))) => e[c].kind = Read(f, Last(c)).kind
           S == {m \in 0 .. M : \A c \in Seq(Path) :
                   c # <<>> /\ Len(c) + m >= M /\ Read(f, Last(c)) \notin {NoFile, Broken} => Good(c, m)}
<1>1. e = [c \in Seq(Path) |-> Expanded(f, d, e, c)]
  BY ExpandExists
<1>2. Expand(f, file, d) = e[<<file>>]
  BY DEF Expand, Expanded
<1> HIDE DEF e
<1>3. M \in Nat /\ Height \in Nat /\ Highest \in Nat /\ Highest = Room(M)
  BY TreeAssumption, HighestIsNat DEF Highest, Room
<1>4. \A m \in 0 .. M :
        /\ Room(m) \in 0 .. Highest
        /\ m > 0 => Room(m - 1) \in 0 .. Highest /\ Room(m - 1) + Height = Room(m)
  <2>1. \A a, b, h \in Nat : a <= b => h * (a + 1) \in Nat /\ h * (a + 1) <= h * (b + 1)
    OBVIOUS
  <2>2. \A a, h \in Nat : a > 0 => h * ((a - 1) + 1) + h = h * (a + 1)
    OBVIOUS
  <2> QED BY <1>3, <2>1, <2>2 DEF Room
<1>5. ASSUME NEW m \in 0 .. M, \A k \in 0 .. m - 1 : k \in S,
             NEW c \in Seq(Path), c # <<>>, Len(c) + m >= M, Read(f, Last(c)) \notin {NoFile, Broken}
      PROVE  Good(c, m)
  <2> DEFINE raw == Read(f, Last(c))
             placed == FromYAML(raw, Last(c))
             room == IF m = 0 THEN 0 ELSE Room(m - 1)
  <2>1. e[c] = Walk(leaf(c), placed)
    BY <1>1 DEF Expanded
  <2>2. Len(c) \in Nat /\ Last(c) \in Path
    BY <1>5, LenProperties, DroppingTheLast
  <2>3. placed \in Trees(Placed)[Height] /\ (HasKids(raw) => placed.kind = raw.kind)
    <3>1. raw \in Trees(Unplaced)[Height]
      BY <1>5, ReadReturns
    <3> QED BY <2>2, <3>1, FromYAMLReturns
  <2>4. room \in 0 .. Highest /\ room + Height = Room(m) /\ Room(m) \in 0 .. Highest /\ Height \in 0 .. Highest
    <3>1. Room(0) = Height /\ Height \in 0 .. Highest
      BY <1>3, HighestIsNat DEF Room
    <3>2. CASE m = 0
      BY <1>3, <1>4, <3>1, <3>2
    <3>3. CASE m # 0
      BY <1>3, <1>4, <3>1, <3>3
    <3> QED BY <3>2, <3>3
  <2>5. ASSUME NEW n \in Placed
        PROVE  IsError(leaf(c)[n]) \/ leaf(c)[n] \in Trees(Placed)[room]
    <3> DEFINE t == Target(n.segs[1].path, n.file)
               x == ExpandScalar(f, n, d, c, e)
    <3>1. \/ IsError(x) \/ x = n
          \/ /\ Includes(n.segs) # {} /\ Len(n.segs) = 1 /\ x = IncludeFile(f, t, d, c, e)
      BY DEF ExpandScalar, IsError, Error
    <3>2. CASE IsError(x) \/ x = n
      BY <2>4, <3>2, LeavesAreTrees
    <3>3. CASE Includes(n.segs) # {} /\ Len(n.segs) = 1 /\ x = IncludeFile(f, t, d, c, e)
      <4>1. t \in Path
        BY <3>3, IncludesNamePaths
      <4> HIDE DEF t
      <4>2. \/ IsError(x)
            \/ Len(c) < M /\ Read(f, t) \notin {NoFile, Broken} /\ x = e[Append(c, t)]
        BY <1>3, <2>2, <3>3 DEF IncludeFile, IsError, Error
      <4>3. CASE Len(c) < M /\ Read(f, t) \notin {NoFile, Broken} /\ x = e[Append(c, t)]
        <5>1. m > 0 /\ m - 1 \in 0 .. m - 1
          BY <1>3, <1>5, <2>2, <4>3
        <5>2. m - 1 \in S /\ room = Room(m - 1)
          <6> HIDE DEF S
          <6> QED BY <1>5, <5>1
        <5>3. /\ Append(c, t) \in Seq(Path) /\ Append(c, t) # <<>>
              /\ Len(Append(c, t)) = Len(c) + 1 /\ Last(Append(c, t)) = t
          BY <2>2, <4>1, AppendProperties DEF Last
        <5>4. Len(Append(c, t)) + (m - 1) >= M
          BY <1>3, <1>5, <2>2, <5>3
        <5>5. Good(Append(c, t), m - 1)
          <6> HIDE DEF Good
          <6> QED BY <4>3, <5>2, <5>3, <5>4
        <5> QED BY <4>3, <5>2, <5>5
      <4> QED BY <4>2, <4>3
    <3> QED BY <3>1, <3>2, <3>3
  <2> HIDE DEF leaf, placed, room
  <2>6. Placed \in SUBSET (Unplaced \cup Placed)
    OBVIOUS
  <2>7. /\ IsError(e[c]) \/ e[c] \in Trees(Placed)[Room(m)]
        /\ HasKids(placed) /\ ~IsError(e[c]) => e[c].kind = placed.kind
    <3>1. /\ room + Height <= Highest /\ room \in 0 .. Highest /\ Height \in 0 .. Highest
          /\ room \in Nat /\ Height \in Nat /\ Highest \in Nat
      BY <1>3, <2>4
    <3>2. LET walk == Walk(leaf(c), placed)
          IN  /\ IsError(walk) \/ walk \in Trees(Placed)[room + Height]
              /\ HasKids(placed) /\ ~IsError(walk) => walk.kind = placed.kind
      BY <2>3, <2>5, <2>6, <3>1, WalkReturns
    <3> QED BY <2>1, <2>4, <3>2
  <2>8. HasKids(raw) => HasKids(placed)
    BY <2>3 DEF HasKids
  <2> QED BY <2>3, <2>7, <2>8
<1>6. M \in S
  <2>1. \A m \in 0 .. M : (\A k \in 0 .. m - 1 : k \in S) => m \in S
    <3>1. ASSUME NEW m \in 0 .. M, \A k \in 0 .. m - 1 : k \in S PROVE m \in S
      <4> HIDE DEF Good
      <4> QED BY <1>5, <3>1
    <3> QED BY <3>1
  <2> HIDE DEF S
  <2> QED BY <1>3, <2>1, Induction
<1>7. /\ <<file>> \in Seq(Path) /\ <<file>> # <<>> /\ Len(<<file>>) + M >= M
      /\ Last(<<file>>) = file
  BY <1>3 DEF Last
<1>8. Good(<<file>>, M)
  <2> HIDE DEF Good
  <2> QED BY <1>6, <1>7
<1>9. Tree = Trees(Placed)[Room(M)]
  BY <1>3 DEF Tree
<1> QED BY <1>2, <1>7, <1>8, <1>9

-----------------------------------------------------------------------------
(* Resolving a scalar fails or leaves a scalar. *)
LEMMA DispatchReturns ==
  ASSUME NEW f, NEW st, NEW seg \in Segment, IsToken(seg), NEW file \in Path
  PROVE  Dispatch(f, st, seg, file) \in Segment \/ "why" \in DOMAIN Dispatch(f, st, seg, file)
<1> DEFINE x == Dispatch(f, st, seg, file)
           given == seg.scheme \in st /\ seg.scheme \in DOMAIN Resolvers
                      /\ seg.path \in DOMAIN Resolvers[seg.scheme]
           builtin == seg.scheme \in st /\ seg.scheme \notin DOMAIN Resolvers
                        /\ seg.scheme = "file" /\ Read(f, Target(seg.path, file)) # NoFile
<1>1. CASE given
  <2>1. Resolvers[seg.scheme][seg.path] \in STRING
    BY <1>1, TreeAssumption
  <2>2. x = [lit |-> Resolvers[seg.scheme][seg.path]]
    BY <1>1 DEF Dispatch, Literal
  <2>3. x \in [lit : STRING]
    BY <2>1, <2>2
  <2> QED BY <2>3 DEF Segment
<1>2. CASE builtin
  <2>1. Clean(Target(seg.path, file)) \in Path
    BY <1>2, TokensHavePaths, TargetReturns, CleanReturns
  <2>2. x = [content |-> Clean(Target(seg.path, file))]
    BY <1>2 DEF Dispatch, Content
  <2>3. x \in [content : Path]
    BY <2>1, <2>2
  <2> QED BY <2>3 DEF Segment
<1>3. CASE ~given /\ ~builtin
  <2>1. \/ x = [kind |-> "error", why |-> "unresolved"]
        \/ x = [kind |-> "error", why |-> "unknown scheme"]
    BY <1>3 DEF Dispatch, Error
  <2>2. \A e : "why" \in DOMAIN [kind |-> "error", why |-> e]
    OBVIOUS
  <2> HIDE DEF x
  <2>3. "why" \in DOMAIN x
    BY <2>1, <2>2
  <2> QED BY <2>3 DEF x
<1> QED BY <1>1, <1>2, <1>3

LEMMA ResolveScalarReturns ==
  ASSUME NEW f, NEW st, NEW n \in Placed
  PROVE  IsError(ResolveScalar(f, st, n)) \/ ResolveScalar(f, st, n) \in Unplaced
<1> DEFINE tokens == {i \in DOMAIN n.segs : IsToken(n.segs[i])}
           value == [i \in DOMAIN n.segs |-> IF i \in tokens THEN Dispatch(f, st, n.segs[i], n.file)
                                                            ELSE n.segs[i]]
           x == ResolveScalar(f, st, n)
<1>1. n.segs \in Seq(Segment) /\ n.file \in Path
  BY DEF Placed
<1>2. /\ DOMAIN n.segs = 1 .. Len(n.segs) /\ Len(n.segs) \in Nat
      /\ \A i \in DOMAIN n.segs : n.segs[i] \in Segment
  BY <1>1, LenProperties, ElementOfSeq
<1>3. ASSUME NEW i \in DOMAIN n.segs PROVE value[i] \in Segment \/ (i \in tokens /\ "why" \in DOMAIN value[i])
  BY <1>1, <1>2, DispatchReturns
<1>4. \/ x = Error("malformed") \/ x = Error("static") \/ x = Error("unresolved")
      \/ (\A i \in tokens : "why" \notin DOMAIN value[i]) /\ x = [kind |-> "scalar", segs |-> value]
  BY DEF ResolveScalar, Scalar
<1>5. CASE x = Error("malformed") \/ x = Error("static") \/ x = Error("unresolved")
  BY <1>5 DEF IsError, Error
<1>6. CASE (\A i \in tokens : "why" \notin DOMAIN value[i]) /\ x = [kind |-> "scalar", segs |-> value]
  <2>1. \A i \in 1 .. Len(n.segs) : value[i] \in Segment
    BY <1>2, <1>3, <1>6
  <2>2. value = [i \in 1 .. Len(n.segs) |-> value[i]]
    BY <1>2
  <2> HIDE DEF value, tokens
  <2>3. value \in Seq(Segment)
    BY <1>2, <2>1, <2>2
  <2> QED BY <1>6, <2>3 DEF Unplaced
<1> QED BY <1>4, <1>5, <1>6

LEMMA ResolveNodeReturns ==
  ASSUME NEW f, NEW st, NEW n \in Tree, n.kind = "map", NEW t \in Types, Fits(n, t)
  PROVE  LET r == ResolveNode(f, st, n) IN IsError(r) \/ (r.kind = "map" /\ Fits(r, t))
<1> DEFINE leaf == [m \in Placed |-> ResolveScalar(f, st, m)]
           r == Walk(leaf, n)
<1>1. \A m \in Placed : IsError(leaf[m]) \/ leaf[m] \in Unplaced
  BY ResolveScalarReturns
<1>2. ResolveNode(f, st, n) = r
  BY DEF ResolveNode
<1> HIDE DEF leaf
<1>3. /\ Unplaced \in SUBSET (Unplaced \cup Placed) /\ Placed \in SUBSET (Unplaced \cup Placed)
      /\ 0 \in 0 .. Highest /\ Highest \in 0 .. Highest /\ 0 + Highest <= Highest
      /\ n \in Trees(Placed)[Highest] /\ HasKids(n)
  BY HighestIsNat DEF Tree, HasKids
<1>4. \A m \in Placed : IsError(leaf[m]) \/ leaf[m] \in Trees(Unplaced)[0]
  BY <1>1, <1>3, LeavesAreTrees
<1>5. ~IsError(r) => r.kind = n.kind
  <2>1. /\ IsError(r) \/ r \in Trees(Unplaced)[0 + Highest]
        /\ HasKids(n) /\ ~IsError(r) => r.kind = n.kind
    <3> HIDE DEF r
    <3>1. r = Walk(leaf, n)
      BY DEF r
    <3> QED BY <1>3, <1>4, <3>1, WalkReturns
  <2> QED BY <1>3, <2>1
<1>6. ~IsError(r) => Fits(r, t)
  BY <1>1, <1>3, WalkFits
<1> QED BY <1>2, <1>5, <1>6

-----------------------------------------------------------------------------
(* Layers that fit a type merge to a tree that fits it. *)
MergedUpTo(upTo, trees, i) == IF i = 0 THEN Nil ELSE MergeNode(upTo[i - 1], trees[i])

LEMMA MergeTreesExists ==
  ASSUME NEW trees, NEW n \in Nat
  PROVE  \E upTo : upTo = [i \in 0 .. n |-> MergedUpTo(upTo, trees, i)]
<1> DEFINE Of(upTo, m) == upTo = [i \in 0 .. m |-> MergedUpTo(upTo, trees, i)]
           S == {m \in 0 .. n : \E upTo : Of(upTo, m)}
<1>1. ASSUME NEW m \in 0 .. n, \A k \in 0 .. m - 1 : k \in S
      PROVE  \E upTo : Of(upTo, m)
  <2>1. CASE m = 0
    <3> DEFINE w == [i \in 0 .. 0 |-> Nil]
    <3>1. w = [i \in 0 .. 0 |-> w[i]] /\ \A i \in 0 .. 0 : i = 0 /\ w[i] = Nil
      OBVIOUS
    <3> HIDE DEF w
    <3>2. \A i \in 0 .. 0 : w[i] = MergedUpTo(w, trees, i)
      BY <3>1 DEF MergedUpTo
    <3>3. Of(w, 0)
      BY <3>1, <3>2
    <3> QED BY <2>1, <3>3
  <2>2. CASE m # 0
    <3>1. m - 1 \in S
      BY <1>1, <2>2
    <3>2. PICK u : Of(u, m - 1)
      BY <3>1
    <3> DEFINE w == [i \in 0 .. m |-> IF i < m THEN u[i] ELSE MergedUpTo(u, trees, i)]
    <3>3. /\ w = [i \in 0 .. m |-> w[i]]
          /\ \A i \in 0 .. m : i < m => w[i] = u[i]
          /\ w[m] = MergedUpTo(u, trees, m)
      OBVIOUS
    <3> HIDE DEF w
    <3>4. ASSUME NEW i \in 0 .. m PROVE w[i] = MergedUpTo(u, trees, i)
      <4>1. CASE i < m
        <5>1. i \in 0 .. m - 1
          BY <4>1
        <5> QED BY <3>2, <3>3, <4>1, <5>1
      <4>2. CASE i = m
        BY <3>3, <4>2
      <4> QED BY <4>1, <4>2
    <3>5. \A i \in 0 .. m : MergedUpTo(w, trees, i) = MergedUpTo(u, trees, i)
      BY <3>3 DEF MergedUpTo
    <3>6. Of(w, m)
      BY <3>3, <3>4, <3>5
    <3> QED BY <3>6
  <2> QED BY <2>1, <2>2
<1>2. n \in S
  <2> HIDE DEF S
  <2>1. \A m \in 0 .. n : (\A k \in 0 .. m - 1 : k \in S) => m \in S
    BY <1>1 DEF S
  <2> QED BY <2>1, Induction
<1> QED BY <1>2

LEMMA MergeTreesReturns ==
  ASSUME NEW trees \in Seq(Tree), trees # <<>>, NEW t \in Types,
         \A i \in DOMAIN trees : trees[i].kind = "map" /\ Fits(trees[i], t)
  PROVE  LET m == MergeTrees(trees) IN m \in Tree /\ m.kind = "map" /\ Fits(m, t)
<1> DEFINE n == Len(trees)
           upTo == CHOOSE u : u = [i \in 0 .. n |-> MergedUpTo(u, trees, i)]
           Good(i) == upTo[i] \in Tree /\ (i > 0 => upTo[i].kind = "map") /\ Fits(upTo[i], t)
           S == {i \in 0 .. n : Good(i)}
<1>1. n \in Nat /\ n > 0 /\ \A i \in 1 .. n : trees[i] \in Tree /\ i \in DOMAIN trees
  BY LenProperties, ElementOfSeq, EmptySeq
<1>2. upTo = [i \in 0 .. n |-> MergedUpTo(upTo, trees, i)]
  BY <1>1, MergeTreesExists
<1>3. MergeTrees(trees) = upTo[n]
  BY DEF MergeTrees, MergedUpTo
<1> HIDE DEF upTo, n
<1>4. Nil \in Tree /\ Fits(Nil, t)
  <2>1. Nil \in Tree
    BY LeavesAreTrees, HighestIsNat DEF Tree
  <2>2. Nil \in Node
    BY LeavesAreTrees, HighestIsNat DEF Node
  <2> QED BY <2>1, <2>2, Fitting
<1>5. ASSUME NEW i \in 0 .. n, \A k \in 0 .. i - 1 : k \in S
      PROVE  Good(i)
  <2>1. upTo[i] = MergedUpTo(upTo, trees, i)
    BY <1>2
  <2>2. CASE i = 0
    BY <1>4, <2>1, <2>2 DEF MergedUpTo
  <2>3. CASE i # 0
    <3> DEFINE b == upTo[i - 1]
               o == trees[i]
    <3>1. i - 1 \in S /\ i \in 1 .. n /\ i > 0
      BY <1>5, <2>3
    <3>2. b \in Tree /\ (i - 1 > 0 => b.kind = "map") /\ Fits(b, t)
      BY <3>1
    <3>3. o \in Tree /\ o.kind = "map" /\ Fits(o, t)
      BY <1>1, <3>1
    <3>4. upTo[i] = MergeNode(b, o)
      BY <2>1, <2>3 DEF MergedUpTo
    <3>5. i - 1 = 0 => b = Nil
      BY <1>2, <3>1 DEF MergedUpTo
    <3> HIDE DEF b, o
    <3>6. MergeNode(b, o) \in Tree /\ Fits(MergeNode(b, o), t)
      BY <3>2, <3>3, MergeReturns, MergeFits
    <3>7. MergeNode(b, o).kind = "map"
      <4>1. CASE i - 1 = 0
        BY <3>2, <3>3, <3>5, <4>1, Merging
      <4>2. CASE i - 1 > 0
        BY <3>2, <3>3, <4>2, MergeReturns DEF Both
      <4> QED BY <3>1, <4>1, <4>2
    <3> QED BY <3>4, <3>6, <3>7
  <2> QED BY <2>2, <2>3
<1>6. n \in S
  <2>1. \A i \in 0 .. n : (\A k \in 0 .. i - 1 : k \in S) => i \in S
    <3> HIDE DEF Good
    <3> QED BY <1>5
  <2> HIDE DEF S
  <2>2. n \in Nat /\ n \in 0 .. n
    BY <1>1
  <2>3. \A i \in 0 .. n : i \in S
    BY <2>1, <2>2, Induction
  <2> QED BY <2>2, <2>3
<1> QED BY <1>1, <1>3, <1>6

-----------------------------------------------------------------------------
(* What holds in every state: layers are maps that nest no deeper than     *)
(* includes allow, and what has passed the validation fits the destination *)
(* from there on, separately, merged and resolved.                         *)
Typed ==
  /\ fs \in FileSystems /\ schemes \in SchemeSets /\ type \in Destinations
  /\ phase \in {"read", "shape", "merge", "resolve", "bind", "failed"}

LayersAreMaps ==
  /\ dir \in 1 .. Len(Dirs) + 1
  /\ layers \in Seq(Tree) /\ Len(layers) < dir
  /\ \A i \in DOMAIN layers : layers[i].kind = "map"
  /\ phase \in {"shape", "merge"} => layers # <<>>

TreeIsMap ==
  /\ tree.kind = IF phase = "failed" THEN "error" ELSE "map"
  /\ phase = "resolve" => tree \in Tree

FitsFromShapeOn ==
  /\ phase = "merge" => \A i \in DOMAIN layers : Fits(layers[i], type)
  /\ phase \in {"resolve", "bind"} => Fits(tree, type)

Inv == Typed /\ LayersAreMaps /\ TreeIsMap /\ FitsFromShapeOn

LEMMA InvHoldsAtFirst == Init => Inv
<1> SUFFICES ASSUME Init PROVE Inv
  OBVIOUS
<1>1. Len(Dirs) \in Nat
  BY TreeAssumption, LenProperties
<1>2. <<>> \in Seq(Tree) /\ Len(<<>>) = 0 /\ DOMAIN <<>> = {}
  BY EmptySeq
<1> QED BY <1>1, <1>2 DEF Init, Inv, Typed, LayersAreMaps, TreeIsMap, FitsFromShapeOn, EmptyTree, MapNode

LEMMA LayerTreeReturns ==
  ASSUME NEW f \in FileSystems, NEW st \in SchemeSets, NEW i \in DOMAIN Dirs, Read(f, File(i)) # NoFile
  PROVE  LET t == LayerTree(f, st, i) IN IsError(t) \/ (t \in Tree /\ t.kind = "map")
<1> DEFINE raw == Read(f, File(i))
           t == LayerTree(f, st, i)
<1>1. File(i) \in Path
  BY FilesHavePaths
<1>2. CASE raw = Broken \/ raw.kind # "map"
  BY <1>2 DEF LayerTree, IsError, Error
<1>3. CASE raw # Broken /\ raw.kind = "map"
  <2>1. raw \notin {NoFile, Broken} /\ HasKids(raw)
    BY <1>3 DEF HasKids
  <2>2. raw \in Trees(Unplaced)[Height]
    BY <2>1, ReadReturns
  <2>3. CASE Static(st)
    <3>1. t = FromYAML(raw, File(i))
      BY <1>3, <2>3 DEF LayerTree
    <3>2. t \in Trees(Placed)[Height] /\ t.kind = "map"
      BY <1>1, <1>3, <2>1, <2>2, <3>1, FromYAMLReturns
    <3>3. Trees(Placed)[Height] \subseteq Tree
      <4>1. Height \in 0 .. Highest /\ Highest \in Height .. Highest
        BY HighestIsNat
      <4> QED BY <4>1, TreesGrow DEF Tree
    <3> QED BY <3>2, <3>3
  <2>4. CASE ~Static(st)
    <3>1. t = Expand(f, File(i), Dirs[i])
      BY <1>3, <2>4 DEF LayerTree
    <3> HIDE DEF t
    <3>2. IsError(t) \/ (t \in Tree /\ t.kind = "map")
      BY <1>1, <1>3, <2>1, <3>1, ExpandReturns
    <3> QED BY <3>2 DEF t
  <2> QED BY <2>3, <2>4
<1> QED BY <1>2, <1>3

LEMMA InvIsKept == Inv /\ [Next]_vars => Inv'
<1> SUFFICES ASSUME Inv, [Next]_vars PROVE Inv'
  OBVIOUS
<1> USE DEF Inv, Typed, LayersAreMaps, TreeIsMap, FitsFromShapeOn
<1>1. /\ Len(Dirs) \in Nat /\ Len(layers) \in Nat /\ layers \in Seq(Tree)
      /\ DOMAIN layers = 1 .. Len(layers) /\ type \in Types
  BY TreeAssumption, TypesAssumption, LenProperties
<1>2. CASE SkipLayer
  BY <1>1, <1>2 DEF SkipLayer
<1>3. CASE ReadLayer
  <2> DEFINE t == LayerTree(fs, schemes, dir)
  <2>1. IsError(t) \/ (t \in Tree /\ t.kind = "map")
    BY <1>1, <1>3, LayerTreeReturns DEF ReadLayer
  <2>2. CASE IsError(t)
    <3>1. phase' = "failed" /\ tree' = t /\ UNCHANGED <<dir, layers, fs, type, schemes>>
      BY <1>3, <2>2 DEF ReadLayer
    <3> HIDE DEF t
    <3> QED BY <2>2, <3>1 DEF IsError
  <2>3. CASE ~IsError(t)
    <3>1. /\ layers' = Append(layers, t) /\ dir' = dir + 1 /\ phase = "read" /\ dir <= Len(Dirs)
          /\ UNCHANGED <<phase, tree, fs, type, schemes>>
      BY <1>3, <2>3 DEF ReadLayer
    <3>2. t \in Tree /\ t.kind = "map"
      BY <2>1, <2>3
    <3> HIDE DEF t
    <3>3. /\ layers' \in Seq(Tree) /\ Len(layers') = Len(layers) + 1
          /\ \A i \in 1 .. Len(layers) : layers'[i] = layers[i]
          /\ layers'[Len(layers) + 1] = t
      BY <1>1, <3>1, <3>2, AppendProperties
    <3>4. DOMAIN layers' = 1 .. Len(layers) + 1
      BY <3>3, LenProperties
    <3>5. \A i \in DOMAIN layers' : layers'[i].kind = "map"
      BY <1>1, <3>2, <3>3, <3>4
    <3> QED BY <1>1, <3>1, <3>3, <3>5
  <2> QED BY <2>2, <2>3
<1>4. CASE LayersRead
  <2>1. CASE layers = <<>>
    <3>1. /\ phase' = "failed" /\ tree' = Error("not found")
          /\ UNCHANGED <<fs, type, schemes, dir, layers>>
      BY <1>4, <2>1 DEF LayersRead
    <3>2. tree'.kind = "error"
      BY <3>1 DEF Error
    <3>3. LayersAreMaps' /\ FitsFromShapeOn' /\ Typed'
      BY <3>1
    <3> QED BY <3>1, <3>2, <3>3
  <2>2. CASE layers # <<>>
    BY <1>4, <2>2 DEF LayersRead
  <2> QED BY <2>1, <2>2
<1>5. CASE ValidateShape
  BY <1>5 DEF ValidateShape, Error
<1>6. CASE Merge
  <2>1. /\ tree' = MergeTrees(layers) /\ phase = "merge" /\ phase' = "resolve"
        /\ UNCHANGED <<fs, type, schemes, dir, layers>>
    BY <1>6 DEF Merge
  <2>2. tree' \in Tree /\ tree'.kind = "map" /\ Fits(tree', type)
    BY <1>1, <2>1, MergeTreesReturns
  <2> QED BY <2>1, <2>2
<1>7. CASE Resolve
  <2> DEFINE r == ResolveNode(fs, schemes, tree)
  <2>1. /\ tree' = r /\ phase = "resolve" /\ phase' = IF IsError(r) THEN "failed" ELSE "bind"
        /\ UNCHANGED <<fs, type, schemes, dir, layers>>
    BY <1>7 DEF Resolve
  <2> HIDE DEF r
  <2>2. IsError(r) \/ (r.kind = "map" /\ Fits(r, type))
    BY <1>1, <2>1, ResolveNodeReturns DEF r
  <2>3. CASE IsError(r)
    BY <2>1, <2>3 DEF IsError
  <2>4. CASE ~IsError(r)
    BY <2>1, <2>2, <2>4
  <2> QED BY <2>3, <2>4
<1>8. CASE UNCHANGED vars
  BY <1>8 DEF vars
<1> QED BY <1>2, <1>3, <1>4, <1>5, <1>6, <1>7, <1>8 DEF Next

LEMMA Invariance == Spec => []Inv
BY InvHoldsAtFirst, InvIsKept, PTL DEF Spec

(* Every variable has its type: what a Load has read, merged and resolved  *)
(* so far is made of maps, or it has failed and says why.                  *)
THEOREM TypeCorrect == Spec => []TypeOK
<1>1. Inv => TypeOK
  BY DEF Inv, Typed, LayersAreMaps, TreeIsMap, TypeOK
<1> QED BY <1>1, Invariance, PTL

(* The comment in mergeNode: layers that fit the destination one by one    *)
(* merge to a tree that fits it, and resolving its tokens changes no       *)
(* shape.  So only values can be wrong when it is bound.                   *)
THEOREM WhatIsBoundFits == Spec => []MergedFits
<1>1. Inv => MergedFits
  BY DEF Inv, FitsFromShapeOn, MergedFits
<1> QED BY <1>1, Invariance, PTL

-----------------------------------------------------------------------------
(* The scalars of a tree are its leaves: a walk fails if it fails on one.  *)
ScalarsOf(scalars, n) == IF HasKids(n) THEN UNION {scalars[n.kids[k]] : k \in Keys} ELSE {n} \ {Nil}

LEMMA ScalarsExist == \E scalars : scalars = [n \in Node |-> ScalarsOf(scalars, n)]
<1> DEFINE Of(scalars, h) == scalars = [n \in Nodes(h) |-> ScalarsOf(scalars, n)]
           S == {h \in 0 .. Highest : \E scalars : Of(scalars, h)}
<1>1. ASSUME NEW h \in 0 .. Highest, \A k \in 0 .. h - 1 : k \in S
      PROVE  \E scalars : Of(scalars, h)
  <2>1. ASSUME NEW u, NEW w, NEW n \in Nodes(h), HasKids(n) => \A k \in Keys : w[n.kids[k]] = u[n.kids[k]]
        PROVE  ScalarsOf(w, n) = ScalarsOf(u, n)
    <3>1. HasKids(n) => {w[n.kids[k]] : k \in Keys} = {u[n.kids[k]] : k \in Keys}
      BY <2>1
    <3> QED BY <3>1 DEF ScalarsOf
  <2>2. CASE h = 0
    <3> DEFINE w == [n \in Nodes(0) |-> ScalarsOf(0, n)]
    <3>1. w = [n \in Nodes(0) |-> w[n]] /\ \A n \in Nodes(0) : w[n] = ScalarsOf(0, n)
      OBVIOUS
    <3>2. \A n \in Nodes(0) : ~HasKids(n)
      BY Shapes, HighestIsNat DEF Nodes
    <3> HIDE DEF w
    <3>3. \A n \in Nodes(0) : ScalarsOf(w, n) = ScalarsOf(0, n)
      BY <2>1, <2>2, <3>2
    <3>4. Of(w, 0)
      BY <3>1, <3>3
    <3> QED BY <2>2, <3>4
  <2>3. CASE h # 0
    <3>1. PICK u : Of(u, h - 1)
      BY <1>1, <2>3
    <3> DEFINE w == [n \in Nodes(h) |-> IF n \in Nodes(h - 1) THEN u[n] ELSE ScalarsOf(u, n)]
    <3>2. /\ w = [n \in Nodes(h) |-> w[n]]
          /\ \A n \in Nodes(h) : n \in Nodes(h - 1) => w[n] = u[n]
          /\ \A n \in Nodes(h) : n \notin Nodes(h - 1) => w[n] = ScalarsOf(u, n)
      OBVIOUS
    <3> HIDE DEF w
    <3>3. \A n \in Nodes(h) : w[n] = ScalarsOf(u, n)
      BY <3>1, <3>2
    <3>4. \A n \in Nodes(h) : HasKids(n) => \A k \in Keys : w[n.kids[k]] = u[n.kids[k]]
      BY <3>2, NodesHaveNodes
    <3>5. \A n \in Nodes(h) : w[n] = ScalarsOf(w, n)
      BY <2>1, <3>3, <3>4
    <3>6. Of(w, h)
      BY <3>2, <3>5
    <3> QED BY <3>6
  <2> QED BY <2>2, <2>3
<1>2. Highest \in S
  <2> HIDE DEF S
  <2>1. \A h \in 0 .. Highest : (\A k \in 0 .. h - 1 : k \in S) => h \in S
    BY <1>1 DEF S
  <2> QED BY <2>1, Induction, HighestIsNat
<1> QED BY <1>2 DEF Node, Nodes

LEMMA ScalarsByKey ==
  ASSUME NEW n \in Node
  PROVE  /\ HasKids(n) => \A s : s \in Scalars(n) <=> \E k \in Keys : s \in Scalars(n.kids[k])
         /\ ~HasKids(n) => \A s : s \in Scalars(n) <=> s = n /\ n # Nil
<1> DEFINE scalars == CHOOSE f : f = [m \in Node |-> ScalarsOf(f, m)]
<1>1. scalars = [m \in Node |-> ScalarsOf(scalars, m)]
  BY ScalarsExist
<1>2. \A m : Scalars(m) = scalars[m]
  BY DEF Scalars, ScalarsOf
<1> HIDE DEF scalars
<1>3. scalars[n] = ScalarsOf(scalars, n)
  BY <1>1
<1> QED BY <1>2, <1>3 DEF ScalarsOf

LEMMA WalkFails ==
  ASSUME NEW leaves \in SUBSET (Unplaced \cup Placed), NEW leaf, NEW h \in 0 .. Highest,
         NEW n \in Trees(leaves)[h]
  PROVE  /\ Scalars(n) \subseteq leaves
         /\ IsError(Walk(leaf, n)) <=> \E s \in Scalars(n) : IsError(leaf[s])
<1> DEFINE Good(m) == /\ Scalars(m) \subseteq leaves
                      /\ IsError(Walk(leaf, m)) <=> \E s \in Scalars(m) : IsError(leaf[s])
           S == {a \in 0 .. h : \A m \in Trees(leaves)[a] : Good(m)}
<1>1. ASSUME NEW a \in 0 .. h, \A k \in 0 .. a - 1 : k \in S, NEW m \in Trees(leaves)[a]
      PROVE  Good(m)
  <2>1. a \in 0 .. Highest /\ m \in Nodes(a) /\ m \in Node
    <3>1. a \in 0 .. Highest /\ a \in a .. Highest /\ Highest \in a .. Highest
      BY HighestIsNat
    <3> QED BY <3>1, TreesGrow DEF Nodes, Node
  <2>2. CASE HasKids(m)
    <3> DEFINE kids == [k \in Keys |-> Walk(leaf, m.kids[k])]
    <3>1. a - 1 \in S /\ m.kids \in [Keys -> Trees(leaves)[a - 1]]
      <4>1. a > 0 /\ m.kids \in [Keys -> Trees(leaves)[a - 1]]
        BY <2>1, <2>2, Shapes
      <4>2. a - 1 \in 0 .. a - 1
        BY <4>1
      <4> HIDE DEF S
      <4> QED BY <1>1, <4>1, <4>2
    <3>2. \A k \in Keys : Good(m.kids[k])
      <4> HIDE DEF Good
      <4> QED BY <3>1
    <3>3. \A s : s \in Scalars(m) <=> \E k \in Keys : s \in Scalars(m.kids[k])
      BY <2>1, <2>2, ScalarsByKey
    <3>4. IsError(Walk(leaf, m)) <=> \E k \in Keys : IsError(Walk(leaf, m.kids[k]))
      <4>1. CASE \E k \in Keys : IsError(kids[k])
        BY <2>1, <2>2, <4>1, WalkingKids
      <4>2. CASE ~ \E k \in Keys : IsError(kids[k])
        <5>1. PICK c : Walk(leaf, m) = [kind |-> m.kind, kids |-> c]
          BY <2>1, <2>2, <4>2, WalkingKids
        <5> QED BY <2>2, <4>2, <5>1 DEF HasKids, IsError
      <4> QED BY <4>1, <4>2
    <3>5. Scalars(m) \subseteq leaves
      BY <3>2, <3>3
    <3>6. IsError(Walk(leaf, m)) <=> \E k \in Keys : \E s \in Scalars(m.kids[k]) : IsError(leaf[s])
      BY <3>2, <3>4
    <3> QED BY <3>3, <3>5, <3>6
  <2>3. CASE ~HasKids(m)
    <3>1. \A s : s \in Scalars(m) <=> s = m /\ m # Nil
      BY <2>1, <2>3, ScalarsByKey
    <3>2. m = Nil \/ (m # Nil /\ m \in leaves)
      BY <2>1, <2>3, Shapes
    <3>3. CASE m = Nil
      <4>1. Walk(leaf, m) = Nil /\ Scalars(m) = {}
        BY <2>1, <3>1, <3>3, Walking
      <4> QED BY <4>1 DEF IsError, Nil
    <3>4. CASE m # Nil /\ m \in leaves
      <4>1. Scalars(m) = {m} /\ Scalars(m) \subseteq leaves
        BY <3>1, <3>4
      <4>2. Walk(leaf, m) = leaf[m]
        BY <2>1, <2>3, <3>4, Walking
      <4>3. IsError(Walk(leaf, m)) <=> \E s \in Scalars(m) : IsError(leaf[s])
        BY <4>1, <4>2
      <4> QED BY <4>1, <4>3
    <3> QED BY <3>2, <3>3, <3>4
  <2> QED BY <2>2, <2>3
<1>2. h \in S
  <2>1. \A a \in 0 .. h : (\A k \in 0 .. a - 1 : k \in S) => a \in S
    <3> HIDE DEF Good
    <3> QED BY <1>1
  <2> HIDE DEF S
  <2> QED BY <2>1, Induction, HighestIsNat
<1>3. Good(n)
  <2> HIDE DEF Good
  <2> QED BY <1>2
<1> QED BY <1>3

(* Placing a tree's scalars places each of them. *)
InFile(s, file) == [kind |-> "scalar", segs |-> s.segs, file |-> file]

LEMMA PlacedScalars ==
  ASSUME NEW raw \in Trees(Unplaced)[Height], NEW file \in Path
  PROVE  /\ Scalars(raw) \subseteq Unplaced
         /\ Scalars(FromYAML(raw, file)) = {InFile(s, file) : s \in Scalars(raw)}
<1> DEFINE leaf == [n \in Unplaced |-> [kind |-> "scalar", segs |-> n.segs, file |-> file]]
           S == {a \in 0 .. Height : \A m \in Trees(Unplaced)[a] :
                   \A s : s \in Scalars(Walk(leaf, m)) <=> \E x \in Scalars(m) : s = leaf[x]}
<1>1. /\ Unplaced \in SUBSET (Unplaced \cup Placed) /\ Placed \in SUBSET (Unplaced \cup Placed)
      /\ \A a \in 0 .. Height : a \in 0 .. Highest /\ 0 + a <= Highest
      /\ 0 \in 0 .. Highest /\ Height \in 0 .. Height
  BY HighestIsNat
<1>2. \A n \in Unplaced : leaf[n] \in Placed /\ leaf[n] # Nil /\ ~HasKids(leaf[n]) /\ leaf[n] = InFile(n, file)
                          /\ ~IsError(leaf[n]) /\ leaf[n] \in Trees(Placed)[0]
  <2> TAKE n \in Unplaced
  <2>1. leaf[n] \in Placed
    BY DEF Unplaced, Placed
  <2>2. Placed \subseteq Trees(Placed)[0]
    BY LeavesAreTrees, HighestIsNat
  <2> QED BY <2>1, <2>2 DEF Placed, Nil, HasKids, InFile, IsError
<1>3. FromYAML(raw, file) = Walk(leaf, raw)
  BY DEF FromYAML
<1> HIDE DEF leaf
<1>4. ASSUME NEW a \in 0 .. Height, NEW m \in Trees(Unplaced)[a]
      PROVE  /\ m \in Node /\ m \in Nodes(a) /\ ~IsError(Walk(leaf, m)) /\ Walk(leaf, m) \in Node
             /\ Scalars(m) \subseteq Unplaced
  <2>1. a \in 0 .. Highest /\ a \in a .. Highest
    BY HighestIsNat
  <2>2. m \in Node /\ m \in Nodes(a)
    BY <1>1, <2>1, TreesAreNodes, TreesGrow DEF Nodes
  <2>3. ~IsError(Walk(leaf, m)) /\ Scalars(m) \subseteq Unplaced
    BY <1>1, <1>2, <2>1, WalkSucceeds, WalkFails
  <2>4. Walk(leaf, m) \in Trees(Placed)[0 + a]
    BY <1>1, <1>2, <2>1, <2>3, WalkReturns
  <2> QED BY <1>1, <2>1, <2>2, <2>3, <2>4, TreesAreNodes
<1>5. ASSUME NEW a \in 0 .. Height, \A k \in 0 .. a - 1 : k \in S, NEW m \in Trees(Unplaced)[a]
      PROVE  \A s : s \in Scalars(Walk(leaf, m)) <=> \E x \in Scalars(m) : s = leaf[x]
  <2> DEFINE w == Walk(leaf, m)
  <2>1. m \in Node /\ m \in Nodes(a) /\ ~IsError(w) /\ w \in Node
    BY <1>4
  <2>2. CASE HasKids(m)
    <3>1. a - 1 \in S /\ m.kids \in [Keys -> Trees(Unplaced)[a - 1]]
      <4>1. a > 0 /\ m.kids \in [Keys -> Trees(Unplaced)[a - 1]]
        BY <1>1, <2>1, <2>2, Shapes
      <4>2. a - 1 \in 0 .. a - 1
        BY <4>1
      <4> HIDE DEF S
      <4> QED BY <1>5, <4>1, <4>2
    <3>2. w = [kind |-> m.kind, kids |-> [k \in Keys |-> Walk(leaf, m.kids[k])]]
      BY <1>1, <2>1, <2>2, WalkingKids
    <3>3. HasKids(w) /\ \A k \in Keys : w.kids[k] = Walk(leaf, m.kids[k])
      BY <2>2, <3>2 DEF HasKids
    <3> HIDE DEF w
    <3>4. \A s : s \in Scalars(w) <=> \E k \in Keys : s \in Scalars(Walk(leaf, m.kids[k]))
      BY <2>1, <3>3, ScalarsByKey
    <3>5. \A s : s \in Scalars(w) <=> \E k \in Keys : \E x \in Scalars(m.kids[k]) : s = leaf[x]
      BY <3>1, <3>4
    <3>6. \A x : x \in Scalars(m) <=> \E k \in Keys : x \in Scalars(m.kids[k])
      BY <2>1, <2>2, ScalarsByKey
    <3>7. \A s : s \in Scalars(w) <=> \E x \in Scalars(m) : s = leaf[x]
      BY <3>5, <3>6
    <3> QED BY <3>7 DEF w
  <2>3. CASE m = Nil
    <3>1. w = Nil
      BY <2>1, <2>3, Walking
    <3>2. ~HasKids(Nil)
      BY DEF HasKids, Nil
    <3> QED BY <2>1, <2>3, <3>1, <3>2, ScalarsByKey
  <2>4. CASE ~HasKids(m) /\ m # Nil
    <3>1. w = leaf[m] /\ m \in Unplaced
      BY <1>1, <2>1, <2>4, Walking, Shapes
    <3>2. ~HasKids(w) /\ w # Nil
      BY <1>2, <3>1
    <3> HIDE DEF w
    <3>3. \A s : s \in Scalars(w) <=> s = leaf[m]
      BY <2>1, <3>1, <3>2, ScalarsByKey
    <3>4. \A x : x \in Scalars(m) <=> x = m
      BY <2>1, <2>4, ScalarsByKey
    <3>5. \A s : s \in Scalars(w) <=> \E x \in Scalars(m) : s = leaf[x]
      BY <3>3, <3>4
    <3> QED BY <3>5 DEF w
  <2> QED BY <2>2, <2>3, <2>4
<1>6. Height \in S
  <2> HIDE DEF S
  <2>1. \A a \in 0 .. Height : (\A k \in 0 .. a - 1 : k \in S) => a \in S
    BY <1>5 DEF S
  <2> QED BY <1>1, <2>1, Induction, HighestIsNat
<1>7. Scalars(raw) \subseteq Unplaced
  BY <1>1, <1>4
<1>8. \A s : s \in Scalars(FromYAML(raw, file)) <=> \E x \in Scalars(raw) : s = InFile(x, file)
  BY <1>1, <1>2, <1>3, <1>6, <1>7
<1> QED BY <1>7, <1>8

-----------------------------------------------------------------------------
(* What a clean path is, segment by segment. *)
LEMMA SeqInduction ==
  ASSUME NEW T, NEW G, <<>> \in G, \A s \in Seq(T), e \in T : s \in G => Append(s, e) \in G,
         NEW seq \in Seq(T)
  PROVE  seq \in G
<1> DEFINE S == {n \in 0 .. Len(seq) : \A s \in Seq(T) : Len(s) = n => s \in G}
<1>1. Len(seq) \in Nat
  BY LenProperties
<1>2. ASSUME NEW n \in 0 .. Len(seq), \A k \in 0 .. n - 1 : k \in S, NEW s \in Seq(T), Len(s) = n
      PROVE  s \in G
  <2>1. CASE s = <<>>
    BY <2>1
  <2>2. CASE s # <<>>
    <3>1. PICK p \in Seq(T), e \in T : s = Append(p, e)
      BY <2>2, SequenceEmptyOrAppend
    <3>2. Len(p) \in Nat /\ Len(p) + 1 = n
      BY <1>2, <3>1, AppendProperties, LenProperties
    <3>3. Len(p) \in S
      <4> HIDE DEF S
      <4>1. Len(p) \in 0 .. n - 1
        BY <1>1, <3>2
      <4> QED BY <1>2, <4>1
    <3> QED BY <3>1, <3>3
  <2> QED BY <2>1, <2>2
<1>3. Len(seq) \in S
  <2>1. \A n \in 0 .. Len(seq) : (\A k \in 0 .. n - 1 : k \in S) => n \in S
    BY <1>2 DEF S
  <2> HIDE DEF S
  <2>2. \A n \in 0 .. Len(seq) : n \in S
    BY <1>1, <2>1, Induction
  <2> QED BY <1>1, <2>2
<1> QED BY <1>3

LEMMA PathsGrow ==
  ASSUME NEW q \in Path, NEW s \in STRING
  PROVE  /\ Append(q, s) \in Path /\ Append(q, s) # <<>>
         /\ Len(q) \in Nat /\ Len(Append(q, s)) = Len(q) + 1
         /\ Append(q, s)[Len(q) + 1] = s /\ \A i \in 1 .. Len(q) : Append(q, s)[i] = q[i]
<1>1. q \in Seq(STRING)
  BY DEF Path
<1>2. Append(q, s) \in Seq(STRING) /\ Append(q, s) # <<>>
  BY <1>1, AppendProperties
<1>3. Len(q) \in Nat /\ Len(Append(q, s)) = Len(q) + 1
  BY <1>1, AppendProperties, LenProperties
<1>4. Append(q, s)[Len(q) + 1] = s
  BY <1>1, AppendProperties
<1>5. \A i \in 1 .. Len(q) : Append(q, s)[i] = q[i]
  BY <1>1, AppendProperties
<1> QED BY <1>2, <1>3, <1>4, <1>5 DEF Path

LEMMA ConcatAppend ==
  ASSUME NEW T, NEW x \in Seq(T), NEW r \in Seq(T), NEW e \in T
  PROVE  x \o Append(r, e) = Append(x \o r, e) /\ x \o r \in Seq(T)
<1>1. Append(r, e) = r \o <<e>> /\ <<e>> \in Seq(T)
  BY AppendIsConcat
<1>2. x \o r \in Seq(T)
  BY ConcatProperties
<1>3. Append(x \o r, e) = (x \o r) \o <<e>>
  BY <1>2, AppendIsConcat
<1>4. (x \o r) \o <<e>> = x \o (r \o <<e>>)
  BY <1>1, ConcatAssociative
<1> QED BY <1>1, <1>2, <1>3, <1>4

LEMMA AppendAndBack ==
  ASSUME NEW T, NEW p \in Seq(T), NEW e \in T
  PROVE  Front(Append(p, e)) = p /\ Last(Append(p, e)) = e
<1> DEFINE a == Append(p, e)
<1>1. Len(p) \in Nat /\ \A i \in 1 .. Len(p) : p[i] \in T
  BY LenProperties, ElementOfSeq
<1>2. Len(a) = Len(p) + 1 /\ a[Len(p) + 1] = e /\ \A i \in 1 .. Len(p) : a[i] = p[i]
  BY AppendProperties
<1> HIDE DEF a
<1>3. \A i \in 1 .. Len(p) : a[i] \in T
  BY <1>1, <1>2
<1>4. /\ SubSeq(a, 1, Len(p)) \in Seq(T)
      /\ Len(SubSeq(a, 1, Len(p))) = Len(p)
      /\ \A i \in 1 .. Len(p) : SubSeq(a, 1, Len(p))[i] = a[1 + i - 1]
  <2>1. /\ SubSeq(a, 1, Len(p)) \in Seq(T)
        /\ Len(SubSeq(a, 1, Len(p))) = IF 1 <= Len(p) THEN Len(p) - 1 + 1 ELSE 0
        /\ \A i \in 1 .. Len(p) - 1 + 1 : SubSeq(a, 1, Len(p))[i] = a[1 + i - 1]
    BY <1>1, <1>3, SubSeqProperties
  <2> QED BY <1>1, <2>1
<1>5. SubSeq(a, 1, Len(p)) = p
  BY <1>1, <1>2, <1>4, SeqEqual
<1>6. Len(a) - 1 = Len(p)
  BY <1>1, <1>2
<1> QED BY <1>2, <1>5, <1>6 DEF Front, Last, a

LEMMA FrontAndLast ==
  ASSUME NEW T, NEW p \in Seq(T), p # <<>>
  PROVE  Front(p) \in Seq(T) /\ Last(p) \in T /\ p = Append(Front(p), Last(p))
<1>1. PICK s \in Seq(T), e \in T : p = Append(s, e)
  BY SequenceEmptyOrAppend
<1> QED BY <1>1, AppendAndBack

Entered(p, s) ==
  IF s # ".." THEN Append(p, s) ELSE IF p = <<>> THEN <<>> ELSE Front(p)

LEMMA CleanOfNothing == Clean(<<>>) = <<>>
<1> DEFINE z == CHOOSE x : x = [i \in 0 .. 0 |-> Cleaned(x, <<>>, i)]
<1>1. z = [i \in 0 .. 0 |-> Cleaned(z, <<>>, i)]
  BY CleanExists
<1>2. Clean(<<>>) = z[0]
  <2>1. Len(<<>>) = 0
    BY EmptySeq
  <2>2. Clean(<<>>) = LET w == CHOOSE x : x = [i \in 0 .. Len(<<>>) |-> Cleaned(x, <<>>, i)] IN w[Len(<<>>)]
    BY DEF Clean, Cleaned
  <2> QED BY <2>1, <2>2
<1> HIDE DEF z
<1>3. z[0] = Cleaned(z, <<>>, 0)
  BY <1>1
<1> QED BY <1>2, <1>3 DEF Cleaned

LEMMA CleanBySteps ==
  ASSUME NEW p \in Path, NEW s \in STRING
  PROVE  Clean(Append(p, s)) = Entered(Clean(p), s)
<1> DEFINE a == Append(p, s)
           n == Len(p)
           u == CHOOSE x : x = [i \in 0 .. n |-> Cleaned(x, p, i)]
           v == CHOOSE x : x = [i \in 0 .. n + 1 |-> Cleaned(x, a, i)]
           S == {i \in 0 .. n : v[i] = u[i]}
<1>1. n \in Nat /\ Len(a) = n + 1 /\ a[n + 1] = s /\ \A i \in 1 .. n : a[i] = p[i]
  BY PathsGrow
<1>2. u = [i \in 0 .. n |-> Cleaned(u, p, i)]
  BY <1>1, CleanExists
<1>3. v = [i \in 0 .. n + 1 |-> Cleaned(v, a, i)]
  <2>1. n + 1 \in Nat
    BY <1>1
  <2> QED BY <2>1, CleanExists
<1>4. Clean(p) = u[n]
  BY DEF Clean, Cleaned
<1>5. Clean(a) = v[n + 1]
  <2>1. Clean(a) = LET w == CHOOSE x : x = [i \in 0 .. Len(a) |-> Cleaned(x, a, i)] IN w[Len(a)]
    BY DEF Clean, Cleaned
  <2> QED BY <1>1, <2>1
<1> HIDE DEF u, v, n, a
<1>7. ASSUME NEW i \in 0 .. n, \A k \in 0 .. i - 1 : k \in S
      PROVE  v[i] = u[i]
  <2>1. v[i] = Cleaned(v, a, i) /\ u[i] = Cleaned(u, p, i)
    BY <1>1, <1>2, <1>3
  <2>2. CASE i = 0
    BY <2>1, <2>2 DEF Cleaned
  <2>3. CASE i # 0
    <3>1. v[i - 1] = u[i - 1] /\ a[i] = p[i]
      BY <1>1, <1>7, <2>3
    <3> QED BY <2>1, <2>3, <3>1 DEF Cleaned
  <2> QED BY <2>2, <2>3
<1>8. n \in S
  <2> HIDE DEF S
  <2>1. \A i \in 0 .. n : (\A k \in 0 .. i - 1 : k \in S) => i \in S
    BY <1>7 DEF S
  <2>2. n \in 0 .. n /\ n \in Nat
    BY <1>1
  <2>3. \A i \in 0 .. n : i \in S
    BY <2>1, <2>2, Induction
  <2> QED BY <2>2, <2>3
<1>9. v[n + 1] = Entered(u[n], s)
  <2>1. v[n + 1] = Cleaned(v, a, n + 1) /\ n + 1 # 0 /\ (n + 1) - 1 = n
    BY <1>1, <1>3
  <2> QED BY <1>1, <1>8, <2>1 DEF Cleaned, Entered
<1> QED BY <1>4, <1>5, <1>9 DEF a

(* It has no ".." in it, and cleaning it changes nothing. *)
IsClean(p) == \A i \in 1 .. Len(p) : p[i] # ".."

LEMMA CleaningCleans ==
  ASSUME NEW p \in Path
  PROVE  IsClean(Clean(p)) /\ (IsClean(p) => Clean(p) = p) /\ Clean(Clean(p)) = Clean(p)
<1> DEFINE G == {q \in Path : IsClean(Clean(q))}
           H == {q \in Path : IsClean(q) => Clean(q) = q}
<1>1. <<>> \in Path /\ IsClean(<<>>) /\ Clean(<<>>) = <<>>
  <2>1. <<>> \in Path /\ Len(<<>>) = 0
    BY EmptySeq DEF Path
  <2> QED BY <2>1, CleanOfNothing DEF IsClean
<1>2. ASSUME NEW q \in Path, NEW s \in STRING
      PROVE  /\ Append(q, s) \in Path /\ Len(Append(q, s)) = Len(q) + 1 /\ Len(q) \in Nat
             /\ Append(q, s)[Len(q) + 1] = s /\ \A i \in 1 .. Len(q) : Append(q, s)[i] = q[i]
  BY PathsGrow
<1>3. ASSUME NEW q \in Path, NEW s \in STRING, IsClean(Clean(q)) PROVE IsClean(Clean(Append(q, s)))
  <2> DEFINE c == Clean(q)
  <2>1. c \in Path /\ Clean(Append(q, s)) = Entered(c, s)
    BY CleanBySteps, CleanReturns
  <2>2. IsClean(c)
    BY <1>3
  <2> HIDE DEF c
  <2>3. CASE s # ".."
    <3>1. IsClean(Append(c, s))
      <4> SUFFICES ASSUME NEW i \in 1 .. Len(c) + 1 PROVE Append(c, s)[i] # ".."
        BY <1>2, <2>1 DEF IsClean
      <4>1. CASE i = Len(c) + 1
        BY <1>2, <2>1, <2>3, <4>1
      <4>2. CASE i # Len(c) + 1
        <5>1. i \in 1 .. Len(c)
          BY <1>2, <2>1, <4>2
        <5> QED BY <1>2, <2>1, <2>2, <5>1 DEF IsClean
      <4> QED BY <4>1, <4>2
    <3> QED BY <2>1, <2>3, <3>1 DEF Entered
  <2>4. CASE s = ".." /\ c # <<>>
    <3>1. PICK r \in Path, e \in STRING : c = Append(r, e)
      BY <2>1, <2>4, SequenceEmptyOrAppend DEF Path
    <3>2. Front(c) = r
      BY <3>1, AppendAndBack DEF Path
    <3>3. IsClean(r)
      <4> SUFFICES ASSUME NEW i \in 1 .. Len(r) PROVE r[i] # ".."
        BY DEF IsClean
      <4>1. i \in 1 .. Len(c) /\ c[i] = r[i]
        BY <1>2, <3>1
      <4> QED BY <2>2, <4>1 DEF IsClean
    <3> QED BY <2>1, <2>4, <3>2, <3>3 DEF Entered
  <2>5. CASE s = ".." /\ c = <<>>
    BY <1>1, <2>1, <2>5 DEF Entered
  <2> QED BY <2>3, <2>4, <2>5
<1>4. ASSUME NEW q \in Path, NEW s \in STRING, IsClean(q) => Clean(q) = q, IsClean(Append(q, s))
      PROVE  Clean(Append(q, s)) = Append(q, s)
  <2>1. IsClean(q)
    <3> SUFFICES ASSUME NEW i \in 1 .. Len(q) PROVE q[i] # ".."
      BY DEF IsClean
    <3>1. i \in 1 .. Len(Append(q, s)) /\ Append(q, s)[i] = q[i]
      BY <1>2
    <3> QED BY <1>4, <3>1 DEF IsClean
  <2>2. s # ".."
    <3>1. Len(q) + 1 \in 1 .. Len(q) + 1
      BY <1>2
    <3>2. Len(q) + 1 \in 1 .. Len(Append(q, s)) /\ Append(q, s)[Len(q) + 1] = s
      BY <1>2, <3>1
    <3> QED BY <1>4, <3>2 DEF IsClean
  <2> QED BY <1>4, <2>1, <2>2, CleanBySteps DEF Entered
<1>5. \A q \in Path : q \in G /\ q \in H
  <2> TAKE q \in Path
  <2>1. <<>> \in G /\ \A r \in Seq(STRING), e \in STRING : r \in G => Append(r, e) \in G
    BY <1>1, <1>2, <1>3 DEF Path
  <2>2. <<>> \in H /\ \A r \in Seq(STRING), e \in STRING : r \in H => Append(r, e) \in H
    BY <1>1, <1>2, <1>4 DEF Path
  <2>3. q \in Seq(STRING)
    BY DEF Path
  <2> HIDE DEF G, H
  <2> QED BY <2>1, <2>2, <2>3, SeqInduction
<1>6. Clean(p) \in Path /\ Clean(p) \in H /\ IsClean(Clean(p)) /\ p \in H
  BY <1>5, CleanReturns
<1> QED BY <1>6

(* Cleaning the first part of a path first makes no difference. *)
LEMMA CleanInParts ==
  ASSUME NEW p \in Path, NEW q \in Path
  PROVE  Clean(p \o q) = Clean(Clean(p) \o q)
<1> DEFINE G == {r \in Path : Clean(p \o r) = Clean(Clean(p) \o r)}
<1>1. Clean(p) \in Path /\ Clean(Clean(p)) = Clean(p) /\ <<>> \in Path
  BY CleaningCleans, CleanReturns, EmptySeq DEF Path
<1>2. <<>> \in G
  BY <1>1, ConcatEmptySeq DEF Path
<1>3. ASSUME NEW x \in Path, NEW r \in Path, NEW e \in STRING
      PROVE  x \o Append(r, e) = Append(x \o r, e) /\ x \o r \in Path /\ Append(r, e) \in Path
  <2>1. x \o Append(r, e) = Append(x \o r, e) /\ x \o r \in Path
    BY ConcatAppend DEF Path
  <2> QED BY <2>1, PathsGrow
<1>4. ASSUME NEW r \in Path, NEW e \in STRING, r \in G PROVE Append(r, e) \in G
  <2>1. Clean(p \o Append(r, e)) = Entered(Clean(p \o r), e)
    BY <1>3, CleanBySteps
  <2>2. Clean(Clean(p) \o Append(r, e)) = Entered(Clean(Clean(p) \o r), e)
    BY <1>1, <1>3, CleanBySteps
  <2> QED BY <1>3, <1>4, <2>1, <2>2
<1>5. q \in G
  <2> HIDE DEF G
  <2> QED BY <1>2, <1>4, SeqInduction DEF Path
<1> QED BY <1>5

(* A path that ends in a name still does when it is clean, in the clean    *)
(* directory.                                                              *)
Named(p) == p \in Path /\ p # <<>> /\ Last(p) # ".."

LEMMA NamedPaths ==
  ASSUME NEW p, Named(p)
  PROVE  /\ p \in Path /\ Front(p) \in Path /\ Named(Clean(p))
         /\ Front(Clean(p)) = Clean(Front(p)) /\ Clean(Clean(p)) = Clean(p)
<1>1. p \in Path /\ Front(p) \in Path /\ Last(p) \in STRING /\ p = Append(Front(p), Last(p)) /\ Last(p) # ".."
  BY FrontAndLast DEF Named, Path
<1>2. Clean(p) = Append(Clean(Front(p)), Last(p)) /\ Clean(Front(p)) \in Path
  BY <1>1, CleanBySteps, CleanReturns DEF Entered
<1>3. Front(Clean(p)) = Clean(Front(p)) /\ Last(Clean(p)) = Last(p) /\ Clean(p) # <<>>
  BY <1>1, <1>2, AppendAndBack, AppendProperties DEF Path
<1> QED BY <1>1, <1>3, CleanReturns, CleaningCleans DEF Named

LEMMA NamedTargets ==
  ASSUME NEW ref \in Ref, ref.yaml, NEW file, Named(file)
  PROVE  /\ Named(Target(ref, file))
         /\ Clean(Target(ref, file)) = Clean(Target(ref, Clean(file)))
<1>1. ref.segs \in Path /\ ref.segs # <<>> /\ Last(ref.segs) # ".." /\ Named(ref.segs)
  BY DEF Ref, Named
<1>2. CASE ref.abs
  BY <1>1, <1>2 DEF Target
<1>3. CASE ~ref.abs
  <2> DEFINE f == Front(file)
             t == f \o ref.segs
  <2>1. file \in Path /\ f \in Path /\ Front(Clean(file)) = Clean(f) /\ Clean(f) \in Path
    BY NamedPaths, CleanReturns
  <2>2. Target(ref, file) = Clean(t) /\ Target(ref, Clean(file)) = Clean(Clean(f) \o ref.segs)
    BY <1>3, <2>1 DEF Target
  <2>3. Clean(t) = Clean(Clean(f) \o ref.segs)
    BY <1>1, <2>1, CleanInParts
  <2>4. Named(t)
    <3> HIDE DEF f
    <3>1. t \in Path /\ t # <<>>
      BY <1>1, <2>1, ConcatProperties, ConcatEqualIffEmpty DEF Path
    <3>2. Len(f) \in Nat /\ Len(ref.segs) \in Nat /\ Len(ref.segs) > 0
      BY <1>1, <2>1, LenProperties, EmptySeq DEF Path
    <3>3. Len(t) = Len(f) + Len(ref.segs)
          /\ t[Len(f) + Len(ref.segs)] = ref.segs[Len(f) + Len(ref.segs) - Len(f)]
      BY <1>1, <2>1, <3>2, ConcatProperties DEF Path
    <3>4. Last(t) = Last(ref.segs)
      BY <3>2, <3>3 DEF Last
    <3> QED BY <1>1, <3>1, <3>4 DEF Named
  <2> HIDE DEF t
  <2> QED BY <2>2, <2>3, <2>4, NamedPaths
<1> QED BY <1>2, <1>3

LEMMA FilesAreNamed ==
  ASSUME NEW i \in DOMAIN Dirs
  PROVE  /\ Dirs[i] \in Path /\ Named(File(i)) /\ Clean(File(i)) = File(i)
         /\ IsPrefix(Clean(Dirs[i]), File(i))
<1> DEFINE c == Clean(Dirs[i])
<1>1. Dirs[i] \in Path /\ c \in Path /\ Name \in STRING /\ Name # ".."
  BY FilesHavePaths, CleanReturns, TreeAssumption
<1>2. Append(Dirs[i], Name) \in Path /\ File(i) = Append(c, Name)
  BY <1>1, CleanBySteps, AppendProperties DEF Entered, File, Path
<1> HIDE DEF c
<1>3. Front(File(i)) = c /\ Last(File(i)) = Name /\ File(i) # <<>> /\ Len(File(i)) = Len(c) + 1
  BY <1>1, <1>2, AppendAndBack, AppendProperties DEF Path
<1>4. Named(File(i)) /\ Clean(File(i)) = File(i)
  BY <1>1, <1>2, <1>3, CleaningCleans, FilesHavePaths DEF Named, File
<1>5. IsPrefix(c, File(i))
  <2>1. Len(c) \in Nat /\ SubSeq(c, 1, Len(c)) = c
    BY <1>1, LenProperties, SubSeqFull DEF Path
  <2>2. SubSeq(File(i), 1, Len(c)) = c
    BY <1>3, <2>1 DEF Front
  <2> QED BY <1>3, <2>1, <2>2 DEF IsPrefix
<1> QED BY <1>1, <1>4, <1>5 DEF c

-----------------------------------------------------------------------------
(* Walks of includes from a layer's file, include by include. *)
Walks(f, i, walk, j) == IF j = 0 THEN {File(i)} ELSE UNION {Included(f, g) : g \in walk[j - 1]}

LEMMA AfterExists ==
  ASSUME NEW f, NEW i, NEW n \in Nat
  PROVE  \E walk : walk = [j \in 0 .. n |-> Walks(f, i, walk, j)]
<1> DEFINE Of(walk, m) == walk = [j \in 0 .. m |-> Walks(f, i, walk, j)]
           S == {m \in 0 .. n : \E walk : Of(walk, m)}
<1>1. ASSUME NEW m \in 0 .. n, \A k \in 0 .. m - 1 : k \in S
      PROVE  \E walk : Of(walk, m)
  <2>1. PICK u : \A j \in 0 .. m - 1 : u[j] = Walks(f, i, u, j)
    <3>1. CASE m = 0
      BY <3>1
    <3>2. CASE m # 0
      <4>1. PICK u : Of(u, m - 1)
        BY <1>1, <3>2
      <4> QED BY <4>1
    <3> QED BY <3>1, <3>2
  <2> DEFINE w == [j \in 0 .. m |-> IF j < m THEN u[j] ELSE Walks(f, i, u, j)]
  <2>2. /\ w = [j \in 0 .. m |-> w[j]]
        /\ \A j \in 0 .. m : j < m => w[j] = u[j]
        /\ w[m] = Walks(f, i, u, m)
    OBVIOUS
  <2> HIDE DEF w
  <2>3. ASSUME NEW j \in 0 .. m PROVE w[j] = Walks(f, i, u, j)
    <3>1. CASE j < m
      <4>1. j \in 0 .. m - 1
        BY <3>1
      <4> QED BY <2>1, <2>2, <3>1, <4>1
    <3>2. CASE j = m
      BY <2>2, <3>2
    <3> QED BY <3>1, <3>2
  <2>4. \A j \in 0 .. m : Walks(f, i, w, j) = Walks(f, i, u, j)
    <3> TAKE j \in 0 .. m
    <3>1. j # 0 => w[j - 1] = u[j - 1]
      BY <2>2
    <3> QED BY <3>1 DEF Walks
  <2> QED BY <2>2, <2>3, <2>4
<1>2. n \in S
  <2> HIDE DEF S
  <2>1. \A m \in 0 .. n : (\A k \in 0 .. m - 1 : k \in S) => m \in S
    BY <1>1 DEF S
  <2> QED BY <2>1, Induction
<1> QED BY <1>2

LEMMA AfterBySteps ==
  ASSUME NEW f, NEW i, NEW k \in 0 .. MaxIncludeDepth
  PROVE  /\ k = 0 => After(f, i, k) = {File(i)}
         /\ k # 0 => \A x : x \in After(f, i, k) <=> \E g \in After(f, i, k - 1) : x \in Included(f, g)
<1> DEFINE walk == CHOOSE w : w = [j \in 0 .. MaxIncludeDepth |-> Walks(f, i, w, j)]
<1>1. walk = [j \in 0 .. MaxIncludeDepth |-> Walks(f, i, walk, j)]
  <2>1. MaxIncludeDepth \in Nat
    BY TreeAssumption
  <2> QED BY <2>1, AfterExists
<1>2. \A j : After(f, i, j) = walk[j]
  BY DEF After, Walks
<1> HIDE DEF walk
<1>3. walk[k] = Walks(f, i, walk, k)
  BY <1>1
<1> QED BY <1>2, <1>3 DEF Walks

(* A walk that can get back to where it was never ends. *)
LEMMA Cycling ==
  ASSUME NEW f, NEW i, NEW C, \A x \in C : \E y \in C : y \in Included(f, x),
         NEW a \in 0 .. MaxIncludeDepth, NEW c \in C, c \in After(f, i, a)
  PROVE  After(f, i, MaxIncludeDepth) # {}
<1> DEFINE S == {k \in 0 .. MaxIncludeDepth : k >= a => \E x \in C : x \in After(f, i, k)}
<1>1. MaxIncludeDepth \in Nat
  BY TreeAssumption
<1>2. ASSUME NEW k \in 0 .. MaxIncludeDepth, \A j \in 0 .. k - 1 : j \in S, k >= a
      PROVE  \E x \in C : x \in After(f, i, k)
  <2>1. CASE k = a
    BY <2>1
  <2>2. CASE k # a
    <3>1. k # 0 /\ k - 1 \in 0 .. k - 1 /\ k - 1 >= a
      BY <1>2, <2>2
    <3>2. PICK x \in C : x \in After(f, i, k - 1)
      BY <1>2, <3>1
    <3>3. PICK y \in C : y \in Included(f, x)
      OBVIOUS
    <3>4. y \in After(f, i, k)
      BY <3>1, <3>2, <3>3, AfterBySteps
    <3> QED BY <3>4
  <2> QED BY <2>1, <2>2
<1>3. MaxIncludeDepth \in S
  <2> HIDE DEF S
  <2>1. \A k \in 0 .. MaxIncludeDepth : (\A j \in 0 .. k - 1 : j \in S) => k \in S
    BY <1>2 DEF S
  <2> QED BY <1>1, <2>1, Induction
<1> QED BY <1>1, <1>3

(* What is read, and included, does not depend on how a path is spelled. *)
LEMMA SpellingDoesNotMatter ==
  ASSUME NEW f, NEW t, Named(t)
  PROVE  Read(f, Clean(t)) = Read(f, t) /\ Includers(f, Clean(t)) = Includers(f, t)
         /\ (Readable(f, Clean(t)) <=> Readable(f, t))
<1>1. Clean(Clean(t)) = Clean(t)
  BY NamedPaths
<1>2. Read(f, Clean(t)) = Read(f, t)
  BY <1>1 DEF Read
<1> QED BY <1>2 DEF Includers, Readable

LEMMA IncludersIncludeFiles ==
  ASSUME NEW f \in FileSystems, NEW file, Named(file), NEW s \in Includers(f, file),
         Len(s.segs) = 1, s.segs[1].path.yaml
  PROVE  LET t == Target(s.segs[1].path, file) IN Named(t) /\ Clean(t) \in Included(f, Clean(file))
<1>1. Readable(f, file) /\ s \in Scalars(Read(f, file)) /\ Includes(s.segs) # {}
  BY DEF Includers
<1>2. Read(f, file) \in Trees(Unplaced)[Height] /\ file \in Path
  BY <1>1, ReadReturns DEF Readable, Named
<1>3. s \in Unplaced
  BY <1>1, <1>2, PlacedScalars
<1>4. InFile(s, file) \in Placed
  BY <1>2, <1>3 DEF InFile, Placed, Unplaced
<1>5. s.segs[1].path \in Ref
  BY <1>1, <1>4, IncludesNamePaths DEF InFile
<1> DEFINE t == Target(s.segs[1].path, file)
<1>6. Named(t) /\ Clean(t) = Clean(Target(s.segs[1].path, Clean(file)))
  BY <1>5, NamedTargets
<1>7. s \in Includers(f, Clean(file))
  BY SpellingDoesNotMatter
<1> QED BY <1>6, <1>7 DEF Included

-----------------------------------------------------------------------------
(* A chain of includes expands if what its last file includes does. *)
Expansion(f, d) == CHOOSE u : u = [c \in Seq(Path) |-> Expanded(f, d, u, c)]

LEMMA Expanding ==
  ASSUME NEW f, NEW d, NEW c \in Seq(Path)
  PROVE  Expansion(f, d)[c] = Expanded(f, d, Expansion(f, d), c)
<1>1. Expansion(f, d) = [x \in Seq(Path) |-> Expanded(f, d, Expansion(f, d), x)]
  BY ExpandExists DEF Expansion
<1> QED BY <1>1

Expands(f, d, c) == ~IsError(Expansion(f, d)[c])

LEMMA ExpandingAFile ==
  ASSUME NEW f, NEW d, NEW file, NEW c, c = <<file>>
  PROVE  /\ Expand(f, file, d) = Expansion(f, d)[c]
         /\ ~IsError(Expand(f, file, d)) <=> Expands(f, d, c)
<1>1. Expand(f, file, d) = Expansion(f, d)[<<file>>]
  BY DEF Expand, Expanded, Expansion
<1>2. Expand(f, file, d) = Expansion(f, d)[c]
  BY <1>1
<1> DEFINE x == Expand(f, file, d)
<1>3. x = Expansion(f, d)[c]
  BY <1>2
<1> HIDE DEF x
<1>4. ~IsError(x) <=> Expands(f, d, c)
  BY <1>3 DEF Expands
<1> QED BY <1>3, <1>4 DEF x

LEMMA ChainOfOne ==
  ASSUME NEW T, NEW x \in T
  PROVE  \E c \in Seq(T) : c = <<x>> /\ c # <<>> /\ Len(c) = 1 /\ c[1] = x /\ Last(c) = x
<1> DEFINE one == <<x>>
<1>1. one \in Seq(T) /\ one # <<>> /\ Len(one) = 1 /\ one[1] = x
  OBVIOUS
<1>2. one = <<x>>
  OBVIOUS
<1> HIDE DEF one
<1>3. Last(one) = x
  BY <1>1 DEF Last
<1> QED BY <1>1, <1>2, <1>3

MayInclude(f, d, c, t) ==
  Within(d, t) /\ Len(c) < MaxIncludeDepth /\ t \notin ToSet(c) /\ Readable(f, t)

LEMMA ChainExpands ==
  ASSUME NEW f \in FileSystems, NEW d, NEW c \in Seq(Path), c # <<>>, Readable(f, Last(c))
  PROVE  Expands(f, d, c) <=>
           \A s \in Scalars(Read(f, Last(c))) :
             /\ ~Unscannable(s.segs)
             /\ Includes(s.segs) # {} =>
                  /\ Len(s.segs) = 1 /\ s.segs[1].path.yaml
                  /\ LET t == Target(s.segs[1].path, Last(c))
                     IN  MayInclude(f, d, c, t) /\ Expands(f, d, Append(c, t))
<1> DEFINE file == Last(c)
           raw == Read(f, file)
           placed == FromYAML(raw, file)
           e == Expansion(f, d)
           leaf == [n \in Placed |-> ExpandScalar(f, n, d, c, e)]
           Fine(s) == /\ ~Unscannable(s.segs)
                      /\ Includes(s.segs) # {} =>
                           /\ Len(s.segs) = 1 /\ s.segs[1].path.yaml
                           /\ LET t == Target(s.segs[1].path, Last(c))
                              IN  MayInclude(f, d, c, t) /\ Expands(f, d, Append(c, t))
<1>1. e[c] = Walk(leaf, placed)
  <2>1. e[c] = Expanded(f, d, e, c)
    BY Expanding
  <2> QED BY <2>1 DEF Expanded
<1>2. file \in Path /\ raw \in Trees(Unplaced)[Height] /\ Len(c) \in Nat
  BY DroppingTheLast, ReadReturns, LenProperties DEF Readable
<1>3. /\ placed \in Trees(Placed)[Height] /\ Scalars(raw) \subseteq Unplaced
      /\ Scalars(placed) = {InFile(s, file) : s \in Scalars(raw)}
  BY <1>2, FromYAMLReturns, PlacedScalars
<1>4. IsError(Walk(leaf, placed)) <=> \E s \in Scalars(placed) : IsError(leaf[s])
  <2>1. Height \in 0 .. Highest /\ Placed \in SUBSET (Unplaced \cup Placed)
    BY HighestIsNat
  <2> HIDE DEF leaf, placed
  <2> QED BY <1>3, <2>1, WalkFails
<1>5. ASSUME NEW s \in Scalars(raw)
      PROVE  ~IsError(leaf[InFile(s, file)]) <=> Fine(s)
  <2> DEFINE n == InFile(s, file)
             t == Target(s.segs[1].path, file)
  <2>1. s \in Unplaced
    BY <1>3
  <2>2. n \in Placed /\ n.segs = s.segs /\ n.file = file /\ ~IsError(n)
    BY <1>2, <2>1 DEF InFile, Placed, Unplaced, IsError
  <2>3. leaf[n] = ExpandScalar(f, n, d, c, e)
    BY <2>2
  <2> HIDE DEF n
  <2>4. leaf[n] = IF Unscannable(s.segs) THEN Error("malformed")
                  ELSE IF Includes(s.segs) = {} THEN n
                  ELSE IF Len(s.segs) # 1 THEN Error("embedded")
                  ELSE IF ~s.segs[1].path.yaml THEN Error("extension")
                  ELSE IncludeFile(f, t, d, c, e)
    BY <2>2, <2>3 DEF ExpandScalar
  <2>5. \A why : IsError(Error(why))
    BY DEF IsError, Error
  <2>6. ~IsError(IncludeFile(f, t, d, c, e)) <=> MayInclude(f, d, c, t) /\ Expands(f, d, Append(c, t))
    <3>1. Len(c) >= MaxIncludeDepth <=> ~(Len(c) < MaxIncludeDepth)
      BY <1>2, TreeAssumption
    <3> HIDE DEF t, e
    <3>2. Expands(f, d, Append(c, t)) <=> ~IsError(e[Append(c, t)])
      BY DEF Expands, e
    <3> QED BY <2>5, <3>1, <3>2 DEF IncludeFile, MayInclude, Readable
  <2> HIDE DEF t, leaf
  <2>7. ~IsError(leaf[n]) <=> Fine(s)
    <3>1. CASE Unscannable(s.segs)
      BY <2>4, <2>5, <3>1
    <3>2. CASE ~Unscannable(s.segs) /\ Includes(s.segs) = {}
      BY <2>2, <2>4, <3>2
    <3>3. CASE ~Unscannable(s.segs) /\ Includes(s.segs) # {} /\ Len(s.segs) # 1
      BY <2>4, <2>5, <3>3
    <3>4. CASE ~Unscannable(s.segs) /\ Includes(s.segs) # {} /\ Len(s.segs) = 1 /\ ~s.segs[1].path.yaml
      BY <2>4, <2>5, <3>4
    <3>5. CASE ~Unscannable(s.segs) /\ Includes(s.segs) # {} /\ Len(s.segs) = 1 /\ s.segs[1].path.yaml
      <4>1. leaf[n] = IncludeFile(f, t, d, c, e)
        BY <2>4, <3>5
      <4>2. Fine(s) <=> MayInclude(f, d, c, t) /\ Expands(f, d, Append(c, t))
        BY <3>5 DEF t
      <4> QED BY <2>6, <4>1, <4>2
    <3> QED BY <3>1, <3>2, <3>3, <3>4, <3>5
  <2> QED BY <2>7 DEF n
<1>6. Expands(f, d, c) <=> \A s \in Scalars(raw) : Fine(s)
  <2>1. Expands(f, d, c) <=> ~IsError(Walk(leaf, placed))
    BY <1>1 DEF Expands
  <2> HIDE DEF leaf, placed, raw, file, Fine
  <2> QED BY <1>3, <1>4, <1>5, <2>1
<1> QED BY <1>6

-----------------------------------------------------------------------------
(* A layer that is allowed to expand does: along a chain of includes, no   *)
(* file comes twice, and none is too far away.                             *)
Linked(f, i, c) ==
  /\ c \in Seq(Path) /\ c # <<>> /\ Len(c) <= MaxIncludeDepth
  /\ \A j \in 1 .. Len(c) : Named(c[j]) /\ Clean(c[j]) \in After(f, i, j - 1)
  /\ \A j \in 1 .. Len(c) - 1 : Clean(c[j + 1]) \in Included(f, Clean(c[j]))

LEMMA NothingComesTwice ==
  ASSUME NEW f, NEW i, NEW c, Linked(f, i, c), After(f, i, MaxIncludeDepth) = {},
         NEW t, Clean(t) \in Included(f, Clean(Last(c)))
  PROVE  t \notin ToSet(c)
<1> SUFFICES ASSUME t \in ToSet(c) PROVE FALSE
  OBVIOUS
<1>1. /\ Len(c) \in Nat /\ DOMAIN c = 1 .. Len(c) /\ Len(c) <= MaxIncludeDepth /\ MaxIncludeDepth \in Nat
      /\ Len(c) > 0
  BY LenProperties, EmptySeq, TreeAssumption DEF Linked
<1>2. PICK j \in 1 .. Len(c) : t = c[j]
  BY <1>1 DEF ToSet
<1> DEFINE C == {Clean(c[l]) : l \in j .. Len(c)}
<1>3. ASSUME NEW x \in C PROVE \E y \in C : y \in Included(f, x)
  <2>1. PICK l \in j .. Len(c) : x = Clean(c[l])
    OBVIOUS
  <2>2. CASE l = Len(c)
    <3>1. x = Clean(Last(c))
      BY <2>1, <2>2 DEF Last
    <3>2. j \in j .. Len(c) /\ Clean(t) = Clean(c[j])
      BY <1>1, <1>2
    <3> QED BY <3>1, <3>2
  <2>3. CASE l # Len(c)
    <3>1. l \in 1 .. Len(c) - 1 /\ l + 1 \in j .. Len(c)
      <4>1. \A n \in Nat : \A a \in 1 .. n : \A b \in a .. n : b # n => b \in 1 .. n - 1 /\ b + 1 \in a .. n
        OBVIOUS
      <4> QED BY <1>1, <2>3, <4>1
    <3>2. Clean(c[l + 1]) \in C
      BY <3>1
    <3>3. Clean(c[l + 1]) \in Included(f, Clean(c[l]))
      BY <3>1 DEF Linked
    <3> HIDE DEF C
    <3> QED BY <2>1, <3>2, <3>3
  <2> QED BY <2>2, <2>3
<1>4. j - 1 \in 0 .. MaxIncludeDepth /\ Clean(c[j]) \in C /\ Clean(c[j]) \in After(f, i, j - 1)
  BY <1>1, <1>2 DEF Linked
<1> HIDE DEF C
<1> QED BY <1>3, <1>4, Cycling

(* What the code allows: nothing is MaxIncludeDepth includes away. *)
CodeAllows(f, i) == Contained(f, i) /\ ~AtTheCap(f, i)

LEMMA AllowedExpands ==
  ASSUME NEW f \in FileSystems, NEW i \in DOMAIN Dirs, CodeAllows(f, i)
  PROVE  ~IsError(Expand(f, File(i), Dirs[i]))
<1> DEFINE M == MaxIncludeDepth
           d == Dirs[i]
           S == {m \in 0 .. M : \A c : Linked(f, i, c) /\ Len(c) + m >= M => Expands(f, d, c)}
<1>1. M \in Nat /\ M > 0
  BY TreeAssumption
<1>2. ASSUME NEW m \in 0 .. M, \A k \in 0 .. m - 1 : k \in S, NEW c, Linked(f, i, c), Len(c) + m >= M
      PROVE  Expands(f, d, c)
  <2> DEFINE file == Last(c)
             g == Clean(file)
  <2>1. c \in Seq(Path) /\ c # <<>> /\ Len(c) \in Nat /\ Len(c) > 0 /\ Len(c) <= M
    BY <1>2, LenProperties, EmptySeq DEF Linked
  <2>2. Named(file) /\ g \in After(f, i, Len(c) - 1) /\ Len(c) - 1 \in 0 .. M /\ Len(c) \in 0 .. M
    <3>1. Len(c) \in 1 .. Len(c)
      BY <2>1
    <3> QED BY <1>1, <1>2, <2>1, <3>1 DEF Linked, Last
  <2>3. WellFormed(f, g)
    BY <2>2 DEF CodeAllows, Contained, AtTheCap
  <2>4. Readable(f, file) /\ Read(f, g) = Read(f, file) /\ Includers(f, g) = Includers(f, file)
    BY <2>2, <2>3, SpellingDoesNotMatter DEF WellFormed
  <2>5. ASSUME NEW s \in Scalars(Read(f, file)), Includes(s.segs) # {}
        PROVE  /\ Len(s.segs) = 1 /\ s.segs[1].path.yaml
               /\ LET t == Target(s.segs[1].path, file)
                  IN  MayInclude(f, d, c, t) /\ Expands(f, d, Append(c, t))
    <3> DEFINE t == Target(s.segs[1].path, file)
    <3>1. s \in Includers(f, file)
      BY <2>4, <2>5 DEF Includers
    <3>2. Len(s.segs) = 1 /\ s.segs[1].path.yaml
      BY <2>3, <2>4, <3>1 DEF WellFormed
    <3>3. Named(t) /\ Clean(t) \in Included(f, g)
      BY <2>2, <3>1, <3>2, IncludersIncludeFiles
    <3> HIDE DEF t, g, file
    <3>4. Clean(t) \in After(f, i, Len(c))
      BY <2>1, <2>2, <3>3, AfterBySteps
    <3>5. Len(c) < M
      BY <1>1, <2>1, <3>4 DEF CodeAllows, Contained, AtTheCap
    <3>6. WellFormed(f, Clean(t)) /\ IsPrefix(Clean(d), Clean(t))
      BY <2>2, <3>4 DEF CodeAllows, Contained, AtTheCap
    <3>7. Readable(f, t) /\ Within(d, t)
      BY <3>3, <3>6, SpellingDoesNotMatter DEF WellFormed, Within
    <3>8. t \notin ToSet(c)
      BY <1>2, <3>3, NothingComesTwice DEF CodeAllows, AtTheCap, g, file
    <3>9. Expands(f, d, Append(c, t))
      <4> DEFINE a == Append(c, t)
      <4>1. t \in Path
        BY <3>3 DEF Named
      <4>2. /\ a \in Seq(Path) /\ a # <<>> /\ Len(a) = Len(c) + 1 /\ a[Len(c) + 1] = t
            /\ \A j \in 1 .. Len(c) : a[j] = c[j]
        BY <2>1, <4>1, AppendProperties
      <4> HIDE DEF a
      <4>3. ASSUME NEW j \in 1 .. Len(a) PROVE Named(a[j]) /\ Clean(a[j]) \in After(f, i, j - 1)
        <5>1. CASE j = Len(c) + 1
          <6>1. j - 1 = Len(c) /\ a[j] = t
            BY <2>1, <4>2, <5>1
          <6> QED BY <3>3, <3>4, <6>1
        <5>2. CASE j # Len(c) + 1
          <6>1. j \in 1 .. Len(c) /\ a[j] = c[j]
            BY <2>1, <4>2, <5>2
          <6> QED BY <1>2, <6>1 DEF Linked
        <5> QED BY <5>1, <5>2
      <4>4. ASSUME NEW j \in 1 .. Len(a) - 1 PROVE Clean(a[j + 1]) \in Included(f, Clean(a[j]))
        <5>1. CASE j = Len(c)
          <6>1. a[j + 1] = t /\ a[j] = file
            BY <2>1, <4>2, <5>1 DEF file, Last
          <6> QED BY <3>3, <6>1 DEF g
        <5>2. CASE j # Len(c)
          <6>1. j \in 1 .. Len(c) - 1 /\ a[j] = c[j] /\ a[j + 1] = c[j + 1]
            BY <2>1, <4>2, <5>2
          <6> QED BY <1>2, <6>1 DEF Linked
        <5> QED BY <5>1, <5>2
      <4>5. Linked(f, i, a)
        <5>1. Len(a) <= MaxIncludeDepth
          BY <1>1, <2>1, <3>5, <4>2
        <5> QED BY <4>2, <4>3, <4>4, <5>1 DEF Linked
      <4>6. m - 1 \in 0 .. m - 1 /\ Len(a) + (m - 1) >= M
        BY <1>1, <1>2, <2>1, <3>5, <4>2
      <4>7. m - 1 \in S
        <5> HIDE DEF S
        <5> QED BY <1>2, <4>6
      <4>8. Expands(f, d, a)
        BY <4>5, <4>6, <4>7
      <4> QED BY <4>8 DEF a
    <3> QED BY <3>2, <3>5, <3>7, <3>8, <3>9 DEF MayInclude, t
  <2>6. \A s \in Scalars(Read(f, file)) : ~Unscannable(s.segs)
    BY <2>3, <2>4 DEF WellFormed
  <2> HIDE DEF d, g
  <2> QED BY <2>1, <2>4, <2>5, <2>6, ChainExpands
<1>3. M \in S
  <2>1. \A m \in 0 .. M : (\A k \in 0 .. m - 1 : k \in S) => m \in S
    BY <1>2
  <2> HIDE DEF S
  <2>2. M \in 0 .. M
    BY <1>1
  <2>3. \A m \in 0 .. M : m \in S
    BY <1>1, <2>1, Induction
  <2> QED BY <2>2, <2>3
<1>4. Named(File(i)) /\ Clean(File(i)) = File(i) /\ File(i) \in Path
  BY FilesAreNamed, FilesHavePaths
<1>5. PICK c \in Seq(Path) : c = <<File(i)>> /\ c # <<>> /\ Len(c) = 1 /\ c[1] = File(i)
  BY <1>4, ChainOfOne
<1>6. Linked(f, i, c)
  <2>1. File(i) \in After(f, i, 0)
    BY <1>1, AfterBySteps
  <2>2. \A j \in 1 .. Len(c) : j - 1 = 0 /\ c[j] = File(i)
    BY <1>5
  <2>3. 1 .. Len(c) - 1 = {}
    BY <1>5
  <2> QED BY <1>1, <1>4, <1>5, <2>1, <2>2, <2>3 DEF Linked
<1>7. Expands(f, d, c)
  BY <1>1, <1>3, <1>5, <1>6
<1> QED BY <1>5, <1>7, ExpandingAFile

(* One that does was allowed to: chains lead to all files that can be      *)
(* reached.                                                                *)
LEMMA ExpandedIsAllowed ==
  ASSUME NEW f \in FileSystems, NEW i \in DOMAIN Dirs, Readable(f, File(i)),
         ~IsError(Expand(f, File(i), Dirs[i]))
  PROVE  CodeAllows(f, i)
<1> DEFINE M == MaxIncludeDepth
           d == Dirs[i]
           Reaches(c, g) == /\ c \in Seq(Path) /\ c # <<>> /\ Named(Last(c)) /\ Clean(Last(c)) = g
                            /\ Readable(f, Last(c)) /\ Within(d, Last(c)) /\ Expands(f, d, c)
           S == {k \in 0 .. M : \A g \in After(f, i, k) : k < M /\ \E c : Len(c) = k + 1 /\ Reaches(c, g)}
<1>1. M \in Nat /\ M > 0
  BY TreeAssumption
<1>2. \E c : Len(c) = 1 /\ Reaches(c, File(i))
  <2>1. /\ Named(File(i)) /\ Clean(File(i)) = File(i) /\ File(i) \in Path
        /\ IsPrefix(Clean(d), File(i))
    BY FilesAreNamed, FilesHavePaths
  <2>2. PICK c \in Seq(Path) : c = <<File(i)>> /\ c # <<>> /\ Len(c) = 1 /\ Last(c) = File(i)
    BY <2>1, ChainOfOne
  <2>3. Expands(f, d, c)
    BY <2>2, ExpandingAFile
  <2> QED BY <2>1, <2>2, <2>3 DEF Within
<1>3. ASSUME NEW c, NEW g, Reaches(c, g)
      PROVE  /\ WellFormed(f, g) /\ IsPrefix(Clean(d), g)
             /\ \A s \in Includers(f, g) :
                  LET t == Target(s.segs[1].path, Last(c))
                  IN  /\ Len(c) < M /\ Len(Append(c, t)) = Len(c) + 1
                      /\ Reaches(Append(c, t), Clean(t))
                      /\ Clean(t) = Clean(Target(s.segs[1].path, g))
  <2> DEFINE file == Last(c)
  <2>1. /\ Readable(f, g) /\ Read(f, g) = Read(f, file) /\ Includers(f, g) = Includers(f, file)
        /\ file \in Path
    BY <1>3, SpellingDoesNotMatter DEF Named
  <2>2. \A s \in Scalars(Read(f, file)) :
          /\ ~Unscannable(s.segs)
          /\ Includes(s.segs) # {} =>
               /\ Len(s.segs) = 1 /\ s.segs[1].path.yaml
               /\ LET t == Target(s.segs[1].path, file)
                  IN  MayInclude(f, d, c, t) /\ Expands(f, d, Append(c, t))
    <3> HIDE DEF d
    <3> QED BY <1>3, ChainExpands
  <2>3. \A s \in Includers(f, g) : s \in Scalars(Read(f, file)) /\ Includes(s.segs) # {}
    BY <2>1 DEF Includers
  <2>4. WellFormed(f, g)
    BY <2>1, <2>2, <2>3 DEF WellFormed
  <2>5. IsPrefix(Clean(d), g)
    BY <1>3 DEF Within
  <2>6. ASSUME NEW s \in Includers(f, g)
        PROVE  LET t == Target(s.segs[1].path, Last(c))
               IN  /\ Len(c) < M /\ Len(Append(c, t)) = Len(c) + 1
                   /\ Reaches(Append(c, t), Clean(t))
                   /\ Clean(t) = Clean(Target(s.segs[1].path, g))
    <3> DEFINE t == Target(s.segs[1].path, file)
    <3>1. Len(s.segs) = 1 /\ s.segs[1].path.yaml /\ MayInclude(f, d, c, t) /\ Expands(f, d, Append(c, t))
      BY <2>2, <2>3
    <3>2. Named(t) /\ s.segs[1].path \in Ref
      <4>1. s \in Unplaced
        <5>1. Read(f, file) \in Trees(Unplaced)[Height]
          BY <1>3, ReadReturns DEF Readable
        <5> QED BY <2>1, <2>3, <5>1, PlacedScalars
      <4>2. InFile(s, file) \in Placed
        BY <2>1, <4>1 DEF InFile, Placed, Unplaced
      <4>3. s.segs[1].path \in Ref
        BY <2>3, <3>1, <4>2, IncludesNamePaths DEF InFile
      <4> QED BY <1>3, <3>1, <4>3, NamedTargets
    <3>3. Clean(t) = Clean(Target(s.segs[1].path, g))
      BY <1>3, <3>1, <3>2, NamedTargets
    <3> HIDE DEF t
    <3>4. /\ Append(c, t) \in Seq(Path) /\ Append(c, t) # <<>> /\ Last(Append(c, t)) = t
          /\ Len(Append(c, t)) = Len(c) + 1
      <4>1. t \in Path /\ c \in Seq(Path)
        BY <1>3, <3>2 DEF Named
      <4> QED BY <4>1, AppendAndBack, AppendProperties
    <3>5. Len(c) < M /\ Reaches(Append(c, t), Clean(t))
      BY <3>1, <3>2, <3>4 DEF MayInclude
    <3> QED BY <3>3, <3>4, <3>5 DEF t
  <2> QED BY <2>4, <2>5, <2>6
<1> HIDE DEF Reaches
<1>4. ASSUME NEW k \in 0 .. M, \A j \in 0 .. k - 1 : j \in S, NEW g \in After(f, i, k)
      PROVE  k < M /\ \E c : Len(c) = k + 1 /\ Reaches(c, g)
  <2>1. CASE k = 0
    BY <1>1, <1>2, <2>1, AfterBySteps
  <2>2. CASE k # 0
    <3>1. PICK h \in After(f, i, k - 1) : g \in Included(f, h)
      BY <2>2, AfterBySteps
    <3>2. k - 1 \in S
      <4>1. k - 1 \in 0 .. k - 1
        BY <2>2
      <4> HIDE DEF S
      <4> QED BY <1>4, <4>1
    <3>3. PICK c : Len(c) = (k - 1) + 1 /\ Reaches(c, h)
      BY <3>1, <3>2
    <3>4. PICK s \in Includers(f, h) : g = Clean(Target(s.segs[1].path, h))
      BY <3>1 DEF Included
    <3> DEFINE t == Target(s.segs[1].path, Last(c))
    <3>5. Len(c) < M /\ Len(Append(c, t)) = Len(c) + 1 /\ Reaches(Append(c, t), Clean(t)) /\ Clean(t) = g
      BY <1>3, <3>3, <3>4
    <3> HIDE DEF t
    <3>6. Len(c) = k /\ Len(Append(c, t)) = k + 1
      BY <3>3, <3>5
    <3> QED BY <3>5, <3>6
  <2> QED BY <2>1, <2>2
<1>5. \A k \in 0 .. M : k \in S
  <2>1. \A k \in 0 .. M : (\A j \in 0 .. k - 1 : j \in S) => k \in S
    BY <1>4
  <2> HIDE DEF S
  <2> QED BY <1>1, <2>1, Induction
<1>6. After(f, i, M) = {}
  <2>1. M \in 0 .. M /\ ~(M < M)
    BY <1>1
  <2> QED BY <1>5, <2>1
<1>7. ASSUME NEW k \in 0 .. M, NEW g \in After(f, i, k)
      PROVE  WellFormed(f, g) /\ IsPrefix(Clean(Dirs[i]), g)
  <2>1. PICK c : Reaches(c, g)
    BY <1>5
  <2> QED BY <1>3, <2>1
<1> QED BY <1>6, <1>7 DEF CodeAllows, Contained, AtTheCap

-----------------------------------------------------------------------------
(* Layers that were read were allowed to expand, and the one that ended a  *)
(* Load was not, or is no map.  A Load that got past them looked at all.   *)
ExpandsExactly ==
  ~Static(schemes) =>
    /\ \A i \in 1 .. dir - 1 : Read(fs, File(i)) # NoFile => CodeAllows(fs, i)
    /\ phase = "failed" /\ dir <= Len(Dirs) =>
         tree.why \in {"parse", "shape"} \/ ~CodeAllows(fs, dir)

LayersWereAllowed ==
  /\ phase \in {"shape", "merge", "resolve", "bind"} => dir > Len(Dirs)
  /\ ExpandsExactly

LEMMA LayerIsAllowed ==
  ASSUME NEW f \in FileSystems, NEW st, ~Static(st), NEW i \in DOMAIN Dirs, Read(f, File(i)) # NoFile
  PROVE  LET t == LayerTree(f, st, i)
         IN  IF IsError(t) THEN t.why \in {"parse", "shape"} \/ ~CodeAllows(f, i) ELSE CodeAllows(f, i)
<1> DEFINE raw == Read(f, File(i))
           t == LayerTree(f, st, i)
<1>1. CASE raw = Broken
  <2>1. t = Error("parse")
    BY <1>1 DEF LayerTree
  <2> HIDE DEF t
  <2>2. IsError(t) /\ t.why = "parse"
    BY <2>1 DEF IsError, Error
  <2>3. IF IsError(t) THEN t.why \in {"parse", "shape"} \/ ~CodeAllows(f, i) ELSE CodeAllows(f, i)
    BY <2>2
  <2> QED BY <2>3 DEF t
<1>2. CASE raw # Broken /\ raw.kind # "map"
  <2>1. t = Error("shape")
    BY <1>2 DEF LayerTree
  <2> HIDE DEF t
  <2>2. IsError(t) /\ t.why = "shape"
    BY <2>1 DEF IsError, Error
  <2>3. IF IsError(t) THEN t.why \in {"parse", "shape"} \/ ~CodeAllows(f, i) ELSE CodeAllows(f, i)
    BY <2>2
  <2> QED BY <2>3 DEF t
<1>3. CASE raw # Broken /\ raw.kind = "map"
  <2>1. t = Expand(f, File(i), Dirs[i]) /\ Readable(f, File(i))
    BY <1>3 DEF LayerTree, Readable
  <2>2. IsError(t) => ~CodeAllows(f, i)
    BY <2>1, AllowedExpands
  <2>3. ~IsError(t) => CodeAllows(f, i)
    BY <2>1, ExpandedIsAllowed
  <2> HIDE DEF t
  <2>4. IF IsError(t) THEN t.why \in {"parse", "shape"} \/ ~CodeAllows(f, i) ELSE CodeAllows(f, i)
    BY <2>2, <2>3
  <2> QED BY <2>4 DEF t
<1> QED BY <1>1, <1>2, <1>3

LEMMA LayersWereAllowedAtFirst == Init => LayersWereAllowed
<1> SUFFICES ASSUME Init PROVE LayersWereAllowed
  OBVIOUS
<1>1. phase = "read" /\ dir = 1
  BY DEF Init
<1>2. 1 .. dir - 1 = {}
  BY <1>1
<1> QED BY <1>1, <1>2 DEF LayersWereAllowed, ExpandsExactly

LEMMA LayersWereAllowedIsKept == Inv /\ LayersWereAllowed /\ [Next]_vars => LayersWereAllowed'
<1> SUFFICES ASSUME Inv, LayersWereAllowed, [Next]_vars PROVE LayersWereAllowed'
  OBVIOUS
<1> USE DEF LayersWereAllowed, ExpandsExactly
<1>1. /\ Len(Dirs) \in Nat /\ DOMAIN Dirs = 1 .. Len(Dirs) /\ dir \in 1 .. Len(Dirs) + 1
      /\ schemes \in SchemeSets /\ fs \in FileSystems
  BY TreeAssumption, LenProperties DEF Inv, LayersAreMaps, Typed
<1>2. CASE SkipLayer
  <2>1. /\ phase = "read" /\ Read(fs, File(dir)) = NoFile /\ dir' = dir + 1
        /\ UNCHANGED <<fs, schemes, phase, tree>>
    BY <1>2 DEF SkipLayer
  <2>2. \A i \in 1 .. dir' - 1 : i = dir \/ i \in 1 .. dir - 1
    BY <1>1, <2>1
  <2> QED BY <2>1, <2>2
<1>3. CASE ReadLayer
  <2> DEFINE t == LayerTree(fs, schemes, dir)
  <2>1. /\ phase = "read" /\ dir <= Len(Dirs) /\ Read(fs, File(dir)) # NoFile /\ dir \in DOMAIN Dirs
        /\ fs' = fs /\ schemes' = schemes
        /\ IF IsError(t) THEN phase' = "failed" /\ tree' = t /\ UNCHANGED dir
                         ELSE dir' = dir + 1 /\ UNCHANGED <<phase, tree>>
    BY <1>1, <1>3 DEF ReadLayer
  <2>2. ~Static(schemes) => IF IsError(t) THEN t.why \in {"parse", "shape"} \/ ~CodeAllows(fs, dir)
                   ELSE CodeAllows(fs, dir)
    <3> SUFFICES ASSUME ~Static(schemes)
                 PROVE  IF IsError(t) THEN t.why \in {"parse", "shape"} \/ ~CodeAllows(fs, dir)
                        ELSE CodeAllows(fs, dir)
      OBVIOUS
    <3> QED BY <1>1, <2>1, LayerIsAllowed
  <2> HIDE DEF t
  <2>3. CASE IsError(t)
    BY <2>1, <2>2, <2>3
  <2>4. CASE ~IsError(t)
    <3>1. \A i \in 1 .. dir' - 1 : i = dir \/ i \in 1 .. dir - 1
      BY <1>1, <2>1, <2>4
    <3> QED BY <2>1, <2>2, <2>4, <3>1
  <2> QED BY <2>3, <2>4
<1>4. CASE LayersRead
  <2>1. /\ dir > Len(Dirs) /\ dir' = dir /\ fs' = fs /\ schemes' = schemes
        /\ phase' \in {"failed", "shape"}
    BY <1>1, <1>4 DEF LayersRead
  <2> QED BY <1>1, <2>1
<1>5. CASE ValidateShape
  <2>1. /\ dir > Len(Dirs) /\ dir' = dir /\ fs' = fs /\ schemes' = schemes
        /\ phase' \in {"failed", "merge"}
    BY <1>1, <1>5 DEF ValidateShape
  <2> QED BY <1>1, <2>1
<1>6. CASE Merge
  <2>1. dir > Len(Dirs) /\ dir' = dir /\ fs' = fs /\ schemes' = schemes /\ phase' = "resolve"
    BY <1>6 DEF Merge
  <2> QED BY <1>1, <2>1
<1>7. CASE Resolve
  <2>1. /\ dir > Len(Dirs) /\ dir' = dir /\ fs' = fs /\ schemes' = schemes
        /\ phase' \in {"failed", "bind"}
    BY <1>7 DEF Resolve
  <2> QED BY <1>1, <2>1
<1>8. CASE UNCHANGED vars
  BY <1>8 DEF vars
<1> QED BY <1>2, <1>3, <1>4, <1>5, <1>6, <1>7, <1>8 DEF Next

(* A layer is expanded exactly if all it can reach by includes may be      *)
(* included: however the paths are spelled, a file that cannot be read, is *)
(* elsewhere, is malformed, comes back or is too far away ends the Load.   *)
THEOREM ExpandsExactlyIfAllowed == Spec => []ExpandsExactly
<1>1. LayersWereAllowed => ExpandsExactly
  BY DEF LayersWereAllowed
<1> QED BY <1>1, LayersWereAllowedAtFirst, LayersWereAllowedIsKept, Invariance, PTL DEF Spec

(* So a layer that expands obeys the rules of templating.md for includes,  *)
(* and one that obeys them expands unless its includes nest to the cap.    *)
THEOREM ExpandsByTheRules == Spec => []ExpandsAsAllowed
<1>1. ASSUME NEW f, NEW i PROVE CodeAllows(f, i) => MayExpand(f, i)
  BY DEF CodeAllows, MayExpand, AtTheCap
<1>2. ASSUME NEW f, NEW i PROVE ~CodeAllows(f, i) => ~MayExpand(f, i) \/ AtTheCap(f, i)
  BY DEF CodeAllows, MayExpand
<1>3. ExpandsExactly => ExpandsAsAllowed
  BY <1>1, <1>2 DEF ExpandsExactly, ExpandsAsAllowed
<1> QED BY <1>3, ExpandsExactlyIfAllowed, PTL
=============================================================================
