-------------------------- MODULE ConfigPathsProofs --------------------------
(***************************************************************************)
(* What ConfigTree binds, key path by key path, for any layers and files:  *)
(* merging any number of layers leaves, at a path, the node of the last    *)
(* layer that has one there and that no later layer replaces from above,   *)
(* and that node is what following the layer's files along the path, from  *)
(* include to include, finds there.                                        *)
(***************************************************************************)
EXTENDS ConfigTreeProofs

(* What a tree has at a key path, key by key. *)
AtStep(at, root, path, i) == IF i = 0 THEN root ELSE Kid(at[i - 1], path[i])

AtUpTo(at, root, path, n) == at = [i \in 0 .. n |-> AtStep(at, root, path, i)]

LEMMA AtExists ==
  ASSUME NEW root, NEW path, NEW n \in Nat
  PROVE  \E at : AtUpTo(at, root, path, n)
<1> DEFINE Of(at, m) == at = [i \in 0 .. m |-> AtStep(at, root, path, i)]
           S == {m \in 0 .. n : \E at : Of(at, m)}
<1>1. ASSUME NEW m \in 0 .. n, \A k \in 0 .. m - 1 : k \in S
      PROVE  \E at : Of(at, m)
  <2>1. PICK u : \A i \in 0 .. m - 1 : u[i] = AtStep(u, root, path, i)
    <3>1. CASE m = 0
      BY <3>1
    <3>2. CASE m # 0
      <4>1. PICK u : Of(u, m - 1)
        BY <1>1, <3>2
      <4> QED BY <4>1
    <3> QED BY <3>1, <3>2
  <2> DEFINE w == [i \in 0 .. m |-> IF i < m THEN u[i] ELSE AtStep(u, root, path, i)]
  <2>2. /\ w = [i \in 0 .. m |-> w[i]]
        /\ \A i \in 0 .. m : i < m => w[i] = u[i]
        /\ w[m] = AtStep(u, root, path, m)
    OBVIOUS
  <2> HIDE DEF w
  <2>3. ASSUME NEW i \in 0 .. m PROVE w[i] = AtStep(u, root, path, i)
    <3>1. CASE i < m
      <4>1. i \in 0 .. m - 1
        BY <3>1
      <4> QED BY <2>1, <2>2, <3>1, <4>1
    <3>2. CASE i = m
      BY <2>2, <3>2
    <3> QED BY <3>1, <3>2
  <2>4. \A i \in 0 .. m : AtStep(w, root, path, i) = AtStep(u, root, path, i)
    BY <2>2 DEF AtStep
  <2> QED BY <2>2, <2>3, <2>4
<1>2. n \in S
  <2> HIDE DEF S
  <2>1. \A m \in 0 .. n : (\A k \in 0 .. m - 1 : k \in S) => m \in S
    BY <1>1 DEF S
  <2> QED BY <2>1, Induction
<1> QED BY <1>2 DEF AtUpTo

LEMMA AtByKeys ==
  ASSUME NEW root, NEW path \in Seq(Keys), NEW n \in 0 .. Len(path)
  PROVE  /\ n = 0 => At(root, path, n) = root
         /\ n # 0 => At(root, path, n) = Kid(At(root, path, n - 1), path[n])
<1> DEFINE at == CHOOSE a : AtUpTo(a, root, path, Len(path))
<1>1. AtUpTo(at, root, path, Len(path))
  <2>1. Len(path) \in Nat
    BY LenProperties
  <2> QED BY <2>1, AtExists
<1>2. \A i : At(root, path, i) = at[i]
  BY DEF At, AtUpTo, AtStep
<1> HIDE DEF at
<1>3. at[n] = AtStep(at, root, path, n)
  BY <1>1 DEF AtUpTo
<1> QED BY <1>2, <1>3 DEF AtStep

LEMMA KidReturns ==
  ASSUME NEW leaves \in SUBSET (Unplaced \cup Placed), NEW h \in 0 .. Highest,
         NEW n \in Trees(leaves)[h], NEW k \in Keys
  PROVE  Kid(n, k) \in Trees(leaves)[h]
<1>1. CASE HasKids(n)
  <2>1. h > 0 /\ n.kids[k] \in Trees(leaves)[h - 1]
    BY <1>1, Shapes
  <2>2. h - 1 \in 0 .. Highest /\ h \in h - 1 .. Highest
    BY <2>1, HighestIsNat
  <2>3. Trees(leaves)[h - 1] \subseteq Trees(leaves)[h]
    BY <2>2, TreesGrow
  <2> QED BY <1>1, <2>1, <2>3 DEF Kid
<1>2. CASE ~HasKids(n)
  BY <1>2, LeavesAreTrees DEF Kid
<1> QED BY <1>1, <1>2

LEMMA AtReturns ==
  ASSUME NEW leaves \in SUBSET (Unplaced \cup Placed), NEW h \in 0 .. Highest,
         NEW root \in Trees(leaves)[h], NEW path \in Seq(Keys), NEW n \in 0 .. Len(path)
  PROVE  At(root, path, n) \in Trees(leaves)[h]
<1> DEFINE S == {i \in 0 .. Len(path) : At(root, path, i) \in Trees(leaves)[h]}
<1>1. Len(path) \in Nat /\ \A i \in 1 .. Len(path) : path[i] \in Keys
  BY LenProperties, ElementOfSeq
<1>2. ASSUME NEW i \in 0 .. Len(path), \A k \in 0 .. i - 1 : k \in S
      PROVE  At(root, path, i) \in Trees(leaves)[h]
  <2>1. CASE i = 0
    BY <2>1, AtByKeys
  <2>2. CASE i # 0
    <3>1. At(root, path, i - 1) \in Trees(leaves)[h] /\ path[i] \in Keys
      BY <1>1, <1>2, <2>2
    <3>2. At(root, path, i) = Kid(At(root, path, i - 1), path[i])
      BY <2>2, AtByKeys
    <3> QED BY <3>1, <3>2, KidReturns
  <2> QED BY <2>1, <2>2
<1>3. \A i \in 0 .. Len(path) : i \in S
  <2>1. \A i \in 0 .. Len(path) : (\A k \in 0 .. i - 1 : k \in S) => i \in S
    BY <1>2
  <2> HIDE DEF S
  <2> QED BY <1>1, <2>1, Induction
<1> QED BY <1>3

(* The outline of a node tells whether there is one and of what kind. *)
LEMMA Outlines ==
  ASSUME NEW n \in Node
  PROVE  /\ Outline(n) = Nil <=> n = Nil
         /\ Outline(n).kind = n.kind
         /\ HasKids(n) => Outline(n) = [kind |-> n.kind]
         /\ ~HasKids(n) => Outline(n) = n
BY DEF Outline, HasKids, Nil

(* A walk over a tree walks over what the tree has at each path. *)
LEMMA WalkAlongPaths ==
  ASSUME NEW leaves \in SUBSET (Unplaced \cup Placed), NEW leaf, \A l \in leaves : ~HasKids(leaf[l]),
         NEW h \in 0 .. Highest, NEW root \in Trees(leaves)[h], ~IsError(Walk(leaf, root)),
         NEW path \in Seq(Keys), NEW n \in 0 .. Len(path)
  PROVE  /\ At(Walk(leaf, root), path, n) = Walk(leaf, At(root, path, n))
         /\ ~IsError(Walk(leaf, At(root, path, n)))
<1> DEFINE Good(i) == /\ At(Walk(leaf, root), path, i) = Walk(leaf, At(root, path, i))
                      /\ ~IsError(Walk(leaf, At(root, path, i)))
           S == {i \in 0 .. Len(path) : Good(i)}
<1>1. Len(path) \in Nat /\ \A i \in 1 .. Len(path) : path[i] \in Keys
  BY LenProperties, ElementOfSeq
<1>2. ASSUME NEW i \in 0 .. Len(path), \A k \in 0 .. i - 1 : k \in S
      PROVE  Good(i)
  <2>1. CASE i = 0
    <3>1. At(root, path, 0) = root /\ At(Walk(leaf, root), path, 0) = Walk(leaf, root)
      BY <1>2, <2>1, AtByKeys
    <3> QED BY <2>1, <3>1
  <2>2. CASE i # 0
    <3> DEFINE x == At(root, path, i - 1)
               w == Walk(leaf, x)
               k == path[i]
    <3>1. i - 1 \in 0 .. i - 1 /\ i - 1 \in 0 .. Len(path) /\ k \in Keys
      BY <1>1, <2>2
    <3>2. Good(i - 1)
      <4> HIDE DEF Good
      <4> QED BY <1>2, <3>1
    <3>3. x \in Trees(leaves)[h] /\ At(Walk(leaf, root), path, i - 1) = w /\ ~IsError(w)
      BY <3>1, <3>2, AtReturns
    <3>4. At(root, path, i) = Kid(x, k) /\ At(Walk(leaf, root), path, i) = Kid(w, k)
      BY <2>2, <3>3, AtByKeys
    <3>5. x \in Node /\ x \in Nodes(h)
      <4>1. h \in h .. Highest
        BY HighestIsNat
      <4> QED BY <3>3, <4>1, TreesAreNodes, TreesGrow DEF Nodes
    <3> HIDE DEF x, k
    <3>6. Kid(w, k) = Walk(leaf, Kid(x, k)) /\ ~IsError(Walk(leaf, Kid(x, k)))
      <4>1. CASE HasKids(x)
        <5> DEFINE kids == [j \in Keys |-> Walk(leaf, x.kids[j])]
        <5>1. w = [kind |-> x.kind, kids |-> kids] /\ \A j \in Keys : ~IsError(kids[j])
          BY <3>3, <3>5, <4>1, WalkingKids
        <5>2. HasKids(w) /\ w.kids[k] = Walk(leaf, x.kids[k]) /\ ~IsError(Walk(leaf, x.kids[k]))
          BY <3>1, <4>1, <5>1 DEF HasKids
        <5> QED BY <4>1, <5>2 DEF Kid
      <4>2. CASE ~HasKids(x)
        <5>1. Kid(x, k) = Nil /\ Walk(leaf, Nil) = Nil /\ ~IsError(Nil)
          <6>1. Nil \in Node
            BY LeavesAreTrees, HighestIsNat DEF Node
          <6>2. ~IsError(Nil)
            BY DEF IsError, Nil
          <6> QED BY <4>2, <6>1, <6>2, Walking DEF Kid
        <5>2. ~HasKids(w)
          <6>1. x = Nil \/ (x # Nil /\ x \in leaves)
            BY <3>3, <4>2, Shapes
          <6>2. w = Nil \/ (x \in leaves /\ w = leaf[x])
            BY <3>5, <4>2, <6>1, Walking
          <6>3. ~HasKids(Nil)
            BY DEF HasKids, Nil
          <6> HIDE DEF w
          <6> QED BY <6>2, <6>3
        <5> QED BY <5>1, <5>2 DEF Kid
      <4> QED BY <4>1, <4>2
    <3> HIDE DEF w
    <3> QED BY <3>4, <3>6
  <2> QED BY <2>1, <2>2
<1>3. \A i \in 0 .. Len(path) : i \in S
  <2>1. \A i \in 0 .. Len(path) : (\A k \in 0 .. i - 1 : k \in S) => i \in S
    <3> HIDE DEF Good
    <3> QED BY <1>2
  <2> HIDE DEF S
  <2> QED BY <1>1, <2>1, Induction
<1>4. Good(n)
  <2> HIDE DEF Good
  <2> QED BY <1>3
<1> QED BY <1>4

-----------------------------------------------------------------------------
(* What a merged tree has at a path: what both have there, merged, unless  *)
(* the override replaces something above.                                  *)
Clash(x, y) == x # Nil /\ y # Nil /\ ~Both(x, y)

LEMMA KidOfNil == \A k : Kid(Nil, k) = Nil
BY DEF Kid, HasKids, Nil

LEMMA NilIsTree == Nil \in Tree /\ Tree = Trees(Placed)[Highest] /\ Highest \in 0 .. Highest
BY LeavesAreTrees, HighestIsNat DEF Tree

LEMMA MergedKids ==
  ASSUME NEW x \in Tree, NEW y \in Tree, NEW k \in Keys, ~Clash(x, y)
  PROVE  Kid(MergeNode(x, y), k) = MergeNode(Kid(x, k), Kid(y, k))
<1>1. Kid(x, k) \in Tree /\ Kid(y, k) \in Tree
  <2>1. Placed \in SUBSET (Unplaced \cup Placed)
    OBVIOUS
  <2> QED BY <2>1, NilIsTree, KidReturns
<1>2. CASE x = Nil
  <2>1. Kid(x, k) = Nil /\ MergeNode(x, y) = y
    BY <1>2, KidOfNil, Merging
  <2>2. MergeNode(Kid(x, k), Kid(y, k)) = Kid(y, k)
    BY <1>1, <2>1, Merging
  <2> QED BY <2>1, <2>2
<1>3. CASE y = Nil
  <2>1. Kid(y, k) = Nil /\ MergeNode(x, y) = x
    BY <1>3, KidOfNil, Merging
  <2>2. MergeNode(Kid(x, k), Kid(y, k)) = Kid(x, k)
    BY <1>1, <2>1, Merging
  <2> QED BY <2>1, <2>2
<1>4. CASE Both(x, y)
  <2> DEFINE m == MergeNode(x, y)
  <2>1. m = [kind |-> "map", kids |-> [j \in Keys |-> MergeNode(x.kids[j], y.kids[j])]]
    BY <1>4, Merging DEF MapNode
  <2> HIDE DEF m
  <2>2. HasKids(m) /\ m.kids[k] = MergeNode(x.kids[k], y.kids[k])
    BY <2>1 DEF HasKids
  <2>3. HasKids(x) /\ HasKids(y)
    BY <1>4 DEF Both, HasKids
  <2> QED BY <2>2, <2>3 DEF Kid, m
<1> QED BY <1>2, <1>3, <1>4 DEF Clash

LEMMA TreesAlongPaths ==
  ASSUME NEW t \in Tree, NEW path \in Seq(Keys), NEW n \in 0 .. Len(path)
  PROVE  At(t, path, n) \in Tree
<1>1. Placed \in SUBSET (Unplaced \cup Placed)
  OBVIOUS
<1> QED BY <1>1, NilIsTree, AtReturns

LEMMA MergeAlongPaths ==
  ASSUME NEW b \in Tree, NEW o \in Tree, NEW path \in Seq(Keys), NEW n \in 0 .. Len(path)
  PROVE  At(MergeNode(b, o), path, n) =
           IF \E q \in 0 .. n - 1 : Clash(At(b, path, q), At(o, path, q)) THEN At(o, path, n)
           ELSE MergeNode(At(b, path, n), At(o, path, n))
<1> DEFINE m == MergeNode(b, o)
           Above(i) == \E q \in 0 .. i - 1 : Clash(At(b, path, q), At(o, path, q))
           Good(i) == /\ Above(i) => At(m, path, i) = At(o, path, i)
                      /\ ~Above(i) => At(m, path, i) = MergeNode(At(b, path, i), At(o, path, i))
           S == {i \in 0 .. Len(path) : Good(i)}
<1>1. Len(path) \in Nat /\ \A i \in 1 .. Len(path) : path[i] \in Keys
  BY LenProperties, ElementOfSeq
<1>2. ASSUME NEW i \in 0 .. Len(path), \A k \in 0 .. i - 1 : k \in S
      PROVE  Good(i)
  <2>1. CASE i = 0
    <3>1. ~Above(i)
      BY <2>1
    <3>2. \A r : At(r, path, 0) = r
      BY <1>2, <2>1, AtByKeys
    <3> QED BY <2>1, <3>1, <3>2
  <2>2. CASE i # 0
    <3> DEFINE x == At(b, path, i - 1)
               y == At(o, path, i - 1)
               k == path[i]
    <3>1. i - 1 \in 0 .. i - 1 /\ i - 1 \in 0 .. Len(path) /\ k \in Keys
      BY <1>1, <2>2
    <3>2. Good(i - 1)
      <4> HIDE DEF Good
      <4> QED BY <1>2, <3>1
    <3>3. x \in Tree /\ y \in Tree
      BY <3>1, TreesAlongPaths
    <3>4. \A r : At(r, path, i) = Kid(At(r, path, i - 1), k)
      BY <2>2, AtByKeys
    <3>5. Above(i) <=> Above(i - 1) \/ Clash(x, y)
      <4>1. \A q : q \in 0 .. i - 1 <=> q \in 0 .. (i - 1) - 1 \/ q = i - 1
        BY <1>1, <2>2
      <4> QED BY <4>1
    <3>6. CASE Above(i - 1)
      BY <3>2, <3>4, <3>5, <3>6
    <3>7. CASE ~Above(i - 1) /\ Clash(x, y)
      <4>1. MergeNode(x, y) = y
        BY <3>3, <3>7, Merging DEF Clash
      <4> QED BY <3>2, <3>4, <3>5, <3>7, <4>1
    <3>8. CASE ~Above(i - 1) /\ ~Clash(x, y)
      <4>1. Kid(MergeNode(x, y), k) = MergeNode(Kid(x, k), Kid(y, k))
        BY <3>1, <3>3, <3>8, MergedKids
      <4> QED BY <3>2, <3>4, <3>5, <3>8, <4>1
    <3> QED BY <3>6, <3>7, <3>8
  <2> QED BY <2>1, <2>2
<1>3. \A i \in 0 .. Len(path) : i \in S
  <2>1. \A i \in 0 .. Len(path) : (\A k \in 0 .. i - 1 : k \in S) => i \in S
    <3> HIDE DEF Good
    <3> QED BY <1>2
  <2> HIDE DEF S
  <2> QED BY <1>1, <2>1, Induction
<1>4. Good(n)
  <2> HIDE DEF Good
  <2> QED BY <1>3
<1> QED BY <1>4

(* Nothing is below nothing. *)
LEMMA NothingBelowNothing ==
  ASSUME NEW t, NEW path \in Seq(Keys), NEW n \in 0 .. Len(path), At(t, path, n) # Nil, NEW q \in 0 .. n
  PROVE  At(t, path, q) # Nil
<1> DEFINE S == {i \in 0 .. n : At(t, path, n - i) # Nil}
<1>1. Len(path) \in Nat
  BY LenProperties
<1>2. ASSUME NEW i \in 0 .. n, \A k \in 0 .. i - 1 : k \in S
      PROVE  At(t, path, n - i) # Nil
  <2>1. CASE i = 0
    BY <2>1
  <2>2. CASE i # 0
    <3>1. i - 1 \in 0 .. i - 1 /\ n - (i - 1) \in 0 .. Len(path) /\ n - (i - 1) # 0
          /\ (n - (i - 1)) - 1 = n - i
      BY <1>1, <2>2
    <3>2. At(t, path, n - (i - 1)) # Nil
      BY <1>2, <3>1
    <3>3. At(t, path, n - (i - 1)) = Kid(At(t, path, n - i), path[n - (i - 1)])
      <4> DEFINE j == n - (i - 1)
      <4>1. j \in 0 .. Len(path) /\ j # 0 /\ j - 1 = n - i
        BY <3>1
      <4> HIDE DEF j
      <4>2. At(t, path, j) = Kid(At(t, path, j - 1), path[j])
        BY <4>1, AtByKeys
      <4> QED BY <4>1, <4>2 DEF j
    <3> QED BY <3>2, <3>3, KidOfNil
  <2> QED BY <2>1, <2>2
<1>3. \A i \in 0 .. n : i \in S
  <2>1. \A i \in 0 .. n : (\A k \in 0 .. i - 1 : k \in S) => i \in S
    BY <1>2
  <2>2. n \in Nat
    BY <1>1
  <2> HIDE DEF S
  <2> QED BY <2>1, <2>2, Induction
<1>4. n - q \in 0 .. n /\ n - (n - q) = q
  BY <1>1
<1> QED BY <1>3, <1>4

-----------------------------------------------------------------------------
(* The trees of layers merge one by one: the last one that has a path      *)
(* counts there.                                                           *)
Root == {t \in Tree : t = Nil \/ t.kind = "map"}

LEMMA MergeOfNothing == MergeTrees(<<>>) = Nil
<1> DEFINE z == CHOOSE x : x = [i \in 0 .. 0 |-> MergedUpTo(x, <<>>, i)]
<1>1. z = [i \in 0 .. 0 |-> MergedUpTo(z, <<>>, i)]
  BY MergeTreesExists
<1>2. MergeTrees(<<>>) = z[0]
  <2>1. Len(<<>>) = 0
    BY EmptySeq
  <2> QED BY <2>1 DEF MergeTrees, MergedUpTo
<1> HIDE DEF z
<1>3. z[0] = MergedUpTo(z, <<>>, 0)
  BY <1>1
<1> QED BY <1>2, <1>3 DEF MergedUpTo

LEMMA MergeBySteps ==
  ASSUME NEW s \in Seq(Tree), NEW t \in Tree
  PROVE  MergeTrees(Append(s, t)) = MergeNode(MergeTrees(s), t)
<1> DEFINE a == Append(s, t)
           n == Len(s)
           u == CHOOSE x : x = [i \in 0 .. n |-> MergedUpTo(x, s, i)]
           v == CHOOSE x : x = [i \in 0 .. n + 1 |-> MergedUpTo(x, a, i)]
           S == {i \in 0 .. n : v[i] = u[i]}
<1>1. n \in Nat /\ Len(a) = n + 1 /\ a[n + 1] = t /\ \A i \in 1 .. n : a[i] = s[i]
  BY LenProperties, AppendProperties
<1>2. u = [i \in 0 .. n |-> MergedUpTo(u, s, i)]
  BY <1>1, MergeTreesExists
<1>3. v = [i \in 0 .. n + 1 |-> MergedUpTo(v, a, i)]
  <2>1. n + 1 \in Nat
    BY <1>1
  <2> QED BY <2>1, MergeTreesExists
<1>4. MergeTrees(s) = u[n]
  BY DEF MergeTrees, MergedUpTo
<1>5. MergeTrees(a) = v[n + 1]
  <2>1. MergeTrees(a) = (CHOOSE x : x = [i \in 0 .. Len(a) |-> MergedUpTo(x, a, i)])[Len(a)]
    BY DEF MergeTrees, MergedUpTo
  <2> HIDE DEF a
  <2> QED BY <1>1, <2>1
<1> HIDE DEF u, v, n, a
<1>7. ASSUME NEW i \in 0 .. n, \A k \in 0 .. i - 1 : k \in S
      PROVE  v[i] = u[i]
  <2>1. u[i] = MergedUpTo(u, s, i) /\ v[i] = MergedUpTo(v, a, i)
    <3>1. i \in 0 .. n + 1
      BY <1>1
    <3> QED BY <1>2, <1>3, <3>1
  <2>2. CASE i = 0
    BY <2>1, <2>2 DEF MergedUpTo
  <2>3. CASE i # 0
    <3>1. i - 1 \in 0 .. i - 1 /\ a[i] = s[i]
      BY <1>1, <2>3
    <3>2. v[i - 1] = u[i - 1]
      BY <1>7, <3>1
    <3> QED BY <2>1, <2>3, <3>1, <3>2 DEF MergedUpTo
  <2> QED BY <2>2, <2>3
<1>8. n \in S
  <2>1. \A i \in 0 .. n : (\A k \in 0 .. i - 1 : k \in S) => i \in S
    BY <1>7 DEF S
  <2>2. n \in 0 .. n
    BY <1>1
  <2> HIDE DEF S
  <2> QED BY <1>1, <2>1, <2>2, Induction
<1>9. v[n + 1] = MergeNode(u[n], t)
  <2>1. v[n + 1] = MergedUpTo(v, a, n + 1) /\ n + 1 # 0 /\ (n + 1) - 1 = n
    <3>1. n + 1 \in 0 .. n + 1 /\ n + 1 # 0 /\ (n + 1) - 1 = n
      BY <1>1
    <3> QED BY <1>3, <3>1
  <2>2. v[n] = u[n]
    BY <1>8
  <2> QED BY <1>1, <2>1, <2>2 DEF MergedUpTo
<1> QED BY <1>4, <1>5, <1>9 DEF a

LEMMA OutlineOfMerged ==
  ASSUME NEW b \in Tree, NEW o \in Tree, o # Nil
  PROVE  /\ Outline(MergeNode(b, o)) = Outline(o)
         /\ b # Nil /\ ~Clash(b, o) => Outline(MergeNode(b, o)) = Outline(b)
<1>1. CASE Both(b, o)
  <2> DEFINE m == MergeNode(b, o)
  <2>1. m = [kind |-> "map", kids |-> [j \in Keys |-> MergeNode(b.kids[j], o.kids[j])]]
    BY <1>1, Merging DEF MapNode
  <2> HIDE DEF m
  <2>2. HasKids(m) /\ m.kind = "map" /\ HasKids(o) /\ HasKids(b)
    BY <1>1, <2>1 DEF HasKids, Both
  <2>3. Outline(m) = Outline(o) /\ Outline(m) = Outline(b)
    BY <1>1, <2>2 DEF Outline, Both
  <2> QED BY <2>3 DEF m
<1>2. CASE ~Both(b, o)
  <2>1. MergeNode(b, o) = o
    BY <1>2, Merging
  <2> QED BY <1>2, <2>1 DEF Clash
<1> QED BY <1>1, <1>2

(* One more layer: it counts where it has something; where it has nothing, *)
(* what was there stays unless what is above it was replaced.              *)
LEMMA OneMoreLayer ==
  ASSUME NEW m \in Tree, NEW o \in Tree, NEW path \in Seq(Keys), NEW n \in 0 .. Len(path)
  PROVE  LET with == MergeNode(m, o)
             clash == \E q \in 0 .. n - 1 : Clash(At(m, path, q), At(o, path, q))
         IN  /\ At(o, path, n) # Nil =>
                  \A q \in 0 .. n : Outline(At(with, path, q)) = Outline(At(o, path, q))
             /\ At(o, path, n) = Nil /\ At(m, path, n) # Nil /\ ~clash =>
                  \A q \in 0 .. n : Outline(At(with, path, q)) = Outline(At(m, path, q))
             /\ At(o, path, n) = Nil /\ (At(m, path, n) = Nil \/ clash) => At(with, path, n) = Nil
<1> DEFINE with == MergeNode(m, o)
           Above(i) == \E q \in 0 .. i - 1 : Clash(At(m, path, q), At(o, path, q))
<1>1. Len(path) \in Nat
  BY LenProperties
<1>2. ASSUME NEW q \in 0 .. n
      PROVE  /\ q \in 0 .. Len(path)
             /\ At(m, path, q) \in Tree /\ At(o, path, q) \in Tree
             /\ At(with, path, q) = IF Above(q) THEN At(o, path, q)
                                    ELSE MergeNode(At(m, path, q), At(o, path, q))
  <2>1. q \in 0 .. Len(path)
    BY <1>1
  <2> QED BY <2>1, TreesAlongPaths, MergeAlongPaths
<1>3. n \in 0 .. n
  BY <1>1
<1> HIDE DEF with
<1>4. ASSUME At(o, path, n) # Nil, NEW q \in 0 .. n
      PROVE  Outline(At(with, path, q)) = Outline(At(o, path, q))
  <2>1. At(o, path, q) # Nil
    BY <1>4, NothingBelowNothing
  <2>2. CASE Above(q)
    BY <1>2, <2>2
  <2>3. CASE ~Above(q)
    <3> HIDE DEF Above
    <3>1. At(with, path, q) = MergeNode(At(m, path, q), At(o, path, q))
      BY <1>2, <2>3
    <3> QED BY <1>2, <2>1, <3>1, OutlineOfMerged
  <2> QED BY <2>2, <2>3
<1>5. ASSUME At(o, path, n) = Nil, At(m, path, n) # Nil, ~Above(n), NEW q \in 0 .. n
      PROVE  Outline(At(with, path, q)) = Outline(At(m, path, q))
  <2>1. At(m, path, q) # Nil
    BY <1>5, NothingBelowNothing
  <2>2. ~Above(q) /\ (q # n => ~Clash(At(m, path, q), At(o, path, q)))
    <3>1. \A r \in 0 .. q - 1 : r \in 0 .. n - 1
      BY <1>1
    <3>2. q # n => q \in 0 .. n - 1
      BY <1>1
    <3> QED BY <1>5, <3>1, <3>2
  <2> HIDE DEF Above
  <2>3. At(with, path, q) = MergeNode(At(m, path, q), At(o, path, q))
    BY <1>2, <2>2
  <2>4. CASE At(o, path, q) = Nil
    <3>1. At(with, path, q) = At(m, path, q)
      BY <1>2, <2>3, <2>4, Merging
    <3> QED BY <3>1
  <2>5. CASE At(o, path, q) # Nil
    <3>1. ~Clash(At(m, path, q), At(o, path, q))
      BY <1>5, <2>2, <2>5
    <3> QED BY <1>2, <2>1, <2>3, <2>5, <3>1, OutlineOfMerged
  <2> QED BY <2>4, <2>5
<1>6. ASSUME At(o, path, n) = Nil, At(m, path, n) = Nil \/ Above(n) PROVE At(with, path, n) = Nil
  <2> HIDE DEF Above
  <2>1. CASE Above(n)
    BY <1>2, <1>3, <1>6, <2>1
  <2>2. CASE ~Above(n)
    <3>1. At(with, path, n) = MergeNode(At(m, path, n), At(o, path, n))
      BY <1>2, <1>3, <2>2
    <3>2. At(m, path, n) = Nil /\ Nil \in Tree
      BY <1>6, <2>2, NilIsTree
    <3>3. MergeNode(Nil, Nil) = Nil
      BY <3>2, Merging
    <3> QED BY <1>6, <3>1, <3>2, <3>3
  <2> QED BY <2>1, <2>2
<1>7. /\ At(o, path, n) # Nil =>
           \A q \in 0 .. n : Outline(At(with, path, q)) = Outline(At(o, path, q))
      /\ At(o, path, n) = Nil /\ At(m, path, n) # Nil /\ ~Above(n) =>
           \A q \in 0 .. n : Outline(At(with, path, q)) = Outline(At(m, path, q))
      /\ At(o, path, n) = Nil /\ (At(m, path, n) = Nil \/ Above(n)) => At(with, path, n) = Nil
  <2> HIDE DEF Above
  <2> QED BY <1>4, <1>5, <1>6
<1> QED BY <1>7 DEF with

-----------------------------------------------------------------------------
Over(o, t, path, n) == \E q \in 1 .. n - 1 : Clash(At(t, path, q), At(o, path, q))

Wins(trees, path, n) ==
  {i \in 1 .. Len(trees) :
     /\ At(trees[i], path, n) # Nil
     /\ \A j \in i + 1 .. Len(trees) : At(trees[j], path, n) = Nil /\ ~Over(trees[j], trees[i], path, n)}

LEMMA ClashesByOutline ==
  ASSUME NEW x \in Tree, NEW y \in Tree, NEW z \in Tree, Outline(x) = Outline(y)
  PROVE  Clash(x, z) <=> Clash(y, z)
<1>1. x \in Node /\ y \in Node
  BY TreesAreNodes, NilIsTree
<1>2. (x = Nil <=> y = Nil) /\ x.kind = y.kind
  BY <1>1, Outlines
<1> QED BY <1>2 DEF Clash, Both

(* Merging one more layer over what is already merged, to where layer i    *)
(* counted.                                                                *)
LEMMA OneMoreOverAWinner ==
  ASSUME NEW m \in Root, NEW o \in Root, NEW t \in Root, NEW path \in Seq(Keys), NEW n \in 0 .. Len(path),
         \A q \in 0 .. n : Outline(At(m, path, q)) = Outline(At(t, path, q)),
         At(t, path, n) # Nil, At(o, path, n) = Nil
  PROVE  IF Over(o, t, path, n) THEN At(MergeNode(m, o), path, n) = Nil
         ELSE \A q \in 0 .. n : Outline(At(MergeNode(m, o), path, q)) = Outline(At(t, path, q))
<1> DEFINE clash == \E q \in 0 .. n - 1 : Clash(At(m, path, q), At(o, path, q))
<1>1. m \in Tree /\ o \in Tree /\ t \in Tree /\ Len(path) \in Nat
  BY LenProperties DEF Root
<1>2. ASSUME NEW q \in 0 .. n - 1
      PROVE  Clash(At(m, path, q), At(o, path, q)) <=> q # 0 /\ Clash(At(t, path, q), At(o, path, q))
  <2>1. q \in 0 .. n /\ q \in 0 .. Len(path)
    BY <1>1
  <2>2. Clash(At(m, path, q), At(o, path, q)) <=> Clash(At(t, path, q), At(o, path, q))
    BY <1>1, <2>1, TreesAlongPaths, ClashesByOutline
  <2>3. q = 0 => ~Clash(At(m, path, q), At(o, path, q))
    <3> SUFFICES ASSUME q = 0 PROVE ~Clash(At(m, path, 0), At(o, path, 0))
      OBVIOUS
    <3>1. At(m, path, 0) = m /\ At(o, path, 0) = o
      BY <2>1, AtByKeys
    <3> QED BY <3>1 DEF Clash, Root, Both
  <2> QED BY <2>2, <2>3
<1>3. clash <=> Over(o, t, path, n)
  <2>1. \A q : q \in 1 .. n - 1 <=> q \in 0 .. n - 1 /\ q # 0
    BY <1>1
  <2> QED BY <1>2, <2>1 DEF Over
<1>4. At(m, path, n) # Nil
  <2>1. n \in 0 .. n
    BY <1>1
  <2>2. At(m, path, n) \in Node /\ At(t, path, n) \in Node
    BY <1>1, TreesAlongPaths, TreesAreNodes, NilIsTree
  <2>3. Outline(At(m, path, n)) = Outline(At(t, path, n))
    BY <2>1
  <2> QED BY <2>2, <2>3, Outlines
<1>5. /\ At(o, path, n) = Nil /\ At(m, path, n) # Nil /\ ~clash =>
           \A q \in 0 .. n : Outline(At(MergeNode(m, o), path, q)) = Outline(At(m, path, q))
      /\ At(o, path, n) = Nil /\ (At(m, path, n) = Nil \/ clash) => At(MergeNode(m, o), path, n) = Nil
  BY <1>1, OneMoreLayer
<1> HIDE DEF clash
<1> QED BY <1>3, <1>4, <1>5

LEMMA MergedRoots ==
  ASSUME NEW b \in Root, NEW o \in Root
  PROVE  MergeNode(b, o) \in Root
<1>1. b \in Tree /\ o \in Tree
  BY DEF Root
<1>2. b = Nil \/ o = Nil \/ Both(b, o)
  BY DEF Root, Both
<1> QED BY <1>1, <1>2, Merging, MergeReturns DEF Root

LEMMA LastWins ==
  ASSUME NEW trees \in Seq(Root), NEW path \in Seq(Keys), NEW n \in 0 .. Len(path)
  PROVE  /\ MergeTrees(trees) \in Root
         /\ \A i \in Wins(trees, path, n) : \A q \in 0 .. n :
              Outline(At(MergeTrees(trees), path, q)) = Outline(At(trees[i], path, q))
         /\ Wins(trees, path, n) = {} => At(MergeTrees(trees), path, n) = Nil
<1> DEFINE Kept(s) == \A i \in Wins(s, path, n) : \A q \in 0 .. n :
                        Outline(At(MergeTrees(s), path, q)) = Outline(At(s[i], path, q))
           Gone(s) == Wins(s, path, n) = {} => At(MergeTrees(s), path, n) = Nil
           G == {s \in Seq(Root) : MergeTrees(s) \in Root /\ Kept(s) /\ Gone(s)}
<1>1. Len(path) \in Nat /\ \A i \in 1 .. Len(path) : path[i] \in Keys
  BY LenProperties, ElementOfSeq
<1>2. <<>> \in G
  <2> DEFINE e == <<>>
  <2>1. e \in Seq(Root) /\ Len(e) = 0 /\ MergeTrees(e) = Nil
    BY EmptySeq, MergeOfNothing
  <2> HIDE DEF e
  <2>2. Nil \in Root
    BY NilIsTree DEF Root
  <2>3. Wins(e, path, n) = {}
    BY <2>1 DEF Wins
  <2>4. At(Nil, path, n) = Nil
    <3>1. 0 \in 0 .. n /\ 0 \in 0 .. Len(path)
      BY <1>1
    <3>2. At(Nil, path, 0) = Nil
      BY <3>1, AtByKeys
    <3> QED BY <3>1, <3>2, NothingBelowNothing
  <2>5. e \in G
    BY <2>1, <2>2, <2>3, <2>4
  <2> QED BY <2>5 DEF e
<1>3. ASSUME NEW s \in Seq(Root), NEW o \in Root, s \in G PROVE Append(s, o) \in G
  <2> DEFINE a == Append(s, o)
             m == MergeTrees(s)
             with == MergeTrees(a)
             l == Len(s)
  <2>1. /\ a \in Seq(Root) /\ l \in Nat /\ Len(a) = l + 1 /\ a[l + 1] = o
        /\ \A i \in 1 .. l : a[i] = s[i] /\ s[i] \in Root
    BY AppendProperties, LenProperties, ElementOfSeq
  <2>2. m \in Root /\ Kept(s) /\ Gone(s)
    BY <1>3
  <2>3. with = MergeNode(m, o)
    <3>1. s \in Seq(Tree) /\ o \in Tree
      <4>1. Root \subseteq Tree
        BY DEF Root
      <4> QED BY <4>1, SeqMonotonic
    <3> QED BY <3>1, MergeBySteps
  <2>4. with \in Root /\ m \in Tree /\ o \in Tree
    BY <2>2, <2>3, MergedRoots DEF Root
  <2> HIDE DEF a, m, with, l
  <2>5. CASE At(o, path, n) # Nil
    <3>1. \A i \in Wins(a, path, n) : i = l + 1
      <4>1. \A i \in 1 .. l + 1 : i # l + 1 => l + 1 \in i + 1 .. l + 1
        BY <2>1
      <4> QED BY <2>1, <2>5, <4>1 DEF Wins
    <3>2. l + 1 \in Wins(a, path, n)
      <4>1. l + 1 \in 1 .. l + 1 /\ (l + 1) + 1 .. l + 1 = {}
        BY <2>1
      <4> QED BY <2>1, <2>5, <4>1 DEF Wins
    <3>3. \A q \in 0 .. n : Outline(At(with, path, q)) = Outline(At(o, path, q))
      BY <2>3, <2>4, <2>5, OneMoreLayer
    <3>4. Kept(a) /\ Gone(a)
      BY <2>1, <3>1, <3>2, <3>3 DEF with
    <3> QED BY <2>1, <2>4, <3>4 DEF with, a
  <2>6. CASE At(o, path, n) = Nil
    <3>1. ASSUME NEW i \in 1 .. l
          PROVE  i \in Wins(a, path, n) <=> i \in Wins(s, path, n) /\ ~Over(o, s[i], path, n)
      <4>1. a[i] = s[i] /\ i \in 1 .. l + 1 /\ l + 1 \in i + 1 .. l + 1
        BY <2>1
      <4>2. /\ \A j \in i + 1 .. l + 1 : j \in i + 1 .. l \/ j = l + 1
            /\ \A j \in i + 1 .. l : j \in i + 1 .. l + 1
        BY <2>1
      <4>3. \A j \in i + 1 .. l : a[j] = s[j]
        BY <2>1
      <4>4. (\A j \in i + 1 .. l + 1 : At(a[j], path, n) = Nil /\ ~Over(a[j], s[i], path, n))
            <=> /\ \A j \in i + 1 .. l : At(s[j], path, n) = Nil /\ ~Over(s[j], s[i], path, n)
                /\ ~Over(o, s[i], path, n)
        BY <2>1, <2>6, <4>1, <4>2, <4>3
      <4> QED BY <2>1, <4>1, <4>4 DEF Wins, l
    <3>2. \A i \in Wins(a, path, n) : i \in 1 .. l
      <4>1. \A i \in 1 .. l + 1 : i = l + 1 \/ i \in 1 .. l
        BY <2>1
      <4> QED BY <2>1, <2>6, <4>1 DEF Wins
    <3>3. \A i \in Wins(s, path, n) : i \in 1 .. l /\ At(s[i], path, n) # Nil
      BY DEF Wins, l
    <3>4. ASSUME NEW i \in Wins(s, path, n)
          PROVE  IF Over(o, s[i], path, n) THEN At(with, path, n) = Nil
                 ELSE \A q \in 0 .. n : Outline(At(with, path, q)) = Outline(At(s[i], path, q))
      <4>1. s[i] \in Root /\ At(s[i], path, n) # Nil
        BY <2>1, <3>3
      <4>2. \A q \in 0 .. n : Outline(At(m, path, q)) = Outline(At(s[i], path, q))
        BY <2>2 DEF m
      <4> QED BY <2>2, <2>3, <2>6, <4>1, <4>2, OneMoreOverAWinner
    <3>5. ASSUME NEW i \in Wins(a, path, n), NEW q \in 0 .. n
          PROVE  Outline(At(with, path, q)) = Outline(At(a[i], path, q))
      <4>1. i \in 1 .. l /\ i \in Wins(s, path, n) /\ ~Over(o, s[i], path, n) /\ a[i] = s[i]
        BY <2>1, <3>1, <3>2
      <4> QED BY <3>4, <4>1
    <3>6. ASSUME Wins(a, path, n) = {} PROVE At(with, path, n) = Nil
      <4>1. CASE Wins(s, path, n) = {}
        <5>1. At(m, path, n) = Nil
          BY <2>2, <4>1 DEF m
        <5> QED BY <2>3, <2>4, <2>6, <5>1, OneMoreLayer
      <4>2. CASE Wins(s, path, n) # {}
        <5>1. PICK i \in Wins(s, path, n) : TRUE
          BY <4>2
        <5>2. Over(o, s[i], path, n)
          BY <3>1, <3>3, <3>6, <5>1
        <5> QED BY <3>4, <5>2
      <4> QED BY <4>1, <4>2
    <3>7. Kept(a) /\ Gone(a)
      BY <3>5, <3>6 DEF with
    <3> QED BY <2>1, <2>4, <3>7 DEF with, a
  <2> QED BY <2>5, <2>6
<1>4. trees \in G
  <2>1. \A s \in Seq(Root), o \in Root : s \in G => Append(s, o) \in G
    BY <1>3
  <2> HIDE DEF G
  <2> QED BY <1>2, <2>1, SeqInduction
<1> QED BY <1>4

-----------------------------------------------------------------------------
(* What a layer's files say at a path.  A reader is at a node of a file,   *)
(* reached by a chain of includes, and reads what that expands to.         *)
LEMMA Placing ==
  ASSUME NEW raw \in Trees(Unplaced)[Height], NEW file \in Path
  PROVE  /\ FromYAML(raw, file) \in Trees(Placed)[Height] /\ FromYAML(raw, file) \in Nodes(Height)
         /\ FromYAML(raw, file) \in Node
         /\ \A k \in Keys : Kid(raw, k) \in Trees(Unplaced)[Height]
         /\ raw = Nil => FromYAML(raw, file) = Nil
         /\ HasKids(raw) =>
              FromYAML(raw, file) = [kind |-> raw.kind, kids |-> [k \in Keys |-> FromYAML(raw.kids[k], file)]]
         /\ ~HasKids(raw) /\ raw # Nil =>
              raw.kind = "scalar" /\ FromYAML(raw, file) = InFile(raw, file) /\ InFile(raw, file) \in Placed
<1> DEFINE leaf == [n \in Unplaced |-> [kind |-> "scalar", segs |-> n.segs, file |-> file]]
           placed == FromYAML(raw, file)
<1>1. \A n \in Unplaced : leaf[n] = InFile(n, file) /\ leaf[n] \in Placed /\ ~IsError(leaf[n])
  BY DEF Unplaced, Placed, InFile, IsError
<1>2. \A r : FromYAML(r, file) = Walk(leaf, r)
  BY DEF FromYAML
<1> HIDE DEF leaf
<1>3. Height \in 0 .. Highest /\ Highest \in Height .. Highest
  BY HighestIsNat
<1>4. placed \in Trees(Placed)[Height] /\ ~IsError(placed)
  BY FromYAMLReturns
<1>5. raw \in Nodes(Height) /\ raw \in Node
  BY <1>3, TreesGrow, TreesAreNodes DEF Nodes
<1>6. placed \in Nodes(Height) /\ placed \in Node
  BY <1>3, <1>4, TreesGrow, TreesAreNodes DEF Nodes
<1>7. ASSUME NEW k \in Keys PROVE Kid(raw, k) \in Trees(Unplaced)[Height]
  <2>1. Unplaced \in SUBSET (Unplaced \cup Placed)
    OBVIOUS
  <2> QED BY <1>3, <2>1, KidReturns
<1>8. raw = Nil => placed = Nil
  BY <1>2, <1>5, Walking
<1>9. HasKids(raw) => placed = [kind |-> raw.kind, kids |-> [k \in Keys |-> FromYAML(raw.kids[k], file)]]
  <2> SUFFICES ASSUME HasKids(raw)
               PROVE  placed = [kind |-> raw.kind, kids |-> [k \in Keys |-> FromYAML(raw.kids[k], file)]]
    OBVIOUS
  <2> DEFINE kids == [k \in Keys |-> Walk(leaf, raw.kids[k])]
  <2>1. ~IsError(Walk(leaf, raw)) /\ placed = Walk(leaf, raw)
    BY <1>2, <1>4
  <2>2. Walk(leaf, raw) = [kind |-> raw.kind, kids |-> kids]
    BY <1>3, <1>5, <2>1, WalkingKids
  <2>3. kids = [k \in Keys |-> FromYAML(raw.kids[k], file)]
    BY <1>2
  <2> HIDE DEF kids, placed
  <2> QED BY <2>1, <2>2, <2>3
<1>10. ~HasKids(raw) /\ raw # Nil =>
         raw.kind = "scalar" /\ placed = InFile(raw, file) /\ InFile(raw, file) \in Placed
  <2> SUFFICES ASSUME ~HasKids(raw), raw # Nil
               PROVE  raw.kind = "scalar" /\ placed = InFile(raw, file) /\ InFile(raw, file) \in Placed
    OBVIOUS
  <2>1. raw \in Unplaced /\ raw.kind = "scalar"
    BY <1>3, Shapes
  <2>2. placed = leaf[raw]
    BY <1>2, <1>5, Walking
  <2> QED BY <1>1, <2>1, <2>2
<1> HIDE DEF placed
<1> QED BY <1>4, <1>6, <1>7, <1>8, <1>9, <1>10 DEF placed

Leaves(f, d, c) == [n \in Placed |-> ExpandScalar(f, n, d, c, Expansion(f, d))]

Reads(f, d, x, c, t) ==
  /\ c \in Seq(Path) /\ c # <<>> /\ Len(c) <= MaxIncludeDepth /\ Last(c) = x.file
  /\ x.node \in Trees(Unplaced)[Height]
  /\ t = Walk(Leaves(f, d, c), FromYAML(x.node, x.file)) /\ ~IsError(t)

IsInclude(n) == n.kind = "scalar" /\ Includes(n.segs) # {}

LEMMA FoundParts == \A n, f : Found(n, f).node = n /\ Found(n, f).file = f
BY DEF Found

LEMMA ReadingAScalar ==
  ASSUME NEW f, NEW d, NEW x, NEW c, NEW t, Reads(f, d, x, c, t), ~HasKids(x.node), x.node # Nil
  PROVE  /\ x.node.kind = "scalar" /\ InFile(x.node, x.file) \in Placed
         /\ FromYAML(x.node, x.file) = InFile(x.node, x.file)
         /\ t = ExpandScalar(f, InFile(x.node, x.file), d, c, Expansion(f, d))
<1> DEFINE s == InFile(x.node, x.file)
<1>1. x.node \in Trees(Unplaced)[Height] /\ x.file \in Path
  BY DroppingTheLast DEF Reads
<1>2. x.node.kind = "scalar" /\ FromYAML(x.node, x.file) = s /\ s \in Placed /\ s \in Node
  BY <1>1, Placing
<1>3. ~HasKids(s) /\ s # Nil
  BY DEF InFile, HasKids, Nil
<1> HIDE DEF s
<1>4. t = Leaves(f, d, c)[s]
  BY <1>2, <1>3, Walking DEF Reads
<1> QED BY <1>2, <1>4 DEF Leaves, s

(* Following an include makes the chain longer, to the same.               *)
LEMMA FollowReads ==
  ASSUME NEW f \in FileSystems, NEW st, ~Static(st), NEW d, NEW x, NEW c, NEW t, Reads(f, d, x, c, t),
         IsInclude(x.node), NEW y, y = Follow(f, st, x)
  PROVE  \E b : Reads(f, d, y, b, t) /\ Len(b) = Len(c) + 1
<1> DEFINE s == InFile(x.node, x.file)
           g == Target(x.node.segs[1].path, x.file)
           e == Expansion(f, d)
           b == Append(c, g)
<1>1. ~HasKids(x.node) /\ x.node # Nil
  BY DEF IsInclude, HasKids, Nil
<1>2. s \in Placed /\ t = ExpandScalar(f, s, d, c, e) /\ ~IsError(t)
  BY <1>1, ReadingAScalar DEF Reads
<1>3. s.segs = x.node.segs /\ s.file = x.file /\ Includes(x.node.segs) # {}
  BY DEF InFile, IsInclude
<1>4. y = Found(Read(f, g), g)
  BY DEF Follow, IsInclude
<1>5. \A why : IsError(Error(why))
  BY DEF IsError, Error
<1> HIDE DEF s, e
<1>6. Len(x.node.segs) = 1 /\ t = IncludeFile(f, g, d, c, e)
  <2>1. t = IF Unscannable(x.node.segs) THEN Error("malformed")
            ELSE IF Len(x.node.segs) # 1 THEN Error("embedded")
            ELSE IF ~x.node.segs[1].path.yaml THEN Error("extension")
            ELSE IncludeFile(f, g, d, c, e)
    BY <1>2, <1>3 DEF ExpandScalar
  <2> HIDE DEF g
  <2> QED BY <1>2, <1>5, <2>1
<1>7. g \in Path
  BY <1>2, <1>3, <1>6, IncludesNamePaths
<1> HIDE DEF g
<1>8. /\ Read(f, g) \notin {NoFile, Broken} /\ ~(Len(c) >= MaxIncludeDepth)
      /\ t = e[b]
  BY <1>2, <1>5, <1>6 DEF IncludeFile
<1>9. /\ b \in Seq(Path) /\ b # <<>> /\ Len(b) = Len(c) + 1 /\ Last(b) = g /\ Len(c) \in Nat
      /\ MaxIncludeDepth \in Nat
  BY <1>7, AppendAndBack, AppendProperties, LenProperties, TreeAssumption DEF Reads
<1> HIDE DEF b
<1>10. t = Walk(Leaves(f, d, b), FromYAML(Read(f, g), g))
  <2>1. e[b] = Expanded(f, d, e, b)
    BY <1>9, Expanding DEF e
  <2> QED BY <1>8, <1>9, <2>1 DEF Expanded, Leaves, e
<1>11. Read(f, g) \in Trees(Unplaced)[Height]
  BY <1>7, <1>8, ReadReturns
<1>12. Reads(f, d, y, b, t)
  <2>1. Len(b) <= MaxIncludeDepth
    BY <1>8, <1>9
  <2>2. y.node = Read(f, g) /\ y.file = g
    BY <1>4, FoundParts
  <2> QED BY <1>2, <1>9, <1>10, <1>11, <2>1, <2>2 DEF Reads
<1> QED BY <1>9, <1>12

-----------------------------------------------------------------------------
Hop(hop, f, st, x, i) == IF i = 0 THEN x ELSE Follow(f, st, hop[i - 1])

LEMMA HopsExist ==
  ASSUME NEW f, NEW st, NEW x, NEW n \in Nat
  PROVE  \E hop : hop = [i \in 0 .. n |-> Hop(hop, f, st, x, i)]
<1> DEFINE Of(hop, m) == hop = [i \in 0 .. m |-> Hop(hop, f, st, x, i)]
           S == {m \in 0 .. n : \E hop : Of(hop, m)}
<1>1. ASSUME NEW m \in 0 .. n, \A k \in 0 .. m - 1 : k \in S
      PROVE  \E hop : Of(hop, m)
  <2>1. PICK u : \A i \in 0 .. m - 1 : u[i] = Hop(u, f, st, x, i)
    <3>1. CASE m = 0
      BY <3>1
    <3>2. CASE m # 0
      <4>1. PICK u : Of(u, m - 1)
        BY <1>1, <3>2
      <4> QED BY <4>1
    <3> QED BY <3>1, <3>2
  <2> DEFINE w == [i \in 0 .. m |-> IF i < m THEN u[i] ELSE Hop(u, f, st, x, i)]
  <2>2. /\ w = [i \in 0 .. m |-> w[i]]
        /\ \A i \in 0 .. m : i < m => w[i] = u[i]
        /\ w[m] = Hop(u, f, st, x, m)
    OBVIOUS
  <2> HIDE DEF w
  <2>3. ASSUME NEW i \in 0 .. m PROVE w[i] = Hop(u, f, st, x, i)
    <3>1. CASE i < m
      <4>1. i \in 0 .. m - 1
        BY <3>1
      <4> QED BY <2>1, <2>2, <3>1, <4>1
    <3>2. CASE i = m
      BY <2>2, <3>2
    <3> QED BY <3>1, <3>2
  <2>4. \A i \in 0 .. m : Hop(w, f, st, x, i) = Hop(u, f, st, x, i)
    BY <2>2 DEF Hop
  <2> QED BY <2>2, <2>3, <2>4
<1>2. n \in S
  <2> HIDE DEF S
  <2>1. \A m \in 0 .. n : (\A k \in 0 .. m - 1 : k \in S) => m \in S
    BY <1>1 DEF S
  <2> QED BY <2>1, Induction
<1> QED BY <1>2

(* Chains are not longer than MaxIncludeDepth, so after as many includes   *)
(* there is no further one.                                                *)
LEMMA FollowedReads ==
  ASSUME NEW f \in FileSystems, NEW st, ~Static(st), NEW d, NEW x, NEW c, NEW t, Reads(f, d, x, c, t),
         NEW y, y = Followed(f, st, x)
  PROVE  (\E b : Reads(f, d, y, b, t)) /\ ~IsInclude(y.node)
<1> DEFINE M == MaxIncludeDepth
           hop == CHOOSE h : h = [i \in 0 .. M |-> Hop(h, f, st, x, i)]
           Good(i) == \E b : Reads(f, d, hop[i], b, t) /\ (IsInclude(hop[i].node) => Len(b) > i)
           S == {i \in 0 .. M : Good(i)}
<1>1. M \in Nat
  BY TreeAssumption
<1>2. hop = [i \in 0 .. M |-> Hop(hop, f, st, x, i)]
  BY <1>1, HopsExist
<1>3. y = hop[M]
  BY DEF Followed, Hop
<1> HIDE DEF hop
<1>4. ASSUME NEW i \in 0 .. M, \A k \in 0 .. i - 1 : k \in S
      PROVE  Good(i)
  <2>1. hop[i] = Hop(hop, f, st, x, i)
    BY <1>2
  <2>2. CASE i = 0
    <3>1. Len(c) > 0
      BY LenProperties, EmptySeq DEF Reads
    <3>2. hop[i] = x
      BY <2>1, <2>2 DEF Hop
    <3> QED BY <2>2, <3>1, <3>2
  <2>3. CASE i # 0
    <3> DEFINE v == hop[i - 1]
               z == hop[i]
    <3>1. i - 1 \in S
      <4>1. i - 1 \in 0 .. i - 1
        BY <2>3
      <4> HIDE DEF S
      <4> QED BY <1>4, <4>1
    <3>2. PICK b : Reads(f, d, v, b, t) /\ (IsInclude(v.node) => Len(b) > i - 1)
      BY <3>1
    <3>3. z = Follow(f, st, v)
      BY <2>1, <2>3 DEF Hop
    <3> HIDE DEF v, z
    <3>4. CASE IsInclude(v.node)
      <4>1. PICK a : Reads(f, d, z, a, t) /\ Len(a) = Len(b) + 1
        BY <3>2, <3>3, <3>4, FollowReads
      <4>2. Len(a) > i
        <5>1. Len(b) \in Nat
          BY <3>2, LenProperties DEF Reads
        <5> QED BY <3>2, <3>4, <4>1, <5>1
      <4>3. \E bb : Reads(f, d, z, bb, t) /\ (IsInclude(z.node) => Len(bb) > i)
        BY <4>1, <4>2
      <4> QED BY <4>3 DEF z
    <3>5. CASE ~IsInclude(v.node)
      <4>1. z = v
        BY <3>3, <3>5 DEF Follow, IsInclude
      <4>2. \E bb : Reads(f, d, z, bb, t) /\ (IsInclude(z.node) => Len(bb) > i)
        BY <3>2, <3>5, <4>1
      <4> QED BY <4>2 DEF z
    <3> QED BY <3>4, <3>5
  <2> QED BY <2>2, <2>3
<1>5. Good(M)
  <2>1. \A i \in 0 .. M : (\A k \in 0 .. i - 1 : k \in S) => i \in S
    <3> HIDE DEF Good
    <3> QED BY <1>4
  <2>2. M \in 0 .. M
    BY <1>1
  <2>3. \A i \in 0 .. M : i \in S
    <3> HIDE DEF S
    <3> QED BY <1>1, <2>1, Induction
  <2> HIDE DEF Good
  <2> QED BY <2>2, <2>3
<1>6. PICK b : Reads(f, d, hop[M], b, t) /\ (IsInclude(hop[M].node) => Len(b) > M)
  BY <1>5
<1>7. ~(Len(b) > M)
  BY <1>1, <1>6, LenProperties DEF Reads
<1> QED BY <1>3, <1>6, <1>7

(* Where there is no include, what is below it expands to what is below    *)
(* what it expands to, and looks the same.                                 *)
LEMMA BelowReads ==
  ASSUME NEW f, NEW d, NEW x, NEW c, NEW t, Reads(f, d, x, c, t), ~IsInclude(x.node), NEW k \in Keys
  PROVE  LET y == Below(x, k) IN Reads(f, d, y, c, Kid(t, k))
<1> DEFINE y == Below(x, k)
           placed == FromYAML(x.node, x.file)
           below == FromYAML(y.node, y.file)
           leaf == Leaves(f, d, c)
<1>1. x.node \in Trees(Unplaced)[Height] /\ x.file \in Path /\ t = Walk(leaf, placed) /\ ~IsError(t)
  BY DroppingTheLast DEF Reads
<1>2. y.node = Kid(x.node, k) /\ y.file = x.file
  BY FoundParts DEF Below
<1> HIDE DEF y, leaf
<1>3. y.node \in Trees(Unplaced)[Height]
  BY <1>1, <1>2, Placing
<1>4. Height \in 0 .. Highest
  BY HighestIsNat
<1>5. Kid(t, k) = Walk(leaf, below) /\ ~IsError(Kid(t, k))
  <2>1. CASE HasKids(x.node)
    <3> DEFINE kids == [j \in Keys |-> FromYAML(x.node.kids[j], x.file)]
               walked == [j \in Keys |-> Walk(leaf, placed.kids[j])]
    <3>1. placed = [kind |-> x.node.kind, kids |-> kids] /\ placed \in Nodes(Height)
      BY <1>1, <2>1, Placing
    <3>2. HasKids(placed) /\ placed.kids[k] = below
      <4>1. kids[k] = below
        BY <1>2, <2>1 DEF Kid
      <4> HIDE DEF kids, placed, below
      <4> QED BY <2>1, <3>1, <4>1 DEF HasKids
    <3> HIDE DEF placed, below
    <3>3. t = [kind |-> placed.kind, kids |-> walked] /\ \A j \in Keys : ~IsError(walked[j])
      BY <1>1, <1>4, <3>1, <3>2, WalkingKids
    <3>4. walked[k] = Walk(leaf, below)
      BY <3>2
    <3> HIDE DEF walked
    <3>5. HasKids(t) /\ t.kids[k] = walked[k]
      BY <3>2, <3>3 DEF HasKids
    <3> QED BY <3>3, <3>4, <3>5 DEF Kid
  <2>2. CASE ~HasKids(x.node)
    <3>1. y.node = Nil
      BY <1>2, <2>2 DEF Kid
    <3>2. below = Nil /\ Nil \in Node
      <4>1. y.file \in Path
        BY <1>1, <1>2
      <4> QED BY <1>3, <3>1, <4>1, Placing
    <3> HIDE DEF below
    <3>3. Walk(leaf, below) = Nil /\ ~IsError(Nil)
      BY <3>2, Walking DEF IsError, Nil
    <3>4. ~HasKids(t)
      <4>1. CASE x.node = Nil
        <5>1. placed = Nil
          BY <1>1, <4>1, Placing
        <5>2. t = Nil
          <6> HIDE DEF placed
          <6> QED BY <1>1, <3>2, <5>1, Walking
        <5> QED BY <5>2 DEF HasKids, Nil
      <4>2. CASE x.node # Nil
        <5>1. t = ExpandScalar(f, InFile(x.node, x.file), d, c, Expansion(f, d)) /\ x.node.kind = "scalar"
          BY <2>2, <4>2, ReadingAScalar
        <5> DEFINE s == InFile(x.node, x.file)
        <5>2. s.segs = x.node.segs /\ ~HasKids(s) /\ Includes(x.node.segs) = {}
          BY <5>1 DEF InFile, HasKids, IsInclude
        <5> HIDE DEF s
        <5>3. t = Error("malformed") \/ t = s
          BY <5>1, <5>2 DEF ExpandScalar, s
        <5> QED BY <1>1, <5>2, <5>3 DEF IsError, Error
      <4> QED BY <4>1, <4>2
    <3> QED BY <3>3, <3>4 DEF Kid
  <2> QED BY <2>1, <2>2
<1>6. Reads(f, d, y, c, Kid(t, k))
  BY <1>2, <1>3, <1>5 DEF Reads, leaf
<1> QED BY <1>6 DEF y

LEMMA OutlineRead ==
  ASSUME NEW f, NEW d, NEW x, NEW c, NEW t, Reads(f, d, x, c, t), ~IsInclude(x.node)
  PROVE  Outline(t) = Outline(FromYAML(x.node, x.file))
<1> DEFINE placed == FromYAML(x.node, x.file)
           leaf == Leaves(f, d, c)
<1>1. x.node \in Trees(Unplaced)[Height] /\ x.file \in Path /\ t = Walk(leaf, placed) /\ ~IsError(t)
  BY DroppingTheLast DEF Reads
<1>2. placed \in Nodes(Height) /\ placed \in Node /\ Height \in 0 .. Highest
  BY <1>1, Placing, HighestIsNat
<1> HIDE DEF leaf
<1>3. CASE HasKids(x.node)
  <2>1. HasKids(placed)
    BY <1>1, <1>3, FromYAMLReturns DEF HasKids
  <2> HIDE DEF placed
  <2>2. PICK kids : t = [kind |-> placed.kind, kids |-> kids]
    BY <1>1, <1>2, <2>1, WalkingKids
  <2>3. t.kind = placed.kind /\ HasKids(t)
    BY <2>1, <2>2 DEF HasKids
  <2> QED BY <2>1, <2>3 DEF Outline, placed
<1>4. CASE x.node = Nil
  <2>1. placed = Nil
    BY <1>1, <1>4, Placing
  <2> HIDE DEF placed
  <2>2. t = Nil
    BY <1>1, <1>2, <2>1, Walking
  <2> QED BY <2>1, <2>2 DEF placed
<1>5. CASE ~HasKids(x.node) /\ x.node # Nil
  <2> DEFINE s == InFile(x.node, x.file)
  <2>1. t = ExpandScalar(f, s, d, c, Expansion(f, d)) /\ x.node.kind = "scalar" /\ placed = s
    BY <1>5, ReadingAScalar
  <2>2. s.segs = x.node.segs /\ Includes(x.node.segs) = {}
    BY <2>1 DEF InFile, IsInclude
  <2> HIDE DEF s, placed
  <2>3. t = Error("malformed") \/ t = s
    BY <2>1, <2>2 DEF ExpandScalar
  <2>4. t = s
    BY <1>1, <2>3 DEF IsError, Error
  <2> QED BY <2>1, <2>4 DEF placed
<1> QED BY <1>3, <1>4, <1>5

-----------------------------------------------------------------------------
FindStep(at, f, st, file, path, i) ==
  IF i = 0 THEN Followed(f, st, Found(Read(f, file), file)) ELSE Followed(f, st, Below(at[i - 1], path[i]))

FindUpTo(at, f, st, file, path, n) == at = [i \in 0 .. n |-> FindStep(at, f, st, file, path, i)]

LEMMA FindExists ==
  ASSUME NEW f, NEW st, NEW file, NEW path, NEW n \in Nat
  PROVE  \E at : FindUpTo(at, f, st, file, path, n)
<1> DEFINE Of(at, m) == at = [i \in 0 .. m |-> FindStep(at, f, st, file, path, i)]
           S == {m \in 0 .. n : \E at : Of(at, m)}
<1>1. ASSUME NEW m \in 0 .. n, \A k \in 0 .. m - 1 : k \in S
      PROVE  \E at : Of(at, m)
  <2>1. PICK u : \A i \in 0 .. m - 1 : u[i] = FindStep(u, f, st, file, path, i)
    <3>1. CASE m = 0
      BY <3>1
    <3>2. CASE m # 0
      <4>1. PICK u : Of(u, m - 1)
        BY <1>1, <3>2
      <4> QED BY <4>1
    <3> QED BY <3>1, <3>2
  <2> DEFINE w == [i \in 0 .. m |-> IF i < m THEN u[i] ELSE FindStep(u, f, st, file, path, i)]
  <2>2. /\ w = [i \in 0 .. m |-> w[i]]
        /\ \A i \in 0 .. m : i < m => w[i] = u[i]
        /\ w[m] = FindStep(u, f, st, file, path, m)
    OBVIOUS
  <2> HIDE DEF w
  <2>3. ASSUME NEW i \in 0 .. m PROVE w[i] = FindStep(u, f, st, file, path, i)
    <3>1. CASE i < m
      <4>1. i \in 0 .. m - 1
        BY <3>1
      <4> QED BY <2>1, <2>2, <3>1, <4>1
    <3>2. CASE i = m
      BY <2>2, <3>2
    <3> QED BY <3>1, <3>2
  <2>4. \A i \in 0 .. m : FindStep(w, f, st, file, path, i) = FindStep(u, f, st, file, path, i)
    BY <2>2 DEF FindStep
  <2> QED BY <2>2, <2>3, <2>4
<1>2. n \in S
  <2> HIDE DEF S
  <2>1. \A m \in 0 .. n : (\A k \in 0 .. m - 1 : k \in S) => m \in S
    BY <1>1 DEF S
  <2> QED BY <2>1, Induction
<1> QED BY <1>2 DEF FindUpTo

LEMMA FindByKeys ==
  ASSUME NEW f, NEW st, NEW file, NEW path \in Seq(Keys), NEW n \in 0 .. Len(path)
  PROVE  /\ n = 0 => Find(f, st, file, path, n) = Followed(f, st, Found(Read(f, file), file))
         /\ n # 0 => Find(f, st, file, path, n) =
                       Followed(f, st, Below(Find(f, st, file, path, n - 1), path[n]))
<1> DEFINE at == CHOOSE a : FindUpTo(a, f, st, file, path, Len(path))
<1>1. FindUpTo(at, f, st, file, path, Len(path))
  <2>1. Len(path) \in Nat
    BY LenProperties
  <2> QED BY <2>1, FindExists
<1>2. \A i : Find(f, st, file, path, i) = at[i]
  BY DEF Find, FindUpTo, FindStep
<1> HIDE DEF at
<1>3. at[n] = FindStep(at, f, st, file, path, n)
  BY <1>1 DEF FindUpTo
<1> QED BY <1>2, <1>3 DEF FindStep

LEMMA FindReads ==
  ASSUME NEW f \in FileSystems, NEW st, ~Static(st), NEW d, NEW file \in Path, Readable(f, file),
         NEW t, t = Expand(f, file, d), ~IsError(t),
         NEW path \in Seq(Keys), NEW n \in 0 .. Len(path)
  PROVE  /\ \E b : Reads(f, d, Find(f, st, file, path, n), b, At(t, path, n))
         /\ ~IsInclude(Find(f, st, file, path, n).node)
<1> DEFINE Good(i) == /\ \E b : Reads(f, d, Find(f, st, file, path, i), b, At(t, path, i))
                      /\ ~IsInclude(Find(f, st, file, path, i).node)
           S == {i \in 0 .. Len(path) : Good(i)}
<1>1. Len(path) \in Nat /\ \A i \in 1 .. Len(path) : path[i] \in Keys
  BY LenProperties, ElementOfSeq
<1>2. \E b : Reads(f, d, Found(Read(f, file), file), b, t)
  <2> DEFINE x == Found(Read(f, file), file)
  <2>1. PICK c \in Seq(Path) : c = <<file>> /\ c # <<>> /\ Len(c) = 1 /\ Last(c) = file
    BY ChainOfOne
  <2>2. t = Expansion(f, d)[c]
    BY <2>1, ExpandingAFile
  <2>3. t = Walk(Leaves(f, d, c), FromYAML(Read(f, file), file))
    <3>1. Expansion(f, d)[c] = Expanded(f, d, Expansion(f, d), c)
      BY Expanding
    <3>2. Expanded(f, d, Expansion(f, d), c) = Walk(Leaves(f, d, c), FromYAML(Read(f, Last(c)), Last(c)))
      BY DEF Expanded, Leaves
    <3>3. Last(c) = file
      BY <2>1
    <3> QED BY <2>2, <3>1, <3>2, <3>3
  <2>4. Read(f, file) \in Trees(Unplaced)[Height]
    BY ReadReturns DEF Readable
  <2>5. c # <<>> /\ Len(c) <= MaxIncludeDepth /\ Last(c) = file
    BY <2>1, TreeAssumption
  <2>6. x.node = Read(f, file) /\ x.file = file
    BY FoundParts
  <2> HIDE DEF x
  <2>7. Reads(f, d, x, c, t)
    BY <2>3, <2>4, <2>5, <2>6 DEF Reads
  <2> QED BY <2>7 DEF x
<1>3. ASSUME NEW i \in 0 .. Len(path), \A k \in 0 .. i - 1 : k \in S
      PROVE  Good(i)
  <2> DEFINE y == Find(f, st, file, path, i)
             u == At(t, path, i)
  <2>1. PICK x, b : y = Followed(f, st, x) /\ Reads(f, d, x, b, u)
    <3>1. CASE i = 0
      <4> DEFINE x == Found(Read(f, file), file)
      <4>1. y = Followed(f, st, x) /\ u = t
        <5>1. Find(f, st, file, path, 0) = Followed(f, st, x) /\ At(t, path, 0) = t
          <6>1. 0 \in 0 .. Len(path)
            BY <1>1
          <6>2. Find(f, st, file, path, 0) = Followed(f, st, Found(Read(f, file), file))
            BY <6>1, FindByKeys
          <6>3. At(t, path, 0) = t
            BY <6>1, AtByKeys
          <6> QED BY <6>2, <6>3
        <5> QED BY <3>1, <5>1
      <4> HIDE DEF y, u
      <4> QED BY <1>2, <4>1
    <3>2. CASE i # 0
      <4> DEFINE v == Find(f, st, file, path, i - 1)
                 w == At(t, path, i - 1)
                 x == Below(v, path[i])
      <4>1. Good(i - 1)
        <5>1. i - 1 \in 0 .. i - 1
          BY <3>2
        <5> HIDE DEF Good
        <5> QED BY <1>3, <5>1
      <4>2. PICK b : Reads(f, d, v, b, w)
        BY <4>1
      <4>3. ~IsInclude(v.node)
        BY <4>1
      <4>4. y = Followed(f, st, x) /\ u = Kid(w, path[i])
        <5>1. y = Followed(f, st, Below(Find(f, st, file, path, i - 1), path[i]))
          BY <3>2, FindByKeys
        <5>2. u = Kid(At(t, path, i - 1), path[i])
          BY <3>2, AtByKeys
        <5> QED BY <5>1, <5>2
      <4>5. path[i] \in Keys
        BY <1>1, <3>2
      <4> HIDE DEF v, w, y, u
      <4>6. Reads(f, d, x, b, Kid(w, path[i]))
        BY <4>2, <4>3, <4>5, BelowReads
      <4> QED BY <4>4, <4>6
    <3> QED BY <3>1, <3>2
  <2> HIDE DEF y, u
  <2>2. (\E a : Reads(f, d, y, a, u)) /\ ~IsInclude(y.node)
    BY <2>1, FollowedReads
  <2> QED BY <2>2 DEF y, u
<1>4. \A i \in 0 .. Len(path) : i \in S
  <2>1. \A i \in 0 .. Len(path) : (\A k \in 0 .. i - 1 : k \in S) => i \in S
    <3> HIDE DEF Good
    <3> QED BY <1>3
  <2> HIDE DEF S
  <2> QED BY <1>1, <2>1, Induction
<1>5. Good(n)
  <2> HIDE DEF Good
  <2> QED BY <1>4
<1> QED BY <1>5

(* A static Loader follows nothing. *)
LEMMA NothingFollowed ==
  ASSUME NEW f, NEW st, NEW x, Follow(f, st, x) = x
  PROVE  Followed(f, st, x) = x
<1> DEFINE M == MaxIncludeDepth
           hop == CHOOSE h : h = [i \in 0 .. M |-> Hop(h, f, st, x, i)]
           S == {i \in 0 .. M : hop[i] = x}
<1>1. M \in Nat
  BY TreeAssumption
<1>2. hop = [i \in 0 .. M |-> Hop(hop, f, st, x, i)]
  BY <1>1, HopsExist
<1>3. Followed(f, st, x) = hop[M]
  BY DEF Followed, Hop
<1> HIDE DEF hop
<1>4. ASSUME NEW i \in 0 .. M, \A k \in 0 .. i - 1 : k \in S
      PROVE  hop[i] = x
  <2>1. hop[i] = Hop(hop, f, st, x, i)
    BY <1>2
  <2>2. CASE i = 0
    BY <2>1, <2>2 DEF Hop
  <2>3. CASE i # 0
    <3>1. i - 1 \in 0 .. i - 1
      BY <2>3
    <3>2. hop[i - 1] = x
      BY <1>4, <3>1
    <3> QED BY <2>1, <2>3, <3>2 DEF Hop
  <2> QED BY <2>2, <2>3
<1>5. M \in S
  <2>1. \A i \in 0 .. M : (\A k \in 0 .. i - 1 : k \in S) => i \in S
    BY <1>4
  <2> HIDE DEF S
  <2>2. M \in 0 .. M
    BY <1>1
  <2>3. \A i \in 0 .. M : i \in S
    BY <1>1, <2>1, Induction
  <2> QED BY <2>2, <2>3
<1> QED BY <1>3, <1>5

LEMMA FindVerbatim ==
  ASSUME NEW f, NEW st, \A x : Follow(f, st, x) = x, NEW file, NEW path \in Seq(Keys), NEW n \in 0 .. Len(path)
  PROVE  Find(f, st, file, path, n) = Found(At(Read(f, file), path, n), file)
<1> DEFINE raw == Read(f, file)
           S == {i \in 0 .. Len(path) : Find(f, st, file, path, i) = Found(At(raw, path, i), file)}
<1>1. Len(path) \in Nat
  BY LenProperties
<1>2. ASSUME NEW i \in 0 .. Len(path), \A k \in 0 .. i - 1 : k \in S
      PROVE  Find(f, st, file, path, i) = Found(At(raw, path, i), file)
  <2>1. CASE i = 0
    <3>1. Find(f, st, file, path, 0) = Followed(f, st, Found(raw, file)) /\ At(raw, path, 0) = raw
      BY <1>2, <2>1, FindByKeys, AtByKeys
    <3> QED BY <2>1, <3>1, NothingFollowed
  <2>2. CASE i # 0
    <3>1. i - 1 \in 0 .. i - 1
      BY <2>2
    <3>2. Find(f, st, file, path, i - 1) = Found(At(raw, path, i - 1), file)
      BY <1>2, <3>1
    <3>3. Find(f, st, file, path, i) = Below(Find(f, st, file, path, i - 1), path[i])
      <4>1. Find(f, st, file, path, i) = Followed(f, st, Below(Find(f, st, file, path, i - 1), path[i]))
        BY <2>2, FindByKeys
      <4> QED BY <4>1, NothingFollowed
    <3>4. At(raw, path, i) = Kid(At(raw, path, i - 1), path[i])
      BY <2>2, AtByKeys
    <3> QED BY <3>2, <3>3, <3>4, FoundParts DEF Below
  <2> QED BY <2>1, <2>2
<1>3. \A i \in 0 .. Len(path) : i \in S
  <2>1. \A i \in 0 .. Len(path) : (\A k \in 0 .. i - 1 : k \in S) => i \in S
    BY <1>2
  <2> HIDE DEF S
  <2> QED BY <1>1, <2>1, Induction
<1> QED BY <1>3

(* So a reader finds at each path of a layer what the layer provides there. *)
Provided(f, st, i) == IF Read(f, File(i)) = NoFile THEN Nil ELSE LayerTree(f, st, i)

LEMMA LayersByPath ==
  ASSUME NEW f \in FileSystems, NEW st \in SchemeSets, NEW i \in DOMAIN Dirs,
         ~IsError(Provided(f, st, i)), NEW path \in Seq(Keys), NEW n \in 0 .. Len(path)
  PROVE  /\ Provided(f, st, i) \in Root
         /\ InLayer(f, st, i, path, n) = Outline(At(Provided(f, st, i), path, n))
<1> DEFINE file == File(i)
           raw == Read(f, file)
           t == Provided(f, st, i)
           x == Find(f, st, file, path, n)
<1>1. file \in Path
  BY FilesHavePaths
<1>2. CASE raw = NoFile
  <2>1. t = Nil /\ Nil \in Tree /\ Len(path) \in Nat
    BY <1>2, NilIsTree, LenProperties DEF Provided
  <2>2. At(Nil, path, n) = Nil
    <3>1. 0 \in 0 .. n /\ 0 \in 0 .. Len(path)
      BY <2>1
    <3>2. At(Nil, path, 0) = Nil
      BY <3>1, AtByKeys
    <3> QED BY <3>1, <3>2, NothingBelowNothing
  <2>3. Outline(Nil) = Nil
    BY DEF Outline, HasKids, Nil
  <2>4. InLayer(f, st, i, path, n) = Nil
    BY <1>2 DEF InLayer
  <2> HIDE DEF t
  <2>5. t \in Root /\ InLayer(f, st, i, path, n) = Outline(At(t, path, n))
    BY <2>1, <2>2, <2>3, <2>4 DEF Root
  <2> QED BY <2>5 DEF t
<1>3. CASE raw # NoFile
  <2>1. t = LayerTree(f, st, i)
    BY <1>3 DEF Provided
  <2>2. t \in Tree /\ t.kind = "map" /\ ~IsError(t)
    BY <1>3, <2>1, LayerTreeReturns
  <2>3. Readable(f, file) /\ t = IF Static(st) THEN FromYAML(raw, file) ELSE Expand(f, file, Dirs[i])
    <3>1. t = IF raw = Broken THEN Error("parse") ELSE IF raw.kind # "map" THEN Error("shape")
              ELSE IF Static(st) THEN FromYAML(raw, file) ELSE Expand(f, file, Dirs[i])
      BY <2>1 DEF LayerTree
    <3>2. \A why : IsError(Error(why))
      BY DEF IsError, Error
    <3> HIDE DEF t
    <3> QED BY <1>3, <2>2, <3>1, <3>2 DEF Readable
  <2>4. InLayer(f, st, i, path, n) = Outline(FromYAML(x.node, x.file))
    BY <1>3 DEF InLayer
  <2>5. raw \in Trees(Unplaced)[Height]
    BY <1>1, <2>3, ReadReturns DEF Readable
  <2> HIDE DEF t
  <2>6. CASE ~Static(st)
    <3>1. t = Expand(f, file, Dirs[i])
      BY <2>3, <2>6
    <3>2. (\E b : Reads(f, Dirs[i], x, b, At(t, path, n))) /\ ~IsInclude(x.node)
      BY <1>1, <2>2, <2>3, <2>6, <3>1, FindReads
    <3> HIDE DEF x
    <3>3. Outline(At(t, path, n)) = Outline(FromYAML(x.node, x.file))
      BY <3>2, OutlineRead
    <3> QED BY <2>2, <2>4, <3>3 DEF t, Root
  <2>7. CASE Static(st)
    <3>1. x = Found(At(raw, path, n), file)
      <4>1. \A y : Follow(f, st, y) = y
        BY <2>7 DEF Follow
      <4> QED BY <4>1, FindVerbatim
    <3>2. x.node = At(raw, path, n) /\ x.file = file
      <4> HIDE DEF raw, x, file
      <4> QED BY <3>1, FoundParts
    <3>3. At(FromYAML(raw, file), path, n) = FromYAML(At(raw, path, n), file)
      <4> DEFINE leaf == [m \in Unplaced |-> [kind |-> "scalar", segs |-> m.segs, file |-> file]]
      <4>1. \A m \in Unplaced : ~HasKids(leaf[m])
        BY DEF HasKids
      <4>2. \A r : FromYAML(r, file) = Walk(leaf, r)
        BY DEF FromYAML
      <4> HIDE DEF leaf
      <4>3. ~IsError(Walk(leaf, raw))
        BY <1>1, <2>5, <4>2, FromYAMLReturns
      <4>4. Unplaced \in SUBSET (Unplaced \cup Placed) /\ Height \in 0 .. Highest
        BY HighestIsNat
      <4> HIDE DEF raw, file
      <4>5. At(Walk(leaf, raw), path, n) = Walk(leaf, At(raw, path, n))
        BY <2>5, <4>1, <4>3, <4>4, WalkAlongPaths
      <4> QED BY <4>2, <4>5
    <3>4. t = FromYAML(raw, file)
      BY <2>3, <2>7
    <3> HIDE DEF raw, file, x
    <3>5. InLayer(f, st, i, path, n) = Outline(At(t, path, n))
      BY <2>4, <3>2, <3>3, <3>4
    <3> QED BY <2>2, <3>5 DEF t, Root
  <2> QED BY <2>6, <2>7
<1> QED BY <1>2, <1>3

-----------------------------------------------------------------------------
(* What the first k layers provide, in the order in which they are merged. *)
Stack(f, st, k) == [i \in 1 .. k |-> Provided(f, st, i)]

LEMMA StacksGrow ==
  ASSUME NEW f \in FileSystems, NEW st \in SchemeSets, NEW k \in 0 .. Len(Dirs),
         \A i \in 1 .. k : ~IsError(Provided(f, st, i))
  PROVE  /\ Stack(f, st, k) \in Seq(Root) /\ Len(Stack(f, st, k)) = k
         /\ \A i \in 1 .. k : Stack(f, st, k)[i] = Provided(f, st, i)
         /\ MergeTrees(Stack(f, st, k)) \in Root
         /\ k # 0 => MergeTrees(Stack(f, st, k)) =
                       MergeNode(MergeTrees(Stack(f, st, k - 1)), Provided(f, st, k))
<1> DEFINE s == Stack(f, st, k)
           r == Stack(f, st, k - 1)
<1>1. Len(Dirs) \in Nat /\ DOMAIN Dirs = 1 .. Len(Dirs) /\ k \in Nat
  BY TreeAssumption, LenProperties
<1>2. ASSUME NEW i \in 1 .. k PROVE Provided(f, st, i) \in Root
  <2> DEFINE e == <<>>
  <2>1. e \in Seq(Keys) /\ Len(e) = 0
    BY EmptySeq
  <2>2. i \in DOMAIN Dirs /\ 0 \in 0 .. Len(e)
    BY <1>1, <2>1
  <2> HIDE DEF e
  <2> QED BY <1>2, <2>1, <2>2, LayersByPath
<1>3. s \in Seq(Root) /\ Len(s) = k /\ \A i \in 1 .. k : s[i] = Provided(f, st, i)
  BY <1>1, <1>2 DEF Stack
<1>4. MergeTrees(s) \in Root
  <2> DEFINE e == <<>>
  <2>1. e \in Seq(Keys) /\ 0 \in 0 .. Len(e)
    BY EmptySeq
  <2> HIDE DEF e, s
  <2> QED BY <1>3, <2>1, LastWins
<1>5. k # 0 => MergeTrees(s) = MergeNode(MergeTrees(r), Provided(f, st, k))
  <2> SUFFICES ASSUME k # 0 PROVE MergeTrees(s) = MergeNode(MergeTrees(r), Provided(f, st, k))
    OBVIOUS
  <2>1. r \in Seq(Root) /\ Len(r) = k - 1 /\ \A i \in 1 .. k - 1 : r[i] = Provided(f, st, i)
    BY <1>1, <1>2 DEF Stack
  <2> DEFINE t == Provided(f, st, k)
             a == Append(r, t)
  <2>2. t \in Root
    BY <1>1, <1>2
  <2> HIDE DEF r, s, t
  <2>3. /\ a \in Seq(Root) /\ Len(a) = k /\ a[k] = t /\ \A i \in 1 .. k - 1 : a[i] = r[i]
    BY <1>1, <2>1, <2>2, AppendProperties
  <2> HIDE DEF a
  <2>4. \A i \in 1 .. k : a[i] = s[i]
    BY <1>1, <1>3, <2>1, <2>3 DEF t
  <2>5. s = a
    BY <1>3, <2>3, <2>4, SeqEqual
  <2>6. r \in Seq(Tree) /\ t \in Tree
    <3>1. Root \subseteq Tree
      BY DEF Root
    <3> QED BY <2>1, <2>2, <3>1, SeqMonotonic
  <2> QED BY <2>5, <2>6, MergeBySteps DEF a, t
<1> QED BY <1>3, <1>4, <1>5

(* Tokens are resolved where they are. *)
LEMMA ResolvedAtAPath ==
  ASSUME NEW f, NEW st, NEW m \in Tree, NEW r, r = ResolveNode(f, st, m), ~IsError(r),
         NEW path \in Seq(Keys), NEW n \in 0 .. Len(path)
  PROVE  Outline(At(r, path, n)) = Resolved(f, st, Outline(At(m, path, n)))
<1> DEFINE leaf == [l \in Placed |-> ResolveScalar(f, st, l)]
           a == At(m, path, n)
<1>1. \A l \in Placed : ~HasKids(leaf[l])
  <2> TAKE l \in Placed
  <2>1. IsError(leaf[l]) \/ leaf[l] \in Unplaced
    BY ResolveScalarReturns
  <2> HIDE DEF leaf
  <2> QED BY <2>1 DEF IsError, HasKids, Unplaced
<1>2. r = Walk(leaf, m)
  BY DEF ResolveNode
<1>3. \A l \in Placed : leaf[l] = ResolveScalar(f, st, l)
  OBVIOUS
<1> HIDE DEF leaf
<1>4. Placed \in SUBSET (Unplaced \cup Placed) /\ a \in Tree
  BY TreesAlongPaths
<1>5. At(r, path, n) = Walk(leaf, a) /\ ~IsError(Walk(leaf, a))
  BY <1>1, <1>2, <1>4, NilIsTree, WalkAlongPaths
<1>6. a \in Node /\ a \in Nodes(Highest)
  BY <1>4, NilIsTree, TreesAreNodes, TreesGrow DEF Nodes, Node
<1> HIDE DEF a
<1>7. CASE HasKids(a)
  <2>1. PICK kids : Walk(leaf, a) = [kind |-> a.kind, kids |-> kids]
    BY <1>5, <1>6, <1>7, NilIsTree, WalkingKids
  <2> DEFINE w == Walk(leaf, a)
  <2>2. w.kind = a.kind
    BY <2>1
  <2> HIDE DEF w
  <2>3. HasKids(w)
    BY <1>7, <2>2 DEF HasKids
  <2>4. Outline(w) = Outline(a)
    BY <1>7, <2>2, <2>3 DEF Outline
  <2>5. Outline(a).kind # "scalar"
    BY <1>6, <1>7, Outlines DEF HasKids
  <2> QED BY <1>5, <2>4, <2>5 DEF Resolved, w, a
<1>8. CASE a = Nil
  <2>1. Walk(leaf, a) = Nil /\ Outline(a) = Nil /\ Outline(Nil) = Nil /\ Nil.kind # "scalar"
    BY <1>6, <1>8, Walking DEF Outline, HasKids, Nil
  <2> QED BY <1>5, <2>1 DEF Resolved, a
<1>9. CASE ~HasKids(a) /\ a # Nil
  <2>1. a \in Placed /\ a.kind = "scalar"
    BY <1>4, <1>9, NilIsTree, Shapes
  <2>2. Walk(leaf, a) = ResolveScalar(f, st, a)
    BY <1>3, <1>6, <1>9, <2>1, Walking
  <2>3. Outline(a) = a
    BY <1>9 DEF Outline
  <2>4. ~HasKids(ResolveScalar(f, st, a))
    BY <1>1, <1>3, <2>1
  <2>5. Outline(ResolveScalar(f, st, a)) = ResolveScalar(f, st, a)
    BY <2>4 DEF Outline
  <2> QED BY <1>5, <2>1, <2>2, <2>3, <2>5 DEF Resolved, a
<1> QED BY <1>7, <1>8, <1>9

(* The layers that count are those that win when they are merged. *)
LEMMA WinnersWin ==
  ASSUME NEW f \in FileSystems, NEW st \in SchemeSets, \A i \in DOMAIN Dirs : ~IsError(Provided(f, st, i)),
         NEW path \in Seq(Keys), NEW n \in 0 .. Len(path)
  PROVE  Winners(f, st, path, n) = Wins(Stack(f, st, Len(Dirs)), path, n)
<1> DEFINE s == Stack(f, st, Len(Dirs))
<1>1. Len(Dirs) \in Nat /\ DOMAIN Dirs = 1 .. Len(Dirs) /\ Len(Dirs) \in 0 .. Len(Dirs) /\ Len(path) \in Nat
  BY TreeAssumption, LenProperties
<1>2. s \in Seq(Root) /\ Len(s) = Len(Dirs) /\ \A i \in DOMAIN Dirs : s[i] = Provided(f, st, i)
  BY <1>1, StacksGrow
<1> HIDE DEF s
<1>3. ASSUME NEW i \in DOMAIN Dirs, NEW q \in 0 .. n
      PROVE  /\ At(s[i], path, q) \in Tree /\ InLayer(f, st, i, path, q) = Outline(At(s[i], path, q))
             /\ InLayer(f, st, i, path, q) = Nil <=> At(s[i], path, q) = Nil
             /\ InLayer(f, st, i, path, q).kind = At(s[i], path, q).kind
  <2>1. q \in 0 .. Len(path)
    BY <1>1
  <2>2. s[i] \in Tree /\ InLayer(f, st, i, path, q) = Outline(At(s[i], path, q))
    BY <1>2, <2>1, LayersByPath DEF Root
  <2>3. At(s[i], path, q) \in Tree /\ At(s[i], path, q) \in Node
    BY <2>1, <2>2, TreesAlongPaths, TreesAreNodes, NilIsTree
  <2> QED BY <2>2, <2>3, Outlines
<1>4. ASSUME NEW i \in DOMAIN Dirs, NEW j \in DOMAIN Dirs
      PROVE  Replaces(f, st, j, i, path, n) <=> Over(s[j], s[i], path, n)
  <2>1. ASSUME NEW q \in 1 .. n - 1
        PROVE  (LET over == InLayer(f, st, j, path, q)
                    under == InLayer(f, st, i, path, q)
                IN  over # Nil /\ under # Nil /\ ~(over.kind = "map" /\ under.kind = "map"))
               <=> Clash(At(s[i], path, q), At(s[j], path, q))
    <3>1. q \in 0 .. n
      BY <1>1
    <3> QED BY <1>3, <3>1 DEF Clash, Both
  <2> QED BY <2>1 DEF Replaces, Over
<1>5. n \in 0 .. n
  BY <1>1
<1>6. \A i \in DOMAIN Dirs : \A j \in i + 1 .. Len(Dirs) : j \in DOMAIN Dirs
  BY <1>1
<1>7. \A i \in DOMAIN Dirs : i \in Winners(f, st, path, n) <=> i \in Wins(s, path, n)
  BY <1>1, <1>2, <1>3, <1>4, <1>5, <1>6 DEF Winners, Wins
<1>8. Winners(f, st, path, n) \subseteq DOMAIN Dirs /\ Wins(s, path, n) \subseteq DOMAIN Dirs
  BY <1>1, <1>2 DEF Winners, Wins
<1> QED BY <1>7, <1>8 DEF s

LEMMA BoundByPath ==
  ASSUME NEW f \in FileSystems, NEW st \in SchemeSets, \A i \in DOMAIN Dirs : ~IsError(Provided(f, st, i)),
         NEW r, r = ResolveNode(f, st, MergeTrees(Stack(f, st, Len(Dirs)))), ~IsError(r),
         NEW path \in Seq(Keys), NEW n \in 0 .. Len(path)
  PROVE  LET winners == Winners(f, st, path, n)
             bound == Outline(At(r, path, n))
         IN  /\ winners = {} => bound = Nil
             /\ \A i \in winners : bound = Resolved(f, st, InLayer(f, st, i, path, n))
<1> DEFINE s == Stack(f, st, Len(Dirs))
           m == MergeTrees(s)
           winners == Winners(f, st, path, n)
           bound == Outline(At(r, path, n))
<1>1. Len(Dirs) \in Nat /\ DOMAIN Dirs = 1 .. Len(Dirs) /\ Len(Dirs) \in 0 .. Len(Dirs) /\ n \in 0 .. n
  BY TreeAssumption, LenProperties
<1>2. s \in Seq(Root) /\ \A i \in DOMAIN Dirs : s[i] = Provided(f, st, i)
  BY <1>1, StacksGrow
<1>3. winners = Wins(s, path, n)
  BY WinnersWin
<1> HIDE DEF s
<1>4. /\ m \in Tree /\ r = ResolveNode(f, st, m)
      /\ \A i \in winners : Outline(At(m, path, n)) = Outline(At(s[i], path, n))
      /\ winners = {} => At(m, path, n) = Nil
  BY <1>1, <1>2, <1>3, LastWins DEF Root, s
<1> HIDE DEF m
<1>5. bound = Resolved(f, st, Outline(At(m, path, n)))
  BY <1>4, ResolvedAtAPath
<1>6. ASSUME winners = {} PROVE bound = Nil
  <2>1. Outline(Nil) = Nil /\ Nil.kind # "scalar"
    BY DEF Outline, HasKids, Nil
  <2>2. Resolved(f, st, Nil) = Nil
    BY <2>1 DEF Resolved
  <2> HIDE DEF winners, bound
  <2> QED BY <1>4, <1>5, <1>6, <2>1, <2>2
<1>7. ASSUME NEW i \in winners PROVE bound = Resolved(f, st, InLayer(f, st, i, path, n))
  <2>1. i \in DOMAIN Dirs
    BY DEF Winners
  <2>2. InLayer(f, st, i, path, n) = Outline(At(s[i], path, n))
    BY <1>2, <2>1, LayersByPath
  <2>3. Outline(At(m, path, n)) = Outline(At(s[i], path, n))
    BY <1>4
  <2> HIDE DEF winners, bound
  <2> QED BY <1>5, <2>2, <2>3
<1> HIDE DEF winners, bound
<1> QED BY <1>6, <1>7 DEF winners, bound

-----------------------------------------------------------------------------
(* What a Load has read so far merges to what the layers it looked at      *)
(* provide; what it merges, resolves and binds is that.                    *)
LoadedSoFar ==
  /\ phase \in {"shape", "merge", "resolve", "bind"} => dir > Len(Dirs)
  /\ \A i \in 1 .. dir - 1 : ~IsError(Provided(fs, schemes, i))
  /\ MergeTrees(layers) = MergeTrees(Stack(fs, schemes, dir - 1))
  /\ phase = "resolve" => tree = MergeTrees(Stack(fs, schemes, Len(Dirs)))
  /\ phase = "bind" =>
       tree = ResolveNode(fs, schemes, MergeTrees(Stack(fs, schemes, Len(Dirs)))) /\ ~IsError(tree)

LEMMA LoadedSoFarAtFirst == Init => LoadedSoFar
<1> SUFFICES ASSUME Init PROVE LoadedSoFar
  OBVIOUS
<1>1. phase = "read" /\ dir = 1 /\ layers = <<>> /\ fs \in FileSystems /\ schemes \in SchemeSets
  BY DEF Init
<1>2. 1 .. dir - 1 = {} /\ dir - 1 = 0
  BY <1>1
<1>3. Stack(fs, schemes, 0) \in Seq(Root) /\ Len(Stack(fs, schemes, 0)) = 0
  <2>1. 0 \in 0 .. Len(Dirs)
    BY TreeAssumption, LenProperties
  <2>2. 1 .. 0 = {}
    OBVIOUS
  <2> QED BY <1>1, <2>1, <2>2, StacksGrow
<1>4. Stack(fs, schemes, 0) = <<>>
  BY <1>3, EmptySeq
<1> QED BY <1>1, <1>2, <1>4 DEF LoadedSoFar

LEMMA LoadedSoFarIsKept == Inv /\ LoadedSoFar /\ [Next]_vars => LoadedSoFar'
<1> SUFFICES ASSUME Inv, LoadedSoFar, [Next]_vars PROVE LoadedSoFar'
  OBVIOUS
<1>1. /\ Len(Dirs) \in Nat /\ DOMAIN Dirs = 1 .. Len(Dirs) /\ dir \in 1 .. Len(Dirs) + 1
      /\ schemes \in SchemeSets /\ fs \in FileSystems /\ layers \in Seq(Tree)
  BY TreeAssumption, LenProperties DEF Inv, LayersAreMaps, Typed
<1>2. ASSUME phase = "read", dir <= Len(Dirs), ~IsError(Provided(fs, schemes, dir)), dir' = dir + 1,
             fs' = fs, schemes' = schemes, phase' = phase,
             MergeTrees(layers') = MergeNode(MergeTrees(layers), Provided(fs, schemes, dir))
      PROVE  LoadedSoFar'
  <2>1. dir \in 0 .. Len(Dirs) /\ dir # 0 /\ dir' - 1 = dir
    BY <1>1, <1>2
  <2>2. \A i \in 1 .. dir : ~IsError(Provided(fs, schemes, i))
    <3>1. \A i \in 1 .. dir : i = dir \/ i \in 1 .. dir - 1
      BY <1>1
    <3> QED BY <1>2, <3>1 DEF LoadedSoFar
  <2>3. MergeTrees(Stack(fs, schemes, dir)) =
          MergeNode(MergeTrees(Stack(fs, schemes, dir - 1)), Provided(fs, schemes, dir))
    BY <1>1, <2>1, <2>2, StacksGrow
  <2> QED BY <1>2, <2>1, <2>2, <2>3 DEF LoadedSoFar
<1>3. CASE SkipLayer
  <2>1. /\ phase = "read" /\ dir <= Len(Dirs) /\ Read(fs, File(dir)) = NoFile /\ dir' = dir + 1
        /\ UNCHANGED <<fs, schemes, phase, layers>>
    BY <1>3 DEF SkipLayer
  <2>2. Provided(fs, schemes, dir) = Nil /\ ~IsError(Nil)
    BY <2>1 DEF Provided, IsError, Nil
  <2>3. MergeTrees(layers) \in Tree
    <3>1. dir - 1 \in 0 .. Len(Dirs)
      BY <1>1
    <3>2. MergeTrees(Stack(fs, schemes, dir - 1)) \in Root
      BY <1>1, <3>1, StacksGrow DEF LoadedSoFar
    <3> QED BY <3>2 DEF LoadedSoFar, Root
  <2>4. MergeNode(MergeTrees(layers), Nil) = MergeTrees(layers)
    BY <2>3, NilIsTree, Merging
  <2> QED BY <1>2, <2>1, <2>2, <2>4
<1>4. CASE ReadLayer
  <2> DEFINE t == LayerTree(fs, schemes, dir)
  <2>1. /\ phase = "read" /\ dir <= Len(Dirs) /\ Read(fs, File(dir)) # NoFile /\ dir \in DOMAIN Dirs
        /\ fs' = fs /\ schemes' = schemes
        /\ IF IsError(t) THEN phase' = "failed" /\ UNCHANGED <<dir, layers>>
                         ELSE layers' = Append(layers, t) /\ dir' = dir + 1 /\ UNCHANGED phase
    BY <1>1, <1>4 DEF ReadLayer
  <2>2. t = Provided(fs, schemes, dir)
    BY <2>1 DEF Provided
  <2>3. ~IsError(t) => t \in Tree
    BY <1>1, <2>1, LayerTreeReturns
  <2> HIDE DEF t
  <2>4. CASE IsError(t)
    BY <2>1, <2>4 DEF LoadedSoFar
  <2>5. CASE ~IsError(t)
    <3>1. MergeTrees(Append(layers, t)) = MergeNode(MergeTrees(layers), t)
      BY <1>1, <2>3, <2>5, MergeBySteps
    <3> QED BY <1>2, <2>1, <2>2, <2>5, <3>1
  <2> QED BY <2>4, <2>5
<1>5. CASE LayersRead
  <2>1. /\ dir > Len(Dirs) /\ phase' \in {"failed", "shape"}
        /\ UNCHANGED <<fs, schemes, dir, layers>>
    BY <1>5 DEF LayersRead
  <2> QED BY <2>1 DEF LoadedSoFar
<1>6. CASE ValidateShape
  <2>1. /\ phase = "shape" /\ phase' \in {"failed", "merge"}
        /\ UNCHANGED <<fs, schemes, dir, layers>>
    BY <1>6 DEF ValidateShape
  <2> QED BY <2>1 DEF LoadedSoFar
<1>7. CASE Merge
  <2>1. /\ phase = "merge" /\ phase' = "resolve" /\ tree' = MergeTrees(layers)
        /\ UNCHANGED <<fs, schemes, dir, layers>>
    BY <1>7 DEF Merge
  <2>2. dir - 1 = Len(Dirs)
    BY <1>1, <2>1 DEF LoadedSoFar
  <2> QED BY <2>1, <2>2 DEF LoadedSoFar
<1>8. CASE Resolve
  <2>1. /\ phase = "resolve" /\ tree' = ResolveNode(fs, schemes, tree)
        /\ phase' = IF IsError(tree') THEN "failed" ELSE "bind"
        /\ UNCHANGED <<fs, schemes, dir, layers>>
    BY <1>8 DEF Resolve
  <2> QED BY <2>1 DEF LoadedSoFar
<1>9. CASE UNCHANGED vars
  BY <1>9 DEF vars, LoadedSoFar
<1> QED BY <1>3, <1>4, <1>5, <1>6, <1>7, <1>8, <1>9 DEF Next

(* What follows from that for the tree that is bound. *)
LEMMA BoundWhereLoaded == Inv /\ LoadedSoFar => LoadedByPath
<1> SUFFICES ASSUME Inv, LoadedSoFar, phase = "bind", NEW p \in KeyPath
             PROVE  LET n == Len(p)
                        winners == Winners(fs, schemes, p, n)
                        bound == Outline(At(tree, p, n))
                    IN  /\ winners = {} => bound = Nil
                        /\ \A i \in winners : bound = Resolved(fs, schemes, InLayer(fs, schemes, i, p, n))
  BY DEF LoadedByPath
<1>1. /\ Len(Dirs) \in Nat /\ DOMAIN Dirs = 1 .. Len(Dirs) /\ dir \in 1 .. Len(Dirs) + 1
      /\ schemes \in SchemeSets /\ fs \in FileSystems
  BY TreeAssumption, LenProperties DEF Inv, LayersAreMaps, Typed
<1>2. p \in Seq(Keys) /\ Len(p) \in 0 .. Len(p)
  <2>1. PICK n \in 1 .. PathLength : p \in [1 .. n -> Keys]
    BY DEF KeyPath
  <2>2. n \in Nat
    BY <2>1
  <2>3. p \in Seq(Keys)
    BY <2>1, <2>2
  <2> QED BY <2>3, LenProperties
<1>3. \A i \in DOMAIN Dirs : ~IsError(Provided(fs, schemes, i))
  <2>1. dir - 1 = Len(Dirs)
    BY <1>1 DEF LoadedSoFar
  <2> QED BY <1>1, <2>1 DEF LoadedSoFar
<1>4. tree = ResolveNode(fs, schemes, MergeTrees(Stack(fs, schemes, Len(Dirs)))) /\ ~IsError(tree)
  BY DEF LoadedSoFar
<1> QED BY <1>1, <1>2, <1>3, <1>4, BoundByPath

(* A Load binds, at every key path, what the last layer that provides it   *)
(* says there, with its tokens resolved where they were written, and       *)
(* nothing where no layer says anything: of any number of layers, with     *)
(* includes of any depth, and at paths of any length.                      *)
THEOREM LoadsByPath == Spec => []LoadedByPath
<1>1. Inv /\ LoadedSoFar /\ [Next]_vars => Inv' /\ LoadedSoFar'
  BY InvIsKept, LoadedSoFarIsKept
<1>2. Init => Inv /\ LoadedSoFar
  BY InvHoldsAtFirst, LoadedSoFarAtFirst
<1> QED BY <1>1, <1>2, BoundWhereLoaded, PTL DEF Spec
=============================================================================
