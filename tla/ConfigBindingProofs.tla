------------------------ MODULE ConfigBindingProofs ------------------------
(***************************************************************************)
(* Theorems about ConfigBinding, for any struct, tree, families and        *)
(* selectors: what a Load that fails leaves of the caller's struct and of  *)
(* the registries, and that registered instances can be told apart.        *)
(***************************************************************************)
EXTENDS ConfigBinding, SequenceTheorems, TLAPS

(* TypeOK without what it says of a Load that is alone. *)
Typed ==
  /\ pc \in [Load -> {"idle", "binding", "added", "failed"}]
  /\ tree \in [Load -> Tree]
  /\ left \in [Load -> SUBSET Field]
  /\ at \in [Load -> Variant \cup {Nil}]
  /\ dst \in [Load -> [Field -> Held]]
  /\ temp \in [Load -> [Field -> Held]]
  /\ passed \in [Load -> [Field -> Held]]
  /\ instances \in [Family -> Seq(Instance)]
  /\ before \in [Load -> [Family -> Nat \cup {-1, NotTouched}]]

(* A Load that has added an instance has yet to tick its field off. *)
AtAdded ==
  \A l \in Load : pc[l] = "added" => at[l] \in left[l] \cap Variant

(* A step of one Load. *)
LoadStep(l) ==
  \/ Begin(l) \/ Touched(l) \/ Refused(l) \/ Swap(l) \/ Return(l)
  \/ \E f \in Field : Skip(l, f) \/ CannotBind(l, f)
  \/ \E f \in Plain : BindPlain(l, f)
  \/ \E f \in Pointer : BindPointer(l, f)
  \/ \E f \in Variant : AddInstance(l, f)
  \/ \E m \in Family : Rollback(l, m)

-----------------------------------------------------------------------------
(* The sequences of the registries. *)
LEMMA Appended ==
  ASSUME NEW S, NEW s \in Seq(S), NEW e \in S
  PROVE  /\ Append(s, e) \in Seq(S)
         /\ Len(Append(s, e)) = Len(s) + 1
         /\ DOMAIN s = 1 .. Len(s) /\ Len(s) \in Nat
         /\ DOMAIN Append(s, e) = 1 .. (Len(s) + 1)
         /\ \A i \in 1 .. Len(s) : Append(s, e)[i] = s[i]
         /\ Append(s, e)[Len(s) + 1] = e
BY AppendProperties

LEMMA Truncated ==
  ASSUME NEW S, NEW s \in Seq(S), NEW n \in Nat, n < Len(s)
  PROVE  /\ SubSeq(s, 1, n) \in Seq(S)
         /\ Len(SubSeq(s, 1, n)) = n
         /\ DOMAIN s = 1 .. Len(s) /\ Len(s) \in Nat
         /\ DOMAIN SubSeq(s, 1, n) = 1 .. n
         /\ \A i \in 1 .. n : SubSeq(s, 1, n)[i] = s[i]
OBVIOUS

(* What TruncateInstances leaves in each registry. *)
LEMMA Truncations ==
  ASSUME Typed, NEW m \in Family, NEW n \in Nat \cup {-1, NotTouched}, TruncateInstances(m, n)
  PROVE  /\ instances' \in [Family -> Seq(Instance)]
         /\ \A g \in Family : g # m => instances'[g] = instances[g]
         /\ \/ /\ n \in Nat /\ n < Len(instances[m]) /\ Len(instances'[m]) = n
               /\ \A i \in 1 .. n : instances'[m][i] = instances[m][i]
            \/ ~(n \in Nat /\ n < Len(instances[m])) /\ instances'[m] = instances[m]
<1> USE DEF NotTouched
<1>1. CASE n \in Nat /\ n < Len(instances[m])
  <2>1. instances' = [instances EXCEPT ![m] = SubSeq(@, 1, n)]
    BY <1>1 DEF TruncateInstances, Typed
  <2>2. instances[m] \in Seq(Instance)
    BY DEF Typed
  <2>3. SubSeq(instances[m], 1, n) \in Seq(Instance)
        /\ Len(SubSeq(instances[m], 1, n)) = n
        /\ \A i \in 1 .. n : SubSeq(instances[m], 1, n)[i] = instances[m][i]
    BY <1>1, <2>2, Truncated
  <2> QED BY <1>1, <2>1, <2>3 DEF Typed
<1>2. CASE ~(n \in Nat /\ n < Len(instances[m]))
  <2>1. ~(n >= 0 /\ n < Len(instances[m]))
    BY <1>2
  <2>2. instances' = instances
    BY <2>1 DEF TruncateInstances, Typed
  <2> QED BY <1>2, <2>2 DEF Typed
<1> QED BY <1>1, <1>2

(* Settling a Load changes nothing but whose attempt an instance is. *)
LEMMA Settling ==
  ASSUME Typed, NEW l \in Load
  PROVE  /\ Settled(l) \in [Family -> Seq(Instance)]
         /\ \A m \in Family :
              /\ Len(Settled(l)[m]) = Len(instances[m])
              /\ \A i \in 1 .. Len(instances[m]) :
                   /\ Settled(l)[m][i].sel = instances[m][i].sel
                   /\ Settled(l)[m][i].by = IF instances[m][i].by = l THEN NoLoad
                                                                     ELSE instances[m][i].by
<1>1. ASSUME NEW m \in Family
      PROVE  /\ Settled(l)[m] \in Seq(Instance)
             /\ Len(Settled(l)[m]) = Len(instances[m])
             /\ \A i \in 1 .. Len(instances[m]) :
                  /\ Settled(l)[m][i].sel = instances[m][i].sel
                  /\ Settled(l)[m][i].by = IF instances[m][i].by = l THEN NoLoad
                                                                    ELSE instances[m][i].by
  <2>1. instances[m] \in Seq(Instance)
    BY <1>1 DEF Typed
  <2> DEFINE n == Len(instances[m])
             F(i) == IF instances[m][i].by = l THEN [instances[m][i] EXCEPT !.by = NoLoad]
                                               ELSE instances[m][i]
  <2>2. n \in Nat /\ DOMAIN instances[m] = 1 .. n
    BY <2>1
  <2>3. Settled(l)[m] = [i \in 1 .. n |-> F(i)]
    BY <1>1, <2>2 DEF Settled
  <2>4. ASSUME NEW i \in 1 .. n
        PROVE  /\ F(i) \in Instance /\ F(i).sel = instances[m][i].sel
               /\ F(i).by = IF instances[m][i].by = l THEN NoLoad ELSE instances[m][i].by
    <3>1. instances[m][i] \in Instance
      BY <2>1, <2>2
    <3> QED BY <3>1 DEF Instance
  <2> HIDE DEF F
  <2>5. [i \in 1 .. n |-> F(i)] \in Seq(Instance) /\ Len([i \in 1 .. n |-> F(i)]) = n
    BY <2>2, <2>4
  <2> QED BY <2>3, <2>4, <2>5
<1>2. DOMAIN Settled(l) = Family /\ Settled(l) = [m \in Family |-> Settled(l)[m]]
  BY DEF Settled
<1> QED BY <1>1, <1>2

-----------------------------------------------------------------------------
(* The types. *)
LEMMA Constants ==
  /\ EmptyTree \in Tree /\ Unset \in [Field -> Held]
  /\ Passed \subseteq [Field -> Held]
  /\ \A t \in Tree, f \in Field : t[f] \in Node(f)
  /\ Plain \subseteq Field /\ Pointer \subseteq Field /\ Variant \subseteq Field
  /\ Val \subseteq Held /\ SelectorSet \subseteq Held
  /\ Absent \notin SelectorSet /\ NoLoad \notin Load
  /\ \A f \in Variant : FamilyOf[f] \in Family
  /\ \A l \in Load : [sel : SelectorSet, by : {l}] \subseteq Instance
<1>1. \A f \in Field : Absent \in Node(f)
  BY DEF Node
<1>2. EmptyTree \in Tree
  BY <1>1 DEF EmptyTree, Tree
<1>3. Passed \subseteq [Field -> Held]
  BY DEF Passed, Held
<1> QED BY <1>2, <1>3, FieldAssumption DEF Unset, Tree, Field, Held, Instance

LEMMA TypedStep ==
  ASSUME Typed, AtAdded, Next
  PROVE  Typed' /\ AtAdded'
<1> PICK l \in Load : LoadStep(l)
  BY DEF Next, LoadStep
<1> USE DEF LoadStep
<1>1. CASE Begin(l)
  BY <1>1, Constants DEF Begin, Typed, AtAdded
<1>2. CASE Touched(l)
  <2>1. at[l] \in Variant /\ FamilyOf[at[l]] \in Family
    BY <1>2, Constants DEF Touched, AtAdded
  <2>2. Len(instances[FamilyOf[at[l]]]) \in Nat
    BY <2>1 DEF Typed
  <2>3. before' \in [Load -> [Family -> Nat \cup {-1, NotTouched}]]
    BY <1>2, <2>1, <2>2 DEF Touched, Typed
  <2> QED BY <1>2, <2>3 DEF Touched, Typed, AtAdded
<1>3. CASE Refused(l)
  BY <1>3 DEF Refused, Fail, Typed, AtAdded
<1> DEFINE ButDst == /\ pc' \in [Load -> {"idle", "binding", "added", "failed"}]
                     /\ tree' \in [Load -> Tree]
                     /\ left' \in [Load -> SUBSET Field]
                     /\ at' \in [Load -> Variant \cup {Nil}]
                     /\ temp' \in [Load -> [Field -> Held]]
                     /\ passed' \in [Load -> [Field -> Held]]
                     /\ instances' \in [Family -> Seq(Instance)]
                     /\ before' \in [Load -> [Family -> Nat \cup {-1, NotTouched}]]
<1>4. ASSUME Forget(l) PROVE ButDst /\ AtAdded'
  <2>1. instances' \in [Family -> Seq(Instance)]
    BY <1>4, Settling DEF Forget
  <2>2. before' \in [Load -> [Family -> Nat \cup {-1, NotTouched}]]
    BY <1>4 DEF Forget, Typed
  <2>3. temp' \in [Load -> [Field -> Held]] /\ passed' \in [Load -> [Field -> Held]]
    BY <1>4, Constants DEF Forget, Typed
  <2>4. tree' \in [Load -> Tree]
    BY <1>4, Constants DEF Forget, Typed
  <2>5. pc' \in [Load -> {"idle", "binding", "added", "failed"}] /\ left' \in [Load -> SUBSET Field]
    BY <1>4 DEF Forget, Typed
  <2>6. at' \in [Load -> Variant \cup {Nil}]
    BY <1>4 DEF Forget, Typed
  <2>7. AtAdded'
    BY <1>4 DEF Forget, Typed, AtAdded
  <2> QED BY <2>1, <2>2, <2>3, <2>4, <2>5, <2>6, <2>7
<1>5. CASE Swap(l)
  <2>1. dst' \in [Load -> [Field -> Held]]
    BY <1>5 DEF Swap, Typed
  <2>2. Forget(l)
    BY <1>5 DEF Swap
  <2>3. ButDst /\ AtAdded'
    <3> HIDE DEF ButDst
    <3> QED BY <1>4, <2>2
  <2> QED BY <2>1, <2>3 DEF Typed
<1>6. CASE Return(l)
  <2>1. dst' \in [Load -> [Field -> Held]]
    BY <1>6 DEF Return, Typed
  <2>2. Forget(l)
    BY <1>6 DEF Return
  <2>3. ButDst /\ AtAdded'
    <3> HIDE DEF ButDst
    <3> QED BY <1>4, <2>2
  <2> QED BY <2>1, <2>3 DEF Typed
<1>7. ASSUME NEW f \in Field, Skip(l, f) \/ CannotBind(l, f) PROVE Typed' /\ AtAdded'
  <2>1. pc[l] = "binding" /\ (Fail(l) \/ Done(l, f))
    BY <1>7 DEF Skip, CannotBind, Coming
  <2>2. UNCHANGED <<tree, at, dst, temp, instances, before, passed>>
    BY <1>7 DEF Skip, CannotBind
  <2> QED BY <2>1, <2>2 DEF Fail, Done, Typed, AtAdded
<1>8. ASSUME NEW f \in Plain, BindPlain(l, f) PROVE Typed' /\ AtAdded'
  <2>1. temp' \in [Load -> [Field -> Held]]
    BY <1>8, Constants DEF BindPlain, Typed
  <2>2. pc[l] = "binding" /\ (Fail(l) \/ Done(l, f))
    BY <1>8 DEF BindPlain, Coming
  <2>3. UNCHANGED <<tree, at, dst, instances, before, passed>>
    BY <1>8 DEF BindPlain
  <2>4. /\ pc' \in [Load -> {"idle", "binding", "added", "failed"}] /\ left' \in [Load -> SUBSET Field]
        /\ AtAdded'
    BY <2>2, <2>3 DEF Fail, Done, Typed, AtAdded
  <2> QED BY <2>1, <2>3, <2>4 DEF Typed
<1>9. ASSUME NEW f \in Pointer, BindPointer(l, f) PROVE Typed' /\ AtAdded'
  <2>1. temp' \in [Load -> [Field -> Held]] /\ dst' \in [Load -> [Field -> Held]]
    BY <1>9, Constants DEF BindPointer, Typed
  <2>2. Fail(l) \/ Done(l, f)
    BY <1>9 DEF BindPointer
  <2>3. /\ pc' \in [Load -> {"idle", "binding", "added", "failed"}] /\ left' \in [Load -> SUBSET Field]
        /\ AtAdded'
    BY <1>9, <2>2 DEF BindPointer, Coming, Fail, Done, Typed, AtAdded
  <2> QED BY <1>9, <2>1, <2>3 DEF BindPointer, Typed
<1>10. ASSUME NEW f \in Variant, AddInstance(l, f) PROVE Typed' /\ AtAdded'
  <2> DEFINE m == FamilyOf[f]
  <2>1. temp' \in [Load -> [Field -> Held]]
    BY <1>10, Constants DEF AddInstance, Typed
  <2>2. m \in Family /\ tree[l][f] \in SelectorSet
    BY <1>10, Constants DEF AddInstance
  <2>3. [sel |-> tree[l][f], by |-> l] \in Instance
    BY <2>2 DEF Instance
  <2>4. Append(instances[m], [sel |-> tree[l][f], by |-> l]) \in Seq(Instance)
    BY <2>2, <2>3 DEF Typed
  <2>5. instances' \in [Family -> Seq(Instance)]
    BY <1>10, <2>2, <2>4 DEF AddInstance, Typed
  <2>6. /\ pc' \in [Load -> {"idle", "binding", "added", "failed"}] /\ at' \in [Load -> Variant \cup {Nil}]
        /\ left' = left /\ AtAdded'
    <3>1. CASE Fail(l) /\ at' = at
      BY <1>10, <3>1 DEF Fail, Typed, AtAdded
    <3>2. CASE /\ at' = [at EXCEPT ![l] = f]
               /\ pc' = [pc EXCEPT ![l] = "added"] /\ left' = left
      <4>1. f \in left[l]
        BY <1>10 DEF AddInstance, Coming
      <4> QED BY <3>2, <4>1 DEF Typed, AtAdded
    <3> QED BY <1>10, <3>1, <3>2 DEF AddInstance
  <2> QED BY <1>10, <2>1, <2>5, <2>6 DEF AddInstance, Typed
<1>11. ASSUME NEW m \in Family, Rollback(l, m) PROVE Typed' /\ AtAdded'
  <2>1. before[l][m] \in Nat \cup {-1, NotTouched}
    BY DEF Typed
  <2>2. instances' \in [Family -> Seq(Instance)]
    BY <1>11, <2>1, Truncations DEF Rollback
  <2> QED BY <1>11, <2>2 DEF Rollback, Typed, AtAdded
<1> QED BY <1>1, <1>2, <1>3, <1>5, <1>6, <1>7, <1>8, <1>9, <1>10, <1>11

LEMMA TypedStutters ==
  ASSUME Typed, AtAdded, UNCHANGED vars
  PROVE  Typed' /\ AtAdded'
BY DEF Typed, AtAdded, vars

LEMMA TypedInitially == Init => Typed /\ AtAdded
BY Constants DEF Init, Typed, AtAdded

LEMMA AlwaysTyped == Spec => [](Typed /\ AtAdded)
BY TypedInitially, TypedStep, TypedStutters, PTL DEF Spec

-----------------------------------------------------------------------------
(* What the steps do to the registries. *)
LEMMA Registered ==
  ASSUME Typed, NEW m \in Family
  PROVE  /\ instances[m] \in Seq(Instance) /\ Len(instances[m]) \in Nat
         /\ DOMAIN instances[m] = 1 .. Len(instances[m])
         /\ \A i \in 1 .. Len(instances[m]) :
              instances[m][i].sel \in SelectorSet /\ instances[m][i].by \in Load \cup {NoLoad}
<1>1. instances[m] \in Seq(Instance)
  BY DEF Typed
<1>2. \A i \in 1 .. Len(instances[m]) : instances[m][i] \in Instance
  BY <1>1
<1> QED BY <1>1, <1>2 DEF Instance

LEMMA InstanceAdded ==
  ASSUME Typed, NEW l \in Load, NEW f \in Variant, AddInstance(l, f),
         ~Duplicate(FamilyOf[f], tree[l][f])
  PROVE  /\ FamilyOf[f] \in Family /\ tree[l][f] \in SelectorSet
         /\ \A g \in Family : g # FamilyOf[f] => instances'[g] = instances[g]
         /\ Len(instances'[FamilyOf[f]]) = Len(instances[FamilyOf[f]]) + 1
         /\ DOMAIN instances'[FamilyOf[f]] = 1 .. (Len(instances[FamilyOf[f]]) + 1)
         /\ \A i \in 1 .. Len(instances[FamilyOf[f]]) :
              instances'[FamilyOf[f]][i] = instances[FamilyOf[f]][i]
         /\ instances'[FamilyOf[f]][Len(instances[FamilyOf[f]]) + 1] = [sel |-> tree[l][f], by |-> l]
         /\ pc' = [pc EXCEPT ![l] = "added"] /\ at' = [at EXCEPT ![l] = f]
         /\ UNCHANGED <<tree, left, before>>
<1> DEFINE m == FamilyOf[f]
           new == [sel |-> tree[l][f], by |-> l]
<1>1. m \in Family /\ tree[l][f] \in SelectorSet
  BY Constants DEF AddInstance
<1>2. instances' = [instances EXCEPT ![m] = Append(@, new)]
  BY DEF AddInstance
<1>3. instances[m] \in Seq(Instance) /\ new \in Instance
  BY <1>1 DEF Typed, Instance
<1>4. /\ \A g \in Family : g # m => instances'[g] = instances[g]
      /\ instances'[m] = Append(instances[m], new)
  BY <1>1, <1>2 DEF Typed
<1>5. /\ Len(instances'[m]) = Len(instances[m]) + 1
      /\ DOMAIN instances'[m] = 1 .. (Len(instances[m]) + 1)
      /\ \A i \in 1 .. Len(instances[m]) : instances'[m][i] = instances[m][i]
      /\ instances'[m][Len(instances[m]) + 1] = new
  BY <1>3, <1>4, Appended
<1> QED BY <1>1, <1>4, <1>5 DEF AddInstance

LEMMA InstanceRefused ==
  ASSUME NEW l \in Load, NEW f \in Variant, AddInstance(l, f),
         Duplicate(FamilyOf[f], tree[l][f])
  PROVE  Fail(l) /\ UNCHANGED <<instances, before, tree, at>>
BY DEF AddInstance

(* The steps that leave the registries alone. *)
LEMMA RegistriesStay ==
  ASSUME NEW l \in Load,
         \/ Begin(l) \/ Touched(l) \/ Refused(l)
         \/ \E f \in Field : Skip(l, f) \/ CannotBind(l, f)
         \/ \E f \in Plain : BindPlain(l, f)
         \/ \E f \in Pointer : BindPointer(l, f)
  PROVE  UNCHANGED instances
BY DEF Begin, Touched, Refused, Skip, CannotBind, BindPlain, BindPointer

-----------------------------------------------------------------------------
(* The caller's struct. *)

(* Until the swap the struct differs from what was passed only behind the  *)
(* pointers that were passed, and there it holds what the file says.       *)
OnlySharedWritten ==
  \A l \in Load, f \in Field :
    pc[l] # "idle" /\ dst[l][f] # passed[l][f] =>
      f \in Pointer /\ passed[l][f] # Nil /\ dst[l][f] = tree[l][f]

(* A pointer that has yet to be bound leads where the caller's leads: when *)
(* that is nowhere, the copy gets a value of its own.                      *)
PointersAsPassed ==
  \A l \in Load, f \in Pointer :
    pc[l] \in {"binding", "added"} /\ f \in left[l] => temp[l][f] = passed[l][f]

LEMMA StructStep ==
  ASSUME Typed, AtAdded, OnlySharedWritten, PointersAsPassed, Next
  PROVE  OnlySharedWritten' /\ PointersAsPassed'
<1> PICK l \in Load : LoadStep(l)
  BY DEF Next, LoadStep
<1> USE DEF LoadStep
<1>1. CASE Begin(l)
  <2>1. PICK d \in Passed : /\ dst' = [dst EXCEPT ![l] = d] /\ passed' = [passed EXCEPT ![l] = d]
                            /\ temp' = [temp EXCEPT ![l] = d]
    BY <1>1 DEF Begin
  <2>2. \A k \in Load : k # l => pc'[k] = pc[k] /\ left'[k] = left[k] /\ tree'[k] = tree[k]
    BY <1>1 DEF Begin, Typed
  <2>3. \A k \in Load : k # l => dst'[k] = dst[k] /\ passed'[k] = passed[k] /\ temp'[k] = temp[k]
    BY <2>1 DEF Typed
  <2>4. dst'[l] = d /\ passed'[l] = d /\ temp'[l] = d
    BY <2>1 DEF Typed
  <2>5. OnlySharedWritten'
    BY <2>2, <2>3, <2>4 DEF OnlySharedWritten
  <2>6. PointersAsPassed'
    BY <2>2, <2>3, <2>4 DEF PointersAsPassed
  <2> QED BY <2>5, <2>6
<1>2. CASE Touched(l)
  BY <1>2 DEF Touched, Typed, OnlySharedWritten, PointersAsPassed
<1>3. CASE Refused(l)
  BY <1>3 DEF Refused, Fail, Typed, OnlySharedWritten, PointersAsPassed
<1>4. CASE Swap(l) \/ Return(l)
  <2>1. pc'[l] = "idle"
    BY <1>4 DEF Swap, Return, Forget, Typed
  <2>2. \A k \in Load : k # l => /\ pc'[k] = pc[k] /\ left'[k] = left[k] /\ tree'[k] = tree[k]
                                 /\ dst'[k] = dst[k] /\ passed'[k] = passed[k] /\ temp'[k] = temp[k]
    BY <1>4 DEF Swap, Return, Forget, Typed
  <2>3. OnlySharedWritten'
    BY <2>1, <2>2 DEF OnlySharedWritten
  <2>4. PointersAsPassed'
    BY <2>1, <2>2 DEF PointersAsPassed
  <2> QED BY <2>3, <2>4
<1>5. ASSUME NEW f \in Field, Skip(l, f) \/ CannotBind(l, f)
      PROVE  OnlySharedWritten' /\ PointersAsPassed'
  <2>1. pc[l] = "binding" /\ (Fail(l) \/ Done(l, f)) /\ UNCHANGED <<tree, dst, temp, passed>>
    BY <1>5 DEF Skip, CannotBind, Coming
  <2>2. /\ \A k \in Load : k # l => pc'[k] = pc[k] /\ left'[k] = left[k]
        /\ pc'[l] \in {"binding", "added"} => pc'[l] = pc[l]
        /\ left'[l] \subseteq left[l]
    BY <2>1 DEF Fail, Done, Typed
  <2>3. OnlySharedWritten'
    <3>1. \A k \in Load : pc'[k] # "idle" => pc[k] # "idle"
      BY <2>1, <2>2
    <3> QED BY <2>1, <3>1 DEF OnlySharedWritten
  <2>4. PointersAsPassed'
    BY <2>1, <2>2 DEF PointersAsPassed
  <2> QED BY <2>3, <2>4
<1>6. ASSUME NEW f \in Plain, BindPlain(l, f) PROVE OnlySharedWritten' /\ PointersAsPassed'
  <2>1. pc[l] = "binding" /\ (Fail(l) \/ Done(l, f)) /\ UNCHANGED <<tree, dst, passed>>
    BY <1>6 DEF BindPlain, Coming
  <2>2. \A k \in Load, g \in Pointer : temp'[k][g] = temp[k][g]
    BY <1>6, FieldAssumption DEF BindPlain, Typed
  <2>3. /\ \A k \in Load : k # l => pc'[k] = pc[k] /\ left'[k] = left[k]
        /\ pc'[l] \in {"binding", "added"} => pc'[l] = pc[l]
        /\ left'[l] \subseteq left[l]
    BY <2>1 DEF Fail, Done, Typed
  <2>4. OnlySharedWritten'
    <3>1. \A k \in Load : pc'[k] # "idle" => pc[k] # "idle"
      BY <2>1, <2>3
    <3> QED BY <2>1, <3>1 DEF OnlySharedWritten
  <2>5. PointersAsPassed'
    BY <2>1, <2>2, <2>3 DEF PointersAsPassed
  <2> QED BY <2>4, <2>5
<1>7. ASSUME NEW f \in Pointer, BindPointer(l, f)
      PROVE  OnlySharedWritten' /\ PointersAsPassed'
  <2>1. /\ pc[l] = "binding" /\ f \in left[l] /\ f \in Field
        /\ (Fail(l) \/ Done(l, f)) /\ UNCHANGED <<tree, passed>>
    BY <1>7, Constants DEF BindPointer, Coming
  <2>2. temp[l][f] = passed[l][f]
    BY <2>1 DEF PointersAsPassed
  <2>3. \A k \in Load, g \in Field :
          dst'[k][g] = dst[k][g] \/ (k = l /\ g \in Pointer /\ passed[l][g] # Nil /\ dst'[l][g] = tree[l][g])
    <3>1. CASE temp[l][f] = Nil
      BY <1>7, <3>1 DEF BindPointer
    <3>2. CASE temp[l][f] # Nil
      <4>1. dst' = [dst EXCEPT ![l][f] = tree[l][f]]
        BY <1>7, <3>2 DEF BindPointer
      <4>2. \A k \in Load, g \in Field : k # l \/ g # f => dst'[k][g] = dst[k][g]
        BY <4>1 DEF Typed
      <4>3. dst'[l][f] = tree[l][f]
        BY <2>1, <4>1 DEF Typed
      <4> QED BY <2>2, <3>2, <4>2, <4>3
    <3> QED BY <3>1, <3>2
  <2>4. \A k \in Load, g \in Pointer : k # l \/ g # f => temp'[k][g] = temp[k][g]
    BY <1>7 DEF BindPointer, Typed
  <2>5. /\ \A k \in Load : k # l => pc'[k] = pc[k] /\ left'[k] = left[k]
        /\ pc'[l] \in {"binding", "added"} => pc'[l] = pc[l] /\ left'[l] = left[l] \ {f}
    BY <2>1 DEF Fail, Done, Typed
  <2>6. OnlySharedWritten'
    <3>1. \A k \in Load : pc'[k] # "idle" => pc[k] # "idle"
      BY <2>1, <2>5
    <3> QED BY <2>1, <2>3, <3>1 DEF OnlySharedWritten
  <2>7. PointersAsPassed'
    <3> SUFFICES ASSUME NEW k \in Load, NEW g \in Pointer,
                        pc'[k] \in {"binding", "added"}, g \in left'[k]
                 PROVE  temp'[k][g] = passed'[k][g]
      BY DEF PointersAsPassed
    <3>1. pc[k] = pc'[k] /\ g \in left[k] /\ (k # l \/ g # f)
      BY <2>5
    <3> QED BY <2>1, <2>4, <3>1 DEF PointersAsPassed
  <2> QED BY <2>6, <2>7
<1>8. ASSUME NEW f \in Variant, AddInstance(l, f)
      PROVE  OnlySharedWritten' /\ PointersAsPassed'
  <2>1. /\ pc[l] = "binding" /\ left' = left /\ UNCHANGED <<tree, dst, passed>>
        /\ Fail(l) \/ pc' = [pc EXCEPT ![l] = "added"]
    BY <1>8 DEF AddInstance, Coming, Fail
  <2>2. \A k \in Load, g \in Pointer : temp'[k][g] = temp[k][g]
    BY <1>8, FieldAssumption DEF AddInstance, Typed
  <2> QED BY <2>1, <2>2 DEF Fail, Typed, OnlySharedWritten, PointersAsPassed
<1>9. ASSUME NEW m \in Family, Rollback(l, m) PROVE OnlySharedWritten' /\ PointersAsPassed'
  BY <1>9 DEF Rollback, OnlySharedWritten, PointersAsPassed
<1> QED BY <1>1, <1>2, <1>3, <1>4, <1>5, <1>6, <1>7, <1>8, <1>9

(* Whatever the caller passes, however many fields a Load has bound and    *)
(* however many Loads run at the same time: one that fails has written     *)
(* nothing of its caller's but behind the pointers it was given.           *)
THEOREM FailuresLeaveTheStruct == Spec => []FailuresReachOnlyShared
<1>1. Init => OnlySharedWritten /\ PointersAsPassed
  BY DEF Init, OnlySharedWritten, PointersAsPassed
<1>2. ASSUME Typed /\ AtAdded, OnlySharedWritten /\ PointersAsPassed, [Next]_vars
      PROVE  (OnlySharedWritten /\ PointersAsPassed)'
  <2>1. CASE UNCHANGED vars
    BY <1>2, <2>1 DEF vars, OnlySharedWritten, PointersAsPassed
  <2> QED BY <1>2, <2>1, StructStep
<1>3. OnlySharedWritten => FailuresReachOnlyShared
  BY DEF OnlySharedWritten, FailuresReachOnlyShared
<1> QED BY <1>1, <1>2, <1>3, AlwaysTyped, PTL DEF Spec

-----------------------------------------------------------------------------
(* The registries answer. *)
ToldApart(a, b) == \E want \in SelectorSet : ~(MatchesAll(a, want) <=> MatchesAll(b, want))

Apart ==
  \A m \in Family : \A i, j \in DOMAIN instances[m] :
    i # j => ToldApart(instances[m][i].sel, instances[m][j].sel)

(* Selectors that AddInstance does not take for equal are told apart by    *)
(* asking for one of them.                                                 *)
LEMMA UnequalAreApart ==
  ASSUME NEW a \in SelectorSet, NEW b \in SelectorSet, ~EqualSelectors(a, b)
  PROVE  ToldApart(a, b) /\ ToldApart(b, a)
<1>1. ASSUME MatchesAll(a, b), MatchesAll(b, a) PROVE FALSE
  <2>1. \A k \in DOMAIN a : Lookup(b, k) = a[k]
    BY <1>1 DEF MatchesAll
  <2>2. \A k \in DOMAIN b : Lookup(a, k) = b[k]
    BY <1>1 DEF MatchesAll
  <2>3. \A k \in DOMAIN a \cap DOMAIN b : a[k] = b[k]
    BY <2>1 DEF Lookup
  <2>4. DOMAIN a \ DOMAIN b = {}
    BY <2>1, <2>3, SelectorAssumption DEF Lookup
  <2>5. DOMAIN b \ DOMAIN a = {}
    BY <2>2, <2>3, SelectorAssumption DEF Lookup
  <2>6. DOMAIN a = DOMAIN b
    BY <2>4, <2>5
  <2> QED BY <2>1, <2>6 DEF EqualSelectors
<1>2. MatchesAll(a, a) /\ MatchesAll(b, b)
  BY DEF MatchesAll, Lookup
<1> QED BY <1>1, <1>2 DEF ToldApart

LEMMA ApartStep ==
  ASSUME Typed, AtAdded, Apart, Next
  PROVE  Apart'
<1> PICK l \in Load : LoadStep(l)
  BY DEF Next, LoadStep
<1> USE DEF LoadStep
<1>1. ASSUME UNCHANGED instances PROVE Apart'
  BY <1>1 DEF Apart
<1>2. ASSUME Forget(l) PROVE Apart'
  <2>1. instances' = Settled(l)
    BY <1>2 DEF Forget
  <2>2. \A m \in Family : DOMAIN instances[m] = 1 .. Len(instances[m])
    BY DEF Typed
  <2>3. \A m \in Family : DOMAIN Settled(l)[m] = 1 .. Len(Settled(l)[m])
    BY Settling
  <2> QED BY <2>1, <2>2, <2>3, Settling DEF Apart
<1>3. ASSUME NEW f \in Variant, AddInstance(l, f) PROVE Apart'
  <2> DEFINE m == FamilyOf[f]
             new == [sel |-> tree[l][f], by |-> l]
  <2>1. m \in Family /\ tree[l][f] \in SelectorSet
    BY <1>3, Constants DEF AddInstance
  <2>2. CASE Duplicate(m, tree[l][f])
    BY <1>1, <1>3, <2>2 DEF AddInstance
  <2>3. CASE ~Duplicate(m, tree[l][f])
    <3>1. /\ \A g \in Family : g # m => instances'[g] = instances[g]
          /\ DOMAIN instances[m] = 1 .. Len(instances[m]) /\ Len(instances[m]) \in Nat
          /\ DOMAIN instances'[m] = 1 .. (Len(instances[m]) + 1)
          /\ \A i \in 1 .. Len(instances[m]) : instances'[m][i] = instances[m][i]
          /\ instances'[m][Len(instances[m]) + 1] = new
      BY <1>3, <2>1, <2>3, InstanceAdded, Registered
    <3>2. \A i \in DOMAIN instances[m] :
            /\ ToldApart(instances[m][i].sel, new.sel)
            /\ ToldApart(new.sel, instances[m][i].sel)
      <4> TAKE i \in DOMAIN instances[m]
      <4>1. instances[m][i].sel \in SelectorSet
        BY <2>1, Registered
      <4>2. ~EqualSelectors(instances[m][i].sel, tree[l][f])
        BY <2>3 DEF Duplicate
      <4> QED BY <2>1, <4>1, <4>2, UnequalAreApart
    <3>3. ASSUME NEW i \in DOMAIN instances'[m], NEW j \in DOMAIN instances'[m], i # j
          PROVE  ToldApart(instances'[m][i].sel, instances'[m][j].sel)
      <4> HIDE DEF new
      <4>1. CASE i \in DOMAIN instances[m] /\ j \in DOMAIN instances[m]
        <5>1. ToldApart(instances[m][i].sel, instances[m][j].sel)
          BY <2>1, <3>3, <4>1 DEF Apart
        <5> QED BY <3>1, <4>1, <5>1
      <4>2. CASE i = Len(instances[m]) + 1
        <5>1. j \in DOMAIN instances[m] /\ instances'[m][j] = instances[m][j]
          BY <3>1, <3>3, <4>2
        <5>2. instances'[m][i] = new
          BY <3>1, <4>2
        <5> QED BY <3>2, <5>1, <5>2
      <4>3. CASE j = Len(instances[m]) + 1
        <5>1. i \in DOMAIN instances[m] /\ instances'[m][i] = instances[m][i]
          BY <3>1, <3>3, <4>3
        <5>2. instances'[m][j] = new
          BY <3>1, <4>3
        <5> QED BY <3>2, <5>1, <5>2
      <4> QED BY <3>1, <4>1, <4>2, <4>3
    <3> QED BY <3>1, <3>3 DEF Apart
  <2> QED BY <2>2, <2>3
<1>4. ASSUME NEW m \in Family, Rollback(l, m) PROVE Apart'
  <2>1. before[l][m] \in Nat \cup {-1, NotTouched}
    BY DEF Typed
  <2>2. /\ \A g \in Family : DOMAIN instances[g] = 1 .. Len(instances[g]) /\ Len(instances[g]) \in Nat
        /\ instances' \in [Family -> Seq(Instance)]
        /\ \A g \in Family : DOMAIN instances'[g] = 1 .. Len(instances'[g])
    BY <1>4, <2>1, Truncations DEF Rollback, Typed
  <2>3. \A g \in Family : /\ DOMAIN instances'[g] \subseteq DOMAIN instances[g]
                           /\ \A i \in DOMAIN instances'[g] : instances'[g][i] = instances[g][i]
    <3> TAKE g \in Family
    <3>1. CASE g # m
      BY <1>4, <2>1, <3>1, Truncations DEF Rollback
    <3>2. CASE g = m
      <4>1. CASE instances'[m] = instances[m]
        BY <3>2, <4>1
      <4>2. CASE /\ before[l][m] \in Nat /\ before[l][m] < Len(instances[m])
                 /\ Len(instances'[m]) = before[l][m]
                 /\ \A i \in 1 .. before[l][m] : instances'[m][i] = instances[m][i]
        <5>1. DOMAIN instances'[m] = 1 .. before[l][m]
          BY <2>2, <4>2
        <5> QED BY <2>2, <3>2, <4>2, <5>1
      <4> QED BY <1>4, <2>1, <4>1, <4>2, Truncations DEF Rollback
    <3> QED BY <3>1, <3>2
  <2> QED BY <2>3 DEF Apart
<1>5. ASSUME NEW f \in Field, Skip(l, f) \/ CannotBind(l, f) \/ BindPlain(l, f) \/ BindPointer(l, f)
      PROVE  UNCHANGED instances
  BY <1>5 DEF Skip, CannotBind, BindPlain, BindPointer
<1>6. Plain \subseteq Field /\ Pointer \subseteq Field
  BY DEF Field
<1> QED BY <1>1, <1>2, <1>3, <1>4, <1>5, <1>6 DEF Begin, Touched, Refused, Swap, Return

(* Whatever Loads run, at once or one after another, and however they      *)
(* fail, no two registered instances answer the same queries: a program    *)
(* can always ask for one of them alone or learn that the other is there.  *)
THEOREM InstancesAreDistinguishable == Spec => []Distinguishable
<1>1. Init => Apart
  BY DEF Init, Apart
<1>2. ASSUME Typed /\ AtAdded, Apart, [Next]_vars PROVE Apart'
  <2>1. CASE UNCHANGED vars
    BY <1>2, <2>1 DEF vars, Apart
  <2> QED BY <1>2, <2>1, ApartStep
<1>3. Apart => Distinguishable
  BY DEF Apart, Distinguishable, ToldApart, Matches
<1> QED BY <1>1, <1>2, <1>3, AlwaysTyped, PTL DEF Spec

-----------------------------------------------------------------------------
(* A Load that is alone knows which instances are its own. *)
Lone == \A k, l \in Load : pc[k] # "idle" /\ pc[l] # "idle" => k = l

JustAdded(l, m) == pc[l] = "added" /\ FamilyOf[at[l]] = m

(* How many of a registry's instances were there before the Load's first. *)
Mark(l, m) ==
  IF before[l][m] # NotTouched THEN before[l][m]
  ELSE IF JustAdded(l, m) THEN Len(instances[m]) - 1 ELSE Len(instances[m])

OwnComeLast(l) ==
  \A m \in Family :
    /\ Mark(l, m) \in 0 .. Len(instances[m])
    /\ \A i \in 1 .. Len(instances[m]) : instances[m][i].by = l <=> Mark(l, m) < i
    /\ before[l][m] # NotTouched => pc[l] # "idle"
    /\ before[l][m] # NotTouched \/ JustAdded(l, m) => Mark(l, m) < Len(instances[m])

(* Its instances are variants of its tree ... *)
OwnAreWanted(l) ==
  \A m \in Family : \A i \in 1 .. Len(instances[m]) :
    instances[m][i].by = l =>
      \E f \in Variant : FamilyOf[f] = m /\ tree[l][f] = instances[m][i].sel

(* ... and those it has come to are among its instances. *)
CameTo(l, f) ==
  \/ pc[l] = "binding" /\ f \notin left[l] /\ tree[l][f] # Absent
  \/ pc[l] = "added" /\ f \notin left[l] /\ tree[l][f] # Absent
  \/ pc[l] = "added" /\ f = at[l]

Has(l, f) ==
  \E i \in 1 .. Len(instances[FamilyOf[f]]) :
    instances[FamilyOf[f]][i].by = l /\ instances[FamilyOf[f]][i].sel = tree[l][f]

WantedAreOwn(l) == \A f \in Variant : CameTo(l, f) => Has(l, f)

Attempt(l) == OwnComeLast(l) /\ OwnAreWanted(l) /\ WantedAreOwn(l)

Attempts == Lone /\ \A l \in Load : Attempt(l)

(* No instance of the registries is the attempt of that Load. *)
OwnsNothing(k) ==
  /\ pc[k] = "idle"
  /\ \A m \in Family : before[k][m] = NotTouched
  /\ \A m \in Family : \A i \in 1 .. Len(instances[m]) : instances[m][i].by # k

LEMMA IdleOwnsNothing ==
  ASSUME Typed, NEW k \in Load, Attempt(k), pc[k] = "idle"
  PROVE  OwnsNothing(k)
BY Registered DEF Attempt, OwnComeLast, Mark, JustAdded, OwnsNothing

(* While a Load takes a step, every other is idle and owns nothing. *)
LEMMA OthersAreIdle ==
  ASSUME ~Concurrent, Typed, Attempts, NEW l \in Load, LoadStep(l), NEW k \in Load, k # l
  PROVE  OwnsNothing(k)
<1>1. pc[l] # "idle" \/ \A j \in Load : pc[j] = "idle"
  BY DEF LoadStep, Begin, Touched, Refused, Swap, Return, Skip, CannotBind, BindPlain, BindPointer,
         AddInstance, Rollback, Coming
<1>2. pc[k] = "idle"
  BY <1>1 DEF Attempts, Lone
<1> QED BY <1>2, IdleOwnsNothing DEF Attempts

(* A step of one Load leaves the others with nothing of their own. *)
LEMMA OthersStayIdle ==
  ASSUME ~Concurrent, Typed, AtAdded, Attempts, NEW l \in Load, LoadStep(l),
         NEW k \in Load, k # l
  PROVE  OwnsNothing(k)'
<1>1. OwnsNothing(k)
  BY OthersAreIdle
<1>2. pc'[k] = "idle" /\ \A m \in Family : before'[k][m] = NotTouched
  BY <1>1 DEF LoadStep, Begin, Touched, Refused, Swap, Return, Forget, Skip, CannotBind, BindPlain,
              BindPointer, AddInstance, Rollback, Fail, Done, Typed, OwnsNothing
<1>3. ASSUME NEW m \in Family, NEW i \in 1 .. Len(instances'[m])
      PROVE  instances'[m][i].by # k
  <2>1. ASSUME UNCHANGED instances PROVE instances'[m][i].by # k
    BY <1>1, <1>3, <2>1 DEF OwnsNothing
  <2>2. ASSUME Forget(l) PROVE instances'[m][i].by # k
    <3>1. instances' = Settled(l)
      BY <2>2 DEF Forget
    <3>2. Len(instances'[m]) = Len(instances[m])
      BY <1>3, <3>1, Settling
    <3>3. instances'[m][i].by \in {instances[m][i].by, NoLoad}
      BY <1>3, <3>1, <3>2, Settling
    <3> QED BY <1>1, <1>3, <3>2, <3>3, Constants DEF OwnsNothing
  <2>3. ASSUME NEW f \in Variant, AddInstance(l, f) PROVE instances'[m][i].by # k
    <3>1. CASE Duplicate(FamilyOf[f], tree[l][f])
      BY <2>1, <2>3, <3>1, InstanceRefused
    <3>2. CASE ~Duplicate(FamilyOf[f], tree[l][f])
      <4>1. CASE m # FamilyOf[f]
        <5>1. instances'[m] = instances[m]
          BY <1>3, <2>3, <3>2, <4>1, InstanceAdded
        <5> QED BY <1>1, <1>3, <5>1 DEF OwnsNothing
      <4>2. CASE m = FamilyOf[f] /\ i \in 1 .. Len(instances[m])
        <5>1. instances'[m][i] = instances[m][i]
          BY <2>3, <3>2, <4>2, InstanceAdded
        <5> QED BY <1>1, <4>2, <5>1 DEF OwnsNothing
      <4>3. CASE m = FamilyOf[f] /\ i \notin 1 .. Len(instances[m])
        <5>1. Len(instances[m]) \in Nat /\ Len(instances'[m]) = Len(instances[m]) + 1
          BY <1>3, <2>3, <3>2, <4>3, InstanceAdded, Registered
        <5>2. i = Len(instances[m]) + 1
          BY <1>3, <4>3, <5>1
        <5>3. instances'[m][i] = [sel |-> tree[l][f], by |-> l]
          BY <2>3, <3>2, <4>3, <5>2, InstanceAdded
        <5> QED BY <5>3
      <4> QED BY <4>1, <4>2, <4>3
    <3> QED BY <3>1, <3>2
  <2>4. ASSUME NEW g \in Family, Rollback(l, g) PROVE instances'[m][i].by # k
    <3>1. before[l][g] \in Nat \cup {-1, NotTouched}
      BY DEF Typed
    <3>2. Len(instances[m]) \in Nat
      BY Registered
    <3>3. \/ instances'[m] = instances[m]
          \/ /\ Len(instances'[m]) \in Nat /\ Len(instances'[m]) <= Len(instances[m])
             /\ \A j \in 1 .. Len(instances'[m]) : instances'[m][j] = instances[m][j]
      BY <1>3, <2>4, <3>1, <3>2, Truncations DEF Rollback
    <3>4. i \in 1 .. Len(instances[m]) /\ instances'[m][i] = instances[m][i]
      BY <1>3, <3>2, <3>3
    <3> QED BY <1>1, <1>3, <3>4 DEF OwnsNothing
  <2> QED BY <2>1, <2>2, <2>3, <2>4, RegistriesStay DEF LoadStep, Swap, Return
<1> QED BY <1>2, <1>3 DEF OwnsNothing

LEMMA NothingIsAnAttempt ==
  ASSUME Typed', NEW k \in Load, OwnsNothing(k)'
  PROVE  Attempt(k)'
<1>1. \A m \in Family : Len(instances'[m]) \in Nat
  BY DEF Typed
<1>2. OwnComeLast(k)'
  BY <1>1 DEF OwnsNothing, OwnComeLast, Mark, JustAdded
<1>3. OwnAreWanted(k)' /\ WantedAreOwn(k)'
  BY DEF OwnsNothing, OwnAreWanted, WantedAreOwn, CameTo
<1> QED BY <1>2, <1>3 DEF Attempt

(* A step that only ticks off a field, or fails. *)
LEMMA QuietStep ==
  ASSUME Typed, NEW l \in Load, Attempt(l), pc[l] = "binding",
         UNCHANGED <<tree, at, instances, before>>,
         Fail(l) \/ \E f \in Field : Done(l, f) /\ (f \in Variant => tree[l][f] = Absent)
  PROVE  Attempt(l)'
<1>1. /\ pc'[l] \in {"binding", "failed"}
      /\ \A f \in Variant : pc'[l] = "binding" /\ f \notin left'[l] /\ tree[l][f] # Absent =>
                             f \notin left[l]
  BY DEF Fail, Done, Typed
<1>2. OwnComeLast(l)'
  <2>1. \A m \in Family : /\ ~JustAdded(l, m) /\ ~(JustAdded(l, m)')
                          /\ Mark(l, m)' = Mark(l, m)
    BY <1>1 DEF JustAdded, Mark
  <2> QED BY <1>1, <2>1 DEF Attempt, OwnComeLast
<1>3. OwnAreWanted(l)'
  BY DEF Attempt, OwnAreWanted
<1>4. WantedAreOwn(l)'
  <2> SUFFICES ASSUME NEW f \in Variant, CameTo(l, f)' PROVE Has(l, f)'
    BY DEF WantedAreOwn
  <2>1. CameTo(l, f)
    BY <1>1 DEF CameTo
  <2> QED BY <2>1 DEF Attempt, WantedAreOwn, Has
<1> QED BY <1>2, <1>3, <1>4 DEF Attempt

LEMMA BeginKeeps ==
  ASSUME Typed, Typed', NEW l \in Load, Attempt(l), Begin(l)
  PROVE  Attempt(l)'
<1>1. OwnsNothing(l)
  BY IdleOwnsNothing DEF Begin
<1>2. pc'[l] = "binding" /\ left'[l] = Field /\ UNCHANGED <<instances, before>>
  BY DEF Begin, Typed
<1>3. OwnComeLast(l)'
  BY <1>1, <1>2, Registered DEF OwnsNothing, OwnComeLast, Mark, JustAdded
<1>4. OwnAreWanted(l)' /\ WantedAreOwn(l)'
  BY <1>1, <1>2, Constants DEF OwnsNothing, OwnAreWanted, WantedAreOwn, CameTo
<1> QED BY <1>3, <1>4 DEF Attempt

LEMMA TouchedKeeps ==
  ASSUME Typed, AtAdded, NEW l \in Load, Attempt(l), Touched(l)
  PROVE  Attempt(l)'
<1> DEFINE g == FamilyOf[at[l]]
<1>1. /\ pc[l] = "added" /\ at[l] \in Variant /\ g \in Family /\ JustAdded(l, g)
      /\ pc'[l] = "binding" /\ left'[l] = left[l] \ {at[l]} /\ UNCHANGED <<tree, instances>>
  BY Constants DEF Touched, AtAdded, Typed, JustAdded
<1>2. \A m \in Family : ~(JustAdded(l, m)')
  BY <1>1 DEF JustAdded
<1>3. ASSUME NEW m \in Family
      PROVE  /\ Mark(l, m)' = Mark(l, m)
             /\ before'[l][m] # NotTouched => before[l][m] # NotTouched \/ JustAdded(l, m)
  <2>1. CASE m = g
    <3>1. Len(instances[m]) \in Nat /\ Mark(l, m) < Len(instances[m])
      BY <1>1, <2>1, Registered DEF Attempt, OwnComeLast
    <3>2. before'[l][m] = IF before[l][m] # NotTouched THEN before[l][m] ELSE Len(instances[m]) - 1
      BY <1>1, <2>1 DEF Touched, Typed
    <3> QED BY <1>1, <1>2, <2>1, <3>1, <3>2 DEF Mark, JustAdded, Attempt, OwnComeLast, NotTouched
  <2>2. CASE m # g
    <3>1. before'[l][m] = before[l][m]
      BY <1>1, <2>2 DEF Touched, Typed
    <3>2. ~JustAdded(l, m)
      BY <2>2 DEF JustAdded
    <3> QED BY <1>1, <1>2, <3>1, <3>2 DEF Mark
  <2> QED BY <2>1, <2>2
<1>4. OwnComeLast(l)'
  BY <1>1, <1>2, <1>3 DEF Attempt, OwnComeLast
<1>5. OwnAreWanted(l)'
  BY <1>1 DEF Attempt, OwnAreWanted
<1>6. WantedAreOwn(l)'
  <2> SUFFICES ASSUME NEW f \in Variant, CameTo(l, f)' PROVE Has(l, f)'
    BY DEF WantedAreOwn
  <2>1. CameTo(l, f)
    BY <1>1 DEF CameTo
  <2> QED BY <1>1, <2>1 DEF Attempt, WantedAreOwn, Has
<1> QED BY <1>4, <1>5, <1>6 DEF Attempt

LEMMA AddInstanceKeeps ==
  ASSUME Typed, NEW l \in Load, NEW f \in Variant, AddInstance(l, f), Attempt(l)
  PROVE  Attempt(l)'
<1> DEFINE m == FamilyOf[f]
           n == Len(instances[m])
<1>1. pc[l] = "binding" /\ tree[l][f] \in SelectorSet
  BY DEF AddInstance, Coming
<1>2. CASE Duplicate(m, tree[l][f])
  BY <1>1, <1>2, InstanceRefused, QuietStep
<1>3. CASE ~Duplicate(m, tree[l][f])
  <2>1. /\ m \in Family /\ n \in Nat /\ UNCHANGED <<tree, left, before>>
        /\ pc'[l] = "added" /\ at'[l] = f
        /\ \A g \in Family : g # m => instances'[g] = instances[g]
        /\ Len(instances'[m]) = n + 1
        /\ \A i \in 1 .. n : instances'[m][i] = instances[m][i]
        /\ instances'[m][n + 1].sel = tree[l][f] /\ instances'[m][n + 1].by = l
    <3>1. m \in Family /\ n \in Nat
      BY Constants, Registered
    <3>2. /\ UNCHANGED <<tree, left, before>>
          /\ pc' = [pc EXCEPT ![l] = "added"] /\ at' = [at EXCEPT ![l] = f]
          /\ \A g \in Family : g # m => instances'[g] = instances[g]
          /\ Len(instances'[m]) = n + 1
          /\ \A i \in 1 .. n : instances'[m][i] = instances[m][i]
          /\ instances'[m][n + 1] = [sel |-> tree[l][f], by |-> l]
      BY <1>3, InstanceAdded
    <3>3. pc'[l] = "added" /\ at'[l] = f
      BY <3>2 DEF Typed
    <3>4. instances'[m][n + 1].sel = tree[l][f] /\ instances'[m][n + 1].by = l
      BY <3>2
    <3> QED BY <3>1, <3>2, <3>3, <3>4
  <2>2. \A g \in Family : ~JustAdded(l, g) /\ (JustAdded(l, g)' <=> g = m)
    BY <1>1, <2>1 DEF JustAdded
  <2>3. ASSUME NEW g \in Family
        PROVE  /\ Mark(l, g)' \in 0 .. Len(instances'[g])
               /\ \A i \in 1 .. Len(instances'[g]) : instances'[g][i].by = l <=> Mark(l, g)' < i
               /\ before'[l][g] # NotTouched => pc'[l] # "idle"
               /\ before'[l][g] # NotTouched \/ JustAdded(l, g)' => Mark(l, g)' < Len(instances'[g])
    <3>1. CASE g # m
      <4>1. instances'[g] = instances[g] /\ Mark(l, g)' = Mark(l, g) /\ ~(JustAdded(l, g)')
        BY <2>1, <2>2, <3>1 DEF Mark
      <4> QED BY <2>1, <4>1 DEF Attempt, OwnComeLast
    <3>2. CASE g = m
      <4>1. Mark(l, m)' = Mark(l, m)
        BY <2>1, <2>2 DEF Mark
      <4>2. /\ Mark(l, m) \in 0 .. n
            /\ \A i \in 1 .. n : instances[m][i].by = l <=> Mark(l, m) < i
        BY <2>1 DEF Attempt, OwnComeLast
      <4>3. ASSUME NEW i \in 1 .. (n + 1) PROVE instances'[m][i].by = l <=> Mark(l, m) < i
        <5>1. CASE i \in 1 .. n
          BY <2>1, <4>2, <5>1
        <5>2. CASE i = n + 1
          BY <2>1, <4>2, <5>2
        <5> QED BY <2>1, <5>1, <5>2
      <4> QED BY <2>1, <3>2, <4>1, <4>2, <4>3
    <3> QED BY <3>1, <3>2
  <2>4. OwnAreWanted(l)'
    <3> SUFFICES ASSUME NEW g \in Family, NEW i \in 1 .. Len(instances'[g]), instances'[g][i].by = l
                 PROVE  \E h \in Variant : FamilyOf[h] = g /\ tree[l][h] = instances'[g][i].sel
      BY <2>1 DEF OwnAreWanted
    <3>1. CASE g # m
      BY <2>1, <3>1 DEF Attempt, OwnAreWanted
    <3>2. CASE g = m /\ i \in 1 .. n
      BY <2>1, <3>2 DEF Attempt, OwnAreWanted
    <3>3. CASE g = m /\ i = n + 1
      BY <2>1, <3>3
    <3> QED BY <2>1, <3>1, <3>2, <3>3
  <2>5. WantedAreOwn(l)'
    <3> SUFFICES ASSUME NEW h \in Variant, CameTo(l, h)' PROVE Has(l, h)'
      BY DEF WantedAreOwn
    <3>1. CASE h = f
      BY <2>1, <3>1 DEF Has
    <3>2. CASE h # f
      <4>1. Has(l, h)
        BY <1>1, <2>1, <3>2 DEF CameTo, Attempt, WantedAreOwn
      <4>2. PICK i \in 1 .. Len(instances[FamilyOf[h]]) :
              instances[FamilyOf[h]][i].by = l /\ instances[FamilyOf[h]][i].sel = tree[l][h]
        BY <4>1 DEF Has
      <4>3. /\ FamilyOf[h] \in Family /\ Len(instances[FamilyOf[h]]) \in Nat
            /\ i \in 1 .. Len(instances'[FamilyOf[h]])
            /\ instances'[FamilyOf[h]][i] = instances[FamilyOf[h]][i]
        <5>1. FamilyOf[h] \in Family
          BY Constants
        <5>2. CASE FamilyOf[h] = m
          BY <2>1, <4>2, <5>2
        <5>3. CASE FamilyOf[h] # m
          BY <2>1, <4>2, <5>1, <5>3, Registered
        <5> QED BY <5>2, <5>3
      <4> QED BY <2>1, <4>2, <4>3 DEF Has
    <3> QED BY <3>1, <3>2
  <2> QED BY <2>3, <2>4, <2>5 DEF Attempt, OwnComeLast
<1> QED BY <1>2, <1>3

(* What a Load takes back of a registry are its own instances. *)
LEMMA RolledBack ==
  ASSUME Typed, NEW l \in Load, NEW m \in Family, Rollback(l, m), OwnComeLast(l)
  PROVE  /\ before[l][m] \in Nat /\ before[l][m] < Len(instances[m])
         /\ Len(instances'[m]) = before[l][m]
         /\ \A i \in 1 .. before[l][m] : instances'[m][i] = instances[m][i]
         /\ \A i \in 1 .. Len(instances[m]) : instances[m][i].by = l <=> before[l][m] < i
         /\ \A g \in Family : g # m => instances'[g] = instances[g]
<1>1. before[l][m] # NotTouched /\ TruncateInstances(m, before[l][m])
  BY DEF Rollback
<1>2. /\ before[l][m] \in Nat /\ before[l][m] < Len(instances[m])
      /\ \A i \in 1 .. Len(instances[m]) : instances[m][i].by = l <=> before[l][m] < i
  BY <1>1, Registered DEF OwnComeLast, Mark
<1> QED BY <1>1, <1>2, Truncations

LEMMA RollbackKeeps ==
  ASSUME Typed, NEW l \in Load, NEW m \in Family, Rollback(l, m), Attempt(l)
  PROVE  Attempt(l)'
<1>1. /\ before[l][m] \in Nat /\ before[l][m] < Len(instances[m])
      /\ Len(instances'[m]) = before[l][m]
      /\ \A i \in 1 .. before[l][m] : instances'[m][i] = instances[m][i]
      /\ \A i \in 1 .. Len(instances[m]) : instances[m][i].by = l <=> before[l][m] < i
      /\ \A g \in Family : g # m => instances'[g] = instances[g]
  BY RolledBack DEF Attempt
<1>2. /\ pc[l] = "failed" /\ UNCHANGED <<pc, tree, left, at>> /\ before'[l][m] = NotTouched
      /\ \A g \in Family : g # m => before'[l][g] = before[l][g]
  BY DEF Rollback, Typed
<1>3. ASSUME NEW g \in Family
      PROVE  /\ Mark(l, g)' \in 0 .. Len(instances'[g])
             /\ \A i \in 1 .. Len(instances'[g]) : instances'[g][i].by = l <=> Mark(l, g)' < i
             /\ before'[l][g] # NotTouched => pc'[l] # "idle"
             /\ before'[l][g] # NotTouched \/ JustAdded(l, g)' => Mark(l, g)' < Len(instances'[g])
  <2>1. ~JustAdded(l, g) /\ ~(JustAdded(l, g)')
    BY <1>2 DEF JustAdded
  <2>2. CASE g # m
    <3>1. instances'[g] = instances[g] /\ Mark(l, g)' = Mark(l, g) /\ before'[l][g] = before[l][g]
      BY <1>1, <1>2, <2>1, <2>2 DEF Mark
    <3> QED BY <1>2, <2>1, <3>1 DEF Attempt, OwnComeLast
  <2>3. CASE g = m
    <3>1. Mark(l, m)' = before[l][m]
      BY <1>1, <1>2, <2>1, <2>3 DEF Mark
    <3>2. \A i \in 1 .. before[l][m] : i \in 1 .. Len(instances[m]) /\ ~(before[l][m] < i)
      BY <1>1, Registered
    <3> QED BY <1>1, <1>2, <2>1, <2>3, <3>1, <3>2
  <2> QED BY <2>2, <2>3
<1>4. OwnAreWanted(l)'
  <2> SUFFICES ASSUME NEW g \in Family, NEW i \in 1 .. Len(instances'[g]), instances'[g][i].by = l
               PROVE  \E h \in Variant : FamilyOf[h] = g /\ tree[l][h] = instances'[g][i].sel
    BY <1>2 DEF OwnAreWanted
  <2>1. i \in 1 .. Len(instances[g]) /\ instances'[g][i] = instances[g][i]
    <3>1. CASE g # m
      BY <1>1, <3>1
    <3>2. CASE g = m
      BY <1>1, <3>2, Registered
    <3> QED BY <3>1, <3>2
  <2> QED BY <2>1 DEF Attempt, OwnAreWanted
<1>5. WantedAreOwn(l)'
  BY <1>2 DEF WantedAreOwn, CameTo
<1> QED BY <1>3, <1>4, <1>5 DEF Attempt, OwnComeLast

(* A Load that returns has nothing of its own left. *)
LEMMA ForgetKeeps ==
  ASSUME Typed, Typed', NEW l \in Load, Forget(l)
  PROVE  Attempt(l)'
<1>1. pc'[l] = "idle" /\ \A m \in Family : before'[l][m] = NotTouched
  BY DEF Forget, Typed
<1>2. \A m \in Family : \A i \in 1 .. Len(instances'[m]) : instances'[m][i].by # l
  BY Settling, Constants DEF Forget
<1> QED BY <1>1, <1>2, NothingIsAnAttempt DEF OwnsNothing

LEMMA AttemptsStep ==
  ASSUME ~Concurrent, Typed, AtAdded, Typed', Attempts, NEW l \in Load, LoadStep(l)
  PROVE  Attempts'
<1>1. \A k \in Load : k # l => OwnsNothing(k)'
  BY OthersStayIdle
<1>2. Lone'
  BY <1>1 DEF Lone, OwnsNothing
<1>3. Attempt(l)
  BY DEF Attempts
<1>4. ASSUME NEW f \in Field, f \notin Variant,
             Skip(l, f) \/ CannotBind(l, f) \/ BindPlain(l, f) \/ BindPointer(l, f)
      PROVE  Attempt(l)'
  <2>1. /\ pc[l] = "binding" /\ UNCHANGED <<tree, at, instances, before>>
        /\ Fail(l) \/ Done(l, f)
    BY <1>4 DEF Skip, CannotBind, BindPlain, BindPointer, Coming
  <2> QED BY <1>3, <1>4, <2>1, QuietStep
<1>5. ASSUME NEW f \in Variant, Skip(l, f) \/ CannotBind(l, f)
      PROVE  Attempt(l)'
  <2>1. /\ pc[l] = "binding" /\ UNCHANGED <<tree, at, instances, before>>
        /\ Fail(l) \/ (Done(l, f) /\ tree[l][f] = Absent)
    BY <1>5 DEF Skip, CannotBind, Coming
  <2> QED BY <1>3, <2>1, Constants, QuietStep
<1>6. ASSUME Refused(l) PROVE Attempt(l)'
  <2>1. pc[l] = "binding" /\ Fail(l) /\ UNCHANGED <<tree, at, instances, before>>
    BY <1>6 DEF Refused
  <2> QED BY <1>3, <2>1, QuietStep
<1>7. Attempt(l)'
  <2>1. \A f \in Plain : f \in Field /\ f \notin Variant
    BY FieldAssumption, Constants
  <2>2. \A f \in Pointer : f \in Field /\ f \notin Variant
    BY FieldAssumption, Constants
  <2>3. Begin(l) \/ Touched(l) => Attempt(l)'
    BY <1>3, BeginKeeps, TouchedKeeps
  <2>4. Swap(l) \/ Return(l) => Attempt(l)'
    BY ForgetKeeps DEF Swap, Return
  <2>5. ASSUME NEW f \in Variant, AddInstance(l, f) PROVE Attempt(l)'
    BY <1>3, <2>5, AddInstanceKeeps
  <2>6. ASSUME NEW m \in Family, Rollback(l, m) PROVE Attempt(l)'
    BY <1>3, <2>6, RollbackKeeps
  <2>7. ASSUME NEW f \in Field, Skip(l, f) \/ CannotBind(l, f) PROVE Attempt(l)'
    BY <1>4, <1>5, <2>7
  <2> QED BY <1>4, <1>6, <2>1, <2>2, <2>3, <2>4, <2>5, <2>6, <2>7 DEF LoadStep
<1>8. \A k \in Load : Attempt(k)'
  BY <1>1, <1>7, NothingIsAnAttempt
<1> QED BY <1>2, <1>8 DEF Attempts

LEMMA AlwaysAttempts ==
  ASSUME ~Concurrent
  PROVE  Spec => []Attempts
<1>1. ASSUME Init PROVE Attempts
  <2>1. \A l \in Load : pc[l] = "idle" /\ \A m \in Family : before[l][m] = NotTouched
    BY <1>1 DEF Init
  <2>2. \A m \in Family : Len(instances[m]) = 0
    BY <1>1 DEF Init
  <2>3. ASSUME NEW l \in Load PROVE OwnComeLast(l)
    BY <2>1, <2>2 DEF OwnComeLast, Mark, JustAdded
  <2>4. ASSUME NEW l \in Load PROVE OwnAreWanted(l) /\ WantedAreOwn(l)
    BY <2>1, <2>2 DEF OwnAreWanted, WantedAreOwn, CameTo
  <2> QED BY <2>1, <2>3, <2>4 DEF Attempts, Lone, Attempt
<1>2. ASSUME Typed /\ AtAdded, (Typed /\ AtAdded)', Attempts, [Next]_vars PROVE Attempts'
  <2>1. CASE UNCHANGED vars
    <3>1. \A l \in Load : OwnComeLast(l)' <=> OwnComeLast(l)
      BY <2>1 DEF vars, OwnComeLast, Mark, JustAdded
    <3>2. \A l \in Load : OwnAreWanted(l)' <=> OwnAreWanted(l)
      BY <2>1 DEF vars, OwnAreWanted
    <3>3. \A l \in Load : WantedAreOwn(l)' <=> WantedAreOwn(l)
      BY <2>1 DEF vars, WantedAreOwn, CameTo, Has
    <3>4. Lone' <=> Lone
      BY <2>1 DEF vars, Lone
    <3> QED BY <1>2, <3>1, <3>2, <3>3, <3>4 DEF Attempts, Attempt
  <2>2. CASE Next
    <3> PICK l \in Load : LoadStep(l)
      BY <2>2 DEF Next, LoadStep
    <3> QED BY <1>2, AttemptsStep
  <2> QED BY <1>2, <2>1, <2>2
<1> QED BY <1>1, <1>2, AlwaysTyped, PTL DEF Spec

(* Every variable keeps its type, and the count a lone Load is to truncate *)
(* a registry to is below what the registry holds.                         *)
THEOREM TypeCorrect == Spec => []TypeOK
<1>1. Typed /\ Concurrent => TypeOK
  BY DEF Typed, TypeOK
<1>2. ASSUME Typed, Attempts PROVE TypeOK
  <2>1. ASSUME NEW l \in Load, NEW m \in Family
        PROVE  before[l][m] < IF before[l][m] = NotTouched THEN 0 ELSE Len(instances[m])
    <3>1. CASE before[l][m] = NotTouched
      BY <3>1 DEF NotTouched
    <3>2. CASE before[l][m] # NotTouched
      BY <1>2, <3>2 DEF Attempts, Attempt, OwnComeLast, Mark
    <3> QED BY <3>1, <3>2
  <2> QED BY <1>2, <2>1 DEF Typed, TypeOK
<1>3. CASE Concurrent
  BY <1>1, <1>3, AlwaysTyped, PTL
<1>4. CASE ~Concurrent
  BY <1>2, <1>4, AlwaysTyped, AlwaysAttempts, PTL
<1> QED BY <1>3, <1>4

-----------------------------------------------------------------------------
(* What the Loads that have returned leave. *)
LEMMA CommittedMembers ==
  ASSUME Typed, NEW m \in Family, NEW x
  PROVE  x \in Committed(m) <=>
           \E i \in 1 .. Len(instances[m]) : instances[m][i].by = NoLoad /\ instances[m][i].sel = x
BY Registered DEF Committed

(* The same, of the next state. *)
LEMMA CommittedNext ==
  ASSUME Typed', NEW m \in Family, NEW x
  PROVE  x \in Committed(m)' <=>
           \E i \in 1 .. Len(instances'[m]) : instances'[m][i].by = NoLoad /\ instances'[m][i].sel = x
<1>1. DOMAIN instances'[m] = 1 .. Len(instances'[m])
  BY DEF Typed
<1> QED BY <1>1 DEF Committed

(* A Load that is under way adds and takes back its own. *)
LEMMA AddingCommitsNothing ==
  ASSUME Typed, Typed', NEW l \in Load, NEW f \in Variant, AddInstance(l, f), NEW m \in Family
  PROVE  Committed(m)' = Committed(m)
<1>1. ASSUME instances'[m] = instances[m] PROVE Committed(m)' = Committed(m)
  BY <1>1 DEF Committed
<1>2. CASE Duplicate(FamilyOf[f], tree[l][f])
  BY <1>1, <1>2, InstanceRefused
<1>3. CASE ~Duplicate(FamilyOf[f], tree[l][f]) /\ m # FamilyOf[f]
  BY <1>1, <1>3, InstanceAdded
<1>4. CASE ~Duplicate(FamilyOf[f], tree[l][f]) /\ m = FamilyOf[f]
  <2> DEFINE n == Len(instances[m])
  <2>1. n \in Nat
    BY Registered
  <2>2. /\ Len(instances'[m]) = n + 1
        /\ \A i \in 1 .. n : instances'[m][i] = instances[m][i]
        /\ instances'[m][n + 1] = [sel |-> tree[l][f], by |-> l]
    BY <1>4, InstanceAdded
  <2>3. instances'[m][n + 1].by # NoLoad
    BY <2>2, Constants
  <2>4. \A x : x \in Committed(m)' <=> x \in Committed(m)
    <3> TAKE x
    <3>1. x \in Committed(m)' <=>
            \E i \in 1 .. (n + 1) : instances'[m][i].by = NoLoad /\ instances'[m][i].sel = x
      BY <2>2, CommittedNext
    <3>2. (1 .. (n + 1)) = (1 .. n) \cup {n + 1}
      BY <2>1
    <3>3. x \in Committed(m)' <=>
            \E i \in 1 .. n : instances[m][i].by = NoLoad /\ instances[m][i].sel = x
      BY <2>2, <2>3, <3>1, <3>2
    <3> QED BY <3>3, CommittedMembers
  <2> QED BY <2>4
<1> QED BY <1>2, <1>3, <1>4

LEMMA RollbackCommitsNothing ==
  ASSUME Typed, Typed', NEW l \in Load, NEW g \in Family, Rollback(l, g), OwnComeLast(l),
         NEW m \in Family
  PROVE  Committed(m)' = Committed(m)
<1>1. CASE m # g
  <2>1. instances'[m] = instances[m]
    BY <1>1, RolledBack
  <2> QED BY <2>1 DEF Committed
<1>2. CASE m = g
  <2> DEFINE n == Len(instances[m])
             b == before[l][m]
  <2>1. /\ n \in Nat /\ b \in Nat /\ b < n /\ Len(instances'[m]) = b
        /\ \A i \in 1 .. b : instances'[m][i] = instances[m][i]
        /\ \A i \in 1 .. n : instances[m][i].by = l <=> b < i
    BY <1>2, RolledBack, Registered
  <2>2. \A i \in 1 .. n : instances[m][i].by = NoLoad => i \in 1 .. b
    BY <2>1, Constants
  <2>3. \A x : x \in Committed(m)' <=> x \in Committed(m)
    <3> TAKE x
    <3>1. x \in Committed(m)' <=>
            \E i \in 1 .. b : instances'[m][i].by = NoLoad /\ instances'[m][i].sel = x
      BY <2>1, CommittedNext
    <3>2. x \in Committed(m) <=>
            \E i \in 1 .. n : instances[m][i].by = NoLoad /\ instances[m][i].sel = x
      BY CommittedMembers
    <3>3. (1 .. b) \subseteq (1 .. n)
      BY <2>1
    <3> HIDE DEF n, b
    <3> QED BY <2>1, <2>2, <3>1, <3>2, <3>3
  <2> QED BY <2>3
<1> QED BY <1>1, <1>2

(* A Load that returns leaves what it still has as the registry's own. *)
LEMMA ForgettingCommitsOwn ==
  ASSUME Typed, Typed', NEW l \in Load, Forget(l), NEW m \in Family, NEW x
  PROVE  x \in Committed(m)' <=>
           \/ x \in Committed(m)
           \/ \E i \in 1 .. Len(instances[m]) : instances[m][i].by = l /\ instances[m][i].sel = x
<1>1. instances' = Settled(l)
  BY DEF Forget
<1>2. /\ Len(instances'[m]) = Len(instances[m])
      /\ \A i \in 1 .. Len(instances[m]) :
           /\ instances'[m][i].sel = instances[m][i].sel
           /\ instances'[m][i].by = IF instances[m][i].by = l THEN NoLoad ELSE instances[m][i].by
  BY <1>1, Settling
<1>3. x \in Committed(m)' <=>
        \E i \in 1 .. Len(instances[m]) : instances'[m][i].by = NoLoad /\ instances'[m][i].sel = x
  BY <1>2, CommittedNext
<1> QED BY <1>2, <1>3, CommittedMembers

LEMMA SwapCommitsAll ==
  ASSUME Typed, Typed', NEW l \in Load, Attempt(l), Swap(l), NEW m \in Family
  PROVE  Committed(m)' = Committed(m) \cup Wanted(l, m)
<1>1. Forget(l) /\ pc[l] = "binding" /\ left[l] = {}
  BY DEF Swap
<1>2. ASSUME NEW x
      PROVE  (\E i \in 1 .. Len(instances[m]) : instances[m][i].by = l /\ instances[m][i].sel = x)
               <=> x \in Wanted(l, m)
  <2>1. ASSUME NEW i \in 1 .. Len(instances[m]), instances[m][i].by = l, instances[m][i].sel = x
        PROVE  x \in Wanted(l, m)
    <3>1. PICK f \in Variant : FamilyOf[f] = m /\ tree[l][f] = instances[m][i].sel
      BY <2>1 DEF Attempt, OwnAreWanted
    <3>2. tree[l][f] # Absent
      BY <2>1, <3>1, Registered, Constants
    <3> QED BY <2>1, <3>1, <3>2 DEF Wanted
  <2>2. ASSUME NEW f \in Variant, FamilyOf[f] = m, tree[l][f] # Absent, tree[l][f] = x
        PROVE  \E i \in 1 .. Len(instances[m]) : instances[m][i].by = l /\ instances[m][i].sel = x
    <3>1. Has(l, f)
      BY <1>1, <2>2 DEF Attempt, WantedAreOwn, CameTo
    <3> QED BY <2>2, <3>1 DEF Has
  <2> QED BY <2>1, <2>2 DEF Wanted
<1>3. \A x : x \in Committed(m)' <=> x \in Committed(m) \/ x \in Wanted(l, m)
  BY <1>1, <1>2, ForgettingCommitsOwn
<1> QED BY <1>3

LEMMA ReturnCommitsNothing ==
  ASSUME Typed, Typed', NEW l \in Load, Attempt(l), Return(l), NEW m \in Family
  PROVE  Committed(m)' = Committed(m)
<1>1. Forget(l) /\ pc[l] = "failed" /\ before[l][m] = NotTouched
  BY DEF Return
<1>2. \A i \in 1 .. Len(instances[m]) : instances[m][i].by # l
  BY <1>1, Registered DEF Attempt, OwnComeLast, Mark, JustAdded
<1>3. \A x : x \in Committed(m)' <=> x \in Committed(m)
  BY <1>1, <1>2, ForgettingCommitsOwn
<1> QED BY <1>3

(* When no two Loads run at the same time, what is registered for good     *)
(* changes by the variants of a whole tree or not at all: wherever a Load  *)
(* fails, rollback takes back its instances, all of them and no other.     *)
THEOREM LoadsRegisterAllOrNothing ==
  ASSUME ~Concurrent
  PROVE  Spec => LoadsAreAtomic
<1> DEFINE Whole == \/ \A m \in Family : Committed(m)' = Committed(m)
                    \/ \E l \in Load : Swap(l) /\ \A m \in Family : Committed(m)' = Committed(m) \cup Wanted(l, m)
<1>1. ASSUME Typed /\ AtAdded, (Typed /\ AtAdded)', Attempts, [Next]_vars PROVE [Whole]_vars
  <2>1. CASE UNCHANGED vars
    BY <2>1
  <2>2. CASE Next
    <3> PICK l \in Load : LoadStep(l)
      BY <2>2 DEF Next, LoadStep
    <3>1. Attempt(l)
      BY <1>1 DEF Attempts
    <3>2. ASSUME UNCHANGED instances PROVE Whole
      BY <3>2 DEF Committed
    <3>3. ASSUME NEW f \in Variant, AddInstance(l, f) PROVE Whole
      BY <1>1, <3>3, AddingCommitsNothing
    <3>4. ASSUME NEW m \in Family, Rollback(l, m) PROVE Whole
      BY <1>1, <3>1, <3>4, RollbackCommitsNothing DEF Attempt
    <3>5. CASE Return(l)
      BY <1>1, <3>1, <3>5, ReturnCommitsNothing
    <3>6. CASE Swap(l)
      BY <1>1, <3>1, <3>6, SwapCommitsAll
    <3> HIDE DEF Whole
    <3> QED BY <3>2, <3>3, <3>4, <3>5, <3>6, RegistriesStay DEF LoadStep
  <2> QED BY <1>1, <2>1, <2>2
<1>2. Spec => [][Whole]_vars
  BY <1>1, AlwaysTyped, AlwaysAttempts, PTL DEF Spec
<1> QED BY <1>2 DEF LoadsAreAtomic
=============================================================================
