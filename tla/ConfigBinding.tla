---------------------------- MODULE ConfigBinding ----------------------------
(* The binding half of Loader.Load: the resolved tree is bound onto a copy *)
(* of the destination, variant fields are recorded in the registries of    *)
(* their families, and a failure rolls the registries back.  Registries    *)
(* are shared by every Load of the process; each of their operations takes *)
(* the registry's lock, and nothing takes it for longer.                   *)
EXTENDS Integers, Sequences, FiniteSets

CONSTANTS
  Load,         \* goroutines that call Load
  Plain,        \* keys of fields held by value: scalars, and maps and slices, made anew
  Pointer,      \* keys of pointer fields
  Variant,      \* keys of fields whose type is a registered family
  Required,     \* keys of required fields
  FamilyOf,     \* [Variant -> Family]
  Family,
  Val,          \* scalars a field can hold
  Invalid,      \* those of them that Validate refuses
  Defaults,     \* what the caller may have in the fields held by value
  SelectorSet,  \* selector sets an instance may have: partial functions to strings
  Concurrent,   \* may several Loads run at the same time?
  Absent, Bad, Nil, NoLoad

Field == Plain \cup Pointer \cup Variant

ASSUME FieldAssumption ==
  /\ Plain \cap Pointer = {} /\ Plain \cap Variant = {} /\ Pointer \cap Variant = {}
  /\ Required \subseteq Field /\ Invalid \subseteq Val
  /\ FamilyOf \in [Variant -> Family]
  /\ Concurrent \in BOOLEAN
  /\ {Absent, Bad, Nil} \cap (Val \cup SelectorSet) = {} /\ NoLoad \notin Load

(* Instances that agree on every key both have are of one variant, so they *)
(* have the same tagged fields, set or not: only a name can be had by one  *)
(* alone, and namingKey never answers with an empty one.                   *)
ASSUME SelectorAssumption ==
  \A a, b \in SelectorSet :
    (\A k \in DOMAIN a \cap DOMAIN b : a[k] = b[k]) => \A k \in DOMAIN a \ DOMAIN b : a[k] # ""

(* What the tree may hold for a key: nothing, something that cannot be     *)
(* bound (another kind, an unparsable scalar, an unknown discriminator or  *)
(* sub-key), or a value.  A variant's value is its instance's selectors.   *)
Node(f) == {Absent, Bad} \cup IF f \in Variant THEN SelectorSet ELSE Val
Tree == {t \in [Field -> UNION {Node(f) : f \in Field}] : \A f \in Field : t[f] \in Node(f)}

(* What the caller may pass, pointers that are filled in included. *)
Passed ==
  {d \in [Field -> Val \cup {Nil}] :
     (\A f \in Plain : d[f] \in Defaults) /\ \A f \in Variant : d[f] = Nil}

VARIABLES
  pc,         \* what each Load is doing
  tree,       \* the resolved tree it binds
  left,       \* keys it has not come to: structFields is a map, the order is any
  at,         \* the variant key whose instance has been added and not touched
  dst,        \* the caller's struct, pointers followed
  temp,       \* the copy that is bound
  instances,  \* the registries; by is read by properties only
  before,     \* touchedRegs: where rollback truncates each registry
  passed      \* what the caller passed, for the properties

vars == <<pc, tree, left, at, dst, temp, instances, before, passed>>

NotTouched == -2   \* -1 is a count a racing Load can leave behind
EmptyTree == [f \in Field |-> Absent]
Unset == [f \in Field |-> Nil]

Init ==
  /\ pc = [l \in Load |-> "idle"]
  /\ tree = [l \in Load |-> EmptyTree]
  /\ left = [l \in Load |-> {}]
  /\ at = [l \in Load |-> Nil]
  /\ dst = [l \in Load |-> Unset] /\ temp = dst /\ passed = dst
  /\ instances = [m \in Family |-> <<>>]
  /\ before = [l \in Load |-> [m \in Family |-> NotTouched]]

-----------------------------------------------------------------------------
(* Registry. *)
Lookup(have, key) == IF key \in DOMAIN have THEN have[key] ELSE ""

EqualSelectors(a, b) ==
  /\ Cardinality(DOMAIN a) = Cardinality(DOMAIN b)
  /\ \A k \in DOMAIN a : Lookup(b, k) = a[k]

MatchesAll(have, want) == \A k \in DOMAIN want : Lookup(have, k) = want[k]

(* The instances Resolve would choose among; exactly one is an answer. *)
Matches(m, want) == {i \in DOMAIN instances[m] : MatchesAll(instances[m][i].sel, want)}

Duplicate(m, sel) ==
  \E i \in DOMAIN instances[m] : EqualSelectors(instances[m][i].sel, sel)

TruncateInstances(m, n) ==
  instances' = [instances EXCEPT ![m] =
                  IF n >= 0 /\ n < Len(@) THEN SubSeq(@, 1, n) ELSE @]

(* The registry keeps the instances of a Load that has returned; that they *)
(* are nobody's attempt any more is noted for the properties.              *)
Settled(l) ==
  [m \in Family |-> [i \in DOMAIN instances[m] |->
     IF instances[m][i].by = l THEN [instances[m][i] EXCEPT !.by = NoLoad]
                               ELSE instances[m][i]]]

-----------------------------------------------------------------------------
(* Load reads, merges and resolves before anything is written; a failure   *)
(* there changes nothing.                                                  *)
Begin(l) ==
  /\ pc[l] = "idle"
  /\ Concurrent \/ \A k \in Load : pc[k] = "idle"
  /\ \E t \in Tree : tree' = [tree EXCEPT ![l] = t]
  /\ \E d \in Passed : /\ dst' = [dst EXCEPT ![l] = d]
                       /\ passed' = [passed EXCEPT ![l] = d]
                       /\ temp' = [temp EXCEPT ![l] = d]
  /\ left' = [left EXCEPT ![l] = Field]
  /\ pc' = [pc EXCEPT ![l] = "binding"]
  /\ UNCHANGED <<at, instances, before>>

Coming(l, f) == pc[l] = "binding" /\ f \in left[l]

Done(l, f) == left' = [left EXCEPT ![l] = @ \ {f}] /\ UNCHANGED pc

Fail(l) == pc' = [pc EXCEPT ![l] = "failed"] /\ UNCHANGED left

(* An absent key keeps the default, unless it is required. *)
Skip(l, f) ==
  /\ Coming(l, f) /\ tree[l][f] = Absent
  /\ IF f \in Required THEN Fail(l) ELSE Done(l, f)
  /\ UNCHANGED <<tree, at, dst, temp, instances, before, passed>>

CannotBind(l, f) ==
  /\ Coming(l, f) /\ tree[l][f] = Bad
  /\ Fail(l)
  /\ UNCHANGED <<tree, at, dst, temp, instances, before, passed>>

BindInPlace(l, f) ==
  /\ Coming(l, f) /\ f \in Plain /\ tree[l][f] \in Val
  /\ temp' = [temp EXCEPT ![l][f] = tree[l][f]]
  /\ dst' = [dst EXCEPT ![l][f] = tree[l][f]]
  /\ IF tree[l][f] \in Invalid THEN Fail(l) ELSE Done(l, f)
  /\ UNCHANGED <<tree, at, instances, before, passed>>

(* The value is written, then validated. *)
BindPlain(l, f) ==
  /\ Coming(l, f) /\ f \in Plain /\ tree[l][f] \in Val
  /\ temp' = [temp EXCEPT ![l][f] = tree[l][f]]
  /\ IF tree[l][f] \in Invalid THEN Fail(l) ELSE Done(l, f)
  /\ UNCHANGED <<tree, at, dst, instances, before, passed>>

(* A nil pointer gets a value of its own; any other is followed, and the   *)
(* copy shares what it points to with the caller's struct.                 *)
BindPointer(l, f) ==
  /\ Coming(l, f) /\ f \in Pointer /\ tree[l][f] \in Val
  /\ temp' = [temp EXCEPT ![l][f] = tree[l][f]]
  /\ dst' = IF temp[l][f] = Nil THEN dst ELSE [dst EXCEPT ![l][f] = tree[l][f]]
  /\ IF tree[l][f] \in Invalid THEN Fail(l) ELSE Done(l, f)
  /\ UNCHANGED <<tree, at, instances, before, passed>>

AddTwice(l, f) ==
  LET m   == FamilyOf[f]
      sel == tree[l][f]
  IN  /\ Coming(l, f) /\ f \in Variant /\ sel \in SelectorSet
      /\ temp' = [temp EXCEPT ![l][f] = sel]
      /\ instances' = [instances EXCEPT ![m] = Append(@, [sel |-> sel, by |-> l])]
      /\ at' = [at EXCEPT ![l] = f]
      /\ pc' = [pc EXCEPT ![l] = "added"] /\ UNCHANGED left
      /\ UNCHANGED <<tree, dst, before, passed>>

(* bindVariant, up to AddInstance. *)
AddInstance(l, f) ==
  LET m   == FamilyOf[f]
      sel == tree[l][f]
  IN  /\ Coming(l, f) /\ f \in Variant /\ sel \in SelectorSet
      /\ temp' = [temp EXCEPT ![l][f] = sel]
      /\ IF Duplicate(m, sel)
           THEN Fail(l) /\ UNCHANGED <<instances, at>>
           ELSE /\ instances' = [instances EXCEPT ![m] = Append(@, [sel |-> sel, by |-> l])]
                /\ at' = [at EXCEPT ![l] = f]
                /\ pc' = [pc EXCEPT ![l] = "added"] /\ UNCHANGED left
      /\ UNCHANGED <<tree, dst, before, passed>>

TouchedCounts(l) ==
  LET m == FamilyOf[at[l]]
  IN  /\ pc[l] = "added"
      /\ before' = IF before[l][m] # NotTouched THEN before
                   ELSE [before EXCEPT ![l][m] = Len(instances[m])]
      /\ left' = [left EXCEPT ![l] = @ \ {at[l]}]
      /\ at' = [at EXCEPT ![l] = Nil]
      /\ pc' = [pc EXCEPT ![l] = "binding"]
      /\ UNCHANGED <<tree, dst, temp, instances, passed>>

(* touched: the registry is counted again, after it has been unlocked. *)
Touched(l) ==
  LET m == FamilyOf[at[l]]
  IN  /\ pc[l] = "added"
      /\ before' = IF before[l][m] # NotTouched THEN before
                   ELSE [before EXCEPT ![l][m] = Len(instances[m]) - 1]
      /\ left' = [left EXCEPT ![l] = @ \ {at[l]}]
      /\ at' = [at EXCEPT ![l] = Nil]
      /\ pc' = [pc EXCEPT ![l] = "binding"]
      /\ UNCHANGED <<tree, dst, temp, instances, passed>>

Forget(l) ==
  /\ pc' = [pc EXCEPT ![l] = "idle"]
  /\ tree' = [tree EXCEPT ![l] = EmptyTree]
  /\ left' = [left EXCEPT ![l] = {}]
  /\ temp' = [temp EXCEPT ![l] = Unset]
  /\ before' = [before EXCEPT ![l] = [m \in Family |-> NotTouched]]
  /\ instances' = Settled(l)
  /\ passed' = [passed EXCEPT ![l] = Unset]
  /\ UNCHANGED at

(* Everything is bound: the struct's own Validate has the last word. *)
Refused(l) ==
  /\ pc[l] = "binding" /\ left[l] = {}
  /\ Fail(l)
  /\ UNCHANGED <<tree, at, dst, temp, instances, before, passed>>

Swap(l) ==
  /\ pc[l] = "binding" /\ left[l] = {}
  /\ dst' = [dst EXCEPT ![l] = temp[l]]
  /\ Forget(l)

Rollback(l, m) ==
  /\ pc[l] = "failed" /\ before[l][m] # NotTouched
  /\ TruncateInstances(m, before[l][m])
  /\ before' = [before EXCEPT ![l][m] = NotTouched]
  /\ UNCHANGED <<pc, tree, left, at, dst, temp, passed>>

ReturnEarly(l) ==
  /\ pc[l] = "failed" /\ \E m \in Family : before[l][m] = NotTouched
  /\ Forget(l)
  /\ UNCHANGED dst

Return(l) ==
  /\ pc[l] = "failed" /\ \A m \in Family : before[l][m] = NotTouched
  /\ Forget(l)
  /\ UNCHANGED dst

Next ==
  \E l \in Load :
    \/ Begin(l) \/ Touched(l) \/ Refused(l) \/ Swap(l) \/ Return(l)
    \/ \E f \in Field : Skip(l, f) \/ CannotBind(l, f)
    \/ \E f \in Plain : BindPlain(l, f)
    \/ \E f \in Pointer : BindPointer(l, f)
    \/ \E f \in Variant : AddInstance(l, f)
    \/ \E m \in Family : Rollback(l, m)

Spec == Init /\ [][Next]_vars
-----------------------------------------------------------------------------
Instance == [sel : SelectorSet, by : Load \cup {NoLoad}]
Held == Val \cup SelectorSet \cup {Nil}

(* Every variable has its type; a lone Load is to truncate what it added. *)
TypeOK ==
  /\ pc \in [Load -> {"idle", "binding", "added", "failed"}]
  /\ tree \in [Load -> Tree]
  /\ left \in [Load -> SUBSET Field]
  /\ at \in [Load -> Variant \cup {Nil}]
  /\ dst \in [Load -> [Field -> Held]]
  /\ temp \in [Load -> [Field -> Held]]
  /\ passed \in [Load -> [Field -> Held]]
  /\ instances \in [Family -> Seq(Instance)]
  /\ before \in [Load -> [Family -> Nat \cup {-1, NotTouched}]]
  /\ Concurrent \/ \A l \in Load, m \in Family :
       before[l][m] < IF before[l][m] = NotTouched THEN 0 ELSE Len(instances[m])

(* A Load that fails has changed the caller's struct at most behind the    *)
(* pointers that the caller passed, and there to what the file says: what  *)
(* it allocates or holds by value is its own until the swap.  loader.go:80 *)
(* claims more: "On any error dst is left exactly as passed".              *)
FailuresReachOnlyShared ==
  \A l \in Load : pc[l] = "failed" => \A f \in Field :
    dst[l][f] # passed[l][f] => f \in Pointer /\ passed[l][f] # Nil /\ dst[l][f] = tree[l][f]

(* No two registered instances answer exactly the same queries ("such a    *)
(* pair could never be resolved unambiguously").                           *)
Distinguishable ==
  \A m \in Family : \A i, j \in DOMAIN instances[m] :
    i # j => \E want \in SelectorSet : ~(i \in Matches(m, want) <=> j \in Matches(m, want))

(* The registry as the Loads that have returned leave it changes only when *)
(* one returns nil, and then by all the variants of its tree: a Load that  *)
(* fails takes its own instances back, and nobody else's.                  *)
Committed(m) == {instances[m][i].sel : i \in {j \in DOMAIN instances[m] : instances[m][j].by = NoLoad}}
Wanted(l, m) == {tree[l][f] : f \in {g \in Variant : FamilyOf[g] = m /\ tree[l][g] # Absent}}
LoadsAreAtomic ==
  [][\/ \A m \in Family : Committed(m)' = Committed(m)
     \/ \E l \in Load : Swap(l) /\ \A m \in Family : Committed(m)' = Committed(m) \cup Wanted(l, m)
    ]_vars
=============================================================================
