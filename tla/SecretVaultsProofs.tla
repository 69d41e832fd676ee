-------------------------- MODULE SecretVaultsProofs --------------------------
(***************************************************************************)
(* Theorems about what SecretResolver's programs read and ask for: the     *)
(* registry that the files make, the answers that reach a driver, and the  *)
(* vault that a value comes from.                                          *)
(*                                                                         *)
(* They rest on what the loops of VaultRegistry and Prompters compute, for *)
(* lists of any length: the registry that a list of files makes, and the   *)
(* answers that a list of requests gets.  An induction over a list is an   *)
(* argument about the shortest prefix for which the claim would be false.  *)
(***************************************************************************)
EXTENDS SecretResolverProofs, WellFoundedInduction

LEMMA LeastNumber ==
  ASSUME NEW T \in SUBSET Nat, NEW n \in T
  PROVE  \E m \in T : \A k \in T : m <= k
<1> DEFINE R == OpToRel(<, Nat)
<1>1. PICK m \in T : \A k \in T : <<k, m>> \notin R
  <2>1. T # {}
    OBVIOUS
  <2> HIDE DEF R
  <2>2. IsWellFoundedOn(R, Nat)
    BY NatLessThanWellFounded DEF R
  <2> QED BY <2>1, <2>2, WFMin
<1>2. \A a, b \in Nat : a < b => <<a, b>> \in R
  BY DEF OpToRel
<1> HIDE DEF R
<1>3. \A k \in T : ~(k < m)
  BY <1>1, <1>2
<1>4. m \in Nat /\ \A k \in T : k \in Nat
  OBVIOUS
<1> QED BY <1>3, <1>4

-----------------------------------------------------------------------------
(* The registry after each file of a list. *)
Loading(upTo, disk, list, cwd, n) ==
  upTo = [i \in 0 .. n |->
            IF i = 0 THEN EmptyRegistry
            ELSE ReadFile(upTo[i - 1], disk[Located(list[i], cwd)], list[i])]

LEMMA LoadingExists ==
  ASSUME NEW disk, NEW list, NEW cwd, NEW n \in Nat
  PROVE  \E upTo : Loading(upTo, disk, list, cwd, n)
<1> DEFINE None == {m \in Nat : ~ \E upTo : Loading(upTo, disk, list, cwd, m)}
<1>1. ASSUME NEW l \in None PROVE FALSE
  <2>1. PICK m \in None : \A k \in None : m <= k
    BY <1>1, LeastNumber
  <2>2. CASE m = 0
    <3>1. Loading([i \in {0} |-> EmptyRegistry], disk, list, cwd, 0)
      BY DEF Loading
    <3> QED BY <2>1, <2>2, <3>1
  <2>3. CASE m > 0
    <3>1. m - 1 \in Nat /\ m - 1 \notin None
      BY <2>1, <2>3
    <3>2. PICK u : Loading(u, disk, list, cwd, m - 1)
      BY <3>1
    <3> DEFINE v == [i \in 0 .. m |->
                       IF i < m THEN u[i] ELSE ReadFile(u[m - 1], disk[Located(list[m], cwd)], list[m])]
    <3>3. \A i \in 0 .. m : v[i] = IF i = 0 THEN EmptyRegistry
                                   ELSE ReadFile(v[i - 1], disk[Located(list[i], cwd)], list[i])
      BY <2>3, <3>2 DEF Loading
    <3>4. Loading(v, disk, list, cwd, m)
      BY <3>3 DEF Loading
    <3> QED BY <2>1, <3>4
  <2> QED BY <2>1, <2>2, <2>3
<1> QED BY <1>1

LEMMA RegistryIsLoaded ==
  ASSUME NEW disk, NEW env, NEW cwd, Len(FileList(env)) \in Nat
  PROVE  \E upTo : /\ Loading(upTo, disk, FileList(env), cwd, Len(FileList(env)))
                   /\ Registry(disk, env, cwd) = upTo[Len(FileList(env))]
<1> DEFINE list == FileList(env)
           upTo[i \in 0 .. Len(list)] ==
             IF i = 0 THEN EmptyRegistry
             ELSE ReadFile(upTo[i - 1], disk[Located(list[i], cwd)], list[i])
<1>1. upTo = CHOOSE u : Loading(u, disk, list, cwd, Len(list))
  BY Zenon DEF Loading
<1>2. Loading(upTo, disk, list, cwd, Len(list))
  <2> HIDE DEF upTo
  <2> QED BY <1>1, LoadingExists, Zenon
<1>3. Registry(disk, env, cwd) = upTo[Len(list)]
  BY Zenon DEF Registry
<1> HIDE DEF upTo
<1> QED BY <1>2, <1>3

(* Files that can be read, and what they say. *)
Content(disk, list, cwd, i) == disk[Located(list[i], cwd)]

Readable(disk, list, cwd, i) == Content(disk, list, cwd, i) \notin {NoFile, Broken}

Defines(disk, list, cwd, i, n) ==
  Readable(disk, list, cwd, i) /\ n \in DOMAIN Content(disk, list, cwd, i).vaults

SetsDefault(disk, list, cwd, i) ==
  Readable(disk, list, cwd, i) /\ Content(disk, list, cwd, i).default # NoName

Faulty(disk, list, cwd, i) ==
  \/ Content(disk, list, cwd, i) = Broken
  \/ \E n : Defines(disk, list, cwd, i, n) /\ Rejected(Content(disk, list, cwd, i).vaults[n])

Definition(disk, list, cwd, i, n) ==
  [Content(disk, list, cwd, i).vaults[n] EXCEPT !.path = NormalizePath(@, list[i])]

IsRegistry(reg) ==
  reg = [ok |-> reg.ok, default |-> reg.default, vaults |-> reg.vaults, missing |-> reg.missing]

(* The registry reg is what the first k files say: each name and the       *)
(* default are as the last file says that has something to say of them.    *)
Says(reg, disk, list, cwd, k) ==
  /\ IsRegistry(reg)
  /\ reg.ok = \A i \in 1 .. k : ~Faulty(disk, list, cwd, i)
  /\ reg.ok =>
       /\ \A i \in 1 .. k : \A n : Defines(disk, list, cwd, i, n) => n \in DOMAIN reg.vaults
       /\ \A n \in DOMAIN reg.vaults : \E i \in 1 .. k :
            /\ Defines(disk, list, cwd, i, n)
            /\ \A j \in 1 .. k : Defines(disk, list, cwd, j, n) => j <= i
            /\ reg.vaults[n] = Definition(disk, list, cwd, i, n)
       /\ \/ reg.default = NoName /\ \A i \in 1 .. k : ~SetsDefault(disk, list, cwd, i)
          \/ \E i \in 1 .. k :
               /\ SetsDefault(disk, list, cwd, i)
               /\ \A j \in 1 .. k : SetsDefault(disk, list, cwd, j) => j <= i
               /\ reg.default = Content(disk, list, cwd, i).default

(* What a merge makes of a registry and a file. *)
Merged(next, reg, file, source) ==
  /\ IsRegistry(next)
  /\ next.ok = \A n \in DOMAIN file.vaults : ~Rejected(file.vaults[n])
  /\ next.default = IF file.default = NoName THEN reg.default ELSE file.default
  /\ DOMAIN next.vaults = DOMAIN reg.vaults \cup DOMAIN file.vaults
  /\ \A n \in DOMAIN file.vaults :
       next.vaults[n] = [file.vaults[n] EXCEPT !.path = NormalizePath(@, source)]
  /\ \A n \in DOMAIN reg.vaults : n \notin DOMAIN file.vaults => next.vaults[n] = reg.vaults[n]

LEMMA MergeGives ==
  ASSUME NEW reg, IsRegistry(reg), NEW file, NEW source
  PROVE  Merged(MergeFile(reg, file, source), reg, file, source)
<1> DEFINE ok      == \A n \in DOMAIN file.vaults : ~Rejected(file.vaults[n])
           default == IF file.default = NoName THEN reg.default ELSE file.default
           vaults  == [n \in DOMAIN reg.vaults \cup DOMAIN file.vaults |->
                         IF n \in DOMAIN file.vaults
                           THEN [file.vaults[n] EXCEPT !.path = NormalizePath(@, source)]
                           ELSE reg.vaults[n]]
<1>1. MergeFile(reg, file, source) = [reg EXCEPT !.ok = ok, !.default = default, !.vaults = vaults]
  BY DEF MergeFile
<1>2. /\ DOMAIN vaults = DOMAIN reg.vaults \cup DOMAIN file.vaults
      /\ \A n \in DOMAIN file.vaults :
           vaults[n] = [file.vaults[n] EXCEPT !.path = NormalizePath(@, source)]
      /\ \A n \in DOMAIN reg.vaults : n \notin DOMAIN file.vaults => vaults[n] = reg.vaults[n]
  OBVIOUS
<1> HIDE DEF ok, default, vaults
<1>3. MergeFile(reg, file, source) =
        [ok |-> ok, default |-> default, vaults |-> vaults, missing |-> reg.missing]
  BY <1>1 DEF IsRegistry
<1> DEFINE next == MergeFile(reg, file, source)
<1>4. /\ IsRegistry(next) /\ next.ok = ok /\ next.default = default /\ next.vaults = vaults
  BY <1>3 DEF IsRegistry
<1> HIDE DEF next
<1>5. Merged(next, reg, file, source)
  BY <1>2, <1>4 DEF ok, default, Merged
<1> QED BY <1>5 DEF next

(* One more file. *)
LEMMA FileSays ==
  ASSUME NEW disk, NEW list, NEW cwd, NEW k \in Nat, NEW reg, Says(reg, disk, list, cwd, k)
  PROVE  Says(ReadFile(reg, Content(disk, list, cwd, k + 1), list[k + 1]), disk, list, cwd, k + 1)
<1> DEFINE file   == Content(disk, list, cwd, k + 1)
           source == list[k + 1]
           next   == ReadFile(reg, file, source)
           D(i, n) == Defines(disk, list, cwd, i, n)
           S(i)    == SetsDefault(disk, list, cwd, i)
           F(i)    == Faulty(disk, list, cwd, i)
           def(i, n) == Definition(disk, list, cwd, i, n)
           dflt(i)   == Content(disk, list, cwd, i).default
<1>1. (1 .. (k + 1)) = (1 .. k) \cup {k + 1} /\ \A i \in 1 .. k : i <= k + 1 /\ ~(k + 1 <= i)
  OBVIOUS
<1>2. reg.ok \in BOOLEAN
  BY DEF Says
<1>3. CASE ~reg.ok
  <2>1. next = reg
    BY <1>3 DEF ReadFile
  <2>2. ~ \A i \in 1 .. (k + 1) : ~F(i)
    BY <1>1, <1>3 DEF Says
  <2> QED BY <1>3, <2>1, <2>2 DEF Says
<1>4. CASE reg.ok /\ file = NoFile
  <2>1. ~F(k + 1) /\ ~S(k + 1) /\ \A n : ~D(k + 1, n)
    BY <1>4, RegistryAssumption DEF Faulty, SetsDefault, Defines, Readable
  <2>2. /\ IsRegistry(next) /\ next.ok = reg.ok /\ next.default = reg.default /\ next.vaults = reg.vaults
    BY <1>4 DEF ReadFile, Says, IsRegistry
  <2> HIDE DEF next, D, S, F
  <2>3. Says(next, disk, list, cwd, k + 1)
    BY <1>1, <2>1, <2>2 DEF Says, D, S, F
  <2> QED BY <2>3 DEF next
<1>5. CASE reg.ok /\ file # NoFile /\ file = Broken
  <2>1. F(k + 1)
    BY <1>5 DEF Faulty
  <2>2. IsRegistry(next) /\ next.ok = FALSE
    BY <1>5 DEF ReadFile, Says, IsRegistry
  <2> QED BY <1>1, <2>1, <2>2 DEF Says
<1>6. CASE reg.ok /\ file \notin {NoFile, Broken}
  <2>1. /\ \A n : D(k + 1, n) <=> n \in DOMAIN file.vaults
        /\ S(k + 1) <=> file.default # NoName
        /\ F(k + 1) <=> \E n \in DOMAIN file.vaults : Rejected(file.vaults[n])
    BY <1>6 DEF Faulty, SetsDefault, Defines, Readable
  <2>2. next = MergeFile(reg, file, source)
    BY <1>6 DEF ReadFile
  <2>3. /\ IsRegistry(next)
        /\ next.ok = \A n \in DOMAIN file.vaults : ~Rejected(file.vaults[n])
        /\ next.default = IF file.default = NoName THEN reg.default ELSE file.default
        /\ DOMAIN next.vaults = DOMAIN reg.vaults \cup DOMAIN file.vaults
        /\ \A n \in DOMAIN file.vaults : next.vaults[n] = def(k + 1, n)
        /\ \A n \in DOMAIN reg.vaults : n \notin DOMAIN file.vaults => next.vaults[n] = reg.vaults[n]
    <3>1. IsRegistry(reg)
      BY DEF Says
    <3>2. Merged(next, reg, file, source)
      BY <2>2, <3>1, MergeGives
    <3>3. \A n : def(k + 1, n) = [file.vaults[n] EXCEPT !.path = NormalizePath(@, source)]
      BY DEF Definition
    <3> HIDE DEF next, def, file, source
    <3> QED BY <3>2, <3>3 DEF Merged
  <2>4. next.ok <=> ~F(k + 1)
    BY <2>1, <2>3
  <2>5. next.ok = \A i \in 1 .. (k + 1) : ~F(i)
    BY <1>1, <1>6, <2>3, <2>4 DEF Says
  <2>6. ASSUME next.ok
        PROVE  \A i \in 1 .. (k + 1) : \A n : D(i, n) => n \in DOMAIN next.vaults
    BY <1>1, <1>6, <2>1, <2>3 DEF Says
  <2>7. ASSUME next.ok, NEW n \in DOMAIN next.vaults
        PROVE  \E i \in 1 .. (k + 1) : /\ D(i, n)
                                       /\ \A j \in 1 .. (k + 1) : D(j, n) => j <= i
                                       /\ next.vaults[n] = def(i, n)
    <3>1. CASE n \in DOMAIN file.vaults
      BY <1>1, <2>1, <2>3, <3>1
    <3>2. CASE n \notin DOMAIN file.vaults
      <4>1. n \in DOMAIN reg.vaults /\ next.vaults[n] = reg.vaults[n] /\ ~D(k + 1, n)
        BY <2>1, <2>3, <2>7, <3>2
      <4>2. PICK i \in 1 .. k : /\ D(i, n) /\ \A j \in 1 .. k : D(j, n) => j <= i
                                /\ reg.vaults[n] = def(i, n)
        BY <1>6, <4>1 DEF Says
      <4> QED BY <1>1, <4>1, <4>2
    <3> QED BY <3>1, <3>2
  <2>8. \/ next.default = NoName /\ \A i \in 1 .. (k + 1) : ~S(i)
        \/ \E i \in 1 .. (k + 1) : /\ S(i) /\ \A j \in 1 .. (k + 1) : S(j) => j <= i
                                    /\ next.default = dflt(i)
    <3>1. CASE S(k + 1)
      BY <1>1, <2>1, <2>3, <3>1
    <3>2. CASE ~S(k + 1)
      <4>1. next.default = reg.default
        BY <2>1, <2>3, <3>2
      <4> QED BY <1>1, <1>6, <3>2, <4>1 DEF Says
    <3> QED BY <3>1, <3>2
  <2> QED BY <2>3, <2>5, <2>6, <2>7, <2>8 DEF Says
<1> QED BY <1>2, <1>3, <1>4, <1>5, <1>6

LEMMA FilesSay ==
  ASSUME NEW disk, NEW list, NEW cwd, NEW n \in Nat, NEW upTo, Loading(upTo, disk, list, cwd, n)
  PROVE  \A k \in 0 .. n : Says(upTo[k], disk, list, cwd, k)
<1> DEFINE Wrong == {k \in Nat : k <= n /\ ~Says(upTo[k], disk, list, cwd, k)}
<1>1. ASSUME NEW l \in Wrong PROVE FALSE
  <2>1. PICK m \in Wrong : \A k \in Wrong : m <= k
    BY <1>1, LeastNumber
  <2>2. m \in 0 .. n /\ ~Says(upTo[m], disk, list, cwd, m)
    BY <2>1
  <2>3. CASE m = 0
    <3>1. upTo[0] = EmptyRegistry
      BY <2>2, <2>3 DEF Loading
    <3>2. Says(EmptyRegistry, disk, list, cwd, 0)
      BY DEF Says, EmptyRegistry, IsRegistry
    <3> QED BY <2>2, <2>3, <3>1, <3>2
  <2>4. CASE m > 0
    <3>1. m - 1 \in Nat /\ (m - 1) + 1 = m /\ Says(upTo[m - 1], disk, list, cwd, m - 1)
      BY <2>1, <2>2, <2>4
    <3>2. upTo[m] = ReadFile(upTo[m - 1], Content(disk, list, cwd, m), list[m])
      BY <2>2, <2>4 DEF Loading, Content
    <3> QED BY <2>2, <3>1, <3>2, FileSays
  <2> QED BY <2>2, <2>3, <2>4
<1> QED BY <1>1

(* What the registry holds is what its files say, each where it is last. *)
LEMMA RegistrySays ==
  ASSUME NEW disk, NEW env, NEW cwd, Len(FileList(env)) \in Nat
  PROVE  Says(Registry(disk, env, cwd), disk, FileList(env), cwd, Len(FileList(env)))
<1>1. PICK upTo : /\ Loading(upTo, disk, FileList(env), cwd, Len(FileList(env)))
                  /\ Registry(disk, env, cwd) = upTo[Len(FileList(env))]
  BY RegistryIsLoaded
<1> QED BY <1>1, FilesSay

(* The files of a list are in their order, each a readable one or not. *)
ListsFiles(disk, list, cwd) ==
  /\ list \in Seq((Dir \cup {Tilde, Here}) \X Base)
  /\ \A i \in DOMAIN list : IsFile(Content(disk, list, cwd, i))

(* A registry names its vaults with names, and knows where each is. *)
LEMMA RegistryNames ==
  ASSUME NEW disk, NEW env, NEW cwd, ListsFiles(disk, FileList(env), cwd),
         Registry(disk, env, cwd).ok
  PROVE  DOMAIN Registry(disk, env, cwd).vaults \subseteq Name
<1> DEFINE list == FileList(env)
           reg  == Registry(disk, env, cwd)
<1>1. Len(list) \in Nat /\ DOMAIN list = 1 .. Len(list)
  BY DEF ListsFiles
<1>2. Says(reg, disk, list, cwd, Len(list))
  BY <1>1, RegistrySays
<1>3. ASSUME NEW n \in DOMAIN reg.vaults PROVE n \in Name
  <2>1. PICK i \in DOMAIN list : Defines(disk, list, cwd, i, n)
    <3> HIDE DEF reg
    <3> QED BY <1>1, <1>2 DEF Says, reg
  <2> QED BY <2>1 DEF ListsFiles, IsFile, Defines, Readable
<1> QED BY <1>3

(* A list of absolute files makes absolute paths. *)
LEMMA AbsolutePaths ==
  ASSUME NEW disk, NEW env, NEW cwd, ListsFiles(disk, FileList(env), cwd),
         \A i \in DOMAIN FileList(env) : FileList(env)[i][1] # Here,
         Registry(disk, env, cwd).ok,
         NEW n \in DOMAIN Registry(disk, env, cwd).vaults
  PROVE  LET path == Registry(disk, env, cwd).vaults[n].path
         IN  path = NoPath \/ path[1] # Here
<1> DEFINE list == FileList(env)
           reg  == Registry(disk, env, cwd)
<1>1. Len(list) \in Nat /\ DOMAIN list = 1 .. Len(list)
  BY DEF ListsFiles
<1>2. Says(reg, disk, list, cwd, Len(list))
  BY <1>1, RegistrySays
<1>3. PICK i \in DOMAIN list : /\ Defines(disk, list, cwd, i, n)
                               /\ reg.vaults[n] = Definition(disk, list, cwd, i, n)
  <2> HIDE DEF reg
  <2> QED BY <1>1, <1>2 DEF Says, reg
<1> DEFINE def == Content(disk, list, cwd, i).vaults[n]
<1>4. "path" \in DOMAIN def /\ (def.path = NoPath \/ def.path \in (Dir \cup {Tilde, Here}) \X Base)
  BY <1>3 DEF ListsFiles, IsFile, Defines, Readable
<1>5. reg.vaults[n].path = NormalizePath(def.path, list[i])
  <2> HIDE DEF def, reg
  <2> QED BY <1>3, <1>4 DEF Definition, def
<1>6. list[i][1] # Here /\ Home # Here
  BY RegistryAssumption
<1> HIDE DEF def, reg, list
<1> QED BY <1>4, <1>5, <1>6 DEF NormalizePath, reg

-----------------------------------------------------------------------------
(* What the CLI prompter has after each request of a list. *)
Asking(upTo, reqs, lines, n) ==
  upTo = [i \in 0 .. n |->
            IF i = 0 THEN Answered(<<>>, lines) ELSE AskNext(upTo[i - 1], reqs[i])]

LEMMA AskingExists ==
  ASSUME NEW reqs, NEW lines, NEW n \in Nat
  PROVE  \E upTo : Asking(upTo, reqs, lines, n)
<1> DEFINE None == {m \in Nat : ~ \E upTo : Asking(upTo, reqs, lines, m)}
<1>1. ASSUME NEW l \in None PROVE FALSE
  <2>1. PICK m \in None : \A k \in None : m <= k
    BY <1>1, LeastNumber
  <2>2. CASE m = 0
    <3>1. Asking([i \in {0} |-> Answered(<<>>, lines)], reqs, lines, 0)
      BY DEF Asking
    <3> QED BY <2>1, <2>2, <3>1
  <2>3. CASE m > 0
    <3>1. m - 1 \in Nat /\ m - 1 \notin None
      BY <2>1, <2>3
    <3>2. PICK u : Asking(u, reqs, lines, m - 1)
      BY <3>1
    <3> DEFINE v == [i \in 0 .. m |-> IF i < m THEN u[i] ELSE AskNext(u[m - 1], reqs[m])]
    <3>3. \A i \in 0 .. m : v[i] = IF i = 0 THEN Answered(<<>>, lines)
                                   ELSE AskNext(v[i - 1], reqs[i])
      BY <2>3, <3>2 DEF Asking
    <3>4. Asking(v, reqs, lines, m)
      BY <3>3 DEF Asking
    <3> QED BY <2>1, <3>4
  <2> QED BY <2>1, <2>2, <2>3
<1> QED BY <1>1

LEMMA RequestsAreAsked ==
  ASSUME NEW reqs, NEW lines, Len(reqs) \in Nat, ValidRequests(reqs)
  PROVE  \E upTo : /\ Asking(upTo, reqs, lines, Len(reqs))
                   /\ DispatchCLI(reqs, lines) = upTo[Len(reqs)]
<1> DEFINE upTo[i \in 0 .. Len(reqs)] ==
             IF i = 0 THEN Answered(<<>>, lines) ELSE AskNext(upTo[i - 1], reqs[i])
<1>1. upTo = CHOOSE u : Asking(u, reqs, lines, Len(reqs))
  BY Zenon DEF Asking
<1>2. Asking(upTo, reqs, lines, Len(reqs))
  <2> HIDE DEF upTo
  <2> QED BY <1>1, AskingExists, Zenon
<1>3. DispatchCLI(reqs, lines) = upTo[Len(reqs)]
  BY Zenon DEF DispatchCLI
<1> HIDE DEF upTo
<1> QED BY <1>2, <1>3

(* The answers to the first k requests: of those that have to be answered  *)
(* all, and of the others some.  An error has none.                        *)
Answers(result, reqs, k) ==
  /\ result = [err |-> result.err, answers |-> result.answers, lines |-> result.lines]
  /\ IF result.err # "none" THEN result.answers = <<>>
     ELSE /\ \A i \in 1 .. k : ~reqs[i].optional => reqs[i].id \in DOMAIN result.answers
          /\ \A id \in DOMAIN result.answers : \E i \in 1 .. k : id = reqs[i].id

LEMMA AskReturns ==
  ASSUME NEW req, NEW lines
  PROVE  LET asked == Ask(req, lines)
         IN  /\ asked = [err |-> asked.err, answers |-> asked.answers, lines |-> asked.lines]
             /\ asked.err # "none" => asked.answers = <<>>
BY DEF Ask, Error, Answered

(* One more request. *)
LEMMA NextIsAnswered ==
  ASSUME NEW reqs, NEW k \in Nat, NEW soFar, Answers(soFar, reqs, k)
  PROVE  Answers(AskNext(soFar, reqs[k + 1]), reqs, k + 1)
<1> DEFINE req   == reqs[k + 1]
           asked == Ask(req, soFar.lines)
           next  == AskNext(soFar, req)
<1>1. (1 .. (k + 1)) = (1 .. k) \cup {k + 1}
  OBVIOUS
<1>2. CASE soFar.err # "none"
  BY <1>2 DEF AskNext, Answers
<1>3. CASE soFar.err = "none" /\ asked.err # "none"
  <2>1. next = asked
    BY <1>3 DEF AskNext
  <2> QED BY <1>3, <2>1, AskReturns DEF Answers
<1>4. CASE soFar.err = "none" /\ asked.err = "none" /\ asked.answers # ""
  <2> DEFINE answers == With(soFar.answers, req.id, asked.answers)
  <2>1. next = [asked EXCEPT !.answers = answers]
    BY <1>4 DEF AskNext
  <2>2. DOMAIN answers = DOMAIN soFar.answers \cup {req.id}
    BY DEF With
  <2> HIDE DEF answers
  <2>3. next = [err |-> "none", answers |-> answers, lines |-> asked.lines]
    <3>1. asked = [err |-> asked.err, answers |-> asked.answers, lines |-> asked.lines]
      BY AskReturns
    <3> HIDE DEF asked
    <3> QED BY <1>4, <2>1, <3>1
  <2>4. /\ next.err = "none" /\ next.answers = answers
        /\ next = [err |-> next.err, answers |-> next.answers, lines |-> next.lines]
    BY <2>3
  <2> HIDE DEF next
  <2>5. Answers(next, reqs, k + 1)
    BY <1>1, <1>4, <2>2, <2>4 DEF Answers
  <2> QED BY <2>5 DEF next
<1>5. CASE soFar.err = "none" /\ asked.err = "none" /\ asked.answers = "" /\ req.optional
  <2>1. next = [soFar EXCEPT !.lines = asked.lines]
    BY <1>5 DEF AskNext
  <2>2. next = [err |-> "none", answers |-> soFar.answers, lines |-> asked.lines]
    BY <1>5, <2>1 DEF Answers
  <2>3. /\ next.err = "none" /\ next.answers = soFar.answers
        /\ next = [err |-> next.err, answers |-> next.answers, lines |-> next.lines]
    BY <2>2
  <2> HIDE DEF next
  <2>4. Answers(next, reqs, k + 1)
    BY <1>1, <1>5, <2>3 DEF Answers
  <2> QED BY <2>4 DEF next
<1>6. CASE soFar.err = "none" /\ asked.err = "none" /\ asked.answers = "" /\ ~req.optional
  <2>1. next = Error("unavailable", asked.lines)
    BY <1>6 DEF AskNext
  <2> QED BY <2>1 DEF Error, Answers
<1> QED BY <1>2, <1>3, <1>4, <1>5, <1>6

(* prompt.go:23: a Dispatch returns all the required answers and no others, *)
(* or an error, whichever the prompter is, the user types or the pipe has.  *)
LEMMA CLIKeepsContract ==
  ASSUME NEW reqs, NEW lines, Len(reqs) \in Nat, DOMAIN reqs = 1 .. Len(reqs)
  PROVE  LET result == DispatchCLI(reqs, lines)
         IN  /\ KeepsContract(reqs, result)
             /\ result = [err |-> result.err, answers |-> result.answers, lines |-> result.lines]
<1>1. CASE ~ValidRequests(reqs)
  BY <1>1 DEF DispatchCLI, Error, KeepsContract
<1>2. CASE ValidRequests(reqs)
  <2>1. PICK upTo : /\ Asking(upTo, reqs, lines, Len(reqs))
                    /\ DispatchCLI(reqs, lines) = upTo[Len(reqs)]
    BY <1>2, RequestsAreAsked
  <2> DEFINE Wrong == {k \in Nat : k <= Len(reqs) /\ ~Answers(upTo[k], reqs, k)}
  <2>2. ASSUME NEW l \in Wrong PROVE FALSE
    <3>1. PICK m \in Wrong : \A k \in Wrong : m <= k
      BY <2>2, LeastNumber
    <3>2. m \in 0 .. Len(reqs) /\ ~Answers(upTo[m], reqs, m)
      BY <3>1
    <3>3. CASE m = 0
      <4>1. upTo[0] = Answered(<<>>, lines)
        BY <2>1, <3>2, <3>3 DEF Asking
      <4>2. Answers(Answered(<<>>, lines), reqs, 0)
        BY DEF Answers, Answered
      <4> QED BY <3>2, <3>3, <4>1, <4>2
    <3>4. CASE m > 0
      <4>1. m - 1 \in Nat /\ (m - 1) + 1 = m /\ Answers(upTo[m - 1], reqs, m - 1)
        BY <3>1, <3>2, <3>4
      <4>2. upTo[m] = AskNext(upTo[m - 1], reqs[m])
        BY <2>1, <3>2, <3>4 DEF Asking
      <4> QED BY <3>2, <4>1, <4>2, NextIsAnswered
    <3> QED BY <3>2, <3>3, <3>4
  <2>3. Answers(DispatchCLI(reqs, lines), reqs, Len(reqs))
    BY <2>1, <2>2
  <2> DEFINE result == DispatchCLI(reqs, lines)
  <2> HIDE DEF result
  <2>4. Answers(result, reqs, Len(reqs))
    BY <2>3 DEF result
  <2>5. KeepsContract(reqs, result)
    BY <1>2, <2>4 DEF Answers, KeepsContract, Required, Ids
  <2> QED BY <2>4, <2>5 DEF Answers, result
<1> QED BY <1>1, <1>2

LEMMA ValuesKeepContract ==
  ASSUME NEW values, NEW reqs, NEW lines
  PROVE  KeepsContract(reqs, DispatchValues(values, reqs, lines))
<1>1. Required(reqs) \subseteq Ids(reqs)
  BY DEF Required, Ids
<1> QED BY <1>1 DEF DispatchValues, Error, Answered, KeepsContract

LEMMA NoneKeepsContract ==
  ASSUME NEW reqs, NEW lines
  PROVE  KeepsContract(reqs, DispatchNone(reqs, lines))
BY DEF DispatchNone, Error, Answered, KeepsContract

-----------------------------------------------------------------------------
(* The lists of programs, and their files. *)
LEMMA Lists ==
  ASSUME NEW p \in Program
  PROVE  /\ FileList(Env[p]) \in Seq((Dir \cup {Tilde, Here}) \X Base)
         /\ Len(FileList(Env[p])) \in Nat
         /\ DOMAIN FileList(Env[p]) = 1 .. Len(FileList(Env[p]))
         /\ \A i \in DOMAIN FileList(Env[p]) :
              Located(FileList(Env[p])[i], Cwd[p]) \in DOMAIN Contents
<1>1. <<ConfigHome, VaultsYaml>> \in (Dir \cup {Tilde, Here}) \X Base
  BY RegistryAssumption
<1>2. FileList(Env[p]) \in Seq((Dir \cup {Tilde, Here}) \X Base)
  <2>1. CASE Env[p] = Unset
    BY <1>1, <2>1 DEF FileList
  <2>2. CASE Env[p] # Unset
    BY <2>2, ResolverAssumption DEF FileList
  <2> QED BY <2>1, <2>2
<1>3. \A i \in DOMAIN FileList(Env[p]) : Located(FileList(Env[p])[i], Cwd[p]) \in DOMAIN Contents
  BY ResolverAssumption
<1> HIDE DEF FileList
<1> QED BY <1>2, <1>3

-----------------------------------------------------------------------------
(* The registry files hold what a registry file may hold. *)
FilesInv == \A f \in DOMAIN Contents : f \in DOMAIN files /\ files[f] \in Contents[f]

LEMMA FilesInit == Init => FilesInv
BY DEF Init, FilesInv

LEMMA FilesStep == FilesInv /\ [Next]_vars => FilesInv'
<1> SUFFICES ASSUME FilesInv, [Next]_vars PROVE FilesInv'
  OBVIOUS
<1>1. ASSUME NEW f \in Edited, NEW content \in Contents[f], Edit(f, content) PROVE FilesInv'
  BY <1>1 DEF Edit, FilesInv
<1>2. ASSUME UNCHANGED files PROVE FilesInv'
  BY <1>2 DEF FilesInv
<1>3. (\E id \in DOMAIN agents : AgentLeaves(id)) \/ (\E p \in Program : Close(p)) => UNCHANGED files
  BY DEF AgentLeaves, Close, world
<1>4. \A c \in Call : Start(c) \/ Acquire(c) \/ Proceed(c) => UNCHANGED files
  BY DEF Start, Acquire, Proceed, Resolve, Proxy, Declare, Prompt, Open, Ensure, Unlock, Get,
         Select, Redial, Read, world
<1> QED BY <1>1, <1>2, <1>3, <1>4 DEF Next, vars

LEMMA ReadableLists ==
  ASSUME FilesInv, NEW p \in Program
  PROVE  ListsFiles(files, FileList(Env[p]), Cwd[p])
<1>1. \A i \in DOMAIN FileList(Env[p]) : IsFile(Content(files, FileList(Env[p]), Cwd[p], i))
  BY Lists, ResolverAssumption DEF FilesInv, Content
<1> QED BY <1>1, Lists DEF ListsFiles

(* The names of a registry are names. *)
LEMMA NamesOfRegistry ==
  ASSUME FilesInv, NEW p \in Program, RegistryOf(p).ok
  PROVE  DOMAIN RegistryOf(p).vaults \subseteq Name
BY ReadableLists, RegistryNames DEF RegistryOf

(* registry.go:137: with FLEXCONF_VAULTS or without, whatever the files    *)
(* hold and however they were edited, the registry that a program reads is *)
(* what the last file of its list says of each name and of the default.    *)
THEOREM RegistryIsWhatTheLastFilesSay == Spec => []LastFileWins
<1>1. ASSUME FilesInv PROVE LastFileWins
  <2> SUFFICES ASSUME NEW p \in Program
               PROVE  LET list    == FileList(Env[p])
                          At(i)   == files[Located(list[i], Cwd[p])]
                          Present == {i \in DOMAIN list : At(i) \notin {NoFile, Broken}}
                          Last(S) == CHOOSE i \in S : \A j \in S : j <= i
                          Where(n) == {i \in Present : n \in DOMAIN At(i).vaults}
                          Defaults == {i \in Present : At(i).default # NoName}
                          reg     == RegistryOf(p)
                      IN  /\ reg.ok <=> /\ \A i \in DOMAIN list : At(i) # Broken
                                        /\ \A i \in Present : \A n \in DOMAIN At(i).vaults :
                                             ~Rejected(At(i).vaults[n])
                          /\ reg.ok => /\ DOMAIN reg.vaults = {n \in Name : Where(n) # {}}
                                       /\ \A n \in DOMAIN reg.vaults :
                                            LET def == At(Last(Where(n))).vaults[n]
                                            IN  reg.vaults[n] = [def EXCEPT !.path =
                                                  NormalizePath(@, list[Last(Where(n))])]
                                       /\ reg.default = IF Defaults = {} THEN NoName
                                                        ELSE At(Last(Defaults)).default
    BY Zenon DEF LastFileWins
  <2> DEFINE list    == FileList(Env[p])
             At(i)   == files[Located(list[i], Cwd[p])]
             Present == {i \in DOMAIN list : At(i) \notin {NoFile, Broken}}
             Last(S) == CHOOSE i \in S : \A j \in S : j <= i
             Where(n) == {i \in Present : n \in DOMAIN At(i).vaults}
             Defaults == {i \in Present : At(i).default # NoName}
             reg     == RegistryOf(p)
             D(i, n) == Defines(files, list, Cwd[p], i, n)
             S(i)    == SetsDefault(files, list, Cwd[p], i)
             F(i)    == Faulty(files, list, Cwd[p], i)
             def(i, n) == Definition(files, list, Cwd[p], i, n)
  <2>1. Len(list) \in Nat /\ DOMAIN list = 1 .. Len(list)
    BY Lists
  <2>2. Says(reg, files, list, Cwd[p], Len(list))
    BY <2>1, RegistrySays DEF RegistryOf
  <2>3. /\ Present = {i \in DOMAIN list : Readable(files, list, Cwd[p], i)}
        /\ \A n : Where(n) = {i \in DOMAIN list : D(i, n)}
        /\ Defaults = {i \in DOMAIN list : S(i)}
        /\ \A i, n : def(i, n) = [At(i).vaults[n] EXCEPT !.path = NormalizePath(@, list[i])]
        /\ \A i \in DOMAIN list : F(i) <=>
             At(i) = Broken \/ (i \in Present /\ \E n \in DOMAIN At(i).vaults : Rejected(At(i).vaults[n]))
    BY DEF Defines, SetsDefault, Faulty, Definition, Readable, Content
  <2>4. ASSUME NEW T \in SUBSET Nat, NEW i \in T, \A j \in T : j <= i PROVE Last(T) = i
    <3>1. Last(T) \in T /\ \A j \in T : j <= Last(T)
      BY <2>4
    <3>2. i \in Nat /\ Last(T) \in Nat /\ i <= Last(T) /\ Last(T) <= i
      BY <2>4, <3>1
    <3> HIDE DEF Last
    <3> QED BY <3>2
  <2>5. \A n : Where(n) \in SUBSET Nat
    BY <2>1
  <2>6. Defaults \in SUBSET Nat
    BY <2>1
  <2> HIDE DEF list, At, Present, Where, Defaults, Last, reg, D, S, F, def
  <2>7. reg.ok <=> /\ \A i \in DOMAIN list : At(i) # Broken
                   /\ \A i \in Present : \A n \in DOMAIN At(i).vaults : ~Rejected(At(i).vaults[n])
    <3>1. reg.ok <=> \A i \in DOMAIN list : ~F(i)
      BY <2>1, <2>2 DEF Says, F
    <3>2. \A i \in Present : i \in DOMAIN list
      BY <2>3
    <3> QED BY <2>3, <3>1, <3>2
  <2>8. ASSUME reg.ok PROVE DOMAIN reg.vaults = {n \in Name : Where(n) # {}}
    <3>1. \A n : n \in DOMAIN reg.vaults <=> \E i \in DOMAIN list : D(i, n)
      BY <2>1, <2>2, <2>8 DEF Says, D
    <3>2. DOMAIN reg.vaults \subseteq Name
      BY <1>1, <2>8, NamesOfRegistry DEF reg
    <3> QED BY <2>3, <3>1, <3>2
  <2>9. ASSUME reg.ok, NEW n \in DOMAIN reg.vaults
        PROVE  reg.vaults[n] = [At(Last(Where(n))).vaults[n] EXCEPT !.path =
                                  NormalizePath(@, list[Last(Where(n))])]
    <3>1. PICK i \in DOMAIN list : /\ D(i, n) /\ \A j \in DOMAIN list : D(j, n) => j <= i
                                   /\ reg.vaults[n] = def(i, n)
      BY <2>1, <2>2, <2>9 DEF Says, D, def
    <3>2. Last(Where(n)) = i
      BY <2>3, <2>4, <2>5, <3>1
    <3> QED BY <2>3, <3>1, <3>2
  <2>10. ASSUME reg.ok
         PROVE  reg.default = IF Defaults = {} THEN NoName ELSE At(Last(Defaults)).default
    <3>1. CASE reg.default = NoName /\ \A i \in DOMAIN list : ~S(i)
      BY <2>3, <3>1
    <3>2. ASSUME NEW i \in DOMAIN list, S(i), \A j \in DOMAIN list : S(j) => j <= i,
                 reg.default = Content(files, list, Cwd[p], i).default
          PROVE  reg.default = IF Defaults = {} THEN NoName ELSE At(Last(Defaults)).default
      <4>1. i \in Defaults /\ Last(Defaults) = i
        BY <2>3, <2>4, <2>6, <3>2
      <4>2. Content(files, list, Cwd[p], i) = At(i)
        BY DEF Content, At
      <4> QED BY <3>2, <4>1, <4>2
    <3>3. \/ reg.default = NoName /\ \A i \in DOMAIN list : ~S(i)
          \/ \E i \in DOMAIN list :
               /\ S(i) /\ \A j \in DOMAIN list : S(j) => j <= i
               /\ reg.default = Content(files, list, Cwd[p], i).default
      BY <2>1, <2>2, <2>10 DEF Says, S
    <3> QED BY <3>1, <3>2, <3>3
  <2> QED BY <2>7, <2>8, <2>9, <2>10 DEF list, At, Present, Where, Defaults, Last, reg
<1> QED BY FilesInit, FilesStep, <1>1, PTL DEF Spec

-----------------------------------------------------------------------------
(* What a call knows at each place: the name of its vault once a registry  *)
(* gave it, the requests, and answers that keep the contract.              *)
Fine(place, j) ==
  /\ j.tries \in 0 .. Retries - 1
  /\ place \in Reaching \cup {"get"} => j.vault \in Name
  /\ place \in {"prompt", "open", "ensure", "unlock"} =>
       Len(j.reqs) \in Nat /\ DOMAIN j.reqs = 1 .. Len(j.reqs)
  /\ place \in {"open", "ensure", "unlock"} =>
       KeepsContract(j.reqs, [err |-> "none", answers |-> j.answers])

FineInv == \A c \in Call : Fine(pc[c], job[c])

(* A name that a registry resolves is one of its names. *)
LEMMA ResolvedNames ==
  ASSUME FilesInv, NEW p \in Program, NEW written,
         Resolves(RegistryOf(p), EffectiveName(RegistryOf(p), written))
  PROVE  /\ EffectiveName(RegistryOf(p), written) \in Name
         /\ EffectiveName(RegistryOf(p), written) \in DOMAIN RegistryOf(p).vaults
<1> DEFINE reg  == RegistryOf(p)
           name == EffectiveName(reg, written)
<1>1. DOMAIN reg.vaults \subseteq Name /\ EffectiveName(reg, name) \in DOMAIN reg.vaults
  BY NamesOfRegistry DEF Resolves
<1>2. EffectiveName(reg, name) # NoName
  BY <1>1, RegistryAssumption
<1> HIDE DEF reg
<1>3. name = EffectiveName(reg, name)
  BY <1>2 DEF EffectiveName
<1> QED BY <1>1, <1>3 DEF reg

(* Whatever the prompter, its answers keep the contract (prompt.go:23). *)
LEMMA DispatchesKeepContract ==
  ASSUME NEW p \in Program, NEW reqs, Len(reqs) \in Nat, DOMAIN reqs = 1 .. Len(reqs),
         NEW result \in Dispatched(p, reqs), result.err = "none"
  PROVE  KeepsContract(reqs, [err |-> "none", answers |-> result.answers])
<1>1. ASSUME NEW lines, NEW left, result = [DispatchCLI(reqs, lines) EXCEPT !.lines = left]
      PROVE  KeepsContract(reqs, [err |-> "none", answers |-> result.answers])
  <2> DEFINE asked == DispatchCLI(reqs, lines)
  <2>1. /\ KeepsContract(reqs, asked)
        /\ asked = [err |-> asked.err, answers |-> asked.answers, lines |-> asked.lines]
    BY CLIKeepsContract
  <2> HIDE DEF asked
  <2>2. result.err = asked.err /\ result.answers = asked.answers
    BY <1>1, <2>1 DEF asked
  <2> QED BY <2>1, <2>2 DEF KeepsContract
<1>2. ASSUME KeepsContract(reqs, result)
      PROVE  KeepsContract(reqs, [err |-> "none", answers |-> result.answers])
  BY <1>2 DEF KeepsContract
<1>3. PICK by \in Prompters[p] : result \in
        (CASE by = "terminal" -> {[DispatchCLI(reqs, typed) EXCEPT !.lines = stdin[p]] : typed \in Typed}
           [] by = "pipe"     -> {[DispatchCLI(reqs, stdin[p]) EXCEPT !.lines = LeftInInput(stdin[p], @)]}
           [] by = "map"      -> {DispatchValues(Known, reqs, stdin[p])}
           [] by = "none"     -> {DispatchNone(reqs, stdin[p])})
  BY DEF Dispatched
<1>4. by \in {"terminal", "pipe", "map", "none"}
  BY ResolverAssumption
<1>5. CASE by = "terminal"
  BY <1>1, <1>3, <1>5
<1>6. CASE by = "pipe"
  <2>1. result = [DispatchCLI(reqs, stdin[p]) EXCEPT !.lines = LeftInInput(stdin[p], @)]
    BY <1>3, <1>6
  <2> QED BY <1>1, <2>1
<1>7. CASE by = "map"
  BY <1>2, <1>3, <1>7, ValuesKeepContract
<1>8. CASE by = "none"
  BY <1>2, <1>3, <1>8, NoneKeepsContract
<1> QED BY <1>4, <1>5, <1>6, <1>7, <1>8

LEMMA BlankIsFine == \A place \in {"idle", "token", "select", "resolve"} :
  \A j : j.tries = 0 => Fine(place, j)
BY ResolverAssumption DEF Fine, Reaching

LEMMA FineStep ==
  ASSUME Inv, FineInv, NEW c \in Call, NEW next, NEW record, Step(c, next, record), Fine(next, record)
  PROVE  FineInv'
BY StepChanges DEF Inv, FineInv

LEMMA FineFail ==
  ASSUME Inv, FineInv, NEW c \in Call, Fail(c)
  PROVE  FineInv'
<1>1. Blank.tries = 0
  BY DEF Blank
<1> QED BY <1>1, BlankIsFine, FineStep DEF Fail

LEMMA FineRetry ==
  ASSUME Inv, FineInv, NEW c \in Call, pc[c] \in {"open", "unlock"}, Retry(c)
  PROVE  FineInv'
<1> DEFINE again == [job[c] EXCEPT !.tries = @ + 1, !.answers = <<>>]
<1>1. /\ again.vault = job[c].vault /\ again.reqs = job[c].reqs
      /\ again.tries = job[c].tries + 1
  BY BlankFields DEF Inv, Shape
<1>2. Fail(c) \/ (job[c].tries + 1 < Retries /\ Step(c, "prompt", again))
  BY DEF Retry, Continue
<1> HIDE DEF again
<1>3. job[c].tries + 1 < Retries => Fine("prompt", again)
  <2>1. Fine(pc[c], job[c]) /\ pc[c] \in Reaching
    BY DEF FineInv, Reaching
  <2>2. job[c].tries \in Nat /\ Retries \in Nat
    BY <2>1, ResolverAssumption DEF Fine
  <2>3. job[c].tries + 1 < Retries => job[c].tries + 1 \in 0 .. Retries - 1
    BY <2>2
  <2> QED BY <1>1, <2>1, <2>3 DEF Fine
<1> QED BY <1>2, <1>3, FineFail, FineStep

LEMMA FineWorld ==
  ASSUME Inv, FineInv,
         \/ \E f \in Edited : \E content \in Contents[f] : Edit(f, content)
         \/ \E id \in DOMAIN agents : AgentLeaves(id)
         \/ \E p \in Program : Close(p)
         \/ UNCHANGED vars
  PROVE  FineInv'
<1>1. ASSUME UNCHANGED calls PROVE FineInv'
  BY <1>1 DEF calls, FineInv
<1>2. ASSUME NEW id, AgentLeaves(id) PROVE FineInv'
  <2>1. UNCHANGED pc
    BY <1>2 DEF AgentLeaves
  <2>2. \A c \in Call :
          /\ job'[c].tries = job[c].tries /\ job'[c].vault = job[c].vault
          /\ job'[c].reqs = job[c].reqs /\ job'[c].answers = job[c].answers
    BY <1>2, BlankFields DEF AgentLeaves, Inv, Shape
  <2> QED BY <2>1, <2>2 DEF FineInv, Fine
<1> QED BY <1>1, <1>2 DEF Edit, Close, vars

LEMMA RequestsAreLists ==
  \A conf : Len(Credentials(conf)) \in Nat /\ DOMAIN Credentials(conf) = 1 .. Len(Credentials(conf))
BY DEF Credentials

LEMMA FineBegins ==
  ASSUME Inv, FineInv, FilesInv, NEW c \in Call, Start(c) \/ Acquire(c) \/ Resolve(c) \/ Select(c)
  PROVE  FineInv'
<1>1. job[c].tries \in 0 .. Retries - 1 /\ DOMAIN job[c] = DOMAIN Blank /\ Blank.tries = 0 /\ Of[c] \in Program
  BY CallsOfPrograms DEF Inv, Shape, FineInv, Fine, Blank
<1>2. CASE Start(c)
  <2>1. \E record : record.tries = 0 /\ (Step(c, "token", record) \/ Step(c, "select", record))
    BY <1>2 DEF Start, Blank
  <2> QED BY <2>1, BlankIsFine, FineStep
<1>3. CASE Acquire(c)
  <2> DEFINE record == [job[c] EXCEPT !.vault = ParseRef(Head(job[c].todo)).vault]
  <2>1. record.tries = job[c].tries
    BY <1>1, BlankFields
  <2>2. Fail(c) \/ Step(c, "resolve", record)
    BY <1>3 DEF Acquire
  <2> HIDE DEF record
  <2>3. Fine("resolve", record)
    BY <1>1, <2>1 DEF Fine, Reaching
  <2> QED BY <2>2, <2>3, FineFail, FineStep
<1>4. CASE Resolve(c)
  <2> DEFINE reg   == RegistryOf(Of[c])
             name  == EffectiveName(reg, job[c].vault)
             named == [job[c] EXCEPT !.vault = name]
             asked == [named EXCEPT !.conf = Conf(reg, name), !.reqs = Credentials(Conf(reg, name))]
  <2>1. /\ named.tries = job[c].tries /\ named.vault = name
        /\ asked.tries = job[c].tries /\ asked.vault = name /\ asked.reqs = Credentials(Conf(reg, name))
    BY <1>1, BlankFields
  <2>2. \/ Fail(c)
        \/ Resolves(reg, name) /\ Step(c, "get", named)
        \/ Resolves(reg, name) /\ Step(c, "proxy", named)
        \/ Resolves(reg, name) /\ Step(c, "prompt", asked)
    BY <1>4 DEF Resolve, Continue
  <2>3. Resolves(reg, name) => name \in Name
    BY <1>1, ResolvedNames
  <2> HIDE DEF reg, name, named, asked
  <2>4. Resolves(reg, name) => Fine("get", named) /\ Fine("proxy", named) /\ Fine("prompt", asked)
    BY <1>1, <2>1, <2>3, RequestsAreLists DEF Fine
  <2> QED BY <2>2, <2>4, FineFail, FineStep
<1>5. CASE Select(c)
  <2> DEFINE reg   == RegistryOf(Of[c])
             name  == EffectiveName(reg, job[c].vault)
             id    == Target(Of[c], name, Conf(reg, name))
             there == [job[c] EXCEPT !.vault = name, !.dial = id]
             found == [there EXCEPT !.link = id]
  <2>1. there.tries = job[c].tries /\ there.vault = name /\ found.tries = job[c].tries
    BY <1>1, BlankFields
  <2>2. \/ Fail(c)
        \/ Resolves(reg, name) /\ Step(c, "read", found)
        \/ Resolves(reg, name) /\ Step(c, "proxy", there)
    BY <1>5 DEF Select, Continue
  <2>3. Resolves(reg, name) => name \in Name
    BY <1>1, ResolvedNames
  <2> HIDE DEF reg, name, there, found
  <2>4. Fine("read", found) /\ (Resolves(reg, name) => Fine("proxy", there))
    BY <1>1, <2>1, <2>3 DEF Fine, Reaching
  <2> QED BY <2>2, <2>4, FineFail, FineStep
<1> QED BY <1>2, <1>3, <1>4, <1>5

LEMMA FineOnTheWay ==
  ASSUME Inv, FineInv, NEW c \in Call, Proxy(c) \/ Declare(c) \/ Prompt(c) \/ Ensure(c)
  PROVE  FineInv'
<1>1. Fine(pc[c], job[c]) /\ DOMAIN job[c] = DOMAIN Blank /\ Of[c] \in Program
  BY CallsOfPrograms DEF Inv, Shape, FineInv
<1>2. CASE Proxy(c)
  <2> DEFINE record == [job[c] EXCEPT !.conf = Conf(RegistryOf(Of[c]), job[c].vault)]
  <2>1. record.tries = job[c].tries /\ record.vault = job[c].vault
    BY <1>1, BlankFields
  <2>2. pc[c] = "proxy" /\ (Fail(c) \/ Step(c, "declare", record))
    BY <1>2 DEF Proxy, Continue
  <2> HIDE DEF record
  <2>3. Fine("declare", record)
    BY <1>1, <2>1, <2>2 DEF Fine, Reaching
  <2> QED BY <2>2, <2>3, FineFail, FineStep
<1>3. CASE Declare(c)
  <2> DEFINE reqs   == IF Running(Id(c)) THEN <<>> ELSE Credentials(job[c].conf)
             record == [job[c] EXCEPT !.reqs = reqs]
  <2>1. record.tries = job[c].tries /\ record.vault = job[c].vault /\ record.reqs = reqs
    BY <1>1, BlankFields
  <2>2. pc[c] = "declare" /\ Step(c, "prompt", record)
    BY <1>3 DEF Declare, Continue
  <2>3. Len(reqs) \in Nat /\ DOMAIN reqs = 1 .. Len(reqs)
    BY RequestsAreLists
  <2> HIDE DEF record, reqs
  <2>4. Fine("prompt", record)
    BY <1>1, <2>1, <2>2, <2>3 DEF Fine, Reaching
  <2> QED BY <2>2, <2>4, FineStep
<1>4. CASE Prompt(c)
  <2>1. PICK result \in Dispatched(Of[c], job[c].reqs) :
          IF result.err # "none" THEN Fail(c)
          ELSE Continue(c, IF job[c].mode = "inprocess" THEN "open" ELSE "ensure",
                        [job[c] EXCEPT !.answers = result.answers])
    BY <1>4 DEF Prompt
  <2> DEFINE record == [job[c] EXCEPT !.answers = result.answers]
  <2>2. /\ record.tries = job[c].tries /\ record.vault = job[c].vault
        /\ record.reqs = job[c].reqs /\ record.answers = result.answers
    BY <1>1, BlankFields
  <2>3. pc[c] = "prompt"
    BY <1>4 DEF Prompt
  <2>4. \/ Fail(c)
        \/ result.err = "none" /\ (Step(c, "open", record) \/ Step(c, "ensure", record))
    BY <2>1 DEF Continue
  <2> HIDE DEF record
  <2>5. result.err = "none" => Fine("open", record) /\ Fine("ensure", record)
    BY <1>1, <2>2, <2>3, DispatchesKeepContract DEF Fine, Reaching
  <2> QED BY <2>4, <2>5, FineFail, FineStep
<1>5. CASE Ensure(c)
  <2>1. pc[c] = "ensure" /\ (Fail(c) \/ Step(c, "unlock", job[c]))
    BY <1>5 DEF Ensure, Continue
  <2>2. Fine("unlock", job[c])
    BY <1>1, <2>1 DEF Fine, Reaching
  <2> QED BY <2>1, <2>2, FineFail, FineStep
<1> QED BY <1>2, <1>3, <1>4, <1>5

LEMMA FineAtTheEnd ==
  ASSUME Inv, FineInv, NEW c \in Call,
         Open(c) \/ Unlock(c) \/ Get(c) \/ Redial(c) \/ Read(c)
  PROVE  FineInv'
<1>1. Fine(pc[c], job[c]) /\ DOMAIN job[c] = DOMAIN Blank /\ Blank.tries = 0
  BY DEF Inv, Shape, FineInv, Blank
<1>2. CASE Open(c) \/ Unlock(c)
  <2> DEFINE linked == [Unlocked(c) EXCEPT !.link = Id(c)]
  <2>1. pc[c] \in {"open", "unlock"}
    BY <1>2 DEF Open, Unlock
  <2>2. \/ Step(c, "get", Unlocked(c)) \/ Step(c, "redial", linked)
        \/ Retry(c) \/ Fail(c)
    BY <1>2 DEF Open, Unlock, Keep, Continue
  <2>3. Unlocked(c).tries = 0 /\ Unlocked(c).vault = job[c].vault /\ linked.tries = 0
    BY <1>1, BlankFields DEF Unlocked
  <2> HIDE DEF linked
  <2>4. Fine("get", Unlocked(c)) /\ Fine("redial", linked)
    BY <1>1, <2>1, <2>3, ResolverAssumption DEF Fine, Reaching
  <2> QED BY <2>1, <2>2, <2>4, FineFail, FineRetry, FineStep
<1>3. CASE Get(c)
  <2> DEFINE record == [Blank EXCEPT !.mode = job[c].mode, !.todo = Tail(job[c].todo)]
  <2>1. record.tries = 0
    BY BlankFields, <1>1
  <2>2. Fail(c) \/ Step(c, "idle", Blank) \/ Step(c, "token", record)
    BY <1>3 DEF Get
  <2> HIDE DEF record
  <2> QED BY <1>1, <2>1, <2>2, BlankIsFine, FineFail, FineStep
<1>4. CASE Redial(c)
  <2> DEFINE record == [job[c] EXCEPT !.link = job[c].dial]
  <2>1. record.tries = job[c].tries
    BY BlankFields, <1>1
  <2>2. Fail(c) \/ Step(c, "read", record)
    BY <1>4 DEF Redial, Continue
  <2> HIDE DEF record
  <2>3. Fine("read", record)
    BY <1>1, <2>1 DEF Fine, Reaching
  <2> QED BY <2>2, <2>3, FineFail, FineStep
<1>5. CASE Read(c)
  <2>1. Fail(c) \/ Step(c, "idle", Blank)
    BY <1>5 DEF Read
  <2> QED BY <1>1, <2>1, BlankIsFine, FineFail, FineStep
<1> QED BY <1>2, <1>3, <1>4, <1>5

LEMMA FineInit == Init => FineInv
<1>1. Blank.tries = 0
  BY DEF Blank
<1> QED BY <1>1, BlankIsFine DEF Init, FineInv

LEMMA FineKept == Inv /\ FilesInv /\ FineInv /\ [Next]_vars => FineInv'
BY FineWorld, FineBegins, FineOnTheWay, FineAtTheEnd DEF Next, Proceed

(* prompt.go:23: the answers that go to a driver or an agent are all those *)
(* required and no others, whatever prompters a program installs, and      *)
(* whatever is typed, piped or known to them.                              *)
THEOREM DriversGetAnswers == Spec => []AnswersKeepContract
<1>1. FineInv => AnswersKeepContract
  BY DEF FineInv, Fine, AnswersKeepContract
<1> QED BY InvInit, InvStep, FilesInit, FilesStep, FineInit, FineKept, <1>1, PTL DEF Spec

-----------------------------------------------------------------------------
(* Agents and managers: the names are names, and what is open is a vault.  *)
AgentsInv ==
  \A id \in DOMAIN agents :
    /\ id.name \in Name
    /\ agents[id] = [conf |-> agents[id].conf, file |-> agents[id].file, open |-> agents[id].open]
    /\ agents[id].open \in BOOLEAN
    /\ agents[id].open => agents[id].file \in VaultFile

KeptInv ==
  \A p \in Program : \A n \in DOMAIN kept[p] :
    /\ n \in Name
    /\ kept[p][n] = [id |-> kept[p][n].id, up |-> kept[p][n].up, file |-> kept[p][n].file]
    /\ kept[p][n].up \in BOOLEAN
    /\ kept[p][n].file \in VaultFile

CountsInv == edits \in 0 .. MaxEdits /\ mutex \in [Program -> Call \cup {NoCall}]

LEMMA OpenedAgent ==
  ASSUME NEW a, a = [conf |-> a.conf, file |-> a.file, open |-> a.open], NEW open
  PROVE  [a EXCEPT !.open = open] = [conf |-> a.conf, file |-> a.file, open |-> open]
OBVIOUS

LEMMA BrokenManager ==
  ASSUME NEW m, m = [id |-> m.id, up |-> m.up, file |-> m.file], NEW up
  PROVE  LET broken == [m EXCEPT !.up = up]
         IN  /\ broken = [id |-> broken.id, up |-> broken.up, file |-> broken.file]
             /\ broken.up = up /\ broken.file = m.file /\ broken.id = m.id
<1>1. [m EXCEPT !.up = up] = [id |-> m.id, up |-> up, file |-> m.file]
  OBVIOUS
<1> QED BY <1>1

(* Which steps change what. *)
LEMMA WhoChanges ==
  ASSUME [Next]_vars
  PROVE  /\ \/ UNCHANGED edits
            \/ \E f \in Edited : \E content \in Contents[f] : Edit(f, content)
         /\ \/ UNCHANGED agents
            \/ \E id \in DOMAIN agents : AgentLeaves(id)
            \/ \E c \in Call : Ensure(c) \/ Unlock(c)
         /\ \/ UNCHANGED kept
            \/ \E id \in DOMAIN agents : AgentLeaves(id)
            \/ \E p \in Program : Close(p)
            \/ \E c \in Call : Open(c) \/ Unlock(c)
<1>1. ASSUME UNCHANGED vars PROVE UNCHANGED <<edits, agents, kept>>
  BY <1>1 DEF vars
<1>2. ASSUME NEW f, NEW content, Edit(f, content) PROVE UNCHANGED <<agents, kept>>
  BY <1>2 DEF Edit
<1>3. ASSUME NEW id, AgentLeaves(id) PROVE UNCHANGED edits
  BY <1>3 DEF AgentLeaves
<1>4. ASSUME NEW p, Close(p) PROVE UNCHANGED <<edits, agents>>
  BY <1>4 DEF Close, world
<1>5. ASSUME NEW c, Start(c) \/ Acquire(c) \/ Resolve(c) \/ Proxy(c) \/ Declare(c) \/ Prompt(c)
                    \/ Get(c) \/ Select(c) \/ Redial(c) \/ Read(c)
      PROVE  UNCHANGED <<edits, agents, kept>>
  BY <1>5 DEF Start, Acquire, Resolve, Proxy, Declare, Prompt, Get, Select, Redial, Read, world
<1>6. ASSUME NEW c, Open(c) PROVE UNCHANGED <<edits, agents>>
  BY <1>6 DEF Open, world
<1>7. ASSUME NEW c, Ensure(c) PROVE UNCHANGED <<edits, kept>>
  BY <1>7 DEF Ensure, world
<1>8. ASSUME NEW c, Unlock(c) PROVE UNCHANGED edits
  BY <1>8 DEF Unlock, world
<1> QED BY <1>1, <1>2, <1>3, <1>4, <1>5, <1>6, <1>7, <1>8 DEF Next, Proceed

LEMMA CountsStep ==
  ASSUME Inv, CountsInv, [Next]_vars
  PROVE  CountsInv'
<1>1. edits' \in 0 .. MaxEdits
  <2>1. ASSUME NEW f, NEW content, Edit(f, content) PROVE edits' \in 0 .. MaxEdits
    BY <2>1, ResolverAssumption DEF Edit, CountsInv
  <2> QED BY <2>1, WhoChanges DEF CountsInv
<1>2. \/ UNCHANGED mutex
      \/ \E c \in Call : Release(c) \/ mutex' = [mutex EXCEPT ![Of[c]] = c]
  <2>1. ASSUME NEW c \in Call, Start(c) \/ Proceed(c) PROVE UNCHANGED mutex \/ Release(c)
    BY <2>1 DEF Start, Proceed, Resolve, Proxy, Declare, Prompt, Open, Ensure, Unlock, Get, Select,
                Redial, Read, Continue, Fail, Retry, Keep
  <2>2. ASSUME NEW c \in Call, Acquire(c)
        PROVE  Release(c) \/ mutex' = [mutex EXCEPT ![Of[c]] = c]
    BY <2>2 DEF Acquire, Fail
  <2>3. (\E f \in Edited : \E content \in Contents[f] : Edit(f, content))
          \/ (\E id \in DOMAIN agents : AgentLeaves(id)) \/ (\E p \in Program : Close(p))
          \/ UNCHANGED vars
        => UNCHANGED mutex
    BY DEF Edit, AgentLeaves, Close, vars
  <2> QED BY <2>1, <2>2, <2>3 DEF Next
<1>3. mutex' \in [Program -> Call \cup {NoCall}]
  BY <1>2, CallsOfPrograms DEF CountsInv, Release
<1> QED BY <1>1, <1>3 DEF CountsInv

LEMMA AgentsStep ==
  ASSUME Inv, FineInv, AgentsInv, [Next]_vars
  PROVE  AgentsInv'
<1>1. ASSUME NEW id, AgentLeaves(id) PROVE AgentsInv'
  <2>1. /\ DOMAIN agents' = DOMAIN agents \ {id}
        /\ \A i \in DOMAIN agents' : agents'[i] = agents[i]
    BY <1>1 DEF AgentLeaves
  <2> QED BY <2>1 DEF AgentsInv
<1>2. ASSUME NEW c \in Call, Ensure(c) PROVE AgentsInv'
  <2>1. CASE UNCHANGED agents
    BY <2>1 DEF AgentsInv
  <2>2. ASSUME NEW conf, agents' = With(agents, Id(c), Served(Of[c], conf)) PROVE AgentsInv'
    <3> DEFINE new == Served(Of[c], conf)
    <3>1. Id(c).name \in Name
      BY <1>2 DEF Ensure, FineInv, Fine, Reaching, Id, VaultID
    <3>2. new = [conf |-> new.conf, file |-> new.file, open |-> new.open] /\ new.open = FALSE
      BY DEF Served
    <3> HIDE DEF new
    <3>3. /\ DOMAIN agents' = DOMAIN agents \cup {Id(c)}
          /\ \A i \in DOMAIN agents' : agents'[i] = IF i = Id(c) THEN new ELSE agents[i]
      BY <2>2 DEF With, new
    <3> QED BY <3>1, <3>2, <3>3 DEF AgentsInv
  <2> QED BY <1>2, <2>1, <2>2 DEF Ensure
<1>3. ASSUME NEW c \in Call, Unlock(c) PROVE AgentsInv'
  <2>1. CASE UNCHANGED agents
    BY <2>1 DEF AgentsInv
  <2>2. CASE /\ agents' = [agents EXCEPT ![Id(c)].open = TRUE]
             /\ Running(Id(c)) /\ (agents[Id(c)].open \/ agents[Id(c)].file \in VaultFile)
    <3> DEFINE id == Id(c)
               new == [agents[id] EXCEPT !.open = TRUE]
    <3>1. id \in DOMAIN agents /\ agents[id].file \in VaultFile
      BY <2>2 DEF AgentsInv, Running
    <3>2. new = [conf |-> agents[id].conf, file |-> agents[id].file, open |-> TRUE]
      BY <3>1, OpenedAgent DEF AgentsInv
    <3>3. agents' = [agents EXCEPT ![id] = new]
      BY <2>2
    <3>4. /\ new = [conf |-> new.conf, file |-> new.file, open |-> new.open]
          /\ new.open = TRUE /\ new.file = agents[id].file
      BY <3>2
    <3> HIDE DEF new, id
    <3>5. /\ DOMAIN agents' = DOMAIN agents
          /\ \A i \in DOMAIN agents' : agents'[i] = IF i = id THEN new ELSE agents[i]
      BY <3>3
    <3> QED BY <3>1, <3>4, <3>5 DEF AgentsInv
  <2> QED BY <1>3, <2>1, <2>2 DEF Unlock, OpenOutcome
<1>4. CASE UNCHANGED agents
  BY <1>4 DEF AgentsInv
<1> QED BY <1>1, <1>2, <1>3, <1>4, WhoChanges

(* Keep adds an entry to one Loader. *)
LEMMA KeepAdds ==
  ASSUME Inv, NEW c \in Call, NEW id, NEW file, Keep(c, id, file)
  PROVE  LET new == [id |-> id, up |-> TRUE, file |-> file]
         IN  \A p \in Program :
               /\ DOMAIN kept'[p] = DOMAIN kept[p] \cup (IF p = Of[c] THEN {job[c].vault} ELSE {})
               /\ \A n \in DOMAIN kept'[p] :
                    kept'[p][n] = IF p = Of[c] /\ n = job[c].vault THEN new ELSE kept[p][n]
<1> DEFINE new == [id |-> id, up |-> TRUE, file |-> file]
<1>1. \A p \in Program : kept'[p] = IF p = Of[c] THEN With(kept[p], job[c].vault, new) ELSE kept[p]
  BY CallsOfPrograms DEF Keep, Inv, Shape
<1> HIDE DEF new
<1>2. \A p \in Program :
        /\ DOMAIN kept'[p] = DOMAIN kept[p] \cup (IF p = Of[c] THEN {job[c].vault} ELSE {})
        /\ \A n \in DOMAIN kept'[p] :
             kept'[p][n] = IF p = Of[c] /\ n = job[c].vault THEN new ELSE kept[p][n]
  BY <1>1 DEF With
<1> QED BY <1>2 DEF new

LEMMA KeptStep ==
  ASSUME Inv, FineInv, AgentsInv, KeptInv, [Next]_vars
  PROVE  KeptInv'
<1>1. ASSUME NEW c \in Call, pc[c] \in {"open", "unlock"}, NEW id, NEW file \in VaultFile, Keep(c, id, file)
      PROVE  KeptInv'
  <2> DEFINE new == [id |-> id, up |-> TRUE, file |-> file]
  <2>1. job[c].vault \in Name
    BY <1>1 DEF FineInv, Fine, Reaching
  <2>2. /\ new = [id |-> new.id, up |-> new.up, file |-> new.file]
        /\ new.up \in BOOLEAN /\ new.file \in VaultFile
    OBVIOUS
  <2>3. \A p \in Program :
          /\ DOMAIN kept'[p] = DOMAIN kept[p] \cup (IF p = Of[c] THEN {job[c].vault} ELSE {})
          /\ \A n \in DOMAIN kept'[p] :
               kept'[p][n] = IF p = Of[c] /\ n = job[c].vault THEN new ELSE kept[p][n]
    BY <1>1, KeepAdds
  <2> HIDE DEF new
  <2> QED BY <2>1, <2>2, <2>3 DEF KeptInv
<1>2. ASSUME NEW c \in Call, Open(c) PROVE KeptInv'
  <2>1. CASE UNCHANGED kept
    BY <2>1 DEF KeptInv
  <2> DEFINE file == Located(job[c].conf.path, Cwd[Of[c]])
  <2>2. UNCHANGED kept \/ (file \in VaultFile /\ pc[c] = "open" /\ Keep(c, Nothing, file))
    BY <1>2 DEF Open, OpenOutcome
  <2> HIDE DEF file
  <2> QED BY <1>1, <2>1, <2>2
<1>3. ASSUME NEW c \in Call, Unlock(c) PROVE KeptInv'
  <2>1. CASE UNCHANGED kept
    BY <2>1 DEF KeptInv
  <2>2. \/ UNCHANGED kept
        \/ /\ pc[c] = "unlock" /\ Running(Id(c))
           /\ agents[Id(c)].open \/ agents[Id(c)].file \in VaultFile
           /\ Keep(c, Id(c), agents[Id(c)].file)
    BY <1>3 DEF Unlock, OpenOutcome
  <2>3. Running(Id(c)) /\ agents[Id(c)].open => agents[Id(c)].file \in VaultFile
    BY DEF AgentsInv, Running
  <2> QED BY <1>1, <2>1, <2>2, <2>3
<1>4. ASSUME NEW id, AgentLeaves(id) PROVE KeptInv'
  <2>1. \A p \in Program :
          /\ DOMAIN kept'[p] = DOMAIN kept[p]
          /\ \A n \in DOMAIN kept[p] :
               kept'[p][n] = IF kept[p][n].id = id THEN [kept[p][n] EXCEPT !.up = FALSE] ELSE kept[p][n]
    BY <1>4 DEF AgentLeaves
  <2>2. ASSUME NEW p \in Program, NEW n \in DOMAIN kept'[p]
        PROVE  /\ n \in Name
               /\ kept'[p][n] = [id |-> kept'[p][n].id, up |-> kept'[p][n].up, file |-> kept'[p][n].file]
               /\ kept'[p][n].up \in BOOLEAN
               /\ kept'[p][n].file \in VaultFile
    <3> DEFINE m == kept[p][n]
               broken == [m EXCEPT !.up = FALSE]
    <3>1. /\ n \in Name /\ m = [id |-> m.id, up |-> m.up, file |-> m.file]
          /\ m.up \in BOOLEAN /\ m.file \in VaultFile
      BY <2>1, <2>2 DEF KeptInv
    <3>2. /\ broken = [id |-> broken.id, up |-> broken.up, file |-> broken.file]
          /\ broken.up \in BOOLEAN /\ broken.file \in VaultFile
      <4> HIDE DEF m
      <4> QED BY <3>1, BrokenManager
    <3>3. kept'[p][n] = broken \/ kept'[p][n] = m
      BY <2>1, <2>2
    <3> HIDE DEF m, broken
    <3> QED BY <3>1, <3>2, <3>3
  <2> QED BY <2>2 DEF KeptInv
<1>5. ASSUME NEW p \in Program, Close(p) PROVE KeptInv'
  <2>1. \A q \in Program : kept'[q] = IF q = p THEN <<>> ELSE kept[q]
    BY <1>5 DEF Close, Inv, Shape
  <2> QED BY <2>1 DEF KeptInv
<1>6. CASE UNCHANGED kept
  BY <1>6 DEF KeptInv
<1> QED BY <1>2, <1>3, <1>4, <1>5, <1>6, WhoChanges

(* Every variable keeps to its type; in particular a manager is kept, and  *)
(* an agent is open, only where there is a vault.                          *)
THEOREM TypeCorrect == Spec => []TypeOK
<1>1. Init => AgentsInv /\ KeptInv /\ CountsInv
  BY ResolverAssumption DEF Init, AgentsInv, KeptInv, CountsInv
<1>2. FilesInv /\ FineInv /\ AgentsInv /\ KeptInv /\ CountsInv => TypeOK
  BY DEF FilesInv, FineInv, Fine, AgentsInv, KeptInv, CountsInv, TypeOK
<1>3. Inv /\ FineInv /\ AgentsInv /\ KeptInv /\ CountsInv /\ [Next]_vars
        => AgentsInv' /\ KeptInv' /\ CountsInv'
  BY AgentsStep, KeptStep, CountsStep
<1> QED BY InvInit, InvStep, FilesInit, FilesStep, FineInit, FineKept, <1>1, <1>2, <1>3, PTL DEF Spec

-----------------------------------------------------------------------------
(* From here on the registry does not change between its readings for one  *)
(* unlock, no program has its own Options.VaultID (Undisturbed), and no    *)
(* list of registry files has a relative one.                              *)
Undisturbed == ~EditsDuringUnlock /\ \A p \in Program : Override[p] = Nothing

Absolute == \A p \in Program : \A i \in DOMAIN FileList(Env[p]) : FileList(Env[p])[i][1] # Here

(* What was meant at any time stays known. *)
MeantInv == Meaning \subseteq meant

(* The file that an agent serves is the one that its identity names. *)
AgentFilesInv ==
  \A id \in DOMAIN agents : id.conf.path # NoPath /\ agents[id].file = id.conf.path

KeptMeant == \A p \in Program : \A n \in DOMAIN kept[p] : <<p, n, kept[p][n].file>> \in meant

(* What a call at a place carries, given what was meant so far, what its   *)
(* program's registry says, the agents and its Loader's managers: the path *)
(* of its own vault, in its definition and in the identity that it dials.  *)
Own(c, place, j, everMeant, reg, ids, names) ==
  /\ place \in {"declare", "prompt", "open", "ensure", "unlock"} =>
       /\ j.conf.path # NoPath /\ j.conf.path[1] # Here
       /\ <<Of[c], j.vault, j.conf.path>> \in everMeant
  /\ place \in {"declare", "prompt", "ensure", "unlock"} /\ j.mode # "inprocess" =>
       j.conf = Conf(reg, j.vault)
  /\ place \in {"proxy", "declare", "ensure", "unlock"} => j.mode # "inprocess"
  /\ place = "open" => j.mode = "inprocess"
  /\ place \in {"proxy", "declare", "prompt", "ensure", "unlock", "redial", "read"} /\ j.mode = "command" =>
       j.dial.conf.path = NoPath \/ <<Of[c], j.vault, j.dial.conf.path>> \in everMeant
  /\ place = "read" /\ j.link # Nothing => j.link = j.dial /\ j.link \in ids
  /\ place = "get" => j.vault \in names

OwnInv ==
  \A c \in Call :
    Own(c, pc[c], job[c], meant, RegistryOf(Of[c]), DOMAIN agents, DOMAIN kept[Of[c]])

(* What a program reads in its registry is what it means. *)
LEMMA ReadIsMeant ==
  ASSUME FilesInv, MeantInv, Absolute, NEW p \in Program, NEW name \in Name,
         Resolves(RegistryOf(p), name), Conf(RegistryOf(p), name).path # NoPath
  PROVE  /\ <<p, name, Conf(RegistryOf(p), name).path>> \in meant
         /\ Conf(RegistryOf(p), name).path[1] # Here
<1> DEFINE reg == RegistryOf(p)
<1>1. EffectiveName(reg, name) = name
  BY RegistryAssumption DEF EffectiveName
<1>2. reg.ok /\ name \in DOMAIN reg.vaults
  BY <1>1 DEF Resolves
<1>3. Conf(reg, name) = reg.vaults[name]
  BY <1>1 DEF Conf
<1>4. reg.vaults[name].path # NoPath /\ reg.vaults[name].path[1] # Here
  BY <1>2, <1>3, ReadableLists, AbsolutePaths DEF Absolute, RegistryOf
<1>5. Located(Conf(reg, name).path, Cwd[p]) = Conf(reg, name).path
  BY <1>3, <1>4 DEF Located
<1>6. <<p, name, Located(Conf(reg, name).path, Cwd[p])>> \in Meaning
  BY <1>2 DEF Meaning
<1> HIDE DEF reg
<1> QED BY <1>3, <1>4, <1>5, <1>6 DEF MeantInv, reg

LEMMA SameMeaning ==
  ASSUME UNCHANGED files
  PROVE  Meaning' = Meaning /\ \A p : RegistryOf(p)' = RegistryOf(p)
<1>1. \A p : RegistryOf(p)' = RegistryOf(p)
  BY DEF RegistryOf
<1> QED BY <1>1 DEF Meaning

LEMMA MeantStep ==
  ASSUME MeantInv, [Next]_vars
  PROVE  MeantInv' /\ meant \subseteq meant'
<1>1. ASSUME NEW f, NEW content, Edit(f, content) PROVE MeantInv' /\ meant \subseteq meant'
  BY <1>1 DEF Edit, MeantInv
<1>2. ASSUME UNCHANGED <<files, meant>> PROVE MeantInv' /\ meant \subseteq meant'
  BY <1>2, SameMeaning DEF MeantInv
<1>3. (\E id \in DOMAIN agents : AgentLeaves(id)) \/ (\E p \in Program : Close(p)) \/ UNCHANGED vars
        => UNCHANGED <<files, meant>>
  BY DEF AgentLeaves, Close, world, vars
<1>4. \A c \in Call : Start(c) \/ Acquire(c) \/ Proceed(c) => UNCHANGED <<files, meant>>
  BY DEF Start, Acquire, Proceed, Resolve, Proxy, Declare, Prompt, Open, Ensure, Unlock, Get,
         Select, Redial, Read, world
<1> QED BY <1>1, <1>2, <1>3, <1>4 DEF Next

-----------------------------------------------------------------------------
(* The calls. *)
LEMMA OwnStep ==
  ASSUME Inv, OwnInv, NEW c \in Call, NEW next, NEW record, Step(c, next, record),
         UNCHANGED <<files, meant>>, DOMAIN agents \subseteq DOMAIN agents',
         \A p \in Program : DOMAIN kept[p] \subseteq DOMAIN kept'[p],
         Own(c, next, record, meant, RegistryOf(Of[c]), DOMAIN agents', DOMAIN kept'[Of[c]])
  PROVE  OwnInv'
<1>1. \A d \in Call : RegistryOf(Of[d])' = RegistryOf(Of[d]) /\ Of[d] \in Program
  BY SameMeaning, CallsOfPrograms
<1>2. /\ pc'[c] = next /\ job'[c] = record
      /\ \A d \in Call \ {c} : pc'[d] = pc[d] /\ job'[d] = job[d]
  BY StepChanges DEF Inv
<1>3. ASSUME NEW d \in Call \ {c}
      PROVE  Own(d, pc'[d], job'[d], meant', RegistryOf(Of[d])', DOMAIN agents', DOMAIN kept'[Of[d]])
  <2>1. Own(d, pc[d], job[d], meant, RegistryOf(Of[d]), DOMAIN agents, DOMAIN kept[Of[d]])
    BY DEF OwnInv
  <2>2. DOMAIN kept[Of[d]] \subseteq DOMAIN kept'[Of[d]]
    BY <1>1
  <2>3. Own(d, pc[d], job[d], meant, RegistryOf(Of[d]), DOMAIN agents', DOMAIN kept'[Of[d]])
    BY <2>1, <2>2 DEF Own
  <2> QED BY <1>1, <1>2, <2>3
<1>4. Own(c, pc'[c], job'[c], meant', RegistryOf(Of[c])', DOMAIN agents', DOMAIN kept'[Of[c]])
  BY <1>1, <1>2
<1> QED BY <1>3, <1>4 DEF OwnInv

(* Where nothing is carried. *)
LEMMA OwnElsewhere ==
  ASSUME Inv, OwnInv, NEW c \in Call, NEW next \in {"idle", "token", "select", "resolve"}, NEW record,
         Step(c, next, record), UNCHANGED <<files, meant, agents, kept>>
  PROVE  OwnInv'
<1>1. Own(c, next, record, meant, RegistryOf(Of[c]), DOMAIN agents', DOMAIN kept'[Of[c]])
  BY DEF Own
<1> QED BY <1>1, OwnStep

LEMMA OwnFail ==
  ASSUME Inv, OwnInv, NEW c \in Call, Fail(c), UNCHANGED <<files, meant, agents, kept>>
  PROVE  OwnInv'
BY OwnElsewhere DEF Fail

LEMMA OwnRetry ==
  ASSUME Inv, OwnInv, NEW c \in Call, pc[c] \in {"open", "unlock"}, Retry(c),
         UNCHANGED <<files, meant, agents, kept>>
  PROVE  OwnInv'
<1> DEFINE again == [job[c] EXCEPT !.tries = @ + 1, !.answers = <<>>]
<1>1. /\ again.mode = job[c].mode /\ again.vault = job[c].vault
      /\ again.conf = job[c].conf /\ again.dial = job[c].dial
  BY BlankFields DEF Inv, Shape
<1>2. Fail(c) \/ Step(c, "prompt", again)
  BY DEF Retry, Continue
<1> HIDE DEF again
<1>3. Own(c, "prompt", again, meant, RegistryOf(Of[c]), DOMAIN agents', DOMAIN kept'[Of[c]])
  BY <1>1 DEF OwnInv, Own
<1> QED BY <1>2, <1>3, OwnFail, OwnStep

(* Declarations, answers and a new agent leave what is carried alone. *)
LEMMA OwnCarried ==
  ASSUME Inv, OwnInv, NEW c \in Call, NEW next, NEW record, Step(c, next, record),
         UNCHANGED <<files, meant, kept>>, DOMAIN agents \subseteq DOMAIN agents',
         \/ pc[c] = "declare" /\ next = "prompt"
         \/ pc[c] = "prompt" /\ next = "open" /\ job[c].mode = "inprocess"
         \/ pc[c] = "prompt" /\ next = "ensure" /\ job[c].mode # "inprocess"
         \/ pc[c] = "ensure" /\ next = "unlock",
         record.mode = job[c].mode, record.vault = job[c].vault,
         record.conf = job[c].conf, record.dial = job[c].dial
  PROVE  OwnInv'
<1>1. Own(c, next, record, meant, RegistryOf(Of[c]), DOMAIN agents', DOMAIN kept'[Of[c]])
  BY DEF OwnInv, Own
<1> QED BY <1>1, OwnStep

LEMMA OwnOnTheWay ==
  ASSUME Inv, OwnInv, NEW c \in Call, Declare(c) \/ Prompt(c) \/ Ensure(c)
  PROVE  OwnInv'
<1>1. DOMAIN job[c] = DOMAIN Blank
  BY DEF Inv, Shape
<1>2. CASE Declare(c)
  <2> DEFINE record == [job[c] EXCEPT !.reqs = IF Running(Id(c)) THEN <<>> ELSE Credentials(job[c].conf)]
  <2>1. UNCHANGED <<files, meant, agents, kept>> /\ pc[c] = "declare" /\ Step(c, "prompt", record)
    BY <1>2 DEF Declare, Continue, world
  <2>2. /\ record.mode = job[c].mode /\ record.vault = job[c].vault
        /\ record.conf = job[c].conf /\ record.dial = job[c].dial
    BY <1>1, BlankFields
  <2> HIDE DEF record
  <2> QED BY <2>1, <2>2, OwnCarried
<1>3. CASE Prompt(c)
  <2>1. PICK result \in Dispatched(Of[c], job[c].reqs) :
          IF result.err # "none" THEN Fail(c)
          ELSE Continue(c, IF job[c].mode = "inprocess" THEN "open" ELSE "ensure",
                        [job[c] EXCEPT !.answers = result.answers])
    BY <1>3 DEF Prompt
  <2> DEFINE record == [job[c] EXCEPT !.answers = result.answers]
  <2>2. UNCHANGED <<files, meant, agents, kept>> /\ pc[c] = "prompt"
    BY <1>3 DEF Prompt, world
  <2>3. /\ record.mode = job[c].mode /\ record.vault = job[c].vault
        /\ record.conf = job[c].conf /\ record.dial = job[c].dial
    BY <1>1, BlankFields
  <2>4. \/ Fail(c)
        \/ job[c].mode = "inprocess" /\ Step(c, "open", record)
        \/ job[c].mode # "inprocess" /\ Step(c, "ensure", record)
    BY <2>1 DEF Continue
  <2> HIDE DEF record
  <2> QED BY <2>2, <2>3, <2>4, OwnCarried, OwnFail
<1>4. CASE Ensure(c)
  <2>1. UNCHANGED <<files, meant, kept>> /\ pc[c] = "ensure"
    BY <1>4 DEF Ensure, world
  <2>2. \/ Fail(c) /\ UNCHANGED agents
        \/ /\ Step(c, "unlock", job[c])
           /\ UNCHANGED agents \/ \E conf : agents' = With(agents, Id(c), Served(Of[c], conf))
    BY <1>4 DEF Ensure, Continue
  <2>3. DOMAIN agents \subseteq DOMAIN agents' \/ (Fail(c) /\ UNCHANGED agents)
    BY <2>2 DEF With
  <2> QED BY <2>1, <2>2, <2>3, OwnCarried, OwnFail
<1> QED BY <1>2, <1>3, <1>4

LEMMA OwnResolve ==
  ASSUME Inv, OwnInv, FilesInv, MeantInv, Absolute, NEW c \in Call, Resolve(c)
  PROVE  OwnInv'
<1> DEFINE reg   == RegistryOf(Of[c])
           name  == EffectiveName(reg, job[c].vault)
           conf  == Conf(reg, name)
           named == [job[c] EXCEPT !.vault = name]
           asked == [named EXCEPT !.conf = conf, !.reqs = Credentials(conf)]
<1>1. UNCHANGED <<files, meant, agents, kept>> /\ job[c].mode # "command" /\ Of[c] \in Program
  BY CallsOfPrograms DEF Resolve, Inv, Places, world
<1>2. \/ Fail(c)
      \/ name \in DOMAIN kept[Of[c]] /\ Step(c, "get", named)
      \/ job[c].mode = "agent" /\ Step(c, "proxy", named)
      \/ Resolves(reg, name) /\ conf.path # NoPath /\ Step(c, "prompt", asked)
  BY DEF Resolve, Has, Continue, BuildsDriver
<1>3. /\ named.mode = job[c].mode /\ named.vault = name
      /\ asked.mode = job[c].mode /\ asked.vault = name /\ asked.conf = conf
  BY BlankFields DEF Inv, Shape
<1>4. Resolves(reg, name) => name \in Name
  BY <1>1, ResolvedNames
<1>5. Resolves(reg, name) /\ conf.path # NoPath =>
        <<Of[c], name, conf.path>> \in meant /\ conf.path[1] # Here
  BY <1>1, <1>4, ReadIsMeant
<1>6. conf = Conf(reg, name)
  OBVIOUS
<1> HIDE DEF name, conf, named, asked
<1>7. name \in DOMAIN kept[Of[c]] =>
        Own(c, "get", named, meant, reg, DOMAIN agents', DOMAIN kept'[Of[c]])
  BY <1>1, <1>3 DEF Own
<1>8. job[c].mode = "agent" =>
        Own(c, "proxy", named, meant, reg, DOMAIN agents', DOMAIN kept'[Of[c]])
  BY <1>1, <1>3 DEF Own
<1>9. Resolves(reg, name) /\ conf.path # NoPath =>
        Own(c, "prompt", asked, meant, reg, DOMAIN agents', DOMAIN kept'[Of[c]])
  BY <1>1, <1>3, <1>5, <1>6 DEF Own
<1> HIDE DEF reg
<1> QED BY <1>1, <1>2, <1>7, <1>8, <1>9, OwnStep, OwnFail DEF reg

LEMMA OwnProxy ==
  ASSUME Inv, OwnInv, FilesInv, FineInv, MeantInv, Absolute, NEW c \in Call, Proxy(c)
  PROVE  OwnInv'
<1> DEFINE reg    == RegistryOf(Of[c])
           conf   == Conf(reg, job[c].vault)
           record == [job[c] EXCEPT !.conf = conf]
<1>1. /\ UNCHANGED <<files, meant, agents, kept>> /\ pc[c] = "proxy" /\ Of[c] \in Program
      /\ job[c].vault \in Name
  BY CallsOfPrograms DEF Proxy, world, FineInv, Fine, Reaching
<1>2. \/ Fail(c)
      \/ Resolves(reg, job[c].vault) /\ conf.path # NoPath /\ Step(c, "declare", record)
  BY DEF Proxy, Continue, BuildsDriver
<1>3. /\ record.mode = job[c].mode /\ record.vault = job[c].vault
      /\ record.conf = conf /\ record.dial = job[c].dial
  BY BlankFields DEF Inv, Shape
<1>4. Resolves(reg, job[c].vault) /\ conf.path # NoPath =>
        <<Of[c], job[c].vault, conf.path>> \in meant /\ conf.path[1] # Here
  BY <1>1, ReadIsMeant
<1>5. Own(c, "proxy", job[c], meant, reg, DOMAIN agents, DOMAIN kept[Of[c]])
  BY <1>1 DEF OwnInv
<1>6. conf = Conf(reg, job[c].vault)
  OBVIOUS
<1> HIDE DEF record, conf
<1>7. Resolves(reg, job[c].vault) /\ conf.path # NoPath =>
        Own(c, "declare", record, meant, reg, DOMAIN agents', DOMAIN kept'[Of[c]])
  BY <1>1, <1>3, <1>4, <1>5, <1>6 DEF Own
<1> HIDE DEF reg
<1> QED BY <1>1, <1>2, <1>7, OwnStep, OwnFail DEF reg

LEMMA OwnUnlocked ==
  ASSUME Inv, OwnInv, NEW c \in Call, Open(c) \/ Unlock(c)
  PROVE  OwnInv'
<1> DEFINE linked == [Unlocked(c) EXCEPT !.link = Id(c)]
<1>1. /\ UNCHANGED <<files, meant>> /\ pc[c] \in {"open", "unlock"} /\ Of[c] \in Program
      /\ DOMAIN agents' = DOMAIN agents
  BY CallsOfPrograms DEF Open, Unlock, world
<1>2. \/ \E id, file : Keep(c, id, file)
      \/ pc[c] = "unlock" /\ Step(c, "redial", linked) /\ UNCHANGED kept
      \/ Retry(c) /\ UNCHANGED <<agents, kept>>
      \/ Fail(c) /\ UNCHANGED <<agents, kept>>
  BY DEF Open, Unlock, Continue
<1>3. /\ Unlocked(c).vault = job[c].vault
      /\ linked.mode = job[c].mode /\ linked.vault = job[c].vault /\ linked.dial = job[c].dial
  BY BlankFields DEF Inv, Shape, Unlocked
<1> HIDE DEF linked
<1>4. ASSUME NEW id, NEW file, Keep(c, id, file) PROVE OwnInv'
  <2>1. \A p \in Program :
          DOMAIN kept'[p] = DOMAIN kept[p] \cup (IF p = Of[c] THEN {job[c].vault} ELSE {})
    BY <1>4, KeepAdds
  <2>2. Step(c, "get", Unlocked(c))
    BY <1>4 DEF Keep, Continue
  <2>3. Own(c, "get", Unlocked(c), meant, RegistryOf(Of[c]), DOMAIN agents', DOMAIN kept'[Of[c]])
    BY <1>1, <1>3, <2>1 DEF Own
  <2> QED BY <1>1, <2>1, <2>2, <2>3, OwnStep
<1>5. ASSUME pc[c] = "unlock", Step(c, "redial", linked), UNCHANGED kept PROVE OwnInv'
  <2>1. Own(c, "redial", linked, meant, RegistryOf(Of[c]), DOMAIN agents', DOMAIN kept'[Of[c]])
    BY <1>3, <1>5 DEF OwnInv, Own
  <2> QED BY <1>1, <1>5, <2>1, OwnStep
<1> QED BY <1>1, <1>2, <1>4, <1>5, OwnRetry, OwnFail

(* The command's own identity, from one reading of the registry. *)
LEMMA OwnSelect ==
  ASSUME Inv, OwnInv, FilesInv, MeantInv, Undisturbed, Absolute, NEW c \in Call, Select(c)
  PROVE  OwnInv'
<1> DEFINE reg   == RegistryOf(Of[c])
           name  == EffectiveName(reg, job[c].vault)
           conf  == Conf(reg, name)
           id    == Target(Of[c], name, conf)
           there == [job[c] EXCEPT !.vault = name, !.dial = id]
           found == [there EXCEPT !.link = id]
<1>1. UNCHANGED <<files, meant, agents, kept>> /\ Of[c] \in Program /\ job[c].mode = "command"
  BY CallsOfPrograms DEF Select, world, Inv, Places
<1>2. \/ Fail(c)
      \/ Resolves(reg, name) /\ id \in DOMAIN agents /\ Step(c, "read", found)
      \/ Resolves(reg, name) /\ Step(c, "proxy", there)
  BY DEF Select, Continue, Running
<1>3. /\ there.mode = job[c].mode /\ there.vault = name /\ there.dial = id
      /\ found.mode = job[c].mode /\ found.vault = name /\ found.dial = id /\ found.link = id
  BY BlankFields DEF Inv, Shape
<1>4. id.conf = conf
  BY <1>1 DEF Undisturbed, Target, VaultID
<1>5. Resolves(reg, name) => name \in Name
  BY <1>1, ResolvedNames
<1>6. Resolves(reg, name) => conf.path = NoPath \/ <<Of[c], name, conf.path>> \in meant
  BY <1>1, <1>5, ReadIsMeant
<1> HIDE DEF name, conf, id, there, found
<1>7. Resolves(reg, name) /\ id \in DOMAIN agents =>
        Own(c, "read", found, meant, reg, DOMAIN agents', DOMAIN kept'[Of[c]])
  BY <1>1, <1>3, <1>4, <1>6 DEF Own
<1>8. Resolves(reg, name) => Own(c, "proxy", there, meant, reg, DOMAIN agents', DOMAIN kept'[Of[c]])
  BY <1>1, <1>3, <1>4, <1>6 DEF Own
<1> HIDE DEF reg
<1> QED BY <1>1, <1>2, <1>7, <1>8, OwnStep, OwnFail DEF reg

LEMMA OwnOutside ==
  ASSUME Inv, OwnInv, NEW c \in Call, Start(c) \/ Acquire(c) \/ Get(c) \/ Redial(c) \/ Read(c)
  PROVE  OwnInv'
<1>1. UNCHANGED <<files, meant, agents, kept>>
  BY DEF Start, Acquire, Get, Redial, Read, world
<1>2. CASE Start(c) \/ Acquire(c) \/ Get(c) \/ Read(c)
  <2>1. \E next \in {"idle", "token", "select", "resolve"} : \E record : Step(c, next, record)
    BY <1>2 DEF Start, Acquire, Get, Read, Fail
  <2> QED BY <1>1, <2>1, OwnElsewhere
<1>3. CASE Redial(c)
  <2> DEFINE record == [job[c] EXCEPT !.link = job[c].dial]
  <2>1. /\ record.mode = job[c].mode /\ record.vault = job[c].vault
        /\ record.dial = job[c].dial /\ record.link = job[c].dial
    BY BlankFields DEF Inv, Shape
  <2>2. pc[c] = "redial" /\ (Fail(c) \/ (job[c].dial \in DOMAIN agents /\ Step(c, "read", record)))
    BY <1>3 DEF Redial, Continue, Running
  <2> HIDE DEF record
  <2>3. job[c].dial \in DOMAIN agents =>
          Own(c, "read", record, meant, RegistryOf(Of[c]), DOMAIN agents', DOMAIN kept'[Of[c]])
    BY <1>1, <2>1, <2>2 DEF OwnInv, Own
  <2> QED BY <1>1, <2>2, <2>3, OwnStep, OwnFail
<1> QED BY <1>2, <1>3

(* No edit between two readings; a connection to an agent that leaves      *)
(* breaks; and no manager is closed under the call that is at it.          *)
LEMMA OwnWorld ==
  ASSUME Inv, OwnInv, Undisturbed, meant \subseteq meant',
         \/ \E f \in Edited : \E content \in Contents[f] : Edit(f, content)
         \/ \E id \in DOMAIN agents : AgentLeaves(id)
         \/ \E p \in Program : Close(p)
         \/ UNCHANGED vars
  PROVE  OwnInv'
<1>1. ASSUME NEW f, NEW content, Edit(f, content) PROVE OwnInv'
  <2>1. UNCHANGED <<pc, job, agents, kept>> /\ \A c \in Call : ~Unlocking(c)
    BY <1>1 DEF Edit, calls, Undisturbed
  <2>2. ASSUME NEW c \in Call
        PROVE  Own(c, pc'[c], job'[c], meant', RegistryOf(Of[c])', DOMAIN agents', DOMAIN kept'[Of[c]])
    <3>1. Own(c, pc[c], job[c], meant, RegistryOf(Of[c]), DOMAIN agents, DOMAIN kept[Of[c]])
      BY DEF OwnInv
    <3>2. pc[c] \notin {"proxy", "declare", "prompt", "ensure", "unlock"}
      BY <2>1 DEF Unlocking
    <3> QED BY <2>1, <3>1, <3>2 DEF Own
  <2> QED BY <2>2 DEF OwnInv
<1>2. ASSUME NEW id, AgentLeaves(id) PROVE OwnInv'
  <2>1. /\ UNCHANGED <<pc, files, meant>> /\ DOMAIN agents' = DOMAIN agents \ {id}
        /\ \A p \in Program : DOMAIN kept'[p] = DOMAIN kept[p]
    BY <1>2 DEF AgentLeaves
  <2>2. \A c \in Call :
          /\ job'[c].mode = job[c].mode /\ job'[c].vault = job[c].vault
          /\ job'[c].conf = job[c].conf /\ job'[c].dial = job[c].dial
          /\ job'[c].link = IF job[c].link = id THEN Nothing ELSE job[c].link
    BY <1>2, BlankFields DEF AgentLeaves, Inv, Shape
  <2>3. \A c \in Call : RegistryOf(Of[c])' = RegistryOf(Of[c]) /\ Of[c] \in Program
    BY <2>1, SameMeaning, CallsOfPrograms
  <2>4. ASSUME NEW c \in Call
        PROVE  Own(c, pc'[c], job'[c], meant', RegistryOf(Of[c])', DOMAIN agents', DOMAIN kept'[Of[c]])
    <3>1. Own(c, pc[c], job[c], meant, RegistryOf(Of[c]), DOMAIN agents, DOMAIN kept[Of[c]])
      BY DEF OwnInv
    <3> QED BY <2>1, <2>2, <2>3, <3>1 DEF Own
  <2> QED BY <2>4 DEF OwnInv
<1>3. ASSUME NEW p \in Program, Close(p) PROVE OwnInv'
  <2>1. /\ UNCHANGED <<pc, job, files, meant, agents>> /\ mutex[p] = NoCall
        /\ \A q \in Program : q # p => kept'[q] = kept[q]
    BY <1>3 DEF Close, calls, world, Inv, Shape
  <2>2. ASSUME NEW c \in Call
        PROVE  Own(c, pc'[c], job'[c], meant', RegistryOf(Of[c])', DOMAIN agents', DOMAIN kept'[Of[c]])
    <3>1. Own(c, pc[c], job[c], meant, RegistryOf(Of[c]), DOMAIN agents, DOMAIN kept[Of[c]])
      BY DEF OwnInv
    <3>2. RegistryOf(Of[c])' = RegistryOf(Of[c]) /\ Of[c] \in Program
      BY <2>1, SameMeaning, CallsOfPrograms
    <3>3. pc[c] = "get" => Of[c] # p
      BY <2>1, CallsOfPrograms DEF Inv, Places, OneUnlockAtATime, InLoader
    <3> QED BY <2>1, <3>1, <3>2, <3>3 DEF Own
  <2> QED BY <2>2 DEF OwnInv
<1>4. ASSUME UNCHANGED vars PROVE OwnInv'
  <2>1. UNCHANGED <<pc, job, files, meant, agents, kept>>
    BY <1>4 DEF vars, calls
  <2> QED BY <2>1, SameMeaning DEF OwnInv
<1> QED BY <1>1, <1>2, <1>3, <1>4

LEMMA OwnKept ==
  ASSUME Undisturbed, Absolute
  PROVE  Inv /\ FilesInv /\ FineInv /\ MeantInv /\ OwnInv /\ [Next]_vars => OwnInv'
BY MeantStep, OwnWorld, OwnOutside, OwnResolve, OwnSelect, OwnProxy, OwnOnTheWay, OwnUnlocked
DEF Next, Proceed

-----------------------------------------------------------------------------
(* The agents, the managers and the values. *)
LEMMA AgentFilesStep ==
  ASSUME Inv, AgentsInv, OwnInv, AgentFilesInv, [Next]_vars
  PROVE  AgentFilesInv'
<1>1. ASSUME NEW id, AgentLeaves(id) PROVE AgentFilesInv'
  BY <1>1 DEF AgentLeaves, AgentFilesInv
<1>2. ASSUME NEW c \in Call, Ensure(c) PROVE AgentFilesInv'
  <2> DEFINE conf == Conf(RegistryOf(Of[c]), job[c].vault)
             new  == Served(Of[c], conf)
  <2>1. UNCHANGED agents \/ agents' = With(agents, Id(c), new)
    BY <1>2 DEF Ensure
  <2>2. /\ job[c].conf = conf /\ job[c].conf.path # NoPath /\ job[c].conf.path[1] # Here
    BY <1>2 DEF Ensure, OwnInv, Own
  <2>3. Id(c).conf = job[c].conf
    BY DEF Id, VaultID
  <2>4. new.file = job[c].conf.path
    BY <2>2 DEF Served, Located
  <2> HIDE DEF new
  <2> QED BY <2>1, <2>2, <2>3, <2>4 DEF AgentFilesInv, With
<1>3. ASSUME NEW c \in Call, Unlock(c) PROVE AgentFilesInv'
  <2>1. CASE UNCHANGED agents
    BY <2>1 DEF AgentFilesInv
  <2>2. CASE agents' = [agents EXCEPT ![Id(c)].open = TRUE]
    <3>1. /\ DOMAIN agents' = DOMAIN agents
          /\ \A i \in DOMAIN agents : agents'[i].file = agents[i].file
      <4>1. ASSUME NEW i \in DOMAIN agents PROVE agents'[i].file = agents[i].file
        <5>1. CASE i = Id(c)
          <6> DEFINE a == agents[i]
          <6>1. agents'[i] = [a EXCEPT !.open = TRUE] /\ a = [conf |-> a.conf, file |-> a.file, open |-> a.open]
            BY <2>2, <5>1 DEF AgentsInv
          <6> HIDE DEF a
          <6>2. agents'[i].file = a.file
            BY <6>1, OpenedAgent
          <6> QED BY <6>2 DEF a
        <5>2. CASE i # Id(c)
          BY <2>2, <5>2
        <5> QED BY <5>1, <5>2
      <4> QED BY <2>2, <4>1
    <3> QED BY <3>1 DEF AgentFilesInv
  <2> QED BY <1>3, <2>1, <2>2 DEF Unlock
<1>4. CASE UNCHANGED agents
  BY <1>4 DEF AgentFilesInv
<1> QED BY <1>1, <1>2, <1>3, <1>4, WhoChanges

LEMMA KeptMeantStep ==
  ASSUME Inv, KeptInv, OwnInv, AgentFilesInv, KeptMeant, meant \subseteq meant', [Next]_vars
  PROVE  KeptMeant'
<1>1. ASSUME NEW c \in Call, NEW id, NEW file, Keep(c, id, file), <<Of[c], job[c].vault, file>> \in meant
      PROVE  KeptMeant'
  <2> DEFINE new == [id |-> id, up |-> TRUE, file |-> file]
  <2>1. \A p \in Program :
          /\ DOMAIN kept'[p] = DOMAIN kept[p] \cup (IF p = Of[c] THEN {job[c].vault} ELSE {})
          /\ \A n \in DOMAIN kept'[p] :
               kept'[p][n] = IF p = Of[c] /\ n = job[c].vault THEN new ELSE kept[p][n]
    BY <1>1, KeepAdds
  <2>2. new.file = file
    OBVIOUS
  <2> HIDE DEF new
  <2> QED BY <1>1, <2>1, <2>2 DEF KeptMeant
<1>2. ASSUME NEW c \in Call, Open(c) PROVE KeptMeant'
  <2> DEFINE file == Located(job[c].conf.path, Cwd[Of[c]])
  <2>1. file = job[c].conf.path /\ <<Of[c], job[c].vault, file>> \in meant
    BY <1>2 DEF Open, OwnInv, Own, Located
  <2>2. UNCHANGED kept \/ Keep(c, Nothing, file)
    BY <1>2 DEF Open
  <2> HIDE DEF file
  <2> QED BY <1>1, <2>1, <2>2 DEF KeptMeant
<1>3. ASSUME NEW c \in Call, Unlock(c) PROVE KeptMeant'
  <2>1. UNCHANGED kept \/ (Id(c) \in DOMAIN agents /\ Keep(c, Id(c), agents[Id(c)].file))
    BY <1>3 DEF Unlock, Running
  <2>2. Id(c) \in DOMAIN agents => agents[Id(c)].file = job[c].conf.path
    BY DEF AgentFilesInv, Id, VaultID
  <2>3. <<Of[c], job[c].vault, job[c].conf.path>> \in meant
    BY <1>3 DEF Unlock, OwnInv, Own
  <2> QED BY <1>1, <2>1, <2>2, <2>3 DEF KeptMeant
<1>4. ASSUME NEW id, AgentLeaves(id) PROVE KeptMeant'
  <2>1. ASSUME NEW p \in Program, NEW n \in DOMAIN kept'[p] PROVE <<p, n, kept'[p][n].file>> \in meant'
    <3> DEFINE m == kept[p][n]
    <3>1. /\ n \in DOMAIN kept[p]
          /\ kept'[p][n] = IF m.id = id THEN [m EXCEPT !.up = FALSE] ELSE m
      BY <1>4, <2>1 DEF AgentLeaves
    <3>2. m = [id |-> m.id, up |-> m.up, file |-> m.file]
      BY <3>1 DEF KeptInv
    <3>3. <<p, n, m.file>> \in meant
      BY <3>1 DEF KeptMeant
    <3> HIDE DEF m
    <3>4. kept'[p][n].file = m.file
      BY <3>1, <3>2, BrokenManager
    <3> QED BY <3>3, <3>4
  <2> QED BY <2>1 DEF KeptMeant
<1>5. ASSUME NEW p \in Program, Close(p) PROVE KeptMeant'
  <2>1. \A q \in Program : kept'[q] = IF q = p THEN <<>> ELSE kept[q]
    BY <1>5 DEF Close, Inv, Shape
  <2> QED BY <2>1 DEF KeptMeant
<1>6. CASE UNCHANGED kept
  BY <1>6 DEF KeptMeant
<1> QED BY <1>2, <1>3, <1>4, <1>5, <1>6, WhoChanges

LEMMA ValueStep ==
  ASSUME Inv, OwnInv, AgentFilesInv, KeptMeant, OwnVaultOnly, meant \subseteq meant', [Next]_vars
  PROVE  OwnVaultOnly'
<1>1. ASSUME NEW c \in Call, Get(c) PROVE OwnVaultOnly'
  <2>1. pc[c] = "get" /\ Of[c] \in Program
    BY <1>1, CallsOfPrograms DEF Get
  <2>2. job[c].vault \in DOMAIN kept[Of[c]]
    BY <2>1 DEF OwnInv, Own
  <2>3. value' = Nothing \/ value' = <<Of[c], job[c].vault, kept[Of[c]][job[c].vault].file>>
    BY <1>1 DEF Get, Fail
  <2> QED BY <2>1, <2>2, <2>3 DEF KeptMeant, OwnVaultOnly
<1>2. ASSUME NEW c \in Call, Read(c) PROVE OwnVaultOnly'
  <2>1. \/ value' = Nothing
        \/ job[c].link # Nothing /\ value' = <<Of[c], job[c].vault, agents[job[c].link].file>>
    BY <1>2 DEF Read, Fail
  <2>2. pc[c] = "read" /\ job[c].mode = "command"
    BY <1>2 DEF Read, Inv, Places
  <2>3. job[c].link # Nothing =>
          /\ job[c].link = job[c].dial /\ job[c].link \in DOMAIN agents
          /\ job[c].dial.conf.path = NoPath \/ <<Of[c], job[c].vault, job[c].dial.conf.path>> \in meant
    BY <2>2 DEF OwnInv, Own
  <2> QED BY <2>1, <2>3 DEF AgentFilesInv, OwnVaultOnly
<1>3. ASSUME NEW c, Start(c) \/ Acquire(c) \/ Resolve(c) \/ Proxy(c) \/ Declare(c) \/ Prompt(c)
                    \/ Open(c) \/ Ensure(c) \/ Unlock(c) \/ Select(c) \/ Redial(c)
      PROVE  value' = Nothing
  BY <1>3 DEF Start, Acquire, Resolve, Proxy, Declare, Prompt, Open, Ensure, Unlock, Select, Redial,
              Continue, Fail, Retry, Keep
<1>4. (\E f \in Edited : \E content \in Contents[f] : Edit(f, content))
        \/ (\E id \in DOMAIN agents : AgentLeaves(id)) \/ (\E p \in Program : Close(p))
      => value' = Nothing
  BY DEF Edit, AgentLeaves, Close
<1>5. UNCHANGED vars => OwnVaultOnly'
  BY DEF vars, OwnVaultOnly
<1> QED BY <1>1, <1>2, <1>3, <1>4, <1>5 DEF Next, Proceed, OwnVaultOnly

(* A value comes from a vault that the program's registry gave to the name *)
(* it asked for: over three readings of the registry, a Loader's managers, *)
(* agents that other programs started, and agents that come and go.        *)
THEOREM ValuesComeFromTheRightVault ==
  ASSUME Undisturbed, Absolute
  PROVE  Spec => []OwnVaultOnly
<1>1. Init => MeantInv /\ OwnInv /\ AgentFilesInv /\ KeptMeant /\ OwnVaultOnly
  BY DEF Init, MeantInv, OwnInv, Own, AgentFilesInv, KeptMeant, OwnVaultOnly
<1>2. Init => AgentsInv /\ KeptInv
  BY DEF Init, AgentsInv, KeptInv
<1>3. MeantInv /\ [Next]_vars => MeantInv' /\ meant \subseteq meant'
  BY MeantStep
<1>4. Inv /\ FilesInv /\ FineInv /\ MeantInv /\ OwnInv /\ [Next]_vars => OwnInv'
  BY OwnKept
<1>5. Inv /\ FineInv /\ AgentsInv /\ KeptInv /\ [Next]_vars => AgentsInv' /\ KeptInv'
  BY AgentsStep, KeptStep
<1>6. Inv /\ MeantInv /\ AgentsInv /\ KeptInv /\ OwnInv /\ AgentFilesInv /\ KeptMeant /\ OwnVaultOnly
        /\ [Next]_vars
        => AgentFilesInv' /\ KeptMeant' /\ OwnVaultOnly'
  BY <1>3, AgentFilesStep, KeptMeantStep, ValueStep
<1> QED BY InvInit, InvStep, FilesInit, FilesStep, FineInit, FineKept,
           <1>1, <1>2, <1>3, <1>4, <1>5, <1>6, PTL DEF Spec
=============================================================================
