--------------------------- MODULE VaultRegistry ---------------------------
(***************************************************************************)
(* The vault registry: which files make it up, how they merge, what a      *)
(* name or a secret: reference resolves to, and the identity under which   *)
(* agents keep a vault.  A text that separators matter in (a reference) is *)
(* the sequence of its separators and of the words between them; a path is *)
(* <<where it starts, the rest>>.  Operators only: SecretResolver uses     *)
(* them on files that change.                                              *)
(***************************************************************************)
EXTENDS Naturals, Sequences

CONSTANTS
  Name,       \* vault names
  Driver,     \* registered drivers
  Dir, Base,  \* directories, and the paths inside them
  Home, ConfigHome,   \* the user's home and $XDG_CONFIG_HOME/flexconf
  Tilde, Here,        \* a path may start with "~" or be relative
  VaultsYaml, Unset, NoFile, Broken, NoName, NoDriver, NoPath

ASSUME RegistryAssumption ==
  /\ {Home, ConfigHome} \subseteq Dir /\ {Tilde, Here} \cap Dir = {} /\ Tilde # Here
  /\ VaultsYaml \in Base
  /\ NoName \notin Name /\ NoDriver \notin Driver /\ NoFile # Broken

(* Where a process in the directory cwd finds a path. *)
Located(path, cwd) == IF path[1] = Here THEN <<cwd, path[2]>> ELSE path

(* FLEXCONF_VAULTS replaces the well-known file, even by an empty list. *)
FileList(env) == IF env = Unset THEN <<<<ConfigHome, VaultsYaml>>>> ELSE env

-----------------------------------------------------------------------------
(* Reading the registry.  A definition has a driver, a path and whatever   *)
(* else it sets: "token" stands for a setting with $(...) in it, "unknown" *)
(* for a key that the driver's configuration does not have.                *)
Rejected(def) == def.driver = NoDriver \/ "token" \in def.rest

(* What a file may hold: its text is nothing, a thing that cannot be read  *)
(* or parsed, or a default and definitions.                                *)
IsFile(content) ==
  content \notin {NoFile, Broken} =>
    /\ content.default \in Name \cup {NoName} /\ DOMAIN content.vaults \subseteq Name
    /\ \A n \in DOMAIN content.vaults :
         /\ {"driver", "path", "rest"} \subseteq DOMAIN content.vaults[n]
         /\ \/ content.vaults[n].path = NoPath
            \/ content.vaults[n].path \in (Dir \cup {Tilde, Here}) \X Base

(* The user has a home: UserHomeDir does not fail, as it does without HOME *)
(* (a path then keeps its "~").                                            *)
NormalizePath(path, source) ==
  IF path = NoPath THEN NoPath
  ELSE CASE path[1] = Tilde -> <<Home, path[2]>>
         [] path[1] = Here  -> <<source[1], path[2]>>
         [] OTHER           -> path

EmptyRegistry == [ok |-> TRUE, default |-> NoName, vaults |-> <<>>, missing |-> FALSE]

MergeKeepsEarlier(reg, file, source) ==
  [reg EXCEPT
     !.ok = \A n \in DOMAIN file.vaults : ~Rejected(file.vaults[n]),
     !.default = IF file.default = NoName THEN @ ELSE file.default,
     !.vaults = [n \in DOMAIN @ \cup DOMAIN file.vaults |->
       IF n \in DOMAIN @ THEN @[n] ELSE [file.vaults[n] EXCEPT !.path = NormalizePath(@, source)]]]

(* Whole entries are replaced by name; the last default wins. *)
MergeFile(reg, file, source) ==
  [reg EXCEPT
     !.ok = \A n \in DOMAIN file.vaults : ~Rejected(file.vaults[n]),
     !.default = IF file.default = NoName THEN @ ELSE file.default,
     !.vaults = [n \in DOMAIN @ \cup DOMAIN file.vaults |->
       IF n \in DOMAIN file.vaults
         THEN [file.vaults[n] EXCEPT !.path = NormalizePath(@, source)]
         ELSE @[n]]]

(* A file that is missing is passed over, one that cannot be read or       *)
(* parsed ends the loading, as a definition that is rejected does.         *)
ReadFile(reg, file, source) ==
  IF ~reg.ok THEN reg
  ELSE IF file = NoFile THEN [reg EXCEPT !.missing = TRUE]
  ELSE IF file = Broken THEN [reg EXCEPT !.ok = FALSE]
  ELSE MergeFile(reg, file, source)

Registry(files, env, cwd) ==
  LET list == FileList(env)
      upTo[i \in 0 .. Len(list)] ==
        IF i = 0 THEN EmptyRegistry
        ELSE ReadFile(upTo[i - 1], files[Located(list[i], cwd)], list[i])
  IN  upTo[Len(list)]

-----------------------------------------------------------------------------
(* What a name resolves to; without one, the default. *)
EffectiveName(reg, name) == IF name = NoName THEN reg.default ELSE name

Resolves(reg, name) == reg.ok /\ EffectiveName(reg, name) \in DOMAIN reg.vaults

Conf(reg, name) == reg.vaults[EffectiveName(reg, name)]

(* Every setting has to be one of the driver's. *)
Decodes(conf) == "unknown" \notin conf.rest

(* flexvault.New and the driver's Configure. *)
BuildsDriver(conf) == conf.driver \in Driver /\ Decodes(conf) /\ conf.path # NoPath

NameOnlyID(name, conf) == [name |-> name, conf |-> EmptyRegistry]

(* Name and fingerprint: eight hex digits, taken to be unique. *)
VaultID(name, conf) == [name |-> name, conf |-> conf]

-----------------------------------------------------------------------------
(* "[vault:]namespace/key". *)
Lacks(ref, separator) == \A i \in DOMAIN ref : ref[i] # separator

First(ref, separator) ==
  CHOOSE i \in 1 .. Len(ref) + 1 :
    /\ i \in DOMAIN ref => ref[i] = separator
    /\ \A j \in 1 .. i - 1 : ref[j] # separator

ParseRef(ref) ==
  LET colon == First(ref, ":")
      rest  == SubSeq(ref, colon + 1, Len(ref))
  IN  IF colon < First(ref, "/")
        THEN [ok |-> colon > 1 /\ Lacks(rest, ":"), vault |-> ref[1], addr |-> rest]
        ELSE [ok |-> Lacks(ref, ":"), vault |-> NoName, addr |-> ref]

(* ParseAddress: two words around one slash. *)
IsAddress(addr) == Len(addr) = 3 /\ {i \in 1 .. 3 : addr[i] = "/"} = {2}
=============================================================================
