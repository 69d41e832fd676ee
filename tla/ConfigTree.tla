----------------------------- MODULE ConfigTree -----------------------------
(* The first half of Loader.Load: the layers' files are read, includes are *)
(* expanded within each layer, shapes are checked, layers are merged and   *)
(* tokens resolved.  What it ends with is the tree that ConfigBinding      *)
(* binds.  A Load is one goroutine; it either binds a tree or fails.       *)
EXTENDS Integers, Sequences, SequencesExt

CONSTANTS
  Dirs,             \* the layer directories, lowest precedence first
  Name,             \* the file a Load is asked for
  FileSystems,      \* [clean path -> raw tree, Broken or NoFile]
  Keys,             \* the map keys and sequence indices in the trees
  Types,            \* the types of destinations and of what is in them
  Destinations,     \* those of the structs that Loads are asked to fill
  Resolvers,        \* [scheme -> [path -> value]]: env, secret and custom ones
  SchemeSets,       \* the schemes a Loader may have resolvers for; none: it is static
  MaxIncludeDepth,
  Height,           \* how deep the maps and sequences of a file nest
  PathLength,       \* how deep LoadedByPath looks
  NoFile, Broken

(* A node is a scalar, cut into segments, or has children: by key (a map)  *)
(* or by index (a sequence), Nil where there is none.  A segment is text,  *)
(* a file's content, a token or a malformed token, of which the scheme can *)
(* be read.  "$$(config:" is text that looks like an include.              *)
Literal(x) == [lit |-> x]
EscapedInclude == Literal("$(config:")
Content(f) == [content |-> f]
Token(s, p) == [scheme |-> s, path |-> p]
Malformed(s) == [malformed |-> s]
IsToken(seg) == "scheme" \in DOMAIN seg
IsMalformed(seg) == "malformed" \in DOMAIN seg

Scalar(segs) == [kind |-> "scalar", segs |-> segs]
MapNode(kids)  == [kind |-> "map", kids |-> kids]
ListNode(kids)  == [kind |-> "seq", kids |-> kids]
Nil == [kind |-> "nil"]
Error(why)   == [kind |-> "error", why |-> why]

IsError(n) == n.kind = "error"
HasKids(n) == n.kind \in {"map", "seq"}

(* Trees of finite height.  A placed scalar knows the file it is in.  In   *)
(* config and file tokens the path is a file's, which cannot end in ".."   *)
(* if it has the extension of YAML; a resolver reads the other paths.      *)
Path == Seq(STRING)
Ref == {r \in [abs : BOOLEAN, segs : Path, yaml : BOOLEAN] :
          r.yaml => r.segs # <<>> /\ Last(r.segs) # ".."}
Segment ==
  [lit : STRING] \cup [content : Path] \cup [malformed : STRING]
    \cup [scheme : {"config", "file"}, path : Ref]
    \cup [scheme : STRING \ {"config", "file"}, path : STRING]
Unplaced == [kind : {"scalar"}, segs : Seq(Segment)]
Placed   == [kind : {"scalar"}, segs : Seq(Segment), file : Path]

(* Includes nest, and each adds the height of a file. *)
Highest == Height * (MaxIncludeDepth + 1)

Trees(leaves) ==
  LET upTo[h \in 0 .. Highest] ==
        IF h = 0 THEN leaves \cup {Nil}
        ELSE LET Kid == upTo[h - 1]
             IN  leaves \cup {Nil} \cup [kind : {"map", "seq"}, kids : [Keys -> Kid]]
  IN  upTo

Tree == Trees(Placed)[Highest]
Node == Trees(Unplaced \cup Placed)[Highest]

ASSUME TreeAssumption ==
  /\ Height \in Nat /\ MaxIncludeDepth \in Nat \ {0}
  /\ Name \in STRING \ {".."}              \* validateName
  /\ Dirs \in Seq(Path) \ {<<>>}          \* New panics without a directory
  /\ \A f \in FileSystems : \A p \in DOMAIN f :
       f[p] \in {NoFile, Broken} \/ f[p] \in Trees(Unplaced)[Height] \ {Nil}
  /\ \A s \in DOMAIN Resolvers : \A p \in DOMAIN Resolvers[s] : Resolvers[s][p] \in STRING
  /\ SchemeSets \subseteq SUBSET STRING

ASSUME TypesAssumption ==
  /\ Destinations \subseteq {t \in Types : t.kind = "struct"}
  /\ \A t \in Types :
       /\ t.kind = "struct" =>
            DOMAIN t.fields \subseteq Keys /\ \A k \in DOMAIN t.fields : t.fields[k] \in Types
       /\ t.kind \in {"map", "seq"} => t.elem \in Types

(* WithResolvers(): no tokens, and no includes. *)
Static(schemes) == schemes = {}

(* A walk over children stops at the first error. *)
Collect(n) ==
  LET bad == {k \in Keys : IsError(n.kids[k])}
  IN  IF bad = {} THEN n ELSE n.kids[CHOOSE k \in bad : TRUE]

(* A walk over a tree that replaces each scalar n by leaf[n]. *)
Walk(leaf, tree) ==
  LET walk[n \in Node] ==
        IF HasKids(n) THEN Collect([n EXCEPT !.kids = [k \in Keys |-> walk[n.kids[k]]]])
        ELSE IF n = Nil THEN Nil ELSE leaf[n]
  IN  walk[tree]

-----------------------------------------------------------------------------
(* Paths are sequences of segments, from the root on; filepath.Join cleans *)
(* what it joins.                                                          *)
Clean(path) ==
  LET upTo[i \in 0 .. Len(path)] ==
        IF i = 0 THEN <<>>
        ELSE IF path[i] # ".." THEN Append(upTo[i - 1], path[i])
        ELSE IF upTo[i - 1] = <<>> THEN <<>> ELSE Front(upTo[i - 1])
  IN  upTo[Len(path)]

(* A relative path starts at the directory of the file it is written in;   *)
(* an absolute one is taken as it is spelled.                              *)
Target(ref, file) == IF ref.abs THEN ref.segs ELSE Clean(Front(file) \o ref.segs)

(* filepath.Rel cleans before it compares. *)
Within(dir, target) == IsPrefix(Clean(dir), Clean(target))

(* What is at a path, however that is spelled. *)
Read(fs, path) == IF Clean(path) \in DOMAIN fs THEN fs[Clean(path)] ELSE NoFile

(* fromYAML records on each node the file it came from. *)
FromYAML(raw, file) ==
  Walk([n \in Unplaced |-> [kind |-> "scalar", segs |-> n.segs, file |-> file]], raw)

-----------------------------------------------------------------------------
(* Includes. *)
Includes(segs) == {i \in DOMAIN segs : IsToken(segs[i]) /\ segs[i].scheme = "config"}

(* The text has "$(config:" in it and does not scan. *)
Unscannable(segs) ==
  /\ \E i \in DOMAIN segs : IsMalformed(segs[i])
  /\ Includes(segs) # {} \/ {Malformed("config"), EscapedInclude} \cap ToSet(segs) # {}

(* chain holds the files being expanded, spelled as they were included;    *)
(* expanded is what the last file of a chain expands to.                   *)
IncludeFileBelow(fs, target, dir, chain, expanded) ==
  IF ~Within(Front(Last(chain)), target) THEN Error("escape")
  ELSE IF Len(chain) >= MaxIncludeDepth THEN Error("deep")
  ELSE IF target \in ToSet(chain) THEN Error("cycle")
  ELSE IF Read(fs, target) \in {NoFile, Broken} THEN Error("unreadable")
  ELSE expanded[Append(chain, target)]

IncludeFile(fs, target, dir, chain, expanded) ==
  IF ~Within(dir, target) THEN Error("escape")
  ELSE IF Len(chain) >= MaxIncludeDepth THEN Error("deep")
  ELSE IF target \in ToSet(chain) THEN Error("cycle")
  ELSE IF Read(fs, target) \in {NoFile, Broken} THEN Error("unreadable")
  ELSE expanded[Append(chain, target)]

ExpandScalar(fs, n, dir, chain, expanded) ==
  IF Unscannable(n.segs) THEN Error("malformed")
  ELSE IF Includes(n.segs) = {} THEN n
  ELSE IF Len(n.segs) # 1 THEN Error("embedded")
  ELSE IF ~n.segs[1].path.yaml THEN Error("extension")
  ELSE IncludeFile(fs, Target(n.segs[1].path, n.file), dir, chain, expanded)

Expand(fs, file, dir) ==
  LET expanded[chain \in Seq(Path)] ==
        Walk([n \in Placed |-> ExpandScalar(fs, n, dir, chain, expanded)],
             FromYAML(Read(fs, Last(chain)), Last(chain)))
  IN  expanded[<<file>>]

-----------------------------------------------------------------------------
(* What layer i provides.  One without the file is skipped; one whose file *)
(* is not a map, or does not expand, ends the Load.                        *)
File(i) == Clean(Append(Dirs[i], Name))

LayerTreeAnyShape(fs, schemes, i) ==
  LET raw == Read(fs, File(i))
  IN  IF raw = Broken THEN Error("parse")
      ELSE IF Static(schemes) THEN FromYAML(raw, File(i))
      ELSE Expand(fs, File(i), Dirs[i])

LayerTree(fs, schemes, i) ==
  LET raw == Read(fs, File(i))
  IN  IF raw = Broken THEN Error("parse")
      ELSE IF raw.kind # "map" THEN Error("shape")
      ELSE IF Static(schemes) THEN FromYAML(raw, File(i))
      ELSE Expand(fs, File(i), Dirs[i])

-----------------------------------------------------------------------------
(* Only two maps merge; anything else that is there replaces. *)
MergeShallow(base, override) ==
  IF base.kind = "map" /\ override.kind = "map"
    THEN MapNode([k \in Keys |-> IF override.kids[k] # Nil THEN override.kids[k] ELSE base.kids[k]])
    ELSE IF override = Nil THEN base ELSE override

MergeNode(base, override) ==
  LET onto[b \in Tree] == [o \in Tree |->
        IF b = Nil THEN o
        ELSE IF o = Nil THEN b
        ELSE IF b.kind = "map" /\ o.kind = "map"
          THEN MapNode([k \in Keys |-> onto[b.kids[k]][o.kids[k]]])
        ELSE o]
  IN  onto[base][override]

MergeTrees(trees) ==
  LET upTo[i \in 0 .. Len(trees)] ==
        IF i = 0 THEN Nil ELSE MergeNode(upTo[i - 1], trees[i])
  IN  upTo[Len(trees)]

(* A struct looks at the keys it has, in maps and sequences all elements   *)
(* count, an interface takes any shape.  Pointers count as what they point *)
(* to.                                                                     *)
Fits(node, type) ==
  LET fitted[n \in Node] == {t \in Types :
        \/ n = Nil \/ t.kind = "any"
        \/ t.kind = "struct" /\ n.kind = "map" /\ \A k \in DOMAIN t.fields : t.fields[k] \in fitted[n.kids[k]]
        \/ t.kind \in {"map", "seq"} /\ n.kind = t.kind /\ \A k \in Keys : t.elem \in fitted[n.kids[k]]
        \/ t.kind = "scalar" /\ n.kind = "scalar"}
  IN  type \in fitted[node]

(* What a token stands for: a scheme the Loader has no resolver for is an  *)
(* error; the built-in one for files reads them verbatim, wherever they    *)
(* are, unless a resolver of that scheme was given.                        *)
Dispatch(fs, schemes, seg, file) ==
  IF seg.scheme \notin schemes THEN Error("unknown scheme")
  ELSE IF seg.scheme \in DOMAIN Resolvers
    THEN IF seg.path \in DOMAIN Resolvers[seg.scheme]
           THEN Literal(Resolvers[seg.scheme][seg.path]) ELSE Error("unresolved")
  ELSE IF seg.scheme = "file" /\ Read(fs, Target(seg.path, file)) # NoFile
    THEN Content(Clean(Target(seg.path, file)))
  ELSE Error("unresolved")

(* A static Loader admits no token. *)
ResolveScalar(fs, schemes, n) ==
  LET tokens == {i \in DOMAIN n.segs : IsToken(n.segs[i])}
      value == [i \in DOMAIN n.segs |-> IF i \in tokens THEN Dispatch(fs, schemes, n.segs[i], n.file)
                                                        ELSE n.segs[i]]
  IN  IF \E i \in DOMAIN n.segs : IsMalformed(n.segs[i]) THEN Error("malformed")
      ELSE IF Static(schemes) /\ tokens # {} THEN Error("static")
      ELSE IF \E i \in tokens : "why" \in DOMAIN value[i] THEN Error("unresolved")
      ELSE Scalar(value)

ResolveNode(fs, schemes, n) == Walk([m \in Placed |-> ResolveScalar(fs, schemes, m)], n)

-----------------------------------------------------------------------------
(* What a layer may include.  The scalars of a raw tree, and the files     *)
(* they include.                                                           *)
Scalars(raw) ==
  LET scalars[n \in Node] ==
        IF HasKids(n) THEN UNION {scalars[n.kids[k]] : k \in Keys} ELSE {n} \ {Nil}
  IN  scalars[raw]

Readable(fs, f) == Read(fs, f) \notin {NoFile, Broken}
Includers(fs, f) ==
  IF Readable(fs, f) THEN {n \in Scalars(Read(fs, f)) : Includes(n.segs) # {}} ELSE {}
Included(fs, f) ==
  {Clean(Target(n.segs[1].path, f)) : n \in {m \in Includers(fs, f) : Len(m.segs) = 1}}

(* The ends of the walks of k includes that start at a layer's file. *)
After(fs, i, k) ==
  LET walk[j \in 0 .. MaxIncludeDepth] ==
        IF j = 0 THEN {File(i)} ELSE UNION {Included(fs, f) : f \in walk[j - 1]}
  IN  walk[k]

(* What templating.md allows: all files that can be reached from a layer   *)
(* are there and in its directory, include tokens are whole values that    *)
(* name YAML files, and includes nest up to MaxIncludeDepth (a cycle nests *)
(* for ever).  How paths are spelled does not matter.                      *)
WellFormed(fs, f) ==
  /\ Readable(fs, f)
  /\ \A n \in Scalars(Read(fs, f)) : ~Unscannable(n.segs)
  /\ \A n \in Includers(fs, f) : Len(n.segs) = 1 /\ n.segs[1].path.yaml

Contained(fs, i) ==
  \A k \in 0 .. MaxIncludeDepth : \A f \in After(fs, i, k) :
    WellFormed(fs, f) /\ IsPrefix(Clean(Dirs[i]), f)

MayExpand(fs, i) ==
  Contained(fs, i) /\ \A f \in After(fs, i, MaxIncludeDepth) : Included(fs, f) = {}

AtTheCap(fs, i) == After(fs, i, MaxIncludeDepth) # {}

-----------------------------------------------------------------------------
(* What a tree has after n steps of a key path, Nil if nothing.  The       *)
(* outline of a map or a sequence leaves out what is in it.                *)
Kid(n, k) == IF HasKids(n) THEN n.kids[k] ELSE Nil

At(root, path, n) ==
  LET at[i \in 0 .. Len(path)] == IF i = 0 THEN root ELSE Kid(at[i - 1], path[i])
  IN  at[n]

Outline(n) == IF HasKids(n) THEN [kind |-> n.kind] ELSE n

(* What a reader of layer i's files finds there, following includes. *)
Found(node, file) == [node |-> node, file |-> file]
Below(x, k) == Found(Kid(x.node, k), x.file)

Follow(fs, schemes, x) ==
  IF ~Static(schemes) /\ x.node.kind = "scalar" /\ Includes(x.node.segs) # {}
    THEN LET f == Target(x.node.segs[1].path, x.file) IN Found(Read(fs, f), f)
    ELSE x

Followed(fs, schemes, x) ==
  LET hop[i \in 0 .. MaxIncludeDepth] == IF i = 0 THEN x ELSE Follow(fs, schemes, hop[i - 1])
  IN  hop[MaxIncludeDepth]

Find(fs, schemes, file, path, n) ==
  LET at[i \in 0 .. Len(path)] ==
        IF i = 0 THEN Followed(fs, schemes, Found(Read(fs, file), file))
        ELSE Followed(fs, schemes, Below(at[i - 1], path[i]))
  IN  at[n]

InLayer(fs, schemes, i, path, n) ==
  IF Read(fs, File(i)) = NoFile THEN Nil
  ELSE LET x == Find(fs, schemes, File(i), path, n) IN Outline(FromYAML(x.node, x.file))

(* The last layer that has the path counts, unless a later one replaces    *)
(* what is above it: anything but a map over a map does.                   *)
Replaces(fs, schemes, j, i, path, n) ==
  \E q \in 1 .. n - 1 :
    LET over == InLayer(fs, schemes, j, path, q)
        under == InLayer(fs, schemes, i, path, q)
    IN  over # Nil /\ under # Nil /\ ~(over.kind = "map" /\ under.kind = "map")

Winners(fs, schemes, path, n) ==
  {i \in DOMAIN Dirs :
     /\ InLayer(fs, schemes, i, path, n) # Nil
     /\ \A j \in i + 1 .. Len(Dirs) :
          InLayer(fs, schemes, j, path, n) = Nil /\ ~Replaces(fs, schemes, j, i, path, n)}

Resolved(fs, schemes, n) == IF n.kind = "scalar" THEN ResolveScalar(fs, schemes, n) ELSE n

-----------------------------------------------------------------------------
VARIABLES
  fs,      \* the files
  type,    \* the type of the destination
  schemes, \* those the Loader has resolvers for
  phase,   \* "read", "shape", "merge", "resolve", "bind" or "failed"
  dir,     \* the layer to be read next
  layers,  \* the trees of the layers read, lowest precedence first
  tree     \* the merged, then resolved tree; an error when that failed

vars == <<fs, type, schemes, phase, dir, layers, tree>>

EmptyTree == MapNode([k \in Keys |-> Nil])

Init ==
  /\ fs \in FileSystems
  /\ schemes \in SchemeSets /\ type \in Destinations
  /\ phase = "read" /\ dir = 1 /\ layers = <<>> /\ tree = EmptyTree

SkipLayer ==
  /\ phase = "read" /\ dir <= Len(Dirs) /\ Read(fs, File(dir)) = NoFile
  /\ dir' = dir + 1
  /\ UNCHANGED <<fs, type, schemes, phase, layers, tree>>

ReadLayer ==
  /\ phase = "read" /\ dir <= Len(Dirs) /\ Read(fs, File(dir)) # NoFile
  /\ LET t == LayerTree(fs, schemes, dir)
     IN  IF IsError(t)
           THEN phase' = "failed" /\ tree' = t /\ UNCHANGED <<dir, layers>>
           ELSE layers' = Append(layers, t) /\ dir' = dir + 1 /\ UNCHANGED <<phase, tree>>
  /\ UNCHANGED <<fs, type, schemes>>

LayersRead ==
  /\ phase = "read" /\ dir > Len(Dirs)
  /\ IF layers = <<>> THEN phase' = "failed" /\ tree' = Error("not found")
                      ELSE phase' = "shape" /\ UNCHANGED tree
  /\ UNCHANGED <<fs, type, schemes, dir, layers>>

ValidateShapeOfFirst ==
  /\ phase = "shape"
  /\ IF Fits(layers[1], type)
       THEN phase' = "merge" /\ UNCHANGED tree
       ELSE phase' = "failed" /\ tree' = Error("shape")
  /\ UNCHANGED <<fs, type, schemes, dir, layers>>

ValidateShape ==
  /\ phase = "shape"
  /\ IF \A i \in DOMAIN layers : Fits(layers[i], type)
       THEN phase' = "merge" /\ UNCHANGED tree
       ELSE phase' = "failed" /\ tree' = Error("shape")
  /\ UNCHANGED <<fs, type, schemes, dir, layers>>

Merge ==
  /\ phase = "merge"
  /\ tree' = MergeTrees(layers)
  /\ phase' = "resolve"
  /\ UNCHANGED <<fs, type, schemes, dir, layers>>

Resolve ==
  /\ phase = "resolve"
  /\ tree' = ResolveNode(fs, schemes, tree)
  /\ phase' = IF IsError(tree') THEN "failed" ELSE "bind"
  /\ UNCHANGED <<fs, type, schemes, dir, layers>>

Next == SkipLayer \/ ReadLayer \/ LayersRead \/ ValidateShape \/ Merge \/ Resolve

Spec == Init /\ [][Next]_vars
-----------------------------------------------------------------------------
(* Every variable has its type. *)
TypeOK ==
  /\ schemes \in SchemeSets /\ type \in Destinations
  /\ phase \in {"read", "shape", "merge", "resolve", "bind", "failed"}
  /\ dir \in 1 .. Len(Dirs) + 1
  /\ Len(layers) < dir /\ \A i \in DOMAIN layers : layers[i].kind = "map"
  /\ tree.kind = IF phase = "failed" THEN "error" ELSE "map"

(* Expansion looks at the chain of the files it is in and at the spelling  *)
(* of paths.  What the rules accept depends on neither: unless the Loader  *)
(* is static, the layers read so far were allowed to expand, and one that  *)
(* ended the Load is not a map, or was not allowed to expand, or includes  *)
(* nest exactly to the cap.  In that last case the code and the rules      *)
(* disagree, because the layer's own file counts as well, and nothing is   *)
(* claimed; nor is that resolved paths satisfy fs.ValidPath, which the     *)
(* code does not ask of absolute ones.                                     *)
ExpandsAsAllowed ==
  ~Static(schemes) =>
    /\ \A i \in 1 .. dir - 1 : Read(fs, File(i)) # NoFile => MayExpand(fs, i)
    /\ phase = "failed" /\ dir <= Len(Dirs) =>
         tree.why \in {"parse", "shape"} \/ ~MayExpand(fs, dir) \/ AtTheCap(fs, dir)

(* The comment in mergeNode: a shape conflict is caught by the validation  *)
(* of the layers, so what they merge to fits the destination as well.      *)
MergedFits == phase = "bind" => Fits(tree, type)

(* A Load binds, at every key path, what the last layer that provides it   *)
(* says there, included or inline, with its tokens resolved where they     *)
(* were written, and nothing where no layer says anything.                 *)
KeyPath == UNION {[1 .. n -> Keys] : n \in 1 .. PathLength}
LoadedByPath ==
  phase = "bind" =>
    \A p \in KeyPath :
      LET n == Len(p)
          winners == Winners(fs, schemes, p, n)
          bound == Outline(At(tree, p, n))
      IN  /\ winners = {} => bound = Nil
          /\ \A i \in winners : bound = Resolved(fs, schemes, InLayer(fs, schemes, i, p, n))
=============================================================================
