---------------------------- MODULE MCConfigTree ----------------------------
(* Three layers of one file, one with an unclean path, and three more      *)
(* files they may include.                                                 *)
EXTENDS ConfigTree, TLC

Layers == << <<"L1">>, <<"up", "..", "L2">>, <<"L3">> >>
AllSchemes == {"env", "secret", "file"}
ManySchemes == {{}, AllSchemes, {"env"}}
Handlers == "env" :> ("HOME" :> "home") @@ "secret" :> ("k" :> "s")

Anything == [kind |-> "any"]
Single == [kind |-> "scalar"]
Struct(fields) == [kind |-> "struct", fields |-> fields]
Mapping == [kind |-> "map", elem |-> Anything]
Listing == [kind |-> "seq", elem |-> Single]
Structs == {Struct("a" :> Anything @@ "b" :> Single), Struct("a" :> Mapping @@ "b" :> Anything),
            Struct("a" :> Listing)}
AllTypes == Structs \cup {Anything, Mapping, Listing, Single}

Rel(segs) == [abs |-> FALSE, segs |-> segs, yaml |-> TRUE]
Abs(segs) == [abs |-> TRUE, segs |-> segs, yaml |-> TRUE]
NotYAML(segs) == [abs |-> FALSE, segs |-> segs, yaml |-> FALSE]
Kids(kids) == [k \in Keys |-> IF k \in DOMAIN kids THEN kids[k] ELSE Nil]
Map(kids)  == MapNode(Kids(kids))
List(kids) == ListNode(Kids(kids))
Lit(x)    == Scalar(<<Literal(x)>>)
Inc(ref)  == Scalar(<<Token("config", ref)>>)
FileTok(ref) == Scalar(<<Literal("text"), Token("file", ref)>>)

X == Inc(Rel(<<"x">>))

(* The layers' own files. *)
Main == {NoFile,
  Map("a" :> Lit("1") @@ "b" :> Scalar(<<Token("env", "HOME")>>)),
  Map("a" :> Map("a" :> Lit("2"))),
  Map("a" :> Map("b" :> X)),
  Map("a" :> List("0" :> X @@ "1" :> Lit("3"))),
  Map("a" :> Inc(Rel(<<"d", "x">>)) @@ "b" :> FileTok(Rel(<<"x">>)))}

(* What else a file of the layer may be when it is not a good map. *)
Odd == {Broken, Lit("4"), Map("b" :> List(<<>>)), Map("b" :> Scalar(<<Token("env", "NONE")>>)),
        Map("a" :> Scalar(<<Literal("text"), Token("config", Rel(<<"x">>))>>)),
        Map("a" :> Inc(NotYAML(<<"x">>)) @@ "b" :> Scalar(<<Token("secret", "k")>>)),
        Map("a" :> Scalar(<<Malformed("config")>>)),
        Map("a" :> Scalar(<<Malformed("env")>>)),
        Map("a" :> Scalar(<<EscapedInclude, Malformed("env")>>)),
        Map("a" :> Scalar(<<EscapedInclude, Token("env", "HOME")>>))}

(* L?/x, L?/d/x and L?/y. *)
FileX == {NoFile, Lit("5"), Map("b" :> Inc(Rel(<<"y">>))), Inc(Rel(<<"d", "x">>))}
FileDX == {Map("a" :> FileTok(Rel(<<"x">>))), Map("a" :> X), Inc(Rel(<<"..", "y">>)),
           Inc(Abs(<<"L1", "d", "..", "x">>)), Inc(Rel(<<"..", "..", "up">>))}
FileY == {Broken, Lit("6"), Map("a" :> Inc(Rel(<<"d", "x">>)))}

In(i) == Clean(Layers[i])
Files(m1, m2, m3, x, dx, y) ==
  [f \in {<<"up">>}
        \cup {Append(In(i), "m") : i \in 1 .. 3}
        \cup {Append(In(i), "x") : i \in 1 .. 3}
        \cup {In(i) \o <<"d", "x">> : i \in 1 .. 3}
        \cup {Append(In(i), "y") : i \in 1 .. 3} |->
     CASE f = <<"up">> -> Lit("0")
       [] f = <<"L1", "m">> -> m1 [] f = <<"L2", "m">> -> m2 [] f = <<"L3", "m">> -> m3
       [] f[2] = "x" -> x [] f[2] = "d" -> dx [] OTHER -> y]

ManyFiles ==
  {Files(m1, m2, m3, x, dx, y) :
     m1 \in Main, m2 \in Main, m3 \in Main, x \in FileX, dx \in FileDX, y \in FileY}
  \cup {Files(m1, m2, NoFile, Lit("5"), Lit("5"), Lit("6")) : m1 \in Main \cup Odd, m2 \in Odd}
=============================================================================
