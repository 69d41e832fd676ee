-------------------------- MODULE MCSecretResolver --------------------------
(* Small instances of SecretResolver. *)
EXTENDS SecretResolver, TLC

CONSTANTS cfg, home, d1, d2, p1, p2, c1, c2, c3, tilde, here

File(default, vaults) == [default |-> default, vaults |-> vaults]
Def(driver, path, rest) == [driver |-> driver, path |-> path, rest |-> rest]

\* References without and with a vault's name.
DefaultRef == <<"ns", "/", "key">>
WorkRef == <<"work", ":", "ns", "/", "key">>
HomeRef == <<"home", ":", "ns", "/", "key">>

MCNames == {"work", "home"}
MCOf == (c1 :> p1) @@ (c2 :> p1) @@ (c3 :> p2)

(* Absolute lists: a project's file refines the well-known one.            *)
WellKnown == <<cfg, "vaults.yaml">>
Project == <<d2, "vaults.yaml">>
Nowhere == <<d1, "vaults.yaml">>
WorkAt(base) == ("work" :> Def("keepass", <<here, base>>, {}))

AbsEnv == (p1 :> Unset) @@ (p2 :> <<WellKnown, Nowhere, Project>>)
AbsCwd == (p1 :> d1) @@ (p2 :> d2)
AbsContents ==
  (WellKnown :> {File("work", WorkAt("a")),
                 File("work", WorkAt("b") @@ ("home" :> Def("keepass", <<tilde, "a">>, {"keyfile"})))}) @@
  (Project :> {File(NoName, WorkAt("a")), Broken}) @@
  (Nowhere :> {NoFile})
AbsEdited == {WellKnown}
AbsVaults == {<<cfg, "a">>, <<cfg, "b">>, <<home, "a">>, <<d2, "a">>}
AbsModes == (p1 :> {"agent"}) @@ (p2 :> {"command", "inprocess"})
AbsPrompters == (p1 :> {"terminal", "map", "none"}) @@ (p2 :> {"pipe"})
AllTyped == {<<"wrong">>, <<"right">>}
OnePipe == (p1 :> <<>>) @@ (p2 :> <<"right">>)
RightPassword == [password |-> "right"]
BadRef == <<"work", ":", ":", "key">>
AbsLoads == (c1 :> {<<DefaultRef, HomeRef>>}) @@ (c2 :> {<<WorkRef>>, <<BadRef>>}) @@ (c3 :> {<<HomeRef>>, <<WorkRef>>})
NoOverride == [p \in {p1, p2} |-> Nothing]

(* The same relative list in two projects, and one well-known file.        *)
RelEnv == [p \in {p1, p2} |-> <<<<here, "vaults.yaml">>>>]
RelContents == [f \in {Nowhere, Project} |-> {File("work", WorkAt("a"))}]
RelVaults == {<<d1, "a">>, <<d2, "a">>}
RelLoads == [c \in {c1, c2, c3} |-> {<<DefaultRef>>}]
OnlyAgent == [p \in {p1, p2} |-> {"agent"}]
OnlyMap == [p \in {p1, p2} |-> {"map"}]
EmptyPipe == [p \in {p1, p2} |-> <<>>]
OnlyWellKnown == (WellKnown :> {File("work", WorkAt("a"))})
Unlisted == [p \in {p1, p2} |-> Unset]
=============================================================================
