--------------------------- MODULE MCConfigBinding ---------------------------
(* Small instances of ConfigBinding: a struct with a plain, one or two    *)
(* pointer and up to three variant fields of two families.                *)
EXTENDS ConfigBinding, TLC

CONSTANTS plain, pointer, link, x, y, z, fam, other

Families == [f \in Variant |-> IF f = z THEN other ELSE fam]

(* Two instances of one variant, a list item and one with a name; its      *)
(* tagged field is not set in either.                                      *)
Unnamed == "type" :> "t" @@ "zone" :> ""
Selectors == {Unnamed, Unnamed @@ "name" :> "x"}
=============================================================================
