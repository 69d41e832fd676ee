--------------------------- MODULE MCVaultManager ---------------------------
(* Small instances of VaultManager. *)
EXTENDS VaultManager

CONSTANT p1

Plain(p)  == [path |-> p, keyfile |-> FALSE, readonly |-> FALSE]
ReadOnly(p) == [path |-> p, keyfile |-> FALSE, readonly |-> TRUE]
KeyFile(p)  == [path |-> p, keyfile |-> TRUE, readonly |-> FALSE]
Pathless    == [path |-> NoPath, keyfile |-> FALSE, readonly |-> FALSE]

(* One file, opened writable, read-only and with a key file. *)
OneFile  == {Plain(p1), ReadOnly(p1), KeyFile(p1), Pathless}

Segments     == {"ns", "k", ""}
OneAddress   == {<<"ns", "k">>, <<"ns">>}
=============================================================================
