------------------------- MODULE MCConsoleStoreOps -------------------------
(* Small instances of ConsoleStoreOps: an agent who created the booking and *)
(* a supervisor, each with a console.                                      *)
EXTENDS ConsoleStoreOps, TLC

CONSTANTS ann, sue, d1, d2, k1, k2, k3

Persons == {ann, sue}
Roles == {(ann :> r) @@ (sue :> "supervisor") : r \in {"agent", "supervisor"}}
Drafts == {d1, d2}
Keys == {k1, k2, k3}
=============================================================================
