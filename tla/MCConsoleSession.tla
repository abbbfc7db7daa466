-------------------------- MODULE MCConsoleSession --------------------------
(* Instances of ConsoleSession for TLC: an admin and an agent of two        *)
(* stores, who may both sign in at one browser.                            *)
EXTENDS ConsoleSession, TLC

CONSTANTS ann, sue, s1, s2, t1, t2, t3, t4

Users == {ann, sue}
Stores == {s1, s2}
HomeStores == (ann :> s1) @@ (sue :> s2)
Roles == (ann :> "agent") @@ (sue :> "admin")
Tokens == {t1, t2, t3, t4}
Demoted == {"agent", None}
=============================================================================
