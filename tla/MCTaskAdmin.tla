----------------------------- MODULE MCTaskAdmin ----------------------------
(* An instance of TaskAdmin for TLC: a single task and a daily task that   *)
(* can be started, a single task that cannot and stays marked running, and *)
(* no priorities.                                                          *)
EXTENDS TaskAdmin, TLC

CONSTANTS scan, motd, daily, root, operator

MCHigh == {}

AnyAdmin == Permutations(Admins)

MCDefect == [t \in Tasks |-> IF t = motd THEN "constructor" ELSE "none"]
=============================================================================
