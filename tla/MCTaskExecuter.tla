---------------------------- MODULE MCTaskExecuter --------------------------
(* Instances of TaskExecuter for TLC.                                      *)
EXTENDS TaskExecuter

CONSTANTS reserve, scan, gone, daily

MCHigh == {reserve}

(* "gone" names a class that no longer exists.                             *)
MCDefect == [t \in Tasks |-> IF t = gone THEN "import" ELSE "none"]

(* "gone" has arguments that are not JSON, as a hand-edited row may.       *)
MCStuck == [t \in Tasks |-> IF t = gone THEN "arguments" ELSE "none"]
=============================================================================
