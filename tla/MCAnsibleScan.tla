--------------------------- MODULE MCAnsibleScan ----------------------------
(* An instance of AnsibleScan for TLC: the scan of one machine and the     *)
(* scan of all of them.                                                    *)
EXTENDS AnsibleScan

CONSTANTS m1, m2

Both == {{m1}, {m1, m2}}
=============================================================================
