--------------------------- MODULE MCMachineParts ---------------------------
(* An instance of MachineParts for TLC: one machine and one to be added, a *)
(* network of eight addresses with two before the dynamic range.           *)
EXTENDS MachineParts, TLC

CONSTANTS w1, w2, m1, m2, c1, c2, d1, nothing

AnyName == {f @@ g : f \in Permutations(Workers), g \in Permutations(Macs)}
=============================================================================
