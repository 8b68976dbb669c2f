------------------------------ MODULE MCCobbler -------------------------------
(* An instance of Cobbler for TLC: a server for two domains, the second    *)
(* below the first, and a domain without one.  A device may get the name a *)
(* machine has.                                                            *)
EXTENDS Cobbler, TLC

CONSTANTS m1, m2, v1, s1, a, b, c, d1, d2, d3, bmc, nic, none, null

MCServerOf == (d1 :> s1) @@ (d2 :> s1) @@ (d3 :> none)
MCSuffixes == {<<d, d>> : d \in Domains} \union {<<d1, d2>>}
MCRow ==
    (m1 :> [label |-> a, domain |-> d1, active |-> TRUE, config |-> 0])
    @@ (m2 :> null)
MCSubmitted ==
    {[label |-> b, domain |-> d2, active |-> TRUE, changes |-> TRUE],
     [label |-> a, domain |-> d1, active |-> TRUE, changes |-> FALSE],
     [label |-> a, domain |-> d1, active |-> FALSE, changes |-> FALSE],
     [label |-> a, domain |-> d3, active |-> TRUE, changes |-> FALSE]}
MCDeviceNames == {<<c, d1>>, <<a, d1>>}
MCApartNames == {<<c, d1>>, <<c, d2>>}
MCDevice == [v \in Devices |-> <<c, d1>>]
=============================================================================
