------------------------------ MODULE MCCatalogue -----------------------------
(* An instance of Catalogue for TLC: one row of most models and a number   *)
(* to spare, two domains, two architectures, a host and a machine on it.   *)
EXTENDS Catalogue, TLC

CONSTANT null

MCRef ==
    LET m1 == <<"Machine", 1>>  dom == <<"Domain", 1>>  arch == <<"Architecture", 1>>
        none == [f \in {} |-> null]
        type == <<"RemotePowerType", 1>>
        hardware == [enclosure |-> <<"Enclosure", 1>>, system |-> <<"System", 1>>,
                     architecture |-> arch, fqdn_domain |-> dom,
                     device_type |-> <<"DeviceType", 1>>, tftp_server |-> null,
                     hypervisor |-> null, reserved_by |-> null]
    IN  [r \in {<<m, 1>> : m \in {"Manufacturer", "SerialConsoleType", "System", "ServerConfig",
                                  "RemotePowerType", "Group", "User", "Architecture"}}
               \union {<<"User", 2>>, <<"Architecture", 2>>, <<"Manufacturer", 2>>} |-> none]
        @@ (<<"DeviceType", 1>> :> [manufacturer |-> <<"Manufacturer", 1>>])
        @@ (<<"DeviceType", 2>> :> [manufacturer |-> <<"Manufacturer", 1>>])
        @@ (<<"Enclosure", 1>> :> [device_type |-> <<"DeviceType", 1>>])
        @@ (dom :> [cobbler_server |-> m1, tftp_server |-> m1, cscreen_server |-> null])
        @@ (<<"Domain", 2>> :> [f \in {"cobbler_server", "tftp_server", "cscreen_server"} |-> null])
        @@ (<<"DomainAdmin", 1>> :> [domain |-> <<"Domain", 2>>, arch |-> arch])
        @@ (<<"RemotePowerDevice", 1>> :>
              [fence_agent |-> type, architecture |-> <<"Architecture", 2>>, domain |-> dom])
        @@ (m1 :> hardware)
        @@ (<<"Machine", 2>> :> [hardware EXCEPT !.hypervisor = m1, !.reserved_by = <<"User", 2>>])
        @@ (<<"BMC", 1>> :> [machine |-> m1, fence_agent |-> type])
        @@ (<<"RemotePower", 2>> :>
              [machine |-> <<"Machine", 2>>, fence_agent |-> type,
               remote_power_device |-> <<"RemotePowerDevice", 1>>])
        @@ (<<"SerialConsole", 1>> :> [machine |-> m1, stype |-> <<"SerialConsoleType", 1>>])
        @@ (<<"NetworkInterface", 1>> :> [machine |-> m1])
        @@ (<<"Annotation", 1>> :> [machine |-> m1, reporter |-> <<"User", 2>>])
        @@ (<<"ComparisionRun", 1>> :>
              [f \in {k[2] : k \in ComparisionRunKeys} |->
                  IF f = "object_network_interface" THEN <<"NetworkInterface", 1>> ELSE null])
        @@ (<<"ComparisionResult", 1>> :> [run_id |-> <<"ComparisionRun", 1>>])

(* One new row of each model; parts of both machines.                      *)
MCRows ==
    DOMAIN MCRef
    \union {<<m, 2>> : m \in {"SerialConsoleType", "System", "ServerConfig",
                              "RemotePowerType", "Group", "Enclosure", "DomainAdmin", "ComparisionRun",
                              "ComparisionResult", "RemotePowerDevice", "BMC", "SerialConsole", "NetworkInterface",
                              "Annotation"}}
    \union {<<m, 3>> : m \in {"User", "Architecture", "Domain", "Machine", "DeviceType", "Manufacturer"}}
    \union {<<"RemotePower", 1>>}

MCSuperusers == {<<"User", 1>>}
MCPermitted == [m \in {"Enclosure", "RemotePowerDevice", "Machine"} |-> {<<"User", 2>>}]

MCSubmitted ==
    {[manufacturer |-> <<"Manufacturer", 1>>, device_type |-> <<"DeviceType", 1>>,
      enclosure |-> <<"Enclosure", 1>>, system |-> <<"System", 1>>,
      architecture |-> <<"Architecture", 2>>, arch |-> <<"Architecture", 2>>,
      fqdn_domain |-> <<"Domain", 2>>, domain |-> <<"Domain", 2>>,
      hypervisor |-> null, stype |-> <<"SerialConsoleType", 1>>,
      cobbler_server |-> <<"Machine", 1>>, tftp_server |-> null, cscreen_server |-> null,
      fence_agent |-> <<"RemotePowerType", 1>>,
      remote_power_device |-> <<"RemotePowerDevice", 1>>]}
=============================================================================
