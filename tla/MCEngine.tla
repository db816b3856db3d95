------------------------------ MODULE MCEngine ------------------------------
(* Instances of Engine for TLC: three sources of states (the original host  *)
(* configuration, osdns's plans, another program), with and without a       *)
(* default route.                                                          *)
EXTENDS Engine

Dns(n, r) == [ns |-> n, route |-> r]

HostState == Dns("host", "none")
\* One plan sets the default route, one leaves it to the host.
TwoPlans  == {Dns("vpn", "on"), Dns("corp", "none")}
\* The second plan is satisfied wherever the first one is.
Looser    == {Dns("vpn", "on"), Dns("vpn", "none")}
\* Another program writes its own state, or the very state osdns would write.
Rivals    == {Dns("dhcp", "none"), Dns("vpn", "on")}
\* Another program whose states cannot be mistaken for osdns's own.
Others    == {Dns("dhcp", "none")}
=============================================================================
