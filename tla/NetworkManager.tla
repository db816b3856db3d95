--------------------------- MODULE NetworkManager ---------------------------
(***************************************************************************)
(* The NetworkManager backend (src/src/platform/linux/network_manager.rs): *)
(* the DNS fields of the connection applied to a device, written with      *)
(* Reapply under the version the fields were read at.                      *)
(*                                                                         *)
(* native.inc is the activation, ten activations to a service lifetime;    *)
(* native.id is the version of the applied connection, 0 for a service     *)
(* that has none. aux is the DNS mode of the service.                      *)
(***************************************************************************)
EXTENDS BoundCall, DnsPlan

CONSTANTS
    Requests,
    Ours,       \* the backend kind this module models
    RivalDns4   \* IPv4 name server lists other programs apply

SplitDns == aux \in {"dnsmasq", "systemd-resolved"}

Caps == [scopes |-> {"interface"}, search |-> TRUE, split |-> SplitDns, route |-> FALSE]

PublicState(dns) ==
    [ns |-> dns.dns4 \o dns.dns6, search |-> PublicSearch(dns.search4),
     routing |-> PublicRouting(dns.search4), route |-> "unset"]

\* The service lifetime an activation belongs to.
Owner(inc) == inc \div 10

Profile ==
    [dns4 |-> <<>>, search4 |-> <<>>, ignoreAuto4 |-> FALSE,
     dns6 |-> <<>>, search6 |-> <<>>, ignoreAuto6 |-> FALSE]

Initial ==
    {[native |-> [inc |-> 11, up |-> TRUE, id |-> version, dns |-> Profile, rest |-> "dhcp"],
      aux |-> mode] : version \in {0, 1}, mode \in {"default", "dnsmasq"}}

(***************************************************************************)
(* mutate_bound. resource_status is Ambiguous under another service owner, *)
(* Replaced under another activation and Gone without the device: none of  *)
(* them is Same. guarded_baseline_device compares fields and version.      *)
(***************************************************************************)
VerifyNamespace ==
    /\ pc = "status"
    /\ \/ Goto("activation") /\ UNCHANGED bounds
       \/ Faulty /\ Answer("Rejected", NoState)
    /\ UNCHANGED <<kind, native, aux, lease, hist>>

GuardedBaseline ==
    /\ pc = "baseline"
    /\ \/ /\ call.expected.id = 0
          /\ Answer("Rejected", NoState) /\ UNCHANGED bounds
       \/ /\ call.expected.id # 0
          /\ native.up /\ Owner(native.inc) = Owner(call.inc)
          /\ CheckExpected(Snap = call.expected, "restat")
          /\ UNCHANGED bounds
       \/ /\ call.expected.id # 0
          /\ ~native.up \/ Owner(native.inc) # Owner(call.inc)
          /\ Answer("Rejected", NoState) /\ UNCHANGED bounds
       \/ call.expected.id # 0 /\ Faulty /\ Answer("Rejected", NoState)
    /\ UNCHANGED <<kind, native, aux, lease, hist>>

DnsFields ==
    IF call.op = "apply" THEN NmFields(call.plan, SplitDns) ELSE call.target.dns

Bump(version) == IF version = 0 THEN 0 ELSE version + 1

\* NetworkManager takes a Reapply only at the version it names, and only the
\* lifetime of the service it is addressed to gets it.
ReapplyLands ==
    /\ native.up /\ Owner(native.inc) = Owner(call.inc)
    /\ call.expected.id \in {0, native.id}

Reapply ==
    \/ /\ ReapplyLands
       /\ Writing("write", [native EXCEPT !.dns = DnsFields, !.id = Bump(@)], "return")
       /\ UNCHANGED aux
    \/ /\ pc = "write" /\ ~ReapplyLands
       /\ Result("err")
       /\ UNCHANGED <<kind, native, aux, call, lease, hist, bounds>>

(***************************************************************************)
(* Other programs change the connection; the device is reactivated or goes *)
(* away; the service restarts and counts its versions from the start.      *)
(***************************************************************************)
Rival ==
    /\ \/ \E ns \in RivalDns4 :
             native.up /\ Foreign([native EXCEPT !.dns.dns4 = ns, !.id = Bump(@)])
       \/ native.up /\ Foreign([native EXCEPT !.rest = "static", !.id = Bump(@)])
       \/ native.up /\ Foreign([native EXCEPT !.up = FALSE])
       \/ Foreign([native EXCEPT !.up = TRUE, !.inc = @ + 1, !.id = Bump(@),
                                 !.dns = Profile])
       \/ Foreign([native EXCEPT !.inc = 10 * (Owner(@) + 1) + 1,
                                 !.id = IF @ = 0 THEN 0 ELSE 1])
    /\ UNCHANGED aux

Next ==
    /\ kind = Ours
    /\ \/ Observe
       \/ \E p \in Accepted(Requests, Caps) : BeginApply(p, {NmFields(p, SplitDns)}, TRUE)
       \/ Verify \/ BeginRestore(Before, TRUE) \/ EndRestore
       \/ VerifyNamespace \/ CheckStatus("activation", "baseline") \/ GuardedBaseline
       \/ CheckStatus("restat", "write") \/ Reapply \/ Return
       \/ Rival \/ Crash
=============================================================================
