------------------------------ MODULE Resolved ------------------------------
(***************************************************************************)
(* The systemd-resolved backend (src/src/platform/linux/resolved.rs): the  *)
(* DNS settings of one link, read in three property reads and written in   *)
(* three D-Bus calls.                                                      *)
(***************************************************************************)
EXTENDS BoundCall, DnsPlan

CONSTANTS
    Requests,   \* the configurations callers ask for
    Ours,       \* the backend kind this module models: "resolved"
    Rivals      \* name server lists other programs set on the link

Caps == [scopes |-> {"interface"}, search |-> TRUE, split |-> TRUE, route |-> TRUE]

Plans == Accepted(Requests, Caps)

\* from_plan and merged_from_plan: an unset default route keeps the current one.
Merged(plan, route) ==
    [ns |-> ResolvedDns(plan), domains |-> ResolvedDomains(plan),
     route |-> IF plan.route = "unset" THEN route ELSE plan.route]

MatchesDesired(dns, plan) ==
    /\ dns.ns = ResolvedDns(plan) /\ dns.domains = ResolvedDomains(plan)
    /\ plan.route = "unset" \/ dns.route = plan.route

PublicState(dns) ==
    [ns |-> Map(dns.ns, LAMBDA a : a.ip), search |-> PublicSearch(dns.domains),
     routing |-> PublicRouting(dns.domains), route |-> dns.route]

Link(ns) == [ns |-> ns, domains |-> <<>>, route |-> "no"]

Initial ==
    {[native |-> [inc |-> 1, up |-> TRUE, id |-> 0, dns |-> Link(<<>>), rest |-> "none"],
      aux |-> "none"]}

\* snapshot_of reads the three properties one after the other.
ReadLink ==
    \/ ReadPart("read", {"ns"}, "read.domains")
    \/ ReadPart("read.domains", {"domains"}, "read.route")
    \/ ReadPart("read.route", {"route"}, "compare")

ObserveLink ==
    \/ ObserveBegin("ob.ns")
    \/ ObservePart("ob.ns", {"ns"}, "ob.domains")
    \/ ObservePart("ob.domains", {"domains"}, "ob.route")
    \/ ObservePart("ob.route", {"route"}, "ob.status")
    \/ ObserveEnd

(***************************************************************************)
(* apply reads the link once more for its default route; restore writes    *)
(* the target. A call that finds no link fails.                            *)
(***************************************************************************)
Prepare ==
    /\ pc = "write"
    /\ \/ /\ call.op = "apply" /\ native.up
          /\ loc' = [loc EXCEPT !.cur = Merged(call.plan, native.dns.route)]
          /\ pc' = "set.dns"
          /\ UNCHANGED bounds
       \/ /\ call.op = "restore"
          /\ loc' = [loc EXCEPT !.cur = call.target.dns]
          /\ pc' = "set.dns"
          /\ UNCHANGED bounds
       \/ call.op = "apply" /\ ~native.up /\ Result("err") /\ UNCHANGED bounds
       \/ call.op = "apply" /\ Faulty /\ Result("err")
    /\ UNCHANGED <<kind, native, aux, call, lease, hist>>

SetLink(from, to, field) ==
    \/ native.up /\ Writing(from, [native EXCEPT !.dns[field] = loc.cur[field]], to)
    \/ /\ pc = from /\ ~native.up /\ Result("err")
       /\ UNCHANGED <<kind, native, call, lease, hist, bounds>>

SetLinkDns == SetLink("set.dns", "set.domains", "ns") /\ UNCHANGED aux
SetLinkDomains == SetLink("set.domains", "set.route", "domains") /\ UNCHANGED aux
SetLinkDefaultRoute == SetLink("set.route", "return", "route") /\ UNCHANGED aux

(***************************************************************************)
(* Other programs set any one property; the kernel may remove the link and *)
(* create another one with the same index.                                 *)
(***************************************************************************)
Rival ==
    /\ \/ \E ns \in Rivals : native.up /\ Foreign([native EXCEPT !.dns.ns = ns])
       \/ native.up /\ Foreign([native EXCEPT !.dns.route = IF @ = "yes" THEN "no" ELSE "yes"])
       \/ native.up /\ Foreign([native EXCEPT !.up = FALSE])
       \/ ~native.up /\ Foreign([native EXCEPT !.up = TRUE, !.inc = @ + 1,
                                               !.dns = Link(<<>>)])
    /\ UNCHANGED aux

Next ==
    /\ kind = Ours
    /\ \/ ObserveLink
       \/ \E p \in Plans :
             BeginApply(p, {Merged(p, r) : r \in {"yes", "no"}}, FALSE)
       \/ Verify \/ BeginRestore(Before, FALSE) \/ EndRestore
       \/ CheckStatus("status", "read") \/ ReadLink \/ CompareParts
       \/ CheckStatus("restat", "write") \/ Prepare
       \/ SetLinkDns \/ SetLinkDomains \/ SetLinkDefaultRoute \/ Return
       \/ Rival \/ Crash
=============================================================================
