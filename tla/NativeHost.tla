----------------------------- MODULE NativeHost -----------------------------
(***************************************************************************)
(* A host with its DNS backend: detection chooses the backend, whose bound *)
(* calls then work on one native resource beside other programs.           *)
(*                                                                         *)
(* Every backend is shown to implement BoundMutation, the contract the     *)
(* transaction engine relies on.                                           *)
(***************************************************************************)
EXTENDS BoundCall, DnsPlan, Detect

CONSTANTS
    Requests,       \* the configurations callers ask for
    ForeignServers, \* name server lists of other programs, all IPv4
    ForeignConfs,   \* resolver file contents of other programs
    KeyNamespaces   \* the namespaces of the NRPT rule

\* What DnsConfigBuilder lets a caller say.
ASSUME RequestsAssumption ==
    Requests \subseteq [scope : {"interface", "global"}, ns : Seq(V4 \cup V6),
                       search : Seq(Spellings), routing : Seq(Spellings),
                       route : {"unset", "yes", "no"}]

\* The name servers of a resolver file are addresses, its search list is of names.
ASSUME ForeignConfsAssumption ==
    \A conf \in ForeignConfs : conf.ns \in Seq(V4 \cup V6) /\ conf.search \in Seq(Domains)

resolved == INSTANCE Resolved WITH
    Ours <- "resolved",
    Rivals <- {Map(ns, LAMBDA ip : [family |-> 2, ip |-> ip]) : ns \in ForeignServers}
nm == INSTANCE NetworkManager WITH Ours <- "nm", RivalDns4 <- ForeignServers
openresolv == INSTANCE Openresolv WITH Ours <- "openresolv", Others <- ForeignConfs
direct == INSTANCE DirectFile WITH Ours <- {"direct", "bsd"}, Edits <- ForeignConfs
windows == INSTANCE Windows WITH Ours <- {"windows", "nrpt"}, Dhcp <- ForeignServers
macos == INSTANCE MacOS WITH Ours <- {"service", "resolver"}, Strangers <- ForeignServers

Hosts == LinuxHosts \cup BsdHosts \cup [os : {"windows", "macos"}]

\* The backend of a host, or the resources that a backend has of two kinds.
Selected(host) ==
    CASE host.os = "linux" -> {SelectLinux(host)}
      [] host.os = "bsd" -> {SelectBsd(host)}
      [] host.os = "windows" -> {"windows", "nrpt"}
      [] host.os = "macos" -> {"service", "resolver"}

NoResource == [inc |-> 0, up |-> FALSE, id |-> 0, dns |-> <<>>, rest |-> "none"]

\* The native states a resource may be in when osdns starts.
Found(k) ==
    CASE k = "resolved" -> resolved!Initial
      [] k = "nm" -> nm!Initial
      [] k = "openresolv" -> openresolv!Initial
      [] k \in {"direct", "bsd"} -> direct!Initial
      [] k = "windows" -> windows!Initial
      [] k = "nrpt" -> windows!InitialRule
      [] k = "service" -> macos!Initial
      [] k = "resolver" -> macos!InitialFile
      [] OTHER -> {[native |-> NoResource, aux |-> "none"]}

Init ==
    /\ kind = "detecting" /\ native = NoResource /\ aux \in Hosts
    /\ CallInit

\* select_default_backend.
SelectBackend ==
    /\ kind = "detecting"
    /\ \E k \in Selected(aux) :
          /\ kind' = k
          /\ \E f \in Found(k) : native' = f.native /\ aux' = f.aux
    /\ UNCHANGED <<call, pc, loc, lease, hist, bounds>>

Next ==
    \/ SelectBackend
    \/ resolved!Next \/ nm!Next \/ openresolv!Next \/ direct!Next \/ windows!Next \/ macos!Next

Spec == Init /\ [][Next]_vars

(***************************************************************************)
(* Properties.                                                             *)
(***************************************************************************)
Boundary == INSTANCE BoundMutation WITH
    state <- [inc |-> native.inc, id |-> native.id, dns |-> native.dns]

\* Every backend keeps the promises of a bound mutation, whatever other programs
\* do between the native operations of a call, whichever of them fails.
Contract == Boundary!Spec

\* A restore that succeeds gives back what the engine observed, the parts osdns
\* does not manage included, if nobody else touched the resource meanwhile.
GivesBack ==
    (call.op = "restore" /\ call.answer = "Performed" /\ ~moved)
    => native.dns = first.dns /\ native.rest = first.rest

\* What other programs put where osdns may write: parts of the resource it does
\* not manage, and a rule or file that carries somebody else's signature.
Occupied ==
    \/ kind = "nrpt" /\ "Comment" \in windows!Values(native.dns) /\ ~windows!OurMarker(native.dns)
    \/ kind \in {"direct", "bsd"} /\ ~native.up
    \/ kind = "resolver" /\ ~macos!OurFile

\* No step of osdns changes what is not its own ("restoration never destroys
\* changes made by other actors to unmanaged fields", src/src/platform/mod.rs),
\* but for a change made within the call on a backend without a native guard.
UnmanagedKept ==
    [][(kind # "detecting" /\ events' = events /\ (call.disturbed => call.guarded))
       => /\ native'.rest = native.rest
          /\ Occupied => native'.dns = native.dns /\ native'.up = native.up]_vars

Applied == call.op = "apply" /\ call.answer = "Performed" /\ ~call.disturbed

\* After an apply that succeeds undisturbed, public_state reports what the native
\* form of the backend keeps of the plan, and nothing else: domains of the kind
\* asked for, in the order asked for; servers in the order asked for, but for
\* NetworkManager and the adapters of Windows, which have a list for each family
\* and report the IPv4 one first: they lose the preference between the families
\* that src/src/config.rs:120 speaks of.
\* openresolv reports the file it merged, with what was asked for in front; a rule
\* of the NRPT has the root for a default route. A resolver file of macOS is left
\* out: public_state reports nothing of it (src/src/platform/macos/mod.rs:511).
Reported ==
    (Applied /\ kind # "resolver")
    => LET dns == Boundary!Effect.dns
           plan == call.plan
       IN CASE kind = "resolved" ->
                 Reports(resolved!PublicState(dns), plan, {"order", "root", "routing", "route"})
            [] kind = "nm" -> Reports(nm!PublicState(dns), plan, {"routing"})
            [] kind \in {"direct", "bsd"} -> Reports(direct!PublicState(dns), plan, {"order"})
            [] kind = "openresolv" ->
                 LET seen == openresolv!PublicState(call.produced.id)
                 IN /\ StartsWith(seen.ns, plan.ns)
                    /\ StartsWith(seen.search, Without(plan.search, {Root}))
            [] kind = "windows" -> Reports(windows!InterfacePublicState(dns), plan, {})
            [] kind = "service" -> Reports(macos!ServicePublicState(dns), plan, {"order"})
            [] kind = "nrpt" ->
                 LET seen == windows!RulePublicState(dns)
                     routed == IF plan.route = "yes"
                               THEN <<Root>> \o Without(plan.routing, {Root}) ELSE plan.routing
                 IN seen.ns = plan.ns /\ seen.search = <<>> /\ seen.routing = routed

\* A rule of ours that is in effect is complete, wherever write_rule was cut
\* short: ConfigOptions is the last value written.
NoHalfRule ==
    (kind = "nrpt" /\ windows!OurMarker(native.dns)
        /\ "ConfigOptions" \in windows!Values(native.dns))
    => windows!Whole(native.dns)

\* Detection gives /etc/resolv.conf to the direct backends only on a host where
\* no other manager generates it.
Generates(host) ==
    \/ host.entry \notin {"plain", "missing"} \/ host.blocks
    \/ host.os = "linux" /\ \/ host.resolved = "stub"
                            \/ host.mode = "systemd-resolved" /\ host.resolved # "absent"
                            \/ host.mode = "dnsmasq"
                            \/ host.rc \in {"file", "resolvconf"}

NoSecondWriter ==
    [][(kind = "detecting" /\ kind' \in {"direct", "bsd"}) => ~Generates(aux)]_vars
=============================================================================
