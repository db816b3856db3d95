------------------------------ MODULE Windows ------------------------------
(***************************************************************************)
(* The Windows backend (src/src/platform/windows/mod.rs, nrpt.rs): the DNS *)
(* settings of one adapter, a pair of lists for each IP stack, and one     *)
(* rule of the name resolution policy table in the registry.               *)
(*                                                                         *)
(* For an adapter native.dns has a list per field; a missing list and an   *)
(* empty one are the same, as they are to equivalent, matches_desired and  *)
(* public_state. For a rule native.dns is <<>> without a registry key,     *)
(* else the values of the key that exist; aux numbers the keys created, to *)
(* tell a key from one created later under the same name.                  *)
(***************************************************************************)
EXTENDS BoundCall, DnsPlan

CONSTANTS
    Requests,
    Ours,       \* the kinds of the two resources
    Dhcp,       \* name server lists other programs set
    KeyNamespaces \* the namespaces of the rule

Caps == [scopes |-> {"interface"}, search |-> TRUE, split |-> TRUE, route |-> TRUE]

(***************************************************************************)
(* Adapters.                                                               *)
(***************************************************************************)
\* expected_interface_state.
InterfaceState(plan) ==
    LET search == Without(plan.search, {Root})
    IN [ns4 |-> NameServers4(plan), search4 |-> search,
        ns6 |-> NameServers6(plan), search6 |-> search]

InterfacePublicState(dns) ==
    [ns |-> dns.ns4 \o dns.ns6, search |-> Distinct(dns.search4 \o dns.search6),
     routing |-> <<>>, route |-> "unset"]

\* apply_interface and restore_interface set one stack after the other.
SetStack(from, ns, search, to) ==
    LET wanted == IF call.op = "apply" THEN InterfaceState(call.plan) ELSE call.target.dns
    IN \/ native.up /\ Writing(from, [native EXCEPT !.dns[ns] = wanted[ns],
                                                    !.dns[search] = wanted[search]], to)
       \/ /\ pc = from /\ ~native.up /\ Result("err")
          /\ UNCHANGED <<kind, native, call, lease, hist, bounds>>

SetInterface ==
    /\ \/ SetStack("write", "ns4", "search4", "write6")
       \/ SetStack("write6", "ns6", "search6", "return")
    /\ UNCHANGED aux

\* read_interface_state reads one stack after the other, too.
ReadInterface ==
    \/ ReadPart("read", {"ns4", "search4"}, "read6")
    \/ ReadPart("read6", {"ns6", "search6"}, "compare")

ObserveInterface ==
    \/ ObserveBegin("ob.4")
    \/ ObservePart("ob.4", {"ns4", "search4"}, "ob.6")
    \/ ObservePart("ob.6", {"ns6", "search6"}, "ob.status")
    \/ ObserveEnd

(***************************************************************************)
(* NRPT rules. The key of a rule is made of its owner and its namespaces,  *)
(* so the rules that share a key differ in their servers only.             *)
(***************************************************************************)
\* namespaces_from_plan, whose chunks of 50 are one here: every chunk is a rule
\* and a resource of its own.
Namespaces(plan) ==
    Distinct((IF plan.route = "yes" THEN <<Root>> ELSE <<>>) \o plan.routing)

\* Mutant: the value that puts a rule into effect is written early.
ValueOrderEager ==
    <<"Comment", "Version", "Name", "ConfigOptions", "GenericDNSServers", "DisplayName">>

\* The values of a rule in the order write_rule_values sets them.
ValueOrder == <<"Comment", "Version", "Name", "GenericDNSServers", "DisplayName", "ConfigOptions">>

Rule(plan) ==
    [Comment |-> "osdns", Version |-> 1, Name |-> Namespaces(plan),
     GenericDNSServers |-> plan.ns, DisplayName |-> "osdns", ConfigOptions |-> 8]

\* The plans with the namespaces of the rule's key.
RulePlans == {p \in Accepted(Requests, Caps) : Namespaces(p) = KeyNamespaces}

Values(dns) == IF dns = <<>> THEN {} ELSE DOMAIN dns[1]

\* verify_marker on the key as it stands, a missing marker included.
OurMarker(dns) == "Comment" \in Values(dns) /\ dns[1].Comment = "osdns"

\* read_rule_values fails on a rule that misses a value.
Whole(dns) == Values(dns) = Elements(ValueOrder)

\* validate_rule refuses a rule without servers.
Valid(rule) == rule.GenericDNSServers # <<>>

\* read_owned_rule_by_key finds no rule or a whole and valid one of this owner.
Readable(dns) == dns = <<>> \/ (OurMarker(dns) /\ Whole(dns) /\ Valid(dns[1]))

ObserveRule == Readable(native.dns) /\ Observe

CheckRule ==
    /\ pc = "read"
    /\ \/ Readable(native.dns) /\ CheckExpected(native.dns = call.expected.dns, "restat")
          /\ UNCHANGED bounds
       \/ ~Readable(native.dns) /\ Answer("Rejected", NoState) /\ UNCHANGED bounds
       \/ Faulty /\ Answer("Rejected", NoState)
    /\ UNCHANGED <<kind, native, aux, lease, hist>>

Removal == call.op = "restore" /\ call.target.dns = <<>>
Wanted == IF call.op = "apply" THEN Rule(call.plan) ELSE call.target.dns[1]

\* write_rule validates the rule; it and delete_rule reject a foreign one.
RejectForeignRule ==
    /\ pc = "write"
    /\ \/ /\ native.dns = <<>> \/ OurMarker(native.dns)
          /\ \/ Removal /\ Goto("delete")
             \/ ~Removal /\ Valid(Wanted) /\ Goto("create")
          /\ UNCHANGED bounds
       \/ /\ \/ native.dns # <<>> /\ ~OurMarker(native.dns)
             \/ ~Removal /\ ~Valid(Wanted)
          /\ Result("err") /\ UNCHANGED call /\ UNCHANGED bounds
       \/ Faulty /\ Result("err") /\ UNCHANGED call
    /\ UNCHANGED <<kind, native, aux, lease, hist>>

\* create_rule_key creates the key, or opens the one that exists. The rest of
\* the call works on that key.
CreateKey ==
    /\ pc = "create"
    /\ \/ /\ native.dns = <<>>
          /\ Wrote([native EXCEPT !.dns = <<[v \in {} |-> 0]>>])
          /\ aux' = aux + 1
          /\ loc' = [loc EXCEPT !.cur = <<aux'>>] /\ pc' = "value" /\ UNCHANGED bounds
       \/ /\ native.dns # <<>>
          /\ loc' = [loc EXCEPT !.cur = <<aux>>] /\ pc' = "existing"
          /\ UNCHANGED <<native, aux, call, bounds>>
       \/ Faulty /\ Result("err") /\ UNCHANGED <<native, aux, call>>
    /\ UNCHANGED <<kind, lease, hist>>

OurKey == native.dns # <<>> /\ aux = loc.cur[1]

\* The next value of a new rule, the ConfigOptions that put it into effect last.
SetValue ==
    /\ pc = "value" /\ OurKey
    /\ LET set == {i \in DOMAIN ValueOrder : ValueOrder[i] \in Values(native.dns)}
           next == ValueOrder[1 + Cardinality(set)]
           dns == <<[v \in Values(native.dns) \cup {next} |->
                       IF v = next THEN Wanted[v] ELSE native.dns[1][v]]>>
       IN \/ /\ Wrote([native EXCEPT !.dns = dns]) /\ UNCHANGED bounds
             /\ IF Whole(dns) THEN Result("ok") ELSE UNCHANGED <<pc, loc>>
          \/ Faulty /\ pc' = "undo" /\ UNCHANGED <<native, call, loc>>
    /\ UNCHANGED <<kind, aux, lease, hist>>

\* A new key that could not be filled is deleted; nothing is left to delete of
\* one that somebody else deleted.
DeleteCreatedKey ==
    /\ \/ pc = "undo"
       \/ pc = "value" /\ ~OurKey
    /\ Result("err")
    /\ \/ OurKey /\ Wrote([native EXCEPT !.dns = <<>>]) /\ UNCHANGED bounds
       \/ ~OurKey /\ UNCHANGED <<native, call, bounds>>
       \/ Faulty /\ UNCHANGED <<native, call>>
    /\ UNCHANGED <<kind, aux, lease, hist>>

\* An existing rule must be a whole, valid one of this owner with the same immutable
\* fields; its servers are published in one value.
UpdateRule ==
    /\ pc = "existing"
    /\ LET whole == OurKey /\ Readable(native.dns)
           same == whole /\ native.dns[1] = [Wanted EXCEPT !.GenericDNSServers =
                                               native.dns[1].GenericDNSServers]
           new == [native EXCEPT !.dns[1].GenericDNSServers = Wanted.GenericDNSServers]
       IN \/ same /\ new # native /\ Writing("existing", new, "return")
          \/ /\ same => new = native
             /\ Result(IF same THEN "ok" ELSE "err")
             /\ UNCHANGED <<kind, native, call, lease, hist, bounds>>
    /\ UNCHANGED aux

DeleteRule ==
    /\ Writing("delete", [native EXCEPT !.dns = <<>>], "return")
    /\ UNCHANGED aux

RulePublicState(dns) ==
    [ns |-> IF dns = <<>> THEN <<>> ELSE dns[1].GenericDNSServers, search |-> <<>>,
     routing |-> IF dns = <<>> THEN <<>> ELSE Distinct(dns[1].Name), route |-> "unset"]

(***************************************************************************)
(* Other programs set name servers; the adapter goes and comes back under  *)
(* its GUID. An administrator edits, deletes or replaces the rule.         *)
(***************************************************************************)
RivalInterface ==
    /\ kind = "windows"
    /\ \/ \E ns \in Dhcp : native.up /\ Foreign([native EXCEPT !.dns.ns4 = ns])
       \/ Foreign([native EXCEPT !.up = ~@])
    /\ UNCHANGED aux

ForeignRule == <<[Comment |-> "other", Name |-> <<Root>>, ConfigOptions |-> 8]>>

RivalRule ==
    /\ kind = "nrpt"
    /\ \/ /\ native.dns = <<>> /\ aux' = aux + 1
          /\ Foreign([native EXCEPT !.dns = ForeignRule])
       \/ /\ Foreign([native EXCEPT !.dns = <<>>]) /\ UNCHANGED aux
       \/ /\ Whole(native.dns) /\ UNCHANGED aux
          /\ \E ns \in Dhcp : Foreign([native EXCEPT !.dns[1].GenericDNSServers = ns])

Initial ==
    {[native |-> [inc |-> 1, up |-> TRUE, id |-> 0, rest |-> "none",
                  dns |-> [ns4 |-> ns, search4 |-> <<>>, ns6 |-> <<>>, search6 |-> <<>>]],
      aux |-> 0] : ns \in Dhcp}

\* No rule, somebody else's under our key, or our own of an earlier process.
InitialRule ==
    {[native |-> [inc |-> 1, up |-> TRUE, id |-> 0, rest |-> "none", dns |-> d], aux |-> 0] :
     d \in {<<>>, ForeignRule} \cup
           {<<[Rule(p) EXCEPT !.GenericDNSServers = ns]>> : p \in RulePlans, ns \in Dhcp}}

Next ==
    /\ kind \in Ours
    /\ \/ \E p \in Accepted(Requests, Caps) :
             \/ kind = "windows" /\ BeginApply(p, {InterfaceState(p)}, FALSE)
             \/ kind = "nrpt" /\ p \in RulePlans /\ BeginApply(p, {<<Rule(p)>>}, FALSE)
       \/ Verify \/ BeginRestore(Before, FALSE) \/ EndRestore
       \/ CheckStatus("status", "read") \/ CheckStatus("restat", "write")
       \/ /\ kind = "windows"
          /\ ObserveInterface \/ ReadInterface \/ CompareParts \/ SetInterface
       \/ /\ kind = "nrpt"
          /\ \/ ObserveRule \/ CheckRule \/ RejectForeignRule \/ CreateKey \/ SetValue
             \/ DeleteCreatedKey \/ UpdateRule \/ DeleteRule
       \/ RivalInterface \/ RivalRule \/ Return \/ Crash
=============================================================================
