------------------------------ MODULE DnsPlan ------------------------------
(***************************************************************************)
(* Configurations and what they become in native form: build and           *)
(* validate_against of src/src/config.rs, DnsSuffix of src/src/normalize.rs *)
(* and the field mappings of src/src/platform/text_config.rs.              *)
(*                                                                         *)
(* Addresses and domain names are values; order, duplicates, the address   *)
(* family and the root domain are what the mappings tell apart.            *)
(***************************************************************************)
EXTENDS Naturals, Sequences, FiniteSets

CONSTANTS
    V4, V6,     \* name server addresses of the two families
    Unspecified, \* those of them that name no server: 0.0.0.0 and ::
    Spellings,  \* what a caller may write for a domain, Root included
    Canonical,  \* DnsSuffix::parse: the canonical domain of a spelling, or Invalid
    Invalid,
    Root        \* the root domain

Domains == {Canonical[s] : s \in Spellings} \ {Invalid}

ASSUME DnsPlanAssumption ==
    /\ V4 \cap V6 = {} /\ Unspecified \subseteq V4 \cup V6
    /\ DOMAIN Canonical = Spellings
    /\ Root \in Domains /\ Invalid \notin Domains

Elements(seq) == {seq[i] : i \in DOMAIN seq}

\* The values of seq at these places, in their order.
Picked(seq, places) ==
    LET rank(i) == Cardinality({j \in places : j <= i})
    IN [n \in 1..Cardinality(places) |-> seq[CHOOSE i \in places : rank(i) = n]]

\* The values of seq in order of their first occurrence.
Distinct(seq) ==
    Picked(seq, {i \in DOMAIN seq : \A j \in DOMAIN seq : seq[j] = seq[i] => i <= j})

Without(seq, values) == Picked(seq, {i \in DOMAIN seq : seq[i] \notin values})
Only(seq, values) == Picked(seq, {i \in DOMAIN seq : seq[i] \in values})
Map(seq, f(_)) == [i \in DOMAIN seq |-> f(seq[i])]

StartsWith(seq, front) == Len(front) <= Len(seq) /\ SubSeq(seq, 1, Len(front)) = front

(***************************************************************************)
(* DnsConfigBuilder::build and validate_against.                           *)
(***************************************************************************)
\* A request is what the caller passes to the builder; route is "unset", "yes"
\* or "no".
Built(request) ==
    [ns |-> Distinct(request.ns),
     search |-> Distinct(Map(request.search, LAMBDA s : Canonical[s])),
     routing |-> Distinct(Map(request.routing, LAMBDA s : Canonical[s])),
     route |-> request.route]

BuildAccepts(request) ==
    /\ Elements(request.ns) \cap Unspecified = {}
    /\ \A s \in Elements(request.search) \cup Elements(request.routing) :
          Canonical[s] # Invalid
    /\ request.scope = "global" => request.routing = <<>> /\ request.route = "unset"

ValidateAgainst(request, caps) ==
    /\ request.scope \in caps.scopes
    /\ request.search # <<>> => caps.search
    /\ request.routing # <<>> => caps.split
    /\ request.route # "unset" => caps.route

\* The plans a backend with these capabilities is asked to apply.
Accepted(requests, caps) ==
    {Built(r) : r \in {q \in requests : BuildAccepts(q) /\ ValidateAgainst(q, caps)}}

(***************************************************************************)
(* Native forms and how public_state reads them.                           *)
(***************************************************************************)
NameServers4(plan) == Only(plan.ns, V4)
NameServers6(plan) == Only(plan.ns, V6)

\* build_resolv_conf_content; a search line needs a name. What else a file may
\* hold (options, comments) is one value.
ResolvConf(plan) ==
    [ns |-> plan.ns, search |-> Without(plan.search, {Root}), options |-> "none"]

\* Mutant: every routing domain is a routing-only entry.
ResolvedDomainsTwice(plan) ==
    Map(plan.search, LAMBDA d : [name |-> d, routeOnly |-> FALSE])
    \o Map(plan.routing, LAMBDA d : [name |-> d, routeOnly |-> TRUE])

\* resolved_domains_from_plan: a domain listed twice is a search domain.
ResolvedDomains(plan) ==
    Map(plan.search, LAMBDA d : [name |-> d, routeOnly |-> FALSE])
    \o Map(Without(plan.routing, Elements(plan.search)),
           LAMBDA d : [name |-> d, routeOnly |-> TRUE])

\* resolved_dns_from_plan: the family travels with the address.
ResolvedDns(plan) ==
    Map(plan.ns, LAMBDA ip : [family |-> IF ip \in V4 THEN 2 ELSE 10, ip |-> ip])

\* NmDnsFields::from_plan: one list of entries for both families, the routing
\* domains marked; the root is an entry only when it is a routing domain.
NmEntries(plan, split) ==
    LET search == Without(plan.search, {Root})
        routing == IF split THEN Without(plan.routing, Elements(search)) ELSE <<>>
    IN Map(search, LAMBDA d : [name |-> d, routeOnly |-> FALSE])
       \o Map(routing, LAMBDA d : [name |-> d, routeOnly |-> TRUE])

NmFields(plan, split) ==
    LET entries == NmEntries(plan, split)
    IN [dns4 |-> NameServers4(plan), search4 |-> entries, ignoreAuto4 |-> TRUE,
        dns6 |-> NameServers6(plan), search6 |-> entries, ignoreAuto6 |-> TRUE]

Names(entries, routeOnly) ==
    Map(Picked(entries, {i \in DOMAIN entries : entries[i].routeOnly = routeOnly}),
        LAMBDA e : e.name)

\* resolved_domains_to_public and parse_nm_search_entries.
PublicSearch(entries) == Distinct(Names(entries, FALSE))
PublicRouting(entries) == Distinct(Names(entries, TRUE))

\* What a caller who applied plan finds in the state that a native form reports.
\* The form keeps some of these things: the order of the servers ("order"), or else
\* the order within each family, IPv4 first; the root as a search domain ("root");
\* the routing domains, of which one that is a search domain, too, is reported as
\* such ("routing"); and a default route that was asked for ("route").
Reports(seen, plan, kept) ==
    /\ seen.ns = IF "order" \in kept THEN plan.ns ELSE NameServers4(plan) \o NameServers6(plan)
    /\ seen.search = Without(plan.search, IF "root" \in kept THEN {} ELSE {Root})
    /\ seen.routing = IF "routing" \in kept
                      THEN Without(plan.routing, Elements(seen.search)) ELSE <<>>
    /\ IF "route" \in kept THEN plan.route # "unset" => seen.route = plan.route
                           ELSE seen.route = "unset"
=============================================================================
