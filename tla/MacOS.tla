------------------------------- MODULE MacOS -------------------------------
(***************************************************************************)
(* The macOS backend (src/src/platform/macos): the DNS dictionary of a     *)
(* network service, shared with other programs, and a scoped resolver file *)
(* of /etc/resolver.                                                       *)
(*                                                                         *)
(* For a service native.dns has the two managed keys of the dictionary,    *)
(* <<>> for a missing one, and native.rest its other keys. For a resolver  *)
(* file native.dns is <<>> without a file, else its content with marker    *)
(* and generation, and native.id is the file's inode and time.             *)
(***************************************************************************)
EXTENDS BoundCall, DnsPlan

CONSTANTS
    Requests,
    Ours,       \* the kinds of the two resources
    Strangers   \* name server lists other programs set

Caps == [scopes |-> {"interface", "global"}, search |-> TRUE, split |-> TRUE, route |-> TRUE]

\* service_needed for an interface; routing domains need an interface.
ServiceNeeded(plan) == plan.routing = <<>> \/ plan.route = "yes"

\* validate_plan, and the same refusal of the root in resolve_resources.
ValidatePlan(plan) ==
    /\ Root \notin Elements(plan.routing)
    /\ ~(plan.route = "no" /\ plan.routing = <<>>)
    /\ ~(plan.routing # <<>> /\ plan.search # <<>> /\ ~ServiceNeeded(plan))

Plans == {p \in Accepted(Requests, Caps) : ValidatePlan(p)}

(***************************************************************************)
(* Services: write_service_dns and restore_service_dns read the dictionary *)
(* for its unmanaged keys and write it as a whole.                         *)
(***************************************************************************)
ServiceDns(plan) ==
    [servers |-> <<plan.ns>>, search |-> <<Without(plan.search, {Root})>>]

\* public_state, which knows services only: a resolver file is never reported.
ServicePublicState(dns) ==
    [ns |-> IF dns.servers = <<>> THEN <<>> ELSE dns.servers[1],
     search |-> IF dns.search = <<>> THEN <<>> ELSE dns.search[1],
     routing |-> <<>>, route |-> "unset"]

ReadDictionary ==
    /\ pc = "write"
    /\ \/ loc' = [loc EXCEPT !.cur = <<native.rest>>] /\ pc' = "set" /\ UNCHANGED bounds
       \/ Faulty /\ Result("err")
    /\ UNCHANGED <<kind, native, aux, call, lease, hist>>

\* Mutant: the dictionary is written with the managed keys only.
SetDictionaryAlone ==
    /\ Writing("set", [native EXCEPT
           !.dns = IF call.op = "apply" THEN ServiceDns(call.plan) ELSE call.target.dns,
           !.rest = "none"], "return")
    /\ UNCHANGED aux

SetDictionary ==
    /\ Writing("set", [native EXCEPT
           !.dns = IF call.op = "apply" THEN ServiceDns(call.plan) ELSE call.target.dns,
           !.rest = loc.cur[1]], "return")
    /\ UNCHANGED aux

(***************************************************************************)
(* Resolver files: replace compares the whole file, prepares a new one,    *)
(* compares again and renames; over no file it renames only onto nothing.  *)
(***************************************************************************)
ResolverContent(plan, generation) ==
    <<[marker |-> "osdns", generation |-> generation, ns |-> plan.ns]>>

ResolverGoal(plan) == {ResolverContent(plan, n) : n \in 0..MaxCalls}

OurFile == native.dns # <<>> => native.dns[1].marker = "osdns"

\* capture and validate_content: somebody else's file is a conflict.
ObserveFile == OurFile /\ Observe

Inode == 10 * calls + 5

FirstRead ==
    /\ pc = "status"
    /\ \/ CheckExpected(Snap = call.expected /\ OurFile, "prepare") /\ UNCHANGED bounds
       \/ Faulty /\ Answer("Indeterminate", NoState)
    /\ UNCHANGED <<kind, native, aux, lease, hist>>

Content == IF call.op = "apply" THEN ResolverContent(call.plan, calls) ELSE call.target.dns

\* The temporary file and the second comparison; a removal goes straight on.
SecondRead ==
    /\ pc = "prepare"
    /\ \/ (Content = <<>> \/ Snap = call.expected) /\ Goto("publish") /\ UNCHANGED bounds
       \/ Content # <<>> /\ Snap # call.expected /\ Answer("Rejected", NoState) /\ UNCHANGED bounds
       \/ Content # <<>> /\ Faulty /\ Answer("Indeterminate", NoState)
    /\ UNCHANGED <<kind, native, aux, lease, hist>>

Published ==
    [native EXCEPT !.dns = Content, !.id = IF Content = <<>> THEN 0 ELSE Inode]

NoReplace == Content # <<>> /\ call.expected.dns = <<>>

\* The snapshot of the new file is the identity issued for it. An error after
\* the rename, and any error that is not a conflict, issues none. A removal
\* fails without a file to remove.
Publish ==
    /\ pc = "publish"
    /\ \/ /\ ~NoReplace \/ native.dns = <<>>
          /\ Content = <<>> => native.dns # <<>>
          /\ \/ /\ pc' = "issue" /\ UNCHANGED <<loc, bounds>>
             \/ Faulty /\ Result("err")
          /\ Wrote(Published)
       \/ /\ NoReplace /\ native.dns # <<>>
          /\ Answer("Rejected", NoState) /\ UNCHANGED <<native, bounds>>
       \/ /\ Content = <<>> /\ native.dns = <<>>
          /\ Result("err") /\ UNCHANGED <<native, call, bounds>>
       \/ Faulty /\ Result("err") /\ UNCHANGED <<native, call>>
    /\ UNCHANGED <<kind, aux, lease, hist>>

Issue ==
    /\ pc = "issue"
    /\ Answer("Performed", call.made)
    /\ UNCHANGED <<kind, native, aux, lease, hist, bounds>>

(***************************************************************************)
(* Other programs set the service's servers or its other keys; they edit,  *)
(* delete or put down a resolver file.                                     *)
(***************************************************************************)
RivalService ==
    /\ kind = "service"
    /\ \/ \E ns \in Strangers : Foreign([native EXCEPT !.dns.servers = <<ns>>])
       \/ \E rest \in {"none", "port"} : Foreign([native EXCEPT !.rest = rest])
    /\ UNCHANGED aux

RivalFile ==
    /\ kind = "resolver"
    /\ \/ \E ns \in Strangers :
             Foreign([native EXCEPT !.dns = <<[marker |-> "other", generation |-> 0, ns |-> ns]>>,
                                    !.id = 10 * calls + events + 1])
       \/ native.dns # <<>> /\ Foreign([native EXCEPT !.id = 10 * calls + events + 1])
       \/ Foreign([native EXCEPT !.dns = <<>>, !.id = 0])
    /\ UNCHANGED aux

Initial ==
    {[native |-> [inc |-> 1, up |-> TRUE, id |-> 0, rest |-> rest,
                  dns |-> [servers |-> s, search |-> <<>>]], aux |-> "none"] :
     s \in {<<>>} \cup {<<ns>> : ns \in Strangers}, rest \in {"none", "port"}}

InitialFile ==
    {[native |-> [inc |-> 1, up |-> TRUE, id |-> 0, rest |-> "none", dns |-> <<>>],
      aux |-> "none"]} \cup
    {[native |-> [inc |-> 1, up |-> TRUE, id |-> 1, rest |-> "none",
                  dns |-> <<[marker |-> marker, generation |-> 0, ns |-> ns]>>],
      aux |-> "none"] : marker \in {"osdns", "other"}, ns \in Strangers}

Next ==
    /\ kind \in Ours
    /\ \/ \E p \in Plans :
             \/ kind = "service" /\ ServiceNeeded(p) /\ BeginApply(p, {ServiceDns(p)}, FALSE)
             \/ /\ kind = "resolver" /\ p.routing # <<>>
                /\ BeginApply(p, ResolverGoal(p), lease.base.dns = <<>>)
       \/ Verify \/ BeginRestore(Before, FALSE) \/ EndRestore
       \/ kind = "service" /\ (Observe \/ Preflight \/ ReadDictionary \/ SetDictionary)
       \/ kind = "resolver" /\ (ObserveFile \/ FirstRead \/ SecondRead \/ Publish \/ Issue)
       \/ RivalService \/ RivalFile \/ Return \/ Crash
=============================================================================
