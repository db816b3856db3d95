------------------------------ MODULE Backend ------------------------------
(***************************************************************************)
(* The boundary between the transaction engine and one native DNS resource *)
(* (src/src/platform/mod.rs), with the semantics of the in-memory backend  *)
(* of src/src/platform/fake.rs: what a snapshot is, what a plan does to a  *)
(* state, when two snapshots are equivalent and when one of them names a   *)
(* mutation of ours.                                                       *)
(*                                                                         *)
(* A DNS state is a set of managed fields; two of them are enough to tell  *)
(* the operators apart: a field every plan sets (the name servers) and the *)
(* default route, which a plan may leave alone.                            *)
(***************************************************************************)
EXTENDS Naturals

CONSTANTS
    Servers,     \* name server lists
    Routes,      \* values of the default-route field, NoRoute among them
    NoRoute,     \* the field is unset; in a plan: preserve what is there
    Plans,       \* the configurations callers ask for
    Foreign,     \* the states other programs write
    Initial,     \* the state of the resource before anyone wrote it
    Ownership,   \* "Durable" or "BestEffort" (OwnershipIdentity)
    Guard        \* "CompareAndMutate" or "Unconditional" (MutationGuard)

States == [ns: Servers, route: Routes]

ASSUME BackendAssumption ==
    /\ NoRoute \in Routes
    /\ Plans \subseteq States /\ Plans # {}
    /\ Foreign \subseteq States
    /\ Initial \in States
    /\ Ownership \in {"Durable", "BestEffort"}
    /\ Guard \in {"CompareAndMutate", "Unconditional"}

(***************************************************************************)
(* A snapshot carries the managed state and, on a backend with durable     *)
(* identities, the generation the backend gave that state. Generations of  *)
(* the resource start at 1, so generation 0 marks "no snapshot".           *)
(***************************************************************************)
Snapshots == [gen: Nat, dns: States]

None == [gen |-> 0, dns |-> Initial]

\* A native resource: its incarnation, the generation and value of its state,
\* and whether it is present.
Resources == [inc: Nat, gen: Nat, up: BOOLEAN, dns: States]

Snap(n) == [gen |-> n.gen, dns |-> n.dns]

Equivalent(a, b) == a.dns = b.dns

\* A plan without a default route accepts any.
MatchesDesired(s, plan) ==
    /\ s.ns = plan.ns
    /\ plan.route = NoRoute \/ s.route = plan.route

\* A plan without a default route preserves the current one.
MergeState(s, plan) ==
    [ns |-> plan.ns, route |-> IF plan.route = NoRoute THEN s.route ELSE plan.route]

\* What an interrupted write of t over s may have left behind.
PartialStates(s, t) == {[s EXCEPT !.ns = t.ns], t}

OwnsCurrent(claimed, current) ==
    IF Ownership = "Durable" THEN claimed = current ELSE Equivalent(claimed, current)

ResourceStatus(n, inc) ==
    IF ~n.up THEN "Gone" ELSE IF n.inc # inc THEN "Replaced" ELSE "Same"

\* The resource after a write of s through the same incarnation. Only a backend
\* with durable identities can tell two writes of one state apart.
Written(n, s) ==
    [n EXCEPT !.dns = s, !.gen = IF Ownership = "Durable" THEN @ + 1 ELSE @]

\* The resource after another program removed it and created s in its place.
Replacement(n, s) ==
    [inc |-> n.inc + 1, up |-> TRUE, dns |-> s,
     gen |-> IF Ownership = "Durable" THEN n.gen + 1 ELSE n.gen]
=============================================================================
