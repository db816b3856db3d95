--------------------------- MODULE BoundMutation ---------------------------
(***************************************************************************)
(* What a bound mutation promises the transaction engine, whatever the     *)
(* native backend: the contract of MutationAttempt and of the Backend      *)
(* trait's apply_bound and restore_bound (src/src/platform/mod.rs).        *)
(*                                                                         *)
(* A call compares before it writes; an answer of Rejected means that it   *)
(* wrote nothing, Performed that the resource has what was asked for, and  *)
(* an identity it issues names the state it made. The native backends      *)
(* implement this specification (NativeHost, Contract).                    *)
(***************************************************************************)
CONSTANT NoState   \* no snapshot: nothing written, nothing issued

VARIABLES
    state,   \* the resource as a backend can observe it: incarnation, the
             \* identity the backend gave the state, the managed DNS fields
    call     \* the bound call in progress, or the last one

vars == <<state, call>>

\* The resource is the one the call was bound to, in the state it expects.
AsExpected ==
    /\ state.inc = call.inc
    /\ [id |-> state.id, dns |-> state.dns] = call.expected

\* A value-comparing backend cannot see the identity of a state.
LooksExpected == state.inc = call.inc /\ state.dns = call.expected.dns

Init == ~call.running

\* apply_bound or restore_bound is called.
Begin ==
    /\ ~call.running /\ call'.running
    /\ ~call'.wrote /\ call'.produced = NoState
    /\ ~call'.confirmed /\ ~call'.disturbed
    /\ call'.answer = "none"
    /\ UNCHANGED state

\* Another program, or the removal and re-creation of the resource.
Other ==
    /\ call' = [call EXCEPT !.disturbed = @ \/ call.running]

\* The preflight check. Only another program acting during the call can make
\* it hold for a state that never stood.
Check ==
    /\ call.running
    /\ LooksExpected \/ call.disturbed
    /\ call' = [call EXCEPT !.confirmed = TRUE]
    /\ UNCHANGED state

\* One native write. A guarded backend compares and writes in one operation.
Write ==
    /\ call.running /\ call.confirmed
    /\ call.guarded => AsExpected
    /\ call' = [call EXCEPT !.wrote = TRUE, !.made = [id |-> state'.id, dns |-> state'.dns]]
    /\ state'.inc = state.inc

\* An issued identity names the state the call made, or the state it was told to
\* expect when it made nothing; the part of it that could not be read is left out.
Names(snapshot) ==
    \/ snapshot = NoState
    \/ ~call.wrote /\ snapshot.dns = call.expected.dns
    \/ /\ call.wrote /\ snapshot.dns = call.made.dns
       /\ snapshot.id \in {call.made.id, NoState}
    \/ call.disturbed

\* What the call left behind, had nobody else acted.
Effect == IF call.wrote THEN call.made ELSE call.expected

Answer ==
    /\ call.running /\ ~call'.running
    /\ \/ call'.answer = "Rejected" /\ ~call.wrote /\ call'.produced = NoState
       \/ /\ call'.answer = "Performed"
          /\ \/ Effect.dns \in call.goal
             \/ call.disturbed
          /\ Names(call'.produced)
       \/ call'.answer = "Indeterminate" /\ Names(call'.produced)
    /\ call' = [call EXCEPT !.running = FALSE, !.answer = call'.answer,
                            !.produced = call'.produced]
    /\ UNCHANGED state

\* The process dies in the call, or the engine is done with its answer.
Forget ==
    /\ ~call'.running /\ call'.answer = "none"
    /\ UNCHANGED state

Next == Begin \/ Other \/ Check \/ Write \/ Answer \/ Forget

Spec == Init /\ [][Next]_vars
=============================================================================
