----------------------------- MODULE BoundCall -----------------------------
(***************************************************************************)
(* What the native backends have in common: the resource, the bound call   *)
(* in progress and the default apply_bound and restore_bound of the        *)
(* Backend trait (src/src/platform/mod.rs), driven by the engine the way   *)
(* mutate_and_verify and compensate do (src/src/manager.rs).               *)
(*                                                                         *)
(* A call is cut into steps at every native operation; other programs act, *)
(* operations fail and the process dies between any two of them.           *)
(***************************************************************************)
EXTENDS Naturals, FiniteSets

CONSTANTS
    NoState,     \* no snapshot
    MaxCalls,    \* bound on the engine's calls
    MaxEvents,   \* bound on changes made by other programs
    MaxFaults    \* bound on failing native operations and crashes

ASSUME BoundCallAssumption ==
    MaxCalls \in Nat /\ MaxEvents \in Nat /\ MaxFaults \in Nat

VARIABLES
    kind,      \* the backend that select_default_backend chose
    native,    \* the resource: its incarnation and whether it is present, the
               \* identity and value of its managed fields, and the rest that
               \* osdns shares with other programs but does not manage
    aux,       \* native state of one backend that no snapshot shows
    call,      \* the bound call in progress, or the last one
    pc, loc,
    lease,     \* the engine's snapshot of the state before, and its evidence
    first,     \* history: the resource when the engine observed it
    moved,     \* history: another program acted since then
    calls, events, faults

hist == <<first, moved>>
bounds == <<calls, events, faults>>
vars == <<kind, native, aux, call, pc, loc, lease, first, moved, calls, events, faults>>

Snap == [id |-> native.id, dns |-> native.dns]

NoCall ==
    [running |-> FALSE, op |-> "none", inc |-> 0, expected |-> NoState, plan |-> NoState,
     target |-> NoState, goal |-> {}, guarded |-> FALSE, confirmed |-> FALSE,
     wrote |-> FALSE, made |-> NoState, disturbed |-> FALSE, answer |-> "none",
     produced |-> NoState]

NoLease == [base |-> NoState, inc |-> 0, evidence |-> NoState]

NoLocals == [cur |-> <<>>, res |-> "none"]

CallInit ==
    /\ call = NoCall /\ pc = "idle" /\ loc = NoLocals
    /\ lease = NoLease /\ first = NoState /\ moved = FALSE
    /\ calls = 0 /\ events = 0 /\ faults = 0

(***************************************************************************)
(* The engine.                                                             *)
(***************************************************************************)
Faulty == faults < MaxFaults /\ faults' = faults + 1 /\ UNCHANGED <<calls, events>>

Called == calls < MaxCalls /\ calls' = calls + 1 /\ UNCHANGED <<events, faults>>

Took(snapshot, resource) ==
    /\ lease' = [base |-> snapshot, inc |-> resource.inc, evidence |-> NoState]
    /\ first' = resource /\ moved' = FALSE

\* observe of a backend whose capture is one native read.
Observe ==
    /\ pc = "idle" /\ lease = NoLease /\ native.up
    /\ Called
    /\ Took(Snap, native)
    /\ UNCHANGED <<kind, native, aux, call, pc, loc>>

\* observe of a backend whose capture is not: an identity, the reads, the status
\* of the identity.
ObserveBegin(to) ==
    /\ pc = "idle" /\ lease = NoLease /\ native.up
    /\ Called
    /\ pc' = to /\ loc' = NoLocals
    /\ lease' = [NoLease EXCEPT !.inc = native.inc]
    /\ first' = native /\ moved' = FALSE
    /\ UNCHANGED <<kind, native, aux, call>>

ObserveFailed == pc' = "idle" /\ loc' = NoLocals /\ lease' = NoLease

\* A native read adds the fields it reads to those read before.
Filled(cur, fields) ==
    [f \in DOMAIN cur \cup fields |-> IF f \in fields THEN native.dns[f] ELSE cur[f]]

ObservePart(from, fields, to) ==
    /\ pc = from
    /\ \/ /\ native.up
          /\ loc' = [loc EXCEPT !.cur = Filled(@, fields)]
          /\ pc' = to
          /\ UNCHANGED <<lease, bounds>>
       \/ ~native.up /\ ObserveFailed /\ UNCHANGED bounds
       \/ Faulty /\ ObserveFailed
    /\ UNCHANGED <<kind, native, aux, call, hist>>

ObserveEnd ==
    /\ pc = "ob.status"
    /\ lease' = IF native.up /\ native.inc = lease.inc
                THEN [lease EXCEPT !.base = [id |-> 0, dns |-> loc.cur]]
                ELSE NoLease
    /\ pc' = "idle" /\ loc' = NoLocals
    /\ UNCHANGED <<kind, native, aux, call, hist, bounds>>

\* The managed fields of the state before.
Before == {lease.base.dns}

Begin(op, expected, plan, target, goal, guarded) ==
    /\ call' = [NoCall EXCEPT !.running = TRUE, !.op = op, !.inc = lease.inc,
                              !.expected = expected, !.plan = plan, !.target = target,
                              !.goal = goal, !.guarded = guarded]
    /\ pc' = "status" /\ loc' = NoLocals
    /\ UNCHANGED <<kind, native, aux, hist>>

\* mutate_and_verify calls apply_bound with the state it captured. Goal is what
\* matches_desired accepts.
BeginApply(plan, goal, guarded) ==
    /\ pc = "idle" /\ lease.base # NoState /\ lease.evidence = NoState
    /\ call.op = "none"
    /\ Called
    /\ Begin("apply", lease.base, plan, NoState, goal, guarded)
    /\ UNCHANGED lease

\* mutate_and_verify after apply_bound: the identity the backend issued, or the
\* state read back if it matches, becomes the evidence of a later restore.
Verify ==
    /\ pc = "idle" /\ call.op = "apply" /\ call.answer # "none"
    /\ lease.base # NoState /\ lease.evidence = NoState
    /\ IF call.answer = "Rejected"
       THEN lease' = NoLease /\ call' = NoCall
       ELSE /\ lease' = IF call.produced # NoState
                        THEN [lease EXCEPT !.evidence = call.produced]
                        ELSE IF /\ call.answer = "Performed" /\ native.up
                                /\ native.inc = call.inc /\ native.dns \in call.goal
                        THEN [lease EXCEPT !.evidence = Snap]
                        ELSE NoLease
            /\ call' = IF lease' = NoLease THEN NoCall ELSE call
    /\ UNCHANGED <<kind, native, aux, pc, loc, hist, bounds>>

\* compensate, or a lease's restore: restore_bound with the evidence as the
\* expected state and the state before as the target.
BeginRestore(goal, guarded) ==
    /\ pc = "idle" /\ lease.evidence # NoState /\ call.op # "restore"
    /\ Called
    /\ Begin("restore", lease.evidence, NoState, lease.base, goal, guarded)
    /\ UNCHANGED lease

\* The lease ends after a restore; a failed one may be tried again, with the
\* identity the backend issued for what it left behind.
EndRestore ==
    /\ pc = "idle" /\ call.op = "restore" /\ call.answer # "none"
    /\ lease' = IF call.answer = "Performed" THEN NoLease
                ELSE IF call.produced # NoState THEN [lease EXCEPT !.evidence = call.produced]
                ELSE lease
    /\ call' = NoCall
    /\ UNCHANGED <<kind, native, aux, pc, loc, hist, bounds>>

(***************************************************************************)
(* Steps of a bound call.                                                  *)
(***************************************************************************)
Answer(answer, produced) ==
    /\ call' = [call EXCEPT !.running = FALSE, !.answer = answer, !.produced = produced]
    /\ pc' = "idle" /\ loc' = NoLocals

Goto(label) == pc' = label /\ UNCHANGED <<call, loc>>

StatusSame == native.up /\ native.inc = call.inc

\* resource_status must be Same; anything else, an error included, rejects.
CheckStatus(from, to) ==
    /\ pc = from
    /\ \/ StatusSame /\ Goto(to) /\ UNCHANGED bounds
       \/ ~StatusSame /\ Answer("Rejected", NoState) /\ UNCHANGED bounds
       \/ Faulty /\ Answer("Rejected", NoState)
    /\ UNCHANGED <<kind, native, aux, lease, hist>>

Confirmed(label) ==
    /\ call' = [call EXCEPT !.confirmed = TRUE]
    /\ pc' = label /\ UNCHANGED loc

\* The comparison of the state read with the expected one.
CheckExpected(equal, to) ==
    \/ equal /\ Confirmed(to)
    \/ ~equal /\ Answer("Rejected", NoState)

\* readback and comparison of a backend whose capture is one native read.
CheckCurrent(from, to) ==
    /\ pc = from
    /\ \/ native.up /\ CheckExpected(native.dns = call.expected.dns, to) /\ UNCHANGED bounds
       \/ ~native.up /\ Answer("Rejected", NoState) /\ UNCHANGED bounds
       \/ Faulty /\ Answer("Rejected", NoState)
    /\ UNCHANGED <<kind, native, aux, lease, hist>>

\* A backend whose capture takes several native reads: a torn read mixes them.
ReadPart(from, fields, to) ==
    /\ pc = from
    /\ \/ /\ native.up
          /\ loc' = [loc EXCEPT !.cur = Filled(@, fields)]
          /\ pc' = to
          /\ UNCHANGED <<call, bounds>>
       \/ ~native.up /\ Answer("Rejected", NoState) /\ UNCHANGED bounds
       \/ Faulty /\ Answer("Rejected", NoState)
    /\ UNCHANGED <<kind, native, aux, lease, hist>>

CompareParts ==
    /\ pc = "compare"
    /\ CheckExpected(loc.cur = call.expected.dns, "restat")
    /\ UNCHANGED <<kind, native, aux, lease, hist, bounds>>

\* The default apply_bound and restore_bound up to the backend's own apply or
\* restore at "write".
Preflight ==
    \/ CheckStatus("status", "read")
    \/ CheckCurrent("read", "restat")
    \/ CheckStatus("restat", "write")

\* from_apply_result, and its counterpart in restore_bound, which knows no
\* rejection any more.
Return ==
    /\ pc = "return"
    /\ \/ loc.res = "ok" /\ Answer("Performed", NoState)
       \/ loc.res = "external" /\ call.op = "apply" /\ Answer("Rejected", NoState)
       \/ loc.res = "external" /\ call.op = "restore" /\ Answer("Indeterminate", NoState)
       \/ loc.res = "err" /\ Answer("Indeterminate", NoState)
    /\ UNCHANGED <<kind, native, aux, lease, hist, bounds>>

Result(res) == pc' = "return" /\ loc' = [loc EXCEPT !.res = res]

\* The effect of one native write on the managed fields.
Wrote(resource) ==
    /\ native' = resource
    /\ call' = [call EXCEPT !.wrote = TRUE, !.made = [id |-> resource.id, dns |-> resource.dns]]

\* A native write that succeeds, fails without effect or fails after its effect
\* (a lost reply), and the label a success goes on to.
Writing(from, resource, to) ==
    /\ pc = from
    /\ \/ Wrote(resource) /\ UNCHANGED bounds
          /\ IF to = "return" THEN Result("ok") ELSE pc' = to /\ UNCHANGED loc
       \/ Faulty /\ Wrote(resource) /\ Result("err")
       \/ Faulty /\ Result("err") /\ UNCHANGED <<native, call>>
    /\ UNCHANGED <<kind, lease, hist>>

(***************************************************************************)
(* The environment.                                                        *)
(***************************************************************************)
\* Another program changes the resource.
Foreign(resource) ==
    /\ events < MaxEvents /\ events' = events + 1
    /\ resource # native
    /\ native' = resource
    /\ call' = [call EXCEPT !.disturbed = @ \/ call.running]
    /\ moved' = TRUE
    /\ UNCHANGED <<kind, pc, loc, lease, first, calls, faults>>

\* The process dies in a bound call; what it holds in memory is lost.
Crash ==
    /\ pc # "idle" /\ Faulty
    /\ call' = NoCall
    /\ pc' = "idle" /\ loc' = NoLocals /\ lease' = NoLease
    /\ UNCHANGED <<kind, native, aux, hist>>
=============================================================================
