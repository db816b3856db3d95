----------------------------- MODULE Reconciler -----------------------------
(***************************************************************************)
(* The Enforce reconciler's worker beside successive leases on one         *)
(* resource (src/src/reconciliation.rs, src/src/lease.rs): the map of      *)
(* active leases, the map of per-resource tokens that keeps a pass and a   *)
(* lease's update or teardown apart, and the pending entry that remembers  *)
(* events. Each map has its own mutex, so every access is a step.          *)
(*                                                                         *)
(* What a pass or an update does to the resource is the business of        *)
(* Engine; here a pass reads the state, and either deals with it or        *)
(* defers. Delays only make an entry due later.                            *)
(***************************************************************************)
EXTENDS Naturals

CONSTANTS
    Leases,       \* the leases taken on the resource one after the other
    Worker,
    NoLease,
    Prompt,       \* the worker is between two passes whenever a lease starts
    MaxCalls,     \* bound on updates and attempts to end a lease
    MaxEvents,    \* bound on changes made by other programs
    MaxDefers     \* bound on passes that fail or defer

ASSUME ReconcilerAssumption ==
    /\ Worker \notin Leases /\ NoLease \notin Leases
    /\ Prompt \in BOOLEAN
    /\ MaxCalls \in Nat /\ MaxEvents \in Nat /\ MaxDefers \in Nat

Threads == Leases \cup {Worker}

VARIABLES
    lock,       \* the lease that has the resource lock
    active,     \* the lease in Inner::active
    slot,       \* the token in Inner::lease_tokens, 0 when there is none
    tokens,     \* tokens created so far
    token,      \* the token a thread has fetched, 0 for none
    locked,     \* whether the thread has locked it
    pc,
    how,        \* what a thread wants the token for
    entry,      \* the lease a pass works on
    generation, \* the generation a pass started with
    pending,    \* the resource's entry in Reconciler::pending
    inflight,   \* a native notification is on its way
    unseen,     \* another program changed the resource since it was last read
    calls, events, defers

tokenVars == <<slot, tokens, token, locked>>
passVars  == <<entry, generation>>
osVars    == <<inflight, unseen, events>>
vars == <<lock, active, tokenVars, pc, how, passVars, pending, osVars, calls, defers>>

Labels == {"new", "ensure", "rescan", "held", "failed", "ended", "release",
           "idle", "check", "token", "lock", "recheck", "generation", "status",
           "read", "complete", "defer", "forget", "remove", "unlock",
           "update", "teardown", "un.active", "un.slot", "un.pending"}

Entries == [in: BOOLEAN, gen: Nat, due: BOOLEAN]

Absent == [in |-> FALSE, gen |-> 0, due |-> FALSE]

(***************************************************************************)
(* Every variable has its type.                                            *)
(***************************************************************************)
TypeOK ==
    /\ lock \in Leases \cup {NoLease} /\ active \in Leases \cup {NoLease}
    /\ slot \in Nat /\ tokens \in Nat
    /\ token \in [Threads -> Nat] /\ locked \in [Threads -> BOOLEAN]
    /\ pc \in [Threads -> Labels]
    /\ how \in [Threads -> {"pass", "update", "restore", "drop"}]
    /\ entry \in Leases \cup {NoLease} /\ generation \in Nat
    /\ pending \in Entries
    /\ inflight \in BOOLEAN /\ unseen \in BOOLEAN
    /\ calls \in Nat /\ events \in Nat /\ defers \in Nat

Init ==
    /\ lock = NoLease /\ active = NoLease
    /\ slot = 0 /\ tokens = 0
    /\ token = [t \in Threads |-> 0] /\ locked = [t \in Threads |-> FALSE]
    /\ pc = [t \in Threads |-> IF t = Worker THEN "idle" ELSE "new"]
    /\ how = [t \in Threads |-> "pass"]
    /\ entry = NoLease /\ generation = 0
    /\ pending = Absent
    /\ inflight = FALSE /\ unseen = FALSE
    /\ calls = 0 /\ events = 0 /\ defers = 0

-----------------------------------------------------------------------------
(***************************************************************************)
(* The pending entry.                                                      *)
(***************************************************************************)
\* An event on a pending resource bumps its generation and keeps its schedule.
Touch(p) == IF p.in THEN [p EXCEPT !.gen = @ + 1]
                    ELSE [in |-> TRUE, gen |-> 0, due |-> TRUE]

\* Mutant: a deferral takes the touch it answers back.
DeferRewinds(p) == [in |-> TRUE, gen |-> p.gen - 1, due |-> FALSE]

Defer(p) == [in |-> TRUE, gen |-> p.gen, due |-> FALSE]

\* Mutant: a finished pass drops the entry whatever arrived meanwhile.
CompleteAlways(p, g) == Absent

\* complete_unless_touched.
Complete(p, g) == IF p.in /\ p.gen # g THEN [p EXCEPT !.due = TRUE] ELSE Absent

Goto(t, label) == pc' = [pc EXCEPT ![t] = label]

-----------------------------------------------------------------------------
(***************************************************************************)
(* Tokens and registration, for leases and worker alike.                   *)
(***************************************************************************)
\* lease_token: the resource's token, created when the map has none.
FetchToken(t) ==
    /\ pc[t] = "token"
    /\ \/ /\ slot # 0 /\ token' = [token EXCEPT ![t] = slot]
          /\ UNCHANGED <<slot, tokens>>
       \/ /\ slot = 0 /\ token' = [token EXCEPT ![t] = tokens + 1]
          /\ tokens' = tokens + 1 /\ slot' = tokens + 1
    /\ Goto(t, "lock")
    /\ UNCHANGED <<lock, active, locked, how, passVars, pending, osVars, calls, defers>>

\* Update and restore proceed, a drop restores before it unregisters.
LockToken(t) ==
    /\ pc[t] = "lock"
    /\ \A u \in Threads : ~(locked[u] /\ token[u] = token[t])
    /\ locked' = [locked EXCEPT ![t] = TRUE]
    /\ Goto(t, CASE how[t] = "pass"    -> "recheck"
                 [] how[t] = "update"  -> "update"
                 [] how[t] = "restore" -> "un.active"
                 [] how[t] = "drop"    -> "teardown")
    /\ UNCHANGED <<lock, active, slot, tokens, token, how, passVars, pending, osVars, calls, defers>>

UnlockToken(t) ==
    /\ pc[t] = "unlock"
    /\ token' = [token EXCEPT ![t] = 0]
    /\ locked' = [locked EXCEPT ![t] = FALSE]
    /\ Goto(t, CASE how[t] = "pass"   -> "idle"
                 [] how[t] = "update" -> "rescan"
                 [] how[t] = "drop"   -> "release"
                 [] OTHER             -> IF lock = t THEN "failed" ELSE "ended")
    /\ UNCHANGED <<lock, active, slot, tokens, how, passVars, pending, osVars, calls, defers>>

\* unregister_active: the lease, its token and its pending entry, one by one.
UnregisterLease(t) ==
    /\ pc[t] = "un.active" /\ active' = NoLease /\ Goto(t, "un.slot")
    /\ UNCHANGED <<lock, tokenVars, how, passVars, pending, osVars, calls, defers>>

UnregisterToken(t) ==
    /\ pc[t] = "un.slot" /\ slot' = 0 /\ Goto(t, "un.pending")
    /\ UNCHANGED <<lock, active, tokens, token, locked, how, passVars, pending, osVars, calls, defers>>

UnregisterPending(t) ==
    /\ pc[t] = "un.pending" /\ pending' = Absent
    /\ \/ how[t] = "restore" /\ Goto(t, "teardown")
       \/ how[t] = "drop" /\ Goto(t, "unlock")
       \/ how[t] = "pass" /\ (Goto(t, "remove") \/ Goto(t, "complete"))
    /\ UNCHANGED <<lock, active, tokenVars, how, passVars, osVars, calls, defers>>

-----------------------------------------------------------------------------
(***************************************************************************)
(* A lease.                                                                *)
(***************************************************************************)
\* apply has the resource lock and a verified state, and registers the lease.
Register(l) ==
    /\ pc[l] = "new" /\ lock = NoLease
    /\ Prompt => pc[Worker] = "idle"
    /\ lock' = l /\ active' = l /\ unseen' = FALSE
    /\ Goto(l, "ensure")
    /\ UNCHANGED <<tokenVars, how, passVars, pending, inflight, events, calls, defers>>

\* ensure_enforce_watch: from here on native changes are notified.
Ensure(l) ==
    /\ pc[l] = "ensure" /\ Goto(l, "rescan")
    /\ UNCHANGED <<lock, active, tokenVars, how, passVars, pending, osVars, calls, defers>>

\* rescan_enforce queues every active resource.
Rescan(l) ==
    /\ pc[l] = "rescan" /\ Goto(l, "held")
    /\ pending' = IF active = NoLease THEN pending ELSE Touch(pending)
    /\ UNCHANGED <<lock, active, tokenVars, how, passVars, osVars, calls, defers>>

Call(l, what) ==
    /\ calls < MaxCalls /\ calls' = calls + 1
    /\ how' = [how EXCEPT ![l] = what]
    /\ Goto(l, "token")
    /\ UNCHANGED <<lock, active, tokenVars, passVars, pending, osVars, defers>>

UpdateStart(l) == pc[l] = "held" /\ active = l /\ Call(l, "update")

\* A restore or abandon that failed may be tried again.
RestoreStart(l) == pc[l] \in {"held", "failed"} /\ Call(l, "restore")

DropStart(l) == pc[l] \in {"held", "failed"} /\ Call(l, "drop")

Update(l) ==
    /\ pc[l] = "update" /\ Goto(l, "unlock")
    /\ UNCHANGED <<lock, active, tokenVars, how, passVars, pending, osVars, calls, defers>>

\* restore_live_state, or the removal of the record. A restore that succeeds
\* gives the resource lock back under the token, one that fails keeps it; a
\* drop goes on to unregister either way.
Teardown(l) ==
    /\ pc[l] = "teardown"
    /\ \/ how[l] = "drop" /\ UNCHANGED lock /\ Goto(l, "un.active")
       \/ how[l] = "restore" /\ lock' \in {l, NoLease} /\ Goto(l, "unlock")
    /\ UNCHANGED <<active, tokenVars, how, passVars, pending, osVars, calls, defers>>

Release(l) ==
    /\ pc[l] = "release" /\ lock' = NoLease /\ Goto(l, "ended")
    /\ UNCHANGED <<active, tokenVars, how, passVars, pending, osVars, calls, defers>>

-----------------------------------------------------------------------------
(***************************************************************************)
(* The worker: one pass over a due resource (reconcile_resource).          *)
(***************************************************************************)
Pick ==
    /\ pc[Worker] = "idle" /\ pending.due /\ Goto(Worker, "check")
    /\ UNCHANGED <<lock, active, tokenVars, how, passVars, pending, osVars, calls, defers>>

Check ==
    /\ pc[Worker] = "check"
    /\ entry' = active
    /\ Goto(Worker, IF active = NoLease THEN "forget" ELSE "token")
    /\ UNCHANGED <<lock, active, tokenVars, how, generation, pending, osVars, calls, defers>>

\* No lease was active: the entry goes, without any token.
Forget ==
    /\ pc[Worker] = "forget" /\ pending' = Absent /\ Goto(Worker, "idle")
    /\ UNCHANGED <<lock, active, tokenVars, how, passVars, osVars, calls, defers>>

\* Mutant: the lease seen before the wait for the token is not looked up again.
RecheckNot ==
    /\ pc[Worker] = "recheck" /\ Goto(Worker, "generation")
    /\ UNCHANGED <<lock, active, tokenVars, how, passVars, pending, osVars, calls, defers>>

\* The lease may have ended while the pass waited for the token.
Recheck ==
    /\ pc[Worker] = "recheck"
    /\ entry' = active
    /\ Goto(Worker, IF active = NoLease THEN "remove" ELSE "generation")
    /\ UNCHANGED <<lock, active, tokenVars, how, generation, pending, osVars, calls, defers>>

ReadGeneration ==
    /\ pc[Worker] = "generation" /\ generation' = pending.gen /\ Goto(Worker, "status")
    /\ UNCHANGED <<lock, active, tokenVars, how, entry, pending, osVars, calls, defers>>

\* resource_status: a resource that is gone ends its registration.
Status ==
    /\ pc[Worker] = "status"
    /\ \/ Goto(Worker, "read") /\ UNCHANGED defers
       \/ Goto(Worker, "un.active") /\ UNCHANGED defers
       \/ defers < MaxDefers /\ defers' = defers + 1 /\ Goto(Worker, "defer")
    /\ UNCHANGED <<lock, active, tokenVars, how, passVars, pending, osVars, calls>>

\* reconcile_pass: the state is read, and is ours or made ours again; or the
\* pass finds it unstable or fails.
Pass ==
    /\ pc[Worker] = "read"
    /\ \/ unseen' = FALSE /\ Goto(Worker, "complete") /\ UNCHANGED defers
       \/ Goto(Worker, "un.active") /\ UNCHANGED <<unseen, defers>>
       \/ defers < MaxDefers /\ defers' = defers + 1 /\ Goto(Worker, "defer") /\ UNCHANGED unseen
    /\ UNCHANGED <<lock, active, tokenVars, how, passVars, pending, inflight, events, calls>>

Settle ==
    /\ \/ pc[Worker] = "complete" /\ pending' = Complete(pending, generation)
       \/ pc[Worker] = "defer" /\ pending' = Defer(pending)
       \/ pc[Worker] = "remove" /\ pending' = Absent
    /\ Goto(Worker, "unlock")
    /\ UNCHANGED <<lock, active, tokenVars, how, passVars, osVars, calls, defers>>

-----------------------------------------------------------------------------
(***************************************************************************)
(* Time and other programs.                                                *)
(***************************************************************************)
BecomesDue ==
    /\ pending.in /\ ~pending.due /\ pending' = [pending EXCEPT !.due = TRUE]
    /\ UNCHANGED <<lock, active, tokenVars, pc, how, passVars, osVars, calls, defers>>

Watching == \E l \in Leases : pc[l] \notin {"new", "ensure", "ended"}

ExternalChange ==
    /\ events < MaxEvents /\ events' = events + 1
    /\ unseen' = TRUE /\ inflight' = (inflight \/ Watching)
    /\ UNCHANGED <<lock, active, tokenVars, pc, how, passVars, pending, calls, defers>>

\* ReconcileFeed::notify.
Notify ==
    /\ inflight /\ inflight' = FALSE /\ pending' = Touch(pending)
    /\ UNCHANGED <<lock, active, tokenVars, pc, how, passVars, unseen, events, calls, defers>>

-----------------------------------------------------------------------------
TokenStep(t) ==
    \/ FetchToken(t) \/ LockToken(t) \/ UnlockToken(t)
    \/ UnregisterLease(t) \/ UnregisterToken(t) \/ UnregisterPending(t)

LeaseStep(l) == TokenStep(l) \/ Ensure(l) \/ Rescan(l) \/ Update(l) \/ Teardown(l) \/ Release(l)

WorkerStep ==
    \/ TokenStep(Worker)
    \/ Pick \/ Check \/ Forget \/ Recheck \/ ReadGeneration \/ Status \/ Pass \/ Settle

Next ==
    \/ \E l \in Leases :
          Register(l) \/ UpdateStart(l) \/ RestoreStart(l) \/ DropStart(l) \/ LeaseStep(l)
    \/ WorkerStep
    \/ BecomesDue \/ ExternalChange \/ Notify

Spec == Init /\ [][Next]_vars

\* Threads run, mutexes are eventually granted, time passes and the platform
\* delivers its notifications.
FairSpec ==
    /\ Spec
    /\ \A l \in Leases : WF_vars(LeaseStep(l))
    /\ WF_vars(WorkerStep) /\ WF_vars(BecomesDue) /\ WF_vars(Notify)

-----------------------------------------------------------------------------
(***************************************************************************)
(* with_live_record and Lease::update hold the token so that a reconcile   *)
(* pass cannot interleave with an update or the teardown of the lease it   *)
(* works on, and a pass works on a lease that still has its resource lock. *)
(***************************************************************************)
PassExclusive ==
    pc[Worker] \in {"status", "read"} =>
        lock = entry /\ pc[entry] \notin {"update", "teardown"}

(***************************************************************************)
(* Events are coalesced but never discarded: a change of an active lease's *)
(* resource is read by a pass in the end, unless the lease ends first.     *)
(***************************************************************************)
ChangesReconciled ==
    (active # NoLease /\ unseen) ~> (~unseen \/ active = NoLease)
=============================================================================
