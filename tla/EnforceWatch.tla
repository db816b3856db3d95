---------------------------- MODULE EnforceWatch ----------------------------
(***************************************************************************)
(* The internal observation of an Enforce manager (EnforceState in         *)
(* src/src/manager.rs): the count of leases that need it, the native watch *)
(* it keeps alive and the reconciler's worker thread, started by the first *)
(* lease and stopped by the last, while leases on different resources are  *)
(* applied and ended by different threads.                                 *)
(*                                                                         *)
(* Every method holds the state's mutex for its whole body, so each is one *)
(* step. A worker is named after the lease that spawned it.                *)
(***************************************************************************)
EXTENDS Naturals, FiniteSets

CONSTANTS
    Leases,
    NoFeed,
    Overlap,     \* other leases may start while one whose watch failed to
                 \* start has not yet been taken back
    MaxFaults    \* bound on failing watch starts and dying watches

ASSUME EnforceWatchAssumption ==
    /\ IsFiniteSet(Leases) /\ NoFeed \notin Leases
    /\ Overlap \in BOOLEAN /\ MaxFaults \in Nat

VARIABLES
    refs, feed,
    handle,     \* the native watch: none, up, or down (its thread ended)
    waiting,    \* a failed restart waits for its retry time
    pc,
    worker,     \* what the worker thread of each feed is doing
    missed,     \* the lease's resource changed and nobody was notified
    faults

vars == <<refs, feed, handle, waiting, pc, worker, missed, faults>>

(***************************************************************************)
(* Every variable has its type.                                            *)
(***************************************************************************)
TypeOK ==
    /\ refs \in Nat /\ faults \in Nat
    /\ feed \in Leases \cup {NoFeed}
    /\ handle \in {"none", "up", "down"}
    /\ waiting \in BOOLEAN
    /\ pc \in [Leases -> {"new", "registered", "failing", "rescan", "active", "release", "ended"}]
    /\ worker \in [Leases -> {"off", "loop", "refresh", "notify"}]
    /\ missed \in [Leases -> BOOLEAN]

Init ==
    /\ refs = 0 /\ feed = NoFeed /\ handle = "none" /\ waiting = FALSE
    /\ pc = [l \in Leases |-> "new"]
    /\ worker = [l \in Leases |-> "off"]
    /\ missed = [l \in Leases |-> FALSE]
    /\ faults = 0

-----------------------------------------------------------------------------
Goto(l, label) == pc' = [pc EXCEPT ![l] = label]

Fault == faults < MaxFaults /\ faults' = faults + 1

\* Queue every lease in the active map for reconciliation.
NotifyActive ==
    missed' = [l \in Leases |-> missed[l] /\ pc[l] \notin {"registered", "failing", "rescan", "active"}]

\* apply verified its mutation and registers the lease.
Register(l) ==
    /\ pc[l] = "new" /\ Goto(l, "registered")
    /\ UNCHANGED <<refs, feed, handle, waiting, worker, missed, faults>>

MayEnsure(l) ==
    pc[l] = "registered" /\ (Overlap \/ \A k \in Leases : pc[k] # "failing")

\* Mutant: only the lease that starts the watch is counted.
EnsureOkUncounted(l) ==
    /\ MayEnsure(l) /\ Goto(l, "rescan")
    /\ IF refs = 0
       THEN handle' = "up" /\ feed' = l /\ worker' = [worker EXCEPT ![l] = "loop"] /\ refs' = 1
       ELSE UNCHANGED <<handle, feed, worker, refs>>
    /\ UNCHANGED <<waiting, missed, faults>>

\* ensure_enforce_watch: the first lease spawns the worker and starts the watch.
EnsureOk(l) ==
    /\ MayEnsure(l) /\ Goto(l, "rescan")
    /\ IF refs = 0
       THEN handle' = "up" /\ feed' = l /\ worker' = [worker EXCEPT ![l] = "loop"]
       ELSE UNCHANGED <<handle, feed, worker>>
    /\ refs' = refs + 1
    /\ UNCHANGED <<waiting, missed, faults>>

\* Mutant: the reference is taken before the watch is started.
EnsureFailCounted(l) ==
    /\ MayEnsure(l) /\ refs = 0 /\ Fault /\ Goto(l, "failing")
    /\ refs' = refs + 1
    /\ worker' = [worker EXCEPT ![l] = "loop"]
    /\ UNCHANGED <<feed, handle, waiting, missed>>

\* The watch does not start: the new feed is dropped, its worker winds down.
EnsureFail(l) ==
    /\ MayEnsure(l) /\ refs = 0 /\ Fault /\ Goto(l, "failing")
    /\ worker' = [worker EXCEPT ![l] = "loop"]
    /\ UNCHANGED <<refs, feed, handle, waiting, missed>>

\* rescan_enforce: changes before the watch started must not be missed.
Rescan(l) ==
    /\ pc[l] = "rescan" /\ Goto(l, "active")
    /\ IF feed = NoFeed THEN UNCHANGED missed ELSE NotifyActive
    /\ UNCHANGED <<refs, feed, handle, waiting, worker, faults>>

\* restore, abandon or drop unregisters the lease, then releases the watch.
End(l) ==
    /\ pc[l] = "active" /\ Goto(l, "release")
    /\ UNCHANGED <<refs, feed, handle, waiting, worker, missed, faults>>

\* Mutant: a count of zero is decremented too.
ReleaseUnchecked(l) ==
    /\ pc[l] \in {"release", "failing"} /\ Goto(l, "ended")
    /\ refs' = refs - 1
    /\ IF refs' = 0 THEN handle' = "none" /\ feed' = NoFeed /\ waiting' = FALSE
                    ELSE UNCHANGED <<handle, feed, waiting>>
    /\ UNCHANGED <<worker, missed, faults>>

\* release_enforce_watch; also run by the restore of a lease whose ensure failed.
Release(l) ==
    /\ pc[l] \in {"release", "failing"} /\ Goto(l, "ended")
    /\ refs' = IF refs = 0 THEN 0 ELSE refs - 1
    /\ IF refs = 1 THEN handle' = "none" /\ feed' = NoFeed /\ waiting' = FALSE
                   ELSE UNCHANGED <<handle, feed, waiting>>
    /\ UNCHANGED <<worker, missed, faults>>

-----------------------------------------------------------------------------
(***************************************************************************)
(* The worker: every turn of its loop looks after the watch.               *)
(***************************************************************************)
WStep(w, label) == worker' = [worker EXCEPT ![w] = label]

\* The channel of a dropped feed is disconnected and the thread ends.
WLoop(w) ==
    /\ worker[w] = "loop" /\ WStep(w, IF feed = w THEN "refresh" ELSE "off")
    /\ UNCHANGED <<refs, feed, handle, waiting, pc, missed, faults>>

\* Mutant: a watch that was restarted is taken to have missed nothing.
WRefreshSilent(w) ==
    /\ worker[w] = "refresh" /\ WStep(w, "loop")
    /\ IF refs = 0 \/ handle = "up" \/ waiting THEN UNCHANGED <<handle, waiting, faults>>
       ELSE \/ handle' = "up" /\ UNCHANGED <<waiting, faults>>
            \/ Fault /\ handle' = "none" /\ waiting' = TRUE
    /\ UNCHANGED <<refs, feed, pc, missed>>

\* refresh_enforce_watch restarts a watch that went down.
WRefresh(w) ==
    /\ worker[w] = "refresh"
    /\ \/ /\ refs = 0 \/ handle = "up" \/ waiting
          /\ WStep(w, "loop") /\ UNCHANGED <<handle, waiting, faults>>
       \/ /\ refs # 0 /\ handle # "up" /\ ~waiting
          /\ \/ handle' = "up" /\ UNCHANGED <<waiting, faults>>
             \/ Fault /\ handle' = "none" /\ waiting' = TRUE
          /\ WStep(w, "notify")
    /\ UNCHANGED <<refs, feed, pc, missed>>

WNotify(w) ==
    /\ worker[w] = "notify" /\ WStep(w, "loop") /\ NotifyActive
    /\ UNCHANGED <<refs, feed, handle, waiting, pc, faults>>

-----------------------------------------------------------------------------
\* The retry time of a failed restart has come.
Elapse ==
    /\ waiting /\ waiting' = FALSE
    /\ UNCHANGED <<refs, feed, handle, pc, worker, missed, faults>>

\* The native watch thread ends.
WatchDies ==
    /\ handle = "up" /\ Fault /\ handle' = "down"
    /\ UNCHANGED <<refs, feed, waiting, pc, worker, missed>>

\* A change while no watch is up reaches nobody.
ExternalChange(l) ==
    /\ handle # "up" /\ missed' = [missed EXCEPT ![l] = TRUE]
    /\ UNCHANGED <<refs, feed, handle, waiting, pc, worker, faults>>

-----------------------------------------------------------------------------
LeaseStep(l) == EnsureOk(l) \/ EnsureFail(l) \/ Rescan(l) \/ Release(l)

WorkerStep(w) == WLoop(w) \/ WRefresh(w) \/ WNotify(w)

Next ==
    \/ \E l \in Leases :
          Register(l) \/ LeaseStep(l) \/ End(l) \/ WorkerStep(l) \/ ExternalChange(l)
    \/ Elapse \/ WatchDies

Spec == Init /\ [][Next]_vars

\* Calls in progress and worker threads run, and retry times come.
FairSpec ==
    /\ Spec /\ WF_vars(Elapse)
    /\ \A l \in Leases : WF_vars(LeaseStep(l)) /\ WF_vars(WorkerStep(l))

-----------------------------------------------------------------------------
(***************************************************************************)
(* The first active Enforce lease starts internal observation and only the *)
(* last lease ending stops it: while a lease is active there is a feed and *)
(* a worker to keep the watch alive.                                       *)
(***************************************************************************)
LeaseObserved ==
    (\E l \in Leases : pc[l] \in {"rescan", "active"}) =>
        refs > 0 /\ feed # NoFeed /\ worker[feed] # "off"

(***************************************************************************)
(* The last lease ending stops observation, whatever the order in which    *)
(* applies fail and leases end: no watch and no feed outlives them.        *)
(***************************************************************************)
LastLeaseStops ==
    (\A l \in Leases : pc[l] \in {"new", "registered", "failing", "ended"}) =>
        refs = 0 /\ handle = "none" /\ feed = NoFeed

(***************************************************************************)
(* Enforce resubscribes with backoff and rescans active resources: a       *)
(* change that no watch saw, before it was started or while it was down,   *)
(* is noticed in the end unless its lease ends first.                      *)
(***************************************************************************)
ChangeNoticed ==
    \A l \in Leases : (pc[l] = "active" /\ missed[l]) ~> (~missed[l] \/ pc[l] # "active")
=============================================================================
