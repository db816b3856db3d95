------------------------------- MODULE Locks --------------------------------
(***************************************************************************)
(* The inter-process resource locks of src/src/ownership.rs. A resource is *)
(* locked by an exclusive lock on its lock file, taken with a polled       *)
(* try_lock. Every process also keeps a registry of the resources it has   *)
(* locked, consulted before the file so that a second lease in the process *)
(* fails at once instead of waiting for itself.                            *)
(*                                                                         *)
(* A thread takes the locks of one lease (acquire_all, or try_acquire for  *)
(* recovery), holds them, and gives them back one by one. Registry and     *)
(* file are two shared objects: every access is a step of its own.         *)
(***************************************************************************)
EXTENDS Naturals, FiniteSetsExt

CONSTANTS
    Threads,
    Processes,
    Resources,      \* resource ids, in their sort order
    ProcessOf,      \* the process a thread runs in
    Free            \* no thread

ASSUME LocksAssumption ==
    /\ Resources \subseteq Nat /\ IsFiniteSet(Resources)
    /\ ProcessOf \in [Threads -> Processes]
    /\ Free \notin Threads

VARIABLES
    file,       \* the thread whose open file has the lock, per resource
    registry,   \* locked resources, per process
    pc,
    mode,       \* "wait" (acquire_all) or "try" (try_acquire)
    todo,       \* resources still to lock
    held,       \* ResourceLock values the thread owns
    target      \* the lock being taken or dropped

vars == <<file, registry, pc, mode, todo, held, target>>

Labels == {"idle", "check", "lock", "insert", "held", "fail", "unlock"}

(***************************************************************************)
(* Every variable has its type.                                            *)
(***************************************************************************)
TypeOK ==
    /\ file \in [Resources -> Threads \cup {Free}]
    /\ registry \in [Processes -> SUBSET Resources]
    /\ pc \in [Threads -> Labels]
    /\ mode \in [Threads -> {"wait", "try"}]
    /\ todo \in [Threads -> SUBSET Resources]
    /\ held \in [Threads -> SUBSET Resources]
    /\ target \in [Threads -> Resources \cup {Free}]

Init ==
    /\ file = [r \in Resources |-> Free]
    /\ registry = [p \in Processes |-> {}]
    /\ pc = [t \in Threads |-> "idle"]
    /\ mode = [t \in Threads |-> "wait"]
    /\ todo = [t \in Threads |-> {}]
    /\ held = [t \in Threads |-> {}]
    /\ target = [t \in Threads |-> Free]

-----------------------------------------------------------------------------
Goto(t, label) == pc' = [pc EXCEPT ![t] = label]

\* Mutant: acquire_all does not start with the first lock in sort order.
AcquireUnsorted(t, S, m) ==
    /\ pc[t] = "idle" /\ S # {}
    /\ m = "try" => Cardinality(S) = 1
    /\ todo' = [todo EXCEPT ![t] = S]
    /\ mode' = [mode EXCEPT ![t] = m]
    /\ \E r \in S : target' = [target EXCEPT ![t] = r]
    /\ Goto(t, "check")
    /\ UNCHANGED <<file, registry, held>>

\* acquire_all sorts and dedups its argument; try_acquire takes one resource.
Acquire(t, S, m) ==
    /\ pc[t] = "idle" /\ S # {}
    /\ m = "try" => Cardinality(S) = 1
    /\ todo' = [todo EXCEPT ![t] = S]
    /\ mode' = [mode EXCEPT ![t] = m]
    /\ target' = [target EXCEPT ![t] = Min(S)]
    /\ Goto(t, "check")
    /\ UNCHANGED <<file, registry, held>>

\* A resource locked in this process is a conflict, not something to wait for.
CheckRegistry(t) ==
    /\ pc[t] = "check"
    /\ Goto(t, IF target[t] \in registry[ProcessOf[t]] THEN "fail" ELSE "lock")
    /\ UNCHANGED <<file, registry, mode, todo, held, target>>

\* Mutant: the file lock is shared.
TryLockShared(t) ==
    /\ pc[t] = "lock"
    /\ file' = [file EXCEPT ![target[t]] = t]
    /\ Goto(t, "insert")
    /\ UNCHANGED <<registry, mode, todo, held, target>>

TryLock(t) ==
    /\ pc[t] = "lock"
    /\ \/ /\ file[target[t]] = Free
          /\ file' = [file EXCEPT ![target[t]] = t]
          /\ Goto(t, "insert")
       \/ /\ file[target[t]] # Free /\ UNCHANGED file
          /\ Goto(t, IF mode[t] = "wait" THEN "check" ELSE "fail")
    /\ UNCHANGED <<registry, mode, todo, held, target>>

\* The deadline passed while another process held the file.
Timeout(t) ==
    /\ pc[t] = "lock" /\ mode[t] = "wait" /\ file[target[t]] # Free
    /\ Goto(t, "fail")
    /\ UNCHANGED <<file, registry, mode, todo, held, target>>

\* Mutant: the registry records the holder, not the resource.
InsertHolder(t) ==
    LET rest == todo[t] \ {target[t]}
    IN  /\ pc[t] = "insert"
        /\ registry' = [registry EXCEPT ![ProcessOf[t]] = @ \cup {t}]
        /\ held' = [held EXCEPT ![t] = @ \cup {target[t]}]
        /\ todo' = [todo EXCEPT ![t] = rest]
        /\ target' = [target EXCEPT ![t] = IF rest = {} THEN Free ELSE Min(rest)]
        /\ Goto(t, IF rest = {} THEN "held" ELSE "check")
        /\ UNCHANGED <<file, mode>>

Insert(t) ==
    LET rest == todo[t] \ {target[t]}
    IN  /\ pc[t] = "insert"
        /\ registry' = [registry EXCEPT ![ProcessOf[t]] = @ \cup {target[t]}]
        /\ held' = [held EXCEPT ![t] = @ \cup {target[t]}]
        /\ todo' = [todo EXCEPT ![t] = rest]
        /\ target' = [target EXCEPT ![t] = IF rest = {} THEN Free ELSE Min(rest)]
        /\ Goto(t, IF rest = {} THEN "held" ELSE "check")
        /\ UNCHANGED <<file, mode>>

\* Mutant: the file closes while its registry entry is still there.
UnregisterLate(t, r) ==
    /\ pc[t] \in {"held", "fail"} /\ r \in held[t]
    /\ file' = [file EXCEPT ![r] = Free]
    /\ target' = [target EXCEPT ![t] = r]
    /\ Goto(t, "unlock")
    /\ UNCHANGED <<registry, mode, todo, held>>

\* ResourceLock::drop removes the registry entry before the file closes. A lease
\* drops the lock of each resource it is done with; a failed acquire_all drops
\* all it has.
Unregister(t, r) ==
    /\ pc[t] \in {"held", "fail"} /\ r \in held[t]
    /\ registry' = [registry EXCEPT ![ProcessOf[t]] = @ \ {r}]
    /\ target' = [target EXCEPT ![t] = r]
    /\ todo' = [todo EXCEPT ![t] = IF pc[t] = "fail" THEN @ ELSE {}]
    /\ Goto(t, "unlock")
    /\ UNCHANGED <<file, mode, held>>

Unlock(t) ==
    /\ pc[t] = "unlock"
    /\ file' = [file EXCEPT ![target[t]] = Free]
    /\ held' = [held EXCEPT ![t] = @ \ {target[t]}]
    /\ target' = [target EXCEPT ![t] = Free]
    /\ Goto(t, IF todo[t] # {} THEN "fail" ELSE "held")
    /\ UNCHANGED <<registry, mode, todo>>

\* All locks are gone: the lease ended, or acquire_all returns its error.
Return(t) ==
    /\ pc[t] \in {"held", "fail"} /\ held[t] = {}
    /\ todo' = [todo EXCEPT ![t] = {}]
    /\ target' = [target EXCEPT ![t] = Free]
    /\ Goto(t, "idle")
    /\ UNCHANGED <<file, registry, mode, held>>

\* The system closes the files of a dead process; its registry dies with it.
Crash(p) ==
    LET dead == {t \in Threads : ProcessOf[t] = p}
    IN  /\ file' = [r \in Resources |-> IF file[r] \in dead THEN Free ELSE file[r]]
        /\ registry' = [registry EXCEPT ![p] = {}]
        /\ pc' = [t \in Threads |-> IF t \in dead THEN "idle" ELSE pc[t]]
        /\ todo' = [t \in Threads |-> IF t \in dead THEN {} ELSE todo[t]]
        /\ held' = [t \in Threads |-> IF t \in dead THEN {} ELSE held[t]]
        /\ target' = [t \in Threads |-> IF t \in dead THEN Free ELSE target[t]]
        /\ UNCHANGED mode

Next ==
    \/ \E t \in Threads :
          \/ \E S \in SUBSET Resources, m \in {"wait", "try"} : Acquire(t, S, m)
          \/ CheckRegistry(t) \/ TryLock(t) \/ Timeout(t) \/ Insert(t)
          \/ \E r \in Resources : Unregister(t, r)
          \/ Unlock(t) \/ Return(t)
    \/ \E p \in Processes : Crash(p)

Spec == Init /\ [][Next]_vars

-----------------------------------------------------------------------------
(***************************************************************************)
(* A ResourceLock is exclusive: the thread that holds one has the file, so *)
(* no two leases, in one process or in two, hold the same resource.        *)
(***************************************************************************)
Exclusive ==
    \A t \in Threads : \A r \in held[t] :
        file[r] = t /\ \A u \in Threads \ {t} : r \notin held[u]

(***************************************************************************)
(* A held lock stays in its process's registry until it is dropped, and an *)
(* entry belongs to a thread of the process that has the file: a drop that *)
(* overlaps the next acquire never takes that one's entry away. Otherwise  *)
(* a second lease of the process would wait out its timeout for the first. *)
(***************************************************************************)
RegistryAccurate ==
    /\ \A t \in Threads : \A r \in held[t] :
          (pc[t] = "unlock" /\ target[t] = r) \/ r \in registry[ProcessOf[t]]
    /\ \A p \in Processes : \A r \in registry[p] :
          \E t \in Threads : ProcessOf[t] = p /\ file[r] = t /\ r \in held[t]

Waiting(t) == pc[t] \in {"check", "lock"}

\* t waits for a file that u has while u itself is still acquiring.
WaitsFor(t, u) ==
    Waiting(t) /\ Waiting(u) /\ t # u /\ file[target[t]] = u

(***************************************************************************)
(* Acquiring in sorted order, no set of threads waits for each other: each *)
(* nonempty set of threads has one that waits for none of them.            *)
(***************************************************************************)
NoCircularWait ==
    \A S \in (SUBSET Threads) \ {{}} : \E t \in S : \A u \in S : ~WaitsFor(t, u)
=============================================================================
