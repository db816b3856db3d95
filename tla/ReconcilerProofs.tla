-------------------------- MODULE ReconcilerProofs --------------------------
(* Proofs about Reconciler, for any leases and bounds. *)
EXTENDS Reconciler, TLAPS

Unregistering == {"un.active", "un.slot", "un.pending"}

\* Where a thread has locked the token, and where it has fetched one.
Locked  == Unregistering \cup {"recheck", "generation", "status", "read", "complete",
                               "defer", "remove", "update", "teardown", "unlock"}
Fetched == Locked \cup {"lock"}

(***************************************************************************)
(* The inductive invariant.                                                *)
(***************************************************************************)
\* Worker and leases keep to their own labels.
WorkerLabels ==
    /\ how[Worker] = "pass"
    /\ pc[Worker] \in {"idle", "check", "forget", "token", "lock", "recheck", "generation", "status",
                       "read", "complete", "defer", "remove", "unlock"} \cup Unregistering

LeaseLabels ==
    \A l \in Leases :
        /\ pc[l] \in {"new", "ensure", "rescan", "held", "failed", "ended", "release", "token", "lock",
                      "update", "teardown", "unlock"} \cup Unregistering
        /\ pc[l] \in {"token", "lock", "unlock"} => how[l] # "pass"
        /\ pc[l] = "update" => how[l] = "update"
        /\ pc[l] \in Unregistering \cup {"teardown"} => how[l] \in {"restore", "drop"}

\* A token is held from its fetch to its unlock, and by one thread.
TokenHeld ==
    \A t \in Threads :
        /\ pc[t] \in Fetched => token[t] # 0
        /\ pc[t] \in Locked => locked[t]

TokenExclusive ==
    \A t, u \in Threads :
        pc[t] \in Locked /\ pc[u] \in Locked /\ token[t] = token[u] => t = u

\* A lease without the resource lock is over, or about to give its token back.
LockOwner ==
    \A l \in Leases :
        lock # l => pc[l] \in {"new", "ended"} \/ (pc[l] = "unlock" /\ how[l] = "restore")

ActiveLocked == active # NoLease => lock = active

\* A lease that unregistered itself has left the active map for good.
Unregistered ==
    \A l \in Leases :
        /\ \/ pc[l] \in {"un.slot", "un.pending", "release"}
           \/ pc[l] \in {"teardown", "unlock"} /\ how[l] = "restore"
           \/ pc[l] = "unlock" /\ how[l] = "drop"
        /\ lock = l
        => active = NoLease

\* While a lease is active the map's token is the one that matters.
SameToken ==
    active # NoLease =>
        \A t \in Threads : t \in {Worker, lock} /\ pc[t] \in Fetched => token[t] = slot

\* A pass past its second look works on the active lease.
PassActive ==
    /\ pc[Worker] \in {"generation", "status", "read"} => entry = active /\ active # NoLease
    /\ pc[Worker] = "un.slot" => active = NoLease

Inv ==
    /\ TypeOK
    /\ WorkerLabels
    /\ LeaseLabels
    /\ TokenHeld
    /\ TokenExclusive
    /\ LockOwner
    /\ ActiveLocked
    /\ Unregistered
    /\ SameToken
    /\ PassActive

-----------------------------------------------------------------------------
LEMMA InitInv == Init => Inv
<1> SUFFICES ASSUME Init PROVE Inv
  OBVIOUS
<1> USE ReconcilerAssumption DEF Init
<1>1. TypeOK
  BY DEF TypeOK, Threads, Labels, Entries, Absent
<1>2. WorkerLabels /\ LeaseLabels
  BY DEF WorkerLabels, LeaseLabels, Threads, Unregistering
<1>3. \A t \in Threads : pc[t] \notin Fetched
  BY DEF Threads, Fetched, Locked, Unregistering
<1>4. TokenHeld /\ TokenExclusive /\ SameToken
  BY <1>3 DEF TokenHeld, TokenExclusive, SameToken, Fetched
<1>5. LockOwner /\ ActiveLocked /\ Unregistered /\ PassActive
  BY DEF LockOwner, ActiveLocked, Unregistered, PassActive, Threads
<1> QED BY <1>1, <1>2, <1>4, <1>5 DEF Inv

\* Every operation on the pending entry gives an entry.
LEMMA PendingType ==
    ASSUME NEW p \in Entries, NEW g \in Nat
    PROVE  Touch(p) \in Entries /\ Defer(p) \in Entries /\ Complete(p, g) \in Entries /\ Absent \in Entries
<1>1. Absent \in Entries
  BY DEF Entries, Absent
<1>2. Touch(p) \in Entries
  BY DEF Entries, Touch
<1>3. Defer(p) \in Entries
  BY DEF Entries, Defer
<1>4. Complete(p, g) \in Entries
  <2>1. [p EXCEPT !.due = TRUE] \in Entries
    BY DEF Entries
  <2> QED BY <1>1, <2>1, Zenon DEF Complete
<1> QED BY <1>1, <1>2, <1>3, <1>4

\* Leases and worker are different threads.
LEMMA ThreadsOf == Worker \in Threads /\ Worker \notin Leases /\ NoLease \notin Leases /\ Leases \subseteq Threads
BY ReconcilerAssumption DEF Threads

LEMMA TokenStepType ==
    ASSUME TypeOK, NEW t \in Threads, TokenStep(t)
    PROVE  TypeOK'
<1> USE DEF TypeOK, tokenVars, passVars, osVars, Goto
<1>1. CASE FetchToken(t)
  BY <1>1 DEF FetchToken, Labels
<1>2. CASE LockToken(t)
  <2>1. pc' \in [Threads -> Labels]
    BY <1>2 DEF LockToken, Labels
  <2> QED BY <1>2, <2>1 DEF LockToken
<1>3. CASE UnlockToken(t)
  <2>1. pc' \in [Threads -> Labels]
    BY <1>3 DEF UnlockToken, Labels
  <2> QED BY <1>3, <2>1 DEF UnlockToken
<1>4. CASE UnregisterLease(t)
  BY <1>4 DEF UnregisterLease, Labels
<1>5. CASE UnregisterToken(t)
  BY <1>5 DEF UnregisterToken, Labels
<1>6. CASE UnregisterPending(t)
  BY <1>6, PendingType DEF UnregisterPending, Labels
<1> QED BY <1>1, <1>2, <1>3, <1>4, <1>5, <1>6 DEF TokenStep

LEMMA LeaseType ==
    ASSUME TypeOK, NEW l \in Leases,
           Register(l) \/ UpdateStart(l) \/ RestoreStart(l) \/ DropStart(l) \/ LeaseStep(l)
    PROVE  TypeOK'
<1> USE ThreadsOf DEF TypeOK, tokenVars, passVars, osVars, Goto
<1>1. CASE Register(l)
  BY <1>1 DEF Register, Labels
<1>2. CASE UpdateStart(l) \/ RestoreStart(l) \/ DropStart(l)
  BY <1>2 DEF UpdateStart, RestoreStart, DropStart, Call, Labels
<1>3. CASE TokenStep(l)
  BY <1>3, TokenStepType
<1>4. CASE Ensure(l)
  BY <1>4 DEF Ensure, Labels
<1>5. CASE Rescan(l)
  BY <1>5, PendingType DEF Rescan, Labels
<1>6. CASE Update(l)
  BY <1>6 DEF Update, Labels
<1>7. CASE Teardown(l)
  BY <1>7 DEF Teardown, Labels
<1>8. CASE Release(l)
  BY <1>8 DEF Release, Labels
<1> QED BY <1>1, <1>2, <1>3, <1>4, <1>5, <1>6, <1>7, <1>8 DEF LeaseStep

LEMMA WorkerType ==
    ASSUME TypeOK, WorkerStep
    PROVE  TypeOK'
<1> USE ThreadsOf DEF TypeOK, tokenVars, passVars, osVars, Goto
<1>1. CASE TokenStep(Worker)
  BY <1>1, TokenStepType
<1>2. CASE Pick
  BY <1>2 DEF Pick, Labels
<1>3. CASE Check
  BY <1>3 DEF Check, Labels
<1>4. CASE Forget
  BY <1>4, PendingType DEF Forget, Labels
<1>5. CASE Recheck
  BY <1>5 DEF Recheck, Labels
<1>6. CASE ReadGeneration
  BY <1>6 DEF ReadGeneration, Labels, Entries
<1>7. CASE Status
  BY <1>7 DEF Status, Labels
<1>8. CASE Pass
  <2>1. unseen' \in BOOLEAN
    BY <1>8, Zenon DEF Pass
  <2>2. pc' \in [Threads -> Labels] /\ defers' \in Nat
    BY <1>8 DEF Pass, Labels
  <2> QED BY <1>8, <2>1, <2>2 DEF Pass
<1>9. CASE Settle
  BY <1>9, PendingType DEF Settle, Labels
<1> QED BY <1>1, <1>2, <1>3, <1>4, <1>5, <1>6, <1>7, <1>8, <1>9 DEF WorkerStep

LEMMA TypeStep == TypeOK /\ [Next]_vars => TypeOK'
<1> SUFFICES ASSUME TypeOK, [Next]_vars PROVE TypeOK'
  OBVIOUS
<1>1. CASE BecomesDue
  BY <1>1 DEF BecomesDue, TypeOK, tokenVars, passVars, osVars, Entries
<1>2. CASE ExternalChange
  <2>1. inflight' \in BOOLEAN
    BY <1>2, Zenon DEF ExternalChange
  <2> QED BY <1>2, <2>1 DEF ExternalChange, TypeOK, tokenVars, passVars
<1>3. CASE Notify
  BY <1>3, PendingType DEF Notify, TypeOK, tokenVars, passVars
<1>4. CASE UNCHANGED vars
  BY <1>4 DEF vars, TypeOK, tokenVars, passVars, osVars
<1> QED BY <1>1, <1>2, <1>3, <1>4, LeaseType, WorkerType DEF Next

-----------------------------------------------------------------------------
\* A worker's step that neither takes nor drops a token.
LEMMA WorkerMove ==
    ASSUME Inv, TypeOK', NEW label \in Labels, Goto(Worker, label),
           UNCHANGED <<lock, active, slot, token, locked, how>>,
           WorkerLabels', PassActive',
           label \in Fetched => pc[Worker] \in Fetched,
           label \in Locked => pc[Worker] \in Locked
    PROVE  Inv'
<1> USE ThreadsOf DEF Inv, TypeOK, Goto
<1>1. \A l \in Leases : pc'[l] = pc[l] /\ how'[l] = how[l]
  OBVIOUS
<1>2. \A t \in Threads : (pc'[t] \in Fetched => pc[t] \in Fetched) /\ (pc'[t] \in Locked => pc[t] \in Locked)
  OBVIOUS
<1>3. LeaseLabels' /\ LockOwner' /\ ActiveLocked' /\ Unregistered'
  BY <1>1 DEF LeaseLabels, LockOwner, ActiveLocked, Unregistered
<1>4. TokenHeld' /\ TokenExclusive' /\ SameToken'
  BY <1>2 DEF TokenHeld, TokenExclusive, SameToken
<1> QED BY <1>3, <1>4

\* The same for a lease that keeps the resource lock.
LEMMA LeaseMove ==
    ASSUME Inv, TypeOK', NEW l \in Leases, NEW label \in Labels, Goto(l, label),
           UNCHANGED <<lock, active, slot, token, locked, entry>>,
           how'[Worker] = how[Worker], \A k \in Leases \ {l} : how'[k] = how[k],
           LeaseLabels',
           lock = l,
           ~(\/ label \in {"un.slot", "un.pending", "release"}
             \/ label \in {"teardown", "unlock"} /\ how'[l] = "restore"
             \/ label = "unlock" /\ how'[l] = "drop") \/ active = NoLease,
           label \in Fetched => pc[l] \in Fetched,
           label \in Locked => pc[l] \in Locked
    PROVE  Inv'
<1> USE ThreadsOf DEF Inv, TypeOK, Goto
<1>1. pc'[Worker] = pc[Worker] /\ pc'[l] = label /\ \A k \in Leases \ {l} : pc'[k] = pc[k]
  OBVIOUS
<1>2. \A t \in Threads : (pc'[t] \in Fetched => pc[t] \in Fetched) /\ (pc'[t] \in Locked => pc[t] \in Locked)
  OBVIOUS
<1>3. WorkerLabels' /\ PassActive' /\ ActiveLocked'
  BY <1>1 DEF WorkerLabels, PassActive, ActiveLocked
<1>4. LockOwner' /\ Unregistered'
  BY <1>1 DEF LockOwner, Unregistered
<1>5. TokenHeld' /\ TokenExclusive' /\ SameToken'
  BY <1>2 DEF TokenHeld, TokenExclusive, SameToken
<1> QED BY <1>3, <1>4, <1>5

\* A lease between its first step and its last has the resource lock.
LEMMA LeaseHasLock ==
    ASSUME Inv, NEW l \in Leases, pc[l] \notin {"new", "ended", "unlock"}
    PROVE  lock = l
BY DEF Inv, LockOwner

\* A pass that works on the active lease keeps every other holder of a token out.
LEMMA PassAlone ==
    ASSUME Inv, pc[Worker] \in {"generation", "status", "read"},
           NEW l \in Leases, lock = l, pc[l] \in Locked
    PROVE  FALSE
<1>1. pc[Worker] \in Locked /\ pc[Worker] \in Fetched /\ pc[l] \in Fetched
  BY DEF Locked, Fetched
<1>2. token[Worker] = slot /\ token[l] = slot
  BY <1>1, ThreadsOf DEF Inv, PassActive, SameToken
<1> QED BY <1>1, <1>2, ThreadsOf DEF Inv, TokenExclusive

-----------------------------------------------------------------------------
LEMMA FetchInv ==
    ASSUME Inv, TypeOK', NEW t \in Threads, FetchToken(t)
    PROVE  Inv'
<1> USE ThreadsOf DEF Inv, TypeOK, Goto, FetchToken, passVars, osVars
<1>1. pc'[t] = "lock" /\ \A u \in Threads \ {t} : pc'[u] = pc[u] /\ token'[u] = token[u]
  OBVIOUS
<1>2. token'[t] = slot' /\ slot' # 0 /\ (slot # 0 => slot' = slot)
  OBVIOUS
<1>3. "lock" \in Fetched /\ "lock" \notin Locked
  BY DEF Fetched, Locked, Unregistering
<1>4. WorkerLabels' /\ LeaseLabels'
  BY <1>1 DEF WorkerLabels, LeaseLabels, Unregistering, Threads
<1>5. TokenHeld' /\ TokenExclusive'
  BY <1>1, <1>2, <1>3 DEF TokenHeld, TokenExclusive
<1>6. LockOwner' /\ ActiveLocked' /\ Unregistered' /\ PassActive'
  BY <1>1 DEF LockOwner, ActiveLocked, Unregistered, PassActive
<1>7. SameToken'
  <2> SUFFICES ASSUME active # NoLease, NEW u \in Threads, u \in {Worker, lock}, pc'[u] \in Fetched
               PROVE  token'[u] = slot'
    BY DEF SameToken
  <2>1. CASE u = t
    BY <2>1, <1>2
  <2>2. CASE u # t
    <3>1. pc[u] \in Fetched /\ token[u] = slot /\ token[u] # 0
      BY <2>2, <1>1 DEF SameToken, TokenHeld
    <3> QED BY <3>1, <2>2, <1>1, <1>2
  <2> QED BY <2>1, <2>2
<1> QED BY <1>4, <1>5, <1>6, <1>7

LEMMA LockInv ==
    ASSUME Inv, TypeOK', NEW t \in Threads, LockToken(t)
    PROVE  Inv'
<1> USE ThreadsOf DEF Inv, TypeOK, Goto, LockToken, passVars, osVars
<1>1. \A u \in Threads \ {t} : pc'[u] = pc[u]
  OBVIOUS
<1>2. pc[t] \in Fetched /\ pc'[t] \in Fetched
  BY DEF Fetched, Locked, Unregistering
<1>3. \A u \in Threads : pc'[u] \in Fetched => pc[u] \in Fetched
  BY <1>1, <1>2
<1>4. WorkerLabels' /\ LeaseLabels'
  BY <1>1 DEF WorkerLabels, LeaseLabels, Unregistering, Threads
<1>5. TokenHeld'
  <2>1. \A u \in Threads : pc'[u] \in Fetched => token'[u] # 0
    BY <1>3 DEF TokenHeld
  <2>2. \A u \in Threads : pc'[u] \in Locked => locked'[u]
    BY <1>1, Zenon DEF TokenHeld
  <2> QED BY <2>1, <2>2 DEF TokenHeld
<1>6. TokenExclusive'
  <2>1. \A u \in Threads \ {t} : pc[u] \in Locked => token[u] # token[t]
    BY DEF TokenHeld
  <2> QED BY <1>1, <2>1 DEF TokenExclusive
<1>7. LockOwner' /\ ActiveLocked'
  BY <1>1 DEF LockOwner, ActiveLocked
<1>8. Unregistered'
  BY <1>1 DEF Unregistered, LeaseLabels, Threads
<1>9. SameToken'
  BY <1>3 DEF SameToken
<1>10. PassActive'
  BY <1>1 DEF PassActive, WorkerLabels
<1> QED BY <1>4, <1>5, <1>6, <1>7, <1>8, <1>9, <1>10

LEMMA UnlockInv ==
    ASSUME Inv, TypeOK', NEW t \in Threads, UnlockToken(t)
    PROVE  Inv'
<1> USE ThreadsOf DEF Inv, TypeOK, Goto, UnlockToken, passVars, osVars
<1>1. \A u \in Threads \ {t} : pc'[u] = pc[u] /\ token'[u] = token[u] /\ locked'[u] = locked[u]
  OBVIOUS
<1>2. pc'[t] \notin Fetched /\ pc'[t] \notin Locked
  BY DEF Fetched, Locked, Unregistering
<1>3. WorkerLabels' /\ LeaseLabels'
  BY <1>1 DEF WorkerLabels, LeaseLabels, Unregistering, Threads
<1>4. TokenHeld' /\ TokenExclusive' /\ SameToken'
  BY <1>1, <1>2 DEF TokenHeld, TokenExclusive, SameToken
<1>5. LockOwner' /\ ActiveLocked'
  BY <1>1 DEF LockOwner, ActiveLocked, LeaseLabels
<1>6. Unregistered'
  BY <1>1 DEF Unregistered, LeaseLabels
<1>7. PassActive'
  BY <1>1 DEF PassActive, WorkerLabels
<1> QED BY <1>3, <1>4, <1>5, <1>6, <1>7

LEMMA UnregisterLeaseInv ==
    ASSUME Inv, TypeOK', NEW t \in Threads, UnregisterLease(t)
    PROVE  Inv'
<1> USE ThreadsOf DEF Inv, TypeOK, Goto, UnregisterLease, tokenVars, passVars, osVars
<1>1. pc'[t] = "un.slot" /\ \A u \in Threads \ {t} : pc'[u] = pc[u]
  OBVIOUS
<1>2. pc[t] \in Locked /\ pc'[t] \in Locked /\ pc[t] \in Fetched
  BY DEF Fetched, Locked, Unregistering
<1>3. WorkerLabels' /\ LeaseLabels'
  BY <1>1 DEF WorkerLabels, LeaseLabels, Unregistering, Threads
<1>4. TokenHeld' /\ TokenExclusive' /\ SameToken'
  BY <1>1, <1>2 DEF TokenHeld, TokenExclusive, SameToken
<1>5. LockOwner' /\ ActiveLocked' /\ Unregistered'
  BY <1>1 DEF LockOwner, ActiveLocked, Unregistered
<1>6. PassActive'
  <2>1. CASE t = Worker
    BY <2>1, <1>1 DEF PassActive
  <2>2. CASE t \in Leases
    <3>1. pc[Worker] \notin {"generation", "status", "read"}
      BY <2>2, <1>2, PassAlone, LeaseHasLock
    <3> QED BY <2>2, <3>1, <1>1 DEF PassActive
  <2> QED BY <2>1, <2>2 DEF Threads
<1> QED BY <1>3, <1>4, <1>5, <1>6

LEMMA UnregisterTokenInv ==
    ASSUME Inv, TypeOK', NEW t \in Threads, UnregisterToken(t)
    PROVE  Inv'
<1> USE ThreadsOf DEF Inv, TypeOK, Goto, UnregisterToken, passVars, osVars
<1>1. pc'[t] = "un.pending" /\ \A u \in Threads \ {t} : pc'[u] = pc[u]
  OBVIOUS
<1>2. pc[t] \in Locked /\ pc'[t] \in Locked /\ pc[t] \in Fetched
  BY DEF Fetched, Locked, Unregistering
<1>3. active = NoLease
  <2>1. CASE t = Worker
    BY <2>1 DEF PassActive
  <2>2. CASE t \in Leases
    BY <2>2, LeaseHasLock DEF Unregistered
  <2> QED BY <2>1, <2>2 DEF Threads
<1>4. WorkerLabels' /\ LeaseLabels'
  BY <1>1 DEF WorkerLabels, LeaseLabels, Unregistering, Threads
<1>5. TokenHeld' /\ TokenExclusive' /\ SameToken'
  BY <1>1, <1>2, <1>3 DEF TokenHeld, TokenExclusive, SameToken
<1>6. LockOwner' /\ ActiveLocked' /\ Unregistered'
  BY <1>1, <1>3 DEF LockOwner, ActiveLocked, Unregistered
<1>7. PassActive'
  BY <1>1, <1>3 DEF PassActive
<1> QED BY <1>4, <1>5, <1>6, <1>7

LEMMA UnregisterPendingInv ==
    ASSUME Inv, TypeOK', NEW t \in Threads, UnregisterPending(t)
    PROVE  Inv'
<1> USE ThreadsOf DEF UnregisterPending, tokenVars, passVars, osVars
<1>1. PICK label \in {"teardown", "unlock", "remove", "complete"} :
          /\ Goto(t, label)
          /\ \/ how[t] = "restore" /\ label = "teardown"
             \/ how[t] = "drop" /\ label = "unlock"
             \/ how[t] = "pass" /\ label \in {"remove", "complete"}
  OBVIOUS
<1>2. label \in Labels /\ pc[t] \in Locked /\ pc[t] \in Fetched
  BY DEF Fetched, Locked, Unregistering, Labels
<1>3. pc'[t] = label /\ \A u \in Threads \ {t} : pc'[u] = pc[u]
  BY <1>1 DEF Goto, Inv, TypeOK
<1>4. CASE t = Worker
  <2>1. WorkerLabels' /\ PassActive'
    BY <1>1, <1>3, <1>4 DEF WorkerLabels, PassActive, Inv
  <2> QED BY <1>1, <1>2, <1>4, <2>1, WorkerMove
<1>5. CASE t \in Leases
  <2>1. LeaseLabels'
    BY <1>1, <1>3, <1>5 DEF LeaseLabels, Unregistering, Inv
  <2>2. lock = t /\ active = NoLease
    BY <1>5, LeaseHasLock DEF Inv, Unregistered
  <2> QED BY <1>1, <1>2, <1>5, <2>1, <2>2, LeaseMove
<1> QED BY <1>4, <1>5 DEF Threads

LEMMA TokenStepInv ==
    ASSUME Inv, TypeOK', NEW t \in Threads, TokenStep(t)
    PROVE  Inv'
BY FetchInv, LockInv, UnlockInv, UnregisterLeaseInv, UnregisterTokenInv, UnregisterPendingInv DEF TokenStep

-----------------------------------------------------------------------------
\* No lease starts during a pass, so the active lease a pass sees is its own.
LEMMA RegisterInv ==
    ASSUME Prompt, Inv, TypeOK', NEW l \in Leases, Register(l)
    PROVE  Inv'
<1> USE ThreadsOf DEF Inv, TypeOK, Goto, Register, tokenVars, passVars
<1>1. pc'[l] = "ensure" /\ \A u \in Threads \ {l} : pc'[u] = pc[u]
  OBVIOUS
<1>2. pc'[l] \notin Fetched /\ pc'[l] \notin Locked /\ pc'[Worker] = "idle" /\ pc'[Worker] \notin Fetched
  BY <1>1 DEF Fetched, Locked, Unregistering
<1>3. WorkerLabels' /\ LeaseLabels'
  BY <1>1 DEF WorkerLabels, LeaseLabels, Unregistering
<1>4. TokenHeld' /\ TokenExclusive'
  BY <1>1, <1>2 DEF TokenHeld, TokenExclusive
<1>5. SameToken'
  BY <1>2 DEF SameToken
<1>6. LockOwner' /\ ActiveLocked' /\ Unregistered'
  BY <1>1 DEF LockOwner, ActiveLocked, Unregistered
<1>7. PassActive'
  BY <1>2 DEF PassActive
<1> QED BY <1>3, <1>4, <1>5, <1>6, <1>7

LEMMA CallInv ==
    ASSUME Inv, TypeOK', NEW l \in Leases, UpdateStart(l) \/ RestoreStart(l) \/ DropStart(l)
    PROVE  Inv'
<1> USE ThreadsOf DEF UpdateStart, RestoreStart, DropStart, Call, tokenVars, passVars, osVars
<1>1. Goto(l, "token") /\ how'[l] # "pass" /\ \A u \in Threads \ {l} : how'[u] = how[u]
  BY DEF Inv, TypeOK
<1>2. lock = l
  BY LeaseHasLock
<1>3. LeaseLabels'
  BY <1>1 DEF Inv, TypeOK, LeaseLabels, Goto, Unregistering
<1>4. "token" \in Labels /\ "token" \notin Fetched /\ "token" \notin Locked
  BY DEF Labels, Fetched, Locked, Unregistering
<1> QED BY <1>1, <1>2, <1>3, <1>4, LeaseMove

LEMMA TeardownInv ==
    ASSUME Inv, TypeOK', NEW l \in Leases, Teardown(l)
    PROVE  Inv'
<1> USE ThreadsOf DEF Teardown, tokenVars, passVars, osVars
<1>1. lock = l /\ pc[l] \in Locked /\ pc[l] \in Fetched
  BY LeaseHasLock DEF Locked, Fetched
<1>2. CASE how[l] = "drop"
  <2>1. LeaseLabels'
    BY <1>2 DEF Inv, TypeOK, LeaseLabels, Goto, Unregistering
  <2> QED BY <1>1, <1>2, <2>1, LeaseMove DEF Labels
<1>3. CASE how[l] = "restore"
  <2> USE DEF Inv, TypeOK, Goto
  <2>1. pc'[l] = "unlock" /\ \A u \in Threads \ {l} : pc'[u] = pc[u]
    BY <1>3
  <2>2. active = NoLease
    BY <1>1, <1>3 DEF Unregistered
  <2>3. WorkerLabels' /\ LeaseLabels'
    BY <1>3, <2>1 DEF WorkerLabels, LeaseLabels, Unregistering
  <2>4. TokenHeld' /\ TokenExclusive' /\ SameToken'
    BY <1>1, <2>1, <2>2 DEF TokenHeld, TokenExclusive, SameToken
  <2>5. LockOwner' /\ ActiveLocked' /\ Unregistered' /\ PassActive'
    BY <1>1, <1>3, <2>1, <2>2 DEF LockOwner, ActiveLocked, Unregistered, PassActive
  <2> QED BY <2>3, <2>4, <2>5
<1> QED BY <1>2, <1>3

LEMMA ReleaseInv ==
    ASSUME Inv, TypeOK', NEW l \in Leases, Release(l)
    PROVE  Inv'
<1> USE ThreadsOf DEF Inv, TypeOK, Goto, Release, tokenVars, passVars, osVars
<1>1. pc'[l] = "ended" /\ \A u \in Threads \ {l} : pc'[u] = pc[u]
  OBVIOUS
<1>2. lock = l /\ active = NoLease
  BY LeaseHasLock DEF Unregistered
<1>3. pc'[l] \notin Fetched /\ pc'[l] \notin Locked
  BY <1>1 DEF Fetched, Locked, Unregistering
<1>4. WorkerLabels' /\ LeaseLabels'
  BY <1>1 DEF WorkerLabels, LeaseLabels, Unregistering
<1>5. TokenHeld' /\ TokenExclusive' /\ SameToken'
  BY <1>1, <1>2, <1>3 DEF TokenHeld, TokenExclusive, SameToken
<1>6. LockOwner' /\ ActiveLocked' /\ Unregistered' /\ PassActive'
  BY <1>1, <1>2 DEF LockOwner, ActiveLocked, Unregistered, PassActive
<1> QED BY <1>4, <1>5, <1>6

LEMMA LeaseStepInv ==
    ASSUME Inv, TypeOK', NEW l \in Leases, LeaseStep(l)
    PROVE  Inv'
<1> USE ThreadsOf DEF tokenVars, passVars, osVars
<1>1. CASE TokenStep(l)
  BY <1>1, TokenStepInv
<1>2. CASE Ensure(l)
  <2>1. LeaseLabels'
    BY <1>2 DEF Ensure, Inv, TypeOK, LeaseLabels, Goto, Unregistering
  <2> QED BY <1>2, <2>1, LeaseHasLock, LeaseMove DEF Ensure, Labels, Fetched, Locked, Unregistering
<1>3. CASE Rescan(l)
  <2>1. LeaseLabels'
    BY <1>3 DEF Rescan, Inv, TypeOK, LeaseLabels, Goto, Unregistering
  <2> QED BY <1>3, <2>1, LeaseHasLock, LeaseMove DEF Rescan, Labels, Fetched, Locked, Unregistering
<1>4. CASE Update(l)
  <2>1. LeaseLabels'
    BY <1>4 DEF Update, Inv, TypeOK, LeaseLabels, Goto, Unregistering
  <2>2. how[l] = "update"
    BY <1>4 DEF Update, Inv, LeaseLabels
  <2> QED BY <1>4, <2>1, <2>2, LeaseHasLock, LeaseMove DEF Update, Labels, Fetched, Locked
<1>5. CASE Teardown(l)
  BY <1>5, TeardownInv
<1>6. CASE Release(l)
  BY <1>6, ReleaseInv
<1> QED BY <1>1, <1>2, <1>3, <1>4, <1>5, <1>6 DEF LeaseStep

LEMMA WorkerStepInv ==
    ASSUME Inv, TypeOK', WorkerStep
    PROVE  Inv'
<1> USE ThreadsOf DEF tokenVars, passVars, osVars
<1> DEFINE Moves(label) ==
             /\ Goto(Worker, label) /\ label \in Labels
             /\ WorkerLabels' /\ PassActive'
             /\ label \in Fetched => pc[Worker] \in Fetched
             /\ label \in Locked => pc[Worker] \in Locked
<1>1. CASE TokenStep(Worker)
  BY <1>1, TokenStepInv
<1>2. CASE Pick
  <2>1. Moves("check")
    BY <1>2 DEF Pick, Goto, Inv, TypeOK, WorkerLabels, PassActive, Labels, Fetched, Locked, Unregistering
  <2> QED BY <1>2, <2>1, WorkerMove DEF Pick
<1>3. CASE Check
  <2>1. PICK label \in {"forget", "token"} : Goto(Worker, label)
    BY <1>3 DEF Check
  <2>2. Moves(label)
    BY <1>3, <2>1 DEF Check, Goto, Inv, TypeOK, WorkerLabels, PassActive, Labels, Fetched, Locked, Unregistering
  <2> QED BY <1>3, <2>2, WorkerMove DEF Check
<1>4. CASE Forget
  <2>1. Moves("idle")
    BY <1>4 DEF Forget, Goto, Inv, TypeOK, WorkerLabels, PassActive, Labels, Fetched, Locked, Unregistering
  <2> QED BY <1>4, <2>1, WorkerMove DEF Forget
<1>5. CASE Recheck
  <2>1. PICK label \in {"remove", "generation"} :
            Goto(Worker, label) /\ (label = "generation" => active # NoLease)
    BY <1>5 DEF Recheck
  <2>2. Moves(label)
    BY <1>5, <2>1 DEF Recheck, Goto, Inv, TypeOK, WorkerLabels, PassActive, Labels, Fetched, Locked
  <2> QED BY <1>5, <2>2, WorkerMove DEF Recheck
<1>6. CASE ReadGeneration
  <2>1. Moves("status")
    BY <1>6 DEF ReadGeneration, Goto, Inv, TypeOK, WorkerLabels, PassActive, Labels, Fetched, Locked
  <2> QED BY <1>6, <2>1, WorkerMove DEF ReadGeneration
<1>7. CASE Status
  <2>1. PICK label \in {"read", "un.active", "defer"} : Goto(Worker, label)
    BY <1>7 DEF Status
  <2>2. Moves(label)
    BY <1>7, <2>1 DEF Status, Goto, Inv, TypeOK, WorkerLabels, PassActive, Labels, Fetched, Locked, Unregistering
  <2> QED BY <1>7, <2>2, WorkerMove DEF Status
<1>8. CASE Pass
  <2>1. PICK label \in {"complete", "un.active", "defer"} : Goto(Worker, label)
    BY <1>8 DEF Pass
  <2>2. Moves(label)
    BY <1>8, <2>1 DEF Pass, Goto, Inv, TypeOK, WorkerLabels, PassActive, Labels, Fetched, Locked, Unregistering
  <2> QED BY <1>8, <2>2, WorkerMove DEF Pass
<1>9. CASE Settle
  <2>1. Moves("unlock")
    BY <1>9 DEF Settle, Goto, Inv, TypeOK, WorkerLabels, PassActive, Labels, Fetched, Locked
  <2> QED BY <1>9, <2>1, WorkerMove DEF Settle
<1> QED BY <1>1, <1>2, <1>3, <1>4, <1>5, <1>6, <1>7, <1>8, <1>9 DEF WorkerStep

LEMMA NextInv ==
    ASSUME Prompt
    PROVE  Inv /\ [Next]_vars => Inv'
<1> SUFFICES ASSUME Inv, [Next]_vars PROVE Inv'
  OBVIOUS
<1>1. TypeOK'
  BY TypeStep DEF Inv
<1>2. CASE UNCHANGED <<lock, active, slot, token, locked, how, pc, entry>>
  BY <1>1, <1>2 DEF Inv, WorkerLabels, LeaseLabels, TokenHeld, TokenExclusive, LockOwner,
                    ActiveLocked, Unregistered, SameToken, PassActive
<1>3. CASE BecomesDue \/ ExternalChange \/ Notify \/ UNCHANGED vars
  BY <1>2, <1>3 DEF BecomesDue, ExternalChange, Notify, vars, tokenVars, passVars, osVars
<1> QED BY <1>1, <1>3, RegisterInv, CallInv, LeaseStepInv, WorkerStepInv DEF Next

-----------------------------------------------------------------------------
(***************************************************************************)
(* Every variable keeps its type, whatever the worker and leases interleave.*)
(***************************************************************************)
THEOREM ReconcilerTypeCorrect == Spec => []TypeOK
<1>1. Init => TypeOK
  BY InitInv DEF Inv
<1> QED BY <1>1, TypeStep, PTL DEF Spec

(***************************************************************************)
(* While the worker is between two passes whenever a lease starts, the     *)
(* token keeps every reconcile_resource pass apart from the updates and    *)
(* the teardown of the lease it works on, and that lease has the resource  *)
(* lock. The assumption is needed: the run token_handover violates the     *)
(* property without it.                                                    *)
(***************************************************************************)
THEOREM ReconcilerPassExclusive ==
    ASSUME Prompt
    PROVE  Spec => []PassExclusive
<1>1. Inv => PassExclusive
  <2> SUFFICES ASSUME Inv, pc[Worker] \in {"status", "read"}
               PROVE  lock = entry /\ pc[entry] \notin {"update", "teardown"}
    BY DEF PassExclusive
  <2>1. entry \in Leases /\ lock = entry
    BY DEF Inv, TypeOK, PassActive, ActiveLocked
  <2> QED BY <2>1, PassAlone DEF Locked
<1> QED BY InitInv, NextInv, <1>1, PTL DEF Spec
=============================================================================
