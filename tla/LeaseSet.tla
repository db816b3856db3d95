------------------------------ MODULE LeaseSet ------------------------------
(***************************************************************************)
(* One lease over several resources (src/src/manager.rs, src/src/lease.rs):*)
(* the order in which apply, update, restore, abandon and drop go through  *)
(* the resources, and what becomes of the others when one of them fails.   *)
(*                                                                         *)
(* What Engine follows step by step on one resource is one step here, with *)
(* the outcomes it can have: a native mutation is done, refused, undone or *)
(* left pending; a journal write or removal may report failure after it    *)
(* took effect. The backend compares before it mutates. Other programs     *)
(* write between any two steps.                                            *)
(***************************************************************************)
EXTENDS Naturals

CONSTANTS
    N,             \* the resources of the lease, 1..N in the order of the plan
    Plans,         \* what the lease may want
    Others,        \* what other programs write
    None,
    MaxCalls, MaxFaults, MaxWrites   \* bounds on calls, failures, other programs' writes

VARIABLES
    native,        \* the state of every resource
    journal,       \* its record
    live,          \* its LiveRecord
    claimed,       \* resources whose ResourceLock the lease holds
    phase,         \* LeasePhase, or "none" without a lease
    op, step, at,  \* the call, where it is and on which resource
    tx,            \* the local variables of its transaction
    before,        \* the snapshots apply captured
    calls, faults, writes,
    mine,          \* history: what osdns last left in a resource, unless it was replaced
    strayed        \* history: where it replaced, without a record, what was neither its
                   \* own nor the original

leaseVars == <<native, journal, live, claimed, phase, op, step, at, tx, before,
               calls, faults, writes, mine, strayed>>

Set == 1..N
Given == N \in Nat \ {0} /\ None \notin Plans \cup Others

Record(ph, b, d, a) == [phase |-> ph, before |-> b, desired |-> d, applied |-> a]
NoRecord == Record("none", None, None, None)
Pending(evidence, target, resume) == [evidence |-> evidence, target |-> target, resume |-> resume]
NoPending == Pending(None, None, NoRecord)
Live(record, state, pending) ==
    [record |-> record, state |-> state, repair |-> FALSE, pending |-> pending]
NoLive == Live(NoRecord, "none", NoPending)
NoResidue == [kind |-> "none", evidence |-> None]

\* The plan, the records it started from, how the mutation of every resource
\* ended, and the resource that failed.
Transaction(p, records) ==
    [plan |-> p, olds |-> records, residue |-> [r \in Set |-> NoResidue], failed |-> 0]
NoTransaction == Transaction(None, [r \in Set |-> NoRecord])

\* The resources are alike at first; a write makes them differ.
Init ==
    /\ native \in {[r \in Set |-> s] : s \in Others}
    /\ journal = [r \in Set |-> NoRecord] /\ live = [r \in Set |-> NoLive]
    /\ claimed = {} /\ phase = "none"
    /\ op = "none" /\ step = "rest" /\ at = 1 /\ tx = NoTransaction
    /\ before = [r \in Set |-> None]
    /\ calls = 0 /\ faults = 0 /\ writes = 0 /\ mine = before /\ strayed = {}

-----------------------------------------------------------------------------
(***************************************************************************)
(* What can become of one resource: its state s, its record j, its live    *)
(* entry l, whether the operation succeeded, and the failures it took.     *)
(***************************************************************************)
Cell(r) == [s |-> native[r], j |-> journal[r], l |-> live[r], ok |-> TRUE, f |-> 0]

\* Journal::write and Journal::remove; one that fails may have been visible.
Write(c, record) ==
    {[c EXCEPT !.j = record]} \cup {[c EXCEPT !.j = j, !.ok = FALSE, !.f = @ + 1] : j \in {c.j, record}}

Erase(c) == Write(c, NoRecord)

\* compensate: the state it leaves, the identity it can still prove, and whether
\* the target is reached. Values another program may have written again carry none.
Compensate(s, evidence, target) ==
    IF s = target
    THEN {[s |-> s, id |-> i, ok |-> TRUE, f |-> 0] : i \in {target, None}}
         \cup {[s |-> s, id |-> evidence, ok |-> FALSE, f |-> 1]}
    ELSE IF evidence # s THEN {[s |-> s, id |-> evidence, ok |-> FALSE, f |-> 0]}
    ELSE {[s |-> target, id |-> i, ok |-> TRUE, f |-> 0] : i \in {target, None}}
         \cup {[s |-> s, id |-> evidence, ok |-> FALSE, f |-> 1],
               [s |-> target, id |-> target, ok |-> FALSE, f |-> 1]}

Residue(kind, s, evidence, f) == [kind |-> kind, s |-> s, evidence |-> evidence, f |-> f]

\* mutate_and_verify: Ok, or MutationFailure with its MutationResidue.
MutateAndVerify(s, expected, p) ==
    IF s # expected THEN {Residue("unchanged", s, None, 0)}
    ELSE {Residue("ok", p, p, 0), Residue("unchanged", s, None, 1)}
         \cup {Residue(IF c.ok THEN "restored" ELSE "pending", c.s, c.id, c.f + 1) :
                  c \in Compensate(p, p, expected) \cup Compensate(p, None, expected)}

PersistLive(c, candidate) ==
    {[w EXCEPT !.l = [Live(candidate, IF candidate.phase = "applied" THEN "committed" ELSE "unmutated",
                           NoPending) EXCEPT !.repair = ~w.ok]] : w \in Write(c, candidate)}

\* Mutant: the record keeps the plan of the failed update.
RetainPlan(c, pending) ==
    LET record == [c.l.record EXCEPT !.phase = "prepared", !.applied = pending.evidence]
    IN {[w EXCEPT !.l = [Live(record, "compensating", pending) EXCEPT !.repair = ~w.ok]] :
           w \in Write(c, record)}

RetainCompensation(c, pending) ==
    LET record == [c.l.record EXCEPT !.phase = "prepared", !.applied = pending.evidence,
                                     !.desired = pending.resume.desired]
    IN {[w EXCEPT !.l = [Live(record, "compensating", pending) EXCEPT !.repair = ~w.ok]] :
           w \in Write(c, record)}

\* The record an undone mutation resumes with: no identity, no applied state.
Resumed(record, id) ==
    [record EXCEPT !.applied = id, !.phase = IF id = None THEN "prepared" ELSE @]

ResolveState(c) ==
    LET l == c.l
        applied == [l.record EXCEPT !.phase = "applied", !.applied = l.pending.evidence]
    IN IF l.state \in {"committed", "unmutated"} THEN {c}
       ELSE IF l.state = "prepared" \/ (l.state = "verified" /\ c.s # l.pending.evidence)
       THEN {[c EXCEPT !.ok = FALSE]}
       ELSE IF l.state = "verified"
       THEN {IF w.ok THEN [w EXCEPT !.l = Live(applied, "committed", NoPending)] ELSE w :
                w \in Write(c, applied)}
       ELSE UNION {LET d == [c EXCEPT !.s = k.s, !.f = @ + k.f]
                       resume == l.pending.resume
                   IN IF k.ok
                      THEN PersistLive(d, IF resume.phase = "applied" THEN Resumed(resume, k.id) ELSE resume)
                      ELSE {[w EXCEPT !.ok = FALSE] :
                               w \in RetainCompensation(d, Pending(k.id, l.pending.target, resume))} :
                   k \in Compensate(c.s, l.pending.evidence, l.pending.target)}

\* resolve_live: an outstanding publication first.
ResolveLive(c) ==
    IF ~c.l.repair THEN ResolveState(c)
    ELSE UNION {IF w.ok THEN ResolveState([w EXCEPT !.l.repair = FALSE]) ELSE {w} :
                   w \in Write(c, c.l.record)}

CommitVerified(c, proof) ==
    ResolveLive([c EXCEPT !.l.state = "verified", !.l.pending.evidence = proof])

\* restore_live_state, from where the record is committed.
RestoreApplied(c) ==
    LET record == c.l.record
        resume == [record EXCEPT !.phase = "prepared", !.applied = None]
    IN IF c.s = record.before THEN Erase(c)
       ELSE IF c.l.state # "committed" \/ c.s # record.applied THEN {[c EXCEPT !.ok = FALSE]}
       ELSE UNION {LET pending == Pending(k.id, record.before, resume)
                       d == [c EXCEPT !.s = k.s, !.f = @ + k.f,
                                      !.l = [@ EXCEPT !.state = "compensating", !.pending = pending]]
                   IN IF k.ok THEN Erase(d)
                      ELSE {[w EXCEPT !.ok = FALSE] : w \in RetainCompensation(d, pending)} :
                   k \in Compensate(c.s, record.applied, record.before)}

RestoreLiveState(c) ==
    {[c EXCEPT !.ok = FALSE, !.f = @ + 1]} \cup
    IF c.s = c.l.record.before THEN Erase(c)
    ELSE IF c.l.state = "committed" /\ ~c.l.repair THEN RestoreApplied(c)
    ELSE UNION {IF w.ok THEN RestoreApplied(w) ELSE {w} : w \in ResolveLive(c)}

-----------------------------------------------------------------------------
\* Neither a record, nor a state that osdns last left there, nor the original.
Foreign(r) == journal[r] = NoRecord /\ mine[r] = None /\ native[r] # before[r]

\* Resource r becomes c.
Becomes(r, c) ==
    /\ faults' = faults + c.f /\ faults' <= MaxFaults
    /\ native' = [native EXCEPT ![r] = c.s] /\ journal' = [journal EXCEPT ![r] = c.j]
    /\ live' = [live EXCEPT ![r] = c.l]
    /\ mine' = IF c.s = native[r] THEN mine ELSE [mine EXCEPT ![r] = c.s]
    /\ strayed' = IF c.s # native[r] /\ Foreign(r) THEN strayed \cup {r} ELSE strayed

Goto(label, index, t) == step' = label /\ at' = index /\ tx' = t
Rest == Goto("rest", 1, NoTransaction)
\* On to the next resource, or past the last one of them to another step.
Onward(last, label, t) == IF at = last THEN Goto(label, 1, t) ELSE Goto(step, at + 1, t)
OrRest(last) == IF at = last THEN Rest ELSE Goto(step, at + 1, tx)

Called(name, first, t) ==
    /\ step = "rest" /\ calls < MaxCalls /\ calls' = calls + 1
    /\ op' = name /\ Goto(first, 1, t)
    /\ UNCHANGED <<native, journal, live, faults, writes>>

Unmoved == UNCHANGED <<op, before, calls, writes>>

(***************************************************************************)
(* apply: transact_with_locks, with its locks.                             *)
(***************************************************************************)
\* An earlier lease's records are recovered first, and the states captured.
Apply(p) ==
    /\ phase = "none" /\ \A r \in Set : journal[r] = NoRecord
    /\ Called("apply", "persist",
              Transaction(p, [r \in Set |->
                  IF \A s \in Set : native[s] = p THEN Record("applied", native[r], p, native[r])
                  ELSE Record("prepared", native[r], p, None)]))
    /\ before' = native /\ claimed' = Set /\ mine' = [r \in Set |-> None] /\ strayed' = {}
    /\ UNCHANGED phase

WasNoop == tx.olds[1].phase = "applied"

\* persist_unmutated: the records one by one; a failure withdraws them again.
Persist ==
    /\ step = "persist"
    /\ \E c \in Write(Cell(at), tx.olds[at]) :
          /\ Becomes(at, [c EXCEPT !.l = Live(tx.olds[at], IF WasNoop THEN "committed" ELSE "prepared",
                                              NoPending)])
          /\ IF ~c.ok THEN Goto("withdraw", 1, [tx EXCEPT !.failed = at]) /\ UNCHANGED phase
             ELSE IF at = N /\ WasNoop THEN Rest /\ phase' = "active"
             ELSE Onward(N, "mutate", tx) /\ UNCHANGED phase
    /\ UNCHANGED claimed /\ Unmoved

\* apply goes back over its resources and fails: no lease, no locks.
Fail(last, c) ==
    /\ Becomes(at, [c EXCEPT !.l = NoLive])
    /\ claimed' = IF at = last THEN {} ELSE claimed
    /\ OrRest(last)
    /\ UNCHANGED phase /\ Unmoved

Withdraw == step = "withdraw" /\ \E c \in Erase(Cell(at)) : Fail(tx.failed, c)

Left(kind, evidence) == [tx EXCEPT !.residue[at] = [kind |-> kind, evidence |-> evidence]]

\* The mutation of one resource, by apply or update.
Mutate ==
    LET expected == IF op = "apply" THEN before[at] ELSE tx.olds[at].applied
    IN /\ step = "mutate"
       /\ \E m \in MutateAndVerify(native[at], expected, tx.plan) :
             LET t == Left(m.kind, m.evidence)
             IN /\ Becomes(at, [Cell(at) EXCEPT !.s = m.s, !.f = m.f, !.l.state = "prepared"])
                /\ IF m.kind = "ok" THEN Onward(N, "commit", t)
                   ELSE Goto(IF op = "apply" THEN "unwind" ELSE IF at = 1 THEN "settle" ELSE "rollback",
                             1, [t EXCEPT !.failed = at])
       /\ UNCHANGED <<claimed, phase>> /\ Unmoved

\* rollback_proven for a resource already moved.
RollbackProven(r, target) == Compensate(native[r], tx.plan, target)

Retained(c, evidence) == Write(c, [tx.olds[at] EXCEPT !.applied = evidence])

\* Mutant: the record of the resource that failed goes whatever is left of it.
UnwoundBlindly(c) ==
    IF at < tx.failed
    THEN UNION {LET d == [c EXCEPT !.s = k.s, !.f = k.f]
                IN IF k.ok THEN Erase(d) ELSE Retained(d, k.id) : k \in RollbackProven(at, before[at])}
    ELSE Erase(c)

\* A failed apply: earlier resources are rolled back, the one that failed keeps
\* its record unless it is as before, later ones were not touched.
Unwound(c) ==
    IF at < tx.failed
    THEN UNION {LET d == [c EXCEPT !.s = k.s, !.f = k.f]
                IN IF k.ok THEN Erase(d) ELSE Retained(d, k.id) : k \in RollbackProven(at, before[at])}
    ELSE IF at > tx.failed THEN Erase(c)
    ELSE IF tx.residue[at].kind = "pending" THEN Retained(c, tx.residue[at].evidence)
    ELSE {[c EXCEPT !.f = 1]} \cup (IF c.s = before[at] THEN Erase(c) ELSE {c})

Unwind == step = "unwind" /\ \E c \in Unwound(Cell(at)) : Fail(N, c)

\* commit_verified for every resource; apply keeps what remains pending, update
\* reports it.
Commit ==
    /\ step = "commit"
    /\ \E c \in CommitVerified(Cell(at), tx.residue[at].evidence) : Becomes(at, c)
    /\ OrRest(N)
    /\ phase' = IF at = N THEN "active" ELSE phase
    /\ UNCHANGED claimed /\ Unmoved

-----------------------------------------------------------------------------
(***************************************************************************)
(* Lease::update: transact_update.                                         *)
(***************************************************************************)
Update(p) ==
    /\ phase = "active" /\ Called("update", "resolve", Transaction(p, [r \in Set |-> NoRecord]))
    /\ UNCHANGED <<before, claimed, phase, mine, strayed>>

\* Every record is settled and carries an applied state.
Resolve ==
    /\ step = "resolve"
    /\ \E c \in ResolveLive(Cell(at)) :
          /\ Becomes(at, c)
          /\ IF c.ok /\ c.l.state = "committed" /\ c.l.record.applied # None
             THEN Onward(N, "own", [tx EXCEPT !.olds[at] = c.l.record]) ELSE Rest
    /\ UNCHANGED <<claimed, phase>> /\ Unmoved

\* Every resource is read and still in its applied state; if all are as wanted
\* there is nothing to do.
Own ==
    /\ step = "own"
    /\ IF \/ \E r \in Set : native[r] # tx.olds[r].applied
          \/ \A r \in Set : tx.olds[r].applied = tx.plan
       THEN Rest ELSE Goto("prepare", 1, tx)
    /\ UNCHANGED <<native, journal, live, faults, mine, strayed, claimed, phase>> /\ Unmoved

OwnUnread ==
    /\ step = "own" /\ faults < MaxFaults /\ faults' = faults + 1 /\ Rest
    /\ UNCHANGED <<native, journal, live, mine, strayed, claimed, phase>> /\ Unmoved

\* The intent of every resource before any is mutated.
Prepare ==
    LET intent == [tx.olds[at] EXCEPT !.desired = tx.plan, !.phase = "prepared"]
    IN /\ step = "prepare"
       /\ \E c \in Write(Cell(at), intent) :
             /\ Becomes(at, [c EXCEPT !.l = Live(intent, "unmutated", NoPending)])
             /\ IF c.ok THEN Onward(N, "mutate", tx) ELSE Goto("revert", 1, tx)
       /\ UNCHANGED <<claimed, phase>> /\ Unmoved

Revert ==
    /\ step = "revert"
    /\ \E c \in PersistLive(Cell(at), tx.olds[at]) : Becomes(at, c)
    /\ OrRest(N)
    /\ UNCHANGED <<claimed, phase>> /\ Unmoved

\* Mutant: a resource moved before the failure stays as it is.
RollbackNot ==
    /\ step = "rollback"
    /\ Onward(tx.failed - 1, "settle", Left("restored", tx.olds[at].applied))
    /\ UNCHANGED <<native, journal, live, faults, mine, strayed, claimed, phase>> /\ Unmoved

\* A failed update: what was moved is rolled back, then every record settled.
Rollback ==
    /\ step = "rollback"
    /\ \E k \in RollbackProven(at, tx.olds[at].applied) :
          /\ Becomes(at, [Cell(at) EXCEPT !.s = k.s, !.f = k.f])
          /\ Onward(tx.failed - 1, "settle", Left(IF k.ok THEN "restored" ELSE "pending", k.id))
    /\ UNCHANGED <<claimed, phase>> /\ Unmoved

Settled(c) ==
    LET left == tx.residue[at]
        old == tx.olds[at]
    IN IF left.kind = "pending" THEN RetainCompensation(c, Pending(left.evidence, old.applied, old))
       ELSE PersistLive(c, IF left.kind = "restored" THEN Resumed(old, left.evidence) ELSE old)

Settle ==
    /\ step = "settle"
    /\ \E c \in Settled(Cell(at)) : Becomes(at, c)
    /\ OrRest(N)
    /\ UNCHANGED <<claimed, phase>> /\ Unmoved

-----------------------------------------------------------------------------
(***************************************************************************)
(* The end of a lease: restore, abandon, drop.                             *)
(***************************************************************************)
End(name) ==
    /\ phase # "none" /\ Called(name, "end", NoTransaction)
    /\ mine' = IF name = "abandon" THEN [r \in Set |-> None] ELSE mine
    /\ UNCHANGED <<before, claimed, phase, strayed>>

Restore == End("restore")
Abandon == End("abandon")
Drop == End("drop")

\* The lease is over, or keeps what it could not end.
Over(entries) ==
    /\ Rest
    /\ phase' = IF op = "drop" \/ \A r \in Set : entries[r] = NoLive THEN "none"
                ELSE IF op = "restore" THEN "restoring" ELSE "abandoning"

\* Mutant: a resource that could not be ended is let go with the others.
EndedAnyway ==
    /\ step = "end"
    /\ \E c \in IF live[at] = NoLive THEN {Cell(at)}
                ELSE IF op = "abandon" \/ (op = "drop" /\ phase = "abandoning")
                THEN Erase(Cell(at)) ELSE RestoreLiveState(Cell(at)) :
          Becomes(at, [c EXCEPT !.l = NoLive])
    /\ claimed' = claimed \ {at}
    /\ IF at = N THEN Over(live') ELSE Goto(step, at + 1, tx) /\ UNCHANGED phase
    /\ Unmoved

\* One resource after the other, whatever became of those before it.
EndOne ==
    /\ step = "end"
    /\ \E c \in IF live[at] = NoLive THEN {Cell(at)}
                ELSE IF op = "abandon" \/ (op = "drop" /\ phase = "abandoning")
                THEN Erase(Cell(at)) ELSE RestoreLiveState(Cell(at)) :
          LET gone == c.ok \/ op = "drop"
          IN /\ Becomes(at, IF gone THEN [c EXCEPT !.l = NoLive] ELSE c)
             /\ claimed' = IF gone THEN claimed \ {at} ELSE claimed
    /\ IF at = N THEN Over(live') ELSE Goto(step, at + 1, tx) /\ UNCHANGED phase
    /\ Unmoved

-----------------------------------------------------------------------------
OtherProgram(r) ==
    /\ writes < MaxWrites /\ writes' = writes + 1
    /\ \E s \in Others \ {native[r]} : native' = [native EXCEPT ![r] = s]
    /\ mine' = [mine EXCEPT ![r] = None]
    /\ UNCHANGED <<journal, live, claimed, phase, op, step, at, tx, before, calls, faults, strayed>>

\* The caller asks for nothing; what a failed apply or a drop left in the journal
\* waits for recover_stale, which Engine has.
Content == step = "rest" /\ UNCHANGED leaseVars

Next ==
    \/ \E p \in Plans : Apply(p) \/ Update(p)
    \/ Persist \/ Withdraw \/ Mutate \/ Unwind \/ Commit
    \/ Resolve \/ Own \/ OwnUnread \/ Prepare \/ Revert \/ Rollback \/ Settle
    \/ Restore \/ Abandon \/ Drop \/ EndOne
    \/ \E r \in Set : OtherProgram(r)
    \/ Content

Spec == Init /\ [][Next]_leaseVars

-----------------------------------------------------------------------------
\* Lease::pending_durability.
PendingDurability == {r \in claimed : live[r].state # "committed" \/ live[r].repair}

(***************************************************************************)
(* "Every mutation ... is journaled before it happens" (src/src/manager.rs,*)
(* DnsManager): whatever osdns wrote over the original state of resource r,*)
(* and nobody replaced or abandoned since, the journal has a record with   *)
(* that original.                                                          *)
(***************************************************************************)
JournaledAt(r) ==
    mine[r] = native[r] /\ native[r] # before[r] => journal[r] # NoRecord /\ journal[r].before = before[r]

(***************************************************************************)
(* "Unresolved mutations retain journals" (src/src/manager.rs, apply):     *)
(* in every intermediate state of every call and after every failure.      *)
(* Excepted is what a lease did after a removal that took effect but was   *)
(* reported to fail, to a state it had no claim to any more.               *)
(***************************************************************************)
Accounted == \A r \in Set \ strayed : JournaledAt(r)

(***************************************************************************)
(* "Old complete configuration or new complete configuration, never a      *)
(* silently mixed configuration" (src/src/manager.rs, transact_update):    *)
(* between calls, resources that the lease reports as settled and that     *)
(* nobody else wrote since are in the same configuration.                  *)
(***************************************************************************)
NeverMixed ==
    step = "rest" /\ phase = "active" =>
        \A r, s \in Set \ PendingDurability :
            mine[r] # None /\ mine[s] # None => mine[r] = mine[s]

(***************************************************************************)
(* Whatever failed on the way, between calls all records of a lease want   *)
(* the same plan, so that a later reconcile pass cannot mix two; and those *)
(* committed have it as their applied state.                               *)
(***************************************************************************)
OneConfiguration ==
    step = "rest" /\ phase # "none" =>
        \A r, s \in claimed :
            /\ live[r].record.desired = live[s].record.desired
            /\ r \notin PendingDurability => live[r].record.applied = live[r].record.desired

(***************************************************************************)
(* LeaseFailure: "the lease, still holding its resource locks and journal  *)
(* records". Between calls the lease has the locks of exactly the          *)
(* resources it still tracks, and restore or abandon lets go of a resource *)
(* only without a record, restore only when no state of osdns is left.     *)
(***************************************************************************)
FailureKeepsClaim ==
    step = "rest" =>
        /\ claimed = {r \in Set : live[r] # NoLive}
        /\ op \in {"restore", "abandon"} =>
              \A r \in Set \ claimed :
                  /\ journal[r] = NoRecord
                  /\ op = "restore" /\ mine[r] = native[r] => native[r] = before[r]
=============================================================================
