------------------------------- MODULE Engine -------------------------------
(***************************************************************************)
(* The ownership transaction engine of osdns for one native resource:      *)
(* apply, update, restore, abandon and drop of a lease, Enforce            *)
(* reconciliation, crash recovery (src/src/manager.rs, src/src/lease.rs,   *)
(* src/src/reconciliation.rs) over a native backend and a journal.         *)
(*                                                                         *)
(* The resource lock and the per-resource token admit one operation on the *)
(* resource at a time (op). An operation is cut into steps at every call   *)
(* of the backend or of the journal, the points where another program may  *)
(* have changed the resource, the call may fail, and the process may die;  *)
(* pc names the next call, loc holds the operation's local variables.      *)
(***************************************************************************)
EXTENDS JournalStore

CONSTANTS
    Enforce,          \* conflict policy: TRUE for Enforce, FALSE for Cooperative
    ScanBeforeLock,   \* recover_stale may lose the resource between its journal
                      \* scan and its lock to another call
    MaxCalls,         \* bound on API calls
    MaxEvents,        \* bound on changes made by other programs
    MaxFaults         \* bound on failing native or journal calls and crashes

ASSUME EngineAssumption ==
    /\ Enforce \in BOOLEAN /\ ScanBeforeLock \in BOOLEAN
    /\ MaxCalls \in Nat /\ MaxEvents \in Nat /\ MaxFaults \in Nat

VARIABLES
    native,     \* the resource
    journal,    \* the durable records that claim it
    phase,      \* LeasePhase, or "none" when no lease is held
    active,     \* whether the lease is registered for reconciliation
    live,       \* the lease's LiveRecord
    pc, op, loc,
    nextLease,  \* the next lease id
    scan,       \* records a recover_stale call has read but not yet locked
    calls, events, faults,
    \* History, never read by the engine:
    author,     \* "us" when osdns wrote the current state over base, "waived"
                \* once its lease began to abandon it, else "ext"
    base,       \* the state osdns would have to give back
    asked,      \* the plan of the last apply or update that returned Ok
    moved,      \* another program acted since the last pre-write check
    harm        \* the worst write so far: over a state neither written by osdns
                \* nor recorded, "raced" in the check-to-write window or "blind"

osVars    == <<native, author, base, moved, harm>>
leaseVars == <<phase, active, live>>
bounds    == <<nextLease, calls, events>>
vars      == <<osVars, journal, leaseVars, pc, op, loc, scan, bounds, faults, asked>>

-----------------------------------------------------------------------------
(***************************************************************************)
(* Types.                                                                  *)
(***************************************************************************)
Ops == {"none", "apply", "update", "restore", "drop", "abandon", "discard",
        "reconcile", "recover"}

Labels == {"idle", "done",
    "ap.observe", "ap.persist", "ap.unpersist", "ap.remove",
    "mut.bind", "mut.cas", "mut.check", "mut.recheck", "mut.write",
    "mut.status", "mut.readback", "mut.verify", "residue",
    "comp.status", "comp.read", "comp.bind", "comp.cas", "comp.check",
    "comp.recheck", "comp.write", "comp.reread", "comp.verify",
    "rv.start", "rv.read", "rv.status", "rv.write", "rv.resume", "rv.retain",
    "up.read", "up.prepare", "up.unprepare",
    "rs.status", "rs.read", "rs.reread", "rs.remove", "rs.retain", "rs.fail",
    "ab.remove",
    "rc.forget", "rc.first", "rc.second", "rc.prepare", "rc.unprepare",
    "rec.status", "rec.capture", "rec.remove", "rec.retain"}

LiveStates == {"Committed", "Unmutated", "Prepared", "Verified", "Compensating"}

\* LiveRecord; repair is LiveState::Repair(st).
LiveRecords == [rec: Records, st: LiveStates, repair: BOOLEAN, proof: Snapshots,
                ev: Snapshots, tgt: Snapshots, resume: Records]

LiveAs(r, st, repair) ==
    [rec |-> r, st |-> st, repair |-> repair, proof |-> None,
     ev |-> None, tgt |-> None, resume |-> NoRecord]

LiveVerified(r, proof) == [LiveAs(r, "Verified", FALSE) EXCEPT !.proof = proof]

LiveCompensating(r, ev, tgt, resume, repair) ==
    [LiveAs(r, "Compensating", repair) EXCEPT !.ev = ev, !.tgt = tgt, !.resume = resume]

NoLive == LiveAs(NoRecord, "Unmutated", FALSE)

Locals == [inc: Nat, plan: Plans, cur: Snapshots, exp: Snapshots, ev: Snapshots,
           tgt: Snapshots, id: Snapshots, rec: Records,
           res: {"none", "Unchanged", "Restored", "Pending"},
           ret: {"none", "residue", "resolve", "restore", "recover"},
           then: {"start", "commit"}]

NoLoc == [inc |-> 0, plan |-> NoRecord.desired, cur |-> None, exp |-> None,
          ev |-> None, tgt |-> None, id |-> None, rec |-> NoRecord,
          res |-> "none", ret |-> "none", then |-> "start"]

(***************************************************************************)
(* Every variable has its type.                                            *)
(***************************************************************************)
TypeOK ==
    /\ native \in Resources
    /\ journal \subseteq Records
    /\ phase \in {"none", "active", "restoring", "abandoning"}
    /\ active \in BOOLEAN
    /\ live \in LiveRecords
    /\ pc \in Labels /\ op \in Ops /\ loc \in Locals
    /\ nextLease \in Nat
    /\ scan \subseteq Records
    /\ calls \in Nat /\ events \in Nat /\ faults \in Nat
    /\ author \in {"us", "waived", "ext"}
    /\ base \in States
    /\ asked \in Plans
    /\ moved \in BOOLEAN
    /\ harm \in {"none", "raced", "blind"}

Init ==
    /\ native = [inc |-> 1, gen |-> 1, up |-> TRUE, dns |-> Initial]
    /\ journal = {} /\ scan = {}
    /\ phase = "none" /\ active = FALSE /\ live = NoLive
    /\ pc = "idle" /\ op = "none" /\ loc = NoLoc
    /\ nextLease = 1 /\ calls = 0 /\ events = 0 /\ faults = 0
    /\ author = "ext" /\ base = Initial /\ moved = FALSE /\ harm = "none"
    /\ asked = NoRecord.desired

-----------------------------------------------------------------------------
(***************************************************************************)
(* Building blocks of the steps.                                           *)
(***************************************************************************)
Clean == UNCHANGED faults

Fault == faults < MaxFaults /\ faults' = faults + 1

\* The call reports what cond says, or it fails.
FailsIf(cond) == (cond /\ Clean) \/ Fault

Call == pc = "idle" /\ calls < MaxCalls /\ calls' = calls + 1

Goto(label) == pc' = label /\ op' = op

Finish == pc' = "idle" /\ op' = "none" /\ loc' = NoLoc

Stay == UNCHANGED loc

NativeUnchanged == UNCHANGED <<native, author, base, moved, harm>>

\* The identity check of the resource the operation is bound to.
Same == ResourceStatus(native, loc.inc) = "Same"

Now == Snap(native)

\* A record in the journal says how to give the current state back.
Recorded == \E r \in journal : r.inc = native.inc /\ r.before.dns = native.dns

\* osdns writes the state s to the resource; the rest is history.
OsWrite(s) ==
    LET given == IF author = "ext" THEN native.dns ELSE base
    IN  /\ native' = Written(native, s)
        /\ base' = given
        /\ author' = IF s = given THEN "ext" ELSE IF author = "waived" THEN "waived" ELSE "us"
        /\ harm' = IF author # "ext" \/ Recorded THEN harm
                   ELSE IF Guard = "Unconditional" /\ moved /\ harm # "blind"
                   THEN "raced" ELSE "blind"
        /\ UNCHANGED moved

\* journal.write(r): ok says what the caller is told.
JournalWrite(r, ok) ==
    \/ ok  /\ Clean /\ journal' = Published(journal, r)
    \/ ~ok /\ Fault /\ journal' \in PublishedOrNot(journal, r)

\* journal.remove(lease).
JournalRemove(lease, ok) ==
    \/ ok  /\ Clean /\ journal' = Unlinked(journal, lease)
    \/ ~ok /\ Fault /\ journal' \in UnlinkedOrNot(journal, lease)

\* Mutant: the record's phase is taken for the live state.
PersistLiveByPhase(candidate, ok) ==
    JournalWrite(candidate, ok) /\ live' = LiveAs(candidate, candidate.phase, ~ok)

\* Mutant: a failed write is forgotten instead of left to a repair.
PersistLiveForgetful(candidate, ok) ==
    /\ JournalWrite(candidate, ok)
    /\ live' = LiveAs(candidate,
                      IF candidate.phase = "Applied" THEN "Committed" ELSE "Unmutated", FALSE)

\* persist_live: publish candidate; a failed write leaves a repair to do.
PersistLive(candidate, ok) ==
    /\ JournalWrite(candidate, ok)
    /\ live' = LiveAs(candidate,
                      IF candidate.phase = "Applied" THEN "Committed" ELSE "Unmutated", ~ok)

\* retain_compensation: keep the latest evidence, in memory and as Prepared.
RetainCompensation(ev, tgt, resume, ok) ==
    LET r == [live.rec EXCEPT !.phase = "Prepared", !.applied = ev, !.desired = resume.desired]
    IN  /\ JournalWrite(r, ok)
        /\ live' = LiveCompensating(r, ev, tgt, resume, ~ok)

\* LiveRecord::applied.
Applied == IF live.st = "Committed" /\ ~live.repair THEN live.rec.applied ELSE None

\* An abandoned state whose record is gone belongs to the host.
LeaseEnds ==
    /\ phase' = "none" /\ active' = FALSE /\ live' = NoLive
    /\ IF journal' = {} /\ (author = "waived" \/ op \in {"abandon", "discard"})
       THEN author' = "ext" /\ base' = native.dns
       ELSE UNCHANGED <<author, base>>

-----------------------------------------------------------------------------
(***************************************************************************)
(* mutate_and_verify: apply loc.plan over loc.exp, verify by read-back.    *)
(* A rejected write leaves nothing to undo; every later failure rolls back *)
(* with the evidence the backend issued (loc.ev), never with a fresh read. *)
(***************************************************************************)
Rejected ==
    /\ Goto("residue")
    /\ loc' = [loc EXCEPT !.res = "Unchanged"]

Rollback(evidence) ==
    /\ Goto("comp.status")
    /\ loc' = [loc EXCEPT !.ev = evidence, !.tgt = loc.exp, !.ret = "residue"]

MutBind ==
    /\ pc = "mut.bind"
    /\ \/ /\ Clean /\ Same /\ Stay
          /\ Goto(IF Guard = "CompareAndMutate" THEN "mut.cas" ELSE "mut.check")
       \/ FailsIf(~Same) /\ Rejected
    /\ UNCHANGED <<osVars, journal, leaseVars, scan, bounds, asked>>

\* Mutant: the native write does not compare with the expected state.
MutCasUncompared ==
    /\ pc = "mut.cas"
    /\ \/ FailsIf(~native.up) /\ NativeUnchanged /\ Rollback(None)
       \/ /\ native.up /\ OsWrite(MergeState(native.dns, loc.plan))
          /\ Clean /\ Goto("mut.status") /\ loc' = [loc EXCEPT !.ev = Snap(native')]
    /\ UNCHANGED <<journal, leaseVars, scan, bounds, asked>>

\* apply_guarded: comparison and write are one native operation.
MutCas ==
    /\ pc = "mut.cas"
    /\ \/ FailsIf(~native.up) /\ NativeUnchanged /\ Rollback(None)
       \/ Clean /\ native.up /\ Now # loc.exp /\ NativeUnchanged /\ Rejected
       \/ /\ native.up /\ Now = loc.exp
          /\ OsWrite(MergeState(native.dns, loc.plan))
          /\ \/ Clean /\ Goto("mut.status") /\ loc' = [loc EXCEPT !.ev = Snap(native')]
             \/ Fault /\ Rollback(Snap(native'))
    /\ UNCHANGED <<journal, leaseVars, scan, bounds, asked>>

\* Mutant: the check before an unconditional write only asks for presence.
MutCheckPresence ==
    /\ pc = "mut.check"
    /\ moved' = FALSE
    /\ \/ Clean /\ native.up /\ Goto("mut.recheck") /\ Stay
       \/ FailsIf(~native.up) /\ Rejected
    /\ UNCHANGED <<native, author, base, harm, journal, leaseVars, scan, bounds, asked>>

\* An unconditional backend is checked, then written.
MutCheck ==
    /\ pc = "mut.check"
    /\ moved' = FALSE
    /\ \/ Clean /\ native.up /\ Equivalent(loc.exp, Now) /\ Goto("mut.recheck") /\ Stay
       \/ FailsIf(~(native.up /\ Equivalent(loc.exp, Now))) /\ Rejected
    /\ UNCHANGED <<native, author, base, harm, journal, leaseVars, scan, bounds, asked>>

MutRecheck ==
    /\ pc = "mut.recheck"
    /\ \/ Clean /\ Same /\ Goto("mut.write") /\ Stay
       \/ FailsIf(~Same) /\ Rejected
    /\ UNCHANGED <<osVars, journal, leaseVars, scan, bounds, asked>>

MutWrite ==
    /\ pc = "mut.write"
    /\ \/ FailsIf(~native.up) /\ NativeUnchanged /\ Rollback(None)
       \/ /\ native.up /\ Fault /\ Rollback(None)
          /\ \E s \in PartialStates(native.dns, MergeState(native.dns, loc.plan)) : OsWrite(s)
       \/ /\ native.up /\ Clean
          /\ OsWrite(MergeState(native.dns, loc.plan))
          /\ Goto("mut.status") /\ loc' = [loc EXCEPT !.ev = None]
    /\ UNCHANGED <<journal, leaseVars, scan, bounds, asked>>

MutStatus ==
    /\ pc = "mut.status"
    /\ \/ Clean /\ Same /\ Goto("mut.readback") /\ Stay
       \/ FailsIf(~Same) /\ Rollback(loc.ev)
    /\ UNCHANGED <<osVars, journal, leaseVars, scan, bounds, asked>>

MutReadback ==
    /\ pc = "mut.readback"
    /\ \/ /\ Clean /\ native.up /\ MatchesDesired(native.dns, loc.plan)
          /\ Goto("mut.verify") /\ loc' = [loc EXCEPT !.cur = Now]
       \/ /\ FailsIf(~(native.up /\ MatchesDesired(native.dns, loc.plan)))
          /\ Rollback(loc.ev)
    /\ UNCHANGED <<osVars, journal, leaseVars, scan, bounds, asked>>

\* Mutant: the verification read stands in for the issued identity.
ProofByRead == loc.cur

\* What a verified mutation would persist: the issued identity, else the
\* verification read; None when a durable backend cannot name its mutation.
Proof ==
    IF Ownership = "Durable"
    THEN IF loc.ev = loc.cur THEN loc.ev ELSE None
    ELSE IF loc.ev # None THEN loc.ev ELSE loc.cur

\* The second status check and the identity check; success commits.
MutVerify ==
    /\ pc = "mut.verify"
    /\ \/ /\ Clean /\ Same /\ Proof # None
          /\ live' = LiveVerified(IF op = "apply" THEN loc.rec ELSE live.rec, Proof)
          /\ Goto("rv.start") /\ loc' = [loc EXCEPT !.then = "commit"]
       \/ /\ FailsIf(~(Same /\ Proof # None))
          /\ Rollback(loc.ev) /\ UNCHANGED live
    /\ UNCHANGED <<osVars, journal, phase, active, scan, bounds, asked>>

-----------------------------------------------------------------------------
(***************************************************************************)
(* compensate: bring the resource back to loc.tgt while loc.ev still names *)
(* its state. Its four callers continue where loc.ret says.                *)
(***************************************************************************)
CompOk(id) ==
    /\ Goto(CASE loc.ret = "residue" -> "residue"
              [] loc.ret = "resolve" -> "rv.resume"
              [] loc.ret = "restore" -> "rs.remove"
              [] OTHER               -> "rec.remove")
    /\ loc' = [loc EXCEPT !.id = id, !.res = "Restored"]

\* Mutant: a recovery whose rollback failed still removes its record.
CompErrSettles ==
    /\ Goto(CASE loc.ret = "residue" -> "residue"
              [] loc.ret = "resolve" -> "rv.retain"
              [] loc.ret = "restore" -> "rs.retain"
              [] OTHER               -> "rec.remove")
    /\ loc' = [loc EXCEPT !.res = "Pending"]

CompErr ==
    /\ Goto(CASE loc.ret = "residue" -> "residue"
              [] loc.ret = "resolve" -> "rv.retain"
              [] loc.ret = "restore" -> "rs.retain"
              [] OTHER               -> "rec.retain")
    /\ loc' = [loc EXCEPT !.res = "Pending"]

CompStatus ==
    /\ pc = "comp.status"
    /\ \/ Clean /\ Same /\ Goto("comp.read") /\ Stay
       \/ FailsIf(~Same) /\ CompErr
    /\ UNCHANGED <<osVars, journal, leaseVars, scan, bounds, asked>>

\* A state that already is the target needs no write and grants no identity.
CompRead ==
    /\ pc = "comp.read"
    /\ \/ FailsIf(~native.up) /\ CompErr
       \/ /\ Clean /\ native.up /\ Equivalent(Now, loc.tgt)
          /\ CompOk(IF loc.ev # None /\ OwnsCurrent(loc.ev, Now) THEN loc.ev
                    ELSE IF OwnsCurrent(loc.tgt, Now) THEN loc.tgt ELSE None)
       \/ /\ Clean /\ native.up /\ ~Equivalent(Now, loc.tgt)
          /\ IF loc.ev # None /\ OwnsCurrent(loc.ev, Now)
             THEN Goto("comp.bind") /\ Stay
             ELSE CompErr
    /\ UNCHANGED <<osVars, journal, leaseVars, scan, bounds, asked>>

CompBind ==
    /\ pc = "comp.bind"
    /\ \/ /\ Clean /\ Same /\ Stay
          /\ Goto(IF Guard = "CompareAndMutate" THEN "comp.cas" ELSE "comp.check")
       \/ FailsIf(~Same) /\ CompErr
    /\ UNCHANGED <<osVars, journal, leaseVars, scan, bounds, asked>>

\* restore_guarded.
CompCas ==
    /\ pc = "comp.cas"
    /\ \/ /\ FailsIf(~(native.up /\ Now = loc.ev))
          /\ NativeUnchanged /\ CompErr
       \/ /\ Clean /\ native.up /\ Now = loc.ev
          /\ OsWrite(loc.tgt.dns)
          /\ Goto("comp.reread") /\ loc' = [loc EXCEPT !.ev = Snap(native')]
    /\ UNCHANGED <<journal, leaseVars, scan, bounds, asked>>

CompCheck ==
    /\ pc = "comp.check"
    /\ moved' = FALSE
    /\ \/ Clean /\ native.up /\ OwnsCurrent(loc.ev, Now) /\ Goto("comp.recheck") /\ Stay
       \/ FailsIf(~(native.up /\ OwnsCurrent(loc.ev, Now))) /\ CompErr
    /\ UNCHANGED <<native, author, base, harm, journal, leaseVars, scan, bounds, asked>>

CompRecheck ==
    /\ pc = "comp.recheck"
    /\ \/ Clean /\ Same /\ Goto("comp.write") /\ Stay
       \/ FailsIf(~Same) /\ CompErr
    /\ UNCHANGED <<osVars, journal, leaseVars, scan, bounds, asked>>

CompWrite ==
    /\ pc = "comp.write"
    /\ \/ FailsIf(~native.up) /\ NativeUnchanged /\ CompErr
       \/ /\ native.up /\ Fault /\ CompErr
          /\ \E s \in PartialStates(native.dns, loc.tgt.dns) : OsWrite(s)
       \/ /\ native.up /\ Clean
          /\ OsWrite(loc.tgt.dns)
          /\ Goto("comp.reread") /\ loc' = [loc EXCEPT !.ev = None]
    /\ UNCHANGED <<journal, leaseVars, scan, bounds, asked>>

CompReread ==
    /\ pc = "comp.reread"
    /\ \/ Clean /\ native.up /\ Goto("comp.verify") /\ loc' = [loc EXCEPT !.cur = Now]
       \/ FailsIf(~native.up) /\ CompErr
    /\ UNCHANGED <<osVars, journal, leaseVars, scan, bounds, asked>>

CompVerify ==
    /\ pc = "comp.verify"
    /\ \/ /\ Clean /\ Same /\ Equivalent(loc.cur, loc.tgt)
          /\ CompOk(CASE loc.ev # None /\ OwnsCurrent(loc.ev, loc.cur)  -> loc.ev
                      [] loc.ev = None /\ Ownership = "BestEffort"      -> loc.cur
                      [] OTHER                                          -> None)
       \/ FailsIf(~(Same /\ Equivalent(loc.cur, loc.tgt))) /\ CompErr
    /\ UNCHANGED <<osVars, journal, leaseVars, scan, bounds, asked>>

-----------------------------------------------------------------------------
(***************************************************************************)
(* resolve_live: finish what an earlier attempt left open. Before anything *)
(* else an outstanding journal repair is written.                          *)
(***************************************************************************)
ResolveOk ==
    Goto(IF loc.then = "commit" THEN "done"
         ELSE CASE op = "update"    -> "up.read"
                [] op = "reconcile" -> "rc.first"
                [] OTHER            -> "rs.reread")

ResolveErr == Goto(IF op \in {"restore", "drop"} THEN "rs.fail" ELSE "done")

RvRepair ==
    /\ pc = "rv.start" /\ live.repair /\ Stay
    /\ \/ /\ JournalWrite(live.rec, TRUE)
          /\ live' = [live EXCEPT !.repair = FALSE] /\ Goto("rv.start")
       \/ JournalWrite(live.rec, FALSE) /\ ResolveErr /\ UNCHANGED live
    /\ UNCHANGED <<osVars, phase, active, scan, bounds, asked>>

\* A reconcile pass goes on over a Prepared intent that resolve_live refuses.
RvStart ==
    /\ pc = "rv.start" /\ ~live.repair /\ Clean
    /\ \/ live.st \in {"Committed", "Unmutated"} /\ ResolveOk /\ Stay
       \/ live.st = "Prepared" /\ Stay
          /\ IF op = "reconcile" THEN Goto("rc.first") ELSE ResolveErr
       \/ live.st = "Verified" /\ Stay
          /\ Goto(IF op \in {"restore", "drop"} THEN "rv.status" ELSE "rv.read")
       \/ /\ live.st = "Compensating" /\ Goto("comp.status")
          /\ loc' = [loc EXCEPT !.ev = live.ev, !.tgt = live.tgt, !.ret = "resolve"]
    /\ UNCHANGED <<osVars, journal, leaseVars, scan, bounds, asked>>

RvRead ==
    /\ pc = "rv.read"
    /\ \/ Clean /\ native.up /\ Goto("rv.status") /\ loc' = [loc EXCEPT !.cur = Now]
       \/ FailsIf(~native.up) /\ ResolveErr /\ Stay
    /\ UNCHANGED <<osVars, journal, leaseVars, scan, bounds, asked>>

RvStatus ==
    /\ pc = "rv.status" /\ Stay
    /\ \/ Clean /\ Same /\ OwnsCurrent(live.proof, loc.cur) /\ Goto("rv.write")
       \/ FailsIf(~(Same /\ OwnsCurrent(live.proof, loc.cur))) /\ ResolveErr
    /\ UNCHANGED <<osVars, journal, leaseVars, scan, bounds, asked>>

RvWrite ==
    LET r == [live.rec EXCEPT !.phase = "Applied", !.applied = live.proof]
    IN  /\ pc = "rv.write" /\ Stay
        /\ \/ JournalWrite(r, TRUE) /\ live' = LiveAs(r, "Committed", FALSE) /\ ResolveOk
           \/ JournalWrite(r, FALSE) /\ UNCHANGED live /\ ResolveErr
        /\ UNCHANGED <<osVars, phase, active, scan, bounds, asked>>

\* The compensation succeeded: resume the record it interrupted, under the
\* identity the restored state has now.
Resumed(r, id) ==
    IF r.phase = "Applied"
    THEN [r EXCEPT !.applied = id, !.phase = IF id = None THEN "Prepared" ELSE "Applied"]
    ELSE r

RvResume ==
    /\ pc = "rv.resume" /\ Stay
    /\ \/ PersistLive(Resumed(live.resume, loc.id), TRUE) /\ ResolveOk
       \/ PersistLive(Resumed(live.resume, loc.id), FALSE) /\ ResolveErr
    /\ UNCHANGED <<osVars, phase, active, scan, bounds, asked>>

RvRetain ==
    /\ pc = "rv.retain" /\ Stay /\ ResolveErr
    /\ \E ok \in BOOLEAN : RetainCompensation(loc.ev, loc.tgt, live.resume, ok)
    /\ UNCHANGED <<osVars, phase, active, scan, bounds, asked>>

\* The end of a call. A lease exists once its mutation is verified, even when
\* the journal could not be finalized.
Done ==
    /\ pc = "done" /\ Clean /\ Finish
    /\ IF op = "apply" THEN phase' = "active" /\ active' = TRUE
                       ELSE UNCHANGED <<phase, active>>
    /\ asked' = IF op = "apply" \/ (op = "update" /\ live.st = "Committed")
                THEN loc.plan ELSE asked
    /\ UNCHANGED <<osVars, journal, live, scan, bounds>>

-----------------------------------------------------------------------------
\* Mutant: apply does not recover the stale record it finds.
ApplyStartUnrecovered(plan) ==
    /\ Call /\ phase = "none" /\ Readable(journal)
    /\ op' = "apply" /\ pc' = "ap.observe" /\ loc' = [NoLoc EXCEPT !.plan = plan]
    /\ Clean
    /\ UNCHANGED <<osVars, journal, leaseVars, scan, nextLease, events, asked>>

(***************************************************************************)
(* DnsManager::apply. A stale record of the resource is recovered first    *)
(* (below), then the observed state becomes the record's before.           *)
(***************************************************************************)
ApplyStart(plan) ==
    /\ Call /\ phase = "none" /\ Readable(journal)
    /\ op' = "apply"
    /\ \/ journal = {} /\ pc' = "ap.observe" /\ loc' = [NoLoc EXCEPT !.plan = plan]
       \/ \E r \in journal :
             pc' = "rec.status" /\ loc' = [NoLoc EXCEPT !.plan = plan, !.rec = r, !.inc = r.inc]
    /\ Clean
    /\ UNCHANGED <<osVars, journal, leaseVars, scan, nextLease, events, asked>>

\* The record of a new transaction: a state that already matches is Applied.
NewRecord(plan) ==
    LET noop == MatchesDesired(native.dns, plan)
    IN  [lease |-> nextLease, inc |-> native.inc, before |-> Now, desired |-> plan,
         phase |-> IF noop THEN "Applied" ELSE "Prepared",
         applied |-> IF noop THEN Now ELSE None]

ApObserve ==
    /\ pc = "ap.observe"
    /\ \/ /\ Clean /\ native.up /\ Goto("ap.persist")
          /\ nextLease' = nextLease + 1
          /\ loc' = [loc EXCEPT !.rec = NewRecord(loc.plan), !.inc = native.inc, !.exp = Now]
       \/ FailsIf(~native.up) /\ Finish /\ UNCHANGED nextLease
    /\ UNCHANGED <<osVars, journal, leaseVars, scan, calls, events, asked>>

ApPersist ==
    /\ pc = "ap.persist" /\ Stay
    /\ \/ /\ JournalWrite(loc.rec, TRUE)
          /\ IF loc.rec.phase = "Applied"
             THEN live' = LiveAs(loc.rec, "Committed", FALSE) /\ Goto("done")
             ELSE UNCHANGED live /\ Goto("mut.bind")
       \/ JournalWrite(loc.rec, FALSE) /\ UNCHANGED live /\ Goto("ap.unpersist")
    /\ UNCHANGED <<osVars, phase, active, scan, bounds, asked>>

\* Nothing was mutated: the possibly published intent is withdrawn.
ApUnpersist ==
    /\ pc = "ap.unpersist" /\ Finish
    /\ \E ok \in BOOLEAN : JournalRemove(loc.rec.lease, ok)
    /\ UNCHANGED <<osVars, leaseVars, scan, bounds, asked>>

\* After a failed mutation the intent goes only if the resource reads as before.
ApResidue ==
    /\ pc = "residue" /\ op = "apply" /\ loc.res # "Pending"
    /\ \/ Clean /\ native.up /\ Equivalent(Now, loc.rec.before) /\ Goto("ap.remove") /\ Stay
       \/ FailsIf(~(native.up /\ Equivalent(Now, loc.rec.before))) /\ Finish
    /\ UNCHANGED <<osVars, journal, leaseVars, scan, bounds, asked>>

ApRemove ==
    /\ pc = "ap.remove" /\ Finish
    /\ \E ok \in BOOLEAN : JournalRemove(loc.rec.lease, ok)
    /\ UNCHANGED <<osVars, leaseVars, scan, bounds, asked>>

ApRetain ==
    /\ pc = "residue" /\ op = "apply" /\ loc.res = "Pending" /\ Finish
    /\ \E ok \in BOOLEAN : JournalWrite([loc.rec EXCEPT !.applied = loc.ev], ok)
    /\ UNCHANGED <<osVars, leaseVars, scan, bounds, asked>>

-----------------------------------------------------------------------------
(***************************************************************************)
(* Lease::update and transact_update.                                      *)
(***************************************************************************)
UpdateStart(plan) ==
    /\ Call /\ phase = "active" /\ active
    /\ ResourceStatus(native, live.rec.inc) = "Same"
    /\ op' = "update" /\ pc' = "rv.start"
    /\ loc' = [NoLoc EXCEPT !.plan = plan, !.inc = live.rec.inc]
    /\ Clean
    /\ UNCHANGED <<osVars, journal, leaseVars, scan, nextLease, events, asked>>

\* Ownership is proved, and an update that changes nothing ends, before any write.
UpRead ==
    LET owned == Applied # None /\ native.up /\ OwnsCurrent(Applied, Now)
        noop  == MatchesDesired(Applied.dns, loc.plan)
    IN  /\ pc = "up.read"
        /\ \/ /\ Clean /\ owned /\ ~noop /\ Goto("up.prepare") /\ UNCHANGED asked
              /\ loc' = [loc EXCEPT !.exp = Applied, !.rec = live.rec]
           \/ Clean /\ owned /\ noop /\ Finish /\ asked' = loc.plan
           \/ FailsIf(~owned) /\ Finish /\ UNCHANGED asked
        /\ UNCHANGED <<osVars, journal, leaseVars, scan, bounds>>

\* Mutant: the new intent takes the applied state for the one to give back.
UpPrepareRebased ==
    LET r == [live.rec EXCEPT !.desired = loc.plan, !.phase = "Prepared", !.before = loc.exp]
    IN  /\ pc = "up.prepare" /\ Stay
        /\ \/ JournalWrite(r, TRUE) /\ live' = LiveAs(r, "Prepared", FALSE) /\ Goto("mut.bind")
           \/ JournalWrite(r, FALSE) /\ live' = LiveAs(r, "Unmutated", FALSE) /\ Goto("up.unprepare")
        /\ UNCHANGED <<osVars, phase, active, scan, bounds, asked>>

\* The new intent is durable, with the old applied state, before the mutation.
UpPrepare ==
    LET r == [live.rec EXCEPT !.desired = loc.plan, !.phase = "Prepared"]
    IN  /\ pc = "up.prepare" /\ Stay
        /\ \/ JournalWrite(r, TRUE) /\ live' = LiveAs(r, "Prepared", FALSE) /\ Goto("mut.bind")
           \/ JournalWrite(r, FALSE) /\ live' = LiveAs(r, "Unmutated", FALSE) /\ Goto("up.unprepare")
        /\ UNCHANGED <<osVars, phase, active, scan, bounds, asked>>

UpUnprepare ==
    /\ pc = "up.unprepare" /\ Finish
    /\ \E ok \in BOOLEAN : PersistLive(loc.rec, ok)
    /\ UNCHANGED <<osVars, phase, active, scan, bounds, asked>>

\* A failed update puts the old record back, unless its rollback is pending.
UpResidue ==
    /\ pc = "residue" /\ op = "update" /\ Finish
    /\ \E ok \in BOOLEAN :
          \/ loc.res = "Pending"   /\ RetainCompensation(loc.ev, loc.tgt, loc.rec, ok)
          \/ loc.res = "Restored"  /\ PersistLive(Resumed(loc.rec, loc.id), ok)
          \/ loc.res = "Unchanged" /\ PersistLive(loc.rec, ok)
    /\ UNCHANGED <<osVars, phase, active, scan, bounds, asked>>

-----------------------------------------------------------------------------
(***************************************************************************)
(* Lease::restore and Drop: restore_live_state, compare before restore.    *)
(* A failed restore leaves the lease to its caller, a drop ends it anyway. *)
(***************************************************************************)
RestoreStart(how) ==
    /\ Call /\ phase # "none"
    /\ how = "drop" => phase # "abandoning"
    /\ op' = how /\ pc' = "rs.status"
    /\ loc' = [NoLoc EXCEPT !.inc = live.rec.inc]
    /\ active' = FALSE
    /\ Clean
    /\ UNCHANGED <<osVars, journal, phase, live, scan, nextLease, events, asked>>

RsStatus ==
    /\ pc = "rs.status" /\ Stay
    /\ \/ Clean /\ Goto(IF Same THEN "rs.read" ELSE "rs.remove")
       \/ Fault /\ Goto("rs.fail")
    /\ UNCHANGED <<osVars, journal, leaseVars, scan, bounds, asked>>

\* The current state is ours by its applied identity: undo it down to before.
\* The attempt is on the live record before the backend is called.
RsCompare ==
    IF Applied # None /\ OwnsCurrent(Applied, Now)
    THEN /\ Goto("comp.status")
         /\ loc' = [loc EXCEPT !.ev = Applied, !.tgt = live.rec.before, !.ret = "restore"]
         /\ live' = LiveCompensating(live.rec, Applied, live.rec.before,
                       [live.rec EXCEPT !.phase = "Prepared", !.applied = None], FALSE)
    ELSE Goto("rs.fail") /\ Stay /\ UNCHANGED live

RsRead ==
    /\ pc = "rs.read"
    /\ \/ Fault /\ Goto("rs.fail") /\ Stay /\ UNCHANGED live
       \/ /\ Clean /\ (~native.up \/ Equivalent(Now, live.rec.before))
          /\ Goto("rs.remove") /\ Stay /\ UNCHANGED live
       \/ /\ Clean /\ native.up /\ ~Equivalent(Now, live.rec.before)
          /\ IF live.st = "Committed" /\ ~live.repair
             THEN RsCompare
             ELSE Goto("rv.start") /\ loc' = [loc EXCEPT !.cur = Now] /\ UNCHANGED live
    /\ UNCHANGED <<osVars, journal, phase, active, scan, bounds, asked>>

\* Resolving took time: the state is read again before it is compared.
RsReread ==
    /\ pc = "rs.reread"
    /\ \/ FailsIf(~native.up) /\ Goto("rs.fail") /\ Stay /\ UNCHANGED live
       \/ /\ Clean /\ native.up /\ Equivalent(Now, live.rec.before)
          /\ Goto("rs.remove") /\ Stay /\ UNCHANGED live
       \/ Clean /\ native.up /\ ~Equivalent(Now, live.rec.before) /\ RsCompare
    /\ UNCHANGED <<osVars, journal, phase, active, scan, bounds, asked>>

RsRetain ==
    /\ pc = "rs.retain" /\ Stay /\ Goto("rs.fail")
    /\ \E ok \in BOOLEAN : RetainCompensation(loc.ev, loc.tgt, live.resume, ok)
    /\ UNCHANGED <<osVars, phase, active, scan, bounds, asked>>

RsRemove ==
    /\ pc = "rs.remove"
    /\ \/ JournalRemove(live.rec.lease, TRUE) /\ LeaseEnds /\ Finish
       \/ /\ JournalRemove(live.rec.lease, FALSE) /\ Goto("rs.fail") /\ Stay
          /\ live' = IF loc.ret = "restore" THEN [live EXCEPT !.ev = loc.ev] ELSE live
          /\ UNCHANGED <<phase, active, author, base>>
    /\ UNCHANGED <<native, moved, harm, scan, bounds, asked>>

RsFail ==
    /\ pc = "rs.fail" /\ Finish /\ Clean
    /\ UNCHANGED journal
    /\ \/ op = "restore" /\ phase' = "restoring" /\ UNCHANGED <<active, live, author, base>>
       \/ op = "drop" /\ LeaseEnds
    /\ UNCHANGED <<native, moved, harm, scan, bounds, asked>>

-----------------------------------------------------------------------------
(***************************************************************************)
(* Lease::abandon, the drop of a lease whose abandon failed, and           *)
(* DnsManager::abandon_journal ("discard"): the claim goes, the resource   *)
(* stays as it is and belongs to the host from then on.                    *)
(***************************************************************************)
AbandonStart(how) ==
    /\ Call
    /\ \/ how = "abandon" /\ phase # "none"
       \/ how = "drop" /\ phase = "abandoning"
       \/ how = "discard" /\ phase = "none" /\ Readable(journal) /\ journal # {}
    /\ op' = how /\ pc' = "ab.remove"
    /\ IF how = "discard" THEN \E r \in journal : loc' = [NoLoc EXCEPT !.rec = r]
                          ELSE loc' = [NoLoc EXCEPT !.rec = live.rec]
    /\ active' = FALSE
    /\ Clean
    /\ UNCHANGED <<osVars, journal, phase, live, scan, nextLease, events, asked>>

AbRemove ==
    /\ pc = "ab.remove" /\ Finish
    /\ \E ok \in BOOLEAN :
          /\ JournalRemove(loc.rec.lease, ok)
          /\ IF ok \/ op # "abandon" THEN LeaseEnds
             ELSE /\ phase' = "abandoning"
                  /\ author' = IF author = "us" THEN "waived" ELSE author
                  /\ UNCHANGED <<active, live, base>>
    /\ UNCHANGED <<native, moved, harm, scan, bounds, asked>>

-----------------------------------------------------------------------------
(***************************************************************************)
(* Enforce: one reconcile pass over the resource.                          *)
(***************************************************************************)
ReconcileStart ==
    /\ Enforce /\ pc = "idle" /\ phase = "active" /\ active
    /\ op' = "reconcile"
    /\ pc' = IF ResourceStatus(native, live.rec.inc) = "Same" THEN "rv.start" ELSE "rc.forget"
    /\ loc' = [NoLoc EXCEPT !.inc = live.rec.inc, !.plan = live.rec.desired]
    /\ Clean
    /\ UNCHANGED <<osVars, journal, leaseVars, scan, bounds, asked>>

\* The incarnation is gone: nothing is left to own.
RcForget ==
    /\ pc = "rc.forget" /\ Finish
    /\ \/ JournalRemove(live.rec.lease, TRUE) /\ active' = FALSE
       \/ JournalRemove(live.rec.lease, FALSE) /\ UNCHANGED active
    /\ UNCHANGED <<osVars, phase, live, scan, bounds, asked>>

RcFirst ==
    /\ pc = "rc.first"
    /\ \/ Clean /\ native.up /\ Goto("rc.second") /\ loc' = [loc EXCEPT !.cur = Now]
       \/ Clean /\ ~native.up /\ Goto("rc.forget") /\ Stay
       \/ Fault /\ Finish
    /\ UNCHANGED <<osVars, journal, leaseVars, scan, bounds, asked>>

\* The base the lease's overlay goes onto when the state is stable: the old
\* one over our own or the original state, the current one after a foreign
\* change. (The circuit breaker only delays a rebase; it is left out here.)
OverlayBefore ==
    LET original == Equivalent(Now, live.rec.before)
        owned    == Applied # None /\ OwnsCurrent(Applied, Now)
    IN  IF (live.st = "Prepared" /\ ~original) \/ MatchesDesired(native.dns, live.rec.desired)
        THEN {}
        ELSE IF owned \/ original THEN {live.rec.before} ELSE {Now}

RcSecond ==
    /\ pc = "rc.second"
    /\ \/ Clean /\ ~native.up /\ Goto("rc.forget") /\ Stay
       \/ /\ Clean /\ native.up /\ Equivalent(loc.cur, Now)
          /\ \E before \in OverlayBefore :
                loc' = [loc EXCEPT !.exp = Now,
                           !.rec = [live.rec EXCEPT !.before = before, !.phase = "Prepared",
                                                    !.applied = None]]
          /\ Goto("rc.prepare")
       \/ /\ FailsIf(native.up /\ (~Equivalent(loc.cur, Now) \/ OverlayBefore = {}))
          /\ Finish
    /\ UNCHANGED <<osVars, journal, leaseVars, scan, bounds, asked>>

RcPrepare ==
    /\ pc = "rc.prepare" /\ Stay
    /\ \/ /\ JournalWrite(loc.rec, TRUE)
          /\ live' = LiveAs(loc.rec, "Prepared", FALSE) /\ Goto("mut.bind")
       \/ JournalWrite(loc.rec, FALSE) /\ UNCHANGED live /\ Goto("rc.unprepare")
    /\ UNCHANGED <<osVars, phase, active, scan, bounds, asked>>

\* Mutant: a failed write-back of the old intent leaves no repair.
RcUnprepareForgetful ==
    /\ pc = "rc.unprepare" /\ Finish
    /\ \E ok \in BOOLEAN : JournalWrite(live.rec, ok) /\ UNCHANGED live
    /\ UNCHANGED <<osVars, phase, active, scan, bounds, asked>>

\* prepare_live failed: the old intent is written back, or left to a repair.
RcUnprepare ==
    /\ pc = "rc.unprepare" /\ Finish
    /\ \E ok \in BOOLEAN :
          JournalWrite(live.rec, ok) /\ live' = [live EXCEPT !.repair = ~ok]
    /\ UNCHANGED <<osVars, phase, active, scan, bounds, asked>>

\* Mutant: a failed pass leaves the intent Prepared, which only the original
\* state reopens.
RcResiduePrepared ==
    /\ pc = "residue" /\ op = "reconcile" /\ Finish /\ Clean
    /\ live' = IF loc.res = "Pending"
               THEN LiveCompensating(live.rec, loc.ev, loc.tgt, loc.rec, FALSE)
               ELSE LiveAs(live.rec, "Prepared", FALSE)
    /\ UNCHANGED <<osVars, journal, phase, active, scan, bounds, asked>>

\* A pending rollback stays in memory, the journal keeps the bare intent.
RcResidue ==
    /\ pc = "residue" /\ op = "reconcile" /\ Finish /\ Clean
    /\ live' = IF loc.res = "Pending"
               THEN LiveCompensating(live.rec, loc.ev, loc.tgt, loc.rec, FALSE)
               ELSE LiveAs(live.rec, "Unmutated", FALSE)
    /\ UNCHANGED <<osVars, journal, phase, active, scan, bounds, asked>>

-----------------------------------------------------------------------------
(***************************************************************************)
(* recover_stale and recover_record, which apply also runs over the record *)
(* it finds. Only published evidence authorizes a restore.                 *)
(***************************************************************************)
RecoverBegins(r) ==
    /\ op' = "recover" /\ pc' = "rec.status"
    /\ loc' = [NoLoc EXCEPT !.rec = r, !.inc = r.inc]

\* The journal is read before any lock is taken, by any process at any time.
RecoverScan ==
    /\ ScanBeforeLock /\ calls < MaxCalls /\ calls' = calls + 1
    /\ scan = {} /\ journal # {} /\ Readable(journal)
    /\ scan' = journal
    /\ UNCHANGED <<osVars, journal, leaseVars, pc, op, loc, nextLease, events, faults, asked>>

\* Mutant: a resource that is Busy is recovered all the same.
RecoverLockBusy ==
    /\ pc = "idle" /\ scan # {} /\ Clean /\ scan' = {}
    /\ \E r \in scan : RecoverBegins(r)
    /\ UNCHANGED <<osVars, journal, leaseVars, bounds, asked>>

\* try_acquire: a resource with a lease is Busy and its record is skipped.
RecoverLock ==
    /\ pc = "idle" /\ scan # {} /\ Clean /\ scan' = {}
    /\ IF phase = "none" THEN \E r \in scan : RecoverBegins(r)
                         ELSE UNCHANGED <<pc, op, loc>>
    /\ UNCHANGED <<osVars, journal, leaseVars, bounds, asked>>

\* Nobody else touched the resource between the scan and the lock.
RecoverNow ==
    /\ ~ScanBeforeLock /\ Call /\ phase = "none" /\ Readable(journal)
    /\ \E r \in journal : RecoverBegins(r)
    /\ Clean
    /\ UNCHANGED <<osVars, journal, leaseVars, scan, nextLease, events, asked>>

RecStatus ==
    /\ pc = "rec.status"
    /\ \/ Clean /\ Goto(IF Same THEN "rec.capture" ELSE "rec.remove") /\ Stay
       \/ Fault /\ Finish
    /\ UNCHANGED <<osVars, journal, leaseVars, scan, bounds, asked>>

\* Anything that is neither ours nor the original is a conflict and is kept.
RecCapture ==
    LET original == native.up /\ Equivalent(Now, loc.rec.before)
        owned    == native.up /\ loc.rec.applied # None /\ OwnsCurrent(loc.rec.applied, Now)
    IN  /\ pc = "rec.capture"
        /\ \/ Clean /\ (~native.up \/ original) /\ Goto("rec.remove") /\ Stay
           \/ /\ Clean /\ ~original /\ owned /\ Goto("comp.status")
              /\ loc' = [loc EXCEPT !.ev = loc.rec.applied, !.tgt = loc.rec.before,
                                    !.ret = "recover"]
           \/ FailsIf(native.up /\ ~original /\ ~owned) /\ Finish
        /\ UNCHANGED <<osVars, journal, leaseVars, scan, bounds, asked>>

\* Mutant: apply goes on when the settled record could not be removed.
RecRemoveUnchecked ==
    /\ pc = "rec.remove"
    /\ \E ok \in BOOLEAN : JournalRemove(loc.rec.lease, ok)
    /\ IF op = "apply"
       THEN Goto("ap.observe") /\ loc' = [NoLoc EXCEPT !.plan = loc.plan]
       ELSE Finish
    /\ UNCHANGED <<osVars, leaseVars, scan, bounds, asked>>

\* The claim is settled: recover_stale reports it, apply goes on.
RecRemove ==
    /\ pc = "rec.remove"
    /\ \/ /\ JournalRemove(loc.rec.lease, TRUE)
          /\ IF op = "apply"
             THEN Goto("ap.observe") /\ loc' = [NoLoc EXCEPT !.plan = loc.plan]
             ELSE Finish
       \/ JournalRemove(loc.rec.lease, FALSE) /\ Finish
    /\ UNCHANGED <<osVars, leaseVars, scan, bounds, asked>>

RecRetain ==
    /\ pc = "rec.retain" /\ Finish
    /\ \E ok \in BOOLEAN :
          JournalWrite([loc.rec EXCEPT !.phase = "Prepared", !.applied = loc.ev], ok)
    /\ UNCHANGED <<osVars, leaseVars, scan, bounds, asked>>

-----------------------------------------------------------------------------
(***************************************************************************)
(* The environment: other programs act on the resource, the process dies.  *)
(***************************************************************************)
Event == events < MaxEvents /\ events' = events + 1 /\ moved' = TRUE

EnvUnchanged ==
    UNCHANGED <<harm, journal, leaseVars, pc, op, loc, scan, nextLease, calls, faults, asked>>

ExternalChange(s) ==
    /\ Event /\ native.up
    /\ native' = Written(native, s)
    /\ author' = "ext" /\ base' = s
    /\ EnvUnchanged

ExternalRemoval ==
    /\ Event /\ native.up
    /\ native' = [native EXCEPT !.up = FALSE]
    /\ author' = "ext" /\ base' = native.dns
    /\ EnvUnchanged

ExternalReplacement(s) ==
    /\ Event
    /\ native' = Replacement(native, s)
    /\ author' = "ext" /\ base' = s
    /\ EnvUnchanged

\* Locks and live records die with the process; the journal does not.
Crash ==
    /\ pc # "idle" \/ phase # "none"
    /\ Fault /\ Finish /\ UNCHANGED journal /\ LeaseEnds
    /\ UNCHANGED <<native, moved, harm, scan, bounds, asked>>

-----------------------------------------------------------------------------
Calls ==
    \/ \E plan \in Plans : ApplyStart(plan) \/ UpdateStart(plan)
    \/ \E how \in {"restore", "drop"} : RestoreStart(how)
    \/ \E how \in {"abandon", "drop", "discard"} : AbandonStart(how)
    \/ RecoverScan \/ RecoverNow

Mutating ==
    \/ MutBind \/ MutCas \/ MutCheck \/ MutRecheck \/ MutWrite
    \/ MutStatus \/ MutReadback \/ MutVerify

Compensating ==
    \/ CompStatus \/ CompRead \/ CompBind \/ CompCas \/ CompCheck \/ CompRecheck
    \/ CompWrite \/ CompReread \/ CompVerify

Resolving ==
    \/ RvRepair \/ RvStart \/ RvRead \/ RvStatus \/ RvWrite \/ RvResume \/ RvRetain

Leasing ==
    \/ ApObserve \/ ApPersist \/ ApUnpersist \/ ApResidue \/ ApRemove \/ ApRetain \/ Done
    \/ UpRead \/ UpPrepare \/ UpUnprepare \/ UpResidue
    \/ RsStatus \/ RsRead \/ RsReread \/ RsRetain \/ RsRemove \/ RsFail \/ AbRemove

Reconciling ==
    \/ RcForget \/ RcFirst \/ RcSecond \/ RcPrepare \/ RcUnprepare \/ RcResidue

Recovering == RecoverLock \/ RecStatus \/ RecCapture \/ RecRemove \/ RecRetain

\* The steps of a call in progress.
Step == Mutating \/ Compensating \/ Resolving \/ Leasing \/ Reconciling \/ Recovering

Environment ==
    \/ \E s \in Foreign : ExternalChange(s) \/ ExternalReplacement(s)
    \/ ExternalRemoval
    \/ Crash

Next == Calls \/ ReconcileStart \/ Step \/ Environment

Spec == Init /\ [][Next]_vars

\* A call in progress goes on; the reconciler's worker retries for ever.
FairSpec == Spec /\ WF_vars(Step) /\ WF_vars(ReconcileStart)

-----------------------------------------------------------------------------
(***************************************************************************)
(* Properties.                                                             *)
(***************************************************************************)

(***************************************************************************)
(* mutate_and_verify, compensate and recover_record never overwrite a      *)
(* state that osdns neither wrote itself nor recorded durably as the state *)
(* to give back. A compare-and-mutate backend never does it at all; an     *)
(* unconditional one only when another program acts between the last check *)
(* of apply_bound or restore_bound and its write.                          *)
(***************************************************************************)
NoClobber == harm # "blind" /\ (Guard = "CompareAndMutate" => harm = "none")

(***************************************************************************)
(* While a state of ours that nobody abandoned is in effect, some journal  *)
(* record of the same incarnation names the state to give back: a crash at *)
(* any point of apply, update, restore, reconcile or recovery, an          *)
(* ambiguous journal publication or a failed rollback never loses the      *)
(* original, and no call that removes the record leaves our state behind.  *)
(***************************************************************************)
Recoverable ==
    author = "us" /\ harm = "none" =>
        \E r \in journal : r.inc = native.inc /\ r.before.dns = base

(***************************************************************************)
(* The journal never holds two records for the resource; records() would   *)
(* report it as corrupt and every later apply and recovery would fail.     *)
(***************************************************************************)
SingleClaim == Readable(journal)

(***************************************************************************)
(* A durable identity, published or live, names the current state only if  *)
(* osdns wrote that state or the state is the record's own original: the   *)
(* evidence that authorizes a restore is never a read of someone else's    *)
(* write.                                                                  *)
(***************************************************************************)
EvidenceSound ==
    Ownership = "Durable" /\ native.up =>
        /\ \A r \in journal : r.applied = Now => author # "ext" \/ r.before.dns = native.dns
        /\ live.proof = Now => author # "ext" \/ live.rec.before.dns = native.dns
        /\ live.ev = Now => author # "ext" \/ live.rec.before.dns = native.dns

(***************************************************************************)
(* Between calls the journal is what the live lease believes it is: the    *)
(* live record, unless its publication is pending (Repair, or Verified and *)
(* not finalized). After any failed update or reconcile, a crash would     *)
(* recover from the same before and the same evidence as the lease.        *)
(***************************************************************************)
JournalMirrorsLease ==
    /\ pc = "idle" /\ phase = "active" /\ active
    /\ native.up /\ native.inc = live.rec.inc
    /\ ~live.repair /\ live.st # "Verified"
    => IF live.st = "Compensating"
       THEN \E r \in journal : r.lease = live.rec.lease /\ r.before = live.rec.before
       ELSE journal = {live.rec}

(***************************************************************************)
(* A reconcile pass writes the configuration the lease was last asked for  *)
(* (Lease::update returned Ok), over the state it found.                   *)
(***************************************************************************)
ReappliesLatest ==
    [][op = "reconcile" /\ pc \in {"mut.cas", "mut.write"} /\ pc' = "mut.status" =>
          native'.dns = MergeState(native.dns, asked)]_vars

Enforced ==
    phase = "active" /\ active /\ native.up /\ native.inc = live.rec.inc =>
        MatchesDesired(native.dns, live.rec.desired)

(***************************************************************************)
(* Under Enforce an external change of an active lease's resource is       *)
(* eventually reconciled: once other programs and failures pause, the      *)
(* desired configuration is in effect.                                     *)
(***************************************************************************)
EnforceReconciles == []<>Enforced

(***************************************************************************)
(* The same with the lease states in which resolve_live keeps refusing     *)
(* excepted: a verified mutation that was never finalized and a rollback   *)
(* that is still pending hold the reconciler off.                          *)
(***************************************************************************)
EnforceProgress == []<>(Enforced \/ live.st \in {"Verified", "Compensating"})

=============================================================================
