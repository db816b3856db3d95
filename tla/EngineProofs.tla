---------------------------- MODULE EngineProofs ----------------------------
(* Proofs about Engine, for any plans, foreign states, bounds, policy and *)
(* backend capabilities. *)
EXTENDS Engine, TLAPS

-----------------------------------------------------------------------------
(***************************************************************************)
(* The values the engine is built from have their types.                   *)
(***************************************************************************)
LEMMA NoneType == None \in Snapshots
BY BackendAssumption DEF None, Snapshots, States

LEMMA NoRecordType == NoRecord \in Records
<1>1. (CHOOSE p \in Plans : TRUE) \in Plans
  BY BackendAssumption
<1> QED BY <1>1, NoneType DEF NoRecord, Records, Phases

LEMMA NoLocType == NoLoc \in Locals
<1>1. NoRecord.desired \in Plans
  BY NoRecordType DEF Records
<1> QED BY <1>1, NoneType, NoRecordType DEF NoLoc, Locals

\* LiveRecord's constructors.
LEMMA LiveTypes ==
    ASSUME NEW r \in Records, NEW s \in LiveStates, NEW b \in BOOLEAN,
           NEW x \in Snapshots, NEW y \in Snapshots, NEW q \in Records
    PROVE  /\ LiveAs(r, s, b) \in LiveRecords
           /\ LiveVerified(r, x) \in LiveRecords
           /\ LiveCompensating(r, x, y, q, b) \in LiveRecords
<1>1. \A st \in LiveStates : LiveAs(r, st, b) \in LiveRecords /\ LiveAs(r, st, FALSE) \in LiveRecords
  BY NoneType, NoRecordType DEF LiveAs, LiveRecords
<1>2. LiveAs(r, "Verified", FALSE) \in LiveRecords /\ LiveAs(r, "Compensating", b) \in LiveRecords
  BY <1>1 DEF LiveStates
<1> QED BY <1>1, <1>2 DEF LiveVerified, LiveCompensating, LiveRecords

LEMMA NoLiveType == NoLive \in LiveRecords
BY LiveTypes, NoRecordType, NoneType DEF NoLive, LiveStates

\* States, snapshots and resources.
LEMMA BackendTypes ==
    ASSUME NEW n \in Resources, NEW s \in States, NEW plan \in Plans
    PROVE  /\ Snap(n) \in Snapshots
           /\ n.dns \in States /\ plan \in States
           /\ MergeState(s, plan) \in States
           /\ PartialStates(n.dns, s) \subseteq States
           /\ Written(n, s) \in Resources
           /\ Replacement(n, s) \in Resources
<1>1. plan \in States
  BY BackendAssumption
<1>2. MergeState(s, plan) \in States
  BY <1>1 DEF MergeState, States
<1>3. PartialStates(n.dns, s) \subseteq States
  BY DEF PartialStates, States, Resources
<1>4. n.gen \in Nat /\ n.inc \in Nat /\ n.gen + 1 \in Nat /\ n.inc + 1 \in Nat
  BY DEF Resources
<1>5. Written(n, s) \in Resources
  BY <1>4 DEF Written, Resources
<1>6. Replacement(n, s) \in Resources
  BY <1>4 DEF Replacement, Resources
<1> QED BY <1>1, <1>2, <1>3, <1>5, <1>6 DEF Snap, Snapshots, Resources

-----------------------------------------------------------------------------
(***************************************************************************)
(* Type correctness. TypeOK in five parts, so that a step proves only the  *)
(* parts it touches.                                                       *)
(***************************************************************************)
ControlOK == pc \in Labels /\ op \in Ops /\ loc \in Locals

HostOK ==
    /\ native \in Resources /\ author \in {"us", "waived", "ext"} /\ base \in States
    /\ moved \in BOOLEAN /\ harm \in {"none", "raced", "blind"}

LeaseOK ==
    phase \in {"none", "active", "restoring", "abandoning"} /\ active \in BOOLEAN /\ live \in LiveRecords

StoreOK == journal \subseteq Records /\ scan \subseteq Records /\ faults \in Nat

CountersOK == nextLease \in Nat /\ calls \in Nat /\ events \in Nat /\ asked \in Plans

LEMMA TypeParts == ControlOK' /\ HostOK' /\ LeaseOK' /\ StoreOK' /\ CountersOK' => TypeOK'
BY DEF TypeOK, ControlOK, HostOK, LeaseOK, StoreOK, CountersOK

\* The fields of the variables.
LEMMA FieldTypes ==
    ASSUME TypeOK
    PROVE  /\ loc.inc \in Nat /\ loc.plan \in Plans /\ loc.cur \in Snapshots
           /\ loc.exp \in Snapshots /\ loc.ev \in Snapshots /\ loc.tgt \in Snapshots
           /\ loc.id \in Snapshots /\ loc.rec \in Records
           /\ live.rec \in Records /\ live.st \in LiveStates /\ live.repair \in BOOLEAN
           /\ live.proof \in Snapshots /\ live.ev \in Snapshots /\ live.tgt \in Snapshots
           /\ live.resume \in Records
           /\ Now \in Snapshots /\ native.dns \in States /\ native.inc \in Nat
<1>1. loc \in Locals /\ live \in LiveRecords /\ native \in Resources
  BY DEF TypeOK
<1>2. Now \in Snapshots /\ native.dns \in States /\ native.inc \in Nat
  BY <1>1 DEF Now, Snap, Snapshots, Resources
<1> QED BY <1>1, <1>2 DEF Locals, LiveRecords

LEMMA RecordFields ==
    ASSUME NEW r \in Records
    PROVE  /\ r.lease \in Nat /\ r.inc \in Nat /\ r.phase \in Phases /\ r.before \in Snapshots
           /\ r.desired \in Plans /\ r.applied \in Snapshots
           /\ r.before.dns \in States /\ r.applied.dns \in States
BY DEF Records, Snapshots

\* The updates of the local variables.
LEMMA LocTypes ==
    ASSUME NEW l \in Locals
    PROVE  /\ [l EXCEPT !.res = "Unchanged"] \in Locals
           /\ [l EXCEPT !.res = "Pending"] \in Locals
           /\ [l EXCEPT !.then = "commit"] \in Locals
           /\ \A x \in Snapshots :
                 /\ [l EXCEPT !.ev = x] \in Locals
                 /\ [l EXCEPT !.cur = x] \in Locals
                 /\ [l EXCEPT !.id = x, !.res = "Restored"] \in Locals
           /\ \A n \in Nat : [l EXCEPT !.inc = n] \in Locals
           /\ \A r \in Records : [l EXCEPT !.rec = r] \in Locals
           /\ \A plan \in Plans : [l EXCEPT !.plan = plan] \in Locals
           /\ \A x \in Snapshots, r \in Records : [l EXCEPT !.exp = x, !.rec = r] \in Locals
           /\ \A r \in Records, n \in Nat : [l EXCEPT !.rec = r, !.inc = n] \in Locals
           /\ \A plan \in Plans, n \in Nat :
                 /\ [l EXCEPT !.plan = plan, !.inc = n] \in Locals
                 /\ [l EXCEPT !.inc = n, !.plan = plan] \in Locals
           /\ \A plan \in Plans, r \in Records, n \in Nat :
                 [l EXCEPT !.plan = plan, !.rec = r, !.inc = n] \in Locals
           /\ \A r \in Records, n \in Nat, x \in Snapshots :
                 [l EXCEPT !.rec = r, !.inc = n, !.exp = x] \in Locals
           /\ \A x, y \in Snapshots :
                 /\ [l EXCEPT !.ev = x, !.tgt = y, !.ret = "residue"] \in Locals
                 /\ [l EXCEPT !.ev = x, !.tgt = y, !.ret = "resolve"] \in Locals
                 /\ [l EXCEPT !.ev = x, !.tgt = y, !.ret = "restore"] \in Locals
                 /\ [l EXCEPT !.ev = x, !.tgt = y, !.ret = "recover"] \in Locals
BY DEF Locals

\* The records the operations publish.
LEMMA RecordTypes ==
    ASSUME NEW r \in Records, NEW x \in Snapshots
    PROVE  /\ [r EXCEPT !.applied = x] \in Records
           /\ [r EXCEPT !.phase = "Applied", !.applied = x] \in Records
           /\ [r EXCEPT !.phase = "Prepared", !.applied = x] \in Records
           /\ Resumed(r, x) \in Records
           /\ \A plan \in Plans :
                 /\ [r EXCEPT !.desired = plan, !.phase = "Prepared"] \in Records
                 /\ [r EXCEPT !.phase = "Prepared", !.applied = x, !.desired = plan] \in Records
           /\ \A y \in Snapshots :
                 [r EXCEPT !.before = y, !.phase = "Prepared", !.applied = x] \in Records
BY DEF Records, Phases, Resumed

\* The journal's operations.
LEMMA JournalWriteType ==
    ASSUME TypeOK, NEW r \in Records, NEW ok \in BOOLEAN, JournalWrite(r, ok), scan' = scan
    PROVE  StoreOK'
BY DEF TypeOK, StoreOK, JournalWrite, Published, PublishedOrNot, Clean, Fault

LEMMA JournalRemoveType ==
    ASSUME TypeOK, NEW l \in Nat, NEW ok \in BOOLEAN, JournalRemove(l, ok), scan' = scan
    PROVE  StoreOK'
BY DEF TypeOK, StoreOK, JournalRemove, Unlinked, UnlinkedOrNot, Clean, Fault

LEMMA PersistLiveType ==
    ASSUME TypeOK, NEW r \in Records, NEW ok \in BOOLEAN, PersistLive(r, ok), scan' = scan
    PROVE  StoreOK' /\ live' \in LiveRecords
<1>1. StoreOK'
  BY JournalWriteType DEF PersistLive
<1>2. LiveAs(r, "Committed", ~ok) \in LiveRecords /\ LiveAs(r, "Unmutated", ~ok) \in LiveRecords
  BY LiveTypes, NoneType, NoRecordType DEF LiveStates
<1> QED BY <1>1, <1>2 DEF PersistLive

LEMMA RetainCompensationType ==
    ASSUME TypeOK, NEW x \in Snapshots, NEW y \in Snapshots, NEW q \in Records, NEW ok \in BOOLEAN,
           RetainCompensation(x, y, q, ok), scan' = scan
    PROVE  StoreOK' /\ live' \in LiveRecords
<1> DEFINE r == [live.rec EXCEPT !.phase = "Prepared", !.applied = x, !.desired = q.desired]
<1>1. r \in Records
  BY FieldTypes, RecordFields, RecordTypes
<1>2. JournalWrite(r, ok) /\ live' = LiveCompensating(r, x, y, q, ~ok)
  BY DEF RetainCompensation
<1> HIDE DEF r
<1>3. StoreOK'
  BY <1>1, <1>2, JournalWriteType
<1>4. "Committed" \in LiveStates /\ (~ok) \in BOOLEAN
  BY DEF LiveStates
<1> QED BY <1>1, <1>2, <1>3, <1>4, LiveTypes

\* A write to the resource.
LEMMA OsWriteType ==
    ASSUME TypeOK, NEW s \in States, OsWrite(s)
    PROVE  HostOK'
<1>1. native' \in Resources
  BY BackendTypes, BackendAssumption DEF TypeOK, OsWrite
<1>2. base' \in States
  BY BackendTypes, BackendAssumption DEF TypeOK, OsWrite
<1> QED BY <1>1, <1>2 DEF TypeOK, HostOK, OsWrite

\* The ways a step hands over to the next one.
LEMMA Controls ==
    ASSUME TypeOK, NEW x \in Snapshots
    PROVE  /\ Rejected => ControlOK'
           /\ Rollback(x) => ControlOK'
           /\ CompOk(x) => ControlOK'
           /\ CompErr => ControlOK'
           /\ Finish => ControlOK'
           /\ ResolveOk /\ Stay => ControlOK'
           /\ ResolveErr /\ Stay => ControlOK'
<1>1. loc \in Locals /\ op \in Ops /\ loc.exp \in Snapshots /\ "none" \in Ops
  BY FieldTypes DEF TypeOK, Ops
<1>2. Rejected => ControlOK'
  BY <1>1, LocTypes DEF Rejected, Goto, ControlOK, Labels
<1>3. Rollback(x) => ControlOK'
  <2>1. [loc EXCEPT !.ev = x, !.tgt = loc.exp, !.ret = "residue"] \in Locals
    BY <1>1, LocTypes
  <2> QED BY <1>1, <2>1 DEF Rollback, Goto, ControlOK, Labels
<1>4. CompOk(x) => ControlOK'
  <2>1. [loc EXCEPT !.id = x, !.res = "Restored"] \in Locals
    BY <1>1, LocTypes
  <2> QED BY <1>1, <2>1 DEF CompOk, Goto, ControlOK, Labels
<1>5. CompErr => ControlOK'
  BY <1>1, LocTypes DEF CompErr, Goto, ControlOK, Labels
<1>6. Finish => ControlOK'
  BY <1>1, NoLocType DEF Finish, ControlOK, Labels
<1>7. (ResolveOk /\ Stay => ControlOK') /\ (ResolveErr /\ Stay => ControlOK')
  BY <1>1 DEF ResolveOk, ResolveErr, Stay, Goto, ControlOK, Labels
<1> QED BY <1>2, <1>3, <1>4, <1>5, <1>6, <1>7

LEMMA LeaseEndsType ==
    ASSUME TypeOK, LeaseEnds, UNCHANGED <<native, moved, harm>>
    PROVE  LeaseOK' /\ HostOK'
<1>1. LeaseOK'
  BY NoLiveType DEF LeaseEnds, LeaseOK
<1>2. HostOK'
  BY FieldTypes DEF TypeOK, LeaseEnds, HostOK
<1> QED BY <1>1, <1>2

LEMMA RsCompareType ==
    ASSUME TypeOK, RsCompare
    PROVE  ControlOK' /\ live' \in LiveRecords
<1>1. Applied \in Snapshots /\ live.rec.before \in Snapshots
  BY FieldTypes, RecordFields, NoneType DEF Applied
<1>2. [loc EXCEPT !.ev = Applied, !.tgt = live.rec.before, !.ret = "restore"] \in Locals
  BY <1>1, LocTypes DEF TypeOK
<1>3. ControlOK'
  BY <1>2 DEF RsCompare, Goto, Stay, Labels, ControlOK, TypeOK
<1> DEFINE q == [live.rec EXCEPT !.phase = "Prepared", !.applied = None]
<1>4. q \in Records
  BY FieldTypes, RecordTypes, NoneType
<1>5. LiveCompensating(live.rec, Applied, live.rec.before, q, FALSE) \in LiveRecords
  <2> HIDE DEF q
  <2>1. "Committed" \in LiveStates
    BY DEF LiveStates
  <2> QED BY <1>1, <1>4, <2>1, FieldTypes, LiveTypes
<1> QED BY <1>3, <1>5 DEF RsCompare, TypeOK

LEMMA MutatingType == TypeOK /\ Mutating => TypeOK'
<1> SUFFICES ASSUME TypeOK, Mutating PROVE TypeOK'
  OBVIOUS
<1>1. CASE MutBind
  <2>1. ControlOK'
    BY <1>1, Controls, FieldTypes DEF MutBind, Goto, Stay, Labels, ControlOK, TypeOK
  <2>2. HostOK' /\ LeaseOK' /\ StoreOK' /\ CountersOK'
    BY <1>1 DEF TypeOK, HostOK, LeaseOK, StoreOK, CountersOK, MutBind, osVars, leaseVars,
      bounds, Clean, Fault, FailsIf
  <2> QED BY <2>1, <2>2, TypeParts
<1>2. CASE MutCas
  <2>1. HostOK'
    <3>1. MergeState(native.dns, loc.plan) \in States
      BY FieldTypes, BackendTypes DEF TypeOK
    <3> QED BY <1>2, <3>1, OsWriteType DEF MutCas, NativeUnchanged, TypeOK, HostOK
  <2>2. ControlOK'
    <3>1. Snap(native') \in Snapshots
      BY <2>1 DEF HostOK, Snap, Snapshots, Resources
    <3>2. [loc EXCEPT !.ev = Snap(native')] \in Locals
      BY <3>1, LocTypes DEF TypeOK
    <3>3. Rollback(Snap(native')) => ControlOK'
      BY <3>1, Controls
    <3>4. Goto("mut.status") /\ loc' = [loc EXCEPT !.ev = Snap(native')] => ControlOK'
      BY <3>2 DEF TypeOK, ControlOK, Goto, Labels
    <3>5. (Rejected => ControlOK') /\ (Rollback(None) => ControlOK')
      BY Controls, NoneType
    <3> QED BY <1>2, <3>3, <3>4, <3>5 DEF MutCas
  <2>3. LeaseOK' /\ StoreOK' /\ CountersOK'
    BY <1>2 DEF TypeOK, LeaseOK, StoreOK, CountersOK, MutCas, leaseVars, bounds, Clean,
      Fault, FailsIf
  <2> QED BY <2>1, <2>2, <2>3, TypeParts
<1>3. CASE MutCheck
  <2>1. ControlOK'
    BY <1>3, Controls, FieldTypes DEF MutCheck, Goto, Stay, Labels, ControlOK, TypeOK
  <2>2. HostOK'
    BY <1>3 DEF TypeOK, HostOK, MutCheck
  <2>3. LeaseOK' /\ StoreOK' /\ CountersOK'
    BY <1>3 DEF TypeOK, LeaseOK, StoreOK, CountersOK, MutCheck, leaseVars, bounds, Clean,
      Fault, FailsIf
  <2> QED BY <2>1, <2>2, <2>3, TypeParts
<1>4. CASE MutRecheck
  <2>1. ControlOK'
    BY <1>4, Controls, FieldTypes DEF MutRecheck, Goto, Stay, Labels, ControlOK, TypeOK
  <2>2. HostOK' /\ LeaseOK' /\ StoreOK' /\ CountersOK'
    BY <1>4 DEF TypeOK, HostOK, LeaseOK, StoreOK, CountersOK, MutRecheck, osVars, leaseVars,
      bounds, Clean, Fault, FailsIf
  <2> QED BY <2>1, <2>2, TypeParts
<1>5. CASE MutWrite
  <2>1. HostOK'
    <3>1. MergeState(native.dns, loc.plan) \in States
      BY FieldTypes, BackendTypes DEF TypeOK
    <3>2. PartialStates(native.dns, MergeState(native.dns, loc.plan)) \subseteq States
      BY <3>1, BackendTypes, BackendAssumption DEF TypeOK
    <3> QED BY <1>5, <3>1, <3>2, OsWriteType DEF MutWrite, NativeUnchanged, TypeOK, HostOK
  <2>2. ControlOK'
    BY <1>5, Controls, FieldTypes, NoneType, LocTypes DEF MutWrite, Goto, Stay, Labels,
      ControlOK, TypeOK
  <2>3. LeaseOK' /\ StoreOK' /\ CountersOK'
    BY <1>5 DEF TypeOK, LeaseOK, StoreOK, CountersOK, MutWrite, leaseVars, bounds, Clean,
      Fault, FailsIf
  <2> QED BY <2>1, <2>2, <2>3, TypeParts
<1>6. CASE MutStatus
  <2>1. ControlOK'
    BY <1>6, Controls, FieldTypes DEF MutStatus, Goto, Stay, Labels, ControlOK, TypeOK
  <2>2. HostOK' /\ LeaseOK' /\ StoreOK' /\ CountersOK'
    BY <1>6 DEF TypeOK, HostOK, LeaseOK, StoreOK, CountersOK, MutStatus, osVars, leaseVars,
      bounds, Clean, Fault, FailsIf
  <2> QED BY <2>1, <2>2, TypeParts
<1>7. CASE MutReadback
  <2>1. ControlOK'
    BY <1>7, Controls, FieldTypes, LocTypes DEF MutReadback, Goto, Stay, Labels, ControlOK,
      TypeOK
  <2>2. HostOK' /\ LeaseOK' /\ StoreOK' /\ CountersOK'
    BY <1>7 DEF TypeOK, HostOK, LeaseOK, StoreOK, CountersOK, MutReadback, osVars,
      leaseVars, bounds, Clean, Fault, FailsIf
  <2> QED BY <2>1, <2>2, TypeParts
<1>8. CASE MutVerify
  <2>1. ControlOK'
    BY <1>8, Controls, FieldTypes, LocTypes DEF MutVerify, Goto, Stay, Labels, ControlOK,
      TypeOK
  <2>2. LeaseOK'
    BY <1>8, LiveTypes, FieldTypes, NoneType DEF TypeOK, LeaseOK, MutVerify, Proof,
      LiveStates
  <2>3. HostOK' /\ StoreOK' /\ CountersOK'
    BY <1>8 DEF TypeOK, HostOK, StoreOK, CountersOK, MutVerify, osVars, bounds, Clean,
      Fault, FailsIf
  <2> QED BY <2>1, <2>2, <2>3, TypeParts
<1> QED BY <1>1, <1>2, <1>3, <1>4, <1>5, <1>6, <1>7, <1>8 DEF Mutating

LEMMA CompensatingType == TypeOK /\ Compensating => TypeOK'
<1> SUFFICES ASSUME TypeOK, Compensating PROVE TypeOK'
  OBVIOUS
<1>1. CASE CompStatus
  <2>1. ControlOK'
    BY <1>1, Controls, FieldTypes DEF CompStatus, Goto, Stay, Labels, ControlOK, TypeOK
  <2>2. HostOK' /\ LeaseOK' /\ StoreOK' /\ CountersOK'
    BY <1>1 DEF TypeOK, HostOK, LeaseOK, StoreOK, CountersOK, CompStatus, osVars, leaseVars,
      bounds, Clean, Fault, FailsIf
  <2> QED BY <2>1, <2>2, TypeParts
<1>2. CASE CompRead
  <2>1. ControlOK'
    BY <1>2, Controls, FieldTypes, NoneType DEF CompRead, Goto, Stay, Labels, ControlOK,
      TypeOK
  <2>2. HostOK' /\ LeaseOK' /\ StoreOK' /\ CountersOK'
    BY <1>2 DEF TypeOK, HostOK, LeaseOK, StoreOK, CountersOK, CompRead, osVars, leaseVars,
      bounds, Clean, Fault, FailsIf
  <2> QED BY <2>1, <2>2, TypeParts
<1>3. CASE CompBind
  <2>1. ControlOK'
    BY <1>3, Controls, FieldTypes DEF CompBind, Goto, Stay, Labels, ControlOK, TypeOK
  <2>2. HostOK' /\ LeaseOK' /\ StoreOK' /\ CountersOK'
    BY <1>3 DEF TypeOK, HostOK, LeaseOK, StoreOK, CountersOK, CompBind, osVars, leaseVars,
      bounds, Clean, Fault, FailsIf
  <2> QED BY <2>1, <2>2, TypeParts
<1>4. CASE CompCas
  <2>1. HostOK'
    <3>1. loc.tgt.dns \in States
      BY FieldTypes DEF Snapshots
    <3> QED BY <1>4, <3>1, OsWriteType DEF CompCas, NativeUnchanged, TypeOK, HostOK
  <2>2. ControlOK'
    <3>1. Snap(native') \in Snapshots
      BY <2>1 DEF HostOK, Snap, Snapshots, Resources
    <3>2. [loc EXCEPT !.ev = Snap(native')] \in Locals
      BY <3>1, LocTypes DEF TypeOK
    <3>4. Goto("comp.reread") /\ loc' = [loc EXCEPT !.ev = Snap(native')] => ControlOK'
      BY <3>2 DEF TypeOK, ControlOK, Goto, Labels
    <3>5. CompErr => ControlOK'
      BY Controls, NoneType
    <3> QED BY <1>4, <3>4, <3>5 DEF CompCas
  <2>3. LeaseOK' /\ StoreOK' /\ CountersOK'
    BY <1>4 DEF TypeOK, LeaseOK, StoreOK, CountersOK, CompCas, leaseVars, bounds, Clean,
      Fault, FailsIf
  <2> QED BY <2>1, <2>2, <2>3, TypeParts
<1>5. CASE CompCheck
  <2>1. ControlOK'
    BY <1>5, Controls, FieldTypes DEF CompCheck, Goto, Stay, Labels, ControlOK, TypeOK
  <2>2. HostOK'
    BY <1>5 DEF TypeOK, HostOK, CompCheck
  <2>3. LeaseOK' /\ StoreOK' /\ CountersOK'
    BY <1>5 DEF TypeOK, LeaseOK, StoreOK, CountersOK, CompCheck, leaseVars, bounds, Clean,
      Fault, FailsIf
  <2> QED BY <2>1, <2>2, <2>3, TypeParts
<1>6. CASE CompRecheck
  <2>1. ControlOK'
    BY <1>6, Controls, FieldTypes DEF CompRecheck, Goto, Stay, Labels, ControlOK, TypeOK
  <2>2. HostOK' /\ LeaseOK' /\ StoreOK' /\ CountersOK'
    BY <1>6 DEF TypeOK, HostOK, LeaseOK, StoreOK, CountersOK, CompRecheck, osVars,
      leaseVars, bounds, Clean, Fault, FailsIf
  <2> QED BY <2>1, <2>2, TypeParts
<1>7. CASE CompWrite
  <2>1. HostOK'
    <3>1. loc.tgt.dns \in States
      BY FieldTypes DEF Snapshots
    <3>2. PartialStates(native.dns, loc.tgt.dns) \subseteq States
      BY <3>1, BackendTypes, BackendAssumption DEF TypeOK
    <3> QED BY <1>7, <3>1, <3>2, OsWriteType DEF CompWrite, NativeUnchanged, TypeOK, HostOK
  <2>2. ControlOK'
    BY <1>7, Controls, FieldTypes, NoneType, LocTypes DEF CompWrite, Goto, Stay, Labels,
      ControlOK, TypeOK
  <2>3. LeaseOK' /\ StoreOK' /\ CountersOK'
    BY <1>7 DEF TypeOK, LeaseOK, StoreOK, CountersOK, CompWrite, leaseVars, bounds, Clean,
      Fault, FailsIf
  <2> QED BY <2>1, <2>2, <2>3, TypeParts
<1>8. CASE CompReread
  <2>1. ControlOK'
    BY <1>8, Controls, FieldTypes, LocTypes DEF CompReread, Goto, Stay, Labels, ControlOK,
      TypeOK
  <2>2. HostOK' /\ LeaseOK' /\ StoreOK' /\ CountersOK'
    BY <1>8 DEF TypeOK, HostOK, LeaseOK, StoreOK, CountersOK, CompReread, osVars, leaseVars,
      bounds, Clean, Fault, FailsIf
  <2> QED BY <2>1, <2>2, TypeParts
<1>9. CASE CompVerify
  <2>1. ControlOK'
    BY <1>9, Controls, FieldTypes, NoneType DEF CompVerify, Goto, Stay, Labels, ControlOK,
      TypeOK
  <2>2. HostOK' /\ LeaseOK' /\ StoreOK' /\ CountersOK'
    BY <1>9 DEF TypeOK, HostOK, LeaseOK, StoreOK, CountersOK, CompVerify, osVars, leaseVars,
      bounds, Clean, Fault, FailsIf
  <2> QED BY <2>1, <2>2, TypeParts
<1> QED BY <1>1, <1>2, <1>3, <1>4, <1>5, <1>6, <1>7, <1>8, <1>9 DEF Compensating

LEMMA ResolvingType == TypeOK /\ Resolving => TypeOK'
<1> SUFFICES ASSUME TypeOK, Resolving PROVE TypeOK'
  OBVIOUS
<1>1. CASE RvRepair
  <2>1. ControlOK'
    BY <1>1, Controls, FieldTypes, NoneType DEF RvRepair, Goto, Stay, Labels, ControlOK,
      TypeOK
  <2>2. LeaseOK'
    BY <1>1 DEF TypeOK, LeaseOK, RvRepair, LiveRecords
  <2>3. StoreOK'
    BY <1>1, JournalWriteType, FieldTypes DEF TypeOK, StoreOK, RvRepair, Clean, Fault,
      FailsIf
  <2>4. HostOK' /\ CountersOK'
    BY <1>1 DEF TypeOK, HostOK, CountersOK, RvRepair, osVars, bounds
  <2> QED BY <2>1, <2>2, <2>3, <2>4, TypeParts
<1>2. CASE RvStart
  <2>1. ControlOK'
    <3>1. [loc EXCEPT !.ev = live.ev, !.tgt = live.tgt, !.ret = "resolve"] \in Locals
      BY FieldTypes, LocTypes DEF TypeOK
    <3> QED BY <1>2, <3>1, Controls, NoneType DEF RvStart, Goto, Stay, Labels, ControlOK, TypeOK
  <2>2. HostOK' /\ LeaseOK' /\ StoreOK' /\ CountersOK'
    BY <1>2 DEF TypeOK, HostOK, LeaseOK, StoreOK, CountersOK, RvStart, osVars, leaseVars,
      bounds, Clean, Fault, FailsIf
  <2> QED BY <2>1, <2>2, TypeParts
<1>3. CASE RvRead
  <2>1. ControlOK'
    BY <1>3, Controls, FieldTypes, LocTypes, NoneType DEF RvRead, Goto, Stay, Labels,
      ControlOK, TypeOK
  <2>2. HostOK' /\ LeaseOK' /\ StoreOK' /\ CountersOK'
    BY <1>3 DEF TypeOK, HostOK, LeaseOK, StoreOK, CountersOK, RvRead, osVars, leaseVars,
      bounds, Clean, Fault, FailsIf
  <2> QED BY <2>1, <2>2, TypeParts
<1>4. CASE RvStatus
  <2>1. ControlOK'
    BY <1>4, Controls, FieldTypes, NoneType DEF RvStatus, Goto, Stay, Labels, ControlOK,
      TypeOK
  <2>2. HostOK' /\ LeaseOK' /\ StoreOK' /\ CountersOK'
    BY <1>4 DEF TypeOK, HostOK, LeaseOK, StoreOK, CountersOK, RvStatus, osVars, leaseVars,
      bounds, Clean, Fault, FailsIf
  <2> QED BY <2>1, <2>2, TypeParts
<1>5. CASE RvWrite
  <2>1. ControlOK'
    BY <1>5, Controls, FieldTypes, NoneType DEF RvWrite, Goto, Stay, Labels, ControlOK,
      TypeOK
  <2>2. LeaseOK'
    <3> DEFINE r == [live.rec EXCEPT !.phase = "Applied", !.applied = live.proof]
    <3>1. r \in Records
      BY FieldTypes, RecordTypes
    <3>2. LiveAs(r, "Committed", FALSE) \in LiveRecords
      BY <3>1, LiveTypes, NoneType, NoRecordType DEF LiveStates
    <3> QED BY <1>5, <3>2 DEF RvWrite, TypeOK, LeaseOK
  <2>3. StoreOK'
    BY <1>5, JournalWriteType, FieldTypes, RecordTypes DEF RvWrite
  <2>4. HostOK' /\ CountersOK'
    BY <1>5 DEF TypeOK, HostOK, CountersOK, RvWrite, osVars, bounds
  <2> QED BY <2>1, <2>2, <2>3, <2>4, TypeParts
<1>6. CASE RvResume
  <2>1. ControlOK'
    BY <1>6, Controls, FieldTypes, NoneType DEF RvResume, Goto, Stay, Labels, ControlOK,
      TypeOK
  <2>2. LeaseOK'
    BY <1>6, PersistLiveType, FieldTypes, RecordTypes DEF TypeOK, LeaseOK, RvResume
  <2>3. StoreOK'
    BY <1>6, PersistLiveType, FieldTypes, RecordTypes DEF TypeOK, StoreOK, RvResume, Clean,
      Fault, FailsIf
  <2>4. HostOK' /\ CountersOK'
    BY <1>6 DEF TypeOK, HostOK, CountersOK, RvResume, osVars, bounds
  <2> QED BY <2>1, <2>2, <2>3, <2>4, TypeParts
<1>7. CASE RvRetain
  <2>1. ControlOK'
    BY <1>7, Controls, FieldTypes, NoneType DEF RvRetain, Goto, Stay, Labels, ControlOK,
      TypeOK
  <2>2. LeaseOK'
    BY <1>7, RetainCompensationType, FieldTypes DEF TypeOK, LeaseOK, RvRetain
  <2>3. StoreOK'
    BY <1>7, RetainCompensationType, FieldTypes DEF TypeOK, StoreOK, RvRetain, Clean, Fault,
      FailsIf
  <2>4. HostOK' /\ CountersOK'
    BY <1>7 DEF TypeOK, HostOK, CountersOK, RvRetain, osVars, bounds
  <2> QED BY <2>1, <2>2, <2>3, <2>4, TypeParts
<1> QED BY <1>1, <1>2, <1>3, <1>4, <1>5, <1>6, <1>7 DEF Resolving

LEMMA LeasingType == TypeOK /\ Leasing => TypeOK'
<1> SUFFICES ASSUME TypeOK, Leasing PROVE TypeOK'
  OBVIOUS
<1>1. CASE ApObserve
  <2>1. ControlOK'
    <3>1. NewRecord(loc.plan) \in Records
      BY FieldTypes, NoneType DEF TypeOK, NewRecord, Records, Phases
    <3>2. [loc EXCEPT !.rec = NewRecord(loc.plan), !.inc = native.inc, !.exp = Now] \in Locals
      BY <3>1, FieldTypes, LocTypes DEF TypeOK
    <3> QED BY <1>1, <3>2, Controls, NoneType DEF ApObserve, Goto, Labels, ControlOK, TypeOK
  <2>2. CountersOK'
    BY <1>1 DEF TypeOK, CountersOK, ApObserve, bounds
  <2>3. HostOK' /\ LeaseOK' /\ StoreOK'
    BY <1>1 DEF TypeOK, HostOK, LeaseOK, StoreOK, ApObserve, osVars, leaseVars, Clean,
      Fault, FailsIf
  <2> QED BY <2>1, <2>2, <2>3, TypeParts
<1>2. CASE ApPersist
  <2>1. ControlOK'
    BY <1>2, Controls, NoneType DEF ApPersist, Goto, Stay, Labels, ControlOK, TypeOK
  <2>2. LeaseOK'
    <3>1. LiveAs(loc.rec, "Committed", FALSE) \in LiveRecords
      BY FieldTypes, LiveTypes, NoneType, NoRecordType DEF LiveStates
    <3> QED BY <1>2, <3>1 DEF ApPersist, TypeOK, LeaseOK
  <2>3. StoreOK'
    BY <1>2, JournalWriteType, FieldTypes DEF TypeOK, StoreOK, ApPersist, Clean, Fault,
      FailsIf
  <2>4. HostOK' /\ CountersOK'
    BY <1>2 DEF TypeOK, HostOK, CountersOK, ApPersist, osVars, bounds
  <2> QED BY <2>1, <2>2, <2>3, <2>4, TypeParts
<1>3. CASE ApUnpersist
  <2>1. ControlOK'
    BY <1>3, Controls, NoneType DEF ApUnpersist, Goto, Stay, Labels, ControlOK, TypeOK
  <2>2. StoreOK'
    BY <1>3, JournalRemoveType, FieldTypes, RecordFields DEF TypeOK, StoreOK, ApUnpersist,
      Clean, Fault, FailsIf
  <2>3. HostOK' /\ LeaseOK' /\ CountersOK'
    BY <1>3 DEF TypeOK, HostOK, LeaseOK, CountersOK, ApUnpersist, osVars, leaseVars, bounds
  <2> QED BY <2>1, <2>2, <2>3, TypeParts
<1>4. CASE ApResidue
  <2>1. ControlOK'
    BY <1>4, Controls, NoneType DEF ApResidue, Goto, Stay, Labels, ControlOK, TypeOK
  <2>2. HostOK' /\ LeaseOK' /\ StoreOK' /\ CountersOK'
    BY <1>4 DEF TypeOK, HostOK, LeaseOK, StoreOK, CountersOK, ApResidue, osVars, leaseVars,
      bounds, Clean, Fault, FailsIf
  <2> QED BY <2>1, <2>2, TypeParts
<1>5. CASE ApRemove
  <2>1. ControlOK'
    BY <1>5, Controls, NoneType DEF ApRemove, Goto, Stay, Labels, ControlOK, TypeOK
  <2>2. StoreOK'
    BY <1>5, JournalRemoveType, FieldTypes, RecordFields DEF TypeOK, StoreOK, ApRemove,
      Clean, Fault, FailsIf
  <2>3. HostOK' /\ LeaseOK' /\ CountersOK'
    BY <1>5 DEF TypeOK, HostOK, LeaseOK, CountersOK, ApRemove, osVars, leaseVars, bounds
  <2> QED BY <2>1, <2>2, <2>3, TypeParts
<1>6. CASE ApRetain
  <2>1. ControlOK'
    BY <1>6, Controls, NoneType DEF ApRetain, Goto, Stay, Labels, ControlOK, TypeOK
  <2>2. StoreOK'
    BY <1>6, JournalWriteType, FieldTypes, RecordTypes DEF TypeOK, StoreOK, ApRetain, Clean,
      Fault, FailsIf
  <2>3. HostOK' /\ LeaseOK' /\ CountersOK'
    BY <1>6 DEF TypeOK, HostOK, LeaseOK, CountersOK, ApRetain, osVars, leaseVars, bounds
  <2> QED BY <2>1, <2>2, <2>3, TypeParts
<1>7. CASE Done
  <2>1. ControlOK'
    BY <1>7, Controls, NoneType DEF Done, Goto, Stay, Labels, ControlOK, TypeOK
  <2>2. LeaseOK'
    BY <1>7 DEF TypeOK, LeaseOK, Done
  <2>3. CountersOK'
    BY <1>7, FieldTypes DEF TypeOK, CountersOK, Done, bounds
  <2>4. HostOK' /\ StoreOK'
    BY <1>7 DEF TypeOK, HostOK, StoreOK, Done, osVars, Clean, Fault, FailsIf
  <2> QED BY <2>1, <2>2, <2>3, <2>4, TypeParts
<1>8. CASE UpRead
  <2>1. ControlOK'
    <3>1. Applied \in Snapshots
      BY FieldTypes, RecordFields, NoneType DEF Applied
    <3>2. [loc EXCEPT !.exp = Applied, !.rec = live.rec] \in Locals
      BY <3>1, FieldTypes, LocTypes DEF TypeOK
    <3> QED BY <1>8, <3>2, Controls, NoneType DEF UpRead, Goto, Labels, ControlOK, TypeOK
  <2>2. CountersOK'
    BY <1>8, FieldTypes DEF TypeOK, CountersOK, UpRead, bounds
  <2>3. HostOK' /\ LeaseOK' /\ StoreOK'
    BY <1>8 DEF TypeOK, HostOK, LeaseOK, StoreOK, UpRead, osVars, leaseVars, Clean, Fault,
      FailsIf
  <2> QED BY <2>1, <2>2, <2>3, TypeParts
<1>9. CASE UpPrepare
  <2>1. ControlOK'
    BY <1>9, Controls, NoneType DEF UpPrepare, Goto, Stay, Labels, ControlOK, TypeOK
  <2>2. LeaseOK'
    <3> DEFINE r == [live.rec EXCEPT !.desired = loc.plan, !.phase = "Prepared"]
    <3>1. r \in Records
      BY FieldTypes, RecordTypes, NoneType
    <3>2. LiveAs(r, "Prepared", FALSE) \in LiveRecords /\ LiveAs(r, "Unmutated", FALSE) \in LiveRecords
      BY <3>1, LiveTypes, NoneType, NoRecordType DEF LiveStates
    <3> QED BY <1>9, <3>2 DEF UpPrepare, TypeOK, LeaseOK
  <2>3. StoreOK'
    BY <1>9, JournalWriteType, FieldTypes, RecordTypes, NoneType DEF TypeOK, StoreOK,
      UpPrepare, Clean, Fault, FailsIf
  <2>4. HostOK' /\ CountersOK'
    BY <1>9 DEF TypeOK, HostOK, CountersOK, UpPrepare, osVars, bounds
  <2> QED BY <2>1, <2>2, <2>3, <2>4, TypeParts
<1>10. CASE UpUnprepare
  <2>1. ControlOK'
    BY <1>10, Controls, NoneType DEF UpUnprepare, Goto, Stay, Labels, ControlOK, TypeOK
  <2>2. LeaseOK'
    BY <1>10, PersistLiveType, FieldTypes DEF TypeOK, LeaseOK, UpUnprepare
  <2>3. StoreOK'
    BY <1>10, PersistLiveType, FieldTypes DEF TypeOK, StoreOK, UpUnprepare, Clean, Fault,
      FailsIf
  <2>4. HostOK' /\ CountersOK'
    BY <1>10 DEF TypeOK, HostOK, CountersOK, UpUnprepare, osVars, bounds
  <2> QED BY <2>1, <2>2, <2>3, <2>4, TypeParts
<1>11. CASE UpResidue
  <2>1. ControlOK'
    BY <1>11, Controls, NoneType DEF UpResidue, Goto, Stay, Labels, ControlOK, TypeOK
  <2>2. LeaseOK'
    <3>1. PICK ok \in BOOLEAN :
             \/ RetainCompensation(loc.ev, loc.tgt, loc.rec, ok)
             \/ PersistLive(Resumed(loc.rec, loc.id), ok)
             \/ PersistLive(loc.rec, ok)
      BY <1>11 DEF UpResidue
    <3>2. Resumed(loc.rec, loc.id) \in Records /\ scan' = scan
      BY <1>11, FieldTypes, RecordTypes DEF UpResidue
    <3>3. RetainCompensation(loc.ev, loc.tgt, loc.rec, ok) => StoreOK' /\ live' \in LiveRecords
      BY <3>2, FieldTypes, RetainCompensationType
    <3>4. PersistLive(Resumed(loc.rec, loc.id), ok) => StoreOK' /\ live' \in LiveRecords
      BY <3>2, PersistLiveType
    <3>5. PersistLive(loc.rec, ok) => StoreOK' /\ live' \in LiveRecords
      BY <3>2, FieldTypes, PersistLiveType
    <3> QED BY <1>11, <3>1, <3>3, <3>4, <3>5 DEF UpResidue, LeaseOK, TypeOK
  <2>3. StoreOK'
    <3>1. PICK ok \in BOOLEAN :
             \/ RetainCompensation(loc.ev, loc.tgt, loc.rec, ok)
             \/ PersistLive(Resumed(loc.rec, loc.id), ok)
             \/ PersistLive(loc.rec, ok)
      BY <1>11 DEF UpResidue
    <3>2. Resumed(loc.rec, loc.id) \in Records /\ scan' = scan
      BY <1>11, FieldTypes, RecordTypes DEF UpResidue
    <3>3. RetainCompensation(loc.ev, loc.tgt, loc.rec, ok) => StoreOK' /\ live' \in LiveRecords
      BY <3>2, FieldTypes, RetainCompensationType
    <3>4. PersistLive(Resumed(loc.rec, loc.id), ok) => StoreOK' /\ live' \in LiveRecords
      BY <3>2, PersistLiveType
    <3>5. PersistLive(loc.rec, ok) => StoreOK' /\ live' \in LiveRecords
      BY <3>2, FieldTypes, PersistLiveType
    <3> QED BY <1>11, <3>1, <3>3, <3>4, <3>5 DEF UpResidue, TypeOK
  <2>4. HostOK' /\ CountersOK'
    BY <1>11 DEF TypeOK, HostOK, CountersOK, UpResidue, osVars, bounds
  <2> QED BY <2>1, <2>2, <2>3, <2>4, TypeParts
<1>12. CASE RsStatus
  <2>1. ControlOK'
    BY <1>12, Controls, NoneType DEF RsStatus, Goto, Stay, Labels, ControlOK, TypeOK
  <2>2. HostOK' /\ LeaseOK' /\ StoreOK' /\ CountersOK'
    BY <1>12 DEF TypeOK, HostOK, LeaseOK, StoreOK, CountersOK, RsStatus, osVars, leaseVars,
      bounds, Clean, Fault, FailsIf
  <2> QED BY <2>1, <2>2, TypeParts
<1>13. CASE RsRead
  <2>1. ControlOK'
    <3>1. RsCompare => ControlOK'
      BY RsCompareType
    <3> QED BY <1>13, <3>1, FieldTypes, LocTypes DEF RsRead, Goto, Stay, Labels, ControlOK, TypeOK
  <2>2. LeaseOK'
    <3>1. RsCompare => live' \in LiveRecords
      BY RsCompareType
    <3> QED BY <1>13, <3>1 DEF RsRead, LeaseOK, TypeOK
  <2>3. HostOK' /\ StoreOK' /\ CountersOK'
    BY <1>13 DEF TypeOK, HostOK, StoreOK, CountersOK, RsRead, osVars, bounds, Clean, Fault,
      FailsIf
  <2> QED BY <2>1, <2>2, <2>3, TypeParts
<1>14. CASE RsReread
  <2>1. ControlOK'
    <3>1. RsCompare => ControlOK'
      BY RsCompareType
    <3> QED BY <1>14, <3>1, FieldTypes, LocTypes DEF RsReread, Goto, Stay, Labels, ControlOK, TypeOK
  <2>2. LeaseOK'
    <3>1. RsCompare => live' \in LiveRecords
      BY RsCompareType
    <3> QED BY <1>14, <3>1 DEF RsReread, LeaseOK, TypeOK
  <2>3. HostOK' /\ StoreOK' /\ CountersOK'
    BY <1>14 DEF TypeOK, HostOK, StoreOK, CountersOK, RsReread, osVars, bounds, Clean,
      Fault, FailsIf
  <2> QED BY <2>1, <2>2, <2>3, TypeParts
<1>15. CASE RsRetain
  <2>1. ControlOK'
    BY <1>15, Controls, NoneType DEF RsRetain, Goto, Stay, Labels, ControlOK, TypeOK
  <2>2. LeaseOK'
    BY <1>15, RetainCompensationType, FieldTypes DEF TypeOK, LeaseOK, RsRetain
  <2>3. StoreOK'
    BY <1>15, RetainCompensationType, FieldTypes DEF TypeOK, StoreOK, RsRetain, Clean,
      Fault, FailsIf
  <2>4. HostOK' /\ CountersOK'
    BY <1>15 DEF TypeOK, HostOK, CountersOK, RsRetain, osVars, bounds
  <2> QED BY <2>1, <2>2, <2>3, <2>4, TypeParts
<1>16. CASE RsRemove
  <2>1. ControlOK'
    BY <1>16, Controls, NoneType DEF RsRemove, Goto, Stay, Labels, ControlOK, TypeOK
  <2>2. HostOK'
    BY <1>16, LeaseEndsType DEF TypeOK, HostOK, RsRemove
  <2>3. LeaseOK'
    <3>1. \A x \in Snapshots : [live EXCEPT !.ev = x] \in LiveRecords
      BY DEF TypeOK, LiveRecords
    <3> QED BY <1>16, <3>1, LeaseEndsType, FieldTypes DEF RsRemove, LeaseOK, TypeOK
  <2>4. StoreOK'
    BY <1>16, JournalRemoveType, FieldTypes, RecordFields DEF TypeOK, StoreOK, RsRemove,
      Clean, Fault, FailsIf
  <2>5. CountersOK'
    BY <1>16 DEF TypeOK, CountersOK, RsRemove, bounds
  <2> QED BY <2>1, <2>2, <2>3, <2>4, <2>5, TypeParts
<1>17. CASE RsFail
  <2>1. ControlOK'
    BY <1>17, Controls, NoneType DEF RsFail, Goto, Stay, Labels, ControlOK, TypeOK
  <2>2. HostOK'
    BY <1>17, LeaseEndsType DEF TypeOK, HostOK, RsFail
  <2>3. LeaseOK'
    BY <1>17, LeaseEndsType DEF TypeOK, LeaseOK, RsFail
  <2>4. StoreOK' /\ CountersOK'
    BY <1>17 DEF TypeOK, StoreOK, CountersOK, RsFail, bounds, Clean, Fault, FailsIf
  <2> QED BY <2>1, <2>2, <2>3, <2>4, TypeParts
<1>18. CASE AbRemove
  <2>1. ControlOK'
    BY <1>18, Controls, NoneType DEF AbRemove, Goto, Stay, Labels, ControlOK, TypeOK
  <2>2. HostOK'
    BY <1>18, LeaseEndsType DEF TypeOK, HostOK, AbRemove
  <2>3. LeaseOK'
    BY <1>18, LeaseEndsType DEF TypeOK, LeaseOK, AbRemove
  <2>4. StoreOK'
    BY <1>18, JournalRemoveType, FieldTypes, RecordFields DEF TypeOK, StoreOK, AbRemove,
      Clean, Fault, FailsIf
  <2>5. CountersOK'
    BY <1>18 DEF TypeOK, CountersOK, AbRemove, bounds
  <2> QED BY <2>1, <2>2, <2>3, <2>4, <2>5, TypeParts
<1> QED BY <1>1, <1>2, <1>3, <1>4, <1>5, <1>6, <1>7, <1>8, <1>9, <1>10, <1>11, <1>12, <1>13, <1>14, <1>15, <1>16, <1>17, <1>18 DEF Leasing

LEMMA ReconcilingType == TypeOK /\ Reconciling => TypeOK'
<1> SUFFICES ASSUME TypeOK, Reconciling PROVE TypeOK'
  OBVIOUS
<1>1. CASE RcForget
  <2>1. ControlOK'
    BY <1>1, Controls, NoneType DEF RcForget, Goto, Stay, Labels, ControlOK, TypeOK
  <2>2. LeaseOK'
    BY <1>1 DEF TypeOK, LeaseOK, RcForget
  <2>3. StoreOK'
    BY <1>1, JournalRemoveType, FieldTypes, RecordFields DEF TypeOK, StoreOK, RcForget,
      Clean, Fault, FailsIf
  <2>4. HostOK' /\ CountersOK'
    BY <1>1 DEF TypeOK, HostOK, CountersOK, RcForget, osVars, bounds
  <2> QED BY <2>1, <2>2, <2>3, <2>4, TypeParts
<1>2. CASE RcFirst
  <2>1. ControlOK'
    BY <1>2, Controls, NoneType, LocTypes, FieldTypes DEF RcFirst, Goto, Stay, Labels,
      ControlOK, TypeOK
  <2>2. HostOK' /\ LeaseOK' /\ StoreOK' /\ CountersOK'
    BY <1>2 DEF TypeOK, HostOK, LeaseOK, StoreOK, CountersOK, RcFirst, osVars, leaseVars,
      bounds, Clean, Fault, FailsIf
  <2> QED BY <2>1, <2>2, TypeParts
<1>3. CASE RcSecond
  <2>1. ControlOK'
    <3>1. \A b \in OverlayBefore : b \in Snapshots
      BY FieldTypes, RecordFields DEF OverlayBefore
    <3>2. ASSUME NEW b \in OverlayBefore
          PROVE  [loc EXCEPT !.exp = Now,
                    !.rec = [live.rec EXCEPT !.before = b, !.phase = "Prepared", !.applied = None]] \in Locals
      BY <3>1, FieldTypes, RecordTypes, NoneType, LocTypes DEF TypeOK
    <3> QED BY <1>3, <3>2, Controls, NoneType DEF RcSecond, Goto, Stay, Labels, ControlOK, TypeOK
  <2>2. HostOK' /\ LeaseOK' /\ StoreOK' /\ CountersOK'
    <3>1. UNCHANGED <<osVars, journal, leaseVars, scan, bounds, asked>>
      BY <1>3 DEF RcSecond
    <3>2. faults' \in Nat
      <4>1. Clean \/ Fault
        BY <1>3 DEF RcSecond, FailsIf
      <4> QED BY <4>1 DEF Clean, Fault, TypeOK
    <3> QED BY <3>1, <3>2 DEF TypeOK, HostOK, LeaseOK, StoreOK, CountersOK, osVars, leaseVars, bounds
  <2> QED BY <2>1, <2>2, TypeParts
<1>4. CASE RcPrepare
  <2>1. ControlOK'
    BY <1>4, Controls, NoneType DEF RcPrepare, Goto, Stay, Labels, ControlOK, TypeOK
  <2>2. LeaseOK'
    <3>1. LiveAs(loc.rec, "Prepared", FALSE) \in LiveRecords
      BY FieldTypes, LiveTypes, NoneType, NoRecordType DEF LiveStates
    <3> QED BY <1>4, <3>1 DEF RcPrepare, TypeOK, LeaseOK
  <2>3. StoreOK'
    BY <1>4, JournalWriteType, FieldTypes DEF TypeOK, StoreOK, RcPrepare, Clean, Fault,
      FailsIf
  <2>4. HostOK' /\ CountersOK'
    BY <1>4 DEF TypeOK, HostOK, CountersOK, RcPrepare, osVars, bounds
  <2> QED BY <2>1, <2>2, <2>3, <2>4, TypeParts
<1>5. CASE RcUnprepare
  <2>1. ControlOK'
    BY <1>5, Controls, NoneType DEF RcUnprepare, Goto, Stay, Labels, ControlOK, TypeOK
  <2>2. LeaseOK'
    BY <1>5 DEF TypeOK, LeaseOK, RcUnprepare, LiveRecords
  <2>3. StoreOK'
    BY <1>5, JournalWriteType, FieldTypes DEF TypeOK, StoreOK, RcUnprepare, Clean, Fault,
      FailsIf
  <2>4. HostOK' /\ CountersOK'
    BY <1>5 DEF TypeOK, HostOK, CountersOK, RcUnprepare, osVars, bounds
  <2> QED BY <2>1, <2>2, <2>3, <2>4, TypeParts
<1>6. CASE RcResidue
  <2>1. ControlOK'
    BY <1>6, Controls, NoneType DEF RcResidue, Goto, Stay, Labels, ControlOK, TypeOK
  <2>2. LeaseOK'
    <3>1. LiveAs(live.rec, "Unmutated", FALSE) \in LiveRecords
      BY FieldTypes, LiveTypes, NoneType, NoRecordType DEF LiveStates
    <3>2. LiveCompensating(live.rec, loc.ev, loc.tgt, loc.rec, FALSE) \in LiveRecords
      BY FieldTypes, LiveTypes
    <3> QED BY <1>6, <3>1, <3>2 DEF RcResidue, TypeOK, LeaseOK
  <2>3. HostOK' /\ StoreOK' /\ CountersOK'
    BY <1>6 DEF TypeOK, HostOK, StoreOK, CountersOK, RcResidue, osVars, bounds, Clean,
      Fault, FailsIf
  <2> QED BY <2>1, <2>2, <2>3, TypeParts
<1> QED BY <1>1, <1>2, <1>3, <1>4, <1>5, <1>6 DEF Reconciling

LEMMA RecoveringType == TypeOK /\ Recovering => TypeOK'
<1> SUFFICES ASSUME TypeOK, Recovering PROVE TypeOK'
  OBVIOUS
<1>1. CASE RecoverLock
  <2>1. ControlOK'
    <3>1. ASSUME NEW r \in Records, RecoverBegins(r) PROVE ControlOK'
      <4>1. [NoLoc EXCEPT !.rec = r, !.inc = r.inc] \in Locals
        BY RecordFields, NoLocType, LocTypes
      <4> QED BY <3>1, <4>1 DEF RecoverBegins, Labels, Ops, ControlOK
    <3>2. \A r \in scan : RecoverBegins(r) => ControlOK'
      BY <3>1 DEF TypeOK
    <3> QED BY <1>1, <3>2 DEF RecoverLock, ControlOK, TypeOK
  <2>2. StoreOK'
    BY <1>1 DEF TypeOK, StoreOK, RecoverLock, Clean, Fault, FailsIf
  <2>3. HostOK' /\ LeaseOK' /\ CountersOK'
    BY <1>1 DEF TypeOK, HostOK, LeaseOK, CountersOK, RecoverLock, osVars, leaseVars, bounds
  <2> QED BY <2>1, <2>2, <2>3, TypeParts
<1>2. CASE RecStatus
  <2>1. ControlOK'
    BY <1>2, Controls, NoneType DEF RecStatus, Goto, Stay, Labels, ControlOK, TypeOK
  <2>2. HostOK' /\ LeaseOK' /\ StoreOK' /\ CountersOK'
    BY <1>2 DEF TypeOK, HostOK, LeaseOK, StoreOK, CountersOK, RecStatus, osVars, leaseVars,
      bounds, Clean, Fault, FailsIf
  <2> QED BY <2>1, <2>2, TypeParts
<1>3. CASE RecCapture
  <2>1. ControlOK'
    <3>1. [loc EXCEPT !.ev = loc.rec.applied, !.tgt = loc.rec.before, !.ret = "recover"] \in Locals
      BY FieldTypes, RecordFields, LocTypes DEF TypeOK
    <3> QED BY <1>3, <3>1, Controls, NoneType DEF RecCapture, Goto, Stay, Labels, ControlOK, TypeOK
  <2>2. HostOK' /\ LeaseOK' /\ StoreOK' /\ CountersOK'
    BY <1>3 DEF TypeOK, HostOK, LeaseOK, StoreOK, CountersOK, RecCapture, osVars, leaseVars,
      bounds, Clean, Fault, FailsIf
  <2> QED BY <2>1, <2>2, TypeParts
<1>4. CASE RecRemove
  <2>1. ControlOK'
    <3>1. [NoLoc EXCEPT !.plan = loc.plan] \in Locals
      BY FieldTypes, NoLocType, LocTypes
    <3> QED BY <1>4, <3>1, Controls, NoneType DEF RecRemove, Goto, Labels, ControlOK, TypeOK
  <2>2. StoreOK'
    BY <1>4, JournalRemoveType, FieldTypes, RecordFields DEF TypeOK, StoreOK, RecRemove,
      Clean, Fault, FailsIf
  <2>3. HostOK' /\ LeaseOK' /\ CountersOK'
    BY <1>4 DEF TypeOK, HostOK, LeaseOK, CountersOK, RecRemove, osVars, leaseVars, bounds
  <2> QED BY <2>1, <2>2, <2>3, TypeParts
<1>5. CASE RecRetain
  <2>1. ControlOK'
    BY <1>5, Controls, NoneType DEF RecRetain, Goto, Stay, Labels, ControlOK, TypeOK
  <2>2. StoreOK'
    BY <1>5, JournalWriteType, FieldTypes, RecordTypes DEF TypeOK, StoreOK, RecRetain,
      Clean, Fault, FailsIf
  <2>3. HostOK' /\ LeaseOK' /\ CountersOK'
    BY <1>5 DEF TypeOK, HostOK, LeaseOK, CountersOK, RecRetain, osVars, leaseVars, bounds
  <2> QED BY <2>1, <2>2, <2>3, TypeParts
<1> QED BY <1>1, <1>2, <1>3, <1>4, <1>5 DEF Recovering

LEMMA CallsType == TypeOK /\ Calls => TypeOK'
<1> SUFFICES ASSUME TypeOK, Calls PROVE TypeOK'
  OBVIOUS
<1>1. ASSUME NEW plan \in Plans, ApplyStart(plan) PROVE TypeOK'
  <2>1. ControlOK'
    <3>1. [NoLoc EXCEPT !.plan = plan] \in Locals
      BY NoLocType, LocTypes
    <3>2. \A r \in journal : [NoLoc EXCEPT !.plan = plan, !.rec = r, !.inc = r.inc] \in Locals
      <4> SUFFICES ASSUME NEW r \in journal
                   PROVE  [NoLoc EXCEPT !.plan = plan, !.rec = r, !.inc = r.inc] \in Locals
        OBVIOUS
      <4>1. r \in Records /\ r.inc \in Nat
        BY RecordFields DEF TypeOK
      <4> QED BY <4>1, NoLocType, LocTypes
    <3> QED BY <1>1, <3>1, <3>2 DEF ApplyStart, Labels, Ops, ControlOK
  <2>2. CountersOK'
    <3>1. calls' = calls + 1 /\ UNCHANGED <<nextLease, events, asked>>
      BY <1>1 DEF ApplyStart, Call
    <3> QED BY <3>1 DEF TypeOK, CountersOK
  <2>3. HostOK' /\ LeaseOK' /\ StoreOK'
    BY <1>1 DEF TypeOK, HostOK, LeaseOK, StoreOK, ApplyStart, osVars, leaseVars, Clean,
      Fault, FailsIf
  <2> QED BY <2>1, <2>2, <2>3, TypeParts
<1>2. ASSUME NEW plan \in Plans, UpdateStart(plan) PROVE TypeOK'
  <2>1. ControlOK'
    <3>1. [NoLoc EXCEPT !.plan = plan, !.inc = live.rec.inc] \in Locals
      BY NoLocType, LocTypes, FieldTypes, RecordFields
    <3> QED BY <1>2, <3>1 DEF UpdateStart, Labels, Ops, ControlOK, TypeOK
  <2>2. CountersOK'
    BY <1>2 DEF TypeOK, CountersOK, UpdateStart, Call, bounds
  <2>3. HostOK' /\ LeaseOK' /\ StoreOK'
    BY <1>2 DEF TypeOK, HostOK, LeaseOK, StoreOK, UpdateStart, osVars, leaseVars, Clean,
      Fault, FailsIf
  <2> QED BY <2>1, <2>2, <2>3, TypeParts
<1>3. ASSUME NEW how \in {"restore", "drop"}, RestoreStart(how) PROVE TypeOK'
  <2>1. ControlOK'
    <3>1. [NoLoc EXCEPT !.inc = live.rec.inc] \in Locals
      BY NoLocType, LocTypes, FieldTypes, RecordFields
    <3> QED BY <1>3, <3>1 DEF RestoreStart, Labels, Ops, ControlOK, TypeOK
  <2>2. LeaseOK'
    BY <1>3 DEF TypeOK, LeaseOK, RestoreStart
  <2>3. CountersOK'
    BY <1>3 DEF TypeOK, CountersOK, RestoreStart, Call, bounds
  <2>4. HostOK' /\ StoreOK'
    BY <1>3 DEF TypeOK, HostOK, StoreOK, RestoreStart, osVars, Clean, Fault, FailsIf
  <2> QED BY <2>1, <2>2, <2>3, <2>4, TypeParts
<1>4. ASSUME NEW how \in {"abandon", "drop", "discard"}, AbandonStart(how) PROVE TypeOK'
  <2>1. ControlOK'
    <3>1. \A r \in Records : [NoLoc EXCEPT !.rec = r] \in Locals
      BY NoLocType, LocTypes
    <3> QED BY <1>4, <3>1, FieldTypes DEF AbandonStart, Labels, Ops, ControlOK, TypeOK
  <2>2. LeaseOK'
    BY <1>4 DEF TypeOK, LeaseOK, AbandonStart
  <2>3. CountersOK'
    BY <1>4 DEF TypeOK, CountersOK, AbandonStart, Call, bounds
  <2>4. HostOK' /\ StoreOK'
    BY <1>4 DEF TypeOK, HostOK, StoreOK, AbandonStart, osVars, Clean, Fault, FailsIf
  <2> QED BY <2>1, <2>2, <2>3, <2>4, TypeParts
<1>5. CASE RecoverScan
  <2>1. ControlOK'
    BY <1>5 DEF RecoverScan, Labels, ControlOK, TypeOK
  <2>2. StoreOK'
    BY <1>5 DEF TypeOK, StoreOK, RecoverScan, Clean, Fault, FailsIf
  <2>3. CountersOK'
    BY <1>5 DEF TypeOK, CountersOK, RecoverScan, bounds
  <2>4. HostOK' /\ LeaseOK'
    BY <1>5 DEF TypeOK, HostOK, LeaseOK, RecoverScan, osVars, leaseVars
  <2> QED BY <2>1, <2>2, <2>3, <2>4, TypeParts
<1>6. CASE RecoverNow
  <2>1. ControlOK'
    <3>1. ASSUME NEW r \in Records, RecoverBegins(r) PROVE ControlOK'
      <4>1. [NoLoc EXCEPT !.rec = r, !.inc = r.inc] \in Locals
        BY RecordFields, NoLocType, LocTypes
      <4> QED BY <3>1, <4>1 DEF RecoverBegins, Labels, Ops, ControlOK
    <3>2. \A r \in journal : RecoverBegins(r) => ControlOK'
      BY <3>1 DEF TypeOK
    <3> QED BY <1>6, <3>2 DEF RecoverNow, ControlOK, TypeOK
  <2>2. CountersOK'
    BY <1>6 DEF TypeOK, CountersOK, RecoverNow, Call, bounds
  <2>3. HostOK' /\ LeaseOK' /\ StoreOK'
    BY <1>6 DEF TypeOK, HostOK, LeaseOK, StoreOK, RecoverNow, osVars, leaseVars, Clean,
      Fault, FailsIf
  <2> QED BY <2>1, <2>2, <2>3, TypeParts
<1> QED BY <1>1, <1>2, <1>3, <1>4, <1>5, <1>6 DEF Calls

LEMMA EnvironmentType == TypeOK /\ Environment => TypeOK'
<1> SUFFICES ASSUME TypeOK, Environment PROVE TypeOK'
  OBVIOUS
<1>1. ASSUME NEW s \in Foreign, ExternalChange(s) PROVE TypeOK'
  <2>1. ControlOK'
    BY <1>1 DEF ExternalChange, EnvUnchanged, Labels, ControlOK, TypeOK
  <2>2. HostOK'
    BY <1>1, BackendTypes, FieldTypes, BackendAssumption DEF TypeOK, HostOK, ExternalChange,
      Event, EnvUnchanged
  <2>3. CountersOK'
    BY <1>1 DEF TypeOK, CountersOK, ExternalChange, Event, EnvUnchanged, bounds
  <2>4. LeaseOK' /\ StoreOK'
    BY <1>1 DEF TypeOK, LeaseOK, StoreOK, ExternalChange, leaseVars, Clean, Fault, FailsIf,
      EnvUnchanged
  <2> QED BY <2>1, <2>2, <2>3, <2>4, TypeParts
<1>2. ASSUME NEW s \in Foreign, ExternalReplacement(s) PROVE TypeOK'
  <2>1. ControlOK'
    BY <1>2 DEF ExternalReplacement, EnvUnchanged, Labels, ControlOK, TypeOK
  <2>2. HostOK'
    BY <1>2, BackendTypes, FieldTypes, BackendAssumption DEF TypeOK, HostOK,
      ExternalReplacement, Event, EnvUnchanged
  <2>3. CountersOK'
    BY <1>2 DEF TypeOK, CountersOK, ExternalReplacement, Event, EnvUnchanged, bounds
  <2>4. LeaseOK' /\ StoreOK'
    BY <1>2 DEF TypeOK, LeaseOK, StoreOK, ExternalReplacement, leaseVars, Clean, Fault,
      FailsIf, EnvUnchanged
  <2> QED BY <2>1, <2>2, <2>3, <2>4, TypeParts
<1>3. CASE ExternalRemoval
  <2>1. ControlOK'
    BY <1>3 DEF ExternalRemoval, EnvUnchanged, Labels, ControlOK, TypeOK
  <2>2. HostOK'
    BY <1>3, FieldTypes DEF TypeOK, HostOK, ExternalRemoval, Event, EnvUnchanged, Resources
  <2>3. CountersOK'
    BY <1>3 DEF TypeOK, CountersOK, ExternalRemoval, Event, EnvUnchanged, bounds
  <2>4. LeaseOK' /\ StoreOK'
    BY <1>3 DEF TypeOK, LeaseOK, StoreOK, ExternalRemoval, leaseVars, Clean, Fault, FailsIf,
      EnvUnchanged
  <2> QED BY <2>1, <2>2, <2>3, <2>4, TypeParts
<1>4. CASE Crash
  <2>1. ControlOK'
    BY <1>4, Controls, NoneType DEF Crash, Labels, ControlOK, TypeOK
  <2>2. HostOK'
    BY <1>4, LeaseEndsType DEF TypeOK, HostOK, Crash
  <2>3. LeaseOK'
    BY <1>4, LeaseEndsType DEF TypeOK, LeaseOK, Crash
  <2>4. StoreOK' /\ CountersOK'
    BY <1>4 DEF TypeOK, StoreOK, CountersOK, Crash, bounds, Clean, Fault, FailsIf
  <2> QED BY <2>1, <2>2, <2>3, <2>4, TypeParts
<1> QED BY <1>1, <1>2, <1>3, <1>4 DEF Environment

LEMMA ReconcileStartType == TypeOK /\ ReconcileStart => TypeOK'
<1> SUFFICES ASSUME TypeOK, ReconcileStart PROVE TypeOK'
  OBVIOUS
<1>1. [NoLoc EXCEPT !.inc = live.rec.inc, !.plan = live.rec.desired] \in Locals
  BY NoLocType, LocTypes, FieldTypes, RecordFields
<1>2. ControlOK'
  BY <1>1 DEF ReconcileStart, Labels, Ops, ControlOK
<1>3. HostOK' /\ LeaseOK' /\ StoreOK' /\ CountersOK'
  BY DEF TypeOK, HostOK, LeaseOK, StoreOK, CountersOK, ReconcileStart, osVars, leaseVars, bounds,
    Clean
<1> QED BY <1>2, <1>3, TypeParts

LEMMA InitType == Init => TypeOK
<1> SUFFICES ASSUME Init PROVE TypeOK
  OBVIOUS
<1>1. native \in Resources /\ base \in States /\ asked \in Plans
  BY BackendAssumption, NoRecordType, RecordFields DEF Init, Resources
<1>2. live \in LiveRecords /\ loc \in Locals
  BY NoLiveType, NoLocType DEF Init
<1> QED BY <1>1, <1>2 DEF Init, TypeOK, Labels, Ops

(***************************************************************************)
(* Whatever the plans, the policy, the backend's capabilities and the      *)
(* bounds, no sequence of calls, faults, crashes and external changes      *)
(* takes the engine outside its types: every live record is one of the     *)
(* LiveState variants, every operation has a next step.                    *)
(***************************************************************************)
THEOREM EngineTypeCorrect == Spec => []TypeOK
<1>1. TypeOK /\ [Next]_vars => TypeOK'
  <2> SUFFICES ASSUME TypeOK, [Next]_vars PROVE TypeOK'
    OBVIOUS
  <2>1. CASE UNCHANGED vars
    BY <2>1 DEF vars, osVars, leaseVars, bounds, TypeOK
  <2>2. CASE Step
    BY <2>2, MutatingType, CompensatingType, ResolvingType, LeasingType, ReconcilingType,
      RecoveringType DEF Step
  <2> QED BY <2>1, <2>2, CallsType, ReconcileStartType, EnvironmentType DEF Next
<1> QED BY InitType, <1>1, PTL DEF Spec
=============================================================================
