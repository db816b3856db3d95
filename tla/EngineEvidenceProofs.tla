------------------------ MODULE EngineEvidenceProofs ------------------------
(***************************************************************************)
(* The evidence osdns holds in Engine, for any plans, foreign states,      *)
(* bounds and policy, and a backend that names its states and compares     *)
(* before it writes. Every snapshot an operation, a live record or the     *)
(* journal holds that names the current state names a write of ours or the *)
(* original; so no write goes over a state that is neither.                *)
(***************************************************************************)
EXTENDS EngineSafetyProofs

-----------------------------------------------------------------------------
(***************************************************************************)
(* Generations: no snapshot anybody holds is newer than the resource.      *)
(***************************************************************************)
Old(x) == x.gen \in 0..native.gen

OldRecord(r) == Old(r.before) /\ Old(r.applied)

Dated ==
    /\ Old(loc.cur) /\ Old(loc.exp) /\ Old(loc.ev) /\ Old(loc.tgt) /\ Old(loc.id)
    /\ OldRecord(loc.rec)
    /\ Old(live.proof) /\ Old(live.ev) /\ Old(live.tgt)
    /\ OldRecord(live.rec) /\ OldRecord(live.resume)
    /\ \A r \in journal : OldRecord(r)

\* A write ages every snapshot of a backend with identities.
LEMMA WrittenGen ==
    ASSUME TypeOK, NEW s
    PROVE  /\ Written(native, s).gen = IF Ownership = "Durable" THEN native.gen + 1 ELSE native.gen
           /\ Replacement(native, s).gen = IF Ownership = "Durable" THEN native.gen + 1 ELSE native.gen
<1>1. native \in Resources
  BY DEF TypeOK
<1> QED BY <1>1 DEF Written, Replacement, Resources

Ages == native.gen \in Nat /\ native'.gen \in Nat /\ native.gen <= native'.gen

LEMMA StepAges == ASSUME TypeOK, [Next]_vars PROVE Ages
<1>1. native.gen \in Nat
  BY DEF TypeOK, Resources
<1>2. CASE UNCHANGED native
  BY <1>1, <1>2 DEF Ages
<1>3. CASE native'.gen \in {native.gen, native.gen + 1}
  BY <1>1, <1>3 DEF Ages
<1>4. ASSUME NEW s, OsWrite(s) PROVE Ages
  BY <1>3, <1>4, WrittenGen DEF OsWrite
<1>5. CASE Mutating
  BY <1>2, <1>4, <1>5 DEF Mutating, MutBind, MutCas, MutCheck, MutRecheck, MutWrite, MutStatus,
    MutReadback, MutVerify, osVars, NativeUnchanged
<1>6. CASE Compensating
  BY <1>2, <1>4, <1>6 DEF Compensating, CompStatus, CompRead, CompBind, CompCas, CompCheck,
    CompRecheck, CompWrite, CompReread, CompVerify, osVars, NativeUnchanged
<1>7. CASE Environment
  <2>1. CASE \E s \in Foreign : ExternalChange(s) \/ ExternalReplacement(s)
    BY <1>3, <2>1, WrittenGen DEF ExternalChange, ExternalReplacement
  <2>2. CASE ExternalRemoval
    <3>1. native \in Resources
      BY DEF TypeOK
    <3>2. native'.gen = native.gen
      BY <2>2, <3>1 DEF ExternalRemoval, Resources
    <3> QED BY <1>3, <3>2
  <2>3. CASE Crash
    BY <1>2, <2>3 DEF Crash
  <2> QED BY <1>7, <2>1, <2>2, <2>3 DEF Environment
<1>8. CASE Resolving
  BY <1>2, <1>8 DEF Resolving, RvRepair, RvStart, RvRead, RvStatus, RvWrite, RvResume, RvRetain,
      osVars
<1>9. CASE Leasing
  BY <1>2, <1>9 DEF Leasing, ApObserve, ApPersist, ApUnpersist, ApResidue, ApRemove, ApRetain, Done,
    UpRead, UpPrepare, UpUnprepare, UpResidue, RsStatus, RsRead, RsReread, RsRetain, RsRemove, RsFail,
    AbRemove, osVars
<1>10. CASE Reconciling \/ ReconcileStart
  BY <1>2, <1>10 DEF Reconciling, ReconcileStart, RcForget, RcFirst, RcSecond, RcPrepare,
      RcUnprepare,
    RcResidue, osVars
<1>11. CASE Recovering
  BY <1>2, <1>11 DEF Recovering, RecoverLock, RecStatus, RecCapture, RecRemove, RecRetain, osVars
<1>12. CASE Calls
  BY <1>2, <1>12 DEF Calls, ApplyStart, UpdateStart, RestoreStart, AbandonStart, RecoverScan,
    RecoverNow, osVars
<1> QED BY <1>2, <1>5, <1>6, <1>7, <1>8, <1>9, <1>10, <1>11, <1>12 DEF Next, Step, vars, osVars

\* The same, after the step.
Later(x) == x.gen \in 0..native'.gen

LaterRecord(r) == Later(r.before) /\ Later(r.applied)

LocLater ==
    /\ Later(loc'.cur) /\ Later(loc'.exp) /\ Later(loc'.ev) /\ Later(loc'.tgt) /\ Later(loc'.id)
    /\ LaterRecord(loc'.rec)

LiveLater ==
    /\ Later(live'.proof) /\ Later(live'.ev) /\ Later(live'.tgt)
    /\ LaterRecord(live'.rec) /\ LaterRecord(live'.resume)

JournalLater == \A r \in journal' : LaterRecord(r)

\* What was held before the step, and the states before and after it.
Past ==
    /\ Later(loc.cur) /\ Later(loc.exp) /\ Later(loc.ev) /\ Later(loc.tgt) /\ Later(loc.id)
    /\ LaterRecord(loc.rec)
    /\ Later(live.proof) /\ Later(live.ev) /\ Later(live.tgt)
    /\ LaterRecord(live.rec) /\ LaterRecord(live.resume)
    /\ \A r \in journal : LaterRecord(r)
    /\ Later(Now) /\ Later(Now') /\ Later(None) /\ LaterRecord(NoRecord)

LEMMA PastStep ==
    ASSUME TypeOK, Dated, Ages
    PROVE  Past /\ (LocLater /\ LiveLater /\ JournalLater => Dated')
<1>1. \A x : Old(x) => Later(x)
  BY DEF Ages, Old, Later
<1>2. Later(Now) /\ Later(Now')
  BY DEF Ages, Later, Now, Snap
<1>3. Later(None)
  BY DEF Ages, Later, None
<1>4. LaterRecord(NoRecord)
  BY <1>3 DEF LaterRecord, NoRecord
<1>5. Past
  BY <1>1, <1>2, <1>3, <1>4 DEF Past, Dated, OldRecord, LaterRecord
<1>6. LocLater /\ LiveLater /\ JournalLater => Dated'
  BY DEF LocLater, LiveLater, JournalLater, LaterRecord, Later, Dated, OldRecord, Old
<1> QED BY <1>5, <1>6

LEMMA JournalPast ==
    ASSUME Past, NEW r
    PROVE  /\ \A ok \in BOOLEAN : JournalWrite(r, ok) /\ LaterRecord(r) => JournalLater
           /\ \A ok \in BOOLEAN : JournalRemove(r, ok) => JournalLater
           /\ (Wrote(r) \/ WroteOrNot(r)) /\ LaterRecord(r) => JournalLater
           /\ UNCHANGED journal => JournalLater
BY DEF Past, JournalLater, JournalWrite, JournalRemove, Published, PublishedOrNot, Unlinked,
  UnlinkedOrNot, Wrote, WroteOrNot

\* The building blocks of the steps.
LEMMA LocPast ==
    ASSUME TypeOK, Past
    PROVE  /\ UNCHANGED loc \/ Finish \/ Rejected \/ CompErr => LocLater
           /\ \A x : Later(x) /\ Rollback(x) => LocLater
           /\ \A x : Later(x) /\ CompOk(x) => LocLater
           /\ \A x : Later(x) /\ loc' = [loc EXCEPT !.ev = x] => LocLater
           /\ \A x : Later(x) /\ loc' = [loc EXCEPT !.cur = x] => LocLater
<1>1. loc \in Locals
  BY DEF TypeOK
<1>2. UNCHANGED loc => LocLater
  BY DEF Past, LocLater
<1>3. Finish => LocLater
  BY NoLocFields DEF Finish, Past, LocLater
<1>4. Rejected \/ CompErr => LocLater
  BY Handovers DEF Past, LocLater
<1>5. ASSUME NEW x, Later(x), Rollback(x) \/ CompOk(x) PROVE LocLater
  BY <1>5, Handovers DEF Past, LocLater
<1>6. ASSUME NEW x, Later(x), loc' = [loc EXCEPT !.ev = x] PROVE LocLater
  BY <1>1, <1>6 DEF Past, LocLater, Locals
<1>7. ASSUME NEW x, Later(x), loc' = [loc EXCEPT !.cur = x] PROVE LocLater
  BY <1>1, <1>7 DEF Past, LocLater, Locals
<1> QED BY <1>2, <1>3, <1>4, <1>5, <1>6, <1>7

LEMMA LivePast ==
    ASSUME Past
    PROVE  /\ UNCHANGED live \/ LeaseEnds => LiveLater
           /\ PlainLive(live') /\ LaterRecord(live'.rec) => LiveLater
<1>1. UNCHANGED live => LiveLater
  BY DEF Past, LiveLater
<1>2. LeaseEnds => LiveLater
  BY NoLiveFields DEF LeaseEnds, Past, LiveLater
<1>3. PlainLive(live') /\ LaterRecord(live'.rec) => LiveLater
  BY DEF PlainLive, Past, LiveLater
<1> QED BY <1>1, <1>2, <1>3

LEMMA NowLater == ASSUME Past PROVE Later(Now) /\ Later(Snap(native')) /\ Later(None)
BY DEF Past, Now

LEMMA MutatingDated == TypeOK /\ Dated /\ Ages /\ scan = {} /\ Mutating => Dated'
<1> SUFFICES ASSUME TypeOK, Dated, Ages, scan = {}, Mutating PROVE Dated'
  OBVIOUS
<1>0. Past /\ (LocLater /\ LiveLater /\ JournalLater => Dated')
  BY PastStep
<1>1. CASE MutBind
  BY <1>1, <1>0, LocPast, LivePast, JournalPast, NowLater DEF MutBind, Stay, osVars, leaseVars,
    bounds
<1>2. CASE MutCas
  BY <1>2, <1>0, LocPast, LivePast, JournalPast, NowLater DEF MutCas, NativeUnchanged, Snap,
    leaseVars, bounds
<1>3. CASE MutCheck
  BY <1>3, <1>0, LocPast, LivePast, JournalPast, NowLater DEF MutCheck, Stay, leaseVars, bounds
<1>4. CASE MutRecheck
  BY <1>4, <1>0, LocPast, LivePast, JournalPast, NowLater DEF MutRecheck, Stay, osVars,
    leaseVars, bounds
<1>5. CASE MutWrite
  BY <1>5, <1>0, LocPast, LivePast, JournalPast, NowLater DEF MutWrite, NativeUnchanged,
    leaseVars, bounds
<1>6. CASE MutStatus
  <2>1. LocLater
    BY <1>6, <1>0, LocPast, NowLater DEF MutStatus, Stay, leaseVars, Past
  <2>2. LiveLater
    BY <1>6, <1>0, LivePast DEF MutStatus, Stay, leaseVars, Past
  <2>3. JournalLater
    BY <1>6, <1>0, JournalPast DEF MutStatus, Stay, leaseVars, Past
  <2> QED BY <1>0, <2>1, <2>2, <2>3
<1>7. CASE MutReadback
  <2>1. LocLater
    BY <1>7, <1>0, LocPast, NowLater DEF MutReadback, Stay, leaseVars, Past
  <2>2. LiveLater
    BY <1>7, <1>0, LivePast DEF MutReadback, Stay, leaseVars, Past
  <2>3. JournalLater
    BY <1>7, <1>0, JournalPast DEF MutReadback, Stay, leaseVars, Past
  <2> QED BY <1>0, <2>1, <2>2, <2>3
<1>8. CASE MutVerify
  <2>1. LocLater
    BY <1>8, <1>0, LocPast, NowLater, Shapes DEF MutVerify, Stay, leaseVars, Past, LocLater,
      LaterRecord, Locals
  <2>2. LiveLater
    <3>1. CASE live' = LiveVerified(IF op = "apply" THEN loc.rec ELSE live.rec, Proof)
      <4>1. Later(Proof)
        BY <1>0 DEF Past, Proof
      <4>2. /\ live'.rec \in {loc.rec, live.rec} /\ live'.proof = Proof /\ live'.ev = None
            /\ live'.tgt = None /\ live'.resume = NoRecord
        BY <3>1 DEF LiveVerified, LiveAs
      <4> QED BY <1>0, <4>1, <4>2 DEF Past, LiveLater
    <3> QED BY <1>8, <1>0, <3>1, LivePast DEF MutVerify
  <2>3. JournalLater
    BY <1>8, <1>0, JournalPast DEF MutVerify, Stay, leaseVars, Past
  <2> QED BY <1>0, <2>1, <2>2, <2>3
<1> QED BY <1>1, <1>2, <1>3, <1>4, <1>5, <1>6, <1>7, <1>8 DEF Mutating

LEMMA CompensatingDated == TypeOK /\ Dated /\ Ages /\ scan = {} /\ Compensating => Dated'
<1> SUFFICES ASSUME TypeOK, Dated, Ages, scan = {}, Compensating PROVE Dated'
  OBVIOUS
<1>0. Past /\ (LocLater /\ LiveLater /\ JournalLater => Dated')
  BY PastStep
<1>1. CASE CompStatus
  BY <1>1, <1>0, LocPast, LivePast, JournalPast, NowLater DEF CompStatus, Stay, osVars,
    leaseVars, bounds
<1>2. CASE CompRead
  <2>1. LocLater
    <3> DEFINE id == IF loc.ev # None /\ OwnsCurrent(loc.ev, Now) THEN loc.ev
                     ELSE IF OwnsCurrent(loc.tgt, Now) THEN loc.tgt ELSE None
    <3>1. Later(id)
      BY <1>0 DEF Past
    <3>2. CompErr \/ Stay \/ CompOk(id)
      BY <1>2 DEF CompRead
    <3> HIDE DEF id
    <3> QED BY <1>0, <3>1, <3>2, LocPast DEF Stay
  <2>2. LiveLater
    BY <1>2, <1>0, LivePast DEF CompRead, Stay, leaseVars, Past
  <2>3. JournalLater
    BY <1>2, <1>0, JournalPast DEF CompRead, Stay, leaseVars, Past
  <2> QED BY <1>0, <2>1, <2>2, <2>3
<1>3. CASE CompBind
  BY <1>3, <1>0, LocPast, LivePast, JournalPast, NowLater DEF CompBind, Stay, osVars, leaseVars,
    bounds
<1>4. CASE CompCas
  BY <1>4, <1>0, LocPast, LivePast, JournalPast, NowLater DEF CompCas, NativeUnchanged, Snap,
    leaseVars, bounds
<1>5. CASE CompCheck
  BY <1>5, <1>0, LocPast, LivePast, JournalPast, NowLater DEF CompCheck, Stay, leaseVars, bounds
<1>6. CASE CompRecheck
  BY <1>6, <1>0, LocPast, LivePast, JournalPast, NowLater DEF CompRecheck, Stay, osVars,
    leaseVars, bounds
<1>7. CASE CompWrite
  BY <1>7, <1>0, LocPast, LivePast, JournalPast, NowLater DEF CompWrite, NativeUnchanged,
    leaseVars, bounds
<1>8. CASE CompReread
  BY <1>8, <1>0, LocPast, LivePast, JournalPast, NowLater DEF CompReread, osVars, leaseVars,
    bounds
<1>9. CASE CompVerify
  <2>1. LocLater
    <3> DEFINE id == CASE loc.ev # None /\ OwnsCurrent(loc.ev, loc.cur)  -> loc.ev
                       [] loc.ev = None /\ Ownership = "BestEffort"      -> loc.cur
                       [] OTHER                                          -> None
    <3>1. Later(id)
      BY <1>0 DEF Past
    <3>2. CompErr \/ CompOk(id)
      BY <1>9 DEF CompVerify
    <3> HIDE DEF id
    <3> QED BY <1>0, <3>1, <3>2, LocPast
  <2>2. LiveLater
    BY <1>9, <1>0, LivePast DEF CompVerify, Stay, leaseVars, Past
  <2>3. JournalLater
    BY <1>9, <1>0, JournalPast DEF CompVerify, Stay, leaseVars, Past
  <2> QED BY <1>0, <2>1, <2>2, <2>3
<1> QED BY <1>1, <1>2, <1>3, <1>4, <1>5, <1>6, <1>7, <1>8, <1>9 DEF Compensating

LEMMA ResolvingDated == TypeOK /\ Dated /\ Ages /\ scan = {} /\ Resolving => Dated'
<1> SUFFICES ASSUME TypeOK, Dated, Ages, scan = {}, Resolving PROVE Dated'
  OBVIOUS
<1>0. Past /\ (LocLater /\ LiveLater /\ JournalLater => Dated')
  BY PastStep
<1>1. CASE RvRepair
  <2>1. LocLater
    BY <1>1, <1>0, LocPast, NowLater DEF RvRepair, Stay, leaseVars, Past
  <2>2. LiveLater
    <3>1. CASE UNCHANGED live
      BY <1>0, <3>1, LivePast
    <3>2. CASE \E x : live' = [live EXCEPT !.repair = x]
      BY <1>0, <3>2, Shapes DEF Past, LiveLater, LiveRecords
    <3> QED BY <1>1, <3>1, <3>2 DEF RvRepair
  <2>3. JournalLater
    BY <1>1, <1>0, JournalPast DEF RvRepair, Stay, leaseVars, Past
  <2> QED BY <1>0, <2>1, <2>2, <2>3
<1>2. CASE RvStart
  <2>1. LocLater
    BY <1>2, <1>0, LocPast, NowLater, Shapes DEF RvStart, Stay, leaseVars, Past, LocLater,
      LaterRecord, Locals
  <2>2. LiveLater
    BY <1>2, <1>0, LivePast DEF RvStart, Stay, leaseVars, Past
  <2>3. JournalLater
    BY <1>2, <1>0, JournalPast DEF RvStart, Stay, leaseVars, Past
  <2> QED BY <1>0, <2>1, <2>2, <2>3
<1>3. CASE RvRead
  BY <1>3, <1>0, LocPast, LivePast, JournalPast, NowLater DEF RvRead, Stay, osVars, leaseVars,
    bounds
<1>4. CASE RvStatus
  BY <1>4, <1>0, LocPast, LivePast, JournalPast, NowLater DEF RvStatus, Stay, osVars, leaseVars,
    bounds
<1>5. CASE RvWrite
  <2>0. PICK r \in Records :
          /\ Variant(r, live.rec, "Applied", live.proof) /\ loc' = loc
          /\ \/ Wrote(r) /\ live'.rec = r /\ PlainLive(live')
             \/ WroteOrNot(r) /\ live' = live
    BY <1>5, RvWriteEffect
  <2>4. LaterRecord(r)
    BY <1>0, <2>0 DEF Past, LaterRecord, Variant, SameClaim
  <2>1. LocLater
    BY <1>0, <2>0, LocPast
  <2>2. LiveLater
    BY <1>0, <2>0, <2>4, LivePast
  <2>3. JournalLater
    BY <1>0, <2>0, <2>4, JournalPast
  <2> QED BY <1>0, <2>1, <2>2, <2>3
<1>6. CASE RvResume
  <2>0. PICK r \in Records :
          /\ r = Resumed(live.resume, loc.id) /\ loc' = loc /\ live'.rec = r /\ PlainLive(live')
          /\ Wrote(r) \/ WroteOrNot(r)
    BY <1>6, RvResumeEffect
  <2>4. LaterRecord(r)
    BY <1>0, <2>0, FieldTypes, ResumedFields DEF Past, LaterRecord, SameClaim, Records, Phases
  <2>1. LocLater
    BY <1>0, <2>0, LocPast
  <2>2. LiveLater
    BY <1>0, <2>0, <2>4, LivePast
  <2>3. JournalLater
    BY <1>0, <2>0, <2>4, JournalPast
  <2> QED BY <1>0, <2>1, <2>2, <2>3
<1>7. CASE RvRetain
  <2>0. /\ loc' = loc /\ live'.rec.before = live.rec.before /\ live'.rec.applied = loc.ev
        /\ live'.proof = None /\ live'.ev = loc.ev /\ live'.tgt = loc.tgt /\ live'.resume = live.resume
        /\ Wrote(live'.rec) \/ WroteOrNot(live'.rec)
    BY <1>7, RetainEffect DEF RvRetain, Stay, SameClaim
  <2>4. LaterRecord(live'.rec)
    BY <1>0, <2>0 DEF Past, LaterRecord
  <2>1. LocLater
    BY <1>0, <2>0, LocPast
  <2>2. LiveLater
    BY <1>0, <2>0, <2>4 DEF Past, LiveLater
  <2>3. JournalLater
    BY <1>0, <2>0, <2>4, JournalPast
  <2> QED BY <1>0, <2>1, <2>2, <2>3
<1> QED BY <1>1, <1>2, <1>3, <1>4, <1>5, <1>6, <1>7 DEF Resolving

LEMMA LeasingDated == TypeOK /\ Dated /\ Ages /\ scan = {} /\ Leasing => Dated'
<1> SUFFICES ASSUME TypeOK, Dated, Ages, scan = {}, Leasing PROVE Dated'
  OBVIOUS
<1>0. Past /\ (LocLater /\ LiveLater /\ JournalLater => Dated')
  BY PastStep
<1>1. CASE ApObserve
  <2>1. LocLater
    <3>1. CASE Finish
      BY <1>0, <3>1, LocPast
    <3>2. CASE /\ loc'.rec.before = Now /\ loc'.rec.applied \in {Now, None} /\ loc'.exp = Now
               /\ loc'.cur = loc.cur /\ loc'.ev = loc.ev /\ loc'.tgt = loc.tgt /\ loc'.id = loc.id
      BY <1>0, <3>2 DEF Past, LocLater, LaterRecord
    <3> QED BY <1>1, <3>1, <3>2, ApObserveEffect
  <2>2. LiveLater
    BY <1>1, <1>0, LivePast DEF ApObserve, Stay, leaseVars, Past
  <2>3. JournalLater
    BY <1>1, <1>0, JournalPast DEF ApObserve, Stay, leaseVars, Past
  <2> QED BY <1>0, <2>1, <2>2, <2>3
<1>2. CASE ApPersist
  <2>1. LocLater
    BY <1>2, <1>0, LocPast, NowLater DEF ApPersist, Stay, leaseVars, Past
  <2>2. LiveLater
    <3>1. CASE live' = LiveAs(loc.rec, "Committed", FALSE)
      <4>1. live'.rec = loc.rec /\ PlainLive(live')
        BY <3>1 DEF LiveAs, PlainLive
      <4> QED BY <1>0, <4>1, LivePast DEF Past
    <3> QED BY <1>2, <1>0, <3>1, LivePast DEF ApPersist
  <2>3. JournalLater
    BY <1>2, <1>0, JournalPast DEF ApPersist, Stay, leaseVars, Past
  <2> QED BY <1>0, <2>1, <2>2, <2>3
<1>3. CASE ApUnpersist
  BY <1>3, <1>0, LocPast, LivePast, JournalPast, NowLater DEF ApUnpersist, osVars, leaseVars,
    bounds
<1>4. CASE ApResidue
  BY <1>4, <1>0, LocPast, LivePast, JournalPast, NowLater DEF ApResidue, Stay, osVars,
    leaseVars, bounds
<1>5. CASE ApRemove
  BY <1>5, <1>0, LocPast, LivePast, JournalPast, NowLater DEF ApRemove, osVars, leaseVars,
    bounds
<1>6. CASE ApRetain
  <2>1. LocLater
    BY <1>6, <1>0, LocPast, NowLater DEF ApRetain, Stay, leaseVars, Past
  <2>2. LiveLater
    BY <1>6, <1>0, LivePast DEF ApRetain, Stay, leaseVars, Past
  <2>3. JournalLater
    <3>1. loc.rec \in Records
      BY FieldTypes
    <3>2. LaterRecord([loc.rec EXCEPT !.applied = loc.ev])
      BY <1>0, <3>1 DEF Past, LaterRecord, Records
    <3> QED BY <1>6, <1>0, <3>2, JournalPast DEF ApRetain
  <2> QED BY <1>0, <2>1, <2>2, <2>3
<1>7. CASE Done
  BY <1>7, <1>0, LocPast, LivePast, JournalPast, NowLater DEF Done, osVars, bounds
<1>8. CASE UpRead
  <2>1. LocLater
    <3>1. CASE loc' = [loc EXCEPT !.exp = Applied, !.rec = live.rec]
      <4>1. Later(Applied)
        BY <1>0 DEF Past, LaterRecord, Applied
      <4> QED BY <1>0, <3>1, <4>1, Shapes DEF Past, LocLater, Locals
    <3> QED BY <1>8, <1>0, <3>1, LocPast DEF UpRead
  <2>2. LiveLater
    BY <1>8, <1>0, LivePast DEF UpRead, Stay, leaseVars, Past
  <2>3. JournalLater
    BY <1>8, <1>0, JournalPast DEF UpRead, Stay, leaseVars, Past
  <2> QED BY <1>0, <2>1, <2>2, <2>3
<1>9. CASE UpPrepare
  <2>0. PICK r \in Records :
          /\ r.before = live.rec.before /\ r.applied = live.rec.applied /\ loc' = loc
          /\ live'.rec = r /\ PlainLive(live') /\ (Wrote(r) \/ WroteOrNot(r))
    BY <1>9, UpPrepareEffect DEF SameClaim
  <2>4. LaterRecord(r)
    BY <1>0, <2>0 DEF Past, LaterRecord
  <2>1. LocLater
    BY <1>0, <2>0, LocPast
  <2>2. LiveLater
    BY <1>0, <2>0, <2>4, LivePast
  <2>3. JournalLater
    BY <1>0, <2>0, <2>4, JournalPast
  <2> QED BY <1>0, <2>1, <2>2, <2>3
<1>10. CASE UpUnprepare
  <2>0. Finish /\ \E ok \in BOOLEAN : PersistLive(loc.rec, ok)
    BY <1>10 DEF UpUnprepare
  <2>4. live'.rec = loc.rec /\ PlainLive(live') /\ (Wrote(loc.rec) \/ WroteOrNot(loc.rec))
    BY <2>0, PersistLiveEffect
  <2>1. LocLater
    BY <1>0, <2>0, LocPast
  <2>2. LiveLater
    BY <1>0, <2>4, LivePast DEF Past
  <2>3. JournalLater
    BY <1>0, <2>4, JournalPast DEF Past
  <2> QED BY <1>0, <2>1, <2>2, <2>3
<1>11. CASE UpResidue
  <2>0. LaterRecord(live'.rec) /\ (Wrote(live'.rec) \/ WroteOrNot(live'.rec))
    <3>1. LaterRecord(Resumed(loc.rec, loc.id))
      BY <1>0, FieldTypes, ResumedFields DEF Past, LaterRecord, SameClaim, Records, Phases
    <3> QED BY <1>11, <1>0, <3>1, UpResidueEffect DEF Past, LaterRecord, SameClaim
  <2>1. LocLater
    BY <1>11, <1>0, LocPast DEF UpResidue
  <2>2. LiveLater
    BY <1>11, <1>0, <2>0, UpResidueEffect DEF Past, LiveLater, PlainLive
  <2>3. JournalLater
    BY <1>0, <2>0, JournalPast
  <2> QED BY <1>0, <2>1, <2>2, <2>3
<1>12. CASE RsStatus
  BY <1>12, <1>0, LocPast, LivePast, JournalPast, NowLater DEF RsStatus, Stay, osVars,
    leaseVars, bounds
<1>13. CASE RsRead
  <2>1. LocLater /\ LiveLater
    <3>1. CASE RsCompare
      <4>1. \/ loc' = loc /\ live' = live
            \/ /\ loc'.ev = Applied /\ loc'.tgt = live.rec.before /\ loc'.cur = loc.cur
               /\ loc'.exp = loc.exp /\ loc'.id = loc.id /\ loc'.rec = loc.rec
               /\ live'.rec = live.rec /\ live'.proof = None /\ live'.ev = Applied
               /\ live'.tgt = live.rec.before
               /\ live'.resume.before = live.rec.before /\ live'.resume.applied = None
        BY <3>1, RsCompareEffect DEF Variant, SameClaim
      <4>2. Later(Applied)
        BY <1>0 DEF Past, LaterRecord, Applied
      <4> QED BY <1>0, <4>1, <4>2, LocPast, LivePast DEF Past, LocLater, LiveLater, LaterRecord
    <3> QED BY <1>13, <1>0, <3>1, LocPast, LivePast, NowLater DEF RsRead, Stay
  <2>2. JournalLater
    BY <1>13, <1>0, JournalPast DEF RsRead
  <2> QED BY <1>0, <2>1, <2>2
<1>14. CASE RsReread
  <2>1. LocLater /\ LiveLater
    <3>1. CASE RsCompare
      <4>1. \/ loc' = loc /\ live' = live
            \/ /\ loc'.ev = Applied /\ loc'.tgt = live.rec.before /\ loc'.cur = loc.cur
               /\ loc'.exp = loc.exp /\ loc'.id = loc.id /\ loc'.rec = loc.rec
               /\ live'.rec = live.rec /\ live'.proof = None /\ live'.ev = Applied
               /\ live'.tgt = live.rec.before
               /\ live'.resume.before = live.rec.before /\ live'.resume.applied = None
        BY <3>1, RsCompareEffect DEF Variant, SameClaim
      <4>2. Later(Applied)
        BY <1>0 DEF Past, LaterRecord, Applied
      <4> QED BY <1>0, <4>1, <4>2, LocPast, LivePast DEF Past, LocLater, LiveLater, LaterRecord
    <3> QED BY <1>14, <1>0, <3>1, LocPast, LivePast, NowLater DEF RsReread, Stay
  <2>2. JournalLater
    BY <1>14, <1>0, JournalPast DEF RsReread
  <2> QED BY <1>0, <2>1, <2>2
<1>15. CASE RsRetain
  <2>0. /\ loc' = loc /\ live'.rec.before = live.rec.before /\ live'.rec.applied = loc.ev
        /\ live'.proof = None /\ live'.ev = loc.ev /\ live'.tgt = loc.tgt /\ live'.resume = live.resume
        /\ Wrote(live'.rec) \/ WroteOrNot(live'.rec)
    BY <1>15, RetainEffect DEF RsRetain, Stay, SameClaim
  <2>4. LaterRecord(live'.rec)
    BY <1>0, <2>0 DEF Past, LaterRecord
  <2>1. LocLater
    BY <1>0, <2>0, LocPast
  <2>2. LiveLater
    BY <1>0, <2>0, <2>4 DEF Past, LiveLater
  <2>3. JournalLater
    BY <1>0, <2>0, <2>4, JournalPast
  <2> QED BY <1>0, <2>1, <2>2, <2>3
<1>16. CASE RsRemove
  <2>1. LocLater
    BY <1>16, <1>0, LocPast, NowLater DEF RsRemove, Stay, leaseVars, Past
  <2>2. LiveLater
    <3>1. CASE live' = [live EXCEPT !.ev = loc.ev]
      BY <1>0, <3>1, Shapes DEF Past, LiveLater, LiveRecords
    <3> QED BY <1>16, <1>0, <3>1, LivePast DEF RsRemove
  <2>3. JournalLater
    BY <1>16, <1>0, JournalPast DEF RsRemove, Stay, leaseVars, Past
  <2> QED BY <1>0, <2>1, <2>2, <2>3
<1>17. CASE RsFail
  BY <1>17, <1>0, LocPast, LivePast, JournalPast, NowLater DEF RsFail, bounds
<1>18. CASE AbRemove
  BY <1>18, <1>0, LocPast, LivePast, JournalPast, NowLater DEF AbRemove, bounds
<1> QED BY <1>1, <1>2, <1>3, <1>4, <1>5, <1>6, <1>7, <1>8, <1>9, <1>10, <1>11, <1>12, <1>13, <1>14,
  <1>15, <1>16, <1>17, <1>18 DEF Leasing

LEMMA ReconcilingDated == TypeOK /\ Dated /\ Ages /\ scan = {} /\ Reconciling => Dated'
<1> SUFFICES ASSUME TypeOK, Dated, Ages, scan = {}, Reconciling PROVE Dated'
  OBVIOUS
<1>0. Past /\ (LocLater /\ LiveLater /\ JournalLater => Dated')
  BY PastStep
<1>1. CASE RcForget
  BY <1>1, <1>0, LocPast, LivePast, JournalPast, NowLater DEF RcForget, osVars, bounds
<1>2. CASE RcFirst
  BY <1>2, <1>0, LocPast, LivePast, JournalPast, NowLater DEF RcFirst, Stay, osVars, leaseVars,
    bounds
<1>3. CASE RcSecond
  <2>1. LocLater
    <3>1. CASE Finish \/ loc' = loc
      BY <1>0, <3>1, LocPast
    <3>2. CASE /\ loc'.rec.before \in OverlayBefore /\ loc'.rec.applied = None /\ loc'.exp = Now
               /\ loc'.cur = loc.cur /\ loc'.ev = loc.ev /\ loc'.tgt = loc.tgt /\ loc'.id = loc.id
      <4>1. loc'.rec.before \in {live.rec.before, Now}
        BY <3>2 DEF OverlayBefore
      <4> QED BY <1>0, <3>2, <4>1 DEF Past, LocLater, LaterRecord
    <3> QED BY <1>3, <3>1, <3>2, RcSecondEffect
  <2>2. LiveLater
    BY <1>3, <1>0, LivePast DEF RcSecond, Stay, leaseVars, Past
  <2>3. JournalLater
    BY <1>3, <1>0, JournalPast DEF RcSecond, Stay, leaseVars, Past
  <2> QED BY <1>0, <2>1, <2>2, <2>3
<1>4. CASE RcPrepare
  <2>0. /\ loc' = loc /\ (Wrote(loc.rec) \/ WroteOrNot(loc.rec))
        /\ live' = live \/ (live'.rec = loc.rec /\ PlainLive(live'))
    BY <1>4, RcPrepareEffect
  <2>1. LocLater
    BY <1>0, <2>0, LocPast
  <2>2. LiveLater
    BY <1>0, <2>0, LivePast DEF Past
  <2>3. JournalLater
    BY <1>0, <2>0, JournalPast DEF Past
  <2> QED BY <1>0, <2>1, <2>2, <2>3
<1>5. CASE RcUnprepare
  <2>1. LocLater
    BY <1>5, <1>0, LocPast, NowLater DEF RcUnprepare, Stay, leaseVars, Past
  <2>2. LiveLater
    <3>1. CASE UNCHANGED live
      BY <1>0, <3>1, LivePast
    <3>2. CASE \E x : live' = [live EXCEPT !.repair = x]
      BY <1>0, <3>2, Shapes DEF Past, LiveLater, LiveRecords
    <3> QED BY <1>5, <3>1, <3>2 DEF RcUnprepare
  <2>3. JournalLater
    BY <1>5, <1>0, JournalPast DEF RcUnprepare, Stay, leaseVars, Past
  <2> QED BY <1>0, <2>1, <2>2, <2>3
<1>6. CASE RcResidue
  <2>1. LocLater
    BY <1>6, <1>0, LocPast DEF RcResidue
  <2>2. LiveLater
    BY <1>6, <1>0, RcResidueEffect DEF Past, LiveLater, PlainLive
  <2>3. JournalLater
    BY <1>6, <1>0, JournalPast DEF RcResidue
  <2> QED BY <1>0, <2>1, <2>2, <2>3
<1> QED BY <1>1, <1>2, <1>3, <1>4, <1>5, <1>6 DEF Reconciling

LEMMA RecoveringDated == TypeOK /\ Dated /\ Ages /\ scan = {} /\ Recovering => Dated'
<1> SUFFICES ASSUME TypeOK, Dated, Ages, scan = {}, Recovering PROVE Dated'
  OBVIOUS
<1>0. Past /\ (LocLater /\ LiveLater /\ JournalLater => Dated')
  BY PastStep
<1>1. CASE RecoverLock
  BY <1>1 DEF RecoverLock
<1>2. CASE RecStatus
  BY <1>2, <1>0, LocPast, LivePast, JournalPast, NowLater DEF RecStatus, Stay, osVars,
    leaseVars, bounds
<1>3. CASE RecCapture
  <2>1. LocLater
    <3>1. CASE Finish \/ loc' = loc
      BY <1>0, <3>1, LocPast
    <3>2. CASE loc' = [loc EXCEPT !.ev = loc.rec.applied, !.tgt = loc.rec.before, !.ret = "recover"]
      BY <1>0, <3>2, Shapes DEF Past, LocLater, LaterRecord, Locals
    <3> QED BY <1>3, <3>1, <3>2 DEF RecCapture, Stay
  <2>2. LiveLater
    BY <1>3, <1>0, LivePast DEF RecCapture, Stay, leaseVars, Past
  <2>3. JournalLater
    BY <1>3, <1>0, JournalPast DEF RecCapture, Stay, leaseVars, Past
  <2> QED BY <1>0, <2>1, <2>2, <2>3
<1>4. CASE RecRemove
  <2>1. LocLater
    <3>1. CASE loc' = [NoLoc EXCEPT !.plan = loc.plan]
      BY <1>0, <3>1 DEF NoLoc, Past, LocLater
    <3> QED BY <1>4, <1>0, <3>1, LocPast DEF RecRemove
  <2>2. LiveLater
    BY <1>4, <1>0, LivePast DEF RecRemove, Stay, leaseVars, Past
  <2>3. JournalLater
    BY <1>4, <1>0, JournalPast DEF RecRemove, Stay, leaseVars, Past
  <2> QED BY <1>0, <2>1, <2>2, <2>3
<1>5. CASE RecRetain
  <2>1. LocLater
    BY <1>5, <1>0, LocPast, NowLater DEF RecRetain, Stay, leaseVars, Past
  <2>2. LiveLater
    BY <1>5, <1>0, LivePast DEF RecRetain, Stay, leaseVars, Past
  <2>3. JournalLater
    <3>1. loc.rec \in Records
      BY FieldTypes
    <3>2. LaterRecord([loc.rec EXCEPT !.phase = "Prepared", !.applied = loc.ev])
      BY <1>0, <3>1 DEF Past, LaterRecord, Records
    <3> QED BY <1>5, <1>0, <3>2, JournalPast DEF RecRetain
  <2> QED BY <1>0, <2>1, <2>2, <2>3
<1> QED BY <1>1, <1>2, <1>3, <1>4, <1>5 DEF Recovering

LEMMA CallsDated == TypeOK /\ Dated /\ Ages /\ scan = {} /\ Calls => Dated'
<1> SUFFICES ASSUME TypeOK, Dated, Ages, scan = {}, Calls PROVE Dated'
  OBVIOUS
<1>0. Past /\ (LocLater /\ LiveLater /\ JournalLater => Dated')
  BY PastStep
<1>1. CASE \E plan \in Plans : ApplyStart(plan)
  <2>1. LocLater
    BY <1>1, <1>0, ApplyStartEffect DEF Past, LocLater
  <2>2. LiveLater
    BY <1>1, <1>0, LivePast DEF ApplyStart, Stay, leaseVars, Past
  <2>3. JournalLater
    BY <1>1, <1>0, JournalPast DEF ApplyStart, Stay, leaseVars, Past
  <2> QED BY <1>0, <2>1, <2>2, <2>3
<1>2. CASE \E plan \in Plans : UpdateStart(plan)
  <2>1. LocLater
    BY <1>2, <1>0 DEF UpdateStart, NoLoc, Past, LocLater
  <2>2. LiveLater
    BY <1>2, <1>0, LivePast DEF UpdateStart, Stay, leaseVars, Past
  <2>3. JournalLater
    BY <1>2, <1>0, JournalPast DEF UpdateStart, Stay, leaseVars, Past
  <2> QED BY <1>0, <2>1, <2>2, <2>3
<1>3. CASE \E how \in {"restore", "drop"} : RestoreStart(how)
  <2>1. LocLater
    BY <1>3, <1>0 DEF RestoreStart, NoLoc, Past, LocLater
  <2>2. LiveLater
    BY <1>3, <1>0, LivePast DEF RestoreStart, Stay, leaseVars, Past
  <2>3. JournalLater
    BY <1>3, <1>0, JournalPast DEF RestoreStart, Stay, leaseVars, Past
  <2> QED BY <1>0, <2>1, <2>2, <2>3
<1>4. CASE \E how \in {"abandon", "drop", "discard"} : AbandonStart(how)
  <2>1. LocLater
    <3>1. PICK r : loc' = [NoLoc EXCEPT !.rec = r] /\ (r = live.rec \/ r \in journal)
      BY <1>4 DEF AbandonStart
    <3> QED BY <1>0, <3>1 DEF NoLoc, Past, LocLater
  <2>2. LiveLater
    BY <1>4, <1>0, LivePast DEF AbandonStart, Stay, leaseVars, Past
  <2>3. JournalLater
    BY <1>4, <1>0, JournalPast DEF AbandonStart, Stay, leaseVars, Past
  <2> QED BY <1>0, <2>1, <2>2, <2>3
<1>5. CASE RecoverScan
  BY <1>5, <1>0, LocPast, LivePast, JournalPast, NowLater DEF RecoverScan, osVars, leaseVars
<1>6. CASE RecoverNow
  <2>1. LocLater
    <3>1. CASE UNCHANGED loc
      BY <1>0, <3>1, LocPast
    <3>2. CASE \E r \in journal : RecoverBegins(r)
      <4>1. PICK r \in journal : RecoverBegins(r)
        BY <3>2
      <4> QED BY <1>0, <4>1, RecoverBeginsEffect DEF Past, LocLater
    <3> QED BY <1>6, <3>1, <3>2 DEF RecoverNow
  <2>2. LiveLater
    BY <1>6, <1>0, LivePast DEF RecoverNow, Stay, leaseVars, Past
  <2>3. JournalLater
    BY <1>6, <1>0, JournalPast DEF RecoverNow, Stay, leaseVars, Past
  <2> QED BY <1>0, <2>1, <2>2, <2>3
<1> QED BY <1>1, <1>2, <1>3, <1>4, <1>5, <1>6 DEF Calls

LEMMA EnvironmentDated == TypeOK /\ Dated /\ Ages /\ scan = {} /\ Environment => Dated'
<1> SUFFICES ASSUME TypeOK, Dated, Ages, scan = {}, Environment PROVE Dated'
  OBVIOUS
<1>0. Past /\ (LocLater /\ LiveLater /\ JournalLater => Dated')
  BY PastStep
<1>1. CASE \E s \in Foreign : ExternalChange(s)
  BY <1>1, <1>0, LocPast, LivePast, JournalPast, NowLater DEF ExternalChange, EnvUnchanged,
    leaseVars
<1>2. CASE \E s \in Foreign : ExternalReplacement(s)
  BY <1>2, <1>0, LocPast, LivePast, JournalPast, NowLater DEF ExternalReplacement, EnvUnchanged,
    leaseVars
<1>3. CASE ExternalRemoval
  BY <1>3, <1>0, LocPast, LivePast, JournalPast, NowLater DEF ExternalRemoval, EnvUnchanged,
    leaseVars
<1>4. CASE Crash
  BY <1>4, <1>0, LocPast, LivePast, JournalPast, NowLater DEF Crash, bounds
<1> QED BY <1>1, <1>2, <1>3, <1>4 DEF Environment

LEMMA ReconcileStartDated == TypeOK /\ Dated /\ Ages /\ scan = {} /\ ReconcileStart => Dated'
<1> SUFFICES ASSUME TypeOK, Dated, Ages, scan = {}, ReconcileStart PROVE Dated'
  OBVIOUS
<1>0. Past /\ (LocLater /\ LiveLater /\ JournalLater => Dated')
  BY PastStep
<1>1. CASE ReconcileStart
  <2>1. LocLater
    BY <1>1, <1>0 DEF ReconcileStart, NoLoc, Past, LocLater
  <2>2. LiveLater
    BY <1>1, <1>0, LivePast DEF ReconcileStart, Stay, leaseVars, Past
  <2>3. JournalLater
    BY <1>1, <1>0, JournalPast DEF ReconcileStart, Stay, leaseVars, Past
  <2> QED BY <1>0, <2>1, <2>2, <2>3
<1> QED BY <1>1

LEMMA InitDated == Init => Dated
<1> SUFFICES ASSUME Init PROVE Dated
  OBVIOUS
<1>1. Old(None)
  BY DEF Init, Old, None
<1>2. OldRecord(NoRecord)
  BY <1>1 DEF OldRecord, NoRecord
<1> QED BY <1>1, <1>2, NoLocFields, NoLiveFields DEF Init, Dated

-----------------------------------------------------------------------------
(***************************************************************************)
(* Evidence. x is sound for the record r: where x names the current state, *)
(* the resource is the one r claims, and the state is ours or the state r  *)
(* gives back.                                                             *)
(***************************************************************************)
Sound(x, r) ==
    x = Now /\ native.up => native.inc = r.inc /\ (author # "ext" \/ r.before.dns = native.dns)

\* The record the operation works on.
Claim == IF op \in {"apply", "recover"} THEN loc.rec ELSE live.rec

\* Where an operation relies on the evidence it holds, on the target it returns
\* to and on the identity of a state it has returned to.
Attests ==
    \/ pc \in {"mut.status", "mut.readback", "mut.verify", "rv.retain", "rec.retain"} \cup CompLabels
    \/ pc = "residue" /\ loc.res = "Pending"
    \/ op \in {"restore", "drop"}

Undoes ==
    \/ pc \in CompLabels \cup {"rv.retain", "rs.retain"}
    \/ pc = "residue" /\ loc.res = "Pending"

Undone == pc = "rv.resume" \/ (pc = "residue" /\ loc.res = "Restored")

SoundJournal == \A r \in journal : Sound(r.applied, r)

SoundLive ==
    /\ Sound(live.rec.applied, live.rec) /\ Sound(live.proof, live.rec)
    /\ Sound(live.ev, live.rec) /\ Sound(live.tgt, live.rec)
    /\ Sound(live.resume.applied, live.rec)

SoundLoc ==
    /\ pc = "ap.persist" => Sound(loc.rec.applied, loc.rec)
    /\ pc \in {"rc.prepare", "rc.unprepare"} => loc.rec.applied = None
    /\ Attests => Sound(loc.ev, Claim)
    /\ Undoes => Sound(loc.tgt, Claim)
    /\ Undone => Sound(loc.id, Claim)
    /\ pc \in MutLabels \ {"mut.bind"} => Sound(loc.exp, Claim)
    /\ op = "update" /\ (Mutates \/ pc \in {"up.prepare", "up.unprepare"}) =>
          Sound(loc.rec.applied, loc.rec)
    /\ Recovers => Sound(loc.rec.applied, loc.rec)

\* A compensation goes away from a state that is not its target; a restore goes
\* away from one that is not the original.
Aims == pc \in {"comp.status", "comp.read", "comp.bind", "comp.cas"}

Apart ==
    /\ pc \in {"comp.bind", "comp.cas"} => loc.ev.dns # loc.tgt.dns
    /\ op \in {"restore", "drop"} /\ Aims =>
          (loc.ev = Now => native.dns # live.rec.before.dns)
    /\ op \in {"restore", "drop"} /\ pc = "rv.start" =>
          (live.ev = Now => native.dns # live.rec.before.dns)

Evidence == harm = "none" /\ SoundJournal /\ SoundLive /\ SoundLoc /\ Apart

\* The same, after the step.
Still(x, r) ==
    x = Snap(native') /\ native'.up =>
        native'.inc = r.inc /\ (author' # "ext" \/ r.before.dns = native'.dns)

JournalStill == \A r \in journal' : Still(r.applied, r)

LiveStill ==
    /\ Still(live'.rec.applied, live'.rec) /\ Still(live'.proof, live'.rec)
    /\ Still(live'.ev, live'.rec) /\ Still(live'.tgt, live'.rec)
    /\ Still(live'.resume.applied, live'.rec)

LocStill ==
    /\ pc' = "ap.persist" => Still(loc'.rec.applied, loc'.rec)
    /\ pc' \in {"rc.prepare", "rc.unprepare"} => loc'.rec.applied = None
    /\ Attests' => Still(loc'.ev, Claim')
    /\ Undoes' => Still(loc'.tgt, Claim')
    /\ Undone' => Still(loc'.id, Claim')
    /\ pc' \in MutLabels \ {"mut.bind"} => Still(loc'.exp, Claim')
    /\ op' = "update" /\ (Mutates' \/ pc' \in {"up.prepare", "up.unprepare"}) =>
          Still(loc'.rec.applied, loc'.rec)
    /\ Recovers' => Still(loc'.rec.applied, loc'.rec)

LEMMA EvidenceParts ==
    ASSUME harm' = "none", JournalStill, LiveStill, LocStill, Apart'
    PROVE  Evidence'
<1>1. SoundJournal' /\ SoundLive'
  BY DEF JournalStill, LiveStill, SoundJournal, SoundLive, Sound, Still, Now
<1>2. SoundLoc'
  BY DEF LocStill, SoundLoc, Sound, Still, Now
<1> QED BY <1>1, <1>2 DEF Evidence

\* What was sound stays so.
Stays == \A x, r : Sound(x, r) => Still(x, r)

LEMMA UnwrittenStays ==
    ASSUME native' = native, author' = author \/ (author = "us" /\ author' = "waived")
    PROVE  Stays
BY DEF Stays, Sound, Still, Now

\* A snapshot from before a write names nothing after it.
LEMMA RewrittenStays ==
    ASSUME TypeOK, native'.gen = native.gen + 1 \/ ~native'.up, NEW x, Old(x), NEW r
    PROVE  Still(x, r)
<1>1. native.gen \in Nat
  BY DEF TypeOK, Resources
<1>2. CASE ~native'.up
  BY <1>2 DEF Still
<1>3. CASE native'.gen = native.gen + 1
  <2>1. x.gen # native'.gen
    BY <1>1, <1>3 DEF Old
  <2> QED BY <2>1 DEF Still, Snap
<1> QED BY <1>2, <1>3

LEMMA NoneStill == ASSUME Hosted', NEW r PROVE Still(None, r)
BY DEF Hosted, Still, None, Snap

\* Records of one claim vouch for the same.
LEMMA SoundAlias ==
    ASSUME NEW r, NEW q, SameClaim(r, q), NEW x
    PROVE  (Sound(x, r) <=> Sound(x, q)) /\ (Still(x, r) <=> Still(x, q))
BY DEF SameClaim, SameLease, Sound, Still

LEMMA JournalHeld ==
    ASSUME SoundJournal, Stays, NEW r
    PROVE  /\ \A ok \in BOOLEAN : JournalWrite(r, ok) /\ Still(r.applied, r) => JournalStill
           /\ \A ok \in BOOLEAN : JournalRemove(r, ok) => JournalStill
           /\ (Wrote(r) \/ WroteOrNot(r)) /\ Still(r.applied, r) => JournalStill
           /\ UNCHANGED journal => JournalStill
BY DEF SoundJournal, Stays, JournalStill, JournalWrite, JournalRemove, Published, PublishedOrNot,
  Unlinked, UnlinkedOrNot, Wrote, WroteOrNot

LEMMA LiveHeld ==
    ASSUME SoundLive, Stays, Hosted'
    PROVE  /\ UNCHANGED live => LiveStill
           /\ PlainLive(live') /\ Still(live'.rec.applied, live'.rec) => LiveStill
<1>1. UNCHANGED live => LiveStill
  BY DEF SoundLive, Stays, LiveStill
<1>2. NoRecord.applied = None
  BY DEF NoRecord
<1>3. PlainLive(live') /\ Still(live'.rec.applied, live'.rec) => LiveStill
  BY <1>2, NoneStill DEF PlainLive, LiveStill
<1> QED BY <1>1, <1>3

\* An operation that has ended holds nothing.
LEMMA LocEnds == ASSUME pc' = "idle", op' = "none" PROVE LocStill /\ Apart'
BY DEF LocStill, Apart, Aims, Attests, Undoes, Undone, Mutates, Recovers, MutLabels, CompLabels

\* The labels at which only a restore holds evidence.
Resting == {"done", "up.read", "rc.first", "rc.second", "rc.forget", "ap.observe", "ap.unpersist",
            "ap.remove", "rv.start", "rv.read", "rv.status", "rv.write", "ab.remove", "rs.status",
            "rs.read", "rs.reread", "rs.remove", "rs.fail"}

LEMMA LocRests ==
    ASSUME pc' \in Resting, op' \in {"restore", "drop"} => Still(loc'.ev, live'.rec)
    PROVE  LocStill /\ (pc' # "rv.start" \/ op' \notin {"restore", "drop"} => Apart')
<1>1. LocStill
  BY DEF Resting, LocStill, Attests, Undoes, Undone, Mutates, Recovers, Claim, MutLabels, CompLabels
<1>2. pc' # "rv.start" \/ op' \notin {"restore", "drop"} => Apart'
  BY DEF Resting, Apart, Aims
<1> QED BY <1>1, <1>2

-----------------------------------------------------------------------------
(***************************************************************************)
(* The writes.                                                             *)
(***************************************************************************)
LEMMA OsWriteGen ==
    ASSUME TypeOK, Guarded, NEW s, OsWrite(s) PROVE native'.gen = native.gen + 1
BY WrittenGen DEF OsWrite, Guarded

\* A write over a state that the evidence names is harmless, and the evidence it
\* issues is sound.
LEMMA OsWriteSound ==
    ASSUME TypeOK, Hosted, NEW r, Sound(Now, r), native.up, Ours => Anchor(r), harm = "none",
           author # "ext" \/ Recorded, NEW s, OsWrite(s)
    PROVE  harm' = "none" /\ Still(Snap(native'), r)
<1>1. harm' = "none"
  BY DEF OsWrite
<1>2. native'.inc = native.inc /\ native'.dns = s
  BY OsWriteFrame
<1>3. native.inc = r.inc /\ (author # "ext" \/ r.before.dns = native.dns)
  BY DEF Sound
<1>4. author' = "ext" => s = IF author = "ext" THEN native.dns ELSE base
  BY DEF OsWrite
<1>5. author # "ext" => r.before.dns = base
  BY DEF Ours, Anchor
<1>6. author' # "ext" \/ r.before.dns = s
  BY <1>3, <1>4, <1>5
<1> QED BY <1>1, <1>2, <1>3, <1>6 DEF Still

\* The record of a mutation, and of a compensation under an active lease, is in
\* the journal.
LEMMA ClaimRecorded ==
    ASSUME Control, Own, Journaled, Mirrored, native.up, native.inc = Claim.inc,
           Mutates \/ (pc \in CompLabels /\ op \in {"update", "reconcile"}),
           Claim.before.dns = native.dns
    PROVE  Recorded
<1>1. op \in {"apply", "update", "reconcile"}
  BY DEF Control, Located, Mutates, MutLabels, CompLabels
<1>2. CASE op = "apply"
  <2>1. journal = {loc.rec} /\ Claim = loc.rec
    BY <1>2 DEF Journaled, Claim
  <2> QED BY <2>1 DEF Recorded
<1>3. CASE op \in {"update", "reconcile"}
  <2>1. Claim = live.rec /\ Holding /\ Alive
    BY <1>3 DEF Claim, Holding, Alive, Control, Calling
  <2>2. phase # "none" /\ ~live.repair /\ pc # "rc.unprepare"
    BY <1>3 DEF Control, Calling, Repairing, Mutates, MutLabels, CompLabels
  <2>3. PICK q \in journal : q.inc = live.rec.inc /\ q.before = live.rec.before
    BY <2>1, <2>2 DEF Mirrored, Journaled, SameLease
  <2> QED BY <2>1, <2>3 DEF Recorded, Alive
<1> QED BY <1>1, <1>2, <1>3

\* What it works on anchors a state of ours.
LEMMA WorkAnchored ==
    ASSUME Control, Journaled, OneClaim, ~ScanBeforeLock, Kept, pc \in MutLabels \cup CompLabels
    PROVE  Ours => Anchor(Claim)
<1>1. CASE op \in {"apply", "recover"}
  <2>1. Claim = loc.rec
    BY <1>1 DEF Claim
  <2>2. op = "recover" => Recovers
    BY DEF Recovers, Control, Located, MutLabels, CompLabels
  <2>3. pc \notin {"ap.observe", "ap.persist"}
    BY DEF MutLabels, CompLabels
  <2> QED BY <1>1, <2>1, <2>2, <2>3, ClaimAnchor
<1>2. CASE op \notin {"apply", "recover"}
  <2>1. Claim = live.rec /\ phase # "none"
    BY <1>2 DEF Claim, Control, Calling, Located, MutLabels, CompLabels
  <2> QED BY <2>1 DEF Kept
<1> QED BY <1>1, <1>2

\* A step without a write, up to what it leaves in the local variables.
LEMMA SoundHolds ==
    ASSUME TypeOK, Hosted', Evidence, UNCHANGED <<native, author, harm, journal, live>>
    PROVE  harm' = "none" /\ JournalStill /\ LiveStill /\ Stays /\ Now' = Now
<1>1. Stays
  BY UnwrittenStays
<1> QED BY <1>1, JournalHeld, LiveHeld DEF Evidence, Now

\* A write of ours: what was held before it names nothing any more.
LEMMA SoundRewrites ==
    ASSUME TypeOK, Dated, native'.gen = native.gen + 1 \/ ~native'.up,
           UNCHANGED <<journal, live>>
    PROVE  JournalStill /\ LiveStill
BY RewrittenStays DEF Dated, OldRecord, JournalStill, LiveStill

LEMMA MutatingEvidence ==
    ASSUME TypeOK, Control, Own, Journaled, Mirrored, OneClaim, ~ScanBeforeLock, Guarded, Hosted,
           Routed, Intent, Kept, Dated, Evidence, Mutating
    PROVE  Evidence'
<1>1. /\ pc \in MutLabels /\ op' = op /\ loc'.rec = loc.rec /\ loc'.exp = loc.exp
      /\ native'.inc = native.inc /\ native'.up = native.up /\ UNCHANGED <<journal, phase>>
  BY MutatingFrame DEF MutatingKeeps
<1>2. op \in {"apply", "update", "reconcile"} /\ Mutates
  BY <1>1 DEF Control, Located, Mutates
<1>3. Hosted'
  BY MutatingHosted
<1>4. op = "update" => Sound(loc.rec.applied, loc.rec)
  BY <1>2 DEF Evidence, SoundLoc
<1>5. live' = live => Claim' = Claim
  BY <1>1 DEF Claim
\* The three ways on: the next label, the rollback, the rejection.
<1>6. ASSUME Stays, Now' = Now, live' = live,
             \/ Rejected
             \/ \E x : Rollback(x) /\ Still(x, Claim) /\ Sound(loc.exp, Claim)
             \/ /\ pc' \in MutLabels \ {"mut.bind"} /\ Sound(loc.exp, Claim)
                /\ pc' \in {"mut.status", "mut.readback", "mut.verify"} => Still(loc'.ev, Claim)
      PROVE  LocStill /\ Apart'
  <2>1. op' = "update" => Still(loc'.rec.applied, loc'.rec)
    BY <1>1, <1>4, <1>6 DEF Stays
  <2>2. CASE Rejected
    <3>1. pc' = "residue" /\ loc'.res = "Unchanged"
      BY <2>2, Handovers
    <3> QED BY <1>1, <1>2, <2>1, <3>1 DEF LocStill, Apart, Aims, Attests, Undoes, Undone,
        Recovers, MutLabels,
          CompLabels
  <2>3. CASE \E x : Rollback(x) /\ Still(x, Claim) /\ Sound(loc.exp, Claim)
    <3>1. pc' = "comp.status" /\ loc'.ret = "residue" /\ Still(loc'.ev, Claim) /\ loc'.tgt = loc.exp
      BY <2>3, Handovers
    <3>2. Still(loc'.tgt, Claim)
      BY <1>6, <2>3, <3>1 DEF Stays
    <3> QED BY <1>1, <1>2, <1>5, <1>6, <2>1, <3>1, <3>2 DEF LocStill, Apart, Aims, Attests,
        Undoes, Undone,
          Recovers, MutLabels, CompLabels
  <2>4. CASE /\ pc' \in MutLabels \ {"mut.bind"} /\ Sound(loc.exp, Claim)
             /\ pc' \in {"mut.status", "mut.readback", "mut.verify"} => Still(loc'.ev, Claim)
    <3>1. Still(loc'.exp, Claim')
      BY <1>1, <1>5, <1>6, <2>4 DEF Stays
    <3> QED BY <1>1, <1>2, <1>5, <1>6, <2>1, <2>4, <3>1 DEF LocStill, Apart, Aims, Attests,
        Undoes, Undone,
          Recovers, MutLabels, CompLabels
  <2> QED BY <1>6, <2>2, <2>3, <2>4
<1>7. ASSUME UNCHANGED <<native, author, harm, live>>,
             \/ Rejected
             \/ \E x : Rollback(x) /\ Still(x, Claim) /\ Sound(loc.exp, Claim)
             \/ /\ pc' \in MutLabels \ {"mut.bind"} /\ Sound(loc.exp, Claim)
                /\ pc' \in {"mut.status", "mut.readback", "mut.verify"} => Still(loc'.ev, Claim)
      PROVE  Evidence'
  BY <1>1, <1>3, <1>6, <1>7, SoundHolds, EvidenceParts
<1>8. pc # "mut.bind" => Sound(loc.exp, Claim)
  BY <1>1 DEF Evidence, SoundLoc
<1>9. pc \in {"mut.status", "mut.readback", "mut.verify"} => Sound(loc.ev, Claim)
  BY DEF Evidence, SoundLoc, Attests
<1>10. CASE MutBind
  <2>1. UNCHANGED <<native, author, harm, live>>
    BY <1>10 DEF MutBind, osVars, leaseVars
  <2>2. CASE Same /\ Goto("mut.cas")
    <3>1. native.inc = loc.inc
      BY <2>2 DEF Same, ResourceStatus
    <3>2. ASSUME op = "apply" PROVE Sound(loc.exp, Claim)
      <4>1. Claim = loc.rec /\ loc.exp = loc.rec.before /\ loc.inc = loc.rec.inc
        BY <1>2, <3>2 DEF Claim, Own, Intent, Planned
      <4> QED BY <3>1, <4>1, NowFields DEF Sound
    <3>3. ASSUME op = "reconcile" PROVE Sound(loc.exp, Claim)
      <4>1. Claim = live.rec /\ loc.exp.dns = live.rec.before.dns /\ loc.inc = live.rec.inc
        BY <1>2, <3>3 DEF Claim, Own, Intent, Planned
      <4> QED BY <3>1, <4>1, NowFields DEF Sound
    <3>4. ASSUME op = "update" PROVE Sound(loc.exp, Claim)
      <4>1. Claim = live.rec /\ loc.exp = loc.rec.applied /\ SameClaim(loc.rec, live.rec)
        BY <1>2, <3>4 DEF Claim, Own, Intent, Planned
      <4> QED BY <1>4, <3>4, <4>1, SoundAlias
    <3>5. Sound(loc.exp, Claim)
      BY <1>2, <3>2, <3>3, <3>4
    <3> QED BY <1>7, <2>1, <2>2, <3>5 DEF Goto, MutLabels
  <2> QED BY <1>7, <1>10, <2>1, <2>2 DEF MutBind, Guarded
<1>11. CASE MutCas
  <2>0. pc = "mut.cas" /\ live' = live
    BY <1>11 DEF MutCas, leaseVars
  <2>1. CASE NativeUnchanged /\ Rollback(None)
    BY <1>3, <1>7, <1>8, <2>0, <2>1, NoneStill DEF NativeUnchanged
  <2>2. CASE NativeUnchanged /\ Rejected
    BY <1>7, <2>0, <2>2 DEF NativeUnchanged
  <2>3. CASE /\ native.up /\ Now = loc.exp /\ OsWrite(MergeState(native.dns, loc.plan))
             /\ \/ Goto("mut.status") /\ loc' = [loc EXCEPT !.ev = Snap(native')]
                \/ Rollback(Snap(native'))
    <3>1. native.inc = Claim.inc /\ (author # "ext" \/ Claim.before.dns = native.dns)
      BY <1>8, <2>0, <2>3 DEF Sound
    <3>2. author # "ext" \/ Recorded
      BY <1>2, <2>3, <3>1, ClaimRecorded
    <3>3. harm' = "none" /\ Still(Snap(native'), Claim)
      <4>1. Ours => Anchor(Claim)
        BY <1>1, WorkAnchored
      <4>2. Sound(Now, Claim) /\ harm = "none"
        BY <1>8, <2>0, <2>3 DEF Evidence
      <4> HIDE DEF Sound
      <4> QED BY <2>3, <3>2, <4>1, <4>2, OsWriteSound
    <3>4. native'.gen = native.gen + 1
      BY <2>3, OsWriteGen
    <3>5. JournalStill /\ LiveStill
      BY <1>1, <2>0, <3>4, SoundRewrites
    <3>6. Still(loc.exp, Claim) /\ Still(loc.rec.applied, loc.rec)
      BY <3>4, RewrittenStays DEF Dated, OldRecord
    <3>7. LocStill /\ Apart'
      <4>1. CASE Goto("mut.status") /\ loc' = [loc EXCEPT !.ev = Snap(native')]
        <5>1. pc' = "mut.status" /\ Still(loc'.ev, Claim)
          BY <3>3, <4>1, Shapes DEF Goto, Locals
        <5> QED BY <1>1, <1>2, <1>5, <2>0, <3>6, <5>1 DEF LocStill, Apart, Aims, Attests, Undoes,
            Undone, Recovers,
              MutLabels, CompLabels
      <4>2. CASE Rollback(Snap(native'))
        <5>1. pc' = "comp.status" /\ loc'.ret = "residue" /\ Still(loc'.ev, Claim) /\ loc'.tgt = loc.exp
          BY <3>3, <4>2, Handovers
        <5> QED BY <1>1, <1>2, <1>5, <2>0, <3>6, <5>1 DEF LocStill, Apart, Aims, Attests, Undoes,
            Undone, Recovers,
              MutLabels, CompLabels
      <4> QED BY <2>3, <4>1, <4>2
    <3> QED BY <3>3, <3>5, <3>7, EvidenceParts
  <2> QED BY <1>11, <2>1, <2>2, <2>3 DEF MutCas
<1>12. CASE MutCheck \/ MutRecheck \/ MutWrite
  BY <1>12 DEF MutCheck, MutRecheck, MutWrite, Routed, Guarded
<1>13. CASE MutStatus
  <2>1. pc = "mut.status" /\ UNCHANGED <<native, author, harm, live>>
    BY <1>13 DEF MutStatus, osVars, leaseVars
  <2>2. Still(loc.ev, Claim) /\ Sound(loc.exp, Claim)
    BY <1>8, <1>9, <2>1, UnwrittenStays DEF Stays
  <2> QED BY <1>7, <1>13, <2>1, <2>2 DEF MutStatus, Goto, Stay, MutLabels
<1>14. CASE MutReadback
  <2>1. pc = "mut.readback" /\ UNCHANGED <<native, author, harm, live>>
    BY <1>14 DEF MutReadback, osVars, leaseVars
  <2>2. Still(loc.ev, Claim) /\ Sound(loc.exp, Claim)
    BY <1>8, <1>9, <2>1, UnwrittenStays DEF Stays
  <2>3. CASE Goto("mut.verify") /\ loc' = [loc EXCEPT !.cur = Now]
    <3>1. pc' = "mut.verify" /\ loc'.ev = loc.ev
      BY <2>3, Shapes DEF Goto, Locals
    <3> QED BY <1>7, <2>1, <2>2, <3>1 DEF MutLabels
  <2> QED BY <1>7, <1>14, <2>1, <2>2, <2>3 DEF MutReadback
<1>15. CASE MutVerify
  <2>1. pc = "mut.verify" /\ UNCHANGED <<native, author, harm>>
    BY <1>15 DEF MutVerify, osVars
  <2>2. Stays
    BY <2>1, UnwrittenStays
  <2>3. Still(loc.ev, Claim) /\ Sound(loc.exp, Claim)
    BY <1>8, <1>9, <2>1, <2>2 DEF Stays
  <2>4. CASE live' = LiveVerified(Claim, Proof) /\ Goto("rv.start")
    <3>1. /\ live'.rec = Claim /\ live'.proof = Proof /\ live'.ev = None /\ live'.tgt = None
          /\ live'.resume.applied = None
      BY <2>4 DEF LiveVerified, LiveAs, NoRecord
    <3>2. Proof \in {loc.ev, None}
      BY DEF Proof, Guarded
    <3>3. Still(Claim.applied, Claim)
      <4>1. CASE op = "apply"
        <5>1. Claim = loc.rec /\ journal = {loc.rec}
          BY <1>2, <4>1 DEF Claim, Journaled
        <5> QED BY <2>2, <5>1 DEF Evidence, SoundJournal, Stays
      <4>2. CASE op # "apply"
        <5>1. Claim = live.rec
          BY <1>2, <4>2 DEF Claim
        <5> QED BY <2>2, <5>1 DEF Evidence, SoundLive, Stays
      <4> QED BY <4>1, <4>2
    <3>4. LiveStill
      BY <1>3, <2>3, <3>1, <3>2, <3>3, NoneStill DEF LiveStill
    <3>5. LocStill /\ Apart'
      BY <1>1, <1>2, <2>4, LocRests DEF Goto, Resting, Apart, Aims
    <3>6. JournalStill
      BY <1>1, <2>2, JournalHeld DEF Evidence
    <3> QED BY <2>1, <3>4, <3>5, <3>6, EvidenceParts DEF Evidence
  <2>5. CASE Rollback(loc.ev) /\ UNCHANGED live
    BY <1>7, <2>1, <2>3, <2>5
  <2>6. (IF op = "apply" THEN loc.rec ELSE live.rec) = Claim
    BY <1>2 DEF Claim
  <2> QED BY <1>15, <2>4, <2>5, <2>6 DEF MutVerify
<1> QED BY <1>10, <1>11, <1>12, <1>13, <1>14, <1>15 DEF Mutating

LEMMA CompensatingEvidence ==
    ASSUME TypeOK, Control, Own, Journaled, Mirrored, OneClaim, ~ScanBeforeLock, Guarded, Hosted,
           Routed, Intent, Kept, Dated, Evidence, Compensating
    PROVE  Evidence'
<1>1. /\ pc \in CompLabels /\ op' = op /\ loc'.rec = loc.rec /\ loc'.tgt = loc.tgt
      /\ loc'.ret = loc.ret /\ native'.up = native.up /\ UNCHANGED <<journal, live, phase>>
      /\ Claim' = Claim
  BY CompensatingFrame DEF CompensatingKeeps, Claim
<1>2. /\ Sound(loc.ev, Claim) /\ Sound(loc.tgt, Claim)
      /\ op = "update" /\ Mutates => Sound(loc.rec.applied, loc.rec)
      /\ Recovers => Sound(loc.rec.applied, loc.rec)
  BY <1>1 DEF Evidence, SoundLoc, Attests, Undoes
<1>3. Hosted'
  BY CompensatingHosted
<1>4. (Mutates' => Mutates) /\ (Recovers' => Recovers) /\ pc' \notin {"up.prepare", "up.unprepare"}
  BY <1>1, CompensatingFrame DEF CompensatingKeeps, Control, Located, Mutates, Recovers,
      MutLabels, CompLabels
<1>5. pc' \in CompLabels \cup {"residue", "rv.resume", "rv.retain", "rs.remove", "rs.retain",
                               "rec.remove", "rec.retain"}
  BY CompensatingFrame DEF CompensatingKeeps
\* The next label, the end with an identity, the failure.
<1>6. ASSUME Stays, Now' = Now,
             \/ \E x : CompOk(x) /\ Still(x, Claim)
             \/ CompErr
             \/ pc' \in CompLabels /\ loc'.ev = loc.ev
             \/ pc' \in {"comp.reread", "comp.verify"} /\ Still(loc'.ev, Claim),
             pc' \in {"comp.bind", "comp.cas"} => loc.ev.dns # loc.tgt.dns
      PROVE  LocStill /\ (native' = native /\ (Aims' => Aims /\ loc'.ev = loc.ev) => Apart')
  <2>1. /\ op' = "update" /\ Mutates' => Still(loc'.rec.applied, loc'.rec)
        /\ Recovers' => Still(loc'.rec.applied, loc'.rec)
        /\ Still(loc.ev, Claim') /\ Still(loc'.tgt, Claim')
    BY <1>1, <1>2, <1>4, <1>6 DEF Stays
  <2>2. Still(loc'.ev, Claim')
    BY <1>1, <1>6, <2>1, Handovers
  <2>3. Undone' => Still(loc'.id, Claim')
    <3>1. CASE \E x : CompOk(x) /\ Still(x, Claim)
      BY <1>1, <3>1, Handovers
    <3>2. CASE CompErr
      <4>1. pc' # "rv.resume" /\ loc'.res = "Pending"
        BY <3>2, Handovers
      <4> QED BY <4>1 DEF Undone
    <3>3. CASE pc' \in CompLabels
      BY <3>3 DEF Undone, CompLabels
    <3> QED BY <1>6, <3>1, <3>2, <3>3 DEF CompLabels
  <2>4. LocStill
    BY <1>4, <1>5, <2>1, <2>2, <2>3 DEF LocStill, MutLabels, CompLabels
  <2>5. ASSUME native' = native, Aims' => Aims /\ loc'.ev = loc.ev
        PROVE  Apart'
    <3>1. pc' # "rv.start"
      BY <1>5 DEF CompLabels
    <3>2. pc' \in {"comp.bind", "comp.cas"} => loc'.ev.dns # loc'.tgt.dns
      BY <1>1, <1>6, <2>5 DEF Aims
    <3> QED BY <1>1, <1>6, <2>5, <3>1, <3>2 DEF Evidence, Apart, Aims
  <2> QED BY <2>4, <2>5
<1>7. ASSUME UNCHANGED <<native, author, harm>>,
             \/ \E x : CompOk(x) /\ Still(x, Claim)
             \/ CompErr
             \/ /\ pc \in {"comp.status", "comp.read", "comp.bind"}
                /\ pc' \in CompLabels /\ loc'.ev = loc.ev
             \/ pc' \in {"comp.reread", "comp.verify"} /\ Still(loc'.ev, Claim),
             pc' \in {"comp.bind", "comp.cas"} => loc.ev.dns # loc.tgt.dns
      PROVE  Evidence'
  <2>1. harm' = "none" /\ JournalStill /\ LiveStill /\ Stays /\ Now' = Now
    BY <1>1, <1>3, <1>7, SoundHolds
  <2>2. (CompErr \/ \E x : CompOk(x)) => pc' \notin CompLabels
    BY Handovers DEF CompLabels
  <2>3. Aims' => Aims /\ loc'.ev = loc.ev
    BY <1>7, <2>2 DEF Aims, CompLabels
  <2>4. LocStill /\ Apart'
    BY <1>6, <1>7, <2>1, <2>3
  <2> QED BY <2>1, <2>4, EvidenceParts
<1>8. CASE CompStatus
  <2>1. pc = "comp.status" /\ UNCHANGED <<native, author, harm>>
    BY <1>8 DEF CompStatus, osVars
  <2>2. CompErr => pc' \notin CompLabels
    BY Handovers DEF CompLabels
  <2> QED BY <1>7, <1>8, <2>1, <2>2 DEF CompStatus, Goto, Stay, CompLabels
<1>9. CASE CompRead
  <2>1. pc = "comp.read" /\ UNCHANGED <<native, author, harm>>
    BY <1>9 DEF CompRead, osVars
  <2>2. CASE CompErr
    <3>1. pc' \notin CompLabels
      BY <2>2, Handovers DEF CompLabels
    <3> QED BY <1>7, <2>1, <2>2, <3>1 DEF CompLabels
  <2>3. CASE \E x \in {loc.ev, loc.tgt, None} : CompOk(x)
    <3>1. pc' \notin CompLabels
      BY <2>3, Handovers DEF CompLabels
    <3>2. \A x \in {loc.ev, loc.tgt, None} : Still(x, Claim)
      BY <1>2, <1>3, <2>1, UnwrittenStays, NoneStill DEF Stays
    <3> QED BY <1>7, <2>1, <2>3, <3>1, <3>2 DEF CompLabels
  <2>4. CASE ~Equivalent(Now, loc.tgt) /\ OwnsCurrent(loc.ev, Now) /\ Goto("comp.bind") /\ Stay
    <3>1. loc.ev.dns # loc.tgt.dns /\ pc' = "comp.bind" /\ loc' = loc
      BY <2>4 DEF Equivalent, OwnsCurrent, Guarded, Goto, Stay
    <3> QED BY <1>7, <2>1, <3>1 DEF CompLabels
  <2> QED BY <1>9, <2>2, <2>3, <2>4 DEF CompRead
<1>10. CASE CompBind
  <2>1. pc = "comp.bind" /\ UNCHANGED <<native, author, harm>>
    BY <1>10 DEF CompBind, osVars
  <2>2. loc.ev.dns # loc.tgt.dns
    BY <2>1 DEF Evidence, Apart, Aims
  <2> QED BY <1>7, <1>10, <2>1, <2>2 DEF CompBind, Goto, Stay, CompLabels, Guarded
<1>11. CASE CompCas
  <2>0. pc = "comp.cas"
    BY <1>11 DEF CompCas
  <2>1. CASE NativeUnchanged /\ CompErr
    <3>1. pc' \notin CompLabels
      BY <2>1, Handovers DEF CompLabels
    <3> QED BY <1>7, <2>1, <3>1 DEF NativeUnchanged, CompLabels
  <2>2. CASE /\ native.up /\ Now = loc.ev /\ OsWrite(loc.tgt.dns)
             /\ Goto("comp.reread") /\ loc' = [loc EXCEPT !.ev = Snap(native')]
    <3>1. native.inc = Claim.inc /\ (author # "ext" \/ Claim.before.dns = native.dns)
      BY <1>2, <2>2 DEF Sound
    <3>2. author # "ext" \/ Recorded
      <4>1. CASE loc.ret = "residue" \/ op \in {"update", "reconcile"}
        <5>1. Mutates \/ (pc \in CompLabels /\ op \in {"update", "reconcile"})
          BY <1>1, <4>1 DEF Mutates
        <5> QED BY <2>2, <3>1, <5>1, ClaimRecorded
      <4>2. CASE op \in {"restore", "drop"}
        <5>1. Claim = live.rec /\ native.dns # live.rec.before.dns
          BY <2>0, <2>2, <4>2 DEF Claim, Evidence, Apart, Aims
        <5> QED BY <3>1, <5>1
      <4>3. CASE loc.ret = "recover" /\ op \in {"apply", "recover"}
        <5>1. Claim = loc.rec /\ loc.tgt = loc.rec.before
          BY <1>1, <4>3 DEF Claim, Intent, Targeted
        <5>2. loc.ev.dns # loc.tgt.dns /\ loc.ev.dns = native.dns
          BY <2>0, <2>2, NowFields DEF Evidence, Apart, Aims
        <5> QED BY <3>1, <5>1, <5>2
      <4> QED BY <1>1, <4>1, <4>2, <4>3 DEF Control, Located
    <3>3. harm' = "none" /\ Still(Snap(native'), Claim)
      <4>1. Ours => Anchor(Claim)
        BY <1>1, WorkAnchored
      <4>2. Sound(Now, Claim) /\ harm = "none"
        BY <1>2, <2>2 DEF Evidence
      <4> QED BY <2>2, <3>2, <4>1, <4>2, OsWriteSound
    <3>4. native'.gen = native.gen + 1
      BY <2>2, OsWriteGen
    <3>5. JournalStill /\ LiveStill
      BY <1>1, <3>4, SoundRewrites
    <3>6. Still(loc.tgt, Claim) /\ Still(loc.rec.applied, loc.rec)
      BY <3>4, RewrittenStays DEF Dated, OldRecord
    <3>7. pc' = "comp.reread" /\ Still(loc'.ev, Claim)
      BY <2>2, <3>3, Shapes DEF Goto, Locals
    <3>8. LocStill /\ Apart'
      BY <1>1, <3>6, <3>7 DEF LocStill, Apart, Aims, Undone, MutLabels
    <3> QED BY <3>3, <3>5, <3>8, EvidenceParts
  <2> QED BY <1>11, <2>1, <2>2 DEF CompCas
<1>12. CASE CompCheck \/ CompRecheck \/ CompWrite
  BY <1>12 DEF CompCheck, CompRecheck, CompWrite, Routed, Guarded
<1>13. CASE CompReread
  <2>1. UNCHANGED <<native, author, harm>>
    BY <1>13 DEF CompReread, osVars
  <2>2. CASE CompErr
    <3>1. pc' \notin CompLabels
      BY <2>2, Handovers DEF CompLabels
    <3> QED BY <1>7, <2>1, <2>2, <3>1 DEF CompLabels
  <2>3. CASE Goto("comp.verify") /\ loc' = [loc EXCEPT !.cur = Now]
    <3>1. pc' = "comp.verify" /\ loc'.ev = loc.ev
      BY <2>3, Shapes DEF Goto, Locals
    <3>2. Still(loc.ev, Claim)
      BY <1>2, <2>1, UnwrittenStays DEF Stays
    <3> QED BY <1>7, <2>1, <3>1, <3>2
  <2> QED BY <1>13, <2>2, <2>3 DEF CompReread
<1>14. CASE CompVerify
  <2>1. UNCHANGED <<native, author, harm>>
    BY <1>14 DEF CompVerify, osVars
  <2>2. CASE CompErr
    <3>1. pc' \notin CompLabels
      BY <2>2, Handovers DEF CompLabels
    <3> QED BY <1>7, <2>1, <2>2, <3>1 DEF CompLabels
  <2>3. CASE \E x \in {loc.ev, None} : CompOk(x)
    <3>1. pc' \notin CompLabels
      BY <2>3, Handovers DEF CompLabels
    <3>2. \A x \in {loc.ev, None} : Still(x, Claim)
      BY <1>2, <1>3, <2>1, UnwrittenStays, NoneStill DEF Stays
    <3> QED BY <1>7, <2>1, <2>3, <3>1, <3>2 DEF CompLabels
  <2>4. Ownership # "BestEffort"
    BY DEF Guarded
  <2>5. CompErr \/ \E x \in {loc.ev, None} : CompOk(x)
    <3> DEFINE id == CASE loc.ev # None /\ OwnsCurrent(loc.ev, loc.cur)  -> loc.ev
                       [] loc.ev = None /\ Ownership = "BestEffort"      -> loc.cur
                       [] OTHER                                          -> None
    <3>1. id \in {loc.ev, None}
      BY <2>4
    <3>2. CompErr \/ CompOk(id)
      BY <1>14 DEF CompVerify
    <3> HIDE DEF id
    <3> QED BY <3>1, <3>2
  <2> QED BY <2>2, <2>3, <2>5
<1> QED BY <1>8, <1>9, <1>10, <1>11, <1>12, <1>13, <1>14 DEF Compensating

-----------------------------------------------------------------------------
(***************************************************************************)
(* Steps that leave the resource alone.                                    *)
(***************************************************************************)
\* A restore keeps the evidence it holds.
LEMMA RestoreHolds ==
    ASSUME Evidence, Stays, loc'.ev = loc.ev, op' = op, SameClaim(live'.rec, live.rec)
    PROVE  op' \in {"restore", "drop"} => Still(loc'.ev, live'.rec)
<1>1. op \in {"restore", "drop"} => Sound(loc.ev, live.rec)
  BY DEF Evidence, SoundLoc, Attests, Claim
<1> QED BY <1>1, SoundAlias DEF Stays

\* The record is rewritten for the same claim.
LEMMA RewriteHolds ==
    ASSUME Hosted', Evidence, Stays, SameClaim(live'.rec, live.rec),
           Still(live'.rec.applied, live.rec),
           Wrote(live'.rec) \/ WroteOrNot(live'.rec),
           \/ PlainLive(live')
           \/ /\ live'.proof = None /\ Still(live'.ev, live.rec) /\ Still(live'.tgt, live.rec)
              /\ Still(live'.resume.applied, live.rec)
    PROVE  JournalStill /\ LiveStill
<1>1. Still(live'.rec.applied, live'.rec)
  BY SoundAlias
<1>2. JournalStill
  BY <1>1, JournalHeld DEF Evidence
<1>3. CASE PlainLive(live')
  BY <1>1, <1>2, <1>3, LiveHeld DEF Evidence
<1>4. CASE /\ live'.proof = None /\ Still(live'.ev, live.rec) /\ Still(live'.tgt, live.rec)
           /\ Still(live'.resume.applied, live.rec)
  <2>1. /\ Still(live'.resume.applied, live'.rec) /\ Still(live'.ev, live'.rec)
        /\ Still(live'.tgt, live'.rec)
    BY <1>4, SoundAlias
  <2>2. Still(live'.proof, live'.rec)
    BY <1>4, NoneStill
  <2> QED BY <1>1, <1>2, <2>1, <2>2 DEF LiveStill
<1> QED BY <1>3, <1>4

\* The lease and the call end together.
LEMMA EndHolds ==
    ASSUME Hosted, UNCHANGED <<native, harm>>, Evidence, LeaseEnds, Finish, journal' \subseteq journal
    PROVE  Evidence'
<1>1. Hosted'
  BY LeaseEndsHosted
<1>2. LiveStill
  <2>1. PlainLive(live') /\ live'.rec.applied = None
    BY NoLiveFields DEF LeaseEnds, PlainLive, NoRecord
  <2> QED BY <1>1, <2>1, NoneStill DEF PlainLive, LiveStill, NoRecord
<1>3. CASE journal' = {}
  <2>1. JournalStill
    BY <1>3 DEF JournalStill
  <2> QED BY <1>2, <2>1, LocEnds, EvidenceParts DEF Finish, Evidence
<1>4. CASE journal' # {}
  <2>1. Stays
    BY <1>4, UnwrittenStays DEF LeaseEnds
  <2>2. JournalStill
    BY <2>1 DEF Evidence, SoundJournal, Stays, JournalStill
  <2> QED BY <1>2, <2>2, LocEnds, EvidenceParts DEF Finish, Evidence
<1> QED BY <1>3, <1>4

LEMMA ResolvingEvidence ==
    ASSUME TypeOK, Control, Own, Hosted, Evidence, Resolving
    PROVE  Evidence'
<1>1. UNCHANGED <<native, author, harm>>
  BY DEF Resolving, RvRepair, RvStart, RvRead, RvStatus, RvWrite, RvResume, RvRetain, osVars
<1>2. Hosted'
  BY ResolvingQuiet
<1>3. Stays /\ Now' = Now /\ harm' = "none"
  BY <1>1, UnwrittenStays DEF Evidence, Now
<1>4. ASSUME loc'.ev = loc.ev, op' = op, SameClaim(live'.rec, live.rec)
      PROVE  op' \in {"restore", "drop"} => Still(loc'.ev, live'.rec)
  BY <1>3, <1>4, RestoreHolds
<1>5. SameClaim(live.rec, live.rec)
  BY DEF SameClaim, SameLease
<1>6. ResolveOk => op' = op /\ pc' \in Resting \ {"rv.start"}
  BY DEF ResolveOk, Goto, Resting
<1>7. ResolveErr => op' = op /\ pc' \in Resting \ {"rv.start"}
  BY DEF ResolveErr, Goto, Resting
<1>8. CASE RvRepair
  <2>1. JournalStill
    <3>1. Still(live.rec.applied, live.rec)
      BY <1>3 DEF Evidence, SoundLive, Stays
    <3> QED BY <1>3, <1>8, <3>1, JournalHeld DEF RvRepair, Evidence
  <2>2. /\ live'.rec = live.rec /\ live'.proof = live.proof /\ live'.ev = live.ev
        /\ live'.tgt = live.tgt /\ live'.resume = live.resume
    BY <1>8, Shapes DEF RvRepair, LiveRecords
  <2>3. LiveStill
    BY <1>3, <2>2 DEF Evidence, SoundLive, LiveStill, Stays
  <2>4. op' = op /\ pc' \in Resting /\ loc' = loc /\ pc = "rv.start"
    BY <1>7, <1>8 DEF RvRepair, Stay, Goto, Resting
  <2>5. LocStill /\ (pc' # "rv.start" \/ op' \notin {"restore", "drop"} => Apart')
    BY <1>4, <1>5, <2>2, <2>4, LocRests
  <2>6. Apart'
    BY <1>1, <1>3, <2>2, <2>4, <2>5 DEF Evidence, Apart, Aims
  <2> QED BY <1>3, <2>1, <2>3, <2>5, <2>6, EvidenceParts
<1>9. CASE RvStart
  <2>1. pc = "rv.start" /\ live' = live /\ journal' = journal
    BY <1>9 DEF RvStart, leaseVars
  <2>2. JournalStill /\ LiveStill
    BY <1>2, <1>3, <2>1, JournalHeld, LiveHeld DEF Evidence
  <2>3. CASE loc' = loc /\ op' = op /\ pc' \in Resting \ {"rv.start"}
    <3>1. LocStill /\ Apart'
      BY <1>4, <1>5, <2>1, <2>3, LocRests
    <3> QED BY <1>3, <2>2, <3>1, EvidenceParts
  <2>4. CASE /\ live.st = "Compensating" /\ Goto("comp.status")
             /\ loc' = [loc EXCEPT !.ev = live.ev, !.tgt = live.tgt, !.ret = "resolve"]
    <3>1. /\ pc' = "comp.status" /\ op' = op /\ loc'.ev = live.ev /\ loc'.tgt = live.tgt
          /\ loc'.ret = "resolve"
      BY <2>4, Shapes DEF Goto, Locals
    <3>2. op \notin {"apply", "recover"}
      BY <2>1, <2>4 DEF Control, Calling, Located, Finishing
    <3>3. Still(live.ev, live.rec) /\ Still(live.tgt, live.rec)
      BY <1>3 DEF Evidence, SoundLive, Stays
    <3>4. LocStill
      BY <2>1, <3>1, <3>2, <3>3 DEF LocStill, Undone, Mutates, Recovers, Claim, MutLabels
    <3>5. Apart'
      BY <1>1, <1>3, <2>1, <3>1 DEF Evidence, Apart, Aims
    <3> QED BY <1>3, <2>2, <3>4, <3>5, EvidenceParts
  <2>5. CASE live.st = "Prepared" /\ loc' = loc /\ (Goto("rc.first") \/ ResolveErr)
    BY <1>7, <2>3, <2>5 DEF Goto, Resting
  <2>6. CASE live.st = "Verified" /\ loc' = loc /\ (Goto("rv.status") \/ Goto("rv.read"))
    BY <2>3, <2>6 DEF Goto, Resting
  <2> QED BY <1>6, <1>9, <2>3, <2>4, <2>5, <2>6 DEF RvStart, Stay
<1>10. CASE RvRead \/ RvStatus
  <2>1. live' = live /\ journal' = journal
    BY <1>10 DEF RvRead, RvStatus, leaseVars
  <2>2. JournalStill /\ LiveStill
    BY <1>2, <1>3, <2>1, JournalHeld, LiveHeld DEF Evidence
  <2>3. loc'.ev = loc.ev /\ op' = op /\ pc' \in Resting \ {"rv.start"}
    BY <1>7, <1>10, Shapes DEF RvRead, RvStatus, Goto, Resting, Stay, Locals
  <2>4. LocStill /\ Apart'
    BY <1>4, <1>5, <2>1, <2>3, LocRests
  <2> QED BY <1>3, <2>2, <2>4, EvidenceParts
<1>11. ASSUME SameClaim(live'.rec, live.rec), Still(live'.rec.applied, live.rec), loc' = loc,
              op' = op, pc' \in Resting \ {"rv.start"},
              Wrote(live'.rec) \/ WroteOrNot(live'.rec),
              \/ PlainLive(live')
              \/ /\ live'.proof = None /\ Still(live'.ev, live.rec) /\ Still(live'.tgt, live.rec)
                 /\ live'.resume = live.resume
       PROVE  Evidence'
  <2>1. Still(live.resume.applied, live.rec)
    BY <1>3 DEF Evidence, SoundLive, Stays
  <2>2. JournalStill /\ LiveStill
    BY <1>2, <1>3, <1>11, <2>1, RewriteHolds
  <2>3. LocStill /\ Apart'
    BY <1>4, <1>11, LocRests
  <2> QED BY <1>3, <2>2, <2>3, EvidenceParts
<1>12. CASE RvWrite
  <2>1. PICK r \in Records :
          /\ Variant(r, live.rec, "Applied", live.proof) /\ loc' = loc
          /\ \/ Wrote(r) /\ live'.rec = r /\ PlainLive(live') /\ ResolveOk
             \/ WroteOrNot(r) /\ live' = live /\ ResolveErr
    BY <1>12, RvWriteEffect
  <2>2. Still(live.proof, live.rec)
    BY <1>3 DEF Evidence, SoundLive, Stays
  <2>3. SameClaim(r, live.rec) /\ r.applied = live.proof
    BY <2>1 DEF Variant
  <2>4. CASE Wrote(r) /\ live'.rec = r /\ PlainLive(live') /\ ResolveOk
    BY <1>6, <1>11, <2>1, <2>2, <2>3, <2>4
  <2>5. CASE WroteOrNot(r) /\ live' = live /\ ResolveErr
    <3>1. Still(r.applied, r)
      BY <2>2, <2>3, SoundAlias
    <3>2. JournalStill /\ LiveStill
      BY <1>2, <1>3, <2>5, <3>1, JournalHeld, LiveHeld DEF Evidence
    <3>3. LocStill /\ Apart'
      BY <1>4, <1>5, <1>7, <2>1, <2>5, LocRests
    <3> QED BY <1>3, <3>2, <3>3, EvidenceParts
  <2> QED BY <2>1, <2>4, <2>5
<1>13. CASE RvResume
  <2>1. PICK r \in Records :
          /\ r = Resumed(live.resume, loc.id) /\ loc' = loc /\ live'.rec = r /\ PlainLive(live')
          /\ Wrote(r) \/ WroteOrNot(r)
          /\ ResolveOk \/ ResolveErr
    BY <1>13, RvResumeEffect
  <2>2. pc = "rv.resume" /\ op \notin {"apply", "recover"} /\ live.st = "Compensating"
    BY <1>13 DEF RvResume, Control, Located
  <2>3. Still(loc.id, live.rec) /\ Still(live.resume.applied, live.rec)
    BY <1>3, <2>2 DEF Evidence, SoundLoc, SoundLive, Undone, Claim, Stays
  <2>4. live.resume \in Records /\ loc.id \in Snapshots /\ SameClaim(live.resume, live.rec)
    BY <2>2, FieldTypes DEF Own
  <2>5. SameClaim(r, live.resume) /\ r.applied \in {loc.id, live.resume.applied}
    <3>1. live.resume.phase \in {"Prepared", "Applied"}
      BY <2>4 DEF Records, Phases
    <3> QED BY <2>1, <2>4, <3>1, ResumedFields
  <2>6. SameClaim(r, live.rec)
    BY <2>4, <2>5 DEF SameClaim, SameLease
  <2> QED BY <1>6, <1>7, <1>11, <2>1, <2>3, <2>5, <2>6
<1>14. CASE RvRetain
  <2>1. pc = "rv.retain" /\ loc' = loc /\ ResolveErr
    BY <1>14 DEF RvRetain, Stay
  <2>2. /\ SameClaim(live'.rec, live.rec) /\ live'.rec.applied = loc.ev /\ live'.proof = None
        /\ live'.ev = loc.ev /\ live'.tgt = loc.tgt /\ live'.resume = live.resume
        /\ Wrote(live'.rec) \/ WroteOrNot(live'.rec)
    BY <1>14, RetainEffect
  <2>3. op \notin {"apply", "recover"}
    BY <2>1 DEF Control, Located
  <2>4. Still(loc.ev, live.rec) /\ Still(loc.tgt, live.rec)
    BY <1>3, <2>1, <2>3 DEF Evidence, SoundLoc, Attests, Undoes, Claim, Stays
  <2> QED BY <1>7, <1>11, <2>1, <2>2, <2>4
<1> QED BY <1>8, <1>9, <1>10, <1>12, <1>13, <1>14 DEF Resolving

LEMMA LeasingEvidence ==
    ASSUME TypeOK, Control, Own, Hosted, Intent, Evidence, Leasing
    PROVE  Evidence'
<1>1. Hosted'
  BY LeasingQuiet
<1>2. ASSUME UNCHANGED osVars PROVE Stays /\ Now' = Now /\ harm' = "none" /\ native' = native
  BY <1>2, UnwrittenStays DEF osVars, Evidence, Now
<1>3. SameClaim(live.rec, live.rec)
  BY DEF SameClaim, SameLease
\* A step that leaves the journal and the lease alone.
<1>4. ASSUME UNCHANGED <<osVars, journal, live>> PROVE JournalStill /\ LiveStill
  BY <1>1, <1>2, <1>4, JournalHeld, LiveHeld DEF Evidence
\* The end of a call.
<1>5. Finish => LocStill /\ Apart'
  BY LocEnds DEF Finish
<1>6. CASE ApObserve
  <2>1. UNCHANGED <<osVars, journal, live>>
    BY <1>6 DEF ApObserve, leaseVars
  <2>2. CASE /\ pc' = "ap.persist" /\ op' = op /\ loc'.rec.inc = native.inc /\ loc'.rec.before = Now
             /\ loc'.rec.applied \in {Now, None}
    <3>1. Still(loc'.rec.applied, loc'.rec)
      BY <1>2, <2>1, <2>2, NowFields DEF Still
    <3>2. op = "apply"
      BY <1>6 DEF ApObserve, Control, Located
    <3>3. LocStill /\ Apart'
      BY <2>2, <3>1, <3>2 DEF LocStill, Apart, Aims, Attests, Undoes, Undone, Mutates, Recovers,
        MutLabels, CompLabels
    <3> QED BY <1>2, <1>4, <2>1, <3>3, EvidenceParts
  <2>3. CASE Finish
    BY <1>2, <1>4, <1>5, <2>1, <2>3, EvidenceParts
  <2> QED BY <1>6, <2>2, <2>3, ApObserveEffect
<1>7. CASE ApPersist
  <2>1. /\ pc = "ap.persist" /\ op = "apply" /\ op' = op /\ loc' = loc /\ UNCHANGED osVars
        /\ pc' \in {"done", "mut.bind", "ap.unpersist"}
    BY <1>7 DEF ApPersist, Stay, Goto, Control, Located
  <2>2. Still(loc.rec.applied, loc.rec)
    BY <1>2, <2>1 DEF Evidence, SoundLoc, Stays
  <2>3. JournalStill
    BY <1>2, <1>7, <2>1, <2>2, JournalHeld DEF ApPersist, Evidence
  <2>4. CASE live' = LiveAs(loc.rec, "Committed", FALSE)
    <3>1. PlainLive(live') /\ live'.rec = loc.rec
      BY <2>4 DEF LiveAs, PlainLive
    <3>2. LiveStill
      BY <1>1, <1>2, <2>1, <2>2, <3>1, LiveHeld DEF Evidence
    <3>3. LocStill /\ Apart'
      BY <2>1 DEF LocStill, Apart, Aims, Attests, Undoes, Undone, Recovers, MutLabels, CompLabels
    <3> QED BY <1>2, <2>1, <2>3, <3>2, <3>3, EvidenceParts
  <2>5. CASE UNCHANGED live
    <3>1. LiveStill
      BY <1>1, <1>2, <2>1, <2>5, LiveHeld DEF Evidence
    <3>2. LocStill /\ Apart'
      BY <2>1 DEF LocStill, Apart, Aims, Attests, Undoes, Undone, Recovers, MutLabels, CompLabels
    <3> QED BY <1>2, <2>1, <2>3, <3>1, <3>2, EvidenceParts
  <2> QED BY <1>7, <2>4, <2>5 DEF ApPersist
<1>8. CASE ApUnpersist \/ ApRemove
  <2>1. UNCHANGED <<osVars, live>> /\ Finish
    BY <1>8 DEF ApUnpersist, ApRemove, leaseVars
  <2>2. JournalStill
    BY <1>2, <1>8, <2>1, JournalHeld DEF ApUnpersist, ApRemove, Evidence
  <2>3. LiveStill
    BY <1>1, <1>2, <2>1, LiveHeld DEF Evidence
  <2> QED BY <1>2, <1>5, <2>1, <2>2, <2>3, EvidenceParts
<1>9. CASE ApResidue
  <2>1. UNCHANGED <<osVars, journal, live>> /\ op = "apply"
    BY <1>9 DEF ApResidue, leaseVars
  <2>2. CASE Finish
    BY <1>2, <1>4, <1>5, <2>1, <2>2, EvidenceParts
  <2>3. CASE Goto("ap.remove")
    <3>1. LocStill /\ Apart'
      BY <2>1, <2>3, LocRests DEF Goto, Resting
    <3> QED BY <1>2, <1>4, <2>1, <3>1, EvidenceParts
  <2> QED BY <1>9, <2>2, <2>3 DEF ApResidue
<1>10. CASE ApRetain
  <2>1. /\ UNCHANGED <<osVars, live>> /\ Finish /\ op = "apply"
        /\ pc = "residue" /\ loc.res = "Pending"
    BY <1>10 DEF ApRetain, leaseVars
  <2> DEFINE r == [loc.rec EXCEPT !.applied = loc.ev]
  <2>2. r.applied = loc.ev /\ SameClaim(r, loc.rec)
    <3>1. loc.rec \in Records
      BY FieldTypes
    <3> QED BY <3>1 DEF Records, SameClaim, SameLease
  <2>3. \E ok \in BOOLEAN : JournalWrite(r, ok)
    BY <1>10 DEF ApRetain
  <2> HIDE DEF r
  <2>4. Still(loc.ev, loc.rec)
    BY <1>2, <2>1 DEF Evidence, SoundLoc, Attests, Claim, Stays
  <2>5. Still(r.applied, r)
    BY <2>2, <2>4, SoundAlias
  <2>6. JournalStill
    BY <1>2, <2>1, <2>3, <2>5, JournalHeld DEF Evidence
  <2>7. LiveStill
    BY <1>1, <1>2, <2>1, LiveHeld DEF Evidence
  <2> QED BY <1>2, <1>5, <2>1, <2>6, <2>7, EvidenceParts
<1>11. CASE Done
  <2>1. UNCHANGED <<osVars, journal, live>> /\ Finish
    BY <1>11 DEF Done
  <2> QED BY <1>2, <1>4, <1>5, <2>1, EvidenceParts
<1>12. CASE UpRead
  <2>1. UNCHANGED <<osVars, journal, live>> /\ op = "update"
    BY <1>12 DEF UpRead, leaseVars, Control, Located
  <2>2. CASE Finish
    BY <1>2, <1>4, <1>5, <2>1, <2>2, EvidenceParts
  <2>3. CASE Goto("up.prepare") /\ loc' = [loc EXCEPT !.exp = Applied, !.rec = live.rec]
    <3>1. pc' = "up.prepare" /\ op' = op /\ loc'.rec = live.rec
      BY <2>3, Shapes DEF Goto, Locals
    <3>2. Still(live.rec.applied, live.rec)
      BY <1>2, <2>1 DEF Evidence, SoundLive, Stays
    <3>3. LocStill /\ Apart'
      BY <2>1, <3>1, <3>2 DEF LocStill, Apart, Aims, Attests, Undoes, Undone, Recovers, MutLabels,
        CompLabels
    <3> QED BY <1>2, <1>4, <2>1, <3>3, EvidenceParts
  <2> QED BY <1>12, <2>2, <2>3 DEF UpRead
<1>13. CASE UpPrepare
  <2>1. UNCHANGED osVars /\ pc = "up.prepare" /\ op = "update"
    BY <1>13 DEF UpPrepare, Control, Located
  <2>2. /\ SameClaim(live'.rec, live.rec) /\ live'.rec.applied = live.rec.applied /\ loc' = loc
        /\ op' = op /\ PlainLive(live') /\ pc' \in {"mut.bind", "up.unprepare"}
        /\ Wrote(live'.rec) \/ WroteOrNot(live'.rec)
    BY <1>13, UpPrepareEffect
  <2>3. Still(live.rec.applied, live.rec) /\ Still(loc.rec.applied, loc.rec)
    BY <1>2, <2>1 DEF Evidence, SoundLive, SoundLoc, Stays
  <2>4. JournalStill /\ LiveStill
    BY <1>1, <1>2, <2>1, <2>2, <2>3, RewriteHolds
  <2>5. LocStill /\ Apart'
    BY <2>1, <2>2, <2>3 DEF LocStill, Apart, Aims, Attests, Undoes, Undone, Recovers, MutLabels,
      CompLabels
  <2> QED BY <1>2, <2>1, <2>4, <2>5, EvidenceParts
<1>14. CASE UpUnprepare
  <2>1. UNCHANGED osVars /\ pc = "up.unprepare" /\ op = "update" /\ Finish
    BY <1>14 DEF UpUnprepare, Control, Located
  <2>2. PICK ok \in BOOLEAN : PersistLive(loc.rec, ok)
    BY <1>14 DEF UpUnprepare
  <2>3. live'.rec = loc.rec /\ PlainLive(live') /\ (Wrote(live'.rec) \/ WroteOrNot(live'.rec))
    BY <2>2, PersistLiveEffect
  <2>4. SameClaim(loc.rec, live.rec) /\ Still(loc.rec.applied, loc.rec)
    BY <1>2, <2>1 DEF Own, Evidence, SoundLoc, Stays
  <2>5. Still(live'.rec.applied, live.rec)
    BY <2>3, <2>4, SoundAlias
  <2>6. JournalStill /\ LiveStill
    BY <1>1, <1>2, <2>1, <2>3, <2>4, <2>5, RewriteHolds
  <2> QED BY <1>2, <1>5, <2>1, <2>6, EvidenceParts
<1>15. CASE UpResidue
  <2>1. UNCHANGED osVars /\ pc = "residue" /\ op = "update" /\ Finish
    BY <1>15 DEF UpResidue
  <2>2. SameClaim(loc.rec, live.rec) /\ Still(loc.rec.applied, loc.rec)
    BY <1>2, <2>1 DEF Own, Evidence, SoundLoc, Stays, Mutates
  <2>3. Still(loc.rec.applied, live.rec)
    BY <2>2, SoundAlias
  <2>4. /\ loc.res = "Pending" => Still(loc.ev, live.rec) /\ Still(loc.tgt, live.rec)
        /\ loc.res = "Restored" => Still(loc.id, live.rec)
    BY <1>2, <2>1 DEF Evidence, SoundLoc, Attests, Undoes, Undone, Claim, Stays
  <2>5. CASE /\ loc.res = "Pending" /\ SameClaim(live'.rec, live.rec) /\ live'.rec.applied = loc.ev
             /\ live'.proof = None /\ live'.ev = loc.ev /\ live'.tgt = loc.tgt
             /\ live'.resume = loc.rec /\ (Wrote(live'.rec) \/ WroteOrNot(live'.rec))
    <3>1. JournalStill /\ LiveStill
      BY <1>1, <1>2, <2>1, <2>3, <2>4, <2>5, RewriteHolds
    <3> QED BY <1>2, <1>5, <2>1, <3>1, EvidenceParts
  <2>6. CASE /\ \/ loc.res = "Restored" /\ live'.rec = Resumed(loc.rec, loc.id)
                \/ loc.res = "Unchanged" /\ live'.rec = loc.rec
             /\ PlainLive(live') /\ (Wrote(live'.rec) \/ WroteOrNot(live'.rec))
    <3>1. loc.rec \in Records /\ loc.id \in Snapshots /\ loc.rec.phase \in {"Prepared", "Applied"}
      BY FieldTypes DEF Records, Phases
    <3>2. SameClaim(Resumed(loc.rec, loc.id), loc.rec)
          /\ Resumed(loc.rec, loc.id).applied \in {loc.id, loc.rec.applied}
      BY <3>1, ResumedFields
    <3>3. SameClaim(live'.rec, live.rec) /\ Still(live'.rec.applied, live.rec)
      BY <2>2, <2>3, <2>4, <2>6, <3>2 DEF SameClaim, SameLease
    <3>4. JournalStill /\ LiveStill
      BY <1>1, <1>2, <2>1, <2>6, <3>3, RewriteHolds
    <3> QED BY <1>2, <1>5, <2>1, <3>4, EvidenceParts
  <2> QED BY <1>15, <2>5, <2>6, UpResidueEffect
<1>16. CASE RsStatus
  <2>1. /\ UNCHANGED <<osVars, journal, live>> /\ loc' = loc /\ op' = op
        /\ pc' \in Resting \ {"rv.start"}
    BY <1>16 DEF RsStatus, leaseVars, Stay, Goto, Resting
  <2>2. LocStill /\ Apart'
    BY <1>2, <1>3, <2>1, LocRests, RestoreHolds
  <2> QED BY <1>2, <1>4, <2>1, <2>2, EvidenceParts
<1>17. CASE RsRead \/ RsReread
  <2>1. UNCHANGED <<osVars, journal>> /\ op \in {"restore", "drop"}
    BY <1>17 DEF RsRead, RsReread, Control, Located
  <2>2. CASE loc' = loc /\ op' = op /\ live' = live /\ pc' \in Resting \ {"rv.start"}
    <3>1. LocStill /\ Apart'
      BY <1>2, <1>3, <2>1, <2>2, LocRests, RestoreHolds
    <3> QED BY <1>2, <1>4, <2>1, <2>2, <3>1, EvidenceParts
  <2>3. CASE ~Equivalent(Now, live.rec.before) /\ RsCompare
    <3>1. CASE pc' = "rs.fail" /\ op' = op /\ loc' = loc /\ live' = live
      BY <2>2, <3>1 DEF Resting
    <3>2. CASE /\ pc' = "comp.status" /\ op' = op /\ loc'.ev = Applied /\ loc'.tgt = live.rec.before
               /\ loc'.ret = "restore" /\ live'.rec = live.rec /\ live'.proof = None
               /\ live'.ev = Applied /\ live'.tgt = live.rec.before /\ live'.resume.applied = None
      <4>1. native.dns # live.rec.before.dns
        BY <2>3, NowFields DEF Equivalent
      <4>2. Still(Applied, live.rec)
        BY <1>1, <1>2, <2>1, NoneStill DEF Applied, Evidence, SoundLive, Stays
      <4>3. Still(live.rec.before, live.rec)
        BY <1>2, <2>1, <4>1 DEF Still, Snap
      <4>4. LiveStill
        <5>1. Still(live.rec.applied, live.rec)
          BY <1>2, <2>1 DEF Evidence, SoundLive, Stays
        <5> QED BY <1>1, <3>2, <4>2, <4>3, <5>1, NoneStill DEF LiveStill
      <4>5. JournalStill
        BY <1>2, <2>1, JournalHeld DEF Evidence
      <4>6. LocStill
        BY <2>1, <3>2, <4>2, <4>3 DEF LocStill, Undone, Mutates, Recovers, Claim, MutLabels
      <4>7. Apart'
        BY <1>2, <2>1, <3>2, <4>1 DEF Apart, Aims
      <4> QED BY <1>2, <2>1, <4>4, <4>5, <4>6, <4>7, EvidenceParts
    <3> QED BY <2>3, <3>1, <3>2, RsCompareEffect DEF Variant
  <2>4. CASE /\ ~Equivalent(Now, live.rec.before) /\ Goto("rv.start")
             /\ loc' = [loc EXCEPT !.cur = Now] /\ UNCHANGED live
    <3>1. loc'.ev = loc.ev /\ pc' = "rv.start" /\ op' = op
      BY <2>4, Shapes DEF Goto, Locals
    <3>2. LocStill
      BY <1>2, <1>3, <2>1, <2>4, <3>1, LocRests, RestoreHolds DEF Resting
    <3>3. native.dns # live.rec.before.dns
      BY <2>4, NowFields DEF Equivalent
    <3>4. Apart'
      BY <1>2, <2>1, <2>4, <3>1, <3>3 DEF Apart, Aims
    <3> QED BY <1>2, <1>4, <2>1, <2>4, <3>2, <3>4, EvidenceParts
  <2>5. CASE RsRead
    BY <2>2, <2>3, <2>4, <2>5 DEF RsRead, Goto, Stay, Resting
  <2>6. CASE RsReread
    BY <2>2, <2>3, <2>6 DEF RsReread, Goto, Stay, Resting
  <2> QED BY <1>17, <2>5, <2>6
<1>18. CASE RsRetain
  <2>1. UNCHANGED osVars /\ pc = "rs.retain" /\ pc' = "rs.fail" /\ op' = op /\ loc' = loc
    BY <1>18 DEF RsRetain, Goto, Stay
  <2>2. /\ SameClaim(live'.rec, live.rec) /\ live'.rec.applied = loc.ev /\ live'.proof = None
        /\ live'.ev = loc.ev /\ live'.tgt = loc.tgt /\ live'.resume = live.resume
        /\ Wrote(live'.rec) \/ WroteOrNot(live'.rec)
    BY <1>18, RetainEffect
  <2>3. op \in {"restore", "drop"}
    BY <2>1 DEF Control, Located
  <2>4. /\ Still(loc.ev, live.rec) /\ Still(loc.tgt, live.rec)
        /\ Still(live.resume.applied, live.rec)
    BY <1>2, <2>1, <2>3 DEF Evidence, SoundLoc, SoundLive, Attests, Undoes, Claim, Stays
  <2>5. JournalStill /\ LiveStill
    BY <1>1, <1>2, <2>1, <2>2, <2>4, RewriteHolds
  <2>6. LocStill /\ Apart'
    BY <1>2, <2>1, <2>2, LocRests, RestoreHolds DEF Resting
  <2> QED BY <1>2, <2>1, <2>5, <2>6, EvidenceParts
<1>19. CASE RsRemove
  <2>1. UNCHANGED <<native, harm>> /\ op \in {"restore", "drop"}
    BY <1>19 DEF RsRemove, Control, Located
  <2>2. CASE JournalRemove(live.rec.lease, TRUE) /\ LeaseEnds /\ Finish
    <3>1. journal' \subseteq journal
      BY <2>2 DEF JournalRemove, Unlinked
    <3> QED BY <2>1, <2>2, <3>1, EndHolds
  <2>3. CASE /\ JournalRemove(live.rec.lease, FALSE) /\ Goto("rs.fail") /\ Stay
             /\ live' = IF loc.ret = "restore" THEN [live EXCEPT !.ev = loc.ev] ELSE live
             /\ UNCHANGED <<author, base>>
    <3>1. Stays /\ harm' = "none"
      BY <2>1, <2>3, UnwrittenStays DEF Evidence
    <3>2. JournalStill
      BY <2>3, <3>1, JournalHeld DEF Evidence
    <3>3. /\ live'.rec = live.rec /\ live'.proof = live.proof /\ live'.ev \in {live.ev, loc.ev}
          /\ live'.tgt = live.tgt /\ live'.resume = live.resume
      BY <2>3, Shapes DEF LiveRecords
    <3>4. Still(loc.ev, live.rec)
      BY <2>1, <3>1 DEF Evidence, SoundLoc, Attests, Claim, Stays
    <3>5. LiveStill
      BY <3>1, <3>3, <3>4 DEF Evidence, SoundLive, LiveStill, Stays
    <3>6. LocStill /\ Apart'
      BY <2>3, <3>3, <3>4, LocRests DEF Goto, Stay, Resting
    <3> QED BY <3>1, <3>2, <3>5, <3>6, EvidenceParts
  <2> QED BY <1>19, <2>2, <2>3 DEF RsRemove
<1>20. CASE RsFail
  <2>1. UNCHANGED <<native, harm, journal>> /\ Finish
    BY <1>20 DEF RsFail
  <2>2. CASE LeaseEnds
    BY <2>1, <2>2, EndHolds
  <2>3. CASE UNCHANGED <<live, author>>
    <3>1. Stays /\ harm' = "none"
      BY <2>1, <2>3, UnwrittenStays DEF Evidence
    <3>2. JournalStill /\ LiveStill
      BY <1>1, <2>1, <2>3, <3>1, JournalHeld, LiveHeld DEF Evidence
    <3> QED BY <1>5, <2>1, <3>1, <3>2, EvidenceParts
  <2> QED BY <1>20, <2>2, <2>3 DEF RsFail
<1>21. CASE AbRemove
  <2>1. UNCHANGED <<native, harm>> /\ Finish
    BY <1>21 DEF AbRemove
  <2>2. PICK ok \in BOOLEAN :
          /\ JournalRemove(loc.rec.lease, ok)
          /\ \/ LeaseEnds
             \/ author' = (IF author = "us" THEN "waived" ELSE author) /\ UNCHANGED live
    BY <1>21 DEF AbRemove
  <2>3. journal' \subseteq journal
    BY <2>2 DEF JournalRemove, Unlinked, UnlinkedOrNot
  <2>4. CASE LeaseEnds
    BY <2>1, <2>3, <2>4, EndHolds
  <2>5. CASE author' = (IF author = "us" THEN "waived" ELSE author) /\ UNCHANGED live
    <3>1. Stays /\ harm' = "none"
      BY <2>1, <2>5, UnwrittenStays DEF Evidence
    <3>2. JournalStill /\ LiveStill
      BY <1>1, <2>2, <2>5, <3>1, JournalHeld, LiveHeld DEF Evidence
    <3> QED BY <1>5, <2>1, <3>1, <3>2, EvidenceParts
  <2> QED BY <2>2, <2>4, <2>5
<1> QED BY <1>6, <1>7, <1>8, <1>9, <1>10, <1>11, <1>12, <1>13, <1>14, <1>15, <1>16, <1>17, <1>18,
      <1>19, <1>20, <1>21 DEF Leasing

LEMMA ReconcilingEvidence ==
    ASSUME TypeOK, Control, Own, Hosted, Evidence, Reconciling
    PROVE  Evidence'
<1>1. UNCHANGED <<native, author, harm>>
  BY DEF Reconciling, RcForget, RcFirst, RcSecond, RcPrepare, RcUnprepare, RcResidue, osVars
<1>2. Hosted'
  BY ReconcilingQuiet
<1>3. Stays /\ harm' = "none"
  BY <1>1, UnwrittenStays DEF Evidence
<1>4. op = "reconcile"
  BY DEF Reconciling, RcForget, RcFirst, RcSecond, RcPrepare, RcUnprepare, RcResidue, Control, Located
<1>5. UNCHANGED <<journal, live>> => JournalStill /\ LiveStill
  BY <1>2, <1>3, JournalHeld, LiveHeld DEF Evidence
<1>6. Finish \/ (Goto("rc.forget") \/ Goto("rc.second")) => LocStill /\ Apart'
  <2>1. Finish => LocStill /\ Apart'
    BY LocEnds DEF Finish
  <2>2. Goto("rc.forget") \/ Goto("rc.second") => LocStill /\ Apart'
    BY <1>4, LocRests DEF Goto, Resting
  <2> QED BY <2>1, <2>2
<1>7. CASE RcForget
  <2>1. JournalStill
    BY <1>3, <1>7, JournalHeld DEF RcForget, Evidence
  <2>2. LiveStill
    BY <1>2, <1>3, <1>7, LiveHeld DEF RcForget, Evidence
  <2> QED BY <1>3, <1>6, <1>7, <2>1, <2>2, EvidenceParts DEF RcForget
<1>8. CASE RcFirst
  BY <1>3, <1>5, <1>6, <1>8, EvidenceParts DEF RcFirst, leaseVars
<1>9. CASE RcSecond
  <2>1. UNCHANGED <<journal, live>>
    BY <1>9 DEF RcSecond, leaseVars
  <2>2. CASE Finish
    BY <1>3, <1>5, <1>6, <2>1, <2>2, EvidenceParts
  <2>3. CASE pc' = "rc.forget" /\ op' = op
    BY <1>3, <1>5, <1>6, <2>1, <2>3, EvidenceParts DEF Goto
  <2>4. CASE pc' = "rc.prepare" /\ op' = op /\ loc'.rec.applied = None
    <3>1. LocStill /\ Apart'
      BY <1>4, <2>4 DEF LocStill, Apart, Aims, Attests, Undoes, Undone, Recovers, MutLabels,
          CompLabels
    <3> QED BY <1>3, <1>5, <2>1, <3>1, EvidenceParts
  <2> QED BY <1>9, <2>2, <2>3, <2>4, RcSecondEffect
<1>10. CASE RcPrepare
  <2>1. /\ pc = "rc.prepare" /\ loc' = loc /\ op' = op /\ pc' \in {"mut.bind", "rc.unprepare"}
        /\ Wrote(loc.rec) \/ WroteOrNot(loc.rec)
        /\ live' = live \/ (live'.rec = loc.rec /\ PlainLive(live'))
    BY <1>10, RcPrepareEffect
  <2>2. loc.rec.applied = None
    BY <2>1 DEF Evidence, SoundLoc
  <2>3. Still(loc.rec.applied, loc.rec)
    BY <1>2, <2>2, NoneStill
  <2>4. JournalStill
    BY <1>3, <2>1, <2>3, JournalHeld DEF Evidence
  <2>5. LiveStill
    BY <1>2, <1>3, <2>1, <2>3, LiveHeld DEF Evidence
  <2>6. LocStill /\ Apart'
    BY <1>4, <2>1, <2>2 DEF LocStill, Apart, Aims, Attests, Undoes, Undone, Recovers, MutLabels,
      CompLabels
  <2> QED BY <1>3, <2>4, <2>5, <2>6, EvidenceParts
<1>11. CASE RcUnprepare
  <2>1. Finish /\ \E ok \in BOOLEAN : JournalWrite(live.rec, ok) /\ live' = [live EXCEPT !.repair = ~ok]
    BY <1>11 DEF RcUnprepare
  <2>2. /\ live'.rec = live.rec /\ live'.proof = live.proof /\ live'.ev = live.ev
        /\ live'.tgt = live.tgt /\ live'.resume = live.resume
    BY <2>1, Shapes DEF LiveRecords
  <2>3. LiveStill
    BY <1>3, <2>2 DEF Evidence, SoundLive, LiveStill, Stays
  <2>4. Still(live.rec.applied, live.rec)
    BY <1>3 DEF Evidence, SoundLive, Stays
  <2>5. JournalStill
    BY <1>3, <2>1, <2>4, JournalHeld DEF Evidence
  <2> QED BY <1>3, <1>6, <2>1, <2>3, <2>5, EvidenceParts
<1>12. CASE RcResidue
  <2>1. pc = "residue" /\ loc.rec = live.rec /\ UNCHANGED journal /\ Finish
    BY <1>4, <1>12 DEF RcResidue, Own, Mutates
  <2>2. Still(live.rec.applied, live.rec)
    BY <1>3 DEF Evidence, SoundLive, Stays
  <2>3. loc.res = "Pending" => Still(loc.ev, live.rec) /\ Still(loc.tgt, live.rec)
    BY <1>3, <1>4, <2>1 DEF Evidence, SoundLoc, Attests, Undoes, Claim, Stays
  <2>4. live'.rec = live.rec /\ live'.proof = None
        /\ \/ /\ loc.res = "Pending" /\ live'.ev = loc.ev /\ live'.tgt = loc.tgt
              /\ live'.resume = loc.rec
           \/ PlainLive(live')
    BY <1>12, RcResidueEffect
  <2>5. LiveStill
    <3>1. CASE PlainLive(live')
      BY <1>2, <1>3, <2>2, <2>4, <3>1, LiveHeld DEF Evidence
    <3>2. CASE /\ loc.res = "Pending" /\ live'.ev = loc.ev /\ live'.tgt = loc.tgt
               /\ live'.resume = loc.rec
      BY <1>2, <2>1, <2>2, <2>3, <2>4, <3>2, NoneStill DEF LiveStill
    <3> QED BY <2>4, <3>1, <3>2
  <2>6. JournalStill
    BY <1>3, <2>1, JournalHeld DEF Evidence
  <2> QED BY <1>3, <1>6, <2>1, <2>5, <2>6, EvidenceParts
<1> QED BY <1>7, <1>8, <1>9, <1>10, <1>11, <1>12 DEF Reconciling

LEMMA RecoveringEvidence ==
    ASSUME TypeOK, Control, OneClaim, ~ScanBeforeLock, Hosted, Evidence, Recovering
    PROVE  Evidence'
<1>1. UNCHANGED <<native, author, harm, live>>
  BY DEF Recovering, RecoverLock, RecStatus, RecCapture, RecRemove, RecRetain, osVars, leaseVars
<1>2. Hosted'
  BY RecoveringQuiet
<1>3. Stays /\ Now' = Now /\ harm' = "none"
  BY <1>1, UnwrittenStays DEF Evidence, Now
<1>4. LiveStill
  BY <1>1, <1>2, <1>3, LiveHeld DEF Evidence
<1>5. UNCHANGED journal => JournalStill
  BY <1>3, JournalHeld DEF Evidence
<1>6. Finish => LocStill /\ Apart'
  BY LocEnds DEF Finish
<1>7. ~RecoverLock
  BY DEF RecoverLock, OneClaim
<1>8. op \in {"apply", "recover"} /\ Recovers
  BY <1>7 DEF Recovering, RecStatus, RecCapture, RecRemove, RecRetain, Control, Located, Recovers
<1>9. Still(loc.rec.applied, loc.rec)
  BY <1>3, <1>8 DEF Evidence, SoundLoc, Stays
\* The record is handed on.
<1>10. ASSUME op' = op, loc' = loc, pc' \in {"rec.capture", "rec.remove"}
       PROVE  LocStill /\ Apart'
  BY <1>8, <1>9, <1>10 DEF LocStill, Apart, Aims, Attests, Undoes, Undone, Mutates, MutLabels,
      CompLabels
<1>11. CASE RecStatus
  <2>1. UNCHANGED journal
    BY <1>11 DEF RecStatus
  <2>2. LocStill /\ Apart'
    BY <1>6, <1>10, <1>11 DEF RecStatus, Goto, Stay
  <2> QED BY <1>3, <1>4, <1>5, <2>1, <2>2, EvidenceParts
<1>12. CASE RecCapture
  <2>1. UNCHANGED journal
    BY <1>12 DEF RecCapture
  <2>2. CASE Finish \/ (pc' = "rec.remove" /\ op' = op /\ loc' = loc)
    <3>1. LocStill /\ Apart'
      BY <1>6, <1>10, <2>2
    <3> QED BY <1>3, <1>4, <1>5, <2>1, <3>1, EvidenceParts
  <2>3. CASE /\ ~Equivalent(Now, loc.rec.before)
             /\ pc' = "comp.status" /\ op' = op /\ loc'.ev = loc.rec.applied
             /\ loc'.tgt = loc.rec.before /\ loc'.ret = "recover" /\ loc'.rec = loc.rec
    <3>1. Still(loc.rec.before, loc.rec)
      BY <1>1, <1>3, <2>3 DEF Still, Equivalent, Now
    <3>2. LocStill /\ Apart'
      BY <1>8, <1>9, <2>3, <3>1 DEF LocStill, Apart, Aims, Undone, Mutates, Claim, MutLabels
    <3> QED BY <1>3, <1>4, <1>5, <2>1, <3>2, EvidenceParts
  <2> QED BY <1>12, <2>2, <2>3, RecCaptureEffect
<1>13. CASE RecRemove
  <2>1. JournalStill
    BY <1>3, <1>13, JournalHeld DEF RecRemove, Evidence
  <2>2. CASE Finish
    BY <1>3, <1>4, <1>6, <2>1, <2>2, EvidenceParts
  <2>3. CASE op = "apply" /\ Goto("ap.observe")
    <3>1. LocStill /\ Apart'
      BY <2>3, LocRests DEF Goto, Resting
    <3> QED BY <1>3, <1>4, <2>1, <3>1, EvidenceParts
  <2> QED BY <1>13, <2>2, <2>3 DEF RecRemove
<1>14. CASE RecRetain
  <2> DEFINE r == [loc.rec EXCEPT !.phase = "Prepared", !.applied = loc.ev]
  <2>1. r.applied = loc.ev /\ SameClaim(r, loc.rec)
    <3>1. loc.rec \in Records
      BY FieldTypes
    <3> QED BY <3>1 DEF Records, SameClaim, SameLease
  <2>2. Finish /\ pc = "rec.retain" /\ \E ok \in BOOLEAN : JournalWrite(r, ok)
    BY <1>14 DEF RecRetain
  <2> HIDE DEF r
  <2>3. Still(loc.ev, loc.rec)
    BY <1>3, <1>8, <2>2 DEF Evidence, SoundLoc, Attests, Claim, Stays
  <2>4. Still(r.applied, r)
    BY <2>1, <2>3, SoundAlias
  <2>5. JournalStill
    BY <1>3, <2>2, <2>4, JournalHeld DEF Evidence
  <2> QED BY <1>3, <1>4, <1>6, <2>2, <2>5, EvidenceParts
<1> QED BY <1>7, <1>11, <1>12, <1>13, <1>14 DEF Recovering

LEMMA CallsEvidence ==
    ASSUME TypeOK, ~ScanBeforeLock, Hosted, Evidence, Calls \/ ReconcileStart
    PROVE  Evidence'
<1>1. UNCHANGED <<native, author, harm, live, journal>>
  BY DEF Calls, ApplyStart, UpdateStart, RestoreStart, AbandonStart, RecoverScan, RecoverNow,
    ReconcileStart, osVars, leaseVars
<1>2. Hosted'
  BY CallsQuiet, ReconcileStartQuiet
<1>3. harm' = "none" /\ JournalStill /\ LiveStill /\ Stays /\ Now' = Now
  BY <1>1, <1>2, SoundHolds
<1>4. ASSUME LocStill /\ Apart' PROVE Evidence'
  BY <1>3, <1>4, EvidenceParts
\* A recovery begins with a published record.
<1>5. ASSUME NEW r \in journal, pc' = "rec.status", loc'.rec = r, op' \in {"apply", "recover"}
      PROVE  Evidence'
  <2>1. Still(r.applied, r)
    BY <1>3, <1>5 DEF Evidence, SoundJournal, Stays
  <2>2. LocStill /\ Apart'
    BY <1>5, <2>1 DEF LocStill, Apart, Aims, Attests, Undoes, Undone, Mutates, MutLabels, CompLabels
  <2> QED BY <1>4, <2>2
<1>6. CASE \E plan \in Plans : ApplyStart(plan)
  <2>1. PICK plan \in Plans : ApplyStart(plan)
    BY <1>6
  <2>2. CASE pc' = "ap.observe" /\ op' = "apply"
    BY <1>4, <2>2, LocRests DEF Resting
  <2> QED BY <1>5, <2>1, <2>2, ApplyStartEffect
<1>7. CASE (\E plan \in Plans : UpdateStart(plan)) \/ ReconcileStart
  <2>1. pc' \in {"rv.start", "rc.forget"} /\ op' \in {"update", "reconcile"}
    BY <1>7 DEF UpdateStart, ReconcileStart
  <2> QED BY <1>4, <2>1, LocRests DEF Resting
<1>8. CASE \E how \in {"restore", "drop"} : RestoreStart(how)
  <2>1. pc' = "rs.status" /\ loc'.ev = None
    BY <1>8 DEF RestoreStart, NoLoc
  <2> QED BY <1>2, <1>4, <2>1, LocRests, NoneStill DEF Resting
<1>9. CASE \E how \in {"abandon", "drop", "discard"} : AbandonStart(how)
  <2>1. pc' = "ab.remove" /\ loc'.ev = None
    BY <1>9 DEF AbandonStart, NoLoc
  <2> QED BY <1>2, <1>4, <2>1, LocRests, NoneStill DEF Resting
<1>10. CASE RecoverNow
  <2>1. PICK r \in journal : RecoverBegins(r)
    BY <1>10 DEF RecoverNow
  <2> QED BY <1>5, <2>1, RecoverBeginsEffect
<1> QED BY <1>6, <1>7, <1>8, <1>9, <1>10 DEF Calls, RecoverScan

LEMMA EnvironmentEvidence ==
    ASSUME TypeOK, Guarded, Hosted, Dated, Evidence, Environment
    PROVE  Evidence'
<1>1. CASE Crash
  BY <1>1, EndHolds DEF Crash
<1>2. CASE /\ native'.gen = native.gen + 1 \/ (~native'.up /\ native'.dns = native.dns /\ native'.gen = native.gen)
           /\ UNCHANGED <<harm, journal, live, pc, op, loc>>
  <2>1. JournalStill /\ LiveStill /\ harm' = "none"
    BY <1>2, SoundRewrites DEF Evidence
  <2>2. \A r : /\ Still(loc.ev, r) /\ Still(loc.tgt, r) /\ Still(loc.id, r) /\ Still(loc.exp, r)
               /\ Still(loc.rec.applied, r)
    BY <1>2, RewrittenStays DEF Dated, OldRecord
  <2>3. LocStill
    BY <1>2, <2>2 DEF LocStill, Evidence, SoundLoc
  <2>4. /\ loc.ev = Now' => loc.ev = Now /\ native'.dns = native.dns
        /\ live.ev = Now' => live.ev = Now /\ native'.dns = native.dns
    <3>1. CASE native'.dns = native.dns /\ native'.gen = native.gen
      BY <3>1 DEF Now, Snap
    <3>2. CASE native'.gen = native.gen + 1
      <4>1. native.gen \in Nat
        BY DEF TypeOK, Resources
      <4>2. loc.ev.gen # native'.gen /\ live.ev.gen # native'.gen
        BY <3>2, <4>1 DEF Dated, Old
      <4> QED BY <4>2 DEF Now, Snap
    <3> QED BY <1>2, <3>1, <3>2
  <2>5. Apart'
    BY <1>2, <2>4 DEF Evidence, Apart, Aims
  <2> QED BY <2>1, <2>3, <2>5, EvidenceParts
<1>3. CASE \E s \in Foreign : ExternalChange(s) \/ ExternalReplacement(s)
  <2>1. native'.gen = native.gen + 1
    BY <1>3, WrittenGen DEF ExternalChange, ExternalReplacement, Guarded
  <2> QED BY <1>2, <1>3, <2>1 DEF ExternalChange, ExternalReplacement, EnvUnchanged, leaseVars
<1>4. CASE ExternalRemoval
  <2>1. native \in Resources
    BY DEF TypeOK
  <2>2. ~native'.up /\ native'.dns = native.dns /\ native'.gen = native.gen
    BY <1>4, <2>1 DEF ExternalRemoval, Resources
  <2> QED BY <1>2, <1>4, <2>2 DEF ExternalRemoval, EnvUnchanged, leaseVars
<1> QED BY <1>1, <1>3, <1>4 DEF Environment

LEMMA InitEvidence == Init => Evidence
<1> SUFFICES ASSUME Init PROVE Evidence
  OBVIOUS
<1>1. Hosted
  BY InitHosted
<1>2. \A r : Sound(None, r)
  BY <1>1, NowFields DEF Sound
<1>3. SoundJournal /\ SoundLive
  BY <1>2, NoLiveFields DEF Init, SoundJournal, SoundLive, NoRecord
<1>4. SoundLoc /\ Apart
  BY DEF Init, SoundLoc, Apart, Aims, Attests, Undoes, Undone, Mutates, Recovers, MutLabels, CompLabels
<1> QED BY <1>3, <1>4 DEF Init, Evidence

-----------------------------------------------------------------------------
EvidenceInv == Dated /\ Evidence

LEMMA DatedStep ==
    ASSUME TypeOK, OneClaim, ~ScanBeforeLock, Dated, [Next]_vars
    PROVE  Dated'
<1>1. Ages /\ scan = {}
  BY StepAges DEF OneClaim
<1>2. CASE UNCHANGED vars
  BY <1>2 DEF vars, osVars, leaseVars, Dated, Old, OldRecord
<1>3. CASE Next
  BY <1>1, <1>3, MutatingDated, CompensatingDated, ResolvingDated, LeasingDated, ReconcilingDated,
    RecoveringDated, CallsDated, EnvironmentDated, ReconcileStartDated DEF Next, Step
<1> QED BY <1>2, <1>3

LEMMA EvidenceStep ==
    ASSUME TypeOK, StoreInv, SafetyInv, ~ScanBeforeLock, Guarded, EvidenceInv, [Next]_vars
    PROVE  EvidenceInv'
<1> USE DEF StoreInv, SafetyInv, EvidenceInv
<1>1. Dated'
  BY DatedStep
<1>2. CASE UNCHANGED vars
  <2>1. UNCHANGED <<native, author, harm, journal, live, pc, op, loc>>
    BY <1>2 DEF vars, osVars, leaseVars
  <2>2. Evidence'
    BY <2>1 DEF Evidence, SoundJournal, SoundLive, SoundLoc, Sound, Claim, Apart, Aims, Attests,
        Undoes,
      Undone, Mutates, Recovers, Now
  <2> QED BY <1>1, <2>2
<1>3. CASE Next
  <2>1. Evidence'
    BY <1>3, MutatingEvidence, CompensatingEvidence, ResolvingEvidence, LeasingEvidence,
      ReconcilingEvidence, RecoveringEvidence, CallsEvidence, EnvironmentEvidence DEF Next, Step
  <2> QED BY <1>1, <2>1
<1> QED BY <1>2, <1>3

(***************************************************************************)
(* No evidence anybody holds is newer than the resource, and evidence that *)
(* names the current state was issued for a write of ours or names the     *)
(* original: the snapshots that mutate_and_verify, compensate, the live    *)
(* record and the journal carry from one native call to the next.          *)
(***************************************************************************)
THEOREM EvidenceInvariant ==
    ASSUME ~ScanBeforeLock, Guarded PROVE Spec => []EvidenceInv
<1>1. Init => EvidenceInv
  BY InitDated, InitEvidence DEF EvidenceInv
<1>2. TypeOK /\ StoreInv /\ SafetyInv /\ EvidenceInv /\ [Next]_vars => EvidenceInv'
  BY EvidenceStep
<1> QED BY <1>1, <1>2, EngineTypeCorrect, StoreInvariant, SafetyInvariant, PTL DEF Spec

(***************************************************************************)
(* With a compare-and-mutate backend that names its writes, no apply,      *)
(* update, reconcile, rollback, restore or recovery ever writes over a     *)
(* state that osdns neither wrote nor recorded, whatever other programs,   *)
(* failing calls and crashes do in between: apply_guarded compares with    *)
(* the recorded state, restore_guarded with evidence that is still sound.  *)
(***************************************************************************)
THEOREM NeverClobbers ==
    ASSUME ~ScanBeforeLock, Guarded PROVE Spec => []NoClobber
<1>1. EvidenceInv => NoClobber
  BY DEF EvidenceInv, Evidence, NoClobber
<1> QED BY <1>1, EvidenceInvariant, PTL

(***************************************************************************)
(* The evidence in the journal and on the live record, the proof of a      *)
(* verified mutation included, is never a read of someone else's write.    *)
(***************************************************************************)
THEOREM EvidenceAlwaysSound ==
    ASSUME ~ScanBeforeLock, Guarded PROVE Spec => []EvidenceSound
<1>1. EvidenceInv => EvidenceSound
  BY DEF EvidenceInv, Evidence, SoundJournal, SoundLive, Sound, EvidenceSound
<1> QED BY <1>1, EvidenceInvariant, PTL
=============================================================================
