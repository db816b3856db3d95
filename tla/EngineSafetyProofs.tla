------------------------- MODULE EngineSafetyProofs -------------------------
(***************************************************************************)
(* The resource and its recoverability in Engine, for any plans, foreign   *)
(* states, bounds, policy and backend capabilities: while a state of ours  *)
(* is in effect, the journal names the state to give back. The invariant   *)
(* follows a mutation from the intent through the write, the read-back,    *)
(* the finalized record and the compensation.                              *)
(***************************************************************************)
EXTENDS EngineStoreProofs

-----------------------------------------------------------------------------
(***************************************************************************)
(* The resource and its history.                                           *)
(***************************************************************************)

\* A state of ours is in effect, and nothing was overwritten blindly.
Ours == author # "ext" /\ harm = "none"

Hosted ==
    /\ author = "ext" <=> base = native.dns
    /\ author # "ext" => native.up
    /\ native.gen > 0

\* A write of ours: it goes over a state of ours or over one that is recorded.
LEMMA OsWriteHosted ==
    ASSUME TypeOK, Hosted, native.up, NEW s \in States, OsWrite(s)
    PROVE  /\ Hosted' /\ Now' # None /\ Now'.dns = s
           /\ Ours' => \/ Ours /\ base' = base /\ (author' = "us" => author = "us")
                       \/ author = "ext" /\ base' = native.dns /\ Recorded
<1>1. native \in Resources /\ native.gen \in Nat /\ s \in States
  BY DEF TypeOK, Resources
<1>2. native'.dns = s /\ native'.up = native.up /\ native'.gen > 0
  <2>1. native'.dns = s /\ native'.up = native.up
    BY OsWriteFrame
  <2>2. native' = [native EXCEPT !.dns = s, !.gen = IF Ownership = "Durable" THEN @ + 1 ELSE @]
    BY DEF OsWrite, Written
  <2>3. native'.gen = IF Ownership = "Durable" THEN native.gen + 1 ELSE native.gen
    BY <1>1, <2>2 DEF Resources
  <2> QED BY <1>1, <2>1, <2>3 DEF Hosted
<1>3. Now' # None /\ Now'.dns = s
  BY <1>2 DEF Now, Snap, None
<1>4. author' = "ext" <=> base' = native'.dns
  <2>1. /\ base' = IF author = "ext" THEN native.dns ELSE base
        /\ author' = IF s = base' THEN "ext" ELSE IF author = "waived" THEN "waived" ELSE "us"
    BY DEF OsWrite
  <2>2. CASE s = base'
    BY <1>2, <2>1, <2>2
  <2>3. CASE s # base'
    <3>1. author' \in {"waived", "us"}
      BY <2>1, <2>3
    <3> QED BY <1>2, <2>3, <3>1
  <2> QED BY <2>2, <2>3
<1>5. Ours' => \/ Ours /\ base' = base /\ (author' = "us" => author = "us")
               \/ author = "ext" /\ base' = native.dns /\ Recorded
  BY DEF OsWrite, Ours, TypeOK
<1> QED BY <1>2, <1>3, <1>4, <1>5 DEF Hosted

\* Every other step leaves a state of ours as it is, or stops it being ours.
Quiet ==
    /\ author' = "us" => author = "us"
    /\ Ours' => Ours /\ UNCHANGED <<native, base>>

LEMMA LeaseEndsHosted ==
    ASSUME LeaseEnds, UNCHANGED <<native, harm>>, Hosted
    PROVE  Hosted' /\ Quiet
BY DEF LeaseEnds, Hosted, Quiet, Ours

LEMMA ResolvingQuiet == TypeOK /\ Hosted /\ Resolving => Hosted' /\ Quiet
BY DEF Hosted, Quiet, Ours, osVars, Resolving, RvRepair, RvStart, RvRead, RvStatus, RvWrite,
  RvResume, RvRetain

LEMMA ReconcilingQuiet == TypeOK /\ Hosted /\ Reconciling => Hosted' /\ Quiet
BY DEF Hosted, Quiet, Ours, osVars, Reconciling, RcForget, RcFirst, RcSecond, RcPrepare,
  RcUnprepare, RcResidue

LEMMA RecoveringQuiet == TypeOK /\ Hosted /\ Recovering => Hosted' /\ Quiet
BY DEF Hosted, Quiet, Ours, osVars, Recovering, RecoverLock, RecStatus, RecCapture, RecRemove,
  RecRetain

LEMMA CallsQuiet == TypeOK /\ Hosted /\ Calls => Hosted' /\ Quiet
BY DEF Hosted, Quiet, Ours, osVars, Calls, ApplyStart, UpdateStart, RestoreStart, AbandonStart,
  RecoverScan, RecoverNow

LEMMA ReconcileStartQuiet == TypeOK /\ Hosted /\ ReconcileStart => Hosted' /\ Quiet
BY DEF Hosted, Quiet, Ours, osVars, ReconcileStart

LEMMA LeasingQuiet == TypeOK /\ Hosted /\ Leasing => Hosted' /\ Quiet
<1> SUFFICES ASSUME TypeOK, Hosted, Leasing PROVE Hosted' /\ Quiet
  OBVIOUS
<1>1. CASE RsRemove
  BY <1>1, LeaseEndsHosted DEF RsRemove, Hosted, Quiet, Ours
<1>2. CASE RsFail
  BY <1>2, LeaseEndsHosted DEF RsFail, Hosted, Quiet, Ours
<1>3. CASE AbRemove
  <2>1. PICK ok \in BOOLEAN :
          IF ok \/ op # "abandon" THEN LeaseEnds
          ELSE author' = (IF author = "us" THEN "waived" ELSE author) /\ UNCHANGED base
    BY <1>3 DEF AbRemove
  <2>2. UNCHANGED <<native, harm>>
    BY <1>3 DEF AbRemove
  <2> QED BY <2>1, <2>2, LeaseEndsHosted DEF Hosted, Quiet, Ours
<1>4. CASE UNCHANGED osVars
  BY <1>4 DEF osVars, Hosted, Quiet, Ours
<1> QED BY <1>1, <1>2, <1>3, <1>4 DEF Leasing, ApObserve, ApPersist, ApUnpersist, ApResidue,
    ApRemove, ApRetain, Done, UpRead, UpPrepare, UpUnprepare, UpResidue, RsStatus, RsRead,
    RsReread, RsRetain

LEMMA EnvironmentQuiet == TypeOK /\ Hosted /\ Environment => Hosted' /\ Quiet
<1> SUFFICES ASSUME TypeOK, Hosted, Environment PROVE Hosted' /\ Quiet
  OBVIOUS
<1>1. native.gen \in Nat /\ native \in Resources
  BY DEF TypeOK, Resources
<1>2. CASE \E s \in Foreign : ExternalChange(s)
  BY <1>1, <1>2 DEF ExternalChange, Written, Resources, Hosted, Quiet, Ours
<1>3. CASE \E s \in Foreign : ExternalReplacement(s)
  BY <1>1, <1>3 DEF ExternalReplacement, Replacement, Hosted, Quiet, Ours
<1>4. CASE ExternalRemoval
  BY <1>1, <1>4 DEF ExternalRemoval, Resources, Hosted, Quiet, Ours
<1>5. CASE Crash
  BY <1>5, LeaseEndsHosted DEF Crash
<1> QED BY <1>2, <1>3, <1>4, <1>5 DEF Environment

LEMMA MutatingQuiet ==
    ASSUME TypeOK, Hosted, Mutating
    PROVE  \/ Hosted' /\ Quiet
           \/ native.up /\ \E s \in States : OsWrite(s) /\ (MutCas \/ MutWrite)
<1>1. CASE UNCHANGED <<native, author, base, harm>>
  BY <1>1 DEF Hosted, Quiet, Ours
<1>2. MergeState(native.dns, loc.plan) \in States
  BY FieldTypes, BackendTypes DEF TypeOK
<1>3. PartialStates(native.dns, MergeState(native.dns, loc.plan)) \subseteq States
  BY <1>2, BackendTypes, BackendAssumption DEF TypeOK
<1>4. CASE MutCas
  BY <1>1, <1>2, <1>4 DEF MutCas, NativeUnchanged
<1>5. CASE MutWrite
  BY <1>1, <1>2, <1>3, <1>5 DEF MutWrite, NativeUnchanged
<1> QED BY <1>1, <1>4, <1>5 DEF Mutating, MutBind, MutCheck, MutRecheck, MutStatus, MutReadback,
      MutVerify, osVars

LEMMA CompensatingQuiet ==
    ASSUME TypeOK, Hosted, Compensating
    PROVE  \/ Hosted' /\ Quiet
           \/ native.up /\ \E s \in States : OsWrite(s) /\ (CompCas \/ CompWrite)
<1>1. CASE UNCHANGED <<native, author, base, harm>>
  BY <1>1 DEF Hosted, Quiet, Ours
<1>2. loc.tgt.dns \in States
  BY FieldTypes DEF Snapshots
<1>3. PartialStates(native.dns, loc.tgt.dns) \subseteq States
  BY <1>2, BackendTypes, BackendAssumption DEF TypeOK
<1>4. CASE CompCas
  BY <1>1, <1>2, <1>4 DEF CompCas, NativeUnchanged
<1>5. CASE CompWrite
  BY <1>1, <1>2, <1>3, <1>5 DEF CompWrite, NativeUnchanged
<1> QED BY <1>1, <1>4, <1>5 DEF Compensating, CompStatus, CompRead, CompBind, CompCheck,
      CompRecheck, CompReread, CompVerify, osVars

-----------------------------------------------------------------------------
(***************************************************************************)
(* Frames of the other steps.                                              *)
(***************************************************************************)
Paused == UNCHANGED <<native, author, base, harm, journal, phase, active, live, pc, op, loc>>

\* Only mutate_and_verify and compensate go on to their inner labels.
Inside == (MutLabels \ {"mut.bind"}) \cup (CompLabels \ {"comp.status"})

LEMMA ResolvingOutside == Resolving => pc' \notin Inside
<1> SUFFICES ASSUME Resolving PROVE pc' \notin Inside
  OBVIOUS
<1>1. CASE RvRepair
  BY <1>1 DEF Inside, MutLabels, CompLabels, RvRepair, Goto, ResolveErr
<1>2. CASE RvStart
  BY <1>2 DEF Inside, MutLabels, CompLabels, RvStart, ResolveOk, Goto, ResolveErr
<1>3. CASE RvRead
  BY <1>3 DEF Inside, MutLabels, CompLabels, RvRead, Goto, ResolveErr
<1>4. CASE RvStatus
  BY <1>4 DEF Inside, MutLabels, CompLabels, RvStatus, Goto, ResolveErr
<1>5. CASE RvWrite
  BY <1>5 DEF Inside, MutLabels, CompLabels, RvWrite, ResolveOk, Goto, ResolveErr
<1>6. CASE RvResume
  BY <1>6 DEF Inside, MutLabels, CompLabels, RvResume, ResolveOk, Goto, ResolveErr
<1>7. CASE RvRetain
  BY <1>7 DEF Inside, MutLabels, CompLabels, RvRetain, ResolveErr, Goto
<1> QED BY <1>1, <1>2, <1>3, <1>4, <1>5, <1>6, <1>7 DEF Resolving

LEMMA LeasingOutside == Leasing => pc' \notin Inside
<1> SUFFICES ASSUME Leasing PROVE pc' \notin Inside
  OBVIOUS
<1>1. CASE ApObserve
  BY <1>1 DEF Inside, MutLabels, CompLabels, ApObserve, Goto, Finish
<1>2. CASE ApPersist
  BY <1>2 DEF Inside, MutLabels, CompLabels, ApPersist, Goto
<1>3. CASE ApUnpersist
  BY <1>3 DEF Inside, MutLabels, CompLabels, ApUnpersist, Finish
<1>4. CASE ApResidue
  BY <1>4 DEF Inside, MutLabels, CompLabels, ApResidue, Goto, Finish
<1>5. CASE ApRemove
  BY <1>5 DEF Inside, MutLabels, CompLabels, ApRemove, Finish
<1>6. CASE ApRetain
  BY <1>6 DEF Inside, MutLabels, CompLabels, ApRetain, Finish
<1>7. CASE Done
  BY <1>7 DEF Inside, MutLabels, CompLabels, Done, Finish
<1>8. CASE UpRead
  BY <1>8 DEF Inside, MutLabels, CompLabels, UpRead, Goto, Finish
<1>9. CASE UpPrepare
  BY <1>9 DEF Inside, MutLabels, CompLabels, UpPrepare, Goto
<1>10. CASE UpUnprepare
  BY <1>10 DEF Inside, MutLabels, CompLabels, UpUnprepare, Finish
<1>11. CASE UpResidue
  BY <1>11 DEF Inside, MutLabels, CompLabels, UpResidue, Finish
<1>12. CASE RsStatus
  BY <1>12 DEF Inside, MutLabels, CompLabels, RsStatus, Goto
<1>13. CASE RsRead
  BY <1>13 DEF Inside, MutLabels, CompLabels, RsRead, Goto, RsCompare
<1>14. CASE RsReread
  BY <1>14 DEF Inside, MutLabels, CompLabels, RsReread, Goto, RsCompare
<1>15. CASE RsRetain
  BY <1>15 DEF Inside, MutLabels, CompLabels, RsRetain, Goto
<1>16. CASE RsRemove
  BY <1>16 DEF Inside, MutLabels, CompLabels, RsRemove, Finish, Goto
<1>17. CASE RsFail
  BY <1>17 DEF Inside, MutLabels, CompLabels, RsFail, Finish
<1>18. CASE AbRemove
  BY <1>18 DEF Inside, MutLabels, CompLabels, AbRemove, Finish
<1> QED BY <1>1, <1>2, <1>3, <1>4, <1>5, <1>6, <1>7, <1>8, <1>9, <1>10, <1>11, <1>12, <1>13, <1>14,
  <1>15, <1>16, <1>17, <1>18 DEF Leasing

LEMMA ReconcilingOutside == Reconciling => pc' \notin Inside
<1> SUFFICES ASSUME Reconciling PROVE pc' \notin Inside
  OBVIOUS
<1>1. CASE RcForget
  BY <1>1 DEF Inside, MutLabels, CompLabels, RcForget, Finish
<1>2. CASE RcFirst
  BY <1>2 DEF Inside, MutLabels, CompLabels, RcFirst, Goto, Finish
<1>3. CASE RcSecond
  BY <1>3 DEF Inside, MutLabels, CompLabels, RcSecond, Goto, Finish
<1>4. CASE RcPrepare
  BY <1>4 DEF Inside, MutLabels, CompLabels, RcPrepare, Goto
<1>5. CASE RcUnprepare
  BY <1>5 DEF Inside, MutLabels, CompLabels, RcUnprepare, Finish
<1>6. CASE RcResidue
  BY <1>6 DEF Inside, MutLabels, CompLabels, RcResidue, Finish
<1> QED BY <1>1, <1>2, <1>3, <1>4, <1>5, <1>6 DEF Reconciling

LEMMA RecoveringOutside == Recovering => pc' \notin Inside
<1> SUFFICES ASSUME Recovering PROVE pc' \notin Inside
  OBVIOUS
<1>1. CASE RecoverLock
  BY <1>1 DEF Inside, MutLabels, CompLabels, RecoverLock, RecoverBegins
<1>2. CASE RecStatus
  BY <1>2 DEF Inside, MutLabels, CompLabels, RecStatus, Goto, Finish
<1>3. CASE RecCapture
  BY <1>3 DEF Inside, MutLabels, CompLabels, RecCapture, Goto, Finish
<1>4. CASE RecRemove
  BY <1>4 DEF Inside, MutLabels, CompLabels, RecRemove, Goto, Finish
<1>5. CASE RecRetain
  BY <1>5 DEF Inside, MutLabels, CompLabels, RecRetain, Finish
<1> QED BY <1>1, <1>2, <1>3, <1>4, <1>5 DEF Recovering

LEMMA CallsOutside == Calls => pc' \notin Inside \/ Paused
<1> SUFFICES ASSUME Calls PROVE pc' \notin Inside \/ Paused
  OBVIOUS
<1>1. CASE \E plan \in Plans : ApplyStart(plan)
  BY <1>1 DEF Inside, MutLabels, CompLabels, ApplyStart
<1>2. CASE \E plan \in Plans : UpdateStart(plan)
  BY <1>2 DEF Inside, MutLabels, CompLabels, UpdateStart
<1>3. CASE \E how \in {"restore", "drop"} : RestoreStart(how)
  BY <1>3 DEF Inside, MutLabels, CompLabels, RestoreStart
<1>4. CASE \E how \in {"abandon", "drop", "discard"} : AbandonStart(how)
  BY <1>4 DEF Inside, MutLabels, CompLabels, AbandonStart
<1>5. CASE RecoverScan
  BY <1>5 DEF Paused, osVars, leaseVars, RecoverScan
<1>6. CASE RecoverNow
  BY <1>6 DEF Inside, MutLabels, CompLabels, RecoverNow, RecoverBegins
<1> QED BY <1>1, <1>2, <1>3, <1>4, <1>5, <1>6 DEF Calls

LEMMA ReconcileStartOutside == ReconcileStart => pc' \notin Inside
BY DEF ReconcileStart, Inside, MutLabels, CompLabels

\* Another program takes the resource over; a crash loses locals and lease.
Died ==
    /\ pc' = "idle" /\ op' = "none" /\ loc' = NoLoc
    /\ phase' = "none" /\ active' = FALSE /\ live' = NoLive /\ UNCHANGED <<native, journal, harm>>
    /\ IF journal = {} /\ (author = "waived" \/ op \in {"abandon", "discard"})
       THEN author' = "ext" ELSE UNCHANGED <<author, base>>

LEMMA EnvironmentFrame ==
    Environment => \/ ~Ours' /\ UNCHANGED <<harm, journal, phase, active, live, pc, op, loc, scan>>
                   \/ Died
<1> SUFFICES ASSUME Environment
             PROVE  \/ ~Ours' /\ UNCHANGED <<harm, journal, phase, active, live, pc, op, loc, scan>>
                    \/ Died
  OBVIOUS
<1>1. CASE \E s \in Foreign : ExternalChange(s) \/ ExternalReplacement(s)
  BY <1>1 DEF ExternalChange, ExternalReplacement, EnvUnchanged, Ours, leaseVars
<1>2. CASE ExternalRemoval
  BY <1>2 DEF ExternalRemoval, EnvUnchanged, Ours, leaseVars
<1>3. CASE Crash
  BY <1>3 DEF Crash, LeaseEnds, Finish, Died
<1> QED BY <1>1, <1>2, <1>3 DEF Environment

-----------------------------------------------------------------------------
(***************************************************************************)
(* Evidence: what mutate_and_verify and compensate hold of the state they  *)
(* wrote.                                                                  *)
(***************************************************************************)
\* A backend's guard decides the labels a write goes through, and whether the
\* write issues an identity.
Routed ==
    /\ pc \in {"mut.cas", "comp.cas"} => Guard = "CompareAndMutate"
    /\ pc \in {"mut.check", "mut.recheck", "mut.write", "comp.check", "comp.recheck", "comp.write"} =>
          Guard = "Unconditional"
    /\ pc \in {"mut.status", "mut.readback", "mut.verify", "comp.reread", "comp.verify"} =>
          (loc.ev = None <=> Guard = "Unconditional")

\* While the state is ours, the issued identity and the verification read name it.
Seen ==
    /\ pc \in {"mut.status", "mut.readback", "mut.verify", "comp.reread", "comp.verify"} /\ Ours =>
          loc.ev = Now \/ loc.ev = None
    /\ pc \in {"mut.verify", "comp.verify"} =>
          loc.cur # None /\ (Ours => loc.cur = Now)
    /\ pc \in {"mut.status", "mut.readback", "mut.verify"} =>
          loc.ev = None \/ MatchesDesired(loc.ev.dns, loc.plan)
    /\ pc = "mut.verify" => MatchesDesired(loc.cur.dns, loc.plan)

LEMMA MutatingSeen == TypeOK /\ Hosted /\ Routed /\ Seen /\ Mutating => Routed' /\ Seen'
<1> SUFFICES ASSUME TypeOK, Hosted, Routed, Seen, Mutating PROVE Routed' /\ Seen'
  OBVIOUS
<1>1. CASE MutBind
  BY <1>1, Shapes, Handovers, BackendAssumption DEF Routed, Seen, Ours, Now, Locals, MutBind,
    Stay, Goto, osVars, leaseVars
<1>2. CASE MutCas
  <2>1. CASE NativeUnchanged /\ (Rollback(None) \/ Rejected)
    BY <2>1, Handovers DEF Routed, Seen
  <2>2. CASE /\ native.up /\ OsWrite(MergeState(native.dns, loc.plan))
             /\ \/ Goto("mut.status") /\ loc' = [loc EXCEPT !.ev = Snap(native')]
                \/ Rollback(Snap(native'))
    <3> DEFINE s == MergeState(native.dns, loc.plan)
    <3>1. native.up /\ s \in States
      BY <2>2, FieldTypes, BackendTypes DEF TypeOK
    <3>2. Now' # None /\ Now'.dns = s
      BY <2>2, <3>1, OsWriteHosted
    <3>3. MatchesDesired(s, loc.plan)
      BY FieldTypes DEF MatchesDesired, MergeState
    <3> HIDE DEF s
    <3>4. /\ loc'.plan = loc.plan
          /\ \/ pc' = "comp.status"
             \/ pc' = "mut.status" /\ loc'.ev = Now'
      BY <2>2, Shapes, Handovers DEF Goto, Locals, Now
    <3> QED BY <1>2, <3>2, <3>3, <3>4 DEF MutCas, Routed, Seen
  <2> QED BY <1>2, <2>1, <2>2 DEF MutCas
<1>3. CASE MutCheck
  BY <1>3, Shapes, Handovers, BackendAssumption DEF Routed, Seen, Ours, Now, Locals, MutCheck,
    Goto, Stay, leaseVars
<1>4. CASE MutRecheck
  BY <1>4, Shapes, Handovers, BackendAssumption DEF Routed, Seen, Ours, Now, Locals, MutRecheck,
    Goto, Stay, osVars, leaseVars
<1>5. CASE MutWrite
  <2>1. \/ pc' = "comp.status"
        \/ pc' = "mut.status" /\ loc'.ev = None
    BY <1>5, Shapes, Handovers DEF MutWrite, Goto, Locals
  <2> QED BY <1>5, <2>1 DEF MutWrite, Routed, Seen
<1>6. CASE MutStatus
  BY <1>6, Shapes, Handovers, BackendAssumption DEF Routed, Seen, Ours, Now, Locals, MutStatus,
    Goto, Stay, osVars, leaseVars
<1>7. CASE MutReadback
  <2>1. Now # None /\ Now.dns = native.dns
    BY DEF Hosted, Now, Snap, None
  <2>2. UNCHANGED <<native, author, harm>> /\ Now' = Now
    BY <1>7 DEF MutReadback, osVars, Now
  <2>3. CASE /\ MatchesDesired(native.dns, loc.plan)
             /\ Goto("mut.verify") /\ loc' = [loc EXCEPT !.cur = Now]
    <3>1. pc' = "mut.verify" /\ loc'.cur = Now /\ loc'.ev = loc.ev /\ loc'.plan = loc.plan
      BY <2>3, Shapes DEF Goto, Locals
    <3> QED BY <1>7, <2>1, <2>2, <2>3, <3>1 DEF MutReadback, Routed, Seen, Ours
  <2>4. CASE Rollback(loc.ev)
    BY <2>4, Handovers DEF Routed, Seen
  <2> QED BY <1>7, <2>3, <2>4 DEF MutReadback
<1>8. CASE MutVerify
  BY <1>8, Shapes, Handovers, BackendAssumption DEF Routed, Seen, Ours, Now, Locals, MutVerify,
    LiveVerified, LiveAs, Goto, osVars
<1> QED BY <1>1, <1>2, <1>3, <1>4, <1>5, <1>6, <1>7, <1>8 DEF Mutating

LEMMA CompensatingSeen == TypeOK /\ Hosted /\ Routed /\ Seen /\ Compensating => Routed' /\ Seen'
<1> SUFFICES ASSUME TypeOK, Hosted, Routed, Seen, Compensating PROVE Routed' /\ Seen'
  OBVIOUS
<1>1. CASE CompStatus
  BY <1>1, Shapes, Handovers, BackendAssumption DEF Routed, Seen, Ours, Now, Locals, CompStatus,
    Goto, Stay, osVars, leaseVars
<1>2. CASE CompRead
  BY <1>2, Shapes, Handovers, BackendAssumption DEF Routed, Seen, Ours, Now, Locals, CompRead,
    Goto, Stay, osVars, leaseVars
<1>3. CASE CompBind
  BY <1>3, Shapes, Handovers, BackendAssumption DEF Routed, Seen, Ours, Now, Locals, CompBind,
    Stay, Goto, osVars, leaseVars
<1>4. CASE CompCas
  <2>1. CASE NativeUnchanged /\ CompErr
    BY <2>1, Handovers DEF Routed, Seen
  <2>2. CASE /\ native.up /\ OsWrite(loc.tgt.dns)
             /\ Goto("comp.reread") /\ loc' = [loc EXCEPT !.ev = Snap(native')]
    <3>1. native.up /\ loc.tgt.dns \in States
      BY <2>2, FieldTypes DEF Snapshots
    <3>2. Now' # None
      BY <2>2, <3>1, OsWriteHosted
    <3>3. pc' = "comp.reread" /\ loc'.ev = Now'
      BY <2>2, Shapes DEF Goto, Locals, Now
    <3> QED BY <1>4, <3>2, <3>3 DEF CompCas, Routed, Seen
  <2> QED BY <1>4, <2>1, <2>2 DEF CompCas
<1>5. CASE CompCheck
  BY <1>5, Shapes, Handovers, BackendAssumption DEF Routed, Seen, Ours, Now, Locals, CompCheck,
    Goto, Stay, leaseVars
<1>6. CASE CompRecheck
  BY <1>6, Shapes, Handovers, BackendAssumption DEF Routed, Seen, Ours, Now, Locals,
    CompRecheck, Goto, Stay, osVars, leaseVars
<1>7. CASE CompWrite
  <2>1. CASE CompErr
    BY <2>1, Handovers DEF Routed, Seen
  <2>2. CASE pc' = "comp.reread" /\ loc'.ev = None
    BY <1>7, <2>2 DEF CompWrite, Routed, Seen
  <2> QED BY <1>7, <2>1, <2>2, Shapes DEF CompWrite, Goto, Locals
<1>8. CASE CompReread
  <2>1. Now # None
    BY DEF Hosted, Now, Snap, None
  <2> QED BY <1>8, Shapes, Handovers, BackendAssumption, <2>1 DEF Routed, Seen, Ours, Now, Locals,
    CompReread, Goto, osVars, leaseVars
<1>9. CASE CompVerify
  BY <1>9, Shapes, Handovers, BackendAssumption DEF Routed, Seen, Ours, Now, Locals, CompVerify,
    osVars, leaseVars
<1> QED BY <1>1, <1>2, <1>3, <1>4, <1>5, <1>6, <1>7, <1>8, <1>9 DEF Compensating

LEMMA SeenStep ==
    TypeOK /\ Hosted /\ Routed /\ Seen /\ [Next]_vars => Routed' /\ Seen'
<1> SUFFICES ASSUME TypeOK, Hosted, Routed, Seen, [Next]_vars PROVE Routed' /\ Seen'
  OBVIOUS
<1>1. CASE pc' \notin Inside
  BY <1>1 DEF Inside, MutLabels, CompLabels, Routed, Seen
<1>2. CASE Paused \/ UNCHANGED vars
  BY <1>2 DEF Paused, vars, osVars, leaseVars, Routed, Seen, Ours, Now
<1>3. CASE Environment
  <2>1. CASE ~Ours' /\ UNCHANGED <<pc, loc>>
    BY <2>1 DEF Routed, Seen
  <2>2. CASE pc' = "idle"
    BY <1>1, <2>2 DEF Inside, MutLabels, CompLabels
  <2> QED BY <1>3, <2>1, <2>2, EnvironmentFrame DEF Died
<1> QED BY <1>1, <1>2, <1>3, MutatingSeen, CompensatingSeen, ResolvingOutside, LeasingOutside,
      ReconcilingOutside, RecoveringOutside, CallsOutside, ReconcileStartOutside DEF Next, Step

LEMMA InitSeen == Init => Routed /\ Seen
BY DEF Init, Routed, Seen

-----------------------------------------------------------------------------
(***************************************************************************)
(* Hosted is kept; a step that does not write leaves a state of ours alone.*)
(***************************************************************************)
\* A write of ours goes over a state of ours or over a recorded one.
Overwrites ==
    /\ pc \in {"mut.cas", "mut.write", "comp.cas", "comp.write"} /\ native'.inc = native.inc
    /\ Ours' => \/ Ours /\ base' = base /\ (author' = "us" => author = "us")
                \/ author = "ext" /\ base' = native.dns /\ Recorded

LEMMA MutatingHosted == TypeOK /\ Hosted /\ Mutating => Hosted' /\ (Quiet \/ Overwrites)
<1> SUFFICES ASSUME TypeOK, Hosted, Mutating, ~(Hosted' /\ Quiet) PROVE Hosted' /\ Overwrites
  OBVIOUS
<1>1. PICK s \in States : native.up /\ OsWrite(s) /\ (MutCas \/ MutWrite)
  BY MutatingQuiet
<1>2. native'.inc = native.inc
  BY <1>1, OsWriteFrame
<1> QED BY <1>1, <1>2, OsWriteHosted DEF Overwrites, MutCas, MutWrite

LEMMA CompensatingHosted == TypeOK /\ Hosted /\ Compensating => Hosted' /\ (Quiet \/ Overwrites)
<1> SUFFICES ASSUME TypeOK, Hosted, Compensating, ~(Hosted' /\ Quiet) PROVE Hosted' /\ Overwrites
  OBVIOUS
<1>1. PICK s \in States : native.up /\ OsWrite(s) /\ (CompCas \/ CompWrite)
  BY CompensatingQuiet
<1>2. native'.inc = native.inc
  BY <1>1, OsWriteFrame
<1> QED BY <1>1, <1>2, OsWriteHosted DEF Overwrites, CompCas, CompWrite

LEMMA HostedStep == TypeOK /\ Hosted /\ [Next]_vars => Hosted'
<1>1. Hosted /\ UNCHANGED vars => Hosted'
  BY DEF vars, osVars, Hosted
<1> QED BY <1>1, MutatingHosted, CompensatingHosted, ResolvingQuiet, LeasingQuiet,
      ReconcilingQuiet, RecoveringQuiet, CallsQuiet, EnvironmentQuiet, ReconcileStartQuiet
      DEF Next, Step

LEMMA InitHosted == Init => Hosted
BY DEF Init, Hosted

-----------------------------------------------------------------------------
(***************************************************************************)
(* Intent: what an operation is about to write, and what it would give     *)
(* back.                                                                   *)
(***************************************************************************)
Guarded == Ownership = "Durable" /\ Guard = "CompareAndMutate"

\* A backend that can name states but writes without comparing never verifies a
\* mutation: it commits only what it found.
Loose == Ownership = "Durable" /\ Guard = "Unconditional"

\* A finalized record.
Good(r) ==
    /\ r.phase = "Applied" /\ r.applied # None
    /\ MatchesDesired(r.applied.dns, r.desired)
    /\ Loose => r.applied.dns = r.before.dns

Planned ==
    /\ op = "reconcile" => loc.plan = live.rec.desired
    /\ op = "update" /\ Mutates => live.rec.desired = loc.plan
    /\ op = "update" /\ (Mutates \/ pc \in {"up.prepare", "up.unprepare"}) =>
          Good(loc.rec) /\ loc.exp = loc.rec.applied
    /\ op = "apply" /\ (Mutates \/ pc = "ap.persist") =>
          loc.exp = loc.rec.before /\ loc.rec.desired = loc.plan
    /\ pc = "ap.persist" /\ loc.rec.phase = "Applied" => Good(loc.rec)
    /\ op = "reconcile" /\ (Mutates \/ pc \in {"rc.prepare", "rc.unprepare"}) =>
          loc.exp.dns = loc.rec.before.dns /\ loc.rec.phase = "Prepared"
    /\ pc \in {"rc.first", "rc.second"} => live.st # "Compensating"

Targeted ==
    /\ pc \in CompLabels =>
          /\ loc.ret = "residue" => loc.tgt = loc.exp
          /\ loc.ret = "resolve" => loc.tgt = live.tgt
          /\ loc.ret = "restore" =>
                loc.tgt = live.rec.before /\ live.tgt = loc.tgt /\ live.resume.phase = "Prepared"
          /\ loc.ret = "recover" => loc.tgt = loc.rec.before
    /\ pc \in {"rv.resume", "rv.retain", "rs.retain"} => loc.tgt = live.tgt
    /\ pc = "rs.retain" => live.resume.phase = "Prepared"
    /\ pc = "residue" =>
          /\ loc.res \in {"Unchanged", "Restored", "Pending"}
          /\ loc.res # "Unchanged" => loc.tgt = loc.exp

Intent == Planned /\ Targeted

\* The lease has a live record.
Leased == phase # "none" \/ Granting

\* Under a compare-and-mutate backend with identities, a state of ours is the
\* one the evidence names or the target itself.
Named(ev, tgt) == Guarded /\ Ours => Now \in {ev, tgt}

\* What the state of a live record says about the resource.
Ident ==
    /\ live.st = "Committed" => Good(live.rec)
    /\ live.st = "Committed" /\ Leased /\ Ours => OwnsCurrent(live.rec.applied, Now)
    /\ live.st = "Verified" =>
          live.proof # None /\ MatchesDesired(live.proof.dns, live.rec.desired) /\ ~Loose
    /\ live.st = "Verified" /\ Leased /\ Ours => OwnsCurrent(live.proof, Now)
    /\ live.st = "Unmutated" /\ phase # "none" /\ pc # "up.unprepare" => ~Ours
    /\ live.st = "Compensating" =>
          \/ live.resume.phase = "Prepared" /\ live.tgt.dns = live.rec.before.dns
          \/ Good(live.resume) /\ live.tgt = live.resume.applied
    /\ live.st = "Compensating" /\ live.resume.phase = "Applied"
          /\ pc \notin CompLabels \cup {"rv.resume", "rv.retain"} => Named(live.ev, live.tgt)

LEMMA RcPrepareEffect ==
    ASSUME RcPrepare
    PROVE  /\ pc = "rc.prepare" /\ loc' = loc /\ op' = op
           /\ \/ /\ Wrote(loc.rec) /\ pc' = "mut.bind" /\ live'.rec = loc.rec
                 /\ live'.st = "Prepared" /\ live'.repair = FALSE /\ PlainLive(live')
              \/ WroteOrNot(loc.rec) /\ pc' = "rc.unprepare" /\ live' = live
<1>1. CASE /\ JournalWrite(loc.rec, TRUE) /\ live' = LiveAs(loc.rec, "Prepared", FALSE)
           /\ Goto("mut.bind")
  BY <1>1 DEF RcPrepare, Stay, Goto, JournalWrite, Wrote, LiveAs, PlainLive
<1>2. CASE JournalWrite(loc.rec, FALSE) /\ UNCHANGED live /\ Goto("rc.unprepare")
  BY <1>2 DEF RcPrepare, Stay, Goto, JournalWrite, WroteOrNot
<1> QED BY <1>1, <1>2 DEF RcPrepare

LEMMA RcResidueEffect ==
    ASSUME RcResidue
    PROVE  /\ pc = "residue" /\ op = "reconcile" /\ pc' = "idle" /\ op' = "none" /\ loc' = NoLoc
           /\ live'.rec = live.rec /\ live'.repair = FALSE /\ live'.proof = None
           /\ \/ /\ loc.res = "Pending" /\ live'.st = "Compensating"
                 /\ live'.ev = loc.ev /\ live'.tgt = loc.tgt /\ live'.resume = loc.rec
              \/ loc.res # "Pending" /\ live'.st = "Unmutated" /\ PlainLive(live')
<1>1. pc = "residue" /\ op = "reconcile" /\ pc' = "idle" /\ op' = "none" /\ loc' = NoLoc
  BY DEF RcResidue, Finish
<1>2. CASE loc.res = "Pending"
  BY <1>1, <1>2 DEF RcResidue, LiveCompensating, LiveAs
<1>3. CASE loc.res # "Pending"
  BY <1>1, <1>3 DEF RcResidue, LiveAs, PlainLive
<1> QED BY <1>2, <1>3

LEMMA RecCaptureEffect ==
    ASSUME TypeOK, RecCapture
    PROVE  \/ Finish
           \/ /\ ~native.up \/ Equivalent(Now, loc.rec.before)
              /\ pc' = "rec.remove" /\ op' = op /\ loc' = loc
           \/ /\ native.up /\ ~Equivalent(Now, loc.rec.before) /\ loc.rec.applied # None
              /\ OwnsCurrent(loc.rec.applied, Now)
              /\ pc' = "comp.status" /\ op' = op /\ loc'.ev = loc.rec.applied
              /\ loc'.tgt = loc.rec.before /\ loc'.ret = "recover" /\ loc'.rec = loc.rec
BY Shapes DEF RecCapture, Goto, Stay, Locals

LEMMA OwnedState == ASSUME NEW a, NEW b, OwnsCurrent(a, b) PROVE a.dns = b.dns
BY DEF OwnsCurrent, Equivalent

LEMMA MatchingState ==
    ASSUME NEW s, NEW t, NEW plan, s = t, MatchesDesired(s, plan) PROVE MatchesDesired(t, plan)
OBVIOUS

\* How mutate_and_verify and compensate end.
LEMMA MutatingExits ==
    ASSUME TypeOK, Mutating
    PROVE  /\ pc' = "comp.status" => loc'.tgt = loc.exp
           /\ pc' = "residue" => loc'.res = "Unchanged"
<1>1. CASE MutVerify
  <2>1. CASE Rollback(loc.ev)
    BY <2>1, Handovers
  <2> QED BY <1>1, <2>1 DEF MutVerify, Goto
<1>2. CASE MutBind \/ MutCheck \/ MutRecheck \/ MutStatus
  BY <1>2, Handovers DEF MutBind, MutCheck, MutRecheck, MutStatus, Goto
<1>3. CASE MutCas
  BY <1>3, Handovers DEF MutCas, Goto
<1>4. CASE MutWrite
  BY <1>4, Handovers DEF MutWrite, Goto
<1>5. CASE MutReadback
  BY <1>5, Handovers DEF MutReadback, Goto
<1> QED BY <1>1, <1>2, <1>3, <1>4, <1>5 DEF Mutating

LEMMA CompensatingExits ==
    ASSUME TypeOK, Compensating
    PROVE  pc' = "residue" => loc'.res \in {"Restored", "Pending"}
<1>1. CASE CompStatus
  BY <1>1, Handovers DEF CompStatus, Goto
<1>2. CASE CompRead
  BY <1>2, Handovers DEF CompRead, Goto
<1>3. CASE CompBind
  BY <1>3, Handovers DEF CompBind, Goto
<1>4. CASE CompCas
  BY <1>4, Handovers DEF CompCas, Goto
<1>5. CASE CompCheck
  BY <1>5, Handovers DEF CompCheck, Goto
<1>6. CASE CompRecheck
  BY <1>6, Handovers DEF CompRecheck, Goto
<1>7. CASE CompWrite
  BY <1>7, Handovers DEF CompWrite, Goto
<1>8. CASE CompReread
  BY <1>8, Handovers DEF CompReread, Goto
<1>9. CASE CompVerify
  BY <1>9, Handovers DEF CompVerify, Goto
<1> QED BY <1>1, <1>2, <1>3, <1>4, <1>5, <1>6, <1>7, <1>8, <1>9 DEF Compensating

LEMMA MutatingIntent == TypeOK /\ Control /\ Own /\ Hosted /\ Ident /\ Intent /\ Mutating => Intent'
BY MutatingFrame, MutatingExits DEF MutatingKeeps, Intent, Planned, Targeted, Own, SameLease,
  SameClaim, Mutates, Recovers, Control, Calling, Located, Repairing, Granting, Finishing,
  MutLabels, CompLabels

LEMMA CompensatingIntent ==
    TypeOK /\ Control /\ Own /\ Hosted /\ Ident /\ Intent /\ Compensating => Intent'
BY CompensatingFrame, CompensatingExits DEF CompensatingKeeps, Intent, Planned, Targeted, Own,
  SameLease, SameClaim, Mutates, Recovers, Control, Calling, Located, Repairing, Granting,
  Finishing, MutLabels, CompLabels

LEMMA ResolvingIntent ==
    TypeOK /\ Control /\ Own /\ Hosted /\ Ident /\ Intent /\ Resolving => Intent'
<1> SUFFICES ASSUME TypeOK, Control, Own, Hosted, Ident, Intent, Resolving PROVE Intent'
  OBVIOUS
<1>1. CASE RvRepair
  BY <1>1, Shapes, ZenonT(60) DEF Intent, Planned, Targeted, Own, SameLease, SameClaim, Mutates,
    Recovers, Control, Calling, Located, Repairing, Granting, Finishing, MutLabels, CompLabels, Locals,
    LiveRecords, Records, RvRepair, Stay, Goto, ResolveErr
<1>2. CASE RvStart
  BY <1>2, Shapes, ZenonT(60) DEF Intent, Planned, Targeted, Own, SameLease, SameClaim, Mutates,
    Recovers, Control, Calling, Located, Repairing, Granting, Finishing, MutLabels, CompLabels, Locals,
    LiveRecords, Records, RvStart, Clean, ResolveOk, Goto, Stay, ResolveErr, leaseVars
<1>3. CASE RvRead
  BY <1>3, Shapes DEF Intent, Planned, Targeted, Own, SameLease, SameClaim, Mutates, Recovers,
    Control, Calling, Located, Repairing, Granting, Finishing, MutLabels, CompLabels, Locals,
    LiveRecords, Records, RvRead, Clean, Goto, FailsIf, Fault, ResolveErr, Stay, leaseVars
<1>4. CASE RvStatus
  BY <1>4, Shapes DEF Intent, Planned, Targeted, Own, SameLease, SameClaim, Mutates, Recovers,
    Control, Calling, Located, Repairing, Granting, Finishing, MutLabels, CompLabels, Locals,
    LiveRecords, Records, RvStatus, Stay, Clean, Goto, FailsIf, Fault, ResolveErr, leaseVars
<1>5. CASE RvWrite
  <2>1. /\ live'.st = "Committed" \/ live' = live
        /\ live'.rec.desired = live.rec.desired
        /\ loc' = loc /\ (ResolveOk \/ ResolveErr)
    BY <1>5, RvWriteEffect DEF Variant
  <2> QED BY <1>5, <2>1 DEF Intent, Planned, Targeted, Own, SameLease, SameClaim, Mutates, Recovers,
    Control, Calling, Located, Repairing, Granting, Finishing, MutLabels, CompLabels, RvWrite,
    ResolveOk, ResolveErr, Goto
<1>6. CASE RvResume
  <2>1. /\ live'.st # "Compensating" /\ live'.rec = Resumed(live.resume, loc.id)
        /\ loc' = loc /\ (ResolveOk \/ ResolveErr)
    BY <1>6, RvResumeEffect
  <2>2. live.resume \in Records /\ loc.id \in Snapshots
    BY FieldTypes
  <2>3. live'.rec.desired = live.resume.desired
    BY <2>1, <2>2, ResumedFields
  <2> QED BY <1>6, <2>1, <2>3 DEF Intent, Planned, Targeted, Own, SameLease, SameClaim, Mutates,
    Recovers, Control, Calling, Located, Repairing, Granting, Finishing, MutLabels, CompLabels,
    RvResume, ResolveOk, ResolveErr, Goto
<1>7. CASE RvRetain
  <2>1. /\ live'.rec.desired = live.resume.desired
        /\ live'.resume = live.resume /\ live'.st = "Compensating"
    BY <1>7, RetainEffect
  <2> QED BY <1>7, <2>1 DEF Intent, Planned, Targeted, Own, SameLease, SameClaim, Mutates, Recovers,
    Control, Calling, Located, Repairing, Granting, Finishing, MutLabels, CompLabels, RvRetain,
    ResolveErr, Goto, Stay
<1> QED BY <1>1, <1>2, <1>3, <1>4, <1>5, <1>6, <1>7 DEF Resolving

LEMMA LeasingIntent == TypeOK /\ Control /\ Own /\ Hosted /\ Ident /\ Intent /\ Leasing => Intent'
<1> SUFFICES ASSUME TypeOK, Control, Own, Hosted, Ident, Intent, Leasing PROVE Intent'
  OBVIOUS
<1>1. CASE ApObserve
  <2>1. Now # None /\ Now \in Snapshots /\ Now.dns = native.dns
    BY FieldTypes DEF Hosted, Now, Snap, None
  <2>2. CASE Finish
    BY <2>2, NoLocFields DEF Intent, Planned, Targeted, Own, SameLease, SameClaim, Mutates,
      Recovers, Control, Calling, Located, Repairing, Granting, Finishing, MutLabels,
      CompLabels, Finish
  <2>3. CASE /\ native.up /\ pc' = "ap.persist" /\ op' = op
             /\ loc'.rec.before = Now /\ loc'.rec.desired = loc.plan
             /\ \/ /\ MatchesDesired(native.dns, loc.plan)
                   /\ loc'.rec.phase = "Applied" /\ loc'.rec.applied = Now
                \/ loc'.rec.phase = "Prepared" /\ loc'.rec.applied = None
             /\ loc'.exp = Now /\ loc'.plan = loc.plan
    <3>1. loc'.rec.phase = "Applied" => Good(loc'.rec)
      BY <2>1, <2>3 DEF Good
    <3>2. op = "apply"
      BY <1>1 DEF ApObserve, Control, Located
    <3> QED BY <1>1, <2>3, <3>1, <3>2 DEF Intent, Planned, Targeted, Mutates, MutLabels, CompLabels
  <2> QED BY <1>1, <2>2, <2>3, ApObserveEffect
<1>2. CASE ApPersist
  BY <1>2, Shapes DEF Intent, Planned, Targeted, Own, SameLease, SameClaim, Mutates, Recovers,
    Control, Calling, Located, Repairing, Granting, Finishing, MutLabels, CompLabels, Locals,
    LiveRecords, Records, ApPersist, Stay, LiveAs, Goto
<1>3. CASE ApUnpersist
  BY <1>3, Shapes DEF Intent, Planned, Targeted, Own, SameLease, SameClaim, Mutates, Recovers,
    Control, Calling, Located, Repairing, Granting, Finishing, MutLabels, CompLabels, Locals,
    LiveRecords, Records, ApUnpersist, Finish, NoLoc, leaseVars
<1>4. CASE ApResidue
  BY <1>4, Shapes DEF Intent, Planned, Targeted, Own, SameLease, SameClaim, Mutates, Recovers,
    Control, Calling, Located, Repairing, Granting, Finishing, MutLabels, CompLabels, Locals,
    LiveRecords, Records, ApResidue, Clean, Goto, Stay, FailsIf, Fault, Finish, NoLoc, leaseVars
<1>5. CASE ApRemove
  BY <1>5, Shapes DEF Intent, Planned, Targeted, Own, SameLease, SameClaim, Mutates, Recovers,
    Control, Calling, Located, Repairing, Granting, Finishing, MutLabels, CompLabels, Locals,
    LiveRecords, Records, ApRemove, Finish, NoLoc, leaseVars
<1>6. CASE ApRetain
  BY <1>6, Shapes DEF Intent, Planned, Targeted, Own, SameLease, SameClaim, Mutates, Recovers,
    Control, Calling, Located, Repairing, Granting, Finishing, MutLabels, CompLabels, Locals,
    LiveRecords, Records, ApRetain, Finish, NoLoc, leaseVars
<1>7. CASE Done
  BY <1>7, Shapes DEF Intent, Planned, Targeted, Own, SameLease, SameClaim, Mutates, Recovers,
    Control, Calling, Located, Repairing, Granting, Finishing, MutLabels, CompLabels, Locals,
    LiveRecords, Records, Done, Clean, Finish, NoLoc
<1>8. CASE UpRead
  <2>1. CASE Finish
    BY <2>1, NoLocFields DEF Intent, Planned, Targeted, Own, SameLease, SameClaim, Mutates,
      Recovers, Control, Calling, Located, Repairing, Granting, Finishing, MutLabels,
      CompLabels, Finish
  <2>2. CASE /\ Applied # None /\ Goto("up.prepare")
             /\ loc' = [loc EXCEPT !.exp = Applied, !.rec = live.rec]
    <3>1. live.st = "Committed" /\ Applied = live.rec.applied
      BY <2>2 DEF Applied
    <3>2. Good(live.rec)
      BY <3>1 DEF Ident
    <3>3. loc'.rec = live.rec /\ loc'.exp = live.rec.applied /\ pc' = "up.prepare" /\ op' = op
      BY <2>2, <3>1, Shapes DEF Locals, Goto
    <3> QED BY <1>8, <3>2, <3>3 DEF Intent, Planned, Targeted, Mutates, MutLabels, CompLabels,
        Control,
      Located, UpRead, leaseVars
  <2> QED BY <1>8, <2>1, <2>2 DEF UpRead
<1>9. CASE UpPrepare
  <2>1. /\ live'.rec.desired = loc.plan /\ live'.st # "Compensating" /\ loc' = loc /\ op' = op
        /\ pc' \in {"up.unprepare", "mut.bind"}
    BY <1>9, UpPrepareEffect
  <2> QED BY <1>9, <2>1 DEF Intent, Planned, Targeted, Own, SameLease, SameClaim, Mutates, Recovers,
    Control, Calling, Located, Repairing, Granting, Finishing, MutLabels, CompLabels, UpPrepare
<1>10. CASE UpUnprepare
  <2>1. pc' = "idle" /\ op' = "none"
    BY <1>10 DEF UpUnprepare, Finish
  <2> QED BY <2>1 DEF Intent, Planned, Targeted, Mutates, MutLabels, CompLabels
<1>11. CASE UpResidue
  <2>1. pc' = "idle" /\ op' = "none"
    BY <1>11 DEF UpResidue, Finish
  <2> QED BY <2>1 DEF Intent, Planned, Targeted, Mutates, MutLabels, CompLabels
<1>12. CASE RsStatus
  BY <1>12, Shapes DEF Intent, Planned, Targeted, Own, SameLease, SameClaim, Mutates, Recovers,
    Control, Calling, Located, Repairing, Granting, Finishing, MutLabels, CompLabels, Locals,
    LiveRecords, Records, RsStatus, Stay, Clean, Goto, Fault, leaseVars
<1>13. CASE RsRead
  <2>0. op \in {"restore", "drop"}
    BY <1>13 DEF RsRead, Control, Located
  <2>1. CASE RsCompare
    BY <2>0, <2>1, RsCompareEffect DEF Intent, Planned, Targeted, Variant, Mutates, MutLabels,
      CompLabels
  <2>2. CASE /\ UNCHANGED <<live, op>>
           /\ pc' \in {"rs.fail", "rs.remove", "rv.start"}
    BY <2>0, <2>2 DEF Intent, Planned, Targeted, Mutates, MutLabels, CompLabels
  <2> QED BY <1>13, <2>1, <2>2, Shapes DEF RsRead, Stay, Goto, Locals
<1>14. CASE RsReread
  <2>0. op \in {"restore", "drop"}
    BY <1>14 DEF RsReread, Control, Located
  <2>1. CASE RsCompare
    BY <2>0, <2>1, RsCompareEffect DEF Intent, Planned, Targeted, Variant, Mutates, MutLabels,
      CompLabels
  <2>2. CASE /\ UNCHANGED <<live, op>>
           /\ pc' \in {"rs.fail", "rs.remove", "rv.start"}
    BY <2>0, <2>2 DEF Intent, Planned, Targeted, Mutates, MutLabels, CompLabels
  <2> QED BY <1>14, <2>1, <2>2, Shapes DEF RsReread, Stay, Goto, Locals
<1>15. CASE RsRetain
  <2>1. /\ live'.rec.desired = live.resume.desired
        /\ live'.resume = live.resume /\ live'.st = "Compensating"
    BY <1>15, RetainEffect
  <2> QED BY <1>15, <2>1 DEF Intent, Planned, Targeted, Own, SameLease, SameClaim, Mutates,
      Recovers,
    Control, Calling, Located, Repairing, Granting, Finishing, MutLabels, CompLabels, RsRetain,
    ResolveErr, Goto, Stay
<1>16. CASE RsRemove
  BY <1>16, Shapes DEF Intent, Planned, Targeted, Own, SameLease, SameClaim, Mutates, Recovers,
    Control, Calling, Located, Repairing, Granting, Finishing, MutLabels, CompLabels, Locals,
    LiveRecords, Records, RsRemove, LeaseEnds, NoLive, LiveAs, Finish, NoLoc, Goto, Stay
<1>17. CASE RsFail
  BY <1>17, Shapes DEF Intent, Planned, Targeted, Own, SameLease, SameClaim, Mutates, Recovers,
    Control, Calling, Located, Repairing, Granting, Finishing, MutLabels, CompLabels, Locals,
    LiveRecords, Records, RsFail, Finish, NoLoc, Clean, LeaseEnds, NoLive, LiveAs
<1>18. CASE AbRemove
  BY <1>18, Shapes DEF Intent, Planned, Targeted, Own, SameLease, SameClaim, Mutates, Recovers,
    Control, Calling, Located, Repairing, Granting, Finishing, MutLabels, CompLabels, Locals,
    LiveRecords, Records, AbRemove, Finish, NoLoc, LeaseEnds, NoLive, LiveAs
<1> QED BY <1>1, <1>2, <1>3, <1>4, <1>5, <1>6, <1>7, <1>8, <1>9, <1>10, <1>11, <1>12, <1>13, <1>14,
  <1>15, <1>16, <1>17, <1>18 DEF Leasing

LEMMA ReconcilingIntent ==
    TypeOK /\ Control /\ Own /\ Hosted /\ Ident /\ Intent /\ Reconciling => Intent'
<1> SUFFICES ASSUME TypeOK, Control, Own, Hosted, Ident, Intent, Reconciling PROVE Intent'
  OBVIOUS
<1>1. CASE RcForget
  BY <1>1, Shapes DEF Intent, Planned, Targeted, Own, SameLease, SameClaim, Mutates, Recovers,
    Control, Calling, Located, Repairing, Granting, Finishing, MutLabels, CompLabels, Locals,
    LiveRecords, Records, RcForget, Finish, NoLoc
<1>2. CASE RcFirst
  BY <1>2, Shapes DEF Intent, Planned, Targeted, Own, SameLease, SameClaim, Mutates, Recovers,
    Control, Calling, Located, Repairing, Granting, Finishing, MutLabels, CompLabels, Locals,
    LiveRecords, Records, RcFirst, Clean, Goto, Stay, Fault, Finish, NoLoc, leaseVars
<1>3. CASE RcSecond
  <2>1. CASE Finish
    BY <2>1, NoLocFields DEF Intent, Planned, Targeted, Own, SameLease, SameClaim, Mutates,
      Recovers, Control, Calling, Located, Repairing, Granting, Finishing, MutLabels,
      CompLabels, Finish
  <2>2. CASE pc' = "rc.forget" /\ op' = op /\ loc' = loc
    BY <1>3, <2>2 DEF Intent, Planned, Targeted, Own, SameLease, SameClaim, Mutates, Recovers,
      Control, Calling, Located, Repairing, Granting, Finishing, MutLabels, CompLabels,
      RcSecond, leaseVars
  <2>3. CASE /\ pc' = "rc.prepare" /\ op' = op /\ loc'.rec.before \in OverlayBefore
             /\ loc'.rec.phase = "Prepared" /\ loc'.exp = Now /\ loc'.plan = loc.plan
    <3>1. ~MatchesDesired(native.dns, live.rec.desired)
      BY <2>3 DEF OverlayBefore
    <3>2. Now.dns = native.dns
      BY DEF Now, Snap
    <3>3. ~(Applied # None /\ OwnsCurrent(Applied, Now))
      BY <3>1, <3>2, OwnedState DEF Applied, Ident, Good
    <3>4. loc'.rec.before.dns = native.dns
      BY <2>3, <3>1, <3>2, <3>3 DEF OverlayBefore, Equivalent
    <3> QED BY <1>3, <2>3, <3>2, <3>4 DEF Intent, Planned, Targeted, Mutates, MutLabels, CompLabels,
      Control, Located, RcSecond, leaseVars
  <2> QED BY <1>3, <2>1, <2>2, <2>3, RcSecondEffect
<1>4. CASE RcPrepare
  BY <1>4, RcPrepareEffect DEF Intent, Planned, Targeted, Own, SameLease, SameClaim, Mutates,
    Recovers, Control, Calling, Located, Repairing, Granting, Finishing, MutLabels, CompLabels,
    PlainLive
<1>5. CASE RcUnprepare
  BY <1>5, Shapes DEF Intent, Planned, Targeted, Own, SameLease, SameClaim, Mutates, Recovers,
    Control, Calling, Located, Repairing, Granting, Finishing, MutLabels, CompLabels, Locals,
    LiveRecords, Records, RcUnprepare, Finish, NoLoc
<1>6. CASE RcResidue
  BY <1>6, RcResidueEffect DEF Intent, Planned, Targeted, Mutates, MutLabels, CompLabels
<1> QED BY <1>1, <1>2, <1>3, <1>4, <1>5, <1>6 DEF Reconciling

LEMMA RecoveringIntent ==
    TypeOK /\ Control /\ Own /\ Hosted /\ Ident /\ Intent /\ Recovering => Intent'
<1> SUFFICES ASSUME TypeOK, Control, Own, Hosted, Ident, Intent, Recovering PROVE Intent'
  OBVIOUS
<1>1. CASE RecoverLock
  <2>1. CASE \E r \in scan : RecoverBegins(r)
    BY <2>1, RecoverBeginsEffect DEF Intent, Planned, Targeted, Mutates, MutLabels, CompLabels
  <2>2. CASE UNCHANGED <<pc, op, loc>>
    BY <1>1, <2>2 DEF Intent, Planned, Targeted, Mutates, MutLabels, CompLabels, RecoverLock,
      leaseVars
  <2> QED BY <1>1, <2>1, <2>2 DEF RecoverLock
<1>2. CASE RecStatus
  BY <1>2, Shapes DEF Intent, Planned, Targeted, Own, SameLease, SameClaim, Mutates, Recovers,
    Control, Calling, Located, Repairing, Granting, Finishing, MutLabels, CompLabels, Locals,
    LiveRecords, Records, RecStatus, Clean, Goto, Stay, Fault, Finish, NoLoc, leaseVars
<1>3. CASE RecCapture
  <2>1. op \in {"apply", "recover"} /\ UNCHANGED live
    BY <1>3 DEF RecCapture, Control, Located, leaseVars
  <2> QED BY <2>1, RecCaptureEffect, <1>3 DEF Intent, Planned, Targeted, Mutates, MutLabels,
      CompLabels,
    Finish
<1>4. CASE RecRemove
  BY <1>4, Shapes DEF Intent, Planned, Targeted, Own, SameLease, SameClaim, Mutates, Recovers,
    Control, Calling, Located, Repairing, Granting, Finishing, MutLabels, CompLabels, Locals,
    LiveRecords, Records, RecRemove, Goto, NoLoc, Finish, leaseVars
<1>5. CASE RecRetain
  BY <1>5, Shapes DEF Intent, Planned, Targeted, Own, SameLease, SameClaim, Mutates, Recovers,
    Control, Calling, Located, Repairing, Granting, Finishing, MutLabels, CompLabels, Locals,
    LiveRecords, Records, RecRetain, Finish, NoLoc, leaseVars
<1> QED BY <1>1, <1>2, <1>3, <1>4, <1>5 DEF Recovering

LEMMA CallsIntent == TypeOK /\ Control /\ Own /\ Hosted /\ Ident /\ Intent /\ Calls => Intent'
<1> SUFFICES ASSUME TypeOK, Control, Own, Hosted, Ident, Intent, Calls PROVE Intent'
  OBVIOUS
<1>1. CASE \E plan \in Plans : ApplyStart(plan)
  <2>1. op' = "apply" /\ pc' \in {"ap.observe", "rec.status"}
    BY <1>1, ApplyStartEffect
  <2> QED BY <2>1 DEF Intent, Planned, Targeted, Mutates, MutLabels, CompLabels
<1>2. CASE \E plan \in Plans : UpdateStart(plan)
  BY <1>2, Shapes DEF Intent, Planned, Targeted, Own, SameLease, SameClaim, Mutates, Recovers,
    Control, Calling, Located, Repairing, Granting, Finishing, MutLabels, CompLabels, Locals,
    LiveRecords, Records, UpdateStart, Call, NoLoc, Clean, leaseVars
<1>3. CASE \E how \in {"restore", "drop"} : RestoreStart(how)
  BY <1>3, Shapes DEF Intent, Planned, Targeted, Own, SameLease, SameClaim, Mutates, Recovers,
    Control, Calling, Located, Repairing, Granting, Finishing, MutLabels, CompLabels, Locals,
    LiveRecords, Records, RestoreStart, Call, NoLoc, Clean
<1>4. CASE \E how \in {"abandon", "drop", "discard"} : AbandonStart(how)
  BY <1>4, Shapes DEF Intent, Planned, Targeted, Own, SameLease, SameClaim, Mutates, Recovers,
    Control, Calling, Located, Repairing, Granting, Finishing, MutLabels, CompLabels, Locals,
    LiveRecords, Records, AbandonStart, Call, NoLoc, Clean
<1>5. CASE RecoverScan
  BY <1>5, Shapes DEF Intent, Planned, Targeted, Own, SameLease, SameClaim, Mutates, Recovers,
    Control, Calling, Located, Repairing, Granting, Finishing, MutLabels, CompLabels, Locals,
    LiveRecords, Records, RecoverScan, leaseVars
<1>6. CASE RecoverNow
  BY <1>6, Shapes DEF Intent, Planned, Targeted, Own, SameLease, SameClaim, Mutates, Recovers,
    Control, Calling, Located, Repairing, Granting, Finishing, MutLabels, CompLabels, Locals,
    LiveRecords, Records, RecoverNow, Call, RecoverBegins, NoLoc, Clean, leaseVars
<1> QED BY <1>1, <1>2, <1>3, <1>4, <1>5, <1>6 DEF Calls

LEMMA EnvironmentIntent ==
    TypeOK /\ Control /\ Own /\ Hosted /\ Ident /\ Intent /\ Environment => Intent'
BY EnvironmentFrame, NoLocFields, NoLiveFields DEF Died, Intent, Planned, Targeted, Own,
  SameLease, SameClaim, Mutates, Recovers, Control, Calling, Located, Repairing, Granting,
  Finishing, MutLabels, CompLabels

LEMMA ReconcileStartIntent ==
    TypeOK /\ Control /\ Own /\ Hosted /\ Ident /\ Intent /\ ReconcileStart => Intent'
<1> SUFFICES ASSUME TypeOK, Control, Own, Hosted, Ident, Intent, ReconcileStart PROVE Intent'
  OBVIOUS
<1>1. CASE ReconcileStart
  BY <1>1, Shapes DEF Intent, Planned, Targeted, Own, SameLease, SameClaim, Mutates, Recovers,
    Control, Calling, Located, Repairing, Granting, Finishing, MutLabels, CompLabels, Locals,
    LiveRecords, Records, ReconcileStart, NoLoc, Clean, leaseVars
<1> QED BY <1>1

LEMMA InitIntent == Init => Intent
BY NoLocFields DEF Init, Intent, Planned, Targeted, Mutates, MutLabels, CompLabels

-----------------------------------------------------------------------------
(***************************************************************************)
(* Undo: how far a failed mutation or a compensation has got, and Kept:    *)
(* the records that name the state to give back.                           *)
(***************************************************************************)
\* Until its write, an update stands on the state it proved to own.
UpdateOwns ==
    op = "update" /\ Ours
    /\ (\/ pc \in {"up.prepare", "up.unprepare", "mut.bind", "mut.cas", "mut.check", "mut.recheck",
                   "mut.write"}
        \/ pc = "residue" /\ loc.res = "Unchanged")
    => OwnsCurrent(loc.exp, Now)

\* The compensation returns to a finalized record.
Reverts ==
    \/ pc \in CompLabels /\ loc.ret = "residue" /\ op = "update"
    \/ pc \in CompLabels /\ loc.ret = "resolve" /\ live.resume.phase = "Applied"
    \/ pc = "rv.retain" /\ live.resume.phase = "Applied"
    \/ pc = "residue" /\ loc.res = "Pending" /\ op = "update"

Rolling == Reverts => Named(loc.ev, loc.tgt)

\* A compensation that succeeded.
Back ==
    pc = "rv.resume" \/ (pc = "residue" /\ loc.res = "Restored") =>
       /\ Ours => native.dns = loc.tgt.dns
       /\ loc.id = None \/ loc.id.dns = loc.tgt.dns
       /\ Ours /\ (\/ pc = "residue" /\ op = "update"
                   \/ pc = "rv.resume" /\ live.resume.phase = "Applied")
          => loc.id # None /\ OwnsCurrent(loc.id, Now)

Undo == UpdateOwns /\ Rolling /\ Back

\* The record says how to give the current state back.
Anchor(r) == r.inc = native.inc /\ r.before.dns = base

\* A reconcile pass before its write.
Overlays ==
    op = "reconcile"
    /\ (\/ pc \in {"rc.prepare", "rc.unprepare", "mut.bind", "mut.cas", "mut.check", "mut.recheck",
                   "mut.write"}
        \/ pc = "residue" /\ loc.res = "Unchanged")

Kept ==
    /\ Ours => \A r \in journal : Anchor(r)
    /\ Ours /\ phase # "none" => Anchor(live.rec)
    /\ Ours /\ (author = "us" \/ phase = "none") => journal # {}
    /\ pc \in {"ap.unpersist", "ap.remove", "rs.remove", "rec.remove", "rc.forget"} => ~Ours
    /\ phase = "abandoning" /\ op # "restore" => author # "us"
    /\ op = "drop" => (phase = "abandoning" <=> pc = "ab.remove")
    /\ Overlays => ~Ours

\* The original state is never ours.
LEMMA NotOriginal ==
    ASSUME Hosted, NEW r, Anchor(r), native.dns = r.before.dns PROVE ~Ours
BY DEF Hosted, Anchor, Ours

LEMMA NowFields == Hosted => Now # None /\ Now.dns = native.dns
BY DEF Hosted, Now, Snap, None

LEMMA MutatingIdent ==
    TypeOK /\ Control /\ Own /\ Routed /\ Seen /\ Intent /\ Ident /\ Mutating => Ident'
<1> SUFFICES ASSUME TypeOK, Control, Own, Routed, Seen, Intent, Ident, Mutating PROVE Ident'
  OBVIOUS
<1>1. CASE MutVerify
  <2>1. CASE /\ Same /\ Proof # None
             /\ live' = LiveVerified(IF op = "apply" THEN loc.rec ELSE live.rec, Proof)
             /\ Goto("rv.start") /\ loc' = [loc EXCEPT !.then = "commit"]
    <3>1. /\ live'.rec = (IF op = "apply" THEN loc.rec ELSE live.rec) /\ live'.st = "Verified"
          /\ live'.proof = Proof
      BY <2>1 DEF LiveVerified, LiveAs
    <3>2. /\ pc = "mut.verify" /\ loc.cur # None /\ (Ours => loc.cur = Now)
          /\ Ours => loc.ev = Now \/ loc.ev = None
          /\ loc.ev = None <=> Guard = "Unconditional"
          /\ MatchesDesired(loc.cur.dns, loc.plan)
          /\ loc.ev = None \/ MatchesDesired(loc.ev.dns, loc.plan)
      BY <1>1 DEF MutVerify, Seen, Routed
    <3>3. MatchesDesired(Proof.dns, loc.plan) /\ ~Loose
      BY <2>1, <3>2 DEF Proof, Loose
    <3>4. Ours => OwnsCurrent(Proof, Now)
      BY <2>1, <3>2 DEF Proof, OwnsCurrent, Equivalent
    <3>5. live'.rec.desired = loc.plan
      BY <1>1, <3>1, <3>2 DEF Control, Located, Intent, Planned, Mutates, MutLabels
    <3>6. UNCHANGED <<native, author, harm>>
      BY <1>1 DEF MutVerify, osVars
    <3> HIDE DEF Proof
    <3>7. Ours' = Ours /\ Now' = Now
      BY <3>6 DEF Ours, Now
    <3> QED BY <2>1, <3>1, <3>3, <3>4, <3>5, <3>7 DEF Ident
  <2>2. CASE UNCHANGED live /\ pc' = "comp.status"
    <3>1. live.st = "Prepared" \/ (phase = "none" /\ live = NoLive)
      BY <1>1 DEF MutVerify, Control, Calling, Located, Granting, Finishing, Own, Mutates, MutLabels
    <3> QED BY <1>1, <2>2, <3>1, NoLiveFields DEF MutVerify, Ident
  <2> QED BY <1>1, <2>1, <2>2, Handovers DEF MutVerify
<1>2. CASE ~MutVerify
  <2>1. pc \in MutLabels /\ UNCHANGED <<phase, live, op>>
    BY <1>2, MutatingFrame DEF MutatingKeeps, MutVerify, Mutating, MutBind, MutCas, MutCheck,
      MutRecheck, MutWrite, MutStatus, MutReadback, leaseVars
  <2>2. live.st = "Prepared" \/ (phase = "none" /\ live = NoLive)
    BY <2>1 DEF Control, Calling, Located, Granting, Finishing, Own, Mutates, MutLabels
  <2> QED BY <2>1, <2>2, NoLiveFields DEF Ident
<1> QED BY <1>1, <1>2

LEMMA CompensatingIdent == TypeOK /\ Control /\ Own /\ Intent /\ Ident /\ Compensating => Ident'
<1> SUFFICES ASSUME TypeOK, Control, Own, Intent, Ident, Compensating PROVE Ident'
  OBVIOUS
<1>1. CompensatingKeeps
  BY CompensatingFrame
<1>2. CASE live.st = "Compensating"
  <2>1. loc.ret \in {"resolve", "restore"}
    BY <1>1, <1>2, NoLiveFields DEF CompensatingKeeps, Control, Calling, Located, Granting,
        Finishing,
      Own, Mutates, CompLabels
  <2>2. loc.ret = "restore" => live.resume.phase = "Prepared"
    BY <1>1 DEF CompensatingKeeps, Intent, Targeted
  <2> QED BY <1>1, <1>2, <2>1, <2>2 DEF CompensatingKeeps, Ident
<1>3. CASE live.st # "Compensating"
  <2>1. live.st = "Prepared" \/ (phase = "none" /\ live = NoLive)
    BY <1>1, <1>3 DEF CompensatingKeeps, Control, Calling, Located, Granting, Finishing, Own,
        Mutates, CompLabels
  <2> QED BY <1>1, <2>1, NoLiveFields DEF CompensatingKeeps, Ident
<1> QED BY <1>2, <1>3

LEMMA ResolvingIdent ==
    TypeOK /\ Control /\ Own /\ Journaled /\ Hosted /\ Routed /\ Seen /\ Intent /\ Ident /\
    Undo /\ Kept /\ Resolving => Ident'
<1> SUFFICES ASSUME TypeOK, Control, Own, Journaled, Hosted, Routed, Seen, Intent, Ident, Undo,
                    Kept, Resolving
             PROVE  Ident'
  OBVIOUS
<1>0. Quiet
  BY ResolvingQuiet
<1>1. CASE RvRepair
  BY <1>1, Shapes, <1>0, ZenonT(60) DEF Ident, Leased, Named, Quiet, Now, Control, Calling, Located,
    Repairing, Granting, Finishing, MutLabels, CompLabels, Locals, LiveRecords, RvRepair, Stay,
    Goto, ResolveErr
<1>2. CASE RvStart
  BY <1>2, Shapes, <1>0 DEF Ident, Leased, Named, Quiet, Now, Control, Calling, Located,
    Repairing, Granting, Finishing, MutLabels, CompLabels, Locals, LiveRecords, RvStart, Clean,
    ResolveOk, Goto, Stay, ResolveErr, leaseVars
<1>3. CASE RvRead
  BY <1>3, Shapes, <1>0 DEF Ident, Leased, Named, Quiet, Now, Control, Calling, Located,
    Repairing, Granting, Finishing, MutLabels, CompLabels, Locals, LiveRecords, RvRead, Clean,
    Goto, Snap, FailsIf, Fault, ResolveErr, Stay, leaseVars
<1>4. CASE RvStatus
  BY <1>4, Shapes, <1>0 DEF Ident, Leased, Named, Quiet, Now, Control, Calling, Located,
    Repairing, Granting, Finishing, MutLabels, CompLabels, Locals, LiveRecords, RvStatus, Stay,
    Clean, Goto, FailsIf, Fault, ResolveErr, leaseVars
<1>5. CASE RvWrite
  <2>0. pc = "rv.write" /\ live.st = "Verified" /\ Leased
    BY <1>5 DEF RvWrite, Control, Calling, Located, Leased, Granting, Finishing
  <2>1. PICK r \in Records :
          /\ Variant(r, live.rec, "Applied", live.proof)
          /\ \/ live'.rec = r /\ live'.st = "Committed"
             \/ live' = live
    BY <1>5, RvWriteEffect
  <2>2. op' = op /\ pc' \in {"done", "up.read", "rc.first", "rs.reread", "rs.fail"} /\ phase' = phase
    BY <1>5 DEF RvWrite, ResolveOk, ResolveErr, Goto
  <2>3. Good(r)
    BY <2>0, <2>1 DEF Ident, Good, Variant, SameClaim
  <2>4. Ours' => Ours /\ Now' = Now
    BY <1>0 DEF Quiet, Now
  <2>5. Ours => OwnsCurrent(r.applied, Now)
    BY <2>0, <2>1 DEF Ident, Variant
  <2>6. CASE live'.rec = r /\ live'.st = "Committed"
    BY <2>3, <2>4, <2>5, <2>6 DEF Ident
  <2>7. CASE live' = live
    BY <2>0, <2>4, <2>7 DEF Ident
  <2> QED BY <2>1, <2>6, <2>7
<1>6. CASE RvResume
  <2>0. pc = "rv.resume" /\ live.st = "Compensating" /\ phase # "none" /\ phase' = phase
    BY <1>6 DEF RvResume, Control, Calling, Located
  <2>1. live.resume \in Records /\ loc.id \in Snapshots
    BY FieldTypes
  <2>2. /\ live'.rec = Resumed(live.resume, loc.id)
        /\ live'.st = IF live'.rec.phase = "Applied" THEN "Committed" ELSE "Unmutated"
    BY <1>6, RvResumeEffect
  <2>3. pc' # "up.unprepare"
    BY <1>6 DEF RvResume, ResolveOk, ResolveErr, Goto
  <2>4. Ours' => Ours /\ Now' = Now
    BY <1>0 DEF Quiet, Now
  <2>5. CASE live.resume.phase = "Prepared"
    <3>1. live'.st = "Unmutated"
      BY <2>1, <2>2, <2>5, ResumedFields
    <3>2. live.tgt.dns = live.rec.before.dns
      BY <2>0, <2>5 DEF Ident, Good
    <3>3. Ours => native.dns = live.rec.before.dns /\ Anchor(live.rec)
      BY <2>0, <3>2 DEF Undo, Back, Intent, Targeted, Kept
    <3> QED BY <2>4, <3>1, <3>3, NotOriginal DEF Ident
  <2>6. CASE live.resume.phase = "Applied"
    <3>1. Good(live.resume) /\ live.tgt = live.resume.applied /\ loc.tgt = live.tgt
      BY <2>0, <2>6 DEF Ident, Intent, Targeted
    <3>2. /\ loc.id = None \/ loc.id.dns = loc.tgt.dns
          /\ Ours => loc.id # None /\ OwnsCurrent(loc.id, Now)
      BY <2>0, <2>6 DEF Undo, Back
    <3>3. CASE loc.id = None
      <4>1. live'.st = "Unmutated" /\ ~Ours
        BY <2>1, <2>2, <2>6, <3>2, <3>3, ResumedFields
      <4> QED BY <2>4, <4>1 DEF Ident
    <3>4. CASE loc.id # None
      <4>1. /\ live'.st = "Committed" /\ live'.rec.phase = "Applied" /\ live'.rec.applied = loc.id
            /\ live'.rec.desired = live.resume.desired /\ live'.rec.before = live.resume.before
        BY <2>1, <2>2, <2>6, <3>4, ResumedFields DEF SameClaim
      <4>2. Good(live'.rec)
        BY <3>1, <3>2, <3>4, <4>1 DEF Good
      <4> QED BY <2>4, <3>2, <4>1, <4>2 DEF Ident
    <3> QED BY <3>3, <3>4
  <2> QED BY <2>1, <2>5, <2>6 DEF Records, Phases
<1>7. CASE RvRetain
  <2>0. /\ pc = "rv.retain" /\ live.st = "Compensating" /\ loc.tgt = live.tgt
        /\ pc' \in {"rs.fail", "done"}
    BY <1>7 DEF RvRetain, Control, Located, Intent, Targeted, ResolveErr, Goto
  <2>1. /\ SameClaim(live'.rec, live.rec) /\ live'.st = "Compensating"
        /\ live'.ev = loc.ev /\ live'.tgt = loc.tgt /\ live'.resume = live.resume
    BY <1>7, RetainEffect
  <2>2. live.resume.phase = "Applied" => Named(loc.ev, loc.tgt)
    BY <2>0 DEF Undo, Rolling, Reverts
  <2>3. Ours' => Ours /\ Now' = Now
    BY <1>0 DEF Quiet, Now
  <2> QED BY <2>0, <2>1, <2>2, <2>3 DEF Ident, Named, SameClaim
<1> QED BY <1>1, <1>2, <1>3, <1>4, <1>5, <1>6, <1>7 DEF Resolving

LEMMA LeasingIdent ==
    TypeOK /\ Control /\ Own /\ Journaled /\ Hosted /\ Routed /\ Seen /\ Intent /\ Ident /\
    Undo /\ Kept /\ Leasing => Ident'
<1> SUFFICES ASSUME TypeOK, Control, Own, Journaled, Hosted, Routed, Seen, Intent, Ident, Undo,
                    Kept, Leasing
             PROVE  Ident'
  OBVIOUS
<1>0. Quiet
  BY LeasingQuiet
<1>1. CASE ApObserve
  BY <1>1, Shapes, <1>0 DEF Ident, Leased, Named, Quiet, Now, Control, Calling, Located,
    Repairing, Granting, Finishing, MutLabels, CompLabels, Locals, LiveRecords, ApObserve,
    Clean, Goto, Snap, FailsIf, Fault, Finish, NoLoc, leaseVars
<1>2. CASE ApPersist
  <2>0. pc = "ap.persist" /\ phase = "none" /\ phase' = "none" /\ ~Ours
    BY <1>2 DEF ApPersist, Control, Calling, Located, Journaled, Kept
  <2>1. ~Ours'
    BY <1>0, <2>0 DEF Quiet
  <2>2. CASE UNCHANGED live
    BY <2>0, <2>1, <2>2 DEF Ident, Named, Control, Calling, Granting, Finishing
  <2>3. CASE loc.rec.phase = "Applied" /\ live' = LiveAs(loc.rec, "Committed", FALSE)
    <3>1. live'.st = "Committed" /\ live'.rec = loc.rec /\ Good(loc.rec)
      BY <2>0, <2>3 DEF LiveAs, Intent, Planned
    <3> QED BY <2>1, <3>1 DEF Ident
  <2> QED BY <1>2, <2>2, <2>3 DEF ApPersist
<1>3. CASE ApUnpersist
  BY <1>3, Shapes, <1>0 DEF Ident, Leased, Named, Quiet, Now, Control, Calling, Located,
    Repairing, Granting, Finishing, MutLabels, CompLabels, Locals, LiveRecords, ApUnpersist,
    Finish, NoLoc, leaseVars
<1>4. CASE ApResidue
  BY <1>4, Shapes, <1>0 DEF Ident, Leased, Named, Quiet, Now, Control, Calling, Located,
    Repairing, Granting, Finishing, MutLabels, CompLabels, Locals, LiveRecords, ApResidue,
    Clean, Snap, Goto, Stay, FailsIf, Fault, Finish, NoLoc, leaseVars
<1>5. CASE ApRemove
  BY <1>5, Shapes, <1>0 DEF Ident, Leased, Named, Quiet, Now, Control, Calling, Located,
    Repairing, Granting, Finishing, MutLabels, CompLabels, Locals, LiveRecords, ApRemove,
    Finish, NoLoc, leaseVars
<1>6. CASE ApRetain
  BY <1>6, Shapes, <1>0 DEF Ident, Leased, Named, Quiet, Now, Control, Calling, Located,
    Repairing, Granting, Finishing, MutLabels, CompLabels, Locals, LiveRecords, ApRetain,
    Finish, NoLoc, leaseVars
<1>7. CASE Done
  BY <1>7, Shapes, <1>0 DEF Ident, Leased, Named, Quiet, Now, Control, Calling, Located,
    Repairing, Granting, Finishing, MutLabels, CompLabels, Locals, LiveRecords, Done, Clean,
    Finish, NoLoc
<1>8. CASE UpRead
  BY <1>8, Shapes, <1>0 DEF Ident, Leased, Named, Quiet, Now, Control, Calling, Located,
    Repairing, Granting, Finishing, MutLabels, CompLabels, Locals, LiveRecords, UpRead, Snap,
    Clean, Goto, Finish, NoLoc, FailsIf, Fault, leaseVars
<1>9. CASE UpPrepare
  <2>1. \/ live'.st = "Prepared" /\ pc' = "mut.bind"
        \/ live'.st = "Unmutated" /\ pc' = "up.unprepare"
    BY <1>9, UpPrepareEffect
  <2> QED BY <2>1 DEF Ident
<1>10. CASE UpUnprepare
  <2>1. PICK ok \in BOOLEAN : PersistLive(loc.rec, ok)
    BY <1>10 DEF UpUnprepare
  <2>2. Good(loc.rec) /\ loc.exp = loc.rec.applied /\ (Ours => OwnsCurrent(loc.exp, Now))
    BY <1>10 DEF UpUnprepare, Control, Located, Intent, Planned, Undo, UpdateOwns
  <2>3. live'.rec = loc.rec /\ live'.st = "Committed"
    BY <2>1, <2>2, PersistLiveEffect DEF Good
  <2>4. Ours' => Ours /\ Now' = Now
    BY <1>0 DEF Quiet, Now
  <2> QED BY <2>2, <2>3, <2>4 DEF Ident
<1>11. CASE UpResidue
  <2>0. /\ pc = "residue" /\ op = "update" /\ Good(loc.rec) /\ loc.exp = loc.rec.applied
        /\ pc' = "idle"
        /\ loc.res # "Unchanged" => loc.tgt = loc.exp
    BY <1>11 DEF UpResidue, Intent, Planned, Targeted, Mutates, Finish
  <2>1. loc.rec \in Records /\ loc.id \in Snapshots
    BY FieldTypes
  <2>2. Ours' => Ours /\ Now' = Now
    BY <1>0 DEF Quiet, Now
  <2>3. CASE /\ loc.res = "Pending" /\ live'.st = "Compensating"
             /\ live'.ev = loc.ev /\ live'.tgt = loc.tgt /\ live'.resume = loc.rec
    <3>1. Named(loc.ev, loc.tgt)
      BY <2>0, <2>3 DEF Undo, Rolling, Reverts
    <3> QED BY <2>0, <2>2, <2>3, <3>1 DEF Ident, Named
  <2>4. CASE loc.res = "Unchanged" /\ live'.rec = loc.rec /\ live'.st = "Committed"
    BY <2>0, <2>2, <2>4 DEF Ident, Undo, UpdateOwns
  <2>5. CASE /\ loc.res = "Restored" /\ live'.rec = Resumed(loc.rec, loc.id)
             /\ live'.st = IF live'.rec.phase = "Applied" THEN "Committed" ELSE "Unmutated"
    <3>1. /\ loc.id = None \/ loc.id.dns = loc.tgt.dns
          /\ Ours => loc.id # None /\ OwnsCurrent(loc.id, Now)
      BY <2>0, <2>5 DEF Undo, Back
    <3>2. CASE loc.id = None
      <4>1. live'.st = "Unmutated" /\ ~Ours
        BY <2>0, <2>1, <2>5, <3>1, <3>2, ResumedFields DEF Good
      <4> QED BY <2>2, <4>1 DEF Ident
    <3>3. CASE loc.id # None
      <4>1. /\ live'.st = "Committed" /\ live'.rec.phase = "Applied" /\ live'.rec.applied = loc.id
            /\ live'.rec.desired = loc.rec.desired /\ live'.rec.before = loc.rec.before
        BY <2>0, <2>1, <2>5, <3>3, ResumedFields DEF SameClaim, Good
      <4>2. Good(live'.rec)
        BY <2>0, <2>5, <3>1, <3>3, <4>1 DEF Good
      <4> QED BY <2>2, <3>1, <4>1, <4>2 DEF Ident
    <3> QED BY <3>2, <3>3
  <2> QED BY <1>11, <2>0, <2>3, <2>4, <2>5, UpResidueEffect DEF Good
<1>12. CASE RsStatus
  BY <1>12, Shapes, <1>0 DEF Ident, Leased, Named, Quiet, Now, Control, Calling, Located,
    Repairing, Granting, Finishing, MutLabels, CompLabels, Locals, LiveRecords, RsStatus, Stay,
    Clean, Goto, Fault, leaseVars
<1>13. CASE RsRead
  <2>0. /\ op \in {"restore", "drop"} /\ phase # "none" /\ phase' = phase
        /\ pc \notin CompLabels \cup {"rv.resume", "rv.retain", "up.unprepare"}
    BY <1>13 DEF RsRead, Control, Calling, Located, CompLabels
  <2>1. Ours' => Ours /\ Now' = Now
    BY <1>0 DEF Quiet, Now
  <2>2. CASE RsCompare
    <3>1. \/ live' = live /\ pc' = "rs.fail"
          \/ /\ live'.st = "Compensating" /\ live'.rec = live.rec /\ live'.tgt = live.rec.before
             /\ live'.resume.phase = "Prepared"
      BY <2>2, RsCompareEffect DEF Variant
    <3> QED BY <2>0, <2>1, <3>1 DEF Ident, Leased, Named
  <2>3. CASE UNCHANGED live
    BY <2>0, <2>1, <2>3 DEF Ident, Leased, Named
  <2> QED BY <1>13, <2>2, <2>3 DEF RsRead
<1>14. CASE RsReread
  <2>0. /\ op \in {"restore", "drop"} /\ phase # "none" /\ phase' = phase
        /\ pc \notin CompLabels \cup {"rv.resume", "rv.retain", "up.unprepare"}
    BY <1>14 DEF RsReread, Control, Calling, Located, CompLabels
  <2>1. Ours' => Ours /\ Now' = Now
    BY <1>0 DEF Quiet, Now
  <2>2. CASE RsCompare
    <3>1. \/ live' = live /\ pc' = "rs.fail"
          \/ /\ live'.st = "Compensating" /\ live'.rec = live.rec /\ live'.tgt = live.rec.before
             /\ live'.resume.phase = "Prepared"
      BY <2>2, RsCompareEffect DEF Variant
    <3> QED BY <2>0, <2>1, <3>1 DEF Ident, Leased, Named
  <2>3. CASE UNCHANGED live
    BY <2>0, <2>1, <2>3 DEF Ident, Leased, Named
  <2> QED BY <1>14, <2>2, <2>3 DEF RsReread
<1>15. CASE RsRetain
  <2>0. /\ pc = "rs.retain" /\ live.st = "Compensating" /\ loc.tgt = live.tgt
        /\ live.resume.phase = "Prepared"
    BY <1>15 DEF RsRetain, Control, Located, Intent, Targeted
  <2>1. /\ SameClaim(live'.rec, live.rec) /\ live'.st = "Compensating"
        /\ live'.ev = loc.ev /\ live'.tgt = loc.tgt /\ live'.resume = live.resume
    BY <1>15, RetainEffect
  <2> QED BY <2>0, <2>1 DEF Ident, SameClaim
<1>16. CASE RsRemove
  <2>0. /\ pc = "rs.remove" /\ ~Ours' /\ op \in {"restore", "drop"} /\ phase # "none"
    BY <1>16, <1>0 DEF RsRemove, Kept, Quiet, Control, Calling, Located
  <2>1. CASE LeaseEnds
    BY <2>1, NoLiveFields DEF LeaseEnds, Ident
  <2>2. CASE /\ live'.rec = live.rec /\ live'.st = live.st /\ live'.proof = live.proof
             /\ live'.tgt = live.tgt /\ live'.resume = live.resume
    BY <2>0, <2>2 DEF Ident, Named
  <2> QED BY <1>16, <2>1, <2>2, Shapes DEF RsRemove, LiveRecords
<1>17. CASE RsFail
  <2>0. pc = "rs.fail" /\ op \in {"restore", "drop"} /\ phase # "none" /\ pc' = "idle"
    BY <1>17 DEF RsFail, Control, Calling, Located, Finish
  <2>1. CASE LeaseEnds
    BY <2>1, NoLiveFields DEF LeaseEnds, Ident
  <2>2. CASE UNCHANGED live
    BY <1>0, <2>0, <2>2 DEF Ident, Named, Leased, Quiet, Now, CompLabels
  <2> QED BY <1>17, <2>1, <2>2 DEF RsFail
<1>18. CASE AbRemove
  <2>0. /\ pc = "ab.remove" /\ pc' = "idle" /\ (phase # "none" \/ op = "discard")
        /\ op \in {"abandon", "drop", "discard"}
    BY <1>18 DEF AbRemove, Control, Calling, Located, Finish
  <2>1. CASE LeaseEnds
    BY <2>1, NoLiveFields DEF LeaseEnds, Ident
  <2>2. CASE op = "abandon" /\ UNCHANGED live
    BY <1>0, <2>0, <2>2 DEF Ident, Named, Leased, Quiet, Now, CompLabels
  <2> QED BY <1>18, <2>1, <2>2 DEF AbRemove
<1> QED BY <1>1, <1>2, <1>3, <1>4, <1>5, <1>6, <1>7, <1>8, <1>9, <1>10, <1>11, <1>12, <1>13, <1>14,
  <1>15, <1>16, <1>17, <1>18 DEF Leasing

LEMMA ReconcilingIdent ==
    TypeOK /\ Control /\ Own /\ Journaled /\ Hosted /\ Routed /\ Seen /\ Intent /\ Ident /\
    Undo /\ Kept /\ Reconciling => Ident'
<1> SUFFICES ASSUME TypeOK, Control, Own, Journaled, Hosted, Routed, Seen, Intent, Ident, Undo,
                    Kept, Reconciling
             PROVE  Ident'
  OBVIOUS
<1>0. Quiet
  BY ReconcilingQuiet
<1>1. CASE RcForget
  BY <1>1, Shapes, <1>0 DEF Ident, Leased, Named, Quiet, Now, Control, Calling, Located,
    Repairing, Granting, Finishing, MutLabels, CompLabels, Locals, LiveRecords, RcForget,
    Finish, NoLoc
<1>2. CASE RcFirst
  BY <1>2, Shapes, <1>0 DEF Ident, Leased, Named, Quiet, Now, Control, Calling, Located,
    Repairing, Granting, Finishing, MutLabels, CompLabels, Locals, LiveRecords, RcFirst, Clean,
    Goto, Snap, Stay, Fault, Finish, NoLoc, leaseVars
<1>3. CASE RcSecond
  BY <1>3, Shapes, <1>0 DEF Ident, Leased, Named, Quiet, Now, Control, Calling, Located,
    Repairing, Granting, Finishing, MutLabels, CompLabels, Locals, LiveRecords, RcSecond, Clean,
    Goto, Stay, Snap, FailsIf, Fault, Finish, NoLoc, leaseVars
<1>4. CASE RcPrepare
  <2>1. CASE live'.st = "Prepared"
    BY <2>1 DEF Ident
  <2>2. CASE live' = live
    BY <1>4, <1>0, <2>2 DEF RcPrepare, Ident, Named, Leased, Quiet, Now, CompLabels, Control,
        Calling, Located
  <2> QED BY <1>4, <2>1, <2>2, RcPrepareEffect
<1>5. CASE RcUnprepare
  <2>1. PICK ok \in BOOLEAN : live' = [live EXCEPT !.repair = ~ok]
    BY <1>5 DEF RcUnprepare
  <2>2. /\ live'.rec = live.rec /\ live'.st = live.st /\ live'.proof = live.proof
        /\ live'.tgt = live.tgt /\ live'.resume = live.resume /\ live'.ev = live.ev
    BY <2>1, Shapes DEF LiveRecords
  <2>3. /\ pc = "rc.unprepare" /\ phase # "none" /\ phase' = phase
    BY <1>5 DEF RcUnprepare, Control, Calling, Located
  <2> QED BY <1>0, <2>2, <2>3 DEF Ident, Named, Leased, Quiet, Now, CompLabels
<1>6. CASE RcResidue
  <2>0. /\ pc = "residue" /\ op = "reconcile" /\ loc.rec = live.rec /\ phase # "none"
        /\ loc.exp.dns = loc.rec.before.dns /\ loc.rec.phase = "Prepared"
        /\ loc.res \in {"Unchanged", "Restored", "Pending"}
        /\ loc.res # "Unchanged" => loc.tgt = loc.exp
    BY <1>6 DEF RcResidue, Own, Intent, Planned, Targeted, Mutates, Control, Calling
  <2>1. \/ /\ loc.res = "Pending" /\ live'.st = "Compensating" /\ live'.rec = live.rec
           /\ live'.tgt = loc.tgt /\ live'.resume = loc.rec
        \/ loc.res # "Pending" /\ live'.st = "Unmutated"
    BY <1>6, RcResidueEffect
  <2>2. CASE loc.res = "Unchanged"
    BY <1>0, <2>0, <2>1, <2>2 DEF Kept, Overlays, Quiet, Ident
  <2>3. CASE loc.res = "Restored"
    <3>1. Ours => Anchor(live.rec) /\ native.dns = live.rec.before.dns
      BY <2>0, <2>3 DEF Kept, Undo, Back
    <3> QED BY <1>0, <2>1, <2>3, <3>1, NotOriginal DEF Quiet, Ident
  <2>4. CASE loc.res = "Pending"
    BY <2>0, <2>1, <2>4 DEF Ident
  <2> QED BY <2>0, <2>2, <2>3, <2>4
<1> QED BY <1>1, <1>2, <1>3, <1>4, <1>5, <1>6 DEF Reconciling

LEMMA RecoveringIdent ==
    TypeOK /\ Control /\ Own /\ Journaled /\ Hosted /\ Routed /\ Seen /\ Intent /\ Ident /\
    Undo /\ Kept /\ Recovering => Ident'
<1> SUFFICES ASSUME TypeOK, Control, Own, Journaled, Hosted, Routed, Seen, Intent, Ident, Undo,
                    Kept, Recovering
             PROVE  Ident'
  OBVIOUS
<1>0. Quiet
  BY RecoveringQuiet
<1>1. CASE RecoverLock
  BY <1>1, Shapes, <1>0, ZenonT(60) DEF Ident, Leased, Named, Quiet, Now, Control, Calling, Located,
    Repairing, Granting, Finishing, MutLabels, CompLabels, Locals, LiveRecords, RecoverLock,
    Clean, RecoverBegins, NoLoc, leaseVars
<1>2. CASE RecStatus
  BY <1>2, Shapes, <1>0 DEF Ident, Leased, Named, Quiet, Now, Control, Calling, Located,
    Repairing, Granting, Finishing, MutLabels, CompLabels, Locals, LiveRecords, RecStatus,
    Clean, Goto, Stay, Fault, Finish, NoLoc, leaseVars
<1>3. CASE RecCapture
  BY <1>3, Shapes, <1>0 DEF Ident, Leased, Named, Quiet, Now, Control, Calling, Located,
    Repairing, Granting, Finishing, MutLabels, CompLabels, Locals, LiveRecords, RecCapture,
    Snap, Clean, Goto, Stay, FailsIf, Fault, Finish, NoLoc, leaseVars
<1>4. CASE RecRemove
  BY <1>4, Shapes, <1>0 DEF Ident, Leased, Named, Quiet, Now, Control, Calling, Located,
    Repairing, Granting, Finishing, MutLabels, CompLabels, Locals, LiveRecords, RecRemove, Goto,
    NoLoc, Finish, leaseVars
<1>5. CASE RecRetain
  BY <1>5, Shapes, <1>0 DEF Ident, Leased, Named, Quiet, Now, Control, Calling, Located,
    Repairing, Granting, Finishing, MutLabels, CompLabels, Locals, LiveRecords, RecRetain,
    Finish, NoLoc, leaseVars
<1> QED BY <1>1, <1>2, <1>3, <1>4, <1>5 DEF Recovering

LEMMA CallsIdent ==
    TypeOK /\ Control /\ Own /\ Journaled /\ Hosted /\ Routed /\ Seen /\ Intent /\ Ident /\
    Undo /\ Kept /\ Calls => Ident'
<1> SUFFICES ASSUME TypeOK, Control, Own, Journaled, Hosted, Routed, Seen, Intent, Ident, Undo,
                    Kept, Calls
             PROVE  Ident'
  OBVIOUS
<1>0. Quiet
  BY CallsQuiet
<1>1. CASE \E plan \in Plans : ApplyStart(plan)
  <2>1. phase = "none" /\ pc' \in {"ap.observe", "rec.status"} /\ UNCHANGED <<phase, live>>
    BY <1>1, ApplyStartEffect DEF ApplyStart, leaseVars
  <2>2. pc = "idle"
    BY <1>1 DEF ApplyStart, Call
  <2> QED BY <2>1, <2>2, NoLiveFields DEF Ident, Control, Calling, Granting, Finishing
<1>2. CASE \E plan \in Plans : UpdateStart(plan)
  BY <1>2, Shapes, <1>0 DEF Ident, Leased, Named, Quiet, Now, Control, Calling, Located,
    Repairing, Granting, Finishing, MutLabels, CompLabels, Locals, LiveRecords, UpdateStart,
    Call, NoLoc, Clean, leaseVars
<1>3. CASE \E how \in {"restore", "drop"} : RestoreStart(how)
  BY <1>3, Shapes, <1>0 DEF Ident, Leased, Named, Quiet, Now, Control, Calling, Located,
    Repairing, Granting, Finishing, MutLabels, CompLabels, Locals, LiveRecords, RestoreStart,
    Call, NoLoc, Clean
<1>4. CASE \E how \in {"abandon", "drop", "discard"} : AbandonStart(how)
  BY <1>4, Shapes, <1>0 DEF Ident, Leased, Named, Quiet, Now, Control, Calling, Located,
    Repairing, Granting, Finishing, MutLabels, CompLabels, Locals, LiveRecords, AbandonStart,
    Call, NoLoc, Clean
<1>5. CASE RecoverScan
  BY <1>5, Shapes, <1>0 DEF Ident, Leased, Named, Quiet, Now, Control, Calling, Located,
    Repairing, Granting, Finishing, MutLabels, CompLabels, Locals, LiveRecords, RecoverScan,
    leaseVars
<1>6. CASE RecoverNow
  BY <1>6, Shapes, <1>0 DEF Ident, Leased, Named, Quiet, Now, Control, Calling, Located,
    Repairing, Granting, Finishing, MutLabels, CompLabels, Locals, LiveRecords, RecoverNow,
    Call, RecoverBegins, NoLoc, Clean, leaseVars
<1> QED BY <1>1, <1>2, <1>3, <1>4, <1>5, <1>6 DEF Calls

LEMMA EnvironmentIdent ==
    TypeOK /\ Control /\ Own /\ Journaled /\ Hosted /\ Routed /\ Seen /\ Intent /\ Ident /\
    Undo /\ Kept /\ Environment => Ident'
<1> SUFFICES ASSUME TypeOK, Ident, Environment PROVE Ident'
  OBVIOUS
<1>1. CASE ~Ours' /\ UNCHANGED <<phase, live, pc, op>>
  BY <1>1 DEF Ident, Named
<1>2. CASE Died
  BY <1>2, NoLiveFields DEF Died, Ident
<1> QED BY <1>1, <1>2, EnvironmentFrame

LEMMA ReconcileStartIdent ==
    TypeOK /\ Control /\ Own /\ Journaled /\ Hosted /\ Routed /\ Seen /\ Intent /\ Ident /\
    Undo /\ Kept /\ ReconcileStart => Ident'
<1> SUFFICES ASSUME TypeOK, Control, Own, Journaled, Hosted, Routed, Seen, Intent, Ident, Undo,
                    Kept, ReconcileStart
             PROVE  Ident'
  OBVIOUS
<1>0. Quiet
  BY ReconcileStartQuiet
<1>1. CASE ReconcileStart
  BY <1>1, Shapes, <1>0 DEF Ident, Leased, Named, Quiet, Now, Control, Calling, Located,
    Repairing, Granting, Finishing, MutLabels, CompLabels, Locals, LiveRecords, ReconcileStart,
    NoLoc, Clean, leaseVars
<1> QED BY <1>1

LEMMA InitIdent == Init => Ident
BY NoLiveFields DEF Init, Ident

\* A compensation to a finalized record has a target, and on a loose backend the
\* target is the original.
LEMMA RevertTarget ==
    ASSUME TypeOK, Control, Own, Hosted, Intent, Ident, Kept, pc \in CompLabels, Reverts
    PROVE  loc.tgt # None /\ (Loose /\ Ours => native.dns # loc.tgt.dns)
<1>1. phase # "none"
  BY DEF Reverts, Control, Calling, Located, CompLabels
<1>2. Ours => Anchor(live.rec)
  BY <1>1 DEF Kept
<1>3. \E r \in {loc.rec, live.resume} : Good(r) /\ loc.tgt = r.applied /\ SameClaim(r, live.rec)
  <2>1. CASE loc.ret = "residue" /\ op = "update"
    BY <2>1 DEF Intent, Planned, Targeted, Own, Mutates
  <2>2. CASE loc.ret = "resolve" /\ live.resume.phase = "Applied"
    <3>1. live.st = "Compensating"
      BY <2>2 DEF Control, Located
    <3> QED BY <2>2, <3>1 DEF Intent, Targeted, Ident, Own
  <2> QED BY <2>1, <2>2 DEF Reverts, CompLabels
<1>4. PICK r : Good(r) /\ loc.tgt = r.applied /\ SameClaim(r, live.rec)
  BY <1>3
<1>5. ASSUME Loose, Ours PROVE native.dns # loc.tgt.dns
  <2>1. loc.tgt.dns = live.rec.before.dns
    BY <1>4, <1>5 DEF Good, SameClaim
  <2> QED BY <1>2, <1>5, <2>1, NotOriginal
<1> QED BY <1>4, <1>5 DEF Good

\* A compensation that failed keeps its evidence, one that succeeded returns an
\* identity.
LEMMA UndoErr ==
    ASSUME TypeOK, pc \in CompLabels, CompErr, UNCHANGED live,
           Reverts /\ Guarded /\ Ours' => Now' \in {loc.ev, loc.tgt}
    PROVE  Undo'
<1>1. /\ op' = op /\ loc'.res = "Pending" /\ loc'.ev = loc.ev /\ loc'.tgt = loc.tgt
      /\ \/ loc.ret = "residue" /\ pc' = "residue"
         \/ loc.ret = "resolve" /\ pc' = "rv.retain"
         \/ pc' \in {"rs.retain", "rec.retain"}
  BY Handovers
<1> QED BY <1>1 DEF Undo, UpdateOwns, Rolling, Reverts, Back, Named, CompLabels

LEMMA UndoOk ==
    ASSUME TypeOK, pc \in CompLabels, UNCHANGED <<native, author, harm, live>>, NEW id, CompOk(id),
           Ours => native.dns = loc.tgt.dns,
           id = None \/ id.dns = loc.tgt.dns,
           Reverts /\ Ours => id # None /\ OwnsCurrent(id, Now)
    PROVE  Undo'
<1>1. /\ op' = op /\ loc'.res = "Restored" /\ loc'.id = id /\ loc'.tgt = loc.tgt
      /\ \/ loc.ret = "residue" /\ pc' = "residue"
         \/ loc.ret = "resolve" /\ pc' = "rv.resume"
         \/ pc' \in {"rs.remove", "rec.remove"}
  BY Handovers
<1>2. Ours' = Ours /\ Now' = Now
  BY DEF Ours, Now
<1> QED BY <1>1, <1>2 DEF Undo, UpdateOwns, Rolling, Reverts, Back, CompLabels

LEMMA MutatingUndo == TypeOK /\ Hosted /\ Routed /\ Seen /\ Undo /\ Mutating => Undo'
<1> SUFFICES ASSUME TypeOK, Hosted, Routed, Seen, Undo, Mutating PROVE Undo'
  OBVIOUS
<1>1. CASE MutBind
  <2>1. /\ Now' = Now /\ Ours' = Ours /\ pc = "mut.bind"
    BY <1>1 DEF MutBind, osVars, Now, Ours
  <2>2. /\ op' = op /\ loc'.exp = loc.exp
        /\ \/ pc' \in {"mut.cas", "mut.check", "mut.recheck", "mut.write"}
           \/ pc' = "residue" /\ loc'.res = "Unchanged"
    BY <1>1, Handovers DEF MutBind, Goto, Stay
  <2> QED BY <2>1, <2>2 DEF Undo, UpdateOwns, Rolling, Reverts, Back, CompLabels
<1>2. CASE MutCheck
  <2>1. /\ Now' = Now /\ Ours' = Ours /\ pc = "mut.check"
    BY <1>2 DEF MutCheck, osVars, Now, Ours
  <2>2. /\ op' = op /\ loc'.exp = loc.exp
        /\ \/ pc' \in {"mut.cas", "mut.check", "mut.recheck", "mut.write"}
           \/ pc' = "residue" /\ loc'.res = "Unchanged"
    BY <1>2, Handovers DEF MutCheck, Goto, Stay
  <2> QED BY <2>1, <2>2 DEF Undo, UpdateOwns, Rolling, Reverts, Back, CompLabels
<1>3. CASE MutRecheck
  <2>1. /\ Now' = Now /\ Ours' = Ours /\ pc = "mut.recheck"
    BY <1>3 DEF MutRecheck, osVars, Now, Ours
  <2>2. /\ op' = op /\ loc'.exp = loc.exp
        /\ \/ pc' \in {"mut.cas", "mut.check", "mut.recheck", "mut.write"}
           \/ pc' = "residue" /\ loc'.res = "Unchanged"
    BY <1>3, Handovers DEF MutRecheck, Goto, Stay
  <2> QED BY <2>1, <2>2 DEF Undo, UpdateOwns, Rolling, Reverts, Back, CompLabels
<1>4. CASE MutCas
  <2>0. pc = "mut.cas" /\ (op = "update" /\ Ours => OwnsCurrent(loc.exp, Now))
    BY <1>4 DEF MutCas, Undo, UpdateOwns
  <2>1. CASE NativeUnchanged /\ Rollback(None)
    <3>1. Now' = Now /\ Ours' = Ours
      BY <2>1 DEF NativeUnchanged, Now, Ours
    <3>2. op' = op /\ pc' = "comp.status" /\ loc'.ret = "residue" /\ loc'.tgt = loc.exp
      BY <2>1, Handovers
    <3> QED BY <2>0, <3>1, <3>2 DEF Undo, UpdateOwns, Rolling, Reverts, Back, Named, Guarded,
        OwnsCurrent
  <2>2. CASE NativeUnchanged /\ Rejected
    <3>1. Now' = Now /\ Ours' = Ours
      BY <2>2 DEF NativeUnchanged, Now, Ours
    <3>2. op' = op /\ pc' = "residue" /\ loc'.res = "Unchanged" /\ loc'.exp = loc.exp
      BY <2>2, Handovers
    <3> QED BY <2>0, <3>1, <3>2 DEF Undo, UpdateOwns, Rolling, Reverts, Back, CompLabels
  <2>3. CASE Goto("mut.status")
    BY <2>3 DEF Goto, Undo, UpdateOwns, Rolling, Reverts, Back, CompLabels
  <2>4. CASE Rollback(Snap(native'))
    <3>1. pc' = "comp.status" /\ loc'.ev = Now'
      BY <2>4, Handovers DEF Now
    <3> QED BY <3>1 DEF Undo, UpdateOwns, Rolling, Reverts, Back, Named
  <2> QED BY <1>4, <2>1, <2>2, <2>3, <2>4 DEF MutCas
<1>5. CASE MutWrite
  <2>1. ~Guarded
    BY <1>5 DEF MutWrite, Routed, Guarded
  <2>2. pc' \in {"comp.status", "mut.status"}
    BY <1>5, Handovers DEF MutWrite, Goto
  <2> QED BY <2>1, <2>2 DEF Undo, UpdateOwns, Rolling, Reverts, Back, Named
<1>6. CASE MutStatus \/ MutReadback \/ MutVerify
  <2>1. Now' = Now /\ Ours' = Ours
    BY <1>6 DEF MutStatus, MutReadback, MutVerify, osVars, Now, Ours
  <2>2. Guarded /\ Ours => loc.ev = Now
    BY <1>6 DEF MutStatus, MutReadback, MutVerify, Guarded, Routed, Seen
  <2>3. CASE Rollback(loc.ev)
    <3>1. pc' = "comp.status" /\ loc'.ev = loc.ev
      BY <2>3, Handovers
    <3> QED BY <2>1, <2>2, <3>1 DEF Undo, UpdateOwns, Rolling, Reverts, Back, Named
  <2>4. CASE pc' \in {"mut.readback", "mut.verify", "rv.start"}
    BY <2>4 DEF Undo, UpdateOwns, Rolling, Reverts, Back, CompLabels
  <2> QED BY <1>6, <2>3, <2>4 DEF MutStatus, MutReadback, MutVerify, Goto
<1> QED BY <1>1, <1>2, <1>3, <1>4, <1>5, <1>6 DEF Mutating

LEMMA CompensatingUndo ==
    TypeOK /\ Control /\ Own /\ Hosted /\ Routed /\ Seen /\ Intent /\ Ident /\ Undo /\ Kept /\ Compensating
    => Undo'
<1> SUFFICES ASSUME TypeOK, Control, Own, Hosted, Routed, Seen, Intent, Ident, Undo, Kept,
                    Compensating
             PROVE  Undo'
  OBVIOUS
<1>0. /\ pc \in CompLabels /\ op' = op /\ UNCHANGED live /\ loc'.tgt = loc.tgt /\ loc'.ret = loc.ret
      /\ Reverts => Named(loc.ev, loc.tgt)
  BY CompensatingFrame DEF CompensatingKeeps, Undo, Rolling
<1>1. ASSUME UNCHANGED <<native, author, harm>>, CompErr PROVE Undo'
  <2>1. Now' = Now /\ Ours' = Ours
    BY <1>1 DEF Now, Ours
  <2> QED BY <1>0, <1>1, <2>1, UndoErr DEF Named
<1>2. ASSUME UNCHANGED <<native, author, harm>>, pc' \in CompLabels, loc'.ev = loc.ev PROVE Undo'
  <2>1. Now' = Now /\ Ours' = Ours
    BY <1>2 DEF Now, Ours
  <2> QED BY <1>0, <1>2, <2>1 DEF Undo, UpdateOwns, Rolling, Reverts, Back, Named, CompLabels
<1>3. CASE CompStatus
  BY <1>1, <1>2, <1>3 DEF CompStatus, Goto, Stay, osVars, CompLabels
<1>4. CASE CompRead
  <2>1. UNCHANGED <<native, author, harm, live>> /\ Now # None /\ Now.dns = native.dns
    BY <1>4, NowFields DEF CompRead, osVars, leaseVars
  <2> DEFINE id == IF loc.ev # None /\ OwnsCurrent(loc.ev, Now) THEN loc.ev
                   ELSE IF OwnsCurrent(loc.tgt, Now) THEN loc.tgt ELSE None
  <2>2. CASE Equivalent(Now, loc.tgt) /\ CompOk(id)
    <3>1. native.dns = loc.tgt.dns
      BY <2>1, <2>2 DEF Equivalent
    <3>2. id = None \/ id.dns = loc.tgt.dns
      BY <2>1, <3>1, OwnedState
    <3>3. ASSUME Reverts, Ours PROVE id # None /\ OwnsCurrent(id, Now)
      <4>1. loc.tgt # None /\ ~Loose
        BY <1>0, <3>1, <3>3, RevertTarget
      <4>2. CASE Ownership = "BestEffort"
        BY <2>2, <4>1, <4>2 DEF OwnsCurrent, Equivalent
      <4>3. CASE Ownership = "Durable"
        <5>1. Now \in {loc.ev, loc.tgt}
          BY <1>0, <3>3, <4>1, <4>3, BackendAssumption DEF Named, Guarded, Loose
        <5> QED BY <2>1, <4>1, <4>3, <5>1 DEF OwnsCurrent
      <4> QED BY <4>2, <4>3, BackendAssumption
    <3> HIDE DEF id
    <3> QED BY <1>0, <2>1, <2>2, <3>1, <3>2, <3>3, UndoOk
  <2>3. CASE CompErr
    BY <1>1, <2>1, <2>3
  <2>4. CASE Goto("comp.bind") /\ Stay
    BY <1>2, <2>1, <2>4 DEF Goto, Stay, CompLabels
  <2> QED BY <1>4, <2>2, <2>3, <2>4 DEF CompRead
<1>5. CASE CompBind
  BY <1>1, <1>2, <1>5 DEF CompBind, Goto, Stay, osVars, CompLabels
<1>6. CASE CompCas
  <2>1. CASE NativeUnchanged /\ CompErr
    BY <1>1, <2>1 DEF NativeUnchanged
  <2>2. CASE Goto("comp.reread") /\ loc' = [loc EXCEPT !.ev = Snap(native')]
    <3>1. pc' = "comp.reread" /\ loc'.ev = Now'
      BY <2>2, Shapes DEF Goto, Locals, Now
    <3> QED BY <3>1 DEF Undo, UpdateOwns, Rolling, Reverts, Back, Named
  <2> QED BY <1>6, <2>1, <2>2 DEF CompCas
<1>7. CASE CompCheck
  BY <1>1, <1>2, <1>7 DEF CompCheck, Goto, Stay, CompLabels
<1>8. CASE CompRecheck
  BY <1>1, <1>2, <1>8 DEF CompRecheck, Goto, Stay, osVars, CompLabels
<1>9. CASE CompWrite
  <2>1. ~Guarded
    BY <1>9 DEF CompWrite, Routed, Guarded
  <2>2. CASE CompErr
    BY <1>0, <2>1, <2>2, UndoErr
  <2>3. CASE pc' = "comp.reread"
    BY <2>1, <2>3 DEF Undo, UpdateOwns, Rolling, Reverts, Back, Named
  <2> QED BY <1>9, <2>2, <2>3 DEF CompWrite, Goto
<1>10. CASE CompReread
  <2>1. CASE Goto("comp.verify") /\ loc' = [loc EXCEPT !.cur = Now]
    <3>1. loc'.ev = loc.ev /\ pc' = "comp.verify"
      BY <2>1, Shapes DEF Goto, Locals
    <3> QED BY <1>2, <1>10, <3>1 DEF CompReread, osVars, CompLabels
  <2> QED BY <1>1, <1>10, <2>1 DEF CompReread, osVars
<1>11. CASE CompVerify
  <2>1. /\ UNCHANGED <<native, author, harm, live>> /\ Now # None /\ Now.dns = native.dns
        /\ pc = "comp.verify" /\ loc.cur # None /\ (Ours => loc.cur = Now)
        /\ Ours => loc.ev = Now \/ loc.ev = None
        /\ loc.ev = None <=> Guard = "Unconditional"
    BY <1>11, NowFields DEF CompVerify, osVars, leaseVars, Seen, Routed
  <2> DEFINE id == CASE loc.ev # None /\ OwnsCurrent(loc.ev, loc.cur)  -> loc.ev
                     [] loc.ev = None /\ Ownership = "BestEffort"      -> loc.cur
                     [] OTHER                                          -> None
  <2>2. CASE Equivalent(loc.cur, loc.tgt) /\ CompOk(id)
    <3>1. loc.cur.dns = loc.tgt.dns /\ (Ours => native.dns = loc.tgt.dns)
      BY <2>1, <2>2 DEF Equivalent
    <3>2. id = None \/ id.dns = loc.tgt.dns
      BY <3>1, OwnedState
    <3>3. ASSUME Reverts, Ours PROVE id # None /\ OwnsCurrent(id, Now)
      <4>1. ~Loose
        BY <1>0, <3>1, <3>3, RevertTarget
      <4>2. CASE loc.ev = None
        <5>1. Ownership = "BestEffort" /\ id = loc.cur
          BY <2>1, <4>1, <4>2, BackendAssumption DEF Loose
        <5> QED BY <2>1, <3>3, <5>1 DEF OwnsCurrent, Equivalent
      <4>3. CASE loc.ev # None
        <5>1. id = loc.ev
          BY <2>1, <3>3, <4>3 DEF OwnsCurrent, Equivalent
        <5> QED BY <2>1, <3>3, <4>3, <5>1 DEF OwnsCurrent, Equivalent
      <4> QED BY <4>2, <4>3
    <3> HIDE DEF id
    <3> QED BY <1>0, <2>1, <2>2, <3>1, <3>2, <3>3, UndoOk
  <2>3. CASE CompErr
    BY <1>1, <2>1, <2>3
  <2> QED BY <1>11, <2>2, <2>3 DEF CompVerify
<1> QED BY <1>3, <1>4, <1>5, <1>6, <1>7, <1>8, <1>9, <1>10, <1>11 DEF Compensating

LEMMA ResolvingUndo ==
    TypeOK /\ Control /\ Own /\ Hosted /\ Intent /\ Ident /\ Undo /\ Resolving => Undo'
<1> SUFFICES ASSUME TypeOK, Control, Own, Hosted, Intent, Ident, Undo, Resolving PROVE Undo'
  OBVIOUS
<1>0. Quiet
  BY ResolvingQuiet
<1>1. CASE RvRepair
  BY <1>1, Shapes, <1>0 DEF Undo, UpdateOwns, Rolling, Reverts, Back, Quiet, Now, Named,
    Control, Calling, Located, Repairing, Granting, Finishing, MutLabels, CompLabels, Locals,
    RvRepair, Stay, Goto, ResolveErr
<1>2. CASE RvStart
  <2>1. \/ pc' \in {"done", "up.read", "rc.first", "rs.reread", "rs.fail", "rv.status", "rv.read"}
        \/ /\ live.st = "Compensating" /\ pc' = "comp.status" /\ live' = live
           /\ loc'.ev = live.ev /\ loc'.tgt = live.tgt /\ loc'.ret = "resolve"
    BY <1>2, Shapes DEF RvStart, ResolveOk, ResolveErr, Goto, Locals, leaseVars
  <2>2. live.st = "Compensating" /\ live.resume.phase = "Applied" => Named(live.ev, live.tgt)
    BY <1>2 DEF RvStart, Ident, CompLabels
  <2>3. Ours' => Ours /\ Now' = Now
    BY <1>0 DEF Quiet, Now
  <2> QED BY <2>1, <2>2, <2>3 DEF Undo, UpdateOwns, Rolling, Reverts, Back, CompLabels, Named
<1>3. CASE RvRead
  BY <1>3, Shapes, <1>0 DEF Undo, UpdateOwns, Rolling, Reverts, Back, Quiet, Now, Named,
    Control, Calling, Located, Repairing, Granting, Finishing, MutLabels, CompLabels, Locals,
    RvRead, Clean, Goto, Snap, FailsIf, Fault, ResolveErr, Stay, leaseVars
<1>4. CASE RvStatus
  BY <1>4, Shapes, <1>0 DEF Undo, UpdateOwns, Rolling, Reverts, Back, Quiet, Now, Named,
    Control, Calling, Located, Repairing, Granting, Finishing, MutLabels, CompLabels, Locals,
    RvStatus, Stay, Clean, Goto, FailsIf, Fault, ResolveErr, leaseVars
<1>5. CASE RvWrite
  BY <1>5, Shapes, <1>0 DEF Undo, UpdateOwns, Rolling, Reverts, Back, Quiet, Now, Named,
    Control, Calling, Located, Repairing, Granting, Finishing, MutLabels, CompLabels, Locals,
    RvWrite, Stay, ResolveOk, Goto, ResolveErr
<1>6. CASE RvResume
  BY <1>6, Shapes, <1>0 DEF Undo, UpdateOwns, Rolling, Reverts, Back, Quiet, Now, Named,
    Control, Calling, Located, Repairing, Granting, Finishing, MutLabels, CompLabels, Locals,
    RvResume, Stay, ResolveOk, Goto, ResolveErr
<1>7. CASE RvRetain
  BY <1>7, Shapes, <1>0 DEF Undo, UpdateOwns, Rolling, Reverts, Back, Quiet, Now, Named,
    Control, Calling, Located, Repairing, Granting, Finishing, MutLabels, CompLabels, Locals,
    RvRetain, Stay, ResolveErr, Goto
<1> QED BY <1>1, <1>2, <1>3, <1>4, <1>5, <1>6, <1>7 DEF Resolving

LEMMA LeasingUndo ==
    TypeOK /\ Control /\ Own /\ Hosted /\ Intent /\ Ident /\ Undo /\ Leasing => Undo'
<1> SUFFICES ASSUME TypeOK, Control, Own, Hosted, Intent, Ident, Undo, Leasing PROVE Undo'
  OBVIOUS
<1>0. Quiet
  BY LeasingQuiet
<1>1. CASE ApObserve
  BY <1>1, Shapes, <1>0 DEF Undo, UpdateOwns, Rolling, Reverts, Back, Quiet, Now, Named,
    Control, Calling, Located, Repairing, Granting, Finishing, MutLabels, CompLabels, Locals,
    ApObserve, Clean, Goto, Snap, FailsIf, Fault, Finish, NoLoc, leaseVars
<1>2. CASE ApPersist
  <2>1. op' = "apply" /\ pc' \in {"done", "mut.bind", "ap.unpersist"}
    BY <1>2 DEF ApPersist, Goto, Control, Located
  <2> QED BY <2>1 DEF Undo, UpdateOwns, Rolling, Reverts, Back, CompLabels
<1>3. CASE ApUnpersist
  BY <1>3, Shapes, <1>0 DEF Undo, UpdateOwns, Rolling, Reverts, Back, Quiet, Now, Named,
    Control, Calling, Located, Repairing, Granting, Finishing, MutLabels, CompLabels, Locals,
    ApUnpersist, Finish, NoLoc, leaseVars
<1>4. CASE ApResidue
  BY <1>4, Shapes, <1>0 DEF Undo, UpdateOwns, Rolling, Reverts, Back, Quiet, Now, Named,
    Control, Calling, Located, Repairing, Granting, Finishing, MutLabels, CompLabels, Locals,
    ApResidue, Clean, Snap, Goto, Stay, FailsIf, Fault, Finish, NoLoc, leaseVars
<1>5. CASE ApRemove
  BY <1>5, Shapes, <1>0 DEF Undo, UpdateOwns, Rolling, Reverts, Back, Quiet, Now, Named,
    Control, Calling, Located, Repairing, Granting, Finishing, MutLabels, CompLabels, Locals,
    ApRemove, Finish, NoLoc, leaseVars
<1>6. CASE ApRetain
  BY <1>6, Shapes, <1>0 DEF Undo, UpdateOwns, Rolling, Reverts, Back, Quiet, Now, Named,
    Control, Calling, Located, Repairing, Granting, Finishing, MutLabels, CompLabels, Locals,
    ApRetain, Finish, NoLoc, leaseVars
<1>7. CASE Done
  BY <1>7, Shapes, <1>0 DEF Undo, UpdateOwns, Rolling, Reverts, Back, Quiet, Now, Named,
    Control, Calling, Located, Repairing, Granting, Finishing, MutLabels, CompLabels, Locals,
    Done, Clean, Finish, NoLoc
<1>8. CASE UpRead
  <2>1. CASE Finish
    BY <2>1 DEF Undo, UpdateOwns, Rolling, Reverts, Back, CompLabels, Finish
  <2>2. CASE /\ OwnsCurrent(Applied, Now) /\ Goto("up.prepare")
             /\ loc' = [loc EXCEPT !.exp = Applied, !.rec = live.rec]
    <3>1. pc' = "up.prepare" /\ loc'.exp = Applied /\ (Ours' => Now' = Now)
      BY <1>0, <2>2, Shapes DEF Goto, Locals, Quiet, Now
    <3> QED BY <2>2, <3>1 DEF Undo, UpdateOwns, Rolling, Reverts, Back, CompLabels
  <2> QED BY <1>8, <2>1, <2>2 DEF UpRead
<1>9. CASE UpPrepare
  <2>1. pc = "up.prepare" /\ pc' \in {"mut.bind", "up.unprepare"} /\ op' = op /\ loc' = loc
    BY <1>9, UpPrepareEffect DEF UpPrepare
  <2>2. Ours' => Ours /\ Now' = Now
    BY <1>0 DEF Quiet, Now
  <2> QED BY <2>1, <2>2 DEF Undo, UpdateOwns, Rolling, Reverts, Back, CompLabels
<1>10. CASE UpUnprepare
  BY <1>10, Shapes, <1>0 DEF Undo, UpdateOwns, Rolling, Reverts, Back, Quiet, Now, Named,
    Control, Calling, Located, Repairing, Granting, Finishing, MutLabels, CompLabels, Locals,
    UpUnprepare, Finish, NoLoc
<1>11. CASE UpResidue
  BY <1>11, Shapes, <1>0 DEF Undo, UpdateOwns, Rolling, Reverts, Back, Quiet, Now, Named,
    Control, Calling, Located, Repairing, Granting, Finishing, MutLabels, CompLabels, Locals,
    UpResidue, Finish, NoLoc
<1>12. CASE RsStatus
  BY <1>12, Shapes, <1>0 DEF Undo, UpdateOwns, Rolling, Reverts, Back, Quiet, Now, Named,
    Control, Calling, Located, Repairing, Granting, Finishing, MutLabels, CompLabels, Locals,
    RsStatus, Stay, Clean, Goto, Fault, leaseVars
<1>13. CASE RsRead
  <2>1. \/ pc' \in {"rs.fail", "rs.remove", "rv.start"}
        \/ pc' = "comp.status" /\ loc'.ret = "restore"
    <3>1. CASE RsCompare
      BY <3>1, RsCompareEffect
    <3> QED BY <1>13, <3>1 DEF RsRead, Goto
  <2> QED BY <2>1 DEF Undo, UpdateOwns, Rolling, Reverts, Back, CompLabels
<1>14. CASE RsReread
  <2>1. \/ pc' \in {"rs.fail", "rs.remove", "rv.start"}
        \/ pc' = "comp.status" /\ loc'.ret = "restore"
    <3>1. CASE RsCompare
      BY <3>1, RsCompareEffect
    <3> QED BY <1>14, <3>1 DEF RsReread, Goto
  <2> QED BY <2>1 DEF Undo, UpdateOwns, Rolling, Reverts, Back, CompLabels
<1>15. CASE RsRetain
  BY <1>15, Shapes, <1>0 DEF Undo, UpdateOwns, Rolling, Reverts, Back, Quiet, Now, Named,
    Control, Calling, Located, Repairing, Granting, Finishing, MutLabels, CompLabels, Locals,
    RsRetain, Stay, Goto
<1>16. CASE RsRemove
  BY <1>16, Shapes, <1>0 DEF Undo, UpdateOwns, Rolling, Reverts, Back, Quiet, Now, Named,
    Control, Calling, Located, Repairing, Granting, Finishing, MutLabels, CompLabels, Locals,
    RsRemove, Finish, NoLoc, Goto, Stay
<1>17. CASE RsFail
  BY <1>17, Shapes, <1>0 DEF Undo, UpdateOwns, Rolling, Reverts, Back, Quiet, Now, Named,
    Control, Calling, Located, Repairing, Granting, Finishing, MutLabels, CompLabels, Locals,
    RsFail, Finish, NoLoc, Clean
<1>18. CASE AbRemove
  BY <1>18, Shapes, <1>0 DEF Undo, UpdateOwns, Rolling, Reverts, Back, Quiet, Now, Named,
    Control, Calling, Located, Repairing, Granting, Finishing, MutLabels, CompLabels, Locals,
    AbRemove, Finish, NoLoc
<1> QED BY <1>1, <1>2, <1>3, <1>4, <1>5, <1>6, <1>7, <1>8, <1>9, <1>10, <1>11, <1>12, <1>13, <1>14,
  <1>15, <1>16, <1>17, <1>18 DEF Leasing

LEMMA ReconcilingUndo ==
    TypeOK /\ Control /\ Own /\ Hosted /\ Intent /\ Ident /\ Undo /\ Reconciling => Undo'
<1> SUFFICES ASSUME TypeOK, Control, Own, Hosted, Intent, Ident, Undo, Reconciling PROVE Undo'
  OBVIOUS
<1>0. Quiet
  BY ReconcilingQuiet
<1>1. CASE RcForget
  BY <1>1, Shapes, <1>0 DEF Undo, UpdateOwns, Rolling, Reverts, Back, Quiet, Now, Named,
    Control, Calling, Located, Repairing, Granting, Finishing, MutLabels, CompLabels, Locals,
    RcForget, Finish, NoLoc
<1>2. CASE RcFirst
  BY <1>2, Shapes, <1>0 DEF Undo, UpdateOwns, Rolling, Reverts, Back, Quiet, Now, Named,
    Control, Calling, Located, Repairing, Granting, Finishing, MutLabels, CompLabels, Locals,
    RcFirst, Clean, Goto, Snap, Stay, Fault, Finish, NoLoc, leaseVars
<1>3. CASE RcSecond
  BY <1>3, Shapes, <1>0 DEF Undo, UpdateOwns, Rolling, Reverts, Back, Quiet, Now, Named,
    Control, Calling, Located, Repairing, Granting, Finishing, MutLabels, CompLabels, Locals,
    RcSecond, Clean, Goto, Stay, Snap, FailsIf, Fault, Finish, NoLoc, leaseVars
<1>4. CASE RcPrepare
  <2>1. op' = "reconcile" /\ pc' \in {"mut.bind", "rc.unprepare"}
    BY <1>4, RcPrepareEffect DEF Control, Located
  <2> QED BY <2>1 DEF Undo, UpdateOwns, Rolling, Reverts, Back, CompLabels
<1>5. CASE RcUnprepare
  BY <1>5, Shapes, <1>0 DEF Undo, UpdateOwns, Rolling, Reverts, Back, Quiet, Now, Named,
    Control, Calling, Located, Repairing, Granting, Finishing, MutLabels, CompLabels, Locals,
    RcUnprepare, Finish, NoLoc
<1>6. CASE RcResidue
  BY <1>6, Shapes, <1>0 DEF Undo, UpdateOwns, Rolling, Reverts, Back, Quiet, Now, Named,
    Control, Calling, Located, Repairing, Granting, Finishing, MutLabels, CompLabels, Locals,
    RcResidue, Finish, NoLoc, Clean
<1> QED BY <1>1, <1>2, <1>3, <1>4, <1>5, <1>6 DEF Reconciling

LEMMA RecoveringUndo ==
    TypeOK /\ Control /\ Own /\ Hosted /\ Intent /\ Ident /\ Undo /\ Recovering => Undo'
<1> SUFFICES ASSUME TypeOK, Control, Own, Hosted, Intent, Ident, Undo, Recovering PROVE Undo'
  OBVIOUS
<1>0. Quiet
  BY RecoveringQuiet
<1>1. CASE RecoverLock
  BY <1>1, Shapes, <1>0 DEF Undo, UpdateOwns, Rolling, Reverts, Back, Quiet, Now, Named,
    Control, Calling, Located, Repairing, Granting, Finishing, MutLabels, CompLabels, Locals,
    RecoverLock, Clean, RecoverBegins, NoLoc, leaseVars
<1>2. CASE RecStatus
  BY <1>2, Shapes, <1>0 DEF Undo, UpdateOwns, Rolling, Reverts, Back, Quiet, Now, Named,
    Control, Calling, Located, Repairing, Granting, Finishing, MutLabels, CompLabels, Locals,
    RecStatus, Clean, Goto, Stay, Fault, Finish, NoLoc, leaseVars
<1>3. CASE RecCapture
  <2>1. pc' \in {"idle", "rec.remove"} \/ (pc' = "comp.status" /\ loc'.ret = "recover")
    BY <1>3, RecCaptureEffect DEF Finish
  <2> QED BY <2>1 DEF Undo, UpdateOwns, Rolling, Reverts, Back, CompLabels
<1>4. CASE RecRemove
  BY <1>4, Shapes, <1>0 DEF Undo, UpdateOwns, Rolling, Reverts, Back, Quiet, Now, Named,
    Control, Calling, Located, Repairing, Granting, Finishing, MutLabels, CompLabels, Locals,
    RecRemove, Goto, NoLoc, Finish, leaseVars
<1>5. CASE RecRetain
  BY <1>5, Shapes, <1>0 DEF Undo, UpdateOwns, Rolling, Reverts, Back, Quiet, Now, Named,
    Control, Calling, Located, Repairing, Granting, Finishing, MutLabels, CompLabels, Locals,
    RecRetain, Finish, NoLoc, leaseVars
<1> QED BY <1>1, <1>2, <1>3, <1>4, <1>5 DEF Recovering

LEMMA CallsUndo == TypeOK /\ Control /\ Own /\ Hosted /\ Intent /\ Ident /\ Undo /\ Calls => Undo'
<1> SUFFICES ASSUME TypeOK, Control, Own, Hosted, Intent, Ident, Undo, Calls PROVE Undo'
  OBVIOUS
<1>0. Quiet
  BY CallsQuiet
<1>1. CASE \E plan \in Plans : ApplyStart(plan)
  <2>1. pc' \in {"ap.observe", "rec.status"}
    BY <1>1, ApplyStartEffect
  <2> QED BY <2>1 DEF Undo, UpdateOwns, Rolling, Reverts, Back, CompLabels
<1>2. CASE \E plan \in Plans : UpdateStart(plan)
  BY <1>2, Shapes, <1>0 DEF Undo, UpdateOwns, Rolling, Reverts, Back, Quiet, Now, Named,
    Control, Calling, Located, Repairing, Granting, Finishing, MutLabels, CompLabels, Locals,
    UpdateStart, Call, NoLoc, Clean, leaseVars
<1>3. CASE \E how \in {"restore", "drop"} : RestoreStart(how)
  BY <1>3, Shapes, <1>0 DEF Undo, UpdateOwns, Rolling, Reverts, Back, Quiet, Now, Named,
    Control, Calling, Located, Repairing, Granting, Finishing, MutLabels, CompLabels, Locals,
    RestoreStart, Call, NoLoc, Clean
<1>4. CASE \E how \in {"abandon", "drop", "discard"} : AbandonStart(how)
  BY <1>4, Shapes, <1>0 DEF Undo, UpdateOwns, Rolling, Reverts, Back, Quiet, Now, Named,
    Control, Calling, Located, Repairing, Granting, Finishing, MutLabels, CompLabels, Locals,
    AbandonStart, Call, NoLoc, Clean
<1>5. CASE RecoverScan
  BY <1>5, Shapes, <1>0 DEF Undo, UpdateOwns, Rolling, Reverts, Back, Quiet, Now, Named,
    Control, Calling, Located, Repairing, Granting, Finishing, MutLabels, CompLabels, Locals,
    RecoverScan, leaseVars
<1>6. CASE RecoverNow
  BY <1>6, Shapes, <1>0 DEF Undo, UpdateOwns, Rolling, Reverts, Back, Quiet, Now, Named,
    Control, Calling, Located, Repairing, Granting, Finishing, MutLabels, CompLabels, Locals,
    RecoverNow, Call, RecoverBegins, NoLoc, Clean, leaseVars
<1> QED BY <1>1, <1>2, <1>3, <1>4, <1>5, <1>6 DEF Calls

LEMMA EnvironmentUndo ==
    TypeOK /\ Control /\ Own /\ Hosted /\ Intent /\ Ident /\ Undo /\ Environment => Undo'
<1> SUFFICES ASSUME Undo, Environment PROVE Undo'
  OBVIOUS
<1>1. CASE ~Ours' /\ UNCHANGED <<live, pc, op, loc>>
  BY <1>1 DEF Undo, UpdateOwns, Rolling, Reverts, Back, Named
<1>2. CASE Died
  BY <1>2 DEF Died, Undo, UpdateOwns, Rolling, Reverts, Back, CompLabels
<1> QED BY <1>1, <1>2, EnvironmentFrame

LEMMA ReconcileStartUndo ==
    TypeOK /\ Control /\ Own /\ Hosted /\ Intent /\ Ident /\ Undo /\ ReconcileStart => Undo'
<1> SUFFICES ASSUME TypeOK, Control, Own, Hosted, Intent, Ident, Undo, ReconcileStart PROVE Undo'
  OBVIOUS
<1>0. Quiet
  BY ReconcileStartQuiet
<1>1. CASE ReconcileStart
  BY <1>1, Shapes, <1>0 DEF Undo, UpdateOwns, Rolling, Reverts, Back, Quiet, Now, Named,
    Control, Calling, Located, Repairing, Granting, Finishing, MutLabels, CompLabels, Locals,
    ReconcileStart, NoLoc, Clean, leaseVars
<1> QED BY <1>1

LEMMA InitUndo == Init => Undo
BY DEF Init, Undo, UpdateOwns, Rolling, Reverts, Back, CompLabels

-----------------------------------------------------------------------------
(***************************************************************************)
(* The records are kept.                                                   *)
(***************************************************************************)
\* Labels from which a claim is removed.
Settling == {"ap.unpersist", "ap.remove", "rs.remove", "rec.remove", "rc.forget"}

\* Nothing has to be kept for a state that is not ours.
LEMMA KeptForeign ==
    ASSUME ~Ours', phase' = "abandoning" /\ op' # "restore" => author' # "us",
           op' = "drop" => (phase' = "abandoning" <=> pc' = "ab.remove")
    PROVE  Kept'
BY DEF Kept

\* A step that is not a write and keeps or anchors the claims.
LEMMA KeptStays ==
    ASSUME Kept, Quiet, phase' = phase, op' = op \/ phase \in {"active", "none"}, pc # "ab.remove",
           op' # "drop" \/ (op = "drop" /\ pc' # "ab.remove"),
           journal' = journal \/ \E r : journal' = {r} /\ (Ours => Anchor(r)),
           Ours /\ phase # "none" => Anchor(live'.rec),
           pc' \in Settling => ~Ours, Overlays' => ~Ours
    PROVE  Kept'
<1>1. Ours' => \A r \in journal' : r.inc = native'.inc /\ r.before.dns = base'
  BY DEF Kept, Quiet, Anchor
<1>2. Ours' /\ phase' # "none" => Anchor(live.rec)'
  BY DEF Quiet, Anchor
<1>3. Ours' /\ (author' = "us" \/ phase' = "none") => journal' # {}
  BY DEF Kept, Quiet
<1>4. (pc' \in Settling => ~Ours') /\ (Overlays' => ~Ours')
  BY DEF Quiet
<1>5. phase' = "abandoning" => op' = op /\ op # "drop"
  BY DEF Kept
<1>6. phase' = "abandoning" /\ op' # "restore" => author' # "us"
  BY <1>5 DEF Kept, Quiet
<1> QED BY <1>1, <1>2, <1>3, <1>4, <1>5, <1>6 DEF Kept, Anchor, Settling

\* The record an operation without a lease works on anchors the state.
LEMMA ClaimAnchor ==
    ASSUME Control, Journaled, OneClaim, ~ScanBeforeLock, Kept, Ours,
           Recovers \/ (op = "apply" /\ pc \notin {"ap.observe", "ap.persist"})
    PROVE  phase = "none" /\ Anchor(loc.rec)
<1>1. phase = "none" /\ \A r \in journal : SameClaim(r, loc.rec)
  <2>1. CASE Recovers
    BY <2>1 DEF Recovers, Control, Calling, Located, OneClaim, CompLabels
  <2>2. CASE op = "apply" /\ pc \notin {"ap.observe", "ap.persist"}
    BY <2>2 DEF Control, Calling, Journaled
  <2> QED BY <2>1, <2>2
<1>2. PICK r \in journal : Anchor(r)
  BY <1>1 DEF Kept
<1> QED BY <1>1, <1>2 DEF Anchor, SameClaim, SameLease

\* A resource that is gone, was replaced or reads as the original is not ours.
LEMMA NotSame ==
    ASSUME Hosted, NEW r, Ours => Anchor(r),
           ~native.up \/ ResourceStatus(native, r.inc) # "Same" \/ Equivalent(Now, r.before)
    PROVE  ~Ours
BY NotOriginal, NowFields DEF Hosted, Anchor, ResourceStatus, Equivalent, Ours

\* A write keeps the anchors, or goes over a recorded state and makes them.
LEMMA KeptUnderWrites ==
    ASSUME Control, Journaled, OneClaim, ~ScanBeforeLock, Kept, Quiet \/ Overwrites,
           pc \in MutLabels \cup CompLabels, native'.inc = native.inc,
           UNCHANGED <<journal, phase>>, phase # "none" => live'.rec = live.rec
    PROVE  /\ Ours' => \A r \in journal' : Anchor(r)'
           /\ Ours' /\ phase' # "none" => Anchor(live.rec)'
           /\ Ours' /\ (author' = "us" \/ phase' = "none") => journal' # {}
<1>1. CASE Ours' /\ Ours /\ base' = base /\ (author' = "us" => author = "us")
  BY <1>1 DEF Kept, Anchor
<1>2. CASE Ours' /\ base' = native.dns /\ Recorded
  <2>1. PICK q \in journal : q.inc = native.inc /\ q.before.dns = native.dns
    BY <1>2 DEF Recorded
  <2>2. \A r \in journal : r = q
    BY DEF OneClaim, Readable
  <2>3. phase # "none" => q.inc = live.rec.inc /\ q.before = live.rec.before
    <3>1. ~live.repair /\ pc # "rc.unprepare"
      BY DEF Control, Repairing, MutLabels, CompLabels
    <3> QED BY <3>1 DEF Journaled, SameLease
  <2> QED BY <1>2, <2>1, <2>2, <2>3 DEF Anchor
<1>3. Ours' => \/ Ours /\ base' = base /\ (author' = "us" => author = "us")
               \/ base' = native.dns /\ Recorded
  BY DEF Quiet, Overwrites
<1> QED BY <1>1, <1>2, <1>3

\* Before its write a reconcile pass only looks.
LEMMA OverlaysBefore ==
    ASSUME TypeOK, Mutating, Overlays' PROVE Overlays /\ UNCHANGED <<native, author, harm>>
<1>1. CASE MutBind
  BY <1>1, Handovers DEF MutBind, Overlays, osVars, Goto
<1>2. CASE MutCas
  <2>1. CASE NativeUnchanged /\ Rejected
    BY <1>2, <2>1, Handovers DEF MutCas, NativeUnchanged, Overlays
  <2>2. CASE pc' \in {"comp.status", "mut.status"}
    BY <2>2 DEF Overlays
  <2> QED BY <1>2, <2>1, <2>2, Handovers DEF MutCas, Goto
<1>3. CASE MutCheck
  BY <1>3, Handovers DEF MutCheck, Overlays, Goto
<1>4. CASE MutRecheck
  BY <1>4, Handovers DEF MutRecheck, Overlays, osVars, Goto
<1>5. CASE MutWrite
  <2>1. pc' \in {"comp.status", "mut.status"}
    BY <1>5, Handovers DEF MutWrite, Goto
  <2> QED BY <2>1 DEF Overlays
<1>6. CASE MutStatus \/ MutReadback \/ MutVerify
  <2>1. pc' \in {"comp.status", "mut.readback", "mut.verify", "rv.start"}
    BY <1>6, Handovers DEF MutStatus, MutReadback, MutVerify, Goto
  <2> QED BY <2>1 DEF Overlays
<1> QED BY <1>1, <1>2, <1>3, <1>4, <1>5, <1>6 DEF Mutating

\* A claim is settled by a compensation only over its target.
LEMMA CompensatingSettles ==
    ASSUME TypeOK, Hosted, Seen, Compensating, pc' \in Settling
    PROVE  UNCHANGED <<native, author, harm>> /\ (Ours => native.dns = loc.tgt.dns)
<1>1. ~CompErr /\ pc' \notin CompLabels
  BY Handovers DEF Settling, CompLabels
<1>2. CASE CompRead
  <2>1. Equivalent(Now, loc.tgt) /\ Now.dns = native.dns
    BY <1>1, <1>2, NowFields DEF CompRead, Goto, CompLabels
  <2> QED BY <1>2, <2>1 DEF CompRead, Equivalent, osVars
<1>3. CASE CompVerify
  <2>1. Equivalent(loc.cur, loc.tgt) /\ Now.dns = native.dns /\ (Ours => loc.cur = Now)
    BY <1>1, <1>3, NowFields DEF CompVerify, Seen
  <2> QED BY <1>3, <2>1 DEF CompVerify, Equivalent, osVars
<1> QED BY <1>1, <1>2, <1>3 DEF Compensating, CompStatus, CompBind, CompCas, CompCheck, CompRecheck,
      CompWrite, CompReread, Goto, CompLabels

LEMMA MutatingKept ==
    TypeOK /\ Control /\ Own /\ Journaled /\ OneClaim /\ ~ScanBeforeLock /\ Hosted /\ Kept /\ Mutating
    => Kept'
<1> SUFFICES ASSUME TypeOK, Control, Own, Journaled, OneClaim, ~ScanBeforeLock, Hosted, Kept, Mutating
             PROVE  Kept'
  OBVIOUS
<1>1. /\ pc \in MutLabels /\ op' = op /\ UNCHANGED <<journal, phase>> /\ native'.inc = native.inc
      /\ op # "apply" => live'.rec = live.rec
      /\ pc' \in MutLabels \cup {"residue", "comp.status", "rv.start"}
  BY MutatingFrame DEF MutatingKeeps
<1>2. op \in {"apply", "update", "reconcile"} /\ phase \in {"none", "active"}
      /\ (phase # "none" => op # "apply")
  BY <1>1 DEF Control, Calling, Located
<1>3. Quiet \/ Overwrites
  BY MutatingHosted
<1>4. /\ Ours' => \A r \in journal' : Anchor(r)'
      /\ Ours' /\ phase' # "none" => Anchor(live.rec)'
      /\ Ours' /\ (author' = "us" \/ phase' = "none") => journal' # {}
  BY <1>1, <1>2, <1>3, KeptUnderWrites
<1>5. Overlays' => ~Ours'
  BY OverlaysBefore DEF Kept, Ours
<1>6. pc' \notin Settling
  BY <1>1 DEF MutLabels, Settling
<1> QED BY <1>1, <1>2, <1>4, <1>5, <1>6 DEF Kept, Settling

LEMMA CompensatingKept ==
    TypeOK /\ Control /\ Journaled /\ OneClaim /\ ~ScanBeforeLock /\ Hosted /\ Seen /\ Intent /\ Kept
    /\ Compensating => Kept'
<1> SUFFICES ASSUME TypeOK, Control, Journaled, OneClaim, ~ScanBeforeLock, Hosted, Seen, Intent, Kept,
                    Compensating
             PROVE  Kept'
  OBVIOUS
<1>1. /\ pc \in CompLabels /\ op' = op /\ UNCHANGED <<journal, phase, live>>
      /\ native'.inc = native.inc
      /\ \/ pc' \in CompLabels \cup {"residue", "rv.resume", "rv.retain", "rs.retain", "rec.retain"}
         \/ loc.ret = "restore" /\ pc' = "rs.remove"
         \/ loc.ret \in {"none", "recover"} /\ pc' = "rec.remove"
  BY CompensatingFrame DEF CompensatingKeeps
<1>2. Quiet \/ Overwrites
  BY CompensatingHosted
<1>3. /\ Ours' => \A r \in journal' : Anchor(r)'
      /\ Ours' /\ phase' # "none" => Anchor(live.rec)'
      /\ Ours' /\ (author' = "us" \/ phase' = "none") => journal' # {}
  BY <1>1, <1>2, KeptUnderWrites
<1>4. ~Overlays'
  <2>1. pc' = "residue" => loc'.res # "Unchanged"
    BY CompensatingExits
  <2> QED BY <1>1, <2>1 DEF Overlays, CompLabels
<1>5. pc' \in Settling => ~Ours'
  <2> SUFFICES ASSUME pc' \in Settling PROVE ~Ours'
    OBVIOUS
  <2>1. Ours' => Ours /\ native.dns = loc.tgt.dns
    BY CompensatingSettles DEF Ours
  <2>2. CASE loc.ret = "restore"
    <3>1. loc.tgt = live.rec.before /\ phase # "none"
      BY <1>1, <2>2 DEF Intent, Targeted, Control, Calling, Located
    <3> QED BY <2>1, <3>1, NotOriginal DEF Kept
  <2>3. CASE loc.ret # "restore"
    <3>1. loc.ret = "recover" /\ loc.tgt = loc.rec.before
      BY <1>1, <2>3 DEF Intent, Targeted, Control, Located, Settling, CompLabels
    <3>2. Ours => Anchor(loc.rec)
      BY <1>1, <3>1, ClaimAnchor DEF Recovers
    <3> QED BY <2>1, <3>1, <3>2, NotOriginal
  <2> QED BY <2>2, <2>3
<1>6. /\ phase = "abandoning" => op = "restore"
      /\ pc' # "ab.remove" /\ (op = "drop" => phase # "abandoning")
  BY <1>1 DEF Kept, Control, Calling, Located, CompLabels
<1> QED BY <1>1, <1>3, <1>4, <1>5, <1>6 DEF Kept, Settling

LEMMA ResolvingKept ==
    TypeOK /\ Control /\ Own /\ Journaled /\ OneClaim /\ ~ScanBeforeLock /\ Hosted /\ Seen /\
    Intent /\ Ident /\ Undo /\ Kept /\ Resolving => Kept'
<1> SUFFICES ASSUME TypeOK, Control, Own, Journaled, OneClaim, ~ScanBeforeLock, Hosted, Seen,
                    Intent, Ident, Undo, Kept, Resolving
             PROVE  Kept'
  OBVIOUS
<1>0. Quiet
  BY ResolvingQuiet
<1>1. CASE RvRepair
  <2>1. /\ pc = "rv.start" /\ op' = op /\ phase' = phase /\ live'.rec = live.rec
        /\ pc' \in {"rv.start", "rs.fail", "done"} /\ (Wrote(live.rec) \/ WroteOrNot(live.rec))
    BY <1>1, Shapes DEF RvRepair, ResolveErr, Goto, LiveRecords, JournalWrite, Wrote, WroteOrNot
  <2>2. phase # "none"
    BY <1>1 DEF RvRepair, Control, Calling, Granting, Finishing, NoLive, LiveAs
  <2>3. journal' = journal \/ journal' = {live.rec}
    BY <2>1, <2>2, JournalOfOneLease DEF Journaled, SameLease
  <2>4. Ours => Anchor(live.rec)
    BY <2>2 DEF Kept
  <2>5. pc' \notin Settling /\ ~Overlays'
    BY <2>1 DEF Settling, Overlays
  <2> QED BY <1>0, <2>1, <2>3, <2>4, <2>5, KeptStays
<1>2. CASE RvStart
  BY <1>2, Shapes, <1>0 DEF Kept, Anchor, Overlays, Quiet, Control, Calling, Located, Repairing,
    Granting, Finishing, MutLabels, CompLabels, Locals, LiveRecords, SameClaim, SameLease,
    RvStart, Clean, ResolveOk, Goto, Stay, ResolveErr, osVars, leaseVars, bounds
<1>3. CASE RvRead
  BY <1>3, Shapes, <1>0 DEF Kept, Anchor, Overlays, Quiet, Control, Calling, Located, Repairing,
    Granting, Finishing, MutLabels, CompLabels, Locals, LiveRecords, SameClaim, SameLease,
    RvRead, Clean, Goto, FailsIf, Fault, ResolveErr, Stay, osVars, leaseVars, bounds
<1>4. CASE RvStatus
  BY <1>4, Shapes, <1>0 DEF Kept, Anchor, Overlays, Quiet, Control, Calling, Located, Repairing,
    Granting, Finishing, MutLabels, CompLabels, Locals, LiveRecords, SameClaim, SameLease,
    RvStatus, Stay, Clean, Goto, FailsIf, Fault, ResolveErr, osVars, leaseVars, bounds
<1>5. CASE RvWrite
  <2>1. /\ pc = "rv.write" /\ phase' = phase /\ op' = op
        /\ pc' \in {"done", "up.read", "rc.first", "rs.reread", "rs.fail"}
    BY <1>5 DEF RvWrite, ResolveOk, ResolveErr, Goto
  <2>2. PICK r \in Records :
          /\ Variant(r, live.rec, "Applied", live.proof) /\ (live'.rec = r \/ live' = live)
          /\ Wrote(r) \/ WroteOrNot(r)
    BY <1>5, RvWriteEffect
  <2>3. Ours => Anchor(live.rec)
    <3>1. CASE phase # "none"
      BY <3>1 DEF Kept
    <3>2. CASE phase = "none"
      <4>1. op = "apply" /\ SameClaim(live.rec, loc.rec)
        BY <2>1, <3>2 DEF Control, Calling, Located, Own, Granting, Finishing
      <4> QED BY <2>1, <4>1, ClaimAnchor DEF Anchor, SameClaim, SameLease
    <3> QED BY <3>1, <3>2
  <2>4. (Ours => Anchor(r)) /\ (Ours => Anchor(live'.rec))
    BY <2>2, <2>3 DEF Anchor, Variant, SameClaim, SameLease
  <2>5. \A x \in journal : x.lease = r.lease
    <3>1. CASE phase # "none"
      BY <2>2, <3>1 DEF Journaled, Variant, SameClaim, SameLease
    <3>2. CASE phase = "none"
      <4>1. op = "apply" /\ SameClaim(live.rec, loc.rec)
        BY <2>1, <3>2 DEF Control, Calling, Located, Own, Granting, Finishing
      <4> QED BY <2>1, <2>2, <4>1 DEF Journaled, Variant, SameClaim, SameLease
    <3> QED BY <3>1, <3>2
  <2>6. journal' = journal \/ journal' = {r}
    BY <2>2, <2>5, JournalOfOneLease
  <2>7. pc' \notin Settling /\ ~Overlays'
    BY <2>1 DEF Settling, Overlays
  <2> QED BY <1>0, <2>1, <2>4, <2>6, <2>7, KeptStays
<1>6. CASE RvResume
  <2>1. pc # "ab.remove" /\ op' = op /\ pc' \in {"done", "up.read", "rc.first", "rs.reread", "rs.fail"}
    BY <1>6 DEF RvResume, ResolveOk, ResolveErr, Goto
  <2>2. /\ phase # "none" /\ SameClaim(live'.rec, live.rec) /\ phase' = phase
        /\ journal' = {live'.rec} \/ journal' = journal
    BY <1>6, LeaseRewrites
  <2>3. Ours => Anchor(live'.rec)
    BY <2>2 DEF Kept, Anchor, SameClaim, SameLease
  <2>4. pc' \notin Settling /\ ~Overlays'
    BY <2>1 DEF Settling, Overlays
  <2> QED BY <1>0, <2>1, <2>2, <2>3, <2>4, KeptStays
<1>7. CASE RvRetain
  <2>1. pc # "ab.remove" /\ op' = op /\ pc' \in {"rs.fail", "done"}
    BY <1>7 DEF RvRetain, ResolveOk, ResolveErr, Goto
  <2>2. /\ phase # "none" /\ SameClaim(live'.rec, live.rec) /\ phase' = phase
        /\ journal' = {live'.rec} \/ journal' = journal
    BY <1>7, LeaseRewrites
  <2>3. Ours => Anchor(live'.rec)
    BY <2>2 DEF Kept, Anchor, SameClaim, SameLease
  <2>4. pc' \notin Settling /\ ~Overlays'
    BY <2>1 DEF Settling, Overlays
  <2> QED BY <1>0, <2>1, <2>2, <2>3, <2>4, KeptStays
<1> QED BY <1>1, <1>2, <1>3, <1>4, <1>5, <1>6, <1>7 DEF Resolving

LEMMA LeasingKept ==
    TypeOK /\ Control /\ Own /\ Journaled /\ OneClaim /\ ~ScanBeforeLock /\ Hosted /\ Seen /\
    Intent /\ Ident /\ Undo /\ Kept /\ Leasing => Kept'
<1> SUFFICES ASSUME TypeOK, Control, Own, Journaled, OneClaim, ~ScanBeforeLock, Hosted, Seen,
                    Intent, Ident, Undo, Kept, Leasing
             PROVE  Kept'
  OBVIOUS
<1>0. Quiet
  BY LeasingQuiet
<1>1. CASE ApObserve
  BY <1>1, Shapes, <1>0 DEF Kept, Anchor, Overlays, Quiet, Control, Calling, Located, Repairing,
    Granting, Finishing, MutLabels, CompLabels, Locals, LiveRecords, SameClaim, SameLease,
    ApObserve, Clean, Goto, FailsIf, Fault, Finish, NoLoc, osVars, leaseVars
<1>2. CASE ApPersist
  <2>1. pc = "ap.persist" /\ op = "apply" /\ op' = op /\ phase = "none" /\ phase' = "none"
    BY <1>2 DEF ApPersist, Control, Calling, Located, Goto
  <2>2. ~Ours
    BY <2>1 DEF Journaled, Kept
  <2> QED BY <1>0, <2>1, <2>2, KeptForeign DEF Quiet
<1>3. CASE ApUnpersist
  BY <1>3, Shapes, <1>0 DEF Kept, Anchor, Overlays, Quiet, Control, Calling, Located, Repairing,
    Granting, Finishing, MutLabels, CompLabels, Locals, LiveRecords, SameClaim, SameLease,
    ApUnpersist, Finish, NoLoc, osVars, leaseVars, bounds
<1>4. CASE ApResidue
  <2>1. /\ pc = "residue" /\ op = "apply" /\ phase = "none" /\ UNCHANGED <<journal, phase>>
        /\ op' \in {"apply", "none"} /\ pc' \in {"idle", "ap.remove"}
        /\ pc' = "ap.remove" => Equivalent(Now, loc.rec.before)
    BY <1>4 DEF ApResidue, Control, Calling, Goto, Finish, leaseVars
  <2>2. Ours => Anchor(loc.rec)
    BY <2>1, ClaimAnchor
  <2>3. pc' \in Settling => ~Ours
    BY <2>1, <2>2, NotSame DEF Settling
  <2>4. ~Overlays'
    BY <2>1 DEF Overlays
  <2> QED BY <1>0, <2>1, <2>3, <2>4, KeptStays
<1>5. CASE ApRemove
  BY <1>5, Shapes, <1>0 DEF Kept, Anchor, Overlays, Quiet, Control, Calling, Located, Repairing,
    Granting, Finishing, MutLabels, CompLabels, Locals, LiveRecords, SameClaim, SameLease,
    ApRemove, Finish, NoLoc, osVars, leaseVars, bounds
<1>6. CASE ApRetain
  <2>1. pc = "residue" /\ op = "apply" /\ phase = "none" /\ phase' = phase /\ pc' = "idle" /\ op' = "none"
    BY <1>6 DEF ApRetain, Control, Calling, Located, Finish, leaseVars
  <2>2. PICK r : (\E ok \in BOOLEAN : JournalWrite(r, ok)) /\ SameClaim(r, loc.rec)
    <3>1. loc.rec \in Records
      BY FieldTypes
    <3>2. SameClaim([loc.rec EXCEPT !.applied = loc.ev], loc.rec)
      BY <3>1 DEF Records, SameClaim, SameLease
    <3> QED BY <1>6, <3>2 DEF ApRetain
  <2>3. Ours => Anchor(r)
    BY <2>1, <2>2, ClaimAnchor DEF Recovers, Anchor, SameClaim, SameLease
  <2>4. \A x \in journal : x.lease = r.lease
    BY <2>1, <2>2 DEF Journaled, SameClaim, SameLease
  <2>5. journal' = journal \/ journal' = {r}
    BY <2>2, <2>4, JournalOfOneLease DEF JournalWrite, Wrote, WroteOrNot
  <2>6. pc' \notin Settling /\ ~Overlays'
    BY <2>1 DEF Settling, Overlays
  <2> QED BY <1>0, <2>1, <2>3, <2>5, <2>6, KeptStays
<1>7. CASE Done
  <2>1. /\ pc = "done" /\ pc' = "idle" /\ op' = "none" /\ UNCHANGED <<journal, live>>
        /\ \/ op = "apply" /\ phase = "none" /\ phase' = "active"
           \/ phase = "active" /\ phase' = phase
    BY <1>7 DEF Done, Finish, Control, Calling, Located
  <2>2. pc' \notin Settling /\ ~Overlays'
    BY <2>1 DEF Settling, Overlays
  <2>3. CASE phase = "active"
    BY <1>0, <2>1, <2>2, <2>3, KeptStays DEF Kept
  <2>4. CASE op = "apply" /\ phase = "none"
    <3>1. SameClaim(live.rec, loc.rec) /\ (Ours => Anchor(loc.rec))
      BY <2>1, <2>4, ClaimAnchor DEF Own, Granting
    <3>2. Ours => Anchor(live.rec)
      BY <3>1 DEF Anchor, SameClaim, SameLease
    <3> QED BY <1>0, <2>1, <2>2, <2>4, <3>2 DEF Kept, Quiet, Anchor, Settling
  <2> QED BY <2>1, <2>3, <2>4
<1>8. CASE UpRead
  BY <1>8, Shapes, <1>0 DEF Kept, Anchor, Overlays, Quiet, Control, Calling, Located, Repairing,
    Granting, Finishing, MutLabels, CompLabels, Locals, LiveRecords, SameClaim, SameLease,
    UpRead, Clean, Goto, Finish, NoLoc, FailsIf, Fault, osVars, leaseVars, bounds
<1>9. CASE UpPrepare
  <2>1. pc # "ab.remove" /\ phase = "active" /\ op' \notin {"reconcile", "drop"} /\ pc' \notin Settling
    BY <1>9, UpPrepareEffect DEF UpPrepare, Finish, Goto, Settling, Control, Calling, Located
  <2>2. /\ phase # "none" /\ SameClaim(live'.rec, live.rec) /\ phase' = phase
        /\ journal' = {live'.rec} \/ journal' = journal
    BY <1>9, LeaseRewrites
  <2>3. Ours => Anchor(live'.rec)
    BY <2>2 DEF Kept, Anchor, SameClaim, SameLease
  <2>4. ~Overlays'
    BY <2>1 DEF Overlays
  <2> QED BY <1>0, <2>1, <2>2, <2>3, <2>4, KeptStays
<1>10. CASE UpUnprepare
  <2>1. pc # "ab.remove" /\ phase = "active" /\ op' \notin {"reconcile", "drop"} /\ pc' \notin Settling
    BY <1>10, UpPrepareEffect DEF UpUnprepare, Finish, Goto, Settling, Control, Calling, Located
  <2>2. /\ phase # "none" /\ SameClaim(live'.rec, live.rec) /\ phase' = phase
        /\ journal' = {live'.rec} \/ journal' = journal
    BY <1>10, LeaseRewrites
  <2>3. Ours => Anchor(live'.rec)
    BY <2>2 DEF Kept, Anchor, SameClaim, SameLease
  <2>4. ~Overlays'
    BY <2>1 DEF Overlays
  <2> QED BY <1>0, <2>1, <2>2, <2>3, <2>4, KeptStays
<1>11. CASE UpResidue
  <2>1. pc # "ab.remove" /\ phase = "active" /\ op' \notin {"reconcile", "drop"} /\ pc' \notin Settling
    BY <1>11, UpPrepareEffect DEF UpResidue, Finish, Goto, Settling, Control, Calling, Located
  <2>2. /\ phase # "none" /\ SameClaim(live'.rec, live.rec) /\ phase' = phase
        /\ journal' = {live'.rec} \/ journal' = journal
    BY <1>11, LeaseRewrites
  <2>3. Ours => Anchor(live'.rec)
    BY <2>2 DEF Kept, Anchor, SameClaim, SameLease
  <2>4. ~Overlays'
    BY <2>1 DEF Overlays
  <2> QED BY <1>0, <2>1, <2>2, <2>3, <2>4, KeptStays
<1>12. CASE RsStatus
  <2>1. /\ pc = "rs.status" /\ op \in {"restore", "drop"} /\ op' = op /\ phase # "none"
        /\ UNCHANGED <<journal, phase, live>> /\ pc' \in {"rs.read", "rs.remove", "rs.fail"}
        /\ pc' = "rs.remove" => ~Same
    BY <1>12 DEF RsStatus, Goto, leaseVars, Control, Calling, Located
  <2>2. loc.inc = live.rec.inc /\ (Ours => Anchor(live.rec))
    BY <2>1 DEF Own, Kept
  <2>3. pc' \in Settling => ~Ours
    BY <2>1, <2>2, NotSame DEF Settling, Same
  <2>4. ~Overlays'
    BY <2>1 DEF Overlays
  <2> QED BY <1>0, <2>1, <2>2, <2>3, <2>4, KeptStays
<1>13. CASE RsRead
  <2>1. /\ pc # "ab.remove" /\ op \in {"restore", "drop"} /\ phase # "none" /\ UNCHANGED <<journal, phase>>
    BY <1>13 DEF RsRead, Control, Calling, Located
  <2>2. /\ op' = op /\ live'.rec = live.rec
        /\ \/ pc' \in {"rs.fail", "rv.start", "comp.status"}
           \/ pc' = "rs.remove" /\ (~native.up \/ Equivalent(Now, live.rec.before))
    <3>1. CASE RsCompare
      BY <3>1, RsCompareEffect
    <3> QED BY <1>13, <3>1 DEF RsRead, Goto
  <2>3. Ours => Anchor(live.rec)
    BY <2>1 DEF Kept
  <2>4. pc' \in Settling => ~Ours
    BY <2>2, <2>3, NotSame DEF Settling
  <2>5. ~Overlays'
    BY <2>1, <2>2 DEF Overlays
  <2> QED BY <1>0, <2>1, <2>2, <2>3, <2>4, <2>5, KeptStays
<1>14. CASE RsReread
  <2>1. /\ pc # "ab.remove" /\ op \in {"restore", "drop"} /\ phase # "none" /\ UNCHANGED <<journal, phase>>
    BY <1>14 DEF RsReread, Control, Calling, Located
  <2>2. /\ op' = op /\ live'.rec = live.rec
        /\ \/ pc' \in {"rs.fail", "rv.start", "comp.status"}
           \/ pc' = "rs.remove" /\ (~native.up \/ Equivalent(Now, live.rec.before))
    <3>1. CASE RsCompare
      BY <3>1, RsCompareEffect
    <3> QED BY <1>14, <3>1 DEF RsReread, Goto
  <2>3. Ours => Anchor(live.rec)
    BY <2>1 DEF Kept
  <2>4. pc' \in Settling => ~Ours
    BY <2>2, <2>3, NotSame DEF Settling
  <2>5. ~Overlays'
    BY <2>1, <2>2 DEF Overlays
  <2> QED BY <1>0, <2>1, <2>2, <2>3, <2>4, <2>5, KeptStays
<1>15. CASE RsRetain
  <2>1. pc # "ab.remove" /\ op' = op /\ pc' \in {"rs.fail"}
    BY <1>15 DEF RsRetain, ResolveOk, ResolveErr, Goto
  <2>2. /\ phase # "none" /\ SameClaim(live'.rec, live.rec) /\ phase' = phase
        /\ journal' = {live'.rec} \/ journal' = journal
    BY <1>15, LeaseRewrites
  <2>3. Ours => Anchor(live'.rec)
    BY <2>2 DEF Kept, Anchor, SameClaim, SameLease
  <2>4. pc' \notin Settling /\ ~Overlays'
    BY <2>1 DEF Settling, Overlays
  <2> QED BY <1>0, <2>1, <2>2, <2>3, <2>4, KeptStays
<1>16. CASE RsRemove
  <2>1. pc = "rs.remove" /\ op \in {"restore", "drop"} /\ ~Ours'
    BY <1>16, <1>0 DEF RsRemove, Control, Located, Kept, Quiet
  <2>2. CASE LeaseEnds /\ Finish
    BY <2>1, <2>2, KeptForeign DEF LeaseEnds, Finish
  <2>3. CASE phase' = phase /\ op' = op /\ pc' = "rs.fail"
    BY <2>1, <2>3, KeptForeign DEF Kept
  <2> QED BY <1>16, <2>2, <2>3 DEF RsRemove, Goto
<1>17. CASE RsFail
  <2>1. /\ pc = "rs.fail" /\ pc' = "idle" /\ op' = "none" /\ phase # "none" /\ UNCHANGED journal
        /\ \/ op = "restore" /\ phase' = "restoring" /\ UNCHANGED <<live, author>>
           \/ LeaseEnds
    BY <1>17 DEF RsFail, Finish, Control, Calling, Located
  <2>2. CASE LeaseEnds
    <3>1. Ours' => journal' # {}
      BY <1>0, <2>1, <2>2 DEF LeaseEnds, Kept, Quiet, Ours, TypeOK
    <3> QED BY <1>0, <2>1, <2>2, <3>1 DEF LeaseEnds, Kept, Quiet, Anchor, Overlays
  <2>3. CASE phase' = "restoring" /\ UNCHANGED live
    BY <1>0, <2>1, <2>3 DEF Kept, Quiet, Anchor, Overlays
  <2> QED BY <2>1, <2>2, <2>3
<1>18. CASE AbRemove
  <2>1. pc = "ab.remove" /\ op \in {"abandon", "drop", "discard"} /\ pc' = "idle" /\ op' = "none"
    BY <1>18 DEF AbRemove, Finish, Control, Located
  <2>2. journal' \subseteq journal
    BY <1>18 DEF AbRemove, JournalRemove, Unlinked, UnlinkedOrNot
  <2>3. op = "drop" => author # "us"
    BY <2>1 DEF Kept, Control, Calling
  <2>4. CASE LeaseEnds
    BY <1>0, <2>1, <2>2, <2>3, <2>4 DEF LeaseEnds, Kept, Quiet, Ours, Anchor, Overlays, TypeOK
  <2>5. CASE op = "abandon" /\ phase' = "abandoning" /\ author' # "us" /\ UNCHANGED live
    <3>1. phase # "none"
      BY <2>5 DEF Control, Calling
    <3> QED BY <1>0, <2>1, <2>2, <2>5, <3>1 DEF Kept, Quiet, Anchor, Overlays
  <2> QED BY <1>18, <2>4, <2>5 DEF AbRemove
<1> QED BY <1>1, <1>2, <1>3, <1>4, <1>5, <1>6, <1>7, <1>8, <1>9, <1>10, <1>11, <1>12, <1>13, <1>14,
  <1>15, <1>16, <1>17, <1>18 DEF Leasing

LEMMA ReconcilingKept ==
    TypeOK /\ Control /\ Own /\ Journaled /\ OneClaim /\ ~ScanBeforeLock /\ Hosted /\ Seen /\
    Intent /\ Ident /\ Undo /\ Kept /\ Reconciling => Kept'
<1> SUFFICES ASSUME TypeOK, Control, Own, Journaled, OneClaim, ~ScanBeforeLock, Hosted, Seen,
                    Intent, Ident, Undo, Kept, Reconciling
             PROVE  Kept'
  OBVIOUS
<1>0. Quiet
  BY ReconcilingQuiet
<1>1. CASE RcForget
  BY <1>1, Shapes, <1>0 DEF Kept, Anchor, Overlays, Quiet, Control, Calling, Located, Repairing,
    Granting, Finishing, MutLabels, CompLabels, Locals, LiveRecords, SameClaim, SameLease,
    RcForget, Finish, NoLoc, osVars, bounds
<1>2. CASE RcFirst
  <2>1. /\ pc = "rc.first" /\ phase = "active" /\ UNCHANGED <<journal, phase, live>>
        /\ pc' \in {"rc.second", "rc.forget", "idle"} /\ (pc' = "rc.forget" => ~native.up) /\ op' # "drop"
    BY <1>2 DEF RcFirst, Goto, Finish, leaseVars, Control, Calling, Located
  <2>2. pc' \in Settling => ~Ours
    BY <2>1 DEF Settling, Hosted, Ours
  <2>3. ~Overlays'
    BY <2>1 DEF Overlays
  <2> QED BY <1>0, <2>1, <2>2, <2>3, KeptStays DEF Kept
<1>3. CASE RcSecond
  <2>1. /\ pc = "rc.second" /\ phase = "active" /\ UNCHANGED <<journal, phase, live>>
        /\ live.st # "Compensating" /\ op' # "drop"
    BY <1>3 DEF Goto, Finish, RcSecond, leaseVars, Control, Calling, Located, Intent, Planned
  <2>2. /\ pc' \in {"rc.prepare", "rc.forget", "idle"} /\ (pc' = "rc.forget" => ~native.up)
        /\ pc' = "rc.prepare" => OverlayBefore # {}
    BY <1>3, RcSecondEffect DEF Finish
  <2>3. pc' \in Settling => ~Ours
    BY <2>2 DEF Settling, Hosted, Ours
  <2>4. ASSUME Ours, OverlayBefore # {} PROVE FALSE
    <3>1. ~Equivalent(Now, live.rec.before)
      BY <2>1, <2>4, NotSame DEF Kept
    <3>2. live.st # "Prepared" /\ ~MatchesDesired(native.dns, live.rec.desired)
      BY <2>4, <3>1 DEF OverlayBefore
    <3>3. CASE live.st = "Committed"
      <4>1. MatchesDesired(live.rec.applied.dns, live.rec.desired) /\ OwnsCurrent(live.rec.applied, Now)
        BY <2>1, <2>4, <3>3 DEF Ident, Good, Leased
      <4> QED BY <3>2, <4>1, OwnedState, NowFields
    <3>4. CASE live.st = "Verified"
      <4>1. MatchesDesired(live.proof.dns, live.rec.desired) /\ OwnsCurrent(live.proof, Now)
        BY <2>1, <2>4, <3>4 DEF Ident, Leased
      <4> QED BY <3>2, <4>1, OwnedState, NowFields
    <3>5. CASE live.st = "Unmutated"
      BY <2>1, <2>4, <3>5 DEF Ident
    <3> QED BY <2>1, <3>2, <3>3, <3>4, <3>5, FieldTypes DEF LiveStates
  <2>5. Overlays' => ~Ours
    BY <2>2, <2>4 DEF Overlays
  <2> QED BY <1>0, <2>1, <2>3, <2>5, KeptStays DEF Kept
<1>4. CASE RcPrepare
  BY <1>4, Shapes, <1>0 DEF Kept, Anchor, Overlays, Quiet, Control, Calling, Located, Repairing,
    Granting, Finishing, MutLabels, CompLabels, Locals, LiveRecords, SameClaim, SameLease,
    RcPrepare, Stay, Goto, osVars, bounds
<1>5. CASE RcUnprepare
  BY <1>5, Shapes, <1>0 DEF Kept, Anchor, Overlays, Quiet, Control, Calling, Located, Repairing,
    Granting, Finishing, MutLabels, CompLabels, Locals, LiveRecords, SameClaim, SameLease,
    RcUnprepare, Finish, NoLoc, osVars, bounds
<1>6. CASE RcResidue
  <2>1. /\ pc = "residue" /\ pc' = "idle" /\ op' = "none" /\ live'.rec = live.rec
        /\ phase = "active" /\ UNCHANGED <<journal, phase>>
    BY <1>6, RcResidueEffect DEF RcResidue, Control, Calling
  <2>2. pc' \notin Settling /\ ~Overlays'
    BY <2>1 DEF Settling, Overlays
  <2> QED BY <1>0, <2>1, <2>2, KeptStays DEF Kept
<1> QED BY <1>1, <1>2, <1>3, <1>4, <1>5, <1>6 DEF Reconciling

LEMMA RecoveringKept ==
    TypeOK /\ Control /\ Own /\ Journaled /\ OneClaim /\ ~ScanBeforeLock /\ Hosted /\ Seen /\
    Intent /\ Ident /\ Undo /\ Kept /\ Recovering => Kept'
<1> SUFFICES ASSUME TypeOK, Control, Own, Journaled, OneClaim, ~ScanBeforeLock, Hosted, Seen,
                    Intent, Ident, Undo, Kept, Recovering
             PROVE  Kept'
  OBVIOUS
<1>0. Quiet
  BY RecoveringQuiet
<1>1. CASE RecoverLock
  BY <1>1, Shapes, <1>0 DEF Kept, Anchor, Overlays, Quiet, Control, Calling, Located, Repairing,
    Granting, Finishing, MutLabels, CompLabels, Locals, LiveRecords, SameClaim, SameLease,
    RecoverLock, Clean, RecoverBegins, NoLoc, osVars, leaseVars, bounds
<1>2. CASE RecStatus
  <2>1. /\ pc = "rec.status" /\ phase = "none" /\ UNCHANGED <<journal, phase>>
        /\ pc' \in {"rec.capture", "rec.remove", "idle"} /\ (pc' = "rec.remove" => ~Same) /\ op' # "drop"
    BY <1>2 DEF RecStatus, Goto, Finish, leaseVars, Control, Calling, Located
  <2>2. Recovers /\ loc.inc = loc.rec.inc
    BY <2>1 DEF Recovers, Own
  <2>3. Ours => Anchor(loc.rec)
    BY <2>2, ClaimAnchor
  <2>4. pc' \in Settling => ~Ours
    BY <2>1, <2>2, <2>3, NotSame DEF Settling, Same
  <2>5. ~Overlays'
    BY <2>1 DEF Overlays
  <2> QED BY <1>0, <2>1, <2>4, <2>5, KeptStays
<1>3. CASE RecCapture
  <2>1. /\ pc = "rec.capture" /\ phase = "none" /\ UNCHANGED <<journal, phase>> /\ op' # "drop"
    BY <1>3 DEF Goto, Finish, RecCapture, leaseVars, Control, Calling, Located
  <2>2. \/ pc' \in {"idle", "comp.status"}
        \/ pc' = "rec.remove" /\ (~native.up \/ Equivalent(Now, loc.rec.before))
    BY <1>3, RecCaptureEffect DEF Finish
  <2>3. Ours => Anchor(loc.rec)
    BY <2>1, ClaimAnchor DEF Recovers
  <2>4. pc' \in Settling => ~Ours
    BY <2>2, <2>3, NotSame DEF Settling
  <2>5. ~Overlays'
    BY <2>2 DEF Overlays
  <2> QED BY <1>0, <2>1, <2>4, <2>5, KeptStays
<1>4. CASE RecRemove
  BY <1>4, Shapes, <1>0 DEF Kept, Anchor, Overlays, Quiet, Control, Calling, Located, Repairing,
    Granting, Finishing, MutLabels, CompLabels, Locals, LiveRecords, SameClaim, SameLease,
    RecRemove, Goto, NoLoc, Finish, osVars, leaseVars, bounds
<1>5. CASE RecRetain
  <2>1. pc = "rec.retain" /\ phase = "none" /\ phase' = phase /\ pc' = "idle" /\ op' = "none"
    BY <1>5 DEF RecRetain, Control, Calling, Located, Finish, leaseVars
  <2>2. PICK r : (\E ok \in BOOLEAN : JournalWrite(r, ok)) /\ SameClaim(r, loc.rec)
    <3>1. loc.rec \in Records
      BY FieldTypes
    <3>2. SameClaim([loc.rec EXCEPT !.phase = "Prepared", !.applied = loc.ev], loc.rec)
      BY <3>1 DEF Records, SameClaim, SameLease
    <3> QED BY <1>5, <3>2 DEF RecRetain
  <2>3. Ours => Anchor(r)
    BY <2>1, <2>2, ClaimAnchor DEF Recovers, Anchor, SameClaim, SameLease
  <2>4. \A x \in journal : x.lease = r.lease
    BY <2>1, <2>2 DEF OneClaim, Recovers, SameClaim, SameLease
  <2>5. journal' = journal \/ journal' = {r}
    BY <2>2, <2>4, JournalOfOneLease DEF JournalWrite, Wrote, WroteOrNot
  <2>6. pc' \notin Settling /\ ~Overlays'
    BY <2>1 DEF Settling, Overlays
  <2> QED BY <1>0, <2>1, <2>3, <2>5, <2>6, KeptStays
<1> QED BY <1>1, <1>2, <1>3, <1>4, <1>5 DEF Recovering

LEMMA CallsKept ==
    TypeOK /\ Control /\ Own /\ Journaled /\ OneClaim /\ ~ScanBeforeLock /\ Hosted /\ Seen /\
    Intent /\ Ident /\ Undo /\ Kept /\ Calls => Kept'
<1> SUFFICES ASSUME TypeOK, Control, Own, Journaled, OneClaim, ~ScanBeforeLock, Hosted, Seen,
                    Intent, Ident, Undo, Kept, Calls
             PROVE  Kept'
  OBVIOUS
<1>0. Quiet
  BY CallsQuiet
<1>1. CASE \E plan \in Plans : ApplyStart(plan)
  <2>1. /\ pc = "idle" /\ phase = "none" /\ UNCHANGED <<journal, phase>>
        /\ op' = "apply" /\ pc' \in {"ap.observe", "rec.status"}
    BY <1>1, ApplyStartEffect DEF ApplyStart, Call, leaseVars
  <2>2. pc' \notin Settling /\ ~Overlays'
    BY <2>1 DEF Settling, Overlays
  <2> QED BY <1>0, <2>1, <2>2, KeptStays
<1>2. CASE \E plan \in Plans : UpdateStart(plan)
  BY <1>2, Shapes, <1>0 DEF Kept, Anchor, Overlays, Quiet, Control, Calling, Located, Repairing,
    Granting, Finishing, MutLabels, CompLabels, Locals, LiveRecords, SameClaim, SameLease,
    UpdateStart, Call, NoLoc, Clean, osVars, leaseVars
<1>3. CASE \E how \in {"restore", "drop"} : RestoreStart(how)
  BY <1>3, Shapes, <1>0 DEF Kept, Anchor, Overlays, Quiet, Control, Calling, Located, Repairing,
    Granting, Finishing, MutLabels, CompLabels, Locals, LiveRecords, SameClaim, SameLease,
    RestoreStart, Call, NoLoc, Clean, osVars
<1>4. CASE \E how \in {"abandon", "drop", "discard"} : AbandonStart(how)
  BY <1>4, Shapes, <1>0 DEF Kept, Anchor, Overlays, Quiet, Control, Calling, Located, Repairing,
    Granting, Finishing, MutLabels, CompLabels, Locals, LiveRecords, SameClaim, SameLease,
    AbandonStart, Call, NoLoc, Clean, osVars
<1>5. CASE RecoverScan
  BY <1>5, Shapes, <1>0 DEF Kept, Anchor, Overlays, Quiet, Control, Calling, Located, Repairing,
    Granting, Finishing, MutLabels, CompLabels, Locals, LiveRecords, SameClaim, SameLease,
    RecoverScan, osVars, leaseVars
<1>6. CASE RecoverNow
  BY <1>6, Shapes, <1>0 DEF Kept, Anchor, Overlays, Quiet, Control, Calling, Located, Repairing,
    Granting, Finishing, MutLabels, CompLabels, Locals, LiveRecords, SameClaim, SameLease,
    RecoverNow, Call, RecoverBegins, NoLoc, Clean, osVars, leaseVars
<1> QED BY <1>1, <1>2, <1>3, <1>4, <1>5, <1>6 DEF Calls

LEMMA EnvironmentKept ==
    TypeOK /\ Control /\ Own /\ Journaled /\ OneClaim /\ ~ScanBeforeLock /\ Hosted /\ Seen /\
    Intent /\ Ident /\ Undo /\ Kept /\ Environment => Kept'
<1> SUFFICES ASSUME TypeOK, Hosted, Kept, Environment PROVE Kept'
  OBVIOUS
<1>0. Quiet
  BY EnvironmentQuiet
<1>1. CASE ~Ours' /\ UNCHANGED <<phase, pc, op>>
  BY <1>0, <1>1, KeptForeign DEF Kept, Quiet
<1>2. CASE Died
  BY <1>0, <1>2 DEF Died, Kept, Quiet, Ours, Anchor, Overlays, TypeOK
<1> QED BY <1>1, <1>2, EnvironmentFrame

LEMMA ReconcileStartKept ==
    TypeOK /\ Control /\ Own /\ Journaled /\ OneClaim /\ ~ScanBeforeLock /\ Hosted /\ Seen /\
    Intent /\ Ident /\ Undo /\ Kept /\ ReconcileStart => Kept'
<1> SUFFICES ASSUME TypeOK, Hosted, Kept, ReconcileStart PROVE Kept'
  OBVIOUS
<1>0. Quiet
  BY ReconcileStartQuiet
<1>1. /\ pc = "idle" /\ op' = "reconcile" /\ phase = "active" /\ UNCHANGED <<journal, phase, live>>
      /\ pc' \in {"rv.start", "rc.forget"}
      /\ pc' = "rc.forget" => ResourceStatus(native, live.rec.inc) # "Same"
  BY DEF ReconcileStart, leaseVars
<1>2. Ours => Anchor(live.rec)
  BY <1>1 DEF Kept
<1>3. pc' \in Settling => ~Ours
  BY <1>1, <1>2, NotSame DEF Settling
<1>4. ~Overlays'
  BY <1>1 DEF Overlays
<1> QED BY <1>0, <1>1, <1>2, <1>3, <1>4, KeptStays

LEMMA InitKept == Init => Kept
BY DEF Init, Kept, Ours, Overlays

-----------------------------------------------------------------------------
(***************************************************************************)
(* The inductive invariant and the theorem.                                *)
(***************************************************************************)
SafetyInv == Hosted /\ Routed /\ Seen /\ Intent /\ Ident /\ Undo /\ Kept

LEMMA InitSafety == Init => SafetyInv
BY InitHosted, InitSeen, InitIntent, InitIdent, InitUndo, InitKept DEF SafetyInv

LEMMA SafetyStep ==
    ASSUME TypeOK, StoreInv, SafetyInv, ~ScanBeforeLock, [Next]_vars PROVE SafetyInv'
<1> USE DEF StoreInv, SafetyInv
<1>0. Hosted' /\ Routed' /\ Seen'
  BY HostedStep, SeenStep
<1>1. CASE UNCHANGED vars
  <2>1. UNCHANGED <<native, author, base, harm, journal, phase, active, live, pc, op, loc>>
    BY <1>1 DEF vars, osVars, leaseVars
  <2>2. Ours' = Ours /\ Now' = Now
    BY <2>1 DEF Ours, Now
  <2>3. Intent'
    BY <2>1 DEF Intent, Planned, Targeted, Mutates
  <2>4. Ident'
    BY <2>1, <2>2 DEF Ident, Leased, Granting, Named
  <2>5. Undo'
    BY <2>1, <2>2 DEF Undo, UpdateOwns, Rolling, Reverts, Back, Named
  <2>6. Kept'
    BY <2>1, <2>2 DEF Kept, Anchor, Overlays
  <2> QED BY <1>0, <2>3, <2>4, <2>5, <2>6
<1>2. CASE Mutating
  BY <1>2, <1>0, MutatingIntent, MutatingIdent, MutatingUndo, MutatingKept
<1>3. CASE Compensating
  BY <1>3, <1>0, CompensatingIntent, CompensatingIdent, CompensatingUndo, CompensatingKept
<1>4. CASE Resolving
  BY <1>4, <1>0, ResolvingIntent, ResolvingIdent, ResolvingUndo, ResolvingKept
<1>5. CASE Leasing
  BY <1>5, <1>0, LeasingIntent, LeasingIdent, LeasingUndo, LeasingKept
<1>6. CASE Reconciling
  BY <1>6, <1>0, ReconcilingIntent, ReconcilingIdent, ReconcilingUndo, ReconcilingKept
<1>7. CASE Recovering
  BY <1>7, <1>0, RecoveringIntent, RecoveringIdent, RecoveringUndo, RecoveringKept
<1>8. CASE Calls
  BY <1>8, <1>0, CallsIntent, CallsIdent, CallsUndo, CallsKept
<1>9. CASE Environment
  BY <1>9, <1>0, EnvironmentIntent, EnvironmentIdent, EnvironmentUndo, EnvironmentKept
<1>10. CASE ReconcileStart
  BY <1>10, <1>0, ReconcileStartIntent, ReconcileStartIdent, ReconcileStartUndo,
    ReconcileStartKept
<1> QED BY <1>1, <1>2, <1>3, <1>4, <1>5, <1>6, <1>7, <1>8, <1>9, <1>10 DEF Next, Step

THEOREM SafetyInvariant == ASSUME ~ScanBeforeLock PROVE Spec => []SafetyInv
<1>1. TypeOK /\ StoreInv /\ SafetyInv /\ [Next]_vars => SafetyInv'
  BY SafetyStep
<1> QED BY <1>1, InitSafety, EngineTypeCorrect, StoreInvariant, PTL DEF Spec

(***************************************************************************)
(* Recoverable: whatever apply, update, restore, abandon, reconciliation   *)
(* and recovery do, whichever native or journal call fails, and wherever   *)
(* the process dies, a state of ours that nobody abandoned is anchored: a  *)
(* durable record of the same incarnation names the state to give back.    *)
(***************************************************************************)
THEOREM AlwaysRecoverable == ASSUME ~ScanBeforeLock PROVE Spec => []Recoverable
<1>1. SafetyInv => Recoverable
  <2> SUFFICES ASSUME SafetyInv, author = "us", harm = "none"
               PROVE  \E r \in journal : r.inc = native.inc /\ r.before.dns = base
    BY DEF Recoverable
  <2>1. Ours
    BY DEF Ours
  <2>2. journal # {} /\ \A r \in journal : Anchor(r)
    BY <2>1 DEF SafetyInv, Kept
  <2> QED BY <2>2 DEF Anchor
<1> QED BY <1>1, SafetyInvariant, PTL
=============================================================================
