-------------------------- MODULE EngineStoreProofs --------------------------
(***************************************************************************)
(* The journal and the lease of Engine, for any plans, foreign states,     *)
(* bounds, policy and backend capabilities: the journal holds at most one  *)
(* claim on the resource and mirrors the lease between calls.              *)
(***************************************************************************)
EXTENDS EngineProofs

-----------------------------------------------------------------------------
(***************************************************************************)
(* Labels and values.                                                      *)
(***************************************************************************)
MutLabels == {"mut.bind", "mut.cas", "mut.check", "mut.recheck", "mut.write",
              "mut.status", "mut.readback", "mut.verify"}

CompLabels == {"comp.status", "comp.read", "comp.bind", "comp.cas", "comp.check",
               "comp.recheck", "comp.write", "comp.reread", "comp.verify"}

\* resolve_live of a verified mutation.
Finishing == {"rv.start", "rv.read", "rv.status", "rv.write"}

LEMMA NoLiveFields ==
    /\ NoLive.rec = NoRecord /\ NoLive.st = "Unmutated" /\ NoLive.repair = FALSE
    /\ NoLive.proof = None /\ NoLive.ev = None /\ NoLive.tgt = None /\ NoLive.resume = NoRecord
BY DEF NoLive, LiveAs

LEMMA NoLocFields ==
    /\ NoLoc.ret = "none" /\ NoLoc.then = "start" /\ NoLoc.res = "none" /\ NoLoc.rec = NoRecord
    /\ NoLoc.cur = None /\ NoLoc.exp = None /\ NoLoc.ev = None /\ NoLoc.tgt = None /\ NoLoc.id = None
BY DEF NoLoc

LEMMA Shapes == TypeOK => loc \in Locals /\ live \in LiveRecords
BY DEF TypeOK

\* What the hand-overs between steps do to the local variables.
LEMMA Handovers ==
    ASSUME TypeOK, NEW x
    PROVE  /\ Rejected =>
                 /\ pc' = "residue" /\ op' = op /\ loc'.res = "Unchanged"
                 /\ loc'.inc = loc.inc /\ loc'.plan = loc.plan /\ loc'.cur = loc.cur
                 /\ loc'.exp = loc.exp /\ loc'.ev = loc.ev /\ loc'.tgt = loc.tgt
                 /\ loc'.id = loc.id /\ loc'.rec = loc.rec /\ loc'.ret = loc.ret
                 /\ loc'.then = loc.then
           /\ Rollback(x) =>
                 /\ pc' = "comp.status" /\ op' = op
                 /\ loc'.ev = x /\ loc'.tgt = loc.exp /\ loc'.ret = "residue"
                 /\ loc'.inc = loc.inc /\ loc'.plan = loc.plan /\ loc'.cur = loc.cur
                 /\ loc'.exp = loc.exp /\ loc'.id = loc.id /\ loc'.rec = loc.rec
                 /\ loc'.res = loc.res /\ loc'.then = loc.then
           /\ CompOk(x) =>
                 /\ pc' = CASE loc.ret = "residue" -> "residue"
                            [] loc.ret = "resolve" -> "rv.resume"
                            [] loc.ret = "restore" -> "rs.remove"
                            [] OTHER               -> "rec.remove"
                 /\ op' = op /\ loc'.id = x /\ loc'.res = "Restored"
                 /\ loc'.inc = loc.inc /\ loc'.plan = loc.plan /\ loc'.cur = loc.cur
                 /\ loc'.exp = loc.exp /\ loc'.ev = loc.ev /\ loc'.tgt = loc.tgt
                 /\ loc'.rec = loc.rec /\ loc'.ret = loc.ret /\ loc'.then = loc.then
           /\ CompErr =>
                 /\ pc' = CASE loc.ret = "residue" -> "residue"
                            [] loc.ret = "resolve" -> "rv.retain"
                            [] loc.ret = "restore" -> "rs.retain"
                            [] OTHER               -> "rec.retain"
                 /\ op' = op /\ loc'.res = "Pending"
                 /\ loc'.inc = loc.inc /\ loc'.plan = loc.plan /\ loc'.cur = loc.cur
                 /\ loc'.exp = loc.exp /\ loc'.ev = loc.ev /\ loc'.tgt = loc.tgt
                 /\ loc'.id = loc.id /\ loc'.rec = loc.rec /\ loc'.ret = loc.ret
                 /\ loc'.then = loc.then
BY Shapes DEF Locals, Rejected, Rollback, CompOk, CompErr, Goto

-----------------------------------------------------------------------------
(***************************************************************************)
(* Effects: the steps that build a record or a live record, field by       *)
(* field.                                                                  *)
(***************************************************************************)
SameLease(a, b) == a.lease = b.lease /\ a.inc = b.inc

SameClaim(a, b) == SameLease(a, b) /\ a.before = b.before

\* r is q with another phase and another applied state.
Variant(r, q, p, x) ==
    r \in Records /\ SameClaim(r, q) /\ r.desired = q.desired /\ r.phase = p /\ r.applied = x

\* A journal write that was reported as done, one that was reported as failed.
Wrote(r) == journal' = Published(journal, r)

WroteOrNot(r) == journal' \in PublishedOrNot(journal, r)

PlainLive(l) == l.proof = None /\ l.ev = None /\ l.tgt = None /\ l.resume = NoRecord

LEMMA ResumedFields ==
    ASSUME NEW r \in Records, NEW x \in Snapshots
    PROVE  /\ Resumed(r, x) \in Records /\ SameClaim(Resumed(r, x), r)
           /\ Resumed(r, x).desired = r.desired
           /\ r.phase = "Prepared" => Resumed(r, x) = r
           /\ r.phase = "Applied" =>
                 /\ Resumed(r, x).applied = x
                 /\ Resumed(r, x).phase = IF x = None THEN "Prepared" ELSE "Applied"
BY RecordTypes DEF Resumed, Records, SameClaim, SameLease

LEMMA PersistLiveEffect ==
    ASSUME NEW c, NEW ok \in BOOLEAN, PersistLive(c, ok)
    PROVE  /\ live'.rec = c /\ PlainLive(live')
           /\ live'.st = IF c.phase = "Applied" THEN "Committed" ELSE "Unmutated"
           /\ \/ ok /\ Wrote(c) /\ live'.repair = FALSE
              \/ ~ok /\ WroteOrNot(c) /\ live'.repair = TRUE
BY DEF PersistLive, JournalWrite, LiveAs, Wrote, WroteOrNot, PlainLive

LEMMA RetainEffect ==
    ASSUME TypeOK, RvRetain \/ RsRetain
    PROVE  /\ live'.rec \in Records /\ SameClaim(live'.rec, live.rec)
           /\ live'.rec.desired = live.resume.desired
           /\ live'.rec.phase = "Prepared" /\ live'.rec.applied = loc.ev
           /\ live'.st = "Compensating" /\ live'.proof = None
           /\ live'.ev = loc.ev /\ live'.tgt = loc.tgt /\ live'.resume = live.resume
           /\ \/ Wrote(live'.rec) /\ live'.repair = FALSE
              \/ WroteOrNot(live'.rec) /\ live'.repair = TRUE
<1> DEFINE r == [live.rec EXCEPT !.phase = "Prepared", !.applied = loc.ev, !.desired = live.resume.desired]
<1>1. r \in Records /\ live.rec \in Records
  BY FieldTypes, RecordFields, RecordTypes
<1>2. SameClaim(r, live.rec) /\ r.desired = live.resume.desired /\ r.phase = "Prepared" /\ r.applied = loc.ev
  BY <1>1 DEF Records, SameClaim, SameLease
<1>3. PICK ok \in BOOLEAN : JournalWrite(r, ok) /\ live' = LiveCompensating(r, loc.ev, loc.tgt, live.resume, ~ok)
  BY DEF RvRetain, RsRetain, RetainCompensation
<1> HIDE DEF r
<1>4. /\ live'.rec = r /\ live'.st = "Compensating" /\ live'.proof = None
      /\ live'.ev = loc.ev /\ live'.tgt = loc.tgt /\ live'.resume = live.resume /\ live'.repair = ~ok
  BY <1>3 DEF LiveCompensating, LiveAs
<1>5. \/ Wrote(r) /\ live'.repair = FALSE
      \/ WroteOrNot(r) /\ live'.repair = TRUE
  BY <1>3, <1>4 DEF JournalWrite, Wrote, WroteOrNot
<1> QED BY <1>1, <1>2, <1>4, <1>5

LEMMA UpResidueEffect ==
    ASSUME TypeOK, UpResidue
    PROVE  \/ /\ loc.res = "Pending"
              /\ live'.rec \in Records /\ SameClaim(live'.rec, live.rec)
              /\ live'.rec.desired = loc.rec.desired
              /\ live'.rec.phase = "Prepared" /\ live'.rec.applied = loc.ev
              /\ live'.st = "Compensating" /\ live'.proof = None
              /\ live'.ev = loc.ev /\ live'.tgt = loc.tgt /\ live'.resume = loc.rec
              /\ \/ Wrote(live'.rec) /\ live'.repair = FALSE
                 \/ WroteOrNot(live'.rec) /\ live'.repair = TRUE
           \/ /\ \/ loc.res = "Restored" /\ live'.rec = Resumed(loc.rec, loc.id)
                 \/ loc.res = "Unchanged" /\ live'.rec = loc.rec
              /\ PlainLive(live')
              /\ live'.st = IF live'.rec.phase = "Applied" THEN "Committed" ELSE "Unmutated"
              /\ \/ Wrote(live'.rec) /\ live'.repair = FALSE
                 \/ WroteOrNot(live'.rec) /\ live'.repair = TRUE
<1>1. PICK ok \in BOOLEAN :
          \/ loc.res = "Pending"   /\ RetainCompensation(loc.ev, loc.tgt, loc.rec, ok)
          \/ loc.res = "Restored"  /\ PersistLive(Resumed(loc.rec, loc.id), ok)
          \/ loc.res = "Unchanged" /\ PersistLive(loc.rec, ok)
  BY DEF UpResidue
<1>2. CASE loc.res = "Pending" /\ RetainCompensation(loc.ev, loc.tgt, loc.rec, ok)
  <2> DEFINE r == [live.rec EXCEPT !.phase = "Prepared", !.applied = loc.ev,
                                   !.desired = loc.rec.desired]
  <2>1. r \in Records /\ live.rec \in Records
    BY FieldTypes, RecordFields, RecordTypes
  <2>2. /\ SameClaim(r, live.rec) /\ r.desired = loc.rec.desired
        /\ r.phase = "Prepared" /\ r.applied = loc.ev
    BY <2>1 DEF Records, SameClaim, SameLease
  <2>3. JournalWrite(r, ok) /\ live' = LiveCompensating(r, loc.ev, loc.tgt, loc.rec, ~ok)
    BY <1>2 DEF RetainCompensation
  <2> HIDE DEF r
  <2>4. /\ live'.rec = r /\ live'.st = "Compensating" /\ live'.proof = None
        /\ live'.ev = loc.ev /\ live'.tgt = loc.tgt /\ live'.resume = loc.rec /\ live'.repair = ~ok
    BY <2>3 DEF LiveCompensating, LiveAs
  <2>5. \/ Wrote(r) /\ live'.repair = FALSE
        \/ WroteOrNot(r) /\ live'.repair = TRUE
    BY <2>3, <2>4 DEF JournalWrite, Wrote, WroteOrNot
  <2> QED BY <1>2, <2>1, <2>2, <2>4, <2>5
<1>3. CASE loc.res = "Restored" /\ PersistLive(Resumed(loc.rec, loc.id), ok)
  BY <1>3, PersistLiveEffect
<1>4. CASE loc.res = "Unchanged" /\ PersistLive(loc.rec, ok)
  BY <1>4, PersistLiveEffect
<1> QED BY <1>1, <1>2, <1>3, <1>4

LEMMA RvWriteEffect ==
    ASSUME TypeOK, RvWrite
    PROVE  \E r \in Records :
              /\ Variant(r, live.rec, "Applied", live.proof) /\ loc' = loc
              /\ \/ /\ Wrote(r) /\ live'.rec = r /\ live'.st = "Committed"
                    /\ live'.repair = FALSE /\ PlainLive(live') /\ ResolveOk
                 \/ WroteOrNot(r) /\ live' = live /\ ResolveErr
<1> DEFINE r == [live.rec EXCEPT !.phase = "Applied", !.applied = live.proof]
<1>1. r \in Records /\ live.rec \in Records
  BY FieldTypes, RecordTypes
<1>2. Variant(r, live.rec, "Applied", live.proof)
  BY <1>1 DEF Records, Variant, SameClaim, SameLease
<1>3. \/ JournalWrite(r, TRUE) /\ live' = LiveAs(r, "Committed", FALSE) /\ ResolveOk
      \/ JournalWrite(r, FALSE) /\ UNCHANGED live /\ ResolveErr
  BY DEF RvWrite
<1> HIDE DEF r
<1>4. CASE JournalWrite(r, TRUE) /\ live' = LiveAs(r, "Committed", FALSE) /\ ResolveOk
  BY <1>1, <1>2, <1>4 DEF RvWrite, Stay, JournalWrite, Wrote, LiveAs, PlainLive
<1>5. CASE JournalWrite(r, FALSE) /\ UNCHANGED live /\ ResolveErr
  BY <1>1, <1>2, <1>5 DEF RvWrite, Stay, JournalWrite, WroteOrNot
<1> QED BY <1>3, <1>4, <1>5

LEMMA RvResumeEffect ==
    ASSUME TypeOK, RvResume
    PROVE  \E r \in Records :
              /\ r = Resumed(live.resume, loc.id) /\ loc' = loc
              /\ live'.rec = r /\ PlainLive(live')
              /\ live'.st = IF r.phase = "Applied" THEN "Committed" ELSE "Unmutated"
              /\ \/ Wrote(r) /\ live'.repair = FALSE /\ ResolveOk
                 \/ WroteOrNot(r) /\ live'.repair = TRUE /\ ResolveErr
<1> DEFINE r == Resumed(live.resume, loc.id)
<1>1. r \in Records
  BY FieldTypes, RecordTypes
<1>2. loc' = loc /\ ((PersistLive(r, TRUE) /\ ResolveOk) \/ (PersistLive(r, FALSE) /\ ResolveErr))
  BY DEF RvResume, Stay
<1> HIDE DEF r
<1>3. CASE PersistLive(r, TRUE) /\ ResolveOk
  BY <1>1, <1>2, <1>3, PersistLiveEffect DEF r
<1>4. CASE PersistLive(r, FALSE) /\ ResolveErr
  BY <1>1, <1>2, <1>4, PersistLiveEffect DEF r
<1> QED BY <1>2, <1>3, <1>4

LEMMA ApObserveEffect ==
    ASSUME TypeOK, ApObserve
    PROVE  \/ Finish
           \/ /\ native.up /\ pc' = "ap.persist" /\ op' = op
              /\ loc'.rec \in Records /\ loc'.rec.inc = native.inc /\ loc'.rec.before = Now
              /\ loc'.rec.lease = nextLease /\ loc'.rec.desired = loc.plan
              /\ \/ /\ MatchesDesired(native.dns, loc.plan)
                    /\ loc'.rec.phase = "Applied" /\ loc'.rec.applied = Now
                 \/ loc'.rec.phase = "Prepared" /\ loc'.rec.applied = None
              /\ loc'.inc = native.inc /\ loc'.exp = Now
              /\ loc'.plan = loc.plan /\ loc'.cur = loc.cur /\ loc'.ev = loc.ev
              /\ loc'.tgt = loc.tgt /\ loc'.id = loc.id /\ loc'.res = loc.res
              /\ loc'.ret = loc.ret /\ loc'.then = loc.then
<1>1. NewRecord(loc.plan) \in Records /\ NewRecord(loc.plan).inc = native.inc
      /\ NewRecord(loc.plan).before = Now /\ NewRecord(loc.plan).lease = nextLease
      /\ NewRecord(loc.plan).desired = loc.plan
      /\ \/ /\ MatchesDesired(native.dns, loc.plan)
            /\ NewRecord(loc.plan).phase = "Applied" /\ NewRecord(loc.plan).applied = Now
         \/ NewRecord(loc.plan).phase = "Prepared" /\ NewRecord(loc.plan).applied = None
  BY FieldTypes, NoneType DEF NewRecord, Records, Phases, TypeOK
<1>2. CASE native.up /\ Goto("ap.persist")
           /\ loc' = [loc EXCEPT !.rec = NewRecord(loc.plan), !.inc = native.inc, !.exp = Now]
  <2>1. loc'.rec = NewRecord(loc.plan) /\ loc'.inc = native.inc /\ loc'.exp = Now
        /\ loc'.plan = loc.plan
        /\ loc'.cur = loc.cur
        /\ loc'.ev = loc.ev
        /\ loc'.tgt = loc.tgt
        /\ loc'.id = loc.id
        /\ loc'.res = loc.res /\ loc'.ret = loc.ret /\ loc'.then = loc.then
    BY <1>2, Shapes DEF Locals
  <2> QED BY <1>1, <1>2, <2>1 DEF Goto
<1> QED BY <1>2 DEF ApObserve

LEMMA UpPrepareEffect ==
    ASSUME TypeOK, UpPrepare
    PROVE  \E r \in Records :
              /\ SameClaim(r, live.rec) /\ r.desired = loc.plan
              /\ r.phase = "Prepared" /\ r.applied = live.rec.applied
              /\ loc' = loc /\ op' = op
              /\ live'.rec = r /\ live'.repair = FALSE /\ PlainLive(live')
              /\ \/ Wrote(r) /\ live'.st = "Prepared" /\ pc' = "mut.bind"
                 \/ WroteOrNot(r) /\ live'.st = "Unmutated" /\ pc' = "up.unprepare"
<1> DEFINE r == [live.rec EXCEPT !.desired = loc.plan, !.phase = "Prepared"]
<1>1. r \in Records /\ live.rec \in Records
  BY FieldTypes, RecordTypes, NoneType
<1>2. SameClaim(r, live.rec) /\ r.desired = loc.plan /\ r.phase = "Prepared"
      /\ r.applied = live.rec.applied
  BY <1>1 DEF Records, SameClaim, SameLease
<1>3. \/ JournalWrite(r, TRUE) /\ live' = LiveAs(r, "Prepared", FALSE) /\ Goto("mut.bind")
      \/ JournalWrite(r, FALSE) /\ live' = LiveAs(r, "Unmutated", FALSE) /\ Goto("up.unprepare")
  BY DEF UpPrepare
<1> HIDE DEF r
<1>4. CASE JournalWrite(r, TRUE) /\ live' = LiveAs(r, "Prepared", FALSE) /\ Goto("mut.bind")
  BY <1>1, <1>2, <1>4 DEF UpPrepare, Stay, Goto, JournalWrite, Wrote, LiveAs, PlainLive
<1>5. CASE JournalWrite(r, FALSE) /\ live' = LiveAs(r, "Unmutated", FALSE) /\ Goto("up.unprepare")
  BY <1>1, <1>2, <1>5 DEF UpPrepare, Stay, Goto, JournalWrite, WroteOrNot, LiveAs, PlainLive
<1> QED BY <1>3, <1>4, <1>5

LEMMA RsCompareEffect ==
    ASSUME TypeOK, RsCompare
    PROVE  /\ op' = op
           /\ \/ pc' = "rs.fail" /\ loc' = loc /\ live' = live
              \/ /\ Applied # None /\ OwnsCurrent(Applied, Now) /\ pc' = "comp.status"
                 /\ loc'.ev = Applied /\ loc'.tgt = live.rec.before /\ loc'.ret = "restore"
                 /\ loc'.inc = loc.inc /\ loc'.plan = loc.plan /\ loc'.cur = loc.cur
                 /\ loc'.exp = loc.exp /\ loc'.id = loc.id /\ loc'.rec = loc.rec
                 /\ loc'.res = loc.res /\ loc'.then = loc.then
                 /\ live'.rec = live.rec /\ live'.st = "Compensating" /\ live'.repair = FALSE
                 /\ live'.proof = None /\ live'.ev = Applied /\ live'.tgt = live.rec.before
                 /\ Variant(live'.resume, live.rec, "Prepared", None)
<1> DEFINE q == [live.rec EXCEPT !.phase = "Prepared", !.applied = None]
<1>1. q \in Records /\ live.rec \in Records
  BY FieldTypes, RecordTypes, NoneType
<1>2. Variant(q, live.rec, "Prepared", None)
  BY <1>1 DEF Records, Variant, SameClaim, SameLease
<1>3. CASE Applied # None /\ OwnsCurrent(Applied, Now)
  <2>1. /\ Goto("comp.status")
        /\ loc' = [loc EXCEPT !.ev = Applied, !.tgt = live.rec.before, !.ret = "restore"]
        /\ live' = LiveCompensating(live.rec, Applied, live.rec.before, q, FALSE)
    BY <1>3 DEF RsCompare
  <2> HIDE DEF q
  <2>2. /\ live'.rec = live.rec /\ live'.st = "Compensating" /\ live'.repair = FALSE
        /\ live'.proof = None /\ live'.ev = Applied /\ live'.tgt = live.rec.before
        /\ live'.resume = q
    BY <2>1 DEF LiveCompensating, LiveAs
  <2>3. /\ loc'.ev = Applied /\ loc'.tgt = live.rec.before /\ loc'.ret = "restore"
        /\ loc'.inc = loc.inc /\ loc'.plan = loc.plan /\ loc'.cur = loc.cur
        /\ loc'.exp = loc.exp /\ loc'.id = loc.id /\ loc'.rec = loc.rec /\ loc'.res = loc.res
        /\ loc'.then = loc.then
    BY <2>1, Shapes DEF Locals
  <2> QED BY <1>2, <1>3, <2>1, <2>2, <2>3 DEF Goto
<1>4. CASE ~(Applied # None /\ OwnsCurrent(Applied, Now))
  BY <1>4 DEF RsCompare, Goto, Stay
<1> QED BY <1>3, <1>4

LEMMA RcSecondEffect ==
    ASSUME TypeOK, RcSecond
    PROVE  \/ Finish
           \/ ~native.up /\ pc' = "rc.forget" /\ op' = op /\ loc' = loc
           \/ /\ native.up /\ Equivalent(loc.cur, Now) /\ pc' = "rc.prepare" /\ op' = op
              /\ loc'.rec.before \in OverlayBefore /\ loc'.rec \in Records
              /\ SameLease(loc'.rec, live.rec) /\ loc'.rec.desired = live.rec.desired
              /\ loc'.rec.phase = "Prepared" /\ loc'.rec.applied = None /\ loc'.exp = Now
              /\ loc'.inc = loc.inc /\ loc'.plan = loc.plan /\ loc'.cur = loc.cur
              /\ loc'.ev = loc.ev /\ loc'.tgt = loc.tgt /\ loc'.id = loc.id
              /\ loc'.res = loc.res /\ loc'.ret = loc.ret /\ loc'.then = loc.then
<1>1. ASSUME NEW before \in OverlayBefore,
             loc' = [loc EXCEPT !.exp = Now,
                        !.rec = [live.rec EXCEPT !.before = before, !.phase = "Prepared",
                                                 !.applied = None]]
      PROVE  /\ loc'.rec.before = before /\ loc'.rec \in Records
             /\ SameLease(loc'.rec, live.rec) /\ loc'.rec.desired = live.rec.desired
             /\ loc'.rec.phase = "Prepared" /\ loc'.rec.applied = None /\ loc'.exp = Now
             /\ loc'.inc = loc.inc /\ loc'.plan = loc.plan /\ loc'.cur = loc.cur
             /\ loc'.ev = loc.ev /\ loc'.tgt = loc.tgt /\ loc'.id = loc.id
             /\ loc'.res = loc.res /\ loc'.ret = loc.ret /\ loc'.then = loc.then
  <2> DEFINE r == [live.rec EXCEPT !.before = before, !.phase = "Prepared", !.applied = None]
  <2>1. before \in Snapshots /\ live.rec \in Records
    BY FieldTypes, RecordFields DEF OverlayBefore
  <2>2. /\ r.before = before /\ r \in Records /\ SameLease(r, live.rec)
        /\ r.desired = live.rec.desired /\ r.phase = "Prepared" /\ r.applied = None
    BY <2>1, NoneType DEF Records, Phases, SameLease
  <2> HIDE DEF r
  <2>3. loc' = [loc EXCEPT !.exp = Now, !.rec = r]
    BY <1>1 DEF r
  <2>4. /\ loc'.rec = r /\ loc'.exp = Now
        /\ loc'.inc = loc.inc /\ loc'.plan = loc.plan /\ loc'.cur = loc.cur
        /\ loc'.ev = loc.ev /\ loc'.tgt = loc.tgt /\ loc'.id = loc.id /\ loc'.res = loc.res
        /\ loc'.ret = loc.ret /\ loc'.then = loc.then
    BY <2>3, Shapes DEF Locals
  <2> QED BY <2>2, <2>4
<1> QED BY <1>1 DEF RcSecond, Goto, Stay

\* The local variables of an operation that starts over record r.
LEMMA RecoverBeginsEffect ==
    ASSUME NEW r, RecoverBegins(r)
    PROVE  /\ op' = "recover" /\ pc' = "rec.status" /\ loc'.rec = r /\ loc'.inc = r.inc
           /\ loc'.ret = "none" /\ loc'.then = "start" /\ loc'.res = "none"
           /\ loc'.cur = None /\ loc'.exp = None /\ loc'.ev = None /\ loc'.tgt = None /\ loc'.id = None
BY DEF RecoverBegins, NoLoc

LEMMA ApplyStartEffect ==
    ASSUME NEW plan \in Plans, ApplyStart(plan)
    PROVE  /\ op' = "apply" /\ loc'.plan = plan
           /\ loc'.ret = "none" /\ loc'.then = "start" /\ loc'.res = "none"
           /\ loc'.cur = None /\ loc'.exp = None /\ loc'.ev = None /\ loc'.tgt = None /\ loc'.id = None
           /\ \/ journal = {} /\ pc' = "ap.observe" /\ loc'.rec = NoRecord
              \/ \E r \in journal : pc' = "rec.status" /\ loc'.rec = r /\ loc'.inc = r.inc
<1>1. CASE journal = {} /\ pc' = "ap.observe" /\ loc' = [NoLoc EXCEPT !.plan = plan]
  BY <1>1 DEF ApplyStart, NoLoc
<1>2. ASSUME NEW r \in journal, pc' = "rec.status",
             loc' = [NoLoc EXCEPT !.plan = plan, !.rec = r, !.inc = r.inc]
      PROVE  /\ loc'.plan = plan /\ loc'.rec = r /\ loc'.inc = r.inc
             /\ loc'.ret = "none" /\ loc'.then = "start" /\ loc'.res = "none"
             /\ loc'.cur = None /\ loc'.exp = None /\ loc'.ev = None /\ loc'.tgt = None /\ loc'.id = None
  BY <1>2 DEF NoLoc
<1> QED BY <1>1, <1>2 DEF ApplyStart

\* The resource keeps its incarnation under a write of ours.
LEMMA OsWriteFrame ==
    ASSUME TypeOK, NEW s, OsWrite(s)
    PROVE  native'.inc = native.inc /\ native'.up = native.up /\ native'.dns = s
BY DEF TypeOK, Resources, OsWrite, Written

\* What mutate_and_verify leaves alone, and where it hands over.
MutatingKeeps ==
    /\ pc \in MutLabels /\ op' = op /\ UNCHANGED <<journal, phase, active, scan, nextLease>>
    /\ loc'.rec = loc.rec /\ loc'.inc = loc.inc /\ loc'.exp = loc.exp /\ loc'.plan = loc.plan
    /\ native'.inc = native.inc /\ native'.up = native.up
    /\ \/ /\ live' = live /\ loc'.then = loc.then
          /\ \/ pc' \in MutLabels \cup {"residue"}
             \/ pc' = "comp.status" /\ loc'.ret = "residue"
       \/ /\ pc' = "rv.start" /\ loc'.then = "commit"
          /\ live'.st = "Verified" /\ live'.repair = FALSE
          /\ live'.rec = IF op = "apply" THEN loc.rec ELSE live.rec

LEMMA MutatingFrame == TypeOK /\ Mutating => MutatingKeeps
<1> SUFFICES ASSUME TypeOK, Mutating PROVE MutatingKeeps
  OBVIOUS
<1>1. CASE MutBind
  BY <1>1, Shapes, Handovers, OsWriteFrame DEF MutatingKeeps, Locals, osVars, leaseVars, bounds,
    NativeUnchanged, MutLabels, MutBind, Stay, Goto
<1>2. CASE MutCas
  BY <1>2, Shapes, Handovers, OsWriteFrame DEF MutatingKeeps, Locals, osVars, leaseVars, bounds,
    NativeUnchanged, MutLabels, MutCas, Goto, Snap
<1>3. CASE MutCheck
  BY <1>3, Shapes, Handovers, OsWriteFrame DEF MutatingKeeps, Locals, osVars, leaseVars, bounds,
    NativeUnchanged, MutLabels, MutCheck, Goto, Stay
<1>4. CASE MutRecheck
  BY <1>4, Shapes, Handovers, OsWriteFrame DEF MutatingKeeps, Locals, osVars, leaseVars, bounds,
    NativeUnchanged, MutLabels, MutRecheck, Goto, Stay
<1>5. CASE MutWrite
  BY <1>5, Shapes, Handovers, OsWriteFrame DEF MutatingKeeps, Locals, osVars, leaseVars, bounds,
    NativeUnchanged, MutLabels, MutWrite, Goto
<1>6. CASE MutStatus
  BY <1>6, Shapes, Handovers, OsWriteFrame DEF MutatingKeeps, Locals, osVars, leaseVars, bounds,
    NativeUnchanged, MutLabels, MutStatus, Goto, Stay
<1>7. CASE MutReadback
  BY <1>7, Shapes, Handovers, OsWriteFrame DEF MutatingKeeps, Locals, osVars, leaseVars, bounds,
    NativeUnchanged, MutLabels, MutReadback, Goto
<1>8. CASE MutVerify
  <2>1. CASE /\ live' = LiveVerified(IF op = "apply" THEN loc.rec ELSE live.rec, Proof)
             /\ Goto("rv.start") /\ loc' = [loc EXCEPT !.then = "commit"]
    <3>1. /\ live'.rec = (IF op = "apply" THEN loc.rec ELSE live.rec) /\ live'.st = "Verified"
          /\ live'.repair = FALSE
      BY <2>1 DEF LiveVerified, LiveAs
    <3>2. /\ loc'.rec = loc.rec /\ loc'.inc = loc.inc /\ loc'.exp = loc.exp /\ loc'.plan = loc.plan
          /\ loc'.then = "commit"
      BY <2>1, Shapes DEF Locals
    <3> QED BY <1>8, <2>1, <3>1, <3>2 DEF MutVerify, Goto, MutatingKeeps, osVars, bounds, MutLabels
  <2>2. CASE Rollback(loc.ev) /\ UNCHANGED live
    BY <1>8, <2>2, Handovers DEF MutVerify, MutatingKeeps, osVars, bounds, MutLabels
  <2> QED BY <1>8, <2>1, <2>2 DEF MutVerify
<1> QED BY <1>1, <1>2, <1>3, <1>4, <1>5, <1>6, <1>7, <1>8 DEF Mutating

\* The same of compensate.
CompensatingKeeps ==
    /\ pc \in CompLabels /\ op' = op
    /\ UNCHANGED <<journal, phase, active, live, scan, nextLease>>
    /\ loc'.rec = loc.rec /\ loc'.inc = loc.inc /\ loc'.exp = loc.exp /\ loc'.plan = loc.plan
    /\ loc'.tgt = loc.tgt /\ loc'.ret = loc.ret /\ loc'.then = loc.then
    /\ native'.inc = native.inc /\ native'.up = native.up
    /\ \/ pc' \in CompLabels
       \/ loc.ret = "residue" /\ pc' = "residue"
       \/ loc.ret = "resolve" /\ pc' \in {"rv.resume", "rv.retain"}
       \/ loc.ret = "restore" /\ pc' \in {"rs.remove", "rs.retain"}
       \/ loc.ret \in {"none", "recover"} /\ pc' \in {"rec.remove", "rec.retain"}

LEMMA CompensatingFrame == TypeOK /\ Compensating => CompensatingKeeps
<1> SUFFICES ASSUME TypeOK, Compensating PROVE CompensatingKeeps
  OBVIOUS
<1>1. CASE CompStatus
  BY <1>1, Shapes, Handovers, OsWriteFrame DEF CompensatingKeeps, CompLabels, Locals, osVars,
    leaseVars, bounds, NativeUnchanged, MutLabels, CompStatus, Goto, Stay
<1>2. CASE CompRead
  BY <1>2, Shapes, Handovers, OsWriteFrame DEF CompensatingKeeps, CompLabels, Locals, osVars,
    leaseVars, bounds, NativeUnchanged, MutLabels, CompRead, Goto, Stay
<1>3. CASE CompBind
  BY <1>3, Shapes, Handovers, OsWriteFrame DEF CompensatingKeeps, CompLabels, Locals, osVars,
    leaseVars, bounds, NativeUnchanged, MutLabels, CompBind, Stay, Goto
<1>4. CASE CompCas
  BY <1>4, Shapes, Handovers, OsWriteFrame DEF CompensatingKeeps, CompLabels, Locals, osVars,
    leaseVars, bounds, NativeUnchanged, MutLabels, CompCas, Goto, Snap
<1>5. CASE CompCheck
  BY <1>5, Shapes, Handovers, OsWriteFrame DEF CompensatingKeeps, CompLabels, Locals, osVars,
    leaseVars, bounds, NativeUnchanged, MutLabels, CompCheck, Goto, Stay
<1>6. CASE CompRecheck
  BY <1>6, Shapes, Handovers, OsWriteFrame DEF CompensatingKeeps, CompLabels, Locals, osVars,
    leaseVars, bounds, NativeUnchanged, MutLabels, CompRecheck, Goto, Stay
<1>7. CASE CompWrite
  BY <1>7, Shapes, Handovers, OsWriteFrame DEF CompensatingKeeps, CompLabels, Locals, osVars,
    leaseVars, bounds, NativeUnchanged, MutLabels, CompWrite, Goto
<1>8. CASE CompReread
  BY <1>8, Shapes, Handovers, OsWriteFrame DEF CompensatingKeeps, CompLabels, Locals, osVars,
    leaseVars, bounds, NativeUnchanged, MutLabels, CompReread, Goto
<1>9. CASE CompVerify
  BY <1>9, Shapes, Handovers, OsWriteFrame DEF CompensatingKeeps, CompLabels, Locals, osVars,
    leaseVars, bounds, NativeUnchanged, MutLabels, CompVerify
<1> QED BY <1>1, <1>2, <1>3, <1>4, <1>5, <1>6, <1>7, <1>8, <1>9 DEF Compensating

-----------------------------------------------------------------------------
(***************************************************************************)
(* Control: which operation may be at which label, and the lease it holds. *)
(***************************************************************************)
\* apply has a live record before it has a lease.
Granting == op = "apply" /\ pc \in Finishing \cup {"done"}

Calling ==
    /\ pc = "idle" <=> op = "none"
    /\ op \in {"apply", "recover", "discard"} => phase = "none"
    /\ op \in {"update", "reconcile"} => active
    /\ op \in {"restore", "drop", "abandon"} => phase # "none" /\ ~active
    /\ active => phase = "active"
    /\ phase = "none" => live = NoLive \/ Granting
    /\ op = "apply" /\ pc \in Finishing => live.st = "Verified" /\ ~live.repair /\ loc.then = "commit"
    /\ op = "apply" /\ pc = "done" => live.st \in {"Committed", "Verified"} /\ ~live.repair

Located ==
    /\ pc \in {"ap.observe", "ap.persist", "ap.unpersist", "ap.remove"} => op = "apply"
    /\ pc \in MutLabels \cup {"residue", "done"} => op \in {"apply", "update", "reconcile"}
    /\ pc \in CompLabels =>
          \/ loc.ret = "residue" /\ op \in {"apply", "update", "reconcile"}
          \/ loc.ret = "resolve" /\ op \in {"update", "reconcile", "restore", "drop"}
             /\ live.st = "Compensating"
          \/ loc.ret = "restore" /\ op \in {"restore", "drop"} /\ live.st = "Compensating"
          \/ loc.ret = "recover" /\ op \in {"apply", "recover"}
    /\ pc \in Finishing => op \in {"apply", "update", "reconcile", "restore", "drop"}
    /\ pc \in {"rv.read", "rv.status", "rv.write"} => live.st = "Verified"
    /\ pc \in {"rv.resume", "rv.retain"} =>
          op \in {"update", "reconcile", "restore", "drop"} /\ live.st = "Compensating"
    /\ pc \in {"up.read", "up.prepare", "up.unprepare"} => op = "update"
    /\ pc \in {"rs.status", "rs.read", "rs.reread", "rs.remove", "rs.retain", "rs.fail"} =>
          op \in {"restore", "drop"}
    /\ pc = "rs.retain" => live.st = "Compensating"
    /\ pc = "ab.remove" => op \in {"abandon", "drop", "discard"}
    /\ pc \in {"rc.forget", "rc.first", "rc.second", "rc.prepare", "rc.unprepare"} =>
          op = "reconcile"
    /\ pc \in {"rec.status", "rec.capture", "rec.remove", "rec.retain"} =>
          op \in {"apply", "recover"}
    /\ loc.then = "commit" => op \in {"apply", "update", "reconcile"}

Repairing ==
    live.repair => pc \in {"idle", "done", "rv.start", "rs.status", "rs.read", "rs.remove",
                           "rs.fail", "ab.remove", "rc.forget"}

Control == Calling /\ Located /\ Repairing

LEMMA MutatingControl == TypeOK /\ Control /\ Mutating => Control'
BY MutatingFrame DEF MutatingKeeps, Control, Calling, Located, Repairing, Granting, Finishing,
  MutLabels, CompLabels

LEMMA CompensatingControl == TypeOK /\ Control /\ Compensating => Control'
BY CompensatingFrame DEF CompensatingKeeps, Control, Calling, Located, Repairing, Granting,
  Finishing, MutLabels, CompLabels

LEMMA ResolvingControl == TypeOK /\ Control /\ Resolving => Control'
<1> SUFFICES ASSUME TypeOK, Control, Resolving PROVE Control'
  OBVIOUS
<1>1. CASE RvRepair
  BY <1>1, Shapes DEF Control, Calling, Located, Repairing, Granting, Finishing, MutLabels,
    CompLabels, Locals, LiveRecords, RvRepair, Stay, JournalWrite, Clean, Fault, Goto,
    ResolveErr
<1>2. CASE RvStart
  BY <1>2, Shapes, ZenonT(60) DEF Control, Calling, Located, Repairing, Granting, Finishing,
    MutLabels, CompLabels, Locals, LiveRecords, RvStart, Clean, ResolveOk, Goto, Stay, ResolveErr,
    leaseVars
<1>3. CASE RvRead
  BY <1>3, Shapes DEF Control, Calling, Located, Repairing, Granting, Finishing, MutLabels,
    CompLabels, Locals, LiveRecords, RvRead, Clean, Goto, FailsIf, Fault, ResolveErr, Stay,
    leaseVars
<1>4. CASE RvStatus
  BY <1>4, Shapes DEF Control, Calling, Located, Repairing, Granting, Finishing, MutLabels,
    CompLabels, Locals, LiveRecords, RvStatus, Stay, Clean, Goto, FailsIf, Fault, ResolveErr,
    leaseVars
<1>5. CASE RvWrite
  BY <1>5, Shapes DEF Control, Calling, Located, Repairing, Granting, Finishing, MutLabels,
    CompLabels, Locals, LiveRecords, RvWrite, Stay, JournalWrite, Clean, Fault, LiveAs,
    ResolveOk, Goto, ResolveErr
<1>6. CASE RvResume
  BY <1>6, Shapes DEF Control, Calling, Located, Repairing, Granting, Finishing, MutLabels,
    CompLabels, Locals, LiveRecords, RvResume, Stay, PersistLive, JournalWrite, Clean, Fault,
    LiveAs, ResolveOk, Goto, ResolveErr
<1>7. CASE RvRetain
  BY <1>7, Shapes DEF Control, Calling, Located, Repairing, Granting, Finishing, MutLabels,
    CompLabels, Locals, LiveRecords, RvRetain, Stay, ResolveErr, Goto, RetainCompensation,
    JournalWrite, Clean, Fault, LiveCompensating, LiveAs
<1> QED BY <1>1, <1>2, <1>3, <1>4, <1>5, <1>6, <1>7 DEF Resolving

LEMMA LeasingControl == TypeOK /\ Control /\ Leasing => Control'
<1> SUFFICES ASSUME TypeOK, Control, Leasing PROVE Control'
  OBVIOUS
<1>1. CASE ApObserve
  BY <1>1, Shapes DEF Control, Calling, Located, Repairing, Granting, Finishing, MutLabels,
    CompLabels, Locals, LiveRecords, ApObserve, Clean, Goto, FailsIf, Fault, Finish, NoLoc,
    leaseVars
<1>2. CASE ApPersist
  BY <1>2, Shapes DEF Control, Calling, Located, Repairing, Granting, Finishing, MutLabels,
    CompLabels, Locals, LiveRecords, ApPersist, Stay, JournalWrite, Clean, Fault, LiveAs, Goto
<1>3. CASE ApUnpersist
  BY <1>3, Shapes DEF Control, Calling, Located, Repairing, Granting, Finishing, MutLabels,
    CompLabels, Locals, LiveRecords, ApUnpersist, Finish, NoLoc, JournalRemove, Clean, Fault,
    leaseVars
<1>4. CASE ApResidue
  BY <1>4, Shapes DEF Control, Calling, Located, Repairing, Granting, Finishing, MutLabels,
    CompLabels, Locals, LiveRecords, ApResidue, Clean, Goto, Stay, FailsIf, Fault, Finish,
    NoLoc, leaseVars
<1>5. CASE ApRemove
  BY <1>5, Shapes DEF Control, Calling, Located, Repairing, Granting, Finishing, MutLabels,
    CompLabels, Locals, LiveRecords, ApRemove, Finish, NoLoc, JournalRemove, Clean, Fault,
    leaseVars
<1>6. CASE ApRetain
  BY <1>6, Shapes DEF Control, Calling, Located, Repairing, Granting, Finishing, MutLabels,
    CompLabels, Locals, LiveRecords, ApRetain, Finish, NoLoc, JournalWrite, Clean, Fault,
    leaseVars
<1>7. CASE Done
  BY <1>7, Shapes DEF Control, Calling, Located, Repairing, Granting, Finishing, MutLabels,
    CompLabels, Locals, LiveRecords, Done, Clean, Finish, NoLoc
<1>8. CASE UpRead
  BY <1>8, Shapes DEF Control, Calling, Located, Repairing, Granting, Finishing, MutLabels,
    CompLabels, Locals, LiveRecords, UpRead, Clean, Goto, Finish, NoLoc, FailsIf, Fault,
    leaseVars
<1>9. CASE UpPrepare
  BY <1>9, Shapes DEF Control, Calling, Located, Repairing, Granting, Finishing, MutLabels,
    CompLabels, Locals, LiveRecords, UpPrepare, Stay, JournalWrite, Clean, Fault, LiveAs, Goto
<1>10. CASE UpUnprepare
  BY <1>10, Shapes DEF Control, Calling, Located, Repairing, Granting, Finishing, MutLabels,
    CompLabels, Locals, LiveRecords, UpUnprepare, Finish, NoLoc, PersistLive, JournalWrite,
    Clean, Fault, LiveAs
<1>11. CASE UpResidue
  BY <1>11, Shapes DEF Control, Calling, Located, Repairing, Granting, Finishing, MutLabels,
    CompLabels, Locals, LiveRecords, UpResidue, Finish, NoLoc, RetainCompensation, JournalWrite,
    Clean, Fault, LiveCompensating, LiveAs, PersistLive
<1>12. CASE RsStatus
  BY <1>12, Shapes DEF Control, Calling, Located, Repairing, Granting, Finishing, MutLabels,
    CompLabels, Locals, LiveRecords, RsStatus, Stay, Clean, Goto, Fault, leaseVars
<1>13. CASE RsRead
  <2>1. /\ op' = op
        /\ \/ pc' \in {"rs.fail", "rs.remove"} /\ loc' = loc /\ live' = live
           \/ pc' = "rv.start" /\ loc'.then = loc.then /\ live' = live
           \/ /\ pc' = "comp.status" /\ loc'.then = loc.then /\ loc'.ret = "restore"
              /\ live'.st = "Compensating" /\ live'.repair = FALSE
    BY <1>13, Shapes DEF RsRead, RsCompare, Goto, Stay, Locals, LiveCompensating, LiveAs
  <2> QED BY <1>13, <2>1 DEF RsRead,
        Control, Calling, Located, Repairing, Granting, Finishing, MutLabels, CompLabels
<1>14. CASE RsReread
  BY <1>14, Shapes, ZenonT(60) DEF Control, Calling, Located, Repairing, Granting, Finishing,
    MutLabels, CompLabels, Locals, LiveRecords, RsReread, FailsIf, Clean, Fault, Goto, Stay, RsCompare,
    LiveCompensating, LiveAs
<1>15. CASE RsRetain
  BY <1>15, Shapes DEF Control, Calling, Located, Repairing, Granting, Finishing, MutLabels,
    CompLabels, Locals, LiveRecords, RsRetain, Stay, Goto, RetainCompensation, JournalWrite,
    Clean, Fault, LiveCompensating, LiveAs
<1>16. CASE RsRemove
  BY <1>16, Shapes DEF Control, Calling, Located, Repairing, Granting, Finishing, MutLabels,
    CompLabels, Locals, LiveRecords, RsRemove, JournalRemove, Clean, Fault, LeaseEnds, NoLive,
    LiveAs, Finish, NoLoc, Goto, Stay
<1>17. CASE RsFail
  BY <1>17, Shapes DEF Control, Calling, Located, Repairing, Granting, Finishing, MutLabels,
    CompLabels, Locals, LiveRecords, RsFail, Finish, NoLoc, Clean, LeaseEnds, NoLive, LiveAs
<1>18. CASE AbRemove
  BY <1>18, Shapes DEF Control, Calling, Located, Repairing, Granting, Finishing, MutLabels,
    CompLabels, Locals, LiveRecords, AbRemove, Finish, NoLoc, JournalRemove, Clean, Fault,
    LeaseEnds, NoLive, LiveAs
<1> QED BY <1>1, <1>2, <1>3, <1>4, <1>5, <1>6, <1>7, <1>8, <1>9, <1>10, <1>11, <1>12, <1>13, <1>14,
  <1>15, <1>16, <1>17, <1>18 DEF Leasing

LEMMA ReconcilingControl == TypeOK /\ Control /\ Reconciling => Control'
<1> SUFFICES ASSUME TypeOK, Control, Reconciling PROVE Control'
  OBVIOUS
<1>1. CASE RcForget
  BY <1>1, Shapes DEF Control, Calling, Located, Repairing, Granting, Finishing, MutLabels,
    CompLabels, Locals, LiveRecords, RcForget, Finish, NoLoc, JournalRemove, Clean, Fault
<1>2. CASE RcFirst
  BY <1>2, Shapes DEF Control, Calling, Located, Repairing, Granting, Finishing, MutLabels,
    CompLabels, Locals, LiveRecords, RcFirst, Clean, Goto, Stay, Fault, Finish, NoLoc, leaseVars
<1>3. CASE RcSecond
  <2>1. \/ pc' \in {"rc.forget", "rc.prepare"} /\ op' = op /\ loc'.then = loc.then
        \/ Finish
    BY <1>3, Shapes DEF RcSecond, Goto, Stay, Locals
  <2>2. NoLoc.then = "start"
    BY DEF NoLoc
  <2> QED BY <1>3, <2>1, <2>2 DEF RcSecond, Finish, leaseVars,
        Control, Calling, Located, Repairing, Granting, Finishing, MutLabels, CompLabels
<1>4. CASE RcPrepare
  BY <1>4, Shapes DEF Control, Calling, Located, Repairing, Granting, Finishing, MutLabels,
    CompLabels, Locals, LiveRecords, RcPrepare, Stay, JournalWrite, Clean, Fault, LiveAs, Goto
<1>5. CASE RcUnprepare
  BY <1>5, Shapes DEF Control, Calling, Located, Repairing, Granting, Finishing, MutLabels,
    CompLabels, Locals, LiveRecords, RcUnprepare, Finish, NoLoc, JournalWrite, Clean, Fault
<1>6. CASE RcResidue
  BY <1>6, Shapes DEF Control, Calling, Located, Repairing, Granting, Finishing, MutLabels,
    CompLabels, Locals, LiveRecords, RcResidue, Finish, NoLoc, Clean, LiveCompensating, LiveAs
<1> QED BY <1>1, <1>2, <1>3, <1>4, <1>5, <1>6 DEF Reconciling

LEMMA RecoveringControl == TypeOK /\ Control /\ Recovering => Control'
<1> SUFFICES ASSUME TypeOK, Control, Recovering PROVE Control'
  OBVIOUS
<1>1. CASE RecoverLock
  <2>1. live = NoLive \/ phase # "none"
    BY <1>1 DEF RecoverLock, Control, Calling, Granting, Finishing
  <2>2. CASE phase # "none"
    BY <1>1, <2>2 DEF
      Control, Calling, Located, Repairing, Granting, Finishing, MutLabels, CompLabels, Locals,
       LiveRecords, RecoverLock, Clean, RecoverBegins, NoLoc, leaseVars
  <2>3. CASE phase = "none"
    <3>1. PICK r \in scan : RecoverBegins(r)
      BY <1>1, <2>3 DEF RecoverLock
    <3>2. loc'.then = "start"
      BY <3>1 DEF RecoverBegins, NoLoc
    <3> QED BY <1>1, <2>1, <2>3, <3>1, <3>2, NoLiveFields DEF RecoverLock, RecoverBegins,
          leaseVars, Control, Calling, Located, Repairing, Granting, Finishing, MutLabels, CompLabels
  <2> QED BY <2>2, <2>3
<1>2. CASE RecStatus
  BY <1>2, Shapes DEF Control, Calling, Located, Repairing, Granting, Finishing, MutLabels,
    CompLabels, Locals, LiveRecords, RecStatus, Clean, Goto, Stay, Fault, Finish, NoLoc,
    leaseVars
<1>3. CASE RecCapture
  <2>1. \/ pc' = "rec.remove" /\ op' = op /\ loc' = loc
        \/ pc' = "comp.status" /\ op' = op /\ loc'.then = loc.then /\ loc'.ret = "recover"
        \/ Finish
    BY <1>3, Shapes DEF RecCapture, Goto, Stay, Locals
  <2>2. NoLoc.then = "start"
    BY DEF NoLoc
  <2> QED BY <1>3, <2>1, <2>2 DEF RecCapture, Finish, leaseVars,
        Control, Calling, Located, Repairing, Granting, Finishing, MutLabels, CompLabels
<1>4. CASE RecRemove
  BY <1>4, Shapes DEF Control, Calling, Located, Repairing, Granting, Finishing, MutLabels,
    CompLabels, Locals, LiveRecords, RecRemove, JournalRemove, Clean, Fault, Goto, NoLoc,
    Finish, leaseVars
<1>5. CASE RecRetain
  BY <1>5, Shapes DEF Control, Calling, Located, Repairing, Granting, Finishing, MutLabels,
    CompLabels, Locals, LiveRecords, RecRetain, Finish, NoLoc, JournalWrite, Clean, Fault,
    leaseVars
<1> QED BY <1>1, <1>2, <1>3, <1>4, <1>5 DEF Recovering

LEMMA CallsControl == TypeOK /\ Control /\ Calls => Control'
<1> SUFFICES ASSUME TypeOK, Control, Calls PROVE Control'
  OBVIOUS
<1>1. CASE \E plan \in Plans : ApplyStart(plan)
  <2>1. PICK plan \in Plans : ApplyStart(plan)
    BY <1>1
  <2>2. live = NoLive
    BY <2>1 DEF ApplyStart, Call, Control, Calling, Granting, Finishing
  <2>3. loc'.then = "start"
    BY <2>1 DEF ApplyStart, NoLoc
  <2> QED BY <2>1, <2>2, <2>3, NoLiveFields DEF ApplyStart, Call,
        leaseVars, Control, Calling, Located, Repairing, Granting, Finishing, MutLabels, CompLabels
<1>2. CASE \E plan \in Plans : UpdateStart(plan)
  BY <1>2, Shapes DEF Control, Calling, Located, Repairing, Granting, Finishing, MutLabels,
    CompLabels, Locals, LiveRecords, UpdateStart, Call, NoLoc, Clean, leaseVars
<1>3. CASE \E how \in {"restore", "drop"} : RestoreStart(how)
  BY <1>3, Shapes DEF Control, Calling, Located, Repairing, Granting, Finishing, MutLabels,
    CompLabels, Locals, LiveRecords, RestoreStart, Call, NoLoc, Clean
<1>4. CASE \E how \in {"abandon", "drop", "discard"} : AbandonStart(how)
  BY <1>4, Shapes DEF Control, Calling, Located, Repairing, Granting, Finishing, MutLabels,
    CompLabels, Locals, LiveRecords, AbandonStart, Call, NoLoc, Clean
<1>5. CASE RecoverScan
  BY <1>5, Shapes DEF Control, Calling, Located, Repairing, Granting, Finishing, MutLabels,
    CompLabels, Locals, LiveRecords, RecoverScan, leaseVars
<1>6. CASE RecoverNow
  <2>1. live = NoLive
    BY <1>6 DEF RecoverNow, Call, Control, Calling, Granting, Finishing
  <2>2. PICK r \in journal : RecoverBegins(r)
    BY <1>6 DEF RecoverNow
  <2>3. loc'.then = "start"
    BY <2>2 DEF RecoverBegins, NoLoc
  <2> QED BY <1>6, <2>1, <2>2, <2>3, NoLiveFields DEF RecoverNow, RecoverBegins, Call,
        leaseVars, Control, Calling, Located, Repairing, Granting, Finishing, MutLabels, CompLabels
<1> QED BY <1>1, <1>2, <1>3, <1>4, <1>5, <1>6 DEF Calls

LEMMA EnvironmentControl == TypeOK /\ Control /\ Environment => Control'
<1> SUFFICES ASSUME TypeOK, Control, Environment PROVE Control'
  OBVIOUS
<1>1. CASE \E s \in Foreign : ExternalChange(s)
  BY <1>1, Shapes DEF Control, Calling, Located, Repairing, Granting, Finishing, MutLabels,
    CompLabels, Locals, LiveRecords, ExternalChange, EnvUnchanged, leaseVars
<1>2. CASE \E s \in Foreign : ExternalReplacement(s)
  BY <1>2, Shapes DEF Control, Calling, Located, Repairing, Granting, Finishing, MutLabels,
    CompLabels, Locals, LiveRecords, ExternalReplacement, EnvUnchanged, leaseVars
<1>3. CASE ExternalRemoval
  BY <1>3, Shapes DEF Control, Calling, Located, Repairing, Granting, Finishing, MutLabels,
    CompLabels, Locals, LiveRecords, ExternalRemoval, EnvUnchanged, leaseVars
<1>4. CASE Crash
  BY <1>4, Shapes DEF Control, Calling, Located, Repairing, Granting, Finishing, MutLabels,
    CompLabels, Locals, LiveRecords, Crash, Fault, Finish, NoLoc, LeaseEnds, NoLive, LiveAs
<1> QED BY <1>1, <1>2, <1>3, <1>4 DEF Environment

LEMMA ReconcileStartControl == TypeOK /\ Control /\ ReconcileStart => Control'
<1> SUFFICES ASSUME TypeOK, Control, ReconcileStart PROVE Control'
  OBVIOUS
<1>1. CASE ReconcileStart
  BY <1>1, Shapes DEF Control, Calling, Located, Repairing, Granting, Finishing, MutLabels,
    CompLabels, Locals, LiveRecords, ReconcileStart, NoLoc, Clean, leaseVars
<1> QED BY <1>1

LEMMA InitControl == Init => Control
BY DEF Init, NoLive, LiveAs, NoLoc, Control, Calling, Located, Repairing, Granting, Finishing,
  MutLabels, CompLabels

-----------------------------------------------------------------------------
(***************************************************************************)
(* Records: how an operation's own record, the lease's record and the      *)
(* record a compensation resumes are related.                              *)
(***************************************************************************)

\* mutate_and_verify and the rollback that is part of it.
Mutates == pc \in MutLabels \cup {"residue"} \/ (pc \in CompLabels /\ loc.ret = "residue")

Recovers ==
    \/ pc \in {"rec.status", "rec.capture", "rec.remove", "rec.retain"}
    \/ pc \in CompLabels /\ loc.ret = "recover"

Own ==
    /\ Granting => SameClaim(live.rec, loc.rec)
    /\ op = "apply" /\ (Mutates \/ pc \in Finishing \cup {"ap.persist"}) => loc.inc = loc.rec.inc
    /\ op = "update" /\ (Mutates \/ pc \in {"up.prepare", "up.unprepare"}) =>
          SameClaim(loc.rec, live.rec)
    /\ op = "reconcile" /\ pc \in {"rc.prepare", "rc.unprepare"} =>
          SameLease(loc.rec, live.rec) /\ loc.rec.desired = live.rec.desired
    /\ op = "reconcile" /\ Mutates => loc.rec = live.rec
    /\ op \in {"update", "reconcile"} /\ Mutates => live.st = "Prepared"
    /\ live.st = "Compensating" =>
          SameClaim(live.resume, live.rec) /\ live.resume.desired = live.rec.desired
    /\ op \in {"update", "reconcile", "restore"} => loc.inc = live.rec.inc
    /\ op = "drop" /\ pc # "ab.remove" => loc.inc = live.rec.inc
    /\ Recovers => loc.inc = loc.rec.inc
    /\ op = "abandon" \/ (op = "drop" /\ pc = "ab.remove") => loc.rec = live.rec

LEMMA MutatingOwn == TypeOK /\ Control /\ Own /\ Mutating => Own'
BY MutatingFrame DEF MutatingKeeps, Own, SameLease, SameClaim, Mutates, Recovers, Control,
  Calling, Located, Repairing, Granting, Finishing, MutLabels, CompLabels

LEMMA CompensatingOwn == TypeOK /\ Control /\ Own /\ Compensating => Own'
BY CompensatingFrame DEF CompensatingKeeps, Own, SameLease, SameClaim, Mutates, Recovers,
  Control, Calling, Located, Repairing, Granting, Finishing, MutLabels, CompLabels

LEMMA ResolvingOwn == TypeOK /\ Control /\ Own /\ Resolving => Own'
<1> SUFFICES ASSUME TypeOK, Control, Own, Resolving PROVE Own'
  OBVIOUS
<1>1. CASE RvRepair
  BY <1>1, Shapes DEF Own, SameLease, SameClaim, Mutates, Recovers, Control, Calling, Located,
    Repairing, Granting, Finishing, MutLabels, CompLabels, Locals, LiveRecords, Records,
    RvRepair, Stay, JournalWrite, Clean, Fault, Goto, ResolveErr
<1>2. CASE RvStart
  BY <1>2, Shapes, ZenonT(60) DEF Own, SameLease, SameClaim, Mutates, Recovers, Control, Calling,
    Located, Repairing, Granting, Finishing, MutLabels, CompLabels, Locals, LiveRecords, Records,
    RvStart, Clean, ResolveOk, Goto, Stay, ResolveErr, leaseVars
<1>3. CASE RvRead
  BY <1>3, Shapes DEF Own, SameLease, SameClaim, Mutates, Recovers, Control, Calling, Located,
    Repairing, Granting, Finishing, MutLabels, CompLabels, Locals, LiveRecords, Records, RvRead,
    Clean, Goto, FailsIf, Fault, ResolveErr, Stay, leaseVars
<1>4. CASE RvStatus
  BY <1>4, Shapes DEF Own, SameLease, SameClaim, Mutates, Recovers, Control, Calling, Located,
    Repairing, Granting, Finishing, MutLabels, CompLabels, Locals, LiveRecords, Records,
    RvStatus, Stay, Clean, Goto, FailsIf, Fault, ResolveErr, leaseVars
<1>5. CASE RvWrite
  <2>1. /\ live'.st # "Compensating" \/ live' = live
        /\ SameClaim(live'.rec, live.rec) /\ live'.rec.desired = live.rec.desired
        /\ loc' = loc /\ (ResolveOk \/ ResolveErr)
    BY <1>5, RvWriteEffect DEF Variant, SameClaim, SameLease
  <2> QED BY <1>5, <2>1 DEF Own, SameLease, SameClaim, Mutates, Recovers, Control, Calling, Located,
    Repairing, Granting, Finishing, MutLabels, CompLabels, RvWrite, ResolveOk, ResolveErr, Goto
<1>6. CASE RvResume
  <2>1. /\ live'.st # "Compensating" /\ live'.rec = Resumed(live.resume, loc.id)
        /\ loc' = loc /\ (ResolveOk \/ ResolveErr)
    BY <1>6, RvResumeEffect
  <2>0. live.resume \in Records /\ loc.id \in Snapshots
    BY FieldTypes
  <2>2. SameClaim(live'.rec, live.resume) /\ live'.rec.desired = live.resume.desired
    BY <2>1, <2>0, ResumedFields
  <2> QED BY <1>6, <2>1, <2>2 DEF Own, SameLease, SameClaim, Mutates, Recovers, Control, Calling,
    Located, Repairing, Granting, Finishing, MutLabels, CompLabels, RvResume, ResolveOk,
    ResolveErr, Goto
<1>7. CASE RvRetain
  <2>1. /\ SameClaim(live'.rec, live.rec) /\ live'.rec.desired = live.resume.desired
        /\ live'.resume = live.resume /\ live'.st = "Compensating"
    BY <1>7, RetainEffect
  <2> QED BY <1>7, <2>1 DEF Own, SameLease, SameClaim, Mutates, Recovers, Control, Calling, Located,
    Repairing, Granting, Finishing, MutLabels, CompLabels, RvRetain, ResolveErr, Goto, Stay
<1> QED BY <1>1, <1>2, <1>3, <1>4, <1>5, <1>6, <1>7 DEF Resolving

LEMMA LeasingOwn == TypeOK /\ Control /\ Own /\ Leasing => Own'
<1> SUFFICES ASSUME TypeOK, Control, Own, Leasing PROVE Own'
  OBVIOUS
<1>1. CASE ApObserve
  BY <1>1, ApObserveEffect DEF Own, SameLease, SameClaim, Mutates, Recovers, Control, Calling,
    Located, Repairing, Granting, Finishing, MutLabels, CompLabels, Finish, ApObserve, leaseVars
<1>2. CASE ApPersist
  BY <1>2, Shapes DEF Own, SameLease, SameClaim, Mutates, Recovers, Control, Calling, Located,
    Repairing, Granting, Finishing, MutLabels, CompLabels, Locals, LiveRecords, Records,
    ApPersist, Stay, JournalWrite, Clean, Fault, LiveAs, Goto
<1>3. CASE ApUnpersist
  BY <1>3, Shapes DEF Own, SameLease, SameClaim, Mutates, Recovers, Control, Calling, Located,
    Repairing, Granting, Finishing, MutLabels, CompLabels, Locals, LiveRecords, Records,
    ApUnpersist, Finish, NoLoc, JournalRemove, Clean, Fault, leaseVars
<1>4. CASE ApResidue
  BY <1>4, Shapes DEF Own, SameLease, SameClaim, Mutates, Recovers, Control, Calling, Located,
    Repairing, Granting, Finishing, MutLabels, CompLabels, Locals, LiveRecords, Records,
    ApResidue, Clean, Goto, Stay, FailsIf, Fault, Finish, NoLoc, leaseVars
<1>5. CASE ApRemove
  BY <1>5, Shapes DEF Own, SameLease, SameClaim, Mutates, Recovers, Control, Calling, Located,
    Repairing, Granting, Finishing, MutLabels, CompLabels, Locals, LiveRecords, Records,
    ApRemove, Finish, NoLoc, JournalRemove, Clean, Fault, leaseVars
<1>6. CASE ApRetain
  BY <1>6, Shapes DEF Own, SameLease, SameClaim, Mutates, Recovers, Control, Calling, Located,
    Repairing, Granting, Finishing, MutLabels, CompLabels, Locals, LiveRecords, Records,
    ApRetain, Finish, NoLoc, JournalWrite, Clean, Fault, leaseVars
<1>7. CASE Done
  BY <1>7, Shapes DEF Own, SameLease, SameClaim, Mutates, Recovers, Control, Calling, Located,
    Repairing, Granting, Finishing, MutLabels, CompLabels, Locals, LiveRecords, Records, Done,
    Clean, Finish, NoLoc
<1>8. CASE UpRead
  BY <1>8, Shapes DEF Own, SameLease, SameClaim, Mutates, Recovers, Control, Calling, Located,
    Repairing, Granting, Finishing, MutLabels, CompLabels, Locals, LiveRecords, Records, UpRead,
    Clean, Goto, Finish, NoLoc, FailsIf, Fault, leaseVars
<1>9. CASE UpPrepare
  <2>1. /\ SameClaim(live'.rec, live.rec) /\ live'.st # "Compensating" /\ loc' = loc /\ op' = op
        /\ pc' = "up.unprepare" \/ (pc' = "mut.bind" /\ live'.st = "Prepared")
    BY <1>9, UpPrepareEffect
  <2> QED BY <1>9, <2>1 DEF Own, SameLease, SameClaim, Mutates, Recovers, Control, Calling, Located,
    Repairing, Granting, Finishing, MutLabels, CompLabels, UpPrepare
<1>10. CASE UpUnprepare
  BY <1>10, Shapes DEF Own, SameLease, SameClaim, Mutates, Recovers, Control, Calling, Located,
    Repairing, Granting, Finishing, MutLabels, CompLabels, Locals, LiveRecords, Records,
    UpUnprepare, Finish, NoLoc, PersistLive, JournalWrite, Clean, Fault, LiveAs
<1>11. CASE UpResidue
  <2>1. \/ /\ SameClaim(live'.rec, live.rec) /\ live'.rec.desired = loc.rec.desired
           /\ live'.resume = loc.rec
        \/ live'.st # "Compensating"
    BY <1>11, UpResidueEffect
  <2> QED BY <1>11, <2>1 DEF Own, SameLease, SameClaim, Mutates, Recovers, Control, Calling, Located,
    Repairing, Granting, Finishing, MutLabels, CompLabels, UpResidue, Finish
<1>12. CASE RsStatus
  BY <1>12, Shapes DEF Own, SameLease, SameClaim, Mutates, Recovers, Control, Calling, Located,
    Repairing, Granting, Finishing, MutLabels, CompLabels, Locals, LiveRecords, Records,
    RsStatus, Stay, Clean, Goto, Fault, leaseVars
<1>13. CASE RsRead
  <2>1. CASE RsCompare
    BY <1>13, <2>1, RsCompareEffect, ZenonT(60) DEF Own, SameLease, SameClaim, Mutates, Recovers,
      Control, Calling, Located, Repairing, Granting, Finishing, MutLabels, CompLabels, RsRead, Variant
  <2>2. CASE /\ UNCHANGED <<live, op>> /\ loc'.inc = loc.inc
           /\ pc' \in {"rs.fail", "rs.remove", "rv.start"}
    BY <1>13, <2>2 DEF Own, SameLease, SameClaim, Mutates, Recovers, Control, Calling, Located,
      Repairing, Granting, Finishing, MutLabels, CompLabels, RsRead
  <2> QED BY <1>13, <2>1, <2>2, Shapes DEF RsRead, Stay, Goto, Locals
<1>14. CASE RsReread
  <2>1. CASE RsCompare
    BY <1>14, <2>1, RsCompareEffect, ZenonT(60) DEF Own, SameLease, SameClaim, Mutates, Recovers,
      Control, Calling, Located, Repairing, Granting, Finishing, MutLabels, CompLabels, RsReread, Variant
  <2>2. CASE /\ UNCHANGED <<live, op>> /\ loc'.inc = loc.inc
           /\ pc' \in {"rs.fail", "rs.remove", "rv.start"}
    BY <1>14, <2>2 DEF Own, SameLease, SameClaim, Mutates, Recovers, Control, Calling, Located,
      Repairing, Granting, Finishing, MutLabels, CompLabels, RsReread
  <2> QED BY <1>14, <2>1, <2>2, Shapes DEF RsReread, Stay, Goto, Locals
<1>15. CASE RsRetain
  <2>1. /\ SameClaim(live'.rec, live.rec) /\ live'.rec.desired = live.resume.desired
        /\ live'.resume = live.resume /\ live'.st = "Compensating"
    BY <1>15, RetainEffect
  <2> QED BY <1>15, <2>1 DEF Own, SameLease, SameClaim, Mutates, Recovers, Control, Calling, Located,
    Repairing, Granting, Finishing, MutLabels, CompLabels, RsRetain, ResolveErr, Goto, Stay
<1>16. CASE RsRemove
  BY <1>16, Shapes DEF Own, SameLease, SameClaim, Mutates, Recovers, Control, Calling, Located,
    Repairing, Granting, Finishing, MutLabels, CompLabels, Locals, LiveRecords, Records,
    RsRemove, JournalRemove, Clean, Fault, LeaseEnds, NoLive, LiveAs, Finish, NoLoc, Goto, Stay
<1>17. CASE RsFail
  BY <1>17, Shapes DEF Own, SameLease, SameClaim, Mutates, Recovers, Control, Calling, Located,
    Repairing, Granting, Finishing, MutLabels, CompLabels, Locals, LiveRecords, Records, RsFail,
    Finish, NoLoc, Clean, LeaseEnds, NoLive, LiveAs
<1>18. CASE AbRemove
  BY <1>18, Shapes DEF Own, SameLease, SameClaim, Mutates, Recovers, Control, Calling, Located,
    Repairing, Granting, Finishing, MutLabels, CompLabels, Locals, LiveRecords, Records,
    AbRemove, Finish, NoLoc, JournalRemove, Clean, Fault, LeaseEnds, NoLive, LiveAs
<1> QED BY <1>1, <1>2, <1>3, <1>4, <1>5, <1>6, <1>7, <1>8, <1>9, <1>10, <1>11, <1>12, <1>13, <1>14,
  <1>15, <1>16, <1>17, <1>18 DEF Leasing

LEMMA ReconcilingOwn == TypeOK /\ Control /\ Own /\ Reconciling => Own'
<1> SUFFICES ASSUME TypeOK, Control, Own, Reconciling PROVE Own'
  OBVIOUS
<1>1. CASE RcForget
  BY <1>1, Shapes DEF Own, SameLease, SameClaim, Mutates, Recovers, Control, Calling, Located,
    Repairing, Granting, Finishing, MutLabels, CompLabels, Locals, LiveRecords, Records,
    RcForget, Finish, NoLoc, JournalRemove, Clean, Fault
<1>2. CASE RcFirst
  BY <1>2, Shapes DEF Own, SameLease, SameClaim, Mutates, Recovers, Control, Calling, Located,
    Repairing, Granting, Finishing, MutLabels, CompLabels, Locals, LiveRecords, Records,
    RcFirst, Clean, Goto, Stay, Fault, Finish, NoLoc, leaseVars
<1>3. CASE RcSecond
  BY <1>3, RcSecondEffect DEF Own, SameLease, SameClaim, Mutates, Recovers, Control, Calling,
    Located, Repairing, Granting, Finishing, MutLabels, CompLabels, RcSecond, Finish, leaseVars
<1>4. CASE RcPrepare
  BY <1>4, Shapes DEF Own, SameLease, SameClaim, Mutates, Recovers, Control, Calling, Located,
    Repairing, Granting, Finishing, MutLabels, CompLabels, Locals, LiveRecords, Records,
    RcPrepare, Stay, JournalWrite, Clean, Fault, LiveAs, Goto
<1>5. CASE RcUnprepare
  BY <1>5, Shapes DEF Own, SameLease, SameClaim, Mutates, Recovers, Control, Calling, Located,
    Repairing, Granting, Finishing, MutLabels, CompLabels, Locals, LiveRecords, Records,
    RcUnprepare, Finish, NoLoc, JournalWrite, Clean, Fault
<1>6. CASE RcResidue
  BY <1>6, Shapes DEF Own, SameLease, SameClaim, Mutates, Recovers, Control, Calling, Located,
    Repairing, Granting, Finishing, MutLabels, CompLabels, Locals, LiveRecords, Records,
    RcResidue, Finish, NoLoc, Clean, LiveCompensating, LiveAs
<1> QED BY <1>1, <1>2, <1>3, <1>4, <1>5, <1>6 DEF Reconciling

LEMMA RecoveringOwn == TypeOK /\ Control /\ Own /\ Recovering => Own'
<1> SUFFICES ASSUME TypeOK, Control, Own, Recovering PROVE Own'
  OBVIOUS
<1>1. CASE RecoverLock
  <2>1. CASE \E r \in scan : RecoverBegins(r)
    BY <1>1, <2>1, RecoverBeginsEffect DEF Own, SameLease, SameClaim, Mutates, Recovers,
      Control, Calling, Located, Repairing, Granting, Finishing, MutLabels, CompLabels,
      RecoverLock, leaseVars
  <2>2. CASE UNCHANGED <<pc, op, loc>>
    BY <1>1, <2>2 DEF Own, SameLease, SameClaim, Mutates, Recovers, Control, Calling, Located,
      Repairing, Granting, Finishing, MutLabels, CompLabels, RecoverLock, leaseVars
  <2> QED BY <1>1, <2>1, <2>2 DEF RecoverLock
<1>2. CASE RecStatus
  BY <1>2, Shapes DEF Own, SameLease, SameClaim, Mutates, Recovers, Control, Calling, Located,
    Repairing, Granting, Finishing, MutLabels, CompLabels, Locals, LiveRecords, Records,
    RecStatus, Clean, Goto, Stay, Fault, Finish, NoLoc, leaseVars
<1>3. CASE RecCapture
  BY <1>3, Shapes DEF Own, SameLease, SameClaim, Mutates, Recovers, Control, Calling, Located,
    Repairing, Granting, Finishing, MutLabels, CompLabels, Locals, LiveRecords, Records,
    RecCapture, Clean, Goto, Stay, FailsIf, Fault, Finish, NoLoc, leaseVars
<1>4. CASE RecRemove
  BY <1>4, Shapes DEF Own, SameLease, SameClaim, Mutates, Recovers, Control, Calling, Located,
    Repairing, Granting, Finishing, MutLabels, CompLabels, Locals, LiveRecords, Records,
    RecRemove, JournalRemove, Clean, Fault, Goto, NoLoc, Finish, leaseVars
<1>5. CASE RecRetain
  BY <1>5, Shapes DEF Own, SameLease, SameClaim, Mutates, Recovers, Control, Calling, Located,
    Repairing, Granting, Finishing, MutLabels, CompLabels, Locals, LiveRecords, Records,
    RecRetain, Finish, NoLoc, JournalWrite, Clean, Fault, leaseVars
<1> QED BY <1>1, <1>2, <1>3, <1>4, <1>5 DEF Recovering

LEMMA CallsOwn == TypeOK /\ Control /\ Own /\ Calls => Own'
<1> SUFFICES ASSUME TypeOK, Control, Own, Calls PROVE Own'
  OBVIOUS
<1>1. CASE \E plan \in Plans : ApplyStart(plan)
  <2>1. PICK plan \in Plans : ApplyStart(plan)
    BY <1>1
  <2>2. /\ op' = "apply" /\ (pc' = "ap.observe" \/ (pc' = "rec.status" /\ loc'.inc = loc'.rec.inc))
    BY <2>1, ApplyStartEffect
  <2>3. UNCHANGED live
    BY <2>1 DEF ApplyStart, leaseVars
  <2> QED BY <2>2, <2>3 DEF Own, SameLease, SameClaim, Mutates, Recovers, Control, Calling, Located,
    Repairing, Granting, Finishing, MutLabels, CompLabels
<1>2. CASE \E plan \in Plans : UpdateStart(plan)
  BY <1>2, Shapes DEF Own, SameLease, SameClaim, Mutates, Recovers, Control, Calling, Located,
    Repairing, Granting, Finishing, MutLabels, CompLabels, Locals, LiveRecords, Records,
    UpdateStart, Call, NoLoc, Clean, leaseVars
<1>3. CASE \E how \in {"restore", "drop"} : RestoreStart(how)
  BY <1>3, Shapes DEF Own, SameLease, SameClaim, Mutates, Recovers, Control, Calling, Located,
    Repairing, Granting, Finishing, MutLabels, CompLabels, Locals, LiveRecords, Records,
    RestoreStart, Call, NoLoc, Clean
<1>4. CASE \E how \in {"abandon", "drop", "discard"} : AbandonStart(how)
  BY <1>4, Shapes DEF Own, SameLease, SameClaim, Mutates, Recovers, Control, Calling, Located,
    Repairing, Granting, Finishing, MutLabels, CompLabels, Locals, LiveRecords, Records,
    AbandonStart, Call, NoLoc, Clean
<1>5. CASE RecoverScan
  BY <1>5, Shapes DEF Own, SameLease, SameClaim, Mutates, Recovers, Control, Calling, Located,
    Repairing, Granting, Finishing, MutLabels, CompLabels, Locals, LiveRecords, Records,
    RecoverScan, leaseVars
<1>6. CASE RecoverNow
  BY <1>6, Shapes DEF Own, SameLease, SameClaim, Mutates, Recovers, Control, Calling, Located,
    Repairing, Granting, Finishing, MutLabels, CompLabels, Locals, LiveRecords, Records,
    RecoverNow, Call, RecoverBegins, NoLoc, Clean, leaseVars
<1> QED BY <1>1, <1>2, <1>3, <1>4, <1>5, <1>6 DEF Calls

LEMMA EnvironmentOwn == TypeOK /\ Control /\ Own /\ Environment => Own'
<1> SUFFICES ASSUME TypeOK, Control, Own, Environment PROVE Own'
  OBVIOUS
<1>1. CASE \E s \in Foreign : ExternalChange(s)
  BY <1>1, Shapes DEF Own, SameLease, SameClaim, Mutates, Recovers, Control, Calling, Located,
    Repairing, Granting, Finishing, MutLabels, CompLabels, Locals, LiveRecords, Records,
    ExternalChange, EnvUnchanged, leaseVars
<1>2. CASE \E s \in Foreign : ExternalReplacement(s)
  BY <1>2, Shapes DEF Own, SameLease, SameClaim, Mutates, Recovers, Control, Calling, Located,
    Repairing, Granting, Finishing, MutLabels, CompLabels, Locals, LiveRecords, Records,
    ExternalReplacement, EnvUnchanged, leaseVars
<1>3. CASE ExternalRemoval
  BY <1>3, Shapes DEF Own, SameLease, SameClaim, Mutates, Recovers, Control, Calling, Located,
    Repairing, Granting, Finishing, MutLabels, CompLabels, Locals, LiveRecords, Records,
    ExternalRemoval, EnvUnchanged, leaseVars
<1>4. CASE Crash
  BY <1>4, Shapes DEF Own, SameLease, SameClaim, Mutates, Recovers, Control, Calling, Located,
    Repairing, Granting, Finishing, MutLabels, CompLabels, Locals, LiveRecords, Records, Crash,
    Fault, Finish, NoLoc, LeaseEnds, NoLive, LiveAs
<1> QED BY <1>1, <1>2, <1>3, <1>4 DEF Environment

LEMMA ReconcileStartOwn == TypeOK /\ Control /\ Own /\ ReconcileStart => Own'
<1> SUFFICES ASSUME TypeOK, Control, Own, ReconcileStart PROVE Own'
  OBVIOUS
<1>1. CASE ReconcileStart
  BY <1>1, Shapes DEF Own, SameLease, SameClaim, Mutates, Recovers, Control, Calling, Located,
    Repairing, Granting, Finishing, MutLabels, CompLabels, Locals, LiveRecords, Records,
    ReconcileStart, NoLoc, Clean, leaseVars
<1> QED BY <1>1

LEMMA InitOwn == Init => Own
BY DEF Init, NoLive, LiveAs, NoLoc, Own, SameLease, SameClaim, Mutates, Recovers, Control,
  Calling, Located, Repairing, Granting, Finishing, MutLabels, CompLabels

-----------------------------------------------------------------------------
(***************************************************************************)
(* The journal: whose claims it holds.                                     *)
(***************************************************************************)
Journaled ==
    /\ op = "apply" /\ pc \notin {"ap.observe", "ap.persist"} =>
          \A r \in journal : SameClaim(r, loc.rec)
    /\ pc \in {"ap.observe", "ap.persist"} => journal = {}
    /\ phase # "none" =>
          \A r \in journal :
             SameLease(r, live.rec) /\ (r.before = live.rec.before \/ live.repair \/ pc = "rc.unprepare")
    /\ op = "apply" /\ (Mutates \/ pc \in Finishing \cup {"done"}) => journal # {}
    /\ op = "apply" /\ Mutates => journal = {loc.rec}

\* A write or a removal over the claims of one lease leaves the old claims, the
\* new one or none.
LEMMA JournalOfOneLease ==
    ASSUME NEW r, \A x \in journal : x.lease = r.lease
    PROVE  /\ Wrote(r) => journal' = {r}
           /\ WroteOrNot(r) => journal' = journal \/ journal' = {r}
           /\ \A ok \in BOOLEAN : JournalRemove(r.lease, ok) => journal' = {} \/ (~ok /\ journal' = journal)
BY DEF Wrote, WroteOrNot, Published, PublishedOrNot, JournalRemove, Unlinked, UnlinkedOrNot

\* A step that rewrites the lease's record keeps its claim; the journal then
\* holds the new record, or still the old ones with a repair to do.
LEMMA LeaseRewrites ==
    ASSUME TypeOK, Control, Own, Journaled,
           RvResume \/ RvRetain \/ RsRetain \/ UpPrepare \/ UpUnprepare \/ UpResidue
    PROVE  /\ phase # "none" /\ ~live.repair /\ SameClaim(live'.rec, live.rec)
           /\ UNCHANGED <<native, phase, active, scan>>
           /\ \/ journal' = {live'.rec}
              \/ journal' = journal /\ (live'.repair = TRUE \/ pc' = "up.unprepare")
<1>1. phase # "none" /\ ~live.repair
  BY DEF Control, Calling, Located, Repairing, RvResume, RvRetain, RsRetain, UpPrepare,
    UpUnprepare, UpResidue
<1>2. UNCHANGED <<native, phase, active, scan>>
  BY DEF RvResume, RvRetain, RsRetain, UpPrepare, UpUnprepare, UpResidue, osVars
<1>3. ASSUME SameClaim(live'.rec, live.rec),
             \/ Wrote(live'.rec)
             \/ WroteOrNot(live'.rec) /\ (live'.repair = TRUE \/ pc' = "up.unprepare")
      PROVE  \/ journal' = {live'.rec}
             \/ journal' = journal /\ (live'.repair = TRUE \/ pc' = "up.unprepare")
  <2>1. \A x \in journal : x.lease = live'.rec.lease
    BY <1>1, <1>3 DEF Journaled, SameClaim, SameLease
  <2> QED BY <1>3, <2>1, JournalOfOneLease
<1>4. CASE RvResume
  <2>1. live.resume \in Records /\ loc.id \in Snapshots
    BY FieldTypes
  <2>2. SameClaim(live.resume, live.rec)
    BY <1>4 DEF Control, Located, Own, RvResume
  <2>3. SameClaim(Resumed(live.resume, loc.id), live.rec)
    BY <2>1, <2>2, ResumedFields DEF SameClaim, SameLease
  <2> QED BY <1>1, <1>2, <1>3, <1>4, <2>3, RvResumeEffect
<1>5. CASE RvRetain \/ RsRetain
  BY <1>1, <1>2, <1>3, <1>5, RetainEffect
<1>6. CASE UpPrepare
  BY <1>1, <1>2, <1>3, <1>6, UpPrepareEffect
<1>7. CASE UpUnprepare
  <2>1. PICK ok \in BOOLEAN : PersistLive(loc.rec, ok)
    BY <1>7 DEF UpUnprepare
  <2>2. SameClaim(loc.rec, live.rec)
    BY <1>7 DEF Control, Located, Own, UpUnprepare
  <2>3. /\ live'.rec = loc.rec
        /\ Wrote(live'.rec) \/ (WroteOrNot(live'.rec) /\ live'.repair = TRUE)
    BY <2>1, PersistLiveEffect
  <2> QED BY <1>1, <1>2, <1>3, <2>2, <2>3
<1>8. CASE UpResidue
  <2>1. loc.rec \in Records /\ loc.id \in Snapshots
    BY FieldTypes
  <2>2. SameClaim(loc.rec, live.rec)
    BY <1>8 DEF Control, Located, Own, Mutates, UpResidue
  <2>3. SameClaim(Resumed(loc.rec, loc.id), live.rec)
    BY <2>1, <2>2, ResumedFields DEF SameClaim, SameLease
  <2> QED BY <1>1, <1>2, <1>3, <1>8, <2>2, <2>3, UpResidueEffect
<1> QED BY <1>4, <1>5, <1>6, <1>7, <1>8

LEMMA MutatingJournaled == TypeOK /\ Control /\ Own /\ Journaled /\ Mutating => Journaled'
BY MutatingFrame DEF MutatingKeeps, Journaled, Own, SameLease, SameClaim, Mutates, Recovers,
  Control, Calling, Located, Repairing, Granting, Finishing, MutLabels, CompLabels

LEMMA CompensatingJournaled == TypeOK /\ Control /\ Own /\ Journaled /\ Compensating => Journaled'
BY CompensatingFrame DEF CompensatingKeeps, Journaled, Own, SameLease, SameClaim, Mutates,
  Recovers, Control, Calling, Located, Repairing, Granting, Finishing, MutLabels, CompLabels

LEMMA ResolvingJournaled == TypeOK /\ Control /\ Own /\ Journaled /\ Resolving => Journaled'
<1> SUFFICES ASSUME TypeOK, Control, Own, Journaled, Resolving PROVE Journaled'
  OBVIOUS
<1>1. CASE RvRepair
  BY <1>1, Shapes DEF Journaled, Own, SameLease, SameClaim, Mutates, Recovers, Control, Calling,
    Located, Repairing, Granting, Finishing, MutLabels, CompLabels, Locals, LiveRecords,
    Records, RvRepair, Stay, JournalWrite, Clean, Published, Fault, PublishedOrNot, Goto,
    ResolveErr
<1>2. CASE RvStart
  BY <1>2, Shapes DEF Journaled, Own, SameLease, SameClaim, Mutates, Recovers, Control, Calling,
    Located, Repairing, Granting, Finishing, MutLabels, CompLabels, Locals, LiveRecords,
    Records, RvStart, Clean, ResolveOk, Goto, Stay, ResolveErr, leaseVars
<1>3. CASE RvRead
  BY <1>3, Shapes DEF Journaled, Own, SameLease, SameClaim, Mutates, Recovers, Control, Calling,
    Located, Repairing, Granting, Finishing, MutLabels, CompLabels, Locals, LiveRecords,
    Records, RvRead, Clean, Goto, FailsIf, Fault, ResolveErr, Stay, leaseVars
<1>4. CASE RvStatus
  BY <1>4, Shapes DEF Journaled, Own, SameLease, SameClaim, Mutates, Recovers, Control, Calling,
    Located, Repairing, Granting, Finishing, MutLabels, CompLabels, Locals, LiveRecords,
    Records, RvStatus, Stay, Clean, Goto, FailsIf, Fault, ResolveErr, leaseVars
<1>5. CASE RvWrite
  <2>1. PICK r \in Records :
          /\ Variant(r, live.rec, "Applied", live.proof) /\ loc' = loc
          /\ \/ Wrote(r) /\ live'.rec = r /\ ResolveOk
             \/ WroteOrNot(r) /\ live' = live /\ ResolveErr
    BY <1>5, RvWriteEffect
  <2>2. \A x \in journal : SameClaim(x, r)
    BY <1>5, <2>1 DEF Journaled, Own, SameLease, SameClaim, Mutates, Recovers, Control, Calling,
      Located, Repairing, Granting, Finishing, MutLabels, CompLabels, RvWrite, Variant
  <2>3. journal' = {r} \/ (journal' = journal /\ live' = live)
    BY <2>1, <2>2, JournalOfOneLease DEF SameClaim, SameLease
  <2> QED BY <1>5, <2>1, <2>2, <2>3 DEF Journaled, Own, SameLease, SameClaim, Mutates, Recovers,
    Control, Calling, Located, Repairing, Granting, Finishing, MutLabels, CompLabels, RvWrite,
    Variant, ResolveOk, ResolveErr, Goto
<1>6. CASE RvResume
  BY <1>6, LeaseRewrites DEF Journaled, Own, SameLease, SameClaim, Mutates, Recovers, Control,
    Calling, Located, Repairing, Granting, Finishing, MutLabels, CompLabels, RvResume,
    ResolveOk, ResolveErr, Goto
<1>7. CASE RvRetain
  BY <1>7, LeaseRewrites DEF Journaled, Own, SameLease, SameClaim, Mutates, Recovers, Control,
    Calling, Located, Repairing, Granting, Finishing, MutLabels, CompLabels, RvRetain,
    ResolveErr, Goto
<1> QED BY <1>1, <1>2, <1>3, <1>4, <1>5, <1>6, <1>7 DEF Resolving

LEMMA LeasingJournaled == TypeOK /\ Control /\ Own /\ Journaled /\ Leasing => Journaled'
<1> SUFFICES ASSUME TypeOK, Control, Own, Journaled, Leasing PROVE Journaled'
  OBVIOUS
<1>1. CASE ApObserve
  BY <1>1, Shapes DEF Journaled, Own, SameLease, SameClaim, Mutates, Recovers, Control, Calling,
    Located, Repairing, Granting, Finishing, MutLabels, CompLabels, Locals, LiveRecords,
    Records, ApObserve, Clean, Goto, FailsIf, Fault, Finish, NoLoc, leaseVars
<1>2. CASE ApPersist
  BY <1>2, Shapes DEF Journaled, Own, SameLease, SameClaim, Mutates, Recovers, Control, Calling,
    Located, Repairing, Granting, Finishing, MutLabels, CompLabels, Locals, LiveRecords,
    Records, ApPersist, Stay, JournalWrite, Clean, Published, Fault, PublishedOrNot, LiveAs,
    Goto
<1>3. CASE ApUnpersist
  BY <1>3, Shapes DEF Journaled, Own, SameLease, SameClaim, Mutates, Recovers, Control, Calling,
    Located, Repairing, Granting, Finishing, MutLabels, CompLabels, Locals, LiveRecords,
    Records, ApUnpersist, Finish, NoLoc, JournalRemove, Clean, Unlinked, Fault, UnlinkedOrNot,
    leaseVars
<1>4. CASE ApResidue
  BY <1>4, Shapes DEF Journaled, Own, SameLease, SameClaim, Mutates, Recovers, Control, Calling,
    Located, Repairing, Granting, Finishing, MutLabels, CompLabels, Locals, LiveRecords,
    Records, ApResidue, Clean, Goto, Stay, FailsIf, Fault, Finish, NoLoc, leaseVars
<1>5. CASE ApRemove
  BY <1>5, Shapes DEF Journaled, Own, SameLease, SameClaim, Mutates, Recovers, Control, Calling,
    Located, Repairing, Granting, Finishing, MutLabels, CompLabels, Locals, LiveRecords,
    Records, ApRemove, Finish, NoLoc, JournalRemove, Clean, Unlinked, Fault, UnlinkedOrNot,
    leaseVars
<1>6. CASE ApRetain
  BY <1>6, Shapes DEF Journaled, Own, SameLease, SameClaim, Mutates, Recovers, Control, Calling,
    Located, Repairing, Granting, Finishing, MutLabels, CompLabels, Locals, LiveRecords,
    Records, ApRetain, Finish, NoLoc, JournalWrite, Clean, Published, Fault, PublishedOrNot,
    leaseVars
<1>7. CASE Done
  BY <1>7, Shapes DEF Journaled, Own, SameLease, SameClaim, Mutates, Recovers, Control, Calling,
    Located, Repairing, Granting, Finishing, MutLabels, CompLabels, Locals, LiveRecords,
    Records, Done, Clean, Finish, NoLoc
<1>8. CASE UpRead
  BY <1>8, Shapes DEF Journaled, Own, SameLease, SameClaim, Mutates, Recovers, Control, Calling,
    Located, Repairing, Granting, Finishing, MutLabels, CompLabels, Locals, LiveRecords,
    Records, UpRead, Clean, Goto, Finish, NoLoc, FailsIf, Fault, leaseVars
<1>9. CASE UpPrepare
  BY <1>9, LeaseRewrites DEF Journaled, Own, SameLease, SameClaim, Mutates, Recovers, Control,
    Calling, Located, Repairing, Granting, Finishing, MutLabels, CompLabels, UpPrepare, Goto
<1>10. CASE UpUnprepare
  BY <1>10, LeaseRewrites DEF Journaled, Own, SameLease, SameClaim, Mutates, Recovers, Control,
    Calling, Located, Repairing, Granting, Finishing, MutLabels, CompLabels, UpUnprepare, Finish
<1>11. CASE UpResidue
  BY <1>11, LeaseRewrites DEF Journaled, Own, SameLease, SameClaim, Mutates, Recovers, Control,
    Calling, Located, Repairing, Granting, Finishing, MutLabels, CompLabels, UpResidue, Finish
<1>12. CASE RsStatus
  BY <1>12, Shapes DEF Journaled, Own, SameLease, SameClaim, Mutates, Recovers, Control,
    Calling, Located, Repairing, Granting, Finishing, MutLabels, CompLabels, Locals,
    LiveRecords, Records, RsStatus, Stay, Clean, Goto, Fault, leaseVars
<1>13. CASE RsRead
  <2>1. CASE RsCompare
    <3>1. /\ op' = op /\ live'.rec = live.rec /\ live'.repair = live.repair
          /\ pc' \in {"rs.fail", "comp.status"} /\ (pc' = "comp.status" => loc'.ret = "restore")
      BY <1>13, <2>1, RsCompareEffect, FieldTypes DEF Control, Repairing, Applied, RsRead
    <3> QED BY <1>13, <3>1 DEF Journaled, Own, SameLease, SameClaim, Mutates, Recovers, Control, Calling,
      Located, Repairing, Granting, Finishing, MutLabels, CompLabels, RsRead
  <2>2. CASE /\ UNCHANGED <<live, op>> /\ loc'.inc = loc.inc
           /\ pc' \in {"rs.fail", "rs.remove", "rv.start"}
    BY <1>13, <2>2 DEF Journaled, Own, SameLease, SameClaim, Mutates, Recovers, Control, Calling,
      Located, Repairing, Granting, Finishing, MutLabels, CompLabels, RsRead
  <2> QED BY <1>13, <2>1, <2>2, Shapes DEF RsRead, Stay, Goto, Locals
<1>14. CASE RsReread
  <2>1. CASE RsCompare
    <3>1. /\ op' = op /\ live'.rec = live.rec /\ live'.repair = live.repair
          /\ pc' \in {"rs.fail", "comp.status"} /\ (pc' = "comp.status" => loc'.ret = "restore")
      BY <1>14, <2>1, RsCompareEffect, FieldTypes DEF Control, Repairing, Applied, RsReread
    <3> QED BY <1>14, <3>1 DEF Journaled, Own, SameLease, SameClaim, Mutates, Recovers, Control, Calling,
      Located, Repairing, Granting, Finishing, MutLabels, CompLabels, RsReread
  <2>2. CASE /\ UNCHANGED <<live, op>> /\ loc'.inc = loc.inc
           /\ pc' \in {"rs.fail", "rs.remove", "rv.start"}
    BY <1>14, <2>2 DEF Journaled, Own, SameLease, SameClaim, Mutates, Recovers, Control, Calling,
      Located, Repairing, Granting, Finishing, MutLabels, CompLabels, RsReread
  <2> QED BY <1>14, <2>1, <2>2, Shapes DEF RsReread, Stay, Goto, Locals
<1>15. CASE RsRetain
  BY <1>15, LeaseRewrites DEF Journaled, Own, SameLease, SameClaim, Mutates, Recovers, Control,
    Calling, Located, Repairing, Granting, Finishing, MutLabels, CompLabels, RsRetain, Goto
<1>16. CASE RsRemove
  BY <1>16, Shapes DEF Journaled, Own, SameLease, SameClaim, Mutates, Recovers, Control,
    Calling, Located, Repairing, Granting, Finishing, MutLabels, CompLabels, Locals,
    LiveRecords, Records, RsRemove, JournalRemove, Clean, Unlinked, Fault, UnlinkedOrNot,
    LeaseEnds, NoLive, LiveAs, Finish, NoLoc, Goto, Stay
<1>17. CASE RsFail
  BY <1>17, Shapes DEF Journaled, Own, SameLease, SameClaim, Mutates, Recovers, Control,
    Calling, Located, Repairing, Granting, Finishing, MutLabels, CompLabels, Locals,
    LiveRecords, Records, RsFail, Finish, NoLoc, Clean, LeaseEnds, NoLive, LiveAs
<1>18. CASE AbRemove
  BY <1>18, Shapes DEF Journaled, Own, SameLease, SameClaim, Mutates, Recovers, Control,
    Calling, Located, Repairing, Granting, Finishing, MutLabels, CompLabels, Locals,
    LiveRecords, Records, AbRemove, Finish, NoLoc, JournalRemove, Clean, Unlinked, Fault,
    UnlinkedOrNot, LeaseEnds, NoLive, LiveAs
<1> QED BY <1>1, <1>2, <1>3, <1>4, <1>5, <1>6, <1>7, <1>8, <1>9, <1>10, <1>11, <1>12, <1>13, <1>14,
  <1>15, <1>16, <1>17, <1>18 DEF Leasing

LEMMA ReconcilingJournaled == TypeOK /\ Control /\ Own /\ Journaled /\ Reconciling => Journaled'
<1> SUFFICES ASSUME TypeOK, Control, Own, Journaled, Reconciling PROVE Journaled'
  OBVIOUS
<1>1. CASE RcForget
  BY <1>1, Shapes, ZenonT(60) DEF Journaled, Own, SameLease, SameClaim, Mutates, Recovers, Control,
    Calling, Located, Repairing, Granting, Finishing, MutLabels, CompLabels, Locals, LiveRecords,
    Records, RcForget, Finish, NoLoc, JournalRemove, Clean, Unlinked, Fault, UnlinkedOrNot
<1>2. CASE RcFirst
  BY <1>2, Shapes DEF Journaled, Own, SameLease, SameClaim, Mutates, Recovers, Control, Calling,
    Located, Repairing, Granting, Finishing, MutLabels, CompLabels, Locals, LiveRecords,
    Records, RcFirst, Clean, Goto, Stay, Fault, Finish, NoLoc, leaseVars
<1>3. CASE RcSecond
  BY <1>3, Shapes, ZenonT(60) DEF Journaled, Own, SameLease, SameClaim, Mutates, Recovers, Control,
    Calling, Located, Repairing, Granting, Finishing, MutLabels, CompLabels, Locals, LiveRecords,
    Records, RcSecond, Clean, Goto, Stay, FailsIf, Fault, Finish, NoLoc, leaseVars
<1>4. CASE RcPrepare
  BY <1>4, Shapes DEF Journaled, Own, SameLease, SameClaim, Mutates, Recovers, Control, Calling,
    Located, Repairing, Granting, Finishing, MutLabels, CompLabels, Locals, LiveRecords,
    Records, RcPrepare, Stay, JournalWrite, Clean, Published, Fault, PublishedOrNot, LiveAs,
    Goto
<1>5. CASE RcUnprepare
  <2>1. PICK ok \in BOOLEAN : JournalWrite(live.rec, ok) /\ live' = [live EXCEPT !.repair = ~ok]
    BY <1>5 DEF RcUnprepare
  <2>2. live'.rec = live.rec /\ live'.repair = ~ok /\ phase # "none" /\ phase' = phase
    BY <1>5, <2>1, Shapes DEF RcUnprepare, Control, Calling, Located, LiveRecords
  <2>3. (ok => journal' = {live.rec}) /\ (journal' = journal \/ journal' = {live.rec})
    <3>1. \A x \in journal : x.lease = live.rec.lease
      BY <2>2 DEF Journaled, SameLease
    <3>2. (ok /\ Wrote(live.rec)) \/ (~ok /\ WroteOrNot(live.rec))
      BY <2>1 DEF JournalWrite, Wrote, WroteOrNot
    <3> QED BY <3>1, <3>2, JournalOfOneLease
  <2> QED BY <1>5, <2>2, <2>3 DEF Journaled, Own, SameLease, SameClaim, Mutates, Recovers, Control,
    Calling, Located, Repairing, Granting, Finishing, MutLabels, CompLabels, RcUnprepare, Finish
<1>6. CASE RcResidue
  BY <1>6, Shapes DEF Journaled, Own, SameLease, SameClaim, Mutates, Recovers, Control, Calling,
    Located, Repairing, Granting, Finishing, MutLabels, CompLabels, Locals, LiveRecords,
    Records, RcResidue, Finish, NoLoc, Clean, LiveCompensating, LiveAs
<1> QED BY <1>1, <1>2, <1>3, <1>4, <1>5, <1>6 DEF Reconciling

LEMMA RecoveringJournaled == TypeOK /\ Control /\ Own /\ Journaled /\ Recovering => Journaled'
<1> SUFFICES ASSUME TypeOK, Control, Own, Journaled, Recovering PROVE Journaled'
  OBVIOUS
<1>1. CASE RecoverLock
  BY <1>1, Shapes, ZenonT(60) DEF Journaled, Own, SameLease, SameClaim, Mutates, Recovers, Control,
    Calling, Located, Repairing, Granting, Finishing, MutLabels, CompLabels, Locals, LiveRecords,
    Records, RecoverLock, Clean, RecoverBegins, NoLoc, leaseVars
<1>2. CASE RecStatus
  BY <1>2, Shapes DEF Journaled, Own, SameLease, SameClaim, Mutates, Recovers, Control, Calling,
    Located, Repairing, Granting, Finishing, MutLabels, CompLabels, Locals, LiveRecords,
    Records, RecStatus, Clean, Goto, Stay, Fault, Finish, NoLoc, leaseVars
<1>3. CASE RecCapture
  <2>1. \/ pc' = "rec.remove" /\ op' = op /\ loc' = loc
        \/ pc' = "comp.status" /\ op' = op /\ loc'.rec = loc.rec /\ loc'.ret = "recover"
        \/ Finish
    BY <1>3, Shapes DEF RecCapture, Goto, Stay, Locals
  <2> QED BY <1>3, <2>1 DEF Journaled, Own, SameLease, SameClaim, Mutates, Recovers, Control, Calling,
    Located, Repairing, Granting, Finishing, MutLabels, CompLabels, RecCapture, Finish,
    leaseVars
<1>4. CASE RecRemove
  BY <1>4, Shapes DEF Journaled, Own, SameLease, SameClaim, Mutates, Recovers, Control, Calling,
    Located, Repairing, Granting, Finishing, MutLabels, CompLabels, Locals, LiveRecords,
    Records, RecRemove, JournalRemove, Clean, Unlinked, Fault, UnlinkedOrNot, Goto, NoLoc,
    Finish, leaseVars
<1>5. CASE RecRetain
  BY <1>5, Shapes DEF Journaled, Own, SameLease, SameClaim, Mutates, Recovers, Control, Calling,
    Located, Repairing, Granting, Finishing, MutLabels, CompLabels, Locals, LiveRecords,
    Records, RecRetain, Finish, NoLoc, JournalWrite, Clean, Published, Fault, PublishedOrNot,
    leaseVars
<1> QED BY <1>1, <1>2, <1>3, <1>4, <1>5 DEF Recovering

LEMMA CallsJournaled == TypeOK /\ Control /\ Own /\ Journaled /\ Calls => Journaled'
<1> SUFFICES ASSUME TypeOK, Control, Own, Journaled, Calls PROVE Journaled'
  OBVIOUS
<1>1. CASE \E plan \in Plans : ApplyStart(plan)
  <2>1. PICK plan \in Plans : ApplyStart(plan)
    BY <1>1
  <2>2. /\ op' = "apply" /\ phase' = "none" /\ journal' = journal
        /\ \/ pc' = "ap.observe" /\ journal = {}
           \/ pc' = "rec.status" /\ loc'.ret = "none" /\ loc'.rec \in journal
    BY <2>1, ApplyStartEffect DEF ApplyStart, leaseVars
  <2>3. \A x, y \in journal : x = y
    BY <2>1 DEF ApplyStart, Readable
  <2> QED BY <2>2, <2>3 DEF Journaled, Own, SameLease, SameClaim, Mutates, Recovers, Control, Calling,
    Located, Repairing, Granting, Finishing, MutLabels, CompLabels
<1>2. CASE \E plan \in Plans : UpdateStart(plan)
  BY <1>2, Shapes DEF Journaled, Own, SameLease, SameClaim, Mutates, Recovers, Control, Calling,
    Located, Repairing, Granting, Finishing, MutLabels, CompLabels, Locals, LiveRecords,
    Records, UpdateStart, Call, NoLoc, Clean, leaseVars
<1>3. CASE \E how \in {"restore", "drop"} : RestoreStart(how)
  BY <1>3, Shapes DEF Journaled, Own, SameLease, SameClaim, Mutates, Recovers, Control, Calling,
    Located, Repairing, Granting, Finishing, MutLabels, CompLabels, Locals, LiveRecords,
    Records, RestoreStart, Call, NoLoc, Clean
<1>4. CASE \E how \in {"abandon", "drop", "discard"} : AbandonStart(how)
  BY <1>4, Shapes DEF Journaled, Own, SameLease, SameClaim, Mutates, Recovers, Control, Calling,
    Located, Repairing, Granting, Finishing, MutLabels, CompLabels, Locals, LiveRecords,
    Records, AbandonStart, Call, Readable, NoLoc, Clean
<1>5. CASE RecoverScan
  BY <1>5, Shapes DEF Journaled, Own, SameLease, SameClaim, Mutates, Recovers, Control, Calling,
    Located, Repairing, Granting, Finishing, MutLabels, CompLabels, Locals, LiveRecords,
    Records, RecoverScan, Readable, leaseVars
<1>6. CASE RecoverNow
  BY <1>6, Shapes DEF Journaled, Own, SameLease, SameClaim, Mutates, Recovers, Control, Calling,
    Located, Repairing, Granting, Finishing, MutLabels, CompLabels, Locals, LiveRecords,
    Records, RecoverNow, Call, Readable, RecoverBegins, NoLoc, Clean, leaseVars
<1> QED BY <1>1, <1>2, <1>3, <1>4, <1>5, <1>6 DEF Calls

LEMMA EnvironmentJournaled == TypeOK /\ Control /\ Own /\ Journaled /\ Environment => Journaled'
<1> SUFFICES ASSUME TypeOK, Control, Own, Journaled, Environment PROVE Journaled'
  OBVIOUS
<1>1. CASE \E s \in Foreign : ExternalChange(s)
  BY <1>1, Shapes DEF Journaled, Own, SameLease, SameClaim, Mutates, Recovers, Control, Calling,
    Located, Repairing, Granting, Finishing, MutLabels, CompLabels, Locals, LiveRecords,
    Records, ExternalChange, EnvUnchanged, leaseVars
<1>2. CASE \E s \in Foreign : ExternalReplacement(s)
  BY <1>2, Shapes DEF Journaled, Own, SameLease, SameClaim, Mutates, Recovers, Control, Calling,
    Located, Repairing, Granting, Finishing, MutLabels, CompLabels, Locals, LiveRecords,
    Records, ExternalReplacement, EnvUnchanged, leaseVars
<1>3. CASE ExternalRemoval
  BY <1>3, Shapes DEF Journaled, Own, SameLease, SameClaim, Mutates, Recovers, Control, Calling,
    Located, Repairing, Granting, Finishing, MutLabels, CompLabels, Locals, LiveRecords,
    Records, ExternalRemoval, EnvUnchanged, leaseVars
<1>4. CASE Crash
  BY <1>4, Shapes DEF Journaled, Own, SameLease, SameClaim, Mutates, Recovers, Control, Calling,
    Located, Repairing, Granting, Finishing, MutLabels, CompLabels, Locals, LiveRecords,
    Records, Crash, Fault, Finish, NoLoc, LeaseEnds, NoLive, LiveAs
<1> QED BY <1>1, <1>2, <1>3, <1>4 DEF Environment

LEMMA ReconcileStartJournaled == TypeOK /\ Control /\ Own /\ Journaled /\ ReconcileStart => Journaled'
<1> SUFFICES ASSUME TypeOK, Control, Own, Journaled, ReconcileStart PROVE Journaled'
  OBVIOUS
<1>1. CASE ReconcileStart
  BY <1>1, Shapes DEF Journaled, Own, SameLease, SameClaim, Mutates, Recovers, Control, Calling,
    Located, Repairing, Granting, Finishing, MutLabels, CompLabels, Locals, LiveRecords,
    Records, ReconcileStart, NoLoc, Clean, leaseVars
<1> QED BY <1>1

LEMMA InitJournaled == Init => Journaled
BY NoLocFields DEF Init, Journaled, Own, SameLease, SameClaim, Mutates, Recovers, Control,
  Calling, Located, Repairing, Granting, Finishing, MutLabels, CompLabels

-----------------------------------------------------------------------------
(***************************************************************************)
(* The journal mirrors the lease as long as the incarnation it was taken   *)
(* on is there.                                                            *)
(***************************************************************************)
Aged ==
    /\ phase # "none" => live.rec.inc <= native.inc
    /\ op = "apply" /\ (Mutates \/ pc \in Finishing \cup {"done", "ap.persist"}) =>
          loc.rec.inc <= native.inc

Alive == native.up /\ native.inc = live.rec.inc

Holding == active \/ Granting

Mirrored ==
    /\ pc = "rc.forget" => ~Alive
    /\ Holding /\ Alive => journal # {}
    /\ Holding /\ Alive /\ ~live.repair /\ live.st # "Verified"
          /\ pc \notin {"rc.unprepare", "up.unprepare"} => journal = {live.rec}

LEMMA MutatingAged == TypeOK /\ Control /\ Own /\ Journaled /\ Aged /\ Mutating => Aged'
BY MutatingFrame DEF MutatingKeeps, Aged, Own, SameLease, SameClaim, Mutates, Recovers, Control,
  Calling, Located, Repairing, Granting, Finishing, MutLabels, CompLabels

LEMMA CompensatingAged == TypeOK /\ Control /\ Own /\ Journaled /\ Aged /\ Compensating => Aged'
BY CompensatingFrame DEF CompensatingKeeps, Aged, Own, SameLease, SameClaim, Mutates, Recovers,
  Control, Calling, Located, Repairing, Granting, Finishing, MutLabels, CompLabels

LEMMA ResolvingAged == TypeOK /\ Control /\ Own /\ Journaled /\ Aged /\ Resolving => Aged'
<1> SUFFICES ASSUME TypeOK, Control, Own, Journaled, Aged, Resolving PROVE Aged'
  OBVIOUS
<1>1. CASE RvRepair
  BY <1>1, Shapes DEF Aged, Own, SameLease, SameClaim, Mutates, Recovers, Control, Calling,
    Located, Repairing, Granting, Finishing, MutLabels, CompLabels, Locals, LiveRecords,
    Records, RvRepair, Stay, JournalWrite, Clean, Fault, Goto, ResolveErr, osVars
<1>2. CASE RvStart
  BY <1>2, Shapes DEF Aged, Own, SameLease, SameClaim, Mutates, Recovers, Control, Calling,
    Located, Repairing, Granting, Finishing, MutLabels, CompLabels, Locals, LiveRecords,
    Records, RvStart, Clean, ResolveOk, Goto, Stay, ResolveErr, osVars, leaseVars
<1>3. CASE RvRead
  BY <1>3, Shapes DEF Aged, Own, SameLease, SameClaim, Mutates, Recovers, Control, Calling,
    Located, Repairing, Granting, Finishing, MutLabels, CompLabels, Locals, LiveRecords,
    Records, RvRead, Clean, Goto, FailsIf, Fault, ResolveErr, Stay, osVars, leaseVars
<1>4. CASE RvStatus
  BY <1>4, Shapes DEF Aged, Own, SameLease, SameClaim, Mutates, Recovers, Control, Calling,
    Located, Repairing, Granting, Finishing, MutLabels, CompLabels, Locals, LiveRecords,
    Records, RvStatus, Stay, Clean, Goto, FailsIf, Fault, ResolveErr, osVars, leaseVars
<1>5. CASE RvWrite
  <2>1. live'.rec.inc = live.rec.inc /\ loc' = loc
    <3>1. PICK r \in Records :
            /\ Variant(r, live.rec, "Applied", live.proof) /\ loc' = loc
            /\ \/ Wrote(r) /\ live'.rec = r /\ ResolveOk
               \/ WroteOrNot(r) /\ live' = live /\ ResolveErr
      BY <1>5, RvWriteEffect
    <3>2. live'.rec = r \/ live'.rec = live.rec
      BY <3>1
    <3> QED BY <3>1, <3>2 DEF Variant, SameClaim, SameLease
  <2>2. op' = op /\ op # "none" /\ UNCHANGED <<native, phase>>
    BY <1>5 DEF RvWrite, ResolveOk, ResolveErr, Goto, osVars, Control, Calling
  <2>3. pc = "rv.write"
    BY <1>5 DEF RvWrite
  <2> QED BY <2>1, <2>2, <2>3 DEF Aged, Own, SameLease, SameClaim, Mutates, Recovers, Control, Calling,
    Located, Repairing, Granting, Finishing, MutLabels, CompLabels
<1>6. CASE RvResume
  BY <1>6, LeaseRewrites DEF Aged, Own, SameLease, SameClaim, Mutates, Recovers, Control,
    Calling, Located, Repairing, Granting, Finishing, MutLabels, CompLabels, RvResume,
    ResolveOk, ResolveErr, Goto
<1>7. CASE RvRetain
  BY <1>7, LeaseRewrites DEF Aged, Own, SameLease, SameClaim, Mutates, Recovers, Control,
    Calling, Located, Repairing, Granting, Finishing, MutLabels, CompLabels, RvRetain,
    ResolveErr, Goto
<1> QED BY <1>1, <1>2, <1>3, <1>4, <1>5, <1>6, <1>7 DEF Resolving

LEMMA LeasingAged == TypeOK /\ Control /\ Own /\ Journaled /\ Aged /\ Leasing => Aged'
<1> SUFFICES ASSUME TypeOK, Control, Own, Journaled, Aged, Leasing PROVE Aged'
  OBVIOUS
<1>1. CASE ApObserve
  <2>1. native.inc \in Nat
    BY FieldTypes
  <2> QED BY <1>1, <2>1, ApObserveEffect DEF Aged, Own, SameLease, SameClaim, Mutates, Recovers,
    Control, Calling, Located, Repairing, Granting, Finishing, MutLabels, CompLabels, ApObserve,
    osVars, leaseVars, Finish
<1>2. CASE ApPersist
  BY <1>2, Shapes DEF Aged, Own, SameLease, SameClaim, Mutates, Recovers, Control, Calling,
    Located, Repairing, Granting, Finishing, MutLabels, CompLabels, Locals, LiveRecords,
    Records, ApPersist, Stay, JournalWrite, Clean, Fault, LiveAs, Goto, osVars
<1>3. CASE ApUnpersist
  BY <1>3, Shapes DEF Aged, Own, SameLease, SameClaim, Mutates, Recovers, Control, Calling,
    Located, Repairing, Granting, Finishing, MutLabels, CompLabels, Locals, LiveRecords,
    Records, ApUnpersist, Finish, NoLoc, JournalRemove, Clean, Fault, osVars, leaseVars
<1>4. CASE ApResidue
  BY <1>4, Shapes DEF Aged, Own, SameLease, SameClaim, Mutates, Recovers, Control, Calling,
    Located, Repairing, Granting, Finishing, MutLabels, CompLabels, Locals, LiveRecords,
    Records, ApResidue, Clean, Goto, Stay, FailsIf, Fault, Finish, NoLoc, osVars, leaseVars
<1>5. CASE ApRemove
  BY <1>5, Shapes DEF Aged, Own, SameLease, SameClaim, Mutates, Recovers, Control, Calling,
    Located, Repairing, Granting, Finishing, MutLabels, CompLabels, Locals, LiveRecords,
    Records, ApRemove, Finish, NoLoc, JournalRemove, Clean, Fault, osVars, leaseVars
<1>6. CASE ApRetain
  BY <1>6, Shapes DEF Aged, Own, SameLease, SameClaim, Mutates, Recovers, Control, Calling,
    Located, Repairing, Granting, Finishing, MutLabels, CompLabels, Locals, LiveRecords,
    Records, ApRetain, Finish, NoLoc, JournalWrite, Clean, Fault, osVars, leaseVars
<1>7. CASE Done
  BY <1>7, Shapes DEF Aged, Own, SameLease, SameClaim, Mutates, Recovers, Control, Calling,
    Located, Repairing, Granting, Finishing, MutLabels, CompLabels, Locals, LiveRecords,
    Records, Done, Clean, Finish, NoLoc, osVars
<1>8. CASE UpRead
  BY <1>8, Shapes DEF Aged, Own, SameLease, SameClaim, Mutates, Recovers, Control, Calling,
    Located, Repairing, Granting, Finishing, MutLabels, CompLabels, Locals, LiveRecords,
    Records, UpRead, Clean, Goto, Finish, NoLoc, FailsIf, Fault, osVars, leaseVars
<1>9. CASE UpPrepare
  BY <1>9, LeaseRewrites DEF Aged, Own, SameLease, SameClaim, Mutates, Recovers, Control,
    Calling, Located, Repairing, Granting, Finishing, MutLabels, CompLabels, UpPrepare, Goto
<1>10. CASE UpUnprepare
  BY <1>10, LeaseRewrites DEF Aged, Own, SameLease, SameClaim, Mutates, Recovers, Control,
    Calling, Located, Repairing, Granting, Finishing, MutLabels, CompLabels, UpUnprepare, Finish
<1>11. CASE UpResidue
  BY <1>11, LeaseRewrites DEF Aged, Own, SameLease, SameClaim, Mutates, Recovers, Control,
    Calling, Located, Repairing, Granting, Finishing, MutLabels, CompLabels, UpResidue, Finish
<1>12. CASE RsStatus
  BY <1>12, Shapes DEF Aged, Own, SameLease, SameClaim, Mutates, Recovers, Control, Calling,
    Located, Repairing, Granting, Finishing, MutLabels, CompLabels, Locals, LiveRecords,
    Records, RsStatus, Stay, Clean, Goto, Fault, osVars, leaseVars
<1>13. CASE RsRead
  <2>1. live'.rec = live.rec /\ op' = op
    <3>1. CASE RsCompare
      BY <3>1, RsCompareEffect
    <3> QED BY <1>13, <3>1 DEF RsRead, Goto
  <2> QED BY <1>13, <2>1 DEF Aged, Own, SameLease, SameClaim, Mutates, Recovers, Control, Calling,
    Located, Repairing, Granting, Finishing, MutLabels, CompLabels, RsRead, osVars
<1>14. CASE RsReread
  <2>1. live'.rec = live.rec /\ op' = op
    <3>1. CASE RsCompare
      BY <3>1, RsCompareEffect
    <3> QED BY <1>14, <3>1 DEF RsReread, Goto
  <2> QED BY <1>14, <2>1 DEF Aged, Own, SameLease, SameClaim, Mutates, Recovers, Control, Calling,
    Located, Repairing, Granting, Finishing, MutLabels, CompLabels, RsReread, osVars
<1>15. CASE RsRetain
  BY <1>15, LeaseRewrites DEF Aged, Own, SameLease, SameClaim, Mutates, Recovers, Control,
    Calling, Located, Repairing, Granting, Finishing, MutLabels, CompLabels, RsRetain, Goto
<1>16. CASE RsRemove
  BY <1>16, Shapes DEF Aged, Own, SameLease, SameClaim, Mutates, Recovers, Control, Calling,
    Located, Repairing, Granting, Finishing, MutLabels, CompLabels, Locals, LiveRecords,
    Records, RsRemove, JournalRemove, Clean, Fault, LeaseEnds, NoLive, LiveAs, Finish, NoLoc,
    Goto, Stay
<1>17. CASE RsFail
  BY <1>17, Shapes DEF Aged, Own, SameLease, SameClaim, Mutates, Recovers, Control, Calling,
    Located, Repairing, Granting, Finishing, MutLabels, CompLabels, Locals, LiveRecords,
    Records, RsFail, Finish, NoLoc, Clean, LeaseEnds, NoLive, LiveAs
<1>18. CASE AbRemove
  BY <1>18, Shapes DEF Aged, Own, SameLease, SameClaim, Mutates, Recovers, Control, Calling,
    Located, Repairing, Granting, Finishing, MutLabels, CompLabels, Locals, LiveRecords,
    Records, AbRemove, Finish, NoLoc, JournalRemove, Clean, Fault, LeaseEnds, NoLive, LiveAs
<1> QED BY <1>1, <1>2, <1>3, <1>4, <1>5, <1>6, <1>7, <1>8, <1>9, <1>10, <1>11, <1>12, <1>13, <1>14,
  <1>15, <1>16, <1>17, <1>18 DEF Leasing

LEMMA ReconcilingAged == TypeOK /\ Control /\ Own /\ Journaled /\ Aged /\ Reconciling => Aged'
<1> SUFFICES ASSUME TypeOK, Control, Own, Journaled, Aged, Reconciling PROVE Aged'
  OBVIOUS
<1>1. CASE RcForget
  BY <1>1, Shapes DEF Aged, Own, SameLease, SameClaim, Mutates, Recovers, Control, Calling,
    Located, Repairing, Granting, Finishing, MutLabels, CompLabels, Locals, LiveRecords,
    Records, RcForget, Finish, NoLoc, JournalRemove, Clean, Fault, osVars
<1>2. CASE RcFirst
  BY <1>2, Shapes DEF Aged, Own, SameLease, SameClaim, Mutates, Recovers, Control, Calling,
    Located, Repairing, Granting, Finishing, MutLabels, CompLabels, Locals, LiveRecords,
    Records, RcFirst, Clean, Goto, Stay, Fault, Finish, NoLoc, osVars, leaseVars
<1>3. CASE RcSecond
  BY <1>3, Shapes DEF Aged, Own, SameLease, SameClaim, Mutates, Recovers, Control, Calling,
    Located, Repairing, Granting, Finishing, MutLabels, CompLabels, Locals, LiveRecords,
    Records, RcSecond, Clean, Goto, Stay, FailsIf, Fault, Finish, NoLoc, osVars, leaseVars
<1>4. CASE RcPrepare
  BY <1>4, Shapes DEF Aged, Own, SameLease, SameClaim, Mutates, Recovers, Control, Calling,
    Located, Repairing, Granting, Finishing, MutLabels, CompLabels, Locals, LiveRecords,
    Records, RcPrepare, Stay, JournalWrite, Clean, Fault, LiveAs, Goto, osVars
<1>5. CASE RcUnprepare
  BY <1>5, Shapes DEF Aged, Own, SameLease, SameClaim, Mutates, Recovers, Control, Calling,
    Located, Repairing, Granting, Finishing, MutLabels, CompLabels, Locals, LiveRecords,
    Records, RcUnprepare, Finish, NoLoc, JournalWrite, Clean, Fault, osVars
<1>6. CASE RcResidue
  BY <1>6, Shapes DEF Aged, Own, SameLease, SameClaim, Mutates, Recovers, Control, Calling,
    Located, Repairing, Granting, Finishing, MutLabels, CompLabels, Locals, LiveRecords,
    Records, RcResidue, Finish, NoLoc, Clean, LiveCompensating, LiveAs, osVars
<1> QED BY <1>1, <1>2, <1>3, <1>4, <1>5, <1>6 DEF Reconciling

LEMMA RecoveringAged == TypeOK /\ Control /\ Own /\ Journaled /\ Aged /\ Recovering => Aged'
<1> SUFFICES ASSUME TypeOK, Control, Own, Journaled, Aged, Recovering PROVE Aged'
  OBVIOUS
<1>1. CASE RecoverLock
  BY <1>1, Shapes DEF Aged, Own, SameLease, SameClaim, Mutates, Recovers, Control, Calling,
    Located, Repairing, Granting, Finishing, MutLabels, CompLabels, Locals, LiveRecords,
    Records, RecoverLock, Clean, RecoverBegins, NoLoc, osVars, leaseVars
<1>2. CASE RecStatus
  BY <1>2, Shapes DEF Aged, Own, SameLease, SameClaim, Mutates, Recovers, Control, Calling,
    Located, Repairing, Granting, Finishing, MutLabels, CompLabels, Locals, LiveRecords,
    Records, RecStatus, Clean, Goto, Stay, Fault, Finish, NoLoc, osVars, leaseVars
<1>3. CASE RecCapture
  BY <1>3, Shapes DEF Aged, Own, SameLease, SameClaim, Mutates, Recovers, Control, Calling,
    Located, Repairing, Granting, Finishing, MutLabels, CompLabels, Locals, LiveRecords,
    Records, RecCapture, Clean, Goto, Stay, FailsIf, Fault, Finish, NoLoc, osVars, leaseVars
<1>4. CASE RecRemove
  BY <1>4, Shapes DEF Aged, Own, SameLease, SameClaim, Mutates, Recovers, Control, Calling,
    Located, Repairing, Granting, Finishing, MutLabels, CompLabels, Locals, LiveRecords,
    Records, RecRemove, JournalRemove, Clean, Fault, Goto, NoLoc, Finish, osVars, leaseVars
<1>5. CASE RecRetain
  BY <1>5, Shapes DEF Aged, Own, SameLease, SameClaim, Mutates, Recovers, Control, Calling,
    Located, Repairing, Granting, Finishing, MutLabels, CompLabels, Locals, LiveRecords,
    Records, RecRetain, Finish, NoLoc, JournalWrite, Clean, Fault, osVars, leaseVars
<1> QED BY <1>1, <1>2, <1>3, <1>4, <1>5 DEF Recovering

LEMMA CallsAged == TypeOK /\ Control /\ Own /\ Journaled /\ Aged /\ Calls => Aged'
<1> SUFFICES ASSUME TypeOK, Control, Own, Journaled, Aged, Calls PROVE Aged'
  OBVIOUS
<1>1. CASE \E plan \in Plans : ApplyStart(plan)
  BY <1>1, Shapes, ZenonT(60) DEF Aged, Own, SameLease, SameClaim, Mutates, Recovers, Control,
    Calling, Located, Repairing, Granting, Finishing, MutLabels, CompLabels, Locals, LiveRecords,
    Records, ApplyStart, Call, NoLoc, Clean, osVars, leaseVars
<1>2. CASE \E plan \in Plans : UpdateStart(plan)
  BY <1>2, Shapes DEF Aged, Own, SameLease, SameClaim, Mutates, Recovers, Control, Calling,
    Located, Repairing, Granting, Finishing, MutLabels, CompLabels, Locals, LiveRecords,
    Records, UpdateStart, Call, NoLoc, Clean, osVars, leaseVars
<1>3. CASE \E how \in {"restore", "drop"} : RestoreStart(how)
  BY <1>3, Shapes DEF Aged, Own, SameLease, SameClaim, Mutates, Recovers, Control, Calling,
    Located, Repairing, Granting, Finishing, MutLabels, CompLabels, Locals, LiveRecords,
    Records, RestoreStart, Call, NoLoc, Clean, osVars
<1>4. CASE \E how \in {"abandon", "drop", "discard"} : AbandonStart(how)
  BY <1>4, Shapes DEF Aged, Own, SameLease, SameClaim, Mutates, Recovers, Control, Calling,
    Located, Repairing, Granting, Finishing, MutLabels, CompLabels, Locals, LiveRecords,
    Records, AbandonStart, Call, NoLoc, Clean, osVars
<1>5. CASE RecoverScan
  BY <1>5, Shapes DEF Aged, Own, SameLease, SameClaim, Mutates, Recovers, Control, Calling,
    Located, Repairing, Granting, Finishing, MutLabels, CompLabels, Locals, LiveRecords,
    Records, RecoverScan, osVars, leaseVars
<1>6. CASE RecoverNow
  BY <1>6, Shapes DEF Aged, Own, SameLease, SameClaim, Mutates, Recovers, Control, Calling,
    Located, Repairing, Granting, Finishing, MutLabels, CompLabels, Locals, LiveRecords,
    Records, RecoverNow, Call, RecoverBegins, NoLoc, Clean, osVars, leaseVars
<1> QED BY <1>1, <1>2, <1>3, <1>4, <1>5, <1>6 DEF Calls

LEMMA EnvironmentAged == TypeOK /\ Control /\ Own /\ Journaled /\ Aged /\ Environment => Aged'
<1> SUFFICES ASSUME TypeOK, Control, Own, Journaled, Aged, Environment PROVE Aged'
  OBVIOUS
<1>1. CASE \E s \in Foreign : ExternalChange(s)
  BY <1>1, Shapes DEF Aged, Own, SameLease, SameClaim, Mutates, Recovers, Control, Calling,
    Located, Repairing, Granting, Finishing, MutLabels, CompLabels, Locals, LiveRecords,
    Records, ExternalChange, Written, EnvUnchanged, leaseVars
<1>2. CASE \E s \in Foreign : ExternalReplacement(s)
  <2>1. native.inc \in Nat /\ live.rec.inc \in Nat /\ loc.rec.inc \in Nat
    BY FieldTypes, RecordFields
  <2>2. native'.inc = native.inc + 1
    BY <1>2 DEF ExternalReplacement, Replacement
  <2>3. UNCHANGED <<phase, active, live, pc, op, loc>>
    BY <1>2 DEF ExternalReplacement, EnvUnchanged, leaseVars
  <2> QED BY <2>1, <2>2, <2>3 DEF Aged, Mutates, Finishing, MutLabels, CompLabels
<1>3. CASE ExternalRemoval
  BY <1>3, Shapes DEF Aged, Own, SameLease, SameClaim, Mutates, Recovers, Control, Calling,
    Located, Repairing, Granting, Finishing, MutLabels, CompLabels, Locals, LiveRecords,
    Records, ExternalRemoval, EnvUnchanged, leaseVars
<1>4. CASE Crash
  BY <1>4, Shapes DEF Aged, Own, SameLease, SameClaim, Mutates, Recovers, Control, Calling,
    Located, Repairing, Granting, Finishing, MutLabels, CompLabels, Locals, LiveRecords,
    Records, Crash, Fault, Finish, NoLoc, LeaseEnds, NoLive, LiveAs
<1> QED BY <1>1, <1>2, <1>3, <1>4 DEF Environment

LEMMA ReconcileStartAged == TypeOK /\ Control /\ Own /\ Journaled /\ Aged /\ ReconcileStart => Aged'
<1> SUFFICES ASSUME TypeOK, Control, Own, Journaled, Aged, ReconcileStart PROVE Aged'
  OBVIOUS
<1>1. CASE ReconcileStart
  BY <1>1, Shapes DEF Aged, Own, SameLease, SameClaim, Mutates, Recovers, Control, Calling,
    Located, Repairing, Granting, Finishing, MutLabels, CompLabels, Locals, LiveRecords,
    Records, ReconcileStart, NoLoc, Clean, osVars, leaseVars
<1> QED BY <1>1

LEMMA MutatingMirrored == TypeOK /\ Control /\ Own /\ Journaled /\ Aged /\ Mirrored /\ Mutating => Mirrored'
BY MutatingFrame DEF MutatingKeeps, Journaled, Mirrored, Alive, Holding, Own, SameLease,
  SameClaim, Mutates, Recovers, Control, Calling, Located, Repairing, Granting, Finishing,
  MutLabels, CompLabels

LEMMA CompensatingMirrored == TypeOK /\ Control /\ Own /\ Journaled /\ Aged /\ Mirrored /\ Compensating => Mirrored'
BY CompensatingFrame DEF CompensatingKeeps, Mirrored, Alive, Holding, Own, SameLease, SameClaim,
  Mutates, Recovers, Control, Calling, Located, Repairing, Granting, Finishing, MutLabels,
  CompLabels

LEMMA ResolvingMirrored == TypeOK /\ Control /\ Own /\ Journaled /\ Aged /\ Mirrored /\ Resolving => Mirrored'
<1> SUFFICES ASSUME TypeOK, Control, Own, Journaled, Aged, Mirrored, Resolving PROVE Mirrored'
  OBVIOUS
<1>1. CASE RvRepair
  BY <1>1, Shapes DEF Mirrored, Alive, Holding, Journaled, Own, SameLease, SameClaim, Mutates,
    Recovers, Control, Calling, Located, Repairing, Granting, Finishing, MutLabels, CompLabels,
    Locals, LiveRecords, Records, RvRepair, Stay, JournalWrite, Clean, Published, Fault,
    PublishedOrNot, Goto, ResolveErr, osVars
<1>2. CASE RvStart
  BY <1>2, Shapes DEF Mirrored, Alive, Holding, Journaled, Own, SameLease, SameClaim, Mutates,
    Recovers, Control, Calling, Located, Repairing, Granting, Finishing, MutLabels, CompLabels,
    Locals, LiveRecords, Records, RvStart, Clean, ResolveOk, Goto, Stay, ResolveErr, osVars,
    leaseVars
<1>3. CASE RvRead
  BY <1>3, Shapes DEF Mirrored, Alive, Holding, Journaled, Own, SameLease, SameClaim, Mutates,
    Recovers, Control, Calling, Located, Repairing, Granting, Finishing, MutLabels, CompLabels,
    Locals, LiveRecords, Records, RvRead, Clean, Goto, FailsIf, Fault, ResolveErr, Stay, osVars,
    leaseVars
<1>4. CASE RvStatus
  BY <1>4, Shapes DEF Mirrored, Alive, Holding, Journaled, Own, SameLease, SameClaim, Mutates,
    Recovers, Control, Calling, Located, Repairing, Granting, Finishing, MutLabels, CompLabels,
    Locals, LiveRecords, Records, RvStatus, Stay, Clean, Same, ResourceStatus, Goto, FailsIf,
    Fault, ResolveErr, osVars, leaseVars
<1>5. CASE RvWrite
  BY <1>5, Shapes DEF Mirrored, Alive, Holding, Journaled, Own, SameLease, SameClaim, Mutates,
    Recovers, Control, Calling, Located, Repairing, Granting, Finishing, MutLabels, CompLabels,
    Locals, LiveRecords, Records, RvWrite, Stay, JournalWrite, Clean, Published, Fault,
    PublishedOrNot, LiveAs, ResolveOk, Goto, ResolveErr, osVars
<1>6. CASE RvResume
  BY <1>6, LeaseRewrites DEF Mirrored, Alive, Holding, SameLease, SameClaim, Control, Calling,
    Located, Granting, Finishing, RvResume, ResolveOk, ResolveErr, Goto
<1>7. CASE RvRetain
  BY <1>7, LeaseRewrites DEF Mirrored, Alive, Holding, SameLease, SameClaim, Control, Calling,
    Located, Granting, Finishing, RvRetain, ResolveErr, Goto
<1> QED BY <1>1, <1>2, <1>3, <1>4, <1>5, <1>6, <1>7 DEF Resolving

LEMMA LeasingMirrored == TypeOK /\ Control /\ Own /\ Journaled /\ Aged /\ Mirrored /\ Leasing => Mirrored'
<1> SUFFICES ASSUME TypeOK, Control, Own, Journaled, Aged, Mirrored, Leasing PROVE Mirrored'
  OBVIOUS
<1>1. CASE ApObserve
  BY <1>1, Shapes DEF Mirrored, Alive, Holding, Journaled, Own, SameLease, SameClaim, Mutates,
    Recovers, Control, Calling, Located, Repairing, Granting, Finishing, MutLabels, CompLabels,
    Locals, LiveRecords, Records, ApObserve, Clean, Goto, FailsIf, Fault, Finish, NoLoc, osVars,
    leaseVars
<1>2. CASE ApPersist
  BY <1>2, Shapes DEF Mirrored, Alive, Holding, Journaled, Own, SameLease, SameClaim, Mutates,
    Recovers, Control, Calling, Located, Repairing, Granting, Finishing, MutLabels, CompLabels,
    Locals, LiveRecords, Records, ApPersist, Stay, JournalWrite, Clean, Published, Fault,
    PublishedOrNot, LiveAs, Goto, osVars
<1>3. CASE ApUnpersist
  BY <1>3, Shapes DEF Mirrored, Alive, Holding, Journaled, Own, SameLease, SameClaim, Mutates,
    Recovers, Control, Calling, Located, Repairing, Granting, Finishing, MutLabels, CompLabels,
    Locals, LiveRecords, Records, ApUnpersist, Finish, NoLoc, JournalRemove, Clean, Unlinked,
    Fault, UnlinkedOrNot, osVars, leaseVars
<1>4. CASE ApResidue
  BY <1>4, Shapes DEF Mirrored, Alive, Holding, Journaled, Own, SameLease, SameClaim, Mutates,
    Recovers, Control, Calling, Located, Repairing, Granting, Finishing, MutLabels, CompLabels,
    Locals, LiveRecords, Records, ApResidue, Clean, Goto, Stay, FailsIf, Fault, Finish, NoLoc,
    osVars, leaseVars
<1>5. CASE ApRemove
  BY <1>5, Shapes DEF Mirrored, Alive, Holding, Journaled, Own, SameLease, SameClaim, Mutates,
    Recovers, Control, Calling, Located, Repairing, Granting, Finishing, MutLabels, CompLabels,
    Locals, LiveRecords, Records, ApRemove, Finish, NoLoc, JournalRemove, Clean, Unlinked,
    Fault, UnlinkedOrNot, osVars, leaseVars
<1>6. CASE ApRetain
  BY <1>6, Shapes DEF Mirrored, Alive, Holding, Journaled, Own, SameLease, SameClaim, Mutates,
    Recovers, Control, Calling, Located, Repairing, Granting, Finishing, MutLabels, CompLabels,
    Locals, LiveRecords, Records, ApRetain, Finish, NoLoc, JournalWrite, Clean, Published,
    Fault, PublishedOrNot, osVars, leaseVars
<1>7. CASE Done
  BY <1>7, Shapes DEF Mirrored, Alive, Holding, Journaled, Own, SameLease, SameClaim, Mutates,
    Recovers, Control, Calling, Located, Repairing, Granting, Finishing, MutLabels, CompLabels,
    Locals, LiveRecords, Records, Done, Clean, Finish, NoLoc, osVars
<1>8. CASE UpRead
  BY <1>8, Shapes DEF Mirrored, Alive, Holding, Journaled, Own, SameLease, SameClaim, Mutates,
    Recovers, Control, Calling, Located, Repairing, Granting, Finishing, MutLabels, CompLabels,
    Locals, LiveRecords, Records, UpRead, Clean, Goto, Finish, NoLoc, FailsIf, Fault, osVars,
    leaseVars
<1>9. CASE UpPrepare
  BY <1>9, LeaseRewrites DEF Mirrored, Alive, Holding, SameLease, SameClaim, Control, Calling,
    Located, Granting, Finishing, UpPrepare, Goto
<1>10. CASE UpUnprepare
  BY <1>10, LeaseRewrites DEF Mirrored, Alive, Holding, SameLease, SameClaim, Control, Calling,
    Located, Granting, Finishing, UpUnprepare, Finish
<1>11. CASE UpResidue
  BY <1>11, LeaseRewrites DEF Mirrored, Alive, Holding, SameLease, SameClaim, Control, Calling,
    Located, Granting, Finishing, UpResidue, Finish
<1>12. CASE RsStatus
  BY <1>12, Shapes DEF Mirrored, Alive, Holding, Journaled, Own, SameLease, SameClaim, Mutates,
    Recovers, Control, Calling, Located, Repairing, Granting, Finishing, MutLabels, CompLabels,
    Locals, LiveRecords, Records, RsStatus, Stay, Clean, Goto, Same, ResourceStatus, Fault,
    osVars, leaseVars
<1>13. CASE RsRead
  BY <1>13, Shapes DEF Mirrored, Alive, Holding, Journaled, Own, SameLease, SameClaim, Mutates,
    Recovers, Control, Calling, Located, Repairing, Granting, Finishing, MutLabels, CompLabels,
    Locals, LiveRecords, Records, RsRead, Fault, Goto, Stay, Clean, RsCompare, LiveCompensating,
    LiveAs, osVars
<1>14. CASE RsReread
  BY <1>14, Shapes DEF Mirrored, Alive, Holding, Journaled, Own, SameLease, SameClaim, Mutates,
    Recovers, Control, Calling, Located, Repairing, Granting, Finishing, MutLabels, CompLabels,
    Locals, LiveRecords, Records, RsReread, FailsIf, Clean, Fault, Goto, Stay, RsCompare,
    LiveCompensating, LiveAs, osVars
<1>15. CASE RsRetain
  BY <1>15, LeaseRewrites DEF Mirrored, Alive, Holding, SameLease, SameClaim, Control, Calling,
    Located, Granting, Finishing, RsRetain, Goto
<1>16. CASE RsRemove
  BY <1>16, Shapes DEF Mirrored, Alive, Holding, Journaled, Own, SameLease, SameClaim, Mutates,
    Recovers, Control, Calling, Located, Repairing, Granting, Finishing, MutLabels, CompLabels,
    Locals, LiveRecords, Records, RsRemove, JournalRemove, Clean, Unlinked, Fault,
    UnlinkedOrNot, LeaseEnds, NoLive, LiveAs, Finish, NoLoc, Goto, Stay
<1>17. CASE RsFail
  BY <1>17, Shapes DEF Mirrored, Alive, Holding, Journaled, Own, SameLease, SameClaim, Mutates,
    Recovers, Control, Calling, Located, Repairing, Granting, Finishing, MutLabels, CompLabels,
    Locals, LiveRecords, Records, RsFail, Finish, NoLoc, Clean, LeaseEnds, NoLive, LiveAs
<1>18. CASE AbRemove
  BY <1>18, Shapes DEF Mirrored, Alive, Holding, Journaled, Own, SameLease, SameClaim, Mutates,
    Recovers, Control, Calling, Located, Repairing, Granting, Finishing, MutLabels, CompLabels,
    Locals, LiveRecords, Records, AbRemove, Finish, NoLoc, JournalRemove, Clean, Unlinked,
    Fault, UnlinkedOrNot, LeaseEnds, NoLive, LiveAs
<1> QED BY <1>1, <1>2, <1>3, <1>4, <1>5, <1>6, <1>7, <1>8, <1>9, <1>10, <1>11, <1>12, <1>13, <1>14,
  <1>15, <1>16, <1>17, <1>18 DEF Leasing

LEMMA ReconcilingMirrored == TypeOK /\ Control /\ Own /\ Journaled /\ Aged /\ Mirrored /\ Reconciling => Mirrored'
<1> SUFFICES ASSUME TypeOK, Control, Own, Journaled, Aged, Mirrored, Reconciling PROVE Mirrored'
  OBVIOUS
<1>1. CASE RcForget
  BY <1>1, Shapes DEF Mirrored, Alive, Holding, Journaled, Own, SameLease, SameClaim, Mutates,
    Recovers, Control, Calling, Located, Repairing, Granting, Finishing, MutLabels, CompLabels,
    Locals, LiveRecords, Records, RcForget, Finish, NoLoc, JournalRemove, Clean, Unlinked,
    Fault, UnlinkedOrNot, osVars
<1>2. CASE RcFirst
  BY <1>2, Shapes DEF Mirrored, Alive, Holding, Journaled, Own, SameLease, SameClaim, Mutates,
    Recovers, Control, Calling, Located, Repairing, Granting, Finishing, MutLabels, CompLabels,
    Locals, LiveRecords, Records, RcFirst, Clean, Goto, Stay, Fault, Finish, NoLoc, osVars,
    leaseVars
<1>3. CASE RcSecond
  BY <1>3, Shapes DEF Mirrored, Alive, Holding, Journaled, Own, SameLease, SameClaim, Mutates,
    Recovers, Control, Calling, Located, Repairing, Granting, Finishing, MutLabels, CompLabels,
    Locals, LiveRecords, Records, RcSecond, Clean, Goto, Stay, FailsIf, Fault, Finish, NoLoc,
    osVars, leaseVars
<1>4. CASE RcPrepare
  BY <1>4, Shapes DEF Mirrored, Alive, Holding, Journaled, Own, SameLease, SameClaim, Mutates,
    Recovers, Control, Calling, Located, Repairing, Granting, Finishing, MutLabels, CompLabels,
    Locals, LiveRecords, Records, RcPrepare, Stay, JournalWrite, Clean, Published, Fault,
    PublishedOrNot, LiveAs, Goto, osVars
<1>5. CASE RcUnprepare
  <2>1. PICK ok \in BOOLEAN : JournalWrite(live.rec, ok) /\ live' = [live EXCEPT !.repair = ~ok]
    BY <1>5 DEF RcUnprepare
  <2>2. live'.rec = live.rec /\ live'.repair = ~ok /\ phase # "none"
    BY <1>5, <2>1, Shapes DEF RcUnprepare, Control, Calling, Located, LiveRecords
  <2>3. (ok => journal' = {live.rec}) /\ (journal' = journal \/ journal' = {live.rec})
    <3>1. \A x \in journal : x.lease = live.rec.lease
      BY <2>2 DEF Journaled, SameLease
    <3>2. (ok /\ Wrote(live.rec)) \/ (~ok /\ WroteOrNot(live.rec))
      BY <2>1 DEF JournalWrite, Wrote, WroteOrNot
    <3> QED BY <3>1, <3>2, JournalOfOneLease
  <2> QED BY <1>5, <2>2, <2>3 DEF Mirrored, Alive, Holding, Own, SameLease, SameClaim, Mutates,
    Recovers, Control, Calling, Located, Repairing, Granting, Finishing, MutLabels, CompLabels,
    RcUnprepare, Finish, osVars
<1>6. CASE RcResidue
  <2>1. live'.rec = live.rec /\ live'.repair = FALSE
    <3>1. CASE loc.res = "Pending"
      BY <1>6, <3>1 DEF RcResidue, LiveCompensating, LiveAs
    <3>2. CASE loc.res # "Pending"
      BY <1>6, <3>2 DEF RcResidue, LiveCompensating, LiveAs
    <3> QED BY <3>1, <3>2
  <2>2. /\ pc = "residue" /\ op = "reconcile" /\ pc' = "idle" /\ op' = "none"
        /\ UNCHANGED <<native, journal, phase, active>>
    BY <1>6 DEF RcResidue, Finish, osVars
  <2> QED BY <2>1, <2>2 DEF Mirrored, Alive, Holding, Own, SameLease, SameClaim, Mutates, Recovers,
    Control, Calling, Located, Repairing, Granting, Finishing, MutLabels, CompLabels
<1> QED BY <1>1, <1>2, <1>3, <1>4, <1>5, <1>6 DEF Reconciling

LEMMA RecoveringMirrored == TypeOK /\ Control /\ Own /\ Journaled /\ Aged /\ Mirrored /\ Recovering => Mirrored'
<1> SUFFICES ASSUME TypeOK, Control, Own, Journaled, Aged, Mirrored, Recovering PROVE Mirrored'
  OBVIOUS
<1>1. CASE RecoverLock
  BY <1>1, Shapes DEF Mirrored, Alive, Holding, Journaled, Own, SameLease, SameClaim, Mutates,
    Recovers, Control, Calling, Located, Repairing, Granting, Finishing, MutLabels, CompLabels,
    Locals, LiveRecords, Records, RecoverLock, Clean, RecoverBegins, NoLoc, osVars, leaseVars
<1>2. CASE RecStatus
  BY <1>2, Shapes DEF Mirrored, Alive, Holding, Journaled, Own, SameLease, SameClaim, Mutates,
    Recovers, Control, Calling, Located, Repairing, Granting, Finishing, MutLabels, CompLabels,
    Locals, LiveRecords, Records, RecStatus, Clean, Goto, Same, ResourceStatus, Stay, Fault,
    Finish, NoLoc, osVars, leaseVars
<1>3. CASE RecCapture
  BY <1>3, Shapes DEF Mirrored, Alive, Holding, Journaled, Own, SameLease, SameClaim, Mutates,
    Recovers, Control, Calling, Located, Repairing, Granting, Finishing, MutLabels, CompLabels,
    Locals, LiveRecords, Records, RecCapture, Clean, Goto, Stay, FailsIf, Fault, Finish, NoLoc,
    osVars, leaseVars
<1>4. CASE RecRemove
  BY <1>4, Shapes DEF Mirrored, Alive, Holding, Journaled, Own, SameLease, SameClaim, Mutates,
    Recovers, Control, Calling, Located, Repairing, Granting, Finishing, MutLabels, CompLabels,
    Locals, LiveRecords, Records, RecRemove, JournalRemove, Clean, Unlinked, Fault,
    UnlinkedOrNot, Goto, NoLoc, Finish, osVars, leaseVars
<1>5. CASE RecRetain
  BY <1>5, Shapes DEF Mirrored, Alive, Holding, Journaled, Own, SameLease, SameClaim, Mutates,
    Recovers, Control, Calling, Located, Repairing, Granting, Finishing, MutLabels, CompLabels,
    Locals, LiveRecords, Records, RecRetain, Finish, NoLoc, JournalWrite, Clean, Published,
    Fault, PublishedOrNot, osVars, leaseVars
<1> QED BY <1>1, <1>2, <1>3, <1>4, <1>5 DEF Recovering

LEMMA CallsMirrored == TypeOK /\ Control /\ Own /\ Journaled /\ Aged /\ Mirrored /\ Calls => Mirrored'
<1> SUFFICES ASSUME TypeOK, Control, Own, Journaled, Aged, Mirrored, Calls PROVE Mirrored'
  OBVIOUS
<1>1. CASE \E plan \in Plans : ApplyStart(plan)
  <2>1. PICK plan \in Plans : ApplyStart(plan)
    BY <1>1
  <2>2. op' = "apply" /\ pc' \in {"ap.observe", "rec.status"} /\ phase = "none" /\ ~active'
    BY <2>1, ApplyStartEffect DEF ApplyStart, leaseVars, Control, Calling
  <2> QED BY <2>2 DEF Mirrored, Holding, Granting, Finishing
<1>2. CASE \E plan \in Plans : UpdateStart(plan)
  BY <1>2, Shapes DEF Mirrored, Alive, Holding, Journaled, Own, SameLease, SameClaim, Mutates,
    Recovers, Control, Calling, Located, Repairing, Granting, Finishing, MutLabels, CompLabels,
    Locals, LiveRecords, Records, UpdateStart, Call, ResourceStatus, NoLoc, Clean, osVars,
    leaseVars
<1>3. CASE \E how \in {"restore", "drop"} : RestoreStart(how)
  BY <1>3, Shapes DEF Mirrored, Alive, Holding, Journaled, Own, SameLease, SameClaim, Mutates,
    Recovers, Control, Calling, Located, Repairing, Granting, Finishing, MutLabels, CompLabels,
    Locals, LiveRecords, Records, RestoreStart, Call, NoLoc, Clean, osVars
<1>4. CASE \E how \in {"abandon", "drop", "discard"} : AbandonStart(how)
  BY <1>4, Shapes DEF Mirrored, Alive, Holding, Journaled, Own, SameLease, SameClaim, Mutates,
    Recovers, Control, Calling, Located, Repairing, Granting, Finishing, MutLabels, CompLabels,
    Locals, LiveRecords, Records, AbandonStart, Call, NoLoc, Clean, osVars
<1>5. CASE RecoverScan
  BY <1>5, Shapes DEF Mirrored, Alive, Holding, Journaled, Own, SameLease, SameClaim, Mutates,
    Recovers, Control, Calling, Located, Repairing, Granting, Finishing, MutLabels, CompLabels,
    Locals, LiveRecords, Records, RecoverScan, osVars, leaseVars
<1>6. CASE RecoverNow
  BY <1>6, Shapes DEF Mirrored, Alive, Holding, Journaled, Own, SameLease, SameClaim, Mutates,
    Recovers, Control, Calling, Located, Repairing, Granting, Finishing, MutLabels, CompLabels,
    Locals, LiveRecords, Records, RecoverNow, Call, RecoverBegins, NoLoc, Clean, osVars,
    leaseVars
<1> QED BY <1>1, <1>2, <1>3, <1>4, <1>5, <1>6 DEF Calls

LEMMA EnvironmentMirrored == TypeOK /\ Control /\ Own /\ Journaled /\ Aged /\ Mirrored /\ Environment => Mirrored'
<1> SUFFICES ASSUME TypeOK, Control, Own, Journaled, Aged, Mirrored, Environment PROVE Mirrored'
  OBVIOUS
<1>1. CASE \E s \in Foreign : ExternalChange(s)
  BY <1>1, Shapes DEF Mirrored, Alive, Holding, Journaled, Own, SameLease, SameClaim, Mutates,
    Recovers, Control, Calling, Located, Repairing, Granting, Finishing, MutLabels, CompLabels,
    Locals, LiveRecords, Records, ExternalChange, Written, EnvUnchanged, leaseVars
<1>2. CASE \E s \in Foreign : ExternalReplacement(s)
  <2>1. native.inc \in Nat /\ live.rec.inc \in Nat
    BY FieldTypes, RecordFields
  <2>2. native'.inc = native.inc + 1
    BY <1>2 DEF ExternalReplacement, Replacement
  <2>3. UNCHANGED <<phase, active, live, pc, op, loc>>
    BY <1>2 DEF ExternalReplacement, EnvUnchanged, leaseVars
  <2>4. Holding => live.rec.inc <= native.inc
    BY DEF Holding, Aged, Own, SameLease, SameClaim, Mutates, Recovers, Control, Calling,
      Located, Repairing, Granting, Finishing, MutLabels, CompLabels
  <2>5. Holding' => ~Alive'
    BY <2>1, <2>2, <2>3, <2>4 DEF Holding, Granting, Alive
  <2>6. pc = "rc.forget" => Holding
    BY DEF Control, Calling, Located, Holding
  <2> QED BY <2>3, <2>5, <2>6 DEF Mirrored, Holding, Granting
<1>3. CASE ExternalRemoval
  BY <1>3, Shapes DEF Mirrored, Alive, Holding, Journaled, Own, SameLease, SameClaim, Mutates,
    Recovers, Control, Calling, Located, Repairing, Granting, Finishing, MutLabels, CompLabels,
    Locals, LiveRecords, Records, ExternalRemoval, EnvUnchanged, leaseVars
<1>4. CASE Crash
  BY <1>4, Shapes DEF Mirrored, Alive, Holding, Journaled, Own, SameLease, SameClaim, Mutates,
    Recovers, Control, Calling, Located, Repairing, Granting, Finishing, MutLabels, CompLabels,
    Locals, LiveRecords, Records, Crash, Fault, Finish, NoLoc, LeaseEnds, NoLive, LiveAs
<1> QED BY <1>1, <1>2, <1>3, <1>4 DEF Environment

LEMMA ReconcileStartMirrored == TypeOK /\ Control /\ Own /\ Journaled /\ Aged /\ Mirrored /\ ReconcileStart => Mirrored'
<1> SUFFICES ASSUME TypeOK, Control, Own, Journaled, Aged, Mirrored, ReconcileStart PROVE Mirrored'
  OBVIOUS
<1>1. CASE ReconcileStart
  BY <1>1, Shapes DEF Mirrored, Alive, Holding, Journaled, Own, SameLease, SameClaim, Mutates,
    Recovers, Control, Calling, Located, Repairing, Granting, Finishing, MutLabels, CompLabels,
    Locals, LiveRecords, Records, ReconcileStart, ResourceStatus, NoLoc, Clean, osVars,
    leaseVars
<1> QED BY <1>1

LEMMA InitAged == Init => Aged
BY NoLocFields DEF Init, Aged, Own, SameLease, SameClaim, Mutates, Recovers, Control, Calling,
  Located, Repairing, Granting, Finishing, MutLabels, CompLabels

LEMMA InitMirrored == Init => Mirrored
BY DEF Init, Mirrored, Holding, Granting

-----------------------------------------------------------------------------
(***************************************************************************)
(* One claim: without a scan that is older than the lock, the journal      *)
(* never holds two records.                                                *)
(***************************************************************************)
OneClaim ==
    ~ScanBeforeLock =>
       /\ Readable(journal) /\ scan = {}
       /\ Recovers => \A r \in journal : SameClaim(r, loc.rec)

LEMMA MutatingOneClaim == TypeOK /\ Control /\ Own /\ Journaled /\ OneClaim /\ Mutating => OneClaim'
BY MutatingFrame DEF MutatingKeeps, OneClaim, Readable, Own, SameLease, SameClaim, Mutates,
  Recovers, Control, Calling, Located, Repairing, Granting, Finishing, MutLabels, CompLabels

LEMMA CompensatingOneClaim == TypeOK /\ Control /\ Own /\ Journaled /\ OneClaim /\ Compensating => OneClaim'
BY CompensatingFrame DEF CompensatingKeeps, OneClaim, Readable, Own, SameLease, SameClaim,
  Mutates, Recovers, Control, Calling, Located, Repairing, Granting, Finishing, MutLabels,
  CompLabels

LEMMA ResolvingOneClaim == TypeOK /\ Control /\ Own /\ Journaled /\ OneClaim /\ Resolving => OneClaim'
<1> SUFFICES ASSUME TypeOK, Control, Own, Journaled, OneClaim, Resolving PROVE OneClaim'
  OBVIOUS
<1>1. CASE RvRepair
  BY <1>1, Shapes DEF OneClaim, Readable, Journaled, Own, SameLease, SameClaim, Mutates,
    Recovers, Control, Calling, Located, Repairing, Granting, Finishing, MutLabels, CompLabels,
    Locals, LiveRecords, Records, RvRepair, Stay, JournalWrite, Clean, Published, Fault,
    PublishedOrNot, Goto, ResolveErr
<1>2. CASE RvStart
  BY <1>2, Shapes, ZenonT(60) DEF OneClaim, Readable, Journaled, Own, SameLease, SameClaim, Mutates,
    Recovers, Control, Calling, Located, Repairing, Granting, Finishing, MutLabels, CompLabels,
    Locals, LiveRecords, Records, RvStart, Clean, ResolveOk, Goto, Stay, ResolveErr, leaseVars
<1>3. CASE RvRead
  BY <1>3, Shapes DEF OneClaim, Readable, Journaled, Own, SameLease, SameClaim, Mutates,
    Recovers, Control, Calling, Located, Repairing, Granting, Finishing, MutLabels, CompLabels,
    Locals, LiveRecords, Records, RvRead, Clean, Goto, FailsIf, Fault, ResolveErr, Stay,
    leaseVars
<1>4. CASE RvStatus
  BY <1>4, Shapes DEF OneClaim, Readable, Journaled, Own, SameLease, SameClaim, Mutates,
    Recovers, Control, Calling, Located, Repairing, Granting, Finishing, MutLabels, CompLabels,
    Locals, LiveRecords, Records, RvStatus, Stay, Clean, Goto, FailsIf, Fault, ResolveErr,
    leaseVars
<1>5. CASE RvWrite
  BY <1>5, Shapes DEF OneClaim, Readable, Journaled, Own, SameLease, SameClaim, Mutates,
    Recovers, Control, Calling, Located, Repairing, Granting, Finishing, MutLabels, CompLabels,
    Locals, LiveRecords, Records, RvWrite, Stay, JournalWrite, Clean, Published, Fault,
    PublishedOrNot, LiveAs, ResolveOk, Goto, ResolveErr
<1>6. CASE RvResume
  BY <1>6, LeaseRewrites DEF OneClaim, Readable, Recovers, Control, Calling, Located,
    CompLabels, RvResume, ResolveOk, ResolveErr, Goto
<1>7. CASE RvRetain
  BY <1>7, LeaseRewrites DEF OneClaim, Readable, Recovers, Control, Calling, Located,
    CompLabels, RvRetain, ResolveErr, Goto
<1> QED BY <1>1, <1>2, <1>3, <1>4, <1>5, <1>6, <1>7 DEF Resolving

LEMMA LeasingOneClaim == TypeOK /\ Control /\ Own /\ Journaled /\ OneClaim /\ Leasing => OneClaim'
<1> SUFFICES ASSUME TypeOK, Control, Own, Journaled, OneClaim, Leasing PROVE OneClaim'
  OBVIOUS
<1>1. CASE ApObserve
  BY <1>1, Shapes DEF OneClaim, Readable, Journaled, Own, SameLease, SameClaim, Mutates,
    Recovers, Control, Calling, Located, Repairing, Granting, Finishing, MutLabels, CompLabels,
    Locals, LiveRecords, Records, ApObserve, Clean, Goto, FailsIf, Fault, Finish, NoLoc,
    leaseVars
<1>2. CASE ApPersist
  BY <1>2, Shapes DEF OneClaim, Readable, Journaled, Own, SameLease, SameClaim, Mutates,
    Recovers, Control, Calling, Located, Repairing, Granting, Finishing, MutLabels, CompLabels,
    Locals, LiveRecords, Records, ApPersist, Stay, JournalWrite, Clean, Published, Fault,
    PublishedOrNot, LiveAs, Goto
<1>3. CASE ApUnpersist
  BY <1>3, Shapes DEF OneClaim, Readable, Journaled, Own, SameLease, SameClaim, Mutates,
    Recovers, Control, Calling, Located, Repairing, Granting, Finishing, MutLabels, CompLabels,
    Locals, LiveRecords, Records, ApUnpersist, Finish, NoLoc, JournalRemove, Clean, Unlinked,
    Fault, UnlinkedOrNot, leaseVars
<1>4. CASE ApResidue
  BY <1>4, Shapes DEF OneClaim, Readable, Journaled, Own, SameLease, SameClaim, Mutates,
    Recovers, Control, Calling, Located, Repairing, Granting, Finishing, MutLabels, CompLabels,
    Locals, LiveRecords, Records, ApResidue, Clean, Goto, Stay, FailsIf, Fault, Finish, NoLoc,
    leaseVars
<1>5. CASE ApRemove
  BY <1>5, Shapes DEF OneClaim, Readable, Journaled, Own, SameLease, SameClaim, Mutates,
    Recovers, Control, Calling, Located, Repairing, Granting, Finishing, MutLabels, CompLabels,
    Locals, LiveRecords, Records, ApRemove, Finish, NoLoc, JournalRemove, Clean, Unlinked,
    Fault, UnlinkedOrNot, leaseVars
<1>6. CASE ApRetain
  BY <1>6, Shapes DEF OneClaim, Readable, Journaled, Own, SameLease, SameClaim, Mutates,
    Recovers, Control, Calling, Located, Repairing, Granting, Finishing, MutLabels, CompLabels,
    Locals, LiveRecords, Records, ApRetain, Finish, NoLoc, JournalWrite, Clean, Published,
    Fault, PublishedOrNot, leaseVars
<1>7. CASE Done
  BY <1>7, Shapes DEF OneClaim, Readable, Journaled, Own, SameLease, SameClaim, Mutates,
    Recovers, Control, Calling, Located, Repairing, Granting, Finishing, MutLabels, CompLabels,
    Locals, LiveRecords, Records, Done, Clean, Finish, NoLoc
<1>8. CASE UpRead
  BY <1>8, Shapes DEF OneClaim, Readable, Journaled, Own, SameLease, SameClaim, Mutates,
    Recovers, Control, Calling, Located, Repairing, Granting, Finishing, MutLabels, CompLabels,
    Locals, LiveRecords, Records, UpRead, Clean, Goto, Finish, NoLoc, FailsIf, Fault, leaseVars
<1>9. CASE UpPrepare
  BY <1>9, LeaseRewrites DEF OneClaim, Readable, Recovers, Control, Calling, Located,
    CompLabels, UpPrepare, Goto
<1>10. CASE UpUnprepare
  BY <1>10, LeaseRewrites DEF OneClaim, Readable, Recovers, Control, Calling, Located,
    CompLabels, UpUnprepare, Finish
<1>11. CASE UpResidue
  BY <1>11, LeaseRewrites DEF OneClaim, Readable, Recovers, Control, Calling, Located,
    CompLabels, UpResidue, Finish
<1>12. CASE RsStatus
  BY <1>12, Shapes DEF OneClaim, Readable, Journaled, Own, SameLease, SameClaim, Mutates,
    Recovers, Control, Calling, Located, Repairing, Granting, Finishing, MutLabels, CompLabels,
    Locals, LiveRecords, Records, RsStatus, Stay, Clean, Goto, Fault, leaseVars
<1>13. CASE RsRead
  <2>1. /\ pc' \in {"rs.fail", "rs.remove", "rv.start", "comp.status"}
        /\ pc' = "comp.status" => loc'.ret = "restore"
    <3>1. CASE RsCompare
      BY <3>1, RsCompareEffect
    <3> QED BY <1>13, <3>1 DEF RsRead, Goto
  <2> QED BY <1>13, <2>1 DEF OneClaim, Readable, Recovers, CompLabels, RsRead
<1>14. CASE RsReread
  <2>1. /\ pc' \in {"rs.fail", "rs.remove", "rv.start", "comp.status"}
        /\ pc' = "comp.status" => loc'.ret = "restore"
    <3>1. CASE RsCompare
      BY <3>1, RsCompareEffect
    <3> QED BY <1>14, <3>1 DEF RsReread, Goto
  <2> QED BY <1>14, <2>1 DEF OneClaim, Readable, Recovers, CompLabels, RsReread
<1>15. CASE RsRetain
  BY <1>15, LeaseRewrites DEF OneClaim, Readable, Recovers, Control, Calling, Located,
    CompLabels, RsRetain, Goto
<1>16. CASE RsRemove
  BY <1>16, Shapes DEF OneClaim, Readable, Journaled, Own, SameLease, SameClaim, Mutates,
    Recovers, Control, Calling, Located, Repairing, Granting, Finishing, MutLabels, CompLabels,
    Locals, LiveRecords, Records, RsRemove, JournalRemove, Clean, Unlinked, Fault,
    UnlinkedOrNot, LeaseEnds, NoLive, LiveAs, Finish, NoLoc, Goto, Stay
<1>17. CASE RsFail
  BY <1>17, Shapes DEF OneClaim, Readable, Journaled, Own, SameLease, SameClaim, Mutates,
    Recovers, Control, Calling, Located, Repairing, Granting, Finishing, MutLabels, CompLabels,
    Locals, LiveRecords, Records, RsFail, Finish, NoLoc, Clean, LeaseEnds, NoLive, LiveAs
<1>18. CASE AbRemove
  BY <1>18, Shapes DEF OneClaim, Readable, Journaled, Own, SameLease, SameClaim, Mutates,
    Recovers, Control, Calling, Located, Repairing, Granting, Finishing, MutLabels, CompLabels,
    Locals, LiveRecords, Records, AbRemove, Finish, NoLoc, JournalRemove, Clean, Unlinked,
    Fault, UnlinkedOrNot, LeaseEnds, NoLive, LiveAs
<1> QED BY <1>1, <1>2, <1>3, <1>4, <1>5, <1>6, <1>7, <1>8, <1>9, <1>10, <1>11, <1>12, <1>13, <1>14,
  <1>15, <1>16, <1>17, <1>18 DEF Leasing

LEMMA ReconcilingOneClaim == TypeOK /\ Control /\ Own /\ Journaled /\ OneClaim /\ Reconciling => OneClaim'
<1> SUFFICES ASSUME TypeOK, Control, Own, Journaled, OneClaim, Reconciling PROVE OneClaim'
  OBVIOUS
<1>1. CASE RcForget
  <2>1. journal' \subseteq journal /\ pc' = "idle" /\ scan' = scan
    BY <1>1 DEF RcForget, JournalRemove, Unlinked, UnlinkedOrNot, Finish
  <2> QED BY <2>1 DEF OneClaim, Readable, Recovers, CompLabels
<1>2. CASE RcFirst
  BY <1>2, Shapes DEF OneClaim, Readable, Journaled, Own, SameLease, SameClaim, Mutates,
    Recovers, Control, Calling, Located, Repairing, Granting, Finishing, MutLabels, CompLabels,
    Locals, LiveRecords, Records, RcFirst, Clean, Goto, Stay, Fault, Finish, NoLoc, leaseVars
<1>3. CASE RcSecond
  BY <1>3, Shapes DEF OneClaim, Readable, Journaled, Own, SameLease, SameClaim, Mutates,
    Recovers, Control, Calling, Located, Repairing, Granting, Finishing, MutLabels, CompLabels,
    Locals, LiveRecords, Records, RcSecond, Clean, Goto, Stay, FailsIf, Fault, Finish, NoLoc,
    leaseVars
<1>4. CASE RcPrepare
  BY <1>4, Shapes DEF OneClaim, Readable, Journaled, Own, SameLease, SameClaim, Mutates,
    Recovers, Control, Calling, Located, Repairing, Granting, Finishing, MutLabels, CompLabels,
    Locals, LiveRecords, Records, RcPrepare, Stay, JournalWrite, Clean, Published, Fault,
    PublishedOrNot, LiveAs, Goto
<1>5. CASE RcUnprepare
  BY <1>5, Shapes DEF OneClaim, Readable, Journaled, Own, SameLease, SameClaim, Mutates,
    Recovers, Control, Calling, Located, Repairing, Granting, Finishing, MutLabels, CompLabels,
    Locals, LiveRecords, Records, RcUnprepare, Finish, NoLoc, JournalWrite, Clean, Published,
    Fault, PublishedOrNot
<1>6. CASE RcResidue
  BY <1>6, Shapes DEF OneClaim, Readable, Journaled, Own, SameLease, SameClaim, Mutates,
    Recovers, Control, Calling, Located, Repairing, Granting, Finishing, MutLabels, CompLabels,
    Locals, LiveRecords, Records, RcResidue, Finish, NoLoc, Clean, LiveCompensating, LiveAs
<1> QED BY <1>1, <1>2, <1>3, <1>4, <1>5, <1>6 DEF Reconciling

LEMMA RecoveringOneClaim == TypeOK /\ Control /\ Own /\ Journaled /\ OneClaim /\ Recovering => OneClaim'
<1> SUFFICES ASSUME TypeOK, Control, Own, Journaled, OneClaim, Recovering PROVE OneClaim'
  OBVIOUS
<1>1. CASE RecoverLock
  BY <1>1, Shapes DEF OneClaim, Readable, Journaled, Own, SameLease, SameClaim, Mutates,
    Recovers, Control, Calling, Located, Repairing, Granting, Finishing, MutLabels, CompLabels,
    Locals, LiveRecords, Records, RecoverLock, Clean, RecoverBegins, NoLoc, leaseVars
<1>2. CASE RecStatus
  BY <1>2, Shapes DEF OneClaim, Readable, Journaled, Own, SameLease, SameClaim, Mutates,
    Recovers, Control, Calling, Located, Repairing, Granting, Finishing, MutLabels, CompLabels,
    Locals, LiveRecords, Records, RecStatus, Clean, Goto, Stay, Fault, Finish, NoLoc, leaseVars
<1>3. CASE RecCapture
  <2>1. loc'.rec = loc.rec \/ pc' = "idle"
    BY <1>3, Shapes DEF RecCapture, Goto, Stay, Finish, Locals
  <2>2. Recovers /\ UNCHANGED <<journal, scan>>
    BY <1>3 DEF RecCapture, Recovers
  <2> QED BY <2>1, <2>2 DEF OneClaim, Recovers, CompLabels
<1>4. CASE RecRemove
  BY <1>4, Shapes DEF OneClaim, Readable, Journaled, Own, SameLease, SameClaim, Mutates,
    Recovers, Control, Calling, Located, Repairing, Granting, Finishing, MutLabels, CompLabels,
    Locals, LiveRecords, Records, RecRemove, JournalRemove, Clean, Unlinked, Fault,
    UnlinkedOrNot, Goto, NoLoc, Finish, leaseVars
<1>5. CASE RecRetain
  BY <1>5, Shapes DEF OneClaim, Readable, Journaled, Own, SameLease, SameClaim, Mutates,
    Recovers, Control, Calling, Located, Repairing, Granting, Finishing, MutLabels, CompLabels,
    Locals, LiveRecords, Records, RecRetain, Finish, NoLoc, JournalWrite, Clean, Published,
    Fault, PublishedOrNot, leaseVars
<1> QED BY <1>1, <1>2, <1>3, <1>4, <1>5 DEF Recovering

LEMMA CallsOneClaim == TypeOK /\ Control /\ Own /\ Journaled /\ OneClaim /\ Calls => OneClaim'
<1> SUFFICES ASSUME TypeOK, Control, Own, Journaled, OneClaim, Calls PROVE OneClaim'
  OBVIOUS
<1>1. CASE \E plan \in Plans : ApplyStart(plan)
  <2>1. PICK plan \in Plans : ApplyStart(plan)
    BY <1>1
  <2>2. UNCHANGED <<journal, scan>> /\ \A x, y \in journal : x = y
    BY <2>1 DEF ApplyStart, Readable
  <2>3. pc' = "ap.observe" \/ (pc' = "rec.status" /\ loc'.rec \in journal)
    BY <2>1, ApplyStartEffect
  <2> QED BY <2>2, <2>3 DEF OneClaim, Readable, Recovers, CompLabels, SameClaim, SameLease
<1>2. CASE \E plan \in Plans : UpdateStart(plan)
  BY <1>2, Shapes DEF OneClaim, Readable, Journaled, Own, SameLease, SameClaim, Mutates,
    Recovers, Control, Calling, Located, Repairing, Granting, Finishing, MutLabels, CompLabels,
    Locals, LiveRecords, Records, UpdateStart, Call, NoLoc, Clean, leaseVars
<1>3. CASE \E how \in {"restore", "drop"} : RestoreStart(how)
  BY <1>3, Shapes DEF OneClaim, Readable, Journaled, Own, SameLease, SameClaim, Mutates,
    Recovers, Control, Calling, Located, Repairing, Granting, Finishing, MutLabels, CompLabels,
    Locals, LiveRecords, Records, RestoreStart, Call, NoLoc, Clean
<1>4. CASE \E how \in {"abandon", "drop", "discard"} : AbandonStart(how)
  BY <1>4, Shapes DEF OneClaim, Readable, Journaled, Own, SameLease, SameClaim, Mutates,
    Recovers, Control, Calling, Located, Repairing, Granting, Finishing, MutLabels, CompLabels,
    Locals, LiveRecords, Records, AbandonStart, Call, NoLoc, Clean
<1>5. CASE RecoverScan
  BY <1>5, Shapes DEF OneClaim, Readable, Journaled, Own, SameLease, SameClaim, Mutates,
    Recovers, Control, Calling, Located, Repairing, Granting, Finishing, MutLabels, CompLabels,
    Locals, LiveRecords, Records, RecoverScan, leaseVars
<1>6. CASE RecoverNow
  BY <1>6, Shapes DEF OneClaim, Readable, Journaled, Own, SameLease, SameClaim, Mutates,
    Recovers, Control, Calling, Located, Repairing, Granting, Finishing, MutLabels, CompLabels,
    Locals, LiveRecords, Records, RecoverNow, Call, RecoverBegins, NoLoc, Clean, leaseVars
<1> QED BY <1>1, <1>2, <1>3, <1>4, <1>5, <1>6 DEF Calls

LEMMA EnvironmentOneClaim == TypeOK /\ Control /\ Own /\ Journaled /\ OneClaim /\ Environment => OneClaim'
<1> SUFFICES ASSUME TypeOK, Control, Own, Journaled, OneClaim, Environment PROVE OneClaim'
  OBVIOUS
<1>1. CASE \E s \in Foreign : ExternalChange(s)
  BY <1>1, Shapes DEF OneClaim, Readable, Journaled, Own, SameLease, SameClaim, Mutates,
    Recovers, Control, Calling, Located, Repairing, Granting, Finishing, MutLabels, CompLabels,
    Locals, LiveRecords, Records, ExternalChange, EnvUnchanged, leaseVars
<1>2. CASE \E s \in Foreign : ExternalReplacement(s)
  BY <1>2, Shapes DEF OneClaim, Readable, Journaled, Own, SameLease, SameClaim, Mutates,
    Recovers, Control, Calling, Located, Repairing, Granting, Finishing, MutLabels, CompLabels,
    Locals, LiveRecords, Records, ExternalReplacement, EnvUnchanged, leaseVars
<1>3. CASE ExternalRemoval
  BY <1>3, Shapes DEF OneClaim, Readable, Journaled, Own, SameLease, SameClaim, Mutates,
    Recovers, Control, Calling, Located, Repairing, Granting, Finishing, MutLabels, CompLabels,
    Locals, LiveRecords, Records, ExternalRemoval, EnvUnchanged, leaseVars
<1>4. CASE Crash
  BY <1>4, Shapes DEF OneClaim, Readable, Journaled, Own, SameLease, SameClaim, Mutates,
    Recovers, Control, Calling, Located, Repairing, Granting, Finishing, MutLabels, CompLabels,
    Locals, LiveRecords, Records, Crash, Fault, Finish, NoLoc, LeaseEnds, NoLive, LiveAs
<1> QED BY <1>1, <1>2, <1>3, <1>4 DEF Environment

LEMMA ReconcileStartOneClaim == TypeOK /\ Control /\ Own /\ Journaled /\ OneClaim /\ ReconcileStart => OneClaim'
<1> SUFFICES ASSUME TypeOK, Control, Own, Journaled, OneClaim, ReconcileStart PROVE OneClaim'
  OBVIOUS
<1>1. CASE ReconcileStart
  BY <1>1, Shapes DEF OneClaim, Readable, Journaled, Own, SameLease, SameClaim, Mutates,
    Recovers, Control, Calling, Located, Repairing, Granting, Finishing, MutLabels, CompLabels,
    Locals, LiveRecords, Records, ReconcileStart, NoLoc, Clean, leaseVars
<1> QED BY <1>1

LEMMA InitOneClaim == Init => OneClaim
BY NoLocFields DEF Init, OneClaim, Readable, Own, SameLease, SameClaim, Mutates, Recovers,
  Control, Calling, Located, Repairing, Granting, Finishing, MutLabels, CompLabels

-----------------------------------------------------------------------------
(***************************************************************************)
(* The theorems.                                                           *)
(***************************************************************************)
\* The inductive invariant.
StoreInv == Control /\ Own /\ Journaled /\ Aged /\ Mirrored /\ OneClaim

LEMMA InitStore == Init => StoreInv
BY InitControl, InitOwn, InitJournaled, InitAged, InitMirrored, InitOneClaim DEF StoreInv

LEMMA StoreStep == TypeOK /\ StoreInv /\ [Next]_vars => StoreInv'
<1> SUFFICES ASSUME TypeOK, StoreInv, [Next]_vars PROVE StoreInv'
  OBVIOUS
<1> USE DEF StoreInv
<1>1. CASE UNCHANGED vars
  BY <1>1 DEF vars, osVars, leaseVars, Calling, Located, Repairing, SameLease, SameClaim,
    Mutates, Recovers, Granting, Alive, Holding, Control, Own, Journaled, Aged, Mirrored,
    OneClaim
<1>2. CASE Mutating
  BY <1>2, MutatingControl, MutatingOwn, MutatingJournaled, MutatingAged, MutatingMirrored,
    MutatingOneClaim
<1>3. CASE Compensating
  BY <1>3, CompensatingControl, CompensatingOwn, CompensatingJournaled, CompensatingAged,
    CompensatingMirrored, CompensatingOneClaim
<1>4. CASE Resolving
  BY <1>4, ResolvingControl, ResolvingOwn, ResolvingJournaled, ResolvingAged, ResolvingMirrored,
    ResolvingOneClaim
<1>5. CASE Leasing
  BY <1>5, LeasingControl, LeasingOwn, LeasingJournaled, LeasingAged, LeasingMirrored,
    LeasingOneClaim
<1>6. CASE Reconciling
  BY <1>6, ReconcilingControl, ReconcilingOwn, ReconcilingJournaled, ReconcilingAged,
    ReconcilingMirrored, ReconcilingOneClaim
<1>7. CASE Recovering
  BY <1>7, RecoveringControl, RecoveringOwn, RecoveringJournaled, RecoveringAged,
    RecoveringMirrored, RecoveringOneClaim
<1>8. CASE Calls
  BY <1>8, CallsControl, CallsOwn, CallsJournaled, CallsAged, CallsMirrored, CallsOneClaim
<1>9. CASE Environment
  BY <1>9, EnvironmentControl, EnvironmentOwn, EnvironmentJournaled, EnvironmentAged,
    EnvironmentMirrored, EnvironmentOneClaim
<1>10. CASE ReconcileStart
  BY <1>10, ReconcileStartControl, ReconcileStartOwn, ReconcileStartJournaled,
    ReconcileStartAged, ReconcileStartMirrored, ReconcileStartOneClaim
<1> QED BY <1>1, <1>2, <1>3, <1>4, <1>5, <1>6, <1>7, <1>8, <1>9, <1>10 DEF Next, Step

THEOREM StoreInvariant == Spec => []StoreInv
<1>1. TypeOK /\ StoreInv /\ [Next]_vars => StoreInv'
  BY StoreStep
<1> QED BY <1>1, InitStore, EngineTypeCorrect, PTL DEF Spec

(***************************************************************************)
(* JournalMirrorsLease: whatever fails in an update or a reconcile pass,   *)
(* between calls the journal of an active lease whose interface is still   *)
(* there holds exactly the record the lease keeps in memory, unless        *)
(* persist_live left a repair or resolve_live a verified mutation.         *)
(***************************************************************************)
THEOREM JournalMirrored == Spec => []JournalMirrorsLease
<1>1. StoreInv => JournalMirrorsLease
  <2> SUFFICES ASSUME StoreInv, pc = "idle", active, Alive, ~live.repair, live.st # "Verified"
               PROVE  IF live.st = "Compensating"
                      THEN \E r \in journal : r.lease = live.rec.lease /\ r.before = live.rec.before
                      ELSE journal = {live.rec}
    BY DEF JournalMirrorsLease, Alive
  <2>1. journal = {live.rec}
    BY DEF StoreInv, Mirrored, Holding
  <2> QED BY <2>1
<1> QED BY <1>1, StoreInvariant, PTL

(***************************************************************************)
(* SingleClaim: as long as recover_stale loses no resource between its     *)
(* journal scan and its lock, no sequence of calls, failures and crashes   *)
(* leaves two records for the resource, so records() never rejects the     *)
(* journal as corrupt. (With the race the property fails: run scan_race.)  *)
(***************************************************************************)
THEOREM SingleClaimed == ASSUME ~ScanBeforeLock PROVE Spec => []SingleClaim
<1>1. StoreInv => SingleClaim
  BY DEF StoreInv, OneClaim, SingleClaim
<1> QED BY <1>1, StoreInvariant, PTL
=============================================================================
