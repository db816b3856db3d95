------------------------- MODULE EnforceWatchProofs -------------------------
(* Proofs about EnforceWatch, for any finite set of leases. *)
EXTENDS EnforceWatch, FiniteSetTheorems, TLAPS

\* The leases that took a reference and have not given it back.
Counted == {l \in Leases : pc[l] \in {"rescan", "active", "release"}}

(***************************************************************************)
(* The inductive invariant.                                                *)
(***************************************************************************)
\* A lease whose ensure failed may give back a reference it never took, so
\* the count is only bounded by the leases that took one.
RefsBounded == refs <= Cardinality(Counted)

\* A count of zero means that nothing is observed, any other that a worker
\* looks after the watch.
RefsMeanFeed ==
    /\ refs = 0 => handle = "none" /\ feed = NoFeed /\ ~waiting
    /\ refs # 0 => feed \in Leases /\ worker[feed] # "off"

\* While nothing starts beside a failed ensure, the count is exact.
RefsExact ==
    /\ refs = Cardinality(Counted)
    /\ (\E l \in Leases : pc[l] = "failing") => refs = 0

Inv == TypeOK /\ RefsBounded /\ RefsMeanFeed /\ (~Overlap => RefsExact)

-----------------------------------------------------------------------------
LEMMA CountedFinite ==
    IsFiniteSet(Counted) /\ Cardinality(Counted) \in Nat
<1>1. Counted \in SUBSET Leases
  BY DEF Counted
<1> QED BY <1>1, EnforceWatchAssumption, FS_Subset, FS_CardinalityType

\* The count of leases when one takes a reference, and when one gives it back.
LEMMA CountedAdd ==
    ASSUME TypeOK, NEW l \in Leases, pc[l] = "registered", Goto(l, "rescan")
    PROVE  Cardinality(Counted') = Cardinality(Counted) + 1
<1>1. Counted' = Counted \cup {l} /\ l \notin Counted
  BY DEF Counted, Goto, TypeOK
<1> QED BY <1>1, CountedFinite, FS_AddElement

LEMMA CountedRemove ==
    ASSUME TypeOK, NEW l \in Leases, pc[l] = "release", Goto(l, "ended")
    PROVE  Cardinality(Counted') = Cardinality(Counted) - 1
<1>1. Counted' = Counted \ {l} /\ l \in Counted
  BY DEF Counted, Goto, TypeOK
<1> QED BY <1>1, CountedFinite, FS_RemoveElement

\* Every other move of a lease leaves the count alone.
LEMMA CountedSame ==
    ASSUME TypeOK, NEW l \in Leases, NEW label, Goto(l, label),
           (pc[l] \in {"rescan", "active", "release"}) <=> (label \in {"rescan", "active", "release"})
    PROVE  Counted' = Counted
BY DEF Counted, Goto, TypeOK

LEMMA InitInv == Init => Inv
<1> SUFFICES ASSUME Init PROVE Inv
  OBVIOUS
<1>1. TypeOK
  BY DEF Init, TypeOK
<1>2. Counted = {}
  BY DEF Init, Counted
<1>3. Cardinality(Counted) = 0
  BY <1>2, FS_EmptySet
<1> QED BY <1>1, <1>3 DEF Init, Inv, RefsBounded, RefsMeanFeed, RefsExact

LEMMA TypeStep == TypeOK /\ [Next]_vars => TypeOK'
<1> SUFFICES ASSUME TypeOK, [Next]_vars PROVE TypeOK'
  OBVIOUS
<1> USE EnforceWatchAssumption DEF TypeOK
<1>1. ASSUME NEW l \in Leases, Register(l) PROVE TypeOK'
  BY <1>1 DEF Register, Goto
<1>2. ASSUME NEW l \in Leases, EnsureOk(l) PROVE TypeOK'
  BY <1>2 DEF EnsureOk, MayEnsure, Goto
<1>3. ASSUME NEW l \in Leases, EnsureFail(l) PROVE TypeOK'
  BY <1>3 DEF EnsureFail, MayEnsure, Fault, Goto
<1>4. ASSUME NEW l \in Leases, Rescan(l) PROVE TypeOK'
  BY <1>4 DEF Rescan, NotifyActive, Goto
<1>5. ASSUME NEW l \in Leases, Release(l) PROVE TypeOK'
  <2>1. waiting' \in BOOLEAN
    BY <1>5, Zenon DEF Release
  <2>2. refs' \in Nat /\ feed' \in Leases \cup {NoFeed} /\ handle' \in {"none", "up", "down"}
    BY <1>5 DEF Release
  <2> QED BY <1>5, <2>1, <2>2 DEF Release, Goto
<1>6. ASSUME NEW l \in Leases, End(l) PROVE TypeOK'
  BY <1>6 DEF End, Goto
<1>7. ASSUME NEW w \in Leases, WLoop(w) PROVE TypeOK'
  BY <1>7 DEF WLoop, WStep
<1>8. ASSUME NEW w \in Leases, WRefresh(w) PROVE TypeOK'
  <2>1. waiting' \in BOOLEAN
    BY <1>8, Zenon DEF WRefresh
  <2>2. faults' \in Nat /\ handle' \in {"none", "up", "down"}
    BY <1>8 DEF WRefresh, Fault
  <2> QED BY <1>8, <2>1, <2>2 DEF WRefresh, WStep
<1>9. ASSUME NEW w \in Leases, WNotify(w) PROVE TypeOK'
  BY <1>9 DEF WNotify, WStep, NotifyActive
<1>10. ASSUME NEW l \in Leases, ExternalChange(l) PROVE TypeOK'
  BY <1>10 DEF ExternalChange
<1>11. ASSUME Elapse PROVE TypeOK'
  BY <1>11 DEF Elapse
<1>12. ASSUME WatchDies PROVE TypeOK'
  BY <1>12 DEF WatchDies, Fault
<1>13. ASSUME UNCHANGED vars PROVE TypeOK'
  BY <1>13 DEF vars
<1> QED
  BY <1>1, <1>2, <1>3, <1>4, <1>5, <1>6, <1>7, <1>8, <1>9, <1>10, <1>11, <1>12, <1>13
  DEF Next, LeaseStep, WorkerStep

\* A step of the worker, of time or of another program keeps the invariant.
LEMMA QuietStep ==
    ASSUME Inv, TypeOK', UNCHANGED <<refs, feed, pc>>,
           refs = 0 => UNCHANGED <<handle, waiting>>,
           refs # 0 => worker'[feed] # "off"
    PROVE  Inv'
<1>1. Counted' = Counted
  BY DEF Counted
<1> QED BY <1>1 DEF Inv, RefsBounded, RefsMeanFeed, RefsExact

\* So does a lease's step that touches neither the count nor the feed.
LEMMA LeaseMove ==
    ASSUME Inv, TypeOK', NEW l \in Leases, NEW label, Goto(l, label), label # "failing",
           (pc[l] \in {"rescan", "active", "release"}) <=> (label \in {"rescan", "active", "release"}),
           UNCHANGED <<refs, feed, handle, waiting, worker>>
    PROVE  Inv'
<1>1. Counted' = Counted
  BY CountedSame DEF Inv
<1>2. (\E k \in Leases : pc'[k] = "failing") => (\E k \in Leases : pc[k] = "failing")
  BY DEF Goto, Inv, TypeOK
<1> QED BY <1>1, <1>2 DEF Inv, RefsBounded, RefsMeanFeed, RefsExact

LEMMA EnsureOkInv ==
    ASSUME Inv, TypeOK', NEW l \in Leases, EnsureOk(l)
    PROVE  Inv'
<1>1. Cardinality(Counted') = Cardinality(Counted) + 1
  BY CountedAdd DEF Inv, EnsureOk, MayEnsure
<1>2. RefsBounded'
  BY <1>1, CountedFinite DEF Inv, TypeOK, RefsBounded, EnsureOk
<1>3. RefsMeanFeed'
  BY DEF Inv, TypeOK, RefsMeanFeed, EnsureOk
<1>4. ASSUME ~Overlap PROVE RefsExact'
  <2>1. \A k \in Leases : pc'[k] # "failing"
    BY <1>4 DEF EnsureOk, MayEnsure, Goto, Inv, TypeOK
  <2> QED BY <1>1, <1>4, <2>1 DEF Inv, RefsExact, EnsureOk
<1> QED BY <1>2, <1>3, <1>4 DEF Inv

LEMMA EnsureFailInv ==
    ASSUME Inv, TypeOK', NEW l \in Leases, EnsureFail(l)
    PROVE  Inv'
<1>1. Counted' = Counted
  BY CountedSame DEF Inv, EnsureFail, MayEnsure
<1>2. RefsMeanFeed'
  BY DEF Inv, RefsMeanFeed, EnsureFail
<1> QED BY <1>1, <1>2 DEF Inv, RefsBounded, RefsExact, EnsureFail

LEMMA ReleaseInv ==
    ASSUME Inv, TypeOK', NEW l \in Leases, Release(l)
    PROVE  Inv'
<1>1. Cardinality(Counted') = Cardinality(Counted) - (IF pc[l] = "release" THEN 1 ELSE 0)
  <2>1. CASE pc[l] = "release"
    <3>1. Cardinality(Counted') = Cardinality(Counted) - 1
      BY <2>1, CountedRemove DEF Inv, Release
    <3> QED BY <2>1, <3>1
  <2>2. CASE pc[l] = "failing"
    <3>1. Counted' = Counted
      BY <2>2, CountedSame DEF Inv, Release
    <3> QED BY <2>2, <3>1, CountedFinite
  <2> QED BY <2>1, <2>2 DEF Release
<1>2. pc[l] = "release" => Cardinality(Counted) # 0
  <2>1. pc[l] = "release" => Counted # {}
    BY DEF Counted
  <2> QED BY <2>1, CountedFinite, FS_EmptySet
<1>3. RefsBounded'
  BY <1>1, <1>2, CountedFinite DEF Inv, TypeOK, RefsBounded, Release
<1>4. RefsMeanFeed'
  BY DEF Inv, TypeOK, RefsMeanFeed, Release
<1>5. ASSUME ~Overlap PROVE RefsExact'
  <2>1. (\E k \in Leases : pc'[k] = "failing") => (\E k \in Leases : pc[k] = "failing")
    BY DEF Release, Goto, Inv, TypeOK
  <2>2. pc[l] = "failing" => refs = 0
    BY <1>5 DEF Inv, RefsExact
  <2>3. pc[l] = "release" => refs # 0
    BY <1>2, <1>5 DEF Inv, RefsExact
  <2> QED BY <1>1, <1>5, <2>1, <2>2, <2>3 DEF Inv, TypeOK, RefsExact, Release
<1> QED BY <1>3, <1>4, <1>5 DEF Inv

LEMMA NextInv == Inv /\ [Next]_vars => Inv'
<1> SUFFICES ASSUME Inv, [Next]_vars PROVE Inv'
  OBVIOUS
<1>0. TypeOK'
  BY TypeStep DEF Inv
<1>1. ASSUME NEW l \in Leases, Register(l) PROVE Inv'
  BY <1>0, <1>1, LeaseMove DEF Register
<1>2. ASSUME NEW l \in Leases, EnsureOk(l) PROVE Inv'
  BY <1>0, <1>2, EnsureOkInv
<1>3. ASSUME NEW l \in Leases, EnsureFail(l) PROVE Inv'
  BY <1>0, <1>3, EnsureFailInv
<1>4. ASSUME NEW l \in Leases, Rescan(l) PROVE Inv'
  BY <1>0, <1>4, LeaseMove DEF Rescan
<1>5. ASSUME NEW l \in Leases, Release(l) PROVE Inv'
  BY <1>0, <1>5, ReleaseInv
<1>6. ASSUME NEW l \in Leases, End(l) PROVE Inv'
  BY <1>0, <1>6, LeaseMove DEF End
<1>7. ASSUME NEW w \in Leases, WLoop(w) PROVE Inv'
  <2>1. refs # 0 => worker'[feed] # "off"
    BY <1>7 DEF Inv, TypeOK, RefsMeanFeed, WLoop, WStep
  <2> QED BY <1>0, <1>7, <2>1, QuietStep DEF WLoop
<1>8. ASSUME NEW w \in Leases, WRefresh(w) PROVE Inv'
  <2>1. refs # 0 => worker'[feed] # "off"
    BY <1>8 DEF Inv, TypeOK, RefsMeanFeed, WRefresh, WStep
  <2>2. refs = 0 => UNCHANGED <<handle, waiting>>
    BY <1>8 DEF WRefresh
  <2> QED BY <1>0, <1>8, <2>1, <2>2, QuietStep DEF WRefresh
<1>9. ASSUME NEW w \in Leases, WNotify(w) PROVE Inv'
  <2>1. refs # 0 => worker'[feed] # "off"
    BY <1>9 DEF Inv, TypeOK, RefsMeanFeed, WNotify, WStep
  <2> QED BY <1>0, <1>9, <2>1, QuietStep DEF WNotify
<1>10. ASSUME NEW l \in Leases, ExternalChange(l) PROVE Inv'
  BY <1>0, <1>10, QuietStep DEF ExternalChange, Inv, RefsMeanFeed
<1>11. ASSUME Elapse PROVE Inv'
  BY <1>0, <1>11, QuietStep DEF Elapse, Inv, RefsMeanFeed
<1>12. ASSUME WatchDies PROVE Inv'
  BY <1>0, <1>12, QuietStep DEF WatchDies, Inv, RefsMeanFeed
<1>13. ASSUME UNCHANGED vars PROVE Inv'
  BY <1>0, <1>13, QuietStep DEF vars, Inv, RefsMeanFeed
<1> QED
  BY <1>1, <1>2, <1>3, <1>4, <1>5, <1>6, <1>7, <1>8, <1>9, <1>10, <1>11, <1>12, <1>13
  DEF Next, LeaseStep, WorkerStep

(***************************************************************************)
(* Every reachable state of the observation (src/src/manager.rs,           *)
(* EnforceState) is well typed; in particular release_enforce_watch never  *)
(* takes the count of references below zero, even when it gives back one   *)
(* that ensure_enforce_watch never took.                                   *)
(***************************************************************************)
THEOREM WatchTypeCorrect == Spec => []TypeOK
<1>1. Init => TypeOK
  BY InitInv DEF Inv
<1> QED BY <1>1, TypeStep, PTL DEF Spec

-----------------------------------------------------------------------------
(***************************************************************************)
(* No watch and no feed outlives the last lease, however applies that fail *)
(* to start the watch overlap with others (ensure_enforce_watch and        *)
(* release_enforce_watch): the count may fall short, never exceed.         *)
(***************************************************************************)
THEOREM WatchLastLeaseStops == Spec => []LastLeaseStops
<1>1. Inv => LastLeaseStops
  <2> SUFFICES ASSUME Inv, \A l \in Leases : pc[l] \in {"new", "registered", "failing", "ended"}
               PROVE  refs = 0 /\ handle = "none" /\ feed = NoFeed
    BY DEF LastLeaseStops
  <2>1. Counted = {}
    BY DEF Counted
  <2>2. refs = 0
    BY <2>1, FS_EmptySet DEF Inv, TypeOK, RefsBounded
  <2> QED BY <2>2 DEF Inv, RefsMeanFeed
<1> QED BY InitInv, NextInv, <1>1, PTL DEF Spec

(***************************************************************************)
(* While no lease starts beside one whose watch failed to start, every     *)
(* active Enforce lease has a feed and a worker that looks after the       *)
(* watch. The assumption is needed: the run watch_refs violates the        *)
(* property without it.                                                    *)
(***************************************************************************)
THEOREM WatchLeaseObserved ==
    ASSUME ~Overlap
    PROVE  Spec => []LeaseObserved
<1>1. Inv => LeaseObserved
  <2> SUFFICES ASSUME Inv, NEW l \in Leases, pc[l] \in {"rescan", "active"}
               PROVE  refs > 0 /\ feed # NoFeed /\ worker[feed] # "off"
    BY DEF LeaseObserved
  <2>1. Counted # {}
    BY DEF Counted
  <2>2. refs # 0
    BY <2>1, CountedFinite, FS_EmptySet DEF Inv, RefsExact
  <2> QED BY <2>2, EnforceWatchAssumption DEF Inv, TypeOK, RefsMeanFeed
<1> QED BY InitInv, NextInv, <1>1, PTL DEF Spec
=============================================================================
