---------------------------- MODULE SessionProofs ----------------------------
(***************************************************************************)
(* Proofs about the parts of a session: the public watch, the pacing of the*)
(* reconciler's passes, a lease over several resources, and the locks. The *)
(* first three are instances of PublicWatch, Pacing and LeaseSet in        *)
(* Session, and their inductive invariants speak of the part that runs;    *)
(* Session extends Locks, and its theorems are those of Locks by itself.   *)
(***************************************************************************)
EXTENDS Session, Sequences, FiniteSetTheorems, WellFoundedInduction, TLAPS

(* The public watch *)

\* The stop of a watch: the flag is raised before the workers are joined, `by` is
\* the thread that stops it, and a stop that is over left the worker joined unless
\* it came from within the worker's own callback.
StopOrder ==
    /\ spc \in {"wake", "join", "stopped"} => flag = TRUE
    /\ by = "none" <=> spc = "live"
    /\ by = "callback" =>
          \/ wpc = "callback"
          \/ spc = "stopped" /\ wpc \in {"deliver", "recv", "off"}
    /\ spc = "stopped" => by = "callback" \/ wpc = "off"

StopInv == part = "public" => StopOrder

\* The native watcher's steps leave the event worker and the stop alone.
LEMMA NativeFrame ==
    ASSUME public!Native
    PROVE  UNCHANGED public!OutsideNative
<1>1. CASE public!NativeWait
  BY <1>1, Zenon DEF public!NativeWait
<1>2. CASE public!Unnamed
  BY <1>2 DEF public!Unnamed
<1>3. CASE public!Rearm \/ public!Emit \/ public!Insert \/ public!Wake \/ public!NativeEnd
  BY <1>3 DEF public!Rearm, public!Emit, public!Insert, public!Wake, public!NativeEnd
<1>4. CASE public!Scan
  BY <1>4 DEF public!Scan
<1> QED BY <1>1, <1>2, <1>3, <1>4 DEF public!Native

LEMMA StopInductive == StopInv /\ [SessionNext]_sessionVars => StopInv'
<1> SUFFICES ASSUME StopInv, [SessionNext]_sessionVars, part' = "public" PROVE StopOrder'
  BY DEF StopInv
<1>1. part = "public" /\ StopOrder
  BY DEF StopInv, SessionNext, sessionVars
<1> USE <1>1 DEF StopOrder
<1>2. CASE UNCHANGED sessionVars
  BY <1>2 DEF sessionVars, publicVars
<1>3. CASE public!Next
  <2>1. ASSUME NEW r \in Watched,
               public!ExternalChange(r) \/ public!OwnChange(r) \/ public!Record(r) \/ public!Prune(r)
        PROVE  StopOrder'
    BY <2>1 DEF public!ExternalChange, public!OwnChange, public!Record, public!Prune,
                public!Change, public!workerVars
  <2>2. CASE public!Native
    BY <2>2, NativeFrame DEF public!OutsideNative, public!workerVars
  <2>3. CASE public!NativeDies
    BY <2>3 DEF public!NativeDies, public!OutsideNative, public!workerVars
  <2>4. CASE public!Worker
    <3>1. CASE public!Recv \/ public!RecvTimeout \/ public!Flush
      BY <2>4, <3>1 DEF public!Recv, public!RecvTimeout, public!Flush, public!OutsideWorker
    <3>2. CASE public!Deliver
      BY <2>4, <3>2 DEF public!Deliver, public!OutsideWorker
    <3>3. CASE public!Verify
      BY <2>4, <3>3 DEF public!Verify, public!OutsideWorker
    <3>4. CASE public!CallbackReturns
      BY <2>4, <3>4 DEF public!CallbackReturns, public!OutsideWorker
    <3> QED BY <2>4, <3>1, <3>2, <3>3, <3>4 DEF public!Worker
  <2>5. CASE public!WorkerDies
    BY <2>5 DEF public!WorkerDies
  <2>6. CASE public!Stop
    BY <2>6 DEF public!Stop, public!workerVars
  <2>7. CASE public!Stopping
    BY <2>7 DEF public!Stopping, public!JoinNative, public!WakeWorker, public!JoinWorker,
                public!workerVars
  <2>8. CASE public!Over
    BY <2>8 DEF public!Over, public!workerVars
  <2> QED BY <1>3, <2>1, <2>2, <2>3, <2>4, <2>5, <2>6, <2>7, <2>8 DEF public!Next
<1> QED BY <1>2, <1>3 DEF SessionNext

\* No step enters the callback once the stop is over.
LEMMA StopQuiet ==
    StopInv /\ [SessionNext]_sessionVars =>
        [(spc = "stopped" /\ wpc' = "callback") => wpc = "callback"]_(public!watchVars)
<1> SUFFICES ASSUME StopInv, [SessionNext]_sessionVars, spc = "stopped", wpc' = "callback"
             PROVE  wpc = "callback" \/ UNCHANGED public!watchVars
  OBVIOUS
<1>1. CASE part = "public" /\ public!Next
  <2>1. ASSUME NEW r \in Watched,
               public!ExternalChange(r) \/ public!OwnChange(r) \/ public!Record(r) \/ public!Prune(r)
        PROVE  wpc = "callback"
    BY <2>1 DEF public!ExternalChange, public!OwnChange, public!Record, public!Prune,
                public!Change, public!workerVars
  <2>2. CASE public!Native
    BY <2>2, NativeFrame DEF public!OutsideNative, public!workerVars
  <2>3. CASE public!NativeDies
    BY <2>3 DEF public!NativeDies, public!OutsideNative, public!workerVars
  <2>4. CASE public!Worker
    <3>1. CASE public!Recv \/ public!RecvTimeout \/ public!Flush \/ public!CallbackReturns
      BY <3>1 DEF public!Recv, public!RecvTimeout, public!Flush, public!CallbackReturns
    <3>2. CASE public!Deliver
      BY <3>2 DEF public!Deliver
    <3>3. CASE public!Verify
      BY <1>1, <3>3 DEF public!Verify, StopInv, StopOrder
    <3> QED BY <2>4, <3>1, <3>2, <3>3 DEF public!Worker
  <2>5. CASE public!WorkerDies
    BY <2>5 DEF public!WorkerDies
  <2>6. CASE public!Stop \/ public!Stopping \/ public!Over
    BY <2>6 DEF public!Stop, public!Stopping, public!JoinNative, public!WakeWorker,
                public!JoinWorker, public!Over, public!workerVars
  <2> QED BY <1>1, <2>1, <2>2, <2>3, <2>4, <2>5, <2>6 DEF public!Next
<1>2. CASE UNCHANGED publicVars
  BY <1>2 DEF publicVars, public!watchVars
<1> QED BY <1>1, <1>2 DEF SessionNext, sessionVars

LEMMA StopInit == SessionInit => StopInv
BY DEF SessionInit, StopInv, StopOrder, public!Init

(***************************************************************************)
(* Once WatchHandle::stop has returned, the event worker starts no further *)
(* callback (src/src/watch.rs, stop and drop): it is joined first, or the  *)
(* stop came from that very callback and the worker checks the flag before *)
(* every other.                                                            *)
(***************************************************************************)
THEOREM CallbacksQuiet == SessionSpec => QuietAfterStop
<1>1. SessionSpec => []StopInv
  BY StopInit, StopInductive, PTL DEF SessionSpec
<1> QED
  BY <1>1, StopQuiet, PTL DEF SessionSpec, QuietAfterStop, public!QuietAfterStop

-----------------------------------------------------------------------------
(* The pacing of passes *)

\* The power of two counts the subsets; one more element doubles them.
LEMMA Doubling ==
    ASSUME NEW n \in Nat
    PROVE  2^n \in Nat \ {0} /\ 2^(n + 1) = 2^n + 2^n
<1> DEFINE A == SUBSET (1..n)
           With(B) == B \cup {n + 1}
           C == {With(B) : B \in A}
<1>1. /\ IsFiniteSet(A) /\ Cardinality(A) = 2^n
      /\ IsFiniteSet(SUBSET (1..n + 1)) /\ Cardinality(SUBSET (1..n + 1)) = 2^(n + 1)
  <2>1. /\ IsFiniteSet(1..n) /\ Cardinality(1..n) = n
        /\ IsFiniteSet(1..n + 1) /\ Cardinality(1..n + 1) = n + 1
    <3>1. /\ IsFiniteSet(1..n) /\ Cardinality(1..n) = IF 1 > n THEN 0 ELSE n-1+1
      BY FS_Interval
    <3>2. /\ IsFiniteSet(1..n + 1) /\ Cardinality(1..n + 1) = IF 1 > n + 1 THEN 0 ELSE n + 1 - 1 + 1
      <4>1. n + 1 \in Int /\ 1 \in Int
        OBVIOUS
      <4> QED BY <4>1, FS_Interval
    <3> QED BY <3>1, <3>2
  <2> QED BY <2>1, FS_SUBSET
<1>2. Cardinality(A) \in Nat \ {0}
  <2>1. A # {}
    OBVIOUS
  <2> HIDE DEF A
  <2> QED BY <1>1, <2>1, FS_CardinalityType, FS_EmptySet
<1>3. IsFiniteSet(C) /\ Cardinality(C) = Cardinality(A)
  <2> DEFINE f == [B \in A |-> With(B)]
  <2>1. ASSUME NEW B \in A, NEW D \in A, f[B] = f[D] PROVE B = D
    <3>1. n + 1 \notin B /\ n + 1 \notin D
      OBVIOUS
    <3>2. With(B) = With(D)
      BY <2>1
    <3> QED BY <3>1, <3>2
  <2>2. f \in Bijection(A, C)
    <3>1. f \in [A -> C]
      OBVIOUS
    <3>2. \A t \in C : \E s \in A : f[s] = t
      OBVIOUS
    <3> HIDE DEF A, C, f
    <3> QED BY <2>1, <3>1, <3>2 DEF Bijection, Injection, Surjection, IsInjective
  <2>3. ExistsBijection(A, C)
    BY <2>2 DEF ExistsBijection
  <2> HIDE DEF A, C
  <2> QED BY <1>1, <2>3, FS_Bijection
<1>4. SUBSET (1..n + 1) = A \cup C
  <2>1. ASSUME NEW B \in SUBSET (1..n + 1) PROVE B \in A \cup C
    <3>1. CASE n + 1 \in B
      <4>1. B \ {n + 1} \in A
        OBVIOUS
      <4>2. With(B \ {n + 1}) = B
        BY <3>1
      <4> QED BY <4>1, <4>2
    <3>2. CASE n + 1 \notin B
      BY <3>2
    <3> QED BY <3>1, <3>2
  <2>2. A \subseteq SUBSET (1..n + 1)
    OBVIOUS
  <2>3. ASSUME NEW B \in A PROVE With(B) \in SUBSET (1..n + 1)
    OBVIOUS
  <2>4. C \subseteq SUBSET (1..n + 1)
    BY <2>3, ZenonT(40)
  <2> HIDE DEF A, C
  <2> QED BY <2>1, <2>2, <2>4
<1>5. A \cap C = {}
  <2>1. \A B \in A : n + 1 \notin B
    OBVIOUS
  <2>2. \A B \in C : n + 1 \in B
    OBVIOUS
  <2> QED BY <2>1, <2>2
<1>6. Cardinality(A \cup C) = Cardinality(A) + Cardinality(C) - Cardinality(A \cap C)
  <2> HIDE DEF A, C
  <2> QED BY <1>1, <1>3, FS_Union
<1> HIDE DEF A, C
<1>7. Cardinality(SUBSET (1..n + 1)) = Cardinality(A) + Cardinality(A)
  <2>1. Cardinality(A \cap C) = 0
    BY <1>5, FS_EmptySet, Zenon
  <2>2. Cardinality(SUBSET (1..n + 1)) = Cardinality(A \cup C)
    BY <1>4, Zenon
  <2> DEFINE a == Cardinality(A)
             c == Cardinality(C)
             u == Cardinality(A \cup C)
             i == Cardinality(A \cap C)
  <2> HIDE DEF a, c, u, i
  <2>3. a \in Nat /\ c = a /\ u = a + c - i /\ i = 0
    BY <1>2, <1>3, <1>6, <2>1 DEF a, c, u, i
  <2>4. u = a + a
    BY <2>3
  <2> QED BY <2>2, <2>4, Zenon DEF a, u
<1> QED BY <1>1, <1>2, <1>7, Zenon

LEMMA PaceConstants ==
    /\ ErrorRetry \in Nat /\ UnstableRetry \in Nat /\ IdentityRetry \in Nat
    /\ MaxErrorRetry \in Nat /\ MaxShift \in Nat /\ MaxErrors \in Nat
    /\ BreakerWindow \in Nat /\ BreakerThreshold \in Nat /\ BreakerCooldown \in Nat
    /\ ErrorRetry > 0 /\ ErrorRetry <= MaxErrorRetry /\ MaxErrors > MaxShift
BY SessionAssumption DEF pace!Tuned

\* The delay after so many errors in a row, before it is capped.
Doubled(n) == ErrorRetry * 2^n

LEMMA DoubledSteps ==
    /\ Doubled(0) = ErrorRetry
    /\ Doubled(MaxShift) >= MaxErrorRetry
    /\ \A n \in Nat : Doubled(n) \in Nat \ {0} /\ Doubled(n + 1) = 2 * Doubled(n)
<1>1. Doubled(0) = ErrorRetry
  <2>1. 2^0 = 1
    OBVIOUS
  <2>2. Doubled(0) = ErrorRetry * 1
    BY <2>1, Zenon DEF Doubled
  <2> QED BY <2>2, PaceConstants
<1>2. Doubled(MaxShift) >= MaxErrorRetry
  BY SessionAssumption DEF pace!Tuned, Doubled
<1>3. ASSUME NEW n \in Nat PROVE Doubled(n) \in Nat \ {0} /\ Doubled(n + 1) = 2 * Doubled(n)
  <2>1. PICK x \in Nat \ {0} : x = 2^n /\ 2^(n + 1) = x + x
    BY Doubling
  <2>2. Doubled(n) = ErrorRetry * x /\ Doubled(n + 1) = ErrorRetry * (x + x)
    BY <2>1, Zenon DEF Doubled
  <2> HIDE DEF Doubled
  <2>3. ErrorRetry * x \in Nat \ {0} /\ ErrorRetry * (x + x) = 2 * (ErrorRetry * x)
    BY PaceConstants
  <2> QED BY <2>2, <2>3
<1> QED BY <1>1, <1>2, <1>3

LEMMA BackoffDoubled ==
    ASSUME NEW k \in Nat, k > 0
    PROVE  pace!Backoff(k) = pace!Least(Doubled(pace!Least(k - 1, MaxShift)), MaxErrorRetry)
BY DEF pace!Backoff, Doubled

LEMMA BackoffSteps ==
    /\ pace!Backoff(1) = ErrorRetry
    /\ \A k \in 1..MaxErrors :
          /\ pace!Backoff(k) \in 1..MaxErrorRetry
          /\ pace!Backoff(pace!Least(k + 1, MaxErrors)) = pace!Least(2 * pace!Backoff(k), MaxErrorRetry)
<1>1. pace!Backoff(1) = ErrorRetry
  BY BackoffDoubled, DoubledSteps, PaceConstants DEF pace!Least
<1>2. ASSUME NEW k \in 1..MaxErrors
      PROVE  /\ pace!Backoff(k) \in 1..MaxErrorRetry
             /\ pace!Backoff(pace!Least(k + 1, MaxErrors)) = pace!Least(2 * pace!Backoff(k), MaxErrorRetry)
  <2>1. CASE k - 1 < MaxShift
    <3>1. k - 1 \in Nat /\ k + 1 > 0 /\ pace!Least(k + 1, MaxErrors) = k + 1
      BY <2>1, PaceConstants DEF pace!Least
    <3>2. pace!Backoff(k) = pace!Least(Doubled(k - 1), MaxErrorRetry)
      BY <2>1, <3>1, BackoffDoubled DEF pace!Least
    <3>3. pace!Backoff(k + 1) = pace!Least(Doubled(k), MaxErrorRetry)
      BY <2>1, <3>1, BackoffDoubled, PaceConstants DEF pace!Least
    <3>4. Doubled(k - 1) \in Nat \ {0} /\ Doubled(k) = 2 * Doubled(k - 1)
      BY <3>1, DoubledSteps, PaceConstants
    <3> QED BY <3>1, <3>2, <3>3, <3>4, PaceConstants DEF pace!Least
  <2>2. CASE k - 1 >= MaxShift
    <3>1. PICK m \in 1..MaxErrors : m = pace!Least(k + 1, MaxErrors) /\ m - 1 >= MaxShift
      BY <2>2, PaceConstants DEF pace!Least
    <3>2. pace!Backoff(k) = pace!Least(Doubled(MaxShift), MaxErrorRetry)
      BY <2>2, BackoffDoubled, PaceConstants DEF pace!Least
    <3>3. pace!Backoff(m) = pace!Least(Doubled(MaxShift), MaxErrorRetry)
      BY <3>1, BackoffDoubled, PaceConstants DEF pace!Least
    <3>4. pace!Least(Doubled(MaxShift), MaxErrorRetry) = MaxErrorRetry
      BY DoubledSteps, PaceConstants DEF pace!Least
    <3> QED BY <3>1, <3>2, <3>3, <3>4, PaceConstants DEF pace!Least
  <2> QED BY <2>1, <2>2, PaceConstants
<1> QED BY <1>1, <1>2

Entries == [in : BOOLEAN, wait : 0..pace!Horizon, errors : 0..MaxErrors]

\* The delay after an error is what the errors of the entry make it.
Escalated == gap = IF entry.errors = 0 THEN 0 ELSE pace!Backoff(entry.errors)

\* The time since the last pass and the time to the next add up to the delay.
WaitsOut == ~busy => entry.wait + idle >= owed

Paced ==
    /\ entry \in Entries /\ open \in 0..BreakerCooldown /\ busy \in BOOLEAN /\ again \in BOOLEAN
    /\ idle \in 0..pace!Horizon /\ owed \in 0..pace!Horizon
    /\ Escalated /\ WaitsOut

PaceInv == part = "pace" => Paced

LEMMA HorizonBounds ==
    /\ pace!Horizon \in Nat
    /\ MaxErrorRetry <= pace!Horizon /\ IdentityRetry <= pace!Horizon
    /\ BreakerCooldown <= pace!Horizon /\ UnstableRetry <= pace!Horizon
BY PaceConstants DEF pace!Horizon, pace!Most

LEMMA AbsentEntry ==
    pace!Absent \in Entries /\ pace!Absent.wait = 0 /\ pace!Absent.errors = 0
<1>1. 0 \in 0..pace!Horizon /\ 0 \in 0..MaxErrors
  BY HorizonBounds, PaceConstants
<1> QED BY <1>1 DEF pace!Absent, Entries

\* With no entry, nothing is owed.
LEMMA PacedAfresh ==
    ASSUME entry = pace!Absent, open = 0, busy = FALSE, again = FALSE, idle = 0, gap = 0, owed = 0
    PROVE  Paced
<1>1. Escalated /\ WaitsOut
  BY AbsentEntry DEF Escalated, WaitsOut
<1>2. open \in 0..BreakerCooldown /\ idle \in 0..pace!Horizon /\ owed \in 0..pace!Horizon
  BY HorizonBounds, PaceConstants
<1>3. busy \in BOOLEAN /\ again \in BOOLEAN
  OBVIOUS
<1> QED BY <1>1, <1>2, <1>3, AbsentEntry DEF Paced

LEMMA PaceInit == SessionInit => PaceInv
BY PacedAfresh DEF SessionInit, PaceInv, pace!Init

\* A pass put off without an error: it owes the delay, and the entry waits as long.
LEMMA DefersCalm ==
    ASSUME NEW e \in Entries, NEW delay \in 0..pace!Horizon
    PROVE  /\ pace!DeferAt(e, delay, FALSE) \in Entries
           /\ pace!DeferAt(e, delay, FALSE).wait >= delay
           /\ pace!DeferAt(e, delay, FALSE).wait >= e.wait
           /\ pace!DeferAt(e, delay, FALSE).errors = 0
<1> DEFINE d == [in |-> TRUE, wait |-> pace!Most(e.wait, delay), errors |-> 0]
<1>1. pace!DeferAt(e, delay, FALSE) = d
  BY DEF pace!DeferAt
<1>2. d \in Entries /\ d.wait >= delay /\ d.wait >= e.wait /\ d.errors = 0
  BY PaceConstants, HorizonBounds DEF pace!Most, Entries
<1> QED BY <1>1, <1>2

LEMMA DefersError ==
    ASSUME NEW e \in Entries, NEW delay
    PROVE  LET n == pace!Least(e.errors + 1, MaxErrors)
               d == pace!DeferAt(e, delay, TRUE)
           IN  /\ d \in Entries /\ d.errors = n /\ n \in 1..MaxErrors
               /\ d.wait >= pace!Backoff(n)
<1> DEFINE n == pace!Least(e.errors + 1, MaxErrors)
           d == [in |-> TRUE, wait |-> pace!Most(e.wait, pace!Backoff(n)), errors |-> n]
<1>1. pace!DeferAt(e, delay, TRUE) = d
  BY DEF pace!DeferAt
<1>2. n \in 1..MaxErrors
  BY PaceConstants DEF pace!Least, Entries
<1>3. pace!Backoff(n) \in 0..pace!Horizon
  <2> HIDE DEF n
  <2> QED BY <1>2, BackoffSteps, HorizonBounds, PaceConstants
<1>4. d \in Entries /\ d.errors = n /\ d.wait >= pace!Backoff(n)
  <2> HIDE DEF n
  <2> QED BY <1>2, <1>3, HorizonBounds, PaceConstants DEF pace!Most, Entries
<1> QED BY <1>1, <1>2, <1>4

\* A pass that ends without an error.
LEMMA EndsCalm ==
    ASSUME Paced, NEW e \in Entries, NEW delay \in 0..pace!Horizon,
           e.errors = 0, e.wait >= delay, open' \in 0..BreakerCooldown,
           pace!EndsWith(e, delay, FALSE)
    PROVE  Paced'
<1>1. /\ entry' = e /\ busy' = FALSE /\ again' = FALSE /\ idle' = 0 /\ gap' = 0 /\ owed' = delay
  BY DEF pace!EndsWith
<1>2. Escalated' /\ WaitsOut'
  BY <1>1, HorizonBounds DEF Escalated, WaitsOut, Entries
<1>3. idle' \in 0..pace!Horizon /\ owed' \in 0..pace!Horizon
  BY <1>1, HorizonBounds
<1>4. busy' \in BOOLEAN /\ again' \in BOOLEAN
  BY <1>1
<1>5. entry' \in Entries
  BY <1>1
<1> QED BY <1>2, <1>3, <1>4, <1>5 DEF Paced

\* A pass that ends with an error: the delay doubles, up to the longest one.
LEMMA EndsError ==
    ASSUME Paced, open' \in 0..BreakerCooldown, NEW delay,
           pace!EndsWith(pace!DeferAt(entry, delay, TRUE), delay, TRUE)
    PROVE  Paced'
<1> DEFINE n == pace!Least(entry.errors + 1, MaxErrors)
<1>1. /\ entry' \in Entries /\ entry'.errors = n /\ n \in 1..MaxErrors
      /\ entry'.wait >= pace!Backoff(n)
  BY DefersError DEF pace!EndsWith, Paced
<1>2. /\ busy' = FALSE /\ again' = FALSE /\ idle' = 0
      /\ gap' = IF gap = 0 THEN ErrorRetry ELSE pace!Least(2 * gap, MaxErrorRetry)
      /\ owed' = gap'
  BY DEF pace!EndsWith
<1>3. gap' = pace!Backoff(n)
  <2>1. CASE entry.errors = 0
    <3>1. n = 1
      BY <2>1, PaceConstants DEF pace!Least
    <3> QED BY <2>1, <3>1, <1>2, BackoffSteps DEF Paced, Escalated
  <2>2. CASE entry.errors # 0
    <3>1. entry.errors \in 1..MaxErrors
      BY <2>2, PaceConstants DEF Paced, Entries
    <3>2. gap = pace!Backoff(entry.errors)
      BY <2>2 DEF Paced, Escalated
    <3>3. gap # 0
      BY <3>1, <3>2, BackoffSteps, PaceConstants
    <3> QED BY <3>1, <3>2, <3>3, <1>2, BackoffSteps
  <2> QED BY <2>1, <2>2
<1>4. pace!Backoff(n) \in 1..MaxErrorRetry
  <2> HIDE DEF n
  <2> QED BY <1>1, BackoffSteps
<1> HIDE DEF n
<1>5. Escalated'
  BY <1>1, <1>3 DEF Escalated
<1>6. owed' \in 0..pace!Horizon
  BY <1>2, <1>3, <1>4, HorizonBounds, PaceConstants
<1>7. WaitsOut'
  BY <1>1, <1>2, <1>3, <1>4 , HorizonBounds DEF WaitsOut, Entries
<1>8. idle' \in 0..pace!Horizon
  BY <1>2, HorizonBounds
<1>9. busy' \in BOOLEAN /\ again' \in BOOLEAN
  BY <1>2
<1> QED BY <1>1, <1>5, <1>6, <1>7, <1>8, <1>9 DEF Paced

LEMMA Completes ==
    ASSUME Paced
    PROVE  LET e == pace!CompleteUnlessTouched(entry)
           IN  e \in Entries /\ e.errors = 0 /\ e.wait = 0
<1>1. CASE again
  <2> DEFINE d == [entry EXCEPT !.wait = 0, !.errors = 0]
  <2>1. entry \in Entries /\ 0 \in 0..pace!Horizon /\ 0 \in 0..MaxErrors
    BY PaceConstants, HorizonBounds DEF Paced
  <2>2. d \in Entries /\ d.errors = 0 /\ d.wait = 0
    BY <2>1 DEF Entries
  <2>3. pace!CompleteUnlessTouched(entry) = d
    BY <1>1, Zenon DEF pace!CompleteUnlessTouched
  <2> QED BY <2>2, <2>3
<1>2. CASE ~again
  BY <1>2, AbsentEntry DEF pace!CompleteUnlessTouched
<1> QED BY <1>1, <1>2

LEMMA PaceStep ==
    ASSUME Paced, pace!Next
    PROVE  Paced'
<1>0. /\ entry \in Entries /\ open \in 0..BreakerCooldown
      /\ 0 \in 0..pace!Horizon /\ UnstableRetry \in 0..pace!Horizon
      /\ IdentityRetry \in 0..pace!Horizon
  BY HorizonBounds, PaceConstants DEF Paced
<1>1. CASE pace!Touch
  BY <1>1 DEF pace!Touch, Paced, Entries, Escalated, WaitsOut
<1>2. CASE pace!Due
  BY <1>2 DEF pace!Due, Paced, Entries, Escalated, WaitsOut
<1>3. CASE pace!Fails
  BY <1>0, <1>3, EndsError DEF pace!Fails, pace!Defers
<1>4. CASE pace!Unstable
  BY <1>0, <1>4, EndsCalm, DefersCalm DEF pace!Unstable, pace!Defers
<1>5. CASE pace!Ambiguous
  BY <1>0, <1>5, EndsCalm, DefersCalm DEF pace!Ambiguous, pace!Defers
<1> DEFINE settled == pace!CompleteUnlessTouched(entry)
<1>11. settled \in Entries /\ settled.errors = 0 /\ settled.wait >= 0
  BY Completes
<1>6. CASE pace!Settles
  <2>1. pace!EndsWith(settled, 0, FALSE) /\ open' \in 0..BreakerCooldown
    BY <1>0, <1>6 DEF pace!Settles
  <2> HIDE DEF settled
  <2> QED BY <1>0, <1>11, <2>1, EndsCalm
<1>7. CASE pace!Rebase
  <2>1. open' \in 0..BreakerCooldown
    BY <1>0, <1>7 DEF pace!Rebase
  <2>2. CASE pace!EndsWith(pace!CompleteUnlessTouched(entry), 0, FALSE)
    <3> HIDE DEF settled
    <3> QED BY <1>0, <1>11, <2>1, <2>2, EndsCalm DEF settled
  <2>3. CASE pace!EndsWith(pace!DeferAt(entry, ErrorRetry, TRUE), ErrorRetry, TRUE)
    BY <2>1, <2>3, EndsError
  <2> QED BY <1>7, <2>2, <2>3 DEF pace!Rebase
<1>8. CASE pace!Blocked
  <2> DEFINE left == IF open > 0 THEN open ELSE BreakerCooldown
             e == pace!DeferAt(entry, left, FALSE)
             d == pace!DeferAt(e, UnstableRetry, FALSE)
  <2>1. left \in 0..pace!Horizon /\ left \in 0..BreakerCooldown
    BY <1>0, HorizonBounds, PaceConstants
  <2>2. open' = left /\ pace!EndsWith(d, left, FALSE)
    BY <1>8 DEF pace!Blocked
  <2> HIDE DEF left
  <2>3. e \in Entries /\ e.wait >= left
    BY <1>0, <2>1, DefersCalm
  <2> HIDE DEF e
  <2>4. d \in Entries /\ d.errors = 0 /\ d.wait >= e.wait
    BY <1>0, <2>3, DefersCalm
  <2> HIDE DEF d
  <2>5. d.wait >= left
    BY <2>1, <2>3, <2>4, HorizonBounds DEF Entries
  <2> QED BY <2>1, <2>2, <2>4, <2>5, EndsCalm
<1>9. CASE pace!Unregister
  <2>1. Escalated' /\ WaitsOut'
    BY <1>9, AbsentEntry DEF pace!Unregister, Escalated, WaitsOut
  <2>2. /\ open' \in 0..BreakerCooldown /\ idle' \in 0..pace!Horizon /\ owed' \in 0..pace!Horizon
        /\ entry' \in Entries
    BY <1>9, AbsentEntry, HorizonBounds, PaceConstants DEF pace!Unregister
  <2>3. busy' \in BOOLEAN /\ again' \in BOOLEAN
    BY <1>9 DEF pace!Unregister
  <2> QED BY <2>1, <2>2, <2>3 DEF Paced
<1>10. CASE pace!Tick
  BY <1>10, HorizonBounds, PaceConstants
     DEF pace!Tick, pace!Most, pace!Least, Paced, Entries, Escalated, WaitsOut
<1> QED
  BY <1>1, <1>2, <1>3, <1>4, <1>5, <1>6, <1>7, <1>8, <1>9, <1>10 DEF pace!Next

LEMMA PaceInductive == PaceInv /\ [SessionNext]_sessionVars => PaceInv'
<1> SUFFICES ASSUME PaceInv, [SessionNext]_sessionVars, part' = "pace" PROVE Paced'
  BY DEF PaceInv
<1>1. part = "pace" /\ Paced
  BY DEF PaceInv, SessionNext, sessionVars
<1>2. CASE UNCHANGED sessionVars
  BY <1>1, <1>2 DEF sessionVars, paceVars, Paced, Escalated, WaitsOut
<1>3. CASE pace!Next
  BY <1>1, <1>3, PaceStep
<1> QED BY <1>1, <1>2, <1>3 DEF SessionNext

LEMMA PaceSpaced ==
    PaceInv /\ [SessionNext]_sessionVars => [~busy /\ busy' => idle >= owed]_(pace!paceVars)
<1> SUFFICES ASSUME PaceInv, [SessionNext]_sessionVars, ~busy, busy'
             PROVE  idle >= owed \/ UNCHANGED pace!paceVars
  OBVIOUS
<1>1. CASE UNCHANGED paceVars
  BY <1>1 DEF paceVars, pace!paceVars
<1>2. CASE part = "pace" /\ pace!Next
  <2>1. pace!Due
    BY <1>2 DEF pace!Next, pace!Touch, pace!Fails, pace!Unstable, pace!Ambiguous, pace!Defers,
                pace!Settles, pace!Rebase, pace!Blocked, pace!EndsWith, pace!Unregister, pace!Tick
  <2> QED BY <1>2, <2>1, HorizonBounds DEF pace!Due, PaceInv, Paced, WaitsOut, Entries
<1> QED BY <1>1, <1>2 DEF SessionNext, sessionVars

(***************************************************************************)
(* No pass over a resource starts before the delay that the last one asked *)
(* for has gone by (src/src/reconciliation.rs, defer_at): the backoff after*)
(* errors, the breaker's cooldown, or the retry of an unstable or ambiguous*)
(* state, however events touch the entry in between.                       *)
(***************************************************************************)
THEOREM PassesSpaced == SessionSpec => Spaced
<1>1. SessionSpec => []PaceInv
  BY PaceInit, PaceInductive, PTL DEF SessionSpec
<1> QED
  BY <1>1, PaceSpaced, PTL DEF SessionSpec, Spaced, pace!Spaced

(***************************************************************************)
(* An entry of the queue never waits longer than the longest delay there is*)
(* (src/src/reconciliation.rs, defer_at): a deferred pass is not put off   *)
(* for good by the maximum of deadlines.                                   *)
(***************************************************************************)
THEOREM AlwaysRetried == SessionSpec => []RetryBounded
<1>1. SessionSpec => []PaceInv
  BY PaceInit, PaceInductive, PTL DEF SessionSpec
<1>2. PaceInv => RetryBounded
  BY HorizonBounds DEF PaceInv, Paced, Entries, RetryBounded, pace!RetryBounded
<1> QED BY <1>1, <1>2, PTL

-----------------------------------------------------------------------------
(* The circuit breaker. *)

LEMMA LeastIndex ==
    ASSUME NEW S \in SUBSET Nat, S # {}
    PROVE  \E x \in S : \A y \in S : x <= y
<1>1. PICK x \in S : \A y \in S : ~(<<y, x>> \in OpToRel(<, Nat))
  BY NatLessThanWellFounded, WFMin
<1>2. \A y \in S : ~(y < x)
  BY <1>1 DEF OpToRel
<1> QED BY <1>2

Timed(ages) == ages \in Seq(0..pace!Ages)

LEMMA Elements ==
    ASSUME NEW A, NEW s \in Seq(A)
    PROVE  Len(s) \in Nat /\ DOMAIN s = 1..Len(s) /\ \A i \in 1..Len(s) : s[i] \in A
OBVIOUS

LEMMA TimedElements ==
    ASSUME NEW s, Timed(s)
    PROVE  /\ Len(s) \in Nat /\ DOMAIN s = 1..Len(s) /\ pace!Ages \in Nat
           /\ \A i \in 1..Len(s) : s[i] \in 0..pace!Ages /\ s[i] \in Nat
<1>1. pace!Ages \in Nat
  BY PaceConstants DEF pace!Ages
<1>2. Len(s) \in Nat /\ DOMAIN s = 1..Len(s) /\ \A i \in 1..Len(s) : s[i] \in 0..pace!Ages
  BY Elements, Zenon DEF Timed
<1> QED BY <1>1, <1>2

LEMMA SuffixElements ==
    ASSUME NEW A, NEW s \in Seq(A), NEW n \in 0..Len(s)
    PROVE  /\ SubSeq(s, n + 1, Len(s)) \in Seq(A)
           /\ Len(SubSeq(s, n + 1, Len(s))) = Len(s) - n
           /\ \A i \in 1..(Len(s) - n) : SubSeq(s, n + 1, Len(s))[i] = s[n + i]
<1>1. Len(s) \in Nat /\ \A i \in 1..Len(s) : s[i] \in A
  OBVIOUS
<1> QED BY <1>1

\* The attempts counted are the last of the rebases; those before them were
\* forgotten when the breaker opened, which since has counted down from the cooldown,
\* or left the window, which is no shorter.
Metered ==
    /\ open \in 0..BreakerCooldown /\ Timed(attempts) /\ Timed(rebases)
    /\ Len(attempts) <= BreakerThreshold /\ Len(rebases) <= BreakerThreshold + 1
    /\ Len(attempts) <= Len(rebases)
    /\ \A i \in 1..Len(attempts) : attempts[i] = rebases[Len(rebases) - Len(attempts) + i]
    /\ \A i \in 1..(Len(rebases) - Len(attempts)) : rebases[i] + open >= BreakerCooldown
    /\ pace!BreakerBounds

BreakerInv == part = "pace" => Metered

\* What the window leaves of the attempts: all but some old ones at the front.
LEMMA RecentIsSuffix ==
    ASSUME Timed(attempts)
    PROVE  \E n \in 0..Len(attempts) :
              /\ pace!Recent = SubSeq(attempts, n + 1, Len(attempts))
              /\ \A i \in 1..n : attempts[i] > BreakerWindow
<1> DEFINE Front(n) == /\ \A i \in 1..n : attempts[i] > BreakerWindow
                       /\ n < Len(attempts) => attempts[n + 1] <= BreakerWindow
           S == {n \in 0..Len(attempts) : n < Len(attempts) => attempts[n + 1] <= BreakerWindow}
<1>1. Len(attempts) \in Nat /\ \A i \in 1..Len(attempts) : attempts[i] \in Nat
  BY TimedElements
<1>2. Len(attempts) \in S /\ S \in SUBSET Nat
  BY <1>1
<1>3. PICK n \in S : \A m \in S : n <= m
  BY <1>2, LeastIndex
<1>4. n \in 0..Len(attempts) /\ Front(n)
  <2> SUFFICES ASSUME NEW i \in 1..n PROVE attempts[i] > BreakerWindow
    BY <1>1, <1>3
  <2>0. n \in 0..Len(attempts) /\ i \in Nat /\ i - 1 \in 0..Len(attempts) /\ i - 1 < Len(attempts)
    BY <1>1, <1>3
  <2>1. i - 1 \notin S
    <3> HIDE DEF S
    <3> QED BY <1>3, <2>0
  <2>2. ~(attempts[i - 1 + 1] <= BreakerWindow) /\ i - 1 + 1 = i
    BY <2>0, <2>1
  <2> QED BY <1>1, <1>3, <2>0, <2>2, PaceConstants
<1> DEFINE old == CHOOSE k \in 0..Len(attempts) : Front(k)
<1>5. old \in 0..Len(attempts) /\ Front(old)
  <2> HIDE DEF Front
  <2> QED BY <1>4, Zenon
<1>6. pace!Recent = SubSeq(attempts, old + 1, Len(attempts))
  BY Zenon DEF pace!Recent
<1> HIDE DEF old
<1> QED BY <1>5, <1>6

LEMMA AgedTimed ==
    ASSUME NEW s, Timed(s)
    PROVE  /\ Timed(pace!Aged(s)) /\ Len(pace!Aged(s)) = Len(s)
           /\ \A i \in 1..Len(s) : pace!Aged(s)[i] = pace!Least(s[i] + 1, pace!Ages)
<1> DEFINE t == [i \in 1..Len(s) |-> pace!Least(s[i] + 1, pace!Ages)]
<1>1. Len(s) \in Nat /\ DOMAIN s = 1..Len(s) /\ \A i \in 1..Len(s) : s[i] \in 0..pace!Ages
  BY TimedElements
<1>2. pace!Ages \in Nat
  BY PaceConstants DEF pace!Ages
<1>3. \A i \in 1..Len(s) : pace!Least(s[i] + 1, pace!Ages) \in 0..pace!Ages
  BY <1>1, <1>2 DEF pace!Least
<1>4. pace!Aged(s) = t
  BY <1>1 DEF pace!Aged
<1>5. t \in Seq(0..pace!Ages) /\ Len(t) = Len(s)
  BY <1>1, <1>3
<1>6. \A i \in 1..Len(s) : t[i] = pace!Least(s[i] + 1, pace!Ages)
  OBVIOUS
<1> HIDE DEF t
<1> QED BY <1>4, <1>5, <1>6 DEF Timed

LEMMA MeterInit == SessionInit => BreakerInv
<1> SUFFICES ASSUME attempts = <<>>, rebases = <<>>, open = 0 PROVE Metered
  BY DEF SessionInit, BreakerInv, pace!Init
<1>1. <<>> \in Seq(0..pace!Ages) /\ Len(<<>>) = 0
  OBVIOUS
<1> QED BY <1>1, PaceConstants DEF Metered, Timed, pace!BreakerBounds

\* A rebase is counted, and takes the place of the oldest in the history.
LEMMA MeterRebase ==
    ASSUME Metered, pace!Rebase
    PROVE  Metered'
<1> DEFINE k == Len(attempts)
           len == Len(rebases)
           kept == IF len > BreakerThreshold THEN Tail(rebases) ELSE rebases
           m == Len(kept)
<1>1. /\ open = 0 /\ open' = 0 /\ Len(pace!Recent) < BreakerThreshold
      /\ attempts' = Append(pace!Recent, 0) /\ rebases' = Append(kept, 0)
  <2>1. /\ Len(pace!Recent) \in Nat
    <3>1. pace!Recent \in Seq(0..pace!Ages)
      BY RecentIsSuffix, SuffixElements, Zenon DEF Metered, Timed
    <3> QED BY <3>1, Elements, Zenon
  <2> QED BY <2>1, PaceConstants DEF pace!Rebase, pace!Tripped
<1>2. k \in Nat /\ len \in Nat /\ k <= len /\ BreakerThreshold \in Nat /\ BreakerThreshold > 0
  BY PaceConstants, SessionAssumption DEF Metered, Timed, pace!Tuned
<1>3. PICK n \in 0..k : /\ pace!Recent = SubSeq(attempts, n + 1, k)
                        /\ \A i \in 1..n : attempts[i] > BreakerWindow
  BY RecentIsSuffix DEF Metered
<1>4. 0 \in 0..pace!Ages /\ pace!Ages \in Nat
  BY PaceConstants DEF pace!Ages
<1>5. /\ pace!Recent \in Seq(0..pace!Ages) /\ Len(pace!Recent) = k - n
      /\ \A i \in 1..(k - n) : pace!Recent[i] = attempts[n + i]
  <2>1. attempts \in Seq(0..pace!Ages)
    BY DEF Metered, Timed
  <2> QED BY <1>3, <2>1, SuffixElements, Zenon
<1>6. PICK d \in {0, 1} : /\ kept \in Seq(0..pace!Ages) /\ m = len - d /\ m \in Nat
                          /\ m <= BreakerThreshold
                          /\ \A i \in 1..m : kept[i] = rebases[d + i]
                          /\ d = 1 => len = BreakerThreshold + 1
  <2>0. rebases \in Seq(0..pace!Ages) /\ len <= BreakerThreshold + 1
    BY DEF Metered, Timed
  <2>1. CASE len > BreakerThreshold
    <3>1. kept = Tail(rebases) /\ len = BreakerThreshold + 1 /\ rebases # <<>>
      BY <1>2, <2>0, <2>1
    <3>2. Tail(rebases) \in Seq(0..pace!Ages) /\ Len(Tail(rebases)) = len - 1
          /\ \A i \in 1..(len - 1) : Tail(rebases)[i] = rebases[1 + i]
      BY <2>0, <3>1
    <3>3. BreakerThreshold + 1 - 1 = BreakerThreshold /\ BreakerThreshold <= BreakerThreshold
      BY <1>2
    <3> HIDE DEF len
    <3> QED BY <1>2, <2>1, <3>1, <3>2, <3>3
  <2>2. CASE ~(len > BreakerThreshold)
    BY <1>2, <2>0, <2>2
  <2> QED BY <2>1, <2>2
<1> HIDE DEF kept
<1>7. /\ Timed(attempts') /\ Timed(rebases')
      /\ Len(attempts') = k - n + 1 /\ Len(rebases') = m + 1
      /\ \A i \in 1..(k - n) : attempts'[i] = attempts[n + i]
      /\ attempts'[k - n + 1] = 0
      /\ \A i \in 1..m : rebases'[i] = rebases[d + i]
      /\ rebases'[m + 1] = 0
  <2>1. \A s \in Seq(0..pace!Ages) :
            /\ Append(s, 0) \in Seq(0..pace!Ages) /\ Len(Append(s, 0)) = Len(s) + 1
            /\ \A i \in 1..Len(s) : Append(s, 0)[i] = s[i]
            /\ Append(s, 0)[Len(s) + 1] = 0
    BY <1>4
  <2>2. /\ Timed(attempts') /\ Len(attempts') = k - n + 1 /\ attempts'[k - n + 1] = 0
        /\ \A i \in 1..(k - n) : attempts'[i] = pace!Recent[i]
    BY <1>1, <1>5, <2>1, Zenon DEF Timed
  <2>3. /\ Timed(rebases') /\ Len(rebases') = m + 1 /\ rebases'[m + 1] = 0
        /\ \A i \in 1..m : rebases'[i] = kept[i]
    BY <1>1, <1>6, <2>1, Zenon DEF Timed
  <2> HIDE DEF m
  <2> QED BY <1>5, <1>6, <2>2, <2>3
<1>8. k - n < BreakerThreshold
  BY <1>1, <1>5
<1>9. k - n <= m
  BY <1>2, <1>6, <1>8
<1>10. \A i \in 1..k : attempts[i] = rebases[len - k + i]
  BY DEF Metered
<1>11. \A i \in 1..Len(attempts)' : attempts'[i] = rebases'[Len(rebases') - Len(attempts') + i]
  <2> SUFFICES ASSUME NEW i \in 1..(k - n + 1) PROVE attempts'[i] = rebases'[m - (k - n) + i]
    BY <1>2, <1>3, <1>6, <1>7
  <2>1. CASE i = k - n + 1
    BY SMTT(30), <1>2, <1>6, <1>7, <2>1
  <2>2. CASE i \in 1..(k - n)
    <3>1. attempts'[i] = rebases[len - k + (n + i)] /\ n + i \in 1..k
      BY <1>2, <1>7, <1>10, <2>2
    <3>2. m - (k - n) + i \in 1..m /\ d + (m - (k - n) + i) = len - k + (n + i)
      BY <1>2, <1>6, <1>9, <2>2
    <3> QED BY <1>7, <3>1, <3>2
  <2> QED BY <1>2, <2>1, <2>2
<1>12. \A j \in 1..(len - k + n) : rebases[j] >= BreakerCooldown
  <2> TAKE j \in 1..(len - k + n)
  <2>1. CASE j <= len - k
    <3>1. rebases[j] + open >= BreakerCooldown /\ j \in 1..len
      BY <1>2, <1>3, <2>1 DEF Metered
    <3>2. rebases[j] \in Nat
      BY <3>1, TimedElements DEF Metered
    <3> QED BY <1>1, <3>1, <3>2
  <2>2. CASE j > len - k
    <3>1. j - (len - k) \in 1..n /\ j - (len - k) \in 1..k
      BY <1>2, <2>2
    <3>2. attempts[j - (len - k)] = rebases[j]
      BY <1>2, <1>10, <3>1
    <3>3. attempts[j - (len - k)] > BreakerWindow /\ attempts[j - (len - k)] \in Nat
      BY <1>3, <3>1, TimedElements DEF Metered
    <3> QED BY <3>2, <3>3, PaceConstants, SessionAssumption DEF pace!Tuned
  <2> QED BY <1>2, <2>1, <2>2
<1>13. \A i \in 1..(Len(rebases') - Len(attempts')) : rebases'[i] + open' >= BreakerCooldown
  <2> SUFFICES ASSUME NEW i \in 1..(m - (k - n)) PROVE rebases'[i] >= BreakerCooldown
    <3>1. \A i \in 1..(m + 1) : rebases'[i] \in Nat
      BY <1>7, TimedElements
    <3>2. m + 1 - (k - n + 1) = m - (k - n) /\ \A i \in 1..(m - (k - n)) : i \in 1..(m + 1)
      BY <1>2, <1>3, <1>6, <1>9
    <3> QED BY SMTT(30), <1>1, <1>7, <3>1, <3>2
  <2>1. d + i \in 1..(len - k + n) /\ i \in 1..m
    BY <1>2, <1>6
  <2> QED BY <1>7, <1>12, <2>1
<1>14. pace!BreakerBounds'
  <2> SUFFICES ASSUME Len(rebases') > BreakerThreshold PROVE rebases'[1] >= BreakerCooldown
    BY DEF pace!BreakerBounds
  <2>1. 1 \in 1..(Len(rebases') - Len(attempts'))
    BY <1>2, <1>6, <1>7, <1>8
  <2>2. rebases'[1] + 0 >= BreakerCooldown
    BY <1>1, <1>13, <2>1
  <2>3. rebases'[1] \in Nat
    <3>1. 1 \in 1..(m + 1)
      BY <1>6
    <3>2. \A i \in 1..Len(rebases') : rebases'[i] \in Nat
      BY <1>7, TimedElements
    <3> QED BY <1>7, <3>1, <3>2
  <2> QED BY <2>2, <2>3
<1>15. /\ open' \in 0..BreakerCooldown /\ Len(attempts') <= BreakerThreshold
       /\ Len(rebases') <= BreakerThreshold + 1 /\ Len(attempts') <= Len(rebases')
  <2>1. open' \in 0..BreakerCooldown
    BY <1>1, PaceConstants
  <2>2. Len(attempts') = k - n + 1 /\ Len(rebases') = m + 1 /\ m <= BreakerThreshold
    BY <1>6, <1>7
  <2>3. m \in Nat /\ k \in Nat /\ n \in Nat /\ BreakerThreshold \in Nat
    BY <1>2, <1>3, <1>6
  <2> HIDE DEF k, m
  <2>4. k - n + 1 <= BreakerThreshold /\ m + 1 <= BreakerThreshold + 1 /\ k - n + 1 <= m + 1
    BY <1>8, <1>9, <2>2, <2>3
  <2> QED BY <2>1, <2>2, <2>4
<1> QED BY <1>7, <1>11, <1>13, <1>14, <1>15 DEF Metered

\* Time passes: ages grow up to the limit, which exceeds the cooldown.
LEMMA MeterTick ==
    ASSUME Metered, pace!Tick
    PROVE  Metered'
<1>1. /\ Timed(attempts') /\ Len(attempts') = Len(attempts)
      /\ Timed(rebases') /\ Len(rebases') = Len(rebases)
      /\ \A i \in 1..Len(attempts) : attempts'[i] = pace!Least(attempts[i] + 1, pace!Ages)
      /\ \A i \in 1..Len(rebases) : rebases'[i] = pace!Least(rebases[i] + 1, pace!Ages)
  BY AgedTimed DEF Metered, pace!Tick
<1>2. /\ Len(attempts) \in Nat /\ Len(rebases) \in Nat
      /\ \A i \in 1..Len(rebases) : rebases[i] \in 0..pace!Ages
  BY TimedElements DEF Metered
<1>3. pace!Ages \in Nat /\ pace!Ages > BreakerCooldown /\ BreakerCooldown \in Nat
      /\ BreakerThreshold \in Nat
  BY SessionAssumption, PaceConstants DEF pace!Ages, pace!Tuned
<1>4. open \in 0..BreakerCooldown /\ open' = IF open = 0 THEN 0 ELSE open - 1
  BY <1>3 DEF Metered, pace!Tick, pace!Most
<1>5. \A i \in 1..(Len(rebases') - Len(attempts')) : rebases'[i] + open' >= BreakerCooldown
  <2> TAKE i \in 1..(Len(rebases') - Len(attempts'))
  <2>1. i \in 1..(Len(rebases) - Len(attempts)) /\ i \in 1..Len(rebases)
    BY <1>1, <1>2
  <2>2. rebases[i] + open >= BreakerCooldown
    BY <2>1 DEF Metered
  <2> QED BY SMTT(30), <1>1, <1>2, <1>3, <1>4, <2>1, <2>2 DEF pace!Least
<1>6. pace!BreakerBounds'
  <2> SUFFICES ASSUME Len(rebases') > BreakerThreshold, pace!Last(rebases') = 0 PROVE FALSE
    BY DEF pace!BreakerBounds
  <2>1. Len(rebases) \in 1..Len(rebases) /\ pace!Last(rebases') = rebases'[Len(rebases)]
    BY <1>1, <1>2, <1>3 DEF pace!Last
  <2>2. rebases[Len(rebases)] \in Nat /\ rebases'[Len(rebases)] = 0
    BY <1>2, <1>3, <2>1
  <2>3. rebases'[Len(rebases)] = pace!Least(rebases[Len(rebases)] + 1, pace!Ages)
    BY <1>1, <2>1
  <2> QED BY <1>3, <2>2, <2>3 DEF pace!Least
<1>7. \A i \in 1..Len(attempts)' : attempts'[i] = rebases'[Len(rebases') - Len(attempts') + i]
  <2> TAKE i \in 1..Len(attempts)'
  <2> DEFINE j == Len(rebases) - Len(attempts) + i
  <2>1. i \in 1..Len(attempts) /\ j \in 1..Len(rebases) /\ attempts[i] = rebases[j]
    BY <1>1, <1>2 DEF Metered
  <2>2. Len(rebases') - Len(attempts') + i = j
    BY <1>1
  <2> HIDE DEF j
  <2> QED BY <1>1, <2>1, <2>2
<1> QED BY <1>1, <1>3, <1>4, <1>5, <1>6, <1>7 DEF Metered

LEMMA MeterStep ==
    ASSUME Metered, pace!Next
    PROVE  Metered'
<1>1. CASE pace!Rebase
  BY <1>1, MeterRebase
<1>2. CASE pace!Tick
  BY <1>2, MeterTick
<1>3. CASE pace!Blocked
  <2>1. CASE open > 0
    BY <1>3, <2>1 DEF pace!Blocked, Metered, Timed, pace!BreakerBounds
  <2>2. CASE ~(open > 0)
    <3>1. open' = BreakerCooldown /\ attempts' = <<>> /\ UNCHANGED rebases
      BY <1>3, <2>2 DEF pace!Blocked
    <3>2. <<>> \in Seq(0..pace!Ages) /\ Len(<<>>) = 0
      OBVIOUS
    <3>3. Len(rebases) \in Nat /\ \A i \in 1..Len(rebases) : rebases[i] \in Nat
      BY PaceConstants DEF Metered, Timed, pace!Ages
    <3>4. \A i \in 1..(Len(rebases) - 0) : rebases[i] + BreakerCooldown >= BreakerCooldown
      BY <3>3, PaceConstants
    <3> QED BY <3>1, <3>2, <3>3, <3>4, PaceConstants DEF Metered, Timed, pace!BreakerBounds
  <2> QED BY <2>1, <2>2
<1>4. CASE pace!Unregister
  <2>1. <<>> \in Seq(0..pace!Ages) /\ Len(<<>>) = 0
    OBVIOUS
  <2> QED BY <1>4, <2>1, PaceConstants DEF pace!Unregister, Metered, Timed, pace!BreakerBounds
<1>5. CASE pace!Touch \/ pace!Due \/ pace!Fails \/ pace!Unstable \/ pace!Ambiguous \/ pace!Settles
  <2>1. UNCHANGED <<attempts, open, rebases>>
    BY <1>5 DEF pace!Touch, pace!Due, pace!Fails, pace!Unstable, pace!Ambiguous, pace!Settles,
                pace!Defers
  <2> QED BY <2>1 DEF Metered, Timed, pace!BreakerBounds
<1> QED BY <1>1, <1>2, <1>3, <1>4, <1>5 DEF pace!Next

LEMMA MeterInductive == BreakerInv /\ [SessionNext]_sessionVars => BreakerInv'
<1> SUFFICES ASSUME BreakerInv, [SessionNext]_sessionVars, part' = "pace" PROVE Metered'
  BY DEF BreakerInv
<1>1. part = "pace" /\ Metered
  BY DEF BreakerInv, SessionNext, sessionVars
<1>2. CASE UNCHANGED sessionVars
  BY <1>1, <1>2 DEF sessionVars, paceVars, Metered, Timed, pace!BreakerBounds
<1>3. CASE pace!Next
  BY <1>1, <1>3, MeterStep
<1> QED BY <1>1, <1>2, <1>3 DEF SessionNext

(***************************************************************************)
(* Between a rebase and the one that comes BREAKER_THRESHOLD later at least*)
(* the cooldown passes (src/src/reconciliation.rs, breaker_gate), whatever *)
(* the attempts that the window and the opening of the breaker forget.     *)
(***************************************************************************)
THEOREM RebasesSpaced == SessionSpec => []BreakerBounds
<1>1. SessionSpec => []BreakerInv
  BY MeterInit, MeterInductive, PTL DEF SessionSpec
<1>2. BreakerInv => BreakerBounds
  BY DEF BreakerInv, Metered, BreakerBounds
<1> QED BY <1>1, <1>2, PTL

-----------------------------------------------------------------------------
(***************************************************************************)
(* A lease over several resources. Types, and what the parts of a cell say *)
(* about each other; b is the original state of the resource.              *)
(***************************************************************************)
States == Plans \cup Others
Values == States \cup {None}
Recs == [phase : {"none", "prepared", "applied"}, before : Values, desired : Plans \cup {None},
         applied : Values]
Pendings == [evidence : Values, target : Values, resume : Recs]
LiveStates == {"none", "committed", "unmutated", "prepared", "verified", "compensating"}
Lives == [record : Recs, state : LiveStates, repair : BOOLEAN, pending : Pendings]
Cells == [s : States, j : Recs, l : Lives, ok : BOOLEAN, f : Nat]
Outcomes == [s : States, id : Values, ok : BOOLEAN, f : Nat]

\* A record of this resource, with its original.
Of(b, record) == record.phase # "none" /\ record.before = b

\* An entry of this resource; one that compensates has a target and a record to
\* resume with, for the same plan.
Sound(b, l) ==
    /\ l.state # "none" /\ Of(b, l.record)
    /\ l.state = "committed" => l.record.applied = l.record.desired
    /\ l.state = "verified" => l.pending.evidence = l.record.desired
    /\ l.state = "compensating" =>
          /\ l.pending.target # None /\ Of(b, l.pending.resume)
          /\ l.pending.resume.desired = l.record.desired
          /\ l.pending.resume.phase = "applied" => l.pending.target = l.record.desired

Fit(b, c) == c \in Cells /\ Sound(b, c.l)

LEMMA LeaseConstants == N \in Nat \ {0} /\ None \notin States
BY SessionAssumption DEF set!Given, States

LEMMA NoneTyped ==
    /\ set!NoRecord \in Recs /\ set!NoRecord.phase = "none" /\ set!NoPending \in Pendings
    /\ set!NoLive \in Lives /\ set!NoLive.state = "none" /\ set!NoLive.record = set!NoRecord
<1>1. set!NoRecord \in Recs /\ set!NoRecord.phase = "none"
  BY DEF set!NoRecord, set!Record, Recs, Values
<1>2. set!NoPending \in Pendings
  BY <1>1 DEF set!NoPending, set!Pending, Pendings, Values
<1>3. set!NoLive \in Lives /\ set!NoLive.state = "none" /\ set!NoLive.record = set!NoRecord
  BY <1>1, <1>2 DEF set!NoLive, set!Live, Lives, LiveStates
<1> QED BY <1>1, <1>2, <1>3

LEMMA LiveTyped ==
    ASSUME NEW record \in Recs, NEW state \in LiveStates, NEW work \in Pendings
    PROVE  /\ set!Live(record, state, work) \in Lives
           /\ set!Live(record, state, work).record = record
           /\ set!Live(record, state, work).state = state
           /\ set!Live(record, state, work).pending = work
BY DEF set!Live, Lives

\* Journal::write: visible or not when it fails.
LEMMA WriteCell ==
    ASSUME NEW c \in Cells, NEW record \in Recs, NEW w \in set!Write(c, record)
    PROVE  /\ w \in Cells /\ w.s = c.s /\ w.l = c.l /\ w.j \in {c.j, record}
           /\ w.ok => c.ok /\ w.j = record
<1>1. CASE w = [c EXCEPT !.j = record]
  BY <1>1 DEF Cells
<1>2. ASSUME NEW j \in {c.j, record}, w = [c EXCEPT !.j = j, !.ok = FALSE, !.f = @ + 1]
      PROVE  /\ w \in Cells /\ w.s = c.s /\ w.l = c.l /\ w.j \in {c.j, record}
             /\ w.ok => c.ok /\ w.j = record
  <2>1. c.f + 1 \in Nat /\ j \in Recs
    BY DEF Cells
  <2>2. w.s = c.s /\ w.l = c.l /\ w.j = j /\ w.ok = FALSE
    BY <1>2 DEF Cells
  <2>3. w \in Cells
    BY <1>2, <2>1 DEF Cells
  <2> QED BY <2>2, <2>3
<1> QED BY <1>1, <1>2 DEF set!Write

\* compensate: it reaches the target, or leaves the state, or both without saying so.
LEMMA CompensateOutcome ==
    ASSUME NEW s \in States, NEW evidence \in Values, NEW goal \in States,
           NEW k \in set!Compensate(s, evidence, goal)
    PROVE  /\ k \in Outcomes /\ k.s \in {s, goal}
           /\ k.ok => k.s = goal /\ k.id \in {goal, None}
<1>1. goal \in Values /\ None \in Values /\ 0 \in Nat /\ 1 \in Nat
  BY DEF Values
<1>2. CASE \E i \in {goal, None} : k = [s |-> goal, id |-> i, ok |-> TRUE, f |-> 0]
  <2>1. PICK i \in {goal, None} : k = [s |-> goal, id |-> i, ok |-> TRUE, f |-> 0]
    BY <1>2
  <2>2. k \in Outcomes
    BY <1>1, <2>1 DEF Outcomes
  <2> QED BY <2>1, <2>2
<1>3. ASSUME NEW x \in {s, goal}, NEW i \in Values, NEW n \in Nat,
             k = [s |-> x, id |-> i, ok |-> FALSE, f |-> n]
      PROVE  /\ k \in Outcomes /\ k.s \in {s, goal} /\ ~k.ok
  BY <1>3 DEF Outcomes
<1>4. \/ \E i \in {goal, None} : k = [s |-> goal, id |-> i, ok |-> TRUE, f |-> 0]
      \/ \E x \in {s, goal}, i \in {evidence, goal}, n \in {0, 1} :
            k = [s |-> x, id |-> i, ok |-> FALSE, f |-> n]
  <2>1. CASE s = goal
    BY <2>1, Zenon DEF set!Compensate
  <2>2. CASE s # goal /\ evidence # s
    BY <2>2 DEF set!Compensate
  <2>3. CASE s # goal /\ evidence = s
    BY <2>3 DEF set!Compensate
  <2> QED BY <2>1, <2>2, <2>3
<1> QED BY <1>1, <1>2, <1>3, <1>4

\* What writing a record of the resource makes of a cell.
LEMMA PersistCell ==
    ASSUME NEW b, NEW c \in Cells, NEW candidate \in Recs, Of(b, candidate),
           candidate.phase = "applied" => candidate.applied = candidate.desired,
           NEW w \in set!PersistLive(c, candidate)
    PROVE  /\ Fit(b, w) /\ w.s = c.s /\ w.j \in {c.j, candidate}
           /\ w.l.record = candidate /\ w.l.state \in {"committed", "unmutated"}
           /\ w.l.state = "committed" => candidate.phase = "applied"
<1> DEFINE l0 == set!Live(candidate,
                          IF candidate.phase = "applied" THEN "committed" ELSE "unmutated",
                          set!NoPending)
<1>1. PICK v \in set!Write(c, candidate) : w = [v EXCEPT !.l = [l0 EXCEPT !.repair = ~v.ok]]
  BY DEF set!PersistLive
<1>2. /\ v \in Cells /\ v.s = c.s /\ v.j \in {c.j, candidate}
  BY WriteCell
<1>3. /\ l0 \in Lives /\ l0.record = candidate /\ l0.pending = set!NoPending
      /\ l0.state = IF candidate.phase = "applied" THEN "committed" ELSE "unmutated"
  <2> DEFINE st == IF candidate.phase = "applied" THEN "committed" ELSE "unmutated"
  <2>1. st \in LiveStates
    BY DEF LiveStates
  <2> HIDE DEF st
  <2>2. /\ set!Live(candidate, st, set!NoPending) \in Lives
        /\ set!Live(candidate, st, set!NoPending).record = candidate
        /\ set!Live(candidate, st, set!NoPending).pending = set!NoPending
        /\ set!Live(candidate, st, set!NoPending).state = st
    BY <2>1, LiveTyped, NoneTyped
  <2> QED BY <2>2 DEF st
<1> HIDE DEF l0
<1> DEFINE l1 == [l0 EXCEPT !.repair = ~v.ok]
<1>4. v.ok \in BOOLEAN
  BY <1>2 DEF Cells
<1>5. /\ l1 \in Lives /\ l1.record = candidate /\ l1.state = l0.state /\ l1.pending = set!NoPending
  BY <1>3, <1>4 DEF Lives
<1>6. w = [v EXCEPT !.l = l1]
  BY <1>1
<1> HIDE DEF l1
<1>7. w \in Cells /\ w.s = v.s /\ w.j = v.j /\ w.l = l1 /\ w.ok = v.ok
  BY <1>2, <1>5, <1>6 DEF Cells
<1>8. Sound(b, l1)
  BY <1>3, <1>5 DEF Sound
<1> QED BY <1>2, <1>3, <1>5, <1>7, <1>8 DEF Fit

\* What keeping a compensation makes of a cell.
LEMMA RetainCell ==
    ASSUME NEW b, NEW c \in Cells, Of(b, c.l.record), NEW work \in Pendings,
           work.target # None, Of(b, work.resume),
           work.resume.phase = "applied" => work.target = work.resume.desired,
           NEW w \in set!RetainCompensation(c, work)
    PROVE  /\ Fit(b, w) /\ w.s = c.s /\ w.l.state = "compensating"
           /\ w.l.record.desired = work.resume.desired
           /\ w.j = c.j \/ Of(b, w.j)
<1> DEFINE record == [c.l.record EXCEPT !.phase = "prepared", !.applied = work.evidence,
                                        !.desired = work.resume.desired]
           l0 == set!Live(record, "compensating", work)
<1>0. c.l.record \in Recs /\ work.evidence \in Values /\ work.resume \in Recs
  BY DEF Cells, Lives, Pendings
<1>1. /\ record \in Recs /\ record.desired = work.resume.desired /\ Of(b, record)
  BY <1>0 DEF Recs, Of
<1>2. PICK v \in set!Write(c, record) : w = [v EXCEPT !.l = [l0 EXCEPT !.repair = ~v.ok]]
  BY DEF set!RetainCompensation
<1> HIDE DEF record
<1>3. /\ v \in Cells /\ v.s = c.s /\ v.j \in {c.j, record}
  BY <1>1, <1>2, WriteCell
<1>4. /\ l0 \in Lives /\ l0.record = record /\ l0.pending = work /\ l0.state = "compensating"
  <2>1. "compensating" \in LiveStates
    BY DEF LiveStates
  <2> QED BY <1>1, <2>1, LiveTyped
<1> HIDE DEF l0
<1> DEFINE l1 == [l0 EXCEPT !.repair = ~v.ok]
<1>5. v.ok \in BOOLEAN
  BY <1>3 DEF Cells
<1>6. /\ l1 \in Lives /\ l1.record = record /\ l1.state = l0.state /\ l1.pending = work
  BY <1>4, <1>5 DEF Lives
<1>7. w = [v EXCEPT !.l = l1]
  BY <1>2
<1> HIDE DEF l1
<1>8. w \in Cells /\ w.s = v.s /\ w.j = v.j /\ w.l = l1
  BY <1>3, <1>6, <1>7 DEF Cells
<1>9. Sound(b, l1)
  BY <1>1, <1>4, <1>6 DEF Sound
<1> QED BY <1>1, <1>3, <1>4, <1>6, <1>8, <1>9 DEF Fit

\* What settling an entry makes of its cell: the same plan; the record, if it is
\* written, is one of the resource; an entry comes to be committed in its state.
Resolved(b, c, d) ==
    /\ Fit(b, d) /\ d.l.record.desired = c.l.record.desired
    /\ d.j = c.j \/ Of(b, d.j)
    /\ d.l.state = "committed" =>
          \/ d.s = d.l.record.applied
          \/ c.l.state = "committed" /\ d.s = c.s /\ d.l.record = c.l.record

LEMMA UnchangedResolved ==
    ASSUME NEW b, NEW c, NEW d, Fit(b, c), d \in Cells, d.s = c.s, d.l = c.l,
           d.j = c.j \/ Of(b, d.j)
    PROVE  Resolved(b, c, d)
BY DEF Resolved, Fit

LEMMA ResolveStateCell ==
    ASSUME NEW b \in States, NEW c, Fit(b, c), NEW d \in set!ResolveState(c)
    PROVE  Resolved(b, c, d)
<1> DEFINE l == c.l
           applied == [l.record EXCEPT !.phase = "applied", !.applied = l.pending.evidence]
<1>0. /\ c \in Cells /\ l \in Lives /\ l.record \in Recs /\ l.pending \in Pendings
      /\ l.pending.evidence \in Values /\ l.pending.target \in Values /\ l.pending.resume \in Recs
      /\ c.s \in States /\ c.j \in Recs /\ c.ok \in BOOLEAN /\ c.f \in Nat
  BY DEF Fit, Cells, Lives, Pendings
<1>1. CASE l.state \in {"committed", "unmutated"}
  <2>1. d = c
    BY <1>1 DEF set!ResolveState
  <2> QED BY <1>0, <2>1, UnchangedResolved
<1>2. CASE l.state = "prepared" \/ (l.state = "verified" /\ c.s # l.pending.evidence)
  <2>1. d = [c EXCEPT !.ok = FALSE]
    BY <1>2, Zenon DEF set!ResolveState
  <2>2. d \in Cells /\ d.s = c.s /\ d.l = c.l /\ d.j = c.j
    BY <1>0, <2>1 DEF Cells
  <2> QED BY <2>2, UnchangedResolved
<1>3. CASE l.state = "verified" /\ c.s = l.pending.evidence
  <2>1. PICK w \in set!Write(c, applied) :
           d = IF w.ok THEN [w EXCEPT !.l = set!Live(applied, "committed", set!NoPending)] ELSE w
    BY <1>3, Zenon DEF set!ResolveState
  <2>2. /\ applied \in Recs /\ Of(b, applied) /\ applied.applied = l.pending.evidence
        /\ applied.desired = l.record.desired
    BY <1>0 DEF Recs, Of, Fit, Sound
  <2> HIDE DEF applied
  <2>3. w \in Cells /\ w.s = c.s /\ w.l = c.l /\ w.j \in {c.j, applied}
    BY <1>0, <2>2, WriteCell
  <2>4. CASE ~w.ok
    <3>1. d = w
      BY <2>1, <2>4
    <3> QED BY <2>2, <2>3, <3>1, UnchangedResolved
  <2>5. CASE w.ok
    <3> DEFINE l1 == set!Live(applied, "committed", set!NoPending)
    <3>1. l1 \in Lives /\ l1.record = applied /\ l1.state = "committed"
      <4>1. "committed" \in LiveStates
        BY DEF LiveStates
      <4> QED BY <2>2, <4>1, LiveTyped, NoneTyped
    <3>2. d = [w EXCEPT !.l = l1]
      BY <2>1, <2>5
    <3> HIDE DEF l1
    <3>3. d \in Cells /\ d.s = c.s /\ d.j \in {c.j, applied} /\ d.l = l1
      BY <2>3, <3>1, <3>2 DEF Cells
    <3>4. l.pending.evidence = l.record.desired
      BY <1>3 DEF Fit, Sound
    <3>5. Sound(b, l1)
      BY <2>2, <3>1, <3>4 DEF Sound
    <3> QED BY <1>3, <2>2, <3>1, <3>3, <3>5 DEF Resolved, Fit
  <2> QED BY <2>4, <2>5
<1>4. CASE l.state = "compensating"
  <2> DEFINE resume == l.pending.resume
             goal == l.pending.target
             Moved(k) == [c EXCEPT !.s = k.s, !.f = @ + k.f]
             Again(k) == IF resume.phase = "applied" THEN set!Resumed(resume, k.id) ELSE resume
             Still(k) == set!Pending(k.id, goal, resume)
  <2>1. PICK k \in set!Compensate(c.s, l.pending.evidence, goal) :
           d \in IF k.ok THEN set!PersistLive(Moved(k), Again(k))
                 ELSE {[w EXCEPT !.ok = FALSE] : w \in set!RetainCompensation(Moved(k), Still(k))}
    BY <1>4, Zenon DEF set!ResolveState
  <2>2. /\ goal \in States /\ Of(b, resume) /\ resume.desired = l.record.desired
        /\ resume.phase = "applied" => goal = l.record.desired
    BY <1>0, <1>4 DEF Fit, Sound, Values
  <2>3. k \in Outcomes /\ (k.ok => k.s = goal /\ k.id \in {goal, None})
    BY <1>0, <2>2, CompensateOutcome
  <2>4. k.s \in States /\ k.id \in Values /\ k.f \in Nat
    BY <2>3 DEF Outcomes
  <2>5. Moved(k) \in Cells /\ Moved(k).s = k.s /\ Moved(k).j = c.j /\ Moved(k).l = c.l
    <3>1. c.f + k.f \in Nat
      BY <1>0, <2>4
    <3>2. Moved(k).s = k.s /\ Moved(k).j = c.j /\ Moved(k).l = c.l
      BY <1>0 DEF Cells
    <3>3. Moved(k) \in Cells
      BY <1>0, <2>4, <3>1 DEF Cells
    <3> QED BY <3>2, <3>3
  <2> HIDE DEF Moved
  <2>6. CASE k.ok
    <3>1. /\ Again(k) \in Recs /\ Of(b, Again(k)) /\ Again(k).desired = l.record.desired
          /\ Again(k).phase = "applied" => Again(k).applied = Again(k).desired /\ Again(k).applied = k.s
      <4>1. CASE resume.phase = "applied"
        <5>1. Again(k) = [resume EXCEPT !.applied = k.id, !.phase = IF k.id = None THEN "prepared" ELSE @]
          BY <4>1 DEF set!Resumed
        <5>2. k.id \in Values /\ resume \in Recs
          BY <1>0, <2>4
        <5>3. /\ Again(k) \in Recs /\ Again(k).before = resume.before
              /\ Again(k).desired = resume.desired /\ Again(k).applied = k.id
              /\ Again(k).phase = IF k.id = None THEN "prepared" ELSE "applied"
          BY <4>1, <5>1, <5>2 DEF Recs
        <5> HIDE DEF Again
        <5> QED BY <2>2, <2>3, <2>6, <4>1, <5>3 DEF Of
      <4>2. CASE resume.phase # "applied"
        <5>1. Again(k) = resume
          BY <4>2
        <5> HIDE DEF Again
        <5> QED BY <1>0, <2>2, <4>2, <5>1
      <4> QED BY <4>1, <4>2
    <3> HIDE DEF Again
    <3>2. d \in set!PersistLive(Moved(k), Again(k))
      BY <2>1, <2>6
    <3>3. /\ Fit(b, d) /\ d.s = k.s /\ d.j \in {c.j, Again(k)} /\ d.l.record = Again(k)
          /\ d.l.state = "committed" => Again(k).phase = "applied"
      <4> DEFINE m == Moved(k)
                 a == Again(k)
      <4>1. m \in Cells /\ m.s = k.s /\ m.j = c.j
        BY <2>5
      <4>2. /\ a \in Recs /\ Of(b, a) /\ (a.phase = "applied" => a.applied = a.desired)
            /\ d \in set!PersistLive(m, a)
        BY <3>1, <3>2
      <4> HIDE DEF m, a
      <4>3. /\ Fit(b, d) /\ d.s = m.s /\ d.j \in {m.j, a} /\ d.l.record = a
            /\ d.l.state = "committed" => a.phase = "applied"
        BY <4>1, <4>2, PersistCell
      <4> QED BY <4>1, <4>3 DEF a
    <3> QED BY <3>1, <3>3 DEF Resolved
  <2>7. CASE ~k.ok
    <3>1. PICK w \in set!RetainCompensation(Moved(k), Still(k)) : d = [w EXCEPT !.ok = FALSE]
      BY <2>1, <2>7
    <3>2. /\ Still(k) \in Pendings /\ Still(k).target = goal /\ Still(k).resume = resume
      BY <1>0, <2>4 DEF set!Pending, Pendings
    <3>3. Of(b, Moved(k).l.record) /\ goal # None
      BY <1>4, <2>5 DEF Fit, Sound
    <3>4. /\ Fit(b, w) /\ w.l.state = "compensating" /\ w.l.record.desired = resume.desired
          /\ w.j = c.j \/ Of(b, w.j)
      <4> DEFINE m == Moved(k)
                 x == Still(k)
      <4>1. m \in Cells /\ m.j = c.j /\ Of(b, m.l.record)
        BY <2>5, <3>3
      <4>2. /\ x \in Pendings /\ x.target # None /\ x.resume = resume /\ Of(b, x.resume)
            /\ x.resume.phase = "applied" => x.target = x.resume.desired
        <5> HIDE DEF Still
        <5> QED BY <2>2, <3>2, <3>3
      <4>3. w \in set!RetainCompensation(m, x)
        BY <3>1
      <4> HIDE DEF m, x
      <4>4. /\ Fit(b, w) /\ w.l.state = "compensating" /\ w.l.record.desired = x.resume.desired
            /\ w.j = m.j \/ Of(b, w.j)
        BY <4>1, <4>2, <4>3, RetainCell
      <4> QED BY <4>1, <4>2, <4>4
    <3>5. d \in Cells /\ d.s = w.s /\ d.l = w.l /\ d.j = w.j
      BY <3>1, <3>4 DEF Fit, Cells
    <3> QED BY <2>2, <3>4, <3>5 DEF Resolved, Fit
  <2> QED BY <2>6, <2>7
<1>5. l.state # "none"
  BY DEF Fit, Sound
<1> QED BY <1>0, <1>1, <1>2, <1>3, <1>4, <1>5 DEF Lives, LiveStates

LEMMA ResolvedThen ==
    ASSUME NEW b, NEW c, NEW d, NEW e, Resolved(b, d, e), d.s = c.s,
           d.l.record = c.l.record, d.l.state = c.l.state, d.j = c.j \/ Of(b, d.j)
    PROVE  Resolved(b, c, e)
BY DEF Resolved

LEMMA ResolveLiveCell ==
    ASSUME NEW b \in States, NEW c, Fit(b, c), NEW d \in set!ResolveLive(c)
    PROVE  Resolved(b, c, d)
<1>1. CASE ~c.l.repair
  BY <1>1, ResolveStateCell DEF set!ResolveLive
<1>2. CASE c.l.repair
  <2>1. PICK w \in set!Write(c, c.l.record) :
           d \in IF w.ok THEN set!ResolveState([w EXCEPT !.l.repair = FALSE]) ELSE {w}
    BY <1>2, Zenon DEF set!ResolveLive
  <2>2. c \in Cells /\ c.l \in Lives /\ c.l.record \in Recs /\ Of(b, c.l.record) /\ Sound(b, c.l)
    BY DEF Fit, Sound, Cells, Lives
  <2>3. w \in Cells /\ w.s = c.s /\ w.l = c.l /\ w.j \in {c.j, c.l.record}
    BY <2>1, <2>2, WriteCell
  <2>4. CASE w.ok
    <3> DEFINE v == [w EXCEPT !.l.repair = FALSE]
               l1 == [c.l EXCEPT !.repair = FALSE]
    <3>1. /\ l1 \in Lives /\ l1.record = c.l.record /\ l1.state = c.l.state
          /\ l1.pending = c.l.pending
      BY <2>2 DEF Lives
    <3>2. v = [w EXCEPT !.l = l1]
      BY <2>3 DEF Cells
    <3> HIDE DEF l1, v
    <3>3. v \in Cells /\ v.s = c.s /\ v.l = l1 /\ v.j = w.j
      BY <2>3, <3>1, <3>2 DEF Cells
    <3>4. Fit(b, v)
      BY <2>2, <3>1, <3>3 DEF Fit, Sound
    <3>5. d \in set!ResolveState(v)
      BY <2>1, <2>4 DEF v
    <3>6. Resolved(b, v, d)
      BY <3>4, <3>5, ResolveStateCell
    <3> QED BY <2>2, <2>3, <3>1, <3>3, <3>6, ResolvedThen
  <2>5. CASE ~w.ok
    <3>1. d = w
      BY <2>1, <2>5
    <3> QED BY <2>2, <2>3, <3>1, UnchangedResolved
  <2> QED BY <2>4, <2>5
<1> QED BY <1>1, <1>2

\* Restoring an entry: the record goes only when the original is back.
Restored(b, c, d) ==
    /\ Fit(b, d) /\ d.l.record.desired = c.l.record.desired
    /\ d.j = c.j \/ Of(b, d.j) \/ (d.j = set!NoRecord /\ d.s = b)
    /\ d.ok => d.j = set!NoRecord /\ d.s = b
    /\ d.l.state = "committed" =>
          \/ d.s = d.l.record.applied
          \/ c.l.state = "committed" /\ d.s = c.s /\ d.l.record = c.l.record

LEMMA EraseCell ==
    ASSUME NEW b, NEW c, Fit(b, c), c.s = b, NEW d \in set!Erase(c)
    PROVE  Restored(b, c, d)
<1>1. c \in Cells
  BY DEF Fit
<1>2. d \in Cells /\ d.s = c.s /\ d.l = c.l /\ d.j \in {c.j, set!NoRecord} /\ (d.ok => d.j = set!NoRecord)
  BY <1>1, WriteCell, NoneTyped DEF set!Erase
<1> QED BY <1>2 DEF Restored, Fit

LEMMA RestoreAppliedCell ==
    ASSUME NEW b \in States, NEW c, Fit(b, c), NEW d \in set!RestoreApplied(c)
    PROVE  Restored(b, c, d)
<1> DEFINE record == c.l.record
           resume == [record EXCEPT !.phase = "prepared", !.applied = None]
<1>0. /\ c \in Cells /\ c.l \in Lives /\ record \in Recs /\ c.l.pending \in Pendings
      /\ record.before = b /\ Of(b, record) /\ c.s \in States /\ c.f \in Nat
      /\ record.applied \in Values
  BY DEF Fit, Sound, Of, Cells, Lives, Recs
<1>1. CASE c.s = record.before
  BY <1>0, <1>1, EraseCell DEF set!RestoreApplied
<1>2. CASE c.s # record.before /\ (c.l.state # "committed" \/ c.s # record.applied)
  <2>1. d = [c EXCEPT !.ok = FALSE]
    BY <1>2, Zenon DEF set!RestoreApplied
  <2>2. d \in Cells /\ d.s = c.s /\ d.l = c.l /\ d.j = c.j /\ d.ok = FALSE
    BY <1>0, <2>1 DEF Cells
  <2> QED BY <2>2 DEF Restored, Fit
<1>3. CASE c.s # record.before /\ c.l.state = "committed" /\ c.s = record.applied
  <2> DEFINE P(k) == set!Pending(k.id, record.before, resume)
             L(k) == [c.l EXCEPT !.state = "compensating", !.pending = P(k)]
             D(k) == [c EXCEPT !.s = k.s, !.f = @ + k.f,
                               !.l = [@ EXCEPT !.state = "compensating", !.pending = P(k)]]
  <2>1. PICK k \in set!Compensate(c.s, record.applied, record.before) :
           d \in IF k.ok THEN set!Erase(D(k))
                 ELSE {[w EXCEPT !.ok = FALSE] : w \in set!RetainCompensation(D(k), P(k))}
    BY <1>3, Zenon DEF set!RestoreApplied
  <2>2. k \in Outcomes /\ (k.ok => k.s = b)
    BY <1>0, <2>1, CompensateOutcome
  <2>3. k.s \in States /\ k.id \in Values /\ k.f \in Nat
    BY <2>2 DEF Outcomes
  <2>4. /\ resume \in Recs /\ Of(b, resume) /\ resume.desired = record.desired
        /\ resume.phase = "prepared"
    BY <1>0 DEF Recs, Of, Values
  <2> HIDE DEF resume
  <2>5. P(k) \in Pendings /\ P(k).target = b /\ P(k).resume = resume
    BY <1>0, <2>3, <2>4 DEF set!Pending, Pendings, Values
  <2>6. b # None
    BY LeaseConstants
  <2> HIDE DEF P
  <2>7. L(k) \in Lives /\ L(k).record = record /\ L(k).state = "compensating" /\ L(k).pending = P(k)
    BY <1>0, <2>5 DEF Lives, LiveStates
  <2>8. D(k) = [c EXCEPT !.s = k.s, !.f = @ + k.f, !.l = L(k)]
    OBVIOUS
  <2> HIDE DEF L, D
  <2>9. D(k) \in Cells /\ D(k).s = k.s /\ D(k).l = L(k) /\ D(k).j = c.j
    <3>1. c.f + k.f \in Nat
      BY <1>0, <2>3
    <3>2. D(k).s = k.s /\ D(k).j = c.j /\ D(k).l = L(k)
      BY <1>0, <2>8 DEF Cells
    <3>3. D(k) \in Cells
      BY <1>0, <2>3, <2>7, <2>8, <3>1 DEF Cells
    <3> QED BY <3>2, <3>3
  <2>10. Fit(b, D(k))
    BY <1>0, <2>4, <2>5, <2>6, <2>7, <2>9 DEF Fit, Sound
  <2>11. CASE k.ok
    <3>1. Restored(b, D(k), d)
      BY <2>1, <2>2, <2>9, <2>10, <2>11, EraseCell
    <3>2. d.l.state = "committed" => d.s = d.l.record.applied
      BY <3>1, <2>7, <2>9 DEF Restored
    <3> QED BY <3>1, <3>2, <2>7, <2>9 DEF Restored
  <2>12. CASE ~k.ok
    <3>1. PICK w \in set!RetainCompensation(D(k), P(k)) : d = [w EXCEPT !.ok = FALSE]
      BY <2>1, <2>12
    <3>2. Of(b, D(k).l.record)
      BY <1>0, <2>7, <2>9
    <3>3. /\ Fit(b, w) /\ w.l.state = "compensating" /\ w.l.record.desired = resume.desired
          /\ w.j = c.j \/ Of(b, w.j)
      BY <2>4, <2>5, <2>6, <2>9, <3>1, <3>2, RetainCell
    <3>4. d \in Cells /\ d.s = w.s /\ d.l = w.l /\ d.j = w.j /\ d.ok = FALSE
      BY <3>1, <3>3 DEF Fit, Cells
    <3> QED BY <2>4, <3>3, <3>4 DEF Restored, Fit
  <2> QED BY <2>11, <2>12
<1> QED BY <1>1, <1>2, <1>3

LEMMA RestoreLiveStateCell ==
    ASSUME NEW b \in States, NEW c, Fit(b, c), NEW d \in set!RestoreLiveState(c)
    PROVE  Restored(b, c, d) /\ (c.s = b => d.s = b)
<1>0. c \in Cells /\ c.l.record.before = b /\ c.f \in Nat
  BY DEF Fit, Sound, Of, Cells
<1>1. CASE d = [c EXCEPT !.ok = FALSE, !.f = @ + 1]
  <2>1. d \in Cells /\ d.s = c.s /\ d.l = c.l /\ d.j = c.j /\ d.ok = FALSE
    <3>1. c.f + 1 \in Nat
      BY <1>0
    <3>2. d.s = c.s /\ d.l = c.l /\ d.j = c.j /\ d.ok = FALSE
      BY <1>0, <1>1 DEF Cells
    <3>3. d \in Cells
      BY <1>0, <1>1, <3>1 DEF Cells
    <3> QED BY <3>2, <3>3
  <2> QED BY <2>1 DEF Restored, Fit
<1>2. CASE c.s = b /\ d \in set!Erase(c)
  <2>1. d.s = c.s
    BY <1>0, <1>2, WriteCell, NoneTyped DEF set!Erase
  <2> QED BY <1>2, <2>1, EraseCell
<1>3. CASE c.s # b /\ d \in set!RestoreApplied(c)
  BY <1>3, RestoreAppliedCell
<1>4. ASSUME c.s # b, NEW w \in set!ResolveLive(c), d \in IF w.ok THEN set!RestoreApplied(w) ELSE {w}
      PROVE  Restored(b, c, d)
  <2>1. Resolved(b, c, w)
    BY <1>4, ResolveLiveCell
  <2>2. CASE w.ok
    <3>1. Restored(b, w, d)
      BY <1>4, <2>1, <2>2, RestoreAppliedCell DEF Resolved
    <3> QED BY <2>1, <3>1 DEF Restored, Resolved
  <2>3. CASE ~w.ok
    <3>1. d = w
      BY <1>4, <2>3
    <3> QED BY <2>1, <2>3, <3>1 DEF Restored, Resolved
  <2> QED BY <2>2, <2>3
<1>5. \/ d = [c EXCEPT !.ok = FALSE, !.f = @ + 1]
      \/ c.s = b /\ d \in set!Erase(c)
      \/ c.s # b /\ d \in set!RestoreApplied(c)
      \/ c.s # b /\ \E w \in set!ResolveLive(c) : d \in IF w.ok THEN set!RestoreApplied(w) ELSE {w}
  BY <1>0, Zenon DEF set!RestoreLiveState
<1> QED BY <1>1, <1>2, <1>3, <1>4, <1>5

-----------------------------------------------------------------------------
(***************************************************************************)
(* The inductive invariant of a lease.                                     *)
(***************************************************************************)
Kinds == {"none", "ok", "unchanged", "restored", "pending"}
Residues == [kind : Kinds, evidence : Values]
Txs == [plan : Plans \cup {None}, olds : [set!Set -> Recs], residue : [set!Set -> Residues], failed : 0..N]

Typed ==
    /\ native \in [set!Set -> States] /\ before \in [set!Set -> Values] /\ mine \in [set!Set -> Values]
    /\ journal \in [set!Set -> Recs] /\ live \in [set!Set -> Lives]
    /\ claimed \in SUBSET set!Set /\ strayed \in SUBSET set!Set
    /\ at \in set!Set /\ tx \in Txs

\* The steps of the calls.
Applying == op = "apply" /\ step \in {"persist", "withdraw", "mutate", "unwind", "commit"}
Updating ==
    /\ op = "update"
    /\ step \in {"resolve", "own", "prepare", "revert", "mutate", "rollback", "settle", "commit"}
Ending == op \in {"restore", "abandon", "drop"} /\ step = "end"
Resolving == Updating /\ step \in {"resolve", "own"}

Control ==
    /\ phase \in {"none", "active", "restoring", "abandoning"}
    /\ \/ step = "rest"
       \/ Applying /\ phase = "none" /\ tx.plan # None
       \/ Updating /\ phase = "active" /\ tx.plan # None
       \/ Ending /\ phase # "none"
    /\ step = "withdraw" => at <= tx.failed
    /\ step = "unwind" => tx.failed > 0
    /\ step = "rollback" => at < tx.failed
    /\ step # "rest" \/ phase # "none" => before \in [set!Set -> States]

\* Records and entries are about their resource and have its original.
Rooted(r) ==
    /\ journal[r] = set!NoRecord \/ Of(before[r], journal[r])
    /\ live[r] = set!NoLive \/ Sound(before[r], live[r])
    /\ Applying => Of(before[r], tx.olds[r])
    /\ Updating /\ (step = "resolve" => r < at) =>
          Of(before[r], tx.olds[r]) /\ tx.olds[r].applied # None

\* The resources whose entries exist.
Tracked(r) ==
    \/ ~Applying /\ r \in claimed
    \/ Applying /\ step = "persist" /\ r < at
    \/ Applying /\ step = "withdraw" /\ at <= r /\ r <= tx.failed
    \/ Applying /\ step = "unwind" /\ at <= r
    \/ Applying /\ step \in {"mutate", "commit"}

\* The resources whose records must exist.
Recorded(r) ==
    \/ phase = "active" /\ step # "end"
    \/ Applying /\ step \in {"mutate", "commit"}
    \/ Applying /\ step = "persist" /\ r < at

Entered(r) ==
    /\ Tracked(r) <=> live[r] # set!NoLive
    /\ Recorded(r) => journal[r] # set!NoRecord
    /\ Ending /\ op = "drop" /\ r < at => r \notin claimed

\* The locks of the lease.
Claims ==
    /\ Applying => claimed = set!Set
    /\ step = "rest" /\ phase = "none" => claimed = {}
    /\ phase = "active" /\ step # "end" => claimed = set!Set

\* The resources in which nothing is osdns' own.
Untouched(r) ==
    \/ Applying /\ step \in {"persist", "withdraw"}
    \/ Applying /\ step = "mutate" /\ r >= at
    \/ Applying /\ step = "unwind" /\ r > tx.failed
    \/ Ending /\ op = "abandon"
    \/ phase = "abandoning" /\ ~(Ending /\ op = "restore")

Owned(r) == mine[r] \in {None, native[r]} /\ (Untouched(r) => mine[r] = None)

\* What restore or abandon has let go of is without a record and without osdns'.
Letting ==
    \/ step = "rest" /\ (phase # "none" \/ op \in {"restore", "abandon"})
    \/ Ending /\ op # "drop"
Freed(r) ==
    Letting /\ r \notin claimed =>
        journal[r] = set!NoRecord /\ (mine[r] = native[r] => native[r] = before[r])

\* The entries that have the new plan, and those that have the old.
New(r) ==
    \/ Applying
    \/ Updating /\ step \in {"mutate", "rollback", "commit"}
    \/ Updating /\ step = "prepare" /\ r < at
    \/ Updating /\ step = "settle" /\ r >= at
Old(r) ==
    \/ Updating /\ step = "prepare" /\ r >= at
    \/ Updating /\ step \in {"settle", "revert"} /\ r < at

Planned(r) ==
    /\ New(r) /\ live[r] # set!NoLive => live[r].record.desired = tx.plan
    /\ Old(r) => live[r].record.desired = tx.olds[r].desired
    /\ Applying => tx.olds[r].desired = tx.plan /\ (set!WasNoop => tx.olds[r].applied = tx.plan)
    /\ Resolving /\ (step = "resolve" => r < at) => tx.olds[r] = live[r].record
    /\ Updating /\ (step = "resolve" => r < at) => tx.olds[r].applied = tx.olds[r].desired
    /\ Updating /\ (step \in {"mutate", "rollback"} \/ (step = "prepare" /\ r < at)) =>
          live[r].state # "committed"

\* All records want the same.
Alike ==
    /\ Updating /\ ~Resolving => \A r, s \in set!Set : tx.olds[r].desired = tx.olds[s].desired
    /\ step = "rest" \/ Ending \/ Resolving =>
          \A r, s \in claimed : live[r].record.desired = live[s].record.desired

\* The resources that are in their old state, if in one of osdns'.
Back(r) ==
    \/ step \in {"prepare", "revert"}
    \/ step = "mutate" /\ r >= at
    \/ step = "rollback" /\ (r < at \/ r >= tx.failed) /\ tx.residue[r].kind # "pending"
    \/ step = "settle" /\ tx.residue[r].kind # "pending"

InPlace(r) ==
    mine[r] # None =>
        /\ live[r].state = "committed" => native[r] = live[r].record.applied
        /\ Updating /\ Back(r) => native[r] = tx.olds[r].applied

\* What the transaction knows of the states it wrote.
Proven(r) ==
    /\ step = "commit" \/ (step = "mutate" /\ r < at) => tx.residue[r].evidence = tx.plan
    /\ Updating /\ step \in {"settle", "rollback"} /\ tx.residue[r].kind = "restored" =>
          tx.residue[r].evidence \in {None, tx.olds[r].applied}
    /\ Updating /\ step \notin {"settle", "rollback"} => tx.residue[r].kind # "restored"

Kept(r) ==
    Rooted(r) /\ Entered(r) /\ Owned(r) /\ Freed(r) /\ Planned(r) /\ InPlace(r) /\ Proven(r)

LeaseInv == Typed /\ Control /\ Claims /\ Alike /\ set!Accounted /\ \A r \in set!Set : Kept(r)

LEMMA CellNow ==
    ASSUME Typed, NEW r \in set!Set
    PROVE  /\ set!Cell(r) \in Cells /\ set!Cell(r).s = native[r] /\ set!Cell(r).j = journal[r]
           /\ set!Cell(r).l = live[r] /\ set!Cell(r).ok
BY DEF Typed, set!Cell, Cells

LEMMA CellFit ==
    ASSUME Typed, NEW r \in set!Set, Rooted(r), live[r] # set!NoLive
    PROVE  Fit(before[r], set!Cell(r))
BY CellNow DEF Rooted, Fit

\* Where the resources stand after a step on one of them.
Steps(r, c) ==
    /\ native' = [native EXCEPT ![r] = c.s] /\ journal' = [journal EXCEPT ![r] = c.j]
    /\ live' = [live EXCEPT ![r] = c.l]
    /\ mine' \in [set!Set -> Values] /\ strayed' \in SUBSET set!Set
    /\ \A q \in set!Set : mine'[q] = IF q = r /\ c.s # native[r] THEN c.s ELSE mine[q]
    /\ strayed \subseteq strayed'
    /\ c.s # native[r] /\ set!Foreign(r) => r \in strayed'

LEMMA BecomesSteps ==
    ASSUME Typed, NEW r \in set!Set, NEW c \in Cells, set!Becomes(r, c)
    PROVE  Steps(r, c)
<1>1. c.s \in Values /\ mine \in [set!Set -> Values] /\ strayed \in SUBSET set!Set
  BY DEF Typed, Cells, Values
<1>2. /\ native' = [native EXCEPT ![r] = c.s] /\ journal' = [journal EXCEPT ![r] = c.j]
      /\ live' = [live EXCEPT ![r] = c.l]
      /\ mine' = IF c.s = native[r] THEN mine ELSE [mine EXCEPT ![r] = c.s]
      /\ strayed' = IF c.s # native[r] /\ set!Foreign(r) THEN strayed \cup {r} ELSE strayed
  BY DEF set!Becomes
<1>3. /\ mine' \in [set!Set -> Values]
      /\ \A q \in set!Set : mine'[q] = IF q = r /\ c.s # native[r] THEN c.s ELSE mine[q]
  BY <1>1, <1>2
<1>4. /\ strayed' \in SUBSET set!Set /\ strayed \subseteq strayed'
      /\ c.s # native[r] /\ set!Foreign(r) => r \in strayed'
  BY <1>1, <1>2
<1> QED BY <1>2, <1>3, <1>4 DEF Steps

LEMMA StepsTyped ==
    ASSUME Typed, NEW r \in set!Set, NEW c \in Cells, Steps(r, c)
    PROVE  /\ native' \in [set!Set -> States] /\ mine' \in [set!Set -> Values]
           /\ journal' \in [set!Set -> Recs] /\ live' \in [set!Set -> Lives]
           /\ strayed' \in SUBSET set!Set
           /\ \A q \in set!Set : /\ native'[q] = IF q = r THEN c.s ELSE native[q]
                                 /\ journal'[q] = IF q = r THEN c.j ELSE journal[q]
                                 /\ live'[q] = IF q = r THEN c.l ELSE live[q]
BY DEF Typed, Steps, Cells

LEMMA OfRecord ==
    ASSUME NEW b, NEW record, Of(b, record) PROVE record # set!NoRecord /\ record.before = b
BY NoneTyped DEF Of

LEMMA SoundLive ==
    ASSUME NEW b, NEW l, Sound(b, l) PROVE l # set!NoLive
BY NoneTyped DEF Sound

\* A step keeps the records of what osdns left, if it removes one only from the
\* original or from what is not osdns', and leaves the original only with a record.
LEMMA StepsAccounted ==
    ASSUME Typed, set!Accounted, NEW r \in set!Set, Rooted(r), Owned(r), NEW c \in Cells, Steps(r, c),
           UNCHANGED before,
           \/ c.j = journal[r] \/ Of(before[r], c.j) \/ c.s = before[r]
           \/ mine[r] = None /\ c.s = native[r],
           \/ c.s \in {native[r], before[r]}
           \/ journal[r] # set!NoRecord \/ native[r] # before[r]
    PROVE  set!Accounted'
<1> SUFFICES ASSUME NEW q \in set!Set \ strayed' PROVE set!JournaledAt(q)'
  BY DEF set!Accounted
<1>1. q \in set!Set \ strayed /\ set!JournaledAt(q)
  BY DEF set!Accounted, Steps
<1>2. CASE q # r
  BY <1>1, <1>2, StepsTyped DEF set!JournaledAt, Steps
<1>3. CASE q = r
  <2> SUFFICES ASSUME mine'[r] = native'[r], native'[r] # before[r]
               PROVE  journal'[r] # set!NoRecord /\ journal'[r].before = before[r]
    BY <1>3 DEF set!JournaledAt
  <2>1. native'[r] = c.s /\ journal'[r] = c.j /\ c.s \in States /\ native[r] \in States
    BY StepsTyped DEF Cells, Typed
  <2>2. mine[r] \in {None, native[r]} /\ None \notin States
    BY LeaseConstants DEF Owned
  <2>3. journal[r] = set!NoRecord \/ Of(before[r], journal[r])
    BY DEF Rooted
  <2>4. CASE Of(before[r], c.j)
    BY <2>1, <2>4, OfRecord
  <2>5. CASE c.s = native[r] /\ ~Of(before[r], c.j)
    <3>1. mine[r] = native[r]
      BY <2>1, <2>2, <2>5 DEF Steps
    <3>2. journal[r] # set!NoRecord /\ journal[r].before = before[r]
      BY <1>1, <1>3, <2>1, <2>5, <3>1 DEF set!JournaledAt
    <3>3. c.j = journal[r]
      BY <2>1, <2>2, <2>5, <3>1
    <3> QED BY <2>1, <3>2, <3>3
  <2>6. CASE c.s # native[r] /\ ~Of(before[r], c.j)
    <3>1. ~set!Foreign(r)
      BY <1>3, <2>6 DEF Steps
    <3>2. c.j = journal[r]
      BY <2>1, <2>6
    <3>3. CASE journal[r] = set!NoRecord
      <4>1. mine[r] = native[r] \/ native[r] = before[r]
        BY <2>2, <3>1, <3>3 DEF set!Foreign
      <4>2. native[r] = before[r]
        BY <1>1, <1>3, <3>3, <4>1 DEF set!JournaledAt
      <4> QED BY <2>1, <2>6, <3>3, <4>2
    <3>4. CASE journal[r] # set!NoRecord
      BY <2>1, <2>3, <3>2, <3>4, OfRecord
    <3> QED BY <3>3, <3>4
  <2> QED BY <2>4, <2>5, <2>6
<1> QED BY <1>2, <1>3

LEMMA NoTransactionTyped == set!NoTransaction \in Txs /\ set!NoTransaction.failed = 0
<1>1. None \in Plans \cup {None} /\ None \in Values /\ 0 \in 0..N /\ "none" \in Kinds
  BY LeaseConstants DEF Values, Kinds
<1>2. [r \in set!Set |-> set!NoRecord] \in [set!Set -> Recs]
  BY NoneTyped
<1>3. [r \in set!Set |-> set!NoResidue] \in [set!Set -> Residues]
  BY <1>1 DEF set!NoResidue, Residues
<1> QED BY <1>1, <1>2, <1>3 DEF set!NoTransaction, set!Transaction, Txs

LEMMA FailedTyped ==
    ASSUME NEW t \in Txs, NEW r \in set!Set
    PROVE  LET u == [t EXCEPT !.failed = r]
           IN  /\ u \in Txs /\ u.failed = r
               /\ u.plan = t.plan /\ u.olds = t.olds /\ u.residue = t.residue
<1>1. r \in 0..N
  BY LeaseConstants DEF set!Set
<1> QED BY <1>1 DEF Txs

LEMMA StepsAt ==
    ASSUME Typed, NEW r \in set!Set, NEW c \in Cells, set!Becomes(r, c)
    PROVE  /\ Steps(r, c)
           /\ native' \in [set!Set -> States] /\ mine' \in [set!Set -> Values]
           /\ journal' \in [set!Set -> Recs] /\ live' \in [set!Set -> Lives]
           /\ strayed' \in SUBSET set!Set
           /\ \A q \in set!Set : /\ native'[q] = IF q = r THEN c.s ELSE native[q]
                                 /\ mine'[q] = IF q = r /\ c.s # native[r] THEN c.s ELSE mine[q]
                                 /\ journal'[q] = IF q = r THEN c.j ELSE journal[q]
                                 /\ live'[q] = IF q = r THEN c.l ELSE live[q]
<1>1. Steps(r, c)
  BY BecomesSteps
<1>2. \A q \in set!Set : mine'[q] = IF q = r /\ c.s # native[r] THEN c.s ELSE mine[q]
  BY <1>1 DEF Steps
<1> QED BY <1>1, <1>2, StepsTyped

\* A step that leaves the state of the resource alone.
LEMMA StepsStill ==
    ASSUME NEW r \in set!Set, NEW c \in Cells, Typed, Steps(r, c), c.s = native[r]
    PROVE  native' = native /\ mine' = mine
<1>1. native \in [set!Set -> States] /\ mine \in [set!Set -> Values]
  BY DEF Typed
<1>2. native' = native
  BY <1>1 DEF Steps
<1>3. mine' \in [set!Set -> Values] /\ \A q \in set!Set : mine'[q] = mine[q]
  BY DEF Steps
<1> QED BY <1>1, <1>2, <1>3

LEMMA PersistKeeps == LeaseInv /\ set!Persist => LeaseInv'
<1> SUFFICES ASSUME LeaseInv, set!Persist PROVE LeaseInv'
  OBVIOUS
<1> DEFINE old == tx.olds[at]
           st == IF set!WasNoop THEN "committed" ELSE "prepared"
           l == set!Live(old, st, set!NoPending)
           D(c) == [c EXCEPT !.l = l]
<1>1. /\ Typed /\ at \in set!Set /\ at \in 1..N /\ N \in Nat \ {0}
      /\ step = "persist" /\ op = "apply" /\ Applying /\ phase = "none" /\ tx.plan # None
      /\ claimed = set!Set /\ before \in [set!Set -> States]
      /\ Rooted(at) /\ Owned(at) /\ set!Accounted
      /\ UNCHANGED <<claimed, op, before>>
  BY LeaseConstants
     DEF LeaseInv, Kept, set!Persist, Control, Claims, Updating, Ending, Applying, Typed,
         set!Unmoved, set!Set
<1>2. PICK c \in set!Write(set!Cell(at), old) :
        /\ set!Becomes(at, D(c))
        /\ IF ~c.ok THEN set!Goto("withdraw", 1, [tx EXCEPT !.failed = at]) /\ UNCHANGED phase
           ELSE IF at = N /\ set!WasNoop THEN set!Rest /\ phase' = "active"
           ELSE set!Onward(N, "mutate", tx) /\ UNCHANGED phase
  BY DEF set!Persist
<1>3. /\ old \in Recs /\ Of(before[at], old) /\ old.desired = tx.plan
      /\ set!WasNoop => old.applied = tx.plan
  BY <1>1 DEF LeaseInv, Kept, Typed, Txs, Rooted, Planned
<1>4. /\ c \in Cells /\ c.s = native[at] /\ c.j \in {journal[at], old}
      /\ c.ok => c.j = old
  BY <1>1, <1>2, <1>3, WriteCell, CellNow
<1>5. l \in Lives /\ l.record = old /\ l.state = st /\ st \in LiveStates
  <2>1. st \in LiveStates
    BY DEF LiveStates
  <2> HIDE DEF st
  <2> QED BY <1>3, <2>1, LiveTyped, NoneTyped
<1>6. Sound(before[at], l) /\ l # set!NoLive
  <2>1. Sound(before[at], l)
    BY <1>3, <1>5 DEF Sound
  <2> QED BY <2>1, SoundLive
<1> HIDE DEF l
<1>7. D(c) \in Cells /\ D(c).s = native[at] /\ D(c).j = c.j /\ D(c).l = l
  BY <1>4, <1>5 DEF Cells
<1>8. Steps(at, D(c))
  BY <1>1, <1>2, <1>7, BecomesSteps
<1> HIDE DEF D
<1>9. set!Accounted'
  BY <1>1, <1>3, <1>4, <1>7, <1>8, StepsAccounted
<1>10. /\ native' = native /\ mine' = mine
       /\ journal' \in [set!Set -> Recs] /\ live' \in [set!Set -> Lives]
       /\ strayed' \in SUBSET set!Set
       /\ \A q \in set!Set : /\ journal'[q] = IF q = at THEN c.j ELSE journal[q]
                             /\ live'[q] = IF q = at THEN l ELSE live[q]
  BY <1>1, <1>7, <1>8, StepsStill, StepsTyped
<1>11. c.j = set!NoRecord \/ Of(before[at], c.j)
  BY <1>1, <1>3, <1>4 DEF Rooted
<1>12. c.ok => c.j # set!NoRecord
  BY <1>3, <1>4, OfRecord
<1>13. /\ phase' \in {"none", "active"} /\ at' \in 1..N /\ tx' \in Txs
       /\ phase' = "active" <=> step' = "rest"
       /\ \/ ~c.ok /\ step' = "withdraw" /\ at' = 1 /\ tx' = [tx EXCEPT !.failed = at]
          \/ c.ok /\ at = N /\ set!WasNoop /\ step' = "rest" /\ tx' = set!NoTransaction
          \/ c.ok /\ at = N /\ step' = "mutate" /\ at' = 1 /\ tx' = tx
          \/ c.ok /\ at # N /\ step' = "persist" /\ at' = at + 1 /\ tx' = tx
  <2>1. tx \in Txs /\ [tx EXCEPT !.failed = at] \in Txs
    BY <1>1, FailedTyped DEF Typed
  <2>2. CASE ~c.ok
    BY <1>1, <1>2, <2>1, <2>2 DEF set!Goto
  <2>3. CASE c.ok /\ at = N /\ set!WasNoop
    BY <1>1, <1>2, <2>3, NoTransactionTyped DEF set!Rest, set!Goto
  <2>4. CASE c.ok /\ ~(at = N /\ set!WasNoop)
    BY <1>1, <1>2, <2>1, <2>4 DEF set!Onward, set!Goto
  <2> QED BY <2>2, <2>3, <2>4
<1>14. step' # "rest" => tx'.plan = tx.plan /\ tx'.olds = tx.olds /\ tx'.residue = tx.residue
  <2>1. tx \in Txs
    BY <1>1 DEF Typed
  <2>2. LET u == [tx EXCEPT !.failed = at]
        IN  u.plan = tx.plan /\ u.olds = tx.olds /\ u.residue = tx.residue
    BY <1>1, <2>1, FailedTyped
  <2> QED BY <1>13, <2>2
<1>15. step' = "withdraw" => tx'.failed = at
  <2>1. tx \in Txs
    BY <1>1 DEF Typed
  <2>2. [tx EXCEPT !.failed = at].failed = at
    BY <1>1, <2>1, FailedTyped
  <2> QED BY <1>13, <2>2
<1>16. Typed'
  BY <1>1, <1>10, <1>13 DEF Typed, set!Set
<1>17. Control'
  BY <1>1, <1>13, <1>14, <1>15 DEF Control, Applying, Updating, Ending
<1>18. Claims'
  BY <1>1, <1>13 DEF Claims, Applying
<1>19. Alike'
  <2>1. ASSUME step' = "rest", NEW q \in set!Set PROVE live'[q].record.desired = tx.plan
    <3>1. Kept(q) /\ q \in 1..N /\ live'[q] = IF q = at THEN l ELSE live[q]
      BY <1>10 DEF LeaseInv, set!Set
    <3>2. CASE q = at
      BY <1>3, <1>5, <3>1, <3>2
    <3>3. CASE q # at
      BY <1>1, <1>13, <2>1, <3>1, <3>3 DEF Kept, Entered, Tracked, Planned, New
    <3> QED BY <3>2, <3>3
  <2> QED BY <1>1, <1>13, <2>1 DEF Alike, Updating, Ending, Resolving
<1>20. ASSUME NEW q \in set!Set PROVE Kept(q)'
  <2>1. Kept(q) /\ Kept(at) /\ q \in 1..N
    BY <1>1 DEF LeaseInv, set!Set
  <2>2. /\ native'[q] = native[q] /\ mine'[q] = mine[q] /\ mine[q] = None
        /\ journal'[q] = IF q = at THEN c.j ELSE journal[q]
        /\ live'[q] = IF q = at THEN l ELSE live[q]
    BY <1>1, <1>10, <2>1 DEF Kept, Owned, Untouched
  <2> USE <2>1 DEF Kept
  <2>20. Rooted(q)'
    BY <1>1, <1>13, <1>14, <1>15, <2>2, <1>3, <1>6, <1>11 DEF Rooted, Applying, Updating
  <2>21. Entered(q)'
    BY <1>1, <1>13, <1>14, <1>15, <2>2, <1>6, <1>12
       DEF Entered, Tracked, Recorded, Applying, Ending
  <2>22. Owned(q)'
    BY <1>1, <1>13, <1>14, <1>15, <2>2 DEF Owned, Untouched, Applying, Ending
  <2>23. Freed(q)'
    BY <1>1, <1>13, <1>14, <1>15, <2>2 DEF Freed, Letting, Ending
  <2>24. Planned(q)'
    BY <1>1, <1>13, <1>14, <1>15, <2>2, <1>3, <1>5, <1>6
       DEF Planned, New, Old, Resolving, Applying, Updating, set!WasNoop
  <2>25. InPlace(q)'
    BY <1>1, <1>13, <1>14, <1>15, <2>2, <1>3, <1>5 DEF InPlace, Back, Updating
  <2>26. Proven(q)'
    BY <1>1, <1>13, <1>14, <1>15, <2>2 DEF Proven, Updating
  <2> QED BY <2>20, <2>21, <2>22, <2>23, <2>24, <2>25, <2>26 DEF Kept
<1> QED BY <1>9, <1>16, <1>17, <1>18, <1>19, <1>20 DEF LeaseInv

\* apply goes back over its resources: each loses its entry, and its record only
\* where the original is back or nothing of osdns' was written.
LEMMA FailKeeps ==
    ASSUME LeaseInv, Applying, step \in {"withdraw", "unwind"}, NEW last,
           last = IF step = "withdraw" THEN tx.failed ELSE N,
           NEW c \in Cells, c.s \in {native[at], before[at]},
           c.j \in {journal[at], set!NoRecord} \/ Of(before[at], c.j),
           \/ c.j = journal[at] \/ Of(before[at], c.j) \/ c.s = before[at]
           \/ mine[at] = None /\ c.s = native[at],
           Untouched(at) => c.s = native[at],
           set!Fail(last, c)
    PROVE  LeaseInv'
<1>1. /\ Typed /\ at \in set!Set /\ at \in 1..N /\ N \in Nat \ {0} /\ tx \in Txs /\ tx.failed \in 0..N
      /\ op = "apply" /\ phase = "none" /\ tx.plan # None /\ before \in [set!Set -> States]
      /\ claimed = set!Set /\ Rooted(at) /\ Owned(at) /\ set!Accounted
      /\ step = "withdraw" => at <= tx.failed
      /\ step = "unwind" => tx.failed > 0
      /\ UNCHANGED <<op, before, phase>>
  BY LeaseConstants
     DEF LeaseInv, Kept, set!Fail, set!Unmoved, Control, Claims, Updating, Ending, Applying,
                        Typed, Txs, set!Set
<1> DEFINE d == [c EXCEPT !.l = set!NoLive]
<1>2. d \in Cells /\ d.s = c.s /\ d.j = c.j /\ d.l = set!NoLive
  BY NoneTyped DEF Cells
<1>3. set!Becomes(at, d)
  BY DEF set!Fail
<1> HIDE DEF d
<1>4. /\ Steps(at, d)
      /\ native' \in [set!Set -> States] /\ mine' \in [set!Set -> Values]
      /\ journal' \in [set!Set -> Recs] /\ live' \in [set!Set -> Lives]
      /\ strayed' \in SUBSET set!Set
      /\ \A q \in set!Set : /\ native'[q] = IF q = at THEN c.s ELSE native[q]
                            /\ mine'[q] = IF q = at /\ c.s # native[at] THEN c.s ELSE mine[q]
                            /\ journal'[q] = IF q = at THEN c.j ELSE journal[q]
                            /\ live'[q] = IF q = at THEN set!NoLive ELSE live[q]
  BY <1>1, <1>2, <1>3, StepsAt
<1>5. set!Accounted'
  BY <1>1, <1>2, <1>4, StepsAccounted
<1>6. /\ at' \in 1..N /\ tx' \in Txs
      /\ \/ at = last /\ step' = "rest" /\ claimed' = {}
         \/ at # last /\ step' = step /\ at' = at + 1 /\ tx' = tx /\ claimed' = claimed
  BY <1>1, NoTransactionTyped DEF set!Fail, set!OrRest, set!Rest, set!Goto
<1>7. Typed'
  BY <1>1, <1>4, <1>6 DEF Typed, set!Set
<1>8. Control'
  BY <1>1, <1>6 DEF Control, Applying, Updating, Ending
<1>9. Claims'
  BY <1>1, <1>6 DEF Claims, Applying
<1>10. Alike'
  BY <1>1, <1>6 DEF Alike, Updating, Ending, Resolving, Applying
<1>11. ASSUME NEW q \in set!Set PROVE Kept(q)'
  <2>1. Kept(q) /\ q \in 1..N
    BY DEF LeaseInv, set!Set
  <2>2. /\ native'[q] = IF q = at THEN c.s ELSE native[q]
        /\ mine'[q] = IF q = at /\ c.s # native[at] THEN c.s ELSE mine[q]
        /\ journal'[q] = IF q = at THEN c.j ELSE journal[q]
        /\ live'[q] = IF q = at THEN set!NoLive ELSE live[q]
    BY <1>4
  <2> USE <2>1 DEF Kept
  <2>20. Rooted(q)'
    BY <1>1, <1>6, <2>2 DEF Rooted, Applying, Updating
  <2>21. Entered(q)'
    BY <1>1, <1>6, <2>2 DEF Entered, Tracked, Recorded, Applying, Ending
  <2>22. Owned(q)'
    BY <1>1, <1>6, <2>2 DEF Owned, Untouched, Applying, Ending
  <2>23. Freed(q)'
    BY <1>1, <1>6, <2>2 DEF Freed, Letting, Ending
  <2>24. Planned(q)'
    BY <1>1, <1>6, <2>2 DEF Planned, New, Old, Resolving, Applying, Updating, set!WasNoop
  <2>25. InPlace(q)'
    BY <1>1, <1>6, <2>2, NoneTyped DEF InPlace, Back, Updating
  <2>26. Proven(q)'
    BY <1>1, <1>6, <2>2 DEF Proven, Updating
  <2> QED BY <2>20, <2>21, <2>22, <2>23, <2>24, <2>25, <2>26 DEF Kept
<1> QED BY <1>5, <1>7, <1>8, <1>9, <1>10, <1>11 DEF LeaseInv

LEMMA WithdrawKeeps == LeaseInv /\ set!Withdraw => LeaseInv'
<1> SUFFICES ASSUME LeaseInv, set!Withdraw PROVE LeaseInv'
  OBVIOUS
<1>1. /\ step = "withdraw" /\ Applying /\ Typed /\ at \in set!Set /\ Untouched(at) /\ mine[at] = None
  BY DEF LeaseInv, Kept, set!Withdraw, Control, Updating, Ending, Applying, Typed, Owned, Untouched
<1>2. PICK c \in set!Erase(set!Cell(at)) : set!Fail(tx.failed, c)
  BY DEF set!Withdraw
<1>3. c \in Cells /\ c.s = native[at] /\ c.j \in {journal[at], set!NoRecord}
  BY <1>1, <1>2, CellNow, WriteCell, NoneTyped DEF set!Erase
<1> QED BY <1>1, <1>2, <1>3, FailKeeps

\* The record of a failed apply that is kept.
LEMMA RetainedCell ==
    ASSUME Typed, NEW b, Of(b, tx.olds[at]), NEW c \in Cells, NEW evidence \in Values,
           NEW w \in set!Retained(c, evidence)
    PROVE  w \in Cells /\ w.s = c.s /\ (w.j = c.j \/ Of(b, w.j))
<1> DEFINE record == [tx.olds[at] EXCEPT !.applied = evidence]
<1>1. record \in Recs /\ Of(b, record)
  BY SMTT(30) DEF Typed, Txs, Recs, Of
<1>2. w \in set!Write(c, record)
  BY DEF set!Retained
<1> HIDE DEF record
<1> QED BY <1>1, <1>2, WriteCell

LEMMA UnwindKeeps == LeaseInv /\ set!Unwind => LeaseInv'
<1> SUFFICES ASSUME LeaseInv, set!Unwind PROVE LeaseInv'
  OBVIOUS
<1> DEFINE c0 == set!Cell(at)
<1>1. /\ step = "unwind" /\ Applying /\ Typed /\ at \in set!Set /\ at \in 1..N /\ tx \in Txs
      /\ Of(before[at], tx.olds[at]) /\ before[at] \in States /\ native[at] \in States
      /\ tx.plan \in Values /\ tx.failed \in Nat /\ N \in Nat
      /\ at > tx.failed => Untouched(at) /\ mine[at] = None
      /\ tx.residue[at].evidence \in Values
  BY LeaseConstants
     DEF LeaseInv, Kept, set!Unwind, Control, Updating, Ending, Applying, Typed, Txs, Rooted,
                        Owned, Untouched, Residues, States, Values, set!Set
<1>2. PICK c \in set!Unwound(c0) : set!Fail(N, c)
  BY DEF set!Unwind
<1>3. /\ c0 \in Cells /\ c0.s = native[at] /\ c0.j = journal[at] /\ c0.f \in Nat
  BY <1>1, CellNow DEF Cells
<1> HIDE DEF c0
<1>4. Untouched(at) => at > tx.failed
  BY <1>1 DEF Untouched, Applying, Ending, LeaseInv, Control, Updating
<1>5. ASSUME c \in Cells, c.s \in {native[at], before[at]},
             c.j \in {journal[at], set!NoRecord} \/ Of(before[at], c.j),
             \/ c.j = journal[at] \/ Of(before[at], c.j) \/ c.s = before[at]
             \/ mine[at] = None /\ c.s = native[at],
             at > tx.failed => c.s = native[at]
      PROVE  LeaseInv'
  BY <1>1, <1>2, <1>4, <1>5, FailKeeps
<1>6. CASE at < tx.failed
  <2> DEFINE D(k) == [c0 EXCEPT !.s = k.s, !.f = k.f]
  <2>1. PICK k \in set!Compensate(native[at], tx.plan, before[at]) :
           c \in IF k.ok THEN set!Erase(D(k)) ELSE set!Retained(D(k), k.id)
    BY <1>6, Zenon DEF set!Unwound, set!RollbackProven
  <2>2. k \in Outcomes /\ k.s \in {native[at], before[at]} /\ (k.ok => k.s = before[at])
    BY <1>1, <2>1, CompensateOutcome
  <2>3. D(k) \in Cells /\ D(k).s = k.s /\ D(k).j = journal[at] /\ k.id \in Values
    BY <1>3, <2>2 DEF Cells, Outcomes
  <2> HIDE DEF D
  <2>4. CASE k.ok
    <3>1. c \in Cells /\ c.s = k.s /\ c.j \in {journal[at], set!NoRecord}
      BY <2>1, <2>3, <2>4, WriteCell, NoneTyped DEF set!Erase
    <3> QED BY <1>1, <1>5, <1>6, <2>2, <2>4, <3>1
  <2>5. CASE ~k.ok
    <3>1. c \in Cells /\ c.s = k.s /\ (c.j = journal[at] \/ Of(before[at], c.j))
      BY <1>1, <2>1, <2>3, <2>5, RetainedCell
    <3> QED BY <1>1, <1>5, <1>6, <2>2, <3>1
  <2> QED BY <2>4, <2>5
<1>7. CASE at > tx.failed
  <2>0. ~(at < tx.failed)
    BY <1>1, <1>7
  <2>1. c \in set!Erase(c0)
    BY <1>7, <2>0, Zenon DEF set!Unwound
  <2>2. c \in Cells /\ c.s = native[at] /\ c.j \in {journal[at], set!NoRecord}
    BY <1>3, <2>1, WriteCell, NoneTyped DEF set!Erase
  <2> QED BY <1>1, <1>5, <1>7, <2>2
<1>8. CASE at = tx.failed /\ tx.residue[at].kind = "pending"
  <2>0. ~(at < tx.failed) /\ ~(at > tx.failed)
    BY <1>1, <1>8
  <2>1. c \in set!Retained(c0, tx.residue[at].evidence)
    BY <1>8, <2>0, Zenon DEF set!Unwound
  <2>2. c \in Cells /\ c.s = native[at] /\ (c.j = journal[at] \/ Of(before[at], c.j))
    BY <1>1, <1>3, <2>1, RetainedCell
  <2> QED BY <1>1, <1>5, <1>8, <2>2
<1>9. CASE at = tx.failed /\ tx.residue[at].kind # "pending"
  <2>0. ~(at < tx.failed) /\ ~(at > tx.failed)
    BY <1>1, <1>9
  <2>1. c = [c0 EXCEPT !.f = 1] \/ c = c0 \/ (c0.s = before[at] /\ c \in set!Erase(c0))
    BY <1>9, <2>0, Zenon DEF set!Unwound
  <2>2. CASE c = [c0 EXCEPT !.f = 1] \/ c = c0
    <3>1. c \in Cells /\ c.s = native[at] /\ c.j = journal[at]
      BY <1>3, <2>2 DEF Cells
    <3> QED BY <1>1, <1>5, <1>9, <3>1
  <2>3. CASE c0.s = before[at] /\ c \in set!Erase(c0)
    <3>1. c \in Cells /\ c.s = native[at] /\ c.s = before[at] /\ c.j \in {journal[at], set!NoRecord}
      BY <1>3, <2>3, WriteCell, NoneTyped DEF set!Erase
    <3> QED BY <1>1, <1>5, <1>9, <3>1
  <2> QED BY <2>1, <2>2, <2>3
<1> QED BY <1>1, <1>6, <1>7, <1>8, <1>9

LEMMA LeftTyped ==
    ASSUME Typed, NEW kind \in Kinds, NEW evidence \in Values
    PROVE  LET t == set!Left(kind, evidence)
           IN  /\ t \in Txs /\ t.plan = tx.plan /\ t.olds = tx.olds /\ t.failed = tx.failed
               /\ \A q \in set!Set \ {at} : t.residue[q] = tx.residue[q]
               /\ t.residue[at].kind = kind /\ t.residue[at].evidence = evidence
<1> DEFINE x == [kind |-> kind, evidence |-> evidence]
<1>1. x \in Residues /\ x.kind = kind /\ x.evidence = evidence
  BY DEF Residues
<1> HIDE DEF x
<1>2. tx \in Txs /\ at \in set!Set /\ tx.residue \in [set!Set -> Residues]
  BY DEF Typed, Txs
<1>3. set!Left(kind, evidence) = [tx EXCEPT !.residue = [tx.residue EXCEPT ![at] = x]]
  BY <1>2 DEF set!Left, x, Txs
<1> DEFINE y == [tx.residue EXCEPT ![at] = x]
<1>4. y \in [set!Set -> Residues] /\ y[at] = x /\ \A q \in set!Set \ {at} : y[q] = tx.residue[q]
  BY <1>1, <1>2
<1> HIDE DEF y
<1>5. set!Left(kind, evidence) = [tx EXCEPT !.residue = y]
  BY <1>3 DEF y
<1>6. LET t == [tx EXCEPT !.residue = y]
      IN  t \in Txs /\ t.plan = tx.plan /\ t.olds = tx.olds /\ t.failed = tx.failed /\ t.residue = y
  BY <1>2, <1>4 DEF Txs
<1> QED BY <1>1, <1>4, <1>5, <1>6

\* mutate_and_verify: only the state expected is replaced.
LEMMA MutateOutcome ==
    ASSUME NEW s \in States, NEW expected \in Values, NEW p \in Plans,
           NEW m \in set!MutateAndVerify(s, expected, p)
    PROVE  /\ m.s \in States /\ m.kind \in Kinds \ {"none"} /\ m.evidence \in Values /\ m.f \in Nat
           /\ m.s # s => s = expected
           /\ m.kind = "ok" => m.s = p /\ m.evidence = p
           /\ m.kind = "unchanged" => m.s = s
           /\ m.kind = "restored" => m.s = expected /\ m.evidence \in {expected, None}
<1>1. p \in States /\ p \in Values /\ None \in Values
  BY DEF States, Values
<1>2. CASE s # expected
  BY <1>1, <1>2 DEF set!MutateAndVerify, set!Residue, Kinds
<1>3. CASE s = expected
  <2> DEFINE K == set!Compensate(p, p, expected) \cup set!Compensate(p, None, expected)
             M(k) == set!Residue(IF k.ok THEN "restored" ELSE "pending", k.s, k.id, k.f + 1)
  <2>1. \/ m = set!Residue("ok", p, p, 0) \/ m = set!Residue("unchanged", s, None, 1)
        \/ \E k \in K : m = M(k)
    BY <1>3, Zenon DEF set!MutateAndVerify
  <2>2. CASE m = set!Residue("ok", p, p, 0) \/ m = set!Residue("unchanged", s, None, 1)
    BY <1>1, <1>3, <2>2 DEF set!Residue, Kinds
  <2>3. ASSUME NEW k \in K, m = M(k)
        PROVE  /\ m.s \in States /\ m.evidence \in Values /\ m.f \in Nat
               /\ m.kind \in {"restored", "pending"}
               /\ m.kind = "restored" => m.s = expected /\ m.evidence \in {expected, None}
    <3>1. k \in Outcomes /\ (k.ok => k.s = expected /\ k.id \in {expected, None})
      BY <1>1, <1>3, <2>3, CompensateOutcome
    <3>2. k.s \in States /\ k.id \in Values /\ k.f + 1 \in Nat
      BY <3>1 DEF Outcomes
    <3>3. /\ m.kind = IF k.ok THEN "restored" ELSE "pending"
          /\ m.s = k.s /\ m.evidence = k.id /\ m.f = k.f + 1
      BY <2>3 DEF set!Residue
    <3> QED BY <3>1, <3>2, <3>3
  <2> QED BY <1>3, <2>1, <2>2, <2>3 DEF Kinds
<1> QED BY <1>2, <1>3

LEMMA MutateKeeps == LeaseInv /\ set!Mutate => LeaseInv'
<1> SUFFICES ASSUME LeaseInv, set!Mutate PROVE LeaseInv'
  OBVIOUS
<1> DEFINE expected == IF op = "apply" THEN before[at] ELSE tx.olds[at].applied
           l == [live[at] EXCEPT !.state = "prepared"]
           C(m) == [set!Cell(at) EXCEPT !.s = m.s, !.f = m.f, !.l.state = "prepared"]
<1>1. /\ Typed /\ at \in set!Set /\ at \in 1..N /\ N \in Nat \ {0} /\ tx \in Txs
      /\ step = "mutate" /\ ((op = "apply" /\ phase = "none") \/ (op = "update" /\ phase = "active"))
      /\ tx.plan \in Plans /\ tx.plan # None /\ before \in [set!Set -> States] /\ claimed = set!Set
      /\ native[at] \in States /\ expected \in Values
      /\ Rooted(at) /\ Owned(at) /\ set!Accounted /\ live[at] # set!NoLive /\ journal[at] # set!NoRecord
      /\ UNCHANGED <<claimed, phase, op, before>>
  <2>1. /\ Typed /\ Control /\ Claims /\ set!Accounted /\ at \in set!Set /\ Kept(at)
        /\ step = "mutate" /\ UNCHANGED <<claimed, phase, op, before>>
    BY DEF LeaseInv, set!Mutate, set!Unmoved, Typed
  <2>2. /\ (op = "apply" /\ phase = "none") \/ (op = "update" /\ phase = "active")
        /\ tx.plan # None /\ before \in [set!Set -> States] /\ claimed = set!Set
    BY <2>1 DEF Control, Claims, Applying, Updating, Ending
  <2>3. live[at] # set!NoLive /\ journal[at] # set!NoRecord /\ Rooted(at) /\ Owned(at)
    BY <2>1, <2>2 DEF Kept, Entered, Tracked, Recorded, Applying
  <2>4. tx \in Txs /\ tx.plan \in Plans /\ native[at] \in States /\ expected \in Values
    BY <2>1, <2>2 DEF Typed, Txs, Recs, Values
  <2> QED BY <2>1, <2>2, <2>3, <2>4, LeaseConstants DEF set!Set
<1>2. PICK m \in set!MutateAndVerify(native[at], expected, tx.plan) :
        LET t == set!Left(m.kind, m.evidence)
        IN /\ set!Becomes(at, C(m))
           /\ IF m.kind = "ok" THEN set!Onward(N, "commit", t)
              ELSE set!Goto(IF op = "apply" THEN "unwind" ELSE IF at = 1 THEN "settle" ELSE "rollback",
                        1, [t EXCEPT !.failed = at])
  BY DEF set!Mutate
<1>3. /\ m.s \in States /\ m.kind \in Kinds \ {"none"} /\ m.evidence \in Values /\ m.f \in Nat
      /\ m.s # native[at] => native[at] = expected
      /\ m.kind = "ok" => m.s = tx.plan /\ m.evidence = tx.plan
      /\ m.kind = "unchanged" => m.s = native[at]
      /\ m.kind = "restored" => m.s = expected /\ m.evidence \in {expected, None}
  BY <1>1, <1>2, MutateOutcome
<1>4. Sound(before[at], live[at]) /\ live[at] \in Lives
  BY <1>1 DEF Rooted, Typed
<1>5. l \in Lives /\ l.record = live[at].record /\ l.state = "prepared"
  BY <1>4 DEF Lives, LiveStates
<1>6. Sound(before[at], l) /\ l # set!NoLive
  <2>1. Sound(before[at], l)
    BY <1>4, <1>5 DEF Sound
  <2> QED BY <2>1, SoundLive
<1>7. C(m) \in Cells /\ C(m).s = m.s /\ C(m).j = journal[at] /\ C(m).l = l
  <2>1. set!Cell(at) \in Cells /\ set!Cell(at).j = journal[at] /\ set!Cell(at).l = live[at]
    BY <1>1, CellNow
  <2>2. C(m) = [set!Cell(at) EXCEPT !.s = m.s, !.f = m.f, !.l = l]
    BY <2>1 DEF Cells
  <2> HIDE DEF C, l
  <2> QED BY <1>3, <1>5, <2>1, <2>2 DEF Cells
<1>8. set!Becomes(at, C(m))
  BY <1>2
<1> HIDE DEF C, l
<1>9. /\ Steps(at, C(m))
      /\ native' \in [set!Set -> States] /\ mine' \in [set!Set -> Values]
      /\ journal' \in [set!Set -> Recs] /\ live' \in [set!Set -> Lives]
      /\ strayed' \in SUBSET set!Set
      /\ \A q \in set!Set : /\ native'[q] = IF q = at THEN m.s ELSE native[q]
                            /\ mine'[q] = IF q = at /\ m.s # native[at] THEN m.s ELSE mine[q]
                            /\ journal'[q] = journal[q]
                            /\ live'[q] = IF q = at THEN l ELSE live[q]
  BY <1>1, <1>7, <1>8, StepsAt
<1>10. set!Accounted'
  BY <1>1, <1>7, <1>9, StepsAccounted
<1> DEFINE t == set!Left(m.kind, m.evidence)
<1>11. /\ at' \in 1..N /\ tx' \in Txs /\ tx'.plan = tx.plan /\ tx'.olds = tx.olds
       /\ \A q \in set!Set \ {at} : tx'.residue[q] = tx.residue[q]
       /\ tx'.residue[at].kind = m.kind /\ tx'.residue[at].evidence = m.evidence
       /\ \/ m.kind = "ok" /\ at = N /\ step' = "commit" /\ at' = 1
          \/ m.kind = "ok" /\ at # N /\ step' = "mutate" /\ at' = at + 1
          \/ m.kind # "ok" /\ at' = 1 /\ tx'.failed = at /\ op = "apply" /\ step' = "unwind"
          \/ m.kind # "ok" /\ at' = 1 /\ tx'.failed = at /\ op = "update" /\ at = 1 /\ step' = "settle"
          \/ m.kind # "ok" /\ at' = 1 /\ tx'.failed = at /\ op = "update" /\ at # 1
             /\ step' = "rollback"
  <2>1. /\ t \in Txs /\ t.plan = tx.plan /\ t.olds = tx.olds
        /\ \A q \in set!Set \ {at} : t.residue[q] = tx.residue[q]
        /\ t.residue[at].kind = m.kind /\ t.residue[at].evidence = m.evidence
    BY <1>1, <1>3, LeftTyped
  <2>2. /\ IF m.kind = "ok" THEN set!Onward(N, "commit", t)
           ELSE set!Goto(IF op = "apply" THEN "unwind" ELSE IF at = 1 THEN "settle" ELSE "rollback",
                     1, [t EXCEPT !.failed = at])
    BY <1>2
  <2> HIDE DEF t
  <2>3. CASE m.kind = "ok"
    <3>1. IF at = N THEN step' = "commit" /\ at' = 1 /\ tx' = t ELSE step' = step /\ at' = at + 1 /\ tx' = t
      BY <2>2, <2>3, Zenon DEF set!Onward, set!Goto
    <3> QED BY <1>1, <2>1, <2>3, <3>1
  <2>4. CASE m.kind # "ok"
    <3>1. /\ at' = 1 /\ tx' = [t EXCEPT !.failed = at]
          /\ step' = IF op = "apply" THEN "unwind" ELSE IF at = 1 THEN "settle" ELSE "rollback"
      BY <2>2, <2>4, Zenon DEF set!Goto
    <3>2. /\ tx' \in Txs /\ tx'.failed = at
          /\ tx'.plan = t.plan /\ tx'.olds = t.olds /\ tx'.residue = t.residue
      BY <1>1, <2>1, <3>1, FailedTyped
    <3> QED BY <1>1, <2>1, <2>4, <3>1, <3>2
  <2> QED BY <2>3, <2>4
<1> HIDE DEF t
<1>12. Typed'
  BY <1>1, <1>9, <1>11 DEF Typed, set!Set
<1>13. Control'
  BY <1>1, <1>11 DEF Control, Applying, Updating, Ending
<1>14. Claims'
  BY <1>1, <1>11 DEF Claims, Applying
<1>15. Alike'
  BY <1>1, <1>11 DEF LeaseInv, Alike, Updating, Ending, Resolving, Applying
<1>16. ASSUME NEW q \in set!Set PROVE Kept(q)'
  <2>1. Kept(q) /\ q \in 1..N
    BY DEF LeaseInv, set!Set
  <2>2. /\ native'[q] = IF q = at THEN m.s ELSE native[q]
        /\ mine'[q] = IF q = at /\ m.s # native[at] THEN m.s ELSE mine[q]
        /\ journal'[q] = journal[q] /\ live'[q] = IF q = at THEN l ELSE live[q]
    BY <1>1, <1>9
  <2>3. tx'.residue[q].kind = IF q = at THEN m.kind ELSE tx.residue[q].kind
    BY <1>1, <1>11
  <2>4. tx'.residue[q].evidence = IF q = at THEN m.evidence ELSE tx.residue[q].evidence
    BY <1>1, <1>11
  <2> USE <2>1 DEF Kept
  <2>20. Rooted(q)'
    BY <1>1, <1>11, <2>2, <1>6 DEF Rooted, Applying, Updating
  <2>21. Entered(q)'
    BY <1>1, <1>11, <2>2, <1>6 DEF Entered, Tracked, Recorded, Applying, Ending
  <2>22. Owned(q)'
    BY <1>1, <1>11, <2>2 DEF Owned, Untouched, Applying, Ending
  <2>23. Freed(q)'
    BY <1>1, <1>11, <2>2 DEF Freed, Letting, Ending
  <2>24. Planned(q)'
    BY <1>1, <1>11, <2>2, <1>5, <1>6
       DEF Planned, New, Old, Resolving, Applying, Updating, set!WasNoop
  <2>25. InPlace(q)'
    BY <1>1, <1>11, <2>2, <1>3, <1>5, <2>3 DEF InPlace, Back, Updating, Kinds
  <2>26. Proven(q)'
    BY <1>1, <1>11, <2>2, <1>3, <2>3, <2>4 DEF Proven, Updating
  <2> QED BY <2>20, <2>21, <2>22, <2>23, <2>24, <2>25, <2>26 DEF Kept
<1> QED BY <1>10, <1>12, <1>13, <1>14, <1>15, <1>16 DEF LeaseInv

LEMMA CommitKeeps == LeaseInv /\ set!Commit => LeaseInv'
<1> SUFFICES ASSUME LeaseInv, set!Commit PROVE LeaseInv'
  OBVIOUS
<1>1. /\ Typed /\ at \in set!Set /\ at \in 1..N /\ N \in Nat \ {0} /\ tx \in Txs
      /\ step = "commit" /\ ((op = "apply" /\ phase = "none") \/ (op = "update" /\ phase = "active"))
      /\ tx.plan \in Plans /\ tx.plan # None /\ before \in [set!Set -> States] /\ claimed = set!Set
      /\ native[at] \in States /\ Rooted(at) /\ Owned(at) /\ set!Accounted
      /\ live[at] # set!NoLive /\ journal[at] # set!NoRecord
      /\ UNCHANGED <<claimed, op, before>>
      /\ phase' = IF at = N THEN "active" ELSE phase
  <2>1. /\ Typed /\ Control /\ Claims /\ set!Accounted /\ at \in set!Set /\ Kept(at)
        /\ step = "commit" /\ UNCHANGED <<claimed, op, before>>
        /\ phase' = IF at = N THEN "active" ELSE phase
    BY DEF LeaseInv, set!Commit, set!Unmoved, Typed
  <2>2. /\ ((op = "apply" /\ phase = "none") \/ (op = "update" /\ phase = "active"))
        /\ tx.plan # None /\ before \in [set!Set -> States] /\ claimed = set!Set
    BY <2>1 DEF Control, Claims, Applying, Updating, Ending
  <2>3. live[at] # set!NoLive /\ journal[at] # set!NoRecord /\ Rooted(at) /\ Owned(at)
    BY <2>1, <2>2 DEF Kept, Entered, Tracked, Recorded, Applying
  <2>4. tx \in Txs /\ tx.plan \in Plans /\ native[at] \in States
    BY <2>1, <2>2 DEF Typed, Txs
  <2> QED BY <2>1, <2>2, <2>3, <2>4, LeaseConstants DEF set!Set
<1> DEFINE proof == tx.residue[at].evidence
           c1 == [set!Cell(at) EXCEPT !.l.state = "verified", !.l.pending.evidence = proof]
           l1 == [live[at] EXCEPT !.state = "verified", !.pending.evidence = proof]
<1>2. PICK c \in set!ResolveLive(c1) : set!Becomes(at, c)
  BY DEF set!Commit, set!CommitVerified
<1>3. /\ proof = tx.plan /\ live[at].record.desired = tx.plan /\ Sound(before[at], live[at])
      /\ proof \in Values
  BY <1>1 DEF LeaseInv, Kept, Proven, Planned, New, Rooted, Applying, Updating, States, Values
<1>4. Fit(before[at], c1) /\ c1.j = journal[at] /\ c1.l.record = live[at].record
      /\ c1.l.state = "verified" /\ c1.s = native[at]
  <2>1. live[at] \in Lives /\ live[at].pending \in Pendings
    BY <1>1 DEF Typed, Lives
  <2> DEFINE p1 == [live[at].pending EXCEPT !.evidence = proof]
  <2>2. p1 \in Pendings /\ p1.evidence = proof
    BY <1>3, <2>1 DEF Pendings
  <2>3. l1 = [live[at] EXCEPT !.state = "verified", !.pending = p1]
    BY <2>1 DEF Lives
  <2> HIDE DEF p1
  <2>4. /\ l1 \in Lives /\ l1.state = "verified" /\ l1.record = live[at].record
        /\ l1.pending.evidence = proof
    BY <2>1, <2>2, <2>3 DEF Lives, LiveStates
  <2>5. Sound(before[at], l1)
    BY <1>3, <2>4 DEF Sound
  <2>6. /\ set!Cell(at) \in Cells /\ set!Cell(at).s = native[at]
        /\ set!Cell(at).j = journal[at] /\ set!Cell(at).l = live[at]
    BY <1>1, CellNow
  <2>7. c1 = [set!Cell(at) EXCEPT !.l = l1]
    BY <2>6 DEF Cells
  <2> HIDE DEF c1, l1
  <2>8. c1 \in Cells /\ c1.s = native[at] /\ c1.j = journal[at] /\ c1.l = l1
    BY <2>4, <2>6, <2>7 DEF Cells
  <2> QED BY <2>4, <2>5, <2>8 DEF Fit
<1> HIDE DEF c1
<1>5. Resolved(before[at], c1, c)
  BY <1>1, <1>2, <1>4, ResolveLiveCell
<1>6. /\ c \in Cells /\ Sound(before[at], c.l) /\ c.l.record.desired = tx.plan
      /\ c.j = journal[at] \/ Of(before[at], c.j)
      /\ c.l.state = "committed" => c.s = c.l.record.applied
  BY <1>3, <1>4, <1>5 DEF Resolved, Fit
<1>7. c.l # set!NoLive /\ c.j # set!NoRecord
  BY <1>1, <1>6, SoundLive, OfRecord
<1>8. /\ Steps(at, c)
      /\ native' \in [set!Set -> States] /\ mine' \in [set!Set -> Values]
      /\ journal' \in [set!Set -> Recs] /\ live' \in [set!Set -> Lives]
      /\ strayed' \in SUBSET set!Set
      /\ \A q \in set!Set : /\ native'[q] = IF q = at THEN c.s ELSE native[q]
                            /\ mine'[q] = IF q = at /\ c.s # native[at] THEN c.s ELSE mine[q]
                            /\ journal'[q] = IF q = at THEN c.j ELSE journal[q]
                            /\ live'[q] = IF q = at THEN c.l ELSE live[q]
  BY <1>1, <1>2, <1>6, StepsAt
<1>9. set!Accounted'
  BY <1>1, <1>6, <1>8, StepsAccounted
<1>10. /\ at' \in 1..N /\ tx' \in Txs
       /\ \/ at = N /\ step' = "rest" /\ phase' = "active"
          \/ at # N /\ step' = "commit" /\ at' = at + 1 /\ tx' = tx /\ phase' = phase
  <2>1. set!OrRest(N)
    BY DEF set!Commit
  <2> QED BY <1>1, <2>1, NoTransactionTyped DEF set!OrRest, set!Rest, set!Goto
<1>11. Typed'
  BY <1>1, <1>8, <1>10 DEF Typed, set!Set
<1>12. Control'
  BY <1>1, <1>10 DEF Control, Applying, Updating, Ending
<1>13. Claims'
  BY <1>1, <1>10 DEF Claims, Applying
<1>14. Alike'
  <2>1. ASSUME NEW q \in set!Set PROVE live'[q].record.desired = tx.plan
    <3>1. Kept(q) /\ q \in 1..N /\ live'[q] = IF q = at THEN c.l ELSE live[q]
      BY <1>8 DEF LeaseInv, set!Set
    <3>2. CASE q = at
      BY <1>6, <3>1, <3>2
    <3>3. CASE q # at
      BY <1>1, <3>1, <3>3 DEF Kept, Entered, Tracked, Planned, New, Applying, Updating
    <3> QED BY <3>2, <3>3
  <2> QED BY <1>1, <1>10, <2>1 DEF LeaseInv, Alike, Updating, Ending, Resolving
<1>15. ASSUME NEW q \in set!Set PROVE Kept(q)'
  <2>1. Kept(q) /\ q \in 1..N
    BY DEF LeaseInv, set!Set
  <2>2. /\ native'[q] = IF q = at THEN c.s ELSE native[q]
        /\ mine'[q] = IF q = at /\ c.s # native[at] THEN c.s ELSE mine[q]
        /\ journal'[q] = IF q = at THEN c.j ELSE journal[q]
        /\ live'[q] = IF q = at THEN c.l ELSE live[q]
    BY <1>1, <1>8
  <2> USE <2>1 DEF Kept
  <2>20. Rooted(q)'
    BY <1>1, <1>10, <2>2, <1>6 DEF Rooted, Applying, Updating
  <2>21. Entered(q)'
    BY <1>1, <1>10, <2>2, <1>7 DEF Entered, Tracked, Recorded, Applying, Ending
  <2>22. Owned(q)'
    BY <1>1, <1>10, <2>2 DEF Owned, Untouched, Applying, Ending
  <2>23. Freed(q)'
    BY <1>1, <1>10, <2>2 DEF Freed, Letting, Ending
  <2>24. Planned(q)'
    BY <1>1, <1>10, <2>2, <1>6 DEF Planned, New, Old, Resolving, Applying, Updating, set!WasNoop
  <2>25. InPlace(q)'
    BY <1>1, <1>10, <2>2, <1>6 DEF InPlace, Back, Updating
  <2>26. Proven(q)'
    BY <1>1, <1>10, <2>2 DEF Proven, Updating
  <2> QED BY <2>20, <2>21, <2>22, <2>23, <2>24, <2>25, <2>26 DEF Kept
<1> QED BY <1>9, <1>11, <1>12, <1>13, <1>14, <1>15 DEF LeaseInv

LEMMA OldsTyped ==
    ASSUME NEW t \in Txs, NEW r \in set!Set, NEW record \in Recs
    PROVE  LET u == [t EXCEPT !.olds[r] = record]
           IN  /\ u \in Txs /\ u.plan = t.plan /\ u.residue = t.residue /\ u.failed = t.failed
               /\ \A q \in set!Set : u.olds[q] = IF q = r THEN record ELSE t.olds[q]
<1> DEFINE y == [t.olds EXCEPT ![r] = record]
<1>1. t.olds \in [set!Set -> Recs]
  BY DEF Txs
<1>2. y \in [set!Set -> Recs] /\ \A q \in set!Set : y[q] = IF q = r THEN record ELSE t.olds[q]
  BY <1>1
<1>3. [t EXCEPT !.olds[r] = record] = [t EXCEPT !.olds = y]
  BY DEF Txs
<1> HIDE DEF y
<1>4. LET u == [t EXCEPT !.olds = y]
      IN  u \in Txs /\ u.plan = t.plan /\ u.residue = t.residue /\ u.failed = t.failed /\ u.olds = y
  BY <1>2 DEF Txs
<1> QED BY <1>2, <1>3, <1>4

LEMMA ResolveKeeps == LeaseInv /\ set!Resolve => LeaseInv'
<1> SUFFICES ASSUME LeaseInv, set!Resolve PROVE LeaseInv'
  OBVIOUS
<1>1. /\ Typed /\ at \in set!Set /\ at \in 1..N /\ N \in Nat \ {0} /\ tx \in Txs
      /\ step = "resolve" /\ op = "update" /\ phase = "active"
      /\ tx.plan \in Plans /\ tx.plan # None /\ before \in [set!Set -> States] /\ claimed = set!Set
      /\ native[at] \in States /\ Rooted(at) /\ Owned(at) /\ set!Accounted
      /\ live[at] # set!NoLive /\ journal[at] # set!NoRecord
      /\ UNCHANGED <<claimed, phase, op, before>>
  <2>1. /\ Typed /\ Control /\ Claims /\ set!Accounted /\ at \in set!Set /\ Kept(at)
        /\ step = "resolve" /\ UNCHANGED <<claimed, phase, op, before>>
    BY DEF LeaseInv, set!Resolve, set!Unmoved, Typed
  <2>2. /\ op = "update" /\ phase = "active"
        /\ tx.plan # None /\ before \in [set!Set -> States] /\ claimed = set!Set
    BY <2>1 DEF Control, Claims, Applying, Updating, Ending
  <2>3. live[at] # set!NoLive /\ journal[at] # set!NoRecord /\ Rooted(at) /\ Owned(at)
    BY <2>1, <2>2 DEF Kept, Entered, Tracked, Recorded, Applying
  <2>4. tx \in Txs /\ tx.plan \in Plans /\ native[at] \in States
    BY <2>1, <2>2 DEF Typed, Txs
  <2> QED BY <2>1, <2>2, <2>3, <2>4, LeaseConstants DEF set!Set
<1>2. PICK c \in set!ResolveLive(set!Cell(at)) :
        /\ set!Becomes(at, c)
        /\ IF c.ok /\ c.l.state = "committed" /\ c.l.record.applied # None
           THEN set!Onward(N, "own", [tx EXCEPT !.olds[at] = c.l.record]) ELSE set!Rest
  BY DEF set!Resolve
<1>3. Fit(before[at], set!Cell(at)) /\ set!Cell(at).s = native[at] /\ set!Cell(at).j = journal[at]
      /\ set!Cell(at).l = live[at]
  BY <1>1, CellNow, CellFit
<1>4. Resolved(before[at], set!Cell(at), c)
  BY <1>1, <1>2, <1>3, ResolveLiveCell
<1>5. /\ c \in Cells /\ Sound(before[at], c.l) /\ c.l.record.desired = live[at].record.desired
      /\ c.j = journal[at] \/ Of(before[at], c.j)
      /\ c.l.state = "committed" =>
            \/ c.s = c.l.record.applied
            \/ live[at].state = "committed" /\ c.s = native[at] /\ c.l.record = live[at].record
  BY <1>3, <1>4 DEF Resolved, Fit
<1>6. c.l # set!NoLive /\ c.j # set!NoRecord /\ c.l.record \in Recs
  <2>1. c.l.record \in Recs
    BY <1>5 DEF Cells, Lives
  <2> QED BY <1>1, <1>5, <2>1, SoundLive, OfRecord
<1>7. /\ Steps(at, c)
      /\ native' \in [set!Set -> States] /\ mine' \in [set!Set -> Values]
      /\ journal' \in [set!Set -> Recs] /\ live' \in [set!Set -> Lives]
      /\ strayed' \in SUBSET set!Set
      /\ \A q \in set!Set : /\ native'[q] = IF q = at THEN c.s ELSE native[q]
                            /\ mine'[q] = IF q = at /\ c.s # native[at] THEN c.s ELSE mine[q]
                            /\ journal'[q] = IF q = at THEN c.j ELSE journal[q]
                            /\ live'[q] = IF q = at THEN c.l ELSE live[q]
  BY <1>1, <1>2, <1>5, StepsAt
<1>8. set!Accounted'
  BY <1>1, <1>5, <1>7, StepsAccounted
<1>9. /\ at' \in 1..N /\ tx' \in Txs
      /\ \/ step' = "rest"
         \/ /\ c.l.state = "committed" /\ c.l.record.applied # None
            /\ (at = N /\ step' = "own") \/ (at # N /\ step' = "resolve" /\ at' = at + 1)
            /\ tx'.plan = tx.plan /\ tx'.residue = tx.residue /\ tx'.failed = tx.failed
            /\ \A q \in set!Set : tx'.olds[q] = IF q = at THEN c.l.record ELSE tx.olds[q]
  <2> DEFINE u == [tx EXCEPT !.olds[at] = c.l.record]
  <2>1. /\ u \in Txs /\ u.plan = tx.plan /\ u.residue = tx.residue /\ u.failed = tx.failed
        /\ \A q \in set!Set : u.olds[q] = IF q = at THEN c.l.record ELSE tx.olds[q]
    BY <1>1, <1>6, OldsTyped
  <2>2. IF c.ok /\ c.l.state = "committed" /\ c.l.record.applied # None
        THEN set!Onward(N, "own", u) ELSE set!Rest
    BY <1>2
  <2> HIDE DEF u
  <2>3. CASE c.ok /\ c.l.state = "committed" /\ c.l.record.applied # None
    <3>1. IF at = N THEN step' = "own" /\ at' = 1 /\ tx' = u ELSE step' = step /\ at' = at + 1 /\ tx' = u
      BY <2>2, <2>3, Zenon DEF set!Onward, set!Goto
    <3> QED BY <1>1, <2>1, <2>3, <3>1
  <2>4. CASE set!Rest
    BY <1>1, <2>4, NoTransactionTyped DEF set!Rest, set!Goto
  <2> QED BY <2>2, <2>3, <2>4
<1>10. Typed'
  BY <1>1, <1>7, <1>9 DEF Typed, set!Set
<1>11. Control'
  BY <1>1, <1>9 DEF Control, Applying, Updating, Ending
<1>12. Claims'
  BY <1>1, <1>9 DEF Claims, Applying
<1>13. Alike'
  <2>1. ASSUME NEW q \in set!Set PROVE live'[q].record.desired = live[q].record.desired
    BY <1>5, <1>7, <2>1
  <2>2. \A r, s \in set!Set : live[r].record.desired = live[s].record.desired
    BY <1>1 DEF LeaseInv, Alike, Resolving, Updating
  <2>3. Updating' => Resolving'
    BY <1>1, <1>9 DEF Updating, Resolving
  <2> QED BY <1>1, <2>1, <2>2, <2>3 DEF Alike
<1>14. ASSUME NEW q \in set!Set PROVE Kept(q)'
  <2>1. Kept(q) /\ q \in 1..N
    BY DEF LeaseInv, set!Set
  <2>2. /\ native'[q] = IF q = at THEN c.s ELSE native[q]
        /\ mine'[q] = IF q = at /\ c.s # native[at] THEN c.s ELSE mine[q]
        /\ journal'[q] = IF q = at THEN c.j ELSE journal[q]
        /\ live'[q] = IF q = at THEN c.l ELSE live[q]
    BY <1>1, <1>7
  <2> USE <2>1 DEF Kept
  <2>20. Rooted(q)'
    BY <1>1, <1>9, <2>2, <1>5 DEF Rooted, Applying, Updating, Sound
  <2>21. Entered(q)'
    BY <1>1, <1>9, <2>2, <1>6 DEF Entered, Tracked, Recorded, Applying, Ending
  <2>22. Owned(q)'
    BY <1>1, <1>9, <2>2 DEF Owned, Untouched, Applying, Ending
  <2>23. Freed(q)'
    BY <1>1, <1>9, <2>2 DEF Freed, Letting, Ending
  <2>24. Planned(q)'
    BY <1>1, <1>9, <2>2, <1>5
       DEF Planned, New, Old, Resolving, Applying, Updating, set!WasNoop, Sound
  <2>25. InPlace(q)'
    BY <1>1, <1>9, <2>2, <1>5 DEF InPlace, Back, Updating
  <2>26. Proven(q)'
    BY <1>1, <1>9, <2>2 DEF Proven, Updating
  <2> QED BY <2>20, <2>21, <2>22, <2>23, <2>24, <2>25, <2>26 DEF Kept
<1> QED BY <1>8, <1>10, <1>11, <1>12, <1>13, <1>14 DEF LeaseInv

LEMMA TransactionTyped ==
    ASSUME NEW p \in Plans, NEW olds \in [set!Set -> Recs]
    PROVE  LET t == set!Transaction(p, olds)
           IN  /\ t \in Txs /\ t.plan = p /\ t.olds = olds
               /\ \A r \in set!Set : t.residue[r].kind = "none"
<1> DEFINE y == [r \in set!Set |-> set!NoResidue]
<1>1. None \in Values /\ "none" \in Kinds /\ 0 \in 0..N
  BY LeaseConstants DEF Values, Kinds
<1>2. y \in [set!Set -> Residues] /\ \A r \in set!Set : y[r].kind = "none"
  BY <1>1 DEF set!NoResidue, Residues
<1> HIDE DEF y
<1>3. set!Transaction(p, olds) = [plan |-> p, olds |-> olds, residue |-> y, failed |-> 0]
  BY DEF set!Transaction, y
<1> QED BY <1>1, <1>2, <1>3 DEF Txs

LEMMA UpdateKeeps ==
    ASSUME LeaseInv, NEW p \in Plans, set!Update(p) PROVE LeaseInv'
<1> DEFINE olds == [r \in set!Set |-> set!NoRecord]
<1>1. /\ Typed /\ N \in Nat \ {0} /\ step = "rest" /\ phase = "active" /\ claimed = set!Set
      /\ before \in [set!Set -> States] /\ set!Accounted
      /\ step' = "resolve" /\ at' = 1 /\ op' = "update" /\ tx' = set!Transaction(p, olds)
      /\ UNCHANGED <<native, journal, live, before, claimed, phase, mine, strayed>>
  BY LeaseConstants DEF LeaseInv, Control, Claims, set!Update, set!Called, set!Goto
<1>2. /\ tx' \in Txs /\ tx'.plan = p /\ \A r \in set!Set : tx'.residue[r].kind = "none"
  <2>1. olds \in [set!Set -> Recs]
    BY NoneTyped
  <2> HIDE DEF olds
  <2> QED BY <1>1, <2>1, TransactionTyped
<1>3. p # None
  BY LeaseConstants DEF States
<1>4. Typed'
  BY <1>1, <1>2 DEF Typed, set!Set
<1>5. Control'
  BY <1>1, <1>2, <1>3 DEF Control, Applying, Updating, Ending
<1>6. Claims'
  BY <1>1 DEF Claims, Applying
<1>7. Alike'
  BY <1>1 DEF LeaseInv, Alike, Resolving, Updating, Ending
<1>8. set!Accounted'
  BY <1>1 DEF set!Accounted, set!JournaledAt
<1>9. ASSUME NEW q \in set!Set PROVE Kept(q)'
  <2>1. Kept(q) /\ q \in 1..N
    BY DEF LeaseInv, set!Set
  <2> USE <2>1 DEF Kept
  <2>20. Rooted(q)'
    BY <1>1, <1>2 DEF Rooted, Applying, Updating
  <2>21. Entered(q)'
    BY <1>1, <1>2 DEF Entered, Tracked, Recorded, Applying, Ending
  <2>22. Owned(q)'
    BY <1>1, <1>2 DEF Owned, Untouched, Applying, Ending
  <2>23. Freed(q)'
    BY <1>1, <1>2 DEF Freed, Letting, Ending
  <2>24. Planned(q)'
    BY <1>1, <1>2 DEF Planned, New, Old, Resolving, Applying, Updating, set!WasNoop
  <2>25. InPlace(q)'
    BY <1>1, <1>2 DEF InPlace, Back, Updating
  <2>26. Proven(q)'
    BY <1>1, <1>2 DEF Proven, Updating
  <2> QED BY <2>20, <2>21, <2>22, <2>23, <2>24, <2>25, <2>26 DEF Kept
<1> QED BY <1>4, <1>5, <1>6, <1>7, <1>8, <1>9 DEF LeaseInv

\* A call that ends where it is.
LEMMA RestKeeps ==
    ASSUME LeaseInv, Resolving, set!Rest,
           UNCHANGED <<native, journal, live, before, claimed, phase, mine, strayed, op>>
    PROVE  LeaseInv'
<1>1. /\ Typed /\ N \in Nat \ {0} /\ step \in {"resolve", "own"} /\ phase = "active" /\ op = "update"
      /\ claimed = set!Set /\ before \in [set!Set -> States] /\ set!Accounted
      /\ step' = "rest" /\ at' = 1 /\ tx' \in Txs
  BY LeaseConstants, NoTransactionTyped
     DEF LeaseInv, Control, Claims, set!Rest, set!Goto, Resolving, Updating,
       Applying, Ending
<1>4. Typed'
  BY <1>1 DEF Typed, set!Set
<1>5. Control'
  BY <1>1 DEF Control, Applying, Updating, Ending
<1>6. Claims'
  BY <1>1 DEF Claims, Applying
<1>7. Alike'
  BY <1>1 DEF LeaseInv, Alike, Resolving, Updating, Ending
<1>8. set!Accounted'
  BY <1>1 DEF set!Accounted, set!JournaledAt
<1>9. ASSUME NEW q \in set!Set PROVE Kept(q)'
  <2>1. Kept(q) /\ q \in 1..N
    BY DEF LeaseInv, set!Set
  <2> USE <2>1 DEF Kept
  <2>20. Rooted(q)'
    BY <1>1 DEF Rooted, Applying, Updating
  <2>21. Entered(q)'
    BY <1>1 DEF Entered, Tracked, Recorded, Applying, Ending
  <2>22. Owned(q)'
    BY <1>1 DEF Owned, Untouched, Applying, Ending
  <2>23. Freed(q)'
    BY <1>1 DEF Freed, Letting, Ending
  <2>24. Planned(q)'
    BY <1>1 DEF Planned, New, Old, Resolving, Applying, Updating, set!WasNoop
  <2>25. InPlace(q)'
    BY <1>1 DEF InPlace, Back, Updating
  <2>26. Proven(q)'
    BY <1>1 DEF Proven, Updating
  <2> QED BY <2>20, <2>21, <2>22, <2>23, <2>24, <2>25, <2>26 DEF Kept
<1> QED BY <1>4, <1>5, <1>6, <1>7, <1>8, <1>9 DEF LeaseInv

LEMMA OwnKeeps == LeaseInv /\ set!Own => LeaseInv'
<1> SUFFICES ASSUME LeaseInv, set!Own PROVE LeaseInv'
  OBVIOUS
<1>1. /\ Typed /\ at \in 1..N /\ tx \in Txs /\ N \in Nat \ {0}
      /\ step = "own" /\ phase = "active" /\ op = "update"
      /\ claimed = set!Set /\ before \in [set!Set -> States] /\ set!Accounted /\ tx.plan # None
      /\ UNCHANGED <<native, journal, live, before, claimed, phase, mine, strayed, op>>
  BY LeaseConstants
     DEF LeaseInv, Control, Claims, set!Own, set!Unmoved, Updating, Applying, Ending, Typed,
         set!Set
<1>2. CASE set!Rest
  BY <1>1, <1>2, RestKeeps DEF Resolving, Updating
<1>3. CASE set!Goto("prepare", 1, tx) /\ \A r \in set!Set : native[r] = tx.olds[r].applied
  <2>1. step' = "prepare" /\ at' = 1 /\ tx' = tx
    BY <1>3 DEF set!Goto
  <2>4. Typed'
    BY <1>1, <2>1 DEF Typed, set!Set
  <2>5. Control'
    BY <1>1, <2>1 DEF Control, Applying, Updating, Ending
  <2>6. Claims'
    BY <1>1, <2>1 DEF Claims, Applying
  <2>7. Alike'
    <3>1. ASSUME NEW r \in set!Set PROVE tx.olds[r] = live[r].record
      BY <1>1 DEF LeaseInv, Kept, Planned, Resolving, Updating
    <3>2. \A r, s \in set!Set : live[r].record.desired = live[s].record.desired
      BY <1>1 DEF LeaseInv, Alike, Resolving, Updating
    <3> QED BY <1>1, <2>1, <3>1, <3>2 DEF Alike, Resolving, Updating, Ending
  <2>8. set!Accounted'
    BY <1>1 DEF set!Accounted, set!JournaledAt
  <2>9. ASSUME NEW q \in set!Set PROVE Kept(q)'
    <3>1. Kept(q) /\ q \in 1..N
      BY DEF LeaseInv, set!Set
    <3> USE <3>1 DEF Kept
    <3>20. Rooted(q)'
      BY <1>1, <2>1 DEF Rooted, Applying, Updating
    <3>21. Entered(q)'
      BY <1>1, <2>1 DEF Entered, Tracked, Recorded, Applying, Ending
    <3>22. Owned(q)'
      BY <1>1, <2>1 DEF Owned, Untouched, Applying, Ending
    <3>23. Freed(q)'
      BY <1>1, <2>1 DEF Freed, Letting, Ending
    <3>24. Planned(q)'
      BY <1>1, <2>1 DEF Planned, New, Old, Resolving, Applying, Updating, set!WasNoop
    <3>25. InPlace(q)'
      BY <1>1, <2>1, <1>3 DEF InPlace, Back, Updating
    <3>26. Proven(q)'
      BY <1>1, <2>1 DEF Proven, Updating
    <3> QED BY <3>20, <3>21, <3>22, <3>23, <3>24, <3>25, <3>26 DEF Kept
  <2> QED BY <2>4, <2>5, <2>6, <2>7, <2>8, <2>9 DEF LeaseInv
<1> QED BY <1>2, <1>3 DEF set!Own

LEMMA OwnUnreadKeeps == LeaseInv /\ set!OwnUnread => LeaseInv'
<1> SUFFICES ASSUME LeaseInv, set!OwnUnread PROVE LeaseInv'
  OBVIOUS
<1>1. /\ Resolving /\ set!Rest
      /\ UNCHANGED <<native, journal, live, before, claimed, phase, mine, strayed, op>>
  BY DEF LeaseInv, Control, set!OwnUnread, set!Unmoved, Resolving, Updating, Applying, Ending
<1> QED BY <1>1, RestKeeps

LEMMA PrepareKeeps == LeaseInv /\ set!Prepare => LeaseInv'
<1> SUFFICES ASSUME LeaseInv, set!Prepare PROVE LeaseInv'
  OBVIOUS
<1> DEFINE old == tx.olds[at]
           intent == [old EXCEPT !.desired = tx.plan, !.phase = "prepared"]
           l == set!Live(intent, "unmutated", set!NoPending)
           D(c) == [c EXCEPT !.l = l]
<1>1. /\ Typed /\ at \in set!Set /\ at \in 1..N /\ N \in Nat \ {0} /\ tx \in Txs
      /\ step = "prepare" /\ op = "update" /\ phase = "active"
      /\ tx.plan \in Plans /\ tx.plan # None /\ before \in [set!Set -> States] /\ claimed = set!Set
      /\ native[at] \in States /\ Rooted(at) /\ Owned(at) /\ set!Accounted
      /\ live[at] # set!NoLive /\ journal[at] # set!NoRecord
      /\ UNCHANGED <<claimed, phase, op, before>>
  <2>1. /\ Typed /\ Control /\ Claims /\ set!Accounted /\ at \in set!Set /\ Kept(at)
        /\ step = "prepare" /\ UNCHANGED <<claimed, phase, op, before>>
    BY DEF LeaseInv, set!Prepare, set!Unmoved, Typed
  <2>2. /\ op = "update" /\ phase = "active"
        /\ tx.plan # None /\ before \in [set!Set -> States] /\ claimed = set!Set
    BY <2>1 DEF Control, Claims, Applying, Updating, Ending
  <2>3. live[at] # set!NoLive /\ journal[at] # set!NoRecord /\ Rooted(at) /\ Owned(at)
    BY <2>1, <2>2 DEF Kept, Entered, Tracked, Recorded, Applying
  <2>4. tx \in Txs /\ tx.plan \in Plans /\ native[at] \in States
    BY <2>1, <2>2 DEF Typed, Txs
  <2> QED BY <2>1, <2>2, <2>3, <2>4, LeaseConstants DEF set!Set
<1>2. /\ old \in Recs /\ Of(before[at], old) /\ old.applied # None /\ old.applied = old.desired
      /\ old.applied \in States
  BY <1>1 DEF LeaseInv, Kept, Typed, Txs, Recs, Values, Rooted, Planned, Updating
<1>3. PICK c \in set!Write(set!Cell(at), intent) :
        /\ set!Becomes(at, D(c))
        /\ IF c.ok THEN set!Onward(N, "mutate", tx) ELSE set!Goto("revert", 1, tx)
  BY DEF set!Prepare
<1>4. intent \in Recs /\ Of(before[at], intent) /\ intent.desired = tx.plan
  BY <1>1, <1>2 DEF Recs, Of
<1> HIDE DEF intent
<1>5. c \in Cells /\ c.s = native[at] /\ c.j \in {journal[at], intent}
  BY <1>1, <1>3, <1>4, WriteCell, CellNow
<1>6. c.j # set!NoRecord /\ (c.j = journal[at] \/ Of(before[at], c.j))
  BY <1>1, <1>4, <1>5, OfRecord
<1>7. l \in Lives /\ l.record = intent /\ l.state = "unmutated"
  <2>1. "unmutated" \in LiveStates
    BY DEF LiveStates
  <2> QED BY <1>4, <2>1, LiveTyped, NoneTyped
<1>8. Sound(before[at], l) /\ l # set!NoLive
  <2>1. Sound(before[at], l)
    BY <1>4, <1>7 DEF Sound
  <2> QED BY <2>1, SoundLive
<1> HIDE DEF l
<1>9. D(c) \in Cells /\ D(c).s = native[at] /\ D(c).j = c.j /\ D(c).l = l
  BY <1>5, <1>7 DEF Cells
<1>10. set!Becomes(at, D(c))
  BY <1>3
<1> HIDE DEF D
<1>11. /\ Steps(at, D(c))
      /\ native' \in [set!Set -> States] /\ mine' \in [set!Set -> Values]
      /\ journal' \in [set!Set -> Recs] /\ live' \in [set!Set -> Lives]
      /\ strayed' \in SUBSET set!Set
      /\ \A q \in set!Set : /\ native'[q] = native[q] /\ mine'[q] = mine[q]
                            /\ journal'[q] = IF q = at THEN c.j ELSE journal[q]
                            /\ live'[q] = IF q = at THEN l ELSE live[q]
  BY <1>1, <1>9, <1>10, StepsAt
<1>12. set!Accounted'
  BY <1>1, <1>6, <1>9, <1>11, StepsAccounted
<1>13. /\ at' \in 1..N /\ tx' = tx
       /\ \/ at = N /\ step' = "mutate" /\ at' = 1
          \/ at # N /\ step' = "prepare" /\ at' = at + 1
          \/ step' = "revert" /\ at' = 1
  BY <1>1, <1>3 DEF set!Onward, set!Goto
<1>14. Typed'
  BY <1>1, <1>11, <1>13 DEF Typed, set!Set
<1>15. Control'
  BY <1>1, <1>13 DEF Control, Applying, Updating, Ending
<1>16. Claims'
  BY <1>1, <1>13 DEF Claims, Applying
<1>17. Alike'
  BY <1>1, <1>13 DEF LeaseInv, Alike, Updating, Ending, Resolving
<1>18. ASSUME NEW q \in set!Set PROVE Kept(q)'
  <2>1. Kept(q) /\ Kept(at) /\ q \in 1..N
    BY <1>1 DEF LeaseInv, set!Set
  <2>2. /\ native'[q] = native[q] /\ mine'[q] = mine[q]
        /\ journal'[q] = IF q = at THEN c.j ELSE journal[q]
        /\ live'[q] = IF q = at THEN l ELSE live[q]
    BY <1>1, <1>11
  <2> USE <2>1 DEF Kept
  <2>20. Rooted(q)'
    BY <1>1, <1>13, <2>2, <1>6, <1>8 DEF Rooted, Applying, Updating
  <2>21. Entered(q)'
    BY <1>1, <1>13, <2>2, <1>6, <1>8 DEF Entered, Tracked, Recorded, Applying, Ending
  <2>22. Owned(q)'
    BY <1>1, <1>13, <2>2 DEF Owned, Untouched, Applying, Ending
  <2>23. Freed(q)'
    BY <1>1, <1>13, <2>2 DEF Freed, Letting, Ending
  <2>24. Planned(q)'
    BY <1>1, <1>13, <2>2, <1>4, <1>7
       DEF Planned, New, Old, Resolving, Applying, Updating, set!WasNoop
  <2>25. InPlace(q)'
    BY <1>1, <1>13, <2>2, <1>7 DEF InPlace, Back, Updating
  <2>26. Proven(q)'
    BY <1>1, <1>13, <2>2 DEF Proven, Updating
  <2> QED BY <2>20, <2>21, <2>22, <2>23, <2>24, <2>25, <2>26 DEF Kept
<1> QED BY <1>12, <1>14, <1>15, <1>16, <1>17, <1>18 DEF LeaseInv

LEMMA RevertKeeps == LeaseInv /\ set!Revert => LeaseInv'
<1> SUFFICES ASSUME LeaseInv, set!Revert PROVE LeaseInv'
  OBVIOUS
<1> DEFINE old == tx.olds[at]
<1>1. /\ Typed /\ at \in set!Set /\ at \in 1..N /\ N \in Nat \ {0} /\ tx \in Txs
      /\ step = "revert" /\ op = "update" /\ phase = "active"
      /\ tx.plan \in Plans /\ tx.plan # None /\ before \in [set!Set -> States] /\ claimed = set!Set
      /\ native[at] \in States /\ Rooted(at) /\ Owned(at) /\ set!Accounted
      /\ live[at] # set!NoLive /\ journal[at] # set!NoRecord
      /\ UNCHANGED <<claimed, phase, op, before>>
  <2>1. /\ Typed /\ Control /\ Claims /\ set!Accounted /\ at \in set!Set /\ Kept(at)
        /\ step = "revert" /\ UNCHANGED <<claimed, phase, op, before>>
    BY DEF LeaseInv, set!Revert, set!Unmoved, Typed
  <2>2. /\ op = "update" /\ phase = "active"
        /\ tx.plan # None /\ before \in [set!Set -> States] /\ claimed = set!Set
    BY <2>1 DEF Control, Claims, Applying, Updating, Ending
  <2>3. live[at] # set!NoLive /\ journal[at] # set!NoRecord /\ Rooted(at) /\ Owned(at)
    BY <2>1, <2>2 DEF Kept, Entered, Tracked, Recorded, Applying
  <2>4. tx \in Txs /\ tx.plan \in Plans /\ native[at] \in States
    BY <2>1, <2>2 DEF Typed, Txs
  <2> QED BY <2>1, <2>2, <2>3, <2>4, LeaseConstants DEF set!Set
<1>2. /\ old \in Recs /\ Of(before[at], old) /\ old.applied # None /\ old.applied = old.desired
      /\ old.applied \in States
  BY <1>1 DEF LeaseInv, Kept, Typed, Txs, Recs, Values, Rooted, Planned, Updating
<1>3. PICK c \in set!PersistLive(set!Cell(at), old) : set!Becomes(at, c)
  BY DEF set!Revert
<1>4. /\ c \in Cells /\ Sound(before[at], c.l) /\ c.s = native[at] /\ c.j \in {journal[at], old}
      /\ c.l.record = old
  BY <1>1, <1>2, <1>3, CellNow, PersistCell DEF Fit
<1>5. c.j # set!NoRecord /\ (c.j = journal[at] \/ Of(before[at], c.j)) /\ c.l # set!NoLive
  BY <1>1, <1>2, <1>4, OfRecord, SoundLive
<1>6. /\ Steps(at, c)
      /\ native' \in [set!Set -> States] /\ mine' \in [set!Set -> Values]
      /\ journal' \in [set!Set -> Recs] /\ live' \in [set!Set -> Lives]
      /\ strayed' \in SUBSET set!Set
      /\ \A q \in set!Set : /\ native'[q] = native[q] /\ mine'[q] = mine[q]
                            /\ journal'[q] = IF q = at THEN c.j ELSE journal[q]
                            /\ live'[q] = IF q = at THEN c.l ELSE live[q]
  BY <1>1, <1>3, <1>4, StepsAt
<1>7. set!Accounted'
  BY <1>1, <1>4, <1>5, <1>6, StepsAccounted
<1>8. /\ at' \in 1..N /\ tx' \in Txs
      /\ \/ at = N /\ step' = "rest"
         \/ at # N /\ step' = "revert" /\ at' = at + 1 /\ tx' = tx
  <2>1. set!OrRest(N)
    BY DEF set!Revert
  <2> QED BY <1>1, <2>1, NoTransactionTyped DEF set!OrRest, set!Rest, set!Goto
<1>9. Typed'
  BY <1>1, <1>6, <1>8 DEF Typed, set!Set
<1>10. Control'
  BY <1>1, <1>8 DEF Control, Applying, Updating, Ending
<1>11. Claims'
  BY <1>1, <1>8 DEF Claims, Applying
<1>12. Alike'
  <2>1. ASSUME step' = "rest", NEW q \in set!Set PROVE live'[q].record.desired = tx.olds[q].desired
    <3>1. Kept(q) /\ q \in 1..N /\ live'[q] = IF q = at THEN c.l ELSE live[q]
      BY <1>6 DEF LeaseInv, set!Set
    <3>2. CASE q = at
      BY <1>4, <3>1, <3>2
    <3>3. CASE q # at
      BY <1>1, <1>8, <2>1, <3>1, <3>3 DEF Kept, Planned, Old, Updating
    <3> QED BY <3>2, <3>3
  <2>2. \A r, s \in set!Set : tx.olds[r].desired = tx.olds[s].desired
    BY <1>1 DEF LeaseInv, Alike, Updating, Resolving
  <2> QED BY <1>1, <1>8, <2>1, <2>2 DEF Alike, Updating, Ending, Resolving
<1>13. ASSUME NEW q \in set!Set PROVE Kept(q)'
  <2>1. Kept(q) /\ Kept(at) /\ q \in 1..N
    BY <1>1 DEF LeaseInv, set!Set
  <2>2. /\ native'[q] = native[q] /\ mine'[q] = mine[q]
        /\ journal'[q] = IF q = at THEN c.j ELSE journal[q]
        /\ live'[q] = IF q = at THEN c.l ELSE live[q]
    BY <1>1, <1>6
  <2> USE <2>1 DEF Kept
  <2>20. Rooted(q)'
    BY <1>1, <1>8, <2>2, <1>4, <1>5 DEF Rooted, Applying, Updating
  <2>21. Entered(q)'
    BY <1>1, <1>8, <2>2, <1>5 DEF Entered, Tracked, Recorded, Applying, Ending
  <2>22. Owned(q)'
    BY <1>1, <1>8, <2>2 DEF Owned, Untouched, Applying, Ending
  <2>23. Freed(q)'
    BY <1>1, <1>8, <2>2 DEF Freed, Letting, Ending
  <2>24. Planned(q)'
    BY <1>1, <1>8, <2>2, <1>4 DEF Planned, New, Old, Resolving, Applying, Updating, set!WasNoop
  <2>25. InPlace(q)'
    BY <1>1, <1>8, <2>2, <1>4 DEF InPlace, Back, Updating
  <2>26. Proven(q)'
    BY <1>1, <1>8, <2>2 DEF Proven, Updating
  <2> QED BY <2>20, <2>21, <2>22, <2>23, <2>24, <2>25, <2>26 DEF Kept
<1> QED BY <1>7, <1>9, <1>10, <1>11, <1>12, <1>13 DEF LeaseInv

LEMMA RollbackKeeps == LeaseInv /\ set!Rollback => LeaseInv'
<1> SUFFICES ASSUME LeaseInv, set!Rollback PROVE LeaseInv'
  OBVIOUS
<1> DEFINE old == tx.olds[at]
           D(k) == [set!Cell(at) EXCEPT !.s = k.s, !.f = k.f]
<1>1. /\ Typed /\ at \in set!Set /\ at \in 1..N /\ N \in Nat \ {0} /\ tx \in Txs
      /\ step = "rollback" /\ op = "update" /\ phase = "active"
      /\ tx.plan \in Plans /\ tx.plan # None /\ before \in [set!Set -> States] /\ claimed = set!Set
      /\ native[at] \in States /\ Rooted(at) /\ Owned(at) /\ set!Accounted
      /\ live[at] # set!NoLive /\ journal[at] # set!NoRecord
      /\ UNCHANGED <<claimed, phase, op, before>>
  <2>1. /\ Typed /\ Control /\ Claims /\ set!Accounted /\ at \in set!Set /\ Kept(at)
        /\ step = "rollback" /\ UNCHANGED <<claimed, phase, op, before>>
    BY DEF LeaseInv, set!Rollback, set!Unmoved, Typed
  <2>2. /\ op = "update" /\ phase = "active"
        /\ tx.plan # None /\ before \in [set!Set -> States] /\ claimed = set!Set
    BY <2>1 DEF Control, Claims, Applying, Updating, Ending
  <2>3. live[at] # set!NoLive /\ journal[at] # set!NoRecord /\ Rooted(at) /\ Owned(at)
    BY <2>1, <2>2 DEF Kept, Entered, Tracked, Recorded, Applying
  <2>4. tx \in Txs /\ tx.plan \in Plans /\ native[at] \in States
    BY <2>1, <2>2 DEF Typed, Txs
  <2> QED BY <2>1, <2>2, <2>3, <2>4, LeaseConstants DEF set!Set
<1>2. /\ old \in Recs /\ Of(before[at], old) /\ old.applied # None /\ old.applied = old.desired
      /\ old.applied \in States
  BY <1>1 DEF LeaseInv, Kept, Typed, Txs, Recs, Values, Rooted, Planned, Updating
<1>3. PICK k \in set!Compensate(native[at], tx.plan, old.applied) :
        /\ set!Becomes(at, D(k))
        /\ set!Onward(tx.failed - 1, "settle", set!Left(IF k.ok THEN "restored" ELSE "pending", k.id))
  BY DEF set!Rollback, set!RollbackProven
<1>4. k \in Outcomes /\ (k.ok => k.s = old.applied /\ k.id \in {old.applied, None})
  <2>1. tx.plan \in Values
    BY <1>1 DEF States, Values
  <2> QED BY <1>1, <1>2, <1>3, <2>1, CompensateOutcome
<1>5. D(k) \in Cells /\ D(k).s = k.s /\ D(k).j = journal[at] /\ D(k).l = live[at]
  <2>1. set!Cell(at) \in Cells /\ set!Cell(at).j = journal[at] /\ set!Cell(at).l = live[at]
    BY <1>1, CellNow
  <2> QED BY <1>4, <2>1 DEF Cells, Outcomes
<1>6. set!Becomes(at, D(k))
  BY <1>3
<1> HIDE DEF D
<1>7. /\ Steps(at, D(k))
      /\ native' \in [set!Set -> States] /\ mine' \in [set!Set -> Values]
      /\ journal' \in [set!Set -> Recs] /\ live' \in [set!Set -> Lives]
      /\ strayed' \in SUBSET set!Set
      /\ \A q \in set!Set : /\ native'[q] = IF q = at THEN k.s ELSE native[q]
                            /\ mine'[q] = IF q = at /\ k.s # native[at] THEN k.s ELSE mine[q]
                            /\ journal'[q] = journal[q] /\ live'[q] = live[q]
  BY <1>1, <1>5, <1>6, StepsAt
<1>8. set!Accounted'
  BY <1>1, <1>5, <1>7, StepsAccounted
<1> DEFINE kind == IF k.ok THEN "restored" ELSE "pending"
           t == set!Left(kind, k.id)
<1>9. at < tx.failed /\ tx.failed \in 0..N
  BY <1>1 DEF LeaseInv, Control, Txs
<1>10. /\ at' \in 1..N /\ tx' \in Txs /\ tx'.plan = tx.plan /\ tx'.olds = tx.olds /\ tx'.failed = tx.failed
       /\ \A q \in set!Set \ {at} : tx'.residue[q] = tx.residue[q]
       /\ tx'.residue[at].kind = kind /\ tx'.residue[at].evidence = k.id
       /\ \/ at = tx.failed - 1 /\ step' = "settle" /\ at' = 1
          \/ at # tx.failed - 1 /\ step' = "rollback" /\ at' = at + 1
  <2>1. kind \in Kinds /\ k.id \in Values
    BY <1>4 DEF Kinds, Outcomes
  <2> HIDE DEF kind
  <2>2. /\ t \in Txs /\ t.plan = tx.plan /\ t.olds = tx.olds /\ t.failed = tx.failed
        /\ \A q \in set!Set \ {at} : t.residue[q] = tx.residue[q]
        /\ t.residue[at].kind = kind /\ t.residue[at].evidence = k.id
    BY <1>1, <2>1, LeftTyped
  <2>3. set!Onward(tx.failed - 1, "settle", t)
    BY <1>3 DEF kind
  <2> HIDE DEF t
  <2>4. IF at = tx.failed - 1 THEN step' = "settle" /\ at' = 1 /\ tx' = t
        ELSE step' = step /\ at' = at + 1 /\ tx' = t
    BY <2>3, Zenon DEF set!Onward, set!Goto
  <2> QED BY <1>1, <1>9, <2>2, <2>4
<1> HIDE DEF t
<1>11. Typed'
  BY <1>1, <1>7, <1>10 DEF Typed, set!Set
<1>12. Control'
  BY <1>1, <1>9, <1>10 DEF Control, Applying, Updating, Ending
<1>13. Claims'
  BY <1>1, <1>10 DEF Claims, Applying
<1>14. Alike'
  BY <1>1, <1>10 DEF LeaseInv, Alike, Updating, Ending, Resolving
<1>15. ASSUME NEW q \in set!Set PROVE Kept(q)'
  <2>1. Kept(q) /\ q \in 1..N
    BY DEF LeaseInv, set!Set
  <2>2. /\ native'[q] = IF q = at THEN k.s ELSE native[q]
        /\ mine'[q] = IF q = at /\ k.s # native[at] THEN k.s ELSE mine[q]
        /\ journal'[q] = journal[q] /\ live'[q] = live[q]
    BY <1>1, <1>7
  <2>3. tx'.residue[q].kind = IF q = at THEN kind ELSE tx.residue[q].kind
    BY <1>1, <1>10
  <2>4. tx'.residue[q].evidence = IF q = at THEN k.id ELSE tx.residue[q].evidence
    BY <1>1, <1>10
  <2> USE <2>1 DEF Kept
  <2>20. Rooted(q)'
    BY <1>1, <1>10, <2>2 DEF Rooted, Applying, Updating
  <2>21. Entered(q)'
    BY <1>1, <1>10, <2>2 DEF Entered, Tracked, Recorded, Applying, Ending
  <2>22. Owned(q)'
    BY <1>1, <1>10, <2>2 DEF Owned, Untouched, Applying, Ending
  <2>23. Freed(q)'
    BY <1>1, <1>10, <2>2 DEF Freed, Letting, Ending
  <2>24. Planned(q)'
    BY <1>1, <1>10, <2>2 DEF Planned, New, Old, Resolving, Applying, Updating, set!WasNoop
  <2>25. InPlace(q)'
    BY <1>1, <1>10, <2>2, <1>4, <1>9, <2>3 DEF InPlace, Back, Updating, Planned
  <2>26. Proven(q)'
    BY <1>1, <1>10, <2>2, <1>4, <2>3, <2>4 DEF Proven, Updating
  <2> QED BY <2>20, <2>21, <2>22, <2>23, <2>24, <2>25, <2>26 DEF Kept
<1> QED BY <1>8, <1>11, <1>12, <1>13, <1>14, <1>15 DEF LeaseInv

LEMMA SettleKeeps == LeaseInv /\ set!Settle => LeaseInv'
<1> SUFFICES ASSUME LeaseInv, set!Settle PROVE LeaseInv'
  OBVIOUS
<1> DEFINE old == tx.olds[at]
           left == tx.residue[at]
           next == IF left.kind = "restored" THEN set!Resumed(old, left.evidence) ELSE old
           kept == set!Pending(left.evidence, old.applied, old)
<1>1. /\ Typed /\ at \in set!Set /\ at \in 1..N /\ N \in Nat \ {0} /\ tx \in Txs
      /\ step = "settle" /\ op = "update" /\ phase = "active"
      /\ tx.plan \in Plans /\ tx.plan # None /\ before \in [set!Set -> States] /\ claimed = set!Set
      /\ native[at] \in States /\ Rooted(at) /\ Owned(at) /\ set!Accounted
      /\ live[at] # set!NoLive /\ journal[at] # set!NoRecord
      /\ UNCHANGED <<claimed, phase, op, before>>
  <2>1. /\ Typed /\ Control /\ Claims /\ set!Accounted /\ at \in set!Set /\ Kept(at)
        /\ step = "settle" /\ UNCHANGED <<claimed, phase, op, before>>
    BY DEF LeaseInv, set!Settle, set!Unmoved, Typed
  <2>2. /\ op = "update" /\ phase = "active"
        /\ tx.plan # None /\ before \in [set!Set -> States] /\ claimed = set!Set
    BY <2>1 DEF Control, Claims, Applying, Updating, Ending
  <2>3. live[at] # set!NoLive /\ journal[at] # set!NoRecord /\ Rooted(at) /\ Owned(at)
    BY <2>1, <2>2 DEF Kept, Entered, Tracked, Recorded, Applying
  <2>4. tx \in Txs /\ tx.plan \in Plans /\ native[at] \in States
    BY <2>1, <2>2 DEF Typed, Txs
  <2> QED BY <2>1, <2>2, <2>3, <2>4, LeaseConstants DEF set!Set
<1>2. /\ old \in Recs /\ Of(before[at], old) /\ old.applied # None /\ old.applied = old.desired
      /\ old.applied \in States
  BY <1>1 DEF LeaseInv, Kept, Typed, Txs, Recs, Values, Rooted, Planned, Updating
<1>3. PICK c \in set!Settled(set!Cell(at)) : set!Becomes(at, c)
  BY DEF set!Settle
<1>4. left.evidence \in Values /\ (left.kind = "restored" => left.evidence \in {None, old.applied})
  BY <1>1 DEF LeaseInv, Kept, Proven, Updating, Typed, Txs, Residues
<1>5. /\ c \in Cells /\ Sound(before[at], c.l) /\ c.s = native[at]
      /\ c.j = journal[at] \/ Of(before[at], c.j)
      /\ c.l.record.desired = old.desired
      /\ c.l.state = "committed" => left.kind # "pending" /\ c.l.record.applied = old.applied
  <2>1. /\ set!Cell(at) \in Cells /\ set!Cell(at).s = native[at]
        /\ set!Cell(at).j = journal[at] /\ set!Cell(at).l = live[at]
    BY <1>1, CellNow
  <2>2. CASE left.kind = "pending"
    <3>1. c \in set!RetainCompensation(set!Cell(at), kept)
      BY <1>3, <2>2 DEF set!Settled
    <3>2. /\ kept \in Pendings /\ kept.target # None /\ kept.resume = old
          /\ kept.target = old.desired
      BY <1>2, <1>4 DEF set!Pending, Pendings, Values
    <3>3. Of(before[at], live[at].record)
      BY <1>1 DEF Rooted, Sound
    <3> HIDE DEF kept
    <3>4. /\ Fit(before[at], c) /\ c.s = set!Cell(at).s /\ c.l.state = "compensating"
          /\ c.l.record.desired = old.desired
          /\ c.j = set!Cell(at).j \/ Of(before[at], c.j)
      BY <1>2, <2>1, <3>1, <3>2, <3>3, RetainCell
    <3> QED BY <2>1, <3>4 DEF Fit
  <2>3. CASE left.kind # "pending"
    <3>1. c \in set!PersistLive(set!Cell(at), next)
      BY <1>3, <2>3 DEF set!Settled
    <3>2. /\ next \in Recs /\ Of(before[at], next) /\ next.desired = old.desired
          /\ next.phase = "applied" => next.applied = old.applied
      <4>1. CASE left.kind = "restored"
        <5>1. next = [old EXCEPT !.applied = left.evidence,
                                 !.phase = IF left.evidence = None THEN "prepared" ELSE @]
          BY <4>1 DEF set!Resumed
        <5>2. /\ next \in Recs /\ next.before = old.before /\ next.desired = old.desired
              /\ next.applied = left.evidence
              /\ next.phase = IF left.evidence = None THEN "prepared" ELSE old.phase
          BY <1>2, <1>4, <5>1 DEF Recs
        <5> HIDE DEF next
        <5> QED BY <1>2, <1>4, <4>1, <5>2 DEF Of
      <4>2. CASE left.kind # "restored"
        <5>1. next = old
          BY <4>2
        <5> HIDE DEF next
        <5> QED BY <1>2, <5>1
      <4> QED BY <4>1, <4>2
    <3> HIDE DEF next
    <3>3. /\ Fit(before[at], c) /\ c.s = set!Cell(at).s /\ c.j \in {set!Cell(at).j, next}
          /\ c.l.record = next /\ (c.l.state = "committed" => next.phase = "applied")
      BY <1>2, <2>1, <3>1, <3>2, PersistCell
    <3> QED BY <2>1, <2>3, <3>2, <3>3 DEF Fit
  <2> QED BY <2>2, <2>3
<1>6. c.j # set!NoRecord /\ c.l # set!NoLive
  BY <1>1, <1>5, OfRecord, SoundLive
<1>7. /\ Steps(at, c)
      /\ native' \in [set!Set -> States] /\ mine' \in [set!Set -> Values]
      /\ journal' \in [set!Set -> Recs] /\ live' \in [set!Set -> Lives]
      /\ strayed' \in SUBSET set!Set
      /\ \A q \in set!Set : /\ native'[q] = native[q] /\ mine'[q] = mine[q]
                            /\ journal'[q] = IF q = at THEN c.j ELSE journal[q]
                            /\ live'[q] = IF q = at THEN c.l ELSE live[q]
  BY <1>1, <1>3, <1>5, StepsAt
<1>8. set!Accounted'
  BY <1>1, <1>5, <1>7, StepsAccounted
<1>9. /\ at' \in 1..N /\ tx' \in Txs
      /\ \/ at = N /\ step' = "rest"
         \/ at # N /\ step' = "settle" /\ at' = at + 1 /\ tx' = tx
  <2>1. set!OrRest(N)
    BY DEF set!Settle
  <2> QED BY <1>1, <2>1, NoTransactionTyped DEF set!OrRest, set!Rest, set!Goto
<1>10. Typed'
  BY <1>1, <1>7, <1>9 DEF Typed, set!Set
<1>11. Control'
  BY <1>1, <1>9 DEF Control, Applying, Updating, Ending
<1>12. Claims'
  BY <1>1, <1>9 DEF Claims, Applying
<1>13. Alike'
  <2>1. ASSUME step' = "rest", NEW q \in set!Set PROVE live'[q].record.desired = tx.olds[q].desired
    <3>1. Kept(q) /\ q \in 1..N /\ live'[q] = IF q = at THEN c.l ELSE live[q]
      BY <1>7 DEF LeaseInv, set!Set
    <3>2. CASE q = at
      BY <1>5, <3>1, <3>2
    <3>3. CASE q # at
      BY <1>1, <1>9, <2>1, <3>1, <3>3 DEF Kept, Planned, Old, Updating
    <3> QED BY <3>2, <3>3
  <2>2. \A r, s \in set!Set : tx.olds[r].desired = tx.olds[s].desired
    BY <1>1 DEF LeaseInv, Alike, Updating, Resolving
  <2> QED BY <1>1, <1>9, <2>1, <2>2 DEF Alike, Updating, Ending, Resolving
<1>14. ASSUME NEW q \in set!Set PROVE Kept(q)'
  <2>1. Kept(q) /\ Kept(at) /\ q \in 1..N
    BY <1>1 DEF LeaseInv, set!Set
  <2>2. /\ native'[q] = native[q] /\ mine'[q] = mine[q]
        /\ journal'[q] = IF q = at THEN c.j ELSE journal[q]
        /\ live'[q] = IF q = at THEN c.l ELSE live[q]
    BY <1>1, <1>7
  <2> USE <2>1 DEF Kept
  <2>20. Rooted(q)'
    BY <1>1, <1>9, <2>2, <1>5 DEF Rooted, Applying, Updating
  <2>21. Entered(q)'
    BY <1>1, <1>9, <2>2, <1>6 DEF Entered, Tracked, Recorded, Applying, Ending
  <2>22. Owned(q)'
    BY <1>1, <1>9, <2>2 DEF Owned, Untouched, Applying, Ending
  <2>23. Freed(q)'
    BY <1>1, <1>9, <2>2 DEF Freed, Letting, Ending
  <2>24. Planned(q)'
    BY <1>1, <1>9, <2>2, <1>5 DEF Planned, New, Old, Resolving, Applying, Updating, set!WasNoop
  <2>25. InPlace(q)'
    BY <1>1, <1>9, <2>2, <1>5 DEF InPlace, Back, Updating
  <2>26. Proven(q)'
    BY <1>1, <1>9, <2>2 DEF Proven, Updating
  <2> QED BY <2>20, <2>21, <2>22, <2>23, <2>24, <2>25, <2>26 DEF Kept
<1> QED BY <1>8, <1>10, <1>11, <1>12, <1>13, <1>14 DEF LeaseInv

LEMMA EndKeeps ==
    ASSUME LeaseInv, NEW name \in {"restore", "abandon", "drop"}, set!End(name) PROVE LeaseInv'
<1>1. /\ Typed /\ N \in Nat \ {0} /\ step = "rest" /\ phase # "none"
      /\ phase \in {"active", "restoring", "abandoning"}
      /\ before \in [set!Set -> States] /\ set!Accounted
      /\ step' = "end" /\ at' = 1 /\ op' = name /\ tx' \in Txs
      /\ UNCHANGED <<native, journal, live, before, claimed, phase, strayed>>
  BY LeaseConstants, NoTransactionTyped DEF LeaseInv, Control, set!End, set!Called, set!Goto
<1>2. mine' = IF name = "abandon" THEN [r \in set!Set |-> None] ELSE mine
  BY DEF set!End
<1>3. /\ mine' \in [set!Set -> Values]
      /\ \A q \in set!Set : mine'[q] = IF name = "abandon" THEN None ELSE mine[q]
  BY <1>1, <1>2 DEF Typed, Values
<1>4. Typed'
  BY <1>1, <1>3 DEF Typed, set!Set
<1>5. Control'
  BY <1>1 DEF Control, Applying, Updating, Ending
<1>6. Claims'
  BY <1>1 DEF Claims, Applying
<1>7. Alike'
  BY <1>1 DEF LeaseInv, Alike, Resolving, Updating, Ending
<1>8. set!Accounted'
  BY <1>1, <1>3, LeaseConstants DEF set!Accounted, set!JournaledAt, Typed
<1>9. ASSUME NEW q \in set!Set PROVE Kept(q)'
  <2>1. Kept(q) /\ q \in 1..N
    BY DEF LeaseInv, set!Set
  <2>2. /\ mine'[q] = IF name = "abandon" THEN None ELSE mine[q]
        /\ native[q] \in States /\ None \notin States
    BY <1>1, <1>3, LeaseConstants DEF Typed
  <2> USE <2>1 DEF Kept
  <2>20. Rooted(q)'
    BY <1>1, <2>2 DEF Rooted, Applying, Updating
  <2>21. Entered(q)'
    BY <1>1, <2>2 DEF Entered, Tracked, Recorded, Applying, Ending
  <2>22. Owned(q)'
    BY <1>1, <2>2 DEF Owned, Untouched, Applying, Ending
  <2>23. Freed(q)'
    BY <1>1, <2>2 DEF Freed, Letting, Ending
  <2>24. Planned(q)'
    BY <1>1, <2>2 DEF Planned, New, Old, Resolving, Applying, Updating, set!WasNoop
  <2>25. InPlace(q)'
    BY <1>1, <2>2 DEF InPlace, Back, Updating
  <2>26. Proven(q)'
    BY <1>1, <2>2 DEF Proven, Updating
  <2> QED BY <2>20, <2>21, <2>22, <2>23, <2>24, <2>25, <2>26 DEF Kept
<1> QED BY <1>4, <1>5, <1>6, <1>7, <1>8, <1>9 DEF LeaseInv

LEMMA EndOneKeeps == LeaseInv /\ set!EndOne => LeaseInv'
<1> SUFFICES ASSUME LeaseInv, set!EndOne PROVE LeaseInv'
  OBVIOUS
<1> DEFINE Erasing == op = "abandon" \/ (op = "drop" /\ phase = "abandoning")
           G(c) == IF c.ok \/ op = "drop" THEN [c EXCEPT !.l = set!NoLive] ELSE c
<1>1. /\ Typed /\ at \in set!Set /\ at \in 1..N /\ N \in Nat \ {0} /\ tx \in Txs
      /\ step = "end" /\ op \in {"restore", "abandon", "drop"}
      /\ phase \in {"active", "restoring", "abandoning"} /\ before \in [set!Set -> States]
      /\ native[at] \in States /\ before[at] \in States /\ Rooted(at) /\ Owned(at) /\ set!Accounted
      /\ (live[at] # set!NoLive <=> at \in claimed)
      /\ UNCHANGED <<op, before>>
  <2>1. /\ Typed /\ Control /\ set!Accounted /\ at \in set!Set /\ Kept(at)
        /\ step = "end" /\ UNCHANGED <<op, before>>
    BY DEF LeaseInv, set!EndOne, set!Unmoved, Typed
  <2>2. /\ op \in {"restore", "abandon", "drop"} /\ before \in [set!Set -> States]
        /\ phase \in {"active", "restoring", "abandoning"}
    BY <2>1 DEF Control, Applying, Updating, Ending
  <2>3. /\ live[at] # set!NoLive <=> at \in claimed
        /\ Rooted(at) /\ Owned(at)
    BY <2>1, <2>2 DEF Kept, Entered, Tracked, Applying
  <2> QED BY <2>1, <2>2, <2>3, LeaseConstants DEF set!Set, Typed
<1>2. PICK c : /\ c \in IF live[at] = set!NoLive THEN {set!Cell(at)}
                        ELSE IF Erasing THEN set!Erase(set!Cell(at)) ELSE set!RestoreLiveState(set!Cell(at))
               /\ set!Becomes(at, G(c))
               /\ claimed' = IF c.ok \/ op = "drop" THEN claimed \ {at} ELSE claimed
  BY DEF set!EndOne
<1>3. /\ set!Cell(at) \in Cells /\ set!Cell(at).s = native[at] /\ set!Cell(at).j = journal[at]
      /\ set!Cell(at).l = live[at] /\ set!Cell(at).ok
  BY <1>1, CellNow
<1>4. Erasing <=> Untouched(at)
  BY <1>1 DEF Untouched, Applying, Ending
<1> HIDE DEF Erasing
<1>5. Untouched(at) => mine[at] = None
  BY <1>1 DEF Owned
\* What becomes of the resource, whichever way it is ended.
<1>6. /\ c \in Cells
      /\ c.j \in {journal[at], set!NoRecord} \/ Of(before[at], c.j)
      /\ \/ c.j = journal[at] \/ Of(before[at], c.j) \/ c.s = before[at]
         \/ mine[at] = None /\ c.s = native[at]
      /\ c.s # native[at] => native[at] # before[at] /\ ~Untouched(at)
      /\ c.ok /\ live[at] # set!NoLive =>
            c.j = set!NoRecord /\ (c.s = before[at] \/ (mine[at] = None /\ c.s = native[at]))
      /\ live[at] = set!NoLive => c.ok /\ c.s = native[at] /\ c.j = journal[at]
      /\ live[at] # set!NoLive => Sound(before[at], c.l) /\ c.l.record.desired = live[at].record.desired
      /\ live[at] # set!NoLive /\ c.l.state = "committed" =>
            \/ c.s = c.l.record.applied
            \/ live[at].state = "committed" /\ c.s = native[at] /\ c.l.record = live[at].record
  <2>1. CASE live[at] = set!NoLive
    <3>1. c = set!Cell(at)
      BY <1>2, <2>1
    <3> QED BY <1>3, <2>1, <3>1
  <2>2. CASE live[at] # set!NoLive /\ Erasing
    <3>1. c \in set!Erase(set!Cell(at))
      BY <1>2, <2>2
    <3>2. /\ c \in Cells /\ c.s = native[at] /\ c.l = live[at] /\ c.j \in {journal[at], set!NoRecord}
          /\ c.ok => c.j = set!NoRecord
      BY <1>3, <3>1, WriteCell, NoneTyped DEF set!Erase
    <3>3. Sound(before[at], live[at])
      BY <1>1, <2>2 DEF Rooted
    <3> QED BY <1>4, <1>5, <2>2, <3>2, <3>3
  <2>3. CASE live[at] # set!NoLive /\ ~Erasing
    <3>1. c \in set!RestoreLiveState(set!Cell(at))
      BY <1>2, <2>3
    <3>2. Fit(before[at], set!Cell(at))
      BY <1>1, <2>3, CellFit
    <3>3. Restored(before[at], set!Cell(at), c) /\ (native[at] = before[at] => c.s = before[at])
      BY <1>1, <1>3, <3>1, <3>2, RestoreLiveStateCell
    <3>4. /\ c \in Cells /\ Sound(before[at], c.l) /\ c.l.record.desired = live[at].record.desired
          /\ c.j = journal[at] \/ Of(before[at], c.j) \/ (c.j = set!NoRecord /\ c.s = before[at])
      BY <1>3, <3>3 DEF Restored, Fit
    <3>5. c.ok => c.j = set!NoRecord /\ c.s = before[at]
      BY <3>3 DEF Restored
    <3>6. c.l.state = "committed" =>
            \/ c.s = c.l.record.applied
            \/ live[at].state = "committed" /\ c.s = native[at] /\ c.l.record = live[at].record
      BY <1>3, <3>3 DEF Restored
    <3>7. c.s # native[at] => native[at] # before[at] /\ ~Untouched(at)
      BY <1>4, <2>3, <3>3
    <3> QED BY <2>3, <3>4, <3>5, <3>6, <3>7
  <2> QED BY <2>1, <2>2, <2>3
<1> DEFINE gone == c.ok \/ op = "drop"
           l == IF gone THEN set!NoLive ELSE c.l
<1>7. G(c) \in Cells /\ G(c).s = c.s /\ G(c).j = c.j /\ G(c).l = l
  <2>1. CASE gone
    BY <1>6, <2>1, NoneTyped DEF Cells
  <2>2. CASE ~gone
    BY <1>6, <2>2 DEF Cells
  <2> QED BY <2>1, <2>2
<1>8. l # set!NoLive => ~gone /\ live[at] # set!NoLive /\ Sound(before[at], l)
  BY <1>6
<1>9. gone <=> l = set!NoLive
  BY <1>6, SoundLive
<1>10. set!Becomes(at, G(c)) /\ claimed' = IF gone THEN claimed \ {at} ELSE claimed
  BY <1>2
<1> HIDE DEF G
<1>11. /\ Steps(at, G(c))
       /\ native' \in [set!Set -> States] /\ mine' \in [set!Set -> Values]
       /\ journal' \in [set!Set -> Recs] /\ live' \in [set!Set -> Lives]
       /\ strayed' \in SUBSET set!Set
       /\ \A q \in set!Set : /\ native'[q] = IF q = at THEN c.s ELSE native[q]
                             /\ mine'[q] = IF q = at /\ c.s # native[at] THEN c.s ELSE mine[q]
                             /\ journal'[q] = IF q = at THEN c.j ELSE journal[q]
                             /\ live'[q] = IF q = at THEN l ELSE live[q]
  BY <1>1, <1>7, <1>10, StepsAt
<1>12. set!Accounted'
  BY <1>1, <1>6, <1>7, <1>11, StepsAccounted
<1>13. /\ at' \in 1..N /\ tx' \in Txs
       /\ \/ /\ at = N /\ step' = "rest"
             /\ phase' = IF op = "drop" \/ \A r \in set!Set : live'[r] = set!NoLive THEN "none"
                         ELSE IF op = "restore" THEN "restoring" ELSE "abandoning"
          \/ at # N /\ step' = "end" /\ at' = at + 1 /\ tx' = tx /\ phase' = phase
  <2>1. CASE at = N
    <3>1. set!Over(live')
      BY <2>1 DEF set!EndOne
    <3> QED BY <1>1, <2>1, <3>1, NoTransactionTyped DEF set!Over, set!Rest, set!Goto
  <2>2. CASE at # N
    <3>1. set!Goto(step, at + 1, tx) /\ UNCHANGED phase
      BY <2>2 DEF set!EndOne
    <3> QED BY <1>1, <2>2, <3>1 DEF set!Goto
  <2> QED BY <2>1, <2>2
<1>14. claimed' \in SUBSET set!Set /\ \A q \in set!Set : q \in claimed' <=> live'[q] # set!NoLive
  <2>1. claimed \in SUBSET set!Set
    BY <1>1 DEF Typed
  <2>2. ASSUME NEW q \in set!Set PROVE q \in claimed' <=> live'[q] # set!NoLive
    <3>1. q \in claimed <=> live[q] # set!NoLive
      BY <1>1 DEF LeaseInv, Kept, Entered, Tracked, Applying
    <3>2. live'[q] = IF q = at THEN l ELSE live[q]
      BY <1>11
    <3>3. CASE q = at
      BY <1>1, <1>6, <1>9, <1>10, <3>1, <3>2, <3>3
    <3>4. CASE q # at
      BY <1>10, <3>1, <3>2, <3>4
    <3> QED BY <3>3, <3>4
  <2> QED BY <1>10, <2>1, <2>2
<1>15. op = "drop" => \A q \in set!Set : (q <= at => q \notin claimed')
  <2> SUFFICES ASSUME op = "drop", NEW q \in set!Set, q <= at PROVE q \notin claimed'
    OBVIOUS
  <2>1. CASE q = at
    BY <1>10, <2>1
  <2>2. CASE q # at
    <3>1. q < at
      BY <1>1, <2>2 DEF set!Set
    <3>2. q \notin claimed
      BY <1>1, <3>1 DEF LeaseInv, Kept, Entered, Ending
    <3> QED BY <1>10, <3>2
  <2> QED BY <2>1, <2>2
<1>16. Typed'
  BY <1>1, <1>11, <1>13, <1>14 DEF Typed, set!Set
<1>17. Control'
  BY <1>1, <1>13 DEF Control, Applying, Updating, Ending
<1>18. Claims'
  <2>1. ASSUME step' = "rest", phase' = "none" PROVE claimed' = {}
    <3>1. CASE op = "drop"
      <4>1. \A q \in set!Set : q <= at
        BY <1>1, <1>13, <2>1 DEF set!Set
      <4> QED BY <1>14, <1>15, <3>1, <4>1
    <3>2. CASE op # "drop"
      <4>1. \A r \in set!Set : live'[r] = set!NoLive
        BY <1>13, <2>1, <3>2
      <4> QED BY <1>14, <4>1
    <3> QED BY <3>1, <3>2
  <2>2. ~(phase' = "active" /\ step' # "end") /\ ~Applying'
    BY <1>1, <1>13 DEF Applying
  <2> QED BY <2>1, <2>2 DEF Claims
<1>19. Alike'
  <2>1. ASSUME NEW q \in claimed' PROVE q \in claimed /\ live'[q].record.desired = live[q].record.desired
    <3>1. q \in claimed /\ q \in set!Set /\ live'[q] = IF q = at THEN l ELSE live[q]
      BY <1>10, <1>11, <1>14
    <3>2. CASE q = at
      BY <1>6, <1>8, <1>9, <1>10, <1>14, <3>1, <3>2
    <3>3. CASE q # at
      BY <3>1, <3>3
    <3> QED BY <3>1, <3>2, <3>3
  <2>2. \A r, s \in claimed : live[r].record.desired = live[s].record.desired
    BY <1>1 DEF LeaseInv, Alike, Ending
  <2>3. ~Updating'
    BY <1>1, <1>13 DEF Updating
  <2> QED BY <2>1, <2>2, <2>3 DEF Alike
<1>20. ASSUME NEW q \in set!Set PROVE Kept(q)'
  <2>1. Kept(q) /\ Kept(at) /\ q \in 1..N
    BY <1>1 DEF LeaseInv, set!Set
  <2>2. /\ native'[q] = IF q = at THEN c.s ELSE native[q]
        /\ mine'[q] = IF q = at /\ c.s # native[at] THEN c.s ELSE mine[q]
        /\ journal'[q] = IF q = at THEN c.j ELSE journal[q]
        /\ live'[q] = IF q = at THEN l ELSE live[q]
        /\ q \in claimed' <=> live'[q] # set!NoLive
    BY <1>1, <1>11, <1>14
  <2>3. native[q] \in States /\ None \notin States
    BY <1>1, LeaseConstants DEF Typed
  <2> USE <2>1 DEF Kept
  <2>20. Rooted(q)'
    BY <1>1, <1>13, <2>2, <1>6, <1>8 DEF Rooted, Applying, Updating
  <2>21. Entered(q)'
    BY <1>1, <1>13, <2>2, <1>15 DEF Entered, Tracked, Recorded, Applying, Ending
  <2>22. Owned(q)'
    BY <1>1, <1>13, <2>2, <1>6 DEF Owned, Untouched, Applying, Ending
  <2>23. Freed(q)'
    BY <1>1, <1>13, <2>2, <1>6, <1>10, <2>3
       DEF Freed, Letting, Ending, Entered, Tracked, Applying
  <2>24. Planned(q)'
    BY <1>1, <1>13, <2>2 DEF Planned, New, Old, Resolving, Applying, Updating, set!WasNoop
  <2>25. InPlace(q)'
    BY <1>1, <1>13, <2>2, <1>6, <1>8, <1>9, NoneTyped DEF InPlace, Back, Updating
  <2>26. Proven(q)'
    BY <1>1, <1>13, <2>2 DEF Proven, Updating
  <2> QED BY <2>20, <2>21, <2>22, <2>23, <2>24, <2>25, <2>26 DEF Kept
<1> QED BY <1>12, <1>16, <1>17, <1>18, <1>19, <1>20 DEF LeaseInv

LEMMA ApplyKeeps ==
    ASSUME LeaseInv, NEW p \in Plans, set!Apply(p) PROVE LeaseInv'
<1> DEFINE same == \A s \in set!Set : native[s] = p
           Olds(r) == IF same THEN set!Record("applied", native[r], p, native[r])
                      ELSE set!Record("prepared", native[r], p, None)
           olds == [r \in set!Set |-> Olds(r)]
<1>1. /\ Typed /\ N \in Nat \ {0} /\ step = "rest" /\ phase = "none" /\ claimed = {}
      /\ \A r \in set!Set : journal[r] = set!NoRecord
      /\ step' = "persist" /\ at' = 1 /\ op' = "apply" /\ tx' = set!Transaction(p, olds)
      /\ before' = native /\ claimed' = set!Set /\ mine' = [r \in set!Set |-> None] /\ strayed' = {}
      /\ UNCHANGED <<native, journal, live, phase>>
  BY LeaseConstants DEF LeaseInv, Control, Claims, set!Apply, set!Called, set!Goto
<1>2. ASSUME NEW r \in set!Set
      PROVE  /\ olds[r] \in Recs /\ Of(native[r], olds[r]) /\ olds[r].desired = p
             /\ olds[r].phase = IF same THEN "applied" ELSE "prepared"
             /\ olds[r].applied = IF same THEN native[r] ELSE None
  <2>1. native[r] \in Values /\ p \in Plans \cup {None} /\ None \in Values
    BY <1>1 DEF Typed, Values
  <2>2. olds[r] = Olds(r)
    OBVIOUS
  <2> HIDE DEF olds
  <2>3. CASE same
    <3>1. olds[r] = set!Record("applied", native[r], p, native[r])
      BY <2>2, <2>3
    <3> QED BY <2>1, <2>3, <3>1 DEF set!Record, Recs, Of
  <2>4. CASE ~same
    <3>1. olds[r] = set!Record("prepared", native[r], p, None)
      BY <2>2, <2>4
    <3> QED BY <2>1, <2>4, <3>1 DEF set!Record, Recs, Of
  <2> QED BY <2>3, <2>4
<1>3. olds \in [set!Set -> Recs]
  BY <1>2
<1>4. tx' \in Txs /\ tx'.plan = p /\ tx'.olds = olds
  <2> HIDE DEF olds
  <2> QED BY <1>1, <1>3, TransactionTyped
<1>5. set!WasNoop' => same
  <2>1. 1 \in set!Set
    BY <1>1 DEF set!Set
  <2> HIDE DEF same
  <2> QED BY <1>2, <1>4, <2>1 DEF set!WasNoop
<1>6. p # None /\ None \notin States
  BY LeaseConstants DEF States
<1> HIDE DEF olds
<1>7. /\ mine' \in [set!Set -> Values] /\ native \in [set!Set -> States] /\ native \in [set!Set -> Values]
      /\ \A q \in set!Set : mine'[q] = None
  BY <1>1 DEF Typed, Values
<1>8. Typed'
  BY <1>1, <1>4, <1>7 DEF Typed, set!Set
<1>9. Control'
  BY <1>1, <1>4, <1>6, <1>7 DEF Control, Applying, Updating, Ending
<1>10. Claims'
  BY <1>1 DEF Claims, Applying
<1>11. Alike'
  BY <1>1 DEF Alike, Resolving, Updating, Ending
<1>12. set!Accounted'
  BY <1>1, <1>6, <1>7 DEF set!Accounted, set!JournaledAt
<1>13. ASSUME NEW q \in set!Set PROVE Kept(q)'
  <2>1. Kept(q) /\ q \in 1..N
    BY DEF LeaseInv, set!Set
  <2>2. /\ Of(native[q], tx'.olds[q]) /\ tx'.olds[q].desired = tx'.plan
        /\ set!WasNoop' => tx'.olds[q].applied = tx'.plan
    BY <1>2, <1>4, <1>5
  <2>3. live[q] = set!NoLive /\ live'[q] = set!NoLive /\ journal'[q] = set!NoRecord
    BY <1>1, <2>1 DEF Kept, Entered, Tracked, Applying
  <2> USE <2>1 DEF Kept
  <2>20. Rooted(q)'
    BY <1>1, <1>7, <2>2, <2>3 DEF Rooted, Applying, Updating
  <2>21. Entered(q)'
    BY <1>1, <1>7, <2>2, <2>3 DEF Entered, Tracked, Recorded, Applying, Ending
  <2>22. Owned(q)'
    BY <1>1, <1>7, <2>2, <2>3 DEF Owned, Untouched, Applying, Ending
  <2>23. Freed(q)'
    BY <1>1, <1>7, <2>2, <2>3 DEF Freed, Letting, Ending
  <2>24. Planned(q)'
    BY <1>1, <1>7, <2>2, <2>3 DEF Planned, New, Old, Resolving, Applying, Updating, set!WasNoop
  <2>25. InPlace(q)'
    BY <1>1, <1>7, <2>2, <2>3 DEF InPlace, Back, Updating
  <2>26. Proven(q)'
    BY <1>1, <1>7, <2>2, <2>3 DEF Proven, Updating
  <2> QED BY <2>20, <2>21, <2>22, <2>23, <2>24, <2>25, <2>26 DEF Kept
<1> QED BY <1>8, <1>9, <1>10, <1>11, <1>12, <1>13 DEF LeaseInv

LEMMA OtherProgramKeeps ==
    ASSUME LeaseInv, NEW r \in set!Set, set!OtherProgram(r) PROVE LeaseInv'
<1>1. PICK s \in Others : native' = [native EXCEPT ![r] = s]
  BY DEF set!OtherProgram
<1>2. /\ Typed /\ Control /\ Claims /\ Alike /\ set!Accounted
      /\ mine' = [mine EXCEPT ![r] = None]
      /\ UNCHANGED <<journal, live, claimed, phase, op, step, at, tx, before, strayed>>
  BY DEF LeaseInv, set!OtherProgram
<1>3. /\ native' \in [set!Set -> States] /\ mine' \in [set!Set -> Values] /\ None \notin States
      /\ \A q \in set!Set : /\ native'[q] = IF q = r THEN s ELSE native[q]
                            /\ mine'[q] = IF q = r THEN None ELSE mine[q]
  BY <1>1, <1>2, LeaseConstants DEF Typed, States, Values
<1>4. Typed'
  BY <1>2, <1>3 DEF Typed
<1>5. Control'
  BY <1>2 DEF Control, Applying, Updating, Ending
<1>6. Claims'
  BY <1>2 DEF Claims, Applying
<1>7. Alike'
  BY <1>2 DEF Alike, Resolving, Updating, Ending
<1>8. set!Accounted'
  BY <1>2, <1>3 DEF set!Accounted, set!JournaledAt
<1>9. ASSUME NEW q \in set!Set PROVE Kept(q)'
  <2>1. Kept(q)
    BY DEF LeaseInv
  <2>2. /\ native'[q] = IF q = r THEN s ELSE native[q]
        /\ mine'[q] = IF q = r THEN None ELSE mine[q]
        /\ native'[q] \in States /\ None \notin States
    BY <1>3
  <2> USE <2>1 DEF Kept
  <2>20. Rooted(q)'
    BY <1>2, <2>2 DEF Rooted, Applying, Updating
  <2>21. Entered(q)'
    BY <1>2, <2>2 DEF Entered, Tracked, Recorded, Applying, Ending
  <2>22. Owned(q)'
    BY <1>2, <2>2 DEF Owned, Untouched, Applying, Ending
  <2>23. Freed(q)'
    BY <1>2, <2>2 DEF Freed, Letting, Ending
  <2>24. Planned(q)'
    BY <1>2, <2>2 DEF Planned, New, Old, Resolving, Applying, Updating, set!WasNoop
  <2>25. InPlace(q)'
    BY <1>2, <2>2 DEF InPlace, Back, Updating
  <2>26. Proven(q)'
    BY <1>2, <2>2 DEF Proven, Updating
  <2> QED BY <2>20, <2>21, <2>22, <2>23, <2>24, <2>25, <2>26 DEF Kept
<1> QED BY <1>4, <1>5, <1>6, <1>7, <1>8, <1>9 DEF LeaseInv

LEMMA LeaseUnchanged == LeaseInv /\ UNCHANGED set!leaseVars => LeaseInv'
<1> SUFFICES ASSUME LeaseInv, UNCHANGED set!leaseVars PROVE LeaseInv'
  OBVIOUS
<1>1. UNCHANGED <<native, journal, live, claimed, phase, op, step, at, tx, before, mine, strayed>>
  BY DEF set!leaseVars
<1>2. Typed' /\ Control'
  BY <1>1 DEF LeaseInv, Typed, Control, Applying, Updating, Ending
<1>3. Claims' /\ Alike' /\ set!Accounted'
  BY <1>1
     DEF LeaseInv, Claims, Alike, set!Accounted, set!JournaledAt, Applying, Updating, Ending,
         Resolving
<1>4. ASSUME NEW q \in set!Set PROVE Kept(q)'
  <2>1. Kept(q)
    BY DEF LeaseInv
  <2>2. Rooted(q)' /\ Entered(q)' /\ Owned(q)' /\ Freed(q)'
    BY <1>1, <2>1 DEF Kept, Rooted, Entered, Tracked, Recorded, Owned, Untouched, Freed, Letting,
         Applying, Updating, Ending
  <2>3. Planned(q)' /\ InPlace(q)' /\ Proven(q)'
    BY <1>1, <2>1 DEF Kept, Planned, New, Old, Resolving, set!WasNoop, InPlace, Back, Proven,
         Applying, Updating, Ending
  <2> QED BY <2>2, <2>3 DEF Kept
<1> QED BY <1>2, <1>3, <1>4 DEF LeaseInv

LEMMA LeaseInit == set!Init => LeaseInv
<1> SUFFICES ASSUME set!Init PROVE LeaseInv
  OBVIOUS
<1>1. PICK s \in Others : native = [r \in set!Set |-> s]
  BY DEF set!Init
<1>2. /\ journal = [r \in set!Set |-> set!NoRecord] /\ live = [r \in set!Set |-> set!NoLive]
      /\ claimed = {} /\ phase = "none" /\ op = "none" /\ step = "rest" /\ at = 1
      /\ tx = set!NoTransaction /\ before = [r \in set!Set |-> None] /\ mine = before /\ strayed = {}
      /\ N \in Nat \ {0} /\ None \notin States
  BY LeaseConstants DEF set!Init
<1>3. /\ native \in [set!Set -> States] /\ before \in [set!Set -> Values] /\ mine \in [set!Set -> Values]
      /\ journal \in [set!Set -> Recs] /\ live \in [set!Set -> Lives]
  BY <1>1, <1>2, NoneTyped DEF States, Values
<1>4. Typed
  BY <1>2, <1>3, NoTransactionTyped DEF Typed, set!Set
<1>5. Control /\ Claims /\ Alike
  BY <1>2 DEF Control, Claims, Alike, Applying, Updating, Ending, Resolving
<1>6. ASSUME NEW q \in set!Set
      PROVE  native[q] \in States /\ mine[q] = None /\ journal[q] = set!NoRecord /\ live[q] = set!NoLive
  BY <1>2, <1>3
<1>7. set!Accounted
  BY <1>2, <1>6 DEF set!Accounted, set!JournaledAt
<1>8. ASSUME NEW q \in set!Set PROVE Kept(q)
  <2>1. Rooted(q) /\ Entered(q) /\ Owned(q) /\ Freed(q)
    BY <1>2, <1>6 DEF Rooted, Entered, Tracked, Recorded, Owned, Untouched, Freed, Letting,
         Applying, Updating, Ending
  <2>2. Planned(q) /\ InPlace(q) /\ Proven(q)
    BY <1>2, <1>6 DEF Planned, New, Old, Resolving, InPlace, Proven, Applying, Updating, Ending
  <2> QED BY <2>1, <2>2 DEF Kept
<1> QED BY <1>4, <1>5, <1>7, <1>8 DEF LeaseInv

LEMMA LeaseNext == LeaseInv /\ set!Next => LeaseInv'
<1> SUFFICES ASSUME LeaseInv, set!Next PROVE LeaseInv'
  OBVIOUS
<1>1. ASSUME NEW p \in Plans, set!Apply(p) \/ set!Update(p) PROVE LeaseInv'
  BY <1>1, ApplyKeeps, UpdateKeeps
<1>2. CASE set!Persist \/ set!Withdraw \/ set!Mutate \/ set!Unwind \/ set!Commit
  BY <1>2, PersistKeeps, WithdrawKeeps, MutateKeeps, UnwindKeeps, CommitKeeps
<1>3. CASE \/ set!Resolve \/ set!Own \/ set!OwnUnread
           \/ set!Prepare \/ set!Revert \/ set!Rollback \/ set!Settle
  BY <1>3, ResolveKeeps, OwnKeeps, OwnUnreadKeeps, PrepareKeeps, RevertKeeps, RollbackKeeps,
     SettleKeeps
<1>4. CASE set!Restore \/ set!Abandon \/ set!Drop
  BY <1>4, EndKeeps DEF set!Restore, set!Abandon, set!Drop
<1>5. CASE set!EndOne
  BY <1>5, EndOneKeeps
<1>6. ASSUME NEW r \in set!Set, set!OtherProgram(r) PROVE LeaseInv'
  BY <1>6, OtherProgramKeeps
<1>7. CASE set!Content
  BY <1>7, LeaseUnchanged DEF set!Content
<1> QED BY <1>1, <1>2, <1>3, <1>4, <1>5, <1>6, <1>7 DEF set!Next

LEMMA LeaseKeepsClaim == LeaseInv => set!FailureKeepsClaim
<1> SUFFICES ASSUME LeaseInv, step = "rest"
             PROVE  /\ claimed = {r \in set!Set : live[r] # set!NoLive}
                    /\ op \in {"restore", "abandon"} =>
                          \A r \in set!Set \ claimed :
                              /\ journal[r] = set!NoRecord
                              /\ op = "restore" /\ mine[r] = native[r] => native[r] = before[r]
  BY DEF set!FailureKeepsClaim
<1>1. claimed \in SUBSET set!Set /\ \A r \in set!Set : r \in claimed <=> live[r] # set!NoLive
  BY DEF LeaseInv, Typed, Kept, Entered, Tracked, Applying
<1>2. claimed = {r \in set!Set : live[r] # set!NoLive}
  BY <1>1
<1> QED BY <1>2 DEF LeaseInv, Kept, Freed, Letting

LEMMA LeaseOneConfiguration == LeaseInv => set!OneConfiguration
<1> SUFFICES ASSUME LeaseInv, step = "rest", phase # "none", NEW r \in claimed, NEW s \in claimed
             PROVE  /\ live[r].record.desired = live[s].record.desired
                    /\ r \notin set!PendingDurability => live[r].record.applied = live[r].record.desired
  BY DEF set!OneConfiguration
<1>1. live[r].record.desired = live[s].record.desired
  BY DEF LeaseInv, Alike
<1>2. Sound(before[r], live[r])
  BY DEF LeaseInv, Typed, Kept, Entered, Tracked, Applying, Rooted
<1> QED BY <1>1, <1>2 DEF set!PendingDurability, Sound

LEMMA LeaseNeverMixed == LeaseInv => set!NeverMixed
<1> SUFFICES ASSUME LeaseInv, step = "rest", phase = "active",
                    NEW r \in set!Set \ set!PendingDurability, NEW s \in set!Set \ set!PendingDurability,
                    mine[r] # None, mine[s] # None
             PROVE  mine[r] = mine[s]
  BY DEF set!NeverMixed
<1>1. ASSUME NEW q \in set!Set \ set!PendingDurability, mine[q] # None
      PROVE  mine[q] = live[q].record.desired
  <2>1. q \in claimed
    BY DEF LeaseInv, Claims
  <2>2. live[q].state = "committed"
    BY <2>1 DEF set!PendingDurability
  <2>3. Sound(before[q], live[q]) /\ mine[q] = native[q] /\ native[q] = live[q].record.applied
    BY <1>1, <2>1, <2>2 DEF LeaseInv, Kept, Entered, Tracked, Applying, Rooted, Owned, InPlace
  <2> QED BY <2>2, <2>3 DEF Sound
<1>2. live[r].record.desired = live[s].record.desired
  BY DEF LeaseInv, Claims, Alike
<1> QED BY <1>1, <1>2

\* The part that runs is the lease.
SetInv == part = "set" => LeaseInv

LEMMA SetInit == SessionInit => SetInv
BY LeaseInit DEF SessionInit, SetInv

LEMMA SetInductive == SetInv /\ [SessionNext]_sessionVars => SetInv'
<1> SUFFICES ASSUME SetInv, [SessionNext]_sessionVars, part' = "set" PROVE LeaseInv'
  BY DEF SetInv
<1>1. part = "set" /\ LeaseInv
  BY DEF SetInv, SessionNext, sessionVars
<1>2. CASE UNCHANGED sessionVars
  <2>1. UNCHANGED set!leaseVars
    BY <1>2 DEF sessionVars, setVars, set!leaseVars
  <2> QED BY <1>1, <2>1, LeaseUnchanged
<1>3. CASE set!Next
  BY <1>1, <1>3, LeaseNext
<1> QED BY <1>1, <1>2, <1>3 DEF SessionNext

(***************************************************************************)
(* The inductive invariant of a lease over any number of resources, in     *)
(* every state of every call (src/src/manager.rs and src/src/lease.rs):    *)
(* what the steps of a transaction know of each resource agrees with its   *)
(* record, its entry and its state.                                        *)
(***************************************************************************)
THEOREM LeaseInvariant == SessionSpec => []SetInv
BY SetInit, SetInductive, PTL DEF SessionSpec

(***************************************************************************)
(* "Unresolved mutations retain journals" (src/src/manager.rs, apply):     *)
(* whatever osdns left in a resource, and nobody replaced or abandoned     *)
(* since, the journal has a record with the original; in the middle of     *)
(* every call, after every failure, for any number of resources, failures  *)
(* and writes of other programs.                                           *)
(***************************************************************************)
THEOREM AlwaysAccounted == SessionSpec => []Accounted
<1>1. SetInv => Accounted
  BY DEF SetInv, LeaseInv, Accounted
<1> QED BY <1>1, LeaseInvariant, PTL

(***************************************************************************)
(* "Old complete configuration or new complete configuration, never a      *)
(* silently mixed configuration" (src/src/manager.rs, transact_update):    *)
(* between calls, all resources that the lease reports as settled and      *)
(* nobody else wrote are in the same configuration.                        *)
(***************************************************************************)
THEOREM UpdatesNeverMix == SessionSpec => []NeverMixed
<1>1. SetInv => NeverMixed
  BY LeaseNeverMixed DEF SetInv, NeverMixed
<1> QED BY <1>1, LeaseInvariant, PTL

(***************************************************************************)
(* Between calls all records of a lease want the same plan, whatever failed*)
(* in an apply or update (src/src/manager.rs, transact_update and          *)
(* retain_compensation), so that a later pass of the reconciler cannot mix *)
(* two.                                                                    *)
(***************************************************************************)
THEOREM RecordsAgree == SessionSpec => []OneConfiguration
<1>1. SetInv => OneConfiguration
  BY LeaseOneConfiguration DEF SetInv, OneConfiguration
<1> QED BY <1>1, LeaseInvariant, PTL

(***************************************************************************)
(* A lease that could not be ended holds the locks of exactly what it still*)
(* tracks, and restore or abandon lets go of a resource only once its      *)
(* record is gone (src/src/lease.rs, LeaseFailure).                        *)
(***************************************************************************)
THEOREM ClaimsKept == SessionSpec => []FailureKeepsClaim
<1>1. SetInv => FailureKeepsClaim
  BY LeaseKeepsClaim DEF SetInv, FailureKeepsClaim
<1> QED BY <1>1, LeaseInvariant, PTL

-----------------------------------------------------------------------------
(* The locks. *)

(***************************************************************************)
(* A nonempty set of locks has a first one: what acquire_all's sort relies *)
(* on. The sets of smaller members are ordered by strict inclusion, which  *)
(* is well founded on the subsets of a finite set.                         *)
(***************************************************************************)
LEMMA MinProperties ==
    ASSUME NEW S \in SUBSET Resources, S # {}
    PROVE  Min(S) \in S /\ \A s \in S : Min(S) <= s
<1> DEFINE Below(x) == {y \in S : y < x}
           T == {Below(x) : x \in S}
<1>1. IsWellFoundedOn(StrictSubsetOrdering(Resources), SUBSET Resources)
  BY LocksAssumption, FS_StrictSubsetOrderingWellFounded, FS_FiniteSubsetsOfFinite
<1>2. T \subseteq SUBSET Resources /\ T # {}
  OBVIOUS
<1>3. PICK B \in T : \A C \in T : ~(<<C, B>> \in StrictSubsetOrdering(Resources))
  <2> HIDE DEF T
  <2> QED BY <1>1, <1>2, WFMin
<1>4. PICK x \in S : B = Below(x)
  OBVIOUS
<1>5. ASSUME NEW y \in S, ~(x <= y) PROVE FALSE
  <2>1. \A z \in S : z \in Nat
    BY LocksAssumption
  <2>2. Below(y) \subseteq Below(x) /\ y \in Below(x) /\ y \notin Below(y)
    BY <1>5, <2>1
  <2>3. <<Below(y), Below(x)>> \in StrictSubsetOrdering(Resources)
    BY <2>2 DEF StrictSubsetOrdering
  <2> QED BY <2>3, <1>3, <1>4
<1> QED BY <1>5 DEF Min

-----------------------------------------------------------------------------
(***************************************************************************)
(* The inductive invariant.                                                *)
(***************************************************************************)
Acquiring(t) == pc[t] \in {"check", "lock", "insert"}

\* A lock is taken in sort order: everything held precedes everything to come.
Sorted ==
    \A t \in Threads : Acquiring(t) =>
        /\ target[t] \in todo[t]
        /\ \A r \in todo[t] : target[t] <= r
        /\ \A h \in held[t], r \in todo[t] : h < r

\* Holding a lock, or being about to register it, is having the file.
HoldersHaveFile ==
    \A t \in Threads :
        /\ \A r \in held[t] : file[r] = t
        /\ pc[t] = "insert" => file[target[t]] = t

FileHasHolder ==
    \A r \in Resources : \A t \in Threads :
        file[r] = t => r \in held[t] \/ (pc[t] = "insert" /\ target[t] = r)

\* A lock on its way out is held but no longer registered.
Dropping ==
    \A t \in Threads :
        /\ pc[t] = "unlock" => target[t] \in held[t] /\ target[t] \notin registry[ProcessOf[t]]
        /\ pc[t] = "idle" => held[t] = {}

Registered ==
    \A t \in Threads : \A r \in held[t] :
        (pc[t] = "unlock" /\ target[t] = r) \/ r \in registry[ProcessOf[t]]

EntryHasHolder ==
    \A p \in Processes : \A r \in registry[p] :
        \E t \in Threads : ProcessOf[t] = p /\ file[r] = t /\ r \in held[t]

LocksInv ==
    /\ TypeOK
    /\ Sorted
    /\ HoldersHaveFile
    /\ FileHasHolder
    /\ Dropping
    /\ Registered
    /\ EntryHasHolder

(***************************************************************************)
(* Initially nothing is locked.                                            *)
(***************************************************************************)
LEMMA LocksInit == Init => LocksInv
BY LocksAssumption DEF Init, LocksInv, TypeOK, Labels, Sorted, Acquiring, HoldersHaveFile, FileHasHolder,
    Dropping, Registered, EntryHasHolder

(***************************************************************************)
(* Every step of a thread and every crash preserves the invariant.         *)
(***************************************************************************)
LEMMA LocksNext == LocksInv /\ [Next]_vars => LocksInv'
<1> SUFFICES ASSUME LocksInv, [Next]_vars PROVE LocksInv'
  OBVIOUS
<1> USE LocksAssumption
<1>1. ASSUME NEW t \in Threads, NEW S \in SUBSET Resources, NEW m \in {"wait", "try"}, Acquire(t, S, m)
      PROVE  LocksInv'
  <2>1. Min(S) \in S /\ \A s \in S : Min(S) <= s
    BY <1>1, MinProperties DEF Acquire
  <2>2. TypeOK'
    BY <2>1, <1>1 DEF LocksInv, TypeOK, Labels, Sorted, Acquiring, Dropping, Acquire, Goto
  <2>3. Sorted'
    BY <2>1, <1>1 DEF LocksInv, TypeOK, Sorted, Acquiring, Dropping, Acquire, Goto
  <2>4. HoldersHaveFile'
    BY <2>1, <1>1 DEF LocksInv, TypeOK, HoldersHaveFile, FileHasHolder, Sorted, Acquiring, Dropping, Acquire, Goto
  <2>5. FileHasHolder'
    BY <2>1, <1>1 DEF LocksInv, TypeOK, FileHasHolder, HoldersHaveFile, Dropping, Sorted, Acquiring, Acquire, Goto
  <2>6. Dropping'
    BY <2>1, <1>1 DEF LocksInv, TypeOK, Dropping, HoldersHaveFile, Sorted, Acquiring, Acquire, Goto
  <2>7. Registered'
    BY <2>1, <1>1 DEF LocksInv, TypeOK, Registered, HoldersHaveFile, Dropping, Acquire, Goto
  <2>8. EntryHasHolder'
    BY <2>1, <1>1 DEF LocksInv, TypeOK, EntryHasHolder, HoldersHaveFile, Dropping, FileHasHolder, Sorted, Acquiring, Acquire, Goto
  <2> QED BY <2>2, <2>3, <2>4, <2>5, <2>6, <2>7, <2>8 DEF LocksInv
<1>2. ASSUME NEW t \in Threads, CheckRegistry(t) PROVE LocksInv'
  <2>1. TypeOK'
    BY <1>2 DEF LocksInv, TypeOK, Labels, Sorted, Acquiring, Dropping, CheckRegistry, Goto
  <2>2. Sorted'
    BY <1>2 DEF LocksInv, TypeOK, Sorted, Acquiring, Dropping, CheckRegistry, Goto
  <2>3. HoldersHaveFile'
    BY <1>2 DEF LocksInv, TypeOK, HoldersHaveFile, FileHasHolder, Sorted, Acquiring, Dropping, CheckRegistry, Goto
  <2>4. FileHasHolder'
    BY <1>2 DEF LocksInv, TypeOK, FileHasHolder, HoldersHaveFile, Dropping, Sorted, Acquiring, CheckRegistry, Goto
  <2>5. Dropping'
    BY <1>2 DEF LocksInv, TypeOK, Dropping, HoldersHaveFile, Sorted, Acquiring, CheckRegistry, Goto
  <2>6. Registered'
    BY <1>2 DEF LocksInv, TypeOK, Registered, HoldersHaveFile, Dropping, CheckRegistry, Goto
  <2>7. EntryHasHolder'
    BY <1>2 DEF LocksInv, TypeOK, EntryHasHolder, HoldersHaveFile, Dropping, FileHasHolder, Sorted, Acquiring, CheckRegistry, Goto
  <2> QED BY <2>1, <2>2, <2>3, <2>4, <2>5, <2>6, <2>7 DEF LocksInv
<1>3. ASSUME NEW t \in Threads, TryLock(t) PROVE LocksInv'
  <2>1. TypeOK'
    BY <1>3 DEF LocksInv, TypeOK, Labels, Sorted, Acquiring, Dropping, TryLock, Goto
  <2>2. Sorted'
    BY <1>3 DEF LocksInv, TypeOK, Sorted, Acquiring, Dropping, TryLock, Goto
  <2>3. HoldersHaveFile'
    <3> SUFFICES ASSUME NEW u \in Threads
                 PROVE  /\ \A r \in held'[u] : file'[r] = u
                        /\ pc'[u] = "insert" => file'[target'[u]] = u
      BY DEF HoldersHaveFile
    <3>1. target[t] \in Resources /\ held' = held /\ target' = target
      BY <1>3 DEF LocksInv, TypeOK, Sorted, Acquiring, TryLock
    <3>2. CASE file[target[t]] = Free
      <4>1. file' = [file EXCEPT ![target[t]] = t] /\ pc' = [pc EXCEPT ![t] = "insert"]
        BY <1>3, <3>2 DEF TryLock, Goto
      <4>2. \A r \in held[u] : r \in Resources /\ file[r] = u
        BY DEF LocksInv, TypeOK, HoldersHaveFile
      <4>3. \A r \in held[u] : r # target[t]
        BY <4>2, <3>2
      <4>4. u # t /\ pc[u] = "insert" => target[u] # target[t] /\ target[u] \in Resources
        BY <3>2 DEF LocksInv, TypeOK, HoldersHaveFile, Sorted, Acquiring
      <4> QED BY <3>1, <4>1, <4>2, <4>3, <4>4 DEF LocksInv, TypeOK, HoldersHaveFile
    <3>3. CASE file[target[t]] # Free
      <4>1. file' = file /\ pc' \in {[pc EXCEPT ![t] = "check"], [pc EXCEPT ![t] = "fail"]}
        BY <1>3, <3>3 DEF TryLock, Goto
      <4> QED BY <3>1, <4>1 DEF LocksInv, TypeOK, HoldersHaveFile
    <3> QED BY <3>2, <3>3
  <2>4. FileHasHolder'
    BY <1>3 DEF LocksInv, TypeOK, FileHasHolder, HoldersHaveFile, Dropping, Sorted, Acquiring, TryLock, Goto
  <2>5. Dropping'
    BY <1>3 DEF LocksInv, TypeOK, Dropping, HoldersHaveFile, Sorted, Acquiring, TryLock, Goto
  <2>6. Registered'
    BY <1>3 DEF LocksInv, TypeOK, Registered, HoldersHaveFile, Dropping, TryLock, Goto
  <2>7. EntryHasHolder'
    BY <1>3 DEF LocksInv, TypeOK, EntryHasHolder, HoldersHaveFile, Dropping, FileHasHolder, Sorted, Acquiring, TryLock, Goto
  <2> QED BY <2>1, <2>2, <2>3, <2>4, <2>5, <2>6, <2>7 DEF LocksInv
<1>4. ASSUME NEW t \in Threads, Timeout(t) PROVE LocksInv'
  <2>1. TypeOK'
    BY <1>4 DEF LocksInv, TypeOK, Labels, Sorted, Acquiring, Dropping, Timeout, Goto
  <2>2. Sorted'
    BY <1>4 DEF LocksInv, TypeOK, Sorted, Acquiring, Dropping, Timeout, Goto
  <2>3. HoldersHaveFile'
    BY <1>4 DEF LocksInv, TypeOK, HoldersHaveFile, FileHasHolder, Sorted, Acquiring, Dropping, Timeout, Goto
  <2>4. FileHasHolder'
    BY <1>4 DEF LocksInv, TypeOK, FileHasHolder, HoldersHaveFile, Dropping, Sorted, Acquiring, Timeout, Goto
  <2>5. Dropping'
    BY <1>4 DEF LocksInv, TypeOK, Dropping, HoldersHaveFile, Sorted, Acquiring, Timeout, Goto
  <2>6. Registered'
    BY <1>4 DEF LocksInv, TypeOK, Registered, HoldersHaveFile, Dropping, Timeout, Goto
  <2>7. EntryHasHolder'
    BY <1>4 DEF LocksInv, TypeOK, EntryHasHolder, HoldersHaveFile, Dropping, FileHasHolder, Sorted, Acquiring, Timeout, Goto
  <2> QED BY <2>1, <2>2, <2>3, <2>4, <2>5, <2>6, <2>7 DEF LocksInv
<1>5. ASSUME NEW t \in Threads, Insert(t) PROVE LocksInv'
  <2>1. \A T \in SUBSET Resources : T # {} => Min(T) \in T /\ \A s \in T : Min(T) <= s
    BY MinProperties
  <2>2. TypeOK'
    <3>1. todo[t] \subseteq Resources /\ target[t] \in Resources
      BY <1>5 DEF LocksInv, TypeOK, Sorted, Acquiring, Insert
    <3>2. target' \in [Threads -> Resources \cup {Free}]
      BY ZenonT(60), <1>5, <2>1, <3>1 DEF LocksInv, TypeOK, Insert
    <3>3. pc' \in [Threads -> Labels]
      BY <1>5 DEF LocksInv, TypeOK, Insert, Goto, Labels
    <3> QED BY <1>5, <3>1, <3>2, <3>3 DEF LocksInv, TypeOK, Insert
  <2>3. Sorted'
    <3> DEFINE rest == todo[t] \ {target[t]}
    <3> SUFFICES ASSUME NEW u \in Threads, Acquiring(u)'
                 PROVE  /\ target'[u] \in todo'[u]
                        /\ \A r \in todo'[u] : target'[u] <= r
                        /\ \A h \in held'[u], r \in todo'[u] : h < r
      BY DEF Sorted
    <3>1. CASE u # t
      BY <1>5, <3>1 DEF LocksInv, TypeOK, Sorted, Acquiring, Insert, Goto
    <3>2. CASE u = t
      <4>1. rest # {} /\ todo'[t] = rest /\ target'[t] = Min(rest)
        BY <1>5, <3>2 DEF LocksInv, TypeOK, Acquiring, Insert, Goto
      <4>2. held'[t] = held[t] \cup {target[t]}
        BY <1>5 DEF LocksInv, TypeOK, Insert
      <4>3. rest \subseteq Resources /\ target[t] \in Resources /\ rest \subseteq todo[t]
        BY <1>5 DEF LocksInv, TypeOK, Sorted, Acquiring, Insert
      <4>4. Min(rest) \in rest /\ \A r \in rest : Min(rest) <= r
        BY <2>1, <4>1, <4>3
      <4>5. \A h \in held[t], r \in todo[t] : h < r
        BY <1>5 DEF LocksInv, Sorted, Acquiring, Insert
      <4>6. \A r \in rest : target[t] < r
        <5>1. \A r \in rest : target[t] <= r /\ target[t] # r /\ r \in Nat /\ target[t] \in Nat
          BY <1>5, <4>3 DEF LocksInv, Sorted, Acquiring, Insert
        <5> QED BY <5>1
      <4> HIDE DEF rest
      <4> QED BY <3>2, <4>1, <4>2, <4>3, <4>4, <4>5, <4>6
    <3> QED BY <3>1, <3>2
  <2>4. HoldersHaveFile'
    BY <2>1, <1>5 DEF LocksInv, TypeOK, HoldersHaveFile, FileHasHolder, Sorted, Acquiring, Dropping, Insert, Goto
  <2>5. FileHasHolder'
    BY <2>1, <1>5 DEF LocksInv, TypeOK, FileHasHolder, HoldersHaveFile, Dropping, Sorted, Acquiring, Insert, Goto
  <2>6. Dropping'
    <3>1. registry[ProcessOf[t]] \cup {target[t]} = registry'[ProcessOf[t]]
      BY <1>5 DEF LocksInv, TypeOK, Insert
    <3> SUFFICES ASSUME NEW u \in Threads
                 PROVE  /\ pc'[u] = "unlock" => /\ target'[u] \in held'[u]
                                               /\ target'[u] \notin registry'[ProcessOf[u]]
                        /\ pc'[u] = "idle" => held'[u] = {}
      BY DEF Dropping
    <3>2. CASE u = t
      BY <1>5, <3>2 DEF LocksInv, TypeOK, Insert, Goto
    <3>3. CASE u # t
      <4>1. pc'[u] = pc[u] /\ target'[u] = target[u] /\ held'[u] = held[u]
        BY <1>5, <3>3 DEF LocksInv, TypeOK, Insert, Goto
      <4>2. pc[u] = "unlock" => target[u] # target[t]
        BY <1>5, <3>3 DEF LocksInv, HoldersHaveFile, Dropping, Insert
      <4>3. registry'[ProcessOf[u]] \subseteq registry[ProcessOf[u]] \cup {target[t]}
        BY <1>5 DEF LocksInv, TypeOK, Insert
      <4> QED BY <4>1, <4>2, <4>3 DEF LocksInv, Dropping
    <3> QED BY <3>2, <3>3
  <2>7. Registered'
    BY <2>1, <1>5 DEF LocksInv, TypeOK, Registered, HoldersHaveFile, Dropping, Insert, Goto
  <2>8. EntryHasHolder'
    BY <2>1, <1>5 DEF LocksInv, TypeOK, EntryHasHolder, HoldersHaveFile, Dropping, FileHasHolder, Sorted, Acquiring, Insert, Goto
  <2> QED BY <2>2, <2>3, <2>4, <2>5, <2>6, <2>7, <2>8 DEF LocksInv
<1>6. ASSUME NEW t \in Threads, NEW r \in Resources, Unregister(t, r) PROVE LocksInv'
  <2>1. TypeOK'
    BY <1>6 DEF LocksInv, TypeOK, Labels, Sorted, Acquiring, Dropping, Unregister, Goto
  <2>2. Sorted'
    BY <1>6 DEF LocksInv, TypeOK, Sorted, Acquiring, Dropping, Unregister, Goto
  <2>3. HoldersHaveFile'
    BY <1>6 DEF LocksInv, TypeOK, HoldersHaveFile, FileHasHolder, Sorted, Acquiring, Dropping, Unregister, Goto
  <2>4. FileHasHolder'
    BY <1>6 DEF LocksInv, TypeOK, FileHasHolder, HoldersHaveFile, Dropping, Sorted, Acquiring, Unregister, Goto
  <2>5. Dropping'
    BY <1>6 DEF LocksInv, TypeOK, Dropping, HoldersHaveFile, Sorted, Acquiring, Unregister, Goto
  <2>6. Registered'
    BY <1>6 DEF LocksInv, TypeOK, Registered, HoldersHaveFile, Dropping, Unregister, Goto
  <2>7. EntryHasHolder'
    BY <1>6 DEF LocksInv, TypeOK, EntryHasHolder, HoldersHaveFile, Dropping, FileHasHolder, Sorted, Acquiring, Unregister, Goto
  <2> QED BY <2>1, <2>2, <2>3, <2>4, <2>5, <2>6, <2>7 DEF LocksInv
<1>7. ASSUME NEW t \in Threads, Unlock(t) PROVE LocksInv'
  <2>1. TypeOK'
    BY <1>7 DEF LocksInv, TypeOK, Labels, Sorted, Acquiring, Dropping, Unlock, Goto
  <2>2. Sorted'
    BY <1>7 DEF LocksInv, TypeOK, Sorted, Acquiring, Dropping, Unlock, Goto
  <2>3. HoldersHaveFile'
    <3> SUFFICES ASSUME NEW u \in Threads
                 PROVE  /\ \A r \in held'[u] : file'[r] = u
                        /\ pc'[u] = "insert" => file'[target'[u]] = u
      BY DEF HoldersHaveFile
    <3>1. target[t] \in Resources /\ file[target[t]] = t
      BY <1>7 DEF LocksInv, TypeOK, HoldersHaveFile, Dropping, Unlock
    <3>2. file' = [file EXCEPT ![target[t]] = Free] /\ held'[t] = held[t] \ {target[t]}
      BY <1>7 DEF LocksInv, TypeOK, Unlock
    <3>3. CASE u = t
      BY <1>7, <3>1, <3>2, <3>3 DEF LocksInv, TypeOK, HoldersHaveFile, Unlock, Goto
    <3>4. CASE u # t
      <4>1. pc'[u] = pc[u] /\ target'[u] = target[u] /\ held'[u] = held[u]
        BY <1>7, <3>4 DEF LocksInv, TypeOK, Unlock, Goto
      <4>2. \A r \in held[u] : r \in Resources /\ file[r] = u /\ r # target[t]
        BY <3>1, <3>4 DEF LocksInv, TypeOK, HoldersHaveFile
      <4>3. pc[u] = "insert" =>
              target[u] \in Resources /\ file[target[u]] = u /\ target[u] # target[t]
        BY <3>1, <3>4 DEF LocksInv, TypeOK, HoldersHaveFile, Sorted, Acquiring
      <4> QED BY <3>2, <4>1, <4>2, <4>3 DEF LocksInv, TypeOK
    <3> QED BY <3>3, <3>4
  <2>4. FileHasHolder'
    BY <1>7 DEF LocksInv, TypeOK, FileHasHolder, HoldersHaveFile, Dropping, Sorted, Acquiring, Unlock, Goto
  <2>5. Dropping'
    BY <1>7 DEF LocksInv, TypeOK, Dropping, HoldersHaveFile, Sorted, Acquiring, Unlock, Goto
  <2>6. Registered'
    BY <1>7 DEF LocksInv, TypeOK, Registered, HoldersHaveFile, Dropping, Unlock, Goto
  <2>7. EntryHasHolder'
    BY <1>7 DEF LocksInv, TypeOK, EntryHasHolder, HoldersHaveFile, Dropping, FileHasHolder, Sorted, Acquiring, Unlock, Goto
  <2> QED BY <2>1, <2>2, <2>3, <2>4, <2>5, <2>6, <2>7 DEF LocksInv
<1>8. ASSUME NEW t \in Threads, Return(t) PROVE LocksInv'
  <2>1. TypeOK'
    BY <1>8 DEF LocksInv, TypeOK, Labels, Sorted, Acquiring, Dropping, Return, Goto
  <2>2. Sorted'
    BY <1>8 DEF LocksInv, TypeOK, Sorted, Acquiring, Dropping, Return, Goto
  <2>3. HoldersHaveFile'
    BY <1>8 DEF LocksInv, TypeOK, HoldersHaveFile, FileHasHolder, Sorted, Acquiring, Dropping, Return, Goto
  <2>4. FileHasHolder'
    BY <1>8 DEF LocksInv, TypeOK, FileHasHolder, HoldersHaveFile, Dropping, Sorted, Acquiring, Return, Goto
  <2>5. Dropping'
    BY <1>8 DEF LocksInv, TypeOK, Dropping, HoldersHaveFile, Sorted, Acquiring, Return, Goto
  <2>6. Registered'
    BY <1>8 DEF LocksInv, TypeOK, Registered, HoldersHaveFile, Dropping, Return, Goto
  <2>7. EntryHasHolder'
    BY <1>8 DEF LocksInv, TypeOK, EntryHasHolder, HoldersHaveFile, Dropping, FileHasHolder, Sorted, Acquiring, Return, Goto
  <2> QED BY <2>1, <2>2, <2>3, <2>4, <2>5, <2>6, <2>7 DEF LocksInv
<1>9. ASSUME NEW p \in Processes, Crash(p) PROVE LocksInv'
  <2>1. TypeOK'
    BY <1>9 DEF LocksInv, TypeOK, Labels, Sorted, Acquiring, Dropping, Crash
  <2>2. Sorted'
    BY <1>9 DEF LocksInv, TypeOK, Sorted, Acquiring, Dropping, Crash
  <2>3. HoldersHaveFile'
    BY <1>9 DEF LocksInv, TypeOK, HoldersHaveFile, FileHasHolder, Sorted, Acquiring, Dropping, Crash
  <2>4. FileHasHolder'
    BY <1>9 DEF LocksInv, TypeOK, FileHasHolder, HoldersHaveFile, Dropping, Sorted, Acquiring, Crash
  <2>5. Dropping'
    BY <1>9 DEF LocksInv, TypeOK, Dropping, HoldersHaveFile, Sorted, Acquiring, Crash
  <2>6. Registered'
    <3> SUFFICES ASSUME NEW u \in Threads, NEW r \in held'[u]
                 PROVE  (pc'[u] = "unlock" /\ target'[u] = r) \/ r \in registry'[ProcessOf[u]]
      BY DEF Registered
    <3>1. ProcessOf[u] # p /\ held'[u] = held[u]
      BY <1>9 DEF Crash
    <3>2. pc'[u] = pc[u] /\ target'[u] = target[u]
      BY <1>9, <3>1 DEF Crash
    <3>3. registry'[ProcessOf[u]] = registry[ProcessOf[u]]
      BY <1>9, <3>1 DEF LocksInv, TypeOK, Crash
    <3> QED BY <3>1, <3>2, <3>3 DEF LocksInv, Registered
  <2>7. EntryHasHolder'
    BY <1>9 DEF LocksInv, TypeOK, EntryHasHolder, HoldersHaveFile, Dropping, FileHasHolder, Sorted, Acquiring, Crash
  <2> QED BY <2>1, <2>2, <2>3, <2>4, <2>5, <2>6, <2>7 DEF LocksInv
<1>10. CASE UNCHANGED vars
  BY <1>10 DEF vars, LocksInv, TypeOK, Sorted, Acquiring, HoldersHaveFile, FileHasHolder, Dropping,
    Registered, EntryHasHolder
<1> QED BY <1>1, <1>2, <1>3, <1>4, <1>5, <1>6, <1>7, <1>8, <1>9, <1>10 DEF Next

(***************************************************************************)
(* Every variable of the lock protocol keeps its type.                     *)
(***************************************************************************)
THEOREM LocksTypeCorrect == Spec => []TypeOK
<1>1. LocksInv => TypeOK
  BY DEF LocksInv
<1> QED BY LocksInit, LocksNext, <1>1, PTL DEF Spec

(***************************************************************************)
(* However many threads and processes there are and however they crash, a  *)
(* ResourceLock is exclusive.                                              *)
(***************************************************************************)
THEOREM LocksExclusive == Spec => []Exclusive
<1>1. LocksInv => Exclusive
  BY DEF LocksInv, HoldersHaveFile, Exclusive
<1> QED BY LocksInit, LocksNext, <1>1, PTL DEF Spec

(***************************************************************************)
(* The registry of every process names exactly the locks its threads hold. *)
(***************************************************************************)
THEOREM LocksRegistryAccurate == Spec => []RegistryAccurate
<1>1. LocksInv => RegistryAccurate
  BY DEF LocksInv, Registered, EntryHasHolder, RegistryAccurate
<1> QED BY LocksInit, LocksNext, <1>1, PTL DEF Spec

(***************************************************************************)
(* A thread waits only for a thread whose next lock is a later one.        *)
(***************************************************************************)
LEMMA WaitIncreases ==
    ASSUME LocksInv, NEW t \in Threads, NEW u \in Threads, WaitsFor(t, u)
    PROVE  target[t] \in Resources /\ target[u] \in Resources /\ target[t] < target[u]
<1>1. target[t] \in Resources /\ target[u] \in todo[u] /\ target[u] \in Resources
  BY DEF LocksInv, TypeOK, Sorted, Acquiring, WaitsFor, Waiting
<1>2. target[t] \in held[u]
  BY <1>1 DEF LocksInv, FileHasHolder, WaitsFor, Waiting
<1> QED BY <1>1, <1>2 DEF LocksInv, Sorted, Acquiring, WaitsFor, Waiting

(***************************************************************************)
(* acquire_all's order excludes deadlock: in every set of threads, the one *)
(* that asks for the last lock waits for none of the others.               *)
(***************************************************************************)
THEOREM LocksNoCircularWait == Spec => []NoCircularWait
<1>1. LocksInv => NoCircularWait
  <2> SUFFICES ASSUME LocksInv, NEW S \in SUBSET Threads, S # {}
               PROVE  \E t \in S : \A u \in S : ~WaitsFor(t, u)
    BY DEF NoCircularWait
  <2> DEFINE Above(t) == {r \in Resources : target[t] < r}
             T == {Above(t) : t \in S}
  <2>1. IsWellFoundedOn(StrictSubsetOrdering(Resources), SUBSET Resources)
    BY LocksAssumption, FS_StrictSubsetOrderingWellFounded, FS_FiniteSubsetsOfFinite
  <2>2. T \subseteq SUBSET Resources /\ T # {}
    OBVIOUS
  <2>3. PICK B \in T : \A C \in T : ~(<<C, B>> \in StrictSubsetOrdering(Resources))
    <3> HIDE DEF T
    <3> QED BY <2>1, <2>2, WFMin
  <2>4. PICK t \in S : B = Above(t)
    OBVIOUS
  <2>5. ASSUME NEW u \in S, WaitsFor(t, u) PROVE FALSE
    <3>1. target[t] \in Resources /\ target[u] \in Resources /\ target[t] < target[u]
      BY <2>5, WaitIncreases
    <3>2. \A r \in Resources : r \in Nat
      BY LocksAssumption
    <3>3. Above(u) \subseteq Above(t) /\ target[u] \in Above(t) /\ target[u] \notin Above(u)
      BY <3>1, <3>2
    <3>4. <<Above(u), Above(t)>> \in StrictSubsetOrdering(Resources)
      BY <3>3 DEF StrictSubsetOrdering
    <3> QED BY <3>4, <2>3, <2>4
  <2> QED BY <2>5
<1> QED BY LocksInit, LocksNext, <1>1, PTL DEF Spec
=============================================================================
