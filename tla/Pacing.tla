------------------------------- MODULE Pacing -------------------------------
(***************************************************************************)
(* When the Enforce reconciler passes over a resource again                *)
(* (src/src/reconciliation.rs): the schedule of its pending entry, the     *)
(* backoff after errors and the circuit breaker on rebases. Reconciler has *)
(* the threads and the maps; this module has the clock. Times are counted  *)
(* down to, or up from, the present.                                       *)
(***************************************************************************)
EXTENDS Naturals, SequencesExt

CONSTANTS
    ErrorRetry, UnstableRetry, IdentityRetry, MaxErrorRetry,
    MaxShift,     \* how often the delay doubles at most
    MaxErrors,    \* where consecutive_errors saturates
    BreakerWindow, BreakerThreshold, BreakerCooldown

VARIABLES
    entry,        \* the entry in Reconciler::pending: due in wait, after errors
    attempts,     \* BreakerState: the ages of the rebases let through
    open,         \* how long the breaker stays open
    busy, again,  \* a pass is under way, and was touched since it started
    idle,         \* history: how long ago the last pass ended
    gap, owed,    \* history: the last delay after an error, the delay now due
    rebases       \* history: the ages of the last rebases

paceVars == <<entry, attempts, open, busy, again, idle, gap, owed, rebases>>

Least(a, b) == IF a < b THEN a ELSE b
Most(a, b) == IF a < b THEN b ELSE a

\* 250 ms doubled seven times exceeds 30 s: the cap is reached before the
\* exponent stops growing, and that before the counter saturates.
Tuned ==
    /\ {ErrorRetry, UnstableRetry, IdentityRetry, MaxErrorRetry, MaxShift, MaxErrors,
        BreakerWindow, BreakerThreshold, BreakerCooldown} \subseteq Nat
    /\ ErrorRetry > 0 /\ ErrorRetry <= MaxErrorRetry
    /\ ErrorRetry * 2^MaxShift >= MaxErrorRetry /\ MaxErrors > MaxShift
    /\ BreakerThreshold > 0 /\ BreakerCooldown <= BreakerWindow

Absent == [in |-> FALSE, wait |-> 0, errors |-> 0]
Ages == BreakerWindow + 1   \* how far ages are told apart
Horizon == Most(MaxErrorRetry, Most(IdentityRetry, Most(BreakerCooldown, UnstableRetry)))

Init ==
    /\ entry = Absent /\ attempts = <<>> /\ open = 0 /\ busy = FALSE /\ again = FALSE
    /\ idle = 0 /\ gap = 0 /\ owed = 0 /\ rebases = <<>>

-----------------------------------------------------------------------------
\* Mutant: nothing caps the delay.
BackoffUncapped(errors) == ErrorRetry * 2^Least(errors - 1, MaxShift)

Backoff(errors) == Least(ErrorRetry * 2^Least(errors - 1, MaxShift), MaxErrorRetry)

\* defer_at: an entry is only ever put off.
DeferAt(e, delay, error) ==
    LET errors == IF error THEN Least(e.errors + 1, MaxErrors) ELSE 0
        later == IF error THEN Backoff(errors) ELSE delay
    IN [in |-> TRUE, wait |-> Most(e.wait, later), errors |-> errors]

CompleteUnlessTouched(e) == IF again THEN [e EXCEPT !.wait = 0, !.errors = 0] ELSE Absent

Aged(ages) == [i \in DOMAIN ages |-> Least(ages[i] + 1, Ages)]

\* The front is dropped for as long as it is older than the window.
Recent ==
    LET old == CHOOSE n \in 0..Len(attempts) :
                   /\ \A i \in 1..n : attempts[i] > BreakerWindow
                   /\ n < Len(attempts) => attempts[n + 1] <= BreakerWindow
    IN SubSeq(attempts, old + 1, Len(attempts))

\* Mutant: one rebase too many.
TrippedLate == Len(Recent) > BreakerThreshold

Tripped == Len(Recent) >= BreakerThreshold

-----------------------------------------------------------------------------
\* Mutant: an event makes the resource due.
TouchNow ==
    /\ entry' = [entry EXCEPT !.in = TRUE, !.wait = 0] /\ again' = busy
    /\ UNCHANGED <<attempts, open, busy, idle, gap, owed, rebases>>

\* An event keeps the schedule of a pending entry.
Touch ==
    /\ entry' = [entry EXCEPT !.in = TRUE] /\ again' = busy
    /\ UNCHANGED <<attempts, open, busy, idle, gap, owed, rebases>>

\* The worker finds the entry due.
Due ==
    /\ ~busy /\ entry.in /\ entry.wait = 0
    /\ busy' = TRUE /\ again' = FALSE
    /\ UNCHANGED <<entry, attempts, open, idle, gap, owed, rebases>>

EndsWith(e, delay, error) ==
    /\ busy /\ busy' = FALSE /\ again' = FALSE /\ idle' = 0
    /\ entry' = e
    /\ gap' = IF ~error THEN 0 ELSE IF gap = 0 THEN ErrorRetry ELSE Least(2 * gap, MaxErrorRetry)
    /\ owed' = IF error THEN gap' ELSE delay

Defers(delay, error) ==
    /\ EndsWith(DeferAt(entry, delay, error), delay, error)
    /\ UNCHANGED <<attempts, open, rebases>>

Fails == Defers(ErrorRetry, TRUE)
Unstable == Defers(UnstableRetry, FALSE)
Ambiguous == Defers(IdentityRetry, FALSE)

\* The state is ours, or was and is applied again over a known base.
Settles ==
    /\ EndsWith(CompleteUnlessTouched(entry), 0, FALSE)
    /\ UNCHANGED <<attempts, open, rebases>>

\* breaker_gate lets a rebase onto a new base through; it succeeds or fails.
Rebase ==
    /\ open = 0 /\ ~Tripped
    /\ attempts' = Append(Recent, 0) /\ UNCHANGED open
    /\ rebases' = Append(IF Len(rebases) > BreakerThreshold THEN Tail(rebases) ELSE rebases, 0)
    /\ \/ EndsWith(CompleteUnlessTouched(entry), 0, FALSE)
       \/ EndsWith(DeferAt(entry, ErrorRetry, TRUE), ErrorRetry, TRUE)

\* An open breaker defers the pass for the rest of the cooldown; the pass then
\* counts as unstable.
Blocked ==
    LET left == IF open > 0 THEN open ELSE BreakerCooldown
        e == DeferAt(entry, left, FALSE)
    IN /\ open > 0 \/ Tripped
       /\ open' = left
       /\ attempts' = IF open > 0 THEN attempts ELSE <<>>
       /\ EndsWith(DeferAt(e, UnstableRetry, FALSE), left, FALSE)
       /\ UNCHANGED rebases

\* unregister_active: the lease or its resource is gone; the entry and the
\* breaker go, and the next lease starts afresh.
Unregister ==
    /\ entry' = Absent /\ attempts' = <<>> /\ open' = 0 /\ busy' = FALSE /\ again' = FALSE
    /\ idle' = 0 /\ gap' = 0 /\ owed' = 0 /\ rebases' = <<>>

Tick ==
    /\ entry' = [entry EXCEPT !.wait = Most(@, 1) - 1]
    /\ attempts' = Aged(attempts) /\ rebases' = Aged(rebases)
    /\ open' = Most(open, 1) - 1
    /\ idle' = IF busy THEN idle ELSE Least(idle + 1, Horizon)
    /\ UNCHANGED <<busy, again, gap, owed>>

Next ==
    \/ Touch \/ Due \/ Fails \/ Unstable \/ Ambiguous \/ Settles \/ Rebase \/ Blocked
    \/ Unregister \/ Tick

Spec == Init /\ [][Next]_paceVars

-----------------------------------------------------------------------------
(***************************************************************************)
(* However many errors in a row, a pending resource is due again within    *)
(* the longest of the retry delays.                                        *)
(***************************************************************************)
RetryBounded == entry.wait <= Horizon

(***************************************************************************)
(* "Deferral windows (rate limit, circuit breaker, error backoff) are      *)
(* never bypassed by new events" (src/src/reconciliation.rs): the next     *)
(* pass keeps the distance that the outcome of the last one asks for, and  *)
(* that doubles with every error in a row up to MAX_ERROR_RETRY.           *)
(***************************************************************************)
Spaced == [][~busy /\ busy' => idle >= owed]_paceVars

(***************************************************************************)
(* "A feedback-loop circuit breaker bounds rebase attempts per resource"   *)
(* (src/src/reconciliation.rs): between a rebase and the one that comes    *)
(* BREAKER_THRESHOLD later at least the cooldown passes.                   *)
(***************************************************************************)
BreakerBounds ==
    Len(rebases) > BreakerThreshold /\ Last(rebases) = 0 => rebases[1] >= BreakerCooldown
=============================================================================
