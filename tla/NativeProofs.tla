----------------------------- MODULE NativeProofs -----------------------------
(***************************************************************************)
(* Proofs about one bound mutation of a native backend, for every backend, *)
(* request, reading and sequence of foreign writers: what runs after the   *)
(* freshness check is sound, a restoration gives back the state the        *)
(* mutation found, what the program does not manage is left as it was, no  *)
(* NRPT rule is left half written, resolv.conf is written directly only    *)
(* where nothing else manages it, and after an apply what the native form  *)
(* keeps of the plan is reported.                                          *)
(*                                                                         *)
(* The proofs go backend by backend: first the facts of the call, the      *)
(* reading and the comparison that all backends share, then for each       *)
(* backend its effects, its readings and what its state obeys, then what   *)
(* the native form of a plan tells of it, and at last the theorems.        *)
(***************************************************************************)
EXTENDS NativeHost, FiniteSetTheorems, WellFoundedInduction, TLAPS

ResourceFields == {"inc", "up", "id", "dns", "rest"}
CallFields ==
    {"running", "op", "inc", "expected", "plan", "target", "goal", "guarded", "confirmed",
     "wrote", "made", "disturbed", "answer", "produced"}

\* r is a record with these fields.
Rec(r, fields) == r = [f \in fields |-> r[f]]

Shapes ==
    /\ Rec(native, ResourceFields) /\ Rec(call, CallFields)
    /\ Rec(loc, {"cur", "res"}) /\ Rec(lease, {"base", "inc", "evidence"})
    /\ call.running \in BOOLEAN /\ call.confirmed \in BOOLEAN /\ call.wrote \in BOOLEAN
    /\ call.disturbed \in BOOLEAN /\ call.guarded \in BOOLEAN
    /\ calls \in 0..MaxCalls /\ events \in Nat

\* Where no bound call is under way.
Observing == {"ob.ns", "ob.domains", "ob.route", "ob.status", "ob.4", "ob.6"}
Resting == {"idle"} \cup Observing

\* Before the expected state is confirmed, and before the first native write.
Checking == {"status", "activation", "baseline", "read", "read.domains", "read.route", "read6",
             "compare", "live"}
Ready == {"restat", "write", "set.dns", "stage", "verify", "usable", "publish", "remove",
          "prepare", "command", "create", "existing", "delete", "set"}

\* What the place in a call says of it.
Phases ==
    /\ call.running <=> pc \notin Resting
    /\ call.running => call.op \in {"apply", "restore"} /\ call.answer = "none"
    /\ call.op = "none" => call = NoCall
    /\ kind = "detecting" \/ pc \in Observing => call.op = "none"
    /\ kind = "detecting" => pc = "idle" /\ lease = NoLease
    /\ pc \in Checking \cup Ready => ~call.wrote
    /\ call.running /\ pc \notin Checking => call.confirmed
    /\ pc = "return" /\ loc.res = "external" => ~call.wrote

\* A call that nobody disturbed found what it expects, and its own writes are all
\* there is to see of it.
Sound ==
    call.running /\ ~call.disturbed =>
        /\ call.wrote => call.made = Snap
        /\ call.confirmed /\ ~call.wrote => native.dns = call.expected.dns
        /\ pc \notin {"status", "activation"} => native.inc = call.inc
        /\ pc = "return" /\ loc.res = "ok" => native.dns \in call.goal

\* A call is bound to the resource that the lease was taken on.
Bound == call.op # "none" => lease # NoLease /\ call.inc = lease.inc

\* What the engine observed is what stood when it did, and stays what it gives
\* back, unless another program acts. A restored file keeps its mode on BSD.
Faithful ==
    /\ call.disturbed => moved
    /\ lease.evidence # NoState => lease.base # NoState /\ pc \notin Observing
    /\ call.op = "restore" => lease.base # NoState /\ call.target = lease.base
    /\ call.op = "restore" /\ kind # "bsd" => call.goal = {lease.base.dns}
    /\ ~moved =>
          /\ lease # NoLease \/ pc \in Observing => native.rest = first.rest
          /\ pc \in Observing => native.dns = first.dns
          /\ lease.base # NoState => lease.base.dns = first.dns
          /\ call.op = "restore" /\ call.answer = "Performed" /\ kind # "bsd" =>
                native.dns = lease.base.dns

Core == Shapes /\ Phases /\ Sound /\ Bound /\ Faithful

\* No step of osdns changes what is not its own.
Spared ==
    kind # "detecting" /\ events' = events /\ (call.disturbed => call.guarded) =>
        /\ native'.rest = native.rest
        /\ Occupied => native'.dns = native.dns /\ native'.up = native.up

\* A step of the contract, or one it does not see, that spares what others own.
Kept == [Boundary!Next]_(Boundary!vars) /\ Spared

LEMMA Constants == MaxCalls \in Nat /\ MaxEvents \in Nat /\ MaxFaults \in Nat
BY BoundCallAssumption

LEMMA NoCallIs ==
    /\ Rec(NoCall, CallFields) /\ NoCall.running = FALSE /\ NoCall.op = "none"
    /\ NoCall.wrote = FALSE /\ NoCall.confirmed = FALSE /\ NoCall.disturbed = FALSE
    /\ NoCall.guarded = FALSE /\ NoCall.answer = "none" /\ NoCall.produced = NoState
BY DEF Rec, NoCall, CallFields

LEMMA NoLeaseIs ==
    /\ Rec(NoLease, {"base", "inc", "evidence"}) /\ NoLease.base = NoState
    /\ NoLease.inc = 0 /\ NoLease.evidence = NoState
BY DEF Rec, NoLease

LEMMA NoLocalsIs == Rec(NoLocals, {"cur", "res"}) /\ NoLocals.res = "none" /\ NoLocals.cur = <<>>
BY DEF Rec, NoLocals

LEMMA CoreInit == Init => Core
<1> SUFFICES ASSUME Init PROVE Core
  OBVIOUS
<1>1. Rec(native, ResourceFields)
  BY DEF Init, NoResource, Rec, ResourceFields
<1>2. /\ call = NoCall /\ loc = NoLocals /\ lease = NoLease /\ pc = "idle" /\ calls = 0
      /\ events = 0 /\ moved = FALSE
  BY DEF Init, CallInit
<1>3. Shapes
  <2>1. /\ call.running \in BOOLEAN /\ call.confirmed \in BOOLEAN /\ call.wrote \in BOOLEAN
        /\ call.disturbed \in BOOLEAN /\ call.guarded \in BOOLEAN
    BY <1>2, NoCallIs
  <2>2. calls \in 0..MaxCalls /\ events \in Nat
    BY <1>2, Constants
  <2> QED BY <1>1, <1>2, <2>1, <2>2, NoCallIs, NoLeaseIs, NoLocalsIs DEF Shapes
<1>4. Phases
  BY <1>2, NoCallIs DEF Phases, Resting, Observing, Checking, Ready
<1>5. Faithful
  BY <1>2, NoCallIs, NoLeaseIs DEF Faithful, Observing
<1> QED BY <1>2, <1>3, <1>4, <1>5, NoCallIs DEF Core, Sound, Bound

LEMMA Stutters ==
    ASSUME UNCHANGED <<native, call>>
    PROVE  Kept
BY DEF Kept, Boundary!vars, Spared

LEMMA Forgets ==
    ASSUME native' = native, call' = NoCall
    PROVE  Kept
BY NoCallIs DEF Kept, Boundary!Next, Boundary!Forget, Spared

\* The call is over.
LEMMA AnswerStep ==
    ASSUME Core, call.running, native' = native, UNCHANGED <<kind, lease, first, moved, calls, events>>,
           NEW a \in {"Rejected", "Performed", "Indeterminate"}, NEW s, Answer(a, s),
           a = "Rejected" => ~call.wrote /\ s = NoState,
           a = "Performed" =>
              pc \notin Checking /\ (call.disturbed \/ native.dns \in call.goal),
           Boundary!Names(s)
    PROVE  Core' /\ Kept
<1>1. /\ Rec(call', CallFields) /\ call'.running = FALSE /\ call'.answer = a /\ call'.produced = s
      /\ \A f \in CallFields \ {"running", "answer", "produced"} : call'[f] = call[f]
  BY DEF Answer, CallFields, Rec, Core, Shapes
<1>2. pc' = "idle" /\ loc' = NoLocals
  BY DEF Answer
<1>3. /\ call'.op = call.op /\ call'.inc = call.inc /\ call'.confirmed = call.confirmed
      /\ call'.wrote = call.wrote /\ call'.disturbed = call.disturbed
      /\ call'.guarded = call.guarded
  BY <1>1 DEF CallFields
<1>4. Core'
  <2>1. (Shapes /\ Phases /\ Sound /\ Bound)'
    BY <1>1, <1>2, <1>3, NoLocalsIs
       DEF Core, Shapes, Phases, Sound, Bound, Resting, Observing, Checking, Ready
  <2>2. call'.goal = call.goal /\ call'.target = call.target
    BY <1>1 DEF CallFields
  <2>3. Faithful'
    BY <1>1, <1>2, <1>3, <2>2 DEF Core, Faithful, Observing
  <2> QED BY <2>1, <2>3 DEF Core
<1>5. Boundary!Answer
  <2>1. call' = [call EXCEPT !.running = FALSE, !.answer = call'.answer, !.produced = call'.produced]
    BY <1>1 DEF Answer
  <2>2. a = "Performed" => call.disturbed \/ Boundary!Effect.dns \in call.goal
    <3>1. SUFFICES ASSUME a = "Performed", ~call.disturbed PROVE Boundary!Effect.dns \in call.goal
      OBVIOUS
    <3>2. CASE call.wrote
      BY <3>1, <3>2 DEF Core, Sound, Boundary!Effect, Snap
    <3>3. CASE ~call.wrote
      BY <3>1, <3>3 DEF Core, Sound, Phases, Boundary!Effect
    <3> QED BY <3>2, <3>3
  <2> QED BY <1>1, <2>1, <2>2 DEF Boundary!Answer
<1> QED BY <1>4, <1>5 DEF Kept, Boundary!Next, Spared

\* The expected state is found.
LEMMA CheckStep ==
    ASSUME Core, pc \in Checking \ {"activation"}, NEW to \in Ready, Confirmed(to),
           UNCHANGED <<kind, native, lease, first, moved, calls, events>>,
           call.disturbed \/ (native.inc = call.inc /\ native.dns = call.expected.dns)
    PROVE  Core' /\ Kept
<1>1. /\ Rec(call', CallFields) /\ call'.confirmed = TRUE
      /\ \A f \in CallFields \ {"confirmed"} : call'[f] = call[f]
  BY DEF Confirmed, CallFields, Rec, Core, Shapes
<1>2. /\ call'.op = call.op /\ call'.inc = call.inc /\ call'.expected = call.expected
      /\ call'.goal = call.goal /\ call'.running = call.running
      /\ call'.wrote = call.wrote /\ call'.disturbed = call.disturbed
      /\ call'.guarded = call.guarded /\ call'.target = call.target
      /\ call'.answer = call.answer
  BY <1>1 DEF CallFields
<1>3. call.running /\ pc' \notin Resting /\ pc' \notin Checking /\ pc' # "return" /\ ~call.wrote
  BY DEF Core, Phases, Resting, Observing, Checking, Ready, Confirmed
<1>4. Core'
  <2>1. Shapes' /\ Bound'
    BY <1>1, <1>2 DEF Core, Shapes, Bound, Confirmed
  <2>2. Phases'
    BY <1>1, <1>2, <1>3 DEF Core, Phases, Observing, Resting
  <2>3. Sound'
    BY <1>1, <1>2, <1>3 DEF Core, Sound, Confirmed
  <2>4. Faithful'
    BY <1>2, <1>3 DEF Core, Faithful, Resting
  <2> QED BY <2>1, <2>2, <2>3, <2>4 DEF Core
<1>5. Boundary!Check
  BY <1>3 DEF Boundary!Check, Boundary!LooksExpected, Confirmed
<1> QED BY <1>4, <1>5 DEF Kept, Boundary!Next, Spared

\* A native write.
LEMMA WriteStep ==
    ASSUME Core, call.running, call.confirmed, NEW resource, Wrote(resource),
           Rec(resource, ResourceFields), resource.inc = native.inc,
           Rec(loc', {"cur", "res"}), UNCHANGED <<kind, lease, first, moved, calls>>, events' = events,
           call.guarded => Boundary!AsExpected,
           (call.disturbed /\ ~call.guarded) \/ (resource.rest = native.rest /\ ~Occupied),
           pc' \notin Resting \cup Checking \cup Ready,
           pc \notin {"status", "activation"},
           pc' = "return" => loc'.res # "external",
           call.disturbed \/ (pc' = "return" /\ loc'.res = "ok" => resource.dns \in call.goal)
    PROVE  Core' /\ Kept
<1>1. /\ Rec(call', CallFields) /\ call'.wrote = TRUE
      /\ call'.made = [id |-> resource.id, dns |-> resource.dns]
      /\ \A f \in CallFields \ {"wrote", "made"} : call'[f] = call[f]
  BY DEF Wrote, CallFields, Rec, Core, Shapes
<1>2. /\ call'.op = call.op /\ call'.inc = call.inc /\ call'.confirmed = call.confirmed
      /\ call'.goal = call.goal /\ call'.running = call.running
      /\ call'.disturbed = call.disturbed /\ call'.guarded = call.guarded
      /\ call'.target = call.target /\ call'.answer = call.answer
  BY <1>1 DEF CallFields
<1>3. native' = resource
  BY DEF Wrote
<1>4. Core'
  <2>1. Shapes' /\ Bound'
    BY <1>1, <1>2, <1>3 DEF Core, Shapes, Bound
  <2>2. Phases'
    BY <1>1, <1>2, <1>3 DEF Core, Phases, Observing, Resting
  <2>3. Sound'
    BY <1>1, <1>2, <1>3 DEF Core, Sound, Snap
  <2>4. call.answer # "Performed"
    BY DEF Core, Phases
  <2>5. Faithful'
    BY <1>2, <1>3, <2>4 DEF Core, Faithful, Resting
  <2> QED BY <2>1, <2>2, <2>3, <2>5 DEF Core
<1>5. Boundary!Write
  BY <1>3 DEF Boundary!Write, Wrote
<1>6. Spared
  BY <1>3 DEF Spared
<1> QED BY <1>4, <1>5, <1>6 DEF Kept, Boundary!Next

\* A step within a call that neither writes nor confirms.
LEMMA QuietStep ==
    ASSUME Core, call.running, UNCHANGED <<kind, native, call, lease, first, moved, calls, events>>,
           Rec(loc', {"cur", "res"}), pc' \notin Resting,
           pc' \in Checking => pc \in Checking,
           pc' \in Ready => pc \in Ready,
           pc' \notin Checking => pc \notin Checking,
           pc \notin {"status", "activation"} \/ call.disturbed \/ native.inc = call.inc
              \/ pc' \in {"status", "activation"},
           pc' = "return" /\ loc'.res = "external" => ~call.wrote,
           pc' = "return" /\ loc'.res = "ok" => call.disturbed \/ native.dns \in call.goal
    PROVE  Core' /\ Kept
<1>1. Shapes' /\ Bound'
  BY DEF Core, Shapes, Bound
<1>2. Phases'
  BY DEF Core, Phases, Observing, Resting
<1>3. Sound'
  BY DEF Core, Sound, Snap
<1>4. Faithful'
  BY DEF Core, Faithful, Resting
<1> QED BY <1>1, <1>2, <1>3, <1>4, Stutters DEF Core

\* Another program acts.
LEMMA ForeignStep ==
    ASSUME Core, NEW resource, Foreign(resource), Rec(resource, ResourceFields),
           kind # "detecting"
    PROVE  Core' /\ Kept
<1>1. /\ Rec(call', CallFields) /\ call'.disturbed = (call.disturbed \/ call.running)
      /\ \A f \in CallFields \ {"disturbed"} : call'[f] = call[f]
  BY DEF Foreign, CallFields, Rec, Core, Shapes
<1>2. /\ call'.op = call.op /\ call'.inc = call.inc /\ call'.confirmed = call.confirmed
      /\ call'.running = call.running /\ call'.wrote = call.wrote /\ call'.guarded = call.guarded
      /\ call'.goal = call.goal /\ call'.target = call.target
  BY <1>1 DEF CallFields
<1>3. call.op = "none" => call' = NoCall
  <2> SUFFICES ASSUME call.op = "none" PROVE call' = NoCall
    OBVIOUS
  <2>1. call = NoCall
    BY DEF Core, Phases
  <2> QED BY <2>1, NoCallIs, <1>1 DEF Rec, CallFields
<1>4. Shapes' /\ Bound'
  BY <1>1, <1>2 DEF Core, Shapes, Bound, Foreign
<1>5. Phases'
  BY <1>1, <1>2, <1>3 DEF Core, Phases, Foreign
<1>6. Sound'
  BY <1>1, <1>2 DEF Core, Sound, Shapes
<1>7. Boundary!Other
  BY DEF Boundary!Other, Foreign
<1>8. Faithful'
  BY <1>2 DEF Core, Faithful, Foreign
<1>9. events' = events + 1 /\ events' # events
  BY DEF Foreign, Core, Shapes
<1> QED BY <1>4, <1>5, <1>6, <1>7, <1>8, <1>9 DEF Core, Kept, Boundary!Next, Spared

-----------------------------------------------------------------------------
(* The steps that the backends share. *)

LEMMA ObserveStep ==
    ASSUME Core, kind # "detecting", Observe \/ (\E to \in Observing : ObserveBegin(to))
    PROVE  Core' /\ Kept
<1>1. /\ pc = "idle" /\ lease = NoLease /\ calls < MaxCalls /\ calls' = calls + 1
      /\ UNCHANGED <<kind, native, call, events>>
  BY DEF Observe, ObserveBegin, Called
<1>2. call.op = "none" /\ call = NoCall
  BY <1>1 DEF Core, Bound, Phases
<1>3. Rec(lease', {"base", "inc", "evidence"})
  BY NoLeaseIs DEF Observe, ObserveBegin, Took, Rec
<1>4. Rec(loc', {"cur", "res"})
  BY NoLocalsIs DEF Observe, ObserveBegin, Core, Shapes
<1>5. Shapes'
  BY <1>1, <1>3, <1>4, Constants DEF Core, Shapes
<1>6. pc' \in Resting
  BY <1>1 DEF Observe, ObserveBegin, Resting
<1>7. Phases' /\ Sound' /\ Bound'
  BY <1>1, <1>2, <1>6, NoCallIs DEF Phases, Sound, Bound, Resting, Observing, Checking, Ready
<1>8. Faithful'
  <2>1. /\ first' = native /\ moved' = FALSE /\ lease'.evidence = NoState
        /\ lease'.base # NoState => lease'.base.dns = native.dns
    BY NoLeaseIs DEF Observe, ObserveBegin, Took, Snap, Rec
  <2> QED BY <1>1, <1>2, <2>1, NoCallIs DEF Faithful
<1> QED BY <1>1, <1>5, <1>7, <1>8, Stutters DEF Core

LEMMA ObservePartStep ==
    ASSUME Core, kind # "detecting", NEW from \in Observing, NEW fields, NEW to \in Observing,
           ObservePart(from, fields, to)
    PROVE  Core' /\ Kept
<1>1. call.op = "none" /\ call = NoCall
  BY DEF Core, Phases, ObservePart
<1>2. UNCHANGED <<kind, native, call, first, moved, calls, events>> /\ pc' \in Resting
      /\ pc = from
  BY DEF ObservePart, ObserveFailed, Faulty, bounds, Resting, hist
<1>3. Rec(loc', {"cur", "res"}) /\ Rec(lease', {"base", "inc", "evidence"})
  BY NoLocalsIs, NoLeaseIs DEF ObservePart, ObserveFailed, Core, Shapes, Rec
<1>4. Shapes'
  BY <1>2, <1>3 DEF Core, Shapes
<1>5. Phases' /\ Sound' /\ Bound'
  BY <1>1, <1>2, NoCallIs DEF Core, Phases, Sound, Bound, Resting, Observing, Checking, Ready
<1>6. lease' \in {lease, NoLease}
  BY DEF ObservePart, ObserveFailed, Faulty
<1>7. Faithful'
  BY <1>1, <1>2, <1>6, NoCallIs, NoLeaseIs DEF Core, Faithful
<1> QED BY <1>2, <1>4, <1>5, <1>7, Stutters DEF Core

LEMMA ObserveEndStep ==
    ASSUME Core, ObserveEnd, ~moved => loc.cur = native.dns
    PROVE  Core' /\ Kept
<1>1. call.op = "none" /\ call = NoCall
  BY DEF Core, Phases, ObserveEnd, Observing
<1>2. UNCHANGED <<kind, native, call, first, moved, calls, events>> /\ pc' = "idle"
      /\ pc = "ob.status"
  BY DEF ObserveEnd, bounds, hist
<1>3. Rec(loc', {"cur", "res"}) /\ Rec(lease', {"base", "inc", "evidence"})
  BY NoLocalsIs, NoLeaseIs DEF ObserveEnd, Core, Shapes, Rec
<1>4. kind # "detecting"
  BY DEF Core, Phases, ObserveEnd
<1>5. Shapes'
  BY <1>2, <1>3 DEF Core, Shapes
<1>6. Phases' /\ Sound' /\ Bound'
  BY <1>1, <1>2, <1>4, NoCallIs DEF Core, Phases, Sound, Bound, Resting, Observing, Checking, Ready
<1>7. \/ lease' = NoLease
      \/ lease'.evidence = lease.evidence /\ lease'.base.dns = loc.cur
  BY DEF ObserveEnd, Core, Shapes, Rec
<1>8. lease.evidence = NoState
  BY <1>2 DEF Core, Faithful, Observing
<1>9. Faithful'
  BY <1>1, <1>2, <1>7, <1>8, NoCallIs, NoLeaseIs DEF Core, Faithful, Observing
<1> QED BY <1>2, <1>5, <1>6, <1>9, Stutters DEF Core

\* What a new call says.
LEMMA BeginFields ==
    ASSUME NEW op, NEW expected, NEW plan, NEW target, NEW goal, NEW guarded,
           Begin(op, expected, plan, target, goal, guarded)
    PROVE  /\ Rec(call', CallFields) /\ call'.running = TRUE /\ call'.op = op
           /\ call'.inc = lease.inc /\ call'.expected = expected /\ call'.plan = plan
           /\ call'.target = target /\ call'.goal = goal /\ call'.guarded = guarded
           /\ call'.confirmed = FALSE /\ call'.wrote = FALSE /\ call'.disturbed = FALSE
           /\ call'.answer = "none" /\ call'.produced = NoState
BY DEF Begin, NoCall, Rec, CallFields

LEMMA BeginStep ==
    ASSUME Core, kind # "detecting", pc = "idle", lease # NoLease, Called,
           NEW op \in {"apply", "restore"}, NEW expected, NEW plan, NEW target, NEW goal,
           NEW guarded \in BOOLEAN,
           op = "restore" => /\ lease.base # NoState /\ target = lease.base
                             /\ kind # "bsd" => goal = {lease.base.dns},
           Begin(op, expected, plan, target, goal, guarded), UNCHANGED lease
    PROVE  Core' /\ Kept
<1>1. /\ Rec(call', CallFields) /\ call'.running = TRUE /\ call'.op = op
      /\ call'.inc = lease.inc /\ call'.guarded = guarded
      /\ call'.confirmed = FALSE /\ call'.wrote = FALSE /\ call'.disturbed = FALSE
      /\ call'.answer = "none" /\ call'.produced = NoState
      /\ call'.target = target /\ call'.goal = goal
  BY ZenonT(60), BeginFields
<1>2. /\ pc' = "status" /\ loc' = NoLocals /\ UNCHANGED <<kind, native, first, moved>>
      /\ calls' = calls + 1 /\ calls < MaxCalls /\ UNCHANGED <<events, faults>>
  BY DEF Begin, Called, hist
<1>3. Shapes'
  <2>1. /\ call'.running \in BOOLEAN /\ call'.confirmed \in BOOLEAN /\ call'.wrote \in BOOLEAN
        /\ call'.disturbed \in BOOLEAN /\ call'.guarded \in BOOLEAN
    BY <1>1
  <2>2. calls' \in 0..MaxCalls /\ events' \in Nat
    BY <1>2, Constants DEF Core, Shapes
  <2> QED BY <1>1, <1>2, <2>1, <2>2, NoLocalsIs DEF Core, Shapes
<1>4. Phases'
  BY <1>1, <1>2 DEF Phases, Resting, Observing, Checking, Ready
<1>5. Sound' /\ Bound'
  BY <1>1, <1>2 DEF Sound, Bound
<1>6. Boundary!Begin
  BY <1>1, <1>2 DEF Boundary!Begin, Core, Phases, Resting
<1>7. Faithful'
  BY <1>1, <1>2 DEF Core, Faithful, Observing
<1> QED BY <1>2, <1>3, <1>4, <1>5, <1>6, <1>7 DEF Core, Kept, Boundary!Next, Spared

LEMMA VerifyStep ==
    ASSUME Core, kind # "detecting", Verify
    PROVE  Core' /\ Kept
<1>1. /\ pc = "idle" /\ pc' = "idle" /\ UNCHANGED <<kind, native, first, moved, calls, events, loc>>
      /\ call.op = "apply" /\ lease.base # NoState
      /\ \/ call' = NoCall /\ lease' = NoLease
         \/ /\ call' = call /\ lease' # NoLease /\ lease'.inc = lease.inc
            /\ lease'.base = lease.base
  <2>1. /\ UNCHANGED <<kind, native, first, moved, calls, events, loc, pc>> /\ pc = "idle"
        /\ call.op = "apply" /\ lease.base # NoState
    BY DEF Verify, bounds, hist
  <2>2. \A e : LET l == [lease EXCEPT !.evidence = e] IN l.inc = lease.inc /\ l.base = lease.base
    BY DEF Core, Shapes, Rec
  <2>3. \/ call' = NoCall /\ lease' = NoLease
        \/ call' = call /\ lease' # NoLease /\ lease'.inc = lease.inc /\ lease'.base = lease.base
    <3>1. CASE lease' = NoLease
      BY <3>1, SMTT(60) DEF Verify
    <3>2. CASE lease' # NoLease
      <4>1. call' = call /\ \E e : lease' = [lease EXCEPT !.evidence = e]
        BY <3>2, SMTT(60) DEF Verify
      <4> QED BY <2>2, <3>2, <4>1
    <3> QED BY <3>1, <3>2
  <2> QED BY <2>1, <2>3
<1>2. Rec(lease', {"base", "inc", "evidence"})
  BY NoLeaseIs DEF Verify, Core, Shapes, Rec
<1>3. Shapes'
  BY <1>1, <1>2, NoCallIs DEF Core, Shapes
<1>4. Phases'
  BY <1>1, NoCallIs DEF Core, Phases, Resting, Observing, Checking, Ready
<1>5. ~call.running
  BY <1>1 DEF Core, Phases, Resting
<1>6. Sound' /\ Bound'
  BY <1>1, <1>5, NoCallIs DEF Core, Sound, Bound
<1>7. Kept
  BY <1>1, Stutters, Forgets
<1>8. Faithful'
  BY <1>1, NoCallIs, NoLeaseIs DEF Core, Faithful, Observing
<1> QED BY <1>3, <1>4, <1>6, <1>7, <1>8 DEF Core

LEMMA EndRestoreStep ==
    ASSUME Core, kind # "detecting", EndRestore
    PROVE  Core' /\ Kept
<1>1. /\ pc = "idle" /\ pc' = "idle" /\ UNCHANGED <<kind, native, first, moved, calls, events, loc>>
      /\ call' = NoCall /\ call.op = "restore"
  BY DEF EndRestore, bounds, hist
<1>2. Rec(lease', {"base", "inc", "evidence"})
  BY NoLeaseIs DEF EndRestore, Core, Shapes, Rec
<1>3. Shapes'
  BY <1>1, <1>2, NoCallIs DEF Core, Shapes
<1>4. Phases' /\ Sound' /\ Bound'
  BY <1>1, NoCallIs DEF Phases, Sound, Bound, Resting, Observing, Checking, Ready
<1>5. lease' = NoLease \/ lease'.base = lease.base
  BY DEF EndRestore, Core, Shapes, Rec
<1>7. lease # NoLease
  BY <1>1 DEF Core, Bound
<1>6. Faithful'
  BY <1>1, <1>5, <1>7, NoCallIs, NoLeaseIs DEF Core, Faithful, Observing
<1> QED BY <1>1, <1>3, <1>4, <1>6, Forgets DEF Core

LEMMA CrashStep ==
    ASSUME Core, kind # "detecting", Crash
    PROVE  Core' /\ Kept
<1>1. /\ pc' = "idle" /\ UNCHANGED <<kind, native, first, moved, calls, events>>
      /\ loc' = NoLocals /\ call' = NoCall /\ lease' = NoLease
  BY DEF Crash, Faulty, hist
<1>2. Shapes'
  BY <1>1, NoLocalsIs, NoLeaseIs, NoCallIs DEF Core, Shapes
<1>3. Phases' /\ Sound' /\ Bound'
  BY <1>1, NoCallIs DEF Phases, Sound, Bound, Resting, Observing, Checking, Ready
<1>4. Faithful'
  BY <1>1, NoCallIs, NoLeaseIs DEF Core, Faithful, Observing
<1> QED BY <1>1, <1>2, <1>3, <1>4, Forgets DEF Core

\* A call rejected, or failed before it wrote.
LEMMA RejectStep ==
    ASSUME Core, pc \in Checking \cup Ready, Answer("Rejected", NoState),
           UNCHANGED <<kind, native, lease, first, moved, calls, events>>
    PROVE  Core' /\ Kept
<1>1. call.running /\ ~call.wrote
  BY DEF Core, Phases, Checking, Ready, Resting, Observing
<1> QED BY <1>1, AnswerStep DEF Boundary!Names

LEMMA CheckStatusStep ==
    ASSUME Core, NEW from \in {"status", "activation", "restat"},
           NEW to \in {"read", "baseline", "write"}, CheckStatus(from, to),
           to = "write" <=> from = "restat"
    PROVE  Core' /\ Kept
<1>1. UNCHANGED <<kind, native, lease, first, moved, calls, events>> /\ pc = from
  BY DEF CheckStatus, bounds, Faulty, hist
<1>2. CASE Answer("Rejected", NoState)
  BY <1>1, <1>2, RejectStep DEF Checking, Ready
<1>3. CASE StatusSame /\ Goto(to)
  <2>1. call.running /\ UNCHANGED <<call, loc>> /\ pc' = to /\ native.inc = call.inc
    BY <1>1, <1>3 DEF Core, Phases, Resting, Observing, Goto, StatusSame
  <2>2. Rec(loc', {"cur", "res"})
    BY <2>1 DEF Core, Shapes
  <2> QED BY <1>1, <2>1, <2>2, QuietStep DEF Checking, Ready, Resting, Observing
<1> QED BY <1>2, <1>3 DEF CheckStatus

LEMMA ExpectedStep ==
    ASSUME Core, pc \in Checking \ {"activation"}, NEW to \in Ready, NEW equal,
           CheckExpected(equal, to), UNCHANGED <<kind, native, lease, first, moved, calls, events>>,
           equal => call.disturbed \/ (native.inc = call.inc /\ native.dns = call.expected.dns)
    PROVE  Core' /\ Kept
BY RejectStep, CheckStep DEF CheckExpected

LEMMA CheckCurrentStep ==
    ASSUME Core, CheckCurrent("read", "restat")
    PROVE  Core' /\ Kept
<1>1. UNCHANGED <<kind, native, lease, first, moved, calls, events>> /\ pc = "read"
  BY DEF CheckCurrent, bounds, Faulty, hist
<1>2. call.running
  BY <1>1 DEF Core, Phases, Resting, Observing
<1>3. CASE Answer("Rejected", NoState)
  BY <1>1, <1>3, RejectStep DEF Checking
<1>4. CASE CheckExpected(native.dns = call.expected.dns, "restat")
  <2>1. call.disturbed \/ native.inc = call.inc
    BY <1>1, <1>2 DEF Core, Sound
  <2>2. CASE native.dns = call.expected.dns /\ Confirmed("restat")
    BY <1>1, <2>1, <2>2, CheckStep DEF Checking, Ready
  <2> QED BY <1>3, <1>4, <2>2 DEF CheckExpected
<1> QED BY <1>3, <1>4 DEF CheckCurrent

LEMMA ReadPartStep ==
    ASSUME Core, NEW from \in Checking \ {"status", "activation"}, NEW fields,
           NEW to \in Checking \ {"status", "activation"}, ReadPart(from, fields, to)
    PROVE  Core' /\ Kept
<1>1. UNCHANGED <<kind, native, lease, first, moved, calls, events>> /\ pc = from
  BY DEF ReadPart, bounds, Faulty, hist
<1>2. call.running
  BY <1>1 DEF Core, Phases, Resting, Observing, Checking
<1>3. CASE Answer("Rejected", NoState)
  BY <1>1, <1>3, RejectStep
<1>4. CASE /\ loc' = [loc EXCEPT !.cur = Filled(@, fields)]
           /\ pc' = to /\ UNCHANGED call
  <2>1. Rec(loc', {"cur", "res"})
    BY <1>4 DEF Core, Shapes, Rec
  <2>2. call.disturbed \/ native.inc = call.inc
    BY <1>1, <1>2 DEF Core, Sound
  <2> QED BY <1>1, <1>2, <1>4, <2>1, <2>2, QuietStep DEF Checking, Ready, Resting, Observing
<1> QED BY <1>3, <1>4 DEF ReadPart

LEMMA ComparePartsStep ==
    ASSUME Core, CompareParts,
           ~call.disturbed => loc.cur = native.dns
    PROVE  Core' /\ Kept
<1>1. UNCHANGED <<kind, native, lease, first, moved, calls, events>> /\ pc = "compare"
  BY DEF CompareParts, bounds, hist
<1>2. call.running /\ (call.disturbed \/ native.inc = call.inc)
  BY <1>1 DEF Core, Phases, Resting, Observing, Sound
<1>3. CASE Answer("Rejected", NoState)
  BY <1>1, <1>3, RejectStep DEF Checking
<1>4. CASE loc.cur = call.expected.dns /\ Confirmed("restat")
  <2>1. call.disturbed \/ (native.inc = call.inc /\ native.dns = call.expected.dns)
    BY <1>2, <1>4 DEF Core, Shapes
  <2> QED BY <1>1, <1>4, <2>1, CheckStep DEF Checking, Ready
<1> QED BY <1>3, <1>4 DEF CompareParts, CheckExpected

LEMMA ReturnStep ==
    ASSUME Core, Return
    PROVE  Core' /\ Kept
<1>1. UNCHANGED <<kind, native, lease, first, moved, calls, events>> /\ pc = "return"
  BY DEF Return, bounds, hist
<1>2. call.running /\ Boundary!Names(NoState)
  BY <1>1 DEF Core, Phases, Resting, Observing, Boundary!Names
<1>3. CASE loc.res = "ok" /\ Answer("Performed", NoState)
  <2>1. call.disturbed \/ native.dns \in call.goal
    BY <1>1, <1>2, <1>3 DEF Core, Sound
  <2> QED BY <1>1, <1>2, <1>3, <2>1, AnswerStep DEF Checking
<1>4. CASE loc.res = "external" /\ Answer("Rejected", NoState)
  <2>1. ~call.wrote
    BY <1>1, <1>4 DEF Core, Phases
  <2> QED BY <1>1, <1>2, <1>4, <2>1, AnswerStep
<1>5. CASE Answer("Indeterminate", NoState)
  BY <1>1, <1>2, <1>5, AnswerStep
<1> QED BY <1>3, <1>4, <1>5 DEF Return

\* A call goes to its end, or fails, without another native operation.
LEMMA ResultStep ==
    ASSUME Core, call.running, pc \notin Checking, NEW res, Result(res),
           UNCHANGED <<kind, native, call, lease, first, moved, calls, events>>,
           res = "external" => ~call.wrote,
           res = "ok" => call.disturbed \/ native.dns \in call.goal
    PROVE  Core' /\ Kept
<1>1. pc' = "return" /\ Rec(loc', {"cur", "res"}) /\ loc'.res = res
  BY DEF Result, Core, Shapes, Rec
<1>2. pc' \notin Resting \cup Checking \cup Ready
  BY <1>1 DEF Resting, Observing, Checking, Ready
<1>3. pc \notin {"status", "activation"} \/ pc' \in {"status", "activation"}
  BY DEF Checking
<1> QED BY <1>1, <1>2, <1>3, QuietStep

\* Beyond the first write.
Written == {"return", "set.domains", "set.route", "write6", "reread"}

LEMMA WritingStep ==
    ASSUME Core, call.running, call.confirmed, NEW from, pc \notin Checking, NEW resource,
           NEW to \in Written, Writing(from, resource, to),
           Rec(resource, ResourceFields), resource.inc = native.inc,
           call.guarded => Boundary!AsExpected,
           (call.disturbed /\ ~call.guarded) \/ (resource.rest = native.rest /\ ~Occupied),
           to = "return" => call.disturbed \/ resource.dns \in call.goal
    PROVE  Core' /\ Kept
<1>1. UNCHANGED <<kind, lease, first, moved, calls, events>> /\ pc = from
  BY DEF Writing, Faulty, bounds, hist
<1>2. pc \notin {"status", "activation"}
  BY DEF Checking
<1>3. CASE Wrote(resource) /\ to = "return" /\ Result("ok")
  <2>1. pc' = "return" /\ Rec(loc', {"cur", "res"}) /\ loc'.res = "ok"
    BY <1>3 DEF Result, Core, Shapes, Rec
  <2> QED BY <1>1, <1>2, <1>3, <2>1, WriteStep DEF Resting, Observing, Checking, Ready
<1>4. CASE Wrote(resource) /\ to # "return" /\ pc' = to /\ UNCHANGED loc
  <2>1. Rec(loc', {"cur", "res"})
    BY <1>4 DEF Core, Shapes
  <2> QED BY <1>1, <1>2, <1>4, <2>1, WriteStep DEF Resting, Observing, Checking, Ready, Written
<1>5. CASE Wrote(resource) /\ Result("err")
  <2>1. pc' = "return" /\ Rec(loc', {"cur", "res"}) /\ loc'.res = "err"
    BY <1>5 DEF Result, Core, Shapes, Rec
  <2> QED BY <1>1, <1>2, <1>5, <2>1, WriteStep DEF Resting, Observing, Checking, Ready
<1>6. CASE Result("err") /\ UNCHANGED <<native, call>>
  BY <1>1, <1>6, ResultStep
<1> QED BY <1>3, <1>4, <1>5, <1>6 DEF Writing

-----------------------------------------------------------------------------
(* What these steps leave of a call and of the lease. *)

\* What a call is about does not change.
SameCall ==
    /\ call'.op = call.op /\ call'.inc = call.inc /\ call'.expected = call.expected
    /\ call'.plan = call.plan /\ call'.target = call.target /\ call'.goal = call.goal
    /\ call'.guarded = call.guarded

LEMMA BeginApplyStep ==
    ASSUME Core, kind # "detecting", NEW p, NEW goal, NEW guarded \in BOOLEAN,
           BeginApply(p, goal, guarded)
    PROVE  /\ Core' /\ Kept /\ pc = "idle" /\ pc' = "status" /\ loc' = NoLocals
           /\ UNCHANGED <<kind, native, aux, lease, first, moved>> /\ calls' = calls + 1
           /\ lease.base # NoState
           /\ call'.op = "apply" /\ call'.inc = lease.inc /\ call'.expected = lease.base
           /\ call'.plan = p /\ call'.goal = goal /\ call'.guarded = guarded
           /\ call'.produced = NoState /\ call'.disturbed = FALSE /\ call'.wrote = FALSE
<1>1. /\ pc = "idle" /\ lease.base # NoState /\ Called /\ UNCHANGED lease
      /\ Begin("apply", lease.base, p, NoState, goal, guarded)
  BY DEF BeginApply
<1>2. lease # NoLease
  BY <1>1, NoLeaseIs
<1>3. Core' /\ Kept
  BY <1>1, <1>2, BeginStep
<1>4. /\ call'.op = "apply" /\ call'.inc = lease.inc /\ call'.expected = lease.base
      /\ call'.plan = p /\ call'.goal = goal /\ call'.guarded = guarded
      /\ call'.produced = NoState /\ call'.disturbed = FALSE /\ call'.wrote = FALSE
  BY ZenonT(60), <1>1, BeginFields
<1> QED BY <1>1, <1>3, <1>4 DEF Begin, hist, Called

LEMMA BeginRestoreStep ==
    ASSUME Core, kind # "detecting", NEW goal, NEW guarded \in BOOLEAN,
           BeginRestore(goal, guarded), kind # "bsd" => goal = {lease.base.dns}
    PROVE  /\ Core' /\ Kept /\ pc = "idle" /\ pc' = "status" /\ loc' = NoLocals
           /\ UNCHANGED <<kind, native, aux, lease, first, moved>> /\ calls' = calls + 1
           /\ lease.base # NoState /\ lease.evidence # NoState
           /\ call'.op = "restore" /\ call'.inc = lease.inc /\ call'.expected = lease.evidence
           /\ call'.target = lease.base /\ call'.goal = goal /\ call'.guarded = guarded
           /\ call'.produced = NoState /\ call'.disturbed = FALSE /\ call'.wrote = FALSE
<1>1. /\ pc = "idle" /\ lease.evidence # NoState /\ Called /\ UNCHANGED lease
      /\ Begin("restore", lease.evidence, NoState, lease.base, goal, guarded)
  BY DEF BeginRestore
<1>2. lease # NoLease /\ lease.base # NoState
  BY <1>1, NoLeaseIs DEF Core, Faithful
<1>3. Core' /\ Kept
  BY <1>1, <1>2, BeginStep
<1>4. /\ call'.op = "restore" /\ call'.inc = lease.inc /\ call'.expected = lease.evidence
      /\ call'.target = lease.base /\ call'.goal = goal /\ call'.guarded = guarded
      /\ call'.produced = NoState /\ call'.disturbed = FALSE /\ call'.wrote = FALSE
  BY ZenonT(60), <1>1, BeginFields
<1> QED BY <1>1, <1>2, <1>3, <1>4 DEF Begin, hist, Called

LEMMA VerifyFacts ==
    ASSUME Core, Verify
    PROVE  /\ UNCHANGED <<kind, native, aux, pc, loc, first, moved, calls, events>>
           /\ pc = "idle" /\ call.op = "apply" /\ ~call.running /\ ~call'.running
           /\ \/ call' = NoCall /\ lease' = NoLease
              \/ /\ call' = call /\ lease'.base = lease.base /\ lease'.inc = lease.inc
                 /\ \/ lease'.evidence = call.produced
                    \/ lease'.evidence = Snap /\ native.dns \in call.goal /\ native.inc = lease.inc
<1>1. /\ UNCHANGED <<kind, native, aux, pc, loc, first, moved, calls, events>>
      /\ pc = "idle" /\ call.op = "apply" /\ ~call.running
  BY DEF Verify, hist, bounds, Core, Phases, Resting
<1>2. \A e : LET l == [lease EXCEPT !.evidence = e]
             IN l.inc = lease.inc /\ l.base = lease.base /\ l.evidence = e
  BY DEF Core, Shapes, Rec
<1>3. call.inc = lease.inc
  BY <1>1 DEF Core, Bound
<1>4. \/ call' = NoCall /\ lease' = NoLease
      \/ /\ call' = call /\ lease'.base = lease.base /\ lease'.inc = lease.inc
         /\ \/ lease'.evidence = call.produced
            \/ lease'.evidence = Snap /\ native.dns \in call.goal /\ native.inc = lease.inc
  <2>1. CASE lease' = NoLease
    BY <2>1 DEF Verify
  <2>2. CASE lease' # NoLease
    <3>1. /\ call' = call
          /\ \/ lease' = [lease EXCEPT !.evidence = call.produced]
             \/ /\ lease' = [lease EXCEPT !.evidence = Snap]
                /\ native.inc = call.inc /\ native.dns \in call.goal
      BY <2>2 DEF Verify
    <3> QED BY <1>2, <1>3, <3>1
  <2> QED BY <2>1, <2>2
<1> QED BY <1>1, <1>4, NoCallIs

LEMMA EndRestoreFacts ==
    ASSUME Core, EndRestore
    PROVE  /\ UNCHANGED <<kind, native, aux, pc, loc, first, moved, calls, events>>
           /\ pc = "idle" /\ call' = NoCall /\ call.op = "restore" /\ lease # NoLease
           /\ \/ lease' \in {lease, NoLease}
              \/ /\ lease'.base = lease.base /\ lease'.inc = lease.inc
                 /\ lease'.evidence = call.produced /\ call.produced # NoState
<1>1. /\ UNCHANGED <<kind, native, aux, pc, loc, first, moved, calls, events>>
      /\ pc = "idle" /\ call' = NoCall /\ call.op = "restore"
  BY DEF EndRestore, hist, bounds
<1>2. \A e : LET l == [lease EXCEPT !.evidence = e]
             IN l.inc = lease.inc /\ l.base = lease.base /\ l.evidence = e
  BY DEF Core, Shapes, Rec
<1>3. lease # NoLease
  BY <1>1 DEF Core, Bound
<1> QED BY <1>1, <1>2, <1>3 DEF EndRestore

LEMMA CrashFacts ==
    ASSUME Crash
    PROVE  /\ UNCHANGED <<kind, native, aux, first, moved, calls, events>>
           /\ pc' = "idle" /\ call' = NoCall /\ loc' = NoLocals /\ lease' = NoLease
BY DEF Crash, Faulty, hist

LEMMA AnswerFacts ==
    ASSUME Core, NEW a, NEW s, Answer(a, s)
    PROVE  /\ SameCall /\ call'.running = FALSE /\ call'.produced = s /\ call'.answer = a
           /\ call'.disturbed = call.disturbed /\ pc' = "idle" /\ loc' = NoLocals
           /\ call'.wrote = call.wrote /\ call'.made = call.made
BY DEF Answer, SameCall, Core, Shapes, Rec, CallFields

LEMMA ConfirmedFacts ==
    ASSUME Core, NEW to, Confirmed(to)
    PROVE  /\ SameCall /\ call'.running = call.running /\ call'.produced = call.produced
           /\ call'.disturbed = call.disturbed /\ pc' = to /\ loc' = loc
           /\ call'.wrote = call.wrote /\ call'.made = call.made /\ call'.answer = call.answer
BY DEF Confirmed, SameCall, Core, Shapes, Rec, CallFields

LEMMA WroteFacts ==
    ASSUME Core, NEW resource, Wrote(resource)
    PROVE  /\ SameCall /\ call'.running = call.running /\ call'.produced = call.produced
           /\ call'.disturbed = call.disturbed /\ native' = resource
           /\ call'.wrote = TRUE /\ call'.answer = call.answer
           /\ call'.made = [id |-> resource.id, dns |-> resource.dns]
BY DEF Wrote, SameCall, Core, Shapes, Rec, CallFields

LEMMA ForeignFacts ==
    ASSUME Core, NEW resource, Foreign(resource)
    PROVE  /\ SameCall /\ call'.running = call.running /\ call'.produced = call.produced
           /\ call'.disturbed = (call.disturbed \/ call.running) /\ native' = resource
           /\ moved' = TRUE /\ UNCHANGED <<kind, pc, loc, lease, first, calls>>
           /\ call'.wrote = call.wrote /\ call'.answer = call.answer
           /\ call'.made = call.made /\ events' = events + 1
BY DEF Foreign, SameCall, Core, Shapes, Rec, CallFields

\* A check of the status that fails or passes.
LEMMA CheckStatusFacts ==
    ASSUME Core, NEW from, NEW to, CheckStatus(from, to)
    PROVE  /\ UNCHANGED <<kind, native, aux, lease, first, moved, calls, events>> /\ pc = from
           /\ \/ pc' = to /\ UNCHANGED <<call, loc>>
              \/ Answer("Rejected", NoState)
BY DEF CheckStatus, Goto, hist, bounds, Faulty

LEMMA ReturnFacts ==
    ASSUME Core, Return
    PROVE  /\ UNCHANGED <<kind, native, aux, lease, first, moved, calls, events>> /\ pc = "return"
           /\ \E a : Answer(a, NoState)
BY DEF Return, hist, bounds

\* The effect of a native write on everything but the resource.
LEMMA WritingFacts ==
    ASSUME Core, NEW from, NEW resource, NEW to, Writing(from, resource, to)
    PROVE  /\ UNCHANGED <<kind, lease, first, moved, calls, events>> /\ pc = from
           /\ SameCall /\ call'.running = call.running /\ call'.produced = call.produced
           /\ call'.disturbed = call.disturbed /\ call'.answer = call.answer
           /\ \/ /\ pc' = "return" /\ native' \in {native, resource}
                 /\ loc' \in {[loc EXCEPT !.res = "ok"], [loc EXCEPT !.res = "err"]}
                 /\ loc' = [loc EXCEPT !.res = "ok"] => to = "return" /\ native' = resource
              \/ pc' = to /\ to # "return" /\ native' = resource /\ loc' = loc
<1>1. UNCHANGED <<kind, lease, first, moved, calls, events>> /\ pc = from
  BY DEF Writing, hist, bounds, Faulty
<1>2. /\ SameCall /\ call'.running = call.running /\ call'.produced = call.produced
      /\ call'.disturbed = call.disturbed /\ call'.answer = call.answer
  <2>1. CASE Wrote(resource)
    BY <2>1, WroteFacts
  <2>2. CASE UNCHANGED call
    BY <2>2 DEF SameCall
  <2> QED BY <2>1, <2>2 DEF Writing
<1>3. Wrote(resource) => native' = resource
  BY DEF Wrote
<1>4. [loc EXCEPT !.res = "ok"] # [loc EXCEPT !.res = "err"]
  BY DEF Core, Shapes, Rec
<1> QED BY <1>1, <1>2, <1>3, <1>4 DEF Writing, Result

-----------------------------------------------------------------------------
(* A capture of several native reads. *)

\* Nothing is read yet.
LEMMA NothingRead == NoLocals.cur = <<>> /\ Rec(<<>>, {})
BY DEF NoLocals, Rec

LEMMA ObserveFacts ==
    ASSUME Core, Observe
    PROVE  /\ UNCHANGED <<kind, native, aux, call, pc, loc, events>> /\ pc = "idle"
           /\ calls' = calls + 1 /\ first' = native /\ moved' = FALSE
           /\ lease'.base = Snap /\ lease'.inc = native.inc /\ lease'.evidence = NoState
BY DEF Observe, Took, Called

LEMMA ObserveBeginFacts ==
    ASSUME Core, NEW to, ObserveBegin(to)
    PROVE  /\ UNCHANGED <<kind, native, aux, call, events>> /\ pc = "idle" /\ pc' = to
           /\ calls' = calls + 1 /\ loc' = NoLocals /\ first' = native /\ moved' = FALSE
           /\ lease'.base = NoState /\ lease'.inc = native.inc /\ lease'.evidence = NoState
BY DEF ObserveBegin, NoLease, Called

LEMMA ObservePartFacts ==
    ASSUME Core, NEW from, NEW fields, NEW to, ObservePart(from, fields, to)
    PROVE  /\ UNCHANGED <<kind, native, aux, call, first, moved, calls, events>> /\ pc = from
           /\ \/ pc' = to /\ loc'.cur = Filled(loc.cur, fields) /\ UNCHANGED lease
              \/ pc' = "idle" /\ loc' = NoLocals /\ lease' = NoLease
BY DEF ObservePart, ObserveFailed, Faulty, hist, bounds, Core, Shapes, Rec

LEMMA ObserveEndFacts ==
    ASSUME Core, ObserveEnd
    PROVE  /\ UNCHANGED <<kind, native, aux, call, first, moved, calls, events>>
           /\ pc = "ob.status" /\ pc' = "idle" /\ loc' = NoLocals
           /\ \/ lease' = NoLease
              \/ /\ lease'.base = [id |-> 0, dns |-> loc.cur] /\ lease'.inc = lease.inc
                 /\ lease'.evidence = lease.evidence /\ lease.inc = native.inc
BY DEF ObserveEnd, hist, bounds, Core, Shapes, Rec

LEMMA ReadPartFacts ==
    ASSUME Core, NEW from, NEW fields, NEW to, ReadPart(from, fields, to)
    PROVE  /\ UNCHANGED <<kind, native, aux, lease, first, moved, calls, events>> /\ pc = from
           /\ \/ pc' = to /\ loc'.cur = Filled(loc.cur, fields) /\ UNCHANGED call
              \/ Answer("Rejected", NoState)
BY DEF ReadPart, Faulty, hist, bounds, Core, Shapes, Rec

LEMMA ComparePartsFacts ==
    ASSUME Core, CompareParts
    PROVE  /\ UNCHANGED <<kind, native, aux, lease, first, moved, calls, events>>
           /\ pc = "compare" /\ (Confirmed("restat") \/ Answer("Rejected", NoState))
BY DEF CompareParts, CheckExpected, hist, bounds

LEMMA ResultFacts ==
    ASSUME Core, NEW res, Result(res)
    PROVE  pc' = "return" /\ loc'.cur = loc.cur /\ loc'.res = res
BY DEF Result, Core, Shapes, Rec

\* A capture in progress has the fields of the resource, unless another program
\* acts.
Captured(fields) ==
    /\ Rec(loc.cur, fields)
    /\ (IF call.running THEN ~call.disturbed ELSE ~moved) =>
          \A f \in fields : loc.cur[f] = native.dns[f]

\* Reads and writes of all the fields, one after the other.
LEMMA SameRecords ==
    ASSUME NEW r, NEW s, NEW fields, Rec(r, fields), Rec(s, fields), \A f \in fields : r[f] = s[f]
    PROVE  r = s
BY DEF Rec

LEMMA CapturePart ==
    ASSUME NEW now, NEW had, Captured(had), now \cap had = {}, loc'.cur = Filled(loc.cur, now),
           UNCHANGED <<native, call, moved>>
    PROVE  Captured(had \cup now)'
<1>1. Rec(loc.cur, had)
  BY DEF Captured
<1>2. /\ Rec(Filled(loc.cur, now), had \cup now)
      /\ \A f \in now : Filled(loc.cur, now)[f] = native.dns[f]
      /\ \A f \in had : Filled(loc.cur, now)[f] = loc.cur[f]
  <2>1. DOMAIN loc.cur = had
    BY <1>1 DEF Rec
  <2> QED BY <2>1 DEF Rec, Filled
<1> QED BY <1>2 DEF Captured

LEMMA NmShares ==
    /\ nm!Observe <=> Observe
    /\ \A plan, goal, guarded : nm!BeginApply(plan, goal, guarded) <=> BeginApply(plan, goal, guarded)
    /\ \A goal, guarded : nm!BeginRestore(goal, guarded) <=> BeginRestore(goal, guarded)
    /\ nm!Verify <=> Verify
    /\ nm!EndRestore <=> EndRestore
    /\ \A from, to : nm!CheckStatus(from, to) <=> CheckStatus(from, to)
    /\ nm!Return <=> Return
    /\ nm!Crash <=> Crash
    /\ \A resource : nm!Foreign(resource) <=> Foreign(resource)
    /\ \A from, resource, to : nm!Writing(from, resource, to) <=> Writing(from, resource, to)
    /\ \A answer, produced : nm!Answer(answer, produced) <=> Answer(answer, produced)
    /\ \A label : nm!Confirmed(label) <=> Confirmed(label)
    /\ \A label : nm!Goto(label) <=> Goto(label)
    /\ nm!Faulty <=> Faulty
    /\ \A res : nm!Result(res) <=> Result(res)
<1>1. nm!Observe <=> Observe
  BY Zenon DEF nm!Observe, nm!Called, nm!Took, nm!Snap, nm!NoLease, Observe, Called, Took, Snap,
      NoLease
<1>2. \A plan, goal, guarded : nm!BeginApply(plan, goal, guarded) <=> BeginApply(plan, goal, guarded)
  BY Zenon DEF nm!BeginApply, nm!Called, nm!NoLease, nm!Begin, nm!NoCall, nm!NoLocals, nm!hist,
      BeginApply, Called, NoLease, Begin, NoCall, NoLocals, hist
<1>3. \A goal, guarded : nm!BeginRestore(goal, guarded) <=> BeginRestore(goal, guarded)
  BY Zenon DEF nm!BeginRestore, nm!Called, nm!Begin, nm!NoCall, nm!NoLocals, nm!hist,
      BeginRestore, Called, Begin, NoCall, NoLocals, hist
<1>4. nm!Verify <=> Verify
  BY Zenon DEF nm!Verify, nm!NoLease, nm!NoCall, nm!Snap, nm!hist, nm!bounds, Verify, NoLease,
      NoCall, Snap, hist, bounds
<1>5. nm!EndRestore <=> EndRestore
  BY Zenon DEF nm!EndRestore, nm!NoLease, nm!NoCall, nm!hist, nm!bounds, EndRestore, NoLease,
      NoCall, hist, bounds
<1>6. \A from, to : nm!CheckStatus(from, to) <=> CheckStatus(from, to)
  BY Zenon DEF nm!CheckStatus, nm!StatusSame, nm!Goto, nm!Answer, nm!NoLocals, nm!Faulty,
      nm!hist, nm!bounds, CheckStatus, StatusSame, Goto, Answer, NoLocals, Faulty, hist, bounds
<1>7. nm!Return <=> Return
  BY Zenon DEF nm!Return, nm!Answer, nm!NoLocals, nm!hist, nm!bounds, Return, Answer, NoLocals,
      hist, bounds
<1>8. nm!Crash <=> Crash
  BY Zenon DEF nm!Crash, nm!Faulty, nm!NoCall, nm!NoLocals, nm!NoLease, nm!hist, Crash, Faulty,
      NoCall, NoLocals, NoLease, hist
<1>9. \A resource : nm!Foreign(resource) <=> Foreign(resource)
  BY Zenon DEF nm!Foreign, Foreign
<1>10. \A from, resource, to : nm!Writing(from, resource, to) <=> Writing(from, resource, to)
  BY Zenon DEF nm!Writing, nm!Wrote, nm!Result, nm!Faulty, nm!hist, nm!bounds, Writing, Wrote,
      Result, Faulty, hist, bounds
<1>11. \A answer, produced : nm!Answer(answer, produced) <=> Answer(answer, produced)
  BY Zenon DEF nm!Answer, nm!NoLocals, Answer, NoLocals
<1>12. \A label : nm!Confirmed(label) <=> Confirmed(label)
  BY Zenon DEF nm!Confirmed, Confirmed
<1>13. \A label : nm!Goto(label) <=> Goto(label)
  BY Zenon DEF nm!Goto, Goto
<1>14. nm!Faulty <=> Faulty
  BY Zenon DEF nm!Faulty, Faulty
<1>15. \A res : nm!Result(res) <=> Result(res)
  BY Zenon DEF nm!Result, Result
<1> QED BY <1>1, <1>2, <1>3, <1>4, <1>5, <1>6, <1>7, <1>8, <1>9, <1>10, <1>11, <1>12, <1>13, <1>14, <1>15

\* A snapshot of a device: no later state of the same service has its version.
Dated(resource, inc, s) ==
    /\ inc \in Nat /\ Rec(s, {"id", "dns"}) /\ s.id \in Nat
    /\ nm!Owner(resource.inc) >= nm!Owner(inc)
    /\ nm!Owner(resource.inc) = nm!Owner(inc) =>
          /\ resource.id >= s.id
          /\ resource.id = s.id /\ s.id # 0 => resource.inc = inc /\ resource.dns = s.dns

NmData ==
    /\ native.inc \in Nat /\ native.id \in Nat
    /\ lease.base # NoState => Dated(native, lease.inc, lease.base)
    /\ lease.evidence # NoState => Dated(native, lease.inc, lease.evidence)
    /\ call.running => call.guarded /\ Dated(native, call.inc, call.expected)
    /\ call.produced = NoState
    /\ call.op = "apply" => nm!NmFields(call.plan, nm!SplitDns) \in call.goal
    /\ call.op = "restore" => call.target.dns \in call.goal
    /\ pc \in {"restat", "write"} => call.expected.id # 0
    /\ pc \notin Observing

LEMMA Owners ==
    ASSUME NEW inc \in Nat
    PROVE  /\ nm!Owner(inc) \in Nat /\ nm!Owner(inc + 1) >= nm!Owner(inc)
           /\ 10 * (nm!Owner(inc) + 1) + 1 \in Nat
           /\ nm!Owner(10 * (nm!Owner(inc) + 1) + 1) = nm!Owner(inc) + 1
BY DEF nm!Owner

\* A device that moves on keeps the snapshots of it dated.
LEMMA MovesOn ==
    ASSUME native.inc \in Nat, native.id \in Nat, native'.inc \in Nat, native'.id \in Nat,
           \/ nm!Owner(native'.inc) > nm!Owner(native.inc)
           \/ nm!Owner(native'.inc) = nm!Owner(native.inc) /\ native'.id = nm!Bump(native.id)
           \/ native'.inc = native.inc /\ native'.id = native.id /\ native'.dns = native.dns
    PROVE  \A inc, s : Dated(native, inc, s) => Dated(native', inc, s)
<1> SUFFICES ASSUME NEW inc, NEW s, Dated(native, inc, s) PROVE Dated(native', inc, s)
  OBVIOUS
<1>1. nm!Owner(inc) \in Nat /\ nm!Owner(native.inc) \in Nat /\ nm!Owner(native'.inc) \in Nat
  BY Owners DEF Dated
<1> QED BY <1>1 DEF Dated, nm!Bump

LEMMA DatedNow ==
    ASSUME native.inc \in Nat, native.id \in Nat
    PROVE  Dated(native, native.inc, Snap)
<1>1. Rec(Snap, {"id", "dns"}) /\ Snap.id = native.id /\ Snap.dns = native.dns
  BY DEF Rec, Snap
<1>2. nm!Owner(native.inc) \in Nat
  BY Owners
<1> QED BY <1>1, <1>2 DEF Dated

\* Other steps leave the device and what the call is about alone.
LEMMA NmFrame ==
    ASSUME NmData, UNCHANGED <<aux, native, lease>>, pc' \notin Observing,
           SameCall, call'.produced = NoState, call'.running => call.running,
           pc' \in {"restat", "write"} => call.expected.id # 0
    PROVE  NmData'
BY DEF NmData, SameCall, nm!SplitDns

LEMMA NmStep ==
    ASSUME Core, NmData, nm!Next
    PROVE  Core' /\ Kept /\ NmData'
<1>0. kind = "nm" /\ kind # "detecting" /\ kind # "bsd"
  BY DEF nm!Next
<1>1. CASE nm!Observe
  <2>1. Observe
    BY <1>1, NmShares, Zenon
  <2>2. NmData'
    <3>1. /\ UNCHANGED <<native, aux, call, pc>> /\ lease'.base = Snap /\ lease'.inc = native.inc
          /\ lease'.evidence = NoState
      BY <2>1 DEF Observe, Took
    <3>2. Dated(native, native.inc, Snap)
      BY DatedNow DEF NmData
    <3> QED BY <3>1, <3>2 DEF NmData, nm!SplitDns
  <2> QED BY <1>0, <2>1, <2>2, ObserveStep
<1>2. ASSUME NEW p, nm!BeginApply(p, {nm!NmFields(p, nm!SplitDns)}, TRUE)
      PROVE  Core' /\ Kept /\ NmData'
  <2>1. BeginApply(p, {nm!NmFields(p, nm!SplitDns)}, TRUE)
    BY <1>2, NmShares, Zenon
  <2>2. /\ Core' /\ Kept /\ pc' = "status" /\ UNCHANGED <<native, aux, lease>>
        /\ lease.base # NoState /\ call'.inc = lease.inc /\ call'.expected = lease.base
        /\ call'.op = "apply" /\ call'.plan = p /\ call'.guarded = TRUE
        /\ call'.goal = {nm!NmFields(p, nm!SplitDns)} /\ call'.produced = NoState
    BY <1>0, <2>1, BeginApplyStep
  <2>3. NmData'
    BY <2>2 DEF NmData, nm!SplitDns, Observing
  <2> QED BY <2>2, <2>3
<1>3. CASE nm!BeginRestore(nm!Before, TRUE)
  <2>1. BeginRestore({lease.base.dns}, TRUE)
    BY <1>3, NmShares, Zenon DEF nm!Before
  <2>2. /\ Core' /\ Kept /\ pc' = "status" /\ UNCHANGED <<native, aux, lease>>
        /\ lease.evidence # NoState /\ call'.inc = lease.inc /\ call'.expected = lease.evidence
        /\ call'.op = "restore" /\ call'.target = lease.base /\ call'.guarded = TRUE
        /\ call'.goal = {lease.base.dns} /\ call'.produced = NoState
    BY <1>0, <2>1, BeginRestoreStep
  <2>3. NmData'
    BY <2>2 DEF NmData, Observing
  <2> QED BY <2>2, <2>3
<1>4. CASE nm!Verify
  <2>1. Verify
    BY <1>4, NmShares, Zenon
  <2>2. Dated(native, native.inc, Snap)
    BY DatedNow DEF NmData
  <2>3. NmData'
    BY <2>1, <2>2, VerifyFacts, NoLeaseIs, NoCallIs DEF NmData, nm!SplitDns
  <2> QED BY <1>0, <2>1, <2>3, VerifyStep
<1>5. CASE nm!EndRestore
  <2>1. EndRestore
    BY <1>5, NmShares, Zenon
  <2>2. NmData'
    BY <2>1, EndRestoreFacts, NoLeaseIs, NoCallIs DEF NmData
  <2> QED BY <1>0, <2>1, <2>2, EndRestoreStep
<1>6. CASE nm!VerifyNamespace
  <2>1. pc = "status" /\ UNCHANGED <<kind, native, aux, lease, first, moved, calls, events>>
    BY <1>6 DEF nm!VerifyNamespace, nm!Faulty, nm!bounds, nm!hist
  <2>2. call.running
    BY <2>1 DEF Core, Phases, Resting, Observing
  <2>3. CASE Goto("activation")
    <3>1. pc' = "activation" /\ UNCHANGED <<call, loc>>
      BY <2>3 DEF Goto
    <3>2. Core' /\ Kept
      BY <2>1, <2>2, <3>1, QuietStep DEF Core, Shapes, Resting, Observing, Checking, Ready
    <3> QED BY <2>1, <3>1, <3>2, NmFrame DEF Observing, SameCall, NmData
  <2>4. CASE Answer("Rejected", NoState)
    BY <2>1, <2>4, RejectStep, AnswerFacts, NmFrame DEF Checking, Observing
  <2> QED BY <1>6, <2>3, <2>4, NmShares, Zenon DEF nm!VerifyNamespace
<1>7. CASE nm!CheckStatus("activation", "baseline") \/ nm!CheckStatus("restat", "write")
  <2>1. CheckStatus("activation", "baseline") \/ CheckStatus("restat", "write")
    BY <1>7, NmShares, Zenon
  <2>2. Core' /\ Kept
    BY <2>1, CheckStatusStep
  <2>3. CASE Answer("Rejected", NoState)
    BY <2>1, <2>2, <2>3, CheckStatusFacts, AnswerFacts, NmFrame DEF Observing
  <2>4. CASE UNCHANGED call /\ (pc' = "baseline" \/ (pc = "restat" /\ pc' = "write"))
    BY <2>1, <2>2, <2>4, CheckStatusFacts, NmFrame DEF Observing, NmData, SameCall
  <2> QED BY <2>1, <2>3, <2>4, CheckStatusFacts
<1>8. CASE nm!GuardedBaseline
  <2>1. pc = "baseline" /\ UNCHANGED <<kind, native, aux, lease, first, moved, calls, events>>
    BY <1>8 DEF nm!GuardedBaseline, nm!Faulty, nm!bounds, nm!hist
  <2>2. call.running
    BY <2>1 DEF Core, Phases, Resting, Observing
  <2>3. CASE call.expected.id # 0 /\ Snap = call.expected /\ Confirmed("restat")
    <3>1. call.disturbed \/ (native.inc = call.inc /\ native.dns = call.expected.dns)
      BY <2>1, <2>2, <2>3 DEF Core, Sound, Snap
    <3>2. Core' /\ Kept
      BY <2>1, <2>3, <3>1, CheckStep DEF Checking, Ready
    <3> QED BY <2>1, <2>3, <3>2, ConfirmedFacts, NmFrame DEF Observing, NmData
  <2>4. CASE Answer("Rejected", NoState)
    BY <2>1, <2>4, RejectStep, AnswerFacts, NmFrame DEF Checking, Observing
  <2>5. \/ call.expected.id # 0 /\ Snap = call.expected /\ Confirmed("restat")
        \/ Answer("Rejected", NoState)
    BY <1>8, NmShares, Zenon DEF nm!GuardedBaseline, nm!CheckExpected, nm!Snap, Snap
  <2> QED BY <2>3, <2>4, <2>5
<1>9. CASE nm!Reapply
  <2>1. pc = "write" /\ UNCHANGED <<kind, aux, lease, first, moved, calls, events>>
    BY <1>9 DEF nm!Reapply, nm!Writing, nm!Faulty, nm!bounds, nm!hist
  <2>2. call.running /\ call.confirmed /\ pc \notin Checking
    BY <2>1 DEF Core, Phases, Resting, Observing, Checking
  <2>3. CASE /\ nm!ReapplyLands
             /\ nm!Writing("write", [native EXCEPT !.dns = nm!DnsFields, !.id = nm!Bump(@)], "return")
    <3> DEFINE new == [native EXCEPT !.dns = nm!DnsFields, !.id = nm!Bump(@)]
    <3>1. Rec(new, ResourceFields) /\ new.inc = native.inc /\ new.id = nm!Bump(native.id)
          /\ new.dns = nm!DnsFields /\ new.rest = native.rest
      BY DEF Core, Shapes, Rec, ResourceFields
    <3> HIDE DEF new
    <3>2. Writing("write", new, "return")
      BY <2>3, NmShares, Zenon DEF new
    <3>3. new.dns \in call.goal
      BY <2>2, <3>1 DEF NmData, nm!DnsFields, Core, Phases
    <3>4. Boundary!AsExpected
      <4>1. /\ nm!Owner(native.inc) = nm!Owner(call.inc) /\ call.expected.id = native.id
            /\ call.expected.id # 0 /\ Dated(native, call.inc, call.expected)
        BY <2>1, <2>2, <2>3 DEF nm!ReapplyLands, NmData
      <4>2. native.inc = call.inc /\ native.dns = call.expected.dns
        BY <4>1 DEF Dated
      <4>3. [id |-> native.id, dns |-> native.dns] = call.expected
        BY <4>1, <4>2 DEF Dated, Rec
      <4> QED BY <4>2, <4>3 DEF Boundary!AsExpected
    <3>5. Core' /\ Kept
      BY <1>0, <2>2, <3>1, <3>2, <3>3, <3>4, WritingStep DEF Written, Occupied
    <3>6. /\ pc' = "return" /\ native' \in {native, new} /\ lease' = lease
          /\ SameCall /\ call'.running = call.running /\ call'.produced = call.produced
      BY <3>2, WritingFacts
    <3>7. \A inc, s : Dated(native, inc, s) => Dated(native', inc, s)
      BY SMTT(30), <3>1, <3>6, MovesOn, Owners DEF NmData, nm!Bump
    <3>8. NmData'
      <4>1. native'.inc \in Nat /\ native'.id \in Nat
        BY <3>1, <3>6 DEF NmData, nm!Bump
      <4> QED BY <2>1, <3>6, <3>7, <4>1 DEF NmData, SameCall, nm!SplitDns, Observing
    <3> QED BY <3>5, <3>8
  <2>4. CASE Result("err") /\ UNCHANGED <<native, call>>
    <3>1. Core' /\ Kept
      BY <2>1, <2>2, <2>4, ResultStep
    <3>2. pc' = "return"
      BY <2>4 DEF Result
    <3> QED BY <2>1, <2>4, <3>1, <3>2, NmFrame DEF Observing, SameCall, NmData
  <2> QED BY <1>9, <2>3, <2>4, NmShares, Zenon DEF nm!Reapply
<1>10. CASE nm!Return
  <2>1. Return
    BY <1>10, NmShares, Zenon
  <2> QED BY <2>1, ReturnFacts, ReturnStep, AnswerFacts, NmFrame DEF Observing
<1>11. CASE nm!Rival
  <2>1. ASSUME NEW r, nm!Foreign(r), Rec(r, ResourceFields), r.inc \in Nat, r.id \in Nat,
               \/ nm!Owner(r.inc) > nm!Owner(native.inc)
               \/ nm!Owner(r.inc) = nm!Owner(native.inc) /\ r.id = nm!Bump(native.id)
               \/ r.inc = native.inc /\ r.id = native.id /\ r.dns = native.dns,
               UNCHANGED aux
        PROVE  Core' /\ Kept /\ NmData'
    <3>1. Foreign(r)
      BY <2>1, NmShares, Zenon
    <3>2. Core' /\ Kept
      BY <1>0, <2>1, <3>1, ForeignStep
    <3>3. \A inc, s : Dated(native, inc, s) => Dated(native', inc, s)
      BY <2>1, <3>1, ForeignFacts, MovesOn DEF NmData
    <3>4. NmData'
      BY <2>1, <3>1, <3>3, ForeignFacts DEF NmData, SameCall, nm!SplitDns
    <3> QED BY <3>2, <3>4
  <2>2. ASSUME NEW ns, nm!Foreign([native EXCEPT !.dns.dns4 = ns, !.id = nm!Bump(@)]), UNCHANGED aux
        PROVE  Core' /\ Kept /\ NmData'
    <3> DEFINE r == [native EXCEPT !.dns.dns4 = ns, !.id = nm!Bump(@)]
    <3>1. Rec(r, ResourceFields) /\ r.inc = native.inc /\ r.id = nm!Bump(native.id)
      BY DEF Core, Shapes, Rec, ResourceFields
    <3> HIDE DEF r
    <3>3. nm!Foreign(r)
      BY <2>2, Zenon DEF r
    <3> QED BY <2>1, <2>2, <3>1, <3>3 DEF NmData, nm!Bump
  <2>3. ASSUME nm!Foreign([native EXCEPT !.rest = "static", !.id = nm!Bump(@)]), UNCHANGED aux
        PROVE  Core' /\ Kept /\ NmData'
    <3> DEFINE r == [native EXCEPT !.rest = "static", !.id = nm!Bump(@)]
    <3>1. Rec(r, ResourceFields) /\ r.inc = native.inc /\ r.id = nm!Bump(native.id)
      BY DEF Core, Shapes, Rec, ResourceFields
    <3> HIDE DEF r
    <3>3. nm!Foreign(r)
      BY <2>3, Zenon DEF r
    <3> QED BY <2>1, <2>3, <3>1, <3>3 DEF NmData, nm!Bump
  <2>4. ASSUME nm!Foreign([native EXCEPT !.up = FALSE]), UNCHANGED aux
        PROVE  Core' /\ Kept /\ NmData'
    <3> DEFINE r == [native EXCEPT !.up = FALSE]
    <3>1. Rec(r, ResourceFields) /\ r.inc = native.inc /\ r.id = native.id /\ r.dns = native.dns
      BY DEF Core, Shapes, Rec, ResourceFields
    <3> HIDE DEF r
    <3>3. nm!Foreign(r)
      BY <2>4, Zenon DEF r
    <3> QED BY <2>1, <2>4, <3>1, <3>3 DEF NmData
  <2>5. ASSUME nm!Foreign([native EXCEPT !.up = TRUE, !.inc = @ + 1, !.id = nm!Bump(@),
                                         !.dns = nm!Profile]), UNCHANGED aux
        PROVE  Core' /\ Kept /\ NmData'
    <3> DEFINE r == [native EXCEPT !.up = TRUE, !.inc = @ + 1, !.id = nm!Bump(@),
                                   !.dns = nm!Profile]
    <3>1. Rec(r, ResourceFields) /\ r.inc = native.inc + 1 /\ r.id = nm!Bump(native.id)
      BY DEF Core, Shapes, Rec, ResourceFields
    <3> HIDE DEF r
    <3>2. r.inc \in Nat /\ nm!Owner(r.inc) >= nm!Owner(native.inc)
          /\ nm!Owner(r.inc) \in Nat /\ nm!Owner(native.inc) \in Nat
      BY <3>1, Owners DEF NmData
    <3>3. nm!Foreign(r)
      BY <2>5, Zenon DEF r
    <3> QED BY <2>1, <2>5, <3>1, <3>2, <3>3 DEF NmData, nm!Bump
  <2>6. ASSUME nm!Foreign([native EXCEPT !.inc = 10 * (nm!Owner(@) + 1) + 1,
                                         !.id = IF @ = 0 THEN 0 ELSE 1]), UNCHANGED aux
        PROVE  Core' /\ Kept /\ NmData'
    <3> DEFINE r == [native EXCEPT !.inc = 10 * (nm!Owner(@) + 1) + 1,
                                   !.id = IF @ = 0 THEN 0 ELSE 1]
    <3>1. Rec(r, ResourceFields) /\ r.inc = 10 * (nm!Owner(native.inc) + 1) + 1 /\ r.id \in {0, 1}
      BY DEF Core, Shapes, Rec, ResourceFields
    <3> HIDE DEF r
    <3>2. r.inc \in Nat /\ nm!Owner(r.inc) > nm!Owner(native.inc)
      BY <3>1, Owners DEF NmData
    <3>3. nm!Foreign(r)
      BY <2>6, Zenon DEF r
    <3> QED BY <2>1, <2>6, <3>1, <3>2, <3>3
  <2> QED BY <1>11, <2>2, <2>3, <2>4, <2>5, <2>6, Zenon DEF nm!Rival
<1>12. CASE nm!Crash
  <2>1. Crash
    BY <1>12, NmShares, Zenon
  <2>2. NmData'
    BY <2>1, CrashFacts, NoLeaseIs, NoCallIs DEF NmData, Observing
  <2> QED BY <1>0, <2>1, <2>2, CrashStep
<1> QED
  BY <1>1, <1>2, <1>3, <1>4, <1>5, <1>6, <1>7, <1>8, <1>9, <1>10, <1>11, <1>12, Zenon DEF nm!Next

-----------------------------------------------------------------------------
(* Windows. *)

\* The backend shares these steps with the others.
LEMMA WindowsShares ==
    /\ windows!Observe <=> Observe
    /\ \A to : windows!ObserveBegin(to) <=> ObserveBegin(to)
    /\ \A from, fields, to : windows!ObservePart(from, fields, to) <=> ObservePart(from, fields, to)
    /\ windows!ObserveEnd <=> ObserveEnd
    /\ \A plan, goal, guarded : windows!BeginApply(plan, goal, guarded) <=> BeginApply(plan, goal, guarded)
    /\ \A goal, guarded : windows!BeginRestore(goal, guarded) <=> BeginRestore(goal, guarded)
    /\ windows!Verify <=> Verify
    /\ windows!EndRestore <=> EndRestore
    /\ \A from, to : windows!CheckStatus(from, to) <=> CheckStatus(from, to)
    /\ \A from, fields, to : windows!ReadPart(from, fields, to) <=> ReadPart(from, fields, to)
    /\ windows!CompareParts <=> CompareParts
    /\ \A from, resource, to : windows!Writing(from, resource, to) <=> Writing(from, resource, to)
    /\ \A resource : windows!Wrote(resource) <=> Wrote(resource)
    /\ \A res : windows!Result(res) <=> Result(res)
    /\ \A resource : windows!Foreign(resource) <=> Foreign(resource)
    /\ windows!Return <=> Return
    /\ windows!Crash <=> Crash
    /\ \A answer, produced : windows!Answer(answer, produced) <=> Answer(answer, produced)
    /\ \A label : windows!Confirmed(label) <=> Confirmed(label)
    /\ \A label : windows!Goto(label) <=> Goto(label)
    /\ windows!Faulty <=> Faulty
<1>1. windows!Observe <=> Observe
  BY Zenon DEF windows!Observe, windows!Called, windows!Took, windows!Snap, windows!NoLease,
      Observe, Called, Took, Snap, NoLease
<1>2. \A to : windows!ObserveBegin(to) <=> ObserveBegin(to)
  BY Zenon DEF windows!ObserveBegin, windows!Called, windows!NoLocals, windows!NoLease,
      ObserveBegin, Called, NoLocals, NoLease
<1>3. \A from, fields, to : windows!ObservePart(from, fields, to) <=> ObservePart(from, fields, to)
  BY Zenon DEF windows!ObservePart, windows!Filled, windows!Faulty, windows!ObserveFailed,
      windows!NoLocals, windows!NoLease, windows!bounds, windows!hist, ObservePart, Filled,
      Faulty, ObserveFailed, NoLocals, NoLease, bounds, hist
<1>4. windows!ObserveEnd <=> ObserveEnd
  BY Zenon DEF windows!ObserveEnd, windows!NoLocals, windows!NoLease, windows!bounds,
      windows!hist, ObserveEnd, NoLocals, NoLease, bounds, hist
<1>5. \A plan, goal, guarded : windows!BeginApply(plan, goal, guarded) <=> BeginApply(plan, goal, guarded)
  BY Zenon DEF windows!BeginApply, windows!Called, windows!NoLease, windows!Begin,
      windows!NoCall, windows!NoLocals, windows!hist, BeginApply, Called, NoLease, Begin,
      NoCall, NoLocals, hist
<1>6. \A goal, guarded : windows!BeginRestore(goal, guarded) <=> BeginRestore(goal, guarded)
  BY Zenon DEF windows!BeginRestore, windows!Called, windows!Begin, windows!NoCall,
      windows!NoLocals, windows!hist, BeginRestore, Called, Begin, NoCall, NoLocals, hist
<1>7. windows!Verify <=> Verify
  BY Zenon DEF windows!Verify, windows!NoLease, windows!NoCall, windows!Snap, windows!hist,
      windows!bounds, Verify, NoLease, NoCall, Snap, hist, bounds
<1>8. windows!EndRestore <=> EndRestore
  BY Zenon DEF windows!EndRestore, windows!NoLease, windows!NoCall, windows!hist,
      windows!bounds, EndRestore, NoLease, NoCall, hist, bounds
<1>9. \A from, to : windows!CheckStatus(from, to) <=> CheckStatus(from, to)
  BY Zenon DEF windows!CheckStatus, windows!StatusSame, windows!Goto, windows!Answer,
      windows!NoLocals, windows!Faulty, windows!hist, windows!bounds, CheckStatus, StatusSame,
      Goto, Answer, NoLocals, Faulty, hist, bounds
<1>10. \A from, fields, to : windows!ReadPart(from, fields, to) <=> ReadPart(from, fields, to)
  BY Zenon DEF windows!ReadPart, windows!Filled, windows!Answer, windows!NoLocals,
      windows!Faulty, windows!hist, windows!bounds, ReadPart, Filled, Answer, NoLocals, Faulty,
      hist, bounds
<1>11. windows!CompareParts <=> CompareParts
  BY Zenon DEF windows!CompareParts, windows!CheckExpected, windows!Confirmed, windows!Answer,
      windows!NoLocals, windows!hist, windows!bounds, CompareParts, CheckExpected, Confirmed,
      Answer, NoLocals, hist, bounds
<1>12. \A from, resource, to : windows!Writing(from, resource, to) <=> Writing(from, resource, to)
  BY Zenon DEF windows!Writing, windows!Wrote, windows!Result, windows!Faulty, windows!hist,
      windows!bounds, Writing, Wrote, Result, Faulty, hist, bounds
<1>13. \A resource : windows!Wrote(resource) <=> Wrote(resource)
  BY Zenon DEF windows!Wrote, Wrote
<1>14. \A res : windows!Result(res) <=> Result(res)
  BY Zenon DEF windows!Result, Result
<1>15. \A resource : windows!Foreign(resource) <=> Foreign(resource)
  BY Zenon DEF windows!Foreign, Foreign
<1>16. windows!Return <=> Return
  BY Zenon DEF windows!Return, windows!Answer, windows!NoLocals, windows!hist, windows!bounds,
      Return, Answer, NoLocals, hist, bounds
<1>17. windows!Crash <=> Crash
  BY Zenon DEF windows!Crash, windows!Faulty, windows!NoCall, windows!NoLocals, windows!NoLease,
      windows!hist, Crash, Faulty, NoCall, NoLocals, NoLease, hist
<1>18. \A answer, produced : windows!Answer(answer, produced) <=> Answer(answer, produced)
  BY Zenon DEF windows!Answer, windows!NoLocals, Answer, NoLocals
<1>19. \A label : windows!Confirmed(label) <=> Confirmed(label)
  BY Zenon DEF windows!Confirmed, Confirmed
<1>20. \A label : windows!Goto(label) <=> Goto(label)
  BY Zenon DEF windows!Goto, Goto
<1>21. windows!Faulty <=> Faulty
  BY Zenon DEF windows!Faulty, Faulty
<1> QED BY <1>1, <1>2, <1>3, <1>4, <1>5, <1>6, <1>7, <1>8, <1>9, <1>10, <1>11, <1>12, <1>13, <1>14, <1>15, <1>16, <1>17, <1>18, <1>19, <1>20, <1>21

StackFields == {"ns4", "search4", "ns6", "search6"}

WantedStacks == IF call.op = "apply" THEN windows!InterfaceState(call.plan) ELSE call.target.dns

WinData ==
    /\ Rec(native.dns, StackFields)
    /\ lease.base # NoState => Rec(lease.base.dns, StackFields)
    /\ call.produced = NoState /\ ~call.guarded
    /\ call.op = "apply" => windows!InterfaceState(call.plan) \in call.goal
    /\ pc \in {"ob.4", "status", "read"} => loc.cur = <<>>
    /\ pc \in {"ob.6", "read6"} => Captured({"ns4", "search4"})
    /\ pc \in {"ob.status", "compare"} => Captured(StackFields)
    /\ pc = "write6" /\ ~call.disturbed =>
          native.dns.ns4 = WantedStacks.ns4 /\ native.dns.search4 = WantedStacks.search4

WinPlaces == {"ob.4", "ob.6", "ob.status", "status", "read", "read6", "compare", "write6"}

LEMMA WinFrame ==
    ASSUME WinData, UNCHANGED <<native, lease>>, SameCall, call'.produced = NoState,
           pc' \notin WinPlaces
    PROVE  WinData'
BY DEF WinData, SameCall, WinPlaces

LEMMA WinStep ==
    ASSUME Core, WinData, kind = "windows", windows!Next
    PROVE  Core' /\ Kept /\ WinData'
<1>0. kind # "detecting" /\ kind # "bsd" /\ kind # "nrpt" /\ ~Occupied
  BY DEF Occupied
<1>1. ASSUME NEW p, windows!BeginApply(p, {windows!InterfaceState(p)}, FALSE)
      PROVE  Core' /\ Kept /\ WinData'
  <2>1. BeginApply(p, {windows!InterfaceState(p)}, FALSE)
    BY <1>1, WindowsShares, Zenon
  <2>2. /\ Core' /\ Kept /\ pc' = "status" /\ loc' = NoLocals /\ UNCHANGED <<native, lease>>
        /\ call'.op = "apply" /\ call'.plan = p /\ ~call'.guarded
        /\ call'.goal = {windows!InterfaceState(p)} /\ call'.produced = NoState
    BY <1>0, <2>1, BeginApplyStep
  <2>3. WinData'
    BY <2>2, NoLocalsIs DEF WinData
  <2> QED BY <2>2, <2>3
<1>2. CASE windows!BeginRestore(windows!Before, FALSE)
  <2>1. BeginRestore({lease.base.dns}, FALSE)
    BY <1>2, WindowsShares, Zenon DEF windows!Before
  <2>2. /\ Core' /\ Kept /\ pc' = "status" /\ loc' = NoLocals /\ UNCHANGED <<native, lease>>
        /\ call'.op = "restore" /\ ~call'.guarded /\ call'.produced = NoState
    BY <1>0, <2>1, BeginRestoreStep
  <2>3. WinData'
    BY <2>2, NoLocalsIs DEF WinData
  <2> QED BY <2>2, <2>3
<1>3. CASE windows!Verify
  <2>1. Verify
    BY <1>3, WindowsShares, Zenon
  <2>2. WinData'
    BY <2>1, VerifyFacts, NoLeaseIs, NoCallIs DEF WinData
  <2> QED BY <1>0, <2>1, <2>2, VerifyStep
<1>4. CASE windows!EndRestore
  <2>1. EndRestore
    BY <1>4, WindowsShares, Zenon
  <2>2. WinData'
    BY <2>1, EndRestoreFacts, NoLeaseIs, NoCallIs DEF WinData
  <2> QED BY <1>0, <2>1, <2>2, EndRestoreStep
<1>5. CASE windows!CheckStatus("status", "read") \/ windows!CheckStatus("restat", "write")
  <2>1. CheckStatus("status", "read") \/ CheckStatus("restat", "write")
    BY <1>5, WindowsShares, Zenon
  <2>2. Core' /\ Kept
    BY <2>1, CheckStatusStep
  <2>3. CASE Answer("Rejected", NoState)
    BY <2>1, <2>2, <2>3, CheckStatusFacts, AnswerFacts, WinFrame DEF WinPlaces
  <2>4. CASE UNCHANGED <<call, loc>> /\ pc = "status" /\ pc' = "read"
    BY <2>1, <2>2, <2>4, CheckStatusFacts DEF WinData
  <2>5. CASE UNCHANGED <<call, loc>> /\ pc' = "write"
    BY <2>1, <2>2, <2>5, CheckStatusFacts, WinFrame DEF WinPlaces, WinData, SameCall
  <2> QED BY <2>1, <2>3, <2>4, <2>5, CheckStatusFacts
<1>6. CASE windows!ObserveInterface
  <2>1. CASE ObserveBegin("ob.4")
    <3>2. /\ UNCHANGED <<native, call>> /\ pc' = "ob.4" /\ lease'.base = NoState /\ loc'.cur = <<>>
      BY <2>1, ObserveBeginFacts, NoLocalsIs
    <3>1. WinData'
      BY <3>2 DEF WinData
    <3> QED BY <1>0, <2>1, <3>1, ObserveStep DEF Observing
  <2>2. CASE ObservePart("ob.4", {"ns4", "search4"}, "ob.6")
    <3>1. ASSUME pc' = "idle" /\ loc' = NoLocals /\ lease' = NoLease PROVE WinData'
      <4>1. UNCHANGED <<native, call>> /\ lease'.base = NoState
        BY <2>2, <3>1, ObservePartFacts, NoLeaseIs
      <4> QED BY <3>1, <4>1 DEF WinData
    <3>2. ASSUME pc' = "ob.6", loc'.cur = Filled(loc.cur, {"ns4", "search4"}), UNCHANGED lease
          PROVE  WinData'
      <4>1. Captured({})
        BY <2>2, ObservePartFacts, NothingRead DEF WinData, Captured
      <4>2. Captured({"ns4", "search4"})'
        BY <2>2, <3>2, <4>1, ObservePartFacts, CapturePart
      <4> QED BY <2>2, <3>2, <4>2, ObservePartFacts DEF WinData
    <3>3. WinData'
      BY <2>2, <3>1, <3>2, ObservePartFacts
    <3> QED BY <1>0, <2>2, <3>3, ObservePartStep DEF Observing
  <2>3. CASE ObservePart("ob.6", {"ns6", "search6"}, "ob.status")
    <3>1. ASSUME pc' = "idle" /\ loc' = NoLocals /\ lease' = NoLease PROVE WinData'
      <4>1. UNCHANGED <<native, call>> /\ lease'.base = NoState
        BY <2>3, <3>1, ObservePartFacts, NoLeaseIs
      <4> QED BY <3>1, <4>1 DEF WinData
    <3>2. ASSUME pc' = "ob.status", loc'.cur = Filled(loc.cur, {"ns6", "search6"}), UNCHANGED lease
          PROVE  WinData'
      <4>1. Captured({"ns4", "search4"})
        BY <2>3, ObservePartFacts DEF WinData
      <4>2. Captured({"ns4", "search4"} \cup {"ns6", "search6"})'
        BY <2>3, <3>2, <4>1, ObservePartFacts, CapturePart
      <4>3. {"ns4", "search4"} \cup {"ns6", "search6"} = StackFields
        BY DEF StackFields
      <4>4. Captured(StackFields)'
        BY <4>2, <4>3
      <4> QED BY <2>3, <3>2, <4>4, ObservePartFacts DEF WinData
    <3>3. WinData'
      BY <2>3, <3>1, <3>2, ObservePartFacts
    <3> QED BY <1>0, <2>3, <3>3, ObservePartStep DEF Observing
  <2>4. CASE ObserveEnd
    <3>1. pc = "ob.status" /\ Captured(StackFields) /\ ~call.running
      BY <2>4, ObserveEndFacts DEF WinData, Core, Phases, Resting, Observing
    <3>2. ~moved => loc.cur = native.dns
      BY <3>1, SameRecords DEF Captured, WinData
    <3>3. WinData'
      BY <2>4, <3>1, ObserveEndFacts, NoLeaseIs DEF WinData, Captured
    <3> QED BY <2>4, <3>2, <3>3, ObserveEndStep
  <2> QED BY <1>6, <2>1, <2>2, <2>3, <2>4, WindowsShares, Zenon DEF windows!ObserveInterface
<1>7. CASE windows!ReadInterface
  <2>1. CASE ReadPart("read", {"ns4", "search4"}, "read6")
    <3>1. ASSUME Answer("Rejected", NoState) PROVE WinData'
      BY <2>1, <3>1, ReadPartFacts, AnswerFacts, WinFrame DEF WinPlaces
    <3>2. ASSUME pc' = "read6", loc'.cur = Filled(loc.cur, {"ns4", "search4"}), UNCHANGED call
          PROVE  WinData'
      <4>1. Captured({})
        BY <2>1, ReadPartFacts, NothingRead DEF WinData, Captured
      <4>2. Captured({"ns4", "search4"})'
        BY <2>1, <3>2, <4>1, ReadPartFacts, CapturePart
      <4> QED BY <2>1, <3>2, <4>2, ReadPartFacts DEF WinData
    <3>3. WinData'
      BY <2>1, <3>1, <3>2, ReadPartFacts
    <3> QED BY <2>1, <3>3, ReadPartStep DEF Checking
  <2>2. CASE ReadPart("read6", {"ns6", "search6"}, "compare")
    <3>1. ASSUME Answer("Rejected", NoState) PROVE WinData'
      BY <2>2, <3>1, ReadPartFacts, AnswerFacts, WinFrame DEF WinPlaces
    <3>2. ASSUME pc' = "compare", loc'.cur = Filled(loc.cur, {"ns6", "search6"}), UNCHANGED call
          PROVE  WinData'
      <4>1. Captured({"ns4", "search4"})
        BY <2>2, ReadPartFacts DEF WinData
      <4>2. Captured({"ns4", "search4"} \cup {"ns6", "search6"})'
        BY <2>2, <3>2, <4>1, ReadPartFacts, CapturePart
      <4>3. {"ns4", "search4"} \cup {"ns6", "search6"} = StackFields
        BY DEF StackFields
      <4>4. Captured(StackFields)'
        BY <4>2, <4>3
      <4> QED BY <2>2, <3>2, <4>4, ReadPartFacts DEF WinData
    <3>3. WinData'
      BY <2>2, <3>1, <3>2, ReadPartFacts
    <3> QED BY <2>2, <3>3, ReadPartStep DEF Checking
  <2> QED BY <1>7, <2>1, <2>2, WindowsShares, Zenon DEF windows!ReadInterface
<1>8. CASE windows!CompareParts
  <2>1. CompareParts
    BY <1>8, WindowsShares, Zenon
  <2>2. pc = "compare" /\ Captured(StackFields) /\ call.running
    BY <2>1, ComparePartsFacts DEF WinData, Core, Phases, Resting, Observing
  <2>3. ~call.disturbed => loc.cur = native.dns
    BY <2>2, SameRecords DEF Captured, WinData
  <2>4. /\ UNCHANGED <<native, lease>> /\ SameCall /\ call'.produced = NoState
        /\ pc' \in {"idle", "restat"}
    BY <2>1, ComparePartsFacts, AnswerFacts, ConfirmedFacts DEF WinData
  <2>5. WinData'
    BY <2>4, WinFrame DEF WinPlaces
  <2> QED BY <2>1, <2>3, <2>5, ComparePartsStep
<1>9. CASE windows!SetInterface
  <2> DEFINE four == [native EXCEPT !.dns["ns4"] = WantedStacks["ns4"],
                                    !.dns["search4"] = WantedStacks["search4"]]
             six == [native EXCEPT !.dns["ns6"] = WantedStacks["ns6"],
                                   !.dns["search6"] = WantedStacks["search6"]]
  <2>1. /\ Rec(four, ResourceFields) /\ four.inc = native.inc /\ four.rest = native.rest
        /\ Rec(four.dns, StackFields) /\ four.dns.ns4 = WantedStacks.ns4
        /\ four.dns.search4 = WantedStacks.search4
    BY DEF Core, Shapes, Rec, ResourceFields, WinData, StackFields
  <2>2. /\ Rec(six, ResourceFields) /\ six.inc = native.inc /\ six.rest = native.rest
        /\ Rec(six.dns, StackFields) /\ six.dns.ns6 = WantedStacks.ns6
        /\ six.dns.search6 = WantedStacks.search6 /\ six.dns.ns4 = native.dns.ns4
        /\ six.dns.search4 = native.dns.search4
    BY DEF Core, Shapes, Rec, ResourceFields, WinData, StackFields
  <2> HIDE DEF four, six
  <2>3. ASSUME pc \in {"write", "write6"}
        PROVE  /\ call.running /\ call.confirmed /\ pc \notin Checking /\ ~call.guarded
               /\ WantedStacks \in call.goal /\ Rec(WantedStacks, StackFields)
    <3>1. call.running /\ call.confirmed /\ pc \notin Checking
      BY <2>3 DEF Core, Phases, Resting, Observing, Checking
    <3>2. CASE call.op = "apply"
      <4>1. Rec(windows!InterfaceState(call.plan), StackFields)
        BY DEF windows!InterfaceState, Rec, StackFields
      <4> QED BY <3>1, <3>2, <4>1 DEF WinData, WantedStacks
    <3>3. CASE call.op = "restore"
      BY <1>0, <3>1, <3>3 DEF WinData, WantedStacks, Core, Faithful
    <3> QED BY <3>1, <3>2, <3>3 DEF Core, Phases, WinData
  <2>4. CASE native.up /\ Writing("write", four, "write6") /\ UNCHANGED aux
    <3>1. pc = "write"
      BY <2>4, WritingFacts
    <3>2. Core' /\ Kept
      BY <1>0, <2>1, <2>3, <2>4, <3>1, WritingStep DEF Written
    <3>3. WinData'
      <4>1. CASE pc' = "return" /\ native' \in {native, four}
        BY <2>1, <2>4, <4>1, WritingFacts DEF WinData, SameCall
      <4>2. CASE pc' = "write6" /\ native' = four
        BY <2>1, <2>4, <4>2, WritingFacts DEF WinData, SameCall, WantedStacks
      <4> QED BY <2>4, <4>1, <4>2, WritingFacts
    <3> QED BY <3>2, <3>3
  <2>5. CASE native.up /\ Writing("write6", six, "return") /\ UNCHANGED aux
    <3>1. pc = "write6"
      BY <2>5, WritingFacts
    <3>2. call.disturbed \/ six.dns \in call.goal
      <4> SUFFICES ASSUME ~call.disturbed PROVE six.dns \in call.goal
        OBVIOUS
      <4>1. \A f \in StackFields : six.dns[f] = WantedStacks[f]
        BY <2>2, <3>1 DEF WinData, StackFields
      <4>2. six.dns = WantedStacks
        BY <2>2, <2>3, <3>1, <4>1, SameRecords
      <4> QED BY <2>3, <3>1, <4>2
    <3>3. Core' /\ Kept
      BY <1>0, <2>2, <2>3, <2>5, <3>1, <3>2, WritingStep DEF Written
    <3>4. WinData'
      BY <2>2, <2>5, WritingFacts DEF WinData, SameCall
    <3> QED BY <3>3, <3>4
  <2>6. CASE pc \in {"write", "write6"} /\ Result("err")
             /\ UNCHANGED <<kind, native, aux, call, lease, first, moved, calls, events>>
    <3>1. Core' /\ Kept
      BY <2>3, <2>6, ResultStep
    <3> QED BY <2>6, <3>1, ResultFacts, WinFrame DEF WinPlaces, WinData, SameCall
  <2>7. \/ native.up /\ windows!Writing("write", four, "write6") /\ UNCHANGED aux
        \/ native.up /\ windows!Writing("write6", six, "return") /\ UNCHANGED aux
        \/ /\ pc \in {"write", "write6"} /\ windows!Result("err")
           /\ UNCHANGED <<kind, native, aux, call, lease, first, moved, calls, events>>
    BY <1>9, SMT DEF windows!SetInterface, windows!SetStack, windows!hist, windows!bounds,
       WantedStacks, four, six
  <2> QED BY <2>4, <2>5, <2>6, <2>7, WindowsShares, Zenon
<1>10. CASE windows!RivalInterface
  <2>1. ASSUME NEW r, windows!Foreign(r), Rec(r, ResourceFields), Rec(r.dns, StackFields)
        PROVE  Core' /\ Kept /\ WinData'
    <3>1. Foreign(r)
      BY <2>1, WindowsShares, Zenon
    <3>2. Core' /\ Kept
      BY <1>0, <2>1, <3>1, ForeignStep
    <3>3. /\ SameCall /\ call'.running = call.running /\ call'.produced = call.produced
          /\ call'.disturbed = (call.disturbed \/ call.running) /\ native' = r
          /\ moved' = TRUE /\ UNCHANGED <<pc, loc, lease>>
      BY <3>1, ForeignFacts
    <3>4. pc = "write6" => call.running
      BY DEF Core, Phases, Resting, Observing
    <3>5. WinData'
      BY <2>1, <3>3, <3>4 DEF WinData, SameCall, Captured
    <3> QED BY <3>2, <3>5
  <2>2. ASSUME NEW ns, windows!Foreign([native EXCEPT !.dns.ns4 = ns])
        PROVE  Core' /\ Kept /\ WinData'
    <3> DEFINE r == [native EXCEPT !.dns.ns4 = ns]
    <3>1. Rec(r, ResourceFields) /\ Rec(r.dns, StackFields)
      BY DEF Core, Shapes, Rec, ResourceFields, WinData, StackFields
    <3> HIDE DEF r
    <3>2. windows!Foreign(r)
      BY <2>2, Zenon DEF r
    <3> QED BY <2>1, <3>1, <3>2
  <2>3. ASSUME windows!Foreign([native EXCEPT !.up = ~@])
        PROVE  Core' /\ Kept /\ WinData'
    <3> DEFINE r == [native EXCEPT !.up = ~@]
    <3>1. Rec(r, ResourceFields) /\ Rec(r.dns, StackFields)
      BY DEF Core, Shapes, Rec, ResourceFields, WinData, StackFields
    <3> HIDE DEF r
    <3>2. windows!Foreign(r)
      BY <2>3, Zenon DEF r
    <3> QED BY <2>1, <3>1, <3>2
  <2> QED BY <1>10, <2>2, <2>3, Zenon DEF windows!RivalInterface
<1>11. CASE windows!Return
  <2>1. Return
    BY <1>11, WindowsShares, Zenon
  <2> QED BY <2>1, ReturnFacts, ReturnStep, AnswerFacts, WinFrame DEF WinPlaces
<1>12. CASE windows!Crash
  <2>1. Crash
    BY <1>12, WindowsShares, Zenon
  <2>2. WinData'
    BY <2>1, CrashFacts, NoLeaseIs, NoCallIs DEF WinData
  <2> QED BY <1>0, <2>1, <2>2, CrashStep
<1>13. ~windows!RivalRule
  BY DEF windows!RivalRule
<1> QED
  BY <1>0, <1>1, <1>2, <1>3, <1>4, <1>5, <1>6, <1>7, <1>8, <1>9, <1>10, <1>11, <1>12, <1>13, Zenon
  DEF windows!Next

-----------------------------------------------------------------------------
(* systemd-resolved. *)

\* The backend shares these steps with the others.
LEMMA ResolvedShares ==
    /\ \A to : resolved!ObserveBegin(to) <=> ObserveBegin(to)
    /\ \A from, fields, to : resolved!ObservePart(from, fields, to) <=> ObservePart(from, fields, to)
    /\ resolved!ObserveEnd <=> ObserveEnd
    /\ \A plan, goal, guarded : resolved!BeginApply(plan, goal, guarded) <=> BeginApply(plan, goal, guarded)
    /\ \A goal, guarded : resolved!BeginRestore(goal, guarded) <=> BeginRestore(goal, guarded)
    /\ resolved!Verify <=> Verify
    /\ resolved!EndRestore <=> EndRestore
    /\ \A from, to : resolved!CheckStatus(from, to) <=> CheckStatus(from, to)
    /\ \A from, fields, to : resolved!ReadPart(from, fields, to) <=> ReadPart(from, fields, to)
    /\ resolved!CompareParts <=> CompareParts
    /\ \A from, resource, to : resolved!Writing(from, resource, to) <=> Writing(from, resource, to)
    /\ \A resource : resolved!Wrote(resource) <=> Wrote(resource)
    /\ \A res : resolved!Result(res) <=> Result(res)
    /\ \A resource : resolved!Foreign(resource) <=> Foreign(resource)
    /\ resolved!Return <=> Return
    /\ resolved!Crash <=> Crash
<1>1. \A to : resolved!ObserveBegin(to) <=> ObserveBegin(to)
  BY Zenon DEF resolved!ObserveBegin, resolved!Called, resolved!NoLocals, resolved!NoLease,
      ObserveBegin, Called, NoLocals, NoLease
<1>2. \A from, fields, to : resolved!ObservePart(from, fields, to) <=> ObservePart(from, fields, to)
  BY Zenon DEF resolved!ObservePart, resolved!Filled, resolved!Faulty, resolved!ObserveFailed,
      resolved!NoLocals, resolved!NoLease, resolved!bounds, resolved!hist, ObservePart, Filled,
      Faulty, ObserveFailed, NoLocals, NoLease, bounds, hist
<1>3. resolved!ObserveEnd <=> ObserveEnd
  BY Zenon DEF resolved!ObserveEnd, resolved!NoLocals, resolved!NoLease, resolved!bounds,
      resolved!hist, ObserveEnd, NoLocals, NoLease, bounds, hist
<1>4. \A plan, goal, guarded : resolved!BeginApply(plan, goal, guarded) <=> BeginApply(plan, goal, guarded)
  BY Zenon DEF resolved!BeginApply, resolved!Called, resolved!NoLease, resolved!Begin,
      resolved!NoCall, resolved!NoLocals, resolved!hist, BeginApply, Called, NoLease, Begin,
      NoCall, NoLocals, hist
<1>5. \A goal, guarded : resolved!BeginRestore(goal, guarded) <=> BeginRestore(goal, guarded)
  BY Zenon DEF resolved!BeginRestore, resolved!Called, resolved!Begin, resolved!NoCall,
      resolved!NoLocals, resolved!hist, BeginRestore, Called, Begin, NoCall, NoLocals, hist
<1>6. resolved!Verify <=> Verify
  BY Zenon DEF resolved!Verify, resolved!NoLease, resolved!NoCall, resolved!Snap, resolved!hist,
      resolved!bounds, Verify, NoLease, NoCall, Snap, hist, bounds
<1>7. resolved!EndRestore <=> EndRestore
  BY Zenon DEF resolved!EndRestore, resolved!NoLease, resolved!NoCall, resolved!hist,
      resolved!bounds, EndRestore, NoLease, NoCall, hist, bounds
<1>8. \A from, to : resolved!CheckStatus(from, to) <=> CheckStatus(from, to)
  BY Zenon DEF resolved!CheckStatus, resolved!StatusSame, resolved!Goto, resolved!Answer,
      resolved!NoLocals, resolved!Faulty, resolved!hist, resolved!bounds, CheckStatus,
      StatusSame, Goto, Answer, NoLocals, Faulty, hist, bounds
<1>9. \A from, fields, to : resolved!ReadPart(from, fields, to) <=> ReadPart(from, fields, to)
  BY Zenon DEF resolved!ReadPart, resolved!Filled, resolved!Answer, resolved!NoLocals,
      resolved!Faulty, resolved!hist, resolved!bounds, ReadPart, Filled, Answer, NoLocals,
      Faulty, hist, bounds
<1>10. resolved!CompareParts <=> CompareParts
  BY Zenon DEF resolved!CompareParts, resolved!CheckExpected, resolved!Confirmed,
      resolved!Answer, resolved!NoLocals, resolved!hist, resolved!bounds, CompareParts,
      CheckExpected, Confirmed, Answer, NoLocals, hist, bounds
<1>11. \A from, resource, to : resolved!Writing(from, resource, to) <=> Writing(from, resource, to)
  BY Zenon DEF resolved!Writing, resolved!Wrote, resolved!Result, resolved!Faulty,
      resolved!hist, resolved!bounds, Writing, Wrote, Result, Faulty, hist, bounds
<1>12. \A resource : resolved!Wrote(resource) <=> Wrote(resource)
  BY Zenon DEF resolved!Wrote, Wrote
<1>13. \A res : resolved!Result(res) <=> Result(res)
  BY Zenon DEF resolved!Result, Result
<1>14. \A resource : resolved!Foreign(resource) <=> Foreign(resource)
  BY Zenon DEF resolved!Foreign, Foreign
<1>15. resolved!Return <=> Return
  BY Zenon DEF resolved!Return, resolved!Answer, resolved!NoLocals, resolved!hist,
      resolved!bounds, Return, Answer, NoLocals, hist, bounds
<1>16. resolved!Crash <=> Crash
  BY Zenon DEF resolved!Crash, resolved!Faulty, resolved!NoCall, resolved!NoLocals,
      resolved!NoLease, resolved!hist, Crash, Faulty, NoCall, NoLocals, NoLease, hist
<1> QED BY <1>1, <1>2, <1>3, <1>4, <1>5, <1>6, <1>7, <1>8, <1>9, <1>10, <1>11, <1>12, <1>13, <1>14, <1>15, <1>16

LinkFields == {"ns", "domains", "route"}

IsLink(dns) == Rec(dns, LinkFields) /\ dns.route \in {"yes", "no"}

LinkData ==
    /\ IsLink(native.dns)
    /\ lease.base # NoState => IsLink(lease.base.dns)
    /\ call.produced = NoState /\ ~call.guarded
    /\ call.op = "apply" =>
          /\ call.plan.route \in {"unset", "yes", "no"}
          /\ \A r \in {"yes", "no"} : resolved!Merged(call.plan, r) \in call.goal
    /\ pc \in {"ob.ns", "status", "read"} => loc.cur = <<>>
    /\ pc \in {"ob.domains", "read.domains"} => Captured({"ns"})
    /\ pc \in {"ob.route", "read.route"} => Captured({"ns", "domains"})
    /\ pc \in {"ob.status", "compare"} => Captured(LinkFields) /\ IsLink(loc.cur)
    /\ pc \in {"set.dns", "set.domains", "set.route"} => IsLink(loc.cur) /\ loc.cur \in call.goal
    /\ pc \in {"set.domains", "set.route"} /\ ~call.disturbed => native.dns.ns = loc.cur.ns
    /\ pc = "set.route" /\ ~call.disturbed => native.dns.domains = loc.cur.domains

LinkPlaces ==
    {"ob.ns", "ob.domains", "ob.route", "ob.status", "status", "read", "read.domains",
     "read.route", "compare", "set.dns", "set.domains", "set.route"}

LEMMA LinkFrame ==
    ASSUME LinkData, UNCHANGED <<native, lease>>, SameCall, call'.produced = NoState,
           pc' \notin LinkPlaces
    PROVE  LinkData'
BY DEF LinkData, SameCall, LinkPlaces

LEMMA MergedLinks ==
    ASSUME NEW plan, plan.route \in {"unset", "yes", "no"}, NEW r \in {"yes", "no"}
    PROVE  IsLink(resolved!Merged(plan, r))
BY DEF IsLink, resolved!Merged, Rec, LinkFields

LEMMA PlannedRoutes ==
    ASSUME NEW p \in resolved!Plans
    PROVE  p.route \in {"unset", "yes", "no"}
<1>1. PICK q \in Requests : p = resolved!Built(q)
  BY DEF resolved!Plans, resolved!Accepted
<1> QED BY <1>1, RequestsAssumption DEF resolved!Built

LEMMA LinkStep ==
    ASSUME Core, LinkData, resolved!Next
    PROVE  Core' /\ Kept /\ LinkData'
<1>0. kind = "resolved" /\ kind # "detecting" /\ kind # "bsd" /\ ~Occupied
  BY DEF Occupied, resolved!Next
<1>1. ASSUME NEW p \in resolved!Plans,
             resolved!BeginApply(p, {resolved!Merged(p, r) : r \in {"yes", "no"}}, FALSE)
      PROVE  Core' /\ Kept /\ LinkData'
  <2>1. BeginApply(p, {resolved!Merged(p, r) : r \in {"yes", "no"}}, FALSE)
    BY <1>1, ResolvedShares, Zenon
  <2>2. /\ Core' /\ Kept /\ pc' = "status" /\ loc' = NoLocals /\ UNCHANGED <<native, lease>>
        /\ call'.op = "apply" /\ call'.plan = p /\ ~call'.guarded
        /\ call'.goal = {resolved!Merged(p, r) : r \in {"yes", "no"}} /\ call'.produced = NoState
    BY <1>0, <2>1, BeginApplyStep
  <2>3. LinkData'
    BY <1>1, <2>2, NoLocalsIs, PlannedRoutes DEF LinkData
  <2> QED BY <2>2, <2>3
<1>2. CASE resolved!BeginRestore(resolved!Before, FALSE)
  <2>1. BeginRestore({lease.base.dns}, FALSE)
    BY <1>2, ResolvedShares, Zenon DEF resolved!Before
  <2>2. /\ Core' /\ Kept /\ pc' = "status" /\ loc' = NoLocals /\ UNCHANGED <<native, lease>>
        /\ call'.op = "restore" /\ ~call'.guarded /\ call'.produced = NoState
    BY <1>0, <2>1, BeginRestoreStep
  <2>3. LinkData'
    BY <2>2, NoLocalsIs DEF LinkData
  <2> QED BY <2>2, <2>3
<1>3. CASE resolved!Verify
  <2>1. Verify
    BY <1>3, ResolvedShares, Zenon
  <2>2. LinkData'
    BY <2>1, VerifyFacts, NoLeaseIs, NoCallIs DEF LinkData
  <2> QED BY <1>0, <2>1, <2>2, VerifyStep
<1>4. CASE resolved!EndRestore
  <2>1. EndRestore
    BY <1>4, ResolvedShares, Zenon
  <2>2. LinkData'
    BY <2>1, EndRestoreFacts, NoLeaseIs, NoCallIs DEF LinkData
  <2> QED BY <1>0, <2>1, <2>2, EndRestoreStep
<1>5. CASE resolved!CheckStatus("status", "read") \/ resolved!CheckStatus("restat", "write")
  <2>1. CheckStatus("status", "read") \/ CheckStatus("restat", "write")
    BY <1>5, ResolvedShares, Zenon
  <2>2. Core' /\ Kept
    BY <2>1, CheckStatusStep
  <2>3. CASE Answer("Rejected", NoState)
    BY <2>1, <2>2, <2>3, CheckStatusFacts, AnswerFacts, LinkFrame DEF LinkPlaces
  <2>4. CASE UNCHANGED <<call, loc>> /\ pc = "status" /\ pc' = "read"
    BY <2>1, <2>2, <2>4, CheckStatusFacts DEF LinkData
  <2>5. CASE UNCHANGED <<call, loc>> /\ pc' = "write"
    BY <2>1, <2>2, <2>5, CheckStatusFacts, LinkFrame DEF LinkPlaces, LinkData, SameCall
  <2> QED BY <2>1, <2>3, <2>4, <2>5, CheckStatusFacts
<1>6. CASE resolved!ObserveLink
  <2>1. CASE ObserveBegin("ob.ns")
    <3>2. /\ UNCHANGED <<native, call>> /\ pc' = "ob.ns" /\ lease'.base = NoState /\ loc'.cur = <<>>
      BY <2>1, ObserveBeginFacts, NoLocalsIs
    <3>1. LinkData'
      BY <3>2 DEF LinkData
    <3> QED BY <1>0, <2>1, <3>1, ObserveStep DEF Observing
  <2>2. CASE ObservePart("ob.ns", {"ns"}, "ob.domains")
    <3>1. ASSUME pc' = "idle" /\ loc' = NoLocals /\ lease' = NoLease PROVE LinkData'
      <4>1. UNCHANGED <<native, call>> /\ lease'.base = NoState
        BY <2>2, <3>1, ObservePartFacts, NoLeaseIs
      <4> QED BY <3>1, <4>1 DEF LinkData
    <3>2. ASSUME pc' = "ob.domains", loc'.cur = Filled(loc.cur, {"ns"}), UNCHANGED lease
          PROVE  LinkData'
      <4>1. Captured({})
        BY <2>2, ObservePartFacts, NothingRead DEF LinkData, Captured
      <4>2. Captured({} \cup {"ns"})'
        BY <2>2, <3>2, <4>1, ObservePartFacts, CapturePart
      <4>3. {} \cup {"ns"} = {"ns"}
        BY DEF LinkFields
      <4>4. Captured({"ns"})'
        BY <4>2, <4>3
      <4> QED BY <2>2, <3>2, <4>4, ObservePartFacts DEF LinkData
    <3>3. LinkData'
      BY <2>2, <3>1, <3>2, ObservePartFacts
    <3> QED BY <1>0, <2>2, <3>3, ObservePartStep DEF Observing
  <2>3. CASE ObservePart("ob.domains", {"domains"}, "ob.route")
    <3>1. ASSUME pc' = "idle" /\ loc' = NoLocals /\ lease' = NoLease PROVE LinkData'
      <4>1. UNCHANGED <<native, call>> /\ lease'.base = NoState
        BY <2>3, <3>1, ObservePartFacts, NoLeaseIs
      <4> QED BY <3>1, <4>1 DEF LinkData
    <3>2. ASSUME pc' = "ob.route", loc'.cur = Filled(loc.cur, {"domains"}), UNCHANGED lease
          PROVE  LinkData'
      <4>1. Captured({"ns"})
        BY <2>3, ObservePartFacts DEF LinkData
      <4>2. Captured({"ns"} \cup {"domains"})'
        BY <2>3, <3>2, <4>1, ObservePartFacts, CapturePart
      <4>3. {"ns"} \cup {"domains"} = {"ns", "domains"}
        BY DEF LinkFields
      <4>4. Captured({"ns", "domains"})'
        BY <4>2, <4>3
      <4> QED BY <2>3, <3>2, <4>4, ObservePartFacts DEF LinkData
    <3>3. LinkData'
      BY <2>3, <3>1, <3>2, ObservePartFacts
    <3> QED BY <1>0, <2>3, <3>3, ObservePartStep DEF Observing
  <2>4. CASE ObservePart("ob.route", {"route"}, "ob.status")
    <3>1. ASSUME pc' = "idle" /\ loc' = NoLocals /\ lease' = NoLease PROVE LinkData'
      <4>1. UNCHANGED <<native, call>> /\ lease'.base = NoState
        BY <2>4, <3>1, ObservePartFacts, NoLeaseIs
      <4> QED BY <3>1, <4>1 DEF LinkData
    <3>2. ASSUME pc' = "ob.status", loc'.cur = Filled(loc.cur, {"route"}), UNCHANGED lease
          PROVE  LinkData'
      <4>1. Captured({"ns", "domains"})
        BY <2>4, ObservePartFacts DEF LinkData
      <4>2. Captured({"ns", "domains"} \cup {"route"})'
        BY <2>4, <3>2, <4>1, ObservePartFacts, CapturePart
      <4>3. {"ns", "domains"} \cup {"route"} = LinkFields
        BY DEF LinkFields
      <4>4. Captured(LinkFields)'
        BY <4>2, <4>3
      <4>5. loc'.cur.route = native.dns.route
        BY <3>2 DEF Filled
      <4>6. IsLink(loc.cur)'
        BY <4>4, <4>5 DEF Captured, IsLink, LinkData
      <4> QED BY <2>4, <3>2, <4>4, <4>6, ObservePartFacts DEF LinkData
    <3>3. LinkData'
      BY <2>4, <3>1, <3>2, ObservePartFacts
    <3> QED BY <1>0, <2>4, <3>3, ObservePartStep DEF Observing
  <2>5. CASE ObserveEnd
    <3>1. pc = "ob.status" /\ Captured(LinkFields) /\ IsLink(loc.cur) /\ ~call.running
      BY <2>5, ObserveEndFacts DEF LinkData, Core, Phases, Resting, Observing
    <3>2. ~moved => loc.cur = native.dns
      BY <3>1, SameRecords DEF Captured, LinkData, IsLink
    <3>3. LinkData'
      BY <2>5, <3>1, ObserveEndFacts, NoLeaseIs DEF LinkData
    <3> QED BY <2>5, <3>2, <3>3, ObserveEndStep
  <2> QED BY <1>6, <2>1, <2>2, <2>3, <2>4, <2>5, ResolvedShares, Zenon DEF resolved!ObserveLink
<1>7. CASE resolved!ReadLink
  <2>1. CASE ReadPart("read", {"ns"}, "read.domains")
    <3>1. ASSUME Answer("Rejected", NoState) PROVE LinkData'
      BY <2>1, <3>1, ReadPartFacts, AnswerFacts, LinkFrame DEF LinkPlaces
    <3>2. ASSUME pc' = "read.domains", loc'.cur = Filled(loc.cur, {"ns"}), UNCHANGED call
          PROVE  LinkData'
      <4>1. Captured({})
        BY <2>1, ReadPartFacts, NothingRead DEF LinkData, Captured
      <4>2. Captured({} \cup {"ns"})'
        BY <2>1, <3>2, <4>1, ReadPartFacts, CapturePart
      <4>3. {} \cup {"ns"} = {"ns"}
        BY DEF LinkFields
      <4>4. Captured({"ns"})'
        BY <4>2, <4>3
      <4> QED BY <2>1, <3>2, <4>4, ReadPartFacts DEF LinkData
    <3>3. LinkData'
      BY <2>1, <3>1, <3>2, ReadPartFacts
    <3> QED BY <2>1, <3>3, ReadPartStep DEF Checking
  <2>2. CASE ReadPart("read.domains", {"domains"}, "read.route")
    <3>1. ASSUME Answer("Rejected", NoState) PROVE LinkData'
      BY <2>2, <3>1, ReadPartFacts, AnswerFacts, LinkFrame DEF LinkPlaces
    <3>2. ASSUME pc' = "read.route", loc'.cur = Filled(loc.cur, {"domains"}), UNCHANGED call
          PROVE  LinkData'
      <4>1. Captured({"ns"})
        BY <2>2, ReadPartFacts DEF LinkData
      <4>2. Captured({"ns"} \cup {"domains"})'
        BY <2>2, <3>2, <4>1, ReadPartFacts, CapturePart
      <4>3. {"ns"} \cup {"domains"} = {"ns", "domains"}
        BY DEF LinkFields
      <4>4. Captured({"ns", "domains"})'
        BY <4>2, <4>3
      <4> QED BY <2>2, <3>2, <4>4, ReadPartFacts DEF LinkData
    <3>3. LinkData'
      BY <2>2, <3>1, <3>2, ReadPartFacts
    <3> QED BY <2>2, <3>3, ReadPartStep DEF Checking
  <2>3. CASE ReadPart("read.route", {"route"}, "compare")
    <3>1. ASSUME Answer("Rejected", NoState) PROVE LinkData'
      BY <2>3, <3>1, ReadPartFacts, AnswerFacts, LinkFrame DEF LinkPlaces
    <3>2. ASSUME pc' = "compare", loc'.cur = Filled(loc.cur, {"route"}), UNCHANGED call
          PROVE  LinkData'
      <4>1. Captured({"ns", "domains"})
        BY <2>3, ReadPartFacts DEF LinkData
      <4>2. Captured({"ns", "domains"} \cup {"route"})'
        BY <2>3, <3>2, <4>1, ReadPartFacts, CapturePart
      <4>3. {"ns", "domains"} \cup {"route"} = LinkFields
        BY DEF LinkFields
      <4>4. Captured(LinkFields)'
        BY <4>2, <4>3
      <4>5. loc'.cur.route = native.dns.route
        BY <3>2 DEF Filled
      <4>6. IsLink(loc.cur)'
        BY <4>4, <4>5 DEF Captured, IsLink, LinkData
      <4> QED BY <2>3, <3>2, <4>4, <4>6, ReadPartFacts DEF LinkData
    <3>3. LinkData'
      BY <2>3, <3>1, <3>2, ReadPartFacts
    <3> QED BY <2>3, <3>3, ReadPartStep DEF Checking
  <2> QED BY <1>7, <2>1, <2>2, <2>3, ResolvedShares, Zenon DEF resolved!ReadLink
<1>8. CASE resolved!CompareParts
  <2>1. CompareParts
    BY <1>8, ResolvedShares, Zenon
  <2>2. pc = "compare" /\ Captured(LinkFields) /\ call.running
    BY <2>1, ComparePartsFacts DEF LinkData, Core, Phases, Resting, Observing
  <2>3. ~call.disturbed => loc.cur = native.dns
    BY <2>2, SameRecords DEF Captured, LinkData, IsLink
  <2>4. /\ UNCHANGED <<native, lease>> /\ SameCall /\ call'.produced = NoState
        /\ pc' \in {"idle", "restat"}
    BY <2>1, ComparePartsFacts, AnswerFacts, ConfirmedFacts DEF LinkData
  <2>5. LinkData'
    BY <2>4, LinkFrame DEF LinkPlaces
  <2> QED BY <2>1, <2>3, <2>5, ComparePartsStep
<1>9. CASE resolved!Prepare
  <2>1. pc = "write" /\ UNCHANGED <<kind, native, aux, call, lease, first, moved, calls, events>>
    BY <1>9 DEF resolved!Prepare, resolved!Faulty, resolved!bounds, resolved!hist
  <2>2. call.running /\ pc \notin Checking
    BY <2>1 DEF Core, Phases, Resting, Observing, Checking
  <2>3. ASSUME NEW dns, IsLink(dns), dns \in call.goal, loc' = [loc EXCEPT !.cur = dns],
               pc' = "set.dns"
        PROVE  Core' /\ Kept /\ LinkData'
    <3>1. Rec(loc', {"cur", "res"}) /\ loc'.cur = dns
      BY <2>3 DEF Core, Shapes, Rec
    <3>2. Core' /\ Kept
      BY <2>1, <2>2, <2>3, <3>1, QuietStep DEF Resting, Observing, Checking, Ready
    <3>3. LinkData'
      BY <2>1, <2>3, <3>1 DEF LinkData
    <3> QED BY <3>2, <3>3
  <2>4. CASE call.op = "apply" /\ loc' = [loc EXCEPT !.cur = resolved!Merged(call.plan, native.dns.route)]
             /\ pc' = "set.dns"
    BY <2>3, <2>4, MergedLinks DEF LinkData, IsLink
  <2>5. CASE call.op = "restore" /\ loc' = [loc EXCEPT !.cur = call.target.dns] /\ pc' = "set.dns"
    BY <1>0, <2>3, <2>5 DEF LinkData, Core, Faithful
  <2>6. CASE resolved!Result("err")
    <3>1. Result("err")
      BY <2>6, ResolvedShares, Zenon
    <3>2. Core' /\ Kept
      BY <2>1, <2>2, <3>1, ResultStep
    <3> QED BY <2>1, <3>1, <3>2, ResultFacts, LinkFrame DEF LinkPlaces, LinkData, SameCall
  <2> QED BY <1>9, <2>4, <2>5, <2>6, Zenon DEF resolved!Prepare
<1>10. CASE resolved!SetLinkDns \/ resolved!SetLinkDomains \/ resolved!SetLinkDefaultRoute
  <2> DEFINE new(field) == [native EXCEPT !.dns[field] = loc.cur[field]]
  <2>1. ASSUME NEW field \in LinkFields, pc \in {"set.dns", "set.domains", "set.route"}
        PROVE  /\ Rec(new(field), ResourceFields) /\ new(field).inc = native.inc
               /\ new(field).rest = native.rest /\ IsLink(new(field).dns)
               /\ new(field).dns[field] = loc.cur[field]
               /\ \A f \in LinkFields \ {field} : new(field).dns[f] = native.dns[f]
    BY <2>1 DEF Core, Shapes, Rec, ResourceFields, LinkData, LinkFields, IsLink
  <2> HIDE DEF new
  <2>2. ASSUME pc \in {"set.dns", "set.domains", "set.route"}
        PROVE  /\ call.running /\ call.confirmed /\ pc \notin Checking /\ ~call.guarded
    BY <2>2 DEF Core, Phases, Resting, Observing, Checking, LinkData
  <2>3. CASE Writing("set.dns", new("ns"), "set.domains")
    <3>1. pc = "set.dns"
      BY <2>3, WritingFacts
    <3>2. Core' /\ Kept
      BY <1>0, <2>1, <2>2, <2>3, <3>1, WritingStep DEF Written, LinkFields
    <3>3. /\ native' \in {native, new("ns")} /\ lease' = lease /\ SameCall
          /\ call'.produced = call.produced /\ call'.disturbed = call.disturbed
          /\ pc' = "return" \/ (pc' = "set.domains" /\ native' = new("ns") /\ loc' = loc)
      BY <2>3, WritingFacts
    <3>4. LinkData'
      BY <2>1, <3>1, <3>3 DEF LinkData, SameCall, LinkFields
    <3> QED BY <3>2, <3>4
  <2>4. CASE Writing("set.domains", new("domains"), "set.route")
    <3>1. pc = "set.domains"
      BY <2>4, WritingFacts
    <3>2. Core' /\ Kept
      BY <1>0, <2>1, <2>2, <2>4, <3>1, WritingStep DEF Written, LinkFields
    <3>3. /\ native' \in {native, new("domains")} /\ lease' = lease /\ SameCall
          /\ call'.produced = call.produced /\ call'.disturbed = call.disturbed
          /\ pc' = "return" \/ (pc' = "set.route" /\ native' = new("domains") /\ loc' = loc)
      BY <2>4, WritingFacts
    <3>4. LinkData'
      BY <2>1, <3>1, <3>3 DEF LinkData, SameCall, LinkFields
    <3> QED BY <3>2, <3>4
  <2>5. CASE Writing("set.route", new("route"), "return")
    <3>1. pc = "set.route" /\ IsLink(loc.cur) /\ loc.cur \in call.goal
      BY <2>5, WritingFacts DEF LinkData
    <3>2. call.disturbed \/ new("route").dns \in call.goal
      <4> SUFFICES ASSUME ~call.disturbed PROVE new("route").dns \in call.goal
        OBVIOUS
      <4>1. \A f \in LinkFields : new("route").dns[f] = loc.cur[f]
        BY <2>1, <3>1 DEF LinkData, LinkFields
      <4>2. new("route").dns = loc.cur
        BY <2>1, <3>1, <4>1, SameRecords DEF IsLink, LinkFields
      <4> QED BY <3>1, <4>2
    <3>3. Core' /\ Kept
      BY <1>0, <2>1, <2>2, <2>5, <3>1, <3>2, WritingStep DEF Written, LinkFields
    <3>4. /\ native' \in {native, new("route")} /\ lease' = lease /\ SameCall
          /\ call'.produced = call.produced /\ pc' = "return"
      BY <2>5, WritingFacts
    <3>5. LinkData'
      BY <2>1, <3>1, <3>4 DEF LinkData, SameCall, LinkFields
    <3> QED BY <3>3, <3>5
  <2>6. CASE pc \in {"set.dns", "set.domains", "set.route"} /\ Result("err")
             /\ UNCHANGED <<kind, native, aux, call, lease, first, moved, calls, events>>
    <3>1. Core' /\ Kept
      BY <2>2, <2>6, ResultStep
    <3> QED BY <2>6, <3>1, ResultFacts, LinkFrame DEF LinkPlaces, LinkData, SameCall
  <2>7. \/ resolved!Writing("set.dns", new("ns"), "set.domains")
        \/ resolved!Writing("set.domains", new("domains"), "set.route")
        \/ resolved!Writing("set.route", new("route"), "return")
        \/ /\ pc \in {"set.dns", "set.domains", "set.route"} /\ resolved!Result("err")
           /\ UNCHANGED <<kind, native, aux, call, lease, first, moved, calls, events>>
    BY <1>10, SMT DEF resolved!SetLinkDns, resolved!SetLinkDomains, resolved!SetLinkDefaultRoute,
       resolved!SetLink, resolved!hist, resolved!bounds, new
  <2> QED BY <2>3, <2>4, <2>5, <2>6, <2>7, ResolvedShares, Zenon
<1>11. CASE resolved!Rival
  <2>1. ASSUME NEW r, resolved!Foreign(r), Rec(r, ResourceFields), IsLink(r.dns)
        PROVE  Core' /\ Kept /\ LinkData'
    <3>1. Foreign(r)
      BY <2>1, ResolvedShares, Zenon
    <3>2. Core' /\ Kept
      BY <1>0, <2>1, <3>1, ForeignStep
    <3>3. /\ SameCall /\ call'.running = call.running /\ call'.produced = call.produced
          /\ call'.disturbed = (call.disturbed \/ call.running) /\ native' = r
          /\ moved' = TRUE /\ UNCHANGED <<pc, loc, lease>>
      BY <3>1, ForeignFacts
    <3>4. pc \in {"set.domains", "set.route"} => call.running
      BY DEF Core, Phases, Resting, Observing
    <3>5. LinkData'
      BY <2>1, <3>3, <3>4 DEF LinkData, SameCall, Captured
    <3> QED BY <3>2, <3>5
  <2>2. ASSUME NEW ns, resolved!Foreign([native EXCEPT !.dns.ns = ns])
        PROVE  Core' /\ Kept /\ LinkData'
    <3> DEFINE r == [native EXCEPT !.dns.ns = ns]
    <3>1. Rec(r, ResourceFields) /\ IsLink(r.dns)
      BY DEF Core, Shapes, Rec, ResourceFields, LinkData, LinkFields, IsLink
    <3> HIDE DEF r
    <3>2. resolved!Foreign(r)
      BY <2>2, Zenon DEF r
    <3> QED BY <2>1, <3>1, <3>2
  <2>3. ASSUME resolved!Foreign([native EXCEPT !.dns.route = IF @ = "yes" THEN "no" ELSE "yes"])
        PROVE  Core' /\ Kept /\ LinkData'
    <3> DEFINE r == [native EXCEPT !.dns.route = IF @ = "yes" THEN "no" ELSE "yes"]
    <3>1. Rec(r, ResourceFields) /\ IsLink(r.dns)
      BY DEF Core, Shapes, Rec, ResourceFields, LinkData, LinkFields, IsLink
    <3> HIDE DEF r
    <3>2. resolved!Foreign(r)
      BY <2>3, Zenon DEF r
    <3> QED BY <2>1, <3>1, <3>2
  <2>4. ASSUME resolved!Foreign([native EXCEPT !.up = FALSE])
        PROVE  Core' /\ Kept /\ LinkData'
    <3> DEFINE r == [native EXCEPT !.up = FALSE]
    <3>1. Rec(r, ResourceFields) /\ IsLink(r.dns)
      BY DEF Core, Shapes, Rec, ResourceFields, LinkData, LinkFields, IsLink
    <3> HIDE DEF r
    <3>2. resolved!Foreign(r)
      BY <2>4, Zenon DEF r
    <3> QED BY <2>1, <3>1, <3>2
  <2>5. ASSUME resolved!Foreign([native EXCEPT !.up = TRUE, !.inc = @ + 1, !.dns = resolved!Link(<<>>)])
        PROVE  Core' /\ Kept /\ LinkData'
    <3> DEFINE r == [native EXCEPT !.up = TRUE, !.inc = @ + 1, !.dns = resolved!Link(<<>>)]
    <3>1. Rec(r, ResourceFields) /\ IsLink(r.dns)
      BY DEF Core, Shapes, Rec, ResourceFields, LinkData, LinkFields, IsLink, resolved!Link
    <3> HIDE DEF r
    <3>2. resolved!Foreign(r)
      BY <2>5, Zenon DEF r
    <3> QED BY <2>1, <3>1, <3>2
  <2> QED BY <1>11, <2>2, <2>3, <2>4, <2>5, Zenon DEF resolved!Rival
<1>12. CASE resolved!Return
  <2>1. Return
    BY <1>12, ResolvedShares, Zenon
  <2> QED BY <2>1, ReturnFacts, ReturnStep, AnswerFacts, LinkFrame DEF LinkPlaces
<1>13. CASE resolved!Crash
  <2>1. Crash
    BY <1>13, ResolvedShares, Zenon
  <2>2. LinkData'
    BY <2>1, CrashFacts, NoLeaseIs, NoCallIs DEF LinkData
  <2> QED BY <1>0, <2>1, <2>2, CrashStep
<1> QED
  BY <1>0, <1>1, <1>2, <1>3, <1>4, <1>5, <1>6, <1>7, <1>8, <1>9, <1>10, <1>11, <1>12, <1>13, Zenon
  DEF resolved!Next

-----------------------------------------------------------------------------
(* macOS. *)

\* The backends share these steps with the others.
LEMMA MacShares ==
    /\ macos!Observe <=> Observe
    /\ \A plan, goal, guarded : macos!BeginApply(plan, goal, guarded) <=> BeginApply(plan, goal, guarded)
    /\ \A goal, guarded : macos!BeginRestore(goal, guarded) <=> BeginRestore(goal, guarded)
    /\ macos!Verify <=> Verify
    /\ macos!EndRestore <=> EndRestore
    /\ \A from, to : macos!CheckStatus(from, to) <=> CheckStatus(from, to)
    /\ \A from, to : macos!CheckCurrent(from, to) <=> CheckCurrent(from, to)
    /\ \A from, resource, to : macos!Writing(from, resource, to) <=> Writing(from, resource, to)
    /\ \A resource : macos!Wrote(resource) <=> Wrote(resource)
    /\ \A res : macos!Result(res) <=> Result(res)
    /\ \A resource : macos!Foreign(resource) <=> Foreign(resource)
    /\ macos!Return <=> Return
    /\ macos!Crash <=> Crash
    /\ \A answer, produced : macos!Answer(answer, produced) <=> Answer(answer, produced)
    /\ \A label : macos!Confirmed(label) <=> Confirmed(label)
    /\ \A label : macos!Goto(label) <=> Goto(label)
    /\ macos!Faulty <=> Faulty
<1>1. macos!Observe <=> Observe
  BY Zenon DEF macos!Observe, macos!Called, macos!Took, macos!Snap, macos!NoLease, Observe,
      Called, Took, Snap, NoLease
<1>2. \A plan, goal, guarded : macos!BeginApply(plan, goal, guarded) <=> BeginApply(plan, goal, guarded)
  BY Zenon DEF macos!BeginApply, macos!Called, macos!NoLease, macos!Begin, macos!NoCall,
      macos!NoLocals, macos!hist, BeginApply, Called, NoLease, Begin, NoCall, NoLocals, hist
<1>3. \A goal, guarded : macos!BeginRestore(goal, guarded) <=> BeginRestore(goal, guarded)
  BY Zenon DEF macos!BeginRestore, macos!Called, macos!Begin, macos!NoCall, macos!NoLocals,
      macos!hist, BeginRestore, Called, Begin, NoCall, NoLocals, hist
<1>4. macos!Verify <=> Verify
  BY Zenon DEF macos!Verify, macos!NoLease, macos!NoCall, macos!Snap, macos!hist, macos!bounds,
      Verify, NoLease, NoCall, Snap, hist, bounds
<1>5. macos!EndRestore <=> EndRestore
  BY Zenon DEF macos!EndRestore, macos!NoLease, macos!NoCall, macos!hist, macos!bounds,
      EndRestore, NoLease, NoCall, hist, bounds
<1>6. \A from, to : macos!CheckStatus(from, to) <=> CheckStatus(from, to)
  BY Zenon DEF macos!CheckStatus, macos!StatusSame, macos!Goto, macos!Answer, macos!NoLocals,
      macos!Faulty, macos!hist, macos!bounds, CheckStatus, StatusSame, Goto, Answer, NoLocals,
      Faulty, hist, bounds
<1>7. \A from, to : macos!CheckCurrent(from, to) <=> CheckCurrent(from, to)
  BY Zenon DEF macos!CheckCurrent, macos!CheckExpected, macos!Confirmed, macos!Answer,
      macos!NoLocals, macos!Faulty, macos!hist, macos!bounds, CheckCurrent, CheckExpected,
      Confirmed, Answer, NoLocals, Faulty, hist, bounds
<1>8. \A from, resource, to : macos!Writing(from, resource, to) <=> Writing(from, resource, to)
  BY Zenon DEF macos!Writing, macos!Wrote, macos!Result, macos!Faulty, macos!hist, macos!bounds,
      Writing, Wrote, Result, Faulty, hist, bounds
<1>9. \A resource : macos!Wrote(resource) <=> Wrote(resource)
  BY Zenon DEF macos!Wrote, Wrote
<1>10. \A res : macos!Result(res) <=> Result(res)
  BY Zenon DEF macos!Result, Result
<1>11. \A resource : macos!Foreign(resource) <=> Foreign(resource)
  BY Zenon DEF macos!Foreign, Foreign
<1>12. macos!Return <=> Return
  BY Zenon DEF macos!Return, macos!Answer, macos!NoLocals, macos!hist, macos!bounds, Return,
      Answer, NoLocals, hist, bounds
<1>13. macos!Crash <=> Crash
  BY Zenon DEF macos!Crash, macos!Faulty, macos!NoCall, macos!NoLocals, macos!NoLease,
      macos!hist, Crash, Faulty, NoCall, NoLocals, NoLease, hist
<1>14. \A answer, produced : macos!Answer(answer, produced) <=> Answer(answer, produced)
  BY Zenon DEF macos!Answer, macos!NoLocals, Answer, NoLocals
<1>15. \A label : macos!Confirmed(label) <=> Confirmed(label)
  BY Zenon DEF macos!Confirmed, Confirmed
<1>16. \A label : macos!Goto(label) <=> Goto(label)
  BY Zenon DEF macos!Goto, Goto
<1>17. macos!Faulty <=> Faulty
  BY Zenon DEF macos!Faulty, Faulty
<1> QED BY <1>1, <1>2, <1>3, <1>4, <1>5, <1>6, <1>7, <1>8, <1>9, <1>10, <1>11, <1>12, <1>13, <1>14, <1>15, <1>16, <1>17

ServiceData ==
    /\ call.produced = NoState /\ ~call.guarded
    /\ call.op = "apply" => macos!ServiceDns(call.plan) \in call.goal
    /\ pc = "set" /\ ~call.disturbed => loc.cur = <<native.rest>>

LEMMA ServiceFrame ==
    ASSUME ServiceData, SameCall, call'.produced = NoState, pc' # "set"
    PROVE  ServiceData'
BY DEF ServiceData, SameCall

LEMMA ServiceStep ==
    ASSUME Core, ServiceData, kind = "service", macos!Next
    PROVE  Core' /\ Kept /\ ServiceData'
<1>0. kind # "detecting" /\ kind # "bsd" /\ kind # "resolver" /\ ~Occupied
  BY DEF Occupied
<1>1. ASSUME NEW p, macos!BeginApply(p, {macos!ServiceDns(p)}, FALSE)
      PROVE  Core' /\ Kept /\ ServiceData'
  <2>1. BeginApply(p, {macos!ServiceDns(p)}, FALSE)
    BY <1>1, MacShares, Zenon
  <2>2. /\ Core' /\ Kept /\ pc' = "status" /\ call'.op = "apply" /\ call'.plan = p
        /\ ~call'.guarded /\ call'.goal = {macos!ServiceDns(p)} /\ call'.produced = NoState
    BY <1>0, <2>1, BeginApplyStep
  <2>3. ServiceData'
    BY <2>2 DEF ServiceData
  <2> QED BY <2>2, <2>3
<1>2. CASE macos!BeginRestore(macos!Before, FALSE)
  <2>1. BeginRestore({lease.base.dns}, FALSE)
    BY <1>2, MacShares, Zenon DEF macos!Before
  <2>2. /\ Core' /\ Kept /\ pc' = "status" /\ loc' = NoLocals /\ UNCHANGED <<native, lease>>
        /\ call'.op = "restore" /\ ~call'.guarded /\ call'.produced = NoState
    BY <1>0, <2>1, BeginRestoreStep
  <2>3. ServiceData'
    BY <2>2 DEF ServiceData
  <2> QED BY <2>2, <2>3
<1>3. CASE macos!Verify
  <2>1. Verify
    BY <1>3, MacShares, Zenon
  <2>2. ServiceData'
    BY <2>1, VerifyFacts, NoCallIs DEF ServiceData
  <2> QED BY <1>0, <2>1, <2>2, VerifyStep
<1>4. CASE macos!EndRestore
  <2>1. EndRestore
    BY <1>4, MacShares, Zenon
  <2>2. ServiceData'
    BY <2>1, EndRestoreFacts, NoCallIs DEF ServiceData
  <2> QED BY <1>0, <2>1, <2>2, EndRestoreStep
<1>5. CASE macos!Observe
  <2>1. Observe
    BY <1>5, MacShares, Zenon
  <2>2. ServiceData'
    BY <2>1, ObserveFacts DEF ServiceData
  <2> QED BY <1>0, <2>1, <2>2, ObserveStep
<1>6. CASE macos!CheckStatus("status", "read") \/ macos!CheckStatus("restat", "write")
  <2>1. CheckStatus("status", "read") \/ CheckStatus("restat", "write")
    BY <1>6, MacShares, Zenon
  <2>2. Core' /\ Kept
    BY <2>1, CheckStatusStep
  <2>3. SameCall /\ call'.produced = NoState /\ pc' # "set"
    <3>1. CASE UNCHANGED call /\ pc' # "set"
      BY <3>1 DEF SameCall, ServiceData
    <3>2. CASE Answer("Rejected", NoState)
      BY <3>2, AnswerFacts
    <3> QED BY <2>1, <3>1, <3>2, CheckStatusFacts
  <2> QED BY <2>2, <2>3, ServiceFrame
<1>7. CASE macos!CheckCurrent("read", "restat")
  <2>1. CheckCurrent("read", "restat")
    BY <1>7, MacShares, Zenon
  <2>2. Confirmed("restat") \/ Answer("Rejected", NoState)
    BY <2>1 DEF CheckCurrent, CheckExpected
  <2>3. SameCall /\ call'.produced = NoState /\ pc' # "set"
    <3>1. CASE Confirmed("restat")
      BY <3>1, ConfirmedFacts DEF ServiceData
    <3>2. CASE Answer("Rejected", NoState)
      BY <3>2, AnswerFacts
    <3> QED BY <2>2, <3>1, <3>2
  <2> QED BY <2>1, <2>3, CheckCurrentStep, ServiceFrame
<1>8. CASE macos!ReadDictionary
  <2>1. pc = "write" /\ UNCHANGED <<kind, native, aux, call, lease, first, moved, calls, events>>
    BY <1>8 DEF macos!ReadDictionary, macos!Faulty, macos!bounds, macos!hist
  <2>2. call.running /\ pc \notin Checking
    BY <2>1 DEF Core, Phases, Resting, Observing, Checking
  <2>3. CASE loc' = [loc EXCEPT !.cur = <<native.rest>>] /\ pc' = "set"
    <3>1. Rec(loc', {"cur", "res"}) /\ loc'.cur = <<native.rest>>
      BY <2>3 DEF Core, Shapes, Rec
    <3>2. Core' /\ Kept
      BY <2>1, <2>2, <2>3, <3>1, QuietStep DEF Resting, Observing, Checking, Ready
    <3> QED BY <2>1, <3>1, <3>2 DEF ServiceData
  <2>4. CASE macos!Result("err")
    <3>1. Result("err")
      BY <2>4, MacShares, Zenon
    <3>2. Core' /\ Kept
      BY <2>1, <2>2, <3>1, ResultStep
    <3> QED BY <2>1, <3>1, <3>2, ResultFacts, ServiceFrame DEF ServiceData, SameCall
  <2> QED BY <1>8, <2>3, <2>4, Zenon DEF macos!ReadDictionary
<1>9. CASE macos!SetDictionary
  <2> DEFINE dns == IF call.op = "apply" THEN macos!ServiceDns(call.plan) ELSE call.target.dns
             new == [native EXCEPT !.dns = dns, !.rest = loc.cur[1]]
  <2>1. macos!Writing("set", new, "return") /\ UNCHANGED aux
    BY <1>9, Zenon DEF macos!SetDictionary
  <2>2. /\ Rec(new, ResourceFields) /\ new.inc = native.inc /\ new.dns = dns
        /\ new.rest = loc.cur[1]
    BY DEF Core, Shapes, Rec, ResourceFields
  <2> HIDE DEF new
  <2>3. Writing("set", new, "return")
    BY <2>1, MacShares, Zenon
  <2>4. pc = "set"
    BY <2>3, WritingFacts
  <2>5. call.running /\ call.confirmed /\ pc \notin Checking /\ ~call.guarded
    BY <2>4 DEF Core, Phases, Resting, Observing, Checking, ServiceData
  <2>6. dns \in call.goal
    BY <1>0, <2>5 DEF Core, Faithful, Phases, ServiceData
  <2>7. call.disturbed \/ new.rest = native.rest
    BY <2>2, <2>4 DEF ServiceData
  <2>8. Core' /\ Kept
    BY <1>0, <2>2, <2>3, <2>5, <2>6, <2>7, WritingStep DEF Written
  <2>9. SameCall /\ call'.produced = NoState /\ pc' = "return"
    BY <2>3, WritingFacts DEF ServiceData
  <2> QED BY <2>8, <2>9, ServiceFrame
<1>10. CASE macos!RivalService
  <2>1. ASSUME NEW r, macos!Foreign(r), Rec(r, ResourceFields)
        PROVE  Core' /\ Kept /\ ServiceData'
    <3>1. Foreign(r)
      BY <2>1, MacShares, Zenon
    <3>2. Core' /\ Kept
      BY <1>0, <2>1, <3>1, ForeignStep
    <3>3. /\ SameCall /\ call'.produced = call.produced
          /\ call'.disturbed = (call.disturbed \/ call.running) /\ pc' = pc
      BY <3>1, ForeignFacts
    <3>4. pc = "set" => call.running
      BY DEF Core, Phases, Resting, Observing
    <3>5. ServiceData'
      BY <3>3, <3>4 DEF ServiceData, SameCall
    <3> QED BY <3>2, <3>5
  <2>2. ASSUME NEW ns, macos!Foreign([native EXCEPT !.dns.servers = <<ns>>])
        PROVE  Core' /\ Kept /\ ServiceData'
    <3> DEFINE r == [native EXCEPT !.dns.servers = <<ns>>]
    <3>1. Rec(r, ResourceFields)
      BY DEF Core, Shapes, Rec, ResourceFields
    <3> HIDE DEF r
    <3>2. macos!Foreign(r)
      BY <2>2, Zenon DEF r
    <3> QED BY <2>1, <3>1, <3>2
  <2>3. ASSUME NEW rest, macos!Foreign([native EXCEPT !.rest = rest])
        PROVE  Core' /\ Kept /\ ServiceData'
    <3> DEFINE r == [native EXCEPT !.rest = rest]
    <3>1. Rec(r, ResourceFields)
      BY DEF Core, Shapes, Rec, ResourceFields
    <3> HIDE DEF r
    <3>2. macos!Foreign(r)
      BY <2>3, Zenon DEF r
    <3> QED BY <2>1, <3>1, <3>2
  <2> QED BY <1>10, <2>2, <2>3, Zenon DEF macos!RivalService
<1>11. CASE macos!Return
  <2>1. Return
    BY <1>11, MacShares, Zenon
  <2> QED BY <2>1, ReturnFacts, ReturnStep, AnswerFacts, ServiceFrame
<1>12. CASE macos!Crash
  <2>1. Crash
    BY <1>12, MacShares, Zenon
  <2>2. ServiceData'
    BY <2>1, CrashFacts, NoCallIs DEF ServiceData
  <2> QED BY <1>0, <2>1, <2>2, CrashStep
<1>13. ~macos!RivalFile
  BY DEF macos!RivalFile
<1> QED
  BY <1>0, <1>1, <1>2, <1>3, <1>4, <1>5, <1>6, <1>7, <1>8, <1>9, <1>10, <1>11, <1>12, <1>13, Zenon
  DEF macos!Next, macos!Preflight

\* A snapshot of a resolver file, where one without a file has no identity.
IsFileSnap(s) == Rec(s, {"id", "dns"}) /\ (s.dns = <<>> => s.id = 0)

ResolverData ==
    /\ native.inc = 1 /\ (native.dns = <<>> => native.id = 0)
    /\ lease # NoLease => lease.inc = 1
    /\ lease.base # NoState => IsFileSnap(lease.base)
    /\ call.guarded => call.op = "apply" /\ call.expected.dns = <<>> /\ IsFileSnap(call.expected)
    /\ call.op = "apply" => macos!ResolverGoal(call.plan) = call.goal
    /\ pc \in {"prepare", "publish"} /\ ~call.disturbed => macos!OurFile
    /\ pc = "issue" => call.wrote /\ (call.disturbed \/ native.dns \in call.goal)

LEMMA ResolverFrame ==
    ASSUME ResolverData, UNCHANGED <<native, lease>>, SameCall, call'.disturbed = call.disturbed,
           pc' \notin {"prepare", "publish", "issue"}
    PROVE  ResolverData'
BY DEF ResolverData, SameCall

LEMMA ResolverContents ==
    ASSUME NEW plan
    PROVE  /\ \A n \in 0..MaxCalls : macos!ResolverContent(plan, n) \in macos!ResolverGoal(plan)
           /\ \A n : macos!ResolverContent(plan, n) # <<>>
BY DEF macos!ResolverGoal, macos!ResolverContent

LEMMA ResolverStep ==
    ASSUME Core, ResolverData, kind = "resolver", macos!Next
    PROVE  Core' /\ Kept /\ ResolverData'
<1>0. kind # "detecting" /\ kind # "bsd" /\ (Occupied => ~macos!OurFile)
  BY DEF Occupied
<1>1. ASSUME NEW p, macos!BeginApply(p, macos!ResolverGoal(p), lease.base.dns = <<>>)
      PROVE  Core' /\ Kept /\ ResolverData'
  <2>1. BeginApply(p, macos!ResolverGoal(p), lease.base.dns = <<>>)
    BY <1>1, MacShares, Zenon
  <2>2. (lease.base.dns = <<>>) \in BOOLEAN
    OBVIOUS
  <2>3. /\ Core' /\ Kept /\ pc' = "status" /\ UNCHANGED <<native, lease>>
        /\ lease.base # NoState /\ call'.expected = lease.base
        /\ call'.op = "apply" /\ call'.plan = p /\ call'.guarded = (lease.base.dns = <<>>)
        /\ call'.goal = macos!ResolverGoal(p)
    BY <1>0, <2>1, <2>2, BeginApplyStep
  <2>4. ResolverData'
    BY <2>3 DEF ResolverData
  <2> QED BY <2>3, <2>4
<1>2. CASE macos!BeginRestore(macos!Before, FALSE)
  <2>1. BeginRestore({lease.base.dns}, FALSE)
    BY <1>2, MacShares, Zenon DEF macos!Before
  <2>2. /\ Core' /\ Kept /\ pc' = "status" /\ UNCHANGED <<native, lease>>
        /\ call'.op = "restore" /\ ~call'.guarded
    BY <1>0, <2>1, BeginRestoreStep
  <2>3. ResolverData'
    BY <2>2 DEF ResolverData
  <2> QED BY <2>2, <2>3
<1>3. CASE macos!Verify
  <2>1. Verify
    BY <1>3, MacShares, Zenon
  <2>2. /\ lease # NoLease /\ UNCHANGED <<native, pc>> /\ pc = "idle"
        /\ \/ call' = NoCall /\ lease' = NoLease
           \/ call' = call /\ lease'.base = lease.base /\ lease'.inc = lease.inc
    BY <2>1, VerifyFacts DEF Core, Bound
  <2>3. ResolverData'
    BY <2>2, NoLeaseIs, NoCallIs DEF ResolverData
  <2> QED BY <1>0, <2>1, <2>3, VerifyStep
<1>4. CASE macos!EndRestore
  <2>1. EndRestore
    BY <1>4, MacShares, Zenon
  <2>2. ResolverData'
    BY <2>1, EndRestoreFacts, NoLeaseIs, NoCallIs DEF ResolverData
  <2> QED BY <1>0, <2>1, <2>2, EndRestoreStep
<1>5. CASE macos!ObserveFile
  <2>1. Observe
    BY <1>5, MacShares, Zenon DEF macos!ObserveFile
  <2>2. IsFileSnap(Snap)
    BY DEF IsFileSnap, Snap, Rec, ResolverData
  <2>3. ResolverData'
    BY <2>1, <2>2, ObserveFacts DEF ResolverData
  <2> QED BY <1>0, <2>1, <2>3, ObserveStep
<1>6. CASE macos!FirstRead
  <2>1. pc = "status" /\ UNCHANGED <<kind, native, aux, lease, first, moved, calls, events>>
    BY <1>6 DEF macos!FirstRead, macos!Faulty, macos!bounds, macos!hist
  <2>2. call.running /\ native.inc = call.inc
    BY <2>1 DEF Core, Phases, Resting, Observing, Bound, ResolverData
  <2>3. CASE Snap = call.expected /\ macos!OurFile /\ Confirmed("prepare")
    <3>1. native.dns = call.expected.dns
      BY <2>3 DEF Snap
    <3>2. Core' /\ Kept
      BY <2>1, <2>2, <2>3, <3>1, CheckStep DEF Checking, Ready
    <3>3. ResolverData'
      BY <2>1, <2>3, ConfirmedFacts DEF ResolverData, SameCall, macos!OurFile
    <3> QED BY <3>2, <3>3
  <2>4. CASE Answer("Rejected", NoState)
    BY <2>1, <2>4, RejectStep, AnswerFacts, ResolverFrame DEF Checking
  <2>5. CASE Answer("Indeterminate", NoState)
    <3>1. Core' /\ Kept
      BY <2>1, <2>2, <2>5, AnswerStep DEF Boundary!Names
    <3> QED BY <2>1, <2>5, <3>1, AnswerFacts, ResolverFrame
  <2>6. \/ Snap = call.expected /\ macos!OurFile /\ Confirmed("prepare")
        \/ Answer("Rejected", NoState) \/ Answer("Indeterminate", NoState)
    BY <1>6, MacShares, Zenon DEF macos!FirstRead, macos!CheckExpected, macos!Snap, Snap
  <2> QED BY <2>3, <2>4, <2>5, <2>6
<1>7. CASE macos!SecondRead
  <2>1. pc = "prepare" /\ UNCHANGED <<kind, native, aux, lease, first, moved, calls, events>>
    BY <1>7 DEF macos!SecondRead, macos!Faulty, macos!bounds, macos!hist
  <2>2. call.running
    BY <2>1 DEF Core, Phases, Resting, Observing
  <2>3. CASE Goto("publish")
    <3>1. pc' = "publish" /\ UNCHANGED <<call, loc>>
      BY <2>3 DEF Goto
    <3>2. Core' /\ Kept
      BY <2>1, <2>2, <3>1, QuietStep DEF Core, Shapes, Resting, Observing, Checking, Ready
    <3>3. ResolverData'
      BY <2>1, <3>1 DEF ResolverData, macos!OurFile
    <3> QED BY <3>2, <3>3
  <2>4. CASE Answer("Rejected", NoState)
    BY <2>1, <2>4, RejectStep, AnswerFacts, ResolverFrame DEF Ready
  <2>5. CASE Answer("Indeterminate", NoState)
    <3>1. Core' /\ Kept
      BY <2>1, <2>2, <2>5, AnswerStep DEF Boundary!Names
    <3> QED BY <2>1, <2>5, <3>1, AnswerFacts, ResolverFrame
  <2>6. Goto("publish") \/ Answer("Rejected", NoState) \/ Answer("Indeterminate", NoState)
    BY <1>7, MacShares, Zenon DEF macos!SecondRead
  <2> QED BY <2>3, <2>4, <2>5, <2>6
<1>8. CASE macos!Publish
  <2>1. pc = "publish" /\ UNCHANGED <<kind, aux, lease, first, moved, calls, events>>
    BY <1>8 DEF macos!Publish, macos!Faulty, macos!bounds, macos!hist
  <2>2. call.running /\ call.confirmed /\ pc \notin Checking /\ calls \in 0..MaxCalls
        /\ call.op \in {"apply", "restore"}
    BY <2>1 DEF Core, Phases, Resting, Observing, Checking, Shapes
  <2>3. macos!Content \in call.goal /\ (call.op = "apply" => macos!Content # <<>>)
    BY <1>0, <2>2, ResolverContents DEF macos!Content, ResolverData, Core, Faithful
  <2> DEFINE new == macos!Published
  <2>4. /\ Rec(new, ResourceFields) /\ new.inc = native.inc /\ new.rest = native.rest
        /\ new.dns = macos!Content /\ (new.dns = <<>> => new.id = 0)
    BY DEF macos!Published, Core, Shapes, Rec, ResourceFields
  <2> HIDE DEF new
  <2>5. CASE /\ ~macos!NoReplace \/ native.dns = <<>>
             /\ \/ pc' = "issue" /\ UNCHANGED loc
                \/ Result("err")
             /\ Wrote(new)
    <3>1. call.guarded => Boundary!AsExpected /\ native.dns = <<>>
      <4> SUFFICES ASSUME call.guarded PROVE Boundary!AsExpected /\ native.dns = <<>>
        OBVIOUS
      <4>1. native.dns = <<>> /\ call.expected.dns = <<>> /\ IsFileSnap(call.expected)
        BY <2>3, <2>5 DEF macos!NoReplace, ResolverData
      <4>2. native.id = 0 /\ call.expected.id = 0 /\ native.inc = call.inc
        BY <2>2, <4>1 DEF IsFileSnap, ResolverData, Core, Bound
      <4>3. [id |-> native.id, dns |-> native.dns] = call.expected
        BY <4>1, <4>2 DEF IsFileSnap, Rec
      <4> QED BY <4>1, <4>2, <4>3 DEF Boundary!AsExpected
    <3>2. (call.disturbed /\ ~call.guarded) \/ (new.rest = native.rest /\ ~Occupied)
      BY <1>0, <2>1, <2>4, <3>1 DEF macos!OurFile, ResolverData
    <3>3. pc' \in {"issue", "return"} /\ Rec(loc', {"cur", "res"})
          /\ (pc' = "return" => loc'.res = "err")
      BY <2>5 DEF Result, Core, Shapes, Rec
    <3>4. Core' /\ Kept
      BY <2>1, <2>2, <2>4, <2>5, <3>1, <3>2, <3>3, WriteStep DEF Resting, Observing, Checking, Ready
    <3>5. ResolverData'
      BY <2>1, <2>3, <2>4, <2>5, <3>3, WroteFacts DEF ResolverData, SameCall
    <3> QED BY <3>4, <3>5
  <2>6. CASE Answer("Rejected", NoState) /\ UNCHANGED native
    BY <2>1, <2>6, RejectStep, AnswerFacts, ResolverFrame DEF Ready
  <2>7. CASE Result("err") /\ UNCHANGED <<native, call>>
    <3>1. Core' /\ Kept
      BY <2>1, <2>2, <2>7, ResultStep
    <3> QED BY <2>1, <2>7, <3>1, ResultFacts, ResolverFrame DEF SameCall
  <2>8. \/ /\ ~macos!NoReplace \/ native.dns = <<>>
           /\ \/ pc' = "issue" /\ UNCHANGED loc
              \/ Result("err")
           /\ Wrote(new)
        \/ Answer("Rejected", NoState) /\ UNCHANGED native
        \/ Result("err") /\ UNCHANGED <<native, call>>
    BY <1>8, MacShares, Zenon DEF macos!Publish, new
  <2> QED BY <2>5, <2>6, <2>7, <2>8
<1>9. CASE macos!Issue
  <2>1. /\ pc = "issue" /\ UNCHANGED <<kind, native, aux, lease, first, moved, calls, events>>
        /\ Answer("Performed", call.made)
    BY <1>9, MacShares, Zenon DEF macos!Issue, macos!bounds, macos!hist
  <2>2. call.running /\ pc \notin Checking /\ call.wrote /\ (call.disturbed \/ native.dns \in call.goal)
    BY <2>1 DEF Core, Phases, Resting, Observing, Checking, ResolverData
  <2>3. Boundary!Names(call.made)
    BY <2>2 DEF Boundary!Names
  <2>4. Core' /\ Kept
    BY <2>1, <2>2, <2>3, AnswerStep
  <2> QED BY <2>1, <2>4, AnswerFacts, ResolverFrame
<1>10. CASE macos!RivalFile
  <2>1. ASSUME NEW r, macos!Foreign(r), Rec(r, ResourceFields), r.inc = 1,
               r.dns = <<>> => r.id = 0
        PROVE  Core' /\ Kept /\ ResolverData'
    <3>1. Foreign(r)
      BY <2>1, MacShares, Zenon
    <3>2. Core' /\ Kept
      BY <1>0, <2>1, <3>1, ForeignStep
    <3>3. /\ SameCall /\ call'.wrote = call.wrote /\ native' = r
          /\ call'.disturbed = (call.disturbed \/ call.running) /\ UNCHANGED <<pc, lease>>
      BY <3>1, ForeignFacts
    <3>4. pc \in {"prepare", "publish", "issue"} => call.running
      BY DEF Core, Phases, Resting, Observing
    <3>5. ResolverData'
      BY <2>1, <3>3, <3>4 DEF ResolverData, SameCall
    <3> QED BY <3>2, <3>5
  <2>2. ASSUME NEW ns, macos!Foreign([native EXCEPT !.dns = <<[marker |-> "other", generation |-> 0, ns |-> ns]>>,
             !.id = 10 * calls + events + 1])
        PROVE  Core' /\ Kept /\ ResolverData'
    <3> DEFINE r == [native EXCEPT !.dns = <<[marker |-> "other", generation |-> 0, ns |-> ns]>>,
             !.id = 10 * calls + events + 1]
    <3>1. Rec(r, ResourceFields) /\ r.inc = 1 /\ (r.dns = <<>> => r.id = 0)
      BY DEF Core, Shapes, Rec, ResourceFields, ResolverData
    <3> HIDE DEF r
    <3>2. macos!Foreign(r)
      BY <2>2, Zenon DEF r
    <3> QED BY <2>1, <3>1, <3>2
  <2>3. ASSUME native.dns # <<>>, macos!Foreign([native EXCEPT !.id = 10 * calls + events + 1])
        PROVE  Core' /\ Kept /\ ResolverData'
    <3> DEFINE r == [native EXCEPT !.id = 10 * calls + events + 1]
    <3>1. Rec(r, ResourceFields) /\ r.inc = 1 /\ (r.dns = <<>> => r.id = 0)
      BY <2>3 DEF Core, Shapes, Rec, ResourceFields, ResolverData
    <3> HIDE DEF r
    <3>2. macos!Foreign(r)
      BY <2>3, Zenon DEF r
    <3> QED BY <2>1, <3>1, <3>2
  <2>4. ASSUME macos!Foreign([native EXCEPT !.dns = <<>>, !.id = 0])
        PROVE  Core' /\ Kept /\ ResolverData'
    <3> DEFINE r == [native EXCEPT !.dns = <<>>, !.id = 0]
    <3>1. Rec(r, ResourceFields) /\ r.inc = 1 /\ (r.dns = <<>> => r.id = 0)
      BY DEF Core, Shapes, Rec, ResourceFields, ResolverData
    <3> HIDE DEF r
    <3>2. macos!Foreign(r)
      BY <2>4, Zenon DEF r
    <3> QED BY <2>1, <3>1, <3>2
  <2> QED BY <1>10, <2>2, <2>3, <2>4, Zenon DEF macos!RivalFile
<1>11. CASE macos!Return
  <2>1. Return
    BY <1>11, MacShares, Zenon
  <2> QED BY <2>1, ReturnFacts, ReturnStep, AnswerFacts, ResolverFrame
<1>12. CASE macos!Crash
  <2>1. Crash
    BY <1>12, MacShares, Zenon
  <2>2. ResolverData'
    BY <2>1, CrashFacts, NoCallIs, NoLeaseIs DEF ResolverData
  <2> QED BY <1>0, <2>1, <2>2, CrashStep
<1>13. ~macos!RivalService /\ kind # "service"
  BY DEF macos!RivalService
<1> QED
  BY <1>0, <1>1, <1>2, <1>3, <1>4, <1>5, <1>6, <1>7, <1>8, <1>9, <1>10, <1>11, <1>12, <1>13, Zenon
  DEF macos!Next

-----------------------------------------------------------------------------
(* openresolv. *)

\* The backend shares these steps with the others.
LEMMA OpenShares ==
    /\ openresolv!Observe <=> Observe
    /\ \A plan, goal, guarded : openresolv!BeginApply(plan, goal, guarded) <=> BeginApply(plan, goal, guarded)
    /\ \A goal, guarded : openresolv!BeginRestore(goal, guarded) <=> BeginRestore(goal, guarded)
    /\ openresolv!Verify <=> Verify
    /\ openresolv!EndRestore <=> EndRestore
    /\ \A resource : openresolv!Wrote(resource) <=> Wrote(resource)
    /\ \A resource : openresolv!Foreign(resource) <=> Foreign(resource)
    /\ openresolv!Crash <=> Crash
    /\ \A answer, produced : openresolv!Answer(answer, produced) <=> Answer(answer, produced)
    /\ \A label : openresolv!Confirmed(label) <=> Confirmed(label)
    /\ openresolv!Faulty <=> Faulty
<1>1. openresolv!Observe <=> Observe
  BY Zenon DEF openresolv!Observe, openresolv!Called, openresolv!Took, openresolv!Snap,
      openresolv!NoLease, Observe, Called, Took, Snap, NoLease
<1>2. \A plan, goal, guarded : openresolv!BeginApply(plan, goal, guarded) <=> BeginApply(plan, goal, guarded)
  BY Zenon DEF openresolv!BeginApply, openresolv!Called, openresolv!NoLease, openresolv!Begin,
      openresolv!NoCall, openresolv!NoLocals, openresolv!hist, BeginApply, Called, NoLease,
      Begin, NoCall, NoLocals, hist
<1>3. \A goal, guarded : openresolv!BeginRestore(goal, guarded) <=> BeginRestore(goal, guarded)
  BY Zenon DEF openresolv!BeginRestore, openresolv!Called, openresolv!Begin, openresolv!NoCall,
      openresolv!NoLocals, openresolv!hist, BeginRestore, Called, Begin, NoCall, NoLocals, hist
<1>4. openresolv!Verify <=> Verify
  BY Zenon DEF openresolv!Verify, openresolv!NoLease, openresolv!NoCall, openresolv!Snap,
      openresolv!hist, openresolv!bounds, Verify, NoLease, NoCall, Snap, hist, bounds
<1>5. openresolv!EndRestore <=> EndRestore
  BY Zenon DEF openresolv!EndRestore, openresolv!NoLease, openresolv!NoCall, openresolv!hist,
      openresolv!bounds, EndRestore, NoLease, NoCall, hist, bounds
<1>6. \A resource : openresolv!Wrote(resource) <=> Wrote(resource)
  BY Zenon DEF openresolv!Wrote, Wrote
<1>7. \A resource : openresolv!Foreign(resource) <=> Foreign(resource)
  BY Zenon DEF openresolv!Foreign, Foreign
<1>8. openresolv!Crash <=> Crash
  BY Zenon DEF openresolv!Crash, openresolv!Faulty, openresolv!NoCall, openresolv!NoLocals,
      openresolv!NoLease, openresolv!hist, Crash, Faulty, NoCall, NoLocals, NoLease, hist
<1>9. \A answer, produced : openresolv!Answer(answer, produced) <=> Answer(answer, produced)
  BY Zenon DEF openresolv!Answer, openresolv!NoLocals, Answer, NoLocals
<1>10. \A label : openresolv!Confirmed(label) <=> Confirmed(label)
  BY Zenon DEF openresolv!Confirmed, Confirmed
<1>11. openresolv!Faulty <=> Faulty
  BY Zenon DEF openresolv!Faulty, Faulty
<1> QED BY <1>1, <1>2, <1>3, <1>4, <1>5, <1>6, <1>7, <1>8, <1>9, <1>10, <1>11

RecordData ==
    /\ native.inc = 1 /\ (lease # NoLease => lease.inc = 1) /\ ~call.guarded
    /\ call.op = "apply" => openresolv!Record(call.plan) \in call.goal
    /\ pc \in {"live", "finish"} /\ ~call.disturbed => loc.cur = native.dns
    /\ pc \in {"readback", "finish"} /\ loc.res = "ok" => call.wrote

LEMMA RecordFrame ==
    ASSUME RecordData, UNCHANGED <<native, lease>>, SameCall,
           pc' \notin {"live", "finish", "readback"}
    PROVE  RecordData'
BY DEF RecordData, SameCall

LEMMA RecordStep ==
    ASSUME Core, RecordData, openresolv!Next
    PROVE  Core' /\ Kept /\ RecordData'
<1>0. kind = "openresolv" /\ kind # "detecting" /\ kind # "bsd" /\ ~Occupied
  BY DEF Occupied, openresolv!Next
<1>1. ASSUME NEW p, openresolv!BeginApply(p, {openresolv!Record(p)}, FALSE)
      PROVE  Core' /\ Kept /\ RecordData'
  <2>1. BeginApply(p, {openresolv!Record(p)}, FALSE)
    BY <1>1, OpenShares, Zenon
  <2>2. /\ Core' /\ Kept /\ pc' = "status" /\ UNCHANGED <<native, lease>>
        /\ call'.op = "apply" /\ call'.plan = p /\ ~call'.guarded
        /\ call'.goal = {openresolv!Record(p)}
    BY <1>0, <2>1, BeginApplyStep
  <2>3. RecordData'
    BY <2>2 DEF RecordData
  <2> QED BY <2>2, <2>3
<1>2. CASE openresolv!BeginRestore(openresolv!Before, FALSE)
  <2>1. BeginRestore({lease.base.dns}, FALSE)
    BY <1>2, OpenShares, Zenon DEF openresolv!Before
  <2>2. /\ Core' /\ Kept /\ pc' = "status" /\ UNCHANGED <<native, lease>>
        /\ call'.op = "restore" /\ ~call'.guarded
    BY <1>0, <2>1, BeginRestoreStep
  <2>3. RecordData'
    BY <2>2 DEF RecordData
  <2> QED BY <2>2, <2>3
<1>3. CASE openresolv!Verify
  <2>1. Verify
    BY <1>3, OpenShares, Zenon
  <2>2. /\ lease # NoLease /\ UNCHANGED <<native, pc>> /\ pc = "idle"
        /\ \/ call' = NoCall /\ lease' = NoLease
           \/ call' = call /\ lease'.base = lease.base /\ lease'.inc = lease.inc
    BY <2>1, VerifyFacts DEF Core, Bound
  <2>3. RecordData'
    BY <2>2, NoLeaseIs, NoCallIs DEF RecordData
  <2> QED BY <1>0, <2>1, <2>3, VerifyStep
<1>4. CASE openresolv!EndRestore
  <2>1. EndRestore
    BY <1>4, OpenShares, Zenon
  <2>2. RecordData'
    BY <2>1, EndRestoreFacts, NoLeaseIs, NoCallIs DEF RecordData
  <2> QED BY <1>0, <2>1, <2>2, EndRestoreStep
<1>5. CASE openresolv!Observe
  <2>1. Observe
    BY <1>5, OpenShares, Zenon
  <2>2. RecordData'
    BY <2>1, ObserveFacts DEF RecordData
  <2> QED BY <1>0, <2>1, <2>2, ObserveStep
<1>6. CASE openresolv!ReadRecord("status", "live") \/ openresolv!ReadRecord("readback", "finish")
  <2>1. /\ UNCHANGED <<kind, native, aux, call, lease, first, moved, calls, events>>
        /\ loc' = [loc EXCEPT !.cur = native.dns]
        /\ \/ pc = "status" /\ pc' = "live"
           \/ pc = "readback" /\ pc' = "finish"
    BY <1>6 DEF openresolv!ReadRecord, openresolv!bounds, openresolv!hist
  <2>2. call.running /\ native.inc = call.inc
    BY <2>1 DEF Core, Phases, Resting, Observing, Bound, RecordData
  <2>3. Rec(loc', {"cur", "res"}) /\ loc'.cur = native.dns /\ loc'.res = loc.res
    BY <2>1 DEF Core, Shapes, Rec
  <2>4. Core' /\ Kept
    BY <2>1, <2>2, <2>3, QuietStep DEF Resting, Observing, Checking, Ready
  <2>5. RecordData'
    BY <2>1, <2>3 DEF RecordData
  <2> QED BY <2>4, <2>5
<1>7. CASE openresolv!RecordUnreadable("status", "Rejected")
           \/ openresolv!RecordUnreadable("readback", "Indeterminate")
  <2>1. /\ UNCHANGED <<kind, native, aux, lease, first, moved, calls, events>>
        /\ \/ pc = "status" /\ Answer("Rejected", NoState)
           \/ pc = "readback" /\ Answer("Indeterminate", NoState)
    BY <1>7, OpenShares DEF openresolv!RecordUnreadable, openresolv!Faulty, openresolv!hist
  <2>2. CASE pc = "status" /\ Answer("Rejected", NoState)
    BY <2>1, <2>2, RejectStep, AnswerFacts, RecordFrame DEF Checking
  <2>3. CASE pc = "readback" /\ Answer("Indeterminate", NoState)
    <3>1. call.running /\ Boundary!Names(NoState)
      BY <2>3 DEF Core, Phases, Resting, Observing, Boundary!Names
    <3>2. Core' /\ Kept
      BY <2>1, <2>3, <3>1, AnswerStep
    <3> QED BY <2>1, <2>3, <3>2, AnswerFacts, RecordFrame
  <2> QED BY <2>1, <2>2, <2>3
<1>8. CASE openresolv!CheckLive
  <2>1. pc = "live" /\ UNCHANGED <<kind, native, aux, lease, first, moved, calls, events>>
    BY <1>8 DEF openresolv!CheckLive, openresolv!bounds, openresolv!hist
  <2>2. call.running /\ native.inc = call.inc
    BY <2>1 DEF Core, Phases, Resting, Observing, Bound, RecordData
  <2>3. CASE loc.cur = call.expected.dns /\ Confirmed("command")
    <3>1. call.disturbed \/ native.dns = call.expected.dns
      BY <2>1, <2>3 DEF RecordData
    <3>2. Core' /\ Kept
      BY <2>1, <2>2, <2>3, <3>1, CheckStep DEF Checking, Ready
    <3> QED BY <2>1, <2>3, <3>2, ConfirmedFacts, RecordFrame
  <2>4. CASE Answer("Rejected", NoState)
    BY <2>1, <2>4, RejectStep, AnswerFacts, RecordFrame DEF Checking
  <2>5. (loc.cur = call.expected.dns /\ Confirmed("command")) \/ Answer("Rejected", NoState)
    BY <1>8, OpenShares, Zenon DEF openresolv!CheckLive, openresolv!CheckExpected
  <2> QED BY <2>3, <2>4, <2>5
<1>9. ASSUME NEW from \in {"command", "undeprecate", "deprecate"}, NEW record,
             NEW to \in {"readback", "undeprecate", "deprecate"},
             openresolv!Run(from, record, to)
      PROVE  Core' /\ Kept /\ RecordData'
  <2>1. pc = from /\ UNCHANGED <<kind, aux, lease, first, moved, calls, events>>
    BY <1>9 DEF openresolv!Run, openresolv!Faulty, openresolv!bounds, openresolv!hist
  <2>2. call.running /\ call.confirmed /\ pc \notin Checking
    BY <2>1 DEF Core, Phases, Resting, Observing, Checking
  <2>3. ASSUME NEW r, openresolv!Wrote(r), Rec(r, ResourceFields), r.inc = native.inc,
               r.rest = native.rest, Rec(loc', {"cur", "res"}),
               pc' \in {"readback", "undeprecate", "deprecate"}
        PROVE  Core' /\ Kept /\ RecordData'
    <3>1. Wrote(r)
      BY <2>3, OpenShares, Zenon
    <3>2. Core' /\ Kept
      BY <1>0, <2>1, <2>2, <2>3, <3>1, WriteStep
         DEF Resting, Observing, Checking, Ready, RecordData
    <3>3. RecordData'
      BY <2>1, <2>3, <3>1, WroteFacts DEF RecordData, SameCall
    <3> QED BY <3>2, <3>3
  <2>4. CASE openresolv!Wrote(openresolv!Resolvconf(record)) /\ Rec(loc', {"cur", "res"})
             /\ pc' \in {"readback", "undeprecate", "deprecate"}
    <3>1. /\ Rec(openresolv!Resolvconf(record), ResourceFields)
          /\ openresolv!Resolvconf(record).inc = native.inc
          /\ openresolv!Resolvconf(record).rest = native.rest
      BY DEF openresolv!Resolvconf, Core, Shapes, Rec, ResourceFields
    <3> QED BY <2>3, <2>4, <3>1
  <2>5. CASE openresolv!Wrote([native EXCEPT !.dns = record]) /\ Rec(loc', {"cur", "res"})
             /\ pc' = "readback"
    <3> DEFINE r == [native EXCEPT !.dns = record]
    <3>1. Rec(r, ResourceFields) /\ r.inc = native.inc /\ r.rest = native.rest
      BY DEF Core, Shapes, Rec, ResourceFields
    <3> HIDE DEF r
    <3>2. openresolv!Wrote(r)
      BY <2>5, Zenon DEF r
    <3> QED BY <2>3, <2>5, <3>1, <3>2
  <2>6. CASE openresolv!Wrote([native EXCEPT !.dns.metric = record.metric])
             /\ Rec(loc', {"cur", "res"}) /\ pc' = "readback"
    <3> DEFINE r == [native EXCEPT !.dns.metric = record.metric]
    <3>1. Rec(r, ResourceFields) /\ r.inc = native.inc /\ r.rest = native.rest
      BY DEF Core, Shapes, Rec, ResourceFields
    <3> HIDE DEF r
    <3>2. openresolv!Wrote(r)
      BY <2>6, Zenon DEF r
    <3> QED BY <2>3, <2>6, <3>1, <3>2
  <2>7. CASE UNCHANGED <<native, call>> /\ Rec(loc', {"cur", "res"}) /\ loc'.res = "err"
             /\ pc' = "readback"
    <3>1. Core' /\ Kept
      BY <2>1, <2>2, <2>7, QuietStep DEF Resting, Observing, Checking, Ready
    <3>2. RecordData'
      BY <2>1, <2>7 DEF RecordData
    <3> QED BY <3>1, <3>2
  <2>8. \A res : loc' = [loc EXCEPT !.res = res] => Rec(loc', {"cur", "res"}) /\ loc'.res = res
    BY DEF Core, Shapes, Rec
  <2>9. \/ openresolv!Wrote(openresolv!Resolvconf(record)) /\ pc' \in {to, "readback"}
        \/ openresolv!Wrote([native EXCEPT !.dns = record]) /\ pc' = "readback"
        \/ openresolv!Wrote([native EXCEPT !.dns.metric = record.metric]) /\ pc' = "readback"
        \/ UNCHANGED <<native, call>> /\ loc' = [loc EXCEPT !.res = "err"] /\ pc' = "readback"
    BY <1>9, Zenon DEF openresolv!Run, openresolv!Failed
  <2>10. loc' = [loc EXCEPT !.res = "ok"] \/ loc' = [loc EXCEPT !.res = "err"]
    BY <1>9, Zenon DEF openresolv!Run, openresolv!Failed
  <2> QED BY <2>4, <2>5, <2>6, <2>7, <2>8, <2>9, <2>10
<1>10. CASE openresolv!Add \/ openresolv!Delete \/ openresolv!Undeprecate \/ openresolv!Deprecate
  BY <1>9, <1>10 DEF openresolv!Add, openresolv!Delete, openresolv!Undeprecate,
     openresolv!Deprecate
<1>11. CASE openresolv!Finish
  <2>1. pc = "finish" /\ UNCHANGED <<kind, native, aux, lease, first, moved, calls, events>>
    BY <1>11 DEF openresolv!Finish, openresolv!Faulty, openresolv!bounds, openresolv!hist
  <2>2. call.running /\ call.confirmed /\ pc \notin Checking /\ call.op \in {"apply", "restore"}
    BY <2>1 DEF Core, Phases, Resting, Observing, Checking
  <2>3. ASSUME NEW live \in {native.id, NoState}, openresolv!Concluded(live)
        PROVE  Core' /\ Kept /\ RecordData'
    <3> DEFINE wanted == IF call.op = "apply" THEN openresolv!Record(call.plan)
                         ELSE call.target.dns
    <3>1. PICK a \in {"Performed", "Indeterminate"}, s \in {[id |-> live, dns |-> loc.cur], NoState} :
             openresolv!Answer(a, s) /\ (a = "Performed" => loc.cur = wanted)
      BY <2>3 DEF openresolv!Concluded
    <3>2. Answer(a, s)
      BY <3>1, OpenShares, Zenon
    <3>3. wanted \in call.goal
      BY <1>0, <2>2 DEF RecordData, Core, Faithful
    <3>4. call.disturbed \/ loc.cur = native.dns
      BY <2>1 DEF RecordData
    <3>5. Boundary!Names(s)
      <4>1. CASE s = NoState \/ call.disturbed
        BY <4>1 DEF Boundary!Names
      <4>2. CASE s = [id |-> live, dns |-> native.dns] /\ ~call.disturbed
        <5>1. call.wrote => call.made = Snap
          BY <2>2, <4>2 DEF Core, Sound
        <5>2. ~call.wrote => native.dns = call.expected.dns
          BY <2>2, <4>2 DEF Core, Sound
        <5> QED BY <4>2, <5>1, <5>2 DEF Boundary!Names, Snap
      <4> QED BY <3>1, <3>4, <4>1, <4>2
    <3>6. Core' /\ Kept
      BY <2>1, <2>2, <3>1, <3>2, <3>3, <3>4, <3>5, AnswerStep
    <3> QED BY <2>1, <3>2, <3>6, AnswerFacts, RecordFrame
  <2> QED BY <1>11, <2>3 DEF openresolv!Finish
<1>12. CASE openresolv!Rival
  <2>1. ASSUME NEW r, openresolv!Foreign(r), Rec(r, ResourceFields), r.inc = 1
        PROVE  Core' /\ Kept /\ RecordData'
    <3>1. Foreign(r)
      BY <2>1, OpenShares, Zenon
    <3>2. Core' /\ Kept
      BY <1>0, <2>1, <3>1, ForeignStep
    <3>3. /\ SameCall /\ call'.wrote = call.wrote /\ native' = r
          /\ call'.disturbed = (call.disturbed \/ call.running) /\ UNCHANGED <<pc, loc, lease>>
      BY <3>1, ForeignFacts
    <3>4. pc \in {"live", "finish"} => call.running
      BY DEF Core, Phases, Resting, Observing
    <3>5. RecordData'
      BY <2>1, <3>3, <3>4 DEF RecordData, SameCall
    <3> QED BY <3>2, <3>5
  <2>2. ASSUME NEW o, openresolv!Foreign([native EXCEPT !.rest = o,
             !.id = IF native.up THEN openresolv!Generated(native.dns, o) ELSE @])
        PROVE  Core' /\ Kept /\ RecordData'
    <3> DEFINE r == [native EXCEPT !.rest = o,
             !.id = IF native.up THEN openresolv!Generated(native.dns, o) ELSE @]
    <3>1. Rec(r, ResourceFields) /\ r.inc = 1
      BY DEF Core, Shapes, Rec, ResourceFields, RecordData
    <3> HIDE DEF r
    <3>2. openresolv!Foreign(r)
      BY <2>2, Zenon DEF r
    <3> QED BY <2>1, <3>1, <3>2
  <2>3. ASSUME openresolv!Foreign(openresolv!Resolvconf([native.dns EXCEPT !.deprecated = TRUE]))
        PROVE  Core' /\ Kept /\ RecordData'
    <3> DEFINE r == openresolv!Resolvconf([native.dns EXCEPT !.deprecated = TRUE])
    <3>1. Rec(r, ResourceFields) /\ r.inc = 1
      BY DEF Core, Shapes, Rec, ResourceFields, RecordData, openresolv!Resolvconf
    <3> HIDE DEF r
    <3>2. openresolv!Foreign(r)
      BY <2>3, Zenon DEF r
    <3> QED BY <2>1, <3>1, <3>2
  <2>4. ASSUME openresolv!Foreign(openresolv!Resolvconf(openresolv!NoRecord))
        PROVE  Core' /\ Kept /\ RecordData'
    <3> DEFINE r == openresolv!Resolvconf(openresolv!NoRecord)
    <3>1. Rec(r, ResourceFields) /\ r.inc = 1
      BY DEF Core, Shapes, Rec, ResourceFields, RecordData, openresolv!Resolvconf
    <3> HIDE DEF r
    <3>2. openresolv!Foreign(r)
      BY <2>4, Zenon DEF r
    <3> QED BY <2>1, <3>1, <3>2
  <2>5. ASSUME openresolv!Foreign([native EXCEPT !.id.ns = <<>>])
        PROVE  Core' /\ Kept /\ RecordData'
    <3> DEFINE r == [native EXCEPT !.id.ns = <<>>]
    <3>1. Rec(r, ResourceFields) /\ r.inc = 1
      BY DEF Core, Shapes, Rec, ResourceFields, RecordData
    <3> HIDE DEF r
    <3>2. openresolv!Foreign(r)
      BY <2>5, Zenon DEF r
    <3> QED BY <2>1, <3>1, <3>2
  <2>6. ASSUME openresolv!Foreign([native EXCEPT !.up = FALSE])
        PROVE  Core' /\ Kept /\ RecordData'
    <3> DEFINE r == [native EXCEPT !.up = FALSE]
    <3>1. Rec(r, ResourceFields) /\ r.inc = 1
      BY DEF Core, Shapes, Rec, ResourceFields, RecordData
    <3> HIDE DEF r
    <3>2. openresolv!Foreign(r)
      BY <2>6, Zenon DEF r
    <3> QED BY <2>1, <3>1, <3>2
  <2> QED BY <1>12, <2>2, <2>3, <2>4, <2>5, <2>6, Zenon DEF openresolv!Rival
<1>13. CASE openresolv!Crash
  <2>1. Crash
    BY <1>13, OpenShares, Zenon
  <2>2. RecordData'
    BY <2>1, CrashFacts, NoCallIs, NoLeaseIs DEF RecordData
  <2> QED BY <1>0, <2>1, <2>2, CrashStep
<1> QED
  BY <1>0, <1>1, <1>2, <1>3, <1>4, <1>5, <1>6, <1>7, <1>8, <1>10, <1>11, <1>12, <1>13, Zenon
  DEF openresolv!Next

-----------------------------------------------------------------------------
(* The direct resolv.conf backends. *)

\* The backends share these steps with the others.
LEMMA DirectShares ==
    /\ direct!Observe <=> Observe
    /\ \A plan, goal, guarded : direct!BeginApply(plan, goal, guarded) <=> BeginApply(plan, goal, guarded)
    /\ \A goal, guarded : direct!BeginRestore(goal, guarded) <=> BeginRestore(goal, guarded)
    /\ direct!Verify <=> Verify
    /\ direct!EndRestore <=> EndRestore
    /\ \A from, resource, to : direct!Writing(from, resource, to) <=> Writing(from, resource, to)
    /\ \A res : direct!Result(res) <=> Result(res)
    /\ \A resource : direct!Foreign(resource) <=> Foreign(resource)
    /\ direct!Return <=> Return
    /\ direct!Crash <=> Crash
    /\ \A answer, produced : direct!Answer(answer, produced) <=> Answer(answer, produced)
    /\ \A label : direct!Confirmed(label) <=> Confirmed(label)
    /\ \A label : direct!Goto(label) <=> Goto(label)
    /\ direct!Faulty <=> Faulty
<1>1. direct!Observe <=> Observe
  BY Zenon DEF direct!Observe, direct!Called, direct!Took, direct!Snap, direct!NoLease, Observe,
      Called, Took, Snap, NoLease
<1>2. \A plan, goal, guarded : direct!BeginApply(plan, goal, guarded) <=> BeginApply(plan, goal, guarded)
  BY Zenon DEF direct!BeginApply, direct!Called, direct!NoLease, direct!Begin, direct!NoCall,
      direct!NoLocals, direct!hist, BeginApply, Called, NoLease, Begin, NoCall, NoLocals, hist
<1>3. \A goal, guarded : direct!BeginRestore(goal, guarded) <=> BeginRestore(goal, guarded)
  BY Zenon DEF direct!BeginRestore, direct!Called, direct!Begin, direct!NoCall, direct!NoLocals,
      direct!hist, BeginRestore, Called, Begin, NoCall, NoLocals, hist
<1>4. direct!Verify <=> Verify
  BY Zenon DEF direct!Verify, direct!NoLease, direct!NoCall, direct!Snap, direct!hist,
      direct!bounds, Verify, NoLease, NoCall, Snap, hist, bounds
<1>5. direct!EndRestore <=> EndRestore
  BY Zenon DEF direct!EndRestore, direct!NoLease, direct!NoCall, direct!hist, direct!bounds,
      EndRestore, NoLease, NoCall, hist, bounds
<1>6. \A from, resource, to : direct!Writing(from, resource, to) <=> Writing(from, resource, to)
  BY Zenon DEF direct!Writing, direct!Wrote, direct!Result, direct!Faulty, direct!hist,
      direct!bounds, Writing, Wrote, Result, Faulty, hist, bounds
<1>7. \A res : direct!Result(res) <=> Result(res)
  BY Zenon DEF direct!Result, Result
<1>8. \A resource : direct!Foreign(resource) <=> Foreign(resource)
  BY Zenon DEF direct!Foreign, Foreign
<1>9. direct!Return <=> Return
  BY Zenon DEF direct!Return, direct!Answer, direct!NoLocals, direct!hist, direct!bounds,
      Return, Answer, NoLocals, hist, bounds
<1>10. direct!Crash <=> Crash
  BY Zenon DEF direct!Crash, direct!Faulty, direct!NoCall, direct!NoLocals, direct!NoLease,
      direct!hist, Crash, Faulty, NoCall, NoLocals, NoLease, hist
<1>11. \A answer, produced : direct!Answer(answer, produced) <=> Answer(answer, produced)
  BY Zenon DEF direct!Answer, direct!NoLocals, Answer, NoLocals
<1>12. \A label : direct!Confirmed(label) <=> Confirmed(label)
  BY Zenon DEF direct!Confirmed, Confirmed
<1>13. \A label : direct!Goto(label) <=> Goto(label)
  BY Zenon DEF direct!Goto, Goto
<1>14. direct!Faulty <=> Faulty
  BY Zenon DEF direct!Faulty, Faulty
<1> QED BY <1>1, <1>2, <1>3, <1>4, <1>5, <1>6, <1>7, <1>8, <1>9, <1>10, <1>11, <1>12, <1>13, <1>14

\* A missing file, or one with a content, a mode and a time.
IsFile(dns) ==
    dns = <<>> \/ \E content, modified : \E mode \in direct!Modes :
                     dns = direct!File(content, mode, modified)

\* A file that is there, with the mode of the captured one.
LikeBase(dns) == dns # <<>> /\ dns[1].mode = lease.base.dns[1].mode

DirectData ==
    /\ native.inc = 1 /\ IsFile(native.dns)
    /\ lease # NoLease => lease.inc = 1
    /\ lease.base # NoState => IsFile(lease.base.dns)
    /\ lease.evidence # NoState => IsFile(lease.evidence.dns)
    /\ call.produced = NoState /\ ~call.guarded
    /\ call.op = "apply" =>
          /\ lease.base # NoState /\ call.expected = lease.base
          /\ call.goal = direct!Goal(call.plan)
    /\ call.op = "restore" =>
          /\ lease.evidence # NoState /\ call.expected = lease.evidence
          /\ call.goal = direct!RestoreGoal
    /\ pc \in {"usable", "remove"} => direct!Removal
    /\ pc = "publish" => ~direct!Removal
    /\ pc \in {"publish", "usable", "remove"} /\ ~call.disturbed => native.up
    /\ pc = "reread" => call.op = "apply" /\ (call.disturbed \/ native.dns \in call.goal)
    /\ kind = "bsd" /\ ~moved /\ lease.base # NoState /\ lease.base.dns # <<>> =>
          /\ LikeBase(native.dns)
          /\ lease.evidence # NoState => LikeBase(lease.evidence.dns)
    /\ call.op = "restore" /\ call.answer = "Performed" /\ ~moved => native.dns \in call.goal

DirectPlaces == {"usable", "remove", "publish", "reread"}

LEMMA DirectFrame ==
    ASSUME DirectData, UNCHANGED <<kind, native, lease, moved>>, SameCall,
           call'.produced = NoState, pc' \notin DirectPlaces,
           call'.op = "restore" /\ call'.answer = "Performed" /\ ~moved => native.dns \in call.goal
    PROVE  DirectData'
BY DEF DirectData, SameCall, DirectPlaces, LikeBase, direct!RestoreGoal, direct!Bsd, direct!Before,
   direct!Goal, direct!Times

\* A snapshot of a file, changed in its mode only, is still one of a file.
LEMMA Remoded ==
    ASSUME NEW dns, IsFile(dns), dns # <<>>, NEW m \in direct!Modes
    PROVE  /\ dns[1].mode \in direct!Modes
           /\ direct!File(dns[1].content, m, dns[1].modified) = [dns EXCEPT ![1].mode = m]
           /\ m = dns[1].mode => direct!File(dns[1].content, m, dns[1].modified) = dns
<1>1. PICK content, modified : \E mode \in direct!Modes : dns = direct!File(content, mode, modified)
  BY DEF IsFile
<1>2. PICK mode \in direct!Modes : dns = direct!File(content, mode, modified)
  BY <1>1
<1>3. dns = <<[content |-> content, mode |-> mode, modified |-> modified]>>
  BY <1>2 DEF direct!File
<1>4. dns[1] = [content |-> content, mode |-> mode, modified |-> modified]
  BY <1>3
<1>5. /\ dns[1].mode = mode /\ dns[1].content = content /\ dns[1].modified = modified
  BY <1>4
<1>6. [dns EXCEPT ![1].mode = m] = <<[content |-> content, mode |-> m, modified |-> modified]>>
  BY <1>3
<1> QED BY <1>2, <1>5, <1>6 DEF direct!File

\* The file a call publishes is one it wants, with the mode of the one it replaces.
LEMMA StagedIs ==
    ASSUME Core, DirectData, kind \in {"direct", "bsd"}, pc = "publish", call.running
    PROVE  /\ IsFile(direct!Staged) /\ direct!Staged \in call.goal
           /\ kind = "bsd" /\ ~moved /\ lease.base.dns # <<>> => LikeBase(direct!Staged)
<1>1. direct!DefaultMode \in direct!Modes
  BY DEF direct!DefaultMode, direct!Modes
<1>2. \A c, t : \A m \in direct!Modes :
         /\ IsFile(direct!File(c, m, t)) /\ direct!File(c, m, t) # <<>>
         /\ direct!File(c, m, t)[1].mode = m
  BY DEF IsFile, direct!File
<1>3. CASE call.op = "apply"
  <2>1. lease.base # NoState /\ call.expected = lease.base /\ IsFile(lease.base.dns)
        /\ call.goal = direct!Goal(call.plan)
    BY <1>3 DEF DirectData
  <2> DEFINE m == IF call.expected.dns = <<>> THEN direct!DefaultMode ELSE call.expected.dns[1].mode
  <2>2. m \in direct!Modes
    BY <1>1, <2>1, Remoded
  <2>3. direct!Staged = direct!File(direct!ResolvConf(call.plan), m, direct!Now)
    BY <1>3 DEF direct!Staged
  <2>4. direct!Now \in direct!Times
    <3>1. calls \in 0..MaxCalls /\ MaxCalls \in Nat /\ MaxEvents \in Nat
      BY Constants DEF Core, Shapes
    <3>2. 1 + calls \in 1..(MaxCalls + 1) /\ 0 \in 0..MaxEvents
      BY <3>1
    <3>3. 10 * (1 + calls) = 10 * (1 + calls) + 0
      BY <3>1
    <3>4. 10 * (1 + calls) \in {10 * n + e : n \in 1..(MaxCalls + 1), e \in 0..MaxEvents}
      BY <3>2, <3>3
    <3> QED BY <3>4 DEF direct!Now, direct!Times
  <2>5. direct!Staged \in call.goal
    BY <2>1, <2>2, <2>3, <2>4 DEF direct!Goal
  <2> QED BY <1>2, <2>1, <2>2, <2>3, <2>5 DEF LikeBase
<1>4. CASE call.op = "restore"
  <2>1. /\ lease.evidence # NoState /\ call.expected = lease.evidence /\ IsFile(call.expected.dns)
        /\ lease.base # NoState /\ call.target = lease.base /\ IsFile(lease.base.dns)
        /\ lease.base.dns # <<>> /\ call.goal = direct!RestoreGoal
    BY <1>4 DEF DirectData, Core, Faithful, direct!Removal
  <2> DEFINE base == lease.base.dns
             m == IF direct!Bsd /\ call.expected.dns # <<>> THEN call.expected.dns[1].mode
                  ELSE base[1].mode
  <2>2. direct!Staged = direct!File(base[1].content, m, base[1].modified)
    BY <1>4, <2>1 DEF direct!Staged
  <2>3. m \in direct!Modes
    BY <1>1, <2>1, Remoded
  <2>4. direct!Staged = [base EXCEPT ![1].mode = m] /\ (m = base[1].mode => direct!Staged = base)
    BY ZenonT(60), <2>1, <2>2, <2>3, Remoded
  <2>5. direct!Staged \in call.goal
    <3>1. CASE direct!Bsd
      <4> HIDE DEF base, m
      <4>1. base # <<>> /\ direct!Before = {base}
        BY <2>1 DEF direct!Before, base
      <4>2. [base EXCEPT ![1].mode = m] \in direct!RestoreGoal
        BY <2>3, <3>1, <4>1 DEF direct!RestoreGoal
      <4> QED BY <2>1, <2>4, <4>2
    <3>2. CASE ~direct!Bsd
      BY <2>1, <2>4, <3>2 DEF direct!RestoreGoal, direct!Before
    <3> QED BY <3>1, <3>2
  <2>6. kind = "bsd" /\ ~moved => m = base[1].mode
    BY <2>1 DEF direct!Bsd, DirectData, LikeBase
  <2>7. IsFile(direct!Staged) /\ direct!Staged # <<>> /\ direct!Staged[1].mode = m
    BY <1>2, <2>2, <2>3
  <2> QED BY <2>5, <2>6, <2>7 DEF LikeBase
<1> QED BY <1>3, <1>4 DEF Core, Phases

LEMMA DirectStep ==
    ASSUME Core, DirectData, kind \in {"direct", "bsd"}, direct!Next
    PROVE  Core' /\ Kept /\ DirectData'
<1>0. kind # "detecting" /\ (Occupied => ~native.up)
  BY DEF Occupied
<1>1. ASSUME NEW p, direct!BeginApply(p, direct!Goal(p), FALSE)
      PROVE  Core' /\ Kept /\ DirectData'
  <2>1. BeginApply(p, direct!Goal(p), FALSE)
    BY <1>1, DirectShares, Zenon
  <2>2. /\ Core' /\ Kept /\ pc' = "status" /\ UNCHANGED <<kind, native, lease, moved>>
        /\ lease.base # NoState /\ call'.expected = lease.base
        /\ call'.op = "apply" /\ call'.plan = p /\ ~call'.guarded
        /\ call'.goal = direct!Goal(p) /\ call'.produced = NoState
    BY <1>0, <2>1, BeginApplyStep
  <2>3. direct!Goal(call'.plan) = direct!Goal(p)'
    BY <2>2 DEF direct!Goal, direct!Times
  <2>4. DirectData'
    BY <2>2, <2>3 DEF DirectData, LikeBase
  <2> QED BY <2>2, <2>4
<1>2. CASE direct!BeginRestore(direct!RestoreGoal, FALSE)
  <2>1. BeginRestore(direct!RestoreGoal, FALSE)
    BY <1>2, DirectShares, Zenon
  <2>2. kind # "bsd" => direct!RestoreGoal = {lease.base.dns}
    BY DEF direct!RestoreGoal, direct!Bsd, direct!Before
  <2>3. /\ Core' /\ Kept /\ pc' = "status" /\ UNCHANGED <<kind, native, lease, moved>>
        /\ lease.evidence # NoState /\ call'.expected = lease.evidence
        /\ call'.op = "restore" /\ ~call'.guarded /\ call'.goal = direct!RestoreGoal
        /\ call'.produced = NoState
    BY <1>0, <2>1, <2>2, BeginRestoreStep
  <2>4. call'.answer = "none"
    BY <2>1, BeginFields DEF BeginRestore
  <2>5. direct!RestoreGoal' = direct!RestoreGoal
    BY <2>3 DEF direct!RestoreGoal, direct!Bsd, direct!Before
  <2>6. DirectData'
    BY <2>3, <2>4, <2>5 DEF DirectData, LikeBase
  <2> QED BY <2>3, <2>6
<1>3. CASE direct!Verify
  <2>1. Verify
    BY <1>3, DirectShares, Zenon
  <2>2. ASSUME call' = NoCall, lease' = NoLease PROVE DirectData'
    BY <2>1, <2>2, VerifyFacts, NoLeaseIs, NoCallIs DEF DirectData
  <2>3. ASSUME call' = call, lease'.base = lease.base, lease'.inc = lease.inc,
               lease'.evidence = call.produced \/ lease'.evidence = Snap
        PROVE  DirectData'
    <3>1. lease'.evidence = NoState \/ lease'.evidence.dns = native.dns
      BY <2>3 DEF DirectData, Snap
    <3>2. /\ UNCHANGED <<kind, native, moved, pc>> /\ pc = "idle" /\ call.op = "apply"
          /\ lease.base # NoState /\ lease # NoLease
      BY <2>1, VerifyFacts, NoLeaseIs DEF DirectData
    <3>3. direct!Goal(call.plan)' = direct!Goal(call.plan)
      BY <2>3 DEF direct!Goal, direct!Times
    <3> QED BY <2>3, <3>1, <3>2, <3>3 DEF DirectData, LikeBase
  <2> QED BY <1>0, <2>1, <2>2, <2>3, VerifyFacts, VerifyStep
<1>4. CASE direct!EndRestore
  <2>1. EndRestore
    BY <1>4, DirectShares, Zenon
  <2>2. /\ UNCHANGED <<kind, native, moved, pc>> /\ pc = "idle" /\ call' = NoCall
        /\ lease' \in {lease, NoLease}
    BY <2>1, EndRestoreFacts DEF DirectData
  <2>3. DirectData'
    BY <2>2, NoLeaseIs, NoCallIs DEF DirectData, LikeBase
  <2> QED BY <1>0, <2>1, <2>3, EndRestoreStep
<1>5. CASE direct!Observe
  <2>1. Observe
    BY <1>5, DirectShares, Zenon
  <2>2. /\ UNCHANGED <<kind, native, call, pc>> /\ pc = "idle" /\ lease'.base = Snap
        /\ lease'.inc = native.inc /\ lease'.evidence = NoState
    BY <2>1, ObserveFacts
  <2>3. call = NoCall /\ Snap.dns = native.dns
    BY <2>1, NoLeaseIs DEF Observe, Core, Phases, Bound, Snap
  <2>4. DirectData'
    BY <2>2, <2>3, NoCallIs DEF DirectData, LikeBase
  <2> QED BY <1>0, <2>1, <2>4, ObserveStep
<1>6. CASE direct!Prepare
  <2>1. pc = "status" /\ UNCHANGED <<kind, native, aux, lease, first, moved, calls, events>>
    BY <1>6 DEF direct!Prepare, direct!Faulty, direct!bounds, direct!hist
  <2>2. call.running /\ native.inc = call.inc
    BY <2>1 DEF Core, Phases, Resting, Observing, Bound, DirectData
  <2>3. CASE native.dns = call.expected.dns /\ Confirmed("stage")
    <3>1. Core' /\ Kept
      BY <2>1, <2>2, <2>3, CheckStep DEF Checking, Ready
    <3>2. /\ SameCall /\ call'.produced = NoState /\ pc' = "stage" /\ call'.answer = call.answer
      BY <2>3, ConfirmedFacts DEF DirectData
    <3> QED BY <2>1, <3>1, <3>2, DirectFrame DEF DirectPlaces, DirectData, SameCall
  <2>4. CASE Answer("Rejected", NoState)
    <3>1. Core' /\ Kept
      BY <2>1, <2>4, RejectStep DEF Checking
    <3>2. SameCall /\ call'.produced = NoState /\ pc' = "idle" /\ call'.answer = "Rejected"
      BY <2>4, AnswerFacts
    <3> QED BY <2>1, <3>1, <3>2, DirectFrame DEF DirectPlaces
  <2>5. \/ native.dns = call.expected.dns /\ Confirmed("stage")
        \/ Answer("Rejected", NoState)
    BY <1>6, DirectShares, Zenon DEF direct!Prepare, direct!CheckExpected, direct!AsExpected
  <2> QED BY <2>3, <2>4, <2>5
<1>7. ASSUME call.running, pc \notin Checking, pc' = "return", NEW res, Result(res),
             UNCHANGED <<kind, native, aux, call, lease, first, moved, calls, events>>,
             res = "external" => ~call.wrote,
             res = "ok" => call.disturbed \/ native.dns \in call.goal
      PROVE  Core' /\ Kept /\ DirectData'
  <2>1. Core' /\ Kept
    BY <1>7, ResultStep
  <2>2. call.answer = "none"
    BY <1>7 DEF Core, Phases
  <2> QED BY <1>7, <2>1, <2>2, DirectFrame DEF DirectPlaces, DirectData, SameCall
<1>8. ASSUME call.running, pc \in {"stage", "verify", "usable"},
             UNCHANGED <<kind, native, aux, call, loc, lease, first, moved, calls, events>>,
             \/ pc' = "verify"
             \/ pc' = "publish" /\ ~direct!Removal /\ native.up
             \/ pc' \in {"usable", "remove"} /\ direct!Removal /\ native.up
      PROVE  Core' /\ Kept /\ DirectData'
  <2>1. Core' /\ Kept
    BY <1>8, QuietStep DEF Core, Shapes, Resting, Observing, Checking, Ready
  <2>2. call.answer = "none"
    BY <1>8 DEF Core, Phases
  <2>3. DirectData'
    BY <1>8, <2>2 DEF DirectData, LikeBase, direct!Removal, direct!RestoreGoal, direct!Bsd,
       direct!Before, direct!Goal, direct!Times
  <2> QED BY <2>1, <2>3
<1>9. ASSUME pc \in {"stage", "verify", "usable", "publish", "remove", "reread"}
      PROVE  /\ call.running /\ call.confirmed /\ pc \notin Checking /\ ~call.guarded
             /\ pc # "reread" => ~call.wrote
  BY <1>9 DEF Core, Phases, Resting, Observing, Checking, Ready, DirectData
<1>10. CASE direct!Stage
  <2>1. pc = "stage" /\ UNCHANGED <<kind, native, aux, lease, first, moved, calls, events>>
    BY <1>10 DEF direct!Stage, direct!Faulty, direct!bounds, direct!hist
  <2>2. Goto("verify") \/ (Result("err") /\ UNCHANGED call)
    BY <1>10, DirectShares, Zenon DEF direct!Stage
  <2> QED BY <1>7, <1>8, <1>9, <2>1, <2>2 DEF Goto, Result
<1>11. CASE direct!VerifyExpected
  <2>1. pc = "verify" /\ UNCHANGED <<kind, native, aux, lease, first, moved, calls, events>>
    BY <1>11 DEF direct!VerifyExpected, direct!Faulty, direct!bounds, direct!hist
  <2>2. \/ native.up /\ Goto(IF direct!Removal THEN "usable" ELSE "publish")
        \/ (Result("err") \/ Result("external")) /\ UNCHANGED call
    BY <1>11, DirectShares, Zenon DEF direct!VerifyExpected
  <2> QED BY <1>7, <1>8, <1>9, <2>1, <2>2 DEF Goto, Result
<1>12. CASE direct!CheckUsable
  <2>1. pc = "usable" /\ UNCHANGED <<kind, native, aux, lease, first, moved, calls, events>>
    BY <1>12 DEF direct!CheckUsable, direct!bounds, direct!hist
  <2>2. (native.up /\ Goto("remove")) \/ (Result("err") /\ UNCHANGED call)
    BY <1>12, DirectShares, Zenon DEF direct!CheckUsable
  <2>3. direct!Removal
    BY <2>1 DEF DirectData
  <2> QED BY <1>7, <1>8, <1>9, <2>1, <2>2, <2>3 DEF Goto, Result
<1>13. CASE direct!Publish
  <2> DEFINE new == [native EXCEPT !.dns = direct!Staged, !.up = TRUE]
             to == IF call.op = "apply" THEN "reread" ELSE "return"
  <2>1. /\ Rec(new, ResourceFields) /\ new.inc = native.inc /\ new.rest = native.rest
        /\ new.dns = direct!Staged
    BY DEF Core, Shapes, Rec, ResourceFields
  <2>2. direct!Writing("publish", new, to) /\ UNCHANGED aux
    BY <1>13, Zenon DEF direct!Publish
  <2> HIDE DEF new
  <2>3. Writing("publish", new, to) /\ pc = "publish" /\ to \in Written
    <3>1. Writing("publish", new, to)
      BY <2>2, DirectShares, Zenon
    <3> QED BY <3>1, WritingFacts DEF Written
  <2>4. /\ IsFile(new.dns) /\ new.dns \in call.goal
        /\ kind = "bsd" /\ ~moved /\ lease.base.dns # <<>> => LikeBase(new.dns)
    BY <1>9, <2>1, <2>3, StagedIs
  <2>5. Core' /\ Kept
    BY <1>0, <1>9, <2>1, <2>3, <2>4, WritingStep DEF DirectData
  <2>6. /\ UNCHANGED <<kind, lease, moved>> /\ native' \in {native, new} /\ SameCall
        /\ call'.produced = call.produced /\ call'.disturbed = call.disturbed
        /\ call'.answer = "none" /\ pc' \in {"reread", "return"}
        /\ pc' = "reread" => native' = new /\ call.op = "apply"
    <3>1. call.answer = "none"
      BY <1>9, <2>3 DEF Core, Phases
    <3> QED BY <2>3, <3>1, WritingFacts
  <2>7. /\ direct!RestoreGoal' = direct!RestoreGoal
        /\ direct!Goal(call.plan)' = direct!Goal(call.plan)
    BY <2>6 DEF direct!RestoreGoal, direct!Bsd, direct!Before, direct!Goal, direct!Times, SameCall
  <2>8. DirectData'
    BY <2>1, <2>4, <2>6, <2>7 DEF DirectData, LikeBase, SameCall
  <2> QED BY <2>5, <2>8
<1>14. CASE direct!RemoveCurrent
  <2> DEFINE new == [native EXCEPT !.dns = <<>>, !.up = TRUE]
  <2>1. /\ Rec(new, ResourceFields) /\ new.inc = native.inc /\ new.rest = native.rest
        /\ new.dns = <<>>
    BY DEF Core, Shapes, Rec, ResourceFields
  <2>2. direct!Writing("remove", new, "return") /\ UNCHANGED aux
    BY <1>14, Zenon DEF direct!RemoveCurrent
  <2> HIDE DEF new
  <2>3. Writing("remove", new, "return") /\ pc = "remove"
    <3>1. Writing("remove", new, "return")
      BY <2>2, DirectShares, Zenon
    <3> QED BY <3>1, WritingFacts
  <2>4. call.op = "restore" /\ lease.base.dns = <<>> /\ call.goal = direct!RestoreGoal
    BY <2>3 DEF DirectData, direct!Removal, Core, Faithful
  <2>5. <<>> \in call.goal
    BY <2>4 DEF direct!RestoreGoal, direct!Before
  <2>6. Core' /\ Kept
    BY <1>0, <1>9, <2>1, <2>3, <2>5, WritingStep DEF DirectData, Written
  <2>7. /\ UNCHANGED <<kind, lease, moved>> /\ native' \in {native, new} /\ SameCall
        /\ call'.produced = call.produced /\ call'.answer = "none" /\ pc' = "return"
    <3>1. call.answer = "none"
      BY <1>9, <2>3 DEF Core, Phases
    <3> QED BY <2>3, <3>1, WritingFacts
  <2>8. direct!RestoreGoal' = direct!RestoreGoal
    BY <2>7 DEF direct!RestoreGoal, direct!Bsd, direct!Before
  <2>9. DirectData'
    BY <2>1, <2>4, <2>7, <2>8 DEF DirectData, LikeBase, SameCall, IsFile
  <2> QED BY <2>6, <2>9
<1>15. CASE direct!Reread
  <2>1. pc = "reread" /\ UNCHANGED <<kind, native, aux, call, lease, first, moved, calls, events>>
    BY <1>15 DEF direct!Reread, direct!Faulty, direct!bounds, direct!hist
  <2>2. Result("ok") \/ Result("err")
    BY <1>15, DirectShares, Zenon DEF direct!Reread
  <2>3. call.disturbed \/ native.dns \in call.goal
    BY <2>1 DEF DirectData
  <2> QED BY <1>7, <1>9, <2>1, <2>2, <2>3 DEF Result
<1>16. CASE direct!Rival
  <2>1. ASSUME NEW r, direct!Foreign(r), Rec(r, ResourceFields), r.inc = 1, IsFile(r.dns)
        PROVE  Core' /\ Kept /\ DirectData'
    <3>1. Foreign(r)
      BY <2>1, DirectShares, Zenon
    <3>2. Core' /\ Kept
      BY <1>0, <2>1, <3>1, ForeignStep
    <3>3. /\ SameCall /\ native' = r /\ call'.produced = call.produced /\ moved' = TRUE
          /\ call'.disturbed = (call.disturbed \/ call.running) /\ UNCHANGED <<kind, pc, lease>>
      BY <3>1, ForeignFacts
    <3>4. pc \in DirectPlaces => call.running
      BY DEF Core, Phases, Resting, Observing, DirectPlaces
    <3>5. /\ direct!RestoreGoal' = direct!RestoreGoal
          /\ direct!Goal(call.plan)' = direct!Goal(call.plan)
      BY <3>3 DEF direct!RestoreGoal, direct!Bsd, direct!Before, direct!Goal, direct!Times, SameCall
    <3>6. DirectData'
      BY <2>1, <3>3, <3>4, <3>5 DEF DirectData, SameCall, LikeBase, DirectPlaces, direct!Removal
    <3> QED BY <3>2, <3>6
  <2>2. direct!DefaultMode \in direct!Modes
    BY DEF direct!DefaultMode, direct!Modes
  <2>3. ASSUME NEW c, NEW up, direct!Foreign([native EXCEPT
               !.dns = direct!File(c, direct!DefaultMode, direct!Later), !.up = up])
        PROVE  Core' /\ Kept /\ DirectData'
    <3> DEFINE r == [native EXCEPT !.dns = direct!File(c, direct!DefaultMode, direct!Later), !.up = up]
    <3>1. Rec(r, ResourceFields) /\ r.inc = 1
          /\ r.dns = direct!File(c, direct!DefaultMode, direct!Later)
      BY DEF Core, Shapes, Rec, ResourceFields, DirectData
    <3>2. IsFile(r.dns)
      BY <2>2, <3>1 DEF IsFile
    <3> HIDE DEF r
    <3>3. direct!Foreign(r)
      BY <2>3, Zenon DEF r
    <3> QED BY <2>1, <3>1, <3>2, <3>3
  <2>4. ASSUME NEW m \in direct!Modes, native.dns # <<>>,
               direct!Foreign([native EXCEPT !.dns[1].mode = m])
        PROVE  Core' /\ Kept /\ DirectData'
    <3> DEFINE r == [native EXCEPT !.dns[1].mode = m]
    <3>1. Rec(r, ResourceFields) /\ r.inc = 1 /\ r.dns = [native.dns EXCEPT ![1].mode = m]
      BY DEF Core, Shapes, Rec, ResourceFields, DirectData
    <3>2. IsFile(r.dns)
      <4>1. r.dns = direct!File(native.dns[1].content, m, native.dns[1].modified)
        BY <2>4, <3>1, Remoded DEF DirectData
      <4> QED BY <4>1 DEF IsFile
    <3> HIDE DEF r
    <3>3. direct!Foreign(r)
      BY <2>4, Zenon DEF r
    <3> QED BY <2>1, <3>1, <3>2, <3>3
  <2>5. ASSUME direct!Foreign([native EXCEPT !.dns = <<>>, !.up = TRUE])
        PROVE  Core' /\ Kept /\ DirectData'
    <3> DEFINE r == [native EXCEPT !.dns = <<>>, !.up = TRUE]
    <3>1. Rec(r, ResourceFields) /\ r.inc = 1 /\ IsFile(r.dns)
      BY DEF Core, Shapes, Rec, ResourceFields, DirectData, IsFile
    <3> HIDE DEF r
    <3>2. direct!Foreign(r)
      BY <2>5, Zenon DEF r
    <3> QED BY <2>1, <3>1, <3>2
  <2> QED BY <1>16, <2>3, <2>4, <2>5, Zenon DEF direct!Rival
<1>17. CASE direct!Return
  <2>1. Return
    BY <1>17, DirectShares, Zenon
  <2>2. PICK a : Answer(a, NoState) /\ (a = "Performed" => loc.res = "ok")
    BY <2>1 DEF Return
  <2>3. /\ UNCHANGED <<kind, native, lease, moved>> /\ SameCall /\ call'.produced = NoState
        /\ pc = "return" /\ pc' = "idle" /\ call'.answer = a
    BY <2>1, <2>2, ReturnFacts, AnswerFacts
  <2>4. loc.res = "ok" /\ ~moved => native.dns \in call.goal
    BY <2>3 DEF Core, Sound, Phases, Faithful, Resting, Observing
  <2> QED BY <2>1, <2>2, <2>3, <2>4, ReturnStep, DirectFrame DEF DirectPlaces
<1>18. CASE direct!Crash
  <2>1. Crash
    BY <1>18, DirectShares, Zenon
  <2>2. DirectData'
    BY <2>1, CrashFacts, NoCallIs, NoLeaseIs DEF DirectData
  <2> QED BY <1>0, <2>1, <2>2, CrashStep
<1> QED
  BY <1>1, <1>2, <1>3, <1>4, <1>5, <1>6, <1>10, <1>11, <1>12, <1>13, <1>14, <1>15, <1>16, <1>17,
     <1>18, Zenon DEF direct!Next

\* On BSD, too, what a restore leaves is the file captured.
LEMMA DirectRestores ==
    ASSUME Core, DirectData, kind = "bsd", call.op = "restore", call.answer = "Performed", ~moved
    PROVE  native.dns = lease.base.dns
<1>1. /\ lease.base # NoState /\ IsFile(lease.base.dns) /\ native.dns \in direct!RestoreGoal
  BY DEF Core, Faithful, DirectData
<1>2. CASE lease.base.dns = <<>>
  BY <1>1, <1>2 DEF direct!RestoreGoal, direct!Before
<1>3. CASE lease.base.dns # <<>>
  <2>1. native.dns # <<>> /\ native.dns[1].mode = lease.base.dns[1].mode
    BY <1>1, <1>3 DEF DirectData, LikeBase
  <2>2. PICK m \in direct!Modes : native.dns = [lease.base.dns EXCEPT ![1].mode = m]
    BY <1>1, <1>3, <2>1 DEF direct!RestoreGoal, direct!Before, direct!Bsd
  <2>3. native.dns = direct!File(lease.base.dns[1].content, m, lease.base.dns[1].modified)
    BY <1>1, <1>3, <2>2, Remoded
  <2>4. native.dns[1].mode = m
    BY <2>3 DEF direct!File
  <2> QED BY <1>1, <1>3, <2>1, <2>3, <2>4, Remoded
<1> QED BY <1>2, <1>3

\* The values of a rule, and the first of them in the order they are written.
RuleFields ==
    {"Comment", "Version", "Name", "GenericDNSServers", "DisplayName", "ConfigOptions"}
FirstValues(n) == {windows!ValueOrder[i] : i \in 1..n}
Begun(n) == [v \in FirstValues(n) |-> windows!Wanted[v]]

\* No rule, or one with some values; no rule, or a whole one of this owner.
IsRule(dns) == dns = <<>> \/ \E rule : Rec(rule, DOMAIN rule) /\ dns = <<rule>>
IsOurs(dns) ==
    dns = <<>> \/ \E rule : Rec(rule, RuleFields) /\ rule.Comment = "osdns" /\ dns = <<rule>>

RuleData ==
    /\ aux \in Nat /\ IsRule(native.dns)
    /\ lease.base # NoState => IsOurs(lease.base.dns)
    /\ call.produced = NoState /\ ~call.guarded
    /\ call.op = "apply" => <<windows!Rule(call.plan)>> \in call.goal
    /\ pc \in {"create", "existing", "value", "undo"} /\ call.op = "restore" =>
          call.target.dns # <<>>
    /\ pc = "delete" =>
          call.op = "restore" /\ call.target.dns = <<>> /\ (call.disturbed \/ ~Occupied)
    /\ pc \in {"value", "undo"} =>
          /\ loc.cur[1] \in Nat /\ loc.cur[1] <= aux
          /\ windows!OurKey => \E n \in 0..5 : native.dns = <<Begun(n)>>
    /\ NoHalfRule

RulePlaces == {"create", "existing", "value", "undo", "delete"}

LEMMA RuleFrame ==
    ASSUME RuleData, UNCHANGED <<kind, native, aux, lease>>, SameCall, call'.produced = NoState,
           pc' \notin RulePlaces
    PROVE  RuleData'
<1>1. NoHalfRule'
  BY DEF RuleData, NoHalfRule, windows!OurMarker, windows!Values, windows!Whole, windows!Elements,
     windows!ValueOrder
<1> QED BY <1>1 DEF RuleData, SameCall, RulePlaces

LEMMA ValueOrderIs ==
    /\ windows!Elements(windows!ValueOrder) = RuleFields /\ FirstValues(6) = RuleFields
    /\ DOMAIN windows!ValueOrder = 1..6 /\ FirstValues(0) = {}
    /\ \A n \in 0..5 :
          /\ FirstValues(n + 1) = FirstValues(n) \cup {windows!ValueOrder[n + 1]}
          /\ "ConfigOptions" \notin FirstValues(n)
          /\ {i \in 1..6 : windows!ValueOrder[i] \in FirstValues(n)} = 1..n
          /\ windows!ValueOrder[n + 1] \notin FirstValues(n)
    /\ \A n \in 1..6 : "Comment" \in FirstValues(n)
<1> DEFINE order == windows!ValueOrder
<1>1. /\ order[1] = "Comment" /\ order[2] = "Version" /\ order[3] = "Name"
      /\ order[4] = "GenericDNSServers" /\ order[5] = "DisplayName" /\ order[6] = "ConfigOptions"
      /\ DOMAIN order = 1..6
  BY DEF windows!ValueOrder
<1>2. \A i, j \in 1..6 : order[i] = order[j] => i = j
  <2> SUFFICES ASSUME NEW i \in 1..6, NEW j \in 1..6, order[i] = order[j] PROVE i = j
    OBVIOUS
  <2>1. i \in {1, 2, 3, 4, 5, 6} /\ j \in {1, 2, 3, 4, 5, 6}
    OBVIOUS
  <2> QED BY <1>1, <2>1
<1> HIDE DEF order
<1>3. ASSUME NEW n \in 0..5
      PROVE  /\ FirstValues(n + 1) = FirstValues(n) \cup {order[n + 1]}
             /\ "ConfigOptions" \notin FirstValues(n)
             /\ {i \in 1..6 : order[i] \in FirstValues(n)} = 1..n
             /\ order[n + 1] \notin FirstValues(n)
  <2>1. FirstValues(n) = {order[i] : i \in 1..n} /\ FirstValues(n + 1) = {order[i] : i \in 1..(n + 1)}
    BY DEF FirstValues, order
  <2>2. \A i \in 1..6 : order[i] \in FirstValues(n) <=> i <= n
    BY <1>2, <2>1
  <2> QED BY <1>1, <2>1, <2>2
<1>4. \A n \in 1..6 : "Comment" \in FirstValues(n)
  BY <1>1 DEF FirstValues, order
<1>5. {order[i] : i \in 1..6} = RuleFields
  <2>1. 1..6 = {1, 2, 3, 4, 5, 6}
    OBVIOUS
  <2> QED BY <1>1, <2>1 DEF RuleFields
<1>6. windows!Elements(order) = RuleFields /\ FirstValues(6) = RuleFields /\ FirstValues(0) = {}
  BY <1>1, <1>5 DEF windows!Elements, FirstValues, order
<1> QED BY <1>1, <1>3, <1>4, <1>6 DEF order

\* What a call wants is a whole rule of ours.
LEMMA WantedIs ==
    ASSUME Core, RuleData, kind = "nrpt", call.running, pc \in {"create", "existing", "value", "undo"}
    PROVE  /\ Rec(windows!Wanted, RuleFields) /\ windows!Wanted.Comment = "osdns"
           /\ <<windows!Wanted>> \in call.goal
<1>1. CASE call.op = "apply"
  BY <1>1 DEF windows!Wanted, windows!Rule, Rec, RuleFields, RuleData
<1>2. CASE call.op = "restore"
  <2>1. /\ call.target = lease.base /\ lease.base # NoState /\ lease.base.dns # <<>>
        /\ call.goal = {lease.base.dns} /\ IsOurs(lease.base.dns)
    BY <1>2 DEF Core, Faithful, RuleData
  <2>2. PICK rule : Rec(rule, RuleFields) /\ rule.Comment = "osdns" /\ lease.base.dns = <<rule>>
    BY <2>1 DEF IsOurs
  <2>3. windows!Wanted = rule
    BY <1>2, <2>1, <2>2 DEF windows!Wanted
  <2> QED BY <2>1, <2>2, <2>3
<1> QED BY <1>1, <1>2 DEF Core, Phases

\* Values and marker of a rule that is there, and of none.
LEMMA RuleIs ==
    ASSUME kind = "nrpt"
    PROVE  /\ \A rule : windows!Values(<<rule>>) = DOMAIN rule
           /\ windows!Values(<<>>) = {} /\ ~windows!OurMarker(<<>>)
           /\ \A dns : windows!Whole(dns) <=> windows!Values(dns) = RuleFields
           /\ Occupied <=> "Comment" \in windows!Values(native.dns) /\ ~windows!OurMarker(native.dns)
           /\ \A rule : windows!OurMarker(<<rule>>) <=> "Comment" \in DOMAIN rule /\ rule.Comment = "osdns"
BY ValueOrderIs DEF windows!Values, windows!OurMarker, windows!Whole, Occupied

\* A rule half written carries no foreign mark and is not in effect.
LEMMA BegunIs ==
    ASSUME Core, RuleData, kind = "nrpt", pc \in {"value", "undo"}, windows!OurKey, call.running
    PROVE  /\ ~Occupied /\ ~windows!Whole(native.dns)
           /\ \E n \in 0..5 : native.dns = <<Begun(n)>>
<1>1. PICK n \in 0..5 : native.dns = <<Begun(n)>>
  BY DEF RuleData
<1>2. windows!Values(native.dns) = FirstValues(n)
  BY <1>1, RuleIs DEF Begun
<1>3. ~windows!Whole(native.dns)
  BY <1>2, RuleIs, ValueOrderIs DEF RuleFields
<1>4. ASSUME "Comment" \in FirstValues(n) PROVE windows!OurMarker(native.dns)
  BY <1>1, <1>4, RuleIs, WantedIs DEF Begun
<1> QED BY <1>1, <1>2, <1>3, <1>4, RuleIs

LEMMA SameCount == \A S : windows!Cardinality(S) = Cardinality(S)
BY Zenon DEF windows!Cardinality, Cardinality

LEMMA RuleStep ==
    ASSUME Core, RuleData, kind = "nrpt", windows!Next
    PROVE  Core' /\ Kept /\ RuleData'
<1>0. kind # "detecting" /\ kind # "bsd" /\ kind # "windows"
  OBVIOUS
<1>1. ASSUME NEW p, windows!BeginApply(p, {<<windows!Rule(p)>>}, FALSE)
      PROVE  Core' /\ Kept /\ RuleData'
  <2>1. BeginApply(p, {<<windows!Rule(p)>>}, FALSE)
    BY <1>1, WindowsShares, Zenon
  <2>2. /\ Core' /\ Kept /\ pc' = "status" /\ UNCHANGED <<kind, native, aux, lease>>
        /\ call'.op = "apply" /\ call'.plan = p /\ ~call'.guarded
        /\ call'.goal = {<<windows!Rule(p)>>} /\ call'.produced = NoState
    BY <1>0, <2>1, BeginApplyStep
  <2>3. windows!Rule(call'.plan) = windows!Rule(p)
    BY <2>2
  <2>4. NoHalfRule'
    BY <2>2 DEF RuleData, NoHalfRule, windows!OurMarker, windows!Values, windows!Whole
  <2>5. RuleData'
    BY <2>2, <2>3, <2>4 DEF RuleData
  <2> QED BY <2>2, <2>5
<1>2. CASE windows!BeginRestore(windows!Before, FALSE)
  <2>1. BeginRestore({lease.base.dns}, FALSE)
    BY <1>2, WindowsShares, Zenon DEF windows!Before
  <2>2. /\ Core' /\ Kept /\ pc' = "status" /\ UNCHANGED <<kind, native, aux, lease>>
        /\ call'.op = "restore" /\ ~call'.guarded /\ call'.produced = NoState
    BY <1>0, <2>1, BeginRestoreStep
  <2>3. NoHalfRule'
    BY <2>2 DEF RuleData, NoHalfRule, windows!OurMarker, windows!Values, windows!Whole
  <2>4. RuleData'
    BY <2>2, <2>3 DEF RuleData
  <2> QED BY <2>2, <2>4
<1>3. ASSUME UNCHANGED <<kind, native>> PROVE NoHalfRule'
  BY <1>3 DEF RuleData, NoHalfRule, windows!OurMarker, windows!Values, windows!Whole
<1>4. CASE windows!Verify
  <2>1. Verify
    BY <1>4, WindowsShares, Zenon
  <2>2. RuleData'
    BY <1>3, <2>1, VerifyFacts, NoLeaseIs, NoCallIs DEF RuleData
  <2> QED BY <1>0, <2>1, <2>2, VerifyStep
<1>5. CASE windows!EndRestore
  <2>1. EndRestore
    BY <1>5, WindowsShares, Zenon
  <2>2. RuleData'
    BY <1>3, <2>1, EndRestoreFacts, NoLeaseIs, NoCallIs DEF RuleData
  <2> QED BY <1>0, <2>1, <2>2, EndRestoreStep
<1>6. CASE windows!CheckStatus("status", "read") \/ windows!CheckStatus("restat", "write")
  <2>1. CheckStatus("status", "read") \/ CheckStatus("restat", "write")
    BY <1>6, WindowsShares, Zenon
  <2>2. Core' /\ Kept
    BY <2>1, CheckStatusStep
  <2>3. CASE Answer("Rejected", NoState)
    BY <2>1, <2>2, <2>3, CheckStatusFacts, AnswerFacts, RuleFrame DEF RulePlaces
  <2>4. CASE UNCHANGED <<call, loc>> /\ pc' \in {"read", "write"}
    BY <2>1, <2>2, <2>4, CheckStatusFacts, RuleFrame DEF RulePlaces, RuleData, SameCall
  <2> QED BY <2>1, <2>3, <2>4, CheckStatusFacts
<1>7. CASE windows!ObserveRule
  <2>1. Observe /\ windows!Readable(native.dns)
    BY <1>7, WindowsShares, Zenon DEF windows!ObserveRule
  <2>2. IsOurs(native.dns)
    <3>1. CASE native.dns = <<>>
      BY <3>1 DEF IsOurs
    <3>2. CASE native.dns # <<>>
      <4>1. PICK rule : Rec(rule, DOMAIN rule) /\ native.dns = <<rule>>
        BY <3>2 DEF RuleData, IsRule
      <4>2. rule.Comment = "osdns" /\ DOMAIN rule = RuleFields
        BY <2>1, <3>2, <4>1, RuleIs DEF windows!Readable
      <4> QED BY <4>1, <4>2 DEF IsOurs
    <3> QED BY <3>1, <3>2
  <2>3. /\ UNCHANGED <<kind, native, aux, call, pc, loc>> /\ pc = "idle"
        /\ lease'.base = Snap /\ Snap.dns = native.dns
    BY <2>1, ObserveFacts DEF Snap
  <2>4. RuleData'
    BY <1>3, <2>2, <2>3 DEF RuleData
  <2> QED BY <1>0, <2>1, <2>4, ObserveStep
<1>8. CASE windows!CheckRule
  <2>1. pc = "read" /\ UNCHANGED <<kind, native, aux, lease, first, moved, calls, events>>
    BY <1>8 DEF windows!CheckRule, windows!Faulty, windows!bounds, windows!hist
  <2>2. call.running
    BY <2>1 DEF Core, Phases, Resting, Observing
  <2>3. CASE native.dns = call.expected.dns /\ Confirmed("restat")
    <3>1. Core' /\ Kept
      BY <2>1, <2>2, <2>3, CheckStep DEF Checking, Ready, Core, Sound
    <3> QED BY <2>1, <2>3, <3>1, ConfirmedFacts, RuleFrame DEF RulePlaces, RuleData
  <2>4. CASE Answer("Rejected", NoState)
    BY <2>1, <2>4, RejectStep, AnswerFacts, RuleFrame DEF Checking, RulePlaces
  <2>5. \/ native.dns = call.expected.dns /\ Confirmed("restat")
        \/ Answer("Rejected", NoState)
    BY <1>8, WindowsShares, Zenon DEF windows!CheckRule, windows!CheckExpected
  <2> QED BY <2>3, <2>4, <2>5
<1>9. ASSUME pc \in {"write", "create", "existing", "value", "undo", "delete"}
      PROVE  call.running /\ call.confirmed /\ pc \notin Checking /\ ~call.guarded
  BY <1>9 DEF Core, Phases, Resting, Observing, Checking, RuleData
<1>10. ASSUME call.running, pc \notin Checking, NEW res, Result(res), res # "external",
              UNCHANGED <<kind, native, aux, call, lease, first, moved, calls, events>>,
              res = "ok" => call.disturbed \/ native.dns \in call.goal
       PROVE  Core' /\ Kept /\ RuleData'
  <2>1. Core' /\ Kept
    BY <1>10, ResultStep
  <2> QED BY <1>10, <2>1, ResultFacts, RuleFrame DEF RulePlaces, RuleData, SameCall
<1>11. CASE windows!RejectForeignRule
  <2>1. pc = "write" /\ UNCHANGED <<kind, native, aux, lease, first, moved, calls, events>>
    BY <1>11 DEF windows!RejectForeignRule, windows!Faulty, windows!bounds, windows!hist
  <2>2. \/ /\ native.dns = <<>> \/ windows!OurMarker(native.dns)
           /\ (windows!Removal /\ Goto("delete")) \/ (~windows!Removal /\ Goto("create"))
        \/ Result("err") /\ UNCHANGED call
    BY <1>11, WindowsShares, Zenon DEF windows!RejectForeignRule
  <2>3. ASSUME native.dns = <<>> \/ windows!OurMarker(native.dns),
               (windows!Removal /\ Goto("delete")) \/ (~windows!Removal /\ Goto("create"))
        PROVE  Core' /\ Kept /\ RuleData'
    <3>1. /\ UNCHANGED <<call, loc>> /\ pc' \in {"delete", "create"}
          /\ pc' = "delete" <=> call.op = "restore" /\ call.target.dns = <<>>
      BY <2>3 DEF Goto, windows!Removal
    <3>2. Core' /\ Kept
      BY <1>9, <2>1, <3>1, QuietStep DEF Core, Shapes, Resting, Observing, Checking, Ready
    <3>3. ~Occupied
      BY <2>3, RuleIs
    <3>4. ~Occupied'
      BY <2>1, <3>3 DEF Occupied, windows!OurMarker, windows!Values
    <3>5. RuleData'
      BY <1>3, <2>1, <3>1, <3>4 DEF RuleData
    <3> QED BY <3>2, <3>5
  <2> QED BY <1>9, <1>10, <2>1, <2>2, <2>3
<1>12. CASE windows!CreateKey
  <2>1. pc = "create" /\ UNCHANGED <<kind, lease, first, moved, calls, events>>
    BY <1>12 DEF windows!CreateKey, windows!Faulty, windows!bounds, windows!hist
  <2> DEFINE new == [native EXCEPT !.dns = <<[v \in {} |-> 0]>>]
  <2>2. /\ Rec(new, ResourceFields) /\ new.inc = native.inc /\ new.rest = native.rest
        /\ new.dns = <<[v \in {} |-> 0]>>
    BY DEF Core, Shapes, Rec, ResourceFields
  <2> HIDE DEF new
  <2>3. ASSUME native.dns = <<>>, Wrote(new), aux' = aux + 1, loc' = [loc EXCEPT !.cur = <<aux'>>],
               pc' = "value"
        PROVE  Core' /\ Kept /\ RuleData'
    <3>1. Rec(loc', {"cur", "res"}) /\ loc'.cur = <<aux + 1>>
      BY <2>3 DEF Core, Shapes, Rec
    <3>2. ~Occupied
      BY <2>3, RuleIs
    <3>3. Core' /\ Kept
      BY <1>9, <2>1, <2>2, <2>3, <3>1, <3>2, WriteStep DEF Resting, Observing, Checking, Ready
    <3>4. /\ SameCall /\ call'.produced = NoState /\ native' = new
      BY <2>3, WroteFacts DEF RuleData
    <3>5. [v \in {} |-> 0] = Begun(0)'
      BY ValueOrderIs DEF Begun
    <3>6. NoHalfRule'
      BY <2>1, <2>2, <3>4 DEF NoHalfRule, windows!OurMarker, windows!Values
    <3>7. IsRule(new.dns)
      BY <2>2 DEF IsRule, Rec
    <3>8. aux \in Nat /\ aux + 1 \in Nat /\ loc'.cur[1] = aux + 1 /\ 0 \in 0..5
      BY <3>1 DEF RuleData
    <3>9. \E n \in 0..5 : native'.dns = <<Begun(n)'>>
      BY <2>2, <3>4, <3>5, <3>8
    <3>10. RuleData'
      BY <2>1, <2>3, <3>4, <3>6, <3>7, <3>8, <3>9 DEF RuleData, SameCall
    <3> QED BY <3>3, <3>10
  <2>4. ASSUME UNCHANGED <<native, aux, call>>, loc' = [loc EXCEPT !.cur = <<aux>>], pc' = "existing"
        PROVE  Core' /\ Kept /\ RuleData'
    <3>1. Rec(loc', {"cur", "res"})
      BY <2>4 DEF Core, Shapes, Rec
    <3>2. Core' /\ Kept
      BY <1>9, <2>1, <2>4, <3>1, QuietStep DEF Resting, Observing, Checking, Ready
    <3>3. RuleData'
      BY <1>3, <2>1, <2>4 DEF RuleData
    <3> QED BY <3>2, <3>3
  <2>5. \/ /\ native.dns = <<>> /\ Wrote(new) /\ aux' = aux + 1
           /\ loc' = [loc EXCEPT !.cur = <<aux'>>] /\ pc' = "value"
        \/ /\ UNCHANGED <<native, aux, call>> /\ loc' = [loc EXCEPT !.cur = <<aux>>]
           /\ pc' = "existing"
        \/ Result("err") /\ UNCHANGED <<native, aux, call>>
    BY <1>12, WindowsShares, Zenon DEF windows!CreateKey, new
  <2> QED BY <1>9, <1>10, <2>1, <2>3, <2>4, <2>5
<1>13. CASE windows!SetValue
  <2> DEFINE set == {i \in DOMAIN windows!ValueOrder :
                        windows!ValueOrder[i] \in windows!Values(native.dns)}
             next == windows!ValueOrder[1 + windows!Cardinality(set)]
             dns == <<[v \in windows!Values(native.dns) \cup {next} |->
                          IF v = next THEN windows!Wanted[v] ELSE native.dns[1][v]]>>
             new == [native EXCEPT !.dns = dns]
  <2>1. /\ pc = "value" /\ windows!OurKey
        /\ UNCHANGED <<kind, aux, lease, first, moved, calls, events>>
    BY <1>13 DEF windows!SetValue, windows!Faulty, windows!bounds, windows!hist
  <2>2. /\ Rec(new, ResourceFields) /\ new.inc = native.inc /\ new.rest = native.rest
        /\ new.dns = dns
    BY DEF Core, Shapes, Rec, ResourceFields
  <2>3. \/ /\ Wrote(new)
           /\ IF windows!Whole(dns) THEN Result("ok") ELSE UNCHANGED <<pc, loc>>
        \/ pc' = "undo" /\ UNCHANGED <<native, call, loc>>
    <3>1. \/ /\ windows!Wrote(new)
             /\ IF windows!Whole(dns) THEN windows!Result("ok") ELSE UNCHANGED <<pc, loc>>
          \/ pc' = "undo" /\ UNCHANGED <<native, call, loc>>
      BY <1>13, Zenon DEF windows!SetValue
    <3> HIDE DEF new, dns
    <3> QED BY <3>1, WindowsShares, Zenon
  <2>4. PICK n \in 0..5 : native.dns = <<Begun(n)>>
    BY <1>9, <2>1, BegunIs
  <2>5. dns = <<Begun(n + 1)>>
    <3>1. windows!Values(native.dns) = FirstValues(n)
      BY <2>4, RuleIs DEF Begun
    <3>2. set = 1..n
      BY <3>1, ValueOrderIs
    <3>3. Cardinality(1..n) = n
      <4>1. n \in Int /\ 1 \in Int /\ (1 > n => n = 0) /\ n - 1 + 1 = n
        OBVIOUS
      <4> QED BY <4>1, FS_Interval, Zenon
    <3>4. next = windows!ValueOrder[n + 1]
      <4>1. 1 + n = n + 1
        OBVIOUS
      <4>2. windows!Cardinality(set) = n
        BY <3>2, <3>3, SameCount
      <4> QED BY <4>1, <4>2
    <3> HIDE DEF next, set
    <3>5. FirstValues(n) \cup {next} = FirstValues(n + 1)
      BY <3>4, ValueOrderIs
    <3>6. \A v \in FirstValues(n) : native.dns[1][v] = windows!Wanted[v]
      BY <2>4 DEF Begun
    <3>7. [v \in windows!Values(native.dns) \cup {next} |->
              IF v = next THEN windows!Wanted[v] ELSE native.dns[1][v]] = Begun(n + 1)
      BY <3>1, <3>5, <3>6 DEF Begun
    <3> QED BY <3>7
  <2> HIDE DEF new, dns
  <2>6. windows!Whole(dns) <=> n + 1 = 6
    <3>1. windows!Values(dns) = FirstValues(n + 1)
      BY <2>5, RuleIs DEF Begun
    <3>2. CASE n + 1 = 6
      BY <3>1, <3>2, RuleIs, ValueOrderIs
    <3>3. CASE n + 1 # 6
      <4>1. n + 1 \in 0..5
        BY <3>3
      <4> QED BY <3>1, <3>3, <4>1, RuleIs, ValueOrderIs DEF RuleFields
    <3> QED BY <3>2, <3>3
  <2>7. n + 1 = 6 => dns = <<windows!Wanted>>
    BY <1>9, <2>1, <2>5, WantedIs, ValueOrderIs DEF Begun, Rec
  <2>8. <<windows!Wanted>> \in call.goal /\ ~Occupied
    BY <1>9, <2>1, WantedIs, BegunIs
  <2>9. ASSUME Wrote(new), IF windows!Whole(dns) THEN Result("ok") ELSE UNCHANGED <<pc, loc>>
        PROVE  Core' /\ Kept /\ RuleData'
    <3>1. /\ Rec(loc', {"cur", "res"}) /\ loc'.cur = loc.cur
          /\ \/ windows!Whole(dns) /\ pc' = "return" /\ loc'.res = "ok"
             \/ ~windows!Whole(dns) /\ pc' = "value"
      BY <2>1, <2>9 DEF Result, Core, Shapes, Rec
    <3>2. Core' /\ Kept
      BY <1>9, <2>1, <2>2, <2>6, <2>7, <2>8, <2>9, <3>1, WriteStep
      DEF Resting, Observing, Checking, Ready
    <3>3. SameCall /\ call'.produced = NoState /\ native' = new
      BY <2>9, WroteFacts DEF RuleData
    <3>4. IsRule(dns)
      BY <2>5 DEF IsRule, Begun, Rec
    <3>5. windows!Values(dns) = FirstValues(n + 1)
      BY <2>5, RuleIs DEF Begun
    <3>6. NoHalfRule'
      <4>1. "ConfigOptions" \in windows!Values(dns) => windows!Whole(dns)
        <5>1. n + 1 # 6 => n + 1 \in 0..5
          OBVIOUS
        <5> QED BY <2>6, <3>5, <5>1, ValueOrderIs
      <4> QED BY <2>1, <2>2, <3>3, <4>1 DEF NoHalfRule, windows!Values, windows!Whole
    <3>7. ~windows!Whole(dns) => native'.dns = <<Begun(n + 1)'>> /\ n + 1 \in 0..5
      <4>1. Begun(n + 1)' = Begun(n + 1)
        BY <3>3 DEF Begun, FirstValues, windows!Wanted, windows!ValueOrder, SameCall
      <4>2. n + 1 # 6 => n + 1 \in 0..5
        OBVIOUS
      <4> QED BY <2>2, <2>5, <2>6, <3>3, <4>1, <4>2
    <3>8. RuleData'
      BY <2>1, <2>2, <3>1, <3>3, <3>4, <3>6, <3>7 DEF RuleData, SameCall
    <3> QED BY <3>2, <3>8
  <2>10. ASSUME pc' = "undo", UNCHANGED <<native, call, loc>>
         PROVE  Core' /\ Kept /\ RuleData'
    <3>1. Core' /\ Kept
      BY <1>9, <2>1, <2>10, QuietStep DEF Core, Shapes, Resting, Observing, Checking, Ready
    <3>2. Begun(n)' = Begun(n)
      BY <2>10 DEF Begun, FirstValues, windows!Wanted, windows!ValueOrder
    <3>3. RuleData'
      BY <1>3, <2>1, <2>4, <2>10, <3>2 DEF RuleData
    <3> QED BY <3>1, <3>3
  <2> QED BY <2>3, <2>9, <2>10
<1>14. CASE windows!DeleteCreatedKey
  <2> DEFINE new == [native EXCEPT !.dns = <<>>]
  <2>1. /\ pc \in {"value", "undo"} /\ Result("err")
        /\ UNCHANGED <<kind, aux, lease, first, moved, calls, events>>
    BY <1>14, WindowsShares DEF windows!DeleteCreatedKey, windows!Faulty, windows!bounds, windows!hist
  <2>2. /\ Rec(new, ResourceFields) /\ new.inc = native.inc /\ new.rest = native.rest
        /\ new.dns = <<>>
    BY DEF Core, Shapes, Rec, ResourceFields
  <2>3. (windows!OurKey /\ Wrote(new)) \/ UNCHANGED <<native, call>>
    BY <1>14, WindowsShares, Zenon DEF windows!DeleteCreatedKey
  <2> HIDE DEF new
  <2>4. ASSUME windows!OurKey, Wrote(new) PROVE Core' /\ Kept /\ RuleData'
    <3>1. Rec(loc', {"cur", "res"}) /\ loc'.res = "err" /\ pc' = "return"
      BY <2>1 DEF Result, Core, Shapes, Rec
    <3>2. ~Occupied
      BY <1>9, <2>1, <2>4, BegunIs
    <3>3. Core' /\ Kept
      BY <1>9, <2>1, <2>2, <2>4, <3>1, <3>2, WriteStep DEF Resting, Observing, Checking, Ready
    <3>4. SameCall /\ call'.produced = NoState /\ native' = new
      BY <2>4, WroteFacts DEF RuleData
    <3>5. NoHalfRule'
      BY <2>1, <2>2, <3>4 DEF NoHalfRule, windows!OurMarker, windows!Values
    <3>6. RuleData'
      BY <2>1, <2>2, <3>1, <3>4, <3>5 DEF RuleData, SameCall, IsRule
    <3> QED BY <3>3, <3>6
  <2> QED BY <1>9, <1>10, <2>1, <2>3, <2>4
<1>15. CASE windows!UpdateRule
  <2> DEFINE same == /\ windows!OurKey /\ windows!Readable(native.dns)
                     /\ native.dns[1] = [windows!Wanted EXCEPT !.GenericDNSServers =
                                            native.dns[1].GenericDNSServers]
             new == [native EXCEPT !.dns[1].GenericDNSServers = windows!Wanted.GenericDNSServers]
  <2>1. pc = "existing"
    BY <1>15 DEF windows!UpdateRule
  <2>2. \/ same /\ Writing("existing", new, "return") /\ UNCHANGED aux
        \/ /\ same => new = native
           /\ Result(IF same THEN "ok" ELSE "err")
           /\ UNCHANGED <<kind, native, aux, call, lease, first, moved, calls, events>>
    BY <1>15, WindowsShares, Zenon DEF windows!UpdateRule, windows!hist, windows!bounds
  <2>3. /\ Rec(windows!Wanted, RuleFields) /\ windows!Wanted.Comment = "osdns"
        /\ <<windows!Wanted>> \in call.goal
    BY <1>9, <2>1, WantedIs
  <2>4. ASSUME same
        PROVE  /\ Rec(new, ResourceFields) /\ new.inc = native.inc /\ new.rest = native.rest
               /\ new.dns = <<windows!Wanted>> /\ ~Occupied
    <3>1. native.dns # <<>> /\ windows!OurMarker(native.dns)
      BY <2>4 DEF windows!OurKey, windows!Readable
    <3>2. PICK rule : Rec(rule, DOMAIN rule) /\ native.dns = <<rule>>
      BY <3>1 DEF RuleData, IsRule
    <3>3. rule = [windows!Wanted EXCEPT !.GenericDNSServers = rule.GenericDNSServers]
      BY <2>4, <3>2
    <3>4. [rule EXCEPT !.GenericDNSServers = windows!Wanted.GenericDNSServers] = windows!Wanted
      BY <2>3, <3>3 DEF Rec, RuleFields
    <3>5. new.dns = <<windows!Wanted>>
      BY <3>2, <3>4 DEF Core, Shapes, Rec, ResourceFields
    <3>6. Rec(new, ResourceFields) /\ new.inc = native.inc /\ new.rest = native.rest
      BY DEF Core, Shapes, Rec, ResourceFields
    <3>7. ~Occupied
      BY <3>1, RuleIs
    <3> QED BY <3>5, <3>6, <3>7
  <2> HIDE DEF new
  <2>5. ASSUME same, Writing("existing", new, "return"), UNCHANGED aux
        PROVE  Core' /\ Kept /\ RuleData'
    <3>1. Core' /\ Kept
      BY <1>9, <2>1, <2>3, <2>4, <2>5, WritingStep DEF Written
    <3>2. /\ UNCHANGED <<kind, lease>> /\ SameCall /\ call'.produced = NoState
          /\ native' \in {native, new} /\ pc' = "return"
      BY <2>5, WritingFacts DEF RuleData
    <3>3. IsRule(new.dns)
      BY <2>3, <2>4, <2>5 DEF IsRule, Rec
    <3>4. CASE native' = native
      BY <2>5, <3>1, <3>2, <3>4, RuleFrame DEF RulePlaces
    <3>5. CASE native' = new
      <4>1. windows!Values(<<windows!Wanted>>) = RuleFields
        BY <2>3, RuleIs DEF Rec
      <4>2. NoHalfRule'
        BY <2>4, <2>5, <3>2, <3>5, <4>1, ValueOrderIs DEF NoHalfRule, windows!Values, windows!Whole
      <4>3. RuleData'
        BY <2>5, <3>2, <3>3, <3>5, <4>2 DEF RuleData, SameCall
      <4> QED BY <3>1, <4>3
    <3> QED BY <3>2, <3>4, <3>5
  <2>6. ASSUME same => new = native, Result(IF same THEN "ok" ELSE "err"),
               UNCHANGED <<kind, native, aux, call, lease, first, moved, calls, events>>
        PROVE  Core' /\ Kept /\ RuleData'
    <3>1. same => native.dns \in call.goal
      BY <2>3, <2>4, <2>6
    <3> QED BY <1>9, <1>10, <2>1, <2>6, <3>1
  <2> QED BY <2>2, <2>5, <2>6
<1>16. CASE windows!DeleteRule
  <2> DEFINE new == [native EXCEPT !.dns = <<>>]
  <2>1. /\ Rec(new, ResourceFields) /\ new.inc = native.inc /\ new.rest = native.rest
        /\ new.dns = <<>>
    BY DEF Core, Shapes, Rec, ResourceFields
  <2>2. windows!Writing("delete", new, "return") /\ UNCHANGED aux
    BY <1>16, Zenon DEF windows!DeleteRule
  <2> HIDE DEF new
  <2>3. Writing("delete", new, "return")
    BY <2>2, WindowsShares, Zenon
  <2>4. pc = "delete"
    BY <2>3, WritingFacts
  <2>5. <<>> \in call.goal /\ (call.disturbed \/ ~Occupied)
    BY <1>0, <2>4 DEF RuleData, Core, Faithful
  <2>6. Core' /\ Kept
    BY <1>9, <2>1, <2>3, <2>4, <2>5, WritingStep DEF Written
  <2>7. /\ UNCHANGED <<kind, lease>> /\ SameCall /\ call'.produced = NoState
        /\ native' \in {native, new} /\ pc' = "return"
    BY <2>3, WritingFacts DEF RuleData
  <2>8. NoHalfRule'
    BY <1>3, <2>1, <2>7 DEF NoHalfRule, windows!OurMarker, windows!Values
  <2>9. RuleData'
    BY <2>1, <2>2, <2>7, <2>8 DEF RuleData, SameCall, IsRule
  <2> QED BY <2>6, <2>9
<1>17. CASE windows!RivalRule
  <2>1. ASSUME NEW r, windows!Foreign(r), Rec(r, ResourceFields), IsRule(r.dns),
               aux' \in {aux, aux + 1}, aux' = aux + 1 <=> native.dns = <<>> /\ r.dns # <<>>,
               \/ r.dns = <<>>
               \/ native.dns = <<>>
               \/ windows!Whole(native.dns),
               windows!OurMarker(r.dns) /\ "ConfigOptions" \in windows!Values(r.dns) =>
                  windows!Whole(r.dns)
        PROVE  Core' /\ Kept /\ RuleData'
    <3>1. Foreign(r)
      BY <2>1, WindowsShares, Zenon
    <3>2. Core' /\ Kept
      BY <1>0, <2>1, <3>1, ForeignStep
    <3>3. /\ SameCall /\ native' = r /\ call'.produced = call.produced
          /\ call'.disturbed = (call.disturbed \/ call.running) /\ UNCHANGED <<kind, pc, loc, lease>>
      BY <3>1, ForeignFacts
    <3>4. pc \in RulePlaces => call.running
      BY DEF Core, Phases, Resting, Observing, RulePlaces
    <3>5. NoHalfRule'
      BY <2>1, <3>3 DEF NoHalfRule, windows!OurMarker, windows!Values, windows!Whole
    <3>6. pc \in {"value", "undo"} => loc.cur[1] <= aux' /\ ~windows!OurKey'
      <4> SUFFICES ASSUME pc \in {"value", "undo"} PROVE loc.cur[1] <= aux' /\ ~windows!OurKey'
        OBVIOUS
      <4>1. loc.cur[1] \in Nat /\ loc.cur[1] <= aux /\ aux \in Nat
        BY DEF RuleData
      <4>2. CASE r.dns = <<>>
        BY <2>1, <3>3, <4>1, <4>2 DEF windows!OurKey
      <4>3. CASE native.dns = <<>> /\ r.dns # <<>>
        BY <2>1, <3>3, <4>1, <4>3 DEF windows!OurKey
      <4>4. CASE native.dns # <<>> /\ r.dns # <<>> /\ windows!Whole(native.dns)
        <5>1. ~windows!OurKey
          BY <3>4, <4>4, BegunIs DEF RulePlaces
        <5>2. aux' = aux
          BY <2>1, <4>1, <4>4
        <5> QED BY <3>3, <4>1, <4>4, <5>1, <5>2 DEF windows!OurKey
      <4> QED BY <2>1, <4>2, <4>3, <4>4
    <3>7. aux' \in Nat
      BY <2>1 DEF RuleData
    <3>8. pc = "delete" => call'.disturbed
      BY <3>3, <3>4 DEF RulePlaces
    <3>9. RuleData'
      BY <2>1, <3>3, <3>5, <3>6, <3>7, <3>8 DEF RuleData, SameCall
    <3> QED BY <3>2, <3>9
  <2>2. ASSUME native.dns = <<>>, aux' = aux + 1,
               windows!Foreign([native EXCEPT !.dns = windows!ForeignRule])
        PROVE  Core' /\ Kept /\ RuleData'
    <3> DEFINE r == [native EXCEPT !.dns = windows!ForeignRule]
    <3>1. Rec(r, ResourceFields) /\ r.dns = windows!ForeignRule
      BY DEF Core, Shapes, Rec, ResourceFields
    <3>2. /\ IsRule(windows!ForeignRule) /\ windows!ForeignRule # <<>>
          /\ ~windows!OurMarker(windows!ForeignRule)
      BY DEF IsRule, windows!ForeignRule, Rec, windows!OurMarker
    <3> HIDE DEF r
    <3>3. windows!Foreign(r)
      BY <2>2, Zenon DEF r
    <3> QED BY <2>1, <2>2, <3>1, <3>2, <3>3
  <2>3. ASSUME UNCHANGED aux, windows!Foreign([native EXCEPT !.dns = <<>>])
        PROVE  Core' /\ Kept /\ RuleData'
    <3> DEFINE r == [native EXCEPT !.dns = <<>>]
    <3>1. Rec(r, ResourceFields) /\ r.dns = <<>> /\ IsRule(r.dns)
      BY DEF Core, Shapes, Rec, ResourceFields, IsRule
    <3> HIDE DEF r
    <3>2. windows!Foreign(r)
      BY <2>3, Zenon DEF r
    <3>3. aux # aux + 1
      BY DEF RuleData
    <3> QED BY <2>1, <2>3, <3>1, <3>2, <3>3, RuleIs
  <2>4. ASSUME UNCHANGED aux, windows!Whole(native.dns), NEW ns,
               windows!Foreign([native EXCEPT !.dns[1].GenericDNSServers = ns])
        PROVE  Core' /\ Kept /\ RuleData'
    <3> DEFINE r == [native EXCEPT !.dns[1].GenericDNSServers = ns]
    <3>1. native.dns # <<>>
      BY <2>4, RuleIs DEF RuleFields
    <3>2. PICK rule : Rec(rule, DOMAIN rule) /\ native.dns = <<rule>>
      BY <3>1 DEF RuleData, IsRule
    <3>3. Rec(r, ResourceFields) /\ r.dns = <<[rule EXCEPT !.GenericDNSServers = ns]>>
      BY <3>2 DEF Core, Shapes, Rec, ResourceFields
    <3>4. IsRule(r.dns) /\ windows!Values(r.dns) = RuleFields
      <4>1. DOMAIN [rule EXCEPT !.GenericDNSServers = ns] = RuleFields
        BY <2>4, <3>2, RuleIs
      <4> QED BY <3>3, <4>1, RuleIs DEF IsRule, Rec
    <3> HIDE DEF r
    <3>5. windows!Foreign(r)
      BY <2>4, Zenon DEF r
    <3>6. aux # aux + 1
      BY DEF RuleData
    <3> QED BY <2>1, <2>4, <3>1, <3>3, <3>4, <3>5, <3>6, RuleIs
  <2> QED BY <1>17, <2>2, <2>3, <2>4, Zenon DEF windows!RivalRule
<1>18. CASE windows!Return
  <2>1. Return
    BY <1>18, WindowsShares, Zenon
  <2> QED BY <2>1, ReturnFacts, ReturnStep, AnswerFacts, RuleFrame DEF RulePlaces
<1>19. CASE windows!Crash
  <2>1. Crash
    BY <1>19, WindowsShares, Zenon
  <2>2. RuleData'
    BY <1>3, <2>1, CrashFacts, NoLeaseIs, NoCallIs DEF RuleData
  <2> QED BY <1>0, <2>1, <2>2, CrashStep
<1>20. ~windows!RivalInterface
  BY DEF windows!RivalInterface
<1> QED
  BY <1>0, <1>1, <1>2, <1>4, <1>5, <1>6, <1>7, <1>8, <1>11, <1>12, <1>13, <1>14, <1>15, <1>16,
     <1>17, <1>18, <1>19, <1>20, Zenon DEF windows!Next

-----------------------------------------------------------------------------
(* The backend stays the one that detection chose. *)

LEMMA KindKept ==
    /\ resolved!Next => kind' = kind
    /\ nm!Next => kind' = kind
    /\ openresolv!Next => kind' = kind
    /\ direct!Next => kind' = kind
    /\ windows!Next => kind' = kind
    /\ macos!Next => kind' = kind
<1>1. resolved!Next => kind' = kind
  BY Zenon DEF resolved!Next, resolved!Observe, resolved!Verify, resolved!Return,
      resolved!Crash, resolved!Foreign, resolved!Begin, resolved!BeginApply,
      resolved!BeginRestore, resolved!EndRestore, resolved!ObserveLink, resolved!ObserveBegin,
      resolved!ObservePart, resolved!ObserveEnd, resolved!CheckStatus, resolved!ReadLink,
      resolved!ReadPart, resolved!CompareParts, resolved!Prepare, resolved!SetLink,
      resolved!SetLinkDns, resolved!SetLinkDomains, resolved!SetLinkDefaultRoute,
      resolved!Writing, resolved!Rival
<1>2. nm!Next => kind' = kind
  BY Zenon DEF nm!Next, nm!Observe, nm!Verify, nm!Return, nm!Crash, nm!Foreign, nm!Begin,
      nm!BeginApply, nm!BeginRestore, nm!EndRestore, nm!VerifyNamespace, nm!CheckStatus,
      nm!GuardedBaseline, nm!Reapply, nm!Writing, nm!Rival
<1>3. openresolv!Next => kind' = kind
  BY Zenon DEF openresolv!Next, openresolv!Observe, openresolv!Verify, openresolv!Crash,
      openresolv!Foreign, openresolv!Begin, openresolv!BeginApply, openresolv!BeginRestore,
      openresolv!EndRestore, openresolv!ReadRecord, openresolv!RecordUnreadable,
      openresolv!CheckLive, openresolv!Add, openresolv!Delete, openresolv!Undeprecate,
      openresolv!Deprecate, openresolv!Run, openresolv!Finish, openresolv!Rival
<1>4. direct!Next => kind' = kind
  BY Zenon DEF direct!Next, direct!Observe, direct!Verify, direct!Return, direct!Crash,
      direct!Foreign, direct!Begin, direct!BeginApply, direct!BeginRestore, direct!EndRestore,
      direct!Prepare, direct!Stage, direct!VerifyExpected, direct!CheckUsable, direct!Publish,
      direct!RemoveCurrent, direct!Reread, direct!Writing, direct!Rival
<1>5. windows!Next => kind' = kind
  BY Zenon DEF windows!Next, windows!Observe, windows!Verify, windows!Return, windows!Crash,
      windows!Foreign, windows!Begin, windows!BeginApply, windows!BeginRestore,
      windows!EndRestore, windows!CheckStatus, windows!ObserveInterface, windows!ObserveBegin,
      windows!ObservePart, windows!ObserveEnd, windows!ReadInterface, windows!ReadPart,
      windows!CompareParts, windows!SetInterface, windows!SetStack, windows!Writing,
      windows!ObserveRule, windows!CheckRule, windows!RejectForeignRule, windows!CreateKey,
      windows!SetValue, windows!DeleteCreatedKey, windows!UpdateRule, windows!DeleteRule,
      windows!RivalInterface, windows!RivalRule
<1>6. macos!Next => kind' = kind
  BY Zenon DEF macos!Next, macos!Observe, macos!Verify, macos!Return, macos!Crash,
      macos!Foreign, macos!Begin, macos!BeginApply, macos!BeginRestore, macos!EndRestore,
      macos!Preflight, macos!CheckStatus, macos!CheckCurrent, macos!ReadDictionary,
      macos!SetDictionary, macos!Writing, macos!ObserveFile, macos!FirstRead, macos!SecondRead,
      macos!Publish, macos!Issue, macos!RivalService, macos!RivalFile
<1> QED BY <1>1, <1>2, <1>3, <1>4, <1>5, <1>6

-----------------------------------------------------------------------------
(* The host. *)

Data ==
    /\ kind = "detecting" => aux \in Hosts
    /\ kind = "nm" => NmData
    /\ kind = "resolved" => LinkData
    /\ kind = "openresolv" => RecordData
    /\ kind \in {"direct", "bsd"} => DirectData
    /\ kind = "windows" => WinData
    /\ kind = "nrpt" => RuleData
    /\ kind = "service" => ServiceData
    /\ kind = "resolver" => ResolverData

NativeInv == Core /\ Data

\* Detection chooses one of these.
Backends ==
    {"resolved", "nm", "openresolv", "direct", "bsd", "windows", "nrpt", "service", "resolver",
     "unavailable"}

LEMMA SelectedIs ==
    ASSUME NEW host \in Hosts
    PROVE  Selected(host) \subseteq Backends
<1>1. host \in LinuxHosts => host.os = "linux"
  BY DEF LinuxHosts
<1>2. host \in BsdHosts => host.os = "bsd"
  BY DEF BsdHosts
<1>3. host \in [os : {"windows", "macos"}] => host.os \in {"windows", "macos"}
  OBVIOUS
<1>4. \A h : Probed(h) \in Backends
  BY DEF Probed, Backends
<1>5. \A h : Direct(h, "direct") \in Backends /\ Direct(h, "bsd") \in Backends
  BY DEF Direct, Backends
<1>6. ByOwner(host) \in Backends
  BY <1>4, <1>5 DEF ByOwner, Backends
<1>7. SelectLinux(host) \in Backends
  BY <1>4, <1>6 DEF SelectLinux, Backends
<1>8. SelectBsd(host) \in Backends
  BY <1>4, <1>5 DEF SelectBsd, Backends
<1>9. CASE host.os = "linux"
  BY <1>7, <1>9 DEF Selected
<1>10. CASE host.os = "bsd"
  BY <1>8, <1>10 DEF Selected
<1>11. CASE host.os \in {"windows", "macos"}
  BY <1>11 DEF Selected, Backends
<1> QED BY <1>1, <1>2, <1>3, <1>9, <1>10, <1>11 DEF Hosts

\* Each backend may find its resource in the states its proof starts from.
LEMMA FoundData ==
    ASSUME NEW k \in Backends, NEW f \in Found(k), native' = f.native, aux' = f.aux, kind' = k,
           call' = NoCall, lease' = NoLease, pc' = "idle", Core
    PROVE  Rec(native', ResourceFields) /\ Data'
<1>0. /\ call'.op = "none" /\ ~call'.guarded /\ call'.produced = NoState /\ ~call'.running
      /\ lease'.base = NoState /\ lease'.evidence = NoState /\ k # "detecting"
  BY NoCallIs, NoLeaseIs DEF Backends
<1>1. CASE k = "nm"
  <2>1. PICK version \in {0, 1}, mode \in {"default", "dnsmasq"} :
           f = [native |-> [inc |-> 11, up |-> TRUE, id |-> version, dns |-> nm!Profile,
                            rest |-> "dhcp"], aux |-> mode]
    BY <1>1 DEF Found, nm!Initial
  <2>2. Rec(f.native, ResourceFields) /\ f.native.inc = 11 /\ f.native.id = version
    BY <2>1 DEF Rec, ResourceFields
  <2>3. NmData'
    BY <1>0, <2>2 DEF NmData, Observing
  <2> QED BY <1>1, <2>2, <2>3 DEF Data
<1>2. CASE k = "resolved"
  <2>1. f = [native |-> [inc |-> 1, up |-> TRUE, id |-> 0, dns |-> resolved!Link(<<>>),
                         rest |-> "none"], aux |-> "none"]
    BY <1>2 DEF Found, resolved!Initial
  <2>2. Rec(f.native, ResourceFields) /\ f.native.dns = resolved!Link(<<>>)
    BY <2>1 DEF Rec, ResourceFields
  <2>3. IsLink(resolved!Link(<<>>))
    BY DEF IsLink, resolved!Link, Rec, LinkFields
  <2>4. LinkData'
    BY <1>0, <2>2, <2>3 DEF LinkData
  <2> QED BY <1>2, <2>2, <2>4 DEF Data
<1>3. CASE k = "openresolv"
  <2>1. PICK r, o : f = [native |-> [inc |-> 1, up |-> TRUE, id |-> openresolv!Generated(r, o),
                                     dns |-> r, rest |-> o], aux |-> "none"]
    <3>1. Found(k) = openresolv!Initial
      BY <1>3, Zenon DEF Found
    <3> QED BY <3>1 DEF openresolv!Initial
  <2>2. Rec(f.native, ResourceFields) /\ f.native.inc = 1
    BY <2>1 DEF Rec, ResourceFields
  <2>3. RecordData'
    BY <1>0, <2>2 DEF RecordData
  <2> QED BY <1>3, <2>2, <2>3 DEF Data
<1>4. CASE k \in {"direct", "bsd"}
  <2>1. PICK d : /\ f = [native |-> [inc |-> 1, up |-> TRUE, id |-> 0, dns |-> d,
                                     rest |-> "none"], aux |-> "none"]
                 /\ d \in {<<>>} \cup {direct!File(c, m, 0) : c \in ForeignConfs, m \in direct!Modes}
    <3>1. Found(k) = direct!Initial
      BY <1>4, Zenon DEF Found
    <3> QED BY <3>1 DEF direct!Initial
  <2>2. IsFile(d)
    BY <2>1 DEF IsFile
  <2>3. Rec(f.native, ResourceFields) /\ f.native.inc = 1 /\ f.native.dns = d
    BY <2>1 DEF Rec, ResourceFields
  <2>4. DirectData'
    BY <1>0, <2>2, <2>3 DEF DirectData
  <2> QED BY <1>4, <2>3, <2>4 DEF Data
<1>5. CASE k = "windows"
  <2>1. PICK ns : f = [native |-> [inc |-> 1, up |-> TRUE, id |-> 0, rest |-> "none",
                                   dns |-> [ns4 |-> ns, search4 |-> <<>>, ns6 |-> <<>>,
                                            search6 |-> <<>>]], aux |-> 0]
    <3>1. Found(k) = windows!Initial
      BY <1>5, Zenon DEF Found
    <3> QED BY <3>1 DEF windows!Initial
  <2>2. Rec(f.native, ResourceFields) /\ Rec(f.native.dns, StackFields)
    BY <2>1 DEF Rec, ResourceFields, StackFields
  <2>3. WinData'
    BY <1>0, <2>2 DEF WinData
  <2> QED BY <1>5, <2>2, <2>3 DEF Data
<1>6. CASE k = "nrpt"
  <2>1. PICK d : /\ f = [native |-> [inc |-> 1, up |-> TRUE, id |-> 0, rest |-> "none",
                                     dns |-> d], aux |-> 0]
                 /\ d \in {<<>>, windows!ForeignRule} \cup
                          {<<[windows!Rule(p) EXCEPT !.GenericDNSServers = ns]>> :
                              p \in windows!RulePlans, ns \in ForeignServers}
    <3>1. Found(k) = windows!InitialRule
      BY <1>6, Zenon DEF Found
    <3> QED BY <3>1 DEF windows!InitialRule
  <2>2. \/ d = <<>> \/ d = windows!ForeignRule
        \/ \E p, ns : d = <<[windows!Rule(p) EXCEPT !.GenericDNSServers = ns]>>
    BY <2>1
  <2>3. Rec(f.native, ResourceFields) /\ f.native.dns = d /\ f.aux = 0
    BY <2>1 DEF Rec, ResourceFields
  <2>4. IsRule(d) /\ NoHalfRule'
    <3>1. CASE d = <<>>
      BY <2>3, <3>1 DEF IsRule, NoHalfRule, windows!OurMarker, windows!Values
    <3>2. CASE d = windows!ForeignRule
      <4>1. IsRule(d)
        BY <3>2 DEF IsRule, windows!ForeignRule, Rec
      <4>2. d # <<>> /\ d[1].Comment # "osdns"
        BY <3>2 DEF windows!ForeignRule
      <4> QED BY <2>3, <4>1, <4>2 DEF NoHalfRule, windows!OurMarker, windows!Values
    <3>3. ASSUME NEW p, NEW ns, d = <<[windows!Rule(p) EXCEPT !.GenericDNSServers = ns]>>
          PROVE  IsRule(d) /\ NoHalfRule'
      <4>1. DOMAIN [windows!Rule(p) EXCEPT !.GenericDNSServers = ns] = RuleFields
        BY DEF windows!Rule, RuleFields
      <4>2. IsRule(d)
        BY <3>3 DEF IsRule, Rec, windows!Rule
      <4>3. d # <<>> /\ DOMAIN d[1] = RuleFields
        BY <3>3, <4>1
      <4> QED BY <2>3, <4>2, <4>3, ValueOrderIs DEF NoHalfRule, windows!Values, windows!Whole
    <3> QED BY <2>2, <3>1, <3>2, <3>3
  <2>5. RuleData'
    BY <1>0, <2>3, <2>4 DEF RuleData
  <2> QED BY <1>6, <2>3, <2>5 DEF Data
<1>7. CASE k = "service"
  <2>1. PICK s, rest : f = [native |-> [inc |-> 1, up |-> TRUE, id |-> 0, rest |-> rest,
                                        dns |-> [servers |-> s, search |-> <<>>]],
                            aux |-> "none"]
    <3>1. Found(k) = macos!Initial
      BY <1>7, Zenon DEF Found
    <3> QED BY <3>1 DEF macos!Initial
  <2>2. Rec(f.native, ResourceFields)
    BY <2>1 DEF Rec, ResourceFields
  <2>3. ServiceData'
    BY <1>0 DEF ServiceData
  <2> QED BY <1>7, <2>2, <2>3 DEF Data
<1>8. CASE k = "resolver"
  <2>1. f \in {[native |-> [inc |-> 1, up |-> TRUE, id |-> 0, rest |-> "none", dns |-> <<>>],
                aux |-> "none"]}
         \cup {[native |-> [inc |-> 1, up |-> TRUE, id |-> 1, rest |-> "none",
                            dns |-> <<[marker |-> marker, generation |-> 0, ns |-> ns]>>],
                aux |-> "none"] : marker \in {"osdns", "other"}, ns \in ForeignServers}
    <3>1. Found(k) = macos!InitialFile
      BY <1>8, Zenon DEF Found
    <3> QED BY <3>1 DEF macos!InitialFile
  <2>2. Rec(f.native, ResourceFields) /\ f.native.inc = 1
        /\ (f.native.dns = <<>> => f.native.id = 0)
    <3>1. CASE f = [native |-> [inc |-> 1, up |-> TRUE, id |-> 0, rest |-> "none",
                                dns |-> <<>>], aux |-> "none"]
      BY <3>1 DEF Rec, ResourceFields
    <3>2. ASSUME NEW d, d # <<>>, f = [native |-> [inc |-> 1, up |-> TRUE, id |-> 1,
                                                   rest |-> "none", dns |-> d], aux |-> "none"]
          PROVE  /\ Rec(f.native, ResourceFields) /\ f.native.inc = 1
                 /\ (f.native.dns = <<>> => f.native.id = 0)
      BY <3>2 DEF Rec, ResourceFields
    <3>3. \A marker, ns : <<[marker |-> marker, generation |-> 0, ns |-> ns]>> # <<>>
      OBVIOUS
    <3> QED BY <2>1, <3>1, <3>2, <3>3
  <2>3. ResolverData'
    BY <1>0, <2>2 DEF ResolverData
  <2> QED BY <1>8, <2>2, <2>3 DEF Data
<1>9. CASE k = "unavailable"
  <2>1. f = [native |-> NoResource, aux |-> "none"]
    BY <1>9 DEF Found
  <2>2. Rec(native', ResourceFields)
    BY <2>1 DEF NoResource, Rec, ResourceFields
  <2> QED BY <1>9, <2>2 DEF Data
<1> QED BY <1>1, <1>2, <1>3, <1>4, <1>5, <1>6, <1>7, <1>8, <1>9 DEF Backends

LEMMA SelectStep ==
    ASSUME NativeInv, SelectBackend
    PROVE  NativeInv' /\ Kept
<1>1. /\ kind = "detecting" /\ UNCHANGED <<call, pc, loc, lease, first, moved, calls, events>>
  BY DEF SelectBackend, hist, bounds
<1>2. call = NoCall /\ lease = NoLease /\ pc = "idle" /\ aux \in Hosts
  BY <1>1 DEF NativeInv, Core, Phases, Data
<1>3. PICK k \in Selected(aux) : kind' = k /\ \E f \in Found(k) : native' = f.native /\ aux' = f.aux
  BY DEF SelectBackend
<1>4. k \in Backends
  BY <1>2, <1>3, SelectedIs
<1>5. PICK f \in Found(k) : native' = f.native /\ aux' = f.aux
  BY <1>3
<1>6. Rec(native', ResourceFields) /\ Data'
  BY <1>1, <1>2, <1>3, <1>4, <1>5, FoundData DEF NativeInv
<1>7. Core'
  BY <1>1, <1>2, <1>4, <1>6, NoCallIs, NoLeaseIs
     DEF NativeInv, Core, Shapes, Phases, Sound, Bound, Faithful, Resting, Observing
<1>8. call' = [call EXCEPT !.disturbed = call.disturbed \/ call.running]
  BY <1>1, <1>2, NoCallIs DEF Rec, CallFields
<1>9. Boundary!Other
  BY <1>8 DEF Boundary!Other
<1> QED BY <1>1, <1>6, <1>7, <1>9 DEF NativeInv, Kept, Boundary!Next, Spared

LEMMA NativeInit == Init => NativeInv
BY CoreInit DEF Init, NativeInv, Data

LEMMA NativeStep ==
    ASSUME NativeInv, Next
    PROVE  NativeInv' /\ Kept
<1>1. CASE nm!Next
  <2>1. kind = "nm" /\ kind' = "nm"
    BY <1>1, KindKept DEF nm!Next
  <2> QED BY <1>1, <2>1, NmStep DEF NativeInv, Data
<1>2. CASE resolved!Next
  <2>1. kind = "resolved" /\ kind' = "resolved"
    BY <1>2, KindKept DEF resolved!Next
  <2> QED BY <1>2, <2>1, LinkStep DEF NativeInv, Data
<1>3. CASE openresolv!Next
  <2>1. kind = "openresolv" /\ kind' = "openresolv"
    BY <1>3, KindKept DEF openresolv!Next
  <2> QED BY <1>3, <2>1, RecordStep DEF NativeInv, Data
<1>4. CASE direct!Next
  <2>1. kind \in {"direct", "bsd"} /\ kind' = kind
    BY <1>4, KindKept DEF direct!Next
  <2> QED BY <1>4, <2>1, DirectStep DEF NativeInv, Data
<1>5. CASE windows!Next
  <2>1. kind \in {"windows", "nrpt"} /\ kind' = kind
    BY <1>5, KindKept DEF windows!Next
  <2> QED BY <1>5, <2>1, WinStep, RuleStep DEF NativeInv, Data
<1>6. CASE macos!Next
  <2>1. kind \in {"service", "resolver"} /\ kind' = kind
    BY <1>6, KindKept DEF macos!Next
  <2> QED BY <1>6, <2>1, ServiceStep, ResolverStep DEF NativeInv, Data
<1> QED BY <1>1, <1>2, <1>3, <1>4, <1>5, <1>6, SelectStep DEF Next

LEMMA NativeStutter ==
    ASSUME NativeInv, UNCHANGED vars
    PROVE  NativeInv' /\ Kept
<1>1. Core'
  BY DEF NativeInv, vars, Core, Shapes, Phases, Sound, Bound, Faithful, Snap
<1>2. Data'
  <2>1. NmData => NmData'
    BY DEF vars, NmData, Dated, nm!SplitDns
  <2>2. LinkData => LinkData'
    BY DEF vars, LinkData, Captured
  <2>3. RecordData => RecordData'
    BY DEF vars, RecordData
  <2>4. DirectData => DirectData'
    BY DirectFrame DEF vars, DirectData, LikeBase, direct!RestoreGoal, direct!Bsd, direct!Before,
       direct!Removal
  <2>5. WinData => WinData'
    BY DEF vars, WinData, Captured, WantedStacks
  <2>6. RuleData => RuleData'
    BY DEF vars, RuleData, NoHalfRule, windows!OurMarker, windows!Values, windows!Whole, Occupied,
       windows!OurKey, Begun, windows!Wanted, macos!OurFile
  <2>7. ServiceData => ServiceData'
    BY DEF vars, ServiceData
  <2>8. ResolverData => ResolverData'
    BY DEF vars, ResolverData, macos!OurFile
  <2> QED BY <2>1, <2>2, <2>3, <2>4, <2>5, <2>6, <2>7, <2>8 DEF vars, NativeInv, Data
<1> QED BY <1>1, <1>2, Stutters DEF NativeInv, vars

-----------------------------------------------------------------------------
(* The values of a sequence at some places. *)

\* How many of the places come up to i.
Rank(places, i) == Cardinality({j \in places : j <= i})

LEMMA CountIs ==
    ASSUME NEW n \in Nat, NEW places \in SUBSET (1..n)
    PROVE  IsFiniteSet(places) /\ Cardinality(places) \in 0..n
<1>1. IsFiniteSet(1..n) /\ Cardinality(1..n) = n
  BY FS_Interval
<1>2. IsFiniteSet(places) /\ Cardinality(places) <= n
  BY <1>1, FS_Subset
<1>3. Cardinality(places) \in Nat
  BY <1>2, FS_CardinalityType
<1> QED BY <1>2, <1>3

LEMMA RankIs ==
    ASSUME NEW n \in Nat, NEW places \in SUBSET (1..n), NEW i \in 1..n
    PROVE  /\ IsFiniteSet(places) /\ Cardinality(places) \in Nat
           /\ IsFiniteSet({j \in places : j <= i}) /\ Rank(places, i) \in 0..Cardinality(places)
           /\ i \in places => Rank(places, i) # 0
           /\ \A m \in places : i < m => Rank(places, i) < Rank(places, m)
<1>1. IsFiniteSet(places)
  BY CountIs
<1>2. \A P \in SUBSET places : /\ IsFiniteSet(P) /\ Cardinality(P) \in Nat
                               /\ Cardinality(P) <= Cardinality(places)
  BY <1>1, FS_Subset, FS_CardinalityType
<1>3. /\ Cardinality(places) \in Nat /\ IsFiniteSet({j \in places : j <= i})
      /\ Rank(places, i) \in 0..Cardinality(places)
  <2>1. places \in SUBSET places /\ {j \in places : j <= i} \in SUBSET places
    OBVIOUS
  <2> QED BY <1>2, <2>1 DEF Rank
<1>4. ASSUME i \in places PROVE Rank(places, i) # 0
  <2>1. i \in {j \in places : j <= i}
    BY <1>4
  <2> QED BY <1>3, <2>1, FS_EmptySet DEF Rank
<1>5. ASSUME NEW m \in places, i < m PROVE Rank(places, i) < Rank(places, m)
  <2> DEFINE L == {j \in places : j <= i}
             M == {j \in places : j <= m}
  <2>1. L \in SUBSET M /\ m \in M /\ m \notin L
    <3>1. i \in Nat /\ m \in Nat /\ \A j \in places : j \in Nat
      OBVIOUS
    <3>2. \A j \in places : j <= i => j <= m
      BY <1>5, <3>1
    <3>3. ~(m <= i) /\ m <= m
      BY <1>5, <3>1
    <3> QED BY <3>2, <3>3
  <2>2. IsFiniteSet(M) /\ Cardinality(M) \in Nat /\ Cardinality(L) \in Nat
    BY <1>2
  <2> HIDE DEF L, M
  <2>3. Cardinality(L) <= Cardinality(M) /\ Cardinality(L) # Cardinality(M)
    BY <2>1, <2>2, FS_Subset
  <2>4. Cardinality(L) < Cardinality(M)
    BY <2>2, <2>3
  <2> QED BY <2>4 DEF L, M, Rank
<1> QED BY <1>1, <1>3, <1>4, <1>5

LEMMA RankIn ==
    ASSUME NEW n \in Nat, NEW places \in SUBSET (1..n), NEW i \in places
    PROVE  i \in 1..n /\ Rank(places, i) \in 1..Cardinality(places)
<1>1. i \in 1..n
  OBVIOUS
<1>2. /\ Cardinality(places) \in Nat /\ Rank(places, i) \in 0..Cardinality(places)
      /\ Rank(places, i) # 0
  BY <1>1, RankIs
<1> QED BY <1>1, <1>2

\* The places have the ranks 1, 2, ...
LEMMA Ranked ==
    ASSUME NEW n \in Nat, NEW places \in SUBSET (1..n)
    PROVE  \A k \in 1..Cardinality(places) : \E i \in places : Rank(places, i) = k
<1> DEFINE C == Cardinality(places)
           rank == [i \in places |-> Rank(places, i)]
<1>1. \A i \in places : i \in 1..n
  OBVIOUS
<1>2. IsFiniteSet(places) /\ C \in Nat
  BY CountIs
<1>3. \A i \in places : Rank(places, i) \in 1..C
  BY RankIn
<1>4. \A i, j \in places : Rank(places, i) = Rank(places, j) => i = j
  <2> SUFFICES ASSUME NEW i \in places, NEW j \in places, i < j
               PROVE  Rank(places, i) # Rank(places, j)
    BY <1>1
  <2>1. Rank(places, i) < Rank(places, j)
    BY <1>1, RankIs
  <2> QED BY <1>2, <1>3, <2>1
<1>5. rank \in Injection(places, 1..C)
  BY <1>3, <1>4 DEF Injection, IsInjective
<1>6. IsFiniteSet(1..C) /\ Cardinality(1..C) = C
  BY <1>2, FS_Interval
<1>7. rank \in Surjection(places, 1..C)
  <2> HIDE DEF rank
  <2> QED BY <1>5, <1>6, FS_Injection
<1> QED BY <1>7 DEF Surjection

\* Picking is choosing the place of each rank.
LEMMA PickedIs ==
    ASSUME NEW n \in Nat, NEW places \in SUBSET (1..n), NEW seq
    PROVE  /\ DOMAIN Picked(seq, places) = 1..Cardinality(places)
           /\ Picked(seq, places) = [k \in 1..Cardinality(places) |-> Picked(seq, places)[k]]
           /\ \A i \in places : /\ Rank(places, i) \in 1..Cardinality(places)
                                /\ Picked(seq, places)[Rank(places, i)] = seq[i]
           /\ \A k \in 1..Cardinality(places) :
                 \E i \in places : Rank(places, i) = k /\ Picked(seq, places)[k] = seq[i]
<1> DEFINE C == Cardinality(places)
           At(k) == CHOOSE i \in places : Rank(places, i) = k
<1>1. Picked(seq, places) = [k \in 1..C |-> seq[At(k)]]
  BY DEF Picked, Rank
<1>2. \A i \in places : i \in 1..n /\ Rank(places, i) \in 1..C
  BY RankIn
<1>3. \A k \in 1..C : At(k) \in places /\ Rank(places, At(k)) = k
  BY Ranked
<1> HIDE DEF At
<1>4. ASSUME NEW i \in places PROVE At(Rank(places, i)) = i
  <2>1. At(Rank(places, i)) \in places /\ Rank(places, At(Rank(places, i))) = Rank(places, i)
    BY <1>2, <1>3
  <2>2. \A a, b \in places : a < b => Rank(places, a) < Rank(places, b)
    BY <1>2, RankIs
  <2>3. i \in 1..n /\ At(Rank(places, i)) \in 1..n /\ Rank(places, i) \in Nat
    <3>1. C \in Nat
      BY CountIs
    <3>2. i \in 1..n /\ Rank(places, i) \in 1..C
      BY <1>2
    <3>3. At(Rank(places, i)) \in 1..n
      BY <1>2, <2>1
    <3> QED BY <3>1, <3>2, <3>3
  <2>4. ~(i < At(Rank(places, i))) /\ ~(At(Rank(places, i)) < i)
    BY <2>1, <2>2, <2>3
  <2> QED BY <2>3, <2>4
<1> QED BY <1>1, <1>2, <1>3, <1>4

LEMMA PickedAt ==
    ASSUME NEW n \in Nat, NEW places \in SUBSET (1..n), NEW seq, NEW i \in places
    PROVE  Rank(places, i) \in 1..Cardinality(places) /\ Picked(seq, places)[Rank(places, i)] = seq[i]
<1>1. /\ Picked(seq, places) = [k \in 1..Cardinality(places) |-> Picked(seq, places)[k]]
      /\ \A j \in places : /\ Rank(places, j) \in 1..Cardinality(places)
                           /\ Picked(seq, places)[Rank(places, j)] = seq[j]
  BY PickedIs
<1> QED BY <1>1

LEMMA SeqIs ==
    ASSUME NEW S, NEW seq \in Seq(S)
    PROVE  Len(seq) \in Nat /\ DOMAIN seq = 1..Len(seq) /\ \A i \in 1..Len(seq) : seq[i] \in S
OBVIOUS

\* No value occurs twice.
Once(seq) == \A i, j \in DOMAIN seq : seq[i] = seq[j] => i = j

LEMMA PickedEach ==
    ASSUME NEW S, NEW seq \in Seq(S), NEW places \in SUBSET (DOMAIN seq)
    PROVE  /\ DOMAIN Picked(seq, places) = 1..Cardinality(places)
           /\ \A k \in 1..Cardinality(places) :
                 \E i \in places : Rank(places, i) = k /\ Picked(seq, places)[k] = seq[i]
<1>1. Len(seq) \in Nat /\ DOMAIN seq = 1..Len(seq)
  BY SeqIs
<1> QED BY <1>1, PickedIs

LEMMA PickedElements ==
    ASSUME NEW S, NEW seq \in Seq(S), NEW places \in SUBSET (DOMAIN seq)
    PROVE  /\ Picked(seq, places) \in Seq(S)
           /\ Elements(Picked(seq, places)) = {seq[i] : i \in places}
           /\ (\A i, j \in places : seq[i] = seq[j] => i = j) => Once(Picked(seq, places))
<1> DEFINE C == Cardinality(places)
           picked == Picked(seq, places)
<1>1. Len(seq) \in Nat /\ DOMAIN seq = 1..Len(seq) /\ \A i \in 1..Len(seq) : seq[i] \in S
  BY SeqIs
<1>2. C \in Nat
  BY <1>1, CountIs
<1>3. /\ DOMAIN picked = 1..C /\ picked = [k \in 1..C |-> picked[k]]
      /\ \A i \in places : Rank(places, i) \in 1..C /\ picked[Rank(places, i)] = seq[i]
      /\ \A k \in 1..C : \E i \in places : Rank(places, i) = k /\ picked[k] = seq[i]
  BY <1>1, PickedIs
<1>4. \A i \in places : seq[i] \in S
  BY <1>1
<1> HIDE DEF C, picked
<1>5. picked \in Seq(S)
  <2>1. \A k \in 1..C : picked[k] \in S
    BY <1>3, <1>4
  <2> QED BY <1>2, <1>3, <2>1
<1>6. Elements(picked) = {seq[i] : i \in places}
  <2>1. \A x \in Elements(picked) : \E i \in places : x = seq[i]
    BY <1>3 DEF Elements
  <2>2. \A i \in places : seq[i] \in Elements(picked)
    <3> TAKE i \in places
    <3>1. Rank(places, i) \in DOMAIN picked /\ seq[i] = picked[Rank(places, i)]
      BY <1>3
    <3> QED BY <3>1, Zenon DEF Elements
  <2> QED BY <2>1, <2>2
<1>7. ASSUME \A i, j \in places : seq[i] = seq[j] => i = j PROVE Once(picked)
  BY <1>3, <1>7 DEF Once
<1> QED BY <1>5, <1>6, <1>7 DEF picked

LEMMA PickedFront ==
    ASSUME NEW n \in Nat, NEW places \in SUBSET (1..n), NEW seq
    PROVE  \A m \in Nat : (\A k \in 1..m : k \in places) =>
              Cardinality(places) >= m /\ \A k \in 1..m : Picked(seq, places)[k] = seq[k]
<1>1. \A i \in places : /\ Rank(places, i) \in 1..Cardinality(places)
                        /\ Picked(seq, places)[Rank(places, i)] = seq[i]
  BY PickedAt
<1>2. Cardinality(places) \in Nat /\ \A i \in places : i \in Nat
  BY CountIs
<1> SUFFICES ASSUME NEW m \in Nat, \A k \in 1..m : k \in places
             PROVE  Cardinality(places) >= m /\ \A k \in 1..m : Picked(seq, places)[k] = seq[k]
  OBVIOUS
<1>3. ASSUME NEW k \in 1..m PROVE k \in places /\ Rank(places, k) = k
  <2>1. {j \in places : j <= k} = 1..k
    <3>1. \A j \in places : 1 <= j
      OBVIOUS
    <3>2. \A j \in 1..k : j \in places /\ j <= k
      OBVIOUS
    <3>3. \A j \in places : j <= k => j \in 1..k
      BY <1>2, <3>1
    <3> QED BY <3>2, <3>3
  <2>2. Cardinality(1..k) = k
    BY FS_Interval
  <2> QED BY <2>1, <2>2 DEF Rank
<1>4. Cardinality(places) >= m
  <2>1. CASE m = 0
    BY <1>2, <2>1
  <2>2. CASE m # 0
    <3>1. m \in places /\ Rank(places, m) = m
      BY <1>3, <2>2
    <3> QED BY <1>1, <1>2, <3>1
  <2> QED BY <2>1, <2>2
<1> QED BY <1>1, <1>3, <1>4

\* The places and the values after a up to b.
Stretch(a, b) == (a + 1)..b
Slice(seq, a, b) == [k \in 1..(b - a) |-> seq[a + k]]

LEMMA PickedStretch ==
    ASSUME NEW a \in Nat, NEW b \in Nat, a <= b, NEW seq
    PROVE  Picked(seq, Stretch(a, b)) = Slice(seq, a, b)
<1> DEFINE places == Stretch(a, b)
<1>1. places \in SUBSET (1..b) /\ Cardinality(places) = b - a
  <2>1. Cardinality(places) = IF a + 1 > b THEN 0 ELSE b - (a + 1) + 1
    <3>1. a + 1 \in Int /\ b \in Int
      OBVIOUS
    <3> QED BY <3>1, FS_Interval DEF Stretch
  <2> QED BY <2>1 DEF Stretch
<1>2. \A k \in 1..(b - a) : a + k \in places /\ Rank(places, a + k) = k
  <2> TAKE k \in 1..(b - a)
  <2>1. {j \in places : j <= a + k} = (a + 1)..(a + k)
    BY DEF Stretch
  <2>2. Cardinality((a + 1)..(a + k)) = k
    <3>1. a + 1 \in Int /\ a + k \in Int
      OBVIOUS
    <3>2. Cardinality((a + 1)..(a + k)) = IF a + 1 > a + k THEN 0 ELSE a + k - (a + 1) + 1
      BY <3>1, FS_Interval
    <3> QED BY <3>2
  <2>3. a + k \in places
    BY DEF Stretch
  <2> QED BY <2>1, <2>2, <2>3 DEF Rank
<1> HIDE DEF places
<1>3. /\ Picked(seq, places) = [k \in 1..(b - a) |-> Picked(seq, places)[k]]
      /\ \A i \in places : Picked(seq, places)[Rank(places, i)] = seq[i]
  BY <1>1, PickedIs
<1>4. \A k \in 1..(b - a) : Picked(seq, places)[k] = seq[a + k]
  BY <1>2, <1>3
<1> QED BY <1>3, <1>4 DEF places, Slice

LEMMA PickedAll ==
    ASSUME NEW S, NEW seq \in Seq(S)
    PROVE  Picked(seq, DOMAIN seq) = seq /\ Picked(seq, {}) = <<>>
<1>1. Len(seq) \in Nat /\ 0 <= Len(seq) /\ DOMAIN seq = (0 + 1)..Len(seq) /\ {} = (0 + 1)..0
  OBVIOUS
<1>2. DOMAIN seq = Stretch(0, Len(seq)) /\ {} = Stretch(0, 0)
  BY <1>1 DEF Stretch
<1>3. /\ Picked(seq, Stretch(0, Len(seq))) = Slice(seq, 0, Len(seq))
      /\ Picked(seq, Stretch(0, 0)) = Slice(seq, 0, 0)
  BY <1>1, PickedStretch
<1>4. seq = Slice(seq, 0, Len(seq)) /\ Slice(seq, 0, 0) = <<>>
  BY DEF Slice
<1> QED BY <1>2, <1>3, <1>4

LEMMA Concatenated ==
    ASSUME NEW S, NEW s \in Seq(S), NEW t \in Seq(S)
    PROVE  /\ s \o t \in Seq(S) /\ Len(s \o t) = Len(s) + Len(t)
           /\ \A i \in 1..Len(s) : (s \o t)[i] = s[i]
           /\ \A i \in 1..Len(t) : (s \o t)[Len(s) + i] = t[i]
           /\ Picked(s \o t, 1..Len(s)) = s
           /\ Picked(s \o t, (Len(s) + 1)..(Len(s) + Len(t))) = t
<1> DEFINE a == Len(s)
           b == Len(s) + Len(t)
           u == s \o t
<1>1. a \in Nat /\ Len(t) \in Nat /\ b \in Nat /\ a <= b /\ 0 <= a
  OBVIOUS
<1>2. u \in Seq(S) /\ Len(u) = b
  OBVIOUS
<1>3. (\A i \in 1..a : u[i] = s[i]) /\ (\A i \in 1..Len(t) : u[a + i] = t[i])
  OBVIOUS
<1>4. Slice(u, 0, a) = s /\ Slice(u, a, b) = t
  <2>1. s = [k \in 1..(a - 0) |-> s[k]] /\ t = [k \in 1..(b - a) |-> t[k]]
    OBVIOUS
  <2>2. (\A k \in 1..(a - 0) : u[0 + k] = s[k]) /\ (\A k \in 1..(b - a) : u[a + k] = t[k])
    BY <1>1, <1>3
  <2> HIDE DEF a, b, u
  <2> QED BY <2>1, <2>2 DEF Slice
<1>5. Stretch(0, a) = 1..a /\ Stretch(a, b) = (a + 1)..b
  BY DEF Stretch
<1> HIDE DEF a, b, u
<1>6. Picked(u, Stretch(0, a)) = Slice(u, 0, a) /\ Picked(u, Stretch(a, b)) = Slice(u, a, b)
  BY <1>1, PickedStretch
<1>7. Picked(u, 1..a) = s /\ Picked(u, (a + 1)..b) = t
  BY <1>4, <1>5, <1>6
<1> QED BY <1>2, <1>3, <1>7 DEF a, b, u

\* What Only and Without leave of a sequence.
LEMMA OnlyIs ==
    ASSUME NEW S, NEW seq \in Seq(S), NEW values
    PROVE  /\ Only(seq, values) \in Seq(S)
           /\ Elements(Only(seq, values)) = Elements(seq) \cap values
           /\ Once(seq) => Once(Only(seq, values))
           /\ Elements(seq) \subseteq values => Only(seq, values) = seq
           /\ Elements(seq) \cap values = {} => Only(seq, values) = <<>>
<1> DEFINE places == {i \in DOMAIN seq : seq[i] \in values}
<1>1. places \in SUBSET (DOMAIN seq) /\ {seq[i] : i \in places} = Elements(seq) \cap values
  BY DEF Elements
<1>2. Once(seq) => \A i, j \in places : seq[i] = seq[j] => i = j
  BY DEF Once
<1>3. /\ Elements(seq) \subseteq values => places = DOMAIN seq
      /\ Elements(seq) \cap values = {} => places = {}
  BY DEF Elements
<1>4. Only(seq, values) = Picked(seq, places)
  BY DEF Only
<1> HIDE DEF places
<1>5. /\ Only(seq, values) \in Seq(S)
      /\ Elements(Only(seq, values)) = Elements(seq) \cap values
      /\ Once(seq) => Once(Only(seq, values))
  BY <1>1, <1>2, <1>4, PickedElements
<1>6. /\ Elements(seq) \subseteq values => Only(seq, values) = seq
      /\ Elements(seq) \cap values = {} => Only(seq, values) = <<>>
  BY <1>3, <1>4, PickedAll
<1> QED BY <1>5, <1>6

LEMMA WithoutIs ==
    ASSUME NEW S, NEW seq \in Seq(S), NEW values
    PROVE  /\ Without(seq, values) \in Seq(S)
           /\ Elements(Without(seq, values)) = Elements(seq) \ values
           /\ Once(seq) => Once(Without(seq, values))
           /\ Elements(seq) \cap values = {} => Without(seq, values) = seq
<1> DEFINE places == {i \in DOMAIN seq : seq[i] \notin values}
<1>1. places \in SUBSET (DOMAIN seq) /\ {seq[i] : i \in places} = Elements(seq) \ values
  BY DEF Elements
<1>2. Once(seq) => \A i, j \in places : seq[i] = seq[j] => i = j
  BY DEF Once
<1>3. Elements(seq) \cap values = {} => places = DOMAIN seq
  BY DEF Elements
<1>4. Without(seq, values) = Picked(seq, places)
  BY DEF Without
<1> HIDE DEF places
<1> QED BY <1>1, <1>2, <1>3, <1>4, PickedElements, PickedAll

\* Two parts, of which the filter takes one.
LEMMA OnlyParts ==
    ASSUME NEW S, NEW s \in Seq(S), NEW t \in Seq(S), NEW values
    PROVE  /\ Elements(s) \subseteq values /\ Elements(t) \cap values = {} =>
                 Only(s \o t, values) = s
           /\ Elements(t) \subseteq values /\ Elements(s) \cap values = {} =>
                 Only(s \o t, values) = t
<1> DEFINE u == s \o t
           places == {i \in DOMAIN u : u[i] \in values}
<1>1. /\ Len(s) \in Nat /\ Len(t) \in Nat /\ DOMAIN u = 1..(Len(s) + Len(t))
      /\ DOMAIN s = 1..Len(s) /\ DOMAIN t = 1..Len(t)
      /\ \A i \in 1..Len(s) : u[i] = s[i]
      /\ \A i \in 1..Len(t) : u[Len(s) + i] = t[i]
  BY Concatenated
<1> HIDE DEF u
<1>2. \A i \in DOMAIN u : \/ i \in 1..Len(s) /\ u[i] \in Elements(s)
                          \/ i \in (Len(s) + 1)..(Len(s) + Len(t)) /\ u[i] \in Elements(t)
  <2> TAKE i \in DOMAIN u
  <2>1. CASE i <= Len(s)
    <3>1. i \in 1..Len(s) /\ u[i] = s[i]
      BY <1>1, <2>1
    <3> QED BY <1>1, <3>1, Zenon DEF Elements
  <2>2. CASE ~(i <= Len(s))
    <3>1. i \in (Len(s) + 1)..(Len(s) + Len(t)) /\ i - Len(s) \in 1..Len(t)
      BY <1>1, <2>2
    <3>2. u[i] = t[i - Len(s)]
      <4>1. u[Len(s) + (i - Len(s))] = t[i - Len(s)] /\ Len(s) + (i - Len(s)) = i
        BY <1>1, <3>1
      <4> QED BY <4>1
    <3>3. u[i] \in Elements(t)
      BY <1>1, <3>1, <3>2, Zenon DEF Elements
    <3> QED BY <3>1, <3>3
  <2> QED BY <2>1, <2>2
<1>3. /\ \A i \in 1..Len(s) : i \in DOMAIN u /\ u[i] \in Elements(s)
      /\ \A i \in (Len(s) + 1)..(Len(s) + Len(t)) : i \in DOMAIN u /\ u[i] \in Elements(t)
  <2>1. \A i \in 1..Len(s) : i \in DOMAIN u /\ i \notin (Len(s) + 1)..(Len(s) + Len(t))
    BY <1>1
  <2>2. \A i \in (Len(s) + 1)..(Len(s) + Len(t)) : i \in DOMAIN u /\ i \notin 1..Len(s)
    BY <1>1
  <2> QED BY <1>2, <2>1, <2>2
<1>4. Only(u, values) = Picked(u, places)
  BY DEF Only
<1>5. Elements(s) \subseteq values /\ Elements(t) \cap values = {} => places = 1..Len(s)
  BY <1>2, <1>3
<1>6. Elements(t) \subseteq values /\ Elements(s) \cap values = {} =>
         places = (Len(s) + 1)..(Len(s) + Len(t))
  BY <1>2, <1>3
<1> HIDE DEF places
<1> QED BY <1>4, <1>5, <1>6, Concatenated DEF u

LEMMA ConcatenatedElements ==
    ASSUME NEW S, NEW s \in Seq(S), NEW t \in Seq(S)
    PROVE  Elements(s \o t) = Elements(s) \cup Elements(t)
<1> DEFINE u == s \o t
<1>1. /\ Len(s) \in Nat /\ Len(t) \in Nat /\ DOMAIN u = 1..(Len(s) + Len(t))
      /\ DOMAIN s = 1..Len(s) /\ DOMAIN t = 1..Len(t)
      /\ \A i \in 1..Len(s) : u[i] = s[i]
      /\ \A i \in 1..Len(t) : u[Len(s) + i] = t[i]
  BY Concatenated
<1> HIDE DEF u
<1>2. \A i \in 1..Len(s) : i \in DOMAIN u /\ u[i] = s[i]
  BY <1>1
<1>3. \A i \in 1..Len(t) : Len(s) + i \in DOMAIN u /\ u[Len(s) + i] = t[i]
  BY <1>1
<1>4. \A i \in DOMAIN u : \/ i \in 1..Len(s) /\ u[i] = s[i]
                          \/ i - Len(s) \in 1..Len(t) /\ u[i] = t[i - Len(s)]
  <2> TAKE i \in DOMAIN u
  <2>1. CASE i <= Len(s)
    <3>1. i \in 1..Len(s)
      BY <1>1, <2>1
    <3> QED BY <1>2, <3>1
  <2>2. CASE ~(i <= Len(s))
    <3>1. i - Len(s) \in 1..Len(t) /\ Len(s) + (i - Len(s)) = i
      BY <1>1, <2>2
    <3> QED BY <1>3, <3>1
  <2> QED BY <2>1, <2>2
<1>5. Elements(s) \subseteq Elements(u)
  BY <1>1, <1>2, Zenon DEF Elements
<1>6. Elements(t) \subseteq Elements(u)
  <2>1. ASSUME NEW i \in DOMAIN t PROVE t[i] \in Elements(u)
    <3>1. Len(s) + i \in DOMAIN u /\ t[i] = u[Len(s) + i]
      BY <1>1, <1>3
    <3> QED BY <3>1, Zenon DEF Elements
  <2> QED BY <2>1, Zenon DEF Elements
<1>7. Elements(u) \subseteq Elements(s) \cup Elements(t)
  BY <1>1, <1>4, Zenon DEF Elements
<1> QED BY <1>5, <1>6, <1>7 DEF u

LEMMA LeastOf ==
    ASSUME NEW S \in SUBSET Nat, S # {}
    PROVE  \E x \in S : \A y \in S : x <= y
<1>1. PICK x \in S : \A y \in S : ~(<<y, x>> \in OpToRel(<, Nat))
  BY NatLessThanWellFounded, WFMin
<1>2. \A y \in S : ~(y < x)
  BY <1>1 DEF OpToRel
<1> QED BY <1>2

\* The places where a value occurs for the first time.
Firsts(seq) == {i \in DOMAIN seq : \A j \in DOMAIN seq : seq[j] = seq[i] => i <= j}

LEMMA FirstsAre ==
    ASSUME NEW S, NEW seq \in Seq(S)
    PROVE  /\ Firsts(seq) \in SUBSET (DOMAIN seq) /\ {seq[i] : i \in Firsts(seq)} = Elements(seq)
           /\ \A i, j \in Firsts(seq) : seq[i] = seq[j] => i = j
           /\ Distinct(seq) = Picked(seq, Firsts(seq))
<1>1. Len(seq) \in Nat /\ DOMAIN seq = 1..Len(seq)
  BY SeqIs
<1>2. Firsts(seq) \in SUBSET (DOMAIN seq) /\ Distinct(seq) = Picked(seq, Firsts(seq))
  BY DEF Firsts, Distinct
<1>3. \A i, j \in Firsts(seq) : seq[i] = seq[j] => i = j
  <2> SUFFICES ASSUME NEW i \in Firsts(seq), NEW j \in Firsts(seq), seq[i] = seq[j] PROVE i = j
    OBVIOUS
  <2>1. i \in 1..Len(seq) /\ j \in 1..Len(seq) /\ i <= j /\ j <= i
    BY <1>1 DEF Firsts
  <2> QED BY <1>1, <2>1
<1>4. \A x \in Elements(seq) : \E i \in Firsts(seq) : x = seq[i]
  <2> TAKE x \in Elements(seq)
  <2> DEFINE I == {i \in DOMAIN seq : seq[i] = x}
  <2>1. I \in SUBSET Nat /\ I # {}
    BY <1>1 DEF Elements
  <2>2. PICK i \in I : \A j \in I : i <= j
    <3> HIDE DEF I
    <3> QED BY <2>1, LeastOf
  <2>3. i \in Firsts(seq) /\ x = seq[i]
    BY <2>2 DEF Firsts
  <2> QED BY <2>3
<1>5. \A i \in Firsts(seq) : seq[i] \in Elements(seq)
  BY DEF Firsts, Elements
<1>6. {seq[i] : i \in Firsts(seq)} = Elements(seq)
  BY <1>4, <1>5
<1> QED BY <1>2, <1>3, <1>6

LEMMA DistinctIs ==
    ASSUME NEW S, NEW seq \in Seq(S)
    PROVE  /\ Distinct(seq) \in Seq(S) /\ Elements(Distinct(seq)) = Elements(seq)
           /\ Once(Distinct(seq)) /\ (Once(seq) => Distinct(seq) = seq)
<1>1. /\ Firsts(seq) \in SUBSET (DOMAIN seq) /\ {seq[i] : i \in Firsts(seq)} = Elements(seq)
      /\ \A i, j \in Firsts(seq) : seq[i] = seq[j] => i = j
      /\ Distinct(seq) = Picked(seq, Firsts(seq))
  BY FirstsAre
<1>2. /\ Distinct(seq) \in Seq(S) /\ Elements(Distinct(seq)) = Elements(seq)
      /\ Once(Distinct(seq))
  <2> DEFINE places == Firsts(seq)
  <2> HIDE DEF places
  <2>1. /\ places \in SUBSET (DOMAIN seq) /\ \A i, j \in places : seq[i] = seq[j] => i = j
        /\ {seq[i] : i \in places} = Elements(seq) /\ Distinct(seq) = Picked(seq, places)
    BY <1>1 DEF places
  <2>2. /\ Picked(seq, places) \in Seq(S)
        /\ Elements(Picked(seq, places)) = {seq[i] : i \in places}
        /\ Once(Picked(seq, places))
    BY <2>1, PickedElements
  <2> QED BY <2>1, <2>2
<1>3. ASSUME Once(seq) PROVE Distinct(seq) = seq
  <2>1. Len(seq) \in Nat /\ DOMAIN seq = 1..Len(seq)
    BY SeqIs
  <2>2. \A i, j \in DOMAIN seq : seq[j] = seq[i] => i <= j
    BY <1>3, <2>1 DEF Once
  <2>3. Firsts(seq) = DOMAIN seq
    BY <2>2 DEF Firsts
  <2> QED BY <1>1, <2>3, PickedAll
<1> QED BY <1>2, <1>3

\* A sequence without duplicates stays in front of what follows it.
LEMMA FirstsFront ==
    ASSUME NEW S, NEW s \in Seq(S), Once(s), NEW t \in Seq(S)
    PROVE  /\ 1..Len(s) \subseteq Firsts(s \o t)
           /\ Elements(t) \subseteq Elements(s) => Firsts(s \o t) = 1..Len(s)
<1> DEFINE u == s \o t
<1>1. /\ Len(s) \in Nat /\ Len(t) \in Nat /\ DOMAIN u = 1..(Len(s) + Len(t))
      /\ DOMAIN s = 1..Len(s) /\ DOMAIN t = 1..Len(t)
      /\ \A i \in 1..Len(s) : u[i] = s[i]
      /\ \A i \in 1..Len(t) : u[Len(s) + i] = t[i]
  BY Concatenated
<1> HIDE DEF u
<1>2. ASSUME NEW i \in 1..Len(s), NEW j \in DOMAIN u, u[j] = u[i] PROVE i <= j
  <2>1. CASE j \in 1..Len(s)
    <3>1. s[j] = s[i]
      BY <1>1, <1>2, <2>1
    <3> QED BY <1>1, <2>1, <3>1 DEF Once
  <2>2. CASE ~(j \in 1..Len(s))
    BY <1>1, <2>2
  <2> QED BY <2>1, <2>2
<1>3. 1..Len(s) \subseteq Firsts(u)
  <2> SUFFICES ASSUME NEW i \in 1..Len(s) PROVE i \in Firsts(u)
    OBVIOUS
  <2>1. i \in DOMAIN u
    BY <1>1
  <2> QED BY <1>2, <2>1 DEF Firsts
<1>4. ASSUME Elements(t) \subseteq Elements(s), NEW i \in Firsts(u) PROVE i \in 1..Len(s)
  <2> SUFFICES ASSUME ~(i <= Len(s)) PROVE FALSE
    BY <1>1 DEF Firsts
  <2>1. i \in DOMAIN u /\ \A j \in DOMAIN u : u[j] = u[i] => i <= j
    BY DEF Firsts
  <2>2. i - Len(s) \in 1..Len(t) /\ Len(s) + (i - Len(s)) = i
    BY <1>1, <2>1
  <2>3. u[i] = t[i - Len(s)]
    BY <1>1, <2>2
  <2>4. u[i] \in Elements(t)
    BY <1>1, <2>2, <2>3, Zenon DEF Elements
  <2>5. PICK k \in DOMAIN s : u[i] = s[k]
    BY <1>4, <2>4 DEF Elements
  <2>6. k \in DOMAIN u /\ u[k] = u[i] /\ k <= Len(s)
    BY <1>1, <2>5
  <2> QED BY <1>1, <2>1, <2>5, <2>6
<1> QED BY <1>3, <1>4 DEF u

LEMMA DistinctParts ==
    ASSUME NEW S, NEW s \in Seq(S), Once(s), NEW t \in Seq(S)
    PROVE  /\ Len(Distinct(s \o t)) >= Len(s)
           /\ \A i \in 1..Len(s) : Distinct(s \o t)[i] = s[i]
           /\ Elements(t) \subseteq Elements(s) => Distinct(s \o t) = s
<1> DEFINE u == s \o t
           n == Len(s) + Len(t)
<1>1. /\ u \in Seq(S) /\ n \in Nat /\ DOMAIN u = 1..n /\ Len(s) \in 0..n
      /\ \A i \in 1..Len(s) : u[i] = s[i]
      /\ Picked(u, 1..Len(s)) = s
  BY Concatenated
<1>2. 1..Len(s) \subseteq Firsts(u) /\ (Elements(t) \subseteq Elements(s) => Firsts(u) = 1..Len(s))
  BY FirstsFront
<1> HIDE DEF u
<1>3. Firsts(u) \in SUBSET (1..n) /\ Distinct(u) = Picked(u, Firsts(u))
  BY <1>1, FirstsAre
<1>4. Cardinality(Firsts(u)) >= Len(s) /\ \A k \in 1..Len(s) : Picked(u, Firsts(u))[k] = u[k]
  <2>1. Len(s) \in Nat /\ \A k \in 1..Len(s) : k \in Firsts(u)
    BY <1>2
  <2>2. n \in Nat /\ Firsts(u) \in SUBSET (1..n)
    BY <1>1, <1>3
  <2> HIDE DEF n
  <2>3. \A m \in Nat : (\A k \in 1..m : k \in Firsts(u)) =>
           Cardinality(Firsts(u)) >= m /\ \A k \in 1..m : Picked(u, Firsts(u))[k] = u[k]
    BY <2>2, PickedFront, Zenon
  <2> QED BY <2>1, <2>3
<1>5. DOMAIN Distinct(u) = 1..Cardinality(Firsts(u)) /\ Distinct(u) \in Seq(S)
  BY <1>1, <1>3, PickedIs, DistinctIs
<1>6. Len(Distinct(u)) = Cardinality(Firsts(u))
  <2>1. Cardinality(Firsts(u)) \in Nat
    BY <1>1, <1>3, CountIs
  <2> QED BY <1>5, <2>1
<1> QED BY <1>1, <1>2, <1>3, <1>4, <1>6 DEF u

LEMMA DistinctStarts ==
    ASSUME NEW S, NEW s \in Seq(S), Once(s), NEW t \in Seq(S)
    PROVE  StartsWith(Distinct(s \o t), s)
<1> DEFINE d == Distinct(s \o t)
<1>1. s \o t \in Seq(S)
  OBVIOUS
<1>2. d \in Seq(S) /\ Len(d) >= Len(s) /\ \A i \in 1..Len(s) : d[i] = s[i]
  BY <1>1, DistinctIs, DistinctParts
<1> HIDE DEF d
<1>3. Len(s) \in Nat /\ Len(d) \in Nat /\ s = [i \in 1..Len(s) |-> s[i]]
  BY <1>2
<1>4. SubSeq(d, 1, Len(s)) = [i \in 1..Len(s) |-> d[i]]
  BY <1>2, <1>3
<1> QED BY <1>2, <1>3, <1>4 DEF StartsWith, d

\* The places 1 to a, and b's places moved behind them.
Behind(a, P) == 1..a \cup {a + j : j \in P}

LEMMA BehindCount ==
    ASSUME NEW a \in Nat, NEW b \in Nat, NEW P \in SUBSET (1..b)
    PROVE  Cardinality(Behind(a, P)) = a + Cardinality(P)
<1> DEFINE M == {a + j : j \in P}
           move == [j \in P |-> a + j]
<1>1. IsFiniteSet(P) /\ Cardinality(P) \in Nat
  BY CountIs
<1>2. IsFiniteSet(1..a) /\ Cardinality(1..a) = a
  BY FS_Interval
<1>3. move \in Bijection(P, M)
  <2>1. \A j \in P : j \in 1..b
    OBVIOUS
  <2>2. \A i, j \in P : a + i = a + j => i = j
    BY <2>1
  <2>3. move \in [P -> M] /\ \A m \in M : \E j \in P : move[j] = m
    OBVIOUS
  <2>4. \A i, j \in P : move[i] = move[j] => i = j
    BY <2>2
  <2> HIDE DEF move, M
  <2> QED BY <2>3, <2>4 DEF Bijection, Injection, Surjection, IsInjective
<1>4. IsFiniteSet(M) /\ Cardinality(M) = Cardinality(P)
  <2>1. ExistsBijection(P, M)
    BY <1>3 DEF ExistsBijection
  <2> HIDE DEF M
  <2> QED BY <1>1, <2>1, FS_Bijection
<1>5. 1..a \cap M = {}
  <2>1. \A j \in P : j \in 1..b
    OBVIOUS
  <2>2. \A j \in P : a + j \notin 1..a
    BY <2>1
  <2> QED BY <2>2
<1>6. Cardinality({}) = 0
  BY FS_EmptySet
<1>7. Cardinality(1..a \cup M) = a + Cardinality(P) - 0
  <2> HIDE DEF M
  <2> QED BY <1>2, <1>4, <1>5, <1>6, FS_Union
<1> QED BY <1>1, <1>7 DEF Behind

\* Of two sequences put together the second loses what the first one has.
LEMMA DistinctRest ==
    ASSUME NEW S, NEW s \in Seq(S), Once(s), NEW t \in Seq(S), Once(t)
    PROVE  Distinct(s \o t) = s \o Without(t, Elements(s))
<1> DEFINE u == s \o t
           a == Len(s)
           b == Len(t)
           P == {j \in DOMAIN t : t[j] \notin Elements(s)}
           w == Picked(t, P)
           C == Cardinality(P)
           F == Firsts(u)
           d == Picked(u, F)
<1>1. /\ a \in Nat /\ b \in Nat /\ a + b \in Nat /\ DOMAIN u = 1..(a + b) /\ u \in Seq(S)
      /\ DOMAIN s = 1..a /\ DOMAIN t = 1..b
      /\ (\A i \in 1..a : u[i] = s[i]) /\ (\A i \in 1..b : u[a + i] = t[i])
  BY Concatenated
<1>2. P \in SUBSET (1..b)
  BY <1>1
<1>3. Distinct(u) = d /\ Without(t, Elements(s)) = w /\ F \in SUBSET (1..(a + b)) /\ 1..a \subseteq F
  <2>1. Distinct(u) = d /\ F \in SUBSET (DOMAIN u)
    BY <1>1, FirstsAre
  <2>2. 1..a \subseteq F
    BY FirstsFront
  <2> QED BY <1>1, <2>1, <2>2 DEF Without
<1>4. \A i \in 1..b : a + i \in F <=> i \in P
  <2> HIDE DEF u, a, b
  <2> SUFFICES ASSUME NEW i \in 1..b PROVE a + i \in F <=> i \in P
    OBVIOUS
  <2>0. a + i \in DOMAIN u /\ u[a + i] = t[i] /\ i \in DOMAIN t
    BY <1>1
  <2>1. ASSUME i \in P, NEW j \in DOMAIN u, u[j] = u[a + i] PROVE a + i <= j
    <3>1. CASE j \in 1..a
      <4>1. u[j] = s[j] /\ s[j] \in Elements(s)
        BY <1>1, <3>1 DEF Elements
      <4> QED BY <2>0, <2>1, <4>1
    <3>2. CASE j \notin 1..a
      <4>1. j - a \in 1..b /\ a + (j - a) = j
        BY <1>1, <3>2
      <4>2. u[j] = t[j - a]
        BY <1>1, <4>1
      <4>3. j - a = i
        BY <1>1, <2>0, <2>1, <4>1, <4>2 DEF Once
      <4> QED BY <1>1, <4>1, <4>3
    <3> QED BY <3>1, <3>2
  <2>2. ASSUME a + i \in F PROVE t[i] \notin Elements(s)
    <3> SUFFICES ASSUME t[i] \in Elements(s) PROVE FALSE
      OBVIOUS
    <3>1. PICK k \in DOMAIN s : t[i] = s[k]
      BY DEF Elements
    <3>2. k \in DOMAIN u /\ u[k] = u[a + i] /\ k \in 1..a
      BY <1>1, <2>0, <3>1
    <3>3. a + i <= k
      BY <2>2, <3>2 DEF Firsts
    <3> QED BY <1>1, <3>2, <3>3
  <2> QED BY <2>0, <2>1, <2>2 DEF Firsts
<1> HIDE DEF u, F, P, a, b
<1>5. F = Behind(a, P)
  <2>1. \A k \in 1..(a + b) : k \in 1..a \/ (k - a \in 1..b /\ a + (k - a) = k)
    BY <1>1
  <2>2. \A k \in F : k \in Behind(a, P)
    <3> TAKE k \in F
    <3>1. CASE k \in 1..a
      BY <3>1 DEF Behind
    <3>2. CASE k \notin 1..a
      <4>1. k - a \in 1..b /\ a + (k - a) = k
        BY <1>3, <2>1, <3>2
      <4>2. k - a \in P
        BY <1>4, <4>1
      <4> QED BY <4>1, <4>2 DEF Behind
    <3> QED BY <3>1, <3>2
  <2>3. \A j \in P : a + j \in F
    BY <1>2, <1>4
  <2> QED BY <1>3, <2>2, <2>3 DEF Behind
<1>6. C \in Nat /\ Cardinality(F) = a + C
  <2>1. Cardinality(Behind(a, P)) = a + Cardinality(P)
    BY <1>1, <1>2, BehindCount
  <2>2. Cardinality(P) \in Nat
    BY <1>1, <1>2, CountIs
  <2> QED BY <1>5, <2>1, <2>2
<1>7. \A i \in P : a + i \in F /\ Rank(F, a + i) = a + Rank(P, i)
  <2> SUFFICES ASSUME NEW i \in P PROVE a + i \in F /\ Rank(F, a + i) = a + Rank(P, i)
    OBVIOUS
  <2> DEFINE Q == {j \in P : j <= i}
  <2>1. i \in 1..b /\ a + i \in F /\ \A j \in P : j \in 1..b
    BY <1>2, <1>4
  <2>2. {k \in F : k <= a + i} = Behind(a, Q)
    <3>1. \A k \in 1..a : k <= a + i
      BY <1>1, <2>1
    <3>2. \A j \in P : a + j <= a + i <=> j <= i
      BY <1>1, <2>1
    <3> QED BY <1>5, <3>1, <3>2 DEF Behind
  <2>3. Q \in SUBSET (1..b)
    BY <1>2
  <2>4. Cardinality(Behind(a, Q)) = a + Cardinality(Q)
    <3> HIDE DEF Q
    <3> QED BY <1>1, <2>3, BehindCount
  <2> QED BY <2>1, <2>2, <2>4 DEF Rank
<1>8. /\ d = [k \in 1..(a + C) |-> d[k]]
      /\ \A i \in F : d[Rank(F, i)] = u[i]
  BY <1>1, <1>3, <1>6, PickedIs
<1>9. /\ DOMAIN w = 1..C
      /\ \A k \in 1..C : \E i \in P : Rank(P, i) = k /\ w[k] = t[i]
  <2>1. P \in SUBSET (DOMAIN t)
    BY <1>1, <1>2
  <2> QED BY <2>1, PickedEach, Zenon
<1>10. \A k \in 1..a : d[k] = s[k]
  <2> DEFINE n == a + b
  <2>1. n \in Nat /\ F \in SUBSET (1..n)
    BY <1>1, <1>3
  <2> HIDE DEF n
  <2>2. \A m \in Nat : (\A k \in 1..m : k \in F) => \A k \in 1..m : d[k] = u[k]
    BY <2>1, PickedFront, Zenon
  <2> QED BY <1>1, <1>3, <2>2
<1>11. \A k \in 1..C : d[a + k] = w[k]
  <2> TAKE k \in 1..C
  <2>1. PICK i \in P : Rank(P, i) = k /\ w[k] = t[i]
    BY <1>9
  <2>2. a + i \in F /\ Rank(F, a + i) = a + k /\ u[a + i] = t[i]
    BY <1>1, <1>2, <1>7, <2>1
  <2> QED BY <1>8, <2>1, <2>2
<1>12. w \in Seq(S)
  <2>1. P \in SUBSET (DOMAIN t)
    BY <1>1, <1>2
  <2> QED BY <2>1, PickedElements
<1> HIDE DEF w, d, C
<1>13. Len(w) = C
  BY <1>6, <1>9, <1>12
<1>14. s \o w = [k \in 1..(a + C) |-> d[k]]
  <2>1. /\ s \o w \in Seq(S) /\ Len(s \o w) = a + C
        /\ (\A i \in 1..a : (s \o w)[i] = s[i]) /\ (\A i \in 1..C : (s \o w)[a + i] = w[i])
    <3>1. /\ s \o w \in Seq(S) /\ Len(s \o w) = Len(s) + Len(w)
          /\ \A i \in 1..Len(s) : (s \o w)[i] = s[i]
          /\ \A i \in 1..Len(w) : (s \o w)[Len(s) + i] = w[i]
      BY <1>12, Concatenated
    <3> QED BY <1>13, <3>1 DEF a
  <2> DEFINE v == s \o w
  <2>2. v \in Seq(S) /\ Len(v) = a + C
    BY <2>1
  <2> HIDE DEF v
  <2>3. v = [k \in 1..Len(v) |-> v[k]]
    BY <2>2
  <2>4. v = [k \in 1..(a + C) |-> v[k]]
    BY <2>2, <2>3
  <2>5. \A k \in 1..(a + C) : v[k] = d[k]
    <3> TAKE k \in 1..(a + C)
    <3>1. CASE k \in 1..a
      BY <1>10, <2>1, <3>1 DEF v
    <3>2. CASE k \notin 1..a
      <4>1. k - a \in 1..C /\ a + (k - a) = k
        BY <1>1, <1>6, <3>2
      <4>2. v[a + (k - a)] = w[k - a] /\ d[a + (k - a)] = w[k - a]
        BY <1>11, <2>1, <4>1 DEF v
      <4> QED BY <4>1, <4>2
    <3> QED BY <3>1, <3>2
  <2> QED BY <2>4, <2>5 DEF v
<1> QED BY <1>3, <1>8, <1>14 DEF u

-----------------------------------------------------------------------------
(* The plans, as the builder makes them of requests. *)

\* What the builder makes of a request.
Proper(plan) ==
    /\ plan.ns \in Seq(V4 \cup V6) /\ Once(plan.ns)
    /\ plan.search \in Seq(Domains) /\ Once(plan.search)
    /\ plan.routing \in Seq(Domains) /\ Once(plan.routing)

LEMMA CanonicalIs ==
    ASSUME NEW names \in Seq(Spellings), \A s \in Elements(names) : Canonical[s] # Invalid
    PROVE  Distinct(Map(names, LAMBDA s : Canonical[s])) \in Seq(Domains)
           /\ Once(Distinct(Map(names, LAMBDA s : Canonical[s])))
<1> DEFINE mapped == [i \in DOMAIN names |-> Canonical[names[i]]]
<1>1. \A i \in DOMAIN names : names[i] \in Spellings /\ names[i] \in Elements(names)
  BY DEF Elements
<1>2. \A i \in DOMAIN names : Canonical[names[i]] \in Domains
  BY <1>1 DEF Domains
<1>3. mapped \in Seq(Domains)
  <2>1. Len(names) \in Nat /\ DOMAIN names = 1..Len(names)
    BY SeqIs
  <2> QED BY <1>2, <2>1
<1>4. Map(names, LAMBDA s : Canonical[s]) = mapped
  BY DEF Map
<1> HIDE DEF mapped
<1> QED BY <1>3, <1>4, DistinctIs

LEMMA ProperPlans ==
    ASSUME NEW caps, NEW plan \in Accepted(Requests, caps)
    PROVE  Proper(plan) /\ (plan.routing # <<>> => caps.split)
<1>1. PICK r \in Requests : BuildAccepts(r) /\ ValidateAgainst(r, caps) /\ plan = Built(r)
  BY DEF Accepted
<1>2. r.ns \in Seq(V4 \cup V6) /\ r.search \in Seq(Spellings) /\ r.routing \in Seq(Spellings)
  BY RequestsAssumption
<1>3. \A s \in Elements(r.search) \cup Elements(r.routing) : Canonical[s] # Invalid
  BY <1>1 DEF BuildAccepts
<1>4. /\ plan.ns = Distinct(r.ns) /\ plan.search = Distinct(Map(r.search, LAMBDA s : Canonical[s]))
      /\ plan.routing = Distinct(Map(r.routing, LAMBDA s : Canonical[s]))
  BY <1>1 DEF Built
<1>5. plan.ns \in Seq(V4 \cup V6) /\ Once(plan.ns)
  BY <1>2, <1>4, DistinctIs
<1>6. plan.search \in Seq(Domains) /\ Once(plan.search)
  BY <1>2, <1>3, <1>4, CanonicalIs
<1>7. plan.routing \in Seq(Domains) /\ Once(plan.routing)
  BY <1>2, <1>3, <1>4, CanonicalIs
<1>8. plan.routing # <<>> => caps.split
  <2>1. CASE r.routing # <<>>
    BY <1>1, <2>1 DEF ValidateAgainst
  <2>2. CASE r.routing = <<>>
    <3>1. Map(r.routing, LAMBDA s : Canonical[s]) = <<>>
      BY <2>2 DEF Map
    <3>2. <<>> \in Seq({}) /\ Once(<<>>)
      BY DEF Once
    <3>3. Distinct(<<>>) = <<>>
      BY <3>2, DistinctIs
    <3> QED BY <1>4, <3>1, <3>3
  <2> QED BY <2>1, <2>2
<1> QED BY <1>5, <1>6, <1>7, <1>8 DEF Proper

\* Two lists of names become one list of entries and are read from it again.
NameEntries(s, t) ==
    Map(s, LAMBDA d : [name |-> d, routeOnly |-> FALSE]) \o Map(t, LAMBDA d : [name |-> d, routeOnly |-> TRUE])

LEMMA EntriesSplit ==
    ASSUME NEW E, NEW f \in Seq(E), NEW g \in Seq(E),
           \A i \in DOMAIN f : f[i].routeOnly = FALSE, \A i \in DOMAIN g : g[i].routeOnly = TRUE
    PROVE  /\ Picked(f \o g, {i \in DOMAIN (f \o g) : (f \o g)[i].routeOnly = FALSE}) = f
           /\ Picked(f \o g, {i \in DOMAIN (f \o g) : (f \o g)[i].routeOnly = TRUE}) = g
<1> DEFINE u == f \o g
           V(flag) == {e \in E : e.routeOnly = flag}
<1>1. u \in Seq(E)
  BY Concatenated
<1>2. /\ Elements(f) \subseteq V(FALSE) /\ Elements(f) \cap V(TRUE) = {}
      /\ Elements(g) \subseteq V(TRUE) /\ Elements(g) \cap V(FALSE) = {}
  <2>1. (\A i \in DOMAIN f : f[i] \in E) /\ (\A i \in DOMAIN g : g[i] \in E)
    BY SeqIs
  <2> QED BY <2>1 DEF Elements
<1>3. Only(u, V(FALSE)) = f /\ Only(u, V(TRUE)) = g
  <2> HIDE DEF V
  <2> QED BY <1>2, OnlyParts
<1>4. \A i \in DOMAIN u : u[i] \in E
  <2> HIDE DEF u
  <2> QED BY <1>1, SeqIs
<1> HIDE DEF u
<1>5. \A flag : {i \in DOMAIN u : u[i] \in V(flag)} = {i \in DOMAIN u : u[i].routeOnly = flag}
  BY <1>4
<1>6. \A flag : Only(u, V(flag)) = Picked(u, {i \in DOMAIN u : u[i].routeOnly = flag})
  BY <1>5 DEF Only
<1> QED BY <1>3, <1>6 DEF u

LEMMA EntriesRead ==
    ASSUME NEW S, NEW s \in Seq(S), Once(s), NEW t \in Seq(S), Once(t)
    PROVE  PublicSearch(NameEntries(s, t)) = s /\ PublicRouting(NameEntries(s, t)) = t
<1> DEFINE E == [name : S, routeOnly : BOOLEAN]
           f == [i \in DOMAIN s |-> [name |-> s[i], routeOnly |-> FALSE]]
           g == [i \in DOMAIN t |-> [name |-> t[i], routeOnly |-> TRUE]]
           At(flag) == {i \in DOMAIN (f \o g) : (f \o g)[i].routeOnly = flag}
<1>1. /\ Len(s) \in Nat /\ DOMAIN s = 1..Len(s) /\ s = [i \in 1..Len(s) |-> s[i]]
      /\ Len(t) \in Nat /\ DOMAIN t = 1..Len(t) /\ t = [i \in 1..Len(t) |-> t[i]]
      /\ (\A i \in 1..Len(s) : s[i] \in S) /\ (\A i \in 1..Len(t) : t[i] \in S)
  OBVIOUS
<1>2. f \in Seq(E) /\ g \in Seq(E)
  BY <1>1
<1>3. DOMAIN f = DOMAIN s /\ \A i \in DOMAIN f : f[i].name = s[i] /\ f[i].routeOnly = FALSE
  OBVIOUS
<1>4. DOMAIN g = DOMAIN t /\ \A i \in DOMAIN g : g[i].name = t[i] /\ g[i].routeOnly = TRUE
  OBVIOUS
<1>5. NameEntries(s, t) = f \o g
  BY DEF NameEntries, Map
<1>6. Picked(f \o g, At(FALSE)) = f /\ Picked(f \o g, At(TRUE)) = g
  <2> HIDE DEF f, g, E
  <2> QED BY <1>2, <1>3, <1>4, EntriesSplit
<1>7. /\ Names(f \o g, FALSE) = [i \in DOMAIN f |-> f[i].name]
      /\ Names(f \o g, TRUE) = [i \in DOMAIN g |-> g[i].name]
  <2>1. \A flag : Names(f \o g, flag) = Map(Picked(f \o g, At(flag)), LAMBDA e : e.name)
    BY DEF Names
  <2> HIDE DEF f, g, At
  <2>2. Names(f \o g, FALSE) = Map(f, LAMBDA e : e.name)
    BY <1>6, <2>1, Zenon
  <2>3. Names(f \o g, TRUE) = Map(g, LAMBDA e : e.name)
    BY <1>6, <2>1, Zenon
  <2> QED BY <2>2, <2>3 DEF Map
<1> HIDE DEF f, g, At
<1>8. [i \in DOMAIN f |-> f[i].name] = s /\ [i \in DOMAIN g |-> g[i].name] = t
  BY <1>1, <1>3, <1>4
<1> QED BY <1>5, <1>7, <1>8, DistinctIs DEF PublicSearch, PublicRouting

-----------------------------------------------------------------------------
(* What the native form of a plan tells of it. *)

\* Every backend has the mappings of text_config.rs, which are the same.
LEMMA ResolvedMaps ==
    /\ \A seq : resolved!Distinct(seq) = Distinct(seq)
    /\ \A seq, values : resolved!Without(seq, values) = Without(seq, values)
    /\ \A seq : resolved!Elements(seq) = Elements(seq)
    /\ \A entries : resolved!PublicSearch(entries) = PublicSearch(entries)
    /\ \A entries : resolved!PublicRouting(entries) = PublicRouting(entries)
    /\ \A caps : resolved!Accepted(Requests, caps) = Accepted(Requests, caps)
<1>1. \A seq, places : resolved!Picked(seq, places) = Picked(seq, places)
  BY Zenon DEF resolved!Picked, Picked, resolved!Cardinality, Cardinality
<1>2. \A seq : resolved!Distinct(seq) = Distinct(seq)
  BY <1>1, Zenon DEF resolved!Distinct, Distinct
<1>3. \A seq, values : resolved!Without(seq, values) = Without(seq, values)
  BY <1>1, Zenon DEF resolved!Without, Without
<1>4. \A seq : resolved!Elements(seq) = Elements(seq)
  BY Zenon DEF resolved!Elements, Elements
<1>5. /\ \A entries : resolved!PublicSearch(entries) = PublicSearch(entries)
      /\ \A entries : resolved!PublicRouting(entries) = PublicRouting(entries)
  BY <1>1, <1>2, Zenon DEF resolved!PublicSearch, PublicSearch, resolved!PublicRouting, PublicRouting,
     resolved!Names, Names, resolved!Map, Map
<1>6. \A caps : resolved!Accepted(Requests, caps) = Accepted(Requests, caps)
  BY <1>2, <1>4, Zenon DEF resolved!Accepted, Accepted, resolved!Built, Built, resolved!BuildAccepts,
     BuildAccepts, resolved!ValidateAgainst, ValidateAgainst, resolved!Map, Map
<1> QED BY <1>2, <1>3, <1>4, <1>5, <1>6

LEMMA NmMaps ==
    /\ \A seq, values : nm!Only(seq, values) = Only(seq, values)
    /\ \A seq, values : nm!Without(seq, values) = Without(seq, values)
    /\ \A seq : nm!Elements(seq) = Elements(seq)
    /\ \A entries : nm!PublicSearch(entries) = PublicSearch(entries)
    /\ \A entries : nm!PublicRouting(entries) = PublicRouting(entries)
    /\ \A caps : nm!Accepted(Requests, caps) = Accepted(Requests, caps)
<1>1. \A seq, places : nm!Picked(seq, places) = Picked(seq, places)
  BY Zenon DEF nm!Picked, Picked, nm!Cardinality, Cardinality
<1>2. \A seq : nm!Distinct(seq) = Distinct(seq)
  BY <1>1, Zenon DEF nm!Distinct, Distinct
<1>3. \A seq, values : nm!Only(seq, values) = Only(seq, values)
  BY <1>1, Zenon DEF nm!Only, Only
<1>4. \A seq, values : nm!Without(seq, values) = Without(seq, values)
  BY <1>1, Zenon DEF nm!Without, Without
<1>5. \A seq : nm!Elements(seq) = Elements(seq)
  BY Zenon DEF nm!Elements, Elements
<1>6. /\ \A entries : nm!PublicSearch(entries) = PublicSearch(entries)
      /\ \A entries : nm!PublicRouting(entries) = PublicRouting(entries)
  BY <1>1, <1>2, Zenon DEF nm!PublicSearch, PublicSearch, nm!PublicRouting, PublicRouting,
     nm!Names, Names, nm!Map, Map
<1>7. \A caps : nm!Accepted(Requests, caps) = Accepted(Requests, caps)
  BY <1>2, <1>5, Zenon DEF nm!Accepted, Accepted, nm!Built, Built, nm!BuildAccepts,
     BuildAccepts, nm!ValidateAgainst, ValidateAgainst, nm!Map, Map
<1> QED BY <1>3, <1>4, <1>5, <1>6, <1>7

LEMMA WindowsMaps ==
    /\ \A seq : windows!Distinct(seq) = Distinct(seq)
    /\ \A seq, values : windows!Only(seq, values) = Only(seq, values)
    /\ \A seq, values : windows!Without(seq, values) = Without(seq, values)
    /\ \A caps : windows!Accepted(Requests, caps) = Accepted(Requests, caps)
<1>1. \A seq, places : windows!Picked(seq, places) = Picked(seq, places)
  BY Zenon DEF windows!Picked, Picked, windows!Cardinality, Cardinality
<1>2. \A seq : windows!Distinct(seq) = Distinct(seq)
  BY <1>1, Zenon DEF windows!Distinct, Distinct
<1>3. \A seq, values : windows!Only(seq, values) = Only(seq, values)
  BY <1>1, Zenon DEF windows!Only, Only
<1>4. \A seq, values : windows!Without(seq, values) = Without(seq, values)
  BY <1>1, Zenon DEF windows!Without, Without
<1>5. \A seq : windows!Elements(seq) = Elements(seq)
  BY Zenon DEF windows!Elements, Elements
<1>6. \A caps : windows!Accepted(Requests, caps) = Accepted(Requests, caps)
  BY <1>2, <1>5, Zenon DEF windows!Accepted, Accepted, windows!Built, Built, windows!BuildAccepts,
     BuildAccepts, windows!ValidateAgainst, ValidateAgainst, windows!Map, Map
<1> QED BY <1>2, <1>3, <1>4, <1>6

LEMMA DirectMaps == \A seq, values : direct!Without(seq, values) = Without(seq, values)
<1>1. \A seq, places : direct!Picked(seq, places) = Picked(seq, places)
  BY Zenon DEF direct!Picked, Picked, direct!Cardinality, Cardinality
<1> QED BY <1>1, Zenon DEF direct!Without, Without

LEMMA MacMaps == \A seq, values : macos!Without(seq, values) = Without(seq, values)
<1>1. \A seq, places : macos!Picked(seq, places) = Picked(seq, places)
  BY Zenon DEF macos!Picked, Picked, macos!Cardinality, Cardinality
<1> QED BY <1>1, Zenon DEF macos!Without, Without

LEMMA OpenMaps ==
    /\ \A seq : openresolv!Distinct(seq) = Distinct(seq)
    /\ \A seq, values : openresolv!Without(seq, values) = Without(seq, values)
    /\ \A caps : openresolv!Accepted(Requests, caps) = Accepted(Requests, caps)
<1>1. \A seq, places : openresolv!Picked(seq, places) = Picked(seq, places)
  BY Zenon DEF openresolv!Picked, Picked, openresolv!Cardinality, Cardinality
<1>2. \A seq : openresolv!Distinct(seq) = Distinct(seq)
  BY <1>1, Zenon DEF openresolv!Distinct, Distinct
<1>3. \A seq : openresolv!Elements(seq) = Elements(seq)
  BY Zenon DEF openresolv!Elements, Elements
<1>4. \A caps : openresolv!Accepted(Requests, caps) = Accepted(Requests, caps)
  BY <1>2, <1>3, Zenon DEF openresolv!Accepted, Accepted, openresolv!Built, Built,
     openresolv!BuildAccepts, BuildAccepts, openresolv!ValidateAgainst, ValidateAgainst,
     openresolv!Map, Map
<1>5. \A seq, values : openresolv!Without(seq, values) = Without(seq, values)
  BY <1>1, Zenon DEF openresolv!Without, Without
<1> QED BY <1>2, <1>4, <1>5

LEMMA ResolvedTells ==
    ASSUME NEW plan, Proper(plan), NEW r
    PROVE  Reports(resolved!PublicState(resolved!Merged(plan, r)), plan,
                   {"order", "root", "routing", "route"})
<1> DEFINE dns == resolved!Merged(plan, r)
           seen == resolved!PublicState(dns)
           rest == Without(plan.routing, Elements(plan.search))
<1>1. /\ plan.ns \in Seq(V4 \cup V6) /\ plan.search \in Seq(Domains) /\ Once(plan.search)
      /\ plan.routing \in Seq(Domains) /\ Once(plan.routing)
  BY DEF Proper
<1>2. rest \in Seq(Domains) /\ Once(rest) /\ Without(plan.search, {}) = plan.search
  BY <1>1, WithoutIs
<1>3. dns.domains = NameEntries(plan.search, rest)
  BY ResolvedMaps DEF resolved!Merged, resolved!ResolvedDomains, resolved!Map, NameEntries, Map
<1>4. seen.search = plan.search /\ seen.routing = rest
  <2>1. seen.search = PublicSearch(dns.domains) /\ seen.routing = PublicRouting(dns.domains)
    BY ResolvedMaps DEF resolved!PublicState
  <2> HIDE DEF rest, dns
  <2> QED BY <1>1, <1>2, <1>3, <2>1, EntriesRead
<1>5. seen.ns = plan.ns
  <2>1. plan.ns = [i \in DOMAIN plan.ns |-> plan.ns[i]]
    BY <1>1
  <2>2. seen.ns = [i \in DOMAIN plan.ns |-> plan.ns[i]]
    BY DEF resolved!Merged, resolved!PublicState, resolved!ResolvedDns, resolved!Map
  <2> QED BY <2>1, <2>2
<1>6. plan.route # "unset" => seen.route = plan.route
  BY DEF resolved!Merged, resolved!PublicState
<1> HIDE DEF seen, rest, dns
<1> QED BY <1>2, <1>4, <1>5, <1>6 DEF Reports, seen, rest, dns

LEMMA NmTells ==
    ASSUME NEW plan, Proper(plan), NEW split, plan.routing # <<>> => split = TRUE
    PROVE  Reports(nm!PublicState(nm!NmFields(plan, split)), plan, {"routing"})
<1> DEFINE dns == nm!NmFields(plan, split)
           seen == nm!PublicState(dns)
           search == Without(plan.search, {Root})
           rest == Without(plan.routing, Elements(search))
<1>1. /\ plan.ns \in Seq(V4 \cup V6) /\ plan.search \in Seq(Domains) /\ Once(plan.search)
      /\ plan.routing \in Seq(Domains) /\ Once(plan.routing)
  BY DEF Proper
<1>2. search \in Seq(Domains) /\ Once(search)
  BY <1>1, WithoutIs
<1>3. rest \in Seq(Domains) /\ Once(rest) /\ (plan.routing = <<>> => rest = <<>>)
  <2> HIDE DEF search
  <2>1. rest \in Seq(Domains) /\ Once(rest)
    BY <1>1, WithoutIs
  <2>2. plan.routing = <<>> => Elements(plan.routing) \cap Elements(search) = {}
    BY DEF Elements
  <2> QED BY <1>1, <2>1, <2>2, WithoutIs
<1>4. dns.search4 = NameEntries(search, rest)
  <2>1. dns.search4 = nm!NmEntries(plan, split)
    BY DEF nm!NmFields
  <2>2. nm!NmEntries(plan, split) = NameEntries(search, IF split THEN rest ELSE <<>>)
    BY NmMaps DEF nm!NmEntries, nm!Map, NameEntries, Map
  <2>3. (IF split THEN rest ELSE <<>>) = rest
    BY <1>3
  <2> QED BY <2>1, <2>2, <2>3
<1>5. seen.search = search /\ seen.routing = rest
  <2>1. seen.search = PublicSearch(dns.search4) /\ seen.routing = PublicRouting(dns.search4)
    BY NmMaps DEF nm!PublicState
  <2> HIDE DEF search, rest, dns
  <2> QED BY <1>2, <1>3, <1>4, <2>1, EntriesRead
<1>6. seen.ns = Only(plan.ns, V4) \o Only(plan.ns, V6) /\ seen.route = "unset"
  BY NmMaps DEF nm!NmFields, nm!PublicState, nm!NameServers4, nm!NameServers6
<1> HIDE DEF seen, dns
<1> QED BY <1>5, <1>6 DEF Reports, NameServers4, NameServers6, seen, dns

LEMMA WindowsTells ==
    ASSUME NEW plan, Proper(plan)
    PROVE  Reports(windows!InterfacePublicState(windows!InterfaceState(plan)), plan, {})
<1> DEFINE seen == windows!InterfacePublicState(windows!InterfaceState(plan))
           search == Without(plan.search, {Root})
<1>1. plan.ns \in Seq(V4 \cup V6) /\ plan.search \in Seq(Domains) /\ Once(plan.search)
  BY DEF Proper
<1>2. search \in Seq(Domains) /\ Once(search)
  BY <1>1, WithoutIs
<1>3. seen.search = Distinct(search \o search) /\ seen.routing = <<>> /\ seen.route = "unset"
  BY WindowsMaps DEF windows!InterfaceState, windows!InterfacePublicState
<1>4. seen.ns = Only(plan.ns, V4) \o Only(plan.ns, V6)
  BY WindowsMaps DEF windows!InterfaceState, windows!InterfacePublicState, windows!NameServers4,
     windows!NameServers6
<1>5. Distinct(search \o search) = search
  <2> HIDE DEF search
  <2> QED BY <1>2, DistinctParts
<1> HIDE DEF seen
<1> QED BY <1>3, <1>4, <1>5 DEF Reports, NameServers4, NameServers6, seen

LEMMA DirectTells ==
    ASSUME NEW plan, NEW dns \in direct!Goal(plan)
    PROVE  Reports(direct!PublicState(dns), plan, {"order"})
<1>1. PICK m, t : dns = direct!File(direct!ResolvConf(plan), m, t)
  BY DEF direct!Goal
<1>2. dns # <<>> /\ dns[1].content = direct!ResolvConf(plan)
  BY <1>1 DEF direct!File
<1> QED BY <1>2, DirectMaps
        DEF direct!PublicState, direct!ResolvConf, Reports

LEMMA ServiceTells ==
    ASSUME NEW plan
    PROVE  Reports(macos!ServicePublicState(macos!ServiceDns(plan)), plan, {"order"})
BY MacMaps DEF macos!ServicePublicState, macos!ServiceDns, Reports

\* The namespaces a plan routes to the servers of a rule.
Routed(plan) ==
    IF plan.route = "yes" THEN <<Root>> \o Without(plan.routing, {Root}) ELSE plan.routing

LEMMA RuleTells ==
    ASSUME NEW plan, Proper(plan)
    PROVE  LET seen == windows!RulePublicState(<<windows!Rule(plan)>>)
           IN seen.ns = plan.ns /\ seen.search = <<>> /\ seen.routing = Routed(plan)
<1> DEFINE seen == windows!RulePublicState(<<windows!Rule(plan)>>)
           head == IF plan.route = "yes" THEN <<Root>> ELSE <<>>
           all == head \o plan.routing
<1>1. plan.routing \in Seq(Domains) /\ Once(plan.routing) /\ head \in Seq(Domains) /\ Once(head)
  BY DnsPlanAssumption DEF Proper, Once
<1>2. seen.ns = plan.ns /\ seen.search = <<>> /\ seen.routing = Distinct(Distinct(all))
  BY WindowsMaps DEF windows!RulePublicState, windows!Rule, windows!Namespaces
<1>3. Distinct(Distinct(all)) = Distinct(all)
  <2>1. all \in Seq(Domains)
    <3> HIDE DEF head
    <3> QED BY <1>1
  <2> HIDE DEF all
  <2> QED BY <2>1, DistinctIs
<1>4. Distinct(all) = head \o Without(plan.routing, Elements(head))
  <2> HIDE DEF head
  <2> QED BY <1>1, DistinctRest
<1>5. head \o Without(plan.routing, Elements(head)) = Routed(plan)
  <2>1. CASE plan.route = "yes"
    <3>1. Elements(head) = {Root}
      BY <2>1 DEF Elements
    <3> QED BY <2>1, <3>1 DEF Routed
  <2>2. CASE plan.route # "yes"
    <3>1. head = <<>> /\ Elements(head) = {}
      BY <2>2 DEF Elements
    <3>2. Without(plan.routing, {}) = plan.routing
      BY <1>1, WithoutIs
    <3>3. <<>> \o plan.routing = plan.routing
      BY <1>1
    <3> QED BY <2>2, <3>1, <3>2, <3>3 DEF Routed
  <2> QED BY <2>1, <2>2
<1> HIDE DEF seen, head, all
<1> QED BY <1>2, <1>3, <1>4, <1>5 DEF seen

-----------------------------------------------------------------------------
(* Only a new apply changes what a call is about. *)

\* The call goes on with its plan, ends, or is none that applies.
PlanKept ==
    call'.op = "apply" => call.op = "apply" /\ call'.plan = call.plan /\ call'.goal = call.goal

\* The steps that all backends share.
LEMMA SharedKeepPlan ==
    ASSUME Core
    PROVE  /\ UNCHANGED call => PlanKept
           /\ Verify => PlanKept
           /\ EndRestore => PlanKept
           /\ Crash => PlanKept
           /\ Return => PlanKept
           /\ Observe => PlanKept
           /\ ObserveEnd => PlanKept
           /\ CompareParts => PlanKept
           /\ \A to : ObserveBegin(to) => PlanKept
           /\ \A from, fields, to : ObservePart(from, fields, to) => PlanKept
           /\ \A goal, guarded : BeginRestore(goal, guarded) => PlanKept
           /\ \A from, to : CheckStatus(from, to) => PlanKept
           /\ \A from, to : CheckCurrent(from, to) => PlanKept
           /\ \A from, fields, to : ReadPart(from, fields, to) => PlanKept
           /\ \A from, resource, to : Writing(from, resource, to) => PlanKept
           /\ \A resource : Foreign(resource) => PlanKept
           /\ \A resource : Wrote(resource) => PlanKept
           /\ \A answer, produced : Answer(answer, produced) => PlanKept
           /\ \A label : Confirmed(label) => PlanKept
           /\ \A label : Goto(label) => PlanKept
<1>1. UNCHANGED call => PlanKept
  BY DEF PlanKept
<1>2. call' = NoCall => PlanKept
  BY NoCallIs DEF PlanKept
<1>3. SameCall => PlanKept
  BY DEF SameCall, PlanKept
<1>4. /\ \A answer, produced : Answer(answer, produced) => PlanKept
      /\ \A label : Confirmed(label) => PlanKept
      /\ \A resource : Wrote(resource) => PlanKept
      /\ \A resource : Foreign(resource) => PlanKept
      /\ \A from, resource, to : Writing(from, resource, to) => PlanKept
  BY <1>3, AnswerFacts, ConfirmedFacts, WroteFacts, ForeignFacts, WritingFacts
<1>5. \A label : Goto(label) => PlanKept
  BY <1>1 DEF Goto
<1>6. /\ Verify => PlanKept
      /\ EndRestore => PlanKept
      /\ Crash => PlanKept
  BY <1>1, <1>2, VerifyFacts, EndRestoreFacts, CrashFacts
<1>7. /\ Return => PlanKept
      /\ \A from, to : CheckStatus(from, to) => PlanKept
  BY <1>1, <1>4, ReturnFacts, CheckStatusFacts
<1>8. /\ Observe => PlanKept
      /\ ObserveEnd => PlanKept
      /\ \A to : ObserveBegin(to) => PlanKept
      /\ \A from, fields, to : ObservePart(from, fields, to) => PlanKept
  BY <1>1, Zenon DEF Observe, ObserveEnd, ObserveBegin, ObservePart
<1>9. CompareParts => PlanKept
  BY <1>4, Zenon DEF CompareParts, CheckExpected
<1>10. \A goal, guarded : BeginRestore(goal, guarded) => PlanKept
  <2> SUFFICES ASSUME NEW goal, NEW guarded, BeginRestore(goal, guarded) PROVE PlanKept
    OBVIOUS
  <2>1. Begin("restore", lease.evidence, NoState, lease.base, goal, guarded)
    BY DEF BeginRestore
  <2>2. call'.op = "restore"
    BY <2>1, BeginFields
  <2> QED BY <2>2 DEF PlanKept
<1>11. \A from, to : CheckCurrent(from, to) => PlanKept
  BY <1>4, Zenon DEF CheckCurrent, CheckExpected
<1>12. \A from, fields, to : ReadPart(from, fields, to) => PlanKept
  BY <1>1, <1>4, Zenon DEF ReadPart
<1> QED
  BY <1>1, <1>4, <1>5, <1>6, <1>7, <1>8, <1>9, <1>10, <1>11, <1>12

LEMMA ResolvedPlans ==
    ASSUME Core, resolved!Next
    PROVE  \/ PlanKept
           \/ \E p \in resolved!Plans :
                 BeginApply(p, {resolved!Merged(p, r) : r \in {"yes", "no"}}, FALSE)
<1>1. resolved!ObserveLink => PlanKept
  BY SharedKeepPlan, ResolvedShares, Zenon DEF resolved!ObserveLink
<1>2. resolved!ReadLink => PlanKept
  BY SharedKeepPlan, ResolvedShares, Zenon DEF resolved!ReadLink
<1>3. resolved!Prepare => PlanKept
  BY SharedKeepPlan, Zenon DEF resolved!Prepare
<1>4. resolved!SetLinkDns \/ resolved!SetLinkDomains \/ resolved!SetLinkDefaultRoute => PlanKept
  <2>1. \A from, to, field : resolved!SetLink(from, to, field) => PlanKept
    BY SharedKeepPlan, ResolvedShares, Zenon DEF resolved!SetLink
  <2> QED BY <2>1, Zenon DEF resolved!SetLinkDns, resolved!SetLinkDomains, resolved!SetLinkDefaultRoute
<1>5. resolved!Rival => PlanKept
  BY SharedKeepPlan, ResolvedShares, Zenon DEF resolved!Rival
<1>6. \/ PlanKept
      \/ \E p \in resolved!Plans :
            resolved!BeginApply(p, {resolved!Merged(p, r) : r \in {"yes", "no"}}, FALSE)
  BY <1>1, <1>2, <1>3, <1>4, <1>5, SharedKeepPlan, ResolvedShares, Zenon DEF resolved!Next
<1> QED BY <1>6, ResolvedShares, Zenon

LEMMA NmPlans ==
    ASSUME Core, nm!Next
    PROVE  \/ PlanKept
           \/ \E p \in nm!Accepted(Requests, nm!Caps) :
                 BeginApply(p, {nm!NmFields(p, nm!SplitDns)}, TRUE)
<1>1. nm!VerifyNamespace => PlanKept
  BY SharedKeepPlan, NmShares, Zenon DEF nm!VerifyNamespace
<1>2. nm!GuardedBaseline => PlanKept
  BY SharedKeepPlan, NmShares, Zenon DEF nm!GuardedBaseline, nm!CheckExpected
<1>3. nm!Reapply => PlanKept
  BY SharedKeepPlan, NmShares, Zenon DEF nm!Reapply
<1>4. nm!Rival => PlanKept
  BY SharedKeepPlan, NmShares, Zenon DEF nm!Rival
<1>5. \/ PlanKept
      \/ \E p \in nm!Accepted(Requests, nm!Caps) :
            nm!BeginApply(p, {nm!NmFields(p, nm!SplitDns)}, TRUE)
  BY <1>1, <1>2, <1>3, <1>4, SharedKeepPlan, NmShares, Zenon DEF nm!Next
<1> QED BY <1>5, NmShares, Zenon

LEMMA OpenPlans ==
    ASSUME Core, openresolv!Next
    PROVE  \/ PlanKept
           \/ \E p \in openresolv!Accepted(Requests, openresolv!Caps) :
                 BeginApply(p, {openresolv!Record(p)}, FALSE)
<1>1. \A from, to : openresolv!ReadRecord(from, to) => PlanKept
  BY SharedKeepPlan, Zenon DEF openresolv!ReadRecord
<1>2. \A from, answer : openresolv!RecordUnreadable(from, answer) => PlanKept
  BY SharedKeepPlan, OpenShares, Zenon DEF openresolv!RecordUnreadable
<1>3. openresolv!CheckLive => PlanKept
  BY SharedKeepPlan, OpenShares, Zenon DEF openresolv!CheckLive, openresolv!CheckExpected
<1>4. openresolv!Add \/ openresolv!Delete \/ openresolv!Undeprecate \/ openresolv!Deprecate => PlanKept
  <2>1. \A from, record, to : openresolv!Run(from, record, to) => PlanKept
    BY SharedKeepPlan, OpenShares, Zenon DEF openresolv!Run
  <2> QED BY <2>1, Zenon DEF openresolv!Add, openresolv!Delete, openresolv!Undeprecate, openresolv!Deprecate
<1>5. openresolv!Finish => PlanKept
  <2>1. \A live : openresolv!Concluded(live) => PlanKept
    BY SharedKeepPlan, OpenShares, Zenon DEF openresolv!Concluded
  <2> QED BY <2>1, Zenon DEF openresolv!Finish
<1>6. openresolv!Rival => PlanKept
  BY SharedKeepPlan, OpenShares, Zenon DEF openresolv!Rival
<1>7. \/ PlanKept
      \/ \E p \in openresolv!Accepted(Requests, openresolv!Caps) :
            openresolv!BeginApply(p, {openresolv!Record(p)}, FALSE)
  BY <1>1, <1>2, <1>3, <1>4, <1>5, <1>6, SharedKeepPlan, OpenShares, Zenon DEF openresolv!Next
<1> QED BY <1>7, OpenShares, Zenon

LEMMA DirectPlans ==
    ASSUME Core, direct!Next
    PROVE  PlanKept \/ \E p : BeginApply(p, direct!Goal(p), FALSE)
<1>1. direct!Prepare => PlanKept
  BY SharedKeepPlan, DirectShares, Zenon DEF direct!Prepare, direct!CheckExpected
<1>2. direct!Stage \/ direct!VerifyExpected \/ direct!CheckUsable \/ direct!Reread => PlanKept
  BY SharedKeepPlan, DirectShares, Zenon
     DEF direct!Stage, direct!VerifyExpected, direct!CheckUsable, direct!Reread
<1>3. direct!Publish \/ direct!RemoveCurrent => PlanKept
  BY SharedKeepPlan, DirectShares, Zenon DEF direct!Publish, direct!RemoveCurrent
<1>4. direct!Rival => PlanKept
  BY SharedKeepPlan, DirectShares, Zenon DEF direct!Rival
<1>5. PlanKept \/ \E p : direct!BeginApply(p, direct!Goal(p), FALSE)
  BY <1>1, <1>2, <1>3, <1>4, SharedKeepPlan, DirectShares, Zenon DEF direct!Next
<1> QED BY <1>5, DirectShares, Zenon

LEMMA WindowsPlans ==
    ASSUME Core, windows!Next
    PROVE  \/ PlanKept
           \/ \E p \in windows!Accepted(Requests, windows!Caps) :
                 \/ kind = "windows" /\ BeginApply(p, {windows!InterfaceState(p)}, FALSE)
                 \/ kind = "nrpt" /\ BeginApply(p, {<<windows!Rule(p)>>}, FALSE)
<1>1. windows!ObserveInterface \/ windows!ReadInterface \/ windows!ObserveRule => PlanKept
  BY SharedKeepPlan, WindowsShares, Zenon
     DEF windows!ObserveInterface, windows!ReadInterface, windows!ObserveRule
<1>2. windows!SetInterface => PlanKept
  <2>1. \A from, ns, search, to : windows!SetStack(from, ns, search, to) => PlanKept
    BY SharedKeepPlan, WindowsShares, Zenon DEF windows!SetStack
  <2> QED BY <2>1, Zenon DEF windows!SetInterface
<1>3. windows!CheckRule \/ windows!RejectForeignRule => PlanKept
  BY SharedKeepPlan, WindowsShares, Zenon
     DEF windows!CheckRule, windows!RejectForeignRule, windows!CheckExpected
<1>4. windows!CreateKey => PlanKept
  BY SharedKeepPlan, WindowsShares, Zenon DEF windows!CreateKey
<1>5. windows!SetValue => PlanKept
  BY SharedKeepPlan, WindowsShares, Zenon DEF windows!SetValue
<1>6. windows!DeleteCreatedKey => PlanKept
  BY SharedKeepPlan, WindowsShares, Zenon DEF windows!DeleteCreatedKey
<1>7. windows!UpdateRule \/ windows!DeleteRule => PlanKept
  BY SharedKeepPlan, WindowsShares, Zenon DEF windows!UpdateRule, windows!DeleteRule
<1>8. windows!RivalInterface \/ windows!RivalRule => PlanKept
  BY SharedKeepPlan, WindowsShares, Zenon DEF windows!RivalInterface, windows!RivalRule
<1>9. \/ PlanKept
      \/ \E p \in windows!Accepted(Requests, windows!Caps) :
            \/ kind = "windows" /\ windows!BeginApply(p, {windows!InterfaceState(p)}, FALSE)
            \/ kind = "nrpt" /\ windows!BeginApply(p, {<<windows!Rule(p)>>}, FALSE)
  BY <1>1, <1>2, <1>3, <1>4, <1>5, <1>6, <1>7, <1>8, SharedKeepPlan, WindowsShares, Zenon
     DEF windows!Next
<1> QED BY <1>9, WindowsShares, Zenon

LEMMA MacPlans ==
    ASSUME Core, macos!Next
    PROVE  \/ PlanKept
           \/ \E p : \/ kind = "service" /\ BeginApply(p, {macos!ServiceDns(p)}, FALSE)
                     \/ /\ kind = "resolver"
                        /\ BeginApply(p, macos!ResolverGoal(p), lease.base.dns = <<>>)
<1>1. macos!Preflight \/ macos!ReadDictionary \/ macos!SetDictionary => PlanKept
  BY SharedKeepPlan, MacShares, Zenon DEF macos!Preflight, macos!ReadDictionary, macos!SetDictionary
<1>2. macos!ObserveFile \/ macos!Issue => PlanKept
  BY SharedKeepPlan, MacShares, Zenon DEF macos!ObserveFile, macos!Issue
<1>3. macos!FirstRead => PlanKept
  BY SharedKeepPlan, MacShares, Zenon DEF macos!FirstRead, macos!CheckExpected
<1>4. macos!SecondRead => PlanKept
  BY SharedKeepPlan, MacShares, Zenon DEF macos!SecondRead
<1>5. macos!Publish => PlanKept
  BY SharedKeepPlan, MacShares, Zenon DEF macos!Publish
<1>6. macos!RivalService \/ macos!RivalFile => PlanKept
  BY SharedKeepPlan, MacShares, Zenon DEF macos!RivalService, macos!RivalFile
<1>7. \/ PlanKept
      \/ \E p : \/ kind = "service" /\ macos!BeginApply(p, {macos!ServiceDns(p)}, FALSE)
                \/ /\ kind = "resolver"
                   /\ macos!BeginApply(p, macos!ResolverGoal(p), lease.base.dns = <<>>)
  BY <1>1, <1>2, <1>3, <1>4, <1>5, <1>6, SharedKeepPlan, MacShares, Zenon DEF macos!Next
<1> QED BY <1>7, MacShares, Zenon

-----------------------------------------------------------------------------
(* What an apply that succeeds leaves for snapshot to report. *)

\* What a state with these managed fields tells of the plan.
Tells(plan, dns) ==
    /\ kind = "resolved" =>
          Reports(resolved!PublicState(dns), plan, {"order", "root", "routing", "route"})
    /\ kind = "nm" => Reports(nm!PublicState(dns), plan, {"routing"})
    /\ kind \in {"direct", "bsd"} => Reports(direct!PublicState(dns), plan, {"order"})
    /\ kind = "windows" => Reports(windows!InterfacePublicState(dns), plan, {})
    /\ kind = "service" => Reports(macos!ServicePublicState(dns), plan, {"order"})
    /\ kind = "nrpt" =>
          LET seen == windows!RulePublicState(dns)
          IN seen.ns = plan.ns /\ seen.search = <<>> /\ seen.routing = Routed(plan)

\* Every state that a call may make out of its plan tells of it.
Told == call.op = "apply" => \A dns \in call.goal : Tells(call.plan, dns)

\* A call that performed undisturbed made such a state.
Reached == call.answer = "Performed" /\ ~call.disturbed => Boundary!Effect.dns \in call.goal

\* The live file that openresolv generates.
LiveData ==
    /\ native.rest \in ForeignConfs
    /\ call.op = "apply" => Proper(call.plan)
    /\ pc \in {"readback", "finish"} /\ loc.res = "ok" /\ ~call.disturbed /\ native.up =>
          native.id = openresolv!Generated(native.dns, native.rest)
    /\ call.op = "apply" /\ call.answer = "Performed" /\ ~call.disturbed =>
          \E others \in ForeignConfs :
             call.produced.id = openresolv!Generated(openresolv!Record(call.plan), others)

\* Detection chose a backend, and one that is unavailable takes no call.
Chosen ==
    /\ kind \in Backends \cup {"detecting"}
    /\ kind = "unavailable" => call.op = "none"

ToldInv == Chosen /\ Told /\ Reached /\ (kind = "openresolv" => LiveData)

\* The mappings tell, backend by backend.
LEMMA NewCallTells ==
    ASSUME Core, kind # "detecting", NEW p, NEW goal, NEW guarded \in BOOLEAN,
           BeginApply(p, goal, guarded), \A dns \in goal : Tells(p, dns)
    PROVE  Told'
<1>1. call'.plan = p /\ call'.goal = goal /\ UNCHANGED <<kind, aux>>
  BY BeginApplyStep
<1>2. \A dns : Tells(p, dns) => Tells(p, dns)'
  BY <1>1 DEF Tells
<1> QED BY <1>1, <1>2 DEF Told

LEMMA NewStateTells ==
    ASSUME Core, kind # "detecting", NEW p, NEW state, NEW guarded \in BOOLEAN,
           BeginApply(p, {state}, guarded), Tells(p, state)
    PROVE  Told'
<1> DEFINE goal == {state}
<1>1. \A dns \in goal : Tells(p, dns)
  OBVIOUS
<1>2. BeginApply(p, goal, guarded)
  OBVIOUS
<1> HIDE DEF goal
<1> QED BY <1>1, <1>2, NewCallTells

LEMMA KeptCallTells ==
    ASSUME Told, kind' = kind, PlanKept
    PROVE  Told'
BY DEF Told, PlanKept, Tells

LEMMA ToldStep ==
    ASSUME Core, Told, Next
    PROVE  Told'
<1>1. CASE SelectBackend
  <2>1. call = NoCall /\ call' = call
    BY <1>1 DEF SelectBackend, Core, Phases
  <2> QED BY <2>1, NoCallIs DEF Told
<1>2. CASE resolved!Next
  <2>1. kind = "resolved" /\ kind' = kind
    BY <1>2, KindKept DEF resolved!Next
  <2>2. ASSUME NEW p \in resolved!Plans,
               BeginApply(p, {resolved!Merged(p, r) : r \in {"yes", "no"}}, FALSE)
        PROVE  Told'
    <3>1. Proper(p)
      BY ResolvedMaps, ProperPlans DEF resolved!Plans
    <3>2. \A dns \in {resolved!Merged(p, r) : r \in {"yes", "no"}} : Tells(p, dns)
      BY <2>1, <3>1, ResolvedTells DEF Tells
    <3> QED BY <2>1, <2>2, <3>2, NewCallTells
  <2> QED BY <1>2, <2>1, <2>2, ResolvedPlans, KeptCallTells
<1>3. CASE nm!Next
  <2>1. kind = "nm" /\ kind' = kind
    BY <1>3, KindKept DEF nm!Next
  <2>2. ASSUME NEW p \in nm!Accepted(Requests, nm!Caps),
               BeginApply(p, {nm!NmFields(p, nm!SplitDns)}, TRUE)
        PROVE  Told'
    <3>1. Proper(p) /\ (p.routing # <<>> => nm!SplitDns = TRUE)
      <4>1. Proper(p) /\ (p.routing # <<>> => nm!Caps.split)
        BY NmMaps, ProperPlans
      <4>2. nm!Caps.split = nm!SplitDns
        BY DEF nm!Caps
      <4>3. nm!SplitDns \in BOOLEAN
        BY DEF nm!SplitDns
      <4> QED BY <4>1, <4>2, <4>3
    <3>2. Tells(p, nm!NmFields(p, nm!SplitDns))
      BY <2>1, <3>1, NmTells DEF Tells
    <3> QED BY <2>1, <2>2, <3>2, NewStateTells
  <2> QED BY <1>3, <2>1, <2>2, NmPlans, KeptCallTells
<1>4. CASE openresolv!Next
  <2>1. kind = "openresolv" /\ kind' = kind
    BY <1>4, KindKept DEF openresolv!Next
  <2>2. \A p, dns : Tells(p, dns)'
    BY <2>1 DEF Tells
  <2> QED BY <2>2 DEF Told
<1>5. CASE direct!Next
  <2>1. kind \in {"direct", "bsd"} /\ kind' = kind
    BY <1>5, KindKept DEF direct!Next
  <2>2. ASSUME NEW p, BeginApply(p, direct!Goal(p), FALSE)
        PROVE  Told'
    <3>1. \A dns \in direct!Goal(p) : Tells(p, dns)
      BY <2>1, DirectTells DEF Tells
    <3> QED BY <2>1, <2>2, <3>1, NewCallTells
  <2> QED BY <1>5, <2>1, <2>2, DirectPlans, KeptCallTells
<1>6. CASE windows!Next
  <2>1. kind \in {"windows", "nrpt"} /\ kind' = kind
    BY <1>6, KindKept DEF windows!Next
  <2>2. ASSUME NEW p \in windows!Accepted(Requests, windows!Caps)
        PROVE  Proper(p)
    BY WindowsMaps, ProperPlans
  <2>3. ASSUME NEW p \in windows!Accepted(Requests, windows!Caps), kind = "windows",
               BeginApply(p, {windows!InterfaceState(p)}, FALSE)
        PROVE  Told'
    <3>1. Tells(p, windows!InterfaceState(p))
      BY <2>2, <2>3, WindowsTells DEF Tells
    <3> QED BY <2>1, <2>3, <3>1, NewStateTells
  <2>4. ASSUME NEW p \in windows!Accepted(Requests, windows!Caps), kind = "nrpt",
               BeginApply(p, {<<windows!Rule(p)>>}, FALSE)
        PROVE  Told'
    <3>1. Tells(p, <<windows!Rule(p)>>)
      BY <2>2, <2>4, RuleTells DEF Tells
    <3> QED BY <2>1, <2>4, <3>1, NewStateTells
  <2> QED BY <1>6, <2>1, <2>3, <2>4, WindowsPlans, KeptCallTells
<1>7. CASE macos!Next
  <2>1. kind \in {"service", "resolver"} /\ kind' = kind
    BY <1>7, KindKept DEF macos!Next
  <2>2. ASSUME NEW p, kind = "service", BeginApply(p, {macos!ServiceDns(p)}, FALSE)
        PROVE  Told'
    <3>1. Tells(p, macos!ServiceDns(p))
      BY <2>2, ServiceTells DEF Tells
    <3> QED BY <2>1, <2>2, <3>1, NewStateTells
  <2>3. ASSUME NEW p, kind = "resolver",
               BeginApply(p, macos!ResolverGoal(p), lease.base.dns = <<>>)
        PROVE  Told'
    <3>1. \A dns \in macos!ResolverGoal(p) : Tells(p, dns)
      BY <2>3 DEF Tells
    <3>2. (lease.base.dns = <<>>) \in BOOLEAN
      OBVIOUS
    <3> QED BY <2>1, <2>3, <3>1, <3>2, NewCallTells
  <2> QED BY <1>7, <2>1, <2>2, <2>3, MacPlans, KeptCallTells
<1> QED BY <1>1, <1>2, <1>3, <1>4, <1>5, <1>6, <1>7 DEF Next

LEMMA ReachedStep ==
    ASSUME Core, Core', Reached, Kept
    PROVE  Reached'
<1>1. CASE UNCHANGED Boundary!vars
  BY <1>1 DEF Boundary!vars, Reached, Boundary!Effect
<1>2. CASE Boundary!Begin \/ Boundary!Forget
  BY <1>2 DEF Boundary!Begin, Boundary!Forget, Reached
<1>3. CASE Boundary!Other
  <2>1. SameCall /\ call'.wrote = call.wrote /\ call'.made = call.made
        /\ call'.answer = call.answer /\ (call'.disturbed = (call.disturbed \/ call.running))
    BY <1>3 DEF Boundary!Other, Core, Shapes, Rec, CallFields, SameCall
  <2> QED BY <2>1 DEF Reached, Boundary!Effect, SameCall
<1>4. CASE Boundary!Check \/ Boundary!Write
  <2>1. call.running /\ call'.answer = call.answer
    BY <1>4 DEF Boundary!Check, Boundary!Write, Core, Shapes, Rec, CallFields
  <2>2. call.answer = "none"
    BY <2>1 DEF Core, Phases
  <2> QED BY <2>1, <2>2 DEF Reached
<1>5. CASE Boundary!Answer
  <2>1. /\ call' = [call EXCEPT !.running = FALSE, !.answer = call'.answer, !.produced = call'.produced]
        /\ call'.answer = "Performed" => Boundary!Effect.dns \in call.goal \/ call.disturbed
    BY <1>5 DEF Boundary!Answer
  <2>2. SameCall /\ call'.wrote = call.wrote /\ call'.made = call.made
        /\ call'.disturbed = call.disturbed
    BY <2>1 DEF Core, Shapes, Rec, CallFields, SameCall
  <2> QED BY <2>1, <2>2 DEF Reached, Boundary!Effect, SameCall
<1> QED BY <1>1, <1>2, <1>3, <1>4, <1>5 DEF Kept, Boundary!Next

LEMMA ChosenStep ==
    ASSUME NativeInv, Chosen, Next
    PROVE  Chosen'
<1>1. CASE SelectBackend
  <2>1. aux \in Hosts /\ kind' \in Selected(aux) /\ call' = call /\ call.op = "none"
    BY <1>1, NoCallIs DEF SelectBackend, NativeInv, Core, Phases, Data
  <2> QED BY <2>1, SelectedIs DEF Chosen
<1>2. CASE resolved!Next \/ nm!Next \/ openresolv!Next \/ direct!Next \/ windows!Next \/ macos!Next
  <2>1. kind' = kind /\ kind # "unavailable"
    BY <1>2, KindKept DEF resolved!Next, nm!Next, openresolv!Next, direct!Next, windows!Next,
       macos!Next
  <2> QED BY <2>1 DEF Chosen
<1> QED BY <1>1, <1>2 DEF Next

\* What a step leaves of these facts when it neither touches the resource nor
\* lets a run of the command succeed.
LEMMA LiveFrame ==
    ASSUME LiveData, UNCHANGED native, PlanKept,
           pc' \notin {"readback", "finish"},
           \/ call'.answer # "Performed"
           \/ call'.answer = call.answer /\ call'.disturbed = call.disturbed
              /\ call'.produced = call.produced
    PROVE  LiveData'
BY DEF LiveData, PlanKept

LEMMA LiveStep ==
    ASSUME Core, RecordData, LiveData, openresolv!Next
    PROVE  LiveData'
<1>1. ASSUME NEW p \in openresolv!Accepted(Requests, openresolv!Caps),
             BeginApply(p, {openresolv!Record(p)}, FALSE)
      PROVE  LiveData'
  <2>1. Begin("apply", lease.base, p, NoState, {openresolv!Record(p)}, FALSE)
    BY <1>1 DEF BeginApply
  <2>2. call'.op = "apply" /\ call'.plan = p /\ call'.answer = "none"
    BY <2>1, BeginFields
  <2>3. pc' = "status" /\ UNCHANGED native
    BY <2>1 DEF Begin
  <2>4. Proper(p)
    BY OpenMaps, ProperPlans
  <2> QED BY <2>2, <2>3, <2>4 DEF LiveData
<1>2. CASE openresolv!BeginRestore(openresolv!Before, FALSE)
  <2>1. BeginRestore(openresolv!Before, FALSE)
    BY <1>2, OpenShares, Zenon
  <2>2. Begin("restore", lease.evidence, NoState, lease.base, openresolv!Before, FALSE)
    BY <2>1 DEF BeginRestore
  <2>3. call'.op = "restore" /\ call'.answer = "none"
    BY <2>2, BeginFields
  <2>4. pc' = "status" /\ UNCHANGED native
    BY <2>2 DEF Begin
  <2> QED BY <2>3, <2>4 DEF LiveData
<1>3. CASE openresolv!Verify
  <2>1. Verify
    BY <1>3, OpenShares, Zenon
  <2>2. UNCHANGED <<native, pc>> /\ pc = "idle" /\ (call' = NoCall \/ call' = call)
    BY <2>1, VerifyFacts
  <2> QED BY <2>2, NoCallIs DEF LiveData
<1>4. CASE openresolv!EndRestore
  <2>1. EndRestore
    BY <1>4, OpenShares, Zenon
  <2> QED BY <2>1, EndRestoreFacts, NoCallIs DEF LiveData
<1>5. CASE openresolv!Observe
  <2>1. Observe
    BY <1>5, OpenShares, Zenon
  <2>2. UNCHANGED <<native, call, pc, loc>>
    BY <2>1 DEF Observe
  <2> QED BY <2>2 DEF LiveData
<1>6. CASE openresolv!ReadRecord("status", "live") \/ openresolv!ReadRecord("readback", "finish")
  <2>1. /\ UNCHANGED <<native, call>> /\ loc' = [loc EXCEPT !.cur = native.dns]
        /\ \/ pc = "status" /\ pc' = "live"
           \/ pc = "readback" /\ pc' = "finish"
    BY <1>6 DEF openresolv!ReadRecord
  <2>2. loc'.res = loc.res
    BY <2>1 DEF Core, Shapes, Rec
  <2> QED BY <2>1, <2>2 DEF LiveData
<1>7. ASSUME NEW answer, answer # "Performed", Answer(answer, NoState), UNCHANGED native
      PROVE  LiveData'
  <2>1. call'.answer # "Performed" /\ pc' = "idle"
    BY <1>7, AnswerFacts
  <2>2. PlanKept
    BY <1>7, SharedKeepPlan
  <2> QED BY <1>7, <2>1, <2>2, LiveFrame
<1>8. CASE openresolv!RecordUnreadable("status", "Rejected")
           \/ openresolv!RecordUnreadable("readback", "Indeterminate")
  <2>1. UNCHANGED native /\ (Answer("Rejected", NoState) \/ Answer("Indeterminate", NoState))
    BY <1>8, OpenShares DEF openresolv!RecordUnreadable
  <2> QED BY <1>7, <2>1
<1>9. CASE openresolv!CheckLive
  <2>1. UNCHANGED native /\ (Confirmed("command") \/ Answer("Rejected", NoState))
    BY <1>9, OpenShares, Zenon DEF openresolv!CheckLive, openresolv!CheckExpected
  <2>2. CASE Confirmed("command")
    <3>1. pc' = "command" /\ call'.answer = call.answer /\ call'.disturbed = call.disturbed
          /\ call'.produced = call.produced
      BY <2>2, ConfirmedFacts
    <3>2. PlanKept
      BY <2>2, SharedKeepPlan
    <3> QED BY <2>1, <3>1, <3>2, LiveFrame
  <2> QED BY <1>7, <2>1, <2>2
<1>10. ASSUME NEW from \in {"command", "undeprecate", "deprecate"}, NEW record, NEW to,
              openresolv!Run(from, record, to)
       PROVE  LiveData'
  <2>1. pc = from
    BY <1>10 DEF openresolv!Run
  <2>2. call.running /\ call.answer = "none"
    BY <2>1 DEF Core, Phases, Resting, Observing
  <2>3. call' = call \/ \E r : Wrote(r)
    BY <1>10, OpenShares, Zenon DEF openresolv!Run
  <2>4. call'.answer = "none" /\ PlanKept
    BY <2>2, <2>3, WroteFacts, SharedKeepPlan
  <2>5. native'.rest = native.rest
    <3>1. \/ native' = native \/ native' = openresolv!Resolvconf(record)
          \/ native' = [native EXCEPT !.dns = record]
          \/ native' = [native EXCEPT !.dns.metric = record.metric]
      BY <1>10, Zenon DEF openresolv!Run, openresolv!Wrote
    <3> QED BY <3>1 DEF openresolv!Resolvconf, Core, Shapes, Rec, ResourceFields
  <2>6. loc'.res = "ok" /\ native'.up => native'.id = openresolv!Generated(native'.dns, native'.rest)
    <3>1. \/ native' = openresolv!Resolvconf(record)
          \/ loc' = [loc EXCEPT !.res = "err"]
      BY <1>10, Zenon DEF openresolv!Run, openresolv!Wrote, openresolv!Failed
    <3>2. loc' = [loc EXCEPT !.res = "err"] => loc'.res = "err"
      BY DEF Core, Shapes, Rec
    <3>3. native' = openresolv!Resolvconf(record) =>
             native'.dns = record /\ native'.up = native.up
             /\ (native.up => native'.id = openresolv!Generated(record, native.rest))
      BY DEF openresolv!Resolvconf, Core, Shapes, Rec, ResourceFields
    <3> QED BY <2>5, <3>1, <3>2, <3>3
  <2> QED BY <2>4, <2>5, <2>6 DEF LiveData, PlanKept
<1>11. CASE openresolv!Add \/ openresolv!Delete \/ openresolv!Undeprecate \/ openresolv!Deprecate
  BY <1>10, <1>11 DEF openresolv!Add, openresolv!Delete, openresolv!Undeprecate,
     openresolv!Deprecate
<1>12. CASE openresolv!Finish
  <2>1. pc = "finish" /\ UNCHANGED native
    BY <1>12 DEF openresolv!Finish
  <2>2. ASSUME NEW live, openresolv!Concluded(live), live = NoState \/ (native.up /\ live = native.id)
        PROVE  LiveData'
    <3> DEFINE wanted == IF call.op = "apply" THEN openresolv!Record(call.plan)
                         ELSE call.target.dns
    <3>1. PICK a, s : /\ Answer(a, s)
                      /\ a = "Performed" => /\ loc.res = "ok" /\ loc.cur = wanted
                                            /\ call.op = "restore" \/ live # NoState
                                            /\ s = [id |-> live, dns |-> loc.cur]
      <4>1. PICK a, s : /\ openresolv!Answer(a, s)
                        /\ a = "Performed" => /\ loc.res = "ok" /\ loc.cur = wanted
                                              /\ call.op = "restore" \/ live # NoState
                                              /\ s = [id |-> live, dns |-> loc.cur]
        BY <2>2 DEF openresolv!Concluded
      <4> QED BY <4>1, OpenShares, Zenon
    <3>2. SameCall /\ call'.answer = a /\ call'.produced = s /\ pc' = "idle"
          /\ call'.disturbed = call.disturbed
      BY <3>1, AnswerFacts
    <3>3. PlanKept
      BY <3>1, SharedKeepPlan
    <3>4. CASE a = "Performed" /\ call.op = "apply" /\ ~call.disturbed
      <4>1. native.up /\ s.id = native.id /\ loc.cur = openresolv!Record(call.plan)
        BY <2>2, <3>1, <3>4
      <4>2. loc.cur = native.dns
        BY <2>1, <3>4 DEF RecordData
      <4>3. native.id = openresolv!Generated(native.dns, native.rest)
        BY <2>1, <3>1, <3>4, <4>1 DEF LiveData
      <4> QED BY <2>1, <3>2, <4>1, <4>2, <4>3 DEF LiveData, SameCall
    <3>5. CASE ~(a = "Performed" /\ call.op = "apply" /\ ~call.disturbed)
      BY <2>1, <3>2, <3>5 DEF LiveData, SameCall
    <3> QED BY <3>4, <3>5
  <2>3. \E live : openresolv!Concluded(live) /\ (live = NoState \/ (native.up /\ live = native.id))
    BY <1>12, Zenon DEF openresolv!Finish
  <2> QED BY <2>2, <2>3
<1>13. CASE openresolv!Rival
  <2>1. ASSUME NEW r, openresolv!Foreign(r), r.rest \in ForeignConfs
        PROVE  LiveData'
    <3>1. Foreign(r)
      BY <2>1, OpenShares, Zenon
    <3>2. /\ SameCall /\ call'.answer = call.answer /\ call'.produced = call.produced
          /\ call'.disturbed = (call.disturbed \/ call.running) /\ native' = r /\ pc' = pc
      BY <3>1, ForeignFacts
    <3>3. pc \in {"readback", "finish"} => call.running
      BY DEF Core, Phases, Resting, Observing
    <3>4. call.disturbed \in BOOLEAN /\ call.running \in BOOLEAN
      BY DEF Core, Shapes
    <3> QED BY <2>1, <3>2, <3>3, <3>4 DEF LiveData, SameCall
  <2>2. native.rest \in ForeignConfs
    BY DEF LiveData
  <2>3. ASSUME NEW o \in ForeignConfs, openresolv!Foreign([native EXCEPT !.rest = o,
             !.id = IF native.up THEN openresolv!Generated(native.dns, o) ELSE @])
        PROVE  LiveData'
    <3> DEFINE r == [native EXCEPT !.rest = o,
             !.id = IF native.up THEN openresolv!Generated(native.dns, o) ELSE @]
    <3>1. r.rest \in ForeignConfs
      BY DEF Core, Shapes, Rec, ResourceFields
    <3> HIDE DEF r
    <3>2. openresolv!Foreign(r)
      BY <2>3, Zenon DEF r
    <3> QED BY <2>1, <3>1, <3>2
  <2>4. ASSUME NEW record, openresolv!Foreign(openresolv!Resolvconf(record))
        PROVE  LiveData'
    <3> DEFINE r == openresolv!Resolvconf(record)
    <3>1. r.rest \in ForeignConfs
      BY <2>2 DEF openresolv!Resolvconf, Core, Shapes, Rec, ResourceFields
    <3> HIDE DEF r
    <3>2. openresolv!Foreign(r)
      BY <2>4, Zenon DEF r
    <3> QED BY <2>1, <3>1, <3>2
  <2>5. ASSUME openresolv!Foreign([native EXCEPT !.id.ns = <<>>])
        PROVE  LiveData'
    <3> DEFINE r == [native EXCEPT !.id.ns = <<>>]
    <3>1. r.rest \in ForeignConfs
      BY <2>2 DEF Core, Shapes, Rec, ResourceFields
    <3> HIDE DEF r
    <3>2. openresolv!Foreign(r)
      BY <2>5, Zenon DEF r
    <3> QED BY <2>1, <3>1, <3>2
  <2>6. ASSUME openresolv!Foreign([native EXCEPT !.up = FALSE])
        PROVE  LiveData'
    <3> DEFINE r == [native EXCEPT !.up = FALSE]
    <3>1. r.rest \in ForeignConfs
      BY <2>2 DEF Core, Shapes, Rec, ResourceFields
    <3> HIDE DEF r
    <3>2. openresolv!Foreign(r)
      BY <2>6, Zenon DEF r
    <3> QED BY <2>1, <3>1, <3>2
  <2> QED BY <1>13, <2>3, <2>4, <2>5, <2>6, Zenon DEF openresolv!Rival
<1>14. CASE openresolv!Crash
  <2>1. Crash
    BY <1>14, OpenShares, Zenon
  <2> QED BY <2>1, CrashFacts, NoCallIs DEF LiveData
<1>15. ASSUME NEW p \in openresolv!Accepted(Requests, openresolv!Caps),
              openresolv!BeginApply(p, {openresolv!Record(p)}, FALSE)
       PROVE  LiveData'
  <2>1. BeginApply(p, {openresolv!Record(p)}, FALSE)
    BY <1>15, OpenShares, Zenon
  <2> QED BY <1>1, <2>1
<1> QED
  BY <1>2, <1>3, <1>4, <1>5, <1>6, <1>8, <1>9, <1>11, <1>12, <1>13, <1>14, <1>15, Zenon
  DEF openresolv!Next

\* The file that openresolv generates has what the plan asks for in front.
LEMMA LiveTells ==
    ASSUME NEW plan, Proper(plan), NEW others \in ForeignConfs
    PROVE  LET seen == openresolv!PublicState(
                          openresolv!Generated(openresolv!Record(plan), others))
           IN /\ StartsWith(seen.ns, plan.ns)
              /\ StartsWith(seen.search, Without(plan.search, {Root}))
<1> DEFINE seen == openresolv!PublicState(
                      openresolv!Generated(openresolv!Record(plan), others))
           search == Without(plan.search, {Root})
<1>1. /\ plan.ns \in Seq(V4 \cup V6) /\ Once(plan.ns) /\ others.ns \in Seq(V4 \cup V6)
      /\ plan.search \in Seq(Domains) /\ Once(plan.search) /\ others.search \in Seq(Domains)
  BY ForeignConfsAssumption DEF Proper
<1>2. seen.ns = Distinct(plan.ns \o others.ns) /\ seen.search = Distinct(search \o others.search)
  <2>1. openresolv!Record(plan).content = <<openresolv!ResolvConf(plan)>>
        /\ openresolv!Record(plan).deprecated = FALSE
    BY DEF openresolv!Record
  <2>2. <<openresolv!ResolvConf(plan)>> # <<>> /\ openresolv!ResolvConf(plan).ns = plan.ns
        /\ openresolv!ResolvConf(plan).search = search
    BY OpenMaps DEF openresolv!ResolvConf
  <2> HIDE DEF search
  <2>3. openresolv!Generated(openresolv!Record(plan), others).ns
           = openresolv!Distinct(plan.ns \o others.ns)
    BY <2>1, <2>2 DEF openresolv!Generated
  <2>4. openresolv!Generated(openresolv!Record(plan), others).search
           = openresolv!Distinct(search \o others.search)
    BY <2>1, <2>2 DEF openresolv!Generated
  <2> QED BY <2>3, <2>4, OpenMaps DEF openresolv!PublicState
<1>3. search \in Seq(Domains) /\ Once(search)
  BY <1>1, WithoutIs
<1> HIDE DEF seen, search
<1>4. StartsWith(Distinct(plan.ns \o others.ns), plan.ns)
  BY <1>1, DistinctStarts
<1>5. StartsWith(Distinct(search \o others.search), search)
  BY <1>1, <1>3, DistinctStarts
<1> QED BY <1>2, <1>4, <1>5 DEF seen, search

-----------------------------------------------------------------------------
(* The theorems. *)

(***************************************************************************)
(* The invariant of a host with any of its backends: what the place in a   *)
(* bound mutation (apply_bound, restore_bound) says of the resource, of    *)
(* what was captured and of the native state the backend works with.       *)
(***************************************************************************)
THEOREM NativeInvariant == Spec => []NativeInv
<1>1. NativeInv /\ [Next]_vars => NativeInv'
  BY NativeStep, NativeStutter
<1> QED BY <1>1, NativeInit, PTL DEF Spec

(***************************************************************************)
(* Every backend implements the contract of bound mutations that the       *)
(* transaction engine relies on (apply_bound and restore_bound of the      *)
(* Backend trait, src/src/platform/mod.rs): a call that rejects has not    *)
(* written, one that performs has reached its goal unless another program  *)
(* acted, a guarded one writes over the expected state only, and an        *)
(* identity that a call issues names the state the call made.              *)
(***************************************************************************)
THEOREM NativeContract == Spec => Contract
<1>1. Init => Boundary!Init
  BY NoCallIs DEF Init, CallInit, Boundary!Init
<1>2. NativeInv /\ [Next]_vars => [Boundary!Next]_(Boundary!vars)
  BY NativeStep, NativeStutter DEF Kept
<1> QED BY <1>1, <1>2, NativeInvariant, PTL DEF Spec, Contract, Boundary!Spec

(***************************************************************************)
(* A restore that succeeds gives back what the engine observed, whichever  *)
(* the backend, if nobody else touched the resource meanwhile: restore of  *)
(* the backends, and the capture their snapshots are taken with.           *)
(***************************************************************************)
THEOREM RestoresGiveBack == Spec => []GivesBack
<1>1. NativeInv => GivesBack
  <2> SUFFICES ASSUME NativeInv, call.op = "restore", call.answer = "Performed", ~moved
               PROVE  native.dns = first.dns /\ native.rest = first.rest
    BY DEF GivesBack
  <2>1. /\ lease # NoLease /\ lease.base # NoState
        /\ lease.base.dns = first.dns /\ native.rest = first.rest
    BY DEF NativeInv, Core, Bound, Faithful
  <2>2. native.dns = lease.base.dns
    <3>1. CASE kind = "bsd"
      BY <3>1, DirectRestores DEF NativeInv, Data
    <3>2. CASE kind # "bsd"
      BY <3>2 DEF NativeInv, Core, Faithful
    <3> QED BY <3>1, <3>2
  <2> QED BY <2>1, <2>2
<1> QED BY <1>1, NativeInvariant, PTL

(***************************************************************************)
(* No step of osdns changes what is not its own: the unmanaged fields of   *)
(* the resource, another owner's rule, resolver file or resolv.conf        *)
(* ("restoration never destroys changes made by other actors to unmanaged  *)
(* fields", src/src/platform/mod.rs), but for a change made within a call  *)
(* on a backend without a native guard.                                    *)
(***************************************************************************)
THEOREM UnmanagedSpared == Spec => UnmanagedKept
<1> DEFINE Kindly == (kind # "detecting" /\ events' = events /\ (call.disturbed => call.guarded))
       => /\ native'.rest = native.rest
          /\ Occupied => native'.dns = native.dns /\ native'.up = native.up
<1>1. NativeInv /\ [Next]_vars => [Kindly]_vars
  BY NativeStep DEF Kept, Spared
<1> QED BY <1>1, NativeInvariant, PTL DEF Spec, UnmanagedKept

(***************************************************************************)
(* However write_rule is cut short, and whoever deletes or replaces the    *)
(* key meanwhile, an NRPT rule of ours that is in effect is complete       *)
(* (write_rule_values, src/src/platform/windows/nrpt.rs).                  *)
(***************************************************************************)
THEOREM RulesWhole == Spec => []NoHalfRule
<1>1. NativeInv => NoHalfRule
  BY DEF NativeInv, Data, RuleData, NoHalfRule
<1> QED BY <1>1, NativeInvariant, PTL

(***************************************************************************)
(* Detection hands /etc/resolv.conf to a direct backend only on a host     *)
(* where no other manager generates it (select,                            *)
(* src/src/platform/linux/detect.rs and src/src/platform/bsd/mod.rs).      *)
(***************************************************************************)
THEOREM DirectAlone == Spec => NoSecondWriter
<1>1. ASSUME NEW host \in Hosts, NEW k \in Selected(host), k \in {"direct", "bsd"}
      PROVE  ~Generates(host)
  <2>1. CASE host \in LinuxHosts
    <3>1. host.os = "linux" /\ host.entry \in Entries /\ (host.mode = "absent" <=> host.rc = "none")
          /\ host.resolved \in {"absent", "stub", "foreign"}
          /\ host.rc \in {"none", "file", "resolvconf", "unmanaged"}
      BY <2>1 DEF LinuxHosts
    <3>2. SelectLinux(host) \in {"direct", "bsd"}
      BY <1>1, <3>1 DEF Selected
    <3>3. /\ ~ViaResolved(host) /\ ~Delegated(host) /\ ~NmOwnsDirectly(host)
          /\ ByOwner(host) \in {"direct", "bsd"}
      BY <3>2 DEF SelectLinux, Probed
    <3>4. ResolvConfOwner(host.entry) \in {"Unmanaged", "Missing"} /\ ~host.blocks
      BY <3>3 DEF ByOwner, Probed, Direct
    <3>5. host.entry \in {"plain", "missing"}
      BY <3>1, <3>4 DEF ResolvConfOwner, Classify, Entries
    <3> QED BY <3>1, <3>3, <3>4, <3>5 DEF Generates, ViaResolved, Delegated, NmOwnsDirectly
  <2>2. CASE host \in BsdHosts
    <3>1. host.os = "bsd" /\ host.entry \in Entries
      BY <2>2 DEF BsdHosts
    <3>2. SelectBsd(host) \in {"direct", "bsd"}
      BY <1>1, <3>1 DEF Selected
    <3>3. Classify(host.entry) \in {"Unmanaged", "Missing"} /\ ~host.blocks
      BY <3>2 DEF SelectBsd, Probed, Direct
    <3>4. host.entry \in {"plain", "missing"}
      BY <3>1, <3>3 DEF Classify, Entries
    <3> QED BY <3>1, <3>3, <3>4 DEF Generates
  <2>3. CASE host \in [os : {"windows", "macos"}]
    BY <1>1, <2>3 DEF Selected
  <2> QED BY <2>1, <2>2, <2>3 DEF Hosts
<1>2. NativeInv /\ [Next]_vars =>
         [(kind = "detecting" /\ kind' \in {"direct", "bsd"}) => ~Generates(aux)]_vars
  <2> SUFFICES ASSUME NativeInv, Next, kind = "detecting", kind' \in {"direct", "bsd"}
               PROVE  ~Generates(aux)
    OBVIOUS
  <2>1. SelectBackend
    BY KindKept DEF Next
  <2> QED BY <1>1, <2>1 DEF SelectBackend, NativeInv, Data
<1> QED BY <1>2, NativeInvariant, PTL DEF Spec, NoSecondWriter

(***************************************************************************)
(* After an apply that succeeds undisturbed, public_state reports what the *)
(* native form of the backend keeps, whatever the plan: the way through    *)
(* the form and back (resolved_domains_from_plan and                       *)
(* resolved_domains_to_public, NmDnsFields::from_plan and                  *)
(* parse_nm_search_entries, build_resolv_conf_content, the NRPT rule)      *)
(* keeps the kind and the order of domains, and the order of servers where *)
(* a backend has one list of them; NetworkManager and the adapters of      *)
(* Windows keep it within each family. The resolver files of macOS, of     *)
(* which public_state reports nothing, are left out.                       *)
(***************************************************************************)
THEOREM ReportsTruly == Spec => []Reported
<1>1. Init => ToldInv
  <2> SUFFICES ASSUME Init PROVE ToldInv
    OBVIOUS
  <2>1. call = NoCall /\ kind = "detecting"
    BY DEF Init, CallInit
  <2> QED BY <2>1, NoCallIs DEF ToldInv, Chosen, Told, Reached
<1>2. NativeInv /\ NativeInv' /\ ToldInv /\ [Next]_vars => ToldInv'
  <2> SUFFICES ASSUME NativeInv, NativeInv', ToldInv, [Next]_vars PROVE ToldInv'
    OBVIOUS
  <2>1. Core /\ Core' /\ Data
    BY DEF NativeInv
  <2>2. Kept
    BY NativeStep, NativeStutter
  <2>3. Reached'
    BY <2>1, <2>2, ReachedStep DEF ToldInv
  <2>4. CASE Next
    <3>1. Told'
      BY <2>1, <2>4, ToldStep DEF ToldInv
    <3>2. Chosen'
      BY <2>4, ChosenStep DEF ToldInv
    <3>3. kind' = "openresolv" => LiveData'
      <4>1. CASE openresolv!Next
        <5>1. kind = "openresolv"
          BY <4>1 DEF openresolv!Next
        <5> QED BY <2>1, <4>1, <5>1, LiveStep DEF ToldInv, Data
      <4>2. CASE SelectBackend /\ kind' = "openresolv"
        <5>1. UNCHANGED <<call, pc, loc>> /\ call = NoCall /\ pc = "idle"
          BY <2>1, <4>2 DEF SelectBackend, Core, Phases
        <5>2. PICK f \in openresolv!Initial : native' = f.native
          <6>1. Found("openresolv") = openresolv!Initial
            BY Zenon DEF Found
          <6> QED BY <4>2, <6>1 DEF SelectBackend
        <5>3. native'.rest \in ForeignConfs
          BY <5>2 DEF openresolv!Initial
        <5> QED BY <5>1, <5>3, NoCallIs DEF LiveData
      <4>3. CASE nm!Next \/ resolved!Next \/ direct!Next \/ windows!Next \/ macos!Next
        <5>1. kind' = kind /\ kind # "openresolv"
          BY <4>3, KindKept DEF nm!Next, resolved!Next, direct!Next, windows!Next, macos!Next
        <5> QED BY <5>1
      <4> QED BY <2>4, <4>1, <4>2, <4>3 DEF Next
    <3> QED BY <2>3, <3>1, <3>2, <3>3 DEF ToldInv
  <2>5. CASE UNCHANGED vars
    BY <2>3, <2>5 DEF vars, ToldInv, Chosen, Told, Tells, LiveData
  <2> QED BY <2>4, <2>5
<1>3. NativeInv /\ ToldInv => Reported
  <2> SUFFICES ASSUME NativeInv, ToldInv, call.op = "apply", call.answer = "Performed",
                      ~call.disturbed, kind # "resolver"
               PROVE  Reported
    BY DEF Reported, Applied
  <2>1. Tells(call.plan, Boundary!Effect.dns)
    BY DEF ToldInv, Told, Reached
  <2>2. kind = "openresolv" =>
           LET seen == openresolv!PublicState(call.produced.id)
           IN /\ StartsWith(seen.ns, call.plan.ns)
              /\ StartsWith(seen.search, Without(call.plan.search, {Root}))
    <3> SUFFICES ASSUME kind = "openresolv"
                 PROVE  LET seen == openresolv!PublicState(call.produced.id)
                        IN /\ StartsWith(seen.ns, call.plan.ns)
                           /\ StartsWith(seen.search, Without(call.plan.search, {Root}))
      OBVIOUS
    <3>1. Proper(call.plan)
      BY DEF ToldInv, LiveData
    <3>2. PICK others \in ForeignConfs :
             call.produced.id = openresolv!Generated(openresolv!Record(call.plan), others)
      BY DEF ToldInv, LiveData
    <3> QED BY <3>1, <3>2, LiveTells
  <2>3. kind \in Backends \ {"unavailable"}
    BY NoCallIs DEF ToldInv, Chosen, NativeInv, Core, Phases
  <2> QED BY <2>1, <2>2, <2>3 DEF Reported, Tells, Routed, Backends
<1>4. Spec => []ToldInv
  BY <1>1, <1>2, NativeInvariant, PTL DEF Spec
<1> QED BY <1>3, <1>4, NativeInvariant, PTL

=============================================================================
