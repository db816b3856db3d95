# A verification project for osdns

osdns changes the DNS configuration of a host on behalf of a program (a VPN
client, an agent) and promises to give the old configuration back: after the
program asks, after it crashes, and without ever overwriting what another
program configured in the meantime. This directory holds TLA+ models of the
parts that keep this promise, TLC runs that check them on small instances, and
TLAPS proofs for all instances.

## 1. The system

| Part | Source | State | Operations |
|---|---|---|---|
| Transaction engine | `manager.rs`, `lease.rs` | per lease and resource a `LiveRecord` (journal record plus `LiveState`), the lease's phase | `apply`, `update`, `restore`, `abandon`, `Drop`, `recover_stale`, `abandon_journal` |
| Journal | `journal.rs` | one file per lease and resource: `Prepared` or `Applied`, the state before, the plan, the applied identity | `write`, `remove`, `records` |
| Locks | `ownership.rs` | lock files, a registry per process | `acquire`, `acquire_all`, `try_acquire`, `Drop` |
| Backend boundary | `platform/mod.rs`, `platform/fake.rs` and the native backends | the native resource | `observe`, `readback`, `resource_status`, `apply_bound`, `restore_bound` |
| Reconciler | `reconciliation.rs` | active leases, tokens, pending entries, circuit breaker | worker loop, `reconcile_resource`, `notify` |
| Enforce observation | `manager.rs` (`EnforceState`) | reference count, watch handle, feed, retry time | `ensure_`, `release_`, `refresh_enforce_watch`, `rescan_enforce` |
| Public watch | `watch.rs` | pending events, suppression registry | coalescing callback, flush, stop |
| Configuration | `config.rs`, `normalize.rs`, `capability.rs` | none | build, validate, normalize |
| Native backends | `platform/**` | none of their own: a link, a connection, a record, a file, an adapter, a registry key | `capture`, `apply_bound`, `restore_bound`, `resource_status` of resolved, NetworkManager, openresolv, resolv.conf, macOS, Windows |
| Backend detection | `platform/*/detect.rs`, `bsd/mod.rs` | none | classify `/etc/resolv.conf`, select a backend |
| Native watchers | `linux/watch.rs`, `bsd/watch.rs`, `macos/watch.rs`, `windows/notify.rs`, the D-Bus signals | a native subscription, what it has seen | report, re-arm, rescan, stop |

How they interact. `apply` locks its resources, settles what an earlier process
left in the journal, reads the current state, makes its intent durable
(`Prepared`), mutates, verifies by read-back and makes the result durable
(`Applied`). `update` does the same from the applied state. `restore` and the
reconciler compare the current state with the applied identity before they
write. The backend tells the engine whether a state is *ours*: durably, by an
identity it issued with the write, or by best effort, by comparing DNS values;
and whether a comparison and a write are one native operation
(compare-and-mutate) or two. Under `Enforce` a worker thread reconciles
resources that change; it shares the live records with the lease's own calls
and is kept apart from them by a token per resource.

What is hard in it:

* every native and journal call can fail, may or may not have taken effect, and
  is a point where the process may die;
* other programs write to the same resource at any time, including the very
  configuration osdns would write;
* a rollback can fail and has to be resumed by another call, or by another
  process;
* locks, tokens, the active map and the pending entry are separate objects, and
  a lease, its successor and the worker take them in different orders;
* the last event of a burst, and a change during a watch restart, must not be
  lost;
* a lease spans several resources, and one of them may fail half way through;
* no native interface changes a configuration in one operation: three D-Bus
  calls, two IP stacks, five registry values, a staged file and a rename.

`PROJECT.json` lists these as hazards, at the line where each one bites.

What makes each part correct:

* engine: foreign state is never overwritten, the state to give back is never
  lost, evidence never names someone else's write, journal and lease agree;
* lease over several resources: no mixture of two configurations is reported as
  settled, and every change that is not taken back has its record;
* journal: at most one claim per resource;
* locks: exclusive, free of circular waits, and the registry agrees with them;
* reconciler: passes exclude the lease's own calls, no event is forgotten, and
  the desired configuration comes back;
* pacing: no event shortens a delay, no delay grows without bound;
* observation: runs exactly while a lease needs it and misses no change;
* public watch: reports every foreign state, is silent after `stop`, and `stop`
  returns;
* native backends: a bound mutation compares first, tells truly whether it wrote,
  gives back exactly what was there, and touches nothing that is not its own;
* detection: never makes osdns a second writer of a generated file.

## 2. The modules

```
Backend <- JournalStore <- Engine <- MCEngine, EngineProofs
EngineProofs <- EngineStoreProofs <- EngineSafetyProofs <- EngineEvidenceProofs
Reconciler <- MCReconciler, ReconcilerProofs
EnforceWatch <- MCEnforceWatch, EnforceWatchProofs

Locks, LeaseSet, Pacing, PublicWatch  <- Session <- MCSession, SessionProofs

BoundCall, DnsPlan <- Resolved, NetworkManager, Openresolv, DirectFile, Windows, MacOS
the six of them, Detect               <- NativeHost <- MCNative, NativeProofs
NativeHost implements BoundMutation
```

**Backend** is the vocabulary of `platform/mod.rs` with the semantics of
`platform/fake.rs`. A DNS state has two fields, one that every plan sets and one
that a plan may leave alone, which is what `merge_state`, `state_matches` and
`equivalent` tell apart. A snapshot carries a generation: a durable backend
gives every write a new one, a best-effort backend cannot. A resource has an
incarnation; a removed and re-created resource has the next one.

**JournalStore** is the set of records that claim the resource. A failed `write`
or `remove` may have taken effect (`publication_error`, `may_have_published`).

**Engine** is the whole transaction engine on one resource. `op` is the call in
progress, `pc` the backend or journal call it makes next, `loc` its local
variables, `live` the `LiveRecord`. Each step is one such call with the code up
to the next: other programs act, calls fail and the process dies between any two
of them. Labels follow the functions: `mut.*` is `mutate_and_verify` with
`apply_bound`, `comp.*` is `compensate` with `restore_bound`, `rv.*` is
`resolve_live`, `ap.*`, `up.*`, `rs.*`, `ab.*` are the four ways through a lease,
`rc.*` is `reconcile_pass` and `apply_overlay`, `rec.*` is `recover_record`.
`author`, `base`, `asked`, `moved` and `harm` are history variables: no action of
the engine reads them to decide anything.

`compensate` has four callers; `loc.ret` is the return address. `LiveState` is
`live.st`, with `Repair(st)` as the flag `live.repair` and the fields of
`Verified` and `Compensating` beside it.

**Locks** is `ownership.rs`: registry check, file lock and registry insertion are
three steps, and so are the two halves of a drop.

**Reconciler** is the worker beside successive leases on one resource. It checks
what Engine takes for granted: that a pass and a call of the lease exclude each
other. Every mutex-protected map is accessed in a step of its own.

**EnforceWatch** is the reference-counted observation that feeds the reconciler.

**LeaseSet** is a lease over several resources: the loops of `apply`,
`transact_update`, `restore`, `abandon` and `Drop`, and the unwinding of each when
one resource fails. What Engine follows call by call is one step here, with the
outcomes Engine shows it can have.

**Pacing** is the clock that Reconciler leaves out: the due time of a pending
entry, the backoff after errors and the circuit breaker on rebases.

**PublicWatch** is `DnsManager::watch`: a native watch (a one-shot notification
that is armed again, or a stream with overflow and rescan), the coalescer with
its wake channel of capacity one, the verification against the suppression
registry, the caller's callback and `stop`, from another thread or from within
the callback.

**Session** puts Locks, LeaseSet, Pacing and PublicWatch side by side. They share
no variable, so a behaviour of Session is one of one of them (`part`): an
interleaving of parts that cannot affect each other shows nothing more.

**BoundMutation** is the abstract specification of `apply_bound` and
`restore_bound`: compare, then write; `Rejected` means that nothing was written,
`Performed` that the resource has what was asked for, and an identity that is
issued names the state that was made. What a backend with a native guard promises
and what a backend that checks and then writes can promise are told apart by
`call.guarded`.

**BoundCall** is what the backends share: the resource, the call in progress, the
trait's default methods and the engine as their driver (observe, apply, restore
with the evidence of the apply, crash). `call` holds what the call has found so far
(`confirmed`) and whether it wrote (`wrote`). Each backend module adds its native
operations, one step each, and its `capture`:

| Module | Resource | A mutation is |
|---|---|---|
| Resolved | DNS settings of a link | three D-Bus calls |
| NetworkManager | DNS fields of the applied connection | one `Reapply` under a version |
| Openresolv | one record of the resolvconf database, and the file merged from all | a subprocess with a deadline |
| DirectFile | `/etc/resolv.conf` with its metadata (Linux, BSD) | stage, verify, publish or remove |
| Windows | an adapter; a rule of the NRPT | one call per IP stack; a registry value at a time, `ConfigOptions` last |
| MacOS | the DNS dictionary of a service; a file of `/etc/resolver` | read, merge, write; stage, compare, rename |

**DnsPlan** has the configurations: `build`, `validate_against` and the mappings
to native form. Addresses and names are values; order, duplicates, spelling,
family and the root domain are what the mappings tell apart. A loop that keeps some
of the values, as the removal of duplicates in `build` or the filters of the mappings,
is `Picked`: the values at the places it keeps, in their order. Said by places and
not by recursion, what such a loop returns can be proved for every list.

**Detect** is the choice of a backend over every combination of what `select` and
`classify` read. **NativeHost** is a host: detection chooses a backend, whose calls
then work beside other programs.

## 3. The runs

| Run | Checks | States |
|---|---|---|
| `durable` | `TypeOK`, `NoClobber`, `Recoverable`, `SingleClaim`, `EvidenceSound`, `JournalMirrorsLease` on a compare-and-mutate backend with durable identities | 1.3 million |
| `besteffort` | `NoClobber`, `Recoverable`, `SingleClaim`, `JournalMirrorsLease` on a backend that checks, then writes, and compares values | 0.4 million |
| `enforce` | `EnforceProgress`, under fairness, and `JournalMirrorsLease`, beside a `recover_stale` that acts on a stale scan | 0.9 million |
| `session` | Locks: `TypeOK`, `Exclusive`, `RegistryAccurate`, `NoCircularWait`. LeaseSet: `Accounted`, `NeverMixed`, `OneConfiguration`, `FailureKeepsClaim`. Pacing: `RetryBounded`, `Spaced`, `BreakerBounds`. PublicWatch: `ExternalSeen`, `QuietAfterStop`, `StopProceeds`. No deadlock | 1.0 million |
| `native` | `Contract` (every backend implements BoundMutation), `GivesBack`, `Reported`, `UnmanagedKept`, `NoHalfRule`, `NoSecondWriter` | 0.4 million |
| `reconciler` | `TypeOK`, `PassExclusive`, `ChangesReconciled` | 0.7 million |
| `watch` | `TypeOK`, `LeaseObserved`, `LastLeaseStops`, `ChangeNoticed` | 0.1 million |

Five runs end in a violation, each a disagreement between the code and what the
repository says of it (`findings` in `PROJECT.json`):

* `scan_race`: `recover_stale` reads the journal before it locks and never again.
  A lease abandoned in between has its state restored over. (With four calls
  `SingleClaim` fails in the same way: a record removed in between comes back
  beside a newer one, and the journal is then rejected as corrupt.)
* `loose_update`: an update that the applied state already satisfies returns Ok
  and leaves the old plan in the record; the next reconcile pass applies it.
* `enforce_wedge`: a foreign change between the verification of a mutation and
  its finalization leaves the record `Verified`; `resolve_live` refuses it on
  every later pass.
* `token_handover`: a pass that waited for the token of an ended lease goes on
  with the next lease's record, while that lease uses a new token. (With
  `Prompt = FALSE` `ChangesReconciled` fails as well: a worker that found no lease
  removes the entry that a lease which started meanwhile has queued.)
* `watch_refs`: an apply whose watch failed to start releases a reference it
  never took, and stops the observation of another lease.

The passing runs say what holds around them. `RecoverNow` (no call between scan
and lock, `ScanBeforeLock = FALSE`) in `durable` and `besteffort`, `Prompt = TRUE`
in `reconciler` and `Overlap = FALSE` in `watch` exclude exactly the window of the
violation and nothing else. `enforce` leaves the scan window open: whatever a stale
scan does, it never reaches a resource with a live lease.

`Reported` is about an apply that succeeded undisturbed: it compares what
`public_state` makes of the native state with the plan, item by item and as whole
lists. Which items a native form keeps is part of the statement:

| Backend | Servers | Search domains | Routing domains | Default route |
|---|---|---|---|---|
| resolved | in order | all | all but those that are search domains, too | if set |
| NetworkManager | IPv4 first, in order within a family | all but the root | the same | none |
| resolv.conf | in order | all but the root | none | none |
| openresolv | at the head of the merged file, in order | at its head, in order, without the root | none | none |
| Windows adapter | IPv4 first, in order within a family | all but the root | none (the rule has them) | none |
| NRPT rule | in order | none | in order, the root in front for a default route | as the root |
| macOS service | in order | all but the root | none | none |

For a resolver file of macOS it says nothing: `public_state` reports nothing of one.
That such a file gets the content asked for is its goal in `Contract`. (`snapshot` reads
the primary resource, a service or an adapter; a rule is compared as `public_state`
would report it.)

Reading the code for the models also showed the following, which the properties
state exactly and no run contradicts:

* The servers of a configuration are a list "in preference order" (`config.rs:120`), whose
  "order is preserved" (`config.rs:161`). NetworkManager and the adapters of Windows have
  one list for each family, and their `public_state` returns the IPv4 list first: a
  caller who prefers an IPv6 server to an IPv4 one reads them back the other way round.
  The assertion `snapshot.nameservers() == config.nameservers()` of
  `tests/backend_matrix.rs:919` holds because its cases list IPv4 first. `Reported` makes
  an exception of these two, as the table says; `native` has a request with an IPv6
  server in front.
* `manager.rs` says of every mutation that it is journaled before it happens. One is
  not: the rollback of an update is pending, `abandon` fails although its removal took
  effect (`may_have_removed`), and `restore` is called on the lease it hands back.
  `resolve_live` resumes the rollback with no record on disk; the write that follows
  may fail too, and a crash then leaves a configuration of ours without a record of
  the original. `Accounted` exempts exactly this (`strayed`: the lease wrote, without a
  record, over a state that was neither its own any more nor the original). The proof
  of `Accounted` showed it; without the exception TLC finds it with one resource, four
  calls and four failures.
* macOS service dictionaries are read, merged and written back as a whole, in
  separate calls: a change another program makes to an unmanaged key between them
  is overwritten, although `platform/mod.rs` says that restoration never destroys
  such changes. `UnmanagedKept` exempts exactly a change within the call, on a
  backend without a native guard.
* The BSD direct backend restores the content of the file but keeps the mode the
  file has at that time (`RestoreGoal`). Only another program can have changed the
  mode, so `GivesBack` holds.
* A crash while a rule of the NRPT is created may leave a key without an owner. It
  is not in effect (`NoHalfRule`), and later observations of it fail rather than
  take it for ours.
* After an inotify overflow whose rescan fails, only files already known are
  reported; a file that was deleted before and comes back is missed. A D-Bus
  signal whose device cannot be named is skipped. `ExternalSeen` exempts these two
  (`blind`).
* The breaker gates rebases onto a new base only, and its attempts are cleared when
  it opens: two bursts of `BREAKER_THRESHOLD` may fall into one `BREAKER_WINDOW`.
  `BreakerBounds` states the distance that does hold, the cooldown.
* A change of osdns itself is reported if its event is handled before its
  suppression is recorded or after the window ended; a removal always is. The
  promise that holds is one about foreign states.

### Bounds

Engine: two plans (one sets the optional field, one leaves it), one or two
foreign states (`Rivals` contains the very state osdns would write), three API
calls, two foreign events, two faults; a fault is a failing call, an ambiguous
publication or a crash. Three calls are needed for apply, a failed call, and the
call or recovery that has to cope with it; two faults for a failed rollback after
a failed mutation. A third event or fault adds states but no new combination of
labels. In `scan_race` and `enforce` the scan is a call of its own. In the runs with `Rivals` a foreign program may write the state osdns
wrote; in best effort this is indistinguishable from our own write, by design,
so `besteffort` uses `Others`.

Locks: three threads in two processes (two of them competing in one registry) and
three resources, which is enough for cycles of length two and three.

LeaseSet: three resources, so that one can fail with one before and one after it;
two plans, three calls, two faults, one foreign write, of a plan's own state among
others. Pacing: delays in proportion, with three doublings for the code's seven
and the counter saturating at five; `Tuned` is the order between the constants
that the code's values have as well. PublicWatch: two resources, two changes, an
event queue of one, which is full at the second.

NativeHost: every host of Detect, every backend, four calls (an apply, one more
apply or a restore that fails, and those that cope with it), two foreign changes,
two faults. The requests contain duplicates, two spellings of a name, the root
domain, both families in both orders, no servers at all, an unset and a set default
route, an invalid name and an unspecified address, which the builder refuses.

Reconciler: two leases, three calls, one foreign change, one deferred pass.
EnforceWatch: three leases, so that one can fail, one can be harmed and one can
come later; two faults.

Deadlock is checked in `session`. In the other runs the system may rest: no caller
has to call again and the bounds run out.

### Fairness

Engine's `FairSpec`: a call in progress takes its next step, and the reconciler's
worker starts another pass while the lease is active: its loop never ends while
a feed exists and every outcome but success is rescheduled. Nothing is assumed of
callers or other programs. Reconciler's and EnforceWatch's `FairSpec`: threads
run, a mutex that is free is granted, retry times come, notifications of a
running watch are delivered. Failing calls are bounded by `MaxFaults` or
`MaxDefers`, so liveness reads "once failures and other programs pause".

`session` and `native` assume no fairness. That a watch at rest has reported
everything (`ExternalSeen`) and that `stop` is never stuck (`StopProceeds`) are
stated as invariants: while the promise is not kept, a thread has a step to take.
With the bound on changes and threads that run, the promise follows.

## 4. Proofs

All theorems hold for every value of the constants that satisfies the `ASSUME`s
of the modules: any sets of plans, states, threads, processes and resources, any
bounds, all four kinds of backend, both policies.

**EngineProofs.** `EngineTypeCorrect`: `TypeOK` is inductive by itself. It is split
into parts (`ControlOK`, `HostOK`, `LeaseOK`, `StoreOK`, `CountersOK`), one lemma per
group of actions, and lemmas for the operators they share (`JournalWriteType`,
`PersistLiveType`, `OsWriteType`, ...). What it shows beyond types is that every
record that reaches the journal or a live lease, through any chain of rollback,
resumption and recovery, is a complete record.

**EngineStoreProofs.** `JournalMirrored` and `SingleClaimed`. `JournalMirrorsLease`
speaks of the states between calls; `StoreInv` says for each label which records
the journal may hold while the call is on its way there, where the return address
of a compensation leads, and which record a failed publication leaves behind.
`JournalMirrored` needs no assumption: a recovery from a stale scan never gets the
lock of a live lease. `SingleClaimed` assumes `~ScanBeforeLock`, as the finding
`scan_race` shows that it must.

**EngineSafetyProofs.** `AlwaysRecoverable`, for all four kinds of backend. The
journal is only half of it: between the write and its verification the original is
known from the intent, during a rollback from the record the rollback resumes with.
`SafetyInv` follows a mutation through them: what the history variables say of the
resource (`Hosted`), which labels a kind of backend goes through and whether its
writes issue an identity (`Routed`), that while the state is ours the identity and the
read-back name it (`Seen`), which record and target a call works with (`Intent`), what
`LiveState` says of the resource (`Ident`), where a rollback leads and what its identity
names (`Undo`), and that a record with the original is there while a state of ours is
(`Kept`). The labels from which a record is removed (`Settling`) are shown to be reached
only when no state of ours is left.

**EngineEvidenceProofs.** `NeverClobbers` and `EvidenceAlwaysSound`, for a backend with
durable identities and compare-and-mutate (`Guarded`). `EvidenceInv` is about time:
no snapshot that a call, a live record or the journal holds is newer than the
resource (`Dated`), so what matches the resource now was read or issued for its
current state; and every such piece of evidence names a write of ours or the
original of the record it is used with (`Evidence`). A foreign write gives the
resource a generation nobody holds.

**ReconcilerProofs.** `ReconcilerTypeCorrect` holds in general;
`ReconcilerPassExclusive` assumes `Prompt`, as the run `token_handover` shows that it
must. `PassExclusive` is not inductive, because the token that protects a pass is
itself replaced in the map when a lease unregisters. The invariant follows it:
whoever has fetched a token while a lease is active has the one in the map
(`SameToken`), a locked token has one owner (`TokenExclusive`), the active lease is
the one with the resource lock (`ActiveLocked`, `LockOwner`), the token leaves the
map only after the lease left the active map (`Unregistered`, `PassActive`), and a
pass past its second look works on the active lease (`PassActive`). So a lease that
updates or tears down beside such a pass would hold the pass's own token.

**EnforceWatchProofs.** `WatchTypeCorrect` and `WatchLastLeaseStops` need no assumption: an apply whose
watch failed to start may give back a reference it never took, but the count never
exceeds the leases that took one (`RefsBounded`), and a count of zero stops the
observation (`RefsMeanFeed`). `WatchLeaseObserved` assumes `~Overlap`, under which the
count is exact (`RefsExact`); the run `watch_refs` shows that the assumption is needed.

**SessionProofs.** The parts of Session are proved as they are instantiated there, each
invariant under the condition that its part runs. The assumptions are `Tuned` (the
nine pacing constants are numbers in the order the code's values have) and `Given`
(a lease has a resource; `None` is not a state).

* *Locks.* `LocksTypeCorrect`, `LocksExclusive`, `LocksRegistryAccurate` and
  `LocksNoCircularWait` all rest on one inductive invariant, `LocksInv`. `Exclusive` is
  not inductive: between the file lock and the registry insertion a thread has the
  file but does not hold the lock yet, and while it drops a lock it holds it
  without a registry entry. `LocksInv` says for each label which of file, registry entry
  and `held` a thread has (`HoldersHaveFile`, `FileHasHolder`, `Dropping`,
  `Registered`, `EntryHasHolder`) and that the lock being taken is smaller than
  everything still to do and larger than everything held (`Sorted`). From `Sorted` a
  thread that waits for another has a smaller target (`WaitIncreases`), and a set
  of threads that all wait for one another would have no largest target, which a
  finite set of resources rules out.
* *Public watch.* `CallbacksQuiet`: `StopOrder` says that the flag is up before the
  joins begin, who stops the watch, and that a stop that is over has joined the
  worker unless it came from within the worker's callback.
* *Pacing.* `PassesSpaced` and `AlwaysRetried`: the gap of an entry is the backoff of
  its error count (`Escalated`), and the time since the last pass and the time to the
  next add up to what the pass was deferred for (`WaitsOut`). That the backoff never
  exceeds the longest delay needs 2^(n+1) = 2^n + 2^n, which the prover does not
  know: `Doubling` counts the subsets of a set with one more element.
  `RebasesSpaced` (`BreakerBounds`): the attempts the breaker counts are the last
  rebases, and a rebase it no longer counts was forgotten when the breaker opened,
  which has counted down from the cooldown since, or left the window, which is no
  shorter (`Metered`). What the window leaves of the attempts is a suffix of them
  (`RecentIsSuffix`), whose start is the least index still within the window.
* *Lease over N resources.* `AlwaysAccounted`, `UpdatesNeverMix`, `RecordsAgree` and
  `ClaimsKept` rest on one inductive invariant, `LeaseInv`. None of the four is
  inductive: they speak of the rest state or of one resource, and a transaction is
  half way through the others. `LeaseInv` divides the resources, for each step, at the
  index the call has reached: which have entries, records and locks (`Entered`,
  `Claims`), whose entries have the new plan and whose the old (`Planned`, `Alike`),
  which are in their old state (`InPlace`), what the transaction knows of those it
  wrote (`Proven`), in which nothing is osdns' own (`Owned`) and what is let go (`Freed`).
  `Rooted` says that every record and entry has the original of its resource. What a
  step does to one resource is proved once, as lemmas about the operators on cells
  (`Compensate`, `PersistLive`, `RetainCompensation`, `ResolveLive`, `RestoreLiveState`),
  and each action then for the resource it is at and for all others. TLC checked
  `LeaseInv` beforehand, with one resource and five failures and with two and three.

**NativeProofs.** `NativeContract` (every backend implements BoundMutation: a step of
its contract, or a stutter), `RestoresGiveBack`, `UnmanagedSpared`, `RulesWhole`,
`DirectAlone` and `ReportsTruly`, for all backends, requests, foreign states and bounds.
Besides the assumptions on plans (`DnsPlanAssumption`) they need only that requests are
what the builder lets a caller say (`RequestsAssumption`) and that another program's
file has addresses and names in it (`ForeignConfsAssumption`). One invariant,
`NativeInv`, serves all of them. Its first half, `Core`, is the same for every backend:

* `Phases`: the place in a call says whether the expected state was confirmed and
  whether anything was written;
* `Sound`: in a call that nobody disturbed the resource is still what was confirmed,
  or is what the call itself made, and a call that returns `ok` has reached its goal;
* `Bound`: a call works on the incarnation that the lease was taken on;
* `Faithful`: what the engine captured is what stood at the first look, until another
  program acts.

A step keeps `Core` by what kind of step it is, whichever backend takes it:
`CheckStatusStep`, `ComparePartsStep` and the other lemmas about BoundCall's operators are
proved once. `Data`, the second half, is what each backend adds so that its steps are of
these kinds. A capture of several reads agrees with the resource in what it has read
(`Captured`: resolved, Windows); no later state of the same service has the version of
an older snapshot (`Dated`: NetworkManager, whose guard compares nothing but versions);
a write that is half done has set the fields before it (`LinkData`, `WinData`); a rule
that is being written has the values of a prefix of `ValueOrder`, and the key is ours
only if this call created it (`RuleData`: so `ConfigOptions`, the last value, is there
only when all others are); a restored file on BSD has the mode of the captured one as
long as nobody else touched it (`DirectData`, `LikeBase`).

`ReportsTruly` (`Reported` for every plan) needs more: `ToldInv`. Its lemmas come in three
layers. The first is about sequences: `Picked` over a set of places has the ranks of the
places as its indices (`PickedIs`, from the library's facts on cardinality), from which
follow what `Only`, `Without` and `Distinct` keep, that filtering two lists put together
gives the one list back (`OnlyParts`), that `Distinct` leaves a list without
duplicates at the head of a longer one as it is (`DistinctParts`), and that of two such
lists the second loses what the first one has (`DistinctRest`). The second is about the
mappings, a lemma for each backend (`ResolvedTells`, `NmTells`, `WindowsTells`, ...): the
way into the native form and back, on a plan that the builder made (`Proper`,
`ProperPlans`), gives what `Reports` says that the form keeps, list by list. The third is about the steps: only
a new apply changes what a call is about (`PlanKept`), so that every state in the goal of a
call tells of its plan (`Told`); an answer of `Performed` in an undisturbed call means that
the goal was reached (`Reached`, from the contract); and the live file that openresolv
left is generated from the record it wrote (`LiveData`). TLC checked `ToldInv` on `native`.

A few definitions are nested conditionals rather than `CASE` (`ResourceStatus`,
`OsWrite`, `Compensate`, `ResolveState` and others): the provers split the former and
not the latter. They say the same.

What stays with TLC, and why:

* liveness (`EnforceProgress`, `ChangesReconciled`, `ChangeNoticed`), and `ExternalSeen` and
  `StopProceeds`, which say that a step is possible: the prover has no rules for `WF`
  and `ENABLED`;
* `NoClobber` on a backend without compare-and-mutate or without identities, which
  exempts a write within the last window of a call (`besteffort`).

## 5. What is not modelled

* The file format of the journal: encoding, integrity checks, schema versions,
  permissions. A record is read or it is not.
* The syntax of names: `DnsSuffix::parse` is the table `Canonical`. The conversions
  between D-Bus values, property lists or registry strings and lists of addresses
  are taken to be what their types say.
* The choice of an interface by default route, a pure comparison of metrics of one
  read; FFI declarations; error values.
* `ResourceStatus::Ambiguous` is folded into a failing status call: both end the
  call, or defer the pass, without a write.
* `recover_stale` over several resources: it treats each record by itself, which is
  what Engine models. LeaseSet takes a backend that compares and mutates in one
  operation and resources that stay the same incarnation; Engine has the rest.
* NRPT rules for more than 50 namespaces, which the code splits into several
  resources; Windows has one rule here. A missing server list of an adapter and an
  empty one are the same, as they are to the code's comparisons.
* The fingerprint by which resolved and NetworkManager recognize a link or an
  activation is a number.
* `resolvconf`, NetworkManager, systemd-resolved and the operating system are
  modelled from how the code uses them. openresolv 3.12 and later leaves a
  `resolv.conf` it did not sign alone; that it may refuse is a failing command.
* Simplifications within what is modelled. Each leaves out an outcome or an instant,
  so the properties say nothing about it:
  * Engine: a restore that landed and is answered as indeterminate with the evidence
    it produced (`manager.rs:638`); the checks of the record's owner in recovery.
    LeaseSet: a write that is answered as indeterminate with the old evidence, and
    the resources of an update are read in one step.
  * Locks: a lock file that cannot be opened, and `TryLockError::Error`; both end the
    call with what it holds released, as a lock that is taken does.
  * A read-back in `BoundCall.Verify`, the reads of one openresolv record and of one
    NRPT rule are one step each; captures of resolved and of a Windows adapter are
    not.
  * DirectFile: owner, flags, link metadata and umask. The limits of `validate_plan`
    on BSD are not applied to openresolv, which adds plans.
  * MacOS: a missing and an empty dictionary are the same, and a temporary file that
    a crash leaves in `/etc/resolver` is not kept.
* The test-only fault points: their effect, a failure at a named point, is the
  fault budget of every module.

## 6. Plan

Done: all modules of section 2; as theorems all safety properties of Locks,
Reconciler, EnforceWatch, Engine (`NoClobber` and `EvidenceSound` for a guarded
backend), LeaseSet, Pacing and NativeHost, and `QuietAfterStop` of PublicWatch.

Left: `NoClobber` for a backend that checks and then writes. `EvidenceInv` identifies a
state by its generation; evidence by value needs a counterpart of `Sound` that exempts
a foreign program writing the very state osdns wrote.
