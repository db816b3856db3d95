------------------------------- MODULE Session ------------------------------
(***************************************************************************)
(* What surrounds the engine in a process that uses osdns. Each part keeps *)
(* to its own state: the locks of its resources (Locks, src/src/           *)
(* ownership.rs), a lease over several of them (LeaseSet), the schedule of *)
(* the reconciler (Pacing) and a public watch (PublicWatch). They share no *)
(* variable, so that an interleaving of them shows no more than they do    *)
(* one at a time: a behaviour of this module is one of one of its parts.   *)
(***************************************************************************)
EXTENDS Locks

CONSTANTS
    N, Plans, Others, None, MaxCalls, MaxFaults, MaxWrites,
    ErrorRetry, UnstableRetry, IdentityRetry, MaxErrorRetry, MaxShift, MaxErrors,
    BreakerWindow, BreakerThreshold, BreakerCooldown,
    Watched, Ours, Gone, MaxChanges, QueueSize

VARIABLES
    part,
    native, journal, live, claimed, phase, op, step, at, tx, before, calls, faults, writes, mine,
    strayed,
    entry, attempts, open, busy, again, idle, gap, owed, rebases,
    source, dns, changes, records, armed, raised, npc, out, seen, nflag, pending, token, flag,
    wpc, batch, event, spc, by, told, blind

set == INSTANCE LeaseSet
pace == INSTANCE Pacing
public == INSTANCE PublicWatch WITH Resources <- Watched

ASSUME SessionAssumption == pace!Tuned /\ set!Given

setVars == <<native, journal, live, claimed, phase, op, step, at, tx, before, calls, faults,
             writes, mine, strayed>>
paceVars == <<entry, attempts, open, busy, again, idle, gap, owed, rebases>>
publicVars == <<source, dns, changes, records, armed, raised, npc, out, seen, nflag, pending,
                token, flag, wpc, batch, event, spc, by, told, blind>>
sessionVars == <<part, vars, setVars, paceVars, publicVars>>

\* A part that is not there.
NoSet ==
    /\ native = None /\ journal = None /\ live = None /\ claimed = None /\ phase = None
    /\ op = None /\ step = None /\ at = None /\ tx = None /\ before = None
    /\ calls = None /\ faults = None /\ writes = None /\ mine = None /\ strayed = None

NoPace ==
    /\ entry = None /\ attempts = None /\ open = None /\ busy = FALSE /\ again = None
    /\ idle = None /\ gap = None /\ owed = None /\ rebases = None

NoPublic ==
    /\ source = None /\ dns = None /\ changes = None /\ records = None /\ armed = None
    /\ raised = None /\ npc = None /\ out = None /\ seen = None /\ nflag = None
    /\ pending = None /\ token = None /\ flag = None /\ wpc = None /\ batch = None
    /\ event = None /\ spc = None /\ by = None /\ told = None /\ blind = None

SessionInit ==
    /\ Init
    /\ \/ part = "locks" /\ NoSet /\ NoPace /\ NoPublic
       \/ part = "set" /\ set!Init /\ NoPace /\ NoPublic
       \/ part = "pace" /\ NoSet /\ pace!Init /\ NoPublic
       \/ part = "public" /\ NoSet /\ NoPace /\ public!Init

SessionNext ==
    /\ UNCHANGED part
    /\ \/ part = "locks" /\ Next
          /\ UNCHANGED <<setVars, paceVars, publicVars>>
       \/ part = "set" /\ set!Next /\ UNCHANGED <<vars, paceVars, publicVars>>
       \/ part = "pace" /\ pace!Next /\ UNCHANGED <<vars, setVars, publicVars>>
       \/ part = "public" /\ public!Next /\ UNCHANGED <<vars, setVars, paceVars>>

SessionSpec == SessionInit /\ [][SessionNext]_sessionVars

-----------------------------------------------------------------------------
(* The properties of the parts, as properties of the whole. *)

\* Every change osdns made and has not taken back is in the journal (LeaseSet).
Accounted == part = "set" => set!Accounted

\* An update leaves no silently mixed configuration (LeaseSet).
NeverMixed == part = "set" => set!NeverMixed

\* The records of a lease want the same plan between calls (LeaseSet).
OneConfiguration == part = "set" => set!OneConfiguration

\* A lease that failed to end keeps the locks of what it could not end (LeaseSet).
FailureKeepsClaim == part = "set" => set!FailureKeepsClaim

\* A pending resource is retried within the longest delay (Pacing).
RetryBounded == part = "pace" => pace!RetryBounded

\* No event shortens the delay before the next pass (Pacing).
Spaced == pace!Spaced

\* The breaker spaces rebases (Pacing).
BreakerBounds == part = "pace" => pace!BreakerBounds

\* A watch at rest has reported every foreign state (PublicWatch).
ExternalSeen == part = "public" => public!ExternalSeen

\* No callback starts after stop has returned (PublicWatch).
QuietAfterStop == public!QuietAfterStop

\* stop never waits for a thread that waits (PublicWatch).
StopProceeds == part = "public" => public!StopProceeds
=============================================================================
