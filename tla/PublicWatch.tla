---------------------------- MODULE PublicWatch ----------------------------
(***************************************************************************)
(* A public watch (DnsManager::watch in src/src/manager.rs): the native    *)
(* watch of a backend, the coalescer of src/src/watch.rs between it and    *)
(* the caller's callback, the suppression of osdns' own changes, and the   *)
(* WatchHandle that stops it all.                                          *)
(*                                                                         *)
(* Three threads: the native watch, the coalescer's worker, and whoever    *)
(* stops the watch. Two kinds of native watch: a registry notification     *)
(* that signals once and is armed again (windows/notify.rs), and a stream  *)
(* of events (linux/watch.rs, bsd/watch.rs, macos/watch.rs, the D-Bus      *)
(* signals of resolved.rs and network_manager.rs), which inotify cuts      *)
(* short when its queue overflows.                                         *)
(***************************************************************************)
EXTENDS Naturals, SequencesExt

CONSTANTS
    Resources,
    Ours, Gone,   \* the state osdns wrote, and no state at all
    MaxChanges,   \* bound on changes, osdns' own included
    QueueSize     \* how many events inotify keeps before it reports an overflow

VARIABLES
    source,       \* which kind of native watch
    dns,          \* the state of every resource; a foreign one is a number
    changes,
    records,      \* resources whose suppression is recorded and within its window
    armed, raised, \* what the system holds for the native watch
    npc, out,     \* the native watch's thread and the events it has to report
    seen,         \* what it knows: the rules it last read, or the files it has seen
    nflag,        \* the native watch has ended or is to end
    pending,      \* the coalescer's latest event of every resource
    token,        \* its wake channel, of capacity one
    flag,         \* the coalescer is to end
    wpc, batch, event,
    spc, by,      \* stop, and the thread that calls it
    told,         \* history: the state each resource had when it was last reported
    blind         \* history: resources of which an event was left out

nativeVars == <<source, dns, changes, records, armed, raised, npc, out, seen, blind>>
workerVars == <<wpc, batch, event, told>>
watchVars == <<source, dns, changes, records, armed, raised, npc, out, seen, nflag,
          pending, token, flag, wpc, batch, event, spc, by, told, blind>>

Event(r, kind) == [resource |-> r, kind |-> kind]
Kind(state) == IF state = Gone THEN "removed" ELSE "changed"
Overflow == Event("all", "overflow")
Signal == Event("all", "signal")
NoEvent == Event("none", "none")

Init ==
    /\ source \in {"registry", "stream"}
    /\ dns = [r \in Resources |-> 0] /\ changes = 0
    /\ records = {}
    /\ armed = TRUE /\ raised = <<>> /\ npc = "wait" /\ out = <<>>
    /\ seen = IF source = "registry" THEN dns ELSE Resources
    /\ nflag = FALSE /\ pending = [r \in Resources |-> "none"] /\ token = FALSE
    /\ flag = FALSE /\ wpc = "recv" /\ batch = pending /\ event = NoEvent
    /\ spc = "live" /\ by = "none" /\ told = dns /\ blind = {}

-----------------------------------------------------------------------------
(***************************************************************************)
(* Changes, and what the system notes of them. RegNotifyChangeKeyValue     *)
(* signals once; inotify replaces what does not fit by one overflow event. *)
(***************************************************************************)
Raise(e) ==
    CASE source = "registry" ->
            IF armed THEN raised' = <<Signal>> /\ armed' = FALSE
            ELSE UNCHANGED <<raised, armed>>
      [] source = "stream" /\ Len(raised) >= QueueSize ->
            /\ raised' = IF Last(raised) = Overflow THEN raised ELSE Append(raised, Overflow)
            /\ UNCHANGED armed
      [] OTHER -> raised' = Append(raised, e) /\ UNCHANGED armed

\* Changes after the native watch has ended reach nobody and are left out.
Change(r, state) ==
    /\ ~nflag /\ changes < MaxChanges /\ changes' = changes + 1
    /\ dns[r] # state /\ dns' = [dns EXCEPT ![r] = state]
    /\ Raise(Event(r, Kind(state)))
    /\ UNCHANGED <<source, npc, out, seen, blind, nflag, pending, token, flag, workerVars, spc, by>>

ExternalChange(r) ==
    /\ Change(r, changes + 1) \/ Change(r, Gone)
    /\ UNCHANGED records

OwnChange(r) == Change(r, Ours) /\ UNCHANGED records

\* mutate_and_verify, having written: it reads the state back and records it.
Record(r) ==
    /\ dns[r] = Ours /\ r \notin records /\ records' = records \cup {r}
    /\ UNCHANGED <<source, dns, changes, armed, raised, npc, out, seen, blind, nflag, pending,
                   token, flag, workerVars, spc, by>>

\* prune: the window of a suppression passes.
Prune(r) ==
    /\ r \in records /\ records' = records \ {r}
    /\ UNCHANGED <<source, dns, changes, armed, raised, npc, out, seen, blind, nflag,
                   pending, token, flag, workerVars, spc, by>>

-----------------------------------------------------------------------------
(***************************************************************************)
(* The native watch.                                                       *)
(***************************************************************************)
OutsideNative == <<source, dns, changes, records, flag, workerVars, spc, by>>

\* The thread wakes up for an event; the registry watch is armed again before
\* the rules are read.
NativeWait ==
    /\ npc = "wait" /\ raised # <<>> /\ ~nflag
    /\ raised' = Tail(raised)
    /\ LET e == Head(raised)
       IN CASE e = Signal -> npc' = "rearm" /\ UNCHANGED <<out, seen>>
            [] e = Overflow -> npc' = "scan" /\ UNCHANGED <<out, seen>>
            [] OTHER ->
                 /\ npc' = "emit" /\ out' = <<e>>
                 /\ seen' = IF e.kind = "removed" THEN seen \ {e.resource}
                            ELSE seen \cup {e.resource}
    /\ UNCHANGED <<armed, nflag, pending, token, blind, OutsideNative>>

\* A signal of the bus whose device cannot be named any more is passed over.
Unnamed ==
    /\ npc = "wait" /\ raised # <<>> /\ ~nflag /\ Head(raised).kind \in {"changed", "removed"}
    /\ raised' = Tail(raised) /\ blind' = blind \cup {Head(raised).resource}
    /\ UNCHANGED <<armed, npc, out, seen, nflag, pending, token, OutsideNative>>

Rearm ==
    /\ npc = "rearm" /\ npc' = "scan" /\ armed' = TRUE
    /\ UNCHANGED <<raised, out, seen, nflag, pending, token, blind, OutsideNative>>

Changed(rs) == SetToSeq({Event(r, Kind(dns[r])) : r \in rs})

\* diff_rule_states and resync_events; a scan of the directories that fails
\* reports all it knows of.
Scan ==
    /\ npc = "scan" /\ npc' = "emit"
    /\ \/ /\ source = "registry" /\ UNCHANGED blind
          /\ out' = Changed({r \in Resources : seen[r] # dns[r]}) /\ seen' = dns
       \/ /\ source = "stream" /\ UNCHANGED blind
          /\ out' = Changed(Resources) /\ seen' = Resources
       \/ /\ source = "stream" /\ blind' = blind \cup (Resources \ seen)
          /\ out' = SetToSeq({Event(r, "changed") : r \in seen}) /\ UNCHANGED seen
    /\ UNCHANGED <<armed, raised, nflag, pending, token, OutsideNative>>

\* The coalescer's callback: nothing once it is to end; else the event becomes
\* the latest of its resource, and the worker is woken.
Emit ==
    /\ npc = "emit"
    /\ IF out = <<>> THEN npc' = "wait" /\ UNCHANGED out
       ELSE IF flag THEN out' = Tail(out) /\ UNCHANGED npc
       ELSE npc' = "insert" /\ UNCHANGED out
    /\ UNCHANGED <<armed, raised, seen, nflag, pending, token, blind, OutsideNative>>

Insert ==
    /\ npc = "insert" /\ npc' = "wake"
    /\ pending' = [pending EXCEPT ![Head(out).resource] = Head(out).kind]
    /\ UNCHANGED <<armed, raised, out, seen, nflag, token, blind, OutsideNative>>

\* Mutant: a worker that is not waiting is not woken.
WakeIdle ==
    /\ npc = "wake" /\ npc' = "emit" /\ out' = Tail(out) /\ token' = (token \/ wpc = "recv")
    /\ UNCHANGED <<armed, raised, seen, nflag, pending, blind, OutsideNative>>

\* try_send fails on a full channel, which will wake the worker, too.
Wake ==
    /\ npc = "wake" /\ npc' = "emit" /\ out' = Tail(out) /\ token' = TRUE
    /\ UNCHANGED <<armed, raised, seen, nflag, pending, blind, OutsideNative>>

\* A stopped watch wakes up to end.
NativeEnd ==
    /\ npc = "wait" /\ nflag /\ npc' = "off"
    /\ UNCHANGED <<armed, raised, out, seen, nflag, pending, token, blind, OutsideNative>>

\* The service restarts, the directory goes, a read fails: WatchWorker's drop
\* tells the handle.
NativeDies ==
    /\ npc \in {"wait", "rearm", "scan"} /\ npc' = "off" /\ nflag' = TRUE
    /\ UNCHANGED <<armed, raised, out, seen, pending, token, blind, OutsideNative>>

-----------------------------------------------------------------------------
(***************************************************************************)
(* The coalescer's worker.                                                 *)
(***************************************************************************)
OutsideWorker == <<nativeVars, nflag, flag, spc, by>>

Recv ==
    /\ wpc = "recv" /\ token /\ token' = FALSE
    /\ wpc' = IF flag THEN "off" ELSE "window"
    /\ UNCHANGED <<pending, batch, event, told, OutsideWorker>>

\* Until the deadline of the window, wake-ups only show that it may have to end.
RecvTimeout ==
    /\ wpc = "window"
    /\ token /\ token' = FALSE
    /\ wpc' = IF flag THEN "off" ELSE "window"
    /\ UNCHANGED <<pending, batch, event, told, OutsideWorker>>

\* The deadline: flush takes what is pending.
Flush ==
    /\ wpc = "window" /\ wpc' = "deliver"
    /\ batch' = pending /\ pending' = [r \in Resources |-> "none"]
    /\ UNCHANGED <<token, event, told, OutsideWorker>>

\* Mutant: the flag is looked at once for the whole batch.
DeliverAll ==
    /\ wpc = "deliver"
    /\ IF \A r \in Resources : batch[r] = "none"
       THEN wpc' = "recv" /\ UNCHANGED <<batch, event>>
       ELSE \E r \in Resources :
               /\ batch[r] # "none" /\ event' = Event(r, batch[r])
               /\ batch' = [batch EXCEPT ![r] = "none"] /\ wpc' = "verify"
    /\ UNCHANGED <<token, pending, told, OutsideWorker>>

\* The events of a batch in any order, none after the flag is set.
Deliver ==
    /\ wpc = "deliver"
    /\ IF flag \/ \A r \in Resources : batch[r] = "none"
       THEN wpc' = "recv" /\ batch' = [r \in Resources |-> "none"] /\ UNCHANGED event
       ELSE \E r \in Resources :
               /\ batch[r] # "none" /\ event' = Event(r, batch[r])
               /\ batch' = [batch EXCEPT ![r] = "none"] /\ wpc' = "verify"
    /\ UNCHANGED <<token, pending, told, OutsideWorker>>

\* The verified callback of watch: a change to a state osdns itself recorded is
\* not reported. The caller learns of a removal or can read the state as it is.
Verify ==
    LET r == event.resource
        state == dns[r]
    IN /\ wpc = "verify"
       /\ IF event.kind = "changed" /\ r \in records /\ state = Ours
          THEN wpc' = "deliver" /\ UNCHANGED told
          ELSE /\ wpc' = "callback"
               /\ told' = [told EXCEPT ![r] = IF event.kind = "removed" THEN Gone ELSE state]
       /\ event' = NoEvent
       /\ UNCHANGED <<token, pending, batch, OutsideWorker>>

CallbackReturns ==
    /\ wpc = "callback" /\ (by = "callback" => spc = "stopped")
    /\ wpc' = "deliver"
    /\ UNCHANGED <<token, pending, batch, event, told, OutsideWorker>>

\* The callback panics; WatchWorker's drop tells the handle.
WorkerDies ==
    /\ wpc = "callback" /\ by # "callback"
    /\ wpc' = "off" /\ flag' = TRUE
    /\ UNCHANGED <<nativeVars, nflag, pending, token, batch, event, told, spc, by>>

-----------------------------------------------------------------------------
(***************************************************************************)
(* stop, called by another thread or from within the callback: it ends the *)
(* native watch, then the coalescer, and joins their threads but its own.  *)
(***************************************************************************)
Stop ==
    /\ spc = "live" /\ spc' = "native" /\ nflag' = TRUE
    /\ \/ by' = "user"
       \/ wpc = "callback" /\ by' = "callback"
    /\ UNCHANGED <<nativeVars, pending, token, flag, workerVars>>

JoinNative ==
    /\ spc = "native" /\ npc = "off" /\ spc' = "wake" /\ flag' = TRUE
    /\ UNCHANGED <<nativeVars, nflag, pending, token, workerVars, by>>

\* Mutant: the worker is not woken to see the flag.
WakeWorkerNot ==
    /\ spc = "wake" /\ spc' = "join"
    /\ UNCHANGED <<nativeVars, nflag, pending, token, flag, workerVars, by>>

WakeWorker ==
    /\ spc = "wake" /\ spc' = "join" /\ token' = TRUE
    /\ UNCHANGED <<nativeVars, nflag, pending, flag, workerVars, by>>

JoinWorker ==
    /\ spc = "join" /\ (by = "callback" \/ wpc = "off") /\ spc' = "stopped"
    /\ UNCHANGED <<nativeVars, nflag, pending, token, flag, workerVars, by>>

-----------------------------------------------------------------------------
Native == NativeWait \/ Unnamed \/ Rearm \/ Scan \/ Emit \/ Insert \/ Wake \/ NativeEnd
Worker == Recv \/ RecvTimeout \/ Flush \/ Deliver \/ Verify \/ CallbackReturns
Stopping == JoinNative \/ WakeWorker \/ JoinWorker

\* The watch is over.
Over ==
    /\ spc = "stopped" /\ npc = "off" /\ wpc = "off"
    /\ UNCHANGED <<nativeVars, nflag, pending, token, flag, workerVars, spc, by>>

Next ==
    \/ \E r \in Resources : ExternalChange(r) \/ OwnChange(r) \/ Record(r) \/ Prune(r)
    \/ Native \/ NativeDies \/ Worker \/ WorkerDies \/ Stop \/ Stopping \/ Over

Spec == Init /\ [][Next]_watchVars

-----------------------------------------------------------------------------
(***************************************************************************)
(* "External changes remain visible even immediately after a mutation"     *)
(* (src/src/manager.rs): when both threads of a watch wait, every foreign  *)
(* state has been reported, unless the handle says that the watch is not   *)
(* active any more. Two other exceptions: a file that a directory watch    *)
(* has lost sight of, because it came back while the queue overflowed and  *)
(* the directory could not be read; and a device that could not be named.  *)
(***************************************************************************)
ExternalSeen ==
    \/ \A r \in Resources :
          told[r] = dns[r] \/ dns[r] = Ours \/ nflag \/ flag \/ r \in blind
    \/ ENABLED (Native \/ Worker)

(***************************************************************************)
(* "After stop no further callbacks will be delivered for this watch"      *)
(* (src/src/watch.rs), even if stop is called from within a callback.      *)
(***************************************************************************)
QuietAfterStop == [][(spc = "stopped" /\ wpc' = "callback") => wpc = "callback"]_watchVars

(***************************************************************************)
(* stop never waits for a thread that waits: until it has returned, it or  *)
(* one of the threads it joins has a step to take.                         *)
(***************************************************************************)
StopProceeds ==
    spc \in {"native", "wake", "join"} => ENABLED (Native \/ Worker \/ Stopping)
=============================================================================
