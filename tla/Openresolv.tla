----------------------------- MODULE Openresolv -----------------------------
(***************************************************************************)
(* The openresolv backend (src/src/platform/unix/openresolv.rs): one record *)
(* of the resolvconf database, from which the resolvconf command generates *)
(* /etc/resolv.conf together with the records of other programs.           *)
(*                                                                         *)
(* native.dns is the record, native.rest the other records, native.id the  *)
(* live file and native.up whether openresolv still owns that file.        *)
(***************************************************************************)
EXTENDS BoundCall, DnsPlan

CONSTANTS
    Requests,
    Ours,
    Others      \* contents of the records of other programs

Caps == [scopes |-> {"global"}, search |-> TRUE, split |-> FALSE, route |-> FALSE]

NoRecord == [content |-> <<>>, metric |-> "none", deprecated |-> FALSE]

\* A record with the attributes osdns gives it.
Record(plan) == [content |-> <<ResolvConf(plan)>>, metric |-> "0", deprecated |-> FALSE]

\* The file resolvconf generates: records in the order of their metrics, a
\* deprecated one after the others.
Generated(record, others) ==
    LET own == IF record.content = <<>> THEN [ns |-> <<>>, search |-> <<>>]
               ELSE record.content[1]
        List(field) == IF record.deprecated THEN others[field] \o own[field]
                       ELSE own[field] \o others[field]
    IN [ns |-> Distinct(List("ns")), search |-> Distinct(List("search"))]

\* Every run of resolvconf regenerates the file, unless it finds one that is not
\* its own.
Resolvconf(record) ==
    [native EXCEPT !.dns = record, !.id = IF native.up THEN Generated(record, native.rest) ELSE @]

\* ordered_subsequence takes the wanted values one after the other from the
\* available ones.
OrderedSubsequence(wanted, available) ==
    LET taken[n \in 0..Len(available)] ==
            IF n = 0 THEN 0
            ELSE IF taken[n - 1] < Len(wanted) /\ available[n] = wanted[taken[n - 1] + 1]
            THEN taken[n - 1] + 1
            ELSE taken[n - 1]
    IN taken[Len(available)] = Len(wanted)

LiveMatches(live, plan) ==
    /\ OrderedSubsequence(plan.ns, live.ns)
    /\ OrderedSubsequence(Without(plan.search, {Root}), live.search)

PublicState(live) ==
    [ns |-> live.ns, search |-> live.search, routing |-> <<>>, route |-> "unset"]

\* The record may be one that an earlier process left behind.
Leftovers ==
    {[content |-> <<[ns |-> o.ns, search |-> o.search, options |-> "none"]>>,
      metric |-> "none", deprecated |-> TRUE] : o \in Others}

Initial ==
    {[native |-> [inc |-> 1, up |-> TRUE, id |-> Generated(r, o), dns |-> r, rest |-> o],
      aux |-> "none"] : r \in {NoRecord} \cup Leftovers, o \in Others}

(***************************************************************************)
(* The checks of apply_bound and restore_bound: the record, then the live  *)
(* file if the expected state has one. The status is always Same.          *)
(***************************************************************************)
ReadRecord(from, to) ==
    /\ pc = from
    /\ loc' = [loc EXCEPT !.cur = native.dns] /\ pc' = to
    /\ UNCHANGED <<kind, native, aux, call, lease, hist, bounds>>

RecordUnreadable(from, answer) ==
    /\ pc = from /\ Faulty
    /\ Answer(answer, NoState)
    /\ UNCHANGED <<kind, native, aux, lease, hist>>

CheckLive ==
    /\ pc = "live"
    /\ CheckExpected(/\ \/ call.expected.id = NoState
                        \/ native.up /\ native.id = call.expected.id
                     /\ loc.cur = call.expected.dns, "command")
    /\ UNCHANGED <<kind, native, aux, lease, hist, bounds>>

(***************************************************************************)
(* Runs of the resolvconf command. A run that fails, or that is killed at  *)
(* its deadline, may have stored the attributes, the record or everything. *)
(***************************************************************************)
Failed == pc' = "readback" /\ loc' = [loc EXCEPT !.res = "err"]

Run(from, record, to) ==
    /\ pc = from
    /\ \/ /\ Wrote(Resolvconf(record)) /\ UNCHANGED bounds
          /\ pc' = to /\ loc' = [loc EXCEPT !.res = "ok"]
       \/ Faulty /\ Failed /\ Wrote(Resolvconf(record))
       \/ Faulty /\ Failed /\ Wrote([native EXCEPT !.dns = record])
       \/ Faulty /\ Failed /\ Wrote([native EXCEPT !.dns.metric = record.metric])
       \/ Faulty /\ Failed /\ UNCHANGED <<native, call>>
    /\ UNCHANGED <<kind, aux, lease, hist>>

\* resolvconf -a leaves a deprecation marker in place.
Added(record) == [record EXCEPT !.deprecated = native.dns.deprecated]

Add ==
    \/ call.op = "apply" /\ Run("command", Added(Record(call.plan)), "undeprecate")
    \/ /\ call.op = "restore" /\ call.target.dns.content # <<>>
       /\ Run("command", Added(call.target.dns),
              IF call.target.dns.deprecated THEN "deprecate" ELSE "readback")

Delete ==
    /\ call.op = "restore" /\ call.target.dns.content = <<>>
    /\ Run("command", NoRecord, "readback")

Undeprecate == Run("undeprecate", [native.dns EXCEPT !.deprecated = FALSE], "readback")
Deprecate == Run("deprecate", [native.dns EXCEPT !.deprecated = TRUE], "readback")

\* Mutant: the state asked for is issued as the state made.
ConcludedBlindly(live) ==
    LET wanted == IF call.op = "apply" THEN Record(call.plan) ELSE call.target.dns
        active == call.op = "restore" \/ (live # NoState /\ LiveMatches(live, call.plan))
    IN Answer(IF loc.res = "ok" /\ loc.cur = wanted /\ active THEN "Performed"
              ELSE "Indeterminate", [id |-> live, dns |-> wanted])

\* The answer after the record and the live file are read back; a live file that
\* cannot be read leaves the snapshot without one.
Concluded(live) ==
    LET wanted == IF call.op = "apply" THEN Record(call.plan) ELSE call.target.dns
        stored == loc.cur = wanted
        active == call.op = "restore" \/ (live # NoState /\ LiveMatches(live, call.plan))
        done == loc.res = "ok" /\ stored /\ active
    IN Answer(IF done THEN "Performed" ELSE "Indeterminate",
              IF stored THEN [id |-> live, dns |-> loc.cur] ELSE NoState)

Finish ==
    /\ pc = "finish"
    /\ \/ native.up /\ Concluded(native.id) /\ UNCHANGED bounds
       \/ ~native.up /\ Concluded(NoState) /\ UNCHANGED bounds
       \/ Faulty /\ Concluded(NoState)
    /\ UNCHANGED <<kind, native, aux, lease, hist>>

(***************************************************************************)
(* Other programs change their records, deprecate or delete this one, edit *)
(* the live file or replace it by one of their own.                        *)
(***************************************************************************)
Rival ==
    /\ \/ \E o \in Others :
             Foreign([native EXCEPT !.rest = o,
                         !.id = IF native.up THEN Generated(native.dns, o) ELSE @])
       \/ native.dns.content # <<>> /\ Foreign(Resolvconf([native.dns EXCEPT !.deprecated = TRUE]))
       \/ Foreign(Resolvconf(NoRecord))
       \/ native.up /\ Foreign([native EXCEPT !.id.ns = <<>>])
       \/ native.up /\ Foreign([native EXCEPT !.up = FALSE])
    /\ UNCHANGED aux

Next ==
    /\ kind = Ours
    /\ \/ Observe
       \/ \E p \in Accepted(Requests, Caps) : BeginApply(p, {Record(p)}, FALSE)
       \/ Verify \/ BeginRestore(Before, FALSE) \/ EndRestore
       \/ ReadRecord("status", "live") \/ RecordUnreadable("status", "Rejected") \/ CheckLive
       \/ Add \/ Delete \/ Undeprecate \/ Deprecate
       \/ ReadRecord("readback", "finish") \/ RecordUnreadable("readback", "Indeterminate")
       \/ Finish \/ Rival \/ Crash
=============================================================================
