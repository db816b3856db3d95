----------------------------- MODULE DirectFile -----------------------------
(***************************************************************************)
(* The direct /etc/resolv.conf backends: the shared part                   *)
(* (src/src/platform/unix/direct.rs) and the policies of Linux and BSD     *)
(* (src/src/platform/linux/direct.rs, src/src/platform/bsd/direct.rs).     *)
(*                                                                         *)
(* native.dns is <<>> without a file, else the content of the file with    *)
(* its metadata; native.up is check_usable: no other manager's file.       *)
(***************************************************************************)
EXTENDS BoundCall, DnsPlan

CONSTANTS
    Requests,
    Ours,       \* the two kinds this module models
    Edits       \* contents other programs write

Bsd == kind = "bsd"

Caps == [scopes |-> {"global"}, search |-> TRUE, split |-> FALSE, route |-> FALSE]

MaxNameservers == 3
MaxSearchDomains == 6

\* validate_plan: the limits of the BSD libc resolver.
ValidatePlan(plan) ==
    Bsd => /\ Len(plan.ns) <= MaxNameservers
           /\ Len(Without(plan.search, {Root})) <= MaxSearchDomains

Modes == {"rw-r--r--", "rw-r-----"}
DefaultMode == "rw-r--r--"

\* Modification times, which only BSD captures: the file's at first, then one
\* for every call and every edit.
Now == IF Bsd THEN 10 * (1 + calls) ELSE 0
Later == IF Bsd THEN 10 * (1 + calls) + events + 1 ELSE 0
Times == {0} \cup {10 * n + e : n \in 1..(MaxCalls + 1), e \in 0..MaxEvents}

File(content, mode, modified) == <<[content |-> content, mode |-> mode, modified |-> modified]>>

PublicState(dns) ==
    [ns |-> IF dns = <<>> THEN <<>> ELSE dns[1].content.ns,
     search |-> IF dns = <<>> THEN <<>> ELSE dns[1].content.search,
     routing |-> <<>>, route |-> "unset"]

\* A restored file has the captured content and time and, on Linux, mode.
RestoreGoal ==
    IF Bsd THEN {[f EXCEPT ![1].mode = m] : f \in Before \ {<<>>}, m \in Modes}
                \cup (Before \cap {<<>>})
    ELSE Before

Goal(plan) == {File(ResolvConf(plan), m, t) : m \in Modes, t \in Times}

Initial ==
    {[native |-> [inc |-> 1, up |-> TRUE, id |-> 0, dns |-> f, rest |-> "none"],
      aux |-> "none"] :
     f \in {<<>>} \cup {File(c, m, 0) : c \in Edits, m \in Modes}}

(***************************************************************************)
(* verify_expected compares content and metadata before anything is done   *)
(* and, once the new file is ready, before it is published.                *)
(***************************************************************************)
AsExpected == native.dns = call.expected.dns

Prepare ==
    /\ pc = "status"
    /\ \/ native.up /\ CheckExpected(AsExpected, "stage") /\ UNCHANGED bounds
       \/ ~native.up /\ Answer("Rejected", NoState) /\ UNCHANGED bounds
       \/ Faulty /\ Answer("Rejected", NoState)
    /\ UNCHANGED <<kind, native, aux, lease, hist>>

Removal == call.op = "restore" /\ call.target.dns = <<>>

\* Mutant: a restored file has the time of its restoration.
StagedUntimed ==
    LET mode == IF call.expected.dns = <<>> THEN DefaultMode ELSE call.expected.dns[1].mode
    IN IF call.op = "apply" THEN File(ResolvConf(call.plan), mode, Now)
       ELSE File(call.target.dns[1].content,
                 IF Bsd /\ call.expected.dns # <<>> THEN mode ELSE call.target.dns[1].mode, Now)

\* The file to publish. A missing file gets the default mode; apply keeps the
\* mode of the file it replaces, restore sets the captured one on Linux and
\* keeps the mode of the file on BSD, where it sets the captured time.
Staged ==
    LET mode(before) == IF before = <<>> THEN DefaultMode ELSE before[1].mode
    IN IF call.op = "apply"
       THEN File(ResolvConf(call.plan), mode(call.expected.dns), Now)
       ELSE LET target == call.target.dns[1]
            IN File(target.content,
                    IF Bsd /\ call.expected.dns # <<>> THEN mode(call.expected.dns)
                    ELSE target.mode,
                    target.modified)

\* The temporary file: refused beside a file of another manager or one whose
\* attributes cannot be kept. A removal stages nothing.
Stage ==
    /\ pc = "stage"
    /\ \/ (Removal \/ native.up) /\ Goto("verify") /\ UNCHANGED bounds
       \/ ~Removal /\ ~native.up /\ Result("err") /\ UNCHANGED <<call, bounds>>
       \/ ~Removal /\ Faulty /\ Result("err") /\ UNCHANGED call
    /\ UNCHANGED <<kind, native, aux, lease, hist>>

VerifyExpected ==
    /\ pc = "verify"
    /\ \/ /\ native.up /\ AsExpected
          /\ Goto(IF Removal THEN "usable" ELSE "publish") /\ UNCHANGED bounds
       \/ native.up /\ ~AsExpected /\ Result("external") /\ UNCHANGED <<call, bounds>>
       \/ ~native.up /\ Result("err") /\ UNCHANGED <<call, bounds>>
       \/ Faulty /\ Result("err") /\ UNCHANGED call
    /\ UNCHANGED <<kind, native, aux, lease, hist>>

CheckUsable ==
    /\ pc = "usable"
    /\ \/ native.up /\ Goto("remove")
       \/ ~native.up /\ Result("err") /\ UNCHANGED call
    /\ UNCHANGED <<kind, native, aux, lease, hist, bounds>>

\* The rename replaces whatever is there. An error after it (a file flag on BSD)
\* leaves the new file in place.
Publish ==
    /\ Writing("publish", [native EXCEPT !.dns = Staged, !.up = TRUE],
               IF call.op = "apply" THEN "reread" ELSE "return")
    /\ UNCHANGED aux

RemoveCurrent ==
    /\ Writing("remove", [native EXCEPT !.dns = <<>>, !.up = TRUE], "return")
    /\ UNCHANGED aux

\* apply_snapshot reads the file again: content and preserved metadata.
Preserved ==
    /\ native.up /\ native.dns # <<>>
    /\ native.dns[1].content = ResolvConf(call.plan)
    /\ call.expected.dns # <<>> =>
          /\ native.dns[1].mode = call.expected.dns[1].mode
          /\ ~Bsd => native.dns[1].modified = call.expected.dns[1].modified

Reread ==
    /\ pc = "reread"
    /\ \/ Preserved /\ Result("ok") /\ UNCHANGED bounds
       \/ ~Preserved /\ Result("err") /\ UNCHANGED bounds
       \/ Faulty /\ Result("err")
    /\ UNCHANGED <<kind, native, aux, call, lease, hist>>

(***************************************************************************)
(* Other programs edit, restrict or delete the file, or take it over.      *)
(***************************************************************************)
Rival ==
    /\ \/ \E c \in Edits : Foreign([native EXCEPT !.dns = File(c, DefaultMode, Later), !.up = TRUE])
       \/ \E m \in Modes : native.dns # <<>> /\ Foreign([native EXCEPT !.dns[1].mode = m])
       \/ native.dns # <<>> /\ Foreign([native EXCEPT !.dns = <<>>, !.up = TRUE])
       \/ \E c \in Edits : Foreign([native EXCEPT !.dns = File(c, DefaultMode, Later), !.up = FALSE])
    /\ UNCHANGED aux

Next ==
    /\ kind \in Ours
    /\ \/ Observe
       \/ \E p \in Accepted(Requests, Caps) : ValidatePlan(p) /\ BeginApply(p, Goal(p), FALSE)
       \/ Verify \/ BeginRestore(RestoreGoal, FALSE) \/ EndRestore
       \/ Prepare \/ Stage \/ VerifyExpected \/ CheckUsable \/ Publish \/ RemoveCurrent \/ Reread
       \/ Return \/ Rival \/ Crash
=============================================================================
