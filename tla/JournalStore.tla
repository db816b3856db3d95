---------------------------- MODULE JournalStore ----------------------------
(***************************************************************************)
(* The durable journal of src/src/journal.rs, restricted to the records of *)
(* one resource. A record lives in a file named after its lease, so a      *)
(* write replaces the lease's previous record atomically. A write or a     *)
(* removal can fail before it took effect or after (may_have_published,    *)
(* may_have_removed): the caller learns only that it failed.               *)
(***************************************************************************)
EXTENDS Backend

Phases == {"Prepared", "Applied"}

Records == [lease: Nat, inc: Nat, phase: Phases, before: Snapshots,
            desired: Plans, applied: Snapshots]

\* Stands for "no record"; lease ids of real records start at 1.
NoRecord == [lease |-> 0, inc |-> 0, phase |-> "Prepared", before |-> None,
             desired |-> CHOOSE p \in Plans : TRUE, applied |-> None]

\* The journal after the file of r's lease was replaced by r.
Published(j, r) == {x \in j : x.lease # r.lease} \cup {r}

\* The journal after the file of this lease was unlinked; an absent file is a
\* success.
Unlinked(j, lease) == {x \in j : x.lease # lease}

\* What the journal may hold after a failed write or a failed removal.
PublishedOrNot(j, r) == {j, Published(j, r)}

UnlinkedOrNot(j, lease) == {j, Unlinked(j, lease)}

\* records() rejects a journal in which two records claim one resource.
Readable(j) == \A r, s \in j : r = s
=============================================================================
