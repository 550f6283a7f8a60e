---------------------------- MODULE RevisionsLog ---------------------------
(***************************************************************************)
(* The revision machinery implements the log of RevisionLog.               *)
(***************************************************************************)
EXTENDS Revisions, Sequences

CONSTANTS
    Keep,    \* "this change leaves the path alone"
    Nothing  \* "this request has no submission under way"

ASSUME MarkAssumption ==
    Keep \notin Content \union {Absent} /\ Nothing \notin [Path -> Content \union {Absent, Keep}]

History == [k \in 1 .. latest |-> dir[k]]

\* The change that turns tree a into tree b.
Diff(a, b) == [x \in Path |-> IF a[x] = b[x] THEN Keep ELSE b[x]]

\* A submission made on top of no revision, one that restores an older revision
\* and one that names the revision it replaces determine every path of their
\* outcome; the others change what their author changed.
Submitted(s) ==
    IF s.old = 0 \/ s.kind \in {"restore", "exact"} THEN s.new
    ELSE Diff(TreeOf(s.old), s.new)

Quarantined(q) ==
    IF q.prior = 0 THEN q.tree ELSE Diff(TreeOf(q.prior), q.tree)

\* A submission is under way in a process or in a quarantine directory; it no
\* longer is once that directory was renamed or removed.
Pending(r) ==
    IF pc[r] = "ready" THEN Submitted(sub[r])
    ELSE IF Unfinished(quar[r]) /\ quar[r].onDisk THEN Quarantined(quar[r])
    ELSE Nothing

Log == INSTANCE RevisionLog WITH
    log <- History,
    frozen <- phase # "draft",
    pending <- [r \in Request |-> Pending(r)]

\* Whatever is overtaken, retried, killed or timed out, each submission is applied
\* to the latest revision at most once, never during a vote, and as its author made
\* it, but for what a kill inside a merge does to it: it may come to rewrite files that
\* it took from an intervening revision, or to delete a file that was being replaced
\* (create_revision_with_quarantine, _promote and start_vote_no_commit together).
ImplementsLog == Log!Spec
=============================================================================
