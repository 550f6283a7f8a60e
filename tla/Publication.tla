---------------------------- MODULE Publication ----------------------------
(***************************************************************************)
(* The releases of one cycle from their approval to the archive: the       *)
(* publication to the distribution area (an SVN repository), the           *)
(* announcement, the archiving of the release before, the removal of its   *)
(* files, and the watcher that reconciles the rows with commits made by    *)
(* hand (atr/storage/writers/release.py and announce.py,                   *)
(* atr/tasks/svnpub.py, atr/svn/catalog.py).                               *)
(*                                                                         *)
(* The SVN server is external: a log of commits.  Revisions of a release   *)
(* cannot be made after its vote has begun (module Revisions), so that a   *)
(* release has one set of files here.                                      *)
(***************************************************************************)
EXTENDS Naturals, FiniteSets, Sequences

CONSTANTS
    Release,     \* the releases of the cycle, in the order of their versions
    Shared,      \* those published in a directory they share; others have their own
    Removal,     \* the SVN_UNPUBLISH tasks that may be queued in a behaviour
    Profile,     \* the sets of faults, one of which a behaviour has
    MaxCommits,  \* bound on the SVN revisions
    MaxFaults    \* bound on the faults of a behaviour

ASSUME ReleaseAssumption == Release \subseteq Nat \ {0} /\ Shared \subseteq Release
ASSUME ProfileAssumption ==
    \A set \in Profile : set \subseteq
        {"die",      \* a worker dies and the manager returns its task to the queue
         "fail",     \* a task fails otherwise: the manager ends one that takes too long,
                     \*   or it raises what nothing handles
         "defer",    \* a task cannot reach SVN, before or after it commits
         "refuse",   \* SVN refuses for good
         "timeout",  \* the svn command is killed after SVN has committed
         "early",    \* files are removed by hand before they are announced
         "remove",   \* announced files are removed by hand
         "again",    \* files are published by hand
         "replay",   \* the watcher reconnects, and is shown commits again
         "live",     \* it does before it has saved a cursor, and is shown only new ones
         "skip",     \* the watcher fails to handle a commit, and goes on
         "unread"}   \* it cannot read who made a commit, and takes it for a person's
ASSUME BoundAssumption == MaxCommits \in Nat /\ MaxFaults \in Nat

VARIABLES
    profile,   \* the faults of this behaviour
    faults,    \* how many there were
    phase,     \* Release.phase
    archived,  \* the releases with Release.is_archived
    pub,       \* pub[v]: the last SVN_PUBLISH task of v and its svn_revision
    checked,   \* the releases whose announcement has checked the publication
    prior,     \* the releases whose announcement has yet to archive the one before
    rm,        \* the SVN_UNPUBLISH tasks
    log,       \* the commits of the repository
    watcher    \* how many of them it was shown, the last that it has handled, and the
               \*   last that its cursor file names (0, none)

rows == <<phase, archived>>
announcing == <<checked, prior>>
vars == <<profile, faults, phase, archived, pub, checked, prior, rm, log, watcher>>

NoPub == [st |-> "none", at |-> 0]
NoRemoval == [st |-> "none", rel |-> 0, base |-> 0]

Fault(f) == f \in profile /\ faults < MaxFaults /\ faults' = faults + 1

----------------------------------------------------------------------------
(* The repository *)

\* The releases whose files are in the directory of v, if they are anywhere.
Beside(v) == IF v \in Shared THEN Shared ELSE {v}

\* The commits up to revision n that touch the files of one of the releases vs.
Touching(vs, n) == {k \in 1 .. n : log[k].rels \intersect vs # {}}

\* The last of some commits: the last changed revision of a file or directory.
Last(commits) == {k \in commits : \A j \in commits : j <= k}

\* The files of v are in the distribution area at revision n.
Present(v, n) == \E k \in Last(Touching({v}, n)) : log[k].op = "add"

Youngest == Len(log)
InDist(v) == Present(v, Youngest)
Together(v, n) == {w \in Beside(v) : Present(w, n)}

\* A commit of somebody ("atr" or "hand") adds the files of v; it makes the directory
\* unless other files are there.
Add(by, v) ==
    /\ Youngest < MaxCommits
    /\ log' = Append(log, [by |-> by, op |-> "add", rels |-> {v}, made |-> Together(v, Youngest) = {}])

Remove(by, vs) ==
    /\ Youngest < MaxCommits
    /\ log' = Append(log, [by |-> by, op |-> "rm", rels |-> vs, made |-> FALSE])

----------------------------------------------------------------------------
Init ==
    /\ profile \in Profile /\ faults = 0
    /\ phase = [v \in Release |-> "preview"]
    /\ archived = {}
    /\ pub = [v \in Release |-> NoPub]
    /\ checked = {} /\ prior = {}
    /\ rm = [t \in Removal |-> NoRemoval]
    /\ log = <<>> /\ watcher = [seen |-> 0, staged |-> 0, cursor |-> 0]

----------------------------------------------------------------------------
(* Publication *)

InFlight(v) == pub[v].st \in {"queued", "active", "imported"}

\* publish_to_svn: there is no task of the revision under way or completed.
QueuePublish(v) ==
    /\ phase[v] = "preview" /\ ~InFlight(v) /\ pub[v].st # "done"
    /\ pub' = [pub EXCEPT ![v] = [st |-> "queued", at |-> 0]]
    /\ UNCHANGED <<profile, faults, rows, announcing, rm, log, watcher>>

\* publish_to_svn_execute, up to the import.
StartPublish(v) ==
    /\ pub[v].st = "queued"
    /\ pub' = [pub EXCEPT ![v].st = IF phase[v] = "preview" THEN "active" ELSE "failed"]
    /\ UNCHANGED <<profile, faults, rows, announcing, rm, log, watcher>>

Import(v) ==
    /\ pub[v].st = "active" /\ ~InDist(v)
    /\ Add("atr", v)
    /\ pub' = [pub EXCEPT ![v] = [st |-> "imported", at |-> Youngest + 1]]
    /\ UNCHANGED <<profile, faults, rows, announcing, rm, watcher>>

\* Slip: any commit of ATR's that made the directory will do.
MatchesAnyOfOurs(v, k) == log[k].by = "atr"

\* publish_revision_matches: the last change of the directory, revision k, made it, by
\* ATR and with the message of this publication.
Matches(v, k) == log[k].by = "atr" /\ log[k].op = "add" /\ log[k].rels = {v} /\ log[k].made

\* The import is refused because files are there already (E160020): a commit of an
\* earlier try, or of others.  The earlier try of another person is not recognised, nor
\* is any when its log cannot be read.
AlreadyThere(v) ==
    /\ pub[v].st = "active" /\ InDist(v)
    /\ \/ \E k \in Last(Touching(Beside(v), Youngest)) :
            Matches(v, k) /\ pub' = [pub EXCEPT ![v] = [st |-> "imported", at |-> k]]
       \/ pub' = [pub EXCEPT ![v] = [st |-> "failed", at |-> 0]]
    /\ UNCHANGED <<profile, faults, rows, announcing, rm, log, watcher>>

FinishPublish(v) ==
    /\ pub[v].st = "imported"
    /\ pub' = [pub EXCEPT ![v].st = "done"]
    /\ UNCHANGED <<profile, faults, rows, announcing, rm, log, watcher>>

\* The task fails: SVN refuses or cannot be reached, it raises, or takes too long.
PublishFails(v) ==
    /\ \/ pub[v].st = "active" /\ (Fault("refuse") \/ Fault("defer"))
       \/ InFlight(v) /\ Fault("fail")
    /\ pub' = [pub EXCEPT ![v] = [st |-> "failed", at |-> 0]]
    /\ UNCHANGED <<profile, rows, announcing, rm, log, watcher>>

\* SVN commits, and the answer is lost.
PublishTimesOut(v) ==
    /\ pub[v].st = "active" /\ ~InDist(v)
    /\ Fault("timeout") /\ Add("atr", v)
    /\ pub' = [pub EXCEPT ![v] = [st |-> "failed", at |-> 0]]
    /\ UNCHANGED <<profile, rows, announcing, rm, watcher>>

PublishDies(v) ==
    /\ pub[v].st \in {"active", "imported"} /\ Fault("die")
    /\ pub' = [pub EXCEPT ![v] = [st |-> "queued", at |-> 0]]
    /\ UNCHANGED <<profile, rows, announcing, rm, log, watcher>>

----------------------------------------------------------------------------
(* Announcement *)

\* release, up to its transaction: the publication is recorded.  Whether the files can be
\* reached does not decide: a person may go on without (acknowledge_unreachable), nothing is
\* asked for without a usable URL or artifacts, and the local server is asked for the
\* revision that was published, which stays.
CheckPublication(v) ==
    /\ phase[v] = "preview" /\ pub[v].st = "done"
    /\ checked' = checked \union {v}
    /\ UNCHANGED <<profile, faults, rows, pub, prior, rm, log, watcher>>

\* Its transaction (__promote_in_database), with or without auto_archive_prior.
Announce(v) ==
    /\ v \in checked
    /\ checked' = checked \ {v}
    /\ \/ /\ phase[v] = "preview"
          /\ phase' = [phase EXCEPT ![v] = "release"]
          /\ prior' \in {prior, prior \union {v}}
       \/ phase[v] # "preview" /\ UNCHANGED <<phase, prior>>
    /\ UNCHANGED <<profile, faults, archived, pub, rm, log, watcher>>

----------------------------------------------------------------------------
(* Archiving *)

\* The first free SVN_UNPUBLISH task is one for v.
QueueRemoval(v) ==
    \E t \in Removal :
        /\ rm[t].st = "none" /\ \A s \in Removal : s < t => rm[s].st # "none"
        /\ rm' = [rm EXCEPT ![t] = [NoRemoval EXCEPT !.st = "queued", !.rel = v]]

\* archive_release_core
Archive(v) == phase[v] = "release" /\ v \notin archived /\ archived' = archived \union {v}

\* By a committee member, on the page of the release.
ArchiveByHand(v) ==
    /\ Archive(v) /\ QueueRemoval(v)
    /\ UNCHANGED <<profile, faults, phase, pub, announcing, log, watcher>>

\* prior_release_for_archive, for a project with semantic versions.
Prior(v) ==
    LET before == {w \in Release : w < v /\ phase[w] = "release" /\ w \notin archived}
    IN {w \in before : \A u \in before : u <= w}

\* __archive_prior_release, in a transaction after the announcement's; or there is none
\* to archive, or the process ends before.
ArchivePrior(v) ==
    /\ v \in prior
    /\ prior' = prior \ {v}
    /\ \/ \E w \in Prior(v) : Archive(w) /\ QueueRemoval(w)
       \/ UNCHANGED <<archived, rm>>
    /\ UNCHANGED <<profile, faults, phase, pub, checked, log, watcher>>

----------------------------------------------------------------------------
(* Removal: unpublish_from_svn_execute *)

\* The listing, pinned to the present head.
PlanRemoval(t) ==
    /\ rm[t].st = "queued"
    /\ rm' = [rm EXCEPT ![t].st = IF InDist(rm[t].rel) THEN "planned" ELSE "removed",
                        ![t].base = Youngest]
    /\ UNCHANGED <<profile, faults, rows, pub, announcing, log, watcher>>

\* What the plan names: the files of the release, and the whole directory if there are
\* no others.
Whole(t) == Together(rm[t].rel, rm[t].base) = {rm[t].rel}

\* Slip: whatever was committed since the listing.
UpToDateAnyway(t) == InDist(rm[t].rel)

\* What the plan names has not changed since the listing.
UpToDate(t) ==
    \A k \in Touching(IF Whole(t) THEN Beside(rm[t].rel) ELSE {rm[t].rel}, Youngest) : k <= rm[t].base

\* SVN removes what is named: with a directory, all that is in it.
Removes(t) ==
    /\ UpToDate(t)
    /\ Remove("atr", IF Whole(t) THEN Together(rm[t].rel, Youngest) ELSE {rm[t].rel})

RemoveFiles(t) ==
    /\ rm[t].st = "planned" /\ Removes(t)
    /\ rm' = [rm EXCEPT ![t].st = "removed"]
    /\ UNCHANGED <<profile, faults, rows, pub, announcing, watcher>>

\* RetryableError: the directory changed since, or SVN cannot be reached.  The commit
\* may have been made when the connection is lost.
DeferRemoval(t) ==
    /\ rm[t].st = "planned"
    /\ \/ ~UpToDate(t) /\ UNCHANGED <<faults, log>>
       \/ Fault("defer") /\ (UNCHANGED log \/ Removes(t))
    /\ rm' = [rm EXCEPT ![t].st = "queued", ![t].base = 0]
    /\ UNCHANGED <<profile, rows, pub, announcing, watcher>>

\* FailedError: SVN refuses, or the command is killed after SVN has committed.
RemovalFails(t) ==
    /\ rm[t].st = "planned"
    /\ \/ Fault("refuse") /\ UNCHANGED log
       \/ Fault("timeout") /\ Removes(t)
    /\ rm' = [rm EXCEPT ![t].st = "failing"]
    /\ UNCHANGED <<profile, rows, pub, announcing, watcher>>

\* Slip: the archive is left as it is.
RevertNothing(t) ==
    /\ rm[t].st = "failing"
    /\ rm' = [rm EXCEPT ![t].st = "reverted"]
    /\ UNCHANGED <<profile, faults, rows, pub, announcing, log, watcher>>

\* revert_failed_archive, in a session of its own.
Revert(t) ==
    /\ rm[t].st = "failing"
    /\ archived' = archived \ {rm[t].rel}
    /\ rm' = [rm EXCEPT ![t].st = "reverted"]
    /\ UNCHANGED <<profile, faults, phase, pub, announcing, log, watcher>>

\* The task is concluded, as completed or as failed.
ConcludeRemoval(t) ==
    /\ rm[t].st \in {"removed", "reverted"}
    /\ rm' = [rm EXCEPT ![t] = [NoRemoval EXCEPT !.st = "over"]]
    /\ UNCHANGED <<profile, faults, rows, pub, announcing, log, watcher>>

UnderWay(t) == rm[t].st \in {"planned", "removed", "failing", "reverted"}

\* Slip: the plan of the dead worker stays.
RemovalDiesKeepingPlan(t) ==
    /\ UnderWay(t) /\ Fault("die")
    /\ rm' = [rm EXCEPT ![t].st = "queued"]
    /\ UNCHANGED <<profile, rows, pub, announcing, log, watcher>>

RemovalDies(t) ==
    /\ UnderWay(t) /\ Fault("die")
    /\ rm' = [rm EXCEPT ![t].st = "queued", ![t].base = 0]
    /\ UNCHANGED <<profile, rows, pub, announcing, log, watcher>>

\* The task is failed and nothing is made up for: by the manager for taking too long, or
\* because it raises something else than RetryableError and FailedError (a database error,
\* what svn info cannot parse, no token), or the revert itself does.
RemovalBreaks(t) ==
    /\ (rm[t].st = "queued" \/ UnderWay(t)) /\ Fault("fail")
    /\ rm' = [rm EXCEPT ![t] = [NoRemoval EXCEPT !.st = "over"]]
    /\ UNCHANGED <<profile, rows, pub, announcing, log, watcher>>

----------------------------------------------------------------------------
(* Commits by hand, and the watcher *)

AddByHand(v) ==
    /\ ~InDist(v) /\ phase[v] = "release"
    /\ Fault("again") /\ Add("hand", v)
    /\ UNCHANGED <<profile, rows, pub, announcing, rm, watcher>>

RemoveByHand(v) ==
    /\ InDist(v)
    /\ IF phase[v] = "release" THEN Fault("remove") ELSE Fault("early")
    /\ Remove("hand", {v})
    /\ UNCHANGED <<profile, rows, pub, announcing, rm, watcher>>

\* The next commit, which is then the last that was handled.
Shown == watcher.seen + 1
Handled == watcher' = [watcher EXCEPT !.seen = Shown, !.staged = Shown]

\* The row of a release that appears is restored if it was archived, that of one that
\* disappears is archived (_apply_changes).
Apply(c) ==
    archived' = IF c.op = "add" THEN archived \ c.rels
                ELSE archived \union {v \in c.rels : phase[v] = "release"}

\* _committed_by_atr denies it: of a person's commit, and of any when it cannot be read.
External(c) ==
    \/ c.by = "hand" /\ UNCHANGED faults
    \/ c.by = "atr" /\ Fault("unread")

\* catalogue_commit, in its active mode.  ATR's own commits are left alone.
Catalogue ==
    /\ watcher.seen < Youngest
    /\ Handled
    /\ \/ log[Shown].by = "atr" /\ UNCHANGED <<faults, archived>>
       \/ External(log[Shown]) /\ Apply(log[Shown])
    /\ UNCHANGED <<profile, phase, pub, rm, announcing, log>>

\* The handler raises: the payload is kept as a failure, and the listener goes on.  Or the
\* write of a release does, which is logged: the commit counts as handled.
SkipCommit ==
    /\ watcher.seen < Youngest /\ Fault("skip")
    /\ Handled \/ watcher' = [watcher EXCEPT !.seen = Shown]
    /\ UNCHANGED <<profile, rows, pub, announcing, rm, log>>

\* Slip: the cursor is what was shown last, before it is handled.
CheckpointAhead ==
    /\ watcher.seen < Youngest
    /\ watcher' = [watcher EXCEPT !.cursor = Shown]
    /\ UNCHANGED <<profile, faults, rows, pub, announcing, rm, log>>

\* _checkpoint, at a sign of life of the stream.
Checkpoint ==
    /\ watcher.staged \notin {0, watcher.cursor}
    /\ watcher' = [watcher EXCEPT !.cursor = watcher.staged]
    /\ UNCHANGED <<profile, faults, rows, pub, announcing, rm, log>>

\* The connection is lost, or the server restarts and forgets what was staged: the stream
\* goes on after the cursor, or live without one.
Reconnect ==
    /\ IF watcher.cursor = 0 THEN Fault("live") ELSE Fault("replay")
    /\ \E staged \in {0, watcher.staged} :
         watcher' = [seen |-> IF watcher.cursor = 0 THEN Youngest ELSE watcher.cursor,
                     staged |-> staged, cursor |-> watcher.cursor]
    /\ UNCHANGED <<profile, rows, pub, announcing, rm, log>>

----------------------------------------------------------------------------
Next ==
    \/ \E v \in Release :
        \/ QueuePublish(v) \/ StartPublish(v) \/ Import(v) \/ AlreadyThere(v)
        \/ FinishPublish(v) \/ PublishFails(v) \/ PublishTimesOut(v) \/ PublishDies(v)
        \/ CheckPublication(v) \/ Announce(v)
        \/ ArchiveByHand(v) \/ ArchivePrior(v)
        \/ AddByHand(v) \/ RemoveByHand(v)
    \/ \E t \in Removal :
        \/ PlanRemoval(t) \/ RemoveFiles(t) \/ DeferRemoval(t) \/ RemovalFails(t)
        \/ Revert(t) \/ ConcludeRemoval(t) \/ RemovalDies(t) \/ RemovalBreaks(t)
    \/ Catalogue \/ SkipCommit \/ Checkpoint \/ Reconnect

Spec == Init /\ [][Next]_vars

\* Workers take tasks and conclude them (EveryTaskConcludes of TaskQueue), and the
\* watcher handles what it is shown.
Fairness ==
    /\ \A t \in Removal :
        WF_vars(PlanRemoval(t) \/ RemoveFiles(t) \/ DeferRemoval(t) \/ Revert(t) \/ ConcludeRemoval(t))
    /\ WF_vars(Catalogue)

FairSpec == Spec /\ Fairness

----------------------------------------------------------------------------
(* Properties *)

\* The values that rows and tasks hold (models/sql.py, models/results.py).
TypeOK ==
    /\ profile \in Profile /\ faults \in 0 .. MaxFaults
    /\ phase \in [Release -> {"preview", "release"}]
    /\ archived \subseteq {v \in Release : phase[v] = "release"}
    /\ pub \in [Release -> [st : {"none", "queued", "active", "imported", "done", "failed"},
                            at : 0 .. MaxCommits]]
    /\ checked \subseteq Release /\ prior \subseteq Release
    /\ rm \in [Removal -> [st : {"none", "queued", "planned", "removed", "failing", "reverted", "over"},
                           rel : Release \union {0}, base : 0 .. MaxCommits]]
    /\ \A t \in Removal : (rm[t].st \in {"none", "over"} <=> rm[t].rel = 0)
                           /\ (rm[t].st \in {"none", "queued", "over"} => rm[t].base = 0)
    /\ log \in Seq([by : {"atr", "hand"}, op : {"add", "rm"}, rels : SUBSET Release, made : BOOLEAN])
    /\ Youngest <= MaxCommits
    /\ watcher \in [seen : 0 .. Youngest, staged : 0 .. Youngest, cursor : 0 .. Youngest]

\* The SVN revision recorded for a publication is the commit by which ATR published
\* this very release, although tasks are retried after commits whose answer was lost
\* and others commit to the directory (publish_to_svn_execute, __already_published_result).
OwnCommit ==
    \A v \in Release :
        pub[v].st \in {"imported", "done"} =>
            /\ pub[v].at \in 1 .. Youngest
            /\ log[pub[v].at].by = "atr" /\ log[pub[v].at].op = "add" /\ log[pub[v].at].rels = {v}

\* No removal takes a file of another release, nor one that came after its plan
\* (__plan_removals and the pinned svnmucc rm).
OnlyPlannedRemoved ==
    [][\A t \in Removal :
        rm[t].st = "planned" /\ rm'[t] # rm[t] /\ log' # log =>
            /\ log'[Len(log')].rels = {rm[t].rel}
            /\ Present(rm[t].rel, rm[t].base)
            /\ \A k \in Touching({rm[t].rel}, Youngest) : k <= rm[t].base]_vars

\* No removal is queued or under way and the watcher has handled all commits.
Quiet == watcher.seen = Youngest /\ \A t \in Removal : rm[t].st \in {"none", "over"}

\* The faults that the code makes up for.  It does not when a removal is tried again that
\* a person, a fault or a second archive has overtaken: it never asks whether the release
\* is still archived.  Nor when a task fails without a revert, or the watcher misses a
\* commit, or cannot read who made it: then ATR's own publication of a release that has
\* been archived since, handled late or shown again, makes it current without files.
Benign ==
    \/ profile \subseteq {"die", "defer", "remove", "replay"}
    \/ profile \subseteq {"defer", "refuse", "replay"}

\* When nothing is under way, and nothing but Benign faults happened, the releases that are
\* recorded as current are those whose files are in the distribution area, although workers
\* die, connections are lost around commits, people remove files and the watcher is shown
\* commits late and again (archive_release_core, revert_failed_archive,
\* unpublish_from_svn_execute and catalogue_commit together).
RecordsAgree ==
    Benign /\ Quiet =>
        \A v \in Release : phase[v] = "release" => (v \notin archived <=> InDist(v))

\* Nothing that the records cannot tell from an archived release: a removal that failed
\* without a revert, files that were removed before they were announced or published by hand.
Settling == profile \intersect {"fail", "early", "again"} = {}

\* An archived release whose files are still in the distribution area has a removal that
\* has yet to run or to give the release back, however often workers die, commits are
\* refused or their answers lost, and whatever the watcher misses, misreads or is shown twice
\* (archive_release_core, unpublish_from_svn_execute, revert_failed_archive).
NoneForgotten ==
    Settling =>
        \A v \in archived : InDist(v) =>
            \E t \in Removal : rm[t].rel = v /\ rm[t].st \in {"queued", "planned", "failing"}

\* An archived release leaves the distribution area or is current again, except that nothing
\* makes up for a removal that fails without a revert: one that the manager ends, or that
\* raises what unpublish does not handle, or whose revert raises (tasks/svnpub.py).
ArchiveSettles ==
    \A v \in Release :
        v \in archived /\ "fail" \notin profile ~> ~InDist(v) \/ v \notin archived
=============================================================================
