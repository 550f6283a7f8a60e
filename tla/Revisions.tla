----------------------------- MODULE Revisions -----------------------------
(***************************************************************************)
(* How revisions of one release come to exist: the life of every           *)
(* create_revision_with_quarantine() call, of the quarantine it may create *)
(* and of the worker task that validates and promotes that quarantine      *)
(* (atr/storage/writers/revision.py, atr/tasks/quarantine.py), against the *)
(* votes that freeze the release (start_vote_no_commit in                  *)
(* atr/storage/writers/release.py, _resolve_transition in                  *)
(* atr/storage/writers/vote.py).                                           *)
(*                                                                         *)
(* The database is one SQLite file.  A step here is one transaction, or    *)
(* what a process does between two transactions on files that no other     *)
(* process can see.  Any process may die between two steps, or between the *)
(* rename of a directory and the commit that records it.                   *)
(***************************************************************************)
EXTENDS Naturals, FiniteSets

CONSTANTS
    Request,     \* those who submit to the release, users or tasks
    Starter,     \* the one that started the release
    Kind,        \* the kinds of submission that each of them makes
    Voter,       \* those who start votes
    Path,        \* file paths
    Content,     \* file contents
    Archive,     \* the contents that are archives and need validation
    Absent,      \* "this path holds no file"
    NoDir,       \* "this revision directory does not exist"
    MaxRevision  \* bound on the revision numbers of a behaviour

ASSUME RequestAssumption == Starter \in Request
ASSUME KindAssumption == Kind \in [Request -> SUBSET {"edit", "exact", "source", "restore"}]
ASSUME ContentAssumption == Archive \subseteq Content /\ Absent \notin Content
ASSUME BoundAssumption == MaxRevision \in Nat \ {0}

Tree == [Path -> Content \union {Absent}]
ASSUME NoDirAssumption == NoDir \notin Tree

VARIABLES
    phase,      \* Release.phase
    voted,      \* Release.voted_revision_number, 0 for NULL
    latest,     \* the latest Revision row; the rows are 1 .. latest
    dir,        \* dir[k]: the files of revision directory k, or NoDir
    known,      \* known[k]: the archive hashes in the attestable file of k
    checks,     \* checks[k]: what became of the checks of revision k
    pc,         \* pc[r]: where the process serving request r is
    sub,        \* sub[r]: what that process holds in memory
    quar,       \* quar[r]: the Quarantined row of request r and its directory
                \*   (changed, the paths it was made to change, is read by properties only)
    task,       \* task[r]: the QUARANTINE_VALIDATE task of the row, "none" once
                \*   it is COMPLETED or FAILED
    worker,     \* worker[r]: where the worker process running that task is,
                \*   and the revision it has just created
    extracted,  \* archives/: the archive contents that were extracted safely
    starting    \* starting[v]: the revision that v read to start a vote on, or 0

db == <<phase, voted, latest, checks>>
files == <<dir, known>>
quarantine == <<quar, task, worker, extracted>>
vars == <<phase, voted, latest, dir, known, checks, pc, sub, quar, task, worker,
          extracted, starting>>

Number == 1 .. MaxRevision
Phases == {"draft", "candidate", "preview"}
Empty == [x \in Path |-> Absent]

----------------------------------------------------------------------------
(* Trees and merging *)

\* atr/merge.py, by content: the prior revision where nothing was edited.
Merge(base, prior, new) ==
    [x \in Path |-> IF base[x] = new[x] THEN prior[x] ELSE new[x]]

\* Slip: every file counts as an archive.
ArchivesOfAnySuffix(tree) == {tree[x] : x \in Path}

\* The archives among the files of a tree.
Archives(tree) == {tree[x] : x \in Path} \intersect Archive

TreeOf(k) == IF k = 0 THEN Empty ELSE dir[k]
KnownAt(k) == IF k = 0 THEN {} ELSE known[k]

\* What _lock_and_merge makes of a tree cloned from revision old: the merged
\* tree and the attestable data that the new revision continues.  The writer
\* holds the inodes and the data of revision old in memory; a revision never
\* changes, so that they are what they were.
Merged(mergeEnabled, old, new) ==
    IF mergeEnabled /\ old # 0 /\ latest # old
    THEN [tree |-> Merge(TreeOf(old), TreeOf(latest), new), previous |-> KnownAt(latest)]
    ELSE [tree |-> new, previous |-> KnownAt(old)]

\* Slip: without previous attestable data there is nothing to compare with.
DetectOnlyAgainstPrevious(m) ==
    m.previous # {} /\ ~ Archives(m.tree) \subseteq m.previous

\* detect_archives_requiring_quarantine: some archive was never accepted in
\* the history that the new revision continues.
NeedsQuarantine(m) == ~ Archives(m.tree) \subseteq m.previous

\* The edits of a modify callback: one path gets a content or is removed, or
\* nothing changes.
Edited(tree) == {tree} \union {[tree EXCEPT ![x] = c] : x \in Path, c \in Content \union {Absent}}

\* A vote may not start while this holds (pending_quarantine_count).
Unfinished(q) == q.status \in {"STAGING", "PENDING"}

NoSub == [kind |-> "none", old |-> 0, new |-> Empty]
NoQuar == [status |-> "none", prior |-> 0, tree |-> Empty, changed |-> {},
           archives |-> {}, onDisk |-> FALSE]
FailedQuar == [NoQuar EXCEPT !.status = "FAILED"]
NoWorker == [at |-> "none", rev |-> 0]

----------------------------------------------------------------------------
(* The release as _start_release leaves it: the row is committed, visible   *)
(* to everyone, and the first, empty revision is still to be created.       *)
Init ==
    /\ phase = "draft" /\ voted = 0 /\ latest = 0
    /\ dir = [k \in Number |-> NoDir]
    /\ known = [k \in Number |-> {}]
    /\ checks = [k \in Number |-> "none"]
    /\ pc = [r \in Request |-> IF r = Starter THEN "ready" ELSE "idle"]
    /\ sub = [r \in Request |-> IF r = Starter THEN [NoSub EXCEPT !.kind = "edit"] ELSE NoSub]
    /\ quar = [r \in Request |-> NoQuar]
    /\ task = [r \in Request |-> "none"]
    /\ worker = [r \in Request |-> NoWorker]
    /\ extracted = {}
    /\ starting = [v \in Voter |-> 0]

(* The first session of create_revision_with_quarantine, then the clone, the *)
(* modify callback and the hashes.  Revision directories are read-only, so   *)
(* that only the first session can be overtaken.                             *)
Prepare(r, kind, from, new) ==
    /\ kind \in Kind[r]
    /\ pc[r] = "idle" /\ quar[r].status = "none"
    /\ task[r] = "none" /\ worker[r] = NoWorker
    /\ phase = "draft"
    /\ pc' = [pc EXCEPT ![r] = "ready"]
    /\ sub' = [sub EXCEPT ![r] = [kind |-> kind, old |-> from, new |-> new]]
    /\ UNCHANGED <<db, files, quarantine, starting>>

\* An upload, deletion, move, ... of files.
BeginEdit(r) == \E new \in Edited(TreeOf(latest)) : Prepare(r, "edit", latest, new)

\* The same by a caller that names the revision it expects to replace.
BeginExact(r) ==
    /\ latest # 0
    /\ \E new \in Edited(TreeOf(latest)) : Prepare(r, "exact", latest, new)

\* set_commit_hash: only the source of the release changes, not its files.
BeginSource(r) == Prepare(r, "source", latest, TreeOf(latest))

\* Copy of an older revision (clone_from), which is never merged.
BeginRestore(r) == \E k \in 1 .. latest : Prepare(r, "restore", k, TreeOf(k))

----------------------------------------------------------------------------
(* The second session, under the write lock of begin_immediate              *)

\* Slip: the phase is checked by the first session only.
StaleWithoutPhase(r) ==
    \/ sub[r].kind = "source" /\ sub[r].old = 0 /\ latest # 0
    \/ sub[r].kind = "exact" /\ sub[r].old # latest

\* Slip: the expected revision is checked by the first session only.
StaleWithoutExpected(r) ==
    \/ phase # "draft"
    \/ sub[r].kind = "source" /\ sub[r].old = 0 /\ latest # 0

\* The release moved on while the clone was being made.
Stale(r) ==
    \/ phase # "draft"
    \/ sub[r].kind = "source" /\ sub[r].old = 0 /\ latest # 0
    \/ sub[r].kind = "exact" /\ sub[r].old # latest

MergedSub(r) == Merged(sub[r].kind # "restore", sub[r].old, sub[r].new)

\* A revision directory left by a process that died before its commit.
Blocked == latest < MaxRevision /\ dir[latest + 1] # NoDir

\* Any error before the commit: stale request, failed modify or validation, a
\* database that stays locked, a directory in the way.  The clone is removed.
Fail(r) ==
    /\ pc[r] = "ready"
    /\ pc' = [pc EXCEPT ![r] = "idle"]
    /\ sub' = [sub EXCEPT ![r] = NoSub]
    /\ UNCHANGED <<db, files, quarantine, starting>>

\* _commit_new_revision up to its commit: the row takes the next number, the
\* directory is renamed to it and the attestable files are written.
NewRevision(m) ==
    /\ latest < MaxRevision /\ ~Blocked
    /\ latest' = latest + 1
    /\ dir' = [dir EXCEPT ![latest'] = m.tree]
    /\ known' = [known EXCEPT ![latest'] = m.previous \union Archives(m.tree)]

Commit(r) ==
    /\ pc[r] = "ready" /\ ~Stale(r) /\ ~NeedsQuarantine(MergedSub(r))
    /\ NewRevision(MergedSub(r))
    /\ pc' = [pc EXCEPT ![r] = "unchecked"]
    /\ sub' = [sub EXCEPT ![r] = [NoSub EXCEPT !.old = latest']]
    /\ UNCHANGED <<phase, voted, checks, quarantine, starting>>

\* The transaction after the commit: draft_checks for the new revision.
QueueChecks(r) ==
    /\ pc[r] = "unchecked"
    /\ checks' = [checks EXCEPT ![sub[r].old] = "queued"]
    /\ pc' = [pc EXCEPT ![r] = "idle"]
    /\ sub' = [sub EXCEPT ![r] = NoSub]
    /\ UNCHANGED <<phase, voted, latest, files, quarantine, starting>>

\* _quarantine_archives up to its first commit.
Quarantine(r) ==
    /\ pc[r] = "ready" /\ ~Stale(r) /\ NeedsQuarantine(MergedSub(r))
    /\ sub[r].kind # "source"
    /\ quar' = [quar EXCEPT ![r] =
           [status |-> "STAGING", prior |-> latest, tree |-> MergedSub(r).tree,
            changed |-> {x \in Path : MergedSub(r).tree[x] # TreeOf(latest)[x]},
            archives |-> Archives(MergedSub(r).tree) \ MergedSub(r).previous, onDisk |-> TRUE]]
    /\ pc' = [pc EXCEPT ![r] = "staged"]
    /\ sub' = [sub EXCEPT ![r] = NoSub]
    /\ UNCHANGED <<db, files, task, worker, extracted, starting>>

\* ... and its second commit, which makes the submission visible to workers.
Enqueue(r) ==
    /\ pc[r] = "staged"
    /\ quar' = [quar EXCEPT ![r].status = "PENDING"]
    /\ task' = [task EXCEPT ![r] = "queued"]
    /\ pc' = [pc EXCEPT ![r] = "idle"]
    /\ UNCHANGED <<db, files, sub, worker, extracted, starting>>

\* The process serving r dies.  Its clone stays behind in tmp/.
Crash(r) ==
    /\ pc[r] # "idle"
    /\ pc' = [pc EXCEPT ![r] = "idle"]
    /\ sub' = [sub EXCEPT ![r] = NoSub]
    /\ UNCHANGED <<db, files, quarantine, starting>>

\* Slip: the row is committed before the directory is renamed.
CrashBeforeRename(r) ==
    /\ pc[r] = "ready" /\ ~Stale(r) /\ ~NeedsQuarantine(MergedSub(r))
    /\ latest < MaxRevision /\ ~Blocked
    /\ latest' = latest + 1
    /\ pc' = [pc EXCEPT ![r] = "idle"]
    /\ sub' = [sub EXCEPT ![r] = NoSub]
    /\ UNCHANGED <<phase, voted, checks, files, quarantine, starting>>

\* It dies, or raises, after the rename and before the commit: the row and its
\* number are rolled back, the directory is not.
CrashAfterRename(r) ==
    /\ pc[r] = "ready" /\ ~Stale(r) /\ ~NeedsQuarantine(MergedSub(r))
    /\ latest < MaxRevision /\ ~Blocked
    /\ dir' = [dir EXCEPT ![latest + 1] = MergedSub(r).tree]
    /\ pc' = [pc EXCEPT ![r] = "idle"]
    /\ sub' = [sub EXCEPT ![r] = NoSub]
    /\ UNCHANGED <<db, known, quarantine, starting>>

----------------------------------------------------------------------------
(* The worker: tasks/quarantine.py                                          *)

WorkerAt(r, at) == worker' = [worker EXCEPT ![r].at = at]

Claim(r) ==
    /\ task[r] = "queued" /\ worker[r] = NoWorker
    /\ task' = [task EXCEPT ![r] = "active"]
    /\ WorkerAt(r, "started")
    /\ UNCHANGED <<db, files, pc, sub, quar, extracted, starting>>

\* The row is gone or no longer PENDING.
NothingToValidate(r) ==
    /\ worker[r].at = "started" /\ quar[r].status # "PENDING"
    /\ WorkerAt(r, "done")
    /\ UNCHANGED <<db, files, pc, sub, quar, task, extracted, starting>>

\* _mark_failed: the quarantine directory is missing, ...
DirectoryMissing(r) ==
    /\ worker[r].at = "started" /\ quar[r].status = "PENDING" /\ ~quar[r].onDisk
    /\ quar' = [quar EXCEPT ![r] = FailedQuar]
    /\ WorkerAt(r, "done")
    /\ UNCHANGED <<db, files, pc, sub, task, extracted, starting>>

\* ... or an archive cannot be extracted.  Nothing looks at the directory again.
ExtractionFails(r) ==
    /\ worker[r].at = "started" /\ quar[r].status = "PENDING" /\ quar[r].onDisk
    /\ \E bad \in quar[r].archives \ extracted :
        \E before \in SUBSET (quar[r].archives \ {bad}) : extracted' = extracted \union before
    /\ quar' = [quar EXCEPT ![r] = FailedQuar]
    /\ WorkerAt(r, "done")
    /\ UNCHANGED <<db, files, pc, sub, task, starting>>

Extract(r) ==
    /\ worker[r].at = "started" /\ quar[r].status = "PENDING" /\ quar[r].onDisk
    /\ extracted' = extracted \union quar[r].archives
    /\ WorkerAt(r, "extracted")
    /\ UNCHANGED <<db, files, pc, sub, quar, task, starting>>

\* Slip: what was in quarantine is promoted as it is.
PromotedAsItIs(r) == Merged(FALSE, quar[r].prior, quar[r].tree)

\* finalise_revision of a quarantine merges with the revision it was based on.
MergedQuar(r) == Merged(TRUE, quar[r].prior, quar[r].tree)

\* _promote up to the commit of finalise_revision, which looks at neither the
\* phase of the release nor the status of the row.
Promote(r) ==
    /\ worker[r].at = "extracted"
    /\ NewRevision(MergedQuar(r))
    /\ quar' = [quar EXCEPT ![r].onDisk = FALSE]
    /\ worker' = [worker EXCEPT ![r] = [at |-> "promoted", rev |-> latest']]
    /\ UNCHANGED <<phase, voted, checks, pc, sub, task, extracted, starting>>

\* ... the transaction that queues its checks, ...
QueuePromotedChecks(r) ==
    /\ worker[r].at = "promoted"
    /\ checks' = [checks EXCEPT ![worker[r].rev] = "queued"]
    /\ worker' = [worker EXCEPT ![r] = [at |-> "checked", rev |-> 0]]
    /\ UNCHANGED <<phase, voted, latest, files, pc, sub, quar, task, extracted, starting>>

\* ... and the one that deletes the row.
DeleteRow(r) ==
    /\ worker[r].at = "checked"
    /\ quar' = [quar EXCEPT ![r] = NoQuar]
    /\ WorkerAt(r, "done")
    /\ UNCHANGED <<db, files, pc, sub, task, extracted, starting>>

\* _task_result_process: the task is COMPLETED, unless it is FAILED already.
Finish(r) ==
    /\ worker[r].at = "done"
    /\ task' = [task EXCEPT ![r] = "none"]
    /\ worker' = [worker EXCEPT ![r] = NoWorker]
    /\ UNCHANGED <<db, files, pc, sub, quar, extracted, starting>>

\* The task raises, for example because the database stays locked: it is FAILED.
\* finalise_revision removes the directory when it raises before its rename.
WorkerRaises(r) ==
    /\ worker[r].at \notin {"none", "done"}
    /\ task' = [task EXCEPT ![r] = "none"]
    /\ \E left \in {quar[r].onDisk, quar[r].onDisk /\ worker[r].at # "extracted"} :
        quar' = [quar EXCEPT ![r].onDisk = left]
    /\ worker' = [worker EXCEPT ![r] = NoWorker]
    /\ UNCHANGED <<db, files, pc, sub, extracted, starting>>

\* The worker dies; the manager requeues what it had claimed.
WorkerDies(r) ==
    /\ worker[r] # NoWorker
    /\ task' = [task EXCEPT ![r] = IF @ = "active" THEN "queued" ELSE @]
    /\ worker' = [worker EXCEPT ![r] = NoWorker]
    /\ UNCHANGED <<db, files, pc, sub, quar, extracted, starting>>

\* The files of the quarantine that merge() may replace by those of the latest
\* revision.  It may do so for equal contents too, under different inodes.
Replaceable(r) ==
    {x \in Path : /\ quar[r].prior # 0 /\ latest # quar[r].prior
                  /\ quar[r].tree[x] = TreeOf(quar[r].prior)[x]
                  /\ Absent \notin {quar[r].tree[x], TreeOf(latest)[x]}}

\* It dies inside merge(), which changes the quarantine directory in place, between
\* two paths or between the removal of a file and the link that replaces it.
WorkerDiesMerging(r) ==
    /\ worker[r].at = "extracted"
    /\ \E visited \in SUBSET Path, removed \in {{}} \union {{x} : x \in Replaceable(r)} :
        quar' = [quar EXCEPT ![r].tree =
            [x \in Path |-> IF x \in removed THEN Absent
                            ELSE IF x \in visited THEN MergedQuar(r).tree[x] ELSE @[x]]]
    /\ task' = [task EXCEPT ![r] = IF @ = "active" THEN "queued" ELSE @]
    /\ worker' = [worker EXCEPT ![r] = NoWorker]
    /\ UNCHANGED <<db, files, pc, sub, extracted, starting>>

\* It dies between the rename and the commit.
WorkerDiesAfterRename(r) ==
    /\ worker[r].at = "extracted"
    /\ latest < MaxRevision /\ ~Blocked
    /\ dir' = [dir EXCEPT ![latest + 1] = MergedQuar(r).tree]
    /\ quar' = [quar EXCEPT ![r].onDisk = FALSE]
    /\ task' = [task EXCEPT ![r] = IF @ = "active" THEN "queued" ELSE @]
    /\ worker' = [worker EXCEPT ![r] = NoWorker]
    /\ UNCHANGED <<db, known, pc, sub, extracted, starting>>

\* terminate_long_running_task: the task is FAILED before its worker is stopped,
\* and the worker goes on until it is.
TimeOut(r) ==
    /\ task[r] = "active"
    /\ task' = [task EXCEPT ![r] = "none"]
    /\ UNCHANGED <<db, files, pc, sub, quar, worker, extracted, starting>>

\* clear_quarantine: the row becomes ACKNOWLEDGED, and nothing reads it again.
ClearQuarantine(r) ==
    /\ quar[r].status = "FAILED"
    /\ quar' = [quar EXCEPT ![r] = NoQuar]
    /\ UNCHANGED <<db, files, pc, sub, task, worker, extracted, starting>>

----------------------------------------------------------------------------
(* Checks and votes                                                         *)

ChecksFinish(k) ==
    /\ checks[k] = "queued"
    /\ checks' = [checks EXCEPT ![k] = "done"]
    /\ UNCHANGED <<phase, voted, latest, files, quarantine, pc, sub, starting>>

\* vote.start loads the release, and with it the number of its latest revision,
\* before it takes the write lock; the loaded object is not refreshed.
ReadForVote(v) ==
    /\ starting[v] = 0 /\ phase = "draft" /\ latest # 0
    /\ starting' = [starting EXCEPT ![v] = latest]
    /\ UNCHANGED <<db, files, quarantine, pc, sub>>

\* Slip: the vote starts on the revision that was read, latest or not.
StartVoteOnRead(v) ==
    /\ starting[v] # 0
    /\ checks[starting[v]] # "queued"
    /\ \A r \in Request : ~Unfinished(quar[r])
    /\ dir[starting[v]] # Empty
    /\ phase = "draft"
    /\ phase' = "candidate" /\ voted' = starting[v]
    /\ starting' = [starting EXCEPT ![v] = 0]
    /\ UNCHANGED <<latest, checks, files, quarantine, pc, sub>>

\* Slip: a submission still in quarantine does not hold up the vote.
StartVoteDuringQuarantine(v) ==
    /\ starting[v] # 0
    /\ checks[starting[v]] # "queued"
    /\ dir[starting[v]] # Empty
    /\ phase = "draft" /\ latest = starting[v]
    /\ phase' = "candidate" /\ voted' = starting[v]
    /\ starting' = [starting EXCEPT ![v] = 0]
    /\ UNCHANGED <<latest, checks, files, quarantine, pc, sub>>

\* start_vote_no_commit: the checks on the revision that was read, the count of
\* quarantines, and the compare-and-set of the phase and the latest revision.
StartVote(v) ==
    /\ starting[v] # 0
    /\ checks[starting[v]] # "queued"
    /\ \A r \in Request : ~Unfinished(quar[r])
    /\ dir[starting[v]] # Empty
    /\ phase = "draft" /\ latest = starting[v]
    /\ phase' = "candidate" /\ voted' = starting[v]
    /\ starting' = [starting EXCEPT ![v] = 0]
    /\ UNCHANGED <<latest, checks, files, quarantine, pc, sub>>

VoteRefused(v) ==
    /\ starting[v] # 0
    /\ starting' = [starting EXCEPT ![v] = 0]
    /\ UNCHANGED <<db, files, quarantine, pc, sub>>

\* _resolve_transition: the vote passes, or it fails or is cancelled.
ResolveVote ==
    /\ phase = "candidate"
    /\ \/ phase' = "preview" /\ voted' = voted
       \/ phase' = "draft" /\ voted' = 0
    /\ UNCHANGED <<latest, checks, files, quarantine, pc, sub, starting>>

----------------------------------------------------------------------------
RequestStep(r) ==
    \/ BeginEdit(r) \/ BeginExact(r) \/ BeginSource(r) \/ BeginRestore(r)
    \/ Commit(r) \/ QueueChecks(r) \/ Quarantine(r) \/ Enqueue(r)
    \/ Fail(r) \/ Crash(r) \/ CrashAfterRename(r)
    \/ ClearQuarantine(r)

WorkerStep(r) ==
    \/ Claim(r) \/ NothingToValidate(r) \/ DirectoryMissing(r)
    \/ ExtractionFails(r) \/ Extract(r) \/ Promote(r)
    \/ QueuePromotedChecks(r) \/ DeleteRow(r) \/ Finish(r)
    \/ WorkerRaises(r) \/ WorkerDies(r)
    \/ WorkerDiesMerging(r) \/ WorkerDiesAfterRename(r)
    \/ TimeOut(r)

VoteStep(v) == ReadForVote(v) \/ StartVote(v) \/ VoteRefused(v)

Next ==
    \/ \E r \in Request : RequestStep(r) \/ WorkerStep(r)
    \/ \E k \in Number : ChecksFinish(k)
    \/ \E v \in Voter : VoteStep(v)
    \/ ResolveVote

Spec == Init /\ [][Next]_vars

----------------------------------------------------------------------------
(* Properties *)

Submission ==
    [kind : {"none", "edit", "exact", "source", "restore"}, old : 0 .. MaxRevision, new : Tree]
QuarantineRow ==
    [status : {"none", "STAGING", "PENDING", "FAILED"}, prior : 0 .. MaxRevision,
     tree : Tree, changed : SUBSET Path, archives : SUBSET Archive, onDisk : BOOLEAN]
WorkerState ==
    [at : {"none", "started", "extracted", "promoted", "checked", "done"},
     rev : 0 .. MaxRevision]

TypeOK ==
    /\ phase \in Phases /\ voted \in 0 .. MaxRevision /\ latest \in 0 .. MaxRevision
    /\ dir \in [Number -> Tree \union {NoDir}]
    /\ known \in [Number -> SUBSET Archive]
    /\ checks \in [Number -> {"none", "queued", "done"}]
    /\ pc \in [Request -> {"idle", "ready", "unchecked", "staged"}]
    /\ sub \in [Request -> Submission]
    /\ quar \in [Request -> QuarantineRow]
    /\ task \in [Request -> {"none", "queued", "active"}]
    /\ worker \in [Request -> WorkerState]
    /\ extracted \subseteq Archive
    /\ starting \in [Voter -> 0 .. MaxRevision]

\* "A candidate's or preview's voted revision, when recorded, is still its latest
\* revision" (release_voted_revision in atr/validate.py).
VotedIsLatest == phase # "draft" => voted = latest

\* "A staging or pending quarantine ... belongs to a draft" (quarantines in
\* atr/validate.py).
QuarantineInDraft == \A r \in Request : Unfinished(quar[r]) => phase = "draft"

\* Each revision row has its directory, and at most one directory has no row:
\* that of the next number, which stops every further revision.
DirectoriesMatchRows ==
    \A k \in Number :
        /\ k <= latest => dir[k] # NoDir
        /\ dir[k] # NoDir => k <= latest + 1

\* No file reaches a revision, by upload, copy or merge, whose archive was not
\* extracted by a worker first.
ArchivesExtracted ==
    \A k \in 1 .. latest : Archives(dir[k]) \subseteq extracted

\* What is voted on, and what passed a vote, does not change, although the
\* promotion of a quarantine never looks at the phase.
VotedFilesFrozen == [][phase # "draft" /\ phase' # "draft" =>
                         latest' = latest /\ dir' = dir]_vars

\* "All checks must be completed before starting a vote" (start_vote_no_commit).
ChecksCompleteBeforeVote ==
    phase = "candidate" => checks[voted] = "done"

\* "Merge with the prior revision if there was an intervening change"
\* (_lock_and_merge), of a submission that had to wait in quarantine: what has changed
\* since, and its author did not touch, is as in the latest revision.
InterveningUpdateKept ==
    [][\A r \in Request :
        (quar[r].prior # 0 /\ worker[r].at = "extracted" /\ worker'[r].at = "promoted") =>
            \A x \in Path \ quar[r].changed :
                TreeOf(latest)[x] # TreeOf(quar[r].prior)[x] =>
                    dir'[latest'][x] = TreeOf(latest)[x]]_vars

\* "A pending quarantine has a queued or active validation task" (quarantine_pending
\* in atr/validate.py).
PendingHasTask ==
    \A r \in Request : quar[r].status = "PENDING" => task[r] \in {"queued", "active"}
=============================================================================
