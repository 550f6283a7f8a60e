# Formal models of Apache Trusted Releases

Apache Trusted Releases (ATR) takes the files of a release candidate from a
project's release managers, checks them, has them voted on, publishes them to
the Subversion distribution area and announces them. It is one Python web server
and a pool of worker processes that share a SQLite database, a directory tree and
a Subversion repository. This directory holds TLA+ models of the parts of ATR
whose correctness depends on the order of things: what may happen between two
transactions, between a transaction and a rename, or between a process and the
one that replaces it. TLC checks the models on small instances and TLAPS proves
the main invariants for instances of any size.

Paths below are relative to `src/atr/` unless they say otherwise.

## 1. Inventory

| Component | State | Operations | What is hard | What makes it correct |
| --- | --- | --- | --- | --- |
| Three-way merge (`merge.py`) | a directory, inode and hash maps | `merge` | sixteen cases per path, decided by inode or hash; files against directories; directory and hash map changed one path at a time | the result is a three-way merge, the directory stays possible, the hash map describes it |
| Revision creation (`storage/writers/revision.py`, `detection.py`, `attestable.py`) | `Revision` rows, revision directories, attestable files, clones in `tmp/` | `create_revision_with_quarantine`, `finalise_revision`, `clear_quarantine`, `set_tag` | two sessions with the clone made between them, without a lock; rename before commit; checks queued after commit; process death anywhere | revisions are a log: each submission is applied at most once, to the latest revision |
| Quarantine (`tasks/quarantine.py`) | `Quarantined` rows, quarantine directories, extracted archives | `validate`, `_promote`, `_mark_failed` | runs in a worker that may be killed and retried; merges when it is done, against whatever is latest by then | no archive reaches a revision unextracted; no quarantine outlives the draft |
| Task queue (`worker.py`, `manager.py`, `tasks/task.py`) | `Task` rows, processes, the manager's memory | claim, conclude, defer, fail, requeue, spawn, stop | process death, orphaned children, reused process numbers, a manager that acts after an await on what it read before | one executor per task, no verdict undone, every task concluded |
| Votes (`storage/writers/vote.py`, `tasks/vote.py`) | the vote fields of `Release`, ballots, follow-up tasks | `start`, `cast_trusted`, `resolve`, `auto_resolve`, cancel | two podling rounds; manual against automatic resolution; ballots during the tally | a resolution counts the ballots of its own vote, once |
| Release lifecycle (`storage/writers/release.py`) | `Release.phase`, rows and directories | start, vote, announce, archive, delete | deletion under running requests and tasks; re-creation under the same key | phases only move along the lifecycle; nothing of a deleted release acts on its successor |
| Publication (`storage/writers/release.py`, `announce.py`, `tasks/svnpub.py`, `svn/`) | SVN, publication and removal tasks, `Release.is_archived` | `publish_to_svn_execute`, announce, archive, `unpublish_from_svn_execute`, `revert_failed_archive`, finalise | an SVN commit cannot be rolled back with the transaction; its answer may be lost; retries; several releases in one directory | what is recorded as published is ATR's own commit; what is recorded as current is in SVN; a removal takes nothing else |
| Watcher (`pubsub.py`, `svn/catalog.py`) | a cursor file, the commit stream | `catalogue_commit`, `_checkpoint`, reconnect | commits shown twice, late or not at all; ATR's own commits among those of people | after the stream is handled the rows agree with the repository |
| Scheduling (`tasks/__init__.py`) | queued `Task` rows | `draft_checks`, recurring tasks, `_clear_existing_scheduled` | dedupe by reading first; a chain that each run must continue | one successor per recurring task, always |
| Checks and their cache (`tasks/checks/`, `tasks/__init__.py`) | `Task` and `CheckResult` rows by inputs hash | queue, run, record, reuse, ignore | one task and one set of results for all releases with the same inputs; deletions, retries, late workers | a completed check has its report; no vote starts on a blocker |
| Keys, sessions, tokens, SSH | rows, in-memory sessions | add, revoke, expire | revocation against a request in progress | a revoked credential does nothing more |
| Committees, projects, policies, catalogue, SBOM, distributions, audit logs, mail, front ends | rows, pages, logs | single-transaction edits, rendering, polling | little beyond one transaction | field rules of `validate.py` |

The components call each other through the writers of `storage/`, which run in
the web server and in the workers alike. They interact through the database
(SQLite in WAL mode: one writer at a time, `begin_immediate` takes the write
lock), through the file system (hard-linked clones and renames) and through
tasks: a writer adds a row, some worker claims it later. Nothing is called back.

Not modelled, with the reason, is listed in `PROJECT.json` under `components`
and summarised in section 8; hazards, each at its line, under `hazards`.

## 2. Modules

| Module | What it is |
| --- | --- |
| `Merge` | `merge.py`, path by path |
| `MCMerge` | three paths and three inodes for TLC |
| `Merge_proofs` | theorems on `Merge` for any paths and inodes |
| `Revisions` | revisions, quarantines, their tasks and votes of one release |
| `MCRevisions` | everybody edits, and a release that already has a first revision, for TLC |
| `RevisionLog` | abstract: a log to which submissions are applied |
| `RevisionsLog` | `Revisions` implements `RevisionLog`, by a refinement mapping |
| `MCRevisionsLog` | who makes which kinds of submission, for TLC |
| `RevisionsLog_proofs` | the proof of that, step by step, for instances of any size |
| `Revisions_proofs` | theorems on `Revisions` for any requests, paths, contents and voters |
| `Votes` | the votes on one release: rounds, ballots, resolutions, follow-up tasks |
| `BallotBox` | abstract: ballot boxes that are opened, filled and closed once |
| `VotesBox` | `Votes` implements `BallotBox`, by a refinement mapping |
| `Votes_proofs` | theorems on `Votes` for any voters, committees, requests and bounds, and the proof that it implements `BallotBox` |
| `TaskQueue` | the task table, workers and manager; implements `Jobs`, by a refinement mapping |
| `Jobs` | abstract: a queue of jobs, each begun by one agent at a time |
| `TaskQueue_proofs` | theorems on `TaskQueue` for any tasks, processes and faults, and the proof that it implements `Jobs` |
| `Checks` | the checks of the drafts of several releases and the results they share |
| `MCChecks` | symmetry for TLC |
| `Checks_proofs` | theorems on `Checks` for any releases, workers, contents and faults |
| `Publication` | the releases of one cycle, the distribution area, removals and the watcher |
| `Publication_proofs` | theorems on `Publication` for any releases, removals, commits and faults |
| `Recurring` | the tasks that queue their own successors, and the server that queues the first |
| `MCRecurring` | tasks of each sort and their faults, for TLC |
| `Recurring_proofs` | theorems on `Recurring` for any recurring tasks, workers and faults |

`Revisions` uses the merge as an operator on whole trees (`Merge(base, prior,
new)`); `Merge` shows that the code's in-place merge of inodes computes that
operator, away from type conflicts (`MergedIsThreeWay`). `Revisions` has its own
small copy of the life of one task per quarantine (`task`, `worker`), of which
`TaskQueue` shows the general rules: at most one executor, a claim returned only
after its claimant's death, a verdict never changed. In the same way `Votes` has the
revisions of a release as a number that grows in a draft, and `Revisions` has a vote
as a phase and a revision. `Checks` has the tasks of checks with the claim, verdict and
return to the queue that `TaskQueue` shows to be right; `Publication` begins where
`Votes` ends, with approved releases, and relies on `Revisions` for each having one set
of files. `Recurring` has claims, verdicts and returns as `TaskQueue` shows them to be: one
executor per row, and a return only after its death.

Operators named "Slip" in a comment are plausible mistakes in the definition that
follows them. They are used by no specification; the mutants of `PROJECT.json`
put each in the place of the definition it precedes, to show that the property
in question would notice.

### Merge

A file is an inode, since clones are hard links; `Hash` gives the content. `base`,
`prior` and `new` are the inode maps the function is called with, `temp` is
`temp_dir`, `record` is `n_hashes`, `dirs` the empty directories of the writer's
tree (a file of the prior revision cannot be linked over them either). `todo` is
what is left of the loop over `all_paths`. One action is one case of the loop:
`AddFromPrior`/`SkipTypeConflict` (case 9), `ApplyDeletion`/`KeepEdited` (10, 13),
`ReplaceWithPrior`/`KeepNew` (the all-present cases and those that do nothing).
`n_inodes` is not updated in the loop, which is why the type-conflict test reads
`new` and not `temp`.

### Revisions

| Variable | Code |
| --- | --- |
| `phase`, `voted` | `Release.phase`, `Release.voted_revision_number` |
| `latest`, `dir`, `known` | the `Revision` rows, the revision directories, the archive hashes of the attestable files |
| `checks` | the check tasks of a revision: not queued, queued or active, done |
| `pc`, `sub` | the process inside `create_revision_with_quarantine` and what it holds: kind of submission, the revision cloned, the clone |
| `quar` | the `Quarantined` row and its directory |
| `task`, `worker` | the `QUARANTINE_VALIDATE` task of the row and the process executing it; they differ after a time-out, when the task is FAILED and the process goes on |
| `extracted` | the directories under `archives/` |
| `starting` | the revision number a vote starter read before the write lock |

`BeginEdit`, `BeginExact` (`expected_revision`), `BeginSource` (`set_commit_hash`)
and `BeginRestore` (`clone_from`) are the first session, the clone and the
callback. `Commit` is the second session from `_lock_and_merge` to the commit in
`_commit_new_revision`; `Quarantine` the same as far as the STAGING commit of
`_quarantine_archives`; `QueueChecks` and `Enqueue` are the transactions after
those. `Crash` and `CrashAfterRename` are the death of the process at each gap,
the latter between the rename and the commit, which leaves a directory without a
row that blocks the next number (`Blocked`). `Claim` to `Finish` is the task;
`WorkerRaises`, `WorkerDies`, `WorkerDiesMerging`, `WorkerDiesAfterRename` and
`TimeOut` are its faults. `merge` works on the quarantine directory itself and
replaces a file by removing it and then linking the other (`_replace_with_prior`), so
`WorkerDiesMerging` leaves any of the paths merged and may leave one of those that are
replaced (`Replaceable`) missing; the retry takes what it finds for the submission. `StartVote` has the checks and the compare-and-set of
`start_vote_no_commit`; `ResolveVote` its outcomes.

A submission that began when the release had no revision is not merged
(`Merged`: `old # 0`), as in `_lock_and_merge`, where `old_revision` is `None`: it
replaces what was committed in the meantime. The abstract log calls it a
submission that determines every path; a reader may well call it a lost update
of the interval between the creation of a release and its first revision.

### RevisionLog and RevisionsLog

The abstract machine keeps a log of trees and one pending change per request. A
change gives each path a content or leaves it alone (`Keep`). `Apply` appends the
outcome of the change on the *last* tree of the log, `Freeze`/`Thaw` are the
votes. The mapping reads `dir[1 .. latest]` as the log and takes the pending
change of a request from its process or, in quarantine, from its directory, as
the difference from the tree it was based on. `Restate` lets the machine describe
a pending change otherwise if that makes the same of the last tree: a quarantine is
based on the latest revision after the merge, a submission on the one cloned.
`Damage` is what the code does beyond that, and a log should not do: a pending change
may come to delete one file of the last tree that its author left alone, which is
`WorkerDiesMerging` between a removal and its link. That nothing worse comes of such a kill
is what the refinement then says; that this much does is a finding (section 5).

### Votes

| Variable | Code |
| --- | --- |
| `podling` | whether `Release.committee` is a podling; it does not change in a behaviour |
| `phase`, `mode`, `seq`, `thread`, `voted` | the fields of `Release` that `start_vote_no_commit` and `_resolve_transition` write; a thread is named by the vote whose announcement began it |
| `ballots` | the `BallotPaper` rows, of which the last per vote, round and voter counts |
| `task`, `ended` | the `VOTE_INITIATE` task of each vote, whose result has the end of the vote, and the votes whose end has passed |
| `queued` | the queued `VOTE_AUTO_RESOLVE` tasks |
| `req` | what a request or task that resolves a vote has read: what it was asked, the vote that its form was made for, in e-mail mode the release, in trusted mode the thread of a first round |
| `outcome` | the entry of the audit log for each vote |

`Look` is `resolve` up to the write lock, `DecideTrusted` is `_resolve_trusted` and
`DecideByEmail` is `__resolve_release`; `Resolve` has the three branches both share
(`SecondRound`, `Passed`, `Returned`) after the compare-and-set of
`_resolve_transition` (`Transition`), which also fails the queued follow-ups. `Cast`
is `cast_trusted`. `AutoCheck` is the first session of `auto_resolve`, which then
resolves as anyone does; its scheduled time is left out, so that it may run at any
time and finds out by itself whether the vote is over. `Initiate` to
`InitiateDies` are the task that announces a vote; its mail and the transaction
with its result are one step, and a death of the worker is only distinguished by
whether the follow-up was scheduled.

Left out or merged: a failed and a cancelled vote (the same but for the guards); a
form that is too old, which can only be refused; the bypass for development hosts;
expedited releases; the reminder `end_notify`; mails; the publication that a passed
vote may queue; a committee or a podling status that changes during a vote.
`publisher_vote_resolve` is a request that names no vote (`expected = 0`): it
resolves whichever vote is current, which `IntendedVote` and `RepliesToFirstRound`
allow for.

`CountedForVoted` has an exception. The security team may pass a first round in which
nobody voted; `previous_round_one_vote_seq` then finds the ballots of an earlier
vote that was rejected, possibly on an older revision, and the second round counts
them.

### BallotBox and VotesBox

The abstract machine has one box: opened, filled, advanced to the second round (which
keeps the ballots that Incubator members put into the last first round), approved or
rejected. It knows nothing of tasks, forms, sequence numbers and locks. The mapping
reads the box as the effective ballots of the current vote, one choice per voter.
`Approve` and `Advance` count what is in the box at that very step, so that the
refinement says that no ballot is lost, forged or kept across the race of `Cast`
against `DecideTrusted`. When security-team overrides exist the abstract machine
may approve whatever the box holds; what an ordinary resolution needs is
`ApprovedOnBallots`, which names the override. `ImplementsBallotBox` is `Box!Spec`
written so that TLC sees at once that a step leaves the boxes alone.

### TaskQueue

| Variable | Code |
| --- | --- |
| `row` | `Task.status`, `pid`, `pid_created`; `overdue` stands for the clock having passed `started` plus the limit |
| `proc` | the process group of each number: leader, children, creation time, the task at hand, what is left of the budget of tasks |
| `tracked` | `self.workers` and `worker.stopping` |
| `mon` | what the manager's coroutine read before an await and uses after it |
| `faults` | how many faults happened so far (bounded by `MaxFaults`) |

A step is one transaction, one system call or one look at the table or the processes.
The verdicts of a worker (`Conclude`), its deferral (`Defer`), the manager's verdicts
(`FailOverrun`, `FailForMemory`, `FailOrphan`) and `Requeue` carry the guards of their
`UPDATE` statements (`Held`, and for `Requeue` the creation time). A lookup, which is made
in a thread that is awaited, and what follows from it are separate steps, since workers go
on in between and processes end and are born: `SeeOverrun`/`FailOverrun`,
`SeeMemory`/`FailForMemory`/`KillForMemory`; `ReadClaim` (the query), `FindClaimant` (whether
the claimant lives), `FailOrphan` (the verdict on an overrun), `FindClaimantAgain` (whether
it still lives) and `KillOrphan`; or, when it does not live, `FindSurvivors`, `KillSurvivors`
and `Requeue`. `mon` says how far the manager is and holds what it found. `KillOrphan` and
`KillSurvivors` kill whoever has the number by then: the code compares the creation time
in the look before, and so does the model, and nothing closes the window between the
two. `Proceed` is whatever the manager does next with what it holds.

Abstractions: FAILED and BROKEN are one status (neither is retried); the deletion
of a completed recurring task's row counts as completion; creation times are
stamps compared for equality, so a number reused within the two second tolerance is
not modelled; a number is not reused while the manager still tracks its dead
owner (at most one pass, two seconds); a group always dies of SIGKILL; scheduled
times, the single heatmap task and pre-spawned replacements are left out. A clean
shutdown is `Terminate`/`Kill` of the workers and then `ServerRestarts`.

`Jobs` is what remains for those who queue tasks: a job is begun by one agent while nobody
else is at it, delivered by that agent alone, taken back only when nobody is at it any
more, and may be declared failed by others. The mapping takes the status of each row and,
as its agents, the process groups that are at work on it (leader or child), whatever the
row says; numbers, creation times, the manager and its memory are forgotten. `Claim` is
`Begin`, `Conclude` and `Defer` are `Deliver`, `Requeue` is `TakeBack`, the manager's
verdicts are `Overrule`, and whatever ends processes is `Stop`.

### Checks

| Variable | Code |
| --- | --- |
| `phase`, `cache` | `Release.phase` (absent, draft, under vote) and `Release.check_cache_key` |
| `revs` | the contents of each revision and the inputs hash recorded for its check on disk |
| `task` | the `Task` row of each inputs hash: `_add_task` drops a task whose inputs the table has, whatever its status |
| `result` | the `CheckResult` rows of each inputs hash, with the release that made them |
| `run` | what a worker is at: claimed, earlier results cleared, result recorded |
| `profile`, `faults` | which faults a behaviour may have, and how many it had |

A revision has one file and the file one check. `NewRevision` is the transaction of a new
revision. `RecordInputs` writes the inputs hash to its attestable file, and `QueueChecks`
commits the rows, several awaits later: in between a vote may start, and the process may
end (both may never come, as in `Revisions`). `Claim`, `Clear` (`Recorder.create`), `Record` (`Recorder._add`) and
`Complete` are the transactions of a check, `CheckRaises`, `Overrun`, `KillOverrun` and
`Die` its faults. `Delete` takes the rows of the release: tasks explicitly, results by
cascade. `StartVote` has the two guards of `start_vote_no_commit` on checks: no task of
*this* revision under way, and no blocker among the results with its inputs.

The properties exclude one thing by name (`Patient`): a release that is deleted *while*
one of its checks runs. The check then clears the results of another release with
the same contents, fails to record its own, and leaves a completed row without report;
the fault profile `hasty` has these behaviours, and the other properties hold in them.
`UncheckedOnlyIfShared` says exactly when a vote starts before the checks of its files
are over although they were queued: when the row belongs to another revision or release, or
went with another release. That a vote may also start before the checks are queued is the
finding `Revisions_unchecked_vote`; the property asks for `queued`, which the rows'
transaction sets.

### Publication

| Variable | Code |
| --- | --- |
| `phase`, `archived` | `Release.phase` and `Release.is_archived` |
| `pub` | the last `SVN_PUBLISH` task of each release and the `svn_revision` of its result |
| `checked`, `prior` | the announcements between their check of the publication and their transaction, and between that and the archiving of the prior release |
| `rm` | the `SVN_UNPUBLISH` tasks: the release, the revision that the listing is pinned to, how far the task is |
| `log` | the repository (external): who committed, what, for which releases, and whether the commit made the directory |
| `watcher` | the last commit shown, the last one handled and the one the cursor file names |

The repository is modelled from its use: `svn import` fails where files are, the last
changed revision of a directory is that of the last commit below it, `svnmucc rm` is
pinned to a revision and fails if what it names changed since. `Import`, `AlreadyThere`
and `PublishTimesOut` are the three ways in which a publication meets it; `Matches` is
`publish_revision_matches`. `PlanRemoval`, `RemoveFiles`, `DeferRemoval`,
`RemovalFails`, `Revert` and `ConcludeRemoval` are the steps of
`unpublish_from_svn_execute` and its failures; `RemovalBreaks` is every end of the task
that nothing makes up for: the manager's verdict on an overrun, an exception that
`tasks/svnpub.py` does not handle, or one of the revert itself. `CheckPublication`, `Announce` and
`ArchivePrior` are the three transactions of an announcement. The check asks only that the
publication be recorded: whether the files can be reached decides nothing that holds later, since
a person may go on without them (`acknowledge_unreachable`), nothing is asked for when there is
no usable URL or no artifact, and the local server is asked for the published revision
and not for the head. `Catalogue` is
`catalogue_commit` in its active mode, in which it changes rows
(`DIST_CATALOG_WRITE`, which is off by default): it applies (`Apply`) what is not ATR's
(`External`), which by fault `unread` may be a commit of ATR's whose property `asf:tool` could not
be read. `SkipCommit` is a commit that is not handled, or whose archiving or restoring
failed and was logged while the commit counts as handled. `Checkpoint` saves the cursor,
`Reconnect` goes back to it.

`RecordsAgree` holds for the combinations of faults named in `Benign`. It does not hold
for others, and no document says it does: a removal never asks whether its release
is still archived, so that one which is retried after a person restored the files
removes them again; a removal that SVN refused for good reverts the archive, also one
whose files a person removed meanwhile; and `revert_failed_archive` says of itself
(`storage/writers/release.py:1972`) that "svnmucc is atomic, so the files are still in
dist", which is not so when the command is killed after its commit (`timeout`): the
archive is reverted although the files are gone. A commit that the watcher fails to handle
(`skip`), does not see because it never saved a cursor (`live`), or misreads (`unread`: ATR's
own publication of a release that was archived since, handled late or again, makes it
current without files), is not made up for either, and neither is a removal that ends without a
revert (`fail`).

`NoneForgotten` allows for all of these but `fail`: an archived release that still has its
files has a removal that is yet to act. `ArchiveSettles` has the same exception.

### Recurring

| Variable | Code |
| --- | --- |
| `row` | the `Task` rows of recurring tasks: status, type, whether `scheduled` is set; `again` marks those that were queued again after a run began |
| `run` | what the worker at a row is doing: before or after it has queued the successor, or nobody is at it |
| `server`, `todo` | where `_register_recurrent_tasks` is, and which tasks it is still to register |
| `broken` | the tasks of which a run was failed before it had queued another, since one was last queued |
| `profile`, `faults` | which tasks and faults a behaviour has, and how many faults it had |

`Replaces` is the one transaction that all functions which queue a recurring task share:
`_clear_existing_scheduled` deletes what is queued, then a row is added. `Obsolete` says what
is deleted: maintenance and audit tasks sweep away whatever waits, the others what is
scheduled. `ClearScheduled` and `Register` are the steps of `_register_recurrent_tasks`;
`RegistrationFails` ends it, and with it the tasks that come later. `QueueNext` is
`schedule_next` or `audit_seal`; `WorksWhen` says whether a handler calls it before its
work (maintenance, integrity, audit) or after it (metadata, workflow, distribution).
`DefersItself` is the sealing of one more day. `Overrun` and `KillOverrun`, `Die` and
`Return` are the manager's verdict with the kill that follows, the death of a worker and
`_requeue_claim`: a run that had already queued its successor is then run again and
replaces it.

`RegisteredGoesOn` is about the rows as they are read: at every moment there is one from
which the task goes on, although each run deletes queued rows of its own kind, among them
those that others returned or deferred. `OneScheduled` leaves out the rows that are queued
again (`again`), for a deferred run of the audit waits beside its successor. `RunsAgain` says
that the task is begun again and again.

Time is left out: a scheduled row may be claimed at once, and the minutes of waiting
in `_register_recurrent_tasks` are any number of steps. So are the one-off updates that
administrators queue, which have no successor and are rows of another user, which
`_clear_existing_scheduled` tells apart; and the catalogue site, which is in
`RECURRING_TASK_TYPES` but has no chain.

## 3. Runs

All runs take at most two to four minutes with two workers of TLC.

| Run | Checks | Bounds and why they are enough |
| --- | --- | --- |
| `Merge` | `TempIsATree`, `RecordDescribesTemp`, `MergedIsThreeWay`, `LostForNothing` | 3 paths, one below another: a type conflict in both directions and an unrelated path; 3 inodes, two with the same content: all outcomes of the inode and hash comparisons; all trees, all empty directories |
| `Merge_type_change` | `InterveningChangeKept` is violated | the same |
| `Revisions_unchecked_vote` | `ChecksCompleteBeforeVote` is violated | 2 revisions |
| `Revisions_pending_no_task` | `PendingHasTask` is violated | 1 revision |
| `Revisions_interrupted_merge` | `InterveningUpdateKept` is violated | 2 paths, so that one is the author's and one is another's; 3 contents: a file, what it is changed to, and the archive that makes the author wait; 4 revisions: a first, the author's base, the one merged in, the result |
| `RevisionsLog` | `VotedIsLatest`, `QuarantineInDraft`, `DirectoriesMatchRows`, `ArchivesExtracted`, `VotedFilesFrozen`, `ImplementsLog` | 2 requests, each again and again: the starter makes a first edit and then exact replacements, restores and changes of the source, the other edits, so that what is merged meets all that is not (that edits are merged into each other, with several paths and in quarantine, and what a kill inside that merge can do, is proved: `RevisionsAreALog`; a kill between a removal and its link, which takes two paths and a base, happens in `Revisions_interrupted_merge`); 1 path, since trees are merged path by path (what paths do to each other is the subject of `Merge`), and 1 content that is an archive: whatever adds it has to be extracted once, and deletions need no quarantine; 3 revisions: a base, an intervening one and the result; 1 voter, who may fail and try again. 1,714,870 states |
| `TaskQueue` | `SoleExecution`, `ReturnedWhenDead`, `VerdictsStand`, `ImplementsJobs`, `EveryTaskConcludes` | 2 tasks, 2 process numbers, 3 creation times (a claimant, its successor and a stranger), pool of 1 (at most 2 tracked), a budget of 2 tasks per worker, 2 faults of any of seven kinds: the known bad stories need two. 89,266 states |
| `Votes` | `ApprovedOnBallots`, `CountedOnce`, `CountedForVoted`, `ApprovedTwice`, `PassedOnCarried`, `IntendedVote`, `RepliesToFirstRound`, `OutcomesStand`, `ImplementsBallotBox` | a podling and another project; both modes; 2 voters, one of each committee; 2 votes: two rounds, or a rejected vote and its successor; 2 revisions, so that a rejected vote may be on an older one; one request and one of the security team, each again and again; the announcement is tried twice; 1 binding +1 needed instead of 3 |
| `Votes_early` | `PassedOnceAnnounced` is violated | 2 votes |
| `Checks` | `TypeOK`, `CompletedReported`, `BlockedStaysDraft`, `UncheckedOnlyIfShared` | 2 releases with the same or other contents, shared or own cache; 2 contents, one with a blocker; 2 revisions in all; 2 workers, one of which may be late; 2 faults, of deaths, failures and deletions or of deletions under a check. Releases and workers are interchangeable (symmetry), which no property tells apart |
| `Publication` | `TypeOK`, `OwnCommit`, `RecordsAgree`, `NoneForgotten`, `OnlyPlannedRemoved`, `ArchiveSettles` | 2 releases in one directory, so that one is archived by the next and their files are told apart; 2 removals: that of the prior release and one by hand, or a second of the same; 4 commits: two publications and what two removals or persons do; 2 faults from one of four profiles: those that are made up for (deaths, lost connections, files removed by hand, repeated commits); refusals with lost connections and repeated commits; tasks that fail without a revert or are killed after their commit, files removed before they are announced or published again by hand; and deaths, refusals and killed removals with a watcher that misses or misreads commits, under which `NoneForgotten` holds and `RecordsAgree` says nothing. 997,080 states |
| `Recurring` | `RegisteredGoesOn`, `EarlyOutliveTheirWork`, `OneScheduled`, `RunsAgain` | an audit task with 2 faults (early, sweeping, and the only one that defers itself), and an integrity check with a metadata update and 1 fault (early and late, replacing only what is scheduled); faults either of those that the early ones survive or of those that end a chain; 2 workers, so that two runs of a task race; 8 rows, of which one is free in every state (with fewer `RunsAgain` fails, for want of a row). 348,353 states |

`CHECK_DEADLOCK FALSE` throughout: a merge ends, a release that reached
`MaxRevision` or whose next directory is blocked may come to rest, and a task queue
is drained. `MaxRevision`, `MaxVote`, `MaxTries`, `MaxCommits` and `MaxFaults` bound counters and are
guards of the actions that count. Faults come in profiles in `Checks`, `Publication` and `Recurring`: a
behaviour has those of one profile, chosen at the start, so that combinations which the
code makes up for are not mixed with others, and the instance stays small.

## 4. Fairness

`TaskQueue`, `Publication` and `Recurring` state fairness, for liveness. In `TaskQueue` it is this. Idle workers poll every 100 ms
(weak fairness of `Claim`). Time passes (`Overrun`). `check_workers` runs every two
seconds and visits every tracked worker and then every unmanaged claim; a visit
is not enabled continuously, because the manager does one thing at a time, hence
strong fairness of `Forget`, `SeeOverrun`, `Spawn` and `ReadClaim`, and weak
fairness of `Proceed`: the coroutine goes on with what it has read. A stop that was begun in
the background proceeds (`Stop`). No fairness makes a handler finish, a child end
or a fault happen: a task whose handler hangs is concluded by its time limit. Processes of others that took
a number end in the end (`StrangerEnds`): the instance has two numbers, the machine has
plenty.

`Publication` has weak fairness of the steps of each removal (a worker claims the task
and concludes it, which is `EveryTaskConcludes` of `TaskQueue`) and of `Catalogue` (the
listener handles what it is shown). Nothing makes a person, a publication or an
announcement proceed. A removal that is deferred time and again because others commit is
bounded by `MaxCommits`.

`Recurring` has weak fairness of a run's going on (`QueueNext`, `Complete`), of the kill that
follows a verdict and of returns, each for some row and not for every one. A claim has strong
fairness per task, while the server is there: workers come and go, and
`_task_next_claim` takes the row that was added first of those that are due, so that no task
can wait while workers become free again and again. Starting and registering are not fair;
`RunsAgain` speaks of registered tasks only.

## 5. What the runs disagree with

Five promises of the code's own comments, messages and documents do not hold
as written. The runs that end in a violation show how; `findings` in
`PROJECT.json` quotes the lines.

* `Merge_type_change`: an intervening revision turns a file into a directory.
  `merge` applies the deletion and then skips the addition, because the
  type-conflict test looks at the tree as it was. The path is lost.
* `Revisions_unchecked_vote`: a vote starts between the commit of a revision and
  the transaction that queues its checks.
* `Revisions_pending_no_task`: a validation task that raises or overruns is
  FAILED, its row stays PENDING and blocks every vote.
* `Revisions_interrupted_merge`: a worker that dies while merging leaves the quarantine
  directory half done, and the retry takes what it finds for the submission: a file that was
  removed to be replaced counts as deleted, files of another revision count as edits.
* `Votes_early`: a podling's second round begins with the ballots carried from the
  first and has no end until it is announced. `_resolve_trusted` asks for the end only
  if there is one: the round can be resolved as passed before anyone was told of it.

Two of them are delimited by an invariant that does hold, and is proved. `LostForNothing`:
what a writer that changed nothing loses in `merge` are files that conflict with entries
which the merge deletes as well, and nothing else. `PassedOnCarried`: what passes before it
is announced is a second round in which nobody has voted, and nothing else (a first round,
or a vote by e-mail, never does, unless the security team overrides it).

More were met while modelling and have no run; what they describe is in the models.

* The one on `svnmucc` in `Publication` above.
* `docs/resource-management.md:170` says that "only maintenance schedules its successor
  first, so other failures break the succession until restart"; integrity checks and the
  sealing do so as well (`tasks/integrity.py:30`, `tasks/audit.py:35`), so that failures of
  their work break nothing (`EarlyOutliveTheirWork`).
* The same document says (76) that "a live claimant within its time limit is left to
  finish". While the manager writes its verdict on a worker it did not spawn, the worker may
  conclude the overrun task after all (what it writes is dropped) and claim another. The
  second look compares the creation time of the process only, so that the worker is killed
  at that other task (`FailOrphan`, `FindClaimantAgain`, `KillOrphan`), which is then
  returned to the queue.
* A worker born after a restart of the container may have the number of a dead claimant;
  `check_task_duration`, which looks up the active task by number alone, then fails the dead
  one's claim as an overrun of the new worker and stops that (`Spawn`, `SeeOverrun`).
* A verdict lost to a database error leaves a second ACTIVE row with the number of the
  worker; the lookup then raises, which counts as "no overrun" for as long as the worker
  lives (`LoseVerdict`).
* `__restore_catalogued_release` says that "only a non-ATR SVN commit reaches here"
  (`storage/writers/release.py:1781`). When the watcher cannot read who made a commit, ATR's
  own publication restores a release that was archived in the meantime (`External`).

## 6. Proofs

No axioms beyond the named assumptions on the constants, which TLC evaluates in
the runs. Every theorem holds for all values of the constants that satisfy them:
any sets of paths, inodes and contents, any number of requests, voters,
revisions, tasks, process numbers and faults.

* `Merge_proofs`. `TypeOK`, `RecordDescribesTemp` and the rest follow from an
  invariant that says what each path holds: a path still in `todo` is as in `new`,
  a visited one as the case for it says. `TempIsATree` needs the extra argument
  that a path which gains a file (case 9) has, by the type-conflict test, no file
  of the writer above or below, and that two files taken from the prior revision
  do not conflict since the prior revision is a tree. `ConflictsAreWithDeleted`
  (`LostForNothing`) has the same two ingredients: at the end nothing is left where the
  prior revision has nothing, and the prior revision is a tree.
* `Revisions_proofs`. The inductive invariant `IInv` is `TypeOK` with
  `VotedIsLatest`, `QuarantineInDraft`, `DirectoriesMatchRows` and five facts they
  need: a process is either before or after its quarantine, never both
  (`OneProcess`); a worker past its start has a PENDING row (`WorkerHasPending`),
  which is why a promotion happens in a draft although it never asks; what is held
  in memory refers to existing revisions (`RefersToRevisions`); the hashes known
  at a revision were extracted and include its archives (`KnownExtracted`); and the
  archives of a quarantined tree are known, extracted or listed
  (`QuarantineExtracted`). `ArchivesExtracted` is a consequence, and
  `VotedFilesFrozen` follows step by step. `RevisionsAreForGood` says the same of every
  committed revision at any time, vote or not, and of what is attested of it; it needs that
  all revisions are numbered up to `latest`, and that a rename only ever goes to the next
  number.
* `RevisionsLog_proofs`. `RevisionsAreALog` is the refinement: under the mapping every step
  of `Revisions` is a step of `RevisionLog` or a stutter. Most steps leave the log and
  the pending changes alone (`StutterOrWithdraw`). `RequestImplements`, `WorkerImplements` and
  `VoteImplements` go through the others; what carries them is `MergedIsOutcome`: the
  three-way merge of a submission with the latest tree is the outcome of the abstract
  change on it, whatever was committed in between. A kill inside the merge restates the
  submission, and where it falls between a removal and its link damages it (`Damages`). The
  proof needs `IInv` of
  `Revisions_proofs` and one fact more, that what a worker has extracted is on disk
  (`ExtractedOnDisk`), so that a promotion finds the tree it was queued with.
* `TaskQueue_proofs`. `SoleExecution` is not inductive: `Requeue` makes a task
  claimable again, so one has to know that its last executor is gone. What makes
  it so is `RunnerHoldsClaim`: a group at work on an ACTIVE row is the one the row
  names, by number and creation time. `Requeue` undoes a claim only if no process
  of that number and time lives and no child of the group is left, hence nobody is
  at it. That was seen in a look some steps before; `SeenDead` says that it still holds
  when the manager acts on it: whoever has the number by then has another
  creation time, so that `Requeue`, whose `UPDATE` names that time, undoes the claim of the dead
  only. `VerdictsStand` follows from the guards. `RefinesJobs` is the refinement of `Jobs`: each step lemma that
  keeps `IInv` also names the step of `Jobs` that it is (`BeginJob`, `DeliverJob`,
  `TakeBackJob`, `OverruleJob`, `StopJobs`) or shows that it is none. `NoneMasked`
  justifies the exception in `EveryTaskConcludes`, which TLAPS cannot reach itself: as
  long as no verdict is lost and no number that a claim names is reused, there is
  no masked task. Its invariant is `AtItsClaim`: a living process that a claim names is at
  work on it.
* `Votes_proofs`. All invariants and step properties of the run `Votes`. `Core` is the part of `IInv` that
  speaks of the release, its ballots and outcomes; only five kinds of step touch those
  (`QuietStep` disposes of the others). Its strength is in `Candidacy` (an open vote has
  no outcome yet, its ballots are of its round and on the revision voted on) and
  `SecondAfterFirst` (a thread is only there after a first round that passed, with
  ballots unless it was overridden, from which `PreviousRoundOne(seq) = seq - 1`).
  `Remembers` says that a request which read an e-mail vote either read the current
  one or an older one: without it the compare-and-set would not keep such a
  request from passing a trusted vote untallied. `KnowsThread` ties the thread that was
  looked up before the lock to the vote the form names. `PassedOnCarried` needs
  `Announcements`: ballots, ends of periods and the permission that a caller by e-mail has
  read come after the announcement, which is never undone for the current vote or an earlier
  one (`ToldStays`); what has no ballots of its own passes on carried ones, if at all.
  `VotesAreBallotBoxes`, in the same module, is the second refinement, `Spec => Box!Spec`.
  `VotersAreCounted` turns the count of binding ballots into the box's count of voters, by
  the bijection that `CountedOnce` gives; this is why the invariant is extended with the
  finiteness of the ballots (`Countable`). `CastPuts` shows that a ballot changes one
  entry of the box, the carried ballot of the same voter included, and in a first round
  of the record of it too; `ResolveCloses` treats the three branches of a resolution. That the
  latest first round exists at all among the earlier votes is the least-element theorem
  of well-founded relations (`LatestOf`).
* `Checks_proofs`. `CompletedReported` needs to know of a worker past `Record` that its
  report is still there (`RecordedIsThere`). That in turn needs that the row of a check
  belongs to one worker at a time (`WorkersHoldRows`), or a late worker could clear the
  results after another recorded its own. `UncheckedOnlyIfShared` needs that a revision whose
  checks were queued has a row for its inputs as long as nothing was deleted (`QueuedHaveRows`).
* `Publication_proofs`. `OwnCommit` is inductive with the type invariant: a commit, once made,
  stays in the log. `RemovalsKeepToTheirPlan` rests on `PlansStand`: what a plan names was
  there at the revision it is pinned to. That nothing has come into a directory that is
  removed as a whole is what `UpToDate` then asks of the commits since. `RecordsAgree` rests
  on `Agreeing`. `FilesStand` says, under all faults in `Benign`, that only released files
  are removed and that they never come back. The rest depends on the faults. When tasks are
  retried and files removed by hand (`RetriedInv`), no release is ever restored, each
  archived one is gone or has a removal that will be tried, and every removal that is ATR's
  or lies before any of the watcher's positions is of an archived release. When SVN may refuse
  (`RefusedInv`), all commits are ATR's, a release has at most one live removal, and it is
  archived exactly if it is gone or has one, so that a revert cannot undo what another
  removal has done. `NoneForgotten` allows for more faults (`Settling`) and needs only
  `FilesStand` and `SettlingInv`: each archived release is gone or has a removal that is
  still to act, and one that is past its commit has removed the files.
* `Recurring_proofs`. `RegisteredGoesOn` is inductive with the type invariant, which says that
  a row with a claimant was claimed (`RowsFit`): whoever is past the queueing of its successor
  has put it there in the same transaction in which it deleted the others
  (`ReplacedCarried`), and no step takes the row that carries a task away without leaving
  another or marking the task broken. `EarlyOutliveTheirWork` adds that no early task is ever
  broken where neither the queueing nor an overrun can fail (`Unbroken`). `OneScheduled`
  rests on `ReplacedFresh`: a scheduled row is added only where those that were scheduled
  are deleted.

Every property of the passing runs is stated by a theorem but for liveness. The type
invariants of all modules are proved; those of `Merge`, `Revisions`, `TaskQueue`, `Votes` and
`Recurring` are not part of a run.

Checked by TLC only: liveness (`EveryTaskConcludes`, `ArchiveSettles`, `RunsAgain`), which is beyond
TLAPS, and the runs that end in a violation.

## 7. Plan

Done: merge, revisions with quarantines and their refinement, votes and their refinement,
the task queue, recurring tasks, checks and their cache, publication with archiving and the
watcher. Left,
each with its own module, runs and proofs:

1. `Deletion`: deletion and re-creation of a release under running requests and
   quarantines; composes with `Revisions` as `Checks` has it for tasks of checks.
2. The export check that ends a publication (`finalise`), SSH keys and tokens, the sealing
   of audit logs.

## 8. Not modelled, and why

The models cover the code whose correctness depends on the order of things, which is a small
part of ATR: its `src/atr/` has about a hundred thousand lines, most of which parse requests,
render pages, build queries, analyse files and describe rows and documents.

Parsing and rendering (web, API, admin), configuration edits in one transaction
(committees, projects, policies, keys), pure transformations of data (SBOM,
catalogue, the checks' own analyses) have no interplay of processes to explore.
Mail, notifications and log files are output. Tokens and sessions are compared with the
clock and the database once per request, and uploads end in
`create_revision_with_quarantine`. Distributions and workflow runs are records of external
services that are polled; one guard of a vote depends on them. In the watcher the
cataloguing of releases, the wiping of drafts that ATR did not publish and the LDAP topic
are left out. Of the modelled components, `PROJECT.json` names what is left out of each.
