------------------------------- MODULE Checks -------------------------------
(***************************************************************************)
(* The checks of the files of a draft and the results that are shared      *)
(* through the hash of a check's inputs (atr/tasks/__init__.py,            *)
(* atr/tasks/checks/__init__.py, atr/db/interaction.py), over several      *)
(* releases that may have the same files, be voted on and be deleted.      *)
(*                                                                         *)
(* A revision has one file here and the file one check.  The inputs of the *)
(* check are the contents and the cache key of the release, "shared" for   *)
(* the cache of all releases.  The table has at most one task for the same *)
(* inputs, whoever asked for it and however it ended.                      *)
(***************************************************************************)
EXTENDS Naturals, FiniteSets, Sequences

CONSTANTS
    Release,
    Worker,      \* worker processes, as in TaskQueue
    Content,     \* contents of files
    Bad,         \* those in which the check finds a blocker
    LocalKey,    \* the values that set_local_cache may draw
    Profile,     \* the sets of faults, one of which a behaviour has
    NoWorker, NoRelease,
    MaxRevision, \* bound on the revisions that there are
    MaxFaults    \* bound on the faults of a behaviour

ASSUME ContentAssumption == Bad \subseteq Content
ASSUME NobodyAssumption == NoWorker \notin Worker /\ NoRelease \notin Release
ASSUME KeyAssumption == "shared" \notin LocalKey
ASSUME ProfileAssumption ==
    \A set \in Profile : set \subseteq
        {"die",      \* a worker dies and the manager returns its task to the queue
         "fail",     \* a check raises, or the manager fails it for its overrun
         "delete",   \* a release is deleted while none of its checks runs ...
         "hasty"}    \* ... or while one does
ASSUME BoundAssumption == MaxRevision \in Nat \ {0} /\ MaxFaults \in Nat

VARIABLES
    profile,   \* the faults of this behaviour
    faults,    \* how many there were
    phase,     \* phase[r]: "none", "draft" or "vote"
    cache,     \* Release.check_cache_key
    revs,      \* revs[r]: the contents of each revision, the inputs of its check as recorded
               \*   on disk, NoInputs before they are, and whether the check was queued
    task,      \* task[k]: the row with the inputs k
    result,    \* result[k]: the results with the inputs k
    run        \* run[w]: what worker w is doing

releases == <<phase, cache, revs>>
vars == <<profile, faults, phase, cache, revs, task, result, run>>

Cache == {"shared"} \union LocalKey
Inputs == [content : Content, cache : Cache]
NoInputs == [content |-> "none", cache |-> "none"]

NoTask == [st |-> "none", rel |-> NoRelease, rev |-> 0, by |-> NoWorker]
Idle == [at |-> "idle", inputs |-> NoInputs, rel |-> NoRelease]

\* What a check reports.
Verdict(k) == IF k.content \in Bad THEN "blocker" ELSE "note"

Fault(f) == f \in profile /\ faults < MaxFaults /\ faults' = faults + 1

Latest(r) == Len(revs[r])

Init ==
    /\ profile \in Profile /\ faults = 0
    /\ phase = [r \in Release |-> "none"]
    /\ cache = [r \in Release |-> "shared"]
    /\ revs = [r \in Release |-> <<>>]
    /\ task = [k \in Inputs |-> NoTask]
    /\ result = [k \in Inputs |-> {}]
    /\ run = [w \in Worker |-> Idle]

----------------------------------------------------------------------------
(* Releases and their revisions *)

StartRelease(r) ==
    /\ phase[r] = "none"
    /\ phase' = [phase EXCEPT ![r] = "draft"]
    /\ UNCHANGED <<profile, faults, cache, revs, task, result, run>>

\* create_revision_with_quarantine, up to its commit; a draft may leave the shared cache
\* (set_local_cache, reset_to_global_cache).
NewRevision(r) ==
    /\ phase[r] = "draft"
    /\ Cardinality({q \in Release \X (1 .. MaxRevision) : q[2] <= Latest(q[1])}) < MaxRevision
    /\ \E c \in Content :
         revs' = [revs EXCEPT ![r] = Append(@, [content |-> c, inputs |-> NoInputs, queued |-> FALSE])]
    /\ \E key \in {cache[r], "shared"} \union LocalKey : cache' = [cache EXCEPT ![r] = key]
    /\ UNCHANGED <<profile, faults, phase, task, result, run>>

\* draft_checks, up to its transaction: the inputs are written to the attestable file of the
\* revision (queued, write_checks_data), whether or not a task with them will be added.
RecordInputs(r) ==
    \E n \in 1 .. Latest(r) :
        /\ revs[r][n].inputs = NoInputs
        /\ revs' = [revs EXCEPT ![r][n].inputs = [content |-> revs[r][n].content, cache |-> cache[r]]]
        /\ UNCHANGED <<profile, faults, phase, cache, task, result, run>>

\* Its transaction, which commits the rows and is not the one that committed the revision.  A
\* task whose inputs the table has already is dropped (_add_task).  A process that dies or
\* raises before does not come to it.
QueueChecks(r) ==
    \E n \in 1 .. Latest(r) :
        LET k == revs[r][n].inputs
        IN /\ k # NoInputs /\ ~revs[r][n].queued
           /\ revs' = [revs EXCEPT ![r][n].queued = TRUE]
           /\ task' = IF task[k].st # "none" THEN task
                      ELSE [task EXCEPT ![k] = [st |-> "queued", rel |-> r, rev |-> n, by |-> NoWorker]]
           /\ UNCHANGED <<profile, faults, phase, cache, result, run>>

\* Slip: those that wait in the queue do not count.
TasksActive(r, n) ==
    \E k \in Inputs : task[k].rel = r /\ task[k].rev = n /\ task[k].st = "active"

\* __tasks_ongoing: of this revision of this release.
TasksOngoing(r, n) ==
    \E k \in Inputs : task[k].rel = r /\ task[k].rev = n /\ task[k].st \in {"queued", "active"}

\* Slip: the results are those that the checks of this release have made.
HasOwnBlockers(r, n) ==
    LET k == revs[r][n].inputs
    IN k # NoInputs /\ [rel |-> r, status |-> "blocker"] \in result[k]

\* has_blocker_checks: the results with the recorded inputs, whoever made them.
HasBlockers(r, n) ==
    LET k == revs[r][n].inputs
    IN k # NoInputs /\ \E x \in result[k] : x.status = "blocker"

\* start_vote_no_commit
StartVote(r) ==
    /\ phase[r] = "draft" /\ revs[r] # <<>>
    /\ ~TasksOngoing(r, Latest(r))
    /\ ~HasBlockers(r, Latest(r))
    /\ phase' = [phase EXCEPT ![r] = "vote"]
    /\ UNCHANGED <<profile, faults, cache, revs, task, result, run>>

\* _resolve_transition, to the draft.
VoteFails(r) ==
    /\ phase[r] = "vote"
    /\ phase' = [phase EXCEPT ![r] = "draft"]
    /\ UNCHANGED <<profile, faults, cache, revs, task, result, run>>

\* Slip: the rows of the tasks stay.
TasksAnyway(r) == task

\* The tasks of the release are deleted explicitly: they have no cascade.
TasksWithout(r) == [k \in Inputs |-> IF task[k].rel = r THEN NoTask ELSE task[k]]

\* delete, __delete_body: rows, files and, by cascade, the results that the checks of the
\* release have made.
Delete(r) ==
    /\ phase[r] # "none"
    /\ IF \E w \in Worker : run[w].rel = r THEN Fault("hasty") ELSE Fault("delete")
    /\ phase' = [phase EXCEPT ![r] = "none"]
    /\ cache' = [cache EXCEPT ![r] = "shared"]
    /\ revs' = [revs EXCEPT ![r] = <<>>]
    /\ task' = TasksWithout(r)
    /\ result' = [k \in Inputs |-> {x \in result[k] : x.rel # r}]
    /\ UNCHANGED <<profile, run>>

----------------------------------------------------------------------------
(* Workers *)

\* The row of the task is there, active, and names the worker.
Held(w) == LET k == run[w].inputs IN task[k].st = "active" /\ task[k].by = w

Claim(w) ==
    /\ run[w] = Idle
    /\ \E k \in Inputs :
        /\ task[k].st = "queued"
        /\ task' = [task EXCEPT ![k].st = "active", ![k].by = w]
        /\ run' = [run EXCEPT ![w] = [at |-> "claimed", inputs |-> k, rel |-> task[k].rel]]
    /\ UNCHANGED <<profile, faults, releases, result>>

\* Recorder.create, with afresh
Clear(w) ==
    /\ run[w].at = "claimed"
    /\ result' = [result EXCEPT ![run[w].inputs] = {}]
    /\ run' = [run EXCEPT ![w].at = "cleared"]
    /\ UNCHANGED <<profile, faults, releases, task>>

\* Recorder._add, which a deleted release makes fail: the row refers to it.
Record(w) ==
    /\ run[w].at = "cleared" /\ phase[run[w].rel] # "none"
    /\ LET k == run[w].inputs
       IN result' = [result EXCEPT ![k] = @ \union {[rel |-> run[w].rel, status |-> Verdict(k)]}]
    /\ run' = [run EXCEPT ![w].at = "recorded"]
    /\ UNCHANGED <<profile, faults, releases, task>>

\* _task_result_process
Complete(w) ==
    /\ run[w].at = "recorded"
    /\ task' = IF Held(w) THEN [task EXCEPT ![run[w].inputs].st = "completed"] ELSE task
    /\ run' = [run EXCEPT ![w] = Idle]
    /\ UNCHANGED <<profile, faults, releases, result>>

\* finalise_failure: the verdict and a result that says so.
Failed(w) ==
    LET k == run[w].inputs
    IN IF Held(w)
       THEN /\ task' = [task EXCEPT ![k].st = "failed"]
            /\ result' = [result EXCEPT ![k] = @ \union {[rel |-> run[w].rel, status |-> "exception"]}]
       ELSE UNCHANGED <<task, result>>

\* The check raises: of itself, or because its release is gone.
CheckRaises(w) ==
    /\ run[w].at # "idle"
    /\ \/ Fault("fail")
       \/ run[w].at = "cleared" /\ phase[run[w].rel] = "none" /\ UNCHANGED faults
    /\ Failed(w)
    /\ run' = [run EXCEPT ![w] = Idle]
    /\ UNCHANGED <<profile, releases>>

\* The manager fails the task, and kills the worker some time later.
Overrun(w) ==
    /\ run[w].at # "idle" /\ Held(w)
    /\ Fault("fail") /\ Failed(w)
    /\ UNCHANGED <<profile, releases, run>>

KillOverrun(w) ==
    /\ run[w].at # "idle"
    /\ task[run[w].inputs].st = "failed" /\ task[run[w].inputs].by = w
    /\ run' = [run EXCEPT ![w] = Idle]
    /\ UNCHANGED <<profile, faults, releases, task, result>>

\* Slip: the row in the queue still names the worker.
DieClaiming(w) ==
    /\ run[w].at # "idle" /\ Fault("die")
    /\ task' = IF Held(w) THEN [task EXCEPT ![run[w].inputs].st = "queued"] ELSE task
    /\ run' = [run EXCEPT ![w] = Idle]
    /\ UNCHANGED <<profile, releases, result>>

\* The worker dies, and its claim is returned to the queue.
Die(w) ==
    /\ run[w].at # "idle" /\ Fault("die")
    /\ task' = IF Held(w) THEN [task EXCEPT ![run[w].inputs].st = "queued",
                                            ![run[w].inputs].by = NoWorker] ELSE task
    /\ run' = [run EXCEPT ![w] = Idle]
    /\ UNCHANGED <<profile, releases, result>>

----------------------------------------------------------------------------
Next ==
    \/ \E r \in Release :
        \/ StartRelease(r) \/ NewRevision(r) \/ RecordInputs(r) \/ QueueChecks(r)
        \/ StartVote(r) \/ VoteFails(r) \/ Delete(r)
    \/ \E w \in Worker :
        \/ Claim(w) \/ Clear(w) \/ Record(w) \/ Complete(w)
        \/ CheckRaises(w) \/ Overrun(w) \/ KillOverrun(w) \/ Die(w)

Spec == Init /\ [][Next]_vars

----------------------------------------------------------------------------
(* Properties *)

Statuses == {"blocker", "note", "exception"}

\* Every variable has its type.  A row names a worker once it was claimed, and a worker at
\* work has a task.
TypeOK ==
    /\ profile \in Profile /\ faults \in 0 .. MaxFaults
    /\ phase \in [Release -> {"none", "draft", "vote"}]
    /\ cache \in [Release -> Cache]
    /\ revs \in [Release -> Seq([content : Content, inputs : Inputs \union {NoInputs}, queued : BOOLEAN])]
    /\ \A r \in Release : phase[r] = "none" => revs[r] = <<>>
    /\ task \in [Inputs -> [st : {"none", "queued", "active", "completed", "failed"},
                            rel : Release \union {NoRelease}, rev : Nat,
                            by : Worker \union {NoWorker}]]
    /\ \A k \in Inputs : /\ task[k].st = "none" <=> task[k].rel = NoRelease
                         /\ task[k].st \in {"none", "queued"} <=> task[k].by = NoWorker
    /\ result \in [Inputs -> SUBSET [rel : Release, status : Statuses]]
    /\ run \in [Worker -> [at : {"idle", "claimed", "cleared", "recorded"},
                           inputs : Inputs \union {NoInputs}, rel : Release \union {NoRelease}]]
    /\ \A w \in Worker : run[w].at # "idle" => run[w].inputs \in Inputs /\ run[w].rel \in Release

\* No release is deleted while one of its checks runs.
Patient == "hasty" \notin profile

\* A check that is completed has reported what it found, and the report is there as long as
\* the row that keeps the check from being run again: through retries, late workers and the
\* deletion of releases (Recorder.create, Recorder._add, _add_task, __delete_body).
CompletedReported ==
    Patient => \A k \in Inputs : task[k].st = "completed" =>
        [rel |-> task[k].rel, status |-> Verdict(k)] \in result[k]

\* The vote on r starts.
VoteStarts(r) == phase[r] = "draft" /\ phase'[r] = "vote"
LatestInputs(r) == revs[r][Latest(r)].inputs

\* No vote starts on files in which a completed check has found a blocker, for whichever
\* revision of whichever release it was run (has_blocker_checks).
BlockedStaysDraft ==
    [][Patient =>
        \A r \in Release : VoteStarts(r) /\ LatestInputs(r) # NoInputs =>
            (task[LatestInputs(r)].st = "completed" => LatestInputs(r).content \notin Bad)]_vars

\* Once the transaction that queues the checks of the latest revision is over, a vote starts
\* before they are over only if they are those of another revision or release, or went with
\* another release (start_vote_no_commit, which counts the tasks of the revision alone).
\* Before that transaction a vote may start at any time, with the inputs recorded or not.
UncheckedOnlyIfShared ==
    [][\A r \in Release : VoteStarts(r) /\ revs[r][Latest(r)].queued =>
        LET row == task[LatestInputs(r)]
        IN \/ row.st \in {"completed", "failed"}
           \/ row.st = "none" /\ faults > 0
           \/ <<row.rel, row.rev>> # <<r, Latest(r)>>]_vars
=============================================================================
