----------------------------- MODULE TaskQueue -----------------------------
(***************************************************************************)
(* The task table, the worker processes that claim its rows (atr/worker.py,*)
(* atr/tasks/task.py) and the manager in the server process that spawns,   *)
(* watches and stops them and returns the claims of the dead to the queue  *)
(* (atr/manager.py).                                                       *)
(*                                                                         *)
(* A step is one transaction on the table, or one thing that a process     *)
(* does between two transactions.  The manager is one coroutine: what it   *)
(* read before an await, it acts on afterwards, while the workers go on.   *)
(* A worker leads a process group of its own, so that its children may     *)
(* outlive it and workers may outlive the server that spawned them.        *)
(***************************************************************************)
EXTENDS Naturals, FiniteSets

CONSTANTS
    Task,        \* the rows, numbered in the order they were added
    Pid,         \* process numbers, 0 is none of them
    Stamp,       \* process creation times, of which only equality matters
    NoStamp,     \* no creation time
    MinWorkers,  \* the size of the pool
    Budget,      \* how many tasks a worker takes before it exits
    Fault,       \* the kinds of fault that may happen
    MaxFaults    \* bound on the number of faults of a behaviour

ASSUME TaskAssumption == Task \subseteq Nat \ {0}
ASSUME PidAssumption == Pid \subseteq Nat \ {0}
ASSUME StampAssumption == NoStamp \notin Stamp
ASSUME SizeAssumption == MinWorkers \in Nat \ {0} /\ Budget \in Nat \ {0}
ASSUME FaultAssumption ==
    /\ Fault \subseteq {"defer", "die", "lost", "memory", "server", "machine", "reuse"}
    /\ MaxFaults \in Nat

VARIABLES
    row,      \* row[t]: status, claim (pid, born) and whether the time limit is over
    proc,     \* proc[p]: the process group numbered p: when its leader was
              \*   created, whether leader and children live, the task they
              \*   work on (0, none) and the tasks the leader may yet take
    tracked,  \* tracked[p]: whether the manager tracks p, and is stopping it
    mon,      \* what the manager holds across an await
    faults    \* how many faults happened

vars == <<row, proc, tracked, mon, faults>>

Queued == [status |-> "queued", pid |-> 0, born |-> NoStamp, overdue |-> FALSE]
NoProc == [born |-> NoStamp, leader |-> FALSE, child |-> FALSE, on |-> 0, left |-> 0]
Idle == [at |-> "idle", pid |-> 0, task |-> 0, born |-> NoStamp, overdue |-> FALSE]

Final(t) == row[t].status \in {"completed", "failed"}

----------------------------------------------------------------------------
(* Reading the tables *)

\* The guard of every verdict and deferral: the row is ACTIVE and names the pid.
Held(t, p) == row[t].status = "active" /\ row[t].pid = p

\* data.task(pid=p, status=ACTIVE).get(): nothing when there is no such row,
\* and an error, which the caller treats as nothing, when there are several.
Candidate(p, t) == {u \in Task : Held(u, p)} = {t}
NoCandidate(p) == \A t \in Task : ~ Candidate(p, t)

GroupAlive(p) == proc[p].leader \/ proc[p].child

\* _claimant_alive: a process of that number, created when the claimant was.
ClaimantAlive(p, b) == proc[p].leader /\ proc[p].born = b

\* active_worker_count and the size of self.workers
ActiveWorkers == Cardinality({p \in Pid : tracked[p] = "yes"})
TrackedWorkers == Cardinality({p \in Pid : tracked[p] # "no"})

\* Creation times that belong to no claim on this number.
FreshStamps(p) ==
    Stamp \ ({row[t].born : t \in {u \in Task : Held(u, p)}} \union {mon.born})

\* What is left of a group when its leader is gone.
WithoutLeader(g, child) ==
    [born |-> g.born, leader |-> FALSE, child |-> child, on |-> IF child THEN g.on ELSE 0,
     left |-> 0]
Killed(g) == WithoutLeader(g, FALSE)

Failed(t) == [row EXCEPT ![t].status = "failed"]

Happens(f) == f \in Fault /\ faults < MaxFaults /\ faults' = faults + 1

Init ==
    /\ row = [t \in Task |-> Queued]
    /\ proc = [p \in Pid |-> NoProc]
    /\ tracked = [p \in Pid |-> "no"]
    /\ mon = Idle
    /\ faults = 0

----------------------------------------------------------------------------
(* Workers *)

Claimable(t) == row[t].status = "queued"

AtWork(g, t, child) ==
    [born |-> g.born, leader |-> TRUE, child |-> child, on |-> t, left |-> g.left]

\* _task_next_claim: the oldest queued task, which may start children.
Claim(p) ==
    /\ proc[p].leader /\ proc[p].on = 0 /\ proc[p].left > 0
    /\ \E t \in Task, child \in BOOLEAN :
         /\ Claimable(t)
         /\ \A u \in Task : Claimable(u) => t <= u
         /\ row' = [row EXCEPT ![t] = [status |-> "active", pid |-> p,
                                       born |-> proc[p].born, overdue |-> FALSE]]
         /\ proc' = [proc EXCEPT ![p] = AtWork(@, t, child)]
    /\ UNCHANGED <<tracked, mon, faults>>

\* After its last task the worker exits.
Processed(g) ==
    [born |-> g.born, leader |-> g.left > 1, child |-> FALSE, on |-> 0, left |-> g.left - 1]

\* Slip: the verdict of a worker stands, whatever became of its claim.
ConcludeUnguarded(p) ==
    /\ proc[p].leader /\ proc[p].on # 0
    /\ LET t == proc[p].on IN
         \E verdict \in {"completed", "failed"} :
             row' = [row EXCEPT ![t].status = verdict]
    /\ proc' = [proc EXCEPT ![p] = Processed(@)]
    /\ UNCHANGED <<tracked, mon, faults>>

\* _task_result_process: the verdict is dropped if the claim is no longer ours.
Conclude(p) ==
    /\ proc[p].leader /\ proc[p].on # 0
    /\ LET t == proc[p].on IN
         \E verdict \in {"completed", "failed"} :
             row' = IF Held(t, p) THEN [row EXCEPT ![t].status = verdict] ELSE row
    /\ proc' = [proc EXCEPT ![p] = Processed(@)]
    /\ UNCHANGED <<tracked, mon, faults>>

\* Slip: the task goes back, whatever became of its claim.
DeferAnyway(p) ==
    /\ proc[p].leader /\ proc[p].on # 0
    /\ Happens("defer")
    /\ LET t == proc[p].on IN row' = [row EXCEPT ![t] = Queued]
    /\ proc' = [proc EXCEPT ![p] = Processed(@)]
    /\ UNCHANGED <<tracked, mon>>

\* _task_defer: LDAP or a service is unavailable, or the handler made a
\* checkpoint; the task goes back to the queue.
Defer(p) ==
    /\ proc[p].leader /\ proc[p].on # 0
    /\ Happens("defer")
    /\ LET t == proc[p].on IN
         row' = IF Held(t, p) THEN [row EXCEPT ![t] = Queued] ELSE row
    /\ proc' = [proc EXCEPT ![p] = Processed(@)]
    /\ UNCHANGED <<tracked, mon>>

\* The transaction of the verdict raises; the loop logs it and goes on.
LoseVerdict(p) ==
    /\ proc[p].leader /\ proc[p].on # 0
    /\ Happens("lost")
    /\ proc' = [proc EXCEPT ![p].child = FALSE, ![p].on = 0]
    /\ UNCHANGED <<row, tracked, mon>>

\* The worker is killed: by its memory watchdog, which kills the group, by
\* the CPU limit or by the system, which leave its children.
WorkerDies(p) ==
    /\ proc[p].leader
    /\ Happens("die")
    /\ \E child \in {FALSE, proc[p].child} : proc' = [proc EXCEPT ![p] = WithoutLeader(@, child)]
    /\ UNCHANGED <<row, tracked, mon>>

ChildrenEnd(p) ==
    /\ ~ proc[p].leader /\ proc[p].child
    /\ proc' = [proc EXCEPT ![p] = Killed(@)]
    /\ UNCHANGED <<row, tracked, mon, faults>>

\* Time passes: the limit of the task's type is over.
Overrun(t) ==
    /\ row[t].status = "active" /\ ~ row[t].overdue
    /\ row' = [row EXCEPT ![t].overdue = TRUE]
    /\ UNCHANGED <<proc, tracked, mon, faults>>

----------------------------------------------------------------------------
(* The manager: the steps of check_workers, which runs again and again *)

\* A worker gets a number that no group uses.  That a claim still names the
\* number is the fault "reuse": the numbers start afresh with the machine.
FreeNumber(p) ==
    /\ ~ GroupAlive(p) /\ tracked[p] = "no"
    /\ FreshStamps(p) # {}

Born(p, left) ==
    [born |-> CHOOSE s \in FreshStamps(p) : TRUE, leader |-> TRUE, child |-> FALSE,
     on |-> 0, left |-> left]

\* maintain_worker_pool: workers being stopped do not count, but keep a slot.
Spawn(p) ==
    /\ mon = Idle
    /\ ActiveWorkers < MinWorkers /\ TrackedWorkers < 2 * MinWorkers
    /\ FreeNumber(p)
    /\ "reuse" \in Fault \/ \A t \in Task : ~ Held(t, p)
    /\ proc' = [proc EXCEPT ![p] = Born(p, Budget)]
    /\ tracked' = [tracked EXCEPT ![p] = "yes"]
    /\ UNCHANGED <<row, mon, faults>>

\* Another process of the machine takes the number.
StrangerStarts(p) ==
    /\ FreeNumber(p)
    /\ Happens("reuse")
    /\ proc' = [proc EXCEPT ![p] = Born(p, 0)]
    /\ UNCHANGED <<row, tracked, mon>>

StrangerEnds(p) ==
    /\ proc[p].leader /\ proc[p].left = 0 /\ proc[p].on = 0
    /\ proc' = [proc EXCEPT ![p] = Killed(@)]
    /\ UNCHANGED <<row, tracked, mon, faults>>

\* An exited worker leaves the pool; its claim, if any, is unmanaged from now on.
Forget(p) ==
    /\ mon = Idle
    /\ tracked[p] # "no" /\ ~ proc[p].leader
    /\ tracked' = [tracked EXCEPT ![p] = "no"]
    /\ UNCHANGED <<row, proc, mon, faults>>

\* check_task_duration, first transaction
SeeOverrun(p) ==
    /\ mon = Idle
    /\ tracked[p] = "yes" /\ proc[p].leader
    /\ \E t \in Task :
         /\ Candidate(p, t) /\ row[t].overdue
         /\ mon' = [Idle EXCEPT !.at = "overrun", !.pid = p, !.task = t]
    /\ UNCHANGED <<row, proc, tracked, faults>>

\* terminate_long_running_task: the verdict, then the stop in the background.
FailOverrun ==
    /\ mon.at = "overrun"
    /\ IF Held(mon.task, mon.pid)
       THEN /\ row' = Failed(mon.task)
            /\ tracked' = [tracked EXCEPT ![mon.pid] = "stopping"]
       ELSE UNCHANGED <<row, tracked>>
    /\ mon' = Idle
    /\ UNCHANGED <<proc, faults>>

\* stop_worker: SIGTERM to the group, which a child may survive ...
Terminate(p) ==
    /\ tracked[p] = "stopping" /\ proc[p].leader
    /\ \E child \in {FALSE, proc[p].child} : proc' = [proc EXCEPT ![p] = WithoutLeader(@, child)]
    /\ UNCHANGED <<row, tracked, mon, faults>>

\* ... then SIGKILL to whatever is left of it.
Kill(p) ==
    /\ tracked[p] = "stopping" /\ GroupAlive(p)
    /\ proc' = [proc EXCEPT ![p] = Killed(@)]
    /\ UNCHANGED <<row, tracked, mon, faults>>

\* check_worker_memory: the task is identified before the measurement ...
SeeMemory(p) ==
    /\ mon = Idle
    /\ tracked[p] = "yes" /\ proc[p].leader
    /\ Happens("memory")
    /\ \E t \in Task \union {0} :
         /\ IF t = 0 THEN NoCandidate(p) ELSE Candidate(p, t)
         /\ mon' = [Idle EXCEPT !.at = "memory", !.pid = p, !.task = t]
    /\ UNCHANGED <<row, proc, tracked>>

\* ... and fails, if it is still active, ...
FailForMemory ==
    /\ mon.at = "memory"
    /\ row' = IF mon.task # 0 /\ Held(mon.task, mon.pid) THEN Failed(mon.task) ELSE row
    /\ mon' = [mon EXCEPT !.at = "overweight"]
    /\ UNCHANGED <<proc, tracked, faults>>

\* ... before the group is killed, whatever it works on by now.
KillForMemory ==
    /\ mon.at = "overweight"
    /\ proc' = [proc EXCEPT ![mon.pid] = Killed(@)]
    /\ tracked' = [tracked EXCEPT ![mon.pid] = "no"]
    /\ mon' = Idle
    /\ UNCHANGED <<row, faults>>

\* unmanaged_claims: an ACTIVE row whose number the manager does not track.
ReadClaim(t) ==
    /\ mon = Idle
    /\ row[t].status = "active" /\ tracked[row[t].pid] = "no"
    /\ mon' = [at |-> "claim", pid |-> row[t].pid, task |-> t, born |-> row[t].born,
               overdue |-> row[t].overdue]
    /\ UNCHANGED <<row, proc, tracked, faults>>

\* Slip: a living orphan is left alone, however long it takes.
LeaveOrphan ==
    /\ mon.at = "claim"
    /\ mon' = IF ClaimantAlive(mon.pid, mon.born) THEN Idle
              ELSE [mon EXCEPT !.at = IF proc[mon.pid].leader THEN "dead" ELSE "gone"]
    /\ UNCHANGED <<row, proc, tracked, faults>>

\* reconcile_unmanaged_claim, first look: a living claimant is left alone within its
\* limit, and one that is gone may have left children.
FindClaimant ==
    /\ mon.at = "claim"
    /\ mon' = IF ClaimantAlive(mon.pid, mon.born)
              THEN IF mon.overdue THEN [mon EXCEPT !.at = "orphan"] ELSE Idle
              ELSE [mon EXCEPT !.at = IF proc[mon.pid].leader THEN "dead" ELSE "gone"]
    /\ UNCHANGED <<row, proc, tracked, faults>>

\* terminate_unmanaged_claim: the verdict, ...
FailOrphan ==
    /\ mon.at = "orphan"
    /\ IF Held(mon.task, mon.pid)
       THEN row' = Failed(mon.task) /\ mon' = [mon EXCEPT !.at = "failed"]
       ELSE mon' = Idle /\ UNCHANGED row
    /\ UNCHANGED <<proc, tracked, faults>>

\* ... a second look, since writing the verdict took time, ...
FindClaimantAgain ==
    /\ mon.at = "failed"
    /\ mon' = IF ClaimantAlive(mon.pid, mon.born) THEN [mon EXCEPT !.at = "doomed"] ELSE Idle
    /\ UNCHANGED <<row, proc, tracked, faults>>

\* ... and the kill, whoever has the number and whatever it works on by now.
KillOrphan ==
    /\ mon.at = "doomed"
    /\ proc' = [proc EXCEPT ![mon.pid] = Killed(@)]
    /\ mon' = Idle
    /\ UNCHANGED <<row, tracked, faults>>

\* Slip: a claimant that is gone has left nobody.
NoSurvivors ==
    /\ mon.at = "gone"
    /\ mon' = [mon EXCEPT !.at = "dead"]
    /\ UNCHANGED <<row, proc, tracked, faults>>

\* _kill_surviving_group: the look at the group ...
FindSurvivors ==
    /\ mon.at = "gone"
    /\ mon' = [mon EXCEPT !.at = IF GroupAlive(mon.pid) THEN "survivors" ELSE "dead"]
    /\ UNCHANGED <<row, proc, tracked, faults>>

\* ... and the kill, after which the claim waits for a later pass.
KillSurvivors ==
    /\ mon.at = "survivors"
    /\ proc' = [proc EXCEPT ![mon.pid] = Killed(@)]
    /\ mon' = IF GroupAlive(mon.pid) THEN Idle ELSE [mon EXCEPT !.at = "dead"]
    /\ UNCHANGED <<row, tracked, faults>>

\* Slip: whatever claim the row carries by now is undone.
RequeueWhatever ==
    /\ mon.at = "dead"
    /\ row' = IF row[mon.task].status = "active"
              THEN [row EXCEPT ![mon.task] = Queued] ELSE row
    /\ mon' = Idle
    /\ UNCHANGED <<proc, tracked, faults>>

\* _requeue_claim: the claim that was read, if the row still carries it.
Requeue ==
    /\ mon.at = "dead"
    /\ row' = IF Held(mon.task, mon.pid) /\ row[mon.task].born = mon.born
              THEN [row EXCEPT ![mon.task] = Queued] ELSE row
    /\ mon' = Idle
    /\ UNCHANGED <<proc, tracked, faults>>

\* What the manager does next with what it read before.
Proceed ==
    \/ FailOverrun \/ FailForMemory \/ KillForMemory
    \/ FindClaimant \/ FailOrphan \/ FindClaimantAgain \/ KillOrphan
    \/ FindSurvivors \/ KillSurvivors \/ Requeue

\* The server dies and starts again: its workers are orphans now.  (A clean
\* shutdown stops the workers first: Terminate and Kill, then this.)
ServerRestarts ==
    /\ Happens("server")
    /\ tracked' = [p \in Pid |-> "no"]
    /\ mon' = Idle
    /\ UNCHANGED <<row, proc>>

\* The machine or the container restarts; the database survives.
MachineRestarts ==
    /\ Happens("machine")
    /\ proc' = [p \in Pid |-> Killed(proc[p])]
    /\ tracked' = [p \in Pid |-> "no"]
    /\ mon' = Idle
    /\ UNCHANGED row

Worker(p) ==
    Claim(p) \/ Conclude(p) \/ Defer(p) \/ LoseVerdict(p) \/ WorkerDies(p) \/ ChildrenEnd(p)
Manager ==
    \/ \E p \in Pid : Spawn(p) \/ Forget(p) \/ SeeOverrun(p) \/ SeeMemory(p)
    \/ \E t \in Task : ReadClaim(t)
    \/ Proceed
Stop(p) == Terminate(p) \/ Kill(p)
System ==
    \/ \E p \in Pid : StrangerStarts(p) \/ StrangerEnds(p)
    \/ \E t \in Task : Overrun(t)
    \/ ServerRestarts \/ MachineRestarts

Next == (\E p \in Pid : Worker(p) \/ Stop(p)) \/ Manager \/ System

\* Idle workers poll the queue, time passes, and check_workers visits every
\* tracked worker and every unmanaged claim in each pass, and goes on after each
\* await.  Nothing makes a handler finish.  The few numbers there are here become
\* free again.
Fairness ==
    /\ \A p \in Pid : WF_vars(Claim(p)) /\ WF_vars(Stop(p)) /\ SF_vars(Forget(p))
                      /\ SF_vars(SeeOverrun(p)) /\ SF_vars(Spawn(p)) /\ WF_vars(StrangerEnds(p))
    /\ \A t \in Task : WF_vars(Overrun(t)) /\ SF_vars(ReadClaim(t))
    /\ WF_vars(Proceed)

Spec == Init /\ [][Next]_vars
FairSpec == Spec /\ Fairness

----------------------------------------------------------------------------
(* Properties *)

Group == [born : Stamp \union {NoStamp}, leader : BOOLEAN, child : BOOLEAN,
          on : Task \union {0}, left : 0 .. Budget]

\* Every variable has its type, a group without members works on nothing, a
\* worker at work has not exhausted its budget, and a row names a number exactly
\* while it is not queued.
TypeOK ==
    /\ row \in [Task -> [status : {"queued", "active", "completed", "failed"},
                         pid : Pid \union {0}, born : Stamp \union {NoStamp}, overdue : BOOLEAN]]
    /\ proc \in [Pid -> Group]
    /\ tracked \in [Pid -> {"no", "yes", "stopping"}]
    /\ mon \in [at : {"idle", "overrun", "memory", "overweight", "claim", "orphan", "failed",
                      "doomed", "gone", "survivors", "dead"},
                pid : Pid \union {0}, task : Task \union {0}, born : Stamp \union {NoStamp}, overdue : BOOLEAN]
    /\ faults \in Nat
    /\ \A p \in Pid : proc[p].on # 0 => GroupAlive(p) /\ (proc[p].leader => proc[p].left > 0)
    /\ \A t \in Task : row[t].status = "queued" <=> row[t].pid = 0
    /\ mon.at # "idle" => mon.pid \in Pid
    /\ mon.at \notin {"idle", "memory", "overweight"} => mon.task \in Task

\* No two process groups ever work on the same task, whatever died, restarted
\* or was deferred: a claim is unique and is undone only when its group is gone.
SoleExecution ==
    \A p, q \in Pid : p # q /\ proc[p].on # 0 => proc[p].on # proc[q].on

\* No task waits in the queue while a worker, or a child that a dead worker
\* left behind, is still at it.
\* (resource-management.md: "A claim is returned to the queue only when its
\* claimant is provably dead".)
ReturnedWhenDead ==
    \A p \in Pid : proc[p].on # 0 => row[proc[p].on].status # "queued"

\* A verdict is for good: a worker that was failed for its overrun and finishes
\* after all, or a manager that read the row before, does not change it.
VerdictsStand ==
    [][\A t \in Task : Final(t) => row'[t] = row[t]]_row

\* A living process has the number in the row, and the number is also in a row that the
\* process is not at work on: a verdict of it was lost, or it got the number of a dead
\* claimant.  Then check_task_duration, which goes by the number, finds no task of it.
Masked(t) ==
    \E p \in Pid, u \in Task : Held(t, p) /\ Held(u, p) /\ proc[p].leader /\ proc[p].on # u

\* What is recorded of the tasks, and the groups at work on each.
Status == [t \in Task |-> row[t].status]
Doers == [t \in Task |-> {p \in Pid : proc[p].on = t}]

Promised == INSTANCE Jobs WITH Job <- Task, Agent <- Pid, status <- Status, doers <- Doers

\* Whoever dies, is stopped, is restarted or takes another's number, the rows are the jobs
\* of Jobs: a task is completed by the one group at work on it and returned to the queue by
\* it or when there is none; all else that is done to a claim is to fail it
\* (_task_next_claim, _task_result_process and _task_defer against check_workers).
ImplementsJobs == Promised!Spec

\* Every task is concluded in the end, even if handlers hang, workers die and the server
\* or the machine restarts (a finite number of times): all but those that are masked.
EveryTaskConcludes == \A t \in Task : <>[](Final(t) \/ Masked(t))
=============================================================================
