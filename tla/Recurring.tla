----------------------------- MODULE Recurring -----------------------------
(***************************************************************************)
(* The recurring tasks: each of their runs queues its successor, and the   *)
(* server queues the first when it starts (atr/tasks/__init__.py, the      *)
(* handlers in atr/tasks/maintenance.py, integrity.py, audit.py,           *)
(* metadata.py, gha.py and distribution.py, and                            *)
(* _register_recurrent_tasks in atr/server.py).                            *)
(*                                                                         *)
(* How a task is claimed and returned is the subject of TaskQueue; here a  *)
(* claimant is what it is at, and a task is returned once nobody is at it. *)
(* A scheduled task may be due at any time.  A failed row stays in the     *)
(* table, where nothing of this module reads it again: its number is given *)
(* to another.                                                             *)
(***************************************************************************)
EXTENDS Naturals, FiniteSets

CONSTANTS
    Profile,    \* what a behaviour may meet with
    Row,        \* the numbers of rows, enough for all that are there at a time
    MaxWorkers  \* how many tasks may run at a time

\* The order in which the server registers them.
Place == [maintenance |-> 1, integrity |-> 2, audit |-> 3,
          metadata |-> 4, workflow |-> 5, distribution |-> 6]

Kind == UNION {p.kinds : p \in Profile}

ASSUME RowAssumption == Row \subseteq Nat
ASSUME WorkersAssumption == MaxWorkers \in Nat
ASSUME ProfileAssumption ==
    \A p \in Profile :
        /\ p.kinds \subseteq DOMAIN Place  \* the recurring tasks that the server has
        /\ p.faults \subseteq
               {"work",      \* a run fails in its work
                "queueing",  \* it fails to queue its successor, or the server to register a task
                "overrun",   \* the manager fails a run that takes too long
                "die",       \* a worker dies
                "stop"}      \* the server stops
        /\ p.most \in Nat  \* bound on the number of faults

VARIABLES
    profile,  \* that of this behaviour
    faults,   \* how many there were
    row,      \* row[n]: the task with this number
    run,      \* run[n]: what the worker at it is doing: "begun" before and "followed"
              \*   after it has queued the successor; "idle" when nobody is at it
    server,   \* where the server is
    todo,     \* the tasks that it is still to register, whether it gets there or not
    broken    \* those of which a run was failed before it had queued its successor,
              \*   since the last was queued; read by properties only

vars == <<profile, faults, row, run, server, todo, broken>>

NoRow == [st |-> "none", kind |-> "none", scheduled |-> FALSE, again |-> FALSE]

Fault(f) == f \in profile.faults /\ faults < profile.most /\ faults' = faults + 1

Init ==
    /\ profile \in Profile /\ faults = 0
    /\ row = [n \in Row |-> NoRow]
    /\ run = [n \in Row |-> "idle"]
    /\ server = "down" /\ todo = profile.kinds /\ broken = {}

----------------------------------------------------------------------------
(* Queueing *)

\* Those that queue their successor before they begin their work.
Early == {"maintenance", "integrity", "audit"}

\* Those that replace whatever is queued, not only what is scheduled.
Sweeping == {"maintenance", "audit"}

Waiting(k) == {n \in Row : row[n].st = "queued" /\ row[n].kind = k}
Scheduled(ns) == {n \in ns : row[n].scheduled}

\* Slip: the rows that wait are left alone.
SparesAll(k) == {}

\* _clear_existing_scheduled.
Obsolete(k) == IF k \in Sweeping THEN Waiting(k) ELSE Scheduled(Waiting(k))

\* The number of the next new row.
Free(n) == row[n].st = "none" /\ \A m \in Row : row[m].st = "none" => n <= m

New(k, scheduled) == [st |-> "queued", kind |-> k, scheduled |-> scheduled, again |-> FALSE]

\* Slip: the rows are deleted after the new one is added, which is one of them.
AddsThenDeletes(k, old, scheduled) ==
    \E n \in Row :
        /\ Free(n)
        /\ row' = [m \in Row |-> IF m \in old \/ (m = n /\ scheduled) THEN NoRow
                                 ELSE IF m = n THEN New(k, scheduled) ELSE row[m]]

\* One transaction: the old rows are deleted and a new one is added.
Replaces(k, old, scheduled) ==
    \E n \in Row :
        /\ Free(n)
        /\ row' = [m \in Row |-> IF m = n THEN New(k, scheduled)
                                 ELSE IF m \in old THEN NoRow ELSE row[m]]

----------------------------------------------------------------------------
(* The server *)

Start ==
    /\ server = "down" /\ server' = "starting"
    /\ UNCHANGED <<profile, faults, row, run, todo, broken>>

\* clear_scheduled, for all of them.
ClearScheduled ==
    /\ server = "starting" /\ server' = "registering"
    /\ row' = [n \in Row |-> IF row[n].st = "queued" /\ row[n].scheduled THEN NoRow ELSE row[n]]
    /\ todo' = profile.kinds /\ broken' = {}
    /\ UNCHANGED <<profile, faults, run>>

\* The first of the integrity checks is scheduled, the others are not; only scheduled
\* tasks and the sweeping ones replace what is queued.
Register(k) ==
    /\ server = "registering" /\ k \in todo
    /\ \A j \in todo : Place[k] <= Place[j]
    /\ Replaces(k, IF k \in Early THEN Obsolete(k) ELSE {}, k = "integrity")
    /\ todo' = todo \ {k} /\ broken' = broken \ {k}
    /\ UNCHANGED <<profile, faults, run, server>>

\* One that cannot be registered takes those after it along.
RegistrationFails ==
    /\ server = "registering" /\ todo # {} /\ Fault("queueing")
    /\ server' = "short"
    /\ UNCHANGED <<profile, row, run, todo, broken>>

\* A crash or a shutdown, at whatever it is.
Stop ==
    /\ server # "down" /\ Fault("stop")
    /\ server' = "down"
    /\ UNCHANGED <<profile, row, run, todo, broken>>

----------------------------------------------------------------------------
(* The runs *)

Running == {n \in Row : run[n] # "idle"}

\* Slip: a task that was returned keeps the time at which it was started.
ClaimsOnlyNew(n) ==
    /\ row[n].st = "queued" /\ ~row[n].again /\ Cardinality(Running) < MaxWorkers
    /\ row' = [row EXCEPT ![n].st = "active"]
    /\ run' = [run EXCEPT ![n] = "begun"]
    /\ UNCHANGED <<profile, faults, server, todo, broken>>

Claim(n) ==
    /\ row[n].st = "queued" /\ Cardinality(Running) < MaxWorkers
    /\ row' = [row EXCEPT ![n].st = "active"]
    /\ run' = [run EXCEPT ![n] = "begun"]
    /\ UNCHANGED <<profile, faults, server, todo, broken>>

\* schedule_next, or audit_seal: before the work of the run or after it.
QueueNext(n) ==
    /\ run[n] = "begun"
    /\ Replaces(row[n].kind, Obsolete(row[n].kind), TRUE)
    /\ run' = [run EXCEPT ![n] = "followed"]
    /\ broken' = broken \ {row[n].kind}
    /\ UNCHANGED <<profile, faults, server, todo>>

\* The run is over and its row counts no more: it was completed and dropped, or failed.
Over(n) ==
    /\ row' = [row EXCEPT ![n] = NoRow]
    /\ run' = [run EXCEPT ![n] = "idle"]

\* Of a run that the manager has failed meanwhile nothing is recorded.
Complete(n) ==
    /\ run[n] = "followed" /\ Over(n)
    /\ UNCHANGED <<profile, faults, server, todo, broken>>

\* Slip: all of them queue their successor at the end.
WorksFirst(k) == "begun"

\* Where a run is while it does its work.
WorksWhen(k) == IF k \in Early THEN "followed" ELSE "begun"

\* A run may be failed before it has queued its successor.
Breaks(n) ==
    broken' = IF run[n] = "begun" /\ row[n].st = "active" THEN broken \union {row[n].kind} ELSE broken

WorkFails(n) ==
    /\ run[n] = WorksWhen(row[n].kind) /\ Fault("work")
    /\ Over(n) /\ Breaks(n)
    /\ UNCHANGED <<profile, server, todo>>

QueueingFails(n) ==
    /\ run[n] = "begun" /\ Fault("queueing")
    /\ Over(n) /\ Breaks(n)
    /\ UNCHANGED <<profile, server, todo>>

\* audit.seal, when there are more days to seal.
DefersItself(n) ==
    /\ run[n] = "followed" /\ row[n].kind = "audit" /\ row[n].st = "active"
    /\ row' = [row EXCEPT ![n] = [@ EXCEPT !.st = "queued", !.scheduled = TRUE, !.again = TRUE]]
    /\ run' = [run EXCEPT ![n] = "idle"]
    /\ UNCHANGED <<profile, faults, server, todo, broken>>

\* The verdict of the manager; the worker goes on until it is killed.
Overrun(n) ==
    /\ run[n] # "idle" /\ row[n].st = "active" /\ server # "down" /\ Fault("overrun")
    /\ row' = [row EXCEPT ![n].st = "failed"]
    /\ Breaks(n)
    /\ UNCHANGED <<profile, run, server, todo>>

KillOverrun(n) ==
    /\ run[n] # "idle" /\ row[n].st = "failed" /\ Over(n)
    /\ UNCHANGED <<profile, faults, server, todo, broken>>

Die(n) ==
    /\ run[n] # "idle" /\ row[n].st = "active" /\ Fault("die")
    /\ run' = [run EXCEPT ![n] = "idle"]
    /\ UNCHANGED <<profile, row, server, todo, broken>>

\* By the manager, when the claimant is dead.
Return(n) ==
    /\ row[n].st = "active" /\ run[n] = "idle" /\ server # "down"
    /\ row' = [row EXCEPT ![n] = [@ EXCEPT !.st = "queued", !.again = TRUE]]
    /\ UNCHANGED <<profile, faults, run, server, todo, broken>>

----------------------------------------------------------------------------
Server == Start \/ ClearScheduled \/ (\E k \in Kind : Register(k)) \/ RegistrationFails \/ Stop

Runs(n) ==
    \/ Claim(n) \/ QueueNext(n) \/ Complete(n) \/ WorkFails(n) \/ QueueingFails(n) \/ DefersItself(n)
    \/ Overrun(n) \/ KillOverrun(n) \/ Die(n) \/ Return(n)

Next == Server \/ \E n \in Row : Runs(n)

\* While the server is there it has workers, which take the task that has waited longest
\* whenever they are free, so that no kind waits for ever; it has its manager; and a run
\* goes on or is ended.
Fairness ==
    /\ \A k \in Kind : SF_vars(server # "down" /\ \E n \in Row : row[n].kind = k /\ Claim(n))
    /\ WF_vars(\E n \in Row : QueueNext(n)) /\ WF_vars(\E n \in Row : Complete(n))
    /\ WF_vars(\E n \in Row : KillOverrun(n)) /\ WF_vars(\E n \in Row : Return(n))

Spec == Init /\ [][Next]_vars
FairSpec == Spec /\ Fairness

----------------------------------------------------------------------------
(* Properties *)

TypeOK ==
    /\ profile \in Profile /\ faults \in 0 .. profile.most
    /\ row \in [Row -> [st : {"none", "queued", "active", "failed"}, kind : Kind \union {"none"},
                        scheduled : BOOLEAN, again : BOOLEAN]]
    /\ run \in [Row -> {"idle", "begun", "followed"}]
    /\ server \in {"down", "starting", "registering", "short"}
    /\ todo \subseteq Kind /\ broken \subseteq Kind
    /\ \A n \in Row : /\ row[n].st # "none" => row[n].kind \in Kind
                      /\ run[n] # "idle" => row[n].st \in {"active", "failed"}

\* There is a row from which the next run will come: one that is queued, that was
\* claimed and has yet to queue its successor, or that will be returned to the queue.
Carried(k) ==
    \E n \in Row : row[n].kind = k /\ \/ row[n].st = "queued"
                                      \/ row[n].st = "active" /\ run[n] # "followed"

\* A recurring task that was registered goes on until one of its own runs is failed
\* before it has queued a successor: deletions, returns, deferrals, restarts and runs
\* that race each other lose none (schedule_next, _clear_existing_scheduled).
RegisteredGoesOn == \A k \in profile.kinds \ (todo \union broken) : Carried(k)

\* Maintenance, the integrity checks and the sealing go on whatever their work meets:
\* only the queueing itself, or an overrun before it, can end them.
EarlyOutliveTheirWork ==
    profile.faults \intersect {"queueing", "overrun"} = {} => \A k \in (profile.kinds \intersect Early) \ todo : Carried(k)

\* Recurring tasks replace what is scheduled: of those that nobody has claimed yet, one
\* is (docs/resource-management.md: "recurring tasks replace queued scheduled instances").
OneScheduled ==
    \A k \in Kind : \A m, n \in Scheduled(Waiting(k)) : row[m].again \/ row[n].again \/ m = n

\* A recurring task runs again and again while the server is there, unless a run was
\* failed before it had queued its successor.
RunsAgain ==
    \A k \in Kind : []<>(\/ k \notin profile.kinds \ (todo \union broken) \/ server = "down"
                         \/ \E n \in Row : row[n].kind = k /\ run[n] = "begun")
=============================================================================
