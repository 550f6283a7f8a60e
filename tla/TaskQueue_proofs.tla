-------------------------- MODULE TaskQueue_proofs --------------------------
(* What holds of the task table and of the worker processes for any number  *)
(* of tasks, processes and faults.                                          *)
EXTENDS TaskQueue, TLAPS

\* A group at work on an ACTIVE row is the one that the claim names.
RunnerHoldsClaim ==
    \A p \in Pid : proc[p].on # 0 /\ row[proc[p].on].status = "active"
        => row[proc[p].on].pid = p /\ row[proc[p].on].born = proc[p].born

\* What the manager saw dead stays dead: a group that gets the number later has
\* another creation time.
SeenDead ==
    /\ mon.at = "gone" /\ proc[mon.pid].born = mon.born => ~ proc[mon.pid].leader
    /\ mon.at = "dead" /\ proc[mon.pid].born = mon.born => ~ GroupAlive(mon.pid)

\* The inductive invariant, together with SeenDead: a claim can be undone safely
\* because the group that works on a task is known from the row.
IInv == TypeOK /\ SoleExecution /\ ReturnedWhenDead /\ RunnerHoldsClaim

Statuses == {"queued", "active", "completed", "failed"}
RowType == [status : Statuses, pid : Pid \union {0}, born : Stamp \union {NoStamp},
            overdue : BOOLEAN]
MonType == [at : {"idle", "overrun", "memory", "overweight", "claim", "orphan", "failed", "doomed",
                  "gone", "survivors", "dead"},
            pid : Pid \union {0}, task : Task \union {0}, born : Stamp \union {NoStamp}, overdue : BOOLEAN]

----------------------------------------------------------------------------
(* How groups and rows change *)

\* A group whose leader dies keeps its type, and only its children stay at work.
LEMMA WithoutLeaderType ==
    ASSUME NEW g \in Group, NEW child \in BOOLEAN
    PROVE  /\ WithoutLeader(g, child) \in Group
           /\ WithoutLeader(g, child).born = g.born
           /\ ~ WithoutLeader(g, child).leader
           /\ WithoutLeader(g, child).on # 0 =>
                WithoutLeader(g, child).on = g.on /\ WithoutLeader(g, child).child
  <1>1. /\ WithoutLeader(g, TRUE) \in Group
        /\ WithoutLeader(g, TRUE).born = g.born /\ ~ WithoutLeader(g, TRUE).leader
        /\ WithoutLeader(g, TRUE).on = g.on /\ WithoutLeader(g, TRUE).child
    BY SizeAssumption DEF WithoutLeader, Group
  <1>2. /\ WithoutLeader(g, FALSE) \in Group
        /\ WithoutLeader(g, FALSE).born = g.born /\ ~ WithoutLeader(g, FALSE).leader
        /\ WithoutLeader(g, FALSE).on = 0
    BY SizeAssumption DEF WithoutLeader, Group
  <1>3. CASE child = TRUE
    <2>1. WithoutLeader(g, child) = WithoutLeader(g, TRUE)
      BY <1>3 DEF WithoutLeader
    <2> QED BY <1>1, <2>1
  <1>4. CASE child = FALSE
    <2>1. WithoutLeader(g, child) = WithoutLeader(g, FALSE)
      BY <1>4 DEF WithoutLeader
    <2> QED BY <1>2, <2>1
  <1> QED BY <1>3, <1>4

\* A killed group has no members and no task.
LEMMA KilledType ==
    ASSUME NEW g \in Group
    PROVE  Killed(g) \in Group /\ Killed(g).on = 0
  BY SizeAssumption DEF Killed, WithoutLeader, Group

\* A worker that is through with a task has none, and one less to take.
LEMMA ProcessedType ==
    ASSUME NEW g \in Group, g.left > 0
    PROVE  Processed(g) \in Group /\ Processed(g).on = 0
  <1>1. (g.left > 1) \in BOOLEAN /\ g.left - 1 \in 0 .. Budget
    BY SizeAssumption DEF Group
  <1> QED BY <1>1 DEF Processed, Group

\* A new process works on nothing.
LEMMA BornType ==
    ASSUME NEW p \in Pid, NEW left \in 0 .. Budget, FreshStamps(p) # {}
    PROVE  Born(p, left) \in Group /\ Born(p, left).on = 0
  <1>1. (CHOOSE s \in FreshStamps(p) : TRUE) \in Stamp
    BY DEF FreshStamps
  <1> QED BY <1>1 DEF Born, Group

\* What no step but a claim does to the groups and the rows: none takes up a
\* task, no claim changes hands, and a row is returned only when nobody is at it.
LEMMA Preserved ==
    ASSUME IInv, TypeOK',
           \A p \in Pid : proc'[p].on # 0 =>
               proc'[p].on = proc[p].on /\ proc'[p].born = proc[p].born,
           \A t \in Task : row'[t].status = "active" =>
               row[t].status = "active" /\ row'[t].pid = row[t].pid /\ row'[t].born = row[t].born,
           \A p \in Pid : proc'[p].on # 0 /\ row'[proc'[p].on].status = "queued" =>
               row[proc'[p].on].status = "queued"
    PROVE  IInv'
  <1>1. SoleExecution'
    BY DEF IInv, SoleExecution
  <1>2. ReturnedWhenDead'
    BY DEF IInv, ReturnedWhenDead
  <1>3. RunnerHoldsClaim'
    <2> SUFFICES ASSUME NEW p \in Pid, proc'[p].on # 0, row'[proc'[p].on].status = "active"
                 PROVE  row'[proc'[p].on].pid = p /\ row'[proc'[p].on].born = proc'[p].born
      BY DEF RunnerHoldsClaim
    <2>1. proc'[p].on \in Task
      BY DEF TypeOK, Group
    <2> QED BY <2>1 DEF IInv, RunnerHoldsClaim
  <1> QED BY <1>1, <1>2, <1>3 DEF IInv

----------------------------------------------------------------------------
(* The jobs of the abstract specification: what a step does to the tasks    *)
(* and to who is at work on them                                            *)

JobStep == Promised!Next

LEMMA TasksArePositive ==
    ASSUME TypeOK
    PROVE  /\ \A t \in Task : t # 0
           /\ \A p \in Pid : proc[p] \in Group /\ (proc[p].on # 0 => proc[p].on \in Task)
  BY TaskAssumption DEF TypeOK, Group

\* Some groups stop, or none.
LEMMA StopJobs ==
    ASSUME TypeOK,
           \A t \in Task : row'[t].status = row[t].status,
           \A p \in Pid : proc'[p].on # 0 => proc'[p].on = proc[p].on
    PROVE  JobStep
  <1> DEFINE gone == {p \in Pid : proc'[p].on # proc[p].on}
  <1>1. \A t \in Task : t # 0
    BY TasksArePositive
  <1>2. \A t \in Task : {p \in Pid : proc'[p].on = t} = {p \in Pid : proc[p].on = t} \ gone
    BY <1>1
  <1>3. Doers' = [t \in Task |-> Doers[t] \ gone]
    BY <1>2 DEF Doers
  <1>4. Status' = Status
    BY DEF Status
  <1>5. gone \in SUBSET Pid
    OBVIOUS
  <1> HIDE DEF gone
  <1>6. Promised!Stop(gone)
    BY <1>3, <1>4 DEF Promised!Stop
  <1> QED BY <1>5, <1>6 DEF JobStep, Promised!Next

\* The row of one task gets another status.
LEMMA StatusOf ==
    ASSUME NEW t \in Task, NEW st, row'[t].status = st,
           \A u \in Task : u # t => row'[u].status = row[u].status
    PROVE  Status' = [Status EXCEPT ![t] = st]
  BY DEF Status

\* One that fails may still be worked on.
LEMMA OverruleJob ==
    ASSUME NEW t \in Task, row[t].status = "active", row'[t].status = "failed",
           \A u \in Task : u # t => row'[u].status = row[u].status,
           proc' = proc
    PROVE  JobStep
  <1>1. Status' = [Status EXCEPT ![t] = "failed"]
    BY StatusOf
  <1>2. Doers' = Doers /\ Status[t] = "active"
    BY DEF Doers, Status
  <1> QED BY <1>1, <1>2 DEF JobStep, Promised!Next, Promised!Overrule

\* One that is taken back is worked on by nobody.
LEMMA TakeBackJob ==
    ASSUME NEW t \in Task, row[t].status = "active", row'[t].status = "queued",
           \A u \in Task : u # t => row'[u].status = row[u].status,
           proc' = proc, \A p \in Pid : proc[p].on # t
    PROVE  JobStep
  <1>1. Status' = [Status EXCEPT ![t] = "queued"]
    BY StatusOf
  <1>2. Doers' = Doers /\ Status[t] = "active" /\ Doers[t] = {}
    BY DEF Doers, Status
  <1> QED BY <1>1, <1>2 DEF JobStep, Promised!Next, Promised!TakeBack

\* One that is concluded or deferred was worked on by p alone.
LEMMA DeliverJob ==
    ASSUME TypeOK, NEW p \in Pid, NEW t \in Task, NEW st \in {"completed", "failed", "queued"},
           row[t].status = "active", row'[t].status = st,
           \A u \in Task : u # t => row'[u].status = row[u].status,
           \A q \in Pid : proc[q].on = t <=> q = p,
           proc'[p].on = 0, \A q \in Pid : q # p => proc'[q].on = proc[q].on
    PROVE  JobStep
  <1>1. Status' = [Status EXCEPT ![t] = st]
    BY StatusOf
  <1>2. Status[t] = "active" /\ Doers[t] = {p}
    BY DEF Doers, Status
  <1>3. \A u \in Task : {q \in Pid : proc'[q].on = u} =
                             IF u = t THEN {} ELSE {q \in Pid : proc[q].on = u}
    BY TasksArePositive
  <1>4. Doers' = [Doers EXCEPT ![t] = {}]
    BY <1>3 DEF Doers
  <1> QED BY <1>1, <1>2, <1>4 DEF JobStep, Promised!Next, Promised!Deliver

\* One that is claimed was worked on by nobody, and p had none.
LEMMA BeginJob ==
    ASSUME TypeOK, NEW p \in Pid, NEW t \in Task,
           row[t].status = "queued", row'[t].status = "active",
           \A u \in Task : u # t => row'[u].status = row[u].status,
           \A q \in Pid : proc[q].on # t, proc[p].on = 0,
           proc'[p].on = t, \A q \in Pid : q # p => proc'[q].on = proc[q].on
    PROVE  JobStep
  <1>1. Status' = [Status EXCEPT ![t] = "active"]
    BY StatusOf
  <1>2. Status[t] = "queued" /\ Doers[t] = {} /\ \A u \in Task : p \notin Doers[u]
    BY TasksArePositive DEF Doers, Status
  <1>3. \A u \in Task : {q \in Pid : proc'[q].on = u} =
                             IF u = t THEN {p} ELSE {q \in Pid : proc[q].on = u}
    BY TasksArePositive
  <1>4. Doers' = [Doers EXCEPT ![t] = {p}]
    BY <1>3 DEF Doers
  <1> QED BY <1>1, <1>2, <1>4 DEF JobStep, Promised!Next, Promised!Begin

\* The initial state satisfies the invariant.
LEMMA InitIInv == Init => IInv
  <1> SUFFICES ASSUME Init PROVE IInv
    OBVIOUS
  <1>1. TypeOK
    BY SizeAssumption DEF Init, TypeOK, Queued, NoProc, Idle, Group, GroupAlive
  <1> QED BY <1>1 DEF Init, IInv, SoleExecution, ReturnedWhenDead, RunnerHoldsClaim, NoProc

----------------------------------------------------------------------------
(* The steps, one lemma for each kind *)

\* A claim is made of a queued task, which nobody works on.
LEMMA ClaimStep ==
    ASSUME IInv, NEW p \in Pid, Claim(p)
    PROVE  IInv' /\ JobStep
  <1>1. PICK t \in Task, child \in BOOLEAN :
         /\ row[t].status = "queued"
         /\ row' = [row EXCEPT ![t] = [status |-> "active", pid |-> p,
                                       born |-> proc[p].born, overdue |-> FALSE]]
         /\ proc' = [proc EXCEPT ![p] = AtWork(@, t, child)]
    BY DEF Claim, Claimable
  <1>2. TypeOK
    BY DEF IInv
  <1>3. /\ proc[p] \in Group /\ t # 0 /\ p # 0
        /\ \A q \in Pid : proc[q].on # 0 => proc[q].on \in Task
    BY <1>2, TaskAssumption, PidAssumption DEF TypeOK, Group
  <1>4. proc[p].left > 0
    BY DEF Claim
  <1>5. AtWork(proc[p], t, child) \in Group
    BY <1>3 DEF AtWork, Group
  <1>6. \A q \in Pid : proc[q].on # t
    BY <1>1, <1>3 DEF IInv, ReturnedWhenDead
  <1>7. \A q \in Pid : q # p => proc'[q] = proc[q]
    BY <1>1, <1>2 DEF TypeOK
  <1>8. /\ proc'[p] = AtWork(proc[p], t, child)
        /\ proc'[p].on = t /\ proc'[p].born = proc[p].born
        /\ proc'[p].leader /\ proc'[p].left = proc[p].left
    BY <1>1, <1>2 DEF TypeOK, AtWork
  <1>9. \A u \in Task : u # t => row'[u] = row[u]
    BY <1>1, <1>2 DEF TypeOK
  <1>10. row'[t] = [status |-> "active", pid |-> p, born |-> proc[p].born, overdue |-> FALSE]
    BY <1>1, <1>2 DEF TypeOK
  <1>11. TypeOK'
    <2>1. row' \in [Task -> RowType]
      BY <1>1, <1>2, <1>3 DEF TypeOK, RowType, Statuses, Group
    <2>2. proc' \in [Pid -> Group]
      BY <1>1, <1>2, <1>5 DEF TypeOK
    <2>3. \A q \in Pid : proc'[q].on # 0 => GroupAlive(q)' /\ (proc'[q].leader => proc'[q].left > 0)
      BY <1>2, <1>4, <1>7, <1>8 DEF TypeOK, GroupAlive
    <2>4. \A u \in Task : row'[u].status = "queued" <=> row'[u].pid = 0
      BY <1>2, <1>3, <1>9, <1>10 DEF TypeOK
    <2>5. UNCHANGED <<tracked, mon, faults>>
      BY DEF Claim
    <2> QED BY <1>2, <2>1, <2>2, <2>3, <2>4, <2>5 DEF TypeOK, RowType, Statuses
  <1>12. SoleExecution'
    BY <1>6, <1>7, <1>8 DEF IInv, SoleExecution
  <1>13. ReturnedWhenDead'
    BY <1>3, <1>6, <1>7, <1>8, <1>9, <1>10 DEF IInv, ReturnedWhenDead
  <1>14. RunnerHoldsClaim'
    BY <1>3, <1>6, <1>7, <1>8, <1>9, <1>10 DEF IInv, RunnerHoldsClaim
  <1>15. JobStep
    BY <1>1, <1>2, <1>6, <1>7, <1>8, <1>9, <1>10, BeginJob DEF Claim
  <1> QED BY <1>11, <1>12, <1>13, <1>14, <1>15 DEF IInv

\* Verdicts and deferrals of a worker: it gives up the task that it works on,
\* and nobody else is at it.
LEMMA ConcludeStep ==
    ASSUME IInv, NEW p \in Pid, Conclude(p) \/ Defer(p)
    PROVE  IInv' /\ JobStep
  <1> DEFINE t == proc[p].on
  <1>1. /\ t \in Task /\ proc[p].left > 0 /\ proc[p] \in Group
        /\ \A q \in Pid : q # p => proc[q].on # t
    BY DEF IInv, TypeOK, Group, SoleExecution, Conclude, Defer
  <1>2. Processed(proc[p]) \in Group /\ Processed(proc[p]).on = 0
    BY <1>1, ProcessedType
  <1>3. proc' = [proc EXCEPT ![p] = Processed(proc[p])] /\ UNCHANGED <<tracked, mon>>
    BY DEF Conclude, Defer
  <1>4. PICK r \in RowType :
          /\ row' = row \/ (Held(t, p) /\ row' = [row EXCEPT ![t] = r])
          /\ r.status # "active" /\ (r.status = "queued" <=> r.pid = 0)
    <2>1. CASE Conclude(p)
      <3>1. PICK v \in {"completed", "failed"} :
              row' = IF Held(t, p) THEN [row EXCEPT ![t].status = v] ELSE row
        BY <2>1 DEF Conclude
      <3>2. CASE Held(t, p)
        <4>1. row[t] \in RowType /\ row[t].pid # 0
          BY <1>1, <3>2, PidAssumption DEF IInv, TypeOK, RowType, Statuses, Held
        <4>2. [row[t] EXCEPT !.status = v] \in RowType
          BY <4>1 DEF RowType, Statuses
        <4>3. row' = [row EXCEPT ![t] = [row[t] EXCEPT !.status = v]]
          BY <3>1, <3>2
        <4> QED BY <3>2, <4>1, <4>2, <4>3 DEF RowType
      <3>3. CASE ~ Held(t, p)
        <4>1. Queued \in RowType
          BY DEF Queued, RowType, Statuses
        <4> QED BY <3>1, <3>3, <4>1 DEF Queued
      <3> QED BY <3>2, <3>3
    <2>2. CASE Defer(p)
      <3>1. Queued \in RowType /\ Queued.status = "queued" /\ Queued.pid = 0
        BY DEF Queued, RowType, Statuses
      <3>2. row' = IF Held(t, p) THEN [row EXCEPT ![t] = Queued] ELSE row
        BY <2>2 DEF Defer
      <3> QED BY <3>1, <3>2
    <2> QED BY <2>1, <2>2
  <1>5. TypeOK'
    <2>1. /\ row' \in [Task -> RowType]
          /\ \A u \in Task : row'[u].status = "queued" <=> row'[u].pid = 0
      BY <1>1, <1>4 DEF IInv, TypeOK, RowType, Statuses
    <2>2. /\ proc' \in [Pid -> Group]
          /\ \A q \in Pid : proc'[q].on # 0 =>
                GroupAlive(q)' /\ (proc'[q].leader => proc'[q].left > 0)
      BY <1>2, <1>3 DEF IInv, TypeOK, GroupAlive
    <2>3. faults' \in Nat
      BY DEF IInv, TypeOK, Conclude, Defer, Happens
    <2> QED BY <1>3, <2>1, <2>2, <2>3 DEF IInv, TypeOK, RowType, Statuses
  <1>6. \A q \in Pid : proc'[q].on # 0 => q # p /\ proc'[q] = proc[q]
    BY <1>2, <1>3 DEF IInv, TypeOK
  <1>7. \A u \in Task : row'[u] = row[u] \/ (u = t /\ row'[u].status # "active")
    BY <1>1, <1>4 DEF IInv, TypeOK
  <1>8. \A q \in Pid : proc'[q].on # 0 =>
          /\ proc'[q].on = proc[q].on /\ proc'[q].born = proc[q].born
          /\ row'[proc'[q].on] = row[proc'[q].on]
    <2> SUFFICES ASSUME NEW q \in Pid, proc'[q].on # 0
                 PROVE  proc'[q] = proc[q] /\ row'[proc[q].on] = row[proc[q].on]
      OBVIOUS
    <2>1. q # p /\ proc'[q] = proc[q] /\ proc[q].on \in Task
      BY <1>6 DEF IInv, TypeOK, Group
    <2> QED BY <1>1, <1>7, <2>1
  <1>9. JobStep
    <2>1. /\ TypeOK /\ proc'[p].on = 0 /\ proc[p].on # 0
          /\ \A q \in Pid : q # p => proc'[q] = proc[q]
      BY <1>2, <1>3 DEF IInv, TypeOK, Conclude, Defer
    <2>2. CASE Held(t, p) /\ row' = [row EXCEPT ![t] = r]
      <3>1. r.status \in {"completed", "failed", "queued"}
        BY <1>4 DEF RowType, Statuses
      <3>2. row'[t].status = r.status /\ \A u \in Task : u # t => row'[u].status = row[u].status
        BY <1>1, <2>1, <2>2 DEF TypeOK
      <3>3. \A q \in Pid : proc[q].on = t <=> q = p
        BY <1>1
      <3> QED BY <1>1, <2>1, <2>2, <3>1, <3>2, <3>3, DeliverJob DEF Held
    <2>3. CASE row' = row
      BY <2>1, <2>3, StopJobs
    <2> QED BY <1>4, <2>2, <2>3
  <1> QED BY <1>5, <1>7, <1>8, <1>9, Preserved

\* What every step leaves of the types of the manager and of the bound.
Others ==
    /\ tracked \in [Pid -> {"no", "yes", "stopping"}]
    /\ mon \in MonType
    /\ mon.at # "idle" => mon.pid \in Pid
    /\ mon.at \notin {"idle", "memory", "overweight"} => mon.task \in Task
    /\ faults \in Nat

\* TypeOK, part by part
LEMMA TypeParts ==
    /\ TypeOK <=>
         /\ row \in [Task -> RowType]
         /\ proc \in [Pid -> Group]
         /\ \A p \in Pid : proc[p].on # 0 =>
               GroupAlive(p) /\ (proc[p].leader => proc[p].left > 0)
         /\ \A t \in Task : row[t].status = "queued" <=> row[t].pid = 0
         /\ Others
    /\ TypeOK' <=>
         /\ row' \in [Task -> RowType]
         /\ proc' \in [Pid -> Group]
         /\ \A p \in Pid : proc'[p].on # 0 =>
               GroupAlive(p)' /\ (proc'[p].leader => proc'[p].left > 0)
         /\ \A t \in Task : row'[t].status = "queued" <=> row'[t].pid = 0
         /\ Others'
  BY DEF TypeOK, Others, RowType, Statuses, MonType

\* A step that starts, shrinks or kills groups and leaves the rows alone.
LEMMA GroupStep ==
    ASSUME IInv, row' = row, Others', proc' \in [Pid -> Group],
           \A p \in Pid : proc'[p].on # 0 =>
               /\ proc'[p].on = proc[p].on /\ proc'[p].born = proc[p].born
               /\ GroupAlive(p)' /\ (proc'[p].leader => proc'[p].left > 0)
    PROVE  IInv' /\ JobStep
  <1>1. TypeOK'
    BY TypeParts DEF IInv
  <1>2. JobStep
    BY StopJobs DEF IInv
  <1> QED BY <1>1, <1>2, Preserved

\* Workers that lose a verdict or die, children that end, groups that are killed.
LEMMA DeathStep ==
    ASSUME IInv, NEW p \in Pid,
           \/ LoseVerdict(p) \/ WorkerDies(p) \/ ChildrenEnd(p) \/ StrangerEnds(p)
           \/ Terminate(p) \/ Kill(p)
    PROVE  IInv' /\ JobStep
  <1> DEFINE g == proc[p]
  <1>1. TypeOK /\ g \in Group
    BY DEF IInv, TypeOK
  <1>2. row' = row /\ Others'
    <2>1. UNCHANGED <<row, tracked, mon>> /\ faults' \in {faults, faults + 1}
      BY DEF Happens, LoseVerdict, WorkerDies, ChildrenEnd, StrangerEnds, Terminate, Kill
    <2>2. Others
      BY <1>1, TypeParts
    <2> QED BY <2>1, <2>2 DEF Others
  <1>3. PICK h \in Group :
          /\ proc' = [proc EXCEPT ![p] = h]
          /\ h.on # 0 => h.on = g.on /\ h.born = g.born /\ h.child /\ ~ h.leader
    <2>1. CASE LoseVerdict(p)
      <3>1. [g EXCEPT !.child = FALSE, !.on = 0] \in Group
        BY <1>1 DEF Group
      <3>2. proc' = [proc EXCEPT ![p] = [g EXCEPT !.child = FALSE, !.on = 0]]
        BY <1>1, <2>1 DEF LoseVerdict
      <3> QED BY <1>1, <3>1, <3>2 DEF Group
    <2>2. CASE WorkerDies(p) \/ Terminate(p)
      <3>1. PICK child \in {FALSE, g.child} : proc' = [proc EXCEPT ![p] = WithoutLeader(@, child)]
        BY <2>2 DEF WorkerDies, Terminate
      <3>2. child \in BOOLEAN
        BY <1>1 DEF Group
      <3> QED BY <1>1, <3>1, <3>2, WithoutLeaderType
    <2>3. CASE ChildrenEnd(p) \/ StrangerEnds(p) \/ Kill(p)
      <3>1. proc' = [proc EXCEPT ![p] = Killed(g)]
        BY <2>3 DEF ChildrenEnd, StrangerEnds, Kill
      <3> QED BY <1>1, <3>1, KilledType
    <2> QED BY <2>1, <2>2, <2>3
  <1>4. proc' \in [Pid -> Group]
    BY <1>1, <1>3 DEF TypeOK
  <1>5. \A q \in Pid : proc'[q] = IF q = p THEN h ELSE proc[q]
    BY <1>1, <1>3 DEF TypeOK
  <1>6. \A q \in Pid : proc'[q].on # 0 =>
          /\ proc'[q].on = proc[q].on /\ proc'[q].born = proc[q].born
          /\ GroupAlive(q)' /\ (proc'[q].leader => proc'[q].left > 0)
    BY <1>1, <1>3, <1>5 DEF TypeOK, GroupAlive
  <1> QED BY <1>2, <1>4, <1>6, GroupStep

\* A process starts where no group was.
LEMMA StartStep ==
    ASSUME IInv, NEW p \in Pid, Spawn(p) \/ StrangerStarts(p)
    PROVE  IInv' /\ JobStep
  <1>1. TypeOK
    BY DEF IInv
  <1>2. row' = row /\ Others'
    <2>1. CASE Spawn(p)
      BY <1>1, <2>1, TypeParts DEF Others, Spawn
    <2>2. CASE StrangerStarts(p)
      BY <1>1, <2>2, TypeParts DEF Others, Happens, StrangerStarts
    <2> QED BY <2>1, <2>2
  <1>3. PICK left \in 0 .. Budget : proc' = [proc EXCEPT ![p] = Born(p, left)]
    BY SizeAssumption DEF Spawn, StrangerStarts
  <1>4. Born(p, left) \in Group /\ Born(p, left).on = 0
    BY BornType DEF Spawn, StrangerStarts, FreeNumber
  <1>5. proc' \in [Pid -> Group]
    BY <1>1, <1>3, <1>4 DEF TypeOK
  <1>6. \A q \in Pid : proc'[q].on # 0 => proc'[q] = proc[q]
    BY <1>1, <1>3, <1>4 DEF TypeOK
  <1>7. \A q \in Pid : proc'[q].on # 0 =>
          GroupAlive(q)' /\ (proc'[q].leader => proc'[q].left > 0)
    BY <1>1, <1>6 DEF TypeOK, GroupAlive
  <1> QED BY <1>2, <1>5, <1>6, <1>7, GroupStep

\* A verdict or a new time limit leaves every claim where it is.
LEMMA RowStep ==
    ASSUME IInv, Others', proc' = proc, NEW t \in Task, NEW r \in RowType,
           row' = [row EXCEPT ![t] = r], row[t].status = "active",
           r.status \in {"active", "failed"}, r.pid = row[t].pid, r.born = row[t].born
    PROVE  IInv' /\ JobStep
  <1>1. TypeOK
    BY DEF IInv
  <1>2. \A u \in Task : row'[u] = IF u = t THEN r ELSE row[u]
    BY <1>1 DEF TypeOK
  <1>3. row' \in [Task -> RowType]
    BY <1>1, TypeParts
  <1>4. row[t].pid # 0
    BY <1>1 DEF TypeOK
  <1>5. TypeOK'
    BY <1>1, <1>2, <1>3, <1>4, TypeParts DEF GroupAlive
  <1>6. \A p \in Pid : proc[p].on # 0 => proc[p].on \in Task
    BY <1>1 DEF TypeOK, Group
  <1>7. JobStep
    <2>1. CASE r.status = "active"
      BY <1>1, <1>2, <2>1, StopJobs
    <2>2. CASE r.status = "failed"
      BY <1>2, <2>2, OverruleJob
    <2> QED BY <2>1, <2>2
  <1> QED BY <1>2, <1>5, <1>6, <1>7, Preserved

\* Time passes: the claim stays as it is.
LEMMA OverrunStep ==
    ASSUME IInv, NEW t \in Task, Overrun(t)
    PROVE  IInv' /\ JobStep
  <1>1. row[t] \in RowType /\ Others
    BY TypeParts DEF IInv
  <1>2. [row[t] EXCEPT !.overdue = TRUE] \in RowType
    BY <1>1 DEF RowType
  <1>3. row' = [row EXCEPT ![t] = [row[t] EXCEPT !.overdue = TRUE]]
    BY DEF Overrun
  <1>4. Others' /\ proc' = proc /\ row[t].status = "active"
    BY <1>1 DEF Overrun, Others
  <1> QED BY <1>1, <1>2, <1>3, <1>4, RowStep DEF RowType

\* The verdict of the manager on a claim that stands.
LEMMA FailedStep ==
    ASSUME IInv, Others', proc' = proc, NEW t \in Task, NEW p \in Pid, Held(t, p),
           row' = Failed(t)
    PROVE  IInv' /\ JobStep
  <1>1. row[t] \in RowType
    BY TypeParts DEF IInv
  <1>2. [row[t] EXCEPT !.status = "failed"] \in RowType
    BY <1>1 DEF RowType, Statuses
  <1>3. row' = [row EXCEPT ![t] = [row[t] EXCEPT !.status = "failed"]]
    BY DEF Failed
  <1> QED BY <1>1, <1>2, <1>3, RowStep DEF RowType, Held

\* Going back to idle keeps the types.
LEMMA IdleOthers ==
    ASSUME Others, mon' = Idle, tracked' \in [Pid -> {"no", "yes", "stopping"}],
           faults' \in Nat
    PROVE  Others'
  BY DEF Others, Idle, MonType

\* What the manager reads, and what it does that changes neither row nor group.
LEMMA ReadStep ==
    ASSUME IInv, \/ \E p \in Pid : Forget(p) \/ SeeOverrun(p) \/ SeeMemory(p)
                 \/ \E t \in Task : ReadClaim(t)
                 \/ FindClaimant \/ FindClaimantAgain \/ FindSurvivors
                 \/ ServerRestarts
    PROVE  IInv' /\ JobStep
  <1>1. Others /\ TypeOK
    BY TypeParts DEF IInv
  <1>2. UNCHANGED <<row, proc>>
    BY DEF Forget, SeeOverrun, SeeMemory, ReadClaim, FindClaimant, FindClaimantAgain, FindSurvivors,
       ServerRestarts
  <1>3. Others'
    <2>1. ASSUME NEW p \in Pid, Forget(p) PROVE Others'
      BY <1>1, <2>1 DEF Forget, Others
    <2>2. ASSUME NEW p \in Pid, SeeOverrun(p) PROVE Others'
      BY <1>1, <2>2 DEF SeeOverrun, Others, Idle, MonType
    <2>3. ASSUME NEW p \in Pid, SeeMemory(p) PROVE Others'
      <3>1. PICK t \in Task \union {0} :
              mon' = [at |-> "memory", pid |-> p, task |-> t, born |-> NoStamp, overdue |-> FALSE]
        BY <2>3 DEF SeeMemory, Idle
      <3>2. UNCHANGED tracked /\ faults' = faults + 1
        BY <2>3 DEF SeeMemory, Happens
      <3> QED BY <1>1, <3>1, <3>2 DEF Others, MonType
    <2>4. ASSUME NEW t \in Task, ReadClaim(t) PROVE Others'
      <3>1. row[t] \in RowType /\ row[t].pid \in Pid
        BY <1>1, <2>4, TypeParts DEF RowType, ReadClaim
      <3> QED BY <1>1, <2>4, <3>1 DEF ReadClaim, Others, MonType, RowType
    <2>5. CASE FindClaimant \/ FindClaimantAgain \/ FindSurvivors
      <3>1. /\ \/ mon' = Idle
               \/ \E at \in {"orphan", "doomed", "gone", "survivors", "dead"} :
                     mon' = [mon EXCEPT !.at = at]
            /\ mon.at \in {"claim", "failed", "gone"} /\ UNCHANGED <<tracked, faults>>
        BY <2>5 DEF FindClaimant, FindClaimantAgain, FindSurvivors
      <3> QED BY <1>1, <3>1, IdleOthers DEF Others, MonType
    <2>6. CASE ServerRestarts
      <3>1. mon' = Idle /\ tracked' \in [Pid -> {"no", "yes", "stopping"}] /\ faults' \in Nat
        BY <1>1, <2>6 DEF ServerRestarts, Happens, Others
      <3> QED BY <1>1, <3>1, IdleOthers
    <2> QED BY <2>1, <2>2, <2>3, <2>4, <2>5, <2>6
  <1> QED BY <1>1, <1>2, <1>3, GroupStep DEF TypeOK, GroupAlive

\* A pass over a worker or over a claim ends in a verdict or in a kill.
LEMMA VerdictStep ==
    ASSUME IInv, FailOverrun \/ FailForMemory \/ FailOrphan
    PROVE  IInv' /\ JobStep
  <1>1. /\ Others /\ TypeOK /\ mon.pid \in Pid
        /\ (FailForMemory => mon.task # 0) => mon.task \in Task
    BY TypeParts DEF IInv, Others, MonType, FailOverrun, FailForMemory, FailOrphan
  <1>2. Others' /\ proc' = proc
    <2>1. CASE FailOverrun
      BY <1>1, <2>1, IdleOthers DEF FailOverrun, Others
    <2>2. CASE FailOrphan
      <3>1. CASE mon' = Idle
        BY <1>1, <2>2, <3>1, IdleOthers DEF FailOrphan, Others
      <3>2. CASE mon' = [mon EXCEPT !.at = "failed"]
        BY <1>1, <2>2, <3>2 DEF FailOrphan, Others, MonType
      <3> QED BY <2>2, <3>1, <3>2 DEF FailOrphan
    <2>3. CASE FailForMemory
      BY <1>1, <2>3 DEF FailForMemory, Others, MonType
    <2> QED BY <2>1, <2>2, <2>3
  <1>3. CASE mon.task \in Task /\ Held(mon.task, mon.pid) /\ row' = Failed(mon.task)
    BY <1>1, <1>2, <1>3, FailedStep
  <1>4. CASE row' = row
    BY <1>1, <1>2, <1>4, GroupStep DEF TypeOK, GroupAlive
  <1> QED BY <1>1, <1>3, <1>4 DEF FailOverrun, FailForMemory, FailOrphan

\* Groups killed by the manager, or by a restart of the machine.
LEMMA KillStep ==
    ASSUME IInv, KillForMemory \/ KillOrphan \/ KillSurvivors \/ MachineRestarts
    PROVE  IInv' /\ JobStep
  <1>1. Others /\ TypeOK
    BY TypeParts DEF IInv
  <1>2. row' = row /\ (mon' = Idle \/ (KillSurvivors /\ mon' = [mon EXCEPT !.at = "dead"]))
    BY DEF KillForMemory, KillOrphan, KillSurvivors, MachineRestarts
  <1>3. tracked' \in [Pid -> {"no", "yes", "stopping"}] /\ faults' \in Nat
    BY <1>1 DEF KillForMemory, KillOrphan, KillSurvivors, MachineRestarts, Happens, Others
  <1>4. Others'
    <2>1. CASE mon' = Idle
      BY <1>1, <1>3, <2>1, IdleOthers
    <2>2. CASE KillSurvivors /\ mon' = [mon EXCEPT !.at = "dead"]
      BY <1>1, <1>3, <2>2 DEF KillSurvivors, Others, MonType
    <2> QED BY <1>2, <2>1, <2>2
  <1>5. \A q \in Pid : Killed(proc[q]) \in Group /\ Killed(proc[q]).on = 0
    BY <1>1, KilledType DEF TypeOK
  <1>6. proc' \in [Pid -> Group] /\ \A q \in Pid : proc'[q].on # 0 => proc'[q] = proc[q]
    <2>1. CASE MachineRestarts
      BY <1>1, <1>5, <2>1 DEF MachineRestarts
    <2>2. CASE proc' = [proc EXCEPT ![mon.pid] = Killed(@)]
      BY <1>1, <1>5, <2>2 DEF TypeOK
    <2>3. CASE proc' = proc
      BY <1>1, <2>3 DEF TypeOK
    <2> QED BY <2>1, <2>2, <2>3 DEF KillForMemory, KillOrphan, KillSurvivors
  <1>7. \A q \in Pid : proc'[q].on # 0 =>
          GroupAlive(q)' /\ (proc'[q].leader => proc'[q].left > 0)
    BY <1>1, <1>6 DEF TypeOK, GroupAlive
  <1> QED BY <1>2, <1>4, <1>6, <1>7, GroupStep

\* A claim is returned when its claimant is dead and has left nobody: the group
\* of that number, if there is one, is not the one that claimed the task.
LEMMA RequeueStep ==
    ASSUME IInv, SeenDead, Requeue
    PROVE  IInv' /\ JobStep
  <1> DEFINE t == mon.task
  <1>1. Others /\ TypeOK /\ mon.pid \in Pid /\ t \in Task
    BY TypeParts DEF IInv, Others, Requeue
  <1>2. Others' /\ proc' = proc
    BY <1>1, IdleOthers DEF Requeue, Others
  <1>3. CASE row' = row
    BY <1>1, <1>2, <1>3, GroupStep DEF TypeOK, GroupAlive
  <1>4. CASE Held(t, mon.pid) /\ row[t].born = mon.born /\ row' = [row EXCEPT ![t] = Queued]
    <2>1. ASSUME NEW q \in Pid, proc[q].on = t PROVE FALSE
      <3>1. t # 0
        BY <1>1, TaskAssumption
      <3>2. q = mon.pid /\ proc[q].born = mon.born
        BY <1>4, <2>1, <3>1 DEF IInv, RunnerHoldsClaim, Held
      <3>3. proc[q].leader \/ proc[q].child
        BY <1>1, <2>1, <3>1 DEF TypeOK, GroupAlive
      <3> QED BY <3>2, <3>3 DEF Requeue, SeenDead, GroupAlive
    <2>2. Queued \in RowType /\ Queued.status = "queued" /\ Queued.pid = 0
      BY DEF Queued, RowType, Statuses
    <2>3. row' \in [Task -> RowType] /\ \A u \in Task : row'[u] = IF u = t THEN Queued ELSE row[u]
      BY <1>1, <1>4, <2>2, TypeParts
    <2>4. TypeOK'
      BY <1>1, <1>2, <2>2, <2>3, TypeParts DEF GroupAlive
    <2>5. \A q \in Pid : proc[q].on # 0 => proc[q].on \in Task
      BY <1>1 DEF TypeOK, Group
    <2>6. JobStep
      BY <1>1, <1>2, <1>4, <2>1, <2>2, <2>3, TakeBackJob DEF Held
    <2> QED BY <1>2, <2>1, <2>2, <2>3, <2>4, <2>5, <2>6, Preserved
  <1> QED BY <1>3, <1>4 DEF Requeue

----------------------------------------------------------------------------
(* The theorems *)

\* What was seen dead is brought back by no step: no group gets a new leader or new
\* children once it has neither, and a new one has another creation time.
LEMMA SeenDeadStep ==
    ASSUME TypeOK, SeenDead, [Next]_vars
    PROVE  SeenDead'
  <1>1. ASSUME mon' = mon,
               \A q \in Pid : proc'[q].born = mon.born /\ (proc'[q].leader \/ proc'[q].child) =>
                   /\ proc[q].born = mon.born
                   /\ proc'[q].leader => proc[q].leader
                   /\ proc[q].leader \/ proc[q].child
        PROVE  SeenDead'
    <2>1. mon.at \in {"gone", "dead"} => mon.pid \in Pid
      BY DEF TypeOK
    <2> QED BY <1>1, <2>1 DEF SeenDead, GroupAlive
  <1>2. ASSUME NEW p \in Pid,
               \/ Claim(p) \/ Conclude(p) \/ Defer(p) \/ LoseVerdict(p) \/ WorkerDies(p)
               \/ ChildrenEnd(p) \/ StrangerEnds(p) \/ Terminate(p) \/ Kill(p)
        PROVE  SeenDead'
    <2>1. mon' = mon /\ GroupAlive(p)
      BY <1>2 DEF Claim, Conclude, Defer, LoseVerdict, WorkerDies, ChildrenEnd, StrangerEnds,
         Terminate, Kill, GroupAlive
    <2>2. \A q \in Pid : q # p => proc'[q] = proc[q]
      BY <1>2 DEF Claim, Conclude, Defer, LoseVerdict, WorkerDies, ChildrenEnd, StrangerEnds,
         Terminate, Kill, TypeOK
    <2>3. proc'[p].born = proc[p].born /\ (proc'[p].leader => proc[p].leader)
      <3>1. CASE Claim(p)
        BY <3>1 DEF Claim, AtWork, TypeOK
      <3>2. CASE Conclude(p) \/ Defer(p)
        BY <3>2 DEF Conclude, Defer, Processed, TypeOK
      <3>3. CASE LoseVerdict(p)
        BY <3>3 DEF LoseVerdict, TypeOK, Group
      <3>4. CASE WorkerDies(p) \/ ChildrenEnd(p) \/ StrangerEnds(p) \/ Terminate(p) \/ Kill(p)
        BY <3>4 DEF WorkerDies, ChildrenEnd, StrangerEnds, Terminate, Kill, Killed, WithoutLeader,
           TypeOK
      <3> QED BY <1>2, <3>1, <3>2, <3>3, <3>4
    <2> QED BY <1>1, <2>1, <2>2, <2>3 DEF GroupAlive
  <1>3. ASSUME NEW p \in Pid, Spawn(p) \/ StrangerStarts(p)
        PROVE  SeenDead'
    <2>1. PICK left : proc' = [proc EXCEPT ![p] = Born(p, left)]
      BY <1>3 DEF Spawn, StrangerStarts
    <2>2. mon' = mon /\ FreshStamps(p) # {}
      BY <1>3 DEF Spawn, StrangerStarts, FreeNumber
    <2>3. (CHOOSE s \in FreshStamps(p) : TRUE) # mon.born
      BY <2>2 DEF FreshStamps
    <2>4. proc'[p].born # mon.born /\ \A q \in Pid : q # p => proc'[q] = proc[q]
      BY <2>1, <2>3 DEF Born, TypeOK
    <2> QED BY <1>1, <2>2, <2>4
  <1>4. ASSUME mon'.at \notin {"gone", "dead"}
        PROVE  SeenDead'
    BY <1>4 DEF SeenDead
  <1>5. CASE FindClaimant
    <2>1. /\ proc' = proc
          /\ \/ mon'.at \notin {"gone", "dead"}
             \/ mon' = [mon EXCEPT !.at = "gone"] /\ ~ proc[mon.pid].leader
             \/ /\ mon' = [mon EXCEPT !.at = "dead"]
                /\ proc[mon.pid].leader /\ ~ ClaimantAlive(mon.pid, mon.born)
      BY <1>5 DEF FindClaimant, Idle, TypeOK
    <2> QED BY <1>4, <2>1 DEF SeenDead, ClaimantAlive, TypeOK
  <1>6. CASE FindSurvivors
    <2>1. /\ proc' = proc
          /\ \/ mon'.at \notin {"gone", "dead"}
             \/ mon' = [mon EXCEPT !.at = "dead"] /\ ~ GroupAlive(mon.pid)
      BY <1>6 DEF FindSurvivors, TypeOK
    <2> QED BY <1>4, <2>1 DEF SeenDead, GroupAlive, TypeOK
  <1>7. CASE KillSurvivors
    <2>1. /\ mon.pid \in Pid /\ proc' = [proc EXCEPT ![mon.pid] = Killed(proc[mon.pid])]
          /\ mon'.at \notin {"gone", "dead"} \/ mon' = [mon EXCEPT !.at = "dead"]
      BY <1>7 DEF KillSurvivors, Idle, TypeOK
    <2>2. ~ proc'[mon.pid].leader /\ ~ proc'[mon.pid].child
      BY <2>1 DEF Killed, WithoutLeader, TypeOK
    <2> QED BY <1>4, <2>1, <2>2 DEF SeenDead, GroupAlive, TypeOK
  <1>8. ASSUME NEW p \in Pid, Forget(p) \/ SeeOverrun(p) \/ SeeMemory(p)
        PROVE  SeenDead'
    <2>1. CASE Forget(p)
      BY <1>4, <2>1 DEF Forget, Idle
    <2>2. CASE SeeOverrun(p)
      BY <1>4, <2>2 DEF SeeOverrun, Idle
    <2>3. CASE SeeMemory(p)
      BY <1>4, <2>3 DEF SeeMemory, Idle
    <2> QED BY <1>8, <2>1, <2>2, <2>3
  <1>9. CASE \E t \in Task : ReadClaim(t)
    BY <1>4, <1>9 DEF ReadClaim
  <1>10. CASE \E t \in Task : Overrun(t)
    BY <1>1, <1>10 DEF Overrun
  <1>11. CASE \/ FailOverrun \/ FailForMemory \/ KillForMemory \/ FailOrphan \/ FindClaimantAgain
              \/ KillOrphan \/ ServerRestarts \/ MachineRestarts
    <2>1. mon'.at \in {"idle", "overweight", "failed", "doomed"}
      BY <1>11 DEF FailOverrun, FailForMemory, KillForMemory, FailOrphan, FindClaimantAgain, KillOrphan,
         ServerRestarts, MachineRestarts, Idle, TypeOK
    <2> QED BY <1>4, <2>1
  <1>12. CASE UNCHANGED vars
    BY <1>1, <1>12 DEF vars
  <1>13. ASSUME NEW p \in Pid, Worker(p) \/ Stop(p)
         PROVE  SeenDead'
    BY <1>2, <1>13 DEF Worker, Stop
  <1>14. CASE Manager
    <2>1. ASSUME NEW p \in Pid, Spawn(p) \/ Forget(p) \/ SeeOverrun(p) \/ SeeMemory(p)
          PROVE  SeenDead'
      BY <1>3, <1>8, <2>1
    <2>2. CASE Proceed
      <3>1. CASE FindClaimant \/ FindSurvivors \/ KillSurvivors
        BY <1>5, <1>6, <1>7, <3>1
      <3>2. CASE FailOverrun \/ FailForMemory \/ KillForMemory \/ FailOrphan \/ FindClaimantAgain \/ KillOrphan
        BY <1>11, <3>2
      <3>3. CASE Requeue
        BY <1>4, <3>3 DEF Requeue, Idle
      <3> QED BY <2>2, <3>1, <3>2, <3>3 DEF Proceed
    <2> QED BY <1>9, <1>14, <2>1, <2>2 DEF Manager
  <1>15. CASE System
    BY <1>2, <1>3, <1>10, <1>11, <1>15 DEF System
  <1> QED BY <1>12, <1>13, <1>14, <1>15 DEF Next

LEMMA EveryStep ==
    ASSUME IInv, SeenDead, [Next]_vars
    PROVE  IInv' /\ JobStep
  <1>1. ASSUME NEW p \in Pid, Worker(p) PROVE IInv' /\ JobStep
    BY <1>1, ClaimStep, ConcludeStep, DeathStep DEF Worker
  <1>2. ASSUME NEW p \in Pid, Stop(p) PROVE IInv' /\ JobStep
    BY <1>2, DeathStep DEF Stop
  <1>3. CASE Manager
    BY <1>3, StartStep, ReadStep, VerdictStep, KillStep, RequeueStep DEF Manager, Proceed
  <1>4. CASE System
    BY <1>4, StartStep, DeathStep, OverrunStep, ReadStep, KillStep DEF System
  <1>5. CASE UNCHANGED vars
    <2>1. JobStep
      BY <1>5, StopJobs DEF vars, IInv
    <2> QED BY <1>5, <2>1 DEF vars, IInv, TypeOK, SoleExecution, ReturnedWhenDead, RunnerHoldsClaim,
                  GroupAlive
  <1> QED BY <1>1, <1>2, <1>3, <1>4, <1>5 DEF Next

\* The invariant holds in every reachable state.
THEOREM Invariance == Spec => [](IInv /\ SeenDead)
  <1>1. Init => SeenDead
    BY DEF Init, Idle, SeenDead
  <1>2. IInv /\ SeenDead /\ [Next]_vars => IInv' /\ SeenDead'
    BY EveryStep, SeenDeadStep DEF IInv
  <1> QED BY InitIInv, <1>1, <1>2, PTL DEF Spec

\* Every variable has its type, whatever dies or restarts.
THEOREM TypeCorrect == Spec => []TypeOK
  BY Invariance, PTL DEF IInv

\* No two process groups ever work on the same task.
THEOREM OneExecutor == Spec => []SoleExecution
  BY Invariance, PTL DEF IInv

\* No task waits in the queue while a group is still at it.
THEOREM DeadBeforeReturn == Spec => []ReturnedWhenDead
  BY Invariance, PTL DEF IInv

\* The rows and the groups are the jobs of Jobs, for any number of tasks, numbers and faults:
\* a task is completed only by the one group at work on it, is returned to the queue only by
\* that group or when there is none, and is begun only when nobody is at it any more.
THEOREM RefinesJobs == Spec => ImplementsJobs
  <1>1. Init => Promised!Init
    BY TaskAssumption DEF Init, Promised!Init, Status, Doers, Queued, NoProc
  <1>2. IInv /\ SeenDead /\ [Next]_vars => [Promised!Next]_(Promised!vars)
    BY EveryStep DEF JobStep
  <1> QED BY Invariance, <1>1, <1>2, PTL DEF Spec, ImplementsJobs, Promised!Spec

\* A verdict, once written, is never changed.
THEOREM VerdictsAreFinal == Spec => VerdictsStand
  <1> DEFINE Stands == \A t \in Task : Final(t) => row'[t] = row[t]
  <1>1. TypeOK /\ [Next]_vars => [Stands]_row
    <2> SUFFICES ASSUME TypeOK, Next, NEW t \in Task, Final(t) PROVE row'[t] = row[t]
      BY DEF vars
    <2>1. row[t].status # "queued" /\ row[t].status # "active"
      BY DEF Final
    <2>2. ASSUME NEW p \in Pid, Worker(p) \/ Stop(p) PROVE row'[t] = row[t]
      BY <2>1, <2>2
      DEF TypeOK, Worker, Stop, Claim, Claimable, Conclude, Defer, LoseVerdict, WorkerDies,
          ChildrenEnd, Terminate, Kill, Held
    <2>3. CASE Manager
      BY <2>1, <2>3
      DEF TypeOK, Manager, Proceed, Spawn, Forget, SeeOverrun, SeeMemory, ReadClaim, FailOverrun,
          FailForMemory, KillForMemory, FindClaimant, FailOrphan, FindClaimantAgain, KillOrphan,
          FindSurvivors, KillSurvivors, Requeue, Held, Failed
    <2>4. CASE System
      BY <2>1, <2>4
      DEF TypeOK, System, StrangerStarts, StrangerEnds, Overrun, ServerRestarts,
          MachineRestarts
    <2> QED BY <2>2, <2>3, <2>4 DEF Next
  <1> QED BY TypeCorrect, <1>1, PTL DEF Spec, VerdictsStand

----------------------------------------------------------------------------
(* Claims that nobody sees *)

\* A living process that a claim names is at work on it.
AtItsClaim ==
    \A p \in Pid, t \in Task : Held(t, p) /\ proc[p].leader => proc[p].on = t

LEMMA AtItsClaimStep ==
    ASSUME IInv, AtItsClaim, Fault \intersect {"lost", "reuse"} = {}, [Next]_vars
    PROVE  AtItsClaim'
  <1>0. TypeOK /\ \A t \in Task : t # 0
    BY TasksArePositive DEF IInv
  <1>1. ASSUME NEW p \in Pid, Claim(p)
        PROVE  AtItsClaim'
    <2>1. PICK t \in Task, child \in BOOLEAN :
            /\ row' = [row EXCEPT ![t] = [status |-> "active", pid |-> p,
                                          born |-> proc[p].born, overdue |-> FALSE]]
            /\ proc' = [proc EXCEPT ![p] = AtWork(@, t, child)]
      BY <1>1 DEF Claim
    <2>2. \A u \in Task : ~ Held(u, p)
      BY <1>0, <1>1 DEF Claim, AtItsClaim
    <2>3. \A u \in Task : IF u = t THEN row'[u].pid = p ELSE row'[u] = row[u]
      BY <1>0, <2>1 DEF TypeOK
    <2>4. proc'[p].on = t /\ \A q \in Pid : q # p => proc'[q] = proc[q]
      BY <1>0, <2>1 DEF TypeOK, AtWork
    <2> QED BY <2>2, <2>3, <2>4 DEF AtItsClaim, Held
  <1>2. ASSUME NEW p \in Pid, Conclude(p) \/ Defer(p)
        PROVE  AtItsClaim'
    <2> DEFINE t == proc[p].on
    <2>1. t \in Task /\ \A u \in Task : Held(u, p) => u = t
      BY <1>0, <1>2, TasksArePositive DEF Conclude, Defer, AtItsClaim
    <2>2. /\ \A u \in Task : u # t => row'[u] = row[u]
          /\ row'[t] = row[t] \/ row'[t].status # "active"
          /\ Held(t, p) => row'[t].status # "active"
      BY <1>0, <1>2, <2>1 DEF Conclude, Defer, TypeOK, Queued
    <2>3. \A q \in Pid : q # p => proc'[q] = proc[q]
      BY <1>0, <1>2 DEF Conclude, Defer, TypeOK
    <2> QED BY <2>1, <2>2, <2>3 DEF AtItsClaim, Held
  <1>3. ASSUME \A q \in Pid : proc'[q].leader => proc'[q] = proc[q],
               \A t \in Task : row'[t].status = "active" => Held(t, row'[t].pid)
        PROVE  AtItsClaim'
    BY <1>3 DEF AtItsClaim, Held
  <1>4. ASSUME NEW p \in Pid, Spawn(p)
        PROVE  AtItsClaim'
    <2>1. row' = row /\ (\A t \in Task : ~ Held(t, p))
          /\ \A q \in Pid : q # p => proc'[q] = proc[q]
      BY <1>0, <1>4 DEF Spawn, TypeOK
    <2> QED BY <2>1 DEF AtItsClaim, Held
  <1>5. ASSUME NEW p \in Pid, LoseVerdict(p) \/ StrangerStarts(p)
        PROVE  FALSE
    BY <1>5 DEF LoseVerdict, StrangerStarts, Happens
  <1>6. ASSUME NEW p \in Pid,
               \/ WorkerDies(p) \/ ChildrenEnd(p) \/ StrangerEnds(p) \/ Terminate(p) \/ Kill(p)
        PROVE  AtItsClaim'
    <2>1. row' = row /\ ~ proc'[p].leader /\ \A q \in Pid : q # p => proc'[q] = proc[q]
      BY <1>0, <1>6 DEF WorkerDies, ChildrenEnd, StrangerEnds, Terminate, Kill, Killed, WithoutLeader, TypeOK
    <2> QED BY <2>1 DEF AtItsClaim, Held
  <1>7. ASSUME KillForMemory \/ KillOrphan \/ KillSurvivors \/ MachineRestarts
        PROVE  AtItsClaim'
    <2>1. row' = row /\ \A q \in Pid : proc'[q] = proc[q] \/ ~ proc'[q].leader
      BY <1>0, <1>7 DEF KillForMemory, KillOrphan, KillSurvivors, MachineRestarts, Killed, WithoutLeader, TypeOK
    <2> QED BY <2>1 DEF AtItsClaim, Held
  <1>8. ASSUME proc' = proc,
               \A t \in Task : /\ row'[t].status = "active" => row[t].status = "active"
                               /\ row'[t].pid # row[t].pid => row'[t].status # "active"
        PROVE  AtItsClaim'
    <2>1. ASSUME NEW p \in Pid, NEW t \in Task, Held(t, p)'
          PROVE  Held(t, p)
      <3>1. row'[t].status = "active" /\ row'[t].pid = p
        BY <2>1 DEF Held
      <3>2. row[t].status = "active" /\ row[t].pid = row'[t].pid
        BY <1>8, <3>1
      <3> QED BY <3>1, <3>2 DEF Held
    <2>2. ASSUME NEW p \in Pid, NEW t \in Task, Held(t, p)', proc'[p].leader
          PROVE  proc'[p].on = t
      <3>1. Held(t, p) /\ proc[p].leader
        BY <2>1, <2>2, <1>8
      <3> QED BY <3>1, <1>8 DEF AtItsClaim
    <2> QED BY <2>2 DEF AtItsClaim
  <1>9. ASSUME \/ UNCHANGED vars
               \/ \E p \in Pid : Forget(p) \/ SeeOverrun(p) \/ SeeMemory(p)
               \/ \E t \in Task : ReadClaim(t) \/ Overrun(t)
               \/ FailOverrun \/ FailForMemory \/ FindClaimant \/ FailOrphan \/ FindClaimantAgain
               \/ FindSurvivors \/ Requeue \/ ServerRestarts
        PROVE  AtItsClaim'
    <2>1. proc' = proc
      BY <1>9 DEF Forget, SeeOverrun, SeeMemory, ReadClaim, Overrun, FailOverrun, FailForMemory,
         FindClaimant, FailOrphan, FindClaimantAgain, FindSurvivors, Requeue, ServerRestarts, vars
    <2>2. \/ row' = row
          \/ \E t \in Task : \/ row' = [row EXCEPT ![t].overdue = TRUE]
                             \/ row' = [row EXCEPT ![t].status = "failed"]
                             \/ row' = [row EXCEPT ![t] = Queued]
      <3>1. CASE \/ UNCHANGED vars
                 \/ \E p \in Pid : Forget(p) \/ SeeOverrun(p) \/ SeeMemory(p)
                 \/ \E t \in Task : ReadClaim(t)
                 \/ FindClaimant \/ FindClaimantAgain \/ FindSurvivors \/ ServerRestarts
        BY <3>1 DEF Forget, SeeOverrun, SeeMemory, ReadClaim, FindClaimant, FindClaimantAgain,
           FindSurvivors, ServerRestarts, vars
      <3>2. CASE \E t \in Task : Overrun(t)
        BY <3>2 DEF Overrun
      <3>3. CASE FailOverrun \/ FailForMemory \/ FailOrphan
        BY <1>0, <3>3 DEF FailOverrun, FailForMemory, FailOrphan, Failed, TypeOK
      <3>4. CASE Requeue
        BY <1>0, <3>4 DEF Requeue, TypeOK
      <3> QED BY <1>9, <3>1, <3>2, <3>3, <3>4
    <2>3. \A t \in Task : /\ row'[t].status = "active" => row[t].status = "active"
                          /\ row'[t].pid # row[t].pid => row'[t].status # "active"
      BY <1>0, <2>2 DEF TypeOK, Queued
    <2> QED BY <1>8, <2>1, <2>3
  <1> QED BY <1>1, <1>2, <1>4, <1>5, <1>6, <1>7, <1>9 DEF Next, Worker, Stop, Manager, Proceed, System

\* As long as no verdict is lost and no process gets a number that a claim names, every
\* claim is one that check_workers sees: no task is excepted from EveryTaskConcludes.
THEOREM NoneMasked ==
    Fault \intersect {"lost", "reuse"} = {} => (Spec => [](\A t \in Task : ~ Masked(t)))
  <1> SUFFICES ASSUME Fault \intersect {"lost", "reuse"} = {}
               PROVE  Spec => [](\A t \in Task : ~ Masked(t))
    OBVIOUS
  <1>1. Init => AtItsClaim
    BY DEF Init, AtItsClaim, Held, Queued
  <1>2. IInv /\ AtItsClaim /\ [Next]_vars => AtItsClaim'
    BY AtItsClaimStep
  <1>3. AtItsClaim => \A t \in Task : ~ Masked(t)
    BY DEF AtItsClaim, Masked
  <1> QED BY <1>1, <1>2, <1>3, Invariance, PTL DEF Spec
=============================================================================
