--------------------------- MODULE Checks_proofs ----------------------------
(***************************************************************************)
(* Proofs about Checks, for any number of releases, workers, contents,     *)
(* revisions and faults.                                                   *)
(***************************************************************************)
EXTENDS Checks, TLAPS

Rev == [content : Content, inputs : Inputs \union {NoInputs}, queued : BOOLEAN]
Row == [st : {"none", "queued", "active", "completed", "failed"},
        rel : Release \union {NoRelease}, rev : Nat, by : Worker \union {NoWorker}]
Report == [rel : Release, status : Statuses]
Work == [at : {"idle", "claimed", "cleared", "recorded"},
         inputs : Inputs \union {NoInputs}, rel : Release \union {NoRelease}]

\* The row of a task has the release it was queued for and, once claimed, the claimant.
RowConsistent(row) ==
    /\ row.st = "none" <=> row.rel = NoRelease
    /\ row.st \in {"none", "queued"} <=> row.by = NoWorker

----------------------------------------------------------------------------
(* The values that the steps build *)

LEMMA EmptyRow == NoTask \in Row /\ RowConsistent(NoTask)
  BY NobodyAssumption DEF NoTask, Row, RowConsistent

LEMMA NewRow ==
    ASSUME NEW r \in Release, NEW n \in Nat
    PROVE  LET row == [st |-> "queued", rel |-> r, rev |-> n, by |-> NoWorker]
           IN row \in Row /\ RowConsistent(row)
  BY NobodyAssumption DEF Row, RowConsistent

\* A row that changes its state, and its claimant with it, stays consistent.
LEMMA ClaimedRow ==
    ASSUME NEW row \in Row, RowConsistent(row), row.st = "queued", NEW w \in Worker
    PROVE  LET new == [row EXCEPT !.st = "active", !.by = w]
           IN new \in Row /\ RowConsistent(new)
  BY NobodyAssumption DEF Row, RowConsistent

LEMMA ReturnedRow ==
    ASSUME NEW row \in Row, RowConsistent(row), row.st = "active"
    PROVE  LET new == [row EXCEPT !.st = "queued", !.by = NoWorker]
           IN new \in Row /\ RowConsistent(new)
  BY NobodyAssumption DEF Row, RowConsistent

LEMMA ConcludedRow ==
    ASSUME NEW row \in Row, RowConsistent(row), row.st = "active",
           NEW verdict \in {"completed", "failed"}
    PROVE  LET new == [row EXCEPT !.st = verdict]
           IN new \in Row /\ RowConsistent(new)
  BY NobodyAssumption DEF Row, RowConsistent

\* One of the revisions changes.
LEMMA ChangedRev ==
    ASSUME NEW s \in Seq(Rev), NEW n \in 1 .. Len(s), NEW q \in Rev
    PROVE  LET new == [s EXCEPT ![n] = q]
           IN /\ new \in Seq(Rev) /\ Len(new) = Len(s) /\ new[n] = q
              /\ \A m \in 1 .. Len(s) : m # n => new[m] = s[m]
  OBVIOUS

LEMMA NewRev ==
    ASSUME NEW c \in Content
    PROVE  [content |-> c, inputs |-> NoInputs, queued |-> FALSE] \in Rev
  BY DEF Rev

LEMMA Verdicts == \A k \in Inputs : Verdict(k) \in Statuses
  BY DEF Verdict, Statuses

\* The parts of the type invariant that most steps are about.
TypeParts ==
    /\ phase \in [Release -> {"none", "draft", "vote"}]
    /\ cache \in [Release -> Cache]
    /\ revs \in [Release -> Seq(Rev)]
    /\ \A r \in Release : phase[r] = "none" => revs[r] = <<>>
    /\ task \in [Inputs -> Row] /\ \A k \in Inputs : RowConsistent(task[k])
    /\ result \in [Inputs -> SUBSET Report]
    /\ run \in [Worker -> Work]
    /\ \A w \in Worker : run[w].at # "idle" => run[w].inputs \in Inputs /\ run[w].rel \in Release

LEMMA TypeSplit == TypeOK <=> profile \in Profile /\ faults \in 0 .. MaxFaults /\ TypeParts
  BY DEF TypeOK, TypeParts, Rev, Row, RowConsistent, Report, Work

LEMMA FaultType ==
    ASSUME faults \in 0 .. MaxFaults, NEW f, Fault(f)
    PROVE  faults' \in 0 .. MaxFaults /\ faults' > 0 /\ f \in profile
  BY BoundAssumption DEF Fault

LEMMA InitType == Init => TypeOK
  <1> SUFFICES ASSUME Init PROVE TypeOK
    OBVIOUS
  <1>1. profile \in Profile /\ faults \in 0 .. MaxFaults
    BY BoundAssumption DEF Init
  <1>2. Idle \in Work /\ Idle.at = "idle"
    BY DEF Idle, Work
  <1>3. TypeParts
    BY <1>2, EmptyRow DEF Init, TypeParts, Cache
  <1> QED BY <1>1, <1>3, TypeSplit

----------------------------------------------------------------------------
(* Type correctness, step by step *)

LEMMA StartReleaseType ==
    ASSUME TypeParts, NEW r \in Release, StartRelease(r)
    PROVE  TypeParts'
  BY DEF TypeParts, StartRelease

LEMMA NewRevisionType ==
    ASSUME TypeParts, NEW r \in Release, NewRevision(r)
    PROVE  TypeParts'
  <1>1. PICK c \in Content :
         revs' = [revs EXCEPT ![r] = Append(@, [content |-> c, inputs |-> NoInputs, queued |-> FALSE])]
    BY DEF NewRevision
  <1>2. PICK key \in {cache[r], "shared"} \union LocalKey : cache' = [cache EXCEPT ![r] = key]
    BY DEF NewRevision
  <1>3. key \in Cache
    BY DEF TypeParts, Cache
  <1>4. Append(revs[r], [content |-> c, inputs |-> NoInputs, queued |-> FALSE]) \in Seq(Rev)
    BY NewRev DEF TypeParts
  <1> QED BY <1>1, <1>2, <1>3, <1>4 DEF TypeParts, NewRevision

\* What the recording of inputs and the queueing of a check do to the revisions.
Restated(r, n, q) ==
    /\ revs' = [revs EXCEPT ![r] = revs'[r]]
    /\ revs'[r] \in Seq(Rev) /\ Len(revs'[r]) = Len(revs[r]) /\ revs[r] # <<>>
    /\ revs'[r][n] = q
    /\ \A m \in 1 .. Len(revs[r]) : m # n => revs'[r][m] = revs[r][m]

LEMMA RestatedRev ==
    ASSUME revs \in [Release -> Seq(Rev)], NEW r \in Release, NEW n \in 1 .. Latest(r), NEW q \in Rev,
           revs' = [revs EXCEPT ![r] = [revs[r] EXCEPT ![n] = q]]
    PROVE  Restated(r, n, q)
  <1>1. revs[r] \in Seq(Rev) /\ n \in 1 .. Len(revs[r])
    BY DEF Latest
  <1>2. revs'[r] = [revs[r] EXCEPT ![n] = q]
    OBVIOUS
  <1>3. /\ revs'[r] \in Seq(Rev) /\ Len(revs'[r]) = Len(revs[r]) /\ revs'[r][n] = q
        /\ \A m \in 1 .. Len(revs[r]) : m # n => revs'[r][m] = revs[r][m]
    BY <1>1, <1>2, ChangedRev
  <1>4. revs[r] # <<>>
    BY <1>1
  <1> QED BY <1>2, <1>3, <1>4 DEF Restated

LEMMA RecordInputsEffect ==
    ASSUME TypeParts, NEW r \in Release, RecordInputs(r)
    PROVE  \E n \in 1 .. Latest(r) : \E q \in Rev :
              revs[r][n].inputs = NoInputs /\ q.queued = revs[r][n].queued /\ Restated(r, n, q)
  <1>0. PICK n \in 1 .. Latest(r) :
        /\ revs[r][n].inputs = NoInputs
        /\ revs' = [revs EXCEPT ![r][n].inputs = [content |-> revs[r][n].content, cache |-> cache[r]]]
    BY DEF RecordInputs
  <1> DEFINE k == [content |-> revs[r][n].content, cache |-> cache[r]]
             q == [revs[r][n] EXCEPT !.inputs = k]
  <1>1. revs[r][n] \in Rev /\ cache[r] \in Cache
    BY DEF TypeParts, Latest
  <1>2. k \in Inputs
    BY <1>1 DEF Inputs, Rev
  <1>3. q \in Rev /\ q.queued = revs[r][n].queued
    <2>1. \A e \in Rev : [e EXCEPT !.inputs = k] \in Rev /\ [e EXCEPT !.inputs = k].queued = e.queued
      BY <1>2 DEF Rev
    <2> QED BY <1>1, <2>1, Zenon
  <1>4. revs' = [revs EXCEPT ![r] = [revs[r] EXCEPT ![n] = q]]
    BY <1>0, Zenon
  <1> HIDE DEF k, q
  <1>5. Restated(r, n, q)
    BY <1>3, <1>4, RestatedRev DEF TypeParts
  <1> QED BY <1>0, <1>3, <1>5

LEMMA QueueChecksEffect ==
    ASSUME TypeParts, NEW r \in Release, QueueChecks(r)
    PROVE  \E n \in 1 .. Latest(r) : \E q \in Rev : \E row \in Row : \E k \in Inputs :
              /\ revs[r][n].inputs = k /\ k # NoInputs /\ q.inputs = k /\ Restated(r, n, q)
              /\ row.st = "queued" /\ RowConsistent(row)
              /\ task' = IF task[k].st # "none" THEN task ELSE [task EXCEPT ![k] = row]
  <1>0. PICK n \in 1 .. Latest(r) :
        LET k == revs[r][n].inputs
        IN /\ k # NoInputs
           /\ revs' = [revs EXCEPT ![r][n].queued = TRUE]
           /\ task' = IF task[k].st # "none" THEN task
                      ELSE [task EXCEPT ![k] = [st |-> "queued", rel |-> r, rev |-> n, by |-> NoWorker]]
    BY DEF QueueChecks
  <1> DEFINE k == revs[r][n].inputs
             row == [st |-> "queued", rel |-> r, rev |-> n, by |-> NoWorker]
             q == [revs[r][n] EXCEPT !.queued = TRUE]
  <1>1. revs[r][n] \in Rev /\ n \in Nat
    BY DEF TypeParts, Latest
  <1>2. k \in Inputs
    BY <1>0, <1>1 DEF Rev
  <1>3. q \in Rev /\ q.inputs = k
    BY <1>1 DEF Rev
  <1>4. row \in Row /\ RowConsistent(row) /\ row.st = "queued"
    BY <1>1, NewRow
  <1>5. /\ revs' = [revs EXCEPT ![r] = [revs[r] EXCEPT ![n] = q]]
        /\ task' = IF task[k].st # "none" THEN task ELSE [task EXCEPT ![k] = row]
    BY <1>0, Zenon
  <1>6. revs[r][n].inputs = k /\ k # NoInputs
    BY <1>0, Zenon
  <1> HIDE DEF k, row, q
  <1>7. Restated(r, n, q)
    BY <1>3, <1>5, RestatedRev DEF TypeParts
  <1> QED BY <1>2, <1>3, <1>4, <1>5, <1>6, <1>7

LEMMA QueueChecksType ==
    ASSUME TypeParts, NEW r \in Release, RecordInputs(r) \/ QueueChecks(r)
    PROVE  TypeParts'
  <1>1. /\ revs' \in [Release -> Seq(Rev)]
        /\ \A q \in Release : phase[q] = "none" => revs'[q] = <<>>
    <2>1. \E n \in 1 .. Latest(r) : \E q \in Rev : Restated(r, n, q)
      BY RecordInputsEffect, QueueChecksEffect
    <2> QED BY <2>1 DEF Restated, TypeParts
  <1>2. CASE RecordInputs(r)
    BY <1>1, <1>2 DEF RecordInputs, TypeParts
  <1>3. CASE QueueChecks(r)
    <2>1. task' \in [Inputs -> Row] /\ \A k \in Inputs : RowConsistent(task'[k])
      BY <1>3, QueueChecksEffect DEF TypeParts
    <2>2. UNCHANGED <<phase, cache, result, run>>
      BY <1>3 DEF QueueChecks
    <2> QED BY <1>1, <2>1, <2>2 DEF TypeParts
  <1> QED BY <1>2, <1>3

LEMMA VoteType ==
    ASSUME TypeParts, NEW r \in Release, StartVote(r) \/ VoteFails(r)
    PROVE  TypeParts'
  BY DEF TypeParts, StartVote, VoteFails

LEMMA DeleteType ==
    ASSUME TypeParts, NEW r \in Release, Delete(r)
    PROVE  TypeParts'
  <1>1. task' \in [Inputs -> Row] /\ \A k \in Inputs : RowConsistent(task'[k])
    BY EmptyRow DEF TypeParts, Delete, TasksWithout
  <1>2. result' \in [Inputs -> SUBSET Report]
    BY DEF TypeParts, Delete
  <1>3. /\ phase' \in [Release -> {"none", "draft", "vote"}]
        /\ cache' \in [Release -> Cache]
        /\ revs' \in [Release -> Seq(Rev)]
        /\ \A q \in Release : phase'[q] = "none" => revs'[q] = <<>>
    BY DEF TypeParts, Delete, Cache
  <1> QED BY <1>1, <1>2, <1>3 DEF TypeParts, Delete

\* A worker's new record, and that it is at work on a task if it is at work.
LEMMA RunType ==
    ASSUME TypeParts, NEW w \in Worker, run[w].at # "idle",
           NEW at \in {"claimed", "cleared", "recorded"}
    PROVE  LET new == [run[w] EXCEPT !.at = at]
           IN new \in Work /\ new.inputs \in Inputs /\ new.rel \in Release /\ new.at = at
  BY DEF TypeParts, Work

LEMMA ClaimType ==
    ASSUME TypeParts, NEW w \in Worker, Claim(w)
    PROVE  TypeParts'
  <1>0. PICK k \in Inputs :
        /\ task[k].st = "queued"
        /\ task' = [task EXCEPT ![k].st = "active", ![k].by = w]
        /\ run' = [run EXCEPT ![w] = [at |-> "claimed", inputs |-> k, rel |-> task[k].rel]]
    BY DEF Claim
  <1> DEFINE new == [task[k] EXCEPT !.st = "active", !.by = w]
             work == [at |-> "claimed", inputs |-> k, rel |-> task[k].rel]
  <1>1. new \in Row /\ RowConsistent(new)
    BY <1>0, ClaimedRow DEF TypeParts
  <1>2. task[k].rel \in Release
    BY <1>0 DEF TypeParts, Row, RowConsistent
  <1>3. work \in Work /\ work.inputs \in Inputs /\ work.rel \in Release
    BY <1>2 DEF Work
  <1>4. /\ task' = [task EXCEPT ![k] = new] /\ run' = [run EXCEPT ![w] = work]
        /\ UNCHANGED <<phase, cache, revs, result>>
    BY <1>0 DEF Claim, releases, TypeParts
  <1> HIDE DEF new, work
  <1> QED BY <1>1, <1>3, <1>4 DEF TypeParts

LEMMA ClearRecordType ==
    ASSUME TypeParts, NEW w \in Worker, Clear(w) \/ Record(w)
    PROVE  TypeParts'
  <1>1. run[w].inputs \in Inputs /\ run[w].rel \in Release /\ run[w].at # "idle"
    BY DEF TypeParts, Clear, Record
  <1>2. result' \in [Inputs -> SUBSET Report]
    <2>1. [rel |-> run[w].rel, status |-> Verdict(run[w].inputs)] \in Report
      BY <1>1, Verdicts DEF Report
    <2> QED BY <1>1, <2>1 DEF TypeParts, Clear, Record
  <1>3. PICK at \in {"claimed", "cleared", "recorded"} : run' = [run EXCEPT ![w].at = at]
    BY DEF Clear, Record
  <1> DEFINE new == [run[w] EXCEPT !.at = at]
  <1>4. new \in Work /\ new.inputs \in Inputs /\ new.rel \in Release
    BY <1>1, RunType
  <1>5. run' = [run EXCEPT ![w] = new] /\ UNCHANGED <<phase, cache, revs, task>>
    BY <1>3 DEF Clear, Record, releases, TypeParts
  <1> HIDE DEF new
  <1> QED BY <1>2, <1>4, <1>5 DEF TypeParts

\* What becomes of a row that a worker holds: it is concluded or returned.
LEMMA HeldRowType ==
    ASSUME TypeParts, NEW w \in Worker, run[w].at # "idle", NEW new \in Row, RowConsistent(new),
           UNCHANGED task \/ task' = [task EXCEPT ![run[w].inputs] = new]
    PROVE  task' \in [Inputs -> Row] /\ \A k \in Inputs : RowConsistent(task'[k])
  BY DEF TypeParts

LEMMA FailedType ==
    ASSUME TypeParts, NEW w \in Worker, run[w].at # "idle", Failed(w)
    PROVE  /\ task' \in [Inputs -> Row] /\ \A k \in Inputs : RowConsistent(task'[k])
           /\ result' \in [Inputs -> SUBSET Report]
  <1> DEFINE k == run[w].inputs
             new == [task[k] EXCEPT !.st = "failed"]
  <1>1. k \in Inputs /\ run[w].rel \in Release
    BY DEF TypeParts
  <1>2. CASE ~Held(w)
    BY <1>2 DEF Failed, TypeParts
  <1>3. CASE Held(w)
    <2>1. new \in Row /\ RowConsistent(new)
      BY <1>1, <1>3, ConcludedRow DEF Held, TypeParts
    <2>2. task' = [task EXCEPT ![k] = new]
      BY <1>1, <1>3 DEF Failed, TypeParts
    <2>3. [rel |-> run[w].rel, status |-> "exception"] \in Report
      BY <1>1 DEF Report, Statuses
    <2>4. result' = [result EXCEPT ![k] = @ \union {[rel |-> run[w].rel, status |-> "exception"]}]
      BY <1>3 DEF Failed
    <2> HIDE DEF new
    <2> QED BY <1>1, <2>1, <2>2, <2>3, <2>4 DEF TypeParts
  <1> QED BY <1>2, <1>3

\* A worker that is through, or dead, is idle.
LEMMA IdleType ==
    ASSUME TypeParts, NEW w \in Worker, run' = [run EXCEPT ![w] = Idle]
    PROVE  /\ run' \in [Worker -> Work]
           /\ \A u \in Worker : run'[u].at # "idle" => run'[u].inputs \in Inputs /\ run'[u].rel \in Release
  <1>1. Idle \in Work /\ Idle.at = "idle"
    BY DEF Idle, Work
  <1> QED BY <1>1 DEF TypeParts

LEMMA CompleteType ==
    ASSUME TypeParts, NEW w \in Worker, Complete(w)
    PROVE  TypeParts'
  <1> DEFINE k == run[w].inputs
             new == [task[k] EXCEPT !.st = "completed"]
  <1>1. task' \in [Inputs -> Row] /\ \A i \in Inputs : RowConsistent(task'[i])
    <2>1. CASE ~Held(w)
      BY <2>1 DEF Complete, TypeParts
    <2>2. CASE Held(w)
      <3>1. k \in Inputs /\ run[w].at # "idle"
        BY DEF TypeParts, Complete
      <3>2. new \in Row /\ RowConsistent(new)
        BY <2>2, <3>1, ConcludedRow DEF Held, TypeParts
      <3>3. task' = [task EXCEPT ![k] = new]
        BY <2>2, <3>1 DEF Complete, TypeParts
      <3> HIDE DEF new
      <3> QED BY <3>1, <3>2, <3>3, HeldRowType
    <2> QED BY <2>1, <2>2
  <1>2. run' = [run EXCEPT ![w] = Idle] /\ UNCHANGED <<phase, cache, revs, result>>
    BY DEF Complete, releases
  <1> QED BY <1>1, <1>2, IdleType DEF TypeParts

LEMMA CheckFailsType ==
    ASSUME TypeParts, NEW w \in Worker, CheckRaises(w) \/ Overrun(w)
    PROVE  TypeParts'
  <1>1. run[w].at # "idle" /\ Failed(w) /\ UNCHANGED <<phase, cache, revs>>
    BY DEF CheckRaises, Overrun, releases
  <1>2. UNCHANGED run \/ run' = [run EXCEPT ![w] = Idle]
    BY DEF CheckRaises, Overrun
  <1> QED BY <1>1, <1>2, FailedType, IdleType DEF TypeParts

LEMMA KillOverrunType ==
    ASSUME TypeParts, NEW w \in Worker, KillOverrun(w)
    PROVE  TypeParts'
  BY IdleType DEF TypeParts, KillOverrun, releases

LEMMA DieType ==
    ASSUME TypeParts, NEW w \in Worker, Die(w)
    PROVE  TypeParts'
  <1> DEFINE k == run[w].inputs
             new == [task[k] EXCEPT !.st = "queued", !.by = NoWorker]
  <1>1. task' \in [Inputs -> Row] /\ \A i \in Inputs : RowConsistent(task'[i])
    <2>1. CASE ~Held(w)
      BY <2>1 DEF Die, TypeParts
    <2>2. CASE Held(w)
      <3>1. k \in Inputs /\ run[w].at # "idle"
        BY DEF TypeParts, Die
      <3>2. new \in Row /\ RowConsistent(new)
        BY <2>2, <3>1, ReturnedRow DEF Held, TypeParts
      <3>3. task' = [task EXCEPT ![k] = new]
        BY <2>2, <3>1 DEF Die, TypeParts
      <3> HIDE DEF new
      <3> QED BY <3>1, <3>2, <3>3, HeldRowType
    <2> QED BY <2>1, <2>2
  <1>2. run' = [run EXCEPT ![w] = Idle] /\ UNCHANGED <<phase, cache, revs, result>>
    BY DEF Die, releases
  <1> QED BY <1>1, <1>2, IdleType DEF TypeParts

LEMMA NextType ==
    ASSUME TypeOK, Next
    PROVE  TypeOK'
  <1>1. TypeParts /\ profile \in Profile /\ faults \in 0 .. MaxFaults
    BY TypeSplit
  <1>2. TypeParts'
    BY <1>1, StartReleaseType, NewRevisionType, QueueChecksType, VoteType, DeleteType, ClaimType,
       ClearRecordType, CompleteType, CheckFailsType, KillOverrunType, DieType DEF Next
  <1>3. profile' = profile
    BY DEF Next, StartRelease, NewRevision, RecordInputs, QueueChecks, StartVote, VoteFails, Delete, Claim, Clear,
       Record, Complete, CheckRaises, Overrun, KillOverrun, Die
  <1>4. UNCHANGED faults \/ \E f \in {"die", "fail", "delete", "hasty"} : Fault(f)
    BY DEF Next, StartRelease, NewRevision, RecordInputs, QueueChecks, StartVote, VoteFails, Delete, Claim, Clear,
       Record, Complete, CheckRaises, Overrun, KillOverrun, Die
  <1>5. faults' \in 0 .. MaxFaults
    BY <1>1, <1>4, BoundAssumption DEF Fault
  <1> QED BY <1>1, <1>2, <1>3, <1>5 DEF TypeOK, TypeParts, Rev, Row, RowConsistent, Report, Work

\* The type invariant, for any number of releases, workers and revisions.
THEOREM TypeCorrect == Spec => []TypeOK
  <1>1. TypeOK /\ [Next]_vars => TypeOK'
    <2> SUFFICES ASSUME TypeOK, [Next]_vars PROVE TypeOK'
      OBVIOUS
    <2>1. CASE UNCHANGED vars
      BY <2>1 DEF vars, releases, TypeOK
    <2> QED BY <2>1, NextType
  <1> QED BY InitType, <1>1, PTL DEF Spec

----------------------------------------------------------------------------
(* The inductive invariant *)

\* While no release is deleted under its checks, a worker at work is the claimant of its
\* row, which is still there for the same release.
WorkersHoldRows ==
    Patient => \A w \in Worker : run[w].at # "idle" =>
        LET row == task[run[w].inputs]
        IN row.by = w /\ row.st \in {"active", "failed"} /\ row.rel = run[w].rel

\* What a worker has recorded is there until it is through.
RecordedIsThere ==
    Patient => \A w \in Worker : run[w].at = "recorded" =>
        [rel |-> run[w].rel, status |-> Verdict(run[w].inputs)] \in result[run[w].inputs]

\* The inputs of a check that was queued have a row, or had one before a release was deleted.
QueuedHaveRows ==
    \A r \in Release : \A n \in 1 .. Latest(r) : revs[r][n].queued =>
        /\ revs[r][n].inputs # NoInputs
        /\ faults = 0 => task[revs[r][n].inputs].st # "none"

IInv == TypeOK /\ CompletedReported /\ WorkersHoldRows /\ RecordedIsThere /\ QueuedHaveRows

LEMMA InitIInv == Init => IInv
  BY InitType DEF Init, IInv, CompletedReported, WorkersHoldRows, RecordedIsThere, QueuedHaveRows,
     Idle, NoTask, Latest

----------------------------------------------------------------------------
(* The steps of releases *)

\* Steps that leave the rows, the results and the workers alone, and queue no check.
LEMMA QuietStep ==
    ASSUME IInv, TypeOK', UNCHANGED <<profile, faults, task, result, run>>,
           \A r \in Release : \A n \in 1 .. Len(revs'[r]) :
               revs'[r][n].queued =>
                   /\ n \in 1 .. Len(revs[r]) /\ revs[r][n].queued
                   /\ revs'[r][n].inputs = revs[r][n].inputs
    PROVE  IInv'
  <1>1. CompletedReported' /\ WorkersHoldRows' /\ RecordedIsThere'
    BY DEF IInv, CompletedReported, WorkersHoldRows, RecordedIsThere, Patient
  <1>2. QueuedHaveRows'
    BY DEF IInv, QueuedHaveRows, Latest
  <1> QED BY <1>1, <1>2 DEF IInv

LEMMA NewRevisionStep ==
    ASSUME IInv, TypeOK', NEW r \in Release, NewRevision(r)
    PROVE  IInv'
  <1>1. PICK c \in Content :
         revs' = [revs EXCEPT ![r] = Append(@, [content |-> c, inputs |-> NoInputs, queued |-> FALSE])]
    BY DEF NewRevision
  <1>2. revs \in [Release -> Seq(Rev)]
    BY TypeSplit DEF IInv, TypeParts
  <1> DEFINE new == [content |-> c, inputs |-> NoInputs, queued |-> FALSE]
  <1>3. new \in Rev /\ ~new.queued
    BY NewRev
  <1>4. revs' = [revs EXCEPT ![r] = Append(revs[r], new)]
    BY <1>1, <1>2
  <1> HIDE DEF new
  <1>5. \A q \in Release : \A n \in 1 .. Len(revs'[q]) :
            revs'[q][n].queued => n \in 1 .. Len(revs[q]) /\ revs'[q][n] = revs[q][n]
    <2> SUFFICES ASSUME NEW q \in Release, NEW n \in 1 .. Len(revs'[q]), revs'[q][n].queued
                 PROVE  n \in 1 .. Len(revs[q]) /\ revs'[q][n] = revs[q][n]
      OBVIOUS
    <2>1. CASE q # r
      BY <1>2, <1>4, <2>1
    <2>2. CASE q = r
      <3>1. revs'[q] = Append(revs[r], new) /\ revs[r] \in Seq(Rev)
        BY <1>2, <1>4, <2>2
      <3>2. n # Len(revs[r]) + 1
        BY <1>3, <3>1
      <3> QED BY <1>3, <2>2, <3>1, <3>2
    <2> QED BY <2>1, <2>2
  <1> QED BY <1>5, QuietStep DEF NewRevision

LEMMA OtherReleaseStep ==
    ASSUME IInv, TypeOK', NEW r \in Release, StartRelease(r) \/ StartVote(r) \/ VoteFails(r)
    PROVE  IInv'
  BY QuietStep DEF StartRelease, StartVote, VoteFails

\* What has its inputs recorded now was not queued before.
LEMMA RecordInputsStep ==
    ASSUME IInv, TypeOK', NEW r \in Release, RecordInputs(r)
    PROVE  IInv'
  <1>1. TypeParts
    BY TypeSplit DEF IInv
  <1>2. PICK n \in 1 .. Latest(r), q \in Rev :
          revs[r][n].inputs = NoInputs /\ q.queued = revs[r][n].queued /\ Restated(r, n, q)
    BY <1>1, RecordInputsEffect
  <1>3. ~revs[r][n].queued
    BY <1>2 DEF IInv, QueuedHaveRows
  <1>4. \A p \in Release : \A m \in 1 .. Len(revs'[p]) :
            revs'[p][m].queued => m \in 1 .. Len(revs[p]) /\ revs'[p][m] = revs[p][m]
    BY <1>1, <1>2, <1>3 DEF Restated, TypeParts
  <1> QED BY <1>4, QuietStep DEF RecordInputs

\* A check is queued on inputs that have no row: nobody is at work on them.
LEMMA QueueChecksStep ==
    ASSUME IInv, TypeOK', NEW r \in Release, QueueChecks(r)
    PROVE  IInv'
  <1>1. TypeParts
    BY TypeSplit DEF IInv
  <1>2. PICK n \in 1 .. Latest(r), new \in Rev, queued \in Row, k \in Inputs :
          /\ revs[r][n].inputs = k /\ k # NoInputs /\ new.inputs = k /\ Restated(r, n, new)
          /\ queued.st = "queued" /\ RowConsistent(queued)
          /\ task' = IF task[k].st # "none" THEN task ELSE [task EXCEPT ![k] = queued]
    BY <1>1, QueueChecksEffect
  <1>3. k \in Inputs /\ k # NoInputs
    BY <1>2
  <1>4. /\ task' = IF task[k].st # "none" THEN task ELSE [task EXCEPT ![k] = queued]
        /\ UNCHANGED <<profile, faults, result, run>>
    BY <1>2 DEF QueueChecks
  <1>6. queued.st = "queued"
    BY <1>2
  <1>7. ASSUME NEW i \in Inputs
        PROVE  \/ task'[i] = task[i]
               \/ task[i].st = "none" /\ task'[i].st = "queued"
    <2>1. CASE task[k].st # "none"
      BY <1>4, <2>1
    <2>2. CASE task[k].st = "none"
      <3>1. task' = [task EXCEPT ![k] = queued] /\ task \in [Inputs -> Row]
        BY <1>1, <1>4, <2>2 DEF TypeParts
      <3> QED BY <1>3, <1>6, <2>2, <3>1
    <2> QED BY <2>1, <2>2
  <1>8. CompletedReported' /\ RecordedIsThere'
    <2>1. RecordedIsThere'
      BY <1>4 DEF IInv, RecordedIsThere, Patient
    <2>2. ASSUME Patient, NEW i \in Inputs, task'[i].st = "completed"
          PROVE  [rel |-> task'[i].rel, status |-> Verdict(i)] \in result'[i]
      <3>1. task'[i] = task[i]
        BY <1>7, <2>2
      <3> QED BY <1>4, <2>2, <3>1 DEF IInv, CompletedReported
    <2>3. CompletedReported'
      BY <1>4, <2>2 DEF CompletedReported, Patient
    <2> QED BY <2>1, <2>3
  <1>9. WorkersHoldRows'
    <2> SUFFICES ASSUME Patient, NEW w \in Worker, run[w].at # "idle"
                 PROVE  LET row == task'[run[w].inputs]
                        IN row.by = w /\ row.st \in {"active", "failed"} /\ row.rel = run[w].rel
      BY <1>4 DEF WorkersHoldRows, Patient
    <2>1. run[w].inputs \in Inputs
      BY <1>1, <1>4 DEF TypeParts
    <2>2. task[run[w].inputs].st \in {"active", "failed"}
      BY DEF IInv, WorkersHoldRows
    <2>3. task'[run[w].inputs] = task[run[w].inputs]
      BY <1>7, <2>1, <2>2
    <2> QED BY <2>3 DEF IInv, WorkersHoldRows
  <1>10. QueuedHaveRows'
    <2> SUFFICES ASSUME NEW q \in Release, NEW m \in 1 .. Len(revs'[q]), revs'[q][m].queued
                 PROVE  /\ revs'[q][m].inputs # NoInputs
                        /\ faults = 0 => task'[revs'[q][m].inputs].st # "none"
      BY <1>4 DEF QueuedHaveRows, Latest
    <2>1. task'[k].st # "none"
      BY <1>1, <1>3, <1>4, <1>6 DEF TypeParts
    <2>2. \/ revs'[q][m].inputs = k
          \/ m \in 1 .. Len(revs[q]) /\ revs'[q][m] = revs[q][m]
      BY <1>1, <1>2 DEF TypeParts, Restated
    <2>3. ASSUME m \in 1 .. Len(revs[q]), revs'[q][m] = revs[q][m]
          PROVE  /\ revs[q][m].inputs # NoInputs
                 /\ faults = 0 => task'[revs[q][m].inputs].st # "none"
      <3>1. revs[q][m].inputs \in Inputs \union {NoInputs}
        <4>1. revs[q][m] \in Rev
          BY <1>1, <2>3 DEF TypeParts
        <4> QED BY <4>1 DEF Rev
      <3>2. /\ revs[q][m].inputs # NoInputs
            /\ faults = 0 => task[revs[q][m].inputs].st # "none"
        BY <2>3 DEF IInv, QueuedHaveRows, Latest
      <3> QED BY <1>7, <3>1, <3>2
    <2> QED BY <1>3, <2>1, <2>2, <2>3
  <1> QED BY <1>8, <1>9, <1>10 DEF IInv

\* A release that is deleted takes its rows and results with it; those that the workers
\* are at are of other releases.
LEMMA DeleteStep ==
    ASSUME IInv, TypeOK', NEW r \in Release, Delete(r)
    PROVE  IInv'
  <1>1. TypeParts
    BY TypeSplit DEF IInv
  <1>2. faults' > 0 /\ UNCHANGED <<profile, run>>
    BY DEF Delete, Fault, IInv, TypeOK
  <1>3. QueuedHaveRows'
    <2>1. \A q \in Release : revs'[q] = IF q = r THEN <<>> ELSE revs[q]
      BY <1>1 DEF Delete, TypeParts
    <2> QED BY <1>2, <2>1 DEF QueuedHaveRows, IInv, Latest
  <1>4. Patient => \A w \in Worker : run[w].rel # r
    BY DEF Delete, Fault, Patient
  <1>5. /\ \A k \in Inputs : task'[k] = IF task[k].rel = r THEN NoTask ELSE task[k]
        /\ \A k \in Inputs : \A x \in result[k] : x.rel # r => x \in result'[k]
    BY DEF Delete, TasksWithout
  <1>6. CompletedReported'
    <2> SUFFICES ASSUME Patient, NEW k \in Inputs, task'[k].st = "completed"
                 PROVE  [rel |-> task'[k].rel, status |-> Verdict(k)] \in result'[k]
      BY <1>2 DEF CompletedReported, Patient
    <2>1. task'[k] = task[k] /\ task[k].rel # r
      BY <1>5 DEF NoTask
    <2>2. [rel |-> task[k].rel, status |-> Verdict(k)] \in result[k]
      BY <2>1 DEF IInv, CompletedReported
    <2> QED BY <1>5, <2>1, <2>2
  <1>7. WorkersHoldRows'
    <2> SUFFICES ASSUME Patient, NEW w \in Worker, run[w].at # "idle"
                 PROVE  LET row == task'[run[w].inputs]
                        IN row.by = w /\ row.st \in {"active", "failed"} /\ row.rel = run[w].rel
      BY <1>2 DEF WorkersHoldRows, Patient
    <2>1. run[w].inputs \in Inputs
      BY <1>1 DEF TypeParts
    <2> QED BY <1>4, <1>5, <2>1 DEF IInv, WorkersHoldRows
  <1>8. RecordedIsThere'
    <2> SUFFICES ASSUME Patient, NEW w \in Worker, run[w].at = "recorded"
                 PROVE  [rel |-> run[w].rel, status |-> Verdict(run[w].inputs)] \in result'[run[w].inputs]
      BY <1>2 DEF RecordedIsThere, Patient
    <2>1. run[w].inputs \in Inputs
      BY <1>1 DEF TypeParts
    <2> QED BY <1>4, <1>5, <2>1 DEF IInv, RecordedIsThere
  <1> QED BY <1>3, <1>6, <1>7, <1>8 DEF IInv
----------------------------------------------------------------------------
(* The steps of workers *)

\* While no release is deleted under its checks, no two workers have the same inputs.
LEMMA OneWorker ==
    ASSUME IInv, Patient, NEW u \in Worker, NEW w \in Worker, u # w,
           run[u].at # "idle", run[w].at # "idle"
    PROVE  run[u].inputs # run[w].inputs
  BY DEF IInv, WorkersHoldRows

\* A step of worker w changes what it does, the row k and the results with those inputs.
StepAt(w, k) ==
    /\ UNCHANGED <<profile, revs>> /\ (faults' = 0 => faults = 0)
    /\ \A u \in Worker : u # w => run'[u] = run[u]
    /\ \A i \in Inputs : i # k => task'[i] = task[i] /\ result'[i] = result[i]
    /\ task[k].st # "none" => task'[k].st # "none"

\* Nobody else is at work on them, ...
Alone(w, k) == \A u \in Worker : u # w /\ run[u].at # "idle" => run[u].inputs # k

\* ... the worker keeps its row, and the report is there that it claims to have made.
KeepsRow(w, k) ==
    run'[w].at # "idle" => /\ run'[w].inputs = k
                           /\ task'[k].by = w /\ task'[k].st \in {"active", "failed"}
                           /\ task'[k].rel = run'[w].rel
KeepsReport(w, k) ==
    /\ run'[w].at = "recorded" => [rel |-> run'[w].rel, status |-> Verdict(k)] \in result'[k]
    /\ task'[k].st = "completed" => [rel |-> task'[k].rel, status |-> Verdict(k)] \in result'[k]

LEMMA WorkerStep ==
    ASSUME IInv, TypeOK', NEW w \in Worker, NEW k \in Inputs, StepAt(w, k),
           Patient => Alone(w, k) /\ KeepsRow(w, k) /\ KeepsReport(w, k)
    PROVE  IInv'
  <1>1. TypeParts
    BY TypeSplit DEF IInv
  <1>2. CompletedReported'
    <2> SUFFICES ASSUME Patient, NEW i \in Inputs, task'[i].st = "completed"
                 PROVE  [rel |-> task'[i].rel, status |-> Verdict(i)] \in result'[i]
      BY DEF CompletedReported, Patient, StepAt
    <2> QED BY DEF IInv, CompletedReported, StepAt, KeepsReport
  <1>3. WorkersHoldRows'
    <2> SUFFICES ASSUME Patient, NEW u \in Worker, run'[u].at # "idle"
                 PROVE  LET row == task'[run'[u].inputs]
                        IN row.by = u /\ row.st \in {"active", "failed"} /\ row.rel = run'[u].rel
      BY DEF WorkersHoldRows, Patient, StepAt
    <2>1. CASE u = w
      BY <2>1 DEF KeepsRow, KeepsReport
    <2>2. CASE u # w
      <3>1. run'[u] = run[u] /\ run[u].inputs # k
        BY <2>2 DEF StepAt, Alone
      <3>2. run[u].inputs \in Inputs
        BY <1>1, <3>1 DEF TypeParts
      <3> QED BY <3>1, <3>2 DEF IInv, WorkersHoldRows, StepAt
    <2> QED BY <2>1, <2>2
  <1>4. RecordedIsThere'
    <2> SUFFICES ASSUME Patient, NEW u \in Worker, run'[u].at = "recorded"
                 PROVE  [rel |-> run'[u].rel, status |-> Verdict(run'[u].inputs)] \in result'[run'[u].inputs]
      BY DEF RecordedIsThere, Patient, StepAt
    <2>1. CASE u = w
      BY <2>1 DEF KeepsRow, KeepsReport
    <2>2. CASE u # w
      <3>1. run'[u] = run[u] /\ run[u].inputs # k
        BY <2>2 DEF StepAt, Alone
      <3>2. run[u].inputs \in Inputs
        BY <1>1, <3>1 DEF TypeParts
      <3> QED BY <3>1, <3>2 DEF IInv, RecordedIsThere, StepAt
    <2> QED BY <2>1, <2>2
  <1>5. QueuedHaveRows'
    <2> SUFFICES ASSUME NEW r \in Release, NEW n \in 1 .. Len(revs[r]), revs[r][n].queued
                 PROVE  /\ revs[r][n].inputs # NoInputs
                        /\ faults = 0 => task'[revs[r][n].inputs].st # "none"
      BY DEF QueuedHaveRows, Latest, StepAt
    <2>1. revs[r][n] \in Rev
      BY <1>1 DEF TypeParts
    <2>2. revs[r][n].inputs \in Inputs \union {NoInputs}
      BY <2>1 DEF Rev
    <2>3. /\ revs[r][n].inputs # NoInputs
          /\ faults = 0 => task[revs[r][n].inputs].st # "none"
      BY DEF IInv, QueuedHaveRows, Latest
    <2> QED BY <2>2, <2>3 DEF StepAt
  <1> QED BY <1>2, <1>3, <1>4, <1>5 DEF IInv

\* A worker claims a row from the queue, which nobody is at.
LEMMA ClaimStep ==
    ASSUME IInv, TypeOK', NEW w \in Worker, Claim(w)
    PROVE  IInv'
  <1>0. PICK k \in Inputs :
        /\ task[k].st = "queued"
        /\ task' = [task EXCEPT ![k].st = "active", ![k].by = w]
        /\ run' = [run EXCEPT ![w] = [at |-> "claimed", inputs |-> k, rel |-> task[k].rel]]
    BY DEF Claim
  <1> DEFINE work == [at |-> "claimed", inputs |-> k, rel |-> task[k].rel]
  <1>1. TypeParts
    BY TypeSplit DEF IInv
  <1>2. /\ run'[w] = work /\ \A u \in Worker : u # w => run'[u] = run[u]
        /\ \A i \in Inputs : i # k => task'[i] = task[i]
    BY <1>0, <1>1 DEF TypeParts
  <1>3. task'[k].by = w /\ task'[k].st = "active" /\ task'[k].rel = task[k].rel
    <2>1. \A row \in Row :
            LET new == [row EXCEPT !.st = "active", !.by = w]
            IN new.by = w /\ new.st = "active" /\ new.rel = row.rel
      BY DEF Row
    <2>2. task[k] \in Row /\ task'[k] = [task[k] EXCEPT !.st = "active", !.by = w]
      BY <1>0, <1>1 DEF TypeParts
    <2> QED BY <2>1, <2>2, Zenon
  <1>4. work.at = "claimed" /\ work.inputs = k /\ work.rel = task[k].rel
    OBVIOUS
  <1>5. UNCHANGED <<profile, faults, revs, result>>
    BY DEF Claim, releases
  <1>6. Patient => \A u \in Worker : u # w /\ run[u].at # "idle" => run[u].inputs # k
    BY <1>0 DEF IInv, WorkersHoldRows
  <1> HIDE DEF work
  <1>7. StepAt(w, k)
    BY <1>2, <1>3, <1>5 DEF StepAt
  <1>8. KeepsRow(w, k) /\ KeepsReport(w, k)
    BY <1>2, <1>3, <1>4 DEF KeepsRow, KeepsReport
  <1> QED BY <1>6, <1>7, <1>8, WorkerStep DEF Alone

\* What the steps of a worker at work have in common.
LEMMA AtWork ==
    ASSUME IInv, NEW w \in Worker, run[w].at # "idle"
    PROVE  /\ TypeParts
           /\ run[w].inputs \in Inputs
           /\ Patient => /\ Alone(w, run[w].inputs)
                         /\ task[run[w].inputs].by = w
                         /\ task[run[w].inputs].st \in {"active", "failed"}
                         /\ task[run[w].inputs].rel = run[w].rel
  <1>1. TypeParts
    BY TypeSplit DEF IInv
  <1> QED BY <1>1, OneWorker DEF IInv, WorkersHoldRows, TypeParts, Alone

\* What a worker is doing changes, and what it works on does not.
LEMMA RunGoesOn ==
    ASSUME TypeParts, NEW w \in Worker, NEW at \in {"cleared", "recorded"},
           run' = [run EXCEPT ![w].at = at]
    PROVE  /\ run'[w].at = at /\ run'[w].inputs = run[w].inputs /\ run'[w].rel = run[w].rel
           /\ \A u \in Worker : u # w => run'[u] = run[u]
  <1>1. \A work \in Work :
          LET new == [work EXCEPT !.at = at]
          IN new.at = at /\ new.inputs = work.inputs /\ new.rel = work.rel
    BY DEF Work
  <1>2. run[w] \in Work /\ run'[w] = [run[w] EXCEPT !.at = at]
    BY DEF TypeParts
  <1>3. \A u \in Worker : u # w => run'[u] = run[u]
    BY DEF TypeParts
  <1> QED BY <1>1, <1>2, <1>3, Zenon

LEMMA ClearStep ==
    ASSUME IInv, TypeOK', NEW w \in Worker, Clear(w)
    PROVE  IInv'
  <1> DEFINE k == run[w].inputs
  <1>1. run[w].at = "claimed" /\ run' = [run EXCEPT ![w].at = "cleared"]
    BY DEF Clear
  <1>2. /\ run'[w].at = "cleared" /\ run'[w].inputs = k /\ run'[w].rel = run[w].rel
        /\ \A u \in Worker : u # w => run'[u] = run[u]
    BY <1>1, AtWork, RunGoesOn
  <1>3. /\ UNCHANGED <<profile, faults, revs, task>>
        /\ \A i \in Inputs : i # k => result'[i] = result[i]
    BY <1>1, AtWork DEF Clear, releases, TypeParts
  <1>4. /\ k \in Inputs
        /\ Patient => /\ Alone(w, k) /\ task[k].by = w
                      /\ task[k].st \in {"active", "failed"} /\ task[k].rel = run[w].rel
    BY <1>1, AtWork
  <1> HIDE DEF k
  <1>5. StepAt(w, k)
    BY <1>2, <1>3 DEF StepAt
  <1>6. Patient => KeepsRow(w, k) /\ KeepsReport(w, k)
    BY <1>2, <1>3, <1>4 DEF KeepsRow, KeepsReport
  <1> QED BY <1>4, <1>5, <1>6, WorkerStep

LEMMA RecordStep ==
    ASSUME IInv, TypeOK', NEW w \in Worker, Record(w)
    PROVE  IInv'
  <1> DEFINE k == run[w].inputs
  <1>1. run[w].at = "cleared" /\ run' = [run EXCEPT ![w].at = "recorded"]
    BY DEF Record
  <1>2. /\ run'[w].at = "recorded" /\ run'[w].inputs = k /\ run'[w].rel = run[w].rel
        /\ \A u \in Worker : u # w => run'[u] = run[u]
    BY <1>1, AtWork, RunGoesOn
  <1>3. /\ UNCHANGED <<profile, faults, revs, task>>
        /\ \A i \in Inputs : i # k => result'[i] = result[i]
        /\ [rel |-> run[w].rel, status |-> Verdict(k)] \in result'[k]
    BY <1>1, AtWork DEF Record, releases, TypeParts
  <1>4. /\ k \in Inputs
        /\ Patient => /\ Alone(w, k) /\ task[k].by = w
                      /\ task[k].st \in {"active", "failed"} /\ task[k].rel = run[w].rel
    BY <1>1, AtWork
  <1> HIDE DEF k
  <1>5. StepAt(w, k)
    BY <1>2, <1>3 DEF StepAt
  <1>6. Patient => KeepsRow(w, k) /\ KeepsReport(w, k)
    BY <1>2, <1>3, <1>4 DEF KeepsRow, KeepsReport
  <1> QED BY <1>4, <1>5, <1>6, WorkerStep

\* A worker that is through or dead is idle, and so has nothing to keep.
LEMMA WorkerEnds ==
    ASSUME TypeParts, NEW w \in Worker, run' = [run EXCEPT ![w] = Idle]
    PROVE  /\ run'[w].at = "idle"
           /\ \A u \in Worker : u # w => run'[u] = run[u]
  BY DEF TypeParts, Idle

\* The row of a worker at work, or another status of it.
LEMMA RowChanges ==
    ASSUME TypeParts, NEW k \in Inputs, NEW st \in {"completed", "failed"},
           task' = [task EXCEPT ![k].st = st]
    PROVE  /\ task'[k].st = st /\ task'[k].rel = task[k].rel /\ task'[k].by = task[k].by
           /\ \A i \in Inputs : i # k => task'[i] = task[i]
  <1>1. \A row \in Row :
          LET new == [row EXCEPT !.st = st]
          IN new.st = st /\ new.rel = row.rel /\ new.by = row.by
    BY DEF Row
  <1>2. task[k] \in Row /\ task'[k] = [task[k] EXCEPT !.st = st]
    BY DEF TypeParts
  <1>3. \A i \in Inputs : i # k => task'[i] = task[i]
    BY DEF TypeParts
  <1> QED BY <1>1, <1>2, <1>3, Zenon

LEMMA CompleteStep ==
    ASSUME IInv, TypeOK', NEW w \in Worker, Complete(w)
    PROVE  IInv'
  <1> DEFINE k == run[w].inputs
  <1>1. run[w].at = "recorded" /\ run' = [run EXCEPT ![w] = Idle]
    BY DEF Complete
  <1>2. /\ TypeParts /\ k \in Inputs
        /\ Patient => /\ Alone(w, k) /\ task[k].by = w
                      /\ task[k].st \in {"active", "failed"} /\ task[k].rel = run[w].rel
    BY <1>1, AtWork
  <1>3. run'[w].at = "idle" /\ \A u \in Worker : u # w => run'[u] = run[u]
    BY <1>1, <1>2, WorkerEnds
  <1>4. UNCHANGED <<profile, faults, revs, result>>
    BY DEF Complete, releases
  <1>5. \/ UNCHANGED task
        \/ /\ task'[k].st = "completed" /\ task'[k].rel = task[k].rel
           /\ \A i \in Inputs : i # k => task'[i] = task[i]
    BY <1>2, RowChanges DEF Complete
  <1>6. Patient => [rel |-> run[w].rel, status |-> Verdict(k)] \in result[k]
    BY <1>1 DEF IInv, RecordedIsThere
  <1> HIDE DEF k
  <1>7. StepAt(w, k)
    BY <1>3, <1>4, <1>5 DEF StepAt
  <1>8. Patient => KeepsRow(w, k) /\ KeepsReport(w, k)
    BY <1>2, <1>3, <1>4, <1>5, <1>6 DEF KeepsRow, KeepsReport
  <1> QED BY <1>2, <1>7, <1>8, WorkerStep

\* What a check that fails leaves of its row and its results.
LEMMA FailureLeaves ==
    ASSUME TypeParts, NEW w \in Worker, run[w].inputs \in Inputs, Failed(w)
    PROVE  /\ \A i \in Inputs : i # run[w].inputs => task'[i] = task[i] /\ result'[i] = result[i]
           /\ result[run[w].inputs] \subseteq result'[run[w].inputs]
           /\ \/ task'[run[w].inputs] = task[run[w].inputs]
              \/ /\ task'[run[w].inputs].st = "failed"
                 /\ task'[run[w].inputs].rel = task[run[w].inputs].rel
                 /\ task'[run[w].inputs].by = task[run[w].inputs].by
  <1>1. CASE ~Held(w)
    BY <1>1 DEF Failed
  <1>2. CASE Held(w)
    <2>1. task' = [task EXCEPT ![run[w].inputs].st = "failed"]
      BY <1>2 DEF Failed
    <2>2. /\ task'[run[w].inputs].st = "failed"
          /\ task'[run[w].inputs].rel = task[run[w].inputs].rel
          /\ task'[run[w].inputs].by = task[run[w].inputs].by
          /\ \A i \in Inputs : i # run[w].inputs => task'[i] = task[i]
      BY <2>1, RowChanges
    <2>3. result' = [result EXCEPT ![run[w].inputs] =
                        @ \union {[rel |-> run[w].rel, status |-> "exception"]}]
      BY <1>2 DEF Failed
    <2>4. /\ result[run[w].inputs] \subseteq result'[run[w].inputs]
          /\ \A i \in Inputs : i # run[w].inputs => result'[i] = result[i]
      BY <2>3 DEF TypeParts
    <2> QED BY <2>2, <2>4
  <1> QED BY <1>1, <1>2

LEMMA CheckFailsStep ==
    ASSUME IInv, TypeOK', NEW w \in Worker, CheckRaises(w) \/ Overrun(w)
    PROVE  IInv'
  <1> DEFINE k == run[w].inputs
  <1>1. run[w].at # "idle" /\ Failed(w) /\ UNCHANGED <<profile, revs>>
    BY DEF CheckRaises, Overrun, releases
  <1>2. /\ TypeParts /\ k \in Inputs
        /\ Patient => /\ Alone(w, k) /\ task[k].by = w
                      /\ task[k].st \in {"active", "failed"} /\ task[k].rel = run[w].rel
    BY <1>1, AtWork
  <1>3. faults' = 0 => faults = 0
    BY DEF CheckRaises, Overrun, Fault, IInv, TypeOK
  <1>4. /\ run'[w] = run[w] \/ run'[w].at = "idle"
        /\ \A u \in Worker : u # w => run'[u] = run[u]
    BY <1>2, WorkerEnds DEF CheckRaises, Overrun
  <1>5. /\ \A i \in Inputs : i # k => task'[i] = task[i] /\ result'[i] = result[i]
        /\ result[k] \subseteq result'[k]
        /\ \/ task'[k] = task[k]
           \/ task'[k].st = "failed" /\ task'[k].rel = task[k].rel /\ task'[k].by = task[k].by
    BY <1>1, <1>2, FailureLeaves
  <1>6. Patient /\ run[w].at = "recorded" => [rel |-> run[w].rel, status |-> Verdict(k)] \in result[k]
    BY DEF IInv, RecordedIsThere
  <1>7. run[w].inputs = k
    OBVIOUS
  <1> HIDE DEF k
  <1>8. StepAt(w, k)
    BY <1>1, <1>3, <1>4, <1>5 DEF StepAt
  <1>9. Patient => KeepsRow(w, k)
    BY <1>2, <1>4, <1>5, <1>7 DEF KeepsRow
  <1>10. Patient => KeepsReport(w, k)
    BY <1>2, <1>4, <1>5, <1>6 DEF KeepsReport
  <1> QED BY <1>2, <1>8, <1>9, <1>10, WorkerStep

LEMMA KillOverrunStep ==
    ASSUME IInv, TypeOK', NEW w \in Worker, KillOverrun(w)
    PROVE  IInv'
  <1> DEFINE k == run[w].inputs
  <1>1. /\ run[w].at # "idle" /\ task[k].st = "failed" /\ run' = [run EXCEPT ![w] = Idle]
        /\ UNCHANGED <<profile, faults, revs, task, result>>
    BY DEF KillOverrun, releases
  <1>2. TypeParts /\ k \in Inputs /\ (Patient => Alone(w, k))
    BY <1>1, AtWork
  <1>3. run'[w].at = "idle" /\ \A u \in Worker : u # w => run'[u] = run[u]
    BY <1>1, <1>2, WorkerEnds
  <1> HIDE DEF k
  <1>4. StepAt(w, k)
    BY <1>1, <1>3 DEF StepAt
  <1>5. KeepsRow(w, k) /\ KeepsReport(w, k)
    BY <1>1, <1>3 DEF KeepsRow, KeepsReport
  <1> QED BY <1>2, <1>4, <1>5, WorkerStep

LEMMA DieStep ==
    ASSUME IInv, TypeOK', NEW w \in Worker, Die(w)
    PROVE  IInv'
  <1> DEFINE k == run[w].inputs
  <1>1. run[w].at # "idle" /\ run' = [run EXCEPT ![w] = Idle] /\ UNCHANGED <<profile, revs, result>>
    BY DEF Die, releases
  <1>2. /\ TypeParts /\ k \in Inputs
        /\ Patient => Alone(w, k) /\ task[k].st \in {"active", "failed"}
    BY <1>1, AtWork
  <1>3. faults' = 0 => faults = 0
    <2>1. faults \in 0 .. MaxFaults /\ (UNCHANGED faults \/ faults' = faults + 1)
      BY Zenon DEF Die, Fault, IInv, TypeOK
    <2> QED BY <2>1
  <1>4. run'[w].at = "idle" /\ \A u \in Worker : u # w => run'[u] = run[u]
    BY <1>1, <1>2, WorkerEnds
  <1>5. \/ UNCHANGED task
        \/ task'[k].st = "queued" /\ \A i \in Inputs : i # k => task'[i] = task[i]
    <2>1. CASE ~Held(w)
      BY <2>1 DEF Die
    <2>2. CASE Held(w)
      <3>1. task' = [task EXCEPT ![k].st = "queued", ![k].by = NoWorker]
        BY <2>2 DEF Die
      <3>2. task[k] \in Row /\ task'[k] = [task[k] EXCEPT !.st = "queued", !.by = NoWorker]
        BY <1>2, <3>1 DEF TypeParts
      <3>3. \A row \in Row : [row EXCEPT !.st = "queued", !.by = NoWorker].st = "queued"
        BY DEF Row
      <3>4. \A i \in Inputs : i # k => task'[i] = task[i]
        BY <1>2, <3>1 DEF TypeParts
      <3>5. task'[k].st = "queued"
        BY <3>2, <3>3, Zenon
      <3> QED BY <3>4, <3>5
    <2> QED BY <2>1, <2>2
  <1> HIDE DEF k
  <1>6. StepAt(w, k)
    BY <1>1, <1>3, <1>4, <1>5 DEF StepAt
  <1>7. Patient => KeepsRow(w, k) /\ KeepsReport(w, k)
    BY <1>2, <1>4, <1>5 DEF KeepsRow, KeepsReport
  <1> QED BY <1>2, <1>6, <1>7, WorkerStep

----------------------------------------------------------------------------
(* The theorems *)

LEMMA IndInv == Spec => []IInv
  <1>1. IInv /\ [Next]_vars => IInv'
    <2> SUFFICES ASSUME IInv, [Next]_vars PROVE IInv'
      OBVIOUS
    <2>1. CASE UNCHANGED vars
      <3>1. TypeOK'
        BY <2>1 DEF vars, releases, IInv, TypeOK
      <3>2. UNCHANGED <<profile, faults, task, result, run, revs>>
        BY <2>1 DEF vars, releases
      <3> QED BY <3>1, <3>2, QuietStep
    <2>2. CASE Next
      <3>1. TypeOK'
        BY <2>2, NextType DEF IInv
      <3> QED BY <2>2, <3>1, NewRevisionStep, OtherReleaseStep, RecordInputsStep, QueueChecksStep,
                 DeleteStep, ClaimStep, ClearStep, RecordStep, CompleteStep, CheckFailsStep, KillOverrunStep, DieStep DEF Next
    <2> QED BY <2>1, <2>2
  <1> QED BY InitIInv, <1>1, PTL DEF Spec

\* A completed check has its report, for any number of releases, workers and revisions,
\* whatever fails but the deletion of a release under its checks (Recorder, _add_task).
THEOREM CompletedIsReported == Spec => []CompletedReported
  <1>1. IInv => CompletedReported
    BY DEF IInv
  <1> QED BY IndInv, <1>1, PTL

\* Only the start of a vote takes a draft to its vote.
LEMMA OnlyStartVote ==
    ASSUME IInv, Next, NEW r \in Release, VoteStarts(r)
    PROVE  StartVote(r)
  <1>1. phase \in [Release -> {"none", "draft", "vote"}]
    BY DEF IInv, TypeOK
  <1>2. ASSUME NEW q \in Release, StartRelease(q) PROVE FALSE
    BY <1>1, <1>2 DEF StartRelease, VoteStarts
  <1>3. ASSUME NEW q \in Release, VoteFails(q) PROVE FALSE
    BY <1>1, <1>3 DEF VoteFails, VoteStarts
  <1>4. ASSUME NEW q \in Release, Delete(q) PROVE FALSE
    BY <1>1, <1>4 DEF Delete, VoteStarts
  <1>5. ASSUME NEW q \in Release, StartVote(q) PROVE q = r
    BY <1>1, <1>5 DEF StartVote, VoteStarts
  <1>6. phase' # phase
    BY DEF VoteStarts
  <1>7. \E q \in Release : StartRelease(q) \/ VoteFails(q) \/ Delete(q) \/ StartVote(q)
    BY <1>6 DEF Next, NewRevision, RecordInputs, QueueChecks, Claim, Clear, Record, Complete, CheckRaises, Overrun,
       KillOverrun, Die, releases
  <1> QED BY <1>2, <1>3, <1>4, <1>5, <1>7

\* The inputs of the latest revision of a draft that goes to its vote.
LEMMA VotedInputs ==
    ASSUME IInv, NEW r \in Release, StartVote(r), LatestInputs(r) # NoInputs
    PROVE  LatestInputs(r) \in Inputs /\ Latest(r) \in 1 .. Len(revs[r])
  <1>1. revs[r] \in Seq(Rev) /\ revs[r] # <<>>
    BY TypeSplit DEF IInv, TypeParts, StartVote
  <1>2. Latest(r) \in 1 .. Len(revs[r]) /\ revs[r][Latest(r)] \in Rev
    BY <1>1 DEF Latest
  <1> QED BY <1>2 DEF LatestInputs, Rev

\* No vote on files with a blocker that a completed check has found (has_blocker_checks).
THEOREM NoVoteOnBlockers == Spec => BlockedStaysDraft
  <1> DEFINE Safe == \A r \in Release : VoteStarts(r) /\ LatestInputs(r) # NoInputs =>
                        (task[LatestInputs(r)].st = "completed" => LatestInputs(r).content \notin Bad)
  <1>1. ASSUME IInv, Next, Patient
        PROVE  Safe
    <2> SUFFICES ASSUME NEW r \in Release, VoteStarts(r), LatestInputs(r) # NoInputs,
                        task[LatestInputs(r)].st = "completed", LatestInputs(r).content \in Bad
                 PROVE  FALSE
      OBVIOUS
    <2>1. StartVote(r) /\ LatestInputs(r) \in Inputs
      BY <1>1, OnlyStartVote, VotedInputs
    <2>2. [rel |-> task[LatestInputs(r)].rel, status |-> "blocker"] \in result[LatestInputs(r)]
      BY <1>1, <2>1 DEF IInv, CompletedReported, Verdict
    <2>3. HasBlockers(r, Latest(r))
      BY <2>2 DEF HasBlockers, LatestInputs
    <2> QED BY <2>1, <2>3 DEF StartVote
  <1>2. ASSUME IInv, UNCHANGED vars
        PROVE  Safe
    BY <1>2 DEF vars, releases, VoteStarts
  <1>3. IInv /\ [Next]_vars => [Patient => Safe]_vars
    BY <1>1, <1>2
  <1> QED BY IndInv, <1>3, PTL DEF Spec, BlockedStaysDraft

\* What a vote may start without having waited for, once the checks of its revision have been
\* queued (__tasks_ongoing, draft_checks).
THEOREM VoteWaitsForItsOwn == Spec => UncheckedOnlyIfShared
  <1> DEFINE Waited == \A r \in Release : VoteStarts(r) /\ revs[r][Latest(r)].queued =>
                LET row == task[LatestInputs(r)]
                IN \/ row.st \in {"completed", "failed"}
                   \/ row.st = "none" /\ faults > 0
                   \/ <<row.rel, row.rev>> # <<r, Latest(r)>>
  <1>1. ASSUME IInv, Next
        PROVE  Waited
    <2> SUFFICES ASSUME NEW r \in Release, VoteStarts(r), revs[r][Latest(r)].queued,
                        task[LatestInputs(r)].rel = r, task[LatestInputs(r)].rev = Latest(r),
                        task[LatestInputs(r)].st \notin {"completed", "failed"}
                 PROVE  task[LatestInputs(r)].st = "none" /\ faults > 0
      OBVIOUS
    <2>0. StartVote(r) /\ Latest(r) \in 1 .. Len(revs[r])
      <3>1. StartVote(r)
        BY <1>1, OnlyStartVote
      <3>2. revs[r] \in Seq(Rev) /\ revs[r] # <<>>
        BY <1>1, <3>1, TypeSplit DEF IInv, TypeParts, StartVote
      <3> QED BY <3>1, <3>2 DEF Latest
    <2>1. LatestInputs(r) # NoInputs /\ LatestInputs(r) \in Inputs
      <3>1. LatestInputs(r) # NoInputs
        BY <1>1, <2>0 DEF IInv, QueuedHaveRows, LatestInputs, Latest
      <3> QED BY <1>1, <2>0, <3>1, VotedInputs
    <2>2. task[LatestInputs(r)].st \notin {"queued", "active"}
      BY <2>0, <2>1 DEF StartVote, TasksOngoing
    <2>3. task[LatestInputs(r)].st \in {"none", "queued", "active", "completed", "failed"}
      BY <1>1, <2>1, TypeSplit DEF IInv, TypeParts, Row
    <2>4. task[LatestInputs(r)].st = "none"
      BY <2>2, <2>3
    <2>5. faults # 0
      BY <1>1, <2>0, <2>4 DEF IInv, QueuedHaveRows, LatestInputs, Latest
    <2> QED BY <1>1, <2>4, <2>5 DEF IInv, TypeOK
  <1>2. ASSUME IInv, UNCHANGED vars
        PROVE  Waited
    BY <1>2 DEF vars, releases, VoteStarts
  <1>3. IInv /\ [Next]_vars => [Waited]_vars
    BY <1>1, <1>2
  <1> QED BY IndInv, <1>3, PTL DEF Spec, UncheckedOnlyIfShared
=============================================================================
