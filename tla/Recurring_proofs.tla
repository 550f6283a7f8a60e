-------------------------- MODULE Recurring_proofs --------------------------
(***************************************************************************)
(* That no recurring task is lost, for any set of recurring tasks, any     *)
(* number of workers and rows and any number of faults.                    *)
(***************************************************************************)
EXTENDS Recurring, TLAPS

Records == [st : {"none", "queued", "active", "failed"}, kind : Kind \union {"none"},
            scheduled : BOOLEAN, again : BOOLEAN]

\* A row has a kind, and one that somebody is at has been claimed.
RowsFit(n) ==
    /\ row[n].st # "none" => row[n].kind \in Kind
    /\ run[n] # "idle" => row[n].st \in {"active", "failed"}

----------------------------------------------------------------------------
(* The type invariant *)

LEMMA NewRow ==
    ASSUME NEW k \in Kind, NEW scheduled \in BOOLEAN
    PROVE  New(k, scheduled) \in Records
BY DEF New, Records

LEMMA EmptyRow == NoRow \in Records
BY DEF NoRow, Records

\* The kinds of a profile are among those of the model.
LEMMA Kinds ==
    ASSUME NEW p \in Profile
    PROVE  p.kinds \subseteq Kind
BY DEF Kind

LEMMA FaultCounted ==
    ASSUME profile \in Profile, faults \in 0 .. profile.most, NEW f, Fault(f)
    PROVE  faults' \in 0 .. profile.most
BY ProfileAssumption DEF Fault

\* Of the rows there are, a replacement deletes some that wait and fills one that was
\* free; it changes no other.
LEMMA Replaced ==
    ASSUME NEW k \in Kind, NEW scheduled \in BOOLEAN, NEW old \in SUBSET Waiting(k),
           TypeOK, Replaces(k, old, scheduled)
    PROVE  /\ row' \in [Row -> Records]
           /\ \E n \in Row :
                 /\ row[n].st = "none" /\ n \notin old /\ row'[n] = New(k, scheduled)
                 /\ \A m \in old : row'[m] = NoRow
                 /\ \A m \in Row \ (old \union {n}) : row'[m] = row[m]
<1>1. PICK n \in Row : /\ Free(n)
                       /\ row' = [m \in Row |-> IF m = n THEN New(k, scheduled)
                                                ELSE IF m \in old THEN NoRow ELSE row[m]]
  BY DEF Replaces
<1>2. row \in [Row -> Records]
  BY DEF TypeOK, Records
<1>3. row' \in [Row -> Records]
  <2>1. \A m \in Row : (IF m = n THEN New(k, scheduled) ELSE IF m \in old THEN NoRow ELSE row[m])
                          \in Records
    BY <1>2, NewRow, EmptyRow
  <2> QED BY <1>1, <2>1
<1>4. row[n].st = "none"
  BY <1>1 DEF Free
<1>5. \A m \in old : m \in Row /\ row[m].st = "queued"
  BY DEF Waiting
<1>6. n \notin old
  BY <1>4, <1>5
<1>7. /\ row'[n] = New(k, scheduled)
      /\ \A m \in old : row'[m] = NoRow
      /\ \A m \in Row \ (old \union {n}) : row'[m] = row[m]
  BY <1>1, <1>5, <1>6
<1> QED BY <1>3, <1>4, <1>6, <1>7

\* What is replaced has been waiting.
LEMMA ObsoleteWaits ==
    ASSUME NEW k
    PROVE  Obsolete(k) \subseteq Waiting(k) /\ Scheduled(Waiting(k)) \subseteq Obsolete(k)
BY DEF Obsolete, Scheduled

\* The rows fit after a replacement that is done by a run, or by nobody.
LEMMA ReplacedFits ==
    ASSUME NEW k \in Kind, NEW scheduled \in BOOLEAN, NEW old \in SUBSET Waiting(k),
           TypeOK, Replaces(k, old, scheduled),
           \A m \in Row : run'[m] # "idle" => run[m] # "idle"
    PROVE  \A m \in Row : RowsFit(m)'
<1>1. PICK n \in Row : /\ row[n].st = "none" /\ n \notin old /\ row'[n] = New(k, scheduled)
                       /\ \A m \in old : row'[m] = NoRow
                       /\ \A m \in Row \ (old \union {n}) : row'[m] = row[m]
  BY Replaced
<1> TAKE m \in Row
<1>2. /\ row[m].st # "none" => row[m].kind \in Kind
      /\ run[m] # "idle" => row[m].st \in {"active", "failed"}
  BY DEF TypeOK
<1>3. CASE m = n
  BY <1>1, <1>2, <1>3 DEF RowsFit, New
<1>4. CASE m \in old
  <2>1. row[m].st = "queued"
    BY <1>4 DEF Waiting
  <2> QED BY <1>1, <1>2, <1>4, <2>1 DEF RowsFit, NoRow
<1>5. CASE m \notin old \union {n}
  BY <1>1, <1>2, <1>5 DEF RowsFit
<1> QED BY <1>3, <1>4, <1>5

\* The rows fit when a run is over.
LEMMA OverFits ==
    ASSUME TypeOK, NEW n \in Row, Over(n)
    PROVE  /\ row' \in [Row -> Records] /\ run' \in [Row -> {"idle", "begun", "followed"}]
           /\ row'[n] = NoRow /\ run'[n] = "idle"
           /\ \A m \in Row \ {n} : row'[m] = row[m] /\ run'[m] = run[m]
           /\ \A m \in Row : RowsFit(m)'
<1>1. row \in [Row -> Records] /\ run \in [Row -> {"idle", "begun", "followed"}]
  BY DEF TypeOK, Records
<1>2. /\ row'[n] = NoRow /\ run'[n] = "idle"
      /\ \A m \in Row \ {n} : row'[m] = row[m] /\ run'[m] = run[m]
  BY <1>1 DEF Over
<1>3. row' \in [Row -> Records] /\ run' \in [Row -> {"idle", "begun", "followed"}]
  BY <1>1, EmptyRow DEF Over
<1>4. \A m \in Row : RowsFit(m)'
  <2> TAKE m \in Row
  <2>1. RowsFit(m)
    BY DEF TypeOK, RowsFit
  <2> QED BY <1>2, <2>1 DEF RowsFit, NoRow
<1> QED BY <1>2, <1>3, <1>4

\* A row that is given another status, and its run another state, in a way that fits.
LEMMA ChangeFits ==
    ASSUME TypeOK, NEW n \in Row, NEW r, r \in Records, row' = [row EXCEPT ![n] = r],
           r.st # "none" => r.kind \in Kind,
           NEW s \in {"idle", "begun", "followed"}, run' = [run EXCEPT ![n] = s],
           s # "idle" => r.st \in {"active", "failed"}
    PROVE  /\ row' \in [Row -> Records] /\ run' \in [Row -> {"idle", "begun", "followed"}]
           /\ \A m \in Row : RowsFit(m)'
<1>1. row \in [Row -> Records] /\ run \in [Row -> {"idle", "begun", "followed"}]
  BY DEF TypeOK, Records
<1>2. row' \in [Row -> Records] /\ run' \in [Row -> {"idle", "begun", "followed"}]
  BY <1>1
<1>3. \A m \in Row : RowsFit(m)'
  <2> TAKE m \in Row
  <2>1. RowsFit(m)
    BY DEF TypeOK, RowsFit
  <2>2. CASE m = n
    BY <1>1, <2>2 DEF RowsFit
  <2>3. CASE m # n
    <3>1. row'[m] = row[m] /\ run'[m] = run[m]
      BY <1>1, <2>3
    <3> QED BY <2>1, <3>1 DEF RowsFit
  <2> QED BY <2>2, <2>3
<1> QED BY <1>2, <1>3

\* Registration and the queueing of a successor replace rows of one kind.
LEMMA Queues ==
    ASSUME TypeOK,
           NEW k \in Kind, NEW old \in SUBSET Waiting(k), NEW scheduled \in BOOLEAN,
           Replaces(k, old, scheduled),
           profile' = profile, faults' = faults,
           server' = server, todo' \in SUBSET todo, broken' \in SUBSET broken,
           run' \in [Row -> {"idle", "begun", "followed"}],
           \A m \in Row : run'[m] # "idle" => run[m] # "idle"
    PROVE  TypeOK'
<1>1. row' \in [Row -> Records]
  BY Replaced
<1>2. \A m \in Row : RowsFit(m)'
  BY ReplacedFits
<1> QED BY <1>1, <1>2 DEF TypeOK, Records, RowsFit

LEMMA TypeServer == TypeOK /\ Server => TypeOK'
<1> SUFFICES ASSUME TypeOK, Server PROVE TypeOK'
  OBVIOUS
<1>1. CASE Start
  BY <1>1 DEF Start, TypeOK
<1>2. CASE ClearScheduled
  <2>1. row \in [Row -> Records]
    BY DEF TypeOK, Records
  <2>2. row' \in [Row -> Records]
    BY <1>2, <2>1, EmptyRow DEF ClearScheduled
  <2>3. \A m \in Row : RowsFit(m)'
    BY <1>2, <2>1 DEF ClearScheduled, TypeOK, RowsFit, NoRow
  <2>4. todo' \subseteq Kind
    BY <1>2, Kinds DEF ClearScheduled, TypeOK
  <2> QED BY <1>2, <2>2, <2>3, <2>4 DEF ClearScheduled, TypeOK, Records, RowsFit
<1>3. ASSUME NEW k \in Kind, Register(k) PROVE TypeOK'
  <2> DEFINE old == IF k \in Early THEN Obsolete(k) ELSE {}
  <2>1. old \in SUBSET Waiting(k)
    BY ObsoleteWaits
  <2>2. Replaces(k, old, k = "integrity")
    BY <1>3 DEF Register
  <2>3. /\ profile' = profile /\ faults' = faults /\ server' = server /\ run' = run
        /\ todo' \in SUBSET todo /\ broken' \in SUBSET broken
    BY <1>3 DEF Register
  <2>4. run' \in [Row -> {"idle", "begun", "followed"}]
    BY <2>3 DEF TypeOK
  <2> HIDE DEF old
  <2> QED BY <2>1, <2>2, <2>3, <2>4, Queues
<1>4. CASE RegistrationFails
  <2>1. Fault("queueing")
    BY <1>4 DEF RegistrationFails
  <2>2. faults' \in 0 .. profile.most
    BY <2>1, FaultCounted DEF TypeOK
  <2> QED BY <1>4, <2>2 DEF RegistrationFails, TypeOK
<1>5. CASE Stop
  <2>1. Fault("stop")
    BY <1>5 DEF Stop
  <2>2. faults' \in 0 .. profile.most
    BY <2>1, FaultCounted DEF TypeOK
  <2> QED BY <1>5, <2>2 DEF Stop, TypeOK
<1> QED BY <1>1, <1>2, <1>3, <1>4, <1>5 DEF Server

\* What is left to show of a step that ends, changes or returns a run.
LEMMA TypeRun ==
    ASSUME TypeOK,
           row' \in [Row -> Records], run' \in [Row -> {"idle", "begun", "followed"}],
           \A m \in Row : RowsFit(m)',
           profile' = profile, faults' \in 0 .. profile.most, server' = server, todo' = todo,
           NEW n \in Row, broken' = broken \/ Breaks(n)
    PROVE  TypeOK'
<1>1. broken' \subseteq Kind
  <2>1. row[n].st = "active" => row[n].kind \in Kind
    BY DEF TypeOK
  <2> QED BY <2>1 DEF TypeOK, Breaks
<1> QED BY <1>1 DEF TypeOK, Records, RowsFit

LEMMA TypeRuns ==
    ASSUME TypeOK, NEW n \in Row, Runs(n)
    PROVE  TypeOK'
<1>0. /\ row \in [Row -> Records] /\ run \in [Row -> {"idle", "begun", "followed"}]
      /\ faults \in 0 .. profile.most
      /\ row[n].st # "none" => row[n].kind \in Kind
      /\ run[n] # "idle" => row[n].st \in {"active", "failed"}
  BY DEF TypeOK, Records
<1>1. CASE Claim(n)
  <2> DEFINE r == [row[n] EXCEPT !.st = "active"]
  <2>1. /\ r \in Records /\ r.st = "active" /\ r.kind \in Kind
        /\ row' = [row EXCEPT ![n] = r] /\ run' = [run EXCEPT ![n] = "begun"]
    BY <1>0, <1>1 DEF Claim, Records
  <2> HIDE DEF r
  <2>2. /\ row' \in [Row -> Records] /\ run' \in [Row -> {"idle", "begun", "followed"}]
        /\ \A m \in Row : RowsFit(m)'
    BY <2>1, ChangeFits
  <2> QED BY <1>0, <1>1, <2>2, TypeRun DEF Claim
<1>2. CASE QueueNext(n)
  <2>1. /\ Obsolete(row[n].kind) \in SUBSET Waiting(row[n].kind)
        /\ row[n].kind \in Kind
    BY <1>0, <1>2, ObsoleteWaits DEF QueueNext
  <2>2. /\ run' \in [Row -> {"idle", "begun", "followed"}]
        /\ \A m \in Row : run'[m] # "idle" => run[m] # "idle"
    BY <1>0, <1>2 DEF QueueNext
  <2>3. /\ Replaces(row[n].kind, Obsolete(row[n].kind), TRUE)
        /\ profile' = profile /\ faults' = faults /\ server' = server
        /\ todo' \in SUBSET todo /\ broken' \in SUBSET broken
    BY <1>2 DEF QueueNext
  <2> QED BY <2>1, <2>2, <2>3, Queues
<1>3. CASE Complete(n)
  <2>1. /\ row' \in [Row -> Records] /\ run' \in [Row -> {"idle", "begun", "followed"}]
        /\ \A m \in Row : RowsFit(m)'
    BY <1>3, OverFits DEF Complete
  <2> QED BY <1>0, <1>3, <2>1, TypeRun DEF Complete
<1>4. CASE WorkFails(n)
  <2>1. /\ row' \in [Row -> Records] /\ run' \in [Row -> {"idle", "begun", "followed"}]
        /\ \A m \in Row : RowsFit(m)'
    BY <1>4, OverFits DEF WorkFails
  <2>2. Fault("work")
    BY <1>4 DEF WorkFails
  <2>3. faults' \in 0 .. profile.most
    BY <2>2, FaultCounted DEF TypeOK
  <2> QED BY <1>4, <2>1, <2>3, TypeRun DEF WorkFails
<1>5. CASE QueueingFails(n)
  <2>1. /\ row' \in [Row -> Records] /\ run' \in [Row -> {"idle", "begun", "followed"}]
        /\ \A m \in Row : RowsFit(m)'
    BY <1>5, OverFits DEF QueueingFails
  <2>2. Fault("queueing")
    BY <1>5 DEF QueueingFails
  <2>3. faults' \in 0 .. profile.most
    BY <2>2, FaultCounted DEF TypeOK
  <2> QED BY <1>5, <2>1, <2>3, TypeRun DEF QueueingFails
<1>6. CASE DefersItself(n)
  <2> DEFINE r == [row[n] EXCEPT !.st = "queued", !.scheduled = TRUE, !.again = TRUE]
  <2>1. /\ r \in Records /\ r.st = "queued" /\ r.kind \in Kind
        /\ row' = [row EXCEPT ![n] = r] /\ run' = [run EXCEPT ![n] = "idle"]
    BY <1>0, <1>6 DEF DefersItself, Records
  <2> HIDE DEF r
  <2>2. /\ row' \in [Row -> Records] /\ run' \in [Row -> {"idle", "begun", "followed"}]
        /\ \A m \in Row : RowsFit(m)'
    BY <2>1, ChangeFits
  <2> QED BY <1>0, <1>6, <2>2, TypeRun DEF DefersItself
<1>7. CASE Overrun(n)
  <2> DEFINE r == [row[n] EXCEPT !.st = "failed"]
  <2>1. /\ r \in Records /\ r.st = "failed" /\ r.kind \in Kind
        /\ row' = [row EXCEPT ![n] = r] /\ run' = [run EXCEPT ![n] = run[n]]
        /\ run[n] \in {"idle", "begun", "followed"}
    BY <1>0, <1>7 DEF Overrun, Records
  <2> HIDE DEF r
  <2>2. /\ row' \in [Row -> Records] /\ run' \in [Row -> {"idle", "begun", "followed"}]
        /\ \A m \in Row : RowsFit(m)'
    BY <2>1, ChangeFits
  <2>3. Fault("overrun")
    BY <1>7 DEF Overrun
  <2>4. faults' \in 0 .. profile.most
    BY <2>3, FaultCounted DEF TypeOK
  <2> QED BY <1>7, <2>2, <2>4, TypeRun DEF Overrun
<1>8. CASE KillOverrun(n)
  <2>1. /\ row' \in [Row -> Records] /\ run' \in [Row -> {"idle", "begun", "followed"}]
        /\ \A m \in Row : RowsFit(m)'
    BY <1>8, OverFits DEF KillOverrun
  <2> QED BY <1>0, <1>8, <2>1, TypeRun DEF KillOverrun
<1>9. CASE Die(n)
  <2>1. /\ run' \in [Row -> {"idle", "begun", "followed"}]
        /\ \A m \in Row : RowsFit(m)'
    BY <1>0, <1>9 DEF Die, TypeOK, RowsFit
  <2>2. Fault("die")
    BY <1>9 DEF Die
  <2>3. faults' \in 0 .. profile.most
    BY <2>2, FaultCounted DEF TypeOK
  <2> QED BY <1>0, <1>9, <2>1, <2>3, TypeRun DEF Die
<1>10. CASE Return(n)
  <2> DEFINE r == [row[n] EXCEPT !.st = "queued", !.again = TRUE]
  <2>1. /\ r \in Records /\ r.st = "queued" /\ r.kind \in Kind
        /\ row' = [row EXCEPT ![n] = r] /\ run' = [run EXCEPT ![n] = "idle"]
    BY <1>0, <1>10 DEF Return, Records
  <2> HIDE DEF r
  <2>2. /\ row' \in [Row -> Records] /\ run' \in [Row -> {"idle", "begun", "followed"}]
        /\ \A m \in Row : RowsFit(m)'
    BY <2>1, ChangeFits
  <2> QED BY <1>0, <1>10, <2>2, TypeRun DEF Return
<1> QED BY <1>1, <1>2, <1>3, <1>4, <1>5, <1>6, <1>7, <1>8, <1>9, <1>10 DEF Runs

LEMMA TypeInit == Init => TypeOK
<1> SUFFICES ASSUME Init PROVE TypeOK
  OBVIOUS
<1>1. todo \subseteq Kind
  BY Kinds DEF Init
<1>2. 0 \in 0 .. profile.most
  BY ProfileAssumption DEF Init
<1>3. \A n \in Row : row[n] = NoRow /\ NoRow \in Records
  BY EmptyRow DEF Init
<1> QED BY <1>1, <1>2, <1>3 DEF Init, TypeOK, Records, NoRow

LEMMA TypeNext == TypeOK /\ [Next]_vars => TypeOK'
<1> SUFFICES ASSUME TypeOK, [Next]_vars PROVE TypeOK'
  OBVIOUS
<1>1. CASE Server
  BY <1>1, TypeServer
<1>2. ASSUME NEW n \in Row, Runs(n) PROVE TypeOK'
  BY <1>2, TypeRuns
<1>3. CASE UNCHANGED vars
  BY <1>3 DEF vars, TypeOK
<1> QED BY <1>1, <1>2, <1>3 DEF Next

\* Rows, runs and the server have their types, and a row has a claimant only when it has
\* been claimed, whatever tasks recur and whatever fails.
THEOREM TypeCorrect == Spec => []TypeOK
BY TypeInit, TypeNext, PTL DEF Spec

----------------------------------------------------------------------------
(* The next run of a task *)

\* The row that carries the task on.
Carries(n, k) ==
    row[n].kind = k /\ (row[n].st = "queued" \/ (row[n].st = "active" /\ run[n] # "followed"))

LEMMA CarriedByRow == \A k : Carried(k) <=> \E n \in Row : Carries(n, k)
BY DEF Carried, Carries

\* A step that leaves alone the row that carries a task on leaves the task carried.
LEMMA LeftAlone ==
    ASSUME NEW w \in Row, NEW k, Carries(w, k), row'[w] = row[w], run'[w] = run[w]
    PROVE  Carried(k)'
BY DEF Carries, Carried

\* A replacement leaves the kind it is about with a row in the queue, and the rows of the
\* others alone.
LEMMA ReplacedCarried ==
    ASSUME TypeOK,
           NEW k \in Kind, NEW old \in SUBSET Waiting(k), NEW scheduled \in BOOLEAN,
           Replaces(k, old, scheduled), \A m \in Row : row[m].kind # k => run'[m] = run[m],
           NEW j, j = k \/ Carried(j)
    PROVE  Carried(j)'
<1>1. PICK n \in Row : /\ row[n].st = "none" /\ n \notin old /\ row'[n] = New(k, scheduled)
                       /\ \A m \in old : row'[m] = NoRow
                       /\ \A m \in Row \ (old \union {n}) : row'[m] = row[m]
  BY Replaced
<1>2. CASE j = k
  BY <1>1, <1>2 DEF Carried, New
<1>3. CASE j # k
  <2>1. PICK w \in Row : Carries(w, j)
    BY <1>3, CarriedByRow
  <2>2. row[w].kind = j /\ row[w].st # "none"
    BY <2>1 DEF Carries
  <2>3. w # n /\ w \notin old
    BY <1>1, <1>3, <2>2 DEF Waiting
  <2>4. row'[w] = row[w] /\ run'[w] = run[w]
    BY <1>1, <1>3, <2>2, <2>3
  <2> QED BY <2>1, <2>4, LeftAlone
<1> QED BY <1>2, <1>3

LEMMA GoesOnServer ==
    ASSUME TypeOK, RegisteredGoesOn, Server
    PROVE  RegisteredGoesOn'
<1> SUFFICES ASSUME NEW j \in profile'.kinds \ (todo' \union broken') PROVE Carried(j)'
  BY DEF RegisteredGoesOn
<1>1. CASE Start \/ RegistrationFails \/ Stop
  <2>1. /\ row' = row /\ run' = run /\ profile' = profile /\ todo' = todo /\ broken' = broken
    BY <1>1 DEF Start, RegistrationFails, Stop
  <2>2. PICK w \in Row : Carries(w, j)
    BY <2>1, CarriedByRow DEF RegisteredGoesOn
  <2> QED BY <2>1, <2>2, LeftAlone
<1>2. CASE ClearScheduled
  BY <1>2 DEF ClearScheduled
<1>3. ASSUME NEW k \in Kind, Register(k) PROVE Carried(j)'
  <2> DEFINE old == IF k \in Early THEN Obsolete(k) ELSE {}
  <2>1. old \in SUBSET Waiting(k)
    BY ObsoleteWaits
  <2>2. Replaces(k, old, k = "integrity")
    BY <1>3 DEF Register
  <2>3. profile' = profile /\ run' = run /\ todo' = todo \ {k} /\ broken' = broken \ {k}
    BY <1>3 DEF Register
  <2>4. j = k \/ Carried(j)
    BY <2>3 DEF RegisteredGoesOn
  <2> HIDE DEF old
  <2> QED BY <2>1, <2>2, <2>3, <2>4, ReplacedCarried
<1> QED BY <1>1, <1>2, <1>3 DEF Server

LEMMA GoesOnRuns ==
    ASSUME TypeOK, RegisteredGoesOn, NEW n \in Row, Runs(n)
    PROVE  RegisteredGoesOn'
<1> SUFFICES ASSUME NEW j \in profile'.kinds \ (todo' \union broken') PROVE Carried(j)'
  BY DEF RegisteredGoesOn
<1>0. /\ row \in [Row -> Records] /\ run \in [Row -> {"idle", "begun", "followed"}]
      /\ row[n].st # "none" => row[n].kind \in Kind
      /\ run[n] # "idle" => row[n].st \in {"active", "failed"}
  BY DEF TypeOK, Records
<1>1. CASE QueueNext(n)
  <2>1. /\ Obsolete(row[n].kind) \in SUBSET Waiting(row[n].kind)
        /\ row[n].kind \in Kind
    BY <1>0, <1>1, ObsoleteWaits DEF QueueNext
  <2>2. \A m \in Row : row[m].kind # row[n].kind => run'[m] = run[m]
    BY <1>0, <1>1 DEF QueueNext
  <2>3. Replaces(row[n].kind, Obsolete(row[n].kind), TRUE)
    BY <1>1 DEF QueueNext
  <2>4. j = row[n].kind \/ Carried(j)
    BY <1>1 DEF QueueNext, RegisteredGoesOn
  <2> QED BY <2>1, <2>2, <2>3, <2>4, ReplacedCarried
<1>2. CASE ~QueueNext(n)
  <2>1. /\ profile' = profile /\ todo' = todo /\ broken \subseteq broken'
    BY <1>2 DEF Runs, Claim, Complete, WorkFails, QueueingFails, DefersItself, Overrun, KillOverrun,
                Die, Return, Breaks
  <2>2. PICK w \in Row : Carries(w, j)
    BY <2>1, CarriedByRow DEF RegisteredGoesOn
  \* Nothing is done to another row, or to another run.
  <2>3. ASSUME w # n PROVE Carried(j)'
    <3>1. row'[w] = row[w] /\ run'[w] = run[w]
      BY <1>0, <1>2, <2>3 DEF Runs, Claim, Complete, WorkFails, QueueingFails, DefersItself, Overrun,
                              KillOverrun, Die, Return, Over
    <3> QED BY <2>2, <3>1, LeftAlone
  <2>4. ASSUME w = n PROVE Carried(j)'
    <3>0. Carries(n, j)
      BY <2>2, <2>4
    \* It was claimed or returned, or its worker died: it is still to be run.
    <3>1. CASE Claim(n) \/ DefersItself(n) \/ Die(n) \/ Return(n)
      <4>1. CASE Claim(n)
        <5>1. row'[n].kind = row[n].kind /\ row'[n].st = "active" /\ run'[n] = "begun"
          BY <1>0, <4>1 DEF Claim, Records
        <5> QED BY <3>0, <5>1 DEF Carries, Carried
      <4>2. CASE DefersItself(n) \/ Return(n)
        <5>1. CASE DefersItself(n)
          <6>1. row[n].st = "active" /\ run[n] = "followed"
            BY <5>1 DEF DefersItself
          <6> QED BY <3>0, <6>1 DEF Carries
        <5>2. CASE Return(n)
          <6>1. row'[n].kind = row[n].kind /\ row'[n].st = "queued"
            BY <1>0, <5>2 DEF Return, Records
          <6> QED BY <3>0, <6>1 DEF Carries, Carried
        <5> QED BY <4>2, <5>1, <5>2
      <4>3. CASE Die(n)
        <5>1. row'[n] = row[n] /\ row[n].st = "active" /\ run'[n] = "idle"
          BY <1>0, <4>3 DEF Die
        <5> QED BY <3>0, <5>1 DEF Carries, Carried
      <4> QED BY <3>1, <4>1, <4>2, <4>3
    \* Its run was failed: it had a successor or the task is broken.
    <3>2. CASE WorkFails(n) \/ QueueingFails(n) \/ Overrun(n)
      <4>1. Breaks(n) /\ run[n] # "idle"
        BY <3>2 DEF WorkFails, QueueingFails, Overrun, WorksWhen
      <4>2. row[n].st = "active" /\ run[n] = "begun" /\ row[n].kind = j
        BY <1>0, <3>0, <4>1 DEF Carries
      <4> QED BY <4>1, <4>2 DEF Breaks
    \* A run that is over does not carry its task.
    <3>3. CASE Complete(n) \/ KillOverrun(n)
      BY <1>0, <3>0, <3>3 DEF Complete, KillOverrun, Carries
    <3> QED BY <1>2, <3>1, <3>2, <3>3 DEF Runs
  <2> QED BY <2>3, <2>4
<1> QED BY <1>1, <1>2

LEMMA GoesOnInit == Init => RegisteredGoesOn
BY DEF Init, RegisteredGoesOn

LEMMA GoesOnNext == TypeOK /\ RegisteredGoesOn /\ [Next]_vars => RegisteredGoesOn'
<1> SUFFICES ASSUME TypeOK, RegisteredGoesOn, [Next]_vars PROVE RegisteredGoesOn'
  OBVIOUS
<1>1. CASE Server
  BY <1>1, GoesOnServer
<1>2. ASSUME NEW n \in Row, Runs(n) PROVE RegisteredGoesOn'
  BY <1>2, GoesOnRuns
<1>3. CASE UNCHANGED vars
  BY <1>3 DEF vars, RegisteredGoesOn, Carried
<1> QED BY <1>1, <1>2, <1>3 DEF Next

\* A registered task has, at any time, a row from which its next run will come, unless one
\* of its own runs was failed before it had queued another (schedule_next).
THEOREM NoneIsLost == Spec => []RegisteredGoesOn
BY TypeInit, TypeNext, GoesOnInit, GoesOnNext, PTL DEF Spec

----------------------------------------------------------------------------
(* The early ones *)

\* Where neither the queueing nor an overrun can fail a run, no early task is broken: such
\* a run queues its successor before it does anything else.
Unbroken == profile.faults \intersect {"queueing", "overrun"} = {} => broken \intersect Early = {}

LEMMA UnbrokenNext == TypeOK /\ Unbroken /\ [Next]_vars => Unbroken'
<1> SUFFICES ASSUME TypeOK, Unbroken, [Next]_vars,
                    profile'.faults \intersect {"queueing", "overrun"} = {}
             PROVE  broken' \intersect Early = {}
  BY DEF Unbroken
<1>0. profile' = profile
  BY DEF Next, Server, Runs, Start, ClearScheduled, Register, RegistrationFails, Stop, Claim,
         QueueNext, Complete, WorkFails, QueueingFails, DefersItself, Overrun, KillOverrun, Die,
         Return, vars
<1>1. ~Fault("queueing") /\ ~Fault("overrun") /\ broken \intersect Early = {}
  BY <1>0 DEF Fault, Unbroken
<1>2. CASE Server
  BY <1>1, <1>2 DEF Server, Start, ClearScheduled, Register, RegistrationFails, Stop
<1>3. ASSUME NEW n \in Row, Runs(n) PROVE broken' \intersect Early = {}
  <2>1. CASE WorkFails(n)
    <3>1. row[n].kind \in Early => run[n] # "begun"
      BY <2>1 DEF WorkFails, WorksWhen
    <3> QED BY <1>1, <2>1, <3>1 DEF WorkFails, Breaks
  <2>2. CASE ~WorkFails(n)
    <3>1. broken' \subseteq broken
      BY <1>1, <1>3, <2>2 DEF Runs, Claim, QueueNext, Complete, QueueingFails, DefersItself, Overrun,
                              KillOverrun, Die, Return
    <3> QED BY <1>1, <3>1
  <2> QED BY <2>1, <2>2
<1>4. CASE UNCHANGED vars
  BY <1>1, <1>4 DEF vars
<1> QED BY <1>2, <1>3, <1>4 DEF Next

LEMMA EarlyFromUnbroken == RegisteredGoesOn /\ Unbroken => EarlyOutliveTheirWork
BY DEF RegisteredGoesOn, Unbroken, EarlyOutliveTheirWork

\* Maintenance, the integrity checks and the sealing of the audit log go on whatever their
\* work meets: they queue their successor first (maintenance.run, integrity.check,
\* audit.seal).
THEOREM EarlyGoOn == Spec => []EarlyOutliveTheirWork
<1>1. Init => Unbroken
  BY DEF Init, Unbroken
<1>2. Spec => []Unbroken
  BY <1>1, TypeInit, TypeNext, UnbrokenNext, PTL DEF Spec
<1> QED BY <1>2, NoneIsLost, EarlyFromUnbroken, PTL

----------------------------------------------------------------------------
(* One of each is scheduled *)

\* It waits for its time, and nobody has been at it.
Fresh(n, k) ==
    row[n].st = "queued" /\ row[n].kind = k /\ row[n].scheduled /\ ~row[n].again

LEMMA OneFresh == OneScheduled <=> \A k \in Kind : \A m, n \in Row : Fresh(m, k) /\ Fresh(n, k) => m = n
BY DEF OneScheduled, Scheduled, Waiting, Fresh

\* A step that makes no row fresh leaves one at most.
LEMMA NoneFresher ==
    ASSUME OneScheduled, \A k \in Kind : \A m \in Row : Fresh(m, k)' => Fresh(m, k)
    PROVE  OneScheduled'
<1>1. \A k \in Kind : \A m, n \in Row : Fresh(m, k)' /\ Fresh(n, k)' => m = n
  BY OneFresh
<1> QED BY <1>1 DEF OneScheduled, Scheduled, Waiting, Fresh

\* A replacement adds one that is scheduled only where it deletes those that were.
LEMMA ReplacedFresh ==
    ASSUME TypeOK, OneScheduled,
           NEW k \in Kind, NEW old \in SUBSET Waiting(k), NEW scheduled \in BOOLEAN,
           Replaces(k, old, scheduled), scheduled => Scheduled(Waiting(k)) \subseteq old
    PROVE  OneScheduled'
<1>1. PICK n \in Row : /\ row[n].st = "none" /\ n \notin old /\ row'[n] = New(k, scheduled)
                       /\ \A m \in old : row'[m] = NoRow
                       /\ \A m \in Row \ (old \union {n}) : row'[m] = row[m]
  BY Replaced
<1>2. \A j \in Kind : \A m \in Row : Fresh(m, j)' =>
          \/ Fresh(m, j) /\ m \notin old
          \/ m = n /\ j = k /\ scheduled
  <2> SUFFICES ASSUME NEW j \in Kind, NEW m \in Row, Fresh(m, j)'
               PROVE  (Fresh(m, j) /\ m \notin old) \/ (m = n /\ j = k /\ scheduled)
    OBVIOUS
  <2>1. CASE m = n
    BY <1>1, <2>1 DEF Fresh, New
  <2>2. CASE m \in old
    BY <1>1, <2>2 DEF Fresh, NoRow
  <2>3. CASE m \notin old \union {n}
    BY <1>1, <2>3 DEF Fresh
  <2> QED BY <2>1, <2>2, <2>3
<1>3. \A m \in Row : Fresh(m, k) /\ scheduled => m \in old
  BY DEF Fresh, Scheduled, Waiting
<1>4. \A j \in Kind : \A l, m \in Row : Fresh(l, j)' /\ Fresh(m, j)' => l = m
  BY <1>2, <1>3, OneFresh
<1> QED BY <1>4 DEF OneScheduled, Scheduled, Waiting, Fresh

LEMMA OneScheduledNext == TypeOK /\ OneScheduled /\ [Next]_vars => OneScheduled'
<1> SUFFICES ASSUME TypeOK, OneScheduled, [Next]_vars PROVE OneScheduled'
  OBVIOUS
<1>0. row \in [Row -> Records]
  BY DEF TypeOK, Records
<1>1. ASSUME NEW k \in Kind, Register(k) PROVE OneScheduled'
  <2> DEFINE old == IF k \in Early THEN Obsolete(k) ELSE {}
  <2>1. old \in SUBSET Waiting(k)
    BY ObsoleteWaits
  <2>2. k = "integrity" => Scheduled(Waiting(k)) \subseteq old
    BY ObsoleteWaits DEF Early
  <2>3. Replaces(k, old, k = "integrity")
    BY <1>1 DEF Register
  <2> HIDE DEF old
  <2> QED BY <2>1, <2>2, <2>3, ReplacedFresh
<1>2. ASSUME NEW n \in Row, QueueNext(n) PROVE OneScheduled'
  <2>1. row[n].kind \in Kind
    BY <1>2 DEF QueueNext, TypeOK
  <2>2. Replaces(row[n].kind, Obsolete(row[n].kind), TRUE)
    BY <1>2 DEF QueueNext
  <2> QED BY <2>1, <2>2, ObsoleteWaits, ReplacedFresh
<1>3. ASSUME Server, ~\E k \in Kind : Register(k) PROVE OneScheduled'
  <2>1. \A m \in Row : row'[m] = row[m] \/ row'[m] = NoRow
    BY <1>0, <1>3 DEF Server, Start, ClearScheduled, RegistrationFails, Stop
  <2>2. \A k \in Kind : \A m \in Row : Fresh(m, k)' => Fresh(m, k)
    BY <2>1 DEF Fresh, NoRow
  <2> QED BY <2>2, NoneFresher
<1>4. ASSUME NEW n \in Row, Runs(n), ~QueueNext(n) PROVE OneScheduled'
  <2>1. \A m \in Row \ {n} : row'[m] = row[m]
    BY <1>0, <1>4 DEF Runs, Claim, Complete, WorkFails, QueueingFails, DefersItself, Overrun,
                      KillOverrun, Die, Return, Over
  <2>2. row'[n] = row[n] \/ row'[n] = NoRow \/ row'[n].st # "queued" \/ row'[n].again
    <3>1. CASE Claim(n) \/ Overrun(n)
      <4>1. row'[n].st # "queued"
        BY <1>0, <3>1 DEF Claim, Overrun, Records
      <4> QED BY <4>1
    <3>2. CASE DefersItself(n) \/ Return(n)
      <4>1. row'[n].again = TRUE
        <5>1. CASE DefersItself(n)
          BY <1>0, <5>1 DEF DefersItself, Records
        <5>2. CASE Return(n)
          BY <1>0, <5>2 DEF Return, Records
        <5> QED BY <3>2, <5>1, <5>2
      <4> QED BY <4>1
    <3>3. CASE Complete(n) \/ WorkFails(n) \/ QueueingFails(n) \/ KillOverrun(n)
      BY <1>0, <3>3 DEF Complete, WorkFails, QueueingFails, KillOverrun, Over
    <3>4. CASE Die(n)
      BY <3>4 DEF Die
    <3> QED BY <1>4, <3>1, <3>2, <3>3, <3>4 DEF Runs
  <2>3. \A k \in Kind : \A m \in Row : Fresh(m, k)' => Fresh(m, k)
    BY <2>1, <2>2 DEF Fresh, NoRow
  <2> QED BY <2>3, NoneFresher
<1>5. CASE UNCHANGED vars
  <2>1. \A k \in Kind : \A m \in Row : Fresh(m, k)' => Fresh(m, k)
    BY <1>5 DEF vars, Fresh
  <2> QED BY <2>1, NoneFresher
<1> QED BY <1>1, <1>2, <1>3, <1>4, <1>5 DEF Next, Server

\* Of the runs of a recurring task that are scheduled and were not returned to the queue
\* there is one: restarts and runs that race each other add no second
\* (_clear_existing_scheduled).
THEOREM OnlyOneScheduled == Spec => []OneScheduled
<1>1. Init => OneScheduled
  BY DEF Init, NoRow, OneScheduled, Scheduled, Waiting
<1> QED BY <1>1, TypeInit, TypeNext, OneScheduledNext, PTL DEF Spec

=============================================================================
