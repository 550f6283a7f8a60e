-------------------------- MODULE Revisions_proofs -------------------------
(***************************************************************************)
(* Proofs about Revisions, for any number of requests, voters, paths,      *)
(* contents and revisions.                                                 *)
(***************************************************************************)
EXTENDS Revisions, TLAPS

----------------------------------------------------------------------------
(* The inductive invariant *)

\* A request is served by one process at a time: while it runs no worker has its
\* quarantine, which it has yet to create or to enqueue.
OneProcess ==
    \A r \in Request : pc[r] # "idle" =>
        /\ task[r] = "none" /\ worker[r] = NoWorker
        /\ quar[r].status = (IF pc[r] = "staged" THEN "STAGING" ELSE "none")

\* A worker that has extracted the archives has a PENDING row, although it never
\* looks at the row again: this is what keeps a promotion out of a vote.
WorkerHasPending ==
    \A r \in Request :
        worker[r].at \in {"extracted", "promoted", "checked"} => quar[r].status = "PENDING"

\* The revisions that processes refer to exist.
RefersToRevisions ==
    \A r \in Request : sub[r].old <= latest /\ quar[r].prior <= latest

\* The attestable data of a revision names its archives, and only archives
\* that were extracted.
KnownExtracted ==
    \A k \in 1 .. latest : Archives(dir[k]) \subseteq known[k] /\ known[k] \subseteq extracted

\* What is in quarantine is extracted, or will be before it is promoted.
QuarantineExtracted ==
    \A r \in Request :
        /\ Archives(quar[r].tree) \subseteq quar[r].archives \union extracted
        /\ worker[r].at = "extracted" => quar[r].archives \subseteq extracted

IInv ==
    /\ TypeOK /\ VotedIsLatest /\ QuarantineInDraft /\ DirectoriesMatchRows
    /\ OneProcess /\ WorkerHasPending /\ RefersToRevisions
    /\ KnownExtracted /\ QuarantineExtracted

----------------------------------------------------------------------------
(* The operators on trees *)

\* The files and the attestable data of a revision that exists, or of none, are typed.
LEMMA TreeOfType ==
    ASSUME TypeOK, DirectoriesMatchRows, NEW k \in 0 .. latest
    PROVE  TreeOf(k) \in Tree /\ KnownAt(k) \in SUBSET Archive
<1>1. Empty \in Tree
  BY DEF Empty, Tree
<1>2. CASE k = 0
  BY <1>1, <1>2 DEF TreeOf, KnownAt
<1>3. CASE k # 0
  <2>1. k \in Number /\ k <= latest
    BY <1>3, BoundAssumption DEF TypeOK, Number
  <2>2. dir[k] \in Tree /\ known[k] \in SUBSET Archive
    BY <2>1 DEF TypeOK, DirectoriesMatchRows
  <2> QED BY <1>3, <2>2 DEF TreeOf, KnownAt
<1> QED BY <1>2, <1>3

\* A revision holds only archives that were extracted.
LEMMA TreeOfExtracted ==
    ASSUME TypeOK, KnownExtracted, NEW k \in 0 .. latest
    PROVE  Archives(TreeOf(k)) \subseteq extracted /\ KnownAt(k) \subseteq extracted
<1>1. CASE k = 0
  <2>1. \A x \in Path : Empty[x] = Absent
    BY DEF Empty
  <2>2. Archives(Empty) = {}
    BY <2>1, ContentAssumption DEF Archives
  <2> QED BY <1>1, <2>2 DEF TreeOf, KnownAt
<1>2. CASE k # 0
  BY <1>2 DEF TreeOf, KnownAt, KnownExtracted, TypeOK
<1> QED BY <1>1, <1>2

\* Every file of a merged tree comes from one of the two trees it was made of.
LEMMA MergeFacts ==
    ASSUME NEW base, NEW prior \in Tree, NEW new \in Tree
    PROVE  /\ Merge(base, prior, new) \in Tree
           /\ Archives(Merge(base, prior, new)) \subseteq Archives(prior) \union Archives(new)
<1>1. Merge(base, prior, new) \in Tree
  BY DEF Merge, Tree
<1>2. \A x \in Path : Merge(base, prior, new)[x] \in {prior[x], new[x]}
  BY DEF Merge
<1> QED BY <1>1, <1>2 DEF Archives

\* What _lock_and_merge returns is a tree whose archives are the writer's own or
\* extracted, with the attestable data of a revision.
LEMMA MergedFacts ==
    ASSUME TypeOK, DirectoriesMatchRows, KnownExtracted,
           NEW mergeEnabled \in BOOLEAN, NEW old \in 0 .. latest, NEW new \in Tree
    PROVE  LET m == Merged(mergeEnabled, old, new) IN
           /\ m.tree \in Tree
           /\ m.previous \in SUBSET Archive
           /\ m.previous \subseteq extracted
           /\ Archives(m.tree) \subseteq Archives(new) \union extracted
<1> DEFINE m == Merged(mergeEnabled, old, new)
<1>1. latest \in 0 .. latest
  BY DEF TypeOK
<1>2. TreeOf(latest) \in Tree /\ KnownAt(latest) \in SUBSET Archive /\ KnownAt(old) \in SUBSET Archive
  BY <1>1, TreeOfType
<1>3. /\ Archives(TreeOf(latest)) \subseteq extracted
      /\ KnownAt(latest) \subseteq extracted /\ KnownAt(old) \subseteq extracted
  BY <1>1, TreeOfExtracted
<1>4. CASE mergeEnabled /\ old # 0 /\ latest # old
  <2>1. m.tree = Merge(TreeOf(old), TreeOf(latest), new) /\ m.previous = KnownAt(latest)
    BY <1>4 DEF Merged
  <2> QED BY <1>2, <1>3, <2>1, MergeFacts
<1>5. CASE ~(mergeEnabled /\ old # 0 /\ latest # old)
  <2>1. m.tree = new /\ m.previous = KnownAt(old)
    BY <1>5 DEF Merged
  <2> QED BY <1>2, <1>3, <2>1
<1> QED BY <1>4, <1>5

----------------------------------------------------------------------------
(* The types of the records that requests and workers hold *)

\* The records of a process at rest have their types.
LEMMA RestTypes ==
    /\ NoSub \in Submission /\ NoWorker \in WorkerState
    /\ NoQuar \in QuarantineRow /\ FailedQuar \in QuarantineRow
<1>1. Empty \in Tree
  BY DEF Empty, Tree
<1>2. 0 \in 0 .. MaxRevision
  BY BoundAssumption
<1>3. NoSub \in Submission /\ NoWorker \in WorkerState
  BY <1>1, <1>2 DEF NoSub, Submission, NoWorker, WorkerState
<1>4. NoQuar \in QuarantineRow /\ FailedQuar \in QuarantineRow
  BY <1>1, <1>2 DEF NoQuar, FailedQuar, QuarantineRow
<1> QED BY <1>3, <1>4

\* So do the records that the steps make of them.
LEMMA UpdateTypes ==
    /\ \A w \in WorkerState :
        \A at \in {"none", "started", "extracted", "promoted", "checked", "done"} :
            [w EXCEPT !.at = at] \in WorkerState
    /\ \A q \in QuarantineRow :
        /\ [q EXCEPT !.status = "PENDING"] \in QuarantineRow
        /\ \A b \in BOOLEAN : [q EXCEPT !.onDisk = b] \in QuarantineRow
        /\ \A t \in Tree : [q EXCEPT !.tree = t] \in QuarantineRow
    /\ \A k \in 0 .. MaxRevision : [NoSub EXCEPT !.old = k] \in Submission
<1>1. ASSUME NEW w \in WorkerState,
             NEW at \in {"none", "started", "extracted", "promoted", "checked", "done"}
      PROVE  [w EXCEPT !.at = at] \in WorkerState
  BY DEF WorkerState
<1>2. ASSUME NEW q \in QuarantineRow
      PROVE  /\ [q EXCEPT !.status = "PENDING"] \in QuarantineRow
             /\ \A b \in BOOLEAN : [q EXCEPT !.onDisk = b] \in QuarantineRow
             /\ \A t \in Tree : [q EXCEPT !.tree = t] \in QuarantineRow
  BY DEF QuarantineRow
<1>3. ASSUME NEW k \in 0 .. MaxRevision
      PROVE  [NoSub EXCEPT !.old = k] \in Submission
  BY RestTypes DEF Submission
<1> QED BY <1>1, <1>2, <1>3

\* The first revision, which is empty, needs no quarantine.
LEMMA ArchivesOfEmpty == Archives(Empty) = {}
  BY ContentAssumption DEF Archives, Empty

\* What a request and its quarantine refer to.
LEMMA RecordFacts ==
    ASSUME IInv, NEW r \in Request
    PROVE  /\ sub[r] \in Submission /\ sub[r].old \in 0 .. latest /\ sub[r].new \in Tree
           /\ quar[r] \in QuarantineRow /\ quar[r].prior \in 0 .. latest
           /\ quar[r].tree \in Tree /\ quar[r].archives \subseteq Archive
           /\ worker[r] \in WorkerState /\ worker[r].rev \in 0 .. MaxRevision
<1>1. sub[r] \in Submission /\ quar[r] \in QuarantineRow /\ worker[r] \in WorkerState
  BY DEF IInv, TypeOK
<1>2. /\ sub[r].old \in 0 .. MaxRevision /\ sub[r].new \in Tree
      /\ quar[r].prior \in 0 .. MaxRevision /\ quar[r].tree \in Tree
      /\ quar[r].archives \subseteq Archive /\ worker[r].rev \in 0 .. MaxRevision
  BY <1>1 DEF Submission, QuarantineRow, WorkerState
<1>3. sub[r].old \in 0 .. latest /\ quar[r].prior \in 0 .. latest
  BY <1>2, BoundAssumption DEF IInv, TypeOK, RefersToRevisions
<1> QED BY <1>1, <1>2, <1>3

\* What the second session of a request commits.
LEMMA MergedSubFacts ==
    ASSUME IInv, NEW r \in Request
    PROVE  /\ MergedSub(r).tree \in Tree /\ MergedSub(r).previous \in SUBSET Archive
           /\ MergedSub(r).previous \subseteq extracted
<1>1. (sub[r].kind # "restore") \in BOOLEAN
  OBVIOUS
<1> QED BY <1>1, RecordFacts, MergedFacts DEF IInv, MergedSub

\* What a promotion commits.
LEMMA MergedQuarFacts ==
    ASSUME IInv, NEW r \in Request
    PROVE  /\ MergedQuar(r).tree \in Tree /\ MergedQuar(r).previous \in SUBSET Archive
           /\ MergedQuar(r).previous \subseteq extracted
           /\ Archives(MergedQuar(r).tree) \subseteq Archives(quar[r].tree) \union extracted
<1> QED BY RecordFacts, MergedFacts DEF IInv, MergedQuar

\* A commit of extracted archives gives the next number a directory and attestable
\* data that name its archives.
LEMMA NewRevisionFacts ==
    ASSUME IInv, NEW m, m.tree \in Tree, m.previous \in SUBSET Archive,
           m.previous \subseteq extracted, Archives(m.tree) \subseteq extracted,
           NewRevision(m), UNCHANGED extracted
    PROVE  /\ latest' = latest + 1 /\ latest' \in Number
           /\ dir' \in [Number -> Tree \union {NoDir}] /\ known' \in [Number -> SUBSET Archive]
           /\ DirectoriesMatchRows' /\ KnownExtracted'
<1>1. latest \in Nat /\ latest' = latest + 1 /\ latest' \in Number
  BY BoundAssumption DEF IInv, TypeOK, NewRevision, Number
<1>2. /\ dir' = [dir EXCEPT ![latest'] = m.tree]
      /\ known' = [known EXCEPT ![latest'] = m.previous \union Archives(m.tree)]
  BY DEF NewRevision
<1>3. Archives(m.tree) \subseteq Archive
  BY DEF Archives
<1>4. dir' \in [Number -> Tree \union {NoDir}] /\ known' \in [Number -> SUBSET Archive]
  BY <1>1, <1>2, <1>3 DEF IInv, TypeOK
<1>5. DirectoriesMatchRows'
  BY <1>1, <1>2, NoDirAssumption DEF IInv, TypeOK, DirectoriesMatchRows, Number
<1>6. ASSUME NEW k \in 1 .. latest'
      PROVE  Archives(dir'[k]) \subseteq known'[k] /\ known'[k] \subseteq extracted'
  <2>1. CASE k = latest'
    BY <1>1, <1>2, <2>1 DEF IInv, TypeOK
  <2>2. CASE k # latest'
    <3>1. k \in 1 .. latest /\ k \in Number
      BY <1>1, <2>2, BoundAssumption DEF Number
    <3>2. dir'[k] = dir[k] /\ known'[k] = known[k]
      BY <1>2, <2>2, <3>1 DEF IInv, TypeOK
    <3> QED BY <3>1, <3>2 DEF IInv, KnownExtracted
  <2> QED BY <2>1, <2>2
<1> QED BY <1>1, <1>4, <1>5, <1>6 DEF KnownExtracted

----------------------------------------------------------------------------
(* The invariant is inductive *)

\* A release without revisions satisfies the invariant.
LEMMA IInvInit == Init => IInv
<1> SUFFICES ASSUME Init PROVE IInv
  OBVIOUS
<1> USE DEF Init
<1>1. TypeOK
  <2>1. ASSUME NEW r \in Request
        PROVE  (IF r = Starter THEN [NoSub EXCEPT !.kind = "edit"] ELSE NoSub) \in Submission
    BY RestTypes DEF Submission
  <2> QED BY <2>1, RestTypes, BoundAssumption DEF TypeOK, Phases
<1>2. VotedIsLatest /\ QuarantineInDraft /\ DirectoriesMatchRows
  BY BoundAssumption DEF VotedIsLatest, QuarantineInDraft, DirectoriesMatchRows, Number
<1>3. OneProcess /\ WorkerHasPending /\ RefersToRevisions
  BY DEF OneProcess, WorkerHasPending, RefersToRevisions, NoWorker, NoQuar, NoSub
<1>4. KnownExtracted
  BY DEF KnownExtracted
<1>5. QuarantineExtracted
  BY ArchivesOfEmpty DEF QuarantineExtracted, NoQuar, NoWorker
<1> QED BY <1>1, <1>2, <1>3, <1>4, <1>5 DEF IInv

\* The first session of a request writes nothing that others read.
LEMMA PrepareKeepsIInv ==
    ASSUME IInv, NEW r \in Request,
           NEW kind \in {"edit", "exact", "source", "restore"},
           NEW from \in 0 .. latest, NEW new \in Tree, Prepare(r, kind, from, new)
    PROVE  IInv'
<1> DEFINE s == [kind |-> kind, old |-> from, new |-> new]
<1>1. /\ pc[r] = "idle" /\ quar[r].status = "none" /\ task[r] = "none" /\ worker[r] = NoWorker
      /\ pc' = [pc EXCEPT ![r] = "ready"] /\ sub' = [sub EXCEPT ![r] = s]
      /\ UNCHANGED <<phase, voted, latest, checks, dir, known, quar, task, worker, extracted,
                     starting>>
  BY DEF Prepare, db, files, quarantine
<1>2. TypeOK'
  <2>1. s \in Submission
    <3>1. from \in 0 .. MaxRevision
      BY BoundAssumption DEF IInv, TypeOK
    <3> QED BY <3>1 DEF Submission
  <2> HIDE DEF s
  <2> QED BY <1>1, <2>1 DEF IInv, TypeOK
<1>3. VotedIsLatest' /\ QuarantineInDraft' /\ DirectoriesMatchRows'
  BY <1>1 DEF IInv, VotedIsLatest, QuarantineInDraft, DirectoriesMatchRows
<1>4. OneProcess' /\ WorkerHasPending' /\ RefersToRevisions'
  BY <1>1 DEF IInv, TypeOK, OneProcess, WorkerHasPending, RefersToRevisions
<1>5. KnownExtracted' /\ QuarantineExtracted'
  BY <1>1 DEF IInv, KnownExtracted, QuarantineExtracted
<1> QED BY <1>2, <1>3, <1>4, <1>5 DEF IInv

\* Every kind of submission begins with such a session.
LEMMA BeginKeepsIInv ==
    ASSUME IInv, NEW r \in Request,
           BeginEdit(r) \/ BeginExact(r) \/ BeginSource(r) \/ BeginRestore(r)
    PROVE  IInv'
<1>1. latest \in 0 .. latest
  BY DEF IInv, TypeOK
<1>2. \A k \in 0 .. latest : TreeOf(k) \in Tree
  BY TreeOfType DEF IInv
<1>3. \A t \in Tree : Edited(t) \subseteq Tree
  BY DEF Edited, Tree
<1>4. ASSUME BeginEdit(r) \/ BeginExact(r) PROVE IInv'
  <2>1. PICK new \in Edited(TreeOf(latest)) :
            Prepare(r, "edit", latest, new) \/ Prepare(r, "exact", latest, new)
    BY <1>4 DEF BeginEdit, BeginExact
  <2>2. new \in Tree
    BY <1>1, <1>2, <1>3
  <2> QED BY <1>1, <2>1, <2>2, PrepareKeepsIInv
<1>5. CASE BeginSource(r)
  BY <1>1, <1>2, <1>5, PrepareKeepsIInv DEF BeginSource
<1>6. CASE BeginRestore(r)
  <2>1. PICK k \in 1 .. latest : Prepare(r, "restore", k, TreeOf(k))
    BY <1>6 DEF BeginRestore
  <2>2. k \in 0 .. latest
    BY DEF IInv, TypeOK
  <2> QED BY <1>2, <2>1, <2>2, PrepareKeepsIInv
<1> QED BY <1>4, <1>5, <1>6

\* Nor does any later step of a request, or its death, break the invariant.
LEMMA RequestKeepsIInv ==
    ASSUME IInv, NEW r \in Request, RequestStep(r)
    PROVE  IInv'
<1> USE BoundAssumption, RestTypes DEF Number
<1>1. CASE Commit(r)
  <2>1. UNCHANGED extracted /\ UNCHANGED <<phase, voted, checks, quar, task, worker, starting>>
    BY <1>1 DEF Commit, quarantine
  <2>2. phase = "draft" /\ pc[r] = "ready" /\ NewRevision(MergedSub(r))
    BY <1>1 DEF Commit, Stale
  <2>3. Archives(MergedSub(r).tree) \subseteq extracted
    BY <1>1, MergedSubFacts DEF Commit, NeedsQuarantine
  <2>4. /\ latest' = latest + 1 /\ latest' \in Number
        /\ dir' \in [Number -> Tree \union {NoDir}] /\ known' \in [Number -> SUBSET Archive]
        /\ DirectoriesMatchRows' /\ KnownExtracted'
    BY <2>1, <2>2, <2>3, MergedSubFacts, NewRevisionFacts
  <2>5. /\ pc' = [pc EXCEPT ![r] = "unchecked"]
        /\ sub' = [sub EXCEPT ![r] = [NoSub EXCEPT !.old = latest']]
    BY <1>1 DEF Commit
  <2>6. TypeOK'
    <3>1. [NoSub EXCEPT !.old = latest'] \in Submission
      BY <2>4, UpdateTypes
    <3> QED BY <2>1, <2>4, <2>5, <3>1 DEF IInv, TypeOK
  <2>7. VotedIsLatest' /\ QuarantineInDraft' /\ DirectoriesMatchRows'
    BY <2>1, <2>2, <2>4 DEF IInv, VotedIsLatest, QuarantineInDraft
  <2>8. OneProcess' /\ WorkerHasPending' /\ RefersToRevisions'
    <3>1. OneProcess' /\ WorkerHasPending'
      BY <2>1, <2>2, <2>5 DEF IInv, TypeOK, OneProcess, WorkerHasPending
    <3>2. sub'[r].old = latest' /\ \A q \in Request \ {r} : sub'[q] = sub[q]
      BY <2>5 DEF IInv, TypeOK, NoSub
    <3>3. latest \in Nat /\ \A q \in Request : /\ sub[q].old <= latest /\ quar[q].prior <= latest
                                              /\ sub[q].old \in Nat /\ quar[q].prior \in Nat
      BY RecordFacts DEF IInv, TypeOK, RefersToRevisions
    <3>4. RefersToRevisions'
      BY <2>1, <2>4, <3>2, <3>3 DEF RefersToRevisions
    <3> QED BY <3>1, <3>4
  <2>9. KnownExtracted' /\ QuarantineExtracted'
    BY <2>1, <2>4 DEF IInv, QuarantineExtracted
  <2> QED BY <2>6, <2>7, <2>8, <2>9 DEF IInv
<1>2. CASE QueueChecks(r)
  <2>1. TypeOK'
    BY <1>2 DEF IInv, TypeOK, QueueChecks, files, quarantine
  <2>2. VotedIsLatest' /\ QuarantineInDraft' /\ DirectoriesMatchRows'
    BY <1>2
       DEF IInv, VotedIsLatest, QuarantineInDraft, DirectoriesMatchRows, QueueChecks,
           files, quarantine
  <2>3. OneProcess' /\ WorkerHasPending' /\ RefersToRevisions'
    BY <1>2
       DEF IInv, TypeOK, OneProcess, WorkerHasPending, RefersToRevisions, QueueChecks,
           files, quarantine, NoSub
  <2>4. KnownExtracted' /\ QuarantineExtracted'
    BY <1>2 DEF IInv, KnownExtracted, QuarantineExtracted, QueueChecks, files, quarantine
  <2> QED BY <2>1, <2>2, <2>3, <2>4 DEF IInv
<1>3. CASE Quarantine(r)
  <2> DEFINE m == MergedSub(r)
             row == [status |-> "STAGING", prior |-> latest, tree |-> m.tree,
                     changed |-> {x \in Path : m.tree[x] # TreeOf(latest)[x]},
                     archives |-> Archives(m.tree) \ m.previous, onDisk |-> TRUE]
  <2>1. /\ phase = "draft" /\ pc[r] = "ready"
        /\ quar' = [quar EXCEPT ![r] = row]
        /\ pc' = [pc EXCEPT ![r] = "staged"] /\ sub' = [sub EXCEPT ![r] = NoSub]
        /\ UNCHANGED <<phase, voted, latest, checks, dir, known, task, worker, extracted, starting>>
    BY <1>3 DEF Quarantine, Stale, db, files
  <2>2. m.tree \in Tree /\ m.previous \subseteq extracted
    BY MergedSubFacts
  <2>3. TypeOK'
    <3>1. row \in QuarantineRow
      <4>1. row.archives \subseteq Archive
        BY DEF Archives
      <4>2. latest \in 0 .. MaxRevision
        BY DEF IInv, TypeOK
      <4> QED BY <2>2, <4>1, <4>2 DEF QuarantineRow
    <3> HIDE DEF row
    <3> QED BY <2>1, <3>1 DEF IInv, TypeOK
  <2>4. VotedIsLatest' /\ QuarantineInDraft' /\ DirectoriesMatchRows'
    <3> HIDE DEF m
    <3> QED BY <2>1 DEF IInv, TypeOK, VotedIsLatest, QuarantineInDraft, DirectoriesMatchRows
  <2>5. OneProcess' /\ WorkerHasPending' /\ RefersToRevisions'
    <3> HIDE DEF m
    <3> QED BY <2>1 DEF IInv, TypeOK, OneProcess, WorkerHasPending, RefersToRevisions,
                        NoSub, NoWorker
  <2>6. KnownExtracted' /\ QuarantineExtracted'
    <3> HIDE DEF m
    <3>1. quar'[r] = row
      BY <2>1 DEF IInv, TypeOK
    <3>2. Archives(quar'[r].tree) \subseteq quar'[r].archives \union extracted
      BY <2>2, <3>1
    <3>3. worker'[r].at # "extracted"
      BY <2>1 DEF IInv, OneProcess, NoWorker
    <3>4. \A q \in Request \ {r} : quar'[q] = quar[q]
      BY <2>1 DEF IInv, TypeOK
    <3> QED BY <2>1, <3>2, <3>3, <3>4 DEF IInv, KnownExtracted, QuarantineExtracted
  <2> QED BY <2>3, <2>4, <2>5, <2>6 DEF IInv
<1>4. CASE Enqueue(r)
  <2>1. TypeOK'
    BY <1>4, UpdateTypes DEF IInv, TypeOK, Enqueue, db, files
  <2>2. VotedIsLatest' /\ QuarantineInDraft' /\ DirectoriesMatchRows'
    <3>1. quar[r].status = "STAGING"
      BY <1>4 DEF IInv, OneProcess, Enqueue
    <3>2. phase = "draft"
      BY <3>1 DEF IInv, QuarantineInDraft, Unfinished
    <3> QED BY <1>4, <3>2
       DEF IInv, TypeOK, VotedIsLatest, QuarantineInDraft, DirectoriesMatchRows,
                              Enqueue, db, files
  <2>3. OneProcess' /\ WorkerHasPending' /\ RefersToRevisions'
    BY <1>4
       DEF IInv, TypeOK, OneProcess, WorkerHasPending, RefersToRevisions, Enqueue, db, files
  <2>4. KnownExtracted' /\ QuarantineExtracted'
    BY <1>4 DEF IInv, TypeOK, KnownExtracted, QuarantineExtracted, Enqueue, db, files
  <2> QED BY <2>1, <2>2, <2>3, <2>4 DEF IInv
<1>5. CASE Fail(r)
  <2>1. TypeOK'
    BY <1>5 DEF IInv, TypeOK, Fail, db, files, quarantine
  <2>2. VotedIsLatest' /\ QuarantineInDraft' /\ DirectoriesMatchRows'
    BY <1>5
       DEF IInv, VotedIsLatest, QuarantineInDraft, DirectoriesMatchRows, Fail, db, files,
           quarantine
  <2>3. OneProcess' /\ WorkerHasPending' /\ RefersToRevisions'
    BY <1>5
       DEF IInv, TypeOK, OneProcess, WorkerHasPending, RefersToRevisions, Fail, db, files,
           quarantine, NoSub
  <2>4. KnownExtracted' /\ QuarantineExtracted'
    BY <1>5 DEF IInv, KnownExtracted, QuarantineExtracted, Fail, db, files, quarantine
  <2> QED BY <2>1, <2>2, <2>3, <2>4 DEF IInv
<1>6. CASE Crash(r)
  <2>1. TypeOK'
    BY <1>6 DEF IInv, TypeOK, Crash, db, files, quarantine
  <2>2. VotedIsLatest' /\ QuarantineInDraft' /\ DirectoriesMatchRows'
    BY <1>6
       DEF IInv, VotedIsLatest, QuarantineInDraft, DirectoriesMatchRows, Crash, db, files,
           quarantine
  <2>3. OneProcess' /\ WorkerHasPending' /\ RefersToRevisions'
    BY <1>6
       DEF IInv, TypeOK, OneProcess, WorkerHasPending, RefersToRevisions, Crash, db, files,
           quarantine, NoSub
  <2>4. KnownExtracted' /\ QuarantineExtracted'
    BY <1>6 DEF IInv, KnownExtracted, QuarantineExtracted, Crash, db, files, quarantine
  <2> QED BY <2>1, <2>2, <2>3, <2>4 DEF IInv
<1>7. CASE CrashAfterRename(r)
  <2>1. TypeOK'
    BY <1>7, MergedSubFacts DEF IInv, TypeOK, CrashAfterRename, db, quarantine
  <2>2. VotedIsLatest' /\ QuarantineInDraft' /\ DirectoriesMatchRows'
    BY <1>7
       DEF IInv, TypeOK, VotedIsLatest, QuarantineInDraft, DirectoriesMatchRows,
           CrashAfterRename, db, quarantine
  <2>3. OneProcess' /\ WorkerHasPending' /\ RefersToRevisions'
    BY <1>7
       DEF IInv, TypeOK, OneProcess, WorkerHasPending, RefersToRevisions, CrashAfterRename,
           db, quarantine, NoSub
  <2>4. KnownExtracted' /\ QuarantineExtracted'
    BY <1>7
       DEF IInv, TypeOK, KnownExtracted, QuarantineExtracted, CrashAfterRename, db,
           quarantine
  <2> QED BY <2>1, <2>2, <2>3, <2>4 DEF IInv
<1>8. CASE ClearQuarantine(r)
  <2>1. TypeOK'
    BY <1>8, ArchivesOfEmpty DEF IInv, TypeOK, ClearQuarantine, db, files
  <2>2. VotedIsLatest' /\ QuarantineInDraft' /\ DirectoriesMatchRows'
    BY <1>8, ArchivesOfEmpty
       DEF IInv, TypeOK, VotedIsLatest, QuarantineInDraft, DirectoriesMatchRows,
           ClearQuarantine, db, files, Unfinished, NoQuar
  <2>3. OneProcess' /\ WorkerHasPending' /\ RefersToRevisions'
    BY <1>8, ArchivesOfEmpty
       DEF IInv, TypeOK, OneProcess, WorkerHasPending, RefersToRevisions, ClearQuarantine,
           db, files, NoQuar
  <2>4. KnownExtracted' /\ QuarantineExtracted'
    BY <1>8, ArchivesOfEmpty
       DEF IInv, TypeOK, KnownExtracted, QuarantineExtracted, ClearQuarantine, db, files,
           NoQuar
  <2> QED BY <2>1, <2>2, <2>3, <2>4 DEF IInv
<1>9. CASE BeginEdit(r) \/ BeginExact(r) \/ BeginSource(r) \/ BeginRestore(r)
  BY <1>9, BeginKeepsIInv
<1> QED BY <1>1, <1>2, <1>3, <1>4, <1>5, <1>6, <1>7, <1>8, <1>9 DEF RequestStep

\* The same for the worker that validates a quarantine, and for its deaths: the row
\* that is still PENDING is what keeps the votes away while it promotes.
LEMMA WorkerKeepsIInv ==
    ASSUME IInv, NEW r \in Request, WorkerStep(r)
    PROVE  IInv'
<1> USE BoundAssumption, RestTypes DEF Number
<1>1. CASE Claim(r)
  <2>1. TypeOK'
    BY <1>1, UpdateTypes DEF IInv, TypeOK, Claim, db, files, WorkerAt
  <2>2. VotedIsLatest' /\ QuarantineInDraft' /\ DirectoriesMatchRows'
    BY <1>1
       DEF IInv, VotedIsLatest, QuarantineInDraft, DirectoriesMatchRows, Claim, db, files,
           WorkerAt
  <2>3. OneProcess' /\ WorkerHasPending' /\ RefersToRevisions'
    BY <1>1
       DEF IInv, TypeOK, OneProcess, WorkerHasPending, RefersToRevisions, Claim, db, files,
           WorkerAt, NoWorker
  <2>4. KnownExtracted' /\ QuarantineExtracted'
    BY <1>1
       DEF IInv, TypeOK, KnownExtracted, QuarantineExtracted, Claim, db, files, WorkerAt,
           NoWorker
  <2> QED BY <2>1, <2>2, <2>3, <2>4 DEF IInv
<1>2. CASE NothingToValidate(r)
  <2>1. TypeOK'
    BY <1>2, UpdateTypes DEF IInv, TypeOK, NothingToValidate, db, files, WorkerAt
  <2>2. VotedIsLatest' /\ QuarantineInDraft' /\ DirectoriesMatchRows'
    BY <1>2
       DEF IInv, VotedIsLatest, QuarantineInDraft, DirectoriesMatchRows, NothingToValidate,
           db, files, WorkerAt
  <2>3. OneProcess' /\ WorkerHasPending' /\ RefersToRevisions'
    BY <1>2
       DEF IInv, TypeOK, OneProcess, WorkerHasPending, RefersToRevisions,
           NothingToValidate, db, files, WorkerAt, NoWorker
  <2>4. KnownExtracted' /\ QuarantineExtracted'
    BY <1>2
       DEF IInv, TypeOK, KnownExtracted, QuarantineExtracted, NothingToValidate, db, files,
           WorkerAt
  <2> QED BY <2>1, <2>2, <2>3, <2>4 DEF IInv
<1>3. CASE DirectoryMissing(r)
  <2>1. TypeOK'
    BY <1>3, ArchivesOfEmpty, UpdateTypes
       DEF IInv, TypeOK, DirectoryMissing, db, files, WorkerAt
  <2>2. VotedIsLatest' /\ QuarantineInDraft' /\ DirectoriesMatchRows'
    BY <1>3, ArchivesOfEmpty
       DEF IInv, TypeOK, VotedIsLatest, QuarantineInDraft, DirectoriesMatchRows,
           DirectoryMissing, db, files, WorkerAt, Unfinished, FailedQuar, NoQuar
  <2>3. OneProcess' /\ WorkerHasPending' /\ RefersToRevisions'
    BY <1>3, ArchivesOfEmpty
       DEF IInv, TypeOK, OneProcess, WorkerHasPending, RefersToRevisions, DirectoryMissing,
           db, files, WorkerAt, FailedQuar, NoWorker, NoQuar
  <2>4. KnownExtracted' /\ QuarantineExtracted'
    BY <1>3, ArchivesOfEmpty
       DEF IInv, TypeOK, KnownExtracted, QuarantineExtracted, DirectoryMissing, db, files,
           WorkerAt, FailedQuar, NoQuar
  <2> QED BY <2>1, <2>2, <2>3, <2>4 DEF IInv
<1>4. CASE ExtractionFails(r)
  <2>1. extracted \subseteq extracted' /\ extracted' \subseteq extracted \union quar[r].archives
    BY <1>4 DEF ExtractionFails
  <2>2. TypeOK'
    BY <1>4, <2>1, RecordFacts, UpdateTypes
       DEF IInv, TypeOK, ExtractionFails, db, files, WorkerAt
  <2>3. VotedIsLatest' /\ QuarantineInDraft' /\ DirectoriesMatchRows'
    BY <1>4
       DEF IInv, TypeOK, VotedIsLatest, QuarantineInDraft, DirectoriesMatchRows,
           ExtractionFails, db, files, WorkerAt, Unfinished, FailedQuar, NoQuar
  <2>4. OneProcess' /\ WorkerHasPending' /\ RefersToRevisions'
    BY <1>4
       DEF IInv, TypeOK, OneProcess, WorkerHasPending, RefersToRevisions, ExtractionFails,
           db, files, WorkerAt, FailedQuar, NoWorker, NoQuar
  <2>5. KnownExtracted' /\ QuarantineExtracted'
    <3>1. KnownExtracted'
      BY <1>4, <2>1 DEF IInv, KnownExtracted, ExtractionFails, db, files
    <3>2. ASSUME NEW q \in Request, q # r
          PROVE  quar'[q] = quar[q] /\ worker'[q] = worker[q]
      BY <1>4, <3>2 DEF IInv, TypeOK, ExtractionFails, WorkerAt
    <3>3. quar'[r] = FailedQuar /\ worker'[r].at = "done"
      BY <1>4 DEF IInv, TypeOK, ExtractionFails, WorkerAt, WorkerState
    <3> QED BY <2>1, <3>1, <3>2, <3>3, ArchivesOfEmpty
            DEF IInv, QuarantineExtracted, FailedQuar, NoQuar
  <2> QED BY <2>2, <2>3, <2>4, <2>5 DEF IInv
<1>5. CASE Extract(r)
  <2>1. TypeOK'
    BY <1>5, RecordFacts, UpdateTypes DEF IInv, TypeOK, Extract, db, files, WorkerAt
  <2>2. VotedIsLatest' /\ QuarantineInDraft' /\ DirectoriesMatchRows'
    BY <1>5
       DEF IInv, VotedIsLatest, QuarantineInDraft, DirectoriesMatchRows, Extract, db,
           files, WorkerAt
  <2>3. OneProcess' /\ WorkerHasPending' /\ RefersToRevisions'
    BY <1>5
       DEF IInv, TypeOK, OneProcess, WorkerHasPending, RefersToRevisions, Extract, db,
           files, WorkerAt, NoWorker
  <2>4. KnownExtracted' /\ QuarantineExtracted'
    BY <1>5
       DEF IInv, TypeOK, KnownExtracted, QuarantineExtracted, Extract, db, files, WorkerAt
  <2> QED BY <2>1, <2>2, <2>3, <2>4 DEF IInv
<1>6. CASE Promote(r)
  <2>1. /\ quar' = [quar EXCEPT ![r].onDisk = FALSE]
        /\ worker' = [worker EXCEPT ![r] = [at |-> "promoted", rev |-> latest']]
        /\ UNCHANGED <<phase, voted, checks, pc, sub, task, extracted, starting>>
        /\ worker[r].at = "extracted" /\ NewRevision(MergedQuar(r))
    BY <1>6 DEF Promote
  <2>2. quar[r].status = "PENDING" /\ phase = "draft"
    BY <2>1 DEF IInv, WorkerHasPending, QuarantineInDraft, Unfinished
  <2>3. Archives(MergedQuar(r).tree) \subseteq extracted
    BY <2>1, MergedQuarFacts DEF IInv, QuarantineExtracted
  <2>4. /\ latest' = latest + 1 /\ latest' \in Number
        /\ dir' \in [Number -> Tree \union {NoDir}] /\ known' \in [Number -> SUBSET Archive]
        /\ DirectoriesMatchRows' /\ KnownExtracted'
    BY <2>1, <2>3, MergedQuarFacts, NewRevisionFacts
  <2>5. \A q \in Request : /\ quar'[q].status = quar[q].status /\ quar'[q].prior = quar[q].prior
                           /\ quar'[q].tree = quar[q].tree /\ quar'[q].archives = quar[q].archives
    BY <2>1 DEF IInv, TypeOK, QuarantineRow
  <2>6. TypeOK'
    <3>1. [at |-> "promoted", rev |-> latest'] \in WorkerState
      BY <2>4 DEF WorkerState
    <3>2. [quar[r] EXCEPT !.onDisk = FALSE] \in QuarantineRow
      BY RecordFacts, UpdateTypes
    <3> QED BY <2>1, <2>4, <3>1, <3>2 DEF IInv, TypeOK
  <2>7. VotedIsLatest' /\ QuarantineInDraft' /\ DirectoriesMatchRows'
    BY <2>1, <2>2, <2>4, <2>5 DEF IInv, VotedIsLatest, QuarantineInDraft
  <2>8. OneProcess' /\ WorkerHasPending' /\ RefersToRevisions'
    <3>1. pc[r] = "idle"
      BY <2>1 DEF IInv, OneProcess, NoWorker
    <3>2. OneProcess' /\ WorkerHasPending'
      BY <2>1, <2>2, <2>5, <3>1 DEF IInv, TypeOK, OneProcess, WorkerHasPending
    <3>3. latest \in Nat /\ \A q \in Request : /\ sub[q].old <= latest /\ quar[q].prior <= latest
                                              /\ sub[q].old \in Nat /\ quar[q].prior \in Nat
      BY RecordFacts DEF IInv, TypeOK, RefersToRevisions
    <3>4. RefersToRevisions'
      BY <2>1, <2>4, <2>5, <3>3 DEF RefersToRevisions
    <3> QED BY <3>2, <3>4
  <2>9. KnownExtracted' /\ QuarantineExtracted'
    <3>1. \A q \in Request : worker'[q].at = "extracted" => worker[q].at = "extracted"
      BY <2>1 DEF IInv, TypeOK
    <3> QED BY <2>1, <2>4, <2>5, <3>1 DEF IInv, QuarantineExtracted
  <2> QED BY <2>6, <2>7, <2>8, <2>9 DEF IInv
<1>7. CASE QueuePromotedChecks(r)
  <2>1. TypeOK'
    <3>1. [at |-> "checked", rev |-> 0] \in WorkerState
      BY DEF WorkerState
    <3> QED BY <1>7, <3>1 DEF IInv, TypeOK, QueuePromotedChecks, files
  <2>2. VotedIsLatest' /\ QuarantineInDraft' /\ DirectoriesMatchRows'
    BY <1>7
       DEF IInv, VotedIsLatest, QuarantineInDraft, DirectoriesMatchRows,
           QueuePromotedChecks, files
  <2>3. OneProcess' /\ WorkerHasPending' /\ RefersToRevisions'
    BY <1>7
       DEF IInv, TypeOK, OneProcess, WorkerHasPending, RefersToRevisions,
           QueuePromotedChecks, files, NoWorker
  <2>4. KnownExtracted' /\ QuarantineExtracted'
    BY <1>7
       DEF IInv, TypeOK, KnownExtracted, QuarantineExtracted, QueuePromotedChecks, files
  <2> QED BY <2>1, <2>2, <2>3, <2>4 DEF IInv
<1>8. CASE DeleteRow(r)
  <2>1. TypeOK'
    BY <1>8, ArchivesOfEmpty, UpdateTypes DEF IInv, TypeOK, DeleteRow, db, files, WorkerAt
  <2>2. VotedIsLatest' /\ QuarantineInDraft' /\ DirectoriesMatchRows'
    BY <1>8, ArchivesOfEmpty
       DEF IInv, TypeOK, VotedIsLatest, QuarantineInDraft, DirectoriesMatchRows, DeleteRow,
           db, files, WorkerAt, Unfinished, NoQuar
  <2>3. OneProcess' /\ WorkerHasPending' /\ RefersToRevisions'
    BY <1>8, ArchivesOfEmpty
       DEF IInv, TypeOK, OneProcess, WorkerHasPending, RefersToRevisions, DeleteRow, db,
           files, WorkerAt, NoQuar, NoWorker
  <2>4. KnownExtracted' /\ QuarantineExtracted'
    BY <1>8, ArchivesOfEmpty
       DEF IInv, TypeOK, KnownExtracted, QuarantineExtracted, DeleteRow, db, files,
           WorkerAt, NoQuar
  <2> QED BY <2>1, <2>2, <2>3, <2>4 DEF IInv
<1>9. CASE Finish(r)
  <2>1. TypeOK'
    BY <1>9 DEF IInv, TypeOK, Finish, db, files
  <2>2. VotedIsLatest' /\ QuarantineInDraft' /\ DirectoriesMatchRows'
    BY <1>9
       DEF IInv, VotedIsLatest, QuarantineInDraft, DirectoriesMatchRows, Finish, db, files
  <2>3. OneProcess' /\ WorkerHasPending' /\ RefersToRevisions'
    BY <1>9
       DEF IInv, TypeOK, OneProcess, WorkerHasPending, RefersToRevisions, Finish, db,
           files, NoWorker
  <2>4. KnownExtracted' /\ QuarantineExtracted'
    BY <1>9
       DEF IInv, TypeOK, KnownExtracted, QuarantineExtracted, Finish, db, files, NoWorker
  <2> QED BY <2>1, <2>2, <2>3, <2>4 DEF IInv
<1>10. CASE WorkerRaises(r)
  <2>1. TypeOK'
    <3>1. PICK left \in {quar[r].onDisk, quar[r].onDisk /\ worker[r].at # "extracted"} :
              quar' = [quar EXCEPT ![r].onDisk = left]
      BY <1>10 DEF WorkerRaises
    <3>2. quar[r].onDisk \in BOOLEAN
      BY RecordFacts DEF QuarantineRow
    <3>3. left \in BOOLEAN
      BY <3>2
    <3>4. [quar[r] EXCEPT !.onDisk = left] \in QuarantineRow
      BY <3>3, RecordFacts, UpdateTypes
    <3> QED BY <1>10, <3>1, <3>4 DEF IInv, TypeOK, WorkerRaises, db, files
  <2>2. VotedIsLatest' /\ QuarantineInDraft' /\ DirectoriesMatchRows'
    BY <1>10
       DEF IInv, TypeOK, VotedIsLatest, QuarantineInDraft, DirectoriesMatchRows,
           WorkerRaises, db, files, Unfinished
  <2>3. OneProcess' /\ WorkerHasPending' /\ RefersToRevisions'
    BY <1>10
       DEF IInv, TypeOK, OneProcess, WorkerHasPending, RefersToRevisions, WorkerRaises, db,
           files, NoWorker
  <2>4. KnownExtracted' /\ QuarantineExtracted'
    BY <1>10
       DEF IInv, TypeOK, KnownExtracted, QuarantineExtracted, WorkerRaises, db, files,
           NoWorker
  <2> QED BY <2>1, <2>2, <2>3, <2>4 DEF IInv
<1>11. CASE WorkerDies(r)
  <2>1. TypeOK'
    BY <1>11 DEF IInv, TypeOK, WorkerDies, db, files
  <2>2. VotedIsLatest' /\ QuarantineInDraft' /\ DirectoriesMatchRows'
    BY <1>11
       DEF IInv, VotedIsLatest, QuarantineInDraft, DirectoriesMatchRows, WorkerDies, db,
           files
  <2>3. OneProcess' /\ WorkerHasPending' /\ RefersToRevisions'
    BY <1>11
       DEF IInv, TypeOK, OneProcess, WorkerHasPending, RefersToRevisions, WorkerDies, db,
           files, NoWorker
  <2>4. KnownExtracted' /\ QuarantineExtracted'
    BY <1>11
       DEF IInv, TypeOK, KnownExtracted, QuarantineExtracted, WorkerDies, db, files,
           NoWorker
  <2> QED BY <2>1, <2>2, <2>3, <2>4 DEF IInv
<1>12. CASE WorkerDiesMerging(r)
  <2>1. PICK visited \in SUBSET Path, removed \in {{}} \union {{x} : x \in Replaceable(r)} :
            quar' = [quar EXCEPT ![r].tree =
                [x \in Path |-> IF x \in removed THEN Absent
                                ELSE IF x \in visited THEN MergedQuar(r).tree[x] ELSE @[x]]]
    BY <1>12 DEF WorkerDiesMerging
  <2> DEFINE tree == [x \in Path |-> IF x \in removed THEN Absent
                                     ELSE IF x \in visited THEN MergedQuar(r).tree[x]
                                     ELSE quar[r].tree[x]]
  <2>2. quar' = [quar EXCEPT ![r].tree = tree]
    BY <2>1
  <2>3. tree \in Tree
    BY RecordFacts, MergedQuarFacts DEF Tree
  <2>4. Archives(tree) \subseteq Archives(quar[r].tree) \union extracted
    <3>1. \A x \in Path : tree[x] \in {Absent, MergedQuar(r).tree[x], quar[r].tree[x]}
      OBVIOUS
    <3>2. Archives(tree) \subseteq Archives(MergedQuar(r).tree) \union Archives(quar[r].tree)
      BY <3>1, ContentAssumption DEF Archives
    <3> QED BY <3>2, MergedQuarFacts
  <2> HIDE DEF tree
  <2>5. TypeOK'
    BY <1>12, <2>2, <2>3, UpdateTypes DEF IInv, TypeOK, WorkerDiesMerging, db, files
  <2>6. VotedIsLatest' /\ QuarantineInDraft' /\ DirectoriesMatchRows'
    BY <1>12
       DEF IInv, TypeOK, VotedIsLatest, QuarantineInDraft, DirectoriesMatchRows,
           WorkerDiesMerging, db, files, Unfinished
  <2>7. OneProcess' /\ WorkerHasPending' /\ RefersToRevisions'
    BY <1>12
       DEF IInv, TypeOK, OneProcess, WorkerHasPending, RefersToRevisions,
           WorkerDiesMerging, db, files, NoWorker
  <2>8. KnownExtracted' /\ QuarantineExtracted'
    <3>1. quar'[r].tree = tree /\ quar'[r].archives = quar[r].archives
      BY <2>2, RecordFacts DEF IInv, TypeOK, QuarantineRow
    <3>2. \A q \in Request \ {r} : quar'[q] = quar[q]
      BY <2>2 DEF IInv, TypeOK
    <3>3. \A q \in Request : worker'[q].at = "extracted" => worker[q].at = "extracted"
      BY <1>12 DEF IInv, TypeOK, WorkerDiesMerging, NoWorker
    <3> QED BY <1>12, <2>4, <3>1, <3>2, <3>3
            DEF IInv, KnownExtracted, QuarantineExtracted, WorkerDiesMerging, db, files
  <2> QED BY <2>5, <2>6, <2>7, <2>8 DEF IInv
<1>13. CASE WorkerDiesAfterRename(r)
  <2>1. TypeOK'
    BY <1>13, MergedQuarFacts, UpdateTypes
       DEF IInv, TypeOK, WorkerDiesAfterRename, db
  <2>2. VotedIsLatest' /\ QuarantineInDraft' /\ DirectoriesMatchRows'
    BY <1>13
       DEF IInv, TypeOK, VotedIsLatest, QuarantineInDraft, DirectoriesMatchRows,
           WorkerDiesAfterRename, db, Unfinished
  <2>3. OneProcess' /\ WorkerHasPending' /\ RefersToRevisions'
    BY <1>13
       DEF IInv, TypeOK, OneProcess, WorkerHasPending, RefersToRevisions,
           WorkerDiesAfterRename, db, NoWorker
  <2>4. KnownExtracted' /\ QuarantineExtracted'
    BY <1>13
       DEF IInv, TypeOK, KnownExtracted, QuarantineExtracted, WorkerDiesAfterRename, db,
           NoWorker
  <2> QED BY <2>1, <2>2, <2>3, <2>4 DEF IInv
<1>14. CASE TimeOut(r)
  <2>1. TypeOK'
    BY <1>14 DEF IInv, TypeOK, TimeOut, db, files
  <2>2. VotedIsLatest' /\ QuarantineInDraft' /\ DirectoriesMatchRows'
    BY <1>14
       DEF IInv, VotedIsLatest, QuarantineInDraft, DirectoriesMatchRows, TimeOut, db, files
  <2>3. OneProcess' /\ WorkerHasPending' /\ RefersToRevisions'
    BY <1>14
       DEF IInv, TypeOK, OneProcess, WorkerHasPending, RefersToRevisions, TimeOut, db, files
  <2>4. KnownExtracted' /\ QuarantineExtracted'
    BY <1>14 DEF IInv, KnownExtracted, QuarantineExtracted, TimeOut, db, files
  <2> QED BY <2>1, <2>2, <2>3, <2>4 DEF IInv
<1> QED BY <1>1, <1>2, <1>3, <1>4, <1>5, <1>6, <1>7, <1>8, <1>9, <1>10, <1>11, <1>12, <1>13, <1>14
   DEF WorkerStep

\* Starting a vote compares what was read with what is there, and a resolution
\* finds no quarantine to overtake.
LEMMA VoteKeepsIInv ==
    ASSUME IInv, \/ \E k \in Number : ChecksFinish(k)
                 \/ \E v \in Voter : VoteStep(v)
                 \/ ResolveVote
    PROVE  IInv'
<1>1. UNCHANGED <<latest, dir, known, pc, sub, quar, task, worker, extracted>>
  BY DEF ChecksFinish, VoteStep, ReadForVote, StartVote, VoteRefused, ResolveVote,
         db, files, quarantine
<1>2. DirectoriesMatchRows' /\ OneProcess' /\ WorkerHasPending' /\ RefersToRevisions'
      /\ KnownExtracted' /\ QuarantineExtracted'
  BY <1>1 DEF IInv, DirectoriesMatchRows, OneProcess, WorkerHasPending, RefersToRevisions,
              KnownExtracted, QuarantineExtracted
<1>3. CASE \E k \in Number : ChecksFinish(k)
  <2>1. TypeOK'
    BY <1>1, <1>3 DEF IInv, TypeOK, ChecksFinish
  <2>2. VotedIsLatest' /\ QuarantineInDraft'
    BY <1>1, <1>3 DEF IInv, VotedIsLatest, QuarantineInDraft, ChecksFinish
  <2> QED BY <1>2, <2>1, <2>2 DEF IInv
<1>4. CASE \E v \in Voter : VoteStep(v)
  <2>1. PICK v \in Voter : VoteStep(v)
    BY <1>4
  <2>2. TypeOK'
    BY <1>1, <2>1, BoundAssumption
       DEF IInv, TypeOK, VoteStep, ReadForVote, StartVote, VoteRefused, db, Phases
  <2>3. VotedIsLatest' /\ QuarantineInDraft'
    BY <1>1, <2>1 DEF IInv, VotedIsLatest, QuarantineInDraft, VoteStep, ReadForVote, StartVote,
                      VoteRefused, db
  <2> QED BY <1>2, <2>2, <2>3 DEF IInv
<1>5. CASE ResolveVote
  <2>1. TypeOK'
    BY <1>1, <1>5, BoundAssumption DEF IInv, TypeOK, ResolveVote, Phases
  <2>2. VotedIsLatest' /\ QuarantineInDraft'
    BY <1>1, <1>5 DEF IInv, VotedIsLatest, QuarantineInDraft, ResolveVote
  <2> QED BY <1>2, <2>1, <2>2 DEF IInv
<1> QED BY <1>3, <1>4, <1>5

\* The invariant is inductive.
LEMMA NextKeepsIInv == IInv /\ [Next]_vars => IInv'
<1> SUFFICES ASSUME IInv, [Next]_vars PROVE IInv'
  OBVIOUS
<1>1. CASE \E r \in Request : RequestStep(r)
  BY <1>1, RequestKeepsIInv
<1>2. CASE \E r \in Request : WorkerStep(r)
  BY <1>2, WorkerKeepsIInv
<1>3. CASE (\E k \in Number : ChecksFinish(k)) \/ (\E v \in Voter : VoteStep(v)) \/ ResolveVote
  BY <1>3, VoteKeepsIInv
<1>4. CASE UNCHANGED vars
  BY <1>4 DEF vars, IInv, TypeOK, VotedIsLatest, QuarantineInDraft, DirectoriesMatchRows,
              OneProcess, WorkerHasPending, RefersToRevisions, KnownExtracted,
              QuarantineExtracted
<1> QED BY <1>1, <1>2, <1>3, <1>4 DEF Next

----------------------------------------------------------------------------
(* The theorems *)

\* The invariant holds in every reachable state.
THEOREM Invariance == Spec => []IInv
<1> QED BY IInvInit, NextKeepsIInv, PTL DEF Spec

\* Every variable keeps its type through every request, worker and vote step.
THEOREM TypeCorrect == Spec => []TypeOK
<1>1. IInv => TypeOK
  BY DEF IInv
<1> QED BY <1>1, Invariance, PTL

\* The revision that is voted on, or that passed its vote, is the latest one
\* (the compare-and-set of start_vote_no_commit against every writer).
THEOREM VotedRevisionIsLatest == Spec => []VotedIsLatest
<1>1. IInv => VotedIsLatest
  BY DEF IInv
<1> QED BY <1>1, Invariance, PTL

\* No submission waits in quarantine while the release is voted on.
THEOREM NoQuarantineOutsideDraft == Spec => []QuarantineInDraft
<1>1. IInv => QuarantineInDraft
  BY DEF IInv
<1> QED BY <1>1, Invariance, PTL

\* Revision rows and directories correspond, whatever died between a rename and
\* its commit.
THEOREM RowsHaveDirectories == Spec => []DirectoriesMatchRows
<1>1. IInv => DirectoriesMatchRows
  BY DEF IInv
<1> QED BY <1>1, Invariance, PTL

\* Every archive of every revision was extracted first.
THEOREM OnlyExtractedArchives == Spec => []ArchivesExtracted
<1>1. IInv => ArchivesExtracted
  BY DEF IInv, KnownExtracted, ArchivesExtracted
<1> QED BY <1>1, Invariance, PTL

\* No step of any writer, worker or crash changes the revisions of a release
\* that is being voted on or has passed its vote.
THEOREM VotedFilesStayFrozen == Spec => VotedFilesFrozen
<1> DEFINE Frozen == phase # "draft" /\ phase' # "draft" => latest' = latest /\ dir' = dir
<1>1. IInv /\ [Next]_vars => [Frozen]_vars
  <2> SUFFICES ASSUME IInv, Next, phase # "draft" PROVE latest' = latest /\ dir' = dir
    BY DEF vars
  <2>1. ASSUME NEW r \in Request, RequestStep(r) PROVE latest' = latest /\ dir' = dir
    BY <2>1 DEF RequestStep, BeginEdit, BeginExact, BeginSource, BeginRestore, Prepare, Commit,
                QueueChecks, Quarantine, Enqueue, Fail, Crash, CrashAfterRename,
                ClearQuarantine, Stale, db, files
  <2>2. ASSUME NEW r \in Request, WorkerStep(r) PROVE latest' = latest /\ dir' = dir
    <3>1. worker[r].at # "extracted"
      BY DEF IInv, WorkerHasPending, QuarantineInDraft, Unfinished
    <3> QED BY <2>2, <3>1
            DEF WorkerStep, Claim, NothingToValidate, DirectoryMissing, ExtractionFails,
                Extract, Promote, QueuePromotedChecks, DeleteRow, Finish, WorkerRaises,
                WorkerDies, WorkerDiesMerging, WorkerDiesAfterRename, TimeOut, db, files
  <2>3. ASSUME \/ \E k \in Number : ChecksFinish(k)
               \/ \E v \in Voter : VoteStep(v)
               \/ ResolveVote
        PROVE  latest' = latest /\ dir' = dir
    BY <2>3 DEF ChecksFinish, VoteStep, ReadForVote, StartVote, VoteRefused, ResolveVote,
                db, files
  <2> QED BY <2>1, <2>2, <2>3 DEF Next
<1> QED BY <1>1, Invariance, PTL DEF Spec, VotedFilesFrozen

\* What a revision consists of, and what is attested of it, is never changed again, before
\* a vote as after it: revisions are only added, one at a time ("existing files cannot be
\* modified", docs/storage-interface.md:330).  Of a directory without a row, nothing is said.
RevisionsStand ==
    [][/\ latest' \in {latest, latest + 1}
       /\ \A k \in 1 .. latest : dir'[k] = dir[k] /\ known'[k] = known[k]]_vars

\* No writer, promotion, retry or crash replaces a revision (_commit_new_revision, _promote).
THEOREM RevisionsAreForGood == Spec => RevisionsStand
<1> DEFINE Added == /\ latest' \in {latest, latest + 1}
                    /\ \A k \in 1 .. latest : dir'[k] = dir[k] /\ known'[k] = known[k]
<1>1. ASSUME IInv PROVE latest \in Nat /\ \A k \in 1 .. latest : k # latest + 1
  BY <1>1, BoundAssumption DEF IInv, TypeOK
<1>2. ASSUME IInv, NEW m, NewRevision(m) PROVE Added
  BY <1>1, <1>2 DEF NewRevision, IInv, TypeOK, Number
<1>3. ASSUME UNCHANGED <<latest, dir, known>> PROVE Added
  BY <1>3
<1>4. ASSUME IInv, NEW tree, dir' = [dir EXCEPT ![latest + 1] = tree], UNCHANGED <<latest, known>>
      PROVE  Added
  BY <1>1, <1>4 DEF IInv, TypeOK, Number
<1> HIDE DEF Added
<1>5. ASSUME IInv, NEW r \in Request, RequestStep(r) PROVE Added
  BY <1>2, <1>3, <1>4, <1>5
     DEF RequestStep, BeginEdit, BeginExact, BeginSource, BeginRestore, Prepare, Commit,
         QueueChecks, Quarantine, Enqueue, Fail, Crash, CrashAfterRename, ClearQuarantine, db, files
<1>6. ASSUME IInv, NEW r \in Request, WorkerStep(r) PROVE Added
  BY <1>2, <1>3, <1>4, <1>6
     DEF WorkerStep, Claim, NothingToValidate, DirectoryMissing, ExtractionFails, Extract, Promote,
         QueuePromotedChecks, DeleteRow, Finish, WorkerRaises, WorkerDies, WorkerDiesMerging,
         WorkerDiesAfterRename, TimeOut, db, files
<1>7. ASSUME \/ \E k \in Number : ChecksFinish(k)
             \/ \E v \in Voter : VoteStep(v)
             \/ ResolveVote
      PROVE  Added
  BY <1>3, <1>7 DEF ChecksFinish, VoteStep, ReadForVote, StartVote, VoteRefused, ResolveVote, db, files
<1>8. IInv /\ [Next]_vars => [Added]_vars
  BY <1>5, <1>6, <1>7 DEF Next
<1> QED BY <1>8, Invariance, PTL DEF Spec, RevisionsStand, Added
=============================================================================
