------------------------ MODULE RevisionsLog_proofs ------------------------
(***************************************************************************)
(* Proof that the revision machinery implements the log, for any number of *)
(* requests, voters, paths, contents and revisions.                        *)
(***************************************************************************)
EXTENDS RevisionsLog, Revisions_proofs, SequenceTheorems

\* A worker that has extracted the archives still has their directory.
ExtractedOnDisk ==
    \A r \in Request : worker[r].at = "extracted" => quar[r].onDisk

LInv == IInv /\ ExtractedOnDisk

Pend == [r \in Request |-> Pending(r)]

----------------------------------------------------------------------------
(* Changes and their outcomes *)

\* A tree is a change that determines every path.
LEMMA TreesAreChanges == Tree \subseteq Log!Change
BY DEF Tree, Log!Change, Log!File

\* The difference of two trees is a change.
LEMMA DiffIsChange ==
    ASSUME NEW a \in Tree, NEW b \in Tree
    PROVE  Diff(a, b) \in Log!Change
BY DEF Tree, Diff, Log!Change, Log!File

\* A change is not the mark of a request that has none.
LEMMA ChangesAreThere == Nothing \notin Log!Change
<1>1. Log!Change = [Path -> Content \union {Absent, Keep}]
  <2>1. Log!File \union {Keep} = Content \union {Absent, Keep}
    BY DEF Log!File
  <2> QED BY <2>1 DEF Log!Change
<1> QED BY <1>1, MarkAssumption

\* The history is a sequence as long as there are revisions.
LEMMA HistoryIsSeq ==
    ASSUME IInv
    PROVE  /\ latest \in Nat /\ History \in Seq(Tree) /\ Len(History) = latest
           /\ \A k \in 1 .. latest : History[k] = dir[k]
<1>1. latest \in Nat
  BY BoundAssumption DEF IInv, TypeOK
<1>2. \A k \in 1 .. latest : dir[k] \in Tree
  <2> SUFFICES ASSUME NEW k \in 1 .. latest PROVE dir[k] \in Tree
    OBVIOUS
  <2>1. k # 0 /\ k \in 0 .. latest
    OBVIOUS
  <2> QED BY <2>1, TreeOfType DEF IInv, TreeOf
<1>3. History \in [1 .. latest -> Tree]
  BY <1>2 DEF History
<1>4. History \in Seq(Tree)
  BY <1>1, <1>3
<1>5. Len(History) = latest
  <2>1. Len(History) \in Nat /\ DOMAIN History = 1 .. Len(History)
    BY <1>4, LenProperties
  <2>2. DOMAIN History = 1 .. latest
    BY DEF History
  <2> DEFINE n == Len(History)
  <2> HIDE DEF n
  <2>3. n \in Nat /\ 1 .. n = 1 .. latest
    BY <2>1, <2>2 DEF n
  <2>4. \A k \in Nat : k \in 1 .. n <=> k \in 1 .. latest
    BY <2>3
  <2>5. n = latest
    BY <1>1, <2>3, <2>4
  <2> QED BY <2>5 DEF n
<1> QED BY <1>1, <1>4, <1>5 DEF History

\* What the log ends with is the latest revision, or no files.
LEMMA LastIsLatest == IInv => Log!Last = TreeOf(latest)
<1> SUFFICES ASSUME IInv PROVE Log!Last = TreeOf(latest)
  OBVIOUS
<1>1. CASE latest = 0
  <2>1. History \in Seq(Tree) /\ Len(History) = 0
    BY <1>1, HistoryIsSeq
  <2>2. History = <<>>
    BY <2>1, EmptySeq
  <2> QED BY <1>1, <2>2 DEF Log!Last, Log!Empty, TreeOf, Empty
<1>2. CASE latest # 0
  <2>1. History # <<>> /\ History[Len(History)] = dir[latest]
    BY <1>2, HistoryIsSeq
  <2> QED BY <1>2, <2>1 DEF Log!Last, TreeOf
<1> QED BY <1>1, <1>2

\* A change that determines every path has itself as its outcome.
LEMMA WholeOutcome ==
    ASSUME NEW t \in Tree
    PROVE  Log!Outcome(t) = t
BY MarkAssumption DEF Tree, Log!Outcome

\* The outcome of a difference takes the latest revision where the two agree.
LEMMA DiffOutcome ==
    ASSUME IInv, NEW a \in Tree, NEW b \in Tree
    PROVE  Log!Outcome(Diff(a, b)) = Merge(a, TreeOf(latest), b)
<1>1. Log!Last = TreeOf(latest)
  BY LastIsLatest
<1>2. \A x \in Path : b[x] # Keep
  BY MarkAssumption DEF Tree
<1> QED BY <1>1, <1>2 DEF Log!Outcome, Diff, Merge

\* Merging the latest revision into a tree that was based on it leaves the tree as it is.
LEMMA MergeOfBase ==
    ASSUME NEW a \in Tree, NEW b \in Tree
    PROVE  Merge(a, a, b) = b
BY DEF Tree, Merge

\* The change that a tree makes to the revision it was based on, or to nothing.
ChangeOf(old, new) == IF old = 0 THEN new ELSE Diff(TreeOf(old), new)

\* What _lock_and_merge makes of a tree is the outcome of its change.
LEMMA MergedIsOutcome ==
    ASSUME IInv, NEW old \in 0 .. latest, NEW new \in Tree
    PROVE  /\ ChangeOf(old, new) \in Log!Change
           /\ Log!Outcome(ChangeOf(old, new)) = Merged(TRUE, old, new).tree
<1>1. TreeOf(old) \in Tree /\ TreeOf(latest) \in Tree
  BY TreeOfType, HistoryIsSeq DEF IInv
<1>2. CASE old = 0
  <2>1. ChangeOf(old, new) = new /\ Merged(TRUE, old, new).tree = new
    BY <1>2 DEF ChangeOf, Merged
  <2> QED BY <2>1, TreesAreChanges, WholeOutcome
<1>3. CASE old # 0 /\ latest # old
  <2>1. ChangeOf(old, new) = Diff(TreeOf(old), new)
    BY <1>3 DEF ChangeOf
  <2>2. Merged(TRUE, old, new).tree = Merge(TreeOf(old), TreeOf(latest), new)
    BY <1>3 DEF Merged
  <2> QED BY <1>1, <2>1, <2>2, DiffIsChange, DiffOutcome
<1>4. CASE old # 0 /\ latest = old
  <2>1. ChangeOf(old, new) = Diff(TreeOf(old), new)
    BY <1>4 DEF ChangeOf
  <2>2. Merged(TRUE, old, new).tree = new
    BY <1>4 DEF Merged
  <2>3. Merge(TreeOf(old), TreeOf(latest), new) = new
    BY <1>1, <1>4, MergeOfBase
  <2> QED BY <1>1, <2>1, <2>2, <2>3, DiffIsChange, DiffOutcome
<1> QED BY <1>2, <1>3, <1>4

\* What a process would commit now is the outcome of its submission, and so it is for one
\* that is not stale and names the revision it replaces.
LEMMA SubmittedOutcome ==
    ASSUME IInv, NEW r \in Request
    PROVE  /\ Submitted(sub[r]) \in Log!Change
           /\ ~Stale(r) => Log!Outcome(Submitted(sub[r])) = MergedSub(r).tree
<1> DEFINE s == sub[r]
<1>1. s.old \in 0 .. latest /\ s.new \in Tree
  BY RecordFacts
<1>2. CASE s.kind = "restore"
  <2>1. Submitted(s) = s.new
    BY <1>2 DEF Submitted
  <2>2. MergedSub(r).tree = s.new
    BY <1>2 DEF MergedSub, Merged
  <2> QED BY <1>1, <2>1, <2>2, TreesAreChanges, WholeOutcome
<1>3. CASE s.kind = "exact"
  <2>1. Submitted(s) = s.new
    BY <1>3 DEF Submitted
  <2>2. ~Stale(r) => MergedSub(r).tree = s.new
    BY <1>3 DEF MergedSub, Merged, Stale
  <2> QED BY <1>1, <2>1, <2>2, TreesAreChanges, WholeOutcome
<1>4. CASE s.kind \notin {"restore", "exact"}
  <2>1. Submitted(s) = ChangeOf(s.old, s.new)
    BY <1>4 DEF Submitted, ChangeOf
  <2>2. MergedSub(r) = Merged(TRUE, s.old, s.new)
    BY <1>4 DEF MergedSub, Merged
  <2> QED BY <1>1, <2>1, <2>2, MergedIsOutcome
<1> QED BY <1>2, <1>3, <1>4

\* What a promotion would commit now is the outcome of what is in quarantine.
LEMMA QuarantinedOutcome ==
    ASSUME IInv, NEW r \in Request
    PROVE  /\ Quarantined(quar[r]) \in Log!Change
           /\ Log!Outcome(Quarantined(quar[r])) = MergedQuar(r).tree
<1>1. quar[r].prior \in 0 .. latest /\ quar[r].tree \in Tree
  BY RecordFacts
<1>2. Quarantined(quar[r]) = ChangeOf(quar[r].prior, quar[r].tree)
  BY DEF Quarantined, ChangeOf
<1> QED BY <1>1, <1>2, MergedIsOutcome DEF MergedQuar

----------------------------------------------------------------------------
(* What a step does to the abstract state *)

\* No directory of a revision changes.
DirsKept == \A k \in 1 .. latest : dir'[k] = dir[k]

\* What a tree was based on is what it was.
LEMMA TreesKept ==
    ASSUME IInv, DirsKept, NEW k \in 0 .. latest
    PROVE  TreeOf(k)' = TreeOf(k)
<1>1. CASE k = 0
  BY <1>1 DEF TreeOf
<1>2. CASE k # 0
  <2>1. k \in 1 .. latest
    BY <1>2, HistoryIsSeq
  <2> QED BY <1>2, <2>1 DEF TreeOf, DirsKept
<1> QED BY <1>1, <1>2

\* The change of a request stays as long as its process and its quarantine do.
LEMMA PendingKept ==
    ASSUME IInv, DirsKept, NEW q \in Request, pc'[q] = "ready" <=> pc[q] = "ready",
           pc[q] = "ready" => sub'[q] = sub[q], quar'[q] = quar[q]
    PROVE  Pending(q)' = Pending(q)
<1>1. sub[q].old \in 0 .. latest /\ quar[q].prior \in 0 .. latest
  BY RecordFacts
<1>2. TreeOf(sub[q].old)' = TreeOf(sub[q].old) \/ sub'[q] # sub[q]
  <2> SUFFICES ASSUME sub'[q] = sub[q] PROVE TreeOf(sub[q].old)' = TreeOf(sub[q].old)
    OBVIOUS
  <2> DEFINE k == sub[q].old
  <2>1. k \in 0 .. latest
    BY <1>1
  <2>2. k' = k
    OBVIOUS
  <2>3. \A j \in 0 .. latest : TreeOf(j)' = TreeOf(j)
    BY TreesKept
  <2> QED BY <2>1, <2>2, <2>3 DEF TreeOf
<1>3. TreeOf(quar[q].prior)' = TreeOf(quar[q].prior)
  <2>1. \A j \in 0 .. latest : TreeOf(j)' = TreeOf(j)
    BY TreesKept
  <2> QED BY <1>1, <2>1 DEF TreeOf
<1>4. CASE pc[q] = "ready"
  BY <1>2, <1>4 DEF Pending, Submitted, Diff
<1>5. CASE pc[q] # "ready"
  BY <1>3, <1>5 DEF Pending, Quarantined, Diff, Unfinished
<1> QED BY <1>4, <1>5

\* The processes and quarantines of the other requests stay.
OthersKept(r) ==
    \A q \in Request \ {r} : pc'[q] = pc[q] /\ sub'[q] = sub[q] /\ quar'[q] = quar[q]

\* Then only the change of r may be another.
LEMMA PendOfOne ==
    ASSUME IInv, DirsKept, NEW r \in Request, OthersKept(r)
    PROVE  Pend' = [Pend EXCEPT ![r] = Pending(r)']
<1>1. \A q \in Request \ {r} : Pending(q)' = Pending(q)
  BY PendingKept DEF OthersKept
<1>2. Pend' = [q \in Request |-> Pending(q)']
  BY DEF Pend
<1>3. Pend = [q \in Request |-> Pending(q)]
  BY DEF Pend
<1> QED BY <1>1, <1>2, <1>3

LEMMA HistoryKept ==
    ASSUME DirsKept, latest' = latest
    PROVE  History' = History
BY DEF History, DirsKept

\* A new revision is appended to the history, and leaves the others as they are.
LEMMA HistoryGrows ==
    ASSUME IInv, NEW m, m.tree \in Tree, NewRevision(m)
    PROVE  DirsKept /\ History' = Append(History, m.tree)
<1>1. latest \in Nat /\ latest' = latest + 1 /\ latest' \in Number
  BY HistoryIsSeq, BoundAssumption DEF NewRevision, Number
<1>2. dir' = [dir EXCEPT ![latest'] = m.tree]
  BY DEF NewRevision
<1>3. \A k \in 1 .. latest : dir'[k] = dir[k]
  BY <1>1, <1>2, BoundAssumption DEF IInv, TypeOK, Number
<1>4. dir'[latest'] = m.tree
  BY <1>1, <1>2 DEF IInv, TypeOK
<1> DEFINE new == Append(History, m.tree)
<1>5. /\ new \in Seq(Tree) /\ Len(new) = latest + 1
      /\ \A k \in 1 .. latest : new[k] = History[k]
      /\ new[latest + 1] = m.tree
  BY HistoryIsSeq, AppendProperties
<1>6. History' = [k \in 1 .. latest + 1 |-> dir'[k]]
  BY <1>1 DEF History
<1>7. new = [k \in 1 .. latest + 1 |-> new[k]]
  BY <1>1, <1>5, LenProperties
<1>8. \A k \in 1 .. latest + 1 : new[k] = dir'[k]
  <2> TAKE k \in 1 .. latest + 1
  <2>1. CASE k = latest + 1
    BY <1>1, <1>4, <1>5, <2>1
  <2>2. CASE k # latest + 1
    BY <1>1, <1>3, <1>5, <2>2, HistoryIsSeq
  <2> QED BY <2>1, <2>2
<1> HIDE DEF new
<1>9. History' = new
  BY <1>6, <1>7, <1>8
<1> QED BY <1>3, <1>9 DEF DirsKept, new

\* A step that leaves the history and the phase alone, and the change of r or none of it,
\* is a stutter or a withdrawal.
LEMMA StutterOrWithdraw ==
    ASSUME IInv, DirsKept, latest' = latest, phase' = phase,
           NEW r \in Request, OthersKept(r), Pending(r)' = Pending(r) \/ Pending(r)' = Nothing
    PROVE  [Log!Next]_(Log!vars)
<1>1. History' = History
  BY HistoryKept
<1>2. Pend' = [Pend EXCEPT ![r] = Pending(r)']
  BY PendOfOne
<1>3. CASE Pending(r)' = Pending(r)
  <2>1. Pend' = Pend
    BY <1>2, <1>3 DEF Pend
  <2> QED BY <1>1, <2>1 DEF Log!vars, Pend
<1>4. CASE Pending(r)' = Nothing
  <2>1. Log!Withdraw(r)
    BY <1>1, <1>2, <1>4 DEF Log!Withdraw, Pend
  <2> QED BY <2>1 DEF Log!Next
<1> QED BY <1>3, <1>4

\* One that changes how the change of r is described is a restatement.
LEMMA Restates ==
    ASSUME IInv, DirsKept, latest' = latest, phase' = phase,
           NEW r \in Request, OthersKept(r), Pending(r) \in Log!Change,
           NEW c \in Log!Change, Pending(r)' = c, Log!Outcome(c) = Log!Outcome(Pending(r))
    PROVE  Log!Next
<1>1. History' = History
  BY HistoryKept
<1>2. Pend' = [Pend EXCEPT ![r] = c]
  BY PendOfOne
<1>3. Pend[r] = Pending(r) /\ Pending(r) # Nothing
  BY ChangesAreThere DEF Pend
<1>4. Log!Restate(r)
  BY <1>1, <1>2, <1>3 DEF Log!Restate, Pend
<1> QED BY <1>4 DEF Log!Next

\* One that adds to the change of r the deletion of a file that it left alone damages it.
LEMMA Damages ==
    ASSUME IInv, DirsKept, latest' = latest, phase' = phase,
           NEW r \in Request, OthersKept(r), Pending(r) \in Log!Change,
           NEW z \in Path, Pending(r)[z] = Keep, TreeOf(latest)[z] # Absent,
           NEW c \in Log!Change, Pending(r)' = c,
           Log!Outcome(c) = [Log!Outcome(Pending(r)) EXCEPT ![z] = Absent]
    PROVE  Log!Next
<1>1. History' = History
  BY HistoryKept
<1>2. Pend' = [Pend EXCEPT ![r] = c]
  BY PendOfOne
<1>3. Pend[r] = Pending(r) /\ Pending(r) # Nothing
  BY ChangesAreThere DEF Pend
<1>4. Log!Last[z] # Absent
  BY LastIsLatest
<1>5. Log!Damage(r)
  BY <1>1, <1>2, <1>3, <1>4 DEF Log!Damage, Pend
<1> QED BY <1>5 DEF Log!Next

\* One that makes the outcome of the change of r the next revision is its application.
LEMMA Applies ==
    ASSUME IInv, phase = "draft", phase' = phase, NEW r \in Request, OthersKept(r),
           NEW m, m.tree \in Tree, NewRevision(m),
           Pending(r) \in Log!Change, Log!Outcome(Pending(r)) = m.tree,
           Pending(r)' = Nothing
    PROVE  Log!Next
<1>1. DirsKept /\ History' = Append(History, m.tree)
  BY HistoryGrows
<1>2. Pend' = [Pend EXCEPT ![r] = Nothing]
  BY <1>1, PendOfOne
<1>3. Pend[r] = Pending(r) /\ Pending(r) # Nothing
  BY ChangesAreThere DEF Pend
<1>4. Log!Apply(r)
  BY <1>1, <1>2, <1>3 DEF Log!Apply, Pend
<1> QED BY <1>4 DEF Log!Next

----------------------------------------------------------------------------
(* The steps *)

\* A session that begins submits the change that its author made.
LEMMA PrepareSubmits ==
    ASSUME IInv, NEW r \in Request, NEW kind, NEW from \in 0 .. latest, NEW new \in Tree,
           Prepare(r, kind, from, new)
    PROVE  Log!Next
<1> DEFINE s == [kind |-> kind, old |-> from, new |-> new]
<1>1. /\ pc[r] = "idle" /\ quar[r].status = "none" /\ phase = "draft"
      /\ pc' = [pc EXCEPT ![r] = "ready"] /\ sub' = [sub EXCEPT ![r] = s]
      /\ UNCHANGED <<phase, latest, dir, quar>>
  BY DEF Prepare, db, files, quarantine
<1>2. OthersKept(r) /\ DirsKept
  BY <1>1 DEF OthersKept, DirsKept, IInv, TypeOK
<1>3. pc'[r] = "ready" /\ sub'[r] = s
  BY <1>1 DEF IInv, TypeOK
<1>4. s.kind = kind /\ s.old = from /\ s.new = new
  OBVIOUS
<1>5. Pending(r)' = (IF from = 0 \/ kind \in {"restore", "exact"} THEN new ELSE Diff(TreeOf(from), new))
  <2>1. Pending(r)' = Submitted(sub[r])'
    BY <1>3 DEF Pending
  <2>2. \A k \in 0 .. latest : TreeOf(k)' = TreeOf(k)
    BY <1>1 DEF TreeOf
  <2> HIDE DEF s
  <2> QED BY <1>3, <1>4, <2>1, <2>2 DEF Submitted, Diff, TreeOf
<1>6. Pending(r)' \in Log!Change
  <2>1. TreeOf(from) \in Tree
    BY TreeOfType DEF IInv
  <2> QED BY <1>5, <2>1, TreesAreChanges, DiffIsChange
<1>7. Pend[r] = Nothing
  BY <1>1 DEF Pend, Pending, Unfinished
<1>8. History' = History /\ Pend' = [Pend EXCEPT ![r] = Pending(r)']
  BY <1>1, <1>2, HistoryKept, PendOfOne
<1>9. Log!Submit(r)
  BY <1>1, <1>6, <1>7, <1>8 DEF Log!Submit, Pend
<1> QED BY <1>9 DEF Log!Next

LEMMA BeginSubmits ==
    ASSUME IInv, NEW r \in Request,
           BeginEdit(r) \/ BeginExact(r) \/ BeginSource(r) \/ BeginRestore(r)
    PROVE  Log!Next
<1>1. latest \in 0 .. latest
  BY DEF IInv, TypeOK
<1>2. \A k \in 0 .. latest : TreeOf(k) \in Tree
  BY TreeOfType DEF IInv
<1>3. \A t \in Tree : Edited(t) \subseteq Tree
  BY DEF Edited, Tree
<1>4. ASSUME BeginEdit(r) \/ BeginExact(r) PROVE Log!Next
  <2>1. PICK new \in Edited(TreeOf(latest)) :
            Prepare(r, "edit", latest, new) \/ Prepare(r, "exact", latest, new)
    BY <1>4 DEF BeginEdit, BeginExact
  <2>2. new \in Tree
    BY <1>1, <1>2, <1>3
  <2> QED BY <1>1, <2>1, <2>2, PrepareSubmits
<1>5. CASE BeginSource(r)
  BY <1>1, <1>2, <1>5, PrepareSubmits DEF BeginSource
<1>6. CASE BeginRestore(r)
  <2>1. PICK k \in 1 .. latest : Prepare(r, "restore", k, TreeOf(k))
    BY <1>6 DEF BeginRestore
  <2>2. k \in 0 .. latest
    BY DEF IInv, TypeOK
  <2> QED BY <1>2, <2>1, <2>2, PrepareSubmits
<1> QED BY <1>4, <1>5, <1>6

\* A commit or a quarantine is of the outcome of the change; a session that ends otherwise
\* withdraws it.
LEMMA RequestImplements ==
    ASSUME IInv, NEW r \in Request, RequestStep(r)
    PROVE  [Log!Next]_(Log!vars)
<1>1. Submitted(sub[r]) \in Log!Change
  BY SubmittedOutcome
<1>2. pc[r] = "ready" => Pending(r) = Submitted(sub[r])
  BY DEF Pending
<1>3. pc[r] # "idle" /\ pc[r] # "staged" => ~Unfinished(quar[r])
  BY DEF IInv, OneProcess, Unfinished
<1>4. ASSUME OthersKept(r), DirsKept, latest' = latest, phase' = phase, quar'[r] = quar[r],
             pc[r] = "ready", pc'[r] # "ready"
      PROVE  [Log!Next]_(Log!vars)
  <2>1. Pending(r)' = Nothing
    BY <1>3, <1>4 DEF Pending, Unfinished
  <2> QED BY <1>4, <2>1, StutterOrWithdraw
<1>5. ASSUME OthersKept(r), DirsKept, latest' = latest, phase' = phase, quar'[r] = quar[r],
             pc[r] # "ready", pc'[r] # "ready"
      PROVE  [Log!Next]_(Log!vars)
  <2>1. Pending(r)' = Pending(r)
    BY <1>5, PendingKept
  <2> QED BY <1>5, <2>1, StutterOrWithdraw
<1>6. CASE BeginEdit(r) \/ BeginExact(r) \/ BeginSource(r) \/ BeginRestore(r)
  BY <1>6, BeginSubmits
<1>7. CASE Commit(r)
  <2>1. /\ pc[r] = "ready" /\ ~Stale(r) /\ phase = "draft" /\ phase' = phase
        /\ NewRevision(MergedSub(r)) /\ pc'[r] = "unchecked" /\ quar' = quar
    BY <1>7 DEF Commit, Stale, IInv, TypeOK, quarantine
  <2>2. OthersKept(r)
    BY <1>7 DEF Commit, quarantine, OthersKept, IInv, TypeOK
  <2>3. Log!Outcome(Pending(r)) = MergedSub(r).tree /\ Pending(r) \in Log!Change
    BY <1>1, <1>2, <2>1, SubmittedOutcome
  <2>4. Pending(r)' = Nothing
    BY <1>3, <2>1 DEF Pending, Unfinished
  <2>5. Log!Next
    BY <2>1, <2>2, <2>3, <2>4, MergedSubFacts, Applies
  <2> QED BY <2>5
<1>8. CASE QueueChecks(r)
  <2>1. /\ OthersKept(r) /\ DirsKept /\ latest' = latest /\ phase' = phase
        /\ pc[r] # "ready" /\ pc'[r] # "ready" /\ quar'[r] = quar[r]
    BY <1>8 DEF QueueChecks, quarantine, files, OthersKept, DirsKept, IInv, TypeOK
  <2> QED BY <1>5, <2>1
<1>9. CASE Quarantine(r)
  <2> DEFINE q == [status |-> "STAGING", prior |-> latest, tree |-> MergedSub(r).tree,
                   changed |-> {x \in Path : MergedSub(r).tree[x] # TreeOf(latest)[x]},
                   archives |-> Archives(MergedSub(r).tree) \ MergedSub(r).previous, onDisk |-> TRUE]
  <2>1. /\ pc[r] = "ready" /\ ~Stale(r) /\ pc'[r] = "staged" /\ quar'[r] = q
        /\ OthersKept(r) /\ DirsKept /\ UNCHANGED <<latest, phase, dir>>
    BY <1>9 DEF Quarantine, db, files, OthersKept, DirsKept, IInv, TypeOK
  <2>2. q.status = "STAGING" /\ q.prior = latest /\ q.tree = MergedSub(r).tree /\ q.onDisk
    OBVIOUS
  <2> HIDE DEF q
  <2>3. latest \in 0 .. latest /\ MergedSub(r).tree \in Tree
    BY MergedSubFacts DEF IInv, TypeOK
  <2> DEFINE c == ChangeOf(latest, MergedSub(r).tree)
  <2>4. Pending(r)' = c
    <3>1. Pending(r)' = Quarantined(quar[r])'
      BY <2>1, <2>2 DEF Pending, Unfinished
    <3> QED BY <2>1, <2>2, <3>1 DEF Quarantined, ChangeOf, Diff, TreeOf
  <2>5. c \in Log!Change /\ Log!Outcome(c) = Merged(TRUE, latest, MergedSub(r).tree).tree
    BY <2>3, MergedIsOutcome
  <2>6. Merged(TRUE, latest, MergedSub(r).tree).tree = MergedSub(r).tree
    BY DEF Merged
  <2>7. Log!Outcome(Pending(r)) = MergedSub(r).tree /\ Pending(r) \in Log!Change
    BY <1>1, <1>2, <2>1, SubmittedOutcome
  <2> HIDE DEF c
  <2>8. Log!Next
    BY <2>1, <2>4, <2>5, <2>6, <2>7, Restates
  <2> QED BY <2>8
<1>10. CASE Enqueue(r)
  <2>1. /\ pc[r] = "staged" /\ pc'[r] = "idle" /\ quar'[r] = [quar[r] EXCEPT !.status = "PENDING"]
        /\ OthersKept(r) /\ DirsKept /\ UNCHANGED <<latest, phase, dir>>
    BY <1>10 DEF Enqueue, db, files, OthersKept, DirsKept, IInv, TypeOK
  <2>2. quar[r].status = "STAGING"
    BY <2>1 DEF IInv, OneProcess
  <2>3. \A e \in QuarantineRow :
           /\ [e EXCEPT !.status = "PENDING"].status = "PENDING"
           /\ [e EXCEPT !.status = "PENDING"].prior = e.prior
           /\ [e EXCEPT !.status = "PENDING"].tree = e.tree
           /\ [e EXCEPT !.status = "PENDING"].onDisk = e.onDisk
    BY DEF QuarantineRow
  <2>4. /\ quar'[r].status = "PENDING" /\ quar'[r].prior = quar[r].prior
        /\ quar'[r].tree = quar[r].tree /\ quar'[r].onDisk = quar[r].onDisk
    BY <2>1, <2>3, RecordFacts
  <2>5. Pending(r)' = Pending(r)
    BY <2>1, <2>2, <2>4 DEF Pending, Unfinished, Quarantined, Diff, TreeOf
  <2> QED BY <2>1, <2>5, StutterOrWithdraw
<1>11. CASE Fail(r)
  <2>1. /\ OthersKept(r) /\ DirsKept /\ latest' = latest /\ phase' = phase
        /\ pc[r] = "ready" /\ pc'[r] # "ready" /\ quar'[r] = quar[r]
    BY <1>11 DEF Fail, db, files, quarantine, OthersKept, DirsKept, IInv, TypeOK
  <2> QED BY <1>4, <2>1
<1>12. CASE Crash(r)
  <2>1. /\ OthersKept(r) /\ DirsKept /\ latest' = latest /\ phase' = phase
        /\ pc'[r] # "ready" /\ quar'[r] = quar[r]
    BY <1>12 DEF Crash, db, files, quarantine, OthersKept, DirsKept, IInv, TypeOK
  <2> QED BY <1>4, <1>5, <2>1
<1>13. CASE CrashAfterRename(r)
  <2>1. /\ OthersKept(r) /\ latest' = latest /\ phase' = phase
        /\ pc[r] = "ready" /\ pc'[r] # "ready" /\ quar'[r] = quar[r]
    BY <1>13 DEF CrashAfterRename, db, quarantine, OthersKept, IInv, TypeOK
  <2>2. DirsKept
    BY <1>13, HistoryIsSeq DEF CrashAfterRename, DirsKept, IInv, TypeOK
  <2> QED BY <1>4, <2>1, <2>2
<1>14. CASE ClearQuarantine(r)
  <2>1. /\ OthersKept(r) /\ DirsKept /\ latest' = latest /\ phase' = phase
        /\ pc' = pc /\ sub' = sub /\ quar[r].status = "FAILED" /\ quar'[r] = NoQuar
    BY <1>14 DEF ClearQuarantine, db, files, OthersKept, DirsKept, IInv, TypeOK
  <2>2. pc[r] = "idle"
    BY <2>1 DEF IInv, TypeOK, OneProcess
  <2>3. Pending(r)' = Nothing
    BY <2>1, <2>2 DEF Pending, Unfinished, NoQuar
  <2> QED BY <2>1, <2>3, StutterOrWithdraw
<1> QED BY <1>6, <1>7, <1>8, <1>9, <1>10, <1>11, <1>12, <1>13, <1>14 DEF RequestStep

\* A promotion is of the outcome of the change, a worker that dies while merging leaves one
\* with the same outcome, and a quarantine that is given up is withdrawn.
LEMMA WorkerImplements ==
    ASSUME LInv, NEW r \in Request, WorkerStep(r)
    PROVE  [Log!Next]_(Log!vars)
<1>1. IInv /\ quar[r] \in QuarantineRow
  BY RecordFacts DEF LInv
<1>2. worker[r] # NoWorker => pc[r] = "idle"
  BY <1>1 DEF IInv, OneProcess
<1>3. worker[r].at = "extracted" =>
        /\ worker[r] # NoWorker /\ phase = "draft" /\ pc[r] # "ready"
        /\ quar[r].status = "PENDING" /\ quar[r].onDisk
        /\ Pending(r) = Quarantined(quar[r])
  <2> SUFFICES ASSUME worker[r].at = "extracted"
               PROVE  /\ worker[r] # NoWorker /\ phase = "draft" /\ pc[r] # "ready"
                      /\ quar[r].status = "PENDING" /\ quar[r].onDisk
                      /\ Pending(r) = Quarantined(quar[r])
    OBVIOUS
  <2>1. worker[r] # NoWorker
    BY DEF NoWorker
  <2>2. quar[r].status = "PENDING" /\ quar[r].onDisk
    BY DEF LInv, IInv, WorkerHasPending, ExtractedOnDisk
  <2>3. phase = "draft"
    BY <1>1, <2>2 DEF IInv, QuarantineInDraft, Unfinished
  <2>4. pc[r] # "ready"
    BY <1>2, <2>1
  <2> QED BY <2>1, <2>2, <2>3, <2>4 DEF Pending, Unfinished
<1>4. Quarantined(quar[r]) \in Log!Change /\ Log!Outcome(Quarantined(quar[r])) = MergedQuar(r).tree
  BY <1>1, QuarantinedOutcome
<1>5. ASSUME UNCHANGED <<phase, latest, dir, pc, sub, quar>> PROVE [Log!Next]_(Log!vars)
  <2>1. OthersKept(r) /\ DirsKept
    BY <1>5 DEF OthersKept, DirsKept
  <2>2. Pending(r)' = Pending(r)
    BY <1>1, <1>5, <2>1, PendingKept
  <2> QED BY <1>1, <1>5, <2>1, <2>2, StutterOrWithdraw
<1>6. ASSUME UNCHANGED <<phase, latest, pc, sub>>, DirsKept, worker[r] # NoWorker,
             \A q \in Request \ {r} : quar'[q] = quar[q],
             quar'[r] = quar[r] \/ quar'[r].status \in {"none", "FAILED"} \/ ~quar'[r].onDisk
      PROVE  [Log!Next]_(Log!vars)
  <2>1. OthersKept(r) /\ pc'[r] # "ready"
    BY <1>2, <1>6 DEF OthersKept
  <2>2. CASE quar'[r] = quar[r]
    BY <1>1, <1>2, <1>6, <2>1, <2>2, PendingKept, StutterOrWithdraw
  <2>3. CASE quar'[r].status \in {"none", "FAILED"} \/ ~quar'[r].onDisk
    <3>1. Pending(r)' = Nothing
      BY <2>1, <2>3 DEF Pending, Unfinished
    <3> QED BY <1>1, <1>6, <2>1, <3>1, StutterOrWithdraw
  <2> QED BY <1>6, <2>2, <2>3
<1>7. CASE Claim(r) \/ NothingToValidate(r) \/ Extract(r) \/ QueuePromotedChecks(r) \/ Finish(r)
           \/ WorkerDies(r) \/ TimeOut(r)
  <2>1. UNCHANGED <<phase, latest, dir, pc, sub, quar>>
    BY <1>7 DEF Claim, NothingToValidate, Extract, QueuePromotedChecks, Finish, WorkerDies,
                TimeOut, db, files
  <2> QED BY <1>5, <2>1
<1>8. CASE DirectoryMissing(r) \/ ExtractionFails(r) \/ DeleteRow(r)
  <2>1. /\ UNCHANGED <<phase, latest, dir, pc, sub>> /\ worker[r] # NoWorker
        /\ quar' = [quar EXCEPT ![r] = FailedQuar] \/ quar' = [quar EXCEPT ![r] = NoQuar]
    BY <1>8 DEF DirectoryMissing, ExtractionFails, DeleteRow, db, files, NoWorker
  <2>2. FailedQuar.status = "FAILED" /\ NoQuar.status = "none"
    BY DEF FailedQuar, NoQuar
  <2>3. \A q \in Request \ {r} : quar'[q] = quar[q]
    BY <1>1, <2>1 DEF IInv, TypeOK
  <2>4. quar'[r].status \in {"none", "FAILED"}
    BY <1>1, <2>1, <2>2 DEF IInv, TypeOK
  <2>5. DirsKept
    BY <2>1 DEF DirsKept
  <2> QED BY <1>6, <2>1, <2>3, <2>4, <2>5
<1>9. \A e \in QuarantineRow : \A b \in BOOLEAN : [e EXCEPT !.onDisk = b].onDisk = b
  BY DEF QuarantineRow
<1>10. CASE Promote(r)
  <2>1. /\ worker[r].at = "extracted" /\ NewRevision(MergedQuar(r))
        /\ UNCHANGED <<phase, pc, sub>> /\ quar' = [quar EXCEPT ![r].onDisk = FALSE]
    BY <1>10 DEF Promote
  <2>2. OthersKept(r) /\ quar'[r] = [quar[r] EXCEPT !.onDisk = FALSE]
    BY <1>1, <2>1 DEF OthersKept, IInv, TypeOK
  <2>3. ~quar'[r].onDisk
    BY <1>1, <1>9, <2>2
  <2>4. Pending(r)' = Nothing
    BY <1>3, <2>1, <2>3 DEF Pending
  <2>5. MergedQuar(r).tree \in Tree
    BY <1>1, MergedQuarFacts
  <2>6. Log!Next
    BY <1>1, <1>3, <1>4, <2>1, <2>2, <2>4, <2>5, Applies
  <2> QED BY <2>6
<1>11. CASE WorkerRaises(r)
  <2>1. PICK left \in {quar[r].onDisk, quar[r].onDisk /\ worker[r].at # "extracted"} :
            quar' = [quar EXCEPT ![r].onDisk = left]
    BY <1>11 DEF WorkerRaises
  <2>2. UNCHANGED <<phase, latest, dir, pc, sub>> /\ worker[r] # NoWorker
    BY <1>11 DEF WorkerRaises, db, files, NoWorker
  <2>3. quar'[r] = [quar[r] EXCEPT !.onDisk = left] /\ \A q \in Request \ {r} : quar'[q] = quar[q]
    BY <1>1, <2>1 DEF IInv, TypeOK
  <2>4. \A e \in QuarantineRow : e.onDisk \in BOOLEAN /\ [e EXCEPT !.onDisk = e.onDisk] = e
    BY DEF QuarantineRow
  <2>5. left \in BOOLEAN
    BY <1>1, <2>4
  <2>6. quar'[r].onDisk = left
    BY <1>1, <1>9, <2>3, <2>5
  <2>7. left = quar[r].onDisk \/ left = FALSE
    BY <1>1, <2>4
  <2>8. quar'[r] = quar[r] \/ ~quar'[r].onDisk
    <3>1. CASE left = quar[r].onDisk
      BY <1>1, <2>3, <2>4, <3>1
    <3>2. CASE left = FALSE
      BY <2>6, <3>2
    <3> QED BY <2>7, <3>1, <3>2
  <2>9. DirsKept
    BY <2>2 DEF DirsKept
  <2> QED BY <1>6, <2>2, <2>3, <2>8, <2>9
<1>12. CASE WorkerDiesMerging(r)
  <2>1. PICK visited \in SUBSET Path, removed \in {{}} \union {{x} : x \in Replaceable(r)} :
            quar' = [quar EXCEPT ![r].tree =
                [x \in Path |-> IF x \in removed THEN Absent
                                ELSE IF x \in visited THEN MergedQuar(r).tree[x] ELSE @[x]]]
    BY <1>12 DEF WorkerDiesMerging
  <2> DEFINE tree == [x \in Path |-> IF x \in removed THEN Absent
                                     ELSE IF x \in visited THEN MergedQuar(r).tree[x]
                                     ELSE quar[r].tree[x]]
  <2>2. quar' = [quar EXCEPT ![r].tree = tree]
    BY <2>1
  <2>3. UNCHANGED <<phase, latest, dir, pc, sub>> /\ worker[r].at = "extracted"
    BY <1>12 DEF WorkerDiesMerging, db, files
  <2>4. tree \in Tree
    BY <1>1, RecordFacts, MergedQuarFacts DEF Tree
  <2> DEFINE old == quar[r].prior
             new == quar[r].tree
  <2>5. old \in 0 .. latest /\ new \in Tree
    BY <1>1, RecordFacts
  <2>6. /\ removed = {} => Merged(TRUE, old, tree).tree = Merged(TRUE, old, new).tree
        /\ \A z \in Replaceable(r) : removed = {z} =>
               Merged(TRUE, old, tree).tree = [Merged(TRUE, old, new).tree EXCEPT ![z] = Absent]
    <3>1. CASE old # 0 /\ latest # old
      <4>1. MergedQuar(r).tree = Merge(TreeOf(old), TreeOf(latest), new)
        BY <3>1 DEF MergedQuar, Merged
      <4>2. removed = {} =>
              Merge(TreeOf(old), TreeOf(latest), tree) = Merge(TreeOf(old), TreeOf(latest), new)
        BY <4>1 DEF Merge
      <4>3. ASSUME NEW z \in Replaceable(r), removed = {z}
            PROVE  Merge(TreeOf(old), TreeOf(latest), tree) =
                       [Merge(TreeOf(old), TreeOf(latest), new) EXCEPT ![z] = Absent]
        <5>1. z \in Path /\ TreeOf(old)[z] # Absent
          BY DEF Replaceable
        <5> QED BY <4>1, <4>3, <5>1 DEF Merge
      <4> HIDE DEF tree
      <4> QED BY <3>1, <4>2, <4>3 DEF Merged
    <3>2. CASE ~(old # 0 /\ latest # old)
      <4>1. MergedQuar(r).tree = new /\ Replaceable(r) = {}
        BY <3>2 DEF MergedQuar, Merged, Replaceable
      <4>2. removed = {} /\ tree = new
        BY <2>5, <4>1 DEF Tree
      <4> QED BY <4>1, <4>2
    <3> QED BY <3>1, <3>2
  <2> HIDE DEF tree
  <2>7. \A e \in QuarantineRow : \A t \in Tree :
           /\ [e EXCEPT !.tree = t].tree = t
           /\ [e EXCEPT !.tree = t].prior = e.prior
           /\ [e EXCEPT !.tree = t].status = e.status
           /\ [e EXCEPT !.tree = t].onDisk = e.onDisk
    BY DEF QuarantineRow
  <2>8. quar'[r] = [quar[r] EXCEPT !.tree = tree] /\ OthersKept(r) /\ DirsKept
    BY <1>1, <2>2, <2>3 DEF OthersKept, DirsKept, IInv, TypeOK
  <2>9. /\ quar'[r].tree = tree /\ quar'[r].prior = old
        /\ quar'[r].status = quar[r].status /\ quar'[r].onDisk = quar[r].onDisk
    BY <1>1, <2>4, <2>7, <2>8
  <2> DEFINE c == ChangeOf(old, tree)
  <2>10. Pending(r)' = c
    <3>1. Pending(r)' = Quarantined(quar[r])'
      BY <1>3, <2>3, <2>9 DEF Pending, Unfinished
    <3> QED BY <2>3, <2>9, <3>1 DEF Quarantined, ChangeOf, Diff, TreeOf
  <2>11. c \in Log!Change /\ Log!Outcome(c) = Merged(TRUE, old, tree).tree
    BY <1>1, <2>4, <2>5, MergedIsOutcome
  <2>12. Log!Outcome(Pending(r)) = Merged(TRUE, old, new).tree /\ Pending(r) \in Log!Change
    BY <1>3, <1>4, <2>3 DEF MergedQuar
  <2> HIDE DEF c
  <2>13. CASE removed = {}
    BY <1>1, <2>3, <2>6, <2>8, <2>10, <2>11, <2>12, <2>13, Restates
  <2>14. ASSUME NEW z \in Replaceable(r), removed = {z} PROVE Log!Next
    <3>1. /\ z \in Path /\ old # 0 /\ new[z] = TreeOf(old)[z] /\ TreeOf(latest)[z] # Absent
      BY DEF Replaceable
    <3>2. Pending(r)[z] = Keep
      BY <1>3, <2>3, <3>1 DEF Pending, Quarantined, Diff, Unfinished
    <3>3. Log!Outcome(c) = [Log!Outcome(Pending(r)) EXCEPT ![z] = Absent]
      BY <2>6, <2>11, <2>12, <2>14
    <3> QED BY <1>1, <2>3, <2>8, <2>10, <2>11, <2>12, <3>1, <3>2, <3>3, Damages
  <2> QED BY <2>13, <2>14
<1>13. CASE WorkerDiesAfterRename(r)
  <2>1. /\ worker[r].at = "extracted" /\ UNCHANGED <<phase, latest, pc, sub>>
        /\ quar' = [quar EXCEPT ![r].onDisk = FALSE]
        /\ dir' = [dir EXCEPT ![latest + 1] = MergedQuar(r).tree]
    BY <1>13 DEF WorkerDiesAfterRename, db
  <2>2. /\ quar'[r] = [quar[r] EXCEPT !.onDisk = FALSE]
        /\ \A q \in Request \ {r} : quar'[q] = quar[q]
    BY <1>1, <2>1 DEF IInv, TypeOK
  <2>3. ~quar'[r].onDisk
    BY <1>1, <1>9, <2>2
  <2>4. DirsKept
    BY <1>1, <2>1, HistoryIsSeq DEF DirsKept, IInv, TypeOK
  <2> QED BY <1>3, <1>6, <2>1, <2>2, <2>3, <2>4
<1> QED BY <1>7, <1>8, <1>10, <1>11, <1>12, <1>13 DEF WorkerStep

\* A vote freezes the log, and thaws it if it fails.
LEMMA VoteImplements ==
    ASSUME IInv,
           \/ \E k \in Number : ChecksFinish(k)
           \/ \E v \in Voter : VoteStep(v)
           \/ ResolveVote
    PROVE  [Log!Next]_(Log!vars)
<1>1. UNCHANGED <<latest, dir, pc, sub, quar>>
  BY DEF ChecksFinish, VoteStep, ReadForVote, StartVote, VoteRefused, ResolveVote, db, files,
         quarantine
<1>2. History' = History
  BY <1>1, HistoryKept DEF DirsKept
<1>3. Pend' = Pend
  <2>1. \A q \in Request : Pending(q)' = Pending(q)
    BY <1>1, PendingKept DEF DirsKept
  <2> QED BY <2>1 DEF Pend
<1>4. CASE phase' = phase
  BY <1>2, <1>3, <1>4 DEF Log!vars, Pend
<1>5. CASE \E v \in Voter : StartVote(v)
  <2>1. PICK v \in Voter : StartVote(v)
    BY <1>5
  <2>2. latest # 0 /\ phase' = "candidate"
    BY <2>1 DEF StartVote
  <2>3. History # <<>>
    BY <2>2, HistoryIsSeq, EmptySeq
  <2>4. Log!Freeze
    BY <1>2, <1>3, <2>2, <2>3 DEF Log!Freeze, Pend
  <2> QED BY <2>4 DEF Log!Next
<1>6. CASE ResolveVote
  <2>1. CASE phase' = "preview"
    BY <1>2, <1>3, <1>6, <2>1 DEF ResolveVote, Log!vars, Pend
  <2>2. CASE phase' = "draft"
    <3>1. Log!Thaw
      BY <1>2, <1>3, <2>2 DEF Log!Thaw, Pend
    <3> QED BY <3>1 DEF Log!Next
  <2> QED BY <1>6, <2>1, <2>2 DEF ResolveVote
<1> QED BY <1>4, <1>5, <1>6 DEF ChecksFinish, VoteStep, ReadForVote, VoteRefused, db

----------------------------------------------------------------------------
(* The theorem *)

\* A worker that has extracted the archives is the only one that moves their directory.
LEMMA ExtractedOnDiskKept == IInv /\ ExtractedOnDisk /\ [Next]_vars => ExtractedOnDisk'
<1> SUFFICES ASSUME IInv, ExtractedOnDisk, [Next]_vars,
                    NEW q \in Request, worker'[q].at = "extracted"
             PROVE  quar'[q].onDisk
  BY DEF ExtractedOnDisk
<1>1. quar[q] \in QuarantineRow
  BY RecordFacts
<1>2. ASSUME quar'[q] = quar[q], worker'[q] = worker[q] PROVE quar'[q].onDisk
  BY <1>2 DEF ExtractedOnDisk
<1>3. CASE Next
  <2>1. ASSUME NEW r \in Request, RequestStep(r) PROVE quar'[q].onDisk
    <3>1. CASE q = r
      <4>1. worker' = worker
        BY <2>1 DEF RequestStep, BeginEdit, BeginExact, BeginSource, BeginRestore, Prepare, Commit,
                    QueueChecks, Quarantine, Enqueue, Fail, Crash, CrashAfterRename,
                    ClearQuarantine, quarantine
      <4>2. worker[q].at = "extracted" /\ worker[q] # NoWorker
        BY <4>1 DEF NoWorker
      <4>3. pc[q] = "idle" /\ quar[q].status = "PENDING"
        BY <4>2 DEF IInv, OneProcess, WorkerHasPending
      <4>4. quar' = quar
        BY <2>1, <3>1, <4>3
           DEF RequestStep, BeginEdit, BeginExact, BeginSource, BeginRestore, Prepare, Commit,
               QueueChecks, Quarantine, Enqueue, Fail, Crash, CrashAfterRename,
               ClearQuarantine, quarantine
      <4> QED BY <1>2, <4>1, <4>4
    <3>2. CASE q # r
      <4>1. quar'[q] = quar[q] /\ worker'[q] = worker[q]
        BY <2>1, <3>2
           DEF RequestStep, BeginEdit, BeginExact, BeginSource, BeginRestore, Prepare, Commit,
               QueueChecks, Quarantine, Enqueue, Fail, Crash, CrashAfterRename,
               ClearQuarantine, quarantine, IInv, TypeOK
      <4> QED BY <1>2, <4>1
    <3> QED BY <3>1, <3>2
  <2>2. ASSUME NEW r \in Request, WorkerStep(r) PROVE quar'[q].onDisk
    <3>1. CASE q # r
      <4>1. quar'[q] = quar[q]
        BY <2>2, <3>1
           DEF WorkerStep, Claim, NothingToValidate, DirectoryMissing, ExtractionFails, Extract,
               Promote, QueuePromotedChecks, DeleteRow, Finish, WorkerRaises, WorkerDies,
               WorkerDiesMerging, WorkerDiesAfterRename, TimeOut, IInv, TypeOK
      <4>2. worker'[q] = worker[q]
        BY <2>2, <3>1
           DEF WorkerStep, Claim, NothingToValidate, DirectoryMissing, ExtractionFails, Extract,
               Promote, QueuePromotedChecks, DeleteRow, Finish, WorkerRaises, WorkerDies,
               WorkerDiesMerging, WorkerDiesAfterRename, TimeOut, WorkerAt, IInv, TypeOK
      <4> QED BY <1>2, <4>1, <4>2
    <3>2. CASE q = r /\ Extract(r)
      BY <3>2 DEF Extract
    <3>3. CASE q = r /\ TimeOut(r)
      BY <1>2, <3>3 DEF TimeOut
    <3>4. CASE q = r /\ ~Extract(r) /\ ~TimeOut(r)
      <4>1. worker'[q].at # "extracted"
        BY <2>2, <3>4
           DEF WorkerStep, Claim, NothingToValidate, DirectoryMissing, ExtractionFails,
               Promote, QueuePromotedChecks, DeleteRow, Finish, WorkerRaises, WorkerDies,
               WorkerDiesMerging, WorkerDiesAfterRename, WorkerAt, NoWorker, IInv, TypeOK,
               WorkerState
      <4> QED BY <4>1
    <3> QED BY <3>1, <3>2, <3>3, <3>4
  <2>3. CASE (\E k \in Number : ChecksFinish(k)) \/ (\E v \in Voter : VoteStep(v)) \/ ResolveVote
    <3>1. quar' = quar /\ worker' = worker
      BY <2>3 DEF ChecksFinish, VoteStep, ReadForVote, StartVote, VoteRefused, ResolveVote,
                  quarantine
    <3> QED BY <1>2, <3>1
  <2> QED BY <1>3, <2>1, <2>2, <2>3 DEF Next
<1>4. CASE UNCHANGED vars
  BY <1>2, <1>4 DEF vars
<1> QED BY <1>3, <1>4

\* The first submission, of no files, is there when the release is.
LEMMA InitImplements == Init => Log!Init
<1> SUFFICES ASSUME Init PROVE Log!Init
  OBVIOUS
<1>1. History = <<>>
  BY DEF Init, History
<1>2. \A r \in Request : Pending(r) = IF r = Starter THEN Empty ELSE Nothing
  <2> SUFFICES ASSUME NEW r \in Request
               PROVE  Pending(r) = IF r = Starter THEN Empty ELSE Nothing
    OBVIOUS
  <2>1. CASE r = Starter
    <3>1. pc[r] = "ready" /\ sub[r] = [NoSub EXCEPT !.kind = "edit"]
      BY <2>1 DEF Init
    <3>2. sub[r].old = 0 /\ sub[r].new = Empty
      BY <3>1 DEF NoSub
    <3> QED BY <2>1, <3>1, <3>2 DEF Pending, Submitted
  <2>2. CASE r # Starter
    <3>1. pc[r] = "idle" /\ quar[r] = NoQuar
      BY <2>2 DEF Init
    <3> QED BY <2>2, <3>1 DEF Pending, Unfinished, NoQuar
  <2> QED BY <2>1, <2>2
<1>3. phase = "draft"
  BY DEF Init
<1> QED BY <1>1, <1>2, <1>3 DEF Log!Init, Log!Empty, Empty

\* Every step is one of the log, or none.
LEMMA StepImplements == LInv /\ [Next]_vars => [Log!Next]_(Log!vars)
<1> SUFFICES ASSUME LInv, [Next]_vars PROVE [Log!Next]_(Log!vars)
  OBVIOUS
<1>1. IInv
  BY DEF LInv
<1>2. CASE \E r \in Request : RequestStep(r)
  BY <1>1, <1>2, RequestImplements
<1>3. CASE \E r \in Request : WorkerStep(r)
  BY <1>3, WorkerImplements
<1>4. CASE (\E k \in Number : ChecksFinish(k)) \/ (\E v \in Voter : VoteStep(v)) \/ ResolveVote
  BY <1>1, <1>4, VoteImplements
<1>5. CASE UNCHANGED vars
  <2>1. History' = History
    BY <1>5, HistoryKept DEF vars, DirsKept
  <2>2. \A q \in Request : Pending(q)' = Pending(q)
    BY <1>1, <1>5, PendingKept DEF vars, DirsKept
  <2>3. Pend' = Pend
    BY <2>2 DEF Pend
  <2> QED BY <1>5, <2>1, <2>3 DEF vars, Log!vars, Pend
<1> QED BY <1>2, <1>3, <1>4, <1>5 DEF Next

\* Whatever is overtaken, retried, killed or timed out, each submission is applied to the
\* latest revision at most once, never during a vote, and as its author made it, but for what
\* a kill inside a merge does to it (Restate and Damage in RevisionLog)
\* (create_revision_with_quarantine, _promote and start_vote_no_commit together).
THEOREM RevisionsAreALog == Spec => ImplementsLog
<1>1. Init => ExtractedOnDisk
  BY DEF Init, ExtractedOnDisk, NoWorker
<1>2. Spec => []LInv
  BY <1>1, Invariance, ExtractedOnDiskKept, PTL DEF Spec, LInv
<1> QED BY <1>2, InitImplements, StepImplements, PTL DEF Spec, Log!Spec, ImplementsLog
=============================================================================
