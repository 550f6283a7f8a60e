---------------------------- MODULE Merge_proofs ---------------------------
(***************************************************************************)
(* Proofs about Merge, for any paths, inodes and contents.                 *)
(***************************************************************************)
EXTENDS Merge, TLAPS

\* What the loop makes of a path, whenever it visits it: no visit looks at what
\* another one has done.
Outcome(x) ==
    IF OnlyPrior(x) THEN (IF TypeConflict(new, dirs, x) THEN Absent ELSE prior[x])
    ELSE IF PriorDeleted(x) THEN (IF ContentMatches(base[x], new[x]) THEN Absent ELSE new[x])
    ELSE IF AllPresent(x) /\ PriorReplaces(base[x], prior[x], new[x]) THEN prior[x]
    ELSE new[x]

\* The inductive invariant: visited paths have their outcome, the others are
\* still the writer's.
IInv ==
    /\ TypeOK
    /\ \A x \in Path : temp[x] = IF x \in todo THEN new[x] ELSE Outcome(x)
    /\ RecordDescribesTemp

----------------------------------------------------------------------------
\* A tree holds an inode or nothing at each path, and nothing above a file.
LEMMA TreeFacts ==
    ASSUME NEW t \in Tree, NEW x \in Path
    PROVE  /\ t[x] \in MaybeInode
           /\ t[x] # Absent => \A y \in Above[x] : y \in Path /\ t[y] = Absent
BY AboveAssumption DEF Tree

\* The content of a file is a hash, and only a missing file has none.
LEMMA ContentType ==
    ASSUME NEW i \in MaybeInode
    PROVE  Content(i) \in Hashes \union {Absent}
BY DEF Content, Hashes, MaybeInode

\* The loop starts with the writer's directory.
LEMMA IInvInit == Init => IInv
<1> SUFFICES ASSUME Init PROVE IInv
  OBVIOUS
<1>1. new \in [Path -> MaybeInode]
  BY DEF Init, Tree
<1>2. record \in [Path -> Hashes \union {Absent}]
  BY <1>1, ContentType DEF Init, Contents
<1>3. TypeOK
  BY <1>1, <1>2 DEF Init, TypeOK
<1> QED BY <1>1, <1>3 DEF Init, IInv, RecordDescribesTemp

\* A visit gives the path its outcome, in the directory and in the record.
LEMMA VisitFacts ==
    ASSUME IInv, NEW x \in todo,
           \/ AddFromPrior(x) \/ SkipTypeConflict(x) \/ ApplyDeletion(x)
           \/ KeepEdited(x) \/ ReplaceWithPrior(x) \/ KeepNew(x)
    PROVE  /\ temp' = [temp EXCEPT ![x] = Outcome(x)]
           /\ record' = [record EXCEPT ![x] = Content(Outcome(x))]
           /\ Visit(x) /\ Outcome(x) \in MaybeInode
<1>1. x \in Path /\ temp[x] = new[x] /\ temp \in [Path -> MaybeInode]
  BY DEF IInv, TypeOK
<1>2. prior[x] \in MaybeInode /\ new[x] \in MaybeInode
  BY <1>1, TreeFacts DEF IInv, TypeOK
<1>3. record \in [Path -> Hashes \union {Absent}] /\ record[x] = Content(new[x])
  BY <1>1 DEF IInv, TypeOK, RecordDescribesTemp, Contents
<1>4. Content(Absent) = Absent
  BY DEF Content
<1>5. CASE AddFromPrior(x)
  BY <1>2, <1>5 DEF AddFromPrior, TakePrior, Outcome
<1>6. CASE SkipTypeConflict(x)
  <2>1. Outcome(x) = new[x] /\ new[x] = Absent
    BY <1>6 DEF SkipTypeConflict, Outcome, OnlyPrior
  <2> QED BY <1>1, <1>2, <1>3, <1>6, <2>1 DEF SkipTypeConflict, LeaveNew
<1>7. CASE ApplyDeletion(x)
  <2>1. Outcome(x) = Absent
    BY <1>7 DEF ApplyDeletion, Outcome, OnlyPrior, PriorDeleted
  <2> QED BY <1>4, <1>7, <2>1 DEF ApplyDeletion, MaybeInode
<1>8. CASE KeepEdited(x)
  <2>1. Outcome(x) = new[x]
    BY <1>8 DEF KeepEdited, Outcome, OnlyPrior, PriorDeleted
  <2> QED BY <1>1, <1>2, <1>3, <1>8, <2>1 DEF KeepEdited, LeaveNew
<1>9. CASE ReplaceWithPrior(x)
  <2>1. Outcome(x) = prior[x]
    BY <1>9 DEF ReplaceWithPrior, Outcome, OnlyPrior, PriorDeleted, AllPresent
  <2> QED BY <1>2, <1>9, <2>1 DEF ReplaceWithPrior, TakePrior
<1>10. CASE KeepNew(x)
  <2>1. Outcome(x) = new[x]
    BY <1>10 DEF KeepNew, Outcome, OnlyPrior, PriorDeleted, AllPresent
  <2> QED BY <1>1, <1>2, <1>3, <1>10, <2>1 DEF KeepNew, LeaveNew
<1> QED BY <1>5, <1>6, <1>7, <1>8, <1>9, <1>10

\* Every visit preserves the invariant.
LEMMA IInvStep == IInv /\ [Next]_vars => IInv'
<1> SUFFICES ASSUME IInv, [Next]_vars PROVE IInv'
  OBVIOUS
<1>1. CASE Next
  <2>1. PICK x \in todo : \/ AddFromPrior(x) \/ SkipTypeConflict(x) \/ ApplyDeletion(x)
                          \/ KeepEdited(x) \/ ReplaceWithPrior(x) \/ KeepNew(x)
    BY <1>1 DEF Next
  <2>2. /\ temp' = [temp EXCEPT ![x] = Outcome(x)]
        /\ record' = [record EXCEPT ![x] = Content(Outcome(x))]
        /\ Visit(x) /\ Outcome(x) \in MaybeInode
    BY <2>1, VisitFacts
  <2>3. UNCHANGED <<base, prior, new, dirs>> /\ todo' = todo \ {x}
    BY <2>2 DEF Visit
  <2>4. x \in Path
    BY DEF IInv, TypeOK
  <2>5. TypeOK'
    BY <2>2, <2>3, ContentType DEF IInv, TypeOK
  <2>6. ASSUME NEW y \in Path
        PROVE  temp'[y] = IF y \in todo' THEN new'[y] ELSE Outcome(y)'
    <3>1. Outcome(y)' = Outcome(y)
      BY <2>3 DEF Outcome, OnlyPrior, PriorDeleted, AllPresent, TypeConflict, ImpliedDirs
    <3>2. temp[y] = IF y \in todo THEN new[y] ELSE Outcome(y)
      BY DEF IInv
    <3> QED BY <2>2, <2>3, <2>4, <3>1, <3>2 DEF IInv, TypeOK
  <2>7. RecordDescribesTemp'
    BY <2>2, <2>4 DEF IInv, TypeOK, RecordDescribesTemp, Contents
  <2> QED BY <2>5, <2>6, <2>7 DEF IInv
<1>2. CASE UNCHANGED vars
  BY <1>2 DEF vars, IInv, TypeOK, RecordDescribesTemp, Contents, Outcome, OnlyPrior,
              PriorDeleted, AllPresent, TypeConflict, ImpliedDirs
<1> QED BY <1>1, <1>2

\* The invariant holds throughout the loop.
THEOREM Invariance == Spec => []IInv
BY IInvInit, IInvStep, PTL DEF Spec

----------------------------------------------------------------------------
\* The merge keeps the types of the directory and of the hash map.
THEOREM TypeCorrect == Spec => []TypeOK
<1>1. IInv => TypeOK
  BY DEF IInv
<1> QED BY <1>1, Invariance, PTL

\* The directory is a possible one at every moment of merge(), in whatever order
\* it visits the paths.
THEOREM DirectoryStaysPossible == Spec => []TempIsATree
<1>1. ASSUME IInv, NEW x \in Path, temp[x] # Absent, NEW y \in Above[x]
      PROVE  temp[y] = Absent
  <2>1. y \in Path
    BY AboveAssumption
  <2>2. base \in Tree /\ prior \in Tree /\ new \in Tree
    BY <1>1 DEF IInv, TypeOK
  <2>3. \A z \in Path : temp[z] \in {new[z], Outcome(z)}
    BY <1>1 DEF IInv
  <2>4. CASE new[x] # Absent
    <3>1. new[y] = Absent
      BY <2>2, <2>4, TreeFacts
    <3>2. TypeConflict(new, dirs, y)
      BY <2>4 DEF TypeConflict, ImpliedDirs
    <3> QED BY <2>1, <2>3, <3>1, <3>2 DEF Outcome, OnlyPrior, PriorDeleted, AllPresent
  <2>5. CASE new[x] = Absent
    <3>1. Outcome(x) # Absent
      BY <1>1, <2>3, <2>5
    <3>2. OnlyPrior(x) /\ ~TypeConflict(new, dirs, x)
      BY <2>5, <3>1 DEF Outcome, PriorDeleted, AllPresent
    <3>3. new[y] = Absent
      BY <3>2 DEF TypeConflict
    <3>4. prior[y] = Absent
      BY <2>2, <3>2, TreeFacts DEF OnlyPrior
    <3> QED BY <2>1, <2>3, <3>3, <3>4 DEF Outcome, OnlyPrior, PriorDeleted, AllPresent
  <2> QED BY <2>4, <2>5
<1>2. IInv => TempIsATree
  BY <1>1 DEF IInv, TypeOK, TempIsATree, Tree
<1> QED BY <1>2, Invariance, PTL

\* n_hashes describes the directory at every moment, so that the attestable data
\* of a merged revision are those of its files.
THEOREM RecordStaysTrue == Spec => []RecordDescribesTemp
<1>1. IInv => RecordDescribesTemp
  BY DEF IInv
<1> QED BY <1>1, Invariance, PTL

\* The outcome of a visited path is the three-way merge of its contents, a type conflict
\* apart.
LEMMA ThreeWayUnlessConflict ==
    ASSUME IInv, todo = {}, NEW x \in Path, ~(OnlyPrior(x) /\ TypeConflict(new, dirs, x))
    PROVE  Content(temp[x]) = ThreeWay(x)
<1>1. temp[x] = Outcome(x)
  BY DEF IInv
<1>2. base[x] \in MaybeInode /\ prior[x] \in MaybeInode /\ new[x] \in MaybeInode
  BY TreeFacts DEF IInv, TypeOK
<1>3. \A i \in MaybeInode : Content(i) = Absent <=> i = Absent
  BY HashAssumption DEF Content, MaybeInode
<1> QED BY <1>1, <1>2, <1>3
      DEF Outcome, OnlyPrior, PriorDeleted, AllPresent, PriorReplaces, ContentMatches,
          ThreeWay

\* Deciding by inodes first and by hashes only when it must, merge() ends with the
\* three-way merge of the contents wherever there is no type conflict.
THEOREM MergeIsThreeWay == Spec => []MergedIsThreeWay
<1>1. IInv => MergedIsThreeWay
  BY ThreeWayUnlessConflict DEF MergedIsThreeWay
<1> QED BY <1>1, Invariance, PTL

\* A writer that changed nothing loses of the intervening revision only what conflicts
\* with entries that the merge deletes too (_has_type_conflict, merge).
THEOREM ConflictsAreWithDeleted == Spec => []LostForNothing
<1>1. ASSUME IInv, todo = {}, new = base, NEW x \in Path, Content(temp[x]) # Content(prior[x])
      PROVE  OnlyPrior(x) /\ TypeConflict(new, dirs, x)
  BY <1>1, ThreeWayUnlessConflict DEF ThreeWay
<1>2. ASSUME IInv, NEW x \in Path
      PROVE  /\ temp[x] \in MaybeInode /\ prior[x] \in MaybeInode
             /\ Content(temp[x]) = Absent <=> temp[x] = Absent
             /\ Content(prior[x]) = Absent <=> prior[x] = Absent
  BY <1>2, TreeFacts, HashAssumption DEF IInv, TypeOK, Content, MaybeInode
\* Where the prior revision has nothing, nothing is left.
<1>3. ASSUME IInv, todo = {}, new = base, NEW y \in Path, prior[y] = Absent
      PROVE  temp[y] = Absent
  BY <1>1, <1>2, <1>3 DEF OnlyPrior
<1>4. ASSUME IInv, todo = {}, new = base, NEW x \in Path, prior[x] # Absent
      PROVE  ~TypeConflict(temp, {}, x)
  <2>1. \A y \in Above[x] : y \in Path /\ prior[y] = Absent
    BY <1>4, TreeFacts DEF IInv, TypeOK
  <2>2. ASSUME x \in ImpliedDirs(temp) PROVE FALSE
    <3>1. PICK z \in Path : temp[z] # Absent /\ x \in Above[z]
      BY <2>2 DEF ImpliedDirs
    <3>2. prior[z] = Absent
      BY <1>4, <3>1, TreeFacts DEF IInv, TypeOK
    <3> QED BY <1>3, <1>4, <3>1, <3>2
  <2> QED BY <1>3, <1>4, <2>1, <2>2 DEF TypeConflict
<1>5. IInv => LostForNothing
  <2> SUFFICES ASSUME IInv, todo = {}, dirs = {}, new = base, NEW x \in Path,
                      Content(temp[x]) # Content(prior[x])
               PROVE  OnlyPrior(x) /\ TypeConflict(new, dirs, x) /\ ~TypeConflict(temp, {}, x)
    BY DEF LostForNothing
  <2> QED BY <1>1, <1>4 DEF OnlyPrior
<1> QED BY <1>5, Invariance, PTL
=============================================================================
