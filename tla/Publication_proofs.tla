------------------------- MODULE Publication_proofs -------------------------
(***************************************************************************)
(* Proofs about the publication: its types, that the recorded revision is  *)
(* the commit of ATR that published the release, that no removal takes     *)
(* more than was planned, that no archived release is forgotten and that   *)
(* the archive agrees with the files, for any number of releases, tasks    *)
(* and commits.                                                            *)
(***************************************************************************)
EXTENDS Publication, TLAPS

Commit == [by : {"atr", "hand"}, op : {"add", "rm"}, rels : SUBSET Release, made : BOOLEAN]

PubRow == [st : {"none", "queued", "active", "imported", "done", "failed"}, at : 0 .. MaxCommits]

RmRow == [st : {"none", "queued", "planned", "removed", "failing", "reverted", "over"},
          rel : Release \union {0}, base : 0 .. MaxCommits]

RmFits(row) == /\ row.st \in {"none", "over"} <=> row.rel = 0
               /\ row.st \in {"none", "queued", "over"} => row.base = 0

\* The type invariant, by the parts that steps change.
RowsType ==
    /\ phase \in [Release -> {"preview", "release"}]
    /\ archived \subseteq {v \in Release : phase[v] = "release"}
    /\ checked \subseteq Release /\ prior \subseteq Release
PubType == pub \in [Release -> PubRow]
RmType == rm \in [Removal -> RmRow] /\ \A t \in Removal : RmFits(rm[t])
LogType == log \in Seq(Commit) /\ Youngest <= MaxCommits
WatcherType == watcher \in [seen : 0 .. Youngest, staged : 0 .. Youngest, cursor : 0 .. Youngest]

LEMMA TypeSplit ==
    TypeOK <=> /\ profile \in Profile /\ faults \in 0 .. MaxFaults
               /\ RowsType /\ PubType /\ RmType /\ LogType /\ WatcherType
  BY DEF TypeOK, RowsType, PubType, PubRow, RmType, RmRow, RmFits, LogType, Commit, WatcherType

LEMMA InitType == Init => TypeOK
  <1> SUFFICES ASSUME Init PROVE TypeOK
    OBVIOUS
  <1>1. RowsType
    BY DEF Init, RowsType
  <1>2. NoPub \in PubRow /\ NoRemoval \in RmRow /\ RmFits(NoRemoval)
    BY BoundAssumption DEF NoPub, PubRow, NoRemoval, RmRow, RmFits
  <1>3. PubType /\ RmType
    BY <1>2 DEF Init, PubType, RmType
  <1>4. LogType /\ WatcherType
    BY BoundAssumption DEF Init, LogType, WatcherType, Youngest
  <1>5. profile \in Profile /\ faults \in 0 .. MaxFaults
    BY BoundAssumption DEF Init
  <1> QED BY <1>1, <1>3, <1>4, <1>5, TypeSplit

----------------------------------------------------------------------------
(* The repository *)

LEMMA NeighboursAreReleases ==
    ASSUME NEW v \in Release
    PROVE  Beside(v) \subseteq Release /\ v \in Beside(v) /\ v # 0
  BY ReleaseAssumption DEF Beside

\* A commit that adds or removes is a commit.
LEMMA AddCommits ==
    ASSUME LogType, NEW by \in {"atr", "hand"}, NEW v \in Release, Add(by, v)
    PROVE  /\ Youngest < MaxCommits
           /\ \E c \in Commit : /\ log' = Append(log, c)
                                /\ c.by = by /\ c.op = "add" /\ c.rels = {v}
  <1> DEFINE c == [by |-> by, op |-> "add", rels |-> {v}, made |-> Together(v, Youngest) = {}]
  <1>1. (Together(v, Youngest) = {}) \in BOOLEAN /\ {v} \in SUBSET Release
    BY Zenon
  <1>2. c \in Commit /\ c.by = by /\ c.op = "add" /\ c.rels = {v}
    BY <1>1, Zenon DEF Commit
  <1>3. Youngest < MaxCommits /\ log' = Append(log, c)
    BY DEF Add
  <1> HIDE DEF c
  <1> QED BY <1>2, <1>3

LEMMA RemoveCommits ==
    ASSUME LogType, NEW by \in {"atr", "hand"}, NEW vs \in SUBSET Release, Remove(by, vs)
    PROVE  /\ Youngest < MaxCommits
           /\ \E c \in Commit : /\ log' = Append(log, c)
                                /\ c.by = by /\ c.op = "rm" /\ c.rels = vs
  <1> DEFINE c == [by |-> by, op |-> "rm", rels |-> vs, made |-> FALSE]
  <1>1. c \in Commit /\ c.by = by /\ c.op = "rm" /\ c.rels = vs
    BY Zenon DEF Commit
  <1>2. Youngest < MaxCommits /\ log' = Append(log, c)
    BY DEF Remove
  <1> HIDE DEF c
  <1> QED BY <1>1, <1>2

\* A task whose removal is planned has a release.
LEMMA PlannedRelease ==
    ASSUME RmType, NEW t \in Removal, rm[t].st \notin {"none", "over"}
    PROVE  rm[t].rel \in Release
  BY DEF RmType, RmRow, RmFits

LEMMA RemovesCommits ==
    ASSUME LogType, RmType, NEW t \in Removal, rm[t].st = "planned", Removes(t)
    PROVE  /\ Youngest < MaxCommits
           /\ \E c \in Commit :
                 /\ log' = Append(log, c) /\ c.by = "atr" /\ c.op = "rm"
                 /\ c.rels = IF Whole(t) THEN Together(rm[t].rel, Youngest) ELSE {rm[t].rel}
  <1>1. rm[t].rel \in Release
    BY PlannedRelease
  <1>2. Together(rm[t].rel, Youngest) \subseteq Release
    BY <1>1, NeighboursAreReleases DEF Together
  <1> QED BY <1>1, <1>2, RemoveCommits DEF Removes

\* What a step does to the log: nothing, or one more commit.
Grows == \/ UNCHANGED log
         \/ Youngest < MaxCommits /\ \E c \in Commit : log' = Append(log, c)

LEMMA LogGrows ==
    ASSUME TypeOK, Next
    PROVE  Grows
  <1>1. LogType /\ RmType
    BY TypeSplit
  <1>2. ASSUME NEW v \in Release, Import(v) \/ PublishTimesOut(v) \/ AddByHand(v)
        PROVE  Grows
    BY <1>1, <1>2, AddCommits DEF Import, PublishTimesOut, AddByHand, Grows
  <1>3. ASSUME NEW v \in Release, RemoveByHand(v)
        PROVE  Grows
    BY <1>1, <1>3, RemoveCommits DEF RemoveByHand, Grows
  <1>4. ASSUME NEW t \in Removal, RemoveFiles(t) \/ DeferRemoval(t) \/ RemovalFails(t)
        PROVE  Grows
    BY <1>1, <1>4, RemovesCommits DEF RemoveFiles, DeferRemoval, RemovalFails, Grows
  <1> QED BY <1>2, <1>3, <1>4 DEF Next, QueuePublish, StartPublish, AlreadyThere, FinishPublish,
       PublishFails, PublishDies, CheckPublication, Announce, ArchiveByHand, ArchivePrior, PlanRemoval,
       Revert, ConcludeRemoval, RemovalDies, RemovalBreaks, Catalogue, SkipCommit, Checkpoint,
       Reconnect, Grows

\* What a longer log has in common with the shorter one.
LEMMA Prefix ==
    ASSUME LogType, Grows
    PROVE  /\ Youngest \in Nat /\ Youngest' \in Nat /\ Youngest <= Youngest'
           /\ \A k \in 1 .. Youngest : log'[k] = log[k]
           /\ LogType'
  BY BoundAssumption DEF LogType, Grows, Youngest

----------------------------------------------------------------------------
(* Publications *)

\* The row names a commit of a log by which ATR added the files of v.
Own(v, row, commits) ==
    row.st \in {"imported", "done"} =>
        /\ row.at \in 1 .. Len(commits)
        /\ LET c == commits[row.at] IN c.by = "atr" /\ c.op = "add" /\ c.rels = {v}

\* A step on a publication leaves one row, which is its own.
PubStep == \E v \in Release : \E row \in PubRow : pub' = [pub EXCEPT ![v] = row] /\ Own(v, row, log')

LEMMA UnfinishedPub ==
    ASSUME NEW v \in Release, NEW st \in {"none", "queued", "failed"},
           pub' = [pub EXCEPT ![v] = [st |-> st, at |-> 0]]
    PROVE  PubStep
  <1> DEFINE row == [st |-> st, at |-> 0]
  <1>1. row \in PubRow /\ Own(v, row, log')
    BY BoundAssumption DEF PubRow, Own
  <1> HIDE DEF row
  <1>2. pub' = [pub EXCEPT ![v] = row]
    BY DEF row
  <1> QED BY <1>1, <1>2 DEF PubStep

LEMMA StartPublishStep ==
    ASSUME TypeOK, NEW v \in Release, StartPublish(v)
    PROVE  PubStep
  <1>1. PubType
    BY TypeSplit
  <1> DEFINE st == IF phase[v] = "preview" THEN "active" ELSE "failed"
             row == [pub[v] EXCEPT !.st = st]
  <1>2. row \in PubRow /\ row.st \in {"active", "failed"}
    BY <1>1 DEF PubType, PubRow
  <1>3. pub' = [pub EXCEPT ![v] = row]
    BY <1>1 DEF StartPublish, PubType
  <1> HIDE DEF row
  <1>4. Own(v, row, log')
    BY <1>2 DEF Own
  <1> QED BY <1>2, <1>3, <1>4 DEF PubStep

LEMMA ImportStep ==
    ASSUME TypeOK, NEW v \in Release, Import(v)
    PROVE  PubStep
  <1>1. LogType
    BY TypeSplit
  <1>2. Youngest < MaxCommits
    BY <1>1, AddCommits DEF Import
  <1>3. PICK c \in Commit : log' = Append(log, c) /\ c.by = "atr" /\ c.op = "add" /\ c.rels = {v}
    BY <1>1, AddCommits DEF Import
  <1> DEFINE row == [st |-> "imported", at |-> Youngest + 1]
  <1>4. Youngest \in Nat /\ Youngest' = Youngest + 1 /\ log'[Youngest + 1] = c
    BY <1>1, <1>3 DEF LogType, Youngest
  <1>5. row \in PubRow
    BY <1>2, <1>4, BoundAssumption DEF PubRow
  <1>6. row.at = Youngest + 1
    OBVIOUS
  <1>7. pub' = [pub EXCEPT ![v] = row]
    BY DEF Import
  <1> HIDE DEF row
  <1>8. Own(v, row, log')
    BY <1>3, <1>4, <1>6 DEF Own, Youngest
  <1> QED BY <1>5, <1>7, <1>8 DEF PubStep

\* The commit that is found in the log is of ATR and of this release alone.
LEMMA AlreadyThereStep ==
    ASSUME TypeOK, NEW v \in Release, AlreadyThere(v)
    PROVE  PubStep
  <1>1. LogType
    BY TypeSplit
  <1>2. CASE pub' = [pub EXCEPT ![v] = [st |-> "failed", at |-> 0]]
    BY <1>2, UnfinishedPub
  <1>3. CASE \E k \in Last(Touching(Beside(v), Youngest)) :
                Matches(v, k) /\ pub' = [pub EXCEPT ![v] = [st |-> "imported", at |-> k]]
    <2>1. PICK k \in Last(Touching(Beside(v), Youngest)) :
             Matches(v, k) /\ pub' = [pub EXCEPT ![v] = [st |-> "imported", at |-> k]]
      BY <1>3
    <2> DEFINE row == [st |-> "imported", at |-> k]
    <2>2. k \in 1 .. Youngest
      BY DEF Last, Touching
    <2>3. row \in PubRow /\ row.at = k
      BY <1>1, <2>2, BoundAssumption DEF PubRow, LogType, Youngest
    <2>4. pub' = [pub EXCEPT ![v] = row]
      BY <2>1
    <2> HIDE DEF row
    <2>5. Own(v, row, log')
      BY <2>1, <2>2, <2>3 DEF Own, Matches, AlreadyThere, Youngest
    <2> QED BY <2>3, <2>4, <2>5 DEF PubStep
  <1> QED BY <1>2, <1>3 DEF AlreadyThere

LEMMA FinishPublishStep ==
    ASSUME TypeOK, OwnCommit, NEW v \in Release, FinishPublish(v)
    PROVE  PubStep
  <1>1. PubType
    BY TypeSplit
  <1> DEFINE row == [pub[v] EXCEPT !.st = "done"]
  <1>2. row \in PubRow /\ row.at = pub[v].at
    BY <1>1 DEF PubType, PubRow
  <1>3. pub' = [pub EXCEPT ![v] = row] /\ UNCHANGED log /\ pub[v].st = "imported"
    BY <1>1 DEF FinishPublish, PubType
  <1> HIDE DEF row
  <1>4. Own(v, row, log')
    BY <1>2, <1>3 DEF Own, OwnCommit, Youngest
  <1> QED BY <1>2, <1>3, <1>4 DEF PubStep

LEMMA PubSteps ==
    ASSUME TypeOK, OwnCommit, Next
    PROVE  UNCHANGED pub \/ PubStep
  <1>1. ASSUME NEW v \in Release,
               QueuePublish(v) \/ PublishFails(v) \/ PublishTimesOut(v) \/ PublishDies(v)
        PROVE  PubStep
    BY <1>1, UnfinishedPub DEF QueuePublish, PublishFails, PublishTimesOut, PublishDies
  <1> QED BY <1>1, StartPublishStep, ImportStep, AlreadyThereStep, FinishPublishStep
       DEF Next, CheckPublication, Announce, ArchiveByHand, ArchivePrior, AddByHand, RemoveByHand,
           PlanRemoval, RemoveFiles, DeferRemoval, RemovalFails, Revert, ConcludeRemoval, RemovalDies,
           RemovalBreaks, Catalogue, SkipCommit, Checkpoint, Reconnect

\* Commits are never lost, so that a revision once recorded stays true.
LEMMA OwnCommitStep ==
    ASSUME TypeOK, OwnCommit, Next
    PROVE  PubType' /\ OwnCommit'
  <1>1. PubType /\ LogType
    BY TypeSplit
  <1>2. /\ Youngest \in Nat /\ Youngest' \in Nat /\ Youngest <= Youngest'
        /\ \A k \in 1 .. Youngest : log'[k] = log[k]
    BY <1>1, LogGrows, Prefix
  <1>3. PubType'
    BY <1>1, PubSteps DEF PubStep, PubType
  <1>4. ASSUME NEW v \in Release
        PROVE  Own(v, pub'[v], log')
    <2>1. CASE pub'[v] = pub[v]
      BY <1>2, <2>1 DEF OwnCommit, Own, Youngest
    <2>2. CASE pub'[v] # pub[v]
      <3>1. PubStep
        BY <2>2, PubSteps
      <3>2. PICK w \in Release : \E row \in PubRow : pub' = [pub EXCEPT ![w] = row] /\ Own(w, row, log')
        BY <3>1 DEF PubStep
      <3>3. PICK row \in PubRow : pub' = [pub EXCEPT ![w] = row] /\ Own(w, row, log')
        BY <3>2
      <3>4. w = v /\ pub'[v] = row
        BY <1>1, <2>2, <3>3 DEF PubType
      <3> QED BY <3>3, <3>4 DEF Own
    <2> QED BY <2>1, <2>2
  <1> QED BY <1>3, <1>4 DEF OwnCommit, Own, Youngest

----------------------------------------------------------------------------
(* Removals *)

\* A plan was made at a revision that there is, when the files of the release were there.
PlansStand ==
    \A t \in Removal : rm[t].st = "planned" => /\ rm[t].base <= Youngest
                                               /\ Present(rm[t].rel, rm[t].base)

\* A step on a removal leaves one row; a plan is of the present head.
RmStep == \E t \in Removal : \E row \in RmRow :
            /\ RmFits(row) /\ rm' = [rm EXCEPT ![t] = row]
            /\ row.st = "planned" => /\ row.base = Youngest /\ InDist(row.rel)
                                     /\ UNCHANGED log

LEMMA ChangedRow ==
    \A row \in RmRow : \A st \in {"queued", "planned", "removed"} : \A base \in 0 .. MaxCommits :
        LET new == [row EXCEPT !.st = st, !.base = base]
        IN new \in RmRow /\ new.st = st /\ new.rel = row.rel /\ new.base = base
  BY DEF RmRow

LEMMA RestatedRow ==
    ASSUME NEW row \in RmRow, RmFits(row), row.st \notin {"none", "over"},
           NEW st \in {"removed", "failing", "reverted"}
    PROVE  LET new == [row EXCEPT !.st = st]
           IN new \in RmRow /\ RmFits(new) /\ new.st = st
  BY DEF RmRow, RmFits

LEMMA QueueRemovalStep ==
    ASSUME NEW v \in Release, QueueRemoval(v)
    PROVE  RmStep
  <1>1. PICK t \in Removal : rm' = [rm EXCEPT ![t] = [NoRemoval EXCEPT !.st = "queued", !.rel = v]]
    BY DEF QueueRemoval
  <1> DEFINE row == [NoRemoval EXCEPT !.st = "queued", !.rel = v]
  <1>2. row \in RmRow /\ RmFits(row) /\ row.st = "queued"
    <2>1. \A e \in RmRow : \A u \in Release \union {0} :
            LET new == [e EXCEPT !.st = "queued", !.rel = u]
            IN new \in RmRow /\ new.st = "queued" /\ new.rel = u /\ new.base = e.base
      BY DEF RmRow
    <2>2. NoRemoval \in RmRow /\ NoRemoval.base = 0
      BY BoundAssumption DEF NoRemoval, RmRow
    <2>3. row \in RmRow /\ row.st = "queued" /\ row.rel = v /\ row.base = 0
      BY <2>1, <2>2, Zenon
    <2>4. v # 0
      BY NeighboursAreReleases
    <2> HIDE DEF row
    <2> QED BY <2>3, <2>4 DEF RmFits
  <1>3. rm' = [rm EXCEPT ![t] = row]
    BY <1>1
  <1> HIDE DEF row
  <1> QED BY <1>2, <1>3 DEF RmStep

LEMMA PlanRemovalStep ==
    ASSUME TypeOK, NEW t \in Removal, PlanRemoval(t)
    PROVE  RmStep
  <1>1. /\ RmType /\ Youngest \in 0 .. MaxCommits
        /\ "planned" \in {"queued", "planned", "removed"} /\ "removed" \in {"queued", "planned", "removed"}
    BY TypeSplit, BoundAssumption DEF LogType, Youngest
  <1>2. rm[t] \in RmRow /\ RmFits(rm[t]) /\ rm[t].st = "queued"
    BY <1>1 DEF RmType, PlanRemoval
  <1>3. UNCHANGED log
    BY DEF PlanRemoval
  <1>4. CASE InDist(rm[t].rel)
    <2> DEFINE row == [rm[t] EXCEPT !.st = "planned", !.base = Youngest]
    <2>1. row \in RmRow /\ row.st = "planned" /\ row.rel = rm[t].rel /\ row.base = Youngest
      BY <1>1, <1>2, ChangedRow, Zenon
    <2>2. rm' = [rm EXCEPT ![t] = row]
      BY <1>1, <1>4 DEF PlanRemoval, RmType
    <2> HIDE DEF row
    <2>3. RmFits(row)
      BY <1>2, <2>1 DEF RmFits
    <2> QED BY <1>3, <1>4, <2>1, <2>2, <2>3 DEF RmStep
  <1>5. CASE ~InDist(rm[t].rel)
    <2> DEFINE row == [rm[t] EXCEPT !.st = "removed", !.base = Youngest]
    <2>1. row \in RmRow /\ row.st = "removed" /\ row.rel = rm[t].rel /\ row.base = Youngest
      BY <1>1, <1>2, ChangedRow, Zenon
    <2>2. rm' = [rm EXCEPT ![t] = row]
      BY <1>1, <1>5 DEF PlanRemoval, RmType
    <2> HIDE DEF row
    <2>3. RmFits(row)
      BY <1>2, <2>1 DEF RmFits
    <2> QED BY <2>1, <2>2, <2>3 DEF RmStep
  <1> QED BY <1>4, <1>5

\* A removal that is under way goes on, goes back to the queue or is over.
LEMMA OtherRemovalStep ==
    ASSUME TypeOK, NEW t \in Removal,
           \/ RemoveFiles(t) \/ DeferRemoval(t) \/ RemovalFails(t) \/ Revert(t)
           \/ ConcludeRemoval(t) \/ RemovalDies(t) \/ RemovalBreaks(t)
    PROVE  RmStep
  <1>1. RmType
    BY TypeSplit
  <1>2. rm[t] \in RmRow /\ RmFits(rm[t]) /\ rm[t].st \notin {"none", "over"}
    BY <1>1 DEF RmType, RemoveFiles, DeferRemoval, RemovalFails, Revert, ConcludeRemoval, RemovalDies,
       RemovalBreaks, UnderWay
  <1>3. \/ \E st \in {"removed", "failing", "reverted"} : rm' = [rm EXCEPT ![t].st = st]
        \/ rm' = [rm EXCEPT ![t].st = "queued", ![t].base = 0]
        \/ rm' = [rm EXCEPT ![t] = [NoRemoval EXCEPT !.st = "over"]]
    BY DEF RemoveFiles, DeferRemoval, RemovalFails, Revert, ConcludeRemoval, RemovalDies, RemovalBreaks
  <1>4. ASSUME NEW st \in {"removed", "failing", "reverted"}, rm' = [rm EXCEPT ![t].st = st]
        PROVE  RmStep
    <2> DEFINE row == [rm[t] EXCEPT !.st = st]
    <2>1. row \in RmRow /\ RmFits(row) /\ row.st = st
      BY <1>2, RestatedRow
    <2>2. rm' = [rm EXCEPT ![t] = row]
      BY <1>1, <1>4 DEF RmType
    <2> HIDE DEF row
    <2> QED BY <2>1, <2>2 DEF RmStep
  <1>5. ASSUME rm' = [rm EXCEPT ![t].st = "queued", ![t].base = 0]
        PROVE  RmStep
    <2> DEFINE row == [rm[t] EXCEPT !.st = "queued", !.base = 0]
    <2>1. row \in RmRow /\ RmFits(row) /\ row.st = "queued"
      <3>1. "queued" \in {"queued", "planned", "removed"} /\ 0 \in 0 .. MaxCommits
        BY BoundAssumption
      <3>2. row \in RmRow /\ row.st = "queued" /\ row.rel = rm[t].rel /\ row.base = 0
        BY <1>2, <3>1, ChangedRow, Zenon
      <3> HIDE DEF row
      <3> QED BY <1>2, <3>2 DEF RmFits
    <2>2. rm' = [rm EXCEPT ![t] = row]
      BY <1>1, <1>5 DEF RmType
    <2> HIDE DEF row
    <2> QED BY <2>1, <2>2 DEF RmStep
  <1>6. ASSUME rm' = [rm EXCEPT ![t] = [NoRemoval EXCEPT !.st = "over"]]
        PROVE  RmStep
    <2> DEFINE row == [NoRemoval EXCEPT !.st = "over"]
    <2>1. row \in RmRow /\ RmFits(row) /\ row.st = "over"
      BY BoundAssumption DEF NoRemoval, RmRow, RmFits
    <2>2. rm' = [rm EXCEPT ![t] = row]
      BY <1>6
    <2> HIDE DEF row
    <2> QED BY <2>1, <2>2 DEF RmStep
  <1> QED BY <1>3, <1>4, <1>5, <1>6

LEMMA RmSteps ==
    ASSUME TypeOK, Next
    PROVE  UNCHANGED rm \/ RmStep
  <1>1. \A v : Prior(v) \subseteq Release
    BY DEF Prior
  <1>2. ASSUME NEW v \in Release, ArchiveByHand(v) \/ ArchivePrior(v)
        PROVE  UNCHANGED rm \/ RmStep
    BY <1>1, <1>2, QueueRemovalStep DEF ArchiveByHand, ArchivePrior
  <1> QED BY <1>2, PlanRemovalStep, OtherRemovalStep
       DEF Next, QueuePublish, StartPublish, Import, AlreadyThere, FinishPublish, PublishFails,
           PublishTimesOut, PublishDies, CheckPublication, Announce, AddByHand, RemoveByHand,
           Catalogue, SkipCommit, Checkpoint, Reconnect

\* What was there at a revision was there.
PresentIn(v, n, commits) ==
    LET touching == {k \in 1 .. n : commits[k].rels \intersect {v} # {}}
    IN \E k \in {k \in touching : \A j \in touching : j <= k} : commits[k].op = "add"

LEMMA PastStands ==
    ASSUME TypeOK, Next, NEW v, NEW n \in Nat, n <= Youngest, Present(v, n)
    PROVE  PresentIn(v, n, log') /\ n <= Youngest'
  <1>1. /\ Youngest \in Nat /\ Youngest' \in Nat /\ Youngest <= Youngest'
        /\ \A k \in 1 .. Youngest : log'[k] = log[k]
    BY TypeSplit, LogGrows, Prefix
  <1>2. \A k \in 1 .. n : log'[k] = log[k]
    BY <1>1
  <1>3. {k \in 1 .. n : log'[k].rels \intersect {v} # {}} = Touching({v}, n)
    BY <1>2 DEF Touching
  <1>4. PICK k \in Last(Touching({v}, n)) : log[k].op = "add"
    BY DEF Present
  <1>5. k \in 1 .. n
    BY DEF Last, Touching
  <1>6. k \in Last({i \in 1 .. n : log'[i].rels \intersect {v} # {}}) /\ log'[k].op = "add"
    BY <1>2, <1>3, <1>4, <1>5
  <1>7. PresentIn(v, n, log')
    BY <1>6 DEF PresentIn, Last
  <1> QED BY <1>1, <1>7

LEMMA RemovalsStep ==
    ASSUME TypeOK, PlansStand, Next
    PROVE  RmType' /\ PlansStand'
  <1>1. RmType /\ LogType
    BY TypeSplit
  <1>2. RmType'
    BY <1>1, RmSteps DEF RmStep, RmType
  <1>3. ASSUME NEW t \in Removal, rm'[t].st = "planned"
        PROVE  /\ rm'[t].base <= Youngest'
               /\ PresentIn(rm'[t].rel, rm'[t].base, log')
    <2>1. CASE rm'[t] = rm[t]
      <3>1. rm[t].base \in Nat
        BY <1>1, BoundAssumption DEF RmType, RmRow
      <3> QED BY <1>3, <2>1, <3>1, PastStands DEF PlansStand
    <2>2. CASE rm'[t] # rm[t]
      <3>1. RmStep
        BY <2>2, RmSteps
      <3>2. PICK u \in Removal : \E row \in RmRow :
              /\ RmFits(row) /\ rm' = [rm EXCEPT ![u] = row]
              /\ row.st = "planned" => row.base = Youngest /\ InDist(row.rel) /\ UNCHANGED log
        BY <3>1 DEF RmStep
      <3>3. PICK row \in RmRow :
              /\ RmFits(row) /\ rm' = [rm EXCEPT ![u] = row]
              /\ row.st = "planned" => row.base = Youngest /\ InDist(row.rel) /\ UNCHANGED log
        BY <3>2
      <3>4. rm'[t] = row
        BY <1>1, <2>2, <3>3 DEF RmType
      <3>5. row.base = Youngest /\ Youngest \in Nat /\ Present(row.rel, row.base)
        BY <1>1, <1>3, <3>3, <3>4 DEF InDist, LogType, Youngest
      <3> QED BY <3>4, <3>5, PastStands
    <2> QED BY <2>1, <2>2
  <1>4. PlansStand'
    BY <1>3 DEF PlansStand, Present, PresentIn, Touching, Last
  <1> QED BY <1>2, <1>4

----------------------------------------------------------------------------
(* The rest of the types *)

LEMMA RowsStep ==
    ASSUME TypeOK, Next
    PROVE  RowsType'
  <1>1. RowsType
    BY TypeSplit
  <1>2. ASSUME NEW v \in Release, CheckPublication(v) \/ Announce(v)
        PROVE  RowsType'
    BY <1>1, <1>2 DEF CheckPublication, Announce, RowsType, rows
  <1>3. ASSUME NEW v \in Release, ArchiveByHand(v) \/ ArchivePrior(v)
        PROVE  RowsType'
    BY <1>1, <1>3 DEF ArchiveByHand, ArchivePrior, Archive, Prior, RowsType, announcing
  <1>4. ASSUME NEW t \in Removal, Revert(t)
        PROVE  RowsType'
    BY <1>1, <1>4 DEF Revert, RowsType, announcing
  <1>5. CASE Catalogue
    <2>1. log[Shown].rels \subseteq Release
      <3>1. LogType /\ Shown \in 1 .. Youngest
        BY <1>5, TypeSplit DEF Catalogue, WatcherType, Shown, LogType, Youngest
      <3>2. log[Shown] \in Commit
        BY <3>1 DEF LogType, Youngest
      <3> QED BY <3>2 DEF Commit
    <2>2. UNCHANGED <<phase, checked, prior>>
      BY <1>5 DEF Catalogue, announcing
    <2>3. \/ archived' \subseteq archived
          \/ archived' = archived \union {v \in log[Shown].rels : phase[v] = "release"}
      BY <1>5 DEF Catalogue, Apply
    <2> QED BY <1>1, <2>1, <2>2, <2>3 DEF RowsType
  <1>6. UNCHANGED <<phase, archived, checked, prior>> => RowsType'
    BY <1>1 DEF RowsType
  <1> QED BY <1>2, <1>3, <1>4, <1>5, <1>6 DEF Next, QueuePublish, StartPublish, Import, AlreadyThere,
       FinishPublish, PublishFails, PublishTimesOut, PublishDies, AddByHand, RemoveByHand, PlanRemoval,
       RemoveFiles, DeferRemoval, RemovalFails, ConcludeRemoval, RemovalDies, RemovalBreaks,
       SkipCommit, Checkpoint, Reconnect, rows, announcing

LEMMA WatcherStep ==
    ASSUME TypeOK, Next
    PROVE  WatcherType'
  <1>1. WatcherType /\ Youngest \in Nat
    BY TypeSplit, LogGrows, Prefix
  <1>2. Youngest' \in Nat /\ Youngest <= Youngest'
    BY TypeSplit, LogGrows, Prefix
  <1>3. CASE UNCHANGED watcher
    BY <1>1, <1>2, <1>3 DEF WatcherType
  <1>4. CASE Catalogue \/ SkipCommit \/ Checkpoint \/ Reconnect
    <2>1. Youngest' = Youngest
      BY <1>4 DEF Catalogue, SkipCommit, Checkpoint, Reconnect, Youngest
    <2>2. CASE Catalogue \/ SkipCommit
      <3>1. \/ watcher' = [watcher EXCEPT !.seen = Shown, !.staged = Shown]
            \/ watcher' = [watcher EXCEPT !.seen = Shown]
        BY <2>2 DEF Catalogue, Handled, SkipCommit
      <3>2. Shown \in 0 .. Youngest
        BY <1>1, <2>2 DEF Catalogue, SkipCommit, Shown, WatcherType
      <3>3. ASSUME NEW n \in 0 .. Youngest, NEW m \in 0 .. Youngest, NEW c \in 0 .. Youngest
            PROVE  [seen |-> n, staged |-> m, cursor |-> c] \in
                       [seen : 0 .. Youngest, staged : 0 .. Youngest, cursor : 0 .. Youngest]
        OBVIOUS
      <3>4. watcher = [seen |-> watcher.seen, staged |-> watcher.staged, cursor |-> watcher.cursor]
        BY <1>1 DEF WatcherType
      <3>5. \/ watcher' = [seen |-> Shown, staged |-> Shown, cursor |-> watcher.cursor]
            \/ watcher' = [seen |-> Shown, staged |-> watcher.staged, cursor |-> watcher.cursor]
        BY <3>1, <3>4
      <3> QED BY <1>1, <2>1, <3>2, <3>5 DEF WatcherType
    <2>3. CASE Checkpoint
      BY <1>1, <2>1, <2>3 DEF Checkpoint, WatcherType
    <2>4. CASE Reconnect
      <3>1. PICK staged \in {0, watcher.staged} :
              watcher' = [seen |-> IF watcher.cursor = 0 THEN Youngest ELSE watcher.cursor,
                          staged |-> staged, cursor |-> watcher.cursor]
        BY <2>4 DEF Reconnect
      <3>2. staged \in 0 .. Youngest /\ watcher.cursor \in 0 .. Youngest
        BY <1>1 DEF WatcherType
      <3> QED BY <1>1, <2>1, <3>1, <3>2 DEF WatcherType
    <2> QED BY <1>4, <2>2, <2>3, <2>4
  <1> QED BY <1>3, <1>4 DEF Next, QueuePublish, StartPublish, Import, AlreadyThere, FinishPublish,
       PublishFails, PublishTimesOut, PublishDies, CheckPublication, Announce, ArchiveByHand, ArchivePrior,
       AddByHand, RemoveByHand, PlanRemoval, RemoveFiles, DeferRemoval, RemovalFails, Revert,
       ConcludeRemoval, RemovalDies, RemovalBreaks

LEMMA FaultsStep ==
    ASSUME TypeOK, Next
    PROVE  profile' = profile /\ faults' \in 0 .. MaxFaults
  <1> DEFINE Counted == /\ profile' = profile
                        /\ faults' = faults \/ (faults < MaxFaults /\ faults' = faults + 1)
  <1>1. ASSUME NEW v \in Release,
               \/ QueuePublish(v) \/ StartPublish(v) \/ Import(v) \/ AlreadyThere(v)
               \/ FinishPublish(v) \/ PublishFails(v) \/ PublishTimesOut(v) \/ PublishDies(v)
               \/ CheckPublication(v) \/ Announce(v) \/ ArchiveByHand(v) \/ ArchivePrior(v)
               \/ AddByHand(v) \/ RemoveByHand(v)
        PROVE  Counted
    BY <1>1 DEF QueuePublish, StartPublish, Import, AlreadyThere, FinishPublish,
       PublishFails, PublishTimesOut, PublishDies, CheckPublication, Announce, ArchiveByHand, ArchivePrior,
       AddByHand, RemoveByHand, Fault
  <1>2. ASSUME NEW t \in Removal,
               \/ PlanRemoval(t) \/ RemoveFiles(t) \/ DeferRemoval(t) \/ RemovalFails(t)
               \/ Revert(t) \/ ConcludeRemoval(t) \/ RemovalDies(t) \/ RemovalBreaks(t)
        PROVE  Counted
    BY <1>2 DEF PlanRemoval, RemoveFiles, DeferRemoval, RemovalFails, Revert, ConcludeRemoval, RemovalDies,
       RemovalBreaks, Fault
  <1>3. ASSUME Catalogue \/ SkipCommit \/ Checkpoint \/ Reconnect
        PROVE  Counted
    BY <1>3 DEF Catalogue, External, SkipCommit, Checkpoint, Reconnect, Fault
  <1>4. Counted
    BY <1>1, <1>2, <1>3 DEF Next
  <1> QED BY <1>4, TypeSplit, BoundAssumption

----------------------------------------------------------------------------
(* The theorems *)

IInv == TypeOK /\ OwnCommit /\ PlansStand

LEMMA InitIInv == Init => IInv
  BY InitType DEF Init, IInv, OwnCommit, PlansStand, NoPub, NoRemoval

LEMMA NextIInv ==
    ASSUME IInv, Next
    PROVE  IInv'
  <1>1. /\ profile' = profile /\ faults' \in 0 .. MaxFaults
        /\ RowsType' /\ WatcherType'
    BY RowsStep, WatcherStep, FaultsStep DEF IInv
  <1>2. PubType' /\ OwnCommit' /\ RmType' /\ PlansStand'
    BY OwnCommitStep, RemovalsStep DEF IInv
  <1>3. LogType'
    BY TypeSplit, LogGrows, Prefix DEF IInv
  <1>4. profile' \in Profile
    BY <1>1, TypeSplit DEF IInv
  <1>5. TypeOK'
    BY <1>1, <1>2, <1>3, <1>4 DEF TypeOK, RowsType, PubType, PubRow, RmType, RmRow, RmFits, LogType,
       Commit, WatcherType
  <1> QED BY <1>2, <1>5 DEF IInv

LEMMA StutterIInv ==
    ASSUME IInv, UNCHANGED vars
    PROVE  IInv'
  BY DEF IInv, TypeOK, OwnCommit, PlansStand, Youngest, Present, Touching, Last, vars, rows, announcing

LEMMA IndInv == Spec => []IInv
  <1>1. IInv /\ [Next]_vars => IInv'
    BY NextIInv, StutterIInv
  <1> QED BY InitIInv, <1>1, PTL DEF Spec

\* The types, for any number of releases, removals and commits.
THEOREM TypeCorrect == Spec => []TypeOK
  <1>1. IInv => TypeOK
    BY DEF IInv
  <1> QED BY IndInv, <1>1, PTL

\* The recorded revision is the commit by which ATR published the release, whatever
\* faults there are and whoever else commits (publish_to_svn_execute).
THEOREM RecordedCommitIsOurs == Spec => []OwnCommit
  <1>1. IInv => OwnCommit
    BY DEF IInv
  <1> QED BY IndInv, <1>1, PTL

\* What is together with the files of a release does not change unseen.
LEMMA NothingNew ==
    ASSUME NEW v, NEW n \in Nat, Youngest \in Nat, n <= Youngest,
           \A k \in Touching({v}, Youngest) : k <= n
    PROVE  Present(v, Youngest) <=> Present(v, n)
  <1>1. Touching({v}, Youngest) = Touching({v}, n)
    BY DEF Touching
  <1> QED BY <1>1 DEF Present

\* A removal that SVN accepts takes the files of its release, as they were planned.
LEMMA RemovesThePlanned ==
    ASSUME IInv, NEW t \in Removal, rm[t].st = "planned", Removes(t)
    PROVE  /\ log'[Len(log')].rels = {rm[t].rel}
           /\ Present(rm[t].rel, rm[t].base)
           /\ \A k \in Touching({rm[t].rel}, Youngest) : k <= rm[t].base
  <1> DEFINE v == rm[t].rel
             n == rm[t].base
  <1>1. LogType /\ RmType /\ Youngest \in Nat
    BY TypeSplit DEF IInv, LogType, Youngest
  <1>2. v \in Release /\ v \in Beside(v) /\ n \in Nat /\ n <= Youngest /\ Present(v, n)
    BY <1>1, PlannedRelease, NeighboursAreReleases, BoundAssumption DEF IInv, PlansStand, RmType, RmRow
  <1>3. \A k \in Touching({v}, Youngest) : k <= n
    BY <1>2 DEF Removes, UpToDate, Touching
  <1>4. Whole(t) => Together(v, Youngest) = {v}
    <2> SUFFICES ASSUME Whole(t)
                 PROVE  Together(v, Youngest) = Together(v, n)
      BY DEF Whole
    <2>1. \A k \in Touching(Beside(v), Youngest) : k <= n
      BY DEF Removes, UpToDate
    <2>2. ASSUME NEW w \in Beside(v)
          PROVE  Present(w, Youngest) <=> Present(w, n)
      <3>1. \A k \in Touching({w}, Youngest) : k <= n
        BY <2>1 DEF Touching
      <3> QED BY <1>1, <1>2, <3>1, NothingNew
    <2> QED BY <2>2 DEF Together
  <1>5. PICK c \in Commit :
            /\ log' = Append(log, c)
            /\ c.rels = IF Whole(t) THEN Together(v, Youngest) ELSE {v}
    BY <1>1, RemovesCommits
  <1>6. c.rels = {v}
    BY <1>4, <1>5
  <1>7. log'[Len(log')] = c
    BY <1>1, <1>5 DEF LogType
  <1> QED BY <1>2, <1>3, <1>6, <1>7

\* No removal takes a file of another release, nor one that came after its plan, whatever
\* is committed between the listing and the removal (unpublish_from_svn_execute).
THEOREM RemovalsKeepToTheirPlan == Spec => OnlyPlannedRemoved
  <1> DEFINE Kept == \A t \in Removal :
                rm[t].st = "planned" /\ rm'[t] # rm[t] /\ log' # log =>
                    /\ log'[Len(log')].rels = {rm[t].rel}
                    /\ Present(rm[t].rel, rm[t].base)
                    /\ \A k \in Touching({rm[t].rel}, Youngest) : k <= rm[t].base
  <1>1. ASSUME IInv, Next
        PROVE  Kept
    <2> SUFFICES ASSUME NEW t \in Removal, rm[t].st = "planned", rm'[t] # rm[t], log' # log
                 PROVE  Removes(t)
      BY <1>1, RemovesThePlanned
    <2>1. \E u \in Removal : RemoveFiles(u) \/ DeferRemoval(u) \/ RemovalFails(u)
      BY <1>1 DEF Next, QueuePublish, StartPublish, Import, AlreadyThere, FinishPublish, PublishFails,
         PublishTimesOut, PublishDies, CheckPublication, Announce, ArchiveByHand, ArchivePrior,
         AddByHand, RemoveByHand, PlanRemoval, Revert, ConcludeRemoval, RemovalDies, RemovalBreaks,
         Catalogue, SkipCommit, Checkpoint, Reconnect
    <2>2. PICK u \in Removal : RemoveFiles(u) \/ DeferRemoval(u) \/ RemovalFails(u)
      BY <2>1
    <2>3. RmType
      BY <1>1, TypeSplit DEF IInv
    <2>4. u = t
      BY <2>2, <2>3 DEF RemoveFiles, DeferRemoval, RemovalFails, RmType
    <2> QED BY <2>2, <2>4 DEF RemoveFiles, DeferRemoval, RemovalFails
  <1>2. ASSUME IInv, UNCHANGED vars
        PROVE  Kept
    BY <1>2 DEF vars
  <1>3. IInv /\ [Next]_vars => [Kept]_vars
    BY <1>1, <1>2
  <1> QED BY IndInv, <1>3, PTL DEF Spec, OnlyPlannedRemoved

----------------------------------------------------------------------------
(* The commits *)

\* The files of v have been removed.
Gone(v) == \E k \in 1 .. Len(log) : log[k].op = "rm" /\ v \in log[k].rels

\* The step commits an addition or a removal of the files of v alone.
Commits(by, op, v) ==
    \E c \in Commit : log' = Append(log, c) /\ c.by = by /\ c.op = op /\ c.rels = {v}

LEMMA RemovedByCommit ==
    ASSUME LogType, NEW by, NEW op \in {"add", "rm"}, NEW v, Commits(by, op, v)
    PROVE  \A w : Gone(w)' <=> Gone(w) \/ (op = "rm" /\ w = v)
  <1>1. PICK c \in Commit : log' = Append(log, c) /\ c.op = op /\ c.rels = {v}
    BY DEF Commits
  <1>2. /\ Youngest \in Nat /\ Youngest' = Youngest + 1
        /\ \A k \in 1 .. Youngest : log'[k] = log[k]
        /\ log'[Youngest + 1] = c
    BY <1>1 DEF LogType, Youngest
  <1>3. 1 .. Youngest' = (1 .. Youngest) \union {Youngest + 1}
    BY <1>2
  <1> QED BY <1>1, <1>2, <1>3 DEF Gone, Youngest

LEMMA Committed ==
    ASSUME LogType, NEW by, NEW op \in {"add", "rm"}, NEW v, Commits(by, op, v)
    PROVE  /\ Youngest \in Nat /\ Youngest' = Youngest + 1
           /\ \A k \in 1 .. Youngest : log'[k] = log[k]
           /\ log'[Youngest + 1].by = by /\ log'[Youngest + 1].op = op /\ log'[Youngest + 1].rels = {v}
           /\ \A w : Gone(w)' <=> Gone(w) \/ (op = "rm" /\ w = v)
           /\ \A w : InDist(w)' <=> IF w = v THEN op = "add" ELSE InDist(w)
  <1>1. PICK c \in Commit : log' = Append(log, c) /\ c.by = by /\ c.op = op /\ c.rels = {v}
    BY DEF Commits
  <1>2. /\ Youngest \in Nat /\ Youngest' = Youngest + 1
        /\ \A k \in 1 .. Youngest : log'[k] = log[k]
        /\ log'[Youngest + 1] = c
    BY <1>1 DEF LogType, Youngest
  <1>3. \A w : Gone(w)' <=> Gone(w) \/ (op = "rm" /\ w = v)
    BY RemovedByCommit
  <1>4. ASSUME NEW w
        PROVE  InDist(w)' <=> IF w = v THEN op = "add" ELSE InDist(w)
    <2> DEFINE T == {k \in 1 .. Youngest : log[k].rels \intersect {w} # {}}
               T1 == {k \in 1 .. Youngest' : log'[k].rels \intersect {w} # {}}
    <2>0. /\ InDist(w) <=> \E k \in T : log[k].op = "add" /\ \A j \in T : j <= k
          /\ InDist(w)' <=> \E k \in T1 : log'[k].op = "add" /\ \A j \in T1 : j <= k
      BY DEF InDist, Present, Last, Touching
    <2>1. CASE w = v
      <3>1. Youngest + 1 \in T1 /\ \A j \in T1 : j \in Nat /\ j <= Youngest + 1
        <4>1. Youngest + 1 \in 1 .. Youngest' /\ \A j \in 1 .. Youngest' : j \in Nat /\ j <= Youngest + 1
          BY <1>2
        <4>2. log'[Youngest + 1].rels \intersect {w} # {}
          BY <1>1, <1>2, <2>1
        <4> QED BY <4>1, <4>2
      <3>2. \A k \in T1 : (\A j \in T1 : j <= k) => k = Youngest + 1
        BY <1>2, <3>1
      <3> HIDE DEF T1
      <3>3. (\E k \in T1 : log'[k].op = "add" /\ \A j \in T1 : j <= k) <=> log'[Youngest + 1].op = "add"
        BY <3>1, <3>2
      <3>4. log'[Youngest + 1].op = op
        BY <1>1, <1>2
      <3> QED BY <2>0, <2>1, <3>3, <3>4
    <2>2. CASE w # v
      <3>1. \A k \in 1 .. Youngest' : k \in 1 .. Youngest \/ k = Youngest + 1
        BY <1>2
      <3>2. Youngest + 1 \notin T1
        BY <1>1, <1>2, <2>2
      <3>3. T1 = T /\ \A k \in T : log'[k] = log[k]
        BY <1>2, <3>1, <3>2
      <3> HIDE DEF T, T1
      <3> QED BY <2>0, <2>2, <3>3
    <2> QED BY <2>1, <2>2
  <1> QED BY <1>1, <1>2, <1>3, <1>4

LEMMA NothingCommitted ==
    ASSUME UNCHANGED log
    PROVE  /\ Youngest' = Youngest
           /\ \A w : Gone(w)' <=> Gone(w)
           /\ \A w : InDist(w)' <=> InDist(w)
  BY DEF Gone, InDist, Present, Last, Touching, Youngest

LEMMA RemovesOne ==
    ASSUME IInv, NEW t \in Removal, rm[t].st = "planned", Removes(t)
    PROVE  Commits("atr", "rm", rm[t].rel)
  <1>1. LogType /\ RmType
    BY TypeSplit DEF IInv
  <1>2. PICK c \in Commit : log' = Append(log, c) /\ c.by = "atr" /\ c.op = "rm"
    BY <1>1, RemovesCommits
  <1>3. log'[Len(log')] = c
    BY <1>1, <1>2 DEF LogType
  <1>4. c.rels = {rm[t].rel}
    BY <1>3, RemovesThePlanned
  <1> QED BY <1>2, <1>4 DEF Commits

LEMMA AddsOne ==
    ASSUME LogType, NEW by \in {"atr", "hand"}, NEW v \in Release, Add(by, v)
    PROVE  Commits(by, "add", v)
  BY AddCommits DEF Commits

LEMMA RemovesByHand ==
    ASSUME LogType, NEW v \in Release, RemoveByHand(v)
    PROVE  Commits("hand", "rm", v)
  BY RemoveCommits DEF RemoveByHand, Commits

----------------------------------------------------------------------------
(* What a step does to the removals *)

\* Removal t is in another state; or it is over; or it is queued for v.
Becomes(t, st) ==
    /\ rm'[t].st = st /\ rm'[t].rel = rm[t].rel
    /\ \A u \in Removal \ {t} : rm'[u] = rm[u]

BecomesOver(t) ==
    /\ rm'[t].st = "over" /\ rm'[t].rel = 0
    /\ \A u \in Removal \ {t} : rm'[u] = rm[u]

QueuedFor(t, v) ==
    /\ rm[t].st = "none" /\ rm'[t].st = "queued" /\ rm'[t].rel = v
    /\ \A u \in Removal \ {t} : rm'[u] = rm[u]

LEMMA QueueEffect ==
    ASSUME RmType, NEW v \in Release, QueueRemoval(v)
    PROVE  \E t \in Removal : QueuedFor(t, v)
  BY DEF RmType, RmRow, QueueRemoval, QueuedFor, NoRemoval

LEMMA PlanEffect ==
    ASSUME RmType, NEW t \in Removal, PlanRemoval(t)
    PROVE  /\ rm[t].st = "queued"
           /\ IF InDist(rm[t].rel) THEN Becomes(t, "planned") ELSE Becomes(t, "removed")
  BY DEF RmType, RmRow, PlanRemoval, Becomes

LEMMA OtherEffects ==
    ASSUME RmType, NEW t \in Removal
    PROVE  /\ RemoveFiles(t) => Becomes(t, "removed")
           /\ DeferRemoval(t) => Becomes(t, "queued")
           /\ RemovalFails(t) => Becomes(t, "failing")
           /\ Revert(t) => Becomes(t, "reverted")
           /\ RemovalDies(t) => Becomes(t, "queued")
           /\ ConcludeRemoval(t) => BecomesOver(t)
  BY DEF RmType, RmRow, RemoveFiles, DeferRemoval, RemovalFails, Revert, RemovalDies, ConcludeRemoval,
     Becomes, BecomesOver, NoRemoval

----------------------------------------------------------------------------
(* What no fault changes: ATR removes the files of releases alone *)

\* Whatever is archived or removed has been announced.
ReleasesOnly == \A t \in Removal : rm[t].rel # 0 => phase[rm[t].rel] = "release"

LEMMA BreakEffect ==
    ASSUME RmType, NEW t \in Removal, RemovalBreaks(t)
    PROVE  BecomesOver(t)
  BY DEF RmType, RmRow, RemovalBreaks, BecomesOver, NoRemoval

LEMMA ReleasesStay ==
    ASSUME TypeOK, Next, NEW v \in Release
    PROVE  /\ phase[v] = "release" => phase'[v] = "release"
           /\ pub[v].st = "done" => pub'[v] = pub[v]
  <1>1. RowsType /\ PubType
    BY TypeSplit
  <1>2. ASSUME phase[v] = "release"
        PROVE  phase'[v] = "release"
    BY <1>1, <1>2 DEF RowsType, Next, QueuePublish, StartPublish, Import, AlreadyThere, FinishPublish, PublishFails,
       PublishTimesOut, PublishDies, CheckPublication, Announce, ArchiveByHand, ArchivePrior,
       AddByHand, RemoveByHand, PlanRemoval, RemoveFiles, DeferRemoval, RemovalFails, Revert,
       ConcludeRemoval, RemovalDies, RemovalBreaks, Catalogue, SkipCommit, Checkpoint, Reconnect, rows
  <1>3. ASSUME pub[v].st = "done"
        PROVE  pub'[v] = pub[v]
    BY <1>1, <1>3 DEF PubType, Next, QueuePublish, StartPublish, Import, AlreadyThere, FinishPublish, PublishFails,
       PublishTimesOut, PublishDies, CheckPublication, Announce, ArchiveByHand, ArchivePrior,
       AddByHand, RemoveByHand, PlanRemoval, RemoveFiles, DeferRemoval, RemovalFails, Revert,
       InFlight, ConcludeRemoval, RemovalDies, RemovalBreaks, Catalogue, SkipCommit, Checkpoint, Reconnect
  <1> QED BY <1>2, <1>3

LEMMA ReleasesOnlyStep ==
    ASSUME TypeOK, ReleasesOnly, Next
    PROVE  ReleasesOnly'
  <1>0. RmType /\ RowsType
    BY TypeSplit
  <1> SUFFICES ASSUME NEW t \in Removal, rm'[t].rel # 0
               PROVE  phase'[rm'[t].rel] = "release"
    BY DEF ReleasesOnly
  <1>1. rm'[t].rel = rm[t].rel \/ (rm'[t].rel \in Release /\ phase[rm'[t].rel] = "release")
    <2>1. \A w \in Release : QueueRemoval(w) =>
             \A u \in Removal : rm'[u].rel \in {w, rm[u].rel}
      BY <1>0, QueueEffect DEF QueuedFor
    <2>2. ASSUME NEW v \in Release, ArchiveByHand(v) \/ ArchivePrior(v)
          PROVE  rm'[t].rel = rm[t].rel \/ (rm'[t].rel \in Release /\ phase[rm'[t].rel] = "release")
      BY <2>1, <2>2 DEF ArchiveByHand, ArchivePrior, Archive, Prior
    <2>3. ASSUME NEW u \in Removal,
                 \/ RemoveFiles(u) \/ DeferRemoval(u) \/ RemovalFails(u) \/ Revert(u)
                 \/ RemovalDies(u) \/ ConcludeRemoval(u) \/ PlanRemoval(u) \/ RemovalBreaks(u)
          PROVE  rm'[t].rel \in {0, rm[t].rel}
      BY <1>0, <2>3, OtherEffects, PlanEffect, BreakEffect DEF Becomes, BecomesOver
    <2> QED BY <2>2, <2>3 DEF Next, QueuePublish, StartPublish, Import, AlreadyThere, FinishPublish,
         PublishFails, PublishTimesOut, PublishDies, CheckPublication, Announce, AddByHand, RemoveByHand,
         Catalogue, SkipCommit, Checkpoint, Reconnect
  <1>2. rm[t].rel \in Release \union {0}
    BY <1>0 DEF RmType, RmRow
  <1> QED BY <1>1, <1>2, ReleasesStay DEF ReleasesOnly

----------------------------------------------------------------------------
(* What holds of the files under the faults after which the archive settles *)

FilesStand ==
    /\ \A v \in Release : v \in checked \/ phase[v] = "release" => pub[v].st = "done"
    /\ \A v \in Release : pub[v].st \in {"imported", "done"} => (InDist(v) <=> ~Gone(v))
    /\ \A v \in Release : Gone(v) => phase[v] = "release"
    /\ ReleasesOnly

\* The commits there are, and what else such a step leaves as it was.
Committing ==
    \/ UNCHANGED log
    \/ \E v \in Release : /\ pub[v].st = "active" /\ Commits("atr", "add", v)
                          /\ Import(v) \/ PublishTimesOut(v)
    \/ \E v \in Release : phase[v] = "release" /\ RemoveByHand(v) /\ Commits("hand", "rm", v)
    \/ \E t \in Removal : /\ rm[t].st = "planned" /\ rm[t].rel \in Release
                          /\ RemoveFiles(t) \/ DeferRemoval(t) \/ RemovalFails(t)
                          /\ Commits("atr", "rm", rm[t].rel)

LEMMA OnlyThose ==
    ASSUME IInv, Settling, Next
    PROVE  Committing
  <1>1. LogType /\ RmType
    BY TypeSplit DEF IInv
  <1>2. \A f \in {"fail", "early", "again"} : f \notin profile
    BY DEF Settling
  <1>3. ASSUME NEW v \in Release, Import(v) \/ PublishTimesOut(v)
        PROVE  Committing
    BY <1>1, <1>3, AddsOne DEF Import, PublishTimesOut, Committing
  <1>4. ASSUME NEW v \in Release, RemoveByHand(v)
        PROVE  Committing
    BY <1>1, <1>2, <1>4, RemovesByHand DEF RemoveByHand, Fault, Committing
  <1>5. ASSUME NEW t \in Removal, RemoveFiles(t) \/ DeferRemoval(t) \/ RemovalFails(t)
        PROVE  Committing
    <2>1. rm[t].st = "planned" /\ rm[t].rel \in Release
      BY <1>1, <1>5, PlannedRelease DEF RemoveFiles, DeferRemoval, RemovalFails
    <2> QED BY <1>5, <2>1, RemovesOne DEF RemoveFiles, DeferRemoval, RemovalFails, Committing
  <1>6. ASSUME NEW v \in Release, AddByHand(v)
        PROVE  FALSE
    BY <1>2, <1>6 DEF AddByHand, Fault
  <1> QED BY <1>3, <1>4, <1>5, <1>6 DEF Next, Committing, QueuePublish, StartPublish, AlreadyThere,
       FinishPublish, PublishFails, PublishDies, CheckPublication, Announce, ArchiveByHand, ArchivePrior,
       PlanRemoval, Revert, ConcludeRemoval, RemovalDies, RemovalBreaks, Catalogue, SkipCommit,
       Checkpoint, Reconnect

LEMMA FilesStep ==
    ASSUME IInv, Settling, FilesStand, Next
    PROVE  FilesStand'
  <1>0. TypeOK /\ LogType /\ RmType /\ RowsType /\ PubType
    BY TypeSplit DEF IInv
  <1>1. ASSUME NEW v \in Release
        PROVE  /\ phase[v] = "release" => phase'[v] = "release"
               /\ pub[v].st = "done" => pub'[v] = pub[v]
    BY <1>0, ReleasesStay
  <1>2. ASSUME NEW v \in Release, v \in checked' \/ phase'[v] = "release"
        PROVE  pub'[v].st = "done"
    <2>1. v \in checked \/ phase[v] = "release" \/ pub[v].st = "done"
      BY <1>0, <1>2 DEF RowsType, Next, QueuePublish, StartPublish, Import, AlreadyThere, FinishPublish, PublishFails,
       PublishTimesOut, PublishDies, CheckPublication, Announce, ArchiveByHand, ArchivePrior,
       AddByHand, RemoveByHand, PlanRemoval, RemoveFiles, DeferRemoval, RemovalFails, Revert,
       ConcludeRemoval, RemovalDies, RemovalBreaks, Catalogue, SkipCommit, Checkpoint, Reconnect,
       rows, announcing
    <2> QED BY <1>1, <2>1 DEF FilesStand
  <1>3. ASSUME NEW v \in Release
        PROVE  /\ pub'[v].st \in {"imported", "done"} => (InDist(v)' <=> ~Gone(v)')
               /\ Gone(v)' => phase'[v] = "release"
    <2>1. pub[v].st = "active" => ~Gone(v)
      BY DEF FilesStand
    <2>2. CASE UNCHANGED log
      <3>1. pub'[v].st \in {"imported", "done"} =>
                pub[v].st \in {"imported", "done"} \/ (pub[v].st = "active" /\ InDist(v))
        <4>1. ASSUME NEW w \in Release, AlreadyThere(w)
              PROVE  pub'[v] = pub[v] \/ (pub[v].st = "active" /\ InDist(v))
          BY <1>0, <4>1 DEF AlreadyThere, PubType
        <4>2. ASSUME NEW w \in Release, Import(w) \/ PublishTimesOut(w)
              PROVE  FALSE
          BY <1>0, <2>2, <4>2, AddsOne, Committed, NothingCommitted DEF Import, PublishTimesOut
        <4>3. ASSUME NEW w \in Release,
                     \/ QueuePublish(w) \/ StartPublish(w) \/ FinishPublish(w)
                     \/ PublishFails(w) \/ PublishDies(w)
              PROVE  pub'[v].st \in {"imported", "done"} => pub[v].st \in {"imported", "done"}
          BY <1>0, <4>3 DEF PubType, PubRow, QueuePublish, StartPublish, FinishPublish, PublishFails, PublishDies
        <4> QED BY <4>1, <4>2, <4>3 DEF Next, CheckPublication, Announce, ArchiveByHand,
              ArchivePrior, AddByHand, RemoveByHand, PlanRemoval, RemoveFiles, DeferRemoval, RemovalFails,
              Revert, ConcludeRemoval, RemovalDies, RemovalBreaks, Catalogue, SkipCommit, Checkpoint,
              Reconnect
      <3> QED BY <1>1, <2>1, <2>2, <3>1, NothingCommitted DEF FilesStand
    <2>3. CASE \E w \in Release : /\ pub[w].st = "active" /\ Commits("atr", "add", w)
                                  /\ Import(w) \/ PublishTimesOut(w)
      <3>1. PICK w \in Release : /\ pub[w].st = "active" /\ Commits("atr", "add", w)
                                 /\ Import(w) \/ PublishTimesOut(w)
        BY <2>3
      <3>2. /\ Gone(v)' <=> Gone(v)
            /\ InDist(v)' <=> v = w \/ InDist(v)
        BY <1>0, <3>1, Committed
      <3>3. v # w => pub'[v] = pub[v]
        BY <1>0, <3>1 DEF Import, PublishTimesOut, PubType
      <3> QED BY <1>1, <2>1, <3>1, <3>2, <3>3 DEF FilesStand
    <2>4. ASSUME NEW w \in Release, NEW by, Commits(by, "rm", w), phase[w] = "release", UNCHANGED pub
          PROVE  /\ pub'[v].st \in {"imported", "done"} => (InDist(v)' <=> ~Gone(v)')
                 /\ Gone(v)' => phase'[v] = "release"
      <3>1. /\ Gone(v)' <=> Gone(v) \/ v = w
            /\ InDist(v)' <=> v # w /\ InDist(v)
        BY <1>0, <2>4, Committed
      <3> QED BY <1>1, <2>4, <3>1 DEF FilesStand
    <2>5. CASE \E w \in Release : phase[w] = "release" /\ RemoveByHand(w) /\ Commits("hand", "rm", w)
      BY <2>4, <2>5 DEF RemoveByHand
    <2>6. CASE \E t \in Removal : /\ rm[t].st = "planned" /\ rm[t].rel \in Release
                                  /\ RemoveFiles(t) \/ DeferRemoval(t) \/ RemovalFails(t)
                                  /\ Commits("atr", "rm", rm[t].rel)
      <3>1. PICK t \in Removal : /\ rm[t].st = "planned" /\ rm[t].rel \in Release
                                 /\ RemoveFiles(t) \/ DeferRemoval(t) \/ RemovalFails(t)
                                 /\ Commits("atr", "rm", rm[t].rel)
        BY <2>6
      <3>2. rm[t].rel # 0
        BY <3>1, ReleaseAssumption
      <3>3. phase[rm[t].rel] = "release" /\ UNCHANGED pub
        BY <3>1, <3>2 DEF FilesStand, ReleasesOnly, RemoveFiles, DeferRemoval, RemovalFails
      <3> QED BY <2>4, <3>1, <3>3
    <2> QED BY <2>2, <2>3, <2>5, <2>6, OnlyThose DEF Committing
  <1>4. ReleasesOnly'
    BY <1>0, ReleasesOnlyStep DEF FilesStand
  <1> QED BY <1>2, <1>3, <1>4 DEF FilesStand

----------------------------------------------------------------------------
(* What a step does to the rows, the removals, the log and the watcher *)

Archives(t, v) ==
    /\ phase[v] = "release" /\ v \notin archived /\ archived' = archived \union {v}
    /\ QueuedFor(t, v)
    /\ UNCHANGED <<log, watcher>>

Plans(t) ==
    /\ rm[t].st = "queued"
    /\ IF InDist(rm[t].rel) THEN Becomes(t, "planned") ELSE Becomes(t, "removed")
    /\ UNCHANGED <<archived, log, watcher>>

Executes(t) ==
    /\ rm[t].st = "planned"
    /\ \/ Commits("atr", "rm", rm[t].rel) /\ (Becomes(t, "removed") \/ Becomes(t, "queued"))
       \/ Commits("atr", "rm", rm[t].rel) /\ Becomes(t, "failing") /\ "timeout" \in profile
       \/ UNCHANGED log /\ Becomes(t, "queued")
       \/ UNCHANGED log /\ Becomes(t, "failing") /\ "refuse" \in profile
    /\ UNCHANGED <<archived, watcher>>

Reverts(t) ==
    /\ rm[t].st = "failing" /\ Becomes(t, "reverted")
    /\ archived' = archived \ {rm[t].rel}
    /\ UNCHANGED <<log, watcher>>

EndsOrDies(t) ==
    /\ \/ rm[t].st \in {"removed", "reverted"} /\ BecomesOver(t)
       \/ UnderWay(t) /\ Becomes(t, "queued") /\ "die" \in profile
    /\ UNCHANGED <<archived, log, watcher>>

ByHand(v) ==
    /\ phase[v] = "release" /\ Commits("hand", "rm", v) /\ "remove" \in profile
    /\ UNCHANGED <<archived, rm, watcher>>

Watches ==
    /\ \/ Catalogue /\ (log[Shown].by = "atr" /\ archived' # archived => "unread" \in profile)
       \/ Checkpoint \/ Reconnect \/ (SkipCommit /\ "skip" \in profile)
    /\ UNCHANGED <<rm, log, profile>>

RowStep ==
    \/ UNCHANGED <<archived, rm, log, watcher>>
    \/ \E v \in Release : Commits("atr", "add", v) /\ UNCHANGED <<archived, rm, watcher>>
    \/ \E v \in Release : ByHand(v)
    \/ \E v \in Release : \E t \in Removal : Archives(t, v)
    \/ \E t \in Removal : Plans(t) \/ Executes(t) \/ Reverts(t) \/ EndsOrDies(t)
    \/ Watches

LEMMA RowSteps ==
    ASSUME IInv, Settling, Next
    PROVE  RowStep
  <1>0. LogType /\ RmType
    BY TypeSplit DEF IInv
  <1>1. \A f \in {"fail", "early", "again"} : f \notin profile
    BY DEF Settling
  <1>2. ASSUME NEW v \in Release, Import(v) \/ PublishTimesOut(v)
        PROVE  RowStep
    <2>1. Commits("atr", "add", v)
      BY <1>0, <1>2, AddsOne DEF Import, PublishTimesOut
    <2> QED BY <1>2, <2>1 DEF Import, PublishTimesOut, RowStep, rows
  <1>3. ASSUME NEW v \in Release, RemoveByHand(v)
        PROVE  RowStep
    <2>1. Commits("hand", "rm", v)
      BY <1>0, <1>3, RemovesByHand
    <2> QED BY <1>1, <1>3, <2>1 DEF RemoveByHand, Fault, ByHand, RowStep, rows
  <1>4. ASSUME NEW v \in Release, ArchiveByHand(v) \/ ArchivePrior(v)
        PROVE  RowStep
    <2>1. ASSUME NEW w \in Release, Archive(w), QueueRemoval(w)
          PROVE  RowStep
      <3>1. PICK t \in Removal : QueuedFor(t, w)
        BY <1>0, <2>1, QueueEffect
      <3>2. UNCHANGED <<log, watcher>>
        BY <1>4 DEF ArchiveByHand, ArchivePrior
      <3> QED BY <2>1, <3>1, <3>2 DEF Archive, Archives, RowStep
    <2>2. UNCHANGED <<archived, rm, log, watcher>> => RowStep
      BY DEF RowStep
    <2> QED BY <1>4, <2>1, <2>2 DEF ArchiveByHand, ArchivePrior, Prior
  <1>5. ASSUME NEW t \in Removal, PlanRemoval(t)
        PROVE  RowStep
    <2>1. Plans(t)
      BY <1>0, <1>5, PlanEffect DEF PlanRemoval, Plans, rows
    <2> QED BY <2>1 DEF RowStep
  <1>6. ASSUME NEW t \in Removal, RemoveFiles(t) \/ DeferRemoval(t) \/ RemovalFails(t)
        PROVE  RowStep
    <2>1. rm[t].st = "planned" /\ UNCHANGED <<archived, watcher>>
      BY <1>6 DEF RemoveFiles, DeferRemoval, RemovalFails, rows
    <2>2. Removes(t) => Commits("atr", "rm", rm[t].rel)
      BY <2>1, RemovesOne
    <2>3. Executes(t)
      BY <1>0, <1>1, <1>6, <2>1, <2>2, OtherEffects DEF RemoveFiles, DeferRemoval, RemovalFails, Fault, Executes
    <2> QED BY <2>3 DEF RowStep
  <1>7. ASSUME NEW t \in Removal, Revert(t)
        PROVE  RowStep
    <2>1. Reverts(t)
      BY <1>0, <1>7, OtherEffects DEF Revert, Reverts
    <2> QED BY <2>1 DEF RowStep
  <1>8. ASSUME NEW t \in Removal, ConcludeRemoval(t) \/ RemovalDies(t)
        PROVE  RowStep
    <2>1. EndsOrDies(t)
      BY <1>0, <1>8, OtherEffects DEF ConcludeRemoval, RemovalDies, Fault, EndsOrDies, rows
    <2> QED BY <2>1 DEF RowStep
  <1>9. ASSUME Catalogue \/ Checkpoint \/ Reconnect \/ SkipCommit
        PROVE  RowStep
    BY <1>9 DEF Catalogue, External, Checkpoint, Reconnect, SkipCommit, Fault, Watches, RowStep
  <1>10. ASSUME NEW v \in Release,
                \/ QueuePublish(v) \/ StartPublish(v) \/ AlreadyThere(v) \/ FinishPublish(v)
                \/ PublishFails(v) \/ PublishDies(v) \/ CheckPublication(v) \/ Announce(v)
         PROVE  RowStep
    BY <1>10 DEF QueuePublish, StartPublish, AlreadyThere, FinishPublish, PublishFails, PublishDies,
       CheckPublication, Announce, RowStep, rows
  <1>11. ASSUME NEW v \in Release, AddByHand(v)
         PROVE  FALSE
    BY <1>1, <1>11 DEF AddByHand, Fault
  <1>12. ASSUME NEW t \in Removal, RemovalBreaks(t)
         PROVE  FALSE
    BY <1>1, <1>12 DEF RemovalBreaks, Fault
  <1> QED BY <1>2, <1>3, <1>4, <1>5, <1>6, <1>7, <1>8, <1>9, <1>10, <1>11, <1>12 DEF Next

----------------------------------------------------------------------------
(* Workers that die, lost connections, removals by hand, a watcher that reconnects *)

Retried == profile \subseteq {"die", "defer", "remove", "replay"}

Tried(v) == \E t \in Removal : rm[t].rel = v /\ rm[t].st \in {"queued", "planned"}

\* Commit k is one of ATR's, or the watcher has handled it.
Noted(k) == log[k].by = "atr" \/ k <= watcher.seen \/ k <= watcher.staged \/ k <= watcher.cursor

RetriedInv ==
    /\ \A t \in Removal : rm[t].st \notin {"failing", "reverted"}
    /\ \A k \in 1 .. Len(log) : log[k].by = "hand" => log[k].op = "rm"
    /\ \A v \in archived : Gone(v) \/ Tried(v)
    /\ \A k \in 1 .. Len(log) : log[k].op = "rm" /\ Noted(k) => log[k].rels \subseteq archived
    /\ \A t \in Removal : rm[t].rel # 0 => rm[t].rel \in archived
    /\ \A t \in Removal : rm[t].st = "removed" => Gone(rm[t].rel)

\* What the watcher does leaves every commit that it has noted with an archived release.
LEMMA RetriedWatches ==
    ASSUME IInv, Retried, FilesStand, RetriedInv, Watches
    PROVE  RetriedInv'
  <1>0. /\ LogType /\ RmType /\ WatcherType /\ Youngest = Len(log) /\ Youngest \in Nat
        /\ Youngest' = Youngest /\ \A w : Gone(w)' <=> Gone(w)
    BY TypeSplit, NothingCommitted DEF IInv, LogType, Watches, Youngest
  <1>1. /\ archived \subseteq archived'
        /\ \A v \in archived' : v \in archived \/ Gone(v)
        /\ \A k \in 1 .. Len(log) : log[k].op = "rm" /\ Noted(k)' => log[k].rels \subseteq archived'
    <2>1. CASE Catalogue
      <3> DEFINE k0 == watcher.seen + 1
                 c == log[k0]
      <3>1. k0 \in 1 .. Youngest /\ c \in Commit
        BY <1>0, <2>1 DEF Catalogue, WatcherType, LogType
      <3>2. c.op = "rm" \/ c.by = "atr"
        BY <1>0, <3>1 DEF RetriedInv, Commit
      <3>3. /\ c.by = "atr" => archived' = archived
            /\ c.by = "hand" /\ c.op = "rm" =>
                  archived' = archived \union {v \in c.rels : phase[v] = "release"}
        <4>1. c.by = "atr" => archived' = archived
          BY <2>1 DEF Watches, Checkpoint, Reconnect, SkipCommit, Shown, Retried, rows
        <4>2. c.by = "hand" => Apply(c)
          BY <2>1 DEF Catalogue, Shown, External
        <4> QED BY <4>1, <4>2 DEF Apply
      <3>4. c.by \in {"atr", "hand"} /\ c.rels \subseteq Release
        BY <3>1 DEF Commit
      <3>5. c.op = "rm" => \A v \in c.rels : Gone(v) /\ phase[v] = "release"
        BY <1>0, <3>1, <3>4 DEF Gone, FilesStand
      <3>6. archived \subseteq archived' /\ \A v \in archived' : v \in archived \/ Gone(v)
        BY <3>2, <3>3, <3>4, <3>5
      <3>7. c.op = "rm" => c.rels \subseteq archived'
        <4>1. CASE c.by = "atr"
          BY <1>0, <3>1, <3>3, <4>1 DEF RetriedInv, Noted
        <4>2. CASE c.by = "hand"
          BY <3>3, <3>5, <4>2
        <4> QED BY <3>4, <4>1, <4>2
      <3>8. ASSUME NEW k \in 1 .. Len(log), log[k].op = "rm", Noted(k)'
            PROVE  log[k].rels \subseteq archived'
        <4>1. watcher'.seen = k0 /\ watcher'.staged = k0 /\ watcher'.cursor = watcher.cursor
          BY <1>0, <2>1 DEF Catalogue, Handled, Shown, WatcherType
        <4>2. UNCHANGED log
          BY DEF Watches
        <4>3. k = k0 \/ Noted(k)
          BY <1>0, <3>1, <3>8, <4>1, <4>2 DEF Noted, WatcherType
        <4> QED BY <3>6, <3>7, <3>8, <4>3 DEF RetriedInv
      <3> QED BY <3>6, <3>8
    <2>2. CASE Checkpoint \/ Reconnect
      <3>1. UNCHANGED <<archived, log>>
        BY <2>2 DEF Checkpoint, Reconnect, Watches, rows
      <3>2. ASSUME NEW k \in 1 .. Len(log), Noted(k)'
            PROVE  Noted(k)
        <4>1. CASE Checkpoint
          <5>1. watcher'.seen = watcher.seen /\ watcher'.staged = watcher.staged /\ watcher'.cursor = watcher.staged
            BY <1>0, <4>1 DEF Checkpoint, WatcherType
          <5> QED BY <3>1, <3>2, <5>1 DEF Noted
        <4>2. CASE Reconnect
          <5>1. watcher.cursor # 0
            BY <4>2 DEF Reconnect, Fault, Retried
          <5>2. watcher'.seen = watcher.cursor /\ watcher'.staged \in {0, watcher.staged}
                /\ watcher'.cursor = watcher.cursor
            BY <4>2, <5>1 DEF Reconnect
          <5> QED BY <3>1, <3>2, <5>2 DEF Noted
        <4> QED BY <2>2, <4>1, <4>2
      <3> QED BY <3>1, <3>2 DEF RetriedInv
    <2> QED BY <2>1, <2>2 DEF Watches, Retried
  <1>2. UNCHANGED <<rm, log>>
    BY DEF Watches
  <1>3. \A v \in archived' : Gone(v)' \/ Tried(v)'
    BY <1>0, <1>1, <1>2 DEF RetriedInv, Tried
  <1> QED BY <1>0, <1>1, <1>2, <1>3 DEF RetriedInv

\* A removal is of a release that is archived, or the watcher has yet to see it.
LEMMA RetriedCommits ==
    ASSUME IInv, RetriedInv, NEW by \in {"atr", "hand"}, NEW op \in {"add", "rm"}, NEW v \in Release,
           Commits(by, op, v), UNCHANGED <<archived, watcher>>, by = "hand" => op = "rm",
           by = "atr" /\ op = "rm" => v \in archived
    PROVE  /\ \A w : Gone(w)' <=> Gone(w) \/ (op = "rm" /\ w = v)
           /\ \A k \in 1 .. Len(log') : log'[k].by = "hand" => log'[k].op = "rm"
           /\ \A k \in 1 .. Len(log') : log'[k].op = "rm" /\ Noted(k)' => log'[k].rels \subseteq archived'
  <1>0. LogType /\ WatcherType
    BY TypeSplit DEF IInv
  <1>1. /\ Youngest \in Nat /\ Youngest' = Youngest + 1
        /\ \A k \in 1 .. Youngest : log'[k] = log[k]
        /\ log'[Youngest + 1].by = by /\ log'[Youngest + 1].op = op /\ log'[Youngest + 1].rels = {v}
        /\ \A w : Gone(w)' <=> Gone(w) \/ (op = "rm" /\ w = v)
    BY <1>0, Committed
  <1>2. Len(log') = Youngest + 1 /\ Len(log) = Youngest
    BY <1>1 DEF Youngest
  <1>3. \A k \in 1 .. Len(log') : k \in 1 .. Youngest \/ k = Youngest + 1
    BY <1>1, <1>2
  <1>4. \A k \in 1 .. Youngest : Noted(k)' => Noted(k)
    BY <1>1 DEF Noted
  <1>5. \A k : k = Youngest + 1 /\ Noted(k)' => by = "atr"
    BY <1>0, <1>1 DEF Noted, WatcherType
  <1>6. ASSUME NEW k \in 1 .. Len(log')
        PROVE  /\ log'[k].by = "hand" => log'[k].op = "rm"
               /\ log'[k].op = "rm" /\ Noted(k)' => log'[k].rels \subseteq archived'
    <2>1. CASE k \in 1 .. Youngest
      BY <1>1, <1>2, <1>4, <2>1 DEF RetriedInv
    <2>2. CASE k = Youngest + 1
      BY <1>1, <1>5, <2>2
    <2> QED BY <1>3, <2>1, <2>2
  <1> QED BY <1>1, <1>6

LEMMA RetriedStep ==
    ASSUME IInv, Retried, FilesStand, RetriedInv, Next
    PROVE  RetriedInv'
  <1>0. RowStep /\ LogType /\ RmType /\ RowsType
    BY RowSteps, TypeSplit DEF Settling, Retried, IInv
  <1>1. CASE UNCHANGED <<archived, rm, log, watcher>>
    BY <1>1, NothingCommitted DEF RetriedInv, Tried, Noted
  <1>2. ASSUME NEW v \in Release, NEW by \in {"atr", "hand"}, NEW op \in {"add", "rm"}, Commits(by, op, v),
               by = "hand" <=> op = "rm", UNCHANGED <<archived, rm, watcher>>
        PROVE  RetriedInv'
    <2>1. /\ \A w : Gone(w)' <=> Gone(w) \/ (op = "rm" /\ w = v)
          /\ \A k \in 1 .. Len(log') : log'[k].by = "hand" => log'[k].op = "rm"
          /\ \A k \in 1 .. Len(log') : log'[k].op = "rm" /\ Noted(k)' => log'[k].rels \subseteq archived'
      BY <1>2, RetriedCommits
    <2> QED BY <1>2, <2>1 DEF RetriedInv, Tried
  <1>3. ASSUME NEW v \in Release, NEW t \in Removal, Archives(t, v)
        PROVE  RetriedInv'
    <2>1. /\ archived' = archived \union {v} /\ UNCHANGED <<log, watcher>>
          /\ rm[t].st = "none" /\ rm'[t].st = "queued" /\ rm'[t].rel = v
          /\ \A u \in Removal \ {t} : rm'[u] = rm[u]
      BY <1>3 DEF Archives, QueuedFor
    <2>2. \A w \in archived' : Gone(w)' \/ Tried(w)'
      BY <2>1, NothingCommitted DEF RetriedInv, Tried
    <2>3. \A k \in 1 .. Len(log') : log'[k].op = "rm" /\ Noted(k)' => log'[k].rels \subseteq archived'
      BY <2>1 DEF RetriedInv, Noted
    <2> QED BY <2>1, <2>2, <2>3, NothingCommitted DEF RetriedInv
  <1>4. ASSUME NEW t \in Removal, Plans(t)
        PROVE  RetriedInv'
    <2>1. rm[t].rel \in Release /\ rm[t].rel # 0
      BY <1>0, <1>4, PlannedRelease, ReleaseAssumption DEF Plans
    <2>2. InDist(rm[t].rel) \/ Gone(rm[t].rel)
      BY <2>1 DEF FilesStand, ReleasesOnly
    <2>3. /\ UNCHANGED <<archived, log, watcher>> /\ rm[t].st = "queued"
          /\ rm'[t].st = "planned" \/ (rm'[t].st = "removed" /\ Gone(rm[t].rel))
          /\ rm'[t].rel = rm[t].rel /\ \A u \in Removal \ {t} : rm'[u] = rm[u]
      BY <1>4, <2>2 DEF Plans, Becomes
    <2>4. \A w \in archived' : Gone(w)' \/ Tried(w)'
      BY <2>3, NothingCommitted DEF RetriedInv, Tried
    <2>5. \A k \in 1 .. Len(log') : log'[k].op = "rm" /\ Noted(k)' => log'[k].rels \subseteq archived'
      BY <2>3 DEF RetriedInv, Noted
    <2> QED BY <2>3, <2>4, <2>5, NothingCommitted DEF RetriedInv
  <1>5. ASSUME NEW t \in Removal, Executes(t)
        PROVE  RetriedInv'
    <2>1. rm[t].rel \in Release /\ rm[t].rel # 0
      BY <1>0, <1>5, PlannedRelease, ReleaseAssumption DEF Executes
    <2>2. rm[t].rel \in archived
      BY <2>1 DEF RetriedInv
    <2>3. UNCHANGED <<archived, watcher>> /\ "refuse" \notin profile /\ "timeout" \notin profile
      BY <1>5 DEF Executes, Retried
    <2>4. CASE Commits("atr", "rm", rm[t].rel) /\ (Becomes(t, "removed") \/ Becomes(t, "queued"))
      <3>1. /\ \A w : Gone(w)' <=> Gone(w) \/ w = rm[t].rel
            /\ \A k \in 1 .. Len(log') : log'[k].by = "hand" => log'[k].op = "rm"
            /\ \A k \in 1 .. Len(log') : log'[k].op = "rm" /\ Noted(k)' => log'[k].rels \subseteq archived'
        BY <2>1, <2>2, <2>3, <2>4, RetriedCommits
      <3>2. /\ rm'[t].st \in {"removed", "queued"} /\ rm'[t].rel = rm[t].rel
            /\ \A u \in Removal \ {t} : rm'[u] = rm[u]
        BY <2>4 DEF Becomes
      <3>3. \A w \in archived' : Gone(w)' \/ Tried(w)'
        BY <2>3, <3>1, <3>2 DEF RetriedInv, Tried
      <3> QED BY <2>3, <3>1, <3>2, <3>3 DEF RetriedInv
    <2>5. CASE UNCHANGED log /\ Becomes(t, "queued")
      <3>1. /\ rm'[t].st = "queued" /\ rm'[t].rel = rm[t].rel
            /\ \A u \in Removal \ {t} : rm'[u] = rm[u]
        BY <2>5 DEF Becomes
      <3>2. \A w \in archived' : Gone(w)' \/ Tried(w)'
        BY <2>3, <2>5, <3>1, NothingCommitted DEF RetriedInv, Tried
      <3>3. \A k \in 1 .. Len(log') : log'[k].op = "rm" /\ Noted(k)' => log'[k].rels \subseteq archived'
        BY <2>3, <2>5 DEF RetriedInv, Noted
      <3> QED BY <2>3, <2>5, <3>1, <3>2, <3>3, NothingCommitted DEF RetriedInv
    <2> QED BY <1>5, <2>3, <2>4, <2>5 DEF Executes
  <1>6. ASSUME NEW t \in Removal, EndsOrDies(t)
        PROVE  RetriedInv'
    <2>1. /\ UNCHANGED <<archived, log, watcher>>
          /\ \A u \in Removal \ {t} : rm'[u] = rm[u]
          /\ \/ rm[t].st = "removed" /\ rm'[t].st = "over" /\ rm'[t].rel = 0
             \/ rm[t].st \in {"planned", "removed"} /\ rm'[t].st = "queued" /\ rm'[t].rel = rm[t].rel
      BY <1>6 DEF EndsOrDies, UnderWay, Becomes, BecomesOver, RetriedInv
    <2>2. \A w \in archived' : Gone(w)' \/ Tried(w)'
      BY <2>1, NothingCommitted DEF RetriedInv, Tried
    <2>3. \A k \in 1 .. Len(log') : log'[k].op = "rm" /\ Noted(k)' => log'[k].rels \subseteq archived'
      BY <2>1 DEF RetriedInv, Noted
    <2> QED BY <2>1, <2>2, <2>3, NothingCommitted DEF RetriedInv
  <1>7. ASSUME NEW v \in Release, ByHand(v)
        PROVE  RetriedInv'
    BY <1>2, <1>7 DEF ByHand
  <1>8. ASSUME NEW t \in Removal, Reverts(t)
        PROVE  FALSE
    BY <1>8 DEF Reverts, RetriedInv
  <1> QED BY <1>0, <1>1, <1>2, <1>3, <1>4, <1>5, <1>6, <1>7, <1>8, RetriedWatches DEF RowStep

----------------------------------------------------------------------------
(* Lost connections, refusals that revert the archive, a watcher that reconnects *)

Refused == profile \subseteq {"defer", "refuse", "replay"}

Live(t) == rm[t].st \in {"queued", "planned", "failing", "removed"}

RefusedInv ==
    /\ \A k \in 1 .. Len(log) : log[k].by = "atr"
    /\ \A v \in Release : v \in archived <=> Gone(v) \/ \E t \in Removal : rm[t].rel = v /\ Live(t)
    /\ \A t, u \in Removal : Live(t) /\ Live(u) /\ rm[t].rel = rm[u].rel => t = u
    /\ \A t \in Removal : rm[t].st \in {"planned", "failing"} => ~Gone(rm[t].rel)
    /\ \A t \in Removal : rm[t].st = "removed" => Gone(rm[t].rel)

LEMMA RefusedStep ==
    ASSUME IInv, Refused, FilesStand, RefusedInv, Next
    PROVE  RefusedInv'
  <1>0. RowStep /\ LogType /\ RmType /\ RowsType /\ WatcherType
    BY RowSteps, TypeSplit DEF Settling, Refused, IInv
  <1>1. ASSUME UNCHANGED <<archived, rm, log>>
        PROVE  RefusedInv'
    BY <1>1, NothingCommitted DEF RefusedInv, Live
  <1>2. ASSUME NEW op \in {"add", "rm"}, NEW v \in Release, Commits("atr", op, v)
        PROVE  /\ \A w : Gone(w)' <=> Gone(w) \/ (op = "rm" /\ w = v)
               /\ \A k \in 1 .. Len(log') : log'[k].by = "atr"
    <2>0. PICK by : by = "atr" /\ Commits(by, op, v)
      BY <1>2
    <2>1. /\ Youngest \in Nat /\ Youngest' = Youngest + 1
          /\ \A k \in 1 .. Youngest : log'[k] = log[k]
          /\ log'[Youngest + 1].by = by
      BY <1>0, <1>2, <2>0, Committed
    <2>4. \A w : Gone(w)' <=> Gone(w) \/ (op = "rm" /\ w = v)
      BY <1>0, <1>2, <2>0, RemovedByCommit
    <2>2. Len(log') = Youngest + 1 /\ Len(log) = Youngest
      BY <2>1 DEF Youngest
    <2>3. \A k \in 1 .. Len(log') : k \in 1 .. Youngest \/ k = Youngest + 1
      BY <2>1, <2>2
    <2> QED BY <2>0, <2>1, <2>2, <2>3, <2>4 DEF RefusedInv
  <1>3. ASSUME NEW v \in Release, Commits("atr", "add", v), UNCHANGED <<archived, rm>>
        PROVE  RefusedInv'
    <2>1. /\ \A w : Gone(w)' <=> Gone(w)
          /\ \A k \in 1 .. Len(log') : log'[k].by = "atr"
      BY <1>2, <1>3
    <2> QED BY <1>3, <2>1 DEF RefusedInv, Live
  <1>4. ASSUME NEW v \in Release, NEW t \in Removal, Archives(t, v)
        PROVE  RefusedInv'
    <2>1. /\ archived' = archived \union {v} /\ v \notin archived /\ UNCHANGED log
          /\ rm[t].st = "none" /\ rm'[t].st = "queued" /\ rm'[t].rel = v
          /\ \A u \in Removal \ {t} : rm'[u] = rm[u]
      BY <1>4 DEF Archives, QueuedFor
    <2>2. ~Gone(v) /\ \A u \in Removal : Live(u) => rm[u].rel # v
      BY <2>1 DEF RefusedInv
    <2> QED BY <2>1, <2>2, NothingCommitted DEF RefusedInv, Live
  <1>5. ASSUME NEW t \in Removal, Plans(t)
        PROVE  RefusedInv'
    <2>1. rm[t].rel \in Release /\ rm[t].rel # 0
      BY <1>0, <1>5, PlannedRelease, ReleaseAssumption DEF Plans
    <2>2. InDist(rm[t].rel) <=> ~Gone(rm[t].rel)
      BY <2>1 DEF FilesStand, ReleasesOnly
    <2>3. /\ UNCHANGED <<archived, log>> /\ rm[t].st = "queued"
          /\ \/ rm'[t].st = "planned" /\ ~Gone(rm[t].rel)
             \/ rm'[t].st = "removed" /\ Gone(rm[t].rel)
          /\ rm'[t].rel = rm[t].rel /\ \A u \in Removal \ {t} : rm'[u] = rm[u]
      BY <1>5, <2>2 DEF Plans, Becomes
    <2> QED BY <2>3, NothingCommitted DEF RefusedInv, Live
  <1>6. ASSUME NEW t \in Removal, Executes(t)
        PROVE  RefusedInv'
    <2>1. rm[t].rel \in Release /\ rm[t].st = "planned" /\ UNCHANGED archived
      BY <1>0, <1>6, PlannedRelease DEF Executes
    <2>2. CASE Commits("atr", "rm", rm[t].rel) /\ (Becomes(t, "removed") \/ Becomes(t, "queued"))
      <3>1. /\ \A w : Gone(w)' <=> Gone(w) \/ w = rm[t].rel
            /\ \A k \in 1 .. Len(log') : log'[k].by = "atr"
        BY <1>2, <2>1, <2>2
      <3>2. /\ rm'[t].st \in {"removed", "queued"} /\ rm'[t].rel = rm[t].rel
            /\ \A u \in Removal \ {t} : rm'[u] = rm[u]
        BY <2>2 DEF Becomes
      <3>3. \A u \in Removal \ {t} : Live(u) => rm[u].rel # rm[t].rel
        BY <2>1 DEF RefusedInv, Live
      <3> QED BY <2>1, <3>1, <3>2, <3>3 DEF RefusedInv, Live
    <2>3. CASE UNCHANGED log /\ (Becomes(t, "queued") \/ Becomes(t, "failing"))
      <3>1. /\ rm'[t].st \in {"queued", "failing"} /\ rm'[t].rel = rm[t].rel
            /\ \A u \in Removal \ {t} : rm'[u] = rm[u]
        BY <2>3 DEF Becomes
      <3> QED BY <2>1, <2>3, <3>1, NothingCommitted DEF RefusedInv, Live
    <2>4. "timeout" \notin profile
      BY DEF Refused
    <2> QED BY <1>6, <2>2, <2>3, <2>4 DEF Executes
  <1>7. ASSUME NEW t \in Removal, Reverts(t)
        PROVE  RefusedInv'
    <2>1. /\ archived' = archived \ {rm[t].rel} /\ UNCHANGED log /\ rm[t].st = "failing"
          /\ rm'[t].st = "reverted" /\ rm'[t].rel = rm[t].rel
          /\ \A u \in Removal \ {t} : rm'[u] = rm[u]
      BY <1>7 DEF Reverts, Becomes
    <2>2. ~Gone(rm[t].rel) /\ \A u \in Removal \ {t} : Live(u) => rm[u].rel # rm[t].rel
      BY <2>1 DEF RefusedInv, Live
    <2> QED BY <2>1, <2>2, NothingCommitted DEF RefusedInv, Live
  <1>8. ASSUME NEW t \in Removal, EndsOrDies(t)
        PROVE  RefusedInv'
    <2>1. /\ UNCHANGED <<archived, log>> /\ rm[t].st \in {"removed", "reverted"}
          /\ rm'[t].st = "over" /\ \A u \in Removal \ {t} : rm'[u] = rm[u]
      BY <1>8 DEF EndsOrDies, BecomesOver, Refused
    <2> QED BY <2>1, NothingCommitted DEF RefusedInv, Live
  <1>9. CASE Watches
    <2>1. CASE Catalogue
      <3>1. log[Shown].by = "atr"
        BY <1>0, <2>1 DEF Catalogue, Shown, WatcherType, RefusedInv, Youngest
      <3>2. UNCHANGED archived
        BY <1>9, <2>1, <3>1 DEF Watches, Checkpoint, Reconnect, SkipCommit, Refused, rows
      <3> QED BY <1>1, <1>9, <3>2 DEF Watches
    <2>2. CASE Checkpoint \/ Reconnect
      BY <1>1, <1>9, <2>2 DEF Checkpoint, Reconnect, Watches, rows
    <2> QED BY <1>9, <2>1, <2>2 DEF Watches, Refused
  <1>10. ASSUME NEW v \in Release, ByHand(v)
         PROVE  FALSE
    BY <1>10 DEF ByHand, Refused
  <1> QED BY <1>0, <1>1, <1>3, <1>4, <1>5, <1>6, <1>7, <1>8, <1>9, <1>10 DEF RowStep

----------------------------------------------------------------------------
(* Whatever does not make ATR forget an archived release *)

Pending(v) == \E t \in Removal : rm[t].rel = v /\ rm[t].st \in {"queued", "planned", "failing"}

SettlingInv ==
    /\ \A v \in archived : Gone(v) \/ Pending(v)
    /\ \A t \in Removal : rm[t].st = "removed" => Gone(rm[t].rel)

LEMMA SettlingStep ==
    ASSUME IInv, Settling, FilesStand, SettlingInv, Next
    PROVE  SettlingInv'
  <1>0. RowStep /\ LogType /\ RmType /\ RowsType /\ WatcherType
    BY RowSteps, TypeSplit DEF IInv
  <1>1. CASE UNCHANGED <<archived, rm, log>>
    BY <1>1, NothingCommitted DEF SettlingInv, Pending
  <1>2. ASSUME NEW v \in Release, NEW by, NEW op \in {"add", "rm"}, Commits(by, op, v),
               UNCHANGED <<archived, rm>>
        PROVE  SettlingInv'
    <2>1. \A w : Gone(w)' <=> Gone(w) \/ (op = "rm" /\ w = v)
      BY <1>0, <1>2, RemovedByCommit
    <2> QED BY <1>2, <2>1 DEF SettlingInv, Pending
  <1>3. ASSUME NEW v \in Release, NEW t \in Removal, Archives(t, v)
        PROVE  SettlingInv'
    <2>1. /\ archived' = archived \union {v} /\ UNCHANGED log
          /\ rm[t].st = "none" /\ rm'[t].st = "queued" /\ rm'[t].rel = v
          /\ \A u \in Removal \ {t} : rm'[u] = rm[u]
      BY <1>3 DEF Archives, QueuedFor
    <2> QED BY <2>1, NothingCommitted DEF SettlingInv, Pending
  <1>4. ASSUME NEW t \in Removal, Plans(t)
        PROVE  SettlingInv'
    <2>1. rm[t].rel \in Release /\ rm[t].rel # 0
      BY <1>0, <1>4, PlannedRelease, ReleaseAssumption DEF Plans
    <2>2. InDist(rm[t].rel) \/ Gone(rm[t].rel)
      BY <2>1 DEF FilesStand, ReleasesOnly
    <2>3. /\ UNCHANGED <<archived, log>> /\ rm[t].st = "queued"
          /\ rm'[t].st = "planned" \/ (rm'[t].st = "removed" /\ Gone(rm[t].rel))
          /\ rm'[t].rel = rm[t].rel /\ \A u \in Removal \ {t} : rm'[u] = rm[u]
      BY <1>4, <2>2 DEF Plans, Becomes
    <2> QED BY <2>3, NothingCommitted DEF SettlingInv, Pending
  <1>5. ASSUME NEW t \in Removal, Executes(t)
        PROVE  SettlingInv'
    <2>1. rm[t].rel \in Release /\ rm[t].st = "planned" /\ UNCHANGED archived
      BY <1>0, <1>5, PlannedRelease DEF Executes
    <2>2. /\ rm'[t].st \in {"removed", "queued", "failing"} /\ rm'[t].rel = rm[t].rel
          /\ \A u \in Removal \ {t} : rm'[u] = rm[u]
          /\ Commits("atr", "rm", rm[t].rel) \/ (UNCHANGED log /\ rm'[t].st # "removed")
      BY <1>5 DEF Executes, Becomes
    <2>3. CASE Commits("atr", "rm", rm[t].rel)
      <3>1. \A w : Gone(w)' <=> Gone(w) \/ w = rm[t].rel
        BY <1>0, <2>3, Committed
      <3> QED BY <2>1, <2>2, <3>1 DEF SettlingInv, Pending
    <2>4. CASE UNCHANGED log /\ rm'[t].st # "removed"
      BY <2>1, <2>2, <2>4, NothingCommitted DEF SettlingInv, Pending
    <2> QED BY <2>2, <2>3, <2>4
  <1>6. ASSUME NEW t \in Removal, Reverts(t)
        PROVE  SettlingInv'
    <2>1. /\ archived' = archived \ {rm[t].rel} /\ UNCHANGED log
          /\ rm'[t].st = "reverted" /\ rm'[t].rel = rm[t].rel
          /\ \A u \in Removal \ {t} : rm'[u] = rm[u]
      BY <1>6 DEF Reverts, Becomes
    <2> QED BY <2>1, NothingCommitted DEF SettlingInv, Pending
  <1>7. ASSUME NEW t \in Removal, EndsOrDies(t)
        PROVE  SettlingInv'
    <2>1. /\ UNCHANGED <<archived, log>>
          /\ \A u \in Removal \ {t} : rm'[u] = rm[u]
          /\ \/ rm[t].st \in {"removed", "reverted"} /\ rm'[t].st = "over" /\ rm'[t].rel = 0
             \/ rm'[t].st = "queued" /\ rm'[t].rel = rm[t].rel
      BY <1>7 DEF EndsOrDies, Becomes, BecomesOver
    <2> QED BY <2>1, NothingCommitted DEF SettlingInv, Pending
  <1>8. CASE Watches
    <2>1. CASE Catalogue
      <3> DEFINE c == log[Shown]
      <3>1. Shown \in 1 .. Youngest /\ c \in Commit
        BY <1>0, <2>1 DEF Catalogue, Shown, WatcherType, LogType, Youngest
      <3>2. \/ UNCHANGED archived
            \/ archived' = archived \ c.rels
            \/ c.op = "rm" /\ archived' = archived \union {v \in c.rels : phase[v] = "release"}
        <4>1. c.op \in {"add", "rm"}
          BY <3>1 DEF Commit
        <4> QED BY <2>1, <4>1 DEF Catalogue, Apply
      <3>4. c.op = "rm" => \A v \in c.rels : Gone(v)
        BY <3>1 DEF Gone, Youngest
      <3>5. \A v \in archived' : v \in archived \/ Gone(v)
        BY <3>2, <3>4
      <3> QED BY <1>8, <3>5, NothingCommitted DEF Watches, SettlingInv, Pending
    <2>2. CASE Checkpoint \/ Reconnect \/ SkipCommit
      BY <1>1, <1>8, <2>2 DEF Checkpoint, Reconnect, SkipCommit, Watches, rows
    <2> QED BY <1>8, <2>1, <2>2 DEF Watches
  <1> QED BY <1>0, <1>1, <1>2, <1>3, <1>4, <1>5, <1>6, <1>7, <1>8 DEF RowStep, ByHand

----------------------------------------------------------------------------
(* The agreement of the records *)

Agreeing ==
    /\ Settling => FilesStand /\ SettlingInv
    /\ Retried => RetriedInv
    /\ Refused => RefusedInv

LEMMA InitAgreeing == Init => Agreeing
  BY ReleaseAssumption DEF Init, Agreeing, FilesStand, ReleasesOnly, SettlingInv, RetriedInv, RefusedInv,
     Gone, Pending, Live, Tried, NoPub, NoRemoval

LEMMA NextAgreeing ==
    ASSUME IInv, Agreeing, Next
    PROVE  Agreeing'
  <1>1. profile' = profile
    BY FaultsStep DEF IInv
  <1>2. Retried \/ Refused => Settling
    BY DEF Retried, Refused, Settling
  <1>3. Settling => FilesStand' /\ SettlingInv'
    BY FilesStep, SettlingStep DEF Agreeing
  <1>4. Retried => RetriedInv'
    BY <1>2, RetriedStep DEF Agreeing
  <1>5. Refused => RefusedInv'
    BY <1>2, RefusedStep DEF Agreeing
  <1> QED BY <1>1, <1>3, <1>4, <1>5 DEF Agreeing, Settling, Retried, Refused

LEMMA StutterAgreeing ==
    ASSUME Agreeing, UNCHANGED vars
    PROVE  Agreeing'
  <1>1. /\ UNCHANGED <<profile, phase, archived, pub, checked, rm, log, watcher>>
        /\ \A w : Gone(w)' <=> Gone(w)
        /\ \A w : InDist(w)' <=> InDist(w)
    BY NothingCommitted DEF vars, rows, announcing
  <1> QED BY <1>1 DEF Agreeing, Settling, Retried, Refused, FilesStand, ReleasesOnly, SettlingInv,
       RetriedInv, RefusedInv, Pending, Live, Tried, Noted

LEMMA AgreeingRecords ==
    ASSUME IInv, Agreeing
    PROVE  RecordsAgree
  <1> SUFFICES ASSUME Benign, Quiet, NEW v \in Release, phase[v] = "release"
               PROVE  v \notin archived <=> InDist(v)
    BY DEF RecordsAgree
  <1>1. InDist(v) <=> ~Gone(v)
    BY DEF Agreeing, FilesStand, Settling, Benign
  <1>2. CASE Retried
    <2>1. v \in archived => Gone(v)
      BY <1>2 DEF Agreeing, RetriedInv, Tried, Quiet
    <2>2. Gone(v) => v \in archived
      BY <1>2 DEF Agreeing, RetriedInv, Noted, Quiet, Gone, Youngest
    <2> QED BY <1>1, <2>1, <2>2
  <1>3. CASE Refused
    BY <1>1, <1>3 DEF Agreeing, RefusedInv, Live, Quiet
  <1> QED BY <1>2, <1>3 DEF Benign, Retried, Refused

LEMMA IndAgreeing == Spec => [](IInv /\ Agreeing)
  <1>1. Init => IInv /\ Agreeing
    BY InitIInv, InitAgreeing
  <1>2. IInv /\ Agreeing /\ [Next]_vars => (IInv /\ Agreeing)'
    BY NextIInv, StutterIInv, NextAgreeing, StutterAgreeing
  <1> QED BY <1>1, <1>2, PTL DEF Spec

\* When nothing is under way, a release is archived if and only if its files have left the
\* distribution area, for any number of releases, removals and commits, whichever of the
\* faults that are made up for occur (archive_release_core, revert_failed_archive,
\* unpublish_from_svn_execute, catalogue_commit).
THEOREM ArchiveAgreesWithFiles == Spec => []RecordsAgree
  <1>1. IInv /\ Agreeing => RecordsAgree
    BY AgreeingRecords
  <1> QED BY <1>1, IndAgreeing, PTL

\* An archived release whose files are still there has a removal that has yet to run or to
\* give it back, for any number of releases, removals and commits: ArchiveSettles waits for
\* no more than the workers (archive_release_core, unpublish_from_svn_execute,
\* revert_failed_archive, catalogue_commit).
THEOREM ArchivedIsRemoved == Spec => []NoneForgotten
  <1>1. ASSUME IInv, Agreeing
        PROVE  NoneForgotten
    <2> SUFFICES ASSUME Settling, NEW v \in archived, InDist(v)
                 PROVE  Pending(v)
      BY DEF NoneForgotten, Pending
    <2>1. v \in Release /\ phase[v] = "release"
      BY <1>1, TypeSplit DEF IInv, RowsType
    <2>2. ~Gone(v)
      BY <1>1, <2>1 DEF Agreeing, FilesStand
    <2> QED BY <1>1, <2>2 DEF Agreeing, SettlingInv
  <1> QED BY <1>1, IndAgreeing, PTL
=============================================================================
