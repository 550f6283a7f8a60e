--------------------------- MODULE Votes_proofs ----------------------------
(***************************************************************************)
(* Theorems on Votes, for any voters, committees, requests and bounds.     *)
(*                                                                         *)
(* The inductive invariant IInv says of the numbers of votes that those    *)
(* above the current one are unused (NumbersFresh), of the ballots that a  *)
(* vote has one round and one row per voter (OneRowEach), of the release   *)
(* that its fields are those of the outcome they come from (Candidacy,     *)
(* Approval, SecondAfterFirst), and of a process that resolves a vote that *)
(* what it has read belongs together (Remembers, KnowsThread).  For the    *)
(* refinement of BallotBox, BInv adds to it that the ballots are finitely  *)
(* many, so that they can be counted voter by voter, and that a project    *)
(* which is no podling has none of a first round (Countable).              *)
(***************************************************************************)
EXTENDS VotesBox, FiniteSetTheorems, WellFoundedInduction, TLAPS

NumbersFresh ==
    /\ \A s \in VoteSeq : s > seq => outcome[s] = NoOutcome
    /\ \A b \in ballots : b.seq <= seq

\* Ballots of one vote are of one round, and of different voters.
OneRowEach ==
    \A b, c \in ballots : b.seq = c.seq => b.round = c.round /\ (b.voter = c.voter => b = c)

\* What is true of the current vote.
Candidacy ==
    /\ phase = "candidate" => seq \in VoteSeq /\ outcome[seq] = NoOutcome
    /\ phase # "draft" =>
        /\ voted = latest
        /\ \A b \in ballots : b.seq = seq => b.round = Round /\ b.revision = voted

\* What is true of a release that passed.
Approval ==
    phase = "preview" =>
        /\ seq \in VoteSeq /\ Round # 1
        /\ outcome[seq].result = "passed" /\ outcome[seq].round = Round
        /\ outcome[seq].revision = voted

\* A second round follows its own first round, in which there were ballots.
SecondAfterFirst ==
    thread # 0 =>
        /\ podling /\ phase # "draft"
        /\ seq \in VoteSeq /\ seq - 1 \in VoteSeq
        /\ outcome[seq - 1].result = "passed" /\ outcome[seq - 1].round = 1
        /\ outcome[seq - 1].revision = voted
        /\ \A b \in ballots : b.seq = seq - 1 => b.revision = voted
        /\ mode = "trusted" =>
            \/ outcome[seq - 1].override
            \/ \E b \in ballots : b.seq = seq - 1 /\ b.round = 1

Core == NumbersFresh /\ OneRowEach /\ Candidacy /\ Approval /\ SecondAfterFirst /\ ApprovedOnBallots

Remembers ==
    \A r \in Request :
        req[r].mode = "email" =>
            /\ req[r].seen <= seq /\ req[r].expected \in {0, req[r].seen}
            /\ phase = "candidate" /\ req[r].seen = seq => mode = "email"

\* The thread found for a first round is that of the vote which was meant.
KnowsThread ==
    \A r \in Request :
        req[r].mode = "trusted" => req[r].expected = 0 \/ req[r].thread \in {0, req[r].expected}

IInv == TypeOK /\ Core /\ Remembers /\ KnowsThread

USE ModeAssumption, NeededAssumption, BoundAssumption

----------------------------------------------------------------------------
(* Lemmas *)

\* A request is a record of its fields, whatever it is set to next.
LEMMA RequestType ==
    ASSUME TypeOK, NEW r \in Request
    PROVE  /\ req[r].at \in {"idle", "deciding", "auto", "decided"} /\ req[r].result \in Result
           /\ req[r].expected \in 0 .. MaxVote /\ req[r].mode \in {"none", "trusted", "email"}
           /\ req[r].seen \in 0 .. MaxVote /\ req[r].thread \in 0 .. MaxVote
  BY DEF TypeOK

\* A vote that passes has ballots.
LEMMA PassingVoteHasBallots ==
    ASSUME NEW s, Passes(s) PROVE Effective(s) # {}
  <1> SUFFICES ASSUME Effective(s) = {} PROVE FALSE
    OBVIOUS
  <1> DEFINE Yes == {b \in Effective(s) : b.choice = "yes" /\ b.voter \in Binding(Round)}
  <1>1. Yes = {}
    OBVIOUS
  <1>2. Cardinality(Yes) = 0
    BY <1>1, FS_EmptySet
  <1>3. Cardinality(Yes) >= Needed
    BY DEF Passes, BindingVotes
  <1> QED
    BY <1>2, <1>3

----------------------------------------------------------------------------
(* Steps that change neither the release nor its ballots and outcomes *)

LEMMA QuietStep ==
    ASSUME Core, UNCHANGED <<release, latest, ballots, outcome>>
    PROVE  Core'
  <1> USE DEF release
  <1>1. NumbersFresh' /\ OneRowEach'
    BY DEF Core, NumbersFresh, OneRowEach
  <1>2. Candidacy' /\ Approval' /\ SecondAfterFirst'
    BY DEF Core, Candidacy, Approval, SecondAfterFirst, Round, RoundOf
  <1>3. ApprovedOnBallots'
    BY DEF Core, ApprovedOnBallots, Passes, BindingVotes, Effective, Carried, BallotsOf,
           PreviousRoundOne, Binding, Round, RoundOf
  <1> QED
    BY <1>1, <1>2, <1>3 DEF Core

----------------------------------------------------------------------------
(* Steps that change them *)

LEMMA NewRevisionKeepsCore ==
    ASSUME Core, NewRevision PROVE Core'
  <1> USE DEF NewRevision, release
  <1>1. NumbersFresh' /\ OneRowEach'
    BY DEF Core, NumbersFresh, OneRowEach
  <1>2. Candidacy' /\ Approval' /\ SecondAfterFirst'
    BY DEF Core, Candidacy, Approval, SecondAfterFirst
  <1>3. ApprovedOnBallots'
    BY DEF ApprovedOnBallots
  <1> QED
    BY <1>1, <1>2, <1>3 DEF Core

LEMMA StartKeepsCore ==
    ASSUME TypeOK, Core, Start PROVE Core'
  <1> USE DEF Start
  <1>1. seq \in Nat /\ seq + 1 \in VoteSeq
    BY DEF TypeOK, VoteSeq
  <1>2. thread = 0
    BY DEF Core, SecondAfterFirst
  <1>3. \A b \in ballots : b.seq \in Nat
    BY DEF TypeOK, VoteSeq
  <1>4. NumbersFresh' /\ OneRowEach'
    BY <1>1, <1>3 DEF Core, NumbersFresh, OneRowEach, VoteSeq
  <1>5. Candidacy'
    BY <1>1, <1>3 DEF Core, NumbersFresh, Candidacy
  <1>6. Approval' /\ SecondAfterFirst' /\ ApprovedOnBallots'
    BY <1>2 DEF Approval, SecondAfterFirst, ApprovedOnBallots
  <1> QED
    BY <1>4, <1>5, <1>6 DEF Core

LEMMA CastKeepsCore ==
    ASSUME TypeOK, Core, NEW v \in Voter, NEW c \in Choice, NEW form \in VoteSeq, Cast(v, c, form)
    PROVE  Core'
  <1> DEFINE new == [seq |-> seq, round |-> Round, voter |-> v, choice |-> c, revision |-> latest]
  <1> USE DEF Cast, release
  <1>1. \A b \in ballots' : b = new \/ (b \in ballots /\ ~(b.seq = seq /\ b.round = Round /\ b.voter = v))
    OBVIOUS
  <1>2. NumbersFresh'
    <2>1. new.seq <= seq
      BY DEF TypeOK
    <2> QED
      BY <1>1, <2>1 DEF Core, NumbersFresh
  <1>3. \A b \in ballots : b.seq = seq => b.round = Round /\ b.revision = voted
    BY DEF Core, Candidacy
  <1>4. OneRowEach'
    <2> SUFFICES ASSUME NEW b \in ballots', NEW d \in ballots', b.seq = d.seq
                 PROVE  b.round = d.round /\ (b.voter = d.voter => b = d)
      BY DEF OneRowEach
    <2>1. CASE b = new /\ d = new
      BY <2>1
    <2>2. CASE b = new /\ d # new
      BY <2>2, <1>1, <1>3
    <2>3. CASE b # new /\ d = new
      BY <2>3, <1>1, <1>3
    <2>4. CASE b # new /\ d # new
      BY <2>4, <1>1 DEF Core, OneRowEach
    <2> QED
      BY <2>1, <2>2, <2>3, <2>4
  <1>5. Candidacy'
    BY <1>1, <1>3 DEF Core, Candidacy, Round, RoundOf
  <1>6. Approval' /\ ApprovedOnBallots'
    BY DEF Approval, ApprovedOnBallots
  <1>7. SecondAfterFirst'
    <2> SUFFICES ASSUME thread # 0 PROVE SecondAfterFirst'
      BY DEF SecondAfterFirst
    <2>1. seq \in Nat /\ seq - 1 # seq
      BY DEF TypeOK
    <2>2. \A b \in ballots' : b.seq = seq - 1 => b \in ballots
      BY <1>1, <2>1
    <2>3. \A b \in ballots : b.seq = seq - 1 => b \in ballots'
      BY <2>1
    <2> QED
      BY <2>2, <2>3 DEF Core, SecondAfterFirst
  <1> QED
    BY <1>2, <1>4, <1>5, <1>6, <1>7 DEF Core

LEMMA ResolveKeepsCore ==
    ASSUME TypeOK, Core, NEW r \in Request, NEW s, NEW t, NEW found, Resolve(s, t, found, r),
           UNCHANGED <<podling, latest, ballots>>,
           mode = "trusted" /\ req[r].result = "passed" => Passes(seq) \/ r \in Overrider
    PROVE  Core'
  <1> DEFINE new == [result |-> IF req[r].result = "passed" THEN "passed" ELSE "rejected",
                     round |-> Round, revision |-> voted, override |-> r \in Overrider]
  <1>1. /\ phase = "candidate" /\ s = seq /\ t = thread
        /\ outcome' = [outcome EXCEPT ![seq] = new]
    BY DEF Resolve, Transition, Resolved, Round
  <1>2. seq \in VoteSeq /\ seq \in Nat /\ seq' \in {seq, seq + 1}
    BY <1>1 DEF Core, Candidacy, TypeOK, Resolve, SecondRound, Passed, Returned
  <1>3. outcome'[seq] = new /\ \A n \in VoteSeq \ {seq} : outcome'[n] = outcome[n]
    BY <1>1, <1>2 DEF TypeOK
  <1>11. r \in Overrider => outcome'[seq].override
    <2>1. new.override = (r \in Overrider)
      BY Zenon
    <2>2. outcome'[seq].override = (r \in Overrider)
      BY <1>3, <2>1, Zenon
    <2> HIDE DEF new
    <2> QED
      BY <2>2, Zenon
  <1>4. voted = latest /\ \A b \in ballots : b.seq = seq => b.round = Round /\ b.revision = voted
    BY <1>1 DEF Core, Candidacy
  <1>5. \A b \in ballots : b.seq \in Nat /\ b.seq <= seq
    BY DEF TypeOK, VoteSeq, Core, NumbersFresh
  <1>6. OneRowEach'
    BY DEF Core, OneRowEach
  <1>7. NumbersFresh'
    <2>1. \A n \in VoteSeq : n > seq' => n > seq /\ n # seq
      BY <1>2 DEF VoteSeq
    <2> QED
      BY <2>1, <1>2, <1>3, <1>5 DEF Core, NumbersFresh
  <1>8. CASE req[r].result = "passed" /\ Round = 1
    <2>1. SecondRound(found, r)
      BY <1>1, <1>8 DEF Resolve, Round
    <2>2. /\ phase' = "candidate" /\ seq' = seq + 1 /\ seq' \in VoteSeq /\ seq' # seq
          /\ thread' # 0 /\ mode' = mode /\ voted' = voted
      BY <1>1, <1>2, <2>1 DEF SecondRound, VoteSeq
    <2>3. podling' /\ seq' - 1 = seq
      BY <1>2, <1>8, <2>2 DEF Round, RoundOf, TypeOK
    <2>4. outcome'[seq'] = NoOutcome
      BY <1>2, <1>3, <2>2 DEF Core, NumbersFresh
    <2>5. Candidacy'
      BY <1>4, <1>5, <1>2, <2>2, <2>4 DEF Candidacy
    <2>6. mode = "trusted" /\ r \notin Overrider => \E b \in ballots : b.seq = seq /\ b.round = 1
      <3> SUFFICES ASSUME mode = "trusted", r \notin Overrider
                   PROVE  \E b \in ballots : b.seq = seq /\ b.round = 1
        OBVIOUS
      <3>1. Effective(seq) # {}
        BY <1>8, PassingVoteHasBallots
      <3>2. Effective(seq) = BallotsOf(seq)
        BY <1>8 DEF Effective
      <3> QED
        BY <3>1, <3>2, <1>4, <1>8 DEF BallotsOf
    <2>7. SecondAfterFirst'
      BY <1>2, <1>3, <1>4, <1>8, <1>11, <2>2, <2>3, <2>6 DEF SecondAfterFirst
    <2> QED
      BY <1>6, <1>7, <2>2, <2>5, <2>7 DEF Core, Approval, ApprovedOnBallots
  <1>9. CASE req[r].result = "passed" /\ Round # 1
    <2>1. phase' = "preview" /\ UNCHANGED <<mode, seq, thread, voted>>
      BY <1>1, <1>9 DEF Resolve, Round, Passed
    <2>2. Round' = Round
      BY <2>1 DEF Round, RoundOf
    <2>3. Candidacy' /\ Approval'
      BY <1>2, <1>3, <1>4, <1>9, <2>1, <2>2 DEF Candidacy, Approval
    <2>4. SecondAfterFirst'
      <3> SUFFICES ASSUME thread # 0 PROVE SecondAfterFirst'
        BY <2>1 DEF SecondAfterFirst
      <3>1. seq - 1 \in VoteSeq /\ outcome'[seq - 1] = outcome[seq - 1]
        BY <1>2, <1>3 DEF Core, SecondAfterFirst
      <3> QED
        BY <2>1, <3>1 DEF Core, SecondAfterFirst
    <2>5. Passes(seq)' <=> Passes(seq)
      BY <2>1 DEF Passes, BindingVotes, Effective, Carried, BallotsOf, PreviousRoundOne, Binding,
                  Round, RoundOf
    <2>6. ApprovedOnBallots'
      BY <1>11, <1>9, <2>1, <2>5 DEF ApprovedOnBallots
    <2> QED
      BY <1>6, <1>7, <2>3, <2>4, <2>6 DEF Core
  <1>10. CASE req[r].result # "passed"
    <2>1. phase' = "draft" /\ thread' = 0
      BY <1>10 DEF Resolve, Returned
    <2> QED
      BY <1>6, <1>7, <2>1 DEF Core, Candidacy, Approval, SecondAfterFirst, ApprovedOnBallots
  <1> QED
    BY <1>8, <1>9, <1>10

----------------------------------------------------------------------------
(* Type correctness *)

Tasks == [st : {"none", "queued", "active", "done", "failed"}, auto : BOOLEAN, tries : 0 .. MaxTries]

LEMMA NewTaskType == \A auto \in BOOLEAN : NewTask(auto) \in Tasks
  <1>1. 0 \in 0 .. MaxTries
    OBVIOUS
  <1> QED
    BY <1>1, Zenon DEF NewTask, Tasks

LEMMA EndedType == Ended("done") \in Tasks /\ Ended("failed") \in Tasks
  <1>1. 0 \in 0 .. MaxTries
    OBVIOUS
  <1> QED
    BY <1>1, Zenon DEF Ended, Tasks

LEMMA TaskType ==
    ASSUME TypeOK, NEW s \in VoteSeq
    PROVE  /\ task[s].st \in {"none", "queued", "active", "done", "failed"}
           /\ task[s].auto \in BOOLEAN /\ task[s].tries \in 0 .. MaxTries /\ queued[s] \in Nat
  BY DEF TypeOK

\* What is left after a resolution, once the request of r and the release are shown.
LEMMA ResolveKeepsType ==
    ASSUME TypeOK, NEW r \in Request, NEW s, NEW t, NEW found \in 0 .. MaxVote,
           Resolve(s, t, found, r), UNCHANGED <<podling, latest, ballots, ended>>,
           req' = [req EXCEPT ![r] = After(r)]
    PROVE  TypeOK'
  <1> USE DEF Resolve
  <1>1. queued' = [n \in VoteSeq |-> 0]
    BY DEF Transition
  <1>2. After(r) \in [at : {"idle", "deciding", "auto", "decided"}, result : Result,
                      expected : 0 .. MaxVote, mode : {"none", "trusted", "email"},
                      seen : 0 .. MaxVote, thread : 0 .. MaxVote]
    BY RequestType DEF After, NoRequest, Result, TypeOK
  <1>3. req' \in [Request -> [at : {"idle", "deciding", "auto", "decided"}, result : Result,
                              expected : 0 .. MaxVote, mode : {"none", "trusted", "email"},
                              seen : 0 .. MaxVote, thread : 0 .. MaxVote]]
    BY <1>2 DEF TypeOK
  <1>4. outcome' \in [VoteSeq -> [result : {"none", "passed", "rejected"}, round : 0 .. 2,
                                  revision : 0 .. MaxRevision, override : BOOLEAN]]
    <2>1. RoundOf(t) \in 0 .. 2
      BY DEF RoundOf
    <2>2. (r \in Overrider) \in BOOLEAN
      OBVIOUS
    <2> QED
      BY <2>1, <2>2 DEF Resolved, TypeOK
  <1>5. /\ phase' \in {"draft", "candidate", "preview"} /\ mode' \in {"none", "trusted", "email"}
        /\ seq' \in 0 .. MaxVote /\ thread' \in 0 .. MaxVote /\ voted' \in 0 .. MaxRevision
        /\ phase' = "draft" <=> mode' = "none"
        /\ phase' = "draft" <=> voted' = 0
    BY DEF Transition, SecondRound, Passed, Returned, TypeOK
  <1>6. task' \in [VoteSeq -> Tasks]
    <2>1. task \in [VoteSeq -> Tasks]
      BY DEF TypeOK, Tasks
    <2>2. CASE SecondRound(found, r)
      BY <2>1, <2>2, NewTaskType DEF SecondRound
    <2>3. CASE Passed \/ Returned
      BY <2>1, <2>3 DEF Passed, Returned
    <2> QED
      BY <2>2, <2>3
  <1> QED
    BY <1>1, <1>3, <1>4, <1>5, <1>6 DEF TypeOK, Tasks

LEMMA NextKeepsType ==
    ASSUME TypeOK, Core, [Next]_vars PROVE TypeOK'
  <1> USE DEF release
  <1>1. CASE NewRevision
    BY <1>1 DEF NewRevision, TypeOK
  <1>2. CASE Start
    <2>1. PICK m \in Mode, auto \in BOOLEAN : mode' = m /\ task' = [task EXCEPT ![seq + 1] = NewTask(auto)]
      BY <1>2 DEF Start
    <2>2. task' \in [VoteSeq -> Tasks]
      BY <2>1, NewTaskType DEF TypeOK, Tasks
    <2> QED
      BY <1>2, <2>1, <2>2 DEF Start, TypeOK, Tasks
  <1>3. CASE PeriodEnds
    BY <1>3 DEF PeriodEnds, TypeOK, Core, Candidacy
  <1>4. ASSUME NEW s \in VoteSeq, Initiate(s) PROVE TypeOK'
    BY <1>4, TaskType DEF Initiate, TypeOK
  <1>5. ASSUME NEW s \in VoteSeq, InitiateFails(s) PROVE TypeOK'
    BY <1>5, EndedType DEF InitiateFails, Tasks, TypeOK
  <1>6. ASSUME NEW s \in VoteSeq, Scheduled(s) PROVE queued' \in [VoteSeq -> Nat]
    BY <1>6, TaskType DEF Scheduled, TypeOK
  <1>7. ASSUME NEW s \in VoteSeq, Announce(s) PROVE TypeOK'
    BY <1>6, <1>7, EndedType DEF Announce, Tasks, TypeOK
  <1>8. ASSUME NEW s \in VoteSeq, InitiateDies(s) PROVE TypeOK'
    BY <1>6, <1>8, TaskType DEF InitiateDies, TypeOK
  <1>9. ASSUME NEW s \in VoteSeq, AutoSkip(s) PROVE TypeOK'
    BY <1>9, TaskType DEF AutoSkip, TypeOK
  <1>10. ASSUME NEW v \in Voter, NEW c \in Choice, NEW form \in VoteSeq, Cast(v, c, form)
         PROVE  TypeOK'
    <2>1. seq \in VoteSeq /\ Round \in 0 .. 2 /\ latest \in 1 .. MaxRevision
      BY <1>10 DEF Cast, TypeOK, Round, RoundOf
    <2> QED
      BY <1>10, <2>1 DEF Cast, TypeOK
  <1>11. ASSUME NEW r \in Request, NEW result \in Result, NEW expected \in {0, seq},
                Look(r, result, expected)
         PROVE  TypeOK'
    <2>1. PICK found \in BOOLEAN : req' = [req EXCEPT ![r] =
            [at |-> "deciding", result |-> result, expected |-> expected, mode |-> mode,
             seen |-> IF mode = "email" THEN seq ELSE 0,
             thread |-> IF mode = "email" THEN thread ELSE IF found THEN seq ELSE 0]]
      BY <1>11 DEF Look
    <2>2. expected \in 0 .. MaxVote
      BY DEF TypeOK
    <2>3. UNCHANGED <<release, latest, ballots, task, ended, queued, outcome>>
      BY <1>11 DEF Look
    <2>4. req' \in [Request -> [at : {"idle", "deciding", "auto", "decided"}, result : Result,
                                expected : 0 .. MaxVote, mode : {"none", "trusted", "email"},
                                seen : 0 .. MaxVote, thread : 0 .. MaxVote]]
      BY <2>1, <2>2 DEF TypeOK
    <2> QED
      BY <2>3, <2>4 DEF TypeOK
  <1>12. ASSUME NEW r \in Request, DecideTrusted(r) PROVE TypeOK'
    BY <1>12, RequestType, ResolveKeepsType DEF DecideTrusted
  <1>13. ASSUME NEW r \in Request, DecideByEmail(r) PROVE TypeOK'
    <2> DEFINE found == IF task[req[r].seen].st = "done" THEN req[r].seen ELSE 0
    <2>1. found \in 0 .. MaxVote
      BY RequestType
    <2>2. /\ Resolve(req[r].seen, req[r].thread, found, r)
          /\ UNCHANGED <<podling, latest, ballots, ended>>
          /\ req' = [req EXCEPT ![r] = After(r)]
      BY <1>13 DEF DecideByEmail
    <2> HIDE DEF found
    <2> QED
      BY <2>1, <2>2, ResolveKeepsType
  <1>14. ASSUME NEW r \in Request, Refused(r) PROVE TypeOK'
    BY <1>14 DEF Refused, NoRequest, Result, TypeOK
  <1>15. ASSUME NEW r \in Request, NEW s \in VoteSeq, AutoCheck(r, s) PROVE TypeOK'
    <2>1. queued' \in [VoteSeq -> Nat]
      BY <1>15, TaskType DEF AutoCheck, TypeOK
    <2>2. s \in 0 .. MaxVote
      BY DEF VoteSeq
    <2> QED
      BY <1>15, <2>1, <2>2 DEF AutoCheck, NoRequest, Result, TypeOK
  <1>16. ASSUME NEW r \in Request, AutoDone(r) PROVE TypeOK'
    BY <1>16 DEF AutoDone, NoRequest, Result, TypeOK
  <1>17. ASSUME NEW r \in Request, AutoDies(r) PROVE TypeOK'
    <2>1. queued' \in [VoteSeq -> Nat]
      <3>1. queued' = [queued EXCEPT ![req[r].expected] = @ + 1]
        BY <1>17 DEF AutoDies
      <3>2. CASE req[r].expected \in VoteSeq
        BY <3>1, <3>2, TaskType DEF TypeOK
      <3>3. CASE req[r].expected \notin VoteSeq
        BY <3>1, <3>3 DEF TypeOK
      <3> QED
        BY <3>2, <3>3
    <2> QED
      BY <1>17, <2>1 DEF AutoDies, NoRequest, Result, TypeOK
  <1>18. CASE UNCHANGED vars
    BY <1>18 DEF vars, TypeOK
  <1> QED
    BY <1>1, <1>2, <1>3, <1>4, <1>5, <1>7, <1>8, <1>9, <1>10, <1>11, <1>12, <1>13, <1>14, <1>15,
       <1>16, <1>17, <1>18 DEF Next

----------------------------------------------------------------------------
(* The inductive invariant *)

LEMMA InitIInv == Init => IInv
  <1> SUFFICES ASSUME Init PROVE IInv
    OBVIOUS
  <1> USE DEF Init
  <1>1. TypeOK
    <2>1. NoTask \in Tasks
      <3>1. 0 \in 0 .. MaxTries
        OBVIOUS
      <3> QED
        BY <3>1, Zenon DEF NoTask, Tasks
    <2>2. NoRequest \in [at : {"idle", "deciding", "auto", "decided"}, result : Result,
                         expected : 0 .. MaxVote, mode : {"none", "trusted", "email"},
                         seen : 0 .. MaxVote, thread : 0 .. MaxVote]
      BY DEF NoRequest, Result
    <2>3. NoOutcome \in [result : {"none", "passed", "rejected"}, round : 0 .. 2,
                         revision : 0 .. MaxRevision, override : BOOLEAN]
      BY DEF NoOutcome
    <2> QED
      BY <2>1, <2>2, <2>3 DEF TypeOK, Tasks
  <1>2. Core
    BY DEF Core, NumbersFresh, OneRowEach, Candidacy, Approval, SecondAfterFirst, ApprovedOnBallots
  <1>3. Remembers /\ KnowsThread
    BY DEF Remembers, KnowsThread, NoRequest
  <1> QED
    BY <1>1, <1>2, <1>3 DEF IInv

\* The conditions under which a trusted vote passes are those of its own round, and a
\* request that has read an e-mail vote cannot resolve a trusted one.
LEMMA NextKeepsCore ==
    ASSUME IInv, [Next]_vars PROVE Core'
  <1> USE DEF IInv
  <1>1. CASE UNCHANGED <<release, latest, ballots, outcome>>
    BY <1>1, QuietStep
  <1>2. CASE NewRevision
    BY <1>2, NewRevisionKeepsCore
  <1>3. CASE Start
    BY <1>3, StartKeepsCore
  <1>4. ASSUME NEW v \in Voter, NEW c \in Choice, NEW form \in VoteSeq, Cast(v, c, form)
        PROVE  Core'
    BY <1>4, CastKeepsCore
  <1>5. ASSUME NEW r \in Request, DecideTrusted(r) PROVE Core'
    BY <1>5, ResolveKeepsCore DEF DecideTrusted
  <1>6. ASSUME NEW r \in Request, DecideByEmail(r) PROVE Core'
    <2>1. PICK found : Resolve(req[r].seen, req[r].thread, found, r)
      BY <1>6 DEF DecideByEmail
    <2>2. mode = "email"
      BY <1>6, <2>1 DEF DecideByEmail, Resolve, Transition, Remembers
    <2> QED
      BY <1>6, <2>1, <2>2, ResolveKeepsCore DEF DecideByEmail
  <1>7. CASE PeriodEnds
    BY <1>7, <1>1 DEF PeriodEnds
  <1>8. ASSUME NEW s \in VoteSeq,
               Initiate(s) \/ InitiateFails(s) \/ Announce(s) \/ InitiateDies(s) \/ AutoSkip(s)
        PROVE  Core'
    BY <1>8, <1>1 DEF Initiate, InitiateFails, Announce, InitiateDies, AutoSkip
  <1>9. ASSUME NEW r \in Request, NEW result \in Result, NEW expected \in {0, seq},
               Look(r, result, expected)
        PROVE  Core'
    BY <1>9, <1>1 DEF Look
  <1>10. ASSUME NEW r \in Request,
                Refused(r) \/ AutoDone(r) \/ AutoDies(r) \/ \E s \in VoteSeq : AutoCheck(r, s)
         PROVE  Core'
    BY <1>10, <1>1 DEF Refused, AutoDone, AutoDies, AutoCheck
  <1>11. CASE UNCHANGED vars
    BY <1>11, <1>1 DEF vars, release
  <1> QED
    BY <1>2, <1>3, <1>4, <1>5, <1>6, <1>7, <1>8, <1>9, <1>10, <1>11 DEF Next

LEMMA NextKeepsRemembers ==
    ASSUME IInv, [Next]_vars PROVE Remembers'
  <1> USE DEF IInv
  <1>1. seq \in Nat /\ \A r \in Request : req[r].seen \in Nat
    BY RequestType DEF TypeOK
  <1>2. CASE UNCHANGED req /\ UNCHANGED <<phase, mode, seq>>
    BY <1>2 DEF Remembers
  <1>3. CASE Start
    BY <1>1, <1>3 DEF Start, Remembers
  <1>4. ASSUME NEW r \in Request, NEW q, req' = [req EXCEPT ![r] = q], q.mode # "email",
               UNCHANGED <<phase, mode, seq>>
        PROVE  Remembers'
    BY <1>4 DEF Remembers, TypeOK
  <1>5. ASSUME NEW r \in Request, NEW result \in Result, NEW expected \in {0, seq},
               Look(r, result, expected)
        PROVE  Remembers'
    <2>1. PICK found \in BOOLEAN : req' = [req EXCEPT ![r] =
            [at |-> "deciding", result |-> result, expected |-> expected, mode |-> mode,
             seen |-> IF mode = "email" THEN seq ELSE 0,
             thread |-> IF mode = "email" THEN thread ELSE IF found THEN seq ELSE 0]]
      BY <1>5 DEF Look
    <2> QED
      BY <1>1, <1>5, <2>1 DEF Look, release, Remembers, TypeOK
  <1>6. ASSUME NEW r \in Request, DecideTrusted(r) \/ DecideByEmail(r)
        PROVE  Remembers'
    <2>1. PICK s, t, found : Resolve(s, t, found, r) /\ req' = [req EXCEPT ![r] = After(r)]
      BY <1>6 DEF DecideTrusted, DecideByEmail
    <2>2. After(r).mode # "email"
      BY <1>6 DEF After, NoRequest, DecideTrusted, DecideByEmail
    <2>3. \A p \in Request : req'[p].mode = "email" => req'[p] = req[p]
      BY <2>1, <2>2 DEF TypeOK
    <2>4. seq' >= seq /\ (phase' = "candidate" => seq' = seq + 1)
      BY <2>1, <1>1 DEF Resolve, SecondRound, Passed, Returned
    <2>5. seq' \in Nat
      BY <2>1, <1>1 DEF Resolve, SecondRound, Passed, Returned
    <2>6. ASSUME NEW p \in Request, req'[p].mode = "email"
          PROVE  /\ req'[p].seen <= seq' /\ req'[p].expected \in {0, req'[p].seen}
                 /\ ~(phase' = "candidate" /\ req'[p].seen = seq')
      <3>1. req'[p] = req[p] /\ req[p].mode = "email"
        BY <2>3, <2>6
      <3>2. req[p].seen <= seq /\ req[p].expected \in {0, req[p].seen} /\ req[p].seen \in Nat
        BY <1>1, <3>1 DEF Remembers
      <3> QED
        BY <1>1, <2>4, <2>5, <3>1, <3>2
    <2> QED
      BY <2>6 DEF Remembers
  <1>7. CASE NewRevision \/ PeriodEnds
    BY <1>2, <1>7 DEF NewRevision, PeriodEnds, release
  <1>8. ASSUME NEW s \in VoteSeq,
               Initiate(s) \/ InitiateFails(s) \/ Announce(s) \/ InitiateDies(s) \/ AutoSkip(s)
        PROVE  Remembers'
    BY <1>2, <1>8 DEF Initiate, InitiateFails, Announce, InitiateDies, AutoSkip, release
  <1>9. ASSUME NEW v \in Voter, NEW c \in Choice, NEW form \in VoteSeq, Cast(v, c, form)
        PROVE  Remembers'
    BY <1>2, <1>9 DEF Cast, release
  <1>10. ASSUME NEW r \in Request, Refused(r) \/ AutoDone(r) \/ AutoDies(r)
         PROVE  Remembers'
    <2>1. req' = [req EXCEPT ![r] = NoRequest] /\ UNCHANGED <<phase, mode, seq>>
      BY <1>10 DEF Refused, AutoDone, AutoDies, release
    <2>2. NoRequest.mode # "email"
      BY DEF NoRequest
    <2> QED
      BY <1>4, <2>1, <2>2
  <1>11. ASSUME NEW r \in Request, NEW s \in VoteSeq, AutoCheck(r, s)
         PROVE  Remembers'
    <2> DEFINE q == [NoRequest EXCEPT !.at = "auto", !.expected = s, !.mode = "trusted"]
    <2>1. req' = [req EXCEPT ![r] = q] /\ UNCHANGED <<phase, mode, seq>>
      BY <1>11 DEF AutoCheck, release
    <2>2. q.mode # "email"
      BY DEF NoRequest
    <2> HIDE DEF q
    <2> QED
      BY <1>4, <2>1, <2>2
  <1>12. CASE UNCHANGED vars
    BY <1>2, <1>12 DEF vars
  <1> QED
    BY <1>3, <1>5, <1>6, <1>7, <1>8, <1>9, <1>10, <1>11, <1>12 DEF Next

LEMMA NextKeepsKnowsThread ==
    ASSUME IInv, [Next]_vars PROVE KnowsThread'
  <1> USE DEF IInv
  <1>1. CASE UNCHANGED req
    BY <1>1 DEF KnowsThread
  <1>2. ASSUME NEW r \in Request, NEW q, req' = [req EXCEPT ![r] = q],
               q.mode = "trusted" => q.expected = 0 \/ q.thread \in {0, q.expected}
        PROVE  KnowsThread'
    BY <1>2 DEF KnowsThread, TypeOK
  <1>3. NoRequest.mode # "trusted"
    BY DEF NoRequest
  <1>4. ASSUME NEW r \in Request, NEW result \in Result, NEW expected \in {0, seq},
               Look(r, result, expected)
        PROVE  KnowsThread'
    <2>1. PICK found \in BOOLEAN : req' = [req EXCEPT ![r] =
            [at |-> "deciding", result |-> result, expected |-> expected, mode |-> mode,
             seen |-> IF mode = "email" THEN seq ELSE 0,
             thread |-> IF mode = "email" THEN thread ELSE IF found THEN seq ELSE 0]]
      BY <1>4 DEF Look
    <2> DEFINE q == [at |-> "deciding", result |-> result, expected |-> expected, mode |-> mode,
                     seen |-> IF mode = "email" THEN seq ELSE 0,
                     thread |-> IF mode = "email" THEN thread ELSE IF found THEN seq ELSE 0]
    <2>2. q.mode = "trusted" => q.expected = 0 \/ q.thread \in {0, q.expected}
      OBVIOUS
    <2> HIDE DEF q
    <2> QED
      BY <1>2, <2>1, <2>2 DEF q
  <1>5. ASSUME NEW r \in Request, DecideTrusted(r) \/ DecideByEmail(r)
        PROVE  KnowsThread'
    <2>1. req' = [req EXCEPT ![r] = After(r)]
      BY <1>5 DEF DecideTrusted, DecideByEmail
    <2>2. CASE req[r].at # "auto"
      BY <1>2, <1>3, <2>1, <2>2 DEF After
    <2>3. CASE req[r].at = "auto"
      <3>1. /\ After(r).mode = req[r].mode /\ After(r).expected = req[r].expected
            /\ After(r).thread = req[r].thread
        BY <2>3 DEF After, TypeOK
      <3> QED
        BY <1>2, <2>1, <3>1 DEF KnowsThread
    <2> QED
      BY <2>2, <2>3
  <1>6. ASSUME NEW r \in Request, Refused(r) \/ AutoDone(r) \/ AutoDies(r) PROVE KnowsThread'
    <2>1. req' = [req EXCEPT ![r] = NoRequest]
      BY <1>6 DEF Refused, AutoDone, AutoDies
    <2> QED
      BY <1>2, <1>3, <2>1
  <1>7. ASSUME NEW r \in Request, NEW s \in VoteSeq, AutoCheck(r, s) PROVE KnowsThread'
    <2> DEFINE q == [NoRequest EXCEPT !.at = "auto", !.expected = s, !.mode = "trusted"]
    <2>1. req' = [req EXCEPT ![r] = q]
      BY <1>7 DEF AutoCheck
    <2>2. q.thread = 0
      BY DEF NoRequest
    <2> HIDE DEF q
    <2> QED
      BY <1>2, <2>1, <2>2
  <1>8. CASE NewRevision \/ Start \/ PeriodEnds
    BY <1>1, <1>8 DEF NewRevision, Start, PeriodEnds
  <1>9. ASSUME NEW s \in VoteSeq,
               Initiate(s) \/ InitiateFails(s) \/ Announce(s) \/ InitiateDies(s) \/ AutoSkip(s)
        PROVE  KnowsThread'
    BY <1>1, <1>9 DEF Initiate, InitiateFails, Announce, InitiateDies, AutoSkip
  <1>10. ASSUME NEW v \in Voter, NEW c \in Choice, NEW form \in VoteSeq, Cast(v, c, form)
         PROVE  KnowsThread'
    BY <1>1, <1>10 DEF Cast
  <1>11. CASE UNCHANGED vars
    BY <1>1, <1>11 DEF vars
  <1> QED
    BY <1>4, <1>5, <1>6, <1>7, <1>8, <1>9, <1>10, <1>11 DEF Next

LEMMA Invariance == Spec => []IInv
  <1>1. IInv /\ [Next]_vars => IInv'
    BY NextKeepsType, NextKeepsCore, NextKeepsRemembers, NextKeepsKnowsThread DEF IInv
  <1> QED
    BY <1>1, InitIInv, PTL DEF Spec

----------------------------------------------------------------------------
(* What follows from it *)

\* Type correctness of the release, its ballots, tasks and requests.
THEOREM TypeCorrect == Spec => []TypeOK
  <1>1. IInv => TypeOK
    BY DEF IInv
  <1> QED
    BY <1>1, Invariance, PTL

\* A release that passed is supported by the ballots recorded for it, whatever was
\* cast while it was being resolved (cast_trusted, _resolve_trusted).
THEOREM ApprovedByItsBallots == Spec => []ApprovedOnBallots
  <1>1. IInv => ApprovedOnBallots
    BY DEF IInv, Core
  <1> QED
    BY <1>1, Invariance, PTL

\* Nobody counts twice, in one round or over two (effective_trusted_ballots).
THEOREM EverybodyCountsOnce == Spec => []CountedOnce
  <1>1. ASSUME IInv, NEW b \in Effective(seq), NEW c \in Effective(seq), b.voter = c.voter
        PROVE  b = c
    <2>1. b \in ballots /\ c \in ballots
      BY DEF Effective, Carried, BallotsOf
    <2>2. b.seq = c.seq
      BY <1>1 DEF Effective, Carried, BallotsOf
    <2> QED
      BY <1>1, <2>1, <2>2 DEF IInv, Core, OneRowEach
  <1>2. IInv => CountedOnce
    BY <1>1 DEF CountedOnce
  <1> QED
    BY <1>2, Invariance, PTL

\* The ballots that a second round takes over are those of the round before it.
LEMMA CarriedFromRoundBefore ==
    ASSUME IInv, NEW c \in ballots, c.seq = seq - 1, c.round = 1, seq \in VoteSeq
    PROVE  PreviousRoundOne(seq) = seq - 1
  <1> DEFINE before == {b.seq : b \in {d \in ballots : d.round = 1 /\ d.seq < seq}}
  <1>1. seq \in Nat /\ \A b \in ballots : b.seq \in Nat
    BY DEF IInv, TypeOK, VoteSeq
  <1>2. \A n \in before : n \in Nat /\ n <= seq - 1
    BY <1>1
  <1>3. seq - 1 \in before
    BY <1>1
  <1> HIDE DEF before
  <1>4. \A n \in before : (\A m \in before : m <= n) <=> n = seq - 1
    BY <1>1, <1>2, <1>3
  <1>5. (CHOOSE n \in before : \A m \in before : m <= n) = seq - 1
    BY <1>3, <1>4
  <1> QED
    BY <1>3, <1>5 DEF PreviousRoundOne, before

\* A trusted vote counts ballots on the revision voted on, unless its first round was
\* passed by the security team (previous_round_one_vote_seq).
THEOREM BallotsAreOnVotedRevision == Spec => []CountedForVoted
  <1>1. ASSUME IInv, mode = "trusted", ~(Round = 2 /\ outcome[seq - 1].override),
               NEW b \in Effective(seq)
        PROVE  b.revision = voted
    <2>1. phase # "draft"
      BY <1>1 DEF IInv, TypeOK
    <2>2. CASE b \in BallotsOf(seq)
      BY <1>1, <2>1, <2>2 DEF BallotsOf, IInv, Core, Candidacy
    <2>3. CASE Round = 2 /\ b \in Carried(seq)
      <3>1. thread # 0
        BY <2>3 DEF Round, RoundOf
      <3>2. PICK c \in ballots : c.seq = seq - 1 /\ c.round = 1
        BY <1>1, <2>3, <3>1 DEF IInv, Core, SecondAfterFirst
      <3>3. PreviousRoundOne(seq) = seq - 1
        BY <1>1, <3>1, <3>2, CarriedFromRoundBefore DEF IInv, Core, SecondAfterFirst
      <3>4. b \in ballots /\ b.seq = seq - 1
        BY <2>3, <3>3 DEF Carried, BallotsOf
      <3> QED
        BY <1>1, <3>1, <3>4 DEF IInv, Core, SecondAfterFirst
    <2> QED
      BY <2>2, <2>3 DEF Effective
  <1>2. IInv => CountedForVoted
    BY <1>1 DEF CountedForVoted
  <1> QED
    BY <1>2, Invariance, PTL

\* A podling release that passed was approved in two rounds in a row, both on the
\* revision it has (resolve, start(promote=False)).
THEOREM PodlingsAreApprovedTwice == Spec => []ApprovedTwice
  <1>1. ASSUME IInv, podling, phase = "preview" PROVE ApprovedTwice
    <2>1. /\ seq \in VoteSeq /\ outcome[seq].result = "passed" /\ outcome[seq].round = Round
          /\ outcome[seq].revision = voted /\ voted = latest /\ Round # 1
      BY <1>1 DEF IInv, Core, Approval, Candidacy
    <2>2. thread # 0 /\ Round = 2
      BY <1>1, <2>1 DEF Round, RoundOf
    <2>3. /\ seq - 1 \in VoteSeq /\ outcome[seq - 1].result = "passed"
          /\ outcome[seq - 1].round = 1 /\ outcome[seq - 1].revision = voted
      BY <1>1, <2>2 DEF IInv, Core, SecondAfterFirst
    <2>4. seq > 1
      BY <2>1, <2>3 DEF VoteSeq
    <2> QED
      BY <2>1, <2>2, <2>3, <2>4 DEF ApprovedTwice
  <1>2. IInv => ApprovedTwice
    BY <1>1 DEF ApprovedTwice
  <1> QED
    BY <1>2, Invariance, PTL

----------------------------------------------------------------------------
(* What a step may do *)

\* The outcome of a vote is only ever changed by the resolution of the current one,
\* which had none.
LEMMA OnlyResolutions ==
    ASSUME IInv, [Next]_vars, NEW s \in VoteSeq, outcome'[s] # outcome[s]
    PROVE  /\ s = seq /\ outcome[s] = NoOutcome
           /\ \E r \in Request : DecideTrusted(r) \/ DecideByEmail(r)
  <1>1. PICK r \in Request : DecideTrusted(r) \/ DecideByEmail(r)
    BY DEF Next, NewRevision, Start, PeriodEnds, Initiate, InitiateFails, Announce, InitiateDies,
           AutoSkip, Cast, Look, Refused, AutoCheck, AutoDone, AutoDies, vars
  <1>2. PICK t, found : Resolve(seq, t, found, r)
    BY <1>1 DEF DecideTrusted, DecideByEmail, Resolve, Transition
  <1>3. \A n \in VoteSeq : n # seq => outcome'[n] = outcome[n]
    BY <1>2 DEF Resolve, Resolved, IInv, TypeOK
  <1>4. phase = "candidate"
    BY <1>2 DEF Resolve, Transition
  <1> QED
    BY <1>1, <1>3, <1>4 DEF IInv, Core, Candidacy

\* Outcomes stand, whatever is retried or races (_resolve_transition).
THEOREM OutcomesAreFinal == Spec => OutcomesStand
  <1>1. IInv /\ [Next]_vars
            => [\A s \in VoteSeq : outcome[s] # NoOutcome => outcome'[s] = outcome[s]]_vars
    BY OnlyResolutions
  <1> QED
    BY <1>1, Invariance, PTL DEF Spec, OutcomesStand

\* The request that resolves a vote is the only one whose memory changes, and meant it.
LEMMA ResolverMeantIt ==
    ASSUME IInv, [Next]_vars, NEW r \in Request, NEW s \in VoteSeq, ResolvedBy(r, s)
    PROVE  /\ s = seq /\ req[r].expected \in {0, s}
           /\ req[r].expected # 0 /\ phase' = "candidate" => thread' = s
  <1> USE DEF IInv
  <1>1. PICK p \in Request : DecideTrusted(p) \/ DecideByEmail(p)
    BY OnlyResolutions DEF ResolvedBy
  <1>2. s = seq
    BY OnlyResolutions DEF ResolvedBy
  <1>3. p = r
    BY <1>1 DEF ResolvedBy, DecideTrusted, DecideByEmail, TypeOK
  <1>4. CASE DecideTrusted(r)
    <2>1. req[r].expected \in {0, seq} /\ req[r].mode = "trusted"
      BY <1>4 DEF DecideTrusted
    <2>2. Resolve(seq, thread, req[r].thread, r)
      BY <1>4 DEF DecideTrusted
    <2>3. phase' = "candidate" => thread' = req[r].thread /\ req[r].thread # 0
      BY <2>2 DEF Resolve, SecondRound, Passed, Returned
    <2> QED
      BY <1>2, <2>1, <2>3 DEF KnowsThread
  <1>5. CASE DecideByEmail(r)
    <2> DEFINE found == IF task[req[r].seen].st = "done" THEN req[r].seen ELSE 0
    <2>1. req[r].mode = "email" /\ Resolve(req[r].seen, req[r].thread, found, r)
      BY <1>5 DEF DecideByEmail
    <2>2. req[r].seen = seq /\ req[r].expected \in {0, seq}
      BY <2>1 DEF Resolve, Transition, Remembers
    <2>3. phase' = "candidate" => thread' = found /\ found # 0
      BY <2>1 DEF Resolve, SecondRound, Passed, Returned
    <2> QED
      BY <1>2, <2>2, <2>3
  <1> QED
    BY <1>1, <1>3, <1>4, <1>5

\* A form or task made for one vote never resolves another (resolve, auto_resolve).
THEOREM VoteIsTheOneMeant == Spec => IntendedVote
  <1>1. IInv /\ [Next]_vars
            => [\A r \in Request, s \in VoteSeq :
                    ResolvedBy(r, s) => req[r].expected \in {0, s}]_vars
    BY ResolverMeantIt
  <1> QED
    BY <1>1, Invariance, PTL DEF Spec, IntendedVote

\* A second round that was started for a vote replies to the thread of that vote,
\* although the thread is looked up before the lock is taken (resolve).
THEOREM SecondRoundRepliesToFirst == Spec => RepliesToFirstRound
  <1>1. IInv /\ [Next]_vars
            => [\A r \in Request, s \in VoteSeq :
                    ResolvedBy(r, s) /\ req[r].expected # 0 /\ phase' = "candidate"
                        => thread' = s]_vars
    BY ResolverMeantIt
  <1> QED
    BY <1>1, Invariance, PTL DEF Spec, RepliesToFirstRound

----------------------------------------------------------------------------
(* Votes that pass before they are announced *)

Told(s) == task[s].st = "done"

\* Whatever is done in a vote that needs its announcement comes after it: ballots, the
\* end of its period and what a caller by e-mail was allowed.  What passed without was
\* a second round.
Announcements ==
    /\ \A b \in ballots : Told(b.seq)
    /\ \A s \in ended : s <= seq /\ Told(s)
    /\ \A r \in Request \ Overrider :
        req[r].mode = "email" /\ req[r].result = "passed" => req[r].seen \in VoteSeq /\ Told(req[r].seen)
    /\ \A s \in VoteSeq :
        outcome[s].result = "passed" /\ ~outcome[s].override => Told(s) \/ outcome[s].round = 2

\* A vote up to the current one stays announced, and the current one is never taken back.
LEMMA ToldStays ==
    ASSUME IInv, [Next]_vars
    PROVE  seq' >= seq /\ \A s \in VoteSeq : s <= seq /\ Told(s) => Told(s)'
  <1>1. TypeOK /\ seq \in Nat
    BY DEF IInv, TypeOK
  <1>2. ASSUME UNCHANGED <<task, seq>>
        PROVE  seq' >= seq /\ \A s \in VoteSeq : s <= seq /\ Told(s) => Told(s)'
    BY <1>1, <1>2 DEF Told
  <1>3. ASSUME NEW auto, task' = [task EXCEPT ![seq + 1] = NewTask(auto)], seq' = seq + 1
        PROVE  seq' >= seq /\ \A s \in VoteSeq : s <= seq /\ Told(s) => Told(s)'
    <2>1. \A s \in VoteSeq : s <= seq => s # seq + 1
      BY <1>1 DEF VoteSeq
    <2>2. \A s \in VoteSeq : s <= seq => task'[s] = task[s]
      BY <1>1, <1>3, <2>1 DEF TypeOK
    <2> QED BY <1>1, <1>3, <2>2 DEF Told
  <1>4. ASSUME NEW s \in VoteSeq,
               Initiate(s) \/ InitiateFails(s) \/ Announce(s) \/ InitiateDies(s)
        PROVE  seq' >= seq /\ \A n \in VoteSeq : n <= seq /\ Told(n) => Told(n)'
    <2>1. seq' = seq /\ (Told(s) => Told(s)') /\ \A n \in VoteSeq : n # s => task'[n] = task[n]
      BY <1>1, <1>4 DEF Initiate, InitiateFails, Announce, InitiateDies, release, TypeOK, Told, Ended
    <2> QED BY <1>1, <2>1 DEF Told
  <1>5. ASSUME NEW r \in Request, DecideTrusted(r) \/ DecideByEmail(r)
        PROVE  seq' >= seq /\ \A s \in VoteSeq : s <= seq /\ Told(s) => Told(s)'
    <2>1. \/ \E found : SecondRound(found, r)
          \/ Passed \/ Returned
      BY <1>5 DEF DecideTrusted, DecideByEmail, Resolve
    <2>2. CASE \E found : SecondRound(found, r)
      BY <1>3, <2>2 DEF SecondRound
    <2> QED BY <1>2, <2>1, <2>2 DEF Passed, Returned
  <1>6. CASE Start
    BY <1>3, <1>6 DEF Start
  <1>7. ASSUME NEW r \in Request,
               \/ \E result \in Result, expected \in {0, seq} : Look(r, result, expected)
               \/ Refused(r) \/ AutoDone(r) \/ AutoDies(r) \/ \E s \in VoteSeq : AutoCheck(r, s)
        PROVE  seq' >= seq /\ \A s \in VoteSeq : s <= seq /\ Told(s) => Told(s)'
    BY <1>2, <1>7 DEF Look, Refused, AutoDone, AutoDies, AutoCheck, release
  <1>8. CASE \/ NewRevision \/ PeriodEnds \/ UNCHANGED vars
             \/ \E s \in VoteSeq : AutoSkip(s)
             \/ \E v \in Voter, c \in Choice, form \in VoteSeq : Cast(v, c, form)
    BY <1>2, <1>8 DEF NewRevision, PeriodEnds, AutoSkip, Cast, vars, release
  <1> QED
    BY <1>4, <1>5, <1>6, <1>7, <1>8 DEF Next

\* Ballots are added to announced votes only.
LEMMA BallotsStep ==
    ASSUME IInv, Announcements, [Next]_vars, NEW b \in ballots'
    PROVE  Told(b.seq)'
  <1>1. b.seq \in VoteSeq /\ b.seq <= seq /\ Told(b.seq)
    <2>1. TypeOK /\ seq \in Nat
      BY DEF IInv, TypeOK
    <2>2. CASE b \in ballots
      BY <2>1, <2>2 DEF Announcements, IInv, Core, NumbersFresh, TypeOK
    <2>3. CASE b \notin ballots
      <3>1. PICK v \in Voter, c \in Choice, form \in VoteSeq : Cast(v, c, form)
        BY <2>3 DEF Next, NewRevision, Start, PeriodEnds, Initiate, InitiateFails, Announce,
           InitiateDies, AutoSkip, Look, DecideTrusted, DecideByEmail, Refused, AutoCheck, AutoDone,
           AutoDies, vars
      <3>2. b.seq = seq /\ Told(seq) /\ seq \in VoteSeq
        BY <2>3, <3>1 DEF Cast, Told
      <3> QED BY <2>1, <3>2
    <2> QED BY <2>2, <2>3
  <1> QED BY <1>1, ToldStays

\* A period ends only of an announced vote.
LEMMA EndedStep ==
    ASSUME IInv, Announcements, [Next]_vars, NEW s \in ended'
    PROVE  s <= seq' /\ Told(s)'
  <1>1. TypeOK /\ seq \in Nat /\ seq' \in Nat
    BY NextKeepsType DEF IInv, TypeOK
  <1>2. s \in VoteSeq /\ s <= seq /\ Told(s)
    <2>1. CASE s \in ended
      BY <1>1, <2>1 DEF Announcements, TypeOK
    <2>2. CASE s \notin ended
      <3>1. PeriodEnds
        BY <2>2 DEF Next, NewRevision, Start, Cast, Initiate, InitiateFails, Announce,
           InitiateDies, AutoSkip, Look, DecideTrusted, DecideByEmail, Refused, AutoCheck, AutoDone,
           AutoDies, vars
      <3>2. s = seq /\ Told(seq) /\ seq \in VoteSeq
        BY <2>2, <3>1 DEF PeriodEnds, Told, IInv, Core, Candidacy
      <3> QED BY <1>1, <3>2
    <2> QED BY <2>1, <2>2
  <1>3. s \in Nat
    BY <1>2 DEF VoteSeq
  <1> QED BY <1>1, <1>2, <1>3, ToldStays

\* Whoever may complete a vote by e-mail as passed has found it announced.
LEMMA CallersStep ==
    ASSUME IInv, Announcements, [Next]_vars, NEW r \in Request \ Overrider,
           req'[r].mode = "email", req'[r].result = "passed"
    PROVE  req'[r].seen \in VoteSeq /\ task'[req'[r].seen].st = "done"
  <1>0. \A n \in VoteSeq : n <= seq /\ Told(n) => task'[n].st = "done"
    BY ToldStays DEF Told
  <1>1. TypeOK /\ seq \in Nat /\ req[r].seen \in Nat
    BY RequestType DEF IInv, TypeOK
  <1>2. CASE req'[r] = req[r]
    <2>1. req[r].seen \in VoteSeq /\ Told(req[r].seen) /\ req[r].seen <= seq
      BY <1>2 DEF Announcements, IInv, Remembers
    <2> QED BY <1>0, <1>2, <2>1
  <1>3. CASE req'[r] # req[r]
    <2>1. PICK result \in Result, expected \in {0, seq} : Look(r, result, expected)
      <3>1. PICK p \in Request :
              \/ \E result \in Result, expected \in {0, seq} : Look(p, result, expected)
              \/ req' = [req EXCEPT ![p] = NoRequest]
              \/ DecideTrusted(p) \/ DecideByEmail(p)
              \/ \E s \in VoteSeq : AutoCheck(p, s)
        BY <1>3 DEF Next, NewRevision, Start, PeriodEnds, Cast, Initiate, InitiateFails, Announce,
           InitiateDies, AutoSkip, Refused, AutoDone, AutoDies, vars
      <3>2. p = r
        BY <1>1, <1>3, <3>1 DEF Look, AutoCheck, DecideTrusted, DecideByEmail, TypeOK
      <3>3. NoRequest.mode # "email"
        BY DEF NoRequest
      <3>4. ASSUME NEW n \in VoteSeq, AutoCheck(r, n)
            PROVE  FALSE
        <4> DEFINE q == [NoRequest EXCEPT !.at = "auto", !.expected = n, !.mode = "trusted"]
        <4>1. q.mode # "email"
          BY DEF NoRequest
        <4>2. req' = [req EXCEPT ![r] = q]
          BY <3>4 DEF AutoCheck
        <4> HIDE DEF q
        <4> QED BY <1>1, <4>1, <4>2 DEF TypeOK
      <3>5. req' # [req EXCEPT ![r] = NoRequest]
        BY <1>1, <3>3 DEF TypeOK
      <3>6. ASSUME DecideTrusted(r) \/ DecideByEmail(r)
            PROVE  FALSE
        <4>1. After(r).mode # "email" /\ req' = [req EXCEPT ![r] = After(r)]
          BY <3>6 DEF After, NoRequest, DecideTrusted, DecideByEmail
        <4> QED BY <1>1, <3>6, <4>1 DEF TypeOK
      <3> QED BY <3>1, <3>2, <3>4, <3>5, <3>6
    <2>2. mode = "email" /\ result = "passed" /\ req'[r].seen = seq
      BY <1>1, <2>1 DEF Look, TypeOK
    <2>3. seq \in VoteSeq /\ (seq \in ended \/ Told(seq))
      BY <2>1, <2>2 DEF Look, EarlyAllowed, IInv, Core, Candidacy, Told
    <2>4. Told(seq)
      BY <2>3 DEF Announcements
    <2> QED BY <1>0, <1>1, <2>2, <2>3, <2>4
  <1> QED BY <1>2, <1>3

\* A vote that passes now is announced, or a second round that passes on what it carries.
LEMMA PassedStep ==
    ASSUME IInv, Announcements, [Next]_vars, NEW s \in VoteSeq,
           outcome'[s].result = "passed", ~ outcome'[s].override
    PROVE  Told(s)' \/ outcome'[s].round = 2
  <1>1. TypeOK /\ seq \in Nat
    BY DEF IInv, TypeOK
  <1>2. CASE outcome'[s] = outcome[s]
    <2>1. s <= seq
      BY <1>1, <1>2 DEF IInv, Core, NumbersFresh, NoOutcome, VoteSeq
    <2> QED BY <1>2, <2>1, ToldStays DEF Announcements
  <1>3. CASE outcome'[s] # outcome[s]
    <2>1. s = seq
      BY <1>3, OnlyResolutions
    <2>2. PICK r \in Request : DecideTrusted(r) \/ DecideByEmail(r)
      BY <1>3, OnlyResolutions
    <2>3. CASE DecideTrusted(r)
      <3>1. Resolved(seq, thread, r) /\ (req[r].result = "passed" => Passes(seq) \/ r \in Overrider)
        BY <2>3 DEF DecideTrusted, Resolve
      <3>2. /\ outcome'[s].result = "passed" <=> req[r].result = "passed"
            /\ outcome'[s].round = Round
            /\ outcome'[s].override <=> r \in Overrider
        BY <1>1, <2>1, <3>1 DEF Resolved, Round, TypeOK
      <3>3. Effective(seq) # {}
        BY <3>1, <3>2, PassingVoteHasBallots
      <3>4. CASE Round = 2
        BY <3>2, <3>4
      <3>5. CASE BallotsOf(seq) # {}
        BY <1>1, <2>1, <3>5, ToldStays DEF BallotsOf, Announcements
      <3> QED BY <3>3, <3>4, <3>5 DEF Effective
    <2>4. CASE DecideByEmail(r)
      <3>1. req[r].mode = "email" /\ req[r].seen = seq /\ Resolved(seq, req[r].thread, r)
        BY <2>4 DEF DecideByEmail, Resolve, Transition
      <3>2. /\ outcome'[s].result = "passed" <=> req[r].result = "passed"
            /\ outcome'[s].override <=> r \in Overrider
        BY <1>1, <2>1, <3>1 DEF Resolved, TypeOK
      <3>3. Told(seq)
        BY <3>1, <3>2 DEF Announcements
      <3> QED BY <1>1, <2>1, <3>3, ToldStays
    <2> QED BY <2>2, <2>3, <2>4
  <1> QED BY <1>2, <1>3

\* A vote passes unannounced only as a second round, on the ballots of the first
\* (_resolve_trusted, resolve, cast_trusted, start(promote=False)).
THEOREM UnannouncedPassOnCarried == Spec => []PassedOnCarried
  <1>1. Init => Announcements
    BY DEF Init, Announcements, NoRequest, NoOutcome
  <1>2. IInv /\ Announcements /\ [Next]_vars => Announcements'
    <2> SUFFICES ASSUME IInv, Announcements, [Next]_vars PROVE Announcements'
      OBVIOUS
    <2>1. \A b \in ballots' : task'[b.seq].st = "done"
      BY BallotsStep DEF Told
    <2>2. \A s \in ended' : s <= seq' /\ task'[s].st = "done"
      BY EndedStep DEF Told
    <2>3. \A r \in Request \ Overrider :
            req'[r].mode = "email" /\ req'[r].result = "passed" =>
                req'[r].seen \in VoteSeq /\ task'[req'[r].seen].st = "done"
      BY CallersStep
    <2>4. \A s \in VoteSeq :
            outcome'[s].result = "passed" /\ ~outcome'[s].override =>
                task'[s].st = "done" \/ outcome'[s].round = 2
      BY PassedStep DEF Told
    <2> QED BY <2>1, <2>2, <2>3, <2>4 DEF Announcements, Told
  <1>3. Announcements => PassedOnCarried
    BY DEF Announcements, PassedOnCarried, BallotsOf, Told
  <1> QED
    BY <1>1, <1>2, <1>3, Invariance, PTL DEF Spec

----------------------------------------------------------------------------
(* The votes are the ballot boxes of BallotBox *)

Countable ==
    /\ IsFiniteSet(ballots)
    /\ ~podling => \A b \in ballots : b.round # 1

BInv == IInv /\ Countable

USE NoBallotAssumption

----------------------------------------------------------------------------
(* The invariant *)

LEMMA NextKeepsCountable ==
    ASSUME IInv, Countable, [Next]_vars PROVE Countable'
  <1>1. CASE UNCHANGED <<podling, ballots>>
    BY <1>1 DEF Countable
  <1>2. ASSUME NEW v \in Voter, NEW c \in Choice, NEW form \in VoteSeq, Cast(v, c, form)
        PROVE  Countable'
    <2> DEFINE kept == {b \in ballots : ~(b.seq = seq /\ b.round = Round /\ b.voter = v)}
               new == [seq |-> seq, round |-> Round, voter |-> v, choice |-> c, revision |-> latest]
    <2>1. ballots' = kept \union {new} /\ podling' = podling
      BY <1>2 DEF Cast, release
    <2>2. IsFiniteSet(kept)
      BY FS_Subset DEF Countable
    <2>3. IsFiniteSet(kept \union {new})
      <3> HIDE DEF kept, new
      <3> QED
        BY <2>2, FS_AddElement
    <2>4. ~podling => new.round # 1
      BY DEF Round, RoundOf
    <2> QED
      BY <2>1, <2>3, <2>4 DEF Countable
  <1> QED
    BY <1>1, <1>2 DEF Next, NewRevision, Start, PeriodEnds, Initiate, InitiateFails, Announce,
       InitiateDies, AutoSkip, Look, DecideTrusted, DecideByEmail, Refused, AutoCheck, AutoDone,
       AutoDies, vars, release

LEMMA BoxInvariance == Spec => []BInv
  <1>1. Init => Countable
    BY FS_EmptySet DEF Init, Countable
  <1>2. IInv /\ Countable /\ [Next]_vars => Countable'
    BY NextKeepsCountable
  <1> QED
    BY <1>1, <1>2, Invariance, PTL DEF Spec, BInv

----------------------------------------------------------------------------
(* What a set of ballots says *)

LEMMA NothingSaid == Saying({}) = Box!Empty
  BY DEF Saying, Box!Empty

\* A voter's ballots are all that what it says depends on.
LEMMA SaysTheSame ==
    ASSUME NEW old, NEW new, NEW v \in Voter,
           {b \in new : b.voter = v} = {b \in old : b.voter = v}
    PROVE  Saying(new)[v] = Saying(old)[v]
  <1> DEFINE said(own) == IF own = {} THEN NoBallot ELSE (CHOOSE b \in own : TRUE).choice
             own1 == {b \in new : b.voter = v}
             own2 == {b \in old : b.voter = v}
  <1>1. Saying(new)[v] = said(own1) /\ Saying(old)[v] = said(own2)
    BY DEF Saying
  <1>2. own1 = own2
    OBVIOUS
  <1> HIDE DEF said, own1, own2
  <1> QED
    BY <1>1, <1>2

LEMMA SameCardinality == \A S : Box!Cardinality(S) = Cardinality(S)
  BY DEF Box!Cardinality, Cardinality

\* A voter who has one ballot says what is on it.
LEMMA SaysItsBallot ==
    ASSUME NEW box, NEW b \in box, b.voter \in Voter, \A c \in box : c.voter = b.voter => c = b
    PROVE  Saying(box)[b.voter] = b.choice
  <1> DEFINE own == {c \in box : c.voter = b.voter}
  <1>1. own = {b}
    OBVIOUS
  <1> HIDE DEF own
  <1>2. (CHOOSE c \in own : TRUE) = b /\ own # {}
    BY <1>1
  <1> QED
    BY <1>2 DEF Saying, own

\* One who says something has a ballot that says it.
LEMMA BallotOfSayer ==
    ASSUME NEW box, NEW v \in Voter, Saying(box)[v] # NoBallot
    PROVE  \E b \in box : b.voter = v /\ Saying(box)[v] = b.choice
  <1> DEFINE own == {c \in box : c.voter = v}
  <1>1. own # {} /\ Saying(box)[v] = (CHOOSE c \in own : TRUE).choice
    BY DEF Saying
  <1>2. (CHOOSE c \in own : TRUE) \in own
    BY <1>1
  <1> QED
    BY <1>1, <1>2

\* One voter's ballot is replaced; the others' are left alone.
LEMMA OneSaysOtherwise ==
    ASSUME NEW old, NEW new, NEW b \in new, b.voter \in Voter,
           \A c \in new : c.voter = b.voter => c = b,
           \A c : c.voter # b.voter => (c \in new <=> c \in old)
    PROVE  Saying(new) = [Saying(old) EXCEPT ![b.voter] = b.choice]
  <1>1. ASSUME NEW w \in Voter, w # b.voter PROVE Saying(new)[w] = Saying(old)[w]
    <2>1. {c \in new : c.voter = w} = {c \in old : c.voter = w}
      BY <1>1
    <2> QED
      BY <2>1, SaysTheSame
  <1>2. Saying(new)[b.voter] = b.choice
    BY SaysItsBallot
  <1>3. /\ Saying(new) = [v \in Voter |-> Saying(new)[v]]
        /\ Saying(old) = [v \in Voter |-> Saying(old)[v]]
    BY DEF Saying
  <1> QED
    BY <1>1, <1>2, <1>3

\* The ballots of Incubator members are what is carried.
LEMMA CarriedSaysSo ==
    ASSUME NEW box
    PROVE  Saying({b \in box : b.voter \in Incubator}) = Box!Carried(Saying(box))
  <1> DEFINE new == {b \in box : b.voter \in Incubator}
  <1>1. ASSUME NEW v \in Voter, v \in Incubator PROVE Saying(new)[v] = Saying(box)[v]
    <2>1. {b \in new : b.voter = v} = {b \in box : b.voter = v}
      BY <1>1
    <2> QED
      BY <2>1, SaysTheSame
  <1>2. ASSUME NEW v \in Voter, v \notin Incubator PROVE Saying(new)[v] = NoBallot
    <2>1. {b \in new : b.voter = v} = {}
      BY <1>2
    <2> QED
      BY <2>1 DEF Saying
  <1>3. Saying(new) = [v \in Voter |-> Saying(new)[v]]
    BY DEF Saying
  <1> QED
    BY <1>1, <1>2, <1>3 DEF Box!Carried

\* Counting binding ballots is counting voters, as each has one.
LEMMA VotersAreCounted ==
    ASSUME BInv, CountedOnce, phase # "draft", NEW c \in {"yes", "no"}
    PROVE  BindingVotes(seq, c) = Cardinality({v \in Binding(Round) : InBox[v] = c})
  <1> DEFINE S == {b \in Effective(seq) : b.choice = c /\ b.voter \in Binding(Round)}
             T == {v \in Binding(Round) : InBox[v] = c}
             f == [b \in S |-> b.voter]
  <1>1. InBox = Saying(Effective(seq)) /\ Binding(Round) \subseteq Voter
    BY VoterAssumption DEF InBox, Binding
  <1>2. Effective(seq) \subseteq ballots
    BY DEF Effective, Carried, BallotsOf
  <1>3. IsFiniteSet(S)
    BY <1>2, FS_Subset DEF BInv, Countable
  <1>4. \A b \in S : b.voter \in Voter /\ \A d \in Effective(seq) : d.voter = b.voter => d = b
    BY <1>1 DEF CountedOnce
  <1>5. \A b \in S : b.voter \in T
    <2> SUFFICES ASSUME NEW b \in S PROVE b.voter \in T
      OBVIOUS
    <2>1. Saying(Effective(seq))[b.voter] = b.choice
      BY <1>4, SaysItsBallot
    <2> QED
      BY <2>1, <1>1
  <1>6. \A v \in T : \E b \in S : b.voter = v
    BY <1>1, BallotOfSayer
  <1>7. f \in Bijection(S, T)
    <2> HIDE DEF S, T
    <2>1. f \in [S -> T]
      BY <1>5
    <2>2. \A a, b \in S : f[a] = f[b] => a = b
      BY <1>4 DEF S
    <2>3. \A t \in T : \E s \in S : f[s] = t
      BY <1>6
    <2> QED
      BY <2>1, <2>2, <2>3 DEF Bijection, Injection, Surjection, IsInjective
  <1>8. Cardinality(T) = Cardinality(S)
    BY <1>3, <1>7, FS_Bijection DEF ExistsBijection
  <1> QED
    BY <1>8 DEF BindingVotes

\* What passes by its ballots is approved by the box.
LEMMA PassesApproves ==
    ASSUME BInv, CountedOnce, phase = "candidate", Passes(seq) PROVE Box!Approves
  <1>1. Binding(Round) = Box!Electorate
    BY DEF Binding, Box!Electorate, Stage
  <1>2. BindingVotes(seq, "yes") = Box!Say("yes") /\ BindingVotes(seq, "no") = Box!Say("no")
    BY <1>1, VotersAreCounted, SameCardinality DEF Box!Say
  <1> QED
    BY <1>2 DEF Passes, Box!Approves

----------------------------------------------------------------------------
(* Steps *)

\* What a box is made of has not changed, so neither has the box.
LEMMA QuietBox == UNCHANGED boxed => UNCHANGED Box!vars
  BY DEF boxed, Box!vars, Stage, Counted, InBox, InFirst, Saying, Effective, Carried, BallotsOf,
         PreviousRoundOne, Round, RoundOf

\* PreviousRoundOne, of any ballots.
LatestRoundOne(box, s) ==
    LET before == {b.seq : b \in {c \in box : c.round = 1 /\ c.seq < s}}
    IN IF before = {} THEN 0 ELSE CHOOSE n \in before : \A m \in before : m <= n

\* It depends on the ballots of earlier first rounds only.
LEMMA SameLatest ==
    ASSUME NEW old, NEW new, NEW s, NEW t,
           {c \in old : c.round = 1 /\ c.seq < s} = {c \in new : c.round = 1 /\ c.seq < t}
    PROVE  LatestRoundOne(new, t) = LatestRoundOne(old, s)
  <1> DEFINE seqs(rows) == {b.seq : b \in rows}
             last(ns) == IF ns = {} THEN 0 ELSE CHOOSE n \in ns : \A m \in ns : m <= n
             r1 == {c \in old : c.round = 1 /\ c.seq < s}
             r2 == {c \in new : c.round = 1 /\ c.seq < t}
  <1>1. LatestRoundOne(old, s) = last(seqs(r1)) /\ LatestRoundOne(new, t) = last(seqs(r2))
    BY DEF LatestRoundOne
  <1>2. r1 = r2
    OBVIOUS
  <1> HIDE DEF seqs, last, r1, r2
  <1> QED
    BY <1>1, <1>2

\* The first round is the same when its ballots are.
LEMMA SameFirst ==
    ASSUME PreviousRoundOne(seq + 1)' = PreviousRoundOne(seq + 1),
           BallotsOf(PreviousRoundOne(seq + 1))' = BallotsOf(PreviousRoundOne(seq + 1))
    PROVE  InFirst' = InFirst
  <1>1. InFirst' = Saying(BallotsOf(PreviousRoundOne(seq + 1))')
    BY DEF InFirst, Saying
  <1> QED
    BY <1>1 DEF InFirst

LEMMA StartOpens ==
    ASSUME BInv, Start PROVE Box!OpenBox
  <1> USE DEF BInv
  <1>1. thread = 0 /\ thread' = 0 /\ phase = "draft" /\ phase' = "candidate"
    BY DEF Start, IInv, Core, SecondAfterFirst
  <1>2. seq \in Nat /\ seq' = seq + 1 /\ ballots' = ballots /\ podling' = podling
    BY DEF Start, IInv, TypeOK
  <1>3. \A b \in ballots : b.seq \in Nat /\ b.seq <= seq
    BY DEF IInv, Core, NumbersFresh, TypeOK, VoteSeq
  <1>4. Round' # 2
    BY <1>1 DEF Round, RoundOf
  <1>5. {b \in ballots : b.seq = seq + 1} = {}
    BY <1>2, <1>3
  <1>6. Effective(seq)' = {}
    BY <1>2, <1>4, <1>5 DEF Effective, BallotsOf
  <1>7. InBox' = Saying({}) /\ InBox = Saying({})
    BY <1>1, <1>6 DEF InBox, Saying
  <1>8. {c \in ballots : c.round = 1 /\ c.seq < seq' + 1}
            = {c \in ballots : c.round = 1 /\ c.seq < seq + 1}
    BY <1>2, <1>3
  <1>9. PreviousRoundOne(seq + 1)' = PreviousRoundOne(seq + 1)
    <2>1. PreviousRoundOne(seq + 1)' = LatestRoundOne(ballots, seq' + 1)
      BY <1>2 DEF PreviousRoundOne, LatestRoundOne
    <2>2. PreviousRoundOne(seq + 1) = LatestRoundOne(ballots, seq + 1)
      BY DEF PreviousRoundOne, LatestRoundOne
    <2> QED
      BY <1>8, <2>1, <2>2, SameLatest
  <1>10. InFirst' = InFirst
    <2>1. BallotsOf(PreviousRoundOne(seq + 1))' = BallotsOf(PreviousRoundOne(seq + 1))
      BY <1>2, <1>9 DEF BallotsOf
    <2> QED
      BY <1>9, <2>1, SameFirst
  <1>11. Stage = "closed" /\ Stage' = "first" /\ Counted' \in BOOLEAN
    BY <1>1, <1>4 DEF Stage, Counted
  <1> QED
    BY <1>2, <1>7, <1>10, <1>11 DEF Box!OpenBox

LEMMA ResolveCloses ==
    ASSUME BInv, NEW r \in Request, NEW s, NEW t, NEW found, Resolve(s, t, found, r),
           UNCHANGED <<podling, ballots>>,
           req[r].result = "passed" => Box!Approves
    PROVE  Box!Next
  <1> USE DEF BInv
  <1>1. phase = "candidate" /\ s = seq /\ t = thread /\ seq \in Nat
    BY DEF Resolve, Transition, IInv, TypeOK
  <1>2. CASE req[r].result # "passed"
    <2>1. Returned /\ seq' = seq
      BY <1>2 DEF Resolve, Returned
    <2>2. InBox' = Box!Empty
      BY <2>1, NothingSaid DEF Returned, InBox, Saying
    <2>3. InFirst' = InFirst
      BY <2>1 DEF InFirst, Saying, BallotsOf, PreviousRoundOne
    <2>4. Stage \in {"first", "second"} /\ Stage' = "closed" /\ Counted' = FALSE
      BY <1>1, <2>1 DEF Stage, Counted, Returned
    <2> QED
      BY <2>2, <2>3, <2>4 DEF Box!Next, Box!Reject, Box!Open
  <1>3. CASE req[r].result = "passed" /\ Round # 1
    <2>1. Passed
      BY <1>1, <1>3 DEF Resolve, Round
    <2>2. Round' = Round /\ Effective(seq)' = Effective(seq)
      BY <2>1 DEF Passed, Round, RoundOf, Effective, Carried, BallotsOf, PreviousRoundOne
    <2>3. InBox' = InBox
      BY <1>1, <2>1, <2>2 DEF Passed, InBox, Saying
    <2>4. InFirst' = InFirst
      BY <2>1 DEF Passed, InFirst, Saying, BallotsOf, PreviousRoundOne
    <2>5. /\ Stage = IF podling THEN "second" ELSE "first"
          /\ Stage' = "approved" /\ Counted' = Counted
      BY <1>1, <1>3, <2>1 DEF Passed, Stage, Counted, Round, RoundOf
    <2> QED
      BY <1>3, <2>3, <2>4, <2>5 DEF Box!Next, Box!Approve
  <1>4. CASE req[r].result = "passed" /\ Round = 1
    <2>1. SecondRound(found, r)
      BY <1>1, <1>4 DEF Resolve, Round
    <2>2. podling /\ Round' = 2 /\ seq' = seq + 1 /\ phase' = phase /\ mode' = mode
      BY <1>4, <2>1 DEF SecondRound, Round, RoundOf
    <2>3. \A b \in ballots : b.seq \in Nat /\ b.seq <= seq
      BY DEF IInv, Core, NumbersFresh, TypeOK, VoteSeq
    <2>4. {b \in ballots : b.seq = seq + 1} = {}
      BY <1>1, <2>3
    <2>5. BallotsOf(seq)' = {}
      BY <2>2, <2>4 DEF BallotsOf
    <2>6. BallotsOf(seq + 1) = {}
      BY <2>4 DEF BallotsOf
    <2>7. PreviousRoundOne(seq)' = PreviousRoundOne(seq + 1)
      <3>1. PreviousRoundOne(seq)' = LatestRoundOne(ballots, seq')
        BY DEF PreviousRoundOne, LatestRoundOne
      <3>2. PreviousRoundOne(seq + 1) = LatestRoundOne(ballots, seq + 1)
        BY DEF PreviousRoundOne, LatestRoundOne
      <3> QED
        BY <2>2, <3>1, <3>2
    <2>8. BallotsOf(PreviousRoundOne(seq))' = BallotsOf(PreviousRoundOne(seq + 1))
      BY <2>7 DEF BallotsOf
    <2>9. Carried(seq)' = {b \in BallotsOf(PreviousRoundOne(seq + 1)) : b.voter \in Incubator}
      <3> DEFINE before == BallotsOf(PreviousRoundOne(seq + 1))
      <3>1. Carried(seq)' = {b \in BallotsOf(PreviousRoundOne(seq))' :
                b.voter \in Incubator /\ \A c \in BallotsOf(seq)' : c.voter # b.voter}
        BY DEF Carried
      <3>2. Carried(seq)'
                = {b \in before : b.voter \in Incubator /\ \A c \in {} : c.voter # b.voter}
        BY <2>5, <2>8, <3>1
      <3>3. {b \in before : b.voter \in Incubator /\ \A c \in {} : c.voter # b.voter}
                = {b \in before : b.voter \in Incubator}
        <4> HIDE DEF before
        <4> QED
          OBVIOUS
      <3> QED
        BY <3>2, <3>3
    <2>10. Effective(seq)' = {b \in BallotsOf(PreviousRoundOne(seq + 1)) : b.voter \in Incubator}
      BY <2>2, <2>5, <2>9 DEF Effective
    <2>11. InBox' = Saying(Effective(seq)')
      BY <1>1, <2>2 DEF InBox, Saying
    <2>12. InBox' = Box!Carried(InFirst)
      BY <2>10, <2>11, CarriedSaysSo DEF InFirst
    <2>13. {c \in ballots : c.round = 1 /\ c.seq < seq' + 1}
            = {c \in ballots : c.round = 1 /\ c.seq < seq + 1}
      BY <1>1, <2>2, <2>3
    <2>14. PreviousRoundOne(seq + 1)' = PreviousRoundOne(seq + 1)
      <3>1. PreviousRoundOne(seq + 1)' = LatestRoundOne(ballots, seq' + 1)
        BY DEF PreviousRoundOne, LatestRoundOne
      <3>2. PreviousRoundOne(seq + 1) = LatestRoundOne(ballots, seq + 1)
        BY DEF PreviousRoundOne, LatestRoundOne
      <3> QED
        BY <2>13, <3>1, <3>2, SameLatest
    <2>15. InFirst' = InFirst
      <3>1. BallotsOf(PreviousRoundOne(seq + 1))' = BallotsOf(PreviousRoundOne(seq + 1))
        BY <2>14 DEF BallotsOf
      <3> QED
        BY <2>14, <3>1, SameFirst
    <2>16. Stage = "first" /\ Stage' = "second" /\ Counted' = Counted
      BY <1>1, <1>4, <2>2 DEF Stage, Counted
    <2> QED
      BY <1>4, <2>2, <2>12, <2>15, <2>16 DEF Box!Next, Box!Advance
  <1> QED
    BY <1>2, <1>3, <1>4

----------------------------------------------------------------------------
(* Ballots *)

\* Of a set of votes there is a latest.
LEMMA LatestOf ==
    ASSUME NEW S, S \subseteq Nat, NEW n \in Nat, \A m \in S : m <= n, S # {}
    PROVE  \E m \in S : \A k \in S : k <= m
  <1> DEFINE T == {n - m : m \in S}
             R == OpToRel(<, Nat)
  <1>1. T \subseteq Nat /\ T # {}
    <2>1. \A m \in S : n - m \in Nat
      OBVIOUS
    <2>2. PICK m \in S : TRUE
      OBVIOUS
    <2>3. n - m \in T
      OBVIOUS
    <2> QED
      BY <2>1, <2>3
  <1>2. PICK x \in T : \A y \in T : ~(<<y, x>> \in R)
    <2> HIDE DEF T, R
    <2>1. IsWellFoundedOn(R, Nat)
      BY NatLessThanWellFounded DEF R
    <2> QED
      BY <1>1, <2>1, WFMin
  <1>3. \A y \in T : ~(y < x)
    BY <1>1, <1>2 DEF OpToRel
  <1>4. PICK m \in S : x = n - m
    OBVIOUS
  <1>5. \A k \in S : k <= m
    BY <1>3, <1>4
  <1> QED
    BY <1>5

\* The first round before vote s is an earlier one, if there is one.
LEMMA PreviousIsEarlier ==
    ASSUME TypeOK, NEW s \in Nat
    PROVE  \/ PreviousRoundOne(s) = 0
           \/ \E b \in ballots : b.round = 1 /\ b.seq < s /\ b.seq = PreviousRoundOne(s)
  <1> DEFINE before == {b.seq : b \in {c \in ballots : c.round = 1 /\ c.seq < s}}
  <1>1. \A n \in before : n \in Nat /\ n <= s
    BY DEF TypeOK, VoteSeq
  <1>2. CASE before = {}
    BY <1>2 DEF PreviousRoundOne
  <1>3. CASE before # {}
    <2>1. \E n \in before : \A m \in before : m <= n
      <3> HIDE DEF before
      <3> QED
        BY <1>1, <1>3, LatestOf
    <2>2. (CHOOSE n \in before : \A m \in before : m <= n) \in before
      <3> HIDE DEF before
      <3> QED
        BY <2>1
    <2>3. PreviousRoundOne(s) \in before
      BY <1>3, <2>2 DEF PreviousRoundOne
    <2> QED
      BY <2>3
  <1> QED
    BY <1>2, <1>3

\* If the latest vote has ballots of a first round, it is the latest first round.
LEMMA LatestIsCurrent ==
    ASSUME NEW box, NEW s \in Nat, NEW b \in box, b.round = 1, b.seq = s,
           \A d \in box : d.seq \in Nat /\ d.seq <= s
    PROVE  LatestRoundOne(box, s + 1) = s
  <1> DEFINE before == {d.seq : d \in {c \in box : c.round = 1 /\ c.seq < s + 1}}
  <1>1. s \in before /\ \A n \in before : n \in Nat /\ n <= s
    OBVIOUS
  <1>2. LatestRoundOne(box, s + 1) =
            IF before = {} THEN 0 ELSE CHOOSE n \in before : \A m \in before : m <= n
    BY DEF LatestRoundOne
  <1> HIDE DEF before
  <1>3. \A n \in before : (\A m \in before : m <= n) <=> n = s
    BY <1>1
  <1>4. (CHOOSE n \in before : \A m \in before : m <= n) = s
    BY <1>1, <1>3
  <1> QED
    BY <1>1, <1>2, <1>4

\* A ballot is put in the box, or says what the one before said.
LEMMA CastPuts ==
    ASSUME BInv,
           NEW v \in Voter, NEW c \in Choice, NEW form \in VoteSeq, Cast(v, c, form)
    PROVE  Box!Next \/ UNCHANGED Box!vars
  <1> USE DEF BInv
  <1> DEFINE new == [seq |-> seq, round |-> Round, voter |-> v, choice |-> c, revision |-> latest]
             kept == {b \in ballots : ~(b.seq = seq /\ b.round = Round /\ b.voter = v)}
  <1>1. /\ phase = "candidate" /\ mode = "trusted" /\ ballots' = kept \union {new}
        /\ UNCHANGED <<podling, phase, mode, seq, thread>>
    BY DEF Cast, release
  <1>2. seq \in Nat /\ Round' = Round /\ Round \in {0, 1, 2}
    BY <1>1 DEF IInv, TypeOK, Round, RoundOf
  <1>3. \A b \in ballots : b.seq \in Nat /\ b.seq <= seq
    BY DEF IInv, Core, NumbersFresh, TypeOK, VoteSeq
  <1>4. \A b \in ballots : b.seq = seq => b.round = Round
    BY <1>1 DEF IInv, Core, Candidacy
  <1>5. new.seq = seq /\ new.round = Round /\ new.voter = v /\ new.choice = c
    OBVIOUS
  <1>6. \A b : b \in ballots' <=> b = new \/ (b \in ballots /\ ~(b.seq = seq /\ b.voter = v))
    BY <1>1, <1>4
  <1> HIDE DEF new, kept
  <1>7. new \in BallotsOf(seq)'
    BY <1>1, <1>5, <1>6 DEF BallotsOf
  <1>8. \A b : b \in BallotsOf(seq)' <=> b = new \/ (b \in BallotsOf(seq) /\ b.voter # v)
    BY <1>1, <1>5, <1>6 DEF BallotsOf
  <1>9. PreviousRoundOne(seq)' = PreviousRoundOne(seq)
    <2>1. {b \in ballots' : b.round = 1 /\ b.seq < seq}
            = {b \in ballots : b.round = 1 /\ b.seq < seq}
      BY <1>2, <1>3, <1>5, <1>6
    <2>2. PreviousRoundOne(seq)' = LatestRoundOne(ballots', seq)
      BY <1>1 DEF PreviousRoundOne, LatestRoundOne
    <2>3. PreviousRoundOne(seq) = LatestRoundOne(ballots, seq)
      BY DEF PreviousRoundOne, LatestRoundOne
    <2> QED
      BY <2>1, <2>2, <2>3, SameLatest
  <1>10. PreviousRoundOne(seq) # seq
    <2>1. 0 # seq
      BY <1>1 DEF IInv, Core, Candidacy, VoteSeq
    <2> QED
      BY <1>2, <1>3, <2>1, PreviousIsEarlier DEF IInv
  <1>11. Effective(seq)' = BallotsOf(seq)' \union (IF Round = 2 THEN Carried(seq)' ELSE {})
    BY <1>2 DEF Effective
  <1>12. \A b : b \in Carried(seq)' <=> b \in Carried(seq) /\ b.voter # v
    <2>1. BallotsOf(PreviousRoundOne(seq))' = BallotsOf(PreviousRoundOne(seq))
      <3>1. BallotsOf(PreviousRoundOne(seq))' = {b \in ballots' : b.seq = PreviousRoundOne(seq)'}
        BY DEF BallotsOf
      <3>2. {b \in ballots' : b.seq = PreviousRoundOne(seq)}
                = {b \in ballots : b.seq = PreviousRoundOne(seq)}
        BY <1>5, <1>6, <1>10
      <3> QED
        BY <1>9, <3>1, <3>2 DEF BallotsOf
    <2>2. Carried(seq)' = {b \in BallotsOf(PreviousRoundOne(seq))' :
                b.voter \in Incubator /\ \A d \in BallotsOf(seq)' : d.voter # b.voter}
      BY DEF Carried
    <2>3. Carried(seq) = {b \in BallotsOf(PreviousRoundOne(seq)) :
                b.voter \in Incubator /\ \A d \in BallotsOf(seq) : d.voter # b.voter}
      BY DEF Carried
    <2> QED
      BY <1>5, <1>8, <2>1, <2>2, <2>3
  <1>13. InBox' = [InBox EXCEPT ![v] = c]
    <2> DEFINE old == Effective(seq)
               box == Effective(seq)'
    <2>1. InBox = Saying(old)
      BY <1>1 DEF InBox
    <2>2. InBox' = Saying(box)
      BY <1>1 DEF InBox, Saying
    <2>3. new \in box
      BY <1>7, <1>11
    <2>4. \A d \in box : d.voter = v => d = new
      BY <1>8, <1>11, <1>12
    <2>5. \A d : d.voter # v => (d \in box <=> d \in old)
      BY <1>5, <1>8, <1>11, <1>12 DEF Effective
    <2> HIDE DEF old, box
    <2>6. Saying(box) = [Saying(old) EXCEPT ![new.voter] = new.choice]
      BY <1>5, <2>3, <2>4, <2>5, OneSaysOtherwise
    <2> QED
      BY <1>5, <2>1, <2>2, <2>6
  <1>14. UNCHANGED <<podling, Stage, Counted>> /\ Counted /\ Stage \in {"first", "second"}
    BY <1>1, <1>2 DEF Stage, Counted
  <1>15. Stage = "first" <=> Round # 2
    BY <1>1 DEF Stage
  <1>16. Round = 1 => podling /\ Stage = "first"
    BY <1>15 DEF Round, RoundOf
  <1>17. CASE Round = 1
    <2>1. Effective(seq) = BallotsOf(seq) /\ Effective(seq)' = BallotsOf(seq)'
      BY <1>11, <1>17 DEF Effective
    <2>2. InBox = Saying(BallotsOf(seq))
      BY <1>1, <2>1 DEF InBox
    <2>3. InBox' = Saying(BallotsOf(seq)')
      <3>1. InBox' = Saying(Effective(seq)')
        BY <1>1 DEF InBox, Saying
      <3> QED
        BY <2>1, <3>1
    <2>4. \A b \in ballots' : b.seq \in Nat /\ b.seq <= seq
      BY <1>2, <1>3, <1>5, <1>6
    <2>5. PreviousRoundOne(seq + 1)' = seq
      <3>1. PreviousRoundOne(seq + 1)' = LatestRoundOne(ballots', seq + 1)
        BY <1>1 DEF PreviousRoundOne, LatestRoundOne
      <3>2. new \in ballots' /\ new.round = 1
        BY <1>5, <1>6, <1>17
      <3> QED
        BY <1>2, <1>5, <2>4, <3>1, <3>2, LatestIsCurrent
    <2>6. BallotsOf(PreviousRoundOne(seq + 1))' = BallotsOf(seq)'
      BY <1>1, <2>5 DEF BallotsOf
    <2>7. InFirst' = Saying(BallotsOf(PreviousRoundOne(seq + 1))')
      BY DEF InFirst, Saying
    <2>8. InFirst' = InBox'
      BY <2>3, <2>6, <2>7
    <2>9. CASE InBox' = InBox
      <3>1. InBox[v] = c /\ c # NoBallot
        <4>1. InBox = [w \in Voter |-> InBox[w]]
          BY DEF InBox, Saying
        <4> QED
          BY <1>13, <2>9, <4>1, ChoiceAssumption
      <3>2. PICK b \in BallotsOf(seq) : TRUE
        BY <2>2, <3>1, BallotOfSayer
      <3>3. b \in ballots /\ b.seq = seq /\ b.round = 1
        BY <1>4, <1>17, <3>2 DEF BallotsOf
      <3>4. PreviousRoundOne(seq + 1) = LatestRoundOne(ballots, seq + 1)
        BY DEF PreviousRoundOne, LatestRoundOne
      <3>5. PreviousRoundOne(seq + 1) = seq
        BY <1>2, <1>3, <3>3, <3>4, LatestIsCurrent
      <3>6. InFirst = InBox
        BY <2>2, <3>5 DEF InFirst
      <3> QED
        BY <1>14, <2>8, <2>9, <3>6 DEF Box!vars
    <2>10. CASE InBox' # InBox
      <3>1. Box!Put(v, c)
        BY <1>13, <1>14, <1>16, <1>17, <2>8 DEF Box!Put
      <3> QED
        BY <1>14, <2>10, <3>1 DEF Box!Next, Box!Open
    <2> QED
      BY <2>9, <2>10
  <1>18. CASE Round # 1
    <2>1. {b \in ballots' : b.round = 1 /\ b.seq < seq + 1}
            = {b \in ballots : b.round = 1 /\ b.seq < seq + 1}
      BY <1>4, <1>5, <1>6, <1>18
    <2>2. PreviousRoundOne(seq + 1)' = PreviousRoundOne(seq + 1)
      <3>1. PreviousRoundOne(seq + 1)' = LatestRoundOne(ballots', seq + 1)
        BY <1>1 DEF PreviousRoundOne, LatestRoundOne
      <3>2. PreviousRoundOne(seq + 1) = LatestRoundOne(ballots, seq + 1)
        BY DEF PreviousRoundOne, LatestRoundOne
      <3> QED
        BY <2>1, <3>1, <3>2, SameLatest
    <2>3. PreviousRoundOne(seq + 1) # seq
      <3>1. 0 # seq
        BY <1>1 DEF IInv, Core, Candidacy, VoteSeq
      <3>2. seq + 1 \in Nat
        BY <1>2
      <3> QED
        BY <1>4, <1>18, <3>1, <3>2, PreviousIsEarlier DEF IInv
    <2>4. BallotsOf(PreviousRoundOne(seq + 1))' = BallotsOf(PreviousRoundOne(seq + 1))
      <3>1. BallotsOf(PreviousRoundOne(seq + 1))'
                = {b \in ballots' : b.seq = PreviousRoundOne(seq + 1)'}
        BY DEF BallotsOf
      <3>2. {b \in ballots' : b.seq = PreviousRoundOne(seq + 1)}
                = {b \in ballots : b.seq = PreviousRoundOne(seq + 1)}
        BY <1>5, <1>6, <2>3
      <3> QED
        BY <2>2, <3>1, <3>2 DEF BallotsOf
    <2>5. InFirst' = InFirst
      BY <2>2, <2>4, SameFirst
    <2>6. CASE InBox' = InBox
      BY <1>14, <2>5, <2>6 DEF Box!vars
    <2>7. CASE InBox' # InBox
      <3>1. ~(podling /\ Stage = "first")
        BY <1>2, <1>15, <1>18 DEF Round, RoundOf
      <3>2. Box!Put(v, c)
        BY <1>13, <1>14, <2>5, <3>1 DEF Box!Put
      <3> QED
        BY <1>14, <2>7, <3>2 DEF Box!Next, Box!Open
    <2> QED
      BY <2>6, <2>7
  <1> QED
    BY <1>17, <1>18

----------------------------------------------------------------------------
(* The refinement *)

LEMMA OneEach == IInv => CountedOnce
  <1>1. ASSUME IInv, NEW b \in Effective(seq), NEW c \in Effective(seq), b.voter = c.voter
        PROVE  b = c
    BY <1>1 DEF Effective, Carried, BallotsOf, IInv, Core, OneRowEach
  <1> QED
    BY <1>1 DEF CountedOnce

LEMMA InitIsEmpty == Init => Box!Init
  <1> SUFFICES ASSUME Init PROVE Box!Init
    OBVIOUS
  <1>1. BallotsOf(PreviousRoundOne(seq + 1)) = {}
    BY DEF Init, BallotsOf
  <1> QED
    BY <1>1, NothingSaid DEF Init, Box!Init, Stage, Counted, InBox, InFirst

LEMMA TrustedDecides ==
    ASSUME BInv, NEW r \in Request, DecideTrusted(r) PROVE Box!Next
  <1> USE DEF BInv
  <1>1. Resolve(seq, thread, req[r].thread, r) /\ UNCHANGED <<podling, ballots>>
    BY DEF DecideTrusted
  <1>2. phase = "candidate" /\ (req[r].result = "passed" => Passes(seq) \/ r \in Overrider)
    BY DEF DecideTrusted
  <1>3. req[r].result = "passed" => Box!Approves
    <2>1. CASE Passes(seq)
      BY <1>2, <2>1, OneEach, PassesApproves
    <2>2. CASE r \in Overrider
      BY <2>2 DEF Box!Approves
    <2> QED
      BY <1>2, <2>1, <2>2
  <1> QED
    BY <1>1, <1>3, ResolveCloses

LEMMA EmailDecides ==
    ASSUME BInv, NEW r \in Request, DecideByEmail(r) PROVE Box!Next
  <1> USE DEF BInv
  <1>1. PICK found : Resolve(req[r].seen, req[r].thread, found, r) /\ UNCHANGED <<podling, ballots>>
    BY DEF DecideByEmail
  <1>2. mode = "email"
    BY <1>1 DEF DecideByEmail, Resolve, Transition, IInv, Remembers
  <1>3. Box!Approves
    BY <1>2 DEF Box!Approves, Counted
  <1> QED
    BY <1>1, <1>3, ResolveCloses

LEMMA StepImplements ==
    ASSUME BInv, [Next]_vars PROVE Box!Next \/ UNCHANGED Box!vars
  <1>1. CASE UNCHANGED boxed
    BY <1>1, QuietBox
  <1>2. CASE Start
    BY <1>2, StartOpens DEF Box!Next
  <1>3. ASSUME NEW v \in Voter, NEW c \in Choice, NEW form \in VoteSeq, Cast(v, c, form)
        PROVE  Box!Next \/ UNCHANGED Box!vars
    BY <1>3, CastPuts
  <1>4. ASSUME NEW r \in Request, DecideTrusted(r) \/ DecideByEmail(r) PROVE Box!Next
    BY <1>4, TrustedDecides, EmailDecides
  <1> QED
    BY <1>1, <1>2, <1>3, <1>4 DEF Next, NewRevision, PeriodEnds, Initiate, InitiateFails, Announce,
       InitiateDies, AutoSkip, Look, Refused, AutoCheck, AutoDone, AutoDies, vars, release, boxed

\* However votes are announced, cast in and resolved, by whom and how often, the
\* release is to its voters a sequence of boxes, each closed once on its own ballots:
\* those of its round and those carried from the round before (start, cast_trusted,
\* resolve, auto_resolve, effective_trusted_ballots).
THEOREM VotesAreBallotBoxes == Spec => Box!Spec
  <1>1. BInv /\ [Next]_vars => [Box!Next]_(Box!vars)
    BY StepImplements
  <1> QED
    BY <1>1, InitIsEmpty, BoxInvariance, PTL DEF Spec, Box!Spec

\* The same, in the form that the run checks.
THEOREM BoxesAreImplemented == Spec => ImplementsBallotBox
  <1>1. BInv /\ [Next]_vars => [UNCHANGED boxed \/ Box!Next]_(Box!vars)
    BY StepImplements
  <1> QED
    BY <1>1, InitIsEmpty, BoxInvariance, PTL DEF Spec, ImplementsBallotBox
=============================================================================
