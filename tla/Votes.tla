------------------------------- MODULE Votes -------------------------------
(***************************************************************************)
(* The votes on one release: how they are started, announced, cast in and  *)
(* resolved, by hand, by a task when their period ends or by the security  *)
(* team (atr/storage/writers/vote.py, atr/tasks/vote.py, the ballots of    *)
(* atr/db/interaction.py and start_vote_no_commit in                       *)
(* atr/storage/writers/release.py).                                        *)
(*                                                                         *)
(* A step is one transaction under the write lock, or what a process reads *)
(* before it takes the lock and uses after.  In e-mail mode the ballots are *)
(* on a mailing list and ATR has only the outcome.                         *)
(***************************************************************************)
EXTENDS Naturals, FiniteSets

CONSTANTS
    Voter,        \* those who cast ballots
    Committee,    \* the members of the project's committee
    Incubator,    \* the members of the Incubator's committee
    Mode,         \* the vote modes that the project's policy has in a behaviour
    Choice,       \* the choices of a ballot
    Needed,       \* how many binding +1 a vote needs; 3 in the code
    Request,      \* the processes that resolve votes
    Overrider,    \* those of them that serve the security team
    MaxVote,      \* bound on the vote numbers of a behaviour
    MaxRevision,  \* bound on its revision numbers
    MaxTries      \* bound on the executions of one announcement task

ASSUME VoterAssumption == Committee \subseteq Voter /\ Incubator \subseteq Voter
ASSUME ModeAssumption == Mode \subseteq {"trusted", "email"}
ASSUME ChoiceAssumption == Choice \subseteq {"yes", "no", "abstain"}
ASSUME NeededAssumption == Needed \in Nat \ {0}
ASSUME RequestAssumption == Overrider \subseteq Request
ASSUME BoundAssumption == MaxVote \in Nat \ {0} /\ MaxRevision \in Nat \ {0} /\ MaxTries \in Nat \ {0}

VARIABLES
    podling,  \* the project's committee is a podling
    phase,    \* Release.phase
    mode,     \* Release.vote_mode, "none" for NULL
    seq,      \* Release.current_vote_seq, 0 for NULL, and VoteCounter with it
    thread,   \* Release.podling_thread_id: the vote whose thread it is, 0 for NULL
    latest,   \* the number of the latest revision
    voted,    \* Release.voted_revision_number, 0 for NULL
    ballots,  \* the latest BallotPaper row of each vote, round and voter
    task,     \* task[s]: the VOTE_INITIATE task of vote s
    ended,    \* the votes whose announced period is over
    queued,   \* queued[s]: how many VOTE_AUTO_RESOLVE tasks of vote s are QUEUED
    req,      \* req[r]: what the process r that resolves a vote holds
    outcome   \* outcome[s]: how vote s was resolved, as the audit log has it

release == <<podling, phase, mode, seq, thread, voted>>
vars == <<podling, phase, mode, seq, thread, latest, voted, ballots, task, ended, queued, req, outcome>>

VoteSeq == 1 .. MaxVote
Result == {"passed", "failed", "cancelled"}

NoTask == [st |-> "none", auto |-> FALSE, tries |-> 0]
NewTask(auto) == [st |-> "queued", auto |-> auto, tries |-> 0]
\* What a task was asked, and how often it was tried, is of no use once it ended.
Ended(status) == [st |-> status, auto |-> FALSE, tries |-> 0]
NoRequest == [at |-> "idle", result |-> "passed", expected |-> 0, mode |-> "none",
              seen |-> 0, thread |-> 0]
NoOutcome == [result |-> "none", round |-> 0, revision |-> 0, override |-> FALSE]

----------------------------------------------------------------------------
(* Rounds, ballots and tallies *)

\* trusted_vote_round, 0 for None.
RoundOf(t) == IF ~podling THEN 0 ELSE IF t = 0 THEN 1 ELSE 2
Round == RoundOf(thread)

\* is_binding_for_release
Binding(round) == IF round = 2 THEN Incubator ELSE Committee

\* ballots_for_resolution
BallotsOf(s) == {b \in ballots : b.seq = s}

\* Slip: the earliest first round instead of the latest.
EarliestRoundOne(s) ==
    LET before == {b.seq : b \in {c \in ballots : c.round = 1 /\ c.seq < s}}
    IN IF before = {} THEN 0 ELSE CHOOSE n \in before : \A m \in before : n <= m

\* previous_round_one_vote_seq: the latest vote before s with ballots of a
\* first round, 0 for none.
PreviousRoundOne(s) ==
    LET before == {b.seq : b \in {c \in ballots : c.round = 1 /\ c.seq < s}}
    IN IF before = {} THEN 0 ELSE CHOOSE n \in before : \A m \in before : m <= n

\* Slip: a voter who votes again keeps the carried ballot.
CarriedAnyway(s) == {b \in BallotsOf(PreviousRoundOne(s)) : b.voter \in Incubator}

\* The first round's ballots that count in the second: those of Incubator
\* members who have not voted again.
Carried(s) ==
    {b \in BallotsOf(PreviousRoundOne(s)) :
        b.voter \in Incubator /\ \A c \in BallotsOf(s) : c.voter # b.voter}

\* Slip: whatever the round.
EffectiveInAnyRound(s) == BallotsOf(s) \union Carried(s)

\* effective_trusted_ballots
Effective(s) == BallotsOf(s) \union (IF Round = 2 THEN Carried(s) ELSE {})

\* trusted_ballot_summary and binding_vote_passes
BindingVotes(s, c) ==
    Cardinality({b \in Effective(s) : b.choice = c /\ b.voter \in Binding(Round)})
Passes(s) ==
    /\ BindingVotes(s, "yes") >= Needed
    /\ BindingVotes(s, "yes") > BindingVotes(s, "no")

----------------------------------------------------------------------------
Init ==
    /\ podling \in BOOLEAN
    /\ phase = "draft" /\ mode = "none" /\ seq = 0 /\ thread = 0
    /\ latest = 1 /\ voted = 0
    /\ ballots = {}
    /\ task = [s \in VoteSeq |-> NoTask]
    /\ ended = {}
    /\ queued = [s \in VoteSeq |-> 0]
    /\ req = [r \in Request |-> NoRequest]
    /\ outcome = [s \in VoteSeq |-> NoOutcome]

\* A revision is made, which only a draft allows (module Revisions).
NewRevision ==
    /\ phase = "draft" /\ latest < MaxRevision
    /\ latest' = latest + 1
    /\ UNCHANGED <<release, ballots, task, ended, queued, req, outcome>>

\* start(promote=True).  Automatic resolution is refused by e-mail and in the
\* first round of a podling.
Start ==
    /\ phase = "draft" /\ seq < MaxVote
    /\ \E m \in Mode, auto \in BOOLEAN :
        /\ auto => m = "trusted" /\ Round # 1
        /\ mode' = m
        /\ task' = [task EXCEPT ![seq + 1] = NewTask(auto)]
    /\ phase' = "candidate"
    /\ seq' = seq + 1
    /\ voted' = latest
    /\ UNCHANGED <<podling, thread, latest, ballots, ended, queued, req, outcome>>

----------------------------------------------------------------------------
(* The task that announces a vote and schedules its automatic resolution *)

\* The first session of _initiate_core_logic, which finds the vote current.
Initiate(s) ==
    /\ task[s].st = "queued" /\ task[s].tries < MaxTries
    /\ phase = "candidate" /\ seq = s
    /\ task' = [task EXCEPT ![s].st = "active", ![s].tries = @ + 1]
    /\ UNCHANGED <<release, latest, ballots, ended, queued, req, outcome>>

\* Or it finds the vote stale or tasks running, the mail cannot be sent or the
\* time limit passes.
InitiateFails(s) ==
    /\ task[s].st \in {"queued", "active"}
    /\ task' = [task EXCEPT ![s] = Ended("failed")]
    /\ UNCHANGED <<release, latest, ballots, ended, queued, req, outcome>>

\* _schedule_auto_resolve, if it was asked for; an error in it is only logged.
Scheduled(s) ==
    \/ task[s].auto /\ queued' = [queued EXCEPT ![s] = @ + 1]
    \/ UNCHANGED queued

\* The mail is sent, the follow-up scheduled and the result stored: the vote now
\* has a thread and an end.
Announce(s) ==
    /\ task[s].st = "active"
    /\ task' = [task EXCEPT ![s] = Ended("done")]
    /\ Scheduled(s)
    /\ UNCHANGED <<release, latest, ballots, ended, req, outcome>>

\* The worker dies before the result is stored, perhaps after the follow-up was
\* scheduled, and the manager returns the task to the queue.
InitiateDies(s) ==
    /\ task[s].st = "active"
    /\ task' = [task EXCEPT ![s].st = "queued"]
    /\ Scheduled(s)
    /\ UNCHANGED <<release, latest, ballots, ended, req, outcome>>

PeriodEnds ==
    /\ phase = "candidate" /\ task[seq].st = "done" /\ seq \notin ended
    /\ ended' = ended \union {seq}
    /\ UNCHANGED <<release, latest, ballots, task, queued, req, outcome>>

----------------------------------------------------------------------------
(* Ballots *)

\* Slip: it is not asked whether the vote was announced.
CastUnannounced(v, c, form) ==
    /\ phase = "candidate" /\ mode = "trusted" /\ form = seq
    /\ ballots' = {b \in ballots : ~(b.seq = seq /\ b.round = Round /\ b.voter = v)}
                  \union {[seq |-> seq, round |-> Round, voter |-> v, choice |-> c, revision |-> latest]}
    /\ UNCHANGED <<release, latest, task, ended, queued, req, outcome>>

\* cast_trusted, on a form that was made for the vote named in it.
Cast(v, c, form) ==
    /\ phase = "candidate" /\ mode = "trusted" /\ form = seq /\ task[seq].st = "done"
    /\ ballots' = {b \in ballots : ~(b.seq = seq /\ b.round = Round /\ b.voter = v)}
                  \union {[seq |-> seq, round |-> Round, voter |-> v, choice |-> c, revision |-> latest]}
    /\ UNCHANGED <<release, latest, task, ended, queued, req, outcome>>

----------------------------------------------------------------------------
(* Resolutions *)

\* Who may decide vote s before its period is over: the security team, those who
\* cancel, and a binding voter with a reason to complete an announced vote as
\* passed.  (Whether a tally supports that is asked elsewhere.)
EarlyAllowed(s, r, result) ==
    \/ result = "cancelled" \/ r \in Overrider \/ s \in ended
    \/ result = "passed" /\ task[s].st = "done"

\* resolve: what is read before the lock is taken.  In trusted mode only the
\* thread of a first round is kept, once its announcement can be found in the
\* archive; by e-mail everything is.  expected is the vote that the caller's form
\* was made for, 0 if the caller names none (publisher_vote_resolve); one made for
\* a vote before the current one can only be refused.
Look(r, result, expected) ==
    /\ req[r] = NoRequest /\ phase = "candidate"
    /\ r \in Overrider => task[seq].st = "done"
    /\ mode = "email" => EarlyAllowed(seq, r, result)
    /\ \E found \in BOOLEAN :
        /\ found => mode = "trusted" /\ result = "passed" /\ Round = 1 /\ task[seq].st = "done"
        /\ req' = [req EXCEPT ![r] =
            [at |-> "deciding", result |-> result, expected |-> expected, mode |-> mode,
             seen |-> IF mode = "email" THEN seq ELSE 0,
             thread |-> IF mode = "email" THEN thread ELSE IF found THEN seq ELSE 0]]
    /\ UNCHANGED <<release, latest, ballots, task, ended, queued, outcome>>

\* Slip: only the phase is compared.
TransitionByPhase(s, t) ==
    /\ phase = "candidate"
    /\ queued' = [n \in VoteSeq |-> 0]

\* _resolve_transition: the compare-and-set on what the caller read, and
\* _cancel_pending_vote_followups.
Transition(s, t) ==
    /\ phase = "candidate" /\ seq = s /\ thread = t
    /\ queued' = [n \in VoteSeq |-> 0]

\* Vote s, in the round of thread t, is resolved as asked by process r; whether it
\* failed or was cancelled makes no difference to what follows.
Resolved(s, t, r) ==
    outcome' = [outcome EXCEPT ![s] =
        [result |-> IF req[r].result = "passed" THEN "passed" ELSE "rejected",
         round |-> RoundOf(t), revision |-> voted, override |-> r \in Overrider]]

\* Slip: the thread is that of the announcement which has just been queued.
SecondRoundInOwnThread(found, r) ==
    /\ seq < MaxVote /\ found # 0
    /\ thread' = seq + 1
    /\ seq' = seq + 1
    /\ \E auto \in BOOLEAN :
        /\ auto => mode = "trusted" /\ r \notin Overrider
        /\ task' = [task EXCEPT ![seq + 1] = NewTask(auto)]
    /\ UNCHANGED <<phase, mode, voted>>

\* A first round passed: start(promote=False) in the same transaction.  The form
\* may ask for automatic resolution, in trusted mode and not for the security team.
SecondRound(found, r) ==
    /\ seq < MaxVote /\ found # 0
    /\ thread' = found
    /\ seq' = seq + 1
    /\ \E auto \in BOOLEAN :
        /\ auto => mode = "trusted" /\ r \notin Overrider
        /\ task' = [task EXCEPT ![seq + 1] = NewTask(auto)]
    /\ UNCHANGED <<phase, mode, voted>>

Passed == phase' = "preview" /\ UNCHANGED <<mode, seq, thread, voted, task>>

\* Slip: the revision that was voted on is kept.
ReturnedWithRevision ==
    /\ phase' = "draft" /\ mode' = "none" /\ thread' = 0
    /\ UNCHANGED <<seq, voted, task>>

Returned ==
    /\ phase' = "draft" /\ mode' = "none" /\ thread' = 0 /\ voted' = 0
    /\ UNCHANGED <<seq, task>>

\* Slip: a podling's first round is as good as a second.
ResolveInOneRound(s, t, found, r) ==
    /\ Transition(s, t)
    /\ IF req[r].result = "passed" THEN Passed ELSE Returned
    /\ Resolved(s, t, r)

\* The three branches of a resolution of vote s in the round of thread t; found is
\* the thread that a second round replies to.
Resolve(s, t, found, r) ==
    /\ Transition(s, t)
    /\ IF req[r].result = "passed"
       THEN IF RoundOf(t) = 1 THEN SecondRound(found, r) ELSE Passed
       ELSE Returned
    /\ Resolved(s, t, r)

After(r) == IF req[r].at = "auto" THEN [req[r] EXCEPT !.at = "decided"] ELSE NoRequest

\* Slip: the form's vote is not compared again under the lock.
DecideTrustedStale(r) ==
    LET q == req[r]
    IN /\ q.at \in {"deciding", "auto"} /\ q.mode = "trusted"
       /\ phase = "candidate" /\ mode = "trusted"
       /\ task[seq].st = "done" => EarlyAllowed(seq, r, q.result)
       /\ q.result = "passed" => Passes(seq) \/ r \in Overrider
       /\ Resolve(seq, thread, q.thread, r)
       /\ req' = [req EXCEPT ![r] = After(r)]
       /\ UNCHANGED <<podling, latest, ballots, ended>>

\* Slip: an automatic resolution relies on the tally it made before.
DecideTrustedOnOldTally(r) ==
    LET q == req[r]
    IN /\ q.at \in {"deciding", "auto"} /\ q.mode = "trusted"
       /\ phase = "candidate" /\ mode = "trusted"
       /\ q.expected \in {0, seq}
       /\ task[seq].st = "done" => EarlyAllowed(seq, r, q.result)
       /\ q.result = "passed" => Passes(seq) \/ r \in Overrider \/ q.at = "auto"
       /\ Resolve(seq, thread, q.thread, r)
       /\ req' = [req EXCEPT ![r] = After(r)]
       /\ UNCHANGED <<podling, latest, ballots, ended>>

\* _resolve_trusted: one transaction, which reads and tallies again.  The period
\* is asked for only if it is known, that is, after the announcement.
DecideTrusted(r) ==
    LET q == req[r]
    IN /\ q.at \in {"deciding", "auto"} /\ q.mode = "trusted"
       /\ phase = "candidate" /\ mode = "trusted"
       /\ q.expected \in {0, seq}
       /\ task[seq].st = "done" => EarlyAllowed(seq, r, q.result)
       /\ q.result = "passed" => Passes(seq) \/ r \in Overrider
       /\ Resolve(seq, thread, q.thread, r)
       /\ req' = [req EXCEPT ![r] = After(r)]
       /\ UNCHANGED <<podling, latest, ballots, ended>>

\* __resolve_release, on the release as it was read before the lock.
DecideByEmail(r) ==
    LET q == req[r]
    IN /\ q.at = "deciding" /\ q.mode = "email"
       /\ Resolve(q.seen, q.thread, IF task[q.seen].st = "done" THEN q.seen ELSE 0, r)
       /\ req' = [req EXCEPT ![r] = After(r)]
       /\ UNCHANGED <<podling, latest, ballots, ended>>

\* The resolution is refused, or the process dies before it commits.
Refused(r) ==
    /\ req[r].at = "deciding"
    /\ req' = [req EXCEPT ![r] = NoRequest]
    /\ UNCHANGED <<release, latest, ballots, task, ended, queued, outcome>>

----------------------------------------------------------------------------
(* The VOTE_AUTO_RESOLVE task.  Its scheduled time is left out: it may run at *)
(* any time, and finds out whether the vote has ended.                        *)

\* The first session of auto_resolve: the vote is its own, is over, and passes.
AutoCheck(r, s) ==
    /\ queued[s] > 0 /\ req[r] = NoRequest /\ r \notin Overrider
    /\ phase = "candidate" /\ mode = "trusted" /\ Round # 1
    /\ seq = s /\ task[s].st = "done" /\ s \in ended /\ Passes(s)
    /\ queued' = [queued EXCEPT ![s] = @ - 1]
    /\ req' = [req EXCEPT ![r] = [NoRequest EXCEPT !.at = "auto", !.expected = s, !.mode = "trusted"]]
    /\ UNCHANGED <<release, latest, ballots, task, ended, outcome>>

\* Or it finds that one of these does not hold, or fails.
AutoSkip(s) ==
    /\ queued[s] > 0
    /\ queued' = [queued EXCEPT ![s] = @ - 1]
    /\ UNCHANGED <<release, latest, ballots, task, ended, req, outcome>>

\* The resolution is refused, or it was made and the task is concluded.
AutoDone(r) ==
    /\ req[r].at \in {"auto", "decided"}
    /\ req' = [req EXCEPT ![r] = NoRequest]
    /\ UNCHANGED <<release, latest, ballots, task, ended, queued, outcome>>

\* The worker dies, before or after the resolution, and the task is run again.
AutoDies(r) ==
    /\ req[r].at \in {"auto", "decided"}
    /\ queued' = [queued EXCEPT ![req[r].expected] = @ + 1]
    /\ req' = [req EXCEPT ![r] = NoRequest]
    /\ UNCHANGED <<release, latest, ballots, task, ended, outcome>>

----------------------------------------------------------------------------
Next ==
    \/ NewRevision \/ Start \/ PeriodEnds
    \/ \E s \in VoteSeq :
        \/ Initiate(s) \/ InitiateFails(s) \/ Announce(s) \/ InitiateDies(s)
        \/ AutoSkip(s)
    \/ \E v \in Voter, c \in Choice, form \in VoteSeq : Cast(v, c, form)
    \/ \E r \in Request :
        \/ \E result \in Result, expected \in {0, seq} : Look(r, result, expected)
        \/ DecideTrusted(r) \/ DecideByEmail(r) \/ Refused(r)
        \/ \E s \in VoteSeq : AutoCheck(r, s)
        \/ AutoDone(r) \/ AutoDies(r)

Spec == Init /\ [][Next]_vars

----------------------------------------------------------------------------
(* Properties *)

\* The values that the rows and the processes may hold (models/sql.py); a release has
\* a vote mode and a voted revision from the start of a vote until it is rejected
\* (validate.py).
TypeOK ==
    /\ podling \in BOOLEAN
    /\ phase = "draft" <=> mode = "none"
    /\ phase = "draft" <=> voted = 0
    /\ phase \in {"draft", "candidate", "preview"}
    /\ mode \in {"none", "trusted", "email"}
    /\ seq \in 0 .. MaxVote /\ thread \in 0 .. MaxVote
    /\ latest \in 1 .. MaxRevision /\ voted \in 0 .. MaxRevision
    /\ ballots \subseteq [seq : VoteSeq, round : 0 .. 2, voter : Voter, choice : Choice,
                          revision : 1 .. MaxRevision]
    /\ task \in [VoteSeq -> [st : {"none", "queued", "active", "done", "failed"},
                             auto : BOOLEAN, tries : 0 .. MaxTries]]
    /\ ended \subseteq VoteSeq
    /\ queued \in [VoteSeq -> Nat]
    /\ req \in [Request -> [at : {"idle", "deciding", "auto", "decided"}, result : Result,
                            expected : 0 .. MaxVote, mode : {"none", "trusted", "email"},
                            seen : 0 .. MaxVote, thread : 0 .. MaxVote]]
    /\ outcome \in [VoteSeq -> [result : {"none", "passed", "rejected"}, round : 0 .. 2,
                                revision : 0 .. MaxRevision, override : BOOLEAN]]

\* A release that passed did so, and still does, on the ballots recorded for it:
\* none was replaced or added after the tally, and none was left out of it
\* (cast_trusted against _resolve_trusted and auto_resolve).
ApprovedOnBallots ==
    phase = "preview" /\ mode = "trusted" => Passes(seq) \/ outcome[seq].override

\* Nobody is counted twice, although ballots are replaced and are carried from
\* round to round (effective_trusted_ballots).
CountedOnce ==
    phase # "draft" => \A b, c \in Effective(seq) : b.voter = c.voter => b = c

\* A vote counts ballots cast on the revision it is about, unless its first round
\* was passed by the security team (previous_round_one_vote_seq).
CountedForVoted ==
    mode = "trusted" =>
        \/ \A b \in Effective(seq) : b.revision = voted
        \/ Round = 2 /\ outcome[seq - 1].override

\* "a podling release must be approved twice", in two rounds "of voting on the same
\* candidate": the vote before the one that passed it was its first round
\* (resolve, start(promote=False), auto_resolve).
ApprovedTwice ==
    podling /\ phase = "preview" =>
        /\ outcome[seq].result = "passed" /\ outcome[seq].round = 2
        /\ seq > 1 /\ outcome[seq - 1].result = "passed" /\ outcome[seq - 1].round = 1
        /\ outcome[seq].revision = latest /\ outcome[seq - 1].revision = latest

\* The request by which vote s is resolved in this step.
ResolvedBy(r, s) ==
    outcome[s] = NoOutcome /\ outcome'[s] # NoOutcome /\ req'[r] # req[r]

\* Who asked for the resolution of one vote never resolves another that was started
\* since, be it a person with an old form or a task (resolve, auto_resolve).
IntendedVote ==
    [][\A r \in Request, s \in VoteSeq : ResolvedBy(r, s) => req[r].expected \in {0, s}]_vars

\* A second round replies to the thread of its own first round, if the request that
\* started it named the vote it meant (resolve reads the thread before the lock).
RepliesToFirstRound ==
    [][\A r \in Request, s \in VoteSeq :
        ResolvedBy(r, s) /\ req[r].expected # 0 /\ phase' = "candidate" => thread' = s]_vars

\* "Writer rejects Passed when the end of the vote has not been reached"
\* (tests/unit/test_vote_resolution.py): a vote that passes was announced first and
\* so has an end, unless the security team passed it.  It does not hold: a second
\* round may pass at once on carried ballots, since the end of a vote that is still
\* to be announced is not asked for (_resolve_trusted).
PassedOnceAnnounced ==
    \A s \in VoteSeq :
        outcome[s].result = "passed" /\ ~outcome[s].override => task[s].st = "done"

\* How far that goes: a vote passes before it is announced only as a second round in
\* which nobody has voted, so on the ballots of its first round alone; and nobody votes
\* in it until it is announced after all (_resolve_trusted and resolve against
\* cast_trusted, start(promote=False) and the announcement's retries).
PassedOnCarried ==
    \A s \in VoteSeq :
        outcome[s].result = "passed" /\ ~outcome[s].override /\ task[s].st # "done" =>
            outcome[s].round = 2 /\ BallotsOf(s) = {}

\* Once a vote is resolved its outcome stands, whoever else was about to resolve it
\* and whatever is retried (_resolve_transition).
OutcomesStand ==
    [][\A s \in VoteSeq : outcome[s] # NoOutcome => outcome'[s] = outcome[s]]_vars

=============================================================================
