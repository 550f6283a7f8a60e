------------------------------ MODULE VotesBox -----------------------------
(***************************************************************************)
(* The votes of Votes are the ballot boxes of BallotBox.                   *)
(***************************************************************************)
EXTENDS Votes

CONSTANT NoBallot  \* "this voter has no ballot that counts"

ASSUME NoBallotAssumption == NoBallot \notin {"yes", "no", "abstain"}

\* What the ballots of a set say, voter by voter.
Saying(box) ==
    [v \in Voter |->
        LET own == {b \in box : b.voter = v}
        IN IF own = {} THEN NoBallot ELSE (CHOOSE b \in own : TRUE).choice]

\* What the release is to its voters.
Stage ==
    CASE phase = "draft" -> "closed"
      [] phase = "preview" -> "approved"
      [] OTHER -> IF Round = 2 THEN "second" ELSE "first"
Counted == phase # "draft" /\ mode = "trusted"
InBox == Saying(IF phase = "draft" THEN {} ELSE Effective(seq))
InFirst == Saying(BallotsOf(PreviousRoundOne(seq + 1)))

Box == INSTANCE BallotBox WITH
    stage <- Stage, counted <- Counted, votes <- InBox, first <- InFirst

\* Whatever is resolved by hand or by task, late, twice or on an old form, each box
\* is closed once, on its own ballots: those of its round and those of Incubator
\* members in the round before (cast_trusted, resolve, auto_resolve and
\* effective_trusted_ballots together).  This is Box!Spec; a step that leaves alone what
\* the boxes are made of is recognised as a stutter before they are worked out.
boxed == <<podling, phase, mode, seq, thread, ballots>>
ImplementsBallotBox == Box!Init /\ [][UNCHANGED boxed \/ Box!Next]_(Box!vars)
=============================================================================
