----------------------------- MODULE BallotBox -----------------------------
(***************************************************************************)
(* What a vote on a release promises to its voters.  A ballot box is       *)
(* opened, voters put in or replace their ballots, and it is closed once,  *)
(* on the ballots that are in it at that moment.  A podling needs two      *)
(* boxes in a row: the ballots of Incubator members are carried from the   *)
(* first to the second.  A box that was closed with approval stays as it   *)
(* is; one that was not is emptied.                                        *)
(***************************************************************************)
EXTENDS Naturals, FiniteSets

CONSTANTS Voter, Committee, Incubator, Choice, Needed, Overrider, NoBallot

VARIABLES
    podling,  \* two boxes are needed
    stage,    \* "closed", "first", "second" or "approved"
    counted,  \* the ballots are in this box, and not on a mailing list
    votes,    \* what each voter's ballot in the box says
    first     \* the ballots of the last first round in which anyone voted

vars == <<podling, stage, counted, votes, first>>

Empty == [v \in Voter |-> NoBallot]
Open == stage \in {"first", "second"}
Electorate == IF stage = "second" THEN Incubator ELSE Committee
Say(c) == Cardinality({v \in Electorate : votes[v] = c})
Carried(box) == [v \in Voter |-> IF v \in Incubator THEN box[v] ELSE NoBallot]

\* The box approves; its own ballots do, unless they are counted elsewhere or
\* the vote is overridden.
Approves ==
    \/ Say("yes") >= Needed /\ Say("yes") > Say("no")
    \/ ~counted
    \/ Overrider # {}

Init ==
    /\ podling \in BOOLEAN
    /\ stage = "closed" /\ counted = FALSE
    /\ votes = Empty /\ first = Empty

OpenBox ==
    /\ stage = "closed"
    /\ stage' = "first"
    /\ counted' \in BOOLEAN
    /\ UNCHANGED <<podling, votes, first>>

\* A ballot that says the same as the one before changes nothing.
Put(v, c) ==
    /\ votes' = [votes EXCEPT ![v] = c]
    /\ first' = IF podling /\ stage = "first" THEN votes' ELSE first
    /\ UNCHANGED <<podling, stage, counted>>

Advance ==
    /\ podling /\ stage = "first" /\ Approves
    /\ stage' = "second"
    /\ votes' = Carried(first)
    /\ UNCHANGED <<podling, counted, first>>

Approve ==
    /\ stage = IF podling THEN "second" ELSE "first"
    /\ Approves
    /\ stage' = "approved"
    /\ UNCHANGED <<podling, counted, votes, first>>

Reject ==
    /\ Open
    /\ stage' = "closed" /\ counted' = FALSE /\ votes' = Empty
    /\ UNCHANGED <<podling, first>>

Next ==
    \/ OpenBox \/ Advance \/ Approve \/ Reject
    \/ /\ Open /\ counted /\ votes' # votes
       /\ \E v \in Voter, c \in Choice : Put(v, c)

Spec == Init /\ [][Next]_vars
=============================================================================
