---------------------------- MODULE RevisionLog ----------------------------
(***************************************************************************)
(* What the revision machinery promises to those who submit files: the     *)
(* revisions of a release are a log to which submissions are applied one   *)
(* at a time, each at most once, none while a vote holds the release.  A   *)
(* submission is a change of some of the paths; paths it keeps have        *)
(* whatever content the log ends with when it is applied.  It is applied   *)
(* as its author made it, or as it was restated or damaged while it        *)
(* waited: an accident may add to it the deletion of a file that its       *)
(* author left alone, and nothing else.                                    *)
(***************************************************************************)
EXTENDS Naturals, Sequences

CONSTANTS Request, Starter, Path, Content, Absent,
    Keep,    \* "this change leaves the path alone"
    Nothing  \* "this request has no submission under way"

VARIABLES
    log,     \* the trees of the revisions, the latest one last
    frozen,  \* the release is being voted on, or was and passed
    pending  \* the change that each request has under way

vars == <<log, frozen, pending>>

File == Content \union {Absent}
Tree == [Path -> File]
Change == [Path -> File \union {Keep}]

Empty == [x \in Path |-> Absent]
Last == IF log = <<>> THEN Empty ELSE log[Len(log)]
Outcome(change) == [x \in Path |-> IF change[x] = Keep THEN Last[x] ELSE change[x]]

Init ==
    /\ log = <<>>
    /\ frozen = FALSE
    /\ pending = [r \in Request |-> IF r = Starter THEN Empty ELSE Nothing]

Submit(r) ==
    /\ ~frozen /\ pending[r] = Nothing
    /\ \E change \in Change : pending' = [pending EXCEPT ![r] = change]
    /\ UNCHANGED <<log, frozen>>

\* The submission is now described by another change, which makes the same of
\* the latest revision.
Restate(r) ==
    /\ pending[r] # Nothing
    /\ \E change \in Change :
        /\ Outcome(change) = Outcome(pending[r])
        /\ pending' = [pending EXCEPT ![r] = change]
    /\ UNCHANGED <<log, frozen>>

\* The submission now also deletes one file of the latest revision that it left alone.
Damage(r) ==
    /\ pending[r] # Nothing
    /\ \E change \in Change, x \in Path :
        /\ pending[r][x] = Keep /\ Last[x] # Absent
        /\ Outcome(change) = [Outcome(pending[r]) EXCEPT ![x] = Absent]
        /\ pending' = [pending EXCEPT ![r] = change]
    /\ UNCHANGED <<log, frozen>>

Apply(r) ==
    /\ ~frozen /\ pending[r] # Nothing
    /\ log' = Append(log, Outcome(pending[r]))
    /\ pending' = [pending EXCEPT ![r] = Nothing]
    /\ UNCHANGED frozen

Withdraw(r) ==
    /\ pending' = [pending EXCEPT ![r] = Nothing]
    /\ UNCHANGED <<log, frozen>>

Freeze == log # <<>> /\ frozen' = TRUE /\ UNCHANGED <<log, pending>>
Thaw == frozen' = FALSE /\ UNCHANGED <<log, pending>>

Next ==
    \/ \E r \in Request : Submit(r) \/ Restate(r) \/ Damage(r) \/ Apply(r) \/ Withdraw(r)
    \/ Freeze \/ Thaw

Spec == Init /\ [][Next]_vars
=============================================================================
