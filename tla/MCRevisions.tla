---------------------------- MODULE MCRevisions ----------------------------
(* Everybody edits; and the same machinery, once the first, empty revision  *)
(* of the release is there and checked.                                     *)
EXTENDS Revisions

Edits == [r \in Request |-> {"edit"}]

StartedInit ==
    /\ phase = "draft" /\ voted = 0 /\ latest = 1
    /\ dir = [k \in Number |-> IF k = 1 THEN Empty ELSE NoDir]
    /\ known = [k \in Number |-> {}]
    /\ checks = [k \in Number |-> IF k = 1 THEN "done" ELSE "none"]
    /\ pc = [r \in Request |-> "idle"]
    /\ sub = [r \in Request |-> NoSub]
    /\ quar = [r \in Request |-> NoQuar]
    /\ task = [r \in Request |-> "none"]
    /\ worker = [r \in Request |-> NoWorker]
    /\ extracted = {}
    /\ starting = [v \in Voter |-> 0]

StartedSpec == StartedInit /\ [][Next]_vars
=============================================================================
