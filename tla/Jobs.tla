-------------------------------- MODULE Jobs --------------------------------
(***************************************************************************)
(* What a queue of tasks promises to those who queue them.  A job is begun *)
(* by one agent, while nobody else is at it, and is completed by that      *)
(* agent alone.  It is taken back only by the agent that is at it, or when *)
(* nobody is any more, and then is begun anew.  Others may declare it      *)
(* failed, even while an agent is still at it, which then works on for     *)
(* nothing.  Agents may stop at any time.                                  *)
(***************************************************************************)

CONSTANTS Job, Agent

VARIABLES
    status,  \* what is recorded of each job
    doers    \* the agents that are at it

vars == <<status, doers>>

Init ==
    /\ status = [j \in Job |-> "queued"]
    /\ doers = [j \in Job |-> {}]

Begin(j, a) ==
    /\ status[j] = "queued" /\ doers[j] = {}
    /\ \A k \in Job : a \notin doers[k]
    /\ status' = [status EXCEPT ![j] = "active"]
    /\ doers' = [doers EXCEPT ![j] = {a}]

\* By the one who is at it: with a verdict, or unfinished.
Deliver(j, a) ==
    /\ status[j] = "active" /\ doers[j] = {a}
    /\ \E st \in {"completed", "failed", "queued"} : status' = [status EXCEPT ![j] = st]
    /\ doers' = [doers EXCEPT ![j] = {}]

\* By others.
TakeBack(j) ==
    /\ status[j] = "active" /\ doers[j] = {}
    /\ status' = [status EXCEPT ![j] = "queued"]
    /\ UNCHANGED doers

Overrule(j) ==
    /\ status[j] = "active"
    /\ status' = [status EXCEPT ![j] = "failed"]
    /\ UNCHANGED doers

Stop(agents) ==
    /\ doers' = [j \in Job |-> doers[j] \ agents]
    /\ UNCHANGED status

Next ==
    \/ \E j \in Job : \/ \E a \in Agent : Begin(j, a) \/ Deliver(j, a)
                      \/ TakeBack(j) \/ Overrule(j)
    \/ \E agents \in SUBSET Agent : Stop(agents)

Spec == Init /\ [][Next]_vars
=============================================================================
