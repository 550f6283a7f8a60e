---------------------------- MODULE MCRecurring ----------------------------
(* Profiles for the model checker: tasks of each sort, with the faults that *)
(* their runs must survive and with those that may end them.                *)
EXTENDS Recurring

Survived == {"work", "die", "stop"}
Ending == {"queueing", "overrun", "stop"}

Profiles ==
    {[kinds |-> {"audit"}, faults |-> f, most |-> 2] : f \in {Survived, Ending \union {"die"}}} \union
    {[kinds |-> {"integrity", "metadata"}, faults |-> f, most |-> 1] : f \in {Survived, Ending}}

=============================================================================
