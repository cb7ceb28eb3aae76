--------------------------- MODULE RollingUpdate ---------------------------
(***************************************************************************)
(* What an ordered rolling update promises, without its controller: the    *)
(* replicas are taken down one after the other, from the highest ordinal   *)
(* to the partition, each only when all above it are back with the new     *)
(* template.  AppProperties states that the App controller implements it.  *)
(***************************************************************************)
EXTENDS Integers

CONSTANTS N,          \* the number of replicas
          Partition   \* ordinals below it are left alone

VARIABLE stage   \* of each replica: "old", "down" or "new"

Replica == 0 .. (N - 1)

TypeOK == stage \in [Replica -> {"old", "down", "new"}]

Init == stage = [i \in Replica |-> "old"]

TakeDown(i) ==
    /\ stage[i] = "old"
    /\ i >= Partition
    /\ \A j \in Replica : j > i => stage[j] = "new"
    /\ stage' = [stage EXCEPT ![i] = "down"]

BringUp(i) ==
    /\ stage[i] = "down"
    /\ stage' = [stage EXCEPT ![i] = "new"]

Next == \E i \in Replica : TakeDown(i) \/ BringUp(i)

Spec == Init /\ [][Next]_stage
=============================================================================
