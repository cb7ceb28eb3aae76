------------------------------ MODULE PodPlan ------------------------------
(***************************************************************************)
(* The decisions of StateController.applyUpdate: given the App a reconcile *)
(* read from the lister and the Pods it claimed, which Pods are created,   *)
(* restarted, scaled down or replaced by the rolling update, and which     *)
(* status is reported.  Everything here is a pure function of that         *)
(* snapshot; AppController executes the resulting plan one API call at a   *)
(* time.                                                                   *)
(*                                                                         *)
(* Abstractions: PodUpdatePolicy is ReCreate, minReadySeconds is 0 (both   *)
(* are the defaults), every claimed Pod already matches its identity and   *)
(* claims, and PodSucceeded is folded into "Failed" (the code treats the   *)
(* two alike).                                                             *)
(***************************************************************************)
EXTENDS Integers, FiniteSets

CONSTANTS
    MaxReplicas,   \* bound: ordinals are 0 .. MaxReplicas-1
    Revs,          \* the pod templates, named by their ControllerRevision
    NoRev,         \* an empty revision name
    Policy,        \* spec.podManagementPolicy: "OrderedReady" or "Parallel"
    StrategyType   \* spec.updateStrategy.type: "RollingUpdate" or "OnDelete"

ASSUME PlanAssumption ==
    /\ MaxReplicas \in Nat \ {0}
    /\ NoRev \notin Revs
    /\ Policy \in {"OrderedReady", "Parallel"}
    /\ StrategyType \in {"RollingUpdate", "OnDelete"}

Ordinals == 0 .. (MaxReplicas - 1)

\* A Pod: its revision label, status.phase, the Status of its Ready condition
\* ("none" when it has no such condition) and whether a deletion timestamp is
\* set.  Phase "" is a Pod that is not on the server.
NoPod == [rev |-> NoRev, phase |-> "", cond |-> "none", del |-> FALSE]

Pod == [rev   : Revs,
        phase : {"Pending", "Running", "Failed"},
        cond  : {"none", "False", "True"},
        del   : BOOLEAN] \cup {NoPod}

Exists(p) == p.phase # ""

Status == [cur : Revs \cup {NoRev}, upd : Revs \cup {NoRev}, obs : Nat,
           replicas : Int, ready : Int, current : Int,
           updated : Int, updatedReady : Int]

NoStatus == [cur |-> NoRev, upd |-> NoRev, obs |-> 0, replicas |-> 0,
             ready |-> 0, current |-> 0, updated |-> 0, updatedReady |-> 0]

Plan == [make : SUBSET Ordinals, rev : [Ordinals -> Revs \cup {NoRev}],
         pvc : SUBSET Ordinals, restart : SUBSET Ordinals,
         cull : SUBSET Ordinals, roll : SUBSET Ordinals]

NoPlan == [make |-> {}, rev |-> [i \in Ordinals |-> NoRev], pvc |-> {},
           restart |-> {}, cull |-> {}, roll |-> {}]

(***************************************************************************)
(* Pod predicates                                                          *)
(***************************************************************************)
burstable == Policy = "Parallel"

\* The code looks for a condition of type Ready and never at its Status.
getPodReady(p) == p.cond # "none"

\* getPodAvailableAndNextCheckInterval with minReadySeconds = 0.
isAvailable(p) == p.phase = "Running" /\ getPodReady(p)

\* A Pod the main loop of applyUpdate passes over.
Good(p) == isAvailable(p) /\ ~p.del

(***************************************************************************)
(* The replica list                                                        *)
(***************************************************************************)
Slots(a) == {i \in Ordinals : i < a.replicas}

invalidPods(a, cache) == {i \in Ordinals \ Slots(a) : Exists(cache[i])}

\* Mutated form: the Pod at the partition is kept back too.
isCurrentRevisionExpectedOffByOne(a, upd, i, cache) ==
    StrategyType = "RollingUpdate" /\ i <= a.partition

\* Mutated form: with unorderedUpdate one Pod too many is kept back.
isCurrentRevisionExpectedAtMost(a, upd, i, cache) ==
    /\ StrategyType = "RollingUpdate"
    /\ IF a.unordered
       THEN Cardinality({j \in Slots(a) \ {i} :
                           IF Exists(cache[j]) THEN cache[j].rev # upd
                                               ELSE j < i}) <= a.partition
       ELSE i < a.partition

\* With unorderedUpdate the missing slots are filled in ascending order and
\* the first partition - (Pods not at the update revision) of them get the
\* current revision.
isCurrentRevisionExpected(a, upd, i, cache) ==
    /\ StrategyType = "RollingUpdate"
    /\ IF a.unordered
       THEN Cardinality({j \in Slots(a) \ {i} :
                           IF Exists(cache[j]) THEN cache[j].rev # upd
                                               ELSE j < i}) < a.partition
       ELSE i < a.partition

newVersionedPodForApp(a, cur, upd, i, cache) ==
    [NoPod EXCEPT !.rev = IF isCurrentRevisionExpected(a, upd, i, cache)
                          THEN cur ELSE upd]

\* The slice "replicas", extended to every ordinal.
replicaList(a, cur, upd, cache) ==
    [i \in Ordinals |-> IF Exists(cache[i]) THEN cache[i]
                        ELSE newVersionedPodForApp(a, cur, upd, i, cache)]

\* The Pod is counted by the loops that look for firstUnhealthyPod.
Unhealthy(a, R, cache) ==
    {i \in Slots(a) \cup invalidPods(a, cache) : ~getPodReady(R[i]) \/ R[i].del}

firstUnhealthy(a, R, cache, i) ==
    /\ i \in Unhealthy(a, R, cache)
    /\ \A j \in Unhealthy(a, R, cache) : i <= j

(***************************************************************************)
(* The main loop: slots are visited in ascending order up to the first one *)
(* that makes the loop break.                                              *)
(***************************************************************************)
Breaks(p) == ~Good(p) /\ (burstable => Exists(p))

visited(a, R) == {i \in Slots(a) : \A j \in Slots(a) : j < i => ~Breaks(R[j])}

\* Mutated form: a terminating Pod counts as available.
allAvailableTerminating(a, R) == \A i \in visited(a, R) : isAvailable(R[i])

allAvailable(a, R) ==
    \A i \in visited(a, R) :
        /\ R[i].phase = "Running"
        /\ ~burstable => Good(R[i])

(***************************************************************************)
(* Scaling down                                                            *)
(***************************************************************************)
culled(a, R, cache) ==
    LET inv == invalidPods(a, cache) IN
    IF burstable
    THEN {t \in inv : ~cache[t].del}
    ELSE {t \in inv : /\ \A j \in inv : j <= t
                      /\ ~cache[t].del
                      /\ getPodReady(cache[t]) \/ firstUnhealthy(a, R, cache, t)}

\* Without bursting the scale-down loop always leaves applyUpdate.
shouldExit(a, cache) == ~burstable /\ invalidPods(a, cache) # {}

(***************************************************************************)
(* The rolling update: the highest slot at or above the partition that is  *)
(* not terminating and is either outdated or has no Ready condition stops  *)
(* the loop; it is deleted when it is outdated.                            *)
(***************************************************************************)
\* Mutated forms: the partition is ignored; the lowest outdated Pod goes first.
rolledIgnoringPartition(a, R, upd) ==
    LET stops == {i \in Slots(a) : ~R[i].del /\ R[i].rev # upd}
    IN {t \in stops : \A j \in stops : j <= t}

rolledFromTheBottom(a, R, upd) ==
    LET stops == {i \in Slots(a) : i >= a.partition /\ ~R[i].del /\ R[i].rev # upd}
    IN {t \in stops : \A j \in stops : t <= j}

rolled(a, R, upd) ==
    LET stops == {i \in Slots(a) : /\ i >= a.partition
                                   /\ ~R[i].del
                                   /\ R[i].rev # upd \/ ~getPodReady(R[i])}
    IN {t \in stops : R[t].rev # upd /\ \A j \in stops : j <= t}

mayRoll(a) == StrategyType # "OnDelete" /\ ~a.deleting /\ ~a.paused

applyUpdate(a, cur, upd, cache) ==
    LET R == replicaList(a, cur, upd, cache)
        V == visited(a, R)
        ok == allAvailable(a, R)
        roll == ok /\ ~shouldExit(a, cache) /\ mayRoll(a)
        make == {i \in V : ~Exists(R[i])}
    IN [make    |-> make,
        rev     |-> [i \in Ordinals |-> IF i \in make THEN R[i].rev ELSE NoRev],
        pvc     |-> {i \in V : R[i].phase = "Pending"},
        restart |-> {i \in V : R[i].phase = "Failed" /\ ~R[i].del},
        cull    |-> IF ok THEN culled(a, R, cache) ELSE {},
        roll    |-> IF roll THEN rolled(a, R, upd) ELSE {}]

(***************************************************************************)
(* Status                                                                  *)
(***************************************************************************)
Count(cache, Sel(_)) == Cardinality({i \in Ordinals : Sel(cache[i])})

\* Mutated form: updatedReplicas counts Pods of any revision.
updateStatusAnyRevision(a, cur, upd, cache, passes) ==
    LET isReady(p) == p.phase = "Running" /\ getPodReady(p)
        live(p) == Exists(p) /\ ~p.del
    IN [cur          |-> cur,
        upd          |-> upd,
        obs          |-> a.gen,
        replicas     |-> Count(cache, Exists),
        ready        |-> Count(cache, isReady),
        current      |-> Count(cache, LAMBDA p : live(p) /\ p.rev = cur),
        updated      |-> Count(cache, live),
        updatedReady |-> passes * Count(cache, LAMBDA p : isReady(p) /\ p.rev = upd)]

\* calcReplicaStatus over every claimed Pod.  passes is the number of times
\* applyUpdate calls updateStatus on the same status: that function does not
\* reset updatedReadyReplicas, so each pass adds to it.
updateStatus(a, cur, upd, cache, passes) ==
    LET isReady(p) == p.phase = "Running" /\ getPodReady(p)
        counted(p, r) == Exists(p) /\ ~p.del /\ p.rev = r
    IN [cur          |-> cur,
        upd          |-> upd,
        obs          |-> a.gen,
        replicas     |-> Count(cache, Exists),
        ready        |-> Count(cache, isReady),
        current      |-> Count(cache, LAMBDA p : counted(p, cur)),
        updated      |-> Count(cache, LAMBDA p : counted(p, upd)),
        updatedReady |-> passes * Count(cache, LAMBDA p : isReady(p) /\ p.rev = upd)]

\* Mutated form: the completed status is built without observedGeneration.
completeRollingUpdateForgetting(s) ==
    IF s.updated = s.replicas /\ s.ready = s.replicas
    THEN [s EXCEPT !.current = s.updated, !.cur = s.upd, !.obs = 0]
    ELSE s

completeRollingUpdate(s) ==
    IF /\ StrategyType = "RollingUpdate"
       /\ s.updated = s.replicas
       /\ s.ready = s.replicas
    THEN [s EXCEPT !.current = s.updated, !.cur = s.upd]
    ELSE s

\* Mutated form: readyReplicas is not compared either.
statusConsistentNoReady(old, s) ==
    /\ s.obs <= old.obs
    /\ s.replicas = old.replicas
    /\ s.updated = old.updated
    /\ s.cur = old.cur
    /\ s.upd = old.upd

\* old is the status the reconcile read; updatedReady is not compared.
statusConsistent(old, s) ==
    /\ s.obs <= old.obs
    /\ s.replicas = old.replicas
    /\ s.current = old.current
    /\ s.ready = old.ready
    /\ s.updated = old.updated
    /\ s.cur = old.cur
    /\ s.upd = old.upd
=============================================================================
