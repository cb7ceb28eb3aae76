--------------------------- MODULE GangScheduler ---------------------------
(***************************************************************************)
(* The gang scheduling plugin of unicore-scheduler: QueueSort (Less),      *)
(* PreFilter, Permit and Unreserve of GangScheduler and its CleanUp loop,  *)
(* inside the kube-scheduler framework that calls them.                    *)
(*                                                                         *)
(* The framework runs one scheduling cycle at a time (pop, PreFilter,      *)
(* Filter, Permit) and then one binding cycle per Pod, concurrently        *)
(* (WaitOnPermit, Bind, and Unreserve when either fails).  The plugin's    *)
(* maps are shared by all of them.  Permit reads them step by step before  *)
(* it takes the lock, so a binding cycle may come between its reads.       *)
(*                                                                         *)
(* A Pod is <<gang, i>>, so it keeps its name when it is recreated, as the *)
(* keys of permittedGangPods do.  Gangs are numbered in the order of their *)
(* names; gang 0 is "no gang label".  Pods beyond Counted carry the gang's *)
(* name but no available-count label.                                      *)
(***************************************************************************)
EXTENDS Naturals, FiniteSets

CONSTANTS
    NumGangs, Size,  \* the gangs 1 .. NumGangs, with Size Pods each
    Plain,           \* how many Pods carry no gang label
    Counted,         \* the Pods 1 .. Counted of a gang carry the count label
    Need,            \* the value of that label
    Slots,           \* how many Pods fit on the nodes
    MaxTime,         \* bound: creation timestamps
    MaxFaults        \* bound: Pods deleted, bindings failed, restarts

ASSUME GangAssumption ==
    /\ {NumGangs, Size, Plain, Counted, Need, Slots, MaxFaults} \subseteq Nat
    /\ MaxTime \in Nat \ {0}

Gangs == 1 .. NumGangs
Pods  == (Gangs \X (1 .. Size)) \cup ({0} \X (1 .. Plain))
NoPod == <<0, 0>>

GangOf(p)   == p[1]
InGang(p)   == p[1] \in Gangs
HasCount(p) == InGang(p) /\ p[2] \in 1 .. Counted
Members(g)  == {p \in Pods : GangOf(p) = g}

VARIABLES
    pods,        \* the Pods on the API server
    lister,      \* the phase of every Pod in the scheduler's informer cache
    where,       \* how far each Pod is in the framework
    cycle,       \* the scheduling cycle in progress
    firstCreatedAt, firstPermittedAt,   \* per gang, 0 when there is no entry
    permitted,   \* permittedGangPods, the Pods by name
    rejected,    \* the keys of rejectedGangs
    admitted,    \* history: the Pods ever let through Permit, per gang
    refused,     \* history: the gangs that were ever refused
    faults       \* what is left of the bound

vars == <<pods, lister, where, cycle, firstCreatedAt, firstPermittedAt,
          permitted, rejected, admitted, refused, faults>>
plugin == <<firstCreatedAt, firstPermittedAt, permitted, rejected>>
ghost  == <<admitted, refused>>

Phases == {"absent", "pending", "running"}
Places == {"out", "queued", "unschedulable", "cycle", "waiting", "allowed",
           "denied", "binding", "unreserve"}
Idle   == [pod |-> NoPod, pc |-> "idle", running |-> {}, waiting |-> 0]

\* Types; a Pod without gang label never makes it into the plugin's maps.
TypeOK ==
    /\ pods \in [Pods -> [phase : Phases, bound : BOOLEAN, created : Nat]]
    /\ lister \in [Pods -> Phases]
    /\ where \in [Pods -> Places]
    /\ cycle \in [pod : Pods \cup {NoPod}, running : SUBSET Pods, waiting : Nat,
                  pc : {"start", "idle", "prefilter", "permit", "count", "act"}]
    /\ firstCreatedAt \in [Gangs -> Nat]
    /\ firstPermittedAt \in [Gangs -> Nat]
    /\ permitted \in [Gangs -> SUBSET Pods]
    /\ rejected \in SUBSET Gangs
    /\ admitted \in [Gangs -> SUBSET Pods]
    /\ refused \in SUBSET Gangs
    /\ faults \in Nat

Init ==
    /\ \E age \in [Pods -> 1 .. MaxTime] :
          pods = [p \in Pods |-> [phase |-> "pending", bound |-> FALSE, created |-> age[p]]]
    /\ lister = [p \in Pods |-> "absent"]
    /\ where = [p \in Pods |-> "out"]
    /\ cycle = Idle
    /\ firstCreatedAt = [g \in Gangs |-> 0]
    /\ firstPermittedAt = [g \in Gangs |-> 0]
    /\ permitted = [g \in Gangs |-> {}]
    /\ rejected = {}
    /\ admitted = [g \in Gangs |-> {}]
    /\ refused = {}
    /\ faults = MaxFaults

Fault == faults > 0 /\ faults' = faults - 1

(***************************************************************************)
(* The cluster: users create and delete Pods, the kubelet starts them.     *)
(***************************************************************************)
Create(p) ==
    /\ pods[p].phase = "absent" /\ lister[p] = "absent" /\ where[p] = "out"
    /\ pods' = [pods EXCEPT ![p] =
                   [phase |-> "pending", bound |-> FALSE, created |-> MaxTime]]
    /\ UNCHANGED <<lister, where, cycle, plugin, ghost, faults>>

Delete(p) ==
    /\ pods[p].phase # "absent"
    /\ Fault
    /\ pods' = [pods EXCEPT ![p] = [@ EXCEPT !.phase = "absent"]]
    /\ UNCHANGED <<lister, where, cycle, plugin, ghost>>

Start(p) ==
    /\ pods[p].phase = "pending" /\ pods[p].bound
    /\ pods' = [pods EXCEPT ![p] = [@ EXCEPT !.phase = "running"]]
    /\ UNCHANGED <<lister, where, cycle, plugin, ghost, faults>>

(***************************************************************************)
(* Less: a gang is as old as the first of its Pods that was ever compared, *)
(* and gangs of one age are in the order of their names.                   *)
(***************************************************************************)
Queued == {p \in Pods : where[p] = "queued"}

Age(p) == IF InGang(p) /\ firstCreatedAt[GangOf(p)] # 0
          THEN firstCreatedAt[GangOf(p)] ELSE pods[p].created

Less(p, q) ==
    IF Age(p) = Age(q) /\ InGang(p) /\ InGang(q)
    THEN GangOf(p) < GangOf(q)
    ELSE Age(p) < Age(q)

\* What comparing a Pod that enters the queue with those in it stores.
Compared(p) ==
    LET seen(g)  == {q \in Queued : GangOf(q) = g}
        first(g) == IF GangOf(p) = g THEN p ELSE CHOOSE q \in seen(g) : TRUE
    IN  [g \in Gangs |->
           IF \/ firstCreatedAt[g] # 0 \/ Queued \ {p} = {}
              \/ seen(g) = {} /\ GangOf(p) # g
           THEN firstCreatedAt[g]
           ELSE pods[first(g)].created]

(***************************************************************************)
(* The informer tells the plugin's lister and the scheduling queue.  A Pod *)
(* that is deleted while it waits in Permit is denied by the framework.    *)
(***************************************************************************)
Sync(p) ==
    /\ lister[p] # pods[p].phase
    /\ lister' = [lister EXCEPT ![p] = pods[p].phase]
    /\ LET fresh == where[p] = "out" /\ pods[p].phase = "pending" /\ ~pods[p].bound
           gone  == pods[p].phase = "absent"
       IN  /\ where' = [where EXCEPT ![p] =
                 CASE fresh -> "queued"
                   [] gone /\ @ \in {"queued", "unschedulable"} -> "out"
                   [] gone /\ @ = "waiting" -> "denied"
                   [] OTHER -> @]
           /\ firstCreatedAt' = IF fresh THEN Compared(p) ELSE firstCreatedAt
    /\ UNCHANGED <<pods, cycle, firstPermittedAt, permitted, rejected, ghost,
                   faults>>

\* A Pod that could not be placed is tried again.
Requeue(p) ==
    /\ where[p] = "unschedulable"
    /\ where' = [where EXCEPT ![p] = "queued"]
    /\ firstCreatedAt' = Compared(p)
    /\ UNCHANGED <<pods, lister, cycle, firstPermittedAt, permitted, rejected,
                   ghost, faults>>

(***************************************************************************)
(* The scheduling cycle.                                                   *)
(***************************************************************************)
Pop(p) ==
    /\ cycle.pc = "idle"
    /\ p \in Queued /\ \A q \in Queued : ~Less(q, p)
    /\ where' = [where EXCEPT ![p] = "cycle"]
    /\ cycle' = [Idle EXCEPT !.pod = p, !.pc = "prefilter"]
    /\ UNCHANGED <<pods, lister, plugin, ghost, faults>>

\* The end of a cycle: the Pod goes on to `place'.
Leave(place) ==
    /\ where' = [where EXCEPT ![cycle.pod] = place]
    /\ cycle' = Idle

\* getRunningAndPendingPodsInGang
ListedAs(g, phase) == {p \in Members(g) : lister[p] = phase}

\* Mutated form: the pending Pods are not counted.
PreFilterPassesRunning(p) ==
    \/ ~HasCount(p)
    \/ /\ GangOf(p) \notin rejected
       /\ Cardinality(ListedAs(GangOf(p), "running")) >= Need

PreFilterPasses(p) ==
    \/ ~HasCount(p)
    \/ /\ GangOf(p) \notin rejected
       /\ Cardinality(ListedAs(GangOf(p), "running")
                      \cup ListedAs(GangOf(p), "pending")) >= Need

\* The Pods that take up room: placed ones, and those assumed to be.
Assumed == {p \in Pods : \/ pods[p].phase # "absent" /\ pods[p].bound
                         \/ where[p] \in {"waiting", "allowed", "denied",
                                          "binding", "unreserve"}}

PreFilter ==
    /\ cycle.pc = "prefilter"
    /\ IF PreFilterPasses(cycle.pod) /\ Cardinality(Assumed) < Slots
       THEN cycle' = [cycle EXCEPT !.pc = "permit"] /\ UNCHANGED where
       ELSE Leave(IF lister[cycle.pod] = "absent" THEN "out" ELSE "unschedulable")
    /\ UNCHANGED <<pods, lister, plugin, ghost, faults>>

\* Permit, the checks: not a gang's Pod, or a rejected gang, or go on and
\* list the running Pods.
PermitCheck ==
    /\ cycle.pc = "permit"
    /\ LET p == cycle.pod
           g == GangOf(p)
       IN  \/ /\ ~HasCount(p)
              /\ Leave("binding")
              /\ admitted' = [h \in Gangs |-> IF h = g THEN admitted[h] \cup {p}
                                              ELSE admitted[h]]
           \/ /\ HasCount(p) /\ g \in rejected
              /\ Leave("unreserve")
              /\ UNCHANGED admitted
           \/ /\ HasCount(p) /\ g \notin rejected
              /\ cycle' = [cycle EXCEPT !.pc = "count",
                                        !.running = ListedAs(g, "running")]
              /\ UNCHANGED <<where, admitted>>
    /\ UNCHANGED <<pods, lister, plugin, refused, faults>>

\* getWaitingPodsInGang: the framework drops a Pod from its waiting Pods only
\* when the Pod's binding cycle has received the verdict.
WaitingPods(g) == {p \in Members(g) : where[p] \in {"waiting", "allowed", "denied"}}

\* Mutated form: the Pod itself is counted twice.
EnoughPodsTwice(waiting, notRunning, running) ==
    waiting + notRunning + running + 2 >= Need

\* Permit, the count: too few, and the Pod waits (for at most a minute).
EnoughPods(waiting, notRunning, running) ==
    waiting + notRunning + running + 1 >= Need

PermitCount ==
    /\ cycle.pc = "count"
    /\ LET g          == GangOf(cycle.pod)
           waiting    == Cardinality(WaitingPods(g))
           notRunning == Cardinality(permitted[g] \ cycle.running)
       IN  IF EnoughPods(waiting, notRunning, Cardinality(cycle.running))
           THEN cycle' = [cycle EXCEPT !.pc = "act"] /\ UNCHANGED where
           ELSE Leave("waiting")
    /\ UNCHANGED <<pods, lister, plugin, ghost, faults>>

\* Mutated form: only the Pod itself is permitted.
ReleasedNone(g) == {}

\* Permit, the release, under the lock: allow every waiting Pod of the gang
\* and note it in permittedGangPods.  Allow does nothing to a Pod that has
\* its verdict, which is noted all the same.
Released(g) == WaitingPods(g)

PermitRelease ==
    /\ cycle.pc = "act"
    /\ LET p == cycle.pod
           g == GangOf(p)
           allow == {q \in Released(g) : where[q] = "waiting"}
       IN  /\ where' = [q \in Pods |-> CASE q = p       -> "binding"
                                         [] q \in allow -> "allowed"
                                         [] OTHER       -> where[q]]
           /\ permitted' = [permitted EXCEPT ![g] = @ \cup Released(g) \cup {p}]
           /\ admitted'  = [admitted EXCEPT ![g] = @ \cup allow \cup {p}]
    /\ cycle' = Idle
    /\ UNCHANGED <<pods, lister, firstCreatedAt, firstPermittedAt, rejected,
                   refused, faults>>

(***************************************************************************)
(* The binding cycles.                                                     *)
(***************************************************************************)
\* The minute Permit gave the Pod is over.
Timeout(p) ==
    /\ where[p] = "waiting"
    /\ where' = [where EXCEPT ![p] = "denied"]
    /\ UNCHANGED <<pods, lister, cycle, plugin, ghost, faults>>

WaitOnPermit(p) ==
    /\ where[p] \in {"allowed", "denied"}
    /\ where' = [where EXCEPT ![p] = IF @ = "allowed" THEN "binding" ELSE "unreserve"]
    /\ UNCHANGED <<pods, lister, cycle, plugin, ghost, faults>>

Bind(p) ==
    /\ where[p] = "binding"
    /\ \/ /\ pods[p].phase = "pending"
          /\ pods' = [pods EXCEPT ![p] = [@ EXCEPT !.bound = TRUE]]
          /\ where' = [where EXCEPT ![p] = "out"]
          /\ UNCHANGED faults
       \/ /\ IF pods[p].phase = "absent" THEN UNCHANGED faults ELSE Fault
          /\ where' = [where EXCEPT ![p] = "unreserve"]
          /\ UNCHANGED pods
    /\ UNCHANGED <<lister, cycle, plugin, ghost>>

\* Mutated form: a Pod without gang label is not left out.
GangsOfAny(p) == {GangOf(p)}

GangsOf(p) == {GangOf(p)} \cap Gangs

\* Reject the whole gang, whichever of its Pods failed, and put this one back.
Unreserve(p) ==
    /\ where[p] = "unreserve"
    /\ LET deny == {q \in Pods : GangOf(q) \in GangsOf(p) /\ where[q] = "waiting"}
       IN  where' = [q \in Pods |->
                CASE q = p -> IF lister[p] = "absent" THEN "out" ELSE "unschedulable"
                  [] q \in deny -> "denied"
                  [] OTHER -> where[q]]
    /\ rejected' = rejected \cup GangsOf(p)
    /\ refused'  = refused \cup GangsOf(p)
    /\ UNCHANGED <<pods, lister, cycle, firstCreatedAt, firstPermittedAt, permitted,
                   admitted, faults>>

(***************************************************************************)
(* The CleanUp loop forgets the gangs whose permit date lies too far back. *)
(* No code stores a date in firstGangPodPermittedAt.                       *)
(***************************************************************************)
CleanUp == \E old \in SUBSET {g \in Gangs : firstPermittedAt[g] # 0} :
    /\ firstPermittedAt' = [g \in Gangs |-> IF g \in old THEN 0 ELSE firstPermittedAt[g]]
    /\ firstCreatedAt'   = [g \in Gangs |-> IF g \in old THEN 0 ELSE firstCreatedAt[g]]
    /\ permitted'        = [g \in Gangs |-> IF g \in old THEN {} ELSE permitted[g]]
    /\ rejected'         = rejected \ old
    /\ UNCHANGED <<pods, lister, where, cycle, ghost, faults>>

\* The scheduler restarts: the plugin's maps, the queue, the verdicts and
\* the informer's cache are lost, and no cycle starts before the cache is
\* full again.
Restart ==
    /\ Fault
    /\ lister' = [p \in Pods |-> "absent"]
    /\ where' = [p \in Pods |-> "out"]
    /\ cycle' = [Idle EXCEPT !.pc = "start"]
    /\ firstCreatedAt' = [g \in Gangs |-> 0]
    /\ firstPermittedAt' = [g \in Gangs |-> 0]
    /\ permitted' = [g \in Gangs |-> {}]
    /\ rejected' = {}
    /\ refused' = refused \cup {g \in Gangs : \E p \in Members(g) :
                                   where[p] \in {"denied", "unreserve"}}
    /\ UNCHANGED <<pods, admitted>>

CacheSynced ==
    /\ cycle.pc = "start"
    /\ \A p \in Pods : lister[p] = pods[p].phase
    /\ cycle' = Idle
    /\ UNCHANGED <<pods, lister, where, plugin, ghost, faults>>

Next ==
    \/ \E p \in Pods :
          \/ Create(p) \/ Delete(p) \/ Start(p) \/ Sync(p) \/ Requeue(p) \/ Pop(p)
          \/ Timeout(p) \/ WaitOnPermit(p) \/ Bind(p) \/ Unreserve(p)
    \/ PreFilter \/ PermitCheck \/ PermitCount \/ PermitRelease
    \/ CleanUp \/ Restart \/ CacheSynced

Spec == Init /\ [][Next]_vars

\* The framework's goroutines, the informer and CleanUp run on.  Backoff
\* keeps the Pods that fail over and over from filling the active queue: it
\* runs empty again and again.
Fairness ==
    /\ \A p \in Pods : /\ WF_vars(Sync(p)) /\ WF_vars(Requeue(p)) /\ WF_vars(Timeout(p))
                       /\ WF_vars(WaitOnPermit(p)) /\ WF_vars(Bind(p))
                       /\ WF_vars(Unreserve(p))
    /\ WF_vars(\E p \in Pods : Pop(p))
    /\ WF_vars(PreFilter) /\ WF_vars(PermitCheck)
    /\ WF_vars(PermitCount) /\ WF_vars(PermitRelease)
    /\ WF_vars(CleanUp) /\ WF_vars(CacheSynced)
    /\ []<>(Queued = {})

FairSpec == Spec /\ Fairness

(***************************************************************************)
(* Properties.                                                             *)
(***************************************************************************)
\* All or nothing, up to what the code does about a gang that breaks: once
\* one Pod that asks for Need members is let through, Need members were let
\* through, or the gang has been or is about to be rejected because one of
\* the members that were counted had left.  Permit counts before it locks,
\* and the Pods it counts may time out before it allows them.
AdmittedTogether ==
    \A g \in Gangs :
        (\E p \in admitted[g] : HasCount(p)) =>
            \/ Cardinality(admitted[g]) >= Need
            \/ g \in refused
            \/ \E p \in Members(g) : where[p] \in {"denied", "unreserve"}

\* Nobody waits beside enough others: the Pods of a gang that wait for a
\* verdict and those that have ever been permitted are together fewer than
\* the gang asks for.  The Pod that completes the gang releases all of them,
\* and no Pod starts to wait behind it.
NoCompleteGangWaits ==
    \A g \in Gangs :
        LET waiting == {p \in Members(g) : where[p] = "waiting"}
        IN  waiting # {} => Cardinality(waiting \cup permitted[g]) < Need

\* A gang whose Pods all exist does not hang between the queue and Permit:
\* as many of them as it asks for are placed, or the gang is rejected, or it
\* loses a Pod.  The wait in Permit, the retries and the release may not
\* leave it half way.
GangDecided ==
    \A g \in Gangs :
        (\A p \in Members(g) : pods[p].phase # "absent") ~>
            \/ Cardinality({p \in Members(g) : pods[p].bound}) >= Need
            \/ g \in rejected
            \/ \E p \in Members(g) : pods[p].phase = "absent"
=============================================================================
