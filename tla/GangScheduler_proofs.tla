------------------------ MODULE GangScheduler_proofs ------------------------
(***************************************************************************)
(* The gang scheduling plugin, for every number of gangs, Pods, counted    *)
(* Pods, required members, slots and faults: what its maps hold, that no   *)
(* complete gang waits, and that a gang is admitted together.              *)
(***************************************************************************)
EXTENDS GangScheduler, FiniteSetTheorems, TLAPS

-----------------------------------------------------------------------------
(***************************************************************************)
(* The invariant behind AdmittedTogether.                                  *)
(***************************************************************************)
LetThrough(p) == InGang(p) => p \in admitted[GangOf(p)]

\* The gang's first release is over.
Begun(g) == \E p \in admitted[g] : HasCount(p)

Broken(g) ==
    \/ g \in refused
    \/ \E p \in Members(g) : where[p] \in {"denied", "unreserve"}

InPermit(g) == {p \in Members(g) : where[p] = "waiting"}

\* A Pod that is bound, or that the lister shows as running, has left the
\* framework; so has been let through whatever has got past Permit.
PlacesInv ==
    \A p \in Pods :
        /\ pods[p].phase = "running" => pods[p].bound
        /\ pods[p].bound /\ pods[p].phase # "absent" => where[p] = "out" /\ LetThrough(p)
        /\ lister[p] = "running" => where[p] = "out" /\ LetThrough(p)
        /\ where[p] \in {"allowed", "binding"} => LetThrough(p)

\* Nothing is noted in permittedGangPods and no Pod is allowed before the first
\* release.
BegunInv ==
    \A g \in Gangs :
        permitted[g] # {} \/ (\E p \in Members(g) : where[p] = "allowed") => Begun(g)

\* The Pod of the cycle is in no other place; the Pods that were listed as
\* running have been let through before and wait nowhere.
CycleInv ==
    /\ cycle.pc \in {"prefilter", "permit", "count", "act"} =>
          cycle.pod \in Pods /\ where[cycle.pod] = "cycle"
    /\ cycle.pc \in {"count", "act"} => HasCount(cycle.pod)
    /\ cycle.pc = "count" =>
          \A p \in cycle.running : /\ p \in admitted[GangOf(cycle.pod)]
                                   /\ where[p] \in {"out", "queued"}

\* Who is about to release a gang for the first time has enough Pods, unless one
\* of them has left since it counted.
EnoughInv ==
    cycle.pc = "act" =>
        LET g == GangOf(cycle.pod)
        IN  \/ Begun(g)
            \/ Broken(g)
            \/ Cardinality(InPermit(g) \cup admitted[g] \cup {cycle.pod}) >= Need

GangInv == PlacesInv /\ BegunInv /\ CycleInv /\ EnoughInv /\ AdmittedTogether

-----------------------------------------------------------------------------
(***************************************************************************)
(* Type correctness                                                        *)
(***************************************************************************)
PodRecord == [phase : Phases, bound : BOOLEAN, created : Nat]

LEMMA MembersAre ==
    /\ NoPod \notin Pods
    /\ \A g : Members(g) \subseteq Pods
    /\ \A p \in Pods : InGang(p) => GangOf(p) \in Gangs /\ p \in Members(GangOf(p))
    /\ \A p : HasCount(p) => InGang(p)
  BY GangAssumption DEF Members, Pods, NoPod, InGang, GangOf, HasCount, Gangs

LEMMA ComparedType ==
    ASSUME TypeOK, NEW p \in Pods
    PROVE  Compared(p) \in [Gangs -> Nat]
<1> DEFINE seen(g) == {q \in Queued : GangOf(q) = g}
           first(g) == IF GangOf(p) = g THEN p ELSE CHOOSE q \in seen(g) : TRUE
<1>1. \A q \in Pods : pods[q].created \in Nat
  BY DEF TypeOK
<1>2. ASSUME NEW g \in Gangs, ~(seen(g) = {} /\ GangOf(p) # g)
      PROVE  first(g) \in Pods
  BY <1>2 DEF Queued
<1>3. ASSUME NEW g \in Gangs
      PROVE  Compared(p)[g] \in Nat
  <2>1. CASE \/ firstCreatedAt[g] # 0 \/ Queued \ {p} = {}
             \/ seen(g) = {} /\ GangOf(p) # g
    <3>1. Compared(p)[g] = firstCreatedAt[g]
      BY <2>1 DEF Compared
    <3> QED
      BY <3>1 DEF TypeOK
  <2>2. CASE ~(\/ firstCreatedAt[g] # 0 \/ Queued \ {p} = {}
               \/ seen(g) = {} /\ GangOf(p) # g)
    <3>1. Compared(p)[g] = pods[first(g)].created
      BY <2>2 DEF Compared
    <3> HIDE DEF first, seen
    <3>2. first(g) \in Pods
      BY <1>2, <2>2
    <3> QED
      BY <1>1, <3>1, <3>2
  <2> QED
    BY <2>1, <2>2
<1> QED
  BY <1>3 DEF Compared

LEMMA GangInitType == Init => TypeOK
<1> SUFFICES ASSUME Init PROVE TypeOK
  OBVIOUS
<1>1. pods \in [Pods -> PodRecord]
  <2>1. PICK age \in [Pods -> 1 .. MaxTime] :
            pods = [p \in Pods |-> [phase |-> "pending", bound |-> FALSE, created |-> age[p]]]
    BY DEF Init
  <2>2. \A p \in Pods : age[p] \in Nat
    BY GangAssumption
  <2> QED
    BY <2>1, <2>2 DEF PodRecord, Phases
<1>2. faults \in Nat
  BY GangAssumption DEF Init
<1> QED
  BY <1>1, <1>2 DEF Init, TypeOK, Idle, Phases, Places, PodRecord

\* The framework puts the Pod of the cycle somewhere and goes idle.
LEMMA LeaveType ==
    ASSUME TypeOK, NEW place \in Places, Leave(place)
    PROVE  where' \in [Pods -> Places] /\ cycle' = Idle /\
           cycle' \in [pod : Pods \cup {NoPod}, running : SUBSET Pods, waiting : Nat,
                       pc : {"start", "idle", "prefilter", "permit", "count", "act"}]
  BY DEF Leave, TypeOK, Idle

LEMMA GangNextType == TypeOK /\ [Next]_vars => TypeOK'
<1> SUFFICES ASSUME TypeOK, [Next]_vars PROVE TypeOK'
  OBVIOUS
<1> USE MembersAre DEF TypeOK, plugin, ghost
<1>1. ASSUME NEW p \in Pods, Create(p)
      PROVE  TypeOK'
  <2>1. [phase |-> "pending", bound |-> FALSE, created |-> MaxTime] \in PodRecord
    BY GangAssumption DEF PodRecord, Phases
  <2> QED
    BY <1>1, <2>1 DEF Create, PodRecord
<1>2. ASSUME NEW p \in Pods, Delete(p)
      PROVE  TypeOK'
  <2>1. [pods[p] EXCEPT !.phase = "absent"] \in PodRecord
    BY DEF PodRecord, Phases
  <2> QED
    BY <1>2, <2>1 DEF Delete, Fault, PodRecord
<1>3. ASSUME NEW p \in Pods, Start(p)
      PROVE  TypeOK'
  <2>1. [pods[p] EXCEPT !.phase = "running"] \in PodRecord
    BY DEF PodRecord, Phases
  <2> QED
    BY <1>3, <2>1 DEF Start, PodRecord
<1>4. ASSUME NEW p \in Pods, Sync(p)
      PROVE  TypeOK'
  <2>1. lister' \in [Pods -> Phases]
    BY <1>4 DEF Sync
  <2>2. where' \in [Pods -> Places]
    BY <1>4 DEF Sync, Places
  <2>3. firstCreatedAt' \in [Gangs -> Nat]
    BY <1>4, ComparedType DEF Sync
  <2> QED
    BY <1>4, <2>1, <2>2, <2>3 DEF Sync
<1>5. ASSUME NEW p \in Pods, Requeue(p)
      PROVE  TypeOK'
  <2>1. firstCreatedAt' \in [Gangs -> Nat]
    BY <1>5, ComparedType DEF Requeue
  <2> QED
    BY <1>5, <2>1 DEF Requeue, Places
<1>6. ASSUME NEW p \in Pods, Pop(p)
      PROVE  TypeOK'
  BY <1>6 DEF Pop, Places, Idle
<1>7. ASSUME NEW p \in Pods, Timeout(p) \/ WaitOnPermit(p)
      PROVE  TypeOK'
  BY <1>7 DEF Timeout, WaitOnPermit, Places
<1>8. ASSUME NEW p \in Pods, Bind(p)
      PROVE  TypeOK'
  <2>1. [pods[p] EXCEPT !.bound = TRUE] \in PodRecord
    <3>1. pods[p] \in PodRecord
      BY DEF PodRecord
    <3>2. \A r \in PodRecord : [r EXCEPT !.bound = TRUE] \in PodRecord
      BY DEF PodRecord
    <3> QED
      BY <3>1, <3>2
  <2>2. pods' \in [Pods -> PodRecord]
    <3>1. pods' = pods \/ pods' = [pods EXCEPT ![p] = [@ EXCEPT !.bound = TRUE]]
      BY <1>8 DEF Bind
    <3>2. pods \in [Pods -> PodRecord]
      BY DEF PodRecord
    <3> HIDE DEF TypeOK
    <3> QED
      BY <2>1, <3>1, <3>2
  <2>3. where' \in [Pods -> Places]
    BY <1>8 DEF Bind, Places
  <2>4. faults' \in Nat
    BY <1>8 DEF Bind, Fault
  <2> QED
    BY <1>8, <2>2, <2>3, <2>4 DEF Bind, PodRecord
<1>9. ASSUME NEW p \in Pods, Unreserve(p)
      PROVE  TypeOK'
  <2>1. where' \in [Pods -> Places]
    BY <1>9 DEF Unreserve, Places
  <2> QED
    BY <1>9, <2>1 DEF Unreserve, GangsOf
<1>10. CASE PreFilter
  <2>1. UNCHANGED <<pods, lister, plugin, ghost, faults>>
    BY <1>10 DEF PreFilter
  <2>2. CASE cycle' = [cycle EXCEPT !.pc = "permit"] /\ UNCHANGED where
    BY <2>1, <2>2
  <2>3. CASE Leave("out") \/ Leave("unschedulable")
    <3>1. /\ where' \in [Pods -> Places]
          /\ cycle' \in [pod : Pods \cup {NoPod}, running : SUBSET Pods, waiting : Nat,
                         pc : {"start", "idle", "prefilter", "permit", "count", "act"}]
      BY <2>3, LeaveType DEF Places
    <3> QED
      BY <2>1, <3>1
  <2> QED
    BY <1>10, <2>2, <2>3 DEF PreFilter
<1>11. CASE PermitCheck
  <2>1. where' \in [Pods -> Places]
    BY <1>11, LeaveType DEF PermitCheck, Places
  <2>2. cycle' \in [pod : Pods \cup {NoPod}, running : SUBSET Pods, waiting : Nat,
                    pc : {"start", "idle", "prefilter", "permit", "count", "act"}]
    <3>1. ListedAs(GangOf(cycle.pod), "running") \subseteq Pods
      BY DEF ListedAs
    <3>2. CASE cycle' = [cycle EXCEPT !.pc = "count",
                                      !.running = ListedAs(GangOf(cycle.pod), "running")]
      BY <3>1, <3>2
    <3>3. CASE Leave("binding") \/ Leave("unreserve")
      BY <3>3, LeaveType DEF Places
    <3> QED
      BY <1>11, <3>2, <3>3 DEF PermitCheck
  <2>3. admitted' \in [Gangs -> SUBSET Pods]
    <3>1. HasCount(cycle.pod) \/ cycle.pod \in Pods \/ GangOf(cycle.pod) \notin Gangs
      BY DEF GangOf, NoPod, Gangs
    <3>2. ASSUME NEW g \in Gangs, GangOf(cycle.pod) = g
          PROVE  cycle.pod \in Pods
      BY <3>2 DEF GangOf, NoPod, Gangs
    <3> QED
      BY <1>11, <3>2 DEF PermitCheck
  <2> QED
    BY <1>11, <2>1, <2>2, <2>3 DEF PermitCheck
<1>12. CASE PermitCount
  <2>1. CASE Leave("waiting")
    BY <1>12, <2>1, LeaveType DEF PermitCount, Places
  <2>2. CASE cycle' = [cycle EXCEPT !.pc = "act"] /\ UNCHANGED where
    BY <1>12, <2>2 DEF PermitCount
  <2> QED
    BY <1>12, <2>1, <2>2 DEF PermitCount
<1>13. CASE PermitRelease
  <2>1. Released(GangOf(cycle.pod)) \subseteq Pods
    BY DEF Released, WaitingPods
  <2>2. GangOf(cycle.pod) \in Gangs => cycle.pod \in Pods
    BY DEF GangOf, NoPod, Gangs
  <2>3. where' \in [Pods -> Places]
    BY <1>13 DEF PermitRelease, Places
  <2>4. permitted' \in [Gangs -> SUBSET Pods] /\ admitted' \in [Gangs -> SUBSET Pods]
    BY <1>13, <2>1, <2>2 DEF PermitRelease
  <2> QED
    BY <1>13, <2>3, <2>4 DEF PermitRelease, Idle
<1>14. CASE CleanUp
  BY <1>14 DEF CleanUp
<1>15. CASE Restart
  BY <1>15 DEF Restart, Fault, Idle, Phases, Places
<1>16. CASE CacheSynced
  BY <1>16 DEF CacheSynced, Idle
<1>17. CASE UNCHANGED vars
  BY <1>17 DEF vars
<1> QED
  BY <1>1, <1>2, <1>3, <1>4, <1>5, <1>6, <1>7, <1>8, <1>9, <1>10, <1>11, <1>12,
     <1>13, <1>14, <1>15, <1>16, <1>17 DEF Next

\* What the plugin's maps, the framework and the cluster hold has its type; in
\* particular a Pod without gang label makes it into none of the plugin's maps.
THEOREM GangTypeCorrect == Spec => []TypeOK
  BY GangInitType, GangNextType, PTL DEF Spec

-----------------------------------------------------------------------------
(***************************************************************************)
(* Counting Pods                                                           *)
(***************************************************************************)
LEMMA PodsFinite == IsFiniteSet(Pods)
<1>1. IsFiniteSet(Gangs) /\ IsFiniteSet(1 .. Size) /\ IsFiniteSet(1 .. Plain)
  BY GangAssumption, FS_Interval DEF Gangs
<1>2. IsFiniteSet({0})
  BY FS_Singleton
<1>3. IsFiniteSet(Gangs \X (1 .. Size)) /\ IsFiniteSet({0} \X (1 .. Plain))
  BY <1>1, <1>2, FS_Product
<1> QED
  BY <1>3, FS_Union DEF Pods

LEMMA CountOf ==
    ASSUME NEW S \in SUBSET Pods
    PROVE  IsFiniteSet(S) /\ Cardinality(S) \in Nat
  BY PodsFinite, FS_Subset, FS_CardinalityType

LEMMA CountMonotone ==
    ASSUME NEW T \in SUBSET Pods, NEW S \in SUBSET T
    PROVE  Cardinality(S) <= Cardinality(T)
  BY CountOf, FS_Subset

LEMMA CountUnion ==
    ASSUME NEW S \in SUBSET Pods, NEW T \in SUBSET Pods
    PROVE  /\ Cardinality(S \cup T) <= Cardinality(S) + Cardinality(T)
           /\ S \cap T = {} => Cardinality(S \cup T) = Cardinality(S) + Cardinality(T)
<1>1. IsFiniteSet(S) /\ IsFiniteSet(T) /\ Cardinality(S) \in Nat /\ Cardinality(T) \in Nat
  BY CountOf
<1>2. Cardinality(S \cup T) = Cardinality(S) + Cardinality(T) - Cardinality(S \cap T)
  BY <1>1, FS_Union
<1>3. Cardinality(S \cap T) \in Nat
  <2>1. S \cap T \in SUBSET Pods
    OBVIOUS
  <2> QED
    BY <2>1, CountOf
<1>4. S \cap T = {} => Cardinality(S \cap T) = 0
  BY FS_EmptySet
<1> QED
  BY <1>1, <1>2, <1>3, <1>4

LEMMA CountPod ==
    ASSUME NEW p \in Pods
    PROVE  Cardinality({p}) = 1
  BY FS_Singleton

\* The Pods that Permit counts are, with the one it is called for, at least as
\* many as there are.
LEMMA CountedPods ==
    ASSUME TypeOK, NEW g \in Gangs, NEW W \in SUBSET WaitingPods(g), NEW p \in Pods
    PROVE  Cardinality(W \cup {p} \cup permitted[g])
               <= Cardinality(WaitingPods(g)) + Cardinality(permitted[g] \ cycle.running)
                  + Cardinality(cycle.running) + 1
<1> DEFINE A == WaitingPods(g)
           B == permitted[g] \ cycle.running
           C == cycle.running
<1>1. A \in SUBSET Pods /\ B \in SUBSET Pods /\ C \in SUBSET Pods /\ {p} \in SUBSET Pods
  BY MembersAre DEF WaitingPods, TypeOK
<1>2. W \cup {p} \cup permitted[g] \subseteq A \cup B \cup C \cup {p}
  OBVIOUS
<1> HIDE DEF A, B, C
<1>3. Cardinality(A \cup B) <= Cardinality(A) + Cardinality(B) /\ A \cup B \in SUBSET Pods
  BY <1>1, CountUnion
<1>4. /\ Cardinality(A \cup B \cup C) <= Cardinality(A \cup B) + Cardinality(C)
      /\ A \cup B \cup C \in SUBSET Pods
  BY <1>1, <1>3, CountUnion
<1>5. /\ Cardinality(A \cup B \cup C \cup {p}) <= Cardinality(A \cup B \cup C) + 1
      /\ A \cup B \cup C \cup {p} \in SUBSET Pods
  BY <1>1, <1>4, CountUnion, CountPod
<1>6. Cardinality(W \cup {p} \cup permitted[g]) <= Cardinality(A \cup B \cup C \cup {p})
  BY <1>2, <1>5, CountMonotone
<1>7. /\ Cardinality(A) \in Nat /\ Cardinality(B) \in Nat /\ Cardinality(C) \in Nat
      /\ Cardinality(A \cup B) \in Nat /\ Cardinality(A \cup B \cup C) \in Nat
      /\ Cardinality(A \cup B \cup C \cup {p}) \in Nat
      /\ Cardinality(W \cup {p} \cup permitted[g]) \in Nat
  <2>1. W \cup {p} \cup permitted[g] \in SUBSET Pods
    BY <1>2, <1>5
  <2> QED
    BY <1>1, <1>3, <1>4, <1>5, <2>1, CountOf
<1> QED
  BY <1>3, <1>4, <1>5, <1>6, <1>7 DEF A, B, C

-----------------------------------------------------------------------------
(***************************************************************************)
(* Nobody waits beside enough others.                                      *)
(***************************************************************************)
Crowd(g) == InPermit(g) \cup permitted[g]

LEMMA CrowdShrinks ==
    ASSUME TypeOK, NoCompleteGangWaits,
           \A g \in Gangs : InPermit(g)' \subseteq InPermit(g)
                              /\ permitted'[g] \subseteq permitted[g]
    PROVE  NoCompleteGangWaits'
<1> SUFFICES ASSUME NEW g \in Gangs, InPermit(g)' # {}
             PROVE  Cardinality(InPermit(g)' \cup permitted'[g]) < Need
  BY DEF NoCompleteGangWaits, InPermit, Members
<1>1. InPermit(g) # {} /\ Cardinality(Crowd(g)) < Need
  BY DEF NoCompleteGangWaits, InPermit, Crowd
<1>2. Crowd(g) \in SUBSET Pods
  BY MembersAre DEF Crowd, InPermit, TypeOK
<1>3. InPermit(g)' \cup permitted'[g] \in SUBSET Crowd(g)
  BY DEF Crowd
<1>4. Cardinality(InPermit(g)' \cup permitted'[g]) <= Cardinality(Crowd(g))
  BY <1>2, <1>3, CountMonotone
<1>5. Cardinality(InPermit(g)' \cup permitted'[g]) \in Nat /\ Cardinality(Crowd(g)) \in Nat
  <2>1. InPermit(g)' \cup permitted'[g] \in SUBSET Pods
    BY <1>2, <1>3
  <2> QED
    BY <1>2, <2>1, CountOf
<1> QED
  BY <1>1, <1>4, <1>5, GangAssumption

\* The steps by which no Pod starts to wait in Permit.
LEMMA NobodyStartsWaiting ==
    ASSUME TypeOK, [Next]_vars, ~PermitCount
    PROVE  \A g \in Gangs : InPermit(g)' \subseteq InPermit(g)
<1> SUFFICES ASSUME NEW p \in Pods, where'[p] = "waiting"
             PROVE  where[p] = "waiting"
  BY MembersAre DEF InPermit, Members
<1> USE DEF TypeOK
<1>1. CASE UNCHANGED where
  BY <1>1
<1>2. ASSUME NEW q \in Pods,
             \/ Create(q) \/ Delete(q) \/ Start(q) \/ Requeue(q) \/ Pop(q)
             \/ Timeout(q) \/ WaitOnPermit(q) \/ Bind(q)
      PROVE  where[p] = "waiting"
  BY <1>2 DEF Create, Delete, Start, Requeue, Pop, Timeout, WaitOnPermit, Bind
<1>3. ASSUME NEW q \in Pods, Sync(q)
      PROVE  where[p] = "waiting"
  BY <1>3 DEF Sync
<1>4. ASSUME NEW q \in Pods, Unreserve(q)
      PROVE  where[p] = "waiting"
  BY <1>4 DEF Unreserve
<1>5. CASE PreFilter \/ PermitCheck
  BY <1>5 DEF PreFilter, PermitCheck, Leave
<1>6. CASE PermitRelease
  BY <1>6 DEF PermitRelease
<1>7. CASE CleanUp \/ CacheSynced
  BY <1>1, <1>7 DEF CleanUp, CacheSynced
<1>8. CASE Restart
  BY <1>8 DEF Restart
<1>9. CASE UNCHANGED vars
  BY <1>1, <1>9 DEF vars
<1> QED
  BY <1>2, <1>3, <1>4, <1>5, <1>6, <1>7, <1>8, <1>9 DEF Next

\* permittedGangPods grows only by a release.
LEMMA PermittedKept ==
    ASSUME TypeOK, [Next]_vars, ~PermitRelease
    PROVE  \A g \in Gangs : permitted'[g] \subseteq permitted[g]
<1> USE DEF TypeOK, plugin
<1>1. CASE UNCHANGED permitted
  BY <1>1
<1>2. CASE CleanUp \/ Restart
  BY <1>2 DEF CleanUp, Restart
<1>3. ASSUME NEW q \in Pods,
             \/ Create(q) \/ Delete(q) \/ Start(q) \/ Sync(q) \/ Requeue(q) \/ Pop(q)
             \/ Timeout(q) \/ WaitOnPermit(q) \/ Bind(q) \/ Unreserve(q)
      PROVE  UNCHANGED permitted
  BY <1>3 DEF Create, Delete, Start, Sync, Requeue, Pop, Timeout, WaitOnPermit, Bind,
              Unreserve
<1>4. CASE PreFilter \/ PermitCheck \/ PermitCount \/ CacheSynced
  BY <1>1, <1>4 DEF PreFilter, PermitCheck, PermitCount, CacheSynced
<1>5. CASE UNCHANGED vars
  BY <1>1, <1>5 DEF vars
<1> QED
  BY <1>1, <1>2, <1>3, <1>4, <1>5 DEF Next

LEMMA CrowdInit == Init => NoCompleteGangWaits
  BY MembersAre DEF Init, NoCompleteGangWaits, Members

LEMMA CrowdNext == TypeOK /\ NoCompleteGangWaits /\ [Next]_vars => NoCompleteGangWaits'
<1> SUFFICES ASSUME TypeOK, NoCompleteGangWaits, [Next]_vars
             PROVE  NoCompleteGangWaits'
  OBVIOUS
<1>1. CASE ~PermitCount /\ ~PermitRelease
  BY <1>1, NobodyStartsWaiting, PermittedKept, CrowdShrinks
<1>2. CASE PermitCount
  <2> PICK p, g : p = cycle.pod /\ g = GangOf(p)
    OBVIOUS
  <2>1. UNCHANGED permitted
    BY <1>2 DEF PermitCount, plugin
  <2>2. CASE UNCHANGED where
    BY <2>1, <2>2, CrowdShrinks DEF InPermit
  <2>3. CASE where' = [where EXCEPT ![p] = "waiting"] /\ p \in Pods /\ g \in Gangs
             /\ ~EnoughPods(Cardinality(WaitingPods(g)),
                            Cardinality(permitted[g] \ cycle.running),
                            Cardinality(cycle.running))
    <3>1. ASSUME NEW h \in Gangs, InPermit(h)' # {}
          PROVE  Cardinality(InPermit(h)' \cup permitted'[h]) < Need
      <4>1. CASE h # g
        <5>1. InPermit(h)' = InPermit(h)
          BY <2>3, <4>1 DEF InPermit, Members, TypeOK
        <5> QED
          BY <2>1, <3>1, <5>1 DEF NoCompleteGangWaits, InPermit
      <4>2. CASE h = g
        <5>1. InPermit(g) \in SUBSET WaitingPods(g)
          BY DEF InPermit, WaitingPods
        <5>2. InPermit(g)' \cup permitted'[g] = InPermit(g) \cup {p} \cup permitted[g]
          <6>1. \A q \in Pods : where'[q] = IF q = p THEN "waiting" ELSE where[q]
            BY <2>3 DEF TypeOK
          <6>2. p \in Members(g) /\ Members(g) \subseteq Pods /\ Members(g)' = Members(g)
            BY <2>3 DEF Members
          <6>3. InPermit(g)' = InPermit(g) \cup {p}
            BY <6>1, <6>2 DEF InPermit
          <6> QED
            BY <2>1, <6>3
        <5>3. Cardinality(InPermit(g)' \cup permitted'[g])
                  <= Cardinality(WaitingPods(g)) + Cardinality(permitted[g] \ cycle.running)
                     + Cardinality(cycle.running) + 1
          BY <2>3, <5>1, <5>2, CountedPods
        <5>4. /\ Cardinality(WaitingPods(g)) \in Nat
              /\ Cardinality(permitted[g] \ cycle.running) \in Nat
              /\ Cardinality(cycle.running) \in Nat
              /\ Cardinality(InPermit(g)' \cup permitted'[g]) \in Nat
          <6>1. /\ WaitingPods(g) \in SUBSET Pods
                /\ permitted[g] \ cycle.running \in SUBSET Pods
                /\ cycle.running \in SUBSET Pods
                /\ InPermit(g) \cup {p} \cup permitted[g] \in SUBSET Pods
            BY <2>3, MembersAre DEF WaitingPods, InPermit, TypeOK
          <6> QED
            BY <5>2, <6>1, CountOf
        <5>5. Cardinality(WaitingPods(g)) + Cardinality(permitted[g] \ cycle.running)
                + Cardinality(cycle.running) + 1 < Need
          BY <2>3, <5>4, GangAssumption DEF EnoughPods
        <5> QED
          BY <4>2, <5>3, <5>4, <5>5, GangAssumption
      <4> QED
        BY <4>1, <4>2
    <3> QED
      BY <3>1 DEF NoCompleteGangWaits, InPermit, Members
  <2>4. CASE where' = [where EXCEPT ![p] = "waiting"] /\ ~(p \in Pods /\ g \in Gangs)
    <3>1. \A h \in Gangs : InPermit(h)' \subseteq InPermit(h)
      <4>1. \A q \in Pods : GangOf(q) \in Gangs => where'[q] = where[q]
        BY <2>4 DEF TypeOK
      <4> QED
        BY <4>1, MembersAre DEF InPermit, Members
    <3> QED
      BY <2>1, <3>1, CrowdShrinks
  <2> QED
    BY <1>2, <2>2, <2>3, <2>4 DEF PermitCount, Leave
<1>3. CASE PermitRelease
  <2> PICK p, g : p = cycle.pod /\ g = GangOf(p)
    OBVIOUS
  <2>1. ASSUME NEW h \in Gangs, InPermit(h)' # {}
        PROVE  Cardinality(InPermit(h)' \cup permitted'[h]) < Need
    <3>1. h # g
      <4>1. ASSUME NEW q \in Members(g), q \in Pods
            PROVE  where'[q] # "waiting"
        <5>1. q = p => where'[q] \in {"binding", "allowed"}
          BY <1>3, <4>1 DEF PermitRelease
        <5>2. where[q] = "waiting" => q \in {r \in Released(g) : where[r] = "waiting"}
          BY <4>1 DEF Released, WaitingPods
        <5>3. q # p /\ where[q] = "waiting" => where'[q] = "allowed"
          BY <1>3, <4>1, <5>2 DEF PermitRelease
        <5>4. q # p /\ where[q] # "waiting" => where'[q] = where[q]
          BY <1>3, <4>1 DEF PermitRelease
        <5> QED
          BY <5>1, <5>3, <5>4
      <4> QED
        BY <2>1, <4>1, MembersAre DEF InPermit, Members
    <3>2. permitted'[h] = permitted[h]
      BY <1>3, <3>1 DEF PermitRelease, TypeOK
    <3>3. InPermit(h)' \in SUBSET InPermit(h) /\ InPermit(h) # {}
      BY <1>3, <2>1, NobodyStartsWaiting DEF PermitRelease, PermitCount
    <3>4. Cardinality(InPermit(h) \cup permitted[h]) < Need
      BY <3>3 DEF NoCompleteGangWaits, InPermit
    <3>5. InPermit(h) \cup permitted[h] \in SUBSET Pods
      BY MembersAre DEF InPermit, TypeOK
    <3>6. InPermit(h)' \cup permitted'[h] \in SUBSET (InPermit(h) \cup permitted[h])
      BY <3>2, <3>3
    <3>7. Cardinality(InPermit(h)' \cup permitted'[h])
            <= Cardinality(InPermit(h) \cup permitted[h])
      BY <3>5, <3>6, CountMonotone
    <3>8. /\ Cardinality(InPermit(h)' \cup permitted'[h]) \in Nat
          /\ Cardinality(InPermit(h) \cup permitted[h]) \in Nat
      <4>1. InPermit(h)' \cup permitted'[h] \in SUBSET Pods
        BY <3>5, <3>6
      <4> QED
        BY <3>5, <4>1, CountOf
    <3> QED
      BY <3>4, <3>7, <3>8, GangAssumption
  <2> QED
    BY <2>1 DEF NoCompleteGangWaits, InPermit, Members
<1> QED
  BY <1>1, <1>2, <1>3

\* No Pod of a gang waits for its verdict while as many of the gang as it asks
\* for wait or have been permitted: whatever the cluster, the informer, the
\* binding cycles and CleanUp do between the reads of Permit.
THEOREM NoGangLeftWaiting == Spec => []NoCompleteGangWaits
  BY GangInitType, GangNextType, CrowdInit, CrowdNext, PTL DEF Spec

-----------------------------------------------------------------------------
(***************************************************************************)
(* What never goes back: a Pod that was let through stays let through, and *)
(* a gang that broke stays broken.                                         *)
(***************************************************************************)
LEMMA AdmittedGrows ==
    ASSUME TypeOK, [Next]_vars
    PROVE  \A g \in Gangs : admitted[g] \subseteq admitted'[g]
<1> USE DEF TypeOK, ghost
<1>1. CASE UNCHANGED admitted
  BY <1>1
<1>2. ASSUME NEW q \in Pods,
             \/ Create(q) \/ Delete(q) \/ Start(q) \/ Sync(q) \/ Requeue(q) \/ Pop(q)
             \/ Timeout(q) \/ WaitOnPermit(q) \/ Bind(q) \/ Unreserve(q)
      PROVE  UNCHANGED admitted
  BY <1>2 DEF Create, Delete, Start, Sync, Requeue, Pop, Timeout, WaitOnPermit, Bind,
              Unreserve
<1>3. CASE PreFilter \/ PermitCount \/ CleanUp \/ Restart \/ CacheSynced
  BY <1>1, <1>3 DEF PreFilter, PermitCount, CleanUp, Restart, CacheSynced
<1>4. CASE PermitCheck
  BY <1>4 DEF PermitCheck
<1>5. CASE PermitRelease
  BY <1>5 DEF PermitRelease
<1>6. CASE UNCHANGED vars
  BY <1>1, <1>6 DEF vars
<1> QED
  BY <1>1, <1>2, <1>3, <1>4, <1>5, <1>6 DEF Next

LEMMA BegunStays ==
    ASSUME TypeOK, [Next]_vars, NEW g \in Gangs, Begun(g)
    PROVE  Begun(g)'
  BY AdmittedGrows DEF Begun

LEMMA LetThroughStays ==
    ASSUME TypeOK, [Next]_vars, NEW p \in Pods, LetThrough(p)
    PROVE  LetThrough(p)'
  BY AdmittedGrows, MembersAre DEF LetThrough

LEMMA BrokenStays ==
    ASSUME TypeOK, CycleInv, [Next]_vars, NEW g \in Gangs, Broken(g)
    PROVE  Broken(g)'
<1> USE DEF TypeOK, ghost
<1>1. ASSUME NEW p \in Members(g), where[p] \in {"denied", "unreserve"},
             where'[p] \in {"denied", "unreserve"}
      PROVE  Broken(g)'
  BY <1>1 DEF Broken, Members
<1>2. CASE UNCHANGED where /\ refused \subseteq refused'
  BY <1>2 DEF Broken, Members
<1>3. CASE g \in refused
  <2>1. refused \subseteq refused'
    <3>1. ASSUME NEW q \in Pods,
                 \/ Create(q) \/ Delete(q) \/ Start(q) \/ Sync(q) \/ Requeue(q) \/ Pop(q)
                 \/ Timeout(q) \/ WaitOnPermit(q) \/ Bind(q) \/ Unreserve(q)
          PROVE  refused \subseteq refused'
      BY <3>1 DEF Create, Delete, Start, Sync, Requeue, Pop, Timeout, WaitOnPermit,
                  Bind, Unreserve
    <3> QED
      BY <3>1 DEF Next, PreFilter, PermitCheck, PermitCount, PermitRelease, CleanUp,
                  Restart, CacheSynced, vars
  <2> QED
    BY <1>3, <2>1 DEF Broken
<1>4. ASSUME NEW p \in Members(g), where[p] \in {"denied", "unreserve"}
      PROVE  Broken(g)'
  <2>1. p \in Pods /\ GangOf(p) = g
    BY DEF Members
  <2>2. cycle.pc \in {"prefilter", "permit", "count", "act"} => cycle.pod # p
    BY <1>4 DEF CycleInv
  <2>3. ASSUME NEW q \in Pods, \/ Create(q) \/ Delete(q) \/ Start(q) \/ Requeue(q)
                               \/ Pop(q) \/ Timeout(q) \/ WaitOnPermit(q) \/ Bind(q)
        PROVE  where'[p] \in {"denied", "unreserve"}
    <3>1. CASE Create(q) \/ Delete(q) \/ Start(q)
      BY <1>4, <3>1 DEF Create, Delete, Start
    <3>2. CASE Requeue(q) \/ Pop(q)
      BY <1>4, <2>1, <3>2 DEF Requeue, Pop, Queued
    <3>3. CASE Timeout(q) \/ WaitOnPermit(q)
      BY <1>4, <2>1, <3>3 DEF Timeout, WaitOnPermit
    <3>4. CASE Bind(q)
      <4>1. where[q] = "binding"
        BY <3>4 DEF Bind
      <4>2. where'[p] = where[p]
        BY <1>4, <2>1, <3>4, <4>1 DEF Bind
      <4> QED
        BY <1>4, <4>2
    <3> QED
      BY <2>3, <3>1, <3>2, <3>3, <3>4
  <2>4. ASSUME NEW q \in Pods, Sync(q)
        PROVE  where'[p] \in {"denied", "unreserve"}
    BY <1>4, <2>1, <2>4 DEF Sync
  <2>5. ASSUME NEW q \in Pods, Unreserve(q)
        PROVE  Broken(g)'
    <3>1. CASE q = p
      BY <2>1, <2>5, <3>1 DEF Unreserve, GangsOf, Broken
    <3>2. CASE q # p
      <4>1. where'[p] = where[p]
        BY <1>4, <2>1, <2>5, <3>2 DEF Unreserve
      <4> QED
        BY <1>1, <1>4, <4>1
    <3> QED
      BY <3>1, <3>2
  <2>6. CASE PreFilter \/ PermitCheck \/ PermitCount
    <3>1. where'[p] = where[p]
      BY <2>1, <2>2, <2>6 DEF PreFilter, PermitCheck, PermitCount, Leave
    <3> QED
      BY <1>1, <1>4, <3>1
  <2>7. CASE PermitRelease
    <3>1. where'[p] = where[p]
      BY <1>4, <2>1, <2>2, <2>7 DEF PermitRelease
    <3> QED
      BY <1>1, <1>4, <3>1
  <2>8. CASE Restart
    BY <1>4, <2>1, <2>8 DEF Restart, Broken
  <2>9. CASE CleanUp \/ CacheSynced \/ UNCHANGED vars
    BY <1>1, <1>4, <2>9 DEF CleanUp, CacheSynced, vars
  <2> QED
    BY <1>1, <1>4, <2>3, <2>4, <2>5, <2>6, <2>7, <2>8, <2>9 DEF Next
<1> QED
  BY <1>3, <1>4 DEF Broken

-----------------------------------------------------------------------------
\* Who has been bound or is shown as running has been let through.
LEMMA PlacesNext ==
    ASSUME TypeOK, PlacesInv, CycleInv, [Next]_vars
    PROVE  PlacesInv'
<1> USE DEF TypeOK, PlacesInv
<1>1. ASSUME NEW p \in Pods, LetThrough(p) PROVE LetThrough(p)'
  BY <1>1, LetThroughStays
<1>2. CASE UNCHANGED <<pods, lister, where>>
  BY <1>1, <1>2
<1>3. ASSUME NEW q \in Pods, \/ Create(q) \/ Delete(q) \/ Start(q)
      PROVE  PlacesInv'
  <2>1. UNCHANGED <<lister, where>>
    BY <1>3 DEF Create, Delete, Start
  <2>2. \A p \in Pods \ {q} : pods'[p] = pods[p]
    BY <1>3 DEF Create, Delete, Start
  <2>3. \/ pods'[q].phase = "pending" /\ ~pods'[q].bound
        \/ pods'[q].phase = "absent"
        \/ pods[q].phase = "pending" /\ pods[q].bound /\ pods'[q].bound
    BY <1>3 DEF Create, Delete, Start
  <2> QED
    BY <1>1, <2>1, <2>2, <2>3
<1>4. ASSUME NEW q \in Pods, Sync(q)
      PROVE  PlacesInv'
  <2>1. UNCHANGED pods
    BY <1>4 DEF Sync
  <2>2. \A p \in Pods \ {q} : where'[p] = where[p] /\ lister'[p] = lister[p]
    BY <1>4 DEF Sync
  <2>3. lister'[q] = pods[q].phase
    BY <1>4 DEF Sync
  <2>4. where'[q] = where[q] \/ (where'[q] = "queued" /\ ~pods[q].bound /\ pods[q].phase = "pending")
        \/ (where'[q] \in {"out", "denied"} /\ pods[q].phase = "absent")
    BY <1>4 DEF Sync
  <2> QED
    BY <1>1, <2>1, <2>2, <2>3, <2>4
<1>5. ASSUME NEW q \in Pods, where[q] \in Places \ {"out"}, NEW place \in Places,
             \A p \in Pods : where'[p] = IF p = q THEN place ELSE where[p],
             place \in {"allowed", "binding"} => LetThrough(q)',
             UNCHANGED <<pods, lister>>
      PROVE  PlacesInv'
  BY <1>1, <1>5
<1>6. ASSUME NEW q \in Pods, Requeue(q) \/ Pop(q) \/ Timeout(q) \/ WaitOnPermit(q)
      PROVE  PlacesInv'
  <2>1. PICK place \in {"queued", "cycle", "denied", "binding", "unreserve"} :
            /\ \A p \in Pods : where'[p] = IF p = q THEN place ELSE where[p]
            /\ place = "binding" => where[q] = "allowed"
    BY <1>6 DEF Requeue, Pop, Timeout, WaitOnPermit
  <2>2. where[q] # "out" /\ UNCHANGED <<pods, lister>>
    BY <1>6 DEF Requeue, Pop, Timeout, WaitOnPermit, Queued
  <2> QED
    BY <1>1, <1>5, <2>1, <2>2 DEF Places
<1>7. ASSUME NEW q \in Pods, Bind(q)
      PROVE  PlacesInv'
  <2>1. LetThrough(q) /\ where[q] = "binding"
    BY <1>7 DEF Bind
  <2>2. CASE where' = [where EXCEPT ![q] = "out"]
             /\ pods' = [pods EXCEPT ![q] = [@ EXCEPT !.bound = TRUE]] /\ UNCHANGED lister
    BY <1>1, <2>1, <2>2
  <2>3. CASE where' = [where EXCEPT ![q] = "unreserve"] /\ UNCHANGED <<pods, lister>>
    BY <1>5, <2>1, <2>3 DEF Places
  <2> QED
    BY <1>7, <2>2, <2>3 DEF Bind
<1>8. ASSUME NEW q \in Pods, Unreserve(q)
      PROVE  PlacesInv'
  <2>1. UNCHANGED <<pods, lister>>
    BY <1>8 DEF Unreserve
  <2>2. ASSUME NEW p \in Pods
        PROVE  \/ where'[p] = where[p]
               \/ where[p] # "out" /\ where'[p] \notin {"allowed", "binding"}
    <3>1. CASE p = q
      BY <1>8, <3>1 DEF Unreserve
    <3>2. CASE p # q
      BY <1>8, <3>2 DEF Unreserve
    <3> QED
      BY <3>1, <3>2
  <2> QED
    BY <1>1, <2>1, <2>2
<1>9. CASE PreFilter \/ PermitCheck \/ PermitCount
  <2> PICK p : p = cycle.pod
    OBVIOUS
  <2>1. p \in Pods /\ where[p] = "cycle"
    BY <1>9 DEF PreFilter, PermitCheck, PermitCount, CycleInv
  <2>2. UNCHANGED <<pods, lister>>
    BY <1>9 DEF PreFilter, PermitCheck, PermitCount
  <2>3. CASE Leave("out") \/ Leave("unschedulable") \/ Leave("unreserve") \/ Leave("waiting")
    BY <1>1, <2>1, <2>2, <2>3 DEF Leave
  <2>4. CASE PermitCheck /\ Leave("binding")
    <3>1. where'[p] = "binding"
      BY <2>1, <2>4 DEF Leave
    <3>2. LetThrough(p)'
      <4>1. \A g \in Gangs : GangOf(p) = g => p \in admitted'[g]
        BY <2>1, <2>4, <3>1 DEF PermitCheck, Leave
      <4> QED
        BY <2>1, <4>1, MembersAre DEF LetThrough
    <3> QED
      BY <1>1, <2>1, <2>2, <2>4, <3>2 DEF Leave
  <2> QED
    BY <1>2, <1>9, <2>2, <2>3, <2>4 DEF PreFilter, PermitCheck, PermitCount
<1>10. CASE PermitRelease
  <2> PICK p, g : p = cycle.pod /\ g = GangOf(p)
    OBVIOUS
  <2>1. p \in Pods /\ g \in Gangs /\ where[p] = "cycle"
    BY <1>10, MembersAre DEF PermitRelease, CycleInv
  <2>2. \A q \in Pods : \/ where'[q] = where[q]
                        \/ /\ where[q] # "out"
                           /\ q \in admitted'[g] /\ GangOf(q) = g
    BY <1>10, <2>1 DEF PermitRelease, Released, WaitingPods, Members
  <2>3. UNCHANGED <<pods, lister>>
    BY <1>10 DEF PermitRelease
  <2> QED
    BY <1>1, <2>2, <2>3 DEF LetThrough
<1>11. CASE Restart
  BY <1>1, <1>11 DEF Restart
<1>12. CASE CleanUp \/ CacheSynced \/ UNCHANGED vars
  BY <1>2, <1>12 DEF CleanUp, CacheSynced, vars
<1> QED
  BY <1>3, <1>4, <1>6, <1>7, <1>8, <1>9, <1>10, <1>11, <1>12 DEF Next

-----------------------------------------------------------------------------
\* Only a release allows a Pod.
LEMMA AllowedBefore ==
    ASSUME TypeOK, [Next]_vars, ~PermitRelease, NEW p \in Pods, where'[p] = "allowed"
    PROVE  where[p] = "allowed"
<1> USE DEF TypeOK
<1>1. ASSUME NEW q \in Pods, \/ Create(q) \/ Delete(q) \/ Start(q) \/ Requeue(q)
                             \/ Pop(q) \/ Timeout(q) \/ WaitOnPermit(q) \/ Bind(q)
      PROVE  where[p] = "allowed"
  <2>1. where' = where \/ \E place \in Places \ {"allowed"} : where' = [where EXCEPT ![q] = place]
    BY <1>1 DEF Create, Delete, Start, Requeue, Pop, Timeout, WaitOnPermit, Bind, Places
  <2> QED
    BY <2>1
<1>2. ASSUME NEW q \in Pods, Sync(q)
      PROVE  where[p] = "allowed"
  BY <1>2 DEF Sync
<1>3. ASSUME NEW q \in Pods, Unreserve(q)
      PROVE  where[p] = "allowed"
  <2>1. CASE p = q
    BY <1>3, <2>1 DEF Unreserve
  <2>2. CASE p # q
    BY <1>3, <2>2 DEF Unreserve
  <2> QED
    BY <2>1, <2>2
<1>4. CASE PreFilter \/ PermitCheck \/ PermitCount
  <2>1. where' = where \/ \E place \in Places \ {"allowed"} : Leave(place)
    BY <1>4 DEF PreFilter, PermitCheck, PermitCount, Places
  <2> QED
    BY <2>1 DEF Leave
<1>5. CASE Restart
  BY <1>5 DEF Restart
<1>6. CASE CleanUp \/ CacheSynced \/ UNCHANGED vars
  BY <1>6 DEF CleanUp, CacheSynced, vars
<1> QED
  BY <1>1, <1>2, <1>3, <1>4, <1>5, <1>6 DEF Next

\* What a release does.
LEMMA ReleaseDoes ==
    ASSUME TypeOK, CycleInv, PermitRelease, NEW p, p = cycle.pod, NEW g, g = GangOf(p)
    PROVE  /\ p \in Pods /\ g \in Gangs /\ HasCount(p)
           /\ p \in admitted'[g]
           /\ admitted'[g] = admitted[g] \cup InPermit(g) \cup {p}
           /\ \A h \in Gangs \ {g} : /\ permitted'[h] = permitted[h]
                                     /\ admitted'[h] = admitted[h]
           /\ \A q \in Pods : GangOf(q) # g => where'[q] = where[q]
<1>1. p \in Pods /\ g \in Gangs /\ HasCount(p)
  BY MembersAre DEF PermitRelease, CycleInv
<1>2. {q \in Released(g) : where[q] = "waiting"} = InPermit(g)
  BY DEF Released, WaitingPods, InPermit
<1>3. admitted' = [admitted EXCEPT ![g] = @ \cup InPermit(g) \cup {p}]
  BY <1>2 DEF PermitRelease
<1>4. \A h \in Gangs \ {g} : permitted'[h] = permitted[h] /\ admitted'[h] = admitted[h]
  BY <1>3 DEF PermitRelease, TypeOK
<1>5. ASSUME NEW q \in Pods, GangOf(q) # g
      PROVE  where'[q] = where[q]
  BY <1>5 DEF PermitRelease, Released, WaitingPods, Members
<1> QED
  BY <1>1, <1>3, <1>4, <1>5 DEF TypeOK

LEMMA BegunNext ==
    ASSUME TypeOK, BegunInv, CycleInv, [Next]_vars
    PROVE  BegunInv'
<1> SUFFICES ASSUME NEW g \in Gangs,
                    permitted'[g] # {} \/ \E p \in Members(g) : where'[p] = "allowed"
             PROVE  Begun(g)'
  BY DEF BegunInv, Members
<1>1. ASSUME permitted[g] # {} \/ \E p \in Members(g) : where[p] = "allowed"
      PROVE  Begun(g)'
  BY <1>1, BegunStays DEF BegunInv
<1>2. CASE ~PermitRelease
  <2>1. permitted'[g] \subseteq permitted[g]
    BY <1>2, PermittedKept
  <2>2. \A p \in Members(g) : where'[p] = "allowed" => where[p] = "allowed"
    BY <1>2, AllowedBefore DEF Members
  <2> QED
    BY <1>1, <2>1, <2>2
<1>3. CASE PermitRelease
  <2> PICK p, h : p = cycle.pod /\ h = GangOf(p)
    OBVIOUS
  <2>1. CASE g = h
    BY <1>3, <2>1, ReleaseDoes DEF Begun
  <2>2. CASE g # h
    <3>1. permitted'[g] = permitted[g]
      BY <1>3, <2>2, ReleaseDoes
    <3>2. \A q \in Members(g) : where'[q] = where[q]
      BY <1>3, <2>2, ReleaseDoes DEF Members
    <3> QED
      BY <1>1, <3>1, <3>2
  <2> QED
    BY <2>1, <2>2
<1> QED
  BY <1>2, <1>3

\* The binding cycles, the informer and the queue move neither the Pod of the
\* cycle nor those it listed as running anywhere else.
LEMMA CycleNext ==
    ASSUME TypeOK, PlacesInv, CycleInv, [Next]_vars
    PROVE  CycleInv'
<1> USE DEF TypeOK
<1>1. CASE cycle' = Idle \/ cycle' = [Idle EXCEPT !.pc = "start"]
  BY <1>1 DEF CycleInv, Idle
<1>2. ASSUME UNCHANGED cycle,
             \A q \in Pods : where[q] = "cycle" => where'[q] = "cycle",
             \A q \in Pods : where[q] \in {"out", "queued"} => where'[q] \in {"out", "queued"}
      PROVE  CycleInv'
  <2>1. ASSUME cycle.pc = "count", NEW q \in cycle.running
        PROVE  q \in admitted'[GangOf(cycle.pod)] /\ where'[q] \in {"out", "queued"}
    <3>1. HasCount(cycle.pod) /\ GangOf(cycle.pod) \in Gangs
      BY <2>1, MembersAre DEF CycleInv
    <3> QED
      BY <1>2, <2>1, <3>1, AdmittedGrows DEF CycleInv
  <2> QED
    BY <1>2, <2>1 DEF CycleInv
<1>3. ASSUME NEW q \in Pods, \/ Create(q) \/ Delete(q) \/ Start(q) \/ Requeue(q)
                             \/ Timeout(q) \/ WaitOnPermit(q) \/ Bind(q)
      PROVE  CycleInv'
  <2>1. UNCHANGED cycle
    BY <1>3 DEF Create, Delete, Start, Requeue, Timeout, WaitOnPermit, Bind
  <2>2. \/ where' = where
        \/ /\ where[q] \notin {"cycle", "out", "queued"}
           /\ \A r \in Pods \ {q} : where'[r] = where[r]
    BY <1>3 DEF Create, Delete, Start, Requeue, Timeout, WaitOnPermit, Bind
  <2> QED
    BY <1>2, <2>1, <2>2
<1>4. ASSUME NEW q \in Pods, Sync(q)
      PROVE  CycleInv'
  <2>1. UNCHANGED cycle /\ \A r \in Pods \ {q} : where'[r] = where[r]
    BY <1>4 DEF Sync
  <2>2. where[q] = "cycle" => where'[q] = "cycle"
    BY <1>4 DEF Sync
  <2>3. where[q] \in {"out", "queued"} => where'[q] \in {"out", "queued"}
    BY <1>4 DEF Sync
  <2> QED
    BY <1>2, <2>1, <2>2, <2>3
<1>5. ASSUME NEW q \in Pods, Unreserve(q)
      PROVE  CycleInv'
  <2>1. UNCHANGED cycle /\ where[q] = "unreserve"
    BY <1>5 DEF Unreserve
  <2>2. ASSUME NEW r \in Pods, where[r] \in {"cycle", "out", "queued"}
        PROVE  where'[r] = where[r]
    BY <1>5, <2>1, <2>2 DEF Unreserve
  <2> QED
    BY <1>2, <2>1, <2>2
<1>6. ASSUME NEW q \in Pods, Pop(q)
      PROVE  CycleInv'
  BY <1>6 DEF Pop, CycleInv, Idle
<1>7. CASE PreFilter
  <2>1. CASE cycle' = [cycle EXCEPT !.pc = "permit"] /\ UNCHANGED where
    BY <1>7, <2>1 DEF PreFilter, CycleInv
  <2> QED
    BY <1>1, <1>7, <2>1 DEF PreFilter, Leave
<1>8. CASE PermitCheck
  <2> PICK p, g : p = cycle.pod /\ g = GangOf(p)
    OBVIOUS
  <2>1. CASE /\ HasCount(p) /\ UNCHANGED <<where, admitted>>
             /\ cycle' = [cycle EXCEPT !.pc = "count", !.running = ListedAs(g, "running")]
    <3>1. p \in Pods /\ where[p] = "cycle" /\ g \in Gangs
      BY <1>8, <2>1, MembersAre DEF PermitCheck, CycleInv
    <3>2. ASSUME NEW q \in ListedAs(g, "running")
          PROVE  q \in admitted[g] /\ where[q] \in {"out", "queued"}
      <4>1. q \in Pods /\ GangOf(q) = g /\ lister[q] = "running" /\ InGang(q)
        BY <3>1 DEF ListedAs, Members, InGang, GangOf
      <4> QED
        BY <4>1 DEF PlacesInv, LetThrough
    <3>3. cycle'.pod = p /\ cycle'.pc = "count" /\ cycle'.running = ListedAs(g, "running")
      BY <2>1
    <3> QED
      BY <2>1, <3>1, <3>2, <3>3 DEF CycleInv
  <2>2. CASE cycle' = Idle
    BY <1>1, <2>2
  <2> QED
    BY <1>8, <2>1, <2>2 DEF PermitCheck, Leave
<1>9. CASE PermitCount
  <2>1. CASE cycle' = [cycle EXCEPT !.pc = "act"] /\ UNCHANGED where
    BY <1>9, <2>1 DEF PermitCount, CycleInv
  <2> QED
    BY <1>1, <1>9, <2>1 DEF PermitCount, Leave
<1>10. CASE PermitRelease \/ Restart \/ CacheSynced
  BY <1>1, <1>10 DEF PermitRelease, Restart, CacheSynced
<1>11. CASE CleanUp \/ UNCHANGED vars
  BY <1>2, <1>11 DEF CleanUp, vars
<1> QED
  BY <1>3, <1>4, <1>5, <1>6, <1>7, <1>8, <1>9, <1>10, <1>11 DEF Next

-----------------------------------------------------------------------------
\* Who waits in Permit waits on until a release, a restart, or until the gang
\* breaks.
LEMMA WaitersStay ==
    ASSUME TypeOK, CycleInv, [Next]_vars, ~PermitRelease, ~Restart,
           NEW g \in Gangs, NEW p \in Members(g), where[p] = "waiting"
    PROVE  where'[p] = "waiting" \/ Broken(g)'
<1> USE DEF TypeOK
<1>1. p \in Pods /\ GangOf(p) = g
  BY DEF Members
<1>2. where'[p] = "denied" => Broken(g)'
  BY <1>1 DEF Broken, Members
<1>3. ASSUME NEW q \in Pods, \/ Create(q) \/ Delete(q) \/ Start(q) \/ Requeue(q)
                             \/ Pop(q) \/ WaitOnPermit(q) \/ Bind(q)
      PROVE  where'[p] = "waiting"
  <2>1. \/ where' = where
        \/ where[q] # "waiting" /\ \A r \in Pods \ {q} : where'[r] = where[r]
    BY <1>3 DEF Create, Delete, Start, Requeue, Pop, WaitOnPermit, Bind, Queued
  <2> QED
    BY <1>1, <2>1
<1>4. ASSUME NEW q \in Pods, Timeout(q) \/ Sync(q)
      PROVE  where'[p] \in {"waiting", "denied"}
  <2>1. q # p => where'[p] = where[p]
    BY <1>1, <1>4 DEF Timeout, Sync
  <2>2. q = p => where'[p] \in {"waiting", "denied"}
    BY <1>1, <1>4 DEF Timeout, Sync
  <2> QED
    BY <2>1, <2>2
<1>5. ASSUME NEW q \in Pods, Unreserve(q)
      PROVE  where'[p] \in {"waiting", "denied"}
  BY <1>1, <1>5 DEF Unreserve
<1>6. CASE PreFilter \/ PermitCheck \/ PermitCount
  <2>1. cycle.pod # p
    BY <1>6 DEF PreFilter, PermitCheck, PermitCount, CycleInv
  <2> QED
    BY <1>1, <1>6, <2>1 DEF PreFilter, PermitCheck, PermitCount, Leave
<1>7. CASE CleanUp \/ CacheSynced \/ UNCHANGED vars
  BY <1>7 DEF CleanUp, CacheSynced, vars
<1> QED
  BY <1>2, <1>3, <1>4, <1>5, <1>6, <1>7 DEF Next

\* What Permit counts before a gang's first release are different Pods, so that
\* enough counted Pods are enough Pods.
LEMMA CountIsTrue ==
    ASSUME TypeOK, BegunInv, CycleInv, PermitCount, cycle'.pc = "act",
           NEW p, p = cycle.pod, NEW g, g = GangOf(p), ~Begun(g), ~Broken(g)
    PROVE  Cardinality(InPermit(g) \cup admitted[g] \cup {p}) >= Need
<1>1. p \in Pods /\ where[p] = "cycle" /\ g \in Gangs /\ cycle.pc = "count"
  BY MembersAre DEF PermitCount, CycleInv
<1>2. WaitingPods(g) = InPermit(g) /\ permitted[g] = {}
  BY <1>1 DEF WaitingPods, InPermit, BegunInv, Broken
<1> DEFINE W == InPermit(g)
           R == cycle.running
<1>3. /\ W \in SUBSET Pods /\ R \in SUBSET Pods /\ {p} \in SUBSET Pods
      /\ R \subseteq admitted[g] /\ admitted[g] \in SUBSET Pods
  BY <1>1, MembersAre DEF InPermit, CycleInv, TypeOK
<1>4. W \cap R = {} /\ (W \cup R) \cap {p} = {}
  BY <1>1 DEF InPermit, CycleInv
<1>5. Cardinality(W) + Cardinality(R) + 1 >= Need
  <2>1. EnoughPods(Cardinality(WaitingPods(g)),
                   Cardinality(permitted[g] \ cycle.running), Cardinality(cycle.running))
    BY DEF PermitCount, Leave, Idle
  <2>2. permitted[g] \ cycle.running = {} /\ Cardinality({}) = 0
    BY <1>2, FS_EmptySet
  <2>3. Cardinality(W) \in Nat /\ Cardinality(R) \in Nat
    BY <1>3, CountOf
  <2> QED
    BY <1>2, <2>1, <2>2, <2>3 DEF EnoughPods
<1> HIDE DEF W, R
<1>6. Cardinality(W \cup R) = Cardinality(W) + Cardinality(R)
  BY <1>3, <1>4, CountUnion
<1>7. W \cup R \in SUBSET Pods /\ W \cup admitted[g] \cup {p} \in SUBSET Pods
  BY <1>3
<1>8. Cardinality(W \cup R \cup {p}) = Cardinality(W \cup R) + Cardinality({p})
  BY <1>3, <1>4, <1>7, CountUnion
<1>9. W \cup R \cup {p} \in SUBSET (W \cup admitted[g] \cup {p})
  BY <1>3
<1>10. Cardinality(W \cup R \cup {p}) <= Cardinality(W \cup admitted[g] \cup {p})
  BY <1>7, <1>9, CountMonotone
<1>11. Cardinality(W \cup R \cup {p}) >= Need
  BY <1>1, <1>5, <1>6, <1>8, CountPod
<1>12. Cardinality(W \cup R \cup {p}) \in Nat /\ Cardinality(W \cup admitted[g] \cup {p}) \in Nat
  BY <1>7, <1>9, CountOf
<1>13. Cardinality(W \cup admitted[g] \cup {p}) >= Need
  BY <1>10, <1>11, <1>12, GangAssumption
<1> QED
  BY <1>13 DEF W

\* What was counted is still there when the lock is taken, or the gang broke.
LEMMA EnoughNext ==
    ASSUME TypeOK, BegunInv, CycleInv, EnoughInv, [Next]_vars
    PROVE  EnoughInv'
<1> SUFFICES ASSUME NEW p, NEW g, p = cycle'.pod, g = GangOf(p), cycle'.pc = "act",
                    ~Begun(g)', ~Broken(g)'
             PROVE  Cardinality(InPermit(g)' \cup admitted'[g] \cup {p}) >= Need
  BY DEF EnoughInv
<1>1. CASE UNCHANGED cycle /\ ~PermitRelease /\ ~Restart
  <2>1. p \in Pods /\ g \in Gangs /\ p = cycle.pod /\ cycle.pc = "act"
    BY <1>1, MembersAre DEF CycleInv
  <2>2. ~Begun(g) /\ ~Broken(g)
    BY <2>1, BegunStays, BrokenStays
  <2>3. Cardinality(InPermit(g) \cup admitted[g] \cup {p}) >= Need
    BY <2>1, <2>2 DEF EnoughInv
  <2>4. InPermit(g) \subseteq InPermit(g)'
    BY <1>1, <2>1, WaitersStay DEF InPermit, Members
  <2>5. admitted[g] \subseteq admitted'[g]
    BY <2>1, AdmittedGrows
  <2>6. /\ InPermit(g)' \cup admitted'[g] \cup {p} \in SUBSET Pods
        /\ InPermit(g) \cup admitted[g] \cup {p}
             \in SUBSET (InPermit(g)' \cup admitted'[g] \cup {p})
    <3>1. admitted'[g] \subseteq Pods
      BY <2>1, GangNextType DEF TypeOK
    <3>2. InPermit(g)' \subseteq Pods
      BY DEF InPermit, Members
    <3> QED
      BY <2>1, <2>4, <2>5, <3>1, <3>2
  <2>7. Cardinality(InPermit(g) \cup admitted[g] \cup {p})
          <= Cardinality(InPermit(g)' \cup admitted'[g] \cup {p})
    BY <2>6, CountMonotone
  <2>8. /\ Cardinality(InPermit(g) \cup admitted[g] \cup {p}) \in Nat
        /\ Cardinality(InPermit(g)' \cup admitted'[g] \cup {p}) \in Nat
    BY <2>6, CountOf
  <2> QED
    BY <2>3, <2>7, <2>8, GangAssumption
<1>2. CASE PermitCount
  <2>1. cycle' = [cycle EXCEPT !.pc = "act"] /\ UNCHANGED <<where, admitted, refused>>
    BY <1>2 DEF PermitCount, Leave, Idle, ghost
  <2>2. p = cycle.pod
    BY <2>1 DEF TypeOK
  <2>3. ~Begun(g) /\ ~Broken(g)
    BY <2>1 DEF Begun, Broken, Members
  <2>4. Cardinality(InPermit(g) \cup admitted[g] \cup {p}) >= Need
    BY <1>2, <2>2, <2>3, CountIsTrue
  <2>5. InPermit(g)' = InPermit(g)
    BY <2>1 DEF InPermit
  <2> QED
    BY <2>1, <2>4, <2>5
<1>3. CASE PreFilter \/ PermitCheck \/ PermitRelease \/ Restart \/ CacheSynced
  <2>1. cycle'.pc = "act"
    OBVIOUS
  <2>2. Idle.pc = "idle" /\ [Idle EXCEPT !.pc = "start"].pc = "start"
    BY DEF Idle
  <2>3. ~(PermitRelease \/ Restart \/ CacheSynced)
    BY <2>1, <2>2 DEF PermitRelease, Restart, CacheSynced
  <2>4. [cycle EXCEPT !.pc = "permit"].pc = "permit"
    BY DEF TypeOK
  <2>5. [cycle EXCEPT !.pc = "count", !.running = ListedAs(GangOf(cycle.pod), "running")].pc
           = "count"
    BY DEF TypeOK
  <2>6. ~PreFilter
    BY <2>1, <2>2, <2>4 DEF PreFilter, Leave
  <2>7. ~PermitCheck
    BY <2>1, <2>2, <2>5 DEF PermitCheck, Leave
  <2> QED
    BY <1>3, <2>3, <2>6, <2>7
<1>4. ASSUME NEW q \in Pods, Pop(q)
      PROVE  FALSE
  BY <1>4 DEF Pop, Idle
<1>5. ASSUME NEW q \in Pods,
             \/ Create(q) \/ Delete(q) \/ Start(q) \/ Sync(q) \/ Requeue(q)
             \/ Timeout(q) \/ WaitOnPermit(q) \/ Bind(q) \/ Unreserve(q)
      PROVE  UNCHANGED cycle
  BY <1>5 DEF Create, Delete, Start, Sync, Requeue, Timeout, WaitOnPermit, Bind, Unreserve
<1>6. CASE CleanUp \/ UNCHANGED vars
  BY <1>1, <1>3, <1>6 DEF CleanUp, vars
<1> QED
  BY <1>1, <1>2, <1>3, <1>4, <1>5, <1>6 DEF Next

-----------------------------------------------------------------------------
\* A gang begins by a release.
LEMMA BegunByRelease ==
    ASSUME TypeOK, [Next]_vars, ~PermitRelease, NEW g \in Gangs, Begun(g)'
    PROVE  Begun(g)
<1> USE DEF TypeOK, ghost
<1>1. CASE UNCHANGED admitted
  BY <1>1 DEF Begun
<1>2. ASSUME NEW q \in Pods,
             \/ Create(q) \/ Delete(q) \/ Start(q) \/ Sync(q) \/ Requeue(q) \/ Pop(q)
             \/ Timeout(q) \/ WaitOnPermit(q) \/ Bind(q) \/ Unreserve(q)
      PROVE  UNCHANGED admitted
  BY <1>2 DEF Create, Delete, Start, Sync, Requeue, Pop, Timeout, WaitOnPermit, Bind,
              Unreserve
<1>3. CASE PreFilter \/ PermitCount \/ CleanUp \/ Restart \/ CacheSynced
  BY <1>1, <1>3 DEF PreFilter, PermitCount, CleanUp, Restart, CacheSynced
<1>4. CASE PermitCheck
  <2>1. \/ UNCHANGED admitted
        \/ ~HasCount(cycle.pod) /\ admitted'[g] \subseteq admitted[g] \cup {cycle.pod}
    BY <1>4 DEF PermitCheck
  <2> QED
    BY <1>1, <2>1 DEF Begun
<1>5. CASE UNCHANGED vars
  BY <1>1, <1>5 DEF vars
<1> QED
  BY <1>1, <1>2, <1>3, <1>4, <1>5 DEF Next

LEMMA TogetherNext ==
    ASSUME TypeOK, CycleInv, EnoughInv, AdmittedTogether, [Next]_vars
    PROVE  AdmittedTogether'
<1> SUFFICES ASSUME NEW g \in Gangs, Begun(g)', ~Broken(g)'
             PROVE  Cardinality(admitted'[g]) >= Need
  BY DEF AdmittedTogether, Begun, Broken, Members
<1>1. ~Broken(g)
  BY BrokenStays
<1>2. admitted[g] \in SUBSET admitted'[g] /\ admitted'[g] \in SUBSET Pods
  BY AdmittedGrows, GangNextType DEF TypeOK
<1>3. CASE Begun(g)
  <2>1. Cardinality(admitted[g]) >= Need
    BY <1>1, <1>3 DEF AdmittedTogether, Begun, Broken
  <2>2. Cardinality(admitted[g]) <= Cardinality(admitted'[g])
    BY <1>2, CountMonotone
  <2>3. Cardinality(admitted[g]) \in Nat /\ Cardinality(admitted'[g]) \in Nat
    BY <1>2, CountOf
  <2> QED
    BY <2>1, <2>2, <2>3, GangAssumption
<1>4. CASE ~Begun(g)
  <2>1. PermitRelease
    BY <1>4, BegunByRelease
  <2> PICK p, h : p = cycle.pod /\ h = GangOf(p)
    OBVIOUS
  <2>2. g = h
    <3>1. g # h => admitted'[g] = admitted[g]
      BY <2>1, ReleaseDoes
    <3> QED
      BY <1>4, <3>1 DEF Begun
  <2>3. admitted'[g] = InPermit(g) \cup admitted[g] \cup {p}
    BY <2>1, <2>2, ReleaseDoes
  <2>4. Cardinality(InPermit(g) \cup admitted[g] \cup {p}) >= Need
    BY <1>1, <1>4, <2>1, <2>2 DEF EnoughInv, PermitRelease
  <2> QED
    BY <2>3, <2>4
<1> QED
  BY <1>3, <1>4

-----------------------------------------------------------------------------
LEMMA GangInvInit == Init => GangInv
<1> SUFFICES ASSUME Init PROVE GangInv
  OBVIOUS
<1>1. \A p \in Pods : pods[p].phase = "pending" /\ ~pods[p].bound
  BY DEF Init
<1>2. /\ \A p \in Pods : lister[p] = "absent" /\ where[p] = "out"
      /\ \A g \in Gangs : permitted[g] = {} /\ admitted[g] = {}
      /\ cycle.pc = "idle"
  BY DEF Init, Idle
<1> QED
  BY <1>1, <1>2 DEF GangInv, PlacesInv, BegunInv, CycleInv, EnoughInv, AdmittedTogether,
                    Members

LEMMA GangInvNext == TypeOK /\ GangInv /\ [Next]_vars => GangInv'
  BY PlacesNext, BegunNext, CycleNext, EnoughNext, TogetherNext DEF GangInv

\* All or nothing: once a Pod that asks for Need members is let through, Need
\* members were, or the gang is or is about to be rejected.  Permit reads the
\* rejected gangs, the running Pods and the waiting Pods one after the other and
\* locks only then; a Pod that times out, is deleted or fails to bind in between
\* breaks the gang, and this is never forgotten.
THEOREM GangAdmittedTogether == Spec => []AdmittedTogether
<1>1. TypeOK /\ GangInv /\ [Next]_vars => TypeOK' /\ GangInv'
  BY GangNextType, GangInvNext
<1>2. Init => TypeOK /\ GangInv
  BY GangInitType, GangInvInit
<1>3. GangInv => AdmittedTogether
  BY DEF GangInv
<1> QED
  BY <1>1, <1>2, <1>3, PTL DEF Spec

=============================================================================
