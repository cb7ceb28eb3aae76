------------------------ MODULE AppController_proofs ------------------------
(***************************************************************************)
(* Theorems about the App controller, for every number of replicas, every  *)
(* set of revisions and every bound on failures, restarts and edits.       *)
(***************************************************************************)
EXTENDS AppProperties, FiniteSetTheorems, TLAPS

USE DEF Ordinals

-----------------------------------------------------------------------------
(***************************************************************************)
(* Type correctness                                                        *)
(***************************************************************************)

\* The number of Pods with some property is a natural number.
LEMMA CountType ==
    ASSUME NEW S \in SUBSET Ordinals
    PROVE  Cardinality(S) \in Nat
<1>1. IsFiniteSet(Ordinals)
  BY PlanAssumption, FS_Interval
<1> QED
  BY <1>1, FS_Subset, FS_CardinalityType

LEMMA StatusType ==
    ASSUME NEW a \in App, NEW cur \in Revs, NEW upd \in Revs,
           NEW cache \in [Ordinals -> Pod], NEW passes \in Nat
    PROVE  updateStatus(a, cur, upd, cache, passes) \in Status
<1>1. \A S \in SUBSET Ordinals : Cardinality(S) \in Int /\ passes * Cardinality(S) \in Int
  BY CountType
<1> QED
  BY <1>1 DEF updateStatus, Count, Status, App

\* A Pod that is on the server has the label of some revision.
LEMMA ExistingPod ==
    ASSUME NEW p \in Pod, Exists(p)
    PROVE  /\ p \in [rev : Revs, phase : {"Pending", "Running", "Failed"},
                      cond : {"none", "False", "True"}, del : BOOLEAN]
           /\ p # NoPod
<1>1. NoPod.phase = ""
  BY DEF NoPod
<1>2. p # NoPod
  BY <1>1 DEF Exists
<1> QED
  BY <1>2 DEF Pod

\* What the API server, the kubelet and the controller change of a Pod.
LEMMA ChangedPod ==
    ASSUME NEW p \in Pod, Exists(p), NEW c \in {"none", "False", "True"}
    PROVE  /\ [p EXCEPT !.del = TRUE] \in Pod
           /\ [p EXCEPT !.cond = c] \in Pod
           /\ [p EXCEPT !.phase = "Failed"] \in Pod
           /\ [p EXCEPT !.phase = "Running", !.cond = c] \in Pod
<1> DEFINE K == [rev : Revs, phase : {"Pending", "Running", "Failed"},
                 cond : {"none", "False", "True"}, del : BOOLEAN]
<1>1. p \in K
  BY ExistingPod
<1>2. /\ [p EXCEPT !.del = TRUE] \in K
      /\ [p EXCEPT !.cond = c] \in K
      /\ [p EXCEPT !.phase = "Failed"] \in K
      /\ [p EXCEPT !.phase = "Running", !.cond = c] \in K
  BY <1>1
<1> QED
  BY <1>2 DEF Pod

LEMMA PlanType ==
    ASSUME NEW a \in App, NEW cur \in Revs, NEW upd \in Revs,
           NEW cache \in [Ordinals -> Pod]
    PROVE  LET p == applyUpdate(a, cur, upd, cache)
           IN p \in Plan /\ \A i \in p.make : p.rev[i] \in Revs
<1> DEFINE R == replicaList(a, cur, upd, cache)
           p == applyUpdate(a, cur, upd, cache)
<1>1. ASSUME NEW i \in Ordinals
      PROVE  R[i].rev \in Revs
  <2>1. CASE Exists(cache[i])
    BY <2>1, ExistingPod DEF replicaList
  <2>2. CASE ~Exists(cache[i])
    <3>1. R[i] = newVersionedPodForApp(a, cur, upd, i, cache)
      BY <2>2 DEF replicaList
    <3>2. newVersionedPodForApp(a, cur, upd, i, cache).rev \in {cur, upd}
      BY DEF newVersionedPodForApp, NoPod
    <3> QED
      BY <3>1, <3>2
  <2> QED
    BY <2>1, <2>2
<1>2. /\ visited(a, R) \subseteq Ordinals
      /\ culled(a, R, cache) \subseteq Ordinals
      /\ rolled(a, R, upd) \subseteq Ordinals
  BY DEF visited, culled, rolled, invalidPods, Slots
<1>3. p \in Plan
  BY <1>1, <1>2 DEF applyUpdate, Plan
<1>4. ASSUME NEW i \in p.make
      PROVE  p.rev[i] \in Revs
  BY <1>1, <1>2 DEF applyUpdate
<1> QED
  BY <1>3, <1>4

-----------------------------------------------------------------------------
\* The reconcile that Begin starts is well typed when its plan is.
LEMMA BeginType ==
    ASSUME appCache \in App, podCache \in [Ordinals -> Pod],
           NEW plan \in Plan, NEW passes \in Nat, NEW f \in BOOLEAN
    PROVE  /\ Begin(plan, passes, f) \in Reconcile
           /\ Begin(plan, passes, f).plan = plan
<1>1. currentRevision(appCache) \in Revs /\ appCache.tmpl \in Revs
  BY DEF currentRevision, App, Status
<1>2. updateStatus(appCache, currentRevision(appCache), appCache.tmpl,
                   podCache, passes) \in Status
  BY <1>1, StatusType
<1>3. appCache.status \in Status
  BY DEF App
<1>4. LastReconcile(appCache, podCache) \in BOOLEAN
  BY DEF LastReconcile
<1> QED
  BY <1>2, <1>3, <1>4 DEF Begin, Reconcile

LEMMA IdleType == Idle \in Reconcile /\ Idle.plan.make = {} /\ NoPlan \in Plan
                  /\ NoPlan.make = {} /\ NoStatus \in Status
  BY DEF Idle, Reconcile, NoPlan, Plan, NoStatus, Status

LEMMA NewAppType == NewApp \in App
  BY IdleType, ControllerAssumption DEF NewApp, App

LEMMA SpendType ==
    ASSUME budget \in Budget,
           NEW b \in {"edits", "apiFail", "podLoss", "crash"}, Spend(b)
    PROVE  budget' \in Budget
  BY DEF Spend, Budget

LEMMA CompletedType ==
    ASSUME NEW s \in Status PROVE completeRollingUpdate(s) \in Status
  BY DEF completeRollingUpdate, Status

LEMMA InitType == Init => TypeOK
<1> SUFFICES ASSUME Init PROVE TypeOK
  OBVIOUS
<1>1. pods \in [Ordinals -> Pod] /\ podCache \in [Ordinals -> Pod]
  BY DEF Init, Pod
<1>2. budget \in Budget
  BY ControllerAssumption DEF Init, Budget, FullBudget
<1> QED
  BY <1>1, <1>2, NewAppType, IdleType DEF Init, TypeOK

LEMMA DeployedInitType == DeployedInit => TypeOK
<1> SUFFICES ASSUME DeployedInit PROVE TypeOK
  OBVIOUS
<1>1. RunningPod(FirstRev, "True") \in Pod /\ NoPod \in Pod
  BY ControllerAssumption DEF RunningPod, Pod
<1>2. pods \in [Ordinals -> Pod] /\ podCache \in [Ordinals -> Pod]
  BY <1>1 DEF DeployedInit
<1>3. updateStatus(NewApp, FirstRev, FirstRev, pods, 2) \in Status
  BY <1>2, StatusType, NewAppType, ControllerAssumption
<1>4. app \in App
  BY <1>3, NewAppType DEF DeployedInit, App
<1>5. budget \in Budget
  BY ControllerAssumption DEF DeployedInit, Budget, FullBudget
<1> QED
  BY <1>2, <1>4, <1>5, IdleType, ControllerAssumption DEF DeployedInit, TypeOK

\* Assigning a value of its type to a field keeps the type of the record.
LEMMA AppUpdate ==
    ASSUME NEW a \in App
    PROVE  /\ \A g \in Nat : [a EXCEPT !.gen = g] \in App
           /\ [a EXCEPT !.fin = TRUE] \in App
           /\ \A n \in 0 .. MaxReplicas : [a EXCEPT !.replicas = n] \in App
           /\ setDefaultRollingUpdateStrategy(a) \in App
           /\ \A b \in BOOLEAN, g \in Nat :
                 [a EXCEPT !.deleting = TRUE, !.exists = b, !.gen = g] \in App
<1>1. \A g \in Nat : [a EXCEPT !.gen = g] \in App
  BY DEF App
<1>2. [a EXCEPT !.fin = TRUE] \in App
  BY DEF App
<1>3. \A n \in 0 .. MaxReplicas : [a EXCEPT !.replicas = n] \in App
  BY DEF App
<1>4. setDefaultRollingUpdateStrategy(a) \in App
  BY DEF App, setDefaultRollingUpdateStrategy
<1>5. \A b \in BOOLEAN, g \in Nat :
         [a EXCEPT !.deleting = TRUE, !.exists = b, !.gen = g] \in App
  BY DEF App
<1> QED
  BY <1>1, <1>2, <1>3, <1>4, <1>5

LEMMA PlanUpdate ==
    ASSUME NEW p \in Plan, NEW S \in SUBSET Ordinals
    PROVE  /\ [p EXCEPT !.make = S] \in Plan
           /\ [p EXCEPT !.pvc = S] \in Plan
           /\ [p EXCEPT !.restart = S] \in Plan
           /\ [p EXCEPT !.cull = S] \in Plan
           /\ [p EXCEPT !.roll = S] \in Plan
           /\ [p EXCEPT !.cull = S, !.roll = S] \in Plan
  BY DEF Plan

\* q is a reconcile that still has to create what r has, or less.
FewerCreations(q, r) ==
    /\ q \in Reconcile
    /\ q.plan.rev = r.plan.rev
    /\ q.plan.make \subseteq r.plan.make

LEMMA RecUpdate ==
    ASSUME NEW r \in Reconcile
    PROVE  /\ \A i : FewerCreations([r EXCEPT !.plan.make = @ \ {i}], r)
           /\ \A i : FewerCreations([r EXCEPT !.plan.make = @ \ {i}, !.err = TRUE], r)
           /\ FewerCreations([r EXCEPT !.plan.pvc = {}], r)
           /\ FewerCreations([r EXCEPT !.plan.pvc = {}, !.err = TRUE], r)
           /\ FewerCreations([r EXCEPT !.plan.restart = {}], r)
           /\ FewerCreations([r EXCEPT !.plan.restart = {}, !.err = TRUE], r)
           /\ \A i : FewerCreations([r EXCEPT !.plan.cull = @ \ {i}], r)
           /\ FewerCreations([r EXCEPT !.plan.cull = {}, !.plan.roll = {}, !.err = TRUE], r)
           /\ FewerCreations([r EXCEPT !.plan.roll = {}, !.status.current = @ - 1], r)
           /\ FewerCreations([r EXCEPT !.plan.roll = {}, !.err = TRUE], r)
<1>1. r.plan \in Plan /\ r.status \in Status
  BY DEF Reconcile
<1>2. [r.status EXCEPT !.current = @ - 1] \in Status
  BY <1>1 DEF Status
<1>3. \A i : FewerCreations([r EXCEPT !.plan.make = @ \ {i}], r)
  BY <1>1 DEF FewerCreations, Reconcile, Plan
<1>4. \A i : FewerCreations([r EXCEPT !.plan.make = @ \ {i}, !.err = TRUE], r)
  BY <1>1 DEF FewerCreations, Reconcile, Plan
<1>5. FewerCreations([r EXCEPT !.plan.pvc = {}], r)
  BY <1>1 DEF FewerCreations, Reconcile, Plan
<1>6. FewerCreations([r EXCEPT !.plan.pvc = {}, !.err = TRUE], r)
  BY <1>1 DEF FewerCreations, Reconcile, Plan
<1>7. FewerCreations([r EXCEPT !.plan.restart = {}], r)
  BY <1>1 DEF FewerCreations, Reconcile, Plan
<1>8. FewerCreations([r EXCEPT !.plan.restart = {}, !.err = TRUE], r)
  BY <1>1 DEF FewerCreations, Reconcile, Plan
<1>9. \A i : FewerCreations([r EXCEPT !.plan.cull = @ \ {i}], r)
  BY <1>1 DEF FewerCreations, Reconcile, Plan
<1>10. FewerCreations([r EXCEPT !.plan.cull = {}, !.plan.roll = {}, !.err = TRUE], r)
  BY <1>1 DEF FewerCreations, Reconcile, Plan
<1>11. FewerCreations([r EXCEPT !.plan.roll = {}, !.status.current = @ - 1], r)
  BY <1>1, <1>2 DEF FewerCreations, Reconcile, Plan
<1>12. FewerCreations([r EXCEPT !.plan.roll = {}, !.err = TRUE], r)
  BY <1>1 DEF FewerCreations, Reconcile, Plan
<1> QED
  BY <1>3, <1>4, <1>5, <1>6, <1>7, <1>8, <1>9, <1>10, <1>11, <1>12

\* Update through the cached object keeps the App's type.
LEMMA UpdateFromCacheType ==
    ASSUME TypeOK, NEW obj \in App, UpdateFromCache(obj)
    PROVE  /\ app' \in App /\ appCache' \in App
           /\ cacheFresh' \in BOOLEAN /\ dirty' \in BOOLEAN
           /\ budget' \in Budget
<1>1. app.gen \in Nat /\ app.gen + 1 \in Nat /\ app \in App
  BY DEF TypeOK, App
<1>2. \A g \in Nat : [obj EXCEPT !.gen = g] \in App
  BY AppUpdate
<1>3. app' \in App
  BY <1>1, <1>2 DEF UpdateFromCache
<1>4. budget' \in Budget
  BY SpendType DEF UpdateFromCache, TypeOK
<1> QED
  BY <1>3, <1>4 DEF UpdateFromCache, TypeOK

\* Every step of the controller, its informers, the kubelet and the user keeps
\* the types.
LEMMA NextType == TypeOK /\ [Next]_vars => TypeOK'
<1> SUFFICES ASSUME TypeOK, [Next]_vars PROVE TypeOK'
  OBVIOUS
<1> USE DEF TypeOK
<1>1. CASE ReconcileGone
  BY <1>1 DEF ReconcileGone
<1>2. CASE AddFinalizer
  <2>1. [appCache EXCEPT !.fin = TRUE] \in App
    BY AppUpdate
  <2> QED
    BY <1>2, <2>1, UpdateFromCacheType DEF AddFinalizer
<1>3. CASE ScaleToZero
  <2>1. [appCache EXCEPT !.replicas = 0] \in App
    <3>1. 0 \in 0 .. MaxReplicas
      BY PlanAssumption
    <3> QED
      BY <3>1, AppUpdate
  <2> QED
    BY <1>3, <2>1, UpdateFromCacheType DEF ScaleToZero
<1>4. CASE UpdateApp
  <2>1. currentRevision(appCache) \in Revs /\ appCache.tmpl \in Revs
    BY DEF currentRevision, App, Status
  <2> DEFINE p == applyUpdate(appCache, currentRevision(appCache), appCache.tmpl, podCache)
  <2>2. p \in Plan /\ \A i \in p.make : p.rev[i] \in Revs
    BY <2>1, PlanType
  <2> HIDE DEF p
  <2>3. Begin(p, 2, cacheFresh) \in Reconcile /\ Begin(p, 2, cacheFresh).plan = p
    BY <2>2, BeginType
  <2>4. rec' = Begin(p, 2, cacheFresh)
    BY <1>4 DEF UpdateApp, p
  <2> QED
    BY <1>4, <2>1, <2>2, <2>3, <2>4 DEF UpdateApp
<1>5. CASE RevisionFails
  BY <1>5, SpendType DEF RevisionFails
<1>6. CASE ApplyDefaults
  <2>1. ASSUME NEW f \in BOOLEAN
        PROVE  Begin(NoPlan, 1, f) \in Reconcile /\ Begin(NoPlan, 1, f).plan.make = {}
    BY IdleType, BeginType
  <2>2. rec' \in Reconcile /\ rec'.plan.make = {}
    BY <1>6, <2>1 DEF ApplyDefaults
  <2>3. [setDefaultRollingUpdateStrategy(appCache) EXCEPT !.gen = @ + 1] \in App
    <3>1. setDefaultRollingUpdateStrategy(appCache) \in App
      BY AppUpdate
    <3>2. setDefaultRollingUpdateStrategy(appCache).gen + 1 \in Nat
      BY <3>1 DEF App
    <3> QED
      BY <3>1, <3>2, AppUpdate
  <2>4. appCache.tmpl \in Revs
    BY DEF App
  <2>5. budget' \in Budget
    BY <1>6, SpendType DEF ApplyDefaults
  <2> QED
    BY <1>6, <2>2, <2>3, <2>4, <2>5 DEF ApplyDefaults
<1>7. ASSUME NEW i \in Ordinals, CreateStatefulPod(i)
      PROVE  TypeOK'
  <2>1. i \in rec.plan.make /\ rec.plan.rev[i] \in Revs
    BY <1>7 DEF CreateStatefulPod, Lowest
  <2>2. [NoPod EXCEPT !.rev = rec.plan.rev[i], !.phase = "Pending"] \in Pod
    BY <2>1 DEF NoPod, Pod
  <2>3. pods' \in [Ordinals -> Pod]
    BY <1>7, <2>2 DEF CreateStatefulPod, CallFails
  <2>4. rec' \in Reconcile /\ \A j \in rec'.plan.make : rec'.plan.rev[j] \in Revs
    <3>1. FewerCreations(rec', rec)
      BY <1>7, RecUpdate DEF CreateStatefulPod
    <3> QED
      BY <3>1 DEF FewerCreations
  <2>5. budget' \in Budget
    BY <1>7, SpendType DEF CreateStatefulPod, CallFails
  <2> QED
    BY <1>7, <2>3, <2>4, <2>5 DEF CreateStatefulPod
<1>8. ASSUME NEW i \in Ordinals, createPVC(i)
      PROVE  TypeOK'
  <2>1. rec' \in Reconcile /\ \A j \in rec'.plan.make : rec'.plan.rev[j] \in Revs
    <3>1. FewerCreations(rec', rec)
      BY <1>8, RecUpdate DEF createPVC
    <3> QED
      BY <3>1 DEF FewerCreations
  <2>2. budget' \in Budget
    BY <1>8, SpendType DEF createPVC, CallFails
  <2> QED
    BY <1>8, <2>1, <2>2 DEF createPVC, CallFails
<1>9. ASSUME NEW i \in Ordinals, ServerDelete(i)
      PROVE  pods' \in [Ordinals -> Pod]
  <2>1. CASE Exists(pods[i])
    <3>1. [pods[i] EXCEPT !.del = TRUE] \in Pod
      <4>1. pods[i] \in Pod
        BY DEF TypeOK
      <4> QED
        BY <2>1, <4>1, ChangedPod
    <3> QED
      BY <1>9, <2>1, <3>1 DEF ServerDelete
  <2> QED
    BY <1>9, <2>1 DEF ServerDelete
<1>10. ASSUME NEW i \in Ordinals, RestartPod(i)
       PROVE  TypeOK'
  <2>1. rec' \in Reconcile /\ \A j \in rec'.plan.make : rec'.plan.rev[j] \in Revs
    <3>1. FewerCreations(rec', rec)
      BY <1>10, RecUpdate DEF RestartPod
    <3> QED
      BY <3>1 DEF FewerCreations
  <2>2. budget' \in Budget /\ pods' \in [Ordinals -> Pod]
    BY <1>10, <1>9, SpendType DEF RestartPod, CallFails
  <2> QED
    BY <1>10, <2>1, <2>2 DEF RestartPod
<1>11. ASSUME NEW i \in Ordinals, CullPod(i)
       PROVE  TypeOK'
  <2>1. rec' \in Reconcile /\ \A j \in rec'.plan.make : rec'.plan.rev[j] \in Revs
    <3>1. FewerCreations(rec', rec)
      BY <1>11, RecUpdate DEF CullPod
    <3> QED
      BY <3>1 DEF FewerCreations
  <2>2. budget' \in Budget /\ pods' \in [Ordinals -> Pod]
    BY <1>11, <1>9, SpendType DEF CullPod, CallFails
  <2> QED
    BY <1>11, <2>1, <2>2 DEF CullPod
<1>12. ASSUME NEW i \in Ordinals, RollPod(i)
       PROVE  TypeOK'
  <2>1. rec' \in Reconcile /\ \A j \in rec'.plan.make : rec'.plan.rev[j] \in Revs
    <3>1. FewerCreations(rec', rec)
      BY <1>12, RecUpdate DEF RollPod
    <3> QED
      BY <3>1 DEF FewerCreations
  <2>2. budget' \in Budget /\ pods' \in [Ordinals -> Pod]
    BY <1>12, <1>9, SpendType DEF RollPod, CallFails
  <2> QED
    BY <1>12, <2>1, <2>2 DEF RollPod
<1>13. CASE SkipStatus
  BY <1>13 DEF SkipStatus, Reconcile
<1>14. CASE updateAppStatus
  <2>1. FinalStatus \in Status
    BY CompletedType DEF FinalStatus, Reconcile
  <2>2. rec' \in Reconcile /\ rec'.plan = rec.plan
    BY <1>14 DEF updateAppStatus, Outdated, Reconcile
  <2>3. app' \in App /\ cacheFresh' \in BOOLEAN
    BY <1>14, <2>1 DEF updateAppStatus, App
  <2>4. budget' \in Budget
    BY <1>14, SpendType DEF updateAppStatus
  <2> QED
    BY <1>14, <2>2, <2>3, <2>4 DEF updateAppStatus
<1>15. CASE RemoveFinalizer
  <2>1. app' \in App /\ appCache' \in App /\ cacheFresh' \in BOOLEAN
    BY <1>15 DEF RemoveFinalizer, App
  <2>2. budget' \in Budget
    BY <1>15, SpendType DEF RemoveFinalizer
  <2> QED
    BY <1>15, <2>1, <2>2, IdleType DEF RemoveFinalizer
<1>16. CASE Return
  BY <1>16, IdleType DEF Return, Reconcile
<1>17. CASE SyncApp
  BY <1>17 DEF SyncApp, Reconcile
<1>18. ASSUME NEW i \in Ordinals, SyncPod(i)
       PROVE  TypeOK'
  BY <1>18 DEF SyncPod
<1>19. CASE Resync
  BY <1>19 DEF Resync
<1>20. CASE Crash
  <2>1. budget' \in Budget
    BY <1>20, SpendType DEF Crash
  <2> QED
    BY <1>20, <2>1, IdleType DEF Crash, App
<1>21. ASSUME NEW i \in Ordinals, PodRuns(i) \/ PodReadiness(i)
       PROVE  TypeOK'
  <2>1. Exists(pods[i])
    BY <1>21 DEF PodRuns, PodReadiness, Exists
  <2>2. ASSUME NEW c \in ReadyValues
        PROVE  /\ [pods[i] EXCEPT !.phase = "Running", !.cond = c] \in Pod
               /\ [pods[i] EXCEPT !.cond = c] \in Pod
    <3>1. c \in {"none", "False", "True"}
      BY ControllerAssumption
    <3>2. pods[i] \in Pod
      BY DEF TypeOK
    <3> QED
      BY <2>1, <3>1, <3>2, ChangedPod
  <2>3. pods' \in [Ordinals -> Pod]
    BY <1>21, <2>2 DEF PodRuns, PodReadiness
  <2> QED
    BY <1>21, <2>3 DEF PodRuns, PodReadiness, PodsOnly
<1>22. ASSUME NEW i \in Ordinals, PodGone(i)
       PROVE  TypeOK'
  <2>1. NoPod \in Pod
    BY DEF Pod
  <2> QED
    BY <1>22, <2>1 DEF PodGone, PodsOnly
<1>23. ASSUME NEW i \in Ordinals, PodFails(i)
       PROVE  TypeOK'
  <2>1. [pods[i] EXCEPT !.phase = "Failed"] \in Pod
    <3>1. pods[i] \in Pod /\ Exists(pods[i])
      BY <1>23 DEF PodFails, Exists, TypeOK
    <3> QED
      BY <3>1, ChangedPod
  <2>2. budget' \in Budget
    BY <1>23, SpendType DEF PodFails
  <2> QED
    BY <1>23, <2>1, <2>2 DEF PodFails, PodsOnly
<1>24. ASSUME NEW i \in Ordinals, PodDeleted(i) \/ GarbageCollect(i)
       PROVE  TypeOK'
  <2>1. [pods[i] EXCEPT !.del = TRUE] \in Pod
    <3>1. pods[i] \in Pod /\ Exists(pods[i])
      BY <1>24 DEF PodDeleted, GarbageCollect, TypeOK
    <3> QED
      BY <3>1, ChangedPod
  <2>2. budget' \in Budget
    BY <1>24, SpendType DEF PodDeleted, GarbageCollect
  <2> QED
    BY <1>24, <2>1, <2>2 DEF PodDeleted, GarbageCollect, PodsOnly
<1>25. ASSUME NEW op, NEW a \in App, Edited(op, a)
       PROVE  TypeOK'
  <2>1. app' \in App
    BY <1>25 DEF Edited, App
  <2>2. rec' \in Reconcile /\ rec'.plan = rec.plan
    BY <1>25 DEF Edited, Outdated, Reconcile
  <2>3. budget' \in Budget
    BY <1>25, SpendType DEF Edited
  <2> QED
    BY <1>25, <2>1, <2>2, <2>3 DEF Edited
<1>26. CASE EditTemplate
  <2>1. \A r \in Revs : [app EXCEPT !.tmpl = r] \in App
    BY DEF App
  <2> QED
    BY <1>25, <1>26, <2>1 DEF EditTemplate
<1>27. CASE EditReplicas
  <2>1. \A n \in 0 .. MaxReplicas : [app EXCEPT !.replicas = n] \in App
    BY DEF App
  <2> QED
    BY <1>25, <1>27, <2>1 DEF EditReplicas
<1>28. CASE EditPartition
  <2>1. \A n \in 0 .. MaxReplicas : [app EXCEPT !.partition = n] \in App
    BY DEF App
  <2> QED
    BY <1>25, <1>28, <2>1 DEF EditPartition
<1>29. CASE EditPaused
  <2>1. [app EXCEPT !.paused = ~@] \in App
    BY DEF App
  <2> QED
    BY <1>25, <1>29, <2>1 DEF EditPaused
<1>30. CASE DeleteApp
  <2>1. app' \in App
    <3>1. app.fin \in BOOLEAN /\ app.gen + 1 \in Nat
      BY DEF App
    <3> QED
      BY <1>30, <3>1, AppUpdate DEF DeleteApp
  <2>2. rec' \in Reconcile /\ rec'.plan = rec.plan
    BY <1>30 DEF DeleteApp, Outdated, Reconcile
  <2>3. budget' \in Budget
    BY <1>30, SpendType DEF DeleteApp
  <2> QED
    BY <1>30, <2>1, <2>2, <2>3 DEF DeleteApp
<1>31. CASE UNCHANGED vars
  BY <1>31 DEF vars
<1> QED
  BY <1>1, <1>2, <1>3, <1>4, <1>5, <1>6, <1>7, <1>8, <1>10, <1>11, <1>12,
     <1>13, <1>14, <1>15, <1>16, <1>17, <1>18, <1>19, <1>20, <1>21, <1>22,
     <1>23, <1>24, <1>26, <1>27, <1>28, <1>29, <1>30, <1>31
     DEF Next, Controller, Environment

\* The variables keep their types, whatever the user, the API server and the
\* kubelet do, from creation on and from a finished deployment on.
THEOREM TypeCorrect == (Spec => []TypeOK) /\ (DeployedSpec => []TypeOK)
<1>1. Spec => []TypeOK
  BY InitType, NextType, PTL DEF Spec
<1>2. DeployedSpec => []TypeOK
  BY DeployedInitType, NextType, PTL DEF DeployedSpec
<1> QED
  BY <1>1, <1>2
=============================================================================
