---------------------------- MODULE Status_proofs ----------------------------
(***************************************************************************)
(* What the status of an App may say: the generation it claims to have     *)
(* observed never goes back, and a rollout it reports as complete is.      *)
(***************************************************************************)
EXTENDS AppController_proofs

-----------------------------------------------------------------------------
(***************************************************************************)
(* The observed generation.  The status a reconcile carries names the      *)
(* generation of the copy it read; that copy is older than the server but  *)
(* never older than the generation on the server's status, for one         *)
(* reconcile runs at a time and the cache never goes back.                 *)
(***************************************************************************)
ObservedInv ==
    /\ appCache.gen <= app.gen
    /\ app.status.obs <= appCache.gen
    /\ cacheFresh => appCache.status = app.status
    /\ rec.pc = "run" => /\ app.status.obs <= rec.status.obs
                         /\ rec.status.obs <= appCache.gen

LEMMA ObservedTypes ==
    ASSUME TypeOK
    PROVE  /\ {app.gen, appCache.gen, app.status.obs, appCache.status.obs,
               rec.status.obs} \subseteq Nat
           /\ app \in App /\ appCache \in App /\ rec \in Reconcile
           /\ app.status \in Status /\ appCache.status \in Status
           /\ rec.status \in Status
<1>1. app \in App /\ appCache \in App /\ rec \in Reconcile
  BY DEF TypeOK
<1>2. app.status \in Status /\ appCache.status \in Status /\ rec.status \in Status
  BY <1>1 DEF App, Reconcile
<1> QED
  BY <1>1, <1>2 DEF App, Status

\* A step that writes no App carries the reconcile's status on or ends it.
LEMMA ObservedFrame ==
    ASSUME TypeOK, ObservedInv, UNCHANGED <<app, appCache, cacheFresh>>,
           \/ rec'.pc = "run" => rec.pc = "run" /\ rec'.status.obs = rec.status.obs
    PROVE  ObservedInv'
  BY DEF ObservedInv

\* The status of a reconcile that has just begun is that of the cached App's
\* generation.
LEMMA BeginObserved ==
    ASSUME NEW plan, NEW passes, NEW f
    PROVE  Begin(plan, passes, f).status.obs = appCache.gen
  BY DEF Begin, updateStatus

\* The calls of the plan leave the observed generation of the status alone.
LEMMA CallObserved ==
    ASSUME TypeOK, NEW i,
           \/ CreateStatefulPod(i) \/ createPVC(i) \/ RestartPod(i)
           \/ CullPod(i) \/ RollPod(i)
    PROVE  /\ UNCHANGED <<app, appCache, cacheFresh>>
           /\ rec.pc = "run"
           /\ rec'.status.obs = rec.status.obs
<1> USE ObservedTypes DEF Reconcile, Status, Running
<1>1. CASE CreateStatefulPod(i)
  BY <1>1 DEF CreateStatefulPod
<1>2. CASE createPVC(i)
  BY <1>2 DEF createPVC
<1>3. CASE RestartPod(i)
  BY <1>3 DEF RestartPod
<1>4. CASE CullPod(i)
  BY <1>4 DEF CullPod
<1>5. CASE RollPod(i)
  <2>1. \A s : rec.status.obs = [rec.status EXCEPT !.current = s].obs
    OBVIOUS
  <2>2. rec'.status = [rec.status EXCEPT !.current = @ - 1] \/ rec'.status = rec.status
    BY <1>5 DEF RollPod, Plan
  <2> QED
    BY <1>5, <2>1, <2>2 DEF RollPod
<1> QED
  BY <1>1, <1>2, <1>3, <1>4, <1>5

\* Update through the cached object: its status is the server's when it succeeds.
LEMMA UpdateObserved ==
    ASSUME TypeOK, ObservedInv, NEW obj \in App, UpdateFromCache(obj),
           obj.gen = appCache.gen, obj.status = appCache.status, UNCHANGED rec
    PROVE  /\ ObservedInv'
           /\ app'.status.obs = app.status.obs
<1> USE ObservedTypes
<1>1. CASE cacheFresh /\ app' # app
  <2>1. app' = [obj EXCEPT !.gen = IF obj.replicas = app.replicas
                                   THEN app.gen ELSE app.gen + 1]
    BY <1>1 DEF UpdateFromCache
  <2>2. app'.status = app.status /\ app'.gen >= app.gen /\ app'.gen \in Nat
    BY <1>1, <2>1 DEF App, ObservedInv
  <2>3. appCache'.gen = appCache.gen /\ ~cacheFresh'
    BY <1>1 DEF UpdateFromCache
  <2> QED
    BY <2>2, <2>3 DEF ObservedInv
<1>2. CASE app' = app
  BY <1>2 DEF UpdateFromCache, ObservedInv
<1> QED
  BY <1>1, <1>2 DEF UpdateFromCache

LEMMA ControllerObserved ==
    ASSUME TypeOK, ObservedInv, Controller
    PROVE  ObservedInv' /\ app'.status.obs >= app.status.obs
<1> USE ObservedTypes
<1>1. CASE ReconcileGone \/ RevisionFails
  <2>1. UNCHANGED <<app, appCache, cacheFresh, rec>>
    BY <1>1 DEF ReconcileGone, RevisionFails
  <2> QED
    BY <2>1 DEF ObservedInv
<1>2. CASE AddFinalizer
  <2>1. [appCache EXCEPT !.fin = TRUE] \in App
    BY AppUpdate
  <2>2. /\ [appCache EXCEPT !.fin = TRUE].gen = appCache.gen
        /\ [appCache EXCEPT !.fin = TRUE].status = appCache.status
    BY DEF App
  <2>3. UpdateFromCache([appCache EXCEPT !.fin = TRUE]) /\ UNCHANGED rec
    BY <1>2 DEF AddFinalizer
  <2>4. ObservedInv' /\ app'.status.obs = app.status.obs
    BY <2>1, <2>2, <2>3, UpdateObserved
  <2> QED
    BY <2>4
<1>3. CASE ScaleToZero
  <2>1. [appCache EXCEPT !.replicas = 0] \in App
    <3>1. 0 \in 0 .. MaxReplicas
      BY PlanAssumption
    <3> QED
      BY <3>1, AppUpdate
  <2>2. /\ [appCache EXCEPT !.replicas = 0].gen = appCache.gen
        /\ [appCache EXCEPT !.replicas = 0].status = appCache.status
    BY DEF App
  <2>3. UpdateFromCache([appCache EXCEPT !.replicas = 0]) /\ UNCHANGED rec
    BY <1>3 DEF ScaleToZero
  <2>4. ObservedInv' /\ app'.status.obs = app.status.obs
    BY <2>1, <2>2, <2>3, UpdateObserved
  <2> QED
    BY <2>4
<1>4. CASE UpdateApp
  <2>1. UNCHANGED <<app, appCache, cacheFresh>> /\ rec'.status.obs = appCache.gen
    BY <1>4, BeginObserved DEF UpdateApp
  <2> QED
    BY <2>1 DEF ObservedInv
<1>5. CASE ApplyDefaults
  <2>1. rec'.status.obs = appCache.gen /\ UNCHANGED appCache
    BY <1>5, BeginObserved DEF ApplyDefaults
  <2>2. CASE UNCHANGED <<app, cacheFresh>>
    BY <2>1, <2>2 DEF ObservedInv
  <2>3. CASE /\ cacheFresh /\ ~cacheFresh'
             /\ app' = [setDefaultRollingUpdateStrategy(appCache) EXCEPT !.gen = @ + 1]
    <3>1. app'.gen = appCache.gen + 1 /\ app'.status = appCache.status
      BY <2>3 DEF setDefaultRollingUpdateStrategy, App
    <3> QED
      BY <2>1, <2>3, <3>1 DEF ObservedInv
  <2> QED
    BY <1>5, <2>2, <2>3 DEF ApplyDefaults
<1>6. ASSUME NEW i, \/ CreateStatefulPod(i) \/ createPVC(i) \/ RestartPod(i)
                    \/ CullPod(i) \/ RollPod(i)
      PROVE  ObservedInv' /\ app'.status.obs >= app.status.obs
  BY <1>6, CallObserved, ObservedFrame
<1>7. CASE SkipStatus \/ Return
  <2>1. UNCHANGED <<app, appCache, cacheFresh>> /\ rec'.pc # "run"
    BY <1>7 DEF SkipStatus, Return, Idle, Reconcile
  <2> QED
    BY <2>1, ObservedFrame
<1>8. CASE updateAppStatus
  <2>1. rec.pc = "run" /\ UNCHANGED appCache
    BY <1>8 DEF updateAppStatus, PlanDone, Running
  <2>2. FinalStatus.obs = rec.status.obs
    BY DEF FinalStatus, completeRollingUpdate, Status
  <2>3. CASE app' = [app EXCEPT !.status = FinalStatus] /\ ~cacheFresh' /\ rec'.pc = "end"
    <3>1. app'.gen = app.gen /\ app'.status.obs = rec.status.obs
      BY <2>2, <2>3 DEF App
    <3> QED
      BY <2>1, <2>3, <3>1 DEF ObservedInv
  <2>4. CASE /\ UNCHANGED <<app, cacheFresh>>
             /\ rec'.pc = "end" \/ rec' = [rec EXCEPT !.fresh = TRUE]
    <3>1. rec'.pc = "run" => rec'.status.obs = rec.status.obs
      BY <2>4 DEF Reconcile
    <3> QED
      BY <2>1, <2>4, <3>1 DEF ObservedInv
  <2> QED
    BY <1>8, <2>3, <2>4 DEF updateAppStatus, Outdated, Reconcile
<1>9. CASE RemoveFinalizer
  <2>1. /\ appCache'.gen = appCache.gen /\ appCache'.status = appCache.status
        /\ rec'.pc = "idle"
    BY <1>9 DEF RemoveFinalizer, App, Idle
  <2>2. app'.gen = app.gen /\ app'.status = app.status /\ (cacheFresh' => cacheFresh)
    <3>1. \/ app' = [app EXCEPT !.exists = FALSE, !.fin = FALSE] /\ cacheFresh' = FALSE
          \/ UNCHANGED <<app, cacheFresh>>
      BY <1>9 DEF RemoveFinalizer
    <3>2. app'.gen = app.gen /\ app'.status = app.status
      BY <3>1 DEF App
    <3>3. cacheFresh' => cacheFresh
      BY <3>1
    <3> QED
      BY <3>2, <3>3
  <2> QED
    BY <2>1, <2>2 DEF ObservedInv
<1> QED
  BY <1>1, <1>2, <1>3, <1>4, <1>5, <1>6, <1>7, <1>8, <1>9 DEF Controller

LEMMA EnvironmentObserved ==
    ASSUME TypeOK, ObservedInv, Environment
    PROVE  ObservedInv' /\ app'.status.obs >= app.status.obs
<1> USE ObservedTypes
<1>1. CASE SyncApp
  <2>1. /\ UNCHANGED app /\ appCache' = app
        /\ rec'.pc = rec.pc /\ rec'.status = rec.status
    BY <1>1 DEF SyncApp, Reconcile
  <2> QED
    BY <2>1 DEF ObservedInv
<1>2. CASE Crash
  <2>1. UNCHANGED app /\ appCache' = app /\ rec'.pc = "idle"
    BY <1>2 DEF Crash, Idle
  <2> QED
    BY <2>1 DEF ObservedInv
<1>3. ASSUME NEW i, \/ SyncPod(i) \/ PodRuns(i) \/ PodReadiness(i) \/ PodGone(i)
                    \/ PodFails(i) \/ PodDeleted(i) \/ GarbageCollect(i)
      PROVE  ObservedInv' /\ app'.status.obs >= app.status.obs
  <2>1. UNCHANGED <<app, appCache, cacheFresh, rec>>
    BY <1>3 DEF SyncPod, PodRuns, PodReadiness, PodGone, PodFails, PodDeleted,
                GarbageCollect, PodsOnly
  <2> QED
    BY <2>1 DEF ObservedInv
<1>4. CASE Resync
  BY <1>4 DEF Resync, ObservedInv
<1>5. ASSUME app'.gen = app.gen + 1, app'.status = app.status, ~cacheFresh',
             rec' = Outdated(rec), UNCHANGED appCache
      PROVE  ObservedInv' /\ app'.status.obs >= app.status.obs
  <2>1. rec'.pc = rec.pc /\ rec'.status = rec.status
    BY <1>5 DEF Outdated, Reconcile
  <2> QED
    BY <1>5, <2>1 DEF ObservedInv
<1>6. ASSUME NEW op, NEW a \in App, Edited(op, a), a.status = app.status
      PROVE  ObservedInv' /\ app'.status.obs >= app.status.obs
  <2>1. app'.gen = app.gen + 1 /\ app'.status = app.status /\ ~cacheFresh'
    BY <1>6 DEF Edited, App
  <2> QED
    BY <1>5, <1>6, <2>1 DEF Edited
<1>7. CASE EditTemplate
  <2>1. \A r \in Revs : /\ [app EXCEPT !.tmpl = r] \in App
                        /\ [app EXCEPT !.tmpl = r].status = app.status
    BY DEF App
  <2> QED
    BY <1>6, <1>7, <2>1 DEF EditTemplate
<1>8. CASE EditReplicas
  <2>1. \A n \in 0 .. MaxReplicas : /\ [app EXCEPT !.replicas = n] \in App
                                    /\ [app EXCEPT !.replicas = n].status = app.status
    BY DEF App
  <2> QED
    BY <1>6, <1>8, <2>1 DEF EditReplicas
<1>9. CASE EditPartition
  <2>1. \A n \in 0 .. MaxReplicas : /\ [app EXCEPT !.partition = n] \in App
                                    /\ [app EXCEPT !.partition = n].status = app.status
    BY DEF App
  <2> QED
    BY <1>6, <1>9, <2>1 DEF EditPartition
<1>10. CASE EditPaused
  <2>1. [app EXCEPT !.paused = ~@] \in App /\ [app EXCEPT !.paused = ~@].status = app.status
    BY DEF App
  <2> QED
    BY <1>6, <1>10, <2>1 DEF EditPaused
<1>11. CASE DeleteApp
  <2>1. app'.gen = app.gen + 1 /\ app'.status = app.status
    BY <1>11 DEF DeleteApp, App
  <2> QED
    BY <1>5, <1>11, <2>1 DEF DeleteApp
<1> QED
  BY <1>1, <1>2, <1>3, <1>4, <1>7, <1>8, <1>9, <1>10, <1>11 DEF Environment

LEMMA ObservedInit == (Init => ObservedInv) /\ (DeployedInit => ObservedInv)
<1>1. Init => ObservedInv
  BY DEF Init, ObservedInv, NewApp, NoStatus, Idle
<1>2. DeployedInit => ObservedInv
  BY DEF DeployedInit, ObservedInv, NewApp, updateStatus, Idle
<1> QED
  BY <1>1, <1>2

LEMMA ObservedNext ==
    TypeOK /\ ObservedInv /\ [Next]_vars
        => ObservedInv' /\ [app'.status.obs >= app.status.obs]_app
<1> SUFFICES ASSUME TypeOK, ObservedInv, [Next]_vars
             PROVE  ObservedInv' /\ [app'.status.obs >= app.status.obs]_app
  OBVIOUS
<1>1. CASE Next
  BY <1>1, ControllerObserved, EnvironmentObserved DEF Next
<1>2. CASE UNCHANGED vars
  BY <1>2 DEF vars, ObservedInv
<1> QED
  BY <1>1, <1>2

\* The observed generation of the status never goes back: not when a conflict
\* makes updateAppStatus put the status of an older copy on a newer App, not
\* across restarts, failed calls and edits.
THEOREM ObservedGenerationGrows ==
    (Spec => ObservedNeverRegresses) /\ (DeployedSpec => ObservedNeverRegresses)
<1>1. Spec => ObservedNeverRegresses
  BY InitType, NextType, ObservedInit, ObservedNext, PTL DEF Spec, ObservedNeverRegresses
<1>2. DeployedSpec => ObservedNeverRegresses
  BY DeployedInitType, NextType, ObservedInit, ObservedNext, PTL
     DEF DeployedSpec, ObservedNeverRegresses
<1> QED
  BY <1>1, <1>2

-----------------------------------------------------------------------------
(***************************************************************************)
(* A rollout reported as complete.  Any number of changes of the template, *)
(* the partition and the pause, and a deletion; nobody else takes Pods     *)
(* away, and the number of replicas stays.                                 *)
(***************************************************************************)
NoScaling ==
    /\ StrategyType = "RollingUpdate"
    /\ ~InitUnordered
    /\ UserOps \subseteq {"template", "partition", "paused", "delete"}
    /\ MaxPodLoss = 0

\* An App is not deleted by halves: what is in the cache follows the server.
DeletingInv ==
    /\ appCache.deleting => app.deleting
    /\ cacheFresh => appCache.deleting = app.deleting

\* Copies of one generation have one template and one partition.
CopyInv ==
    /\ app.exists
    /\ \A a \in {app, appCache} : ~a.unordered /\ a.replicas = InitReplicas
    /\ cacheFresh => appCache.gen = app.gen
    /\ appCache.gen = app.gen => /\ appCache.tmpl = app.tmpl
                                 /\ appCache.partition = app.partition
    /\ ~rec.last

\* A Pod the cache shows is the one on the server, if there is one there, and a
\* Pod it does not show yet is not being deleted.
SightInv ==
    \A i \in Ordinals :
        /\ i \notin Replicas => ~Exists(pods[i]) /\ ~Exists(podCache[i])
        /\ pods[i].phase # "Failed" /\ podCache[i].phase # "Failed"
        /\ Exists(podCache[i]) /\ Exists(pods[i]) => pods[i].rev = podCache[i].rev
        /\ ~Exists(podCache[i]) => ~pods[i].del

\* What is still to be created was not there or is there for good; what is to
\* be deleted is the Pod in the cache.  A reconcile that knows the present
\* generation creates Pods of the present template.
CallsInv ==
    /\ rec.plan.restart = {}
    /\ rec.plan.cull = {}
    /\ rec.plan.make # {} => rec.pc = "run"
    /\ rec.plan.make \cap rec.plan.roll = {}
    /\ \A i \in rec.plan.make :
          /\ i \in Replicas
          /\ ~Exists(podCache[i]) \/ (Exists(pods[i]) /\ ~pods[i].del)
          /\ rec.status.obs = app.gen /\ i >= app.partition
                => rec.plan.rev[i] = app.tmpl
    /\ \A i \in rec.plan.roll : Exists(podCache[i]) \/ ~Exists(pods[i])

\* At or above the partition no Pod is left of another revision.
AllUpdated ==
    \A i \in Ordinals : i >= app.partition /\ Exists(pods[i]) => pods[i].rev = app.tmpl

Full(s) ==
    /\ s.obs = app.gen
    /\ s.replicas = InitReplicas
    /\ s.updated = InitReplicas

\* A status about the present generation that counts every replica as updated,
\* on the server or still to be written there, is true.
TruthInv ==
    /\ Full(app.status) => AllUpdated
    /\ rec.pc = "run" /\ Full(rec.status) => AllUpdated

DoneInv ==
    /\ budget.podLoss = 0
    /\ DeletingInv
    /\ ~app.deleting => CopyInv /\ SightInv /\ CallsInv /\ TruthInv

LiveInv == CopyInv /\ SightInv /\ CallsInv /\ TruthInv

-----------------------------------------------------------------------------
(***************************************************************************)
(* What a reconcile plans and reports from the caches.                     *)
(***************************************************************************)
LEMMA DonePlan ==
    ASSUME NoScaling, TypeOK, CopyInv, SightInv, NEW cur \in Revs
    PROVE  LET p == applyUpdate(appCache, cur, appCache.tmpl, podCache)
           IN /\ p.restart = {}
              /\ p.cull = {}
              /\ \A i \in p.make :
                    /\ i \in Replicas
                    /\ ~Exists(podCache[i])
                    /\ appCache.gen = app.gen /\ i >= app.partition
                          => p.rev[i] = app.tmpl
              /\ \A i \in p.roll : Exists(podCache[i])
<1> DEFINE R == replicaList(appCache, cur, appCache.tmpl, podCache)
           V == visited(appCache, R)
           p == applyUpdate(appCache, cur, appCache.tmpl, podCache)
<1>1. Slots(appCache) = Replicas
  BY DEF CopyInv, Slots, Replicas
<1>2. invalidPods(appCache, podCache) = {}
  BY <1>1 DEF SightInv, invalidPods
<1>3. V \subseteq Replicas
  BY <1>1 DEF visited
<1>4. ASSUME NEW i \in Ordinals, Exists(podCache[i])
      PROVE  R[i] = podCache[i]
  BY <1>4 DEF replicaList
<1>5. ASSUME NEW i \in Ordinals, ~Exists(podCache[i])
      PROVE  /\ R[i].phase = ""
             /\ i >= appCache.partition => R[i].rev = appCache.tmpl
  <2>1. R[i] = newVersionedPodForApp(appCache, cur, appCache.tmpl, i, podCache)
    BY <1>5 DEF replicaList
  <2>2. R[i].phase = ""
    BY <2>1 DEF newVersionedPodForApp, NoPod
  <2>3. appCache.partition \in Int /\ i \in Int
    BY PlanAssumption DEF TypeOK, App, Ordinals
  <2>4. ASSUME i >= appCache.partition
        PROVE  ~isCurrentRevisionExpected(appCache, appCache.tmpl, i, podCache)
    BY <2>3, <2>4 DEF isCurrentRevisionExpected, CopyInv
  <2>5. i >= appCache.partition => R[i].rev = appCache.tmpl
    BY <2>1, <2>4 DEF newVersionedPodForApp, NoPod
  <2> QED
    BY <2>2, <2>5
<1>6. p.restart = {}
  <2>1. \A i \in Ordinals : R[i].phase # "Failed"
    BY <1>4, <1>5 DEF SightInv
  <2>2. V \subseteq Ordinals
    BY DEF visited, Slots
  <2> QED
    BY <2>1, <2>2 DEF applyUpdate
<1>7. p.cull = {}
  BY <1>2 DEF applyUpdate, culled
<1>8. ASSUME NEW i \in p.make
      PROVE  /\ i \in Replicas
             /\ ~Exists(podCache[i])
             /\ appCache.gen = app.gen /\ i >= app.partition
                   => p.rev[i] = app.tmpl
  <2>1. i \in V /\ ~Exists(R[i]) /\ p.rev[i] = R[i].rev
    <3>1. i \in V /\ ~Exists(R[i])
      BY DEF applyUpdate
    <3>2. i \in Ordinals
      BY <3>1 DEF visited, Slots
    <3> QED
      BY <3>1, <3>2 DEF applyUpdate
  <2>2. i \in Replicas /\ i \in Ordinals
    BY <1>3, <2>1 DEF Replicas
  <2>3. ~Exists(podCache[i])
    BY <1>4, <2>1, <2>2
  <2>4. i >= appCache.partition => p.rev[i] = appCache.tmpl
    BY <1>5, <2>1, <2>2, <2>3
  <2> QED
    BY <2>2, <2>3, <2>4 DEF CopyInv
<1>9. ASSUME NEW i \in p.roll
      PROVE  Exists(podCache[i])
  <2>1. i \in rolled(appCache, R, appCache.tmpl)
    BY DEF applyUpdate
  <2>2. i \in Ordinals /\ i >= appCache.partition /\ R[i].rev # appCache.tmpl
    BY <2>1 DEF rolled, Slots
  <2> QED
    BY <1>5, <2>2
<1> QED
  BY <1>6, <1>7, <1>8, <1>9

\* Two sets of Pods of which one holds the other and which count the same are
\* one set.
LEMMA SameCount ==
    ASSUME NEW S, NEW T, S \subseteq T, T \subseteq Ordinals,
           Cardinality(S) = Cardinality(T)
    PROVE  S = T
<1>1. IsFiniteSet(Ordinals)
  BY PlanAssumption, FS_Interval DEF Ordinals
<1>2. S \in SUBSET T /\ T \in SUBSET Ordinals
  OBVIOUS
<1>3. IsFiniteSet(T)
  BY <1>1, <1>2, FS_Subset
<1> QED
  BY <1>2, <1>3, FS_Subset

LEMMA ReplicasCount == Cardinality(Replicas) = InitReplicas
<1>1. InitReplicas \in Nat /\ InitReplicas <= MaxReplicas /\ MaxReplicas \in Nat
  BY ControllerAssumption, PlanAssumption
<1>2. Replicas = 0 .. (InitReplicas - 1)
  BY <1>1 DEF Replicas, Ordinals
<1>3. Cardinality(0 .. (InitReplicas - 1)) =
          IF 0 > InitReplicas - 1 THEN 0 ELSE InitReplicas - 1 - 0 + 1
  BY <1>1, FS_Interval
<1> QED
  BY <1>1, <1>2, <1>3

\* A status that counts every replica as updated is true when the copy it was
\* made from is of the present generation.
LEMMA DoneStatus ==
    ASSUME TypeOK, CopyInv, SightInv, NEW plan, NEW passes, NEW f,
           Full(Begin(plan, passes, f).status)
    PROVE  AllUpdated
<1> DEFINE T == {i \in Ordinals : Exists(podCache[i])}
           S == {i \in Ordinals : /\ Exists(podCache[i])
                                  /\ ~podCache[i].del
                                  /\ podCache[i].rev = appCache.tmpl}
<1>1. /\ Begin(plan, passes, f).status.obs = appCache.gen
      /\ Begin(plan, passes, f).status.replicas = Cardinality(T)
      /\ Begin(plan, passes, f).status.updated = Cardinality(S)
  BY DEF Begin, updateStatus, Count
<1>2. appCache.gen = app.gen /\ Cardinality(T) = InitReplicas /\ Cardinality(S) = InitReplicas
  BY <1>1 DEF Full
<1>3. S = T
  BY <1>2, SameCount
<1>4. T = Replicas
  <2>1. T \subseteq Replicas /\ Replicas \subseteq Ordinals
    BY DEF SightInv, Replicas
  <2> QED
    BY <1>2, <2>1, ReplicasCount, SameCount
<1>5. ASSUME NEW i \in Ordinals, Exists(pods[i])
      PROVE  pods[i].rev = app.tmpl
  <2>1. i \in S
    BY <1>3, <1>4, <1>5 DEF SightInv
  <2> QED
    BY <1>2, <1>5, <2>1 DEF SightInv, CopyInv
<1> QED
  BY <1>5 DEF AllUpdated

-----------------------------------------------------------------------------
(***************************************************************************)
(* Deletion is for good, and nobody else takes Pods away.                  *)
(***************************************************************************)
LEMMA SpendOther ==
    ASSUME NoScaling, TypeOK, budget.podLoss = 0, NEW b, Spend(b),
           b \in {"edits", "apiFail", "crash"}
    PROVE  budget'.podLoss = 0
  BY DEF Spend, TypeOK, Budget

LEMMA NoLoss ==
    ASSUME TypeOK, budget.podLoss = 0
    PROVE  ~Spend("podLoss")
  BY DEF Spend, TypeOK, Budget

LEMMA UpdateDeleting ==
    ASSUME NoScaling, TypeOK, DeletingInv, budget.podLoss = 0, NEW obj \in App,
           UpdateFromCache(obj), obj.deleting = appCache.deleting
    PROVE  /\ DeletingInv'
           /\ budget'.podLoss = 0
           /\ app.deleting => app'.deleting
<1> USE ObservedTypes
<1>1. budget'.podLoss = 0
  BY SpendOther DEF UpdateFromCache
<1>2. \A g \in Nat : [obj EXCEPT !.gen = g].deleting = obj.deleting
  BY DEF App
<1>3. CASE cacheFresh /\ ~cacheFresh' /\ app'.deleting = obj.deleting
  BY <1>1, <1>3 DEF DeletingInv, UpdateFromCache
<1>4. CASE UNCHANGED <<app, cacheFresh>>
  BY <1>1, <1>4 DEF DeletingInv, UpdateFromCache
<1> QED
  BY <1>2, <1>3, <1>4 DEF UpdateFromCache, App

LEMMA DeletingNext ==
    ASSUME NoScaling, TypeOK, DeletingInv, budget.podLoss = 0, Next
    PROVE  /\ DeletingInv'
           /\ budget'.podLoss = 0
           /\ app.deleting => app'.deleting
<1> USE ObservedTypes
<1>1. CASE AddFinalizer
  <2>1. [appCache EXCEPT !.fin = TRUE] \in App
    BY AppUpdate
  <2>2. [appCache EXCEPT !.fin = TRUE].deleting = appCache.deleting
    BY DEF App
  <2>3. UpdateFromCache([appCache EXCEPT !.fin = TRUE])
    BY <1>1 DEF AddFinalizer
  <2> QED
    BY <2>1, <2>2, <2>3, UpdateDeleting
<1>2. CASE ScaleToZero
  <2>1. [appCache EXCEPT !.replicas = 0] \in App
    <3>1. 0 \in 0 .. MaxReplicas
      BY PlanAssumption
    <3> QED
      BY <3>1, AppUpdate
  <2>2. [appCache EXCEPT !.replicas = 0].deleting = appCache.deleting
    BY DEF App
  <2>3. UpdateFromCache([appCache EXCEPT !.replicas = 0])
    BY <1>2 DEF ScaleToZero
  <2> QED
    BY <2>1, <2>2, <2>3, UpdateDeleting
<1>3. CASE UNCHANGED <<app, appCache, cacheFresh, budget>>
  BY <1>3 DEF DeletingInv
<1>4. CASE UNCHANGED <<app, appCache, cacheFresh>> /\ Spend("apiFail")
  BY <1>4, SpendOther DEF DeletingInv
<1>5. CASE ReconcileGone \/ UpdateApp \/ RevisionFails \/ SkipStatus \/ Return
  BY <1>3, <1>4, <1>5
     DEF ReconcileGone, UpdateApp, RevisionFails, SkipStatus, Return
<1>6. ASSUME NEW i, \/ CreateStatefulPod(i) \/ createPVC(i) \/ RestartPod(i)
                    \/ CullPod(i) \/ RollPod(i)
      PROVE  UNCHANGED <<app, appCache, cacheFresh>> /\ (UNCHANGED budget \/ Spend("apiFail"))
  BY <1>6 DEF CreateStatefulPod, createPVC, RestartPod, CullPod, RollPod, CallFails
<1>7. CASE ApplyDefaults
  <2>1. budget'.podLoss = 0
    BY <1>7, SpendOther DEF ApplyDefaults
  <2>2. CASE UNCHANGED <<app, cacheFresh>>
    BY <1>7, <2>1, <2>2 DEF ApplyDefaults, DeletingInv
  <2>3. CASE /\ cacheFresh /\ ~cacheFresh'
             /\ app' = [setDefaultRollingUpdateStrategy(appCache) EXCEPT !.gen = @ + 1]
    <3>1. app'.deleting = appCache.deleting
      BY <2>3 DEF setDefaultRollingUpdateStrategy, App
    <3> QED
      BY <1>7, <2>1, <2>3, <3>1 DEF ApplyDefaults, DeletingInv
  <2> QED
    BY <1>7, <2>2, <2>3 DEF ApplyDefaults
<1>8. CASE updateAppStatus
  <2>1. budget'.podLoss = 0
    BY <1>8, SpendOther DEF updateAppStatus
  <2>2. app'.deleting = app.deleting /\ UNCHANGED appCache
    BY <1>8 DEF updateAppStatus, App
  <2>3. ~cacheFresh' \/ cacheFresh
    BY <1>8 DEF updateAppStatus
  <2> QED
    BY <2>1, <2>2, <2>3 DEF DeletingInv
<1>9. CASE RemoveFinalizer
  <2>1. budget'.podLoss = 0
    BY <1>9, SpendOther DEF RemoveFinalizer
  <2>2. app'.deleting = app.deleting /\ appCache'.deleting = appCache.deleting
    BY <1>9 DEF RemoveFinalizer, App
  <2>3. ~cacheFresh' \/ cacheFresh
    BY <1>9 DEF RemoveFinalizer
  <2> QED
    BY <2>1, <2>2, <2>3 DEF DeletingInv
<1>10. CASE SyncApp
  BY <1>10 DEF SyncApp, DeletingInv
<1>11. ASSUME NEW i, SyncPod(i) \/ PodRuns(i) \/ PodReadiness(i) \/ PodGone(i)
                     \/ GarbageCollect(i)
       PROVE  UNCHANGED <<app, appCache, cacheFresh, budget>>
  BY <1>11 DEF SyncPod, PodRuns, PodReadiness, PodGone, GarbageCollect, PodsOnly
<1>12. CASE Resync
  BY <1>3, <1>12 DEF Resync
<1>13. CASE Crash
  BY <1>13, SpendOther DEF Crash, DeletingInv
<1>14. ASSUME NEW i PROVE ~PodFails(i) /\ ~PodDeleted(i)
  BY NoLoss DEF PodFails, PodDeleted
<1>15. ASSUME NEW op, NEW a \in App, Edited(op, a), a.deleting = app.deleting
       PROVE  DeletingInv' /\ budget'.podLoss = 0 /\ app'.deleting = app.deleting
  <2>1. app'.deleting = app.deleting /\ ~cacheFresh' /\ UNCHANGED appCache
    BY <1>15 DEF Edited, App
  <2>2. budget'.podLoss = 0
    BY <1>15, SpendOther DEF Edited
  <2> QED
    BY <2>1, <2>2 DEF DeletingInv
<1>16. CASE EditTemplate \/ EditReplicas \/ EditPartition \/ EditPaused
  <2>1. /\ \A r \in Revs : /\ [app EXCEPT !.tmpl = r] \in App
                           /\ [app EXCEPT !.tmpl = r].deleting = app.deleting
        /\ \A n \in 0 .. MaxReplicas : /\ [app EXCEPT !.replicas = n] \in App
                                       /\ [app EXCEPT !.replicas = n].deleting = app.deleting
                                       /\ [app EXCEPT !.partition = n] \in App
                                       /\ [app EXCEPT !.partition = n].deleting = app.deleting
        /\ [app EXCEPT !.paused = ~@] \in App
        /\ [app EXCEPT !.paused = ~@].deleting = app.deleting
    BY DEF App
  <2> QED
    BY <1>15, <1>16, <2>1 DEF EditTemplate, EditReplicas, EditPartition, EditPaused
<1>17. CASE DeleteApp
  <2>1. app'.deleting /\ ~cacheFresh' /\ UNCHANGED appCache
    BY <1>17 DEF DeleteApp, App
  <2>2. budget'.podLoss = 0
    BY <1>17, SpendOther DEF DeleteApp
  <2> QED
    BY <2>1, <2>2 DEF DeletingInv
<1>18. CASE Controller
  <2>1. CASE \E i \in Ordinals : \/ CreateStatefulPod(i) \/ createPVC(i) \/ RestartPod(i)
                                 \/ CullPod(i) \/ RollPod(i)
    BY <1>3, <1>4, <1>6, <2>1
  <2> QED
    BY <1>1, <1>2, <1>5, <1>7, <1>8, <1>9, <1>18, <2>1 DEF Controller
<1>19. CASE Environment
  <2>1. CASE \E i \in Ordinals : \/ SyncPod(i) \/ PodRuns(i) \/ PodReadiness(i)
                                 \/ PodGone(i) \/ GarbageCollect(i)
    BY <1>3, <1>11, <2>1
  <2> QED
    BY <1>10, <1>12, <1>13, <1>14, <1>16, <1>17, <1>19, <2>1 DEF Environment
<1> QED
  BY <1>18, <1>19 DEF Next

-----------------------------------------------------------------------------
(***************************************************************************)
(* The steps that leave the App and its copies alone.                      *)
(***************************************************************************)

\* q is what is left of the reconcile r: fewer calls, the same counts.
LessToDo(q, r) ==
    /\ q.plan.rev = r.plan.rev
    /\ q.plan.make \subseteq r.plan.make
    /\ q.plan.restart \subseteq r.plan.restart
    /\ q.plan.cull \subseteq r.plan.cull
    /\ q.plan.roll \subseteq r.plan.roll
    /\ q.plan.make # {} => q.pc = "run"
    /\ q.pc = "run" => r.pc = "run"
    /\ q.last = r.last
    /\ q.status.obs = r.status.obs
    /\ q.status.replicas = r.status.replicas
    /\ q.status.updated = r.status.updated

\* The reconcile is over.
Over(q) ==
    /\ q.pc # "run"
    /\ q.plan.make = {} /\ q.plan.restart = {} /\ q.plan.cull = {} /\ q.plan.roll = {}
    /\ ~q.last

\* What becomes of the Pods: none appears, changes its revision or fails; one
\* that is being deleted from now on is in the cache; one that is to be created
\* and is there stays.
PodsGoOn ==
    \A i \in Ordinals :
        /\ Exists(pods[i])' => Exists(pods[i]) /\ pods'[i].rev = pods[i].rev
        /\ pods'[i].phase # "Failed"
        /\ pods'[i].del => pods[i].del \/ Exists(podCache[i])
        /\ i \in rec'.plan.make /\ Exists(pods[i]) /\ ~pods[i].del
              => Exists(pods[i])' /\ ~pods'[i].del

LEMMA QuietStep ==
    ASSUME TypeOK, LiveInv, PodsGoOn, LessToDo(rec', rec) \/ Over(rec'),
           UNCHANGED <<app, appCache, podCache>>, cacheFresh' => cacheFresh
    PROVE  LiveInv'
<1>1. CopyInv'
  <2>1. ~rec'.last
    BY DEF LiveInv, CopyInv, LessToDo, Over
  <2> QED
    BY <2>1 DEF LiveInv, CopyInv
<1>2. SightInv'
  BY DEF LiveInv, SightInv, PodsGoOn, Replicas, Exists
<1>3. CallsInv'
  <2>1. CASE Over(rec')
    BY <2>1 DEF Over, CallsInv
  <2>2. CASE LessToDo(rec', rec)
    <3>1. /\ rec'.plan.restart = {} /\ rec'.plan.cull = {}
          /\ rec'.plan.make # {} => rec'.pc = "run"
          /\ rec'.plan.make \cap rec'.plan.roll = {}
      BY <2>2 DEF LiveInv, CallsInv, LessToDo
    <3>2. ASSUME NEW i \in rec'.plan.make
          PROVE  /\ i \in Replicas
                 /\ ~Exists(podCache[i]) \/ (Exists(pods[i])' /\ ~pods'[i].del)
                 /\ rec'.status.obs = app.gen /\ i >= app.partition
                       => rec'.plan.rev[i] = app.tmpl
      <4>1. i \in rec.plan.make /\ i \in Ordinals
        BY <2>2 DEF LiveInv, CallsInv, LessToDo, Replicas
      <4>2. ~Exists(podCache[i]) \/ (Exists(pods[i])' /\ ~pods'[i].del)
        BY <4>1 DEF LiveInv, CallsInv, PodsGoOn
      <4> QED
        BY <2>2, <4>1, <4>2 DEF LiveInv, CallsInv, LessToDo
    <3>3. ASSUME NEW i \in rec'.plan.roll
          PROVE  Exists(podCache[i]) \/ ~Exists(pods[i])'
      <4>1. i \in rec.plan.roll
        BY <2>2 DEF LessToDo
      <4>2. i \in Ordinals
        BY <4>1 DEF TypeOK, Reconcile, Plan
      <4> QED
        BY <4>1, <4>2 DEF LiveInv, CallsInv, PodsGoOn
    <3> QED
      BY <3>1, <3>2, <3>3 DEF CallsInv, Replicas, Exists
  <2> QED
    BY <2>1, <2>2
<1>4. TruthInv'
  <2>1. AllUpdated => AllUpdated'
    BY DEF AllUpdated, PodsGoOn, Exists
  <2>2. Full(app.status)' => Full(app.status)
    BY DEF Full
  <2>3. rec'.pc = "run" /\ Full(rec.status)' => rec.pc = "run" /\ Full(rec.status)
    BY DEF Full, LessToDo, Over
  <2> QED
    BY <2>1, <2>2, <2>3 DEF LiveInv, TruthInv
<1> QED
  BY <1>1, <1>2, <1>3, <1>4 DEF LiveInv

LEMMA LessUpdate ==
    ASSUME NEW r \in Reconcile, r.pc = "run"
    PROVE  /\ \A i : LessToDo([r EXCEPT !.plan.make = @ \ {i}], r)
           /\ \A i : LessToDo([r EXCEPT !.plan.make = @ \ {i}, !.err = TRUE], r)
           /\ LessToDo([r EXCEPT !.plan.pvc = {}], r)
           /\ LessToDo([r EXCEPT !.plan.pvc = {}, !.err = TRUE], r)
           /\ LessToDo([r EXCEPT !.plan.restart = {}], r)
           /\ LessToDo([r EXCEPT !.plan.restart = {}, !.err = TRUE], r)
           /\ \A i : LessToDo([r EXCEPT !.plan.cull = @ \ {i}], r)
           /\ LessToDo([r EXCEPT !.plan.cull = {}, !.plan.roll = {}, !.err = TRUE], r)
           /\ LessToDo([r EXCEPT !.plan.roll = {}, !.status.current = @ - 1], r)
           /\ LessToDo([r EXCEPT !.plan.roll = {}, !.err = TRUE], r)
<1>1. r.plan \in Plan /\ r.status \in Status
  BY DEF Reconcile
<1>2. \A i : LessToDo([r EXCEPT !.plan.make = @ \ {i}], r)
  BY <1>1 DEF LessToDo, Reconcile, Plan
<1>3. \A i : LessToDo([r EXCEPT !.plan.make = @ \ {i}, !.err = TRUE], r)
  BY <1>1 DEF LessToDo, Reconcile, Plan
<1>4. LessToDo([r EXCEPT !.plan.pvc = {}], r)
  BY <1>1 DEF LessToDo, Reconcile, Plan
<1>5. LessToDo([r EXCEPT !.plan.pvc = {}, !.err = TRUE], r)
  BY <1>1 DEF LessToDo, Reconcile, Plan
<1>6. LessToDo([r EXCEPT !.plan.restart = {}], r)
  BY <1>1 DEF LessToDo, Reconcile, Plan
<1>7. LessToDo([r EXCEPT !.plan.restart = {}, !.err = TRUE], r)
  BY <1>1 DEF LessToDo, Reconcile, Plan
<1>8. \A i : LessToDo([r EXCEPT !.plan.cull = @ \ {i}], r)
  BY <1>1 DEF LessToDo, Reconcile, Plan
<1>9. LessToDo([r EXCEPT !.plan.cull = {}, !.plan.roll = {}, !.err = TRUE], r)
  BY <1>1 DEF LessToDo, Reconcile, Plan
<1>10. LessToDo([r EXCEPT !.plan.roll = {}, !.status.current = @ - 1], r)
  BY <1>1 DEF LessToDo, Reconcile, Plan, Status
<1>11. LessToDo([r EXCEPT !.plan.roll = {}, !.err = TRUE], r)
  BY <1>1 DEF LessToDo, Reconcile, Plan
<1> QED
  BY <1>2, <1>3, <1>4, <1>5, <1>6, <1>7, <1>8, <1>9, <1>10, <1>11

LEMMA CallLeaves ==
    ASSUME TypeOK, NEW i,
           \/ createPVC(i) \/ RestartPod(i) \/ CullPod(i) \/ RollPod(i)
    PROVE  LessToDo(rec', rec) /\ rec.plan.make = {}
<1>1. rec \in Reconcile /\ rec.pc = "run"
  BY DEF TypeOK, createPVC, RestartPod, CullPod, RollPod, Running
<1>2. rec.plan.make = {}
  BY DEF createPVC, RestartPod, CullPod, RollPod, MainLoopLeft
<1>3. CASE createPVC(i)
  <2>1. LessToDo([rec EXCEPT !.plan.pvc = {}], rec)
    BY <1>1, LessUpdate
  <2>2. LessToDo([rec EXCEPT !.plan.pvc = {}, !.err = TRUE], rec)
    BY <1>1, LessUpdate
  <2> QED
    BY <1>2, <1>3, <2>1, <2>2 DEF createPVC
<1>4. CASE RestartPod(i)
  <2>1. LessToDo([rec EXCEPT !.plan.restart = {}], rec)
    BY <1>1, LessUpdate
  <2>2. LessToDo([rec EXCEPT !.plan.restart = {}, !.err = TRUE], rec)
    BY <1>1, LessUpdate
  <2> QED
    BY <1>2, <1>4, <2>1, <2>2 DEF RestartPod
<1>5. CASE CullPod(i)
  <2>1. LessToDo([rec EXCEPT !.plan.cull = @ \ {i}], rec)
    BY <1>1, LessUpdate
  <2>2. LessToDo([rec EXCEPT !.plan.cull = {}, !.plan.roll = {}, !.err = TRUE], rec)
    BY <1>1, LessUpdate
  <2> QED
    BY <1>2, <1>5, <2>1, <2>2 DEF CullPod
<1>6. CASE RollPod(i)
  <2>1. LessToDo([rec EXCEPT !.plan.roll = {}, !.status.current = @ - 1], rec)
    BY <1>1, LessUpdate
  <2>2. LessToDo([rec EXCEPT !.plan.roll = {}, !.err = TRUE], rec)
    BY <1>1, LessUpdate
  <2> QED
    BY <1>2, <1>6, <2>1, <2>2 DEF RollPod
<1> QED
  BY <1>3, <1>4, <1>5, <1>6

\* The deletion of a Pod that the cache shows, or that is not there.
LEMMA DeleteGoesOn ==
    ASSUME TypeOK, LiveInv, NEW i \in Ordinals, ServerDelete(i) \/ UNCHANGED pods,
           Exists(podCache[i]) \/ ~Exists(pods[i]), rec'.plan.make = {}
    PROVE  PodsGoOn
<1>1. CASE UNCHANGED pods
  BY <1>1 DEF PodsGoOn, LiveInv, SightInv, Exists
<1>2. CASE ServerDelete(i)
  <2>1. CASE ~Exists(pods[i])
    BY <1>1, <1>2, <2>1 DEF ServerDelete
  <2>2. CASE Exists(pods[i])
    <3>1. pods' = [pods EXCEPT ![i].del = TRUE] /\ pods[i] \in Pod
      BY <1>2, <2>2 DEF ServerDelete, TypeOK
    <3>2. /\ pods'[i].rev = pods[i].rev /\ pods'[i].phase = pods[i].phase
          /\ \A j \in Ordinals \ {i} : pods'[j] = pods[j]
      <4>1. pods'[i] = [pods[i] EXCEPT !.del = TRUE]
        BY <3>1 DEF TypeOK
      <4>2. [pods[i] EXCEPT !.del = TRUE].rev = pods[i].rev
        BY <3>1 DEF Pod, NoPod
      <4>3. [pods[i] EXCEPT !.del = TRUE].phase = pods[i].phase
        BY <3>1 DEF Pod, NoPod
      <4>4. \A j \in Ordinals \ {i} : pods'[j] = pods[j]
        BY <3>1 DEF TypeOK
      <4> QED
        BY <4>1, <4>2, <4>3, <4>4
    <3> QED
      BY <2>2, <3>2 DEF PodsGoOn, LiveInv, SightInv, Exists
  <2> QED
    BY <2>1, <2>2
<1> QED
  BY <1>1, <1>2

\* CreateStatefulPod: a Pod that comes up at or above the partition while the
\* status counts every replica as updated is of the App's template.
LEMMA CreateLive ==
    ASSUME NoScaling, TypeOK, ObservedInv, LiveInv, NEW i \in Ordinals,
           CreateStatefulPod(i)
    PROVE  LiveInv'
<1> USE ObservedTypes
<1> DEFINE new == [NoPod EXCEPT !.rev = rec.plan.rev[i], !.phase = "Pending"]
<1>1. /\ LessToDo(rec', rec)
      /\ i \in rec.plan.make /\ rec'.plan.make = rec.plan.make \ {i}
      /\ UNCHANGED <<app, appCache, cacheFresh, podCache>>
      /\ rec.pc = "run"
  <2>1. rec.pc = "run" /\ i \in rec.plan.make /\ UNCHANGED <<app, appCache, cacheFresh, podCache>>
    BY DEF CreateStatefulPod, Lowest, Running
  <2>2. \/ rec' = [rec EXCEPT !.plan.make = @ \ {i}]
        \/ rec' = [rec EXCEPT !.plan.make = @ \ {i}, !.err = TRUE]
    BY DEF CreateStatefulPod
  <2>3. LessToDo(rec', rec)
    <3>1. LessToDo([rec EXCEPT !.plan.make = @ \ {i}], rec)
      BY <2>1, LessUpdate
    <3>2. LessToDo([rec EXCEPT !.plan.make = @ \ {i}, !.err = TRUE], rec)
      BY <2>1, LessUpdate
    <3> QED
      BY <2>2, <3>1, <3>2
  <2>4. rec'.plan.make = rec.plan.make \ {i}
    <3>1. rec \in Reconcile /\ rec.plan \in Plan
      BY DEF TypeOK, Reconcile
    <3>2. [rec EXCEPT !.plan.make = @ \ {i}].plan.make = rec.plan.make \ {i}
      BY <3>1 DEF Reconcile, Plan
    <3>3. [rec EXCEPT !.plan.make = @ \ {i}, !.err = TRUE].plan.make = rec.plan.make \ {i}
      BY <3>1 DEF Reconcile, Plan
    <3> QED
      BY <2>2, <3>2, <3>3
  <2> QED
    BY <2>1, <2>3, <2>4
<1>2. CASE UNCHANGED pods
  <2>1. PodsGoOn
    BY <1>2 DEF PodsGoOn, LiveInv, SightInv, Exists
  <2> QED
    BY <1>1, <2>1, QuietStep
<1>3. CASE ~Exists(pods[i]) /\ pods' = [pods EXCEPT ![i] = new]
  <2>1. new.rev = rec.plan.rev[i] /\ new.phase = "Pending" /\ ~new.del /\ Exists(new)
    BY DEF NoPod, Exists
  <2>2. pods'[i] = new /\ \A j \in Ordinals \ {i} : pods'[j] = pods[j]
    BY <1>3 DEF TypeOK
  <2> HIDE DEF new
  <2>3. /\ i \in Replicas /\ ~Exists(podCache[i])
        /\ rec.status.obs = app.gen /\ i >= app.partition => rec.plan.rev[i] = app.tmpl
    BY <1>1, <1>3 DEF LiveInv, CallsInv
  <2>4. CopyInv'
    BY <1>1 DEF LiveInv, CopyInv, LessToDo
  <2>5. SightInv'
    BY <1>1, <2>1, <2>2, <2>3 DEF LiveInv, SightInv, Replicas, Exists
  <2>6. CallsInv'
    <3>1. /\ rec'.plan.restart = {} /\ rec'.plan.cull = {}
          /\ rec'.plan.make # {} => rec'.pc = "run"
      BY <1>1 DEF LiveInv, CallsInv, LessToDo
    <3>2. ASSUME NEW j \in rec'.plan.make
          PROVE  /\ j \in Replicas
                 /\ ~Exists(podCache[j]) \/ (Exists(pods[j])' /\ ~pods'[j].del)
                 /\ rec'.status.obs = app.gen /\ j >= app.partition
                       => rec'.plan.rev[j] = app.tmpl
      <4>1. j \in rec.plan.make /\ j # i
        BY <1>1
      <4>2. j \in Ordinals
        BY <4>1 DEF LiveInv, CallsInv, Replicas
      <4> QED
        BY <1>1, <2>2, <4>1, <4>2 DEF LiveInv, CallsInv, LessToDo, Exists
    <3>3. ASSUME NEW j \in rec'.plan.roll
          PROVE  Exists(podCache[j]) \/ ~Exists(pods[j])'
      <4>1. j \in rec.plan.roll /\ j \in Ordinals
        BY <1>1 DEF LessToDo, Reconcile, Plan
      <4>2. CASE j # i
        BY <2>2, <4>1, <4>2 DEF LiveInv, CallsInv, Exists
      <4>3. CASE j = i
        BY <1>1, <4>1, <4>3 DEF LiveInv, CallsInv
      <4> QED
        BY <4>2, <4>3
    <3>4. rec'.plan.make \cap rec'.plan.roll = {}
      BY <1>1 DEF LiveInv, CallsInv, LessToDo
    <3> QED
      BY <1>1, <3>1, <3>2, <3>3, <3>4 DEF CallsInv, Replicas, Exists
  <2>7. TruthInv'
    <3>1. AllUpdated /\ rec.status.obs = app.gen => AllUpdated'
      BY <1>1, <2>1, <2>2, <2>3 DEF AllUpdated
    <3>2. Full(app.status)' => Full(app.status) /\ rec.status.obs = app.gen
      <4>1. app.status.obs <= rec.status.obs /\ rec.status.obs <= app.gen
        BY <1>1 DEF ObservedInv
      <4> QED
        BY <1>1, <4>1 DEF Full
    <3>3. Full(rec.status)' => Full(rec.status) /\ rec.status.obs = app.gen
      BY <1>1 DEF Full, LessToDo
    <3> QED
      BY <1>1, <3>1, <3>2, <3>3 DEF LiveInv, TruthInv
  <2> QED
    BY <2>4, <2>5, <2>6, <2>7 DEF LiveInv
<1> QED
  BY <1>2, <1>3 DEF CreateStatefulPod, CallFails

-----------------------------------------------------------------------------
(***************************************************************************)
(* The steps that begin a reconcile or change an App.                      *)
(***************************************************************************)

\* What goes into the plan of a reconcile that begins.
PlanFits(p) ==
    /\ p.restart = {}
    /\ p.cull = {}
    /\ \A i \in p.make :
          /\ i \in Replicas
          /\ ~Exists(podCache[i])
          /\ appCache.gen = app.gen /\ i >= app.partition => p.rev[i] = app.tmpl
    /\ \A i \in p.roll : Exists(podCache[i])

LEMMA BeginLive ==
    ASSUME TypeOK, LiveInv, DeletingInv, ~app.deleting,
           NEW plan, NEW passes, NEW f, PlanFits(plan),
           rec' = Begin(plan, passes, f),
           UNCHANGED <<app, appCache, cacheFresh, pods, podCache>>
    PROVE  LiveInv'
<1>1. /\ rec'.pc = "run" /\ rec'.plan = plan /\ rec'.status.obs = appCache.gen
      /\ rec'.last = LastReconcile(appCache, podCache)
  BY DEF Begin, updateStatus
<1>2. ~rec'.last
  BY <1>1 DEF LastReconcile, DeletingInv
<1>3. CopyInv'
  BY <1>2 DEF LiveInv, CopyInv
<1>4. SightInv'
  BY DEF LiveInv, SightInv, Replicas, Exists
<1>5. CallsInv'
  BY <1>1 DEF PlanFits, CallsInv, Replicas, Exists
<1>6. TruthInv'
  <2>1. Full(rec'.status) => AllUpdated
    BY DoneStatus DEF LiveInv
  <2> QED
    BY <2>1 DEF LiveInv, TruthInv, Full, AllUpdated, Exists
<1> QED
  BY <1>3, <1>4, <1>5, <1>6 DEF LiveInv

LEMMA NoPlanFits == PlanFits(NoPlan)
  BY DEF PlanFits, NoPlan

LEMMA UpdateLive ==
    ASSUME NoScaling, TypeOK, ObservedInv, LiveInv, DeletingInv, NEW obj \in App,
           UpdateFromCache(obj), UNCHANGED <<rec, pods, podCache>>,
           appCache.exists,
           \A f \in {"exists", "unordered", "replicas", "gen", "tmpl", "partition",
                     "status"} : obj[f] = appCache[f]
    PROVE  LiveInv'
<1> USE ObservedTypes
<1>1. /\ obj.exists = appCache.exists /\ obj.unordered = appCache.unordered
      /\ obj.replicas = appCache.replicas /\ obj.gen = appCache.gen
      /\ obj.tmpl = appCache.tmpl /\ obj.partition = appCache.partition
      /\ obj.status = appCache.status
  OBVIOUS
<1>2. app' = app \/ (cacheFresh /\ app' = [obj EXCEPT !.gen = app.gen])
  BY <1>1 DEF UpdateFromCache, LiveInv, CopyInv
<1>3. /\ app'.exists /\ app'.replicas = InitReplicas /\ ~app'.unordered
      /\ app'.gen = app.gen /\ app'.tmpl = app.tmpl /\ app'.partition = app.partition
      /\ app'.status = app.status
  BY <1>1, <1>2 DEF App, LiveInv, CopyInv, ObservedInv
<1>4. CASE app' = app
  <2>1. CopyInv'
    BY <1>1, <1>4 DEF UpdateFromCache, LiveInv, CopyInv
  <2>2. SightInv' /\ CallsInv' /\ TruthInv'
    BY <1>4 DEF LiveInv, SightInv, CallsInv, TruthInv, Full, AllUpdated, Replicas, Exists
  <2> QED
    BY <2>1, <2>2 DEF LiveInv
<1>5. CASE cacheFresh /\ app' = [obj EXCEPT !.gen = app.gen]
  <2>1. CopyInv'
    <3>1. appCache' = obj /\ ~rec'.last
      BY DEF UpdateFromCache, LiveInv, CopyInv
    <3>2. cacheFresh' => cacheFresh
      BY DEF UpdateFromCache
    <3> QED
      BY <1>1, <1>3, <3>1, <3>2 DEF LiveInv, CopyInv
  <2>2. SightInv' /\ CallsInv'
    BY <1>3 DEF LiveInv, SightInv, CallsInv, Replicas, Exists
  <2>3. TruthInv'
    BY <1>3 DEF LiveInv, TruthInv, Full, AllUpdated, Exists
  <2> QED
    BY <2>1, <2>2, <2>3 DEF LiveInv
<1> QED
  BY <1>2, <1>4, <1>5

\* A change of the spec: no copy of the new generation is left.
LEMMA NewGeneration ==
    ASSUME TypeOK, ObservedInv, LiveInv,
           app'.exists, ~app'.unordered, app'.replicas = InitReplicas,
           app'.gen = app.gen + 1, app'.status.obs = app.status.obs, ~cacheFresh',
           UNCHANGED <<appCache, pods, podCache>>,
           rec'.plan = rec.plan, rec'.pc = rec.pc, rec'.last = rec.last,
           rec'.status = rec.status
    PROVE  LiveInv'
<1> USE ObservedTypes
<1>1. /\ appCache.gen # app'.gen
      /\ app.status.obs # app'.gen
      /\ rec.pc = "run" => rec.status.obs # app'.gen
  BY DEF ObservedInv
<1>2. CopyInv'
  BY <1>1 DEF LiveInv, CopyInv
<1>3. SightInv'
  BY DEF LiveInv, SightInv, Replicas, Exists
<1>4. CallsInv'
  BY <1>1 DEF LiveInv, CallsInv, Replicas, Exists
<1>5. TruthInv'
  BY <1>1 DEF TruthInv, Full
<1> QED
  BY <1>2, <1>3, <1>4, <1>5 DEF LiveInv

LEMMA ControllerLive ==
    ASSUME NoScaling, TypeOK, ObservedInv, DeletingInv, LiveInv,
           Controller, ~app.deleting, ~app'.deleting
    PROVE  LiveInv'
<1> USE ObservedTypes
<1>1. ASSUME UNCHANGED <<app, appCache, pods, podCache, rec>>, cacheFresh' => cacheFresh
      PROVE  LiveInv'
  BY <1>1 DEF LiveInv, CopyInv, SightInv, CallsInv, TruthInv, Full, AllUpdated,
              Replicas, Exists
<1>2. CASE ReconcileGone \/ RevisionFails
  BY <1>1, <1>2 DEF ReconcileGone, RevisionFails
<1>3. CASE AddFinalizer
  <2> DEFINE obj == [appCache EXCEPT !.fin = TRUE]
  <2>1. obj \in App
    BY AppUpdate
  <2>2. \A f \in {"exists", "unordered", "replicas", "gen", "tmpl", "partition",
                  "status"} : obj[f] = appCache[f]
    BY DEF App
  <2>3. UpdateFromCache(obj) /\ UNCHANGED <<rec, pods, podCache>> /\ appCache.exists
    BY <1>3 DEF AddFinalizer, NeedsFinalizer
  <2> HIDE DEF obj
  <2> QED
    BY <2>1, <2>2, <2>3, UpdateLive
<1>4. CASE ScaleToZero
  BY <1>4 DEF ScaleToZero, NeedsScaleToZero, DeletingInv
<1>5. currentRevision(appCache) \in Revs
  BY DEF currentRevision, App, Status
<1>6. CASE UpdateApp
  <2> DEFINE p == applyUpdate(appCache, currentRevision(appCache), appCache.tmpl, podCache)
  <2>1. PlanFits(p)
    BY <1>5, DonePlan DEF LiveInv, PlanFits
  <2>2. rec' = Begin(p, 2, cacheFresh)
    BY <1>6 DEF UpdateApp
  <2>3. UNCHANGED <<app, appCache, cacheFresh, pods, podCache>>
    BY <1>6 DEF UpdateApp
  <2> HIDE DEF p
  <2> QED
    BY <2>1, <2>2, <2>3, BeginLive
<1>7. CASE ApplyDefaults
  <2>1. UNCHANGED <<appCache, pods, podCache>>
    BY <1>7 DEF ApplyDefaults
  <2>2. CASE UNCHANGED <<app, cacheFresh>>
    <3>1. PICK f : rec' = Begin(NoPlan, 1, f)
      BY <1>7 DEF ApplyDefaults
    <3> QED
      BY <2>1, <2>2, <3>1, NoPlanFits, BeginLive
  <2>3. CASE /\ cacheFresh /\ ~cacheFresh' /\ rec' = Begin(NoPlan, 1, FALSE)
             /\ app' = [setDefaultRollingUpdateStrategy(appCache) EXCEPT !.gen = @ + 1]
    <3>1. /\ app'.gen = appCache.gen + 1 /\ app'.status = appCache.status
          /\ app'.replicas = appCache.replicas /\ ~app'.unordered
          /\ app'.exists = appCache.exists
      BY <2>3 DEF setDefaultRollingUpdateStrategy, App
    <3>2. appCache.exists
      BY <1>7 DEF ApplyDefaults, EntersUpdateApp
    <3>3. /\ rec'.plan = NoPlan /\ rec'.status.obs = appCache.gen
          /\ rec'.last = LastReconcile(appCache, podCache)
      BY <2>3, BeginObserved DEF Begin
    <3>4. ~rec'.last
      BY <3>3 DEF LastReconcile, DeletingInv
    <3>5. appCache.gen # app'.gen
      BY <3>1
    <3>6. CopyInv'
      BY <2>1, <2>3, <3>1, <3>2, <3>4, <3>5 DEF LiveInv, CopyInv
    <3>7. SightInv'
      BY <2>1 DEF LiveInv, SightInv, Replicas, Exists
    <3>8. CallsInv'
      BY <3>3 DEF CallsInv, NoPlan
    <3>9. TruthInv'
      <4>1. app'.status.obs # app'.gen
        <5>1. appCache.status.obs <= appCache.gen
          BY <2>3 DEF ObservedInv
        <5> QED
          BY <3>1, <5>1
      <4> QED
        BY <3>3, <3>5, <4>1 DEF TruthInv, Full
    <3> QED
      BY <3>6, <3>7, <3>8, <3>9 DEF LiveInv
  <2> QED
    BY <1>7, <2>2, <2>3 DEF ApplyDefaults
<1>8. ASSUME NEW i \in Ordinals, \/ createPVC(i) \/ RestartPod(i) \/ CullPod(i) \/ RollPod(i)
      PROVE  LiveInv'
  <2>1. LessToDo(rec', rec) /\ rec.plan.make = {} /\ rec'.plan.make = {}
    BY <1>8, CallLeaves DEF LessToDo
  <2>2. UNCHANGED <<app, appCache, cacheFresh, podCache>>
    BY <1>8 DEF createPVC, RestartPod, CullPod, RollPod
  <2>3. UNCHANGED pods \/ (ServerDelete(i) /\ i \in rec.plan.roll)
    <3>1. rec.plan.restart = {} /\ rec.plan.cull = {}
      BY DEF LiveInv, CallsInv
    <3> QED
      BY <1>8, <3>1 DEF createPVC, RestartPod, CullPod, RollPod, CallFails, Highest
  <2>4. PodsGoOn
    <3>1. CASE UNCHANGED pods
      BY <3>1 DEF PodsGoOn, LiveInv, SightInv, Exists
    <3>2. CASE ServerDelete(i) /\ i \in rec.plan.roll
      <4>1. Exists(podCache[i]) \/ ~Exists(pods[i])
        BY <3>2 DEF LiveInv, CallsInv
      <4> QED
        BY <2>1, <3>2, <4>1, DeleteGoesOn
    <3> QED
      BY <2>3, <3>1, <3>2
  <2> QED
    BY <2>1, <2>2, <2>4, QuietStep
<1>9. PodsGoOn \/ pods' # pods
  BY DEF PodsGoOn, LiveInv, SightInv, Exists
<1>10. CASE SkipStatus
  <2>1. LessToDo(rec', rec)
    BY <1>10 DEF SkipStatus, LessToDo, PlanDone, MainLoopLeft, Reconcile
  <2> QED
    BY <1>9, <1>10, <2>1, QuietStep DEF SkipStatus
<1>11. CASE updateAppStatus
  <2>1. UNCHANGED <<appCache, pods, podCache>> /\ rec.pc = "run" /\ rec.plan.make = {}
    BY <1>11 DEF updateAppStatus, PlanDone, Running, MainLoopLeft
  <2>2. /\ rec'.plan = rec.plan /\ rec'.last = rec.last /\ rec'.status = rec.status
        /\ rec'.pc \in {"run", "end"}
    BY <1>11, <2>1 DEF updateAppStatus, Outdated, Reconcile
  <2>3. CASE UNCHANGED <<app, cacheFresh>>
    <3>1. LessToDo(rec', rec)
      BY <2>1, <2>2 DEF LessToDo
    <3> QED
      BY <1>9, <2>1, <2>3, <3>1, QuietStep
  <2>4. CASE app' = [app EXCEPT !.status = FinalStatus] /\ ~cacheFresh' /\ rec'.pc = "end"
    <3>1. /\ FinalStatus.obs = rec.status.obs
          /\ FinalStatus.replicas = rec.status.replicas
          /\ FinalStatus.updated = rec.status.updated
      BY DEF FinalStatus, completeRollingUpdate, Status
    <3>2. /\ app'.status = FinalStatus /\ app'.gen = app.gen /\ app'.tmpl = app.tmpl
          /\ app'.partition = app.partition /\ app'.replicas = app.replicas
          /\ app'.exists = app.exists /\ app'.unordered = app.unordered
      BY <2>4 DEF App
    <3>3. CopyInv'
      BY <2>1, <2>2, <2>4, <3>2 DEF LiveInv, CopyInv
    <3>4. SightInv' /\ CallsInv'
      BY <2>1, <2>2, <3>2 DEF LiveInv, SightInv, CallsInv, Replicas, Exists
    <3>5. TruthInv'
      <4>1. Full(app.status)' => Full(rec.status)
        BY <3>1, <3>2 DEF Full
      <4>2. AllUpdated => AllUpdated'
        BY <2>1, <3>2 DEF AllUpdated, Exists
      <4> QED
        BY <2>1, <2>4, <4>1, <4>2 DEF LiveInv, TruthInv
    <3> QED
      BY <3>3, <3>4, <3>5 DEF LiveInv
  <2>5. \/ UNCHANGED <<app, cacheFresh>>
        \/ app' = [app EXCEPT !.status = FinalStatus] /\ ~cacheFresh' /\ rec'.pc = "end"
    BY <1>11 DEF updateAppStatus, Outdated, Reconcile
  <2> QED
    BY <2>3, <2>4, <2>5
<1>12. CASE RemoveFinalizer
  BY <1>12 DEF RemoveFinalizer, LiveInv, CopyInv
<1>13. CASE Return
  <2>1. Over(rec') /\ UNCHANGED <<app, appCache, cacheFresh, pods, podCache>>
    BY <1>13 DEF Return, Over, Idle, NoPlan
  <2> QED
    BY <1>9, <2>1, QuietStep
<1>14. CASE \E i \in Ordinals : \/ createPVC(i) \/ RestartPod(i) \/ CullPod(i) \/ RollPod(i)
  BY <1>8, <1>14
<1>15. CASE \E i \in Ordinals : CreateStatefulPod(i)
  BY <1>15, CreateLive
<1> QED
  BY <1>2, <1>3, <1>4, <1>6, <1>7, <1>10, <1>11, <1>12, <1>13, <1>14, <1>15
     DEF Controller

\* What the kubelet reports of a Pod changes neither its revision nor whether it
\* is being deleted.
LEMMA ReportGoesOn ==
    ASSUME TypeOK, LiveInv, NEW i \in Ordinals, NEW q \in Pod,
           Exists(pods[i]), Exists(q), q.phase # "Failed",
           q.rev = pods[i].rev, q.del = pods[i].del,
           pods' = [pods EXCEPT ![i] = q]
    PROVE  PodsGoOn
<1>1. pods'[i] = q /\ \A j \in Ordinals \ {i} : pods'[j] = pods[j]
  BY DEF TypeOK
<1> QED
  BY <1>1 DEF PodsGoOn, LiveInv, SightInv, Exists

LEMMA AbsentPod ==
    ASSUME NEW q \in Pod, ~Exists(q)
    PROVE  ~q.del
<1>1. q \notin [rev : Revs, phase : {"Pending", "Running", "Failed"},
                cond : {"none", "False", "True"}, del : BOOLEAN]
  BY DEF Exists
<1>2. q = NoPod
  BY <1>1 DEF Pod
<1> QED
  BY <1>2 DEF NoPod

LEMMA EnvironmentLive ==
    ASSUME NoScaling, TypeOK, ObservedInv, budget.podLoss = 0, LiveInv,
           Environment, ~app'.deleting
    PROVE  LiveInv'
<1> USE ObservedTypes
<1>1. CASE SyncApp
  <2>1. /\ rec'.plan = rec.plan /\ rec'.pc = rec.pc /\ rec'.last = rec.last
        /\ rec'.status = rec.status
    BY <1>1 DEF SyncApp, Reconcile
  <2> QED
    <3>1. UNCHANGED <<app, pods, podCache>> /\ appCache' = app
      BY <1>1 DEF SyncApp
    <3>2. CopyInv'
      BY <2>1, <3>1 DEF LiveInv, CopyInv
    <3>3. SightInv' /\ CallsInv'
      BY <2>1, <3>1 DEF LiveInv, SightInv, CallsInv, Replicas, Exists
    <3>4. TruthInv'
      BY <2>1, <3>1 DEF LiveInv, TruthInv, Full, AllUpdated, Exists
    <3> QED
      BY <3>2, <3>3, <3>4 DEF LiveInv
<1>2. ASSUME NEW i \in Ordinals, SyncPod(i)
      PROVE  LiveInv'
  <2>1. /\ podCache'[i] = pods[i]
        /\ \A j \in Ordinals \ {i} : podCache'[j] = podCache[j]
        /\ UNCHANGED <<app, appCache, cacheFresh, pods, rec>>
    BY <1>2 DEF SyncPod, TypeOK
  <2>2. CopyInv'
    BY <2>1 DEF LiveInv, CopyInv
  <2>3. SightInv'
    <3>1. ~Exists(pods[i]) => ~pods[i].del
      BY AbsentPod DEF TypeOK
    <3> QED
      BY <2>1, <3>1 DEF LiveInv, SightInv, Replicas, Exists
  <2>4. CallsInv'
    <3>1. ASSUME NEW j \in rec.plan.make
          PROVE  ~Exists(podCache[j])' \/ (Exists(pods[j]) /\ ~pods[j].del)
      <4>1. j \in Ordinals
        BY DEF LiveInv, CallsInv, Replicas
      <4> QED
        BY <2>1, <4>1 DEF LiveInv, CallsInv, SightInv, Exists
    <3>2. ASSUME NEW j \in rec.plan.roll
          PROVE  Exists(podCache[j])' \/ ~Exists(pods[j])
      <4>1. j \in Ordinals
        BY DEF Reconcile, Plan
      <4> QED
        BY <2>1, <4>1 DEF LiveInv, CallsInv, Exists
    <3> QED
      BY <2>1, <3>1, <3>2 DEF LiveInv, CallsInv, Exists, Replicas
  <2>5. TruthInv'
    BY <2>1 DEF LiveInv, TruthInv, Full, AllUpdated, Exists
  <2> QED
    BY <2>2, <2>3, <2>4, <2>5 DEF LiveInv
<1>3. CASE Resync
  BY <1>3 DEF Resync, LiveInv, CopyInv, SightInv, CallsInv, TruthInv, Full, AllUpdated,
              Replicas, Exists
<1>4. CASE Crash
  <2>1. Over(rec') /\ UNCHANGED <<app, pods>> /\ appCache' = app /\ podCache' = pods
    BY <1>4 DEF Crash, Over, Idle, NoPlan
  <2>2. CopyInv'
    BY <2>1 DEF LiveInv, CopyInv, Over
  <2>3. SightInv'
    <3>1. \A i \in Ordinals : ~Exists(pods[i]) => ~pods[i].del
      BY AbsentPod DEF TypeOK
    <3> QED
      BY <2>1, <3>1 DEF LiveInv, SightInv, Replicas, Exists
  <2>4. CallsInv'
    BY <2>1 DEF CallsInv, Over
  <2>5. TruthInv'
    BY <2>1 DEF LiveInv, TruthInv, Full, AllUpdated, Exists, Over
  <2> QED
    BY <2>2, <2>3, <2>4, <2>5 DEF LiveInv
<1>5. ASSUME PodsGoOn, PodsOnly
      PROVE  LiveInv'
  <2>1. LessToDo(rec', rec)
    BY <1>5 DEF PodsOnly, LessToDo, LiveInv, CallsInv
  <2> QED
    BY <1>5, <2>1, QuietStep DEF PodsOnly
<1>6. ASSUME NEW i \in Ordinals, PodRuns(i) \/ PodReadiness(i)
      PROVE  LiveInv'
  <2>1. pods[i].phase \in {"Pending", "Running"} /\ PodsOnly
    BY <1>6 DEF PodRuns, PodReadiness
  <2>2. pods[i] \in Pod /\ Exists(pods[i])
    BY <2>1 DEF TypeOK, Exists
  <2>3. PICK c \in ReadyValues : pods' \in {[pods EXCEPT ![i].phase = "Running", ![i].cond = c],
                                            [pods EXCEPT ![i].cond = c]}
    BY <1>6 DEF PodRuns, PodReadiness
  <2>4. c \in {"none", "False", "True"}
    BY ControllerAssumption
  <2> DEFINE q == IF pods' = [pods EXCEPT ![i].cond = c]
                  THEN [pods[i] EXCEPT !.cond = c]
                  ELSE [pods[i] EXCEPT !.phase = "Running", !.cond = c]
  <2>5. pods' = [pods EXCEPT ![i] = q]
    BY <2>3 DEF TypeOK
  <2>6. q \in Pod
    BY <2>2, <2>4, ChangedPod
  <2>7. q.rev = pods[i].rev /\ q.del = pods[i].del /\ q.phase \in {"Pending", "Running"}
    <3>1. pods[i] \in [rev : Revs, phase : {"Pending", "Running", "Failed"},
                       cond : {"none", "False", "True"}, del : BOOLEAN]
      BY <2>2, ExistingPod
    <3> QED
      BY <2>1, <3>1
  <2> HIDE DEF q
  <2>8. PodsGoOn
    BY <2>2, <2>5, <2>6, <2>7, ReportGoesOn DEF Exists
  <2> QED
    BY <1>5, <2>1, <2>8
<1>7. ASSUME NEW i \in Ordinals, PodGone(i)
      PROVE  LiveInv'
  <2>1. /\ pods[i].del /\ PodsOnly /\ pods'[i] = NoPod
        /\ \A j \in Ordinals \ {i} : pods'[j] = pods[j]
    BY <1>7 DEF PodGone, TypeOK
  <2>2. NoPod.phase = "" /\ ~NoPod.del
    BY DEF NoPod
  <2>3. PodsGoOn
    BY <2>1, <2>2 DEF PodsGoOn, LiveInv, SightInv, Exists
  <2> QED
    BY <1>5, <2>1, <2>3
<1>8. ASSUME NEW i
      PROVE  ~PodFails(i) /\ ~PodDeleted(i) /\ ~GarbageCollect(i)
  BY NoLoss DEF PodFails, PodDeleted, GarbageCollect, LiveInv, CopyInv
<1>9. ASSUME NEW op, NEW a \in App, Edited(op, a), a.exists = app.exists,
             a.unordered = app.unordered, a.replicas = app.replicas, a.status = app.status
      PROVE  LiveInv'
  <2>1. /\ app'.exists /\ ~app'.unordered /\ app'.replicas = InitReplicas
        /\ app'.gen = app.gen + 1 /\ app'.status.obs = app.status.obs
    BY <1>9 DEF Edited, App, LiveInv, CopyInv
  <2>2. ~cacheFresh' /\ UNCHANGED <<appCache, pods, podCache>>
    BY <1>9 DEF Edited
  <2>3. /\ rec'.plan = rec.plan /\ rec'.pc = rec.pc /\ rec'.last = rec.last
        /\ rec'.status = rec.status
    BY <1>9 DEF Edited, Outdated, Reconcile
  <2> QED
    BY <2>1, <2>2, <2>3, NewGeneration
<1>10. CASE EditTemplate
  <2>1. \A r \in Revs : LET a == [app EXCEPT !.tmpl = r]
                        IN /\ a \in App /\ a.exists = app.exists
                           /\ a.unordered = app.unordered /\ a.replicas = app.replicas
                           /\ a.status = app.status
    BY DEF App
  <2> QED
    BY <1>9, <1>10, <2>1 DEF EditTemplate
<1>11. ~EditReplicas
  BY DEF EditReplicas, Edited, NoScaling
<1>12. CASE EditPartition
  <2>1. \A n \in 0 .. MaxReplicas : LET a == [app EXCEPT !.partition = n]
                                    IN /\ a \in App /\ a.exists = app.exists
                                       /\ a.unordered = app.unordered
                                       /\ a.replicas = app.replicas
                                       /\ a.status = app.status
    BY DEF App
  <2> QED
    BY <1>9, <1>12, <2>1 DEF EditPartition
<1>13. CASE EditPaused
  <2>1. LET a == [app EXCEPT !.paused = ~@]
        IN /\ a \in App /\ a.exists = app.exists
           /\ a.unordered = app.unordered /\ a.replicas = app.replicas
           /\ a.status = app.status
    BY DEF App
  <2> QED
    BY <1>9, <1>13, <2>1 DEF EditPaused
<1>14. ~DeleteApp
  BY DEF DeleteApp, App
<1> QED
  BY <1>1, <1>2, <1>3, <1>4, <1>6, <1>7, <1>8, <1>10, <1>11, <1>12, <1>13, <1>14
     DEF Environment

-----------------------------------------------------------------------------
LEMMA DoneInit ==
    ASSUME NoScaling
    PROVE  (TypeOK /\ Init => DoneInv) /\ (TypeOK /\ DeployedInit => DoneInv)
<1>1. ASSUME Init
      PROVE  DoneInv
  <2>1. budget.podLoss = 0
    BY <1>1 DEF Init, FullBudget, NoScaling
  <2>2. /\ app = NewApp /\ appCache = NewApp /\ rec = Idle /\ pods = podCache
        /\ \A i \in Ordinals : pods[i] = NoPod
    BY <1>1 DEF Init
  <2>3. DeletingInv /\ CopyInv
    BY <2>2 DEF DeletingInv, CopyInv, NewApp, Idle, NoScaling
  <2>7. NoPod.phase = "" /\ ~NoPod.del
    BY DEF NoPod
  <2>4. SightInv
    BY <2>2, <2>7 DEF SightInv, Exists
  <2>5. CallsInv
    BY <2>2 DEF CallsInv, Idle, NoPlan
  <2>6. TruthInv
    BY <2>2, <2>7 DEF TruthInv, AllUpdated, Exists
  <2> QED
    BY <2>1, <2>3, <2>4, <2>5, <2>6 DEF DoneInv
<1>2. ASSUME TypeOK, DeployedInit
      PROVE  DoneInv
  <2>1. budget.podLoss = 0
    BY <1>2 DEF DeployedInit, FullBudget, NoScaling
  <2>2. /\ appCache = app /\ rec = Idle /\ pods = podCache
        /\ app.exists /\ ~app.deleting /\ ~app.unordered
        /\ app.replicas = InitReplicas /\ app.tmpl = FirstRev
    BY <1>2 DEF DeployedInit, NewApp, NoScaling
  <2>3. DeletingInv /\ CopyInv
    BY <2>2 DEF DeletingInv, CopyInv, Idle
  <2>4. ASSUME NEW i \in Ordinals
        PROVE  pods[i] = IF i \in Replicas THEN RunningPod(FirstRev, "True") ELSE NoPod
    BY <1>2 DEF DeployedInit, Replicas
  <2>5. /\ RunningPod(FirstRev, "True").rev = FirstRev
        /\ RunningPod(FirstRev, "True").phase = "Running"
        /\ ~RunningPod(FirstRev, "True").del
        /\ NoPod.phase = "" /\ ~NoPod.del
    BY DEF RunningPod, NoPod
  <2>6. SightInv
    BY <2>2, <2>4, <2>5 DEF SightInv, Exists
  <2>7. CallsInv
    BY <2>2 DEF CallsInv, Idle, NoPlan
  <2>8. TruthInv
    BY <2>2, <2>4, <2>5 DEF TruthInv, AllUpdated, Exists
  <2> QED
    BY <2>1, <2>3, <2>6, <2>7, <2>8 DEF DoneInv
<1> QED
  BY <1>1, <1>2

LEMMA DoneNext ==
    ASSUME NoScaling, TypeOK, ObservedInv, DoneInv, [Next]_vars
    PROVE  DoneInv'
<1>1. CASE Next
  <2>1. DeletingInv' /\ budget'.podLoss = 0 /\ (app.deleting => app'.deleting)
    BY <1>1, DeletingNext DEF DoneInv
  <2>2. ASSUME ~app'.deleting
        PROVE  LiveInv'
    <3>1. ~app.deleting /\ LiveInv /\ DeletingInv /\ budget.podLoss = 0
      BY <2>1, <2>2 DEF DoneInv, LiveInv
    <3> QED
      BY <1>1, <2>2, <3>1, ControllerLive, EnvironmentLive DEF Next
  <2> QED
    BY <2>1, <2>2 DEF DoneInv, LiveInv
<1>2. CASE UNCHANGED vars
  BY <1>2 DEF vars, DoneInv, DeletingInv, CopyInv, SightInv, CallsInv, TruthInv, Full,
              AllUpdated, Replicas, Exists
<1> QED
  BY <1>1, <1>2

LEMMA DoneSafe ==
    ASSUME TypeOK, DoneInv
    PROVE  app.exists /\ ~app.deleting /\ RolloutReportedDone(app)
               => \A i \in Ordinals : i >= app.partition /\ Exists(pods[i])
                                        => pods[i].rev = app.tmpl
  BY DEF DoneInv, CopyInv, TruthInv, Full, AllUpdated, RolloutReportedDone

\* A status on the server that reports the rollout of the App's generation as
\* complete is true of the Pods on the server, and stays so until the App is
\* edited: for every number of replicas, any number of edits of the template,
\* the partition and the pause, failed calls, restarts and lags of the caches.
THEOREM DoneIsTrue ==
    NoScaling => (Spec => []DoneMeansUpdated) /\ (DeployedSpec => []DoneMeansUpdated)
<1> SUFFICES ASSUME NoScaling
             PROVE  (Spec => []DoneMeansUpdated) /\ (DeployedSpec => []DoneMeansUpdated)
  OBVIOUS
<1>1. TypeOK /\ DoneInv => DoneMeansUpdated
  BY DoneSafe DEF DoneMeansUpdated
<1>2. Init => TypeOK /\ ObservedInv /\ DoneInv
  BY InitType, ObservedInit, DoneInit
<1>3. DeployedInit => TypeOK /\ ObservedInv /\ DoneInv
  BY DeployedInitType, ObservedInit, DoneInit
<1>4. TypeOK /\ ObservedInv /\ DoneInv /\ [Next]_vars
          => (TypeOK /\ ObservedInv /\ DoneInv)'
  BY NextType, ObservedNext, DoneNext
<1>5. Spec => []DoneMeansUpdated
  BY <1>1, <1>2, <1>4, PTL DEF Spec
<1>6. DeployedSpec => []DoneMeansUpdated
  BY <1>1, <1>3, <1>4, PTL DEF DeployedSpec
<1> QED
  BY <1>5, <1>6
=============================================================================
