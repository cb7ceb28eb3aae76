--------------------------- MODULE Rollout_proofs ---------------------------
(***************************************************************************)
(* The safety of a rollout: in the scenario SingleRollout, with any number *)
(* of replicas, any partition, any lag of the caches, any number of failed *)
(* calls and of restarts, at most one replica is down at a time, from the  *)
(* top down to the partition; and AppController implements RollingUpdate.  *)
(***************************************************************************)
EXTENDS AppController_proofs

\* What the stages mean for a Pod that a rollout can meet.
LEMMA StageMeaning ==
    ASSUME NEW q \in Pod, Shaped(q)
    PROVE  /\ Stage(q) \in 0 .. 4
           /\ Good(q) <=> Stage(q) \in {0, 4}
           /\ Stage(q) = 2 <=> ~Exists(q)
           /\ Stage(q) \in {0, 1} <=> Exists(q) /\ q.rev = FirstRev
           /\ Stage(q) >= 3 => Exists(q) /\ q.rev = app.tmpl /\ app.tmpl # FirstRev
           /\ q.phase # "Failed"
           /\ q.del <=> Stage(q) = 1
<1>1. CASE ~Exists(q)
  <2>1. q.phase = ""
    BY <1>1 DEF Exists
  <2>3. q = NoPod
    <3>1. q \notin [rev : Revs, phase : {"Pending", "Running", "Failed"},
                   cond : {"none", "False", "True"}, del : BOOLEAN]
      BY <2>1
    <3> QED
      BY <3>1 DEF Pod
  <2>2. ~q.del /\ q.cond = "none"
    BY <2>3 DEF NoPod
  <2>4. Stage(q) = 2
    BY <1>1 DEF Stage
  <2>5. ~Good(q)
    BY <2>1 DEF Good, isAvailable
  <2>6. q.del <=> Stage(q) = 1
    BY <2>2, <2>4
  <2>7. Stage(q) \in 0 .. 4
    BY <2>4
  <2>8. Good(q) <=> Stage(q) \in {0, 4}
    BY <2>4, <2>5
  <2>9. Stage(q) \in {0, 1} <=> Exists(q) /\ q.rev = FirstRev
    BY <1>1, <2>4
  <2>10. q.phase # "Failed"
    BY <2>1
  <2> QED
    BY <1>1, <2>4, <2>6, <2>7, <2>8, <2>9, <2>10
<1>2. CASE Exists(q)
  <2>1. q.phase \in {"Pending", "Running", "Failed"} /\ q.del \in BOOLEAN
    BY <1>2, ExistingPod
  <2> QED
    BY <1>2, <2>1 DEF Stage, Good, isAvailable, Shaped
<1> QED
  BY <1>1, <1>2

\* A finished deployment satisfies the invariant.
LEMMA RolloutInit ==
    ASSUME SingleRollout, TypeOK, DeployedInit
    PROVE  RolloutInv
<1>1. InRollout(app) /\ app.tmpl = FirstRev
  BY DEF SingleRollout, DeployedInit, InRollout, NewApp
<1>2. ASSUME NEW i \in Ordinals
      PROVE  /\ i < InitReplicas => /\ pods[i].rev = FirstRev
                                    /\ isAvailable(pods[i])
                                    /\ Exists(pods[i])
                                    /\ Stage(pods[i]) = 0
             /\ ~(i < InitReplicas) => ~Exists(pods[i])
  BY DEF DeployedInit, RunningPod, NoPod, isAvailable, getPodReady, Exists, Stage
<1>3. ScenarioInv
  BY <1>1 DEF ScenarioInv, DeployedInit, FullBudget, SingleRollout, Idle
<1>4. ShapeInv
  BY <1>2 DEF ShapeInv, Shaped, DeployedInit
<1>5. CacheInv
  BY <1>2 DEF CacheInv, Replicas, DeployedInit
<1>6. OrderInv
  BY <1>2 DEF OrderInv, Replicas
<1>7. PlanInv
  BY DEF PlanInv, DeployedInit, Idle, NoPlan
<1> QED
  BY <1>3, <1>4, <1>5, <1>6, <1>7 DEF RolloutInv

-----------------------------------------------------------------------------
(***************************************************************************)
(* The plan.  At most one slot is not Good in the cache: whichever it is,  *)
(* every slot above it has been seen new and up.                           *)
(***************************************************************************)
LEMMA SeenDown ==
    ASSUME TypeOK, RolloutInv, NEW i \in Replicas, Stage(podCache[i]) # 0
    PROVE  MayTouch(i)
<1>1. Shaped(podCache[i]) /\ podCache[i] \in Pod
  BY DEF RolloutInv, ShapeInv, Replicas, TypeOK
<1>2. Shaped(pods[i]) /\ pods[i] \in Pod
  BY DEF RolloutInv, ShapeInv, Replicas, TypeOK
<1>3. Stage(podCache[i]) \in 0 .. 4 /\ Stage(pods[i]) \in 0 .. 4
  BY <1>1, <1>2, StageMeaning
<1>4. Stage(podCache[i]) <= Stage(pods[i])
  BY DEF RolloutInv, CacheInv
<1>5. Stage(pods[i]) # 0
  BY <1>3, <1>4
<1> QED
  BY <1>5 DEF RolloutInv, OrderInv

\* What a reconcile plans from a snapshot of the caches is within the invariant.
LEMMA PlanSafe ==
    ASSUME SingleRollout, TypeOK, RolloutInv, NEW cur \in Revs
    PROVE  LET p == applyUpdate(appCache, cur, appCache.tmpl, podCache)
           IN /\ p.restart = {}
              /\ p.cull = {}
              /\ p.make # {} => p.roll = {}
              /\ \A i \in p.make : /\ MayTouch(i)
                                   /\ p.rev[i] = app.tmpl
                                   /\ Stage(podCache[i]) >= 2
              /\ \A i \in p.roll : MayTouch(i) /\ Stage(pods[i]) <= 2
<1> DEFINE R == replicaList(appCache, cur, appCache.tmpl, podCache)
           V == visited(appCache, R)
           p == applyUpdate(appCache, cur, appCache.tmpl, podCache)
<1>1. ~burstable
  BY DEF SingleRollout, burstable
<1>2. Slots(appCache) = Replicas
  BY DEF RolloutInv, ScenarioInv, InRollout, Slots, Replicas
<1>3. invalidPods(appCache, podCache) = {}
  BY <1>2 DEF RolloutInv, CacheInv, invalidPods
<1>4. ASSUME NEW i \in Ordinals
      PROVE  /\ Shaped(podCache[i]) /\ podCache[i] \in Pod
             /\ Shaped(pods[i]) /\ pods[i] \in Pod
             /\ Stage(podCache[i]) \in 0 .. 4
             /\ Stage(pods[i]) \in 0 .. 4
  BY StageMeaning DEF RolloutInv, ShapeInv, TypeOK
<1>5. ASSUME NEW i \in Ordinals, Exists(podCache[i])
      PROVE  R[i] = podCache[i]
  BY <1>5 DEF replicaList
<1>6. ASSUME NEW i \in Ordinals, ~Exists(podCache[i])
      PROVE  /\ R[i] = newVersionedPodForApp(appCache, cur, appCache.tmpl, i, podCache)
             /\ R[i].phase = ""
             /\ ~Good(R[i])
  <2>1. R[i] = newVersionedPodForApp(appCache, cur, appCache.tmpl, i, podCache)
    BY <1>6 DEF replicaList
  <2>2. R[i].phase = ""
    BY <2>1 DEF newVersionedPodForApp, NoPod
  <2>3. ~Good(R[i])
    BY <2>2 DEF Good, isAvailable
  <2> QED
    BY <2>1, <2>2, <2>3
<1>7. V \subseteq Replicas
  BY <1>2 DEF visited
<1> HIDE DEF R, V
<1>8. p.restart = {}
  <2>1. ASSUME NEW i \in Ordinals
        PROVE  R[i].phase # "Failed"
    BY <1>4, <1>5, <1>6, StageMeaning
  <2> QED
    BY <1>7, <2>1 DEF applyUpdate, R, V, Replicas
<1>9. p.cull = {}
  BY <1>1, <1>3 DEF applyUpdate, culled
<1>10. ASSUME NEW i \in p.make
       PROVE  i \in V /\ ~Exists(podCache[i]) /\ i \in Replicas
  <2>1. i \in V /\ ~Exists(R[i])
    BY <1>10 DEF applyUpdate, R, V
  <2> QED
    BY <2>1, <1>5, <1>7 DEF Replicas
<1>11. ASSUME NEW i \in p.make
       PROVE  /\ MayTouch(i)
              /\ p.rev[i] = app.tmpl
              /\ Stage(podCache[i]) >= 2
  <2>1. i \in Ordinals /\ i \in Replicas /\ ~Exists(podCache[i])
    BY <1>10, <1>11 DEF Replicas
  <2>2. Stage(podCache[i]) = 2
    BY <2>1 DEF Stage
  <2>3. MayTouch(i)
    BY <2>1, <2>2, SeenDown
  <2>4. p.rev[i] = R[i].rev
    BY <1>11, <2>1 DEF applyUpdate, R, V
  <2>5. ~isCurrentRevisionExpected(appCache, appCache.tmpl, i, podCache)
    <3>1. ~appCache.unordered /\ appCache.partition = InitPartition
      BY DEF RolloutInv, ScenarioInv, InRollout
    <3>2. i \in Int /\ InitPartition \in Int /\ i >= InitPartition
      BY <2>1, <2>3, PlanAssumption, ControllerAssumption DEF MayTouch, Ordinals
    <3> QED
      BY <3>1, <3>2 DEF isCurrentRevisionExpected
  <2>6. R[i].rev = appCache.tmpl
    BY <2>1, <2>5, <1>6 DEF newVersionedPodForApp, NoPod
  <2> QED
    BY <2>2, <2>3, <2>4, <2>6 DEF MayTouch
<1>12. p.make # {} => p.roll = {}
  <2>1. ASSUME NEW i \in p.make
        PROVE  ~allAvailable(appCache, R)
    BY <1>6, <1>10 DEF allAvailable, V, Replicas
  <2>2. ~allAvailable(appCache, R) => p.roll = {}
    BY DEF applyUpdate, R
  <2> QED
    BY <2>1, <2>2
<1>13. ASSUME allAvailable(appCache, R), NEW i \in Replicas
       PROVE  Exists(podCache[i]) /\ Stage(podCache[i]) \in {0, 4} /\ R[i] = podCache[i]
  <2>1. SUFFICES ASSUME ~Exists(podCache[i]) \/ Stage(podCache[i]) \notin {0, 4}
                 PROVE  FALSE
    BY <1>5 DEF Replicas
  <2>2. i \in Ordinals /\ Stage(podCache[i]) # 0 /\ Stage(podCache[i]) # 4
    BY <2>1, <1>4, StageMeaning DEF Replicas
  <2>3. ASSUME NEW j \in Replicas, j < i
        PROVE  Good(R[j])
    <3>1. j \in Ordinals /\ i > j
      BY <2>2, <2>3, PlanAssumption DEF Replicas, Ordinals
    <3>2. Stage(podCache[j]) = 0
      BY <2>2, <3>1, SeenDown DEF MayTouch
    <3>3. Good(podCache[j]) /\ Exists(podCache[j])
      BY <1>4, <3>1, <3>2, StageMeaning
    <3> QED
      BY <1>5, <3>1, <3>3
  <2>4. i \in V
    BY <1>2, <2>3 DEF V, visited, Breaks
  <2>5. ~Good(R[i])
    <3>1. CASE Exists(podCache[i])
      BY <3>1, <2>2, <1>4, <1>5, StageMeaning
    <3>2. CASE ~Exists(podCache[i])
      BY <3>2, <2>2, <1>6
    <3> QED
      BY <3>1, <3>2
  <2> QED
    BY <2>4, <2>5, <1>13, <1>1 DEF allAvailable, V
<1>14. ASSUME NEW t \in p.roll
       PROVE  MayTouch(t) /\ Stage(pods[t]) <= 2
  <2>1. allAvailable(appCache, R) /\ t \in rolled(appCache, R, appCache.tmpl)
    BY <1>14 DEF applyUpdate, R
  <2> DEFINE stops == {i \in Slots(appCache) : /\ i >= appCache.partition
                                               /\ ~R[i].del
                                               /\ R[i].rev # appCache.tmpl \/ ~getPodReady(R[i])}
  <2>2. t \in stops /\ R[t].rev # appCache.tmpl /\ \A j \in stops : j <= t
    BY <2>1 DEF rolled
  <2>3. t \in Replicas /\ t \in Ordinals /\ t >= InitPartition
    BY <2>2, <1>2 DEF Replicas, RolloutInv, ScenarioInv, InRollout
  <2>4. R[t] = podCache[t] /\ Exists(podCache[t]) /\ Stage(podCache[t]) \in {0, 4}
    BY <2>1, <2>3, <1>13
  <2>5. appCache.tmpl \in {FirstRev, app.tmpl}
    BY DEF RolloutInv, ScenarioInv
  <2>6. Stage(podCache[t]) = 4 => appCache.tmpl = app.tmpl /\ podCache[t].rev = app.tmpl
    BY <2>3, <1>4, StageMeaning, SeenDown DEF MayTouch
  <2>7. Stage(podCache[t]) = 0
    BY <2>2, <2>4, <2>6
  <2>8. podCache[t].rev = FirstRev
    BY <2>3, <2>7, <1>4, StageMeaning
  <2>9. appCache.tmpl = app.tmpl /\ app.tmpl # FirstRev
    BY <2>2, <2>4, <2>5, <2>8
  <2>10. ASSUME NEW j \in Replicas, j > t
         PROVE  Stage(podCache[j]) = 4
    <3>1. j \in Ordinals /\ ~(j <= t) /\ j >= InitPartition
      BY <2>3, <2>10, PlanAssumption, ControllerAssumption DEF Replicas, Ordinals
    <3>2. R[j] = podCache[j] /\ Exists(podCache[j]) /\ Stage(podCache[j]) \in {0, 4}
      BY <2>1, <1>13
    <3>3. ~podCache[j].del
      BY <3>1, <3>2, <1>4, StageMeaning
    <3>4. appCache.partition = InitPartition
      BY DEF RolloutInv, ScenarioInv, InRollout
    <3>5. podCache[j].rev = appCache.tmpl
      <4>1. j \notin stops
        BY <2>2, <3>1
      <4>2. j \in Slots(appCache) /\ j >= appCache.partition
        BY <1>2, <2>10, <3>1, <3>4
      <4>3. ~R[j].del
        BY <3>2, <3>3
      <4> QED
        BY <4>1, <4>2, <4>3, <3>2
    <3> QED
      BY <2>9, <3>1, <3>2, <3>5, <1>4, StageMeaning
  <2>11. Stage(pods[t]) <= 2
    BY <2>3, <2>7 DEF RolloutInv, CacheInv
  <2> QED
    BY <2>3, <2>9, <2>10, <2>11 DEF MayTouch
<1> QED
  BY <1>8, <1>9, <1>11, <1>12, <1>14

-----------------------------------------------------------------------------
(***************************************************************************)
(* Steps                                                                   *)
(***************************************************************************)
\* What is left of q's plan is left of r's.
PlanShrinks(q, r) ==
    /\ q.plan.make \subseteq r.plan.make
    /\ q.plan.restart \subseteq r.plan.restart
    /\ q.plan.cull \subseteq r.plan.cull
    /\ q.plan.roll \subseteq r.plan.roll
    /\ \A i \in q.plan.make : q.plan.rev[i] = r.plan.rev[i]

LEMMA PlanShrinksUpdate ==
    ASSUME NEW r \in Reconcile
    PROVE  /\ \A i : PlanShrinks([r EXCEPT !.plan.make = @ \ {i}], r)
           /\ \A i : PlanShrinks([r EXCEPT !.plan.make = @ \ {i}, !.err = TRUE], r)
           /\ PlanShrinks([r EXCEPT !.plan.pvc = {}], r)
           /\ PlanShrinks([r EXCEPT !.plan.pvc = {}, !.err = TRUE], r)
           /\ PlanShrinks([r EXCEPT !.plan.roll = {}, !.status.current = @ - 1], r)
           /\ PlanShrinks([r EXCEPT !.plan.roll = {}, !.err = TRUE], r)
<1>1. r.plan \in Plan
  BY DEF Reconcile
<1>2. \A i : PlanShrinks([r EXCEPT !.plan.make = @ \ {i}], r)
  BY <1>1 DEF PlanShrinks, Reconcile, Plan
<1>3. \A i : PlanShrinks([r EXCEPT !.plan.make = @ \ {i}, !.err = TRUE], r)
  BY <1>1 DEF PlanShrinks, Reconcile, Plan
<1>4. PlanShrinks([r EXCEPT !.plan.pvc = {}], r)
  BY <1>1 DEF PlanShrinks, Reconcile, Plan
<1>5. PlanShrinks([r EXCEPT !.plan.pvc = {}, !.err = TRUE], r)
  BY <1>1 DEF PlanShrinks, Reconcile, Plan
<1>6. PlanShrinks([r EXCEPT !.plan.roll = {}, !.status.current = @ - 1], r)
  BY <1>1 DEF PlanShrinks, Reconcile, Plan
<1>7. PlanShrinks([r EXCEPT !.plan.roll = {}, !.err = TRUE], r)
  BY <1>1 DEF PlanShrinks, Reconcile, Plan
<1> QED
  BY <1>2, <1>3, <1>4, <1>5, <1>6, <1>7

LEMMA PlanShrinksIdle ==
    ASSUME NEW r \in Reconcile
    PROVE  PlanShrinks(Idle, r)
  BY DEF PlanShrinks, Idle, NoPlan

\* A step of the reconcile that changes at most the Pod i on the server.
LEMMA PodChange ==
    ASSUME TypeOK, RolloutInv, ScenarioInv',
           NEW i \in Replicas, NEW q \in Pod,
           pods' = [pods EXCEPT ![i] = q],
           podCache' = podCache, appCache' = appCache, app'.tmpl = app.tmpl,
           PlanShrinks(rec', rec),
           Shaped(q),
           Stage(pods[i]) <= Stage(q) \/ Stage(podCache[i]) <= Stage(q),
           Stage(podCache[i]) <= 1 => Stage(q) <= 2,
           Stage(q) # 0 => MayTouch(i),
           i < InitPartition => Stage(q) = 0,
           i \in rec'.plan.roll => Stage(q) <= 2
    PROVE  RolloutInv'
<1>1. pods \in [Ordinals -> Pod] /\ Replicas \subseteq Ordinals
  BY DEF TypeOK, Replicas
<1>2. pods'[i] = q /\ \A j \in Ordinals : j # i => pods'[j] = pods[j]
  BY <1>1
<1>3. \A p : Shaped(p)' <=> (Exists(p) => IF p.rev = FirstRev THEN isAvailable(p)
                              ELSE /\ p.rev = app.tmpl
                                   /\ ~p.del
                                   /\ p.phase = "Pending" \/ isAvailable(p))
  BY DEF Shaped
<1>4. \A j : MayTouch(j)' <=> MayTouch(j)
  BY DEF MayTouch
<1>5. ShapeInv'
  BY <1>1, <1>2, <1>3 DEF ShapeInv, Shaped, RolloutInv
<1>6. CacheInv'
  <2>1. Stage(podCache[i]) <= Stage(q)
    <3>1. Stage(podCache[i]) \in 0 .. 4 /\ Stage(pods[i]) \in 0 .. 4 /\ Stage(q) \in 0 .. 4
      BY <1>1, StageMeaning DEF RolloutInv, ShapeInv, TypeOK
    <3>2. Stage(podCache[i]) <= Stage(pods[i])
      BY DEF RolloutInv, CacheInv
    <3> QED
      BY <3>1, <3>2
  <2> QED
    BY <1>1, <1>2, <2>1 DEF CacheInv, RolloutInv, Replicas
<1>7. OrderInv'
  BY <1>1, <1>2, <1>4 DEF OrderInv, RolloutInv
<1>8. PlanInv'
  <2>1. /\ rec'.plan.restart = {}
        /\ rec'.plan.cull = {}
        /\ rec'.plan.make # {} => rec'.plan.roll = {}
    BY DEF PlanShrinks, PlanInv, RolloutInv
  <2>2. ASSUME NEW j \in rec'.plan.make
        PROVE  MayTouch(j) /\ rec'.plan.rev[j] = app.tmpl /\ Stage(podCache[j]) >= 2
    BY DEF PlanShrinks, PlanInv, RolloutInv
  <2>3. ASSUME NEW j \in rec'.plan.roll
        PROVE  MayTouch(j) /\ Stage(pods'[j]) <= 2
    <3>1. j \in rec.plan.roll /\ MayTouch(j) /\ Stage(pods[j]) <= 2
      BY DEF PlanShrinks, PlanInv, RolloutInv
    <3>2. j \in Ordinals
      BY <3>1, <1>1 DEF MayTouch
    <3> QED
      BY <3>1, <3>2, <1>2
  <2> QED
    BY <2>1, <2>2, <2>3, <1>4 DEF PlanInv
<1> QED
  BY <1>5, <1>6, <1>7, <1>8 DEF RolloutInv

\* A step that changes no Pod, no cache and not the template.
LEMMA Frame ==
    ASSUME TypeOK, RolloutInv, ScenarioInv',
           pods' = pods, podCache' = podCache, appCache' = appCache,
           app'.tmpl = app.tmpl, PlanShrinks(rec', rec)
    PROVE  RolloutInv'
<1>1. \A j : MayTouch(j)' <=> MayTouch(j)
  BY DEF MayTouch
<1>2. ShapeInv' /\ CacheInv' /\ OrderInv'
  BY <1>1 DEF ShapeInv, Shaped, CacheInv, OrderInv, RolloutInv
<1>3. PlanInv'
  BY <1>1 DEF PlanShrinks, PlanInv, RolloutInv
<1> QED
  BY <1>2, <1>3 DEF RolloutInv

\* A call of the reconcile that fails, or finds nothing to do.
LEMMA CallFrame ==
    ASSUME TypeOK, RolloutInv, pods' = pods, podCache' = podCache,
           appCache' = appCache, app' = app,
           \/ budget' = budget
           \/ Spend("apiFail"),
           PlanShrinks(rec', rec), rec'.last = rec.last
    PROVE  RolloutInv'
<1>1. budget \in Budget
  BY DEF TypeOK
<1>2. budget'.podLoss = budget.podLoss /\ budget'.edits = budget.edits
  BY <1>1 DEF Spend, Budget
<1>3. ScenarioInv'
  BY <1>2 DEF RolloutInv, ScenarioInv, InRollout
<1> QED
  BY <1>3, Frame

-----------------------------------------------------------------------------
(***************************************************************************)
(* The controller's steps                                                  *)
(***************************************************************************)
LEMMA UpdateAppKeeps ==
    ASSUME SingleRollout, TypeOK, RolloutInv, UpdateApp
    PROVE  RolloutInv'
<1> DEFINE cur == currentRevision(appCache)
           p == applyUpdate(appCache, cur, appCache.tmpl, podCache)
<1>1. cur \in Revs
  BY DEF TypeOK, App, Status, currentRevision
<1>2. /\ p.restart = {}
      /\ p.cull = {}
      /\ p.make # {} => p.roll = {}
      /\ \A i \in p.make : /\ MayTouch(i)
                           /\ p.rev[i] = app.tmpl
                           /\ Stage(podCache[i]) >= 2
      /\ \A i \in p.roll : MayTouch(i) /\ Stage(pods[i]) <= 2
  BY <1>1, PlanSafe
<1>3. ~LastReconcile(appCache, podCache)
  BY DEF RolloutInv, ScenarioInv, InRollout, LastReconcile
<1> HIDE DEF cur, p
<1>4. rec'.plan = p /\ ~rec'.last
  BY <1>3 DEF UpdateApp, Begin, cur, p
<1>5. /\ app' = app /\ appCache' = appCache
      /\ pods' = pods /\ podCache' = podCache /\ budget' = budget
  BY DEF UpdateApp
<1>6. ScenarioInv'
  BY <1>4, <1>5 DEF RolloutInv, ScenarioInv, InRollout
<1>7. \A j : MayTouch(j)' <=> MayTouch(j)
  BY <1>5 DEF MayTouch
<1>8. ShapeInv' /\ CacheInv' /\ OrderInv'
  BY <1>5, <1>7 DEF ShapeInv, Shaped, CacheInv, OrderInv, RolloutInv
<1>9. PlanInv'
  BY <1>2, <1>4, <1>5, <1>7 DEF PlanInv
<1> QED
  BY <1>6, <1>8, <1>9 DEF RolloutInv

LEMMA CreateKeeps ==
    ASSUME SingleRollout, TypeOK, RolloutInv,
           NEW i \in Ordinals, CreateStatefulPod(i)
    PROVE  RolloutInv'
<1>1. rec \in Reconcile /\ i \in rec.plan.make
  BY DEF CreateStatefulPod, Lowest, TypeOK
<1>2. PlanShrinks(rec', rec) /\ rec'.last = rec.last
  <2>1. PlanShrinks(rec', rec)
    BY <1>1, PlanShrinksUpdate DEF CreateStatefulPod
  <2>2. rec'.last = rec.last
    BY <1>1 DEF CreateStatefulPod, Reconcile
  <2> QED
    BY <2>1, <2>2
<1>3. app' = app /\ appCache' = appCache /\ podCache' = podCache
  BY DEF CreateStatefulPod
<1>4. CASE pods' = pods /\ (budget' = budget \/ Spend("apiFail"))
  BY <1>2, <1>3, <1>4, CallFrame
<1>5. CASE /\ ~Exists(pods[i])
           /\ pods' = [pods EXCEPT ![i] = [NoPod EXCEPT !.rev = rec.plan.rev[i],
                                                        !.phase = "Pending"]]
           /\ budget' = budget
  <2> DEFINE q == [NoPod EXCEPT !.rev = rec.plan.rev[i], !.phase = "Pending"]
  <2>1. /\ MayTouch(i) /\ rec.plan.rev[i] = app.tmpl
        /\ Stage(podCache[i]) >= 2 /\ rec.plan.roll = {}
    BY <1>1 DEF RolloutInv, PlanInv
  <2>2. i \in Replicas /\ i >= InitPartition /\ app.tmpl # FirstRev
    BY <2>1 DEF MayTouch
  <2>3. q.rev = app.tmpl /\ q.phase = "Pending" /\ ~q.del /\ q \in Pod
    BY <2>1, <1>1 DEF NoPod, Pod, TypeOK
  <2>4. Shaped(q) /\ Stage(q) = 3
    BY <2>2, <2>3 DEF Shaped, Stage, Exists
  <2>5. Stage(pods[i]) = 2
    BY <1>5 DEF Stage
  <2>6. ScenarioInv'
    BY <1>2, <1>3, <1>5 DEF RolloutInv, ScenarioInv, InRollout
  <2>7. rec'.plan.roll = {}
    BY <2>1, <1>2 DEF PlanShrinks
  <2>8. ~(i < InitPartition)
    BY <2>2, ControllerAssumption, PlanAssumption DEF Replicas, Ordinals
  <2>9. Stage(podCache[i]) \in 0 .. 4
    BY StageMeaning DEF RolloutInv, ShapeInv, TypeOK
  <2> HIDE DEF q
  <2>10. pods' = [pods EXCEPT ![i] = q]
    BY <1>5 DEF q
  <2>11. Stage(pods[i]) <= Stage(q) /\ ~(Stage(podCache[i]) <= 1)
    BY <2>1, <2>4, <2>5, <2>9
  <2> QED
    BY <1>2, <1>3, <2>1, <2>2, <2>3, <2>4, <2>6, <2>7, <2>8, <2>10, <2>11, PodChange
<1> QED
  BY <1>4, <1>5 DEF CreateStatefulPod, CallFails

LEMMA RollKeeps ==
    ASSUME SingleRollout, TypeOK, RolloutInv, NEW i \in Ordinals, RollPod(i)
    PROVE  RolloutInv'
<1>1. rec \in Reconcile /\ i \in rec.plan.roll
  BY DEF RollPod, TypeOK
<1>2. PlanShrinks(rec', rec) /\ rec'.last = rec.last
  <2>1. PlanShrinks(rec', rec)
    BY <1>1, PlanShrinksUpdate DEF RollPod
  <2>2. rec'.last = rec.last
    BY <1>1 DEF RollPod, Reconcile
  <2> QED
    BY <2>1, <2>2
<1>3. app' = app /\ appCache' = appCache /\ podCache' = podCache
  BY DEF RollPod
<1>4. CASE pods' = pods /\ (budget' = budget \/ Spend("apiFail"))
  BY <1>2, <1>3, <1>4, CallFrame
<1>5. CASE /\ Exists(pods[i])
           /\ pods' = [pods EXCEPT ![i].del = TRUE]
           /\ rec' = [rec EXCEPT !.plan.roll = {}, !.status.current = @ - 1]
           /\ budget' = budget
  <2> DEFINE q == [pods[i] EXCEPT !.del = TRUE]
  <2>1. MayTouch(i) /\ Stage(pods[i]) <= 2
    BY <1>1 DEF RolloutInv, PlanInv
  <2>2. i \in Replicas /\ i >= InitPartition
    BY <2>1 DEF MayTouch
  <2>3. pods[i] \in Pod /\ Shaped(pods[i])
    BY DEF RolloutInv, ShapeInv, TypeOK
  <2>4. Stage(pods[i]) \in {0, 1} /\ pods[i].rev = FirstRev /\ isAvailable(pods[i])
    <3>1. Stage(pods[i]) \in {0, 1}
      BY <1>5, <2>1, <2>3, StageMeaning
    <3> QED
      BY <3>1, <2>3, StageMeaning DEF Shaped
  <2>5. /\ q \in Pod /\ q.rev = FirstRev /\ q.del
        /\ q.phase = pods[i].phase /\ q.cond = pods[i].cond
    <3>1. q \in Pod
      BY <1>5, <2>3, ChangedPod
    <3> QED
      BY <1>5, <2>3, <2>4, <3>1, ExistingPod
  <2>6. Shaped(q) /\ Stage(q) = 1
    <3>1. Exists(q) /\ isAvailable(q)
      BY <1>5, <2>4, <2>5 DEF Exists, isAvailable, getPodReady
    <3> QED
      BY <3>1, <2>5 DEF Shaped, Stage
  <2>7. ScenarioInv'
    BY <1>2, <1>3, <1>5 DEF RolloutInv, ScenarioInv, InRollout
  <2>8. ~(i < InitPartition)
    BY <2>2, ControllerAssumption, PlanAssumption DEF Replicas, Ordinals
  <2> HIDE DEF q
  <2>9. pods' = [pods EXCEPT ![i] = q]
    BY <1>5 DEF q
  <2>10. Stage(pods[i]) <= Stage(q) /\ Stage(q) <= 2
    BY <2>4, <2>6
  <2> QED
    BY <1>2, <1>3, <2>1, <2>2, <2>5, <2>6, <2>7, <2>8, <2>9, <2>10, PodChange
<1> QED
  BY <1>4, <1>5 DEF RollPod, ServerDelete, CallFails

\* The rest of the controller: impossible in this scenario, or without effect
\* on what the invariant is about.
LEMMA ControllerKeeps ==
    ASSUME SingleRollout, TypeOK, RolloutInv, Controller
    PROVE  RolloutInv'
<1>1. /\ appCache.exists /\ appCache.fin /\ appCache.complete /\ ~appCache.deleting
      /\ ~rec.last /\ rec.plan.restart = {} /\ rec.plan.cull = {}
  BY DEF RolloutInv, ScenarioInv, InRollout, PlanInv
<1>2. rec \in Reconcile
  BY DEF TypeOK
<1>3. CASE ReconcileGone
  BY <1>1, <1>3 DEF ReconcileGone
<1>4. CASE AddFinalizer
  BY <1>1, <1>4 DEF AddFinalizer, NeedsFinalizer
<1>5. CASE ScaleToZero
  BY <1>1, <1>5 DEF ScaleToZero, NeedsScaleToZero
<1>6. CASE UpdateApp
  BY <1>6, UpdateAppKeeps
<1>7. CASE RevisionFails
  BY <1>7, CallFrame DEF RevisionFails, PlanShrinks
<1>8. CASE ApplyDefaults
  BY <1>1, <1>8 DEF ApplyDefaults, NeedsDefaults
<1>9. CASE \E i \in Ordinals : CreateStatefulPod(i)
  BY <1>9, CreateKeeps
<1>10. ASSUME NEW i \in Ordinals, createPVC(i)
       PROVE  RolloutInv'
  <2>1. PlanShrinks(rec', rec)
    BY <1>2, <1>10, PlanShrinksUpdate DEF createPVC
  <2>2. rec'.last = rec.last
    BY <1>2, <1>10 DEF createPVC, Reconcile
  <2> QED
    BY <1>10, <2>1, <2>2, CallFrame DEF createPVC, CallFails
<1>11. CASE \E i \in Ordinals : RestartPod(i)
  BY <1>1, <1>11 DEF RestartPod
<1>12. CASE \E i \in Ordinals : CullPod(i)
  BY <1>1, <1>12 DEF CullPod, Highest
<1>13. CASE \E i \in Ordinals : RollPod(i)
  BY <1>13, RollKeeps
<1>14. CASE SkipStatus
  <2>1. PlanShrinks(rec', rec) /\ rec'.last = rec.last
    BY <1>2, <1>14 DEF SkipStatus, PlanShrinks, Reconcile
  <2> QED
    BY <1>14, <2>1, CallFrame DEF SkipStatus
<1>15. CASE updateAppStatus
  <2>1. PlanShrinks(rec', rec) /\ rec'.last = rec.last
    BY <1>2, <1>15 DEF updateAppStatus, Outdated, PlanShrinks, Reconcile
  <2>2. CASE app' = app /\ (budget' = budget \/ Spend("apiFail"))
    BY <1>15, <2>1, <2>2, CallFrame DEF updateAppStatus
  <2>3. CASE app' = [app EXCEPT !.status = FinalStatus] /\ budget' = budget
    <3>1. app \in App
      BY DEF TypeOK
    <3>2. InRollout(app') /\ app'.tmpl = app.tmpl
      BY <2>3, <3>1 DEF RolloutInv, ScenarioInv, InRollout, App
    <3>3. ScenarioInv'
      BY <1>15, <2>1, <2>3, <3>2 DEF RolloutInv, ScenarioInv, InRollout, updateAppStatus
    <3> QED
      BY <1>15, <2>1, <3>2, <3>3, Frame DEF updateAppStatus
  <2> QED
    BY <1>15, <2>2, <2>3 DEF updateAppStatus
<1>16. CASE RemoveFinalizer
  BY <1>1, <1>16 DEF RemoveFinalizer
<1>17. CASE Return
  <2>1. PlanShrinks(rec', rec)
    BY <1>2, <1>17, PlanShrinksIdle DEF Return
  <2>2. rec'.last = rec.last
    BY <1>1, <1>2, <1>17 DEF Return, Idle, Reconcile
  <2> QED
    BY <1>17, <2>1, <2>2, CallFrame DEF Return
<1> QED
  BY <1>3, <1>4, <1>5, <1>6, <1>7, <1>8, <1>9, <1>10, <1>11, <1>12, <1>13,
     <1>14, <1>15, <1>16, <1>17 DEF Controller

-----------------------------------------------------------------------------
(***************************************************************************)
(* The informers, restarts, the kubelet and the user                       *)
(***************************************************************************)
LEMMA SyncAppKeeps ==
    ASSUME TypeOK, RolloutInv, SyncApp
    PROVE  RolloutInv'
<1>1. /\ appCache' = app /\ app' = app /\ pods' = pods
      /\ podCache' = podCache /\ budget' = budget
  BY DEF SyncApp
<1>2. rec'.plan = rec.plan /\ rec'.last = rec.last
  BY DEF SyncApp, TypeOK, Reconcile
<1>3. \A j : MayTouch(j) => MayTouch(j)'
  BY <1>1 DEF MayTouch
<1>4. ScenarioInv'
  BY <1>1, <1>2 DEF RolloutInv, ScenarioInv, InRollout
<1>5. ShapeInv' /\ CacheInv' /\ OrderInv'
  BY <1>1, <1>3 DEF RolloutInv, ShapeInv, Shaped, CacheInv, OrderInv
<1>6. PlanInv'
  BY <1>1, <1>2, <1>3 DEF RolloutInv, PlanInv
<1> QED
  BY <1>4, <1>5, <1>6 DEF RolloutInv

\* The Pod cache moves towards the server, for any of the Pods.
LEMMA PodCacheCatchesUp ==
    ASSUME TypeOK, TypeOK', RolloutInv, ScenarioInv',
           app' = app, pods' = pods,
           appCache' \in {app, appCache},
           PlanShrinks(rec', rec),
           \A i \in Ordinals : podCache'[i] \in {podCache[i], pods[i]}
    PROVE  RolloutInv'
<1>1. ASSUME NEW i \in Ordinals
      PROVE  /\ Stage(pods[i]) \in 0 .. 4
             /\ Stage(podCache[i]) \in 0 .. 4
             /\ podCache'[i] \in Pod
  BY StageMeaning DEF RolloutInv, ShapeInv, TypeOK
<1>2. ASSUME NEW i \in Replicas
      PROVE  /\ i \in Ordinals
             /\ Stage(podCache[i]) <= Stage(podCache'[i])
             /\ Stage(podCache'[i]) <= Stage(pods[i])
             /\ Stage(podCache'[i]) \in 0 .. 4
             /\ Stage(podCache'[i]) <= 1 => Stage(pods[i]) <= 2
  <2>1. i \in Ordinals
    BY DEF Replicas
  <2>2. Stage(podCache[i]) <= Stage(pods[i])
    BY DEF RolloutInv, CacheInv
  <2>3. Stage(podCache[i]) <= 1 => Stage(pods[i]) <= 2
    BY DEF RolloutInv, CacheInv
  <2> QED
    BY <1>1, <2>1, <2>2, <2>3
<1>3. ASSUME NEW j, MayTouch(j)
      PROVE  MayTouch(j)'
  <2>1. \A k \in Replicas : k > j => Stage(podCache'[k]) = 4
    BY <1>1, <1>2, <1>3 DEF MayTouch
  <2> QED
    BY <1>3, <2>1 DEF MayTouch
<1>4. ShapeInv'
  BY DEF RolloutInv, ShapeInv, Shaped
<1>5. CacheInv'
  <2>1. \A i \in Ordinals \ Replicas : ~Exists(pods'[i]) /\ ~Exists(podCache'[i])
    BY DEF RolloutInv, CacheInv
  <2>2. ASSUME NEW i \in Replicas
        PROVE  /\ Stage(podCache'[i]) <= Stage(pods'[i])
               /\ Stage(podCache'[i]) <= 1 => Stage(pods'[i]) <= 2
               /\ i < InitPartition => Stage(pods'[i]) = 0
    BY <1>2 DEF RolloutInv, CacheInv
  <2> QED
    BY <2>1, <2>2 DEF CacheInv, Replicas
<1>6. OrderInv'
  BY <1>3 DEF RolloutInv, OrderInv, Replicas
<1>7. PlanInv'
  <2>1. /\ rec'.plan.restart = {}
        /\ rec'.plan.cull = {}
        /\ rec'.plan.make # {} => rec'.plan.roll = {}
    BY DEF PlanShrinks, PlanInv, RolloutInv
  <2>2. ASSUME NEW j \in rec'.plan.make
        PROVE  MayTouch(j)' /\ rec'.plan.rev[j] = app'.tmpl /\ Stage(podCache'[j]) >= 2
    <3>1. j \in Replicas /\ MayTouch(j) /\ rec'.plan.rev[j] = app.tmpl /\ Stage(podCache[j]) >= 2
      BY DEF PlanShrinks, PlanInv, RolloutInv, MayTouch
    <3> QED
      BY <3>1, <1>1, <1>2, <1>3
  <2>3. ASSUME NEW j \in rec'.plan.roll
        PROVE  MayTouch(j)' /\ Stage(pods'[j]) <= 2
    BY <1>3 DEF PlanShrinks, PlanInv, RolloutInv
  <2> QED
    BY <2>1, <2>2, <2>3 DEF PlanInv
<1> QED
  BY <1>4, <1>5, <1>6, <1>7 DEF RolloutInv

LEMMA PodRunsKeeps ==
    ASSUME TypeOK, RolloutInv, NEW i \in Ordinals,
           PodRuns(i) \/ PodReadiness(i) \/ PodGone(i)
    PROVE  RolloutInv'
<1>1. /\ app' = app /\ appCache' = appCache /\ podCache' = podCache
      /\ rec' = rec /\ budget' = budget
  BY DEF PodRuns, PodReadiness, PodGone, PodsOnly
<1>2. ScenarioInv' /\ PlanShrinks(rec', rec)
  BY <1>1 DEF RolloutInv, ScenarioInv, InRollout, PlanShrinks
<1>3. pods[i] \in Pod /\ Shaped(pods[i]) /\ Exists(pods[i])
  <2>1. pods[i] \in Pod /\ Shaped(pods[i])
    BY DEF RolloutInv, ShapeInv, TypeOK
  <2>2. CASE PodRuns(i) \/ PodReadiness(i)
    BY <2>1, <2>2 DEF PodRuns, PodReadiness, Exists
  <2>3. CASE PodGone(i)
    BY <2>1, <2>3, StageMeaning DEF PodGone
  <2> QED
    BY <2>1, <2>2, <2>3
<1>4. i \in Replicas
  BY <1>3 DEF RolloutInv, CacheInv
<1>5. /\ Stage(pods[i]) \in 0 .. 4 /\ Stage(podCache[i]) \in 0 .. 4
      /\ Stage(podCache[i]) <= Stage(pods[i])
      /\ Stage(podCache[i]) <= 1 => Stage(pods[i]) <= 2
      /\ i < InitPartition => Stage(pods[i]) = 0
      /\ Stage(pods[i]) # 0 => MayTouch(i)
      /\ i \in rec'.plan.roll => Stage(pods[i]) <= 2
  BY <1>1, <1>4, StageMeaning
     DEF RolloutInv, ShapeInv, TypeOK, CacheInv, OrderInv, PlanInv
<1>6. pods[i] \in [rev : Revs, phase : {"Pending", "Running", "Failed"},
                   cond : {"none", "False", "True"}, del : BOOLEAN]
  BY <1>3, ExistingPod
<1>7. ReadyValues \subseteq {"False", "True"}
  BY ControllerAssumption
<1>8. CASE PodRuns(i)
  <2>1. PICK c \in ReadyValues :
            pods' = [pods EXCEPT ![i].phase = "Running", ![i].cond = c]
    BY <1>8 DEF PodRuns
  <2> DEFINE q == [pods[i] EXCEPT !.phase = "Running", !.cond = c]
  <2>2. /\ q \in Pod /\ q.rev = pods[i].rev /\ ~q.del
        /\ q.phase = "Running" /\ q.cond # "none"
    BY <1>6, <1>7, <1>8 DEF Pod, PodRuns
  <2>3. pods[i].rev # FirstRev /\ Stage(pods[i]) = 3
    BY <1>3, <1>8 DEF Shaped, isAvailable, Stage, PodRuns
  <2>4. Shaped(q) /\ Stage(q) = 4
    BY <1>3, <2>2, <2>3 DEF Shaped, Stage, Exists, isAvailable, getPodReady
  <2> HIDE DEF q
  <2>5. pods' = [pods EXCEPT ![i] = q]
    BY <2>1 DEF q, TypeOK
  <2>6. /\ Stage(pods[i]) <= Stage(q)
        /\ ~(Stage(podCache[i]) <= 1)
        /\ MayTouch(i)
        /\ ~(i < InitPartition)
        /\ i \notin rec'.plan.roll
    BY <1>5, <2>3, <2>4
  <2> QED
    BY <1>1, <1>2, <1>4, <2>2, <2>4, <2>5, <2>6, PodChange
<1>9. CASE PodReadiness(i)
  <2>1. PICK c \in ReadyValues : pods' = [pods EXCEPT ![i].cond = c]
    BY <1>9 DEF PodReadiness
  <2> DEFINE q == [pods[i] EXCEPT !.cond = c]
  <2>2. /\ q \in Pod /\ q.rev = pods[i].rev /\ q.del = pods[i].del
        /\ q.phase = "Running" /\ pods[i].phase = "Running" /\ q.cond # "none"
    BY <1>6, <1>7, <1>9 DEF Pod, PodReadiness
  <2>3. Shaped(q) /\ Stage(q) = Stage(pods[i])
    BY <1>3, <2>2 DEF Shaped, Stage, Exists, isAvailable, getPodReady
  <2> HIDE DEF q
  <2>4. pods' = [pods EXCEPT ![i] = q]
    BY <2>1 DEF q, TypeOK
  <2> QED
    BY <1>1, <1>2, <1>4, <1>5, <2>2, <2>3, <2>4, PodChange
<1>10. CASE PodGone(i)
  <2>1. Stage(pods[i]) = 1
    BY <1>3, <1>10, StageMeaning DEF PodGone
  <2>2. NoPod \in Pod /\ Shaped(NoPod) /\ Stage(NoPod) = 2
    BY DEF Pod, NoPod, Shaped, Stage, Exists
  <2>3. pods' = [pods EXCEPT ![i] = NoPod]
    BY <1>10 DEF PodGone
  <2>4. Stage(pods[i]) <= Stage(NoPod) /\ Stage(NoPod) <= 2
    BY <2>1, <2>2
  <2> QED
    BY <1>1, <1>2, <1>4, <1>5, <2>1, <2>2, <2>3, <2>4, PodChange
<1> QED
  BY <1>8, <1>9, <1>10

\* The one change of the template: until then nothing has been touched.
LEMMA EditTemplateKeeps ==
    ASSUME SingleRollout, TypeOK, RolloutInv, EditTemplate
    PROVE  RolloutInv'
<1>1. PICK r \in Revs : Edited("template", [app EXCEPT !.tmpl = r])
  BY DEF EditTemplate
<1>2. /\ pods' = pods /\ podCache' = podCache /\ appCache' = appCache
      /\ app' = [[app EXCEPT !.tmpl = r] EXCEPT !.gen = app.gen + 1]
  BY <1>1 DEF Edited
<1>3. rec'.plan = rec.plan /\ rec'.last = rec.last
  BY <1>1 DEF Edited, Outdated, TypeOK, Reconcile
<1>4. budget'.edits = 0 /\ budget'.podLoss = budget.podLoss /\ app.tmpl = FirstRev
  <2>1. budget.edits > 0 /\ budget' = [budget EXCEPT !["edits"] = @ - 1]
    BY <1>1 DEF Edited, Spend
  <2>2. budget.edits = 1
    BY <2>1 DEF RolloutInv, ScenarioInv
  <2> QED
    BY <2>1, <2>2 DEF TypeOK, Budget, RolloutInv, ScenarioInv
<1>5. appCache.tmpl = FirstRev
  BY <1>4 DEF RolloutInv, ScenarioInv
<1>6. InRollout(app')
  BY <1>2 DEF TypeOK, App, InRollout, RolloutInv, ScenarioInv
<1>7. ScenarioInv'
  BY <1>2, <1>3, <1>4, <1>5, <1>6 DEF RolloutInv, ScenarioInv, InRollout
<1>8. \A j : ~MayTouch(j)
  BY <1>4 DEF MayTouch
<1>9. \A i \in Replicas : Stage(pods[i]) = 0
  BY <1>8 DEF RolloutInv, OrderInv
<1>10. rec.plan.make = {} /\ rec.plan.roll = {}
  BY <1>8 DEF RolloutInv, PlanInv
<1>11. ShapeInv'
  <2>1. ASSUME NEW p, Exists(p), Shaped(p), p.rev # FirstRev
        PROVE  FALSE
    BY <1>4, <2>1 DEF Shaped
  <2>2. ASSUME NEW p \in Pod, Shaped(p), p.rev # FirstRev
        PROVE  ~Exists(p)
    BY <2>1, <2>2
  <2>3. ASSUME NEW i \in Ordinals
        PROVE  /\ Exists(pods[i]) => pods[i].rev = FirstRev /\ isAvailable(pods[i])
               /\ Exists(podCache[i]) => podCache[i].rev = FirstRev /\ isAvailable(podCache[i])
    BY <1>4 DEF RolloutInv, ShapeInv, Shaped
  <2> QED
    BY <1>2, <2>3 DEF ShapeInv, Shaped
<1>12. CacheInv' /\ OrderInv'
  BY <1>2, <1>9 DEF RolloutInv, CacheInv, OrderInv
<1>13. PlanInv'
  BY <1>2, <1>3, <1>10 DEF RolloutInv, PlanInv
<1> QED
  BY <1>7, <1>11, <1>12, <1>13 DEF RolloutInv

LEMMA EnvironmentKeeps ==
    ASSUME SingleRollout, TypeOK, TypeOK', RolloutInv, Environment
    PROVE  RolloutInv'
<1>1. CASE SyncApp
  BY <1>1, SyncAppKeeps
<1>2. ASSUME NEW i \in Ordinals, SyncPod(i)
      PROVE  RolloutInv'
  <2>1. \A j \in Ordinals : podCache'[j] \in {podCache[j], pods[j]}
    BY <1>2 DEF SyncPod, TypeOK
  <2>2. ScenarioInv' /\ PlanShrinks(rec', rec)
    BY <1>2 DEF SyncPod, RolloutInv, ScenarioInv, InRollout, PlanShrinks
  <2> QED
    BY <1>2, <2>1, <2>2, PodCacheCatchesUp DEF SyncPod
<1>3. CASE Resync
  BY <1>3, CallFrame DEF Resync, PlanShrinks
<1>4. CASE Crash
  <2>1. budget'.podLoss = budget.podLoss /\ budget'.edits = budget.edits
    BY <1>4 DEF Crash, Spend, TypeOK, Budget
  <2>2. ScenarioInv'
    BY <1>4, <2>1 DEF Crash, RolloutInv, ScenarioInv, InRollout, Idle
  <2>3. PlanShrinks(rec', rec)
    BY <1>4, PlanShrinksIdle DEF Crash, TypeOK
  <2> QED
    BY <1>4, <2>2, <2>3, PodCacheCatchesUp DEF Crash
<1>5. CASE \E i \in Ordinals : PodRuns(i) \/ PodReadiness(i) \/ PodGone(i)
  BY <1>5, PodRunsKeeps
<1>6. CASE \E i \in Ordinals : PodFails(i) \/ PodDeleted(i)
  BY <1>6 DEF PodFails, PodDeleted, Spend, RolloutInv, ScenarioInv
<1>7. CASE \E i \in Ordinals : GarbageCollect(i)
  BY <1>7 DEF GarbageCollect, RolloutInv, ScenarioInv, InRollout
<1>8. CASE EditTemplate
  BY <1>8, EditTemplateKeeps
<1>9. CASE EditReplicas \/ EditPartition \/ EditPaused \/ DeleteApp
  BY <1>9 DEF EditReplicas, EditPartition, EditPaused, DeleteApp, Edited, SingleRollout
<1> QED
  BY <1>1, <1>2, <1>3, <1>4, <1>5, <1>6, <1>7, <1>8, <1>9 DEF Environment

LEMMA RolloutNext ==
    SingleRollout /\ TypeOK /\ TypeOK' /\ RolloutInv /\ [Next]_vars => RolloutInv'
<1> SUFFICES ASSUME SingleRollout, TypeOK, TypeOK', RolloutInv, [Next]_vars
             PROVE  RolloutInv'
  OBVIOUS
<1>1. CASE Controller
  BY <1>1, ControllerKeeps
<1>2. CASE Environment
  BY <1>2, EnvironmentKeeps
<1>3. CASE UNCHANGED vars
  BY <1>3, CallFrame DEF vars, PlanShrinks
<1> QED
  BY <1>1, <1>2, <1>3 DEF Next

-----------------------------------------------------------------------------
(***************************************************************************)
(* What the invariant says of the Pods on the server                       *)
(***************************************************************************)
LEMMA InvImplies ==
    ASSUME TypeOK, RolloutInv
    PROVE  AtMostOneDown /\ BelowPartitionUntouched /\ UpdatedFromTheTop
<1>1. Slots(app) = Replicas /\ Replicas \subseteq Ordinals
  BY DEF RolloutInv, ScenarioInv, InRollout, Slots, Replicas
<1>2. ASSUME NEW i \in Replicas
      PROVE  /\ pods[i] \in Pod /\ Shaped(pods[i])
             /\ Stage(pods[i]) \in 0 .. 4 /\ Stage(podCache[i]) \in 0 .. 4
             /\ Stage(podCache[i]) <= Stage(pods[i])
  BY <1>1, StageMeaning DEF RolloutInv, ShapeInv, TypeOK, CacheInv
<1>3. ASSUME NEW i \in Replicas, NEW j \in Replicas, i < j, Stage(pods[i]) # 0
      PROVE  Stage(pods[j]) = 4
  <2>1. MayTouch(i)
    BY <1>3 DEF RolloutInv, OrderInv
  <2>2. j > i
    BY <1>1, <1>3, PlanAssumption DEF Ordinals
  <2>3. Stage(podCache[j]) = 4
    BY <2>1, <2>2 DEF MayTouch
  <2> QED
    BY <1>2, <2>3
<1>4. AtMostOneDown
  <2>1. ASSUME NEW i \in Replicas, NEW j \in Replicas, i < j,
               ~Good(pods[i]), ~Good(pods[j])
        PROVE  FALSE
    <3>1. Stage(pods[i]) # 0 /\ Stage(pods[j]) # 4
      BY <1>2, <2>1, StageMeaning
    <3> QED
      BY <1>3, <2>1, <3>1
  <2>2. \A i, j \in Replicas : i < j \/ j < i \/ i = j
    BY <1>1, PlanAssumption DEF Ordinals
  <2>3. \A i, j \in Replicas : ~Good(pods[i]) /\ ~Good(pods[j]) => i = j
    BY <2>1, <2>2
  <2> QED
    BY <1>1, <2>3 DEF AtMostOneDown
<1>5. BelowPartitionUntouched
  <2>1. ASSUME NEW i \in Replicas, i < InitPartition
        PROVE  pods[i].rev = FirstRev /\ Good(pods[i])
    <3>1. Stage(pods[i]) = 0
      BY <2>1 DEF RolloutInv, CacheInv
    <3> QED
      BY <1>2, <3>1, StageMeaning
  <2>2. app.partition = InitPartition
    BY DEF RolloutInv, ScenarioInv, InRollout
  <2> QED
    BY <1>1, <2>1, <2>2 DEF BelowPartitionUntouched
<1>6. UpdatedFromTheTop
  <2>1. SUFFICES ASSUME NEW i \in Replicas, NEW j \in Replicas, i < j,
                        app.tmpl # FirstRev, pods[i].rev = app.tmpl, Exists(pods[i])
                 PROVE  pods[j].rev = app.tmpl
    BY <1>1 DEF UpdatedFromTheTop
  <2>2. Stage(pods[i]) # 0
    BY <1>2, <2>1, StageMeaning
  <2>3. Stage(pods[j]) = 4
    BY <1>3, <2>1, <2>2
  <2> QED
    BY <1>2, <2>3, StageMeaning
<1> QED
  BY <1>4, <1>5, <1>6

\* The inductive invariant of a rollout: cached and planned state never get so
\* far from the server that a second Pod is touched before the first is back.
THEOREM RolloutInvariant == SingleRollout => (DeployedSpec => []RolloutInv)
<1> SUFFICES ASSUME SingleRollout
             PROVE  DeployedSpec => []RolloutInv
  OBVIOUS
<1>1. DeployedInit => TypeOK /\ RolloutInv
  BY DeployedInitType, RolloutInit
<1>2. TypeOK /\ RolloutInv /\ [Next]_vars => (TypeOK /\ RolloutInv)'
  BY NextType, RolloutNext
<1> QED
  BY <1>1, <1>2, PTL DEF DeployedSpec

\* While applyUpdate rolls out one new template in order, with any number of
\* replicas, any partition, arbitrarily late caches, failed calls and restarts
\* of the controller, at most one replica is down.
THEOREM RolloutSafe == SingleRollout => (DeployedSpec => []AtMostOneDown)
<1> SUFFICES ASSUME SingleRollout
             PROVE  DeployedSpec => []AtMostOneDown
  OBVIOUS
<1>1. TypeOK /\ RolloutInv => AtMostOneDown
  BY InvImplies
<1> QED
  BY <1>1, RolloutInvariant, TypeCorrect, PTL

\* No replica below the partition is touched by that rollout.
THEOREM BelowPartitionSafe == SingleRollout => (DeployedSpec => []BelowPartitionUntouched)
<1> SUFFICES ASSUME SingleRollout
             PROVE  DeployedSpec => []BelowPartitionUntouched
  OBVIOUS
<1>1. TypeOK /\ RolloutInv => BelowPartitionUntouched
  BY InvImplies
<1> QED
  BY <1>1, RolloutInvariant, TypeCorrect, PTL

\* Once the rollout has updated a replica, every existing one above it is
\* updated too: the highest ordinals come first.
THEOREM TopDownSafe == SingleRollout => (DeployedSpec => []UpdatedFromTheTop)
<1> SUFFICES ASSUME SingleRollout
             PROVE  DeployedSpec => []UpdatedFromTheTop
  OBVIOUS
<1>1. TypeOK /\ RolloutInv => UpdatedFromTheTop
  BY InvImplies
<1> QED
  BY <1>1, RolloutInvariant, TypeCorrect, PTL

-----------------------------------------------------------------------------
(***************************************************************************)
(* The App controller implements RollingUpdate in the scenario             *)
(* SingleRollout.  A step changes at most one Pod on the server and never  *)
(* takes it back; RolloutInv, after the step, gives the guard of the       *)
(* abstract action.                                                        *)
(***************************************************************************)
Abstract == [i \in Replicas |-> StageOf(pods[i])]

LEMMA ReplicasAre == Replicas = RU!Replica
  BY PlanAssumption, ControllerAssumption DEF Replicas, RU!Replica, Ordinals

LEMMA RefinementInit ==
    ASSUME DeployedInit
    PROVE  RU!Init
<1>1. ASSUME NEW i \in Replicas
      PROVE  StageOf(pods[i]) = "old"
  BY DEF DeployedInit, RunningPod, Exists, Stage, StageOf, Replicas
<1> QED
  BY <1>1, ReplicasAre DEF RU!Init

\* The Pods move forward, one at a time.
Forward(i) ==
    /\ i \in Ordinals
    /\ \A j \in Ordinals : j # i => pods'[j] = pods[j]
    /\ Stage(pods[i]) <= Stage(pods'[i])
    /\ podCache' = podCache

LEMMA StepRange ==
    ASSUME TypeOK, RolloutInv, NEW i \in Ordinals
    PROVE  /\ Stage(pods[i]) \in 0 .. 4
           /\ Stage(podCache[i]) \in 0 .. 4
  BY StageMeaning DEF RolloutInv, ShapeInv, TypeOK

LEMMA StepRangeAfter ==
    ASSUME TypeOK', RolloutInv', NEW i \in Ordinals
    PROVE  Stage(pods'[i]) \in 0 .. 4
<1>1. pods'[i] \in Pod
  BY DEF TypeOK
<1>2. CASE Exists(pods'[i])
  BY <1>2 DEF Stage
<1>3. CASE ~Exists(pods'[i])
  BY <1>3 DEF Stage
<1> QED
  BY <1>2, <1>3

\* Such a step is a step of the abstract specification or a stutter.
LEMMA ForwardSimulates ==
    ASSUME TypeOK, TypeOK', RolloutInv, RolloutInv', NEW i, Forward(i)
    PROVE  [RU!Next]_Abstract
<1>1. i \in Ordinals /\ Replicas \subseteq Ordinals
  BY DEF Forward, Replicas
<1>2. /\ Stage(pods[i]) \in 0 .. 4 /\ Stage(pods'[i]) \in 0 .. 4
      /\ Stage(pods[i]) <= Stage(pods'[i])
  BY <1>1, StepRange, StepRangeAfter DEF Forward
<1>3. \A j \in Replicas : j # i => StageOf(pods'[j]) = StageOf(pods[j])
  BY <1>1 DEF Forward
<1>4. CASE i \notin Replicas \/ StageOf(pods'[i]) = StageOf(pods[i])
  <2>1. \A j \in Replicas : StageOf(pods'[j]) = StageOf(pods[j])
    BY <1>3, <1>4
  <2>2. Abstract' = Abstract
    BY <2>1 DEF Abstract
  <2> QED
    BY <2>2
<1>5. CASE i \in Replicas /\ StageOf(pods'[i]) # StageOf(pods[i])
  <2>1. Abstract' = [Abstract EXCEPT ![i] = StageOf(pods'[i])]
    BY <1>3, <1>5 DEF Abstract
  <2>2. CASE Stage(pods[i]) = 0
    <3>1. Stage(pods'[i]) # 0
      BY <1>5, <2>2 DEF StageOf
    <3>2. MayTouch(i)'
      BY <1>5, <3>1 DEF RolloutInv, OrderInv, Replicas
    <3>3. Stage(pods'[i]) <= 2
      <4>1. Stage(podCache[i]) <= Stage(pods[i]) /\ Stage(podCache[i]) \in 0 .. 4
        BY <1>1, <1>5, StepRange DEF RolloutInv, CacheInv
      <4>2. podCache' = podCache
        BY DEF Forward
      <4>3. Stage(podCache'[i]) <= 1
        BY <2>2, <4>1, <4>2
      <4> QED
        BY <1>5, <4>3 DEF RolloutInv, CacheInv, Replicas
    <3>4. ASSUME NEW j \in Replicas, j > i
          PROVE  StageOf(pods[j]) = "new"
      <4>1. j \in Ordinals /\ j # i
        BY <1>1, <3>4, PlanAssumption DEF Ordinals
      <4>2. Stage(podCache'[j]) = 4
        BY <3>2, <3>4 DEF MayTouch, Replicas
      <4>3. Stage(podCache'[j]) <= Stage(pods'[j]) /\ Stage(pods'[j]) \in 0 .. 4
        BY <4>1, StepRangeAfter DEF RolloutInv, CacheInv
      <4>4. Stage(pods'[j]) = 4
        BY <4>2, <4>3
      <4>5. Stage(pods[j]) = 4
        BY <4>1, <4>4 DEF Forward
      <4> QED
        BY <4>5 DEF StageOf
    <3>5. StageOf(pods[i]) = "old" /\ StageOf(pods'[i]) = "down"
      BY <1>2, <2>2, <3>1, <3>3 DEF StageOf
    <3>6. i >= InitPartition
      BY <3>2 DEF MayTouch
    <3>7. RU!TakeDown(i)
      BY <1>5, <2>1, <3>4, <3>5, <3>6, ReplicasAre DEF RU!TakeDown, Abstract
    <3> QED
      BY <1>5, <3>7, ReplicasAre DEF RU!Next
  <2>3. CASE Stage(pods[i]) # 0
    <3>1. StageOf(pods[i]) = "down" /\ StageOf(pods'[i]) = "new"
      BY <1>2, <1>5, <2>3 DEF StageOf
    <3>2. RU!BringUp(i)
      BY <1>5, <2>1, <3>1 DEF RU!BringUp, Abstract
    <3> QED
      BY <1>5, <3>2, ReplicasAre DEF RU!Next
  <2> QED
    BY <2>2, <2>3
<1> QED
  BY <1>4, <1>5

LEMMA PodsKeptSimulates ==
    ASSUME pods' = pods
    PROVE  [RU!Next]_Abstract
  BY DEF Abstract

-----------------------------------------------------------------------------
(***************************************************************************)
(* The steps                                                               *)
(***************************************************************************)
\* Marking a Pod for deletion does not take it back.
LEMMA DeletionIsForward ==
    ASSUME TypeOK, NEW i \in Ordinals, Exists(pods[i])
    PROVE  Stage(pods[i]) <= Stage([pods[i] EXCEPT !.del = TRUE])
<1> DEFINE q == [pods[i] EXCEPT !.del = TRUE]
<1>1. pods[i] \in [rev : Revs, phase : {"Pending", "Running", "Failed"},
                   cond : {"none", "False", "True"}, del : BOOLEAN]
  BY ExistingPod DEF TypeOK
<1>2. q.rev = pods[i].rev /\ q.phase = pods[i].phase /\ q.del = TRUE
  BY <1>1
<1> HIDE DEF q
<1>3. Stage(pods[i]) <= Stage(q)
  <2>1. Exists(q)
    BY <1>2 DEF Exists
  <2>2. CASE pods[i].rev = FirstRev
    <3>1. Stage(pods[i]) \in {0, 1} /\ Stage(q) = 1
      BY <1>2, <2>1, <2>2 DEF Stage
    <3> QED
      BY <3>1
  <2>3. CASE pods[i].rev # FirstRev
    <3>1. Stage(pods[i]) = Stage(q) /\ Stage(q) \in {3, 4}
      BY <1>2, <2>1, <2>3 DEF Stage
    <3> QED
      BY <3>1
  <2> QED
    BY <2>2, <2>3
<1> QED
  BY <1>3 DEF q

LEMMA ControllerSimulates ==
    ASSUME SingleRollout, TypeOK, TypeOK', RolloutInv, RolloutInv', Controller
    PROVE  [RU!Next]_Abstract
<1>1. /\ appCache.exists /\ appCache.fin /\ appCache.complete /\ ~appCache.deleting
      /\ ~rec.last /\ rec.plan.restart = {} /\ rec.plan.cull = {}
  BY DEF RolloutInv, ScenarioInv, InRollout, PlanInv
<1>2. pods \in [Ordinals -> Pod]
  BY DEF TypeOK
<1>3. CASE pods' = pods
  BY <1>3, PodsKeptSimulates
<1>4. ASSUME NEW i \in Ordinals, CreateStatefulPod(i), pods' # pods
      PROVE  [RU!Next]_Abstract
  <2> DEFINE q == [NoPod EXCEPT !.rev = rec.plan.rev[i], !.phase = "Pending"]
  <2>1. ~Exists(pods[i]) /\ pods' = [pods EXCEPT ![i] = q] /\ podCache' = podCache
    BY <1>4 DEF CreateStatefulPod, CallFails
  <2>2. i \in rec.plan.make
    BY <1>4 DEF CreateStatefulPod, Lowest
  <2>3. rec.plan.rev[i] # FirstRev
    BY <2>2 DEF RolloutInv, PlanInv, MayTouch
  <2>4. Stage(q) = 3 /\ Stage(pods[i]) = 2
    BY <2>1, <2>3 DEF Stage, Exists, NoPod
  <2> HIDE DEF q
  <2>5. Forward(i)
    BY <1>2, <2>1, <2>4 DEF Forward
  <2> QED
    BY <2>5, ForwardSimulates
<1>5. ASSUME NEW i \in Ordinals, RollPod(i), pods' # pods
      PROVE  [RU!Next]_Abstract
  <2>1. /\ Exists(pods[i]) /\ podCache' = podCache
        /\ pods' = [pods EXCEPT ![i].del = TRUE]
    BY <1>5 DEF RollPod, ServerDelete, CallFails
  <2>2. pods'[i] = [pods[i] EXCEPT !.del = TRUE]
    BY <1>2, <2>1
  <2>3. Stage(pods[i]) <= Stage(pods'[i])
    BY <2>1, <2>2, DeletionIsForward
  <2>4. Forward(i)
    BY <1>2, <2>1, <2>3 DEF Forward
  <2> QED
    BY <2>4, ForwardSimulates
<1>6. CASE \/ ReconcileGone \/ AddFinalizer \/ ScaleToZero \/ UpdateApp
           \/ RevisionFails \/ ApplyDefaults \/ SkipStatus \/ updateAppStatus
           \/ RemoveFinalizer \/ Return
  BY <1>3, <1>6 DEF ReconcileGone, AddFinalizer, ScaleToZero, UpdateApp,
     RevisionFails, ApplyDefaults, SkipStatus, updateAppStatus, RemoveFinalizer, Return
<1>7. ASSUME NEW i \in Ordinals, createPVC(i)
      PROVE  pods' = pods
  BY <1>7 DEF createPVC, CallFails
<1>8. CASE \E i \in Ordinals : RestartPod(i) \/ CullPod(i)
  BY <1>1, <1>8 DEF RestartPod, CullPod, Highest
<1> QED
  BY <1>3, <1>4, <1>5, <1>6, <1>7, <1>8 DEF Controller

LEMMA EnvironmentSimulates ==
    ASSUME SingleRollout, TypeOK, TypeOK', RolloutInv, RolloutInv', Environment
    PROVE  [RU!Next]_Abstract
<1>1. pods \in [Ordinals -> Pod]
  BY DEF TypeOK
<1>2. ASSUME NEW i \in Ordinals, PodRuns(i) \/ PodReadiness(i)
      PROVE  [RU!Next]_Abstract
  <2>1. Exists(pods[i]) /\ podCache' = podCache
    BY <1>2 DEF PodRuns, PodReadiness, PodsOnly, Exists
  <2>2. pods[i] \in [rev : Revs, phase : {"Pending", "Running", "Failed"},
                     cond : {"none", "False", "True"}, del : BOOLEAN]
    BY <1>1, <2>1, ExistingPod
  <2>3. PICK c \in ReadyValues :
            \/ pods' = [pods EXCEPT ![i].phase = "Running", ![i].cond = c]
            \/ /\ pods[i].phase = "Running"
               /\ pods' = [pods EXCEPT ![i].cond = c]
    BY <1>2 DEF PodRuns, PodReadiness
  <2>4. /\ \A j \in Ordinals : j # i => pods'[j] = pods[j]
        /\ pods'[i].rev = pods[i].rev /\ pods'[i].del = pods[i].del
        /\ pods'[i].phase = "Running"
    BY <1>1, <2>2, <2>3
  <2>5. Stage(pods[i]) <= Stage(pods'[i])
    <3>1. Exists(pods'[i])
      BY <2>4 DEF Exists
    <3>2. CASE pods[i].rev = FirstRev
      <4>1. Stage(pods[i]) = Stage(pods'[i]) /\ Stage(pods[i]) \in {0, 1}
        BY <2>1, <2>4, <3>1, <3>2 DEF Stage
      <4> QED
        BY <4>1
    <3>3. CASE pods[i].rev # FirstRev
      <4>1. Stage(pods[i]) \in {3, 4} /\ Stage(pods'[i]) = 4
        BY <2>1, <2>4, <3>1, <3>3 DEF Stage
      <4> QED
        BY <4>1
    <3> QED
      BY <3>2, <3>3
  <2>6. Forward(i)
    BY <2>1, <2>4, <2>5 DEF Forward
  <2> QED
    BY <2>6, ForwardSimulates
<1>3. ASSUME NEW i \in Ordinals, PodGone(i)
      PROVE  [RU!Next]_Abstract
  <2>1. pods[i].del /\ podCache' = podCache /\ pods' = [pods EXCEPT ![i] = NoPod]
    BY <1>3 DEF PodGone, PodsOnly
  <2>2. Stage(pods[i]) = 1
    BY <1>1, <2>1, StageMeaning DEF RolloutInv, ShapeInv
  <2>3. Stage(NoPod) = 2
    BY DEF Stage, Exists, NoPod
  <2>4. Forward(i)
    BY <1>1, <2>1, <2>2, <2>3 DEF Forward
  <2> QED
    BY <2>4, ForwardSimulates
<1>4. CASE SyncApp \/ Resync \/ Crash \/ EditTemplate \/ \E i \in Ordinals : SyncPod(i)
  <2>1. pods' = pods
    BY <1>4 DEF SyncApp, SyncPod, Resync, Crash, EditTemplate, Edited
  <2> QED
    BY <2>1, PodsKeptSimulates
<1>5. CASE \E i \in Ordinals : PodFails(i) \/ PodDeleted(i)
  BY <1>5 DEF PodFails, PodDeleted, Spend, RolloutInv, ScenarioInv
<1>6. CASE \E i \in Ordinals : GarbageCollect(i)
  BY <1>6 DEF GarbageCollect, RolloutInv, ScenarioInv, InRollout
<1>7. CASE EditReplicas \/ EditPartition \/ EditPaused \/ DeleteApp
  BY <1>7 DEF EditReplicas, EditPartition, EditPaused, DeleteApp, Edited, SingleRollout
<1> QED
  BY <1>2, <1>3, <1>4, <1>5, <1>6, <1>7 DEF Environment

\* The controller, its late caches, failed calls and restarts implement the
\* abstract rolling update: seen through the Pods on the server, applyUpdate
\* takes the replicas down one at a time from the highest ordinal to the
\* partition, each after those above are back, for any number of replicas.
THEOREM RolloutRefines == SingleRollout => (DeployedSpec => ImplementsRollingUpdate)
<1> SUFFICES ASSUME SingleRollout
             PROVE  DeployedSpec => ImplementsRollingUpdate
  OBVIOUS
<1>1. DeployedInit => RU!Init
  BY RefinementInit
<1>2. TypeOK /\ TypeOK' /\ RolloutInv /\ RolloutInv' /\ [Next]_vars => [RU!Next]_Abstract
  <2> SUFFICES ASSUME TypeOK, TypeOK', RolloutInv, RolloutInv', [Next]_vars
               PROVE  [RU!Next]_Abstract
    OBVIOUS
  <2>1. CASE Controller
    BY <2>1, ControllerSimulates
  <2>2. CASE Environment
    BY <2>2, EnvironmentSimulates
  <2>3. CASE UNCHANGED vars
    BY <2>3, PodsKeptSimulates DEF vars
  <2> QED
    BY <2>1, <2>2, <2>3 DEF Next
<1>3. DeployedSpec => []TypeOK
  BY TypeCorrect
<1>4. DeployedSpec => []RolloutInv
  BY RolloutInvariant
<1>5. RU!Spec <=> RU!Init /\ [][RU!Next]_Abstract
  BY DEF RU!Spec, Abstract
<1> QED
  BY <1>1, <1>2, <1>3, <1>4, <1>5, PTL DEF DeployedSpec, ImplementsRollingUpdate
=============================================================================
