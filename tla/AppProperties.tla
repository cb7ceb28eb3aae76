--------------------------- MODULE AppProperties ---------------------------
(***************************************************************************)
(* What the App controller promises, the invariant its rollout keeps, and  *)
(* the abstract rollout it implements (see README.md for the configuration *)
(* that checks each, and under which bounds).                              *)
(***************************************************************************)
EXTENDS AppController

(***************************************************************************)
(* Safety                                                                  *)
(***************************************************************************)
\* While a template change is rolled out, at most one replica is down: not
\* running, without a Ready condition, or terminating.  The rolling update
\* deletes one Pod and goes on only after its replacement is available, but
\* it decides on caches that lag, across restarts and failed calls.
AtMostOneDown ==
    \A i, j \in Slots(app) : ~Good(pods[i]) /\ ~Good(pods[j]) => i = j

\* Pods below the partition keep the first revision and stay up.
BelowPartitionUntouched ==
    \A i \in Slots(app) : i < app.partition => pods[i].rev = FirstRev /\ Good(pods[i])

\* The rollout proceeds from the highest ordinal down: once a Pod is at the
\* App's template, so is every existing Pod above it (AppStatus says that the
\* updated Pods are the last ones).
UpdatedFromTheTop ==
    \A i, j \in Slots(app) :
        /\ i < j
        /\ Exists(pods[i]) /\ Exists(pods[j])
        /\ app.tmpl # FirstRev
        /\ pods[i].rev = app.tmpl
        => pods[j].rev = app.tmpl

RolloutReportedDone(a) ==
    /\ a.status.obs = a.gen
    /\ a.status.cur = a.status.upd
    /\ a.status.replicas = a.replicas
    /\ a.status.updated = a.replicas
    /\ a.status.ready = a.replicas

\* A status that reports the rollout of the current generation as complete is
\* true of the server: at or above the partition no Pod of another revision is
\* left, and none comes back.  (Below it a Pod lost meanwhile comes back at the
\* current revision of the copy that the reconcile read, see README.md.  While
\* the App is being deleted the status only follows the caches down to zero.)
DoneMeansUpdated ==
    app.exists /\ ~app.deleting /\ RolloutReportedDone(app)
        => \A i \in Ordinals : i >= app.partition /\ Exists(pods[i])
                                 => pods[i].rev = app.tmpl

(***************************************************************************)
(* What a step may never do                                                *)
(***************************************************************************)
\* The generation a status claims to have observed never goes back, although
\* a conflict makes updateAppStatus put an older status on a newer App.
ObservedNeverRegresses == [][app'.status.obs >= app.status.obs]_app

(***************************************************************************)
(* Liveness                                                                *)
(***************************************************************************)
Settled ==
    IF app.exists
    THEN /\ ~app.deleting
         /\ \A i \in Ordinals :
              IF i < app.replicas
              THEN /\ Good(pods[i])
                   /\ ~app.paused /\ i >= app.partition => pods[i].rev = app.tmpl
              ELSE ~Exists(pods[i])
         /\ ~app.paused /\ app.partition = 0 => RolloutReportedDone(app)
    ELSE \A i \in Ordinals : ~Exists(pods[i])

\* When edits and failures stop, the cluster reaches the desired state, with
\* partition 0 the status says so, and both stay that way.
Converges == <>[]Settled


\* An App that is deleted goes away.
DeletionCompletes == app.deleting ~> ~app.exists

-----------------------------------------------------------------------------
(***************************************************************************)
(* The inductive invariant of a rollout.  It is what makes AtMostOneDown,  *)
(* BelowPartitionUntouched and UpdatedFromTheTop true in the scenario      *)
(* SingleRollout: one change of the template, in order, with nobody else   *)
(* taking Pods away.  Calls may still fail and the controller restart.     *)
(***************************************************************************)
SingleRollout ==
    /\ Policy = "OrderedReady"
    /\ StrategyType = "RollingUpdate"
    /\ ~InitUnordered
    /\ UserOps \subseteq {"template"}
    /\ MaxEdits \in {0, 1}
    /\ MaxPodLoss = 0

\* How far a Pod has got: 0 old and up, 1 old and terminating, 2 gone,
\* 3 recreated, 4 new and up.
Stage(p) ==
    IF ~Exists(p) THEN 2
    ELSE IF p.rev = FirstRev THEN (IF p.del THEN 1 ELSE 0)
    ELSE (IF p.phase = "Pending" THEN 3 ELSE 4)

InRollout(a) ==
    /\ a.exists /\ a.fin /\ a.complete /\ ~a.deleting /\ ~a.unordered
    /\ a.replicas = InitReplicas
    /\ a.partition = InitPartition

\* Nothing but the template changes, and that once.
ScenarioInv ==
    /\ InRollout(app)
    /\ InRollout(appCache)
    /\ appCache.tmpl \in {FirstRev, app.tmpl}
    /\ budget.podLoss = 0
    /\ budget.edits \in {0, 1}
    /\ budget.edits = 1 => app.tmpl = FirstRev
    /\ ~rec.last

\* Every Pod there is, on the server or in the cache, is old and running or
\* new and not terminating.
Shaped(p) ==
    Exists(p) =>
        IF p.rev = FirstRev
        THEN isAvailable(p)
        ELSE /\ p.rev = app.tmpl
             /\ ~p.del
             /\ p.phase = "Pending" \/ isAvailable(p)

ShapeInv == \A i \in Ordinals : Shaped(pods[i]) /\ Shaped(podCache[i])

Replicas == {i \in Ordinals : i < InitReplicas}

\* The cache is behind the server but never so far behind that it still shows
\* an old Pod whose successor exists.
CacheInv ==
    /\ \A i \in Ordinals \ Replicas : ~Exists(pods[i]) /\ ~Exists(podCache[i])
    /\ \A i \in Replicas :
          /\ Stage(podCache[i]) <= Stage(pods[i])
          /\ Stage(podCache[i]) <= 1 => Stage(pods[i]) <= 2
          /\ i < InitPartition => Stage(pods[i]) = 0

\* i may be touched: the new template has been seen, and every replica above i
\* has been seen new and up.
MayTouch(i) ==
    /\ i \in Replicas
    /\ i >= InitPartition
    /\ appCache.tmpl = app.tmpl
    /\ app.tmpl # FirstRev
    /\ \A j \in Replicas : j > i => Stage(podCache[j]) = 4

OrderInv == \A i \in Replicas : Stage(pods[i]) # 0 => MayTouch(i)

\* The calls still to be made fit what has happened since they were planned.
PlanInv ==
    /\ rec.plan.restart = {}
    /\ rec.plan.cull = {}
    /\ rec.plan.make # {} => rec.plan.roll = {}
    /\ \A i \in rec.plan.make : /\ MayTouch(i)
                                /\ rec.plan.rev[i] = app.tmpl
                                /\ Stage(podCache[i]) >= 2
    /\ \A i \in rec.plan.roll : MayTouch(i) /\ Stage(pods[i]) <= 2

\* What a rollout keeps true at every step.
RolloutInv == ScenarioInv /\ ShapeInv /\ CacheInv /\ OrderInv /\ PlanInv

-----------------------------------------------------------------------------
(***************************************************************************)
(* The controller as an implementation of RollingUpdate.                   *)
(***************************************************************************)
StageOf(p) ==
    IF Stage(p) = 0 THEN "old" ELSE IF Stage(p) = 4 THEN "new" ELSE "down"

RU == INSTANCE RollingUpdate
          WITH N <- InitReplicas, Partition <- InitPartition,
               stage <- [i \in Replicas |-> StageOf(pods[i])]

\* Seen through the Pods on the server, in the scenario SingleRollout,
\* applyUpdate's rolling update takes replicas down one by one from the top,
\* each only after those above are back: whatever the caches show, the calls
\* that fail and the restarts.
ImplementsRollingUpdate == RU!Spec
=============================================================================
