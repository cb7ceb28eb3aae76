--------------------------- MODULE AppController ---------------------------
(***************************************************************************)
(* The App controller: AppReconciler.Reconcile and the StateController it  *)
(* drives, against an API server, two informer caches (Apps and Pods,      *)
(* which lag independently), a kubelet and a user.  One App is modelled;   *)
(* reconciles of one App never overlap.                                    *)
(*                                                                         *)
(* A reconcile reads the caches once and then issues API calls one at a    *)
(* time; every call is a step of its own, so anything else may happen      *)
(* between two of them.  The lister returns a pointer into the informer    *)
(* cache, and Reconcile writes through it: those writes are modelled.      *)
(*                                                                         *)
(* Resource versions are abstracted to "is it the server's latest": an     *)
(* Update succeeds only then and is a conflict otherwise.                  *)
(***************************************************************************)
EXTENDS PodPlan

CONSTANTS
    FirstRev,        \* the template the App starts with
    InitReplicas, InitPartition, InitPaused, InitUnordered,
    InitComplete,    \* were all rolling update fields given by the user?
    ReadyValues,     \* the Ready statuses a kubelet reports
    UserOps,         \* which edits the user makes
    MaxEdits,        \* bound: edits of the App's spec, its deletion included
    MaxApiFail,      \* bound: API calls that fail for a passing reason
    MaxPodLoss,      \* bound: Pods that fail or are deleted by someone else
    MaxCrash         \* bound: restarts of the controller

ASSUME ControllerAssumption ==
    /\ FirstRev \in Revs
    /\ InitReplicas \in 0 .. MaxReplicas
    /\ InitPartition \in 0 .. MaxReplicas
    /\ {InitPaused, InitUnordered, InitComplete} \subseteq BOOLEAN
    /\ ReadyValues \subseteq {"True", "False"}
    /\ UserOps \subseteq {"template", "replicas", "partition", "paused", "delete"}
    /\ {MaxEdits, MaxApiFail, MaxPodLoss, MaxCrash} \subseteq Nat

VARIABLES
    app,         \* the App on the API server
    appCache,    \* the App in the informer cache, with Reconcile's own writes
    cacheFresh,  \* appCache carries the server's resource version
    newest,      \* the revision with the highest number in the history
    pods,        \* the Pods on the API server
    podCache,    \* the Pods in the informer cache
    rec,         \* the reconcile in progress
    dirty,       \* the App's key is in the workqueue
    budget       \* what is left of the bounds

vars == <<app, appCache, cacheFresh, newest, pods, podCache, rec, dirty, budget>>

App == [exists : BOOLEAN, fin : BOOLEAN, deleting : BOOLEAN, gen : Nat,
        tmpl : Revs, replicas : 0 .. MaxReplicas, partition : 0 .. MaxReplicas,
        paused : BOOLEAN, unordered : BOOLEAN, complete : BOOLEAN,
        status : Status]

\* A reconcile: where it is, what is left of its plan, the status it will
\* report, the status it read, whether an error was met, whether the copy
\* used for the status write (fresh) and the object read from the lister
\* (base) carry the server's version, whether that object is still the one
\* in the cache (same), and whether the deferred function is to drop the
\* finalizer (last).
Reconcile == [pc : {"idle", "run", "end"}, plan : Plan,
              status : Status, seen : Status, err : BOOLEAN,
              fresh : BOOLEAN, base : BOOLEAN, same : BOOLEAN, last : BOOLEAN]

Budget == [edits : Nat, apiFail : Nat, podLoss : Nat, crash : Nat]

TypeOK ==
    /\ app \in App
    /\ appCache \in App
    /\ cacheFresh \in BOOLEAN
    /\ newest \in Revs \cup {NoRev}
    /\ pods \in [Ordinals -> Pod]
    /\ podCache \in [Ordinals -> Pod]
    /\ rec \in Reconcile
    /\ \A i \in rec.plan.make : rec.plan.rev[i] \in Revs
    /\ dirty \in BOOLEAN
    /\ budget \in Budget

Idle == [pc |-> "idle", plan |-> NoPlan, status |-> NoStatus, seen |-> NoStatus,
         err |-> FALSE, fresh |-> FALSE, base |-> FALSE, same |-> FALSE,
         last |-> FALSE]

FullBudget == [edits |-> MaxEdits, apiFail |-> MaxApiFail,
               podLoss |-> MaxPodLoss, crash |-> MaxCrash]

Spend(b) == budget[b] > 0 /\ budget' = [budget EXCEPT ![b] = @ - 1]

\* Any write of the App moves the server past every copy taken before it.
Outdated(r) == [r EXCEPT !.fresh = FALSE, !.base = FALSE]

NewApp == [exists |-> TRUE, fin |-> FALSE, deleting |-> FALSE, gen |-> 1,
           tmpl |-> FirstRev, replicas |-> InitReplicas,
           partition |-> InitPartition, paused |-> InitPaused,
           unordered |-> InitUnordered, complete |-> InitComplete,
           status |-> NoStatus]

\* The user has just created the App.
Init ==
    /\ app = NewApp
    /\ appCache = NewApp
    /\ cacheFresh = TRUE
    /\ newest = NoRev
    /\ pods = [i \in Ordinals |-> NoPod]
    /\ podCache = pods
    /\ rec = Idle
    /\ dirty = TRUE
    /\ budget = FullBudget

RunningPod(r, c) == [rev |-> r, phase |-> "Running", cond |-> c, del |-> FALSE]

\* The App has been rolled out: every replica runs and the status says so.
DeployedInit ==
    /\ pods = [i \in Ordinals |-> IF i < InitReplicas
                                  THEN RunningPod(FirstRev, "True") ELSE NoPod]
    /\ app = [NewApp EXCEPT
                !.fin = TRUE,
                !.complete = TRUE,
                !.status = updateStatus(NewApp, FirstRev, FirstRev, pods, 2)]
    /\ appCache = app
    /\ cacheFresh = TRUE
    /\ newest = FirstRev
    /\ podCache = pods
    /\ rec = Idle
    /\ dirty = FALSE
    /\ budget = FullBudget

-----------------------------------------------------------------------------
(***************************************************************************)
(* Reconcile, up to the call of UpdateApp                                  *)
(***************************************************************************)
Popped == rec.pc = "idle" /\ dirty

\* The App is not in the cache: nothing to do.
ReconcileGone ==
    /\ Popped
    /\ ~appCache.exists
    /\ dirty' = FALSE
    /\ UNCHANGED <<app, appCache, cacheFresh, newest, pods, podCache, rec, budget>>

\* Update(ctx, app) on the object in the cache: obj is its content.  After a
\* conflict the retry sends an empty App (the failed call returned one), so
\* one conflict fails the call.
UpdateFromCache(obj) ==
    /\ appCache' = obj
    /\ \/ /\ cacheFresh
          /\ app' = [obj EXCEPT !.gen = IF obj.replicas = app.replicas
                                        THEN app.gen ELSE app.gen + 1]
          /\ cacheFresh' = FALSE
          /\ dirty' = FALSE
          /\ UNCHANGED budget
       \/ /\ ~cacheFresh
          /\ dirty' = TRUE
          /\ UNCHANGED <<app, cacheFresh, budget>>
       \/ /\ cacheFresh
          /\ Spend("apiFail")
          /\ dirty' = TRUE
          /\ UNCHANGED <<app, cacheFresh>>

NeedsFinalizer == appCache.exists /\ ~appCache.deleting /\ ~appCache.fin

AddFinalizer ==
    /\ Popped
    /\ NeedsFinalizer
    /\ UpdateFromCache([appCache EXCEPT !.fin = TRUE])
    /\ UNCHANGED <<newest, pods, podCache, rec>>

\* Mutated form: the test of spec.replicas is inverted.
NeedsScaleToZeroInverted ==
    appCache.exists /\ appCache.deleting /\ appCache.replicas = 0

NeedsScaleToZero == appCache.exists /\ appCache.deleting /\ appCache.replicas # 0

ScaleToZero ==
    /\ Popped
    /\ NeedsScaleToZero
    /\ UpdateFromCache([appCache EXCEPT !.replicas = 0])
    /\ UNCHANGED <<newest, pods, podCache, rec>>

(***************************************************************************)
(* StateController.UpdateApp                                               *)
(***************************************************************************)
EntersUpdateApp ==
    /\ Popped
    /\ appCache.exists
    /\ ~NeedsFinalizer
    /\ ~NeedsScaleToZero

\* Mutated form: no fallback to the update revision for a new App.
currentRevisionNoFallback(a) == a.status.cur

currentRevision(a) == IF a.status.cur = NoRev THEN a.tmpl ELSE a.status.cur

\* The deferred function of Reconcile: is this reconcile to drop the finalizer?
LastReconcile(a, cache) ==
    /\ a.deleting
    /\ a.fin
    /\ \A i \in Ordinals : ~Exists(cache[i])

Begin(plan, passes, stillFresh) ==
    [pc |-> "run",
     plan |-> plan,
     status |-> updateStatus(appCache, currentRevision(appCache), appCache.tmpl,
                             podCache, passes),
     seen |-> appCache.status,
     err |-> FALSE,
     fresh |-> stillFresh,
     base |-> stillFresh,
     same |-> TRUE,
     last |-> LastReconcile(appCache, podCache)]

NeedsDefaults == StrategyType = "RollingUpdate" /\ ~appCache.complete

UpdateApp ==
    /\ EntersUpdateApp
    /\ ~NeedsDefaults
    /\ newest' = appCache.tmpl
    /\ rec' = Begin(applyUpdate(appCache, currentRevision(appCache),
                                appCache.tmpl, podCache), 2, cacheFresh)
    /\ dirty' = FALSE
    /\ UNCHANGED <<app, appCache, cacheFresh, pods, podCache, budget>>

\* Writing the ControllerRevision of a new (or older) template fails.
RevisionFails ==
    /\ EntersUpdateApp
    /\ newest # appCache.tmpl
    /\ Spend("apiFail")
    /\ dirty' = TRUE
    /\ UNCHANGED <<app, appCache, cacheFresh, newest, pods, podCache, rec>>

\* setDefaultRollingUpdateStrategy keeps the fields the user gave except
\* paused and unorderedUpdate.
setDefaultRollingUpdateStrategy(a) ==
    [a EXCEPT !.complete = TRUE, !.paused = FALSE, !.unordered = FALSE]

\* applyUpdate writes the defaults and returns; an error is only logged.
ApplyDefaults ==
    /\ EntersUpdateApp
    /\ NeedsDefaults
    /\ newest' = appCache.tmpl
    /\ dirty' = FALSE
    /\ \/ /\ cacheFresh
          /\ app' = [setDefaultRollingUpdateStrategy(appCache) EXCEPT !.gen = @ + 1]
          /\ cacheFresh' = FALSE
          /\ rec' = Begin(NoPlan, 1, FALSE)
          /\ UNCHANGED budget
       \/ /\ ~cacheFresh
          /\ rec' = Begin(NoPlan, 1, FALSE)
          /\ UNCHANGED <<app, cacheFresh, budget>>
       \/ /\ cacheFresh
          /\ Spend("apiFail")
          /\ rec' = Begin(NoPlan, 1, TRUE)
          /\ UNCHANGED <<app, cacheFresh>>
    /\ UNCHANGED <<appCache, pods, podCache>>

(***************************************************************************)
(* Executing the plan: the main loop's calls in ascending order of their   *)
(* ordinals, then the scale-down in descending order, then the rolling     *)
(* update.  PodController's calls go to the server by name.                *)
(***************************************************************************)
Running == rec.pc = "run"

Lowest(S, i) == i \in S /\ \A j \in S : i <= j
Highest(S, i) == i \in S /\ \A j \in S : j <= i

MainLoopLeft == rec.plan.make \cup rec.plan.pvc \cup rec.plan.restart

CallFails ==
    /\ Spend("apiFail")
    /\ UNCHANGED pods

\* CreateStatefulPod: a Pod of that name on the server is an error.  An error
\* does not end a bursting loop.
CreateStatefulPod(i) ==
    /\ Running
    /\ Lowest(rec.plan.make, i)
    /\ \/ /\ ~Exists(pods[i])
          /\ pods' = [pods EXCEPT ![i] = [NoPod EXCEPT !.rev = rec.plan.rev[i],
                                                       !.phase = "Pending"]]
          /\ rec' = [rec EXCEPT !.plan.make = @ \ {i}]
          /\ UNCHANGED budget
       \/ /\ Exists(pods[i])
          /\ rec' = [rec EXCEPT !.plan.make = @ \ {i}, !.err = TRUE]
          /\ UNCHANGED <<pods, budget>>
       \/ /\ CallFails
          /\ rec' = [rec EXCEPT !.plan.make = @ \ {i}, !.err = TRUE]
    /\ UNCHANGED <<app, appCache, cacheFresh, newest, podCache, dirty>>

\* createPVC for a pending Pod: the claims are there, are created, or the call
\* fails.
createPVC(i) ==
    /\ Running
    /\ rec.plan.make = {}
    /\ i \in rec.plan.pvc
    /\ \/ /\ rec' = [rec EXCEPT !.plan.pvc = {}]
          /\ UNCHANGED <<pods, budget>>
       \/ /\ CallFails
          /\ rec' = [rec EXCEPT !.plan.pvc = {}, !.err = TRUE]
    /\ UNCHANGED <<app, appCache, cacheFresh, newest, podCache, dirty>>

\* DeleteStatefulPod on the server: NotFound is success.
ServerDelete(i) ==
    pods' = IF Exists(pods[i]) THEN [pods EXCEPT ![i].del = TRUE] ELSE pods

\* A Pod in phase Failed or Succeeded is deleted, to be created again.
RestartPod(i) ==
    /\ Running
    /\ rec.plan.make = {}
    /\ i \in rec.plan.restart
    /\ \/ /\ ServerDelete(i)
          /\ rec' = [rec EXCEPT !.plan.restart = {}]
          /\ UNCHANGED budget
       \/ /\ CallFails
          /\ rec' = [rec EXCEPT !.plan.restart = {}, !.err = TRUE]
    /\ UNCHANGED <<app, appCache, cacheFresh, newest, podCache, dirty>>

\* Scale-down; an error leaves applyUpdate.
CullPod(i) ==
    /\ Running
    /\ MainLoopLeft = {}
    /\ Highest(rec.plan.cull, i)
    /\ \/ /\ ServerDelete(i)
          /\ rec' = [rec EXCEPT !.plan.cull = @ \ {i}]
          /\ UNCHANGED budget
       \/ /\ CallFails
          /\ rec' = [rec EXCEPT !.plan.cull = {}, !.plan.roll = {}, !.err = TRUE]
    /\ UNCHANGED <<app, appCache, cacheFresh, newest, podCache, dirty>>

\* Rolling update; currentReplicas is decremented whichever revision the Pod had.
RollPod(i) ==
    /\ Running
    /\ MainLoopLeft = {}
    /\ rec.plan.cull = {}
    /\ i \in rec.plan.roll
    /\ \/ /\ ServerDelete(i)
          /\ rec' = [rec EXCEPT !.plan.roll = {}, !.status.current = @ - 1]
          /\ UNCHANGED budget
       \/ /\ CallFails
          /\ rec' = [rec EXCEPT !.plan.roll = {}, !.err = TRUE]
    /\ UNCHANGED <<app, appCache, cacheFresh, newest, podCache, dirty>>

(***************************************************************************)
(* updateAppStatus                                                         *)
(***************************************************************************)
PlanDone ==
    /\ Running
    /\ MainLoopLeft = {}
    /\ rec.plan.cull = {}
    /\ rec.plan.roll = {}

FinalStatus == completeRollingUpdate(rec.status)

SkipStatus ==
    /\ PlanDone
    /\ statusConsistent(rec.seen, FinalStatus)
    /\ rec' = [rec EXCEPT !.pc = "end"]
    /\ UNCHANGED <<app, appCache, cacheFresh, newest, pods, podCache, dirty, budget>>

updateAppStatus ==
    /\ PlanDone
    /\ ~statusConsistent(rec.seen, FinalStatus)
    /\ \/ /\ rec.fresh
          /\ app' = [app EXCEPT !.status = FinalStatus]
          /\ cacheFresh' = FALSE
          /\ rec' = Outdated([rec EXCEPT !.pc = "end"])
          /\ UNCHANGED budget
       \/ /\ rec.fresh
          /\ Spend("apiFail")
          /\ rec' = [rec EXCEPT !.pc = "end", !.err = TRUE]
          /\ UNCHANGED <<app, cacheFresh>>
       \* conflict: the same status is put on the lister's copy
       \/ /\ ~rec.fresh
          /\ appCache.exists
          /\ cacheFresh
          /\ rec' = [rec EXCEPT !.fresh = TRUE]
          /\ UNCHANGED <<app, cacheFresh, budget>>
       \* conflict on every attempt, or the App is gone
       \/ /\ ~rec.fresh
          /\ rec' = [rec EXCEPT !.pc = "end", !.err = TRUE]
          /\ UNCHANGED <<app, cacheFresh, budget>>
    /\ UNCHANGED <<appCache, newest, pods, podCache, dirty>>

(***************************************************************************)
(* The end of Reconcile.  The finalizer is dropped from the cached object  *)
(* first and then on the server; an error of that call is only logged.     *)
(***************************************************************************)
RemoveFinalizer ==
    /\ rec.pc = "end"
    /\ rec.last
    /\ ~rec.err
    /\ appCache' = IF rec.same THEN [appCache EXCEPT !.fin = FALSE] ELSE appCache
    /\ \/ /\ rec.base
          /\ app' = [app EXCEPT !.exists = FALSE, !.fin = FALSE]
          /\ cacheFresh' = FALSE
          /\ UNCHANGED budget
       \/ /\ ~rec.base
          /\ UNCHANGED <<app, cacheFresh, budget>>
       \/ /\ rec.base
          /\ Spend("apiFail")
          /\ UNCHANGED <<app, cacheFresh>>
    /\ rec' = Idle
    /\ UNCHANGED <<newest, pods, podCache, dirty>>

\* An error puts the key back into the queue.
Return ==
    /\ rec.pc = "end"
    /\ ~rec.last \/ rec.err
    /\ dirty' = (dirty \/ rec.err)
    /\ rec' = Idle
    /\ UNCHANGED <<app, appCache, cacheFresh, newest, pods, podCache, budget>>

Controller ==
    \/ ReconcileGone
    \/ AddFinalizer
    \/ ScaleToZero
    \/ UpdateApp
    \/ RevisionFails
    \/ ApplyDefaults
    \/ \E i \in Ordinals : CreateStatefulPod(i)
    \/ \E i \in Ordinals : createPVC(i)
    \/ \E i \in Ordinals : RestartPod(i)
    \/ \E i \in Ordinals : CullPod(i)
    \/ \E i \in Ordinals : RollPod(i)
    \/ SkipStatus
    \/ updateAppStatus
    \/ RemoveFinalizer
    \/ Return

-----------------------------------------------------------------------------
(***************************************************************************)
(* Informers and the workqueue                                             *)
(***************************************************************************)
SyncApp ==
    /\ ~cacheFresh
    /\ appCache' = app
    /\ cacheFresh' = TRUE
    /\ rec' = [rec EXCEPT !.same = FALSE]
    /\ dirty' = TRUE
    /\ UNCHANGED <<app, newest, pods, podCache, budget>>

SyncPod(i) ==
    /\ podCache[i] # pods[i]
    /\ podCache' = [podCache EXCEPT ![i] = pods[i]]
    /\ dirty' = TRUE
    /\ UNCHANGED <<app, appCache, cacheFresh, newest, pods, rec, budget>>

\* The informer's periodic resync hands out the cached object again.
Resync ==
    /\ appCache.exists
    /\ ~dirty
    /\ rec.pc = "idle"
    /\ dirty' = TRUE
    /\ UNCHANGED <<app, appCache, cacheFresh, newest, pods, podCache, rec, budget>>

\* The controller restarts: it lists everything anew before it reconciles.
Crash ==
    /\ Spend("crash")
    /\ appCache' = app
    /\ cacheFresh' = TRUE
    /\ podCache' = pods
    /\ rec' = Idle
    /\ dirty' = app.exists
    /\ UNCHANGED <<app, newest, pods>>

(***************************************************************************)
(* Kubelet, other users of the Pods, garbage collector                     *)
(***************************************************************************)
PodsOnly == UNCHANGED <<app, appCache, cacheFresh, newest, podCache, rec, dirty>>

PodRuns(i) ==
    /\ pods[i].phase = "Pending"
    /\ ~pods[i].del
    /\ \E c \in ReadyValues :
           pods' = [pods EXCEPT ![i].phase = "Running", ![i].cond = c]
    /\ PodsOnly
    /\ UNCHANGED budget

PodReadiness(i) ==
    /\ pods[i].phase = "Running"
    /\ \E c \in ReadyValues \ {pods[i].cond} : pods' = [pods EXCEPT ![i].cond = c]
    /\ PodsOnly
    /\ UNCHANGED budget

PodGone(i) ==
    /\ pods[i].del
    /\ pods' = [pods EXCEPT ![i] = NoPod]
    /\ PodsOnly
    /\ UNCHANGED budget

PodFails(i) ==
    /\ pods[i].phase = "Running"
    /\ Spend("podLoss")
    /\ pods' = [pods EXCEPT ![i].phase = "Failed"]
    /\ PodsOnly

\* kubectl delete pod, an eviction, a node that is drained.
PodDeleted(i) ==
    /\ Exists(pods[i])
    /\ ~pods[i].del
    /\ Spend("podLoss")
    /\ pods' = [pods EXCEPT ![i].del = TRUE]
    /\ PodsOnly

GarbageCollect(i) ==
    /\ ~app.exists
    /\ Exists(pods[i])
    /\ ~pods[i].del
    /\ pods' = [pods EXCEPT ![i].del = TRUE]
    /\ PodsOnly
    /\ UNCHANGED budget

(***************************************************************************)
(* The user                                                                *)
(***************************************************************************)
Edited(op, a) ==
    /\ op \in UserOps
    /\ app.exists
    /\ ~app.deleting
    /\ a # app
    /\ Spend("edits")
    /\ app' = [a EXCEPT !.gen = app.gen + 1]
    /\ cacheFresh' = FALSE
    /\ rec' = Outdated(rec)
    /\ UNCHANGED <<appCache, newest, pods, podCache, dirty>>

EditTemplate == \E r \in Revs : Edited("template", [app EXCEPT !.tmpl = r])

EditReplicas ==
    \E n \in 0 .. MaxReplicas : Edited("replicas", [app EXCEPT !.replicas = n])

EditPartition ==
    \E n \in 0 .. MaxReplicas : Edited("partition", [app EXCEPT !.partition = n])

EditPaused == Edited("paused", [app EXCEPT !.paused = ~@])

\* Without a finalizer the App is gone at once.
DeleteApp ==
    /\ "delete" \in UserOps
    /\ app.exists
    /\ ~app.deleting
    /\ Spend("edits")
    /\ app' = [app EXCEPT !.deleting = TRUE, !.exists = app.fin, !.gen = @ + 1]
    /\ cacheFresh' = FALSE
    /\ rec' = Outdated(rec)
    /\ UNCHANGED <<appCache, newest, pods, podCache, dirty>>

Environment ==
    \/ SyncApp
    \/ \E i \in Ordinals : SyncPod(i)
    \/ Resync
    \/ Crash
    \/ \E i \in Ordinals : PodRuns(i)
    \/ \E i \in Ordinals : PodReadiness(i)
    \/ \E i \in Ordinals : PodGone(i)
    \/ \E i \in Ordinals : PodFails(i)
    \/ \E i \in Ordinals : PodDeleted(i)
    \/ \E i \in Ordinals : GarbageCollect(i)
    \/ EditTemplate
    \/ EditReplicas
    \/ EditPartition
    \/ EditPaused
    \/ DeleteApp

Next == Controller \/ Environment

Spec == Init /\ [][Next]_vars
DeployedSpec == DeployedInit /\ [][Next]_vars

(***************************************************************************)
(* Fairness: the worker keeps reconciling a queued key, the watches keep   *)
(* delivering, the resync period (10 hours by default) passes, and the     *)
(* kubelet and the garbage collector do their part for each Pod.  Nothing  *)
(* is assumed of the user, of failures, of crashes or of readiness.        *)
(***************************************************************************)
Fairness ==
    /\ WF_vars(Controller)
    /\ WF_vars(SyncApp)
    /\ WF_vars(Resync)
    /\ \A i \in Ordinals : /\ WF_vars(SyncPod(i))
                           /\ WF_vars(PodRuns(i))
                           /\ WF_vars(PodGone(i))
                           /\ WF_vars(GarbageCollect(i))

FairSpec == Spec /\ Fairness
FairDeployedSpec == DeployedSpec /\ Fairness
=============================================================================
