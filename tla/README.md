# unicore in TLA+

A specification of the core of unicore (`src/deployer`): the `App` controller,
the two plugins of its scheduler, and the daemon that pulls images to its nodes;
their model checking with TLC, and theorems about them checked by TLAPS.  An
`App` is a stateful workload: Pods numbered from 0, created in order, replaced
from the highest ordinal down when the template changes, re-created or updated
in place, and kept at the old revision below a *partition*.

Paths below are relative to `src/deployer/`.

## 1. Inventory

### Components

| component | source | state | operations |
|---|---|---|---|
| App reconciler | `internal/controller/app_controller.go` | none of its own; shares the informer caches and the workqueue, requeue durations | `Reconcile` (add finalizer, scale to zero on deletion, adopt Pods and revisions, `UpdateApp`, deferred removal of the finalizer), set-up |
| State controller | `internal/controller/app/state_controller.go`, `replica_status.go` | the stored `AppStatus`; ControllerRevisions | `UpdateApp`, `getAppRevision`, `applyUpdate`, `updateAppStatus`, `completeRollingUpdate`, `truncateHistory` |
| Pod controller | `internal/controller/app/pod_controller.go` | Pods and claims on the API server | `CreateStatefulPod`, `UpdateStatefulPod`, `DeleteStatefulPod`, `createPVC` |
| Pod predicates, revisions | `internal/controller/app/utils.go` | none | readiness, availability, identity, revision labels, ordering, patches |
| App API types | `api/deployer/v1/app_types.go` | the App object | - |
| In-place update | `internal/controller/app/inplace_update.go`, `image_pre_load.go` | an annotation and a readiness gate of each Pod, ImageLists | refresh, update, grace period, completion check, pre-load of images |
| Requeue durations | `internal/controller/requeue_duration/duration.go` | a process-wide map | `Push`, `Pop` |
| Gang scheduler plugin | `schedule_plugin/pkg/plugin/gang/gang.go` | four maps about gangs, a mutex | `PreFilter`, `Less`, `Permit`, `Unreserve`, `CleanUp` |
| Reserve scheduler plugin | `schedule_plugin/pkg/plugin/reserve/reserve.go` | a map of reservations, loaded from a ConfigMap; a lock | the ConfigMap's handlers, `Filter`, `Reserve`, `Unreserve`, `cleanExpired`, `updateCM` |
| Image daemon | `pkg/daemon/`, `api/deployer/v1/imagelist_types.go` | the maps `AlwaysPullImages` and `RetryImages`, each with a lock; the images of its node | `Start` (list and watch the node's ImageList), `PullImages`, `CheckAndPull`, `loopRetry`, `loopAlwaysPull` |
| Deployer reconciler, control plane, generated code, manifests | `internal/controller/deployer_controller.go`, `../control_plane`, `pkg/generated`, ... | none | stubs, generated code, set-up |

### Interactions

* The reconciler and the state controller read an App and its Pods **once**,
  from two informer caches that lag behind the API server independently of each
  other, and then issue API calls one after the other.
* `Get` of the lister returns a pointer into the cache.  `Reconcile` writes
  through it (finalizer, replicas) **before** the API call that may fail.
* App writes carry a resource version and can conflict; Pod writes go by name
  and without UID, so they never do.
* Every cache event of the App or one of its Pods puts the App's key into the
  workqueue; so does an error returned by `Reconcile`, and so does the resync.
* Kubelet, garbage collector, scheduler, and users act on the same objects at
  any time.  The manager may be restarted between any two calls.
* The in-place update shares the Pod's labels and conditions with the state
  controller.  Its calls read the Pod lister again before they write.
* The plugins are called by kube-scheduler: one scheduling cycle at a time, and
  a binding cycle per Pod besides.  The reserve plugin and users write the same
  ConfigMap, which comes back through an informer.
* The daemon takes its orders from an ImageList; no code writes one (the
  pre-loading of images is an empty function).

### What is hard, and what makes it correct

| component | hard behaviour | correct when |
|---|---|---|
| reconcile + state controller | decisions on stale caches, interleaved with the effect of earlier decisions; failed calls half-way; restarts | one Pod down at a time, partition respected, order of replacement: an ordered rolling update |
| status | written over a newer App after a conflict; skipped when it looks the same | never claims a rollout is done that is not; observed generation never regresses |
| finalizer | in a shared cache object before it is on the server | Pods are gone before the App; a deletion ends |
| defaults, partition, pause | edits between the calls of a reconcile | converges to the last edit |
| revision history | which revisions are live is read from caches; truncation stops at errors | no revision in use is deleted, the oldest go first |
| in-place update | a multi-step protocol per Pod, through annotations | a Pod is out of service for the grace period before its image changes and back on the new image; every update ends |
| gang plugin | counts without the lock, acts under it; waits that time out | all or nothing, unless a counted member leaves; a gang that fits is placed or rejected |
| reserve plugin | conflicting writers of one ConfigMap; a filter that depends on the order of the entries | a node's free room covers the reservations of others; a write takes away only its own; what is over is cleaned up |
| image daemon | goroutines that work on overlapping snapshots of the retry map while events change it | no image that failed is forgotten; every image of the list is on the node in the end |

`PROJECT.json` lists the hazards line by line, with the properties that cover
them, or the reason why none does.

## 2. Modules

| module | what it is |
|---|---|
| `PodPlan` | `applyUpdate` as a function: from an App and its claimed Pods as read from the caches to a *plan* (what is created with which revision, restarted, scaled away, rolled) and a status.  No variables. |
| `AppController` | The state machine: API server, caches, workqueue, `Reconcile` call by call, kubelet, garbage collector, user, failures, restarts.  Extends `PodPlan`. |
| `AppProperties` | The properties of the controller, the inductive invariant `RolloutInv`, and the refinement mapping to `RollingUpdate`. |
| `RollingUpdate` | The abstract specification of an ordered rolling update: replicas are taken down and brought back, one after the other from the top. |
| `AppController_proofs` | Type correctness, with the lemmas on the types of the operators. |
| `Rollout_proofs` | Safety of a rollout; `AppController` implements `RollingUpdate`. |
| `Status_proofs` | What the status says: the observed generation, and a rollout reported as complete. |
| `InPlaceUpdate` | One Pod in detail: in-place update, grace period and requeue durations, `minReadySeconds`, claim and identity. |
| `InPlaceUpdate_proofs` | Types; the grace period; the return into service. |
| `RevisionHistory` | The ControllerRevisions of an App: adoption, creation, roll-back, truncation. |
| `RevisionHistory_proofs` | Numbers of revisions; no revision in use is deleted, and the oldest first. |
| `GangScheduler` | The gang plugin inside the scheduling and binding cycles. |
| `GangScheduler_proofs` | Types; no complete gang waits; a gang is admitted together. |
| `ReserveScheduler` | The reserve plugin, its ConfigMap and the users who write it. |
| `ReserveScheduler_proofs` | Types; what `Filter` leaves to others, and what the writers take away. |
| `ImageDaemon` | The state machine of the daemon, its properties and its inductive invariant `DaemonInv`. |
| `ImageDaemon_proofs` | `DaemonInv` is invariant; no image is forgotten. |

### State and actions against the code

| variable | in the code |
|---|---|
| `app`, `pods` | the App and its Pods in etcd |
| `appCache`, `podCache` | what `AppLister` and `PodLister` return; `appCache` includes the writes of `Reconcile` through the pointer |
| `cacheFresh` | the cached App has the server's resource version: an `Update` of it succeeds |
| `newest` | the template of the ControllerRevision with the highest number (see `RevisionHistory` for the rest of the history) |
| `rec` | the local variables of the `Reconcile` in progress: position, what is left of the plan, the status to be written, the status read, `runErr`, the freshness of the two copies it may write, whether its deferred function is to remove the finalizer |
| `dirty` | the key is in the workqueue |
| `budget` | what is left of the bounds; not in the code |

`AddFinalizer`, `ScaleToZero`, `ReconcileGone` are the early returns of
`Reconcile`.  `UpdateApp` is everything from there to the first Pod call: it only
reads the two caches, so it is one step; it computes the plan with
`PodPlan!applyUpdate` and keeps it in `rec`.  `ApplyDefaults` is the path of
`applyUpdate` that writes the defaults and returns; `RevisionFails` the one where
the ControllerRevision cannot be written.  `CreateStatefulPod`, `createPVC`,
`RestartPod`, `CullPod`, `RollPod` are the Pod calls of the plan, each a step, in
the order of the code, each with its failure branch.  `SkipStatus` and
`updateAppStatus` write the status (with the conflict retry, which puts the
same status on the lister's newer copy).  `RemoveFinalizer` and `Return` are the
deferred function and the return.  `SyncApp` and `SyncPod` are the watches,
`Resync` the informers' resync, `Crash` a restart of the manager.

Why a plan can be computed at once: within `applyUpdate` the only inputs are the
App pointer's spec, read before, and the Pod list taken at the start.  The
branches on the results of calls are kept: an error ends the plan or part
of it exactly where the code breaks or returns (a failed creation with Parallel
does not end the loop, a failed scale-down does).

**The in-place update**, in `InPlaceUpdate` (an App with one replica, so that
`applyUpdate` is about one Pod):

| variable | in the code |
|---|---|
| `app`, `appCache`, `appFresh` | template and `status.updateRevision`; the cached copy, and whether a write of it succeeds |
| `pod`, `podCache`, `podFresh` | the Pod with its revision label, image, container status, Ready condition, `InPlaceUpdateReady` condition and in-place annotation |
| `claim`, `claimCache` | its PersistentVolumeClaim |
| `rec` | the reconcile: the calls it has decided on, the update revision, the status it read |
| `store` | `requeue_duration`'s entry of the App |
| `offFor`, `astray` | history: for how long the condition has been False; a write of the in-place update went astray (see section 5) |

`Begin` is `applyUpdate` up to its first call: creation, claim of a pending Pod,
waiting for `minReadySeconds` (which stores a duration), repair of the identity,
and in the rolling loop `InPlaceUpdatePod` up to its first write.
`SetConditionFalse`, `Annotate`, `WriteImage`, `CleanUpInPlaceUpdate` are those
writes: each reads the lister again and retries a conflict with the lister's copy,
so it succeeds when the cache has caught up, and an error of the first three
makes the controller delete the Pod (`Fallback`).  `StatusKept`, `StatusWritten`
end the reconcile with `Pop`.  `ContainerStops`, `ContainerStarts`,
`ReadyReported` are the kubelet, `Tick` is a second.

**The history**, in `RevisionHistory`: `hist` and `orphans` are the
ControllerRevisions on the server (number; without controller), `lister`, `strays`
the same in the cache, `behind` those whose cached copy is old.  A reconcile adopts
(`AdoptOrphanRevisions`), lists, keeps, renumbers or creates the revision of the
template (`RevisionKept`, `UpdateControllerRevision`, `CreateControllerRevision`),
does something to the Pods or nothing (`ApplyUpdate`, at most one of the calls
`AppController` lets it make, on the Pods it listed after the adoption), writes the
status and deletes what `truncateHistory` found, the oldest first
(`DeleteControllerRevision`), each call with its failure.  The whole status is
written when any field of it differs, so `UpdateAppStatus` may write a current
revision that has not changed since the reconcile read it (`OtherFieldDiffers`).

**The gang plugin**, in `GangScheduler`: `firstCreatedAt`, `firstPermittedAt`,
`permitted`, `rejected` are the plugin's maps; `where` says how far each Pod is in
the framework, `cycle` is the scheduling cycle with the local variables of
`Permit`; `lister` is the Pod cache.  `Permit` is three steps, `PermitCheck` (the
checks and the list of running Pods), `PermitCount` (waiting and permitted Pods)
and `PermitRelease` (under the lock), so that time-outs, `Unreserve` and other
binding cycles come in between.  `Less` is used by `Pop`, and what it stores when
a Pod is compared is part of the steps that put a Pod into the queue.

**The reserve plugin**, in `ReserveScheduler`: `cm` is the ConfigMap, `seen` the
version the informer has, `map` the plugin's map, `writer` what each of the two
callers of `updateCM` is about to write and how many tries it has left; `since` and
`served` are history (section 4).  `Sync` is the informer with its handlers;
`Filter`, `Reserve` and `CleanExpired` are the methods; `UpdateCM` is one attempt of
the write: accepted, or refused with a conflict, a missing ConfigMap or any other
error.

**The daemon**, in `ImageDaemon`:

| variable | in the code |
|---|---|
| `want`, `events` | the ImageList of the node in etcd; watch events not handled yet |
| `list` | the ImageList of the event handled last: the argument of `PullImages` |
| `present` | the images containerd lists |
| `nextPull`, `retry` | `AlwaysPullImages` (no entry, due, not due), `RetryImages` |
| `work` | the local variables of every goroutine: what it was given, what is left, what failed |

`Receive` takes an event; `MarkAlways`, `RetryLater` are `PullImages` before and
after its call of `CheckAndPull`; `ForgetAlways`, `ForgetRetry` are the handling of
a deletion, one lock after the other.  `CheckAndPull` is the same three actions
for every caller: `getExistingImages` with the filter, its failure, and
`pullSingleImage`, one step per image, since the images are pulled in parallel.
`loopRetry` and `loopAlwaysPull` take a snapshot and start a goroutine; `RetryDone`
takes its images out of the retry map one lock at a time; `AlwaysDone`,
`AlwaysStore` hold the lock of the other map for the whole loop, and whoever wants
that lock waits (`AlwaysLocked`).  `Restart` is a new process, also after the watch
was closed: `Start` returns then, and so does `main`.

### Abstractions

* One App; reconciles of one key do not overlap (`MaxConcurrentReconciles` is
  left at 1) and one manager is active (the leader-election flag exists and is
  off by default: two managers would be a deployment error).
* A template is a name; a revision is named by its template, as the hash in its
  name arranges (two templates with one hash are left out).  `AppController`
  takes the revision lister to be in sync and keeps all revisions;
  `RevisionHistory` has the lag and the truncation, and in turn only an outline
  of what happens to the Pods.
* `AppController` has Pods re-created (`PodUpdatePolicy` ReCreate) and
  `minReadySeconds` 0, with the identity of every Pod right; `InPlaceUpdate` has
  the other values of all three, for one Pod.
* Phase `Succeeded` is folded into `Failed`.  In `AppController` the Ready
  condition is set together with phase `Running`; its Status may be `False` where
  `ReadyValues` says so.  `InPlaceUpdate` has the readiness gate.
* A cache may skip intermediate versions of an object but never goes back.  A
  restart starts with caches in sync.
* A call either takes effect or fails without effect.
* An API conflict on an App is certain when the copy is old, and impossible
  otherwise.
* `InPlaceUpdate`: one container.  Time is whole seconds since an event; a
  reconcile fits into one second, and timestamps are cut to seconds as in the
  API.  A revision that is not found in the history counts as one that differs
  in more than the image: both make the controller re-create the Pod.
* `GangScheduler`: a Pod fits or does not by the number of slots left.  The
  scheduler's queue hands out any Pod that no other comes before, and back-off
  is left to fairness.  The count label is the same number on all Pods that have
  one.  Names stay when a Pod is recreated.
* `ReserveScheduler`: one resource stands for CPU and memory, which the code
  treats alike.  Every Pod needs one unit.
* Daemon: nobody but the daemon changes the images of the node, and it only adds
  (the kubelet's image garbage collection is left out).  Containerd lists an
  image under its full name; a name of the ImageList that is written so is in
  `Qualified`, any other never counts as existing and is pulled each time.  A
  name that can never be pulled is not an instance of `Settles`.  At most `|Jobs|`
  goroutines of the loops run at a time.  Added and Modified events are handled
  alike; a new watch starts with no event waiting.

## 3. Checks

`A, B, C` are templates.  The module of a run is the one of section 2 that the
name says; `Rollout`, `Lifecycle`, `Edits`, `Parallel` and `V_StuckDeletion` use
`AppProperties`.

| run | instance | shows |
|---|---|---|
| `Rollout` | 3 replicas, partition 1, OrderedReady, a Ready condition that may be False; 1 template edit, 1 failed call, 1 restart; 992 thousand states | `AtMostOneDown`, `BelowPartitionUntouched`, `UpdatedFromTheTop`, that `RolloutInv`, used in the proofs, is invariant, and `ImplementsRollingUpdate` |
| `Lifecycle` | a new App without strategy defaults, 1 of 2 replicas, partition 1; a change of the number of replicas, of the partition or a deletion at any moment, 1 lost or failed Pod, 1 restart; fairness; 795 thousand | `TypeOK`; `Converges`, `DeletionCompletes` |
| `Edits` | 2 replicas; 2 edits among template, partition and pause, 1 failed call; fairness; 577 thousand | `DoneMeansUpdated`; `ObservedNeverRegresses`; `Converges` |
| `Parallel` | Parallel with `unorderedUpdate`, 2 replicas, partition 1; 2 edits of template, number or partition, 1 failed call; fairness; 1.2 million | `Converges` |
| `InPlace` | templates A and B differ in the image, C in more; grace period 2, `minReadySeconds` 1; 1 edit, 1 failed call, restart, eviction, lost label or lost claim; fairness; 556 thousand | `TypeOK`; `GraceNearlyKept`, `BackOnTheNewImage`; `UpdateCompletes` |
| `History` | 3 templates, limit 0 or 1, one Pod, an orphan left behind; 1 edit, 1 failed call or restart, 1 reconcile with a change in another field of the status; fairness; 1.7 million | `TypeOK`; `InUseNotDeleted`, `OldestGoFirst`; `HistorySettles` |
| `Gang` | a gang of 3 of which 2 carry the count 2, 1 Pod without gang, 3 slots; 1 Pod deleted, binding failed or restart; fairness; 295 thousand | `TypeOK`, `AdmittedTogether`, `NoCompleteGangWaits`; `GangDecided` |
| `Reserve` | 2 nodes, 2 Pods, 2 edits of the ConfigMap, 2 instants, 2 tries; 1 write or binding failed, Pod deleted or restart; fairness; 902 thousand | `TypeOK`; `FilterProtectsOthers`, `WritesRemoveOnlyTheirOwn`; `ExpiredAreCleaned` |
| `Images` | 2 images (one always pulled and not `Qualified`), 2 goroutines; 1 edit or deletion of the ImageList, 2 failures (a pull, a list outside the event loop, a restart), 1 day; fairness; 643 thousand | `DaemonInv`, `NothingForgotten`; `Settles` |
| `V_*` | see section 5 | a statement of the repository that the code does not keep |

**Bounds.** Three replicas are needed for the order (one below the partition,
two to be replaced one after the other); everything else shows with two: a Pod
that is updated and one that is not.  One failed call and one restart, at any
point, leave every combination of "the call before" and "the reconcile after"; the
caches may lag by any amount within these bounds. Two edits are the least with which
an edit can meet the effects of another, and `Parallel` has them: a template that
differs while the partition is in force, and a number of replicas that goes down and
up again. It loses no Pod; with a lost one the run `V_UnorderedLoop` shows what
happens. In `Lifecycle` the partition may be edited to 0, and `Converges` then asks
for a status that reports the rollout as done; of the ways in which the defaults can
fail to be written it has the conflict only. With two edits and no lost Pod (1.3
million states) it holds too, so also when the number of replicas goes down and up
in order. For the daemon two goroutines suffice to overlap on one image, and two
failures are the least with which a retry fails again: with one, a retry that takes
failed images out of the map goes unnoticed. In `InPlace` a grace period of two
seconds is the least of which the code can lose one. In `History` three templates
are the least with which one is neither current nor updated; with limit 0 everything
not in use goes, with limit 1 it matters which one; two edits without failures (9.2
million states) hold too. In `Gang` the third member, without count label, is the
one that Permit lets pass and Unreserve lets reject the gang. With two gangs that
together need more slots than there are, each may hold part of the room until it
times out, so `GangDecided` is checked for one; the safety properties hold for two.
Two reservations of one node are the least for the order to matter in `Filter`, and
two writers with two tries for a retry to meet the other's write.

**Deadlock** is checked except where the system may come to rest: once a
deleted App and its Pods are gone, all Pods are placed or all gangs rejected, the
edits of the ConfigMap and the clock are used up, or all images are on the node
and no day ends any more.

**Fairness** (`AppController!Fairness`): the worker goes on as long as it can
(`WF(Controller)`: a work queue with one worker, and calls that return); watches
deliver (`SyncApp`, `SyncPod`); the resync period passes (`Resync`; the manager
does not change the 10 hours of controller-runtime); the kubelet starts a Pod
that is pending and removes one that is terminating; the garbage collector
deletes Pods without owner.  Nothing is assumed of the user, of failures, of
crashes or of readiness.  `Resync` matters: `ApplyDefaults` swallows its error,
and only another event tries again.
`InPlaceUpdate` and `RevisionHistory` assume the same, the former also that time
passes: `Tick` is strongly fair because it waits for the reconcile in progress to
end, which the requeues can delay again and again but never for good.
`GangScheduler`: the framework's goroutines, the informer, the timer of Permit and
`CleanUp` go on, and the active queue runs empty again and again (`[]<>(Queued =
{})`).  The last one stands for back-off: without it the Pods that fail over and
over could for ever come before one that would fit.  Pods are neither created
nor started by fairness.
`ReserveScheduler`: the informer, the loop of `cleanExpired`, a scheduling cycle
that has begun and the writes go on.
`ImageDaemon`: every goroutine goes on as long as it can, since calls return and
locks are released; each loop's timer fires again.

**Mutants.** For each property `PROJECT.json` names a mutated form of an operator
(defined just before the original, marked "Mutated form") under which the same run
finds the property violated: a terminating Pod taken for available, a rolling loop
that ignores the partition or starts at the bottom, a status that forgets the
generation or counts any revision, a test of the status that leaves out a field, an
off-by-one at the partition or at the number of Pods it stands for, a first
reconcile of an in-place update that does not stop at the condition, a test of
completion that looks at readiness only or at the wrong side of the date, a
truncation that forgets the Pods' revisions, keeps one too many or deletes the
newest, a gang that counts a Pod twice or releases nobody, a filter that leaves out
the Pod's own need, an inverted test of a reservation, a retry that forgets failed
images or none.

## 4. Proofs

For every number of replicas, Pods, gangs, nodes, revisions, and every value of
the other constants.  The assumptions are `PlanAssumption`, `ControllerAssumption`,
`DaemonAssumption`, `InPlaceAssumption`, `HistoryAssumption`, `GangAssumption` and
`ReserveAssumption`, which say the types of the constants; the bounds are any
natural numbers.  All theorems have the form `Spec => ...`, under the scenario
named where there is one.

| theorem | states | scenario |
|---|---|---|
| `TypeCorrect` | `AppController!TypeOK`, also from `DeployedSpec` | - |
| `RolloutInvariant` | `RolloutInv` | `SingleRollout` |
| `RolloutSafe`, `BelowPartitionSafe`, `TopDownSafe` | `AtMostOneDown`, `BelowPartitionUntouched`, `UpdatedFromTheTop` | `SingleRollout` |
| `RolloutRefines` | `ImplementsRollingUpdate` | `SingleRollout` |
| `ObservedGenerationGrows` | `ObservedNeverRegresses`, also from `DeployedSpec` | - |
| `DoneIsTrue` | `DoneMeansUpdated`, also from `DeployedSpec` | `NoScaling` |
| `InPlaceTypeCorrect`, `GraceIsNearlyKept`, `BackWithTheNewImage` | `TypeOK`, `GraceNearlyKept`, `BackOnTheNewImage` | - |
| `HistoryTypeCorrect`, `InUseKept`, `OldestAreFirst` | `TypeOK`, `InUseNotDeleted`, `OldestGoFirst` | - |
| `GangTypeCorrect`, `NoGangLeftWaiting`, `GangAdmittedTogether` | `TypeOK`, `NoCompleteGangWaits`, `AdmittedTogether` | - |
| `ReserveTypeCorrect`, `OthersKeepTheirRoom`, `OthersAreNotRemoved` | `TypeOK`, `FilterProtectsOthers`, `WritesRemoveOnlyTheirOwn` | - |
| `DaemonInvariant`, `ImagesNotForgotten` | `DaemonInv`, `NothingForgotten` | listing the images does not fail in the event loop |

So every invariant and action property of the passing runs is stated by a theorem,
and what is left to TLC is liveness.

**Types** say more than types in places: every Pod the plan is to create has a
revision (an empty current revision falls back to the update revision); no Pod
without gang gets into a map of the gang plugin; no revision gets a number past
`MaxEdits + 2`; a stored requeue duration is at most grace period +
`minReadySeconds` + 1.

### The rollout

`SingleRollout` is the scenario: OrderedReady, RollingUpdate, one change of the
template, nobody else taking Pods away.  Failed calls, restarts, conflicts, any
lag of either cache and any readiness status remain.

None of the three properties is inductive: that the rolling update may delete Pod
`i` depends on what it saw of the Pods above, and what it saw may be old.  A Pod
passes through five *stages*: old and up, old and terminating, gone, recreated, new
and up.  `RolloutInv` is the conjunction of

* `ScenarioInv`: nothing but the template changes;
* `ShapeInv`: what a Pod can look like during a rollout, on the server and in
  the cache;
* `CacheInv`: the cache is at most as far as the server, **and while it still
  shows the old Pod, its successor does not exist**: a creation needs a cache
  that shows the Pod gone.  This is what makes it harmless to decide on an old
  cache and to delete by name;
* `OrderInv`: a Pod that has left stage 0 is one whose predecessors in the order
  (all Pods above it) have been *seen* new and up, and so are;
* `PlanInv`: the calls that remain in the plan still fit, whatever happened
  since the plan was made.

`Rollout_proofs` has a lemma for what a plan can contain (`PlanSafe`), one for
each kind of step (`UpdateAppKeeps`, `CreateKeeps`, `RollKeeps`,
`PodCacheCatchesUp`, `PodRunsKeeps`, `EditTemplateKeeps`, ...), which
`RolloutNext` combines; the three properties follow from `RolloutInv`.

`RollingUpdate` has no controller, cache or call: it has the stage of each replica
(old, down, new) and two actions, `TakeDown` of the highest old replica when all
above are new, and `BringUp`.  `AppProperties!RU` maps the Pods on the server to
stages: the first of the five stages above is old, the last is new, and the three
between are down.  The initial states map to the initial state and, with
`RolloutInv` before and after, a deletion by the rolling update is a `TakeDown`
(`OrderInv` and `CacheInv` give its guard), the start of a recreated Pod a
`BringUp`, and every other step a stutter.

### The status

`ObservedGenerationGrows` has no scenario.  The status a reconcile carries names the
generation of the copy it read; that copy is never older than the generation on the
server's status, since one reconcile runs at a time and the cache never goes back.

`DoneIsTrue` allows any number of changes of template, partition and pause, and a
deletion, under either pod management policy (`NoScaling`).  Its invariant `DoneInv`
says that copies of one generation have one template and partition (`CopyInv`); that
a Pod the cache shows has the revision of the one on the server, if there is one
(`SightInv`); that what a plan still creates or deletes is such a Pod (`CallsInv`);
and that a status which counts every replica as updated in the present generation is
true, on the server **and while it is only in a reconcile's hands** (`TruthInv`).
`NoScaling` excludes lost Pods, with which the property is false (section 5), and,
as cases not proved, scaling, unordered updates and the strategy without rolling
update.

### The in-place update

A reconcile plans its calls on one look at the Pod and makes them on another.
`CallInv`: as long as the Pod on the server is the one decided on (`rec.base`), the
reasons for each call still due (`Justified`) hold of it.  `OffInv`: an annotated Pod has
its condition False, and has had it for at least as long as the annotation is old;
with `CallInv` for the image write this gives `GraceNearlyKept`.  `RunInv`: a running Pod
whose update counts as done runs its image; with `CallInv` for the clean-up this gives
`BackOnTheNewImage`.  Both invariants except behaviours that went `astray`, and hold
with hasty edits; section 5 tells why the exception is needed.

### The revision history

`NumbersInv` counts the changes of the template that have reached the cached App (`c`)
and the reconcile (`d`): numbers are at most `2 + d` for the template in hand and `1 +
d` for all others, in the history and in every copy of it, so that a renumbering
always makes up for a change.  `DoomedInv`: what `truncateHistory` still has to delete
was listed and is not among what was in use by what the reconcile saw.  `AgeInv`: what
is older than such a revision, and not in use either, is still to be deleted too or gone.

### The gang plugin

`Permit` reads the rejected gangs, the running Pods and the waiting Pods one after
the other and locks only then.  `PlacesInv` ties the places of the Pods to what has been
let through; `BegunInv` says nothing is permitted before the first release;
`CycleInv` what the cycle's local variables still mean; and `EnoughInv` that whoever
is about to release a gang for the first time has enough members, unless one left
since it counted, which breaks the gang for good.  `AdmittedTogether` is inductive with
them; `NoCompleteGangWaits` is inductive with the types.

### The reserve plugin

The sums and the filtered lists are recursive functions of the list's length.
What they compute for lists of any length is proved by first-order induction:
`NaturalsAre` says that a set of naturals which holds 0 and every successor is `Nat`,
and is used with the set of the lengths for which the claim holds.  So
`OthersKeepTheirRoom` covers every list and order: the last entry of another Pod is
tested with a running sum that contains all entries of others.
`OthersAreNotRemoved` is about a write that may have met any number of conflicts and
come after any number of writes by the other writer.  `since` is the last version
that holds something no copy of the plugin knows: an edit by a user, or a write whose
own copy was older than that.  `served` are the Pods whose reservations `Reserve` has
dropped since then.  The invariant `CopyInv` says that all copies made from that version
or a later one - the ConfigMap itself, the plugin's map, and the data that each writer
still tries to write - differ, node by node and pair by pair, only by entries that are
over or of Pods served.  It has to speak of pairs, since each of the copies may be the
next ConfigMap and any other one the next to overwrite it: the map is an old copy
while the informer lags, and a writer's data one that lacks what the other has brought
back.  What it leaves out is a write whose copy lacks a user's edit (section 5), and
maps with a malformed entry.

### The daemon

`DaemonInvariant` and `ImagesNotForgotten` assume that listing the node's images never
fails in the event loop; with that violated `PullImages` returns before it has noted
anything for a retry, and the list is lost until the next event.  `NothingForgotten`
is not inductive by itself, since a goroutine takes an image out of the retry map on
the word of a pull it made some time ago.  `DaemonInv` adds what makes this harmless
(`GoodJob`): what a retry has neither still to pull nor failed to pull is on the node,
and no image leaves the node.  And while the event loop empties the maps the list has
no images.  Each kind of step has a lemma: `MainStepKeeps`, `CheckAndPullKeeps`,
`LoopsKeep`, `WorldKeeps`.

**Only model-checked**: liveness, which the prover cannot do (`Converges`,
`DeletionCompletes`, `UpdateCompletes`, `HistorySettles`, `GangDecided`,
`ExpiredAreCleaned`, `Settles`).  Of the inductive invariants
`RolloutInv` and `DaemonInv` are checked by a run; the others live in the proof modules
and were checked with TLC on the instances of the runs (`DoneInv` on `Edits`,
`GangInv` on `Gang`, `CopyInv` on `Reserve`, `CallInv`, `OffInv` and
`RunInv` on `InPlace`, with hasty edits too, `NumbersInv`, `DoomedInv` and
`AgeInv` on `History`).

## 5. Where the code and its comments differ

Each has a run in which TLC finds the counterexample, and an entry under
"findings".

* `V_StuckDeletion`: one failed removal of the finalizer leaves the cached object
  without it; no later reconcile tries again, so the App stays.
* `V_UnorderedLoop`: two replicas under Parallel with `unorderedUpdate` and partition
  1, and a new template.  Pod 0 is lost before Pod 1 is replaced.  Creation counts: the
  other Pod is of the old revision, one is as many as the partition asks for, so Pod
  0 comes back updated (`state_controller.go:675-686`).  The rolling loop goes by
  ordinal: Pod 1 is at the partition and old, so it is deleted
  (`state_controller.go:448`).  Creation counts again: no Pod is of the old revision
  now, so Pod 1 comes back old.  The rolling loop deletes it, and so on for ever, other
  than `app_types.go:175-176` says ("controller will update $(replicas - partition)
  number of pod").  While no Pod is lost the rollout ends (`Parallel`).
* `V_OwnReservation`: `Filter` adds the Pod's own reservation to the sum with which
  the next one is tested, so the node may be refused to the very Pod it is
  reserved for.

Met while modelling, and visible in the models without a run of their own.

*App controller.*  When no Pod exists, 0 updated = 0 replicas = 0 ready counts as a
complete rollout, and Pods below the partition come back with the new template.
After a failed `Update` the finalizer is only in the cached object; the retry
finds it there and creates Pods for an App without it.  The finalizer is removed
on the word of a Pod cache that may not have seen the Pods yet.
`currentReplicas` is decremented for a Pod of any revision and can become
negative; `updatedReadyReplicas` is counted twice because `updateStatus` runs
twice without resetting it; `availableReplicas` stays 0 with `minReadySeconds` 0
(`utils.go:200`); a missing `spec.replicas` is dereferenced.  Writing the strategy
defaults drops `paused` and `unorderedUpdate`.  With Parallel the main loop still
stops at the first unavailable Pod, and `maxUnavailable` is never read, so several
Pods may be down.  Scaling down and up again with an old cache, or scaling down
when the cache does not show the newest Pod, leaves a hole in the ordinals
("decreasing order", `state_controller.go:391`), until a later reconcile closes
it.  Two Pods without Ready condition block an ordered scale-down.  `getPodReady`
returns true for a condition of type Ready whatever its Status (`utils.go:178`),
so a Pod that is not ready lets the next one start, other than the comment at
`app_types.go:63` says.  An error of the Update that writes the defaults is only logged.

*Several edits.*  That at most one replica is down is a property of **one** change of
the template.  With a second change TLC finds two down: a reconcile with the older
template deletes Pod 1, whose deletion the Pod cache does not show yet; then the new
template reaches the cache, Pod 2 is of the other revision, and since all Pods look
available the next reconcile deletes Pod 2 as well.

*Status.*  `DoneMeansUpdated` speaks of the Pods at or above the partition of the
App on the server.  One replica, the template changed from A to B, to A and to B
again, then the partition raised from 0 to 1: a Pod cache that still shows the
deleted Pod at B gets the rollout reported as complete; then the cache shows it gone,
and a reconcile that reads the App with the new spec but the status of before
creates the Pod, now below the partition, at the current revision of that status,
A.  And the property needs that no Pod is lost: with one replica, three changes of the
template and one lost Pod, the cache still shows the lost Pod at B when a status
reports B as done, and the Pod that a reconcile created meanwhile is at A.  The run
`Edits` has two changes and loses no Pod.

*In-place update.*  The image is written up to two seconds before the grace period is
over: the time left is counted in whole seconds (`inplace_update.go:123`) from a date
that is cut to whole seconds itself, other than `inplace/types.go:7` says.  What holds
is `GraceNearlyKept`: all but the last second.

A decision is taken on the Pod of the reconcile's list and written to the Pod of a
second look into the lister (`inplace_update.go:75`), and the label that goes with
the image is the update revision of the *stored* status (`inplace_update.go:144`).  A
write is `astray` when it is a condition, an annotation or an image on a Pod that is
not the one the reconcile decided on, an image with the label of another revision or
in the second the old container started, or the clean-up of a Pod whose new container
does not run.  `GraceNearlyKept` and `BackOnTheNewImage` leave out behaviours with such
a write; `UpdateCompletes` covers them, and shows that they are made up for but in two
cases, which the code never gets out of (`OutForGood`):

* The condition is set to False on a Pod that was re-created at the template's
  revision meanwhile.  It has no annotation, and no reconcile looks at the condition
  without one.
* The image is written with the label of the revision before.  The Pod then looks out
  of date, and the image, which it has, is written once more with the new label.  The
  kubelet has no reason to restart the container, whose start is before the date of
  the annotation, so the update never counts as done.

Without `astray` `GraceNearlyKept` is false when the template is changed hastily: a
stale image write on a Pod that was cleaned up leaves the annotation without the
condition, the next update finds the old annotation, and writes its image at once.
An image written in the second in which the old container started is taken for
running (`inplace_update.go:212`; the comparison of IDs before it never succeeds,
since a ContainerID is stored and an ImageID compared).

In the run the template changes only when the last change is through (`Hasty` is
FALSE), which `UpdateCompletes` needs: a template rolled back between the condition
and the annotation leaves the Pod out of service for good, and one rolled back after
the image was written, before the container was restarted, is never completed.  The
two others are proved, and were model-checked, with hasty changes too.

Any error, a conflict included, makes the controller re-create the Pod.  A stored
duration is popped twice, so the requeue at its end becomes an immediate one, and the
reconcile repeats until the time has come.  A Pod that never had an in-place update
is never Ready, for the condition of its readiness gate is not set; "in service"
(`InService`) is therefore asked of the Pods that have the condition.  A lost label on
a Pod whose claim is being deleted is an error in every reconcile; the ordinal label is
never compared; the claim test of `UpdateStatefulPod` is inverted
(`pod_controller.go:69`).

*History.*  On stale caches `truncateHistory` deletes a revision that a Pod created
a moment ago, or the status another reconcile wrote, uses: `InUseNotDeleted`
therefore asks what the reconcile saw.  The number of a new revision may tie
with another's.  The limit is an upper bound only: with a cached history that shows an
older number, or a revision that is gone, fewer old revisions than the limit may
remain, and not always the newest on the server.  A status that is written for
another field's sake can put back an older current revision, since it takes all
fields from what the reconcile read.

*Gang plugin.*  No code stores a date in `firstGangPodPermittedAt`, so `CleanUp`
never finds an expired gang, and a gang once rejected is rejected until the
scheduler restarts.  `permittedGangPods` is never pruned: a member that is long
gone still counts, also under the name of its successor.  After a restart the
members that wait are not looked at again until the next one comes.  A Pod with
the gang's name and no count label rejects the gang when it fails, though it never
counted for it.  `Less` is no strict weak order between two gangs and a Pod without
one.  The age of a gang is kept when the gang is recreated.

*Reserve plugin.*  A conflict is retried with the data computed before, so what a
user added meanwhile is lost: `WritesRemoveOnlyTheirOwn` asks that the writer's copy
had the users' last edit.  Over the other writer's write it takes nothing away that
is not released, but `Reserve` and `cleanExpired` bring back what the other took
away, for a while.  A malformed entry ends the loading half-way, and the next write
removes what was not loaded.  `Unreserve` does not put the reservation back, and
`Reserve` succeeds when the write failed.  Before the handler has run, a scheduler
that has just started filters against an empty map.

*Daemon.*  An image that is to be pulled every 24 hours is filtered out by
`CheckAndPull` once it is on the node; the loop takes it for pulled and puts it off
by another day (`imagelist_types.go:36`).  An error of the image list in the event
loop loses the list until the next event, and a pull that is under way when the
ImageList is deleted leaves an entry behind in one of the maps, which the loops
then keep pulling.

## 6. Not modelled

* Generated code, stubs (deployer reconciler, control plane, `doImagePreLoad`),
  manifests, flag parsing: no program logic of their own.
* Adoption and release of Pods (`getAppPods`) is done by a library of Kubernetes,
  which decides by labels and owner references; every Pod belongs to the App here.
* The strategy OnDelete leaves `applyUpdate` before the rolling update and has no
  behaviour of its own.  Hash collisions of revision names are handled by the
  history library.
* Names, volumes, conditions of the App and JSON patches are data no property
  tells apart; parse errors of labels and selectors end in an early return.
* That `updateCM` assigns its data to the cached ConfigMap before the write.
* The composition of the modules: the plugins and the daemon share no state with
  the App controller but Pods, which the models of the two take from the
  environment; the history and the in-place update are composed with outlines of
  `applyUpdate`, since with all of it the instances are out of TLC's reach.

Left to prove: `DoneMeansUpdated` under scaling, which takes an invariant on the Pods
that are culled; and what remains of `AtMostOneDown` and of the refinement when the
template changes again, for instance that a change made after the Pod cache has caught
up with all calls starts a rollout that is safe again.
