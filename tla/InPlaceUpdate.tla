--------------------------- MODULE InPlaceUpdate ---------------------------
(***************************************************************************)
(* The in-place update of a Pod, with the rest of what the controller does *)
(* to that Pod: its claim, its identity, the readiness gate, the grace     *)
(* period, and the store of durations after which to reconcile again.      *)
(*                                                                         *)
(* AppController shows how the Pods of one App are ordered; here the App   *)
(* has one replica (ordered management, partition 0, PodUpdatePolicy       *)
(* InPlaceIfPossible) and its Pod is modelled in detail.  A reconcile      *)
(* decides on the caches once, then makes its calls one by one; the calls  *)
(* of the in-place update read the lister AGAIN before they write.         *)
(*                                                                         *)
(* Time is counted in seconds gone by since an event, up to the largest    *)
(* number the code compares it with; a reconcile fits into one second.     *)
(* Timestamps in annotations and conditions have whole seconds.            *)
(***************************************************************************)
EXTENDS Naturals, Sequences, FiniteSets

CONSTANTS
    Revs,        \* the revisions of the template
    NoRev,
    FirstRev,
    ImageOnly,   \* revisions that differ from each other in the image only
    Grace,       \* inPlaceUpdateStrategy.gracePeriodSeconds
    MinReady,    \* minReadySeconds
    Hasty,       \* is the template changed while an update is going on?
    MaxEdits,    \* bound: edits of the template
    MaxTrouble   \* bound: API calls that fail, restarts of the controller,
                 \* labels, claims and Pods that somebody takes away

ASSUME InPlaceAssumption ==
    /\ FirstRev \in Revs /\ NoRev \notin Revs
    /\ ImageOnly \subseteq Revs
    /\ Hasty \in BOOLEAN
    /\ {Grace, MinReady, MaxEdits, MaxTrouble} \subseteq Nat

VARIABLES
    app,         \* template and status.updateRevision of the App
    appCache,    \* the same in the informer cache
    appFresh,    \* appCache carries the server's resource version
    pod,         \* the Pod on the API server, container status included
    podCache,
    podFresh,
    claim,       \* the PersistentVolumeClaim of the Pod
    claimCache,
    rec,         \* the reconcile in progress
    store,       \* requeue_duration: the duration stored for the App, or 0
    dirty,       \* the App's key is in the workqueue
    offFor,      \* history: seconds since the condition became False
    astray,      \* history: an in-place write that the code may not recover from
                 \* (see Strays, WriteImage and CleanUpInPlaceUpdate)
    budget

cached == <<appCache, appFresh, podCache, claimCache>>
vars == <<app, appCache, appFresh, pod, podCache, podFresh, claim, claimCache,
          rec, store, dirty, offFor, astray, budget>>

App == [tmpl : Revs, upd : Revs \cup {NoRev}]

\* label: the revision the Pod's label names.  img: the revision whose image
\* the spec holds.  run: the one whose image the container runs.  up: the
\* container is ready.  young: it started within this second.  before: it
\* started before the second of the annotation.  ready, since: the Pod's
\* Ready status and for how long.  cond: the condition InPlaceUpdateReady.
\* ann: the in-place status annotation, without or with OldImgIds, and its
\* age.  owned: the label unicore.mcyou.cn/app-name is right.
Pod == [exists : BOOLEAN, del : BOOLEAN, phase : {"Pending", "Running"},
        label : Revs \cup {NoRev}, img : Revs \cup {NoRev},
        run : Revs \cup {NoRev}, up : BOOLEAN, young : BOOLEAN,
        before : BOOLEAN, ready : BOOLEAN, since : 0 .. MinReady,
        cond : {"none", "False", "True"},
        ann : {"none", "grace", "image"}, annAge : 0 .. Grace,
        owned : BOOLEAN]

NoPod == [exists |-> FALSE, del |-> FALSE, phase |-> "Pending",
          label |-> NoRev, img |-> NoRev, run |-> NoRev, up |-> FALSE,
          young |-> FALSE, before |-> FALSE, ready |-> FALSE, since |-> 0,
          cond |-> "none", ann |-> "none", annAge |-> 0, owned |-> FALSE]

Claim == {"none", "bound", "deleting"}

Calls == {"create", "claim", "identity", "off", "annotate", "image",
          "cleanup", "delete"}

\* upd: the update revision of this reconcile.  seen: status.updateRevision
\* in the App it read.  base: the Pod it decided on is still the server's.
Reconcile == [busy : BOOLEAN, todo : Seq(Calls), upd : Revs \cup {NoRev},
              seen : Revs \cup {NoRev}, err : BOOLEAN, base : BOOLEAN]

Idle == [busy |-> FALSE, todo |-> <<>>, upd |-> NoRev, seen |-> NoRev,
         err |-> FALSE, base |-> FALSE]

TypeOK ==
    /\ app \in App /\ appCache \in App /\ appFresh \in BOOLEAN
    /\ pod \in Pod /\ podCache \in Pod /\ podFresh \in BOOLEAN
    /\ claim \in Claim /\ claimCache \in Claim
    /\ rec \in Reconcile
    /\ store \in 0 .. Grace + MinReady + 1
    /\ dirty \in BOOLEAN /\ astray \in BOOLEAN
    /\ offFor \in 0 .. Grace

\* A Pod of the first revision that runs; c is "True" after an in-place update.
RunningPod(c) ==
    [NoPod EXCEPT !.exists = TRUE, !.phase = "Running", !.label = FirstRev,
                  !.img = FirstRev, !.run = FirstRev, !.up = TRUE,
                  !.ready = (c = "True"), !.since = MinReady, !.cond = c,
                  !.owned = TRUE]

\* The App has just been created, or its Pod runs and the status says so.
Init ==
    /\ \/ pod = NoPod /\ claim = "none" /\ app = [tmpl |-> FirstRev, upd |-> NoRev]
       \/ /\ pod \in {RunningPod("none"), RunningPod("True")}
          /\ claim = "bound" /\ app = [tmpl |-> FirstRev, upd |-> FirstRev]
    /\ appCache = app /\ podCache = pod /\ claimCache = claim
    /\ appFresh = TRUE /\ podFresh = TRUE
    /\ rec = Idle
    /\ store = 0
    /\ dirty = TRUE
    /\ offFor = 0
    /\ astray = FALSE
    /\ budget = [edits |-> MaxEdits, trouble |-> MaxTrouble]

Spend(b) == budget[b] > 0 /\ budget' = [budget EXCEPT ![b] = @ - 1]
Trouble == Spend("trouble")

-----------------------------------------------------------------------------
(***************************************************************************)
(* requeue_duration                                                        *)
(***************************************************************************)
\* The shorter duration is kept.
Push(d) == store' = IF store = 0 \/ (d > 0 /\ d < store) THEN d ELSE store

\* Pop returns what is stored and forgets it.
Popped == store

(***************************************************************************)
(* The decision, from the cached Pod p and the template t                  *)
(***************************************************************************)
\* jsonpatch finds nothing but "replace /spec/containers/<n>/image".
PatchIsImages(from, to) == {from, to} \subseteq ImageOnly

isAvailable(p) == p.phase = "Running" /\ p.since >= MinReady

IfConditionFalse(p) == p.cond = "False"

SetPodCondition(p, status) == [p EXCEPT !.cond = status]

\* The name and the namespace of a Pod that was listed for the App are right.
matchAppAndPod(p) == p.owned

updatePodIdentity(p) == [p EXCEPT !.owned = TRUE]

\* The time left is a fraction of a second less than the whole seconds of the
\* two timestamps make it, and int() cuts it off.
secondsLeft(p) == IF p.annAge < Grace THEN Grace - p.annAge - 1 ELSE 0

roundedUp(w) == w + (w % 2)

\* Mutated forms: any ready container will do; the comparison of the start
\* with the timestamp is the wrong way round.
DoneWhenReady(p) == p.ann = "image" => p.up
DoneWhenOlder(p) == p.ann = "image" => p.up /\ p.before

\* OldImgIds holds container IDs and is compared with image IDs, so the first
\* test of the code never succeeds; without OldImgIds there is nothing to wait
\* for.
IsInPlaceUpdateDone(p) == p.ann = "image" => p.up /\ ~p.before

\* Mutated form: the first reconcile of an update does not stop at the
\* condition.
InPlaceCallUngated(p, t) ==
    CASE ~PatchIsImages(p.label, t) -> <<"delete">>
      [] OTHER -> IF Grace = 0 \/ (p.ann # "none" /\ secondsLeft(p) = 0)
                  THEN <<"image">>
                  ELSE IF p.ann = "none" THEN <<"annotate">> ELSE <<>>

InPlaceCall(p, t) ==
    CASE ~PatchIsImages(p.label, t)                         -> <<"delete">>
      [] PatchIsImages(p.label, t) /\ ~IfConditionFalse(p)  -> <<"off">>
      [] OTHER -> IF Grace = 0 \/ (p.ann # "none" /\ secondsLeft(p) = 0)
                  THEN <<"image">>
                  ELSE IF p.ann = "none" THEN <<"annotate">> ELSE <<>>

RollingCall(p, t) ==
    IF p.label # t THEN InPlaceCall(p, t)
    ELSE IF p.ann # "none" /\ IfConditionFalse(p) /\ IsInPlaceUpdateDone(p)
    THEN <<"cleanup">> ELSE <<>>

\* The volumes of a Pod cannot change, so matchAppPVC holds: only the label can
\* be wrong.
IdentityCall(p) == IF matchAppAndPod(p) THEN <<>> ELSE <<"identity">>

applyUpdate(p, t) ==
    CASE ~p.exists                         -> <<"create">>
      [] p.exists /\ p.phase = "Pending"   -> <<"claim">>
      [] p.exists /\ p.phase # "Pending"   ->
           IF p.del \/ ~isAvailable(p) THEN <<>>
           ELSE IdentityCall(p) \o RollingCall(p, t)

\* Mutated form: seconds taken for milliseconds.
waitForInMilliseconds(p, t) == IF isAvailable(p) THEN 0 ELSE 1000 * (MinReady - p.since)

\* The duration this decision stores: until the Pod is available, or until the
\* grace period is over.
waitFor(p, t) ==
    CASE ~p.exists \/ p.phase = "Pending" \/ p.del -> 0
      [] OTHER ->
           IF ~isAvailable(p) THEN MinReady - p.since
           ELSE IF /\ p.label # t /\ PatchIsImages(p.label, t)
                   /\ IfConditionFalse(p) /\ p.ann # "none"
           THEN roundedUp(secondsLeft(p)) ELSE 0

Begin ==
    /\ dirty /\ ~rec.busy
    /\ rec' = [busy |-> TRUE, todo |-> applyUpdate(podCache, appCache.tmpl),
               upd |-> appCache.tmpl, seen |-> appCache.upd, err |-> FALSE,
               base |-> podFresh]
    /\ IF waitFor(podCache, appCache.tmpl) > 0
       THEN Push(waitFor(podCache, appCache.tmpl)) ELSE UNCHANGED store
    /\ dirty' = FALSE
    /\ UNCHANGED <<app, cached, pod, podFresh, claim, offFor, astray, budget>>

(***************************************************************************)
(* The calls                                                               *)
(***************************************************************************)
Calling(c) == rec.busy /\ rec.todo # <<>> /\ Head(rec.todo) = c

Done(r) == [r EXCEPT !.todo = Tail(@)]
Failed(r) == [r EXCEPT !.todo = <<>>, !.err = TRUE]

PodWritten(p) == pod' = p /\ podFresh' = FALSE
PodKept == UNCHANGED <<pod, podFresh, offFor>>

\* createPVC: the lister has the claim, or it is created now.
createPVC ==
    \/ claimCache = "bound" /\ UNCHANGED claim
    \/ claimCache = "none" /\ claim = "none" /\ claim' = "bound"

\* The claim is on its way out, or exists although the lister does not know
\* it, or the call fails.
createPVCFails ==
    /\ UNCHANGED claim
    /\ \/ claimCache = "deleting" /\ UNCHANGED budget
       \/ claimCache = "none" /\ claim # "none" /\ UNCHANGED budget
       \/ claimCache = "none" /\ Trouble

Rest == UNCHANGED <<app, cached, store, dirty, astray>>

CallFails == rec' = Failed(rec) /\ UNCHANGED <<pod, podFresh>>

NewPod == [NoPod EXCEPT !.exists = TRUE, !.label = rec.upd, !.img = rec.upd,
                        !.owned = TRUE]

\* The claim first, then the Pod; a Pod of that name on the server is an error.
\* The readiness gate is injected, the condition it waits for is not set.
CreateStatefulPod ==
    /\ Calling("create")
    /\ \/ /\ createPVC /\ UNCHANGED budget
          /\ ~pod.exists
          /\ PodWritten(NewPod)
          /\ rec' = Done(rec)
       \/ createPVC /\ UNCHANGED budget /\ pod.exists /\ CallFails
       \/ createPVC /\ Trouble /\ CallFails
       \/ createPVCFails /\ CallFails
    /\ UNCHANGED offFor /\ Rest

\* createPVC for a pending Pod.
ClaimForPending ==
    /\ Calling("claim")
    /\ \/ /\ createPVC
          /\ rec' = Done(rec)
          /\ UNCHANGED <<pod, podFresh, budget>>
       \/ createPVCFails /\ CallFails
    /\ UNCHANGED offFor /\ Rest

\* The claim first here too.  After a conflict the Pod is read from the server,
\* so it is the latest one that gets the label.
UpdateStatefulPod ==
    /\ Calling("identity")
    /\ \/ /\ createPVC /\ UNCHANGED budget
          /\ pod.exists
          /\ PodWritten(updatePodIdentity(pod))
          /\ rec' = Done(rec)
       \/ createPVC /\ UNCHANGED budget /\ ~pod.exists /\ CallFails
       \/ createPVC /\ Trouble /\ CallFails
       \/ createPVCFails /\ CallFails
    /\ UNCHANGED offFor /\ Rest

DeleteStatefulPod ==
    /\ Calling("delete")
    /\ \/ /\ IF pod.exists THEN PodWritten([pod EXCEPT !.del = TRUE])
                           ELSE UNCHANGED <<pod, podFresh>>
          /\ rec' = Done(rec)
          /\ UNCHANGED budget
       \/ Trouble /\ CallFails
    /\ UNCHANGED <<claim, offFor>> /\ Rest

\* RetryOnConflict around "read the lister, change, write": it gets through
\* when the lister has caught up, and gives up when it has not in time, when
\* the Pod is gone or when the call fails.
Rewrites(p) == podCache.exists /\ podFresh /\ PodWritten(p) /\ UNCHANGED budget

RewriteFails ==
    /\ UNCHANGED <<pod, podFresh>>
    /\ \/ ~(podCache.exists /\ podFresh) /\ UNCHANGED budget
       \/ Trouble

\* InPlaceUpdatePod: an error of any of its calls means ReCreate.
Fallback(r) == [r EXCEPT !.todo = <<"delete">>]

\* The Pod written is not the one the reconcile decided on.
Strays == astray' = (astray \/ ~rec.base)

SetConditionFalse ==
    /\ Calling("off")
    /\ \/ /\ Rewrites(SetPodCondition(pod, "False"))
          /\ Strays
          /\ offFor' = IF IfConditionFalse(pod) THEN offFor ELSE 0
          /\ rec' = Done(rec)
       \/ RewriteFails /\ rec' = Fallback(rec) /\ UNCHANGED <<offFor, astray>>
    /\ UNCHANGED <<app, cached, claim, store, dirty>>

Annotate ==
    /\ Calling("annotate")
    /\ \/ /\ Rewrites([pod EXCEPT !.ann = "grace", !.annAge = 0])
          /\ Push(roundedUp(Grace))
          /\ Strays
          /\ rec' = Done(rec)
       \/ RewriteFails /\ rec' = Fallback(rec) /\ UNCHANGED <<store, astray>>
    /\ UNCHANGED <<app, cached, claim, dirty, offFor>>

\* The label comes from the status of the App that was read, the image from
\* the update revision.
WriteImage ==
    /\ Calling("image")
    /\ \/ /\ Rewrites([pod EXCEPT !.label = rec.seen, !.img = rec.upd,
                                  !.ann = "image", !.annAge = 0,
                                  !.before = ~pod.young])
          /\ astray' = (astray \/ rec.seen # rec.upd \/ ~rec.base \/ pod.young)
          /\ rec' = Done(rec)
       \/ RewriteFails /\ rec' = Fallback(rec) /\ UNCHANGED astray
    /\ UNCHANGED <<app, cached, claim, store, dirty, offFor>>

CleanUpInPlaceUpdate ==
    /\ Calling("cleanup")
    /\ \/ /\ Rewrites([SetPodCondition(pod, "True") EXCEPT !.ann = "none", !.annAge = 0])
          /\ offFor' = 0
          /\ astray' = (astray \/ (~rec.base /\ ~IsInPlaceUpdateDone(pod)))
          /\ rec' = Done(rec)
       \/ RewriteFails /\ rec' = Failed(rec) /\ UNCHANGED <<offFor, astray>>
    /\ UNCHANGED <<app, cached, claim, store, dirty>>

(***************************************************************************)
(* The end of the reconcile: the status, then Pop.  An error puts the key  *)
(* back; a stored duration does so too, without the duration, since it is  *)
(* popped a second time to be returned.                                    *)
(***************************************************************************)
CallsDone == rec.busy /\ rec.todo = <<>>

Return(r) ==
    /\ dirty' = (dirty \/ r.err \/ Popped > 0)
    /\ store' = 0
    /\ rec' = Idle

StatusKept ==
    /\ CallsDone
    /\ rec.seen = rec.upd
    /\ Return(rec)
    /\ UNCHANGED <<app, cached, pod, podFresh, claim, offFor, astray, budget>>

StatusWritten ==
    /\ CallsDone
    /\ rec.seen # rec.upd
    /\ \/ /\ appFresh
          /\ app' = [app EXCEPT !.upd = rec.upd]
          /\ appFresh' = FALSE
          /\ Return(rec)
          /\ UNCHANGED budget
       \/ /\ ~appFresh
          /\ Return(Failed(rec))
          /\ UNCHANGED <<app, appFresh, budget>>
       \/ /\ Trouble
          /\ Return(Failed(rec))
          /\ UNCHANGED <<app, appFresh>>
    /\ UNCHANGED <<appCache, pod, podCache, podFresh, claim, claimCache, offFor,
                   astray>>

Controller ==
    \/ Begin
    \/ CreateStatefulPod \/ ClaimForPending \/ UpdateStatefulPod
    \/ DeleteStatefulPod
    \/ SetConditionFalse \/ Annotate \/ WriteImage \/ CleanUpInPlaceUpdate
    \/ StatusKept \/ StatusWritten

-----------------------------------------------------------------------------
(***************************************************************************)
(* Informers, workqueue, restarts, time                                    *)
(***************************************************************************)
Outside == UNCHANGED <<app, claim, store, astray>>

SyncApp ==
    /\ ~appFresh
    /\ appCache' = app /\ appFresh' = TRUE /\ dirty' = TRUE
    /\ UNCHANGED <<pod, podCache, podFresh, claimCache, rec, offFor, budget>>
    /\ Outside

SyncPod ==
    /\ ~podFresh
    /\ podCache' = pod /\ podFresh' = TRUE /\ dirty' = TRUE
    /\ UNCHANGED <<pod, appCache, appFresh, claimCache, rec, offFor, budget>>
    /\ Outside

\* Nothing reconciles when a claim changes.
SyncClaim ==
    /\ claimCache # claim
    /\ claimCache' = claim
    /\ UNCHANGED <<pod, podCache, podFresh, appCache, appFresh, dirty, rec, offFor,
                   budget>>
    /\ Outside

Resync ==
    /\ ~dirty /\ ~rec.busy
    /\ dirty' = TRUE
    /\ UNCHANGED <<pod, podFresh, cached, rec, offFor, budget>>
    /\ Outside

Crash ==
    /\ Trouble
    /\ appCache' = app /\ appFresh' = TRUE
    /\ podCache' = pod /\ podFresh' = TRUE
    /\ claimCache' = claim
    /\ rec' = Idle /\ store' = 0 /\ dirty' = TRUE
    /\ UNCHANGED <<app, pod, claim, offFor, astray>>

Older(age, most) == IF age < most THEN age + 1 ELSE age

Aged(p) ==
    IF p.exists
    THEN [p EXCEPT !.young = FALSE,
                   !.since = IF p.phase = "Running" THEN Older(@, MinReady) ELSE 0,
                   !.annAge = IF p.ann = "none" THEN 0 ELSE Older(@, Grace)]
    ELSE p

Tick ==
    /\ ~rec.busy
    /\ pod' = Aged(pod) /\ podCache' = Aged(podCache)
    /\ offFor' = IF pod.cond = "False" THEN Older(offFor, Grace) ELSE 0
    /\ <<pod, podCache, offFor>>' # <<pod, podCache, offFor>>
    /\ UNCHANGED <<podFresh, appCache, appFresh, claimCache, rec, dirty, budget>>
    /\ Outside

(***************************************************************************)
(* Kubelet and claim controller                                            *)
(***************************************************************************)
PodChanges(p) ==
    /\ PodWritten(p)
    /\ rec' = [rec EXCEPT !.base = FALSE]
    /\ offFor' = IF p.exists THEN offFor ELSE 0
    /\ UNCHANGED <<cached, dirty>>

ByOthers(p) ==
    /\ PodChanges(p)
    /\ UNCHANGED <<app, claim, store, astray>>

Started(p) == [p EXCEPT !.up = TRUE, !.run = pod.img, !.young = TRUE,
                        !.before = FALSE]

PodRuns ==
    /\ pod.exists /\ pod.phase = "Pending" /\ ~pod.del /\ claim = "bound"
    /\ ByOthers([Started(pod) EXCEPT !.phase = "Running"])
    /\ UNCHANGED budget

\* A changed image makes the kubelet stop the container and start a new one.
ContainerStops ==
    /\ pod.up /\ pod.run # pod.img
    /\ ByOthers([pod EXCEPT !.up = FALSE])
    /\ UNCHANGED budget

ContainerStarts ==
    /\ pod.phase = "Running" /\ ~pod.up
    /\ ByOthers(Started(pod))
    /\ UNCHANGED budget

Serving(p) == p.up /\ p.cond = "True"

\* The Ready condition follows the containers and the readiness gate.
ReadyReported ==
    /\ pod.phase = "Running" /\ pod.ready # Serving(pod)
    /\ ByOthers([pod EXCEPT !.ready = ~@, !.since = 0])
    /\ UNCHANGED budget

PodGone ==
    /\ pod.del
    /\ ByOthers(NoPod)
    /\ UNCHANGED budget

\* A claim that is being deleted stays until no Pod uses it.
ClaimGone ==
    /\ claim = "deleting" /\ pod.phase = "Pending"
    /\ claim' = "none"
    /\ PodKept
    /\ UNCHANGED <<app, cached, rec, store, dirty, astray, budget>>

Kubelet == PodRuns \/ ContainerStops \/ ContainerStarts \/ ReadyReported \/ PodGone

(***************************************************************************)
(* Users                                                                   *)
(***************************************************************************)
\* The desired state.
Settled ==
    /\ pod.exists /\ ~pod.del /\ pod.up /\ pod.owned
    /\ pod.label = app.tmpl /\ pod.img = app.tmpl /\ pod.run = app.tmpl
    /\ pod.ann = "none" /\ pod.cond # "False"
    /\ app.upd = app.tmpl

EditTemplate(t) ==
    /\ Hasty \/ Settled
    /\ t # app.tmpl /\ Spend("edits")
    /\ app' = [app EXCEPT !.tmpl = t] /\ appFresh' = FALSE
    /\ UNCHANGED <<appCache, pod, podCache, podFresh, claim, claimCache, rec, store,
                   dirty, offFor, astray>>

EditLabels ==
    /\ pod.owned /\ Trouble
    /\ ByOthers([pod EXCEPT !.owned = FALSE])

EvictPod ==
    /\ pod.exists /\ ~pod.del /\ Trouble
    /\ ByOthers([pod EXCEPT !.del = TRUE])

DeleteClaim ==
    /\ claim = "bound" /\ Trouble
    /\ claim' = IF pod.phase = "Running" THEN "deleting" ELSE "none"
    /\ PodKept
    /\ UNCHANGED <<app, cached, rec, store, dirty, astray>>

Environment ==
    \/ SyncApp \/ SyncPod \/ SyncClaim \/ Resync \/ Crash \/ Tick
    \/ Kubelet \/ ClaimGone
    \/ (\E t \in Revs : EditTemplate(t)) \/ EditLabels \/ EvictPod \/ DeleteClaim

Next == Controller \/ Environment

Spec == Init /\ [][Next]_vars

\* The worker goes on, the watches deliver, the resync comes, time passes, and
\* the kubelet does its part.
Fairness ==
    /\ WF_vars(Controller)
    /\ WF_vars(SyncApp) /\ WF_vars(SyncPod) /\ WF_vars(SyncClaim)
    /\ WF_vars(Resync) /\ SF_vars(Tick)
    /\ WF_vars(Kubelet) /\ WF_vars(ClaimGone)

FairSpec == Spec /\ Fairness

-----------------------------------------------------------------------------
ImageChanges == pod.exists /\ pod'.exists /\ pod'.img # pod.img

\* The image of a Pod changes only after its InPlaceUpdateReady condition has
\* been False for the grace period (inplace.Strategy) but its last second, which
\* int() and the whole seconds of the annotation cut off; unless the Pod has
\* changed since the reconcile read it (this one, or one whose write went
\* astray).
GraceNearlyKept ==
    [][ImageChanges /\ rec.base /\ ~astray
           => pod.cond = "False" /\ offFor + 1 >= Grace]_vars

\* A Pod goes back into service on the container that runs its image, however
\* the restart of the container, the kubelet's reports and the cache lag, with
\* the same exception.
BackOnTheNewImage ==
    [][pod.cond = "False" /\ pod'.cond = "True" /\ rec.base /\ ~astray
           => pod.up /\ pod.run = pod.img]_vars

\* After an in-place update the kubelet reports the Pod Ready again.  (A Pod
\* that is created has no condition, and its readiness gate keeps it from being
\* Ready for ever: see README.md.)
InService == pod.cond = "True" => pod.ready

\* Out of service at the template's revision, in a state no code leads out of:
\* the condition without the annotation, or an annotation that asks for a
\* restart of the container that runs the image already.
OutForGood ==
    /\ pod.exists /\ pod.label = app.tmpl /\ pod.cond = "False"
    /\ \/ pod.ann = "none"
       \/ pod.ann = "image" /\ pod.up /\ pod.run = pod.img /\ pod.before

\* When edits and failures stop, the Pod runs the template's image, carries its
\* identity, is held back by no update and after an update in place is Ready.
\* A write that went astray is made up for, unless it has left the Pod
\* OutForGood.  (The template is changed only when the last change is through;
\* README.md tells how the code fails otherwise.)
UpdateCompletes == <>[]((Settled /\ InService) \/ (astray /\ OutForGood))
=============================================================================
