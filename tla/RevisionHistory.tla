-------------------------- MODULE RevisionHistory --------------------------
(***************************************************************************)
(* The history of an App: the ControllerRevisions that record its          *)
(* templates.  A reconcile lists them from an informer cache, creates the  *)
(* one of the current template or renumbers it after a rollback, and at    *)
(* the end deletes the oldest ones that are not in use beyond              *)
(* revisionHistoryLimit.  The name of a revision is a hash of its          *)
(* template, so revisions are identified with templates (two templates     *)
(* with one hash are left out).                                            *)
(*                                                                         *)
(* What is done to Pods is reduced to what matters here: the reconcile may *)
(* create a Pod that its cache does not show, from the current or the      *)
(* update revision, or delete one of another revision (see AppController). *)
(***************************************************************************)
EXTENDS Naturals, FiniteSets, FiniteSetsExt

CONSTANTS
    Templates,
    NoRev,
    FirstTemplate,
    Pods,        \* names of the App's Pods
    Limits,      \* what spec.revisionHistoryLimit may be (10 when it is not set)
    MaxEdits,    \* bound: changes of the template
    MaxFaults,   \* bound: failed calls and restarts
    MaxOthers    \* bound: reconciles for which another field of the status changed

ASSUME HistoryAssumption ==
    /\ FirstTemplate \in Templates /\ NoRev \notin Templates
    /\ {MaxEdits, MaxFaults, MaxOthers} \subseteq Nat
    /\ Limits \subseteq Nat
    /\ IsFiniteSet(Pods)

VARIABLES
    hist,     \* the number of each revision on the server, 0 when there is none
    orphans,  \* revisions without controller
    lister,   \* hist in the informer cache
    strays,   \* orphans in the informer cache
    behind,   \* revisions whose cached copy is not the server's version
    app,      \* template, limit and status.currentRevision
    appCache,
    appFresh,
    pods,     \* the revision of each Pod, NoRev when there is none
    podCache,
    rec,      \* the reconcile in progress
    dirty,
    budget

server == <<hist, orphans>>
informer == <<lister, strays, behind>>
apps == <<app, appCache, appFresh>>
vars == <<server, informer, apps, pods, podCache, rec, dirty, budget>>

\* The revision of the first template may be number 2; each change of the template
\* adds at most 1.
MaxNumber == MaxEdits + 2

App == [tmpl : Templates, cur : Templates \cup {NoRev}, limit : Limits]

\* list, pods: the revisions and the Pods listed.  cur: the current revision.
\* doomed: what truncateHistory is still to delete.
Reconcile ==
    [pc : {"idle", "adopt", "issue", "apply", "status", "truncate"},
     list : [Templates -> 0 .. MaxNumber], adopt : SUBSET Templates,
     tmpl : Templates, seen : Templates \cup {NoRev},
     cur : Templates \cup {NoRev}, pods : [Pods -> Templates \cup {NoRev}],
     doomed : SUBSET Templates, err : BOOLEAN]

NoList == [t \in Templates |-> 0]
NoPods == [p \in Pods |-> NoRev]

Idle == [pc |-> "idle", list |-> NoList, adopt |-> {}, tmpl |-> FirstTemplate,
         seen |-> NoRev, cur |-> NoRev, pods |-> NoPods, doomed |-> {}, err |-> FALSE]

\* Types; past its lookup the reconcile has a current revision, whatever the
\* cached history shows (UpdateApp falls back to the update revision).
TypeOK ==
    /\ hist \in [Templates -> 0 .. MaxNumber] /\ lister \in [Templates -> 0 .. MaxNumber]
    /\ {orphans, strays, behind} \subseteq SUBSET Templates
    /\ {app, appCache} \subseteq App
    /\ {pods, podCache} \subseteq [Pods -> Templates \cup {NoRev}]
    /\ rec \in Reconcile
    /\ rec.pc \in {"apply", "status", "truncate"} => rec.cur # NoRev
    /\ {appFresh, dirty} \subseteq BOOLEAN

Listed(list) == {t \in Templates : list[t] # 0}

\* A new App, or one created over the revisions an App of that name left
\* behind when it was deleted without its dependents.
Init ==
    /\ \E t \in Templates :
          hist \in {NoList, [NoList EXCEPT ![t] = 1]}
    /\ orphans = Listed(hist)
    /\ lister = hist /\ strays = orphans /\ behind = {}
    /\ app \in [tmpl : {FirstTemplate}, cur : {NoRev}, limit : Limits]
    /\ appCache = app /\ appFresh = TRUE
    /\ pods = NoPods /\ podCache = pods
    /\ rec = Idle
    /\ dirty = TRUE
    /\ budget = [edits |-> MaxEdits, faults |-> MaxFaults, others |-> MaxOthers]

Spend(b) == budget[b] > 0 /\ budget' = [budget EXCEPT ![b] = @ - 1]

-----------------------------------------------------------------------------
(***************************************************************************)
(* The reconcile                                                           *)
(***************************************************************************)
Return(err) == rec' = Idle /\ dirty' = (dirty \/ err)

\* adoptOrphanRevisions looks at the cached list.
Begin ==
    /\ dirty /\ rec.pc = "idle"
    /\ rec' = [Idle EXCEPT !.pc = "adopt", !.adopt = strays,
                           !.tmpl = appCache.tmpl, !.seen = appCache.cur]
    /\ dirty' = FALSE
    /\ UNCHANGED <<server, informer, apps, pods, podCache, budget>>

\* The App exists and has the UID the cache shows: each orphan is patched.
\* The first error ends the reconcile; a revision that is gone is one.
AdoptOrphanRevisions ==
    /\ rec.pc = "adopt"
    /\ \E t \in rec.adopt :
          \/ /\ hist[t] # 0
             /\ orphans' = orphans \ {t}
             /\ behind' = behind \cup {t}
             /\ rec' = [rec EXCEPT !.adopt = @ \ {t}]
             /\ UNCHANGED <<dirty, budget>>
          \/ /\ IF hist[t] = 0 THEN UNCHANGED budget ELSE Spend("faults")
             /\ Return(TRUE)
             /\ UNCHANGED <<orphans, behind>>
    /\ UNCHANGED <<hist, lister, strays, apps, pods, podCache>>

\* The Pods are listed, and the revisions once more.
ListControllerRevisions ==
    /\ rec.pc = "adopt" /\ rec.adopt = {}
    /\ rec' = [rec EXCEPT !.pc = "issue", !.list = lister, !.pods = podCache]
    /\ UNCHANGED <<server, informer, apps, pods, podCache, dirty, budget>>

nextRevisionId(list) == 1 + Max({list[t] : t \in Templates})

\* The last one in the order of SortControllerRevisions; equal numbers are
\* ordered by time of creation and name, here in any way.
MayBeNewest(t, list) == \A u \in Templates : list[u] <= list[t]
MustBeNewest(t, list) == \A u \in Templates \ {t} : list[u] < list[t]

\* Mutated form: no fallback when the list does not have the revision.
currentRevisionListed(r) == IF r.seen \in Listed(r.list) THEN r.seen ELSE NoRev

currentRevision(r) == IF r.seen \in Listed(r.list) THEN r.seen ELSE r.tmpl

Applying(r) == [r EXCEPT !.pc = "apply", !.cur = currentRevision(r)]

RevisionKept ==
    /\ rec.pc = "issue"
    /\ rec.tmpl \in Listed(rec.list)
    /\ MayBeNewest(rec.tmpl, rec.list)
    /\ rec' = Applying(rec)
    /\ UNCHANGED <<server, informer, apps, pods, podCache, dirty, budget>>

\* Rolling back to a revision in the history: it gets the next number.  A
\* conflict is retried with the lister's copy; a revision that is gone, or a
\* cache that does not catch up, is an error.
UpdateControllerRevision ==
    /\ rec.pc = "issue"
    /\ rec.tmpl \in Listed(rec.list)
    /\ ~MustBeNewest(rec.tmpl, rec.list)
    /\ \/ /\ rec.tmpl \notin behind
          /\ hist' = [hist EXCEPT ![rec.tmpl] = nextRevisionId(rec.list)]
          /\ behind' = behind \cup {rec.tmpl}
          /\ rec' = Applying(rec)
          /\ UNCHANGED <<dirty, budget>>
       \/ /\ rec.tmpl \in behind
          /\ Return(TRUE)
          /\ UNCHANGED <<hist, behind, budget>>
       \/ /\ Spend("faults")
          /\ Return(TRUE)
          /\ UNCHANGED <<hist, behind>>
    /\ UNCHANGED <<orphans, lister, strays, apps, pods, podCache>>

\* A revision of that name and content may exist although the cache does not
\* show it: it is used as it is.
CreateControllerRevision ==
    /\ rec.pc = "issue"
    /\ rec.tmpl \notin Listed(rec.list)
    /\ \/ /\ IF hist[rec.tmpl] # 0
             THEN UNCHANGED <<hist, behind>>
             ELSE /\ hist' = [hist EXCEPT ![rec.tmpl] = nextRevisionId(rec.list)]
                  /\ behind' = behind \cup {rec.tmpl}
          /\ rec' = Applying(rec)
          /\ UNCHANGED <<dirty, budget>>
       \/ /\ Spend("faults")
          /\ Return(TRUE)
          /\ UNCHANGED <<hist, behind>>
    /\ UNCHANGED <<orphans, lister, strays, apps, pods, podCache>>

\* applyUpdate, as far as it goes: a Pod that was not listed is created, which
\* is an error when there is one, a listed one of another revision is deleted,
\* whatever it has become, a call fails, or nothing is done (a missing default of
\* the strategy was written, the App is paused, a Pod is not ready).
ApplyUpdate ==
    /\ rec.pc = "apply"
    /\ \/ \E p \in Pods, r \in {rec.cur, rec.tmpl} :
             /\ rec.pods[p] = NoRev
             /\ pods' = IF pods[p] = NoRev THEN [pods EXCEPT ![p] = r] ELSE pods
             /\ rec' = [rec EXCEPT !.pc = "status", !.err = pods[p] # NoRev]
             /\ UNCHANGED budget
       \/ \E p \in Pods :
             /\ rec.pods[p] \notin {NoRev, rec.tmpl}
             /\ pods' = [pods EXCEPT ![p] = NoRev]
             /\ rec' = [rec EXCEPT !.pc = "status"]
             /\ UNCHANGED budget
       \/ /\ Spend("faults")
          /\ rec' = [rec EXCEPT !.pc = "status", !.err = TRUE]
          /\ UNCHANGED pods
       \/ /\ rec' = [rec EXCEPT !.pc = "status"]
          /\ UNCHANGED <<pods, budget>>
    /\ UNCHANGED <<server, informer, apps, podCache, dirty>>

\* completeRollingUpdate sets the current revision when every Pod is updated.
\* It cannot while one of the Pods listed has another revision.
used(r) == {r.pods[p] : p \in Pods} \ {NoRev}
reportedCurrent(r) == {r.cur} \cup (IF used(r) \subseteq {r.tmpl} THEN {r.tmpl} ELSE {})

\* Mutated form: the revisions of the Pods are not kept.
liveWithoutPods(r) == {r.cur, r.tmpl}

live(r) == {r.cur, r.tmpl} \cup used(r)

\* How many are beyond the limit.
Beyond(n) == IF n > appCache.limit THEN n - appCache.limit ELSE 0

\* Mutated forms: one revision more than the limit stays; the newest are deleted.
tooManyByOne(history, list) ==
    {S \in SUBSET history :
        /\ Cardinality(S) = Beyond(Cardinality(history) - (IF history = {} THEN 0 ELSE 1))
        /\ \A t \in S, u \in history \ S : list[t] <= list[u]}
newestFirst(history, list) ==
    {S \in SUBSET history :
        /\ Cardinality(S) = Beyond(Cardinality(history))
        /\ \A t \in S, u \in history \ S : list[u] <= list[t]}

\* All but the newest, as many as the limit says; equal numbers are ordered in any way.
tooMany(history, list) ==
    {S \in SUBSET history :
        /\ Cardinality(S) = Beyond(Cardinality(history))
        /\ \A t \in S, u \in history \ S : list[t] <= list[u]}

toDelete(r) == tooMany(Listed(r.list) \ live(r), r.list)

\* The whole status is written when any field of it differs from the one seen, so
\* that a current revision which is no longer the server's can be put back.
OtherFieldDiffers(cur) == IF cur = rec.seen THEN Spend("others") ELSE UNCHANGED budget

\* A write of the status fails when the cached App is stale (RetryOnConflict
\* only re-reads the cache) or the server refuses; the history is truncated
\* all the same and the error returned at the end.
UpdateAppStatus ==
    /\ rec.pc = "status"
    /\ \E cur \in reportedCurrent(rec), doomed \in toDelete(rec), err \in BOOLEAN :
          /\ rec' = [rec EXCEPT !.pc = "truncate", !.doomed = doomed, !.err = @ \/ err]
          /\ \/ /\ cur = rec.seen /\ ~err
                /\ UNCHANGED <<app, appFresh, budget>>
             \/ /\ appFresh /\ ~err /\ OtherFieldDiffers(cur)
                /\ app' = [app EXCEPT !.cur = cur]
                /\ appFresh' = FALSE
             \/ /\ err
                /\ (~appFresh /\ OtherFieldDiffers(cur)) \/ Spend("faults")
                /\ UNCHANGED <<app, appFresh>>
    /\ UNCHANGED <<server, informer, appCache, pods, podCache, dirty>>

Oldest(list, doomed) == {t \in doomed : \A u \in doomed : list[t] <= list[u]}

\* truncateHistory deletes the oldest first and stops at the first error; a
\* revision that is already gone is one.
DeleteControllerRevision ==
    /\ rec.pc = "truncate"
    /\ \E t \in Oldest(rec.list, rec.doomed) :
          \/ /\ hist[t] # 0
             /\ hist' = [hist EXCEPT ![t] = 0]
             /\ orphans' = orphans \ {t}
             /\ behind' = behind \cup {t}
             /\ rec' = [rec EXCEPT !.doomed = @ \ {t}]
             /\ UNCHANGED <<dirty, budget>>
          \/ /\ hist[t] = 0
             /\ Return(TRUE)
             /\ UNCHANGED <<server, behind, budget>>
          \/ /\ Spend("faults")
             /\ Return(TRUE)
             /\ UNCHANGED <<server, behind>>
    /\ UNCHANGED <<lister, strays, apps, pods, podCache>>

End ==
    /\ rec.pc = "truncate" /\ rec.doomed = {}
    /\ Return(rec.err)
    /\ UNCHANGED <<server, informer, apps, pods, podCache, budget>>

Controller ==
    \/ Begin \/ AdoptOrphanRevisions \/ ListControllerRevisions
    \/ RevisionKept \/ UpdateControllerRevision \/ CreateControllerRevision
    \/ ApplyUpdate \/ UpdateAppStatus \/ DeleteControllerRevision \/ End

-----------------------------------------------------------------------------
(***************************************************************************)
(* Around the controller                                                   *)
(***************************************************************************)
EditTemplate(t) ==
    /\ t # app.tmpl /\ Spend("edits")
    /\ app' = [app EXCEPT !.tmpl = t] /\ appFresh' = FALSE
    /\ UNCHANGED <<server, informer, appCache, pods, podCache, rec, dirty>>

\* Every watch is behind by its own; nothing reconciles when a revision
\* changes, for SetupWithManager watches Apps and Pods only.
SyncRevision(t) ==
    /\ t \in behind
    /\ lister' = [lister EXCEPT ![t] = hist[t]]
    /\ strays' = IF t \in orphans THEN strays \cup {t} ELSE strays \ {t}
    /\ behind' = behind \ {t}
    /\ UNCHANGED <<server, apps, pods, podCache, rec, dirty, budget>>

SyncApp ==
    /\ ~appFresh
    /\ appCache' = app /\ appFresh' = TRUE /\ dirty' = TRUE
    /\ UNCHANGED <<server, informer, app, pods, podCache, rec, budget>>

SyncPods ==
    /\ podCache # pods
    /\ podCache' = pods /\ dirty' = TRUE
    /\ UNCHANGED <<server, informer, apps, pods, rec, budget>>

Resync ==
    /\ ~dirty /\ rec.pc = "idle"
    /\ dirty' = TRUE
    /\ UNCHANGED <<server, informer, apps, pods, podCache, rec, budget>>

Crash ==
    /\ Spend("faults")
    /\ lister' = hist /\ strays' = orphans /\ behind' = {}
    /\ appCache' = app /\ appFresh' = TRUE /\ podCache' = pods
    /\ rec' = Idle /\ dirty' = TRUE
    /\ UNCHANGED <<server, app, pods>>

Next ==
    \/ Controller
    \/ (\E t \in Templates : EditTemplate(t) \/ SyncRevision(t))
    \/ SyncApp \/ SyncPods \/ Resync \/ Crash

Spec == Init /\ [][Next]_vars

Fairness ==
    /\ WF_vars(Controller)
    /\ \A t \in Templates : WF_vars(SyncRevision(t))
    /\ WF_vars(SyncApp) /\ WF_vars(SyncPods) /\ WF_vars(Resync)

FairSpec == Spec /\ Fairness

-----------------------------------------------------------------------------
Live == {app.tmpl, app.cur} \cup {pods[p] : p \in Pods}

\* The reconcile in progress has seen the template, the status and the Pods
\* as they are.
SawInUse ==
    /\ rec.tmpl = app.tmpl
    /\ app.cur \in {rec.seen, rec.cur, rec.tmpl}
    /\ {pods[p] : p \in Pods} \subseteq used(rec) \cup {NoRev}

\* truncateHistory deletes no revision that is in use, however far the cached
\* history lags and whatever call fails, if the template, the status and the
\* Pods are as the reconcile saw them ("truncate revisions that are not live").
InUseNotDeleted ==
    [][\A t \in Templates :
          hist[t] # 0 /\ hist'[t] = 0 /\ SawInUse => t \notin Live]_vars

\* An older revision does not outlive a newer one, as the list has them numbered,
\* wherever truncateHistory stops: at an error, or at a revision that was in the
\* cached list but is gone.
OldestGoFirst ==
    [][\A t, u \in Templates :
          /\ hist[t] # 0 /\ hist'[t] = 0
          /\ u \in Listed(rec.list) \ live(rec) /\ rec.list[u] < rec.list[t]
          => hist[u] = 0]_vars

\* When edits and failures stop, UpdateApp and truncateHistory leave a history
\* with the revisions of the template and of the status, the template's with
\* the highest number, no more than the limit besides those in use, and the
\* controller reference on each.  (A Pod whose revision was deleted on stale
\* caches keeps it for as long as the partition holds it.)
HistorySettles ==
    <>[] /\ \A t \in {app.tmpl, app.cur} \ {NoRev} : hist[t] # 0
         /\ \A t \in Templates : hist[t] <= hist[app.tmpl]
         /\ Cardinality(Listed(hist) \ Live) <= app.limit
         /\ orphans = {}
=============================================================================
