---------------------------- MODULE ImageDaemon ----------------------------
(***************************************************************************)
(* The daemon that pulls images to a node ahead of time.  One goroutine    *)
(* handles the events of the node's ImageList; two loops take a snapshot   *)
(* of the retry map, every 30 seconds, or of the always-pull map, every 5  *)
(* minutes, and hand it to a new goroutine.  All of them go through        *)
(* CheckAndPull: list what is on the node, pull the rest in parallel.      *)
(*                                                                         *)
(* Nobody removes images from the node.  Pulls may fail, so may the list.  *)
(***************************************************************************)
EXTENDS Naturals, Sequences

CONSTANTS
    Images,       \* image names
    Qualified,    \* those written the way containerd stores them
    Main,         \* the goroutine of Start
    Jobs,         \* bound: goroutines started by the loops at the same time
    InitImages,   \* the images of the first ImageList,
    InitAlways,   \* and those of them with alwaysPull
    ListErrors,   \* the kinds of work for which listing images may fail
    MaxEdits,     \* bound: changes of the ImageList
    MaxFail,      \* bound: pulls and lists that fail, restarts of the daemon
    MaxDays       \* bound: 24-hour periods that end, over all images

ASSUME DaemonAssumption ==
    /\ Qualified \subseteq Images
    /\ Main \notin Jobs
    /\ InitAlways \subseteq InitImages
    /\ InitImages \subseteq Images
    /\ ListErrors \subseteq {"start", "event", "retry", "always"}
    /\ {MaxEdits, MaxFail, MaxDays} \subseteq Nat

VARIABLES
    want,       \* the ImageList on the API server
    events,     \* watch events the daemon has not handled yet
    list,       \* the ImageList of the event handled last
    present,    \* the node's images
    nextPull,   \* AlwaysPullImages
    retry,      \* RetryImages
    work,       \* what each goroutine is doing
    budget      \* what is left of the bounds

vars == <<want, events, list, present, nextPull, retry, work, budget>>

Workers == Jobs \cup {Main}

\* An ImageList: whether it exists, its images, those with alwaysPull.
ImageList ==
    {l \in [there : BOOLEAN, imgs : SUBSET Images, always : SUBSET Images] :
        /\ l.always \subseteq l.imgs
        /\ ~l.there => l.imgs = {}}

\* A goroutine: the images it was given (todo), those it still has to deal
\* with in its present position (left), and those whose pull failed.
Work == [kind : {"none", "start", "event", "retry", "always"},
         pc : {"idle", "mark", "clear", "clearRetry", "list", "pull", "store"},
         todo : SUBSET Images, left : SUBSET Images, failed : SUBSET Images]

Rest == [kind |-> "none", pc |-> "idle", todo |-> {}, left |-> {}, failed |-> {}]

TypeOK ==
    /\ want \in ImageList /\ list \in ImageList
    /\ events \in Seq(ImageList)
    /\ present \in [Images -> {"absent", "there"}]
    /\ nextPull \in [Images -> {"none", "due", "later"}]
    /\ retry \subseteq Images
    /\ work \in [Workers -> Work]
    /\ budget \in [edits : Nat, fail : Nat, days : Nat]

Spend(b) == budget[b] > 0 /\ budget' = [budget EXCEPT ![b] = @ - 1]

\* PullImages first notes the images to be pulled always.
PullImages(kind, l) == [kind |-> kind, pc |-> "mark", todo |-> l.imgs,
                        left |-> l.always, failed |-> {}]

\* Start lists the ImageList and, if there is one, handles it like an event;
\* only then it starts the loops.
Started(l) ==
    [w \in Workers |->
        IF w = Main /\ l.there THEN PullImages("start", l) ELSE Rest]

LoopsRun == work[Main].kind # "start"

Init ==
    /\ want = [there |-> TRUE, imgs |-> InitImages, always |-> InitAlways]
    /\ list = want
    /\ events = <<>>
    /\ present = [i \in Images |-> "absent"]
    /\ nextPull = [i \in Images |-> "none"]
    /\ retry = {}
    /\ work = Started(want)
    /\ budget = [edits |-> MaxEdits, fail |-> MaxFail, days |-> MaxDays]

Step(w, f) == work' = [work EXCEPT ![w] = f]

-----------------------------------------------------------------------------
(***************************************************************************)
(* The event loop                                                          *)
(***************************************************************************)
\* The lock of AlwaysPullImages is held while a goroutine stores its results.
AlwaysLocked == \E j \in Jobs : work[j].pc = "store"

Receive ==
    /\ work[Main].pc = "idle"
    /\ events # <<>>
    /\ list' = Head(events)
    /\ events' = Tail(events)
    /\ Step(Main, IF Head(events).there
                  THEN PullImages("event", Head(events))
                  ELSE [Rest EXCEPT !.kind = "event", !.pc = "clear"])
    /\ UNCHANGED <<want, present, nextPull, retry, budget>>

MarkAlways(i) ==
    /\ work[Main].pc = "mark"
    /\ i \in work[Main].left
    /\ ~AlwaysLocked
    /\ \E t \in {"due", "later"} : nextPull' = [nextPull EXCEPT ![i] = t]
    /\ Step(Main, [work[Main] EXCEPT !.left = @ \ {i}])
    /\ UNCHANGED <<want, events, list, present, retry, budget>>

ForgetAlways ==
    /\ work[Main].pc = "clear"
    /\ ~AlwaysLocked
    /\ nextPull' = [i \in Images |-> "none"]
    /\ Step(Main, [work[Main] EXCEPT !.pc = "clearRetry"])
    /\ UNCHANGED <<want, events, list, present, retry, budget>>

ForgetRetry ==
    /\ work[Main].pc = "clearRetry"
    /\ retry' = {}
    /\ Step(Main, Rest)
    /\ UNCHANGED <<want, events, list, present, nextPull, budget>>

\* What CheckAndPull reported as failed is put into the retry map.
RetryLater ==
    /\ work[Main].pc = "pull"
    /\ work[Main].left = {}
    /\ retry' = retry \cup work[Main].failed
    /\ Step(Main, Rest)
    /\ UNCHANGED <<want, events, list, present, nextPull, budget>>

(***************************************************************************)
(* CheckAndPull, for whoever calls it                                      *)
(***************************************************************************)
CallsCheckAndPull(w) ==
    \/ work[w].pc = "list"
    \/ work[w].pc = "mark" /\ work[w].left = {}

\* Mutated form: the test is inverted.
filterMissingImagesInverted(targets) == {i \in targets : present[i] # "absent"}

filterMissingImages(targets) ==
    {i \in targets : ~(i \in Qualified /\ present[i] # "absent")}

getExistingImages(w) ==
    /\ CallsCheckAndPull(w)
    /\ Step(w, [work[w] EXCEPT !.pc = "pull",
                               !.left = filterMissingImages(work[w].todo)])
    /\ UNCHANGED <<want, events, list, present, nextPull, retry, budget>>

\* The caller logs the error and does nothing else.
getExistingImagesFails(w) ==
    /\ CallsCheckAndPull(w)
    /\ work[w].kind \in ListErrors
    /\ Spend("fail")
    /\ Step(w, Rest)
    /\ UNCHANGED <<want, events, list, present, nextPull, retry>>

pullSingleImage(w, i) ==
    /\ work[w].pc = "pull"
    /\ i \in work[w].left
    /\ \/ /\ present' = [present EXCEPT ![i] = "there"]
          /\ Step(w, [work[w] EXCEPT !.left = @ \ {i}])
          /\ UNCHANGED budget
       \/ /\ Spend("fail")
          /\ Step(w, [work[w] EXCEPT !.left = @ \ {i}, !.failed = @ \cup {i}])
          /\ UNCHANGED present
    /\ UNCHANGED <<want, events, list, nextPull, retry>>

(***************************************************************************)
(* loopRetry and loopAlwaysPull, and the goroutines they start             *)
(***************************************************************************)
Given(kind, imgs) == [Rest EXCEPT !.kind = kind, !.pc = "list", !.todo = imgs]

loopRetry(j) ==
    /\ LoopsRun
    /\ work[j].pc = "idle"
    /\ retry # {}
    /\ Step(j, Given("retry", retry))
    /\ UNCHANGED <<want, events, list, present, nextPull, retry, budget>>

loopAlwaysPull(j) ==
    /\ LoopsRun
    /\ work[j].pc = "idle"
    /\ ~AlwaysLocked
    /\ \E i \in Images : nextPull[i] = "due"
    /\ Step(j, Given("always", {i \in Images : nextPull[i] = "due"}))
    /\ UNCHANGED <<want, events, list, present, nextPull, retry, budget>>

\* Mutated forms: failed images leave the map too; none leaves it.
RetriedAll(w) == w.todo
RetriedNone(w) == {}

\* The images a goroutine takes out of the retry map, one at a time.
Retried(w) == w.todo \ w.failed

RetryDone(j, i) ==
    /\ work[j].kind = "retry"
    /\ work[j].pc = "pull"
    /\ work[j].left = {}
    /\ i \in Retried(work[j])
    /\ retry' = retry \ {i}
    /\ Step(j, [work[j] EXCEPT !.todo = @ \ {i}])
    /\ UNCHANGED <<want, events, list, present, nextPull, budget>>

\* The lock is taken once for all results.
AlwaysDone(j) ==
    /\ work[j].kind = "always"
    /\ work[j].pc = "pull"
    /\ work[j].left = {}
    /\ ~AlwaysLocked
    /\ Step(j, [work[j] EXCEPT !.pc = "store"])
    /\ UNCHANGED <<want, events, list, present, nextPull, retry, budget>>

AlwaysStore(j, i) ==
    /\ work[j].pc = "store"
    /\ i \in work[j].todo
    /\ IF i \in work[j].failed
       THEN retry' = retry \cup {i} /\ UNCHANGED nextPull
       ELSE nextPull' = [nextPull EXCEPT ![i] = "later"] /\ UNCHANGED retry
    /\ Step(j, [work[j] EXCEPT !.todo = @ \ {i}])
    /\ UNCHANGED <<want, events, list, present, budget>>

JobEnds(j) ==
    /\ \/ /\ work[j].kind = "retry"
          /\ work[j].pc = "pull"
          /\ work[j].left = {}
          /\ Retried(work[j]) = {}
       \/ /\ work[j].pc = "store"
          /\ work[j].todo = {}
    /\ Step(j, Rest)
    /\ UNCHANGED <<want, events, list, present, nextPull, retry, budget>>

(***************************************************************************)
(* The rest of the world                                                   *)
(***************************************************************************)
\* 24 hours after it was last put off an image is due.
Due(i) ==
    /\ nextPull[i] = "later"
    /\ Spend("days")
    /\ nextPull' = [nextPull EXCEPT ![i] = "due"]
    /\ UNCHANGED <<want, events, list, present, retry, work>>

Edit(l) ==
    /\ l # want
    /\ Spend("edits")
    /\ want' = l
    /\ events' = Append(events, l)
    /\ UNCHANGED <<list, present, nextPull, retry, work>>

\* The process ends, for instance because the watch is closed, and is started
\* again by its DaemonSet.
Restart ==
    /\ Spend("fail")
    /\ list' = want
    /\ events' = <<>>
    /\ nextPull' = [i \in Images |-> "none"]
    /\ retry' = {}
    /\ work' = Started(want)
    /\ UNCHANGED <<want, present>>

MainStep ==
    \/ Receive
    \/ \E i \in Images : MarkAlways(i)
    \/ ForgetAlways
    \/ ForgetRetry
    \/ RetryLater

CheckAndPull(w) ==
    \/ getExistingImages(w)
    \/ getExistingImagesFails(w)
    \/ \E i \in Images : pullSingleImage(w, i)

JobStep(j) ==
    \/ \E i \in Images : RetryDone(j, i)
    \/ AlwaysDone(j)
    \/ \E i \in Images : AlwaysStore(j, i)
    \/ JobEnds(j)

Next ==
    \/ MainStep
    \/ \E w \in Workers : CheckAndPull(w)
    \/ \E j \in Jobs : JobStep(j) \/ loopRetry(j) \/ loopAlwaysPull(j)
    \/ \E i \in Images : Due(i)
    \/ \E l \in ImageList : Edit(l)
    \/ Restart

Spec == Init /\ [][Next]_vars

(***************************************************************************)
(* Fairness: goroutines are scheduled, the loops' timers fire.             *)
(***************************************************************************)
Fairness ==
    /\ WF_vars(MainStep \/ CheckAndPull(Main))
    /\ \A j \in Jobs : WF_vars(CheckAndPull(j) \/ JobStep(j))
    /\ WF_vars(\E j \in Jobs : loopRetry(j))
    /\ WF_vars(\E j \in Jobs : loopAlwaysPull(j))

FairSpec == Spec /\ Fairness

-----------------------------------------------------------------------------
(***************************************************************************)
(* Properties                                                              *)
(***************************************************************************)
Present(i) == present[i] # "absent"

\* The event loop has not finished with image i.
BusyWith(i) ==
    \/ work[Main].pc \in {"mark", "list"} /\ i \in work[Main].todo
    \/ work[Main].pc = "pull" /\ i \in work[Main].left \cup work[Main].failed

\* No image of the list is forgotten: it is on the node, or the event loop is
\* busy with it, or it is in the retry map - although goroutines that work on
\* older snapshots take images out of that map, and overlap.  (Not so when the
\* event loop cannot list the node's images, a failure that ListErrors leaves out:
\* PullImages then returns with the list lost.)
NothingForgotten == \A i \in list.imgs : Present(i) \/ BusyWith(i) \/ i \in retry

\* When edits and failures stop, every image of the list comes to the node,
\* and nothing is left to retry; without ListErrors, as above.
Settles ==
    <>[](/\ \A i \in want.imgs : Present(i)
         /\ retry = {})

(***************************************************************************)
(* The inductive invariant behind NothingForgotten.                        *)
(***************************************************************************)
\* A goroutine of the loops.  What a retry has neither to pull any more nor
\* failed to pull is on the node.
GoodJob(f, node) ==
    /\ f.kind \notin {"start", "event"}
    /\ f.pc \in {"idle", "list", "pull", "store"}
    /\ f.kind = "retry" /\ f.pc = "pull"
          => \A i \in f.todo \ (f.left \cup f.failed) : node[i] # "absent"

WorkInv ==
    /\ work[Main].kind \in {"none", "start", "event"}
    /\ work[Main].kind = "none" => work[Main].pc = "idle"
    /\ work[Main].pc # "store"
    /\ \A j \in Jobs : GoodJob(work[j], present)

DaemonInv ==
    /\ TypeOK
    /\ WorkInv
    /\ work[Main].pc \in {"clear", "clearRetry"} => list.imgs = {}
    /\ NothingForgotten
=============================================================================
