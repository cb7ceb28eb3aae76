------------------------- MODULE ImageDaemon_proofs -------------------------
(***************************************************************************)
(* No image is forgotten, for all sets of images and goroutines, as long   *)
(* as listing the node's images does not fail in the event loop.           *)
(***************************************************************************)
EXTENDS ImageDaemon, TLAPS

\* The first reading of the ImageList, of a new process or after a restart.
LEMMA StartedWork ==
    ASSUME NEW l \in ImageList
    PROVE  /\ Started(l) \in [Workers -> Work]
           /\ \A j \in Jobs : Started(l)[j] = Rest
           /\ Started(l)[Main] = IF l.there THEN PullImages("start", l) ELSE Rest
<1>1. Rest \in Work /\ PullImages("start", l) \in Work
  BY DEF Rest, PullImages, Work, ImageList
<1> QED
  BY <1>1, DaemonAssumption DEF Started, Workers

\* What is left of a bound stays a natural number.
LEMMA SpendType ==
    ASSUME TypeOK, NEW b \in {"edits", "fail", "days"}, Spend(b)
    PROVE  budget' \in [edits : Nat, fail : Nat, days : Nat]
  BY DEF TypeOK, Spend

\* A step of one goroutine: the others go on as before.
LEMMA StepWork ==
    ASSUME TypeOK, NEW w \in Workers, NEW f \in Work, Step(w, f)
    PROVE  /\ work' \in [Workers -> Work]
           /\ work'[w] = f
           /\ \A v \in Workers : v # w => work'[v] = work[v]
  BY DEF TypeOK, Step

\* The type invariant is kept by every step.
LEMMA TypeNext == TypeOK /\ [Next]_vars => TypeOK'
<1> SUFFICES ASSUME TypeOK, [Next]_vars
             PROVE  TypeOK'
  OBVIOUS
<1>a. /\ Main \in Workers
      /\ \A w \in Workers : work[w] \in Work
      /\ \A l \in ImageList : PullImages("event", l) \in Work
      /\ Rest \in Work
      /\ [Rest EXCEPT !.kind = "event", !.pc = "clear"] \in Work
  BY DEF Workers, TypeOK, Work, Rest, PullImages, ImageList
<1>b. \A f \in Work, S \in SUBSET Images, T \in SUBSET Images :
         /\ [f EXCEPT !.left = S] \in Work
         /\ [f EXCEPT !.todo = S] \in Work
         /\ [f EXCEPT !.pc = "pull", !.left = S] \in Work
         /\ [f EXCEPT !.left = S, !.failed = T] \in Work
         /\ [f EXCEPT !.pc = "clearRetry"] \in Work
         /\ [f EXCEPT !.pc = "store"] \in Work
  BY DEF Work
<1>c. \A f \in Work : /\ f.todo \in SUBSET Images
                      /\ f.left \in SUBSET Images
                      /\ f.failed \in SUBSET Images
  BY DEF Work
<1>1. CASE Receive
  <2> DEFINE f == IF Head(events).there
                  THEN PullImages("event", Head(events))
                  ELSE [Rest EXCEPT !.kind = "event", !.pc = "clear"]
  <2>1. Head(events) \in ImageList /\ Tail(events) \in Seq(ImageList)
    BY <1>1 DEF Receive, TypeOK
  <2>2. f \in Work
    BY <2>1, <1>a
  <2>3. Step(Main, f)
    BY <1>1 DEF Receive
  <2>4. work' \in [Workers -> Work]
    BY <2>2, <2>3, <1>a, StepWork
  <2> QED
    BY <1>1, <2>1, <2>4 DEF Receive, TypeOK
<1>2. ASSUME NEW i \in Images, MarkAlways(i)
      PROVE  TypeOK'
  <2>1. work' \in [Workers -> Work]
    <3>1. [work[Main] EXCEPT !.left = @ \ {i}] \in Work
      BY <1>a, <1>b, <1>c
    <3> QED
      BY <1>2, <1>a, <3>1, StepWork DEF MarkAlways
  <2> QED
    BY <1>2, <2>1 DEF MarkAlways, TypeOK
<1>3. CASE ForgetAlways
  <2>1. work' \in [Workers -> Work]
    BY <1>3, <1>a, <1>b, StepWork DEF ForgetAlways
  <2> QED
    BY <1>3, <2>1 DEF ForgetAlways, TypeOK
<1>4. CASE ForgetRetry
  <2>1. work' \in [Workers -> Work]
    BY <1>4, <1>a, StepWork DEF ForgetRetry
  <2> QED
    BY <1>4, <2>1 DEF ForgetRetry, TypeOK
<1>5. CASE RetryLater
  <2>1. work' \in [Workers -> Work]
    BY <1>5, <1>a, StepWork DEF RetryLater
  <2> QED
    BY <1>5, <2>1, <1>a, <1>c DEF RetryLater, TypeOK
<1>6. ASSUME NEW w \in Workers, getExistingImages(w)
      PROVE  TypeOK'
  <2>1. filterMissingImages(work[w].todo) \in SUBSET Images
    BY <1>a, <1>c DEF filterMissingImages
  <2>2. work' \in [Workers -> Work]
    <3>1. [work[w] EXCEPT !.pc = "pull",
                          !.left = filterMissingImages(work[w].todo)] \in Work
      BY <2>1, <1>a, <1>b
    <3> QED
      BY <1>6, <3>1, StepWork DEF getExistingImages
  <2> QED
    BY <1>6, <2>2 DEF getExistingImages, TypeOK
<1>7. ASSUME NEW w \in Workers, getExistingImagesFails(w)
      PROVE  TypeOK'
  <2>1. work' \in [Workers -> Work]
    BY <1>7, <1>a, StepWork DEF getExistingImagesFails
  <2> QED
    BY <1>7, <2>1, SpendType DEF getExistingImagesFails, TypeOK
<1>8. ASSUME NEW w \in Workers, NEW i \in Images, pullSingleImage(w, i)
      PROVE  TypeOK'
  <2>1. work' \in [Workers -> Work]
    <3>1. /\ [work[w] EXCEPT !.left = @ \ {i}] \in Work
          /\ [work[w] EXCEPT !.left = @ \ {i}, !.failed = @ \cup {i}] \in Work
      BY <1>a, <1>b, <1>c
    <3> QED
      BY <1>8, <3>1, StepWork DEF pullSingleImage
  <2>2. budget' \in [edits : Nat, fail : Nat, days : Nat]
    BY <1>8, SpendType DEF pullSingleImage, TypeOK
  <2> QED
    BY <1>8, <2>1, <2>2 DEF pullSingleImage, TypeOK
<1>9. ASSUME NEW j \in Jobs, loopRetry(j) \/ loopAlwaysPull(j)
      PROVE  TypeOK'
  <2>1. j \in Workers
    BY DEF Workers
  <2>2. /\ Given("retry", retry) \in Work
        /\ Given("always", {i \in Images : nextPull[i] = "due"}) \in Work
    BY DEF Given, Rest, Work, TypeOK
  <2>3. work' \in [Workers -> Work]
    BY <1>9, <2>1, <2>2, StepWork DEF loopRetry, loopAlwaysPull
  <2> QED
    BY <1>9, <2>3 DEF loopRetry, loopAlwaysPull, TypeOK
<1>10. ASSUME NEW j \in Jobs, NEW i \in Images, RetryDone(j, i) \/ AlwaysStore(j, i)
       PROVE  TypeOK'
  <2>1. j \in Workers
    BY DEF Workers
  <2>2. [work[j] EXCEPT !.todo = @ \ {i}] \in Work
    BY <2>1, <1>a, <1>b, <1>c
  <2>3. work' \in [Workers -> Work]
    BY <1>10, <2>1, <2>2, StepWork DEF RetryDone, AlwaysStore
  <2> QED
    BY <1>10, <2>3 DEF RetryDone, AlwaysStore, TypeOK
<1>11. ASSUME NEW j \in Jobs, AlwaysDone(j) \/ JobEnds(j)
       PROVE  TypeOK'
  <2>1. j \in Workers
    BY DEF Workers
  <2>2. work' \in [Workers -> Work]
    BY <1>11, <2>1, <1>a, <1>b, StepWork DEF AlwaysDone, JobEnds
  <2> QED
    BY <1>11, <2>2 DEF AlwaysDone, JobEnds, TypeOK
<1>12. ASSUME NEW i \in Images, Due(i)
       PROVE  TypeOK'
  BY <1>12, SpendType DEF Due, TypeOK
<1>13. ASSUME NEW l \in ImageList, Edit(l)
       PROVE  TypeOK'
  <2>1. budget' \in [edits : Nat, fail : Nat, days : Nat]
    BY <1>13, SpendType DEF Edit
  <2> QED
    BY <1>13, <2>1 DEF Edit, TypeOK
<1>14. CASE Restart
  <2>1. budget' \in [edits : Nat, fail : Nat, days : Nat]
    BY <1>14, SpendType DEF Restart
  <2>2. work' \in [Workers -> Work]
    BY <1>14, StartedWork DEF Restart, TypeOK
  <2> QED
    BY <1>14, <2>1, <2>2 DEF Restart, TypeOK
<1>15. CASE UNCHANGED vars
  BY <1>15 DEF vars, TypeOK
<1> QED
  BY <1>1, <1>2, <1>3, <1>4, <1>5, <1>6, <1>7, <1>8, <1>9, <1>10, <1>11,
     <1>12, <1>13, <1>14, <1>15
     DEF Next, MainStep, CheckAndPull, JobStep
-----------------------------------------------------------------------------
\* A step outside the event loop forgets no image.
LEMMA ElsewhereKeeps ==
    ASSUME DaemonInv, list' = list, work'[Main] = work[Main],
           \A i \in Images : Present(i) => Present(i)',
           \A i \in Images : i \in retry => i \in retry' \/ Present(i)'
    PROVE  /\ NothingForgotten'
           /\ work'[Main].pc \in {"clear", "clearRetry"} => list'.imgs = {}
<1>1. list.imgs \subseteq Images
  BY DEF DaemonInv, TypeOK, ImageList
<1>2. \A i \in Images : BusyWith(i)' = BusyWith(i)
  BY DEF BusyWith
<1> QED
  BY <1>1, <1>2 DEF DaemonInv, NothingForgotten

\* A step of one goroutine of the loops, which leaves it in good order.
LEMMA JobKeeps ==
    ASSUME DaemonInv, NEW j \in Jobs, NEW f \in Work, Step(j, f),
           GoodJob(f, present'),
           \A i \in Images : Present(i) => Present(i)'
    PROVE  /\ WorkInv'
           /\ work'[Main] = work[Main]
<1>1. TypeOK /\ WorkInv /\ j \in Workers /\ Main \in Workers /\ j # Main
  BY DaemonAssumption DEF DaemonInv, Workers
<1>2. /\ work'[j] = f
      /\ \A v \in Workers : v # j => work'[v] = work[v]
  BY <1>1, StepWork
<1>3. \A k \in Jobs : work[k].todo \subseteq Images
  BY <1>1 DEF TypeOK, Workers, Work
<1>4. ASSUME NEW k \in Jobs, k # j
      PROVE  GoodJob(work'[k], present')
  <2>1. work'[k] = work[k]
    BY <1>2, <1>4 DEF Workers
  <2>2. GoodJob(work[k], present)
    BY <1>1 DEF WorkInv
  <2> QED
    BY <2>1, <2>2, <1>3 DEF GoodJob, Present
<1>5. \A k \in Jobs : GoodJob(work'[k], present')
  BY <1>2, <1>4
<1>6. work'[Main] = work[Main]
  BY <1>1, <1>2
<1> QED
  BY <1>1, <1>5, <1>6 DEF WorkInv

\* A step of the event loop keeps the other goroutines in good order.
LEMMA MainKeeps ==
    ASSUME DaemonInv, NEW f \in Work, Step(Main, f),
           f.kind \in {"none", "start", "event"},
           f.kind = "none" => f.pc = "idle",
           f.pc # "store",
           \A i \in Images : Present(i) => Present(i)'
    PROVE  WorkInv' /\ work'[Main] = f
<1>1. TypeOK /\ WorkInv /\ Main \in Workers
  BY DEF DaemonInv, Workers
<1>2. /\ work'[Main] = f
      /\ \A v \in Workers : v # Main => work'[v] = work[v]
  BY <1>1, StepWork
<1>3. ASSUME NEW k \in Jobs
      PROVE  GoodJob(work'[k], present')
  <2>1. work'[k] = work[k]
    BY <1>2, DaemonAssumption DEF Workers
  <2>2. GoodJob(work[k], present) /\ work[k].todo \subseteq Images
    BY <1>1 DEF WorkInv, GoodJob, TypeOK, Workers, Work
  <2> QED
    BY <2>1, <2>2 DEF GoodJob, Present
<1> QED
  BY <1>2, <1>3 DEF WorkInv

\* The event loop.
LEMMA MainStepKeeps ==
    ASSUME DaemonInv, MainStep
    PROVE  /\ WorkInv'
           /\ NothingForgotten'
           /\ work'[Main].pc \in {"clear", "clearRetry"} => list'.imgs = {}
<1>a. /\ TypeOK /\ WorkInv /\ Main \in Workers
      /\ work[Main] \in Work
      /\ list.imgs \subseteq Images
      /\ present' = present
      /\ \A i \in Images : Present(i) => Present(i)'
  BY DEF DaemonInv, Workers, TypeOK, ImageList, MainStep, Receive, MarkAlways,
         ForgetAlways, ForgetRetry, RetryLater, Present
<1>b. Rest \in Work /\ Rest.kind = "none" /\ Rest.pc = "idle"
  BY DEF Rest, Work
<1>1. CASE Receive
  <2> DEFINE l == Head(events)
             f == IF l.there THEN PullImages("event", l)
                  ELSE [Rest EXCEPT !.kind = "event", !.pc = "clear"]
  <2>1. l \in ImageList
    BY <1>1, <1>a DEF Receive, TypeOK
  <2>2. /\ f \in Work /\ f.kind = "event"
        /\ l.there => f.pc = "mark" /\ f.todo = l.imgs
        /\ ~l.there => f.pc = "clear"
    BY <2>1 DEF PullImages, Rest, Work, ImageList
  <2>3. Step(Main, f)
    BY <1>1 DEF Receive
  <2>4. WorkInv' /\ work'[Main] = f
    BY <2>2, <2>3, <1>a, MainKeeps
  <2>5. ~l.there => l.imgs = {}
    BY <2>1 DEF ImageList
  <2> QED
    BY <1>1, <2>2, <2>4, <2>5 DEF Receive, NothingForgotten, BusyWith
<1>2. ASSUME NEW i \in Images, MarkAlways(i)
      PROVE  /\ WorkInv'
             /\ NothingForgotten'
             /\ work'[Main].pc \in {"clear", "clearRetry"} => list'.imgs = {}
  <2> DEFINE f == [work[Main] EXCEPT !.left = @ \ {i}]
  <2>1. /\ f \in Work /\ f.kind = work[Main].kind /\ f.pc = "mark"
        /\ f.todo = work[Main].todo
    BY <1>2, <1>a DEF MarkAlways, Work
  <2>2. f.kind \in {"start", "event"}
    BY <1>2, <1>a, <2>1 DEF MarkAlways, WorkInv, Work
  <2>3. WorkInv' /\ work'[Main] = f
    BY <1>2, <1>a, <2>1, <2>2, MainKeeps DEF MarkAlways
  <2> QED
    BY <1>2, <1>a, <2>1, <2>3 DEF MarkAlways, DaemonInv, NothingForgotten, BusyWith
<1>3. CASE ForgetAlways
  <2> DEFINE f == [work[Main] EXCEPT !.pc = "clearRetry"]
  <2>1. f \in Work /\ f.kind = work[Main].kind /\ f.pc = "clearRetry"
    BY <1>a DEF Work
  <2>2. f.kind \in {"start", "event"}
    BY <1>3, <1>a, <2>1 DEF ForgetAlways, WorkInv, Work
  <2>3. WorkInv'
    BY <1>3, <1>a, <2>1, <2>2, MainKeeps DEF ForgetAlways
  <2>4. list' = list /\ list.imgs = {}
    BY <1>3 DEF ForgetAlways, DaemonInv
  <2> QED
    BY <2>3, <2>4 DEF NothingForgotten
<1>4. CASE ForgetRetry
  <2>1. WorkInv'
    BY <1>4, <1>a, <1>b, MainKeeps DEF ForgetRetry
  <2>2. list' = list /\ list.imgs = {}
    BY <1>4 DEF ForgetRetry, DaemonInv
  <2> QED
    BY <2>1, <2>2 DEF NothingForgotten
<1>5. CASE RetryLater
  <2>1. WorkInv' /\ work'[Main] = Rest
    BY <1>5, <1>a, <1>b, MainKeeps DEF RetryLater
  <2>2. \A i \in list.imgs : BusyWith(i) => i \in retry'
    BY <1>5 DEF RetryLater, BusyWith
  <2> QED
    BY <1>5, <1>a, <1>b, <2>1, <2>2 DEF RetryLater, DaemonInv, NothingForgotten
<1> QED
  BY <1>1, <1>2, <1>3, <1>4, <1>5 DEF MainStep

\* CheckAndPull, whoever calls it.  An error in the event loop would lose the
\* whole list.
LEMMA CheckAndPullKeeps ==
    ASSUME DaemonInv, ListErrors \cap {"start", "event"} = {}, NEW w \in Workers, CheckAndPull(w)
    PROVE  /\ WorkInv'
           /\ NothingForgotten'
           /\ work'[Main].pc \in {"clear", "clearRetry"} => list'.imgs = {}
<1>a. /\ TypeOK /\ WorkInv /\ Main \in Workers
      /\ work[w] \in Work
      /\ list.imgs \subseteq Images
      /\ list' = list
      /\ retry' = retry
  BY DEF DaemonInv, Workers, TypeOK, ImageList, CheckAndPull,
         getExistingImages, getExistingImagesFails, pullSingleImage
<1>b. \A i \in Images : Present(i) => Present(i)'
  BY <1>a DEF CheckAndPull, getExistingImages, getExistingImagesFails,
              pullSingleImage, Present, TypeOK
<1>c. Rest \in Work /\ Rest.kind = "none" /\ Rest.pc = "idle"
  BY DEF Rest, Work
<1>d. w # Main => w \in Jobs /\ GoodJob(work[w], present)
  BY <1>a DEF Workers, WorkInv, GoodJob
<1>1. CASE getExistingImages(w)
  <2> DEFINE S == filterMissingImages(work[w].todo)
             f == [work[w] EXCEPT !.pc = "pull", !.left = S]
  <2>1. S \subseteq Images /\ \A i \in work[w].todo \ S : Present(i)
    BY <1>a DEF filterMissingImages, Present, Work
  <2>2. /\ f \in Work /\ f.kind = work[w].kind /\ f.pc = "pull"
        /\ f.todo = work[w].todo /\ f.left = S
    BY <1>a, <2>1 DEF Work
  <2>3. Step(w, f) /\ present' = present /\ CallsCheckAndPull(w)
    BY <1>1 DEF getExistingImages
  <2>4. CASE w = Main
    <3>1. f.kind \in {"start", "event"}
      BY <1>a, <2>2, <2>3, <2>4 DEF WorkInv, CallsCheckAndPull, Work
    <3>2. WorkInv' /\ work'[Main] = f
      BY <1>b, <2>2, <2>3, <2>4, <3>1, MainKeeps
    <3>3. \A i \in list.imgs : BusyWith(i) => BusyWith(i)' \/ Present(i)'
      BY <1>b, <1>a, <2>1, <2>2, <2>3, <2>4, <3>2
         DEF BusyWith, CallsCheckAndPull
    <3> QED
      BY <1>a, <1>b, <2>2, <3>2, <3>3 DEF DaemonInv, NothingForgotten
  <2>5. CASE w # Main
    <3>1. GoodJob(f, present')
      BY <1>b, <1>d, <1>a, <2>1, <2>2, <2>5 DEF GoodJob, Work, Present
    <3>2. WorkInv' /\ work'[Main] = work[Main]
      BY <1>b, <1>d, <2>2, <2>3, <2>5, <3>1, JobKeeps
    <3> QED
      BY <1>a, <1>b, <3>2, ElsewhereKeeps
  <2> QED
    BY <2>4, <2>5
<1>2. CASE getExistingImagesFails(w)
  <2>1. w # Main
    BY <1>2, <1>a DEF getExistingImagesFails, CallsCheckAndPull, WorkInv, Work
  <2>2. GoodJob(Rest, present')
    BY <1>c DEF GoodJob
  <2>3. WorkInv' /\ work'[Main] = work[Main]
    BY <1>2, <1>b, <1>c, <1>d, <2>1, <2>2, JobKeeps DEF getExistingImagesFails
  <2> QED
    BY <1>a, <1>b, <2>3, ElsewhereKeeps
<1>3. ASSUME NEW i \in Images, pullSingleImage(w, i)
      PROVE  /\ WorkInv'
             /\ NothingForgotten'
             /\ work'[Main].pc \in {"clear", "clearRetry"} => list'.imgs = {}
  <2>1. PICK f \in Work :
           /\ Step(w, f)
           /\ f.kind = work[w].kind /\ f.pc = "pull" /\ f.todo = work[w].todo
           /\ f.left = work[w].left \ {i}
           /\ \/ Present(i)' /\ f.failed = work[w].failed
              \/ f.failed = work[w].failed \cup {i}
    <3> DEFINE g == [work[w] EXCEPT !.left = @ \ {i}]
               h == [work[w] EXCEPT !.left = @ \ {i}, !.failed = @ \cup {i}]
    <3>1. /\ g \in Work /\ g.kind = work[w].kind /\ g.pc = work[w].pc
          /\ g.todo = work[w].todo /\ g.left = work[w].left \ {i}
          /\ g.failed = work[w].failed
      BY <1>a DEF Work
    <3>2. /\ h \in Work /\ h.kind = work[w].kind /\ h.pc = work[w].pc
          /\ h.todo = work[w].todo /\ h.left = work[w].left \ {i}
          /\ h.failed = work[w].failed \cup {i}
      BY <1>a DEF Work
    <3>3. work[w].pc = "pull"
      BY <1>3 DEF pullSingleImage
    <3>4. CASE present' = [present EXCEPT ![i] = "there"] /\ Step(w, g)
      <4>1. Present(i)'
        BY <3>4, <1>a DEF Present, TypeOK
      <4> QED
        BY <3>1, <3>3, <3>4, <4>1
    <3>5. CASE Step(w, h)
      BY <3>2, <3>3, <3>5
    <3> QED
      BY <1>3, <3>4, <3>5 DEF pullSingleImage
  <2>2. work[w].pc = "pull"
    BY <1>3 DEF pullSingleImage
  <2>3. CASE w = Main
    <3>1. f.kind \in {"start", "event"}
      BY <1>a, <2>1, <2>2, <2>3 DEF WorkInv, Work
    <3>2. WorkInv' /\ work'[Main] = f
      BY <1>b, <2>1, <2>3, <3>1, MainKeeps
    <3>3. \A k \in list.imgs : BusyWith(k) => BusyWith(k)' \/ Present(k)'
      BY <2>1, <2>2, <2>3, <3>2 DEF BusyWith
    <3> QED
      BY <1>a, <1>b, <2>1, <3>2, <3>3 DEF DaemonInv, NothingForgotten
  <2>4. CASE w # Main
    <3>1. GoodJob(f, present')
      BY <1>a, <1>b, <1>d, <2>1, <2>2, <2>4 DEF GoodJob, Work, Present
    <3>2. WorkInv' /\ work'[Main] = work[Main]
      BY <1>b, <1>d, <2>1, <2>4, <3>1, JobKeeps
    <3> QED
      BY <1>a, <1>b, <3>2, ElsewhereKeeps
  <2> QED
    BY <2>3, <2>4
<1> QED
  BY <1>1, <1>2, <1>3 DEF CheckAndPull

\* The goroutines of the loops.  A retry takes an image out of the map only
\* when it is on the node, however old its snapshot is.
LEMMA LoopsKeep ==
    ASSUME DaemonInv, NEW j \in Jobs,
           JobStep(j) \/ loopRetry(j) \/ loopAlwaysPull(j)
    PROVE  /\ WorkInv'
           /\ NothingForgotten'
           /\ work'[Main].pc \in {"clear", "clearRetry"} => list'.imgs = {}
<1>a. /\ TypeOK /\ j \in Workers
      /\ work[j] \in Work
      /\ GoodJob(work[j], present)
      /\ list' = list
      /\ present' = present
      /\ \A i \in Images : Present(i) => Present(i)'
  BY DEF DaemonInv, WorkInv, Workers, TypeOK, JobStep, RetryDone, AlwaysDone,
         AlwaysStore, JobEnds, loopRetry, loopAlwaysPull, Present
<1>1. ASSUME NEW f \in Work, Step(j, f), GoodJob(f, present),
             \A i \in Images : i \in retry => i \in retry' \/ Present(i)'
      PROVE  /\ WorkInv'
             /\ NothingForgotten'
             /\ work'[Main].pc \in {"clear", "clearRetry"} => list'.imgs = {}
  <2>1. WorkInv' /\ work'[Main] = work[Main]
    BY <1>1, <1>a, JobKeeps
  <2> QED
    BY <1>1, <1>a, <2>1, ElsewhereKeeps
<1>2. ASSUME NEW i \in Images, RetryDone(j, i)
      PROVE  /\ WorkInv'
             /\ NothingForgotten'
             /\ work'[Main].pc \in {"clear", "clearRetry"} => list'.imgs = {}
  <2> DEFINE f == [work[j] EXCEPT !.todo = @ \ {i}]
  <2>1. /\ f \in Work /\ f.kind = work[j].kind /\ f.pc = work[j].pc
        /\ f.todo = work[j].todo \ {i}
        /\ f.left = work[j].left /\ f.failed = work[j].failed
    BY <1>a DEF Work
  <2>2. GoodJob(f, present)
    BY <1>a, <2>1 DEF GoodJob
  <2>3. Present(i)
    BY <1>2, <1>a DEF RetryDone, Retried, GoodJob, Present
  <2>4. Step(j, f) /\ retry' = retry \ {i}
    BY <1>2 DEF RetryDone
  <2>5. \A k \in Images : k \in retry => k \in retry' \/ Present(k)'
    BY <1>a, <2>3, <2>4
  <2> QED
    BY <1>1, <2>1, <2>2, <2>4, <2>5
<1>3. CASE AlwaysDone(j)
  <2> DEFINE f == [work[j] EXCEPT !.pc = "store"]
  <2>1. f \in Work /\ f.kind = "always" /\ f.pc = "store"
    BY <1>3, <1>a DEF Work, AlwaysDone
  <2>2. GoodJob(f, present)
    BY <2>1 DEF GoodJob
  <2> QED
    BY <1>1, <1>3, <2>1, <2>2 DEF AlwaysDone
<1>4. ASSUME NEW i \in Images, AlwaysStore(j, i)
      PROVE  /\ WorkInv'
             /\ NothingForgotten'
             /\ work'[Main].pc \in {"clear", "clearRetry"} => list'.imgs = {}
  <2> DEFINE f == [work[j] EXCEPT !.todo = @ \ {i}]
  <2>1. f \in Work /\ f.kind = work[j].kind /\ f.pc = work[j].pc
    BY <1>a DEF Work
  <2>2. GoodJob(f, present)
    BY <1>4, <1>a, <2>1 DEF GoodJob, AlwaysStore
  <2>3. retry \subseteq retry'
    BY <1>4 DEF AlwaysStore
  <2> QED
    BY <1>1, <1>4, <2>1, <2>2, <2>3 DEF AlwaysStore
<1>5. CASE JobEnds(j)
  <2>1. Rest \in Work /\ GoodJob(Rest, present)
    BY DEF Rest, Work, GoodJob
  <2> QED
    BY <1>1, <1>5, <2>1 DEF JobEnds
<1>6. CASE loopRetry(j)
  <2>1. Given("retry", retry) \in Work /\ GoodJob(Given("retry", retry), present)
    BY <1>a DEF Given, Rest, Work, GoodJob, TypeOK
  <2> QED
    BY <1>1, <1>6, <2>1 DEF loopRetry
<1>7. CASE loopAlwaysPull(j)
  <2> DEFINE f == Given("always", {i \in Images : nextPull[i] = "due"})
  <2>1. f \in Work /\ GoodJob(f, present)
    BY DEF Given, Rest, Work, GoodJob
  <2> QED
    BY <1>1, <1>7, <2>1 DEF loopAlwaysPull
<1> QED
  BY <1>2, <1>3, <1>4, <1>5, <1>6, <1>7 DEF JobStep

\* Edits wait in the queue of events, and no image leaves the node.
LEMMA WorldKeeps ==
    ASSUME DaemonInv,
           (\E i \in Images : Due(i)) \/ (\E l \in ImageList : Edit(l)) \/ UNCHANGED vars
    PROVE  /\ WorkInv'
           /\ NothingForgotten'
           /\ work'[Main].pc \in {"clear", "clearRetry"} => list'.imgs = {}
<1>1. TypeOK /\ WorkInv /\ work' = work /\ list' = list /\ retry' = retry
  BY DEF DaemonInv, Due, Edit, vars
<1>2. \A i \in Images : Present(i) => Present(i)'
  BY <1>1 DEF Due, Edit, vars, TypeOK, Present
<1>3. ASSUME NEW j \in Jobs
      PROVE  GoodJob(work[j], present')
  <2>1. GoodJob(work[j], present) /\ work[j].todo \subseteq Images
    BY <1>1 DEF WorkInv, TypeOK, Workers, Work
  <2> QED
    BY <1>2, <2>1 DEF GoodJob, Present
<1> QED
  BY <1>1, <1>2, <1>3, ElsewhereKeeps DEF WorkInv

\* The invariant is inductive.
LEMMA DaemonNext ==
    ASSUME ListErrors \cap {"start", "event"} = {}
    PROVE  DaemonInv /\ [Next]_vars => DaemonInv'
<1> SUFFICES ASSUME DaemonInv, [Next]_vars
             PROVE  DaemonInv'
  OBVIOUS
<1>1. TypeOK'
  BY TypeNext DEF DaemonInv
<1>2. CASE Restart
  \* A new process forgets both maps and reads the whole list again.
  <2>1. want \in ImageList /\ list' = want /\ work' = Started(want)
    BY <1>2 DEF Restart, DaemonInv, TypeOK
  <2>2. /\ \A j \in Jobs : work'[j] = Rest
        /\ work'[Main] = IF want.there THEN PullImages("start", want) ELSE Rest
    BY <2>1, StartedWork
  <2>3. WorkInv'
    BY <2>2 DEF WorkInv, GoodJob, Rest, PullImages
  <2>4. NothingForgotten'
    BY <2>1, <2>2 DEF NothingForgotten, BusyWith, PullImages, ImageList
  <2> QED
    BY <1>1, <2>2, <2>3, <2>4 DEF DaemonInv, PullImages, Rest
<1>3. CASE MainStep
  BY <1>1, <1>3, MainStepKeeps DEF DaemonInv
<1>4. ASSUME NEW w \in Workers, CheckAndPull(w)
      PROVE  DaemonInv'
  BY <1>1, <1>4, CheckAndPullKeeps DEF DaemonInv
<1>5. ASSUME NEW j \in Jobs, JobStep(j) \/ loopRetry(j) \/ loopAlwaysPull(j)
      PROVE  DaemonInv'
  BY <1>1, <1>5, LoopsKeep DEF DaemonInv
<1>6. CASE (\E i \in Images : Due(i)) \/ (\E l \in ImageList : Edit(l)) \/ UNCHANGED vars
  BY <1>1, <1>6, WorldKeeps DEF DaemonInv
<1> QED
  BY <1>2, <1>3, <1>4, <1>5, <1>6 DEF Next

-----------------------------------------------------------------------------
\* As long as listing the node's images does not fail in the event loop (such
\* an error drops the whole list it was handling), the inductive invariant of
\* the daemon holds, for every list, every number of overlapping goroutines
\* and every number of edits, failures and restarts.
THEOREM DaemonInvariant ==
    ASSUME ListErrors \cap {"start", "event"} = {}
    PROVE  Spec => []DaemonInv
<1>1. Init => DaemonInv
  <2> SUFFICES ASSUME Init
               PROVE  DaemonInv
    OBVIOUS
  <2>1. want \in ImageList /\ list = want /\ work = Started(want)
    BY DaemonAssumption DEF Init, ImageList
  <2>2. /\ work \in [Workers -> Work]
        /\ \A j \in Jobs : work[j] = Rest
        /\ work[Main] = IF want.there THEN PullImages("start", want) ELSE Rest
    BY <2>1, StartedWork
  <2>3. budget \in [edits : Nat, fail : Nat, days : Nat]
    BY DaemonAssumption DEF Init
  <2>4. TypeOK
    <3>1. events \in Seq(ImageList) /\ retry = {}
      BY DEF Init
    <3>2. /\ present \in [Images -> {"absent", "there"}]
          /\ nextPull \in [Images -> {"none", "due", "later"}]
      BY DEF Init
    <3> QED
      BY <2>1, <2>2, <2>3, <3>1, <3>2 DEF TypeOK
  <2>5. WorkInv
    BY <2>2 DEF WorkInv, GoodJob, Rest, PullImages
  <2>6. NothingForgotten
    BY <2>1, <2>2 DEF NothingForgotten, BusyWith, PullImages, ImageList
  <2>7. work[Main].pc \notin {"clear", "clearRetry"}
    BY <2>2 DEF PullImages, Rest
  <2> QED
    BY <2>4, <2>5, <2>6, <2>7 DEF DaemonInv
<1> QED
  BY <1>1, DaemonNext, PTL DEF Spec

\* Every image of the list handled last is on the node, still in the hands of
\* the event loop, or in the retry map.
THEOREM ImagesNotForgotten ==
    ASSUME ListErrors \cap {"start", "event"} = {}
    PROVE  Spec => []NothingForgotten
<1>1. DaemonInv => NothingForgotten
  BY DEF DaemonInv
<1> QED
  BY <1>1, DaemonInvariant, PTL
=============================================================================
