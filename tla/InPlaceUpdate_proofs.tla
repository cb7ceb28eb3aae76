------------------------ MODULE InPlaceUpdate_proofs ------------------------
(***************************************************************************)
(* The in-place update of a Pod, for every set of revisions, grace period, *)
(* minReadySeconds and number of edits and faults: how long a Pod is out   *)
(* of service before its image is written, and what it runs when it is     *)
(* back.  Both rest on what a planned call may rely on: as long as the Pod *)
(* on the server is the one the reconcile decided on (rec.base), the       *)
(* reasons it had to plan the call hold when the call is made.             *)
(***************************************************************************)
EXTENDS InPlaceUpdate, TLAPS

-----------------------------------------------------------------------------
(***************************************************************************)
(* Pods                                                                    *)
(***************************************************************************)
LEMMA FieldTypes ==
    ASSUME NEW p \in Pod
    PROVE  /\ p.exists \in BOOLEAN /\ p.del \in BOOLEAN
           /\ p.phase \in {"Pending", "Running"}
           /\ p.label \in Revs \cup {NoRev} /\ p.img \in Revs \cup {NoRev}
           /\ p.run \in Revs \cup {NoRev} /\ p.up \in BOOLEAN /\ p.young \in BOOLEAN
           /\ p.before \in BOOLEAN /\ p.ready \in BOOLEAN /\ p.since \in 0 .. MinReady
           /\ p.cond \in {"none", "False", "True"}
           /\ p.ann \in {"none", "grace", "image"} /\ p.annAge \in 0 .. Grace
           /\ p.owned \in BOOLEAN
BY DEF Pod

LEMMA NoPodType == NoPod \in Pod
BY InPlaceAssumption DEF NoPod, Pod

LEMMA NewPodType ==
    ASSUME rec.upd \in Revs \cup {NoRev}
    PROVE  /\ NewPod \in Pod
           /\ NewPod.phase = "Pending" /\ NewPod.ann = "none" /\ NewPod.exists
           /\ NewPod.cond = "none"
BY NoPodType, InPlaceAssumption DEF NewPod, NoPod, Pod

LEMMA SetPodConditionType ==
    ASSUME NEW p \in Pod, NEW s \in {"False", "True"}
    PROVE  LET q == SetPodCondition(p, s)
           IN  /\ q \in Pod
               /\ q.cond = s /\ q.phase = p.phase /\ q.ann = p.ann /\ q.annAge = p.annAge
               /\ q.up = p.up /\ q.run = p.run /\ q.img = p.img /\ q.before = p.before
               /\ q.exists = p.exists
BY DEF SetPodCondition, Pod

LEMMA AnnotationType ==
    ASSUME NEW p \in Pod, NEW a \in {"none", "grace", "image"}
    PROVE  LET q == [p EXCEPT !.ann = a, !.annAge = 0]
           IN  /\ q \in Pod
               /\ q.ann = a /\ q.annAge = 0 /\ q.phase = p.phase /\ q.cond = p.cond
               /\ q.up = p.up /\ q.run = p.run /\ q.img = p.img /\ q.before = p.before
               /\ q.exists = p.exists
<1>1. 0 \in 0 .. Grace
  BY InPlaceAssumption
<1> QED
  BY <1>1 DEF Pod

\* What Annotate makes of a Pod.
Annotated(p) == [p EXCEPT !.ann = "grace", !.annAge = 0]

LEMMA AnnotatedType ==
    ASSUME NEW p \in Pod
    PROVE  Annotated(p).cond = p.cond /\ Annotated(p).img = p.img
BY DEF Annotated, Pod

\* What WriteImage makes of a Pod.
NewImage(p, label, i) == [p EXCEPT !.label = label, !.img = i, !.ann = "image", !.annAge = 0,
                                   !.before = ~p.young]

LEMMA NewImageType ==
    ASSUME NEW p \in Pod, NEW label \in Revs \cup {NoRev}, NEW img \in Revs \cup {NoRev}
    PROVE  /\ NewImage(p, label, img) \in Pod
           /\ NewImage(p, label, img).ann = "image" /\ NewImage(p, label, img).annAge = 0
           /\ NewImage(p, label, img).phase = p.phase /\ NewImage(p, label, img).cond = p.cond
           /\ NewImage(p, label, img).before = ~p.young
           /\ NewImage(p, label, img).exists = p.exists
<1> DEFINE q1 == [p EXCEPT !.label = label, !.img = img, !.before = ~p.young]
           q2 == [q1 EXCEPT !.ann = "image", !.annAge = 0]
<1>1. p.young \in BOOLEAN
  BY DEF Pod
<1>2. q1 \in Pod /\ q1.before = ~p.young
  BY <1>1 DEF Pod
<1>3. q1.phase = p.phase /\ q1.cond = p.cond /\ q1.exists = p.exists
  BY DEF Pod
<1>4. NewImage(p, label, img) = q2
  BY DEF Pod, NewImage
<1> HIDE DEF q1
<1>5. q2 \in Pod /\ q2.ann = "image" /\ q2.annAge = 0 /\ q2.phase = q1.phase
      /\ q2.cond = q1.cond /\ q2.before = q1.before /\ q2.exists = q1.exists
  BY <1>2, AnnotationType
<1> HIDE DEF q2
<1> QED
  BY <1>2, <1>3, <1>4, <1>5

LEMMA OlderType ==
    ASSUME NEW most \in Nat, NEW age \in 0 .. most
    PROVE  Older(age, most) \in 0 .. most
BY DEF Older

LEMMA AgedType ==
    ASSUME NEW p \in Pod
    PROVE  /\ Aged(p) \in Pod
           /\ Aged(p).phase = p.phase /\ Aged(p).cond = p.cond /\ Aged(p).ann = p.ann
           /\ Aged(p).up = p.up /\ Aged(p).run = p.run /\ Aged(p).img = p.img
           /\ Aged(p).before = p.before /\ Aged(p).exists = p.exists
           /\ p.exists => Aged(p).annAge = IF p.ann = "none" THEN 0 ELSE Older(p.annAge, Grace)
<1> DEFINE since  == IF p.phase = "Running" THEN Older(p.since, MinReady) ELSE 0
           annAge == IF p.ann = "none" THEN 0 ELSE Older(p.annAge, Grace)
           q == [p EXCEPT !.young = FALSE, !.since = since, !.annAge = annAge]
<1>1. since \in 0 .. MinReady /\ annAge \in 0 .. Grace
  BY FieldTypes, OlderType, InPlaceAssumption
<1>2. p.exists => Aged(p) = q
  BY DEF Aged
<1> HIDE DEF since, annAge
<1>3. /\ q \in Pod
      /\ q.phase = p.phase /\ q.cond = p.cond /\ q.ann = p.ann /\ q.up = p.up
      /\ q.run = p.run /\ q.img = p.img /\ q.before = p.before /\ q.exists = p.exists
      /\ q.annAge = annAge
  BY <1>1 DEF Pod
<1> HIDE DEF q
<1>4. ~p.exists => Aged(p) = p
  BY DEF Aged
<1> QED
  BY <1>2, <1>3, <1>4 DEF annAge

LEMMA StartedType ==
    ASSUME pod \in Pod, NEW p \in Pod
    PROVE  /\ Started(p) \in Pod
           /\ Started(p).up /\ Started(p).run = pod.img /\ Started(p).img = p.img
           /\ Started(p).phase = p.phase /\ Started(p).cond = p.cond
           /\ Started(p).ann = p.ann /\ Started(p).annAge = p.annAge
           /\ Started(p).exists = p.exists
<1>1. pod.img \in Revs \cup {NoRev}
  BY DEF Pod
<1> QED
  BY <1>1 DEF Started, Pod

-----------------------------------------------------------------------------
(***************************************************************************)
(* The reconcile                                                           *)
(***************************************************************************)
\* What a reconcile plans: one call, after that for the identity if need be.
Plans == {<< >>} \cup {<<c>> : c \in Calls} \cup {<<"identity", c>> : c \in Calls}

Due(r, c) == r.todo \in {<<c>>, <<"identity", c>>}

RecType(r) == /\ r \in Reconcile
              /\ r.todo \in Plans
              /\ r.base => r.busy

LEMMA PlansAreCalls == Plans \subseteq Seq(Calls)
<1>1. \A c \in Calls : <<c>> \in Seq(Calls) /\ <<"identity", c>> \in Seq(Calls)
  BY DEF Calls
<1>2. << >> \in Seq(Calls)
  OBVIOUS
<1> QED
  BY <1>1, <1>2 DEF Plans

LEMMA IdleType == RecType(Idle) /\ ~Idle.base /\ Idle.todo = << >>
<1>1. << >> \in Seq(Calls)
  OBVIOUS
<1> QED
  BY <1>1 DEF RecType, Idle, Reconcile, Plans

\* After a change of the Pod by others.
LEMMA UnfoundedType ==
    ASSUME NEW r, RecType(r)
    PROVE  LET q == [r EXCEPT !.base = FALSE] IN RecType(q) /\ ~q.base
BY DEF RecType, Reconcile

LEMMA NewTodo ==
    ASSUME NEW r, RecType(r), NEW todo \in Plans
    PROVE  LET q == [r EXCEPT !.todo = todo]
           IN  /\ RecType(q) /\ q.todo = todo /\ q.base = r.base /\ q.upd = r.upd
               /\ q.seen = r.seen
BY PlansAreCalls DEF RecType, Reconcile

LEMMA FailedType ==
    ASSUME NEW r, RecType(r)
    PROVE  RecType(Failed(r)) /\ Failed(r).todo = << >>
<1>1. << >> \in Seq(Calls) /\ << >> \in Plans
  BY DEF Plans
<1> QED
  BY <1>1 DEF RecType, Reconcile, Failed

LEMMA FallbackType ==
    ASSUME NEW r, RecType(r)
    PROVE  RecType(Fallback(r)) /\ Fallback(r).todo = <<"delete">>
<1>1. <<"delete">> \in Plans
  BY DEF Plans, Calls
<1> QED
  BY <1>1, NewTodo DEF Fallback

\* A call that is made was planned; what is left to do was planned too.
LEMMA CallingIs ==
    ASSUME RecType(rec), NEW c \in Calls, Calling(c)
    PROVE  /\ rec.busy /\ (Due(rec, c) \/ c = "identity")
           /\ c # "identity" => Due(rec, c) /\ Done(rec).todo = << >>
           /\ RecType(Done(rec)) /\ Done(rec).base = rec.base
           /\ \A d \in Calls : Due(Done(rec), d) => Due(rec, d)
<1>1. rec.busy /\ rec.todo # << >> /\ Head(rec.todo) = c
  BY DEF Calling
<1>2. rec.todo \in Plans
  BY DEF RecType
<1>3. CASE rec.todo = <<c>>
  <2>1. Tail(rec.todo) = << >> /\ << >> \in Plans
    BY <1>3 DEF Plans
  <2>2. RecType(Done(rec)) /\ Done(rec).todo = << >> /\ Done(rec).base = rec.base
    BY <2>1, NewTodo DEF Done
  <2>3. \A d : ~Due(Done(rec), d)
    BY <2>2 DEF Due
  <2> QED
    BY <1>1, <1>3, <2>2, <2>3 DEF Due
<1>4. ASSUME NEW d \in Calls, rec.todo = <<"identity", d>>
      PROVE  /\ c = "identity" /\ RecType(Done(rec)) /\ Done(rec).base = rec.base
             /\ \A e \in Calls : Due(Done(rec), e) => Due(rec, e)
  <2>1. c = "identity" /\ Tail(rec.todo) = <<d>> /\ <<d>> \in Plans
    BY <1>1, <1>4 DEF Plans
  <2>2. RecType(Done(rec)) /\ Done(rec).todo = <<d>> /\ Done(rec).base = rec.base
    BY <2>1, NewTodo DEF Done
  <2>3. ASSUME NEW e \in Calls, Due(Done(rec), e)
        PROVE  Due(rec, e)
    <3>1. e = d
      BY <2>2, <2>3 DEF Due
    <3> QED
      BY <1>4, <3>1 DEF Due
  <2> QED
    BY <2>1, <2>2, <2>3
<1>5. rec.todo = <<c>> \/ \E d \in Calls : rec.todo = <<"identity", d>>
  <2>1. ASSUME NEW d \in Calls, rec.todo = <<d>>
        PROVE  d = c
    BY <1>1, <2>1
  <2> QED
    BY <1>1, <1>2, <2>1 DEF Plans
<1> QED
  BY <1>1, <1>3, <1>4, <1>5

-----------------------------------------------------------------------------
(***************************************************************************)
(* The decision                                                            *)
(***************************************************************************)
\* Why the calls of the in-place update are made: what the reconcile saw of the Pod.
Justified(c, p) ==
    /\ c = "annotate" => p.cond = "False" /\ p.ann = "none"
    /\ c = "image" => /\ p.cond = "False"
                      /\ Grace = 0 \/ (p.ann # "none" /\ p.annAge + 1 >= Grace)
    /\ c = "cleanup" => p.phase = "Running" /\ IsInPlaceUpdateDone(p)

LEMMA GraceIsOver ==
    ASSUME NEW p \in Pod, secondsLeft(p) = 0
    PROVE  p.annAge + 1 >= Grace
BY FieldTypes, InPlaceAssumption DEF secondsLeft

LEMMA InPlacePlan ==
    ASSUME NEW p \in Pod, NEW t
    PROVE  InPlaceCall(p, t) = << >> \/ \E c \in Calls : InPlaceCall(p, t) = <<c>> /\ Justified(c, p)
<1>1. CASE ~PatchIsImages(p.label, t)
  <2>1. InPlaceCall(p, t) = <<"delete">>
    BY <1>1 DEF InPlaceCall
  <2>2. "delete" \in Calls /\ Justified("delete", p)
    BY DEF Calls, Justified
  <2> QED
    BY <2>1, <2>2
<1>2. CASE PatchIsImages(p.label, t) /\ ~IfConditionFalse(p)
  <2>1. InPlaceCall(p, t) = <<"off">>
    BY <1>2 DEF InPlaceCall
  <2>2. "off" \in Calls /\ Justified("off", p)
    BY DEF Calls, Justified
  <2> QED
    BY <2>1, <2>2
<1>3. CASE PatchIsImages(p.label, t) /\ IfConditionFalse(p)
  <2>0. InPlaceCall(p, t) = IF Grace = 0 \/ (p.ann # "none" /\ secondsLeft(p) = 0)
                            THEN <<"image">>
                            ELSE IF p.ann = "none" THEN <<"annotate">> ELSE << >>
    BY <1>3 DEF InPlaceCall
  <2>1. CASE Grace = 0 \/ (p.ann # "none" /\ secondsLeft(p) = 0)
    <3>1. InPlaceCall(p, t) = <<"image">>
      BY <2>0, <2>1
    <3>2. "image" \in Calls /\ Justified("image", p)
      BY <1>3, <2>1, GraceIsOver DEF Calls, Justified, IfConditionFalse
    <3> QED
      BY <3>1, <3>2
  <2>2. CASE ~(Grace = 0 \/ (p.ann # "none" /\ secondsLeft(p) = 0)) /\ p.ann = "none"
    <3>1. InPlaceCall(p, t) = <<"annotate">>
      BY <2>0, <2>2
    <3>2. "annotate" \in Calls /\ Justified("annotate", p)
      BY <1>3, <2>2 DEF Calls, Justified, IfConditionFalse
    <3> QED
      BY <3>1, <3>2
  <2> QED
    BY <2>0, <2>1, <2>2
<1> QED
  BY <1>1, <1>2, <1>3

LEMMA RollingPlan ==
    ASSUME NEW p \in Pod, NEW t, p.phase = "Running"
    PROVE  RollingCall(p, t) = << >> \/ \E c \in Calls : RollingCall(p, t) = <<c>> /\ Justified(c, p)
<1>1. CASE p.label # t
  BY <1>1, InPlacePlan DEF RollingCall
<1>2. CASE p.label = t /\ p.ann # "none" /\ IfConditionFalse(p) /\ IsInPlaceUpdateDone(p)
  <2>1. RollingCall(p, t) = <<"cleanup">>
    BY <1>2 DEF RollingCall
  <2>2. "cleanup" \in Calls /\ Justified("cleanup", p)
    BY <1>2 DEF Calls, Justified
  <2> QED
    BY <2>1, <2>2
<1> QED
  BY <1>1, <1>2 DEF RollingCall

LEMMA TwoCalls ==
    ASSUME NEW a, NEW b
    PROVE  <<a>> \o <<b>> = <<a, b>>
<1> DEFINE s == <<a>> \o <<b>>
<1>1. <<a>> \in Seq({a, b}) /\ <<b>> \in Seq({a, b})
  OBVIOUS
<1>2. s \in Seq({a, b}) /\ Len(s) = 2 /\ s[1] = a /\ s[2] = b
  BY <1>1
<1> HIDE DEF s
<1>3. s = <<s[1], s[2]>>
  BY <1>2
<1> QED
  BY <1>2, <1>3 DEF s

LEMMA PlanIs ==
    ASSUME NEW p \in Pod, NEW t
    PROVE  /\ applyUpdate(p, t) \in Plans
           /\ \A c \in Calls : applyUpdate(p, t) \in {<<c>>, <<"identity", c>>} => Justified(c, p)
<1> DEFINE plan == applyUpdate(p, t)
           Just(q) == q \in Plans /\ \A c \in Calls : q \in {<<c>>, <<"identity", c>>} => Justified(c, p)
<1>0. p.exists \in BOOLEAN /\ p.phase \in {"Pending", "Running"}
  BY FieldTypes
<1>1. Just(<< >>)
  BY DEF Plans
<1>2. ASSUME NEW c \in Calls, Justified(c, p)
      PROVE  Just(<<c>>) /\ Just(<<"identity", c>>)
  <2>1. \A d \in Calls : <<c>> \in {<<d>>, <<"identity", d>>} => d = c
    OBVIOUS
  <2>2. \A d \in Calls : <<"identity", c>> \in {<<d>>, <<"identity", d>>} => d = c
    OBVIOUS
  <2> QED
    BY <1>2, <2>1, <2>2 DEF Plans
<1>3. \A c \in {"create", "claim", "identity"} : c \in Calls /\ Justified(c, p)
  BY DEF Calls, Justified
<1> HIDE DEF Just
<1>4. CASE ~p.exists
  <2>1. plan = <<"create">>
    BY <1>4 DEF applyUpdate
  <2> QED
    BY <1>2, <1>3, <2>1 DEF Just
<1>5. CASE p.exists /\ p.phase = "Pending"
  <2>1. plan = <<"claim">>
    BY <1>5 DEF applyUpdate
  <2> QED
    BY <1>2, <1>3, <2>1 DEF Just
<1>6. CASE p.exists /\ p.phase = "Running"
  <2>1. plan = IF p.del \/ ~isAvailable(p) THEN << >> ELSE IdentityCall(p) \o RollingCall(p, t)
    BY <1>6 DEF applyUpdate
  <2>2. IdentityCall(p) \in {<< >>, <<"identity">>}
    BY DEF IdentityCall
  <2>3. RollingCall(p, t) = << >> \/ \E c \in Calls : RollingCall(p, t) = <<c>> /\ Justified(c, p)
    BY <1>6, RollingPlan
  <2>4. CASE RollingCall(p, t) = << >>
    <3>1. IdentityCall(p) \o RollingCall(p, t) \in {<< >>, <<"identity">>}
      BY <2>2, <2>4
    <3>2. plan \in {<< >>, <<"identity">>}
      BY <2>1, <3>1
    <3> QED
      BY <1>1, <1>2, <1>3, <3>2 DEF Just
  <2>5. ASSUME NEW c \in Calls, RollingCall(p, t) = <<c>>, Justified(c, p)
        PROVE  Just(plan)
    <3>1. IdentityCall(p) \o RollingCall(p, t) \in {<<c>>, <<"identity", c>>}
      <4>1. << >> \o <<c>> = <<c>>
        OBVIOUS
      <4>2. <<"identity">> \o <<c>> = <<"identity", c>>
        BY TwoCalls
      <4> QED
        BY <2>2, <2>5, <4>1, <4>2
    <3>2. plan \in {<< >>, <<c>>, <<"identity", c>>}
      BY <2>1, <3>1
    <3> QED
      BY <1>1, <1>2, <2>5, <3>2
  <2> QED
    BY <2>3, <2>4, <2>5 DEF Just
<1> QED
  BY <1>0, <1>4, <1>5, <1>6

\* The durations that are stored.
LEMMA RoundedUpType ==
    ASSUME NEW w \in Nat
    PROVE  roundedUp(w) \in Nat /\ roundedUp(w) <= w + 1
<1>1. w % 2 \in 0 .. 1
  OBVIOUS
<1> QED
  BY <1>1 DEF roundedUp

LEMMA WaitType ==
    ASSUME NEW p \in Pod, NEW t
    PROVE  waitFor(p, t) \in 0 .. Grace + MinReady + 1
<1>1. /\ p.since \in 0 .. MinReady /\ p.annAge \in 0 .. Grace
      /\ Grace \in Nat /\ MinReady \in Nat
  BY FieldTypes, InPlaceAssumption
<1>2. secondsLeft(p) \in 0 .. Grace
  BY <1>1 DEF secondsLeft
<1>3. roundedUp(secondsLeft(p)) \in 0 .. Grace + 1
  BY <1>1, <1>2, RoundedUpType
<1>4. waitFor(p, t) \in {0, MinReady - p.since, roundedUp(secondsLeft(p))}
  <2>1. CASE ~p.exists \/ p.phase = "Pending" \/ p.del
    BY <2>1 DEF waitFor
  <2>2. CASE ~(~p.exists \/ p.phase = "Pending" \/ p.del)
    BY <2>2 DEF waitFor
  <2> QED
    BY <2>1, <2>2
<1> QED
  BY <1>1, <1>3, <1>4

-----------------------------------------------------------------------------
(***************************************************************************)
(* The invariant                                                           *)
(***************************************************************************)
TypeInv == TypeOK /\ RecType(rec)

\* A lister that has caught up holds the Pod of the server.
FreshInv == podFresh => podCache = pod

\* As long as the Pod decided on is the server's, the calls still due are justified.
CallInv == rec.base => \A c \in Calls : Due(rec, c) => Justified(c, pod)

\* Nothing having gone astray, an annotated Pod has been out of service for as long as
\* the annotation is old,
OffInv == ~astray /\ pod.ann # "none" => pod.cond = "False" /\ offFor >= pod.annAge

\* and a running Pod whose update, if any, counts as done runs its image.
RunInv == ~astray /\ pod.phase = "Running" /\ IsInPlaceUpdateDone(pod) =>
              pod.up /\ pod.run = pod.img

GoneInv == ~pod.exists => pod.ann = "none"

PodInv == GoneInv /\ OffInv /\ RunInv

-----------------------------------------------------------------------------
(***************************************************************************)
(* Types                                                                   *)
(***************************************************************************)
LEMMA TypeInit == Init => TypeInv
<1> SUFFICES ASSUME Init PROVE TypeInv
  OBVIOUS
<1>1. pod \in Pod
  <2>1. FirstRev \in Revs /\ MinReady \in 0 .. MinReady
    BY InPlaceAssumption
  <2>2. ASSUME NEW c \in {"none", "True"}
        PROVE  RunningPod(c) \in Pod
    BY <2>1, NoPodType DEF RunningPod, NoPod, Pod
  <2> QED
    BY <2>2, NoPodType DEF Init
<1>2. app \in App
  BY InPlaceAssumption DEF Init, App
<1>3. RecType(rec) /\ rec \in Reconcile
  <2>1. rec = Idle
    BY DEF Init
  <2>2. RecType(rec)
    BY <2>1, IdleType
  <2> QED
    BY <2>2 DEF RecType
<1>4. /\ dirty \in BOOLEAN /\ astray \in BOOLEAN /\ appFresh \in BOOLEAN /\ podFresh \in BOOLEAN
      /\ store = 0 /\ offFor = 0
  BY DEF Init
<1>4a. store \in 0 .. Grace + MinReady + 1 /\ offFor \in 0 .. Grace
  BY <1>4, InPlaceAssumption
<1>5. claim \in Claim /\ appCache = app /\ podCache = pod /\ claimCache = claim
  BY DEF Init, Claim
<1> QED
  BY <1>1, <1>2, <1>3, <1>4, <1>4a, <1>5 DEF TypeInv, TypeOK

LEMMA AfterCall ==
    ASSUME RecType(rec), NEW c \in Calls, Calling(c),
           rec' \in {Done(rec), Failed(rec), Fallback(rec)}
    PROVE  /\ RecType(rec)' /\ rec'.base = rec.base
           /\ \A d \in Calls : Due(rec', d) => Due(rec, d) \/ d = "delete"
<1>1. CASE rec' = Done(rec)
  <2>1. RecType(rec') /\ rec'.base = rec.base /\ \A d \in Calls : Due(rec', d) => Due(rec, d)
    BY <1>1, CallingIs
  <2> QED
    BY <2>1 DEF RecType
<1>2. CASE rec' = Failed(rec)
  <2>1. RecType(rec') /\ rec'.todo = << >>
    BY <1>2, FailedType
  <2>2. rec'.base = rec.base
    BY <1>2 DEF Failed, RecType, Reconcile
  <2>3. \A d \in Calls : ~Due(rec', d)
    BY <2>1 DEF Due
  <2> QED
    BY <2>1, <2>2, <2>3 DEF RecType
<1>3. CASE rec' = Fallback(rec)
  <2>1. RecType(rec') /\ rec'.todo = <<"delete">>
    BY <1>3, FallbackType
  <2>2. rec'.base = rec.base
    BY <1>3 DEF Fallback, RecType, Reconcile
  <2>3. \A d \in Calls : Due(rec', d) => d = "delete"
    BY <2>1 DEF Due
  <2> QED
    BY <2>1, <2>2, <2>3 DEF RecType
<1> QED
  BY <1>1, <1>2, <1>3

LEMMA PushType ==
    ASSUME store \in 0 .. Grace + MinReady + 1, NEW d \in 0 .. Grace + MinReady + 1, Push(d)
    PROVE  store' \in 0 .. Grace + MinReady + 1
BY DEF Push

LEMMA BeginType == TypeInv /\ Begin => TypeInv'
<1> SUFFICES ASSUME TypeInv, Begin PROVE TypeInv'
  OBVIOUS
<1>1. /\ podCache \in Pod /\ appCache \in App /\ podFresh \in BOOLEAN
      /\ store \in 0 .. Grace + MinReady + 1
  BY DEF TypeInv, TypeOK
<1>2. appCache.tmpl \in Revs /\ appCache.upd \in Revs \cup {NoRev}
  BY <1>1 DEF App
<1> DEFINE todo == applyUpdate(podCache, appCache.tmpl)
<1>3. todo \in Plans /\ todo \in Seq(Calls)
  BY <1>1, PlanIs, PlansAreCalls
<1>4. RecType(rec)'
  <2>1. rec' = [busy |-> TRUE, todo |-> todo, upd |-> appCache.tmpl, seen |-> appCache.upd,
                err |-> FALSE, base |-> podFresh]
    BY DEF Begin
  <2> HIDE DEF todo
  <2>2. rec' \in Reconcile /\ rec'.todo = todo /\ rec'.busy
    BY <1>1, <1>2, <1>3, <2>1 DEF Reconcile
  <2> QED
    BY <1>3, <2>2 DEF RecType
<1>5. store' \in 0 .. Grace + MinReady + 1
  BY <1>1, WaitType, PushType DEF Begin
<1>6. UNCHANGED <<app, appCache, appFresh, pod, podCache, podFresh, claim, claimCache,
                  offFor, astray>> /\ dirty' = FALSE
  BY DEF Begin, cached
<1> QED
  BY <1>4, <1>5, <1>6 DEF TypeInv, TypeOK, RecType

\* The calls change the Pod, the claim and little else.
LEMMA CallType ==
    ASSUME TypeInv, NEW c \in Calls, Calling(c),
           rec' \in {Done(rec), Failed(rec), Fallback(rec)},
           pod' \in Pod, podFresh' \in BOOLEAN, claim' \in Claim,
           store' \in 0 .. Grace + MinReady + 1, offFor' \in 0 .. Grace, astray' \in BOOLEAN,
           UNCHANGED <<app, appCache, appFresh, podCache, claimCache, dirty>>
    PROVE  TypeInv'
<1>1. RecType(rec)'
  BY AfterCall DEF TypeInv
<1> QED
  BY <1>1 DEF TypeInv, TypeOK, RecType

LEMMA CreateType == TypeInv /\ CreateStatefulPod => TypeInv'
<1> SUFFICES ASSUME TypeInv, CreateStatefulPod PROVE TypeInv'
  OBVIOUS
<1>1. NewPod \in Pod
  BY NewPodType DEF TypeInv, TypeOK, Reconcile
<1>2. pod' \in Pod /\ podFresh' \in BOOLEAN
  BY <1>1 DEF CreateStatefulPod, PodWritten, CallFails, TypeInv, TypeOK
<1>3. claim' \in Claim
  BY DEF CreateStatefulPod, createPVC, createPVCFails, Claim, TypeInv, TypeOK
<1>4. rec' \in {Done(rec), Failed(rec)}
  BY DEF CreateStatefulPod, CallFails
<1>5. Calling("create") /\ "create" \in Calls
      /\ UNCHANGED <<app, appCache, appFresh, podCache, claimCache, store, dirty, astray, offFor>>
  BY DEF CreateStatefulPod, Calls, Rest, cached
<1>6. store \in 0 .. Grace + MinReady + 1 /\ offFor \in 0 .. Grace /\ astray \in BOOLEAN
  BY DEF TypeInv, TypeOK
<1> QED
  BY <1>2, <1>3, <1>4, <1>5, <1>6, CallType

LEMMA ClaimType == TypeInv /\ ClaimForPending => TypeInv'
<1> SUFFICES ASSUME TypeInv, ClaimForPending PROVE TypeInv'
  OBVIOUS
<1>1. UNCHANGED <<pod, podFresh>> /\ rec' \in {Done(rec), Failed(rec)}
  BY DEF ClaimForPending, CallFails
<1>2. claim' \in Claim
  BY DEF ClaimForPending, createPVC, createPVCFails, Claim, TypeInv, TypeOK
<1>3. Calling("claim") /\ "claim" \in Calls
      /\ UNCHANGED <<app, appCache, appFresh, podCache, claimCache, store, dirty, astray, offFor>>
  BY DEF ClaimForPending, Calls, Rest, cached
<1>4. /\ store \in 0 .. Grace + MinReady + 1 /\ offFor \in 0 .. Grace /\ astray \in BOOLEAN
      /\ pod \in Pod /\ podFresh \in BOOLEAN
  BY DEF TypeInv, TypeOK
<1> QED
  BY <1>1, <1>2, <1>3, <1>4, CallType

LEMMA IdentityType ==
    ASSUME NEW p \in Pod
    PROVE  LET q == updatePodIdentity(p)
           IN  /\ q \in Pod
               /\ q.ann = p.ann /\ q.annAge = p.annAge /\ q.phase = p.phase /\ q.cond = p.cond
               /\ q.up = p.up /\ q.run = p.run /\ q.img = p.img /\ q.before = p.before
               /\ q.exists = p.exists
BY DEF updatePodIdentity, Pod

LEMMA UpdateType == TypeInv /\ UpdateStatefulPod => TypeInv'
<1> SUFFICES ASSUME TypeInv, UpdateStatefulPod PROVE TypeInv'
  OBVIOUS
<1>0. pod \in Pod /\ podFresh \in BOOLEAN
  BY DEF TypeInv, TypeOK
<1>1. pod' \in Pod /\ podFresh' \in BOOLEAN
  BY <1>0, IdentityType DEF UpdateStatefulPod, PodWritten, CallFails
<1>2. claim' \in Claim
  BY DEF UpdateStatefulPod, createPVC, createPVCFails, Claim, TypeInv, TypeOK
<1>3. rec' \in {Done(rec), Failed(rec)}
  BY DEF UpdateStatefulPod, CallFails
<1>4. Calling("identity") /\ "identity" \in Calls
      /\ UNCHANGED <<app, appCache, appFresh, podCache, claimCache, store, dirty, astray, offFor>>
  BY DEF UpdateStatefulPod, Calls, Rest, cached
<1>5. store \in 0 .. Grace + MinReady + 1 /\ offFor \in 0 .. Grace /\ astray \in BOOLEAN
  BY DEF TypeInv, TypeOK
<1> QED
  BY <1>1, <1>2, <1>3, <1>4, <1>5, CallType

LEMMA DeletedType ==
    ASSUME NEW p \in Pod
    PROVE  LET q == [p EXCEPT !.del = TRUE]
           IN  /\ q \in Pod
               /\ q.ann = p.ann /\ q.annAge = p.annAge /\ q.phase = p.phase /\ q.cond = p.cond
               /\ q.up = p.up /\ q.run = p.run /\ q.img = p.img /\ q.before = p.before
               /\ q.exists = p.exists
BY DEF Pod

LEMMA DeleteType == TypeInv /\ DeleteStatefulPod => TypeInv'
<1> SUFFICES ASSUME TypeInv, DeleteStatefulPod PROVE TypeInv'
  OBVIOUS
<1>0. /\ store \in 0 .. Grace + MinReady + 1 /\ offFor \in 0 .. Grace /\ astray \in BOOLEAN
      /\ pod \in Pod /\ podFresh \in BOOLEAN /\ claim \in Claim
  BY DEF TypeInv, TypeOK
<1>1. pod' \in Pod /\ podFresh' \in BOOLEAN
  BY <1>0, DeletedType DEF DeleteStatefulPod, PodWritten, CallFails
<1>2. rec' \in {Done(rec), Failed(rec)}
  BY DEF DeleteStatefulPod, CallFails
<1>3. Calling("delete") /\ "delete" \in Calls
      /\ UNCHANGED <<app, appCache, appFresh, podCache, claim, claimCache, store, dirty, astray,
                     offFor>>
  BY DEF DeleteStatefulPod, Calls, Rest, cached
<1> QED
  BY <1>0, <1>1, <1>2, <1>3, CallType

LEMMA OffType == TypeInv /\ SetConditionFalse => TypeInv'
<1> SUFFICES ASSUME TypeInv, SetConditionFalse PROVE TypeInv'
  OBVIOUS
<1>0. /\ store \in 0 .. Grace + MinReady + 1 /\ offFor \in 0 .. Grace /\ astray \in BOOLEAN
      /\ pod \in Pod /\ podFresh \in BOOLEAN /\ claim \in Claim /\ 0 \in 0 .. Grace
  BY InPlaceAssumption DEF TypeInv, TypeOK
<1>1. SetPodCondition(pod, "False") \in Pod
  BY <1>0, SetPodConditionType
<1>2. pod' \in Pod /\ podFresh' \in BOOLEAN /\ offFor' \in 0 .. Grace
  BY <1>0, <1>1 DEF SetConditionFalse, Rewrites, RewriteFails, PodWritten
<1>3. rec' \in {Done(rec), Fallback(rec)} /\ astray' \in BOOLEAN
  BY <1>0 DEF SetConditionFalse, Strays
<1>4. Calling("off") /\ "off" \in Calls
      /\ UNCHANGED <<app, appCache, appFresh, podCache, claim, claimCache, store, dirty>>
  BY DEF SetConditionFalse, Calls, cached
<1> QED
  BY <1>0, <1>2, <1>3, <1>4, CallType

LEMMA AnnotateType == TypeInv /\ Annotate => TypeInv'
<1> SUFFICES ASSUME TypeInv, Annotate PROVE TypeInv'
  OBVIOUS
<1>0. /\ store \in 0 .. Grace + MinReady + 1 /\ offFor \in 0 .. Grace /\ astray \in BOOLEAN
      /\ pod \in Pod /\ podFresh \in BOOLEAN /\ claim \in Claim
  BY DEF TypeInv, TypeOK
<1>1. [pod EXCEPT !.ann = "grace", !.annAge = 0] \in Pod
  BY <1>0, AnnotationType
<1>2. pod' \in Pod /\ podFresh' \in BOOLEAN
  BY <1>0, <1>1 DEF Annotate, Rewrites, RewriteFails, PodWritten
<1>3. store' \in 0 .. Grace + MinReady + 1
  <2>1. roundedUp(Grace) \in 0 .. Grace + MinReady + 1
    BY RoundedUpType, InPlaceAssumption
  <2> QED
    BY <1>0, <2>1, PushType DEF Annotate
<1>4. rec' \in {Done(rec), Fallback(rec)} /\ astray' \in BOOLEAN
  BY <1>0 DEF Annotate, Strays
<1>5. Calling("annotate") /\ "annotate" \in Calls
      /\ UNCHANGED <<app, appCache, appFresh, podCache, claim, claimCache, dirty, offFor>>
  BY DEF Annotate, Calls, cached
<1> QED
  BY <1>0, <1>2, <1>3, <1>4, <1>5, CallType

LEMMA ImageType == TypeInv /\ WriteImage => TypeInv'
<1> SUFFICES ASSUME TypeInv, WriteImage PROVE TypeInv'
  OBVIOUS
<1>0. /\ store \in 0 .. Grace + MinReady + 1 /\ offFor \in 0 .. Grace /\ astray \in BOOLEAN
      /\ pod \in Pod /\ podFresh \in BOOLEAN /\ claim \in Claim
      /\ rec.seen \in Revs \cup {NoRev} /\ rec.upd \in Revs \cup {NoRev}
  BY DEF TypeInv, TypeOK, Reconcile
<1>1. NewImage(pod, rec.seen, rec.upd) \in Pod
  BY <1>0, NewImageType
<1>2. /\ pod' = pod \/ pod' = NewImage(pod, rec.seen, rec.upd)
      /\ podFresh' \in BOOLEAN
  BY <1>0 DEF WriteImage, NewImage, Rewrites, RewriteFails, PodWritten
<1>3. rec' \in {Done(rec), Fallback(rec)} /\ astray' \in BOOLEAN
  BY <1>0 DEF WriteImage
<1>4. Calling("image") /\ "image" \in Calls
      /\ UNCHANGED <<app, appCache, appFresh, podCache, claim, claimCache, store, dirty, offFor>>
  BY DEF WriteImage, Calls, cached
<1> QED
  BY <1>0, <1>1, <1>2, <1>3, <1>4, CallType

CleanedUp == [SetPodCondition(pod, "True") EXCEPT !.ann = "none", !.annAge = 0]

LEMMA CleanedUpType ==
    ASSUME pod \in Pod
    PROVE  /\ CleanedUp \in Pod
           /\ CleanedUp.ann = "none" /\ CleanedUp.annAge = 0 /\ CleanedUp.phase = pod.phase
           /\ CleanedUp.cond = "True" /\ CleanedUp.up = pod.up /\ CleanedUp.run = pod.run
           /\ CleanedUp.img = pod.img /\ CleanedUp.before = pod.before
           /\ CleanedUp.exists = pod.exists
<1> DEFINE p == SetPodCondition(pod, "True")
<1>1. /\ p \in Pod /\ p.phase = pod.phase /\ p.cond = "True" /\ p.up = pod.up
      /\ p.run = pod.run /\ p.img = pod.img /\ p.before = pod.before /\ p.exists = pod.exists
  BY SetPodConditionType
<1>2. CleanedUp = [p EXCEPT !.ann = "none", !.annAge = 0]
  BY DEF CleanedUp
<1> HIDE DEF p
<1> QED
  BY <1>1, <1>2, AnnotationType

LEMMA CleanUpType == TypeInv /\ CleanUpInPlaceUpdate => TypeInv'
<1> SUFFICES ASSUME TypeInv, CleanUpInPlaceUpdate PROVE TypeInv'
  OBVIOUS
<1>0. /\ store \in 0 .. Grace + MinReady + 1 /\ offFor \in 0 .. Grace /\ astray \in BOOLEAN
      /\ pod \in Pod /\ podFresh \in BOOLEAN /\ claim \in Claim /\ 0 \in 0 .. Grace
  BY InPlaceAssumption DEF TypeInv, TypeOK
<1>1. CleanedUp \in Pod
  BY <1>0, CleanedUpType
<1>2. pod' \in Pod /\ podFresh' \in BOOLEAN /\ offFor' \in 0 .. Grace
  BY <1>0, <1>1 DEF CleanUpInPlaceUpdate, CleanedUp, Rewrites, RewriteFails, PodWritten
<1>3. rec' \in {Done(rec), Failed(rec)} /\ astray' \in BOOLEAN
  BY <1>0 DEF CleanUpInPlaceUpdate
<1>4. Calling("cleanup") /\ "cleanup" \in Calls
      /\ UNCHANGED <<app, appCache, appFresh, podCache, claim, claimCache, store, dirty>>
  BY DEF CleanUpInPlaceUpdate, Calls, cached
<1> QED
  BY <1>0, <1>2, <1>3, <1>4, CallType

LEMMA StatusType == TypeInv /\ (StatusKept \/ StatusWritten) => TypeInv' /\ rec' = Idle
<1> SUFFICES ASSUME TypeInv, StatusKept \/ StatusWritten PROVE TypeInv' /\ rec' = Idle
  OBVIOUS
<1>1. /\ rec' = Idle /\ store' = 0 /\ dirty' \in BOOLEAN
      /\ UNCHANGED <<appCache, pod, podCache, podFresh, claim, claimCache, offFor, astray>>
  <2>1. \E r : Return(r)
    BY DEF StatusKept, StatusWritten
  <2>2. rec' = Idle /\ store' = 0 /\ dirty' \in BOOLEAN
    BY <2>1 DEF Return
  <2>3. UNCHANGED <<appCache, pod, podCache, podFresh, claim, claimCache, offFor, astray>>
    BY DEF StatusKept, StatusWritten, cached
  <2> QED
    BY <2>2, <2>3
<1>2. app' \in App /\ appFresh' \in BOOLEAN
  <2>1. app \in App /\ appFresh \in BOOLEAN /\ rec.upd \in Revs \cup {NoRev}
    BY DEF TypeInv, TypeOK, Reconcile
  <2>2. [app EXCEPT !.upd = rec.upd] \in App
    BY <2>1 DEF App
  <2> QED
    BY <2>1, <2>2 DEF StatusKept, StatusWritten, cached
<1>3. RecType(rec') /\ rec' \in Reconcile
  <2>1. RecType(rec')
    BY <1>1, IdleType
  <2> QED
    BY <2>1 DEF RecType
<1>4. store' \in 0 .. Grace + MinReady + 1
  BY <1>1, InPlaceAssumption
<1> QED
  BY <1>1, <1>2, <1>3, <1>4 DEF TypeInv, TypeOK, RecType

\* What others make of the Pod: it is gone; its container has started, or has stopped for
\* the sake of a new image; or something else about it has changed.
OthersMake(p) ==
    \/ p = NoPod
    \/ /\ p.exists = pod.exists /\ p.ann = pod.ann /\ p.annAge = pod.annAge
       /\ p.cond = pod.cond /\ p.img = pod.img
       /\ \/ p.up /\ p.run = p.img
          \/ /\ p.phase = pod.phase /\ p.run = pod.run /\ p.before = pod.before
             /\ p.up = pod.up \/ (~p.up /\ pod.run # pod.img)

OthersAct == Kubelet \/ EditLabels \/ EvictPod

LEMMA OthersStep ==
    ASSUME pod \in Pod, OthersAct
    PROVE  \E p \in Pod : ByOthers(p) /\ OthersMake(p)
<1>1. CASE PodRuns
  <2> DEFINE q == Started(pod)
             p == [q EXCEPT !.phase = "Running"]
  <2>1. /\ q \in Pod /\ q.up /\ q.run = pod.img /\ q.img = pod.img /\ q.cond = pod.cond
        /\ q.ann = pod.ann /\ q.annAge = pod.annAge /\ q.exists = pod.exists
    BY StartedType
  <2>2. ByOthers(p)
    BY <1>1 DEF PodRuns
  <2> HIDE DEF q
  <2>3. /\ p \in Pod /\ p.up = q.up /\ p.run = q.run /\ p.img = q.img /\ p.cond = q.cond
        /\ p.ann = q.ann /\ p.annAge = q.annAge /\ p.exists = q.exists
    BY <2>1 DEF Pod
  <2> QED
    BY <2>1, <2>2, <2>3 DEF OthersMake
<1>2. CASE ContainerStops
  <2> DEFINE p == [pod EXCEPT !.up = FALSE]
  <2>1. /\ p \in Pod /\ ~p.up /\ p.run = pod.run /\ p.img = pod.img /\ p.cond = pod.cond
        /\ p.ann = pod.ann /\ p.annAge = pod.annAge /\ p.exists = pod.exists
        /\ p.phase = pod.phase /\ p.before = pod.before
    BY DEF Pod
  <2>2. ByOthers(p) /\ pod.run # pod.img
    BY <1>2 DEF ContainerStops
  <2> QED
    BY <2>1, <2>2 DEF OthersMake
<1>3. CASE ContainerStarts
  <2> DEFINE p == Started(pod)
  <2>1. /\ p \in Pod /\ p.up /\ p.run = pod.img /\ p.img = pod.img /\ p.cond = pod.cond
        /\ p.ann = pod.ann /\ p.annAge = pod.annAge /\ p.exists = pod.exists
    BY StartedType
  <2>2. ByOthers(p)
    BY <1>3 DEF ContainerStarts
  <2> QED
    BY <2>1, <2>2 DEF OthersMake
<1>4. CASE ReadyReported
  <2> DEFINE p == [pod EXCEPT !.ready = ~@, !.since = 0]
  <2>0. 0 \in 0 .. MinReady
    BY InPlaceAssumption
  <2>1. /\ p \in Pod /\ p.up = pod.up /\ p.run = pod.run /\ p.img = pod.img
        /\ p.cond = pod.cond /\ p.ann = pod.ann /\ p.annAge = pod.annAge
        /\ p.exists = pod.exists /\ p.phase = pod.phase /\ p.before = pod.before
    BY <2>0 DEF Pod
  <2>2. ByOthers(p)
    BY <1>4 DEF ReadyReported
  <2> QED
    BY <2>1, <2>2 DEF OthersMake
<1>5. CASE PodGone
  BY <1>5, NoPodType DEF PodGone, OthersMake
<1>6. CASE EditLabels
  <2> DEFINE p == [pod EXCEPT !.owned = FALSE]
  <2>1. /\ p \in Pod /\ p.up = pod.up /\ p.run = pod.run /\ p.img = pod.img
        /\ p.cond = pod.cond /\ p.ann = pod.ann /\ p.annAge = pod.annAge
        /\ p.exists = pod.exists /\ p.phase = pod.phase /\ p.before = pod.before
    BY DEF Pod
  <2>2. ByOthers(p)
    BY <1>6 DEF EditLabels
  <2> QED
    BY <2>1, <2>2 DEF OthersMake
<1>7. CASE EvictPod
  <2> DEFINE p == [pod EXCEPT !.del = TRUE]
  <2>1. /\ p \in Pod /\ p.up = pod.up /\ p.run = pod.run /\ p.img = pod.img
        /\ p.cond = pod.cond /\ p.ann = pod.ann /\ p.annAge = pod.annAge
        /\ p.exists = pod.exists /\ p.phase = pod.phase /\ p.before = pod.before
    BY DeletedType
  <2>2. ByOthers(p)
    BY <1>7 DEF EvictPod
  <2> QED
    BY <2>1, <2>2 DEF OthersMake
<1> QED
  BY <1>1, <1>2, <1>3, <1>4, <1>5, <1>6, <1>7 DEF OthersAct, Kubelet

LEMMA OthersType ==
    ASSUME TypeInv, NEW p \in Pod, ByOthers(p)
    PROVE  TypeInv' /\ ~rec'.base
<1>1. RecType(rec') /\ ~rec'.base
  BY UnfoundedType DEF TypeInv, ByOthers, PodChanges
<1>2. pod' = p /\ podFresh' = FALSE /\ offFor' \in {offFor, 0}
      /\ UNCHANGED <<app, appCache, appFresh, podCache, claim, claimCache, store, astray, dirty>>
  BY DEF ByOthers, PodChanges, PodWritten, cached
<1>3. offFor' \in 0 .. Grace
  BY <1>2, InPlaceAssumption DEF TypeInv, TypeOK
<1>4. rec' \in Reconcile
  BY <1>1 DEF RecType
<1> QED
  BY <1>1, <1>2, <1>3, <1>4 DEF TypeInv, TypeOK, RecType

LEMMA TickType == TypeInv /\ Tick => TypeInv'
<1> SUFFICES ASSUME TypeInv, Tick PROVE TypeInv'
  OBVIOUS
<1>1. pod' \in Pod /\ podCache' \in Pod
  BY AgedType DEF TypeInv, TypeOK, Tick
<1>2. offFor' \in 0 .. Grace
  <2>1. Older(offFor, Grace) \in 0 .. Grace /\ 0 \in 0 .. Grace
    BY OlderType, InPlaceAssumption DEF TypeInv, TypeOK
  <2> QED
    BY <2>1 DEF Tick
<1>3. UNCHANGED <<podFresh, app, appCache, appFresh, claim, claimCache, rec, store, astray, dirty>>
  BY DEF Tick, Outside
<1> QED
  BY <1>1, <1>2, <1>3 DEF TypeInv, TypeOK, RecType

LEMMA CrashType == TypeInv /\ Crash => TypeInv'
<1> SUFFICES ASSUME TypeInv, Crash PROVE TypeInv'
  OBVIOUS
<1>1. RecType(rec') /\ rec' \in Reconcile
  <2>1. RecType(rec')
    BY IdleType DEF Crash
  <2> QED
    BY <2>1 DEF RecType
<1>2. store' \in 0 .. Grace + MinReady + 1
  BY InPlaceAssumption DEF Crash
<1>3. /\ appCache' = app /\ appFresh' = TRUE /\ podCache' = pod /\ podFresh' = TRUE
      /\ claimCache' = claim /\ dirty' = TRUE /\ UNCHANGED <<app, pod, claim, offFor, astray>>
  BY DEF Crash
<1> QED
  BY <1>1, <1>2, <1>3 DEF TypeInv, TypeOK, RecType

\* The steps that leave the Pod on the server, and the reconcile, as they are.
Elsewhere ==
    \/ SyncApp \/ SyncPod \/ SyncClaim \/ Resync \/ ClaimGone \/ DeleteClaim
    \/ \E t \in Revs : EditTemplate(t)

LEMMA ElsewhereType ==
    TypeInv /\ Elsewhere => TypeInv' /\ UNCHANGED <<pod, rec, offFor, astray>>
<1> SUFFICES ASSUME TypeInv, Elsewhere
             PROVE  TypeInv' /\ UNCHANGED <<pod, rec, offFor, astray>>
  OBVIOUS
<1>1. UNCHANGED <<pod, rec, offFor, astray, store>>
  BY DEF Elsewhere, SyncApp, SyncPod, SyncClaim, Resync, ClaimGone, DeleteClaim, EditTemplate,
         Outside, PodKept
<1>2. podCache' \in {podCache, pod} /\ podFresh' \in BOOLEAN
  BY DEF Elsewhere, SyncApp, SyncPod, SyncClaim, Resync, ClaimGone, DeleteClaim, EditTemplate,
         PodKept, cached, TypeInv, TypeOK
<1>3. claim' \in Claim /\ claimCache' \in {claimCache, claim}
  BY DEF Elsewhere, SyncApp, SyncPod, SyncClaim, Resync, ClaimGone, DeleteClaim, EditTemplate,
         Outside, cached, TypeInv, TypeOK, Claim
<1>4. app' \in App /\ appCache' \in {appCache, app} /\ appFresh' \in BOOLEAN
  <2>1. app \in App /\ \A t \in Revs : [app EXCEPT !.tmpl = t] \in App
    BY DEF TypeInv, TypeOK, App
  <2> QED
    BY <2>1 DEF Elsewhere, SyncApp, SyncPod, SyncClaim, Resync, ClaimGone, DeleteClaim,
                EditTemplate, Outside, cached, TypeInv, TypeOK
<1>5. dirty' \in BOOLEAN
  BY DEF Elsewhere, SyncApp, SyncPod, SyncClaim, Resync, ClaimGone, DeleteClaim, EditTemplate,
         TypeInv, TypeOK
<1> QED
  BY <1>1, <1>2, <1>3, <1>4, <1>5 DEF TypeInv, TypeOK, RecType

LEMMA TypeNext == TypeInv /\ [Next]_vars => TypeInv'
<1> SUFFICES ASSUME TypeInv, [Next]_vars PROVE TypeInv'
  OBVIOUS
<1>1. CASE Controller
  BY <1>1, BeginType, CreateType, ClaimType, UpdateType, DeleteType, OffType, AnnotateType,
     ImageType, CleanUpType, StatusType DEF Controller
<1>2. CASE OthersAct
  BY <1>2, OthersStep, OthersType DEF TypeInv, TypeOK
<1>3. CASE Elsewhere \/ Crash \/ Tick
  BY <1>3, ElsewhereType, CrashType, TickType
<1>4. CASE UNCHANGED vars
  BY <1>4 DEF TypeInv, TypeOK, RecType, vars, cached
<1> QED
  BY <1>1, <1>2, <1>3, <1>4 DEF Next, Environment, OthersAct, Elsewhere

LEMMA TypeAlways == Spec => []TypeInv
BY TypeInit, TypeNext, PTL DEF Spec

\* Types, the bound on the stored durations among them.
THEOREM InPlaceTypeCorrect == Spec => []TypeOK
<1>1. TypeInv => TypeOK
  BY DEF TypeInv
<1> QED
  BY <1>1, TypeAlways, PTL

-----------------------------------------------------------------------------
(***************************************************************************)
(* The lister and the calls                                                *)
(***************************************************************************)
LEMMA FreshInit == Init => FreshInv
BY DEF Init, FreshInv

LEMMA FreshNext == FreshInv /\ [Next]_vars => FreshInv'
<1> SUFFICES ASSUME FreshInv, [Next]_vars PROVE FreshInv'
  OBVIOUS
<1>1. CASE podFresh' = FALSE
  BY <1>1 DEF FreshInv
<1>2. CASE UNCHANGED <<pod, podCache, podFresh>>
  BY <1>2 DEF FreshInv
<1>3. CASE Tick
  BY <1>3 DEF Tick, FreshInv
<1>4. CASE SyncPod \/ Crash
  BY <1>4 DEF SyncPod, Crash, FreshInv
<1>5. CASE Controller
  <2>1. CASE Begin \/ StatusKept \/ StatusWritten \/ ClaimForPending
    BY <1>1, <1>2, <2>1 DEF Begin, StatusKept, StatusWritten, ClaimForPending, cached, CallFails, Rest
  <2>2. CASE CreateStatefulPod \/ UpdateStatefulPod \/ DeleteStatefulPod
    BY <1>1, <1>2, <2>2 DEF CreateStatefulPod, UpdateStatefulPod, DeleteStatefulPod, cached,
                            CallFails, Rest, PodWritten
  <2>3. CASE SetConditionFalse \/ Annotate \/ WriteImage \/ CleanUpInPlaceUpdate
    BY <1>1, <1>2, <2>3 DEF SetConditionFalse, Annotate, WriteImage, CleanUpInPlaceUpdate,
                            cached, Rewrites, RewriteFails, PodWritten
  <2> QED
    BY <1>5, <2>1, <2>2, <2>3 DEF Controller
<1>6. CASE OthersAct
  BY <1>1, <1>6 DEF OthersAct, Kubelet, PodRuns, ContainerStops, ContainerStarts, ReadyReported,
                    PodGone, EditLabels, EvictPod, ByOthers, PodChanges, PodWritten
<1>7. CASE Elsewhere
  BY <1>2, <1>4, <1>7 DEF Elsewhere, SyncApp, SyncClaim, Resync, ClaimGone, DeleteClaim,
                          EditTemplate, PodKept, cached
<1>8. CASE UNCHANGED vars
  BY <1>2, <1>8 DEF vars, cached
<1> QED
  BY <1>3, <1>4, <1>5, <1>6, <1>7, <1>8 DEF Next, Environment, OthersAct, Elsewhere

\* What justifies a call is the same for two Pods that agree in these respects.
Alike(p, q) == /\ p.phase = q.phase /\ p.cond = q.cond /\ p.ann = q.ann
               /\ p.annAge = q.annAge /\ p.up = q.up /\ p.before = q.before

LEMMA AlikeJustified ==
    ASSUME NEW p, NEW q, Alike(p, q), NEW c, Justified(c, p)
    PROVE  Justified(c, q)
BY DEF Alike, Justified, IsInPlaceUpdateDone

LEMMA CallInit == Init => CallInv
<1>1. ~Idle.base
  BY IdleType
<1> QED
  BY <1>1 DEF Init, CallInv

LEMMA CallAfter ==
    ASSUME TypeInv, CallInv, NEW c \in Calls, Calling(c),
           \/ rec' = Done(rec) /\ (c # "identity" \/ Alike(pod, pod'))
           \/ rec' \in {Failed(rec), Fallback(rec)} /\ pod' = pod
    PROVE  CallInv'
<1> SUFFICES ASSUME rec'.base, NEW d \in Calls, Due(rec', d)
             PROVE  Justified(d, pod')
  BY DEF CallInv
<1>1. rec'.base = rec.base /\ (Due(rec, d) \/ d = "delete")
  BY AfterCall DEF TypeInv
<1>2. Justified("delete", pod')
  BY DEF Justified
<1>3. Due(rec, d) => Justified(d, pod)
  BY <1>1 DEF CallInv
<1>4. CASE rec' = Done(rec) /\ c # "identity"
  <2>1. rec'.todo = << >>
    BY <1>4, CallingIs DEF TypeInv
  <2> QED
    BY <2>1 DEF Due
<1>5. CASE rec' = Done(rec) /\ Alike(pod, pod')
  BY <1>1, <1>2, <1>3, <1>5, AlikeJustified
<1>6. CASE pod' = pod
  BY <1>1, <1>2, <1>3, <1>6
<1> QED
  BY <1>4, <1>5, <1>6

LEMMA CallNext == TypeInv /\ FreshInv /\ CallInv /\ [Next]_vars => CallInv'
<1> SUFFICES ASSUME TypeInv, FreshInv, CallInv, [Next]_vars PROVE CallInv'
  OBVIOUS
<1>1. CASE UNCHANGED <<pod, rec>>
  BY <1>1 DEF CallInv
<1>2. CASE ~rec'.base
  BY <1>2 DEF CallInv
<1>3. CASE Begin
  <2>1. podCache \in Pod /\ pod' = pod
    BY <1>3 DEF TypeInv, TypeOK, Begin
  <2>2. rec'.base = podFresh /\ rec'.todo = applyUpdate(podCache, appCache.tmpl)
    BY <1>3 DEF Begin
  <2>3. \A c \in Calls : Due(rec', c) => Justified(c, podCache)
    BY <2>1, <2>2, PlanIs DEF Due
  <2> QED
    BY <2>1, <2>2, <2>3 DEF CallInv, FreshInv
<1>4. CASE CreateStatefulPod
  <2>1. "create" \in Calls /\ Calling("create")
    BY <1>4 DEF Calls, CreateStatefulPod
  <2>2. rec' = Done(rec) \/ (rec' = Failed(rec) /\ pod' = pod)
    BY <1>4 DEF CreateStatefulPod, CallFails
  <2> QED
    BY <2>1, <2>2, CallAfter
<1>5. CASE ClaimForPending
  <2>1. "claim" \in Calls /\ Calling("claim")
    BY <1>5 DEF Calls, ClaimForPending
  <2>2. rec' = Done(rec) \/ (rec' = Failed(rec) /\ pod' = pod)
    BY <1>5 DEF ClaimForPending, CallFails
  <2> QED
    BY <2>1, <2>2, CallAfter
<1>6. CASE UpdateStatefulPod
  <2>1. "identity" \in Calls /\ Calling("identity")
    BY <1>6 DEF Calls, UpdateStatefulPod
  <2>2. \/ rec' = Done(rec) /\ pod' = updatePodIdentity(pod)
        \/ rec' = Failed(rec) /\ pod' = pod
    BY <1>6 DEF UpdateStatefulPod, CallFails, PodWritten
  <2>3. Alike(pod, updatePodIdentity(pod))
    BY IdentityType DEF Alike, TypeInv, TypeOK
  <2> QED
    BY <2>1, <2>2, <2>3, CallAfter
<1>7. CASE DeleteStatefulPod
  <2>1. "delete" \in Calls /\ Calling("delete")
    BY <1>7 DEF Calls, DeleteStatefulPod
  <2>2. rec' = Done(rec) \/ (rec' = Failed(rec) /\ pod' = pod)
    BY <1>7 DEF DeleteStatefulPod, CallFails
  <2> QED
    BY <2>1, <2>2, CallAfter
<1>8. CASE SetConditionFalse \/ Annotate \/ WriteImage \/ CleanUpInPlaceUpdate
  <2>1. \E c \in {"off", "annotate", "image", "cleanup"} : Calling(c)
    BY <1>8 DEF SetConditionFalse, Annotate, WriteImage, CleanUpInPlaceUpdate
  <2>2. rec' = Done(rec) \/ (rec' \in {Failed(rec), Fallback(rec)} /\ pod' = pod)
    BY <1>8 DEF SetConditionFalse, Annotate, WriteImage, CleanUpInPlaceUpdate, RewriteFails
  <2> QED
    BY <2>1, <2>2, CallAfter DEF Calls
<1>9. CASE StatusKept \/ StatusWritten \/ Crash
  <2>1. rec' = Idle
    BY <1>9, StatusType DEF Crash
  <2> QED
    BY <1>2, <2>1, IdleType
<1>10. CASE OthersAct
  BY <1>2, <1>10, OthersStep, OthersType DEF TypeInv, TypeOK
<1>11. CASE Elsewhere
  BY <1>1, <1>11, ElsewhereType
<1>12. CASE Tick
  <2>1. ~rec.busy /\ rec' = rec
    BY <1>12 DEF Tick
  <2> QED
    BY <1>2, <2>1 DEF TypeInv, RecType
<1>13. CASE UNCHANGED vars
  BY <1>1, <1>13 DEF vars
<1> QED
  BY <1>3, <1>4, <1>5, <1>6, <1>7, <1>8, <1>9, <1>10, <1>11, <1>12, <1>13
     DEF Next, Controller, Environment, OthersAct, Elsewhere

-----------------------------------------------------------------------------
(***************************************************************************)
(* The Pod                                                                 *)
(***************************************************************************)
LEMMA PodInit == Init => PodInv
<1> SUFFICES ASSUME Init PROVE PodInv
  OBVIOUS
<1>1. CASE pod = NoPod
  BY <1>1 DEF PodInv, GoneInv, OffInv, RunInv, NoPod
<1>2. ASSUME NEW c, pod = RunningPod(c)
      PROVE  PodInv
  <2>1. pod.ann = "none" /\ pod.up /\ pod.run = FirstRev /\ pod.img = FirstRev
    BY <1>2 DEF RunningPod, NoPod
  <2> QED
    BY <2>1 DEF PodInv, GoneInv, OffInv, RunInv
<1> QED
  BY <1>1, <1>2 DEF Init

\* The Pod is the same in every respect the invariant is about.
LEMMA PodKeptInv ==
    ASSUME PodInv, Alike(pod, pod'), pod'.run = pod.run, pod'.img = pod.img,
           pod'.exists = pod.exists, UNCHANGED <<offFor, astray>>
    PROVE  PodInv'
BY DEF PodInv, GoneInv, OffInv, RunInv, Alike, IsInPlaceUpdateDone

LEMMA PodSame ==
    ASSUME PodInv, UNCHANGED <<pod, offFor, astray>>
    PROVE  PodInv'
BY DEF PodInv, GoneInv, OffInv, RunInv, IsInPlaceUpdateDone

LEMMA OthersInv ==
    ASSUME TypeInv, PodInv, NEW p \in Pod, ByOthers(p), OthersMake(p)
    PROVE  PodInv'
<1>1. pod' = p /\ offFor' = (IF p.exists THEN offFor ELSE 0) /\ astray' = astray
  BY DEF ByOthers, PodChanges, PodWritten
<1>2. CASE p = NoPod
  BY <1>1, <1>2 DEF PodInv, GoneInv, OffInv, RunInv, NoPod
<1>3. CASE /\ p.exists = pod.exists /\ p.ann = pod.ann /\ p.annAge = pod.annAge
           /\ p.cond = pod.cond /\ p.img = pod.img
           /\ \/ p.up /\ p.run = p.img
              \/ /\ p.phase = pod.phase /\ p.run = pod.run /\ p.before = pod.before
                 /\ p.up = pod.up \/ (~p.up /\ pod.run # pod.img)
  <2>1. GoneInv'
    BY <1>1, <1>3 DEF PodInv, GoneInv
  <2>2. OffInv'
    BY <1>1, <1>3 DEF PodInv, GoneInv, OffInv
  <2>3. RunInv'
    <3>1. CASE p.up /\ p.run = p.img
      BY <1>1, <3>1 DEF RunInv
    <3>2. CASE /\ p.phase = pod.phase /\ p.run = pod.run /\ p.before = pod.before
               /\ p.up = pod.up
      BY <1>1, <1>3, <3>2 DEF PodInv, RunInv, IsInPlaceUpdateDone
    <3>3. CASE p.phase = pod.phase /\ p.ann = pod.ann /\ ~p.up /\ pod.run # pod.img
      <4>1. p.phase = "Running" /\ IsInPlaceUpdateDone(p) =>
                pod.phase = "Running" /\ IsInPlaceUpdateDone(pod)
        BY <3>3 DEF IsInPlaceUpdateDone
      <4> QED
        BY <1>1, <3>3, <4>1 DEF PodInv, RunInv
    <3> QED
      BY <1>3, <3>1, <3>2, <3>3
  <2> QED
    BY <2>1, <2>2, <2>3 DEF PodInv
<1> QED
  BY <1>2, <1>3 DEF OthersMake

LEMMA TickInv == TypeInv /\ PodInv /\ Tick => PodInv'
<1> SUFFICES ASSUME TypeInv, PodInv, Tick PROVE PodInv'
  OBVIOUS
<1>1. /\ pod' = Aged(pod) /\ astray' = astray
      /\ offFor' = IF pod.cond = "False" THEN Older(offFor, Grace) ELSE 0
  BY DEF Tick, Outside
<1>2. pod \in Pod /\ offFor \in 0 .. Grace /\ pod.annAge \in 0 .. Grace /\ Grace \in Nat
  BY FieldTypes, InPlaceAssumption DEF TypeInv, TypeOK
<1>3. /\ pod'.phase = pod.phase /\ pod'.cond = pod.cond /\ pod'.ann = pod.ann
      /\ pod'.up = pod.up /\ pod'.run = pod.run /\ pod'.img = pod.img
      /\ pod'.before = pod.before /\ pod'.exists = pod.exists
      /\ pod.exists => pod'.annAge = IF pod.ann = "none" THEN 0 ELSE Older(pod.annAge, Grace)
  BY <1>1, <1>2, AgedType
<1>4. GoneInv'
  BY <1>3 DEF PodInv, GoneInv
<1>5. OffInv'
  <2> SUFFICES ASSUME ~astray, pod.ann # "none"
               PROVE  pod'.cond = "False" /\ offFor' >= pod'.annAge
    BY <1>1, <1>3 DEF OffInv
  <2>1. pod.cond = "False" /\ offFor >= pod.annAge /\ pod.exists
    BY DEF PodInv, GoneInv, OffInv
  <2>2. pod'.annAge = Older(pod.annAge, Grace) /\ offFor' = Older(offFor, Grace)
    BY <1>1, <1>3, <2>1
  <2>3. Older(offFor, Grace) >= Older(pod.annAge, Grace)
    BY <1>2, <2>1 DEF Older
  <2> QED
    BY <1>3, <2>1, <2>2, <2>3
<1>6. RunInv'
  BY <1>1, <1>3 DEF PodInv, RunInv, IsInPlaceUpdateDone
<1> QED
  BY <1>4, <1>5, <1>6 DEF PodInv

\* The four calls of the in-place update, on the Pod of a lister that has caught up.
LEMMA OffCallInv ==
    TypeInv /\ FreshInv /\ PodInv /\ SetConditionFalse => PodInv'
<1> SUFFICES ASSUME TypeInv, FreshInv, PodInv, SetConditionFalse PROVE PodInv'
  OBVIOUS
<1>1. CASE UNCHANGED <<pod, offFor, astray>>
  BY <1>1, PodSame
<1>2. CASE /\ Rewrites(SetPodCondition(pod, "False")) /\ Strays
           /\ offFor' = IF IfConditionFalse(pod) THEN offFor ELSE 0
  <2> DEFINE p == SetPodCondition(pod, "False")
  <2>1. pod \in Pod
    BY DEF TypeInv, TypeOK
  <2>2. /\ p.cond = "False" /\ p.phase = pod.phase /\ p.ann = pod.ann /\ p.annAge = pod.annAge
        /\ p.up = pod.up /\ p.run = pod.run /\ p.img = pod.img /\ p.before = pod.before
        /\ p.exists = pod.exists
    BY <2>1, SetPodConditionType
  <2>3. pod' = p /\ (~astray' => ~astray)
    BY <1>2 DEF Rewrites, PodWritten, Strays
  <2> HIDE DEF p
  <2>4. GoneInv'
    BY <2>2, <2>3 DEF PodInv, GoneInv
  <2>5. OffInv'
    <3> SUFFICES ASSUME ~astray', pod'.ann # "none"
                 PROVE  pod'.cond = "False" /\ offFor' >= pod'.annAge
      BY DEF OffInv
    <3>1. pod.cond = "False" /\ offFor >= pod.annAge
      BY <2>2, <2>3 DEF PodInv, OffInv
    <3> QED
      BY <1>2, <2>2, <2>3, <3>1 DEF IfConditionFalse
  <2>6. RunInv'
    BY <2>2, <2>3 DEF PodInv, RunInv, IsInPlaceUpdateDone
  <2> QED
    BY <2>4, <2>5, <2>6 DEF PodInv
<1> QED
  BY <1>1, <1>2 DEF SetConditionFalse, RewriteFails

LEMMA ExistsWhenRewritten ==
    ASSUME FreshInv, NEW p, Rewrites(p)
    PROVE  pod.exists /\ pod' = p
BY DEF FreshInv, Rewrites, PodWritten

\* What a call is justified by still holds when it is made on the Pod decided on.
LEMMA StillJustified ==
    ASSUME TypeInv, CallInv, NEW c \in Calls, c # "identity", Calling(c), rec.base
    PROVE  Justified(c, pod)
BY CallingIs DEF TypeInv, CallInv

LEMMA AnnotateInv ==
    TypeInv /\ FreshInv /\ CallInv /\ PodInv /\ Annotate => PodInv'
<1> SUFFICES ASSUME TypeInv, FreshInv, CallInv, PodInv, Annotate PROVE PodInv'
  OBVIOUS
<1>1. CASE UNCHANGED <<pod, offFor, astray>>
  BY <1>1, PodSame
<1>2. CASE Rewrites([pod EXCEPT !.ann = "grace", !.annAge = 0]) /\ Strays /\ UNCHANGED offFor
  <2> DEFINE p == [pod EXCEPT !.ann = "grace", !.annAge = 0]
  <2>1. pod \in Pod /\ offFor \in 0 .. Grace
    BY DEF TypeInv, TypeOK
  <2>2. /\ p.ann = "grace" /\ p.annAge = 0 /\ p.phase = pod.phase /\ p.cond = pod.cond
        /\ p.up = pod.up /\ p.run = pod.run /\ p.img = pod.img /\ p.exists = pod.exists
    BY <2>1, AnnotationType
  <2>3. pod.exists /\ pod' = p /\ (~astray' => ~astray /\ rec.base)
    BY <1>2, ExistsWhenRewritten DEF Strays
  <2> HIDE DEF p
  <2>4. rec.base => pod.cond = "False" /\ pod.ann = "none"
    <3>1. Calling("annotate") /\ "annotate" \in Calls
      BY DEF Annotate, Calls
    <3> QED
      BY <3>1, StillJustified DEF Justified
  <2>5. GoneInv'
    BY <2>2, <2>3 DEF GoneInv
  <2>6. OffInv'
    BY <1>2, <2>1, <2>2, <2>3, <2>4 DEF OffInv
  <2>7. RunInv'
    <3>1. pod.ann = "none" => IsInPlaceUpdateDone(pod)
      BY DEF IsInPlaceUpdateDone
    <3> QED
      BY <2>2, <2>3, <2>4, <3>1 DEF PodInv, RunInv
  <2> QED
    BY <2>5, <2>6, <2>7 DEF PodInv
<1> QED
  BY <1>1, <1>2 DEF Annotate, RewriteFails

LEMMA ImageInv ==
    TypeInv /\ FreshInv /\ CallInv /\ PodInv /\ WriteImage => PodInv'
<1> SUFFICES ASSUME TypeInv, FreshInv, CallInv, PodInv, WriteImage PROVE PodInv'
  OBVIOUS
<1>1. CASE UNCHANGED <<pod, offFor, astray>>
  BY <1>1, PodSame
<1> DEFINE p == [pod EXCEPT !.label = rec.seen, !.img = rec.upd, !.ann = "image",
                            !.annAge = 0, !.before = ~pod.young]
<1>2. CASE /\ Rewrites(p) /\ UNCHANGED offFor
           /\ astray' = (astray \/ rec.seen # rec.upd \/ ~rec.base \/ pod.young)
  <2>1. /\ pod \in Pod /\ offFor \in 0 .. Grace
        /\ rec.seen \in Revs \cup {NoRev} /\ rec.upd \in Revs \cup {NoRev}
    BY DEF TypeInv, TypeOK, Reconcile
  <2>2. /\ p.ann = "image" /\ p.annAge = 0 /\ p.cond = pod.cond /\ p.before = ~pod.young
        /\ p.exists = pod.exists
    <3>1. p = NewImage(pod, rec.seen, rec.upd)
      BY DEF NewImage
    <3> HIDE DEF p
    <3> QED
      BY <2>1, <3>1, NewImageType
  <2>3. pod.exists /\ pod' = p /\ (~astray' => ~astray /\ rec.base /\ ~pod.young)
    BY <1>2, ExistsWhenRewritten
  <2> HIDE DEF p
  <2>4. rec.base => pod.cond = "False"
    <3>1. Calling("image") /\ "image" \in Calls
      BY DEF WriteImage, Calls
    <3> QED
      BY <3>1, StillJustified DEF Justified
  <2>5. GoneInv'
    BY <2>2, <2>3 DEF GoneInv
  <2>6. OffInv'
    BY <1>2, <2>1, <2>2, <2>3, <2>4 DEF OffInv
  <2>7. RunInv'
    <3>1. pod'.ann = "image" /\ (~pod.young => pod'.before)
      BY <2>2, <2>3
    <3>2. ~pod.young => ~IsInPlaceUpdateDone(pod')
      BY <3>1 DEF IsInPlaceUpdateDone
    <3> QED
      BY <2>3, <3>2 DEF RunInv, IsInPlaceUpdateDone
  <2> QED
    BY <2>5, <2>6, <2>7 DEF PodInv
<1> QED
  BY <1>1, <1>2 DEF WriteImage, RewriteFails

LEMMA CleanUpInv ==
    TypeInv /\ FreshInv /\ CallInv /\ PodInv /\ CleanUpInPlaceUpdate => PodInv'
<1> SUFFICES ASSUME TypeInv, FreshInv, CallInv, PodInv, CleanUpInPlaceUpdate PROVE PodInv'
  OBVIOUS
<1>1. CASE UNCHANGED <<pod, offFor, astray>>
  BY <1>1, PodSame
<1>2. CASE /\ Rewrites(CleanedUp) /\ offFor' = 0
           /\ astray' = (astray \/ (~rec.base /\ ~IsInPlaceUpdateDone(pod)))
  <2>1. pod \in Pod
    BY DEF TypeInv, TypeOK
  <2>2. /\ CleanedUp.ann = "none" /\ CleanedUp.phase = pod.phase /\ CleanedUp.up = pod.up
        /\ CleanedUp.run = pod.run /\ CleanedUp.img = pod.img
    BY <2>1, CleanedUpType
  <2>3. pod' = CleanedUp
    BY <1>2, ExistsWhenRewritten
  <2>4. rec.base => IsInPlaceUpdateDone(pod)
    <3>1. Calling("cleanup") /\ "cleanup" \in Calls
      BY DEF CleanUpInPlaceUpdate, Calls
    <3> QED
      BY <3>1, StillJustified DEF Justified
  <2>5. ~astray' => ~astray /\ IsInPlaceUpdateDone(pod)
    BY <1>2, <2>4
  <2>6. GoneInv' /\ OffInv'
    BY <2>2, <2>3 DEF GoneInv, OffInv
  <2>7. RunInv'
    BY <2>2, <2>3, <2>5 DEF PodInv, RunInv
  <2> QED
    BY <2>6, <2>7 DEF PodInv
<1> QED
  BY <1>1, <1>2 DEF CleanUpInPlaceUpdate, RewriteFails, CleanedUp

LEMMA PodNext == TypeInv /\ FreshInv /\ CallInv /\ PodInv /\ [Next]_vars => PodInv'
<1> SUFFICES ASSUME TypeInv, FreshInv, CallInv, PodInv, [Next]_vars PROVE PodInv'
  OBVIOUS
<1>0. pod \in Pod
  BY DEF TypeInv, TypeOK
<1>1. CASE UNCHANGED <<pod, offFor, astray>>
  BY <1>1, PodSame
<1>2. CASE Begin \/ ClaimForPending \/ StatusKept \/ StatusWritten \/ Crash
  BY <1>1, <1>2 DEF Begin, ClaimForPending, StatusKept, StatusWritten, Crash, CallFails, Rest
<1>3. CASE CreateStatefulPod
  <2>1. CASE pod' = NewPod
    <3>1. NewPod.ann = "none" /\ NewPod.phase = "Pending"
      BY NewPodType DEF TypeInv, TypeOK, Reconcile
    <3> QED
      BY <2>1, <3>1 DEF PodInv, GoneInv, OffInv, RunInv
  <2> QED
    BY <1>1, <1>3, <2>1 DEF CreateStatefulPod, PodWritten, CallFails, Rest
<1>4. CASE UpdateStatefulPod
  <2>1. CASE pod' = updatePodIdentity(pod) /\ UNCHANGED <<offFor, astray>>
    <3>1. Alike(pod, pod') /\ pod'.run = pod.run /\ pod'.img = pod.img /\ pod'.exists = pod.exists
      BY <1>0, <2>1, IdentityType DEF Alike
    <3> QED
      BY <2>1, <3>1, PodKeptInv
  <2> QED
    BY <1>1, <1>4, <2>1 DEF UpdateStatefulPod, PodWritten, CallFails, Rest
<1>5. CASE DeleteStatefulPod
  <2>1. CASE pod' = [pod EXCEPT !.del = TRUE] /\ UNCHANGED <<offFor, astray>>
    <3>1. Alike(pod, pod') /\ pod'.run = pod.run /\ pod'.img = pod.img /\ pod'.exists = pod.exists
      BY <1>0, <2>1, DeletedType DEF Alike
    <3> QED
      BY <2>1, <3>1, PodKeptInv
  <2> QED
    BY <1>1, <1>5, <2>1 DEF DeleteStatefulPod, PodWritten, CallFails, Rest
<1>6. CASE SetConditionFalse \/ Annotate \/ WriteImage \/ CleanUpInPlaceUpdate
  BY <1>6, OffCallInv, AnnotateInv, ImageInv, CleanUpInv
<1>7. CASE OthersAct
  BY <1>0, <1>7, OthersStep, OthersInv
<1>8. CASE Elsewhere
  BY <1>1, <1>8, ElsewhereType
<1>9. CASE Tick
  BY <1>9, TickInv
<1>10. CASE UNCHANGED vars
  BY <1>1, <1>10 DEF vars
<1> QED
  BY <1>2, <1>3, <1>4, <1>5, <1>6, <1>7, <1>8, <1>9, <1>10
     DEF Next, Controller, Environment, OthersAct, Elsewhere

InPlaceInv == TypeInv /\ FreshInv /\ CallInv /\ PodInv

LEMMA InPlaceAlways ==
    (Init => InPlaceInv) /\ (InPlaceInv /\ [Next]_vars => InPlaceInv')
BY TypeInit, TypeNext, FreshInit, FreshNext, CallInit, CallNext, PodInit, PodNext
   DEF InPlaceInv

-----------------------------------------------------------------------------
(***************************************************************************)
(* Out of service, and back                                                *)
(***************************************************************************)
\* The image of an existing Pod is changed by WriteImage and by nothing else.
LEMMA OnlyWriteImage ==
    ASSUME TypeInv, Next, ImageChanges
    PROVE  WriteImage /\ UNCHANGED offFor
<1>0. pod \in Pod /\ pod' # pod /\ pod.exists /\ pod'.exists /\ pod'.img # pod.img
  BY DEF TypeInv, TypeOK, ImageChanges
<1>1. CASE Begin \/ ClaimForPending \/ StatusKept \/ StatusWritten \/ Crash
  BY <1>0, <1>1 DEF Begin, ClaimForPending, StatusKept, StatusWritten, Crash, CallFails
<1>2. CASE CreateStatefulPod
  BY <1>0, <1>2 DEF CreateStatefulPod, CallFails
<1>3. CASE UpdateStatefulPod
  BY <1>0, <1>3, IdentityType DEF UpdateStatefulPod, PodWritten, CallFails
<1>4. CASE DeleteStatefulPod
  BY <1>0, <1>4, DeletedType DEF DeleteStatefulPod, PodWritten, CallFails
<1>5. CASE SetConditionFalse
  <2>1. SetPodCondition(pod, "False").img = pod.img
    BY <1>0, SetPodConditionType
  <2> QED
    BY <1>0, <1>5, <2>1 DEF SetConditionFalse, Rewrites, RewriteFails, PodWritten
<1>6. CASE Annotate
  <2>1. Annotated(pod).img = pod.img
    BY <1>0, AnnotatedType
  <2>2. pod' = pod \/ pod' = Annotated(pod)
    BY <1>6 DEF Annotate, Annotated, Rewrites, RewriteFails, PodWritten
  <2> QED
    BY <1>0, <2>1, <2>2
<1>7. CASE CleanUpInPlaceUpdate
  BY <1>0, <1>7, CleanedUpType DEF CleanUpInPlaceUpdate, CleanedUp, Rewrites, RewriteFails,
                                   PodWritten
<1>8. CASE OthersAct
  <2>1. PICK p \in Pod : ByOthers(p) /\ OthersMake(p)
    BY <1>0, <1>8, OthersStep
  <2>2. pod' = p
    BY <2>1 DEF ByOthers, PodChanges, PodWritten
  <2>3. ~NoPod.exists
    BY DEF NoPod
  <2> QED
    BY <1>0, <2>1, <2>2, <2>3 DEF OthersMake
<1>9. CASE Elsewhere
  BY <1>0, <1>9, ElsewhereType
<1>10. CASE Tick
  BY <1>0, <1>10, AgedType DEF Tick
<1>11. CASE WriteImage
  BY <1>11 DEF WriteImage
<1> QED
  BY <1>1, <1>2, <1>3, <1>4, <1>5, <1>6, <1>7, <1>8, <1>9, <1>10, <1>11
     DEF Next, Controller, Environment, OthersAct, Elsewhere

\* Only CleanUpInPlaceUpdate puts a Pod back into service.
LEMMA OnlyCleanUp ==
    ASSUME TypeInv, Next, pod.cond = "False", pod'.cond = "True"
    PROVE  CleanUpInPlaceUpdate
<1>0. pod \in Pod /\ pod' # pod /\ pod'.cond # pod.cond
  BY DEF TypeInv, TypeOK
<1>1. CASE Begin \/ ClaimForPending \/ StatusKept \/ StatusWritten \/ Crash
  BY <1>0, <1>1 DEF Begin, ClaimForPending, StatusKept, StatusWritten, Crash, CallFails
<1>2. CASE CreateStatefulPod
  <2>1. NewPod.cond = "none"
    BY NewPodType DEF TypeInv, TypeOK, Reconcile
  <2> QED
    BY <1>0, <1>2, <2>1 DEF CreateStatefulPod, CallFails, PodWritten
<1>3. CASE UpdateStatefulPod
  BY <1>0, <1>3, IdentityType DEF UpdateStatefulPod, PodWritten, CallFails
<1>4. CASE DeleteStatefulPod
  BY <1>0, <1>4, DeletedType DEF DeleteStatefulPod, PodWritten, CallFails
<1>5. CASE SetConditionFalse
  <2>1. SetPodCondition(pod, "False").cond = "False"
    BY <1>0, SetPodConditionType
  <2> QED
    BY <1>0, <1>5, <2>1 DEF SetConditionFalse, Rewrites, RewriteFails, PodWritten
<1>6. CASE Annotate
  <2>1. Annotated(pod).cond = pod.cond
    BY <1>0, AnnotatedType
  <2>2. pod' = pod \/ pod' = Annotated(pod)
    BY <1>6 DEF Annotate, Annotated, Rewrites, RewriteFails, PodWritten
  <2> QED
    BY <1>0, <2>1, <2>2
<1>7. CASE WriteImage
  <2>1. rec.seen \in Revs \cup {NoRev} /\ rec.upd \in Revs \cup {NoRev}
    BY DEF TypeInv, TypeOK, Reconcile
  <2>2. NewImage(pod, rec.seen, rec.upd).cond = pod.cond
    BY <1>0, <2>1, NewImageType
  <2>3. pod' = pod \/ pod' = NewImage(pod, rec.seen, rec.upd)
    BY <1>7 DEF WriteImage, NewImage, Rewrites, RewriteFails, PodWritten
  <2> QED
    BY <1>0, <2>2, <2>3
<1>8. CASE OthersAct
  <2>1. PICK p \in Pod : ByOthers(p) /\ OthersMake(p)
    BY <1>0, <1>8, OthersStep
  <2>2. pod' = p
    BY <2>1 DEF ByOthers, PodChanges, PodWritten
  <2>3. NoPod.cond = "none"
    BY DEF NoPod
  <2> QED
    BY <1>0, <2>1, <2>2, <2>3 DEF OthersMake
<1>9. CASE Elsewhere
  BY <1>0, <1>9, ElsewhereType
<1>10. CASE Tick
  BY <1>0, <1>10, AgedType DEF Tick
<1> QED
  BY <1>1, <1>2, <1>3, <1>4, <1>5, <1>6, <1>7, <1>8, <1>9, <1>10
     DEF Next, Controller, Environment, OthersAct, Elsewhere

\* The grace period is kept but for its last second, for every grace period, whenever
\* templates change and whatever fails, as long as no write went astray.
THEOREM GraceIsNearlyKept == Spec => GraceNearlyKept
<1>1. InPlaceInv /\ [Next]_vars =>
          [ImageChanges /\ rec.base /\ ~astray => pod.cond = "False" /\ offFor + 1 >= Grace]_vars
  <2> SUFFICES ASSUME InPlaceInv, Next, ImageChanges, rec.base, ~astray
               PROVE  pod.cond = "False" /\ offFor + 1 >= Grace
    OBVIOUS
  <2>1. TypeInv /\ CallInv /\ OffInv
    BY DEF InPlaceInv, PodInv
  <2>2. Calling("image") /\ "image" \in Calls
    BY <2>1, OnlyWriteImage DEF WriteImage, Calls
  <2>3. Justified("image", pod)
    BY <2>1, <2>2, StillJustified
  <2>4. Grace \in Nat /\ offFor \in Nat /\ pod.annAge \in Nat
    BY <2>1, FieldTypes, InPlaceAssumption DEF TypeInv, TypeOK
  <2>5. CASE Grace = 0
    BY <2>3, <2>4, <2>5 DEF Justified
  <2>6. CASE pod.ann # "none" /\ pod.annAge + 1 >= Grace
    <3>1. offFor >= pod.annAge
      BY <2>1, <2>6 DEF OffInv
    <3>2. pod.cond = "False"
      BY <2>3 DEF Justified
    <3> QED
      BY <2>4, <2>6, <3>1, <3>2
  <2> QED
    BY <2>3, <2>5, <2>6 DEF Justified
<1> QED
  BY <1>1, InPlaceAlways, PTL DEF Spec, GraceNearlyKept

\* A Pod comes back into service on the container that runs its image.
THEOREM BackWithTheNewImage == Spec => BackOnTheNewImage
<1>1. InPlaceInv /\ [Next]_vars =>
          [pod.cond = "False" /\ pod'.cond = "True" /\ rec.base /\ ~astray
               => pod.up /\ pod.run = pod.img]_vars
  <2> SUFFICES ASSUME InPlaceInv, Next, pod.cond = "False", pod'.cond = "True", rec.base, ~astray
               PROVE  pod.up /\ pod.run = pod.img
    OBVIOUS
  <2>1. TypeInv /\ CallInv /\ RunInv
    BY DEF InPlaceInv, PodInv
  <2>2. Calling("cleanup") /\ "cleanup" \in Calls
    BY <2>1, OnlyCleanUp DEF CleanUpInPlaceUpdate, Calls
  <2>3. Justified("cleanup", pod)
    BY <2>1, <2>2, StillJustified
  <2> QED
    BY <2>1, <2>3 DEF Justified, RunInv
<1> QED
  BY <1>1, InPlaceAlways, PTL DEF Spec, BackOnTheNewImage

=============================================================================
