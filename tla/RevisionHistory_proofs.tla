----------------------- MODULE RevisionHistory_proofs -----------------------
(***************************************************************************)
(* The history of an App, for every set of templates and Pods and every    *)
(* limit: how far the numbers of its revisions grow, and that no revision  *)
(* in use is deleted.                                                      *)
(***************************************************************************)
EXTENDS RevisionHistory, WellFoundedInduction, TLAPS

-----------------------------------------------------------------------------
(***************************************************************************)
(* The invariants                                                          *)
(***************************************************************************)
BudgetInv == budget \in [edits : 0 .. MaxEdits, faults : Nat, others : Nat]

Edited == MaxEdits - budget.edits

\* The template that the reconcile in progress, or else the next one, goes by.
InHand == IF rec.pc = "idle" THEN appCache.tmpl ELSE rec.tmpl

\* After n changes the template t may have the number 2 + n, all others less.
Within(list, t, n) ==
    \A u \in Templates : list[u] <= 2 + n /\ (u # t => list[u] <= 1 + n)

\* c: the changes of the template that have reached the cached App.  d: those
\* that the reconcile knows of.  One that has not is not in the history.
NumbersInv ==
    \E c \in 0 .. Edited : \E d \in 0 .. c :
        /\ appCache.tmpl # app.tmpl => c < Edited
        /\ InHand # appCache.tmpl => d < c
        /\ Within(hist, InHand, d) /\ Within(lister, InHand, d)
        /\ Within(rec.list, InHand, d)

\* truncateHistory is left with revisions that were listed and are not live.
DoomedInv ==
    /\ rec.pc \in {"apply", "status", "truncate"} => rec.cur = currentRevision(rec)
    /\ rec.doomed \subseteq Listed(rec.list) \ live(rec)
    /\ rec.pc # "truncate" => rec.doomed = {}

\* TypeOK without the bound on the numbers.
Lists == [Templates -> Nat]

ShapeOK ==
    /\ hist \in Lists /\ lister \in Lists /\ rec.list \in Lists
    /\ {orphans, strays, behind} \subseteq SUBSET Templates
    /\ {app, appCache} \subseteq App
    /\ {pods, podCache} \subseteq [Pods -> Templates \cup {NoRev}]
    /\ rec \in [pc : {"idle", "adopt", "issue", "apply", "status", "truncate"},
                list : Lists, adopt : SUBSET Templates,
                tmpl : Templates, seen : Templates \cup {NoRev},
                cur : Templates \cup {NoRev}, pods : [Pods -> Templates \cup {NoRev}],
                doomed : SUBSET Templates, err : BOOLEAN]
    /\ rec.pc \in {"apply", "status", "truncate"} => rec.cur # NoRev
    /\ {appFresh, dirty} \subseteq BOOLEAN
    /\ BudgetInv

HistoryInv == ShapeOK /\ NumbersInv /\ DoomedInv

-----------------------------------------------------------------------------
(***************************************************************************)
(* Lemmas                                                                  *)
(***************************************************************************)
\* A bounded set of numbers has a largest one.
LEMMA LargestNumber ==
    ASSUME NEW S \in SUBSET Nat, S # {}, NEW b \in Nat, \A x \in S : x <= b
    PROVE  Max(S) \in S /\ \A x \in S : x <= Max(S)
<1> DEFINE U    == {n \in Nat : \A x \in S : x <= n}
           less == {pair \in Nat \X Nat : pair[1] < pair[2]}
<1>1. U # {} /\ U \subseteq Nat
  OBVIOUS
<1>2. IsWellFoundedOn(less, Nat)
  BY NatLessThanWellFounded DEF OpToRel
<1>3. \E m \in U : \A n \in U : ~(<<n, m>> \in less)
  <2> HIDE DEF U, less
  <2> QED
    BY <1>1, <1>2, WFMin
<1>4. PICK m \in U : \A n \in U : ~(n < m)
  BY <1>1, <1>3
<1>5. m \in S
  <2>1. CASE m = 0
    <3> PICK x \in S : TRUE
      OBVIOUS
    <3>1. x \in Nat /\ x <= 0
      BY <2>1
    <3> QED
      BY <2>1, <3>1
  <2>2. CASE m # 0 /\ m \notin S
    <3>1. m - 1 \in U
      BY <2>2
    <3> QED
      BY <1>4, <2>2, <3>1
  <2> QED
    BY <2>1, <2>2
<1>6. \E x \in S : \A y \in S : x >= y
  BY <1>5
<1> QED
  BY <1>6 DEF Max

\* A revision that is renumbered or created gets a number past those listed.
LEMMA NextNumber ==
    ASSUME NEW list \in Lists, NEW b \in Nat, \A t \in Templates : list[t] <= b
    PROVE  /\ nextRevisionId(list) \in Nat
           /\ nextRevisionId(list) <= b + 1
           /\ nextRevisionId(list) # 0
<1> DEFINE S == {list[t] : t \in Templates}
<1>1. S \in SUBSET Nat /\ S # {} /\ \A x \in S : x <= b
  BY HistoryAssumption DEF Lists
<1> HIDE DEF S
<1>2. Max(S) \in S
  BY <1>1, LargestNumber
<1>3. Max(S) \in Nat /\ Max(S) <= b
  BY <1>1, <1>2
<1> QED
  BY <1>3 DEF nextRevisionId, S

LEMMA WithinMore ==
    ASSUME NEW list \in Lists, NEW t \in Templates, NEW n \in Nat, Within(list, t, n),
           NEW m \in Nat, NEW u \in Templates, m >= n, u # t => m > n
    PROVE  Within(list, u, m)
<1>1. ASSUME NEW v \in Templates
      PROVE  list[v] <= 2 + m /\ (v # u => list[v] <= 1 + m)
  <2>1. list[v] \in Nat /\ list[v] <= 2 + n /\ (v # t => list[v] <= 1 + n)
    BY DEF Lists, Within
  <2>2. CASE u = t
    BY <2>1, <2>2
  <2>3. CASE u # t
    BY <2>1, <2>3
  <2> QED
    BY <2>2, <2>3
<1> QED
  BY <1>1 DEF Within

\* The number that a revision of template t gets when it is not the newest of
\* those listed.
LEMMA NextWithin ==
    ASSUME NEW list \in Lists, NEW t \in Templates, NEW n \in Nat, Within(list, t, n),
           list[t] = 0 \/ ~MustBeNewest(t, list)
    PROVE  nextRevisionId(list) \in Nat /\ nextRevisionId(list) <= 2 + n
<1>1. \A u \in Templates : list[u] \in Nat /\ list[u] <= 2 + n /\ (u # t => list[u] <= 1 + n)
  BY DEF Lists, Within
<1>2. list[t] <= 1 + n
  <2>1. CASE list[t] = 0
    BY <2>1
  <2>2. CASE ~MustBeNewest(t, list)
    <3>1. PICK u \in Templates \ {t} : ~(list[u] < list[t])
      BY <2>2 DEF MustBeNewest
    <3> QED
      BY <1>1, <3>1
  <2> QED
    BY <2>1, <2>2
<1>3. \A u \in Templates : list[u] <= 1 + n
  BY <1>1, <1>2
<1>4. 1 + n \in Nat
  OBVIOUS
<1>5. nextRevisionId(list) \in Nat /\ nextRevisionId(list) <= 1 + n + 1
  BY <1>3, <1>4, NextNumber
<1> QED
  BY <1>5

-----------------------------------------------------------------------------
(***************************************************************************)
(* Initially                                                               *)
(***************************************************************************)
LEMMA HistoryInit == Init => HistoryInv
<1> SUFFICES ASSUME Init PROVE HistoryInv
  OBVIOUS
<1>1. /\ hist \in Lists /\ lister = hist /\ NoList \in Lists
      /\ \A t \in Templates : hist[t] <= 1 /\ NoList[t] <= 1
  BY DEF Init, Lists, NoList
<1>2. /\ rec = Idle /\ Idle.pc = "idle" /\ Idle.list = NoList /\ Idle.doomed = {}
  BY DEF Init, Idle
<1>3. budget.edits = MaxEdits /\ appCache.tmpl = app.tmpl /\ BudgetInv
  BY HistoryAssumption DEF Init, BudgetInv
<1>4. ShapeOK
  BY <1>1, <1>3, HistoryAssumption DEF Init, Idle, ShapeOK, Listed, App, NoPods
<1>5. NumbersInv
  <2>1. 0 \in 0 .. Edited
    BY <1>3, HistoryAssumption DEF Edited
  <2>2. /\ Within(hist, InHand, 0) /\ Within(lister, InHand, 0)
        /\ Within(rec.list, InHand, 0)
    BY <1>1, <1>2 DEF Within, Lists
  <2>3. InHand = appCache.tmpl
    BY <1>2 DEF InHand
  <2> QED
    BY <1>3, <2>1, <2>2, <2>3 DEF NumbersInv
<1>6. DoomedInv
  BY <1>2 DEF DoomedInv
<1> QED
  BY <1>4, <1>5, <1>6 DEF HistoryInv

-----------------------------------------------------------------------------
(***************************************************************************)
(* The types                                                               *)
(***************************************************************************)
Rec == [pc : {"idle", "adopt", "issue", "apply", "status", "truncate"},
        list : Lists, adopt : SUBSET Templates,
        tmpl : Templates, seen : Templates \cup {NoRev},
        cur : Templates \cup {NoRev}, pods : [Pods -> Templates \cup {NoRev}],
        doomed : SUBSET Templates, err : BOOLEAN]

\* What the loops over the orphans and over the doomed revisions leave alone.
LEMMA RecFields ==
    ASSUME NEW r \in Rec, NEW S
    PROVE  /\ [r EXCEPT !.adopt = S].list = r.list /\ [r EXCEPT !.doomed = S].list = r.list
           /\ [r EXCEPT !.adopt = S].tmpl = r.tmpl /\ [r EXCEPT !.doomed = S].tmpl = r.tmpl
           /\ [r EXCEPT !.adopt = S].pc = r.pc /\ [r EXCEPT !.doomed = S].pc = r.pc
           /\ [r EXCEPT !.adopt = S].doomed = r.doomed
  BY DEF Rec

\* What applyUpdate leaves in the reconcile: whether a call failed.
LEMMA AppliedRec ==
    ASSUME rec \in Rec, ApplyUpdate
    PROVE  \E err \in BOOLEAN : rec' = [rec EXCEPT !.pc = "status", !.err = err]
<1>1. CASE rec' = [rec EXCEPT !.pc = "status"]
  <2>1. rec' = [rec EXCEPT !.pc = "status", !.err = rec.err] /\ rec.err \in BOOLEAN
    BY <1>1 DEF Rec
  <2> QED
    BY <2>1
<1>2. ASSUME NEW p \in Pods, rec' = [rec EXCEPT !.pc = "status", !.err = pods[p] # NoRev]
      PROVE  \E err \in BOOLEAN : rec' = [rec EXCEPT !.pc = "status", !.err = err]
  BY <1>2
<1>3. CASE rec' = [rec EXCEPT !.pc = "status", !.err = TRUE]
  BY <1>3
<1> QED
  BY <1>1, <1>2, <1>3 DEF ApplyUpdate

\* What updateAppStatus does.
LEMMA StatusWritten ==
    ASSUME rec \in Rec, UpdateAppStatus
    PROVE  /\ rec.pc = "status"
           /\ \E cur \in reportedCurrent(rec), err \in BOOLEAN, doomed \in toDelete(rec) :
                 /\ rec' = [rec EXCEPT !.pc = "truncate", !.doomed = doomed, !.err = err]
                 /\ \/ UNCHANGED <<app, appFresh>>
                    \/ app' = [app EXCEPT !.cur = cur] /\ appFresh' = FALSE
           /\ UNCHANGED budget \/ Spend("faults") \/ Spend("others")
<1>1. PICK cur \in reportedCurrent(rec), doomed \in toDelete(rec), err \in BOOLEAN :
         /\ rec' = [rec EXCEPT !.pc = "truncate", !.doomed = doomed, !.err = @ \/ err]
         /\ \/ UNCHANGED <<app, appFresh>>
            \/ app' = [app EXCEPT !.cur = cur] /\ appFresh' = FALSE
  BY DEF UpdateAppStatus
<1>2. UNCHANGED budget \/ Spend("faults") \/ Spend("others")
  BY DEF UpdateAppStatus, OtherFieldDiffers
<1>3. PICK e \in BOOLEAN : e = (rec.err \/ err)
  OBVIOUS
<1>4. rec' = [rec EXCEPT !.pc = "truncate", !.doomed = doomed, !.err = e]
  BY <1>1, <1>3
<1>5. rec.pc = "status"
  BY DEF UpdateAppStatus
<1> QED
  BY <1>1, <1>2, <1>4, <1>5

LEMMA SpendDoes ==
    ASSUME BudgetInv, NEW b \in {"edits", "faults", "others"}, Spend(b)
    PROVE  /\ BudgetInv'
           /\ b = "edits" => Edited' = Edited + 1
           /\ b # "edits" => Edited' = Edited
  BY HistoryAssumption DEF BudgetInv, Spend, Edited

LEMMA IdleShape ==
    /\ Idle \in Rec /\ Idle.pc = "idle" /\ Idle.list = NoList /\ Idle.doomed = {}
    /\ NoList \in Lists
  BY HistoryAssumption DEF Idle, Rec, Lists, NoList, NoPods

\* What the reconcile takes up as its current revision is one.
LEMMA ApplyingShape ==
    ASSUME NEW r \in Rec
    PROVE  /\ Applying(r) \in Rec /\ Applying(r).cur # NoRev
           /\ Applying(r).cur = currentRevision(r)
           /\ Applying(r).cur = currentRevision(Applying(r))
           /\ Applying(r).pc = "apply" /\ Applying(r).list = r.list
           /\ Applying(r).tmpl = r.tmpl /\ Applying(r).doomed = r.doomed
<1>1. currentRevision(r) \in Templates
  BY DEF currentRevision, Listed, Rec
<1> QED
  BY <1>1, HistoryAssumption DEF Applying, Rec, currentRevision, Listed

LEMMA NumbersFit ==
    ASSUME ShapeOK, NumbersInv, rec.pc # "idle",
           rec.tmpl \notin Listed(rec.list) \/ ~MustBeNewest(rec.tmpl, rec.list)
    PROVE  nextRevisionId(rec.list) \in Nat
<1>1. PICK c \in 0 .. Edited : \E d \in 0 .. c : Within(rec.list, InHand, d)
  BY DEF NumbersInv
<1>2. PICK d \in 0 .. c : Within(rec.list, InHand, d)
  BY <1>1
<1>3. InHand = rec.tmpl /\ rec.tmpl \in Templates /\ rec.list \in Lists /\ d \in Nat
  BY DEF InHand, ShapeOK
<1>4. rec.list[rec.tmpl] = 0 \/ ~MustBeNewest(rec.tmpl, rec.list)
  BY <1>3 DEF Listed
<1> QED
  BY <1>2, <1>3, <1>4, NextWithin

LEMMA ShapeNext ==
    ASSUME ShapeOK, NumbersInv, [Next]_vars
    PROVE  ShapeOK'
<1> USE DEF ShapeOK, server, informer, apps
<1> DEFINE RecOK == rec' \in Rec /\ (rec'.pc \in {"apply", "status", "truncate"} => rec'.cur # NoRev)
<1>1. rec \in Rec /\ (rec.pc \in {"apply", "status", "truncate"} => rec.cur # NoRev)
  BY DEF Rec
<1>2. ASSUME NEW err, Return(err)
      PROVE  RecOK
  BY <1>2, IdleShape DEF Return
<1>3. ASSUME UNCHANGED budget \/ Spend("edits") \/ Spend("faults") \/ Spend("others")
      PROVE  BudgetInv'
  <2>1. BudgetInv
    OBVIOUS
  <2> QED
    BY <1>3, <2>1, SpendDoes DEF BudgetInv
<1>4. CASE Begin
  <2>1. RecOK
    <3>1. rec' = [Idle EXCEPT !.pc = "adopt", !.adopt = strays,
                              !.tmpl = appCache.tmpl, !.seen = appCache.cur]
      BY <1>4 DEF Begin
    <3>2. strays \subseteq Templates /\ appCache.tmpl \in Templates
          /\ appCache.cur \in Templates \cup {NoRev}
      BY DEF App
    <3> QED
      BY <3>1, <3>2, IdleShape DEF Rec
  <2> QED
    BY <1>3, <1>4, <2>1 DEF Begin, Rec
<1>5. CASE AdoptOrphanRevisions
  <2>1. PICK t \in rec.adopt :
          \/ /\ orphans' = orphans \ {t} /\ behind' = behind \cup {t}
             /\ rec' = [rec EXCEPT !.adopt = @ \ {t}]
             /\ UNCHANGED <<dirty, budget>>
          \/ /\ UNCHANGED budget \/ Spend("faults")
             /\ Return(TRUE)
             /\ UNCHANGED <<orphans, behind>>
    BY <1>5 DEF AdoptOrphanRevisions
  <2>2. RecOK
    <3>1. [rec EXCEPT !.adopt = @ \ {t}] \in Rec /\ rec.pc = "adopt"
      BY <1>1, <1>5 DEF Rec, AdoptOrphanRevisions
    <3>2. [rec EXCEPT !.adopt = @ \ {t}].pc = "adopt"
      BY <1>1, <3>1 DEF Rec
    <3> QED
      BY <1>2, <2>1, <3>1, <3>2
  <2>3. t \in Templates
    BY <1>1, <2>1
  <2>4. /\ orphans' \subseteq Templates /\ behind' \subseteq Templates /\ dirty' \in BOOLEAN
        /\ BudgetInv'
    BY <1>3, <2>1, <2>3 DEF Return
  <2>5. UNCHANGED <<hist, lister, strays, app, appCache, appFresh, pods, podCache>>
    BY <1>5 DEF AdoptOrphanRevisions
  <2> QED
    BY <2>2, <2>4, <2>5 DEF Rec
<1>6. CASE ListControllerRevisions
  <2>1. RecOK
    <3>1. /\ rec' = [rec EXCEPT !.pc = "issue", !.list = lister, !.pods = podCache]
          /\ lister \in Lists /\ podCache \in [Pods -> Templates \cup {NoRev}]
      BY <1>6 DEF ListControllerRevisions
    <3> QED
      BY <1>1, <3>1 DEF Rec
  <2> QED
    BY <1>3, <1>6, <2>1 DEF ListControllerRevisions, Rec
<1>7. CASE RevisionKept
  <2>1. RecOK
    BY <1>1, <1>7, ApplyingShape DEF RevisionKept
  <2> QED
    BY <1>3, <1>7, <2>1 DEF RevisionKept, Rec
<1>8. CASE UpdateControllerRevision \/ CreateControllerRevision
  <2>1. nextRevisionId(rec.list) \in Nat
    BY <1>8, NumbersFit DEF UpdateControllerRevision, CreateControllerRevision
  <2>2. \/ UNCHANGED <<hist, behind>>
        \/ /\ hist' = [hist EXCEPT ![rec.tmpl] = nextRevisionId(rec.list)]
           /\ behind' = behind \cup {rec.tmpl}
    BY <1>8 DEF UpdateControllerRevision, CreateControllerRevision
  <2>3. rec' = Applying(rec) \/ Return(TRUE)
    BY <1>8 DEF UpdateControllerRevision, CreateControllerRevision
  <2>4. hist' \in Lists /\ behind' \subseteq Templates
    BY <2>1, <2>2 DEF Lists
  <2>5. RecOK
    BY <1>1, <1>2, <2>3, ApplyingShape
  <2>6. dirty' \in BOOLEAN /\ BudgetInv'
    BY <1>3, <1>8 DEF UpdateControllerRevision, CreateControllerRevision, Return
  <2>7. UNCHANGED <<orphans, lister, strays, app, appCache, appFresh, pods, podCache>>
    BY <1>8 DEF UpdateControllerRevision, CreateControllerRevision
  <2> QED
    BY <2>4, <2>5, <2>6, <2>7 DEF Rec
<1>9. CASE ApplyUpdate
  <2>1. pods' \in [Pods -> Templates \cup {NoRev}]
    <3>1. rec.cur \in Templates \cup {NoRev} /\ rec.tmpl \in Templates
      BY <1>1 DEF Rec
    <3> QED
      BY <1>9, <3>1 DEF ApplyUpdate
  <2>2. RecOK
    <3>1. PICK err \in BOOLEAN : rec' = [rec EXCEPT !.pc = "status", !.err = err]
      BY <1>1, <1>9, AppliedRec
    <3>2. rec.pc = "apply"
      BY <1>9 DEF ApplyUpdate
    <3> QED
      BY <1>1, <3>1, <3>2 DEF Rec
  <2>3. BudgetInv'
    BY <1>3, <1>9 DEF ApplyUpdate
  <2> QED
    BY <1>9, <2>1, <2>2, <2>3 DEF ApplyUpdate, Rec
<1>10. CASE UpdateAppStatus
  <2>1. PICK cur \in reportedCurrent(rec), err \in BOOLEAN, doomed \in toDelete(rec) :
           /\ rec' = [rec EXCEPT !.pc = "truncate", !.doomed = doomed, !.err = err]
           /\ UNCHANGED <<app, appFresh>> \/ (app' = [app EXCEPT !.cur = cur] /\ appFresh' = FALSE)
    BY <1>1, <1>10, StatusWritten
  <2>2. doomed \subseteq Templates /\ cur \in Templates \cup {NoRev}
    BY DEF toDelete, tooMany, Listed, reportedCurrent
  <2>3. RecOK
    <3>1. rec.pc = "status"
      BY <1>10 DEF UpdateAppStatus
    <3> QED
      BY <1>1, <2>1, <2>2, <3>1 DEF Rec
  <2>4. app' \in App /\ appFresh' \in BOOLEAN
    BY <2>1, <2>2 DEF App
  <2>5. BudgetInv'
    BY <1>1, <1>3, <1>10, StatusWritten
  <2> QED
    BY <1>10, <2>3, <2>4, <2>5 DEF UpdateAppStatus, Rec
<1>11. CASE DeleteControllerRevision
  <2>1. PICK t \in Templates :
          \/ /\ hist' = [hist EXCEPT ![t] = 0] /\ orphans' = orphans \ {t}
             /\ behind' = behind \cup {t}
             /\ rec' = [rec EXCEPT !.doomed = @ \ {t}]
             /\ UNCHANGED <<dirty, budget>>
          \/ /\ Return(TRUE)
             /\ UNCHANGED budget \/ Spend("faults")
             /\ UNCHANGED <<hist, orphans, behind>>
    BY <1>11 DEF DeleteControllerRevision, Oldest
  <2>2. RecOK
    <3>1. /\ [rec EXCEPT !.doomed = @ \ {t}] \in Rec
          /\ [rec EXCEPT !.doomed = @ \ {t}].cur = rec.cur
          /\ rec.cur # NoRev
      BY <1>1, <1>11 DEF Rec, DeleteControllerRevision
    <3>2. CASE rec' = [rec EXCEPT !.doomed = @ \ {t}]
      BY <3>1, <3>2
    <3>3. CASE Return(TRUE)
      BY <1>2, <3>3
    <3> QED
      BY <2>1, <3>2, <3>3
  <2>3. hist' \in Lists /\ orphans' \subseteq Templates /\ behind' \subseteq Templates
    <3>1. hist' = hist \/ hist' = [hist EXCEPT ![t] = 0]
      BY <2>1
    <3>2. hist' \in Lists
      BY <3>1 DEF Lists
    <3>3. orphans' \subseteq orphans /\ behind' \subseteq behind \cup {t}
      BY <2>1
    <3> QED
      BY <3>2, <3>3
  <2>4. dirty' \in BOOLEAN /\ BudgetInv'
    BY <1>3, <2>1 DEF Return
  <2> QED
    BY <1>11, <2>2, <2>3, <2>4 DEF DeleteControllerRevision, Rec
<1>12. CASE End
  <2>1. RecOK /\ dirty' \in BOOLEAN
    BY <1>1, <1>2, <1>12 DEF End, Return
  <2> QED
    BY <1>3, <1>12, <2>1 DEF End, Rec
<1>13. ASSUME NEW t \in Templates, EditTemplate(t)
       PROVE  ShapeOK'
  <2>1. app' \in App
    BY <1>13 DEF EditTemplate, App
  <2>2. BudgetInv'
    BY <1>3, <1>13 DEF EditTemplate
  <2> QED
    BY <1>13, <2>1, <2>2 DEF EditTemplate
<1>14. ASSUME NEW t \in Templates, SyncRevision(t)
       PROVE  ShapeOK'
  <2>1. lister' \in Lists /\ strays' \subseteq Templates /\ behind' \subseteq Templates
    BY <1>14 DEF SyncRevision, Lists
  <2> QED
    BY <1>3, <1>14, <2>1 DEF SyncRevision
<1>15. CASE SyncApp \/ SyncPods \/ Resync
  BY <1>3, <1>15 DEF SyncApp, SyncPods, Resync
<1>16. CASE Crash
  <2>1. rec' = Idle /\ BudgetInv'
    BY <1>3, <1>16 DEF Crash
  <2> QED
    BY <1>16, <2>1, IdleShape DEF Crash, Rec
<1>17. CASE UNCHANGED vars
  BY <1>3, <1>17 DEF vars
<1> QED
  BY <1>4, <1>5, <1>6, <1>7, <1>8, <1>9, <1>10, <1>11, <1>12, <1>13, <1>14, <1>15,
     <1>16, <1>17 DEF Next, Controller

-----------------------------------------------------------------------------
(***************************************************************************)
(* The numbers                                                             *)
(***************************************************************************)
\* A reconcile or the informer does what the changes of the template that it
\* knows of allow.
LEMMA NumbersNext ==
    ASSUME ShapeOK, NumbersInv, [Next]_vars
    PROVE  NumbersInv'
<1> PICK c \in 0 .. Edited, d \in Nat :
        /\ d \in 0 .. c
        /\ appCache.tmpl # app.tmpl => c < Edited
        /\ InHand # appCache.tmpl => d < c
        /\ Within(hist, InHand, d) /\ Within(lister, InHand, d)
        /\ Within(rec.list, InHand, d)
  BY DEF NumbersInv
<1> USE DEF server, informer, apps
<1>1. /\ hist \in Lists /\ lister \in Lists /\ rec.list \in Lists
      /\ app.tmpl \in Templates /\ appCache.tmpl \in Templates /\ rec.tmpl \in Templates
      /\ InHand \in Templates /\ c \in Nat /\ d \in Nat /\ Edited \in Nat /\ rec \in Rec
      /\ BudgetInv
  BY HistoryAssumption DEF ShapeOK, InHand, BudgetInv, Edited, Rec, App
<1>2. ASSUME UNCHANGED budget \/ Spend("faults") \/ Spend("others")
      PROVE  Edited' = Edited
  BY <1>1, <1>2, SpendDoes DEF Edited
<1> DEFINE Same == /\ appCache'.tmpl = appCache.tmpl /\ app'.tmpl = app.tmpl
                   /\ Edited' = Edited
<1>3. ASSUME Same, InHand' = InHand, Within(hist', InHand, d), Within(lister', InHand, d),
             Within(rec'.list, InHand, d)
      PROVE  NumbersInv'
  BY <1>3 DEF NumbersInv, Within
<1>4. ASSUME NEW list, list \in Lists, Within(list, InHand, d), NEW t \in Templates,
             NEW n \in Nat, InHand = t => n = d, InHand # t => n = d + 1
      PROVE  Within(list, t, n)
  BY <1>1, <1>4, WithinMore
<1>5. ASSUME Same, rec' = Idle, hist' \in Lists, Within(hist', InHand, d), UNCHANGED lister
      PROVE  NumbersInv'
  <2>1. PICK n \in 0 .. c : (InHand = appCache.tmpl => n = d)
                             /\ (InHand # appCache.tmpl => n = d + 1)
    BY <1>1
  <2>2. InHand' = appCache.tmpl
    BY <1>5, IdleShape DEF InHand
  <2>3. Within(hist', appCache.tmpl, n) /\ Within(lister, appCache.tmpl, n)
    BY <1>1, <1>4, <1>5, <2>1
  <2>4. Within(rec'.list, appCache.tmpl, n)
    BY <1>1, <1>5, IdleShape DEF Within, NoList
  <2> QED
    BY <1>5, <2>1, <2>2, <2>3, <2>4 DEF NumbersInv, Within
<1>6. CASE Begin
  <2>1. InHand = appCache.tmpl /\ InHand' = appCache.tmpl /\ rec'.list = NoList
    BY <1>6, IdleShape DEF Begin, InHand, Rec
  <2>2. Within(NoList, InHand, d)
    BY <1>1 DEF Within, NoList
  <2>3. Same /\ UNCHANGED <<hist, lister>>
    BY <1>2, <1>6 DEF Begin
  <2> QED
    BY <1>3, <2>1, <2>2, <2>3
<1>7. CASE AdoptOrphanRevisions
  <2>1. Same /\ UNCHANGED <<hist, lister>>
    BY <1>2, <1>7 DEF AdoptOrphanRevisions
  <2>2. ASSUME NEW t, rec' = [rec EXCEPT !.adopt = @ \ {t}]
        PROVE  rec'.list = rec.list /\ InHand' = InHand
    <3>1. rec'.list = rec.list /\ rec'.tmpl = rec.tmpl /\ rec'.pc = rec.pc
      BY <1>1, <2>2, RecFields
    <3>2. rec.pc = "adopt"
      BY <1>7 DEF AdoptOrphanRevisions
    <3> QED
      BY <3>1, <3>2 DEF InHand
  <2>3. (\E t : rec' = [rec EXCEPT !.adopt = @ \ {t}]) \/ rec' = Idle
    BY <1>7 DEF AdoptOrphanRevisions, Return
  <2>4. CASE rec' = Idle
    BY <1>1, <1>5, <2>1, <2>4
  <2>5. CASE rec'.list = rec.list /\ InHand' = InHand
    BY <1>3, <2>1, <2>5
  <2> QED
    BY <2>2, <2>3, <2>4, <2>5
<1>8. CASE ListControllerRevisions
  <2>1. Same /\ UNCHANGED <<hist, lister>>
    BY <1>2, <1>8 DEF ListControllerRevisions
  <2>2. rec'.list = lister /\ InHand' = InHand
    BY <1>1, <1>8 DEF ListControllerRevisions, Rec, InHand
  <2> QED
    BY <1>3, <2>1, <2>2
<1>9. ASSUME rec.pc = "issue", rec' = Applying(rec)
      PROVE  rec'.list = rec.list /\ InHand' = InHand
  BY <1>1, <1>9, ApplyingShape DEF InHand
<1>10. CASE RevisionKept
  <2>1. Same /\ UNCHANGED <<hist, lister>>
    BY <1>2, <1>10 DEF RevisionKept
  <2> QED
    BY <1>3, <1>9, <1>10, <2>1 DEF RevisionKept
<1>11. CASE UpdateControllerRevision \/ CreateControllerRevision
  <2>1. InHand = rec.tmpl /\ rec.pc = "issue"
    BY <1>11 DEF UpdateControllerRevision, CreateControllerRevision, InHand
  <2>2. rec.list[rec.tmpl] = 0 \/ ~MustBeNewest(rec.tmpl, rec.list)
    BY <1>1, <1>11 DEF UpdateControllerRevision, CreateControllerRevision, Listed
  <2>3. nextRevisionId(rec.list) \in Nat /\ nextRevisionId(rec.list) <= 2 + d
    BY <1>1, <2>1, <2>2, NextWithin
  <2>4. hist' = hist \/ hist' = [hist EXCEPT ![rec.tmpl] = nextRevisionId(rec.list)]
    BY <1>11 DEF UpdateControllerRevision, CreateControllerRevision
  <2>5. Within(hist', InHand, d) /\ hist' \in Lists
    BY <1>1, <2>1, <2>3, <2>4 DEF Within, Lists
  <2>6. Same /\ UNCHANGED lister
    BY <1>2, <1>11 DEF UpdateControllerRevision, CreateControllerRevision
  <2>7. rec' = Applying(rec) \/ rec' = Idle
    BY <1>11 DEF UpdateControllerRevision, CreateControllerRevision, Return
  <2>8. CASE rec' = Applying(rec)
    BY <1>3, <1>9, <2>1, <2>5, <2>6, <2>8
  <2>9. CASE rec' = Idle
    BY <1>5, <2>5, <2>6, <2>9
  <2> QED
    BY <2>7, <2>8, <2>9
<1>12. CASE ApplyUpdate
  <2>1. Same /\ UNCHANGED <<hist, lister>>
    BY <1>2, <1>12 DEF ApplyUpdate
  <2>2. rec'.list = rec.list /\ InHand' = InHand
    <3>1. PICK err \in BOOLEAN : rec' = [rec EXCEPT !.pc = "status", !.err = err]
      BY <1>1, <1>12, AppliedRec
    <3>2. rec.pc = "apply"
      BY <1>12 DEF ApplyUpdate
    <3> QED
      BY <1>1, <3>1, <3>2 DEF Rec, InHand
  <2> QED
    BY <1>3, <2>1, <2>2
<1>13. CASE UpdateAppStatus
  <2>1. PICK cur, err, doomed :
           /\ rec' = [rec EXCEPT !.pc = "truncate", !.doomed = doomed, !.err = err]
           /\ app' = app \/ app' = [app EXCEPT !.cur = cur]
           /\ UNCHANGED budget \/ Spend("faults") \/ Spend("others")
    BY <1>1, <1>13, StatusWritten
  <2>2. rec'.list = rec.list /\ InHand' = InHand
    BY <1>1, <1>13, <2>1 DEF UpdateAppStatus, Rec, InHand
  <2>3. app'.tmpl = app.tmpl
    BY <2>1 DEF ShapeOK, App
  <2>4. Same /\ UNCHANGED <<hist, lister>>
    BY <1>2, <1>13, <2>1, <2>3 DEF UpdateAppStatus
  <2> QED
    BY <1>3, <2>2, <2>4
<1>14. CASE DeleteControllerRevision
  <2>1. PICK t \in Templates : \/ /\ hist' = [hist EXCEPT ![t] = 0]
                                  /\ rec' = [rec EXCEPT !.doomed = @ \ {t}]
                               \/ hist' = hist /\ rec' = Idle
    BY <1>1, <1>14 DEF DeleteControllerRevision, Oldest, Return, Rec
  <2>2. Within(hist', InHand, d) /\ hist' \in Lists
    BY <1>1, <2>1 DEF Within, Lists
  <2>3. Same /\ UNCHANGED lister
    BY <1>2, <1>14 DEF DeleteControllerRevision
  <2>4. CASE rec' = [rec EXCEPT !.doomed = @ \ {t}]
    <3>1. rec'.list = rec.list /\ InHand' = InHand
      <4>1. rec'.list = rec.list /\ rec'.tmpl = rec.tmpl /\ rec'.pc = rec.pc
        BY <1>1, <2>4, RecFields
      <4>2. rec.pc = "truncate"
        BY <1>14 DEF DeleteControllerRevision
      <4> QED
        BY <4>1, <4>2 DEF InHand
    <3> QED
      BY <1>3, <2>2, <2>3, <3>1
  <2>5. CASE rec' = Idle
    BY <1>5, <2>2, <2>3, <2>5
  <2> QED
    BY <2>1, <2>4, <2>5
<1>15. CASE End
  <2>1. Same /\ UNCHANGED <<hist, lister>> /\ rec' = Idle
    BY <1>2, <1>15 DEF End, Return
  <2> QED
    BY <1>1, <1>5, <2>1
<1>16. ASSUME NEW t \in Templates, EditTemplate(t)
       PROVE  NumbersInv'
  <2>1. Edited' = Edited + 1
    BY <1>1, <1>16, SpendDoes DEF EditTemplate
  <2>2. UNCHANGED <<hist, lister, rec, appCache>>
    BY <1>16 DEF EditTemplate
  <2>3. InHand' = InHand
    BY <2>2 DEF InHand
  <2>4. c \in 0 .. Edited' /\ c < Edited'
    BY <1>1, <2>1
  <2> QED
    BY <2>2, <2>3, <2>4 DEF NumbersInv, Within
<1>17. ASSUME NEW t \in Templates, SyncRevision(t)
       PROVE  NumbersInv'
  <2>1. Same /\ UNCHANGED <<hist, rec>> /\ InHand' = InHand
    BY <1>2, <1>17 DEF SyncRevision, InHand
  <2>2. Within(lister', InHand, d)
    BY <1>1, <1>17 DEF SyncRevision, Within, Lists
  <2> QED
    BY <1>3, <2>1, <2>2
<1>18. ASSUME appCache' = app, app' = app, Edited' = Edited, UNCHANGED hist,
              lister' \in {lister, hist}, rec' \in {rec, Idle}
       PROVE  NumbersInv'
  <2>1. PICK m \in 0 .. Edited : (app.tmpl = appCache.tmpl => m = c)
                                  /\ (app.tmpl # appCache.tmpl => m = c + 1)
    BY <1>1
  <2>2. CASE InHand' = InHand /\ rec' = rec
    <3>1. d \in 0 .. m /\ (InHand # app.tmpl => d < m)
      BY <1>1, <2>1
    <3> QED
      BY <1>18, <2>1, <2>2, <3>1 DEF NumbersInv, Within
  <2>3. CASE InHand' = app.tmpl
    <3>1. PICK n \in 0 .. m : (InHand = app.tmpl => n = d) /\ (InHand # app.tmpl => n = d + 1)
      <4>1. d \in 0 .. m /\ (InHand # app.tmpl => d + 1 \in 0 .. m)
        BY <1>1, <2>1
      <4> QED
        BY <4>1
    <3>2. /\ Within(hist, app.tmpl, n) /\ Within(lister, app.tmpl, n)
          /\ Within(rec.list, app.tmpl, n)
      BY <1>1, <1>4, <3>1
    <3>3. Within(Idle.list, app.tmpl, n)
      BY <1>1, <3>1, IdleShape DEF Within, NoList
    <3> QED
      BY <1>18, <2>1, <2>3, <3>1, <3>2, <3>3 DEF NumbersInv, Within
  <2> QED
    BY <1>18, <2>2, <2>3, IdleShape DEF InHand
<1>19. CASE SyncApp \/ Crash
  <2>1. Edited' = Edited
    BY <1>2, <1>19 DEF SyncApp, Crash
  <2> QED
    BY <1>18, <1>19, <2>1 DEF SyncApp, Crash
<1>20. CASE SyncPods \/ Resync \/ UNCHANGED vars
  <2>1. Same /\ UNCHANGED <<hist, lister, rec>> /\ InHand' = InHand
    BY <1>2, <1>20 DEF SyncPods, Resync, vars, InHand
  <2> QED
    BY <1>3, <2>1
<1> QED
  BY <1>6, <1>7, <1>8, <1>10, <1>11, <1>12, <1>13, <1>14, <1>15, <1>16, <1>17, <1>19,
     <1>20 DEF Next, Controller

-----------------------------------------------------------------------------
(***************************************************************************)
(* What is deleted                                                         *)
(***************************************************************************)
LEMMA DoomedNext ==
    ASSUME ShapeOK, DoomedInv, [Next]_vars
    PROVE  DoomedInv'
<1>1. rec \in Rec
  BY DEF ShapeOK, Rec
<1>2. CASE UNCHANGED rec
  BY <1>2 DEF DoomedInv, currentRevision, live, used, Listed
<1>3. CASE rec' = Idle
  BY <1>3, IdleShape DEF DoomedInv
<1>4. ASSUME rec'.pc \in {"adopt", "issue"}, rec'.doomed = {}
      PROVE  DoomedInv'
  BY <1>4 DEF DoomedInv
<1>5. CASE Begin
  BY <1>4, <1>5, IdleShape DEF Begin, Rec
<1>6. CASE AdoptOrphanRevisions
  <2>1. ASSUME NEW t, rec' = [rec EXCEPT !.adopt = @ \ {t}]
        PROVE  rec'.pc = rec.pc /\ rec'.doomed = rec.doomed
    BY <1>1, <2>1, RecFields
  <2> QED
    BY <1>3, <1>4, <1>6, <2>1 DEF AdoptOrphanRevisions, Return, DoomedInv
<1>7. CASE ListControllerRevisions
  BY <1>1, <1>4, <1>7 DEF ListControllerRevisions, Rec, DoomedInv
<1>8. CASE RevisionKept \/ UpdateControllerRevision \/ CreateControllerRevision
  <2>1. rec.pc = "issue" /\ rec' \in {Applying(rec), Idle}
    BY <1>8 DEF RevisionKept, UpdateControllerRevision, CreateControllerRevision, Return
  <2>2. ASSUME rec' = Applying(rec)
        PROVE  DoomedInv'
    <3>1. rec'.pc = "apply" /\ rec'.cur = currentRevision(rec') /\ rec'.doomed = {}
      BY <1>1, <2>1, <2>2, ApplyingShape DEF DoomedInv
    <3> QED
      BY <3>1 DEF DoomedInv, currentRevision, Listed
  <2> QED
    BY <1>3, <2>1, <2>2
<1>9. CASE ApplyUpdate
  <2>1. /\ rec.pc = "apply" /\ rec'.pc = "status" /\ rec'.list = rec.list
        /\ rec'.cur = rec.cur /\ rec'.seen = rec.seen /\ rec'.tmpl = rec.tmpl
        /\ rec'.doomed = rec.doomed
    <3>1. PICK err \in BOOLEAN : rec' = [rec EXCEPT !.pc = "status", !.err = err]
      BY <1>1, <1>9, AppliedRec
    <3>2. rec.pc = "apply"
      BY <1>9 DEF ApplyUpdate
    <3> QED
      BY <1>1, <3>1, <3>2 DEF Rec
  <2> QED
    BY <2>1 DEF DoomedInv, currentRevision, Listed
<1>10. CASE UpdateAppStatus
  <2>1. /\ rec.pc = "status" /\ rec'.pc = "truncate" /\ rec'.list = rec.list
        /\ rec'.cur = rec.cur /\ rec'.seen = rec.seen /\ rec'.tmpl = rec.tmpl
        /\ rec'.pods = rec.pods /\ rec'.doomed \in toDelete(rec)
    <3>1. PICK err \in BOOLEAN, doomed \in toDelete(rec) :
             rec' = [rec EXCEPT !.pc = "truncate", !.doomed = doomed, !.err = err]
      BY <1>1, <1>10, StatusWritten
    <3> QED
      BY <1>1, <1>10, <3>1 DEF UpdateAppStatus, Rec
  <2>2. rec'.doomed \subseteq Listed(rec.list) \ live(rec)
    BY <2>1 DEF toDelete, tooMany
  <2> QED
    BY <2>1, <2>2 DEF DoomedInv, currentRevision, Listed, live, used
<1>11. CASE DeleteControllerRevision
  <2>1. PICK t : rec' \in {[rec EXCEPT !.doomed = @ \ {t}], Idle} /\ rec.pc = "truncate"
    BY <1>11 DEF DeleteControllerRevision, Return
  <2>2. ASSUME rec' = [rec EXCEPT !.doomed = @ \ {t}]
        PROVE  DoomedInv'
    <3>1. /\ rec'.pc = rec.pc /\ rec'.list = rec.list
          /\ rec'.cur = rec.cur /\ rec'.seen = rec.seen /\ rec'.tmpl = rec.tmpl
          /\ rec'.pods = rec.pods /\ rec'.doomed = rec.doomed \ {t}
      BY <1>1, <2>2 DEF Rec
    <3> QED
      BY <2>1, <3>1 DEF DoomedInv, currentRevision, Listed, live, used
  <2> QED
    BY <1>3, <2>1, <2>2
<1>12. CASE End \/ Crash
  BY <1>3, <1>12 DEF End, Crash, Return
<1>13. CASE \/ SyncApp \/ SyncPods \/ Resync \/ UNCHANGED vars
            \/ \E t \in Templates : EditTemplate(t) \/ SyncRevision(t)
  BY <1>2, <1>13 DEF SyncApp, SyncPods, Resync, vars, EditTemplate, SyncRevision
<1> QED
  BY <1>5, <1>6, <1>7, <1>8, <1>9, <1>10, <1>11, <1>12, <1>13 DEF Next, Controller

\* Only truncateHistory deletes a revision, and one that it was to delete.
LEMMA DeletedByTruncate ==
    ASSUME ShapeOK, NumbersInv, [Next]_vars, NEW t \in Templates, hist[t] # 0, hist'[t] = 0
    PROVE  rec.pc = "truncate" /\ t \in rec.doomed
<1> USE DEF server
<1>1. CASE UpdateControllerRevision \/ CreateControllerRevision
  <2>1. rec.pc = "issue" /\ (rec.tmpl \notin Listed(rec.list) \/ ~MustBeNewest(rec.tmpl, rec.list))
    BY <1>1 DEF UpdateControllerRevision, CreateControllerRevision
  <2>2. nextRevisionId(rec.list) # 0
    <3>1. PICK c \in 0 .. Edited : \E d \in 0 .. c : Within(rec.list, InHand, d)
      BY DEF NumbersInv
    <3>2. PICK d \in 0 .. c : Within(rec.list, InHand, d)
      BY <3>1
    <3>3. rec.list \in Lists /\ 2 + d \in Nat /\ \A u \in Templates : rec.list[u] <= 2 + d
      BY <3>2 DEF ShapeOK, Within
    <3> QED
      BY <3>3, NextNumber
  <2>3. hist' = hist \/ hist' = [hist EXCEPT ![rec.tmpl] = nextRevisionId(rec.list)]
    BY <1>1 DEF UpdateControllerRevision, CreateControllerRevision
  <2> QED
    BY <2>2, <2>3 DEF ShapeOK, Lists
<1>2. CASE DeleteControllerRevision
  BY <1>2 DEF DeleteControllerRevision, Oldest, ShapeOK, Lists
<1>3. CASE UNCHANGED hist
  BY <1>3
<1>4. CASE \/ Begin \/ AdoptOrphanRevisions \/ ListControllerRevisions \/ RevisionKept
           \/ ApplyUpdate \/ UpdateAppStatus \/ End
           \/ SyncApp \/ SyncPods \/ Resync \/ Crash \/ UNCHANGED vars
           \/ \E u \in Templates : EditTemplate(u) \/ SyncRevision(u)
  BY <1>3, <1>4 DEF Begin, AdoptOrphanRevisions, ListControllerRevisions, RevisionKept,
     ApplyUpdate, UpdateAppStatus, End, SyncApp, SyncPods, Resync, Crash, vars,
     EditTemplate, SyncRevision
<1> QED
  BY <1>1, <1>2, <1>4 DEF Next, Controller

\* What truncateHistory is to delete is not in use, as far as it has seen that.
LEMMA DoomedNotInUse ==
    ASSUME ShapeOK, DoomedInv, SawInUse, rec.pc = "truncate", NEW t \in rec.doomed
    PROVE  t \notin Live
<1>1. t \in Listed(rec.list) /\ t \notin live(rec) /\ t # NoRev
  BY HistoryAssumption DEF DoomedInv, ShapeOK
<1>2. rec.cur = currentRevision(rec)
  BY DEF DoomedInv
<1>3. t # rec.seen
  BY <1>1, <1>2 DEF currentRevision, live
<1> QED
  BY <1>1, <1>3 DEF Live, live, SawInUse

-----------------------------------------------------------------------------
LEMMA HistoryNext == HistoryInv /\ [Next]_vars => HistoryInv'
  BY ShapeNext, NumbersNext, DoomedNext DEF HistoryInv

LEMMA HistoryType == HistoryInv => TypeOK
<1> SUFFICES ASSUME HistoryInv PROVE TypeOK
  OBVIOUS
<1>1. PICK c \in 0 .. Edited, d \in Nat :
          /\ d \in 0 .. c
          /\ Within(hist, InHand, d) /\ Within(lister, InHand, d) /\ Within(rec.list, InHand, d)
  BY DEF HistoryInv, NumbersInv
<1>2. d \in Nat /\ d <= MaxEdits
  BY <1>1, HistoryAssumption DEF HistoryInv, ShapeOK, BudgetInv, Edited
<1>3. ASSUME NEW list \in Lists, Within(list, InHand, d)
      PROVE  list \in [Templates -> 0 .. MaxNumber]
  BY <1>2, <1>3, HistoryAssumption DEF Lists, Within, MaxNumber
<1>4. ShapeOK
  BY DEF HistoryInv
<1>5. {hist, lister, rec.list} \subseteq [Templates -> 0 .. MaxNumber]
  BY <1>1, <1>3, <1>4 DEF ShapeOK
<1> QED
  BY <1>4, <1>5 DEF ShapeOK, TypeOK, Reconcile

\* The types; above all no revision gets a number past MaxEdits + 2, whatever the
\* cached history shows: a template is renumbered only when its revision is not
\* the newest, so that each change of the template makes room for one number more.
THEOREM HistoryTypeCorrect == Spec => []TypeOK
  BY HistoryInit, HistoryNext, HistoryType, PTL DEF Spec

\* truncateHistory deletes no revision that the App's template, its status or a
\* Pod uses, if these are as the reconcile saw them, for every history, however
\* far the cached one lags, and after every failed call and restart.
THEOREM InUseKept == Spec => InUseNotDeleted
<1>1. HistoryInv /\ [Next]_vars
         => [\A t \in Templates : hist[t] # 0 /\ hist'[t] = 0 /\ SawInUse => t \notin Live]_vars
  BY DeletedByTruncate, DoomedNotInUse DEF HistoryInv
<1> QED
  BY <1>1, HistoryInit, HistoryNext, PTL DEF Spec, InUseNotDeleted

(***************************************************************************)
(* In which order                                                          *)
(***************************************************************************)
\* What is older than a revision still to be deleted, and not in use, is still to
\* be deleted as well or gone.
AgeInv ==
    rec.pc = "truncate" =>
        \A t \in rec.doomed, u \in Listed(rec.list) \ live(rec) :
            rec.list[u] < rec.list[t] => u \in rec.doomed \/ hist[u] = 0

LEMMA AgeNext ==
    ASSUME ShapeOK, DoomedInv, AgeInv, [Next]_vars
    PROVE  AgeInv'
<1> USE DEF server
<1>1. rec \in Rec
  BY DEF ShapeOK, Rec
<1>2. CASE UNCHANGED <<rec, hist>>
  BY <1>2 DEF AgeInv, live, used, Listed
<1>3. CASE rec' = Idle
  BY <1>3, IdleShape DEF AgeInv
<1>4. ASSUME rec'.pc # "truncate"
      PROVE  AgeInv'
  BY <1>4 DEF AgeInv
<1>5. CASE Begin
  BY <1>4, <1>5, IdleShape DEF Begin, Rec
<1>6. CASE AdoptOrphanRevisions
  <2>1. ASSUME NEW t, rec' = [rec EXCEPT !.adopt = @ \ {t}]
        PROVE  rec'.pc = rec.pc
    BY <1>1, <2>1, RecFields
  <2> QED
    BY <1>3, <1>4, <1>6, <2>1 DEF AdoptOrphanRevisions, Return
<1>7. CASE ListControllerRevisions
  BY <1>1, <1>4, <1>7 DEF ListControllerRevisions, Rec
<1>8. CASE RevisionKept \/ UpdateControllerRevision \/ CreateControllerRevision
  <2>1. rec.pc = "issue" /\ rec' \in {Applying(rec), Idle}
    BY <1>8 DEF RevisionKept, UpdateControllerRevision, CreateControllerRevision, Return
  <2> QED
    BY <1>1, <1>3, <1>4, <2>1, ApplyingShape
<1>9. CASE ApplyUpdate
  <2>1. PICK err \in BOOLEAN : rec' = [rec EXCEPT !.pc = "status", !.err = err]
    BY <1>1, <1>9, AppliedRec
  <2> QED
    BY <1>1, <1>4, <2>1 DEF Rec
<1>10. CASE UpdateAppStatus
  <2>1. PICK err \in BOOLEAN, doomed \in toDelete(rec) :
           rec' = [rec EXCEPT !.pc = "truncate", !.doomed = doomed, !.err = err]
    BY <1>1, <1>10, StatusWritten
  <2>2. /\ rec'.list = rec.list /\ rec'.doomed = doomed /\ live(rec') = live(rec)
    BY <1>1, <2>1 DEF Rec, live, used
  <2>3. ASSUME NEW t \in doomed, NEW u \in Listed(rec.list) \ live(rec),
               rec.list[u] < rec.list[t]
        PROVE  u \in doomed
    <3>1. doomed \subseteq Listed(rec.list)
          /\ (u \notin doomed => rec.list[t] <= rec.list[u])
      BY DEF toDelete, tooMany
    <3>2. rec.list[t] \in Nat /\ rec.list[u] \in Nat
      BY <1>1, <3>1 DEF Rec, Lists, Listed
    <3> QED
      BY <2>3, <3>1, <3>2
  <2> QED
    BY <2>2, <2>3 DEF AgeInv
<1>11. CASE DeleteControllerRevision
  <2>1. rec.pc = "truncate"
    BY <1>11 DEF DeleteControllerRevision
  <2>2. ASSUME NEW t \in rec.doomed, rec' = [rec EXCEPT !.doomed = @ \ {t}],
               hist' = [hist EXCEPT ![t] = 0]
        PROVE  AgeInv'
    <3>1. /\ rec'.list = rec.list /\ rec'.doomed = rec.doomed \ {t}
          /\ live(rec') = live(rec)
      BY <1>1, <2>2 DEF Rec, live, used
    <3>2. \A u \in Templates : hist'[u] = IF u = t THEN 0 ELSE hist[u]
      BY <2>2 DEF ShapeOK, Lists
    <3> QED
      BY <2>1, <3>1, <3>2 DEF AgeInv, Listed
  <2> QED
    BY <1>3, <1>11, <2>2 DEF DeleteControllerRevision, Return, Oldest
<1>12. CASE End \/ Crash
  BY <1>3, <1>12 DEF End, Crash, Return
<1>13. CASE \/ SyncApp \/ SyncPods \/ Resync \/ UNCHANGED vars
            \/ \E t \in Templates : EditTemplate(t) \/ SyncRevision(t)
  BY <1>2, <1>13 DEF SyncApp, SyncPods, Resync, vars, EditTemplate, SyncRevision
<1> QED
  BY <1>5, <1>6, <1>7, <1>8, <1>9, <1>10, <1>11, <1>12, <1>13 DEF Next, Controller

\* Whoever deletes a revision deletes the oldest of those to be deleted.
LEMMA DeletedIsOldest ==
    ASSUME ShapeOK, NumbersInv, [Next]_vars, NEW t \in Templates, hist[t] # 0, hist'[t] = 0
    PROVE  rec.pc = "truncate" /\ t \in Oldest(rec.list, rec.doomed)
<1>1. rec.pc = "truncate" /\ t \in rec.doomed
  BY DeletedByTruncate
<1>2. CASE DeleteControllerRevision
  BY <1>1, <1>2 DEF DeleteControllerRevision, ShapeOK, Lists, server
<1>3. CASE UNCHANGED hist
  BY <1>3
<1> QED
  BY <1>1, <1>2, <1>3 DEF Next, Controller, Begin, AdoptOrphanRevisions,
     ListControllerRevisions, RevisionKept, UpdateControllerRevision,
     CreateControllerRevision, ApplyUpdate, UpdateAppStatus, End, SyncApp, SyncPods,
     Resync, Crash, vars, EditTemplate, SyncRevision, server

\* truncateHistory deletes no revision before an older one of its list that is not
\* in use, for every history and limit, wherever an error stops it.
THEOREM OldestAreFirst == Spec => OldestGoFirst
<1>1. Init => AgeInv
  BY IdleShape DEF Init, AgeInv
<1>2. HistoryInv /\ AgeInv /\ [Next]_vars => AgeInv'
  BY AgeNext DEF HistoryInv
<1>3. HistoryInv /\ AgeInv /\ [Next]_vars
         => [\A t, u \in Templates :
                /\ hist[t] # 0 /\ hist'[t] = 0
                /\ u \in Listed(rec.list) \ live(rec) /\ rec.list[u] < rec.list[t]
                => hist[u] = 0]_vars
  <2> SUFFICES ASSUME HistoryInv, AgeInv, [Next]_vars, NEW t \in Templates, NEW u \in Templates,
                      hist[t] # 0, hist'[t] = 0, u \in Listed(rec.list) \ live(rec),
                      rec.list[u] < rec.list[t]
               PROVE  hist[u] = 0
    OBVIOUS
  <2>1. rec.pc = "truncate" /\ t \in rec.doomed /\ (u \in rec.doomed => rec.list[t] <= rec.list[u])
    BY DeletedIsOldest DEF HistoryInv, Oldest
  <2>2. rec.list[t] \in Nat /\ rec.list[u] \in Nat
    BY DEF HistoryInv, ShapeOK, Lists
  <2> QED
    BY <2>1, <2>2 DEF AgeInv
<1> QED
  BY <1>1, <1>2, <1>3, HistoryInit, HistoryNext, PTL DEF Spec, OldestGoFirst

=============================================================================
