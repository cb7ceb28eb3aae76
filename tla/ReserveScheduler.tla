-------------------------- MODULE ReserveScheduler --------------------------
(***************************************************************************)
(* The reserve plugin of unicore-scheduler: capacity of a node kept free   *)
(* for a named Pod, as written in the ConfigMap unicore/reservation.       *)
(*                                                                         *)
(* The informer loads the ConfigMap into the plugin's map; Filter holds a  *)
(* node's free capacity against the reservations on it; Reserve drops the  *)
(* reservation of the Pod that was placed, and the cleanExpired loop those *)
(* whose time is over.  Both write the ConfigMap the same way: copy the    *)
(* map under the read lock, then, without it, Update with retries.  The    *)
(* ConfigMap is written by users too.                                      *)
(*                                                                         *)
(* CPU and memory are treated alike by the code; one resource stands for   *)
(* both.                                                                   *)
(***************************************************************************)
EXTENDS Integers, FiniteSets, SequencesExt

CONSTANTS
    Nodes, Pods,
    NoNode, NoPod, Bad,   \* model values; Bad is text that is not JSON
    Capacity,             \* what a node can allocate
    Sizes,                \* what a reservation may hold
    MaxTime,              \* bound: the clock
    MaxEdits,             \* bound: changes of the ConfigMap by users
    MaxFaults,            \* bound: Updates and bindings failed, Pods deleted, restarts
    MaxTries              \* attempts of RetryOnConflict (5 in the code)

ASSUME ReserveAssumption ==
    /\ {NoNode, Bad} \cap Nodes = {} /\ NoPod \notin Pods /\ IsFiniteSet(Pods)
    /\ {Capacity, MaxEdits, MaxFaults, MaxTries} \subseteq Nat
    /\ MaxTime \in Nat \ {0}
    /\ Sizes \subseteq Nat

VARIABLES
    cm,        \* the ConfigMap on the API server
    seen,      \* the ConfigMap the informer has: resource version, presence
    map,       \* the plugin's reservation map: a function of some nodes
    writer,    \* the two callers of updateCM and the write each has begun
    placed,    \* the node each Pod runs on or is assumed to run on
    cycle,     \* the Pod whose scheduling cycle is past Filter
    now, edits, faults,
    since,     \* history: the version from which on nothing was overwritten unseen
    served     \* history: the Pods whose reservations Reserve dropped since then

vars == <<cm, seen, map, writer, placed, cycle, now, edits, faults, since, served>>

Writers == {"reserve", "clean"}
Need(p) == 1   \* what a Pod's containers request

Reservation == [pod : Pods, size : Sizes, expire : 1 .. MaxTime]
NoWrite     == [data |-> << >>, tries |-> 0, base |-> 0, pod |-> NoPod]

\* Mutated form: malformed entries are loaded like the others.
LoadedAll(data) == {data}

\* The map a ConfigMap's data is loaded into.  The nodes are visited in any
\* order and the first malformed entry ends the loop: what was loaded before
\* it stays, what was there before is gone.
Loaded(data) ==
    LET good == {n \in DOMAIN data : data[n] # Bad}
    IN  {[n \in S |-> data[n]] :
            S \in IF good = DOMAIN data THEN {good} ELSE SUBSET good}

\* Types; the plugin's map never holds an entry that does not parse.
TypeOK ==
    /\ cm.exists \in BOOLEAN /\ cm.rv \in Nat
    /\ DOMAIN cm.data \subseteq Nodes
    /\ \A n \in DOMAIN cm.data : cm.data[n] = Bad \/ cm.data[n] \in Seq(Reservation)
    /\ seen.rv \in -1 .. cm.rv /\ seen.exists \in BOOLEAN
    /\ DOMAIN map \subseteq Nodes
    /\ \A n \in DOMAIN map : map[n] \in Seq(Reservation)
    /\ DOMAIN writer = Writers
    /\ \A w \in Writers : /\ writer[w].tries \in 0 .. MaxTries
                          /\ writer[w].base \in 0 .. cm.rv
                          /\ writer[w].pod \in Pods \cup {NoPod}
    /\ placed \in [Pods -> Nodes \cup {NoNode}]
    /\ cycle \in Pods \cup {NoPod}
    /\ now \in 1 .. MaxTime /\ edits \in Nat /\ faults \in Nat
    /\ since \in 0 .. cm.rv /\ served \subseteq Pods

Init ==
    /\ cm = [exists |-> TRUE, rv |-> 0, data |-> << >>]
    /\ seen = [rv |-> 0, exists |-> TRUE]
    /\ map = << >>
    /\ writer = [w \in Writers |-> NoWrite]
    /\ placed = [p \in Pods |-> NoNode]
    /\ cycle = NoPod
    /\ now = 1 /\ edits = MaxEdits /\ faults = MaxFaults
    /\ since = 0 /\ served = {}

(***************************************************************************)
(* Users and the passing of time.                                          *)
(***************************************************************************)
Entry(n) == IF n \in DOMAIN cm.data /\ cm.data[n] # Bad THEN cm.data[n] ELSE << >>

Store(data) == cm' = [cm EXCEPT !.exists = TRUE, !.rv = @ + 1, !.data = data]

AllGood == \A n \in DOMAIN cm.data : cm.data[n] # Bad

\* A version no copy of the plugin knows.
Anew == since' = cm.rv + 1 /\ served' = {}

Edit == edits > 0 /\ edits' = edits - 1 /\ Anew

\* A reservation is added, before or behind those the node has.
UserAdds(n, r) ==
    /\ Edit
    /\ \E list \in {<<r>> \o Entry(n), Entry(n) \o <<r>>} :
          Store([m \in DOMAIN cm.data \cup {n} |-> IF m = n THEN list ELSE cm.data[m]])
    /\ UNCHANGED <<seen, map, writer, placed, cycle, now, faults>>

UserSpoils(n) ==
    /\ Edit
    /\ n \in DOMAIN cm.data
    /\ Store([cm.data EXCEPT ![n] = Bad])
    /\ UNCHANGED <<seen, map, writer, placed, cycle, now, faults>>

UserDeletes ==
    /\ Edit /\ cm.exists
    /\ cm' = [cm EXCEPT !.exists = FALSE, !.rv = @ + 1, !.data = << >>]
    /\ UNCHANGED <<seen, map, writer, placed, cycle, now, faults>>

Tick ==
    /\ now < MaxTime /\ now' = now + 1
    /\ UNCHANGED <<cm, seen, map, writer, placed, cycle, edits, faults, since, served>>

\* The informer's AddFunc, UpdateFunc and DeleteFunc: the map is replaced.
Fresh == seen.rv = cm.rv

Sync ==
    /\ ~Fresh
    /\ seen' = [rv |-> cm.rv, exists |-> cm.exists]
    /\ map' \in Loaded(cm.data)
    /\ UNCHANGED <<cm, writer, placed, cycle, now, edits, faults, since, served>>

(***************************************************************************)
(* Filter.  The live reservations are added up one by one, the Pod's own   *)
(* among them; the sum is held against the free capacity after every one   *)
(* that is not the Pod's own.                                              *)
(***************************************************************************)
On(n)     == IF n \in DOMAIN map THEN map[n] ELSE << >>
Live      == {r \in Reservation : r.expire > now}
Others(p) == {r \in Live : r.pod # p}
Free(n)   == Capacity - Cardinality({p \in Pods : placed[p] = n})

\* What those of the first i entries that are in S hold together.
Held(list, S) ==
    LET held[i \in 0 .. Len(list)] ==
            IF i = 0 THEN 0
            ELSE held[i - 1] + (IF list[i] \in S THEN list[i].size ELSE 0)
    IN  held

\* Mutated form: the need of the Pod is left out.
EnoughForNone(free, reserved, need) == free - reserved >= 0

Enough(free, reserved, need) == free - reserved >= need

FilterPasses(p, n) ==
    /\ Need(p) <= Free(n)   \* the framework's own check of resources
    /\ \A i \in DOMAIN On(n) :
          On(n)[i] \in Others(p) => Enough(Free(n), Held(On(n), Live)[i], Need(p))

Filter(p, n) ==
    /\ cycle = NoPod /\ writer["reserve"] = NoWrite /\ placed[p] = NoNode
    /\ FilterPasses(p, n)
    /\ placed' = [placed EXCEPT ![p] = n]
    /\ cycle' = p
    /\ UNCHANGED <<cm, seen, map, writer, now, edits, faults, since, served>>

(***************************************************************************)
(* Reserve and cleanExpired: the copy that will be written.                *)
(***************************************************************************)
Filtered(list, S) ==
    LET kept[i \in 0 .. Len(list)] ==
            IF i = 0 THEN << >>
            ELSE IF list[i] \in S THEN Append(kept[i - 1], list[i]) ELSE kept[i - 1]
    IN  kept[Len(list)]

Kept(S) == [n \in DOMAIN map |-> Filtered(map[n], S)]

\* Mutated forms: the tests are inverted.
OnlyOf(p, r) == r.pod = p
OnlyOver(r) == r.expire <= now

NotOf(p, r) == r.pod # p

NotOver(r) == r.expire > now

Begin(w, copy, p) ==
    writer' = IF copy = map THEN writer
              ELSE [writer EXCEPT ![w] = [data |-> copy, tries |-> MaxTries,
                                          base |-> seen.rv, pod |-> p]]

Reserve ==
    /\ cycle # NoPod
    /\ Begin("reserve", Kept({r \in Reservation : NotOf(cycle, r)}), cycle)
    /\ cycle' = NoPod
    /\ served' = IF seen.rv >= since /\ writer' # writer THEN served \cup {cycle} ELSE served
    /\ UNCHANGED <<cm, seen, map, placed, now, edits, faults, since>>

CleanExpired ==
    /\ writer["clean"] = NoWrite
    /\ Begin("clean", Kept({r \in Reservation : NotOver(r)}), NoPod)
    /\ UNCHANGED <<cm, seen, map, placed, cycle, now, edits, faults, since, served>>

(***************************************************************************)
(* updateCM, one attempt: the resource version comes from the informer,    *)
(* the data is the copy made before.  A conflict is tried again, with the  *)
(* same data; a ConfigMap that is gone, the last try, or a call that fails *)
(* for another reason ends it: Reserve succeeds all the same.              *)
(***************************************************************************)
TriedAgain(write) == [write EXCEPT !.tries = @ - 1]

Fault == faults > 0 /\ faults' = faults - 1

\* The copy was made from a version that had every entry users wrote.
Complete(w) == writer[w].base >= since /\ AllGood

Accepted(w) ==
    /\ seen.exists /\ cm.exists /\ Fresh
    /\ Store(writer[w].data)
    /\ writer' = [writer EXCEPT ![w] = NoWrite]
    /\ IF Complete(w) THEN UNCHANGED <<since, served>> ELSE Anew
    /\ UNCHANGED faults

Refused(w) ==
    /\ \/ /\ seen.exists /\ cm.exists /\ ~Fresh
          /\ writer' = [writer EXCEPT ![w] = IF @.tries > 1 THEN TriedAgain(@) ELSE NoWrite]
          /\ UNCHANGED faults
       \/ /\ ~(seen.exists /\ cm.exists)
          /\ writer' = [writer EXCEPT ![w] = NoWrite]
          /\ UNCHANGED faults
       \/ /\ Fault
          /\ writer' = [writer EXCEPT ![w] = NoWrite]
    /\ UNCHANGED <<cm, since, served>>

UpdateCM(w) ==
    /\ writer[w] # NoWrite
    /\ Accepted(w) \/ Refused(w)
    /\ UNCHANGED <<seen, map, placed, cycle, now, edits>>

\* A Pod is deleted, or its binding fails (Unreserve does nothing: the
\* reservation that was dropped is not put back).
Unplace(p) ==
    /\ Fault
    /\ placed[p] # NoNode /\ cycle # p /\ writer["reserve"].pod # p
    /\ placed' = [placed EXCEPT ![p] = NoNode]
    /\ UNCHANGED <<cm, seen, map, writer, cycle, now, edits, since, served>>

\* The scheduler restarts.  New waits until the informer has listed, not
\* until the handler that fills the map has run.
Restart ==
    /\ Fault
    /\ seen' = [rv |-> -1, exists |-> FALSE]
    /\ map' = << >>
    /\ writer' = [w \in Writers |-> NoWrite]
    /\ placed' = [p \in Pods |-> IF p = cycle \/ p = writer["reserve"].pod
                                 THEN NoNode ELSE placed[p]]
    /\ cycle' = NoPod
    /\ UNCHANGED <<cm, now, edits, since, served>>

Next ==
    \/ \E n \in Nodes : UserSpoils(n) \/ \E r \in Reservation : UserAdds(n, r)
    \/ UserDeletes \/ Tick \/ Sync
    \/ \E p \in Pods : Unplace(p) \/ \E n \in Nodes : Filter(p, n)
    \/ Reserve \/ CleanExpired \/ \E w \in Writers : UpdateCM(w)
    \/ Restart

Spec == Init /\ [][Next]_vars

\* The informer, the loop and the scheduling cycle run on.
Fairness ==
    /\ WF_vars(Sync) /\ WF_vars(CleanExpired) /\ WF_vars(Reserve)
    /\ \A w \in Writers : WF_vars(UpdateCM(w))

FairSpec == Spec /\ Fairness

(***************************************************************************)
(* Properties.                                                             *)
(***************************************************************************)
\* What Filter admits leaves room for every reservation the plugin knows of
\* that is not the Pod's own and not over: the running sum over the list, in
\* whatever order, may not let one slip.
FilterProtectsOthers ==
    [][\A p \in Pods, n \in Nodes :
          placed[p] = NoNode /\ placed'[p] = n =>
              Free(n) - Held(On(n), Others(p))[Len(On(n))] >= Need(p)]_vars

Entries(data, n) == IF n \in DOMAIN data THEN ToSet(data[n]) ELSE {}

Released(r) == r.expire <= now \/ r.pod \in served

\* A write takes away what is over and what the Pods placed in the meantime
\* reserved, and nothing else: however many conflicts it met, and whatever the
\* other writer wrote since the copy was made.  What users wrote since then is
\* overwritten by it; such a write, and one over malformed entries, is left out.
WritesRemoveOnlyTheirOwn ==
    [][\A w \in Writers :
          /\ writer[w] # NoWrite /\ writer'[w] = NoWrite
          /\ cm'.exists /\ cm'.rv = cm.rv + 1
          /\ Complete(w)
          => \A n \in Nodes :
                \A r \in Entries(cm.data, n) \ Entries(cm'.data, n) : Released(r)]_vars

Over(n) == \E r \in ToSet(Entry(n)) : r.expire <= now

\* A reservation whose time is over leaves the ConfigMap in the end, through
\* conflicts, lost attempts and restarts, unless a malformed entry keeps the
\* loop from seeing it.
ExpiredAreCleaned == \A n \in Nodes : Over(n) ~> (~Over(n) \/ ~AllGood)

\* The test of the plugin (test_reserve_scheduler.sh, step 4) expects the Pod
\* a reservation is for to get the node: whenever the node has room for the
\* Pod besides the reservations of others, Filter lets it through.
ReservedPodFits ==
    \A p \in Pods, n \in Nodes :
        /\ cycle = NoPod /\ placed[p] = NoNode
        /\ \E r \in ToSet(On(n)) \cap Live : r.pod = p
        /\ Free(n) - Held(On(n), Others(p))[Len(On(n))] >= Need(p)
        => FilterPasses(p, n)
=============================================================================
