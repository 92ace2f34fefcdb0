---------------------------- MODULE AtomicHealth ----------------------------
(***************************************************************************)
(* One CycleMetric of the health probe: four words written with relaxed    *)
(* operations by several threads (the control loop and the HAL both record *)
(* sanitizer_cycle, every sandbox records wasm_cycle) and read one by one  *)
(* by the stdin task.  Operations on different words may take effect in    *)
(* any order; each alone is atomic.                                        *)
(***************************************************************************)
EXTENDS Naturals, FiniteSets

CONSTANTS Writer,     \* threads that record
          Duration,   \* what a cycle may take
          MaxRecords  \* bound on the records

ASSUME HealthAssumption ==
    IsFiniteSet(Writer) /\ Duration \subseteq Nat /\ MaxRecords \in Nat

Word == {"last_ns", "max_ns", "total_ns", "count"}
\* snapshot() loads the count twice: for the average, and for itself.
Load == Word \cup {"count_again"}

VARIABLES
    metric,   \* the four words
    todo,     \* operations of each writer's record() not yet performed
    dur,      \* the duration each writer records
    begun,    \* history: records begun, their sum and maximum
    loaded,   \* the values snapshot() has loaded so far
    from,     \* history: count and maximum when the snapshot began
    quiet     \* history: no record overlapped the snapshot

health_vars == <<metric, todo, dur, begun, loaded, from, quiet>>

HealthInit ==
    /\ metric = [w \in Word |-> 0]
    /\ todo = [t \in Writer |-> {}] /\ dur = [t \in Writer |-> 0]
    /\ begun = [count |-> 0, total_ns |-> 0, max_ns |-> 0]
    /\ loaded = [l \in {} |-> 0]
    /\ from = [count |-> 0, max_ns |-> 0] /\ quiet = TRUE

Larger(a, b) == IF a >= b THEN a ELSE b
Recording == \E t \in Writer : todo[t] # {}

\* CycleMetric::record(duration_ns).
Record(t, d) ==
    /\ todo[t] = {} /\ begun.count < MaxRecords
    /\ todo' = [todo EXCEPT ![t] = Word]
    /\ dur' = [dur EXCEPT ![t] = d]
    /\ begun' = [count |-> begun.count + 1,
                 total_ns |-> begun.total_ns + d,
                 max_ns |-> Larger(begun.max_ns, d)]
    /\ quiet' = FALSE
    /\ UNCHANGED <<metric, loaded, from>>

\* Mutant: the maximum is stored instead of raised.
UpdatedStoringMax(w, d) ==
    CASE w = "last_ns" -> d
      [] w = "max_ns" -> IF d > metric.last_ns THEN d ELSE metric.max_ns
      [] w = "total_ns" -> metric.total_ns + d
      [] w = "count" -> metric.count + 1

\* store, fetch_max, fetch_add, fetch_add.
Updated(w, d) ==
    CASE w = "last_ns" -> d
      [] w = "max_ns" -> Larger(metric.max_ns, d)
      [] w = "total_ns" -> metric.total_ns + d
      [] w = "count" -> metric.count + 1

Apply(t, w) ==
    /\ w \in todo[t]
    /\ metric' = [metric EXCEPT ![w] = Updated(w, dur[t])]
    /\ todo' = [todo EXCEPT ![t] = @ \ {w}]
    /\ dur' = [dur EXCEPT ![t] = IF todo[t] = {w} THEN 0 ELSE @]
    /\ UNCHANGED <<begun, loaded, from, quiet>>

\* The next CycleMetric::snapshot(); the first one is under way from the start.
BeginSnapshot ==
    /\ DOMAIN loaded = Load
    /\ loaded' = [l \in {} |-> 0]
    /\ from' = [count |-> metric.count, max_ns |-> metric.max_ns]
    /\ quiet' = ~Recording
    /\ UNCHANGED <<metric, todo, dur, begun>>

\* Mutant: the second load of the count reads the word before it.
WordOfNeighbour(l) == IF l = "count_again" THEN "total_ns" ELSE l

WordOf(l) == IF l = "count_again" THEN "count" ELSE l

\* Two loads of one word keep their order: the average's comes first.
LoadWord(l) ==
    /\ l \notin DOMAIN loaded
    /\ l = "count_again" => "count" \in DOMAIN loaded
    /\ loaded' = [k \in DOMAIN loaded \cup {l} |->
                     IF k = l THEN metric[WordOf(l)] ELSE loaded[k]]
    /\ UNCHANGED <<metric, todo, dur, begun, from, quiet>>

HealthNext ==
    \/ \E t \in Writer : \/ \E d \in Duration : Record(t, d)
                         \/ \E w \in Word : Apply(t, w)
    \/ BeginSnapshot
    \/ \E l \in Load : LoadWord(l)

HealthSpec == HealthInit /\ [][HealthNext]_health_vars

Avg == IF loaded.count = 0 THEN 0 ELSE loaded.total_ns \div loaded.count

-----------------------------------------------------------------------------
HealthTypeOK ==
    /\ metric \in [Word -> Nat] /\ from \in [count : Nat, max_ns : Nat]
    /\ todo \in [Writer -> SUBSET Word] /\ dur \in [Writer -> Nat]
    /\ begun \in [count : Nat, total_ns : Nat, max_ns : Nat]
    /\ DOMAIN loaded \subseteq Load /\ \A l \in DOMAIN loaded : loaded[l] \in Nat
    /\ quiet \in BOOLEAN

(***************************************************************************)
(* However the records of several threads interleave, none is lost: once   *)
(* no thread is inside record(), count, total and maximum are those of all *)
(* the records (atomic_health.rs:46-51).                                   *)
(***************************************************************************)
NoSampleLost ==
    ~Recording => /\ metric.count = begun.count
                  /\ metric.total_ns = begun.total_ns
                  /\ metric.max_ns = begun.max_ns

(***************************************************************************)
(* The "consistent-enough readout" (atomic_health.rs:54-64, :151): a count *)
(* or maximum lies between its values when the snapshot began and now, and *)
(* a snapshot no record overlapped has an exact count and an average below *)
(* its maximum.  Under a record the average may exceed the maximum.        *)
(***************************************************************************)
SnapshotIsPlausible ==
    DOMAIN loaded = Load
      => /\ from.count <= loaded.count_again /\ loaded.count_again <= metric.count
         /\ from.max_ns <= loaded.max_ns /\ loaded.max_ns <= metric.max_ns
         /\ loaded.last_ns <= begun.max_ns
         /\ quiet => /\ loaded.count_again = begun.count
                     /\ Avg <= loaded.max_ns /\ loaded.last_ns <= loaded.max_ns
=============================================================================
