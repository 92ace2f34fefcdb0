------------------------------- MODULE SonnyProofs -------------------------------
(***************************************************************************)
(* The health probe, the configuration boot resolves, and the program they *)
(* are parts of: for every set of files, environments and threads, every   *)
(* part boot starts keeps what it promises alone.                          *)
(***************************************************************************)
EXTENDS Sonny, CommandPipelineProofs, FramingsProofs, XgoUartProofs, SimWorkerProofs,
        FiniteSetTheorems, TLAPS

-----------------------------------------------------------------------------
(* What the writers still have to add to a word, one after another in some *)
(* order of theirs.                                                        *)

Counts(e, n) == e \in Bijection(1..n, Writer)

Adds(p, f, e, n, x) ==
    /\ p \in [0..n -> Int] /\ p[0] = 0 /\ p[n] = x
    /\ \A i \in 1..n : p[i] = p[i - 1] + f[e[i]]

IsSum(f, x) == \E n \in Nat : \E e, p : Counts(e, n) /\ Adds(p, f, e, n, x)

LEMMA CountsOnce ==
    ASSUME NEW n \in Nat, NEW e, Counts(e, n)
    PROVE  /\ \A i \in 1..n : e[i] \in Writer
           /\ \A t \in Writer : \E i \in 1..n : e[i] = t
           /\ \A i, j \in 1..n : e[i] = e[j] => i = j
  <1>1. e \in Bijection(1..n, Writer)
    BY DEF Counts
  <1>2. e \in [1..n -> Writer]
    BY <1>1 DEF Bijection, Injection, Surjection
  <1>3. \A t \in Writer : \E i \in 1..n : e[i] = t
    BY <1>1 DEF Bijection, Surjection
  <1>4. \A i, j \in 1..n : e[i] = e[j] => i = j
    BY <1>1 DEF Bijection, Injection, IsInjective
  <1> QED BY <1>2, <1>3, <1>4

\* At the start there is nothing to add.
LEMMA SumOfNothing ==
    ASSUME NEW f, \A t \in Writer : f[t] = 0
    PROVE  IsSum(f, 0)
  <1>1. PICK n \in Nat : ExistsBijection(1..n, Writer)
    BY HealthAssumption, FS_NatBijection
  <1>2. PICK e : Counts(e, n)
    BY <1>1 DEF ExistsBijection, Counts
  <1> DEFINE p == [i \in 0..n |-> 0]
  <1>3. p \in [0..n -> Int] /\ p[0] = 0 /\ p[n] = 0
    OBVIOUS
  <1>4. ASSUME NEW i \in 1..n
        PROVE  p[i] = p[i - 1] + f[e[i]]
    <2>1. f[e[i]] = 0
      BY <1>2, CountsOnce
    <2>2. p[i] = 0 /\ p[i - 1] = 0
      OBVIOUS
    <2> QED BY <2>1, <2>2
  <1>5. Adds(p, f, e, n, 0)
    BY <1>3, <1>4 DEF Adds
  <1> QED BY <1>2, <1>5 DEF IsSum

\* With nothing left to add the sum is zero.
LEMMA NothingLeft ==
    ASSUME NEW f, NEW x, IsSum(f, x), \A t \in Writer : f[t] = 0
    PROVE  x = 0
  <1>1. PICK n \in Nat : \E e, p : Counts(e, n) /\ Adds(p, f, e, n, x)
    BY DEF IsSum
  <1>2. PICK e, p : Counts(e, n) /\ Adds(p, f, e, n, x)
    BY <1>1
  <1>3. p[0] = 0 /\ p[n] = x
    BY <1>2 DEF Adds
  <1> DEFINE T == {i \in 0..n : p[i] # 0}
  <1>4. SUFFICES ASSUME T # {} PROVE FALSE
    BY <1>3
  <1>5. T \subseteq Nat
    OBVIOUS
  <1>6. PICK i \in T : \A j \in T : i <= j
    BY <1>4, <1>5, FramingLeast
  <1>7. i \in 1..n /\ p[i] # 0
    BY <1>3, <1>6
  <1>8. i - 1 \in 0..n /\ i - 1 \notin T
    BY <1>6, <1>7
  <1>9. p[i] = p[i - 1] + f[e[i]]
    BY <1>2, <1>7 DEF Adds
  <1>10. f[e[i]] = 0
    BY <1>2, <1>7, CountsOnce
  <1> QED BY <1>7, <1>8, <1>9, <1>10

\* One writer's part changes, and with it the sum.
LEMMA SumAfter ==
    ASSUME NEW f, NEW g, NEW x \in Int, NEW t \in Writer, NEW d \in Int,
           \A u \in Writer : f[u] \in Int,
           IsSum(f, x), g[t] = f[t] + d, \A u \in Writer : u # t => g[u] = f[u]
    PROVE  IsSum(g, x + d)
  <1>1. PICK n \in Nat : \E e, p : Counts(e, n) /\ Adds(p, f, e, n, x)
    BY DEF IsSum
  <1>2. PICK e, p : Counts(e, n) /\ Adds(p, f, e, n, x)
    BY <1>1
  <1>3. /\ p \in [0..n -> Int] /\ p[0] = 0 /\ p[n] = x
        /\ \A i \in 1..n : p[i] = p[i - 1] + f[e[i]]
    BY <1>2 DEF Adds
  <1>4. /\ \A i \in 1..n : e[i] \in Writer
        /\ \A u \in Writer : \E i \in 1..n : e[i] = u
        /\ \A i, j \in 1..n : e[i] = e[j] => i = j
    BY <1>2, CountsOnce
  <1>5. PICK k \in 1..n : e[k] = t
    BY <1>4, Zenon
  <1> DEFINE q == [i \in 0..n |-> IF i < k THEN p[i] ELSE p[i] + d]
  <1>6. q \in [0..n -> Int]
    BY <1>3
  <1>7. q[0] = 0 /\ q[n] = x + d
    BY <1>3
  <1>8. ASSUME NEW i \in 1..n
        PROVE  q[i] = q[i - 1] + g[e[i]]
    <2>1. /\ e[i] \in Writer /\ f[e[i]] \in Int /\ p[i] = p[i - 1] + f[e[i]]
          /\ p[i] \in Int /\ p[i - 1] \in Int
      <3>1. i \in 0..n /\ i - 1 \in 0..n
        OBVIOUS
      <3> QED BY <1>3, <1>4, <3>1
    <2>2. e[i] = e[k] => i = k
      BY <1>4, Zenon
    <2>3. i # k => g[e[i]] = f[e[i]]
      BY <1>5, <2>1, <2>2
    <2>4. CASE i < k
      <3>1. g[e[i]] = f[e[i]]
        BY <2>3, <2>4
      <3>2. q[i] = p[i] /\ q[i - 1] = p[i - 1]
        BY <2>4
      <3> HIDE DEF q
      <3> QED BY <2>1, <3>1, <3>2
    <2>5. CASE i = k
      <3>1. g[e[i]] = f[e[i]] + d
        BY <1>5, <2>5
      <3>2. q[i] = p[i] + d /\ q[i - 1] = p[i - 1]
        BY <2>5
      <3> HIDE DEF q
      <3> QED BY <2>1, <3>1, <3>2
    <2>6. CASE i > k
      <3>1. g[e[i]] = f[e[i]]
        BY <2>3, <2>6
      <3>2. q[i] = p[i] + d /\ q[i - 1] = p[i - 1] + d
        BY <2>6
      <3> HIDE DEF q
      <3> QED BY <2>1, <3>1, <3>2
    <2> QED BY <2>4, <2>5, <2>6
  <1>9. Adds(q, g, e, n, x + d)
    BY <1>6, <1>7, <1>8 DEF Adds
  <1> QED BY <1>2, <1>9 DEF IsSum

-----------------------------------------------------------------------------
(* The inductive invariant: the count and the total fall short of what was *)
(* recorded by exactly what the writers still have to add, the maximum by  *)
(* nothing unless one of them still has to raise it.                       *)

OwedTime == [t \in Writer |-> IF "total_ns" \in todo[t] THEN dur[t] ELSE 0]
OwedCount == [t \in Writer |-> IF "count" \in todo[t] THEN 1 ELSE 0]

NothingIsMissing ==
    /\ IsSum(OwedTime, begun.total_ns - metric.total_ns)
    /\ IsSum(OwedCount, begun.count - metric.count)
    /\ \/ begun.max_ns = metric.max_ns
       \/ \E t \in Writer : "max_ns" \in todo[t] /\ dur[t] = begun.max_ns

NothingIsLonger ==
    /\ metric.max_ns <= begun.max_ns /\ metric.last_ns <= begun.max_ns
    /\ \A t \in Writer : dur[t] <= begun.max_ns
    /\ begun.total_ns <= begun.count * begun.max_ns

LoadsAreBetween ==
    /\ from.count <= metric.count /\ from.max_ns <= metric.max_ns
    /\ "count_again" \in DOMAIN loaded
         => from.count <= loaded["count_again"] /\ loaded["count_again"] <= metric.count
    /\ "max_ns" \in DOMAIN loaded
         => from.max_ns <= loaded["max_ns"] /\ loaded["max_ns"] <= metric.max_ns
    /\ "last_ns" \in DOMAIN loaded => loaded["last_ns"] <= begun.max_ns

QuietLoads ==
    quiet => /\ \A t \in Writer : todo[t] = {}
             /\ \A l \in DOMAIN loaded : loaded[l] = metric[WordOf(l)]

HealthInv ==
    HealthTypeOK /\ NothingIsMissing /\ NothingIsLonger /\ LoadsAreBetween /\ QuietLoads

LEMMA HealthInitHolds == HealthInit => HealthInv
  <1> SUFFICES ASSUME HealthInit PROVE HealthInv
    OBVIOUS
  <1> USE DEF HealthInit
  <1>1. HealthTypeOK
    BY DEF HealthTypeOK, Word, Load
  <1>2. /\ metric.count = 0 /\ metric.total_ns = 0 /\ metric.max_ns = 0
        /\ metric.last_ns = 0
        /\ begun.count = 0 /\ begun.total_ns = 0 /\ begun.max_ns = 0
        /\ from.count = 0 /\ from.max_ns = 0 /\ DOMAIN loaded = {}
    BY DEF Word
  <1>3. NothingIsMissing
    <2>1. IsSum(OwedTime, 0)
      BY SumOfNothing DEF OwedTime
    <2>2. IsSum(OwedCount, 0)
      BY SumOfNothing DEF OwedCount
    <2>3. /\ begun.total_ns - metric.total_ns = 0
          /\ begun.count - metric.count = 0
      BY <1>2
    <2> QED BY <1>2, <2>1, <2>2, <2>3 DEF NothingIsMissing
  <1>4. NothingIsLonger
    BY <1>2 DEF NothingIsLonger
  <1>5. LoadsAreBetween
    BY <1>2 DEF LoadsAreBetween
  <1>6. QuietLoads
    BY <1>2 DEF QuietLoads
  <1> QED BY <1>1, <1>3, <1>4, <1>5, <1>6 DEF HealthInv

LEMMA LongestTimes ==
    ASSUME NEW a \in Nat, NEW c \in Nat, NEW m \in Nat, NEW k \in Nat,
           a <= c * m, m <= k
    PROVE  a <= c * k
  <1>1. c * k = c * m + c * (k - m)
    OBVIOUS
  <1>2. c * (k - m) \in Nat
    OBVIOUS
  <1>3. c * m \in Nat
    OBVIOUS
  <1> QED BY <1>1, <1>2, <1>3

LEMMA RecordKeeps ==
    ASSUME HealthInv, NEW t \in Writer, NEW d \in Duration, Record(t, d)
    PROVE  HealthInv'
  <1> DEFINE m == Larger(begun.max_ns, d)
  <1>1. /\ d \in Nat /\ begun.count \in Nat /\ begun.total_ns \in Nat
        /\ begun.max_ns \in Nat /\ todo[t] = {}
        /\ todo \in [Writer -> SUBSET Word] /\ dur \in [Writer -> Nat]
        /\ metric \in [Word -> Nat]
    BY HealthAssumption DEF HealthInv, HealthTypeOK, Record
  <1>2. m \in Nat /\ begun.max_ns <= m /\ d <= m /\ m \in {begun.max_ns, d}
    BY <1>1 DEF Larger
  <1>3. /\ begun'.count = begun.count + 1 /\ begun'.max_ns = m
        /\ begun'.total_ns = begun.total_ns + d
        /\ begun' \in [count : Nat, total_ns : Nat, max_ns : Nat]
    BY <1>1, <1>2 DEF Record
  <1>4. /\ todo' = [todo EXCEPT ![t] = Word] /\ dur' = [dur EXCEPT ![t] = d]
        /\ metric' = metric /\ loaded' = loaded /\ from' = from /\ quiet' = FALSE
    BY DEF Record
  <1>5. /\ metric.count \in Nat /\ metric.total_ns \in Nat
        /\ metric.max_ns \in Nat /\ metric.last_ns \in Nat
    BY <1>1 DEF Word
  <1> HIDE DEF m
  <1>6. HealthTypeOK'
    <2>1. todo' \in [Writer -> SUBSET Word] /\ dur' \in [Writer -> Nat]
      BY <1>1, <1>4
    <2> QED BY <1>3, <1>4, <2>1 DEF HealthInv, HealthTypeOK
  <1>7. NothingIsMissing'
    <2>1. IsSum(OwedTime', begun.total_ns - metric.total_ns + d)
      <3>1. IsSum(OwedTime, begun.total_ns - metric.total_ns)
        BY DEF HealthInv, NothingIsMissing
      <3>2. \A u \in Writer : OwedTime[u] \in Int
        BY <1>1 DEF OwedTime
      <3>3. OwedTime'[t] = OwedTime[t] + d
        BY <1>1, <1>4 DEF OwedTime, Word
      <3>4. \A u \in Writer : u # t => OwedTime'[u] = OwedTime[u]
        BY <1>1, <1>4 DEF OwedTime
      <3>5. begun.total_ns - metric.total_ns \in Int /\ d \in Int
        BY <1>1, <1>5
      <3> HIDE DEF OwedTime
      <3> QED BY <3>1, <3>2, <3>3, <3>4, <3>5, SumAfter
    <2>2. IsSum(OwedCount', begun.count - metric.count + 1)
      <3>1. IsSum(OwedCount, begun.count - metric.count)
        BY DEF HealthInv, NothingIsMissing
      <3>2. \A u \in Writer : OwedCount[u] \in Int
        BY <1>1 DEF OwedCount
      <3>3. OwedCount'[t] = OwedCount[t] + 1
        BY <1>1, <1>4 DEF OwedCount, Word
      <3>4. \A u \in Writer : u # t => OwedCount'[u] = OwedCount[u]
        BY <1>1, <1>4 DEF OwedCount
      <3>5. begun.count - metric.count \in Int
        BY <1>1, <1>5
      <3> QED BY <3>1, <3>2, <3>3, <3>4, <3>5, SumAfter
    <2>3. /\ (begun.total_ns - metric.total_ns)' = begun.total_ns - metric.total_ns + d
          /\ (begun.count - metric.count)' = begun.count - metric.count + 1
      BY <1>1, <1>3, <1>4, <1>5
    <2>4. \/ begun'.max_ns = metric'.max_ns
          \/ \E u \in Writer : "max_ns" \in todo'[u] /\ dur'[u] = begun'.max_ns
      <3>1. CASE m = d
        BY <1>1, <1>3, <1>4, <3>1 DEF Word
      <3>2. CASE m = begun.max_ns
        <4>1. CASE begun.max_ns = metric.max_ns
          BY <1>3, <1>4, <3>2, <4>1
        <4>2. CASE \E u \in Writer : "max_ns" \in todo[u] /\ dur[u] = begun.max_ns
          <5>1. PICK u \in Writer : "max_ns" \in todo[u] /\ dur[u] = begun.max_ns
            BY <4>2
          <5>2. u # t
            BY <1>1, <5>1
          <5>3. todo'[u] = todo[u] /\ dur'[u] = dur[u]
            BY <1>1, <1>4, <5>2
          <5> QED BY <1>3, <3>2, <5>1, <5>3
        <4> QED BY <4>1, <4>2 DEF HealthInv, NothingIsMissing
      <3> QED BY <1>2, <3>1, <3>2
    <2> QED BY <2>1, <2>2, <2>3, <2>4 DEF NothingIsMissing
  <1>8. NothingIsLonger'
    <2>1. /\ metric.max_ns <= begun.max_ns /\ metric.last_ns <= begun.max_ns
          /\ \A u \in Writer : dur[u] <= begun.max_ns
          /\ begun.total_ns <= begun.count * begun.max_ns
      BY DEF HealthInv, NothingIsLonger
    <2>2. metric'.max_ns <= begun'.max_ns /\ metric'.last_ns <= begun'.max_ns
      BY <1>1, <1>2, <1>3, <1>4, <1>5, <2>1
    <2>3. ASSUME NEW u \in Writer PROVE dur'[u] <= begun'.max_ns
      <3>1. dur'[u] = IF u = t THEN d ELSE dur[u]
        BY <1>1, <1>4
      <3>2. dur[u] \in Nat /\ dur[u] <= begun.max_ns
        BY <1>1, <2>1
      <3> QED BY <1>1, <1>2, <1>3, <3>1, <3>2
    <2>4. begun'.total_ns <= begun'.count * begun'.max_ns
      <3>1. begun.total_ns <= begun.count * m
        BY <1>1, <1>2, <2>1, LongestTimes
      <3>2. (begun.count + 1) * m = begun.count * m + m
        BY <1>1, <1>2
      <3>3. begun.count * m \in Nat
        BY <1>1, <1>2
      <3> QED BY <1>1, <1>2, <1>3, <3>1, <3>2, <3>3
    <2> QED BY <2>2, <2>3, <2>4 DEF NothingIsLonger
  <1>9. LoadsAreBetween'
    <2>1. LoadsAreBetween
      BY DEF HealthInv
    <2>2. "last_ns" \in DOMAIN loaded => loaded["last_ns"] \in Nat
      BY DEF HealthInv, HealthTypeOK
    <2> QED BY <1>1, <1>2, <1>3, <1>4, <2>1, <2>2 DEF LoadsAreBetween
  <1>10. QuietLoads'
    BY <1>4 DEF QuietLoads
  <1> QED BY <1>6, <1>7, <1>8, <1>9, <1>10 DEF HealthInv

LEMMA ApplyKeeps ==
    ASSUME HealthInv, NEW t \in Writer, NEW w \in Word, Apply(t, w)
    PROVE  HealthInv'
  <1>1. /\ begun.count \in Nat /\ begun.total_ns \in Nat /\ begun.max_ns \in Nat
        /\ todo \in [Writer -> SUBSET Word] /\ dur \in [Writer -> Nat]
        /\ metric \in [Word -> Nat] /\ dur[t] \in Nat
        /\ metric.count \in Nat /\ metric.total_ns \in Nat
        /\ metric.max_ns \in Nat /\ metric.last_ns \in Nat
        /\ from.count \in Nat /\ from.max_ns \in Nat
    BY DEF HealthInv, HealthTypeOK, Word
  <1>2. /\ w \in todo[t]
        /\ metric' = [metric EXCEPT ![w] = Updated(w, dur[t])]
        /\ todo' = [todo EXCEPT ![t] = todo[t] \ {w}]
        /\ dur' = [dur EXCEPT ![t] = IF todo[t] = {w} THEN 0 ELSE dur[t]]
        /\ begun' = begun /\ loaded' = loaded /\ from' = from /\ quiet' = quiet
    BY DEF Apply
  <1>3. /\ todo'[t] = todo[t] \ {w}
        /\ dur'[t] = IF todo[t] = {w} THEN 0 ELSE dur[t]
        /\ \A u \in Writer : u # t => todo'[u] = todo[u] /\ dur'[u] = dur[u]
    BY <1>1, <1>2
  <1>4. /\ metric'.last_ns = IF w = "last_ns" THEN dur[t] ELSE metric.last_ns
        /\ metric'.max_ns =
             IF w = "max_ns" THEN Larger(metric.max_ns, dur[t]) ELSE metric.max_ns
        /\ metric'.total_ns =
             IF w = "total_ns" THEN metric.total_ns + dur[t] ELSE metric.total_ns
        /\ metric'.count =
             IF w = "count" THEN metric.count + 1 ELSE metric.count
    <2>1. CASE w = "last_ns"
      BY <1>1, <1>2, <2>1 DEF Updated, Word
    <2>2. CASE w = "max_ns"
      BY <1>1, <1>2, <2>2 DEF Updated, Word
    <2>3. CASE w = "total_ns"
      BY <1>1, <1>2, <2>3 DEF Updated, Word
    <2>4. CASE w = "count"
      BY <1>1, <1>2, <2>4 DEF Updated, Word
    <2> QED BY <2>1, <2>2, <2>3, <2>4 DEF Word
  <1>5. Larger(metric.max_ns, dur[t]) \in Nat
    BY <1>1 DEF Larger
  <1>6. HealthTypeOK'
    <2>1. todo' \in [Writer -> SUBSET Word] /\ dur' \in [Writer -> Nat]
      BY <1>1, <1>2
    <2>2. Updated(w, dur[t]) \in Nat
      <3>1. CASE w = "last_ns"
        BY <1>1, <3>1 DEF Updated
      <3>2. CASE w = "max_ns"
        BY <1>5, <3>2 DEF Updated
      <3>3. CASE w = "total_ns"
        BY <1>1, <3>3 DEF Updated
      <3>4. CASE w = "count"
        BY <1>1, <3>4 DEF Updated
      <3> QED BY <3>1, <3>2, <3>3, <3>4 DEF Word
    <2>3. metric' \in [Word -> Nat]
      BY <1>1, <1>2, <2>2
    <2> QED BY <1>2, <2>1, <2>3 DEF HealthInv, HealthTypeOK
  <1>7. NothingIsMissing'
    <2>1. IsSum(OwedTime', (begun.total_ns - metric.total_ns)')
      <3>1. IsSum(OwedTime, begun.total_ns - metric.total_ns)
        BY DEF HealthInv, NothingIsMissing
      <3>2. \A u \in Writer : OwedTime[u] \in Int
        BY <1>1 DEF OwedTime
      <3>3. \A u \in Writer : u # t => OwedTime'[u] = OwedTime[u]
        BY <1>3 DEF OwedTime
      <3>4. begun.total_ns - metric.total_ns \in Int
        BY <1>1
      <3>5. CASE w = "total_ns"
        <4>1. OwedTime'[t] = OwedTime[t] + (-dur[t])
          BY <1>1, <1>2, <1>3, <3>5 DEF OwedTime
        <4>2. IsSum(OwedTime', begun.total_ns - metric.total_ns + (-dur[t]))
          <5>1. -dur[t] \in Int
            BY <1>1
          <5> QED BY <3>1, <3>2, <3>3, <3>4, <4>1, <5>1, SumAfter
        <4>3. (begun.total_ns - metric.total_ns)'
                = begun.total_ns - metric.total_ns + (-dur[t])
          BY <1>1, <1>2, <1>4, <3>5
        <4> QED BY <4>2, <4>3
      <3>6. CASE w # "total_ns"
        <4>1. OwedTime'[t] = OwedTime[t] + 0
          BY <1>1, <1>2, <1>3, <3>6 DEF OwedTime
        <4>2. IsSum(OwedTime', begun.total_ns - metric.total_ns + 0)
          <5>1. 0 \in Int
            OBVIOUS
          <5> QED BY <3>1, <3>2, <3>3, <3>4, <4>1, <5>1, SumAfter
        <4>3. (begun.total_ns - metric.total_ns)'
                = begun.total_ns - metric.total_ns + 0
          BY <1>1, <1>2, <1>4, <3>6
        <4> QED BY <4>2, <4>3
      <3> QED BY <3>5, <3>6
    <2>2. IsSum(OwedCount', (begun.count - metric.count)')
      <3>1. IsSum(OwedCount, begun.count - metric.count)
        BY DEF HealthInv, NothingIsMissing
      <3>2. \A u \in Writer : OwedCount[u] \in Int
        BY <1>1 DEF OwedCount
      <3>3. \A u \in Writer : u # t => OwedCount'[u] = OwedCount[u]
        BY <1>3 DEF OwedCount
      <3>4. begun.count - metric.count \in Int
        BY <1>1
      <3>5. CASE w = "count"
        <4>1. OwedCount'[t] = OwedCount[t] + (-1)
          BY <1>1, <1>2, <1>3, <3>5 DEF OwedCount
        <4>2. IsSum(OwedCount', begun.count - metric.count + (-1))
          BY <3>1, <3>2, <3>3, <3>4, <4>1, SumAfter
        <4>3. (begun.count - metric.count)' = begun.count - metric.count + (-1)
          BY <1>1, <1>2, <1>4, <3>5
        <4> QED BY <4>2, <4>3
      <3>6. CASE w # "count"
        <4>1. OwedCount'[t] = OwedCount[t] + 0
          BY <1>1, <1>2, <1>3, <3>6 DEF OwedCount
        <4>2. IsSum(OwedCount', begun.count - metric.count + 0)
          <5>1. 0 \in Int
            OBVIOUS
          <5> QED BY <3>1, <3>2, <3>3, <3>4, <4>1, <5>1, SumAfter
        <4>3. (begun.count - metric.count)' = begun.count - metric.count + 0
          BY <1>1, <1>2, <1>4, <3>6
        <4> QED BY <4>2, <4>3
      <3> QED BY <3>5, <3>6
    <2>3. \/ begun'.max_ns = metric'.max_ns
          \/ \E u \in Writer : "max_ns" \in todo'[u] /\ dur'[u] = begun'.max_ns
      <3>1. metric.max_ns <= begun.max_ns /\ dur[t] <= begun.max_ns
        BY DEF HealthInv, NothingIsLonger
      <3>2. CASE begun.max_ns = metric.max_ns
        BY <1>1, <1>2, <1>4, <3>1, <3>2 DEF Larger
      <3>3. CASE \E u \in Writer : "max_ns" \in todo[u] /\ dur[u] = begun.max_ns
        <4>1. PICK u \in Writer : "max_ns" \in todo[u] /\ dur[u] = begun.max_ns
          BY <3>3
        <4>2. CASE u # t
          BY <1>2, <1>3, <4>1, <4>2
        <4>3. CASE u = t /\ w = "max_ns"
          BY <1>1, <1>2, <1>4, <3>1, <4>1, <4>3 DEF Larger
        <4>4. CASE u = t /\ w # "max_ns"
          BY <1>2, <1>3, <4>1, <4>4
        <4> QED BY <4>2, <4>3, <4>4
      <3> QED BY <3>2, <3>3 DEF HealthInv, NothingIsMissing
    <2> QED BY <2>1, <2>2, <2>3 DEF NothingIsMissing
  <1>8. NothingIsLonger'
    <2>1. /\ metric.max_ns <= begun.max_ns /\ metric.last_ns <= begun.max_ns
          /\ \A u \in Writer : dur[u] <= begun.max_ns
          /\ begun.total_ns <= begun.count * begun.max_ns
      BY DEF HealthInv, NothingIsLonger
    <2>2. metric'.max_ns <= begun'.max_ns /\ metric'.last_ns <= begun'.max_ns
      BY <1>1, <1>2, <1>4, <2>1 DEF Larger
    <2>3. ASSUME NEW u \in Writer PROVE dur'[u] <= begun'.max_ns
      BY <1>1, <1>2, <1>3, <2>1
    <2> QED BY <1>2, <2>1, <2>2, <2>3 DEF NothingIsLonger
  <1>9. LoadsAreBetween'
    <2>1. metric.count <= metric'.count /\ metric.max_ns <= metric'.max_ns
      BY <1>1, <1>4 DEF Larger
    <2>2. metric'.count \in Nat /\ metric'.max_ns \in Nat
      BY <1>1, <1>4, <1>5
    <2>3. /\ "count_again" \in DOMAIN loaded => loaded["count_again"] \in Nat
          /\ "max_ns" \in DOMAIN loaded => loaded["max_ns"] \in Nat
      BY DEF HealthInv, HealthTypeOK
    <2>4. LoadsAreBetween
      BY DEF HealthInv
    <2> QED BY <1>1, <1>2, <2>1, <2>2, <2>3, <2>4 DEF LoadsAreBetween
  <1>10. QuietLoads'
    <2>1. ~quiet
      BY <1>2 DEF HealthInv, QuietLoads
    <2> QED BY <1>2, <2>1 DEF QuietLoads
  <1> QED BY <1>6, <1>7, <1>8, <1>9, <1>10 DEF HealthInv

LEMMA BeginSnapshotKeeps == HealthInv /\ BeginSnapshot => HealthInv'
  <1> SUFFICES ASSUME HealthInv, BeginSnapshot PROVE HealthInv'
    OBVIOUS
  <1>1. /\ loaded' = [l \in {} |-> 0] /\ quiet' = ~Recording
        /\ from' = [count |-> metric.count, max_ns |-> metric.max_ns]
        /\ metric' = metric /\ todo' = todo /\ dur' = dur /\ begun' = begun
    BY DEF BeginSnapshot
  <1>2. /\ metric.count \in Nat /\ metric.max_ns \in Nat
        /\ DOMAIN loaded' = {} /\ quiet' \in BOOLEAN
    BY <1>1 DEF HealthInv, HealthTypeOK, Word, Recording
  <1>3. HealthTypeOK'
    BY <1>1, <1>2 DEF HealthInv, HealthTypeOK
  <1>4. NothingIsMissing'
    <2>1. OwedTime' = OwedTime /\ OwedCount' = OwedCount
      BY <1>1 DEF OwedTime, OwedCount
    <2> QED BY <1>1, <2>1 DEF HealthInv, NothingIsMissing
  <1>5. NothingIsLonger'
    BY <1>1 DEF HealthInv, NothingIsLonger
  <1>6. LoadsAreBetween'
    BY <1>1, <1>2 DEF LoadsAreBetween
  <1>7. QuietLoads'
    BY <1>1, <1>2 DEF QuietLoads, Recording
  <1> QED BY <1>3, <1>4, <1>5, <1>6, <1>7 DEF HealthInv

LEMMA LoadWordKeeps ==
    ASSUME HealthInv, NEW l \in Load, LoadWord(l)
    PROVE  HealthInv'
  <1>1. /\ l \notin DOMAIN loaded
        /\ loaded' = [k \in DOMAIN loaded \cup {l} |->
                         IF k = l THEN metric[WordOf(l)] ELSE loaded[k]]
        /\ metric' = metric /\ todo' = todo /\ dur' = dur /\ begun' = begun
        /\ from' = from /\ quiet' = quiet
    BY DEF LoadWord
  <1>2. WordOf(l) \in Word /\ metric[WordOf(l)] \in Nat
    BY DEF HealthInv, HealthTypeOK, WordOf, Word, Load
  <1>3. /\ DOMAIN loaded' = DOMAIN loaded \cup {l}
        /\ loaded'[l] = metric[WordOf(l)]
        /\ \A k \in DOMAIN loaded : loaded'[k] = loaded[k]
    BY <1>1
  <1>4. HealthTypeOK'
    <2>1. DOMAIN loaded' \subseteq Load
      BY <1>3 DEF HealthInv, HealthTypeOK
    <2>2. \A k \in DOMAIN loaded' : loaded'[k] \in Nat
      BY <1>2, <1>3 DEF HealthInv, HealthTypeOK
    <2> QED BY <1>1, <2>1, <2>2 DEF HealthInv, HealthTypeOK
  <1>5. NothingIsMissing'
    <2>1. OwedTime' = OwedTime /\ OwedCount' = OwedCount
      BY <1>1 DEF OwedTime, OwedCount
    <2> QED BY <1>1, <2>1 DEF HealthInv, NothingIsMissing
  <1>6. NothingIsLonger'
    BY <1>1 DEF HealthInv, NothingIsLonger
  <1>7. LoadsAreBetween'
    <2>1. /\ from.count <= metric.count /\ from.max_ns <= metric.max_ns
          /\ metric.last_ns <= begun.max_ns
          /\ metric.count \in Nat /\ metric.max_ns \in Nat
      BY DEF HealthInv, LoadsAreBetween, NothingIsLonger, HealthTypeOK, Word
    <2>2. "count_again" \in DOMAIN loaded'
            => /\ from.count <= loaded'["count_again"]
               /\ loaded'["count_again"] <= metric.count
      BY <1>3, <2>1 DEF HealthInv, LoadsAreBetween, WordOf
    <2>3. "max_ns" \in DOMAIN loaded'
            => from.max_ns <= loaded'["max_ns"] /\ loaded'["max_ns"] <= metric.max_ns
      BY <1>3, <2>1 DEF HealthInv, LoadsAreBetween, WordOf
    <2>4. "last_ns" \in DOMAIN loaded' => loaded'["last_ns"] <= begun.max_ns
      BY <1>3, <2>1 DEF HealthInv, LoadsAreBetween, WordOf
    <2> QED BY <1>1, <2>1, <2>2, <2>3, <2>4 DEF LoadsAreBetween
  <1>8. QuietLoads'
    BY <1>1, <1>3 DEF HealthInv, QuietLoads
  <1> QED BY <1>4, <1>5, <1>6, <1>7, <1>8 DEF HealthInv

LEMMA HealthStep == HealthInv /\ [HealthNext]_health_vars => HealthInv'
  <1> SUFFICES ASSUME HealthInv, [HealthNext]_health_vars PROVE HealthInv'
    OBVIOUS
  <1>1. CASE \E t \in Writer : \E d \in Duration : Record(t, d)
    BY <1>1, RecordKeeps
  <1>2. CASE \E t \in Writer : \E w \in Word : Apply(t, w)
    BY <1>2, ApplyKeeps
  <1>3. CASE BeginSnapshot
    BY <1>3, BeginSnapshotKeeps
  <1>4. CASE \E l \in Load : LoadWord(l)
    BY <1>4, LoadWordKeeps
  <1>5. CASE UNCHANGED health_vars
    <2>1. /\ metric' = metric /\ todo' = todo /\ dur' = dur /\ begun' = begun
          /\ loaded' = loaded /\ from' = from /\ quiet' = quiet
      BY <1>5 DEF health_vars
    <2>2. OwedTime' = OwedTime /\ OwedCount' = OwedCount
      BY <2>1 DEF OwedTime, OwedCount
    <2>3. HealthTypeOK' /\ NothingIsMissing'
      BY <2>1, <2>2 DEF HealthInv, HealthTypeOK, NothingIsMissing
    <2>4. NothingIsLonger' /\ LoadsAreBetween' /\ QuietLoads'
      BY <2>1 DEF HealthInv, NothingIsLonger, LoadsAreBetween, QuietLoads
    <2> QED BY <2>3, <2>4 DEF HealthInv
  <1> QED BY <1>1, <1>2, <1>3, <1>4, <1>5 DEF HealthNext

LEMMA NoneIsLost == HealthInv => NoSampleLost
  <1> SUFFICES ASSUME HealthInv, ~Recording
               PROVE  /\ metric.count = begun.count
                      /\ metric.total_ns = begun.total_ns
                      /\ metric.max_ns = begun.max_ns
    BY DEF NoSampleLost
  <1>1. \A t \in Writer : todo[t] = {}
    BY DEF Recording
  <1>2. /\ \A t \in Writer : OwedTime[t] = 0
        /\ \A t \in Writer : OwedCount[t] = 0
    BY <1>1 DEF OwedTime, OwedCount
  <1>3. begun.total_ns - metric.total_ns = 0 /\ begun.count - metric.count = 0
    BY <1>2, NothingLeft DEF HealthInv, NothingIsMissing
  <1>4. metric.max_ns = begun.max_ns
    BY <1>1 DEF HealthInv, NothingIsMissing
  <1>5. /\ metric.count \in Nat /\ metric.total_ns \in Nat
        /\ begun.count \in Nat /\ begun.total_ns \in Nat
    BY DEF HealthInv, HealthTypeOK, Word
  <1> QED BY <1>3, <1>4, <1>5

LEMMA AverageBound ==
    ASSUME NEW a \in Nat, NEW c \in Nat, NEW m \in Nat, c # 0, a <= c * m
    PROVE  a \div c <= m
  <1>1. /\ a \div c \in Int
        /\ c * (a \div c) <= a
    OBVIOUS
  <1>2. SUFFICES ASSUME m + 1 <= a \div c PROVE FALSE
    BY <1>1
  <1> DEFINE q == a \div c
  <1> HIDE DEF q
  <1>3. q \in Int /\ c * q <= a /\ m + 1 <= q
    BY <1>1, <1>2 DEF q
  <1>4. c * q = c * (m + 1) + c * (q - (m + 1))
    BY <1>3
  <1>5. c * (q - (m + 1)) >= 0
    BY <1>3
  <1>6. c * (m + 1) = c * m + c
    OBVIOUS
  <1>7. c * m \in Nat /\ c * q \in Int
    BY <1>3
  <1> QED BY <1>3, <1>4, <1>5, <1>6, <1>7

LEMMA SnapshotsArePlausible == HealthInv => SnapshotIsPlausible
  <1> SUFFICES ASSUME HealthInv, DOMAIN loaded = Load
               PROVE  /\ from.count <= loaded.count_again
                      /\ loaded.count_again <= metric.count
                      /\ from.max_ns <= loaded.max_ns
                      /\ loaded.max_ns <= metric.max_ns
                      /\ loaded.last_ns <= begun.max_ns
                      /\ quiet => /\ loaded.count_again = begun.count
                                  /\ Avg <= loaded.max_ns
                                  /\ loaded.last_ns <= loaded.max_ns
    BY DEF SnapshotIsPlausible
  <1>1. /\ from.count <= loaded.count_again
        /\ loaded.count_again <= metric.count
        /\ from.max_ns <= loaded.max_ns
        /\ loaded.max_ns <= metric.max_ns
        /\ loaded.last_ns <= begun.max_ns
    BY DEF HealthInv, LoadsAreBetween, Load, Word
  <1>2. SUFFICES ASSUME quiet
                 PROVE  /\ loaded.count_again = begun.count
                        /\ Avg <= loaded.max_ns
                        /\ loaded.last_ns <= loaded.max_ns
    BY <1>1
  <1>3. ~Recording
    BY <1>2 DEF HealthInv, QuietLoads, Recording
  <1>4. /\ loaded.count_again = metric.count /\ loaded.count = metric.count
        /\ loaded.total_ns = metric.total_ns /\ loaded.max_ns = metric.max_ns
        /\ loaded.last_ns = metric.last_ns
    <2>1. \A l \in Load : loaded[l] = metric[WordOf(l)]
      BY <1>2 DEF HealthInv, QuietLoads
    <2> QED BY <2>1 DEF Load, Word, WordOf
  <1>5. /\ metric.count = begun.count /\ metric.total_ns = begun.total_ns
        /\ metric.max_ns = begun.max_ns
    BY <1>3, NoneIsLost DEF NoSampleLost
  <1>6. /\ begun.count \in Nat /\ begun.total_ns \in Nat /\ begun.max_ns \in Nat
        /\ begun.total_ns <= begun.count * begun.max_ns
        /\ metric.last_ns <= begun.max_ns
    BY DEF HealthInv, HealthTypeOK, NothingIsLonger
  <1>7. Avg <= loaded.max_ns
    <2>1. CASE begun.count = 0
      BY <1>4, <1>5, <1>6, <2>1 DEF Avg
    <2>2. CASE begun.count # 0
      <3>1. begun.total_ns \div begun.count <= begun.max_ns
        BY <1>6, <2>2, AverageBound
      <3> QED BY <1>4, <1>5, <2>2, <3>1 DEF Avg
    <2> QED BY <2>1, <2>2
  <1> QED BY <1>4, <1>5, <1>6, <1>7

LEMMA HealthAlways == HealthSpec => []HealthInv
  <1> QED BY HealthInitHolds, HealthStep, PTL DEF HealthSpec

-----------------------------------------------------------------------------
(***************************************************************************)
(* Once no writer is inside record(), the count, the total and the maximum *)
(* are those of all the records begun, whatever number of threads recorded *)
(* and however their operations on the words interleaved                   *)
(* (atomic_health.rs:46-51).                                               *)
(***************************************************************************)
THEOREM SamplesAreKept == HealthSpec => []NoSampleLost
  <1> QED BY HealthAlways, NoneIsLost, PTL

(***************************************************************************)
(* A snapshot's count and maximum are values the probe had while it was    *)
(* taken, its last sample is no longer than the longest begun, and one no  *)
(* record overlapped has an average below its maximum                      *)
(* (atomic_health.rs:54-64).                                               *)
(***************************************************************************)
THEOREM SnapshotsStayPlausible == HealthSpec => []SnapshotIsPlausible
  <1> QED BY HealthAlways, SnapshotsArePlausible, PTL

-----------------------------------------------------------------------------
(* Boot: every phase adds one thing to what is known, and the file and the *)
(* environment do not change until the last.                               *)

ControlOf(c) ==
    IF c = Nothing
    THEN [id |-> "MockRobot", joints |-> 6, limits |-> 0, hz |-> 100]
    ELSE [id |-> c.name, joints |-> c.dof, limits |-> c.joints, hz |-> c.hz]

BootInv ==
    /\ phase \in {"load", "resolve", "ready", "started", "exited"}
    /\ phase \in {"load", "resolve", "ready"}
         => file \in Files \cup {Nothing} /\ env \in Environments
    /\ phase \in {"resolve", "ready"} => control = ControlOf(file)
    /\ phase = "ready" => fieldbus = ResolveFieldbus(file, env)

LEMMA BootStep == BootInv /\ [BootNext]_boot_vars => BootInv'
  <1> SUFFICES ASSUME BootInv, [BootNext]_boot_vars PROVE BootInv'
    OBVIOUS
  <1>1. CASE LoadFails
    BY <1>1 DEF LoadFails, BootInv
  <1>2. CASE LoadFile
    BY <1>2 DEF LoadFile, BootInv, ControlOf
  <1>3. CASE MockMode
    BY <1>3 DEF MockMode, BootInv, ControlOf
  <1>4. CASE Resolve
    BY <1>4 DEF Resolve, BootInv
  <1>5. CASE ResolveFails
    BY <1>5 DEF ResolveFails, BootInv
  <1>6. CASE UNCHANGED boot_vars
    BY <1>6 DEF boot_vars, BootInv
  <1> QED BY <1>1, <1>2, <1>3, <1>4, <1>5, <1>6 DEF BootNext

LEMMA HalIsControlled == BootInv => HalMatchesControl
  <1> SUFFICES ASSUME BootInv, phase = "ready", fieldbus # Nothing, file # Nothing
               PROVE  /\ fieldbus.id = control.id
                      /\ fieldbus.joints = control.joints
                      /\ fieldbus.limits = control.limits
                      /\ fieldbus.hz = control.hz
                      /\ fieldbus.rates = fieldbus.limits
                      /\ fieldbus.brand = ResolvedBrand(file)
    BY DEF HalMatchesControl
  <1>1. control = ControlOf(file) /\ fieldbus = ResolveFieldbus(file, env)
    BY DEF BootInv
  <1>2. \/ FileServes(file) /\ fieldbus = FromFile(file)
        \/ fieldbus = FromEnvironment("SERIAL", file, env)
        \/ fieldbus = FromEnvironment("UDP", file, env)
    BY <1>1 DEF ResolveFieldbus
  <1>3. CASE FileServes(file) /\ fieldbus = FromFile(file)
    BY <1>1, <1>3 DEF FileServes, FromFile, ControlOf
  <1>4. ASSUME NEW transport, fieldbus = FromEnvironment(transport, file, env)
        PROVE  /\ fieldbus.id = control.id /\ fieldbus.joints = control.joints
               /\ fieldbus.limits = control.limits /\ fieldbus.hz = control.hz
               /\ fieldbus.rates = fieldbus.limits
               /\ fieldbus.brand = ResolvedBrand(file)
    BY <1>1, <1>4 DEF FromEnvironment, ControlOf
  <1> QED BY <1>2, <1>3, <1>4

\* Without a file the names are the same only if the environment says so.
LEMMA NamedAlike ==
    ASSUME BootInv, phase = "ready", fieldbus # Nothing,
           file # Nothing \/ env.name = "MockRobot"
    PROVE  fieldbus.id = control.id
  <1>1. CASE file # Nothing
    BY <1>1, HalIsControlled DEF HalMatchesControl
  <1>2. CASE file = Nothing
    <2>1. control.id = "MockRobot" /\ fieldbus = ResolveFieldbus(file, env)
      BY <1>2 DEF BootInv, ControlOf
    <2>2. \E transport : fieldbus = FromEnvironment(transport, file, env)
      BY <1>2, <2>1 DEF ResolveFieldbus, FileServes
    <2>3. fieldbus.id = NameOr("Robot", env)
      BY <1>2, <2>2 DEF FromEnvironment
    <2> QED BY <1>2, <2>1, <2>3, BootAssumption DEF NameOr
  <1> QED BY <1>1, <1>2

\* What the HAL is given counts joints and limits.
LEMMA FieldbusCounts ==
    ASSUME BootInv, phase = "ready", fieldbus # Nothing
    PROVE  fieldbus.joints \in Nat /\ fieldbus.limits \in Nat
  <1>1. /\ file \in Files \cup {Nothing} /\ env \in Environments
        /\ fieldbus = ResolveFieldbus(file, env)
    BY DEF BootInv
  <1>2. file # Nothing => file.dof \in Nat /\ file.joints \in Nat
    BY <1>1, BootAssumption DEF IsFile
  <1>3. DofOr(6, env) \in Nat
    BY <1>1, BootAssumption DEF IsEnvironment, DofOr
  <1>4. CASE FileServes(file) /\ fieldbus = FromFile(file)
    BY <1>2, <1>4 DEF FileServes, FromFile
  <1>5. ASSUME NEW transport, fieldbus = FromEnvironment(transport, file, env)
        PROVE  fieldbus.joints \in Nat /\ fieldbus.limits \in Nat
    <2>1. CASE file = Nothing
      BY <1>3, <1>5, <2>1 DEF FromEnvironment
    <2>2. CASE file # Nothing
      BY <1>2, <1>5, <2>2 DEF FromEnvironment
    <2> QED BY <2>1, <2>2
  <1> QED BY <1>1, <1>4, <1>5 DEF ResolveFieldbus

-----------------------------------------------------------------------------
(* The program.  Until boot ends the parts it configures are as they       *)
(* start, whatever profile they are given then.                            *)

Unstarted == part = "boot" => PipelineInit /\ FramingInit

SonnyInv ==
    /\ part \in {"boot", "commands", "telemetry", "registers", "simulation", "health"}
    /\ Unstarted /\ BootInv
    /\ PipelineInv /\ FramingInv
    /\ TypeInv /\ WaitInv /\ PollInv
    /\ ScreenInv /\ ThreadInv /\ RestInv
    /\ HealthInv

LEMMA SonnyInitHolds == Init => SonnyInv
  <1> SUFFICES ASSUME Init PROVE SonnyInv
    OBVIOUS
  <1>1. PipelineInit /\ FramingInit /\ XgoInit /\ SimInit /\ HealthInit /\ BootInit
    BY DEF Init
  <1>2. BootInv
    BY <1>1 DEF BootInit, BootInv
  <1>3. part = "boot"
    BY DEF Init
  <1> QED BY <1>1, <1>2, <1>3, PipelineInvInit, FramingInitHolds, XgoInitHolds, ScreenInit,
             ThreadInit, RestInit, HealthInitHolds DEF SonnyInv, Unstarted

\* Only what starts a part touches it from outside.
LEMMA OnePartAtATime ==
    ASSUME [Next]_vars
    PROVE  /\ StartCommands \/ [PipelineNext]_pipeline_vars
           /\ StartTelemetry \/ [FramingNext]_framing_vars
           /\ [XgoNext]_xgo_vars
           /\ [SimNext]_sim_vars
           /\ [HealthNext]_health_vars
           /\ BootEnds \/ [BootNext]_boot_vars
           /\ part' = "boot" => UNCHANGED <<part, pipeline_vars, framing_vars>>
  <1>1. CASE Booting
    BY <1>1 DEF Booting
  <1>2. CASE StartCommands
    BY <1>2 DEF StartCommands
  <1>3. CASE StartTelemetry
    BY <1>3 DEF StartTelemetry
  <1>4. CASE StartSimulation
    BY <1>4 DEF StartSimulation
  <1>5. CASE StartHealth
    BY <1>5 DEF StartHealth
  <1>6. CASE Commands
    BY <1>6 DEF Commands
  <1>7. CASE Telemetry
    BY <1>7 DEF Telemetry
  <1>8. CASE Simulation
    BY <1>8 DEF Simulation
  <1>9. CASE Health
    BY <1>9 DEF Health
  <1>10. CASE StartRegisters
    BY <1>10 DEF StartRegisters
  <1>11. CASE Registers
    BY <1>11 DEF Registers
  <1>12. CASE UNCHANGED vars
    BY <1>12 DEF vars
  <1> QED BY <1>1, <1>2, <1>3, <1>4, <1>5, <1>6, <1>7, <1>8, <1>9, <1>10, <1>11, <1>12
          DEF Next

\* The pipeline starts right with any of the profile's joints and any brand.
LEMMA StartCommandsKeeps ==
    ASSUME SonnyInv, StartCommands
    PROVE  PipelineInv'
  <1>1. PipelineInit
    BY DEF SonnyInv, Unstarted, StartCommands, BootEnds
  <1>2. /\ declared' \in BOOLEAN /\ stop' \in {"zeros", "action"} /\ padding' \in BOOLEAN
    <2>1. declared' \in BOOLEAN
      <3>1. fieldbus.joints \in Nat /\ fieldbus.limits \in Nat
        BY FieldbusCounts DEF SonnyInv, StartCommands, BootEnds
      <3>2. PICK j \in 1..fieldbus.joints : declared' = (j <= fieldbus.limits)
        BY DEF StartCommands
      <3> QED BY <3>1, <3>2
    <2>2. stop' \in {"zeros", "action"}
      BY DEF StartCommands, StopOf
    <2>3. padding' \in BOOLEAN
      BY Zenon DEF StartCommands, Pads
    <2> QED BY <2>1, <2>2, <2>3
  <1>3. UNCHANGED <<rt_valid, rt_safe, bus, hal_safe, lim, latched, frame, robot, followed>>
    BY DEF StartCommands, pipeline_rt, pipeline_hal
  <1>4. PipelineTypeOK'
    BY <1>2, <1>3 DEF SonnyInv, PipelineInv, PipelineTypeOK
  <1>5. RatesKept'
    BY <1>1, <1>3, Rates DEF PipelineInit, RatesKept
  <1>6. FollowedAgrees' /\ FramedInLimits'
    BY <1>1, <1>3 DEF PipelineInit, FollowedAgrees, FramedInLimits
  <1> QED BY <1>4, <1>5, <1>6 DEF PipelineInv

\* Any framing and any transport of it may start with nothing received.
LEMMA StartTelemetryKeeps ==
    ASSUME SonnyInv, StartTelemetry
    PROVE  FramingInv'
  <1>1. FramingInit
    BY DEF SonnyInv, Unstarted, StartTelemetry, BootEnds
  <1>2. framing' \in Framing /\ carrier' \in TransportsOf[framing']
    BY DEF StartTelemetry
  <1>3. UNCHANGED <<wire, acc, draining, reading, due, torn, sent, losses>>
    BY DEF StartTelemetry
  <1>4. FramingTypeOK'
    BY <1>2, <1>3 DEF SonnyInv, FramingInv, FramingTypeOK
  <1>5. /\ acc' = <<>> /\ wire' = <<>> /\ reading' = <<>> /\ due' = {} /\ torn' = FALSE
    BY <1>1, <1>3 DEF FramingInit, NoReading
  <1>6. acc' \o wire' = <<>> /\ Len(<<>>) = 0
    BY <1>5
  <1>7. Stream(<<>>, framing') /\ Held(<<>>) = {}
    BY <1>6 DEF Stream, Units, Ends, Follows, Grows, Held
  <1>8. Below(<<>>, sent')
    BY <1>6 DEF Below
  <1> QED BY <1>4, <1>5, <1>6, <1>7, <1>8, StreamAfter
          DEF FramingInv, NoReading, NoForgedReading, RestOrRefused

LEMMA BootEnding ==
    ASSUME BootInv, BootEnds
    PROVE  BootInv'
  BY DEF BootInv, BootEnds

LEMMA SonnyStep == SonnyInv /\ [Next]_vars => SonnyInv'
  <1> SUFFICES ASSUME SonnyInv, [Next]_vars PROVE SonnyInv'
    OBVIOUS
  <1>1. part' \in {"boot", "commands", "telemetry", "registers", "simulation", "health"}
    BY DEF SonnyInv, Next, vars, Booting, StartCommands, StartTelemetry, StartRegisters,
           StartSimulation, StartHealth, Commands, Telemetry, Registers, Simulation, Health
  <1>2. Unstarted'
    <2> SUFFICES ASSUME part' = "boot" PROVE PipelineInit' /\ FramingInit'
      BY DEF Unstarted
    <2>1. UNCHANGED <<part, pipeline_vars, framing_vars>> /\ PipelineInit /\ FramingInit
      BY OnePartAtATime DEF SonnyInv, Unstarted
    <2> QED BY <2>1 DEF pipeline_vars, pipeline_profile, pipeline_rt, pipeline_hal,
                        framing_vars, PipelineInit, FramingInit
  <1>3. BootInv'
    BY OnePartAtATime, BootStep, BootEnding DEF SonnyInv
  <1>4. PipelineInv'
    BY OnePartAtATime, PipelineInvStep, StartCommandsKeeps DEF SonnyInv
  <1>5. FramingInv'
    BY OnePartAtATime, FramingStep, StartTelemetryKeeps DEF SonnyInv
  <1>6. ScreenInv' /\ ThreadInv' /\ RestInv'
    <2>1. SimTypeOK
      BY DEF SonnyInv, ScreenInv
    <2> QED BY <2>1, OnePartAtATime, ScreenStep, ThreadStep, RestStep DEF SonnyInv
  <1>7. HealthInv'
    BY OnePartAtATime, HealthStep DEF SonnyInv
  <1>8. TypeInv' /\ WaitInv' /\ PollInv'
    BY OnePartAtATime, XgoTypeStep, WaitStep, PollStep DEF SonnyInv
  <1> QED BY <1>1, <1>2, <1>3, <1>4, <1>5, <1>6, <1>7, <1>8 DEF SonnyInv

LEMMA SonnyAlways == Spec => []SonnyInv
  <1> QED BY SonnyInitHolds, SonnyStep, PTL DEF Spec

-----------------------------------------------------------------------------
(***************************************************************************)
(* Through boot and whichever part starts, every variable of the program   *)
(* keeps its type, for every profile and environment (main.rs:206-363).    *)
(***************************************************************************)
THEOREM SonnyTypeCorrect == Spec => []TypeOK
  <1>1. SonnyInv => TypeOK
    BY XgoTyped DEF SonnyInv, TypeOK, PipelineInv, FramingInv, ScreenInv, HealthInv
  <1> QED BY <1>1, SonnyAlways, PTL

(***************************************************************************)
(* Whatever files and environments there are, with a file the HAL is given *)
(* the robot, rate and limits the control loop is given                    *)
(* (main.rs:258-363, hal_loader.rs:130-192).                               *)
(***************************************************************************)
THEOREM OneRobotIsResolved == Spec => []HalMatchesControl
  <1>1. SonnyInv => HalMatchesControl
    BY HalIsControlled DEF SonnyInv
  <1> QED BY <1>1, SonnyAlways, PTL

(***************************************************************************)
(* HalHearsControl fails in no other way than without a file: then the two *)
(* sides meet only if ROBOT_NAME happens to be the loop's own name         *)
(* (main.rs:60-64, :301-304, :337-340).                                    *)
(***************************************************************************)
THEOREM HeardWhenNamed ==
    Spec => [](file # Nothing \/ env.name = "MockRobot" => HalHearsControl)
  <1>1. SonnyInv => (file # Nothing \/ env.name = "MockRobot" => HalHearsControl)
    BY NamedAlike DEF SonnyInv, HalHearsControl
  <1> QED BY <1>1, SonnyAlways, PTL

(***************************************************************************)
(* What each part promises alone it keeps in the program, started by boot  *)
(* with any resolved profile: limits of commands, readings made of one     *)
(* message, registers polled in turn, a worker that never blocks, a screen *)
(* and a probe that count right.                                           *)
(***************************************************************************)
THEOREM EveryPartIsSafe ==
    Spec => []( /\ CommandsInLimits
                /\ NoForgedReading /\ UsableMessagesKept
                /\ PollCadence /\ WaitsForPartialFrame
                /\ WorkerNeverBlocks /\ ScreenCountsFrames /\ ScreenTellsLatch
                /\ NoSampleLost /\ SnapshotIsPlausible )
  <1> SUFFICES SonnyInv => /\ CommandsInLimits
                           /\ NoForgedReading /\ UsableMessagesKept
                           /\ PollCadence /\ WaitsForPartialFrame
                           /\ WorkerNeverBlocks /\ ScreenCountsFrames
                           /\ ScreenTellsLatch
                           /\ NoSampleLost /\ SnapshotIsPlausible
    BY SonnyAlways, PTL
  <1> SUFFICES ASSUME SonnyInv
               PROVE  /\ CommandsInLimits
                      /\ NoForgedReading /\ UsableMessagesKept
                      /\ PollCadence /\ WaitsForPartialFrame
                      /\ WorkerNeverBlocks /\ ScreenCountsFrames
                      /\ ScreenTellsLatch
                      /\ NoSampleLost /\ SnapshotIsPlausible
    OBVIOUS
  <1>1. CommandsInLimits
    BY CommandFramed DEF SonnyInv
  <1>2. NoForgedReading /\ UsableMessagesKept
    BY StreamKeepsUsable DEF SonnyInv, FramingInv
  <1>3. WorkerNeverBlocks
    BY RoomForMock DEF SonnyInv
  <1>4. ScreenCountsFrames /\ ScreenTellsLatch
    BY DEF SonnyInv, ScreenInv
  <1>5. NoSampleLost /\ SnapshotIsPlausible
    BY NoneIsLost, SnapshotsArePlausible DEF SonnyInv
  <1>6. PollCadence /\ WaitsForPartialFrame
    BY PolledInTurn, WaitsForOne DEF SonnyInv
  <1> QED BY <1>1, <1>2, <1>3, <1>4, <1>5, <1>6

(***************************************************************************)
(* Speed, shock and rest in the program, and answers that stay whole: the  *)
(* step in which boot gives the pipeline its profile asks nothing of the   *)
(* robot (jerk_limiter.rs:52-58, :119-127; virtual_hardware_mock.rs:70-79; *)
(* adapters/xgo_uart.rs:196-232).                                          *)
(***************************************************************************)
THEOREM EveryPartMovesSafely ==
    Spec => SmoothWhileFollowed /\ JerkBounded /\ ReleasedMockRests /\ IntactFramesKept
  <1>1. SonnyInv /\ [Next]_vars
          => [declared /\ followed /\ followed'
                => Abs(robot' - robot) <= VMax]_pipeline_vars
    <2> SUFFICES ASSUME SonnyInv, [Next]_vars, declared, followed, followed'
                 PROVE  Abs(robot' - robot) <= VMax
      OBVIOUS
    <2>1. ~StartCommands
      BY DEF SonnyInv, Unstarted, StartCommands, BootEnds, PipelineInit
    <2> QED BY <2>1, OnePartAtATime, SmoothStep DEF SonnyInv
  <1>2. SonnyInv /\ [Next]_vars
          => [declared /\ lim' # lim /\ frame'.val > Lo /\ frame'.val < Hi
                => /\ frame'.val - lim.pos = lim'.vel
                   /\ Abs(lim'.vel) <= VMax
                   /\ Abs(lim'.vel - lim.vel) <= AMax
                   /\ Abs(lim'.acc - lim.acc) <= JMax]_pipeline_vars
    <2> SUFFICES ASSUME SonnyInv, [Next]_vars, declared, lim' # lim,
                        frame'.val > Lo, frame'.val < Hi
                 PROVE  /\ frame'.val - lim.pos = lim'.vel
                        /\ Abs(lim'.vel) <= VMax
                        /\ Abs(lim'.vel - lim.vel) <= AMax
                        /\ Abs(lim'.acc - lim.acc) <= JMax
      OBVIOUS
    <2>1. ~StartCommands
      BY DEF StartCommands, pipeline_hal
    <2> QED BY <2>1, OnePartAtATime, JerkStep DEF SonnyInv
  <1>3. SonnyInv /\ [Next]_vars
          => [published' # published /\ (estop \/ (idle /\ commanded))
                => published' = 0]_sim_vars
    <2> SUFFICES ASSUME SonnyInv, [Next]_vars, published' # published,
                        estop \/ (idle /\ commanded)
                 PROVE  published' = 0
      OBVIOUS
    <2> QED BY OnePartAtATime, RestPublishes DEF SonnyInv
  <1>4. SonnyInv /\ [Next]_vars
          => [loop = "drain" /\ ~Complete(accum) => IntactStay]_xgo_vars
    BY OnePartAtATime, IntactStep DEF SonnyInv, TypeInv
  <1> QED BY <1>1, <1>2, <1>3, <1>4, SonnyAlways, PTL
          DEF Spec, SmoothWhileFollowed, JerkBounded, ReleasedMockRests, IntactFramesKept,
              IntactStay
================================================================================
