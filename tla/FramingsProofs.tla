---------------------------- MODULE FramingsProofs ----------------------------
(***************************************************************************)
(* The decoders put no reading together from two messages, wait for the    *)
(* rest of a message and for nothing else, and keep the order, for every   *)
(* size of a message, every cut into reads and any number of losses.       *)
(***************************************************************************)
EXTENDS Framings, Integers, SequenceTheorems, WellFoundedInduction, TLAPS

-----------------------------------------------------------------------------
(* Induction: a nonempty set of numbers has a least one, so a claim about  *)
(* all numbers fails first somewhere.                                      *)

LEMMA FramingLeast ==
    ASSUME NEW T, T \subseteq Nat, T # {}
    PROVE  \E x \in T : \A y \in T : x <= y
  <1> DEFINE R == OpToRel(<, Nat)
  <1>1. IsWellFoundedOn(R, Nat)
    BY NatLessThanWellFounded
  <1>2. \A x, y \in Nat : y < x => <<y, x>> \in R
    BY Zenon DEF OpToRel
  <1> HIDE DEF R
  <1>3. PICK x \in T : \A y \in T : ~(<<y, x>> \in R)
    BY <1>1, WFMin
  <1>4. \A y \in T : ~(y < x)
    BY <1>2, <1>3, Zenon
  <1>5. \A y \in T : x <= y
    BY <1>3, <1>4
  <1> QED BY <1>3, <1>5

-----------------------------------------------------------------------------
(* A stream of whole messages in the order they were sent, told unit by    *)
(* unit: what follows a unit is the next one of its message or the first   *)
(* of a later one.                                                         *)

Units(s, f) ==
    \A i \in 1..Len(s) :
        s[i].kind \in Kinds[f] /\ 1 <= s[i].at /\ s[i].at <= Size[s[i].kind]

Ends(s) == Len(s) > 0 => s[1].at = 1 /\ IsLast(s[Len(s)])

Follows(s) ==
    \A i \in 1..Len(s) : i < Len(s) =>
        IF IsLast(s[i])
        THEN s[i + 1].at = 1 /\ s[i].id < s[i + 1].id
        ELSE /\ s[i + 1].at = s[i].at + 1
             /\ s[i + 1].id = s[i].id /\ s[i + 1].kind = s[i].kind

Grows(s) == \A i, j \in 1..Len(s) : i <= j => s[i].id <= s[j].id

Stream(s, f) == Units(s, f) /\ Ends(s) /\ Follows(s) /\ Grows(s)

\* The numbers of the usable messages whose end is in s.
Held(s) ==
    {s[i].id : i \in {j \in 1..Len(s) : s[j].kind = "good" /\ IsLast(s[j])}}

LEMMA Sizes == \A k \in Kind : Size[k] \in Nat /\ Size[k] > 0
  BY FramingsAssumption

LEMMA KindsAreKinds == ASSUME NEW f \in Framing PROVE Kinds[f] \subseteq Kind
  BY DEF Framing, Kinds, Kind

LEMMA UnitFields ==
    ASSUME NEW s \in Seq(Unit), NEW i \in 1..Len(s)
    PROVE  /\ s[i] \in Unit /\ s[i].id \in Nat /\ s[i].kind \in Kind /\ s[i].at \in Nat
           /\ Size[s[i].kind] \in Nat /\ Size[s[i].kind] > 0
  <1>1. s[i] \in Unit
    OBVIOUS
  <1>2. s[i].id \in Nat /\ s[i].kind \in Kind /\ s[i].at \in Nat
    BY <1>1 DEF Unit
  <1> QED BY <1>1, <1>2, Sizes

\* From its first unit on, a message is there to its end.
LEMMA Onwards ==
    ASSUME NEW s \in Seq(Unit), NEW f, Stream(s, f),
           NEW i \in 1..Len(s), s[i].at = 1, NEW k \in 1..Size[s[i].kind]
    PROVE  /\ i + k - 1 \in 1..Len(s)
           /\ s[i + k - 1].id = s[i].id /\ s[i + k - 1].kind = s[i].kind
           /\ s[i + k - 1].at = k
  <1> DEFINE m == Size[s[i].kind]
             P(n) == /\ i + n - 1 \in 1..Len(s)
                     /\ s[i + n - 1].id = s[i].id /\ s[i + n - 1].kind = s[i].kind
                     /\ s[i + n - 1].at = n
             T == {n \in 1..m : ~P(n)}
  <1>0. m \in Nat /\ i \in Nat /\ Len(s) \in Nat
    BY UnitFields
  <1>1. P(1)
    BY <1>0
  <1>2. ASSUME NEW n \in 1..m, n + 1 \in 1..m, P(n)
        PROVE  P(n + 1)
    <2> DEFINE j == i + n - 1
    <2>1. j \in 1..Len(s) /\ j \in Nat /\ s[j].id = s[i].id /\ s[j].kind = s[i].kind /\ s[j].at = n
      BY <1>0, <1>2
    <2>2. ~IsLast(s[j])
      BY <1>0, <1>2, <2>1 DEF IsLast
    <2>3. j # Len(s)
      <3>1. IsLast(s[Len(s)])
        BY <1>0 DEF Stream, Ends
      <3> QED BY <2>2, <3>1
    <2>4. j < Len(s) /\ j + 1 = i + (n + 1) - 1
      BY <1>0, <2>1, <2>3
    <2> HIDE DEF j
    <2>5. /\ s[j + 1].at = s[j].at + 1
          /\ s[j + 1].id = s[j].id /\ s[j + 1].kind = s[j].kind
      BY <2>1, <2>2, <2>4 DEF Stream, Follows
    <2>6. s[i + (n + 1) - 1] = s[j + 1] /\ i + (n + 1) - 1 \in 1..Len(s)
      BY <1>0, <2>1, <2>4
    <2>7. s[j + 1].at = n + 1 /\ s[j + 1].id = s[i].id /\ s[j + 1].kind = s[i].kind
      BY <2>1, <2>5
    <2> QED BY ONLY <2>6, <2>7
  <1> HIDE DEF P, m
  <1>3. SUFFICES ASSUME T # {} PROVE FALSE
    <2>1. P(k)
      BY <1>3 DEF m
    <2> QED BY <2>1 DEF P
  <1>4. T \subseteq Nat
    BY <1>0
  <1>5. PICK n \in T : \A y \in T : n <= y
    BY <1>3, <1>4, FramingLeast
  <1>6. n \in 1..m /\ ~P(n) /\ n # 1 /\ n \in Nat
    BY <1>0, <1>1, <1>5
  <1>7. n - 1 \in 1..m /\ n - 1 + 1 = n /\ n - 1 \notin T
    BY <1>0, <1>5, <1>6
  <1>8. P(n - 1)
    BY <1>7
  <1>9. P(n - 1 + 1)
    BY <1>2, <1>6, <1>7, <1>8
  <1> QED BY <1>6, <1>7, <1>9

\* Before any unit, its message is there from its start.
LEMMA Backwards ==
    ASSUME NEW s \in Seq(Unit), NEW f, Stream(s, f),
           NEW i \in 1..Len(s)
    PROVE  LET j == i - s[i].at + 1
           IN  j \in 1..i /\ s[j].id = s[i].id /\ s[j].kind = s[i].kind /\ s[j].at = 1
  <1> DEFINE a == s[i].at
             P(n) == /\ i - n \in 1..i
                     /\ s[i - n].id = s[i].id /\ s[i - n].kind = s[i].kind
                     /\ s[i - n].at = a - n
             T == {n \in 0..(a - 1) : ~P(n)}
  <1>0. a \in Nat /\ a >= 1 /\ i \in Nat /\ i >= 1 /\ Len(s) \in Nat /\ i <= Len(s)
    BY UnitFields DEF Stream, Units
  <1>1. P(0)
    BY <1>0
  <1>2. ASSUME NEW n \in 0..(a - 1), n + 1 \in 0..(a - 1), P(n)
        PROVE  P(n + 1)
    <2> DEFINE j == i - n
    <2>1. /\ j \in 1..Len(s) /\ j \in Nat /\ j <= i
          /\ s[j].id = s[i].id /\ s[j].kind = s[i].kind /\ s[j].at = a - n
      BY <1>0, <1>2
    <2>2. s[j].at > 1
      BY <1>0, <1>2, <2>1
    <2>3. j # 1
      <3>1. s[1].at = 1
        BY <1>0 DEF Stream, Ends
      <3> QED BY <2>2, <3>1
    <2>4. j - 1 \in 1..Len(s) /\ j - 1 < Len(s) /\ j - 1 + 1 = j /\ j - 1 = i - (n + 1)
          /\ j - 1 \in 1..i
      BY <1>0, <1>2, <2>1, <2>3
    <2>5. s[j - 1].at \in Nat
      BY <2>4, UnitFields
    <2> HIDE DEF j
    <2>6. IF IsLast(s[j - 1])
          THEN s[j].at = 1 /\ s[j - 1].id < s[j].id
          ELSE /\ s[j].at = s[j - 1].at + 1
               /\ s[j].id = s[j - 1].id /\ s[j].kind = s[j - 1].kind
      BY <2>4 DEF Stream, Follows
    <2>7. s[j].at = s[j - 1].at + 1 /\ s[j].id = s[j - 1].id /\ s[j].kind = s[j - 1].kind
      BY <2>2, <2>6
    <2>8. s[j - 1].at = a - (n + 1)
      <3>1. a - n = s[j - 1].at + 1
        BY <2>1, <2>7
      <3>2. n \in Nat /\ a \in Nat
        BY <1>0
      <3> HIDE DEF a
      <3> QED BY <2>5, <3>1, <3>2
    <2>9. s[i - (n + 1)] = s[j - 1] /\ i - (n + 1) \in 1..i
      BY <2>4
    <2>10. s[j - 1].id = s[i].id /\ s[j - 1].kind = s[i].kind
      BY <2>1, <2>7
    <2> QED BY ONLY <2>8, <2>9, <2>10
  <1> HIDE DEF P, a
  <1>3. SUFFICES ASSUME T # {} PROVE FALSE
    <2>1. a - 1 \in 0..(a - 1)
      BY <1>0
    <2>2. P(a - 1)
      BY <1>3, <2>1
    <2>3. i - (a - 1) = i - a + 1 /\ a - (a - 1) = 1
      BY <1>0
    <2> QED BY <2>2, <2>3 DEF P, a
  <1>4. T \subseteq Nat
    BY <1>0
  <1>5. PICK n \in T : \A y \in T : n <= y
    BY <1>3, <1>4, FramingLeast
  <1>6. n \in 0..(a - 1) /\ ~P(n) /\ n # 0 /\ n \in Nat
    BY <1>0, <1>1, <1>5
  <1>7. n - 1 \in 0..(a - 1) /\ n - 1 + 1 = n /\ n - 1 \notin T
    BY <1>0, <1>5, <1>6
  <1>8. P(n - 1)
    BY <1>7
  <1>9. P(n - 1 + 1)
    BY <1>2, <1>6, <1>7, <1>8
  <1> QED BY <1>6, <1>7, <1>9

\* What lies around a message has other numbers.
LEMMA Apart ==
    ASSUME NEW s \in Seq(Unit), NEW f, Stream(s, f),
           NEW p \in 1..Len(s), s[p].at = 1, NEW i \in 1..Len(s)
    PROVE  /\ i < p => s[i].id < s[p].id
           /\ p <= i /\ i < p + Size[s[p].kind] =>
                 s[i].id = s[p].id /\ s[i].kind = s[p].kind /\ s[i].at = i - p + 1
           /\ i >= p + Size[s[p].kind] => s[p].id < s[i].id
           /\ p + Size[s[p].kind] - 1 <= Len(s)
  <1> DEFINE m == Size[s[p].kind]
  <1>0. /\ m \in Nat /\ m > 0 /\ p \in Nat /\ i \in Nat /\ Len(s) \in Nat
        /\ s[p].id \in Nat /\ s[i].id \in Nat /\ p >= 1 /\ p <= Len(s) /\ i >= 1 /\ i <= Len(s)
    BY UnitFields
  <1>1. ASSUME i < p
        PROVE  s[i].id < s[p].id
    <2> DEFINE q == p - 1
    <2>1. q \in 1..Len(s) /\ q < Len(s) /\ q + 1 = p /\ i <= q
      BY <1>0, <1>1
    <2>2. s[q].at >= 1 /\ s[q].at \in Nat /\ s[q].id \in Nat
      BY <2>1, UnitFields DEF Stream, Units
    <2>3. s[i].id <= s[q].id
      BY <2>1 DEF Stream, Grows
    <2> HIDE DEF q
    <2>4. s[q].id < s[p].id
      <3>1. IF IsLast(s[q]) THEN s[p].at = 1 /\ s[q].id < s[p].id
                            ELSE s[p].at = s[q].at + 1
        BY <2>1 DEF Stream, Follows
      <3> QED BY <2>2, <3>1
    <2> QED BY <1>0, <2>2, <2>3, <2>4
  <1>2. /\ p + m - 1 \in 1..Len(s) /\ s[p + m - 1].id = s[p].id
        /\ s[p + m - 1].kind = s[p].kind /\ s[p + m - 1].at = m
    <2>1. m \in 1..m
      BY <1>0
    <2> QED BY <2>1, Onwards
  <1>3. ASSUME i >= p + m
        PROVE  s[p].id < s[i].id
    <2> DEFINE q == p + m - 1
    <2>1. q \in 1..Len(s) /\ q < Len(s) /\ q + 1 \in 1..Len(s) /\ q + 1 <= i
      <3>1. q \in 1..Len(s)
        BY <1>2
      <3> HIDE DEF m
      <3> QED BY <1>0, <1>3, <3>1
    <2>2. IsLast(s[q]) /\ s[q].id = s[p].id
      BY <1>2 DEF IsLast
    <2> HIDE DEF q
    <2>3. s[q].id < s[q + 1].id
      BY <2>1, <2>2 DEF Stream, Follows
    <2>4. s[q + 1].id <= s[i].id
      BY <2>1 DEF Stream, Grows
    <2>5. s[q + 1].id \in Nat
      BY <2>1, UnitFields
    <2> QED BY <1>0, <2>2, <2>3, <2>4, <2>5
  <1>4. ASSUME p <= i, i < p + m
        PROVE  s[i].id = s[p].id /\ s[i].kind = s[p].kind /\ s[i].at = i - p + 1
    <2>1. i - p + 1 \in 1..m /\ p + (i - p + 1) - 1 = i
      BY <1>0, <1>4
    <2> HIDE DEF m
    <2>2. /\ s[p + (i - p + 1) - 1].id = s[p].id
          /\ s[p + (i - p + 1) - 1].kind = s[p].kind
          /\ s[p + (i - p + 1) - 1].at = i - p + 1
      BY <2>1, Onwards DEF m
    <2> QED BY <2>1, <2>2
  <1>5. p + m - 1 <= Len(s)
    BY <1>2
  <1> QED BY <1>1, <1>3, <1>4, <1>5

\* Taking a whole message out leaves a stream of whole messages.
LEMMA StreamWithout ==
    ASSUME NEW s \in Seq(Unit), NEW f, Stream(s, f),
           NEW p \in 1..Len(s), s[p].at = 1,
           NEW t \in Seq(Unit), Len(t) = Len(s) - Size[s[p].kind],
           \A k \in 1..Len(t) : t[k] = IF k < p THEN s[k] ELSE s[k + Size[s[p].kind]]
    PROVE  /\ Stream(t, f)
           /\ Held(t) = Held(s) \ {s[p].id}
           /\ s[p].kind # "good" => s[p].id \notin Held(s)
  <1> DEFINE m == Size[s[p].kind]
             At(k) == IF k < p THEN k ELSE k + m
  <1>0. /\ m \in Nat /\ m > 0 /\ p \in Nat /\ Len(s) \in Nat /\ Len(t) \in Nat
        /\ p + m - 1 <= Len(s) /\ p >= 1 /\ p <= Len(s) /\ Len(t) = Len(s) - m
    <2>1. p + m - 1 <= Len(s)
      BY Apart
    <2> QED BY <2>1, UnitFields
  <1>1. ASSUME NEW k \in 1..Len(t)
        PROVE  t[k] = s[At(k)] /\ At(k) \in 1..Len(s) /\ (At(k) < p \/ At(k) >= p + m)
    <2>1. CASE k < p
      BY <1>0, <2>1
    <2>2. CASE k >= p
      <3>1. t[k] = s[k + m] /\ k + m \in 1..Len(s) /\ k + m >= p + m
        <4>1. k + m \in 1..Len(s) /\ k + m >= p + m /\ ~(k < p)
          <5> HIDE DEF m
          <5> QED BY <1>0, <2>2
        <4> QED BY <4>1
      <3> HIDE DEF m
      <3> QED BY <1>0, <2>2, <3>1
    <2> QED BY <1>0, <2>1, <2>2
  <1>2. Units(t, f)
    <2> HIDE DEF At
    <2> QED BY <1>1 DEF Stream, Units
  <1>3. Grows(t)
    <2> SUFFICES ASSUME NEW i \in 1..Len(t), NEW j \in 1..Len(t), i <= j
                 PROVE  t[i].id <= t[j].id
      BY DEF Grows
    <2>1. PICK a \in 1..Len(s), b \in 1..Len(s) : a <= b /\ t[i] = s[a] /\ t[j] = s[b]
      <3>1. At(i) <= At(j)
        BY <1>0
      <3> HIDE DEF At
      <3> QED BY <1>1, <3>1
    <2>2. s[a].id <= s[b].id
      BY <2>1 DEF Stream, Grows
    <2> QED BY <2>1, <2>2
  <1>4. IsLast(s[p + m - 1])
    <2>1. m \in 1..m
      BY <1>0
    <2>2. s[p + m - 1].kind = s[p].kind /\ s[p + m - 1].at = m
      BY <2>1, Onwards
    <2> QED BY <2>2 DEF IsLast
  <1>5. p > 1 => IsLast(s[p - 1])
    <2> SUFFICES ASSUME p > 1, ~IsLast(s[p - 1])
                 PROVE  FALSE
      OBVIOUS
    <2> DEFINE q == p - 1
    <2>1. q \in 1..Len(s) /\ q < Len(s) /\ q + 1 = p
      BY <1>0
    <2> HIDE DEF q
    <2>2. ~IsLast(s[q])
      BY DEF IsLast, q
    <2>3. s[q].at \in Nat /\ s[q].at >= 1
      BY <2>1, UnitFields DEF Stream, Units
    <2>4. s[p].at = s[q].at + 1
      BY <2>1, <2>2 DEF Stream, Follows
    <2> QED BY <2>3, <2>4
  <1>6. p + m <= Len(s) => s[p + m].at = 1
    <2> SUFFICES ASSUME p + m <= Len(s)
                 PROVE  s[p + m].at = 1
      OBVIOUS
    <2>1. p + m - 1 \in 1..Len(s) /\ p + m - 1 < Len(s) /\ p + m - 1 + 1 = p + m
      BY <1>0, SMTT(30)
    <2> QED BY <1>4, <2>1 DEF Stream, Follows
  <1>7. Follows(t)
    <2> SUFFICES ASSUME NEW i \in 1..Len(t), i < Len(t)
                 PROVE  IF IsLast(t[i])
                        THEN t[i + 1].at = 1 /\ t[i].id < t[i + 1].id
                        ELSE /\ t[i + 1].at = t[i].at + 1
                             /\ t[i + 1].id = t[i].id /\ t[i + 1].kind = t[i].kind
      BY DEF Follows
    <2>1. /\ t[i] = s[At(i)] /\ At(i) \in 1..Len(s) /\ i + 1 \in 1..Len(t)
          /\ t[i + 1] = s[At(i + 1)] /\ At(i + 1) \in 1..Len(s)
      <3>1. i + 1 \in 1..Len(t)
        BY <1>0
      <3> QED BY <1>1, <3>1
    <2>2. CASE i + 1 # p
      <3>1. PICK a \in 1..Len(s) : a < Len(s) /\ t[i] = s[a] /\ t[i + 1] = s[a + 1]
        <4>1. At(i + 1) = At(i) + 1 /\ At(i) < Len(s)
          <5>1. i \in Nat /\ i + 1 <= Len(t)
            OBVIOUS
          <5> HIDE DEF m
          <5> QED BY ONLY <1>0, <2>2, <5>1
        <4> HIDE DEF At
        <4> QED BY <2>1, <4>1
      <3> QED BY <3>1 DEF Stream, Follows, IsLast
    <2>3. CASE i + 1 = p
      <3>1. At(i) = p - 1 /\ At(i + 1) = p + m /\ p > 1 /\ p + m <= Len(s)
        BY <1>0, <2>1, <2>3
      <3>2. IsLast(t[i]) /\ t[i + 1].at = 1
        BY <1>5, <1>6, <2>1, <3>1 DEF IsLast
      <3>3. p - 1 \in 1..Len(s) /\ p + m \in 1..Len(s) /\ p - 1 < p /\ p + m >= p + m
        <4> HIDE DEF m
        <4> QED BY ONLY <1>0, <3>1
      <3>4. s[p - 1].id < s[p].id /\ s[p].id < s[p + m].id
        BY <3>3, Apart
      <3>5. s[p - 1].id \in Nat /\ s[p].id \in Nat /\ s[p + m].id \in Nat
        BY <3>3, UnitFields
      <3>6. t[i].id < t[i + 1].id
        <4>1. t[i] = s[p - 1] /\ t[i + 1] = s[p + m]
          BY ONLY <2>1, <3>1
        <4>2. PICK a \in Nat, b \in Nat, c \in Nat :
                a = s[p - 1].id /\ b = s[p].id /\ c = s[p + m].id
          BY <3>5
        <4>3. t[i].id = a /\ t[i + 1].id = c
          BY ONLY <4>1, <4>2
        <4>4. a < b /\ b < c
          BY ONLY <3>4, <4>2
        <4> HIDE DEF m
        <4> QED BY <4>3, <4>4
      <3> QED BY <3>2, <3>6
    <2> QED BY <2>2, <2>3
  <1>8. Ends(t)
    <2> SUFFICES ASSUME Len(t) > 0
                 PROVE  t[1].at = 1 /\ IsLast(t[Len(t)])
      BY DEF Ends
    <2>1. 1 \in 1..Len(t) /\ Len(t) \in 1..Len(t)
      BY <1>0
    <2>2. s[1].at = 1 /\ IsLast(s[Len(s)])
      BY <1>0 DEF Stream, Ends
    <2>3. t[1].at = 1
      <3>1. CASE p = 1
        <4>1. t[1] = s[p + m] /\ p + m <= Len(s)
          BY <1>0, <1>1, <2>1, <3>1
        <4> QED BY <1>6, <4>1
      <3>2. CASE p # 1
        <4>1. t[1] = s[1]
          BY <1>0, <1>1, <2>1, <3>2
        <4> QED BY <2>2, <4>1
      <3> QED BY <3>1, <3>2
    <2>4. IsLast(t[Len(t)])
      <3>1. CASE Len(t) < p
        <4>1. Len(t) = p - 1 /\ p > 1 /\ t[Len(t)] = s[p - 1]
          <5>1. t[Len(t)] = s[At(Len(t))]
            BY <1>1, <2>1
          <5>2. At(Len(t)) = Len(t)
            BY <3>1
          <5>3. Len(t) = p - 1 /\ p > 1
            <6> HIDE DEF m
            <6> QED BY <1>0, <2>1, <3>1
          <5> QED BY ONLY <5>1, <5>2, <5>3
        <4> QED BY <1>5, <4>1
      <3>2. CASE Len(t) >= p
        <4>1. t[Len(t)] = s[Len(s)]
          <5>1. t[Len(t)] = s[At(Len(t))]
            BY <1>1, <2>1
          <5>2. At(Len(t)) = Len(t) + m
            BY <1>0, <3>2
          <5>3. Len(t) + m = Len(s)
            <6> HIDE DEF m
            <6> QED BY <1>0
          <5> QED BY ONLY <5>1, <5>2, <5>3
        <4> QED BY <2>2, <4>1
      <3> QED BY <1>0, <3>1, <3>2
    <2> QED BY <2>3, <2>4
  <1>9. ASSUME NEW i \in 1..Len(s), i < p \/ i >= p + m
        PROVE  /\ \E k \in 1..Len(t) : t[k] = s[i]
               /\ s[i].id # s[p].id
    <2>1. s[i].id < s[p].id \/ s[p].id < s[i].id
      BY <1>9, Apart
    <2>2. s[i].id \in Nat /\ s[p].id \in Nat
      BY UnitFields
    <2>3. CASE i < p
      <3>1. i \in 1..Len(t) /\ t[i] = s[i]
        BY <1>0, <2>3
      <3> QED BY <2>1, <2>2, <3>1
    <2>4. CASE i >= p + m
      <3>1. i - m \in 1..Len(t) /\ i - m >= p /\ i - m + m = i
        <4> HIDE DEF m
        <4> QED BY <1>0, <2>4
      <3>2. t[i - m] = s[i]
        <4>1. At(i - m) = i /\ t[i - m] = s[At(i - m)]
          BY <1>1, <3>1
        <4> QED BY <4>1
      <3> QED BY <2>1, <2>2, <3>1, <3>2
    <2> QED BY <1>9, <2>3, <2>4
  <1>10. ASSUME NEW i \in 1..Len(s), ~(i < p \/ i >= p + m)
         PROVE  s[i].id = s[p].id /\ s[i].kind = s[p].kind
    <2>1. p <= i /\ i < p + m
      BY <1>0, <1>10
    <2> QED BY <2>1, Apart
  <1> HIDE DEF At
  <1>11. ASSUME NEW d \in Held(t)
         PROVE  d \in Held(s) \ {s[p].id}
    <2>1. PICK k \in 1..Len(t) : t[k].kind = "good" /\ IsLast(t[k]) /\ d = t[k].id
      BY <1>11 DEF Held
    <2>2. t[k] = s[At(k)] /\ At(k) \in 1..Len(s) /\ (At(k) < p \/ At(k) >= p + m)
      BY <1>1
    <2>3. s[At(k)].id # s[p].id
      BY <1>9, <2>2
    <2>4. s[At(k)].kind = "good" /\ IsLast(s[At(k)]) /\ d = s[At(k)].id
      BY <2>1, <2>2
    <2> QED BY <2>2, <2>3, <2>4 DEF Held
  <1>12. ASSUME NEW d \in Held(s), d # s[p].id
         PROVE  d \in Held(t)
    <2>1. PICK i \in 1..Len(s) : s[i].kind = "good" /\ IsLast(s[i]) /\ d = s[i].id
      BY DEF Held
    <2>2. i < p \/ i >= p + m
      BY <1>10, <1>12, <2>1
    <2>3. PICK k \in 1..Len(t) : t[k] = s[i]
      BY <1>9, <2>2
    <2>4. t[k].kind = "good" /\ IsLast(t[k]) /\ d = t[k].id
      BY <2>1, <2>3
    <2> QED BY <2>4 DEF Held
  <1>13. ASSUME s[p].id \in Held(s)
         PROVE  s[p].kind = "good"
    <2>1. PICK i \in 1..Len(s) : s[i].kind = "good" /\ IsLast(s[i]) /\ s[p].id = s[i].id
      BY <1>13 DEF Held
    <2>2. ~(i < p \/ i >= p + m)
      BY <1>9, <2>1
    <2> QED BY <1>10, <2>1, <2>2
  <1> QED BY <1>2, <1>3, <1>7, <1>8, <1>11, <1>12, <1>13 DEF Stream

\* A message more, with a new number.
LEMMA StreamWith ==
    ASSUME NEW s \in Seq(Unit), NEW f \in Framing, Stream(s, f),
           NEW kind \in Kinds[f], NEW id \in Nat,
           \A i \in 1..Len(s) : s[i].id < id,
           NEW t \in Seq(Unit), Len(t) = Len(s) + Size[kind],
           \A k \in 1..Len(s) : t[k] = s[k],
           \A k \in 1..Size[kind] :
              t[Len(s) + k] = [id |-> id, kind |-> kind, at |-> k]
    PROVE  /\ Stream(t, f)
           /\ Held(t) = IF kind = "good" THEN Held(s) \cup {id} ELSE Held(s)
  <1> DEFINE m == Size[kind]
             l == Len(s)
  <1>0. m \in Nat /\ m > 0 /\ l \in Nat /\ Len(t) = l + m
    BY KindsAreKinds, Sizes
  <1>1. ASSUME NEW i \in 1..l
        PROVE  /\ t[i] = s[i] /\ i \in 1..Len(t) /\ s[i].id < id /\ s[i].id \in Nat
               /\ s[i].kind \in Kinds[f] /\ 1 <= s[i].at /\ s[i].at <= Size[s[i].kind]
    BY <1>0, UnitFields DEF Stream, Units
  <1>2. ASSUME NEW i \in 1..Len(t), i > l
        PROVE  /\ i - l \in 1..m
               /\ t[i].id = id /\ t[i].kind = kind /\ t[i].at = i - l
    <2>1. i - l \in 1..m /\ l + (i - l) = i
      BY <1>0, <1>2
    <2>2. t[l + (i - l)] = [id |-> id, kind |-> kind, at |-> i - l]
      BY <2>1
    <2> QED BY <2>1, <2>2
  <1>3. \A i \in 1..Len(t) : i \in 1..l \/ i > l
    BY <1>0
  <1>4. Units(t, f)
    <2> SUFFICES ASSUME NEW i \in 1..Len(t)
                 PROVE  t[i].kind \in Kinds[f] /\ 1 <= t[i].at /\ t[i].at <= Size[t[i].kind]
      BY DEF Units
    <2>1. CASE i \in 1..l
      BY <1>1, <2>1
    <2>2. CASE i > l
      <3>1. t[i].kind = kind /\ t[i].at = i - l /\ i - l \in 1..m
        BY <1>2, <2>2
      <3> QED BY <1>0, <3>1
    <2> QED BY <1>3, <2>1, <2>2
  <1>5. Ends(t)
    <2>1. Len(t) \in 1..Len(t) /\ Len(t) > l /\ 1 \in 1..Len(t) /\ Len(t) - l = m
      BY <1>0
    <2>2. IsLast(t[Len(t)])
      BY <1>2, <2>1 DEF IsLast
    <2>3. t[1].at = 1
      <3>1. CASE l = 0
        <4>1. t[1].at = 1 - l
          BY <1>2, <2>1, <3>1
        <4> QED BY <3>1, <4>1
      <3>2. CASE l # 0
        <4>1. 1 \in 1..l
          BY <1>0, <3>2
        <4>2. s[1].at = 1
          BY <1>0, <3>2 DEF Stream, Ends
        <4> QED BY <1>1, <4>1, <4>2
      <3> QED BY <3>1, <3>2
    <2> QED BY <2>2, <2>3 DEF Ends
  <1>6. Follows(t)
    <2> SUFFICES ASSUME NEW i \in 1..Len(t), i < Len(t)
                 PROVE  IF IsLast(t[i])
                        THEN t[i + 1].at = 1 /\ t[i].id < t[i + 1].id
                        ELSE /\ t[i + 1].at = t[i].at + 1
                             /\ t[i + 1].id = t[i].id /\ t[i + 1].kind = t[i].kind
      BY DEF Follows
    <2>1. i + 1 \in 1..Len(t)
      BY <1>0
    <2>2. CASE i < l
      <3>1. i \in 1..l /\ i + 1 \in 1..l
        BY <1>0, <2>2
      <3>2. t[i] = s[i] /\ t[i + 1] = s[i + 1]
        BY <1>1, <3>1
      <3> QED BY <2>2, <3>1, <3>2 DEF Stream, Follows, IsLast
    <2>3. CASE i = l
      <3>1. i \in 1..l /\ i > 0 /\ i + 1 > l
        BY <1>0, <2>3
      <3>2. IsLast(s[i])
        BY <2>3, <3>1 DEF Stream, Ends
      <3>3. t[i] = s[i] /\ s[i].id < id
        BY <1>1, <3>1
      <3>4. t[i + 1].id = id /\ t[i + 1].at = i + 1 - l
        BY <1>2, <2>1, <3>1
      <3> QED BY <1>0, <2>3, <3>2, <3>3, <3>4 DEF IsLast
    <2>4. CASE i > l
      <3>1. t[i].id = id /\ t[i].kind = kind /\ t[i].at = i - l
        BY <1>2, <2>4
      <3>2. t[i + 1].id = id /\ t[i + 1].kind = kind /\ t[i + 1].at = i + 1 - l
        BY <1>0, <1>2, <2>1, <2>4
      <3>3. i - l # m /\ i + 1 - l = i - l + 1
        BY <1>0, <2>4
      <3>4. ~IsLast(t[i])
        BY <3>1, <3>3 DEF IsLast
      <3> QED BY <3>1, <3>2, <3>3, <3>4
    <2> QED BY <1>0, <2>2, <2>3, <2>4
  <1>7. Grows(t)
    <2> SUFFICES ASSUME NEW i \in 1..Len(t), NEW j \in 1..Len(t), i <= j
                 PROVE  t[i].id <= t[j].id
      BY DEF Grows
    <2>1. CASE i > l
      <3>1. t[i].id = id /\ t[j].id = id
        BY <1>0, <1>2, <2>1, SMTT(30)
      <3> QED BY <3>1
    <2>2. CASE i \in 1..l /\ j > l
      <3>1. t[i].id = s[i].id /\ t[j].id = id /\ s[i].id < id /\ s[i].id \in Nat
        BY <1>1, <1>2, <2>2
      <3> QED BY <3>1
    <2>3. CASE i \in 1..l /\ j \in 1..l
      <3>1. t[i] = s[i] /\ t[j] = s[j]
        BY <1>1, <2>3
      <3> QED BY <2>3, <3>1 DEF Stream, Grows
    <2> QED BY <1>3, <2>1, <2>2, <2>3
  <1>8. ASSUME NEW d
        PROVE  d \in Held(t) <=> d \in Held(s) \/ (kind = "good" /\ d = id)
    <2>1. ASSUME d \in Held(t)
          PROVE  d \in Held(s) \/ (kind = "good" /\ d = id)
      <3>1. PICK i \in 1..Len(t) : t[i].kind = "good" /\ IsLast(t[i]) /\ d = t[i].id
        BY <2>1 DEF Held
      <3>2. CASE i > l
        BY <1>2, <3>1, <3>2
      <3>3. CASE i \in 1..l
        <4>1. s[i].kind = "good" /\ IsLast(s[i]) /\ d = s[i].id
          BY <1>1, <3>1, <3>3
        <4> QED BY <3>3, <4>1 DEF Held
      <3> QED BY <1>3, <3>2, <3>3
    <2>2. ASSUME d \in Held(s)
          PROVE  d \in Held(t)
      <3>1. PICK i \in 1..l : s[i].kind = "good" /\ IsLast(s[i]) /\ d = s[i].id
        BY <2>2 DEF Held
      <3>2. t[i].kind = "good" /\ IsLast(t[i]) /\ d = t[i].id /\ i \in 1..Len(t)
        BY <1>1, <3>1
      <3> QED BY <3>2 DEF Held
    <2>3. ASSUME kind = "good", d = id
          PROVE  d \in Held(t)
      <3>1. Len(t) \in 1..Len(t) /\ Len(t) > l /\ Len(t) - l = m
        BY <1>0
      <3>2. t[Len(t)].kind = "good" /\ IsLast(t[Len(t)]) /\ d = t[Len(t)].id
        BY <1>2, <2>3, <3>1 DEF IsLast
      <3> QED BY <3>1, <3>2 DEF Held
    <2> QED BY <2>1, <2>2, <2>3
  <1> HIDE DEF m, l
  <1>9. Held(t) = IF kind = "good" THEN Held(s) \cup {id} ELSE Held(s)
    <2>1. CASE kind = "good"
      BY <1>8, <2>1
    <2>2. CASE kind # "good"
      BY <1>8, <2>2
    <2> QED BY <2>1, <2>2
  <1> QED BY <1>4, <1>5, <1>6, <1>7, <1>9 DEF Stream

\* What a stream holds from the first unit of a message on.
LEMMA StreamFrom ==
    ASSUME NEW s \in Seq(Unit), NEW f, Stream(s, f), NEW n \in 0..Len(s),
           NEW t \in Seq(Unit), Len(t) = Len(s) - n,
           \A k \in 1..Len(t) : t[k] = s[n + k],
           Len(t) > 0 => t[1].at = 1
    PROVE  /\ Stream(t, f)
           /\ \A d : d \in Held(t) <=>
                    /\ d \in Held(s)
                    /\ \E i \in 1..Len(t) : /\ t[i].id = d /\ t[i].kind = "good"
                                           /\ t[i].at = 1
  <1> DEFINE l == Len(t)
  <1>0. l \in Nat /\ n \in Nat /\ Len(s) = n + l
    OBVIOUS
  <1>1. ASSUME NEW i \in 1..l
        PROVE  t[i] = s[n + i] /\ n + i \in 1..Len(s)
    BY <1>0
  <1>2. Units(t, f)
    BY <1>1 DEF Stream, Units
  <1>3. Ends(t)
    <2> SUFFICES ASSUME l > 0
                 PROVE  IsLast(t[l])
      BY DEF Ends
    <2>1. l \in 1..l /\ n + l = Len(s) /\ Len(s) > 0
      BY <1>0
    <2>2. IsLast(s[Len(s)])
      BY <2>1 DEF Stream, Ends
    <2>3. t[l] = s[Len(s)]
      BY <1>1, <2>1
    <2> QED BY <2>2, <2>3
  <1>4. Follows(t)
    <2> SUFFICES ASSUME NEW i \in 1..l, i < l
                 PROVE  IF IsLast(t[i])
                        THEN t[i + 1].at = 1 /\ t[i].id < t[i + 1].id
                        ELSE /\ t[i + 1].at = t[i].at + 1
                             /\ t[i + 1].id = t[i].id /\ t[i + 1].kind = t[i].kind
      BY DEF Follows
    <2>1. PICK a \in 1..Len(s) : a < Len(s) /\ t[i] = s[a] /\ t[i + 1] = s[a + 1]
      <3>1. i + 1 \in 1..l /\ n + i < Len(s) /\ n + (i + 1) = n + i + 1
        BY <1>0
      <3> QED BY <1>1, <3>1
    <2> QED BY <2>1 DEF Stream, Follows, IsLast
  <1>5. Grows(t)
    <2> SUFFICES ASSUME NEW i \in 1..l, NEW j \in 1..l, i <= j
                 PROVE  t[i].id <= t[j].id
      BY DEF Grows
    <2>1. n + i <= n + j
      BY <1>0
    <2> QED BY <1>1, <2>1 DEF Stream, Grows
  <1>6. Stream(t, f)
    BY <1>2, <1>3, <1>4, <1>5 DEF Stream
  <1>7. ASSUME NEW d \in Held(t)
        PROVE  /\ d \in Held(s)
               /\ \E i \in 1..l : t[i].id = d /\ t[i].kind = "good" /\ t[i].at = 1
    <2>1. PICK i \in 1..l : t[i].kind = "good" /\ IsLast(t[i]) /\ d = t[i].id
      BY <1>7 DEF Held
    <2>2. s[n + i].kind = "good" /\ IsLast(s[n + i]) /\ d = s[n + i].id /\ n + i \in 1..Len(s)
      BY <1>1, <2>1
    <2>3. d \in Held(s)
      BY <2>2 DEF Held
    <2> DEFINE j == i - t[i].at + 1
    <2>4. j \in 1..i /\ t[j].id = t[i].id /\ t[j].kind = t[i].kind /\ t[j].at = 1
      BY <1>6, Backwards
    <2> HIDE DEF j
    <2>5. j \in 1..l
      BY <1>0, <2>4
    <2> QED BY <2>1, <2>3, <2>4, <2>5
  <1>8. ASSUME NEW i \in 1..l, t[i].kind = "good", t[i].at = 1
        PROVE  t[i].id \in Held(t)
    <2> DEFINE m == Size[t[i].kind]
               e == i + m - 1
    <2>1. m \in 1..m
      BY UnitFields
    <2>2. e \in 1..l /\ t[e].id = t[i].id /\ t[e].kind = t[i].kind /\ t[e].at = m
      BY <1>6, <1>8, <2>1, Onwards
    <2>3. IsLast(t[e])
      BY <2>2 DEF IsLast
    <2> HIDE DEF e
    <2> QED BY <1>8, <2>2, <2>3 DEF Held
  <1> QED BY <1>6, <1>7, <1>8

-----------------------------------------------------------------------------
(* What the handlers do to a sequence of units.                            *)

LEMMA Joined ==
    ASSUME NEW a \in Seq(Unit), NEW b \in Seq(Unit)
    PROVE  /\ a \o b \in Seq(Unit) /\ Len(a \o b) = Len(a) + Len(b)
           /\ \A k \in 1..Len(a) : (a \o b)[k] = a[k]
           /\ \A k \in 1..Len(b) : (a \o b)[Len(a) + k] = b[k]
  OBVIOUS

LEMMA Pieces ==
    ASSUME NEW s \in Seq(Unit), NEW n \in 0..Len(s)
    PROVE  /\ SubSeq(s, 1, n) \in Seq(Unit) /\ Len(SubSeq(s, 1, n)) = n
           /\ \A k \in 1..n : SubSeq(s, 1, n)[k] = s[k]
           /\ SubSeq(s, n + 1, Len(s)) \in Seq(Unit)
           /\ Len(SubSeq(s, n + 1, Len(s))) = Len(s) - n
           /\ \A k \in 1..(Len(s) - n) : SubSeq(s, n + 1, Len(s))[k] = s[n + k]
  OBVIOUS

LEMMA WithoutUnits ==
    ASSUME NEW s \in Seq(Unit), NEW i \in 1..Len(s), NEW n \in Nat, i + n - 1 <= Len(s)
    PROVE  /\ Without(s, i, n) \in Seq(Unit) /\ Len(Without(s, i, n)) = Len(s) - n
           /\ \A k \in 1..(Len(s) - n) :
                 Without(s, i, n)[k] = IF k < i THEN s[k] ELSE s[k + n]
  <1> DEFINE a == SubSeq(s, 1, i - 1)
             b == SubSeq(s, i + n, Len(s))
  <1>1. /\ a \in Seq(Unit) /\ Len(a) = i - 1
        /\ \A k \in 1..(i - 1) : a[k] = s[k]
    OBVIOUS
  <1>2. /\ b \in Seq(Unit) /\ Len(b) = Len(s) - (i - 1) - n
        /\ \A k \in 1..(Len(s) - (i - 1) - n) : b[k] = s[i - 1 + n + k]
    OBVIOUS
  <1> HIDE DEF a, b
  <1>3. /\ a \o b \in Seq(Unit) /\ Len(a \o b) = Len(s) - n
        /\ \A k \in 1..(i - 1) : (a \o b)[k] = a[k]
        /\ \A k \in 1..Len(b) : (a \o b)[i - 1 + k] = b[k]
    BY <1>1, <1>2, SMTT(30)
  <1>4. ASSUME NEW k \in 1..(Len(s) - n)
        PROVE  (a \o b)[k] = IF k < i THEN s[k] ELSE s[k + n]
    <2>1. CASE k < i
      BY <1>1, <1>3, <2>1
    <2>2. CASE k >= i
      <3>1. k - (i - 1) \in 1..(Len(s) - (i - 1) - n) /\ i - 1 + (k - (i - 1)) = k
            /\ i - 1 + n + (k - (i - 1)) = k + n
        BY <2>2
      <3>2. (a \o b)[i - 1 + (k - (i - 1))] = b[k - (i - 1)]
        BY <1>2, <1>3, <3>1
      <3>3. b[k - (i - 1)] = s[i - 1 + n + (k - (i - 1))]
        BY <1>2, <3>1
      <3>4. (a \o b)[k] = s[k + n]
        BY <3>1, <3>2, <3>3
      <3> QED BY <2>2, <3>4
    <2>3. k < i \/ k >= i
      OBVIOUS
    <2> QED BY ONLY <2>1, <2>2, <2>3
  <1>5. Without(s, i, n) = a \o b
    BY DEF Without, a, b
  <1> QED BY <1>3, <1>4, <1>5

LEMMA MessageUnits ==
    ASSUME NEW id \in Nat, NEW kind \in Kind
    PROVE  /\ Message(id, kind) \in Seq(Unit) /\ Len(Message(id, kind)) = Size[kind]
           /\ \A k \in 1..Size[kind] :
                 Message(id, kind)[k] = [id |-> id, kind |-> kind, at |-> k]
  <1>1. Size[kind] \in Nat
    BY Sizes
  <1>2. \A k \in 1..Size[kind] : [id |-> id, kind |-> kind, at |-> k] \in Unit
    BY <1>1 DEF Unit
  <1>3. Message(id, kind) \in [1..Size[kind] -> Unit]
    BY <1>2 DEF Message
  <1>4. \A k \in 1..Size[kind] :
           Message(id, kind)[k] = [id |-> id, kind |-> kind, at |-> k]
    BY DEF Message
  <1>5. Message(id, kind) \in Seq(Unit) /\ Len(Message(id, kind)) = Size[kind]
    BY <1>1, <1>3
  <1> QED BY <1>4, <1>5

-----------------------------------------------------------------------------
(* decode_telemetry.                                                       *)

\* The front the decoder finds is in the accumulator.
LEMMA FrontBound ==
    ASSUME framing \in Framing, acc \in Seq(Unit)
    PROVE  FrontLen \in 0..Len(acc)
  <1>0. Len(acc) \in Nat /\ Size["good"] \in Nat
    BY Sizes DEF Kind
  <1>1. FrontFixed \in 0..Len(acc)
    BY <1>0 DEF FrontFixed
  <1>2. FrontLength \in 0..Len(acc)
    <2>1. CASE acc = <<>>
      BY <1>0, <2>1 DEF FrontLength
    <2>2. CASE acc # <<>>
      <3>1. 1 \in 1..Len(acc)
        BY <1>0, <2>2
      <3>2. Size[acc[1].kind] \in Nat
        BY <3>1, UnitFields
      <3> QED BY <1>0, <3>2 DEF FrontLength
    <2> QED BY <2>1, <2>2
  <1>3. FrontDelimited \in 0..Len(acc)
    <2> DEFINE ends == {i \in DOMAIN acc : IsLast(acc[i])}
    <2>1. ends \subseteq 1..Len(acc) /\ ends \subseteq Nat
      BY <1>0
    <2>2. CASE ends = {}
      BY <1>0, <2>2 DEF FrontDelimited
    <2>3. CASE ends # {}
      <3>1. \E i \in ends : \A j \in ends : i <= j
        BY <2>1, <2>3, FramingLeast
      <3>2. FrontDelimited = CHOOSE i \in ends : \A j \in ends : i <= j
        BY <2>3 DEF FrontDelimited
      <3> HIDE DEF ends
      <3>3. FrontDelimited \in ends
        BY <3>1, <3>2
      <3> QED BY <1>0, <2>1, <3>3
    <2> QED BY <2>2, <2>3
  <1> QED BY <1>1, <1>2, <1>3 DEF FrontLen

\* The accumulator of a stream that lost nothing starts with a message: all
\* of it, or as much as has come.
LEMMA AccStarts ==
    ASSUME framing \in Framing, acc \in Seq(Unit), wire \in Seq(Unit),
           Stream(acc \o wire, framing), acc # <<>>
    PROVE  /\ acc[1] = (acc \o wire)[1] /\ 1 \in 1..Len(acc) /\ 1 \in 1..Len(acc \o wire)
           /\ acc[1].at = 1 /\ acc[1].kind \in Kinds[framing]
           /\ Size[acc[1].kind] \in Nat /\ Size[acc[1].kind] > 0
           /\ \A i \in 1..Len(acc) : i <= Size[acc[1].kind] =>
                 acc[i].id = acc[1].id /\ acc[i].kind = acc[1].kind /\ acc[i].at = i
  <1> DEFINE s == acc \o wire
  <1>0. /\ s \in Seq(Unit) /\ Len(s) = Len(acc) + Len(wire)
        /\ Len(acc) \in Nat /\ Len(wire) \in Nat /\ Len(acc) > 0
        /\ \A k \in 1..Len(acc) : s[k] = acc[k]
    BY Joined
  <1> HIDE DEF s
  <1>1. s[1] = acc[1] /\ 1 \in 1..Len(acc) /\ 1 \in 1..Len(s)
    BY <1>0
  <1>2. s[1].at = 1 /\ s[1].kind \in Kinds[framing]
    BY <1>0, <1>1 DEF Stream, Ends, Units, s
  <1>3. Size[acc[1].kind] \in Nat /\ Size[acc[1].kind] > 0
    BY <1>1, UnitFields
  <1>4. ASSUME NEW i \in 1..Len(acc), i <= Size[acc[1].kind]
        PROVE  acc[i].id = acc[1].id /\ acc[i].kind = acc[1].kind /\ acc[i].at = i
    <2>1. i \in 1..Len(s) /\ s[i] = acc[i] /\ i \in 1..Size[s[1].kind] /\ 1 + i - 1 = i
      BY <1>0, <1>1, <1>4
    <2>2. Stream(s, framing)
      BY DEF s
    <2>3. /\ s[1 + i - 1].id = s[1].id /\ s[1 + i - 1].kind = s[1].kind
          /\ s[1 + i - 1].at = i
      BY <1>0, <1>1, <1>2, <2>1, <2>2, Onwards
    <2> QED BY <1>1, <2>1, <2>3
  <1> QED BY <1>1, <1>2, <1>3, <1>4 DEF s

LEMMA FrontIsMessage ==
    ASSUME framing \in Framing, acc \in Seq(Unit), wire \in Seq(Unit),
           Stream(acc \o wire, framing)
    PROVE  /\ FrontLen > 0 => acc # <<>> /\ FrontLen = Size[acc[1].kind]
           /\ ~(FrontLen > 0) => acc = <<>> \/ Len(acc) < Size[acc[1].kind]
  <1> DEFINE m == Size[acc[1].kind]
             ends == {i \in DOMAIN acc : IsLast(acc[i])}
  <1>0. Len(acc) \in Nat /\ Size["good"] \in Nat /\ Size["good"] > 0
    BY Sizes DEF Kind
  <1>1. CASE acc = <<>>
    <2>1. Len(acc) = 0 /\ ends = {}
      BY <1>1
    <2>2. FrontFixed = 0 /\ FrontLength = 0 /\ FrontDelimited = 0
      BY <1>0, <1>1, <2>1 DEF FrontFixed, FrontLength, FrontDelimited
    <2>3. FrontLen = 0
      BY <2>2 DEF FrontLen
    <2> QED BY <1>1, <2>3
  <1>2. CASE acc # <<>>
    <2>0. /\ m \in Nat /\ m > 0 /\ acc[1].kind \in Kinds[framing] /\ 1 \in 1..Len(acc)
          /\ \A i \in 1..Len(acc) : i <= m => acc[i].kind = acc[1].kind /\ acc[i].at = i
      BY <1>2, AccStarts
    <2> HIDE DEF m
    <2>1. CASE framing = "fixed"
      <3>1. acc[1].kind = "good"
        BY <2>0, <2>1 DEF Kinds
      <3>2. m = Size["good"] /\ FrontLen = FrontFixed
        BY <2>1, <3>1 DEF FrontLen, m
      <3> QED BY <1>0, <1>2, <3>2 DEF FrontFixed, m
    <2>2. CASE framing = "length"
      <3>1. FrontLen = IF Len(acc) < m THEN 0 ELSE m
        BY <1>2, <2>2 DEF FrontLen, FrontLength, m
      <3> QED BY <1>0, <1>2, <2>0, <3>1 DEF m
    <2>3. CASE framing \in {"line", "xml"}
      <3>1. FrontLen = IF ends = {} THEN 0 ELSE CHOOSE i \in ends : \A j \in ends : i <= j
        BY <2>3 DEF FrontLen, FrontDelimited
      <3>2. ASSUME NEW i \in 1..Len(acc), i <= m
            PROVE  IsLast(acc[i]) <=> i = m
        BY <2>0, <3>2 DEF IsLast, m
      <3>3. CASE Len(acc) < m
        <4>1. ends = {}
          <5>1. \A i \in 1..Len(acc) : i <= m /\ i # m
            BY <1>0, <2>0, <3>3
          <5>2. \A i \in 1..Len(acc) : ~IsLast(acc[i])
            BY <3>2, <5>1
          <5> QED BY <1>0, <5>2
        <4> QED BY <1>2, <3>1, <3>3, <4>1 DEF m
      <3>4. CASE m <= Len(acc)
        <4>1. m \in 1..Len(acc)
          BY <1>0, <2>0, <3>4
        <4>2. m \in ends /\ \A j \in ends : j \in Nat /\ m <= j
          <5>1. m \in ends
            BY <2>0, <3>2, <4>1
          <5>2. ASSUME NEW j \in ends
                PROVE  j \in Nat /\ m <= j
            <6>1. j \in 1..Len(acc) /\ j \in Nat /\ IsLast(acc[j])
              BY <1>0
            <6>2. j < m => FALSE
              <7>1. j < m => ~IsLast(acc[j])
                <8> SUFFICES ASSUME j < m PROVE ~IsLast(acc[j])
                  OBVIOUS
                <8>1. j <= m /\ j # m
                  BY <2>0, <6>1
                <8> QED BY <3>2, <6>1, <8>1
              <7> QED BY <6>1, <7>1
            <6> QED BY <2>0, <6>1, <6>2
          <5> QED BY <5>1, <5>2
        <4>3. ends # {}
          BY <4>2
        <4> HIDE DEF ends
        <4>4. FrontLen = CHOOSE i \in ends : \A j \in ends : i <= j
          BY <3>1, <4>3
        <4>5. FrontLen \in ends /\ \A j \in ends : FrontLen <= j
          BY <4>2, <4>4
        <4>6. FrontLen = m
          BY <2>0, <4>2, <4>5
        <4> QED BY <1>2, <2>0, <4>6 DEF m
      <3> QED BY <1>0, <2>0, <3>3, <3>4
    <2> QED BY <2>1, <2>2, <2>3 DEF Framing
  <1> QED BY <1>1, <1>2

-----------------------------------------------------------------------------
(* The inductive invariant: what NoForgedReading and UsableMessagesKept    *)
(* leave unsaid is that the accumulator and the line together are a stream *)
(* of whole messages until a byte is lost, and that WaitsForRest can only  *)
(* fail behind a message the decoder refuses.                              *)

Refused == acc # <<>> /\ acc[1].kind \in {"short", "bad"}

RestOrRefused ==
    ~draining /\ ~torn /\ acc # <<>>
      => \/ \A i \in DOMAIN acc : acc[i].id = acc[1].id /\ ~IsLast(acc[i])
         \/ acc[1].kind \in {"short", "bad"}

Below(s, n) == \A i \in 1..Len(s) : s[i].id \in 1..n

FramingInv ==
    /\ FramingTypeOK
    /\ Below(acc, sent) /\ Below(wire, sent) /\ Below(reading, sent)
    /\ torn => carrier = "SERIAL" /\ losses > 0
    /\ ~torn => Stream(acc \o wire, framing) /\ due = Held(acc \o wire)
    /\ ~torn /\ reading # NoReading => \A d \in due : reading[1].id < d
    /\ NoForgedReading
    /\ RestOrRefused

LEMMA FramingInitHolds == FramingInit => FramingInv
  <1> SUFFICES ASSUME FramingInit PROVE FramingInv
    OBVIOUS
  <1>1. FramingTypeOK
    <2>1. <<>> \in Seq(Unit) /\ 0 \in 0..MaxMessages /\ 0 \in 0..MaxLoss /\ {} \subseteq 1..0
      BY FramingsAssumption
    <2> QED BY <2>1 DEF FramingInit, FramingTypeOK, NoReading
  <1>2. acc = <<>> /\ wire = <<>> /\ reading = <<>> /\ due = {} /\ torn = FALSE
    BY DEF FramingInit, NoReading
  <1>3. acc \o wire = <<>> /\ Len(<<>>) = 0
    BY <1>2
  <1>4. Stream(<<>>, framing) /\ Held(<<>>) = {}
    BY <1>3 DEF Stream, Units, Ends, Follows, Grows, Held
  <1>5. Below(<<>>, sent)
    BY <1>3 DEF Below
  <1> QED BY <1>1, <1>2, <1>3, <1>4, <1>5
          DEF FramingInv, NoReading, NoForgedReading, RestOrRefused

\* The invariant after a step, in the variables after it.
LEMMA StreamAfter ==
    /\ Stream(acc \o wire, framing)' <=> Stream(acc' \o wire', framing')
    /\ Held(acc \o wire)' = Held(acc' \o wire')
    /\ Below(acc, sent)' <=> Below(acc', sent')
    /\ Below(wire, sent)' <=> Below(wire', sent')
    /\ Below(reading, sent)' <=> Below(reading', sent')
  BY DEF Stream, Units, Ends, Follows, Grows, Held, Below

LEMMA BelowStep ==
    ASSUME NEW s, NEW n \in Nat, Below(s, n)
    PROVE  Below(s, n + 1)
  <1> SUFFICES ASSUME NEW i \in 1..Len(s) PROVE s[i].id \in 1..(n + 1)
    BY DEF Below
  <1>1. s[i].id \in 1..n
    BY DEF Below
  <1> QED BY <1>1

LEMMA SendKeeps ==
    ASSUME FramingInv, NEW kind \in Kinds[framing], Send(kind)
    PROVE  FramingInv'
  <1> DEFINE s == acc \o wire
             M == Message(sent + 1, kind)
             t == acc \o (wire \o M)
  <1>1. /\ framing \in Framing /\ wire \in Seq(Unit) /\ acc \in Seq(Unit) /\ sent \in Nat
        /\ sent + 1 \in Nat /\ due \subseteq 1..sent /\ kind \in Kind /\ sent + 1 \in 0..MaxMessages
    BY KindsAreKinds, FramingsAssumption DEF FramingInv, FramingTypeOK, Send
  <1>2. /\ sent' = sent + 1 /\ wire' = wire \o M
        /\ due' = IF kind = "good" THEN due \cup {sent + 1} ELSE due
        /\ UNCHANGED <<framing, carrier, acc, draining, reading, torn, losses>>
    BY DEF Send
  <1>3. /\ M \in Seq(Unit) /\ Len(M) = Size[kind]
        /\ \A k \in 1..Size[kind] : M[k] = [id |-> sent + 1, kind |-> kind, at |-> k]
    BY <1>1, MessageUnits
  <1> HIDE DEF M
  <1>4. wire \o M \in Seq(Unit)
    BY <1>1, <1>3
  <1>5. FramingTypeOK'
    <2>1. due' \subseteq 1..(sent + 1)
      BY <1>1, <1>2
    <2> QED BY <1>1, <1>2, <1>4, <2>1 DEF FramingInv, FramingTypeOK
  <1>6. Below(wire \o M, sent + 1)
    <2> SUFFICES ASSUME NEW i \in 1..Len(wire \o M)
                 PROVE  (wire \o M)[i].id \in 1..(sent + 1)
      BY DEF Below
    <2>1. CASE i <= Len(wire)
      <3>1. (wire \o M)[i] = wire[i] /\ i \in 1..Len(wire)
        BY <1>1, <1>3, <2>1
      <3>2. wire[i].id \in 1..sent
        BY <3>1 DEF FramingInv, Below
      <3> QED BY <1>1, <3>1, <3>2
    <2>2. CASE i > Len(wire)
      <3>1. (wire \o M)[i] = M[i - Len(wire)] /\ i - Len(wire) \in 1..Size[kind]
        BY <1>1, <1>3, <2>2
      <3>2. M[i - Len(wire)].id = sent + 1
        <4> DEFINE j == i - Len(wire)
        <4>1. j \in 1..Size[kind]
          BY <3>1
        <4> HIDE DEF j
        <4>2. M[j] = [id |-> sent + 1, kind |-> kind, at |-> j]
          BY <1>3, <4>1
        <4>3. M[j].id = sent + 1
          BY <4>2
        <4> QED BY <4>3 DEF j
      <3>3. sent + 1 \in 1..(sent + 1)
        BY <1>1
      <3> QED BY <3>1, <3>2, <3>3
    <2> QED BY <1>1, <2>1, <2>2
  <1>7. Below(acc, sent + 1) /\ Below(reading, sent + 1)
    BY <1>1, BelowStep DEF FramingInv
  <1>8. ASSUME ~torn
        PROVE  Stream(t, framing) /\ due' = Held(t)
    <2>1. Stream(s, framing) /\ due = Held(s)
      BY <1>8 DEF FramingInv
    <2>2. /\ s \in Seq(Unit) /\ Len(s) = Len(acc) + Len(wire) /\ Len(acc) \in Nat /\ Len(wire) \in Nat
          /\ \A k \in 1..Len(acc) : s[k] = acc[k]
          /\ \A k \in 1..Len(wire) : s[Len(acc) + k] = wire[k]
      BY <1>1, Joined
    <2>3. t = s \o M
      BY <1>1, <1>3, SMTT(30)
    <2>4. \A i \in 1..Len(s) : s[i].id < sent + 1
      <3> SUFFICES ASSUME NEW i \in 1..Len(s) PROVE s[i].id \in 1..sent
        BY <1>1
      <3>1. CASE i <= Len(acc)
        <4>1. i \in 1..Len(acc)
          BY <2>2, <3>1
        <4>2. acc[i].id \in 1..sent
          BY <4>1 DEF FramingInv, Below
        <4> QED BY <2>2, <4>1, <4>2
      <3>2. CASE i > Len(acc)
        <4>1. i - Len(acc) \in 1..Len(wire) /\ Len(acc) + (i - Len(acc)) = i
          BY <2>2, <3>2
        <4>2. wire[i - Len(acc)].id \in 1..sent
          BY <4>1 DEF FramingInv, Below
        <4>3. s[Len(acc) + (i - Len(acc))] = wire[i - Len(acc)]
          BY <2>2, <4>1
        <4> QED BY <4>1, <4>2, <4>3
      <3> QED BY <2>2, <3>1, <3>2
    <2> HIDE DEF s, t
    <2>5. /\ t \in Seq(Unit) /\ Len(t) = Len(s) + Size[kind]
          /\ \A k \in 1..Len(s) : t[k] = s[k]
          /\ \A k \in 1..Size[kind] : t[Len(s) + k] = M[k]
      <3>1. /\ s \o M \in Seq(Unit) /\ Len(s \o M) = Len(s) + Len(M)
            /\ \A k \in 1..Len(s) : (s \o M)[k] = s[k]
            /\ \A k \in 1..Len(M) : (s \o M)[Len(s) + k] = M[k]
        BY <1>3, <2>2, Joined
      <3> QED BY <1>3, <2>3, <3>1
    <2>6. \A k \in 1..Size[kind] :
             t[Len(s) + k] = [id |-> sent + 1, kind |-> kind, at |-> k]
      BY <1>3, <2>5
    <2>7. /\ Stream(t, framing)
          /\ Held(t) = IF kind = "good" THEN Held(s) \cup {sent + 1} ELSE Held(s)
      <3> DEFINE id == sent + 1
      <3>1. /\ id \in Nat /\ \A i \in 1..Len(s) : s[i].id < id
            /\ \A k \in 1..Size[kind] :
                  t[Len(s) + k] = [id |-> id, kind |-> kind, at |-> k]
        BY <1>1, <2>4, <2>6
      <3>2. /\ s \in Seq(Unit) /\ framing \in Framing /\ Stream(s, framing)
            /\ t \in Seq(Unit) /\ Len(t) = Len(s) + Size[kind]
            /\ \A k \in 1..Len(s) : t[k] = s[k]
        BY <1>1, <2>1, <2>2, <2>5
      <3> HIDE DEF id
      <3>3. /\ Stream(t, framing)
            /\ Held(t) = IF kind = "good" THEN Held(s) \cup {id} ELSE Held(s)
        BY ONLY <3>1, <3>2, kind \in Kinds[framing], StreamWith
      <3> QED BY <3>3 DEF id
    <2> QED BY <1>2, <2>1, <2>7
  <1>9. ASSUME ~torn, reading # NoReading, NEW d \in due'
        PROVE  reading[1].id < d
    <2>1. CASE d \in due
      BY <1>9, <2>1 DEF FramingInv
    <2>2. CASE d = sent + 1
      <3>1. reading \in Seq(Unit) /\ reading # <<>>
        BY <1>9 DEF FramingInv, FramingTypeOK, NoReading
      <3>2. 1 \in 1..Len(reading)
        BY <3>1
      <3>3. reading[1].id \in 1..sent
        BY <3>2 DEF FramingInv, Below
      <3> QED BY <1>1, <2>2, <3>3
    <2> QED BY <1>2, <1>9, <2>1, <2>2
  <1>10. NoForgedReading' /\ RestOrRefused'
    BY <1>2 DEF FramingInv, NoForgedReading, RestOrRefused
  <1>11. torn' => carrier' = "SERIAL" /\ losses' > 0
    BY <1>2 DEF FramingInv
  <1>12. Below(acc, sent)' /\ Below(wire, sent)' /\ Below(reading, sent)'
    BY <1>2, <1>6, <1>7, StreamAfter
  <1>13. ~torn' => Stream(acc \o wire, framing)' /\ due' = Held(acc \o wire)'
    <2>1. acc' \o wire' = t /\ framing' = framing /\ torn' = torn
      BY <1>2
    <2> HIDE DEF t
    <2> QED BY <1>8, <2>1, StreamAfter
  <1>14. ~torn' /\ reading' # NoReading => \A d \in due' : reading'[1].id < d
    BY <1>2, <1>9 DEF NoReading
  <1> QED BY <1>5, <1>10, <1>11, <1>12, <1>13, <1>14 DEF FramingInv

\* What a handler takes out of a sequence leaves numbers of the robot's.
LEMMA BelowPiece ==
    ASSUME NEW n \in Nat, NEW s, NEW t, Below(s, n),
           \A k \in 1..Len(t) : \E i \in 1..Len(s) : t[k] = s[i]
    PROVE  Below(t, n)
  BY DEF Below

LEMMA LoseByteKeeps ==
    ASSUME FramingInv, NEW i \in DOMAIN wire, LoseByte(i)
    PROVE  FramingInv'
  <1>1. /\ wire \in Seq(Unit) /\ sent \in Nat /\ losses \in Nat /\ i \in 1..Len(wire)
        /\ losses + 1 \in 0..MaxLoss /\ losses + 1 > 0 /\ Len(wire) \in Nat
    BY FramingsAssumption DEF FramingInv, FramingTypeOK, LoseByte
  <1>2. /\ wire' = Without(wire, i, 1) /\ losses' = losses + 1 /\ torn' = TRUE
        /\ carrier = "SERIAL" /\ carrier' = carrier
        /\ UNCHANGED <<framing, acc, draining, reading, due, sent>>
    BY DEF LoseByte
  <1>3. /\ Without(wire, i, 1) \in Seq(Unit) /\ Len(Without(wire, i, 1)) = Len(wire) - 1
        /\ \A k \in 1..(Len(wire) - 1) :
              Without(wire, i, 1)[k] = IF k < i THEN wire[k] ELSE wire[k + 1]
    <2>1. 1 \in Nat /\ i + 1 - 1 <= Len(wire)
      BY <1>1
    <2> QED BY <1>1, <2>1, WithoutUnits
  <1>4. Below(wire', sent)
    <2>1. ASSUME NEW k \in 1..Len(wire')
          PROVE  \E j \in 1..Len(wire) : wire'[k] = wire[j]
      <3>1. k \in 1..Len(wire) /\ k + 1 \in 1..Len(wire) /\ k \in 1..(Len(wire) - 1)
        BY <1>1, <1>2, <1>3
      <3> QED BY <1>2, <1>3, <3>1
    <2> QED BY <1>1, <2>1, BelowPiece DEF FramingInv
  <1>5. FramingTypeOK'
    BY <1>1, <1>2, <1>3 DEF FramingInv, FramingTypeOK
  <1>6. Below(acc, sent)' /\ Below(wire, sent)' /\ Below(reading, sent)'
    BY <1>2, <1>4, StreamAfter DEF FramingInv
  <1>7. NoForgedReading' /\ RestOrRefused'
    BY <1>1, <1>2 DEF NoForgedReading, RestOrRefused
  <1> QED BY <1>1, <1>2, <1>5, <1>6, <1>7 DEF FramingInv

LEMMA LoseDatagramKeeps ==
    ASSUME FramingInv, NEW i \in DOMAIN wire, LoseDatagram(i)
    PROVE  FramingInv'
  <1> DEFINE s == acc \o wire
             m == Size[wire[i].kind]
             p == Len(acc) + i
             w == Without(wire, i, m)
             t == acc \o w
  <1>1. /\ framing \in Framing /\ wire \in Seq(Unit) /\ acc \in Seq(Unit)
        /\ sent \in Nat /\ losses \in Nat /\ i \in 1..Len(wire)
        /\ losses + 1 \in 0..MaxLoss /\ Len(wire) \in Nat /\ Len(acc) \in Nat
        /\ due \subseteq 1..sent
    BY FramingsAssumption DEF FramingInv, FramingTypeOK, LoseDatagram
  <1>2. /\ wire' = w /\ losses' = losses + 1 /\ due' = due \ {wire[i].id}
        /\ wire[i].at = 1 /\ carrier = "UDP"
        /\ UNCHANGED <<framing, carrier, acc, draining, reading, torn, sent>>
    BY DEF LoseDatagram
  <1>3. ~torn /\ Stream(s, framing) /\ due = Held(s)
    BY <1>2 DEF FramingInv
  <1>4. /\ s \in Seq(Unit) /\ Len(s) = Len(acc) + Len(wire)
        /\ \A k \in 1..Len(acc) : s[k] = acc[k]
        /\ \A k \in 1..Len(wire) : s[Len(acc) + k] = wire[k]
    BY <1>1, Joined
  <1>5. p \in 1..Len(s) /\ s[p] = wire[i] /\ m \in Nat
    BY <1>1, <1>4, UnitFields
  <1> HIDE DEF s, w
  <1>6. i + m - 1 <= Len(wire)
    <2>1. p + Size[s[p].kind] - 1 <= Len(s)
      <3> HIDE DEF p
      <3> QED BY <1>2, <1>3, <1>4, <1>5, Apart
    <2>2. Size[s[p].kind] = m
      BY <1>5
    <2> HIDE DEF m
    <2> QED BY <1>1, <1>4, <1>5, <2>1, <2>2
  <1>7. /\ w \in Seq(Unit) /\ Len(w) = Len(wire) - m
        /\ \A k \in 1..(Len(wire) - m) : w[k] = IF k < i THEN wire[k] ELSE wire[k + m]
    BY <1>1, <1>5, <1>6, WithoutUnits DEF w
  <1>8. /\ t \in Seq(Unit) /\ Len(t) = Len(acc) + Len(w)
        /\ \A k \in 1..Len(acc) : t[k] = acc[k]
        /\ \A k \in 1..Len(w) : t[Len(acc) + k] = w[k]
    BY <1>1, <1>7, Joined
  <1> HIDE DEF m, t
  <1>9. Len(t) = Len(s) - m
    BY <1>1, <1>4, <1>5, <1>7, <1>8
  <1>10. ASSUME NEW k \in 1..Len(t)
         PROVE  t[k] = IF k < p THEN s[k] ELSE s[k + m]
    <2>1. CASE k <= Len(acc)
      <3>1. k \in 1..Len(acc) /\ k < p
        BY <1>1, <2>1
      <3> QED BY <1>4, <1>8, <3>1
    <2>2. CASE k > Len(acc)
      <3> DEFINE j == k - Len(acc)
      <3>1. j \in 1..Len(w) /\ j \in 1..(Len(wire) - m) /\ Len(acc) + j = k /\ j \in Nat
        BY <1>1, <1>4, <1>5, <1>7, <1>8, <2>2
      <3>2. k < p <=> j < i
        BY <1>1
      <3>3. Len(acc) + (j + m) = k + m
        BY <1>1, <1>5
      <3>4. t[k] = w[j]
        <4> HIDE DEF j
        <4> QED BY <1>8, <3>1
      <3>5. CASE j < i
        <4>1. j \in 1..Len(wire)
          BY <1>1, <3>1, <3>5
        <4> HIDE DEF j
        <4>2. w[j] = wire[j] /\ s[k] = wire[j]
          BY <1>4, <1>7, <3>1, <3>5, <4>1
        <4> QED BY <3>2, <3>4, <3>5, <4>2
      <3>6. CASE j >= i
        <4>1. j + m \in 1..Len(wire) /\ ~(j < i)
          <5>1. j \in Nat /\ j \in 1..(Len(wire) - m) /\ j >= i /\ i \in Nat
            BY <1>1, <3>1, <3>6
          <5> HIDE DEF j
          <5> QED BY ONLY <1>1, <1>5, <5>1
        <4> HIDE DEF j
        <4>2. w[j] = wire[j + m] /\ s[k + m] = wire[j + m]
          BY <1>4, <1>7, <3>1, <3>3, <4>1
        <4> QED BY <3>2, <3>4, <4>1, <4>2
      <3> QED BY <1>1, <3>1, <3>5, <3>6
    <2> QED BY <1>1, <2>1, <2>2
  <1> HIDE DEF p
  <1>11. Stream(t, framing) /\ Held(t) = Held(s) \ {s[p].id}
    <2>1. Size[s[p].kind] = m /\ s[p].at = 1
      BY <1>2, <1>5 DEF m
    <2>2. /\ Len(t) = Len(s) - Size[s[p].kind]
          /\ \A k \in 1..Len(t) : t[k] = IF k < p THEN s[k] ELSE s[k + Size[s[p].kind]]
      BY <1>9, <1>10, <2>1
    <2>3. p \in 1..Len(s) /\ s \in Seq(Unit) /\ t \in Seq(Unit) /\ Stream(s, framing)
      BY <1>3, <1>4, <1>5, <1>8
    <2> QED BY ONLY <2>1, <2>2, <2>3, StreamWithout
  <1>12. due' = Held(t)
    BY <1>2, <1>3, <1>5, <1>11
  <1>13. Below(wire', sent)
    <2>1. ASSUME NEW k \in 1..Len(wire')
          PROVE  \E j \in 1..Len(wire) : wire'[k] = wire[j]
      <3>1. k \in 1..Len(wire) /\ k \in 1..(Len(wire) - m) /\ (k >= i => k + m \in 1..Len(wire))
        BY <1>1, <1>2, <1>5, <1>7
      <3>2. CASE k < i
        BY <1>2, <1>7, <3>1, <3>2
      <3>3. CASE k >= i
        <4>1. ~(k < i) /\ k + m \in 1..Len(wire)
          BY <1>1, <3>1, <3>3
        <4> QED BY <1>2, <1>7, <3>1, <4>1
      <3> QED BY <1>1, <3>2, <3>3
    <2> QED BY <1>1, <2>1, BelowPiece DEF FramingInv
  <1>14. FramingTypeOK'
    BY <1>1, <1>2, <1>7 DEF FramingInv, FramingTypeOK
  <1>15. Below(acc, sent)' /\ Below(wire, sent)' /\ Below(reading, sent)'
    BY <1>2, <1>13, StreamAfter DEF FramingInv
  <1>16. NoForgedReading' /\ RestOrRefused'
    <2>1. losses > 0 => losses' > 0
      BY <1>1, <1>2
    <2> QED BY <1>2, <2>1 DEF FramingInv, NoForgedReading, RestOrRefused
  <1>17. Stream(acc \o wire, framing)' /\ due' = Held(acc \o wire)'
    <2>1. acc' \o wire' = t /\ framing' = framing
      BY <1>2 DEF t
    <2> QED BY <1>11, <1>12, <2>1, StreamAfter
  <1>18. ~torn' /\ reading' # NoReading => \A d \in due' : reading'[1].id < d
    BY <1>2 DEF FramingInv, NoReading
  <1> QED BY <1>2, <1>3, <1>14, <1>15, <1>16, <1>17, <1>18 DEF FramingInv

LEMMA ReconnectKeeps ==
    ASSUME FramingInv, NEW from \in 1..(Len(wire) + 1), Reconnect(from)
    PROVE  FramingInv'
  <1> DEFINE s == acc \o wire
             t == wire'
             n == from - 1
  <1>1. /\ framing \in Framing /\ wire \in Seq(Unit) /\ acc \in Seq(Unit)
        /\ sent \in Nat /\ losses \in Nat /\ losses + 1 \in 0..MaxLoss
        /\ Len(wire) \in Nat /\ Len(acc) \in Nat /\ due \subseteq 1..sent
        /\ n \in 0..Len(wire) /\ n + 1 = from
    BY FramingsAssumption DEF FramingInv, FramingTypeOK, Reconnect
  <1>2. /\ acc' = <<>> /\ losses' = losses + 1
        /\ wire' = IF carrier = "SERIAL" THEN SubSeq(wire, n + 1, Len(wire)) ELSE <<>>
        /\ torn' = (wire' # <<>> /\ (torn \/ wire'[1].at # 1))
        /\ due' = {d \in due : \E i \in DOMAIN wire' : wire'[i] = Message(d, "good")[1]}
        /\ UNCHANGED <<framing, carrier, draining, reading, sent>>
    BY <1>1 DEF Reconnect
  <1>3. /\ t \in Seq(Unit) /\ Len(t) \in Nat
        /\ \A k \in 1..Len(t) : /\ n + k \in 1..Len(wire) /\ t[k] = wire[n + k]
                                /\ Len(t) = Len(wire) - n
    <2>1. CASE carrier = "SERIAL"
      <3>1. t = SubSeq(wire, n + 1, Len(wire))
        BY <1>2, <2>1
      <3>2. /\ t \in Seq(Unit) /\ Len(t) = Len(wire) - n
            /\ \A k \in 1..(Len(wire) - n) : t[k] = wire[n + k]
        BY <1>1, <3>1, Pieces
      <3> HIDE DEF n
      <3> QED BY <1>1, <3>2
    <2>2. CASE carrier # "SERIAL"
      <3>1. t = <<>>
        BY <1>2, <2>2
      <3> QED BY <3>1
    <2> QED BY <2>1, <2>2
  <1>4. DOMAIN wire' = 1..Len(t)
    BY <1>3
  <1>5. due' = {d \in due : \E i \in 1..Len(t) : /\ t[i].id = d /\ t[i].kind = "good"
                                                 /\ t[i].at = 1}
    <2>1. ASSUME NEW d \in due, NEW i \in 1..Len(t)
          PROVE  wire'[i] = Message(d, "good")[1]
                    <=> t[i].id = d /\ t[i].kind = "good" /\ t[i].at = 1
      <3>1. d \in Nat /\ "good" \in Kind
        <4>1. "good" \in Kind
          BY DEF Kind
        <4>2. d \in Nat
          BY <1>1
        <4> QED BY <4>1, <4>2
      <3>2. 1 \in 1..Size["good"]
        BY <3>1, Sizes
      <3>3. Message(d, "good")[1] = [id |-> d, kind |-> "good", at |-> 1]
        BY <3>1, <3>2, MessageUnits, SMTT(30)
      <3>4. t[i] \in Unit
        BY <1>3
      <3> QED BY <3>3, <3>4 DEF Unit
    <2>2. due' = {d \in due : \E i \in 1..Len(t) : wire'[i] = Message(d, "good")[1]}
      BY <1>2, <1>4
    <2> QED BY ONLY <2>1, <2>2
  <1>6. Below(wire', sent)
    <2>1. \A k \in 1..Len(wire') : \E j \in 1..Len(wire) : wire'[k] = wire[j]
      <3> HIDE DEF n
      <3> QED BY <1>3
    <2> QED BY <1>1, <2>1, BelowPiece DEF FramingInv
  <1>7. Below(acc', sent)
    <2>1. Len(<<>>) = 0
      OBVIOUS
    <2> QED BY <1>2, <2>1 DEF Below
  <1>8. FramingTypeOK'
    <2>1. due' \subseteq 1..sent /\ acc' \in Seq(Unit)
      <3>1. due' \subseteq due
        BY <1>5
      <3>2. acc' = <<>>
        BY <1>2
      <3> QED BY ONLY <1>1, <3>1, <3>2
    <2>2. torn' \in BOOLEAN
      BY <1>2, Zenon
    <2> QED BY <1>1, <1>2, <1>3, <2>1, <2>2 DEF FramingInv, FramingTypeOK
  <1>9. Below(acc, sent)' /\ Below(wire, sent)' /\ Below(reading, sent)'
    BY <1>2, <1>6, <1>7, StreamAfter DEF FramingInv
  <1>10. torn' => carrier' = "SERIAL" /\ losses' > 0
    <2>1. torn' => wire' # <<>>
      BY <1>2, Zenon
    <2>2. wire' # <<>> => carrier = "SERIAL"
      BY <1>2
    <2> QED BY <1>1, <1>2, <2>1, <2>2
  <1>11. ASSUME ~torn'
         PROVE  Stream(t, framing) /\ due' = Held(t)
    <2>1. CASE t = <<>>
      <3>1. Len(t) = 0
        BY <2>1
      <3>2. Held(t) = {} /\ due' = {}
        BY <1>5, <3>1 DEF Held
      <3> QED BY <3>1, <3>2 DEF Stream, Units, Ends, Follows, Grows
    <2>2. CASE t # <<>>
      <3>1. ~torn /\ t[1].at = 1
        BY <1>2, <1>11, <2>2
      <3>2. Stream(s, framing) /\ due = Held(s)
        BY <3>1 DEF FramingInv
      <3>3. /\ s \in Seq(Unit) /\ Len(s) = Len(acc) + Len(wire)
            /\ \A k \in 1..Len(wire) : s[Len(acc) + k] = wire[k]
        BY <1>1, Joined
      <3>4. Len(t) > 0 /\ Len(t) = Len(wire) - n
        <4>1. Len(t) > 0
          BY <1>3, <2>2
        <4> HIDE DEF n
        <4> QED BY <1>3, <4>1
      <3> HIDE DEF s, n
      <3> DEFINE c == Len(acc) + n
      <3>5. c \in 0..Len(s) /\ Len(t) = Len(s) - c
        BY <1>1, <3>3, <3>4
      <3>6. ASSUME NEW k \in 1..Len(t)
            PROVE  t[k] = s[c + k]
        <4>1. n + k \in 1..Len(wire) /\ t[k] = wire[n + k]
          BY <1>3
        <4>2. s[Len(acc) + (n + k)] = wire[n + k]
          BY <3>3, <4>1
        <4>3. Len(acc) + (n + k) = c + k
          BY <1>1, <1>3
        <4> QED BY <4>1, <4>2, <4>3
      <3> HIDE DEF c
      <3>7. /\ Stream(t, framing)
            /\ \A d : d \in Held(t) <=>
                     /\ d \in Held(s)
                     /\ \E i \in 1..Len(t) : /\ t[i].id = d /\ t[i].kind = "good"
                                            /\ t[i].at = 1
        <4>1. Len(t) > 0 => t[1].at = 1
          BY <3>1
        <4>2. t \in Seq(Unit) /\ s \in Seq(Unit) /\ Stream(s, framing)
          BY <1>3, <3>2, <3>3
        <4>3. \A k \in 1..Len(t) : t[k] = s[c + k]
          BY <3>6
        <4> HIDE DEF t
        <4> QED BY ONLY <3>5, <4>1, <4>2, <4>3, StreamFrom
      <3>8. \A d : d \in due' <=>
                /\ d \in Held(s)
                /\ \E i \in 1..Len(t) : /\ t[i].id = d /\ t[i].kind = "good"
                                       /\ t[i].at = 1
        BY ONLY <1>5, <3>2
      <3> HIDE DEF t
      <3>9. due' = Held(t)
        BY ONLY <3>7, <3>8, Zenon
      <3> QED BY <3>7, <3>9
    <2> QED BY <2>1, <2>2
  <1>12. ~torn' => Stream(acc \o wire, framing)' /\ due' = Held(acc \o wire)'
    <2>1. acc' \o wire' = t /\ framing' = framing
      BY <1>2, <1>3
    <2> HIDE DEF t
    <2> QED BY <1>11, <2>1, StreamAfter
  <1>13. ASSUME ~torn', reading' # NoReading', NEW d \in due'
         PROVE  reading'[1].id < d
    <2>1. t # <<>>
      <3>1. DOMAIN <<>> = {}
        OBVIOUS
      <3> QED BY <1>2, <1>13, <3>1
    <2>2. ~torn /\ d \in due /\ reading # NoReading /\ reading' = reading
      BY <1>2, <1>13, <2>1 DEF NoReading
    <2> QED BY <2>2 DEF FramingInv
  <1>14. NoForgedReading' /\ RestOrRefused'
    <2>1. losses > 0 => losses' > 0
      BY <1>1, <1>2
    <2> QED BY <1>2, <2>1 DEF FramingInv, NoForgedReading, RestOrRefused, NoReading
  <1> QED BY <1>8, <1>9, <1>10, <1>12, <1>13, <1>14 DEF FramingInv

LEMMA ReadKeeps ==
    ASSUME FramingInv, NEW n \in DOMAIN wire, Read(n)
    PROVE  FramingInv'
  <1> DEFINE a == SubSeq(wire, 1, n)
             b == SubSeq(wire, n + 1, Len(wire))
  <1>1. /\ wire \in Seq(Unit) /\ acc \in Seq(Unit) /\ sent \in Nat /\ n \in 0..Len(wire)
    BY DEF FramingInv, FramingTypeOK
  <1>2. /\ acc' = acc \o a /\ wire' = b /\ draining' = TRUE
        /\ UNCHANGED <<framing, carrier, reading, due, torn, sent, losses>>
    BY DEF Read
  <1>3. /\ a \in Seq(Unit) /\ Len(a) = n /\ \A k \in 1..n : a[k] = wire[k]
        /\ b \in Seq(Unit) /\ Len(b) = Len(wire) - n
        /\ \A k \in 1..(Len(wire) - n) : b[k] = wire[n + k]
    BY <1>1, Pieces
  <1> HIDE DEF a, b
  <1>4. a \o b = wire
    <2>1. /\ a \o b \in Seq(Unit) /\ Len(a \o b) = Len(wire)
          /\ \A k \in 1..n : (a \o b)[k] = a[k]
          /\ \A k \in 1..(Len(wire) - n) : (a \o b)[n + k] = b[k]
      <3>1. /\ a \o b \in Seq(Unit) /\ Len(a \o b) = Len(a) + Len(b)
            /\ \A k \in 1..Len(a) : (a \o b)[k] = a[k]
            /\ \A k \in 1..Len(b) : (a \o b)[Len(a) + k] = b[k]
        BY <1>3, Joined
      <3>2. n + (Len(wire) - n) = Len(wire)
        BY <1>1
      <3> QED BY <1>3, <3>1, <3>2
    <2>2. ASSUME NEW i \in 1..Len(a \o b)
          PROVE  (a \o b)[i] = wire[i]
      <3>1. CASE i <= n
        <4>1. i \in 1..n
          BY <3>1
        <4> QED BY <1>3, <2>1, <4>1
      <3>2. CASE i > n
        <4> DEFINE k == i - n
        <4>1. k \in 1..(Len(wire) - n) /\ n + k = i
          BY <1>1, <2>1, <3>2
        <4> HIDE DEF k
        <4>2. (a \o b)[n + k] = b[k] /\ b[k] = wire[n + k]
          BY <1>3, <2>1, <4>1
        <4> QED BY <4>1, <4>2
      <3> QED BY <1>1, <3>1, <3>2
    <2> QED BY <1>1, <2>1, <2>2, SeqEqual
  <1>5. acc' \o wire' = acc \o wire
    <2>1. (acc \o a) \o b = acc \o (a \o b)
      <3>1. acc \in Seq(Unit) /\ a \in Seq(Unit) /\ b \in Seq(Unit)
        BY <1>1, <1>3
      <3> QED BY ONLY <3>1, ConcatAssociative
    <2> QED BY <1>2, <1>4, <2>1
  <1>6. Below(wire', sent) /\ Below(acc', sent)
    <2>1. ASSUME NEW k \in 1..Len(b)
          PROVE  \E j \in 1..Len(wire) : b[k] = wire[j]
      <3>1. k \in 1..(Len(wire) - n) /\ n + k \in 1..Len(wire)
        BY <1>1, <1>3
      <3> QED BY <1>3, <3>1
    <2>2. ASSUME NEW k \in 1..Len(acc \o a)
          PROVE  (acc \o a)[k].id \in 1..sent
      <3>1. /\ Len(acc \o a) = Len(acc) + n /\ Len(acc) \in Nat
            /\ \A j \in 1..Len(acc) : (acc \o a)[j] = acc[j]
            /\ \A j \in 1..n : (acc \o a)[Len(acc) + j] = a[j]
        <4>1. /\ Len(acc \o a) = Len(acc) + Len(a)
              /\ \A j \in 1..Len(acc) : (acc \o a)[j] = acc[j]
              /\ \A j \in 1..Len(a) : (acc \o a)[Len(acc) + j] = a[j]
          BY <1>1, <1>3, Joined
        <4> QED BY <1>1, <1>3, <4>1
      <3>2. CASE k <= Len(acc)
        <4>1. k \in 1..Len(acc)
          BY <3>1, <3>2
        <4> QED BY <3>1, <4>1 DEF FramingInv, Below
      <3>3. CASE k > Len(acc)
        <4> DEFINE j == k - Len(acc)
        <4>1. j \in 1..n /\ Len(acc) + j = k /\ j \in 1..Len(wire)
          BY <1>1, <3>1, <3>3
        <4> HIDE DEF j
        <4>2. (acc \o a)[k] = wire[j]
          BY <1>3, <3>1, <4>1
        <4> QED BY <4>1, <4>2 DEF FramingInv, Below
      <3> QED BY <3>1, <3>2, <3>3
    <2>3. Below(b, sent)
      BY <1>1, <2>1, BelowPiece DEF FramingInv
    <2> QED BY <1>2, <2>2, <2>3 DEF Below
  <1>7. FramingTypeOK'
    <2>1. acc \o a \in Seq(Unit)
      BY <1>1, <1>3
    <2> QED BY <1>2, <1>3, <2>1 DEF FramingInv, FramingTypeOK
  <1>8. Below(acc, sent)' /\ Below(wire, sent)' /\ Below(reading, sent)'
    BY <1>2, <1>6, StreamAfter DEF FramingInv
  <1>9. ~torn' => Stream(acc \o wire, framing)' /\ due' = Held(acc \o wire)'
    BY <1>2, <1>5, StreamAfter DEF FramingInv
  <1>10. NoForgedReading' /\ RestOrRefused'
    BY <1>2 DEF FramingInv, NoForgedReading, RestOrRefused, NoReading
  <1>11. ~torn' /\ reading' # NoReading => \A d \in due' : reading'[1].id < d
    BY <1>2 DEF FramingInv, NoReading
  <1>12. torn' => carrier' = "SERIAL" /\ losses' > 0
    BY <1>2 DEF FramingInv
  <1> QED BY <1>7, <1>8, <1>9, <1>10, <1>11, <1>12 DEF FramingInv

\* A turn of drain_frames takes the front message, all of it and no more.
LEMMA FrontTaken ==
    ASSUME FramingInv, ~torn, FrontLen > 0
    PROVE  LET t == SubSeq(acc, FrontLen + 1, Len(acc)) \o wire
           IN  /\ Stream(t, framing) /\ Held(t) = due \ {acc[1].id}
               /\ acc[1].kind # "good" => acc[1].id \notin due
               /\ \A d \in Held(t) : acc[1].id < d
               /\ FrontLen = Size[acc[1].kind] /\ acc[1].kind \in Kinds[framing]
               /\ \A k \in 1..FrontLen :
                     acc[k].id = acc[1].id /\ acc[k].kind = acc[1].kind /\ acc[k].at = k
  <1> DEFINE s == acc \o wire
             n == FrontLen
             a == SubSeq(acc, n + 1, Len(acc))
             t == a \o wire
  <1>1. /\ framing \in Framing /\ wire \in Seq(Unit) /\ acc \in Seq(Unit) /\ sent \in Nat
        /\ Stream(s, framing) /\ due = Held(s) /\ due \subseteq 1..sent
        /\ Len(acc) \in Nat /\ Len(wire) \in Nat
    BY FramingsAssumption DEF FramingInv, FramingTypeOK
  <1>2. /\ acc # <<>> /\ n = Size[acc[1].kind] /\ n \in 0..Len(acc) /\ n > 0
    BY <1>1, FrontIsMessage, FrontBound
  <1>3. /\ acc[1] = s[1] /\ 1 \in 1..Len(s) /\ acc[1].at = 1 /\ acc[1].kind \in Kinds[framing]
        /\ \A k \in 1..Len(acc) : k <= n =>
              acc[k].id = acc[1].id /\ acc[k].kind = acc[1].kind /\ acc[k].at = k
    BY <1>1, <1>2, AccStarts
  <1>4. \A k \in 1..n :
           acc[k].id = acc[1].id /\ acc[k].kind = acc[1].kind /\ acc[k].at = k
    <2> SUFFICES ASSUME NEW k \in 1..n
                 PROVE  acc[k].id = acc[1].id /\ acc[k].kind = acc[1].kind /\ acc[k].at = k
      OBVIOUS
    <2>1. k \in 1..Len(acc) /\ k <= n
      BY <1>1, <1>2
    <2> QED BY <1>3, <2>1
  <1> HIDE DEF n
  <1>5. /\ s \in Seq(Unit) /\ Len(s) = Len(acc) + Len(wire)
        /\ \A k \in 1..Len(acc) : s[k] = acc[k]
        /\ \A k \in 1..Len(wire) : s[Len(acc) + k] = wire[k]
    BY <1>1, Joined
  <1>6. /\ a \in Seq(Unit) /\ Len(a) = Len(acc) - n
        /\ \A k \in 1..(Len(acc) - n) : a[k] = acc[n + k]
    BY <1>1, <1>2, Pieces
  <1> HIDE DEF a, s
  <1>7. /\ t \in Seq(Unit) /\ Len(t) = Len(a) + Len(wire)
        /\ \A k \in 1..Len(a) : t[k] = a[k]
        /\ \A k \in 1..Len(wire) : t[Len(a) + k] = wire[k]
    BY <1>1, <1>6, Joined
  <1> HIDE DEF t
  <1>13. /\ Len(a) \in Nat /\ Len(acc) \in Nat /\ Len(wire) \in Nat /\ n \in Nat
         /\ Len(acc) = Len(a) + n /\ Len(t) = Len(a) + Len(wire)
    <2>1. n \in Nat /\ n <= Len(acc)
      BY <1>1, <1>2
    <2> QED BY ONLY <1>1, <1>6, <1>7, <2>1
  <1>8. ASSUME NEW k \in 1..Len(t)
        PROVE  t[k] = s[k + n] /\ ~(k < 1)
    <2>0. k \in Nat /\ k >= 1 /\ k <= Len(a) + Len(wire)
      BY <1>13
    <2>1. CASE k <= Len(a)
      <3>1. k \in 1..Len(a) /\ n + k \in 1..Len(acc) /\ n + k = k + n /\ k \in 1..(Len(acc) - n)
        BY ONLY <1>13, <2>0, <2>1
      <3>2. t[k] = a[k] /\ a[k] = acc[n + k] /\ s[n + k] = acc[n + k]
        BY <1>5, <1>6, <1>7, <3>1
      <3> QED BY <3>1, <3>2
    <2>2. CASE k > Len(a)
      <3> DEFINE j == k - Len(a)
      <3>1. j \in 1..Len(wire) /\ Len(a) + j = k /\ Len(acc) + j = k + n
        BY ONLY <1>13, <2>0, <2>2
      <3> HIDE DEF j
      <3>2. t[Len(a) + j] = wire[j] /\ s[Len(acc) + j] = wire[j]
        BY <1>5, <1>7, <3>1
      <3> QED BY <3>1, <3>2
    <2> QED BY <1>1, <1>2, <1>6, <2>1, <2>2
  <1>9. /\ Stream(t, framing) /\ Held(t) = Held(s) \ {s[1].id}
        /\ s[1].kind # "good" => s[1].id \notin Held(s)
    <2> DEFINE p == 1
    <2>1. n = Size[s[p].kind] /\ s[p].at = 1 /\ p \in 1..Len(s)
      BY <1>2, <1>3
    <2>2. Len(t) = Len(s) - Size[s[p].kind]
      BY <1>1, <1>2, <1>5, <1>6, <1>7, <2>1
    <2>3. \A k \in 1..Len(t) : t[k] = IF k < p THEN s[k] ELSE s[k + Size[s[p].kind]]
      BY <1>8, <2>1
    <2>4. s \in Seq(Unit) /\ t \in Seq(Unit) /\ Stream(s, framing)
      BY <1>1, <1>5, <1>7
    <2> HIDE DEF p
    <2>5. /\ Stream(t, framing) /\ Held(t) = Held(s) \ {s[p].id}
          /\ s[p].kind # "good" => s[p].id \notin Held(s)
      BY ONLY <2>1, <2>2, <2>3, <2>4, StreamWithout
    <2> QED BY <2>5 DEF p
  <1>10. ASSUME NEW d \in Held(t)
         PROVE  s[1].id < d
    <2>1. d \in Held(s) /\ d # s[1].id
      BY <1>9, <1>10
    <2>2. PICK i \in 1..Len(s) : d = s[i].id
      BY <2>1 DEF Held
    <2>3. i >= 1 + n
      <3>1. CASE i < 1 + n
        <4>1. i \in 1..n /\ i \in 1..Len(acc)
          BY <1>1, <1>2, <1>5, <3>1
        <4>2. s[i].id = s[1].id
          BY <1>3, <1>4, <1>5, <4>1
        <4> QED BY <2>1, <2>2, <4>2
      <3> QED BY <1>1, <1>2, <3>1
    <2>4. s[1].at = 1 /\ Size[s[1].kind] = n
      BY <1>2, <1>3
    <2>5. i >= 1 + Size[s[1].kind] => s[1].id < s[i].id
      BY <1>1, <1>3, <1>5, <2>4, Apart
    <2> QED BY <2>2, <2>3, <2>4, <2>5
  <1>11. Held(t) = due \ {acc[1].id} /\ (acc[1].kind # "good" => acc[1].id \notin due)
    BY <1>1, <1>3, <1>9
  <1>12. \A d \in Held(t) : acc[1].id < d
    BY <1>3, <1>10
  <1> QED BY <1>2, <1>3, <1>4, <1>9, <1>11, <1>12 DEF n, t, a

LEMMA FrontKeepsBelow ==
    ASSUME FramingInv
    PROVE  /\ SubSeq(acc, FrontLen + 1, Len(acc)) \in Seq(Unit)
           /\ SubSeq(acc, 1, FrontLen) \in Seq(Unit)
           /\ Below(SubSeq(acc, FrontLen + 1, Len(acc)), sent)
           /\ Below(SubSeq(acc, 1, FrontLen), sent)
  <1> DEFINE n == FrontLen
             a == SubSeq(acc, n + 1, Len(acc))
             r == SubSeq(acc, 1, n)
  <1>1. /\ acc \in Seq(Unit) /\ sent \in Nat /\ Len(acc) \in Nat /\ framing \in Framing
        /\ Below(acc, sent)
    BY FramingsAssumption DEF FramingInv, FramingTypeOK
  <1>2. n \in 0..Len(acc)
    BY <1>1, FrontBound
  <1> HIDE DEF n
  <1>3. /\ a \in Seq(Unit) /\ Len(a) = Len(acc) - n
        /\ \A k \in 1..(Len(acc) - n) : a[k] = acc[n + k]
        /\ r \in Seq(Unit) /\ Len(r) = n /\ \A k \in 1..n : r[k] = acc[k]
    BY <1>1, <1>2, Pieces
  <1> HIDE DEF a, r
  <1>4. ASSUME NEW k \in 1..Len(a)
        PROVE  \E i \in 1..Len(acc) : a[k] = acc[i]
    <2>1. n + k \in 1..Len(acc) /\ k \in 1..(Len(acc) - n)
      BY <1>1, <1>2, <1>3
    <2> QED BY <1>3, <2>1
  <1>5. ASSUME NEW k \in 1..Len(r)
        PROVE  \E i \in 1..Len(acc) : r[k] = acc[i]
    <2>1. k \in 1..Len(acc) /\ k \in 1..n
      BY <1>1, <1>2, <1>3
    <2> QED BY <1>3, <2>1
  <1>6. Below(a, sent) /\ Below(r, sent)
    BY <1>1, <1>4, <1>5, BelowPiece
  <1> QED BY <1>3, <1>6 DEF n, a, r

LEMMA PublishKeeps ==
    ASSUME FramingInv, Publish
    PROVE  FramingInv'
  <1> DEFINE n == FrontLen
             a == SubSeq(acc, n + 1, Len(acc))
             r == SubSeq(acc, 1, n)
             t == a \o wire
  <1>1. /\ acc \in Seq(Unit) /\ sent \in Nat /\ Len(acc) \in Nat /\ framing \in Framing
        /\ due \subseteq 1..sent
    BY FramingsAssumption DEF FramingInv, FramingTypeOK
  <1>2. n \in 0..Len(acc) /\ n > 0 /\ n \in Nat
    BY <1>1, FrontBound DEF Publish
  <1>3. /\ reading' = r /\ acc' = a /\ due' = due \ {acc[1].id} /\ draining
        /\ ~Unusable(n) /\ ~Mute(n)
        /\ UNCHANGED <<framing, carrier, wire, draining, torn, sent, losses>>
    BY DEF Publish
  <1>4. a \in Seq(Unit) /\ r \in Seq(Unit) /\ Below(a, sent) /\ Below(r, sent)
    BY FrontKeepsBelow
  <1>5. FramingTypeOK'
    BY <1>1, <1>3, <1>4 DEF FramingInv, FramingTypeOK
  <1>6. Below(acc, sent)' /\ Below(wire, sent)' /\ Below(reading, sent)'
    BY <1>3, <1>4, StreamAfter DEF FramingInv
  <1>7. torn' => carrier' = "SERIAL" /\ losses' > 0
    BY <1>3 DEF FramingInv
  <1>8. Len(r) = n /\ (\A k \in 1..n : r[k] = acc[k]) /\ r[1] = acc[1]
    <2> HIDE DEF n
    <2>1. Len(r) = n /\ (\A k \in 1..n : r[k] = acc[k])
      BY <1>1, <1>2, Pieces
    <2>2. 1 \in 1..n
      BY <1>2
    <2> QED BY <2>1, <2>2
  <1>9. ASSUME ~torn
        PROVE  /\ Stream(t, framing) /\ due' = Held(t)
               /\ \A d \in due' : r[1].id < d
               /\ r = Message(r[1].id, "good")
    <2>1. /\ Stream(t, framing) /\ Held(t) = due \ {acc[1].id}
          /\ \A d \in Held(t) : acc[1].id < d
          /\ n = Size[acc[1].kind] /\ acc[1].kind \in Kinds[framing]
          /\ \A k \in 1..n :
                acc[k].id = acc[1].id /\ acc[k].kind = acc[1].kind /\ acc[k].at = k
      BY <1>2, <1>9, FrontTaken
    <2> HIDE DEF n, t, r, a
    <2>2. n \in 1..n /\ n \in 1..Len(acc) /\ 1 \in 1..Len(acc)
      BY <1>1, <1>2
    <2>3. acc[n].kind = acc[1].kind
      BY <2>1, <2>2
    <2>4. acc[1].kind = "good"
      <3>1. CASE framing = "fixed"
        BY <2>1, <3>1 DEF Kinds
      <3>2. CASE framing = "length"
        BY <1>3, <2>1, <3>2 DEF Kinds, Unusable
      <3>3. CASE framing = "line"
        BY <1>3, <2>1, <2>3, <3>3 DEF Kinds, Unusable, Mute
      <3>4. CASE framing = "xml"
        BY <1>3, <2>1, <2>3, <3>4 DEF Kinds, Mute
      <3> QED BY <1>1, <3>1, <3>2, <3>3, <3>4 DEF Framing
    <2>5. r = Message(r[1].id, "good")
      <3> DEFINE M == Message(r[1].id, "good")
      <3>1. r[1].id \in Nat /\ "good" \in Kind
        <4>1. "good" \in Kind
          BY DEF Kind
        <4>2. r[1].id \in Nat
          BY <1>1, <1>8, <2>2, UnitFields
        <4> QED BY <4>1, <4>2
      <3>2. /\ M \in Seq(Unit) /\ Len(M) = n
            /\ \A k \in 1..n : M[k] = [id |-> r[1].id, kind |-> "good", at |-> k]
        BY <2>1, <2>4, <3>1, MessageUnits, SMTT(30)
      <3>3. ASSUME NEW k \in 1..n
            PROVE  r[k] = M[k]
        <4>1. r[k] = acc[k] /\ k \in 1..Len(acc)
          BY <1>1, <1>2, <1>8
        <4>2. acc[k].id = r[1].id /\ acc[k].kind = "good" /\ acc[k].at = k
          BY <1>8, <2>1, <2>4
        <4>3. acc[k] \in Unit
          BY <1>1, <4>1, UnitFields
        <4>4. acc[k] = [id |-> r[1].id, kind |-> "good", at |-> k]
          BY <4>2, <4>3 DEF Unit
        <4> QED BY <3>2, <4>1, <4>4
      <3> HIDE DEF M
      <3>4. r = M
        BY <1>4, <1>8, <3>2, <3>3, SeqEqual
      <3> QED BY <3>4 DEF M
    <2> QED BY <1>3, <1>8, <2>1, <2>5
  <1>10. ~torn' => Stream(acc \o wire, framing)' /\ due' = Held(acc \o wire)'
    <2>1. acc' \o wire' = t /\ framing' = framing /\ torn' = torn
      BY <1>3
    <2> HIDE DEF t
    <2> QED BY <1>9, <2>1, StreamAfter
  <1>11. ~torn' /\ reading' # NoReading => \A d \in due' : reading'[1].id < d
    BY <1>3, <1>9
  <1>12. NoForgedReading'
    <2>1. CASE torn
      BY <1>3, <2>1 DEF FramingInv, NoForgedReading
    <2>2. CASE ~torn
      <3>1. reading' = Message(reading'[1].id, "good")
        BY <1>3, <1>9, <2>2
      <3> QED BY <3>1 DEF NoForgedReading, NoReading, Message
    <2> QED BY <2>1, <2>2
  <1>13. RestOrRefused'
    BY <1>3 DEF RestOrRefused
  <1> QED BY <1>5, <1>6, <1>7, <1>10, <1>11, <1>12, <1>13 DEF FramingInv

LEMMA SkipKeeps ==
    ASSUME FramingInv, Skip
    PROVE  FramingInv'
  <1> DEFINE n == FrontLen
             a == SubSeq(acc, n + 1, Len(acc))
             t == a \o wire
  <1>1. /\ acc \in Seq(Unit) /\ sent \in Nat /\ Len(acc) \in Nat /\ framing \in Framing
    BY FramingsAssumption DEF FramingInv, FramingTypeOK
  <1>2. n \in 0..Len(acc) /\ n > 0 /\ n \in Nat
    BY <1>1, FrontBound DEF Skip
  <1>3. /\ acc' = a /\ draining /\ Mute(n)
        /\ UNCHANGED <<framing, carrier, wire, draining, reading, due, torn, sent, losses>>
    BY DEF Skip
  <1>4. a \in Seq(Unit) /\ Below(a, sent)
    BY FrontKeepsBelow
  <1>5. FramingTypeOK'
    BY <1>3, <1>4 DEF FramingInv, FramingTypeOK
  <1>6. Below(acc, sent)' /\ Below(wire, sent)' /\ Below(reading, sent)'
    BY <1>3, <1>4, StreamAfter DEF FramingInv
  <1>7. ASSUME ~torn
        PROVE  Stream(t, framing) /\ due = Held(t)
    <2>1. /\ Stream(t, framing) /\ Held(t) = due \ {acc[1].id}
          /\ acc[1].kind # "good" => acc[1].id \notin due
          /\ \A k \in 1..n :
                acc[k].id = acc[1].id /\ acc[k].kind = acc[1].kind /\ acc[k].at = k
      BY <1>2, <1>7, FrontTaken
    <2> HIDE DEF n, t, a
    <2>2. n \in 1..n
      BY <1>2
    <2>3. acc[1].kind # "good"
      BY <1>3, <2>1, <2>2 DEF Mute
    <2> QED BY <2>1, <2>3
  <1>8. ~torn' => Stream(acc \o wire, framing)' /\ due' = Held(acc \o wire)'
    <2>1. acc' \o wire' = t /\ framing' = framing /\ torn' = torn /\ due' = due
      BY <1>3
    <2> HIDE DEF t
    <2> QED BY <1>7, <2>1, StreamAfter
  <1>9. NoForgedReading' /\ RestOrRefused'
    BY <1>3 DEF FramingInv, NoForgedReading, RestOrRefused, NoReading
  <1>10. ~torn' /\ reading' # NoReading => \A d \in due' : reading'[1].id < d
    BY <1>3 DEF FramingInv, NoReading
  <1>11. torn' => carrier' = "SERIAL" /\ losses' > 0
    BY <1>3 DEF FramingInv
  <1> QED BY <1>5, <1>6, <1>8, <1>9, <1>10, <1>11 DEF FramingInv

LEMMA StopKeeps ==
    ASSUME FramingInv, Stop
    PROVE  FramingInv'
  <1>1. /\ acc \in Seq(Unit) /\ wire \in Seq(Unit) /\ Len(acc) \in Nat /\ framing \in Framing
    BY DEF FramingInv, FramingTypeOK
  <1>2. /\ draining' = FALSE /\ (FrontLen > 0 => Unusable(FrontLen))
        /\ UNCHANGED <<framing, carrier, wire, acc, reading, due, torn, sent, losses>>
    BY DEF Stop
  <1>3. FramingTypeOK'
    BY <1>2 DEF FramingInv, FramingTypeOK
  <1>4. Below(acc, sent)' /\ Below(wire, sent)' /\ Below(reading, sent)'
    BY <1>2, StreamAfter DEF FramingInv
  <1>5. ~torn' => Stream(acc \o wire, framing)' /\ due' = Held(acc \o wire)'
    BY <1>2, StreamAfter DEF FramingInv
  <1>6. ASSUME ~torn, acc # <<>>
        PROVE  \/ \A i \in DOMAIN acc : acc[i].id = acc[1].id /\ ~IsLast(acc[i])
               \/ acc[1].kind \in {"short", "bad"}
    <2>0. Stream(acc \o wire, framing)
      BY <1>6 DEF FramingInv
    <2>1. CASE FrontLen > 0
      <3>1. Unusable(FrontLen)
        BY <1>2, <2>1
      <3>2. FrontLen \in 1..FrontLen
        BY <1>1, <2>1, FrontBound
      <3>3. acc[FrontLen].kind = acc[1].kind
        BY <1>6, <2>1, <3>2, FrontTaken
      <3> QED BY <3>1, <3>3 DEF Unusable
    <2>2. CASE ~(FrontLen > 0)
      <3>1. Len(acc) < Size[acc[1].kind]
        BY <1>1, <1>6, <2>0, <2>2, FrontIsMessage
      <3>2. /\ Size[acc[1].kind] \in Nat
            /\ \A i \in 1..Len(acc) : i <= Size[acc[1].kind] =>
                  acc[i].id = acc[1].id /\ acc[i].kind = acc[1].kind /\ acc[i].at = i
        BY <1>1, <1>6, <2>0, AccStarts
      <3>3. ASSUME NEW i \in DOMAIN acc
            PROVE  acc[i].id = acc[1].id /\ ~IsLast(acc[i])
        <4>1. i \in 1..Len(acc) /\ i \in Nat /\ i <= Len(acc)
          BY <1>1
        <4>2. i <= Size[acc[1].kind] /\ i # Size[acc[1].kind]
          BY <1>1, <3>1, <3>2, <4>1
        <4>3. acc[i].id = acc[1].id /\ acc[i].kind = acc[1].kind /\ acc[i].at = i
          BY <3>2, <4>1, <4>2
        <4> QED BY <4>2, <4>3 DEF IsLast
      <3> QED BY <3>3
    <2> QED BY <2>1, <2>2
  <1>7. RestOrRefused'
    BY <1>2, <1>6 DEF RestOrRefused, IsLast
  <1>8. NoForgedReading'
    BY <1>2 DEF FramingInv, NoForgedReading, NoReading
  <1>9. ~torn' /\ reading' # NoReading => \A d \in due' : reading'[1].id < d
    BY <1>2 DEF FramingInv, NoReading
  <1>10. torn' => carrier' = "SERIAL" /\ losses' > 0
    BY <1>2 DEF FramingInv
  <1> QED BY <1>3, <1>4, <1>5, <1>7, <1>8, <1>9, <1>10 DEF FramingInv

-----------------------------------------------------------------------------
LEMMA FramingStep == FramingInv /\ [FramingNext]_framing_vars => FramingInv'
  <1> SUFFICES ASSUME FramingInv, [FramingNext]_framing_vars
               PROVE  FramingInv'
    OBVIOUS
  <1>1. ASSUME NEW kind \in Kinds[framing], Send(kind) PROVE FramingInv'
    BY <1>1, SendKeeps
  <1>2. ASSUME NEW i \in DOMAIN wire, LoseByte(i) PROVE FramingInv'
    BY <1>2, LoseByteKeeps
  <1>3. ASSUME NEW i \in DOMAIN wire, LoseDatagram(i) PROVE FramingInv'
    BY <1>3, LoseDatagramKeeps
  <1>4. ASSUME NEW from \in 1..(Len(wire) + 1), Reconnect(from) PROVE FramingInv'
    BY <1>4, ReconnectKeeps
  <1>5. ASSUME NEW n \in DOMAIN wire, Read(n) PROVE FramingInv'
    BY <1>5, ReadKeeps
  <1>6. CASE Publish
    BY <1>6, PublishKeeps
  <1>7. CASE Skip
    BY <1>7, SkipKeeps
  <1>8. CASE Stop
    BY <1>8, StopKeeps
  <1>9. CASE UNCHANGED framing_vars
    <2>1. UNCHANGED <<framing, carrier, wire, acc, draining, reading, due, torn, sent, losses>>
      BY <1>9 DEF framing_vars
    <2>2. FramingTypeOK'
      BY <2>1 DEF FramingInv, FramingTypeOK
    <2>3. Below(acc, sent)' /\ Below(wire, sent)' /\ Below(reading, sent)'
      BY <2>1, StreamAfter DEF FramingInv
    <2>4. ~torn' => Stream(acc \o wire, framing)' /\ due' = Held(acc \o wire)'
      BY <2>1, StreamAfter DEF FramingInv
    <2>5. NoForgedReading' /\ RestOrRefused'
      BY <2>1 DEF FramingInv, NoForgedReading, RestOrRefused
    <2>6. ~torn' /\ reading' # NoReading => \A d \in due' : reading'[1].id < d
      BY <2>1 DEF FramingInv, NoReading
    <2>7. torn' => carrier' = "SERIAL" /\ losses' > 0
      BY <2>1 DEF FramingInv
    <2> QED BY <2>2, <2>3, <2>4, <2>5, <2>6, <2>7 DEF FramingInv
  <1> QED BY <1>1, <1>2, <1>3, <1>4, <1>5, <1>6, <1>7, <1>8, <1>9
          DEF FramingNext, Drain

LEMMA FramingAlways == FramingSpec => []FramingInv
  <1> QED BY FramingInitHolds, FramingStep, PTL DEF FramingSpec

\* The stream tells all UsableMessagesKept says of the order.
LEMMA StreamKeepsUsable == FramingInv => UsableMessagesKept
  <1> DEFINE s == acc \o wire
             held == {i \in DOMAIN s : s[i].kind = "good" /\ IsLast(s[i])}
  <1> SUFFICES ASSUME FramingInv, ~torn
               PROVE  /\ due = {s[i].id : i \in held}
                      /\ \A i, j \in held : i < j => s[i].id < s[j].id
                      /\ reading # NoReading => \A d \in due : reading[1].id < d
    BY DEF UsableMessagesKept
  <1>1. /\ acc \in Seq(Unit) /\ wire \in Seq(Unit)
        /\ Stream(s, framing) /\ due = Held(s)
    BY DEF FramingInv, FramingTypeOK
  <1>2. s \in Seq(Unit) /\ DOMAIN s = 1..Len(s) /\ Len(s) \in Nat
    BY <1>1, Joined
  <1> HIDE DEF s
  <1>3. held = {j \in 1..Len(s) : s[j].kind = "good" /\ IsLast(s[j])}
    BY <1>2
  <1>4. due = {s[i].id : i \in held}
    BY <1>1, <1>3 DEF Held
  <1>5. ASSUME NEW i \in held, NEW j \in held, i < j
        PROVE  s[i].id < s[j].id
    <2>1. i \in 1..Len(s) /\ j \in 1..Len(s) /\ IsLast(s[i])
      BY <1>3
    <2>2. i < Len(s) /\ i + 1 \in 1..Len(s) /\ i + 1 <= j
      BY <1>2, <1>5, <2>1
    <2>3. s[i].id < s[i + 1].id
      BY <1>1, <2>1, <2>2 DEF Stream, Follows
    <2>4. s[i + 1].id <= s[j].id
      BY <1>1, <2>1, <2>2 DEF Stream, Grows
    <2>5. s[i].id \in Nat /\ s[i + 1].id \in Nat /\ s[j].id \in Nat
      BY <1>2, <2>1, <2>2, UnitFields
    <2> QED BY <2>3, <2>4, <2>5
  <1> QED BY <1>4, <1>5 DEF FramingInv

(***************************************************************************)
(* Accumulator, line, reading and counters stay what they are declared to  *)
(* be: no decoder of drain_frames reads past the accumulator.              *)
(***************************************************************************)
THEOREM FramingTypeCorrect == FramingSpec => []FramingTypeOK
  <1>1. FramingInv => FramingTypeOK
    BY DEF FramingInv
  <1> QED BY <1>1, FramingAlways, PTL

(***************************************************************************)
(* Whatever the sizes of the messages and the cuts of the stream, what     *)
(* drain_frames publishes is one message the robot sent, whole, unless a   *)
(* serial line lost a byte.                                                *)
(***************************************************************************)
THEOREM ReadingsAreMessages == FramingSpec => []NoForgedReading
  <1>1. FramingInv => NoForgedReading
    BY DEF FramingInv
  <1> QED BY <1>1, FramingAlways, PTL

(***************************************************************************)
(* WaitsForRest fails in no other way: as long as the front message is not *)
(* one its decoder refuses, drain_frames comes back with the start of one  *)
(* message and nothing else.                                               *)
(***************************************************************************)
THEOREM DrainsToTheRest == FramingSpec => [](~Refused => WaitsForRest)
  <1>1. FramingInv => (~Refused => WaitsForRest)
    BY DEF FramingInv, RestOrRefused, Refused, WaitsForRest
  <1> QED BY <1>1, FramingAlways, PTL

(***************************************************************************)
(* No usable message is skipped, repeated or overtaken between the robot   *)
(* and the telemetry topic: reads, decoding, lost datagrams and            *)
(* reconnections keep the account of what is still due.                    *)
(***************************************************************************)
THEOREM UsableMessagesAreKept == FramingSpec => []UsableMessagesKept
  <1> QED BY StreamKeepsUsable, FramingAlways, PTL
=============================================================================
