---------------------------- MODULE XgoUartProofs ----------------------------
(***************************************************************************)
(* For every payload, damage and bound: the accumulator waits for one      *)
(* frame only, resynchronising spares undamaged answers, no register is    *)
(* starved, and what nothing damaged is decoded in order.                  *)
(***************************************************************************)
EXTENDS XgoUart, Integers, WellFoundedInduction, SequenceTheorems, TLAPS

-----------------------------------------------------------------------------
(* The checksum: a recursive function over the data, about which claims    *)
(* are proved from the least place where they fail.                        *)

LEMMA LeastPlace ==
    ASSUME NEW T, T \subseteq Nat, T # {}
    PROVE  \E x \in T : \A y \in T : x <= y
<1> DEFINE R == OpToRel(<, Nat)
<1>1. IsWellFoundedOn(R, Nat)
  BY NatLessThanWellFounded
<1>2. \A x, y \in Nat : y < x => <<y, x>> \in R
  BY Zenon DEF OpToRel
<1> HIDE DEF R
<1>3. PICK x \in T : \A y \in T : ~(<<y, x>> \in R)
  BY <1>1, WFMin
<1>4. \A y \in T : ~(y < x)
  BY <1>2, <1>3, Zenon
<1>5. \A y \in T : x <= y
  BY <1>3, <1>4
<1> QED
  BY <1>3, <1>5

\* The sums of the first 0, 1, ... n bytes.
Sums(s, d, n) ==
    s = [i \in 0..n |-> IF i = 0 THEN 0 ELSE s[i - 1] + d[i]]

LEMMA SumsExist ==
    ASSUME NEW d
    PROVE  \A n \in Nat : \E s : Sums(s, d, n)
<1> DEFINE T == {n \in Nat : ~\E s : Sums(s, d, n)}
<1>1. SUFFICES ASSUME T # {} PROVE FALSE
  OBVIOUS
<1>2. PICK n \in T : \A m \in T : n <= m
  BY <1>1, LeastPlace
<1>3. n \in Nat /\ ~\E s : Sums(s, d, n)
  BY <1>2
<1>4. n # 0
  <2>1. [i \in 0..0 |-> 0] = [i \in 0..0 |-> IF i = 0 THEN 0
                                  ELSE [j \in 0..0 |-> 0][i - 1] + d[i]]
    OBVIOUS
  <2>2. Sums([i \in 0..0 |-> 0], d, 0)
    BY <2>1 DEF Sums
  <2> QED BY <1>3, <2>2
<1>5. n - 1 \in Nat /\ n - 1 \notin T
  BY <1>2, <1>3, <1>4
<1>6. PICK s : Sums(s, d, n - 1)
  BY <1>5
<1> DEFINE z == [i \in 0..n |-> IF i = n THEN s[n - 1] + d[n] ELSE s[i]]
<1>7. ASSUME NEW i \in 0..n
      PROVE  z[i] = IF i = 0 THEN 0 ELSE z[i - 1] + d[i]
  <2>1. CASE i = n
    <3>1. z[i] = s[n - 1] + d[n]
      BY <2>1
    <3>2. z[i - 1] = s[n - 1]
      BY <1>5, <2>1
    <3> HIDE DEF z
    <3> QED BY <1>4, <2>1, <3>1, <3>2
  <2>2. CASE i = 0
    <3>1. z[i] = s[0]
      BY <1>4, <2>2
    <3>2. s[0] = 0
      BY <1>5, <1>6 DEF Sums
    <3> HIDE DEF z
    <3> QED BY <2>2, <3>1, <3>2
  <2>3. CASE i # 0 /\ i # n
    <3>1. i \in 0..n - 1 /\ i - 1 \in 0..n
      BY <2>3
    <3>2. z[i] = s[i] /\ z[i - 1] = s[i - 1]
      BY <2>3, <3>1
    <3>3. s[i] = s[i - 1] + d[i]
      BY <1>6, <2>3, <3>1 DEF Sums
    <3> HIDE DEF z
    <3> QED BY <2>3, <3>2, <3>3
  <2> QED BY <2>1, <2>2, <2>3
<1>8. z = [i \in 0..n |-> IF i = 0 THEN 0 ELSE z[i - 1] + d[i]]
  <2>1. z = [i \in 0..n |-> z[i]]
    OBVIOUS
  <2> HIDE DEF z
  <2> QED BY <1>7, <2>1
<1> QED
  BY <1>3, <1>8 DEF Sums

LEMMA BytesAreNumbers ==
    ASSUME NEW d \in Seq(Byte)
    PROVE  \A i \in 1..Len(d) : d[i] \in Byte /\ d[i] \in Nat
<1>1. \A i \in 1..Len(d) : d[i] \in Byte
  OBVIOUS
<1>2. \A b \in Byte : b \in Nat
  BY DEF Byte
<1> QED
  BY <1>1, <1>2

\* What DataSum adds up, byte by byte.
LEMMA DataSums ==
    ASSUME NEW d \in Seq(Byte)
    PROVE  \E s : /\ s[0] = 0
                  /\ \A i \in 1..Len(d) : s[i] = s[i - 1] + d[i]
                  /\ \A i \in 0..Len(d) : s[i] \in Nat
                  /\ DataSum(d) = s[Len(d)]
<1>0. Len(d) \in Nat
  OBVIOUS
<1>1. PICK w : Sums(w, d, Len(d))
  BY <1>0, SumsExist
<1>2. PICK s : Sums(s, d, Len(d)) /\ DataSum(d) = s[Len(d)]
  BY <1>1 DEF DataSum, Sums
<1> DEFINE n == Len(d)
<1>3. s[0] = 0 /\ \A i \in 1..n : s[i] = s[i - 1] + d[i]
  <2>1. s = [i \in 0..n |-> IF i = 0 THEN 0 ELSE s[i - 1] + d[i]]
    BY <1>2 DEF Sums
  <2>2. \A i \in 0..n : s[i] = IF i = 0 THEN 0 ELSE s[i - 1] + d[i]
    BY ONLY <2>1
  <2> HIDE DEF n
  <2>3. n \in Nat
    BY <1>0 DEF n
  <2> QED BY <2>2, <2>3
<1> DEFINE T == {i \in 0..n : s[i] \notin Nat}
<1>4. SUFFICES ASSUME T # {} PROVE FALSE
  BY <1>2, <1>3
<1>9. T \subseteq Nat
  BY <1>0
<1>5. PICK i \in T : \A j \in T : i <= j
  <2> HIDE DEF T
  <2> QED BY <1>4, <1>9, LeastPlace
<1>6. i \in 1..n /\ s[i] \notin Nat
  BY <1>3, <1>5
<1>7. s[i - 1] \in Nat
  BY <1>5, <1>6
<1>8. s[i] = s[i - 1] + d[i] /\ d[i] \in Nat
  BY <1>3, <1>6, BytesAreNumbers
<1> QED
  BY <1>6, <1>7, <1>8

LEMMA ChecksumIsByte ==
    ASSUME NEW len \in Nat, NEW mode \in Nat, NEW addr \in Nat, NEW d \in Seq(Byte)
    PROVE  Checksum(len, mode, addr, d) \in Byte
<1>1. DataSum(d) \in Nat
  <2>1. Len(d) \in 0..Len(d)
    OBVIOUS
  <2> QED BY <2>1, DataSums
<1>2. PICK x \in Nat : x = len + mode + addr + DataSum(d)
  BY <1>1
<1>3. x % 256 \in 0..255
  OBVIOUS
<1>4. 255 - (x % 256) \in 0..255
  BY <1>3
<1> QED
  BY <1>2, <1>4 DEF Checksum, Byte

\* One byte of the data changes, and the sum by as much.
LEMMA SumAfterDamage ==
    ASSUME NEW d \in Seq(Byte), NEW k \in 1..Len(d), NEW e \in Seq(Byte),
           Len(e) = Len(d), \A i \in 1..Len(d) : i # k => e[i] = d[i]
    PROVE  DataSum(e) = DataSum(d) + (e[k] - d[k])
<1> DEFINE n == Len(d)
<1>0. n \in Nat /\ k \in 1..n
  OBVIOUS
<1>1. PICK s : /\ s[0] = 0 /\ \A i \in 1..n : s[i] = s[i - 1] + d[i]
               /\ \A i \in 0..n : s[i] \in Nat
               /\ DataSum(d) = s[n]
  BY DataSums
<1>2. PICK z : /\ z[0] = 0 /\ \A i \in 1..n : z[i] = z[i - 1] + e[i]
               /\ \A i \in 0..n : z[i] \in Nat
               /\ DataSum(e) = z[n]
  BY DataSums
<1>3. \A i \in 1..n : d[i] \in Nat /\ e[i] \in Nat
  BY BytesAreNumbers
<1> HIDE DEF n
<1> DEFINE T == {i \in 0..n : z[i] # IF i < k THEN s[i] ELSE s[i] + (e[k] - d[k])}
<1>4. T = {}
  <2> SUFFICES ASSUME T # {} PROVE FALSE
    OBVIOUS
  <2>9. T \subseteq Nat
    BY <1>0
  <2>1. PICK i \in T : \A j \in T : i <= j
    <3> HIDE DEF T
    <3> QED BY <2>9, LeastPlace
  <2>2. i \in 1..n /\ z[i] # IF i < k THEN s[i] ELSE s[i] + (e[k] - d[k])
    BY <1>0, <1>1, <1>2, <2>1
  <2>3. i - 1 \in 0..n /\ i - 1 \notin T
    <3>1. i \in 1..n
      BY <2>2
    <3>2. i - 1 \in 0..n /\ ~(i <= i - 1)
      BY <1>0, <3>1
    <3> HIDE DEF T
    <3> QED BY <2>1, <3>2
  <2>4. z[i - 1] = IF i - 1 < k THEN s[i - 1] ELSE s[i - 1] + (e[k] - d[k])
    BY <2>3
  <2>5. /\ z[i] = z[i - 1] + e[i] /\ s[i] = s[i - 1] + d[i]
        /\ z[i] \in Nat /\ z[i - 1] \in Nat /\ s[i] \in Nat /\ s[i - 1] \in Nat
        /\ d[i] \in Nat /\ e[i] \in Nat /\ d[k] \in Nat /\ e[k] \in Nat
    BY <1>0, <1>1, <1>2, <1>3, <2>2, <2>3
  <2>6. i # k => e[i] = d[i]
    BY <2>2 DEF n
  <2> HIDE DEF T
  <2>7. CASE i = k
    BY <2>2, <2>4, <2>5, <2>7
  <2>8. CASE i # k
    <3>1. e[i] = d[i]
      BY <2>6, <2>8
    <3>2. i < k <=> i - 1 < k
      BY <1>0, <2>2, <2>8
    <3>3. CASE i < k
      <4>1. z[i - 1] = s[i - 1]
        BY <2>4, <3>2, <3>3
      <4> QED BY <2>2, <2>5, <3>1, <3>3, <4>1
    <3>4. CASE ~(i < k)
      <4>1. z[i - 1] = s[i - 1] + (e[k] - d[k])
        BY <2>4, <3>2, <3>4
      <4>2. z[i] # s[i] + (e[k] - d[k])
        BY <2>2, <3>4
      <4> QED BY <2>5, <3>1, <4>1, <4>2, SMTT(30)
    <3> QED BY <3>3, <3>4
  <2> QED BY <2>7, <2>8
<1>5. n \in 0..n /\ ~(n < k)
  BY <1>0
<1>6. z[n] = s[n] + (e[k] - d[k])
  BY <1>4, <1>5
<1> QED
  BY <1>1, <1>2, <1>6

-----------------------------------------------------------------------------
(* What the robot sends.                                                   *)

LEMMA Schedule ==
    ASSUME NEW p \in Phase
    PROVE  /\ Address[p + 1] \in Byte
           /\ ReadLen[p + 1] \in 1..12
<1>1. p + 1 \in {1, 2, 3, 4, 5}
  BY DEF Phase
<1>2. \A q \in {1, 2, 3, 4, 5} : Address[q] \in Byte
  BY DEF Address, Byte
<1>3. \A q \in {1, 2, 3, 4, 5} : ReadLen[q] \in 1..12
  BY XgoAssumption DEF ReadLen
<1> QED
  BY <1>1, <1>2, <1>3

LEMMA FrameShape ==
    ASSUME NEW S, NEW mode, NEW addr, NEW d \in Seq(S)
    PROVE  LET f == PushFrame(mode, addr, d) IN
           /\ Len(f) = Len(d) + 8 /\ DOMAIN f = 1..Len(f)
           /\ f[1] = 85 /\ f[2] = 0 /\ f[3] = Len(f) /\ f[4] = mode /\ f[5] = addr
           /\ \A j \in 1..Len(d) : f[5 + j] = d[j]
           /\ f[Len(f) - 2] = Checksum(Len(d) + 8, mode, addr, d)
           /\ f[Len(f) - 1] = 0 /\ f[Len(f)] = 170
<1> DEFINE chk == Checksum(Len(d) + 8, mode, addr, d)
           f == PushFrame(mode, addr, d)
           T == S \cup {85, 0, Len(d) + 8, mode, addr, chk, 170}
           a == <<85, 0, Len(d) + 8, mode, addr>>
           b == <<chk, 0, 170>>
<1> HIDE DEF chk
<1>0. f = a \o d \o b
  BY DEF PushFrame, chk
<1> HIDE DEF f
<1>1. /\ d \in Seq(T) /\ a \in Seq(T) /\ b \in Seq(T)
      /\ Len(a) = 5 /\ Len(b) = 3 /\ Len(d) \in Nat
  OBVIOUS
<1>2. a \o d \in Seq(T) /\ Len(a \o d) = 5 + Len(d)
  BY <1>1
<1>3. \A j \in 1..5 + Len(d) : (a \o d)[j] = IF j <= 5 THEN a[j] ELSE d[j - 5]
  BY <1>1
<1>4. f \in Seq(T) /\ Len(f) = Len(d) + 8
  BY <1>0, <1>1, <1>2
<1>5. \A j \in 1..Len(d) + 8 :
         f[j] = IF j <= 5 + Len(d) THEN (a \o d)[j] ELSE b[j - (5 + Len(d))]
  BY <1>0, <1>1, <1>2
<1>6. a[1] = 85 /\ a[2] = 0 /\ a[3] = Len(d) + 8 /\ a[4] = mode /\ a[5] = addr
      /\ b[1] = chk /\ b[2] = 0 /\ b[3] = 170
  OBVIOUS
<1> DEFINE ad == a \o d
<1>13. \A j \in 1..5 + Len(d) : ad[j] = IF j <= 5 THEN a[j] ELSE d[j - 5]
  BY <1>3
<1>14. \A j \in 1..Len(d) + 8 :
          f[j] = IF j <= 5 + Len(d) THEN ad[j] ELSE b[j - (5 + Len(d))]
  BY <1>5
<1> HIDE DEF a, b, T, ad
<1>7. \A j \in 1..5 : f[j] = a[j]
  <2>1. TAKE j \in 1..5
  <2>2. j \in 1..Len(d) + 8 /\ j \in 1..5 + Len(d) /\ j <= 5 + Len(d) /\ j <= 5
    BY <1>1
  <2> QED BY <1>13, <1>14, <2>2
<1>8. \A j \in 1..Len(d) : f[5 + j] = d[j]
  <2>1. TAKE j \in 1..Len(d)
  <2>2. /\ 5 + j \in 1..Len(d) + 8 /\ 5 + j \in 1..5 + Len(d)
        /\ 5 + j <= 5 + Len(d) /\ ~(5 + j <= 5) /\ (5 + j) - 5 = j
    BY <1>1
  <2> QED BY <1>13, <1>14, <2>2
<1>9. \A j \in 1..3 : f[5 + Len(d) + j] = b[j]
  <2>1. TAKE j \in 1..3
  <2>2. 5 + Len(d) + j \in 1..Len(d) + 8 /\ ~(5 + Len(d) + j <= 5 + Len(d))
        /\ (5 + Len(d) + j) - (5 + Len(d)) = j
    BY <1>1
  <2> QED BY <1>14, <2>2
<1>10. Len(f) - 2 = 5 + Len(d) + 1 /\ Len(f) - 1 = 5 + Len(d) + 2 /\ Len(f) = 5 + Len(d) + 3
  BY <1>1, <1>4
<1>11. f[Len(f) - 2] = chk /\ f[Len(f) - 1] = 0 /\ f[Len(f)] = 170
  BY <1>6, <1>9, <1>10
<1>12. f[1] = 85 /\ f[2] = 0 /\ f[3] = Len(f) /\ f[4] = mode /\ f[5] = addr
  BY <1>4, <1>6, <1>7
<1> QED
  BY <1>4, <1>8, <1>11, <1>12 DEF f, chk

LEMMA AnswerShape ==
    ASSUME NEW p \in Phase, NEW f \in Answers(p)
    PROVE  \E d \in Payloads[p] :
             /\ d \in Seq(Byte) /\ Len(d) \in 1..12
             /\ f \in Seq(Byte) /\ Len(f) = Len(d) + 8 /\ DOMAIN f = 1..Len(f)
             /\ f[1] = 85 /\ f[2] = 0 /\ f[3] = Len(f)
             /\ f[4] = 2 /\ f[5] = Address[p + 1]
             /\ \A j \in 1..Len(d) : f[5 + j] = d[j]
             /\ f[Len(f) - 2] = Checksum(Len(d) + 8, 2, Address[p + 1], d)
             /\ f[Len(f) - 1] = 0 /\ f[Len(f)] = 170
<1>1. PICK d \in Payloads[p] : f = PushFrame(2, Address[p + 1], d)
  BY DEF Answers
<1>2. d \in Seq(Byte) /\ Len(d) \in 1..12
  BY XgoAssumption, Schedule
<1> DEFINE chk == Checksum(Len(d) + 8, 2, Address[p + 1], d)
<1>3. chk \in Byte
  <2>1. Len(d) + 8 \in Nat /\ 2 \in Nat
    BY <1>2
  <2>2. Address[p + 1] \in Nat
    BY Schedule DEF Byte
  <2> QED BY <1>2, <2>1, <2>2, ChecksumIsByte
<1> HIDE DEF chk
<1>4. f = <<85, 0, Len(d) + 8, 2, Address[p + 1]>> \o d \o <<chk, 0, 170>>
  BY <1>1 DEF PushFrame, chk
<1>5. /\ Len(f) = Len(d) + 8 /\ DOMAIN f = 1..Len(f)
      /\ f[1] = 85 /\ f[2] = 0 /\ f[3] = Len(f) /\ f[4] = 2 /\ f[5] = Address[p + 1]
      /\ \A j \in 1..Len(d) : f[5 + j] = d[j]
      /\ f[Len(f) - 2] = chk /\ f[Len(f) - 1] = 0 /\ f[Len(f)] = 170
  BY <1>1, <1>2, FrameShape DEF chk
<1>6. f \in Seq(Byte)
  <2>1. <<85, 0, Len(d) + 8, 2, Address[p + 1]>> \in Seq(Byte)
    <3>1. 85 \in Byte /\ 0 \in Byte /\ 2 \in Byte /\ Len(d) + 8 \in Byte
      <4>1. 85 \in Byte /\ 0 \in Byte /\ 2 \in Byte /\ \A n \in 1..12 : n + 8 \in Byte
        BY DEF Byte
      <4> QED BY <1>2, <4>1 DEF Byte
    <3>2. Address[p + 1] \in Byte
      BY Schedule DEF Byte
    <3> QED BY <3>1, <3>2
  <2>2. <<chk, 0, 170>> \in Seq(Byte)
    BY <1>3 DEF Byte
  <2>3. d \in Seq(Byte)
    BY <1>2 DEF Byte
  <2> QED BY <1>4, <2>1, <2>2, <2>3
<1> QED
  BY <1>1, <1>2, <1>5, <1>6 DEF chk

LEMMA AnswerBounds ==
    ASSUME NEW p \in Phase, NEW f \in Answers(p)
    PROVE  Len(f) \in 9..20 /\ DOMAIN f = 1..Len(f) /\ f[1] = 85 /\ f[2] = 0
<1>1. PICK d \in Payloads[p] :
        /\ Len(d) \in 1..12
        /\ Len(f) = Len(d) + 8 /\ DOMAIN f = 1..Len(f)
        /\ f[1] = 85 /\ f[2] = 0
  BY AnswerShape
<1>2. \A n \in 1..12 : n + 8 \in 9..20
  OBVIOUS
<1> QED
  <2>1. Len(d) + 8 \in 9..20
    BY <1>1, <1>2, Zenon
  <2> QED BY <1>1, <2>1

-----------------------------------------------------------------------------
(* Encoder and scanner agree.                                              *)

\* An undamaged answer at the front is recognised as soon as it is whole.
LEMMA AnswerAccepted ==
    ASSUME NEW s \in Seq(Byte), IntactAt(s, 1)
    PROVE  Complete(s)
<1>p. PICK p \in Phase : \E f \in Answers(p) :
         1 + Len(f) - 1 <= Len(s) /\ \A j \in DOMAIN f : s[1 + j - 1] = f[j]
  BY DEF IntactAt
<1>f. PICK f \in Answers(p) :
         1 + Len(f) - 1 <= Len(s) /\ \A j \in DOMAIN f : s[1 + j - 1] = f[j]
  BY <1>p
<1>1. Len(f) <= Len(s) /\ \A j \in DOMAIN f : s[j] = f[j]
  <2>1. 1 + Len(f) - 1 <= Len(s) /\ \A j \in DOMAIN f : s[1 + j - 1] = f[j]
    BY <1>f
  <2>2. Len(f) \in Nat /\ DOMAIN f = 1..Len(f)
    BY AnswerBounds
  <2>3. \A j \in DOMAIN f : 1 + j - 1 = j
    BY <2>2
  <2>4. 1 + Len(f) - 1 = Len(f)
    BY <2>2
  <2> QED BY <2>1, <2>3, <2>4
<1>2. PICK d \in Payloads[p] :
        /\ d \in Seq(Byte) /\ Len(d) \in 1..12
        /\ f \in Seq(Byte) /\ Len(f) = Len(d) + 8 /\ DOMAIN f = 1..Len(f)
        /\ f[1] = 85 /\ f[2] = 0 /\ f[3] = Len(f)
        /\ f[4] = 2 /\ f[5] = Address[p + 1]
        /\ \A j \in 1..Len(d) : f[5 + j] = d[j]
        /\ f[Len(f) - 2] = Checksum(Len(d) + 8, 2, Address[p + 1], d)
        /\ f[Len(f) - 1] = 0 /\ f[Len(f)] = 170
  BY AnswerShape
<1> DEFINE n == Len(d) + 8
<1>3. n \in 9..20 /\ Len(f) = n /\ n <= Len(s) /\ Len(s) \in Nat
  <2>1. Len(f) = n
    BY <1>2
  <2>2. Len(f) \in 9..20
    BY AnswerBounds
  <2> QED BY <1>1, <2>1, <2>2
<1>4. \A j \in 1..n : s[j] = f[j]
  BY <1>1, <1>2, <1>3
<1>5. s[1] = 85 /\ s[2] = 0 /\ s[3] = n /\ s[4] = 2 /\ s[5] = Address[p + 1]
  BY <1>2, <1>3, <1>4
<1>6. s[n - 1] = 0 /\ s[n] = 170 /\ s[n - 2] = Checksum(n, 2, Address[p + 1], d)
  BY <1>2, <1>3, <1>4
<1>7. SubSeq(s, 6, n - 3) = d
  <2>1. SubSeq(s, 6, n - 3) \in Seq(Byte) /\ Len(SubSeq(s, 6, n - 3)) = Len(d)
    BY <1>2, <1>3
  <2>2. \A j \in 1..Len(d) : SubSeq(s, 6, n - 3)[j] = s[5 + j]
    BY <1>2, <1>3
  <2>3. \A j \in 1..Len(d) : s[5 + j] = d[j]
    BY <1>2, <1>3, <1>4
  <2>4. d \in Seq(Byte)
    BY <1>2 DEF Byte
  <2> QED BY <2>1, <2>2, <2>3, <2>4
<1>8. HeaderAt(s, 1) /\ LenPlausible(s)
  BY <1>3, <1>5 DEF HeaderAt, LenPlausible
<1> QED
  <2>1. s[3] <= Len(s) /\ s[s[3] - 1] = 0 /\ s[s[3]] = 170
    BY <1>3, <1>5, <1>6
  <2>2. Checksum(s[3], s[4], s[5], SubSeq(s, 6, s[3] - 3)) = s[s[3] - 2]
    BY <1>5, <1>6, <1>7
  <2> QED BY <1>8, <2>1, <2>2 DEF Complete

LEMMA Remainders ==
    ASSUME NEW x \in Nat, NEW y \in Nat, x # y, x < y + 256, y < x + 256
    PROVE  x % 256 # y % 256
  OBVIOUS

\* Two sums that differ by less than a byte have different checksums.
LEMMA ChecksumsDiffer ==
    ASSUME NEW x \in Nat, NEW y \in Nat, x # y, x < y + 256, y < x + 256
    PROVE  255 - (x % 256) # 255 - (y % 256)
<1>1. x % 256 # y % 256
  BY Remainders
<1>2. x % 256 \in Int /\ y % 256 \in Int
  OBVIOUS
<1> QED
  BY <1>1, <1>2

(* scan_frame notices every damage to one byte of an answer but its LEN:   *)
(* in the header the frame is not seen, behind it the tail or the checksum *)
(* is wrong, whatever byte it has become (adapters/xgo_uart.rs:196-232).   *)
THEOREM DamageIsNoticed ==
    ASSUME NEW p \in Phase, NEW f \in Answers(p),
           NEW i \in 1..Len(f), i # 3, NEW b \in Byte, b # f[i],
           NEW s \in Seq(Byte), Len(f) <= Len(s),
           \A j \in 1..Len(f) : s[j] = IF j = i THEN b ELSE f[j]
    PROVE  ~Complete(s)
<1>1. PICK d \in Payloads[p] :
        /\ d \in Seq(Byte) /\ Len(d) \in 1..12
        /\ f \in Seq(Byte) /\ Len(f) = Len(d) + 8
        /\ f[1] = 85 /\ f[2] = 0 /\ f[3] = Len(f)
        /\ f[4] = 2 /\ f[5] = Address[p + 1]
        /\ \A j \in 1..Len(d) : f[5 + j] = d[j]
        /\ f[Len(f) - 2] = Checksum(Len(d) + 8, 2, Address[p + 1], d)
        /\ f[Len(f) - 1] = 0 /\ f[Len(f)] = 170
  BY AnswerShape
<1> DEFINE n == Len(d) + 8
           e == SubSeq(s, 6, n - 3)
<1>2. n \in 9..20 /\ Len(f) = n /\ n <= Len(s) /\ Len(s) \in Nat /\ Len(d) = n - 8
  <2>1. Len(d) \in 1..12 /\ Len(f) = Len(d) + 8
    BY <1>1
  <2>2. \A l \in 1..12 : l + 8 \in 9..20 /\ l = (l + 8) - 8
    OBVIOUS
  <2>3. Len(d) + 8 \in 9..20 /\ Len(d) = (Len(d) + 8) - 8
    BY <2>1, <2>2
  <2>4. Len(s) \in Nat
    OBVIOUS
  <2> QED BY <2>1, <2>3, <2>4
<1> HIDE DEF n
<1>3. i \in 1..n /\ \A j \in 1..n : s[j] = IF j = i THEN b ELSE f[j]
  BY <1>2
<1>4. SUFFICES ASSUME Complete(s) PROVE FALSE
  OBVIOUS
<1>5. s[1] = 85 /\ s[2] = 0 /\ s[3] = n
  BY <1>1, <1>2, <1>3, <1>4 DEF Complete, HeaderAt
<1>6. s[n - 1] = 0 /\ s[n] = 170 /\ Checksum(n, s[4], s[5], e) = s[n - 2]
  BY <1>4, <1>5 DEF Complete
<1>7. i \in 4..n - 2
  <2>1. i # 1 /\ i # 2
    BY <1>1, <1>2, <1>3, <1>5
  <2>2. i # n - 1 /\ i # n
    <3>1. f[n - 1] = 0 /\ f[n] = 170
      BY <1>1, <1>2
    <3>2. n - 1 \in 1..n /\ n \in 1..n
      BY <1>2
    <3> QED BY <1>3, <1>6, <3>1, <3>2
  <2> QED BY <1>2, <1>3, <2>1, <2>2
<1>8. /\ e \in Seq(Byte) /\ Len(e) = n - 8
      /\ \A j \in 1..n - 8 : e[j] = s[5 + j]
  BY <1>2
<1>9. \A j \in 1..n - 8 : e[j] = IF 5 + j = i THEN b ELSE d[j]
  <2> TAKE j \in 1..n - 8
  <2>1. 5 + j \in 1..n
    BY <1>2
  <2>2. s[5 + j] = IF 5 + j = i THEN b ELSE f[5 + j]
    BY <1>3, <2>1
  <2>3. f[5 + j] = d[j]
    BY <1>1, <1>2
  <2> QED BY <1>8, <2>2, <2>3
<1> HIDE DEF e
<1>10. /\ f[n - 2] = Checksum(n, 2, Address[p + 1], d)
       /\ f[4] = 2 /\ f[5] = Address[p + 1] /\ d \in Seq(Byte)
  BY <1>1, <1>2 DEF n
<1>11. PICK a \in 0..255 : a = Address[p + 1]
  BY Schedule DEF Byte
<1>12. PICK u \in Nat, v \in Nat : u = DataSum(d) /\ v = DataSum(e)
  <2>1. Len(d) \in 0..Len(d) /\ Len(e) \in 0..Len(e)
    BY <1>8, <1>10
  <2> QED BY <1>8, <1>10, <2>1, DataSums
<1>13. b \in 0..255 /\ b \in Nat /\ a \in Nat /\ n \in Nat /\ 2 \in Nat
  <2>1. b \in 0..255
    BY DEF Byte
  <2>2. n \in Nat
    BY <1>2
  <2> QED BY <2>1, <2>2
<1>14. CASE i = n - 2
  <2>1. e = d
    BY <1>2, <1>8, <1>9, <1>10, <1>14
  <2>2. s[4] = 2 /\ s[5] = Address[p + 1] /\ s[n - 2] = b
    BY <1>2, <1>3, <1>10, <1>14
  <2> QED BY <1>6, <1>10, <1>14, <2>1, <2>2
<1>15. CASE i = 4
  <2>1. e = d
    BY <1>2, <1>8, <1>9, <1>10, <1>15
  <2>2. s[4] = b /\ b # 2 /\ s[5] = a /\ s[n - 2] = f[n - 2]
    BY <1>2, <1>3, <1>10, <1>11, <1>15
  <2>3. PICK x \in Nat, y \in Nat : x = n + b + a + u /\ y = n + 2 + a + u
    BY <1>13
  <2>4. x # y /\ x < y + 256 /\ y < x + 256
    <3>1. b # 2
      BY <2>2
    <3> QED BY ONLY <1>13, <3>1, a \in 0..255, u \in Nat, <2>3
  <2>5. 255 - (x % 256) # 255 - (y % 256)
    BY ONLY x \in Nat, y \in Nat, <2>4, ChecksumsDiffer
  <2>6. Checksum(n, b, a, d) = 255 - (x % 256) /\ Checksum(n, 2, a, d) = 255 - (y % 256)
    BY <1>12, <2>3 DEF Checksum
  <2>7. Checksum(n, s[4], s[5], e) = Checksum(n, b, a, d)
    BY <2>1, <2>2
  <2>8. Checksum(n, b, a, d) = Checksum(n, 2, a, d)
    BY <1>6, <1>10, <1>11, <2>2, <2>7
  <2> QED BY <2>5, <2>6, <2>8
<1>16. CASE i = 5
  <2>1. e = d
    BY <1>2, <1>8, <1>9, <1>10, <1>16
  <2>2. s[4] = 2 /\ s[5] = b /\ b # a /\ s[n - 2] = f[n - 2]
    BY <1>2, <1>3, <1>10, <1>11, <1>16
  <2>3. PICK x \in Nat, y \in Nat : x = n + 2 + b + u /\ y = n + 2 + a + u
    BY <1>13
  <2>4. x # y /\ x < y + 256 /\ y < x + 256
    <3>1. b # a
      BY <2>2
    <3> QED BY ONLY <1>13, <3>1, a \in 0..255, u \in Nat, <2>3
  <2>5. 255 - (x % 256) # 255 - (y % 256)
    BY ONLY x \in Nat, y \in Nat, <2>4, ChecksumsDiffer
  <2>6. Checksum(n, 2, b, d) = 255 - (x % 256) /\ Checksum(n, 2, a, d) = 255 - (y % 256)
    BY <1>12, <2>3 DEF Checksum
  <2>7. Checksum(n, s[4], s[5], e) = Checksum(n, 2, b, d)
    BY <2>1, <2>2
  <2>8. Checksum(n, 2, b, d) = Checksum(n, 2, a, d)
    BY <1>6, <1>10, <1>11, <2>2, <2>7
  <2> QED BY <2>5, <2>6, <2>8
<1>17. CASE i \in 6..n - 3
  <2> DEFINE k == i - 5
  <2>1. k \in 1..n - 8 /\ 5 + k = i
    BY <1>2, <1>17
  <2> HIDE DEF k
  <2>2. e[k] = b /\ \A j \in 1..n - 8 : j # k => e[j] = d[j]
    <3>1. e[k] = b
      BY <1>9, <2>1
    <3>2. ASSUME NEW j \in 1..n - 8, j # k
          PROVE  e[j] = d[j]
      <4>1. 5 + j # i
        BY <1>2, <2>1, <3>2
      <4> QED BY <1>9, <4>1
    <3> QED BY <3>1, <3>2
  <2>3. d[k] = f[i] /\ d[k] # b /\ d[k] \in Byte
    <3>1. f[5 + k] = d[k]
      BY <1>1, <1>2, <2>1
    <3>2. d[k] \in Byte
      BY <1>2, <1>10, <2>1
    <3> QED BY <2>1, <3>1, <3>2
  <2>4. DataSum(e) = DataSum(d) + (b - d[k])
    <3>1. k \in 1..Len(d) /\ Len(e) = Len(d)
      BY <1>2, <1>8, <2>1
    <3>2. \A j \in 1..Len(d) : j # k => e[j] = d[j]
      BY <1>2, <2>2
    <3>3. DataSum(e) = DataSum(d) + (e[k] - d[k])
      BY <1>8, <1>10, <3>1, <3>2, SumAfterDamage
    <3> QED BY <2>2, <3>3
  <2>5. s[4] = 2 /\ s[5] = a /\ s[n - 2] = f[n - 2]
    BY <1>2, <1>3, <1>10, <1>11, <1>17
  <2>6. PICK c \in 0..255 : c = d[k]
    BY <2>3 DEF Byte
  <2>7. v = u + (b - c) /\ c # b
    BY <1>12, <2>3, <2>4, <2>6
  <2>8. PICK x \in Nat, y \in Nat : x = n + 2 + a + v /\ y = n + 2 + a + u
    BY <1>13
  <2>9. x # y /\ x < y + 256 /\ y < x + 256
    BY <1>13, <2>7, <2>8
  <2>10. 255 - (x % 256) # 255 - (y % 256)
    BY ONLY x \in Nat, y \in Nat, <2>9, ChecksumsDiffer
  <2>11. Checksum(n, 2, a, e) = 255 - (x % 256) /\ Checksum(n, 2, a, d) = 255 - (y % 256)
    BY <1>12, <2>8 DEF Checksum
  <2> QED BY <1>6, <1>10, <1>11, <2>5, <2>10, <2>11
<1> QED
  BY <1>2, <1>7, <1>14, <1>15, <1>16, <1>17

\* An undamaged answer shows its header to the scanner.
LEMMA IntactHasHeader ==
    ASSUME NEW s \in Seq(Byte), NEW i \in DOMAIN s, IntactAt(s, i)
    PROVE  HeaderAt(s, i)
<1>p. PICK p \in Phase : \E f \in Answers(p) :
         i + Len(f) - 1 <= Len(s) /\ \A j \in DOMAIN f : s[i + j - 1] = f[j]
  BY DEF IntactAt
<1>1. PICK f \in Answers(p) :
         i + Len(f) - 1 <= Len(s) /\ \A j \in DOMAIN f : s[i + j - 1] = f[j]
  BY <1>p
<1>2. Len(f) \in 9..20 /\ DOMAIN f = 1..Len(f) /\ f[1] = 85 /\ f[2] = 0
  BY AnswerBounds
<1>n. PICK n \in 9..20 : n = Len(f)
  BY <1>2
<1>m. PICK m \in Nat : m = Len(s) /\ i \in 1..m
  OBVIOUS
<1>3. i + n - 1 <= m
  BY <1>1, <1>n, <1>m
<1>4. i \in 1..m - 2 /\ i + 1 - 1 = i /\ i + 2 - 1 = i + 1
  BY <1>3, <1>m
<1>5. 1 \in DOMAIN f /\ 2 \in DOMAIN f
  <2>1. DOMAIN f = 1..n
    BY <1>2, <1>n
  <2> QED BY <2>1
<1>6. s[i + 1 - 1] = f[1] /\ s[i + 2 - 1] = f[2]
  BY <1>1, <1>5, Zenon
<1>7. s[i] = 85 /\ s[i + 1] = 0
  BY <1>2, <1>4, <1>6
<1> QED
  BY <1>m, <1>4, <1>7 DEF HeaderAt

\* Dropping k bytes from the front keeps every answer that starts behind them.
LEMMA FlushKeepsAnswer ==
    ASSUME NEW s \in Seq(Byte), NEW k \in 0..Len(s), NEW i \in DOMAIN s,
           i > k, IntactAt(s, i)
    PROVE  IntactAt(SubSeq(s, k + 1, Len(s)), i - k)
<1> DEFINE t == SubSeq(s, k + 1, Len(s))
<1>p. PICK p \in Phase : \E f \in Answers(p) :
         i + Len(f) - 1 <= Len(s) /\ \A j \in DOMAIN f : s[i + j - 1] = f[j]
  BY DEF IntactAt
<1>1. PICK f \in Answers(p) :
         i + Len(f) - 1 <= Len(s) /\ \A j \in DOMAIN f : s[i + j - 1] = f[j]
  BY <1>p
<1>2. Len(f) \in 9..20 /\ DOMAIN f = 1..Len(f)
  BY AnswerBounds
<1>3. Len(s) \in Nat /\ i \in 1..Len(s)
  OBVIOUS
<1>4. Len(t) = Len(s) - k /\ \A m \in 1..Len(s) - k : t[m] = s[k + m]
  BY <1>3
<1> HIDE DEF t
<1>5. \A j \in DOMAIN f : t[(i - k) + j - 1] = f[j]
  <2>1. TAKE j \in DOMAIN f
  <2>2. (i - k) + j - 1 \in 1..Len(s) - k /\ k + ((i - k) + j - 1) = i + j - 1
    <3>1. PICK n \in 9..20 : n = Len(f) /\ j \in 1..n /\ i + n - 1 <= Len(s)
      BY <1>1, <1>2
    <3>2. PICK l \in Nat : l = Len(s) /\ i \in 1..l /\ k \in 0..l /\ i > k
      BY <1>3
    <3> QED BY ONLY <3>1, <3>2
  <2>3. PICK m \in 1..Len(s) - k : m = (i - k) + j - 1 /\ k + m = i + j - 1
    BY <2>2
  <2>4. t[m] = s[k + m]
    BY <1>4
  <2>5. s[i + j - 1] = f[j]
    BY <1>1
  <2> QED BY ONLY <2>3, <2>4, <2>5
<1>6. (i - k) + Len(f) - 1 <= Len(t)
  BY <1>1, <1>2, <1>3, <1>4
<1>7. IntactAt(t, i - k)
  BY <1>5, <1>6 DEF IntactAt
<1> QED
  BY <1>7 DEF t

-----------------------------------------------------------------------------
(* The line and the accumulator.                                           *)

LEMMA FlushType ==
    ASSUME NEW s \in Seq(Byte), NEW k \in 0..Len(s)
    PROVE  /\ SubSeq(s, k + 1, Len(s)) \in Seq(Byte)
           /\ Len(SubSeq(s, k + 1, Len(s))) = Len(s) - k
<1>1. Len(s) \in Nat /\ k + 1 \in 1..Len(s) + 1
  OBVIOUS
<1> QED
  BY <1>1

LEMMA DamagedType ==
    ASSUME NEW f \in Seq(Byte), NEW g \in Damaged(f)
    PROVE  g \in Seq(Byte)
<1>1. CASE \E i \in DOMAIN f : g = RemoveAt(f, i)
  <2>0. PICK i \in DOMAIN f : g = RemoveAt(f, i)
    BY <1>1
  <2>1. i \in 1..Len(f) /\ g = SubSeq(f, 1, i - 1) \o SubSeq(f, i + 1, Len(f))
    BY <2>0 DEF RemoveAt
  <2>2. SubSeq(f, 1, i - 1) \in Seq(Byte) /\ SubSeq(f, i + 1, Len(f)) \in Seq(Byte)
    OBVIOUS
  <2> QED BY <2>1, <2>2
<1>2. CASE \E i \in DOMAIN f, b \in NoiseBytes : g = [f EXCEPT ![i] = b]
  <2>1. NoiseBytes \subseteq Byte
    BY XgoAssumption DEF Byte
  <2> QED BY <1>2, <2>1
<1> QED
  BY <1>1, <1>2 DEF Damaged

LineInv == /\ poll_phase \in 0..Width - 1
           /\ uart \in Seq(Byte) /\ accum \in Seq(Byte)

\* Every step of drain_frames removes bytes from the front, and never an
\* undamaged answer unless a frame was accepted there.
LEMMA DrainShape ==
    ASSUME LineInv, DrainFrames
    PROVE  \E k \in 0..Len(accum) :
             /\ accum' = SubSeq(accum, k + 1, Len(accum))
             /\ Complete(accum) \/ \A i \in DOMAIN accum : IntactAt(accum, i) => i > k
<1> USE DEF LineInv
<1> DEFINE Shape(k) ==
             /\ accum' = SubSeq(accum, k + 1, Len(accum))
             /\ Complete(accum) \/ \A i \in DOMAIN accum : IntactAt(accum, i) => i > k
<1>0. Len(accum) \in Nat /\ DOMAIN accum = 1..Len(accum)
  OBVIOUS
<1>h. \A i \in DOMAIN accum : IntactAt(accum, i) => HeaderAt(accum, i)
  BY IntactHasHeader
<1>1. CASE FlushNoHeader
  <2>1. PICK k \in 0..Len(accum) : Flush(k)
    BY <1>1 DEF FlushNoHeader
  <2>2. \A i \in DOMAIN accum : ~IntactAt(accum, i)
    BY <1>1, <1>h DEF FlushNoHeader, NoHeader
  <2>3. Shape(k)
    BY <2>1, <2>2 DEF Flush
  <2> QED BY <2>3
<1>2. CASE FlushToHeader
  <2>1. PICK h \in DOMAIN accum : h > 1 /\ FirstHeader(accum, h) /\ Flush(h - 1)
    BY <1>2 DEF FlushToHeader
  <2>2. h - 1 \in 0..Len(accum)
    BY <1>0, <2>1
  <2>3. \A i \in DOMAIN accum : IntactAt(accum, i) => i > h - 1
    BY <1>0, <1>h, <2>1 DEF FirstHeader
  <2>4. Shape(h - 1)
    BY <2>1, <2>3 DEF Flush
  <2> QED BY <2>2, <2>4
<1>3. CASE FlushCorrupt
  <2>1. accum' = SubSeq(accum, 2 + 1, Len(accum)) /\ HeaderAt(accum, 1) /\ ~Complete(accum)
    BY <1>3 DEF FlushCorrupt, Flush
  <2>2. 2 \in 0..Len(accum) /\ accum[2] = 0
    BY <1>0, <2>1 DEF HeaderAt
  <2>3. ~IntactAt(accum, 1)
    BY <2>1, AnswerAccepted
  <2>4. ~HeaderAt(accum, 2)
    BY <2>2 DEF HeaderAt
  <2>5. \A i \in DOMAIN accum : IntactAt(accum, i) => i > 2
    BY <1>0, <1>h, <2>3, <2>4
  <2>6. Shape(2)
    BY <2>1, <2>5
  <2> QED BY <2>2, <2>6
<1>4. CASE Wait
  <2>1. accum' = SubSeq(accum, 0 + 1, Len(accum))
    BY <1>0, <1>4 DEF Wait
  <2>2. \A i \in DOMAIN accum : i > 0
    BY <1>0
  <2>3. 0 \in 0..Len(accum) /\ Shape(0)
    BY <1>0, <2>1, <2>2
  <2> QED BY <2>3
<1>5. CASE DecodeFrame
  <2>1. PICK n \in 9..64 : n = accum[3] /\ n <= Len(accum)
    <3>1. accum[3] \in 9..64 /\ accum[3] <= Len(accum)
      BY <1>5 DEF DecodeFrame, Complete, LenPlausible
    <3> QED BY <3>1
  <2>2. n \in 0..Len(accum)
    <3>1. n <= Len(accum)
      BY <2>1
    <3> QED BY <1>0, <3>1
  <2>3. Shape(n)
    BY <1>5, <2>1 DEF DecodeFrame
  <2> QED BY <2>2, <2>3
<1> QED
  BY <1>1, <1>2, <1>3, <1>4, <1>5 DEF DrainFrames

LEMMA LineStep == LineInv /\ [XgoNext]_xgo_vars => LineInv'
<1> SUFFICES ASSUME LineInv, [XgoNext]_xgo_vars PROVE LineInv'
  OBVIOUS
<1> USE DEF LineInv
<1>1. CASE Poll
  <2> DEFINE p == Asked(poll_phase)
  <2>1. accum' = accum /\ poll_phase' = NextPhase(poll_phase) /\ Respond(p)
    BY <1>1 DEF Poll
  <2>2. p \in Phase
    BY XgoAssumption DEF Asked, Phase
  <2>3. poll_phase' \in 0..Width - 1
    BY <2>1, XgoAssumption DEF NextPhase
  <2> HIDE DEF p
  <2>4. \A f \in Answers(p) : f \in Seq(Byte)
    BY <2>2, AnswerShape
  <2>5. \A f \in Answers(p) : \A g \in Damaged(f) : g \in Seq(Byte)
    BY <2>4, DamagedType
  <2>6. uart' \in Seq(Byte)
    <3>1. CASE UNCHANGED uart
      BY <3>1
    <3>2. CASE \E f \in Answers(p) : uart' = uart \o f
      BY <3>2, <2>4
    <3>3. CASE \E f \in Answers(p) : \E g \in Damaged(f) : uart' = uart \o g
      BY <3>3, <2>5
    <3> QED BY <2>1, <3>1, <3>2, <3>3 DEF Respond, line_vars
  <2> QED BY <2>1, <2>3, <2>6
<1>2. CASE Reopen
  BY <1>2 DEF Reopen, poll_vars
<1>3. CASE \E n \in DOMAIN uart : ReadBytes(n)
  <2>1. PICK n \in 1..Len(uart) : ReadBytes(n)
    BY <1>3
  <2>2. SubSeq(uart, 1, n) \in Seq(Byte)
    OBVIOUS
  <2>3. SubSeq(uart, n + 1, Len(uart)) \in Seq(Byte)
    BY FlushType
  <2> QED BY <2>1, <2>2, <2>3, SMTT(30) DEF ReadBytes, poll_vars
<1>4. CASE DrainFrames
  <2>1. accum' \in Seq(Byte)
    BY <1>4, DrainShape, FlushType
  <2>2. UNCHANGED <<poll_phase, uart>>
    BY <1>4 DEF DrainFrames, FlushNoHeader, FlushToHeader, FlushCorrupt, Wait, DecodeFrame,
                Flush, line_vars, poll_vars
  <2> QED BY <2>1, <2>2
<1>5. CASE UNCHANGED xgo_vars
  BY <1>5 DEF xgo_vars, line_vars, poll_vars
<1> QED
  BY <1>1, <1>2, <1>3, <1>4, <1>5 DEF XgoNext

LEMMA LineCorrect == XgoSpec => []LineInv
<1>1. XgoInit => LineInv
  BY XgoAssumption DEF XgoInit, LineInv
<1> QED
  BY <1>1, LineStep, PTL DEF XgoSpec
-----------------------------------------------------------------------------
\* The history holds answers only.
Answer == UNION {Answers(p) : p \in Phase}

TypeInv == /\ LineInv
           /\ unasked \in [Phase -> Nat] /\ loop \in {"select", "drain"}
           /\ outstanding \in Seq(Answer)
           /\ answers \in 0..MaxAnswers /\ noise \in 0..MaxNoise

\* The accumulator is empty or holds a header and part of its frame whenever
\* the loop leaves drain_frames.
WaitInv == loop = "select" /\ accum # <<>> => Partial(accum)

\* What the history says of a register, from the counter alone.
PollInv == /\ poll_phase \in 0..Width - 1
           /\ unasked \in [Phase -> Nat]
           /\ \A p \in Phase :
                IF poll_phase > p THEN unasked[p] = (poll_phase - 1 - p) % 5
                                  ELSE unasked[p] <= poll_phase + 5 - p
                                       /\ (p = 0 => unasked[p] = 0)

LEMMA XgoInitHolds == XgoInit => TypeInv /\ WaitInv /\ PollInv
  BY XgoAssumption DEF XgoInit, TypeInv, LineInv, WaitInv, PollInv, Phase

LEMMA XgoTypeStep == TypeInv /\ [XgoNext]_xgo_vars => TypeInv'
<1> SUFFICES ASSUME TypeInv, [XgoNext]_xgo_vars PROVE TypeInv'
  OBVIOUS
<1>1. LineInv'
  BY LineStep DEF TypeInv
<1>2. CASE Poll
  <2> DEFINE p == Asked(poll_phase)
  <2>1. /\ unasked' = [q \in Phase |-> IF q = p THEN 0 ELSE unasked[q] + 1]
        /\ Respond(p) /\ loop' = loop
    BY <1>2 DEF Poll
  <2>2. p \in Phase
    BY XgoAssumption DEF Asked, Phase, TypeInv, LineInv
  <2> HIDE DEF p
  <2>3. unasked' \in [Phase -> Nat]
    BY <2>1 DEF TypeInv
  <2>4. /\ outstanding' \in Seq(Answer)
        /\ answers' \in 0..MaxAnswers /\ noise' \in 0..MaxNoise
    <3>1. CASE UNCHANGED <<line_vars, outstanding>>
      BY <3>1 DEF TypeInv, line_vars
    <3>2. CASE ~UNCHANGED <<line_vars, outstanding>>
      <4>1. answers < MaxAnswers /\ answers' = answers + 1
        BY <2>1, <3>2 DEF Respond
      <4>2. \/ noise' = noise
            \/ noise < MaxNoise /\ noise' = noise + 1
        BY <2>1, <3>2 DEF Respond
      <4>3. PICK f \in Answers(p) : outstanding' \in {outstanding, Append(outstanding, f)}
        BY <2>1, <3>2 DEF Respond
      <4>4. f \in Answer
        BY <2>2 DEF Answer
      <4>5. outstanding' \in Seq(Answer)
        BY <4>3, <4>4 DEF TypeInv
      <4> QED BY <4>1, <4>2, <4>5, XgoAssumption DEF TypeInv
    <3> QED BY <3>1, <3>2
  <2> QED BY <1>1, <2>1, <2>3, <2>4 DEF TypeInv
<1>3. CASE Reopen
  <2>1. outstanding' \in Seq(Answer)
    BY <1>3 DEF Reopen
  <2> QED BY <1>1, <1>3, <2>1 DEF Reopen, TypeInv, poll_vars
<1>4. CASE \E n \in DOMAIN uart : ReadBytes(n)
  BY <1>1, <1>4 DEF ReadBytes, TypeInv, poll_vars
<1>5. CASE FlushNoHeader \/ FlushToHeader \/ FlushCorrupt \/ Wait
  BY <1>1, <1>5 DEF FlushNoHeader, FlushToHeader, FlushCorrupt, Wait, Flush, TypeInv,
                    poll_vars, line_vars
<1>6. CASE DecodeFrame
  <2>1. outstanding' \in Seq(Answer)
    <3>1. CASE outstanding = <<>>
      BY <1>6, <3>1 DEF DecodeFrame
    <3>2. CASE outstanding # <<>>
      BY <1>6, <3>2 DEF DecodeFrame, TypeInv
    <3> QED BY <3>1, <3>2
  <2> QED BY <1>1, <1>6, <2>1 DEF DecodeFrame, TypeInv, poll_vars, line_vars
<1>7. CASE UNCHANGED xgo_vars
  BY <1>1, <1>7 DEF xgo_vars, TypeInv, poll_vars, line_vars
<1> QED BY <1>2, <1>3, <1>4, <1>5, <1>6, <1>7 DEF XgoNext, DrainFrames

LEMMA XgoTypeInvariant == XgoSpec => []TypeInv
  BY XgoInitHolds, XgoTypeStep, PTL DEF XgoSpec

LEMMA XgoTyped == TypeInv => XgoTypeOK
<1> SUFFICES ASSUME TypeInv PROVE XgoTypeOK
  OBVIOUS
<1>1. \A i \in DOMAIN outstanding : \E p \in Phase : outstanding[i] \in Answers(p)
  BY DEF TypeInv, Answer
<1> QED BY <1>1 DEF TypeInv, XgoTypeOK, LineInv

(* Every variable keeps its type: the counter wraps inside its width, and  *)
(* the line and the accumulator hold bytes, the checksums included, however *)
(* many answers and damages there are (adapters/xgo_uart.rs:103-109,       *)
(* :152-158).                                                              *)
THEOREM XgoTypeCorrect == XgoSpec => []XgoTypeOK
  BY XgoTyped, XgoTypeInvariant, PTL

-----------------------------------------------------------------------------
\* What IntactFramesKept asks of a step.
IntactStay == LET gone == Len(accum) - Len(accum') IN
              \A i \in DOMAIN accum :
                IntactAt(accum, i) => i > gone /\ IntactAt(accum', i - gone)

LEMMA IntactStep ==
    LineInv /\ [XgoNext]_xgo_vars
      => [loop = "drain" /\ ~Complete(accum) => IntactStay]_xgo_vars
<1> SUFFICES ASSUME LineInv, [XgoNext]_xgo_vars, loop = "drain", ~Complete(accum),
                      xgo_vars' # xgo_vars
             PROVE  IntactStay
  OBVIOUS
<1>1. DrainFrames
  BY DEF XgoNext, Poll, Reopen, ReadBytes
<1>2. PICK k \in 0..Len(accum) :
        /\ accum' = SubSeq(accum, k + 1, Len(accum))
        /\ \A i \in DOMAIN accum : IntactAt(accum, i) => i > k
  BY <1>1, DrainShape
<1>3. accum \in Seq(Byte) /\ Len(accum) \in Nat
  BY DEF LineInv
<1>4. Len(accum') = Len(accum) - k
  BY <1>2, <1>3, FlushType
<1>5. Len(accum) - Len(accum') = k
  BY <1>3, <1>4
<1>6. \A i \in DOMAIN accum : IntactAt(accum, i) => IntactAt(accum', i - k)
  BY <1>2, <1>3, FlushKeepsAnswer
<1> QED
  BY <1>2, <1>5, <1>6 DEF IntactStay

(* Resynchronising keeps every undamaged answer: whatever the robot sends, *)
(* the line damages and however reads are split                            *)
(* (adapters/xgo_uart.rs:196-232).                                         *)
THEOREM IntactKept == XgoSpec => IntactFramesKept
  BY IntactStep, LineCorrect, PTL DEF XgoSpec, IntactFramesKept, IntactStay

LEMMA WaitStep == WaitInv /\ [XgoNext]_xgo_vars => WaitInv'
<1> SUFFICES ASSUME WaitInv, [XgoNext]_xgo_vars PROVE WaitInv'
  OBVIOUS
<1>1. CASE Poll
  BY <1>1 DEF Poll, WaitInv
<1>2. CASE Reopen
  BY <1>2 DEF Reopen, WaitInv
<1>3. CASE \E n \in DOMAIN uart : ReadBytes(n)
  BY <1>3 DEF ReadBytes, WaitInv
<1>4. CASE Wait
  BY <1>4 DEF Wait, WaitInv
<1>5. CASE FlushNoHeader \/ FlushToHeader \/ FlushCorrupt \/ DecodeFrame
  BY <1>5 DEF FlushNoHeader, FlushToHeader, FlushCorrupt, DecodeFrame, Flush, WaitInv
<1>6. CASE UNCHANGED xgo_vars
  BY <1>6 DEF xgo_vars, WaitInv
<1> QED
  BY <1>1, <1>2, <1>3, <1>4, <1>5, <1>6 DEF XgoNext, DrainFrames

LEMMA WaitsForOne == WaitInv => WaitsForPartialFrame
<1>1. \A n \in 9..64 : n <= 64
  OBVIOUS
<1>2. Partial(accum) => HeaderAt(accum, 1) /\ accum[3] <= 64 /\ Len(accum) < accum[3]
  BY <1>1, Zenon DEF Partial, LenPlausible
<1> QED BY <1>2 DEF WaitInv, WaitsForPartialFrame

(* A damaged LEN neither lets the accumulator grow nor makes the loop wait *)
(* for more than 64 bytes (adapters/xgo_uart.rs:216-222).                  *)
THEOREM WaitIsBounded == XgoSpec => []WaitsForPartialFrame
  BY XgoInitHolds, WaitStep, WaitsForOne, PTL DEF XgoSpec

LEMMA PollStep == PollInv /\ [XgoNext]_xgo_vars => PollInv'
<1> SUFFICES ASSUME PollInv, [XgoNext]_xgo_vars PROVE PollInv'
  OBVIOUS
<1>1. CASE Poll
  <2> DEFINE n == poll_phase
             q == n % 5
  <2>1. /\ poll_phase' = (n + 1) % Width
        /\ unasked' = [p \in Phase |-> IF p = q THEN 0 ELSE unasked[p] + 1]
    BY <1>1 DEF Poll, NextPhase, Asked
  <2>2. n \in 0..Width - 1 /\ unasked \in [Phase -> Nat] /\ q \in Phase
    <3>1. n \in 0..Width - 1 /\ unasked \in [Phase -> Nat]
      BY DEF PollInv
    <3>2. n \in Int
      BY <3>1, XgoAssumption
    <3>3. q \in 0..4
      BY ONLY <3>2
    <3> QED BY <3>1, <3>3 DEF Phase
  <2>3. unasked' \in [Phase -> Nat]
    BY <2>1, <2>2
  <2>4. CASE n = Width - 1
    <3>1. poll_phase' = 0 /\ q = 0 /\ n >= 5
      <4>1. Width \in Nat /\ Width > 5 /\ Width % 5 = 1
        BY XgoAssumption
      <4>2. n + 1 = Width /\ n >= 5 /\ n \in Nat
        BY <2>4, <4>1
      <4>3. q = 0
        BY <4>1, <4>2
      <4>4. Width % Width = 0
        BY <4>1
      <4> QED BY <2>1, <4>2, <4>3, <4>4
    <3>2. ASSUME NEW p \in Phase
          PROVE unasked'[p] <= 5 - p /\ (p = 0 => unasked'[p] = 0)
      <4>1. unasked[p] = (n - 1 - p) % 5
        BY <2>2, <3>1 DEF PollInv, Phase
      <4>2. p # 0 => (n - 1 - p) % 5 = 4 - p
        BY <2>2, <3>1 DEF Phase
      <4> QED BY <2>1, <2>2, <3>1, <4>1, <4>2 DEF Phase
    <3>3. poll_phase' \in 0..Width - 1
      BY <3>1, XgoAssumption
    <3>4. ASSUME NEW p \in Phase
          PROVE  /\ ~(poll_phase' > p)
                 /\ unasked'[p] <= poll_phase' + 5 - p /\ (p = 0 => unasked'[p] = 0)
      BY <3>1, <3>2 DEF Phase
    <3> QED BY <2>3, <3>3, <3>4 DEF PollInv
  <2>5. CASE n # Width - 1
    <3>1. poll_phase' = n + 1 /\ n + 1 \in 0..Width - 1
      <4>1. n + 1 \in 0..Width - 1
        BY <2>2, <2>5, XgoAssumption
      <4>2. \A w \in Nat : \A x \in 0..w - 1 : x % w = x
        OBVIOUS
      <4> QED BY <2>1, <4>1, <4>2, XgoAssumption
    <3>2. ASSUME NEW p \in Phase
          PROVE  IF n + 1 > p THEN unasked'[p] = (n - p) % 5
                              ELSE /\ unasked'[p] <= n + 1 + 5 - p
                                   /\ p = 0 => unasked'[p] = 0
      <4>1. unasked'[p] = IF p = q THEN 0 ELSE unasked[p] + 1
        BY <2>1
      <4>2. CASE n > p
        <5>1. unasked[p] = (n - 1 - p) % 5
          BY <4>2 DEF PollInv
        <5>2. (n - p) % 5 = IF p = q THEN 0 ELSE ((n - 1 - p) % 5) + 1
          BY <2>2, <4>2 DEF Phase
        <5> QED BY <2>2, <4>1, <4>2, <5>1, <5>2 DEF Phase
      <4>3. CASE n = p
        BY <2>2, <4>1, <4>3 DEF Phase
      <4>4. CASE n < p
        BY <2>2, <4>1, <4>4 DEF Phase, PollInv
      <4> QED BY <2>2, <4>2, <4>3, <4>4 DEF Phase
    <3> QED BY <2>2, <2>3, <3>1, <3>2 DEF PollInv, Phase
  <2> QED BY <2>4, <2>5
<1>2. CASE ~Poll
  BY <1>2 DEF XgoNext, Reopen, ReadBytes, DrainFrames, FlushNoHeader, FlushToHeader,
         FlushCorrupt, Wait, DecodeFrame, Flush, PollInv, xgo_vars, poll_vars
<1> QED BY <1>1, <1>2

LEMMA PolledInTurn == PollInv => PollCadence
<1> SUFFICES ASSUME PollInv, NEW p \in Phase PROVE unasked[p] <= 5
  BY DEF PollCadence
<1>1. CASE poll_phase > p
  <2>1. unasked[p] = (poll_phase - 1 - p) % 5
    BY <1>1 DEF PollInv
  <2>2. poll_phase - 1 - p \in Int
    BY XgoAssumption DEF PollInv, Phase
  <2> QED BY <2>1, <2>2
<1>2. CASE ~(poll_phase > p)
  <2>1. unasked[p] <= poll_phase + 5 - p
    BY <1>2 DEF PollInv
  <2>2. poll_phase \in Int /\ p \in Int /\ unasked[p] \in Nat
    BY XgoAssumption DEF PollInv, Phase
  <2> QED BY <1>2, <2>1, <2>2
<1> QED BY <1>1, <1>2

(* No register is starved, whatever the counter's width, as long as it is  *)
(* one more than a multiple of five, as 256 is: adapters/xgo_uart.rs:375.  *)
THEOREM NoRegisterStarves == XgoSpec => []PollCadence
  BY XgoInitHolds, PollStep, PolledInTurn, PTL DEF XgoSpec

-----------------------------------------------------------------------------
(* Undamaged answers are decoded in order: the accumulator and the line    *)
(* after it are the answers of the history, one behind the other.          *)

\* What the proofs below need of an answer.
LEMMA AnswerFacts ==
    ASSUME NEW f \in Answer
    PROVE  /\ f \in Seq(Byte) /\ Len(f) \in 9..20 /\ DOMAIN f = 1..Len(f)
           /\ f[1] = 85 /\ f[2] = 0 /\ f[3] = Len(f)
<1>1. PICK p \in Phase : f \in Answers(p)
  BY DEF Answer
<1>2. f \in Seq(Byte) /\ f[3] = Len(f)
  BY <1>1, AnswerShape
<1>3. Len(f) \in 9..20 /\ DOMAIN f = 1..Len(f) /\ f[1] = 85 /\ f[2] = 0
  BY <1>1, AnswerBounds
<1> QED BY <1>2, <1>3

\* What is left when k bytes are taken from the front.
LEMMA Suffix ==
    ASSUME NEW s \in Seq(Byte), NEW k \in Nat, k <= Len(s)
    PROVE  LET t == SubSeq(s, k + 1, Len(s)) IN
           /\ t \in Seq(Byte) /\ Len(t) = Len(s) - k
           /\ \A i \in 1..Len(s) - k : t[i] = s[k + i]
<1> DEFINE t == SubSeq(s, k + 1, Len(s))
<1>1. k \in 0..Len(s) /\ Len(s) \in Nat
  OBVIOUS
<1>2. t \in Seq(Byte)
  BY <1>1, FlushType
<1>3. Len(t) = Len(s) - k /\ \A i \in 1..Len(s) - k : t[i] = s[k + i]
  BY <1>1
<1> QED BY <1>2, <1>3

\* off tells where each answer of o ends in the stream s, which is their
\* concatenation.
Layout(off, s, o) ==
    /\ off \in [0..Len(o) -> Nat]
    /\ off[0] = 0 /\ off[Len(o)] = Len(s)
    /\ \A i, k \in 0..Len(o) : i <= k => off[i] <= off[k]
    /\ \A i \in 1..Len(o) : off[i] = off[i - 1] + Len(o[i])
    /\ \A i \in 1..Len(o) : \A j \in 1..Len(o[i]) : s[off[i - 1] + j] = o[i][j]

Concatenates(s, o) == \E off : Layout(off, s, o)

\* Another answer arrives behind the others.
LEMMA ArrivalConcatenates ==
    ASSUME NEW s \in Seq(Byte), NEW o \in Seq(Answer), NEW f \in Answer,
           Concatenates(s, o)
    PROVE  Concatenates(s \o f, Append(o, f))
<1> DEFINE n == Len(o)
           l == Len(s)
           m == Len(f)
           t == s \o f
           q == Append(o, f)
<1>1. PICK off : Layout(off, s, o)
  BY DEF Concatenates
<1>2. /\ n \in Nat /\ l \in Nat /\ f \in Seq(Byte) /\ m \in Nat
  BY AnswerFacts
<1>3. /\ Len(t) = l + m
      /\ \A i \in 1..l : t[i] = s[i]
      /\ \A i \in 1..m : t[l + i] = f[i]
  <2>1. /\ Len(t) = l + m
        /\ \A i \in 1..l + m : t[i] = IF i <= l THEN s[i] ELSE f[i - l]
    BY <1>2, ConcatProperties
  <2> HIDE DEF t, l, m
  <2> QED BY <1>2, <2>1
<1>4. /\ Len(q) = n + 1
      /\ \A i \in 1..n : q[i] = o[i]
      /\ q[n + 1] = f
  BY AppendProperties
<1>5. /\ off \in [0..n -> Nat] /\ off[0] = 0 /\ off[n] = l
      /\ \A i, k \in 0..n : i <= k => off[i] <= off[k]
      /\ \A i \in 1..n : off[i] = off[i - 1] + Len(o[i])
      /\ \A i \in 1..n : \A j \in 1..Len(o[i]) : s[off[i - 1] + j] = o[i][j]
  BY <1>1 DEF Layout
<1>6. \A i \in 1..n : Len(o[i]) \in Nat
  <2>1. \A i \in 1..n : o[i] \in Answer
    OBVIOUS
  <2>2. \A g \in Answer : Len(g) \in Nat
    BY AnswerFacts
  <2> QED BY <2>1, <2>2
<1> HIDE DEF n, l, m, t, q
<1> DEFINE new == [i \in 0..n + 1 |-> IF i = n + 1 THEN l + m ELSE off[i]]
<1>7. /\ new \in [0..n + 1 -> Nat]
      /\ new[n + 1] = l + m
      /\ \A i \in 0..n : new[i] = off[i]
  BY <1>2, <1>5
<1> HIDE DEF new
<1>8. \A i \in 0..n : off[i] <= l
  <2> TAKE i \in 0..n
  <2>1. n \in 0..n /\ i <= n
    BY <1>2
  <2> QED BY <1>5, <2>1
<1>9. \A i, k \in 0..n + 1 : i <= k => new[i] <= new[k]
  <2> SUFFICES ASSUME NEW i \in 0..n + 1, NEW k \in 0..n + 1, i <= k
               PROVE  new[i] <= new[k]
    OBVIOUS
  <2>1. CASE k \in 0..n
    <3>1. i \in 0..n
      BY <1>2, <2>1
    <3>2. off[i] <= off[k] /\ new[i] = off[i] /\ new[k] = off[k]
      BY <1>5, <1>7, <2>1, <3>1
    <3> QED BY <3>2
  <2>2. CASE k = n + 1 /\ i \in 0..n
    <3>1. off[i] \in Nat /\ off[i] <= l
      BY <1>5, <1>8, <2>2
    <3> QED BY <1>2, <1>7, <2>2, <3>1
  <2>3. CASE k = n + 1 /\ i = n + 1
    BY <1>2, <1>7, <2>3
  <2> QED BY <1>2, <2>1, <2>2, <2>3
<1>10. ASSUME NEW i \in 1..n + 1
       PROVE  /\ new[i] = new[i - 1] + Len(q[i])
              /\ \A j \in 1..Len(q[i]) : t[new[i - 1] + j] = q[i][j]
  <2>1. CASE i \in 1..n
    <3>1. i \in 0..n /\ i - 1 \in 0..n /\ q[i] = o[i]
      BY <1>2, <1>4, <2>1
    <3>2. new[i] = off[i] /\ new[i - 1] = off[i - 1]
      BY <1>7, <3>1
    <3>3. off[i] = off[i - 1] + Len(o[i]) /\ off[i - 1] \in Nat /\ off[i] <= l
      BY <1>5, <1>8, <2>1, <3>1
    <3>4. ASSUME NEW j \in 1..Len(o[i])
          PROVE  t[off[i - 1] + j] = o[i][j]
      <4>1. off[i - 1] + j \in 1..l
        BY <1>2, <1>6, <2>1, <3>3, SMTT(30)
      <4> QED BY <1>3, <1>5, <2>1, <4>1
    <3> QED BY <3>1, <3>2, <3>3, <3>4
  <2>2. CASE i = n + 1
    <3>1. new[i] = l + m /\ new[i - 1] = l /\ q[i] = f
      BY <1>2, <1>4, <1>5, <1>7, <2>2
    <3> QED BY <1>3, <3>1 DEF m
  <2> QED BY <1>2, <2>1, <2>2
<1>11. new[0] = 0
  BY <1>2, <1>5, <1>7
<1>12. Layout(new, t, q)
  BY <1>3, <1>4, <1>7, <1>9, <1>10, <1>11 DEF Layout
<1> QED BY <1>12 DEF Concatenates, t, q

\* The oldest answer is at the front of the stream, and what follows it are
\* the others.
LEMMA FrontConcatenates ==
    ASSUME NEW s \in Seq(Byte), NEW o \in Seq(Answer), o # <<>>, Concatenates(s, o)
    PROVE  LET f == Head(o) IN
           /\ f \in Answer /\ Len(f) <= Len(s)
           /\ \A j \in 1..Len(f) : s[j] = f[j]
           /\ Concatenates(SubSeq(s, Len(f) + 1, Len(s)), Tail(o))
<1> DEFINE f == Head(o)
           n == Len(o)
           l == Len(s)
           m == Len(f)
           t == SubSeq(s, m + 1, l)
           q == Tail(o)
<1>1. PICK off : Layout(off, s, o)
  BY DEF Concatenates
<1>2. /\ f \in Answer /\ f = o[1] /\ n \in Nat /\ n >= 1
      /\ Len(q) = n - 1 /\ \A i \in 1..n - 1 : q[i] = o[i + 1]
  BY HeadTailProperties
<1>3. l \in Nat /\ m \in Nat
  BY <1>2, AnswerFacts
<1>4. /\ off \in [0..n -> Nat] /\ off[0] = 0 /\ off[n] = l
      /\ \A i, k \in 0..n : i <= k => off[i] <= off[k]
      /\ \A i \in 1..n : off[i] = off[i - 1] + Len(o[i])
      /\ \A i \in 1..n : \A j \in 1..Len(o[i]) : s[off[i - 1] + j] = o[i][j]
  BY <1>1 DEF Layout
<1>5. \A i \in 1..n : Len(o[i]) \in Nat
  <2>1. \A i \in 1..n : o[i] \in Answer
    OBVIOUS
  <2>2. \A g \in Answer : Len(g) \in Nat
    BY AnswerFacts
  <2> QED BY <2>1, <2>2
<1>6. off[1] = m /\ \A j \in 1..m : s[j] = f[j]
  <2>1. 1 \in 1..n /\ 1 - 1 = 0
    BY <1>2
  <2>2. off[1] = 0 + Len(o[1]) /\ \A j \in 1..Len(o[1]) : s[0 + j] = o[1][j]
    BY <1>4, <2>1
  <2>3. off[1] = m
    BY <1>2, <1>3, <2>2
  <2>4. \A j \in 1..m : s[0 + j] = f[j]
    BY <1>2, <2>2
  <2>5. \A j \in 1..m : 0 + j = j
    BY <1>3
  <2> QED BY <2>3, <2>4, <2>5
<1>7. m <= l
  BY <1>2, <1>4, <1>6
<1>8. /\ Len(t) = l - m
      /\ \A i \in 1..l - m : t[i] = s[m + i]
  BY <1>3, <1>7, Suffix
<1> HIDE DEF f, n, l, m, t, q
<1> DEFINE new == [i \in 0..n - 1 |-> off[i + 1] - m]
<1>9. \A i \in 1..n : off[i] \in Nat /\ m <= off[i] /\ off[i] <= l
  <2> TAKE i \in 1..n
  <2>1. i \in 0..n /\ 1 \in 0..n /\ n \in 0..n /\ 1 <= i /\ i <= n
    BY <1>2
  <2> QED BY <1>4, <1>6, <2>1
<1>10. /\ new \in [0..n - 1 -> Nat]
       /\ \A i \in 0..n - 1 : new[i] = off[i + 1] - m
  <2>1. \A i \in 0..n - 1 : off[i + 1] - m \in Nat
    <3> TAKE i \in 0..n - 1
    <3>1. i + 1 \in 1..n
      BY <1>2
    <3> QED BY <1>3, <1>9, <3>1
  <2> QED BY <2>1
<1> HIDE DEF new
<1>11. new[0] = 0 /\ new[n - 1] = l - m
  <2>1. 0 \in 0..n - 1 /\ n - 1 \in 0..n - 1 /\ n - 1 + 1 = n /\ 0 + 1 = 1
    BY <1>2
  <2>2. new[0] = off[1] - m /\ new[n - 1] = off[n] - m
    BY <1>10, <2>1
  <2> QED BY <1>3, <1>4, <1>6, <2>2
<1>12. \A i, k \in 0..n - 1 : i <= k => new[i] <= new[k]
  <2> SUFFICES ASSUME NEW i \in 0..n - 1, NEW k \in 0..n - 1, i <= k
               PROVE  new[i] <= new[k]
    OBVIOUS
  <2>1. i + 1 \in 1..n /\ k + 1 \in 1..n /\ i + 1 \in 0..n /\ k + 1 \in 0..n
        /\ i + 1 <= k + 1
    BY <1>2
  <2>2. off[i + 1] <= off[k + 1] /\ off[i + 1] \in Nat /\ off[k + 1] \in Nat
    BY <1>4, <1>9, <2>1
  <2>3. new[i] = off[i + 1] - m /\ new[k] = off[k + 1] - m
    BY <1>10
  <2> QED BY <1>3, <2>2, <2>3
<1>13. ASSUME NEW i \in 1..n - 1
       PROVE  /\ new[i] = new[i - 1] + Len(q[i])
              /\ \A j \in 1..Len(q[i]) : t[new[i - 1] + j] = q[i][j]
  <2>1. /\ i + 1 \in 1..n /\ i \in 1..n /\ i \in 0..n - 1 /\ i - 1 \in 0..n - 1
        /\ (i - 1) + 1 = i /\ (i + 1) - 1 = i
    BY <1>2
  <2>2. new[i] = off[i + 1] - m /\ new[i - 1] = off[i] - m
    BY <1>10, <2>1
  <2>3. /\ q[i] = o[i + 1]
        /\ off[i + 1] = off[i] + Len(o[i + 1])
        /\ \A j \in 1..Len(o[i + 1]) : s[off[i] + j] = o[i + 1][j]
    BY <1>2, <1>4, <2>1
  <2>4. /\ off[i] \in Nat /\ m <= off[i] /\ off[i + 1] \in Nat /\ off[i + 1] <= l
        /\ Len(o[i + 1]) \in Nat
    BY <1>5, <1>9, <2>1
  <2>5. ASSUME NEW j \in 1..Len(o[i + 1])
        PROVE  t[(off[i] - m) + j] = o[i + 1][j]
    <3> DEFINE a == off[i]
               c == Len(o[i + 1])
    <3>0. a \in Nat /\ c \in Nat /\ m <= a /\ a + c <= l /\ j \in 1..c
      BY <2>3, <2>4
    <3> HIDE DEF a, c
    <3>3. (a - m) + j \in 1..l - m /\ m + ((a - m) + j) = a + j
      BY <1>3, <3>0
    <3>1. (off[i] - m) + j \in 1..l - m /\ m + ((off[i] - m) + j) = off[i] + j
      BY <3>3 DEF a
    <3>2. t[(off[i] - m) + j] = s[m + ((off[i] - m) + j)]
      BY <1>8, <3>1
    <3> QED BY <2>3, <3>1, <3>2
  <2>6. off[i + 1] - m = (off[i] - m) + Len(o[i + 1])
    BY <1>3, <2>3, <2>4
  <2> QED BY <2>2, <2>3, <2>5, <2>6
<1>14. Layout(new, t, q)
  BY <1>2, <1>8, <1>10, <1>11, <1>12, <1>13 DEF Layout
<1>15. Concatenates(t, q)
  BY <1>14 DEF Concatenates
<1> QED BY <1>2, <1>6, <1>7, <1>15 DEF f, l, m, t, q

LEMMA NothingConcatenates == Concatenates(<<>>, <<>>)
<1> DEFINE off == [i \in 0..0 |-> 0]
<1>1. /\ off \in [0..0 -> Nat] /\ off[0] = 0
      /\ \A i, k \in 0..0 : i <= k => off[i] <= off[k]
  OBVIOUS
<1>2. Len(<<>>) = 0 /\ 1..0 = {}
  OBVIOUS
<1> HIDE DEF off
<1>3. Layout(off, <<>>, <<>>)
  BY <1>1, <1>2 DEF Layout
<1> QED BY <1>3 DEF Concatenates

\* The accumulator and the line after it, as one stream.
LEMMA UartStream ==
    ASSUME NEW a \in Seq(Byte), NEW w \in Seq(Byte)
    PROVE  /\ a \o w \in Seq(Byte) /\ Len(a \o w) = Len(a) + Len(w)
           /\ \A i \in 1..Len(a) : (a \o w)[i] = a[i]
<1>1. a \o w \in Seq(Byte) /\ Len(a \o w) = Len(a) + Len(w)
  BY ConcatProperties
<1>2. \A i \in 1..Len(a) + Len(w) :
         (a \o w)[i] = IF i <= Len(a) THEN a[i] ELSE w[i - Len(a)]
  BY ConcatProperties
<1>3. ASSUME NEW i \in 1..Len(a)
      PROVE  i \in 1..Len(a) + Len(w) /\ i <= Len(a)
  OBVIOUS
<1> QED BY <1>1, <1>2, <1>3

LEMMA StreamAssociative ==
    ASSUME NEW a \in Seq(Byte), NEW u \in Seq(Byte), NEW v \in Seq(Byte)
    PROVE  (a \o u) \o v = a \o (u \o v)
BY ConcatAssociative

\* A read moves bytes from the line to the accumulator.
LEMMA ReadKeepsStream ==
    ASSUME NEW a \in Seq(Byte), NEW w \in Seq(Byte), NEW n \in 1..Len(w)
    PROVE  (a \o SubSeq(w, 1, n)) \o SubSeq(w, n + 1, Len(w)) = a \o w
<1> DEFINE u == SubSeq(w, 1, n)
           v == SubSeq(w, n + 1, Len(w))
<1>1. u \o v = w
  <2>1. u \o v = SubSeq(w, 1, Len(w))
    BY ConcatAdjacentSubSeq
  <2> QED BY <2>1, SubSeqFull
<1>2. u \in Seq(Byte)
  OBVIOUS
<1>3. v \in Seq(Byte)
  BY FlushType
<1> HIDE DEF u, v
<1>4. (a \o u) \o v = a \o (u \o v)
  BY <1>2, <1>3, StreamAssociative, SMTT(30)
<1> QED BY <1>1, <1>4 DEF u, v

\* A frame is taken from the front of the accumulator, thus of the stream.
LEMMA FlushFromStream ==
    ASSUME NEW a \in Seq(Byte), NEW w \in Seq(Byte), NEW k \in 0..Len(a)
    PROVE  SubSeq(a, k + 1, Len(a)) \o w = SubSeq(a \o w, k + 1, Len(a \o w))
<1> DEFINE l == Len(a)
           u == SubSeq(a, k + 1, l)
           s == a \o w
           v == SubSeq(s, k + 1, Len(s))
<1>1. /\ l \in Nat /\ Len(w) \in Nat /\ k \in 0..l
      /\ s \in Seq(Byte) /\ Len(s) = l + Len(w)
      /\ \A i \in 1..l + Len(w) : s[i] = IF i <= l THEN a[i] ELSE w[i - l]
  BY ConcatProperties
<1>2. /\ u \in Seq(Byte) /\ Len(u) = l - k
      /\ \A i \in 1..l - k : u[i] = a[k + i]
  BY Suffix
<1>3. /\ v \in Seq(Byte) /\ Len(v) = Len(s) - k
      /\ \A i \in 1..Len(s) - k : v[i] = s[k + i]
  <2> HIDE DEF s
  <2>1. k \in Nat /\ k <= Len(s)
    BY <1>1
  <2> QED BY <1>1, <2>1, Suffix
<1>4. /\ u \o w \in Seq(Byte) /\ Len(u \o w) = (l - k) + Len(w)
      /\ \A i \in 1..(l - k) + Len(w) :
            (u \o w)[i] = IF i <= l - k THEN u[i] ELSE w[i - (l - k)]
  <2> HIDE DEF u, l
  <2>1. /\ u \o w \in Seq(Byte) /\ Len(u \o w) = Len(u) + Len(w)
        /\ \A i \in 1..Len(u) + Len(w) :
              (u \o w)[i] = IF i <= Len(u) THEN u[i] ELSE w[i - Len(u)]
    BY <1>2, ConcatProperties
  <2> QED BY <1>2, <2>1, Zenon
<1> DEFINE x == u \o w
           c == Len(w)
<1>5. Len(x) = Len(v) /\ Len(x) = (l - k) + c
  BY <1>1, <1>3, <1>4
<1> HIDE DEF l, u, s, v, x, c
<1>6. ASSUME NEW i \in 1..(l - k) + c PROVE x[i] = v[i]
  <2>1. i \in 1..Len(s) - k /\ k + i \in 1..l + c
    BY <1>1 DEF c
  <2>2. v[i] = IF k + i <= l THEN a[k + i] ELSE w[(k + i) - l]
    BY <1>1, <1>3, <2>1 DEF c
  <2>3. x[i] = IF i <= l - k THEN u[i] ELSE w[i - (l - k)]
    BY <1>4 DEF x, c
  <2>4. (k + i) - l = i - (l - k) /\ (k + i <= l <=> i <= l - k)
    BY <1>1
  <2>5. i <= l - k => u[i] = a[k + i]
    BY <1>1, <1>2
  <2> QED BY <2>2, <2>3, <2>4, <2>5
<1>7. x = v
  <2>1. x \in Seq(Byte) /\ v \in Seq(Byte)
    BY <1>3, <1>4 DEF x
  <2>2. \A i \in 1..Len(x) : x[i] = v[i]
    BY <1>5, <1>6
  <2> QED BY <1>5, <2>1, <2>2, SeqEqual
<1> QED BY <1>7 DEF x, u, v, s, l

\* In step, three bytes are the start of the oldest answer: the scanner waits
\* for the rest of it or accepts it.
LEMMA ScannerSeesAnswer ==
    ASSUME NEW a \in Seq(Byte), NEW w \in Seq(Byte), NEW o \in Seq(Answer),
           Concatenates(a \o w, o), Len(a) >= 3
    PROVE  /\ o # <<>> /\ HeaderAt(a, 1) /\ a[3] = Len(Head(o))
           /\ Partial(a) \/ /\ Complete(a)
                            /\ SubSeq(a, 1, a[3]) = Head(o)
<1> DEFINE s == a \o w
           f == Head(o)
<1>1. /\ s \in Seq(Byte) /\ Len(s) = Len(a) + Len(w) /\ Len(a) \in Nat /\ Len(w) \in Nat
      /\ \A i \in 1..Len(a) : s[i] = a[i]
  BY UartStream
<1>2. o # <<>>
  <2>1. PICK off : Layout(off, s, o)
    BY DEF Concatenates
  <2>2. off[0] = 0 /\ off[Len(o)] = Len(s)
    BY <2>1 DEF Layout
  <2>3. Len(s) # 0
    BY <1>1
  <2>4. o = <<>> => Len(o) = 0
    OBVIOUS
  <2> HIDE DEF s
  <2> QED BY <2>2, <2>3, <2>4
<1>3. /\ f \in Answer
      /\ \A j \in 1..Len(f) : s[j] = f[j]
  BY <1>1, <1>2, FrontConcatenates
<1>4. /\ f \in Seq(Byte) /\ Len(f) \in 9..20 /\ DOMAIN f = 1..Len(f)
      /\ f[1] = 85 /\ f[2] = 0 /\ f[3] = Len(f)
  BY <1>3, AnswerFacts
<1> HIDE DEF s, f
<1>5. \A j \in 1..Len(a) : j <= Len(f) => a[j] = f[j]
  <2> TAKE j \in 1..Len(a)
  <2> HAVE j <= Len(f)
  <2>1. j \in 1..Len(f)
    BY <1>4
  <2> QED BY <1>1, <1>3, <2>1
<1>6. a[1] = 85 /\ a[2] = 0 /\ a[3] = Len(f)
  <2>1. \A j \in {1, 2, 3} : j \in 1..Len(a) /\ j <= Len(f)
    BY <1>1, <1>4, SMTT(30)
  <2> QED BY <1>4, <1>5, <2>1
<1>7. HeaderAt(a, 1)
  <2>1. 1 \in 1..Len(a) - 2 /\ 1 + 1 = 2
    BY <1>1
  <2> QED BY <1>6, <2>1 DEF HeaderAt
<1>8. CASE Len(a) < Len(f)
  <2>1. Len(f) \in 9..64
    <3>1. \A n \in 9..20 : n \in 9..64
      OBVIOUS
    <3> QED BY <1>4, <3>1, Zenon
  <2>2. Partial(a)
    BY <1>6, <1>7, <1>8, <2>1 DEF Partial, LenPlausible
  <2> QED BY <1>2, <1>6, <1>7, <2>2 DEF f
<1>9. CASE ~(Len(a) < Len(f))
  <2> DEFINE m == Len(f)
             t == SubSeq(a, 1, m)
  <2>0. m \in 9..20 /\ m \in 0..Len(a) /\ \A j \in 1..m : a[j] = f[j]
    <3>1. m \in 9..20 /\ m <= Len(a)
      <4>1. m \in 9..20 /\ Len(a) \in Nat /\ ~(Len(a) < m)
        BY <1>1, <1>4, <1>9
      <4> HIDE DEF m
      <4> QED BY ONLY <4>1
    <3>2. \A j \in 1..m : j \in 1..Len(a) /\ j <= Len(f)
      BY <1>1, <3>1
    <3> QED BY <1>1, <1>5, <3>1, <3>2
  <2>1. IntactAt(a, 1)
    <3>1. PICK p \in Phase : f \in Answers(p)
      BY <1>3 DEF Answer
    <3>2. 1 + Len(f) - 1 <= Len(a)
      BY <1>1, <2>0
    <3>3. \A j \in DOMAIN f : a[1 + j - 1] = f[j]
      <4> TAKE j \in DOMAIN f
      <4>1. j \in 1..m /\ 1 + j - 1 = j
        BY <1>4
      <4> QED BY <2>0, <4>1
    <3> QED BY <3>1, <3>2, <3>3 DEF IntactAt
  <2>2. Complete(a)
    BY <2>1, AnswerAccepted
  <2>3. t = f
    <3>1. t \in Seq(Byte) /\ Len(t) = m
      <4> HIDE DEF m
      <4> QED BY <2>0
    <3>2. \A j \in 1..m : t[j] = a[j]
      <4> HIDE DEF m
      <4> QED BY <2>0
    <3> HIDE DEF t
    <3>3. \A j \in 1..Len(t) : t[j] = f[j]
      BY <2>0, <3>1, <3>2
    <3> QED BY <1>4, <3>1, <3>3, SeqEqual
  <2> QED BY <1>2, <1>6, <1>7, <2>2, <2>3 DEF f
<1> QED BY <1>8, <1>9

InStep == Concatenates(accum \o uart, outstanding)

\* Where drain_frames never comes back from: it flushes nothing for ever.
Wedged == loop = "drain" /\ Len(accum) <= 2

Aligned == InStep \/ Wedged

LEMMA AlignedDecodes ==
    ASSUME TypeInv, Aligned
    PROVE  DecodedInOrder
<1> SUFFICES ASSUME loop = "drain", Complete(accum)
             PROVE  outstanding # <<>> /\ SubSeq(accum, 1, accum[3]) = Head(outstanding)
  BY DEF DecodedInOrder
<1>1. accum \in Seq(Byte) /\ uart \in Seq(Byte) /\ outstanding \in Seq(Answer)
  BY DEF TypeInv, LineInv
<1>2. Len(accum) >= 3
  BY <1>1 DEF Complete, HeaderAt
<1>3. Concatenates(accum \o uart, outstanding)
  BY <1>1, <1>2 DEF Aligned, InStep, Wedged
<1>4. ~Partial(accum)
  <2>1. accum[3] \in 9..64 /\ accum[3] <= Len(accum)
    BY DEF Complete, LenPlausible
  <2>2. \A n \in 9..64 : \A l \in Nat : n <= l => ~(l < n)
    OBVIOUS
  <2>3. Len(accum) \in Nat
    BY <1>1
  <2> QED BY <2>1, <2>2, <2>3, Zenon DEF Partial
<1> QED
  BY <1>1, <1>2, <1>3, <1>4, ScannerSeesAnswer

LEMMA AlignedPoll ==
    ASSUME TypeInv, InStep, Poll, noise' = noise
    PROVE  InStep'
<1> DEFINE p == Asked(poll_phase)
<1>1. accum \in Seq(Byte) /\ uart \in Seq(Byte) /\ outstanding \in Seq(Answer)
      /\ noise \in Nat
  BY XgoAssumption DEF TypeInv, LineInv
<1>2. Respond(p) /\ accum' = accum
  BY DEF Poll
<1>3. p \in Phase
  BY XgoAssumption DEF Asked, Phase, TypeInv, LineInv
<1> HIDE DEF p
<1>4. CASE UNCHANGED <<line_vars, outstanding>>
  BY <1>2, <1>4 DEF InStep, line_vars
<1>5. CASE ~UNCHANGED <<line_vars, outstanding>>
  <2>1. noise + 1 # noise
    BY <1>1
  <2>2. PICK f \in Answers(p) : uart' = uart \o f /\ outstanding' = Append(outstanding, f)
    BY <1>2, <1>5, <2>1 DEF Respond
  <2>3. f \in Answer
    BY <1>3 DEF Answer
  <2>4. f \in Seq(Byte)
    BY <2>3, AnswerFacts
  <2>5. (accum \o uart) \o f = accum \o (uart \o f)
    BY <1>1, <2>4, StreamAssociative
  <2>6. accum \o uart \in Seq(Byte)
    BY <1>1, UartStream
  <2>7. Concatenates((accum \o uart) \o f, Append(outstanding, f))
    BY <1>1, <2>3, <2>6, ArrivalConcatenates DEF InStep
  <2>8. accum' \o uart' = (accum \o uart) \o f
    BY <1>2, <2>2, <2>5
  <2> QED BY <2>2, <2>7, <2>8 DEF InStep
<1> QED BY <1>4, <1>5

LEMMA AlignedDrain ==
    ASSUME TypeInv, Aligned, DrainFrames
    PROVE  Aligned'
<1>1. /\ accum \in Seq(Byte) /\ uart \in Seq(Byte) /\ outstanding \in Seq(Answer)
      /\ Len(accum) \in Nat /\ loop = "drain"
  BY DEF TypeInv, LineInv, DrainFrames, FlushNoHeader, FlushToHeader, FlushCorrupt, Wait,
         DecodeFrame
<1>2. HeaderAt(accum, 1) => Len(accum) >= 3
  BY <1>1 DEF HeaderAt
<1>3. Len(accum) >= 3 => InStep
  BY <1>1 DEF Aligned, Wedged
<1>4. Len(accum) >= 3 =>
         /\ outstanding # <<>> /\ HeaderAt(accum, 1) /\ accum[3] = Len(Head(outstanding))
         /\ Partial(accum) \/ Complete(accum)
  BY <1>1, <1>3, ScannerSeesAnswer DEF InStep
<1>5. CASE FlushNoHeader
  <2>1. ~(Len(accum) >= 3)
    <3>1. ~(Len(accum) >= 3) \/ 1 \in DOMAIN accum
      BY <1>1
    <3> QED BY <1>4, <1>5, <3>1 DEF FlushNoHeader, NoHeader
  <2>2. PICK k \in 0..Len(accum) : accum' = SubSeq(accum, k + 1, Len(accum)) /\ loop' = loop
    BY <1>5 DEF FlushNoHeader, Flush
  <2>3. Len(accum') = Len(accum) - k
    BY <1>1, <2>2, FlushType
  <2>4. Len(accum') <= 2
    BY <1>1, <2>1, <2>3
  <2> QED BY <1>1, <2>2, <2>4 DEF Aligned, Wedged
<1>6. CASE FlushToHeader
  <2>1. PICK i \in DOMAIN accum : i > 1 /\ FirstHeader(accum, i)
    BY <1>6 DEF FlushToHeader
  <2>2. HeaderAt(accum, i) /\ ~HeaderAt(accum, 1)
    <3>1. 1 \in 1..i - 1
      BY <1>1, <2>1
    <3> QED BY <2>1, <3>1 DEF FirstHeader
  <2>3. Len(accum) >= 3
    BY <1>1, <2>2 DEF HeaderAt
  <2> QED BY <1>4, <2>2, <2>3
<1>7. CASE FlushCorrupt
  BY <1>2, <1>4, <1>7 DEF FlushCorrupt
<1>8. CASE Wait
  <2>1. InStep
    BY <1>2, <1>3, <1>8 DEF Wait, Partial
  <2> QED BY <1>8, <2>1 DEF Wait, Aligned, InStep, line_vars
<1>9. CASE DecodeFrame
  <2> DEFINE m == accum[3]
             s == accum \o uart
  <2>1. Len(accum) >= 3 /\ m <= Len(accum)
    BY <1>2, <1>9 DEF DecodeFrame, Complete
  <2>2. Concatenates(s, outstanding) /\ outstanding # <<>> /\ m = Len(Head(outstanding))
    BY <1>3, <1>4, <2>1 DEF InStep
  <2>3. s \in Seq(Byte)
    BY <1>1, UartStream
  <2>4. /\ Head(outstanding) \in Answer
        /\ Concatenates(SubSeq(s, m + 1, Len(s)), Tail(outstanding))
    <3> HIDE DEF s, m
    <3>1. /\ Head(outstanding) \in Answer
          /\ Concatenates(SubSeq(s, Len(Head(outstanding)) + 1, Len(s)), Tail(outstanding))
      BY <1>1, <2>2, <2>3, FrontConcatenates
    <3> QED BY <2>2, <3>1
  <2>5. m \in 0..Len(accum)
    <3>1. m \in 9..20
      BY <2>2, <2>4, AnswerFacts
    <3> HIDE DEF m
    <3> QED BY <1>1, <2>1, <3>1
  <2>6. SubSeq(accum, m + 1, Len(accum)) \o uart = SubSeq(s, m + 1, Len(s))
    <3> HIDE DEF m
    <3> QED BY <1>1, <2>5, FlushFromStream
  <2>7. /\ accum' = SubSeq(accum, m + 1, Len(accum)) /\ uart' = uart
        /\ outstanding' = Tail(outstanding)
    BY <1>9, <2>2 DEF DecodeFrame, line_vars
  <2>8. InStep'
    <3> HIDE DEF m, s
    <3> QED BY <2>4, <2>6, <2>7 DEF InStep
  <2> QED BY <2>8 DEF Aligned
<1> QED
  BY <1>5, <1>6, <1>7, <1>8, <1>9 DEF DrainFrames

\* What damages nothing keeps the scanner in step, and a new connection puts
\* it there.
LEMMA AlignedStep ==
    ASSUME TypeInv, [XgoNext]_xgo_vars, Reopen \/ (Aligned /\ noise' = noise)
    PROVE  Aligned'
<1>1. accum \in Seq(Byte) /\ uart \in Seq(Byte)
  BY DEF TypeInv, LineInv
<1>2. CASE Reopen
  <2>1. accum' = <<>> /\ uart' = <<>> /\ outstanding' = <<>>
    BY <1>2 DEF Reopen
  <2>2. <<>> \o <<>> = <<>>
    OBVIOUS
  <2> QED BY <2>1, <2>2, NothingConcatenates DEF Aligned, InStep
<1>3. CASE Poll /\ Aligned /\ noise' = noise
  <2>1. InStep
    BY <1>3 DEF Aligned, Wedged, Poll
  <2> QED BY <1>3, <2>1, AlignedPoll DEF Aligned
<1>4. CASE (\E n \in DOMAIN uart : ReadBytes(n)) /\ Aligned
  <2>1. PICK n \in 1..Len(uart) : ReadBytes(n)
    BY <1>1, <1>4
  <2>2. InStep
    BY <1>4, <2>1 DEF Aligned, Wedged, ReadBytes
  <2>3. accum' \o uart' = accum \o uart
    BY <1>1, <2>1, ReadKeepsStream DEF ReadBytes
  <2>4. outstanding' = outstanding
    BY <2>1 DEF ReadBytes
  <2> QED BY <2>2, <2>3, <2>4 DEF Aligned, InStep
<1>5. CASE DrainFrames /\ Aligned
  BY <1>5, AlignedDrain
<1>6. CASE UNCHANGED xgo_vars /\ Aligned
  BY <1>6 DEF xgo_vars, line_vars, Aligned, InStep, Wedged
<1> QED
  BY <1>2, <1>3, <1>4, <1>5, <1>6 DEF XgoNext

(* Whatever payloads the robot sends and wherever reads split the stream,  *)
(* a frame accepted before any byte was damaged is the oldest answer not   *)
(* decoded yet, whole (adapters/xgo_uart.rs:223-237).                      *)
THEOREM UndamagedInOrder == XgoSpec => [](noise = 0 => DecodedInOrder)
<1> DEFINE Inv == noise = 0 => Aligned
<1>1. XgoInit => Inv
  <2>1. <<>> \o <<>> = <<>>
    OBVIOUS
  <2> QED BY <2>1, NothingConcatenates DEF XgoInit, Aligned, InStep
<1>2. Inv /\ TypeInv /\ [XgoNext]_xgo_vars => Inv'
  <2> SUFFICES ASSUME Inv, TypeInv, [XgoNext]_xgo_vars, noise' = 0
               PROVE  Aligned'
    OBVIOUS
  <2>1. noise \in Nat /\ (noise' = noise \/ noise' = noise + 1)
    <3>1. noise \in Nat
      BY XgoAssumption DEF TypeInv
    <3>2. noise' = noise \/ noise' = noise + 1
      BY DEF XgoNext, Poll, Respond, Reopen, ReadBytes, DrainFrames, FlushNoHeader,
             FlushToHeader, FlushCorrupt, Wait, DecodeFrame, Flush, xgo_vars, line_vars
    <3> QED BY <3>1, <3>2
  <2>2. noise' = noise
    BY <2>1
  <2> QED BY <2>2, AlignedStep
<1>3. Inv /\ TypeInv => (noise = 0 => DecodedInOrder)
  BY AlignedDecodes
<1> QED
  BY <1>1, <1>2, <1>3, XgoTypeInvariant, PTL DEF XgoSpec

(* After damage, a new connection starts in step with the robot and stays  *)
(* so until the next damage (hardware_abstraction.rs:196-205,              *)
(* adapters/xgo_uart.rs:223-237): the accumulator carries nothing over.    *)
THEOREM ReconnectRealigns ==
    XgoSpec => [][Reopen \/ (Aligned /\ noise' = noise)
                    => Aligned' /\ DecodedInOrder']_xgo_vars
<1>1. TypeInv /\ [XgoNext]_xgo_vars
          => [Reopen \/ (Aligned /\ noise' = noise) => Aligned']_xgo_vars
  BY AlignedStep
<1>2. TypeInv /\ Aligned => DecodedInOrder
  BY AlignedDecodes
<1> QED
  BY <1>1, <1>2, XgoTypeInvariant, PTL DEF XgoSpec

=============================================================================
