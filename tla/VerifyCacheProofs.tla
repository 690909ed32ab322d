-------------------------- MODULE VerifyCacheProofs --------------------------
(***************************************************************************)
(* The result cache, for every capacity, key, time to live and length of a *)
(* run: the vector and the map list the same keys, the vector is sorted by *)
(* last use, and the map holds what was put last.                          *)
(***************************************************************************)
EXTENDS VerifyCache, FiniteSetTheorems, WellFoundedInduction, NaturalsInduction, TLAPS

-----------------------------------------------------------------------------
(***************************************************************************)
(* Sequences without one of their keys.                                    *)
(***************************************************************************)

\* A set of natural numbers that is not empty has a least element.
LEMMA LeastNat ==
    ASSUME NEW T \in SUBSET Nat, T # {}
    PROVE  \E n \in T : \A m \in T : n <= m
<1>1. PICK x \in T : \A y \in T : ~(<<y, x>> \in OpToRel(<, Nat))
  BY NatLessThanWellFounded, WFMin, Zenon
<1>2. \A y \in T : ~(y < x)
  BY <1>1, Zenon DEF OpToRel
<1> QED
  BY <1>2

\* A set that holds 0, and n + 1 whenever it holds n, up to a bound, holds
\* every number up to the bound.
LEMMA BoundedInduction ==
    ASSUME NEW S, NEW n \in Nat, 0 \in S, \A i \in 0..(n - 1) : i \in S => i + 1 \in S
    PROVE  \A i \in 0..n : i \in S
<1> SUFFICES ASSUME (0..n) \ S # {} PROVE FALSE
  OBVIOUS
<1> DEFINE T == (0..n) \ S
<1>1. T \in SUBSET Nat /\ T # {}
  OBVIOUS
<1>2. PICK i \in T : \A m \in T : i <= m
  <2> HIDE DEF T
  <2> QED
    BY <1>1, LeastNat
<1> QED
  BY <1>2

\* t lists the keys of s but one, in the same order.
Skips(t, s, key) ==
    /\ t \in Seq(Keys)
    /\ Len(t) <= Len(s)
    /\ \A i \in 1..Len(t) : t[i] # key
    /\ \A i \in 1..Len(s) : s[i] # key => \E j \in 1..Len(t) : t[j] = s[i]
    /\ \A i \in 1..Len(t) : \E a \in 1..Len(s) : t[i] = s[a]
    /\ \A i, j \in 1..Len(t) : i < j =>
         \E a, b \in 1..Len(s) : a < b /\ t[i] = s[a] /\ t[j] = s[b]
    /\ (\E i \in 1..Len(s) : s[i] = key) => Len(t) < Len(s)

\* Vec::retain, one key after the other
KeptTo(s, key, t, n) == IF s[n] = key THEN t ELSE Append(t, s[n])

LEMMA KeptExists ==
    ASSUME NEW s \in Seq(Keys), NEW key
    PROVE  \E f \in [0..Len(s) -> Seq(Keys)] :
             f[0] = <<>> /\ \A i \in 1..Len(s) : f[i] = KeptTo(s, key, f[i - 1], i)
<1> DEFINE n == Len(s)
           Good(f, k) == f[0] = <<>> /\ \A i \in 1..k : f[i] = KeptTo(s, key, f[i - 1], i)
           S == {k \in 0..n : \E f \in [0..n -> Seq(Keys)] : Good(f, k)}
<1>1. n \in Nat /\ \A i \in 1..n : s[i] \in Keys
  OBVIOUS
<1>2. 0 \in S
  <2> DEFINE f == [i \in 0..n |-> <<>>]
  <2>1. f \in [0..n -> Seq(Keys)] /\ Good(f, 0)
    OBVIOUS
  <2>2. \E g \in [0..n -> Seq(Keys)] : Good(g, 0)
    <3> HIDE DEF f, Good
    <3> QED
      BY <2>1
  <2> HIDE DEF Good, n
  <2> QED
    BY <2>2, <1>1
<1>3. \A k \in 0..(n - 1) : k \in S => k + 1 \in S
  <2> SUFFICES ASSUME NEW k \in 0..(n - 1), k \in S PROVE k + 1 \in S
    OBVIOUS
  <2>1. PICK f \in [0..n -> Seq(Keys)] : Good(f, k)
    OBVIOUS
  <2> DEFINE next == KeptTo(s, key, f[k], k + 1)
             g == [f EXCEPT ![k + 1] = next]
  <2>2. next \in Seq(Keys)
    <3>0. k \in 0..n /\ k + 1 \in 1..n
      BY <1>1
    <3>1. f[k] \in Seq(Keys) /\ s[k + 1] \in Keys
      <4> HIDE DEF n, Good
      <4> QED
        BY <1>1, <3>0
    <3>2. Append(f[k], s[k + 1]) \in Seq(Keys)
      <4> HIDE DEF n, Good
      <4> QED
        BY <3>1
    <3> QED
      BY <3>1, <3>2 DEF KeptTo
  <2>3. g \in [0..n -> Seq(Keys)]
    <3> HIDE DEF next
    <3> QED
      BY <2>2
  <2>4. g[k + 1] = next /\ \A i \in 0..k : g[i] = f[i]
    <3> HIDE DEF next
    <3> QED
      BY <1>1
  <2>5. Good(g, k + 1)
    <3>1. g[0] = <<>>
      BY <2>1, <2>4
    <3>2. ASSUME NEW i \in 1..(k + 1) PROVE g[i] = KeptTo(s, key, g[i - 1], i)
      <4>1. CASE i = k + 1
        <5>1. g[i - 1] = f[k]
          BY <2>4, <4>1
        <5> QED
          BY <2>4, <4>1, <5>1
      <4>2. CASE i # k + 1
        <5>1. i \in 1..k /\ g[i] = f[i] /\ g[i - 1] = f[i - 1]
          BY <2>4, <4>2
        <5> QED
          BY <2>1, <5>1
      <4> QED
        BY <4>1, <4>2
    <3> QED
      BY <3>1, <3>2
  <2>6. \E h \in [0..n -> Seq(Keys)] : Good(h, k + 1)
    <3> HIDE DEF g, Good
    <3> QED
      BY <2>3, <2>5
  <2>7. k + 1 \in 0..n
    BY <1>1
  <2> HIDE DEF Good, n
  <2> QED
    BY <2>6, <2>7
<1>4. n \in S
  <2> HIDE DEF S, n
  <2>1. \A i \in 0..n : i \in S
    BY <1>1, <1>2, <1>3, BoundedInduction
  <2> QED
    BY <1>1, <2>1
<1> QED
  BY <1>4

LEMMA RetainedSkips ==
    ASSUME NEW s \in Seq(Keys), NEW key
    PROVE  Skips(Retained(s, key), s, key)
<1> DEFINE n == Len(s)
           kept[i \in 0..n] == IF i = 0 THEN <<>>
                               ELSE IF s[i] = key THEN kept[i - 1] ELSE Append(kept[i - 1], s[i])
           Eq(f) == f = [i \in 0..n |-> IF i = 0 THEN <<>>
                           ELSE IF s[i] = key THEN f[i - 1] ELSE Append(f[i - 1], s[i])]
<1>1. PICK f \in [0..n -> Seq(Keys)] :
        f[0] = <<>> /\ \A i \in 1..n : f[i] = KeptTo(s, key, f[i - 1], i)
  <2> HIDE DEF kept
  <2> QED
    BY KeptExists
<1>2. n \in Nat /\ \A i \in 1..n : s[i] \in Keys
  OBVIOUS
<1>3. Eq(f)
  <2> HIDE DEF kept
  <2>1. \A i \in 0..n : f[i] = IF i = 0 THEN <<>>
                           ELSE IF s[i] = key THEN f[i - 1] ELSE Append(f[i - 1], s[i])
    <3> HIDE DEF n
    <3> SUFFICES ASSUME NEW i \in 0..n
                 PROVE  f[i] = IF i = 0 THEN <<>>
                           ELSE IF s[i] = key THEN f[i - 1] ELSE Append(f[i - 1], s[i])
      OBVIOUS
    <3>1. CASE i = 0
      BY <1>1, <3>1
    <3>2. CASE i # 0
      <4>1. i \in 1..n
        BY <1>2, <3>2
      <4>2. f[i] = KeptTo(s, key, f[i - 1], i)
        BY <1>1, <4>1
      <4> QED
        BY <3>2, <4>2 DEF KeptTo
    <3> QED
      BY <3>1, <3>2
  <2> QED
    BY <2>1
<1>4. Eq(kept)
  <2>1. kept = CHOOSE g : Eq(g)
    BY DEF kept
  <2> HIDE DEF kept, Eq
  <2> QED
    BY <1>3, <2>1
<1>5. Retained(s, key) = kept[n]
  BY DEF Retained
<1> HIDE DEF kept
<1>6. /\ kept[0] = <<>>
      /\ \A i \in 1..n : kept[i] = IF s[i] = key THEN kept[i - 1] ELSE Append(kept[i - 1], s[i])
  <2> HIDE DEF n
  <2>1. \A i \in 0..n : kept[i] = IF i = 0 THEN <<>>
                           ELSE IF s[i] = key THEN kept[i - 1] ELSE Append(kept[i - 1], s[i])
    BY <1>4, Zenon DEF Eq
  <2>2. 0 \in 0..n /\ \A i \in 1..n : i \in 0..n /\ i # 0
    BY <1>2
  <2>3. kept[0] = <<>>
    BY <2>1, <2>2, Zenon
  <2>4. ASSUME NEW i \in 1..n
        PROVE  kept[i] = IF s[i] = key THEN kept[i - 1] ELSE Append(kept[i - 1], s[i])
    BY <2>1, <2>2, Zenon
  <2> QED
    BY <2>3, <2>4
<1> HIDE DEF Eq, n
<1> DEFINE P(k) == /\ kept[k] \in Seq(Keys)
                   /\ Len(kept[k]) <= k
                   /\ \A i \in 1..Len(kept[k]) : kept[k][i] # key
                   /\ \A i \in 1..k : s[i] # key => \E j \in 1..Len(kept[k]) : kept[k][j] = s[i]
                   /\ \A i \in 1..Len(kept[k]) : \E a \in 1..k : kept[k][i] = s[a]
                   /\ \A i, j \in 1..Len(kept[k]) : i < j =>
                        \E a, b \in 1..k : a < b /\ kept[k][i] = s[a] /\ kept[k][j] = s[b]
                   /\ (\E i \in 1..k : s[i] = key) => Len(kept[k]) < k
           S == {k \in 0..n : P(k)}
<1>7. 0 \in S
  <2>1. kept[0] \in Seq(Keys) /\ Len(kept[0]) = 0 /\ 0 \in 0..n
    BY <1>2, <1>6
  <2>2. 1..Len(kept[0]) = {} /\ 1..0 = {}
    BY <2>1
  <2>3. Len(kept[0]) <= 0
    BY <2>1
  <2>4. P(0)
    BY <2>1, <2>2, <2>3, Zenon
  <2> QED
    BY <2>1, <2>4
<1>8. ASSUME NEW k \in 0..(n - 1), P(k) PROVE P(k + 1)
  <2> DEFINE t == kept[k]
             u == kept[k + 1]
  <2>0. k + 1 \in 1..n /\ k \in Nat /\ s[k + 1] \in Keys
    BY <1>2
  <2>1. u = IF s[k + 1] = key THEN t ELSE Append(t, s[k + 1])
    BY <1>6, <2>0
  <2>2. /\ t \in Seq(Keys)
        /\ Len(t) <= k
        /\ \A i \in 1..Len(t) : t[i] # key
        /\ \A i \in 1..k : s[i] # key => \E j \in 1..Len(t) : t[j] = s[i]
        /\ \A i \in 1..Len(t) : \E a \in 1..k : t[i] = s[a]
        /\ \A i, j \in 1..Len(t) : i < j =>
             \E a, b \in 1..k : a < b /\ t[i] = s[a] /\ t[j] = s[b]
        /\ (\E i \in 1..k : s[i] = key) => Len(t) < k
    BY <1>8
  <2> HIDE DEF t, u
  <2>3. CASE s[k + 1] = key
    <3>1. u = t
      BY <2>1, <2>3
    <3>2. \A i \in 1..k : i \in 1..(k + 1)
      BY <2>0
    <3>3. \A i \in 1..(k + 1) : s[i] # key => i \in 1..k
      BY <2>0, <2>3
    <3>4. Len(t) < k + 1 /\ Len(t) <= k + 1
      <4>1. Len(t) \in Nat /\ Len(t) <= k
        BY <2>2
      <4> QED
        BY <2>0, <4>1
    <3>5. /\ u \in Seq(Keys) /\ Len(u) <= k + 1
          /\ \A i \in 1..Len(u) : u[i] # key
          /\ (\E i \in 1..(k + 1) : s[i] = key) => Len(u) < k + 1
      BY <2>2, <3>1, <3>4
    <3>6. \A i \in 1..(k + 1) : s[i] # key => \E j \in 1..Len(u) : u[j] = s[i]
      BY <2>2, <3>1, <3>3
    <3>7. /\ \A i \in 1..Len(u) : \E a \in 1..(k + 1) : u[i] = s[a]
          /\ \A i, j \in 1..Len(u) : i < j =>
               \E a, b \in 1..(k + 1) : a < b /\ u[i] = s[a] /\ u[j] = s[b]
      BY <2>2, <3>1, <3>2
    <3> QED
      BY <3>5, <3>6, <3>7 DEF u
  <2>4. CASE s[k + 1] # key
    <3>1. /\ u \in Seq(Keys) /\ Len(u) = Len(t) + 1 /\ u[Len(u)] = s[k + 1]
          /\ Len(t) \in Nat /\ \A i \in 1..Len(t) : u[i] = t[i] /\ i \in 1..Len(u)
      BY <2>0, <2>1, <2>2, <2>4
    <3>2. \A i \in 1..Len(u) : i # Len(u) => i \in 1..Len(t)
      BY <3>1
    <3>3. Len(u) <= k + 1 /\ \A i \in 1..Len(u) : u[i] # key
      <4>1. Len(t) \in Nat /\ Len(t) <= k
        BY <2>2
      <4>2. Len(u) <= k + 1
        BY <2>0, <3>1, <4>1
      <4>3. ASSUME NEW i \in 1..Len(u) PROVE u[i] # key
        <5>1. CASE i = Len(u)
          BY <2>4, <3>1, <5>1
        <5>2. CASE i # Len(u)
          BY <2>2, <3>1, <3>2, <5>2
        <5> QED
          BY <5>1, <5>2
      <4> QED
        BY <4>2, <4>3
    <3>4. \A i \in 1..(k + 1) : s[i] # key => \E j \in 1..Len(u) : u[j] = s[i]
      <4> SUFFICES ASSUME NEW i \in 1..(k + 1), s[i] # key PROVE \E j \in 1..Len(u) : u[j] = s[i]
        OBVIOUS
      <4>1. CASE i = k + 1
        BY <3>1, <4>1
      <4>2. CASE i # k + 1
        <5>1. i \in 1..k
          BY <2>0, <4>2
        <5> QED
          BY <2>2, <3>1, <5>1
      <4> QED
        BY <4>1, <4>2
    <3>5. \A i \in 1..Len(u) : \E a \in 1..(k + 1) : u[i] = s[a]
      <4> SUFFICES ASSUME NEW i \in 1..Len(u) PROVE \E a \in 1..(k + 1) : u[i] = s[a]
        OBVIOUS
      <4>1. CASE i = Len(u)
        BY <2>0, <3>1, <4>1
      <4>2. CASE i # Len(u)
        <5>1. PICK a \in 1..k : t[i] = s[a]
          BY <2>2, <3>2, <4>2
        <5> QED
          BY <2>0, <3>1, <3>2, <4>2, <5>1
      <4> QED
        BY <4>1, <4>2
    <3>6. \A i, j \in 1..Len(u) : i < j =>
            \E a, b \in 1..(k + 1) : a < b /\ u[i] = s[a] /\ u[j] = s[b]
      <4> SUFFICES ASSUME NEW i \in 1..Len(u), NEW j \in 1..Len(u), i < j
                   PROVE  \E a, b \in 1..(k + 1) : a < b /\ u[i] = s[a] /\ u[j] = s[b]
        OBVIOUS
      <4>1. i \in 1..Len(t)
        BY <3>1, <3>2
      <4>2. CASE j = Len(u)
        <5>1. PICK a \in 1..k : t[i] = s[a]
          BY <2>2, <4>1
        <5>2. a < k + 1 /\ u[i] = s[a] /\ u[j] = s[k + 1] /\ a \in 1..(k + 1) /\ k + 1 \in 1..(k + 1)
          BY <2>0, <3>1, <4>1, <4>2, <5>1
        <5> QED
          BY <5>2
      <4>3. CASE j # Len(u)
        <5>1. j \in 1..Len(t)
          BY <3>2, <4>3
        <5>2. PICK a \in 1..k, b \in 1..k : a < b /\ t[i] = s[a] /\ t[j] = s[b]
          BY <2>2, <4>1, <5>1
        <5>3. a \in 1..(k + 1) /\ b \in 1..(k + 1) /\ u[i] = s[a] /\ u[j] = s[b]
          BY <2>0, <3>1, <4>1, <5>1, <5>2
        <5> QED
          BY <5>2, <5>3
      <4> QED
        BY <4>2, <4>3
    <3>7. (\E i \in 1..(k + 1) : s[i] = key) => Len(u) < k + 1
      <4>1. ASSUME NEW i \in 1..(k + 1), s[i] = key PROVE Len(u) < k + 1
        <5>1. i \in 1..k
          BY <2>0, <2>4, <4>1
        <5>2. Len(t) < k
          BY <2>2, <4>1, <5>1
        <5> QED
          BY <2>0, <3>1, <5>2
      <4> QED
        BY <4>1
    <3> QED
      BY <3>1, <3>3, <3>4, <3>5, <3>6, <3>7 DEF u
  <2> QED
    BY <2>3, <2>4
<1>9. P(n)
  <2>1. \A k \in 0..(n - 1) : k \in S => k + 1 \in S
    <3> SUFFICES ASSUME NEW k \in 0..(n - 1), k \in S PROVE k + 1 \in S
      OBVIOUS
    <3>1. P(k)
      OBVIOUS
    <3>2. P(k + 1)
      BY <1>8, <3>1
    <3> QED
      BY <1>2, <3>2
  <2> HIDE DEF P
  <2>2. n \in S
    <3> HIDE DEF S
    <3>1. \A i \in 0..n : i \in S
      BY <1>2, <1>7, <2>1, BoundedInduction
    <3> QED
      BY <1>2, <3>1
  <2> QED
    BY <2>2
<1> QED
  BY <1>5, <1>9 DEF Skips, n

\* Taking out the position of the only occurrence of a key.
LEMMA RemoveAtSkips ==
    ASSUME NEW s \in Seq(Keys), NEW p \in 1..Len(s),
           \A i \in 1..Len(s) : s[i] = s[p] => i = p
    PROVE  Skips(RemoveAt(s, p), s, s[p])
<1> DEFINE n == Len(s)
           t == RemoveAt(s, p)
<1>1. n \in Nat /\ p \in 1..n /\ \A i \in 1..n : s[i] \in Keys
  OBVIOUS
<1>2. /\ t \in Seq(Keys) /\ Len(t) = n - 1
      /\ \A i \in 1..(n - 1) : t[i] = IF i < p THEN s[i] ELSE s[i + 1]
  <2> DEFINE a == SubSeq(s, 1, p - 1)
             b == SubSeq(s, p + 1, n)
  <2>1. a \in Seq(Keys) /\ Len(a) = p - 1 /\ \A i \in 1..(p - 1) : a[i] = s[i]
    BY <1>1
  <2>2. b \in Seq(Keys) /\ Len(b) = n - p /\ \A i \in 1..(n - p) : b[i] = s[i + p]
    BY <1>1
  <2>3. t = a \o b
    BY DEF RemoveAt
  <2> HIDE DEF a, b, t, n
  <2>4. t \in Seq(Keys) /\ Len(t) = n - 1
    <3>1. t \in Seq(Keys)
      BY <2>1, <2>2, <2>3
    <3>0. a \in Seq(Keys) /\ b \in Seq(Keys)
      BY <2>1, <2>2
    <3>2. Len(t) = Len(a) + Len(b)
      BY <2>3, <3>0
    <3>3. (p - 1) + (n - p) = n - 1
      BY <1>1
    <3> QED
      BY <2>1, <2>2, <3>1, <3>2, <3>3
  <2>5. ASSUME NEW i \in 1..(n - 1) PROVE t[i] = IF i < p THEN s[i] ELSE s[i + 1]
    <3>1. CASE i < p
      <4>1. i \in 1..(p - 1) /\ i \in 1..Len(a)
        BY <1>1, <2>1, <3>1
      <4>2. t[i] = a[i]
        BY <2>1, <2>2, <2>3, <4>1
      <4> QED
        BY <2>1, <3>1, <4>1, <4>2
    <3>2. CASE ~(i < p)
      <4>1. i - (p - 1) \in 1..(n - p) /\ i - (p - 1) + p = i + 1 /\ ~(i <= Len(a))
        BY <1>1, <2>1, <3>2
      <4>2. i \in 1..(Len(a) + Len(b)) /\ Len(a) \in Nat /\ Len(b) \in Nat
        BY <1>1, <2>1, <2>2
      <4>3. t[i] = b[i - Len(a)]
        BY <2>1, <2>2, <2>3, <4>1, <4>2
      <4>4. b[i - (p - 1)] = s[i - (p - 1) + p]
        BY <2>2, <4>1
      <4> QED
        BY <2>1, <3>2, <4>1, <4>3, <4>4
    <3> QED
      BY <3>1, <3>2
  <2> QED
    BY <2>4, <2>5
<1>3. \A i \in 1..n : s[i] = s[p] => i = p
  OBVIOUS
<1> HIDE DEF t, n
<1>4. /\ \A i \in 1..(n - 1) : i < p => i \in 1..n
      /\ \A i \in 1..(n - 1) : ~(i < p) => i + 1 \in 1..n /\ i + 1 # p
      /\ \A i \in 1..n : i < p => i \in 1..(n - 1)
      /\ \A i \in 1..n : i # p /\ ~(i < p) => i - 1 \in 1..(n - 1) /\ ~(i - 1 < p) /\ (i - 1) + 1 = i
      /\ n - 1 <= n /\ n - 1 < n
  BY <1>1
<1>5. ASSUME NEW i \in 1..(n - 1) PROVE t[i] # s[p] /\ \E a \in 1..n : t[i] = s[a]
  <2>1. CASE i < p
    BY <1>1, <1>2, <1>3, <1>4, <2>1
  <2>2. CASE ~(i < p)
    BY <1>1, <1>2, <1>3, <1>4, <2>2
  <2> QED
    BY <2>1, <2>2
<1>6. ASSUME NEW i \in 1..n, s[i] # s[p] PROVE \E j \in 1..(n - 1) : t[j] = s[i]
  <2>1. CASE i < p
    BY <1>2, <1>4, <2>1
  <2>2. CASE ~(i < p)
    <3>1. i # p
      BY <1>6
    <3>2. i - 1 \in 1..(n - 1) /\ ~(i - 1 < p) /\ (i - 1) + 1 = i
      BY <1>4, <2>2, <3>1
    <3>3. t[i - 1] = s[i]
      BY <1>2, <3>2
    <3> QED
      BY <3>2, <3>3
  <2> QED
    BY <2>1, <2>2
<1>7. ASSUME NEW i \in 1..(n - 1), NEW j \in 1..(n - 1), i < j
      PROVE  \E a, b \in 1..n : a < b /\ t[i] = s[a] /\ t[j] = s[b]
  <2> DEFINE a == IF i < p THEN i ELSE i + 1
             b == IF j < p THEN j ELSE j + 1
  <2>1. a \in 1..n /\ b \in 1..n /\ a < b
    BY <1>1, <1>7
  <2>2. t[i] = s[a] /\ t[j] = s[b]
    BY <1>2
  <2> HIDE DEF a, b
  <2> QED
    BY <2>1, <2>2
<1>8. Len(t) = n - 1 /\ t \in Seq(Keys)
  BY <1>2
<1>9. Len(t) <= n /\ Len(t) < n
  BY <1>4, <1>8
<1>10. /\ \A i \in 1..Len(t) : t[i] # s[p]
       /\ \A i \in 1..n : s[i] # s[p] => \E j \in 1..Len(t) : t[j] = s[i]
       /\ \A i \in 1..Len(t) : \E a \in 1..n : t[i] = s[a]
       /\ \A i, j \in 1..Len(t) : i < j =>
            \E a, b \in 1..n : a < b /\ t[i] = s[a] /\ t[j] = s[b]
  <2>1. 1..Len(t) = 1..(n - 1)
    BY <1>8
  <2>2. \A i \in 1..Len(t) : t[i] # s[p] /\ \E a \in 1..n : t[i] = s[a]
    BY <1>5, <2>1
  <2>3. \A i \in 1..n : s[i] # s[p] => \E j \in 1..Len(t) : t[j] = s[i]
    BY <1>6, <2>1
  <2>4. \A i, j \in 1..Len(t) : i < j =>
          \E a, b \in 1..n : a < b /\ t[i] = s[a] /\ t[j] = s[b]
    <3> SUFFICES ASSUME NEW i \in 1..Len(t), NEW j \in 1..Len(t), i < j
                 PROVE  \E a, b \in 1..n : a < b /\ t[i] = s[a] /\ t[j] = s[b]
      OBVIOUS
    <3>1. i \in 1..(n - 1) /\ j \in 1..(n - 1)
      BY <2>1
    <3> QED
      BY <1>7, <3>1
  <2> QED
    BY <2>2, <2>3, <2>4
<1>11. Skips(t, s, s[p])
  BY <1>8, <1>9, <1>10, Zenon DEF Skips, n
<1> QED
  BY <1>11 DEF t

-----------------------------------------------------------------------------
(***************************************************************************)
(* A vector that lists a set of keys by their last use.                    *)
(***************************************************************************)

\* s lists D, least recently used first.
Lists(s, D, u) ==
    /\ s \in Seq(Keys)
    /\ \A i \in 1..Len(s) : s[i] \in D
    /\ \A k \in D : \E i \in 1..Len(s) : s[i] = k
    /\ \A i, j \in 1..Len(s) : i < j => u[s[i]] < u[s[j]]

\* Two places of the vector hold different keys.
LEMMA ListsOnce ==
    ASSUME NEW s, NEW D, NEW u \in [Keys -> Nat], Lists(s, D, u)
    PROVE  \A i, j \in 1..Len(s) : s[i] = s[j] => i = j
<1> SUFFICES ASSUME NEW i \in 1..Len(s), NEW j \in 1..Len(s), s[i] = s[j], i # j PROVE FALSE
  OBVIOUS
<1>1. s \in Seq(Keys) /\ Len(s) \in Nat
  BY DEF Lists
<1>2. s[i] \in Keys /\ i \in Nat /\ j \in Nat
  BY <1>1
<1>3. u[s[i]] \in Nat
  BY <1>2
<1>4. i < j \/ j < i
  BY <1>2
<1>5. u[s[i]] < u[s[j]] \/ u[s[j]] < u[s[i]]
  BY <1>4 DEF Lists
<1> QED
  BY <1>3, <1>5

\* What the vector says of the map.
LEMMA ListsCount ==
    ASSUME NEW s, NEW D, NEW u \in [Keys -> Nat], Lists(s, D, u)
    PROVE  /\ IsInjective(s)
           /\ Range(s) = D
           /\ IsFiniteSet(D)
           /\ Cardinality(D) = Len(s)
           /\ Len(s) \in Nat
<1>1. s \in Seq(Keys) /\ Len(s) \in Nat /\ DOMAIN s = 1..Len(s)
  BY DEF Lists
<1>2. \A i, j \in 1..Len(s) : s[i] = s[j] => i = j
  BY ListsOnce
<1>3. IsInjective(s)
  BY <1>1, <1>2 DEF IsInjective
<1>4. /\ \A i \in 1..Len(s) : s[i] \in D
      /\ \A k \in D : \E i \in 1..Len(s) : s[i] = k
  BY DEF Lists
<1>5. Range(s) = D
  BY <1>1, <1>4, Zenon DEF Range
<1>6. s \in [1..Len(s) -> D]
  BY <1>1, <1>4
<1>7. s \in Surjection(1..Len(s), D)
  BY <1>4, <1>6, Zenon DEF Surjection
<1>8. s \in Bijection(1..Len(s), D)
  BY <1>1, <1>2, <1>6, <1>7, Zenon DEF Bijection, Injection, IsInjective
<1>9. ExistsBijection(1..Len(s), D)
  BY <1>8, Zenon DEF ExistsBijection
<1>10. Cardinality(D) = Len(s)
  BY <1>1, <1>9, FS_CountingElements
<1>11. IsFiniteSet(1..Len(s))
  BY <1>1, FS_Interval
<1>12. IsFiniteSet(D)
  BY <1>7, <1>11, FS_Surjection
<1> QED
  BY <1>1, <1>3, <1>5, <1>10, <1>12

\* Without one key the vector lists the rest.
LEMMA ListsSkipped ==
    ASSUME NEW s, NEW D, NEW u, NEW t, NEW key, Lists(s, D, u), Skips(t, s, key)
    PROVE  Lists(t, D \ {key}, u)
<1>1. ASSUME NEW i \in 1..Len(t) PROVE t[i] \in D \ {key}
  BY DEF Lists, Skips
<1>2. ASSUME NEW k \in D \ {key} PROVE \E i \in 1..Len(t) : t[i] = k
  <2>1. PICK i \in 1..Len(s) : s[i] = k
    BY DEF Lists
  <2> QED
    BY <2>1 DEF Skips
<1>3. ASSUME NEW i \in 1..Len(t), NEW j \in 1..Len(t), i < j PROVE u[t[i]] < u[t[j]]
  <2>1. PICK a \in 1..Len(s), b \in 1..Len(s) : a < b /\ t[i] = s[a] /\ t[j] = s[b]
    BY <1>3 DEF Skips
  <2>2. u[s[a]] < u[s[b]]
    BY <2>1 DEF Lists
  <2> QED
    BY <2>1, <2>2
<1>4. t \in Seq(Keys)
  BY DEF Skips
<1> QED
  BY <1>1, <1>2, <1>3, <1>4 DEF Lists

\* A key used now goes to the end.
LEMMA ListsAppended ==
    ASSUME NEW s, NEW D, NEW u \in [Keys -> Nat], NEW key \in Keys, NEW m \in Nat,
           Lists(s, D, u), key \notin D, \A k \in D : u[k] < m
    PROVE  /\ Lists(Append(s, key), D \cup {key}, [u EXCEPT ![key] = m])
           /\ Len(Append(s, key)) = Len(s) + 1
<1> DEFINE t == Append(s, key)
           v == [u EXCEPT ![key] = m]
<1>1. s \in Seq(Keys) /\ Len(s) \in Nat
  BY DEF Lists
<1>2. /\ t \in Seq(Keys) /\ Len(t) = Len(s) + 1 /\ t[Len(t)] = key
      /\ \A i \in 1..Len(s) : t[i] = s[i]
  BY <1>1
<1>3. \A i \in 1..Len(s) : s[i] \in D /\ s[i] # key /\ s[i] \in Keys
  BY <1>1 DEF Lists
<1>4. v[key] = m /\ \A i \in 1..Len(s) : v[s[i]] = u[s[i]]
  BY <1>3
<1> HIDE DEF t, v
<1>5. /\ \A i \in 1..Len(t) : i # Len(t) => i \in 1..Len(s)
      /\ \A i \in 1..Len(s) : i \in 1..Len(t)
      /\ Len(t) \in 1..Len(t)
      /\ \A i, j \in 1..Len(t) : i < j => i # Len(t)
  BY <1>1, <1>2
<1>6. ASSUME NEW i \in 1..Len(t) PROVE t[i] \in D \cup {key}
  <2>1. CASE i = Len(t)
    BY <1>2, <2>1
  <2>2. CASE i # Len(t)
    BY <1>2, <1>3, <1>5, <2>2
  <2> QED
    BY <2>1, <2>2
<1>7. ASSUME NEW k \in D \cup {key} PROVE \E i \in 1..Len(t) : t[i] = k
  <2>1. CASE k = key
    BY <1>2, <1>5, <2>1
  <2>2. CASE k # key
    <3>1. PICK i \in 1..Len(s) : s[i] = k
      BY <2>2 DEF Lists
    <3> QED
      BY <1>2, <1>5, <3>1
  <2> QED
    BY <2>1, <2>2
<1>8. ASSUME NEW i \in 1..Len(t), NEW j \in 1..Len(t), i < j PROVE v[t[i]] < v[t[j]]
  <2>1. i \in 1..Len(s) /\ t[i] = s[i] /\ v[t[i]] = u[s[i]]
    BY <1>2, <1>4, <1>5, <1>8
  <2>2. CASE j = Len(t)
    <3>1. u[s[i]] < m
      BY <1>3, <2>1
    <3> QED
      BY <1>2, <1>4, <2>1, <2>2, <3>1
  <2>3. CASE j # Len(t)
    <3>1. j \in 1..Len(s) /\ t[j] = s[j] /\ v[t[j]] = u[s[j]]
      BY <1>2, <1>4, <1>5, <2>3
    <3>2. u[s[i]] < u[s[j]]
      BY <1>8, <2>1, <3>1 DEF Lists
    <3> QED
      BY <2>1, <3>1, <3>2
  <2> QED
    BY <2>2, <2>3
<1>9. Lists(t, D \cup {key}, v)
  BY <1>2, <1>6, <1>7, <1>8 DEF Lists
<1> QED
  BY <1>2, <1>9 DEF t, v

\* position and remove take the key out of a vector that lists it.
LEMMA RemoveFirstLists ==
    ASSUME NEW s, NEW D, NEW u \in [Keys -> Nat], NEW key, Lists(s, D, u)
    PROVE  /\ Lists(RemoveFirst(s, key), D \ {key}, u)
           /\ Len(RemoveFirst(s, key)) <= Len(s)
           /\ key \in D => Len(RemoveFirst(s, key)) < Len(s)
<1>1. s \in Seq(Keys) /\ Len(s) \in Nat
  BY DEF Lists
<1>2. CASE \E i \in 1..Len(s) : s[i] = key
  <2> DEFINE I == {i \in 1..Len(s) : s[i] = key}
             p == SelectInSeq(s, LAMBDA v : v = key)
  <2>1. PICK q \in 1..Len(s) : s[q] = key
    BY <1>2
  <2>2. \A i, j \in 1..Len(s) : s[i] = s[j] => i = j
    BY ListsOnce
  <2>3. I = {q}
    BY <2>1, <2>2
  <2>4. p = Min(I)
    BY <2>1 DEF SelectInSeq
  <2>5. Min({q}) = q
    BY <1>1 DEF Min
  <2>6. p = q
    BY <2>3, <2>4, <2>5
  <2>7. RemoveFirst(s, key) = RemoveAt(s, q)
    BY <1>2, <2>6 DEF RemoveFirst
  <2>8. Skips(RemoveAt(s, q), s, s[q])
    <3>1. \A i \in 1..Len(s) : s[i] = s[q] => i = q
      BY <2>2
    <3> QED
      BY <1>1, <3>1, RemoveAtSkips
  <2>9. Skips(RemoveFirst(s, key), s, key)
    BY <2>1, <2>7, <2>8
  <2> QED
    BY <1>2, <2>9, ListsSkipped DEF Skips
<1>3. CASE ~\E i \in 1..Len(s) : s[i] = key
  <2>1. RemoveFirst(s, key) = s
    BY <1>3 DEF RemoveFirst
  <2>2. key \notin D
    BY <1>3 DEF Lists
  <2>3. D \ {key} = D
    BY <2>2
  <2>4. Lists(RemoveFirst(s, key), D \ {key}, u)
    BY <2>1, <2>3
  <2>5. Len(RemoveFirst(s, key)) <= Len(s)
    BY <1>1, <2>1
  <2> QED
    BY <2>2, <2>4, <2>5
<1> QED
  BY <1>2, <1>3

\* remove(0) takes out the least recently used key.
LEMMA TailLists ==
    ASSUME NEW s, NEW D, NEW u \in [Keys -> Nat], Lists(s, D, u), s # <<>>
    PROVE  /\ Lists(Tail(s), D \ {Head(s)}, u)
           /\ Len(Tail(s)) = Len(s) - 1
           /\ Head(s) \in D
           /\ \A k \in D \ {Head(s)} : u[Head(s)] < u[k]
<1>1. s \in Seq(Keys) /\ Len(s) \in Nat /\ Len(s) # 0
  BY DEF Lists
<1>2. /\ Head(s) = s[1] /\ Tail(s) \in Seq(Keys) /\ Len(Tail(s)) = Len(s) - 1
      /\ \A i \in 1..(Len(s) - 1) : Tail(s)[i] = s[i + 1]
  BY <1>1
<1>3. \A i, j \in 1..Len(s) : s[i] = s[j] => i = j
  BY ListsOnce
<1>4. /\ 1 \in 1..Len(s)
      /\ \A i \in 1..(Len(s) - 1) : i + 1 \in 1..Len(s) /\ i + 1 # 1
      /\ \A i \in 1..Len(s) : i # 1 => i - 1 \in 1..(Len(s) - 1) /\ (i - 1) + 1 = i /\ 1 < i
      /\ \A i, j \in 1..(Len(s) - 1) : i < j => i + 1 < j + 1
  BY <1>1
<1> DEFINE t == Tail(s)
<1>5. t \in Seq(Keys) /\ Len(t) = Len(s) - 1 /\ \A i \in 1..Len(t) : t[i] = s[i + 1]
  BY <1>2
<1> HIDE DEF t
<1>6. ASSUME NEW i \in 1..Len(t) PROVE t[i] \in D \ {Head(s)}
  <2>1. i + 1 \in 1..Len(s) /\ i + 1 # 1
    BY <1>4, <1>5
  <2>2. s[i + 1] # s[1]
    BY <1>3, <1>4, <2>1
  <2>3. s[i + 1] \in D
    BY <2>1 DEF Lists
  <2> QED
    BY <1>2, <1>5, <2>2, <2>3
<1>7. ASSUME NEW k \in D \ {Head(s)} PROVE \E i \in 1..Len(s) : i # 1 /\ s[i] = k
  BY <1>2 DEF Lists
<1>8. ASSUME NEW k \in D \ {Head(s)} PROVE \E i \in 1..Len(t) : t[i] = k
  <2>1. PICK i \in 1..Len(s) : i # 1 /\ s[i] = k
    BY <1>7
  <2>2. i - 1 \in 1..Len(t) /\ (i - 1) + 1 = i
    BY <1>4, <1>5, <2>1
  <2>3. t[i - 1] = s[i]
    BY <1>5, <2>2
  <2> QED
    BY <2>1, <2>2, <2>3
<1>9. ASSUME NEW i \in 1..Len(t), NEW j \in 1..Len(t), i < j PROVE u[t[i]] < u[t[j]]
  <2>1. i + 1 \in 1..Len(s) /\ j + 1 \in 1..Len(s) /\ i + 1 < j + 1
    BY <1>4, <1>5, <1>9
  <2>2. u[s[i + 1]] < u[s[j + 1]]
    BY <2>1 DEF Lists
  <2> QED
    BY <1>5, <2>2
<1>10. Lists(t, D \ {Head(s)}, u)
  BY <1>5, <1>6, <1>8, <1>9 DEF Lists
<1>11. Head(s) \in D
  BY <1>2, <1>4 DEF Lists
<1>12. ASSUME NEW k \in D \ {Head(s)} PROVE u[Head(s)] < u[k]
  <2>1. PICK i \in 1..Len(s) : i # 1 /\ s[i] = k
    BY <1>7
  <2>2. 1 < i
    BY <1>4, <2>1
  <2>3. u[s[1]] < u[s[i]]
    BY <1>4, <2>2 DEF Lists
  <2> QED
    BY <1>2, <2>1, <2>3
<1> QED
  BY <1>2, <1>10, <1>11, <1>12 DEF t

-----------------------------------------------------------------------------
(***************************************************************************)
(* The inductive invariant.                                                *)
(***************************************************************************)

\* The vector lists the map's keys by their last use, within the capacity.
Listed ==
    /\ Lists(order, DOMAIN map, used)
    /\ Len(order) <= capacity
    /\ \A k \in DOMAIN map : used[k] <= ops

\* The map holds the entry put last under each of its keys, and that entry was
\* computed for the key.
Current ==
    \A k \in DOMAIN map : map[k] = latest[k] /\ Key(map[k].result.input) = k

\* What verify_cached is about to store was computed for what it was asked.
Pending ==
    /\ pc \in {"verify", "store"} => asked \in Inputs
    /\ pc = "store" => found \in Results /\ Key(found.input) = Key(asked)

Inv == TypeOK /\ Listed /\ Current /\ Pending /\ HitIsCurrent

\* Facts about the constants and the operators.
LEMMA Parts ==
    /\ \A input \in Inputs : Key(input) \in Keys
    /\ \A r \in Results : r.input \in Inputs
    /\ \A e \in Entries : e.result \in Results /\ e # None
    /\ \A r \in Results, i \in 0..MaxTime, d \in Ttls :
         [result |-> r, inserted |-> i, ttl |-> d] \in Entries
<1>1. \A input \in Inputs : Key(input) \in Keys
  BY DEF Inputs, Keys, Key
<1>2. \A r \in Results : r.input \in Inputs
  BY DEF Results
<1>3. \A e \in Entries : e.result \in Results /\ e # None
  BY NoneAssumption DEF Entries
<1>4. \A r \in Results, i \in 0..MaxTime, d \in Ttls :
         [result |-> r, inserted |-> i, ttl |-> d] \in Entries
  BY DEF Entries
<1> QED
  BY <1>1, <1>2, <1>3, <1>4

LEMMA VerifiedResult ==
    ASSUME TypeOK, NEW input \in Inputs
    PROVE  Verified(input) \in Results /\ Key(Verified(input).input) = Key(input)
<1>1. now \in 0..MaxTime
  BY DEF TypeOK
<1>2. input.time \in Instants \cup {None}
  BY DEF Inputs
<1>3. (IF input.time = None THEN now ELSE input.time) \in Instants \cup 0..MaxTime
  BY <1>1, <1>2
<1> DEFINE at == IF input.time = None THEN now ELSE input.time
<1>4. Verified(input) = [input |-> input, at |-> at]
  BY DEF Verified
<1> HIDE DEF at
<1>5. at \in Instants \cup 0..MaxTime
  BY <1>3 DEF at
<1>6. Verified(input) \in Results
  BY <1>4, <1>5 DEF Results
<1> QED
  BY <1>4, <1>6

\* used, as the lemmas about vectors take it
LEMMA UsedNat ==
    ASSUME TypeOK
    PROVE  used \in [Keys -> Nat] /\ ops \in Nat /\ capacity \in Nat /\ capacity # 0
BY BoundsAssumption DEF TypeOK

LEMMA InitInv == Init => Inv
<1> SUFFICES ASSUME Init PROVE Inv
  OBVIOUS
<1>1. DOMAIN map = {} /\ order = <<>> /\ Len(order) = 0 /\ order \in Seq(Keys)
  BY DEF Init
<1>2. capacity \in Nat \ {0}
  BY BoundsAssumption DEF Init, AtLeastOne
<1>3. TypeOK
  <2>1. /\ now \in 0..MaxTime /\ ops \in 0..MaxOps /\ hits \in Nat /\ misses \in Nat
        /\ hits + misses <= ops
    BY BoundsAssumption DEF Init
  <2>2. used \in [Keys -> 0..MaxOps] /\ latest \in [Keys -> Entries \cup {None}]
    BY BoundsAssumption DEF Init
  <2>3. /\ defaultTtl \in Ttls /\ pc \in {"idle", "verify", "store"}
        /\ asked \in Inputs \cup {None} /\ found \in Results \cup {None}
    BY DEF Init
  <2>4. DOMAIN map \subseteq Keys /\ \A k \in DOMAIN map : map[k] \in Entries
    BY <1>1
  <2> QED
    BY <1>1, <1>2, <2>1, <2>2, <2>3, <2>4 DEF TypeOK
<1>4. Listed
  <2>1. Lists(order, DOMAIN map, used)
    BY <1>1 DEF Lists
  <2>2. Len(order) <= capacity
    BY <1>1, <1>2
  <2> QED
    BY <1>1, <2>1, <2>2 DEF Listed
<1>5. Current /\ Pending /\ HitIsCurrent
  BY <1>1 DEF Init, Current, Pending, HitIsCurrent
<1> QED
  BY <1>3, <1>4, <1>5 DEF Inv

\* The types of the cache, apart from verify_cached's place.
CacheTyped ==
    /\ now \in 0..MaxTime
    /\ capacity \in Nat \ {0}
    /\ defaultTtl \in Ttls
    /\ DOMAIN map \subseteq Keys
    /\ \A k \in DOMAIN map : map[k] \in Entries
    /\ order \in Seq(Keys)
    /\ hits \in Nat /\ misses \in Nat /\ hits + misses <= ops
    /\ ops \in 0..MaxOps
    /\ used \in [Keys -> 0..MaxOps]
    /\ latest \in [Keys -> Entries \cup {None}]

PlaceTyped ==
    /\ pc \in {"idle", "verify", "store"}
    /\ asked \in Inputs \cup {None}
    /\ found \in Results \cup {None}

LEMMA TypeOKParts == /\ TypeOK <=> (CacheTyped /\ PlaceTyped)
                     /\ TypeOK' <=> (CacheTyped' /\ PlaceTyped')
BY Zenon DEF TypeOK, CacheTyped, PlaceTyped

\* get keeps the vector and the map together, and a hit is current.
LEMMA GetStep ==
    ASSUME Inv, NEW input \in Inputs, Get(input)
    PROVE  CacheTyped' /\ Listed' /\ Current' /\ HitIsCurrent'
<1> DEFINE key == Key(input)
           D == DOMAIN map
<1>0. key \in Keys
  BY Parts
<1> HIDE DEF key
<1>1. CacheTyped /\ Lists(order, D, used) /\ Len(order) <= capacity /\ \A k \in D : used[k] <= ops
  BY TypeOKParts DEF Inv, Listed
<1>2. used \in [Keys -> Nat] /\ ops \in Nat /\ capacity \in Nat /\ capacity # 0
  BY UsedNat DEF Inv
<1>3. /\ ops < MaxOps /\ ops' = ops + 1
      /\ now' = now /\ capacity' = capacity /\ defaultTtl' = defaultTtl /\ latest' = latest
  BY DEF Get
<1>4. \A k \in D : map[k] = latest[k] /\ Key(map[k].result.input) = k
  BY DEF Inv, Current
<1>5. /\ Lists(RemoveFirst(order, key), D \ {key}, used)
      /\ Len(RemoveFirst(order, key)) <= Len(order)
      /\ key \in D => Len(RemoveFirst(order, key)) < Len(order)
  BY <1>1, <1>2, RemoveFirstLists
<1>6. Len(order) \in Nat /\ Len(RemoveFirst(order, key)) \in Nat
  BY <1>1, <1>5 DEF Lists
<1>7. ops' \in 0..MaxOps /\ ops + 1 \in 0..MaxOps /\ ops + 1 \in Nat
  BY <1>2, <1>3, BoundsAssumption
<1>8. CASE Hit(key)
  <2>1. /\ hits' = hits + 1 /\ order' = Touched(key) /\ used' = [used EXCEPT ![key] = ops + 1]
        /\ served' = [input |-> input, key |-> key, answer |-> map[key].result]
        /\ map' = map /\ misses' = misses
    BY <1>8 DEF Get, key
  <2>2. key \in D /\ IsFresh(map[key])
    BY <1>8 DEF Hit
  <2>3. \A k \in D \ {key} : used[k] < ops + 1
    <3> SUFFICES ASSUME NEW k \in D \ {key} PROVE used[k] < ops + 1
      OBVIOUS
    <3>1. k \in Keys /\ used[k] <= ops
      BY <1>1 DEF CacheTyped
    <3>2. used[k] \in Nat
      BY <1>2, <3>1
    <3> QED
      BY <1>2, <3>1, <3>2
  <2>4. /\ Lists(order', (D \ {key}) \cup {key}, used')
        /\ Len(order') = Len(RemoveFirst(order, key)) + 1
    <3> DEFINE rest == RemoveFirst(order, key)
               E == D \ {key}
    <3>1. Lists(rest, E, used) /\ key \notin E /\ \A k \in E : used[k] < ops + 1
      BY <1>5, <2>3
    <3>2. order' = Append(rest, key)
      BY <2>1 DEF Touched
    <3> HIDE DEF rest, E
    <3>3. /\ Lists(Append(rest, key), E \cup {key}, [used EXCEPT ![key] = ops + 1])
          /\ Len(Append(rest, key)) = Len(rest) + 1
      BY <1>0, <1>2, <1>7, <3>1, ListsAppended
    <3> QED
      BY <2>1, <3>2, <3>3 DEF rest, E
  <2>5. (D \ {key}) \cup {key} = D /\ DOMAIN map' = D
    BY <2>1, <2>2
  <2>6. Lists(order', DOMAIN map', used')
    BY <2>4, <2>5
  <2>7. Len(order') <= capacity'
    BY <1>1, <1>2, <1>3, <1>5, <1>6, <2>2, <2>4
  <2>8. \A k \in DOMAIN map' : used'[k] <= ops'
    <3> SUFFICES ASSUME NEW k \in D PROVE used'[k] <= ops'
      BY <2>5
    <3>1. k \in Keys /\ used[k] <= ops /\ used[k] \in Nat
      BY <1>1, <1>2 DEF CacheTyped
    <3>2. used'[k] = IF k = key THEN ops + 1 ELSE used[k]
      BY <1>2, <2>1, <3>1
    <3> QED
      BY <1>2, <1>3, <3>1, <3>2
  <2>9. Listed'
    BY <2>6, <2>7, <2>8 DEF Listed
  <2>10. CacheTyped'
    <3>1. used' \in [Keys -> 0..MaxOps]
      BY <1>1, <1>7, <2>1 DEF CacheTyped
    <3>2. order' \in Seq(Keys)
      BY <2>6 DEF Lists
    <3>3. hits' \in Nat /\ misses' \in Nat /\ hits' + misses' <= ops'
      BY <1>1, <1>2, <1>3, <2>1 DEF CacheTyped
    <3>4. /\ now' \in 0..MaxTime /\ capacity' \in Nat \ {0} /\ defaultTtl' \in Ttls
          /\ DOMAIN map' \subseteq Keys /\ \A k \in DOMAIN map' : map'[k] \in Entries
          /\ latest' \in [Keys -> Entries \cup {None}]
      BY <1>1, <1>3, <2>1 DEF CacheTyped
    <3> QED
      BY <1>7, <3>1, <3>2, <3>3, <3>4 DEF CacheTyped
  <2>11. Current'
    BY <1>3, <1>4, <2>1 DEF Current
  <2>12. HitIsCurrent'
    <3> DEFINE e == latest'[key]
    <3>1. e = map[key] /\ Key(e.result.input) = key
      BY <1>3, <1>4, <2>2
    <3>2. e \in Entries /\ e # None
      BY <1>1, <2>2, <3>1, Parts DEF CacheTyped
    <3>3. now' - e.inserted < e.ttl
      BY <1>3, <2>2, <3>1 DEF IsFresh
    <3>4. served'.key = key /\ served'.answer = e.result /\ served'.input = input
      BY <2>1, <3>1
    <3>5. /\ e.result.input.asset = input.asset
          /\ e.result.input.trust = input.trust
          /\ e.result.input.time = input.time
      BY <3>1 DEF Key, key
    <3> HIDE DEF e
    <3>6. e = latest'[served'.key]
      BY <3>4 DEF e
    <3> QED
      BY <3>2, <3>3, <3>4, <3>5, <3>6 DEF HitIsCurrent
  <2> QED
    BY <2>9, <2>10, <2>11, <2>12
<1>9. CASE ~Hit(key)
  <2>1. /\ misses' = misses + 1 /\ order' = Dropped(key) /\ map' = Without(map, key)
        /\ served' = [input |-> input, key |-> key, answer |-> None]
        /\ hits' = hits /\ used' = used
    BY <1>9 DEF Get, key
  <2>2. DOMAIN map' = D \ {key} /\ \A k \in D \ {key} : map'[k] = map[k]
    BY <2>1 DEF Without
  <2>3. Lists(order', D \ {key}, used) /\ Len(order') <= Len(order)
    <3>1. CASE key \in D
      BY <1>5, <2>1, <3>1 DEF Dropped
    <3>2. CASE key \notin D
      <4>1. D \ {key} = D
        BY <3>2
      <4>2. order' = order
        BY <2>1, <3>2 DEF Dropped
      <4>3. Len(order') <= Len(order)
        BY <1>6, <4>2
      <4> QED
        BY <1>1, <4>1, <4>2, <4>3
    <3> QED
      BY <3>1, <3>2
  <2>4. Len(order') \in Nat
    BY <2>3 DEF Lists
  <2>5. Len(order') <= capacity'
    BY <1>1, <1>2, <1>3, <1>6, <2>3, <2>4
  <2>6. \A k \in DOMAIN map' : used'[k] <= ops'
    <3> SUFFICES ASSUME NEW k \in D \ {key} PROVE used[k] <= ops + 1
      BY <1>3, <2>1, <2>2
    <3>1. k \in Keys /\ used[k] <= ops /\ used[k] \in Nat
      BY <1>1, <1>2 DEF CacheTyped
    <3> QED
      BY <1>2, <3>1
  <2>7. Listed'
    BY <2>1, <2>2, <2>3, <2>5, <2>6 DEF Listed
  <2>8. CacheTyped'
    <3>1. order' \in Seq(Keys)
      BY <2>3 DEF Lists
    <3>2. hits' \in Nat /\ misses' \in Nat /\ hits' + misses' <= ops'
      BY <1>1, <1>2, <1>3, <2>1 DEF CacheTyped
    <3>3. /\ now' \in 0..MaxTime /\ capacity' \in Nat \ {0} /\ defaultTtl' \in Ttls
          /\ DOMAIN map' \subseteq Keys /\ \A k \in DOMAIN map' : map'[k] \in Entries
          /\ used' \in [Keys -> 0..MaxOps]
          /\ latest' \in [Keys -> Entries \cup {None}]
      BY <1>1, <1>3, <2>1, <2>2 DEF CacheTyped
    <3> QED
      BY <1>7, <3>1, <3>2, <3>3 DEF CacheTyped
  <2>9. Current'
    BY <1>3, <1>4, <2>2 DEF Current
  <2>10. HitIsCurrent'
    BY <2>1 DEF HitIsCurrent
  <2> QED
    BY <2>7, <2>8, <2>9, <2>10
<1> QED
  BY <1>8, <1>9

\* put keeps the vector and the map together within the capacity, and what it
\* evicts was used before everything that stays.
LEMMA PutStep ==
    ASSUME Inv, NEW key \in Keys, NEW result \in Results, NEW ttl \in Ttls,
           Key(result.input) = key, PutWithTtl(key, result, ttl)
    PROVE  /\ CacheTyped' /\ Listed' /\ Current' /\ HitIsCurrent'
           /\ LET gone == DOMAIN map \ DOMAIN map'
              IN  /\ Cardinality(gone) <= 1
                  /\ \A v \in gone, k \in DOMAIN map \cap DOMAIN map' : used[v] < used[k]
<1> DEFINE D == DOMAIN map
           entry == [result |-> result, inserted |-> now, ttl |-> ttl]
           gone == Victims(key)
           left == IF gone = {} THEN order ELSE Tail(order)
           rest == Retained(left, key)
<1>1. CacheTyped /\ Lists(order, D, used) /\ Len(order) <= capacity /\ \A k \in D : used[k] <= ops
  BY TypeOKParts DEF Inv, Listed
<1>2. used \in [Keys -> Nat] /\ ops \in Nat /\ capacity \in Nat /\ capacity # 0
  BY UsedNat DEF Inv
<1>3. /\ ops < MaxOps /\ ops' = ops + 1
      /\ order' = Append(rest, key)
      /\ map' = [k \in (D \ gone) \cup {key} |-> IF k = key THEN entry ELSE map[k]]
      /\ used' = [used EXCEPT ![key] = ops + 1]
      /\ latest' = [latest EXCEPT ![key] = entry]
      /\ served' = None
      /\ now' = now /\ capacity' = capacity /\ defaultTtl' = defaultTtl
      /\ hits' = hits /\ misses' = misses
  BY DEF PutWithTtl
<1>4. \A k \in D : map[k] = latest[k] /\ Key(map[k].result.input) = k
  BY DEF Inv, Current
<1>5. entry \in Entries /\ Key(entry.result.input) = key
  BY <1>1, Parts DEF CacheTyped
<1> HIDE DEF entry
<1>6. ops' \in 0..MaxOps /\ ops + 1 \in 0..MaxOps /\ ops + 1 \in Nat
  BY <1>2, <1>3, BoundsAssumption
<1>7. IsFiniteSet(D) /\ Cardinality(D) = Len(order) /\ Len(order) \in Nat
  BY <1>1, <1>2, ListsCount
<1>8. /\ Lists(left, D \ gone, used)
      /\ key \notin D => Len(left) < capacity
      /\ Len(left) <= capacity
      /\ \A v \in gone : \A k \in D \ gone : used[v] < used[k]
      /\ gone = {} \/ gone = {Head(order)}
  <2>1. CASE gone = {}
    <3>1. left = order /\ D \ gone = D
      BY <2>1
    <3>2. key \notin D => Len(order) < capacity
      <4> SUFFICES ASSUME key \notin D, ~(Len(order) < capacity) PROVE FALSE
        OBVIOUS
      <4>1. Cardinality(D) >= capacity /\ Len(order) # 0
        BY <1>2, <1>7
      <4>2. order # <<>>
        BY <4>1
      <4> QED
        BY <2>1, <4>1, <4>2 DEF Victims
    <3> QED
      BY <1>1, <2>1, <3>1, <3>2
  <2>2. CASE gone # {}
    <3>1. order # <<>> /\ gone = {Head(order)} /\ left = Tail(order)
      BY <2>2 DEF Victims
    <3>2. /\ Lists(Tail(order), D \ {Head(order)}, used)
          /\ Len(Tail(order)) = Len(order) - 1
          /\ \A k \in D \ {Head(order)} : used[Head(order)] < used[k]
      BY <1>1, <1>2, <3>1, TailLists
    <3>3. Len(Tail(order)) < capacity /\ Len(Tail(order)) <= capacity
      BY <1>1, <1>2, <1>7, <3>2
    <3> QED
      BY <3>1, <3>2, <3>3
  <2> QED
    BY <2>1, <2>2
<1>9. Len(left) \in Nat /\ left \in Seq(Keys)
  BY <1>8 DEF Lists
<1> HIDE DEF left, gone, D
<1>10. Skips(rest, left, key)
  BY <1>9, RetainedSkips
<1>11. Lists(rest, (D \ gone) \ {key}, used) /\ Len(rest) \in Nat /\ Len(rest) <= Len(left)
  <2> HIDE DEF rest
  <2>1. rest \in Seq(Keys) /\ Len(rest) <= Len(left)
    BY <1>10 DEF Skips
  <2>2. Len(rest) \in Nat
    BY <2>1
  <2>3. Lists(rest, (D \ gone) \ {key}, used)
    BY <1>8, <1>10, ListsSkipped
  <2> QED
    BY <2>1, <2>2, <2>3
<1>12. Len(rest) < capacity
  <2>1. CASE key \notin D
    BY <1>2, <1>8, <1>9, <1>11, <2>1
  <2>2. CASE key \in D
    <3>1. gone = {}
      BY <2>2 DEF gone, Victims, D
    <3>2. key \in D \ gone
      BY <2>2, <3>1
    <3>3. \E i \in 1..Len(left) : left[i] = key
      BY <1>8, <3>2 DEF Lists
    <3>4. Len(rest) < Len(left)
      BY <1>10, <3>3 DEF Skips
    <3> QED
      BY <1>2, <1>8, <1>9, <1>11, <3>4
  <2> QED
    BY <2>1, <2>2
<1> HIDE DEF rest
<1>13. \A k \in D : k \in Keys /\ used[k] \in Nat /\ used[k] <= ops /\ used[k] < ops + 1
  <2> SUFFICES ASSUME NEW k \in D PROVE k \in Keys /\ used[k] \in Nat /\ used[k] <= ops /\ used[k] < ops + 1
    OBVIOUS
  <2>1. k \in Keys /\ used[k] <= ops
    BY <1>1 DEF CacheTyped, D
  <2>2. used[k] \in Nat
    BY <1>2, <2>1
  <2> QED
    BY <1>2, <2>1, <2>2
<1>14. /\ Lists(order', ((D \ gone) \ {key}) \cup {key}, used')
       /\ Len(order') = Len(rest) + 1
  <2> DEFINE E == (D \ gone) \ {key}
  <2>1. Lists(rest, E, used) /\ key \notin E /\ \A k \in E : used[k] < ops + 1
    BY <1>11, <1>13
  <2> HIDE DEF E
  <2>2. /\ Lists(Append(rest, key), E \cup {key}, [used EXCEPT ![key] = ops + 1])
        /\ Len(Append(rest, key)) = Len(rest) + 1
    BY <1>2, <1>6, <2>1, ListsAppended
  <2> QED
    BY <1>3, <2>2 DEF E
<1>15. /\ DOMAIN map' = (D \ gone) \cup {key}
       /\ ((D \ gone) \ {key}) \cup {key} = (D \ gone) \cup {key}
       /\ \A k \in DOMAIN map' : map'[k] = IF k = key THEN entry ELSE map[k]
  BY <1>3
<1>16. Lists(order', DOMAIN map', used')
  BY <1>14, <1>15
<1>17. Len(order') <= capacity'
  BY <1>2, <1>3, <1>11, <1>12, <1>14
<1>18. \A k \in DOMAIN map' : used'[k] <= ops'
  <2> SUFFICES ASSUME NEW k \in DOMAIN map' PROVE used'[k] <= ops'
    OBVIOUS
  <2>1. CASE k = key
    <3>1. used'[k] = ops + 1
      BY <1>2, <1>3, <2>1
    <3> QED
      BY <1>2, <1>3, <3>1
  <2>2. CASE k # key
    <3>1. k \in D
      BY <1>15, <2>2
    <3>2. k \in Keys /\ used[k] \in Nat /\ used[k] <= ops
      BY <1>13, <3>1
    <3>3. used'[k] = used[k]
      BY <1>2, <1>3, <2>2, <3>2
    <3> QED
      BY <1>2, <1>3, <3>2, <3>3
  <2> QED
    BY <2>1, <2>2
<1>19. Listed'
  BY <1>16, <1>17, <1>18 DEF Listed
<1>20. CacheTyped'
  <2>1. used' \in [Keys -> 0..MaxOps]
    BY <1>1, <1>3, <1>6 DEF CacheTyped
  <2>2. order' \in Seq(Keys)
    BY <1>16 DEF Lists
  <2>3. hits' \in Nat /\ misses' \in Nat /\ hits' + misses' <= ops'
    BY <1>1, <1>2, <1>3 DEF CacheTyped
  <2>4. latest' \in [Keys -> Entries \cup {None}]
    BY <1>1, <1>3, <1>5 DEF CacheTyped
  <2>5. DOMAIN map' \subseteq Keys
    BY <1>13, <1>15
  <2>6. \A k \in DOMAIN map' : map'[k] \in Entries
    BY <1>1, <1>5, <1>15 DEF CacheTyped, D
  <2>7. now' \in 0..MaxTime /\ capacity' \in Nat \ {0} /\ defaultTtl' \in Ttls
    BY <1>1, <1>3 DEF CacheTyped
  <2> QED
    BY <1>6, <2>1, <2>2, <2>3, <2>4, <2>5, <2>6, <2>7 DEF CacheTyped
<1>21. Current'
  <2> SUFFICES ASSUME NEW k \in DOMAIN map'
               PROVE  map'[k] = latest'[k] /\ Key(map'[k].result.input) = k
    BY DEF Current
  <2>1. latest \in [Keys -> Entries \cup {None}]
    BY <1>1 DEF CacheTyped
  <2>2. CASE k = key
    BY <1>3, <1>5, <1>15, <2>1, <2>2
  <2>3. CASE k # key
    <3>1. k \in D /\ k \in Keys /\ map'[k] = map[k]
      BY <1>13, <1>15, <2>3
    <3>2. latest'[k] = latest[k]
      BY <1>3, <2>1, <2>3, <3>1
    <3> QED
      BY <1>4, <3>1, <3>2
  <2> QED
    BY <2>2, <2>3
<1>22. HitIsCurrent'
  BY <1>3 DEF HitIsCurrent
<1>23. /\ Cardinality(D \ DOMAIN map') <= 1
       /\ \A v \in D \ DOMAIN map', k \in D \cap DOMAIN map' : used[v] < used[k]
  <2>1. D \ DOMAIN map' \subseteq gone
    BY <1>15
  <2>2. D \ DOMAIN map' \subseteq {Head(order)}
    BY <1>8, <2>1
  <2>3. Cardinality(D \ DOMAIN map') <= 1
    <3>1. IsFiniteSet({Head(order)}) /\ Cardinality({Head(order)}) = 1
      BY FS_Singleton
    <3> QED
      BY <2>2, <3>1, FS_Subset
  <2>4. ASSUME NEW v \in D \ DOMAIN map', NEW k \in D \cap DOMAIN map' PROVE used[v] < used[k]
    <3>1. v \in gone
      BY <2>1
    <3>2. k \in D \ gone
      <4>1. gone = {v}
        BY <1>8, <3>1
      <4> QED
        BY <4>1
    <3> QED
      BY <1>8, <3>1, <3>2
  <2> QED
    BY <2>3, <2>4
<1> QED
  BY <1>19, <1>20, <1>21, <1>22, <1>23 DEF D

\* Steps that leave the cache alone.
LEMMA CacheKept ==
    ASSUME Inv, cache' = cache, ops' = ops, used' = used, latest' = latest,
           now' \in 0..MaxTime, served' = None
    PROVE  CacheTyped' /\ Listed' /\ Current' /\ HitIsCurrent'
<1>1. CacheTyped /\ Listed /\ Current
  BY TypeOKParts DEF Inv
<1>2. /\ capacity' = capacity /\ defaultTtl' = defaultTtl /\ map' = map /\ order' = order
      /\ hits' = hits /\ misses' = misses
  BY DEF cache
<1>3. CacheTyped'
  BY <1>1, <1>2 DEF CacheTyped
<1>4. Listed'
  BY <1>1, <1>2 DEF Listed
<1>5. Current'
  BY <1>1, <1>2 DEF Current
<1>6. HitIsCurrent'
  BY DEF HitIsCurrent
<1> QED
  BY <1>3, <1>4, <1>5, <1>6

\* One step of the cache or of verify_cached keeps the invariant.
LEMMA NextInv == Inv /\ [Next]_vars => Inv'
<1> SUFFICES ASSUME Inv, [Next]_vars PROVE Inv'
  OBVIOUS
<1>0. PlaceTyped /\ Pending /\ TypeOK
  BY TypeOKParts DEF Inv
<1>1. CASE Tick
  <2>1. /\ cache' = cache /\ pc' = pc /\ asked' = asked /\ found' = found /\ ops' = ops
        /\ used' = used /\ latest' = latest /\ served' = None
    BY <1>1, Zenon DEF Tick, cache
  <2>2. now' \in 0..MaxTime
    BY <1>0, <1>1, BoundsAssumption DEF Tick, TypeOK
  <2>3. CacheTyped' /\ Listed' /\ Current' /\ HitIsCurrent'
    BY <2>1, <2>2, CacheKept
  <2>4. PlaceTyped' /\ Pending'
    BY <1>0, <2>1 DEF PlaceTyped, Pending
  <2> QED
    BY <2>3, <2>4, TypeOKParts DEF Inv
<1>2. CASE Verify
  <2>1. /\ cache' = cache /\ now' = now /\ ops' = ops
        /\ used' = used /\ latest' = latest /\ served' = None
    BY <1>2, Zenon DEF Verify, cache
  <2>2. now' \in 0..MaxTime
    BY <1>0, <2>1 DEF TypeOK
  <2>3. CacheTyped' /\ Listed' /\ Current' /\ HitIsCurrent'
    BY <2>1, <2>2, CacheKept
  <2>4. asked \in Inputs
    BY <1>0, <1>2 DEF Verify, Pending
  <2>5. Verified(asked) \in Results /\ Key(Verified(asked).input) = Key(asked)
    BY <1>0, <2>4, VerifiedResult
  <2>6. CASE asked.asset \in Refused
    <3>1. pc' = "idle" /\ asked' = None /\ found' = None
      BY <1>2, <2>6 DEF Verify
    <3> QED
      BY <2>3, <3>1, TypeOKParts DEF PlaceTyped, Pending, Inv
  <2>7. CASE asked.asset \notin Refused
    <3>1. pc' = "store" /\ found' = Verified(asked) /\ asked' = asked
      BY <1>2, <2>7 DEF Verify
    <3>2. PlaceTyped' /\ Pending'
      BY <2>4, <2>5, <3>1 DEF PlaceTyped, Pending
    <3> QED
      BY <2>3, <3>2, TypeOKParts DEF Inv
  <2> QED
    BY <2>6, <2>7
<1>3. CASE Store
  <2>1. /\ pc = "store" /\ PutWithTtl(Key(asked), found, defaultTtl)
        /\ pc' = "idle" /\ asked' = None /\ found' = None
    BY <1>3 DEF Store
  <2>2. asked \in Inputs /\ found \in Results /\ Key(found.input) = Key(asked) /\ defaultTtl \in Ttls
    BY <1>0, <2>1 DEF Pending, TypeOK
  <2>3. CacheTyped' /\ Listed' /\ Current' /\ HitIsCurrent'
    BY <2>1, <2>2, Parts, PutStep
  <2>4. PlaceTyped' /\ Pending'
    BY <2>1 DEF PlaceTyped, Pending
  <2> QED
    BY <2>3, <2>4, TypeOKParts DEF Inv
<1>4. ASSUME NEW input \in Inputs, VerifyCached(input) PROVE Inv'
  <2>1. CacheTyped' /\ Listed' /\ Current' /\ HitIsCurrent'
    BY <1>4, GetStep DEF VerifyCached
  <2>2. /\ found' = found /\ pc = "idle"
        /\ \/ pc' = pc /\ asked' = asked
           \/ pc' = "verify" /\ asked' = input
    BY <1>4 DEF VerifyCached
  <2>3. PlaceTyped' /\ Pending'
    BY <1>0, <2>2 DEF PlaceTyped, Pending
  <2> QED
    BY <2>1, <2>3, TypeOKParts DEF Inv
<1>5. ASSUME NEW input \in Inputs, CallerGet(input) PROVE Inv'
  <2>1. CacheTyped' /\ Listed' /\ Current' /\ HitIsCurrent'
    BY <1>5, GetStep DEF CallerGet
  <2>2. PlaceTyped' /\ Pending'
    BY <1>0, <1>5 DEF PlaceTyped, Pending, CallerGet
  <2> QED
    BY <2>1, <2>2, TypeOKParts DEF Inv
<1>6. ASSUME NEW input \in Inputs, NEW ttl \in Ttls, CallerPut(input, ttl) PROVE Inv'
  <2>1. Verified(input) \in Results /\ Key(Verified(input).input) = Key(input)
    BY <1>0, VerifiedResult
  <2>2. CacheTyped' /\ Listed' /\ Current' /\ HitIsCurrent'
    BY <1>6, <2>1, Parts, PutStep DEF CallerPut
  <2>3. PlaceTyped' /\ Pending'
    BY <1>0, <1>6 DEF PlaceTyped, Pending, CallerPut
  <2> QED
    BY <2>2, <2>3, TypeOKParts DEF Inv
<1>7. CASE UNCHANGED vars
  <2>1. Listed' /\ Current' /\ HitIsCurrent'
    BY <1>7 DEF vars, Inv, Listed, Current, HitIsCurrent
  <2>2. TypeOK' /\ Pending'
    BY <1>7 DEF vars, Inv, TypeOK, Pending
  <2> QED
    BY <2>1, <2>2 DEF Inv
<1> QED
  BY <1>1, <1>2, <1>3, <1>4, <1>5, <1>6, <1>7 DEF Next

LEMMA SpecInv == Spec => []Inv
<1> QED
  BY InitInv, NextInv, PTL DEF Spec

-----------------------------------------------------------------------------
(***************************************************************************)
(* The theorems.                                                           *)
(***************************************************************************)

\* Whatever the sequence of lookups, expiries, evictions and puts, the order
\* vector of VerifyCache lists each key of its map once and nothing else, and
\* the cache holds at most its capacity (cache.rs, get and put_with_ttl).
THEOREM VectorListsTheMap == Spec => []OrderListsTheMap
<1>1. Inv => OrderListsTheMap
  <2> SUFFICES ASSUME Inv PROVE OrderListsTheMap
    OBVIOUS
  <2>1. Lists(order, DOMAIN map, used) /\ Len(order) <= capacity /\ used \in [Keys -> Nat]
    BY UsedNat DEF Inv, Listed
  <2>2. IsInjective(order) /\ Range(order) = DOMAIN map
    BY <2>1, ListsCount
  <2> QED
    BY <2>1, <2>2 DEF OrderListsTheMap
<1> QED
  BY <1>1, SpecInv, PTL

\* A hit answers with the entry put last under its key, still within its time
\* to live, computed for the asset, trust lists and validation time asked for
\* (get, verify_cached).
THEOREM HitsAreCurrent == Spec => []HitIsCurrent
<1>1. Inv => HitIsCurrent
  BY DEF Inv
<1> QED
  BY <1>1, SpecInv, PTL

\* Every variable of the cache keeps its declared type and the counters never
\* exceed the lookups.
THEOREM CacheTypeOK == Spec => []TypeOK
<1>1. Inv => TypeOK
  BY DEF Inv
<1> QED
  BY <1>1, SpecInv, PTL

\* A put evicts at most one entry, and that one was used before every entry
\* that stays (put_with_ttl).
THEOREM EvictsTheLeastRecentlyUsed == Spec => EvictsLeastRecentlyUsed
<1> DEFINE Evicts == latest' # latest =>
                LET gone == DOMAIN map \ DOMAIN map'
                IN  /\ Cardinality(gone) <= 1
                    /\ \A v \in gone, k \in DOMAIN map \cap DOMAIN map' : used[v] < used[k]
<1>1. ASSUME Inv, [Next]_vars PROVE [Evicts]_vars
  <2> SUFFICES ASSUME Next, latest' # latest PROVE Evicts
    BY <1>1
  <2>0. TypeOK /\ Pending
    BY <1>1 DEF Inv
  <2>1. CASE Tick \/ Verify
    BY <2>1 DEF Tick, Verify
  <2>2. CASE Store
    <3>1. pc = "store" /\ PutWithTtl(Key(asked), found, defaultTtl)
      BY <2>2 DEF Store
    <3>2. asked \in Inputs /\ found \in Results /\ Key(found.input) = Key(asked) /\ defaultTtl \in Ttls
      BY <2>0, <3>1 DEF Pending, TypeOK
    <3> QED
      BY <1>1, <3>1, <3>2, Parts, PutStep
  <2>3. ASSUME NEW input \in Inputs, VerifyCached(input) \/ CallerGet(input) PROVE FALSE
    BY <2>3 DEF VerifyCached, CallerGet, Get
  <2>4. ASSUME NEW input \in Inputs, NEW ttl \in Ttls, CallerPut(input, ttl) PROVE Evicts
    <3>1. Verified(input) \in Results /\ Key(Verified(input).input) = Key(input)
      BY <2>0, VerifiedResult
    <3> QED
      BY <1>1, <2>4, <3>1, Parts, PutStep DEF CallerPut
  <2> QED
    BY <2>1, <2>2, <2>3, <2>4 DEF Next
<1>2. (Inv /\ [Next]_vars) => [Evicts]_vars
  BY <1>1
<1> QED
  BY <1>2, SpecInv, PTL DEF Spec, EvictsLeastRecentlyUsed
=============================================================================
