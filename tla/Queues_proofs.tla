---------------------------- MODULE Queues_proofs ----------------------------
(***************************************************************************)
(* Facts about sequences: what is in one after its first element left,     *)
(* after one was appended or every copy of one taken out, where the        *)
(* elements of joined sequences are, and what a flattened sequence of      *)
(* sequences keeps of them. The definitions over all of a sequence are     *)
(* recursive functions; induction comes as the least element of a set of   *)
(* naturals.                                                               *)
(***************************************************************************)
EXTENDS Queues, WellFoundedInduction, FiniteSetTheorems, TLAPS

LEMMA LeastElement ==
    ASSUME NEW S, S \subseteq Nat, S # {}
    PROVE  \E n \in S : \A m \in S : n <= m
<1> DEFINE R == OpToRel(<, Nat)
<1>1. IsWellFoundedOn(R, Nat)
  BY NatLessThanWellFounded DEF R
<1>2. \A m, n \in Nat : m < n => <<m, n>> \in R
  BY DEF OpToRel
<1> HIDE DEF R
<1>3. PICK n \in S : \A m \in S : ~(<<m, n>> \in R)
  BY <1>1, WFMin
<1>4. \A m \in S : n <= m
  <2> TAKE m \in S
  <2>1. m \in Nat /\ n \in Nat /\ ~(m < n)
    BY <1>2, <1>3
  <2> QED
    BY <2>1
<1> QED
  BY <1>4

\* Induction over the naturals, with a set in place of a predicate.
LEMMA SetInduction ==
    ASSUME NEW S, 0 \in S, \A n \in Nat : n \in S => n + 1 \in S
    PROVE  Nat \subseteq S
<1> SUFFICES ASSUME Nat \ S # {} PROVE FALSE
  OBVIOUS
<1>1. PICK n \in Nat \ S : \A m \in Nat \ S : n <= m
  BY LeastElement
<1>2. n # 0 /\ n - 1 \in Nat /\ (n - 1) + 1 = n /\ ~(n <= n - 1)
  BY <1>1
<1>3. n - 1 \in S
  BY <1>1, <1>2
<1> QED
  BY <1>1, <1>2, <1>3

\* The first element of a queue without duplicates goes, the others stay.
LEMMA TailFacts ==
    ASSUME NEW T, NEW s \in Seq(T), s # << >>
    PROVE  /\ Tail(s) \in Seq(T) /\ Len(Tail(s)) = Len(s) - 1
           /\ Head(s) \in ToSet(s) /\ Head(s) \in T
           /\ ToSet(s) = ToSet(Tail(s)) \union {Head(s)}
           /\ IsInjective(s) => IsInjective(Tail(s)) /\ ToSet(Tail(s)) = ToSet(s) \ {Head(s)}
<1> USE DEF ToSet, IsInjective
<1>1. Len(s) \in Nat \ {0} /\ Head(s) = s[1] /\ 1 \in DOMAIN s /\ DOMAIN s = 1 .. Len(s)
  OBVIOUS
<1>2. /\ Tail(s) \in Seq(T) /\ Len(Tail(s)) = Len(s) - 1
      /\ DOMAIN Tail(s) = 1 .. Len(s) - 1
      /\ \A i \in DOMAIN Tail(s) : Tail(s)[i] = s[i + 1]
  OBVIOUS
<1>3. \A i \in DOMAIN Tail(s) : i + 1 \in DOMAIN s /\ i + 1 # 1 /\ i \in Nat
  BY <1>1, <1>2
<1>4. \A i \in DOMAIN s : i # 1 => i - 1 \in DOMAIN Tail(s) /\ (i - 1) + 1 = i
  BY <1>1, <1>2
<1>5. ToSet(s) \subseteq ToSet(Tail(s)) \union {Head(s)}
  <2> SUFFICES ASSUME NEW i \in DOMAIN s, i # 1 PROVE s[i] \in ToSet(Tail(s))
    BY <1>1
  <2>1. i - 1 \in DOMAIN Tail(s) /\ Tail(s)[i - 1] = s[i]
    BY <1>2, <1>4
  <2> QED
    BY <2>1
<1>6. ToSet(Tail(s)) \subseteq ToSet(s)
  BY <1>2, <1>3
<1>7. IsInjective(s) => Head(s) \notin ToSet(Tail(s))
  BY <1>1, <1>2, <1>3
<1>8. IsInjective(s) => IsInjective(Tail(s))
  <2> SUFFICES ASSUME IsInjective(s), NEW i \in DOMAIN Tail(s), NEW j \in DOMAIN Tail(s),
                      Tail(s)[i] = Tail(s)[j]
               PROVE  i = j
    OBVIOUS
  <2>1. i + 1 = j + 1
    BY <1>2, <1>3
  <2> QED
    BY <1>3, <2>1
<1>9. Head(s) \in ToSet(s) /\ Head(s) \in T
  BY <1>1
<1> HIDE DEF ToSet, IsInjective
<1> QED
  BY <1>2, <1>5, <1>6, <1>7, <1>8, <1>9

LEMMA AppendFacts ==
    ASSUME NEW T, NEW s \in Seq(T), NEW e \in T
    PROVE  /\ Append(s, e) \in Seq(T) /\ Len(Append(s, e)) = Len(s) + 1
           /\ ToSet(Append(s, e)) = ToSet(s) \union {e}
           /\ IsInjective(s) /\ e \notin ToSet(s) => IsInjective(Append(s, e))
<1> USE DEF ToSet, IsInjective
<1> DEFINE t == Append(s, e)
<1>1. /\ t \in Seq(T) /\ Len(t) = Len(s) + 1 /\ Len(s) \in Nat
      /\ DOMAIN s = 1 .. Len(s) /\ DOMAIN t = 1 .. Len(s) + 1
      /\ \A i \in DOMAIN t : t[i] = IF i = Len(s) + 1 THEN e ELSE s[i]
  OBVIOUS
<1> HIDE DEF t
<1>2. \A i \in DOMAIN t : i # Len(s) + 1 => i \in DOMAIN s
  BY <1>1
<1>3. \A i \in DOMAIN s : i \in DOMAIN t /\ i # Len(s) + 1
  BY <1>1
<1>4. Len(s) + 1 \in DOMAIN t
  BY <1>1
<1>5. IsInjective(s) /\ e \notin ToSet(s) => IsInjective(t)
  BY <1>1, <1>2
<1>6. ToSet(t) = ToSet(s) \union {e}
  BY <1>1, <1>2, <1>3, <1>4
<1> QED
  BY <1>1, <1>5, <1>6 DEF t

LEMMA ConcatFacts ==
    ASSUME NEW T, NEW s \in Seq(T), NEW t \in Seq(T)
    PROVE  ToSet(s \o t) = ToSet(s) \union ToSet(t)
<1>1. /\ Len(s) \in Nat /\ Len(t) \in Nat /\ DOMAIN s = 1 .. Len(s) /\ DOMAIN t = 1 .. Len(t)
      /\ DOMAIN (s \o t) = 1 .. Len(s) + Len(t)
      /\ \A i \in 1 .. Len(s) + Len(t) : (s \o t)[i] = IF i <= Len(s) THEN s[i] ELSE t[i - Len(s)]
  OBVIOUS
<1> DEFINE m == Len(s)  n == Len(t)
<1> HIDE DEF m, n
<1>2. m \in Nat /\ n \in Nat
  BY <1>1 DEF m, n
<1>3. \A i \in 1 .. m + n : IF i <= m THEN i \in 1 .. m ELSE i - m \in 1 .. n
  BY <1>2
<1>4. \A i \in 1 .. m : i \in 1 .. m + n /\ i <= m
  BY <1>2
<1>5. \A i \in 1 .. n : i + m \in 1 .. m + n /\ ~(i + m <= m) /\ (i + m) - m = i
  BY <1>2
<1>6. ToSet(s \o t) \subseteq ToSet(s) \union ToSet(t)
  BY <1>1, <1>3 DEF ToSet, m, n
<1>7. ToSet(s) \subseteq ToSet(s \o t)
  BY <1>1, <1>4 DEF ToSet, m, n
<1>8. ToSet(t) \subseteq ToSet(s \o t)
  <2> SUFFICES ASSUME NEW i \in 1 .. n PROVE t[i] \in ToSet(s \o t)
    BY <1>1 DEF ToSet, n
  <2>1. (s \o t)[i + m] = t[i] /\ i + m \in DOMAIN (s \o t)
    BY <1>1, <1>5 DEF m, n
  <2> QED
    BY <2>1 DEF ToSet
<1> QED
  BY <1>6, <1>7, <1>8

\* f holds, for every length up to n, what is left of that much of s.
KeptUpTo(f, s, p, n) ==
    f = [i \in 0 .. n |-> IF i = 0 THEN << >>
                         ELSE IF s[i] = p THEN f[i - 1]
                         ELSE Append(f[i - 1], s[i])]

LEMMA KeptExists ==
    ASSUME NEW s, NEW p, NEW n \in Nat
    PROVE  \E f : KeptUpTo(f, s, p, n)
<1> DEFINE S == {k \in Nat : \E f : KeptUpTo(f, s, p, k)}
<1>1. 0 \in S
  <2> DEFINE f == [i \in 0 .. 0 |-> << >>]
  <2>1. \A i \in 0 .. 0 : i = 0
    OBVIOUS
  <2>2. KeptUpTo(f, s, p, 0)
    BY <2>1 DEF KeptUpTo
  <2> QED
    BY <2>2
<1>2. ASSUME NEW k \in Nat, k \in S PROVE k + 1 \in S
  <2>1. PICK f : KeptUpTo(f, s, p, k)
    BY <1>2
  <2> DEFINE last == IF s[k + 1] = p THEN f[k] ELSE Append(f[k], s[k + 1])
             g == [i \in 0 .. k + 1 |-> IF i = k + 1 THEN last ELSE f[i]]
  <2>2. \A i \in 0 .. k + 1 : i # 0 => i - 1 \in 0 .. k /\ i - 1 # k + 1 /\ i - 1 \in 0 .. k + 1
    OBVIOUS
  <2>3. \A i \in 0 .. k : f[i] = IF i = 0 THEN << >>
                               ELSE IF s[i] = p THEN f[i - 1] ELSE Append(f[i - 1], s[i])
    BY <2>1 DEF KeptUpTo
  <2>4. \A i \in 0 .. k + 1 : i # k + 1 => i \in 0 .. k
    OBVIOUS
  <2>5. k + 1 # 0 /\ (k + 1) - 1 = k
    OBVIOUS
  <2>6. \A i \in 0 .. k + 1 : i # 0 => g[i - 1] = f[i - 1]
    BY <2>2
  <2>7. \A i \in 0 .. k + 1 : g[i] = IF i = 0 THEN << >>
                                   ELSE IF s[i] = p THEN g[i - 1] ELSE Append(g[i - 1], s[i])
    <3> TAKE i \in 0 .. k + 1
    <3>1. CASE i = k + 1
      <4>1. g[i] = last /\ g[i - 1] = f[k]
        BY <2>5, <2>6, <3>1
      <4> QED
        BY <2>5, <3>1, <4>1
    <3>2. CASE i # k + 1
      <4>1. g[i] = f[i] /\ i \in 0 .. k
        BY <2>4, <3>2
      <4> QED
        BY <2>3, <2>6, <4>1
    <3> QED
      BY <3>1, <3>2
  <2>8. KeptUpTo(g, s, p, k + 1)
    <3> DEFINE h == [i \in 0 .. k + 1 |-> IF i = 0 THEN << >>
                                         ELSE IF s[i] = p THEN g[i - 1] ELSE Append(g[i - 1], s[i])]
    <3>1. g = [i \in 0 .. k + 1 |-> g[i]]
      OBVIOUS
    <3> HIDE DEF g
    <3>2. g = h
      BY <2>7, <3>1
    <3> QED
      BY <3>2 DEF KeptUpTo
  <2> QED
    BY <2>8
<1> HIDE DEF S
<1>3. n \in S
  BY <1>1, <1>2, SetInduction
<1> QED
  BY <1>3 DEF S

\* Without takes every copy of p out, and nothing else.
LEMMA WithoutFacts ==
    ASSUME NEW T, NEW s \in Seq(T), NEW p
    PROVE  /\ Without(s, p) \in Seq(T)
           /\ ToSet(Without(s, p)) = ToSet(s) \ {p}
           /\ IsInjective(s) => IsInjective(Without(s, p))
           /\ Len(Without(s, p)) <= Len(s)
           /\ p \in ToSet(s) => Len(Without(s, p)) < Len(s)
<1> DEFINE n == Len(s)
           kept == CHOOSE f : KeptUpTo(f, s, p, n)
           first(i) == {s[j] : j \in 1 .. i}
           Good(i) == /\ kept[i] \in Seq(T)
                      /\ ToSet(kept[i]) = first(i) \ {p}
                      /\ IsInjective(s) => IsInjective(kept[i])
                      /\ Len(kept[i]) <= i
                      /\ p \in first(i) => Len(kept[i]) < i
           S == {i \in Nat : i <= n => Good(i)}
<1>1. n \in Nat /\ DOMAIN s = 1 .. n /\ \A i \in 1 .. n : s[i] \in T
  OBVIOUS
<1>2. KeptUpTo(kept, s, p, n)
  BY <1>1, KeptExists
<1>3. Without(s, p) = kept[n]
  BY DEF Without, KeptUpTo
<1> HIDE DEF kept
<1>4. \A i \in 0 .. n : kept[i] = IF i = 0 THEN << >>
                                 ELSE IF s[i] = p THEN kept[i - 1] ELSE Append(kept[i - 1], s[i])
  BY <1>2 DEF KeptUpTo
<1>5. 0 \in S
  <2>1. kept[0] = << >>
    BY <1>1, <1>4
  <2>2. << >> \in Seq(T) /\ Len(<< >>) = 0 /\ ToSet(<< >>) = {} /\ IsInjective(<< >>)
    BY DEF ToSet, IsInjective
  <2>3. first(0) = {}
    OBVIOUS
  <2> HIDE DEF first
  <2>4. ToSet(kept[0]) = first(0) \ {p}
    BY <2>1, <2>2, <2>3
  <2>5. kept[0] \in Seq(T) /\ IsInjective(kept[0]) /\ Len(kept[0]) <= 0
    BY <2>1, <2>2
  <2>6. p \notin first(0)
    BY <2>3
  <2>7. Good(0)
    BY <2>4, <2>5, <2>6
  <2> QED
    BY <2>7
<1>6. ASSUME NEW i \in Nat, i \in S PROVE i + 1 \in S
  <2> SUFFICES ASSUME i + 1 <= n PROVE Good(i + 1)
    OBVIOUS
  <2>1. /\ i + 1 \in 1 .. n /\ i + 1 \in 0 .. n /\ i <= n /\ i + 1 # 0 /\ (i + 1) - 1 = i
        /\ s[i + 1] \in T
    BY <1>1
  <2>2. Good(i)
    BY <1>6, <2>1
  <2>3. first(i + 1) = first(i) \union {s[i + 1]}
    <3>1. \A j \in 1 .. i + 1 : j \in 1 .. i \/ j = i + 1
      OBVIOUS
    <3>2. \A j \in 1 .. i : j \in 1 .. i + 1
      OBVIOUS
    <3>3. i + 1 \in 1 .. i + 1
      OBVIOUS
    <3> QED
      BY <3>1, <3>2, <3>3
  <2>4. Len(kept[i]) \in Nat
    BY <2>2
  <2>5. CASE s[i + 1] = p
    <3>1. kept[i + 1] = kept[i]
      BY <1>4, <2>1, <2>5
    <3> HIDE DEF first
    <3> QED
      BY <2>2, <2>3, <2>4, <2>5, <3>1
  <2>6. CASE s[i + 1] # p
    <3>1. kept[i + 1] = Append(kept[i], s[i + 1])
      BY <1>4, <2>1, <2>6
    <3>2. /\ kept[i + 1] \in Seq(T) /\ Len(kept[i + 1]) = Len(kept[i]) + 1
          /\ ToSet(kept[i + 1]) = ToSet(kept[i]) \union {s[i + 1]}
          /\ IsInjective(kept[i]) /\ s[i + 1] \notin ToSet(kept[i]) => IsInjective(kept[i + 1])
      BY <2>1, <2>2, <3>1, AppendFacts
    <3>3. IsInjective(s) => s[i + 1] \notin first(i)
      <4>1. \A j \in 1 .. i : j \in DOMAIN s /\ j # i + 1
        BY <1>1, <2>1
      <4> QED
        BY <1>1, <2>1, <4>1 DEF IsInjective
    <3> HIDE DEF first
    <3> QED
      BY <2>2, <2>3, <2>4, <2>6, <3>2, <3>3
  <2> QED
    BY <2>5, <2>6
<1> HIDE DEF S
<1>7. n \in S
  BY <1>1, <1>5, <1>6, SetInduction
<1>8. Good(n)
  BY <1>1, <1>7 DEF S
<1>9. first(n) = ToSet(s)
  BY <1>1 DEF ToSet
<1> HIDE DEF first
<1> QED
  BY <1>3, <1>8, <1>9

\* A queue without duplicates has as many places as elements.
LEMMA QueueCardinality ==
    ASSUME NEW T, NEW s \in Seq(T), IsInjective(s)
    PROVE  IsFiniteSet(ToSet(s)) /\ Cardinality(ToSet(s)) = Len(s)
<1>1. Len(s) \in Nat /\ DOMAIN s = 1 .. Len(s) /\ s = [i \in 1 .. Len(s) |-> s[i]]
  OBVIOUS
<1>2. \A i \in 1 .. Len(s) : s[i] \in ToSet(s)
  BY <1>1 DEF ToSet
<1>3. s \in [1 .. Len(s) -> ToSet(s)]
  BY <1>1, <1>2
<1>4. s \in Surjection(1 .. Len(s), ToSet(s))
  BY <1>1, <1>3 DEF Surjection, ToSet
<1>5. s \in Injection(1 .. Len(s), ToSet(s))
  BY <1>1, <1>3 DEF Injection, IsInjective
<1>6. IsFiniteSet(1 .. Len(s)) /\ Cardinality(1 .. Len(s)) = Len(s)
  <2>1. Len(s) \in Nat
    BY <1>1
  <2> DEFINE n == Len(s)
  <2> HIDE DEF n
  <2>2. n \in Int /\ 1 \in Int /\ (IF 1 > n THEN 0 ELSE n - 1 + 1) = n
    BY <2>1 DEF n
  <2>3. IsFiniteSet(1 .. n) /\ Cardinality(1 .. n) = n
    BY <2>2, FS_Interval
  <2> QED
    BY <2>3 DEF n
<1> QED
  BY <1>4, <1>5, <1>6, FS_Surjection

\* WithoutFirst takes p out of a queue without duplicates, and nothing else.
LEMMA WithoutFirstFacts ==
    ASSUME NEW T, NEW s \in Seq(T), NEW p, IsInjective(s)
    PROVE  /\ WithoutFirst(s, p) \in Seq(T)
           /\ ToSet(WithoutFirst(s, p)) = ToSet(s) \ {p}
           /\ IsInjective(WithoutFirst(s, p))
           /\ Len(WithoutFirst(s, p)) = IF p \in ToSet(s) THEN Len(s) - 1 ELSE Len(s)
<1>1. CASE p \notin ToSet(s)
  BY <1>1 DEF WithoutFirst
<1>2. CASE p \in ToSet(s)
  <2> DEFINE n == Len(s)
             first == CHOOSE i \in DOMAIN s : s[i] = p /\ \A j \in 1 .. i - 1 : s[j] # p
             t == [i \in 1 .. n - 1 |-> IF i < first THEN s[i] ELSE s[i + 1]]
  <2>1. n \in Nat /\ DOMAIN s = 1 .. n /\ \A i \in 1 .. n : s[i] \in T
    OBVIOUS
  <2>2. \E i \in DOMAIN s : s[i] = p /\ \A j \in 1 .. i - 1 : s[j] # p
    <3>1. PICK i \in DOMAIN s : s[i] = p
      BY <1>2 DEF ToSet
    <3>2. \A j \in 1 .. i - 1 : j \in DOMAIN s /\ j # i
      BY <2>1
    <3>3. \A j \in 1 .. i - 1 : s[j] # p
      BY <3>1, <3>2 DEF IsInjective
    <3> QED
      BY <3>1, <3>3
  <2>3. first \in 1 .. n /\ s[first] = p
    BY <2>1, <2>2
  <2>4. WithoutFirst(s, p) = t
    BY <1>2 DEF WithoutFirst
  <2> HIDE DEF first
  <2>5. n - 1 \in Nat /\ n # 0
    BY <2>1, <2>3
  <2>6. \A i \in 1 .. n - 1 : i \in 1 .. n /\ i + 1 \in 1 .. n /\ i \in Int
    BY <2>1
  <2>7. \A i \in 1 .. n - 1 : t[i] = IF i < first THEN s[i] ELSE s[i + 1]
    OBVIOUS
  <2>8. \A i \in 1 .. n - 1 : t[i] \in T
    BY <2>1, <2>6, <2>7
  <2>9. t \in Seq(T) /\ Len(t) = n - 1 /\ DOMAIN t = 1 .. n - 1
    <3>1. t \in [1 .. n - 1 -> T]
      BY <2>8
    <3>2. t \in Seq(T)
      BY <2>5, <3>1
    <3> QED
      BY <2>5, <3>1, <3>2
  <2> DEFINE from(i) == IF i < first THEN i ELSE i + 1
  <2>10. \A i \in 1 .. n - 1 : t[i] = s[from(i)] /\ from(i) \in 1 .. n /\ from(i) # first
    BY <2>3, <2>6, <2>7
  <2>11. \A i, j \in 1 .. n - 1 : from(i) = from(j) => i = j
    BY <2>3, <2>6
  <2>12. \A k \in 1 .. n : k # first => \E i \in 1 .. n - 1 : from(i) = k
    <3> TAKE k \in 1 .. n
    <3> HAVE k # first
    <3>1. CASE k < first
      <4>1. k \in 1 .. n - 1 /\ from(k) = k
        BY <2>1, <2>3, <3>1
      <4> QED
        BY <4>1
    <3>2. CASE k > first
      <4>1. k - 1 \in 1 .. n - 1 /\ from(k - 1) = k
        BY <2>1, <2>3, <3>2
      <4> QED
        BY <4>1
    <3> QED
      BY <2>1, <2>3, <3>1, <3>2
  <2> HIDE DEF t, from
  <2>13. IsInjective(t)
    BY <2>1, <2>9, <2>10, <2>11 DEF IsInjective
  <2>14. ToSet(t) \subseteq ToSet(s) \ {p}
    BY <2>1, <2>3, <2>9, <2>10 DEF ToSet, IsInjective
  <2>15. ToSet(s) \ {p} \subseteq ToSet(t)
    <3> SUFFICES ASSUME NEW k \in 1 .. n, s[k] # p PROVE s[k] \in ToSet(t)
      BY <2>1 DEF ToSet
    <3>1. PICK i \in 1 .. n - 1 : from(i) = k
      BY <2>3, <2>12
    <3>2. t[i] = s[k] /\ i \in DOMAIN t
      BY <2>9, <2>10, <3>1
    <3> QED
      BY <3>2 DEF ToSet
  <2> QED
    BY <1>2, <2>4, <2>9, <2>13, <2>14, <2>15
<1> QED
  BY <1>1, <1>2

---------------------------------------------------------------------------
\* f holds, for every number of them up to n, the sequences of s joined.
JoinedUpTo(f, s, n) ==
    f = [i \in 1 .. n |-> IF i = 1 THEN s[i] ELSE f[i - 1] \o s[i]]

LEMMA JoinedExists ==
    ASSUME NEW s, NEW n \in Nat
    PROVE  \E f : JoinedUpTo(f, s, n)
<1> DEFINE S == {k \in Nat : \E f : JoinedUpTo(f, s, k)}
<1>1. 0 \in S
  <2> DEFINE f == [i \in 1 .. 0 |-> << >>]
  <2>1. ~ \E i \in 1 .. 0 : TRUE
    OBVIOUS
  <2>2. JoinedUpTo(f, s, 0)
    BY <2>1 DEF JoinedUpTo
  <2> QED
    BY <2>2
<1>2. ASSUME NEW k \in Nat, k \in S PROVE k + 1 \in S
  <2>1. PICK f : JoinedUpTo(f, s, k)
    BY <1>2
  <2> DEFINE last == IF k + 1 = 1 THEN s[k + 1] ELSE f[k] \o s[k + 1]
             g == [i \in 1 .. k + 1 |-> IF i = k + 1 THEN last ELSE f[i]]
  <2>2. \A i \in 1 .. k + 1 : i # 1 => i - 1 \in 1 .. k /\ i - 1 # k + 1 /\ i - 1 \in 1 .. k + 1
    OBVIOUS
  <2>3. \A i \in 1 .. k : f[i] = IF i = 1 THEN s[i] ELSE f[i - 1] \o s[i]
    BY <2>1 DEF JoinedUpTo
  <2>4. \A i \in 1 .. k + 1 : i # k + 1 => i \in 1 .. k
    OBVIOUS
  <2>5. (k + 1) - 1 = k
    OBVIOUS
  <2>6. \A i \in 1 .. k + 1 : i # 1 => g[i - 1] = f[i - 1]
    BY <2>2
  <2>7. \A i \in 1 .. k + 1 : g[i] = IF i = 1 THEN s[i] ELSE g[i - 1] \o s[i]
    <3> TAKE i \in 1 .. k + 1
    <3>1. CASE i = k + 1
      <4>1. g[i] = last /\ (i # 1 => g[i - 1] = f[k])
        BY <2>5, <2>6, <3>1
      <4> QED
        BY <2>5, <3>1, <4>1
    <3>2. CASE i # k + 1
      <4>1. g[i] = f[i] /\ i \in 1 .. k
        BY <2>4, <3>2
      <4> QED
        BY <2>3, <2>6, <4>1
    <3> QED
      BY <3>1, <3>2
  <2>8. JoinedUpTo(g, s, k + 1)
    <3> DEFINE h == [i \in 1 .. k + 1 |-> IF i = 1 THEN s[i] ELSE g[i - 1] \o s[i]]
    <3>1. g = [i \in 1 .. k + 1 |-> g[i]]
      OBVIOUS
    <3> HIDE DEF g
    <3>2. g = h
      BY <2>7, <3>1
    <3> QED
      BY <3>2 DEF JoinedUpTo
  <2> QED
    BY <2>8
<1> HIDE DEF S
<1>3. n \in S
  BY <1>1, <1>2, SetInduction
<1> QED
  BY <1>3 DEF S

\* What joining one of B more takes from each family to the next holds of
\* FlattenSeq: n of B joined are in the family of n.
LEMMA FlattenFacts ==
    ASSUME NEW F, NEW B, << >> \in F[0], \A b \in B : b \in F[1],
           \A k \in Nat : \A a \in F[k], b \in B : a \o b \in F[k + 1],
           NEW n \in Nat, NEW s \in [1 .. n -> B]
    PROVE  FlattenSeq(s) \in F[n]
<1>1. s \in Seq(B) /\ Len(s) = n /\ \A i \in 1 .. n : s[i] \in B
  OBVIOUS
<1>2. CASE n = 0
  <2>1. s = << >> /\ FlattenSeq(s) = s
    BY <1>1, <1>2 DEF FlattenSeq
  <2> QED
    BY <1>2, <2>1
<1>3. CASE n # 0
  <2> DEFINE f == CHOOSE f : JoinedUpTo(f, s, n)
             S == {i \in Nat : i \in 1 .. n => f[i] \in F[i]}
  <2>1. JoinedUpTo(f, s, n)
    BY JoinedExists
  <2>2. FlattenSeq(s) = f[n]
    BY <1>1, <1>3 DEF FlattenSeq, JoinedUpTo
  <2> HIDE DEF f
  <2>3. \A i \in 1 .. n : f[i] = IF i = 1 THEN s[i] ELSE f[i - 1] \o s[i]
    BY <2>1 DEF JoinedUpTo
  <2>4. 0 \in S
    OBVIOUS
  <2>5. ASSUME NEW k \in Nat, k \in S PROVE k + 1 \in S
    <3> SUFFICES ASSUME k + 1 \in 1 .. n PROVE f[k + 1] \in F[k + 1]
      OBVIOUS
    <3>1. CASE k = 0
      <4>1. k + 1 = 1 /\ s[1] \in B /\ f[1] = s[1]
        BY <1>1, <2>3, <3>1
      <4> QED
        BY <4>1
    <3>2. CASE k # 0
      <4>1. k \in 1 .. n /\ k + 1 # 1 /\ (k + 1) - 1 = k
        BY <3>2
      <4>2. f[k + 1] = f[k] \o s[k + 1] /\ f[k] \in F[k] /\ s[k + 1] \in B
        BY <1>1, <2>3, <2>5, <4>1
      <4> QED
        BY <4>2
    <3> QED
      BY <3>1, <3>2
  <2> HIDE DEF S
  <2>6. n \in S
    BY <2>4, <2>5, SetInduction
  <2> QED
    BY <1>3, <2>2, <2>6 DEF S
<1> QED
  BY <1>2, <1>3

\* What joining keeps holds of FlattenSeq.
LEMMA FlattenKeeps ==
    ASSUME NEW B, << >> \in B, \A a, b \in B : a \o b \in B,
           NEW n \in Nat, NEW s \in [1 .. n -> B]
    PROVE  FlattenSeq(s) \in B
<1> DEFINE F == [k \in Nat |-> B]
<1>1. /\ << >> \in F[0] /\ \A b \in B : b \in F[1]
      /\ \A k \in Nat : \A a \in F[k], b \in B : a \o b \in F[k + 1]
      /\ F[n] = B
  OBVIOUS
<1> HIDE DEF F
<1>2. FlattenSeq(s) \in F[n]
  BY <1>1, FlattenFacts
<1> QED
  BY <1>1, <1>2

---------------------------------------------------------------------------
\* Where the elements of two sequences are when they are joined.
LEMMA JoinFacts ==
    ASSUME NEW T, NEW a \in Seq(T), NEW b \in Seq(T)
    PROVE  /\ a \o b \in Seq(T) /\ Len(a \o b) = Len(a) + Len(b)
           /\ Len(a) \in Nat /\ Len(b) \in Nat
           /\ DOMAIN a = 1 .. Len(a) /\ DOMAIN b = 1 .. Len(b)
           /\ DOMAIN (a \o b) = 1 .. Len(a) + Len(b)
           /\ \A i \in DOMAIN a : i \in DOMAIN (a \o b) /\ (a \o b)[i] = a[i]
           /\ \A i \in DOMAIN b : Len(a) + i \in DOMAIN (a \o b) /\ (a \o b)[Len(a) + i] = b[i]
           /\ \A i \in DOMAIN (a \o b) :
                 \/ i \in DOMAIN a
                 \/ i > Len(a) /\ i - Len(a) \in DOMAIN b /\ (a \o b)[i] = b[i - Len(a)]
<1>1. /\ Len(a) \in Nat /\ Len(b) \in Nat /\ DOMAIN a = 1 .. Len(a) /\ DOMAIN b = 1 .. Len(b)
      /\ a \o b \in Seq(T) /\ Len(a \o b) = Len(a) + Len(b)
      /\ DOMAIN (a \o b) = 1 .. Len(a) + Len(b)
      /\ \A i \in 1 .. Len(a) + Len(b) : (a \o b)[i] = IF i <= Len(a) THEN a[i] ELSE b[i - Len(a)]
  OBVIOUS
<1> DEFINE c == a \o b  m == Len(a)  n == Len(b)
<1>2. m \in Nat /\ n \in Nat /\ DOMAIN c = 1 .. m + n
      /\ \A i \in 1 .. m + n : c[i] = IF i <= m THEN a[i] ELSE b[i - m]
  BY <1>1
<1> HIDE DEF c, m, n
<1>3. \A i \in 1 .. m : i \in 1 .. m + n /\ c[i] = a[i]
  BY <1>2
<1>4. \A i \in 1 .. n : m + i \in 1 .. m + n /\ c[m + i] = b[i]
  <2> TAKE i \in 1 .. n
  <2>1. m + i \in 1 .. m + n /\ ~(m + i <= m) /\ (m + i) - m = i
    BY <1>2
  <2> QED
    BY <1>2, <2>1
<1>5. \A i \in 1 .. m + n : i \in 1 .. m \/ (i > m /\ i - m \in 1 .. n /\ c[i] = b[i - m])
  BY <1>2
<1> QED
  BY <1>1, <1>2, <1>3, <1>4, <1>5 DEF c, m, n

\* Where the elements of a tail were.
LEMMA TailPlaces ==
    ASSUME NEW T, NEW s \in Seq(T), s # << >>
    PROVE  /\ Tail(s) \in Seq(T) /\ Len(s) \in Nat /\ 1 \in DOMAIN s /\ Head(s) = s[1]
           /\ \A i \in DOMAIN Tail(s) : /\ i \in Nat /\ i >= 1 /\ i + 1 \in DOMAIN s
                                        /\ Tail(s)[i] = s[i + 1]
           /\ \A i \in DOMAIN s : /\ i \in Nat /\ i >= 1
                                  /\ i # 1 => i - 1 \in DOMAIN Tail(s) /\ Tail(s)[i - 1] = s[i]
<1>1. /\ Tail(s) \in Seq(T) /\ Len(s) \in Nat \ {0} /\ Head(s) = s[1]
      /\ DOMAIN s = 1 .. Len(s) /\ DOMAIN Tail(s) = 1 .. Len(s) - 1
      /\ \A i \in 1 .. Len(s) - 1 : Tail(s)[i] = s[i + 1]
  OBVIOUS
<1> DEFINE n == Len(s)
<1> HIDE DEF n
<1>2. n \in Nat \ {0} /\ DOMAIN s = 1 .. n /\ DOMAIN Tail(s) = 1 .. n - 1
      /\ \A i \in 1 .. n - 1 : Tail(s)[i] = s[i + 1]
  BY <1>1 DEF n
<1>3. \A i \in 1 .. n - 1 : i \in Nat /\ i >= 1 /\ i + 1 \in 1 .. n
  BY <1>2
<1>4. \A i \in 1 .. n : i \in Nat /\ i >= 1 /\ (i # 1 => i - 1 \in 1 .. n - 1 /\ (i - 1) + 1 = i)
  BY <1>2
<1>5. 1 \in 1 .. n
  BY <1>2
<1> QED
  BY <1>1, <1>2, <1>3, <1>4, <1>5 DEF n

\* The places of a sequence where there is one of Z.
Marked(s, Z) == {i \in DOMAIN s : s[i] \in Z}

LEMMA IntervalCardinality ==
    ASSUME NEW n \in Nat
    PROVE  IsFiniteSet(1 .. n) /\ Cardinality(1 .. n) = n
<1>1. n \in Int /\ 1 \in Int /\ (IF 1 > n THEN 0 ELSE n - 1 + 1) = n
  OBVIOUS
<1> QED
  BY <1>1, FS_Interval

LEMMA MarkedCounted ==
    ASSUME NEW T, NEW s \in Seq(T), NEW Z
    PROVE  /\ IsFiniteSet(Marked(s, Z)) /\ Cardinality(Marked(s, Z)) \in Nat
           /\ Cardinality(Marked(s, Z)) <= Len(s)
<1>1. Len(s) \in Nat /\ DOMAIN s = 1 .. Len(s)
  OBVIOUS
<1>2. IsFiniteSet(1 .. Len(s)) /\ Cardinality(1 .. Len(s)) = Len(s)
  BY <1>1, IntervalCardinality
<1>3. Marked(s, Z) \in SUBSET (1 .. Len(s))
  BY <1>1 DEF Marked
<1>4. IsFiniteSet(Marked(s, Z)) /\ Cardinality(Marked(s, Z)) <= Cardinality(1 .. Len(s))
  BY <1>2, <1>3, FS_Subset
<1> QED
  BY <1>2, <1>4, FS_CardinalityType

LEMMA ShiftedCardinality ==
    ASSUME NEW m \in Nat, NEW N, N \subseteq Nat, IsFiniteSet(N)
    PROVE  /\ IsFiniteSet({m + i : i \in N})
           /\ Cardinality({m + i : i \in N}) = Cardinality(N)
<1> DEFINE S == {m + i : i \in N}
           f == [i \in N |-> m + i]
<1>1. f \in [N -> S] /\ \A i \in N : f[i] = m + i
  OBVIOUS
<1>2. \A i, j \in N : m + i = m + j => i = j
  OBVIOUS
<1>3. \A x \in S : \E i \in N : x = m + i
  OBVIOUS
<1> HIDE DEF f, S
<1>4. f \in Injection(N, S)
  BY <1>1, <1>2 DEF Injection, IsInjective
<1>5. f \in Surjection(N, S)
  BY <1>1, <1>3 DEF Surjection
<1>6. IsFiniteSet(S) /\ Cardinality(S) = Cardinality(N)
  BY <1>4, <1>5, FS_Surjection
<1> QED
  BY <1>6 DEF S

LEMMA MarkedJoin ==
    ASSUME NEW T, NEW a \in Seq(T), NEW b \in Seq(T), NEW Z
    PROVE  Cardinality(Marked(a \o b, Z)) = Cardinality(Marked(a, Z)) + Cardinality(Marked(b, Z))
<1> DEFINE m == Len(a)
           M == Marked(a, Z)
           N == Marked(b, Z)
           S == {m + i : i \in N}
           c == a \o b
<1>1. /\ m \in Nat /\ Len(b) \in Nat /\ DOMAIN a = 1 .. m /\ DOMAIN b = 1 .. Len(b)
      /\ \A i \in DOMAIN a : i \in DOMAIN c /\ c[i] = a[i]
      /\ \A i \in DOMAIN b : m + i \in DOMAIN c /\ c[m + i] = b[i]
      /\ \A i \in DOMAIN c : \/ i \in DOMAIN a
                             \/ i > m /\ i - m \in DOMAIN b /\ c[i] = b[i - m]
      /\ DOMAIN c = 1 .. m + Len(b)
  BY JoinFacts
<1>2. IsFiniteSet(M) /\ IsFiniteSet(N) /\ Cardinality(M) \in Nat /\ Cardinality(N) \in Nat
  BY MarkedCounted
<1>3. N \subseteq Nat /\ M \subseteq 1 .. m
  BY <1>1 DEF Marked
<1> DEFINE n == Len(b)
<1> HIDE DEF m, n, c
<1>4. Marked(c, Z) \subseteq M \union S
  <2> SUFFICES ASSUME NEW i \in DOMAIN c, c[i] \in Z, i \notin M PROVE i \in S
    BY DEF Marked
  <2>1. i \notin DOMAIN a
    BY <1>1 DEF Marked
  <2>2. i > m /\ i - m \in DOMAIN b /\ b[i - m] \in Z
    BY <1>1, <2>1
  <2>3. i - m \in N /\ i \in Int
    BY <1>1, <2>2 DEF Marked, n
  <2>4. m + (i - m) = i
    BY <1>1, <2>3
  <2> QED
    BY <2>3, <2>4
<1>5. M \subseteq Marked(c, Z) /\ S \subseteq Marked(c, Z)
  BY <1>1 DEF Marked
<1>6. M \intersect S = {}
  <2>1. \A i \in N : m + i \notin 1 .. m
    BY <1>1 DEF Marked, n
  <2> QED
    BY <1>3, <2>1
<1>7. IsFiniteSet(S) /\ Cardinality(S) = Cardinality(N)
  BY <1>1, <1>2, <1>3, ShiftedCardinality
<1> HIDE DEF M, N, S
<1>8. Cardinality(M \union S) = Cardinality(M) + Cardinality(S) - 0
  BY <1>2, <1>6, <1>7, FS_Union, FS_EmptySet
<1>9. Marked(c, Z) = M \union S
  BY <1>4, <1>5
<1> QED
  BY <1>2, <1>7, <1>8, <1>9 DEF c, M, N

\* A step forward leaves the marks of the others.
LEMMA MarkedTail ==
    ASSUME NEW T, NEW s \in Seq(T), s # << >>, NEW Z
    PROVE  Cardinality(Marked(s, Z))
             = (IF Head(s) \in Z THEN 1 ELSE 0) + Cardinality(Marked(Tail(s), Z))
<1> DEFINE a == <<Head(s)>>
           b == Tail(s)
<1>1. s = a \o b /\ a \in Seq(T) /\ b \in Seq(T)
  OBVIOUS
<1>2. DOMAIN a = {1} /\ a[1] = Head(s)
  OBVIOUS
<1> HIDE DEF a, b
<1>3. Cardinality(Marked(a \o b, Z)) = Cardinality(Marked(a, Z)) + Cardinality(Marked(b, Z))
  BY <1>1, MarkedJoin
<1>4. Marked(a \o b, Z) = Marked(s, Z)
  BY <1>1
<1>5. Marked(a, Z) = IF Head(s) \in Z THEN {1} ELSE {}
  BY <1>2 DEF Marked
<1>6. Cardinality(Marked(a, Z)) = IF Head(s) \in Z THEN 1 ELSE 0
  BY <1>5, FS_Singleton, FS_EmptySet
<1> QED
  BY <1>3, <1>4, <1>6 DEF b
=============================================================================
