--------------------------- MODULE AutoconfProofs ---------------------------
(***************************************************************************)
(* Proofs about Autoconf, for any boards and any layout of the fixed       *)
(* areas, the overlay and the boards' space that keeps them apart.         *)
(***************************************************************************)
EXTENDS Autoconf, SequenceTheorems, WellFoundedInduction, TLAPS

LEMMA ReverseProperties ==
  ASSUME NEW D, NEW s \in Seq(D)
  PROVE  /\ Reverse(s) \in Seq(D) /\ Len(Reverse(s)) = Len(s)
         /\ \A i \in 1 .. Len(s) : Reverse(s)[i] = s[Len(s) - i + 1]
  <1>1. Len(s) \in Nat /\ \A i \in 1 .. Len(s) : s[i] \in D
    BY LenProperties, ElementOfSeq
  <1>2. \A i \in 1 .. Len(s) : Len(s) - i + 1 \in 1 .. Len(s)
    BY <1>1
  <1>3. Reverse(s) \in [1 .. Len(s) -> D]
    BY <1>1, <1>2 DEF Reverse
  <1>4. Reverse(s) \in Seq(D)
    BY <1>1, <1>3, SeqDef
  <1>5. Len(Reverse(s)) = Len(s)
    BY <1>1, <1>3, <1>4, LenProperties
  <1>6. \A i \in 1 .. Len(s) : Reverse(s)[i] = s[Len(s) - i + 1]
    BY DEF Reverse
  <1> QED  BY <1>4, <1>5, <1>6

LEMMA ReverseEmpty == Reverse(<<>>) = <<>>
  BY ReverseProperties, EmptySeq

(* The element that was added last comes first. *)
LEMMA ReverseAppend ==
  ASSUME NEW D, NEW t \in Seq(D), NEW e \in D
  PROVE  Reverse(Append(t, e)) = <<e>> \o Reverse(t)
  <1> DEFINE m == Len(t)
             a == Append(t, e)
  <1>1. m \in Nat  BY LenProperties
  <1>2. /\ a \in Seq(D) /\ Len(a) = m + 1 /\ a[m + 1] = e
        /\ \A i \in 1 .. m : a[i] = t[i]
    BY AppendProperties
  <1>3. /\ Reverse(a) \in Seq(D) /\ Len(Reverse(a)) = m + 1
        /\ \A i \in 1 .. m + 1 : Reverse(a)[i] = a[m + 1 - i + 1]
    <2> HIDE DEF a, m
    <2>1. /\ Reverse(a) \in Seq(D) /\ Len(Reverse(a)) = Len(a)
          /\ \A i \in 1 .. Len(a) : Reverse(a)[i] = a[Len(a) - i + 1]
      BY <1>2, ReverseProperties
    <2> QED  BY <1>1, <1>2, <2>1
  <1>4. /\ Reverse(t) \in Seq(D) /\ Len(Reverse(t)) = m
        /\ \A i \in 1 .. m : Reverse(t)[i] = t[m - i + 1]
    BY ReverseProperties
  <1>5. <<e>> \in Seq(D) /\ Len(<<e>>) = 1 /\ <<e>>[1] = e
    OBVIOUS
  <1>6. /\ <<e>> \o Reverse(t) \in Seq(D) /\ Len(<<e>> \o Reverse(t)) = 1 + m
        /\ \A i \in 1 .. 1 + m :
             (<<e>> \o Reverse(t))[i] = IF i <= 1 THEN <<e>>[i] ELSE Reverse(t)[i - 1]
    BY <1>4, <1>5, ConcatProperties
  <1>7. \A i \in 1 .. m + 1 : Reverse(a)[i] = (<<e>> \o Reverse(t))[i]
    <2> SUFFICES ASSUME NEW i \in 1 .. m + 1
                 PROVE  Reverse(a)[i] = (<<e>> \o Reverse(t))[i]
      OBVIOUS
    <2>1. CASE i = 1
      <3>1. Reverse(a)[1] = a[m + 1]  BY <1>1, <1>3
      <3>2. (<<e>> \o Reverse(t))[1] = e  BY <1>1, <1>5, <1>6
      <3> QED  BY <2>1, <3>1, <3>2, <1>2
    <2>2. CASE i # 1
      <3>1. i - 1 \in 1 .. m /\ m + 1 - i + 1 \in 1 .. m
        BY <1>1, <2>2
      <3>2. Reverse(a)[i] = t[m + 1 - i + 1]  BY <3>1, <1>2, <1>3
      <3>3. (<<e>> \o Reverse(t))[i] = Reverse(t)[i - 1]
        BY <1>1, <2>2, <1>6
      <3>4. Reverse(t)[i - 1] = t[m - (i - 1) + 1]  BY <3>1, <1>4
      <3>5. m - (i - 1) + 1 = m + 1 - i + 1  BY <1>1
      <3> QED  BY <3>2, <3>3, <3>4, <3>5
    <2> QED  BY <2>1, <2>2
  <1> HIDE DEF a, m
  <1>8. Len(Reverse(a)) = Len(<<e>> \o Reverse(t))  BY <1>1, <1>3, <1>6
  <1>9. \A i \in 1 .. Len(Reverse(a)) : Reverse(a)[i] = (<<e>> \o Reverse(t))[i]
    BY <1>3, <1>7
  <1>10. Reverse(a) = <<e>> \o Reverse(t)
    BY <1>3, <1>6, <1>8, <1>9, SeqEqual
  <1> QED  BY <1>10 DEF a

(* The last element of a list, moved to a list that is kept in the         *)
(* opposite order.                                                         *)
LEMMA MoveLast ==
  ASSUME NEW D, NEW s \in Seq(D), NEW t \in Seq(D), s # <<>>
  PROVE  /\ Front(s) \in Seq(D) /\ Append(t, Last(s)) \in Seq(D)
         /\ Front(s) \o Reverse(Append(t, Last(s))) = s \o Reverse(t)
  <1> DEFINE n == Len(s)
  <1>1. n \in Nat /\ n # 0  BY LenProperties, EmptySeq
  <1>2. Last(s) \in D  BY <1>1, ElementOfSeq DEF Last
  <1>3. Front(s) \in Seq(D)
    <2>1. \A i \in 1 .. n - 1 : s[i] \in D  BY <1>1, ElementOfSeq
    <2> QED  BY <1>1, <2>1, SubSeqProperties DEF Front
  <1>4. s = Front(s) \o <<Last(s)>>
    <2>1. SubSeq(s, 1, n) = SubSeq(s, 1, n - 1) \o <<s[n]>>
      BY <1>1, SubSeqRecursiveSecond
    <2> QED  BY <2>1, SubSeqFull DEF Front, Last
  <1>5. Reverse(Append(t, Last(s))) = <<Last(s)>> \o Reverse(t)
    BY <1>2, ReverseAppend
  <1>6. <<Last(s)>> \in Seq(D) /\ Reverse(t) \in Seq(D)
    BY <1>2, ReverseProperties
  <1>7. (Front(s) \o <<Last(s)>>) \o Reverse(t)
          = Front(s) \o (<<Last(s)>> \o Reverse(t))
    BY <1>3, <1>6, ConcatAssociative
  <1>8. Append(t, Last(s)) \in Seq(D)  BY <1>2, AppendProperties
  <1> QED  BY <1>3, <1>4, <1>5, <1>7, <1>8

(* Reversing twice changes nothing. *)
LEMMA ReverseTwice ==
  ASSUME NEW D, NEW s \in Seq(D)
  PROVE  Reverse(Reverse(s)) = s
  <1> DEFINE n == Len(s)
             r == Reverse(s)
  <1>1. n \in Nat  BY LenProperties
  <1>2. /\ r \in Seq(D) /\ Len(r) = n
        /\ \A i \in 1 .. n : r[i] = s[n - i + 1]
    BY ReverseProperties
  <1>3. /\ Reverse(r) \in Seq(D) /\ Len(Reverse(r)) = n
        /\ \A i \in 1 .. n : Reverse(r)[i] = r[n - i + 1]
    <2> HIDE DEF r, n
    <2>1. /\ Reverse(r) \in Seq(D) /\ Len(Reverse(r)) = Len(r)
          /\ \A i \in 1 .. Len(r) : Reverse(r)[i] = r[Len(r) - i + 1]
      BY <1>2, ReverseProperties
    <2> QED  BY <1>2, <2>1
  <1>4. \A i \in 1 .. n : Reverse(r)[i] = s[i]
    <2> SUFFICES ASSUME NEW i \in 1 .. n PROVE Reverse(r)[i] = s[i]
      OBVIOUS
    <2> HIDE DEF r
    <2>1. n - i + 1 \in 1 .. n /\ n - (n - i + 1) + 1 = i  BY <1>1
    <2>2. Reverse(r)[i] = r[n - i + 1]  BY <1>3
    <2>3. r[n - i + 1] = s[n - (n - i + 1) + 1]  BY <1>2, <2>1
    <2> QED  BY <2>1, <2>2, <2>3
  <1>5. \A i \in 1 .. Len(Reverse(r)) : Reverse(r)[i] = s[i]
    BY <1>3, <1>4
  <1> HIDE DEF r
  <1>6. Reverse(r) = s  BY <1>3, <1>5, SeqEqual
  <1> QED  BY <1>6 DEF r

(* A list that is cut in two, the second half reversed. *)
LEMMA ReverseCut ==
  ASSUME NEW D, NEW s \in Seq(D), NEW k \in 0 .. Len(s)
  PROVE  /\ SubSeq(s, 1, k) \in Seq(D)
         /\ Reverse(SubSeq(s, k + 1, Len(s))) \in Seq(D)
         /\ SubSeq(s, 1, k) \o Reverse(Reverse(SubSeq(s, k + 1, Len(s)))) = s
  <1>1. Len(s) \in Nat /\ \A i \in 1 .. Len(s) : s[i] \in D
    BY LenProperties, ElementOfSeq
  <1>2. SubSeq(s, 1, k) \in Seq(D)
    <2>1. \A i \in 1 .. k : s[i] \in D  BY <1>1
    <2> QED  BY <1>1, <2>1, SubSeqProperties
  <1>3. SubSeq(s, k + 1, Len(s)) \in Seq(D)
    <2>1. \A i \in k + 1 .. Len(s) : s[i] \in D  BY <1>1
    <2> QED  BY <1>1, <2>1, SubSeqProperties
  <1>4. SubSeq(s, 1, k) \o SubSeq(s, k + 1, Len(s)) = s
    <2>1. /\ 1 \in 1 .. Len(s) + 1 /\ k \in 1 - 1 .. Len(s)
          /\ Len(s) \in k .. Len(s)
      BY <1>1
    <2>2. SubSeq(s, 1, k) \o SubSeq(s, k + 1, Len(s)) = SubSeq(s, 1, Len(s))
      BY <2>1, ConcatAdjacentSubSeq
    <2> QED  BY <2>2, SubSeqFull
  <1> QED  BY <1>2, <1>3, <1>4, ReverseTwice, ReverseProperties

(* Some element of a non-empty set of indices is the greatest: the least   *)
(* of their distances from the end exists.                                 *)
LEMMA MaxExists ==
  ASSUME NEW n \in Nat, NEW S, S \subseteq 1 .. n, S # {}
  PROVE  \E i \in S : \A j \in S : j <= i
  <1> DEFINE less == OpToRel(<, Nat)
             T == {n - i : i \in S}
  <1>1. IsWellFoundedOn(less, Nat)  BY NatLessThanWellFounded
  <1>2. T \subseteq Nat /\ T # {}
    <2>1. \A i \in S : n - i \in Nat  OBVIOUS
    <2>2. PICK i \in S : TRUE  OBVIOUS
    <2> QED  BY <2>1, <2>2
  <1>3. \A x, y \in Nat : x < y => <<x, y>> \in less
    BY DEF OpToRel
  <1> HIDE DEF less
  <1>4. PICK x \in T : \A y \in T : ~ (<<y, x>> \in less)
    <2> HIDE DEF T
    <2> QED BY <1>1, <1>2, WFMin
  <1>5. PICK i \in S : x = n - i  BY <1>4
  <1>6. ASSUME NEW j \in S PROVE j <= i
    <2>1. n - j \in T /\ ~ (<<n - j, x>> \in less)  BY <1>4
    <2>2. ~ (n - j < x)  BY <2>1, <1>2, <1>3, <1>4
    <2> QED BY <2>2, <1>5
  <1> QED BY <1>5, <1>6

(* Some element of a non-empty set of naturals is the least. *)
LEMMA MinExists ==
  ASSUME NEW S, S \subseteq Nat, S # {}
  PROVE  \E i \in S : \A j \in S : i <= j
  <1> DEFINE less == OpToRel(<, Nat)
  <1>1. IsWellFoundedOn(less, Nat)  BY NatLessThanWellFounded
  <1>2. \A x, y \in Nat : x < y => <<x, y>> \in less  BY DEF OpToRel
  <1> HIDE DEF less
  <1>3. PICK x \in S : \A y \in S : ~ (<<y, x>> \in less)
    BY <1>1, WFMin
  <1>4. ASSUME NEW j \in S PROVE x <= j
    <2>1. ~ (<<j, x>> \in less) /\ j \in Nat /\ x \in Nat  BY <1>3
    <2>2. ~ (j < x)  BY <1>2, <2>1
    <2> QED  BY <2>1, <2>2
  <1> QED  BY <1>3, <1>4

(* Induction, over a set of naturals. *)
LEMMA SetInduction ==
  ASSUME NEW T, 0 \in T, \A n \in Nat : n \in T => n + 1 \in T
  PROVE  \A n \in Nat : n \in T
  <1> SUFFICES ASSUME NEW m \in Nat, m \notin T PROVE FALSE
    OBVIOUS
  <1> DEFINE S == {n \in Nat : n \notin T}
  <1>1. S \subseteq Nat /\ S # {}  OBVIOUS
  <1>2. PICK i \in S : \A j \in S : i <= j
    <2> HIDE DEF S
    <2> QED  BY <1>1, MinExists
  <1>3. i # 0 /\ i - 1 \in Nat  BY <1>2
  <1>4. i - 1 \in T  BY <1>2, <1>3
  <1>5. i - 1 + 1 = i  BY <1>3
  <1> QED  BY <1>2, <1>3, <1>4, <1>5

LEMMA RangeAppend ==
  ASSUME NEW D, NEW s \in Seq(D), NEW e \in D
  PROVE  /\ Append(s, e) \in Seq(D)
         /\ Range(Append(s, e)) = Range(s) \cup {e}
         /\ IsInjective(s) /\ e \notin Range(s) => IsInjective(Append(s, e))
  <1> DEFINE n == Len(s)
             a == Append(s, e)
  <1>1. n \in Nat /\ DOMAIN s = 1 .. n  BY LenProperties
  <1>2. /\ a \in Seq(D) /\ Len(a) = n + 1 /\ a[n + 1] = e
        /\ \A i \in 1 .. n : a[i] = s[i]
    BY AppendProperties
  <1> HIDE DEF a
  <1>3. DOMAIN a = 1 .. n + 1  BY <1>2, LenProperties
  <1> HIDE DEF n
  <1>4. \A i \in 1 .. n + 1 : i = n + 1 \/ i \in 1 .. n  BY <1>1
  <1>5. \A i \in 1 .. n : i \in 1 .. n + 1  BY <1>1
  <1>6. n + 1 \in 1 .. n + 1 /\ n + 1 \notin 1 .. n  BY <1>1
  <1>7. Range(a) = Range(s) \cup {e}
    BY ONLY <1>1, <1>2, <1>3, <1>4, <1>5, <1>6 DEF Range
  <1>8. ASSUME IsInjective(s), e \notin Range(s) PROVE IsInjective(a)
    <2>1. \A i \in 1 .. n : s[i] # e  BY <1>1, <1>8 DEF Range
    <2> QED  BY ONLY <1>1, <1>2, <1>3, <1>4, <1>6, <1>8, <2>1 DEF IsInjective
  <1> QED  BY <1>2, <1>7, <1>8 DEF a

LEMMA RemoveAtProperties ==
  ASSUME NEW D, NEW s \in Seq(D), NEW i \in 1 .. Len(s), IsInjective(s)
  PROVE  /\ RemoveAt(s, i) \in Seq(D)
         /\ Range(RemoveAt(s, i)) = Range(s) \ {s[i]}
         /\ IsInjective(RemoveAt(s, i))
  <1> DEFINE n == Len(s)
             t == RemoveAt(s, i)
             front == SubSeq(s, 1, i - 1)
             back == SubSeq(s, i + 1, n)
  <1>1. n \in Nat /\ i \in 1 .. n /\ i \in Int /\ DOMAIN s = 1 .. n
        /\ \A j \in 1 .. n : s[j] \in D
    BY LenProperties, ElementOfSeq
  <1>2. /\ front \in Seq(D) /\ Len(front) = i - 1
        /\ \A j \in 1 .. i - 1 : front[j] = s[j]
    <2>1. \A j \in 1 .. i - 1 : s[j] \in D  BY <1>1
    <2>2. /\ front \in Seq(D)
          /\ Len(front) = IF 1 <= i - 1 THEN i - 1 - 1 + 1 ELSE 0
          /\ \A j \in 1 .. i - 1 - 1 + 1 : front[j] = s[1 + j - 1]
      BY <1>1, <2>1, SubSeqProperties
    <2> HIDE DEF front
    <2> QED  BY <1>1, <2>2
  <1>3. /\ back \in Seq(D) /\ Len(back) = n - i
        /\ \A j \in 1 .. n - i : back[j] = s[i + j]
    <2>1. \A j \in i + 1 .. n : s[j] \in D  BY <1>1
    <2>2. /\ back \in Seq(D)
          /\ Len(back) = IF i + 1 <= n THEN n - (i + 1) + 1 ELSE 0
          /\ \A j \in 1 .. n - (i + 1) + 1 : back[j] = s[i + 1 + j - 1]
      BY <1>1, <2>1, SubSeqProperties
    <2> HIDE DEF back, n
    <2>3. n - (i + 1) + 1 = n - i /\ (~ (i + 1 <= n) => n - i = 0)
      BY <1>1
    <2>4. \A j \in 1 .. n - i : i + 1 + j - 1 = i + j  BY <1>1
    <2>5. Len(back) = n - i  BY <2>2, <2>3
    <2> QED  BY <2>2, <2>3, <2>4, <2>5
  <1> HIDE DEF front, back
  <1>4. t = front \o back  BY DEF RemoveAt, front, back
  <1>5. /\ t \in Seq(D) /\ Len(t) = i - 1 + (n - i)
        /\ \A j \in 1 .. i - 1 + (n - i) : 
             t[j] = IF j <= i - 1 THEN front[j] ELSE back[j - (i - 1)]
    <2>1. /\ front \o back \in Seq(D)
          /\ Len(front \o back) = Len(front) + Len(back)
          /\ \A j \in 1 .. Len(front) + Len(back) : (front \o back)[j] =
               IF j <= Len(front) THEN front[j] ELSE back[j - Len(front)]
      BY <1>2, <1>3, ConcatProperties
    <2> QED  BY <1>2, <1>3, <1>4, <2>1
  <1> HIDE DEF t, n
  <1>6. /\ DOMAIN t = 1 .. n - 1
        /\ \A j \in 1 .. n - 1 : t[j] = IF j < i THEN s[j] ELSE s[j + 1]
    <2>1. Len(t) = n - 1  BY <1>1, <1>5
    <2>2. DOMAIN t = 1 .. n - 1  BY <1>5, <2>1, LenProperties
    <2>3. ASSUME NEW j \in 1 .. n - 1, j < i PROVE t[j] = s[j]
      BY <1>1, <1>2, <1>5, <2>3
    <2>4. ASSUME NEW j \in 1 .. n - 1, ~ (j < i) PROVE t[j] = s[j + 1]
      <3>1. j - (i - 1) \in 1 .. n - i /\ i + (j - (i - 1)) = j + 1
            /\ ~ (j <= i - 1) /\ j \in 1 .. i - 1 + (n - i)
        BY <1>1, <2>4
      <3>2. t[j] = back[j - (i - 1)]  BY <1>5, <3>1
      <3>3. back[j - (i - 1)] = s[i + (j - (i - 1))]  BY <1>3, <3>1
      <3> QED  BY <3>1, <3>2, <3>3
    <2> QED  BY <2>2, <2>3, <2>4
  <1>7. \A j \in 1 .. n - 1 : /\ j \in 1 .. n /\ j + 1 \in 1 .. n
                             /\ (j < i => j # i)
                             /\ (~ (j < i) => j + 1 # i)
    BY <1>1
  <1>8. \A j \in 1 .. n : j # i => \E k \in 1 .. n - 1 : t[k] = s[j]
    <2> SUFFICES ASSUME NEW j \in 1 .. n, j # i
                 PROVE  \E k \in 1 .. n - 1 : t[k] = s[j]
      OBVIOUS
    <2>1. CASE j < i
      <3>1. j \in 1 .. n - 1  BY <1>1, <2>1
      <3> QED  BY <1>6, <2>1, <3>1
    <2>2. CASE ~ (j < i)
      <3>1. j - 1 \in 1 .. n - 1 /\ ~ (j - 1 < i) /\ j - 1 + 1 = j  BY <1>1, <2>2
      <3> QED  BY <1>6, <3>1
    <2> QED  BY <2>1, <2>2
  <1>9. \A j, k \in 1 .. n : s[j] = s[k] => j = k
    BY <1>1 DEF IsInjective
  <1>10. Range(t) = Range(s) \ {s[i]}
    <2>1. ASSUME NEW x \in Range(t) PROVE x \in Range(s) /\ x # s[i]
      <3>1. PICK j \in 1 .. n - 1 : x = t[j]  BY <1>6, <2>1 DEF Range
      <3>2. \E k \in 1 .. n : x = s[k] /\ k # i
        <4>1. CASE j < i
          <5>1. j \in 1 .. n /\ j # i /\ x = s[j]  BY <1>1, <1>6, <1>7, <3>1, <4>1
          <5> QED  BY <5>1
        <4>2. CASE ~ (j < i)
          <5>1. j + 1 \in 1 .. n /\ j + 1 # i /\ x = s[j + 1]
            BY <1>1, <1>6, <1>7, <3>1, <4>2
          <5> QED  BY <5>1
        <4> QED  BY <4>1, <4>2
      <3> QED  BY <1>1, <1>9, <3>2 DEF Range
    <2>2. ASSUME NEW x \in Range(s), x # s[i] PROVE x \in Range(t)
      <3>1. PICK j \in 1 .. n : x = s[j] /\ j # i  BY <1>1, <2>2 DEF Range
      <3> QED  BY <1>6, <1>8, <3>1 DEF Range
    <2> QED  BY <2>1, <2>2
  <1>11. IsInjective(t)
    <2> SUFFICES ASSUME NEW j \in 1 .. n - 1, NEW k \in 1 .. n - 1, t[j] = t[k]
                 PROVE  j = k
      BY <1>6 DEF IsInjective
    <2> DEFINE at(x) == IF x < i THEN x ELSE x + 1
    <2>1. at(j) \in 1 .. n /\ at(k) \in 1 .. n  BY <1>1, <1>7
    <2>2. t[j] = s[at(j)] /\ t[k] = s[at(k)]  BY <1>6
    <2>3. at(j) = at(k)
      <3> HIDE DEF at
      <3> QED  BY <1>9, <2>1, <2>2
    <2> QED  BY <1>1, <2>3
  <1> QED  BY <1>5, <1>10, <1>11 DEF t

LEMMA ConcatInjective ==
  ASSUME NEW D, NEW s \in Seq(D), NEW t \in Seq(D),
         IsInjective(s), IsInjective(t), Range(s) \cap Range(t) = {}
  PROVE  IsInjective(s \o t)
  <1> DEFINE u == s \o t
             m == Len(s)
             n == Len(t)
  <1>1. m \in Nat /\ n \in Nat /\ DOMAIN s = 1 .. m /\ DOMAIN t = 1 .. n
    BY LenProperties
  <1>2. /\ u \in Seq(D) /\ Len(u) = m + n
        /\ \A i \in 1 .. m + n : u[i] = IF i <= m THEN s[i] ELSE t[i - m]
    BY ConcatProperties
  <1> HIDE DEF u
  <1>3. DOMAIN u = 1 .. m + n  BY <1>2, LenProperties
  <1> HIDE DEF m, n
  <1>4. \A i \in 1 .. m + n : IF i <= m THEN i \in 1 .. m ELSE i - m \in 1 .. n
    BY <1>1
  <1> SUFFICES ASSUME NEW i \in 1 .. m + n, NEW k \in 1 .. m + n, u[i] = u[k]
               PROVE  i = k
    BY <1>3 DEF IsInjective, u
  <1>5. \A a \in 1 .. m, b \in 1 .. n : s[a] # t[b]
    BY <1>1 DEF Range
  <1>6. CASE i <= m /\ k <= m
    <2>1. i \in DOMAIN s /\ k \in DOMAIN s /\ s[i] = s[k]
      BY <1>1, <1>2, <1>4, <1>6
    <2> QED  BY <2>1 DEF IsInjective
  <1>7. CASE ~ (i <= m) /\ ~ (k <= m)
    <2>1. i - m \in DOMAIN t /\ k - m \in DOMAIN t /\ t[i - m] = t[k - m]
      BY <1>1, <1>2, <1>4, <1>7
    <2>2. i - m = k - m  BY <2>1 DEF IsInjective
    <2> QED  BY <1>1, <2>2
  <1>8. CASE i <= m /\ ~ (k <= m)
    <2>1. u[i] = s[i] /\ u[k] = t[k - m]  BY <1>2, <1>8
    <2> QED  BY <1>4, <1>5, <1>8, <2>1
  <1>9. CASE ~ (i <= m) /\ k <= m
    <2>1. u[k] = s[k] /\ u[i] = t[i - m]  BY <1>2, <1>9
    <2> QED  BY <1>4, <1>5, <1>9, <2>1
  <1> QED  BY <1>6, <1>7, <1>8, <1>9

(* The elements of s in S, taken one after the other: the function Among   *)
(* is defined by exists, ...                                               *)
AmongStep(s, S, f, i) ==
  IF i = 0 THEN <<>> ELSE IF s[i] \in S THEN Append(f[i - 1], s[i]) ELSE f[i - 1]

LEMMA AmongExists ==
  ASSUME NEW s, NEW S, NEW m \in Nat
  PROVE  \E f : f = [i \in 0 .. m |-> AmongStep(s, S, f, i)]
  <1> DEFINE T == {n \in Nat : \E f : f = [i \in 0 .. n |-> AmongStep(s, S, f, i)]}
  <1>1. 0 \in T
    <2> DEFINE f == [i \in 0 .. 0 |-> <<>>]
    <2>1. f = [i \in 0 .. 0 |-> AmongStep(s, S, f, i)]
      BY DEF AmongStep
    <2> QED  BY <2>1
  <1>2. ASSUME NEW n \in Nat, n \in T PROVE n + 1 \in T
    <2>1. PICK f : f = [i \in 0 .. n |-> AmongStep(s, S, f, i)]
      BY <1>2
    <2> DEFINE g == [i \in 0 .. n + 1 |-> IF i = n + 1 THEN AmongStep(s, S, f, i) ELSE f[i]]
    <2>2. \A i \in 0 .. n : g[i] = f[i]  OBVIOUS
    <2>3. \A i \in 0 .. n + 1 : AmongStep(s, S, g, i) = AmongStep(s, S, f, i)
      <3> SUFFICES ASSUME NEW i \in 0 .. n + 1
                   PROVE  AmongStep(s, S, g, i) = AmongStep(s, S, f, i)
        OBVIOUS
      <3> HIDE DEF g
      <3>1. i # 0 => i - 1 \in 0 .. n  OBVIOUS
      <3>2. i # 0 => g[i - 1] = f[i - 1]  BY <2>2, <3>1
      <3> QED  BY <3>2 DEF AmongStep
    <2>4. \A i \in 0 .. n : f[i] = AmongStep(s, S, f, i)  BY <2>1
    <2>5. \A i \in 0 .. n + 1 : g[i] = AmongStep(s, S, f, i)  
      <3>1. \A i \in 0 .. n + 1 : i # n + 1 => i \in 0 .. n  OBVIOUS
      <3> QED  BY <2>4, <3>1
    <2>6. g = [i \in 0 .. n + 1 |-> g[i]]  OBVIOUS
    <2> HIDE DEF g
    <2>7. \A i \in 0 .. n + 1 : g[i] = AmongStep(s, S, g, i)  BY <2>3, <2>5
    <2>8. g = [i \in 0 .. n + 1 |-> AmongStep(s, S, g, i)]  BY <2>6, <2>7
    <2> QED  BY <2>8
  <1> HIDE DEF T
  <1>3. \A n \in Nat : n \in T  BY <1>1, <1>2, SetInduction
  <1> QED  BY <1>3 DEF T

(* ... and what it returns has these elements, each as often as s.         *)
LEMMA AmongProperties ==
  ASSUME NEW D, NEW s \in Seq(D), NEW S
  PROVE  /\ Among(s, S) \in Seq(D)
         /\ Range(Among(s, S)) = Range(s) \cap S
         /\ IsInjective(s) => IsInjective(Among(s, S))
  <1> DEFINE n == Len(s)
             f == CHOOSE f : f = [i \in 0 .. n |-> AmongStep(s, S, f, i)]
  <1>1. n \in Nat /\ DOMAIN s = 1 .. n /\ \A i \in 1 .. n : s[i] \in D
    BY LenProperties, ElementOfSeq
  <1>2. Among(s, S) = f[n]  BY DEF Among, AmongStep
  <1>3. f = [i \in 0 .. n |-> AmongStep(s, S, f, i)]
    <2> HIDE DEF n
    <2>1. \E g : g = [i \in 0 .. n |-> AmongStep(s, S, g, i)]  BY <1>1, AmongExists
    <2> QED  BY <2>1
  <1> HIDE DEF f
  <1>4. \A i \in 0 .. n : f[i] = AmongStep(s, S, f, i)  BY <1>3
  <1> HIDE DEF n
  <1> DEFINE Elements(k) == {s[i] : i \in 1 .. k} \cap S
             Good(k) == /\ f[k] \in Seq(D)
                        /\ Range(f[k]) = Elements(k)
                        /\ IsInjective(s) => IsInjective(f[k])
             T == {k \in Nat : k <= n => Good(k)}
  <1>5. 0 \in T
    <2>1. f[0] = <<>>  BY <1>1, <1>4 DEF AmongStep
    <2>2. f[0] \in Seq(D) /\ Range(f[0]) = {} /\ IsInjective(f[0])
      BY <2>1 DEF Range, IsInjective
    <2>3. Elements(0) = {}  OBVIOUS
    <2> QED  BY <2>2, <2>3
  <1>6. ASSUME NEW k \in Nat, k \in T PROVE k + 1 \in T
    <2> SUFFICES ASSUME k + 1 <= n PROVE Good(k + 1)
      OBVIOUS
    <2>1. k + 1 \in 0 .. n /\ k + 1 \in 1 .. n /\ k + 1 # 0 /\ k + 1 - 1 = k
      BY <1>1
    <2>2. f[k + 1] = IF s[k + 1] \in S THEN Append(f[k], s[k + 1]) ELSE f[k]
      <3>1. f[k + 1] = AmongStep(s, S, f, k + 1)  BY <1>4, <2>1
      <3> QED  BY <2>1, <3>1 DEF AmongStep
    <2>3. Good(k)  BY <1>1, <1>6
    <2>4. Elements(k + 1) = IF s[k + 1] \in S THEN Elements(k) \cup {s[k + 1]}
                            ELSE Elements(k)
      <3>1. 1 .. k + 1 = 1 .. k \cup {k + 1}  OBVIOUS
      <3> QED  BY <3>1
    <2>5. s[k + 1] \in D  BY <1>1, <2>1
    <2>6. IsInjective(s) => s[k + 1] \notin Elements(k)
      <3>1. \A i \in 1 .. k : i \in DOMAIN s /\ i # k + 1  BY <1>1, <2>1
      <3> QED  BY <1>1, <2>1, <3>1 DEF IsInjective
    <2>7. CASE s[k + 1] \in S
      <3>1. /\ Append(f[k], s[k + 1]) \in Seq(D)
            /\ Range(Append(f[k], s[k + 1])) = Range(f[k]) \cup {s[k + 1]}
            /\ IsInjective(f[k]) /\ s[k + 1] \notin Range(f[k])
                 => IsInjective(Append(f[k], s[k + 1]))
        BY <2>3, <2>5, RangeAppend
      <3> HIDE DEF Elements
      <3> QED  BY <2>2, <2>3, <2>4, <2>6, <2>7, <3>1
    <2>8. CASE s[k + 1] \notin S
      <3> HIDE DEF Elements
      <3> QED  BY <2>2, <2>3, <2>4, <2>8
    <2> QED  BY <2>7, <2>8
  <1> HIDE DEF T
  <1>7. \A k \in Nat : k \in T  BY <1>5, <1>6, SetInduction
  <1>8. Good(n)
    <2>1. n \in T  BY <1>1, <1>7
    <2> HIDE DEF Good
    <2> QED  BY <1>1, <2>1 DEF T
  <1>9. Elements(n) = Range(s) \cap S  BY <1>1 DEF Range
  <1> QED  BY <1>2, <1>8, <1>9

-----------------------------------------------------------------------------
(* The index LeftToDo chooses is one of a board, or 0. *)
LEMMA LeftToDoRange ==
  ASSUME NEW f
  PROVE  LeftToDo(f) \in 0 .. Len(Boards)
  <1> DEFINE left == {i \in DOMAIN Boards : IsLeft(f, Boards[i])}
  <1>1. Len(Boards) \in Nat /\ DOMAIN Boards = 1 .. Len(Boards)
    BY AutoconfAssumption, LenProperties
  <1>2. CASE left = {}
    BY <1>1, <1>2 DEF LeftToDo
  <1>3. CASE left # {}
    <2> DEFINE k == CHOOSE i \in left : \A j \in left : j <= i
    <2>1. left \subseteq 1 .. Len(Boards)  BY <1>1
    <2>2. LeftToDo(f) = k  BY <1>3 DEF LeftToDo
    <2> HIDE DEF left
    <2>3. \E i \in left : \A j \in left : j <= i
      BY <1>1, <1>3, <2>1, MaxExists
    <2>4. k \in left  BY <2>3
    <2> HIDE DEF k
    <2> QED  BY <1>1, <2>1, <2>2, <2>4
  <1> QED  BY <1>2, <1>3

(* The two lists are lists of boards, and make up Boards. *)
BoardsInv ==
  /\ devices \in Seq(Devs) /\ configured \in Seq(Devs)
  /\ BoardsKeepOrder

LEMMA BoardsInit == Init => BoardsInv
  <1> SUFFICES ASSUME Init PROVE BoardsInv
    OBVIOUS
  <1>1. Boards \in Seq(Devs) /\ devices = Boards /\ configured = <<>>
    BY AutoconfAssumption DEF Init
  <1>2. Reverse(<<>>) = <<>>
    BY ReverseEmpty
  <1>3. Boards \o <<>> = Boards  BY <1>1, ConcatEmptySeq
  <1> QED  BY <1>1, <1>2, <1>3 DEF BoardsInv, BoardsKeepOrder

(* One board moves from a list to the other. *)
LEMMA BoardsConfigured == BoardsInv /\ devices # <<>> /\ device_configured => BoardsInv'
  <1> SUFFICES ASSUME BoardsInv, devices # <<>>, device_configured
               PROVE  BoardsInv'
    OBVIOUS
  <1>1. /\ devices \in Seq(Devs) /\ configured \in Seq(Devs)
        /\ devices \o Reverse(configured) = Boards
    BY DEF BoardsInv, BoardsKeepOrder
  <1>2. devices' = Front(devices) /\ configured' = Append(configured, Last(devices))
    BY DEF device_configured, Dev
  <1>3. /\ Front(devices) \in Seq(Devs) /\ Append(configured, Last(devices)) \in Seq(Devs)
        /\ Front(devices) \o Reverse(Append(configured, Last(devices)))
             = devices \o Reverse(configured)
    BY <1>1, MoveLast
  <1> QED  BY <1>1, <1>2, <1>3 DEF BoardsInv, BoardsKeepOrder

LEMMA BoardsReset == BoardsInv /\ reset => BoardsInv'
  <1> SUFFICES ASSUME BoardsInv, reset PROVE BoardsInv'
    OBVIOUS
  <1>1. devices' = Boards /\ configured' = <<>>
    BY DEF BoardsInv, BoardsKeepOrder, reset, TakenBack
  <1>2. Boards \in Seq(Devs)  BY AutoconfAssumption
  <1>3. Boards \o <<>> = Boards  BY <1>2, ConcatEmptySeq
  <1>4. (devices \o Reverse(configured))' = Boards
    BY <1>1, <1>3, ReverseEmpty
  <1>5. <<>> \in Seq(Devs)  BY EmptySeq
  <1> QED  BY <1>1, <1>2, <1>4, <1>5 DEF BoardsInv, BoardsKeepOrder

LEMMA BoardsLoad == Load => BoardsInv'
  <1> SUFFICES ASSUME Load PROVE BoardsInv'
    OBVIOUS
  <1> DEFINE k == LeftToDo(file)
  <1>1. /\ devices' = SubSeq(Boards, 1, k)
        /\ configured' = Reverse(SubSeq(Boards, k + 1, Len(Boards)))
    BY DEF Load
  <1>2. Boards \in Seq(Devs) /\ k \in 0 .. Len(Boards)
    BY AutoconfAssumption, LeftToDoRange
  <1> HIDE DEF k
  <1>3. /\ SubSeq(Boards, 1, k) \in Seq(Devs)
        /\ Reverse(SubSeq(Boards, k + 1, Len(Boards))) \in Seq(Devs)
        /\ SubSeq(Boards, 1, k) \o Reverse(Reverse(SubSeq(Boards, k + 1, Len(Boards))))
             = Boards
    BY <1>2, ReverseCut
  <1> QED  BY <1>1, <1>3 DEF BoardsInv, BoardsKeepOrder

LEMMA BoardsNext == BoardsInv /\ [Next]_vars => BoardsInv'
  <1> SUFFICES ASSUME BoardsInv, [Next]_vars PROVE BoardsInv'
    OBVIOUS
  <1> USE DEF BoardsInv, BoardsKeepOrder
  <1>1. CASE WriteLow  BY <1>1 DEF WriteLow, boardVars
  <1>2. CASE WriteHigh
    <2>1. devices # <<>> /\ device_configured  BY <1>2 DEF WriteHigh
    <2> QED  BY <2>1, BoardsConfigured
  <1>3. CASE Shutup
    <2>1. devices # <<>> /\ device_configured  BY <1>3 DEF Shutup
    <2> QED  BY <2>1, BoardsConfigured
  <1>4. CASE set_overlay  BY <1>4 DEF set_overlay, boardVars
  <1>5. CASE reset  BY <1>5, BoardsReset
  <1>6. CASE Save  BY <1>6 DEF Save, boardVars
  <1>7. CASE Load  BY <1>7, BoardsLoad
  <1>8. CASE UNCHANGED vars  BY <1>8 DEF vars, boardVars
  <1> QED
    BY <1>1, <1>2, <1>3, <1>4, <1>5, <1>6, <1>7, <1>8 DEF Next, Step

(***************************************************************************)
(* For any boards: no sequence of configuration, shutting up, reset, save  *)
(* and restore (autoconf_handler::device_configured, reset, handle_state)  *)
(* loses, doubles or reorders one.                                         *)
(***************************************************************************)
THEOREM BoardsKeepOrderCorrect == Spec => []BoardsKeepOrder
  <1>1. BoardsInv => BoardsKeepOrder  BY DEF BoardsInv
  <1> QED  BY <1>1, BoardsInit, BoardsNext, PTL DEF Spec

-----------------------------------------------------------------------------
(* The list of areas *)

Areas == [base : Nat, len : Nat, handler : Devs \cup {"rom", "cia", "autoconf"}]

Span(a) == Range64K(a.base, a.len)

(* The spans of different areas have no page in common. *)
Apart(S) == \A a, b \in S : a # b => Span(a) \cap Span(b) = {}

LEMMA AreaFields ==
  /\ \A h, b, len : /\ Area(h, b, len).base = b /\ Area(h, b, len).len = len
                    /\ Area(h, b, len).handler = h
                    /\ Span(Area(h, b, len)) = Range64K(b, len)
  /\ \A h \in Devs \cup {"rom", "cia", "autoconf"}, b, len \in Nat :
       Area(h, b, len) \in Areas
  BY DEF Area, Span, Areas

(* find_area finds the area that holds a page, if there is one. *)
LEMMA Finds ==
  ASSUME NEW as \in Seq(Areas), NEW p,
         \E a \in Range(as) : p \in Span(a)
  PROVE  /\ find_area(as, p) \in 1 .. Len(as) /\ find_area(as, p) # 0
         /\ p \in Span(as[find_area(as, p)])
         /\ as[find_area(as, p)] \in Range(as)
  <1> DEFINE hits == {i \in DOMAIN as : p \in Range64K(as[i].base, as[i].len)}
             k == CHOOSE i \in hits : \A j \in hits : i <= j
  <1>1. Len(as) \in Nat /\ DOMAIN as = 1 .. Len(as)  BY LenProperties
  <1>2. hits # {}
    <2>1. PICK i \in DOMAIN as : p \in Span(as[i])  BY DEF Range
    <2> QED  BY <2>1 DEF Span
  <1>3. hits \subseteq Nat /\ hits \subseteq DOMAIN as
    <2>1. hits \subseteq DOMAIN as  OBVIOUS
    <2>2. \A i \in DOMAIN as : i \in Nat
      <3> HIDE DEF hits, k
      <3> QED  BY ONLY <1>1
    <2> HIDE DEF hits
    <2> QED  BY <2>1, <2>2
  <1>4. \A i \in hits : p \in Span(as[i])  BY DEF Span
  <1>5. find_area(as, p) = k  BY <1>2 DEF find_area
  <1> HIDE DEF hits
  <1>6. k \in hits
    <2>1. \E i \in hits : \A j \in hits : i <= j  BY <1>2, <1>3, MinExists
    <2> QED  BY <2>1
  <1> HIDE DEF k
  <1>7. k \in 1 .. Len(as) /\ k # 0 /\ p \in Span(as[k])
    <2>1. k \in DOMAIN as  BY ONLY <1>3, <1>6
    <2>2. k \in 1 .. Len(as)  BY ONLY <1>1, <2>1
    <2>3. k # 0  BY ONLY <1>1, <2>2
    <2> QED  BY <1>4, <1>6, <2>2, <2>3
  <1>8. as[k] \in Range(as)  BY <1>1, <1>7 DEF Range
  <1> QED  BY <1>5, <1>7, <1>8

LEMMA FindsNone ==
  ASSUME NEW as \in Seq(Areas), NEW p,
         \A a \in Range(as) : p \notin Span(a)
  PROVE  find_area(as, p) = 0
  <1>1. \A i \in DOMAIN as : p \notin Span(as[i])  BY DEF Range
  <1> QED  BY <1>1 DEF find_area, Span

(* If the areas lie apart, the one that is found is the one there is. *)
LEMMA FindsTheOne ==
  ASSUME NEW as \in Seq(Areas), Apart(Range(as)), NEW a \in Range(as),
         NEW p \in Span(a)
  PROVE  /\ find_area(as, p) \in 1 .. Len(as) /\ find_area(as, p) # 0
         /\ as[find_area(as, p)] = a
         /\ HandlerAt(as, p) = a.handler
  <1> DEFINE i == find_area(as, p)
  <1>1. /\ i \in 1 .. Len(as) /\ i # 0 /\ p \in Span(as[i]) /\ as[i] \in Range(as)
    BY Finds
  <1>2. HandlerAt(as, p) = as[i].handler  BY <1>1 DEF HandlerAt
  <1> HIDE DEF i
  <1>3. as[i] = a  BY <1>1 DEF Apart
  <1> QED  BY <1>1, <1>2, <1>3 DEF i

LEMMA NothingAnswers ==
  ASSUME NEW as \in Seq(Areas), NEW p,
         \A a \in Range(as) : p \notin Span(a)
  PROVE  HandlerAt(as, p) = "none"
  BY FindsNone DEF HandlerAt

(* What unregister_handler leaves. *)
LEMMA Unregisters ==
  ASSUME NEW as \in Seq(Areas), IsInjective(as), Apart(Range(as)),
         NEW a \in Range(as), a.len # 0
  PROVE  /\ CanUnregister(as, a)
         /\ unregister_handler(as, a) \in Seq(Areas)
         /\ Range(unregister_handler(as, a)) = Range(as) \ {a}
         /\ IsInjective(unregister_handler(as, a))
  <1> DEFINE i == find_area(as, a.base)
  <1>1. a \in Areas  BY RangeOfSeq
  <1>2. a.base \in Span(a)  BY <1>1 DEF Areas, Span, Range64K
  <1>3. i \in 1 .. Len(as) /\ i # 0 /\ as[i] = a
    <2> DEFINE p == a.base
    <2>1. p \in Span(a)  BY <1>2
    <2> HIDE DEF p
    <2>2. /\ find_area(as, p) \in 1 .. Len(as) /\ find_area(as, p) # 0
          /\ as[find_area(as, p)] = a
      BY <2>1, FindsTheOne
    <2> QED  BY <2>2 DEF p
  <1>4. CanUnregister(as, a) /\ unregister_handler(as, a) = RemoveAt(as, i)
    BY <1>3 DEF CanUnregister, unregister_handler
  <1> HIDE DEF i
  <1>5. /\ RemoveAt(as, i) \in Seq(Areas)
        /\ Range(RemoveAt(as, i)) = Range(as) \ {as[i]}
        /\ IsInjective(RemoveAt(as, i))
    BY <1>3, RemoveAtProperties
  <1> QED  BY <1>3, <1>4, <1>5

-----------------------------------------------------------------------------
(* What is registered when the boards are in the modes m, at the pages b,  *)
(* and the overlay is o; mt is where the guest put them.                   *)

Fixed == {Area("rom", RomBase, RomLen), Area("cia", CiaBase, 1),
          Area("autoconf", AutoBase, 1)}

Overlay(o) == IF o THEN {rom_overlay} ELSE {}

Active(m) == {d \in Devs : m[d] = "active"}

ActiveAreas(m, b) == {BoardArea(d, b[d]) : d \in Active(m)}

Registered(m, b, o) == Fixed \cup Overlay(o) \cup ActiveAreas(m, b)

Spot(b, d) == Range64K(b[d], Size[d])

Placed(m, b, mt) ==
  /\ m \in [Devs -> {"autoconf", "shutup", "active"}]
  /\ b \in [Devs -> Pages]
  /\ mt \in [Devs -> Pages \cup {-1}]
  /\ \A d \in Devs : m[d] = "active" => b[d] = mt[d] /\ Spot(b, d) \subseteq Expansion
  /\ \A d \in Devs : m[d] # "active" => mt[d] = -1
  /\ \A d, e \in Active(m) : d # e => Spot(b, d) \cap Spot(b, e) = {}

(* What answers on page p *)
OwnerOf(m, b, o, p) ==
  LET active == {d \in Devs : m[d] = "active" /\ p \in Range64K(b[d], Size[d])}
  IN  IF active # {} THEN CHOOSE d \in active : TRUE
      ELSE IF o /\ p < RomLen THEN "rom"
      ELSE HandlerAt(fixed_areas \o <<Area("autoconf", AutoBase, 1)>>, p)

Mapped(as, m, b, o) ==
  /\ as \in Seq(Areas) /\ IsInjective(as)
  /\ Range(as) = Registered(m, b, o)

LEMMA Layout ==
  /\ RomLen \in Nat \ {0} /\ RomBase \in Nat /\ AutoBase \in Nat /\ CiaBase \in Nat
  /\ \A p \in Expansion : p \in Pages /\ p \notin 0 .. RomLen - 1
  /\ Size \in [Devs -> Nat \ {0}]
  /\ LoPages \in Nat \ {0} /\ HiPages \in Nat \ {0}
  /\ Boards \in Seq(Devs) /\ IsInjective(Boards)
  BY AutoconfAssumption

LEMMA FixedTypes ==
  /\ \A o \in BOOLEAN : Fixed \cup Overlay(o) \subseteq Areas
  /\ rom_overlay \in Areas
  /\ \A a \in Fixed \cup {rom_overlay} : a.handler \notin Devs /\ a.len # 0
  <1>1. /\ Area("rom", RomBase, RomLen) \in Areas /\ Area("cia", CiaBase, 1) \in Areas
        /\ Area("autoconf", AutoBase, 1) \in Areas /\ rom_overlay \in Areas
    BY Layout, AreaFields DEF rom_overlay
  <1>2. "rom" \notin Devs /\ "cia" \notin Devs /\ "autoconf" \notin Devs
    BY AutoconfAssumption
  <1>3. \A a \in Fixed \cup {rom_overlay} : a.handler \notin Devs
    BY <1>2, AreaFields DEF Fixed, rom_overlay
  <1>4. \A a \in Fixed \cup {rom_overlay} : a.len # 0
    BY Layout, AreaFields DEF Fixed, rom_overlay
  <1> QED  BY <1>1, <1>3, <1>4 DEF Fixed, Overlay

LEMMA ActiveTypes ==
  ASSUME NEW m, NEW b, NEW mt, Placed(m, b, mt)
  PROVE  /\ ActiveAreas(m, b) \subseteq Areas
         /\ \A d \in Active(m) : /\ BoardArea(d, b[d]) \in Areas
                                /\ BoardArea(d, b[d]).handler = d
                                /\ BoardArea(d, b[d]).base = b[d]
                                /\ Span(BoardArea(d, b[d])) = Spot(b, d)
                                /\ BoardArea(d, b[d]).len # 0
                                /\ Spot(b, d) \subseteq Expansion
  <1>1. \A d \in Active(m) : d \in Devs /\ b[d] \in Nat /\ Size[d] \in Nat \ {0}
                             /\ Spot(b, d) \subseteq Expansion
    BY Layout DEF Placed, Active, Pages
  <1>2. \A d \in Active(m) : BoardArea(d, b[d]) \in Areas
    BY <1>1, AreaFields DEF BoardArea
  <1> QED  BY <1>1, <1>2, AreaFields DEF BoardArea, Spot, ActiveAreas

(* The fixed areas, the overlay and the boards lie apart. *)
LEMMA LiesApart ==
  ASSUME NEW m, NEW b, NEW mt, Placed(m, b, mt), NEW o \in BOOLEAN
  PROVE  Registered(m, b, o) \subseteq Areas /\ Apart(Registered(m, b, o))
  <1> DEFINE rom == RomBase .. RomBase + RomLen - 1
             low == 0 .. RomLen - 1
  <1>1. /\ Span(Area("rom", RomBase, RomLen)) = rom
        /\ Span(Area("cia", CiaBase, 1)) = {CiaBase}
        /\ Span(Area("autoconf", AutoBase, 1)) = {AutoBase}
        /\ Span(rom_overlay) = low
    BY Layout, AreaFields DEF rom_overlay, Range64K
  <1>2. /\ rom \cap low = {} /\ rom \cap Expansion = {} /\ low \cap Expansion = {}
        /\ AutoBase # CiaBase
        /\ AutoBase \notin rom \cup low \cup Expansion
        /\ CiaBase \notin rom \cup low \cup Expansion
    BY Layout, LayoutAssumption
  <1> HIDE DEF rom, low
  <1>3. \A d \in Active(m) : Span(BoardArea(d, b[d])) \subseteq Expansion
    BY ActiveTypes
  <1>4. \A x, y \in ActiveAreas(m, b) : x # y => Span(x) \cap Span(y) = {}
    <2> SUFFICES ASSUME NEW d \in Active(m), NEW e \in Active(m),
                        BoardArea(d, b[d]) # BoardArea(e, b[e])
                 PROVE  Span(BoardArea(d, b[d])) \cap Span(BoardArea(e, b[e])) = {}
      BY DEF ActiveAreas
    <2>1. d # e  OBVIOUS
    <2> QED  BY <2>1, ActiveTypes DEF Placed
  <1>5. \A x \in Fixed \cup Overlay(o), y \in ActiveAreas(m, b) :
          Span(x) \cap Span(y) = {}
    BY <1>1, <1>2, <1>3 DEF Fixed, Overlay, ActiveAreas
  <1>6. \A x, y \in Fixed \cup Overlay(o) : x # y => Span(x) \cap Span(y) = {}
    BY <1>1, <1>2 DEF Fixed, Overlay
  <1>7. Apart(Registered(m, b, o))
    <2> HIDE DEF rom, low
    <2> QED  BY <1>4, <1>5, <1>6 DEF Apart, Registered
  <1> QED  BY <1>7, FixedTypes, ActiveTypes DEF Registered

(* The map, as the boards' states have it. *)
LEMMA Answers ==
  ASSUME NEW m, NEW b, NEW mt, Placed(m, b, mt), NEW o \in BOOLEAN,
         NEW as, Mapped(as, m, b, o), NEW p \in Pages
  PROVE  HandlerAt(as, p) = OwnerOf(m, b, o, p)
  <1> DEFINE active == {d \in Devs : m[d] = "active" /\ p \in Range64K(b[d], Size[d])}
             three == fixed_areas \o <<Area("autoconf", AutoBase, 1)>>
  <1>1. as \in Seq(Areas) /\ Range(as) = Registered(m, b, o) /\ Apart(Range(as))
    BY LiesApart DEF Mapped
  <1>2. three \in Seq(Areas) /\ Range(three) = Fixed /\ Apart(Fixed)
    <2> DEFINE r == Area("rom", RomBase, RomLen)
               c == Area("cia", CiaBase, 1)
               a == Area("autoconf", AutoBase, 1)
    <2>1. Fixed = {r, c, a}  BY DEF Fixed
    <2>2. r \in Areas /\ c \in Areas /\ a \in Areas  BY <2>1, FixedTypes
    <2>3. three = <<r, c>> \o <<a>>  BY DEF fixed_areas
    <2> HIDE DEF r, c, a
    <2>4. /\ <<r, c>> \in Seq(Areas) /\ Range(<<r, c>>) = {r, c}
          /\ <<a>> \in Seq(Areas) /\ Range(<<a>>) = {a}
      BY <2>2 DEF Range
    <2>5. three \in Seq(Areas) /\ Range(three) = {r, c} \cup {a}
      <3>1. <<r, c>> \o <<a>> \in Seq(Areas)  BY <2>4, ConcatProperties
      <3>2. Range(<<r, c>> \o <<a>>) = Range(<<r, c>>) \cup Range(<<a>>)
        <4> DEFINE s == <<r, c>>
                   t == <<a>>
        <4>1. s \in Seq(Areas) /\ t \in Seq(Areas)  BY <2>4
        <4> HIDE DEF s, t
        <4>2. Range(s \o t) = Range(s) \cup Range(t)  BY <4>1, RangeConcatenation
        <4> QED  BY <4>2 DEF s, t
      <3> QED  BY <2>3, <2>4, <3>1, <3>2
    <2>6. Apart(Fixed)  BY <1>1 DEF Apart, Registered
    <2> QED  BY <2>1, <2>5, <2>6
  <1>3. OwnerOf(m, b, o, p) = IF active # {} THEN CHOOSE d \in active : TRUE
                              ELSE IF o /\ p < RomLen THEN "rom"
                              ELSE HandlerAt(three, p)
    BY DEF OwnerOf
  <1> HIDE DEF three
  <1>4. CASE active # {}
    <2>1. PICK d \in active : OwnerOf(m, b, o, p) = d
      <3> HIDE DEF active
      <3> QED  BY <1>3, <1>4
    <2>2. d \in Active(m) /\ p \in Spot(b, d)  BY DEF Active, Spot
    <2>3. /\ BoardArea(d, b[d]) \in Range(as) /\ p \in Span(BoardArea(d, b[d]))
          /\ BoardArea(d, b[d]).handler = d
      BY <1>1, <2>2, ActiveTypes DEF Registered, ActiveAreas
    <2>4. HandlerAt(as, p) = BoardArea(d, b[d]).handler
      BY <1>1, <2>3, FindsTheOne
    <2> QED  BY <2>1, <2>3, <2>4
  <1>5. CASE active = {} /\ o /\ p < RomLen
    <2>1. OwnerOf(m, b, o, p) = "rom"  BY <1>3, <1>5
    <2>2. rom_overlay \in Range(as) /\ rom_overlay.handler = "rom"
      BY <1>1, <1>5, AreaFields DEF Registered, Overlay, rom_overlay
    <2>3. p \in Span(rom_overlay)
      BY <1>5, Layout, AreaFields DEF rom_overlay, Range64K, Pages
    <2>4. HandlerAt(as, p) = rom_overlay.handler  BY <1>1, <2>2, <2>3, FindsTheOne
    <2> QED  BY <2>1, <2>2, <2>4
  <1>6. CASE active = {} /\ ~ (o /\ p < RomLen)
    <2>1. OwnerOf(m, b, o, p) = HandlerAt(three, p)  BY <1>3, <1>6
    <2>2. CASE \E a \in Fixed : p \in Span(a)
      <3>1. PICK a \in Fixed : p \in Span(a)  BY <2>2
      <3>2. a \in Range(as) /\ a \in Range(three)  BY <1>1, <1>2 DEF Registered
      <3>3. HandlerAt(as, p) = a.handler  BY <1>1, <3>1, <3>2, FindsTheOne
      <3>4. HandlerAt(three, p) = a.handler  BY <1>2, <3>1, <3>2, FindsTheOne
      <3> QED  BY <2>1, <3>3, <3>4
    <2>3. CASE \A a \in Fixed : p \notin Span(a)
      <3>1. \A a \in Overlay(o) : p \notin Span(a)
        BY <1>6, Layout, AreaFields DEF Overlay, rom_overlay, Range64K, Pages
      <3>2. \A a \in ActiveAreas(m, b) : p \notin Span(a)
        <4>1. \A d \in Active(m) : p \notin Spot(b, d)  BY <1>6 DEF Active, Spot
        <4>2. \A d \in Active(m) : p \notin Span(BoardArea(d, b[d]))
          BY <4>1, ActiveTypes
        <4> QED  BY <4>2 DEF ActiveAreas
      <3>3. \A a \in Range(as) : p \notin Span(a)
        BY <1>1, <2>3, <3>1, <3>2 DEF Registered
      <3>4. HandlerAt(as, p) = "none"  BY <1>1, <3>3, NothingAnswers
      <3>5. HandlerAt(three, p) = "none"  BY <1>2, <2>3, NothingAnswers
      <3> QED  BY <2>1, <3>4, <3>5
    <2> QED  BY <2>2, <2>3
  <1> QED  BY <1>4, <1>5, <1>6

(* An area on a page where nothing answers can be registered. *)
LEMMA Registers ==
  ASSUME NEW as \in Seq(Areas), IsInjective(as), NEW a \in Areas,
         a.len # 0, \A x \in Range(as) : a.base \notin Span(x)
  PROVE  /\ CanRegister(as, a.base)
         /\ Append(as, a) \in Seq(Areas) /\ IsInjective(Append(as, a))
         /\ Range(Append(as, a)) = Range(as) \cup {a}
  <1>1. a.base \in Span(a)  BY DEF Areas, Span, Range64K
  <1>2. a \notin Range(as)  BY <1>1
  <1>3. find_area(as, a.base) = 0
    <2> DEFINE p == a.base
    <2>1. \A x \in Range(as) : p \notin Span(x)  OBVIOUS
    <2> HIDE DEF p
    <2>2. find_area(as, p) = 0  BY <2>1, FindsNone
    <2> QED  BY <2>2 DEF p
  <1> QED  BY <1>2, <1>3, RangeAppend DEF CanRegister

(* The overlay taken off, or put on. *)
LEMMA OverlayOff ==
  ASSUME NEW m, NEW b, NEW mt, Placed(m, b, mt), NEW as, Mapped(as, m, b, TRUE)
  PROVE  /\ CanUnregister(as, rom_overlay)
         /\ Mapped(unregister_handler(as, rom_overlay), m, b, FALSE)
  <1>1. /\ as \in Seq(Areas) /\ IsInjective(as) /\ Apart(Range(as))
        /\ rom_overlay \in Range(as) /\ rom_overlay.len # 0
    BY LiesApart, FixedTypes DEF Mapped, Registered, Overlay
  <1>2. /\ CanUnregister(as, rom_overlay)
        /\ unregister_handler(as, rom_overlay) \in Seq(Areas)
        /\ Range(unregister_handler(as, rom_overlay)) = Range(as) \ {rom_overlay}
        /\ IsInjective(unregister_handler(as, rom_overlay))
    BY <1>1, Unregisters
  <1>3. rom_overlay \notin ActiveAreas(m, b)
    BY FixedTypes, ActiveTypes DEF ActiveAreas, Active
  <1>4. rom_overlay \notin Fixed
    <2>1. RomBase # 0 
      <3>1. (RomBase .. RomBase + RomLen - 1) \cap (0 .. RomLen - 1) = {}
        BY LayoutAssumption
      <3> QED  BY <3>1, Layout
    <2>2. rom_overlay.base = 0 /\ rom_overlay.handler = "rom"
      BY AreaFields DEF rom_overlay
    <2> QED  BY <2>1, <2>2, AreaFields DEF Fixed
  <1>5. Range(as) \ {rom_overlay} = Registered(m, b, FALSE)
    BY <1>3, <1>4 DEF Mapped, Registered, Overlay
  <1> QED  BY <1>2, <1>5 DEF Mapped

LEMMA OverlayOn ==
  ASSUME NEW m, NEW b, NEW mt, Placed(m, b, mt), NEW as, Mapped(as, m, b, FALSE)
  PROVE  CanRegister(as, 0) /\ Mapped(Append(as, rom_overlay), m, b, TRUE)
  <1>1. /\ as \in Seq(Areas) /\ IsInjective(as)
        /\ Range(as) = Registered(m, b, FALSE) /\ Apart(Registered(m, b, TRUE))
        /\ Registered(m, b, TRUE) = Registered(m, b, FALSE) \cup {rom_overlay}
    BY LiesApart DEF Mapped, Registered, Overlay
  <1>2. rom_overlay.base = 0 /\ rom_overlay.len # 0 /\ rom_overlay \in Areas
        /\ 0 \in Span(rom_overlay)
    BY FixedTypes, Layout, AreaFields DEF rom_overlay, Range64K
  <1>3. rom_overlay \notin Registered(m, b, FALSE)
    <2>1. rom_overlay \notin ActiveAreas(m, b)
      BY FixedTypes, ActiveTypes DEF ActiveAreas, Active
    <2>2. RomBase # 0 
      <3>1. (RomBase .. RomBase + RomLen - 1) \cap (0 .. RomLen - 1) = {}
        BY LayoutAssumption
      <3> QED  BY <3>1, Layout
    <2>3. rom_overlay.handler = "rom"  BY AreaFields DEF rom_overlay
    <2> QED  BY <1>2, <2>1, <2>2, <2>3, AreaFields DEF Fixed, Registered, Overlay
  <1>4. \A x \in Range(as) : rom_overlay.base \notin Span(x)
    BY <1>1, <1>2, <1>3 DEF Apart
  <1>5. /\ CanRegister(as, rom_overlay.base)
        /\ Append(as, rom_overlay) \in Seq(Areas) /\ IsInjective(Append(as, rom_overlay))
        /\ Range(Append(as, rom_overlay)) = Range(as) \cup {rom_overlay}
    BY <1>1, <1>2, <1>4, Registers
  <1> QED  BY <1>1, <1>2, <1>5 DEF Mapped

-----------------------------------------------------------------------------
(* The lists of boards *)

(* The boards in dv are to be configured, those in cf are not. *)
Listed(m, dv, cf) ==
  /\ dv \in Seq(Devs) /\ cf \in Seq(Devs)
  /\ dv \o Reverse(cf) = Boards
  /\ \A i \in 1 .. Len(dv) : m[dv[i]] = "autoconf"
  /\ \A i \in 1 .. Len(cf) : m[cf[i]] # "autoconf"

(* The elements of Boards, in the two lists. *)
LEMMA ListedBoards ==
  ASSUME NEW dv \in Seq(Devs), NEW cf \in Seq(Devs), dv \o Reverse(cf) = Boards
  PROVE  /\ Len(dv) \in Nat /\ Len(cf) \in Nat /\ Len(Boards) = Len(dv) + Len(cf)
         /\ \A i \in 1 .. Len(dv) : Boards[i] = dv[i]
         /\ \A i \in 1 .. Len(cf) : /\ Boards[Len(dv) + i] = Reverse(cf)[i]
                                   /\ Reverse(cf)[i] = cf[Len(cf) - i + 1]
  <1>1. /\ Reverse(cf) \in Seq(Devs) /\ Len(Reverse(cf)) = Len(cf)
        /\ \A i \in 1 .. Len(cf) : Reverse(cf)[i] = cf[Len(cf) - i + 1]
    BY ReverseProperties
  <1>2. /\ Len(Boards) = Len(dv) + Len(Reverse(cf))
        /\ \A i \in 1 .. Len(dv) + Len(Reverse(cf)) :
             Boards[i] = IF i <= Len(dv) THEN dv[i] ELSE Reverse(cf)[i - Len(dv)]
    BY <1>1, ConcatProperties
  <1>3. Len(dv) \in Nat /\ Len(cf) \in Nat  BY LenProperties
  <1>4. \A i \in 1 .. Len(dv) : Boards[i] = dv[i]  BY <1>1, <1>2, <1>3
  <1>5. ASSUME NEW i \in 1 .. Len(cf) PROVE Boards[Len(dv) + i] = Reverse(cf)[i]
    <2>1. /\ Len(dv) + i \in 1 .. Len(dv) + Len(cf) /\ ~ (Len(dv) + i <= Len(dv))
          /\ Len(dv) + i - Len(dv) = i
      BY <1>3
    <2> QED  BY <1>1, <1>2, <2>1
  <1> QED  BY <1>1, <1>2, <1>3, <1>4, <1>5

(* No board is twice in the list of those to configure. *)
LEMMA DevicesInjective ==
  ASSUME NEW dv \in Seq(Devs), NEW cf \in Seq(Devs), dv \o Reverse(cf) = Boards
  PROVE  \A i, k \in 1 .. Len(dv) : dv[i] = dv[k] => i = k
  <1>1. /\ Len(dv) \in Nat /\ Len(cf) \in Nat /\ Len(Boards) = Len(dv) + Len(cf)
        /\ \A i \in 1 .. Len(dv) : Boards[i] = dv[i]
    BY ListedBoards
  <1>2. DOMAIN Boards = 1 .. Len(Boards)  BY Layout, LenProperties
  <1>3. \A i, k \in DOMAIN Boards : Boards[i] = Boards[k] => i = k
    BY Layout DEF IsInjective
  <1>4. \A i \in 1 .. Len(dv) : i \in DOMAIN Boards  BY <1>1, <1>2
  <1> QED  BY <1>1, <1>3, <1>4

(* One board leaves the list: the others are to be configured still. *)
LEMMA ListedMoves ==
  ASSUME NEW m \in [Devs -> {"autoconf", "shutup", "active"}],
         NEW dv, NEW cf, Listed(m, dv, cf), dv # <<>>,
         NEW how \in {"shutup", "active"}
  PROVE  /\ Last(dv) \in Devs /\ m[Last(dv)] = "autoconf"
         /\ Listed([m EXCEPT ![Last(dv)] = how], Front(dv), Append(cf, Last(dv)))
  <1> DEFINE n == Len(dv)
             k == Len(cf)
             d == Last(dv)
             fr == Front(dv)
             ap == Append(cf, d)
             mm == [m EXCEPT ![d] = how]
  <1>1. n \in Nat /\ n # 0 /\ k \in Nat
        /\ dv \in Seq(Devs) /\ cf \in Seq(Devs) /\ dv \o Reverse(cf) = Boards
    BY LenProperties, EmptySeq DEF Listed
  <1>2. d = dv[n] /\ d \in Devs /\ m[d] = "autoconf"
    <2>1. n \in 1 .. n  BY <1>1
    <2> QED  BY <1>1, <2>1, ElementOfSeq DEF Last, Listed
  <1>3. /\ fr \in Seq(Devs) /\ ap \in Seq(Devs) /\ fr \o Reverse(ap) = Boards
    BY <1>1, MoveLast
  <1>4. /\ Len(fr) = n - 1 /\ \A i \in 1 .. n - 1 : fr[i] = dv[i]
    <2>1. \A i \in 1 .. n - 1 : dv[i] \in Devs  BY <1>1, ElementOfSeq
    <2>2. /\ Len(fr) = IF 1 <= n - 1 THEN n - 1 - 1 + 1 ELSE 0
          /\ \A i \in 1 .. n - 1 - 1 + 1 : fr[i] = dv[1 + i - 1]
      BY <1>1, <2>1, SubSeqProperties DEF Front
    <2> HIDE DEF fr, n
    <2> QED  BY <1>1, <2>2
  <1>5. Len(ap) = k + 1 /\ ap[k + 1] = d /\ \A i \in 1 .. k : ap[i] = cf[i]
    BY <1>1, <1>2, AppendProperties
  <1> HIDE DEF fr, ap, n, k
  <1>6. \A i \in 1 .. Len(fr) : mm[fr[i]] = "autoconf"
    <2> SUFFICES ASSUME NEW i \in 1 .. n - 1 PROVE mm[dv[i]] = "autoconf"
      BY <1>4
    <2>1. i \in 1 .. n /\ n \in 1 .. n /\ i # n  BY <1>1
    <2>2. dv[i] # dv[n] /\ dv[i] \in Devs /\ m[dv[i]] = "autoconf"
      BY <1>1, <2>1, DevicesInjective, ElementOfSeq DEF n, Listed
    <2> QED  BY <1>2, <2>2
  <1>7. \A i \in 1 .. Len(ap) : mm[ap[i]] # "autoconf"
    <2> SUFFICES ASSUME NEW i \in 1 .. k + 1 PROVE mm[ap[i]] # "autoconf"
      BY <1>5
    <2>1. CASE i = k + 1
      <3>1. mm[d] = how  BY <1>2
      <3> QED  BY <1>5, <2>1, <3>1
    <2>2. CASE i # k + 1
      <3>1. i \in 1 .. k  BY <1>1, <2>2
      <3>2. ap[i] = cf[i] /\ cf[i] \in Devs /\ m[cf[i]] # "autoconf"
        BY <1>1, <1>5, <3>1, ElementOfSeq DEF k, Listed
      <3>3. cf[i] # d  BY <1>2, <3>2
      <3> QED  BY <3>2, <3>3
    <2> QED  BY <2>1, <2>2
  <1>8. Listed(mm, fr, ap)  BY <1>3, <1>6, <1>7 DEF Listed
  <1> QED  BY <1>2, <1>8 DEF fr, ap

(* The search for the configured boards stops where the two lists meet, so *)
(* a restore finds both.                                                   *)
LEMMA LeftToDoIs ==
  ASSUME NEW f, NEW dv, NEW cf, Listed(f.mode, dv, cf)
  PROVE  LeftToDo(f) = Len(dv)
  <1> DEFINE n == Len(dv)
             k == Len(cf)
             left == {i \in DOMAIN Boards : IsLeft(f, Boards[i])}
  <1>1. /\ n \in Nat /\ k \in Nat /\ Len(Boards) = n + k
        /\ \A i \in 1 .. n : Boards[i] = dv[i]
        /\ \A i \in 1 .. k : Boards[n + i] = cf[k - i + 1]
    <2>1. dv \in Seq(Devs) /\ cf \in Seq(Devs) /\ dv \o Reverse(cf) = Boards
      BY DEF Listed
    <2>2. /\ n \in Nat /\ k \in Nat /\ Len(Boards) = n + k
          /\ \A i \in 1 .. n : Boards[i] = dv[i]
          /\ \A i \in 1 .. k : /\ Boards[n + i] = Reverse(cf)[i]
                              /\ Reverse(cf)[i] = cf[k - i + 1]
      BY <2>1, ListedBoards
    <2> QED  BY <2>2
  <1>2. DOMAIN Boards = 1 .. n + k
    BY <1>1, Layout, LenProperties
  <1>3. \A i \in 1 .. n : IsLeft(f, Boards[i])
    BY <1>1 DEF IsLeft, Listed
  <1>4. ASSUME NEW i \in 1 .. n + k, ~ (i <= n) PROVE ~ IsLeft(f, Boards[i])
    <2> DEFINE j == i - n
    <2>1. j \in 1 .. k /\ n + j = i /\ k - j + 1 \in 1 .. k  BY <1>1, <1>4
    <2> HIDE DEF j
    <2>2. Boards[i] = cf[k - j + 1]  BY <1>1, <2>1
    <2> QED  BY <2>1, <2>2 DEF IsLeft, Listed
  <1>5. left = 1 .. n
    <2>1. \A i \in 1 .. n : i \in 1 .. n + k  BY <1>1
    <2>2. \A i \in 1 .. n + k : i <= n => i \in 1 .. n  BY <1>1
    <2> QED  BY <1>2, <1>3, <1>4, <2>1, <2>2
  <1>6. LeftToDo(f) = IF left = {} THEN 0
                      ELSE CHOOSE i \in left : \A j \in left : j <= i
    BY DEF LeftToDo
  <1> HIDE DEF left, n
  <1>7. CASE n = 0
    <2>1. left = {}  BY <1>5, <1>7
    <2> QED  BY <1>6, <1>7, <2>1 DEF n
  <1>8. CASE n # 0
    <2>1. n \in left /\ \A j \in left : j <= n  BY <1>1, <1>5, <1>8
    <2>2. \A i \in left : i \in Nat /\ i <= n  BY <1>1, <1>5
    <2> DEFINE top == CHOOSE i \in left : \A j \in left : j <= i
    <2>3. top \in left /\ \A j \in left : j <= top  BY <2>1
    <2>4. LeftToDo(f) = top  BY <1>6, <2>1
    <2> HIDE DEF top
    <2>5. top = n  BY <1>1, <2>1, <2>2, <2>3
    <2> QED  BY <2>4, <2>5 DEF n
  <1> QED  BY <1>7, <1>8

LEMMA CutIs ==
  ASSUME NEW dv \in Seq(Devs), NEW cf \in Seq(Devs), dv \o Reverse(cf) = Boards
  PROVE  /\ SubSeq(Boards, 1, Len(dv)) = dv
         /\ Reverse(SubSeq(Boards, Len(dv) + 1, Len(Boards))) = cf
  <1> DEFINE n == Len(dv)
             k == Len(cf)
             a == SubSeq(Boards, 1, n)
             c == SubSeq(Boards, n + 1, Len(Boards))
  <1>1. /\ n \in Nat /\ k \in Nat /\ Len(Boards) = n + k
        /\ \A i \in 1 .. n : Boards[i] = dv[i]
        /\ \A i \in 1 .. k : Boards[n + i] = Reverse(cf)[i]
    BY ListedBoards
  <1>2. \A i \in 1 .. n + k : Boards[i] \in Devs
    BY <1>1, Layout, ElementOfSeq
  <1>3. a = dv
    <2>1. \A i \in 1 .. n : Boards[i] \in Devs  BY <1>1, <1>2
    <2>2. /\ a \in Seq(Devs) /\ Len(a) = IF 1 <= n THEN n - 1 + 1 ELSE 0
          /\ \A i \in 1 .. n - 1 + 1 : a[i] = Boards[1 + i - 1]
      BY <1>1, <2>1, SubSeqProperties
    <2> HIDE DEF a
    <2>3. Len(a) = n /\ \A i \in 1 .. n : a[i] = dv[i]
      <3> HIDE DEF n
      <3> QED  BY <1>1, <2>2
    <2> QED  BY <2>2, <2>3, SeqEqual
  <1>4. c = Reverse(cf)
    <2>1. \A i \in n + 1 .. n + k : Boards[i] \in Devs  BY <1>1, <1>2
    <2>2. /\ c \in Seq(Devs)
          /\ Len(c) = IF n + 1 <= n + k THEN n + k - (n + 1) + 1 ELSE 0
          /\ \A i \in 1 .. n + k - (n + 1) + 1 : c[i] = Boards[n + 1 + i - 1]
      BY <1>1, <2>1, SubSeqProperties
    <2>3. Reverse(cf) \in Seq(Devs) /\ Len(Reverse(cf)) = k  BY ReverseProperties
    <2> HIDE DEF c
    <2>4. Len(c) = k /\ \A i \in 1 .. k : c[i] = Reverse(cf)[i]
      <3> HIDE DEF n, k
      <3>1. n + k - (n + 1) + 1 = k /\ (~ (n + 1 <= n + k) => k = 0)  BY <1>1
      <3>2. \A i \in 1 .. k : n + 1 + i - 1 = n + i  BY <1>1
      <3> QED  BY <1>1, <2>2, <3>1, <3>2
    <2> QED  BY <2>2, <2>3, <2>4, SeqEqual
  <1> QED  BY <1>3, <1>4, ReverseTwice

-----------------------------------------------------------------------------
(* The inductive invariant *)

(* The boards are where the guest put them, in the right list, and nothing *)
(* else is in the map.                                                     *)
Sound(m, b, mt, o, dv, cf) ==
  /\ Placed(m, b, mt)
  /\ Listed(m, dv, cf)
  /\ o \in BOOLEAN

MachineInv ==
  /\ Sound(mode, base, meant, ovl, devices, configured)
  /\ Mapped(areas, mode, base, ovl)

(* Between the two writes: the page is free for the board, and its low     *)
(* digit is held.                                                          *)
TargetInv ==
  target # -1 => /\ devices # <<>> /\ target \in Pages /\ Free(Dev, target)
                 /\ low_addr_hold = target % LoPages

SavedMap(f) == [p \in Pages |-> OwnerOf(f.mode, f.base, f.ovl, p)]

(* A saved state is that of such a machine. *)
FileInv ==
  file # <<>> =>
    /\ file = [map |-> SavedMap(file), mode |-> file.mode,
               devices |-> file.devices, configured |-> file.configured,
               ovl |-> file.ovl, base |-> file.base, target |-> -1,
               meant |-> file.meant]
    /\ Sound(file.mode, file.base, file.meant, file.ovl, file.devices, file.configured)

MapInv == MachineInv /\ TargetInv /\ FileInv

(* The areas of a new emulator *)
LEMMA BootAreas ==
  ASSUME NEW m, NEW b, \A d \in Devs : m[d] # "active"
  PROVE  Mapped(boot_areas, m, b, TRUE)
  <1> DEFINE r == Area("rom", RomBase, RomLen)
             c == Area("cia", CiaBase, 1)
             a == Area("autoconf", AutoBase, 1)
  <1>1. Registered(m, b, TRUE) = {r, c, rom_overlay, a}
    BY DEF Registered, ActiveAreas, Active, Fixed, Overlay
  <1>2. /\ r.handler = "rom" /\ c.handler = "cia" /\ a.handler = "autoconf"
        /\ rom_overlay.handler = "rom" /\ r.base = RomBase /\ rom_overlay.base = 0
    BY AreaFields DEF rom_overlay
  <1>3. RomBase # 0
    <2>1. (RomBase .. RomBase + RomLen - 1) \cap (0 .. RomLen - 1) = {}
      BY LayoutAssumption
    <2> QED  BY <2>1, Layout
  <1>4. r \in Areas /\ c \in Areas /\ a \in Areas /\ rom_overlay \in Areas
    BY FixedTypes DEF Fixed
  <1>5. boot_areas = <<r, c>> \o <<rom_overlay, a>>
    BY DEF boot_areas, fixed_areas
  <1> HIDE DEF r, c, a
  <1>6. r # c /\ r # a /\ c # a /\ r # rom_overlay /\ c # rom_overlay /\ a # rom_overlay
    BY <1>2, <1>3
  <1> DEFINE s == <<r, c>>
             t == <<rom_overlay, a>>
  <1>7. s \in Seq(Areas) /\ Range(s) = {r, c} /\ IsInjective(s)
    BY <1>4, <1>6 DEF Range, IsInjective
  <1>8. t \in Seq(Areas) /\ Range(t) = {rom_overlay, a} /\ IsInjective(t)
    BY <1>4, <1>6 DEF Range, IsInjective
  <1>9. boot_areas = s \o t  BY <1>5
  <1> HIDE DEF s, t
  <1>10. s \o t \in Seq(Areas)  BY <1>7, <1>8, ConcatProperties
  <1>11. Range(s \o t) = Range(s) \cup Range(t)  BY <1>7, <1>8, RangeConcatenation
  <1>12. IsInjective(s \o t)
    <2>1. Range(s) \cap Range(t) = {}  BY <1>6, <1>7, <1>8
    <2> QED  BY <1>7, <1>8, <2>1, ConcatInjective
  <1> QED  BY <1>1, <1>7, <1>8, <1>9, <1>10, <1>11, <1>12 DEF Mapped

LEMMA MapInit == Init => MapInv
  <1> SUFFICES ASSUME Init PROVE MapInv
    OBVIOUS
  <1>1. /\ areas = boot_areas /\ ovl = TRUE /\ devices = Boards /\ configured = <<>>
        /\ mode = [d \in Devs |-> "autoconf"] /\ base = [d \in Devs |-> 0]
        /\ target = -1 /\ meant = [d \in Devs |-> -1] /\ file = <<>>
    BY DEF Init
  <1>2. \A d \in Devs : mode[d] = "autoconf"  BY <1>1
  <1>3. Placed(mode, base, meant)
    <2>1. 0 \in Pages
      <3>1. LoPages * HiPages \in Nat \ {0}  BY Layout
      <3> QED  BY <3>1 DEF Pages
    <2>2. Active(mode) = {}  BY <1>2 DEF Active
    <2> QED  BY <1>1, <1>2, <2>1, <2>2 DEF Placed
  <1>4. Listed(mode, devices, configured)
    <2>1. Boards \in Seq(Devs) /\ <<>> \in Seq(Devs) /\ Len(<<>>) = 0
      BY Layout, EmptySeq
    <2>2. \A i \in 1 .. Len(Boards) : Boards[i] \in Devs  BY <2>1, ElementOfSeq
    <2>3. Boards \o Reverse(<<>>) = Boards  BY <2>1, ReverseEmpty, ConcatEmptySeq
    <2> QED  BY <1>1, <2>1, <2>2, <2>3 DEF Listed
  <1>5. Mapped(areas, mode, base, ovl)
    BY <1>1, <1>2, BootAreas
  <1> QED
    BY <1>1, <1>3, <1>4, <1>5 DEF MapInv, MachineInv, Sound, TargetInv, FileInv

(* Page t is free for board d, when the guest put the others at mt. *)
Fits(mt, d, t) ==
  /\ t \in Pages /\ Range64K(t, Size[d]) \subseteq Expansion
  /\ \A e \in Devs : mt[e] # -1 => Range64K(t, Size[d]) \cap Range64K(mt[e], Size[e]) = {}

(* A board goes active there. *)
LEMMA PlacedActivates ==
  ASSUME NEW m, NEW b, NEW mt, Placed(m, b, mt), NEW d \in Devs, m[d] = "autoconf",
         NEW t, Fits(mt, d, t)
  PROVE  /\ Placed([m EXCEPT ![d] = "active"], [b EXCEPT ![d] = t], [mt EXCEPT ![d] = t])
         /\ \A x : x \in ActiveAreas([m EXCEPT ![d] = "active"], [b EXCEPT ![d] = t])
                  <=> x \in ActiveAreas(m, b) \/ x = BoardArea(d, t)
         /\ BoardArea(d, t) \notin ActiveAreas(m, b)
  <1> DEFINE mm == [m EXCEPT ![d] = "active"]
             bb == [b EXCEPT ![d] = t]
             nn == [mt EXCEPT ![d] = t]
  <1>1. /\ m \in [Devs -> {"autoconf", "shutup", "active"}]
        /\ b \in [Devs -> Pages] /\ mt \in [Devs -> Pages \cup {-1}]
        /\ \A e \in Devs : m[e] = "active" => b[e] = mt[e] /\ Spot(b, e) \subseteq Expansion
        /\ \A e \in Devs : m[e] # "active" => mt[e] = -1
        /\ \A e, f \in Active(m) : e # f => Spot(b, e) \cap Spot(b, f) = {}
        /\ t \in Pages /\ Range64K(t, Size[d]) \subseteq Expansion
    BY DEF Placed, Fits
  <1>2. /\ mm \in [Devs -> {"autoconf", "shutup", "active"}]
        /\ bb \in [Devs -> Pages] /\ nn \in [Devs -> Pages \cup {-1}]
        /\ mm[d] = "active" /\ bb[d] = t /\ nn[d] = t
        /\ \A e \in Devs : e # d => mm[e] = m[e] /\ bb[e] = b[e] /\ nn[e] = mt[e]
    BY <1>1
  <1> HIDE DEF mm, bb, nn
  <1>3. Active(mm) = Active(m) \cup {d} /\ d \notin Active(m)
    BY <1>2 DEF Active
  <1>4. /\ Spot(bb, d) = Range64K(t, Size[d])
        /\ \A e \in Devs : e # d => Spot(bb, e) = Spot(b, e)
    BY <1>2 DEF Spot
  <1>5. \A e \in Active(m) : e \in Devs /\ e # d /\ Range64K(t, Size[d]) \cap Spot(b, e) = {}
    <2> SUFFICES ASSUME NEW e \in Active(m)
                 PROVE  e \in Devs /\ e # d /\ Range64K(t, Size[d]) \cap Spot(b, e) = {}
      OBVIOUS
    <2>1. e \in Devs /\ m[e] = "active"  BY DEF Active
    <2>2. mt[e] = b[e] /\ b[e] \in Pages  BY <1>1, <2>1
    <2>3. -1 \notin Pages  BY DEF Pages
    <2>4. mt[e] # -1  BY <2>2, <2>3
    <2> QED  BY <2>1, <2>2, <2>4 DEF Spot, Fits
  <1>6. \A e, f \in Active(mm) : e # f => Spot(bb, e) \cap Spot(bb, f) = {}
    BY <1>1, <1>3, <1>4, <1>5
  <1>7. \A e \in Devs : mm[e] = "active" => bb[e] = nn[e] /\ Spot(bb, e) \subseteq Expansion
    BY <1>1, <1>2, <1>4
  <1>8. \A e \in Devs : mm[e] # "active" => nn[e] = -1
    BY <1>1, <1>2
  <1>9. Placed(mm, bb, nn)
    BY <1>2, <1>6, <1>7, <1>8 DEF Placed
  <1>10. ActiveAreas(mm, bb) = ActiveAreas(m, b) \cup {BoardArea(d, t)}
    BY <1>2, <1>3, <1>5 DEF ActiveAreas
  <1>11. BoardArea(d, t) \notin ActiveAreas(m, b)
    BY <1>5, AreaFields DEF ActiveAreas, BoardArea
  <1> QED  BY <1>9, <1>10, <1>11 DEF mm, bb, nn

LEMMA MappedActivates ==
  ASSUME NEW m, NEW b, NEW mt, Placed(m, b, mt), NEW o \in BOOLEAN,
         NEW as, Mapped(as, m, b, o), NEW d \in Devs, m[d] = "autoconf",
         NEW t, Fits(mt, d, t)
  PROVE  /\ CanRegister(as, t)
         /\ Mapped(Append(as, BoardArea(d, t)),
                   [m EXCEPT ![d] = "active"], [b EXCEPT ![d] = t], o)
  <1> DEFINE mm == [m EXCEPT ![d] = "active"]
             bb == [b EXCEPT ![d] = t]
             nn == [mt EXCEPT ![d] = t]
             a == BoardArea(d, t)
  <1>1. /\ Placed(mm, bb, nn) /\ a \notin ActiveAreas(m, b)
        /\ ActiveAreas(mm, bb) = ActiveAreas(m, b) \cup {a}
    <2>1. Placed(mm, bb, nn)  BY PlacedActivates
    <2>2. \A x : x \in ActiveAreas(mm, bb) <=> x \in ActiveAreas(m, b) \/ x = a
      BY PlacedActivates
    <2>3. a \notin ActiveAreas(m, b)  BY PlacedActivates
    <2> QED  BY <2>1, <2>2, <2>3
  <1>2. a.base = t /\ a.len = Size[d] /\ a.handler = d
    BY AreaFields DEF BoardArea
  <1> HIDE DEF mm, bb, nn, a
  <1>3. Registered(mm, bb, o) = Registered(m, b, o) \cup {a}
    BY <1>1 DEF Registered
  <1>4. a \notin Registered(m, b, o)
    BY <1>1, <1>2, FixedTypes DEF Registered, Overlay
  <1>5. Registered(mm, bb, o) \subseteq Areas /\ Apart(Registered(mm, bb, o))
    BY <1>1, LiesApart
  <1>6. a \in Areas /\ a.len # 0 /\ a.base \in Span(a)
    <2>1. a \in Areas  BY <1>3, <1>5
    <2>2. Size[d] \in Nat \ {0}  BY Layout
    <2> QED  BY <1>2, <2>1, <2>2 DEF Areas, Span, Range64K
  <1>7. \A x \in Registered(m, b, o) : a.base \notin Span(x)
    BY <1>3, <1>4, <1>5, <1>6 DEF Apart
  <1>8. as \in Seq(Areas) /\ IsInjective(as) /\ Range(as) = Registered(m, b, o)
    BY DEF Mapped
  <1>9. /\ CanRegister(as, a.base)
        /\ Append(as, a) \in Seq(Areas) /\ IsInjective(Append(as, a))
        /\ Range(Append(as, a)) = Range(as) \cup {a}
    BY <1>6, <1>7, <1>8, Registers
  <1> QED  BY <1>2, <1>3, <1>8, <1>9 DEF Mapped, mm, bb, a

LEMMA MapWriteLow == MapInv /\ WriteLow => MapInv' /\ failed' = failed
  <1> SUFFICES ASSUME MapInv, WriteLow PROVE MapInv' /\ failed' = failed
    OBVIOUS
  <1>1. UNCHANGED <<areas, ovl, devices, configured, mode, base, meant, file, failed>>
    BY DEF WriteLow, boardVars
  <1>2. MachineInv' /\ FileInv' /\ failed' = failed
    BY <1>1 DEF MapInv, MachineInv, FileInv
  <1>3. TargetInv'
    <2>1. /\ devices # <<>> /\ target' \in Pages /\ Free(Dev, target')
          /\ low_addr_hold' = target' % LoPages
      BY DEF WriteLow, LowDigit
    <2> QED  BY <1>1, <2>1 DEF TargetInv, Free, Dev
  <1> QED  BY <1>2, <1>3 DEF MapInv

(* The two digits make up the page. *)
LEMMA Digits ==
  ASSUME NEW t \in Pages
  PROVE  (t \div LoPages) * LoPages + (t % LoPages) = t
  <1> DEFINE l == LoPages
             q == t \div l
  <1>1. t \in Nat /\ l \in Nat \ {0}  BY Layout DEF Pages
  <1> HIDE DEF l
  <1>2. q \in Int /\ t = l * q + (t % l)  BY <1>1
  <1> HIDE DEF q
  <1>3. q * l = l * q  BY <1>1, <1>2
  <1> QED  BY <1>2, <1>3 DEF q, l

LEMMA MapWriteHigh == MapInv /\ WriteHigh => MapInv' /\ failed' = FALSE
  <1> SUFFICES ASSUME MapInv, WriteHigh PROVE MapInv' /\ failed' = FALSE
    OBVIOUS
  <1> DEFINE d == Last(devices)
             t == target
  <1>1. /\ devices # <<>> /\ t # -1
        /\ devices' = Front(devices) /\ configured' = Append(configured, d)
        /\ mode' = [mode EXCEPT ![d] = "active"]
        /\ base' = [base EXCEPT ![d] = PageWritten(t \div LoPages)]
        /\ areas' = Append(areas, BoardArea(d, PageWritten(t \div LoPages)))
        /\ failed' = ~ (mode[d] = "autoconf" /\ CanRegister(areas, PageWritten(t \div LoPages)))
        /\ meant' = [meant EXCEPT ![d] = t]
        /\ target' = -1 /\ UNCHANGED <<ovl, file>>
    BY DEF WriteHigh, activate, device_configured, Dev
  <1>2. t \in Pages /\ Free(d, t) /\ PageWritten(t \div LoPages) = t
    <2>1. /\ target \in Pages /\ Free(Dev, target)
          /\ low_addr_hold = target % LoPages
      BY <1>1 DEF MapInv, TargetInv
    <2>2. (target \div LoPages) * LoPages + (target % LoPages) = target
      BY <2>1, Digits
    <2> QED  BY <2>1, <2>2 DEF PageWritten, Dev
  <1>3. /\ Placed(mode, base, meant) /\ Listed(mode, devices, configured)
        /\ ovl \in BOOLEAN /\ Mapped(areas, mode, base, ovl)
    BY DEF MapInv, MachineInv, Sound
  <1>4. mode \in [Devs -> {"autoconf", "shutup", "active"}]  BY <1>3 DEF Placed
  <1>5. /\ d \in Devs /\ mode[d] = "autoconf"
        /\ Listed([mode EXCEPT ![d] = "active"], Front(devices), Append(configured, d))
    BY <1>1, <1>3, <1>4, ListedMoves
  <1>6. Fits(meant, d, t)
    BY <1>2 DEF Free, Fits
  <1> HIDE DEF d, t
  <1>7. Placed([mode EXCEPT ![d] = "active"], [base EXCEPT ![d] = t], [meant EXCEPT ![d] = t])
    BY <1>2, <1>3, <1>5, <1>6, PlacedActivates
  <1>8. /\ CanRegister(areas, t)
        /\ Mapped(Append(areas, BoardArea(d, t)),
                  [mode EXCEPT ![d] = "active"], [base EXCEPT ![d] = t], ovl)
    BY <1>2, <1>3, <1>5, <1>6, MappedActivates
  <1>9. MachineInv'
    BY <1>1, <1>2, <1>3, <1>5, <1>7, <1>8 DEF MachineInv, Sound
  <1>10. TargetInv' /\ FileInv'
    BY <1>1 DEF MapInv, TargetInv, FileInv
  <1> QED  BY <1>1, <1>2, <1>5, <1>8, <1>9, <1>10 DEF MapInv

LEMMA MapShutup == MapInv /\ Shutup => MapInv' /\ failed' = FALSE
  <1> SUFFICES ASSUME MapInv, Shutup PROVE MapInv' /\ failed' = FALSE
    OBVIOUS
  <1> DEFINE d == Last(devices)
             mm == [mode EXCEPT ![d] = "shutup"]
  <1>1. /\ devices # <<>> /\ target = -1
        /\ devices' = Front(devices) /\ configured' = Append(configured, d)
        /\ mode' = mm /\ failed' = (mode[d] # "autoconf")
        /\ UNCHANGED <<areas, ovl, base, target, meant, file>>
    BY DEF Shutup, device_configured, Dev, guestVars
  <1>2. /\ Placed(mode, base, meant) /\ Listed(mode, devices, configured)
        /\ ovl \in BOOLEAN /\ Mapped(areas, mode, base, ovl)
    BY DEF MapInv, MachineInv, Sound
  <1>3. mode \in [Devs -> {"autoconf", "shutup", "active"}]  BY <1>2 DEF Placed
  <1>4. /\ d \in Devs /\ mode[d] = "autoconf"
        /\ Listed(mm, Front(devices), Append(configured, d))
    BY <1>1, <1>2, <1>3, ListedMoves
  <1> HIDE DEF d
  <1>5. /\ mm \in [Devs -> {"autoconf", "shutup", "active"}]
        /\ \A e \in Devs : mm[e] = "active" <=> mode[e] = "active"
    BY <1>3, <1>4
  <1> HIDE DEF mm
  <1>6. Active(mm) = Active(mode)  BY <1>5 DEF Active
  <1>7. Placed(mm, base, meant)  BY <1>2, <1>5, <1>6 DEF Placed
  <1>8. Mapped(areas, mm, base, ovl)
    BY <1>2, <1>6 DEF Mapped, Registered, ActiveAreas
  <1>9. MachineInv'
    BY <1>1, <1>2, <1>4, <1>7, <1>8 DEF MachineInv, Sound
  <1>10. TargetInv' /\ FileInv'
    BY <1>1 DEF MapInv, TargetInv, FileInv
  <1> QED  BY <1>1, <1>4, <1>9, <1>10 DEF MapInv

LEMMA MapOverlay == MapInv /\ set_overlay => MapInv' /\ failed' = FALSE
  <1> SUFFICES ASSUME MapInv, set_overlay PROVE MapInv' /\ failed' = FALSE
    OBVIOUS
  <1>1. /\ ovl' = ~ovl /\ areas' = Overlaid(areas, ~ovl)
        /\ failed' = (ovl /\ ~CanUnregister(areas, rom_overlay))
        /\ UNCHANGED <<devices, configured, mode, base, target, meant, file, low_addr_hold>>
    BY DEF set_overlay, boardVars, guestVars, latchVars
  <1>2. /\ Placed(mode, base, meant) /\ Listed(mode, devices, configured)
        /\ ovl \in BOOLEAN /\ Mapped(areas, mode, base, ovl)
    BY DEF MapInv, MachineInv, Sound
  <1>3. TargetInv' /\ FileInv'
    BY <1>1 DEF MapInv, TargetInv, FileInv, Free, Dev
  <1>4. CASE ovl
    <2>1. ovl = TRUE  BY <1>2, <1>4
    <2>2. areas' = unregister_handler(areas, rom_overlay)  BY <1>1, <2>1 DEF Overlaid
    <2>3. CanUnregister(areas, rom_overlay) /\ Mapped(areas', mode, base, FALSE)
      BY <1>2, <2>1, <2>2, OverlayOff
    <2> QED
      BY <1>1, <1>2, <1>3, <2>1, <2>3 DEF MapInv, MachineInv, Sound
  <1>5. CASE ~ovl
    <2>1. ovl = FALSE  BY <1>2, <1>5
    <2>2. areas' = Append(areas, rom_overlay)  BY <1>1, <2>1 DEF Overlaid
    <2>3. Mapped(areas', mode, base, TRUE)
      BY <1>2, <2>1, <2>2, OverlayOn
    <2> QED
      BY <1>1, <1>2, <1>3, <2>1, <2>3 DEF MapInv, MachineInv, Sound
  <1> QED  BY <1>4, <1>5

(* reset: the boards go, what is left is the fixed areas and the overlay. *)
LEMMA Unmaps ==
  ASSUME NEW m, NEW b, NEW mt, Placed(m, b, mt), NEW as, Mapped(as, m, b, TRUE),
         NEW n, \A d \in Devs : n[d] # "active"
  PROVE  Mapped(Unmapped(as), n, b, TRUE)
  <1> DEFINE S == {a \in Range(as) : a.handler \notin Devs}
  <1>1. as \in Seq(Areas) /\ IsInjective(as) /\ Range(as) = Registered(m, b, TRUE)
    BY DEF Mapped
  <1>2. Unmapped(as) = Among(as, S)  BY DEF Unmapped
  <1>3. Registered(n, b, TRUE) = Fixed \cup Overlay(TRUE)
    BY DEF Registered, ActiveAreas, Active
  <1>4. Range(as) \cap S = Fixed \cup Overlay(TRUE)
    <2>1. \A a \in Fixed \cup Overlay(TRUE) : a.handler \notin Devs
      BY FixedTypes DEF Overlay
    <2>2. \A a \in ActiveAreas(m, b) : a.handler \in Devs
      BY ActiveTypes DEF ActiveAreas, Active
    <2> QED  BY <1>1, <2>1, <2>2 DEF Registered
  <1> HIDE DEF S
  <1>5. /\ Among(as, S) \in Seq(Areas)
        /\ Range(Among(as, S)) = Range(as) \cap S
        /\ IsInjective(Among(as, S))
    BY <1>1, AmongProperties
  <1> QED  BY <1>2, <1>3, <1>4, <1>5 DEF Mapped

LEMMA MapReset ==
  MapInv /\ reset => MapInv' /\ (failed' => \E d \in Devs : mode[d] = "shutup")
  <1> SUFFICES ASSUME MapInv, reset
               PROVE  MapInv' /\ (failed' => \E d \in Devs : mode[d] = "shutup")
    OBVIOUS
  <1> DEFINE n == [d \in Devs |-> "autoconf"]
  <1>1. /\ ovl' = TRUE /\ areas' = Unmapped(Overlaid(areas, TRUE))
        /\ failed' = ~ (/\ ovl \/ CanRegister(areas, 0)
                        /\ \A d \in Range(configured) : CanConfigMode(d))
        /\ devices' = devices \o Reverse(configured) /\ configured' = <<>>
        /\ mode' = n /\ target' = -1 /\ meant' = [d \in Devs |-> -1]
        /\ UNCHANGED <<base, file>>
    BY DEF reset, TakenBack
  <1>2. /\ Placed(mode, base, meant) /\ Listed(mode, devices, configured)
        /\ ovl \in BOOLEAN /\ Mapped(areas, mode, base, ovl)
    BY DEF MapInv, MachineInv, Sound
  <1>3. Mapped(Overlaid(areas, TRUE), mode, base, TRUE) /\ (ovl \/ CanRegister(areas, 0))
    <2>1. CASE ovl
      <3>1. ovl = TRUE  BY <1>2, <2>1
      <3> QED  BY <1>2, <2>1, <3>1 DEF Overlaid
    <2>2. CASE ~ovl
      <3>1. ovl = FALSE  BY <1>2, <2>2
      <3>2. Overlaid(areas, TRUE) = Append(areas, rom_overlay)
        BY <3>1 DEF Overlaid
      <3>3. Mapped(areas, mode, base, FALSE)  BY <1>2, <3>1
      <3> QED  BY <1>2, <3>2, <3>3, OverlayOn
    <2> QED  BY <2>1, <2>2
  <1>4. \A d \in Devs : n[d] = "autoconf"  OBVIOUS
  <1> HIDE DEF n
  <1>5. Mapped(areas', n, base, TRUE)
    BY <1>1, <1>2, <1>3, <1>4, Unmaps
  <1>6. Placed(n, base, meant')
    <2>1. n \in [Devs -> {"autoconf", "shutup", "active"}]  BY DEF n
    <2>2. Active(n) = {} /\ base \in [Devs -> Pages]
      BY <1>2, <1>4 DEF Active, Placed
    <2>3. meant' \in [Devs -> Pages \cup {-1}] /\ \A d \in Devs : meant'[d] = -1
      BY <1>1
    <2> QED  BY <1>4, <2>1, <2>2, <2>3 DEF Placed
  <1>7. Listed(n, devices', configured')
    <2>1. devices' = Boards  BY <1>1, <1>2 DEF Listed
    <2>2. Boards \in Seq(Devs) /\ <<>> \in Seq(Devs) /\ Len(<<>>) = 0
      BY Layout, EmptySeq
    <2>3. \A i \in 1 .. Len(Boards) : Boards[i] \in Devs  BY <2>2, ElementOfSeq
    <2>4. Boards \o Reverse(<<>>) = Boards  BY <2>2, ReverseEmpty, ConcatEmptySeq
    <2> QED  BY <1>1, <1>4, <2>1, <2>2, <2>3, <2>4 DEF Listed
  <1>8. MachineInv'
    BY <1>1, <1>5, <1>6, <1>7 DEF MachineInv, Sound
  <1>9. TargetInv' /\ FileInv'
    BY <1>1 DEF MapInv, TargetInv, FileInv
  <1>10. ASSUME failed' PROVE \E d \in Devs : mode[d] = "shutup"
    <2>1. PICK d \in Range(configured) : ~ CanConfigMode(d)
      BY <1>1, <1>3, <1>10
    <2>2. d \in Devs /\ mode[d] # "autoconf" 
          /\ mode \in [Devs -> {"autoconf", "shutup", "active"}]
      <3>1. configured \in Seq(Devs) /\ \A i \in 1 .. Len(configured) : mode[configured[i]] # "autoconf"
        BY <1>2 DEF Listed
      <3>2. PICK i \in 1 .. Len(configured) : d = configured[i]
        <4>1. DOMAIN configured = 1 .. Len(configured)  BY <3>1, LenProperties
        <4> QED  BY <2>1, <4>1 DEF Range
      <3>3. d \in Devs  BY <3>1, <3>2, ElementOfSeq
      <3> QED  BY <1>2, <3>1, <3>2, <3>3 DEF Placed
    <2>3. mode[d] # "active"
      <3> SUFFICES ASSUME mode[d] = "active" PROVE CanConfigMode(d)
        BY <2>1
      <3>1. d \in Active(mode)  BY <2>2 DEF Active
      <3>2. /\ areas \in Seq(Areas) /\ IsInjective(areas)
            /\ Range(areas) = Registered(mode, base, ovl) /\ Apart(Range(areas))
        BY <1>2, LiesApart DEF Mapped
      <3>3. BoardArea(d, base[d]) \in Range(areas) /\ BoardArea(d, base[d]).len # 0
        BY <1>2, <3>1, <3>2, ActiveTypes DEF Registered, ActiveAreas
      <3>4. CanUnregister(areas, BoardArea(d, base[d]))
        BY <3>2, <3>3, Unregisters
      <3> QED  BY <3>4 DEF CanConfigMode
    <2> QED  BY <2>2, <2>3
  <1> QED  BY <1>8, <1>9, <1>10 DEF MapInv

LEMMA MapSave ==
  ASSUME ~SaveMidWrite
  PROVE  MapInv /\ Save => MapInv' /\ failed' = failed
  <1> SUFFICES ASSUME MapInv, Save PROVE MapInv' /\ failed' = failed
    OBVIOUS
  <1>1. /\ target = -1 /\ file' = View
        /\ UNCHANGED <<areas, ovl, devices, configured, mode, base, target, meant,
                       low_addr_hold, failed>>
    BY DEF Save, boardVars, guestVars, latchVars
  <1>2. Sound(mode, base, meant, ovl, devices, configured) /\ Mapped(areas, mode, base, ovl)
    BY DEF MapInv, MachineInv
  <1>3. [p \in Pages |-> HandlerAt(areas, p)] = [p \in Pages |-> OwnerOf(mode, base, ovl, p)]
    <2>1. \A p \in Pages : HandlerAt(areas, p) = OwnerOf(mode, base, ovl, p)
      BY <1>2, Answers DEF Sound
    <2> QED  BY <2>1
  <1>4. /\ file'.mode = mode /\ file'.base = base /\ file'.ovl = ovl
        /\ file'.devices = devices /\ file'.configured = configured
        /\ file'.meant = meant
        /\ file' = [map |-> [p \in Pages |-> OwnerOf(mode, base, ovl, p)], mode |-> mode,
                    devices |-> devices, configured |-> configured, ovl |-> ovl,
                    base |-> base, target |-> -1, meant |-> meant]
    BY <1>1, <1>3 DEF View
  <1>5. FileInv'
    BY <1>2, <1>4 DEF FileInv, SavedMap
  <1>6. MachineInv' /\ TargetInv'
    BY <1>1 DEF MapInv, MachineInv, TargetInv
  <1> QED  BY <1>1, <1>5, <1>6 DEF MapInv

(* The areas of a new emulator and those of the restored boards *)
LEMMA Restores ==
  ASSUME NEW f, NEW mt, Placed(f.mode, f.base, mt), NEW o \in BOOLEAN,
         NEW as, NEW n, \A d \in Devs : n[d] # "active", Mapped(as, n, f.base, o)
  PROVE  Mapped(Restored(as, f), f.mode, f.base, o)
  <1> DEFINE S == {d \in Devs : f.mode[d] = "active"}
             active == Among(Boards, S)
             t == [i \in DOMAIN active |-> BoardArea(active[i], f.base[active[i]])]
  <1>1. Restored(as, f) = as \o t  BY DEF Restored
  <1>2. S = Active(f.mode)  BY DEF Active
  <1> HIDE DEF S
  <1>3. active \in Seq(Devs) /\ Range(active) = Active(f.mode) /\ IsInjective(active)
    <2>1. /\ active \in Seq(Devs) /\ Range(active) = Range(Boards) \cap S
          /\ IsInjective(active)
      BY Layout, AmongProperties
    <2>2. Range(Boards) = Devs  BY DEF Range, Devs
    <2> QED  BY <1>2, <2>1, <2>2 DEF Active
  <1> HIDE DEF active
  <1>4. Len(active) \in Nat /\ DOMAIN active = 1 .. Len(active)
    BY <1>3, LenProperties
  <1>5. \A i \in DOMAIN active : active[i] \in Active(f.mode)
    BY <1>3 DEF Range
  <1>6. \A d \in Active(f.mode) : BoardArea(d, f.base[d]) \in Areas
                                  /\ BoardArea(d, f.base[d]).handler = d
    BY ActiveTypes
  <1>7. t \in Seq(Areas)
    <2>1. t \in [1 .. Len(active) -> Areas]  BY <1>4, <1>5, <1>6
    <2> HIDE DEF t
    <2> QED  BY <1>4, <2>1, SeqDef
  <1>8. /\ DOMAIN t = DOMAIN active
        /\ \A i \in DOMAIN active : t[i] = BoardArea(active[i], f.base[active[i]])
    OBVIOUS
  <1> HIDE DEF t
  <1>9. Range(t) = ActiveAreas(f.mode, f.base)
    <2>1. ASSUME NEW x \in Range(t) PROVE x \in ActiveAreas(f.mode, f.base)
      <3>1. PICK i \in DOMAIN active : x = t[i]  BY <1>8 DEF Range
      <3> QED  BY <1>5, <1>8, <3>1 DEF ActiveAreas
    <2>2. ASSUME NEW x \in ActiveAreas(f.mode, f.base) PROVE x \in Range(t)
      <3>1. PICK d \in Active(f.mode) : x = BoardArea(d, f.base[d])
        BY DEF ActiveAreas
      <3>2. PICK i \in DOMAIN active : active[i] = d  BY <1>3, <3>1 DEF Range
      <3>3. x = t[i]  BY <1>8, <3>1, <3>2
      <3> QED  BY <1>8, <3>3 DEF Range
    <2> QED  BY <2>1, <2>2
  <1>10. IsInjective(t)
    <2> SUFFICES ASSUME NEW i \in DOMAIN active, NEW k \in DOMAIN active, t[i] = t[k]
                 PROVE  i = k
      BY <1>8 DEF IsInjective
    <2>1. t[i].handler = active[i] /\ t[k].handler = active[k]
      BY <1>5, <1>6, <1>8
    <2> QED  BY <1>3, <2>1 DEF IsInjective
  <1>11. /\ as \in Seq(Areas) /\ IsInjective(as)
         /\ Range(as) = Fixed \cup Overlay(o)
    BY DEF Mapped, Registered, ActiveAreas, Active
  <1>12. Range(as) \cap Range(t) = {}
    <2>1. \A x \in Fixed \cup Overlay(o) : x.handler \notin Devs
      BY FixedTypes DEF Overlay
    <2>2. \A x \in ActiveAreas(f.mode, f.base) : x.handler \in Devs
      BY <1>6 DEF ActiveAreas, Active
    <2> QED  BY <1>9, <1>11, <2>1, <2>2
  <1>13. as \o t \in Seq(Areas)  BY <1>7, <1>11, ConcatProperties
  <1>14. Range(as \o t) = Range(as) \cup Range(t)
    BY <1>7, <1>11, RangeConcatenation
  <1>15. IsInjective(as \o t)
    BY <1>7, <1>10, <1>11, <1>12, ConcatInjective
  <1> QED
    BY <1>1, <1>9, <1>11, <1>13, <1>14, <1>15 DEF Mapped, Registered

(* What a restore makes is what was saved. *)
LEMMA MapLoad ==
  MapInv /\ Load => MapInv' /\ View' = file /\ failed' = failed
  <1> SUFFICES ASSUME MapInv, Load
               PROVE  MapInv' /\ View' = file /\ failed' = failed
    OBVIOUS
  <1> DEFINE fresh == IF file.ovl THEN boot_areas
                      ELSE unregister_handler(boot_areas, rom_overlay)
             k == LeftToDo(file)
  <1>1. /\ file # <<>> /\ ovl' = file.ovl /\ areas' = Restored(fresh, file)
        /\ mode' = file.mode /\ base' = file.base
        /\ devices' = SubSeq(Boards, 1, k)
        /\ configured' = Reverse(SubSeq(Boards, k + 1, Len(Boards)))
        /\ target' = file.target /\ meant' = file.meant
        /\ file' = file /\ failed' = failed
    BY DEF Load
  <1>2. /\ Placed(file.mode, file.base, file.meant)
        /\ Listed(file.mode, file.devices, file.configured) /\ file.ovl \in BOOLEAN
        /\ file = [map |-> SavedMap(file), mode |-> file.mode,
                   devices |-> file.devices, configured |-> file.configured,
                   ovl |-> file.ovl, base |-> file.base, target |-> -1,
                   meant |-> file.meant]
    BY <1>1 DEF MapInv, FileInv, Sound
  <1>3. target' = -1
    BY <1>1, <1>2
  <1>4. devices' = file.devices /\ configured' = file.configured
    <2>1. k = Len(file.devices)  BY <1>2, LeftToDoIs
    <2>2. /\ file.devices \in Seq(Devs) /\ file.configured \in Seq(Devs)
          /\ file.devices \o Reverse(file.configured) = Boards
      BY <1>2 DEF Listed
    <2> HIDE DEF k
    <2>3. /\ SubSeq(Boards, 1, Len(file.devices)) = file.devices
          /\ Reverse(SubSeq(Boards, Len(file.devices) + 1, Len(Boards))) = file.configured
      BY <2>2, CutIs
    <2> QED  BY <1>1, <2>1, <2>3
  <1> HIDE DEF k
  <1> DEFINE n == [d \in Devs |-> "autoconf"]
             none == [d \in Devs |-> -1]
  <1>5. Placed(n, file.base, none) /\ \A d \in Devs : n[d] # "active"
    <2>1. Active(n) = {} /\ file.base \in [Devs -> Pages]  BY <1>2 DEF Active, Placed
    <2> QED  BY <2>1 DEF Placed
  <1> HIDE DEF n, none
  <1>6. Mapped(boot_areas, n, file.base, TRUE)
    BY <1>5, BootAreas
  <1>7. Mapped(fresh, n, file.base, file.ovl)
    <2>1. CASE file.ovl
      <3>1. file.ovl = TRUE  BY <1>2, <2>1
      <3> QED  BY <1>6, <2>1, <3>1
    <2>2. CASE ~file.ovl
      <3>1. file.ovl = FALSE  BY <1>2, <2>2
      <3>2. Mapped(unregister_handler(boot_areas, rom_overlay), n, file.base, FALSE)
        BY <1>5, <1>6, OverlayOff
      <3> QED  BY <3>1, <3>2
    <2> QED  BY <2>1, <2>2
  <1> HIDE DEF fresh
  <1>8. Mapped(areas', file.mode, file.base, file.ovl)
    BY <1>1, <1>2, <1>5, <1>7, Restores
  <1>9. MapInv'
    <2>1. MachineInv'  BY <1>1, <1>2, <1>4, <1>8 DEF MachineInv, Sound
    <2>2. TargetInv'  BY <1>3 DEF TargetInv
    <2>3. FileInv'  BY <1>1 DEF MapInv, FileInv
    <2> QED  BY <2>1, <2>2, <2>3 DEF MapInv
  <1>10. View' = file
    <2>1. \A p \in Pages : HandlerAt(areas', p) = OwnerOf(file.mode, file.base, file.ovl, p)
      BY <1>2, <1>8, Answers
    <2>2. [p \in Pages |-> HandlerAt(areas', p)] = SavedMap(file)
      BY <2>1 DEF SavedMap
    <2>3. View' = [map |-> SavedMap(file), mode |-> file.mode,
                   devices |-> file.devices, configured |-> file.configured,
                   ovl |-> file.ovl, base |-> file.base, target |-> -1,
                   meant |-> file.meant]
      BY <1>1, <1>3, <1>4, <2>2 DEF View
    <2> QED  BY <1>2, <2>3
  <1> QED  BY <1>1, <1>9, <1>10

LEMMA MapStep ==
  ASSUME ~SaveMidWrite
  PROVE  MapInv /\ [Next]_vars
           => MapInv' /\ [failed' => \E d \in Devs : mode[d] = "shutup"]_vars
                      /\ [Load => View' = file]_vars
  <1> SUFFICES ASSUME MapInv, [Next]_vars
               PROVE  MapInv' /\ [failed' => \E d \in Devs : mode[d] = "shutup"]_vars
                              /\ [Load => View' = file]_vars
    OBVIOUS
  <1>1. CASE UNCHANGED vars
    <2>1. MapInv'
      BY <1>1 DEF MapInv, MachineInv, TargetInv, FileInv, Free, Dev, vars, boardVars,
                  guestVars, latchVars
    <2> QED  BY <1>1, <2>1
  <1>2. CASE Next
    <2>1. ~failed /\ Step  BY <1>2 DEF Next
    <2>2. MapInv' /\ (failed' => \E d \in Devs : mode[d] = "shutup")
      <3>1. CASE WriteLow  BY <2>1, <3>1, MapWriteLow
      <3>2. CASE WriteHigh  BY <3>2, MapWriteHigh
      <3>3. CASE Shutup  BY <3>3, MapShutup
      <3>4. CASE set_overlay  BY <3>4, MapOverlay
      <3>5. CASE reset  BY <3>5, MapReset
      <3>6. CASE Save  BY <2>1, <3>6, MapSave
      <3>7. CASE Load  BY <2>1, <3>7, MapLoad
      <3> QED  BY <2>1, <3>1, <3>2, <3>3, <3>4, <3>5, <3>6, <3>7 DEF Step
    <2>3. Load => View' = file  BY MapLoad
    <2> QED  BY <2>2, <2>3
  <1> QED  BY <1>1, <1>2 DEF Next

LEMMA MapHolds ==
  ASSUME ~SaveMidWrite
  PROVE  Spec => []MapInv
  <1>1. MapInv /\ [Next]_vars => MapInv'  BY MapStep
  <1> QED  BY <1>1, MapInit, PTL DEF Spec

(***************************************************************************)
(* For any boards and layout, and states that are saved between two        *)
(* configurations: each page is answered by the board the guest put there, *)
(* by the overlay while it is on, or by what is fixed there, and nothing   *)
(* is registered twice, after any configuration, shutting up, reset, save  *)
(* and restore (memory_handler, autoconf_handler).                         *)
(***************************************************************************)
THEOREM MapFollowsBoardsCorrect ==
  ASSUME ~SaveMidWrite
  PROVE  Spec => []MapFollowsBoards
  <1>1. MapInv => MapFollowsBoards
    <2> SUFFICES ASSUME MapInv PROVE MapFollowsBoards
      OBVIOUS
    <2>1. /\ Placed(mode, base, meant) /\ ovl \in BOOLEAN
          /\ Mapped(areas, mode, base, ovl)
      BY DEF MapInv, MachineInv, Sound
    <2>2. \A p \in Pages : HandlerAt(areas, p) = OwnerOf(mode, base, ovl, p)
      BY <2>1, Answers
    <2>3. \A p \in Pages : Owner(p) = OwnerOf(mode, base, ovl, p)
      BY DEF Owner, OwnerOf
    <2> QED  BY <2>1, <2>2, <2>3 DEF MapFollowsBoards, Placed, Mapped
  <1> QED  BY <1>1, MapHolds, PTL

(***************************************************************************)
(* For any boards and layout: the assertions of register_handler,          *)
(* unregister_handler and config_mode fail only in a reset after a board   *)
(* was shut up.                                                            *)
(***************************************************************************)
THEOREM OnlyShutupFailsCorrect ==
  ASSUME ~SaveMidWrite
  PROVE  Spec => OnlyShutupFails
  <1>1. MapInv /\ [Next]_vars => [failed' => \E d \in Devs : mode[d] = "shutup"]_vars
    BY MapStep
  <1> QED  BY <1>1, MapHolds, PTL DEF Spec, OnlyShutupFails

(***************************************************************************)
(* For any boards and layout: a machine restored from a state has the map  *)
(* and the boards of the one that was saved, in the lists they were in     *)
(* (handle_state of memory_handler, autoconf_handler and the boards).      *)
(***************************************************************************)
THEOREM LoadRestoresCorrect ==
  ASSUME ~SaveMidWrite
  PROVE  Spec => LoadRestores
  <1>1. MapInv /\ [Next]_vars => [Load => View' = file]_vars
    BY MapStep
  <1> QED  BY <1>1, MapHolds, PTL DEF Spec, LoadRestores
=============================================================================
