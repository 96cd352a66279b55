--------------------------- MODULE VolumesProofs ---------------------------
(***************************************************************************)
(* Proofs about Volumes, for any host, names, and number of locks and      *)
(* handles.  An operation of filesystem_handler works on a record fs of    *)
(* the host, the nodes and the next id, so most lemmas are about such      *)
(* records and only the last sections about the state.  In order:          *)
(* sequences and paths; the tree (Good) and what the operations on it do;  *)
(* what a step leaves for those that held a node (Matches) or stood at one *)
(* (Kept); node_operation; delete and rename; the scan; the inductive      *)
(* invariant IInv, one lemma for each packet, and the theorems.            *)
(***************************************************************************)
EXTENDS Volumes, FiniteSetTheorems, SequenceTheorems, TLAPS

-----------------------------------------------------------------------------
(* The least element of a set of naturals. *)
LEMMA MinExists ==
  ASSUME NEW S, S \subseteq Nat, S # {}
  PROVE  \E i \in S : \A j \in S : i <= j
  <1> DEFINE less == OpToRel(<, Nat)
  <1>1. IsWellFoundedOn(less, Nat)  BY NatLessThanWellFounded
  <1>2. \A x, y \in Nat : x < y => <<x, y>> \in less  BY DEF OpToRel
  <1> HIDE DEF less
  <1>3. PICK x \in S : \A y \in S : ~ (<<y, x>> \in less)
    BY <1>1, WFMin
  <1>4. ASSUME NEW j \in S PROVE x <= j
    <2>1. ~ (<<j, x>> \in less) /\ j \in Nat /\ x \in Nat  BY <1>3
    <2>2. ~ (j < x)  BY <1>2, <2>1
    <2> QED  BY <2>1, <2>2
  <1> QED  BY <1>3, <1>4

(* Induction, over a set of naturals. *)
LEMMA SetInduction ==
  ASSUME NEW T, 0 \in T, \A n \in Nat : n \in T => n + 1 \in T
  PROVE  \A n \in Nat : n \in T
  <1> SUFFICES ASSUME NEW m \in Nat, m \notin T PROVE FALSE
    OBVIOUS
  <1> DEFINE S == {n \in Nat : n \notin T}
  <1>1. S \subseteq Nat /\ S # {}  OBVIOUS
  <1>2. PICK i \in S : \A j \in S : i <= j
    <2> HIDE DEF S
    <2> QED  BY <1>1, MinExists
  <1>3. i # 0 /\ i - 1 \in Nat  BY <1>2
  <1>4. i - 1 \in T  BY <1>2, <1>3
  <1>5. i - 1 + 1 = i  BY <1>3
  <1> QED  BY <1>2, <1>3, <1>4, <1>5

-----------------------------------------------------------------------------
(* Sequences of naturals: the children of a node.                           *)

LEMMA SeqNat ==
  ASSUME NEW s \in Seq(Nat)
  PROVE  /\ Len(s) \in Nat /\ DOMAIN s = 1 .. Len(s)
         /\ \A i \in 1 .. Len(s) : s[i] \in Nat
         /\ ToSet(s) = {s[i] : i \in 1 .. Len(s)}
         /\ s # <<>> <=> Len(s) > 0
  <1>1. Len(s) \in Nat /\ DOMAIN s = 1 .. Len(s)  BY LenProperties
  <1>2. \A i \in 1 .. Len(s) : s[i] \in Nat  BY ElementOfSeq
  <1>3. s # <<>> <=> Len(s) > 0  BY <1>1, EmptySeq
  <1> QED  BY <1>1, <1>2, <1>3 DEF ToSet

LEMMA AppendNat ==
  ASSUME NEW s \in Seq(Nat), NEW e \in Nat
  PROVE  /\ Append(s, e) \in Seq(Nat) /\ Len(Append(s, e)) = Len(s) + 1
         /\ DOMAIN Append(s, e) = 1 .. Len(s) + 1
         /\ \A i \in 1 .. Len(s) : Append(s, e)[i] = s[i]
         /\ Append(s, e)[Len(s) + 1] = e
         /\ ToSet(Append(s, e)) = ToSet(s) \cup {e}
         /\ IsInjective(s) /\ e \notin ToSet(s) => IsInjective(Append(s, e))
  <1> DEFINE n == Len(s)
             a == Append(s, e)
  <1>1. n \in Nat /\ DOMAIN s = 1 .. n  BY LenProperties
  <1>2. /\ a \in Seq(Nat) /\ Len(a) = n + 1 /\ a[n + 1] = e
        /\ \A i \in 1 .. n : a[i] = s[i]
    BY AppendProperties
  <1> HIDE DEF a
  <1>3. DOMAIN a = 1 .. n + 1  BY <1>2, LenProperties
  <1> HIDE DEF n
  <1>4. \A i \in 1 .. n + 1 : i = n + 1 \/ i \in 1 .. n  BY <1>1
  <1>5. \A i \in 1 .. n : i \in 1 .. n + 1  BY <1>1
  <1>6. n + 1 \in 1 .. n + 1 /\ n + 1 \notin 1 .. n  BY <1>1
  <1>7. ToSet(a) = ToSet(s) \cup {e}
    BY ONLY <1>1, <1>2, <1>3, <1>4, <1>5, <1>6 DEF ToSet
  <1>8. ASSUME IsInjective(s), e \notin ToSet(s) PROVE IsInjective(a)
    <2>1. \A i \in 1 .. n : s[i] # e  BY <1>1, <1>8 DEF ToSet
    <2> QED  BY ONLY <1>1, <1>2, <1>3, <1>4, <1>6, <1>8, <2>1 DEF IsInjective
  <1> QED  BY <1>2, <1>3, <1>7, <1>8 DEF a, n

(* Taking one element out leaves the others, in their order. *)
LEMMA RemoveAtNat ==
  ASSUME NEW s \in Seq(Nat), NEW i \in 1 .. Len(s), IsInjective(s)
  PROVE  /\ RemoveAt(s, i) \in Seq(Nat)
         /\ DOMAIN RemoveAt(s, i) = 1 .. Len(s) - 1
         /\ \A j \in 1 .. Len(s) - 1 : RemoveAt(s, i)[j] = IF j < i THEN s[j] ELSE s[j + 1]
         /\ ToSet(RemoveAt(s, i)) = ToSet(s) \ {s[i]}
         /\ IsInjective(RemoveAt(s, i))
  <1> DEFINE n == Len(s)
             t == RemoveAt(s, i)
             front == SubSeq(s, 1, i - 1)
             back == SubSeq(s, i + 1, n)
  <1>1. n \in Nat /\ i \in 1 .. n /\ i \in Int /\ DOMAIN s = 1 .. n
        /\ \A j \in 1 .. n : s[j] \in Nat
    BY LenProperties, ElementOfSeq
  <1>2. /\ front \in Seq(Nat) /\ Len(front) = i - 1
        /\ \A j \in 1 .. i - 1 : front[j] = s[j]
    <2>1. \A j \in 1 .. i - 1 : s[j] \in Nat  BY <1>1
    <2>2. /\ front \in Seq(Nat)
          /\ Len(front) = IF 1 <= i - 1 THEN i - 1 - 1 + 1 ELSE 0
          /\ \A j \in 1 .. i - 1 - 1 + 1 : front[j] = s[1 + j - 1]
      BY <1>1, <2>1, SubSeqProperties
    <2> HIDE DEF front
    <2> QED  BY <1>1, <2>2
  <1>3. /\ back \in Seq(Nat) /\ Len(back) = n - i
        /\ \A j \in 1 .. n - i : back[j] = s[i + j]
    <2>1. \A j \in i + 1 .. n : s[j] \in Nat  BY <1>1
    <2>2. /\ back \in Seq(Nat)
          /\ Len(back) = IF i + 1 <= n THEN n - (i + 1) + 1 ELSE 0
          /\ \A j \in 1 .. n - (i + 1) + 1 : back[j] = s[i + 1 + j - 1]
      BY <1>1, <2>1, SubSeqProperties
    <2> HIDE DEF back, n
    <2>3. n - (i + 1) + 1 = n - i /\ (~ (i + 1 <= n) => n - i = 0)
      BY <1>1
    <2>4. \A j \in 1 .. n - i : i + 1 + j - 1 = i + j  BY <1>1
    <2>5. Len(back) = n - i  BY <2>2, <2>3
    <2> QED  BY <2>2, <2>3, <2>4, <2>5
  <1> HIDE DEF front, back
  <1>4. t = front \o back  BY DEF RemoveAt, front, back
  <1>5. /\ t \in Seq(Nat) /\ Len(t) = i - 1 + (n - i)
        /\ \A j \in 1 .. i - 1 + (n - i) : 
             t[j] = IF j <= i - 1 THEN front[j] ELSE back[j - (i - 1)]
    <2>1. /\ front \o back \in Seq(Nat)
          /\ Len(front \o back) = Len(front) + Len(back)
          /\ \A j \in 1 .. Len(front) + Len(back) : (front \o back)[j] =
               IF j <= Len(front) THEN front[j] ELSE back[j - Len(front)]
      BY <1>2, <1>3, ConcatProperties
    <2> QED  BY <1>2, <1>3, <1>4, <2>1
  <1> HIDE DEF t, n
  <1>6. /\ DOMAIN t = 1 .. n - 1
        /\ \A j \in 1 .. n - 1 : t[j] = IF j < i THEN s[j] ELSE s[j + 1]
    <2>1. Len(t) = n - 1  BY <1>1, <1>5
    <2>2. DOMAIN t = 1 .. n - 1  BY <1>5, <2>1, LenProperties
    <2>3. ASSUME NEW j \in 1 .. n - 1, j < i PROVE t[j] = s[j]
      BY <1>1, <1>2, <1>5, <2>3
    <2>4. ASSUME NEW j \in 1 .. n - 1, ~ (j < i) PROVE t[j] = s[j + 1]
      <3>1. j - (i - 1) \in 1 .. n - i /\ i + (j - (i - 1)) = j + 1
            /\ ~ (j <= i - 1) /\ j \in 1 .. i - 1 + (n - i)
        BY <1>1, <2>4
      <3>2. t[j] = back[j - (i - 1)]  BY <1>5, <3>1
      <3>3. back[j - (i - 1)] = s[i + (j - (i - 1))]  BY <1>3, <3>1
      <3> QED  BY <3>1, <3>2, <3>3
    <2> QED  BY <2>2, <2>3, <2>4
  <1>7. \A j \in 1 .. n - 1 : /\ j \in 1 .. n /\ j + 1 \in 1 .. n
                             /\ (j < i => j # i)
                             /\ (~ (j < i) => j + 1 # i)
    BY <1>1
  <1>8. \A j \in 1 .. n : j # i => \E k \in 1 .. n - 1 : t[k] = s[j]
    <2> SUFFICES ASSUME NEW j \in 1 .. n, j # i
                 PROVE  \E k \in 1 .. n - 1 : t[k] = s[j]
      OBVIOUS
    <2>1. CASE j < i
      <3>1. j \in 1 .. n - 1  BY <1>1, <2>1
      <3> QED  BY <1>6, <2>1, <3>1
    <2>2. CASE ~ (j < i)
      <3>1. j - 1 \in 1 .. n - 1 /\ ~ (j - 1 < i) /\ j - 1 + 1 = j  BY <1>1, <2>2
      <3> QED  BY <1>6, <3>1
    <2> QED  BY <2>1, <2>2
  <1>9. \A j, k \in 1 .. n : s[j] = s[k] => j = k
    BY <1>1 DEF IsInjective
  <1>10. ToSet(t) = ToSet(s) \ {s[i]}
    <2>1. ASSUME NEW x \in ToSet(t) PROVE x \in ToSet(s) /\ x # s[i]
      <3>1. PICK j \in 1 .. n - 1 : x = t[j]  BY <1>6, <2>1 DEF ToSet
      <3>2. \E k \in 1 .. n : x = s[k] /\ k # i
        <4>1. CASE j < i
          <5>1. j \in 1 .. n /\ j # i /\ x = s[j]  BY <1>1, <1>6, <1>7, <3>1, <4>1
          <5> QED  BY <5>1
        <4>2. CASE ~ (j < i)
          <5>1. j + 1 \in 1 .. n /\ j + 1 # i /\ x = s[j + 1]
            BY <1>1, <1>6, <1>7, <3>1, <4>2
          <5> QED  BY <5>1
        <4> QED  BY <4>1, <4>2
      <3> QED  BY <1>1, <1>9, <3>2 DEF ToSet
    <2>2. ASSUME NEW x \in ToSet(s), x # s[i] PROVE x \in ToSet(t)
      <3>1. PICK j \in 1 .. n : x = s[j] /\ j # i  BY <1>1, <2>2 DEF ToSet
      <3> QED  BY <1>6, <1>8, <3>1 DEF ToSet
    <2> QED  BY <2>1, <2>2
  <1>11. IsInjective(t)
    <2> SUFFICES ASSUME NEW j \in 1 .. n - 1, NEW k \in 1 .. n - 1, t[j] = t[k], j < k
                 PROVE  FALSE
      <3>1. \A j, k \in 1 .. n - 1 : j = k \/ j < k \/ k < j  BY <1>1
      <3> QED  BY <1>6, <3>1 DEF IsInjective
    <2>1. j \in 1 .. n /\ k \in 1 .. n /\ j + 1 \in 1 .. n /\ k + 1 \in 1 .. n
          /\ j # k /\ j # k + 1 /\ j + 1 # k + 1 /\ (j + 1 = k => ~ (k < i) \/ j < i)
      BY <1>1
    <2>2. CASE j < i /\ k < i  BY <1>6, <1>9, <2>1, <2>2
    <2>3. CASE j < i /\ ~ (k < i)  BY <1>6, <1>9, <2>1, <2>3
    <2>4. CASE ~ (j < i) /\ ~ (k < i)  BY <1>6, <1>9, <2>1, <2>4
    <2>5. ~ (~ (j < i) /\ k < i)  BY <1>1
    <2> QED  BY <2>2, <2>3, <2>4, <2>5
  <1> QED  BY <1>5, <1>6, <1>10, <1>11 DEF t, n

(* Two elements that stay keep their order. *)
Before(s, x, y) == \E i, j \in DOMAIN s : i < j /\ s[i] = x /\ s[j] = y

LEMMA RemoveAtKeepsOrder ==
  ASSUME NEW s \in Seq(Nat), NEW i \in 1 .. Len(s), IsInjective(s),
         NEW x, NEW y, x # s[i], y # s[i], Before(s, x, y)
  PROVE  Before(RemoveAt(s, i), x, y)
  <1> DEFINE n == Len(s)
             t == RemoveAt(s, i)
  <1>1. n \in Nat /\ DOMAIN s = 1 .. n /\ i \in 1 .. n  BY LenProperties
  <1>2. DOMAIN t = 1 .. n - 1
        /\ \A j \in 1 .. n - 1 : t[j] = IF j < i THEN s[j] ELSE s[j + 1]
    BY RemoveAtNat
  <1>3. PICK j \in 1 .. n, k \in 1 .. n : j < k /\ s[j] = x /\ s[k] = y
    BY <1>1 DEF Before
  <1>4. j # i /\ k # i  BY <1>3
  <1> HIDE DEF t, n
  <1> DEFINE At(m) == IF m < i THEN m ELSE m - 1
  <1>5. \A m \in 1 .. n : m # i => At(m) \in 1 .. n - 1 /\ t[At(m)] = s[m]
    <2> SUFFICES ASSUME NEW m \in 1 .. n, m # i
                 PROVE  At(m) \in 1 .. n - 1 /\ t[At(m)] = s[m]
      OBVIOUS
    <2>1. CASE m < i
      <3>1. m \in 1 .. n - 1 /\ At(m) = m  BY <1>1, <2>1
      <3> QED  BY <1>2, <2>1, <3>1
    <2>2. CASE ~ (m < i)
      <3>1. m - 1 \in 1 .. n - 1 /\ ~ (m - 1 < i) /\ m - 1 + 1 = m /\ At(m) = m - 1
        BY <1>1, <2>2
      <3> HIDE DEF At
      <3> QED  BY <1>2, <3>1
    <2> QED  BY <2>1, <2>2
  <1>6. At(j) < At(k)  BY <1>1, <1>3, <1>4
  <1> HIDE DEF At
  <1>7. Before(t, x, y)  BY <1>2, <1>3, <1>4, <1>5, <1>6 DEF Before
  <1> QED  BY <1>7 DEF t

LEMMA InjectiveCardinality ==
  ASSUME NEW s \in Seq(Nat), IsInjective(s)
  PROVE  Cardinality(ToSet(s)) = Len(s)
  <1>1. Len(s) \in Nat /\ DOMAIN s = 1 .. Len(s)  BY LenProperties
  <1>2. s \in [1 .. Len(s) -> ToSet(s)]  BY <1>1, LenProperties DEF ToSet
  <1>3. s \in Bijection(1 .. Len(s), ToSet(s))
    BY <1>1, <1>2 DEF Bijection, Injection, Surjection, IsInjective, ToSet
  <1>4. IsFiniteSet(1 .. Len(s)) /\ Cardinality(1 .. Len(s)) = Len(s)
    BY <1>1, FS_Interval
  <1> QED  BY <1>3, <1>4, FS_Bijection DEF ExistsBijection

-----------------------------------------------------------------------------
(* Paths.                                                                   *)
Parts == Names \cup {Dots}

LEMMA PathsAre == \A p : p \in Paths <=> p \in Seq(Names) /\ Len(p) <= MaxDepth
  <1>1. MaxDepth \in Nat  BY VolumesAssumption
  <1>2. ASSUME NEW p, p \in Paths PROVE p \in Seq(Names) /\ Len(p) <= MaxDepth
    <2>1. PICK m \in 0 .. MaxDepth : p \in [1 .. m -> Names]
      BY <1>2 DEF Paths, SeqOf
    <2>2. m \in Nat /\ m <= MaxDepth  BY <1>1
    <2>3. p \in Seq(Names)  BY <2>1, <2>2, SeqDef
    <2>4. DOMAIN p = 1 .. m /\ DOMAIN p = 1 .. Len(p) /\ Len(p) \in Nat
      BY <2>1, <2>3, LenProperties
    <2>5. Len(p) = m  BY <2>2, <2>4
    <2> QED  BY <2>2, <2>3, <2>5
  <1>3. ASSUME NEW p, p \in Seq(Names), Len(p) <= MaxDepth PROVE p \in Paths
    <2>1. Len(p) \in Nat /\ p \in [1 .. Len(p) -> Names]  BY <1>3, LenProperties
    <2>2. Len(p) \in 0 .. MaxDepth  BY <1>1, <1>3, <2>1
    <2> QED  BY <2>1, <2>2 DEF Paths, SeqOf
  <1> QED  BY <1>2, <1>3

LEMMA PathsAreParts == \A p \in Paths : p \in Seq(Parts) /\ Len(p) \in Nat
  <1> SUFFICES ASSUME NEW p \in Paths PROVE p \in Seq(Parts) /\ Len(p) \in Nat
    OBVIOUS
  <1>1. p \in Seq(Names)  BY PathsAre
  <1>2. Names \subseteq Parts  BY DEF Parts
  <1> HIDE DEF Parts
  <1> QED  BY <1>1, <1>2, SeqMonotonic, LenProperties

LEMMA RootPath == <<>> \in Paths /\ Len(<<>>) = 0
  <1> DEFINE e == <<>>
  <1>1. e \in Seq(Names) /\ Len(e) = 0  BY EmptySeq
  <1>2. MaxDepth \in Nat  BY VolumesAssumption
  <1> HIDE DEF e
  <1>3. Len(e) <= MaxDepth  BY <1>1, <1>2
  <1>4. e \in Paths  BY <1>1, <1>3, PathsAre
  <1> QED  BY <1>1, <1>4 DEF e

LEMMA PathEqual ==
  ASSUME NEW p \in Seq(Parts), NEW q \in Seq(Parts), Len(p) = Len(q),
         \A i \in 1 .. Len(p) : p[i] = q[i]
  PROVE  p = q
  BY SeqEqual

(* An entry of a directory. *)
LEMMA AppendPath ==
  ASSUME NEW p \in Paths, NEW n \in Parts
  PROVE  /\ Append(p, n) \in Seq(Parts) /\ Append(p, n) # <<>>
         /\ Len(Append(p, n)) = Len(p) + 1
         /\ \A i \in 1 .. Len(p) : Append(p, n)[i] = p[i]
         /\ Last(Append(p, n)) = n
         /\ Front(Append(p, n)) = p
         /\ n \in Names /\ Len(p) + 1 <= MaxDepth => Append(p, n) \in Paths
         /\ Append(p, n) \in Paths => n \in Names /\ Len(p) + 1 <= MaxDepth
  <1> DEFINE a == Append(p, n)
  <1>1. p \in Seq(Parts) /\ Len(p) \in Nat /\ p \in Seq(Names)
    BY PathsAreParts, PathsAre
  <1>2. /\ a \in Seq(Parts) /\ a # <<>> /\ Len(a) = Len(p) + 1
        /\ \A i \in 1 .. Len(p) : a[i] = p[i]
        /\ a[Len(p) + 1] = n
    BY <1>1, AppendProperties
  <1>3. n \in Names => a \in Seq(Names)  BY <1>1, AppendProperties
  <1> HIDE DEF a
  <1>4. Last(a) = n  BY <1>2 DEF Last
  <1>5. Front(a) = p
    <2>1. Len(p) + 1 - 1 = Len(p) /\ 1 \in Int /\ Len(p) \in Int
          /\ \A i \in 1 .. Len(p) : i \in 1 .. Len(p) + 1
      BY <1>1
    <2>2. Front(a) = SubSeq(a, 1, Len(p))  BY <1>2, <2>1 DEF Front
    <2>3. \A i \in 1 .. Len(p) : a[i] \in Parts  BY <1>1, <1>2, ElementOfSeq
    <2>4. /\ SubSeq(a, 1, Len(p)) \in Seq(Parts)
          /\ Len(SubSeq(a, 1, Len(p))) = IF 1 <= Len(p) THEN Len(p) - 1 + 1 ELSE 0
          /\ \A i \in 1 .. Len(p) - 1 + 1 : SubSeq(a, 1, Len(p))[i] = a[1 + i - 1]
      BY <2>1, <2>3, SubSeqProperties
    <2> DEFINE f == SubSeq(a, 1, Len(p))
    <2> HIDE DEF f
    <2>5. f \in Seq(Parts) /\ Len(f) = Len(p)  BY <1>1, <2>4 DEF f
    <2>6. \A i \in 1 .. Len(p) : f[i] = a[i]  BY <1>1, <2>4 DEF f
    <2>7. f = p  BY <1>1, <1>2, <2>5, <2>6, PathEqual
    <2> QED  BY <2>2, <2>7 DEF f
  <1>6. a \in Paths => n \in Names
    <2> SUFFICES ASSUME a \in Paths PROVE n \in Names  OBVIOUS
    <2>1. a \in Seq(Names)  BY PathsAre
    <2>2. Len(a) \in 1 .. Len(a)  BY <1>1, <1>2
    <2>3. a[Len(a)] \in Names  BY <2>1, <2>2, ElementOfSeq
    <2> QED  BY <1>2, <2>3
  <1> QED  BY <1>1, <1>2, <1>3, <1>4, <1>5, <1>6, PathsAre DEF a

(* A path that is not the root's is an entry of the directory above it. *)
LEMMA PathIsEntry ==
  ASSUME NEW q \in Paths, q # <<>>
  PROVE  /\ Front(q) \in Paths /\ Last(q) \in Names
         /\ q = Append(Front(q), Last(q)) /\ Len(q) = Len(Front(q)) + 1
  <1>1. q \in Seq(Names) /\ Len(q) <= MaxDepth /\ Len(q) \in Nat
    BY PathsAre, LenProperties
  <1>2. PICK s \in Seq(Names), e \in Names : q = Append(s, e)
    BY <1>1, SequenceEmptyOrAppend
  <1>3. Len(q) = Len(s) + 1 /\ Len(s) \in Nat  BY <1>2, AppendProperties, LenProperties
  <1>4. MaxDepth \in Nat  BY VolumesAssumption
  <1>5. s \in Paths  BY <1>1, <1>3, <1>4, PathsAre
  <1>6. e \in Parts  BY DEF Parts
  <1>7. Front(q) = s /\ Last(q) = e  BY <1>2, <1>5, <1>6, AppendPath
  <1> QED  BY <1>2, <1>3, <1>5, <1>7

LEMMA PrefixIs ==
  ASSUME NEW p \in Seq(Parts), NEW q \in Seq(Parts)
  PROVE  IsPrefix(p, q) <=> Len(p) <= Len(q) /\ \A i \in 1 .. Len(p) : p[i] = q[i]
  <1>1. Len(p) \in Nat /\ Len(q) \in Nat /\ Len(p) \in Int /\ 1 \in Int
    BY LenProperties
  <1> DEFINE n == Len(p)
             a == SubSeq(p, 1, n)
             b == SubSeq(q, 1, n)
  <1> SUFFICES ASSUME n <= Len(q) PROVE a = b <=> \A i \in 1 .. n : p[i] = q[i]
    BY DEF IsPrefix
  <1>2. \A i \in 1 .. n : p[i] \in Parts /\ q[i] \in Parts
    <2>1. \A i \in 1 .. n : i \in 1 .. Len(q)  BY <1>1
    <2> QED  BY <2>1, ElementOfSeq
  <1> HIDE DEF n
  <1>3. n \in Nat /\ n \in Int  BY <1>1 DEF n
  <1>4. a = p  BY SubSeqFull DEF n
  <1>5. /\ b \in Seq(Parts) /\ Len(b) = IF 1 <= n THEN n - 1 + 1 ELSE 0
        /\ \A i \in 1 .. n - 1 + 1 : b[i] = q[1 + i - 1]
    BY <1>1, <1>2, <1>3, SubSeqProperties
  <1> HIDE DEF b
  <1>6. Len(b) = n /\ \A i \in 1 .. n : b[i] = q[i]  BY <1>3, <1>5
  <1>7. p = b <=> \A i \in 1 .. n : p[i] = q[i]
    <2>1. ASSUME \A i \in 1 .. n : p[i] = q[i] PROVE p = b
      BY <1>5, <1>6, <2>1, PathEqual DEF n
    <2> QED  BY <1>6, <2>1
  <1> QED  BY <1>4, <1>7

LEMMA PrefixOrder ==
  /\ \A p \in Seq(Parts) : IsPrefix(p, p)
  /\ \A p, q, r \in Seq(Parts) : IsPrefix(p, q) /\ IsPrefix(q, r) => IsPrefix(p, r)
  /\ \A p, q \in Seq(Parts) : IsPrefix(p, q) /\ Len(q) <= Len(p) => p = q
  /\ \A p, q, r \in Seq(Parts) :
       IsPrefix(p, r) /\ IsPrefix(q, r) => IsPrefix(p, q) \/ IsPrefix(q, p)
  <1>0. \A p \in Seq(Parts) : Len(p) \in Nat  BY LenProperties
  <1>1. \A p \in Seq(Parts) : IsPrefix(p, p)  BY <1>0, PrefixIs
  <1>2. ASSUME NEW p \in Seq(Parts), NEW q \in Seq(Parts), NEW r \in Seq(Parts),
               IsPrefix(p, q), IsPrefix(q, r)
        PROVE  IsPrefix(p, r)
    <2>1. Len(p) <= Len(q) /\ \A i \in 1 .. Len(p) : p[i] = q[i]  BY <1>2, PrefixIs
    <2>2. Len(q) <= Len(r) /\ \A i \in 1 .. Len(q) : q[i] = r[i]  BY <1>2, PrefixIs
    <2>3. \A i \in 1 .. Len(p) : i \in 1 .. Len(q)  BY <1>0, <2>1
    <2>4. Len(p) <= Len(r)  BY <1>0, <2>1, <2>2
    <2> QED  BY <2>1, <2>2, <2>3, <2>4, PrefixIs
  <1>3. ASSUME NEW p \in Seq(Parts), NEW q \in Seq(Parts), IsPrefix(p, q), Len(q) <= Len(p)
        PROVE  p = q
    <2>1. Len(p) <= Len(q) /\ \A i \in 1 .. Len(p) : p[i] = q[i]  BY <1>3, PrefixIs
    <2>2. Len(p) = Len(q)  BY <1>0, <1>3, <2>1
    <2> QED  BY <2>1, <2>2, PathEqual
  <1>4. ASSUME NEW p \in Seq(Parts), NEW q \in Seq(Parts), NEW r \in Seq(Parts),
               IsPrefix(p, r), IsPrefix(q, r), Len(p) <= Len(q)
        PROVE  IsPrefix(p, q)
    <2>1. \A i \in 1 .. Len(p) : p[i] = r[i]  BY <1>4, PrefixIs
    <2>2. \A i \in 1 .. Len(q) : q[i] = r[i]  BY <1>4, PrefixIs
    <2>3. \A i \in 1 .. Len(p) : i \in 1 .. Len(q)  BY <1>0, <1>4
    <2> QED  BY <1>4, <2>1, <2>2, <2>3, PrefixIs
  <1>5. \A p, q \in Seq(Parts) : Len(p) <= Len(q) \/ Len(q) <= Len(p)  BY <1>0
  <1> QED  BY <1>1, <1>2, <1>3, <1>4, <1>5

LEMMA PrefixOfEntry ==
  ASSUME NEW p \in Paths, NEW n \in Parts, NEW q \in Seq(Parts)
  PROVE  /\ IsPrefix(p, Append(p, n))
         /\ IsPrefix(q, Append(p, n)) <=> IsPrefix(q, p) \/ q = Append(p, n)
  <1> DEFINE a == Append(p, n)
  <1>1. p \in Seq(Parts) /\ Len(p) \in Nat /\ Len(q) \in Nat
    BY PathsAreParts, LenProperties
  <1>2. /\ a \in Seq(Parts) /\ Len(a) = Len(p) + 1
        /\ \A i \in 1 .. Len(p) : a[i] = p[i]
    BY AppendPath
  <1> HIDE DEF a
  <1>3. IsPrefix(p, a)  BY <1>1, <1>2, PrefixIs
  <1>4. IsPrefix(q, p) \/ q = a => IsPrefix(q, a)  BY <1>1, <1>2, <1>3, PrefixOrder
  <1>5. ASSUME IsPrefix(q, a), q # a PROVE IsPrefix(q, p)
    <2>1. ~ (Len(a) <= Len(q))  BY <1>2, <1>5, PrefixOrder
    <2>2. Len(q) <= Len(p)  BY <1>1, <1>2, <2>1
    <2>3. \A i \in 1 .. Len(q) : q[i] = a[i]  BY <1>2, <1>5, PrefixIs
    <2>4. \A i \in 1 .. Len(q) : i \in 1 .. Len(p)  BY <1>1, <2>2
    <2> QED  BY <1>1, <1>2, <2>2, <2>3, <2>4, PrefixIs
  <1> QED  BY <1>3, <1>4, <1>5 DEF a

LEMMA FrontIsPrefix ==
  ASSUME NEW q \in Paths, q # <<>>
  PROVE  IsPrefix(Front(q), q)
  <1> DEFINE f == Front(q)
             l == Last(q)
  <1>1. f \in Paths /\ l \in Parts /\ q = Append(f, l)  BY PathIsEntry DEF Parts
  <1>2. f \in Seq(Parts)  BY <1>1, PathsAreParts
  <1> HIDE DEF f, l
  <1>3. IsPrefix(f, Append(f, l))  BY <1>1, <1>2, PrefixOfEntry
  <1>4. IsPrefix(f, q)  BY <1>1, <1>3
  <1> QED  BY <1>4 DEF f

LEMMA PrefixPath ==
  ASSUME NEW p \in Seq(Parts), NEW q \in Paths, IsPrefix(p, q)
  PROVE  p \in Paths
  <1>1. q \in Seq(Names) /\ q \in Seq(Parts) /\ Len(q) <= MaxDepth /\ Len(q) \in Nat
    BY PathsAre, PathsAreParts
  <1>2. Len(p) <= Len(q) /\ \A i \in 1 .. Len(p) : p[i] = q[i]
    BY <1>1, PrefixIs
  <1>3. Len(p) \in Nat /\ MaxDepth \in Nat /\ p \in [1 .. Len(p) -> Parts]
    BY LenProperties, VolumesAssumption
  <1>4. \A i \in 1 .. Len(p) : i \in 1 .. Len(q)  BY <1>1, <1>2, <1>3
  <1>5. \A i \in 1 .. Len(p) : p[i] \in Names  BY <1>1, <1>2, <1>4, ElementOfSeq
  <1>6. p \in [1 .. Len(p) -> Names]  BY <1>3, <1>5
  <1>7. p \in Seq(Names)  BY <1>3, <1>6, SeqDef
  <1>8. Len(p) <= MaxDepth  BY <1>1, <1>2, <1>3
  <1> QED  BY <1>7, <1>8, PathsAre

(* Between a directory and what is below it there is an entry of it. *)
LEMMA EntryOnTheWay ==
  ASSUME NEW p \in Paths, NEW q \in Paths, Below(p, q)
  PROVE  \E n \in Names : Append(p, n) \in Paths /\ IsPrefix(Append(p, n), q)
  <1>1. /\ p \in Seq(Parts) /\ q \in Seq(Parts) /\ Len(p) \in Nat /\ Len(q) \in Nat
        /\ q \in Seq(Names)
    BY PathsAreParts, PathsAre
  <1>2. Len(p) <= Len(q) /\ \A i \in 1 .. Len(p) : p[i] = q[i]
    BY <1>1, PrefixIs DEF Below, IsStrictPrefix
  <1>3. ~ (Len(q) <= Len(p))  BY <1>1, PrefixOrder DEF Below, IsStrictPrefix
  <1>4. Len(p) + 1 \in 1 .. Len(q) /\ Len(p) + 1 <= Len(q)  BY <1>1, <1>3
  <1> DEFINE n == q[Len(p) + 1]
             a == Append(p, n)
  <1>5. n \in Names /\ n \in Parts  BY <1>1, <1>4, ElementOfSeq DEF Parts
  <1>6. /\ a \in Seq(Parts) /\ Len(a) = Len(p) + 1
        /\ \A i \in 1 .. Len(p) : a[i] = p[i]
        /\ Last(a) = n
    BY <1>5, AppendPath
  <1> HIDE DEF a
  <1>7. a[Len(p) + 1] = q[Len(p) + 1]  BY <1>6 DEF Last
  <1>8. \A i \in 1 .. Len(p) + 1 : i \in 1 .. Len(p) \/ i = Len(p) + 1  BY <1>1
  <1> HIDE DEF n
  <1>9. IsPrefix(a, q)  BY <1>1, <1>2, <1>4, <1>6, <1>7, <1>8, PrefixIs
  <1>10. a \in Paths  BY <1>6, <1>9, PrefixPath
  <1> QED  BY <1>5, <1>9, <1>10 DEF a

-----------------------------------------------------------------------------
(* The state a packet works on.                                             *)
Kinds == {"none", "file", "dir"}
Node == [path : Paths, parent : Nat, type : Kinds, count : Int, children : Seq(Nat)]
Kids(fs, n) == ToSet(fs.nodes[n].children)

IsFs(fs) ==
  /\ fs = [host |-> fs.host, nodes |-> fs.nodes, next |-> fs.next]
  /\ fs.host \in [Paths -> Kinds]
  /\ fs.nodes \in [DOMAIN fs.nodes -> Node]
  /\ fs.next \in Nat /\ RootId \in DOMAIN fs.nodes
  /\ \A n \in DOMAIN fs.nodes : n \in Nat /\ n >= 1 /\ n < fs.next

(* What can be reached is a tree. *)
Linked(fs) ==
  /\ fs.nodes[RootId].path = <<>> /\ fs.nodes[RootId].parent = RootId
  /\ \A n \in DOMAIN fs.nodes : \A c \in Kids(fs, n) :
       /\ c \in DOMAIN fs.nodes /\ fs.nodes[c].parent = n
       /\ fs.nodes[c].path # <<>> /\ Front(fs.nodes[c].path) = fs.nodes[n].path
  /\ \A n \in DOMAIN fs.nodes : IsInjective(fs.nodes[n].children)
  /\ \A n \in DOMAIN fs.nodes : \A c, d \in Kids(fs, n) :
       fs.nodes[c].path = fs.nodes[d].path => c = d

(* Every node can be reached, and there is one for each path. *)
Reached(fs) ==
  /\ \A n \in DOMAIN fs.nodes \ {RootId} :
       fs.nodes[n].parent \in DOMAIN fs.nodes /\ n \in Kids(fs, fs.nodes[n].parent)
  /\ \A m, n \in DOMAIN fs.nodes : fs.nodes[m].path = fs.nodes[n].path => m = n
  /\ \A n \in DOMAIN fs.nodes : \A q \in Paths :
       IsPrefix(q, fs.nodes[n].path) => \E m \in DOMAIN fs.nodes : fs.nodes[m].path = q

(* ... and the host has its entry. *)
Known(fs) ==
  Reached(fs) /\ \A n \in DOMAIN fs.nodes \ {RootId} : Exists(fs, fs.nodes[n].path)

Good(fs, mv) == IsFs(fs) /\ Linked(fs) /\ HostTree(fs.host) /\ (~ mv => Known(fs))

LEMMA NodeFields ==
  ASSUME NEW fs, IsFs(fs), NEW n \in DOMAIN fs.nodes
  PROVE  /\ fs.nodes[n] \in Node /\ fs.nodes[n].path \in Paths /\ fs.nodes[n].parent \in Nat
         /\ fs.nodes[n].type \in Kinds /\ fs.nodes[n].count \in Int
         /\ fs.nodes[n].children \in Seq(Nat)
         /\ n \in Nat /\ n >= 1 /\ n < fs.next
  <1>1. fs.nodes[n] \in Node /\ n \in Nat /\ n >= 1 /\ n < fs.next  BY DEF IsFs
  <1> QED  BY <1>1 DEF Node

LEMMA NodeExcept ==
  ASSUME NEW v \in Node
  PROVE  /\ \A c \in Int : LET w == [v EXCEPT !.count = c] IN
              /\ w \in Node /\ w.path = v.path /\ w.parent = v.parent /\ w.type = v.type
              /\ w.children = v.children /\ w.count = c
         /\ \A c \in Seq(Nat) : LET w == [v EXCEPT !.children = c] IN
              /\ w \in Node /\ w.path = v.path /\ w.parent = v.parent /\ w.type = v.type
              /\ w.count = v.count /\ w.children = c
  BY DEF Node

LEMMA HostFields ==
  ASSUME NEW fs, IsFs(fs), NEW h \in [Paths -> Kinds]
  PROVE  /\ [fs EXCEPT !.host = h] = [host |-> h, nodes |-> fs.nodes, next |-> fs.next]
         /\ IsFs([fs EXCEPT !.host = h])
  <1>1. [fs EXCEPT !.host = h] = [host |-> h, nodes |-> fs.nodes, next |-> fs.next]
    BY DEF IsFs
  <1> QED  BY <1>1 DEF IsFs

Recount(fs, n, c) == [fs EXCEPT !.nodes[n].count = c]

Recounted(fs, g, n, c) ==
  /\ IsFs(g) /\ g.host = fs.host /\ g.next = fs.next
  /\ DOMAIN g.nodes = DOMAIN fs.nodes
  /\ \A i \in DOMAIN fs.nodes :
       /\ g.nodes[i].path = fs.nodes[i].path /\ g.nodes[i].parent = fs.nodes[i].parent
       /\ g.nodes[i].type = fs.nodes[i].type /\ g.nodes[i].children = fs.nodes[i].children
       /\ g.nodes[i].count = IF i = n THEN c ELSE fs.nodes[i].count

LEMMA RecountFields ==
  ASSUME NEW fs, IsFs(fs), NEW n \in DOMAIN fs.nodes, NEW c \in Int
  PROVE  Recounted(fs, Recount(fs, n, c), n, c)
  <1> DEFINE H == fs.host
             N == fs.nodes
             X == fs.next
             g == Recount(fs, n, c)
             M == [N EXCEPT ![n].count = c]
  <1>1. fs = [host |-> H, nodes |-> N, next |-> X]  BY DEF IsFs
  <1>2. H \in [Paths -> Kinds] /\ N \in [DOMAIN N -> Node] /\ X \in Nat /\ RootId \in DOMAIN N
        /\ \A i \in DOMAIN N : i \in Nat /\ i >= 1 /\ i < X
    BY DEF IsFs
  <1>3. n \in DOMAIN N  OBVIOUS
  <1> HIDE DEF H, N, X
  <1>4. g = [host |-> H, nodes |-> M, next |-> X]  BY <1>1 DEF Recount
  <1>5. DOMAIN M = DOMAIN N
        /\ \A i \in DOMAIN N : M[i] = IF i = n THEN [N[i] EXCEPT !.count = c] ELSE N[i]
    BY <1>2, <1>3
  <1>6. \A i \in DOMAIN N :
          /\ M[i] \in Node
          /\ M[i].path = N[i].path /\ M[i].parent = N[i].parent
          /\ M[i].type = N[i].type /\ M[i].children = N[i].children
          /\ M[i].count = IF i = n THEN c ELSE N[i].count
    BY <1>2, <1>5, NodeExcept
  <1> HIDE DEF M
  <1>7. M \in [DOMAIN M -> Node]
    <2>1. \A i \in DOMAIN M : M[i] \in Node  BY <1>5, <1>6
    <2>2. M = [i \in DOMAIN M |-> M[i]]  BY <1>2 DEF M
    <2> QED  BY <2>1, <2>2
  <1>8. g.host = H /\ g.next = X /\ g.nodes = M  BY <1>4
  <1> HIDE DEF g
  <1>9. IsFs(g)  BY <1>2, <1>4, <1>5, <1>7, <1>8 DEF IsFs
  <1> QED  BY <1>5, <1>6, <1>8, <1>9 DEF Recounted, g, H, N, X

Made(fs, g, dir, q) ==
  /\ IsFs(g) /\ g.host = fs.host /\ g.next = fs.next + 1
  /\ DOMAIN g.nodes = DOMAIN fs.nodes \cup {fs.next}
  /\ fs.next \notin DOMAIN fs.nodes
  /\ g.nodes[fs.next].path = q /\ g.nodes[fs.next].parent = dir
  /\ g.nodes[fs.next].count = 0 /\ g.nodes[fs.next].children = <<>>
  /\ \A i \in DOMAIN fs.nodes :
       /\ g.nodes[i].path = fs.nodes[i].path /\ g.nodes[i].parent = fs.nodes[i].parent
       /\ g.nodes[i].type = fs.nodes[i].type /\ g.nodes[i].count = fs.nodes[i].count
       /\ g.nodes[i].children = IF i = dir THEN Append(fs.nodes[i].children, fs.next)
                                ELSE fs.nodes[i].children

LEMMA MakeFields ==
  ASSUME NEW fs, IsFs(fs), NEW dir \in DOMAIN fs.nodes, NEW q \in Paths, NEW type \in Kinds
  PROVE  Made(fs, make_node(fs, dir, q, type), dir, q)
  <1> DEFINE H == fs.host
             N == fs.nodes
             X == fs.next
             g == make_node(fs, dir, q, type)
             K == [N EXCEPT ![dir].children = Append(@, X)]
             M == [i \in DOMAIN K \cup {X} |-> IF i = X THEN NewNode(q, dir, type) ELSE K[i]]
  <1>1. fs = [host |-> H, nodes |-> N, next |-> X]  BY DEF IsFs
  <1>2. H \in [Paths -> Kinds] /\ N \in [DOMAIN N -> Node] /\ X \in Nat /\ RootId \in DOMAIN N
        /\ \A i \in DOMAIN N : i \in Nat /\ i >= 1 /\ i < X
    BY DEF IsFs
  <1>3. dir \in DOMAIN N  OBVIOUS
  <1>4. \A i \in DOMAIN N : N[i].children \in Seq(Nat) /\ Append(N[i].children, X) \in Seq(Nat)
    <2>1. \A i \in DOMAIN N : N[i].children \in Seq(Nat)  BY <1>2 DEF Node
    <2> QED  BY <2>1, <1>2, AppendNat
  <1>5. g = [host |-> H, nodes |-> M, next |-> X + 1]
    <2>1. g = [fs EXCEPT !.next = X + 1, !.nodes = M]
      BY DEF make_node
    <2>2. fs = [host |-> H, nodes |-> N, next |-> X]
      BY DEF IsFs
    <2> HIDE DEF g, M, H, N, X
    <2> QED  BY <2>1, <2>2
  <1> HIDE DEF H, N, X
  <1>6. X \notin DOMAIN N  BY <1>2
  <1>7. DOMAIN K = DOMAIN N
        /\ \A i \in DOMAIN N :
             K[i] = IF i = dir THEN [N[i] EXCEPT !.children = Append(@, X)] ELSE N[i]
    BY <1>2, <1>3
  <1> HIDE DEF K
  <1>8. DOMAIN M = DOMAIN N \cup {X} /\ M[X] = NewNode(q, dir, type)
        /\ \A i \in DOMAIN N : M[i] = K[i]
    BY <1>6, <1>7
  <1>9. \A i \in DOMAIN N :
          /\ M[i] \in Node
          /\ M[i].path = N[i].path /\ M[i].parent = N[i].parent
          /\ M[i].type = N[i].type /\ M[i].count = N[i].count
          /\ M[i].children = IF i = dir THEN Append(N[i].children, X) ELSE N[i].children
    <2> SUFFICES ASSUME NEW i \in DOMAIN N
                 PROVE  /\ M[i] \in Node
                        /\ M[i].path = N[i].path /\ M[i].parent = N[i].parent
                        /\ M[i].type = N[i].type /\ M[i].count = N[i].count
                        /\ M[i].children = IF i = dir THEN Append(N[i].children, X) ELSE N[i].children
      OBVIOUS
    <2> HIDE DEF M
    <2>1. N[i] \in Node /\ Append(N[i].children, X) \in Seq(Nat)  BY <1>2, <1>4
    <2>2. CASE i = dir
      <3> DEFINE c == Append(N[i].children, X)
      <3>1. M[i] = [N[i] EXCEPT !.children = c] /\ c \in Seq(Nat)  BY <1>7, <1>8, <2>1, <2>2
      <3> HIDE DEF c
      <3>2. /\ M[i] \in Node
            /\ M[i].path = N[i].path /\ M[i].parent = N[i].parent
            /\ M[i].type = N[i].type /\ M[i].count = N[i].count /\ M[i].children = c
        BY <2>1, <3>1, NodeExcept
      <3> QED  BY <2>2, <3>2 DEF c
    <2>3. CASE i # dir
      <3>1. M[i] = N[i]  BY <1>7, <1>8, <2>3
      <3> QED  BY <2>1, <2>3, <3>1
    <2> QED  BY <2>2, <2>3
  <1>10. /\ M[X] \in Node /\ M[X].path = q /\ M[X].parent = dir /\ M[X].count = 0
         /\ M[X].children = <<>>
    <2>1. dir \in Nat /\ <<>> \in Seq(Nat)  BY <1>2, <1>3, EmptySeq
    <2> QED  BY <1>8, <2>1 DEF NewNode, Node
  <1>11. M \in [DOMAIN M -> Node]  BY <1>8, <1>9, <1>10
  <1> HIDE DEF M
  <1>12. g.host = H /\ g.next = X + 1 /\ g.nodes = M  BY <1>5
  <1> HIDE DEF g
  <1>13. IsFs(g)
    <2>1. X + 1 \in Nat /\ X >= 1 /\ \A i \in DOMAIN N : i < X + 1  BY <1>2, <1>3
    <2>2. \A i \in DOMAIN M : i \in Nat /\ i >= 1 /\ i < X + 1  BY <1>2, <1>8, <2>1
    <2>3. RootId \in DOMAIN M  BY <1>2, <1>8
    <2> QED  BY <1>2, <1>5, <1>11, <1>12, <2>1, <2>2, <2>3 DEF IsFs
  <1> QED  BY <1>6, <1>8, <1>9, <1>10, <1>12, <1>13 DEF Made, g, H, N, X

LEMMA ForgetKeeps ==
  ASSUME NEW s \in Seq(Nat), IsInjective(s), NEW n
  PROVE  /\ Forget(s, n) \in Seq(Nat) /\ IsInjective(Forget(s, n))
         /\ ToSet(Forget(s, n)) = ToSet(s) \ {n}
         /\ \A x, y : x # n /\ y # n /\ Before(s, x, y) => Before(Forget(s, n), x, y)
  <1>1. CASE n \in ToSet(s)
    <2> DEFINE i == CHOOSE j \in DOMAIN s : s[j] = n
    <2>1. \E j \in DOMAIN s : s[j] = n  BY <1>1 DEF ToSet
    <2>2. i \in DOMAIN s /\ s[i] = n  BY <2>1
    <2>3. i \in 1 .. Len(s)  BY <2>2, LenProperties
    <2>4. Forget(s, n) = RemoveAt(s, i)  BY <1>1 DEF Forget
    <2> HIDE DEF i
    <2>5. \A x, y : x # n /\ y # n /\ Before(s, x, y) => Before(RemoveAt(s, i), x, y)
      BY <2>2, <2>3, RemoveAtKeepsOrder
    <2> QED  BY <2>2, <2>3, <2>4, <2>5, RemoveAtNat
  <1>2. CASE n \notin ToSet(s)  BY <1>2 DEF Forget
  <1> QED  BY <1>1, <1>2

Erased(fs, g, n) ==
  /\ IsFs(g) /\ g.host = fs.host /\ g.next = fs.next
  /\ DOMAIN g.nodes = DOMAIN fs.nodes \ {n}
  /\ \A i \in DOMAIN fs.nodes \ {n} :
       /\ g.nodes[i].path = fs.nodes[i].path /\ g.nodes[i].parent = fs.nodes[i].parent
       /\ g.nodes[i].type = fs.nodes[i].type /\ g.nodes[i].count = fs.nodes[i].count
       /\ g.nodes[i].children = IF i = fs.nodes[n].parent
                                THEN Forget(fs.nodes[i].children, n)
                                ELSE fs.nodes[i].children

LEMMA EraseFields ==
  ASSUME NEW fs, IsFs(fs), Linked(fs), NEW n \in DOMAIN fs.nodes \ {RootId}
  PROVE  Erased(fs, Erase(fs, n), n)
  <1> DEFINE H == fs.host
             N == fs.nodes
             X == fs.next
             g == Erase(fs, n)
             M == [i \in DOMAIN N \ {n} |->
                     IF i = N[n].parent THEN [N[i] EXCEPT !.children = Forget(@, n)] ELSE N[i]]
  <1>1. fs = [host |-> H, nodes |-> N, next |-> X]  BY DEF IsFs
  <1>2. H \in [Paths -> Kinds] /\ N \in [DOMAIN N -> Node] /\ X \in Nat /\ RootId \in DOMAIN N
        /\ \A i \in DOMAIN N : i \in Nat /\ i >= 1 /\ i < X
    BY DEF IsFs
  <1>3. n \in DOMAIN N /\ n # RootId  OBVIOUS
  <1>4. \A i \in DOMAIN N : N[i].children \in Seq(Nat) /\ Forget(N[i].children, n) \in Seq(Nat)
    <2>1. \A i \in DOMAIN N : N[i].children \in Seq(Nat)  BY <1>2 DEF Node
    <2>2. \A i \in DOMAIN N : IsInjective(N[i].children)  BY DEF Linked
    <2> QED  BY <2>1, <2>2, ForgetKeeps
  <1>5. g = [host |-> H, nodes |-> M, next |-> X]  BY DEF Erase, IsFs
  <1> HIDE DEF H, N, X
  <1>6. DOMAIN M = DOMAIN N \ {n}  OBVIOUS
  <1>7. \A i \in DOMAIN N \ {n} :
          /\ M[i] \in Node
          /\ M[i].path = N[i].path /\ M[i].parent = N[i].parent
          /\ M[i].type = N[i].type /\ M[i].count = N[i].count
          /\ M[i].children = IF i = N[n].parent THEN Forget(N[i].children, n) ELSE N[i].children
    BY <1>2, <1>4 DEF Node
  <1>8. M \in [DOMAIN M -> Node]  BY <1>6, <1>7
  <1> HIDE DEF M
  <1>9. g.host = H /\ g.next = X /\ g.nodes = M  BY <1>5
  <1> HIDE DEF g
  <1>10. IsFs(g)
    <2>1. RootId \in DOMAIN M  BY <1>2, <1>3, <1>6
    <2> QED  BY <1>2, <1>5, <1>6, <1>8, <1>9, <2>1 DEF IsFs
  <1> QED  BY <1>6, <1>7, <1>9, <1>10 DEF Erased, g, H, N, X

-----------------------------------------------------------------------------
(* What a packet makes of the tree before anything is erased.               *)
Extends(f, g) ==
  /\ f.next <= g.next /\ DOMAIN f.nodes \subseteq DOMAIN g.nodes
  /\ \A i \in DOMAIN g.nodes \ DOMAIN f.nodes : i >= f.next /\ g.nodes[i].count = 0
  /\ \A i \in DOMAIN f.nodes :
       /\ g.nodes[i].path = f.nodes[i].path /\ g.nodes[i].parent = f.nodes[i].parent
       /\ g.nodes[i].type = f.nodes[i].type /\ g.nodes[i].count = f.nodes[i].count
       /\ Len(f.nodes[i].children) <= Len(g.nodes[i].children)
       /\ \A j \in 1 .. Len(f.nodes[i].children) :
            g.nodes[i].children[j] = f.nodes[i].children[j]

LEMMA ExtendsSelf ==
  ASSUME NEW f, IsFs(f)
  PROVE  Extends(f, f)
  <1>1. f.next \in Nat /\ \A i \in DOMAIN f.nodes : Len(f.nodes[i].children) \in Nat
    BY NodeFields, SeqNat DEF IsFs
  <1> QED  BY <1>1 DEF Extends

LEMMA ExtendsTransitive ==
  ASSUME NEW f, NEW g, NEW h, IsFs(f), IsFs(g), IsFs(h), Extends(f, g), Extends(g, h)
  PROVE  Extends(f, h)
  <1>1. f.next \in Nat /\ g.next \in Nat /\ h.next \in Nat /\ f.next <= h.next
    BY DEF IsFs, Extends
  <1>2. ASSUME NEW i \in DOMAIN h.nodes, i \notin DOMAIN f.nodes
        PROVE  i >= f.next /\ h.nodes[i].count = 0
    <2>1. CASE i \in DOMAIN g.nodes
      <3>1. i >= f.next /\ g.nodes[i].count = 0  BY <1>2, <2>1 DEF Extends
      <3>2. h.nodes[i].count = g.nodes[i].count  BY <2>1 DEF Extends
      <3> QED  BY <3>1, <3>2
    <2>2. CASE i \notin DOMAIN g.nodes
      <3>1. i >= g.next /\ h.nodes[i].count = 0  BY <2>2 DEF Extends
      <3>2. i \in Nat /\ f.next <= g.next  BY NodeFields DEF Extends
      <3> QED  BY <1>1, <3>1, <3>2
    <2> QED  BY <2>1, <2>2
  <1>3. ASSUME NEW i \in DOMAIN f.nodes
        PROVE  /\ h.nodes[i].path = f.nodes[i].path /\ h.nodes[i].parent = f.nodes[i].parent
               /\ h.nodes[i].type = f.nodes[i].type /\ h.nodes[i].count = f.nodes[i].count
               /\ Len(f.nodes[i].children) <= Len(h.nodes[i].children)
               /\ \A j \in 1 .. Len(f.nodes[i].children) :
                    h.nodes[i].children[j] = f.nodes[i].children[j]
    <2>1. i \in DOMAIN g.nodes /\ i \in DOMAIN h.nodes  BY DEF Extends
    <2>2. /\ Len(f.nodes[i].children) \in Nat /\ Len(g.nodes[i].children) \in Nat
          /\ Len(h.nodes[i].children) \in Nat
      BY <2>1, NodeFields, SeqNat
    <2>3. Len(f.nodes[i].children) <= Len(g.nodes[i].children)
          /\ Len(g.nodes[i].children) <= Len(h.nodes[i].children)
      BY <2>1 DEF Extends
    <2>4. \A j \in 1 .. Len(f.nodes[i].children) : j \in 1 .. Len(g.nodes[i].children)
      BY <2>2, <2>3
    <2> QED  BY <2>1, <2>2, <2>3, <2>4 DEF Extends
  <1> QED  BY <1>1, <1>2, <1>3 DEF Extends

LEMMA ExtendsKids ==
  ASSUME NEW f, NEW g, IsFs(f), IsFs(g), Extends(f, g), NEW n \in DOMAIN f.nodes
  PROVE  /\ n \in DOMAIN g.nodes /\ Kids(f, n) \subseteq Kids(g, n)
         /\ \A x, y : Before(f.nodes[n].children, x, y) => Before(g.nodes[n].children, x, y)
  <1> DEFINE s == f.nodes[n].children
             t == g.nodes[n].children
  <1>1. n \in DOMAIN g.nodes  BY DEF Extends
  <1>2. s \in Seq(Nat) /\ t \in Seq(Nat)  BY <1>1, NodeFields
  <1>3. Len(s) <= Len(t) /\ \A j \in 1 .. Len(s) : t[j] = s[j]  BY DEF Extends
  <1> HIDE DEF s, t
  <1>4. DOMAIN s = 1 .. Len(s) /\ DOMAIN t = 1 .. Len(t) /\ Len(s) \in Nat /\ Len(t) \in Nat
    BY <1>2, SeqNat
  <1>5. \A j \in DOMAIN s : j \in DOMAIN t /\ t[j] = s[j]  BY <1>3, <1>4
  <1>6. ToSet(s) \subseteq ToSet(t)  BY <1>5 DEF ToSet
  <1>7. \A x, y : Before(s, x, y) => Before(t, x, y)  BY <1>5 DEF Before
  <1> QED  BY <1>1, <1>6, <1>7 DEF Kids, s, t

LEMMA RecountGood ==
  ASSUME NEW fs, NEW mv, Good(fs, mv), NEW n \in DOMAIN fs.nodes, NEW c \in Int
  PROVE  Good(Recount(fs, n, c), mv)
  <1> DEFINE g == Recount(fs, n, c)
  <1>1. IsFs(fs) /\ Linked(fs) /\ HostTree(fs.host) /\ (~ mv => Known(fs))  BY DEF Good
  <1>0. Recounted(fs, g, n, c)  BY <1>1, RecountFields
  <1> HIDE DEF g
  <1>2. /\ IsFs(g) /\ g.host = fs.host /\ DOMAIN g.nodes = DOMAIN fs.nodes
        /\ \A i \in DOMAIN fs.nodes :
              /\ g.nodes[i].path = fs.nodes[i].path /\ g.nodes[i].parent = fs.nodes[i].parent
              /\ g.nodes[i].children = fs.nodes[i].children
    BY <1>0 DEF Recounted
  <1>3. \A i \in DOMAIN fs.nodes : Kids(g, i) = Kids(fs, i)  BY <1>2 DEF Kids
  <1>4. RootId \in DOMAIN fs.nodes  BY <1>1 DEF IsFs
  <1>5. Linked(g)
    <2>1. \A i \in DOMAIN fs.nodes : \A d \in Kids(fs, i) : d \in DOMAIN fs.nodes
      BY <1>1 DEF Linked
    <2> QED  BY <1>1, <1>2, <1>3, <1>4, <2>1 DEF Linked
  <1>6. Known(fs) => Known(g)
    <2>1. \A p : Exists(g, p) <=> Exists(fs, p)  BY <1>2 DEF Exists
    <2> QED  BY <1>2, <1>3, <2>1 DEF Known, Reached
  <1> QED  BY <1>1, <1>2, <1>5, <1>6 DEF Good, g

LEMMA HostGood ==
  ASSUME NEW fs, NEW mv, Good(fs, mv), NEW h \in [Paths -> Kinds], HostTree(h),
         \A p \in Paths : fs.host[p] # "none" => h[p] # "none"
  PROVE  /\ Good([fs EXCEPT !.host = h], mv) /\ Extends(fs, [fs EXCEPT !.host = h])
         /\ [fs EXCEPT !.host = h].host = h /\ [fs EXCEPT !.host = h].nodes = fs.nodes
         /\ [fs EXCEPT !.host = h].next = fs.next
  <1> DEFINE g == [fs EXCEPT !.host = h]
  <1>1. IsFs(fs) /\ Linked(fs) /\ (~ mv => Known(fs))  BY DEF Good
  <1>2. IsFs(g) /\ g = [host |-> h, nodes |-> fs.nodes, next |-> fs.next]
    BY <1>1, HostFields
  <1> HIDE DEF g
  <1>3. g.host = h /\ g.nodes = fs.nodes /\ g.next = fs.next  BY <1>2
  <1>4. \A i \in DOMAIN fs.nodes : Kids(g, i) = Kids(fs, i)  BY <1>3 DEF Kids
  <1>5. Linked(g)
    <2>1. RootId \in DOMAIN fs.nodes  BY <1>1 DEF IsFs
    <2> QED  BY <1>1, <1>3, <1>4, <2>1 DEF Linked
  <1>6. Known(fs) => Known(g)
    <2>1. \A p : Exists(fs, p) => Exists(g, p)  BY <1>3 DEF Exists
    <2> QED  BY <1>3, <1>4, <2>1 DEF Known, Reached
  <1>7. Extends(fs, g)
    <2>1. Extends(fs, fs)  BY <1>1, ExtendsSelf
    <2> QED  BY <1>3, <2>1 DEF Extends
  <1> QED  BY <1>1, <1>2, <1>3, <1>5, <1>6, <1>7 DEF Good, g

LEMMA MakeGood ==
  ASSUME NEW fs, NEW mv, Good(fs, mv), NEW dir \in DOMAIN fs.nodes, NEW n \in Parts,
         NEW q \in Paths, q = Append(fs.nodes[dir].path, n), Named(fs, dir, n) = {},
         NEW type \in Kinds, ~ mv => Exists(fs, q)
  PROVE  LET g == make_node(fs, dir, q, type) IN
         /\ Good(g, mv) /\ Extends(fs, g) /\ fs.next \in Kids(g, dir)
  <1> DEFINE g == make_node(fs, dir, q, type)
             X == fs.next
             D == DOMAIN fs.nodes
  <1>1. IsFs(fs) /\ Linked(fs) /\ HostTree(fs.host) /\ (~ mv => Known(fs))  BY DEF Good
  <1>0. Made(fs, g, dir, q)  BY <1>1, MakeFields
  <1> HIDE DEF g
  <1>2. /\ IsFs(g) /\ g.host = fs.host /\ g.next = X + 1
        /\ DOMAIN g.nodes = D \cup {X} /\ X \notin D
        /\ g.nodes[X].path = q /\ g.nodes[X].parent = dir
        /\ g.nodes[X].count = 0 /\ g.nodes[X].children = <<>>
    BY <1>0 DEF Made
  <1>3. \A i \in D :
          /\ g.nodes[i].path = fs.nodes[i].path /\ g.nodes[i].parent = fs.nodes[i].parent
          /\ g.nodes[i].type = fs.nodes[i].type /\ g.nodes[i].count = fs.nodes[i].count
          /\ g.nodes[i].children = IF i = dir THEN Append(fs.nodes[i].children, X)
                                   ELSE fs.nodes[i].children
    BY <1>0 DEF Made
  <1>4. dir \in D /\ RootId \in D /\ X \in Nat  BY <1>1 DEF IsFs
  <1>5. \A i \in D : fs.nodes[i].children \in Seq(Nat) /\ fs.nodes[i].path \in Paths
    BY <1>1, NodeFields
  <1>6. /\ \A i \in D : Kids(g, i) = IF i = dir THEN Kids(fs, i) \cup {X} ELSE Kids(fs, i)
        /\ Kids(g, X) = {}
    <2>1. Kids(g, X) = {}  BY <1>2 DEF Kids, ToSet
    <2>2. ToSet(Append(fs.nodes[dir].children, X)) = ToSet(fs.nodes[dir].children) \cup {X}
      BY <1>4, <1>5, AppendNat
    <2> QED  BY <1>3, <2>1, <2>2 DEF Kids
  <1>7. q # <<>> /\ Front(q) = fs.nodes[dir].path /\ Last(q) = n
    BY <1>4, <1>5, AppendPath
  <1>8. \A i \in D : Kids(fs, i) \subseteq D  BY <1>1 DEF Linked
  <1> HIDE DEF X, D
  <1>9. Linked(g)
    <2>1. g.nodes[RootId].path = <<>> /\ g.nodes[RootId].parent = RootId
      BY <1>1, <1>3, <1>4 DEF Linked
    <2>2. ASSUME NEW m \in DOMAIN g.nodes, NEW c \in Kids(g, m)
          PROVE  /\ c \in DOMAIN g.nodes /\ g.nodes[c].parent = m
                 /\ g.nodes[c].path # <<>> /\ Front(g.nodes[c].path) = g.nodes[m].path
      <3>1. m \in D  BY <1>2, <1>6, <2>2
      <3>2. CASE c \in Kids(fs, m)
        <4>1. c \in D  BY <1>8, <3>1, <3>2
        <4>2. /\ fs.nodes[c].parent = m
              /\ fs.nodes[c].path # <<>> /\ Front(fs.nodes[c].path) = fs.nodes[m].path
          BY <1>1, <3>1, <3>2 DEF Linked, D
        <4> QED  BY <1>2, <1>3, <3>1, <4>1, <4>2
      <3>3. CASE c \notin Kids(fs, m)
        <4>1. m = dir /\ c = X  BY <1>6, <2>2, <3>1, <3>3
        <4> QED  BY <1>2, <1>3, <1>7, <3>1, <4>1
      <3> QED  BY <3>2, <3>3
    <2>3. ASSUME NEW m \in DOMAIN g.nodes PROVE IsInjective(g.nodes[m].children)
      <3>1. CASE m = X  BY <1>2, <3>1 DEF IsInjective
      <3>2. CASE m \in D /\ m # dir  BY <1>1, <1>3, <3>2 DEF Linked, D
      <3>3. CASE m = dir
        <4>1. X \notin ToSet(fs.nodes[dir].children)  BY <1>2, <1>4, <1>8 DEF Kids
        <4>2. IsInjective(fs.nodes[dir].children)  BY <1>1, <1>4 DEF Linked, D
        <4>3. IsInjective(Append(fs.nodes[dir].children, X))
          BY <1>4, <1>5, <4>1, <4>2, AppendNat
        <4> QED  BY <1>3, <1>4, <3>3, <4>3
      <3> QED  BY <1>2, <3>1, <3>2, <3>3
    <2>4. ASSUME NEW m \in DOMAIN g.nodes, NEW c \in Kids(g, m), NEW d \in Kids(g, m),
                 g.nodes[c].path = g.nodes[d].path
          PROVE  c = d
      <3>1. m \in D  BY <1>2, <1>6, <2>4
      <3>2. ASSUME NEW e \in Kids(fs, dir), g.nodes[e].path = q PROVE FALSE
        <4>1. e \in D /\ fs.nodes[e].path = q  BY <1>3, <1>4, <1>8, <3>2
        <4>2. e \in Named(fs, dir, n)  BY <1>7, <4>1 DEF Named, Kids
        <4> QED  BY <4>2
      <3>3. CASE c \in Kids(fs, m) /\ d \in Kids(fs, m)
        <4>1. c \in D /\ d \in D  BY <1>8, <3>1, <3>3
        <4>2. fs.nodes[c].path = fs.nodes[d].path  BY <1>3, <2>4, <4>1
        <4> QED  BY <1>1, <3>1, <3>3, <4>2 DEF Linked, D
      <3>4. CASE c \notin Kids(fs, m)
        <4>1. m = dir /\ c = X  BY <1>6, <2>4, <3>1, <3>4
        <4>2. d = X \/ d \in Kids(fs, dir)  BY <1>4, <1>6, <2>4, <4>1
        <4> QED  BY <1>2, <2>4, <3>2, <4>1, <4>2
      <3>5. CASE d \notin Kids(fs, m)
        <4>1. m = dir /\ d = X  BY <1>6, <2>4, <3>1, <3>5
        <4>2. c = X \/ c \in Kids(fs, dir)  BY <1>4, <1>6, <2>4, <4>1
        <4> QED  BY <1>2, <2>4, <3>2, <4>1, <4>2
      <3> QED  BY <3>3, <3>4, <3>5
    <2> QED  BY <2>1, <2>2, <2>3, <2>4 DEF Linked
  <1>10. ASSUME ~ mv PROVE Known(g)
    <2>1. Known(fs) /\ Exists(fs, q)  BY <1>1, <1>10
    <2>2. \A p : Exists(g, p) <=> Exists(fs, p)  BY <1>2 DEF Exists
    <2>3. ASSUME NEW m \in DOMAIN g.nodes \ {RootId}
          PROVE  /\ g.nodes[m].parent \in DOMAIN g.nodes /\ m \in Kids(g, g.nodes[m].parent)
                 /\ Exists(g, g.nodes[m].path)
      <3>1. CASE m = X  BY <1>2, <1>4, <1>6, <2>1, <2>2, <3>1
      <3>2. CASE m \in D
        <4>1. /\ fs.nodes[m].parent \in D /\ m \in Kids(fs, fs.nodes[m].parent)
              /\ Exists(fs, fs.nodes[m].path)
          BY <2>1, <2>3, <3>2 DEF Known, Reached, D
        <4> QED  BY <1>2, <1>3, <1>6, <2>2, <3>2, <4>1
      <3> QED  BY <1>2, <3>1, <3>2
    <2>4. ASSUME NEW m \in D, fs.nodes[m].path = q PROVE FALSE
      <3>1. m # RootId  BY <1>1, <1>7, <2>4 DEF Linked
      <3>2. fs.nodes[m].parent \in D /\ m \in Kids(fs, fs.nodes[m].parent)
        BY <2>1, <2>4, <3>1 DEF Known, Reached, D
      <3> DEFINE up == fs.nodes[m].parent
      <3> HIDE DEF up
      <3>3. fs.nodes[fs.nodes[m].parent].path = fs.nodes[dir].path
        <4>1. up \in D /\ m \in Kids(fs, up)  BY <3>2 DEF up
        <4>2. Front(fs.nodes[m].path) = fs.nodes[up].path  BY <1>1, <4>1 DEF Linked, D
        <4> QED  BY <1>7, <2>4, <4>2 DEF up
      <3>4. fs.nodes[m].parent = dir  BY <1>4, <2>1, <3>2, <3>3 DEF Known, Reached, D
      <3>5. m \in Named(fs, dir, n)  BY <1>7, <2>4, <3>2, <3>4 DEF Named, Kids
      <3> QED  BY <3>5
    <2>5. ASSUME NEW k \in DOMAIN g.nodes, NEW m \in DOMAIN g.nodes,
                 g.nodes[k].path = g.nodes[m].path
          PROVE  k = m
      <3>1. CASE k \in D /\ m \in D
        <4>1. fs.nodes[k].path = fs.nodes[m].path  BY <1>3, <2>5, <3>1
        <4> QED  BY <2>1, <3>1, <4>1 DEF Known, Reached, D
      <3>2. CASE k = X \/ m = X
        <4>1. k \in D => FALSE  BY <1>2, <1>3, <2>4, <2>5, <3>2
        <4>2. m \in D => FALSE  BY <1>2, <1>3, <2>4, <2>5, <3>2
        <4> QED  BY <1>2, <4>1, <4>2
      <3> QED  BY <1>2, <3>1, <3>2
    <2>6. ASSUME NEW k \in DOMAIN g.nodes, NEW p \in Paths, IsPrefix(p, g.nodes[k].path)
          PROVE  \E m \in DOMAIN g.nodes : g.nodes[m].path = p
      <3>1. ASSUME NEW e \in D, IsPrefix(p, fs.nodes[e].path)
            PROVE  \E m \in DOMAIN g.nodes : g.nodes[m].path = p
        <4>1. PICK m \in D : fs.nodes[m].path = p  BY <2>1, <3>1 DEF Known, Reached, D
        <4> QED  BY <1>2, <1>3, <4>1
      <3>2. CASE k \in D  BY <1>3, <2>6, <3>1, <3>2
      <3>3. CASE k = X
        <4>1. IsPrefix(p, q)  BY <1>2, <2>6, <3>3
        <4>2. p \in Seq(Parts)  BY PathsAreParts
        <4>3. IsPrefix(p, fs.nodes[dir].path) \/ p = q
          BY <1>4, <1>5, <4>1, <4>2, PrefixOfEntry
        <4> QED  BY <1>2, <1>4, <3>1, <4>3
      <3> QED  BY <1>2, <3>2, <3>3
    <2> QED  BY <2>3, <2>5, <2>6 DEF Known, Reached
  <1>11. Extends(fs, g)
    <2>1. ASSUME NEW i \in D
          PROVE  /\ Len(fs.nodes[i].children) <= Len(g.nodes[i].children)
                 /\ \A j \in 1 .. Len(fs.nodes[i].children) :
                      g.nodes[i].children[j] = fs.nodes[i].children[j]
      <3> DEFINE s == fs.nodes[i].children
      <3>1. s \in Seq(Nat) /\ Len(s) \in Nat  BY <1>5, SeqNat
      <3>2. Len(Append(s, X)) = Len(s) + 1 /\ \A j \in 1 .. Len(s) : Append(s, X)[j] = s[j]
        BY <1>4, <3>1, AppendNat
      <3>3. g.nodes[i].children = Append(s, X) \/ g.nodes[i].children = s  BY <1>3
      <3> HIDE DEF s
      <3>4. Len(s) <= Len(g.nodes[i].children)
            /\ \A j \in 1 .. Len(s) : g.nodes[i].children[j] = s[j]
        BY <3>1, <3>2, <3>3
      <3> QED  BY <3>4 DEF s
    <2>2. X <= X + 1 /\ X >= X  BY <1>4
    <2> QED  BY <1>2, <1>3, <2>1, <2>2 DEF Extends, X, D
  <1> QED  BY <1>1, <1>2, <1>4, <1>6, <1>9, <1>10, <1>11 DEF Good, g, X

LEMMA EraseGood ==
  ASSUME NEW e, IsFs(e), Linked(e), HostTree(e.host), NEW n \in DOMAIN e.nodes \ {RootId},
         NEW mv,
         ~ mv => /\ Reached(e)
                 /\ \A i \in DOMAIN e.nodes \ {n} : ~ IsPrefix(e.nodes[n].path, e.nodes[i].path)
                 /\ \A i \in DOMAIN e.nodes \ {n, RootId} : Exists(e, e.nodes[i].path)
  PROVE  Good(Erase(e, n), mv)
  <1> DEFINE g == Erase(e, n)
             D == DOMAIN e.nodes
  <1>0. Erased(e, g, n)  BY EraseFields
  <1> HIDE DEF g
  <1>1. IsFs(g) /\ g.host = e.host /\ DOMAIN g.nodes = D \ {n}  BY <1>0 DEF Erased
  <1>2. \A i \in D \ {n} :
          /\ g.nodes[i].path = e.nodes[i].path /\ g.nodes[i].parent = e.nodes[i].parent
          /\ g.nodes[i].children = IF i = e.nodes[n].parent
                                   THEN Forget(e.nodes[i].children, n)
                                   ELSE e.nodes[i].children
    BY <1>0 DEF Erased
  <1>3. RootId \in D /\ n \in D /\ n # RootId  BY DEF IsFs
  <1>4. \A i \in D : e.nodes[i].children \in Seq(Nat) /\ e.nodes[i].path \in Paths
    BY NodeFields
  <1>5. \A i \in D : IsInjective(e.nodes[i].children)  BY DEF Linked
  <1>6. \A i \in D \ {n} : Kids(g, i) = Kids(e, i) \ {n} /\ IsInjective(g.nodes[i].children)
    <2> SUFFICES ASSUME NEW i \in D \ {n}
                 PROVE  Kids(g, i) = Kids(e, i) \ {n} /\ IsInjective(g.nodes[i].children)
      OBVIOUS
    <2>1. CASE i = e.nodes[n].parent
      <3>1. g.nodes[i].children = Forget(e.nodes[i].children, n)  BY <1>2, <2>1
      <3> QED  BY <1>4, <1>5, <3>1, ForgetKeeps DEF Kids
    <2>2. CASE i # e.nodes[n].parent
      <3>1. g.nodes[i].children = e.nodes[i].children  BY <1>2, <2>2
      <3>2. n \notin Kids(e, i)  BY <2>2 DEF Linked
      <3> QED  BY <1>5, <3>1, <3>2 DEF Kids
    <2> QED  BY <2>1, <2>2
  <1>7. \A i \in D : Kids(e, i) \subseteq D  BY DEF Linked
  <1>8. Linked(g)
    <2>1. g.nodes[RootId].path = <<>> /\ g.nodes[RootId].parent = RootId
      BY <1>2, <1>3 DEF Linked
    <2>2. ASSUME NEW m \in D \ {n}, NEW c \in Kids(g, m)
          PROVE  /\ c \in D \ {n} /\ g.nodes[c].parent = m
                 /\ g.nodes[c].path # <<>> /\ Front(g.nodes[c].path) = g.nodes[m].path
      <3>1. c \in Kids(e, m) /\ c \in D \ {n}  BY <1>6, <1>7, <2>2
      <3>2. /\ e.nodes[c].parent = m
            /\ e.nodes[c].path # <<>> /\ Front(e.nodes[c].path) = e.nodes[m].path
        BY <3>1 DEF Linked
      <3> QED  BY <1>2, <3>1, <3>2
    <2>3. ASSUME NEW m \in D \ {n}, NEW c \in Kids(g, m), NEW d \in Kids(g, m),
                 g.nodes[c].path = g.nodes[d].path
          PROVE  c = d
      <3>1. c \in Kids(e, m) /\ c \in D \ {n} /\ d \in Kids(e, m) /\ d \in D \ {n}
        BY <1>6, <1>7, <2>3
      <3>2. e.nodes[c].path = e.nodes[d].path  BY <1>2, <2>3, <3>1
      <3> QED  BY <3>1, <3>2 DEF Linked
    <2> QED  BY <1>1, <1>6, <2>1, <2>2, <2>3 DEF Linked
  <1>9. ASSUME ~ mv PROVE Known(g)
    <2>1. /\ Reached(e)
          /\ \A i \in D \ {n} : ~ IsPrefix(e.nodes[n].path, e.nodes[i].path)
          /\ \A i \in D \ {n, RootId} : Exists(e, e.nodes[i].path)
      BY <1>9
    <2>2. ASSUME NEW i \in D \ {n}, i # RootId
          PROVE  /\ g.nodes[i].parent \in D \ {n} /\ i \in Kids(g, g.nodes[i].parent)
                 /\ Exists(g, g.nodes[i].path)
      <3> DEFINE up == e.nodes[i].parent
      <3>1. up \in D /\ i \in Kids(e, up)  BY <2>1, <2>2 DEF Reached
      <3>2. up # n
        <4> SUFFICES ASSUME up = n PROVE FALSE  OBVIOUS
        <4>1. e.nodes[i].path # <<>> /\ Front(e.nodes[i].path) = e.nodes[n].path
          BY <3>1 DEF Linked
        <4>2. IsPrefix(Front(e.nodes[i].path), e.nodes[i].path)
          BY <1>4, <4>1, FrontIsPrefix
        <4> QED  BY <2>1, <4>1, <4>2
      <3>3. Exists(e, e.nodes[i].path)  BY <2>1, <2>2
      <3> HIDE DEF up
      <3>4. g.nodes[i].parent = up /\ g.nodes[i].path = e.nodes[i].path  BY <1>2 DEF up
      <3> QED  BY <1>1, <1>6, <3>1, <3>2, <3>3, <3>4 DEF Exists
    <2>3. ASSUME NEW k \in D \ {n}, NEW m \in D \ {n}, g.nodes[k].path = g.nodes[m].path
          PROVE  k = m
      <3>1. e.nodes[k].path = e.nodes[m].path  BY <1>2, <2>3
      <3> QED  BY <2>1, <3>1 DEF Reached
    <2>4. ASSUME NEW k \in D \ {n}, NEW p \in Paths, IsPrefix(p, g.nodes[k].path)
          PROVE  \E m \in D \ {n} : g.nodes[m].path = p
      <3>1. IsPrefix(p, e.nodes[k].path)  BY <1>2, <2>4
      <3>2. PICK m \in D : e.nodes[m].path = p  BY <2>1, <3>1 DEF Reached
      <3>3. m # n  BY <2>1, <3>1, <3>2
      <3> QED  BY <1>2, <3>2, <3>3
    <2> QED  BY <1>1, <2>2, <2>3, <2>4 DEF Known, Reached
  <1> QED  BY <1>1, <1>8, <1>9 DEF Good, g

-----------------------------------------------------------------------------
(* What a packet leaves of the tree: what went is gone from the host, and   *)
(* the children that stay keep their order.                                 *)
Kept(f, g) ==
  /\ f.next <= g.next
  /\ \A i \in DOMAIN g.nodes : i \in DOMAIN f.nodes \/ i >= f.next
  /\ \A i \in DOMAIN f.nodes \ DOMAIN g.nodes : ~ Exists(g, f.nodes[i].path)
  /\ \A i \in DOMAIN f.nodes \cap DOMAIN g.nodes :
       /\ g.nodes[i].path = f.nodes[i].path
       /\ \A x, y \in DOMAIN f.nodes \cap DOMAIN g.nodes :
            Before(f.nodes[i].children, x, y) => Before(g.nodes[i].children, x, y)

LEMMA ExtendsKept ==
  ASSUME NEW f, NEW g, IsFs(f), IsFs(g), Extends(f, g)
  PROVE  Kept(f, g)
  <1>1. \A i \in DOMAIN f.nodes : \A x, y :
          Before(f.nodes[i].children, x, y) => Before(g.nodes[i].children, x, y)
    BY ExtendsKids
  <1> QED  BY <1>1 DEF Kept, Extends

LEMMA ErasedKept ==
  ASSUME NEW e, NEW g, NEW n \in DOMAIN e.nodes, IsFs(e), Linked(e), Erased(e, g, n),
         ~ Exists(e, e.nodes[n].path)
  PROVE  Kept(e, g)
  <1>1. g.host = e.host /\ g.next = e.next /\ DOMAIN g.nodes = DOMAIN e.nodes \ {n}
    BY DEF Erased
  <1>2. \A p : Exists(g, p) <=> Exists(e, p)  BY <1>1 DEF Exists
  <1>3. ASSUME NEW i \in DOMAIN e.nodes \ {n}
        PROVE  /\ g.nodes[i].path = e.nodes[i].path
               /\ \A x, y \in DOMAIN e.nodes \ {n} :
                    Before(e.nodes[i].children, x, y) => Before(g.nodes[i].children, x, y)
    <2>1. e.nodes[i].children \in Seq(Nat) /\ IsInjective(e.nodes[i].children)
      BY NodeFields DEF Linked
    <2>2. \A x, y \in DOMAIN e.nodes \ {n} : Before(e.nodes[i].children, x, y) =>
            Before(Forget(e.nodes[i].children, n), x, y)
      BY <2>1, ForgetKeeps
    <2> QED  BY <2>2 DEF Erased
  <1>4. e.next \in Nat  BY DEF IsFs
  <1> QED  BY <1>1, <1>2, <1>3, <1>4 DEF Kept

LEMMA KeptTransitive ==
  ASSUME NEW f, NEW g, NEW h, IsFs(f), IsFs(g), IsFs(h), Kept(f, g), Kept(g, h),
         DOMAIN f.nodes \subseteq DOMAIN g.nodes \/ g.host = h.host
  PROVE  Kept(f, h)
  <1>1. f.next \in Nat /\ g.next \in Nat /\ h.next \in Nat
        /\ f.next <= g.next /\ g.next <= h.next
    BY DEF IsFs, Kept
  <1>2. \A i \in DOMAIN f.nodes : i \in Nat /\ i < f.next  BY NodeFields
  <1>3. \A i \in DOMAIN h.nodes : i \in Nat  BY NodeFields
  <1>4. \A i \in DOMAIN f.nodes : i \in DOMAIN h.nodes => i \in DOMAIN g.nodes
    BY <1>1, <1>2 DEF Kept
  <1>5. \A i \in DOMAIN h.nodes : i \in DOMAIN f.nodes \/ i >= f.next
    <2>1. \A i \in DOMAIN h.nodes : i \in DOMAIN g.nodes \/ i >= g.next  BY DEF Kept
    <2>2. \A i \in DOMAIN g.nodes : i \in DOMAIN f.nodes \/ i >= f.next  BY DEF Kept
    <2> QED  BY <1>1, <1>3, <2>1, <2>2
  <1>6. ASSUME NEW i \in DOMAIN f.nodes, i \notin DOMAIN h.nodes
        PROVE  ~ Exists(h, f.nodes[i].path)
    <2>1. CASE i \in DOMAIN g.nodes
      <3>1. g.nodes[i].path = f.nodes[i].path /\ ~ Exists(h, g.nodes[i].path)
        BY <1>6, <2>1 DEF Kept
      <3> QED  BY <3>1
    <2>2. CASE i \notin DOMAIN g.nodes
      <3>1. ~ Exists(g, f.nodes[i].path) /\ g.host = h.host  BY <2>2 DEF Kept
      <3> QED  BY <3>1 DEF Exists
    <2> QED  BY <2>1, <2>2
  <1>7. ASSUME NEW i \in DOMAIN f.nodes \cap DOMAIN h.nodes
        PROVE  /\ h.nodes[i].path = f.nodes[i].path
               /\ \A x, y \in DOMAIN f.nodes \cap DOMAIN h.nodes :
                    Before(f.nodes[i].children, x, y) => Before(h.nodes[i].children, x, y)
    BY <1>4 DEF Kept
  <1> QED  BY <1>1, <1>5, <1>6, <1>7 DEF Kept

-----------------------------------------------------------------------------
(* Access counts and who holds what.                                        *)
Hold == [node : Nat, access : Access]
Places == ({"lock"} \X Slots) \cup ({"handle"} \X Indices)
Holds(ls, hs) == [h \in Places |-> IF h[1] = "lock" THEN ls[h[2]] ELSE hs[h[2]]]

At(hold, n) == {h \in Places : hold[h].node = n}
Alone(hold, n) == \E h \in Places : hold[h].node = n /\ hold[h].access = "exclusive"

Matches(fs, hold) ==
  /\ hold \in [Places -> Hold]
  /\ \A h \in Places : hold[h] = NoHold \/ hold[h].node \in DOMAIN fs.nodes
  /\ \A n \in DOMAIN fs.nodes :
       IF Alone(hold, n) THEN fs.nodes[n].count = -1 /\ Cardinality(At(hold, n)) = 1
       ELSE fs.nodes[n].count = Cardinality(At(hold, n))

LEMMA AtFinite == \A hold, n : IsFiniteSet(At(hold, n)) /\ Cardinality(At(hold, n)) \in Nat
  <1> SUFFICES ASSUME NEW hold, NEW n
               PROVE  IsFiniteSet(At(hold, n)) /\ Cardinality(At(hold, n)) \in Nat
    OBVIOUS
  <1>1. MaxLocks \in Nat /\ MaxHandles \in Nat  BY VolumesAssumption
  <1>2. IsFiniteSet(Slots) /\ IsFiniteSet(Indices)  BY <1>1, FS_Interval DEF Slots, Indices
  <1>3. IsFiniteSet({"lock"}) /\ IsFiniteSet({"handle"})  BY FS_Singleton
  <1>4. IsFiniteSet({"lock"} \X Slots) /\ IsFiniteSet({"handle"} \X Indices)
    BY <1>2, <1>3, FS_Product
  <1>5. IsFiniteSet(Places)  BY <1>4, FS_Union DEF Places
  <1>6. At(hold, n) \subseteq Places  BY DEF At
  <1>7. IsFiniteSet(At(hold, n))  BY <1>5, <1>6, FS_Subset
  <1> QED  BY <1>7, FS_CardinalityType

LEMMA HoldTypes ==
  ASSUME NEW v \in Hold
  PROVE  /\ v.node \in Nat /\ v.access \in Access
         /\ v = NoHold => v.node = Nothing /\ v.access # "exclusive"
         /\ \A n : v = [node |-> n, access |-> "exclusive"]
                     <=> v.node = n /\ v.access = "exclusive"
  BY DEF Hold, NoHold, Access, Nothing

(* What nothing holds has nobody at it. *)
LEMMA FreeIsUnheld ==
  ASSUME NEW fs, NEW hold, IsFs(fs), Matches(fs, hold), NEW n \in DOMAIN fs.nodes,
         fs.nodes[n].count = 0
  PROVE  ~ Alone(hold, n) /\ At(hold, n) = {} /\ \A h \in Places : hold[h].node # n
  <1>1. ~ Alone(hold, n) /\ Cardinality(At(hold, n)) = 0  BY DEF Matches
  <1>2. At(hold, n) = {}  BY <1>1, AtFinite, FS_EmptySet
  <1> QED  BY <1>1, <1>2 DEF At

LEMMA MatchesExtends ==
  ASSUME NEW f, NEW g, NEW hold, IsFs(f), IsFs(g), Extends(f, g), Matches(f, hold)
  PROVE  Matches(g, hold)
  <1>1. hold \in [Places -> Hold]  BY DEF Matches
  <1>2. \A h \in Places : hold[h] = NoHold \/ hold[h].node \in DOMAIN f.nodes  BY DEF Matches
  <1>3. DOMAIN f.nodes \subseteq DOMAIN g.nodes  BY DEF Extends
  <1>4. ASSUME NEW n \in DOMAIN g.nodes
        PROVE  IF Alone(hold, n) THEN g.nodes[n].count = -1 /\ Cardinality(At(hold, n)) = 1
               ELSE g.nodes[n].count = Cardinality(At(hold, n))
    <2>1. CASE n \in DOMAIN f.nodes  BY <2>1 DEF Extends, Matches
    <2>2. CASE n \notin DOMAIN f.nodes
      <3>1. g.nodes[n].count = 0 /\ n >= 1 /\ n \in Nat  BY <2>2, NodeFields DEF Extends
      <3>2. \A h \in Places : hold[h].node # n
        BY <1>1, <1>2, <2>2, <3>1, HoldTypes DEF Nothing
      <3>3. At(hold, n) = {} /\ ~ Alone(hold, n)  BY <3>2 DEF At, Alone
      <3>4. Cardinality(At(hold, n)) = 0  BY <3>3, FS_EmptySet
      <3> QED  BY <3>1, <3>3, <3>4
    <2> QED  BY <2>1, <2>2
  <1> QED  BY <1>1, <1>2, <1>3, <1>4 DEF Matches

LEMMA MatchesWithout ==
  ASSUME NEW e, NEW g, NEW n \in DOMAIN e.nodes, NEW hold, IsFs(e),
         DOMAIN g.nodes = DOMAIN e.nodes \ {n},
         \A i \in DOMAIN g.nodes : g.nodes[i].count = e.nodes[i].count,
         Matches(e, hold), e.nodes[n].count = 0
  PROVE  Matches(g, hold)
  <1>1. \A h \in Places : hold[h].node # n  BY FreeIsUnheld
  <1> QED  BY <1>1 DEF Matches

LockCount(fs, n, access) == IF access = "exclusive" THEN -1 ELSE fs.nodes[n].count + 1
UnlockCount(fs, n, access) == IF access = "exclusive" THEN 0 ELSE fs.nodes[n].count - 1

LEMMA LockIsRecount ==
  ASSUME NEW fs, IsFs(fs), NEW n \in DOMAIN fs.nodes, NEW access
  PROVE  /\ Lock(fs, n, access) = Recount(fs, n, LockCount(fs, n, access))
         /\ Unlock(fs, n, access) = Recount(fs, n, UnlockCount(fs, n, access))
         /\ LockCount(fs, n, access) \in Int /\ UnlockCount(fs, n, access) \in Int
         /\ Recounted(fs, Lock(fs, n, access), n, LockCount(fs, n, access))
         /\ Recounted(fs, Unlock(fs, n, access), n, UnlockCount(fs, n, access))
  <1>1. fs.nodes[n].count \in Int  BY NodeFields
  <1>2. LockCount(fs, n, access) \in Int /\ UnlockCount(fs, n, access) \in Int
    BY <1>1 DEF LockCount, UnlockCount
  <1>3. Lock(fs, n, access) = Recount(fs, n, LockCount(fs, n, access))
    BY DEF Lock, Recount, LockCount
  <1>4. Unlock(fs, n, access) = Recount(fs, n, UnlockCount(fs, n, access))
    BY DEF Unlock, Recount, UnlockCount
  <1> QED  BY <1>2, <1>3, <1>4, RecountFields

LEMMA MatchesLock ==
  ASSUME NEW fs, NEW hold, IsFs(fs), Matches(fs, hold), NEW m \in DOMAIN fs.nodes,
         NEW access \in Access, CanLock(fs, m, access), NEW h \in Places, hold[h] = NoHold
  PROVE  Matches(Lock(fs, m, access), [hold EXCEPT ![h] = [node |-> m, access |-> access]])
  <1> DEFINE g == Lock(fs, m, access)
             new == [hold EXCEPT ![h] = [node |-> m, access |-> access]]
  <1>0. Recounted(fs, g, m, LockCount(fs, m, access))  BY LockIsRecount
  <1>1. hold \in [Places -> Hold]
        /\ \A k \in Places : hold[k] = NoHold \/ hold[k].node \in DOMAIN fs.nodes
    BY DEF Matches
  <1>2. m \in Nat /\ m >= 1  BY NodeFields
  <1>3. [node |-> m, access |-> access] \in Hold  BY <1>2 DEF Hold
  <1>4. /\ new \in [Places -> Hold]
        /\ new[h].node = m /\ new[h].access = access
        /\ \A k \in Places : k # h => new[k] = hold[k]
    BY <1>1, <1>3
  <1>5. hold[h].node # m /\ hold[h].access # "exclusive"  BY <1>1, <1>2, HoldTypes DEF Nothing
  <1> HIDE DEF new, g
  <1>6. DOMAIN g.nodes = DOMAIN fs.nodes
        /\ \A i \in DOMAIN fs.nodes :
             g.nodes[i].count = IF i = m THEN LockCount(fs, m, access) ELSE fs.nodes[i].count
    BY <1>0 DEF Recounted
  <1>7. \A n \in DOMAIN fs.nodes \ {m} : At(new, n) = At(hold, n)
        /\ (Alone(new, n) <=> Alone(hold, n))
    <2> SUFFICES ASSUME NEW n \in DOMAIN fs.nodes \ {m}
                 PROVE  At(new, n) = At(hold, n) /\ (Alone(new, n) <=> Alone(hold, n))
      OBVIOUS
    <2>1. n >= 1 /\ n \in Nat  BY NodeFields
    <2>2. hold[h].node # n  BY <1>1, <2>1, HoldTypes DEF Nothing
    <2> QED  BY <1>4, <2>2 DEF At, Alone
  <1>8. At(new, m) = At(hold, m) \cup {h} /\ h \notin At(hold, m)
    BY <1>4, <1>5 DEF At
  <1>9. Cardinality(At(new, m)) = Cardinality(At(hold, m)) + 1
    BY <1>8, AtFinite, FS_AddElement
  <1>10. Alone(new, m) <=> access = "exclusive" \/ Alone(hold, m)
    BY <1>4, <1>5 DEF Alone
  <1>11. IF Alone(hold, m) THEN fs.nodes[m].count = -1
         ELSE fs.nodes[m].count = Cardinality(At(hold, m))
    BY DEF Matches
  <1>12. fs.nodes[m].count >= 0 /\ (access = "exclusive" => fs.nodes[m].count = 0)
    BY DEF CanLock
  <1>13. ~ Alone(hold, m) /\ fs.nodes[m].count = Cardinality(At(hold, m))
    BY <1>11, <1>12
  <1>14. IF Alone(new, m) THEN g.nodes[m].count = -1 /\ Cardinality(At(new, m)) = 1
         ELSE g.nodes[m].count = Cardinality(At(new, m))
    <2>1. g.nodes[m].count = IF access = "exclusive" THEN -1 ELSE fs.nodes[m].count + 1
      BY <1>6 DEF LockCount
    <2> QED  BY <1>9, <1>10, <1>12, <1>13, <2>1
  <1>15. \A n \in DOMAIN g.nodes :
           IF Alone(new, n) THEN g.nodes[n].count = -1 /\ Cardinality(At(new, n)) = 1
           ELSE g.nodes[n].count = Cardinality(At(new, n))
    BY <1>6, <1>7, <1>14 DEF Matches
  <1>16. \A k \in Places : new[k] = NoHold \/ new[k].node \in DOMAIN g.nodes
    BY <1>1, <1>4, <1>6
  <1>17. Matches(g, new)  BY <1>4, <1>15, <1>16 DEF Matches
  <1> QED  BY <1>17 DEF g, new

LEMMA MatchesUnlock ==
  ASSUME NEW fs, NEW hold, IsFs(fs), Matches(fs, hold), NEW h \in Places, hold[h] # NoHold,
         NEW m, NEW access, m = hold[h].node, access = hold[h].access
  PROVE  /\ m \in DOMAIN fs.nodes /\ MayUnlock(fs, m, access)
         /\ Matches(Unlock(fs, m, access), [hold EXCEPT ![h] = NoHold])
  <1> DEFINE g == Unlock(fs, m, access)
             new == [hold EXCEPT ![h] = NoHold]
  <1>1. hold \in [Places -> Hold]
        /\ \A k \in Places : hold[k] = NoHold \/ hold[k].node \in DOMAIN fs.nodes
    BY DEF Matches
  <1>2. m \in DOMAIN fs.nodes /\ m \in Nat /\ m >= 1  BY <1>1, NodeFields
  <1>0. Recounted(fs, g, m, UnlockCount(fs, m, access))  BY <1>2, LockIsRecount
  <1>3. NoHold \in Hold /\ NoHold.node = 0 /\ NoHold.access # "exclusive"
    BY DEF Hold, NoHold, Nothing, Access
  <1>4. /\ new \in [Places -> Hold] /\ new[h] = NoHold
        /\ \A k \in Places : k # h => new[k] = hold[k]
    BY <1>1, <1>3
  <1> HIDE DEF new, g
  <1>6. DOMAIN g.nodes = DOMAIN fs.nodes
        /\ \A i \in DOMAIN fs.nodes :
             g.nodes[i].count = IF i = m THEN UnlockCount(fs, m, access) ELSE fs.nodes[i].count
    BY <1>0 DEF Recounted
  <1>7. \A n \in DOMAIN fs.nodes \ {m} : At(new, n) = At(hold, n)
        /\ (Alone(new, n) <=> Alone(hold, n))
    <2> SUFFICES ASSUME NEW n \in DOMAIN fs.nodes \ {m}
                 PROVE  At(new, n) = At(hold, n) /\ (Alone(new, n) <=> Alone(hold, n))
      OBVIOUS
    <2>1. n # 0  BY NodeFields
    <2>2. new[h].node # n /\ hold[h].node # n  BY <1>3, <1>4, <2>1
    <2> QED  BY <1>4, <2>2 DEF At, Alone
  <1>8. At(new, m) = At(hold, m) \ {h} /\ h \in At(hold, m)
    <2>1. new[h].node # m  BY <1>2, <1>3, <1>4
    <2> QED  BY <1>4, <2>1 DEF At
  <1>9. Cardinality(At(new, m)) = Cardinality(At(hold, m)) - 1
        /\ Cardinality(At(new, m)) \in Nat /\ Cardinality(At(hold, m)) \in Nat
    BY <1>8, AtFinite, FS_RemoveElement
  <1>10. IF Alone(hold, m) THEN fs.nodes[m].count = -1 /\ Cardinality(At(hold, m)) = 1
         ELSE fs.nodes[m].count = Cardinality(At(hold, m))
    BY <1>2 DEF Matches
  <1>11. Alone(new, m) => Alone(hold, m) /\ At(new, m) # {}
    BY <1>3, <1>4 DEF Alone, At
  <1>12. access \in Access  BY <1>1, HoldTypes
  <1>13. CASE Alone(hold, m)
    <2>1. Cardinality(At(new, m)) = 0  BY <1>9, <1>10, <1>13
    <2>2. At(new, m) = {}  BY <2>1, AtFinite, FS_EmptySet
    <2>3. ~ Alone(new, m)  BY <1>11, <2>2
    <2>4. access = "exclusive"
      <3>1. PICK k \in Places : hold[k].node = m /\ hold[k].access = "exclusive"
        BY <1>13 DEF Alone
      <3>2. k = h
        <4>1. k \in At(hold, m)  BY <3>1 DEF At
        <4> QED  BY <1>8, <2>2, <4>1
      <3> QED  BY <3>1, <3>2
    <2>5. MayUnlock(fs, m, access)  BY <1>10, <1>13, <2>4 DEF MayUnlock
    <2>6. g.nodes[m].count = Cardinality(At(new, m))  BY <1>2, <1>6, <2>1, <2>4 DEF UnlockCount
    <2>7. \A n \in DOMAIN g.nodes :
            IF Alone(new, n) THEN g.nodes[n].count = -1 /\ Cardinality(At(new, n)) = 1
            ELSE g.nodes[n].count = Cardinality(At(new, n))
      BY <1>6, <1>7, <2>3, <2>6 DEF Matches
    <2>8. Matches(g, new)  BY <1>1, <1>4, <1>6, <2>7 DEF Matches
    <2> QED  BY <1>2, <2>5, <2>8 DEF g, new
  <1>14. CASE ~ Alone(hold, m)
    <2>1. access # "exclusive"  BY <1>14 DEF Alone
    <2>2. fs.nodes[m].count = Cardinality(At(hold, m)) /\ fs.nodes[m].count > 0
      BY <1>9, <1>10, <1>14
    <2>3. MayUnlock(fs, m, access)  BY <2>1, <2>2 DEF MayUnlock
    <2>4. ~ Alone(new, m)  BY <1>11, <1>14
    <2>6. g.nodes[m].count = Cardinality(At(new, m))
      BY <1>2, <1>6, <1>9, <2>1, <2>2 DEF UnlockCount
    <2>7. \A n \in DOMAIN g.nodes :
            IF Alone(new, n) THEN g.nodes[n].count = -1 /\ Cardinality(At(new, n)) = 1
            ELSE g.nodes[n].count = Cardinality(At(new, n))
      BY <1>6, <1>7, <2>4, <2>6 DEF Matches
    <2>8. Matches(g, new)  BY <1>1, <1>4, <1>6, <2>7 DEF Matches
    <2> QED  BY <1>2, <2>3, <2>8 DEF g, new
  <1> QED  BY <1>13, <1>14

(* Giving back what a packet locked for itself leaves what it found. *)
LEMMA LockUnlock ==
  ASSUME NEW fs, IsFs(fs), NEW n \in DOMAIN fs.nodes, NEW access \in Access,
         CanLock(fs, n, access)
  PROVE  Unlock(Lock(fs, n, access), n, access) = fs
  <1> DEFINE H == fs.host
             N == fs.nodes
             X == fs.next
             a == LockCount(fs, n, access)
             g == Lock(fs, n, access)
             M == [N EXCEPT ![n].count = a]
  <1>1. fs = [host |-> H, nodes |-> N, next |-> X] /\ N \in [DOMAIN N -> Node]  BY DEF IsFs
  <1>2. g = Recount(fs, n, a) /\ IsFs(g) /\ n \in DOMAIN g.nodes /\ g.nodes[n].count = a
    BY LockIsRecount DEF Recounted
  <1>3. Unlock(g, n, access) = Recount(g, n, UnlockCount(g, n, access))
    BY <1>2, LockIsRecount
  <1>4. UnlockCount(g, n, access) = N[n].count
    <2>1. N[n].count \in Int  BY NodeFields
    <2> QED  BY <1>2, <2>1 DEF UnlockCount, LockCount, CanLock
  <1>5. g = [host |-> H, nodes |-> M, next |-> X]
    <2> HIDE DEF H, N, X, a, g
    <2> QED  BY <1>1, <1>2 DEF Recount
  <1>6. Recount(g, n, N[n].count) = [host |-> H, nodes |-> [M EXCEPT ![n].count = N[n].count],
                                     next |-> X]
    <2> HIDE DEF H, N, X, a, g, M
    <2> QED  BY <1>5 DEF Recount
  <1>7. [M EXCEPT ![n].count = N[n].count] = N
    <2>1. n \in DOMAIN N  OBVIOUS
    <2> HIDE DEF N, a
    <2>2. N[n] \in Node  BY <1>1, <2>1
    <2>3. [[N[n] EXCEPT !.count = a] EXCEPT !.count = N[n].count] = N[n]  BY <2>2 DEF Node
    <2> QED  BY <1>1, <2>1, <2>3
  <1> HIDE DEF H, N, X, a, g, M
  <1>8. Unlock(g, n, access) = fs  BY <1>1, <1>3, <1>4, <1>6, <1>7
  <1> QED  BY <1>8 DEF g

(* ... and the same if the packet learned more in between. *)
LEMMA UnlockExtends ==
  ASSUME NEW fs, IsFs(fs), NEW n \in DOMAIN fs.nodes, NEW access \in Access,
         CanLock(fs, n, access), NEW g, IsFs(g), Extends(Lock(fs, n, access), g)
  PROVE  n \in DOMAIN g.nodes /\ Extends(fs, Unlock(g, n, access))
  <1> DEFINE l == Lock(fs, n, access)
             u == Unlock(g, n, access)
  <1>1. Recounted(fs, l, n, LockCount(fs, n, access))  BY LockIsRecount
  <1>2. n \in DOMAIN g.nodes  BY <1>1 DEF Recounted, Extends
  <1>3. Recounted(g, u, n, UnlockCount(g, n, access))  BY <1>2, LockIsRecount
  <1>4. g.nodes[n].count = LockCount(fs, n, access)  BY <1>1, <1>2 DEF Recounted, Extends
  <1>5. UnlockCount(g, n, access) = fs.nodes[n].count
    <2>1. fs.nodes[n].count \in Int  BY NodeFields
    <2> QED  BY <1>4, <2>1 DEF UnlockCount, LockCount, CanLock
  <1> HIDE DEF l, u
  <1>6. Extends(l, g)  BY DEF l
  <1>7. l.next = fs.next /\ DOMAIN l.nodes = DOMAIN fs.nodes
        /\ u.next = g.next /\ DOMAIN u.nodes = DOMAIN g.nodes
    BY <1>1, <1>3 DEF Recounted
  <1>8. ASSUME NEW i \in DOMAIN u.nodes, i \notin DOMAIN fs.nodes
        PROVE  i >= fs.next /\ u.nodes[i].count = 0
    <2>1. i # n  BY <1>8
    <2>2. i >= fs.next /\ g.nodes[i].count = 0  BY <1>6, <1>7, <1>8 DEF Extends
    <2>3. u.nodes[i].count = g.nodes[i].count  BY <1>3, <1>7, <1>8, <2>1 DEF Recounted
    <2> QED  BY <2>2, <2>3
  <1>9. ASSUME NEW i \in DOMAIN fs.nodes
        PROVE  /\ u.nodes[i].path = fs.nodes[i].path /\ u.nodes[i].parent = fs.nodes[i].parent
               /\ u.nodes[i].type = fs.nodes[i].type /\ u.nodes[i].count = fs.nodes[i].count
               /\ Len(fs.nodes[i].children) <= Len(u.nodes[i].children)
               /\ \A j \in 1 .. Len(fs.nodes[i].children) :
                    u.nodes[i].children[j] = fs.nodes[i].children[j]
    <2>1. i \in DOMAIN g.nodes /\ i \in DOMAIN l.nodes  BY <1>6, <1>7 DEF Extends
    <2>2. /\ g.nodes[i].path = l.nodes[i].path /\ g.nodes[i].parent = l.nodes[i].parent
          /\ g.nodes[i].type = l.nodes[i].type /\ g.nodes[i].count = l.nodes[i].count
          /\ Len(l.nodes[i].children) <= Len(g.nodes[i].children)
          /\ \A j \in 1 .. Len(l.nodes[i].children) :
               g.nodes[i].children[j] = l.nodes[i].children[j]
      BY <1>6, <2>1 DEF Extends
    <2>3. /\ l.nodes[i].path = fs.nodes[i].path /\ l.nodes[i].parent = fs.nodes[i].parent
          /\ l.nodes[i].type = fs.nodes[i].type /\ l.nodes[i].children = fs.nodes[i].children
          /\ i # n => l.nodes[i].count = fs.nodes[i].count
      BY <1>1 DEF Recounted
    <2>4. /\ u.nodes[i].path = g.nodes[i].path /\ u.nodes[i].parent = g.nodes[i].parent
          /\ u.nodes[i].type = g.nodes[i].type /\ u.nodes[i].children = g.nodes[i].children
          /\ u.nodes[i].count = IF i = n THEN fs.nodes[n].count ELSE g.nodes[i].count
      BY <1>3, <1>5, <2>1 DEF Recounted
    <2> QED  BY <2>2, <2>3, <2>4
  <1>10. fs.next <= u.next /\ DOMAIN fs.nodes \subseteq DOMAIN u.nodes
    BY <1>6, <1>7 DEF Extends
  <1>11. Extends(fs, u)  BY <1>8, <1>9, <1>10 DEF Extends
  <1> QED  BY <1>2, <1>11 DEF u

-----------------------------------------------------------------------------
(* find_in_node.                                                            *)
Finds(fs, mv, f, dir, n) ==
  /\ f = [fs |-> f.fs, node |-> f.node, err |-> "none", status |-> "ok"]
  /\ Good(f.fs, mv) /\ Extends(fs, f.fs) /\ f.fs.host = fs.host
  /\ f.node = Nothing =>
       /\ f.fs = fs
       /\ \/ n = Dots
          \/ Named(fs, dir, n) = {} /\ ~ Exists(fs, Append(fs.nodes[dir].path, n))
  /\ f.node # Nothing =>
       /\ f.node \in DOMAIN f.fs.nodes /\ f.node \in Kids(f.fs, dir)
       /\ f.fs.nodes[f.node].path = Append(fs.nodes[dir].path, n)
  /\ \A i \in DOMAIN fs.nodes \ {dir} : f.fs.nodes[i].children = fs.nodes[i].children

LEMMA FindKeeps ==
  ASSUME NEW fs, NEW mv, Good(fs, mv), NEW dir \in DOMAIN fs.nodes, NEW n \in Parts
  PROVE  Finds(fs, mv, find_in_node(fs, dir, n), dir, n)
  <1> DEFINE f == find_in_node(fs, dir, n)
             p == fs.nodes[dir].path
             q == Append(p, n)
  <1>1. IsFs(fs) /\ Linked(fs)  BY DEF Good
  <1>2. Extends(fs, fs)  BY <1>1, ExtendsSelf
  <1>3. p \in Paths  BY <1>1, NodeFields
  <1>4. ASSUME NEW a, a = Answer(fs, Nothing, "none"),
               n = Dots \/ (Named(fs, dir, n) = {} /\ ~ Exists(fs, q))
        PROVE  Finds(fs, mv, a, dir, n)
    <2> HIDE DEF f, q, p
    <2>1. a = [fs |-> fs, node |-> Nothing, err |-> "none", status |-> "ok"]
      BY <1>4 DEF Answer
    <2>2. a.fs = fs /\ a.node = Nothing  BY <2>1
    <2> QED  BY <1>2, <1>4, <2>1, <2>2 DEF Finds, p, q
  <1>5. CASE n # Dots /\ Named(fs, dir, n) # {}
    <2> DEFINE c == CHOOSE c \in Named(fs, dir, n) : TRUE
    <2>1. c \in Named(fs, dir, n)  BY <1>5
    <2>2. f = Answer(fs, c, "none")  BY <1>5 DEF find_in_node
    <2> HIDE DEF f, c
    <2>3. c \in Kids(fs, dir) /\ Last(fs.nodes[c].path) = n  BY <2>1 DEF Named, Kids
    <2>4. c \in DOMAIN fs.nodes /\ fs.nodes[c].path # <<>> /\ Front(fs.nodes[c].path) = p
      BY <1>1, <2>3 DEF Linked
    <2>5. fs.nodes[c].path \in Paths /\ c >= 1 /\ c \in Nat  BY <1>1, <2>4, NodeFields
    <2>6. fs.nodes[c].path = q  BY <2>3, <2>4, <2>5, PathIsEntry
    <2> HIDE DEF p, q
    <2>7. f = [fs |-> fs, node |-> c, err |-> "none", status |-> "ok"]  BY <2>2 DEF Answer
    <2>8. f.fs = fs /\ f.node = c /\ c # Nothing  BY <2>5, <2>7 DEF Nothing
    <2>9. Finds(fs, mv, f, dir, n)  BY <1>2, <2>3, <2>4, <2>6, <2>7, <2>8 DEF Finds, p, q
    <2> QED  BY <2>9 DEF f
  <1>6. CASE n # Dots /\ Named(fs, dir, n) = {} /\ Exists(fs, q)
    <2> DEFINE g == make_node(fs, dir, q, fs.host[q])
    <2>1. f = Answer(g, fs.next, "none")  BY <1>6 DEF find_in_node
    <2>2. q \in Paths /\ fs.host[q] \in Kinds  BY <1>1, <1>6 DEF Exists, IsFs
    <2>3. Made(fs, g, dir, q)
      <3> DEFINE type == fs.host[q]
      <3>1. type \in Kinds  BY <2>2
      <3> HIDE DEF q, type
      <3> QED  BY <1>1, <2>2, <3>1, MakeFields DEF type
    <2>4. Good(g, mv) /\ Extends(fs, g) /\ fs.next \in Kids(g, dir)
      <3> DEFINE type == fs.host[q]
      <3>1. type \in Kinds  BY <2>2
      <3>2. q = Append(fs.nodes[dir].path, n)  OBVIOUS
      <3> HIDE DEF q, p, type
      <3> QED  BY <1>6, <2>2, <3>1, <3>2, MakeGood DEF type
    <2> HIDE DEF f, g, p, q
    <2>5. f = [fs |-> g, node |-> fs.next, err |-> "none", status |-> "ok"]  BY <2>1 DEF Answer
    <2>6. fs.next # Nothing
      <3>1. fs.next \in Nat /\ RootId \in DOMAIN fs.nodes /\ RootId < fs.next
        BY <1>1 DEF IsFs
      <3> QED  BY <3>1 DEF Nothing, RootId
    <2>7. f.fs = g /\ f.node = fs.next  BY <2>5
    <2>8. /\ g.host = fs.host /\ fs.next \in DOMAIN g.nodes /\ g.nodes[fs.next].path = q
          /\ \A i \in DOMAIN fs.nodes \ {dir} : g.nodes[i].children = fs.nodes[i].children
      BY <2>3 DEF Made
    <2>9. Finds(fs, mv, f, dir, n)  BY <2>4, <2>5, <2>6, <2>7, <2>8 DEF Finds, p, q
    <2> QED  BY <2>9 DEF f
  <1>7. CASE n # Dots /\ Named(fs, dir, n) = {} /\ ~ Exists(fs, q)
    <2>1. f = Answer(fs, Nothing, "none")  BY <1>7 DEF find_in_node
    <2>2. Finds(fs, mv, f, dir, n)  BY <1>4, <1>7, <2>1
    <2> QED  BY <2>2
  <1>8. CASE n = Dots
    <2>1. f = Answer(fs, Nothing, "none")  BY <1>8 DEF find_in_node
    <2> HIDE DEF f, q
    <2>2. n = Dots \/ (Named(fs, dir, n) = {} /\ ~ Exists(fs, q))  BY <1>8
    <2>3. Finds(fs, mv, f, dir, n)  BY ONLY <1>4, <2>1, <2>2
    <2> QED  BY <2>3 DEF f
  <1> QED  BY <1>5, <1>6, <1>7, <1>8

-----------------------------------------------------------------------------
(* Steps along a name, and along a directory's entries.                     *)
StepOf(kind, dir, x, start, f, i) ==
  IF i = 0 THEN start
  ELSE IF kind = "up" THEN Up(f[i - 1])
  ELSE IF kind = "down" THEN Down(f[i - 1], x[i])
  ELSE find_in_node(f[i - 1], dir, x[i]).fs

Steps(kind, dir, x, start, m, f) == f = [i \in 0 .. m |-> StepOf(kind, dir, x, start, f, i)]

LEMMA StepsExist ==
  ASSUME NEW kind, NEW dir, NEW x, NEW start, NEW m \in Nat
  PROVE  \E f : Steps(kind, dir, x, start, m, f)
  <1> DEFINE T == {n \in Nat : \E f : f = [i \in 0 .. n |-> StepOf(kind, dir, x, start, f, i)]}
  <1>1. 0 \in T
    <2> DEFINE f == [i \in 0 .. 0 |-> start]
    <2>1. f = [i \in 0 .. 0 |-> StepOf(kind, dir, x, start, f, i)]
      BY DEF StepOf
    <2> QED  BY <2>1
  <1>2. ASSUME NEW n \in Nat, n \in T PROVE n + 1 \in T
    <2>1. PICK f : f = [i \in 0 .. n |-> StepOf(kind, dir, x, start, f, i)]
      BY <1>2
    <2> DEFINE g == [i \in 0 .. n + 1 |->
                       IF i = n + 1 THEN StepOf(kind, dir, x, start, f, i) ELSE f[i]]
    <2>2. \A i \in 0 .. n : g[i] = f[i]  OBVIOUS
    <2>3. \A i \in 0 .. n + 1 :
            StepOf(kind, dir, x, start, g, i) = StepOf(kind, dir, x, start, f, i)
      <3> SUFFICES ASSUME NEW i \in 0 .. n + 1
                   PROVE  StepOf(kind, dir, x, start, g, i) = StepOf(kind, dir, x, start, f, i)
        OBVIOUS
      <3> HIDE DEF g
      <3>1. i # 0 => i - 1 \in 0 .. n  OBVIOUS
      <3>2. i # 0 => g[i - 1] = f[i - 1]  BY <2>2, <3>1
      <3> QED  BY <3>2 DEF StepOf
    <2>4. \A i \in 0 .. n : f[i] = StepOf(kind, dir, x, start, f, i)  BY <2>1
    <2>5. \A i \in 0 .. n + 1 : g[i] = StepOf(kind, dir, x, start, f, i)
      <3>1. \A i \in 0 .. n + 1 : i # n + 1 => i \in 0 .. n  OBVIOUS
      <3> QED  BY <2>4, <3>1
    <2>6. g = [i \in 0 .. n + 1 |-> g[i]]  OBVIOUS
    <2> HIDE DEF g
    <2>7. \A i \in 0 .. n + 1 : g[i] = StepOf(kind, dir, x, start, g, i)  BY <2>3, <2>5
    <2>8. g = [i \in 0 .. n + 1 |-> StepOf(kind, dir, x, start, g, i)]  BY <2>6, <2>7
    <2> QED  BY <2>8
  <1> HIDE DEF T
  <1>3. \A n \in Nat : n \in T  BY <1>1, <1>2, SetInduction
  <1> QED  BY <1>3 DEF T, Steps

LEMMA UpsIs ==
  ASSUME NEW r, NEW n \in Nat
  PROVE  \E f : f[0] = r /\ (\A i \in 1 .. n : f[i] = Up(f[i - 1])) /\ Ups(r, n) = f[n]
  <1>0. n \in Nat  OBVIOUS
  <1> DEFINE g == CHOOSE at : at = [i \in 0 .. n |-> IF i = 0 THEN r ELSE Up(at[i - 1])]
  <1>4. Ups(r, n) = g[n]  BY DEF Ups
  <1> DEFINE kind == "up"
             x == <<>>
             y == <<>>
  <1> HIDE DEF kind, x, y
  <1>1. PICK f : Steps(kind, x, y, r, n, f)  BY <1>0, StepsExist
  <1>7. f = [i \in 0 .. n |-> IF i = 0 THEN r ELSE Up(f[i - 1])]
    BY <1>1 DEF Steps, StepOf, kind
  <1>2. \E at : at = [i \in 0 .. n |-> IF i = 0 THEN r ELSE Up(at[i - 1])]  BY <1>7
  <1>3. g = [i \in 0 .. n |-> IF i = 0 THEN r ELSE Up(g[i - 1])]  BY <1>2
  <1> HIDE DEF g
  <1>5. g[0] = r  BY <1>3
  <1>6. \A i \in 1 .. n : g[i] = Up(g[i - 1])
    <2>1. \A i \in 1 .. n : i \in 0 .. n /\ i # 0  OBVIOUS
    <2> QED  BY <1>3, <2>1
  <1> QED  BY <1>4, <1>5, <1>6

LEMMA DownsIs ==
  ASSUME NEW r, NEW comps \in Seq(Parts)
  PROVE  \E f : /\ f[0] = r /\ \A i \in 1 .. Len(comps) : f[i] = Down(f[i - 1], comps[i])
                /\ Downs(r, comps) = f[Len(comps)]
  <1> DEFINE n == Len(comps)
  <1>0. n \in Nat  BY LenProperties
  <1> DEFINE g == CHOOSE at : at = [i \in 0 .. n |-> IF i = 0 THEN r ELSE Down(at[i - 1], comps[i])]
  <1>4. Downs(r, comps) = g[n]  BY DEF Downs
  <1> HIDE DEF n
  <1> DEFINE kind == "down"
             x == <<>>
  <1> HIDE DEF kind, x
  <1>1. PICK f : Steps(kind, x, comps, r, n, f)  BY <1>0, StepsExist
  <1>2. f = [i \in 0 .. n |-> IF i = 0 THEN r ELSE Down(f[i - 1], comps[i])]
    BY <1>1 DEF Steps, StepOf, kind
  <1>3. g = [i \in 0 .. n |-> IF i = 0 THEN r ELSE Down(g[i - 1], comps[i])]
    <2>1. \E at : at = [i \in 0 .. n |-> IF i = 0 THEN r ELSE Down(at[i - 1], comps[i])]  BY <1>2
    <2> QED  BY <2>1
  <1> HIDE DEF g
  <1>5. g[0] = r  BY <1>0, <1>3
  <1>6. \A i \in 1 .. n : g[i] = Down(g[i - 1], comps[i])
    <2>1. \A i \in 1 .. n : i \in 0 .. n /\ i # 0  BY <1>0
    <2> QED  BY <1>3, <2>1
  <1> QED  BY <1>4, <1>5, <1>6 DEF n

LEMMA LearnIs ==
  ASSUME NEW fs, NEW dir, NEW order, Len(order) \in Nat
  PROVE  \E f : /\ f[0] = fs
                /\ \A i \in 1 .. Len(order) : f[i] = find_in_node(f[i - 1], dir, order[i]).fs
                /\ Learn(fs, dir, order) = f[Len(order)]
  <1> DEFINE n == Len(order)
  <1>0. n \in Nat  OBVIOUS
  <1> DEFINE g == CHOOSE at : at = [i \in 0 .. n |->
                    IF i = 0 THEN fs ELSE find_in_node(at[i - 1], dir, order[i]).fs]
  <1>4. Learn(fs, dir, order) = g[n]  BY DEF Learn
  <1> HIDE DEF n
  <1>1. PICK f : Steps("learn", dir, order, fs, n, f)  BY <1>0, StepsExist
  <1>2. f = [i \in 0 .. n |-> IF i = 0 THEN fs ELSE find_in_node(f[i - 1], dir, order[i]).fs]
    BY <1>1 DEF Steps, StepOf
  <1>3. g = [i \in 0 .. n |-> IF i = 0 THEN fs ELSE find_in_node(g[i - 1], dir, order[i]).fs]
    <2>1. \E at : at = [i \in 0 .. n |->
                     IF i = 0 THEN fs ELSE find_in_node(at[i - 1], dir, order[i]).fs]
      BY <1>2
    <2> QED  BY <2>1
  <1> HIDE DEF g
  <1>5. g[0] = fs  BY <1>0, <1>3
  <1>6. \A i \in 1 .. n : g[i] = find_in_node(g[i - 1], dir, order[i]).fs
    <2>1. \A i \in 1 .. n : i \in 0 .. n /\ i # 0  BY <1>0
    <2> QED  BY <1>3, <2>1
  <1> QED  BY <1>4, <1>5, <1>6 DEF n

-----------------------------------------------------------------------------
(* Walk.                                                                    *)
Walked(fs, mv, r) ==
  /\ r = [fs |-> r.fs, node |-> r.node, err |-> r.err, status |-> r.status]
  /\ r.status # "ok" \/ r.err # "none" => r.node = Nothing
  /\ Good(r.fs, mv) /\ Extends(fs, r.fs) /\ r.fs.host = fs.host
  /\ r.node = Nothing \/ r.node \in DOMAIN r.fs.nodes

(* Only directories on the way to where it stands have learned something. *)
OnTheWay(fs, r) ==
  r.node # Nothing =>
    \A i \in DOMAIN fs.nodes :
      \/ r.fs.nodes[i].children = fs.nodes[i].children
      \/ IsPrefix(fs.nodes[i].path, r.fs.nodes[r.node].path)

LEMMA UpKeeps ==
  ASSUME NEW fs, NEW mv, NEW r, Walked(fs, mv, r), r.fs = fs
  PROVE  Walked(fs, mv, Up(r)) /\ Up(r).fs = fs
  <1> DEFINE u == Up(r)
  <1>1. CASE r.node = Nothing
    <2>1. u = r  BY <1>1 DEF Up
    <2> HIDE DEF u
    <2> QED  BY <2>1 DEF u
  <1>2. CASE r.node # Nothing /\ (r.node = RootId \/ Dangling(r.fs, r.node))
    <2>1. u = Fails(r.fs, "not found") \/ u = Ends(r.fs, "undefined")
      BY <1>2 DEF Up
    <2> HIDE DEF u
    <2>2. u = [fs |-> fs, node |-> Nothing, err |-> u.err, status |-> u.status]
      <3>1. CASE u = Fails(r.fs, "not found")  BY <3>1 DEF Fails, Answer
      <3>2. CASE u = Ends(r.fs, "undefined")  BY <3>2 DEF Ends
      <3> QED  BY <2>1, <3>1, <3>2
    <2>3. u.fs = fs /\ u.node = Nothing  BY <2>2
    <2>4. Walked(fs, mv, u)  BY <2>2, <2>3 DEF Walked
    <2> QED  BY <2>3, <2>4 DEF u
  <1>3. CASE r.node # Nothing /\ r.node # RootId /\ ~ Dangling(r.fs, r.node)
    <2> DEFINE up == r.fs.nodes[r.node].parent
    <2>1. u = [r EXCEPT !.node = up]  BY <1>3 DEF Up
    <2>2. up \in DOMAIN r.fs.nodes  BY <1>3 DEF Dangling
    <2>3. r = [fs |-> r.fs, node |-> r.node, err |-> r.err, status |-> r.status]
          /\ r.status = "ok" /\ r.err = "none"
      BY <1>3 DEF Walked
    <2> HIDE DEF u, up
    <2>4. u = [fs |-> r.fs, node |-> up, err |-> r.err, status |-> r.status]
      BY <2>1, <2>3
    <2>5. u.fs = fs /\ u.node = up /\ u.err = "none" /\ u.status = "ok"  BY <2>3, <2>4
    <2>6. Walked(fs, mv, u)  BY <2>2, <2>4, <2>5 DEF Walked
    <2> QED  BY <2>5, <2>6 DEF u
  <1> QED  BY <1>1, <1>2, <1>3

LEMMA DownKeeps ==
  ASSUME NEW fs, NEW mv, IsFs(fs), NEW r, Walked(fs, mv, r), OnTheWay(fs, r), NEW n \in Parts
  PROVE  Walked(fs, mv, Down(r, n)) /\ OnTheWay(fs, Down(r, n))
  <1> DEFINE d == Down(r, n)
  <1>1. CASE r.node = Nothing
    <2>1. d = r  BY <1>1 DEF Down
    <2> HIDE DEF d
    <2> QED  BY <2>1 DEF d
  <1>2. CASE r.node # Nothing /\ ~ IsDirNode(r.fs, r.node)
    <2>1. d = Fails(r.fs, "wrong type")  BY <1>2 DEF Down
    <2> HIDE DEF d
    <2>2. d = [fs |-> r.fs, node |-> Nothing, err |-> "wrong type", status |-> "ok"]
      BY <2>1 DEF Fails, Answer
    <2>3. d.fs = r.fs /\ d.node = Nothing /\ d.status = "ok" /\ d.err = "wrong type"  BY <2>2
    <2>4. Walked(fs, mv, d)  BY <2>2, <2>3 DEF Walked
    <2>5. OnTheWay(fs, d)  BY <2>3 DEF OnTheWay
    <2> QED  BY <2>4, <2>5 DEF d
  <1>3. CASE r.node # Nothing /\ IsDirNode(r.fs, r.node)
    <2> DEFINE dir == r.node
    <2>0. dir \in DOMAIN r.fs.nodes /\ Good(r.fs, mv)  BY <1>3 DEF Walked
    <2>1. d = find_in_node(r.fs, dir, n)  BY <1>3 DEF Down
    <2>2. Finds(r.fs, mv, find_in_node(r.fs, dir, n), dir, n)  BY <2>0, FindKeeps
    <2> HIDE DEF d, dir
    <2>3. Finds(r.fs, mv, d, dir, n)  BY <2>1, <2>2
    <2>4. /\ d = [fs |-> d.fs, node |-> d.node, err |-> "none", status |-> "ok"]
          /\ Good(d.fs, mv) /\ Extends(r.fs, d.fs) /\ d.fs.host = r.fs.host
          /\ d.node = Nothing \/ d.node \in DOMAIN d.fs.nodes
      BY <2>3 DEF Finds
    <2>5. Extends(fs, r.fs) /\ r.fs.host = fs.host  BY DEF Walked
    <2>6. IsFs(r.fs) /\ IsFs(d.fs)  BY <2>0, <2>4 DEF Good
    <2>7. Extends(fs, d.fs)  BY <2>4, <2>5, <2>6, ExtendsTransitive
    <2>8. d.err = "none" /\ d.status = "ok"  BY <2>4
    <2>9. Walked(fs, mv, d)  BY <2>4, <2>5, <2>7, <2>8 DEF Walked
    <2>10. ASSUME d.node # Nothing, NEW i \in DOMAIN fs.nodes,
                  d.fs.nodes[i].children # fs.nodes[i].children
           PROVE  IsPrefix(fs.nodes[i].path, d.fs.nodes[d.node].path)
      <3> DEFINE p == r.fs.nodes[dir].path
                 q == fs.nodes[i].path
      <3>1. d.fs.nodes[d.node].path = Append(p, n)  BY <2>3, <2>10 DEF Finds
      <3>2. p \in Paths /\ q \in Paths  BY <2>0, <2>6, NodeFields
      <3>3. p \in Seq(Parts) /\ q \in Seq(Parts)  BY <3>2, PathsAreParts
      <3>4. IsPrefix(q, p)
        <4>1. CASE i = dir
          <5>1. q = p  BY <2>5, <4>1 DEF Extends
          <5> QED  BY <3>3, <5>1, PrefixOrder
        <4>2. CASE i # dir
          <5>1. i \in DOMAIN r.fs.nodes  BY <2>5 DEF Extends
          <5>2. d.fs.nodes[i].children = r.fs.nodes[i].children  BY <2>3, <4>2, <5>1 DEF Finds
          <5>3. r.fs.nodes[i].children # fs.nodes[i].children  BY <2>10, <5>2
          <5> QED  BY <1>3, <5>3 DEF OnTheWay, dir
        <4> QED  BY <4>1, <4>2
      <3> HIDE DEF p, q
      <3>5. IsPrefix(q, Append(p, n))  BY <3>2, <3>3, <3>4, PrefixOfEntry
      <3> QED  BY <3>1, <3>5 DEF q
    <2>11. OnTheWay(fs, d)  BY <2>10 DEF OnTheWay
    <2> QED  BY <2>9, <2>11 DEF d
  <1> QED  BY <1>1, <1>2, <1>3

NameOk(name) == name.up \in Nat /\ name.comps \in Seq(Parts) /\ name.slash \in BOOLEAN

LEMMA UpsKeep ==
  ASSUME NEW fs, NEW mv, NEW r, Walked(fs, mv, r), r.fs = fs, NEW n \in Nat
  PROVE  Walked(fs, mv, Ups(r, n)) /\ Ups(r, n).fs = fs
  <1>1. PICK f : f[0] = r /\ (\A i \in 1 .. n : f[i] = Up(f[i - 1])) /\ Ups(r, n) = f[n]
    BY UpsIs
  <1> DEFINE T == {k \in Nat : k <= n => Walked(fs, mv, f[k]) /\ f[k].fs = fs}
  <1>2. 0 \in T  BY <1>1
  <1>3. ASSUME NEW k \in Nat, k \in T PROVE k + 1 \in T
    <2> SUFFICES ASSUME k + 1 <= n PROVE Walked(fs, mv, f[k + 1]) /\ f[k + 1].fs = fs
      OBVIOUS
    <2>1. k + 1 \in 1 .. n /\ k + 1 - 1 = k /\ k <= n  OBVIOUS
    <2>2. f[k + 1] = Up(f[k])  BY <1>1, <2>1
    <2>3. Walked(fs, mv, f[k]) /\ f[k].fs = fs  BY <1>3, <2>1
    <2> QED  BY <2>2, <2>3, UpKeeps
  <1> HIDE DEF T
  <1>4. n \in T  BY <1>2, <1>3, SetInduction
  <1> QED  BY <1>1, <1>4 DEF T

LEMMA DownsKeep ==
  ASSUME NEW fs, NEW mv, IsFs(fs), NEW r, Walked(fs, mv, r), OnTheWay(fs, r),
         NEW comps \in Seq(Parts)
  PROVE  Walked(fs, mv, Downs(r, comps)) /\ OnTheWay(fs, Downs(r, comps))
  <1> DEFINE n == Len(comps)
  <1>0. n \in Nat /\ \A i \in 1 .. n : comps[i] \in Parts  BY LenProperties, ElementOfSeq
  <1>1. PICK f : /\ f[0] = r /\ \A i \in 1 .. n : f[i] = Down(f[i - 1], comps[i])
                 /\ Downs(r, comps) = f[n]
    BY DownsIs
  <1> HIDE DEF n
  <1> DEFINE T == {k \in Nat : k <= n => Walked(fs, mv, f[k]) /\ OnTheWay(fs, f[k])}
  <1>2. 0 \in T  BY <1>1
  <1>3. ASSUME NEW k \in Nat, k \in T PROVE k + 1 \in T
    <2> SUFFICES ASSUME k + 1 <= n PROVE Walked(fs, mv, f[k + 1]) /\ OnTheWay(fs, f[k + 1])
      OBVIOUS
    <2>1. k + 1 \in 1 .. n /\ k + 1 - 1 = k /\ k <= n  BY <1>0
    <2>2. f[k + 1] = Down(f[k], comps[k + 1])  BY <1>1, <2>1
    <2>3. Walked(fs, mv, f[k]) /\ OnTheWay(fs, f[k])  BY <1>3, <2>1
    <2>4. comps[k + 1] \in Parts  BY <1>0, <2>1
    <2> QED  BY <2>2, <2>3, <2>4, DownKeeps
  <1> HIDE DEF T
  <1>4. n \in T  BY <1>0, <1>2, <1>3, SetInduction
  <1>5. n <= n  BY <1>0
  <1> QED  BY <1>1, <1>4, <1>5 DEF T

LEMMA FrontParts ==
  ASSUME NEW q \in Seq(Parts), q # <<>>
  PROVE  Front(q) \in Seq(Parts) /\ Last(q) \in Parts
  <1>1. PICK s \in Seq(Parts), e \in Parts : q = Append(s, e)  BY SequenceEmptyOrAppend
  <1>2. Len(q) = Len(s) + 1 /\ Len(s) \in Nat /\ Len(q) \in Nat
    BY <1>1, AppendProperties, LenProperties
  <1>3. \A i \in 1 .. Len(q) : q[i] \in Parts  BY ElementOfSeq
  <1>4. Len(q) \in 1 .. Len(q) /\ Len(q) - 1 \in Int /\ 1 \in Int  BY <1>2
  <1>5. \A i \in 1 .. Len(q) - 1 : i \in 1 .. Len(q)  BY <1>2
  <1>6. SubSeq(q, 1, Len(q) - 1) \in Seq(Parts)  BY <1>3, <1>4, <1>5, SubSeqProperties
  <1> QED  BY <1>3, <1>4, <1>6 DEF Front, Last

LEMMA WalkKeeps ==
  ASSUME NEW fs, NEW mv, Good(fs, mv), NEW l, LockKey(l) \in DOMAIN fs.nodes,
         NEW name, NameOk(name)
  PROVE  Walked(fs, mv, Walk(fs, l, name)) /\ OnTheWay(fs, Walk(fs, l, name))
  <1> DEFINE n == LockKey(l)
             a == Answer(fs, n, "none")
             u == Ups(a, name.up)
             comps == IF name.slash \/ name.comps = <<>> THEN name.comps ELSE Front(name.comps)
             w == Walk(fs, l, name)
  <1>1. IsFs(fs)  BY DEF Good
  <1>2. Walked(fs, mv, a) /\ a.fs = fs
    <2>1. a = [fs |-> fs, node |-> n, err |-> "none", status |-> "ok"]  BY DEF Answer
    <2>2. n \in DOMAIN fs.nodes  OBVIOUS
    <2>3. Extends(fs, fs)  BY <1>1, ExtendsSelf
    <2> HIDE DEF a, n
    <2>4. a.fs = fs /\ a.node = n /\ a.err = "none" /\ a.status = "ok"  BY <2>1
    <2> QED  BY <2>1, <2>2, <2>3, <2>4 DEF Walked
  <1>3. w = Downs(u, comps)  BY DEF Walk
  <1>4. comps \in Seq(Parts)
    <2>1. name.comps \in Seq(Parts)  BY DEF NameOk
    <2>2. CASE name.slash \/ name.comps = <<>>  BY <2>1, <2>2
    <2>3. CASE name.comps # <<>> /\ ~ name.slash
      <3>1. Front(name.comps) \in Seq(Parts)  BY <2>1, <2>3, FrontParts
      <3> QED  BY <2>3, <3>1
    <2> QED  BY <2>2, <2>3
  <1>5. name.up \in Nat  BY DEF NameOk
  <1> HIDE DEF a, comps, w
  <1>6. Walked(fs, mv, u) /\ u.fs = fs  BY <1>2, <1>5, UpsKeep
  <1> HIDE DEF u
  <1>7. OnTheWay(fs, u)  BY <1>6 DEF OnTheWay
  <1>8. Walked(fs, mv, w) /\ OnTheWay(fs, w)  BY <1>1, <1>3, <1>4, <1>6, <1>7, DownsKeep
  <1> QED  BY <1>8 DEF w

-----------------------------------------------------------------------------
(* What a packet makes of the host.                                         *)
Replaces(fs, p, type) == type \in {"file", "dir"} /\ (type = "dir" \/ ~ IsDir(fs, p))
HostWith(fs, p, type) == [fs EXCEPT !.host[p] = type]

LEMMA HostEntry ==
  ASSUME NEW fs, NEW mv, Good(fs, mv), NEW d \in Paths, NEW n \in Parts, IsDir(fs, d),
         NEW p \in Paths, p = Append(d, n),
         NEW type, Replaces(fs, p, type)
  PROVE  /\ Good(HostWith(fs, p, type), mv) /\ Extends(fs, HostWith(fs, p, type))
         /\ HostWith(fs, p, type).nodes = fs.nodes
  <1> DEFINE h == [fs.host EXCEPT ![p] = type]
             g == HostWith(fs, p, type)
  <1>1. IsFs(fs) /\ HostTree(fs.host)  BY DEF Good
  <1>2. fs.host \in [Paths -> Kinds]  BY <1>1 DEF IsFs
  <1>8. type \in {"file", "dir"} /\ (type = "dir" \/ ~ IsDir(fs, p))  BY DEF Replaces
  <1>3. h \in [Paths -> Kinds] /\ h[p] = type
        /\ \A q \in Paths : q # p => h[q] = fs.host[q]
    BY <1>2, <1>8 DEF Kinds
  <1>4. g = [fs EXCEPT !.host = h]  BY DEF HostWith
  <1> HIDE DEF h
  <1>5. HostTree(h)
    <2> SUFFICES ASSUME NEW q \in Paths, NEW s \in Paths, Below(s, q), h[q] # "none"
                 PROVE  h[s] = "dir"
      BY DEF HostTree
    <2>0. IsPrefix(s, q) /\ s # q /\ q \in Seq(Parts) /\ s \in Seq(Parts)
          /\ d \in Seq(Parts) /\ p \in Seq(Parts)
      BY PathsAreParts DEF Below, IsStrictPrefix
    <2>1. CASE s = p
      <3>1. h[q] = fs.host[q]  BY <1>3, <2>0, <2>1
      <3>2. fs.host[s] = "dir"  BY <1>1, <3>1 DEF HostTree
      <3> QED  BY <1>3, <1>8, <2>1, <3>2 DEF IsDir
    <2>2. CASE s # p /\ q = p
      <3>1. IsPrefix(s, d)  BY <2>0, <2>2, PrefixOfEntry
      <3>2. fs.host[s] = "dir"
        <4>1. CASE s = d  BY <4>1 DEF IsDir
        <4>2. CASE s # d
          <5>1. Below(s, d) /\ fs.host[d] # "none"  BY <3>1, <4>2 DEF Below, IsStrictPrefix, IsDir
          <5> QED  BY <1>1, <5>1 DEF HostTree
        <4> QED  BY <4>1, <4>2
      <3> QED  BY <1>3, <2>2, <3>2
    <2>3. CASE s # p /\ q # p
      <3>1. fs.host[q] # "none"  BY <1>3, <2>3
      <3>2. fs.host[s] = "dir"  BY <1>1, <3>1 DEF HostTree
      <3> QED  BY <1>3, <2>3, <3>2
    <2> QED  BY <2>1, <2>2, <2>3
  <1>6. \A q \in Paths : fs.host[q] # "none" => h[q] # "none"  BY <1>3, <1>8
  <1>7. /\ Good([fs EXCEPT !.host = h], mv) /\ Extends(fs, [fs EXCEPT !.host = h])
        /\ [fs EXCEPT !.host = h].host = h /\ [fs EXCEPT !.host = h].nodes = fs.nodes
        /\ [fs EXCEPT !.host = h].next = fs.next
    BY <1>3, <1>5, <1>6, HostGood
  <1> QED  BY <1>3, <1>4, <1>7

(* What an operation on the tree answers. *)
Found(fs, mv, r) ==
  /\ r = [fs |-> r.fs, node |-> r.node, err |-> r.err, status |-> r.status]
  /\ r.status # "ok" \/ r.err # "none" => r.node = Nothing
  /\ r.status = "ok" => Good(r.fs, mv) /\ Extends(fs, r.fs)
  /\ r.node = Nothing \/ r.node \in DOMAIN r.fs.nodes

LEMMA FailsIsFound ==
  ASSUME NEW fs, NEW mv, NEW g, Good(g, mv), Extends(fs, g), NEW err
  PROVE  Found(fs, mv, Fails(g, err)) /\ Fails(g, err).fs = g
  <1> DEFINE r == Fails(g, err)
  <1>1. r = [fs |-> g, node |-> Nothing, err |-> err, status |-> "ok"]  BY DEF Fails, Answer
  <1> HIDE DEF r
  <1>2. r.fs = g /\ r.node = Nothing /\ r.err = err /\ r.status = "ok"  BY <1>1
  <1>3. Found(fs, mv, r)  BY <1>1, <1>2 DEF Found
  <1> QED  BY <1>2, <1>3 DEF r

LEMMA EndsIsFound ==
  ASSUME NEW fs, NEW mv, NEW g, NEW how, how # "ok"
  PROVE  Found(fs, mv, Ends(g, how))
  <1> DEFINE r == Ends(g, how)
  <1>1. r = [fs |-> g, node |-> Nothing, err |-> "none", status |-> how]  BY DEF Ends
  <1> HIDE DEF r
  <1>2. r.fs = g /\ r.node = Nothing /\ r.err = "none" /\ r.status = how  BY <1>1
  <1>3. Found(fs, mv, r)  BY <1>1, <1>2 DEF Found
  <1> QED  BY <1>3 DEF r

LEMMA WalkedIsFound ==
  ASSUME NEW fs, NEW mv, NEW r, Walked(fs, mv, r)
  PROVE  Found(fs, mv, r)
  BY DEF Walked, Found

LEMMA FindIsFound ==
  ASSUME NEW fs, NEW mv, NEW e, IsFs(fs), Good(e, mv), Extends(fs, e),
         NEW dir \in DOMAIN e.nodes, NEW n \in Parts
  PROVE  Found(fs, mv, find_in_node(e, dir, n))
  <1> DEFINE f == find_in_node(e, dir, n)
  <1>1. Finds(e, mv, f, dir, n)  BY FindKeeps
  <1> HIDE DEF f
  <1>2. /\ f = [fs |-> f.fs, node |-> f.node, err |-> "none", status |-> "ok"]
        /\ Good(f.fs, mv) /\ Extends(e, f.fs)
        /\ f.node = Nothing \/ f.node \in DOMAIN f.fs.nodes
    BY <1>1 DEF Finds
  <1>3. f.err = "none" /\ f.status = "ok"  BY <1>2
  <1>4. Extends(fs, f.fs)  BY <1>2, ExtendsTransitive DEF Good
  <1>5. Found(fs, mv, f)  BY <1>2, <1>3, <1>4 DEF Found
  <1> QED  BY <1>5 DEF f

LEMMA CreateFileKeeps ==
  ASSUME NEW fs, NEW mv, NEW e, IsFs(fs), Good(e, mv), Extends(fs, e),
         NEW dir \in DOMAIN e.nodes, NEW n \in Parts, NEW refused
  PROVE  Found(fs, mv, CreateFile(e, dir, n, refused))
  <1> DEFINE d == e.nodes[dir].path
             p == Append(d, n)
             g == [e EXCEPT !.host[p] = "file"]
             r == CreateFile(e, dir, n, refused)
  <1>1. d \in Paths /\ IsFs(e)  BY NodeFields DEF Good
  <1>2. Front(p) = d  BY <1>1, AppendPath
  <1>3. CASE refused \/ p \notin Paths \/ ~ IsDir(e, Front(p)) \/ IsDir(e, p)
    <2>1. r = Fails(e, "host")  BY <1>3 DEF CreateFile
    <2> QED  BY <2>1, FailsIsFound
  <1>4. CASE ~ (refused \/ p \notin Paths \/ ~ IsDir(e, Front(p)) \/ IsDir(e, p))
    <2>1. r = find_in_node(g, dir, n)  BY <1>4 DEF CreateFile
    <2>2. p \in Paths /\ IsDir(e, d) /\ ~ IsDir(e, p) /\ p = Append(d, n)  BY <1>2, <1>4
    <2>3. g = HostWith(e, p, "file")  BY DEF HostWith
    <2> HIDE DEF d, p, g, r
    <2> DEFINE type == "file"
    <2>4. Replaces(e, p, type) /\ g = HostWith(e, p, type)  BY <2>2, <2>3 DEF Replaces
    <2> HIDE DEF type
    <2>8. Good(e, mv) /\ d \in Paths /\ n \in Parts /\ IsDir(e, d) /\ p \in Paths
          /\ p = Append(d, n) /\ Replaces(e, p, type)
      BY <1>1, <2>2, <2>4
    <2>9. /\ Good(HostWith(e, p, type), mv) /\ Extends(e, HostWith(e, p, type))
          /\ HostWith(e, p, type).nodes = e.nodes
      BY ONLY <2>8, HostEntry
    <2>5. Good(g, mv) /\ Extends(e, g) /\ g.nodes = e.nodes
      BY <2>9, <2>4
    <2>6. Extends(fs, g)  BY <1>1, <2>5, ExtendsTransitive DEF Good
    <2>7. Found(fs, mv, find_in_node(g, dir, n))  BY <2>5, <2>6, FindIsFound
    <2> QED  BY <2>1, <2>7 DEF r
  <1> QED  BY <1>3, <1>4

LEMMA CreateDirKeeps ==
  ASSUME NEW fs, NEW mv, NEW e, IsFs(fs), Good(e, mv), Extends(fs, e),
         NEW dir \in DOMAIN e.nodes, NEW n \in Parts, NEW refused
  PROVE  Found(fs, mv, CreateDir(e, dir, n, refused))
  <1> DEFINE d == e.nodes[dir].path
             p == Append(d, n)
             g == [e EXCEPT !.host[p] = "dir"]
             r == CreateDir(e, dir, n, refused)
  <1>1. d \in Paths /\ IsFs(e)  BY NodeFields DEF Good
  <1>2. Front(p) = d /\ Len(p) = Len(d) + 1 /\ (n \in Names /\ Len(d) + 1 <= MaxDepth => p \in Paths)
    BY <1>1, AppendPath
  <1>3. CASE refused \/ ~ IsDir(e, Front(p)) \/ Len(p) > MaxDepth
    <2>1. r = Fails(e, "throw")  BY <1>3 DEF CreateDir
    <2> QED  BY <2>1, FailsIsFound
  <1>5. CASE ~ (refused \/ ~ IsDir(e, Front(p)) \/ Len(p) > MaxDepth) /\ n = Dots
    <2>1. r = Ends(e, "assert")  BY <1>5 DEF CreateDir
    <2> QED  BY <2>1, EndsIsFound
  <1>4. CASE ~ (refused \/ ~ IsDir(e, Front(p)) \/ Len(p) > MaxDepth) /\ n # Dots
    <2>1. r = find_in_node(g, dir, n)  BY <1>4 DEF CreateDir
    <2>2. p \in Paths /\ IsDir(e, d) /\ p = Append(d, n)
      <3>1. n \in Names /\ IsDir(e, d)  BY <1>2, <1>4 DEF Parts
      <3>2. Len(d) \in Nat /\ MaxDepth \in Nat  BY <1>1, PathsAreParts, VolumesAssumption
      <3>3. ~ (Len(p) > MaxDepth)  BY <1>4
      <3> HIDE DEF p
      <3>4. Len(d) + 1 <= MaxDepth  BY <1>2, <3>2, <3>3
      <3> QED  BY <1>2, <3>1, <3>4 DEF p
    <2>3. g = HostWith(e, p, "dir")  BY DEF HostWith
    <2> HIDE DEF d, p, g, r
    <2> DEFINE type == "dir"
    <2>4. Replaces(e, p, type) /\ g = HostWith(e, p, type)  BY <2>2, <2>3 DEF Replaces
    <2> HIDE DEF type
    <2>8. Good(e, mv) /\ d \in Paths /\ n \in Parts /\ IsDir(e, d) /\ p \in Paths
          /\ p = Append(d, n) /\ Replaces(e, p, type)
      BY <1>1, <2>2, <2>4
    <2>9. /\ Good(HostWith(e, p, type), mv) /\ Extends(e, HostWith(e, p, type))
          /\ HostWith(e, p, type).nodes = e.nodes
      BY ONLY <2>8, HostEntry
    <2>5. Good(g, mv) /\ Extends(e, g) /\ g.nodes = e.nodes
      BY <2>9, <2>4
    <2>6. Extends(fs, g)  BY <1>1, <2>5, ExtendsTransitive DEF Good
    <2>7. Found(fs, mv, find_in_node(g, dir, n))  BY <2>5, <2>6, FindIsFound
    <2> QED  BY <2>1, <2>7 DEF r
  <1> QED  BY <1>3, <1>4, <1>5

LEMMA AtLastKeeps ==
  ASSUME NEW fs, NEW mv, IsFs(fs), NEW r, Walked(fs, mv, r), NEW n \in Parts,
         NEW op, op.kind \in {"lock", "file", "dir"}, NEW refused
  PROVE  Found(fs, mv, AtLast(r, n, op, refused))
  <1> DEFINE a == AtLast(r, n, op, refused)
             dir == r.node
             f == find_in_node(r.fs, dir, n)
  <1>0. Good(r.fs, mv) /\ Extends(fs, r.fs)  BY DEF Walked
  <1>1. CASE dir = Nothing
    <2>1. a = [r EXCEPT !.err = "not found"]  BY <1>1 DEF AtLast
    <2>2. r = [fs |-> r.fs, node |-> r.node, err |-> r.err, status |-> r.status]
      BY DEF Walked
    <2> HIDE DEF a
    <2>3. a = [fs |-> r.fs, node |-> r.node, err |-> "not found", status |-> r.status]
      BY <2>1, <2>2
    <2>4. a.fs = r.fs /\ a.node = Nothing /\ a.err = "not found" /\ a.status = r.status
      BY <1>1, <2>3
    <2>5. Found(fs, mv, a)  BY <1>0, <1>1, <2>3, <2>4 DEF Found
    <2> QED  BY <2>5 DEF a
  <1>2. CASE dir # Nothing /\ ~ IsDirNode(r.fs, dir)
    <2>1. a = Fails(r.fs, "wrong type")  BY <1>2 DEF AtLast
    <2>2. Found(fs, mv, Fails(r.fs, "wrong type"))  BY <1>0, FailsIsFound
    <2> HIDE DEF a
    <2>3. Found(fs, mv, a)  BY <2>1, <2>2
    <2> QED  BY <2>3 DEF a
  <1>3. CASE dir # Nothing /\ IsDirNode(r.fs, dir)
    <2>0. dir \in DOMAIN r.fs.nodes  BY <1>3 DEF Walked
    <2>1. Found(fs, mv, f)  BY <1>0, <2>0, FindIsFound
    <2>2. Finds(r.fs, mv, f, dir, n)  BY <1>0, <2>0, FindKeeps
    <2>3. /\ a = CASE op.kind = "lock" -> f
                   [] op.kind = "file" -> CreateFile(f.fs, dir, n, refused)
                   [] op.kind = "dir" -> IF Taken(f.node) THEN Fails(f.fs, "exists")
                                         ELSE CreateDir(f.fs, dir, n, refused)
                   [] op.kind = "rename" -> IF Taken(f.node) THEN Fails(f.fs, "exists")
                                            ELSE rename(f.fs, op.node, dir, n)
      BY <1>3 DEF AtLast
    <2> HIDE DEF a, f
    <2>4. Good(f.fs, mv) /\ Extends(r.fs, f.fs)  BY <2>2 DEF Finds
    <2>5. Extends(fs, f.fs) /\ dir \in DOMAIN f.fs.nodes
      <3>1. IsFs(r.fs) /\ IsFs(f.fs)  BY <1>0, <2>4 DEF Good
      <3> QED  BY <1>0, <2>0, <2>4, <3>1, ExtendsTransitive DEF Extends
    <2>6. CASE op.kind = "lock"
      <3>1. a = f  BY <2>3, <2>6
      <3> QED  BY <2>1, <3>1 DEF a
    <2>7. CASE op.kind = "file"
      <3>1. a = CreateFile(f.fs, dir, n, refused)  BY <2>3, <2>7
      <3>2. Found(fs, mv, a)  BY <2>4, <2>5, <3>1, CreateFileKeeps
      <3> QED  BY <3>2 DEF a
    <2>8. CASE op.kind = "dir"
      <3>1. a = Fails(f.fs, "exists") \/ a = CreateDir(f.fs, dir, n, refused)  BY <2>3, <2>8
      <3>2. Found(fs, mv, a)  BY <2>4, <2>5, <3>1, CreateDirKeeps, FailsIsFound
      <3> QED  BY <3>2 DEF a
    <2> QED  BY <2>6, <2>7, <2>8
  <1> QED  BY <1>1, <1>2, <1>3

-----------------------------------------------------------------------------
(* node_operation.                                                          *)
Locked(fs, mv, access, r) ==
  /\ r = [fs |-> r.fs, node |-> r.node, err |-> r.err, status |-> r.status]
  /\ r.status # "ok" \/ r.err # "none" => r.node = Nothing
  /\ r.status = "ok" /\ r.node = Nothing => Good(r.fs, mv) /\ Extends(fs, r.fs)
  /\ r.node # Nothing =>
       \E g : /\ Good(g, mv) /\ Extends(fs, g) /\ r.node \in DOMAIN g.nodes
              /\ CanLock(g, r.node, access) /\ r.fs = Lock(g, r.node, access)

LEMMA UnfoundIsLocked ==
  ASSUME NEW fs, NEW mv, NEW access, NEW r, Found(fs, mv, r), r.node = Nothing
  PROVE  Locked(fs, mv, access, r)
  BY DEF Found, Locked

(* What it does with what it found. *)
Ending(f, whole, kind, access) ==
  IF f.status # "ok" \/ f.err # "none" \/ (kind = "rename" /\ ~ whole) THEN f
  ELSE IF f.node = Nothing THEN Fails(f.fs, "not found")
  ELSE IF whole /\ kind # "lock" THEN Ends(f.fs, "assert")
  ELSE IF CanLock(f.fs, f.node, access) THEN [f EXCEPT !.fs = Lock(@, f.node, access)]
  ELSE Fails(f.fs, "in use")

LEMMA OperationEnds ==
  ASSUME NEW fs, NEW l, NEW name, NEW access, NEW op, NEW refused
  PROVE  LET whole == name.slash \/ name.comps = <<>>
             w == Walk(fs, l, name)
             f == IF whole THEN w ELSE AtLast(w, Last(name.comps), op, refused)
         IN  node_operation(fs, l, name, access, op, refused)
               = Ending(f, whole, op.kind, access)
  <1> DEFINE whole == name.slash \/ name.comps = <<>>
             w == Walk(fs, l, name)
             f == IF whole THEN w ELSE AtLast(w, Last(name.comps), op, refused)
  <1>1. node_operation(fs, l, name, access, op, refused) =
          IF f.status # "ok" \/ f.err # "none" \/ (op.kind = "rename" /\ ~ whole) THEN f
          ELSE IF f.node = Nothing THEN Fails(f.fs, "not found")
          ELSE IF whole /\ op.kind # "lock" THEN Ends(f.fs, "assert")
          ELSE IF CanLock(f.fs, f.node, access) THEN [f EXCEPT !.fs = Lock(@, f.node, access)]
          ELSE Fails(f.fs, "in use")
    BY DEF node_operation
  <1> HIDE DEF f, whole
  <1>2. node_operation(fs, l, name, access, op, refused) = Ending(f, whole, op.kind, access)
    BY <1>1 DEF Ending
  <1> QED  BY <1>2 DEF f, whole

LEMMA EndingKeeps ==
  ASSUME NEW fs, NEW mv, NEW f, Found(fs, mv, f), NEW whole, NEW kind, NEW access,
         ~ (kind = "rename" /\ ~ whole)
  PROVE  Locked(fs, mv, access, Ending(f, whole, kind, access))
  <1> DEFINE r == Ending(f, whole, kind, access)
  <1>1. CASE f.status # "ok" \/ f.err # "none"
    <2>1. r = f /\ f.node = Nothing  BY <1>1 DEF Ending, Found
    <2>2. Locked(fs, mv, access, f)  BY <2>1, UnfoundIsLocked
    <2> HIDE DEF r
    <2>3. Locked(fs, mv, access, r)  BY <2>1, <2>2
    <2> QED  BY <2>3 DEF r
  <1>2. CASE f.status = "ok" /\ f.err = "none"
    <2>1. Good(f.fs, mv) /\ Extends(fs, f.fs)  BY <1>2 DEF Found
    <2>2. ASSUME NEW err, r = Fails(f.fs, err) PROVE Locked(fs, mv, access, r)
      <3>1. Found(fs, mv, Fails(f.fs, err))  BY <2>1, FailsIsFound
      <3> HIDE DEF r
      <3>2. Found(fs, mv, r) /\ r.node = Nothing  BY <2>2, <3>1 DEF Fails, Answer
      <3> QED  BY <3>2, UnfoundIsLocked
    <2>3. CASE f.node = Nothing \/ (~ (whole /\ kind # "lock") /\ ~ CanLock(f.fs, f.node, access))
      <3>1. r = Fails(f.fs, "not found") \/ r = Fails(f.fs, "in use")  BY <1>2, <2>3 DEF Ending
      <3> QED  BY <2>2, <3>1
    <2>4. CASE f.node # Nothing /\ whole /\ kind # "lock"
      <3>1. r = Ends(f.fs, "assert")  BY <1>2, <2>4 DEF Ending
      <3>2. Found(fs, mv, Ends(f.fs, "assert"))  BY EndsIsFound
      <3> HIDE DEF r
      <3>3. Found(fs, mv, r) /\ r.node = Nothing  BY <3>1, <3>2 DEF Ends
      <3>4. Locked(fs, mv, access, r)  BY <3>3, UnfoundIsLocked
      <3> QED  BY <3>4 DEF r
    <2>5. CASE f.node # Nothing /\ ~ (whole /\ kind # "lock") /\ CanLock(f.fs, f.node, access)
      <3> DEFINE g == f.fs
                 n == f.node
      <3>1. r = [f EXCEPT !.fs = Lock(f.fs, f.node, access)]  BY <1>2, <2>5 DEF Ending
      <3>2. f = [fs |-> f.fs, node |-> f.node, err |-> "none", status |-> "ok"]
            /\ f.node \in DOMAIN f.fs.nodes
        BY <1>2, <2>5 DEF Found
      <3> HIDE DEF r
      <3>3. r = [fs |-> Lock(g, n, access), node |-> n, err |-> "none", status |-> "ok"]
        BY <3>1, <3>2
      <3>4. r.fs = Lock(g, n, access) /\ r.node = n /\ r.err = "none" /\ r.status = "ok"
        BY <3>3
      <3>5. /\ Good(g, mv) /\ Extends(fs, g) /\ n \in DOMAIN g.nodes
            /\ CanLock(g, n, access) /\ n # Nothing
        BY <2>1, <2>5, <3>2
      <3> HIDE DEF g, n
      <3>6. Locked(fs, mv, access, r)  BY <3>3, <3>4, <3>5 DEF Locked
      <3> QED  BY <3>6 DEF r
    <2> QED  BY <2>3, <2>4, <2>5
  <1> QED  BY <1>1, <1>2

LEMMA OperationKeeps ==
  ASSUME NEW fs, NEW mv, Good(fs, mv), NEW l, LockKey(l) \in DOMAIN fs.nodes,
         NEW name, NameOk(name), NEW access, NEW op, op.kind \in {"lock", "file", "dir"},
         NEW refused
  PROVE  Locked(fs, mv, access, node_operation(fs, l, name, access, op, refused))
  <1> DEFINE whole == name.slash \/ name.comps = <<>>
             w == Walk(fs, l, name)
             f == IF whole THEN w ELSE AtLast(w, Last(name.comps), op, refused)
             kind == op.kind
  <1>1. node_operation(fs, l, name, access, op, refused) = Ending(f, whole, kind, access)
    BY OperationEnds
  <1>2. IsFs(fs) /\ kind # "rename"  BY DEF Good
  <1>3. Walked(fs, mv, w)  BY WalkKeeps
  <1>4. Found(fs, mv, f)
    <2>1. CASE whole  BY <1>3, <2>1, WalkedIsFound
    <2>2. CASE ~ whole
      <3>1. Last(name.comps) \in Parts  BY <2>2, FrontParts DEF NameOk
      <3>2. f = AtLast(w, Last(name.comps), op, refused)  BY <2>2
      <3> HIDE DEF w, f
      <3>3. Found(fs, mv, f)  BY <1>2, <1>3, <3>1, <3>2, AtLastKeeps
      <3> QED  BY <3>3 DEF f
    <2> QED  BY <2>1, <2>2
  <1> HIDE DEF f, whole, kind
  <1>5. Locked(fs, mv, access, Ending(f, whole, kind, access))  BY <1>2, <1>4, EndingKeeps
  <1> QED  BY <1>1, <1>5

-----------------------------------------------------------------------------
(* What a packet that erases a node leaves: e is the tree g it worked on,   *)
(* with n locked and the host changed.                                      *)
SameTree(e, g, n) ==
  /\ IsFs(e) /\ e.next = g.next /\ DOMAIN e.nodes = DOMAIN g.nodes
  /\ \A i \in DOMAIN g.nodes :
       /\ e.nodes[i].path = g.nodes[i].path /\ e.nodes[i].parent = g.nodes[i].parent
       /\ e.nodes[i].type = g.nodes[i].type /\ e.nodes[i].children = g.nodes[i].children
       /\ i # n => e.nodes[i].count = g.nodes[i].count

LEMMA SameTreeIs ==
  ASSUME NEW e, NEW g, NEW n, IsFs(g), SameTree(e, g, n), NEW mv, Linked(g)
  PROVE  Linked(e) /\ (Reached(g) => Reached(e)) /\ Kept(g, e)
  <1>1. \A i \in DOMAIN g.nodes : Kids(e, i) = Kids(g, i)  BY DEF SameTree, Kids
  <1>2. RootId \in DOMAIN g.nodes /\ g.next \in Nat  BY DEF IsFs
  <1>3. \A i \in DOMAIN g.nodes : \A c \in Kids(g, i) : c \in DOMAIN g.nodes  BY DEF Linked
  <1>4. DOMAIN e.nodes = DOMAIN g.nodes
        /\ \A i \in DOMAIN g.nodes :
              /\ e.nodes[i].path = g.nodes[i].path /\ e.nodes[i].parent = g.nodes[i].parent
              /\ e.nodes[i].children = g.nodes[i].children
    BY DEF SameTree
  <1>5. Linked(e)  BY <1>1, <1>2, <1>3, <1>4 DEF Linked
  <1>6. Reached(g) => Reached(e)  BY <1>1, <1>4 DEF Reached
  <1>7. Kept(g, e)
    <2>1. g.next <= e.next  BY <1>2 DEF SameTree
    <2> QED  BY <1>4, <2>1 DEF Kept
  <1> QED  BY <1>5, <1>6, <1>7

LEMMA ErasingKeeps ==
  ASSUME NEW fs, IsFs(fs), NEW g, NEW mv, Good(g, mv), Extends(fs, g),
         NEW n \in DOMAIN g.nodes \ {RootId}, g.nodes[n].count = 0,
         NEW hold, Matches(fs, hold),
         NEW e, SameTree(e, g, n), HostTree(e.host), ~ Exists(e, g.nodes[n].path),
         NEW mv2, mv => mv2,
         ~ mv2 =>
           /\ \A i \in DOMAIN g.nodes \ {n} : ~ IsPrefix(g.nodes[n].path, g.nodes[i].path)
           /\ \A i \in DOMAIN g.nodes \ {n, RootId} : Exists(e, g.nodes[i].path)
  PROVE  Good(Erase(e, n), mv2) /\ Matches(Erase(e, n), hold) /\ Kept(fs, Erase(e, n))
         /\ Erased(e, Erase(e, n), n)
  <1> DEFINE h == Erase(e, n)
  <1>1. IsFs(g) /\ Linked(g) /\ (~ mv => Known(g))  BY DEF Good
  <1>2. IsFs(e) /\ DOMAIN e.nodes = DOMAIN g.nodes
        /\ \A i \in DOMAIN g.nodes :
             e.nodes[i].path = g.nodes[i].path /\ (i # n => e.nodes[i].count = g.nodes[i].count)
    BY DEF SameTree
  <1>3. Linked(e) /\ (Reached(g) => Reached(e)) /\ Kept(g, e)  BY <1>1, SameTreeIs
  <1>4. Good(h, mv2)
    <2>1. ~ mv2 => Reached(e)  BY <1>1, <1>3 DEF Known
    <2>2. ~ mv2 =>
            /\ \A i \in DOMAIN e.nodes \ {n} : ~ IsPrefix(e.nodes[n].path, e.nodes[i].path)
            /\ \A i \in DOMAIN e.nodes \ {n, RootId} : Exists(e, e.nodes[i].path)
      BY <1>2
    <2>3. n \in DOMAIN e.nodes \ {RootId}  BY <1>2
    <2> HIDE DEF h
    <2>4. Good(Erase(e, n), mv2)  BY <1>2, <1>3, <2>1, <2>2, <2>3, EraseGood
    <2> QED  BY <2>4 DEF h
  <1>5. Erased(e, h, n)  BY <1>2, <1>3, EraseFields
  <1> HIDE DEF h
  <1>6. Matches(h, hold)
    <2>1. Matches(g, hold)  BY <1>1, MatchesExtends
    <2>2. DOMAIN h.nodes = DOMAIN g.nodes \ {n}
          /\ \A i \in DOMAIN h.nodes : h.nodes[i].count = g.nodes[i].count
      BY <1>2, <1>5 DEF Erased
    <2> QED  BY <1>1, <2>1, <2>2, MatchesWithout
  <1>7. Kept(fs, h)
    <2>1. Kept(fs, g) /\ DOMAIN fs.nodes \subseteq DOMAIN g.nodes
      BY <1>1, ExtendsKept DEF Extends
    <2>2. Kept(fs, e)  BY <1>1, <1>2, <1>3, <2>1, KeptTransitive
    <2>3. ~ Exists(e, e.nodes[n].path) /\ n \in DOMAIN e.nodes  BY <1>2
    <2>4. Kept(e, h)  BY <1>2, <1>3, <1>5, <2>3, ErasedKept
    <2>5. IsFs(h) /\ e.host = h.host  BY <1>5 DEF Erased
    <2> QED  BY <1>2, <2>2, <2>4, <2>5, KeptTransitive
  <1> QED  BY <1>4, <1>5, <1>6, <1>7 DEF h

(* What is below a directory of the host goes through an entry of it. *)
LEMMA EmptyIsLast ==
  ASSUME NEW fs, HostTree(fs.host), NEW p \in Paths, Entries(fs, p) = {},
         NEW q \in Paths, Below(p, q)
  PROVE  ~ Exists(fs, q)
  <1> SUFFICES ASSUME Exists(fs, q) PROVE FALSE  OBVIOUS
  <1>1. PICK n \in Names : Append(p, n) \in Paths /\ IsPrefix(Append(p, n), q)
    BY EntryOnTheWay
  <1> DEFINE a == Append(p, n)
  <1>2. fs.host[q] # "none"  BY DEF Exists
  <1>3. fs.host[a] # "none"
    <2>1. CASE a = q  BY <1>2, <2>1
    <2>2. CASE a # q
      <3>1. Below(a, q)  BY <1>1, <2>2 DEF Below, IsStrictPrefix
      <3>2. fs.host[a] = "dir"  BY <1>1, <1>2, <3>1 DEF HostTree
      <3> QED  BY <3>2
    <2> QED  BY <2>1, <2>2
  <1>4. n \in Entries(fs, p)  BY <1>1, <1>3 DEF Entries, Exists
  <1> QED  BY <1>4

(* What a packet leaves that succeeds. *)
Left(fs, mv, hold, r) ==
  r.status = "ok" => Good(r.fs, mv) /\ Matches(r.fs, hold) /\ Kept(fs, r.fs)

LEMMA LeftExtended ==
  ASSUME NEW fs, IsFs(fs), NEW mv, NEW hold, Matches(fs, hold), NEW r,
         r.status = "ok" => Good(r.fs, mv) /\ Extends(fs, r.fs)
  PROVE  Left(fs, mv, hold, r)
  <1> SUFFICES ASSUME r.status = "ok"
               PROVE  Good(r.fs, mv) /\ Matches(r.fs, hold) /\ Kept(fs, r.fs)
    BY DEF Left
  <1>1. IsFs(r.fs)  BY DEF Good
  <1> QED  BY <1>1, MatchesExtends, ExtendsKept

LEMMA CountsGood ==
  ASSUME NEW fs, NEW mv, Good(fs, mv), NEW n \in DOMAIN fs.nodes, NEW access
  PROVE  /\ Good(Lock(fs, n, access), mv) /\ Good(Unlock(fs, n, access), mv)
         /\ SameTree(Lock(fs, n, access), fs, n) /\ SameTree(Unlock(fs, n, access), fs, n)
         /\ Lock(fs, n, access).host = fs.host /\ Unlock(fs, n, access).host = fs.host
  <1> DEFINE a == Lock(fs, n, access)
             b == Unlock(fs, n, access)
  <1>1. IsFs(fs)  BY DEF Good
  <1>2. /\ a = Recount(fs, n, LockCount(fs, n, access))
        /\ b = Recount(fs, n, UnlockCount(fs, n, access))
        /\ LockCount(fs, n, access) \in Int /\ UnlockCount(fs, n, access) \in Int
        /\ Recounted(fs, a, n, LockCount(fs, n, access))
        /\ Recounted(fs, b, n, UnlockCount(fs, n, access))
    BY <1>1, LockIsRecount
  <1>3. Good(a, mv) /\ Good(b, mv)  BY <1>2, RecountGood
  <1> HIDE DEF a, b
  <1>4. SameTree(a, fs, n) /\ a.host = fs.host  BY <1>2 DEF Recounted, SameTree
  <1>5. SameTree(b, fs, n) /\ b.host = fs.host  BY <1>2 DEF Recounted, SameTree
  <1> QED  BY <1>3, <1>4, <1>5 DEF a, b

Refused(fs, mv, r) ==
  /\ r = [fs |-> r.fs, node |-> r.node, err |-> r.err, status |-> r.status]
  /\ r.status = "ok" => r.err # "none" /\ Good(r.fs, mv) /\ Extends(fs, r.fs)

(* What a packet locked for itself is given back. *)
LEMMA ReleasedKeeps ==
  ASSUME NEW fs, NEW mv, Good(fs, mv), NEW access \in Access, NEW r, NEW g,
         Good(g, mv), Extends(fs, g), r.node \in DOMAIN g.nodes,
         CanLock(g, r.node, access), r.fs = Lock(g, r.node, access),
         NEW after, Refused(r.fs, mv, after)
  PROVE  LET s == Released(r, after, access) IN
         s.status = "ok" => Good(s.fs, mv) /\ Extends(fs, s.fs)
  <1> DEFINE s == Released(r, after, access)
             n == r.node
             w == after.fs
  <1>0. /\ after = [fs |-> after.fs, node |-> after.node, err |-> after.err,
                    status |-> after.status]
        /\ after.status = "ok" =>
             after.err # "none" /\ Good(after.fs, mv) /\ Extends(r.fs, after.fs)
    BY DEF Refused
  <1>1. CASE after.status = "ok"
    <2>1. s = [after EXCEPT !.fs = Unlock(w, n, access)]  BY <1>0, <1>1 DEF Released
    <2> HIDE DEF s
    <2>2. s.fs = Unlock(w, n, access)
      <3> HIDE DEF w, n
      <3>1. s = [fs |-> Unlock(w, n, access), node |-> after.node, err |-> after.err,
                 status |-> after.status]
        BY <1>0, <2>1
      <3> QED  BY <3>1
    <2>3. IsFs(g) /\ IsFs(w) /\ IsFs(fs) /\ Good(w, mv)  BY <1>0, <1>1 DEF Good
    <2>4. n \in DOMAIN g.nodes /\ CanLock(g, n, access) /\ Extends(Lock(g, n, access), w)
      BY <1>0, <1>1
    <2> HIDE DEF w, n
    <2>5. n \in DOMAIN w.nodes /\ Extends(g, Unlock(w, n, access))
      BY <2>3, <2>4, UnlockExtends
    <2>6. Good(Unlock(w, n, access), mv)  BY <2>3, <2>5, CountsGood
    <2>7. Extends(fs, Unlock(w, n, access))
      <3>1. IsFs(Unlock(w, n, access))  BY <2>6 DEF Good
      <3> QED  BY <2>3, <2>5, <3>1, ExtendsTransitive
    <2>8. s.status = "ok" => Good(s.fs, mv) /\ Extends(fs, s.fs)  BY <2>2, <2>6, <2>7
    <2> QED  BY <2>8 DEF s
  <1>2. CASE after.status # "ok"
    <2>1. s = after  BY <1>2 DEF Released
    <2> QED  BY <1>2, <2>1
  <1> QED  BY <1>1, <1>2

(* The host's entry goes. *)
LEMMA HostWithout ==
  ASSUME NEW fs, IsFs(fs), HostTree(fs.host), NEW p \in Paths, Entries(fs, p) = {}
  PROVE  LET g == HostWith(fs, p, "none") IN
         /\ IsFs(g) /\ g.nodes = fs.nodes /\ g.next = fs.next
         /\ HostTree(g.host) /\ ~ Exists(g, p)
         /\ \A q \in Paths : q # p /\ Exists(fs, q) => Exists(g, q)
  <1> DEFINE h == [fs.host EXCEPT ![p] = "none"]
             g == HostWith(fs, p, "none")
  <1>1. fs.host \in [Paths -> Kinds]  BY DEF IsFs
  <1>2. h \in [Paths -> Kinds] /\ h[p] = "none" /\ \A q \in Paths : q # p => h[q] = fs.host[q]
    BY <1>1 DEF Kinds
  <1>3. g = [fs EXCEPT !.host = h]  BY DEF HostWith
  <1> HIDE DEF g, h
  <1>4. g = [host |-> h, nodes |-> fs.nodes, next |-> fs.next] /\ IsFs(g)
    BY <1>2, <1>3, HostFields
  <1>5. g.host = h /\ g.nodes = fs.nodes /\ g.next = fs.next  BY <1>4
  <1>6. HostTree(h)
    <2> SUFFICES ASSUME NEW q \in Paths, NEW s \in Paths, Below(s, q), h[q] # "none"
                 PROVE  h[s] = "dir"
      BY DEF HostTree
    <2>1. q # p /\ fs.host[q] # "none"  BY <1>2
    <2>2. Exists(fs, q)  BY <2>1 DEF Exists
    <2>3. s # p  BY <2>2, EmptyIsLast
    <2>4. fs.host[s] = "dir"  BY <2>1 DEF HostTree
    <2> QED  BY <1>2, <2>3, <2>4
  <1>7. ~ Exists(g, p) /\ \A q \in Paths : q # p /\ Exists(fs, q) => Exists(g, q)
    BY <1>2, <1>5 DEF Exists
  <1> QED  BY <1>4, <1>5, <1>6, <1>7 DEF g

LEMMA DeleteKeeps ==
  ASSUME NEW fs, NEW mv, Good(fs, mv), NEW hold, Matches(fs, hold),
         NEW r, Locked(fs, mv, "exclusive", r), r.node # Nothing, NEW refused
  PROVE  Left(fs, mv, hold, Released(r, delete_node(r.fs, r.node, refused), "exclusive"))
  <1>1. PICK g : /\ Good(g, mv) /\ Extends(fs, g) /\ r.node \in DOMAIN g.nodes
                 /\ CanLock(g, r.node, "exclusive") /\ r.fs = Lock(g, r.node, "exclusive")
    BY DEF Locked
  <1> DEFINE n == r.node
             l == r.fs
             p == l.nodes[n].path
             d == delete_node(l, n, refused)
             s == Released(r, d, "exclusive")
  <1>2. IsFs(fs) /\ IsFs(g) /\ Linked(g) /\ HostTree(g.host) /\ (~ mv => Known(g))
    BY <1>1 DEF Good
  <1>3. Good(l, mv) /\ SameTree(l, g, n) /\ l.host = g.host  BY <1>1, CountsGood
  <1>4. IsFs(l)  BY <1>3 DEF Good
  <1>5. p = g.nodes[n].path /\ p \in Paths  BY <1>1, <1>2, <1>3, NodeFields DEF SameTree
  <1>6. CASE refused \/ ~ Removable(l, p)
    <2>1. d = Fails(l, "host")  BY <1>6 DEF delete_node
    <2>2. d = [fs |-> l, node |-> Nothing, err |-> "host", status |-> "ok"]
      BY <2>1 DEF Fails, Answer
    <2>3. "exclusive" \in Access  BY DEF Access
    <2> HIDE DEF d, l
    <2>4. d.fs = l /\ d.node = Nothing /\ d.err = "host" /\ d.status = "ok"  BY <2>2
    <2>5. d = [fs |-> d.fs, node |-> d.node, err |-> d.err, status |-> d.status]
      BY <2>2, <2>4
    <2>6. Good(d.fs, mv) /\ Extends(l, d.fs)  BY <1>3, <1>4, <2>4, ExtendsSelf
    <2>9. Refused(r.fs, mv, d)  BY <2>4, <2>5, <2>6 DEF Refused, l
    <2>7. s.status = "ok" => Good(s.fs, mv) /\ Extends(fs, s.fs)
      BY <1>1, <2>3, <2>9, ReleasedKeeps DEF l
    <2> HIDE DEF s
    <2>8. Left(fs, mv, hold, s)  BY <1>2, <2>7, LeftExtended
    <2> QED  BY <2>8 DEF s, d, l
  <1>7. CASE ~ (refused \/ ~ Removable(l, p)) /\ (n = RootId \/ Dangling(l, n))
    <2>1. d = Ends(l, "undefined")  BY <1>7 DEF delete_node
    <2>2. s = d /\ d.status = "undefined"  BY <2>1 DEF Ends, Released
    <2> QED  BY <2>2 DEF Left
  <1>8. CASE ~ (refused \/ ~ Removable(l, p)) /\ n # RootId /\ ~ Dangling(l, n)
    <2> DEFINE e == HostWith(l, p, "none")
               h == Erase(e, n)
    <2>1. d = Answer(h, Nothing, "none")  BY <1>8 DEF delete_node, HostWith
    <2>2. d = [fs |-> h, node |-> Nothing, err |-> "none", status |-> "ok"]  BY <2>1 DEF Answer
    <2>3. s = d /\ d.fs = h
      <3> HIDE DEF h
      <3>1. d.fs = h /\ d.err = "none"  BY <2>2
      <3> QED  BY <3>1 DEF Released
    <2>4. Entries(l, p) = {}  BY <1>8 DEF Removable
    <2>5. HostTree(l.host)  BY <1>3 DEF Good
    <2>6. /\ IsFs(e) /\ e.nodes = l.nodes /\ e.next = l.next
          /\ HostTree(e.host) /\ ~ Exists(e, p)
          /\ \A q \in Paths : q # p /\ Exists(l, q) => Exists(e, q)
      BY <1>4, <1>5, <2>4, <2>5, HostWithout
    <2>7. n \in DOMAIN g.nodes \ {RootId}  BY <1>1, <1>8
    <2>8. g.nodes[n].count = 0  BY <1>1 DEF CanLock
    <2> HIDE DEF l, p, e, n
    <2>9. SameTree(e, g, n)  BY <1>3, <2>6 DEF SameTree
    <2>10. ~ Exists(e, g.nodes[n].path)  BY <1>5, <2>6
    <2>11. ASSUME ~ mv
           PROVE  /\ \A i \in DOMAIN g.nodes \ {n} : ~ IsPrefix(g.nodes[n].path, g.nodes[i].path)
                  /\ \A i \in DOMAIN g.nodes \ {n, RootId} : Exists(e, g.nodes[i].path)
      <3>1. Known(g)  BY <1>2, <2>11
      <3>2. ASSUME NEW i \in DOMAIN g.nodes \ {n}
            PROVE  g.nodes[i].path # p /\ g.nodes[i].path \in Paths
        BY <1>2, <1>5, <2>7, <3>1, NodeFields DEF Known, Reached
      <3>3. \A q : Exists(l, q) <=> Exists(g, q)  BY <1>3 DEF Exists
      <3>4. ASSUME NEW i \in DOMAIN g.nodes \ {n, RootId} PROVE Exists(l, g.nodes[i].path)
        BY <3>1, <3>3 DEF Known
      <3>5. ASSUME NEW i \in DOMAIN g.nodes \ {n} PROVE ~ IsPrefix(p, g.nodes[i].path)
        <4> SUFFICES ASSUME IsPrefix(p, g.nodes[i].path) PROVE FALSE  OBVIOUS
        <4>1. CASE i # RootId
          <5>1. Below(p, g.nodes[i].path)  BY <3>2 DEF Below, IsStrictPrefix
          <5> QED  BY <1>5, <2>4, <2>5, <3>2, <3>4, <4>1, <5>1, EmptyIsLast
        <4>2. CASE i = RootId
          <5> DEFINE x == g.nodes[i].path
          <5>1. x = <<>>  BY <1>2, <4>2 DEF Linked
          <5>2. Len(x) = 0  BY <5>1, RootPath
          <5>3. p \in Seq(Parts) /\ x \in Seq(Parts) /\ Len(p) \in Nat /\ p # x
            BY <1>5, <3>2, PathsAreParts
          <5> HIDE DEF x
          <5>4. Len(x) <= Len(p)  BY <5>2, <5>3
          <5>5. IsPrefix(p, x)  BY DEF x
          <5> QED  BY <5>3, <5>4, <5>5, PrefixOrder
        <4> QED  BY <4>1, <4>2
      <3>6. \A i \in DOMAIN g.nodes \ {n, RootId} : Exists(e, g.nodes[i].path)
        BY <2>6, <3>2, <3>4
      <3> QED  BY <1>5, <3>5, <3>6
    <2>12. Good(h, mv) /\ Matches(h, hold) /\ Kept(fs, h)
      BY <1>1, <1>2, <2>6, <2>7, <2>8, <2>9, <2>10, <2>11, ErasingKeeps
    <2> HIDE DEF h, d, s
    <2>13. Left(fs, mv, hold, s)  BY <2>3, <2>12 DEF Left
    <2> QED  BY <2>13 DEF s, d, l, n
  <1> QED  BY <1>6, <1>7, <1>8

-----------------------------------------------------------------------------
(* What a rename makes of the host: Old is where what is at x was.          *)
Old(a, t, x) == a \o SubSeq(x, Len(t) + 1, Len(x))

LEMMA OldIs ==
  ASSUME NEW a \in Seq(Parts), NEW t \in Seq(Parts), NEW x \in Seq(Parts), IsPrefix(t, x)
  PROVE  /\ Old(a, t, x) \in Seq(Parts) /\ Len(Old(a, t, x)) = Len(a) + (Len(x) - Len(t))
         /\ \A i \in 1 .. Len(a) : Old(a, t, x)[i] = a[i]
         /\ \A i \in 1 .. Len(x) - Len(t) : Old(a, t, x)[Len(a) + i] = x[Len(t) + i]
  <1> DEFINE m == Len(t)
             k == Len(x)
             n == Len(a)
             s == SubSeq(x, m + 1, k)
             o == Old(a, t, x)
  <1>1. m \in Nat /\ k \in Nat /\ n \in Nat /\ m <= k  BY LenProperties, PrefixIs
  <1>2. m + 1 \in Int /\ k \in Int /\ \A i \in m + 1 .. k : x[i] \in Parts
    <2>1. \A i \in m + 1 .. k : i \in 1 .. k  BY <1>1
    <2> QED  BY <1>1, <2>1, ElementOfSeq
  <1>3. o = a \o s  BY DEF Old
  <1>9. \A i \in 1 .. k - m : i \in 1 .. k - (m + 1) + 1 /\ m + 1 + i - 1 = m + i  BY <1>1
  <1> HIDE DEF m, k, o
  <1>4. /\ s \in Seq(Parts) /\ Len(s) = IF m + 1 <= k THEN k - (m + 1) + 1 ELSE 0
        /\ \A i \in 1 .. k - (m + 1) + 1 : s[i] = x[m + 1 + i - 1]
    BY <1>2, SubSeqProperties
  <1> HIDE DEF s
  <1>5. Len(s) = k - m  BY <1>1, <1>4
  <1>6. \A i \in 1 .. k - m : s[i] = x[m + i]  BY <1>4, <1>9
  <1>7. /\ o \in Seq(Parts) /\ Len(o) = n + Len(s)
        /\ \A i \in 1 .. n + Len(s) : o[i] = IF i <= n THEN a[i] ELSE s[i - n]
    BY <1>3, <1>4, ConcatProperties
  <1> HIDE DEF n
  <1>8. Len(o) = n + (k - m)  BY <1>5, <1>7
  <1>10. \A i \in 1 .. n : o[i] = a[i]
    <2>1. \A i \in 1 .. n : i \in 1 .. n + Len(s) /\ i <= n  BY <1>1, <1>5
    <2> QED  BY <1>7, <2>1
  <1>11. \A i \in 1 .. k - m : o[n + i] = x[m + i]
    <2> SUFFICES ASSUME NEW i \in 1 .. k - m PROVE o[n + i] = x[m + i]  OBVIOUS
    <2> DEFINE j == n + i
    <2>1. j \in 1 .. n + Len(s) /\ ~ (j <= n) /\ j - n = i  BY <1>1, <1>5
    <2> HIDE DEF j
    <2>2. o[j] = s[i]  BY <1>7, <2>1
    <2>3. o[j] = x[m + i]  BY <1>6, <2>2
    <2> QED  BY <2>3 DEF j
  <1> QED  BY <1>7, <1>8, <1>10, <1>11 DEF m, k, n, o

LEMMA OldKeepsOrder ==
  ASSUME NEW a \in Seq(Parts), NEW t \in Seq(Parts), NEW x \in Seq(Parts), NEW y \in Seq(Parts),
         IsPrefix(t, x), IsPrefix(x, y)
  PROVE  /\ IsPrefix(Old(a, t, x), Old(a, t, y))
         /\ x # y => Old(a, t, x) # Old(a, t, y)
  <1> DEFINE m == Len(t)
             k == Len(x)
             l == Len(y)
             n == Len(a)
             o == Old(a, t, x)
             u == Old(a, t, y)
  <1>0. IsPrefix(t, y)  BY PrefixOrder
  <1>1. m \in Nat /\ k \in Nat /\ l \in Nat /\ n \in Nat /\ m <= k /\ k <= l
        /\ \A i \in 1 .. k : x[i] = y[i]
    BY LenProperties, PrefixIs
  <1>2. /\ o \in Seq(Parts) /\ Len(o) = n + (k - m)
        /\ \A i \in 1 .. n : o[i] = a[i]
        /\ \A i \in 1 .. k - m : o[n + i] = x[m + i]
    BY OldIs
  <1>3. /\ u \in Seq(Parts) /\ Len(u) = n + (l - m)
        /\ \A i \in 1 .. n : u[i] = a[i]
        /\ \A i \in 1 .. l - m : u[n + i] = y[m + i]
    BY <1>0, OldIs
  <1>4. x # y => k # l  BY <1>1, PathEqual
  <1> HIDE DEF m, k, l, n, o, u
  <1>5. Len(o) <= Len(u)  BY <1>1, <1>2, <1>3
  <1>6. \A i \in 1 .. Len(o) : o[i] = u[i]
    <2> SUFFICES ASSUME NEW i \in 1 .. Len(o) PROVE o[i] = u[i]  OBVIOUS
    <2>1. CASE i <= n
      <3>1. i \in 1 .. n  BY <1>1, <1>2, <2>1
      <3> QED  BY <1>2, <1>3, <3>1
    <2>2. CASE ~ (i <= n)
      <3> DEFINE j == i - n
      <3>1. j \in 1 .. k - m /\ j \in 1 .. l - m /\ n + j = i /\ m + j \in 1 .. k
        BY <1>1, <1>2, <2>2
      <3> HIDE DEF j
      <3>2. o[n + j] = x[m + j] /\ u[n + j] = y[m + j] /\ x[m + j] = y[m + j]
        BY <1>1, <1>2, <1>3, <3>1
      <3> QED  BY <3>1, <3>2
    <2> QED  BY <2>1, <2>2
  <1>7. IsPrefix(o, u)  BY <1>2, <1>3, <1>5, <1>6, PrefixIs
  <1>8. x # y => o # u  BY <1>1, <1>2, <1>3, <1>4
  <1> QED  BY <1>7, <1>8 DEF o, u

LEMMA MovedIs ==
  ASSUME NEW h \in [Paths -> Kinds], HostTree(h), NEW from \in Paths, NEW to \in Paths,
         to # <<>>, ~ IsPrefix(from, to), h[Front(to)] = "dir", h[to] = "none",
         h[from] # "none"
  PROVE  LET M == Moved(h, from, to) IN
         /\ M \in [Paths -> Kinds] /\ HostTree(M) /\ M[from] = "none" /\ M[to] # "none"
         /\ \A q \in Paths : h[q] # "none" /\ ~ IsPrefix(from, q) => M[q] # "none"
  <1> DEFINE M == Moved(h, from, to)
  <1>1. \A q \in Paths : h[q] \in Kinds  OBVIOUS
  <1>2. M \in [Paths -> Kinds]
        /\ \A q \in Paths :
             M[q] = IF IsPrefix(to, q)
                    THEN IF Old(from, to, q) \in Paths THEN h[Old(from, to, q)] ELSE "none"
                    ELSE IF IsPrefix(from, q) THEN "none" ELSE h[q]
    BY DEF Moved, Old, Kinds
  <1>3. \A q \in Paths : q \in Seq(Parts) /\ Len(q) \in Nat  BY PathsAreParts
  <1>4. ASSUME NEW q \in Paths, h[q] # "none" PROVE ~ IsPrefix(to, q)
    <2>1. q # to  BY <1>4
    <2> QED  BY <1>4, <2>1 DEF HostTree, Below, IsStrictPrefix
  <1> HIDE DEF M
  <1>5. M[from] = "none"
    <2>1. IsPrefix(from, from)  BY <1>3, PrefixOrder
    <2> QED  BY <1>2, <1>4, <2>1
  <1>6. M[to] # "none"
    <2> DEFINE o == Old(from, to, to)
    <2>1. IsPrefix(to, to)  BY <1>3, PrefixOrder
    <2>2. /\ o \in Seq(Parts) /\ Len(o) = Len(from) + (Len(to) - Len(to))
          /\ \A i \in 1 .. Len(from) : o[i] = from[i]
      BY <1>3, <2>1, OldIs
    <2> HIDE DEF o
    <2>3. Len(o) = Len(from)  BY <1>3, <2>2
    <2>4. o = from  BY <1>3, <2>2, <2>3, PathEqual
    <2> QED  BY <1>2, <2>1, <2>4 DEF o
  <1>7. \A q \in Paths : h[q] # "none" /\ ~ IsPrefix(from, q) => M[q] # "none"
    BY <1>2, <1>4
  <1>8. HostTree(M)
    <2> SUFFICES ASSUME NEW q \in Paths, NEW s \in Paths, Below(s, q), M[q] # "none"
                 PROVE  M[s] = "dir"
      BY DEF HostTree
    <2>1. IsPrefix(s, q) /\ s # q  BY DEF Below, IsStrictPrefix
    <2>2. CASE IsPrefix(to, q) /\ IsPrefix(to, s)
      <3> DEFINE os == Old(from, to, s)
                 oq == Old(from, to, q)
      <3>1. oq \in Paths /\ h[oq] # "none"  BY <1>2, <2>2
      <3>2. IsPrefix(os, oq) /\ os # oq  BY <1>3, <2>1, <2>2, OldKeepsOrder
      <3>3. os \in Seq(Parts)  BY <1>3, <2>2, OldIs
      <3>4. M[s] = IF os \in Paths THEN h[os] ELSE "none"  BY <1>2, <2>2
      <3> HIDE DEF os, oq
      <3>5. os \in Paths /\ Below(os, oq)  BY <3>1, <3>2, <3>3, PrefixPath DEF Below, IsStrictPrefix
      <3>6. h[os] = "dir"  BY <3>1, <3>5 DEF HostTree
      <3> QED  BY <3>4, <3>5, <3>6
    <2>3. CASE IsPrefix(to, q) /\ ~ IsPrefix(to, s)
      <3>1. IsPrefix(s, to)  BY <1>3, <2>1, <2>3, PrefixOrder
      <3>2. s # to
        <4>1. IsPrefix(to, to)  BY <1>3, PrefixOrder
        <4> QED  BY <2>3, <4>1
      <3> DEFINE f == Front(to)
                 e == Last(to)
      <3>3. f \in Paths /\ e \in Parts /\ to = Append(f, e)  BY PathIsEntry DEF Parts
      <3>4. h[f] = "dir"  OBVIOUS
      <3> HIDE DEF f, e
      <3>5. IsPrefix(s, f)  BY <1>3, <3>1, <3>2, <3>3, PrefixOfEntry
      <3>6. h[s] = "dir"
        <4>1. CASE s = f  BY <3>4, <4>1
        <4>2. CASE s # f  BY <3>3, <3>4, <3>5, <4>2 DEF HostTree, Below, IsStrictPrefix
        <4> QED  BY <4>1, <4>2
      <3>7. ~ IsPrefix(from, s)
        <4> SUFFICES ASSUME IsPrefix(from, s) PROVE FALSE  OBVIOUS
        <4>1. IsPrefix(from, to)  BY <1>3, <3>1, PrefixOrder
        <4> QED  BY <4>1
      <3> QED  BY <1>2, <2>3, <3>6, <3>7
    <2>4. CASE ~ IsPrefix(to, q)
      <3>1. ~ IsPrefix(from, q) /\ h[q] # "none"  BY <1>2, <2>4
      <3>2. ~ IsPrefix(to, s)
        <4> SUFFICES ASSUME IsPrefix(to, s) PROVE FALSE  OBVIOUS
        <4>1. IsPrefix(to, q)  BY <1>3, <2>1, PrefixOrder
        <4> QED  BY <2>4, <4>1
      <3>3. ~ IsPrefix(from, s)
        <4> SUFFICES ASSUME IsPrefix(from, s) PROVE FALSE  OBVIOUS
        <4>1. IsPrefix(from, q)  BY <1>3, <2>1, PrefixOrder
        <4> QED  BY <3>1, <4>1
      <3>4. h[s] = "dir"  BY <3>1 DEF HostTree
      <3> QED  BY <1>2, <3>2, <3>3, <3>4
    <2> QED  BY <2>2, <2>3, <2>4
  <1> QED  BY <1>2, <1>5, <1>6, <1>7, <1>8 DEF M

-----------------------------------------------------------------------------
(* A rename: node n of w goes to name in dir.                               *)
HostMoved(w, from, to) == [w EXCEPT !.host = Moved(@, from, to)]

Renames(e, mv, n, w, dir, name, r) ==
  LET from == w.nodes[n].path
      to == Append(w.nodes[dir].path, name)
  IN  /\ Good(w, mv) /\ Extends(e, w) /\ dir \in DOMAIN w.nodes \ {n} /\ name \in Parts
      /\ Named(w, dir, name) = {} /\ Renamable(w, from, to) /\ ~ Dangling(w, n)
      /\ \/ w.nodes[n].children = e.nodes[n].children
         \/ IsPrefix(from, w.nodes[dir].path)
      /\ r = Answer(make_node(Erase(HostMoved(w, from, to), n), dir, to, w.nodes[n].type),
                    Nothing, "none")

LEMMA FailsIsRefused ==
  ASSUME NEW fs, NEW mv, NEW g, Good(g, mv), Extends(fs, g), NEW err, err # "none"
  PROVE  Refused(fs, mv, Fails(g, err))
  <1> DEFINE r == Fails(g, err)
  <1>1. r = [fs |-> g, node |-> Nothing, err |-> err, status |-> "ok"]  BY DEF Fails, Answer
  <1> HIDE DEF r
  <1>2. r.fs = g /\ r.node = Nothing /\ r.err = err /\ r.status = "ok"  BY <1>1
  <1>3. Refused(fs, mv, r)  BY <1>1, <1>2 DEF Refused
  <1> QED  BY <1>3 DEF r

LEMMA EndsIsRefused ==
  ASSUME NEW fs, NEW mv, NEW g, NEW how, how # "ok"
  PROVE  Refused(fs, mv, Ends(g, how))
  <1> DEFINE r == Ends(g, how)
  <1>1. r = [fs |-> g, node |-> Nothing, err |-> "none", status |-> how]  BY DEF Ends
  <1> HIDE DEF r
  <1>2. r.fs = g /\ r.node = Nothing /\ r.err = "none" /\ r.status = how  BY <1>1
  <1>3. Refused(fs, mv, r)  BY <1>1, <1>2 DEF Refused
  <1> QED  BY <1>3 DEF r

LEMMA RenameFrom ==
  ASSUME NEW e, NEW mv, NEW w, Good(w, mv), Extends(e, w), NEW n \in DOMAIN e.nodes,
         NEW dir \in DOMAIN w.nodes, NEW name \in Parts, Named(w, dir, name) = {},
         \/ w.nodes[n].children = e.nodes[n].children
         \/ IsPrefix(w.nodes[n].path, w.nodes[dir].path)
  PROVE  LET r == rename(w, n, dir, name) IN
         Refused(e, mv, r) \/ Renames(e, mv, n, w, dir, name, r)
  <1> DEFINE r == rename(w, n, dir, name)
             from == w.nodes[n].path
             to == Append(w.nodes[dir].path, name)
             type == w.nodes[n].type
             left == Erase(HostMoved(w, from, to), n)
  <1>1. r = IF ~ Renamable(w, from, to) THEN Fails(w, "host")
            ELSE IF Dangling(w, n) THEN Ends(w, "undefined")
            ELSE IF dir \notin DOMAIN left.nodes THEN Ends(w, "undefined")
            ELSE Answer(make_node(left, dir, to, type), Nothing, "none")
    BY DEF rename, HostMoved
  <1>2. DOMAIN left.nodes = DOMAIN w.nodes \ {n}
    <2> DEFINE h == Moved(w.host, from, to)
               m == HostMoved(w, from, to)
    <2>1. w = [host |-> w.host, nodes |-> w.nodes, next |-> w.next]  BY DEF Good, IsFs
    <2>2. m = [w EXCEPT !.host = h]  BY DEF HostMoved
    <2> HIDE DEF m, h
    <2>3. m = [host |-> h, nodes |-> w.nodes, next |-> w.next]  BY <2>1, <2>2
    <2>4. left = Erase(m, n)  BY DEF m
    <2>5. m.nodes = w.nodes  BY <2>3
    <2> HIDE DEF left
    <2>6. DOMAIN left.nodes = DOMAIN m.nodes \ {n}
      <3> DEFINE at == m.nodes
                 M == [i \in DOMAIN at \ {n} |->
                        IF i = at[n].parent THEN [at[i] EXCEPT !.children = Forget(@, n)]
                        ELSE at[i]]
      <3>1. left = [m EXCEPT !.nodes = M]  BY <2>4 DEF Erase
      <3>2. DOMAIN M = DOMAIN m.nodes \ {n}  OBVIOUS
      <3> HIDE DEF M, at
      <3>3. left = [host |-> h, nodes |-> M, next |-> w.next]  BY <2>3, <3>1
      <3> QED  BY <3>2, <3>3
    <2> QED  BY <2>5, <2>6
  <1>3. CASE ~ Renamable(w, from, to)
    <2>1. r = Fails(w, "host")  BY <1>1, <1>3
    <2>2. Refused(e, mv, Fails(w, "host"))  BY FailsIsRefused
    <2> HIDE DEF r
    <2>3. Refused(e, mv, r)  BY <2>1, <2>2
    <2> QED  BY <2>3 DEF r
  <1>4. CASE Renamable(w, from, to) /\ (Dangling(w, n) \/ dir = n)
    <2>1. r = Ends(w, "undefined")  BY <1>1, <1>2, <1>4
    <2>2. Refused(e, mv, Ends(w, "undefined"))  BY EndsIsRefused
    <2> HIDE DEF r
    <2>3. Refused(e, mv, r)  BY <2>1, <2>2
    <2> QED  BY <2>3 DEF r
  <1>5. CASE Renamable(w, from, to) /\ ~ Dangling(w, n) /\ dir # n
    <2>1. r = Answer(make_node(left, dir, to, type), Nothing, "none")  BY <1>1, <1>2, <1>5
    <2> HIDE DEF r
    <2>2. Renames(e, mv, n, w, dir, name, r)  BY <1>5, <2>1 DEF Renames
    <2> QED  BY <2>2 DEF r
  <1> QED  BY <1>3, <1>4, <1>5

LEMMA RenameAtLast ==
  ASSUME NEW e, NEW mv, Good(e, mv), NEW n \in DOMAIN e.nodes,
         NEW r, Walked(e, mv, r), OnTheWay(e, r), NEW name \in Parts, NEW refused
  PROVE  LET a == AtLast(r, name, RenameOf(n), refused) IN
         Refused(e, mv, a) \/ \E w, dir : Renames(e, mv, n, w, dir, name, a)
  <1> DEFINE a == AtLast(r, name, RenameOf(n), refused)
             dir == r.node
             f == find_in_node(r.fs, dir, name)
  <1>0. Good(r.fs, mv) /\ Extends(e, r.fs)  BY DEF Walked
  <1>1. CASE dir = Nothing
    <2>1. a = [r EXCEPT !.err = "not found"]  BY <1>1 DEF AtLast
    <2>2. r = [fs |-> r.fs, node |-> r.node, err |-> r.err, status |-> r.status]
      BY DEF Walked
    <2> HIDE DEF a
    <2>3. a = [fs |-> r.fs, node |-> r.node, err |-> "not found", status |-> r.status]
      BY <2>1, <2>2
    <2>4. a.fs = r.fs /\ a.node = Nothing /\ a.err = "not found" /\ a.status = r.status
      BY <1>1, <2>3
    <2>5. Refused(e, mv, a)  BY <1>0, <1>1, <2>3, <2>4 DEF Refused
    <2> QED  BY <2>5 DEF a
  <1>2. CASE dir # Nothing /\ ~ IsDirNode(r.fs, dir)
    <2>1. a = Fails(r.fs, "wrong type")  BY <1>2 DEF AtLast
    <2>2. Refused(e, mv, Fails(r.fs, "wrong type"))  BY <1>0, FailsIsRefused
    <2> HIDE DEF a
    <2>3. Refused(e, mv, a)  BY <2>1, <2>2
    <2> QED  BY <2>3 DEF a
  <1>3. CASE dir # Nothing /\ IsDirNode(r.fs, dir)
    <2>0. dir \in DOMAIN r.fs.nodes  BY <1>3 DEF Walked
    <2>2. Finds(r.fs, mv, f, dir, name)  BY <1>0, <2>0, FindKeeps
    <2>3. a = IF Taken(f.node) THEN Fails(f.fs, "exists") ELSE rename(f.fs, n, dir, name)
      BY <1>3 DEF AtLast, RenameOf
    <2> HIDE DEF a, f
    <2>4. CASE Taken(f.node)
      <3>1. Good(f.fs, mv) /\ Extends(r.fs, f.fs)  BY <2>2 DEF Finds
      <3>2. Extends(e, f.fs)
        <4>1. IsFs(e) /\ IsFs(r.fs) /\ IsFs(f.fs)  BY <1>0, <3>1 DEF Good
        <4> QED  BY <1>0, <3>1, <4>1, ExtendsTransitive
      <3>3. Refused(e, mv, Fails(f.fs, "exists"))  BY <3>1, <3>2, FailsIsRefused
      <3>4. Refused(e, mv, a)  BY <2>3, <2>4, <3>3
      <3> QED  BY <3>4 DEF a
    <2>5. CASE ~ Taken(f.node)
      <3> DEFINE w == r.fs
      <3>1. f.fs = w /\ (name = Dots \/ Named(w, dir, name) = {})  BY <2>2, <2>5 DEF Finds, Taken
      <3>2. a = rename(w, n, dir, name)  BY <2>3, <2>5, <3>1
      <3>3. \/ w.nodes[n].children = e.nodes[n].children
            \/ IsPrefix(w.nodes[n].path, w.nodes[dir].path)
        <4>1. w.nodes[n].path = e.nodes[n].path  BY <1>0 DEF Extends
        <4> QED  BY <1>3, <4>1 DEF OnTheWay
      <3>4. CASE Named(w, dir, name) = {}
        <4>1. Good(w, mv) /\ Extends(e, w) /\ dir \in DOMAIN w.nodes  BY <1>0, <2>0
        <4> HIDE DEF w, dir
        <4>2. Refused(e, mv, a) \/ Renames(e, mv, n, w, dir, name, a)
          BY <3>2, <3>3, <3>4, <4>1, RenameFrom
        <4> QED  BY <4>2 DEF a
      <3>5. CASE name = Dots
        <4> DEFINE d == w.nodes[dir].path
                   to == Append(d, name)
        <4>1. IsFs(w)  BY <1>0 DEF Good
        <4>2. d \in Paths  BY <2>0, <4>1, NodeFields
        <4>3. Last(to) = Dots  BY <3>5, <4>2, AppendPath
        <4>4. ~ Renamable(w, w.nodes[n].path, to)  BY <4>3 DEF Renamable
        <4>5. a = Fails(w, "host")  BY <3>2, <4>4 DEF rename
        <4>6. Refused(e, mv, Fails(w, "host"))  BY <1>0, FailsIsRefused
        <4>7. Refused(e, mv, a)  BY <4>5, <4>6
        <4> QED  BY <4>7 DEF a
      <3> QED  BY <3>1, <3>4, <3>5
    <2> QED  BY <2>4, <2>5
  <1> QED  BY <1>1, <1>2, <1>3

LEMMA RenameOperation ==
  ASSUME NEW e, NEW mv, Good(e, mv), NEW n \in DOMAIN e.nodes,
         NEW l, LockKey(l) \in DOMAIN e.nodes, NEW name, NameOk(name)
  PROVE  LET r == node_operation(e, l, name, "shared", RenameOf(n), FALSE) IN
         \/ Refused(e, mv, r)
         \/ \E w, dir, last : Renames(e, mv, n, w, dir, last, r)
  <1> DEFINE whole == name.slash \/ name.comps = <<>>
             op == RenameOf(n)
             v == Walk(e, l, name)
             f == IF whole THEN v ELSE AtLast(v, Last(name.comps), op, FALSE)
             r == node_operation(e, l, name, "shared", op, FALSE)
             kind == op.kind
  <1>1. r = Ending(f, whole, kind, "shared")  BY OperationEnds
  <1>2. kind = "rename"  BY DEF RenameOf
  <1>3. Walked(e, mv, v) /\ OnTheWay(e, v)  BY WalkKeeps
  <1>4. CASE ~ whole
    <2> DEFINE last == Last(name.comps)
    <2>1. last \in Parts  BY <1>4, FrontParts DEF NameOk
    <2>2. r = AtLast(v, last, op, FALSE)
      <3>1. f = AtLast(v, last, op, FALSE)  BY <1>4
      <3> HIDE DEF f, whole, kind
      <3> QED  BY <1>1, <1>2, <1>4, <3>1 DEF Ending
    <2> HIDE DEF r, last, v
    <2>3. LET a == AtLast(v, last, op, FALSE) IN
          Refused(e, mv, a) \/ \E w, dir : Renames(e, mv, n, w, dir, last, a)
      BY <1>3, <2>1, RenameAtLast
    <2>4. Refused(e, mv, r) \/ \E w, dir : Renames(e, mv, n, w, dir, last, r)
      BY <2>2, <2>3
    <2> QED  BY <2>4 DEF r
  <1>5. CASE whole
    <2>1. f = v  BY <1>5
    <2> HIDE DEF f, whole, v, kind
    <2>2. CASE v.status # "ok" \/ v.err # "none"
      <3>1. r = v  BY <1>1, <2>1, <2>2 DEF Ending
      <3>2. Refused(e, mv, v)  BY <1>3, <2>2 DEF Refused, Walked
      <3> QED  BY <3>1, <3>2
    <2>3. CASE v.status = "ok" /\ v.err = "none"
      <3>1. r = Fails(v.fs, "not found") \/ r = Ends(v.fs, "assert")
        BY <1>1, <1>2, <1>5, <2>1, <2>3 DEF Ending
      <3>2. Good(v.fs, mv) /\ Extends(e, v.fs)  BY <1>3 DEF Walked
      <3>3. Refused(e, mv, Fails(v.fs, "not found")) /\ Refused(e, mv, Ends(v.fs, "assert"))
        BY <3>2, FailsIsRefused, EndsIsRefused
      <3> HIDE DEF r
      <3>4. Refused(e, mv, r)  BY <3>1, <3>3
      <3> QED  BY <3>4 DEF r
    <2> QED  BY <2>2, <2>3
  <1> QED  BY <1>4, <1>5

LEMMA GoodMoved ==
  ASSUME NEW fs, NEW mv, NEW mv2, Good(fs, mv), mv => mv2
  PROVE  Good(fs, mv2)
  BY DEF Good

LEMMA RootIsPrefix == \A p \in Paths : IsPrefix(<<>>, p)
  <1> SUFFICES ASSUME NEW p \in Paths PROVE IsPrefix(<<>>, p)  OBVIOUS
  <1> DEFINE x == <<>>
  <1>1. x \in Seq(Parts) /\ Len(x) = 0 /\ p \in Seq(Parts) /\ Len(p) \in Nat
    BY RootPath, PathsAreParts
  <1> HIDE DEF x
  <1>2. Len(x) <= Len(p) /\ \A i \in 1 .. Len(x) : x[i] = p[i]  BY <1>1
  <1>3. IsPrefix(x, p)  BY <1>1, <1>2, PrefixIs
  <1> QED  BY <1>3 DEF x

(* A node without children is the last on its path. *)
LEMMA LeafIsLast ==
  ASSUME NEW fs, IsFs(fs), Linked(fs), Reached(fs), NEW n \in DOMAIN fs.nodes,
         fs.nodes[n].children = <<>>, NEW i \in DOMAIN fs.nodes \ {n}
  PROVE  ~ IsPrefix(fs.nodes[n].path, fs.nodes[i].path)
  <1> DEFINE p == fs.nodes[n].path
             q == fs.nodes[i].path
  <1> SUFFICES ASSUME IsPrefix(p, q) PROVE FALSE  OBVIOUS
  <1>1. p \in Paths /\ q \in Paths  BY NodeFields
  <1>2. p # q  BY DEF Reached
  <1>3. Below(p, q)  BY <1>2 DEF Below, IsStrictPrefix
  <1> HIDE DEF p, q
  <1>4. PICK m \in Names : Append(p, m) \in Paths /\ IsPrefix(Append(p, m), q)
    BY <1>1, <1>3, EntryOnTheWay
  <1> DEFINE a == Append(p, m)
  <1>5. a # <<>> /\ Front(a) = p  BY <1>1, AppendPath DEF Parts
  <1>6. a \in Paths /\ IsPrefix(a, fs.nodes[i].path)  BY <1>4 DEF q
  <1> HIDE DEF a
  <1>7. PICK k \in DOMAIN fs.nodes : fs.nodes[k].path = a  BY <1>6 DEF Reached
  <1>8. k # RootId  BY <1>5, <1>7 DEF Linked
  <1> DEFINE up == fs.nodes[k].parent
  <1>9. up \in DOMAIN fs.nodes /\ k \in Kids(fs, up)  BY <1>7, <1>8 DEF Reached
  <1>10. fs.nodes[up].path = p  BY <1>5, <1>7, <1>9 DEF Linked
  <1>11. up = n  BY <1>9, <1>10 DEF Reached, p
  <1>12. k \in ToSet(fs.nodes[n].children)  BY <1>9, <1>11 DEF Kids
  <1>13. ToSet(<<>>) = {}
    <2> DEFINE x == <<>>
    <2>1. x \in Seq(Nat) /\ Len(x) = 0  BY EmptySeq
    <2> HIDE DEF x
    <2>2. DOMAIN x = 1 .. 0  BY <2>1, SeqNat
    <2>3. DOMAIN x = {}  BY <2>2
    <2>4. ToSet(x) = {}  BY <2>3 DEF ToSet
    <2> QED  BY <2>4 DEF x
  <1> QED  BY <1>12, <1>13

MayMove(h, from, to) ==
  /\ to \in Paths /\ to # <<>> /\ ~ IsPrefix(from, to) /\ h[Front(to)] = "dir"
  /\ h[to] = "none" /\ h[from] # "none" /\ from # <<>>

LEMMA RenamableIs ==
  ASSUME NEW w, IsFs(w), HostTree(w.host), NEW from \in Paths, NEW d \in Paths,
         NEW name \in Parts, NEW to \in Seq(Parts), to = Append(d, name),
         Renamable(w, from, to)
  PROVE  MayMove(w.host, from, to)
  <1>1. /\ Exists(w, from) /\ IsDir(w, Front(to)) /\ ~ Exists(w, to)
        /\ ~ IsPrefix(from, to) /\ Last(to) # Dots
        /\ \A q \in Paths : (IsPrefix(from, q) /\ Exists(w, q)) =>
                            Len(to) + Len(q) - Len(from) <= MaxDepth
    BY DEF Renamable
  <1>2. /\ to # <<>> /\ Len(to) = Len(d) + 1 /\ Last(to) = name /\ Front(to) = d
        /\ (name \in Names /\ Len(d) + 1 <= MaxDepth => to \in Paths)
    BY AppendPath
  <1>3. name \in Names  BY <1>1, <1>2 DEF Parts
  <1>4. from \in Seq(Parts) /\ Len(from) \in Nat /\ Len(d) \in Nat /\ MaxDepth \in Nat
    BY PathsAreParts, VolumesAssumption
  <1>5. IsPrefix(from, from)  BY <1>4, PrefixOrder
  <1>6. Len(to) + Len(from) - Len(from) <= MaxDepth  BY <1>1, <1>5
  <1>7. Len(d) + 1 <= MaxDepth  BY <1>2, <1>4, <1>6
  <1>8. to \in Paths  BY <1>2, <1>3, <1>7
  <1>9. w.host[to] = "none" /\ w.host[from] # "none" /\ w.host[Front(to)] = "dir"
    BY <1>1, <1>8 DEF Exists, IsDir
  <1>10. from # <<>>  BY <1>1, <1>8, RootIsPrefix
  <1> QED  BY <1>1, <1>2, <1>8, <1>9, <1>10 DEF MayMove

(* The node that comes, in the tree that the erased one left. *)
LEMMA MakingKeeps ==
  ASSUME NEW fs, IsFs(fs), NEW mv, NEW hold, NEW e, NEW left, NEW n \in DOMAIN e.nodes,
         IsFs(e), Linked(e), Erased(e, left, n), Good(left, mv), Matches(left, hold),
         Kept(fs, left), NEW dir \in DOMAIN e.nodes \ {n}, NEW name \in Parts,
         NEW to \in Paths, to = Append(e.nodes[dir].path, name), Named(e, dir, name) = {},
         Exists(e, to), NEW type \in Kinds
  PROVE  LET g == make_node(left, dir, to, type) IN
         Good(g, mv) /\ Matches(g, hold) /\ Kept(fs, g)
  <1> DEFINE g == make_node(left, dir, to, type)
  <1>1. /\ IsFs(left) /\ left.host = e.host /\ dir \in DOMAIN left.nodes
        /\ DOMAIN left.nodes = DOMAIN e.nodes \ {n}
        /\ \A i \in DOMAIN left.nodes : left.nodes[i].path = e.nodes[i].path
    BY DEF Erased
  <1>2. Kids(left, dir) \subseteq Kids(e, dir)
    <2>1. left.nodes[dir].children = IF dir = e.nodes[n].parent
                                     THEN Forget(e.nodes[dir].children, n)
                                     ELSE e.nodes[dir].children
      BY DEF Erased
    <2>2. e.nodes[dir].children \in Seq(Nat) /\ IsInjective(e.nodes[dir].children)
      BY NodeFields DEF Linked
    <2>3. ToSet(Forget(e.nodes[dir].children, n)) = ToSet(e.nodes[dir].children) \ {n}
      BY <2>2, ForgetKeeps
    <2> QED  BY <2>1, <2>3 DEF Kids
  <1>3. Named(left, dir, name) = {}
    <2> SUFFICES ASSUME NEW c \in Named(left, dir, name) PROVE FALSE  OBVIOUS
    <2>1. c \in Kids(left, dir) /\ Last(left.nodes[c].path) = name  BY DEF Named, Kids
    <2>2. c \in DOMAIN left.nodes  BY <1>1, <2>1 DEF Good, Linked
    <2>3. c \in Kids(e, dir) /\ Last(e.nodes[c].path) = name  BY <1>1, <1>2, <2>1, <2>2
    <2>4. c \in Named(e, dir, name)  BY <2>3 DEF Named, Kids
    <2> QED  BY <2>4
  <1>4. to = Append(left.nodes[dir].path, name)  BY <1>1
  <1>5. Exists(left, to)  BY <1>1 DEF Exists
  <1>6. Good(g, mv) /\ Extends(left, g)  BY <1>1, <1>3, <1>4, <1>5, MakeGood
  <1>7. Made(left, g, dir, to)  BY <1>1, MakeFields
  <1> HIDE DEF g
  <1>8. IsFs(g) /\ g.host = left.host  BY <1>7 DEF Made
  <1>9. Matches(g, hold)  BY <1>1, <1>6, <1>8, MatchesExtends
  <1>10. Kept(left, g)  BY <1>1, <1>6, <1>8, ExtendsKept
  <1>11. Kept(fs, g)  BY <1>1, <1>8, <1>10, KeptTransitive
  <1> QED  BY <1>6, <1>9, <1>11 DEF g

(* moved, when the node n goes. *)
Notes(mv, fs, n, mv2) == (mv => mv2) /\ (fs.nodes[n].children # <<>> => mv2)

LEMMA RenameKeeps ==
  ASSUME NEW fs, NEW mv, Good(fs, mv), NEW hold, Matches(fs, hold),
         NEW r, Locked(fs, mv, "exclusive", r), r.node # Nothing,
         NEW w, NEW dir, NEW name, NEW r2, Renames(r.fs, mv, r.node, w, dir, name, r2),
         NEW mv2, Notes(mv, r.fs, r.node, mv2)
  PROVE  r2.status = "ok" /\ r2.err = "none"
         /\ Good(r2.fs, mv2) /\ Matches(r2.fs, hold) /\ Kept(fs, r2.fs)
  <1>0. r.fs.nodes[r.node].children # <<>> => mv2  BY DEF Notes
  <1>0a. mv => mv2  BY DEF Notes
  <1>1. PICK b : /\ Good(b, mv) /\ Extends(fs, b) /\ r.node \in DOMAIN b.nodes
                 /\ CanLock(b, r.node, "exclusive") /\ r.fs = Lock(b, r.node, "exclusive")
    BY DEF Locked
  <1> DEFINE n == r.node
             l == r.fs
             from == w.nodes[n].path
             d == w.nodes[dir].path
             to == Append(d, name)
             type == w.nodes[n].type
             h == Moved(w.host, from, to)
             e == HostMoved(w, from, to)
             g == Unlock(w, n, "exclusive")
             left == Erase(e, n)
             made == make_node(left, dir, to, type)
  <1>2. /\ Good(w, mv) /\ Extends(l, w) /\ dir \in DOMAIN w.nodes \ {n} /\ name \in Parts
        /\ Named(w, dir, name) = {} /\ Renamable(w, from, to)
        /\ w.nodes[n].children = l.nodes[n].children \/ IsPrefix(from, d)
        /\ r2 = Answer(made, Nothing, "none")
    BY DEF Renames
  <1>3. IsFs(fs) /\ IsFs(b) /\ IsFs(w) /\ HostTree(w.host)  BY <1>1, <1>2 DEF Good
  <1>4. n \in DOMAIN w.nodes /\ Extends(b, g)
    <2>1. Extends(Lock(b, n, "exclusive"), w) /\ "exclusive" \in Access  BY <1>1, <1>2 DEF Access
    <2> QED  BY <1>1, <1>3, <2>1, UnlockExtends
  <1>5. Good(g, mv) /\ SameTree(g, w, n) /\ g.host = w.host  BY <1>2, <1>4, CountsGood
  <1>6. IsFs(g) /\ Linked(g) /\ (~ mv => Known(g))  BY <1>5 DEF Good
  <1>7. Extends(fs, g)  BY <1>1, <1>3, <1>4, <1>6, ExtendsTransitive
  <1>8. g.nodes[n].count = 0
    <2>1. Recounted(w, g, n, UnlockCount(w, n, "exclusive"))  BY <1>3, <1>4, LockIsRecount
    <2>2. UnlockCount(w, n, "exclusive") = 0  BY DEF UnlockCount
    <2> HIDE DEF g
    <2> QED  BY <1>4, <2>1, <2>2 DEF Recounted
  <1>9. from \in Paths /\ d \in Paths /\ type \in Kinds  BY <1>2, <1>3, <1>4, NodeFields
  <1>10. r2.fs = made /\ r2.status = "ok" /\ r2.err = "none"
    <2> HIDE DEF made
    <2> QED  BY <1>2 DEF Answer
  <1>11. to = Append(d, name)  OBVIOUS
  <1>12. e = [w EXCEPT !.host = h]  BY DEF HostMoved
  <1> HIDE DEF from, to, d, h, e, g
  <1>13. /\ to \in Paths /\ to # <<>> /\ ~ IsPrefix(from, to) /\ w.host[Front(to)] = "dir"
         /\ w.host[to] = "none" /\ w.host[from] # "none" /\ from # <<>>
    <2>1. to \in Seq(Parts)  BY <1>2, <1>9, <1>11, AppendPath
    <2>2. IsFs(w) /\ HostTree(w.host) /\ from \in Paths /\ d \in Paths /\ name \in Parts
          /\ to = Append(d, name) /\ Renamable(w, from, to)
      BY <1>2, <1>3, <1>9, <1>11
    <2>3. MayMove(w.host, from, to)  BY ONLY <2>1, <2>2, RenamableIs
    <2> QED  BY <2>3 DEF MayMove
  <1>14. /\ h \in [Paths -> Kinds] /\ HostTree(h) /\ h[from] = "none" /\ h[to] # "none"
         /\ \A q \in Paths : w.host[q] # "none" /\ ~ IsPrefix(from, q) => h[q] # "none"
    <2>1. w.host \in [Paths -> Kinds]  BY <1>3 DEF IsFs
    <2> DEFINE H == w.host
    <2>2. h = Moved(H, from, to)  BY DEF h
    <2>3. /\ H \in [Paths -> Kinds] /\ HostTree(H) /\ H[Front(to)] = "dir"
          /\ H[to] = "none" /\ H[from] # "none"
      BY <1>3, <1>13, <2>1
    <2> HIDE DEF H
    <2>4. LET M == Moved(H, from, to) IN
          /\ M \in [Paths -> Kinds] /\ HostTree(M) /\ M[from] = "none" /\ M[to] # "none"
          /\ \A q \in Paths : H[q] # "none" /\ ~ IsPrefix(from, q) => M[q] # "none"
      BY <1>9, <1>13, <2>3, MovedIs
    <2> QED  BY <2>2, <2>4 DEF H
  <1>15. e = [host |-> h, nodes |-> w.nodes, next |-> w.next] /\ IsFs(e)
    BY <1>3, <1>12, <1>14, HostFields
  <1>16. e.host = h /\ e.nodes = w.nodes /\ e.next = w.next  BY <1>15
  <1>17. SameTree(e, g, n)
    <2>1. /\ e.next = g.next /\ DOMAIN e.nodes = DOMAIN g.nodes
          /\ \A i \in DOMAIN g.nodes :
               /\ e.nodes[i].path = g.nodes[i].path /\ e.nodes[i].parent = g.nodes[i].parent
               /\ e.nodes[i].type = g.nodes[i].type /\ e.nodes[i].children = g.nodes[i].children
               /\ i # n => e.nodes[i].count = g.nodes[i].count
      BY <1>5, <1>16 DEF SameTree
    <2> QED  BY <1>15, <2>1 DEF SameTree
  <1>18. n \in DOMAIN g.nodes \ {RootId}
    <2>1. n \in DOMAIN g.nodes  BY <1>4, <1>5 DEF SameTree
    <2>2. n # RootId  BY <1>2, <1>13 DEF Good, Linked, from
    <2> QED  BY <2>1, <2>2
  <1>19. g.nodes[n].path = from /\ g.nodes[n].children = w.nodes[n].children
    BY <1>4, <1>5 DEF SameTree, from
  <1>20. ~ Exists(e, g.nodes[n].path)  BY <1>14, <1>16, <1>19 DEF Exists
  <1>21. ASSUME ~ mv2
         PROVE  /\ \A i \in DOMAIN g.nodes \ {n} : ~ IsPrefix(g.nodes[n].path, g.nodes[i].path)
                /\ \A i \in DOMAIN g.nodes \ {n, RootId} : Exists(e, g.nodes[i].path)
    <2>1. ~ mv /\ l.nodes[n].children = <<>>  BY <1>0, <1>0a, <1>21
    <2>2. ~ IsPrefix(from, d)  BY <1>9, <1>11, <1>13, <1>2, PathsAreParts, PrefixOfEntry
    <2>3. g.nodes[n].children = <<>>  BY <1>2, <1>19, <2>1, <2>2
    <2>4. Known(g)  BY <1>6, <2>1
    <2>5. \A i \in DOMAIN g.nodes \ {n} : ~ IsPrefix(from, g.nodes[i].path)
      BY <1>6, <1>18, <1>19, <2>3, <2>4, LeafIsLast DEF Known
    <2>6. ASSUME NEW i \in DOMAIN g.nodes \ {n, RootId} PROVE Exists(e, g.nodes[i].path)
      <3> DEFINE q == g.nodes[i].path
      <3>1. Exists(g, q)  BY <2>4, <2>6 DEF Known
      <3>2. q \in Paths /\ w.host[q] # "none"  BY <1>5, <3>1 DEF Exists
      <3>3. ~ IsPrefix(from, q)  BY <2>5, <2>6
      <3> HIDE DEF q
      <3>4. Exists(e, q)  BY <1>14, <1>16, <3>2, <3>3 DEF Exists
      <3> QED  BY <3>4 DEF q
    <2> QED  BY <1>19, <2>5, <2>6
  <1>22. HostTree(e.host)  BY <1>14, <1>16
  <1> HIDE DEF n, l
  <1>23. Good(left, mv2) /\ Matches(left, hold) /\ Kept(fs, left) /\ Erased(e, left, n)
    BY <1>0a, <1>3, <1>5, <1>7, <1>8, <1>17, <1>18, <1>20, <1>21, <1>22, ErasingKeeps
  <1>24. Linked(e)  BY <1>6, <1>17, SameTreeIs
  <1>25. dir \in DOMAIN e.nodes \ {n} /\ n \in DOMAIN e.nodes /\ Named(e, dir, name) = {}
         /\ to = Append(e.nodes[dir].path, name) /\ Exists(e, to)
    BY <1>2, <1>4, <1>11, <1>13, <1>14, <1>16 DEF Named, Exists, d
  <1> HIDE DEF left, type, made
  <1>26. LET m == make_node(left, dir, to, type) IN
         Good(m, mv2) /\ Matches(m, hold) /\ Kept(fs, m)
    <2>1. /\ IsFs(fs) /\ IsFs(e) /\ Linked(e) /\ Erased(e, left, n) /\ Good(left, mv2)
          /\ Matches(left, hold) /\ Kept(fs, left) /\ n \in DOMAIN e.nodes
          /\ dir \in DOMAIN e.nodes \ {n} /\ name \in Parts /\ to \in Paths
          /\ to = Append(e.nodes[dir].path, name) /\ Named(e, dir, name) = {}
          /\ Exists(e, to) /\ type \in Kinds
      BY <1>2, <1>3, <1>9, <1>13, <1>15, <1>23, <1>24, <1>25
    <2> QED  BY ONLY <2>1, MakingKeeps
  <1> QED  BY <1>10, <1>26 DEF made

-----------------------------------------------------------------------------
(* The scan.                                                                *)
IsScan(sc) ==
  /\ sc = [lock |-> sc.lock, last |-> sc.last, owed |-> sc.owed, cut |-> sc.cut,
           missed |-> sc.missed]
  /\ sc.last \in Nat /\ sc.owed \subseteq Names /\ sc.cut \in BOOLEAN /\ sc.missed = {}

(* What it is still owed comes behind the entry it stands at, unless that   *)
(* one is gone.                                                             *)
Ahead(fs, dir, last, owed) ==
  \A n \in owed : \E y : Before(fs.nodes[dir].children, last, y) /\ Last(fs.nodes[y].path) = n

Standing(fs, dir, sc) ==
  /\ sc.last < fs.next
  /\ sc.cut => sc.last \notin DOMAIN fs.nodes
  /\ ~ sc.cut => Ahead(fs, dir, sc.last, sc.owed)

ScanOK(fs, ls, sc) ==
  /\ IsScan(sc)
  /\ sc.lock # Nothing =>
       /\ sc.lock \in Slots /\ ls[sc.lock].node \in DOMAIN fs.nodes
       /\ sc.last = Nothing => sc.owed = {} /\ ~ sc.cut
       /\ sc.last # Nothing => Standing(fs, ls[sc.lock].node, sc)

Followed(fs, ls, sc) ==
  IF sc.lock = Nothing THEN sc
  ELSE IF ls[sc.lock] = NoHold THEN [NoScan EXCEPT !.missed = sc.missed]
  ELSE [sc EXCEPT
          !.owed = {n \in @ : Exists(fs, Append(fs.nodes[ls[sc.lock].node].path, n))},
          !.cut = @ \/ (sc.last # Nothing /\ sc.last \notin DOMAIN fs.nodes)]

LEMMA NoScanOK ==
  ASSUME NEW fs, NEW ls
  PROVE  ScanOK(fs, ls, NoScan)
  BY DEF ScanOK, IsScan, NoScan, Nothing

LEMMA BeforeIsKid ==
  ASSUME NEW fs, NEW n \in DOMAIN fs.nodes, IsFs(fs), Linked(fs), NEW x, NEW y,
         Before(fs.nodes[n].children, x, y)
  PROVE  /\ x \in DOMAIN fs.nodes /\ x \in Kids(fs, n)
         /\ y \in DOMAIN fs.nodes /\ y \in Kids(fs, n)
  <1>1. x \in Kids(fs, n) /\ y \in Kids(fs, n)  BY DEF Before, Kids, ToSet
  <1> QED  BY <1>1 DEF Linked

LEMMA AheadKept ==
  ASSUME NEW f, NEW g, IsFs(f), Linked(f), IsFs(g), Kept(f, g),
         NEW dir \in DOMAIN f.nodes \cap DOMAIN g.nodes,
         NEW last \in DOMAIN g.nodes, last < f.next,
         NEW owed, Ahead(f, dir, last, owed),
         NEW left, left \subseteq owed,
         \A n \in left : Exists(g, Append(g.nodes[dir].path, n))
  PROVE  Ahead(g, dir, last, left)
  <1> SUFFICES ASSUME NEW n \in left
               PROVE  \E y : Before(g.nodes[dir].children, last, y) /\ Last(g.nodes[y].path) = n
    BY DEF Ahead
  <1>1. PICK y : Before(f.nodes[dir].children, last, y) /\ Last(f.nodes[y].path) = n
    BY DEF Ahead
  <1>2. last \in DOMAIN f.nodes /\ y \in DOMAIN f.nodes /\ y \in Kids(f, dir)
    BY <1>1, BeforeIsKid
  <1>3. f.nodes[y].path # <<>> /\ Front(f.nodes[y].path) = f.nodes[dir].path
    BY <1>2 DEF Linked
  <1>4. f.nodes[y].path \in Paths  BY <1>2, NodeFields
  <1>5. f.nodes[y].path = Append(f.nodes[dir].path, n)  BY <1>1, <1>3, <1>4, PathIsEntry
  <1>6. g.nodes[dir].path = f.nodes[dir].path  BY DEF Kept
  <1>7. Exists(g, f.nodes[y].path)  BY <1>5, <1>6
  <1>8. y \in DOMAIN g.nodes  BY <1>2, <1>7 DEF Kept
  <1>9. g.nodes[y].path = f.nodes[y].path  BY <1>2, <1>8 DEF Kept
  <1>10. Before(g.nodes[dir].children, last, y)  BY <1>1, <1>2, <1>8 DEF Kept
  <1> QED  BY <1>1, <1>9, <1>10

LEMMA FollowKeeps ==
  ASSUME NEW f, NEW g, IsFs(f), Linked(f), IsFs(g), Kept(f, g),
         NEW sc, NEW old, ScanOK(f, old, sc), NEW ls,
         sc.lock # Nothing => ls[sc.lock] = old[sc.lock] \/ ls[sc.lock] = NoHold,
         sc.lock # Nothing /\ ls[sc.lock] # NoHold => ls[sc.lock].node \in DOMAIN g.nodes
  PROVE  ScanOK(g, ls, Followed(g, ls, sc))
  <1> DEFINE s == Followed(g, ls, sc)
  <1>0. IsScan(sc)  BY DEF ScanOK
  <1>1. CASE sc.lock = Nothing
    <2>1. s = sc  BY <1>1 DEF Followed
    <2> HIDE DEF s
    <2>2. ScanOK(g, ls, s)  BY <1>0, <1>1, <2>1 DEF ScanOK
    <2> QED  BY <2>2 DEF s
  <1>2. CASE sc.lock # Nothing /\ ls[sc.lock] = NoHold
    <2>1. s = [NoScan EXCEPT !.missed = sc.missed]  BY <1>2 DEF Followed
    <2>2. sc.missed = {}  BY <1>0 DEF IsScan
    <2> HIDE DEF s
    <2>3. s = NoScan  BY <2>1, <2>2 DEF NoScan
    <2>4. ScanOK(g, ls, s)  BY <2>3, NoScanOK
    <2> QED  BY <2>4 DEF s
  <1>3. CASE sc.lock # Nothing /\ ls[sc.lock] # NoHold
    <2> DEFINE dir == ls[sc.lock].node
               left == {n \in sc.owed : Exists(g, Append(g.nodes[dir].path, n))}
               cut == sc.cut \/ (sc.last # Nothing /\ sc.last \notin DOMAIN g.nodes)
    <2>1. s = [sc EXCEPT !.owed = left, !.cut = cut]  BY <1>3 DEF Followed
    <2>2. /\ sc = [lock |-> sc.lock, last |-> sc.last, owed |-> sc.owed, cut |-> sc.cut,
                   missed |-> sc.missed]
          /\ sc.last \in Nat /\ sc.owed \subseteq Names /\ sc.cut \in BOOLEAN /\ sc.missed = {}
      BY <1>0 DEF IsScan
    <2>3. /\ sc.lock \in Slots /\ dir \in DOMAIN f.nodes /\ dir \in DOMAIN g.nodes
          /\ sc.last = Nothing => sc.owed = {} /\ ~ sc.cut
          /\ sc.last # Nothing => Standing(f, dir, sc)
      BY <1>3 DEF ScanOK
    <2>4. left \subseteq sc.owed /\ cut \in BOOLEAN
          /\ \A n \in left : Exists(g, Append(g.nodes[dir].path, n))
      BY <2>2
    <2>5. cut <=> sc.cut \/ (sc.last # Nothing /\ sc.last \notin DOMAIN g.nodes)  BY <2>2
    <2> HIDE DEF s, left, cut
    <2>6. s = [lock |-> sc.lock, last |-> sc.last, owed |-> left, cut |-> cut, missed |-> {}]
      BY <2>1, <2>2
    <2>7. s.lock = sc.lock /\ s.last = sc.last /\ s.owed = left /\ s.cut = cut /\ s.missed = {}
      BY <2>6
    <2>8. IsScan(s)  BY <2>2, <2>4, <2>6, <2>7 DEF IsScan
    <2>9. s.last = Nothing => s.owed = {} /\ ~ s.cut  BY <2>3, <2>4, <2>5, <2>7
    <2>10. ASSUME s.last # Nothing PROVE Standing(g, dir, s)
      <3>1. /\ sc.last < f.next
            /\ sc.cut => sc.last \notin DOMAIN f.nodes
            /\ ~ sc.cut => Ahead(f, dir, sc.last, sc.owed)
        BY <2>3, <2>7, <2>10 DEF Standing
      <3>2. f.next \in Nat /\ g.next \in Nat /\ f.next <= g.next  BY DEF IsFs, Kept
      <3>3. s.last < g.next  BY <2>2, <2>7, <3>1, <3>2
      <3>4. ASSUME s.cut PROVE s.last \notin DOMAIN g.nodes
        <4>1. CASE sc.last \notin DOMAIN g.nodes  BY <2>7, <4>1
        <4>2. CASE sc.cut
          <5>1. sc.last \notin DOMAIN f.nodes /\ ~ (sc.last >= f.next)
            BY <2>2, <3>1, <3>2, <4>2
          <5> QED  BY <2>7, <5>1 DEF Kept
        <4> QED  BY <2>5, <2>7, <3>4, <4>1, <4>2
      <3>5. ASSUME ~ s.cut PROVE Ahead(g, dir, s.last, s.owed)
        <4>1. ~ sc.cut /\ sc.last \in DOMAIN g.nodes  BY <2>5, <2>7, <2>10, <3>5
        <4>2. Ahead(f, dir, sc.last, sc.owed)  BY <3>1, <4>1
        <4> DEFINE last == sc.last
                   owed == sc.owed
        <4>3. /\ dir \in DOMAIN f.nodes \cap DOMAIN g.nodes /\ last \in DOMAIN g.nodes
              /\ last < f.next /\ Ahead(f, dir, last, owed) /\ left \subseteq owed
          BY <2>3, <2>4, <3>1, <4>1, <4>2
        <4> HIDE DEF dir, last, owed
        <4>4. Ahead(g, dir, last, left)  BY <2>4, <4>3, AheadKept
        <4> QED  BY <2>7, <4>4 DEF last
      <3> QED  BY <3>3, <3>4, <3>5 DEF Standing
    <2>11. ScanOK(g, ls, s)  BY <2>3, <2>7, <2>8, <2>9, <2>10 DEF ScanOK
    <2> QED  BY <2>11 DEF s
  <1> QED  BY <1>1, <1>2, <1>3

-----------------------------------------------------------------------------
(* find_next_node.                                                          *)
LEMMA LearnKeeps ==
  ASSUME NEW fs, NEW mv, Good(fs, mv), NEW dir \in DOMAIN fs.nodes,
         NEW order, Len(order) \in Nat,
         \A i \in 1 .. Len(order) :
           order[i] \in Names /\ Exists(fs, Append(fs.nodes[dir].path, order[i]))
  PROVE  LET g == Learn(fs, dir, order) IN
         /\ Good(g, mv) /\ Extends(fs, g) /\ g.host = fs.host
         /\ \A i \in 1 .. Len(order) : \E c \in Kids(g, dir) :
              g.nodes[c].path = Append(fs.nodes[dir].path, order[i])
  <1> DEFINE m == Len(order)
             p == fs.nodes[dir].path
             To(k, g) ==
               /\ Good(g, mv) /\ Extends(fs, g) /\ g.host = fs.host
               /\ \A i \in 1 .. k : \E c \in Kids(g, dir) : g.nodes[c].path = Append(p, order[i])
  <1>1. PICK f : /\ f[0] = fs
                 /\ \A i \in 1 .. m : f[i] = find_in_node(f[i - 1], dir, order[i]).fs
                 /\ Learn(fs, dir, order) = f[m]
    BY LearnIs
  <1>2. IsFs(fs) /\ Extends(fs, fs)  BY ExtendsSelf DEF Good
  <1>3. m \in Nat /\ \A i \in 1 .. m : order[i] \in Names /\ Exists(fs, Append(p, order[i]))
    OBVIOUS
  <1> HIDE DEF m, p
  <1> DEFINE T == {k \in Nat : k <= m => To(k, f[k])}
  <1>4. 0 \in T
    <2>1. \A i \in 1 .. 0 : FALSE  OBVIOUS
    <2> QED  BY <1>1, <1>2, <2>1
  <1>5. ASSUME NEW k \in Nat, k \in T PROVE k + 1 \in T
    <2> SUFFICES ASSUME k + 1 <= m PROVE To(k + 1, f[k + 1])
      OBVIOUS
    <2>1. k + 1 \in 1 .. m /\ k + 1 - 1 = k /\ k <= m  BY <1>3
    <2> DEFINE e == f[k]
               n == order[k + 1]
               a == find_in_node(e, dir, n)
               g == f[k + 1]
    <2>2. g = a.fs  BY <1>1, <2>1
    <2>3. n \in Names /\ Exists(fs, Append(p, n))  BY <1>3, <2>1
    <2>4. To(k, e)  BY <1>5, <2>1
    <2>5. dir \in DOMAIN e.nodes /\ e.nodes[dir].path = p /\ IsFs(e)
      BY <2>4 DEF Extends, p, Good
    <2>6. n \in Parts /\ n # Dots  BY <2>3, VolumesAssumption DEF Parts
    <2>7. Finds(e, mv, a, dir, n)  BY <2>4, <2>5, <2>6, FindKeeps
    <2>8. /\ Good(a.fs, mv) /\ Extends(e, a.fs) /\ a.fs.host = e.host
          /\ a.node = Nothing => n = Dots \/ ~ Exists(e, Append(p, n))
          /\ a.node # Nothing =>
               a.node \in Kids(a.fs, dir) /\ a.fs.nodes[a.node].path = Append(p, n)
      BY <2>5, <2>7 DEF Finds
    <2>9. Exists(e, Append(p, n))  BY <2>3, <2>4 DEF Exists
    <2>10. \E c \in Kids(g, dir) : g.nodes[c].path = Append(p, n)
      BY <2>2, <2>6, <2>8, <2>9
    <2> HIDE DEF e, g, a
    <2>11. Good(g, mv) /\ Extends(e, g) /\ g.host = fs.host /\ IsFs(g)
      BY <2>2, <2>4, <2>8 DEF Good
    <2>12. Extends(fs, g)  BY <1>2, <2>4, <2>5, <2>11, ExtendsTransitive
    <2>13. ASSUME NEW i \in 1 .. k + 1
           PROVE  \E c \in Kids(g, dir) : g.nodes[c].path = Append(p, order[i])
      <3>1. CASE i = k + 1  BY <2>10, <3>1
      <3>2. CASE i # k + 1
        <4>1. i \in 1 .. k  BY <3>2
        <4>2. PICK c \in Kids(e, dir) : e.nodes[c].path = Append(p, order[i])
          BY <2>4, <4>1
        <4>3. c \in DOMAIN e.nodes  BY <2>4, <2>5, <4>2 DEF Good, Linked
        <4>4. c \in Kids(g, dir)  BY <2>5, <2>11, <4>2, ExtendsKids
        <4>5. g.nodes[c].path = e.nodes[c].path  BY <2>11, <4>3 DEF Extends
        <4> QED  BY <4>2, <4>4, <4>5
      <3> QED  BY <3>1, <3>2
    <2>14. To(k + 1, g)  BY <2>11, <2>12, <2>13
    <2> QED  BY <2>14 DEF g
  <1> HIDE DEF T
  <1>6. m \in T  BY <1>3, <1>4, <1>5, SetInduction
  <1>7. m <= m  BY <1>3
  <1>8. To(m, Learn(fs, dir, order))  BY <1>1, <1>6, <1>7 DEF T
  <1> QED  BY <1>8 DEF m, p

LEMMA OrderIsWhole ==
  ASSUME NEW S, S \subseteq Names, NEW order \in Orders(S)
  PROVE  /\ Len(order) \in Nat /\ \A i \in 1 .. Len(order) : order[i] \in S
         /\ \A n \in S : \E i \in 1 .. Len(order) : order[i] = n
  <1> DEFINE m == Cardinality(S)
  <1>1. IsFiniteSet(S) /\ m \in Nat
    BY FS_Subset, FS_CardinalityType, VolumesAssumption
  <1>2. order \in [1 .. m -> S] /\ \A i, j \in 1 .. m : order[i] = order[j] => i = j
    BY DEF Orders
  <1> HIDE DEF m
  <1>3. order \in Injection(1 .. m, S)  BY <1>2 DEF Injection, IsInjective
  <1>4. IsFiniteSet(1 .. m) /\ Cardinality(1 .. m) = m  BY <1>1, FS_Interval
  <1>5. order \in Surjection(1 .. m, S)
    <2>1. Cardinality(1 .. m) = Cardinality(S)  BY <1>4 DEF m
    <2> QED  BY <1>1, <1>3, <2>1, FS_Injection
  <1>6. order \in Seq(S)  BY <1>1, <1>2, SeqDef
  <1>7. Len(order) \in Nat /\ DOMAIN order = 1 .. Len(order) /\ DOMAIN order = 1 .. m
    BY <1>2, <1>6, LenProperties
  <1>8. Len(order) = m
    <2> DEFINE k == Len(order)
    <2>1. k \in Nat /\ 1 .. k = 1 .. m  BY <1>7
    <2> HIDE DEF k
    <2>2. (k > 0 => k \in 1 .. m) /\ (m > 0 => m \in 1 .. k)  BY <1>1, <2>1
    <2>3. k = m  BY <1>1, <2>1, <2>2
    <2> QED  BY <2>3 DEF k
  <1> QED  BY <1>1, <1>2, <1>5, <1>8 DEF Surjection

LEMMA FirstReported ==
  ASSUME NEW g, IsFs(g), Linked(g), NEW dir \in DOMAIN g.nodes, NEW found,
         \A n \in found : \E c \in Kids(g, dir) : Last(g.nodes[c].path) = n
  PROVE  LET s == g.nodes[dir].children IN
         /\ s = <<>> => found = {}
         /\ s # <<>> => /\ Head(s) \in DOMAIN g.nodes
                        /\ Ahead(g, dir, Head(s), found \ {Last(g.nodes[Head(s)].path)})
  <1> DEFINE s == g.nodes[dir].children
  <1>1. s \in Seq(Nat)  BY NodeFields
  <1>2. Kids(g, dir) = ToSet(s) /\ \A c \in ToSet(s) : c \in DOMAIN g.nodes  BY DEF Kids, Linked
  <1> HIDE DEF s
  <1>3. DOMAIN s = 1 .. Len(s) /\ Len(s) \in Nat  BY <1>1, SeqNat
  <1>4. ASSUME s = <<>> PROVE found = {}
    <2>1. Len(s) = 0  BY <1>4, RootPath
    <2>2. DOMAIN s = {}  BY <1>3, <2>1
    <2>3. ToSet(s) = {}  BY <2>2 DEF ToSet
    <2> QED  BY <1>2, <2>3
  <1>5. ASSUME s # <<>>
        PROVE  /\ Head(s) \in DOMAIN g.nodes
               /\ Ahead(g, dir, Head(s), found \ {Last(g.nodes[Head(s)].path)})
    <2> DEFINE x == Head(s)
    <2>1. x = s[1] /\ 1 \in DOMAIN s
      <3>1. Len(s) > 0  BY <1>1, <1>5, SeqNat
      <3>2. 1 \in 1 .. Len(s)  BY <1>3, <3>1
      <3>3. Head(s) = s[1]  BY <1>1, <1>5
      <3> QED  BY <1>3, <3>2, <3>3
    <2> HIDE DEF x
    <2>2. x \in ToSet(s)  BY <2>1 DEF ToSet
    <2>3. Ahead(g, dir, x, found \ {Last(g.nodes[x].path)})
      <3> SUFFICES ASSUME NEW n \in found, n # Last(g.nodes[x].path)
                   PROVE  \E y : Before(s, x, y) /\ Last(g.nodes[y].path) = n
        BY DEF Ahead, s
      <3>1. PICK c \in ToSet(s) : Last(g.nodes[c].path) = n  BY <1>2
      <3>2. PICK j \in DOMAIN s : s[j] = c  BY DEF ToSet
      <3>3. j # 1  BY <2>1, <3>1, <3>2
      <3>4. 1 < j  BY <1>3, <3>2, <3>3
      <3>5. Before(s, x, c)  BY <2>1, <3>2, <3>4 DEF Before
      <3> QED  BY <3>1, <3>5
    <2> QED  BY <1>2, <2>2, <2>3 DEF x
  <1> QED  BY <1>4, <1>5 DEF s

LEMMA NextReported ==
  ASSUME NEW g, IsFs(g), Linked(g), NEW dir \in DOMAIN g.nodes, NEW last, NEW owed,
         Ahead(g, dir, last, owed)
  PROVE  LET s == g.nodes[dir].children IN
         /\ (\A i \in 2 .. Len(s) : s[i - 1] # last) => owed = {}
         /\ \A i \in 2 .. Len(s) : s[i - 1] = last =>
              /\ s[i] \in DOMAIN g.nodes /\ last \in DOMAIN g.nodes
              /\ Ahead(g, dir, s[i], owed \ {Last(g.nodes[s[i]].path)})
  <1> DEFINE s == g.nodes[dir].children
  <1>1. s \in Seq(Nat) /\ IsInjective(s)  BY NodeFields DEF Linked
  <1>2. \A c \in ToSet(s) : c \in DOMAIN g.nodes  BY DEF Kids, Linked
  <1>6. \A n \in owed : \E y : Before(s, last, y) /\ Last(g.nodes[y].path) = n  BY DEF Ahead
  <1> HIDE DEF s
  <1>3. DOMAIN s = 1 .. Len(s) /\ Len(s) \in Nat  BY <1>1, SeqNat
  <1>4. ASSUME \A i \in 2 .. Len(s) : s[i - 1] # last PROVE owed = {}
    <2> SUFFICES ASSUME NEW n \in owed PROVE FALSE  OBVIOUS
    <2>1. PICK y : Before(s, last, y)  BY <1>6
    <2>2. PICK i \in DOMAIN s, j \in DOMAIN s : i < j /\ s[i] = last  BY <2>1 DEF Before
    <2> DEFINE k == i + 1
    <2>3. k \in 2 .. Len(s) /\ k - 1 = i  BY <1>3, <2>2
    <2> HIDE DEF k
    <2> QED  BY <1>4, <2>2, <2>3
  <1>5. ASSUME NEW i \in 2 .. Len(s), s[i - 1] = last
        PROVE  /\ s[i] \in DOMAIN g.nodes /\ last \in DOMAIN g.nodes
               /\ Ahead(g, dir, s[i], owed \ {Last(g.nodes[s[i]].path)})
    <2> DEFINE h == i - 1
    <2>1. i \in DOMAIN s /\ h \in DOMAIN s /\ h + 1 = i /\ i \in Int /\ h \in Int  BY <1>3
    <2>2. s[h] = last  BY <1>5
    <2> HIDE DEF h
    <2>3. s[i] \in ToSet(s) /\ last \in ToSet(s)  BY <2>1, <2>2 DEF ToSet
    <2>4. Ahead(g, dir, s[i], owed \ {Last(g.nodes[s[i]].path)})
      <3> SUFFICES ASSUME NEW n \in owed, n # Last(g.nodes[s[i]].path)
                   PROVE  \E y : Before(s, s[i], y) /\ Last(g.nodes[y].path) = n
        BY DEF Ahead, s
      <3>1. PICK y : Before(s, last, y) /\ Last(g.nodes[y].path) = n  BY <1>6
      <3>2. PICK a \in DOMAIN s, b \in DOMAIN s : a < b /\ s[a] = last /\ s[b] = y
        BY <3>1 DEF Before
      <3>3. a = h  BY <1>1, <2>1, <2>2, <3>2 DEF IsInjective
      <3>4. b # i  BY <3>1, <3>2
      <3>5. i < b  BY <1>3, <2>1, <3>2, <3>3, <3>4
      <3>6. Before(s, s[i], y)  BY <2>1, <3>2, <3>5 DEF Before
      <3> QED  BY <3>1, <3>6
    <2> QED  BY <1>2, <2>3, <2>4
  <1> QED  BY <1>4, <1>5 DEF s

-----------------------------------------------------------------------------
(* Locks and handles as one table of holds.                                 *)
LEMMA HoldsIs ==
  ASSUME NEW ls \in [Slots -> Hold], NEW hs \in [Indices -> Hold]
  PROVE  /\ Holds(ls, hs) \in [Places -> Hold]
         /\ \A l \in Slots : <<"lock", l>> \in Places /\ Holds(ls, hs)[<<"lock", l>>] = ls[l]
         /\ \A i \in Indices : <<"handle", i>> \in Places /\ Holds(ls, hs)[<<"handle", i>>] = hs[i]
  <1>1. \A h \in Places : \/ h[1] = "lock" /\ h[2] \in Slots
                          \/ h[1] = "handle" /\ h[2] \in Indices
    BY DEF Places
  <1>2. \A l \in Slots : <<"lock", l>> \in Places  BY DEF Places
  <1>3. \A i \in Indices : <<"handle", i>> \in Places  BY DEF Places
  <1>4. ASSUME NEW h \in Places PROVE (IF h[1] = "lock" THEN ls[h[2]] ELSE hs[h[2]]) \in Hold
    BY <1>1
  <1>5. Holds(ls, hs) \in [Places -> Hold]  BY <1>4 DEF Holds
  <1>6. \A h \in Places : Holds(ls, hs)[h] = IF h[1] = "lock" THEN ls[h[2]] ELSE hs[h[2]]
    BY DEF Holds
  <1>7. \A l \in Slots : Holds(ls, hs)[<<"lock", l>>] = ls[l]  BY <1>2, <1>6
  <1>8. \A i \in Indices : Holds(ls, hs)[<<"handle", i>>] = hs[i]  BY <1>3, <1>6
  <1> QED  BY <1>2, <1>3, <1>5, <1>7, <1>8

Put(f, k, v) == [f EXCEPT ![k] = v]

LEMMA HoldsLock ==
  ASSUME NEW ls \in [Slots -> Hold], NEW hs \in [Indices -> Hold], NEW l \in Slots,
         NEW v \in Hold, NEW t, t = Put(ls, l, v),
         NEW c, c = Put(Holds(ls, hs), <<"lock", l>>, v)
  PROVE  t \in [Slots -> Hold] /\ Holds(t, hs) = c
  <1>0. ls \in [Slots -> Hold] /\ hs \in [Indices -> Hold]  OBVIOUS
  <1>1. t \in [Slots -> Hold] /\ t[l] = v /\ \A k \in Slots : k # l => t[k] = ls[k]
    BY DEF Put
  <1> DEFINE a == Holds(t, hs)
             b == Holds(ls, hs)
  <1>2. a \in [Places -> Hold] /\ b \in [Places -> Hold]  BY <1>1, HoldsIs
  <1>3. \A h \in Places : c[h] = IF h = <<"lock", l>> THEN v ELSE b[h]  BY <1>2 DEF Put
  <1>4. ASSUME NEW h \in Places PROVE a[h] = c[h]
    <2>1. CASE h \in {"lock"} \X Slots
      <3>1. PICK k \in Slots : h = <<"lock", k>>  BY <2>1
      <3>2. a[h] = t[k] /\ b[h] = ls[k]  BY ONLY <1>0, <1>1, <3>1, HoldsIs
      <3>3. h = <<"lock", l>> <=> k = l  BY <3>1
      <3> QED  BY <1>1, <1>3, <3>2, <3>3
    <2>2. CASE h \in {"handle"} \X Indices
      <3>1. PICK k \in Indices : h = <<"handle", k>>  BY <2>2
      <3>2. a[h] = hs[k] /\ b[h] = hs[k]  BY ONLY <1>0, <1>1, <3>1, HoldsIs
      <3>3. h # <<"lock", l>>  BY <3>1
      <3> QED  BY <1>3, <3>2, <3>3
    <2> QED  BY <2>1, <2>2 DEF Places
  <1>5. c \in [Places -> Hold]  BY <1>2 DEF Put
  <1> HIDE DEF a
  <1>6. a = c  BY <1>2, <1>4, <1>5
  <1> QED  BY <1>1, <1>6 DEF a, b

LEMMA HoldsHandle ==
  ASSUME NEW ls \in [Slots -> Hold], NEW hs \in [Indices -> Hold], NEW i \in Indices,
         NEW v \in Hold, NEW t, t = Put(hs, i, v),
         NEW c, c = Put(Holds(ls, hs), <<"handle", i>>, v)
  PROVE  t \in [Indices -> Hold] /\ Holds(ls, t) = c
  <1>0. ls \in [Slots -> Hold] /\ hs \in [Indices -> Hold]  OBVIOUS
  <1>1. t \in [Indices -> Hold] /\ t[i] = v /\ \A k \in Indices : k # i => t[k] = hs[k]
    BY DEF Put
  <1> DEFINE a == Holds(ls, t)
             b == Holds(ls, hs)
  <1>2. a \in [Places -> Hold] /\ b \in [Places -> Hold]  BY <1>1, HoldsIs
  <1>3. \A h \in Places : c[h] = IF h = <<"handle", i>> THEN v ELSE b[h]  BY <1>2 DEF Put
  <1>4. ASSUME NEW h \in Places PROVE a[h] = c[h]
    <2>1. CASE h \in {"handle"} \X Indices
      <3>1. PICK k \in Indices : h = <<"handle", k>>  BY <2>1
      <3>2. a[h] = t[k] /\ b[h] = hs[k]  BY ONLY <1>0, <1>1, <3>1, HoldsIs
      <3>3. h = <<"handle", i>> <=> k = i  BY <3>1
      <3> QED  BY <1>1, <1>3, <3>2, <3>3
    <2>2. CASE h \in {"lock"} \X Slots
      <3>1. PICK k \in Slots : h = <<"lock", k>>  BY <2>2
      <3>2. a[h] = ls[k] /\ b[h] = ls[k]  BY ONLY <1>0, <1>1, <3>1, HoldsIs
      <3>3. h # <<"handle", i>>  BY <3>1
      <3> QED  BY <1>3, <3>2, <3>3
    <2> QED  BY <2>1, <2>2 DEF Places
  <1>5. c \in [Places -> Hold]  BY <1>2 DEF Put
  <1> HIDE DEF a
  <1>6. a = c  BY <1>2, <1>4, <1>5
  <1> QED  BY <1>1, <1>6 DEF a, b

LEMMA NoHoldIs == NoHold \in Hold /\ NoHold.node = Nothing
  BY DEF NoHold, Hold, Access, Nothing

LEMMA FirstFreeIs ==
  ASSUME NEW S, S \subseteq Nat, NEW f, HasFree(S, f)
  PROVE  FirstFree(S, f) \in S /\ f[FirstFree(S, f)] = NoHold
  <1> DEFINE T == {i \in S : f[i] = NoHold}
  <1>1. T \subseteq Nat /\ T # {}  BY DEF HasFree
  <1>2. \A i : i \in T <=> i \in S /\ f[i] = NoHold  OBVIOUS
  <1> HIDE DEF T
  <1>3. PICK i \in T : \A j \in T : i <= j  BY <1>1, MinExists
  <1>4. \E k \in S : f[k] = NoHold /\ \A j \in S : f[j] = NoHold => k <= j  BY <1>2, <1>3
  <1> QED  BY <1>4 DEF FirstFree

LEMMA SlotsAre == Slots \subseteq Nat /\ Indices \subseteq Nat /\ ~ (Nothing \in Slots)
  BY VolumesAssumption DEF Slots, Indices, Nothing

-----------------------------------------------------------------------------
(* The inductive invariant.  The tree is Good; the counts are what the      *)
(* locks and handles hold; and the scan is owed only what comes behind the  *)
(* entry it stands at.                                                      *)
Fine(fs, ls, hs, sc, mv) ==
  /\ Good(fs, mv)
  /\ ls \in [Slots -> Hold] /\ hs \in [Indices -> Hold]
  /\ Matches(fs, Holds(ls, hs))
  /\ ScanOK(fs, ls, sc)

IInv == Fine(Now, locks, handles, scan, moved)

LEMMA FreshGood ==
  ASSUME NEW h \in [Paths -> Kinds], HostTree(h), NEW mv, NEW fs,
         fs = [host |-> h, nodes |-> Root, next |-> RootId + 1]
  PROVE  Good(fs, mv) /\ DOMAIN fs.nodes = {RootId} /\ fs.nodes[RootId].count = 0
  <1> DEFINE e == <<>>
             node == NewNode(e, RootId, "dir")
  <1>1. e \in Paths /\ e \in Seq(Nat) /\ Len(e) = 0  BY RootPath, EmptySeq
  <1> HIDE DEF e
  <1>2. /\ node = [path |-> e, parent |-> RootId, type |-> "dir", count |-> 0, children |-> e]
        /\ RootId \in Nat /\ RootId >= 1 /\ RootId < RootId + 1 /\ RootId + 1 \in Nat
        /\ "dir" \in Kinds
    BY DEF NewNode, RootId, Kinds, e
  <1>3. Root = [i \in {RootId} |-> node]  BY DEF Root, e
  <1> HIDE DEF node
  <1>4. node \in Node /\ node.path = e /\ node.parent = RootId /\ node.count = 0
        /\ node.children = e
    BY <1>1, <1>2 DEF Node
  <1>5. fs.host = h /\ fs.nodes = Root /\ fs.next = RootId + 1
        /\ fs = [host |-> fs.host, nodes |-> fs.nodes, next |-> fs.next]
    OBVIOUS
  <1>6. DOMAIN Root = {RootId} /\ Root[RootId] = node /\ Root \in [{RootId} -> Node]
    BY <1>3, <1>4
  <1>7. DOMAIN fs.nodes = {RootId} /\ fs.nodes[RootId] = node
        /\ fs.nodes \in [DOMAIN fs.nodes -> Node]
    BY <1>5, <1>6
  <1>8. IsFs(fs)  BY <1>2, <1>5, <1>7 DEF IsFs
  <1>9. DOMAIN e = {} /\ ToSet(e) = {}
    <2>1. DOMAIN e = 1 .. 0  BY <1>1, LenProperties
    <2>2. DOMAIN e = {}  BY <2>1
    <2> QED  BY <2>2 DEF ToSet
  <1>10. IsInjective(e)  BY <1>9 DEF IsInjective
  <1>11. \A n \in DOMAIN fs.nodes : Kids(fs, n) = {}  BY <1>4, <1>7, <1>9 DEF Kids
  <1>12. Linked(fs)
    <2>1. fs.nodes[RootId].path = <<>> /\ fs.nodes[RootId].parent = RootId
      BY <1>4, <1>7 DEF e
    <2> QED  BY <1>4, <1>7, <1>10, <1>11, <2>1 DEF Linked
  <1>13. ASSUME NEW q \in Paths, IsPrefix(q, e) PROVE q = e
    <2>1. q \in Seq(Parts) /\ e \in Seq(Parts) /\ Len(q) \in Nat  BY <1>1, PathsAreParts
    <2>2. Len(q) <= Len(e)  BY <1>13, <2>1, PrefixIs
    <2>3. Len(e) <= Len(q)  BY <1>1, <2>1
    <2> QED  BY <1>13, <2>1, <2>2, <2>3, PrefixOrder
  <1>14. Reached(fs)  BY <1>4, <1>7, <1>13 DEF Reached
  <1>15. Known(fs)  BY <1>7, <1>14 DEF Known
  <1> QED  BY <1>4, <1>5, <1>7, <1>8, <1>12, <1>15 DEF Good

LEMMA FreshMatches ==
  ASSUME NEW fs, DOMAIN fs.nodes = {RootId}, fs.nodes[RootId].count = 0,
         NEW ls, NEW hs, ls = [l \in Slots |-> NoHold], hs = [i \in Indices |-> NoHold]
  PROVE  /\ ls \in [Slots -> Hold] /\ hs \in [Indices -> Hold]
         /\ Matches(fs, Holds(ls, hs))
  <1> DEFINE hold == Holds(ls, hs)
  <1>1. /\ ls \in [Slots -> Hold] /\ hs \in [Indices -> Hold]
        /\ (\A l \in Slots : ls[l] = NoHold) /\ \A i \in Indices : hs[i] = NoHold
    BY NoHoldIs
  <1>2. hold \in [Places -> Hold]  BY <1>1, HoldsIs
  <1>3. ASSUME NEW h \in Places PROVE hold[h] = NoHold
    <2>1. CASE h \in {"lock"} \X Slots
      <3>1. PICK k \in Slots : h = <<"lock", k>>  BY <2>1
      <3> QED  BY <1>1, <3>1, HoldsIs
    <2>2. CASE h \in {"handle"} \X Indices
      <3>1. PICK k \in Indices : h = <<"handle", k>>  BY <2>2
      <3> QED  BY <1>1, <3>1, HoldsIs
    <2> QED  BY <2>1, <2>2 DEF Places
  <1> HIDE DEF hold
  <1>4. \A h \in Places : hold[h].node # RootId
    BY <1>3, NoHoldIs DEF RootId, Nothing
  <1>5. ~ Alone(hold, RootId) /\ At(hold, RootId) = {}  BY <1>4 DEF Alone, At
  <1>6. Cardinality(At(hold, RootId)) = 0  BY <1>5, FS_EmptySet
  <1>7. Matches(fs, hold)  BY <1>2, <1>3, <1>5, <1>6 DEF Matches
  <1> QED  BY <1>1, <1>7 DEF hold

LEMMA FreshFine ==
  ASSUME NEW h \in [Paths -> Kinds], HostTree(h), NEW mv, NEW fs,
         fs = [host |-> h, nodes |-> Root, next |-> RootId + 1],
         NEW ls, NEW hs, ls = [l \in Slots |-> NoHold], hs = [i \in Indices |-> NoHold]
  PROVE  Fine(fs, ls, hs, NoScan, mv)
  BY FreshGood, FreshMatches, NoScanOK DEF Fine

-----------------------------------------------------------------------------
(* What a packet leaves.                                                    *)
After == [host |-> host', nodes |-> nodes', next |-> next_id']

LEMMA NowIs ==
  Now.host = host /\ Now.nodes = nodes /\ Now.next = next_id
  BY DEF Now

LEMMA AfterIsNow ==
  ASSUME Fine(After, locks', handles', scan', moved')
  PROVE  IInv'
  BY DEF IInv, Now, After

LEMMA FreshKeeps ==
  ASSUME IInv, Fresh, host' = host, NEW mv
  PROVE  Fine(After, locks', handles', scan', mv)
  <1>1. host \in [Paths -> Kinds] /\ HostTree(host)  BY NowIs DEF IInv, Fine, Good, IsFs
  <1> DEFINE a == After
             ls == locks'
             hs == handles'
  <1>2. /\ a = [host |-> host, nodes |-> Root, next |-> RootId + 1]
        /\ ls = [l \in Slots |-> NoHold] /\ hs = [i \in Indices |-> NoHold]
        /\ scan' = NoScan
    BY DEF Fresh, After
  <1> HIDE DEF a, ls, hs
  <1>3. Fine(a, ls, hs, NoScan, mv)  BY <1>1, <1>2, FreshFine
  <1> QED  BY <1>2, <1>3 DEF a, ls, hs

(* The scan goes on with its lock, or has lost it.                          *)
Stays(ls) == scan.lock # Nothing => ls[scan.lock] = locks[scan.lock] \/ ls[scan.lock] = NoHold

LEMMA FollowIs ==
  ASSUME NEW fs, NEW ls
  PROVE  Follow(fs, ls) = Followed(fs, ls, scan)
  BY DEF Follow, Followed

LEMMA LeavesKeeps ==
  ASSUME IInv, NEW r, NEW ls \in [Slots -> Hold], NEW hs \in [Indices -> Hold], NEW mv,
         Left(Now, mv, Holds(ls, hs), r), Stays(ls), Leaves(r, ls, hs)
  PROVE  Fine(After, locks', handles', scan', mv)
  <1>1. CASE r.status # "ok"
    <2>1. Fresh /\ host' = host  BY <1>1 DEF Leaves
    <2> QED  BY <2>1, FreshKeeps
  <1>2. CASE r.status = "ok"
    <2> DEFINE g == r.fs
               a == After
               f == Now
               old == locks
               sc == scan
               s == scan'
    <2>1. /\ host' = g.host /\ nodes' = g.nodes /\ next_id' = g.next
          /\ locks' = ls /\ handles' = hs /\ s = Follow(g, ls)
      BY <1>2 DEF Leaves
    <2>2. Good(g, mv) /\ Matches(g, Holds(ls, hs)) /\ Kept(f, g)  BY <1>2 DEF Left
    <2>3. IsFs(g)  BY <2>2 DEF Good
    <2>4. a = g  BY <2>1, <2>3 DEF After, IsFs
    <2>5. IsFs(f) /\ Linked(f) /\ ScanOK(f, old, sc)  BY DEF IInv, Fine, Good
    <2>6. s = Followed(g, ls, sc)  BY <2>1, FollowIs
    <2>7. sc.lock # Nothing => ls[sc.lock] = old[sc.lock] \/ ls[sc.lock] = NoHold
      BY DEF Stays
    <2> HIDE DEF g, a, f, old, sc, s
    <2>8. ASSUME sc.lock # Nothing, ls[sc.lock] # NoHold
          PROVE  ls[sc.lock].node \in DOMAIN g.nodes
      <3>1. sc.lock \in Slots  BY <2>5, <2>8 DEF ScanOK
      <3>2. /\ <<"lock", sc.lock>> \in Places
            /\ Holds(ls, hs)[<<"lock", sc.lock>>] = ls[sc.lock]
        BY <3>1, HoldsIs
      <3> QED  BY <2>2, <2>8, <3>2 DEF Matches
    <2>9. ScanOK(g, ls, s)
      <3>1. ScanOK(g, ls, Followed(g, ls, sc))
        BY <2>2, <2>3, <2>5, <2>7, <2>8, FollowKeeps
      <3> QED  BY <2>6, <3>1
    <2>10. Fine(g, ls, hs, s, mv)  BY <2>2, <2>9 DEF Fine
    <2> QED  BY <2>1, <2>4, <2>10 DEF a, s
  <1> QED  BY <1>1, <1>2

LEMMA IInvIs ==
  ASSUME IInv
  PROVE  /\ Good(Now, moved) /\ IsFs(Now) /\ locks \in [Slots -> Hold]
         /\ handles \in [Indices -> Hold] /\ Matches(Now, Holds(locks, handles))
         /\ Stays(locks)
         /\ \A l \in Held \cup {Nothing} : LockKey(l) \in DOMAIN nodes
         /\ \A l \in Slots : locks[l] # NoHold => locks[l].node \in DOMAIN nodes
         /\ \A i \in Indices : handles[i] # NoHold => handles[i].node \in DOMAIN nodes
  <1>1. /\ Good(Now, moved) /\ IsFs(Now) /\ locks \in [Slots -> Hold]
        /\ handles \in [Indices -> Hold] /\ Matches(Now, Holds(locks, handles))
    BY DEF IInv, Fine, Good
  <1>2. Stays(locks)  BY DEF Stays
  <1> DEFINE ls == locks
             hs == handles
             hold == Holds(ls, hs)
  <1>3. /\ \A l \in Slots : <<"lock", l>> \in Places /\ hold[<<"lock", l>>] = ls[l]
        /\ \A i \in Indices : <<"handle", i>> \in Places /\ hold[<<"handle", i>>] = hs[i]
    BY <1>1, HoldsIs
  <1>4. \A h \in Places : hold[h] = NoHold \/ hold[h].node \in DOMAIN nodes
    BY <1>1, NowIs DEF Matches
  <1> HIDE DEF hold
  <1>5. \A l \in Slots : locks[l] # NoHold => locks[l].node \in DOMAIN nodes
    BY <1>3, <1>4
  <1>6. \A i \in Indices : handles[i] # NoHold => handles[i].node \in DOMAIN nodes
    BY <1>3, <1>4
  <1>7. RootId \in DOMAIN nodes  BY <1>1, NowIs DEF IsFs
  <1>8. \A l \in Held \cup {Nothing} : LockKey(l) \in DOMAIN nodes
    BY <1>5, <1>7 DEF LockKey, Held
  <1> QED  BY <1>1, <1>2, <1>5, <1>6, <1>8

(* A packet that changes neither locks nor handles.                         *)
LEMMA LeavesHeld ==
  ASSUME IInv, NEW r, NEW mv, Left(Now, mv, Holds(locks, handles), r),
         Leaves(r, locks, handles)
  PROVE  Fine(After, locks', handles', scan', mv)
  BY IInvIs, LeavesKeeps

LEMMA LockedFails ==
  ASSUME IInv, NEW r, NEW access, Locked(Now, moved, access, r), r.node = Nothing
  PROVE  Left(Now, moved, Holds(locks, handles), r)
  <1> DEFINE f == Now
             mv == moved
             hold == Holds(locks, handles)
  <1>1. IsFs(f) /\ Matches(f, hold)  BY IInvIs
  <1>2. r.status = "ok" => Good(r.fs, mv) /\ Extends(f, r.fs)  BY DEF Locked
  <1> HIDE DEF f, mv, hold
  <1>3. Left(f, mv, hold, r)  BY <1>1, <1>2, LeftExtended
  <1> QED  BY <1>3 DEF f, mv, hold

(* The node was locked and is unlocked again: all that is left is what the  *)
(* tree learned.                                                            *)
LEMMA LockedAndUnlocked ==
  ASSUME IInv, NEW r, NEW access \in Access, Locked(Now, moved, access, r), r.node # Nothing
  PROVE  Left(Now, moved, Holds(locks, handles),
              [r EXCEPT !.fs = Unlock(@, r.node, access)])
  <1> DEFINE f == Now
             mv == moved
             hold == Holds(locks, handles)
             s == [r EXCEPT !.fs = Unlock(@, r.node, access)]
  <1>1. IsFs(f) /\ Matches(f, hold)  BY IInvIs
  <1>2. r = [fs |-> r.fs, node |-> r.node, err |-> r.err, status |-> r.status]
    BY DEF Locked
  <1>3. s.fs = Unlock(r.fs, r.node, access)  BY <1>2
  <1>4. PICK g : /\ Good(g, mv) /\ Extends(f, g) /\ r.node \in DOMAIN g.nodes
                 /\ CanLock(g, r.node, access) /\ r.fs = Lock(g, r.node, access)
    BY DEF Locked
  <1> HIDE DEF f, mv, hold, s
  <1>5. IsFs(g)  BY <1>4 DEF Good
  <1>6. s.fs = g  BY <1>3, <1>4, <1>5, LockUnlock
  <1>7. Left(f, mv, hold, s)  BY <1>1, <1>4, <1>6, LeftExtended
  <1> QED  BY <1>7 DEF f, mv, hold, s

LEMMA LockedIsLeft ==
  ASSUME IInv, NEW r, NEW access \in Access, Locked(Now, moved, access, r), r.node # Nothing,
         NEW h \in Places, Holds(locks, handles)[h] = NoHold
  PROVE  Left(Now, moved,
              [Holds(locks, handles) EXCEPT ![h] = [node |-> r.node, access |-> access]], r)
  <1> DEFINE f == Now
             mv == moved
             hold == Holds(locks, handles)
             n == r.node
             now == [hold EXCEPT ![h] = [node |-> n, access |-> access]]
  <1>1. IsFs(f) /\ Matches(f, hold)  BY IInvIs
  <1>2. PICK g : /\ Good(g, mv) /\ Extends(f, g) /\ n \in DOMAIN g.nodes
                 /\ CanLock(g, n, access) /\ r.fs = Lock(g, n, access)
    BY DEF Locked
  <1>3. hold[h] = NoHold  OBVIOUS
  <1>3a. now = [hold EXCEPT ![h] = [node |-> n, access |-> access]]  OBVIOUS
  <1> HIDE DEF f, mv, hold, n, now
  <1>4. IsFs(g)  BY <1>2 DEF Good
  <1>5. Matches(g, hold)  BY <1>1, <1>2, <1>4, MatchesExtends
  <1>6. Matches(Lock(g, n, access), now)  BY <1>2, <1>3, <1>3a, <1>4, <1>5, MatchesLock
  <1>7. Good(Lock(g, n, access), mv) /\ SameTree(Lock(g, n, access), g, n)
    BY <1>2, CountsGood
  <1> DEFINE e == r.fs
  <1>8. e = Lock(g, n, access)  BY <1>2
  <1> HIDE DEF e
  <1>9. Good(e, mv) /\ SameTree(e, g, n) /\ Matches(e, now) /\ IsFs(e)
    BY <1>6, <1>7, <1>8 DEF Good
  <1>10. Linked(g)  BY <1>2 DEF Good
  <1>11. Kept(g, e)  BY <1>4, <1>9, <1>10, SameTreeIs
  <1>12. Kept(f, g)  BY <1>1, <1>2, <1>4, ExtendsKept
  <1>13. DOMAIN f.nodes \subseteq DOMAIN g.nodes  BY <1>2 DEF Extends
  <1>14. Kept(f, e)  BY <1>1, <1>4, <1>9, <1>11, <1>12, <1>13, KeptTransitive
  <1>15. Left(f, mv, now, r)  BY <1>9, <1>14 DEF Left, e
  <1> QED  BY <1>15 DEF f, mv, hold, n, now

-----------------------------------------------------------------------------
(* Packets that make a lock or a handle.                                    *)
LEMMA MakesLockKeeps ==
  ASSUME IInv, NEW r, NEW access \in Access, Locked(Now, moved, access, r), NEW full,
         MakesLock(r, access, full)
  PROVE  Fine(After, locks', handles', scan', moved)
  <1>1. CASE r.node = Nothing
    <2>1. Leaves(r, locks, handles)  BY <1>1 DEF MakesLock
    <2> QED  BY <1>1, <2>1, LockedFails, LeavesHeld
  <1>2. CASE r.node # Nothing /\ (full \/ ~ HasFree(Slots, locks))
    <2> DEFINE s == [r EXCEPT !.fs = Unlock(@, r.node, access)]
    <2>1. Leaves(s, locks, handles)  BY <1>2 DEF MakesLock, NotMade
    <2>2. Left(Now, moved, Holds(locks, handles), s)  BY <1>2, LockedAndUnlocked
    <2> HIDE DEF s
    <2> QED  BY <2>1, <2>2, LeavesHeld
  <1>3. CASE r.node # Nothing /\ ~ full /\ HasFree(Slots, locks)
    <2> DEFINE l == FirstFree(Slots, locks)
               v == [node |-> r.node, access |-> access]
               ls == [locks EXCEPT ![l] = v]
               hs == handles
               mv == moved
               hold == Holds(locks, hs)
               h == <<"lock", l>>
    <2>1. Leaves(r, ls, hs)  BY <1>3 DEF MakesLock
    <2>2. l \in Slots /\ locks[l] = NoHold  BY <1>3, SlotsAre, FirstFreeIs
    <2>3. h \in Places /\ hold[h] = NoHold  BY <2>2, IInvIs, HoldsIs
    <2>4. Left(Now, mv, [hold EXCEPT ![h] = v], r)  BY <1>3, <2>3, LockedIsLeft
    <2>5. r.node \in Nat
      <3>1. PICK g : Good(g, moved) /\ r.node \in DOMAIN g.nodes  BY <1>3 DEF Locked
      <3> QED  BY <3>1 DEF Good, IsFs
    <2>6. v \in Hold  BY <2>5 DEF Hold
    <2>7. Stays(ls)
      <3> SUFFICES ASSUME scan.lock # Nothing PROVE ls[scan.lock] = locks[scan.lock]
        BY DEF Stays
      <3>1. scan.lock \in Slots /\ locks[scan.lock].node \in DOMAIN nodes
        BY NowIs DEF IInv, Fine, ScanOK
      <3>2. Nothing \notin DOMAIN nodes  BY IInvIs, NowIs DEF IsFs, Nothing
      <3>3. scan.lock # l  BY <2>2, <3>1, <3>2, NoHoldIs
      <3>4. locks \in [Slots -> Hold]  BY IInvIs
      <3> QED  BY <3>1, <3>3, <3>4
    <2>8. hs \in [Indices -> Hold] /\ locks \in [Slots -> Hold]  BY IInvIs
    <2> DEFINE c == [hold EXCEPT ![h] = v]
    <2>8a. ls = Put(locks, l, v) /\ c = Put(Holds(locks, hs), <<"lock", l>>, v)
      BY DEF Put
    <2> HIDE DEF l, v, hs, hold, h, mv, ls, c
    <2>9. ls \in [Slots -> Hold] /\ Holds(ls, hs) = c
      BY ONLY <2>2, <2>6, <2>8, <2>8a, HoldsLock
    <2>10. Left(Now, mv, Holds(ls, hs), r)  BY <2>4, <2>9 DEF c
    <2> QED  BY <2>1, <2>7, <2>8, <2>9, <2>10, LeavesKeeps DEF mv
  <1> QED  BY <1>1, <1>2, <1>3

LEMMA MakesHandleKeeps ==
  ASSUME IInv, NEW r, NEW access \in Access, Locked(Now, moved, access, r), r.node # Nothing,
         HasFree(Indices, handles),
         Leaves(r, locks, [handles EXCEPT ![FirstFree(Indices, handles)] =
                             [node |-> r.node, access |-> access]])
  PROVE  Fine(After, locks', handles', scan', moved)
  <1> DEFINE i == FirstFree(Indices, handles)
             v == [node |-> r.node, access |-> access]
             ls == locks
             hs == [handles EXCEPT ![i] = v]
             mv == moved
             hold == Holds(ls, handles)
             h == <<"handle", i>>
  <1>1. Leaves(r, ls, hs)  OBVIOUS
  <1>2. i \in Indices /\ handles[i] = NoHold  BY SlotsAre, FirstFreeIs
  <1>3. h \in Places /\ hold[h] = NoHold  BY <1>2, IInvIs, HoldsIs
  <1>4. Left(Now, mv, [hold EXCEPT ![h] = v], r)  BY <1>3, LockedIsLeft
  <1>5. r.node \in Nat
    <2>1. PICK g : Good(g, moved) /\ r.node \in DOMAIN g.nodes  BY DEF Locked
    <2> QED  BY <2>1 DEF Good, IsFs
  <1>6. v \in Hold  BY <1>5 DEF Hold
  <1>7. Stays(ls)  BY IInvIs
  <1>8. handles \in [Indices -> Hold] /\ ls \in [Slots -> Hold]  BY IInvIs
  <1> DEFINE c == [hold EXCEPT ![h] = v]
  <1>8a. hs = Put(handles, i, v) /\ c = Put(Holds(ls, handles), <<"handle", i>>, v)
    BY DEF Put
  <1> HIDE DEF i, v, ls, hs, hold, h, mv, c
  <1>9. hs \in [Indices -> Hold] /\ Holds(ls, hs) = c
    BY ONLY <1>2, <1>6, <1>8, <1>8a, HoldsHandle
  <1>10. Left(Now, mv, Holds(ls, hs), r)  BY <1>4, <1>9 DEF c
  <1> QED  BY <1>1, <1>7, <1>8, <1>9, <1>10, LeavesKeeps DEF mv

-----------------------------------------------------------------------------
(* One lemma for each packet.                                               *)
LEMMA NamesOk == \A name \in PacketNames \cup NewNames : NameOk(name)
  BY VolumesAssumption DEF NameOk, Parts

LEMMA LocateKeeps ==
  ASSUME IInv, NEW l \in Held \cup {Nothing}, NEW name \in PacketNames,
         NEW access \in Access, NEW full, action_locate_object(l, name, access, full)
  PROVE  IInv'
  <1> DEFINE f == Now
             mv == moved
             op == LockIt
             refused == FALSE
             r == node_operation(f, l, name, access, op, refused)
  <1>1. MakesLock(r, access, full) /\ moved' = moved  BY DEF action_locate_object
  <1>2. Good(f, mv) /\ LockKey(l) \in DOMAIN f.nodes  BY IInvIs, NowIs
  <1>3. NameOk(name) /\ op.kind \in {"lock", "file", "dir"}  BY NamesOk DEF LockIt
  <1> HIDE DEF f, mv, op, refused
  <1>4. Locked(f, mv, access, r)  BY <1>2, <1>3, OperationKeeps
  <1> HIDE DEF r
  <1>5. Locked(Now, moved, access, r)  BY <1>4 DEF f, mv
  <1>6. Fine(After, locks', handles', scan', moved)  BY <1>1, <1>5, MakesLockKeeps
  <1> QED  BY <1>1, <1>6, AfterIsNow

LEMMA CreateDirPacketKeeps ==
  ASSUME IInv, NEW l \in Held \cup {Nothing}, NEW name \in PacketNames,
         NEW full, NEW refused, action_create_dir(l, name, full, refused)
  PROVE  IInv'
  <1> DEFINE f == Now
             mv == moved
             op == MakeDir
             access == "exclusive"
             r == node_operation(f, l, name, access, op, refused)
  <1>1. MakesLock(r, access, full) /\ moved' = moved  BY DEF action_create_dir
  <1>2. Good(f, mv) /\ LockKey(l) \in DOMAIN f.nodes  BY IInvIs, NowIs
  <1>3. NameOk(name) /\ op.kind \in {"lock", "file", "dir"}  BY NamesOk DEF MakeDir
  <1>3a. access \in Access  BY DEF Access
  <1> HIDE DEF f, mv, op, access
  <1>4. Locked(f, mv, access, r)  BY <1>2, <1>3, OperationKeeps
  <1> HIDE DEF r
  <1>5. Locked(Now, moved, access, r)  BY <1>4 DEF f, mv
  <1>6. Fine(After, locks', handles', scan', moved)  BY <1>1, <1>3a, <1>5, MakesLockKeeps
  <1> QED  BY <1>1, <1>6, AfterIsNow

LEMMA HeldLocked ==
  ASSUME IInv, NEW n, NEW valid \in BOOLEAN, valid => n \in DOMAIN nodes
  PROVE  Locked(Now, moved, "shared",
                IF valid /\ CanLock(Now, n, "shared")
                THEN Answer(Lock(Now, n, "shared"), n, "none") ELSE Fails(Now, "in use"))
  <1> DEFINE f == Now
             mv == moved
             a == Lock(f, n, "shared")
             r == Answer(a, n, "none")
             s == Fails(f, "in use")
  <1>1. Good(f, mv) /\ IsFs(f) /\ Extends(f, f)  BY IInvIs, ExtendsSelf
  <1>2. r = [fs |-> a, node |-> n, err |-> "none", status |-> "ok"]  BY DEF Answer
  <1>3. DOMAIN f.nodes = DOMAIN nodes  BY NowIs
  <1>4. a = Lock(f, n, "shared")  OBVIOUS
  <1> HIDE DEF f, mv, a, r, s
  <1>5. CASE valid /\ CanLock(f, n, "shared")
    <2>1. r.fs = a /\ r.node = n /\ r.err = "none" /\ r.status = "ok"  BY <1>2
    <2>2. n \in DOMAIN f.nodes /\ n # Nothing  BY <1>1, <1>3, <1>5 DEF IsFs, Nothing
    <2>3. Locked(f, mv, "shared", r)
      BY <1>1, <1>2, <1>4, <1>5, <2>1, <2>2 DEF Locked
    <2> QED  BY <1>5, <2>3 DEF f, mv, r, a
  <1>6. CASE ~ (valid /\ CanLock(f, n, "shared"))
    <2>1. Found(f, mv, Fails(f, "in use"))  BY <1>1, FailsIsFound
    <2>2. Fails(f, "in use").node = Nothing  BY DEF Fails, Answer
    <2>3. Locked(f, mv, "shared", Fails(f, "in use"))  BY <2>1, <2>2, UnfoundIsLocked
    <2> QED  BY <1>6, <2>3 DEF f, mv
  <1> QED  BY <1>5, <1>6

LEMMA CopyDirKeeps ==
  ASSUME IInv, NEW l \in Held \cup {Nothing}, NEW full, action_copy_dir(l, full)
  PROVE  IInv'
  <1> DEFINE n == LockKey(l)
             valid == l = Nothing \/ (locks[l].access = "shared" /\ n \in DOMAIN nodes)
             r == IF valid /\ CanLock(Now, n, "shared")
                  THEN Answer(Lock(Now, n, "shared"), n, "none") ELSE Fails(Now, "in use")
  <1>1. MakesLock(r, "shared", full) /\ moved' = moved  BY DEF action_copy_dir
  <1>2. n \in DOMAIN nodes /\ valid \in BOOLEAN  BY IInvIs
  <1> HIDE DEF n, valid
  <1>3. Locked(Now, moved, "shared", r)  BY <1>2, HeldLocked
  <1> HIDE DEF r
  <1>4. "shared" \in Access  BY DEF Access
  <1>5. Fine(After, locks', handles', scan', moved)  BY <1>1, <1>3, <1>4, MakesLockKeeps
  <1> QED  BY <1>1, <1>5, AfterIsNow

LEMMA ParentKeeps ==
  ASSUME IInv, NEW l, NEW full, action_parent(l, full)
  PROVE  IInv'
  <1> DEFINE n == LockKey(l)
             p == nodes[n].parent
             r == IF CanLock(Now, p, "shared")
                  THEN Answer(Lock(Now, p, "shared"), p, "none") ELSE Fails(Now, "in use")
             e == Ends(Now, "undefined")
  <1>1. moved' = moved
        /\ \/ Dangling(Now, n) /\ Leaves(e, locks, handles)
           \/ ~ Dangling(Now, n) /\ MakesLock(r, "shared", full)
    BY DEF action_parent
  <1>2. CASE Leaves(e, locks, handles)
    <2>1. e.status # "ok"  BY DEF Ends
    <2> HIDE DEF e
    <2>2. Left(Now, moved, Holds(locks, handles), e)  BY <2>1 DEF Left
    <2>3. Fine(After, locks', handles', scan', moved)  BY <1>2, <2>2, LeavesHeld
    <2> QED  BY <1>1, <2>3, AfterIsNow
  <1>3. CASE ~ Dangling(Now, n) /\ MakesLock(r, "shared", full)
    <2>1. p \in DOMAIN nodes  BY <1>3, NowIs DEF Dangling
    <2> DEFINE valid == TRUE
    <2>2. valid \in BOOLEAN /\ (valid => p \in DOMAIN nodes)  BY <2>1
    <2>3. Locked(Now, moved, "shared",
                 IF valid /\ CanLock(Now, p, "shared")
                 THEN Answer(Lock(Now, p, "shared"), p, "none") ELSE Fails(Now, "in use"))
      <3> HIDE DEF valid, p
      <3> QED  BY <2>2, HeldLocked
    <2>4. Locked(Now, moved, "shared", r)
      <3> HIDE DEF p
      <3> QED  BY <2>3
    <2> HIDE DEF r
    <2>5. "shared" \in Access  BY DEF Access
    <2>6. Fine(After, locks', handles', scan', moved)  BY <1>3, <2>4, <2>5, MakesLockKeeps
    <2> QED  BY <1>1, <2>6, AfterIsNow
  <1> QED  BY <1>1, <1>2, <1>3

LEMMA UnlockedIsLeft ==
  ASSUME IInv, NEW h \in Places, NEW v, v = Holds(locks, handles)[h], v # NoHold
  PROVE  /\ MayUnlock(Now, v.node, v.access)
         /\ Left(Now, moved, Put(Holds(locks, handles), h, NoHold),
                 Answer(Unlock(Now, v.node, v.access), Nothing, "none"))
  <1> DEFINE f == Now
             mv == moved
             hold == Holds(locks, handles)
             n == v.node
             access == v.access
             g == Unlock(f, n, access)
             r == Answer(g, Nothing, "none")
             left == Put(hold, h, NoHold)
  <1>1. Good(f, mv) /\ IsFs(f) /\ Matches(f, hold)  BY IInvIs
  <1>2. v = hold[h]  OBVIOUS
  <1>3. r.fs = g  BY DEF Answer
  <1> HIDE DEF f, mv, hold, n, access, r, g
  <1>4. /\ n \in DOMAIN f.nodes /\ MayUnlock(f, n, access)
        /\ Matches(Unlock(f, n, access), left)
    BY <1>1, <1>2, MatchesUnlock DEF n, access, Put
  <1>5. Matches(g, left)  BY <1>4 DEF g
  <1>6. Good(g, mv) /\ SameTree(g, f, n)  BY <1>1, <1>4, CountsGood DEF g
  <1>7. Linked(f)  BY <1>1 DEF Good
  <1>8. Kept(f, g)  BY <1>1, <1>6, <1>7, SameTreeIs
  <1> HIDE DEF left
  <1>9. Left(f, mv, left, r)  BY <1>3, <1>5, <1>6, <1>8 DEF Left
  <1> QED  BY <1>4, <1>9 DEF f, mv, hold, n, access, r, g, left

LEMMA FreeLockKeeps ==
  ASSUME IInv, NEW l, action_free_lock(l)
  PROVE  IInv'
  <1> DEFINE v == locks[l]
             h == <<"lock", l>>
             hold == Holds(locks, handles)
             ls == [locks EXCEPT ![l] = NoHold]
             hs == handles
             c == Put(hold, h, NoHold)
             r == Answer(Unlock(Now, v.node, v.access), Nothing, "none")
  <1>1. l \in Slots /\ v # NoHold  BY DEF action_free_lock, Held
  <1>2. h \in Places /\ v = hold[h]  BY <1>1, IInvIs, HoldsIs
  <1>3. v.node \in DOMAIN nodes  BY <1>1, IInvIs
  <1>4. MayUnlock(Now, v.node, v.access) /\ Left(Now, moved, c, r)
    <2> HIDE DEF v, hold, h
    <2> QED  BY <1>1, <1>2, UnlockedIsLeft DEF hold
  <1>5. Leaves(r, ls, hs) /\ moved' = moved  BY <1>3, <1>4 DEF action_free_lock
  <1>6. locks \in [Slots -> Hold] /\ hs \in [Indices -> Hold] /\ NoHold \in Hold
    BY IInvIs, NoHoldIs
  <1>7. ls = Put(locks, l, NoHold) /\ c = Put(Holds(locks, hs), <<"lock", l>>, NoHold)
    BY DEF Put
  <1>8. Stays(ls)  BY <1>6 DEF Stays, IInv, Fine, ScanOK
  <1> HIDE DEF ls, hs, c, r
  <1>9. ls \in [Slots -> Hold] /\ Holds(ls, hs) = c
    BY ONLY <1>1, <1>6, <1>7, HoldsLock
  <1>10. Left(Now, moved, Holds(ls, hs), r)  BY <1>4, <1>9
  <1>11. Fine(After, locks', handles', scan', moved)
    BY <1>5, <1>6, <1>8, <1>9, <1>10, LeavesKeeps
  <1> QED  BY <1>5, <1>11, AfterIsNow

LEMMA EndKeeps ==
  ASSUME IInv, NEW i \in Indices, action_end(i)
  PROVE  IInv'
  <1> DEFINE v == handles[i]
             h == <<"handle", i>>
             hold == Holds(locks, handles)
             ls == locks
             hs == [handles EXCEPT ![i] = NoHold]
             c == Put(hold, h, NoHold)
             r == Answer(Unlock(Now, v.node, v.access), Nothing, "none")
  <1>1. v # NoHold  BY DEF action_end
  <1>2. h \in Places /\ v = hold[h]  BY IInvIs, HoldsIs
  <1>4. Left(Now, moved, c, r)
    <2> HIDE DEF v, hold, h
    <2> QED  BY <1>1, <1>2, UnlockedIsLeft DEF hold
  <1>5. Leaves(r, ls, hs) /\ moved' = moved  BY DEF action_end
  <1>6. ls \in [Slots -> Hold] /\ handles \in [Indices -> Hold] /\ NoHold \in Hold
    BY IInvIs, NoHoldIs
  <1>7. hs = Put(handles, i, NoHold) /\ c = Put(Holds(ls, handles), <<"handle", i>>, NoHold)
    BY DEF Put
  <1>8. Stays(ls) /\ i \in Indices  BY IInvIs
  <1> HIDE DEF ls, hs, c, r
  <1>9. hs \in [Indices -> Hold] /\ Holds(ls, hs) = c
    BY ONLY <1>6, <1>7, <1>8, HoldsHandle
  <1>10. Left(Now, moved, Holds(ls, hs), r)  BY <1>4, <1>9
  <1>11. Fine(After, locks', handles', scan', moved)
    BY <1>5, <1>6, <1>8, <1>9, <1>10, LeavesKeeps
  <1> QED  BY <1>5, <1>11, AfterIsNow

(* What a packet does first: it locks the object it names.                  *)
LEMMA NamedLocked ==
  ASSUME IInv, NEW l \in Held \cup {Nothing}, NEW name \in PacketNames, NEW access,
         NEW op, op.kind \in {"lock", "file"}, NEW refused
  PROVE  Locked(Now, moved, access, node_operation(Now, l, name, access, op, refused))
  <1> DEFINE f == Now
             mv == moved
  <1>1. Good(f, mv) /\ LockKey(l) \in DOMAIN f.nodes  BY IInvIs, NowIs
  <1>2. NameOk(name) /\ op.kind \in {"lock", "file", "dir"}  BY NamesOk
  <1> HIDE DEF f, mv
  <1>3. Locked(f, mv, access, node_operation(f, l, name, access, op, refused))
    BY <1>1, <1>2, OperationKeeps
  <1> QED  BY <1>3 DEF f, mv

LEMMA SetProtectKeeps ==
  ASSUME IInv, NEW l \in Held \cup {Nothing}, NEW name \in PacketNames,
         action_set_protect(l, name)
  PROVE  IInv'
  <1> DEFINE op == LockIt
             refused == FALSE
             access == "exclusive"
             r == node_operation(Now, l, name, access, op, refused)
             s == [r EXCEPT !.fs = Unlock(@, r.node, access)]
  <1>1. /\ moved' = moved
        /\ Leaves(IF r.node = Nothing THEN r ELSE s, locks, handles)
    BY DEF action_set_protect
  <1>2. access \in Access /\ op.kind \in {"lock", "file"}  BY DEF Access, LockIt
  <1> HIDE DEF op, refused, access
  <1>3. Locked(Now, moved, access, r)  BY <1>2, NamedLocked
  <1> HIDE DEF r
  <1>4. CASE r.node = Nothing
    <2>1. Left(Now, moved, Holds(locks, handles), r)  BY <1>3, <1>4, LockedFails
    <2>2. Fine(After, locks', handles', scan', moved)  BY <1>1, <1>4, <2>1, LeavesHeld
    <2> QED  BY <1>1, <2>2, AfterIsNow
  <1>5. CASE r.node # Nothing
    <2>1. Left(Now, moved, Holds(locks, handles), s)  BY <1>2, <1>3, <1>5, LockedAndUnlocked
    <2>2. Leaves(s, locks, handles)  BY <1>1, <1>5
    <2> HIDE DEF s
    <2>3. Fine(After, locks', handles', scan', moved)  BY <2>1, <2>2, LeavesHeld
    <2> QED  BY <1>1, <2>3, AfterIsNow
  <1> QED  BY <1>4, <1>5

LEMMA FindPacketKeeps ==
  ASSUME IInv, NEW mode, NEW l \in Held \cup {Nothing}, NEW name \in PacketNames,
         NEW refused, action_find(mode, l, name, refused)
  PROVE  IInv'
  <1> DEFINE op == IF mode = "output" THEN MakeFile ELSE LockIt
             access == IF mode = "input" THEN "shared" ELSE "exclusive"
             r == node_operation(Now, l, name, access, op, refused)
             s == [r EXCEPT !.fs = Unlock(@, r.node, access)]
             hs == [handles EXCEPT ![FirstFree(Indices, handles)] =
                      [node |-> r.node, access |-> access]]
  <1>1. /\ moved' = moved
        /\ \/ r.node = Nothing /\ Leaves(r, locks, handles)
           \/ r.node # Nothing /\ HasFree(Indices, handles) /\ Leaves(r, locks, hs)
           \/ r.node # Nothing /\ Leaves(s, locks, handles)
    BY DEF action_find
  <1>2. access \in Access /\ op.kind \in {"lock", "file"}  BY DEF Access, LockIt, MakeFile
  <1> HIDE DEF op, access
  <1>2a. IInv /\ l \in Held \cup {Nothing} /\ name \in PacketNames  OBVIOUS
  <1>3. Locked(Now, moved, access, r)  BY ONLY <1>2, <1>2a, NamedLocked DEF r
  <1> HIDE DEF r
  <1>4. CASE r.node = Nothing /\ Leaves(r, locks, handles)
    <2>1. Left(Now, moved, Holds(locks, handles), r)  BY <1>3, <1>4, LockedFails
    <2>2. Fine(After, locks', handles', scan', moved)  BY <1>4, <2>1, LeavesHeld
    <2> QED  BY <1>1, <2>2, AfterIsNow
  <1>5. CASE r.node # Nothing /\ HasFree(Indices, handles) /\ Leaves(r, locks, hs)
    <2>1. Fine(After, locks', handles', scan', moved)
      BY <1>2, <1>3, <1>5, MakesHandleKeeps
    <2> QED  BY <1>1, <2>1, AfterIsNow
  <1>6. CASE r.node # Nothing /\ Leaves(s, locks, handles)
    <2>1. Left(Now, moved, Holds(locks, handles), s)  BY <1>2, <1>3, <1>6, LockedAndUnlocked
    <2>2. Leaves(s, locks, handles)  BY <1>6
    <2> HIDE DEF s
    <2>3. Fine(After, locks', handles', scan', moved)  BY <2>1, <2>2, LeavesHeld
    <2> QED  BY <1>1, <2>3, AfterIsNow
  <1> QED  BY <1>1, <1>4, <1>5, <1>6

LEMMA DeletePacketKeeps ==
  ASSUME IInv, NEW l \in Held \cup {Nothing}, NEW name \in PacketNames, NEW refused,
         action_delete_object(l, name, refused)
  PROVE  IInv'
  <1> DEFINE op == LockIt
             no == FALSE
             r == node_operation(Now, l, name, "exclusive", op, no)
             s == Released(r, delete_node(r.fs, r.node, refused), "exclusive")
             f == Now
             mv == moved
             hold == Holds(locks, handles)
  <1>1. /\ moved' = moved
        /\ Leaves(IF r.node = Nothing THEN r ELSE s, locks, handles)
    BY DEF action_delete_object
  <1>2. op.kind \in {"lock", "file"}  BY DEF LockIt
  <1> HIDE DEF op, no
  <1>3. Locked(Now, moved, "exclusive", r)  BY <1>2, NamedLocked
  <1> HIDE DEF r
  <1>4. CASE r.node = Nothing
    <2>1. Left(Now, moved, Holds(locks, handles), r)  BY <1>3, <1>4, LockedFails
    <2>2. Fine(After, locks', handles', scan', moved)  BY <1>1, <1>4, <2>1, LeavesHeld
    <2> QED  BY <1>1, <2>2, AfterIsNow
  <1>5. CASE r.node # Nothing
    <2>1. Good(f, mv) /\ Matches(f, hold) /\ Locked(f, mv, "exclusive", r)  BY <1>3, IInvIs
    <2> HIDE DEF f, mv, hold
    <2>2. Left(f, mv, hold, s)  BY <1>5, <2>1, DeleteKeeps
    <2>3. Leaves(s, locks, handles)  BY <1>1, <1>5
    <2> HIDE DEF s
    <2>4. Fine(After, locks', handles', scan', moved)
      BY <2>2, <2>3, LeavesHeld DEF f, mv, hold
    <2> QED  BY <1>1, <2>4, AfterIsNow
  <1> QED  BY <1>4, <1>5

LEMMA RenamePacketKeeps ==
  ASSUME IInv, NEW l \in Held \cup {Nothing}, NEW name \in PacketNames,
         NEW name2 \in NewNames, action_rename_object(l, name, l, name2)
  PROVE  IInv'
  <1> DEFINE op == LockIt
             no == FALSE
             f == Now
             mv == moved
             hold == Holds(locks, handles)
             r == node_operation(f, l, name, "exclusive", op, no)
             e == r.fs
             n == r.node
             r2 == node_operation(e, l, name2, "shared", RenameOf(n), no)
             s == Released(r, r2, "exclusive")
  <1>1. /\ n = Nothing => Leaves(r, locks, handles) /\ moved' = moved
        /\ n # Nothing =>
             /\ Leaves(s, locks, handles)
             /\ moved' = (moved \/ (/\ r2.status = "ok" /\ r2.err = "none"
                                    /\ e.nodes[n].children # <<>>))
    BY DEF action_rename_object
  <1>2. op.kind \in {"lock", "file"}  BY DEF LockIt
  <1> HIDE DEF op
  <1>3. Locked(f, mv, "exclusive", r)
    <2> HIDE DEF no
    <2> QED  BY <1>2, NamedLocked
  <1>4. CASE n = Nothing
    <2> HIDE DEF r
    <2>1. Left(f, mv, hold, r)  BY <1>3, <1>4, LockedFails
    <2>2. Fine(After, locks', handles', scan', mv)  BY <1>1, <1>4, <2>1, LeavesHeld
    <2> QED  BY <1>1, <1>4, <2>2, AfterIsNow
  <1>5. CASE n # Nothing
    <2>1. Good(f, mv) /\ IsFs(f) /\ Matches(f, hold) /\ DOMAIN f.nodes = DOMAIN nodes
          /\ LockKey(l) \in DOMAIN f.nodes /\ NameOk(name2) /\ "exclusive" \in Access
      BY IInvIs, NowIs, NamesOk DEF Access
    <2>2. PICK g : /\ Good(g, mv) /\ Extends(f, g) /\ n \in DOMAIN g.nodes
                   /\ CanLock(g, n, "exclusive") /\ e = Lock(g, n, "exclusive")
      BY <1>3, <1>5 DEF Locked
    <2> HIDE DEF f, mv, hold, r, e, n
    <2>3. Good(e, mv) /\ SameTree(e, g, n)  BY <2>2, CountsGood
    <2>4. n \in DOMAIN e.nodes /\ LockKey(l) \in DOMAIN e.nodes
      BY <2>1, <2>2, <2>3 DEF SameTree, Extends
    <2>5. \/ Refused(e, mv, r2)
          \/ \E w, dir, last : Renames(e, mv, n, w, dir, last, r2)
      BY <2>1, <2>3, <2>4, RenameOperation
    <2>6. Leaves(s, locks, handles)  BY <1>1, <1>5
    <2>7. CASE Refused(e, mv, r2)
      <3> HIDE DEF r2
      <3>1. r2.status = "ok" => r2.err # "none"  BY <2>7 DEF Refused
      <3>2. moved' = moved \/ (moved' <=> moved)  BY <1>1, <1>5, <3>1
      <3>3. s.status = "ok" => Good(s.fs, mv) /\ Extends(f, s.fs)
        <4>1. r.node \in DOMAIN g.nodes /\ CanLock(g, r.node, "exclusive")
              /\ r.fs = Lock(g, r.node, "exclusive") /\ Refused(r.fs, mv, r2)
          BY <2>2, <2>7 DEF e, n
        <4> QED  BY <2>1, <2>2, <4>1, ReleasedKeeps
      <3> HIDE DEF s
      <3>4. Left(f, mv, hold, s)  BY <2>1, <3>3, LeftExtended
      <3>5. Left(Now, moved, Holds(locks, handles), s)  BY <3>4 DEF f, mv, hold
      <3>6. Fine(After, locks', handles', scan', moved)  BY <2>6, <3>5, LeavesHeld
      <3>7. Fine(After, locks', handles', scan', moved')
        <4>1. Good(After, moved')  BY <3>2, <3>6, GoodMoved DEF Fine
        <4> QED  BY <3>6, <4>1 DEF Fine
      <3> QED  BY <3>7, AfterIsNow
    <2>8. ASSUME NEW w, NEW dir, NEW last, Renames(e, mv, n, w, dir, last, r2)
          PROVE  IInv'
      <3> HIDE DEF r2
      <3>1. r2.status = "ok" /\ r2.err = "none"  BY <2>8 DEF Renames, Answer
      <3> DEFINE mv2 == moved'
      <3>2. mv => mv2  BY <1>1, <1>5, <3>1 DEF mv
      <3>3. e.nodes[n].children # <<>> => mv2  BY <1>1, <1>5, <3>1
      <3> HIDE DEF mv2
      <3>4. Good(r2.fs, mv2) /\ Matches(r2.fs, hold) /\ Kept(f, r2.fs)
        <4>1. Locked(f, mv, "exclusive", r) /\ r.node # Nothing
              /\ Renames(r.fs, mv, r.node, w, dir, last, r2)
          BY <1>3, <1>5, <2>8 DEF e, n, f, mv
        <4>2. Notes(mv, r.fs, r.node, mv2)  BY <3>2, <3>3 DEF Notes, e, n
        <4> QED  BY ONLY <2>1, <4>1, <4>2, RenameKeeps
      <3>5. s = r2  BY <3>1 DEF Released
      <3> HIDE DEF s
      <3>6. Left(f, mv2, hold, r2)  BY <3>4 DEF Left
      <3>7. Left(Now, mv2, Holds(locks, handles), r2)  BY <3>6 DEF f, hold
      <3>8. Fine(After, locks', handles', scan', mv2)  BY <2>6, <3>5, <3>7, LeavesHeld
      <3> QED  BY <3>8, AfterIsNow DEF mv2
    <2> QED  BY <2>5, <2>7, <2>8
  <1> QED  BY <1>4, <1>5

-----------------------------------------------------------------------------
(* The scan.                                                                *)
LEMMA StillKeeps ==
  ASSUME IInv, UNCHANGED <<host, nodes, next_id, locks, handles, moved>>,
         ScanOK(Now, locks, scan')
  PROVE  IInv'
  <1>1. After = Now  BY DEF After, Now
  <1>2. Fine(Now, locks, handles, scan', moved)  BY DEF IInv, Fine
  <1>3. Fine(After, locks', handles', scan', moved')  BY <1>1, <1>2
  <1> QED  BY <1>3, AfterIsNow

LEMMA ReportedOK ==
  ASSUME NEW fs, IsFs(fs), NEW ls, NEW sc, IsScan(sc), sc.lock \in Slots,
         NEW dir \in DOMAIN fs.nodes, ls[sc.lock].node = dir, NEW n \in DOMAIN fs.nodes,
         NEW owed, owed \subseteq Names, Ahead(fs, dir, n, owed),
         NEW s, s = [sc EXCEPT !.last = n, !.owed = owed, !.cut = FALSE]
  PROVE  ScanOK(fs, ls, s)
  <1>1. /\ sc = [lock |-> sc.lock, last |-> sc.last, owed |-> sc.owed, cut |-> sc.cut,
                 missed |-> sc.missed]
        /\ sc.missed = {}
    BY DEF IsScan
  <1>2. s = [lock |-> sc.lock, last |-> n, owed |-> owed, cut |-> FALSE, missed |-> {}]
    BY <1>1
  <1>3. s.lock = sc.lock /\ s.last = n /\ s.owed = owed /\ ~ s.cut /\ s.missed = {}
    BY ONLY <1>2
  <1>4. n \in Nat /\ n >= 1 /\ n < fs.next  BY NodeFields
  <1>5. IsScan(s)  BY <1>2, <1>3, <1>4 DEF IsScan
  <1>6. s.last # Nothing  BY <1>3, <1>4 DEF Nothing
  <1>7. Standing(fs, dir, s)  BY <1>3, <1>4 DEF Standing
  <1> QED  BY <1>3, <1>5, <1>6, <1>7 DEF ScanOK

LEMMA NoMoreIs ==
  ASSUME NEW owed, NEW cut, cut \in BOOLEAN, ~ cut => owed = {}, NoMoreEntries(owed, cut)
  PROVE  scan' = NoScan
  <1> DEFINE missed == IF cut THEN {} ELSE owed
  <1>1. scan' = [NoScan EXCEPT !.missed = missed]  BY DEF NoMoreEntries
  <1>2. missed = {}  OBVIOUS
  <1> HIDE DEF missed
  <1> QED  BY <1>1, <1>2 DEF NoScan

LEMMA ExamineObjectKeeps ==
  ASSUME IInv, NEW l, action_examine_object(l)
  PROVE  IInv'
  <1>1. /\ UNCHANGED <<host, nodes, next_id, locks, handles, moved>>
        /\ scan' = [NoScan EXCEPT !.lock = l] /\ l \in Slots /\ locks[l] # NoHold
    BY DEF action_examine_object, Held
  <1>2. locks[l].node \in DOMAIN Now.nodes  BY <1>1, IInvIs, NowIs
  <1> DEFINE s == scan'
  <1>3. s = [lock |-> l, last |-> Nothing, owed |-> {}, cut |-> FALSE, missed |-> {}]
    BY <1>1 DEF NoScan
  <1> HIDE DEF s
  <1>4. s.lock = l /\ s.last = Nothing /\ s.owed = {} /\ s.cut = FALSE /\ s.missed = {}
    BY <1>3
  <1>5. IsScan(s)  BY <1>3, <1>4 DEF IsScan, Nothing
  <1>6. ScanOK(Now, locks, s)  BY <1>1, <1>2, <1>4, <1>5 DEF ScanOK
  <1> QED  BY <1>1, <1>6, StillKeeps DEF s

LEMMA ExamineFirstKeeps ==
  ASSUME IInv, ExamineFirst
  PROVE  IInv'
  <1> DEFINE f == Now
             mv == moved
             sc == scan
             ls == locks
             hold == Holds(locks, handles)
             dir == LockKey(scan.lock)
             path == nodes[dir].path
             found == Entries(Now, path)
  <1>1. PICK order \in Orders(found) :
          LET fs == Learn(f, dir, order)
              children == fs.nodes[dir].children
          IN  /\ nodes' = fs.nodes /\ next_id' = fs.next
              /\ IF children = <<>> THEN NoMoreEntries(found, FALSE)
                 ELSE Reports(fs, found, Head(children))
    BY DEF ExamineFirst
  <1> DEFINE g == Learn(f, dir, order)
             s == g.nodes[dir].children
  <1>2. /\ sc.lock # Nothing /\ host' = host /\ locks' = locks /\ handles' = handles
        /\ moved' = moved
    BY DEF ExamineFirst
  <1>3. /\ Good(f, mv) /\ IsFs(f) /\ Matches(f, hold) /\ ScanOK(f, ls, sc)
        /\ ls \in [Slots -> Hold] /\ handles \in [Indices -> Hold]
    BY IInvIs DEF IInv, Fine
  <1>4. sc.lock \in Slots /\ ls[sc.lock].node = dir /\ dir \in DOMAIN f.nodes /\ IsScan(sc)
    BY <1>2, <1>3 DEF ScanOK, LockKey
  <1>5. path = f.nodes[dir].path /\ path \in Paths  BY <1>3, <1>4, NodeFields, NowIs
  <1>6. found \subseteq Names /\ \A n \in found : Exists(f, Append(path, n))
    BY DEF Entries
  <1>7. nodes' = g.nodes /\ next_id' = g.next
        /\ IF s = <<>> THEN NoMoreEntries(found, FALSE) ELSE Reports(g, found, Head(s))
    BY <1>1
  <1>7a. f.host = host  BY NowIs
  <1> HIDE DEF f, mv, sc, ls, hold, dir, path, found
  <1>8. /\ Len(order) \in Nat /\ \A i \in 1 .. Len(order) : order[i] \in found
        /\ \A n \in found : \E i \in 1 .. Len(order) : order[i] = n
    BY <1>1, <1>6, OrderIsWhole
  <1>9. \A i \in 1 .. Len(order) :
          order[i] \in Names /\ Exists(f, Append(f.nodes[dir].path, order[i]))
    BY <1>5, <1>6, <1>8
  <1>10. /\ Good(g, mv) /\ Extends(f, g) /\ g.host = f.host
         /\ \A i \in 1 .. Len(order) : \E c \in Kids(g, dir) :
              g.nodes[c].path = Append(path, order[i])
    BY <1>3, <1>4, <1>5, <1>8, <1>9, LearnKeeps
  <1> HIDE DEF g
  <1>11. IsFs(g) /\ Linked(g) /\ dir \in DOMAIN g.nodes  BY <1>4, <1>10 DEF Good, Extends
  <1>12. ASSUME NEW n \in found PROVE \E c \in Kids(g, dir) : Last(g.nodes[c].path) = n
    <2>1. PICK i \in 1 .. Len(order) : order[i] = n  BY <1>8
    <2>2. PICK c \in Kids(g, dir) : g.nodes[c].path = Append(path, n)  BY <1>10, <2>1
    <2>3. n \in Parts  BY <1>6 DEF Parts
    <2>4. Last(Append(path, n)) = n  BY <1>5, <2>3, AppendPath
    <2> QED  BY <2>2, <2>4
  <1>13. /\ s = <<>> => found = {}
         /\ s # <<>> => /\ Head(s) \in DOMAIN g.nodes
                        /\ Ahead(g, dir, Head(s), found \ {Last(g.nodes[Head(s)].path)})
    BY <1>11, <1>12, FirstReported
  <1>14. After = g  BY <1>2, <1>7, <1>7a, <1>10, <1>11 DEF After, IsFs
  <1>15. Matches(g, hold)  BY <1>3, <1>10, <1>11, MatchesExtends
  <1>16. ScanOK(g, ls, scan')
    <2>1. CASE s = <<>>
      <3>1. NoMoreEntries(found, FALSE) /\ found = {}  BY <1>7, <1>13, <2>1
      <3>2. scan' = NoScan
        <4>1. scan' = [NoScan EXCEPT !.missed = {}]  BY <3>1 DEF NoMoreEntries
        <4> QED  BY <4>1 DEF NoScan
      <3> QED  BY <3>2, NoScanOK
    <2>2. CASE s # <<>>
      <3> DEFINE n == Head(s)
                 owed == found \ {Last(g.nodes[n].path)}
                 t == scan'
      <3>1. t = [sc EXCEPT !.last = n, !.owed = owed, !.cut = FALSE]
        BY <1>7, <2>2 DEF Reports, sc
      <3>2. n \in DOMAIN g.nodes /\ Ahead(g, dir, n, owed)  BY <1>13, <2>2
      <3>3. owed \subseteq Names  BY <1>6
      <3> HIDE DEF n, owed, t
      <3>4. ScanOK(g, ls, t)  BY <1>4, <1>11, <3>1, <3>2, <3>3, ReportedOK
      <3> QED  BY <3>4 DEF t
    <2> QED  BY <2>1, <2>2
  <1>17. Fine(g, ls, handles, scan', mv)
    BY <1>3, <1>10, <1>15, <1>16 DEF Fine, hold, ls
  <1>18. Fine(After, locks', handles', scan', moved')
    BY <1>2, <1>14, <1>17 DEF ls, mv
  <1> QED  BY <1>18, AfterIsNow

LEMMA ExamineNextKeeps ==
  ASSUME IInv, ExamineNext
  PROVE  IInv'
  <1> DEFINE g == Now
             sc == scan
             ls == locks
             dir == LockKey(scan.lock)
             s == g.nodes[dir].children
             after == {i \in 2 .. Len(s) : s[i - 1] = sc.last}
             t == scan'
  <1>1. /\ sc.lock # Nothing /\ sc.last # Nothing
        /\ UNCHANGED <<host, nodes, next_id, locks, handles, moved>>
        /\ \/ after = {} /\ NoMoreEntries(sc.owed, sc.cut)
           \/ \E i \in after : Reports(g, sc.owed, s[i])
    BY NowIs DEF ExamineNext
  <1>2. IsFs(g) /\ Linked(g) /\ ScanOK(g, ls, sc)  BY DEF IInv, Fine, Good
  <1>3. /\ sc.lock \in Slots /\ ls[sc.lock].node = dir /\ dir \in DOMAIN g.nodes
        /\ IsScan(sc) /\ Standing(g, dir, sc)
    BY <1>1, <1>2 DEF ScanOK, LockKey
  <1>3a. sc.cut \in BOOLEAN /\ sc.owed \subseteq Names  BY <1>3 DEF IsScan
  <1> HIDE DEF dir
  <1>4. CASE after = {} /\ NoMoreEntries(sc.owed, sc.cut)
    <2>1. \A i \in 2 .. Len(s) : s[i - 1] # sc.last  BY <1>4
    <2>2. ASSUME ~ sc.cut PROVE sc.owed = {}
      <3>1. Ahead(g, dir, sc.last, sc.owed)  BY <1>3, <2>2 DEF Standing
      <3> DEFINE last == sc.last
                 owed == sc.owed
      <3>2. Ahead(g, dir, last, owed) /\ \A i \in 2 .. Len(s) : s[i - 1] # last
        BY <2>1, <3>1
      <3> HIDE DEF last, owed, g
      <3>3. owed = {}  BY <1>2, <1>3, <3>2, NextReported
      <3> QED  BY <3>3 DEF owed
    <2>3. scan' = NoScan
      <3> DEFINE owed == sc.owed
                 cut == sc.cut
      <3>1. cut \in BOOLEAN /\ (~ cut => owed = {}) /\ NoMoreEntries(owed, cut)
        BY <1>3a, <1>4, <2>2
      <3> HIDE DEF owed, cut
      <3> QED  BY <3>1, NoMoreIs
    <2>4. ScanOK(Now, locks, scan')  BY <2>3, NoScanOK
    <2> QED  BY <1>1, <2>4, StillKeeps
  <1>5. ASSUME NEW i \in after, Reports(g, sc.owed, s[i]) PROVE IInv'
    <2> DEFINE last == sc.last
               owed == sc.owed
               n == s[i]
               left == owed \ {Last(g.nodes[n].path)}
    <2>1. i \in 2 .. Len(s) /\ s[i - 1] = last  BY <1>5
    <2>2. t = [sc EXCEPT !.last = n, !.owed = left, !.cut = FALSE]  BY <1>5 DEF Reports
    <2>3. last \in DOMAIN g.nodes
      <3>1. s \in Seq(Nat)  BY <1>2, <1>3, NodeFields
      <3>2. s[i - 1] \in ToSet(s)
        <4> HIDE DEF s
        <4> DEFINE h == i - 1
        <4>1. h \in 1 .. Len(s)  BY <2>1, <3>1, SeqNat
        <4>2. h \in DOMAIN s  BY <3>1, <4>1, SeqNat
        <4> HIDE DEF h
        <4>3. s[h] \in ToSet(s)  BY <4>2 DEF ToSet
        <4> QED  BY <4>3 DEF h
      <3> QED  BY <1>2, <1>3, <2>1, <3>2 DEF Linked, Kids
    <2>4. Ahead(g, dir, last, owed)  BY <1>3, <2>3 DEF Standing
    <2>5. \A k \in 2 .. Len(s) : s[k - 1] = last =>
              /\ s[k] \in DOMAIN g.nodes /\ last \in DOMAIN g.nodes
              /\ Ahead(g, dir, s[k], owed \ {Last(g.nodes[s[k]].path)})
      <3> HIDE DEF last, owed, g
      <3> QED  BY <1>2, <1>3, <2>4, NextReported
    <2>6. n \in DOMAIN g.nodes /\ Ahead(g, dir, n, left)  BY <2>1, <2>5
    <2>7. left \subseteq Names  BY <1>3a
    <2> HIDE DEF g, sc, ls, n, left, t
    <2>8. ScanOK(g, ls, t)  BY <1>2, <1>3, <2>2, <2>6, <2>7, ReportedOK
    <2>9. ScanOK(Now, locks, scan')  BY <2>8 DEF g, ls, t
    <2> QED  BY <1>1, <2>9, StillKeeps
  <1> QED  BY <1>1, <1>4, <1>5

-----------------------------------------------------------------------------
LEMMA ResetKeeps ==
  ASSUME IInv, reset
  PROVE  IInv'
  <1>1. Fresh /\ host' = host  BY DEF reset
  <1> DEFINE mv == moved'
  <1> HIDE DEF mv
  <1>2. Fine(After, locks', handles', scan', mv)  BY <1>1, FreshKeeps
  <1> QED  BY <1>2, AfterIsNow DEF mv

LEMMA InitIsFine == Init => IInv
  <1> SUFFICES ASSUME Init PROVE IInv
    OBVIOUS
  <1>1. host \in [Paths -> Kinds] /\ HostTree(host)
    BY VolumesAssumption DEF Init, Kinds
  <1>2. Now = [host |-> host, nodes |-> Root, next |-> RootId + 1]  BY DEF Init, Now
  <1> DEFINE f == Now
             ls == locks
             hs == handles
             mv == moved
  <1>3. ls = [l \in Slots |-> NoHold] /\ hs = [i \in Indices |-> NoHold] /\ scan = NoScan
        /\ f = [host |-> host, nodes |-> Root, next |-> RootId + 1]
    BY <1>2 DEF Init
  <1> HIDE DEF f, ls, hs, mv
  <1>4. Fine(f, ls, hs, NoScan, mv)  BY <1>1, <1>3, FreshFine
  <1> QED  BY <1>3, <1>4 DEF IInv, f, ls, hs, mv

LEMMA StutterKeeps ==
  ASSUME IInv, UNCHANGED vars
  PROVE  IInv'
  BY DEF IInv, Now, vars

LEMMA PacketKeeps ==
  ASSUME IInv, NEW l \in Held \cup {Nothing},
         \/ \E name \in PacketNames :
              \/ action_set_protect(l, name)
              \/ action_create_dir(l, name, TRUE, FALSE)
              \/ \E name2 \in NewNames : action_rename_object(l, name, l, name2)
         \/ \E full \in BOOLEAN :
              \/ action_copy_dir(l, full)
              \/ action_parent(l, full)
              \/ \E name \in PacketNames, access \in Access :
                   action_locate_object(l, name, access, full)
         \/ \E name \in PacketNames, refused \in BOOLEAN :
              \/ action_create_dir(l, name, FALSE, refused)
              \/ action_delete_object(l, name, refused)
              \/ \E mode \in {"update", "input", "output"} : action_find(mode, l, name, refused)
  PROVE  IInv'
  <1>1. ASSUME NEW name \in PacketNames, action_set_protect(l, name) PROVE IInv'
    BY <1>1, SetProtectKeeps
  <1>2. ASSUME NEW name \in PacketNames, NEW full \in BOOLEAN, NEW refused \in BOOLEAN,
               action_create_dir(l, name, full, refused)
        PROVE  IInv'
    BY <1>2, CreateDirPacketKeeps
  <1>3. ASSUME NEW name \in PacketNames, NEW name2 \in NewNames,
               action_rename_object(l, name, l, name2)
        PROVE  IInv'
    BY <1>3, RenamePacketKeeps
  <1>4. ASSUME NEW full \in BOOLEAN, action_copy_dir(l, full) PROVE IInv'
    BY <1>4, CopyDirKeeps
  <1>5. ASSUME NEW full \in BOOLEAN, action_parent(l, full) PROVE IInv'
    BY <1>5, ParentKeeps
  <1>6. ASSUME NEW name \in PacketNames, NEW access \in Access, NEW full \in BOOLEAN,
               action_locate_object(l, name, access, full)
        PROVE  IInv'
    BY <1>6, LocateKeeps
  <1>7. ASSUME NEW name \in PacketNames, NEW refused \in BOOLEAN,
               action_delete_object(l, name, refused)
        PROVE  IInv'
    BY <1>7, DeletePacketKeeps
  <1>8. ASSUME NEW name \in PacketNames, NEW refused \in BOOLEAN, NEW mode,
               action_find(mode, l, name, refused)
        PROVE  IInv'
    BY <1>8, FindPacketKeeps
  <1> QED  BY <1>1, <1>2, <1>3, <1>4, <1>5, <1>6, <1>7, <1>8

LEMMA NextKeeps == IInv /\ [Next]_vars => IInv'
  <1> SUFFICES ASSUME IInv, [Next]_vars PROVE IInv'
    OBVIOUS
  <1>1. CASE UNCHANGED vars  BY <1>1, StutterKeeps
  <1>2. ASSUME NEW l \in Slots, action_free_lock(l) PROVE IInv'  BY <1>2, FreeLockKeeps
  <1>3. ASSUME NEW l \in ScanSlots, action_examine_object(l) PROVE IInv'
    BY <1>3, ExamineObjectKeeps
  <1>4. ASSUME NEW i \in Indices, action_end(i) PROVE IInv'  BY <1>4, EndKeeps
  <1>5. CASE ExamineFirst  BY <1>5, ExamineFirstKeeps
  <1>6. CASE ExamineNext  BY <1>6, ExamineNextKeeps
  <1>7. CASE reset  BY <1>7, ResetKeeps
  <1> QED  BY <1>1, <1>2, <1>3, <1>4, <1>5, <1>6, <1>7, PacketKeeps DEF Next

LEMMA VolumesInvariant == Spec => []IInv
  BY InitIsFine, NextKeeps, PTL DEF Spec

-----------------------------------------------------------------------------
LEMMA CountsShown == IInv => HoldersMatch
  <1> SUFFICES ASSUME IInv PROVE HoldersMatch
    OBVIOUS
  <1> DEFINE hold == Holds(locks, handles)
  <1>1. /\ locks \in [Slots -> Hold] /\ handles \in [Indices -> Hold]
        /\ Matches(Now, hold)
        /\ \A l \in Slots : locks[l] # NoHold => locks[l].node \in DOMAIN nodes
        /\ \A i \in Indices : handles[i] # NoHold => handles[i].node \in DOMAIN nodes
    BY IInvIs
  <1>2. /\ \A l \in Slots : <<"lock", l>> \in Places /\ hold[<<"lock", l>>] = locks[l]
        /\ \A i \in Indices : <<"handle", i>> \in Places /\ hold[<<"handle", i>>] = handles[i]
    BY <1>1, HoldsIs
  <1>3. \A n \in DOMAIN nodes :
          IF Alone(hold, n) THEN nodes[n].count = -1 /\ Cardinality(At(hold, n)) = 1
          ELSE nodes[n].count = Cardinality(At(hold, n))
    BY <1>1, NowIs DEF Matches
  <1> HIDE DEF hold
  <1>4. ASSUME NEW n PROVE Holders(n) = At(hold, n)
    <2>1. ASSUME NEW h \in Holders(n) PROVE h \in At(hold, n)
      <3>1. CASE \E l \in Slots : h = <<"lock", l>> /\ locks[l].node = n
        BY <1>2, <3>1 DEF At
      <3>2. CASE \E i \in Indices : h = <<"handle", i>> /\ handles[i].node = n
        BY <1>2, <3>2 DEF At
      <3> QED  BY <2>1, <3>1, <3>2 DEF Holders
    <2>2. ASSUME NEW h \in At(hold, n) PROVE h \in Holders(n)
      <3>1. h \in Places /\ hold[h].node = n  BY <2>2 DEF At
      <3>2. CASE h \in {"lock"} \X Slots
        <4>1. PICK l \in Slots : h = <<"lock", l>>  BY <3>2
        <4>2. locks[l].node = n  BY <1>2, <3>1, <4>1
        <4> QED  BY <4>1, <4>2 DEF Holders
      <3>3. CASE h \in {"handle"} \X Indices
        <4>1. PICK i \in Indices : h = <<"handle", i>>  BY <3>3
        <4>2. handles[i].node = n  BY <1>2, <3>1, <4>1
        <4> QED  BY <4>1, <4>2 DEF Holders
      <3> QED  BY <3>1, <3>2, <3>3 DEF Places
    <2> QED  BY <2>1, <2>2
  <1>5. ASSUME NEW n PROVE HeldExclusively(n) <=> Alone(hold, n)
    <2>1. ASSUME NEW l \in Slots
          PROVE  locks[l] = [node |-> n, access |-> "exclusive"]
                   <=> locks[l].node = n /\ locks[l].access = "exclusive"
      <3>1. locks[l] \in Hold  BY <1>1
      <3> QED  BY <3>1, HoldTypes
    <2>2. ASSUME NEW i \in Indices
          PROVE  handles[i] = [node |-> n, access |-> "exclusive"]
                   <=> handles[i].node = n /\ handles[i].access = "exclusive"
      <3>1. handles[i] \in Hold  BY <1>1
      <3> QED  BY <3>1, HoldTypes
    <2>3. ASSUME HeldExclusively(n) PROVE Alone(hold, n)
      BY <1>2, <2>1, <2>2, <2>3 DEF HeldExclusively, Alone
    <2>4. ASSUME Alone(hold, n) PROVE HeldExclusively(n)
      <3>1. PICK h \in Places : hold[h].node = n /\ hold[h].access = "exclusive"
        BY <2>4 DEF Alone
      <3>2. CASE h \in {"lock"} \X Slots
        <4>1. PICK l \in Slots : h = <<"lock", l>>  BY <3>2
        <4>2. locks[l].node = n /\ locks[l].access = "exclusive"  BY <1>2, <3>1, <4>1
        <4> QED  BY <2>1, <4>2 DEF HeldExclusively
      <3>3. CASE h \in {"handle"} \X Indices
        <4>1. PICK i \in Indices : h = <<"handle", i>>  BY <3>3
        <4>2. handles[i].node = n /\ handles[i].access = "exclusive"  BY <1>2, <3>1, <4>1
        <4> QED  BY <2>2, <4>2 DEF HeldExclusively
      <3> QED  BY <3>1, <3>2, <3>3 DEF Places
    <2> QED  BY <2>3, <2>4
  <1>6. \A l \in Held : locks[l].node \in DOMAIN nodes  BY <1>1 DEF Held
  <1> QED  BY <1>1, <1>3, <1>4, <1>5, <1>6 DEF HoldersMatch

LEMMA TreeShown == IInv => LiveTree
  <1> SUFFICES ASSUME IInv PROVE LiveTree
    OBVIOUS
  <1> DEFINE f == Now
  <1>1. IsFs(f) /\ Linked(f) /\ (~ moved => Reached(f)) /\ f.nodes = nodes
    BY IInvIs, NowIs DEF Good, Known
  <1> HIDE DEF f
  <1>2. \A n \in DOMAIN nodes : ChildrenOf(n) = Kids(f, n)  BY <1>1 DEF ChildrenOf, Kids
  <1>3. ASSUME ~ moved, NEW n \in DOMAIN nodes PROVE ~ Dangling(Now, n)
    <2>1. nodes[RootId].parent = RootId /\ RootId \in DOMAIN nodes
      BY <1>1 DEF Linked, IsFs
    <2>2. n # RootId => nodes[n].parent \in DOMAIN nodes  BY <1>1, <1>3 DEF Reached
    <2> QED  BY <2>1, <2>2, NowIs DEF Dangling
  <1>4. ASSUME NEW n \in DOMAIN nodes
        PROVE  /\ ChildrenOf(n) \subseteq DOMAIN nodes
               /\ Cardinality(ChildrenOf(n)) = Len(nodes[n].children)
               /\ \A c \in ChildrenOf(n) :
                    nodes[c].parent = n /\ Front(nodes[c].path) = nodes[n].path
               /\ \A c, d \in ChildrenOf(n) : nodes[c].path = nodes[d].path => c = d
    <2> DEFINE s == nodes[n].children
    <2>1. s \in Seq(Nat) /\ IsInjective(s)  BY <1>1, NodeFields DEF Linked
    <2> HIDE DEF s
    <2>2. Cardinality(ToSet(s)) = Len(s)  BY <2>1, InjectiveCardinality
    <2>3. Cardinality(ChildrenOf(n)) = Len(nodes[n].children)  BY <2>2 DEF ChildrenOf, s
    <2> QED  BY <1>1, <1>2, <2>3 DEF Linked
  <1> QED  BY <1>3, <1>4 DEF LiveTree

LEMMA ScanShown == IInv => ScanSeesAll
  BY DEF IInv, Fine, ScanOK, IsScan, ScanSeesAll

(***************************************************************************)
(* For any host, names and number of locks and handles: access_count_ of   *)
(* each node is what the guest holds of it, whatever packets failed half   *)
(* way; an exclusive holder is alone, and what is held has a node          *)
(* (node_operation, the packet handlers and ~file_handle of harddisk.cpp). *)
(***************************************************************************)
THEOREM HoldersMatchCorrect == Spec => []HoldersMatch
  BY CountsShown, VolumesInvariant, PTL

(***************************************************************************)
(* For any host and names: what the root reaches stays a tree without      *)
(* siblings of one name through every creation, deletion and renaming, and *)
(* no node refers to an erased one before a directory with known entries   *)
(* was renamed (filesystem_handler::make_node, rename, delete_node).       *)
(***************************************************************************)
THEOREM LiveTreeCorrect == Spec => []LiveTree
  BY TreeShown, VolumesInvariant, PTL

(***************************************************************************)
(* For any host and names: an ExNext loop that runs to its end reported    *)
(* every entry that was there all the time, however packets came between   *)
(* its steps, unless the entry it stood at went (find_next_node).          *)
(***************************************************************************)
THEOREM ScanSeesAllCorrect == Spec => []ScanSeesAll
  BY ScanShown, VolumesInvariant, PTL
=============================================================================
