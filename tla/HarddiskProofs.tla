---------------------------- MODULE HarddiskProofs ----------------------------
(***************************************************************************)
(* Theorems about the harddisk board.                                      *)
(*                                                                         *)
(* LocalRam: for RAM of any size, any names and any size of a lock, the    *)
(* free list stays a list of the memory nobody has.                        *)
(*                                                                         *)
(* Board: for any disks and requests and any number of tasks, a request is *)
(* carried out at most once, and inside its disk.                          *)
(***************************************************************************)
EXTENDS LocalRam, Board, WellFoundedInduction, SequenceTheorems, TLAPS

-----------------------------------------------------------------------------
(* Some element of a non-empty set of naturals is the least. *)
LEMMA MinExists ==
  ASSUME NEW S, S \subseteq Nat, S # {}
  PROVE  \E i \in S : \A j \in S : i <= j
  <1> DEFINE less == OpToRel(<, Nat)
  <1>1. IsWellFoundedOn(less, Nat)  BY NatLessThanWellFounded
  <1>2. \A x, y \in Nat : x < y => <<x, y>> \in less  BY DEF OpToRel
  <1> HIDE DEF less
  <1>3. PICK x \in S : \A y \in S : ~ (<<y, x>> \in less)
    BY <1>1, WFMin
  <1>4. ASSUME NEW j \in S PROVE x <= j
    <2>1. ~ (<<j, x>> \in less) /\ j \in Nat /\ x \in Nat  BY <1>3
    <2>2. ~ (j < x)  BY <1>2, <2>1
    <2> QED  BY <2>1, <2>2
  <1> QED  BY <1>3, <1>4

(* Some element of a non-empty bounded set of naturals is the greatest:    *)
(* the least of their distances from the bound exists.                     *)
LEMMA MaxExists ==
  ASSUME NEW m \in Nat, NEW S, S \subseteq 0 .. m, S # {}
  PROVE  \E i \in S : \A j \in S : j <= i
  <1> DEFINE T == {m - i : i \in S}
  <1>1. T \subseteq Nat /\ T # {}
    <2>1. \A i \in S : m - i \in Nat  OBVIOUS
    <2>2. PICK i \in S : TRUE  OBVIOUS
    <2> QED  BY <2>1, <2>2
  <1>2. PICK t \in T : \A u \in T : t <= u
    <2> HIDE DEF T
    <2> QED  BY <1>1, MinExists
  <1>3. PICK i \in S : t = m - i  BY <1>2
  <1>4. ASSUME NEW j \in S PROVE j <= i
    <2>1. m - j \in T /\ j \in Nat /\ i \in Nat  BY <1>4, <1>3
    <2>2. m - i <= m - j  BY <1>2, <1>3, <2>1
    <2> HIDE DEF T
    <2> QED BY <2>1, <2>2
  <1> QED  BY <1>3, <1>4

(* Induction, over a set of naturals. *)
LEMMA SetInduction ==
  ASSUME NEW T, 0 \in T, \A n \in Nat : n \in T => n + 1 \in T
  PROVE  \A n \in Nat : n \in T
  <1> SUFFICES ASSUME NEW m \in Nat, m \notin T PROVE FALSE
    OBVIOUS
  <1> DEFINE S == {n \in Nat : n \notin T}
  <1>1. S \subseteq Nat /\ S # {}  OBVIOUS
  <1>2. PICK i \in S : \A j \in S : i <= j
    <2> HIDE DEF S
    <2> QED  BY <1>1, MinExists
  <1>3. i # 0 /\ i - 1 \in Nat  BY <1>2
  <1>4. i - 1 \in T  BY <1>2, <1>3
  <1>5. i - 1 + 1 = i  BY <1>3
  <1> QED  BY <1>2, <1>3, <1>4, <1>5

-----------------------------------------------------------------------------
(* The walk along a list, of any head and headers *)
N == local_ram_size

WalkStep(h, r, w, n) ==
  IF n = 0 THEN h ELSE IF InRam(w[n - 1]) THEN r[w[n - 1]].next ELSE w[n - 1]

Walk(h, r) == CHOOSE w : w = [n \in 0 .. N |-> WalkStep(h, r, w, n)]

ListOf(h, r) == {Walk(h, r)[n] : n \in 0 .. N} \cap Cells

Rams == [Cells -> [next : Offsets, size : 0 .. N]]

LEMMA NNat == N \in Nat /\ N > 0 /\ Offsets \subseteq Nat /\ local_ram_list_end = 2 * N
  BY LocalRamAssumption DEF N, Offsets, Cells, local_ram_list_end

LEMMA WalkIs == walk = Walk(heap_ptr, ram)
  BY DEF walk, Walk, WalkStep, N

LEMMA WalkPrimeIs == walk' = Walk(heap_ptr', ram')
  BY DEF walk, Walk, WalkStep, N

LEMMA ListedIs == Listed = ListOf(heap_ptr, ram) /\ Listed' = ListOf(heap_ptr', ram')
  <1>1. Listed = {walk[n] : n \in 0 .. N} \cap Cells  BY DEF Listed, N
  <1>2. Listed' = {walk'[n] : n \in 0 .. N} \cap Cells  BY DEF Listed, N, Cells
  <1> QED  BY <1>1, <1>2, WalkIs, WalkPrimeIs DEF ListOf

LEMMA WalkExists ==
  ASSUME NEW h, NEW r, NEW m \in Nat
  PROVE  \E w : w = [n \in 0 .. m |-> WalkStep(h, r, w, n)]
  <1> DEFINE T == {k \in Nat : \E w : w = [n \in 0 .. k |-> WalkStep(h, r, w, n)]}
  <1>1. 0 \in T
    <2> DEFINE w == [n \in 0 .. 0 |-> h]
    <2>1. w = [n \in 0 .. 0 |-> WalkStep(h, r, w, n)]  BY DEF WalkStep
    <2> QED  BY <2>1
  <1>2. ASSUME NEW k \in Nat, k \in T PROVE k + 1 \in T
    <2>1. PICK w : w = [n \in 0 .. k |-> WalkStep(h, r, w, n)]  BY <1>2
    <2> DEFINE g == [n \in 0 .. k + 1 |-> IF n = k + 1 THEN WalkStep(h, r, w, n) ELSE w[n]]
    <2>2. \A n \in 0 .. k : g[n] = w[n]  OBVIOUS
    <2>3. \A n \in 0 .. k + 1 : WalkStep(h, r, g, n) = WalkStep(h, r, w, n)
      <3> SUFFICES ASSUME NEW n \in 0 .. k + 1 PROVE WalkStep(h, r, g, n) = WalkStep(h, r, w, n)
        OBVIOUS
      <3> HIDE DEF g
      <3>1. n # 0 => n - 1 \in 0 .. k  OBVIOUS
      <3>2. n # 0 => g[n - 1] = w[n - 1]  BY <2>2, <3>1
      <3> QED  BY <3>2 DEF WalkStep
    <2>4. \A n \in 0 .. k : w[n] = WalkStep(h, r, w, n)  BY <2>1
    <2>5. \A n \in 0 .. k + 1 : g[n] = WalkStep(h, r, w, n)
      <3>1. \A n \in 0 .. k + 1 : n # k + 1 => n \in 0 .. k  OBVIOUS
      <3> QED  BY <2>4, <3>1
    <2>6. g = [n \in 0 .. k + 1 |-> g[n]]  OBVIOUS
    <2> HIDE DEF g
    <2>7. g = [n \in 0 .. k + 1 |-> WalkStep(h, r, g, n)]  BY <2>3, <2>5, <2>6
    <2> QED  BY <2>7
  <1> HIDE DEF T
  <1>3. \A k \in Nat : k \in T  BY <1>1, <1>2, SetInduction
  <1> QED  BY <1>3 DEF T

LEMMA WalkSteps ==
  ASSUME NEW h, NEW r
  PROVE  \A n \in 0 .. N : Walk(h, r)[n] = WalkStep(h, r, Walk(h, r), n)
  <1>1. \E w : w = [n \in 0 .. N |-> WalkStep(h, r, w, n)]  BY NNat, WalkExists
  <1>2. Walk(h, r) = [n \in 0 .. N |-> WalkStep(h, r, Walk(h, r), n)]  BY <1>1 DEF Walk
  <1> DEFINE w == Walk(h, r)
  <1> HIDE DEF w
  <1>3. w = [n \in 0 .. N |-> WalkStep(h, r, w, n)]  BY <1>2 DEF w
  <1>4. \A n \in 0 .. N : w[n] = WalkStep(h, r, w, n)  BY <1>3
  <1> QED  BY <1>4 DEF w

-----------------------------------------------------------------------------
(* S is what a list of ever higher blocks leads through *)
Chain(h, r, S) ==
  /\ S \subseteq Cells /\ h \in S \cup {local_ram_list_end}
  /\ \A p \in S : r[p].next \in S \cup {local_ram_list_end} /\ r[p].next > p
  /\ \A p \in S : p = h \/ \E q \in S : q < p /\ r[q].next = p

LEMMA ChainListed ==
  ASSUME NEW h, NEW r, NEW S, Chain(h, r, S)
  PROVE  ListOf(h, r) = S
  <1> DEFINE w == Walk(h, r)
  <1>0. \A p \in Cells : p \in Nat /\ InRam(p)  BY NNat DEF Cells, InRam, N
  <1>1. ~InRam(local_ram_list_end) /\ local_ram_list_end \notin Cells /\ S \subseteq Cells
    BY NNat DEF InRam, N, Cells, Chain
  <1>2. /\ w[0] = h
        /\ \A n \in Nat : n + 1 <= N =>
              w[n + 1] = IF InRam(w[n]) THEN r[w[n]].next ELSE w[n]
    <2>1. \A n \in 0 .. N : w[n] = WalkStep(h, r, w, n)  BY WalkSteps
    <2> HIDE DEF w
    <2>2. \A n \in Nat : n + 1 <= N => n + 1 \in 0 .. N /\ n + 1 # 0 /\ n + 1 - 1 = n  BY NNat
    <2>3. 0 \in 0 .. N  BY NNat
    <2> QED  BY <2>1, <2>2, <2>3 DEF WalkStep
  <1> HIDE DEF w
  <1>3. \A n \in Nat : n <= N => w[n] \in S \cup {local_ram_list_end} /\ w[n] >= n
    <2> DEFINE T == {n \in Nat : n <= N => w[n] \in S \cup {local_ram_list_end} /\ w[n] >= n}
    <2>1. 0 \in T
      <3>1. h \in Nat  BY <1>0, <1>1, NNat DEF Chain
      <3> QED  BY <1>2, <3>1 DEF Chain
    <2>2. ASSUME NEW n \in Nat, n \in T PROVE n + 1 \in T
      <3> SUFFICES ASSUME n + 1 <= N
                   PROVE  w[n + 1] \in S \cup {local_ram_list_end} /\ w[n + 1] >= n + 1
        OBVIOUS
      <3>1. w[n] \in S \cup {local_ram_list_end} /\ w[n] >= n  BY <2>2, NNat
      <3>2. CASE w[n] = local_ram_list_end
        <4>1. w[n + 1] = local_ram_list_end  BY <1>1, <1>2, <3>2
        <4> QED  BY <4>1, NNat
      <3>3. CASE w[n] \in S
        <4>1. w[n + 1] = r[w[n]].next  BY <1>0, <1>1, <1>2, <3>3
        <4>2. r[w[n]].next \in S \cup {local_ram_list_end} /\ r[w[n]].next > w[n]  BY <3>3 DEF Chain
        <4>3. w[n] \in Nat /\ w[n + 1] \in Nat  BY <1>0, <1>1, <3>3, <4>1, <4>2, NNat
        <4> QED  BY <3>1, <4>1, <4>2, <4>3
      <3> QED  BY <3>1, <3>2, <3>3
    <2> HIDE DEF T
    <2>3. \A n \in Nat : n \in T  BY <2>1, <2>2, SetInduction
    <2> QED  BY <2>3 DEF T
  <1>4. ListOf(h, r) \subseteq S
    <2> SUFFICES ASSUME NEW n \in 0 .. N, w[n] \in Cells PROVE w[n] \in S
      BY DEF ListOf, w
    <2> QED  BY <1>1, <1>3
  <1>5. S \subseteq ListOf(h, r)
    <2> SUFFICES ASSUME NEW s \in S, s \notin ListOf(h, r) PROVE FALSE
      OBVIOUS
    <2> DEFINE M == {p \in S : p \notin ListOf(h, r)}
    <2>1. PICK p \in M : \A q \in M : p <= q
      <3>1. M \subseteq Nat /\ M # {}  BY <1>0, <1>1
      <3> HIDE DEF M
      <3> QED  BY <3>1, MinExists
    <2>2. \A n \in 0 .. N : w[n] # p  BY <1>1, <2>1 DEF ListOf, w
    <2>3. p # h  BY <1>2, <2>2, NNat
    <2>4. PICK q \in S : q < p /\ r[q].next = p  BY <2>1, <2>3 DEF Chain
    <2>5. q \in ListOf(h, r)
      <3>1. q \in Nat /\ p \in Nat  BY <1>0, <1>1, <2>1
      <3> QED  BY <2>1, <2>4, <3>1
    <2>6. PICK n \in 0 .. N : w[n] = q  BY <2>5 DEF ListOf, w
    <2>7. q < N  BY <1>0, <1>1 DEF InRam, N
    <2>8. n \in Nat /\ n + 1 <= N
      <3>1. w[n] >= n  BY <1>3
      <3> QED  BY <1>0, <1>1, <2>6, <2>7, <3>1, NNat
    <2>9. w[n + 1] = p  BY <1>0, <1>1, <1>2, <2>4, <2>6, <2>8
    <2> QED  BY <2>2, <2>8, <2>9
  <1> QED  BY <1>4, <1>5

(* In a chain, what comes next is the next higher block *)
LEMMA ChainOrder ==
  ASSUME NEW h, NEW r, NEW S, Chain(h, r, S)
  PROVE  /\ \A p \in S : h <= p
         /\ \A p, q \in S : p < q => r[p].next <= q
  <1>0. S \subseteq Nat /\ local_ram_list_end \notin S /\ local_ram_list_end \in Nat
    BY NNat DEF Chain, Cells, N
  <1>1. ASSUME NEW s \in S, ~(h <= s) PROVE FALSE
    <2> DEFINE M == {p \in S : ~(h <= p)}
    <2>1. PICK p \in M : \A q \in M : p <= q
      <3>1. M \subseteq Nat /\ M # {}  BY <1>0, <1>1
      <3> HIDE DEF M
      <3> QED  BY <3>1, MinExists
    <2>2. h \in Nat /\ p \in Nat  BY <1>0, <2>1 DEF Chain
    <2>3. PICK q \in S : q < p /\ r[q].next = p  BY <2>1, <2>2 DEF Chain
    <2> QED  BY <1>0, <2>1, <2>2, <2>3
  <1>2. ASSUME NEW a \in S, NEW b \in S, a < b, ~(r[a].next <= b) PROVE FALSE
    <2> DEFINE M == {q \in S : \E p \in S : p < q /\ ~(r[p].next <= q)}
    <2>1. PICK q \in M : \A k \in M : q <= k
      <3>1. M \subseteq Nat /\ M # {}  BY <1>0, <1>2
      <3> HIDE DEF M
      <3> QED  BY <3>1, MinExists
    <2>2. PICK p \in S : p < q /\ ~(r[p].next <= q)  BY <2>1
    <2>3. p \in Nat /\ q \in Nat /\ r[p].next \in Nat  BY <1>0, <2>1 DEF Chain
    <2>4. q # h  BY <1>1, <2>2, <2>3
    <2>5. PICK k \in S : k < q /\ r[k].next = q  BY <2>1, <2>4 DEF Chain
    <2>6. k \in Nat  BY <1>0
    <2>7. k # p  BY <2>2, <2>3, <2>5
    <2>8. CASE k < p
      <3>1. p \in M  BY <2>2, <2>3, <2>5, <2>8
      <3> QED  BY <2>1, <2>2, <2>3, <3>1
    <2>9. CASE p < k
      <3>1. ~(r[p].next <= k)  BY <2>2, <2>3, <2>5, <2>6
      <3>2. k \in M  BY <2>9, <3>1
      <3> QED  BY <2>1, <2>3, <2>5, <2>6, <3>2
    <2> QED  BY <2>3, <2>6, <2>7, <2>8, <2>9
  <1> QED  BY <1>1, <1>2

-----------------------------------------------------------------------------
(* The blocks of a list are apart and inside the RAM *)
Sized(r, S) ==
  \A p \in S : r[p].size > 0 /\ p + r[p].size < r[p].next /\ p + r[p].size <= N

(* What a block is once size cells were cut from the head, and the list *)
CutRam(r, p, size) ==
  Cleared(IF r[p].size - size # 0
          THEN [r EXCEPT ![p + size] = Header(r[p].next, r[p].size - size)] ELSE r, p, size)
CutHead(r, p, size) == IF r[p].size - size # 0 THEN p + size ELSE r[p].next
CutList(r, p, size, S) == IF r[p].size - size # 0 THEN (S \ {p}) \cup {p + size} ELSE S \ {p}

LEMMA ChainTypes ==
  ASSUME NEW h, NEW r \in Rams, NEW S, Chain(h, r, S)
  PROVE  /\ S \subseteq Cells /\ S \subseteq Nat /\ local_ram_list_end \notin S
         /\ \A p \in S : r[p].next \in Nat /\ r[p].size \in Nat /\ r[p].size <= N /\ p < N /\ (r[p].next \in S \/ r[p].next = 2 * N)
         /\ Cells \subseteq Nat /\ \A c \in Cells : c < N
         /\ h \in S \/ h = 2 * N
  <1>1. Cells \subseteq Nat /\ \A c \in Cells : c < N
    BY NNat DEF Cells, N
  <1>2. S \subseteq Cells /\ local_ram_list_end = 2 * N /\ 2 * N \in Nat /\ local_ram_list_end \notin S
    BY <1>1, NNat DEF Chain
  <1>3. \A p \in S : r[p].size \in 0 .. N
    BY <1>2 DEF Rams
  <1>4. \A p \in S : p \in Nat /\ p < N /\ r[p].size \in Nat /\ r[p].size <= N
    BY <1>1, <1>2, <1>3, NNat
  <1>5. \A p \in S : r[p].next \in S \/ r[p].next = 2 * N
    BY <1>2 DEF Chain
  <1>6. \A p \in S : r[p].next \in Nat
    BY <1>2, <1>4, <1>5
  <1>7. h \in S \/ h = 2 * N
    BY <1>2 DEF Chain
  <1>8. S \subseteq Nat
    BY <1>4
  <1> QED  BY <1>1, <1>2, <1>4, <1>5, <1>6, <1>7, <1>8

LEMMA CutIs ==
  ASSUME NEW h, NEW r \in Rams, NEW S, Chain(h, r, S), Sized(r, S),
         h \in S, NEW size \in Nat, size > 0, size <= r[h].size
  PROVE  LET g == CutHead(r, h, size)
             q == CutRam(r, h, size)
             Q == CutList(r, h, size, S)
         IN  /\ q \in Rams /\ g \in Offsets /\ Chain(g, q, Q) /\ Sized(q, Q)
             /\ \A p \in Q :
                  \/ p \in S /\ p # h /\ q[p] = r[p]
                  \/ p = h + size /\ r[h].size # size /\ q[p] = Header(r[h].next, r[h].size - size)
  <1> DEFINE g == CutHead(r, h, size)
             q == CutRam(r, h, size)
             Q == CutList(r, h, size, S)
             rem == r[h].size - size
  <1>0. /\ S \subseteq Cells /\ S \subseteq Nat /\ local_ram_list_end \notin S
        /\ \A p \in S : r[p].next \in Nat /\ r[p].size \in Nat /\ r[p].size <= N /\ p < N /\ (r[p].next \in S \/ r[p].next = 2 * N)
        /\ Cells \subseteq Nat /\ \A c \in Cells : c < N
    BY ChainTypes
  <1>1. h \in Nat /\ rem \in Nat /\ h + r[h].size < r[h].next /\ h + r[h].size <= N
        /\ r[h].next \in S \cup {local_ram_list_end}
    BY <1>0 DEF Sized, Chain
  <1>2. \A p \in S : p # h => r[h].next <= p /\ h < p
    <2>1. \A p \in S : h <= p  BY ChainOrder
    <2>2. \A p \in S : h < p => r[h].next <= p  BY ChainOrder
    <2> QED  BY <1>0, <2>1, <2>2
  <1>3. rem # 0 => h + size \in Cells /\ h + size < r[h].next
    BY <1>0, <1>1, NNat DEF Cells, N
  <1>4. \A c \in Cells : q[c] = IF c \in h .. h + size - 1 THEN Header(0, 0)
                              ELSE IF c = h + size /\ rem # 0 THEN Header(r[h].next, rem) ELSE r[c]
    BY <1>3 DEF CutRam, Cleared, Rams
  <1>5. q \in Rams
    <2>1. q = [c \in Cells |-> q[c]]  BY DEF CutRam, Cleared
    <2>2. 0 \in Offsets /\ r[h].next \in Offsets /\ rem \in 0 .. N /\ 0 \in 0 .. N
      BY <1>0, <1>1, NNat DEF Offsets, Cells, N
    <2>3. \A c \in Cells : q[c] \in [next : Offsets, size : 0 .. N]
      <3> HIDE DEF q, rem
      <3> QED  BY <1>4, <2>2 DEF Header, Rams
    <2> HIDE DEF q
    <2> QED  BY <2>1, <2>3 DEF Rams
  <1>6. g \in Offsets
    BY <1>0, <1>1, <1>3 DEF CutHead, Offsets
  <1>7. ASSUME NEW p \in S, p # h PROVE q[p] = r[p] /\ p # h + size
    <2>1. p \in Nat /\ p \in Cells /\ r[h].next <= p /\ r[h].next \in Nat  BY <1>0, <1>2, <1>7
    <2>2. p > h + size
      <3> HIDE DEF q, rem
      <3> QED  BY <1>0, <1>1, <2>1
    <2> HIDE DEF q
    <2> QED  BY <1>1, <1>4, <2>1, <2>2
  <1>8. rem # 0 => q[h + size] = Header(r[h].next, rem)
    <2> HIDE DEF q
    <2> QED  BY <1>1, <1>3, <1>4
  <1>9. CASE rem = 0
    <2>1. Q = S \ {h} /\ g = r[h].next  BY <1>9 DEF CutList, CutHead
    <2> HIDE DEF q, g, Q
    <2>2. g \in Q \cup {local_ram_list_end}  BY <1>0, <1>1, <2>1
    <2>3. ASSUME NEW p \in Q
          PROVE  /\ q[p].next \in Q \cup {local_ram_list_end} /\ q[p].next > p
                 /\ p = g \/ \E o \in Q : o < p /\ q[o].next = p
      <3>1. q[p] = r[p] /\ p \in S /\ h < p  BY <1>2, <1>7, <2>1
      <3>2. r[p].next \in S \cup {local_ram_list_end} /\ r[p].next > p /\ p \in Nat /\ r[p].next \in Nat
        BY <1>0, <3>1 DEF Chain
      <3>3. r[p].next # h  BY <1>1, <3>1, <3>2
      <3>4. PICK o \in S : o < p /\ r[o].next = p  BY <1>1, <3>1, <3>2 DEF Chain
      <3>5. CASE o = h  BY <2>1, <3>1, <3>2, <3>3, <3>4, <3>5
      <3>6. CASE o # h
        <4>1. o \in Q /\ q[o] = r[o]  BY <1>7, <2>1, <3>6
        <4> QED  BY <2>1, <3>1, <3>2, <3>3, <3>4, <4>1
      <3> QED  BY <3>5, <3>6
    <2>4. Chain(g, q, Q)  BY <1>0, <2>1, <2>2, <2>3 DEF Chain
    <2>5. Sized(q, Q)  BY <1>7, <2>1 DEF Sized
    <2> QED  BY <1>5, <1>6, <1>7, <2>1, <2>4, <2>5 DEF q, g, Q
  <1>10. CASE rem # 0
    <2> DEFINE b == h + size
    <2>1. Q = (S \ {h}) \cup {b} /\ g = b  BY <1>10 DEF CutList, CutHead
    <2>2. /\ b \in Nat /\ b \in Cells /\ h < b /\ b < r[h].next /\ b + rem = h + r[h].size
          /\ q[b].next = r[h].next /\ q[b].size = rem /\ q[b] = Header(r[h].next, rem) /\ b \notin S
      <3> HIDE DEF q
      <3> QED  BY <1>0, <1>1, <1>3, <1>7, <1>8, <1>10 DEF Header
    <2>3. r[h].next \in Q \cup {local_ram_list_end}
      <3>1. r[h].next # h  BY <1>1, <2>2
      <3> QED  BY <1>1, <2>1, <3>1
    <2> HIDE DEF q, g, Q, b, rem
    <2>4. ASSUME NEW p \in Q
          PROVE  /\ q[p].next \in Q \cup {local_ram_list_end} /\ q[p].next > p
                 /\ p = g \/ \E o \in Q : o < p /\ q[o].next = p
      <3>1. CASE p = b  BY <2>1, <2>2, <2>3, <3>1
      <3>2. CASE p # b
        <4>1. q[p] = r[p] /\ p \in S /\ h < p /\ p # h  BY <1>2, <1>7, <2>1, <3>2
        <4>2. r[p].next \in S \cup {local_ram_list_end} /\ r[p].next > p /\ p \in Nat /\ r[p].next \in Nat
          BY <1>0, <4>1 DEF Chain
        <4>3. r[p].next # h  BY <1>1, <4>1, <4>2
        <4>4. PICK o \in S : o < p /\ r[o].next = p  BY <4>1 DEF Chain
        <4>5. CASE o = h
          <5>1. b < p /\ q[b].next = p /\ b \in Q  BY <2>1, <2>2, <4>4, <4>5
          <5> QED  BY <2>1, <4>1, <4>2, <4>3, <5>1
        <4>6. CASE o # h
          <5>1. o \in Q /\ q[o] = r[o]  BY <1>7, <2>1, <4>6
          <5> QED  BY <2>1, <4>1, <4>2, <4>3, <4>4, <5>1
        <4> QED  BY <4>5, <4>6
      <3> QED  BY <3>1, <3>2
    <2>5. Chain(g, q, Q)  BY <1>0, <2>1, <2>2, <2>4 DEF Chain
    <2>6. Sized(q, Q)
      <3> SUFFICES ASSUME NEW p \in Q
                   PROVE  q[p].size > 0 /\ p + q[p].size < q[p].next /\ p + q[p].size <= N
        BY DEF Sized
      <3>1. CASE p = b  BY <1>1, <1>10, <2>2, <3>1 DEF rem
      <3>2. CASE p # b  BY <1>7, <2>1, <3>2 DEF Sized
      <3> QED  BY <3>1, <3>2
    <2>7. \A p \in Q :
            \/ p \in S /\ p # h /\ q[p] = r[p]
            \/ p = h + size /\ r[h].size # size /\ q[p] = Header(r[h].next, r[h].size - size)
      <3>1. r[h].size # size  BY <1>0, <1>10 DEF rem
      <3> QED  BY <1>7, <2>1, <2>2, <3>1 DEF b, rem
    <2> QED  BY <1>5, <1>6, <2>5, <2>6, <2>7 DEF q, g, Q
  <1> QED  BY <1>9, <1>10

-----------------------------------------------------------------------------
(* What a list is once size cells from ptr on were freed *)
Lower(S, ptr) == {p \in S : p < ptr}
PrevIn(S, ptr) ==
  IF Lower(S, ptr) = {} THEN local_ram_list_end
  ELSE CHOOSE p \in Lower(S, ptr) : \A o \in Lower(S, ptr) : o <= p
NextIn(h, r, S, ptr) == IF Lower(S, ptr) = {} THEN h ELSE r[PrevIn(S, ptr)].next
Joined(r, S, ptr) ==
  LET prev == PrevIn(S, ptr) IN InRam(prev) /\ prev + r[prev].size = ptr
StartIn(r, S, ptr) == IF Joined(r, S, ptr) THEN PrevIn(S, ptr) ELSE ptr
Merged(h, r, S, ptr, size) == JoinsNext(ptr + size, NextIn(h, r, S, ptr))
TotalIn(h, r, S, ptr, size) ==
  ((ptr + size) - StartIn(r, S, ptr))
    + (IF Merged(h, r, S, ptr, size) THEN r[NextIn(h, r, S, ptr)].size ELSE 0)
AfterIn(h, r, S, ptr, size) ==
  IF Merged(h, r, S, ptr, size) THEN r[NextIn(h, r, S, ptr)].next ELSE NextIn(h, r, S, ptr)
FreedRam(h, r, S, ptr, size) ==
  [r EXCEPT ![StartIn(r, S, ptr)] = Header(AfterIn(h, r, S, ptr, size), TotalIn(h, r, S, ptr, size))]
FreedHead(h, S, ptr) == IF InRam(PrevIn(S, ptr)) THEN h ELSE ptr
FreedList(h, r, S, ptr, size) ==
  IF InRam(PrevIn(S, ptr)) /\ ~Joined(r, S, ptr) THEN S
  ELSE (IF Merged(h, r, S, ptr, size) THEN S \ {NextIn(h, r, S, ptr)} ELSE S)
         \cup {StartIn(r, S, ptr)}

Apart(a, m, b, n) == a + m <= b \/ b + n <= a
Untouched(r, S, ptr, size) == \A p \in S : Apart(ptr, size, p, r[p].size)

(* The blocks around the freed one *)
LEMMA Around ==
  ASSUME NEW h, NEW r \in Rams, NEW S, Chain(h, r, S), Sized(r, S),
         NEW ptr \in Cells, NEW size \in Nat, size > 0, ptr + size <= N,
         Untouched(r, S, ptr, size)
  PROVE  /\ InRam(PrevIn(S, ptr)) <=> Lower(S, ptr) # {}
         /\ InRam(PrevIn(S, ptr)) =>
              /\ PrevIn(S, ptr) \in S /\ PrevIn(S, ptr) < ptr
              /\ \A p \in S : p < ptr => p <= PrevIn(S, ptr)
         /\ ptr \notin S
         /\ NextIn(h, r, S, ptr) \in S \cup {local_ram_list_end} /\ NextIn(h, r, S, ptr) \in Nat
         /\ ptr + size <= NextIn(h, r, S, ptr)
         /\ \A p \in S : p < ptr \/ p >= NextIn(h, r, S, ptr)
  <1> DEFINE prev == PrevIn(S, ptr)
             next == NextIn(h, r, S, ptr)
             B == Lower(S, ptr)
  <1>0. /\ S \subseteq Nat /\ S \subseteq Cells /\ N \in Nat /\ local_ram_list_end = 2 * N /\ ptr \in Nat /\ ptr < N
        /\ \A p \in S : r[p].size \in Nat /\ p < N
    BY ChainTypes, NNat
  <1>1. ASSUME NEW p \in S PROVE p # ptr /\ (p >= ptr => ptr + size <= p)
    <2>1. p \in Nat /\ r[p].size \in Nat /\ r[p].size > 0  BY <1>0 DEF Sized
    <2> QED  BY <1>0, <2>1 DEF Apart, Untouched
  <1>2. CASE B = {}
    <2>1. prev = local_ram_list_end /\ next = h  BY <1>2 DEF PrevIn, NextIn
    <2>2. \A p \in S : ~(p < ptr)  BY <1>2 DEF Lower
    <2>3. \A p \in S : h <= p  BY ChainOrder
    <2>4. ~InRam(prev)  BY <1>0, <2>1 DEF InRam, N
    <2>5. h \in S \cup {local_ram_list_end}  BY DEF Chain
    <2>6. h \in Nat /\ ptr + size <= h  BY <1>0, <1>1, <2>2, <2>5
    <2> HIDE DEF prev, next, B
    <2> QED  BY <1>1, <1>2, <2>1, <2>2, <2>3, <2>4, <2>5, <2>6 DEF prev, next, B
  <1>3. CASE B # {}
    <2>1. prev \in B /\ \A o \in B : o <= prev
      <3>1. \E i \in B : \A j \in B : j <= i
        <4>0. \A p \in B : p \in S /\ p < ptr  BY DEF Lower
        <4>1. B \subseteq 0 .. ptr
          <5> HIDE DEF B
          <5> SUFFICES ASSUME NEW p \in B PROVE p \in 0 .. ptr
            OBVIOUS
          <5>1. p \in Nat /\ p < ptr  BY <1>0, <4>0
          <5> QED  BY <1>0, <5>1
        <4> HIDE DEF B
        <4> QED  BY <1>0, <1>3, <4>1, MaxExists
      <3>2. prev = CHOOSE p \in B : \A o \in B : o <= p  BY <1>3 DEF PrevIn
      <3> HIDE DEF prev, B
      <3> QED  BY <3>1, <3>2
    <2>2. prev \in S /\ prev < ptr /\ \A p \in S : p < ptr => p <= prev  BY <2>1 DEF Lower
    <2>3. next = r[prev].next  BY <1>3 DEF NextIn
    <2>4. InRam(prev)  BY <1>0, <2>2 DEF InRam, N
    <2> HIDE DEF prev, next, B
    <2>5. next \in S \cup {local_ram_list_end} /\ next > prev  BY <2>2, <2>3 DEF Chain
    <2>6. next \in Nat /\ prev \in Nat /\ ptr + size <= next
      <3>1. next \in Nat /\ prev \in Nat  BY <1>0, <2>2, <2>5
      <3>2. next \in S => ~(next < ptr)  BY <2>2, <2>5, <3>1
      <3> QED  BY <1>0, <1>1, <2>5, <3>1, <3>2
    <2>7. \A p \in S : p < ptr \/ p >= next
      <3>1. \A p \in S : prev < p => next <= p  BY <2>2, <2>3, ChainOrder
      <3> QED  BY <1>0, <2>2, <2>6, <3>1
    <2> QED  BY <1>1, <1>3, <2>2, <2>4, <2>5, <2>6, <2>7 DEF prev, next, B
  <1> QED  BY <1>2, <1>3

LEMMA FreedIs ==
  ASSUME NEW h, NEW r \in Rams, NEW S, Chain(h, r, S), Sized(r, S),
         NEW ptr \in Cells, NEW size \in Nat, size > 0, ptr + size <= N,
         Untouched(r, S, ptr, size)
  PROVE  LET g == FreedHead(h, S, ptr)
             q == FreedRam(h, r, S, ptr, size)
             Q == FreedList(h, r, S, ptr, size)
             next == NextIn(h, r, S, ptr)
         IN  /\ q \in Rams /\ g \in Offsets /\ Chain(g, q, Q) /\ Sized(q, Q)
             /\ \A p \in Q :
                  \/ p \in S /\ q[p] = r[p]
                  \/ \E low, high \in Nat :
                       /\ (low = 0 /\ p = ptr) \/ (p \in S /\ low = r[p].size /\ p + low = ptr)
                       /\ high = 0 \/ (next \in S /\ high = r[next].size /\ next = ptr + size)
                       /\ q[p].size = low + size + high
  <1> DEFINE g == FreedHead(h, S, ptr)
             q == FreedRam(h, r, S, ptr, size)
             Q == FreedList(h, r, S, ptr, size)
             prev == PrevIn(S, ptr)
             next == NextIn(h, r, S, ptr)
             start == StartIn(r, S, ptr)
             joined == Joined(r, S, ptr)
             merged == Merged(h, r, S, ptr, size)
             e == AfterIn(h, r, S, ptr, size)
             low == IF joined THEN r[prev].size ELSE 0
             high == IF merged THEN r[next].size ELSE 0
             total == TotalIn(h, r, S, ptr, size)
  <1>0. /\ S \subseteq Nat /\ S \subseteq Cells /\ N \in Nat /\ local_ram_list_end = 2 * N /\ ptr \in Nat /\ ptr < N
        /\ local_ram_list_end \notin S /\ 2 * N \in Nat /\ N > 0
        /\ \A p \in S : r[p].size \in Nat /\ r[p].next \in Nat /\ p < N
    <2>1. /\ S \subseteq Nat /\ S \subseteq Cells /\ local_ram_list_end \notin S
          /\ \A p \in S : r[p].size \in Nat /\ r[p].next \in Nat /\ p < N
          /\ Cells \subseteq Nat /\ \A c \in Cells : c < N
      BY ChainTypes
    <2>2. N \in Nat /\ N > 0 /\ local_ram_list_end = 2 * N  BY NNat
    <2>3. 2 * N \in Nat  BY <2>2
    <2>4. ptr \in Nat /\ ptr < N  BY <2>1
    <2> QED  BY <2>1, <2>2, <2>3, <2>4
  <1>1. /\ InRam(prev) <=> Lower(S, ptr) # {}
        /\ InRam(prev) => prev \in S /\ prev < ptr /\ \A p \in S : p < ptr => p <= prev
        /\ ptr \notin S
        /\ next \in S \cup {local_ram_list_end} /\ next \in Nat /\ ptr + size <= next
        /\ \A p \in S : p < ptr \/ p >= next
    <2> HIDE DEF prev, next
    <2> QED  BY Around DEF prev, next
  <1>2. joined <=> InRam(prev) /\ prev + r[prev].size = ptr
    BY DEF Joined
  <1>3. merged <=> next \in S /\ next = ptr + size
    <2>1. InRam(next) <=> next \in S  BY <1>0, <1>1 DEF InRam, N
    <2> QED  BY <2>1 DEF Merged, JoinsNext
  <1>4. start = IF joined THEN prev ELSE ptr
    BY DEF StartIn
  <1>5. e = IF merged THEN r[next].next ELSE next
    BY DEF AfterIn
  <1>6. total = ((ptr + size) - start) + high
    BY DEF TotalIn
  <1>7. /\ q = [r EXCEPT ![start] = Header(e, total)]
        /\ g = (IF InRam(prev) THEN h ELSE ptr)
        /\ Q = (IF InRam(prev) /\ ~joined THEN S ELSE (IF merged THEN S \ {next} ELSE S) \cup {start})
    BY DEF FreedRam, FreedHead, FreedList
  <1>8. InRam(prev) => next = r[prev].next
    BY <1>1 DEF NextIn
  <1>9. ~InRam(prev) => next = h
    BY <1>1 DEF NextIn
  <1> HIDE DEF g, q, Q, prev, next, start, joined, merged, e, total
  <1>10. low \in Nat /\ high \in Nat /\ start \in Nat /\ start + low = ptr /\ start \in Cells
         /\ start + total = ptr + size + high /\ total = low + size + high /\ total \in Nat
    <2>0. joined => prev \in S /\ start = prev /\ low = r[prev].size /\ prev + low = ptr
      BY <1>1, <1>2, <1>4
    <2>a. ~joined => start = ptr /\ low = 0  BY <1>4
    <2>b. merged => next \in S /\ high = r[next].size  BY <1>3
    <2>c. ~merged => high = 0  OBVIOUS
    <2>1. low \in Nat /\ high \in Nat /\ start \in Nat /\ start + low = ptr /\ start \in Cells
      <3> HIDE DEF low, high
      <3>1. CASE joined
        <4>1. low \in Nat /\ start \in Nat /\ start \in Cells  BY <1>0, <2>0, <3>1
        <4>2. high \in Nat
          <5>1. CASE merged
            <6>1. r[next].size \in Nat  BY <1>0, <2>b, <5>1
            <6> QED  BY <2>b, <5>1, <6>1
          <5> QED  BY <2>c, <5>1
        <4> QED  BY <2>0, <3>1, <4>1, <4>2
      <3>2. CASE ~joined
        <4>1. high \in Nat
          <5>1. CASE merged
            <6>1. r[next].size \in Nat  BY <1>0, <2>b, <5>1
            <6> QED  BY <2>b, <5>1, <6>1
          <5> QED  BY <2>c, <5>1
        <4> QED  BY <1>0, <2>a, <3>2, <4>1
      <3> QED  BY <3>1, <3>2
    <2> HIDE DEF low, high
    <2> QED  BY <1>0, <1>6, <2>1
  <1>11. merged => /\ e \in S \cup {local_ram_list_end} /\ e \in Nat /\ e # next
                   /\ start + total < e /\ start + total <= N
    <2>1. CASE merged
      <3>1. next \in S /\ next = ptr + size /\ e = r[next].next /\ high = r[next].size  BY <1>3, <1>5, <2>1
      <3>2. next + r[next].size < r[next].next /\ next + r[next].size <= N  BY <3>1 DEF Sized
      <3>3. r[next].next \in S \cup {local_ram_list_end} /\ r[next].next > next  BY <3>1 DEF Chain
      <3>4. r[next].next \in Nat /\ r[next].size \in Nat  BY <1>0, <3>1
      <3> HIDE DEF high, low
      <3> QED  BY <1>0, <1>1, <1>10, <3>1, <3>2, <3>3, <3>4
    <2> QED  BY <2>1
  <1>12. e \in S \cup {local_ram_list_end} /\ e \in Nat /\ start + total < e /\ start + total <= N
    <2>1. CASE ~merged
      <3>1. e = next /\ high = 0 /\ (next \in S => next # ptr + size)  BY <1>3, <1>5, <2>1
      <3> HIDE DEF high, low
      <3> QED  BY <1>0, <1>1, <1>10, <3>1
    <2> QED  BY <1>11, <2>1
  <1>13. q[start] = Header(e, total) /\ \A c \in Cells : c # start => q[c] = r[c]
    BY <1>7, <1>10 DEF Rams
  <1>14. q \in Rams
    <2>1. e \in Offsets /\ total \in 0 .. N  BY <1>0, <1>10, <1>12 DEF Offsets
    <2>2. Header(e, total) \in [next : Offsets, size : 0 .. N]  BY <2>1 DEF Header
    <2> QED  BY <1>7, <2>2 DEF Rams
  <1>15. g \in Offsets
    BY <1>0, <1>7 DEF Offsets, Chain
  <1>16. q[start].next = e /\ q[start].size = total
    BY <1>13 DEF Header
  <1> HIDE DEF low, high
  <1>17. CASE InRam(prev) /\ ~joined
    <2>1. Q = S /\ g = h /\ start = ptr  BY <1>4, <1>7, <1>17
    <2>2. \A p \in S : q[p] = r[p]  BY <1>0, <1>1, <1>13, <2>1
    <2>3. Chain(g, q, Q) /\ Sized(q, Q)  BY <2>1, <2>2 DEF Chain, Sized
    <2> QED  BY <1>14, <1>15, <2>1, <2>2, <2>3 DEF g, q, Q
  <1>18. CASE ~InRam(prev) \/ joined
    <2> DEFINE L == IF merged THEN S \ {next} ELSE S
    <2>1. Q = L \cup {start}  BY <1>7, <1>18
    <2>2. \A p \in L : p \in S /\ (p # start => q[p] = r[p])  BY <1>0, <1>13
    <2>3. e \in Q \cup {local_ram_list_end}  BY <1>11, <1>12, <2>1
    <2>4. joined => start = prev /\ prev \in S /\ prev # next /\ prev < next
      <3>1. joined => start = prev /\ prev \in S /\ prev < ptr  BY <1>1, <1>2, <1>4
      <3>2. next \in Nat /\ ptr <= next /\ ptr \in Nat  BY <1>0, <1>1
      <3>3. joined => prev \in Nat  BY <1>0, <3>1
      <3> QED  BY <3>1, <3>2, <3>3
    <2>5. ~joined => start = ptr /\ g = ptr /\ next = h /\ ~InRam(prev) /\ \A p \in S : p >= next
      <3>1. ~joined => start = ptr /\ g = ptr /\ next = h /\ ~InRam(prev)  BY <1>4, <1>7, <1>9, <1>18
      <3>2. ~joined => \A p \in S : h <= p  BY ChainOrder
      <3>3. h \in Nat  BY <1>0 DEF Chain
      <3> QED  BY <1>0, <3>1, <3>2, <3>3
    <2>6. joined => g = h /\ next = r[prev].next  BY <1>2, <1>7, <1>8
    <2>7. ASSUME NEW p \in S, r[p].next = next PROVE joined /\ p = prev
      <3>1. p \in Nat /\ r[p].next > p  BY <1>0 DEF Chain
      <3>2. p < ptr  BY <1>0, <1>1, <2>7, <3>1
      <3>3. joined  BY <1>0, <1>1, <2>5, <2>7, <3>1
      <3>4. p <= prev /\ prev \in S  BY <1>1, <1>2, <3>2, <3>3
      <3>5. p < prev => r[p].next <= prev  BY <3>4, ChainOrder
      <3> QED  BY <1>0, <1>1, <2>4, <2>7, <3>1, <3>3, <3>4, <3>5
    <2>8. g \in Q \cup {local_ram_list_end}
      <3>1. CASE ~joined  BY <2>1, <2>5, <3>1
      <3>2. CASE joined
        <4>1. h <= prev  BY <2>4, <3>2, ChainOrder
        <4>2. h \in S \cup {local_ram_list_end}  BY DEF Chain
        <4>3. h # next
          <5>1. prev \in Nat /\ next \in Nat /\ prev < next  BY <1>0, <1>1, <2>4, <3>2
          <5> QED  BY <4>1, <5>1
        <4> QED  BY <2>1, <2>6, <3>2, <4>2, <4>3
      <3> QED  BY <3>1, <3>2
    <2>9. ASSUME NEW p \in Q PROVE q[p].next \in Q \cup {local_ram_list_end} /\ q[p].next > p
      <3>1. CASE p = start
        <4>1. start < e  BY <1>10, <1>12
        <4> QED  BY <1>16, <2>3, <3>1, <4>1
      <3>2. CASE p # start
        <4>1. p \in S /\ q[p] = r[p]  BY <2>1, <2>2, <3>2
        <4>2. r[p].next \in S \cup {local_ram_list_end} /\ r[p].next > p  BY <4>1 DEF Chain
        <4>3. r[p].next # next  BY <2>4, <2>7, <3>2, <4>1
        <4> QED  BY <2>1, <4>1, <4>2, <4>3
      <3> QED  BY <3>1, <3>2
    <2>10. ASSUME NEW p \in Q PROVE p = g \/ \E o \in Q : o < p /\ q[o].next = p
      <3>1. CASE p = start
        <4>1. CASE ~joined  BY <2>5, <3>1, <4>1
        <4>2. CASE joined /\ p # h
          <5>1. PICK o \in S : o < p /\ r[o].next = p  BY <2>4, <3>1, <4>2 DEF Chain
          <5>2. o # next /\ o # start  BY <1>0, <1>1, <2>4, <3>1, <4>2, <5>1
          <5>3. o \in Q /\ q[o] = r[o]  BY <2>1, <2>2, <5>2
          <5> QED  BY <5>1, <5>3
        <4> QED  BY <2>6, <4>1, <4>2
      <3>2. CASE p # start
        <4>1. p \in S /\ (merged => p # next)  BY <2>1, <3>2
        <4>2. p \in Nat /\ start < e /\ start \in Q  BY <1>0, <1>10, <1>12, <2>1, <4>1
        <4>3. CASE p = h /\ ~joined
          <5>1. ~merged /\ e = p  BY <1>5, <2>5, <4>1, <4>3
          <5> QED  BY <1>16, <4>2, <5>1
        <4>4. CASE p # h
          <5>1. PICK o \in S : o < p /\ r[o].next = p  BY <4>1, <4>4 DEF Chain
          <5>2. CASE o = start
            <6>1. joined  BY <1>1, <2>5, <5>2
            <6>2. p = next /\ ~merged /\ e = p  BY <1>5, <2>4, <2>6, <4>1, <5>1, <5>2, <6>1
            <6> QED  BY <1>16, <4>2, <6>2
          <5>3. CASE o # start /\ merged /\ o = next
            <6>1. e = p  BY <1>5, <5>1, <5>3
            <6> QED  BY <1>16, <4>2, <6>1
          <5>4. CASE o # start /\ ~(merged /\ o = next)
            <6>1. o \in Q /\ q[o] = r[o]  BY <2>1, <2>2, <5>4
            <6> QED  BY <5>1, <6>1
          <5> QED  BY <5>2, <5>3, <5>4
        <4> QED  BY <2>6, <4>3, <4>4
      <3> QED  BY <3>1, <3>2
    <2>11. Chain(g, q, Q)
      <3>1. Q \subseteq Cells  BY <1>0, <1>10, <2>1
      <3> HIDE DEF L
      <3> QED  BY <2>8, <2>9, <2>10, <3>1 DEF Chain
    <2>12. Sized(q, Q)
      <3> SUFFICES ASSUME NEW p \in Q
                   PROVE  q[p].size > 0 /\ p + q[p].size < q[p].next /\ p + q[p].size <= N
        BY DEF Sized
      <3>1. CASE p = start  BY <1>10, <1>12, <1>16, <3>1
      <3>2. CASE p # start  BY <2>1, <2>2, <3>2 DEF Sized
      <3> QED  BY <3>1, <3>2
    <2>13. ASSUME NEW p \in Q
           PROVE  \/ p \in S /\ q[p] = r[p]
                  \/ \E l, u \in Nat :
                       /\ (l = 0 /\ p = ptr) \/ (p \in S /\ l = r[p].size /\ p + l = ptr)
                       /\ u = 0 \/ (next \in S /\ u = r[next].size /\ next = ptr + size)
                       /\ q[p].size = l + size + u
      <3>1. CASE p = start
        <4>1. (low = 0 /\ p = ptr) \/ (p \in S /\ low = r[p].size /\ p + low = ptr)
          BY <1>4, <1>10, <2>4, <3>1 DEF low
        <4>2. high = 0 \/ (next \in S /\ high = r[next].size /\ next = ptr + size)
          BY <1>3 DEF high
        <4> QED  BY <1>10, <1>16, <3>1, <4>1, <4>2
      <3>2. CASE p # start  BY <2>1, <2>2, <3>2
      <3> QED  BY <3>1, <3>2
    <2> QED  BY <1>14, <1>15, <2>11, <2>12, <2>13 DEF g, q, Q, next
  <1> QED  BY <1>17, <1>18

-----------------------------------------------------------------------------
(* The inductive invariant *)
LockCells == AllocCells(fl_Sizeof)
LockMultiple(m) == \E k \in Nat : m = k * LockCells + LockCells

Start(o) == IF o[1] = "name" THEN names[o[2]] ELSE o[2]
Width(o) == IF o[1] = "name" THEN AllocCells(NameBytes[o[2]]) ELSE LockCells

EndOf(p) == p + ram[p].size

(* The list is one of ever higher blocks, each before the next and inside *)
ListRight == Chain(heap_ptr, ram, Listed) /\ Sized(ram, Listed)

(* A hole takes a number of locks, but for the one at the end *)
HolesFit == \A p \in Listed : EndOf(p) = N \/ LockMultiple(ram[p].size)

(* While names are handed out nothing was given back *)
NamesFirst ==
  (\E v \in Volumes : names[v] = None) =>
     locks = {} /\ \A p \in Listed : p = heap_ptr /\ EndOf(p) = N

(* Owners are apart, from each other and from the blocks of the list *)
OwnersApart ==
  /\ \A o \in Owners : Start(o) \in Nat /\ Start(o) + Width(o) <= N
  /\ \A a, b \in Owners : a # b => Apart(Start(a), Width(a), Start(b), Width(b))
  /\ \A o \in Owners, p \in Listed : Apart(Start(o), Width(o), p, ram[p].size)

IInv == TypeOK /\ ListRight /\ HolesFit /\ NamesFirst /\ OwnersApart

-----------------------------------------------------------------------------
(* A cell and a lock have a size *)
LEMMA CellsOf ==
  /\ \A x \in Nat \ {0} : AllocCells(x) \in Nat /\ AllocCells(x) > 0 /\ FreeCells(x) = AllocCells(x)
  /\ LockCells \in Nat /\ LockCells > 0 /\ FreeCells(fl_Sizeof) = LockCells
  /\ \A v \in Volumes : AllocCells(NameBytes[v]) \in Nat /\ AllocCells(NameBytes[v]) > 0
  <1>1. \A x \in Nat \ {0} : AllocCells(x) \in Nat /\ AllocCells(x) > 0 /\ FreeCells(x) = AllocCells(x)
    BY DEF AllocCells, FreeCells, local_ram_align
  <1>2. \A v \in Volumes : NameBytes[v] \in Nat \ {0}
    BY LocalRamAssumption DEF Volumes
  <1>3. fl_Sizeof \in Nat \ {0}  BY LocalRamAssumption
  <1> QED  BY <1>1, <1>2, <1>3 DEF LockCells

(* Holes that take a number of locks stay so when they are joined and cut *)
LEMMA Multiples ==
  /\ LockMultiple(LockCells)
  /\ \A m : LockMultiple(m) => m \in Nat /\ m >= LockCells
  /\ \A m, n : LockMultiple(m) /\ LockMultiple(n) => LockMultiple(m + n)
  /\ \A m : LockMultiple(m) /\ m - LockCells # 0 => LockMultiple(m - LockCells)
  <1> DEFINE L == LockCells
  <1>0. L \in Nat /\ L > 0  BY CellsOf
  <1> HIDE DEF L
  <1>1. \A k \in Nat : k * L \in Nat  BY <1>0
  <1>2. \A k, j \in Nat : (k * L + L) + (j * L + L) = (k + j + 1) * L + L  BY <1>0
  <1>3. \A k \in Nat : k # 0 => (k * L + L) - L = (k - 1) * L + L /\ k - 1 \in Nat  BY <1>0
  <1>4. LockMultiple(L)
    <2>1. L = 0 * L + L  BY <1>0
    <2> QED  BY <2>1 DEF LockMultiple, L
  <1>5. ASSUME NEW m, LockMultiple(m) PROVE m \in Nat /\ m >= L
    <2>1. PICK k \in Nat : m = k * L + L  BY <1>5 DEF LockMultiple, L
    <2> DEFINE kl == k * L
    <2>2. kl \in Nat  BY <1>1
    <2> HIDE DEF kl
    <2> QED  BY <1>0, <2>1, <2>2 DEF kl
  <1>6. ASSUME NEW m, NEW n, LockMultiple(m), LockMultiple(n) PROVE LockMultiple(m + n)
    <2>1. PICK k \in Nat : m = k * L + L  BY <1>6 DEF LockMultiple, L
    <2>2. PICK j \in Nat : n = j * L + L  BY <1>6 DEF LockMultiple, L
    <2>3. m + n = (k + j + 1) * L + L /\ k + j + 1 \in Nat  BY <1>2, <2>1, <2>2
    <2> QED  BY <2>3 DEF LockMultiple, L
  <1>7. ASSUME NEW m, LockMultiple(m), m - L # 0 PROVE LockMultiple(m - L)
    <2>1. PICK k \in Nat : m = k * L + L  BY <1>7 DEF LockMultiple, L
    <2>2. k # 0  BY <1>0, <1>7, <2>1
    <2>3. m - L = (k - 1) * L + L /\ k - 1 \in Nat  BY <1>3, <2>1, <2>2
    <2> QED  BY <2>3 DEF LockMultiple, L
  <1> QED  BY <1>4, <1>5, <1>6, <1>7 DEF L

LEMMA OwnersSizes ==
  ASSUME TypeOK, NEW o \in Owners
  PROVE  Width(o) \in Nat /\ Width(o) > 0
  <1>1. CASE o \in {<<"name", v>> : v \in {u \in Volumes : names[u] # None}}
    <2>1. PICK v \in Volumes : o = <<"name", v>>  BY <1>1
    <2>2. Width(o) = AllocCells(NameBytes[v])  BY <2>1 DEF Width
    <2> QED  BY <2>2, CellsOf
  <1>2. CASE o \in {<<"lock", p>> : p \in locks}
    <2>1. PICK p \in locks : o = <<"lock", p>>  BY <1>2
    <2>2. Width(o) = LockCells  BY <2>1 DEF Width
    <2> QED  BY <2>2, CellsOf
  <1> QED  BY <1>1, <1>2 DEF Owners

(* Freeing and taking, in the terms of the lemmas above *)
LEMMA FreeIs ==
  ASSUME NEW ptr, NEW size, Free(ptr, size)
  PROVE  /\ heap_ptr' = FreedHead(heap_ptr, Listed, ptr)
         /\ ram' = FreedRam(heap_ptr, ram, Listed, ptr, size)
  <1>1. Prev(ptr) = PrevIn(Listed, ptr)
    BY DEF Prev, PrevIn, Before, Lower
  <1>2. Following(ptr) = NextIn(heap_ptr, ram, Listed, ptr)
    BY <1>1 DEF Following, NextIn, Before, Lower
  <1> QED  BY <1>1, <1>2 DEF Free, FreedHead, FreedRam, AfterIn, TotalIn, Merged, StartIn, Joined

LEMMA TakeIs ==
  ASSUME NEW size, Take(heap_ptr, size)
  PROVE  /\ heap_ptr' = CutHead(ram, heap_ptr, size)
         /\ ram' = CutRam(ram, heap_ptr, size)
  BY DEF Take, Remainder, CutHead, CutRam

(* RAM is always cut from the head of the list *)
LEMMA FirstIsHead ==
  ASSUME TypeOK, ListRight, HolesFit, NamesFirst, NEW size \in Nat, NEW n \in FirstFit(size),
         size = LockCells \/ \E v \in Volumes : names[v] = None
  PROVE  walk[n] = heap_ptr /\ heap_ptr \in Listed /\ ram[heap_ptr].size >= size
  <1> DEFINE h == heap_ptr
  <1>0. ram \in Rams /\ N \in Nat /\ N > 0  BY NNat DEF TypeOK, Rams, N
  <1>1. /\ Listed \subseteq Nat /\ local_ram_list_end \notin Listed /\ local_ram_list_end = 2 * N
        /\ \A p \in Listed : ram[p].next \in Nat /\ ram[p].size \in Nat /\ p < N
        /\ h \in Listed \/ h = 2 * N
    BY <1>0, ChainTypes, NNat DEF ListRight
  <1>2. walk[0] = h /\ (N >= 1 => walk[1] = IF InRam(h) THEN ram[h].next ELSE h)
    <2>1. \A m \in 0 .. N : Walk(heap_ptr, ram)[m] = WalkStep(heap_ptr, ram, Walk(heap_ptr, ram), m)
      BY WalkSteps
    <2>2. 0 \in 0 .. N /\ (N >= 1 => 1 \in 0 .. N /\ 1 # 0 /\ 1 - 1 = 0)  BY <1>0
    <2> DEFINE w == walk
    <2>3. \A m \in 0 .. N : w[m] = WalkStep(heap_ptr, ram, w, m)  BY <2>1, WalkIs
    <2> HIDE DEF w
    <2>4. w[0] = heap_ptr  BY <2>2, <2>3 DEF WalkStep
    <2>5. N >= 1 => w[1] = IF InRam(w[0]) THEN ram[w[0]].next ELSE w[0]  BY <2>2, <2>3 DEF WalkStep
    <2> QED  BY <2>4, <2>5 DEF w
  <1>3. /\ n \in 0 .. N /\ InRam(walk[n]) /\ ram[walk[n]].size >= size
        /\ \A m \in 0 .. n - 1 : InRam(walk[m]) /\ ram[walk[m]].size < size
    BY DEF FirstFit, N
  <1>4. ~InRam(local_ram_list_end)  BY <1>0, <1>1 DEF InRam, N
  <1>5. n = 0
    <2> SUFFICES ASSUME n # 0 PROVE FALSE
      OBVIOUS
    <2>1. 0 \in 0 .. n - 1  BY <1>3
    <2>2. InRam(h) /\ ram[h].size < size  BY <1>2, <1>3, <2>1
    <2>3. h \in Listed  BY <1>0, <1>1, <1>4, <2>2
    <2>4. h + ram[h].size < ram[h].next /\ ram[h].next \in Listed \cup {local_ram_list_end}
      BY <2>3 DEF ListRight, Sized, Chain
    <2>5. h + ram[h].size = N
      <3>1. CASE \E v \in Volumes : names[v] = None
        BY <2>3, <3>1 DEF NamesFirst, EndOf
      <3>2. CASE size = LockCells
        <4>1. ~LockMultiple(ram[h].size)
          <5>1. LockMultiple(ram[h].size) => ram[h].size \in Nat /\ ram[h].size >= LockCells  BY Multiples
          <5>2. ram[h].size \in Nat /\ LockCells \in Nat  BY <1>1, <2>3, CellsOf
          <5> QED  BY <2>2, <3>2, <5>1, <5>2
        <4> QED  BY <2>3, <4>1 DEF HolesFit, EndOf
      <3> QED  BY <3>1, <3>2
    <2>6. ram[h].next = local_ram_list_end
      <3>1. ram[h].next \in Listed => ram[h].next < N  BY <1>1
      <3>2. ram[h].next \in Nat  BY <1>1, <2>3
      <3> QED  BY <1>0, <2>4, <2>5, <3>1, <3>2
    <2>7. walk[1] = local_ram_list_end  BY <1>0, <1>2, <2>2, <2>6
    <2>8. n # 1  BY <1>3, <1>4, <2>7
    <2>9. 1 \in 0 .. n - 1  BY <1>3, <2>8
    <2> QED  BY <1>3, <1>4, <2>7, <2>9
  <1>6. walk[n] = h  BY <1>2, <1>5
  <1> QED  BY <1>0, <1>1, <1>3, <1>4, <1>6

(* Intervals that are apart share no cell *)
LEMMA ApartShares ==
  ASSUME NEW a \in Nat, NEW m \in Nat, NEW b \in Nat, NEW n \in Nat, Apart(a, m, b, n)
  PROVE  Block(a, m) \cap Block(b, n) = {}
  BY DEF Apart, Block

LEMMA OwnedIs ==
  ASSUME NEW o
  PROVE  Owned(o) = Block(Start(o), Width(o))
  BY DEF Owned, Start, Width, LockCells

LEMMA InCells ==
  ASSUME NEW a \in Nat, NEW m \in Nat, a + m <= N
  PROVE  Block(a, m) \subseteq Cells
  BY NNat DEF Block, Cells, N

(* What the inductive invariant says of the list's numbers *)
LEMMA ListTypes ==
  ASSUME TypeOK, ListRight
  PROVE  /\ ram \in Rams /\ Listed \subseteq Cells /\ Listed \subseteq Nat
         /\ \A p \in Listed : ram[p].next \in Nat /\ ram[p].size \in Nat /\ p \in Nat /\ p < N
                              /\ ram[p].size <= N
         /\ heap_ptr \in Listed \/ heap_ptr = local_ram_list_end
  <1>1. ram \in Rams  BY DEF TypeOK, Rams, N
  <1>2. Chain(heap_ptr, ram, Listed)  BY DEF ListRight
  <1>3. heap_ptr \in Listed \/ heap_ptr = local_ram_list_end  BY <1>2 DEF Chain
  <1>4. /\ Listed \subseteq Cells /\ Listed \subseteq Nat
        /\ \A p \in Listed : ram[p].next \in Nat /\ ram[p].size \in Nat /\ ram[p].size <= N /\ p < N
    BY <1>1, <1>2, ChainTypes
  <1> QED  BY <1>1, <1>3, <1>4

LEMMA InvGivesSound ==
  ASSUME IInv
  PROVE  RamSound
  <1> USE DEF IInv
  <1>0. /\ ram \in Rams /\ Listed \subseteq Cells
        /\ \A p \in Listed : ram[p].next \in Nat /\ ram[p].size \in Nat /\ p \in Nat /\ p < N
                             /\ ram[p].size <= N
        /\ heap_ptr \in Listed \/ heap_ptr = local_ram_list_end
    BY ListTypes
  <1>1. FreeListValid
    <2>1. ASSUME NEW p \in Listed
          PROVE  ram[p].next > p /\ ram[p].size <= local_ram_size /\ p + ram[p].size < ram[p].next
      BY <1>0 DEF ListRight, Chain, Sized, N
    <2>2. InRam(heap_ptr) \/ heap_ptr = local_ram_list_end
      BY <1>0 DEF InRam, N
    <2> QED  BY <2>1, <2>2 DEF FreeListValid
  <1>2. NothingShared
    <2>1. \A o \in Owners : Start(o) \in Nat /\ Width(o) \in Nat /\ Start(o) + Width(o) <= N
      BY OwnersSizes DEF OwnersApart
    <2>2. ASSUME NEW a \in Owners, NEW b \in Owners, a # b PROVE Owned(a) \cap Owned(b) = {}
      <3>1. Apart(Start(a), Width(a), Start(b), Width(b))  BY <2>2 DEF OwnersApart
      <3> QED  BY <2>1, <3>1, ApartShares, OwnedIs
    <2>3. ASSUME NEW a \in Owners, NEW p \in Listed PROVE Owned(a) \cap FreeBlock(p) = {}
      <3>1. Apart(Start(a), Width(a), p, ram[p].size)  BY DEF OwnersApart
      <3> QED  BY <1>0, <2>1, <3>1, ApartShares, OwnedIs DEF FreeBlock
    <2>4. ASSUME NEW a \in Owners PROVE Owned(a) \subseteq Cells
      BY <2>1, InCells, OwnedIs
    <2>5. ASSUME NEW p \in Listed PROVE FreeBlock(p) \subseteq Cells
      BY <1>0, InCells DEF FreeBlock, ListRight, Sized
    <2> QED  BY <2>2, <2>3, <2>4, <2>5 DEF NothingShared
  <1>3. NoSmallHoles
    <2> SUFFICES ASSUME NEW p \in Listed, ram[p].size < LockCells PROVE EndOf(p) = N
      BY DEF NoSmallHoles, LockCells, EndOf, N
    <2>1. ~LockMultiple(ram[p].size)
      <3>1. LockMultiple(ram[p].size) => ram[p].size >= LockCells  BY Multiples
      <3> QED  BY <1>0, <3>1, CellsOf
    <2> QED  BY <2>1 DEF HolesFit
  <1> QED  BY <1>1, <1>2, <1>3 DEF RamSound

-----------------------------------------------------------------------------
(* One block is all of the RAM, and nobody has memory *)
LEMMA FreshList ==
  /\ InitialRam \in Rams /\ Chain(0, InitialRam, {0}) /\ Sized(InitialRam, {0})
  /\ InitialRam[0].size = N /\ 0 \in Cells
  <1>0. 0 \in Cells /\ N \in Nat /\ N > 0 /\ local_ram_list_end = 2 * N  BY NNat DEF Cells, N
  <1>1. InitialRam[0].next = local_ram_list_end /\ InitialRam[0].size = N
    BY <1>0 DEF InitialRam, Header, N
  <1>2. InitialRam \in Rams
    <2>1. 0 \in Offsets /\ local_ram_list_end \in Offsets /\ 0 \in 0 .. N /\ N \in 0 .. N
      BY <1>0 DEF Offsets
    <2> QED  BY <2>1 DEF InitialRam, Header, Rams, N
  <1>3. Chain(0, InitialRam, {0}) /\ Sized(InitialRam, {0})
    BY <1>0, <1>1 DEF Chain, Sized
  <1> QED  BY <1>0, <1>1, <1>2, <1>3

LEMMA InitInv ==
  ASSUME Init
  PROVE  IInv
  <1> USE DEF Init
  <1>1. Listed = {0}  BY FreshList, ChainListed, ListedIs
  <1>2. Owners = {}  BY DEF Owners
  <1>3. TypeOK
    <2>1. ram \in [Cells -> [next : Offsets, size : 0 .. local_ram_size]]
      BY FreshList DEF Rams, N
    <2>2. heap_ptr \in Offsets  BY FreshList DEF Offsets
    <2> QED  BY <2>1, <2>2 DEF TypeOK
  <1>4. ListRight  BY <1>1, FreshList DEF ListRight
  <1>5. \A p \in Listed : p = heap_ptr /\ EndOf(p) = N
    BY <1>1, FreshList, NNat DEF EndOf
  <1>6. HolesFit /\ NamesFirst  BY <1>5 DEF HolesFit, NamesFirst
  <1>7. OwnersApart  BY <1>2 DEF OwnersApart
  <1> QED  BY <1>3, <1>4, <1>6, <1>7 DEF IInv

LEMMA ResetInv ==
  ASSUME reset
  PROVE  IInv'
  <1> USE DEF reset
  <1>1. Listed' = {0}  BY FreshList, ChainListed, ListedIs
  <1>2. Owners' = {}  BY DEF Owners
  <1>3. TypeOK'
    <2>1. ram' \in [Cells -> [next : Offsets, size : 0 .. local_ram_size]]
      BY FreshList DEF Rams, N
    <2>2. heap_ptr' \in Offsets  BY FreshList DEF Offsets
    <2> QED  BY <2>1, <2>2 DEF TypeOK
  <1>4. ListRight'  BY <1>1, FreshList DEF ListRight
  <1>5. \A p \in Listed' : p = heap_ptr' /\ EndOf(p)' = N
    BY <1>1, FreshList, NNat DEF EndOf
  <1>6. HolesFit' /\ NamesFirst'  BY <1>5 DEF HolesFit, NamesFirst
  <1>7. OwnersApart'  BY <1>2 DEF OwnersApart
  <1> QED  BY <1>3, <1>4, <1>6, <1>7 DEF IInv

-----------------------------------------------------------------------------
(* One more owner has size cells from the head of the list *)
LEMMA TakeInv ==
  ASSUME IInv, NEW size \in Nat, size > 0, Take(heap_ptr, size),
         heap_ptr \in Listed, ram[heap_ptr].size >= size,
         size = LockCells \/ \A p \in Listed : p = heap_ptr /\ EndOf(p) = N,
         NEW new, Owners' = Owners \cup {new}, Start(new)' = heap_ptr, Width(new)' = size,
         \A o \in Owners : Start(o)' = Start(o) /\ Width(o)' = Width(o)
  PROVE  /\ ram' \in Rams /\ heap_ptr' \in Offsets /\ ListRight' /\ HolesFit' /\ OwnersApart'
         /\ (\A p \in Listed : p = heap_ptr /\ EndOf(p) = N) =>
               \A p \in Listed' : p = heap_ptr' /\ EndOf(p)' = N
  <1> DEFINE h == heap_ptr
             rem == ram[h].size - size
             b == h + size
             Q == CutList(ram, h, size, Listed)
  <1> USE DEF IInv
  <1>0. /\ ram \in Rams /\ Listed \subseteq Cells /\ N \in Nat
        /\ \A p \in Listed : ram[p].next \in Nat /\ ram[p].size \in Nat /\ p \in Nat /\ p < N
    BY ListTypes, NNat
  <1>1. Chain(h, ram, Listed) /\ Sized(ram, Listed)  BY DEF ListRight
  <1>2. heap_ptr' = CutHead(ram, h, size) /\ ram' = CutRam(ram, h, size)  BY TakeIs
  <1>3. /\ ram' \in Rams /\ heap_ptr' \in Offsets /\ Chain(heap_ptr', ram', Q) /\ Sized(ram', Q)
        /\ \A p \in Q :
             \/ p \in Listed /\ p # h /\ ram'[p] = ram[p]
             \/ p = h + size /\ ram[h].size # size /\ ram'[p] = Header(ram[h].next, ram[h].size - size)
    <2>1. ram[h].size \in Nat /\ size <= ram[h].size  BY <1>0
    <2> HIDE DEF h, Q
    <2> QED  BY <1>0, <1>1, <1>2, <2>1, CutIs DEF Q, h
  <1>4. Listed' = Q  BY <1>3, ChainListed, ListedIs
  <1>5. heap_ptr' = (IF rem # 0 THEN b ELSE ram[h].next)  BY <1>2 DEF CutHead
  <1>6. h \in Nat /\ rem \in Nat /\ b \in Nat /\ b + rem = h + ram[h].size
        /\ h + ram[h].size < ram[h].next /\ ram[h].size \in Nat
    BY <1>0, <1>1 DEF Sized
  <1> HIDE DEF Q, rem, b
  <1>7. ASSUME NEW p \in Listed'
        PROVE  \/ p \in Listed /\ p # h /\ ram'[p] = ram[p]
               \/ p = b /\ rem # 0 /\ ram'[p].size = rem
    <2>1. ram[h].size # size => rem # 0  BY <1>6 DEF rem
    <2> QED  BY <1>3, <1>4, <2>1 DEF Header, b, rem
  <1>8. ListRight'  BY <1>3, <1>4 DEF ListRight
  <1>9. HolesFit'
    <2> SUFFICES ASSUME NEW p \in Listed' PROVE p + ram'[p].size = N \/ LockMultiple(ram'[p].size)
      BY DEF HolesFit, EndOf
    <2>1. CASE p \in Listed /\ ram'[p] = ram[p]  BY <2>1 DEF HolesFit, EndOf
    <2>2. CASE p = b /\ rem # 0 /\ ram'[p].size = rem
      <3>1. CASE h + ram[h].size = N  BY <1>6, <2>2, <3>1
      <3>2. CASE h + ram[h].size # N
        <4>1. size = LockCells /\ LockMultiple(ram[h].size)  BY <3>2 DEF HolesFit, EndOf
        <4>2. LockMultiple(rem)  BY <2>2, <4>1, Multiples DEF rem
        <4> QED  BY <2>2, <4>2
      <3> QED  BY <3>1, <3>2
    <2> QED  BY <1>7, <2>1, <2>2
  <1>10. \A p \in Listed : p # h => h + ram[h].size < p
    <2>1. \A p \in Listed : h <= p  BY <1>1, ChainOrder
    <2>2. \A p \in Listed : h < p => ram[h].next <= p  BY <1>1, ChainOrder
    <2> QED  BY <1>0, <1>6, <2>1, <2>2
  <1>11. \A o \in Owners : /\ Start(o) \in Nat /\ Width(o) \in Nat /\ Width(o) > 0
                           /\ Start(o) + Width(o) <= N
    BY OwnersSizes DEF OwnersApart
  <1>12. \A o \in Owners : Apart(Start(o), Width(o), h, ram[h].size)
    BY DEF OwnersApart
  <1>13. OwnersApart'
    <2>1. ASSUME NEW o \in Owners' PROVE Start(o)' \in Nat /\ Start(o)' + Width(o)' <= N
      <3>1. CASE o \in Owners  BY <1>11, <3>1
      <3>2. CASE o = new
        <4>1. h + ram[h].size <= N  BY <1>1 DEF Sized
        <4>2. h + size <= N  BY <1>0, <1>6, <4>1
        <4> QED  BY <1>6, <3>2, <4>2
      <3> QED  BY <3>1, <3>2
    <2>2. \A o \in Owners : Apart(Start(o), Width(o), h, size) /\ Apart(h, size, Start(o), Width(o))
      <3> SUFFICES ASSUME NEW o \in Owners
                   PROVE  Apart(Start(o), Width(o), h, size) /\ Apart(h, size, Start(o), Width(o))
        OBVIOUS
      <3> QED  BY <1>6, <1>11, <1>12 DEF Apart
    <2>3. ASSUME NEW a \in Owners', NEW o \in Owners', a # o
          PROVE  Apart(Start(a)', Width(a)', Start(o)', Width(o)')
      <3>1. CASE a \in Owners /\ o \in Owners
        <4>1. Apart(Start(a), Width(a), Start(o), Width(o))  BY <2>3, <3>1 DEF OwnersApart
        <4> QED  BY <3>1, <4>1
      <3>2. CASE a = new /\ o \in Owners  BY <2>2, <3>2
      <3>3. CASE a \in Owners /\ o = new  BY <2>2, <3>3
      <3> QED  BY <2>3, <3>1, <3>2, <3>3
    <2>4. ASSUME NEW o \in Owners', NEW p \in Listed'
          PROVE  Apart(Start(o)', Width(o)', p, ram'[p].size)
      <3>1. CASE p \in Listed /\ p # h /\ ram'[p] = ram[p]
        <4>1. CASE o \in Owners
          <5>1. Apart(Start(o), Width(o), p, ram[p].size)  BY <3>1, <4>1 DEF OwnersApart
          <5> QED  BY <3>1, <4>1, <5>1
        <4>2. CASE o = new
          <5>1. h + ram[h].size < p /\ p \in Nat /\ ram[p].size \in Nat  BY <1>0, <1>10, <3>1
          <5>2. h + size <= p  BY <1>6, <5>1
          <5> QED  BY <4>2, <5>2 DEF Apart
        <4> QED  BY <4>1, <4>2
      <3>2. CASE p = b /\ ram'[p].size = rem
        <4>1. CASE o \in Owners
          <5>1. Apart(Start(o), Width(o), h, ram[h].size)  BY <1>12, <4>1
          <5>2. Apart(Start(o), Width(o), b, rem)  BY <1>6, <1>11, <4>1, <5>1 DEF Apart, b
          <5> QED  BY <3>2, <4>1, <5>2
        <4>2. CASE o = new
          <5>1. h + size <= b  BY <1>6 DEF b
          <5> QED  BY <3>2, <4>2, <5>1 DEF Apart
        <4> QED  BY <4>1, <4>2
      <3> QED  BY <1>7, <3>1, <3>2
    <2> QED  BY <2>1, <2>3, <2>4 DEF OwnersApart
  <1>14. ASSUME \A p \in Listed : p = h /\ EndOf(p) = N, NEW p \in Listed'
         PROVE  p = heap_ptr' /\ EndOf(p)' = N
    <2>1. p = b /\ rem # 0 /\ ram'[p].size = rem  BY <1>7, <1>14
    <2>2. h + ram[h].size = N  BY <1>14 DEF EndOf
    <2> QED  BY <1>5, <1>6, <2>1, <2>2 DEF EndOf
  <1> QED  BY <1>3, <1>8, <1>9, <1>13, <1>14

LEMMA NameInv ==
  ASSUME IInv, NEW v \in Volumes, handle_volume_get_id(v)
  PROVE  IInv'
  <1> DEFINE size == AllocCells(NameBytes[v])
  <1> USE DEF IInv
  <1>1. size \in Nat /\ size > 0  BY CellsOf
  <1>2. names[v] = None /\ locks' = locks  BY DEF handle_volume_get_id
  <1>3. PICK n \in FirstFit(size) : Take(walk[n], size) /\ names' = [names EXCEPT ![v] = walk[n]]
    BY DEF handle_volume_get_id
  <1>4. walk[n] = heap_ptr /\ heap_ptr \in Listed /\ ram[heap_ptr].size >= size
    <2> HIDE DEF size
    <2> QED  BY <1>1, <1>2, FirstIsHead
  <1>5. locks = {} /\ \A p \in Listed : p = heap_ptr /\ EndOf(p) = N  BY <1>2 DEF NamesFirst
  <1> DEFINE new == <<"name", v>>
  <1>6. heap_ptr \in Cells /\ heap_ptr # None /\ names \in [Volumes -> Cells \cup {None}]
    <2>1. heap_ptr \in Cells  BY <1>4, ListTypes
    <2> QED  BY <2>1, NNat DEF TypeOK, Cells, None
  <1>7. names'[v] = heap_ptr /\ \A u \in Volumes : u # v => names'[u] = names[u]
    BY <1>3, <1>4, <1>6
  <1>8. Owners' = Owners \cup {new}
    <2>1. {u \in Volumes : names'[u] # None} = {u \in Volumes : names[u] # None} \cup {v}
      BY <1>6, <1>7
    <2> QED  BY <1>2, <2>1 DEF Owners
  <1>9. Start(new)' = heap_ptr /\ Width(new)' = size  BY <1>7 DEF Start, Width
  <1>10. ASSUME NEW o \in Owners PROVE Start(o)' = Start(o) /\ Width(o)' = Width(o)
    <2>1. PICK u \in Volumes : names[u] # None /\ o = <<"name", u>>  BY <1>5 DEF Owners
    <2>2. u # v  BY <1>2, <2>1
    <2> QED  BY <1>7, <2>1, <2>2 DEF Start, Width
  <1> HIDE DEF size, new
  <1>11. /\ ram' \in Rams /\ heap_ptr' \in Offsets /\ ListRight' /\ HolesFit' /\ OwnersApart'
         /\ \A p \in Listed' : p = heap_ptr' /\ EndOf(p)' = N
    BY <1>1, <1>3, <1>4, <1>5, <1>8, <1>9, <1>10, TakeInv
  <1>12. TypeOK'
    <2>1. names' \in [Volumes -> Cells \cup {None}]  BY <1>3, <1>4, <1>6
    <2> QED  BY <1>2, <1>11, <2>1 DEF TypeOK, Rams, N
  <1>13. NamesFirst'  BY <1>2, <1>5, <1>11 DEF NamesFirst
  <1> QED  BY <1>11, <1>12, <1>13

LEMMA LockInv ==
  ASSUME IInv, make_lock
  PROVE  IInv'
  <1> USE DEF IInv
  <1>0. PICK new : new = <<"lock", heap_ptr>>  OBVIOUS
  <1>1. LockCells \in Nat /\ LockCells > 0  BY CellsOf
  <1>2. names' = names /\ \A v \in Volumes : names[v] # None  BY DEF make_lock
  <1>3. PICK n \in FirstFit(LockCells) : Take(walk[n], LockCells) /\ locks' = locks \cup {walk[n]}
    BY DEF make_lock, LockCells
  <1>4. walk[n] = heap_ptr /\ heap_ptr \in Listed /\ ram[heap_ptr].size >= LockCells
    BY <1>1, FirstIsHead
  <1>5. Owners' = Owners \cup {new}  BY <1>0, <1>2, <1>3, <1>4 DEF Owners
  <1>6. Start(new)' = heap_ptr /\ Width(new)' = LockCells
    <2>1. new[1] # "name" /\ new[2] = heap_ptr  BY <1>0
    <2> QED  BY <2>1 DEF Start, Width, LockCells, AllocCells
  <1>7. ASSUME NEW o \in Owners PROVE Start(o)' = Start(o) /\ Width(o)' = Width(o)
    BY <1>2 DEF Start, Width, LockCells
  <1>8. ram' \in Rams /\ heap_ptr' \in Offsets /\ ListRight' /\ HolesFit' /\ OwnersApart'
    BY <1>1, <1>3, <1>4, <1>5, <1>6, <1>7, TakeInv
  <1>9. TypeOK'
    <2>1. locks' \subseteq Cells  BY <1>3, <1>4, ListTypes DEF TypeOK
    <2> QED  BY <1>2, <1>8, <2>1 DEF TypeOK, Rams, N
  <1>10. NamesFirst'  BY <1>2 DEF NamesFirst
  <1> QED  BY <1>8, <1>9, <1>10

-----------------------------------------------------------------------------
(* A lock's memory goes back to the list *)
LEMMA FreeLockInv ==
  ASSUME IInv, NEW ptr \in Cells, action_free_lock(ptr)
  PROVE  IInv'
  <1> DEFINE L == LockCells
             next == NextIn(heap_ptr, ram, Listed, ptr)
             Q == FreedList(heap_ptr, ram, Listed, ptr, LockCells)
  <1> USE DEF IInv
  <1>0. PICK old : old = <<"lock", ptr>>  OBVIOUS
  <1>1. /\ ram \in Rams /\ Listed \subseteq Cells /\ N \in Nat /\ L \in Nat /\ L > 0
        /\ \A p \in Listed : ram[p].next \in Nat /\ ram[p].size \in Nat /\ p \in Nat /\ p < N
    BY ListTypes, NNat, CellsOf
  <1>2. Chain(heap_ptr, ram, Listed) /\ Sized(ram, Listed)  BY DEF ListRight
  <1>3. ptr \in locks /\ Free(ptr, L) /\ locks' = locks \ {ptr} /\ names' = names
    BY CellsOf DEF action_free_lock
  <1>4. old \in Owners /\ Start(old) = ptr /\ Width(old) = L
    <2>1. old \in Owners  BY <1>0, <1>3 DEF Owners
    <2>2. old[1] # "name" /\ old[2] = ptr  BY <1>0
    <2> QED  BY <2>1, <2>2 DEF Start, Width
  <1>5. ptr \in Nat /\ ptr + L <= N  BY <1>4 DEF OwnersApart
  <1>6. \A p \in Listed : Apart(ptr, L, p, ram[p].size)  BY <1>4 DEF OwnersApart
  <1>7. heap_ptr' = FreedHead(heap_ptr, Listed, ptr)
        /\ ram' = FreedRam(heap_ptr, ram, Listed, ptr, L)
    BY <1>3, FreeIs
  <1> HIDE DEF L
  <1>8. /\ ram' \in Rams /\ heap_ptr' \in Offsets /\ Chain(heap_ptr', ram', Q) /\ Sized(ram', Q)
        /\ \A p \in Q :
             \/ p \in Listed /\ ram'[p] = ram[p]
             \/ \E low, high \in Nat :
                  /\ (low = 0 /\ p = ptr) \/ (p \in Listed /\ low = ram[p].size /\ p + low = ptr)
                  /\ high = 0 \/ (next \in Listed /\ high = ram[next].size /\ next = ptr + L)
                  /\ ram'[p].size = low + L + high
    <2>1. Untouched(ram, Listed, ptr, L)  BY <1>6 DEF Untouched
    <2> QED  BY <1>1, <1>2, <1>5, <1>7, <2>1, FreedIs DEF L
  <1>9. Listed' = Q  BY <1>8, ChainListed, ListedIs
  <1> HIDE DEF Q, next
  <1>10. ASSUME NEW p \in Listed'
         PROVE  \/ p \in Listed /\ ram'[p] = ram[p]
                \/ \E low, high \in Nat :
                     /\ (low = 0 /\ p = ptr) \/ (p \in Listed /\ low = ram[p].size /\ p + low = ptr)
                     /\ high = 0 \/ (next \in Listed /\ high = ram[next].size /\ next = ptr + L)
                     /\ ram'[p].size = low + L + high
    BY <1>8, <1>9
  <1>11. ListRight'  BY <1>8, <1>9 DEF ListRight
  <1>12. HolesFit'
    <2> SUFFICES ASSUME NEW p \in Listed' PROVE p + ram'[p].size = N \/ LockMultiple(ram'[p].size)
      BY DEF HolesFit, EndOf
    <2>1. CASE p \in Listed /\ ram'[p] = ram[p]  BY <2>1 DEF HolesFit, EndOf
    <2>2. CASE ~(p \in Listed /\ ram'[p] = ram[p])
      <3>1. PICK low, high \in Nat :
              /\ (low = 0 /\ p = ptr) \/ (p \in Listed /\ low = ram[p].size /\ p + low = ptr)
              /\ high = 0 \/ (next \in Listed /\ high = ram[next].size /\ next = ptr + L)
              /\ ram'[p].size = low + L + high
        BY <1>10, <2>2
      <3>2. p \in Nat /\ p + low = ptr
        <4>1. CASE low = 0 /\ p = ptr  BY <1>5, <4>1
        <4>2. CASE p \in Listed /\ low = ram[p].size /\ p + low = ptr  BY <1>1, <4>2
        <4> QED  BY <3>1, <4>1, <4>2
      <3>3. low = 0 \/ LockMultiple(low)
        <4>1. p \in Listed /\ low = ram[p].size /\ p + low = ptr => p + ram[p].size # N
          BY <1>1, <1>5, <3>2
        <4> QED  BY <3>1, <4>1 DEF HolesFit, EndOf
      <3>4. LockMultiple(low + L)
        <4>1. LockMultiple(L)  BY Multiples DEF L
        <4>2. low = 0 => low + L = L  BY <1>1
        <4> QED  BY <3>3, <4>1, <4>2, Multiples
      <3>5. high = 0 \/ LockMultiple(high) \/ ptr + L + high = N
        BY <3>1 DEF HolesFit, EndOf
      <3>6. CASE ptr + L + high = N
        <4>1. p + (low + L + high) = N  BY <1>1, <3>2, <3>6
        <4> QED  BY <3>1, <4>1
      <3>7. CASE high = 0
        <4>1. low + L + high = low + L  BY <1>1, <3>7
        <4> QED  BY <3>1, <3>4, <4>1
      <3>8. CASE LockMultiple(high)
        <4>1. LockMultiple((low + L) + high)  BY <3>4, <3>8, Multiples
        <4> QED  BY <3>1, <4>1
      <3> QED  BY <3>5, <3>6, <3>7, <3>8
    <2> QED  BY <2>1, <2>2
  <1>13. Owners' = Owners \ {old}
    <2>1. \A v : <<"name", v>> # old  BY <1>0
    <2>2. \A p : <<"lock", p>> = old <=> p = ptr  BY <1>0
    <2> QED  BY <1>3, <2>1, <2>2 DEF Owners
  <1>14. \A o \in Owners' : /\ o \in Owners /\ o # old
                            /\ Start(o)' = Start(o) /\ Width(o)' = Width(o)
    BY <1>3, <1>13 DEF Start, Width, LockCells
  <1>15. \A o \in Owners : /\ Start(o) \in Nat /\ Width(o) \in Nat /\ Width(o) > 0
                           /\ Start(o) + Width(o) <= N
    BY OwnersSizes DEF OwnersApart
  <1>16. OwnersApart'
    <2>1. ASSUME NEW o \in Owners' PROVE Start(o)' \in Nat /\ Start(o)' + Width(o)' <= N
      BY <1>14, <1>15
    <2>2. ASSUME NEW a \in Owners', NEW o \in Owners', a # o
          PROVE  Apart(Start(a)', Width(a)', Start(o)', Width(o)')
      <3>1. Apart(Start(a), Width(a), Start(o), Width(o))  BY <1>14, <2>2 DEF OwnersApart
      <3> QED  BY <1>14, <3>1
    <2>3. ASSUME NEW o \in Owners', NEW p \in Listed'
          PROVE  Apart(Start(o)', Width(o)', p, ram'[p].size)
      <3>1. o \in Owners /\ o # old /\ Start(o)' = Start(o) /\ Width(o)' = Width(o)  BY <1>14
      <3> SUFFICES Apart(Start(o), Width(o), p, ram'[p].size)
        BY <3>1
      <3>2. CASE p \in Listed /\ ram'[p] = ram[p]  BY <3>1, <3>2 DEF OwnersApart
      <3>3. CASE ~(p \in Listed /\ ram'[p] = ram[p])
        <4>1. PICK low, high \in Nat :
                /\ (low = 0 /\ p = ptr) \/ (p \in Listed /\ low = ram[p].size /\ p + low = ptr)
                /\ high = 0 \/ (next \in Listed /\ high = ram[next].size /\ next = ptr + L)
                /\ ram'[p].size = low + L + high
          BY <1>10, <3>3
        <4>2. Apart(Start(o), Width(o), ptr, L)  BY <1>4, <3>1 DEF OwnersApart
        <4>3. low = 0 \/ Apart(Start(o), Width(o), p, low)  BY <3>1, <4>1 DEF OwnersApart
        <4>4. high = 0 \/ Apart(Start(o), Width(o), ptr + L, high)  BY <3>1, <4>1 DEF OwnersApart
        <4>5. p \in Nat /\ p + low = ptr  BY <1>1, <1>5, <4>1
        <4>6. Start(o) \in Nat /\ Width(o) \in Nat /\ Width(o) > 0  BY <1>15, <3>1
        <4>7. Apart(Start(o), Width(o), p, low + L + high)
          BY <1>1, <1>5, <4>2, <4>3, <4>4, <4>5, <4>6 DEF Apart
        <4> QED  BY <4>1, <4>7
      <3> QED  BY <3>2, <3>3
    <2> QED  BY <2>1, <2>2, <2>3 DEF OwnersApart
  <1>17. NamesFirst'
    <2>1. ~ \E v \in Volumes : names[v] = None  BY <1>3 DEF NamesFirst
    <2> QED  BY <1>3, <2>1 DEF NamesFirst
  <1>18. TypeOK'
    <2>1. locks' \subseteq Cells /\ names' \in [Volumes -> Cells \cup {None}]  BY <1>3 DEF TypeOK
    <2> QED  BY <1>8, <2>1 DEF TypeOK, Rams, N
  <1> QED  BY <1>11, <1>12, <1>16, <1>17, <1>18

LEMMA StutterInv ==
  ASSUME IInv, UNCHANGED vars
  PROVE  IInv'
  <1> USE DEF vars
  <1>1. Listed' = Listed  BY ListedIs
  <1>2. Owners' = Owners  BY DEF Owners
  <1>3. TypeOK'  BY DEF IInv, TypeOK
  <1>4. ListRight'  BY <1>1 DEF IInv, ListRight
  <1>5. HolesFit' /\ NamesFirst'  BY <1>1 DEF IInv, HolesFit, NamesFirst, EndOf
  <1>6. OwnersApart'  BY <1>1, <1>2 DEF IInv, OwnersApart, Start, Width
  <1> QED  BY <1>3, <1>4, <1>5, <1>6 DEF IInv

(***************************************************************************)
(* local_ram_alloc and local_ram_free keep the free list valid, give no    *)
(* memory to two owners and leave no hole a lock does not fit in, whatever *)
(* the size of the RAM, the names and the size of a lock.                  *)
(***************************************************************************)
THEOREM RamSoundCorrect == Spec => []RamSound
  <1>1. Init => IInv  BY InitInv
  <1>2. IInv /\ [Next]_vars => IInv'
    <2> SUFFICES ASSUME IInv, [Next]_vars PROVE IInv'
      OBVIOUS
    <2>1. ASSUME NEW v \in Volumes, handle_volume_get_id(v) PROVE IInv'  BY <2>1, NameInv
    <2>2. CASE make_lock  BY <2>2, LockInv
    <2>3. ASSUME NEW p \in Cells, action_free_lock(p) PROVE IInv'  BY <2>3, FreeLockInv
    <2>4. CASE reset  BY <2>4, ResetInv
    <2>5. CASE UNCHANGED vars  BY <2>5, StutterInv
    <2> QED  BY <2>1, <2>2, <2>3, <2>4, <2>5 DEF Next
  <1>3. IInv => RamSound  BY InvGivesSound
  <1> QED  BY <1>1, <1>2, <1>3, PTL DEF Spec

-----------------------------------------------------------------------------
(* The disks: each partition is on one of them *)
LEMMA AddedExists ==
  ASSUME NEW acc, NEW ps, NEW m \in Nat
  PROVE  \E f : f = [k \in 0 .. m |-> IF k = 0 THEN acc ELSE AddPartition(f[k - 1], ps[k])]
  <1> DEFINE Is(f, j) == f = [k \in 0 .. j |-> IF k = 0 THEN acc ELSE AddPartition(f[k - 1], ps[k])]
             T == {j \in Nat : \E f : Is(f, j)}
  <1>1. 0 \in T
    <2> DEFINE f == [k \in 0 .. 0 |-> acc]
    <2>1. f = [k \in 0 .. 0 |-> IF k = 0 THEN acc ELSE AddPartition(f[k - 1], ps[k])]  OBVIOUS
    <2> QED  BY <2>1
  <1>2. ASSUME NEW j \in Nat, j \in T PROVE j + 1 \in T
    <2>1. PICK f : Is(f, j)  BY <1>2
    <2> DEFINE g == [k \in 0 .. j + 1 |-> IF k = j + 1 THEN AddPartition(f[j], ps[j + 1]) ELSE f[k]]
    <2>2. \A k \in 0 .. j : g[k] = f[k]  OBVIOUS
    <2>3. g[j + 1] = AddPartition(f[j], ps[j + 1])  OBVIOUS
    <2>4. \A k \in 0 .. j : f[k] = IF k = 0 THEN acc ELSE AddPartition(f[k - 1], ps[k])  BY <2>1
    <2>5. g = [k \in 0 .. j + 1 |-> g[k]]  OBVIOUS
    <2> HIDE DEF g
    <2>6. ASSUME NEW k \in 0 .. j + 1
          PROVE  g[k] = IF k = 0 THEN acc ELSE AddPartition(g[k - 1], ps[k])
      <3>1. CASE k = j + 1
        <4>1. k # 0 /\ k - 1 = j /\ j \in 0 .. j  BY <3>1
        <4> QED  BY <2>2, <2>3, <3>1, <4>1
      <3>2. CASE k # j + 1
        <4>1. k \in 0 .. j /\ (k # 0 => k - 1 \in 0 .. j)  BY <3>2
        <4> QED  BY <2>2, <2>4, <4>1
      <3> QED  BY <3>1, <3>2
    <2>7. Is(g, j + 1)  BY <2>5, <2>6
    <2> HIDE DEF Is
    <2> QED  BY <2>7
  <1> HIDE DEF T
  <1>3. \A j \in Nat : j \in T  BY <1>1, <1>2, SetInduction
  <1> QED  BY <1>3 DEF T

LEMMA AddedIs ==
  ASSUME NEW T, NEW acc, acc[1] \in Seq(T), NEW ps \in Seq(T)
  PROVE  AddPartitions(acc, ps)[1] \in Seq(T)
  <1> DEFINE f == CHOOSE f : f = [k \in 0 .. Len(ps) |-> IF k = 0 THEN acc ELSE AddPartition(f[k - 1], ps[k])]
  <1>1. f = [k \in 0 .. Len(ps) |-> IF k = 0 THEN acc ELSE AddPartition(f[k - 1], ps[k])]
    <2>1. Len(ps) \in Nat  OBVIOUS
    <2> QED  BY <2>1, AddedExists
  <1>2. AddPartitions(acc, ps) = f[Len(ps)]  BY DEF AddPartitions
  <1> HIDE DEF f
  <1>3. \A k \in 0 .. Len(ps) : f[k] = IF k = 0 THEN acc ELSE AddPartition(f[k - 1], ps[k])  BY <1>1
  <1> DEFINE R == {k \in Nat : k <= Len(ps) => f[k][1] \in Seq(T)}
  <1>4. 0 \in R  BY <1>3
  <1>5. ASSUME NEW k \in Nat, k \in R PROVE k + 1 \in R
    <2> SUFFICES ASSUME k + 1 <= Len(ps) PROVE f[k + 1][1] \in Seq(T)
      OBVIOUS
    <2>1. k <= Len(ps) /\ k + 1 \in 0 .. Len(ps) /\ k + 1 # 0 /\ k + 1 - 1 = k /\ k + 1 \in 1 .. Len(ps)
      OBVIOUS
    <2>2. f[k][1] \in Seq(T)  BY <1>5, <2>1
    <2>3. f[k + 1] = AddPartition(f[k], ps[k + 1])  BY <1>3, <2>1
    <2>4. ps[k + 1] \in T  BY <2>1
    <2> QED  BY <2>2, <2>3, <2>4 DEF AddPartition
  <1> HIDE DEF R
  <1>6. \A k \in Nat : k \in R  BY <1>4, <1>5, SetInduction
  <1>7. Len(ps) \in R /\ Len(ps) \in Nat  BY <1>6
  <1> QED  BY <1>2, <1>7 DEF R

(* Sizes are numbers, and each partition is of a disk that is there *)
DisksRight(h, ps) ==
  /\ h \in Seq(Nat)
  /\ \E T : ps \in Seq(T) /\ \A p \in T : p.hd \in 1 .. Len(h)

LEMMA ReadIs ==
  ASSUME NEW acc, DisksRight(acc.hds, acc.partitions), NEW d, d.size \in Nat,
         d.rdb => DOMAIN d.parts = 1 .. Len(d.parts) /\ Len(d.parts) \in Nat
  PROVE  DisksRight(ReadDisk(acc, d).hds, ReadDisk(acc, d).partitions)
  <1> DEFINE hd == Len(acc.hds) + 1
             OnDisk(p) == [name |-> p.name, dos_type |-> p.dos_type, hd |-> hd, no_automount |-> p.no_automount]
             ps == [i \in DOMAIN d.parts |-> OnDisk(d.parts[i])]
             listed == AddPartitions(<<acc.partitions, FALSE>>, ps)
             plain == [name |-> PlainName(acc.partitions), dos_type |-> 0, hd |-> hd, no_automount |-> FALSE]
             new == ReadDisk(acc, d)
  <1>1. /\ new.hds = Append(acc.hds, d.size)
        /\ new.partitions = IF d.rdb THEN listed[1] ELSE Append(acc.partitions, plain)
    BY DEF ReadDisk
  <1>2. acc.hds \in Seq(Nat) /\ hd \in Nat /\ new.hds \in Seq(Nat) /\ Len(new.hds) = hd
    BY <1>1 DEF DisksRight
  <1>3. PICK T : acc.partitions \in Seq(T) /\ \A p \in T : p.hd \in 1 .. Len(acc.hds)
    BY DEF DisksRight
  <1> HIDE DEF new, listed
  <1>4. CASE ~d.rdb
    <2> DEFINE U == T \cup {plain}
    <2>1. \A p \in U : p.hd \in 1 .. hd
      <3>1. plain.hd = hd /\ hd \in 1 .. hd  BY <1>2
      <3>2. \A p \in T : p.hd \in 1 .. hd  BY <1>2, <1>3
      <3> HIDE DEF plain, hd
      <3> QED  BY <3>1, <3>2
    <2>2. new.partitions \in Seq(U)
      <3> HIDE DEF plain
      <3>1. acc.partitions \in Seq(U) /\ plain \in U  BY <1>3
      <3> QED  BY <1>1, <1>4, <3>1
    <2> HIDE DEF U
    <2> QED  BY <1>2, <2>1, <2>2 DEF DisksRight, new
  <1>5. CASE d.rdb
    <2> DEFINE V == {OnDisk(d.parts[i]) : i \in DOMAIN d.parts}
               U == T \cup V
    <2>1. \A p \in U : p.hd \in 1 .. hd
      <3>1. \A p \in V : p.hd = hd  OBVIOUS
      <3>2. \A p \in T : p.hd \in 1 .. hd  BY <1>2, <1>3
      <3> HIDE DEF V, hd
      <3> QED  BY <1>2, <3>1, <3>2 DEF hd
    <2>2. ps \in Seq(U)
      <3>1. \A i \in DOMAIN d.parts : OnDisk(d.parts[i]) \in U  OBVIOUS
      <3>2. DOMAIN d.parts = 1 .. Len(d.parts) /\ Len(d.parts) \in Nat  BY <1>5
      <3> HIDE DEF U, OnDisk
      <3> QED  BY <3>1, <3>2
    <2>3. <<acc.partitions, FALSE>>[1] \in Seq(U)
      <3> HIDE DEF V
      <3> QED  BY <1>3
    <2>4. listed[1] \in Seq(U)
      <3> HIDE DEF U, ps
      <3> QED  BY <2>2, <2>3, AddedIs DEF listed
    <2> HIDE DEF U
    <2>5. new.partitions \in Seq(U)  BY <1>1, <1>5, <2>4
    <2> QED  BY <1>2, <2>1, <2>5 DEF DisksRight, new
  <1> QED  BY <1>4, <1>5

LEMMA ReadExists ==
  ASSUME NEW files, NEW m \in Nat
  PROVE  \E f : f = [k \in 0 .. m |-> IF k = 0 THEN NoDisks ELSE ReadDisk(f[k - 1], files[k])]
  <1> DEFINE Is(f, j) == f = [k \in 0 .. j |-> IF k = 0 THEN NoDisks ELSE ReadDisk(f[k - 1], files[k])]
             T == {j \in Nat : \E f : Is(f, j)}
  <1>1. 0 \in T
    <2> DEFINE f == [k \in 0 .. 0 |-> NoDisks]
    <2>1. f = [k \in 0 .. 0 |-> IF k = 0 THEN NoDisks ELSE ReadDisk(f[k - 1], files[k])]  OBVIOUS
    <2> QED  BY <2>1
  <1>2. ASSUME NEW j \in Nat, j \in T PROVE j + 1 \in T
    <2>1. PICK f : Is(f, j)  BY <1>2
    <2> DEFINE g == [k \in 0 .. j + 1 |-> IF k = j + 1 THEN ReadDisk(f[j], files[j + 1]) ELSE f[k]]
    <2>2. \A k \in 0 .. j : g[k] = f[k]  OBVIOUS
    <2>3. g[j + 1] = ReadDisk(f[j], files[j + 1])  OBVIOUS
    <2>4. \A k \in 0 .. j : f[k] = IF k = 0 THEN NoDisks ELSE ReadDisk(f[k - 1], files[k])  BY <2>1
    <2>5. g = [k \in 0 .. j + 1 |-> g[k]]  OBVIOUS
    <2> HIDE DEF g
    <2>6. ASSUME NEW k \in 0 .. j + 1
          PROVE  g[k] = IF k = 0 THEN NoDisks ELSE ReadDisk(g[k - 1], files[k])
      <3>1. CASE k = j + 1
        <4>1. k # 0 /\ k - 1 = j /\ j \in 0 .. j  BY <3>1
        <4> QED  BY <2>2, <2>3, <3>1, <4>1
      <3>2. CASE k # j + 1
        <4>1. k \in 0 .. j /\ (k # 0 => k - 1 \in 0 .. j)  BY <3>2
        <4> QED  BY <2>2, <2>4, <4>1
      <3> QED  BY <3>1, <3>2
    <2>7. Is(g, j + 1)  BY <2>5, <2>6
    <2> HIDE DEF Is
    <2> QED  BY <2>7
  <1> HIDE DEF T
  <1>3. \A j \in Nat : j \in T  BY <1>1, <1>2, SetInduction
  <1> QED  BY <1>3 DEF T

LEMMA InitDisksIs ==
  ASSUME NEW files \in Disks
  PROVE  DisksRight(init_disks(files).hds, init_disks(files).partitions)
  <1> DEFINE n == Len(files)
             f == CHOOSE f : f = [k \in 0 .. n |-> IF k = 0 THEN NoDisks ELSE ReadDisk(f[k - 1], files[k])]
  <1>0. /\ n \in Nat
        /\ \A i \in 1 .. n :
             /\ files[i].size \in Nat
             /\ files[i].rdb => DOMAIN files[i].parts = 1 .. Len(files[i].parts) /\ Len(files[i].parts) \in Nat
    BY BoardAssumption
  <1>1. f = [k \in 0 .. n |-> IF k = 0 THEN NoDisks ELSE ReadDisk(f[k - 1], files[k])]
    BY <1>0, ReadExists
  <1>2. init_disks(files) = f[n]  BY DEF init_disks
  <1> HIDE DEF f, n
  <1>3. \A k \in 0 .. n : f[k] = IF k = 0 THEN NoDisks ELSE ReadDisk(f[k - 1], files[k])  BY <1>1
  <1> DEFINE R == {k \in Nat : k <= n => DisksRight(f[k].hds, f[k].partitions)}
  <1>4. 0 \in R
    <2>1. n >= 0 => f[0] = NoDisks  BY <1>0, <1>3
    <2>2. DisksRight(NoDisks.hds, NoDisks.partitions)
      <3>1. NoDisks.hds = <<>> /\ NoDisks.partitions = <<>>  BY DEF NoDisks
      <3>2. <<>> \in Seq(Nat) /\ <<>> \in Seq({})  OBVIOUS
      <3>3. \A p \in {} : p.hd \in 1 .. Len(<<>>)  OBVIOUS
      <3> QED  BY <3>1, <3>2, <3>3 DEF DisksRight
    <2> QED  BY <1>0, <2>1, <2>2
  <1>5. ASSUME NEW k \in Nat, k \in R PROVE k + 1 \in R
    <2> SUFFICES ASSUME k + 1 <= n PROVE DisksRight(f[k + 1].hds, f[k + 1].partitions)
      OBVIOUS
    <2>1. k <= n /\ k + 1 \in 0 .. n /\ k + 1 # 0 /\ k + 1 - 1 = k /\ k + 1 \in 1 .. n
      BY <1>0
    <2>2. DisksRight(f[k].hds, f[k].partitions)  BY <1>5, <2>1
    <2>3. f[k + 1] = ReadDisk(f[k], files[k + 1])  BY <1>3, <2>1
    <2>4. /\ files[k + 1].size \in Nat
          /\ files[k + 1].rdb =>
               /\ DOMAIN files[k + 1].parts = 1 .. Len(files[k + 1].parts)
               /\ Len(files[k + 1].parts) \in Nat
      BY <1>0, <2>1
    <2> QED  BY <2>2, <2>3, <2>4, ReadIs
  <1> HIDE DEF R
  <1>6. \A k \in Nat : k \in R  BY <1>4, <1>5, SetInduction
  <1>7. n \in R  BY <1>0, <1>6
  <1> QED  BY <1>0, <1>2, <1>7 DEF R

-----------------------------------------------------------------------------
(* What the board answers says what it did *)
Answer(r, how) ==
  LET size == hds[partitions[r.unit].hd]
      at == Bytes(r)[1]
      len == Bytes(r)[2]
  IN  /\ (how = "done" /\ r.cmd # "other") =>
            at % sector_size = 0 /\ len % sector_size = 0 /\ at + len <= size
      /\ how = "assert" => len \in {0, size}

LEMMA TransferIs ==
  ASSUME NEW size \in Nat, NEW cmd, NEW ofs \in Nat, NEW len \in Nat,
         ~Outside(size, ofs, len), ofs % sector_size = 0, len % sector_size = 0
  PROVE  /\ Transfer(size, cmd, ofs, len) \in {"assert", "done"}
         /\ ofs + len <= size
         /\ Transfer(size, cmd, ofs, len) = "assert" => len \in {0, size}
  BY DEF Outside, Transfer, ReadAsserts

LEMMA ServeIs ==
  ASSUME DisksRight(hds, partitions), NEW r \in DiskRequests
  PROVE  Answer(r, Serve(r))
  <1> DEFINE size == hds[partitions[r.unit].hd]
             how == Serve(r)
  <1>0. r.ofs \in Nat /\ r.len \in Nat  BY BoardAssumption
  <1>1. CASE r.unit \notin DOMAIN partitions
    <2>1. how = "throw"  BY <1>1 DEF Serve
    <2> QED  BY <2>1 DEF Answer
  <1>2. CASE r.unit \in DOMAIN partitions
    <2>1. size \in Nat
      <3>1. PICK T : partitions \in Seq(T) /\ \A p \in T : p.hd \in 1 .. Len(hds)  BY DEF DisksRight
      <3>2. partitions[r.unit] \in T  BY <1>2, <3>1
      <3>3. partitions[r.unit].hd \in 1 .. Len(hds)  BY <3>1, <3>2
      <3> QED  BY <3>3 DEF DisksRight
    <2>2. CASE r.cmd \in {"scsi read", "scsi write"}
      <3> DEFINE lba == r.ofs * sector_size
                 len == r.len * sector_size
                 cmd == IF r.cmd = "scsi read" THEN "read" ELSE "write"
      <3>1. how = ScsiCommand(size, r)  BY <1>2, <2>2 DEF Serve
      <3>2. how = "scsi error" \/ (~Outside(size, lba, len) /\ how = Transfer(size, cmd, lba, len))
        BY <3>1 DEF ScsiCommand
      <3>3. lba \in Nat /\ len \in Nat /\ lba % sector_size = 0 /\ len % sector_size = 0
        BY <1>0 DEF sector_size
      <3>4. Bytes(r)[1] = lba /\ Bytes(r)[2] = len  BY <2>2 DEF Bytes
      <3>5. CASE how = "scsi error"  BY <3>5 DEF Answer
      <3>6. CASE ~Outside(size, lba, len) /\ how = Transfer(size, cmd, lba, len)
        <4> HIDE DEF size, lba, len, cmd, how
        <4>1. lba + len <= size /\ (how = "assert" => len \in {0, size})
          BY <2>1, <3>3, <3>6, TransferIs
        <4> QED  BY <3>3, <3>4, <4>1 DEF Answer, size, how
      <3> QED  BY <3>2, <3>5, <3>6
    <2>3. CASE r.cmd \notin {"scsi read", "scsi write"}
      <3>1. how = DeviceCommand(size, r)  BY <1>2, <2>3 DEF Serve
      <3>2. Bytes(r)[1] = r.ofs /\ Bytes(r)[2] = r.len  BY <2>3 DEF Bytes
      <3>3. \/ how \in {"no command", "bad address"}
            \/ how = "done" /\ r.cmd = "other"
            \/ /\ ~Outside(size, r.ofs, r.len) /\ r.ofs % sector_size = 0 /\ r.len % sector_size = 0
               /\ how = Transfer(size, r.cmd, r.ofs, r.len)
        BY <3>1 DEF DeviceCommand
      <3>4. CASE how \in {"no command", "bad address"} \/ (how = "done" /\ r.cmd = "other")
        BY <3>4 DEF Answer
      <3>5. CASE /\ ~Outside(size, r.ofs, r.len) /\ r.ofs % sector_size = 0 /\ r.len % sector_size = 0
                 /\ how = Transfer(size, r.cmd, r.ofs, r.len)
        <4> HIDE DEF size, how
        <4>1. r.ofs + r.len <= size /\ (how = "assert" => r.len \in {0, size})
          BY <1>0, <2>1, <3>5, TransferIs
        <4> QED  BY <3>2, <3>5, <4>1 DEF Answer, size, how
      <3> QED  BY <3>3, <3>4, <3>5
    <2> QED  BY <2>2, <2>3
  <1> QED  BY <1>1, <1>2

-----------------------------------------------------------------------------
(* The inductive invariant: the pointer is that of a task that has not yet *)
(* written its command and was not served; what was served was answered.   *)
Answers == {"throw", "scsi error", "no command", "bad address", "assert", "done"}
TaskStates == [pc : {"idle", "command", "replied"}, req : DiskRequests \cup {NoPtr}, served : Seq(Answers)]

TaskRight(t) ==
  /\ io[t].pc # "idle" => io[t].req \in DiskRequests
  /\ \/ io[t].served = <<>>
     \/ io[t].pc # "idle" /\ \E how \in Answers : io[t].served = <<how>> /\ Answer(io[t].req, how)

PointerRight ==
  \/ ptr_hold = NoPtr
  \/ \E t \in Tasks : ptr_hold = <<t>> /\ io[t].pc = "command" /\ io[t].served = <<>>

BoardInv ==
  /\ DisksRight(hds, partitions)
  /\ io \in [Tasks -> TaskStates]
  /\ \A t \in Tasks : TaskRight(t)
  /\ PointerRight

LEMMA IdleRight ==
  ASSUME io' = [t \in Tasks |-> Idle]
  PROVE  io' \in [Tasks -> TaskStates] /\ \A t \in Tasks : TaskRight(t)'
  <1>1. Idle \in TaskStates  BY DEF Idle, TaskStates
  <1>2. \A t \in Tasks : io'[t] = Idle  OBVIOUS
  <1>3. Idle.pc = "idle" /\ Idle.served = <<>>  BY DEF Idle
  <1> QED  BY <1>1, <1>2, <1>3 DEF TaskRight

LEMMA BoardInitInv ==
  ASSUME BoardInit
  PROVE  BoardInv
  <1>1. PICK files \in Disks : hds = init_disks(files).hds /\ partitions = init_disks(files).partitions
    BY DEF BoardInit
  <1>2. Idle \in TaskStates /\ Idle.pc = "idle" /\ Idle.served = <<>>  BY DEF Idle, TaskStates
  <1>3. \A t \in Tasks : io[t] = Idle  BY DEF BoardInit
  <1>4. io \in [Tasks -> TaskStates]  BY <1>2 DEF BoardInit
  <1>5. \A t \in Tasks : TaskRight(t)  BY <1>2, <1>3 DEF TaskRight
  <1>6. PointerRight  BY DEF BoardInit, PointerRight
  <1> QED  BY <1>1, <1>4, <1>5, <1>6, InitDisksIs DEF BoardInv

LEMMA BoardNextInv ==
  ASSUME BoardInv, [BoardNext]_board_vars
  PROVE  BoardInv'
  <1> USE DEF BoardInv
  <1>0. \A r, how : UNCHANGED <<hds, partitions>> => Answer(r, how)' = Answer(r, how)
    BY DEF Answer
  <1>1. ASSUME UNCHANGED <<hds, partitions, io>>, ptr_hold' = NoPtr \/ ptr_hold' = ptr_hold PROVE BoardInv'
    <2>1. \A t \in Tasks : TaskRight(t)'  BY <1>0, <1>1 DEF TaskRight
    <2>2. PointerRight'  BY <1>1 DEF PointerRight
    <2> QED  BY <1>1, <2>1, <2>2
  <1>2. CASE handle_fs_resource
    BY <1>1, <1>2 DEF handle_fs_resource, Tells, PtrAfter
  <1>3. CASE \E i \in DOMAIN filesystems, allocated \in BOOLEAN : handle_fs_initseg(i, allocated)
    BY <1>1, <1>3 DEF handle_fs_initseg, Tells, PtrAfter
  <1>4. CASE \E u \in DOMAIN partitions : handle_init(u)
    BY <1>1, <1>4 DEF handle_init, Tells, PtrAfter
  <1>5. ASSUME NEW t \in Tasks, NEW r \in DiskRequests, BeginIO(t, r) PROVE BoardInv'
    <2> DEFINE new == [pc |-> "command", req |-> r, served |-> <<>>]
    <2>1. /\ io[t].pc = "idle" /\ ptr_hold' = <<t>> /\ io' = [io EXCEPT ![t] = new]
          /\ UNCHANGED <<hds, partitions>>
      BY <1>5 DEF BeginIO
    <2>2. new \in TaskStates /\ new.pc = "command" /\ new.req = r /\ new.served = <<>>  BY DEF TaskStates
    <2> HIDE DEF new
    <2>3. io' \in [Tasks -> TaskStates] /\ io'[t] = new /\ \A u \in Tasks : u # t => io'[u] = io[u]
      BY <2>1, <2>2
    <2>4. ASSUME NEW u \in Tasks PROVE TaskRight(u)'
      <3>1. CASE u = t  BY <2>2, <2>3, <3>1 DEF TaskRight
      <3>2. CASE u # t  BY <1>0, <2>1, <2>3, <3>2 DEF TaskRight
      <3> QED  BY <3>1, <3>2
    <2>5. PointerRight'  BY <2>1, <2>2, <2>3 DEF PointerRight
    <2> QED  BY <2>1, <2>3, <2>4, <2>5
  <1>6. ASSUME NEW t \in Tasks, WriteCommand(t) PROVE BoardInv'
    <2>1. io[t].pc = "command" /\ UNCHANGED <<hds, partitions>>  BY <1>6 DEF WriteCommand
    <2>2. io[t] \in TaskStates /\ io[t].req \in DiskRequests  BY <2>1 DEF TaskRight
    <2>3. CASE ptr_hold = NoPtr
      <3>1. io' = [io EXCEPT ![t].pc = "replied"] /\ ptr_hold' = NoPtr  BY <1>6, <2>3 DEF WriteCommand
      <3>2. /\ io' \in [Tasks -> TaskStates] /\ io'[t].pc = "replied" /\ io'[t].req = io[t].req
            /\ io'[t].served = io[t].served /\ \A u \in Tasks : u # t => io'[u] = io[u]
        BY <2>2, <3>1 DEF TaskStates
      <3>3. ASSUME NEW u \in Tasks PROVE TaskRight(u)'
        <4>1. CASE u = t  BY <1>0, <2>1, <2>2, <3>2, <4>1 DEF TaskRight
        <4>2. CASE u # t  BY <1>0, <2>1, <3>2, <4>2 DEF TaskRight
        <4> QED  BY <4>1, <4>2
      <3>4. PointerRight'  BY <3>1 DEF PointerRight
      <3> QED  BY <2>1, <3>2, <3>3, <3>4
    <2>4. CASE ptr_hold # NoPtr
      <3>1. PICK o \in Tasks : ptr_hold = <<o>> /\ io[o].pc = "command" /\ io[o].served = <<>>
        BY <2>4 DEF PointerRight
      <3>0. PICK how : how = Serve(io[o].req)  OBVIOUS
      <3> DEFINE after == [io EXCEPT ![o].served = Append(@, how)]
      <3>2. /\ io' = [after EXCEPT ![t].pc = "replied"] /\ ptr_hold' = NoPtr
        <4>1. ptr_hold[1] = o  BY <3>1
        <4> QED  BY <1>6, <2>4, <3>0, <4>1 DEF WriteCommand, Tells, PtrAfter
      <3>3. io[o] \in TaskStates /\ io[o].req \in DiskRequests  BY <3>1 DEF TaskRight
      <3>4. Answer(io[o].req, how)  BY <3>0, <3>3, ServeIs
      <3>5. how \in Answers
        <4>1. \A size, cmd, ofs, len : Transfer(size, cmd, ofs, len) \in Answers  BY DEF Transfer, Answers
        <4>2. \A size, r : DeviceCommand(size, r) \in Answers  BY <4>1 DEF DeviceCommand, Answers
        <4>3. \A size, r : ScsiCommand(size, r) \in Answers  BY <4>1 DEF ScsiCommand, Answers
        <4> QED  BY <3>0, <4>2, <4>3 DEF Serve, Answers
      <3>6. Append(io[o].served, how) = <<how>> /\ <<how>> \in Seq(Answers)  BY <3>1, <3>5
      <3>7. /\ after \in [Tasks -> TaskStates]
            /\ after[o].pc = "command" /\ after[o].req = io[o].req /\ after[o].served = <<how>>
            /\ \A u \in Tasks : u # o => after[u] = io[u]
        BY <3>1, <3>3, <3>6 DEF TaskStates
      <3>8. after[t].pc = "command" /\ after[t] \in TaskStates /\ after[t].req = io[t].req
        BY <2>1, <3>7
      <3> HIDE DEF after
      <3>9. /\ io' \in [Tasks -> TaskStates] /\ io'[t].pc = "replied" /\ io'[t].req = after[t].req
            /\ io'[t].served = after[t].served /\ \A u \in Tasks : u # t => io'[u] = after[u]
        BY <3>2, <3>7, <3>8 DEF TaskStates
      <3>10. ASSUME NEW u \in Tasks PROVE TaskRight(u)'
        <4>1. io'[u].req = io[u].req /\ io'[u].served = after[u].served
              /\ (io'[u].pc # "idle" <=> io[u].pc # "idle")
          BY <2>1, <3>1, <3>7, <3>8, <3>9
        <4>2. CASE u = o
          <5>1. io'[u].served = <<how>> /\ io'[u].pc # "idle" /\ io'[u].req = io[o].req
            BY <3>1, <3>7, <4>1, <4>2
          <5>2. Answer(io[u].req, how)'
            BY <2>1, <3>4, <5>1 DEF Answer
          <5> QED  BY <3>3, <3>5, <4>1, <4>2, <5>1, <5>2 DEF TaskRight
        <4>3. CASE u # o
          <5>1. io'[u].served = io[u].served  BY <3>7, <4>1, <4>3
          <5> QED  BY <1>0, <2>1, <4>1, <5>1 DEF TaskRight
        <4> QED  BY <4>2, <4>3
      <3>11. PointerRight'  BY <3>2 DEF PointerRight
      <3> QED  BY <2>1, <3>9, <3>10, <3>11
    <2> QED  BY <2>3, <2>4
  <1>7. ASSUME NEW t \in Tasks, Replied(t) PROVE BoardInv'
    <2>1. /\ io[t].pc = "replied" /\ io' = [io EXCEPT ![t] = Idle]
          /\ UNCHANGED <<hds, partitions, ptr_hold>>
      BY <1>7 DEF Replied
    <2>2. Idle \in TaskStates /\ Idle.pc = "idle" /\ Idle.served = <<>>  BY DEF Idle, TaskStates
    <2>3. io' \in [Tasks -> TaskStates] /\ io'[t] = Idle /\ \A u \in Tasks : u # t => io'[u] = io[u]
      BY <2>1, <2>2
    <2>4. ASSUME NEW u \in Tasks PROVE TaskRight(u)'
      <3>1. CASE u = t  BY <2>2, <2>3, <3>1 DEF TaskRight
      <3>2. CASE u # t  BY <1>0, <2>1, <2>3, <3>2 DEF TaskRight
      <3> QED  BY <3>1, <3>2
    <2>5. PointerRight'  BY <2>1, <2>3 DEF PointerRight
    <2> QED  BY <2>1, <2>3, <2>4, <2>5
  <1>8. ASSUME NEW files \in Disks, NEW have \in Resources, board_reset(files, have) PROVE BoardInv'
    <2>1. /\ hds' = init_disks(files).hds /\ partitions' = init_disks(files).partitions
          /\ io' = [t \in Tasks |-> Idle] /\ ptr_hold' = NoPtr
      BY <1>8 DEF board_reset, Made
    <2>2. DisksRight(hds', partitions')  BY <2>1, InitDisksIs
    <2>3. PointerRight'  BY <2>1 DEF PointerRight
    <2> QED  BY <2>1, <2>2, <2>3, IdleRight
  <1>9. CASE UNCHANGED board_vars  BY <1>1, <1>9 DEF board_vars
  <1> QED  BY <1>2, <1>3, <1>4, <1>5, <1>6, <1>7, <1>8, <1>9 DEF BoardNext

(***************************************************************************)
(* For any disks, partitions, requests and tasks, and however their        *)
(* BeginIOs interleave: handle_disk_cmd carries a request out at most once,*)
(* and only on whole sectors of its disk.                                  *)
(***************************************************************************)
THEOREM ServedRightCorrect == BoardSpec => []ServedRight
  <1>1. BoardInv => ServedRight
    <2> SUFFICES ASSUME BoardInv PROVE ServedRight
      OBVIOUS
    <2>1. ASSUME NEW t \in Tasks
          PROVE  Len(io[t].served) <= 1 /\ \A i \in DOMAIN io[t].served : Answer(io[t].req, io[t].served[i])
      <3>1. CASE io[t].served = <<>>  BY <3>1
      <3>2. CASE io[t].served # <<>>
        <4>1. PICK how \in Answers : io[t].served = <<how>> /\ Answer(io[t].req, how)
          BY <3>2 DEF BoardInv, TaskRight
        <4> QED  BY <4>1
      <3> QED  BY <3>1, <3>2
    <2> QED  BY <2>1 DEF ServedRight, ServedOnce, AccessInRange, Answer
  <1>2. BoardInv /\ [BoardNext]_board_vars => BoardInv'  BY BoardNextInv
  <1> QED  BY <1>1, <1>2, BoardInitInv, PTL DEF BoardSpec
===============================================================================
