------------------------------ MODULE Huffman ------------------------------
(***************************************************************************)
(* The codes of DMS's heavy modes (dms.cpp, hufftable, decode_c): from the *)
(* lengths of the codes a table of all first table_bits bits is made, with *)
(* trees below those entries whose codes are longer.                       *)
(*                                                                         *)
(* make_table calls itself along the tree of codes; calls holds the calls  *)
(* to come, with the place for what each returns.  decode_p differs from   *)
(* decode_c only in its sizes.                                             *)
(***************************************************************************)
EXTENDS Integers, Sequences, FiniteSets, FiniteSetsExt, TLC

CONSTANTS
  n,          (* characters                                                *)
  table_bits, (* of codes found with one look                              *)
  MaxLength   (* bound: of a code                                          *)

VARIABLES
  blen,       (* the length of each character's code, 0: it has none       *)
  only,       (* the one character there is, or -1                         *)
  calls, c, len, bit, codeword, avail,
  tbl, child, (* the trees: child[<<"left", i>>] and <<"right", i>>        *)
  making,     (* "table", "made" or "failed"                               *)
  word, decoded (* the last word that was decoded, and as what             *)

next_code == <<c, len, bit, codeword>>
huff_vars == <<blen, only, calls, next_code, avail, tbl, child, making, word, decoded>>

tblsiz == 2 ^ table_bits

-----------------------------------------------------------------------------
Call(depth, place) == [do |-> "make", depth |-> depth, place |-> place]
After(depth, place, i) == [do |-> "after", depth |-> depth, place |-> place, i |-> i]
Nowhere == <<>>

First == Head(calls)
Put(place, v) == IF place = Nowhere THEN child ELSE (place :> v) @@ child

Fail == making' = "failed" /\ UNCHANGED <<calls, next_code, avail, tbl, child>>

(* Characters whose code has the length that is reached *)
NextChar == Min({d \in 0 .. n - 1 : d > c /\ blen[d] = len} \cup {n})

Leaf ==
  /\ len = First.depth /\ NextChar < n
  /\ IF codeword + bit > tblsiz THEN Fail
     ELSE /\ c' = NextChar /\ codeword' = codeword + bit
          /\ tbl' = [i \in DOMAIN tbl |-> IF i \in codeword .. codeword + bit - 1 THEN NextChar ELSE tbl[i]]
          /\ child' = Put(First.place, NextChar) /\ calls' = Tail(calls)
          /\ UNCHANGED <<len, bit, avail, making>>

(* Mutant: the next length starts behind the last character of this one *)
FromLast == c

FromFirst == -1

(* Both halves; below the table a node of a tree is made for them *)
Inner ==
  /\ ~(len = First.depth /\ NextChar < n)
  /\ IF len = First.depth THEN c' = FromFirst /\ len' = len + 1 /\ bit' = bit \div 2
     ELSE UNCHANGED <<c, len, bit>>
  /\ LET depth == First.depth + 1 IN
     IF depth <= table_bits
     THEN calls' = <<Call(depth, Nowhere), Call(depth, Nowhere)>> \o Tail(calls) /\ UNCHANGED <<avail, making>>
     ELSE IF depth > 32 \/ avail >= (2 * n) - 1 THEN making' = "failed" /\ UNCHANGED <<calls, avail>>
     ELSE /\ avail' = avail + 1
          /\ calls' = <<Call(depth, <<"left", avail>>), Call(depth, <<"right", avail>>),
                        After(depth, First.place, avail)>> \o Tail(calls)
          /\ UNCHANGED making
  /\ UNCHANGED <<codeword, tbl, child>>

make_table ==
  /\ making = "table" /\ calls # <<>> /\ First.do = "make"
  /\ Leaf \/ Inner
  /\ UNCHANGED <<blen, only, word, decoded>>

(* A node's halves are there: the table has it where it hangs from it *)
Made ==
  /\ making = "table" /\ calls # <<>> /\ First.do = "after"
  /\ IF codeword >= tblsiz THEN Fail
     ELSE /\ IF First.depth = table_bits + 1
             THEN tbl' = [tbl EXCEPT ![codeword] = First.i] /\ codeword' = codeword + 1
             ELSE UNCHANGED <<tbl, codeword>>
          /\ child' = Put(First.place, First.i) /\ calls' = Tail(calls)
          /\ UNCHANGED <<c, len, bit, avail, making>>
  /\ UNCHANGED <<blen, only, word, decoded>>

(* hufftable::make: the whole of the table is made of codes *)
make ==
  /\ making = "table" /\ calls = <<>>
  /\ making' = IF codeword = tblsiz THEN "made" ELSE "failed"
  /\ UNCHANGED <<blen, only, calls, next_code, avail, tbl, child, word, decoded>>

-----------------------------------------------------------------------------
(* A word has MaxLength bits, the first is bit 0 *)
Bit(w, k) == (w \div 2 ^ (MaxLength - 1 - k)) % 2

decode_c ==
  /\ making = "made" /\ word = -1
  /\ \E w \in 0 .. 2 ^ MaxLength - 1 :
       LET Child(j, k) == child[<<IF Bit(w, k) = 1 THEN "right" ELSE "left", j>>]
           Walk[k \in table_bits .. MaxLength] ==
             IF k = table_bits THEN tbl[w \div 2 ^ (MaxLength - table_bits)]
             ELSE IF Walk[k - 1] < n THEN Walk[k - 1] ELSE Child(Walk[k - 1], k - 1)
       IN  word' = w /\ decoded' = Walk[MaxLength]
  /\ UNCHANGED <<blen, only, calls, next_code, avail, tbl, child, making>>

-----------------------------------------------------------------------------
(* The lengths; or none, and a character every code stands for *)
read_tree_c ==
  \/ /\ only = -1 /\ blen \in [0 .. n - 1 -> 0 .. MaxLength]
     /\ tbl = [i \in 0 .. tblsiz - 1 |-> 0] /\ making = "table"
  \/ /\ only \in 0 .. n - 1 /\ blen = [d \in 0 .. n - 1 |-> 0]
     /\ tbl = [i \in 0 .. tblsiz - 1 |-> only] /\ making = "made"

HuffmanInit ==
  /\ read_tree_c /\ child = <<>>
  /\ calls = <<Call(1, Nowhere), Call(1, Nowhere)>>
  /\ c = -1 /\ len = 1 /\ bit = tblsiz \div 2 /\ codeword = 0 /\ avail = n
  /\ word = -1 /\ decoded = -1

HuffmanNext == make_table \/ Made \/ make \/ decode_c

-----------------------------------------------------------------------------
(***************************************************************************)
(* Shorter codes come first and those of a length in the order of their    *)
(* characters: just the lengths that fill the code are taken, those that   *)
(* fill it twice too, and each word decodes to the character that owns it. *)
(***************************************************************************)
Share(d) == IF blen[d] = 0 THEN 0 ELSE 2 ^ (MaxLength - blen[d])

Code(d) ==
  MapThenSumSet(Share, {e \in 0 .. n - 1 : blen[e] < blen[d] \/ (blen[e] = blen[d] /\ e < d)})

CodesDecode ==
  /\ (making # "table" /\ only = -1) => (making = "made" <=> MapThenSumSet(Share, 0 .. n - 1) >= 2 ^ MaxLength)
  /\ (word # -1 /\ only # -1) => decoded = only
  /\ (word # -1 /\ only = -1) => decoded \in 0 .. n - 1 /\ Code(decoded) <= word /\ word < Code(decoded) + Share(decoded)
=============================================================================
