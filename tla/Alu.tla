-------------------------------- MODULE Alu --------------------------------
(***************************************************************************)
(* What the CPU's instructions compute (cpu.cpp): the handlers' formulas   *)
(* for results and condition codes, most of them on the bits of operands   *)
(* that were extended to the host's 32.  Here a long has Bits bits and a   *)
(* word half of them; shift counts are taken modulo 2 * Bits (64).         *)
(*                                                                         *)
(* An instruction is applied to a destination register, so what it leaves  *)
(* of the register is part of its result.                                  *)
(***************************************************************************)
EXTENDS Integers, FiniteSetsExt

CONSTANT Bits

Word == Bits \div 2
Long == Bits
Host == 2^Bits

Cut(v, s) == v % 2^s
Bit(v, i) == (v \div 2^i) % 2 = 1
Msb(v, s) == Bit(v, s - 1)
One(b) == IF b THEN 1 ELSE 0
Signed(v, s) == Cut(v, s) - (IF Msb(v, s) THEN 2^s ELSE 0)
sext(v, s) == Signed(v, s) % Host
BitSum(bits) == MapThenSumSet(LAMBDA i : 2^i, bits)

(* write_ea to a data register *)
Written(reg, val, s) == reg - Cut(reg, s) + Cut(val, s)

Flags == {"x", "n", "z", "v", "c"}
ccr_no_x == Flags \ {"x"}
SetFlags(ccr, mask, new) == [f \in Flags |-> IF f \in mask THEN new[f] ELSE ccr[f]]
NoFlags == [f \in Flags |-> FALSE]

-----------------------------------------------------------------------------
(* update_flags_size: the carries out of the two highest bits               *)
update_flags(ccr, mask, res, carry, below, s) ==
  SetFlags(ccr, mask,
           [x |-> carry, c |-> carry, v |-> carry # below, z |-> Cut(res, s) = 0, n |-> Msb(res, s)])

AddCarry(l, r, res, i) == (Bit(l, i) /\ Bit(r, i)) \/ ((Bit(l, i) \/ Bit(r, i)) /\ ~Bit(res, i))
SubCarry(l, r, res, i) == (~Bit(l, i) /\ Bit(r, i)) \/ (Bit(l, i) = Bit(r, i) /\ Bit(res, i))

SumFlags(ccr, l, r, res, s) ==
  update_flags(ccr, Flags, res, AddCarry(l, r, res, s - 1), AddCarry(l, r, res, s - 2), s)
DifferenceFlags(ccr, l, r, res, s) ==
  update_flags(ccr, Flags, res, SubCarry(l, r, res, s - 1), SubCarry(l, r, res, s - 2), s)

(* Z is only cleared *)
Zonly(ccr, new, res, s) == IF Cut(res, s) # 0 THEN [new EXCEPT !.z = FALSE] ELSE [new EXCEPT !.z = ccr.z]

Result(reg, val, s, ccr) == [d |-> Written(reg, val, s), ccr |-> ccr]

ADD(s, r, reg, ccr) ==
  LET l == Cut(reg, s)  res == (l + r) % Host
  IN  Result(reg, res, s, SumFlags(ccr, l, r, res, s))

(* Mutant: the extend bit is not part of the sum *)
ADDXPlain(s, r, reg, ccr) == ADD(s, r, reg, ccr)

ADDX(s, r, reg, ccr) ==
  LET l == Cut(reg, s)  res == (l + r + One(ccr.x)) % Host
  IN  Result(reg, res, s, Zonly(ccr, SumFlags(ccr, l, r, res, s), res, s))

SUB(s, r, reg, ccr) ==
  LET l == Cut(reg, s)  res == (l - r) % Host
  IN  Result(reg, res, s, DifferenceFlags(ccr, l, r, res, s))

SUBX(s, r, reg, ccr) ==
  LET l == Cut(reg, s)  res == (l - r - One(ccr.x)) % Host
  IN  Result(reg, res, s, Zonly(ccr, DifferenceFlags(ccr, l, r, res, s), res, s))

CMP(s, r, reg, ccr) == [d |-> reg, ccr |-> SetFlags(ccr, ccr_no_x, SUB(s, r, reg, ccr).ccr)]

(* The address register forms: the source extended, all bits, no flags;    *)
(* CMPA's flags are those of a long                                         *)
ADDA(s, r, reg, ccr) == [d |-> (reg + sext(r, s)) % Host, ccr |-> ccr]
SUBA(s, r, reg, ccr) == [d |-> (reg - sext(r, s)) % Host, ccr |-> ccr]
CMPA(s, r, reg, ccr) == CMP(Long, sext(r, s), reg, ccr)

(* Negation has formulas of its own *)
NEG(s, r, reg, ccr) ==
  LET n == Cut(reg, s)  neg == (0 - Signed(n, s)) % Host
  IN  Result(reg, neg, s,
             IF neg = 0 THEN [NoFlags EXCEPT !.z = TRUE]
             ELSE [x |-> TRUE, c |-> TRUE, z |-> FALSE, n |-> Msb(neg, s), v |-> n = 2^(s - 1)])

NEGX(s, r, reg, ccr) ==
  LET n == Cut(reg, s)  res == (0 - n - One(ccr.x)) % Host
  IN  Result(reg, res, s, Zonly(ccr, DifferenceFlags(ccr, 0, n, res, s), res, s))

Logic(s, val, reg, ccr) == Result(reg, val, s, update_flags(ccr, ccr_no_x, val, FALSE, FALSE, s))

AND(s, r, reg, ccr) == Logic(s, BitSum({i \in 0 .. s - 1 : Bit(reg, i) /\ Bit(r, i)}), reg, ccr)
OR(s, r, reg, ccr) == Logic(s, BitSum({i \in 0 .. s - 1 : Bit(reg, i) \/ Bit(r, i)}), reg, ccr)
EOR(s, r, reg, ccr) == Logic(s, BitSum({i \in 0 .. s - 1 : Bit(reg, i) # Bit(r, i)}), reg, ccr)
NOT(s, r, reg, ccr) == Logic(s, (-1 - Cut(reg, s)) % Host, reg, ccr)
MOVE(s, r, reg, ccr) == Logic(s, r, reg, ccr)
CLR(s, r, reg, ccr) == Result(reg, 0, s, SetFlags(ccr, ccr_no_x, [NoFlags EXCEPT !.z = TRUE]))
EXT(s, r, reg, ccr) == Logic(s, sext(reg, s \div 2), reg, ccr)
SWAP(s, r, reg, ccr) ==
  LET res == (Cut(reg, Word) * 2^Word) + (reg \div 2^Word)
  IN  [d |-> res, ccr |-> SetFlags(ccr, ccr_no_x, [NoFlags EXCEPT !.n = Msb(res, Long), !.z = res = 0])]

-----------------------------------------------------------------------------
(* Shifts: all bits at once, on a value without the bits above the operand *)
update_flags_rot(ccr, res, cnt, carry, s) ==
  SetFlags(ccr, IF cnt # 0 THEN Flags ELSE ccr_no_x,
           [x |-> carry, c |-> carry, v |-> FALSE, z |-> Cut(res, s) = 0, n |-> Msb(res, s)])

Count(r) == r % (2 * Bits)

LeftShift(s, cnt, reg, ccr) ==
  LET v == Cut(reg, s)
      carry == IF cnt = 0 THEN FALSE
               ELSE IF cnt < Bits THEN Bit(v * 2^(cnt - 1), s - 1)
               ELSE cnt = Bits /\ s = Long /\ Bit(v, 0)
      val == IF cnt < Bits THEN v * 2^cnt ELSE 0
  IN  Result(reg, val, s, update_flags_rot(ccr, val, cnt, carry, s))

LSL(s, r, reg, ccr) == LeftShift(s, Count(r), reg, ccr)

(* ASL: all bits that pass the highest must be as it was *)
ASL(s, r, reg, ccr) ==
  LET cnt == Count(r)
      res == LeftShift(s, cnt, reg, ccr)
      Passing == IF cnt >= s THEN 0 .. Bits - 1 ELSE s - 1 - cnt .. s - 2
      v == IF Msb(reg, s) THEN cnt >= s \/ \E i \in Passing : ~Bit(reg, i)
           ELSE \E i \in Passing : Bit(Cut(reg, s), i)
  IN  IF cnt # 0 /\ v THEN [res EXCEPT !.ccr.v = TRUE] ELSE res

LSR(s, r, reg, ccr) ==
  LET cnt == Count(r)  v == Cut(reg, s)
      carry == IF cnt = 0 THEN FALSE ELSE IF cnt < Bits THEN Bit(v, cnt - 1)
               ELSE cnt = Bits /\ s = Long /\ Msb(v, Long)
      val == IF cnt < Bits THEN v \div 2^cnt ELSE 0
  IN  Result(reg, val, s, update_flags_rot(ccr, val, cnt, carry, s))

(* Mutant: the bits beyond the operand's are not those of its sign *)
ASRPlain(s, r, reg, ccr) ==
  LET cnt == Count(r)
  IN  IF cnt < s THEN LSR(s, r, reg, ccr)
      ELSE Result(reg, Signed(reg, s) \div 2^s, s, update_flags_rot(ccr, Signed(reg, s) \div 2^s, cnt, FALSE, s))

ASR(s, r, reg, ccr) ==
  LET cnt == Count(r)  v == Cut(reg, s)  msb == Msb(v, s)
      carry == IF cnt = 0 THEN FALSE
               ELSE IF cnt < Bits THEN Bit(v, cnt - 1) \/ (msb /\ cnt >= s) ELSE msb
      val == IF cnt < Bits THEN (IF cnt = 0 THEN v ELSE (Signed(v, s) \div 2^cnt) % Host)
             ELSE IF msb THEN Host - 1 ELSE 0
  IN  Result(reg, val, s, update_flags_rot(ccr, val, cnt, carry, s))

KeepX(ccr, res) == [res EXCEPT !.ccr.x = ccr.x]

ROL(s, r, reg, ccr) ==
  LET cnt == Count(r) % s  v == Cut(reg, s)
      val == IF cnt = 0 THEN v ELSE Cut(v * 2^cnt, Bits) + (v \div 2^(s - cnt))
  IN  KeepX(ccr, Result(reg, val, s, update_flags_rot(ccr, val, cnt, Count(r) # 0 /\ Bit(val, 0), s)))

ROR(s, r, reg, ccr) ==
  LET cnt == Count(r) % s  v == Cut(reg, s)
      val == IF cnt = 0 THEN v ELSE ((v \div 2^cnt) + (v * 2^(s - cnt))) % Host
  IN  KeepX(ccr, Result(reg, val, s, update_flags_rot(ccr, val, cnt, Count(r) # 0 /\ Msb(val, s), s)))

(* The loops' count is all ones behind them *)
AllOnes == Host - 1

(* One round of a loop: the value and X *)
LeftRound(s, t) == [val |-> ((2 * t.val) + One(t.x)) % Host, x |-> Msb(t.val, s)]
RightRound(s, t) == [val |-> (t.val \div 2) + (One(t.x) * 2^(s - 1)), x |-> Bit(t.val, 0)]

ROXL(s, r, reg, ccr) ==
  LET turned[n \in 0 .. Count(r)] ==
        IF n = 0 THEN [val |-> Cut(reg, s), x |-> ccr.x] ELSE LeftRound(s, turned[n - 1])
      res == turned[Count(r)]
  IN  Result(reg, res.val, s, update_flags_rot(ccr, res.val, AllOnes, res.x, s))

ROXR(s, r, reg, ccr) ==
  LET turned[n \in 0 .. Count(r)] ==
        IF n = 0 THEN [val |-> Cut(reg, s), x |-> ccr.x] ELSE RightRound(s, turned[n - 1])
      res == turned[Count(r)]
  IN  Result(reg, res.val, s, update_flags_rot(ccr, res.val, AllOnes, res.x, s))

-----------------------------------------------------------------------------
(* Multiplication and division: a word with the register *)
ProductFlags(ccr, res) == SetFlags(ccr, ccr_no_x, [NoFlags EXCEPT !.z = res = 0, !.n = Msb(res, Long)])

MULU(s, r, reg, ccr) ==
  LET res == (Cut(r, Word) * Cut(reg, Word)) % Host IN [d |-> res, ccr |-> ProductFlags(ccr, res)]

MULS(s, r, reg, ccr) ==
  LET res == (Signed(r, Word) * Signed(reg, Word)) % Host IN [d |-> res, ccr |-> ProductFlags(ccr, res)]

(* A round of DIVU's loop: shift, subtract from the upper word, take it    *)
(* back when that borrows, unless a bit was shifted out                     *)
DivideBit(reg, d) ==
  LET saved == (2 * reg) % Host
      diff == (saved - d * 2^Word) % Host
  IN  IF Msb(reg, Long) THEN diff - (diff % 2) + 1
      ELSE IF diff >= saved THEN saved ELSE diff - (diff % 2) + 1

Divide(reg, d) ==
  LET after[n \in 0 .. Word] == IF n = 0 THEN reg ELSE DivideBit(after[n - 1], d) IN after[Word]

DivisionOverflow(reg, ccr) == [d |-> reg, ccr |-> SetFlags(ccr, ccr_no_x, [NoFlags EXCEPT !.v = TRUE, !.n = TRUE])]
QuotientFlags(ccr, q) == SetFlags(ccr, ccr_no_x, [NoFlags EXCEPT !.n = Msb(q, Word), !.z = Cut(q, Word) = 0])

DIVU(s, r, reg, ccr) ==
  LET d == Cut(r, Word)
  IN  IF reg \div 2^Word >= d THEN DivisionOverflow(reg, ccr)
      ELSE LET res == Divide(reg, d) IN [d |-> res, ccr |-> QuotientFlags(ccr, res)]

Abs(v) == IF v < 0 THEN 0 - v ELSE v

(* C's division truncates *)
DIVS(s, r, reg, ccr) ==
  LET n == Signed(reg, Long)  d == Signed(r, Word)
      q == (Abs(n) \div Abs(d)) * (IF (n < 0) = (d < 0) THEN 1 ELSE -1)
  IN  IF Abs(n) \div 2^Word >= Abs(d) \/ q >= 2^(Word - 1) \/ q < 0 - 2^(Word - 1)
      THEN DivisionOverflow(reg, ccr)
      ELSE [d |-> Cut(q, Word) + (Cut(n - q * d, Word) * 2^Word), ccr |-> QuotientFlags(ccr, q)]

-----------------------------------------------------------------------------
(* Two decimal digits: bytes, whatever Bits is *)
Six(low, high) == 6 * One(low) + 96 * One(high)

BcdFlags(ccr, res2, v) ==
  LET carry == (res2 \div 256) % 16 # 0
  IN  [x |-> carry, c |-> carry, z |-> res2 % 256 = 0 /\ ccr.z, n |-> Bit(res2, 7), v |-> v]

ABCD(r, l, ccr) ==
  LET res == l + r + One(ccr.x)
      Carry(i) == AddCarry(l, r, res, i) \/ (Bit(res + 102, i + 1) # Bit(res, i + 1))
      res2 == res + Six(Carry(3), Carry(7))
  IN  [d |-> res2 % 256, ccr |-> BcdFlags(ccr, res2, ~Bit(res, 7) /\ Bit(res2, 7))]

(* Mutant: the borrow of the lower digit alone is corrected *)
SBCDLow(r, l, ccr) ==
  LET res == (l - r - One(ccr.x)) % 2^16
      res2 == (res - Six(SubCarry(l, r, res, 3), FALSE)) % 2^16
  IN  [d |-> res2 % 256, ccr |-> BcdFlags(ccr, res2, Bit(res, 7) /\ ~Bit(res2, 7))]

SBCD(r, l, ccr) ==
  LET res == (l - r - One(ccr.x)) % 2^16
      res2 == (res - Six(SubCarry(l, r, res, 3), SubCarry(l, r, res, 7))) % 2^16
  IN  [d |-> res2 % 256, ccr |-> BcdFlags(ccr, res2, Bit(res, 7) /\ ~Bit(res2, 7))]

NBCD(r, ccr) == SBCD(r, 0, ccr)

(* eval_cond *)
Conditions == {"hi", "ls", "cc", "cs", "ne", "eq", "vc", "vs", "pl", "mi", "ge", "lt", "gt", "le"}
eval_cond(cond, f) ==
  CASE cond = "hi" -> ~f.c /\ ~f.z [] cond = "ls" -> f.c \/ f.z [] cond = "cc" -> ~f.c [] cond = "cs" -> f.c
    [] cond = "ne" -> ~f.z [] cond = "eq" -> f.z [] cond = "vc" -> ~f.v [] cond = "vs" -> f.v
    [] cond = "pl" -> ~f.n [] cond = "mi" -> f.n
    [] cond = "ge" -> (f.n /\ f.v) \/ (~f.n /\ ~f.v) [] cond = "lt" -> (f.n /\ ~f.v) \/ (~f.n /\ f.v)
    [] cond = "gt" -> (f.n /\ f.v /\ ~f.z) \/ (~f.n /\ ~f.v /\ ~f.z)
    [] cond = "le" -> f.z \/ (f.n /\ ~f.v) \/ (~f.n /\ f.v)
=============================================================================
