----------------------------- MODULE Arithmetic -----------------------------
(***************************************************************************)
(* Short programs of arithmetic instructions, executed by the CPU's        *)
(* formulas (Alu) and compared with what the numbers are: one instruction  *)
(* on every operand, and two that work on a number of two parts, the       *)
(* second of them with the X and Z flags of the first.                     *)
(***************************************************************************)
EXTENDS Alu, Sequences

VARIABLES
  program,           (* the instructions: [op, s]                          *)
  src, reg, ccr,     (* source operands and destinations of each; flags    *)
  before,            (* destinations and flags at the start                *)
  done               (* instructions executed                              *)

program_vars == <<program, src, reg, ccr, before, done>>

Execute(op, s, r, d, f) ==
  CASE op = "ADD" -> ADD(s, r, d, f)   [] op = "ADDX" -> ADDX(s, r, d, f)
    [] op = "SUB" -> SUB(s, r, d, f)   [] op = "SUBX" -> SUBX(s, r, d, f)
    [] op = "CMP" -> CMP(s, r, d, f)   [] op = "NEG" -> NEG(s, r, d, f) [] op = "NEGX" -> NEGX(s, r, d, f)
    [] op = "ADDA" -> ADDA(s, r, d, f) [] op = "SUBA" -> SUBA(s, r, d, f) [] op = "CMPA" -> CMPA(s, r, d, f)
    [] op = "NOT" -> NOT(s, r, d, f)   [] op = "AND" -> AND(s, r, d, f) [] op = "OR" -> OR(s, r, d, f)
    [] op = "EOR" -> EOR(s, r, d, f)   [] op = "MOVE" -> MOVE(s, r, d, f) [] op = "CLR" -> CLR(s, r, d, f)
    [] op = "EXT" -> EXT(s, r, d, f)   [] op = "SWAP" -> SWAP(s, r, d, f)
    [] op = "ASL" -> ASL(s, r, d, f)   [] op = "ASR" -> ASR(s, r, d, f)
    [] op = "LSL" -> LSL(s, r, d, f)   [] op = "LSR" -> LSR(s, r, d, f)
    [] op = "ROL" -> ROL(s, r, d, f)   [] op = "ROR" -> ROR(s, r, d, f)
    [] op = "ROXL" -> ROXL(s, r, d, f) [] op = "ROXR" -> ROXR(s, r, d, f)
    [] op = "MULU" -> MULU(s, r, d, f) [] op = "MULS" -> MULS(s, r, d, f)
    [] op = "DIVU" -> DIVU(s, r, d, f) [] op = "DIVS" -> DIVS(s, r, d, f)
    [] op = "ABCD" -> ABCD(r, d, f)    [] op = "SBCD" -> SBCD(r, d, f) [] op = "NBCD" -> NBCD(d, f)

step ==
  /\ done < Len(program)
  /\ LET n == done + 1  res == Execute(program[n].op, program[n].s, src[n], reg[n], ccr)
     IN  reg' = [reg EXCEPT ![n] = res.d] /\ ccr' = res.ccr /\ done' = n
  /\ UNCHANGED <<program, src, before>>

-----------------------------------------------------------------------------
Below(n) == 0 .. n - 1
Sums == {"ADD", "ADDX", "SUB", "SUBX", "CMP", "NEG", "NEGX"}
Addresses == {"ADDA", "SUBA", "CMPA"}
Moves == {"NOT", "AND", "OR", "EOR", "MOVE", "CLR", "EXT", "SWAP"}
Lefts == {"ASL", "LSL", "ROL", "ROXL"}
Rights == {"ASR", "LSR", "ROR", "ROXR"}
Products == {"MULU", "MULS"}
Quotients == {"DIVU", "DIVS"}
Decimals == {"ABCD", "SBCD", "NBCD"}

Digits2(digits) == {16 * h + l : h \in digits, l \in digits}

(* Numbers of two parts: the part worked on first is the lower one, but for *)
(* a shift to the right                                                     *)
Wide == {<<"ADD", "ADDX">>, <<"SUB", "SUBX">>, <<"NEG", "NEGX">>, <<"LSL", "ROXL">>, <<"ASR", "ROXR">>}

Programs ==
  [s : {Word, Long}, ops : {<<op>> : op \in Sums \cup Addresses \cup Moves \cup Lefts \cup Rights}]
    \cup [s : {Long}, ops : {<<op>> : op \in Products \cup Quotients \cup Decimals}]
    \cup [s : {Word}, ops : Wide]

(* The operands an instruction is tried with: every destination, and a     *)
(* source at and within the edges of its range                              *)
Edges(s) == {0, 1, 2^(s - 1) - 1, 2^(s - 1), 2^s - 2, 2^s - 1}

Sources(p, n) ==
  IF p.ops[n] = "NBCD" THEN {0} ELSE IF p.ops[n] \in Decimals THEN Digits2({0, 1, 4, 5, 9})
  ELSE IF p.ops[n] \in Quotients THEN 1 .. 2^Word - 1
  ELSE IF p.ops[n] \in Products THEN Below(2^Word)
  ELSE IF p.ops[n] \in Lefts \cup Rights THEN (IF Len(p.ops) = 1 THEN Below(2 * Bits) ELSE {1})
  ELSE IF p.ops[n] \in {"NEG", "NEGX", "NOT", "CLR", "EXT", "SWAP"} THEN {0} ELSE Edges(p.s)

Destinations(p, n) ==
  IF p.ops[n] \in Decimals THEN Digits2(0 .. 9) ELSE IF Len(p.ops) = 2 THEN Below(2^p.s) ELSE Below(Host)

WithX == {"ADDX", "SUBX", "NEGX"} \cup Decimals \cup Lefts \cup Rights
WithZ == {"ADDX", "SUBX", "NEGX"} \cup Decimals

ArithmeticInit ==
  \E p \in Programs, x, z \in BOOLEAN :
    /\ x => p.ops[1] \in WithX \/ Len(p.ops) = 2
    /\ z => p.ops[1] \in WithZ \/ Len(p.ops) = 2
    /\ program = [n \in 1 .. Len(p.ops) |-> [op |-> p.ops[n], s |-> p.s]]
    /\ \E s1 \in Sources(p, 1), d1 \in Destinations(p, 1) :
         IF Len(p.ops) = 1 THEN src = <<s1>> /\ reg = <<d1>>
         ELSE \E s2 \in Sources(p, 2), d2 \in Destinations(p, 2) : src = <<s1, s2>> /\ reg = <<d1, d2>>
    /\ ccr = [NoFlags EXCEPT !.x = x, !.z = z]
    /\ before = [reg |-> reg, ccr |-> ccr] /\ done = 0

-----------------------------------------------------------------------------
(* The numbers.  A reference names the result, and the flags it says        *)
(* something about.                                                         *)
NZ(v, s) == [n |-> Msb(v, s), z |-> Cut(v, s) = 0]

Sum(a, b, x, s) ==
  LET signed == Signed(a, s) + Signed(b, s) + x
  IN  [val |-> Cut(a + b + x, s), c |-> a + b + x >= 2^s, v |-> signed \notin (0 - 2^(s - 1)) .. 2^(s - 1) - 1]

Difference(a, b, x, s) ==
  LET signed == Signed(a, s) - Signed(b, s) - x
  IN  [val |-> Cut(a - b - x, s), c |-> a < b + x, v |-> signed \notin (0 - 2^(s - 1)) .. 2^(s - 1) - 1]

IsSum(ref, s, d, f, after) ==
  /\ after.d = Written(d, ref.val, s)
  /\ after.ccr.c = ref.c /\ after.ccr.x = ref.c /\ after.ccr.v = ref.v /\ after.ccr.n = NZ(ref.val, s).n

(* One place at a time: the value, the bit that left it last, X, and       *)
(* whether the sign has changed on the way                                  *)
Place(op, s, st) ==
  LET out == IF op \in Lefts THEN Msb(st.val, s) ELSE Bit(st.val, 0)
      in == CASE op \in {"ASL", "LSL", "LSR"} -> FALSE [] op = "ASR" -> Msb(st.val, s)
              [] op \in {"ROL", "ROR"} -> out [] OTHER -> st.x
      val == IF op \in Lefts THEN Cut(2 * st.val, s) + One(in) ELSE (st.val \div 2) + (One(in) * 2^(s - 1))
  IN  [val |-> val, out |-> out, x |-> IF op \in {"ROL", "ROR"} THEN st.x ELSE out,
       v |-> st.v \/ (op = "ASL" /\ Msb(val, s) # Msb(st.val, s))]

Shifted(op, s, cnt, d, f) ==
  LET at[n \in 0 .. cnt] ==
        IF n = 0 THEN [val |-> Cut(d, s), out |-> op \in {"ROXL", "ROXR"} /\ f.x, x |-> f.x, v |-> FALSE]
        ELSE Place(op, s, at[n - 1])
  IN  at[cnt]

Decimal(b) == (10 * (b \div 16)) + (b % 16)
OfDecimal(n) == (16 * (n \div 10)) + (n % 10)

(* The relation of the operands a condition stands for after CMP *)
Compared(cond, a, b, s) ==
  CASE cond = "hi" -> a > b [] cond = "ls" -> a <= b [] cond = "cc" -> a >= b [] cond = "cs" -> a < b
    [] cond = "ne" -> a # b [] cond = "eq" -> a = b
    [] cond = "ge" -> Signed(a, s) >= Signed(b, s) [] cond = "lt" -> Signed(a, s) < Signed(b, s)
    [] cond = "gt" -> Signed(a, s) > Signed(b, s) [] cond = "le" -> Signed(a, s) <= Signed(b, s)

(***************************************************************************)
(* Sums, differences, shifts and decimal sums: the bit formulas of the     *)
(* handlers give the number, and the carry, overflow and sign of it; the   *)
(* conditions evaluated after a comparison are relations of its operands.  *)
(***************************************************************************)
SumIsRight(op, s, r, d, f, after) ==
  LET l == Cut(d, s)  x == One(f.x) IN
  CASE op = "ADD"  -> IsSum(Sum(l, Cut(r, s), 0, s), s, d, f, after)
    [] op = "ADDX" -> IsSum(Sum(l, Cut(r, s), x, s), s, d, f, after)
    [] op = "SUB"  -> IsSum(Difference(l, Cut(r, s), 0, s), s, d, f, after)
    [] op = "SUBX" -> IsSum(Difference(l, Cut(r, s), x, s), s, d, f, after)
    [] op = "NEG"  -> IsSum(Difference(0, l, 0, s), s, d, f, after)
    [] op = "NEGX" -> IsSum(Difference(0, l, x, s), s, d, f, after)
    [] op = "CMP"  -> \A cond \in Conditions \ {"vc", "vs", "pl", "mi"} :
                        eval_cond(cond, after.ccr) = Compared(cond, l, Cut(r, s), s)
    [] op = "CMPA" -> \A cond \in {"ge", "lt", "gt", "le", "eq"} :
                        eval_cond(cond, after.ccr) = Compared(cond, d, Signed(r, s) % Host, Long)

ShiftIsRight(op, s, r, d, f, after) ==
  LET ref == Shifted(op, s, r, d, f)
  IN  /\ after.d = Written(d, ref.val, s)
      /\ after.ccr = [c |-> ref.out, x |-> ref.x, v |-> ref.v, n |-> Msb(ref.val, s), z |-> ref.val = 0]

QuotientIsRight(op, r, d, after) ==
  LET n == IF op = "DIVS" THEN Signed(d, Long) ELSE d
      m == IF op = "DIVS" THEN Signed(r, Word) ELSE r
      range == IF op = "DIVS" THEN (0 - 2^(Word - 1)) .. 2^(Word - 1) - 1 ELSE Below(2^Word)
      q == CHOOSE i \in (0 - Host) .. Host : Abs(n - i * m) < Abs(m) /\ (n - i * m = 0 \/ (n - i * m < 0) = (n < 0))
  IN  IF q \in range
      THEN after.d = Cut(q, Word) + (Cut(n - q * m, Word) * 2^Word) /\ ~after.ccr.v
           /\ after.ccr.z = (q = 0) /\ after.ccr.n = (Cut(q, Word) >= 2^(Word - 1))
      ELSE after.d = d /\ after.ccr.v

DecimalIsRight(op, r, d, f, after) ==
  LET n == CASE op = "ABCD" -> Decimal(d) + Decimal(r) + One(f.x)
             [] op = "SBCD" -> Decimal(d) - Decimal(r) - One(f.x)
             [] op = "NBCD" -> 0 - Decimal(d) - One(f.x)
  IN  /\ after.d = OfDecimal(n % 100) /\ after.ccr.c = (n \notin 0 .. 99) /\ after.ccr.x = after.ccr.c
      /\ after.ccr.z = (f.z /\ n % 100 = 0)

NumbersAreRight ==
  Len(program) = 1 /\ done = 1 =>
    LET op == program[1].op  s == program[1].s  d == before.reg[1]  after == [d |-> reg[1], ccr |-> ccr] IN
    /\ op \in (Sums \cup {"CMPA"}) => SumIsRight(op, s, src[1], d, before.ccr, after)
    /\ op \in Lefts \cup Rights => ShiftIsRight(op, s, src[1], d, before.ccr, after)
    /\ op \in Quotients => QuotientIsRight(op, src[1], d, after)
    /\ op \in Decimals => DecimalIsRight(op, src[1], d, before.ccr, after)

(***************************************************************************)
(* Two instructions compute a number of two parts: its value and, also     *)
(* when the first part alone is zero or has no carry, its flags.           *)
(***************************************************************************)
Joined(parts, s) ==
  IF program[1].op = "ASR" THEN parts[2] + (parts[1] * 2^s) ELSE parts[1] + (parts[2] * 2^s)

PartsMakeTheNumber ==
  Len(program) = 2 /\ done = 2 =>
    LET s == program[1].s  op == program[1].op
        d == Joined(before.reg, s)  r == Joined(src, s)
        ref == CASE op = "ADD" -> Sum(d, r, 0, 2 * s) [] op = "SUB" -> Difference(d, r, 0, 2 * s)
                 [] op = "NEG" -> Difference(0, d, 0, 2 * s)
                 [] OTHER -> [val |-> Shifted(op, 2 * s, 1, d, before.ccr).val,
                              c |-> Shifted(op, 2 * s, 1, d, before.ccr).out, v |-> FALSE]
    IN  /\ Joined(reg, s) = ref.val /\ ccr.c = ref.c /\ ccr.x = ref.c /\ ccr.v = ref.v
        /\ op \in {"ADD", "SUB", "NEG"} => ccr.z = (ref.val = 0) /\ ccr.n = Msb(ref.val, 2 * s)
=============================================================================
