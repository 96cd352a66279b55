------------------------------ MODULE Opcodes ------------------------------
(***************************************************************************)
(* The table of instructions (mktab.cpp, instruction.h) and how an         *)
(* instruction is read with it (disasm.cpp).                               *)
(*                                                                         *)
(* mktab fills the table row by row; here an opcode is looked up in the    *)
(* rows.  An operand is its EA byte, with a value (the registers' numbers  *)
(* are in the byte), as in the code.  Names and layout are abstracted to a *)
(* type and a condition; cycles are left out.                              *)
(***************************************************************************)
EXTENDS Integers, Sequences, FiniteSets, SequencesExt, FiniteSetsExt

(* EA bytes: a mode and a register, and what is in the opcode itself *)
Dn == 0  An == 1  Indirect == 2  Post == 3  Pre == 4  Disp16 == 5  Index == 6  Other == 7
ea_abs_w == 56  ea_abs_l == 57  ea_pc_disp == 58  ea_pc_index == 59  ea_immediate == 60
ea_data3 == 64  ea_data4 == 65  ea_data8 == 66  ea_disp == 67
ea_sr == 68  ea_ccr == 69  ea_reglist == 70  ea_bitnum == 71  ea_usp == 72

None == -1
Mode(ea) == ea \div 8
Reg(ea) == ea % 8

-----------------------------------------------------------------------------
(* The fields of a row: what they are, the lowest bit, how many *)
F(kind, at, width) == [kind |-> kind, at |-> at, width |-> width]
Sx == F("Sx", 6, 2)    Sy == F("Sy", 12, 2)   Sz6 == F("Sz", 6, 1)    Sz8 == F("Sz", 8, 1)
Mode3 == F("M", 3, 3)  Xn0 == F("Xn", 0, 3)   Xn9 == F("Xn", 9, 3)    To6 == F("To", 6, 6)
Dn0 == F("Dn", 0, 3)   Dn9 == F("Dn", 9, 3)   An0 == F("An", 0, 3)    An9 == F("An", 9, 3)
Dx == F("D", 7, 1)     Dy == F("D", 10, 1)    Dz == F("D", 8, 1)      Dir == F("d", 8, 1)
Mr == F("Mr", 5, 1)    Mem == F("m", 3, 1)    Exchange == F("ME", 3, 5)
Cond == F("Cond", 8, 4)     Displacement == F("Displacement", 0, 8)
Data3 == F("Data3", 9, 3)   Data4 == F("Data4", 0, 4)   Data8 == F("Data8", 0, 8)
Ea == <<Mode3, Xn0>>

BWL == {"b", "w", "l"}

(* A row: the fixed bits, the fields in the order they are gone through, an *)
(* immediate, a displacement or a list that follows ("I", "N", "D", "d",    *)
(* "M"), the modes that are blocked, an operand that is always the same, at *)
(* the end or at the start.  Shifts of memory are of words                  *)
Row(type, sizes, bits, fields, imm, block) ==
  [type |-> type, sizes |-> sizes, bits |-> bits, fields |-> fields, imm |-> imm, block |-> block,
   last |-> {}, first |-> {}]
With(row, ea) == [row EXCEPT !.last = {ea}]
From(row, ea) == [row EXCEPT !.first = {ea}]
Plain(type, bits) == Row(type, {}, bits, <<>>, "", {})

PC == 8   Imm == 9   Swap == 10   (* after the modes *)
NoAn == {An}
Alterable == {An, Imm, PC}
MemoryAlterable == {Dn} \cup Alterable
Control == {Dn, An, Post, Pre, Imm}

(* The rows whose opcodes begin with four bits *)
Rows(top) ==
  CASE top = 0 -> <<
      With(Row("ORI", {"b"}, \h003C, <<>>, "I", {}), ea_ccr), With(Row("ORI", {"w"}, \h007C, <<>>, "I", {}), ea_sr),
      Row("ORI", BWL, \h0000, <<Sx>> \o Ea, "I", Alterable), With(Row("ANDI", {"b"}, \h023C, <<>>, "I", {}), ea_ccr),
      With(Row("ANDI", {"w"}, \h027C, <<>>, "I", {}), ea_sr), Row("ANDI", BWL, \h0200, <<Sx>> \o Ea, "I", Alterable),
      Row("SUBI", BWL, \h0400, <<Sx>> \o Ea, "I", Alterable), Row("ADDI", BWL, \h0600, <<Sx>> \o Ea, "I", Alterable),
      With(Row("EORI", {"b"}, \h0A3C, <<>>, "I", {}), ea_ccr), With(Row("EORI", {"w"}, \h0A7C, <<>>, "I", {}), ea_sr),
      Row("EORI", BWL, \h0A00, <<Sx>> \o Ea, "I", Alterable), Row("CMPI", BWL, \h0C00, <<Sx>> \o Ea, "I", Alterable),
      Row("BTST", {"b", "l"}, \h0800, Ea, "BN", {An, Imm}), Row("BCHG", {"b", "l"}, \h0840, Ea, "BN", Alterable),
      Row("BCLR", {"b", "l"}, \h0880, Ea, "BN", Alterable), Row("BSET", {"b", "l"}, \h08C0, Ea, "BN", Alterable),
      Row("BTST", {"b", "l"}, \h0100, <<Dn9>> \o Ea, "N", {An, Swap}),
      Row("BCHG", {"b", "l"}, \h0140, <<Dn9>> \o Ea, "N", {Swap} \cup Alterable),
      Row("BCLR", {"b", "l"}, \h0180, <<Dn9>> \o Ea, "N", {Swap} \cup Alterable),
      Row("BSET", {"b", "l"}, \h01C0, <<Dn9>> \o Ea, "N", {Swap} \cup Alterable),
      Row("MOVEP", {"w", "l"}, \h0108, <<Dn9, Dx, Sz6, An0>>, "D", {}) >>
    [] top \in 1 .. 3 -> <<
      Row("MOVEA", {"w", "l"}, \h0040, <<Sy, An9>> \o Ea, "", {}), Row("MOVE", BWL, \h0000, <<Sy, To6>> \o Ea, "", {}) >>
    [] top = 4 -> <<
      From(Row("MOVE", {"w"}, \h40C0, Ea, "", Alterable), ea_sr), With(Row("MOVE", {"w"}, \h44C0, Ea, "", NoAn), ea_ccr),
      With(Row("MOVE", {"w"}, \h46C0, Ea, "", NoAn), ea_sr), Row("NEGX", BWL, \h4000, <<Sx>> \o Ea, "", Alterable),
      Row("CLR", BWL, \h4200, <<Sx>> \o Ea, "", Alterable), Row("NEG", BWL, \h4400, <<Sx>> \o Ea, "", Alterable),
      Row("NOT", BWL, \h4600, <<Sx>> \o Ea, "", Alterable), Row("EXT", {"w", "l"}, \h4880, <<Sz6, Dn0>>, "", {}),
      Row("NBCD", {"b"}, \h4800, Ea, "", Alterable), Row("SWAP", {"w"}, \h4840, <<Dn0>>, "", {}),
      Row("PEA", {"l"}, \h4840, Ea, "", Control), Plain("ILLEGAL", \h4AFC), Row("TAS", {"b"}, \h4AC0, Ea, "", Alterable),
      Row("TST", BWL, \h4A00, <<Sx>> \o Ea, "", NoAn), Row("TRAP", {}, \h4E40, <<Data4>>, "", {}),
      With(Row("LINK", {"w"}, \h4E50, <<An0>>, "", {}), ea_immediate), Row("UNLK", {"l"}, \h4E58, <<An0>>, "", {}),
      With(Row("MOVE", {"l"}, \h4E60, <<An0>>, "", {}), ea_usp), From(Row("MOVE", {"l"}, \h4E68, <<An0>>, "", {}), ea_usp),
      Plain("RESET", \h4E70), Plain("NOP", \h4E71), Row("STOP", {"w"}, \h4E72, <<>>, "I", {}), Plain("RTE", \h4E73),
      Plain("RTS", \h4E75), Plain("TRAPV", \h4E76), Plain("RTR", \h4E77), Row("JSR", {}, \h4E80, Ea, "", Control),
      Row("JMP", {}, \h4EC0, Ea, "", Control), Row("MOVEM", {"w", "l"}, \h4880, <<Dy, Sz6>> \o Ea, "M", {Dn, An, Imm}),
      Row("LEA", {"l"}, \h41C0, <<An9>> \o Ea, "", Control), Row("CHK", {"w"}, \h4180, <<Dn9>> \o Ea, "", NoAn) >>
    [] top = 5 -> <<
      Row("ADDQ", BWL, \h5000, <<Data3, Sx>> \o Ea, "", {Imm, PC}),
      Row("SUBQ", BWL, \h5100, <<Data3, Sx>> \o Ea, "", {Imm, PC}),
      Row("Scc", {"b"}, \h50C0, <<Cond>> \o Ea, "", Alterable), Row("DBcc", {"w"}, \h50C8, <<Cond, Dn0>>, "D", {}) >>
    [] top = 6 -> <<
      Row("BRA", {"b", "w"}, \h6000, <<Displacement>>, "d", {}), Row("BSR", {"b", "w"}, \h6100, <<Displacement>>, "d", {}),
      Row("Bcc", {"b", "w"}, \h6000, <<Cond, Displacement>>, "d", {}) >>
    [] top = 7 -> <<
      Row("MOVEQ", {"l"}, \h7000, <<Dn9, Data8>>, "", {}) >>
    [] top = 8 -> <<
      Row("DIVU", {"w"}, \h80C0, <<Dn9>> \o Ea, "", NoAn), Row("DIVS", {"w"}, \h81C0, <<Dn9>> \o Ea, "", NoAn),
      Row("SBCD", {"b"}, \h8100, <<Mem, Xn9, Xn0>>, "", {}), Row("OR", BWL, \h8000, <<Dn9, Dz, Sx>> \o Ea, "", NoAn) >>
    [] top = 9 -> <<
      Row("SUB", BWL, \h9000, <<Dn9, Dz, Sx>> \o Ea, "", {}), Row("SUBX", BWL, \h9100, <<Mem, Xn9, Sx, Xn0>>, "", {}),
      Row("SUBA", {"w", "l"}, \h90C0, <<An9, Sz8>> \o Ea, "", {}) >>
    [] top = 11 -> <<
      Row("EOR", BWL, \hB100, <<Dn9, Sx>> \o Ea, "", {Swap} \cup Alterable),
      Row("CMPM", BWL, \hB108, <<An9, Sx, An0>>, "", {}), Row("CMP", BWL, \hB000, <<Dn9, Sx>> \o Ea, "", {}),
      Row("CMPA", {"w", "l"}, \hB0C0, <<An9, Sz8>> \o Ea, "", {}) >>
    [] top = 12 -> <<
      Row("MULU", {"w"}, \hC0C0, <<Dn9>> \o Ea, "", NoAn), Row("MULS", {"w"}, \hC1C0, <<Dn9>> \o Ea, "", NoAn),
      Row("ABCD", {"b"}, \hC100, <<Mem, Xn9, Xn0>>, "", {}), Row("EXG", {"l"}, \hC100, <<Exchange, Xn9, Xn0>>, "", {}),
      Row("AND", BWL, \hC000, <<Dn9, Dz, Sx>> \o Ea, "", NoAn) >>
    [] top = 13 -> <<
      Row("ADD", BWL, \hD000, <<Dn9, Dz, Sx>> \o Ea, "", {}), Row("ADDX", BWL, \hD100, <<Mem, Xn9, Sx, Xn0>>, "", {}),
      Row("ADDA", {"w", "l"}, \hD0C0, <<An9, Sz8>> \o Ea, "", {}) >>
    [] top = 14 -> <<
      Row("ASd", {"w"}, \hE0C0, <<Dir>> \o Ea, "", MemoryAlterable),
      Row("LSd", {"w"}, \hE2C0, <<Dir>> \o Ea, "", MemoryAlterable),
      Row("ROXd", {"w"}, \hE4C0, <<Dir>> \o Ea, "", MemoryAlterable),
      Row("ROd", {"w"}, \hE6C0, <<Dir>> \o Ea, "", MemoryAlterable),
      Row("ASd", BWL, \hE000, <<Data3, Dir, Sx, Mr, Dn0>>, "", {}),
      Row("LSd", BWL, \hE008, <<Data3, Dir, Sx, Mr, Dn0>>, "", {}),
      Row("ROXd", BWL, \hE010, <<Data3, Dir, Sx, Mr, Dn0>>, "", {}),
      Row("ROd", BWL, \hE018, <<Data3, Dir, Sx, Mr, Dn0>>, "", {}) >>
    [] OTHER -> <<>>

-----------------------------------------------------------------------------
(* gen_insts: what the bits of an opcode are as the fields of a row, and    *)
(* whether the row has them                                                 *)
FieldOf(op, f) == (op \div 2^f.at) % 2^f.width
HasBits(row, op) ==
  op = FoldLeft(LAMBDA bits, f : bits + FieldOf(op, f) * 2^f.at, row.bits, row.fields)

If(holds, s) == [s EXCEPT !.ok = s.ok /\ holds]
Operand(s, ea) == [s EXCEPT !.ops = Append(@, ea)]
SizeAt(s, v, sizes) == IF v \in DOMAIN sizes THEN [s EXCEPT !.size = sizes[v]] ELSE If(FALSE, s)

AllowedMode(row, s, m) ==
  /\ ~(m = An /\ s.size = "b") /\ m \notin row.block
  /\ (row.type = "MOVEM") => m # (IF s.swap THEN Post ELSE Pre)

(* Not for a register in front of it: those opcodes are others *)
AllowedOperand(row, s, m, x) ==
  /\ (m = Other) =>
       /\ x <= 4 /\ (x = 4 => Imm \notin row.block)
       /\ (x \in {2, 3}) => PC \notin row.block /\ ~(s.swap /\ row.type = "MOVEM")
  /\ (~s.swap /\ Len(s.ops) = 1 /\ row.type # "EXG") =>
       ((Mode(s.ops[1]) = Dn) => m \notin {Dn, An} /\ ~(m = Other /\ x >= 2))

Register(s, f, ea) == Operand([s EXCEPT !.swap = IF s.ops = <<>> /\ f.at > 0 THEN TRUE ELSE @], ea)

(* Mutant: a count of 0 is none *)
CountPlain(v) == v

Count(v) == IF v = 0 THEN 8 ELSE v

Field(row, op, s, f) ==
  LET v == FieldOf(op, f) IN
  CASE f.kind = "Sx" -> SizeAt(s, v, [i \in 0 .. 2 |-> <<"b", "w", "l">>[i + 1]])
    [] f.kind = "Sy" -> If(v # 1 \/ "b" \in row.sizes, SizeAt(s, v, [i \in 1 .. 3 |-> <<"b", "l", "w">>[i]]))
    [] f.kind = "Sz" -> SizeAt(s, v, [i \in 0 .. 1 |-> <<"w", "l">>[i + 1]])
    [] f.kind = "M" -> If(AllowedMode(row, s, v), [s EXCEPT !.mode = v])
    [] f.kind = "To" -> LET m == v % 8  x == v \div 8
                        IN  If(m # An /\ (m = Other => x < 2), Operand([s EXCEPT !.swap = TRUE], 8 * m + x))
    [] f.kind = "m" -> [s EXCEPT !.swap = TRUE, !.mode = IF v = 0 THEN Dn ELSE Pre]
    [] f.kind = "ME" -> If(v \in {8, 9, 17}, [s EXCEPT !.mode = IF v = 9 THEN An ELSE Dn, !.second = IF v = 17 THEN An ELSE None])
    [] f.kind = "Xn" -> LET m == IF s.second # None /\ s.ops # <<>> THEN s.second ELSE s.mode
                        IN  If(AllowedOperand(row, s, m, v), Operand(s, 8 * m + v))
    [] f.kind = "Dn" -> Register(s, f, v)
    [] f.kind = "An" -> Register(s, f, 8 * An + v)
    [] f.kind = "Data3" -> Operand([s EXCEPT !.data = Count(v)], ea_data3)
    [] f.kind = "Data4" -> Operand([s EXCEPT !.data = v], ea_data4)
    [] f.kind = "Data8" -> Operand([s EXCEPT !.data = v], ea_data8)
    [] f.kind = "Cond" -> If(v > 1 \/ row.type # "Bcc", [s EXCEPT !.cond = v])
    [] f.kind = "Displacement" -> If(v # 255, Operand([s EXCEPT !.data = v], ea_disp))
    [] f.kind = "D" -> [s EXCEPT !.swap = (v = 0)]
    [] f.kind = "d" -> [s EXCEPT !.left = v]
    [] f.kind = "Mr" -> IF v = 0 THEN s ELSE [s EXCEPT !.ops = <<s.data % 8>>]

Start(row) ==
  [ok |-> TRUE, size |-> IF Cardinality(row.sizes) = 1 THEN CHOOSE z \in row.sizes : TRUE ELSE "none",
   mode |-> None, second |-> None, swap |-> FALSE, data |-> 0, cond |-> None, left |-> None,
   ops |-> CASE row.imm = "I" -> <<ea_immediate>> [] row.imm = "BN" -> <<ea_bitnum>> [] OTHER -> <<>>]

(* The operands in the order they are written *)
Ordered(row, s) ==
  LET listed == IF row.imm = "M" THEN Append(s.ops, ea_reglist) ELSE s.ops
      swapped == IF s.swap /\ Swap \notin row.block THEN Reverse(listed) ELSE listed
  IN  CASE row.type = "CMPM" -> [k \in 1 .. 2 |-> 8 * Post + Reg(swapped[k])]
        [] row.type = "MOVEP" -> [k \in 1 .. 2 |-> IF Mode(swapped[k]) = An THEN 8 * Disp16 + Reg(swapped[k]) ELSE swapped[k]]
        [] row.type = "DBcc" -> Append(swapped, ea_disp)
        [] OTHER -> SetToSeq(row.first) \o swapped \o SetToSeq(row.last)

(* Bits of registers are those of longs; a displacement of 0 is in the next *)
(* word                                                                     *)
FinalSize(row, s) ==
  CASE row.imm \in {"N", "BN"} -> IF s.ops[2] >= 8 * Indirect THEN "b" ELSE "l"
    [] row.imm = "d" -> IF s.data = 0 THEN "w" ELSE "b"
    [] OTHER -> s.size

Entry(row, s) ==
  [type |-> row.type, cond |-> IF s.left = None THEN s.cond ELSE s.left, size |-> FinalSize(row, s),
   ops |-> Ordered(row, s), data |-> s.data, far |-> row.imm = "D" \/ (row.imm = "d" /\ s.data = 0)]

EaWords(i, ea) ==
  CASE Mode(ea) \in {Disp16, Index} \/ ea \in {ea_abs_w, ea_pc_disp, ea_pc_index, ea_reglist, ea_bitnum} -> 1
    [] ea = ea_abs_l -> 2
    [] ea = ea_immediate -> IF i.size = "l" THEN 2 ELSE 1
    [] ea = ea_disp -> IF i.far THEN 1 ELSE 0
    [] OTHER -> 0

(* The table: what its rows make of an opcode; otherwise it is ILLEGAL *)
Entries(op) ==
  LET rows == Rows(op \div 4096)
      Made(row) == FoldLeft(LAMBDA s, f : Field(row, op, s, f), Start(row), row.fields)
  IN  {Entry(rows[k], Made(rows[k])) : k \in {j \in DOMAIN rows : HasBits(rows[j], op) /\ Made(rows[j]).ok}}

ilen(i) == 1 + FoldLeft(LAMBDA n, ea : n + EaWords(i, ea), 0, i.ops)

-----------------------------------------------------------------------------
(* disasm: the operands with their values, from the words at address pc.    *)
(* The value of a displacement from the pc, or of one of a branch, is where *)
(* it leads                                                                 *)
SignedIn(v, bits) == LET u == v % 2^bits IN IF u < 2^(bits - 1) THEN u ELSE u - 2^bits
LongAt(words, at) == SignedIn(words[at], 16) * 65536 + words[at + 1]

(* reg_list_string: registers in a row, 0 to 7 are D0 to D7; the bits are   *)
(* the other way round for predecrement                                     *)
Ranges(list, reverse) ==
  LET In(reg) == (list \div 2^(IF reverse THEN 15 - reg ELSE reg)) % 2 = 1
      Next(s, reg) ==
        IF In(reg) THEN [s EXCEPT !.from = IF @ = None THEN reg ELSE @]
        ELSE IF s.from = None THEN s
        ELSE [out |-> Append(s.out, <<s.from, reg - 1>>), from |-> None]
      end == FoldLeft(Next, [out |-> <<>>, from |-> None], [k \in 1 .. 16 |-> k - 1])
  IN  IF end.from = None THEN end.out ELSE Append(end.out, <<end.from, 15>>)

Value(i, pc, words, at, ea) ==
  LET here == pc + 2 * (at - 1) IN
  CASE Mode(ea) = Disp16 \/ ea = ea_abs_w -> SignedIn(words[at], 16)
    [] Mode(ea) = Index -> SignedIn(words[at], 8)
    [] ea = ea_abs_l -> LongAt(words, at)
    [] ea = ea_pc_disp -> here + SignedIn(words[at], 16)
    [] ea = ea_pc_index -> here + SignedIn(words[at], 8)
    [] ea = ea_immediate -> CASE i.size = "l" -> LongAt(words, at) [] i.size = "b" -> words[at] % 256 [] OTHER -> words[at]
    [] ea = ea_bitnum -> words[at] % (IF i.size = "b" THEN 8 ELSE 32)
    [] ea = ea_disp -> pc + 2 + (IF i.far THEN SignedIn(words[at], 16) ELSE SignedIn(i.data, 8))
    [] ea = ea_data8 -> SignedIn(i.data, 8)
    [] ea \in {ea_data3, ea_data4} -> i.data
    [] OTHER -> 0

IndexRegister(words, at, ea) == IF Mode(ea) = Index \/ ea = ea_pc_index THEN words[at] \div 2048 ELSE 0

(* A register list comes before the other words *)
Read(i, pc, words) ==
  LET Next(s, ea) ==
        IF ea = ea_reglist
        THEN [s EXCEPT !.ops = Append(@, [ea |-> ea, val |-> 0, x |-> 0, list |-> Ranges(words[2], i.ops[2] \div 8 = Pre)])]
        ELSE [at |-> s.at + EaWords(i, ea),
              ops |-> Append(s.ops, [ea |-> ea, val |-> Value(i, pc, words, s.at, ea),
                                     x |-> IndexRegister(words, s.at, ea), list |-> <<>>])]
  IN  FoldLeft(Next, [at |-> IF ea_reglist \in Range(i.ops) THEN 3 ELSE 2, ops |-> <<>>], i.ops).ops
=============================================================================
