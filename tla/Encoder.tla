------------------------------ MODULE Encoder ------------------------------
(***************************************************************************)
(* The words the assembler makes of an instruction (asm.cpp,               *)
(* process_instruction and the functions it calls), and what the table of  *)
(* instructions makes of these words.  Names are known here; operands with *)
(* names that are not are in Asm.                                          *)
(*                                                                         *)
(* An instruction is written [inst, cond, size, ops]: an operand is its EA *)
(* byte with a value, the index register's bits and the ranges of a list.  *)
(***************************************************************************)
EXTENDS Opcodes

CONSTANTS
  OpcodesTried,   (* first words                                           *)
  Following,      (* sequences of four words that may come next            *)
  pc              (* where the instruction is                              *)

VARIABLES
  phase,          (* "words", "written", "again", "done"                   *)
  words, written  (* the instruction as it was written and as it is read   *)

code_vars == <<phase, words, written>>

Illegal == -1

(* What may follow a mnemonic: sizes, the size without one, the operands *)
I(sizes, default, operands) == [sizes |-> sizes, default |-> default, operands |-> operands]
Shifts == {"ASd", "LSd", "ROXd", "ROd"}
Info(inst) ==
  CASE inst \in {"ADD", "ADDQ", "ADDX", "AND", "CMP", "CMPM", "EOR", "MOVE", "OR", "SUB", "SUBX", "SUBQ"} -> I(BWL, "w", {2})
    [] inst \in {"CLR", "NEG", "NEGX", "NOT", "TST"} -> I(BWL, "w", {1})
    [] inst \in Shifts -> I(BWL, "w", {1, 2})
    [] inst \in {"BCHG", "BCLR", "BSET", "BTST"} -> I({"b", "l"}, "none", {2})
    [] inst = "Bcc" -> I({"b", "w"}, "none", {1})
    [] inst \in {"CHK", "DIVS", "DIVU", "LINK", "MULS", "MULU", "DBcc"} -> I({"w"}, "w", {2})
    [] inst \in {"ABCD", "SBCD"} -> I({"b"}, "b", {2})
    [] inst \in {"NBCD", "Scc", "TAS"} -> I({"b"}, "b", {1})
    [] inst \in {"MOVEM", "MOVEP"} -> I({"w", "l"}, "w", {2})
    [] inst = "EXT" -> I({"w", "l"}, "w", {1})
    [] inst = "EXG" -> I({"l"}, "none", {2})
    [] inst \in {"LEA", "MOVEQ"} -> I({"l"}, "l", {2})
    [] inst = "PEA" -> I({"l"}, "l", {1})
    [] inst = "SWAP" -> I({"w"}, "w", {1})
    [] inst \in {"JMP", "JSR", "STOP", "TRAP", "UNLK"} -> I({}, "none", {1})
    [] OTHER -> I({}, "none", {0})

Range8(v) == v \in -128 .. 127
Range16(v) == v \in -32768 .. 32767

Is(e, mode) == Mode(e.ea) = mode
IsImm(e) == e.ea = ea_immediate
NoEa(e) == e.ea > ea_immediate
FromPc(e) == e.ea \in {ea_pc_disp, ea_pc_index}
Number(e) == Reg(e.ea)
Flag(holds, bit) == IF holds THEN bit ELSE 0
SizeBits(s) == 64 * (CASE s = "w" -> 1 [] s = "l" -> 2 [] OTHER -> 0)
Code(holds, code) == IF holds THEN code ELSE Illegal

-----------------------------------------------------------------------------
(* process_ea: a displacement from the pc is from where the next word is,   *)
(* whichever word that will be; -1 if the operand is refused                *)
RegListWord(ranges) ==
  MapThenSumSet(LAMBDA k : MapThenSumSet(LAMBDA r : 2^r, ranges[k][1] .. ranges[k][2]), DOMAIN ranges)

Known(e) ==
  CASE FromPc(e) -> [e EXCEPT !.val = @ - (pc + 2)]
    [] e.ea = ea_reglist -> [e EXCEPT !.val = RegListWord(e.list)]
    [] OTHER -> e

InRange(e) ==
  CASE Is(e, Disp16) \/ e.ea = ea_abs_w -> Range16(e.val)
    [] Is(e, Index) \/ e.ea = ea_pc_index -> Range8(e.val)
    [] OTHER -> TRUE

(* The index register goes above the displacement at once *)
WithIndex(e) == IF Is(e, Index) \/ e.ea = ea_pc_index THEN [e EXCEPT !.val = (@ % 256) + 2048 * e.x] ELSE e

-----------------------------------------------------------------------------
(* The first word of groups of instructions *)
encode_binop(a, b, s, imm, normal) ==
  LET last == IF imm = \h0A00 THEN Is(a, Dn) ELSE ~Is(b, Dn)
  IN  CASE NoEa(a) \/ NoEa(b) \/ Is(b, An) -> Illegal
        [] IsImm(a) -> imm + SizeBits(s) + b.ea
        [] ~Is(a, Dn) /\ ~Is(b, Dn) -> Illegal
        [] OTHER -> normal + 512 * Number(IF last THEN a ELSE b) + Flag(last, 256) + SizeBits(s) + (IF last THEN b.ea ELSE a.ea)

encode_add_sub_cmp(a, b, s, imm, normal) ==
  IF ~NoEa(a) /\ Is(b, An)
  THEN Code(s # "b", normal + 192 + 512 * Number(b) + Flag(s = "l", 256) + a.ea)
  ELSE encode_binop(a, b, s, imm, normal)

encode_bitop(a, b, s, imm, dn) ==
  CASE NoEa(a) \/ NoEa(b) \/ Is(b, An) \/ s = (IF Is(b, Dn) THEN "b" ELSE "l") -> Illegal
    [] IsImm(a) -> imm + b.ea
    [] OTHER -> Code(Is(a, Dn), dn + 512 * Number(a) + b.ea)

encode_unary(e, s, code) == Code(~Is(e, An) /\ ~FromPc(e) /\ e.ea < ea_immediate, code + SizeBits(s) + e.ea)

encode_ea_instruction(e, code) == Code(e.ea < ea_immediate /\ Mode(e.ea) \notin {Dn, An, Post, Pre}, code + e.ea)

encode_addsub_q(a, b, s, sub) ==
  Code(IsImm(a) /\ a.val \in 1 .. 8 /\ ~(s = "b" /\ Is(b, An)) /\ ~NoEa(b),
       \h5000 + 512 * (a.val % 8) + Flag(sub, 256) + SizeBits(s) + b.ea)

BothDn(a, b) == Is(a, Dn) /\ Is(b, Dn)
BothPre(a, b) == Is(a, Pre) /\ Is(b, Pre)

encode_addsub_x(a, b, s, sub) ==
  Code(BothDn(a, b) \/ BothPre(a, b),
       \h9100 + Flag(~sub, \h4000) + 512 * Number(b) + SizeBits(s) + Flag(BothPre(a, b), 8) + Number(a))

encode_abcd_sbcd(a, b, sub) ==
  Code(BothDn(a, b) \/ BothPre(a, b), \h8100 + Flag(~sub, \h4000) + 512 * Number(b) + Flag(BothPre(a, b), 8) + Number(a))

encode_muldiv(a, b, signed, mul) ==
  Code(~NoEa(a) /\ ~Is(a, An) /\ Is(b, Dn), \h80C0 + Flag(mul, \h4000) + 512 * Number(b) + Flag(signed, 256) + a.ea)

encode_shift_rotate(ops, s, code, left) ==
  LET a == ops[1]  b == Last(ops)
      op == \hE000 + 256 * left + SizeBits(s) + 8 * code + Number(b)
  IN  CASE Len(ops) = 1 -> Code(s = "w" /\ Mode(a.ea) > An /\ a.ea < ea_immediate, \hE0C0 + 512 * code + 256 * left + a.ea)
        [] ~Is(b, Dn) -> Illegal
        [] Is(a, Dn) -> op + 512 * Number(a) + 32
        [] OTHER -> Code(IsImm(a) /\ a.val \in 1 .. 8, op + 512 * (a.val % 8))

(* AND, EOR and OR of the status register have their sizes *)
Special(b) == b.ea \in {ea_sr, ea_ccr}
SpecialSize(b) == IF b.ea = ea_sr THEN "w" ELSE "b"
encode_logic(i, a, b, s, imm, normal) ==
  IF Special(b) THEN Code((i.size \in {"none", SpecialSize(b)}) /\ IsImm(a), imm + (IF b.ea = ea_sr THEN \h7C ELSE \h3C))
  ELSE encode_binop(a, b, s, imm, normal)

Alters(e) == ~Is(e, An) /\ e.ea < ea_immediate

encode_move(i, a, b, s) ==
  CASE Mode(b.ea) = Other /\ b.ea > ea_abs_l -> Illegal
    [] Special(a) -> Code(s = "w" /\ Alters(b), \h40C0 + b.ea)
    [] Special(b) -> Code(s = "w" /\ ~NoEa(a) /\ ~Is(a, An), (IF b.ea = ea_sr THEN \h46C0 ELSE \h44C0) + a.ea)
    [] a.ea = ea_usp -> Code(Is(b, An) /\ (i.size \in {"none", "l"}), \h4E68 + Number(b))
    [] b.ea = ea_usp -> Code(Is(a, An) /\ (i.size \in {"none", "l"}), \h4E60 + Number(a))
    [] OTHER -> \h1000 * (CASE s = "b" -> 1 [] s = "w" -> 3 [] OTHER -> 2) + 512 * Number(b) + 64 * Mode(b.ea) + a.ea

encode_exg(a, b) ==
  Code(Mode(a.ea) <= An /\ Mode(b.ea) <= An,
       \hC100 + 512 * Number(a) + Number(b) +
         8 * (CASE BothDn(a, b) -> 8 [] Is(a, An) /\ Is(b, An) -> 9 [] OTHER -> 17))

encode_movep(a, b, s) ==
  CASE Is(a, Dn) /\ Is(b, Disp16) -> \h0188 + 512 * Number(a) + Flag(s = "l", 64) + Number(b)
    [] Is(a, Disp16) /\ Is(b, Dn) -> \h0108 + 512 * Number(b) + Flag(s = "l", 64) + Number(a)
    [] OTHER -> Illegal

(* MOVEM: a single register is a list too *)
List(e) == e.ea = ea_reglist \/ Mode(e.ea) <= An
ListWord(e) == IF e.ea = ea_reglist THEN e.val ELSE 2^e.ea

(* Mutant: the list is never turned round *)
ReversedNot(w) == w

Reversed(w) == MapThenSumSet(LAMBDA k : Flag((w \div 2^k) % 2 = 1, 2^(15 - k)), 0 .. 15)

encode_movem(a, b, s) ==
  CASE List(a) -> Code(b.ea < ea_immediate /\ ~FromPc(b) /\ Mode(b.ea) \notin {Dn, An, Post}, \h4880 + Flag(s = "l", 64) + b.ea)
    [] List(b) -> Code(~NoEa(a), \h4C80 + Flag(s = "l", 64) + a.ea)
    [] OTHER -> Illegal
MovemList(a, b) ==
  IF ~List(a) THEN ListWord(b) ELSE IF Is(b, Pre) THEN Reversed(ListWord(a)) ELSE ListWord(a)

-----------------------------------------------------------------------------
(* The size in force, and the opcode *)
Size(i) ==
  LET default == IF i.size = "none" THEN Info(i.inst).default ELSE i.size IN
  IF i.inst \in {"AND", "EOR", "OR"} /\ Special(Last(i.ops)) /\ i.size = "none" THEN SpecialSize(Last(i.ops)) ELSE default

PlainOpcode ==
  [ILLEGAL |-> \h4AFC, RESET |-> \h4E70, NOP |-> \h4E71, RTE |-> \h4E73, RTS |-> \h4E75, TRAPV |-> \h4E76, RTR |-> \h4E77]

UnaryOpcode(i, a, s) ==
  CASE i.inst = "CLR" -> encode_unary(a, s, \h4200)
    [] i.inst = "NEG" -> encode_unary(a, s, \h4400)
    [] i.inst = "NEGX" -> encode_unary(a, s, \h4000)
    [] i.inst = "NOT" -> encode_unary(a, s, \h4600)
    [] i.inst = "NBCD" -> encode_unary(a, "b", \h4800)
    [] i.inst = "TST" -> encode_unary(a, s, \h4A00)
    [] i.inst = "EXT" -> Code(Is(a, Dn), \h4880 + Flag(s = "l", 64) + Number(a))
    [] i.inst = "JMP" -> encode_ea_instruction(a, \h4EC0)
    [] i.inst = "JSR" -> encode_ea_instruction(a, \h4E80)
    [] i.inst = "PEA" -> encode_ea_instruction(a, \h4840)
    [] i.inst = "UNLK" -> Code(Is(a, An), \h4E58 + Number(a))
    [] i.inst = "Scc" -> Code(Alters(a), \h50C0 + 256 * i.cond + a.ea)
    [] i.inst = "TAS" -> Code(Alters(a), \h4AC0 + a.ea)
    [] i.inst = "SWAP" -> Code(Is(a, Dn), \h4840 + Number(a))
    [] i.inst = "TRAP" -> Code(IsImm(a) /\ a.val \in 0 .. 15, \h4E40 + a.val)
    [] i.inst = "STOP" -> Code(IsImm(a), \h4E72)

BinaryOpcode(i, a, b, s) ==
  CASE i.inst = "ADD" -> encode_add_sub_cmp(a, b, s, \h0600, \hD000)
    [] i.inst = "SUB" -> encode_add_sub_cmp(a, b, s, \h0400, \h9000)
    [] i.inst = "CMP" -> IF Mode(b.ea) > An /\ ~IsImm(a) THEN Illegal ELSE encode_add_sub_cmp(a, b, s, \h0C00, \hB000)
    [] i.inst = "AND" -> encode_logic(i, a, b, s, \h0200, \hC000)
    [] i.inst = "EOR" -> encode_logic(i, a, b, s, \h0A00, \hB000)
    [] i.inst = "OR" -> encode_logic(i, a, b, s, \h0000, \h8000)
    [] i.inst \in {"ADDQ", "SUBQ"} -> encode_addsub_q(a, b, s, i.inst = "SUBQ")
    [] i.inst \in {"ADDX", "SUBX"} -> encode_addsub_x(a, b, s, i.inst = "SUBX")
    [] i.inst \in {"ABCD", "SBCD"} -> encode_abcd_sbcd(a, b, i.inst = "SBCD")
    [] i.inst = "BTST" -> encode_bitop(a, b, i.size, \h0800, \h0100)
    [] i.inst = "BCHG" -> encode_bitop(a, b, i.size, \h0840, \h0140)
    [] i.inst = "BCLR" -> encode_bitop(a, b, i.size, \h0880, \h0180)
    [] i.inst = "BSET" -> encode_bitop(a, b, i.size, \h08C0, \h01C0)
    [] i.inst = "CHK" -> Code(~NoEa(a) /\ ~Is(a, An) /\ Is(b, Dn), \h4180 + 512 * Number(b) + a.ea)
    [] i.inst \in {"MULS", "MULU", "DIVS", "DIVU"} -> encode_muldiv(a, b, i.inst \in {"MULS", "DIVS"}, i.inst \in {"MULS", "MULU"})
    [] i.inst = "CMPM" -> Code(Is(a, Post) /\ Is(b, Post), \hB108 + 512 * Number(b) + SizeBits(s) + Number(a))
    [] i.inst = "EXG" -> encode_exg(a, b)
    [] i.inst = "LEA" -> IF Is(b, An) THEN encode_ea_instruction(a, \h41C0 + 512 * Number(b)) ELSE Illegal
    [] i.inst = "LINK" -> Code(Is(a, An) /\ IsImm(b), \h4E50 + Number(a))
    [] i.inst = "MOVE" -> encode_move(i, a, b, s)
    [] i.inst = "MOVEM" -> encode_movem(a, b, s)
    [] i.inst = "MOVEP" -> encode_movep(a, b, s)
    [] i.inst = "MOVEQ" -> Code(IsImm(a) /\ Is(b, Dn) /\ Range8(a.val), \h7000 + 512 * Number(b) + (a.val % 256))
    [] i.inst = "DBcc" -> Code(Is(a, Dn) /\ b.ea = ea_abs_l /\ Range16(b.val - (pc + 2)), \h50C8 + 256 * i.cond + Number(a))

Rotations == <<"ASd", "LSd", "ROXd", "ROd">>
Opcode(i, ops) ==
  CASE ops = <<>> -> PlainOpcode[i.inst]
    [] i.inst \in Shifts -> encode_shift_rotate(ops, Size(i), CHOOSE k \in 0 .. 3 : Rotations[k + 1] = i.inst, i.cond)
    [] Info(i.inst).operands = {1} -> UnaryOpcode(i, ops[1], Size(i))
    [] OTHER -> BinaryOpcode(i, ops[1], ops[2], Size(i))

(* Branches are short where they can be, unless a size is written *)
Branch(i, e) ==
  LET disp == e.val - (pc + 2)
      short == disp # 0 /\ Range8(disp) /\ i.size # "w"
  IN  CASE e.ea # ea_abs_l \/ (~short /\ (i.size = "b" \/ ~Range16(disp))) -> <<>>
        [] short -> <<\h6000 + 256 * i.cond + (disp % 256)>>
        [] OTHER -> <<\h6000 + 256 * i.cond, disp % 65536>>

-----------------------------------------------------------------------------
(* The words of an operand; those of ADDQ, of a shift and of instructions   *)
(* that are complete have none                                              *)
Low(v) == v % 65536
High(v) == (v \div 65536) % 65536

OperandWords(e, s) ==
  CASE Mode(e.ea) \in {Disp16, Index} \/ e.ea \in {ea_abs_w, ea_pc_disp, ea_pc_index} -> <<Low(e.val)>>
    [] e.ea = ea_abs_l \/ (IsImm(e) /\ s = "l") -> <<High(e.val), Low(e.val)>>
    [] IsImm(e) -> <<IF s = "b" THEN e.val % 256 ELSE Low(e.val)>>
    [] OTHER -> <<>>

Complete == {"ADDX", "SUBX", "CMPM", "EXG", "EXT", "MOVEQ", "SWAP", "TRAP", "TRAPV", "DBcc"}
Embedded(i, k) == k = 1 /\ i.inst \in Shifts \cup {"ADDQ", "SUBQ"} /\ Len(i.ops) = 2
ImmediateSize(i) == IF i.inst \in {"BTST", "BCHG", "BCLR", "BSET"} THEN "b" ELSE Size(i)

(* The displacement of MOVEM is from the word behind the list: less by two, *)
(* with the index register's bits above it                                  *)
Behind(i, e) == IF i.inst = "MOVEM" /\ FromPc(e) THEN [e EXCEPT !.val = @ - 2] ELSE e

Following1(i, ops) ==
  IF i.inst \in Complete THEN <<>>
  ELSE FoldLeft(LAMBDA out, k : out \o (IF Embedded(i, k) THEN <<>> ELSE OperandWords(Behind(i, ops[k]), ImmediateSize(i))),
                <<>>, [k \in 1 .. Len(ops) |-> k])

process_instruction(i) ==
  LET ops == [k \in DOMAIN i.ops |-> WithIndex(Known(i.ops[k]))]
      code == Opcode(i, ops)
  IN  CASE ~(i.size \in Info(i.inst).sizes \cup {"none"}) \/ Len(ops) \notin Info(i.inst).operands
             \/ \E k \in DOMAIN ops : ~InRange(Known(i.ops[k])) \/ (ops[k].ea = ea_reglist /\ i.inst # "MOVEM") -> <<>>
        [] i.inst = "Bcc" -> Branch(i, ops[1])
        [] code = Illegal -> <<>>
        [] i.inst = "MOVEM" -> <<code, MovemList(ops[1], ops[2])>> \o Following1(i, ops)
        [] i.inst = "DBcc" -> <<code, Low(ops[2].val - (pc + 2))>>
        [] OTHER -> <<code>> \o Following1(i, ops)

-----------------------------------------------------------------------------
(* An instruction of the table as it is written for the assembler: the      *)
(* names of the variants are those of the operation                         *)
Name(type) ==
  CASE type \in {"ADDA", "ADDI"} -> "ADD" [] type \in {"SUBA", "SUBI"} -> "SUB" [] type \in {"CMPA", "CMPI"} -> "CMP"
    [] type = "ANDI" -> "AND" [] type = "ORI" -> "OR" [] type = "EORI" -> "EOR" [] type = "MOVEA" -> "MOVE"
    [] type \in {"BRA", "BSR"} -> "Bcc" [] OTHER -> type

ConditionOf(i) == CASE i.type = "BRA" -> 0 [] i.type = "BSR" -> 1 [] OTHER -> i.cond

OperandWritten(e) ==
  CASE e.ea \in {ea_data3, ea_data4, ea_data8, ea_bitnum} -> [e EXCEPT !.ea = ea_immediate]
    [] e.ea = ea_disp -> [e EXCEPT !.ea = ea_abs_l]
    [] e.ea = ea_reglist /\ Len(e.list) = 1 /\ e.list[1][1] = e.list[1][2] -> [e EXCEPT !.ea = e.list[1][1], !.list = <<>>]
    [] OTHER -> e

Written(i, ws) ==
  LET ops == Read(i, pc, ws)
  IN  [inst |-> Name(i.type), cond |-> ConditionOf(i), size |-> IF i.type \in {"UNLK", "STOP"} THEN "none" ELSE i.size,
       ops |-> [k \in DOMAIN ops |-> OperandWritten(ops[k])]]

(* A line of the disassembler, read with the table; the words it needs *)
disasm(ws) ==
  LET found == Entries(ws[1])
      i == CHOOSE e \in found : TRUE
  IN  IF found = {} THEN [inst |-> "DC", len |-> 1] ELSE [len |-> ilen(i)] @@ Written(i, ws)

ReadFirst ==
  /\ phase = "words" /\ phase' = "written"
  /\ written' = <<disasm(words)>> /\ words' = SubSeq(words, 1, disasm(words).len)

Assemble ==
  /\ phase = "written" /\ written[1].inst # "DC"
  /\ words' = process_instruction(written[1]) /\ phase' = "again" /\ UNCHANGED written

ReadAgain ==
  /\ phase = "again" /\ words # <<>>
  /\ written' = Append(written, disasm(words)) /\ phase' = "done" /\ UNCHANGED words

EncoderInit ==
  /\ phase = "words" /\ written = <<>>
  /\ \E op \in OpcodesTried, f \in Following : words = <<op>> \o f
EncoderNext == ReadFirst \/ Assemble \/ ReadAgain

-----------------------------------------------------------------------------
(***************************************************************************)
(* No opcode is two instructions.  Each instruction can be assembled, as   *)
(* long as it was, and the words are read as the same instruction, but for *)
(* TST of an immediate or relative to the pc, which only the table has,    *)
(* and BTST relative to the pc, which is two bytes off.                    *)
(***************************************************************************)
OneMeaning == (phase = "words") => Cardinality(Entries(words[1])) <= 1

OnlyInTable(i) == i.inst = "TST" /\ (IsImm(i.ops[1]) \/ FromPc(i.ops[1]))
PcBehindBitNumber(i) == i.inst = "BTST" /\ IsImm(i.ops[1]) /\ FromPc(i.ops[2])

ReadBack ==
  /\ (phase = "again") => (words = <<>> <=> OnlyInTable(written[1]))
  /\ (phase = "done" /\ ~PcBehindBitNumber(written[1])) => written[2] = written[1] /\ Len(words) = written[1].len

OneInstruction == OneMeaning /\ ReadBack
=============================================================================
