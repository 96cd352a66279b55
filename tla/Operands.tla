------------------------------ MODULE Operands ------------------------------
(***************************************************************************)
(* The CPU's operands and the instructions that move them (cpu.cpp,        *)
(* handle_ea, read_ea, write_ea and the handlers): a program that saves    *)
(* what it is going to change, on the stack or elsewhere, changes it and   *)
(* takes it back, the pairs nested in any way.                             *)
(*                                                                         *)
(* Numbers are as in Alu, so an address has Bits bits and so has a long,   *)
(* four bytes.  Where the program is stored is left out: an instruction is *)
(* whatever comes next.                                                    *)
(***************************************************************************)
EXTENDS Alu, Sequences, SequencesExt

CONSTANTS
  Memory,      (* addresses that may be used                               *)
  Scratch,     (* those of operands that are not on the stack              *)
  Stack,       (* where the stack starts                                   *)
  Contents,    (* of D0 and D1                                             *)
  MaxOpen, MaxSteps (* bounds                                              *)

VARIABLES
  cpu,         (* [d, a, mem, ccr, pc, odd]: odd is the address of an      *)
               (* address error                                            *)
  open,        (* what was saved and not yet taken back                    *)
  closed,      (* what was taken back by the last instruction              *)
  work,        (* the last instruction that was neither, and before it     *)
  steps

operand_vars == <<cpu, open, closed, work, steps>>

None == <<>>
NoFault == -1
Byte == Bits \div 4
Bytes(s) == s \div Byte
Wrap(v) == v % Host

-----------------------------------------------------------------------------
(* Memory, the highest byte first *)
ByteOf(v, k, s) == Cut(v \div 2^(s - (Byte * (k + 1))), Byte)

Odd(addr, s) == s # Byte /\ addr % 2 = 1

ReadMem(m, addr, s) ==
  IF Odd(addr, s) THEN [m |-> [m EXCEPT !.odd = addr], val |-> 0]
  ELSE [m |-> m, val |-> MapThenSumSet(LAMBDA k : m.mem[Wrap(addr + k)] * 2^(s - (Byte * (k + 1))), 0 .. Bytes(s) - 1)]

WriteMem(m, addr, v, s) ==
  IF Odd(addr, s) THEN [m EXCEPT !.odd = addr]
  ELSE [m EXCEPT !.mem = [x \in Memory |-> IF Wrap(x - addr) < Bytes(s) THEN ByteOf(v, Wrap(x - addr), s) ELSE @[x]]]

read_iword(m) == [m EXCEPT !.pc = Wrap(@ + 2)]

(* Operands; the index register is D1 *)
Ea(mode, r, x) == [mode |-> mode, r |-> r, x |-> x, long |-> FALSE]
Indexed(mode, x, long) == [mode |-> mode, r |-> 0, x |-> x, long |-> long]

IsRegister(ea) == ea.mode \in {"Dn", "An"}
IsValue(ea) == IsRegister(ea) \/ ea.mode = "imm"

(* Mutant: a byte on the stack takes one byte *)
StepBare(ea, s) == Bytes(s)

Step(ea, s) == IF ea.r = 7 /\ s = Byte THEN 2 ELSE Bytes(s)

Register(m, long) == IF long THEN m.d[1] ELSE sext(m.d[1], Word)
IndexOf(m, ea) == Signed(ea.x, Byte) + Register(m, ea.long)

(* The value of a register or a constant, the address of anything else *)
handle_ea(m, ea, s) ==
  LET w == read_iword(m)
      Is(n, v) == [m |-> n, val |-> Wrap(v)]
  IN  CASE ea.mode = "Dn" -> Is(m, Cut(m.d[ea.r], s))
        [] ea.mode = "An" -> Is(m, Cut(m.a[ea.r], s))
        [] ea.mode = "ind" -> Is(m, m.a[ea.r])
        [] ea.mode = "post" -> Is([m EXCEPT !.a[ea.r] = Wrap(@ + Step(ea, s))], m.a[ea.r])
        [] ea.mode = "pre" -> LET addr == Wrap(m.a[ea.r] - Step(ea, s)) IN Is([m EXCEPT !.a[ea.r] = addr], addr)
        [] ea.mode = "disp" -> Is(w, m.a[ea.r] + Signed(ea.x, Word))
        [] ea.mode = "index" -> Is(w, m.a[ea.r] + IndexOf(m, ea))
        [] ea.mode = "abs.w" -> Is(w, sext(ea.x, Word))
        [] ea.mode = "abs.l" -> Is(read_iword(w), ea.x)
        [] ea.mode = "pc" -> Is(w, m.pc + Signed(ea.x, Word))
        [] ea.mode = "pc index" -> Is(w, m.pc + IndexOf(m, ea))
        [] ea.mode = "imm" -> Is(IF s = Long THEN read_iword(w) ELSE w, Cut(ea.x, s))

Get(e, ea, s) == IF IsValue(ea) THEN e ELSE ReadMem(e.m, e.val, s)

read_ea(m, ea, s) == Get(handle_ea(m, ea, s), ea, s)

write_ea(e, ea, v, s) ==
  CASE ea.mode = "Dn" -> [e.m EXCEPT !.d[ea.r] = Written(@, v, s)]
    [] ea.mode = "An" -> [e.m EXCEPT !.a[ea.r] = Written(@, v, s)]
    [] OTHER -> WriteMem(e.m, e.val, v, s)

(* step's handler of address errors, of the operand that was calculated     *)
(* last                                                                     *)
Caught(m, e, ea, s) ==
  CASE ea.mode = "post" /\ e.val = m.odd -> [m EXCEPT !.a[ea.r] = Wrap(@ - Bytes(s))]
    [] ea.mode \in {"disp", "index", "pc", "pc index"} -> [m EXCEPT !.pc = Wrap(@ - 2)]
    [] ea.mode = "abs.w" /\ e.val # m.odd -> [m EXCEPT !.pc = Wrap(@ - 2)]
    [] ea.mode = "abs.l" /\ e.val # m.odd -> [m EXCEPT !.pc = Wrap(@ - 4)]
    [] OTHER -> m

-----------------------------------------------------------------------------
Push(m, v, s) ==
  LET n == [m EXCEPT !.a[7] = Wrap(@ - Bytes(s))] IN WriteMem(n, n.a[7], v, s)

Pop(m, s) ==
  LET e == ReadMem(m, m.a[7], s)
  IN  IF e.m.odd # NoFault THEN e ELSE [e EXCEPT !.m.a[7] = Wrap(@ + Bytes(s))]

Move(m, src, dst, s) ==
  LET from == handle_ea(m, src, s)
      v == Get(from, src, s)
      to == handle_ea(v.m, dst, s)
      n == write_ea(to, dst, v.val, s)
  IN  IF v.m.odd # NoFault THEN Caught(v.m, from, src, s)
      ELSE IF n.odd # NoFault THEN Caught(n, to, dst, s)
      ELSE [n EXCEPT !.ccr = MOVE(s, v.val, 0, @).ccr]

Movea(m, src, s) ==
  LET from == handle_ea(m, src, s)  v == Get(from, src, s)
  IN  IF v.m.odd # NoFault THEN Caught(v.m, from, src, s) ELSE [v.m EXCEPT !.a[0] = sext(v.val, s)]

Moveq(m, x) == LET v == sext(x, Byte) IN [m EXCEPT !.d[0] = v, !.ccr = MOVE(Long, v, 0, @).ccr]

Lea(m, ea) == LET e == handle_ea(m, ea, Long) IN [e.m EXCEPT !.a[0] = e.val]
Pea(m, ea) == LET e == handle_ea(m, ea, Long) IN Push(e.m, e.val, Long)
Exg(m) == [m EXCEPT !.d[1] = m.a[0], !.a[0] = m.d[1]]
Scc(m) == [m EXCEPT !.d[0] = Written(@, IF m.ccr.z THEN 2^Byte - 1 ELSE 0, Byte)]

(* LINK and UNLK of A1 *)
Link(m, x) ==
  LET n == Push(read_iword(m), m.a[1], Long)
  IN  [n EXCEPT !.a[1] = n.a[7], !.a[7] = Wrap(@ + sext(x, Word))]
Unlk(m) == LET e == Pop([m EXCEPT !.a[7] = m.a[1]], Long) IN [e.m EXCEPT !.a[1] = e.val]

Registers == <<"d0", "d1", "a0", "a1", "a7">>
Number(r) == CASE r \in {"d0", "a0"} -> 0 [] r \in {"d1", "a1"} -> 1 [] OTHER -> 7
IsData(r) == r \in {"d0", "d1"}
Value(m, r) == IF IsData(r) THEN m.d[Number(r)] ELSE m.a[Number(r)]
Listed(list) == SelectSeq(Registers, LAMBDA r : r \in list)

(* The first register has the lowest address, also when they are written    *)
(* from the last to the first                                               *)
MovemTo(m, list, s) ==
  LET Out(st, r) == LET addr == Wrap(st.addr - Bytes(s))
                    IN  [m |-> WriteMem(st.m, addr, Value(m, r), s), addr |-> addr]
      end == FoldLeft(Out, [m |-> read_iword(m), addr |-> m.a[7]], Reverse(Listed(list)))
  IN  [end.m EXCEPT !.a[7] = end.addr]

(* The address register is the last to change; an error of the first access *)
(* leaves all as it was                                                     *)
MovemFrom(m, base, list, s) ==
  LET In(st, r) == LET v == sext(ReadMem(st.m, st.addr, s).val, s)
                   IN  [m |-> IF IsData(r) THEN [st.m EXCEPT !.d[Number(r)] = v] ELSE [st.m EXCEPT !.a[Number(r)] = v],
                        addr |-> Wrap(st.addr + Bytes(s))]
      end == FoldLeft(In, [m |-> read_iword(m), addr |-> m.a[base]], Listed(list))
  IN  IF Odd(m.a[base], s) THEN [read_iword(m) EXCEPT !.odd = m.a[base]]
      ELSE [end.m EXCEPT !.a[base] = end.addr]

(* Every other byte *)
MovepTo(m, ea, s) ==
  LET e == handle_ea(m, ea, s)
  IN  FoldLeft(LAMBDA n, k : WriteMem(n, Wrap(e.val + 2 * (k - 1)), ByteOf(m.d[0], k - 1, s), Byte),
               e.m, [k \in 1 .. Bytes(s) |-> k])
MovepFrom(m, ea, s) ==
  LET e == handle_ea(m, ea, s)
      v == MapThenSumSet(LAMBDA k : m.mem[Wrap(e.val + 2 * k)] * 2^(s - (Byte * (k + 1))), 0 .. Bytes(s) - 1)
  IN  [e.m EXCEPT !.d[0] = Written(@, v, s)]

(* The flags in the status register *)
Place == [x |-> 4, n |-> 3, z |-> 2, v |-> 1, c |-> 0]
Status(m) == BitSum({Place[f] : f \in {g \in Flags : m.ccr[g]}})
MoveSr(m, dst) == write_ea(handle_ea(m, dst, Word), dst, Status(m), Word)

Jsr(m, ea) == LET e == handle_ea(m, ea, Long) IN [Push(e.m, e.m.pc, Long) EXCEPT !.pc = e.val]
Rtr(m) ==
  LET f == Pop(m, Word)  p == Pop(f.m, Long)
  IN  [p.m EXCEPT !.pc = p.val, !.ccr = [g \in Flags |-> Bit(f.val, Place[g])]]

(* Bits of a register are counted to 32, those of a byte to 8 *)
BitOperand(ea) == IF ea.mode = "Dn" THEN Long ELSE Byte
BitOp(m, op, number, ea) ==
  LET s == BitOperand(ea)
      e == handle_ea(read_iword(m), ea, s)
      v == Get(e, ea, s).val
      bit == number % s
      without == v - (IF Bit(v, bit) THEN 2^bit ELSE 0)
      n == [e.m EXCEPT !.ccr.z = ~Bit(v, bit)]
      Becomes(x) == write_ea([e EXCEPT !.m = n], ea, x, s)
  IN  CASE op = "BTST" -> n
        [] op = "BCLR" -> Becomes(without)
        [] op = "BSET" -> Becomes(without + 2^bit)
        [] op = "BCHG" -> Becomes(IF Bit(v, bit) THEN without ELSE without + 2^bit)

Tas(m, ea) ==
  LET e == handle_ea(m, ea, Byte)
      v == Get(e, ea, Byte).val
      set == IF Msb(v, Byte) THEN v ELSE v + 2^(Byte - 1)
  IN  write_ea([e EXCEPT !.m.ccr = MOVE(Byte, v, 0, @).ccr], ea, set, Byte)

(* Back to the loop's start, unless the count has run out *)
Dbf(m, start) ==
  LET count == Cut(m.d[0] - 1, Word)
      n == [read_iword(m) EXCEPT !.d[0] = Written(@, count, Word)]
  IN  IF count # 2^Word - 1 THEN [n EXCEPT !.pc = start] ELSE n

-----------------------------------------------------------------------------
(* Ways to name an address: the distance from a base must fit the operand;  *)
(* nothing is written through the pc                                        *)
Fits(x, s) == sext(Cut(x, s), s) = Wrap(x)
Way(mode, r, x) == IF Fits(x, Word) THEN {Ea(mode, r, Cut(x, Word))} ELSE {}
IndexWays(m, mode, x) ==
  {Indexed(mode, Cut(x - Register(m, long), Byte), long) : long \in {l \in BOOLEAN : Fits(x - Register(m, l), Byte)}}

Names(m, addr) ==
  (IF m.a[0] = addr THEN {Ea("ind", 0, 0)} ELSE {})
  \cup Way("disp", 0, addr - m.a[0]) \cup Way("pc", 0, addr - m.pc)
  \cup (IF Fits(addr, Word) THEN {Ea("abs.w", 0, Cut(addr, Word))} ELSE {Ea("abs.l", 0, addr)})
  \cup IndexWays(m, "index", addr - m.a[0]) \cup IndexWays(m, "pc index", addr - m.pc)
Alterable(m, addr) == {ea \in Names(m, addr) : ea.mode \notin {"pc", "pc index"}}

(* step fetches the instruction *)
Fetched == read_iword(cpu)

Running == cpu.odd = NoFault /\ steps < MaxSteps

OnTop(ops) == open # None /\ Last(open).op \in ops
NoneInside == {"bits", "tas", "loop"}
ScratchFree == \A i \in DOMAIN open : open[i].op \notin {"store", "movep"} \cup NoneInside

Save(bracket, m) ==
  /\ Running /\ Len(open) < MaxOpen /\ ~OnTop(NoneInside)
  /\ cpu' = m /\ open' = Append(open, [was |-> cpu] @@ bracket)
  /\ closed' = None /\ work' = None /\ steps' = steps + 1

TakeBack(op, m) ==
  /\ OnTop({op}) /\ cpu.odd = NoFault
  /\ cpu' = m /\ open' = Front(open) /\ closed' = <<Last(open)>> /\ work' = None /\ UNCHANGED steps

Top == Last(open)

SaveMove == \E s \in {Byte, Word, Long} :
  Save([op |-> "move", s |-> s], Move(Fetched, Ea("Dn", 0, 0), Ea("pre", 7, 0), s))
RestoreMove == OnTop({"move"}) /\ TakeBack("move", Move(Fetched, Ea("post", 7, 0), Ea("Dn", 0, 0), Top.s))

SaveMovem == \E how \in {[s |-> Word, list |-> {"d0", "a0"}], [s |-> Long, list |-> {"d0", "d1"}],
                         [s |-> Long, list |-> {"d1", "a0", "a1"}], [s |-> Long, list |-> {"d0", "a0", "a7"}]} :
  Save([op |-> "movem"] @@ how, MovemTo(Fetched, how.list, how.s))
RestoreMovem == OnTop({"movem"}) /\ TakeBack("movem", MovemFrom(Fetched, 7, Top.list, Top.s))

SaveLink == \E x \in {0, 2^Word - 2} : Save([op |-> "link"], Link(Fetched, x))
RestoreLink == TakeBack("link", Unlk(Fetched))

SaveStore == \E addr \in Scratch :
  /\ ScratchFree
  /\ \E ea \in Alterable(Fetched, addr) : Save([op |-> "store", addr |-> addr], Move(Fetched, Ea("Dn", 0, 0), ea, Long))
RestoreStore ==
  /\ OnTop({"store"})
  /\ \E ea \in Names(Fetched, Top.addr) : TakeBack("store", Move(Fetched, ea, Ea("Dn", 0, 0), Long))

Displaced(m, addr) == Way("disp", 0, addr - m.a[0])

SaveMovep == \E addr \in Scratch, s \in {Word, Long}, odd \in {0, 1} :
  /\ ScratchFree
  /\ \E ea \in Displaced(Fetched, addr + odd) : Save([op |-> "movep", s |-> s, addr |-> addr + odd], MovepTo(Fetched, ea, s))
RestoreMovep ==
  /\ OnTop({"movep"})
  /\ \E ea \in Displaced(Fetched, Top.addr) : TakeBack("movep", MovepFrom(Fetched, ea, Top.s))

(* A subroutine that saves the flags and restores them as it returns *)
Call == \E addr \in Scratch : \E ea \in Names(Fetched, addr) :
  Save([op |-> "call", next |-> handle_ea(Fetched, ea, Long).m.pc], Jsr(Fetched, ea))
SaveStatus == OnTop({"call"}) /\ Save([op |-> "status"], MoveSr(Fetched, Ea("pre", 7, 0)))
Return ==
  /\ OnTop({"status"}) /\ cpu.odd = NoFault
  /\ cpu' = Rtr(Fetched) /\ open' = Front(Front(open))
  /\ closed' = <<[op |-> "return", was |-> Last(Front(open)).was, next |-> Last(Front(open)).next, ccr |-> Top.was.ccr]>>
  /\ work' = None /\ UNCHANGED steps

SavePea == \E addr \in Scratch : \E ea \in Names(Fetched, addr) :
  Save([op |-> "pea", addr |-> addr], Pea(Fetched, ea))
RestorePea == TakeBack("pea", Movea(Fetched, Ea("post", 7, 0), Long))

BitOperands(m, addr) == Alterable(read_iword(m), addr) \cup {Ea("Dn", 1, 0)}
ChangeBit == \E addr \in Scratch, op \in {"BCHG", "BSET", "BCLR"}, number \in {Long + 1} :
  /\ ScratchFree
  /\ \E ea \in BitOperands(Fetched, addr) :
       LET n == BitOp(Fetched, op, number, ea)
       IN  Save([op |-> "bits", by |-> op, number |-> number, ea |-> ea, addr |-> addr, z |-> n.ccr.z], n)
TestBit ==
  /\ OnTop({"bits"})
  /\ \E ea \in IF Top.ea.mode = "Dn" THEN {Top.ea} ELSE Alterable(read_iword(Fetched), Top.addr) :
       TakeBack("bits", BitOp(Fetched, IF Top.by = "BCHG" THEN "BCHG" ELSE "BTST", Top.number, ea))

Lock == \E addr \in Scratch :
  /\ ScratchFree
  /\ \E ea \in Alterable(Fetched, addr) : Save([op |-> "tas", ea |-> Ea("abs.l", 0, addr)], Tas(Fetched, ea))
LockAgain == OnTop({"tas"}) /\ TakeBack("tas", Tas(Fetched, Top.ea))

LoopStart == \E n \in {0, 2} :
  Save([op |-> "loop", count |-> n, passes |-> 0, start |-> cpu.pc], Move(Fetched, Ea("imm", 0, n), Ea("Dn", 0, 0), Word))
LoopEnd ==
  /\ OnTop({"loop"})
  /\ LET n == Dbf(Fetched, Top.start)
         b == [Top EXCEPT !.passes = @ + 1]
     IN  /\ cpu' = n /\ work' = None /\ UNCHANGED steps
         /\ IF n.pc = Top.start THEN open' = Append(Front(open), b) /\ closed' = None
            ELSE open' = Front(open) /\ closed' = <<b>>

(* What the program does in between, an access that fails included *)
Reaches(addr, s) == \A k \in 0 .. Bytes(s) - 1 : Wrap(addr + k) \in Memory

Works ==
  {Moveq(Fetched, x) : x \in {1, 2^Byte - 1}}
  \cup {Movea(Fetched, Ea("imm", 0, x), Word) : x \in {5, 2^Word - 8}}
  \cup UNION {{Lea(Fetched, ea) : ea \in Names(Fetched, addr)} : addr \in Scratch}
  \cup {Exg(Fetched), Scc(Fetched)}
  \cup {Move(Fetched, Ea("post", 0, 0), Ea("Dn", 1, 0), s) :
           s \in {t \in {Byte, Word, Long} : Reaches(cpu.a[0], t)}}
  \cup {Move(Fetched, Ea("pre", 0, 0), Ea("Dn", 1, 0), s) :
           s \in {t \in {Word, Long} : Reaches(cpu.a[0] - Bytes(t), t)}}
  \cup {Move(Fetched, Ea("Dn", 0, 0), Ea("post", 0, 0), s) : s \in {t \in {Word, Long} : Odd(cpu.a[0], t)}}
  \cup {MovemFrom(Fetched, 0, {"d0", "d1"}, s) : s \in {t \in {Word, Long} : Reaches(cpu.a[0], 3 * t)}}

Work ==
  /\ Running /\ ~OnTop(NoneInside)
  /\ cpu' \in Works /\ work' = <<cpu>> /\ closed' = None /\ steps' = steps + 1 /\ UNCHANGED open

-----------------------------------------------------------------------------
OperandsInit ==
  /\ \E d0, d1 \in Contents :
       cpu = [d |-> 0 :> d0 @@ 1 :> d1, a |-> 0 :> 0 @@ 1 :> 0 @@ 7 :> Stack, mem |-> [x \in Memory |-> 0],
              ccr |-> [NoFlags EXCEPT !.z = TRUE], pc |-> 0, odd |-> NoFault]
  /\ open = None /\ closed = None /\ work = None /\ steps = 0

OperandsNext ==
  \/ SaveMove \/ RestoreMove \/ SaveMovem \/ RestoreMovem \/ SaveLink \/ RestoreLink
  \/ SaveStore \/ RestoreStore \/ SaveMovep \/ RestoreMovep \/ SaveStatus \/ Call \/ Return
  \/ SavePea \/ RestorePea \/ ChangeBit \/ TestBit \/ Lock \/ LockAgain \/ LoopStart \/ LoopEnd \/ Work

-----------------------------------------------------------------------------
(***************************************************************************)
(* What was saved is back, whatever was done between, by whichever way it  *)
(* is named, and the stack is where it was.                                *)
(***************************************************************************)
IsBack(b, m) ==
  LET was == b.was IN
  /\ m.a[7] = was.a[7]
  /\ CASE b.op \in {"move", "movep"} -> Cut(m.d[0], b.s) = Cut(was.d[0], b.s)
       [] b.op = "store" -> m.d[0] = was.d[0]
       [] b.op = "movem" -> \A r \in b.list : Value(m, r) = IF r = "a7" THEN was.a[7] ELSE sext(Value(was, r), b.s)
       [] b.op = "link" -> m.a[1] = was.a[1]
       [] b.op = "return" -> m.pc = b.next /\ m.ccr = b.ccr
       [] b.op = "pea" -> m.a[0] = b.addr
       [] b.op = "bits" -> /\ m.ccr.z = CASE b.by = "BCHG" -> ~b.z [] b.by = "BSET" -> FALSE [] b.by = "BCLR" -> TRUE
                           /\ (b.by = "BCHG") => m.mem = was.mem /\ m.d = was.d
       [] b.op = "tas" -> m.ccr.n /\ ~m.ccr.z
       [] b.op = "loop" -> b.passes = b.count + 1 /\ Cut(m.d[0], Word) = 2^Word - 1
                           /\ m.d[0] \div 2^Word = was.d[0] \div 2^Word

SavedComesBack == \A i \in DOMAIN closed : IsBack(closed[i], cpu)

StackStaysEven == cpu.a[7] % 2 = 0

(***************************************************************************)
(* An instruction that fails has changed nothing, but for an address       *)
(* register that was counted down.                                         *)
(***************************************************************************)
FaultsChangeNothing ==
  (cpu.odd # NoFault) =>
    /\ work # None /\ cpu.mem = work[1].mem /\ cpu.d = work[1].d /\ cpu.ccr = work[1].ccr
    /\ \A r \in {0, 1, 7} : cpu.a[r] \in {work[1].a[r], cpu.odd}

OperandsAreRight == SavedComesBack /\ StackStaysEven /\ FaultsChangeNothing
=============================================================================
