-------------------------------- MODULE Asm --------------------------------
(***************************************************************************)
(* The assembler (asm.cpp) reads a program once, a statement at a time: a  *)
(* name used before it has a value leaves a fixup with the name and a      *)
(* pending value at the offset in the result, the name's definition adds   *)
(* to the pending values, and the end of the program writes them.          *)
(*                                                                         *)
(* A statement is a record, with expressions instead of tokens; the result *)
(* is the values in it by their offset.  Which opcode word an instruction  *)
(* has, and which operands it allows, is left out.                         *)
(***************************************************************************)
EXTENDS Integers, Sequences, SequencesExt

CONSTANTS
  Statements,     (* those a program may have                              *)
  MaxStatements,
  ByteMax,        (* 127: range8 is -128 .. 127                            *)
  WordMax,        (* 32767: range16                                        *)
  Locals          (* names that begin with a dot                           *)

VARIABLES
  program, next,  (* the statements, and the one to be read                *)
  pc, length,     (* pc_, result_.size()                                   *)
  result,         (* what result_ has at an offset, and, as a history,     *)
                  (* what was asked for there                              *)
  identifiers,    (* identifier_info_                                      *)
  pending,        (* pending_fixups_                                       *)
  conds, last_global,
  status          (* "reading", "done", "error" (thrown), "aborted"        *)

asm_vars == <<program, next, pc, length, result, identifiers, pending, conds, last_global, status>>

(* An expression: a number, and names added to it or subtracted from it *)
Terms(expr) == DOMAIN expr.terms

-----------------------------------------------------------------------------
(* make_identifier: a local name belongs to the global label before it *)
Full(name) == IF name \in Locals THEN <<last_global, name>> ELSE <<name, "">>
HasValue(id) == id \in DOMAIN identifiers /\ identifiers[id].has_value
Signed(negate, value) == IF negate THEN -value ELSE value

(* The names an expression has no value for yet, and the sum of the rest *)
Unknown(expr) == SelectSeq([i \in Terms(expr) |-> [id |-> Full(expr.terms[i].name), negate |-> expr.terms[i].negate]],
                           LAMBDA t : ~HasValue(t.id))
process_number(expr) ==
  FoldLeft(LAMBDA sum, t : IF HasValue(Full(t.name))
                           THEN sum + Signed(t.negate, identifiers[Full(t.name)].value) ELSE sum,
           expr.base, expr.terms)
Constant(expr) == Unknown(expr) = <<>>

(* A local name where no global label has been fails *)
Nameable(expr) == \A i \in Terms(expr) : expr.terms[i].name \in Locals => last_global # ""

-----------------------------------------------------------------------------
(* A field of an operand or of data: its size, offset from the statement's, *)
(* use and value; some uses are relative to the program counter, which the  *)
(* assembler takes to be two behind the instruction.  What is wanted there, *)
(* and which names were unknown, are the history the promise is about.      *)
RelativeUses == {"branch", "dbcc", "pc", "pcindex", "movem"}
Field(size, offset, expr, use) ==
  [size |-> size, offset |-> length + offset, use |-> use, unknown |-> Unknown(expr), start |-> pc,
   extension |-> pc + offset,
   value |-> process_number(expr) - (IF use \in RelativeUses THEN pc + 2 ELSE 0),
   wanted |-> [base |-> expr.base,
               terms |-> [i \in Terms(expr) |-> [id |-> Full(expr.terms[i].name), negate |-> expr.terms[i].negate]]]]

(* Mutant: the pending value of a displacement is not relative to anything *)
FieldFromZero(size, offset, expr, use) ==
  [Field(size, offset, expr, use) EXCEPT !.value = IF Unknown(expr) = <<>> THEN @ ELSE process_number(expr)]

FieldAt(size, offset, expr, use) == Field(size, offset, expr, use)

InRange(size, value) ==
  CASE size = "b" -> value \in -ByteMax - 1 .. ByteMax [] size = "w" -> value \in -WordMax - 1 .. WordMax [] OTHER -> TRUE
Modulus(size) == CASE size = "b" -> 2 * (ByteMax + 1) [] size = "w" -> 2 * (WordMax + 1) [] OTHER -> 8 * (WordMax + 1) * (WordMax + 1)
Bytes(size) == CASE size = "b" -> 1 [] size = "w" -> 2 [] OTHER -> 4

(* add_fixups: each name gets the fixups of a field, in a byte at an odd    *)
(* offset or in a word or long at an even one (an assertion)                *)
Placed(field) == field.unknown # <<>> => (field.offset % 2 = 1) = (field.size = "b")
NoValue == [has_value |-> FALSE, value |-> 0, fixups |-> <<>>]
Refer(ids, field) ==
  FoldLeft(LAMBDA all, t :
             LET info == IF t.id \in DOMAIN all THEN all[t.id] ELSE NoValue
                 more == [info EXCEPT !.fixups = Append(@, [size |-> field.size, negate |-> t.negate, offset |-> field.offset])]
             IN  [id \in DOMAIN all \cup {t.id} |-> IF id = t.id THEN more ELSE all[id]],
           ids, field.unknown)

(* A statement's fields go into the result, "bytes" of it all in all *)
Emit(fields, bytes) ==
  LET at(o) == CHOOSE i \in DOMAIN fields : fields[i].offset = o
      offsets == {fields[i].offset : i \in DOMAIN fields}
      open == {fields[i].offset : i \in {j \in DOMAIN fields : fields[j].unknown # <<>>}}
  IN  IF \A i \in DOMAIN fields : Placed(fields[i])
      THEN /\ result' = [o \in DOMAIN result \cup offsets |-> IF o \in offsets THEN fields[at(o)] ELSE result[o]]
           /\ pending' = [o \in DOMAIN pending \cup open |->
                            IF o \in open THEN [size |-> fields[at(o)].size, value |-> fields[at(o)].value] ELSE pending[o]]
           /\ identifiers' = FoldLeft(Refer, identifiers, fields)
           /\ pc' = pc + bytes /\ length' = length + bytes
           /\ UNCHANGED <<conds, last_global, status>>
      ELSE status' = "aborted" /\ UNCHANGED <<pc, length, result, identifiers, pending, conds, last_global>>

Fail == status' = "error" /\ UNCHANGED <<pc, length, result, identifiers, pending, conds, last_global>>

-----------------------------------------------------------------------------
(* Definitions.  A label's value is added to what waits for it *)
Add(field, fixup, value) == [field EXCEPT !.value = @ + Signed(fixup.negate, value)]

Label(name) ==
  LET id == Full(name)
      info == IF id \in DOMAIN identifiers THEN identifiers[id] ELSE NoValue
  IN  IF info.has_value \/ id[1] = "" THEN Fail
      ELSE /\ identifiers' = [i \in DOMAIN identifiers \cup {id} |->
                                IF i = id THEN [has_value |-> TRUE, value |-> pc, fixups |-> <<>>] ELSE identifiers[i]]
           /\ pending' = FoldLeft(LAMBDA all, f : [all EXCEPT ![f.offset] = Add(@, f, pc)], pending, info.fixups)
           /\ last_global' = IF name \in Locals THEN last_global ELSE name
           /\ UNCHANGED <<pc, length, result, conds, status>>

(* A name's own value is 0 in its expression *)
Equ(name, expr) ==
  LET id == Full(name)
      own == {i \in Terms(expr) : Full(expr.terms[i].name) = id}
      others == [expr EXCEPT !.terms = SelectSeq(@, LAMBDA t : Full(t.name) # id)]
  IN  IF \/ id \in DOMAIN identifiers /\ (identifiers[id].has_value \/ identifiers[id].fixups # <<>>)
         \/ id[1] = "" \/ ~Nameable(expr) \/ ~Constant(others)
      THEN Fail
      ELSE /\ identifiers' = [i \in DOMAIN identifiers \cup {id} |->
                                IF i = id THEN [has_value |-> TRUE, value |-> process_number(others), fixups |-> <<>>]
                                ELSE identifiers[i]]
           /\ UNCHANGED <<pc, length, result, pending, conds, last_global, status>>

-----------------------------------------------------------------------------
(* Data and instructions *)
Dc(size, expr) == IF Nameable(expr) THEN Emit(<<FieldAt(size, 0, expr, "data")>>, Bytes(size)) ELSE Fail
Even == Emit(<<>>, pc % 2)

Org(expr) ==
  IF Nameable(expr) /\ Constant(expr)
  THEN pc' = process_number(expr) /\ UNCHANGED <<length, result, identifiers, pending, conds, last_global, status>>
  ELSE Fail

(* A displacement known to fit is a byte unless a word is asked for *)
handle_disp_bw(size, expr) ==
  LET disp == process_number(expr) - (pc + 2)
      short == disp # 0 /\ InRange("b", disp)
  IN  IF ~Constant(expr) THEN (IF size = "b" THEN "b" ELSE "w")
      ELSE IF short THEN (IF size = "w" THEN "w" ELSE "b")
      ELSE IF size = "b" \/ ~InRange("w", disp) THEN "none" ELSE "w"

Branch(size, expr) ==
  LET used == handle_disp_bw(size, expr)
  IN  IF ~Nameable(expr) \/ used = "none" THEN Fail
      ELSE IF used = "b" THEN Emit(<<FieldAt("b", 1, expr, "branch")>>, 2)
      ELSE Emit(<<FieldAt("w", 2, expr, "branch")>>, 4)

Dbcc(expr) ==
  IF Nameable(expr) /\ (Constant(expr) => InRange("w", process_number(expr) - (pc + 2)))
  THEN Emit(<<FieldAt("w", 2, expr, "dbcc")>>, 4) ELSE Fail

(* An operand's extension words: those before it, in bytes, are "before" *)
OperandSize(mode, size) ==
  CASE mode = "imm" -> size [] mode = "abs.l" -> "l" [] mode = "pcindex" -> "b" [] OTHER -> "w"
OperandBytes(operand, size) == IF OperandSize(operand.mode, size) = "l" THEN 4 ELSE 2
OperandField(operand, size, before) ==
  LET s == OperandSize(operand.mode, size)
  IN  FieldAt(s, before + (IF s = "b" THEN 1 ELSE 0), operand.expr, operand.mode)
OperandFits(operand) ==
  /\ Nameable(operand.expr)
  /\ (operand.mode = "abs.w") => InRange("w", process_number(operand.expr))
  /\ (operand.mode = "disp" /\ Constant(operand.expr)) => InRange("w", process_number(operand.expr))
  /\ (operand.mode = "pcindex" /\ Constant(operand.expr)) => InRange("b", process_number(operand.expr) - (pc + 2))

Instruction(size, operands) ==
  LET before[i \in 1 .. Len(operands) + 1] == IF i = 1 THEN 2 ELSE before[i - 1] + OperandBytes(operands[i - 1], size)
  IN  IF pc % 2 = 1 \/ \E i \in DOMAIN operands : ~OperandFits(operands[i]) THEN Fail
      ELSE Emit([i \in DOMAIN operands |-> OperandField(operands[i], size, before[i])], before[Len(operands) + 1])

(* MOVEM from an operand relative to the program counter has its register  *)
(* mask first: the value is two less, but not the one a fixup adds to       *)
Movem(expr) ==
  LET field == FieldAt("w", 4, expr, "movem")
  IN  IF pc % 2 = 1 \/ ~Nameable(expr) THEN Fail
      ELSE Emit(<<IF Constant(expr) THEN [field EXCEPT !.value = @ - 2] ELSE field>>, 6)

-----------------------------------------------------------------------------
(* Conditional blocks *)
InDisabledBlock == conds # <<>> /\ ~conds[Len(conds)].active

If(holds, expr) ==
  IF \/ ~Nameable(expr) \/ ~Constant(expr)
     \/ InDisabledBlock /\ \E i \in Terms(expr) : expr.terms[i].name \in Locals
  THEN Fail
  ELSE LET active == ~InDisabledBlock /\ (process_number(expr) = 0) = holds
       IN  /\ conds' = Append(conds, [active |-> active, was_active |-> InDisabledBlock \/ active, else_seen |-> FALSE])
           /\ UNCHANGED <<pc, length, result, identifiers, pending, last_global, status>>

Else ==
  IF conds = <<>> \/ conds[Len(conds)].else_seen THEN Fail
  ELSE /\ conds' = [conds EXCEPT ![Len(conds)] = [active |-> ~@.was_active, was_active |-> TRUE, else_seen |-> TRUE]]
       /\ UNCHANGED <<pc, length, result, identifiers, pending, last_global, status>>

Endc ==
  IF conds = <<>> THEN Fail
  ELSE conds' = Front(conds) /\ UNCHANGED <<pc, length, result, identifiers, pending, last_global, status>>

-----------------------------------------------------------------------------
Statement(s) ==
  CASE s.kind = "if" -> If(s.holds, s.expr)
    [] s.kind = "else" -> Else
    [] s.kind = "endc" -> Endc
    [] s.kind \notin {"if", "else", "endc"} /\ InDisabledBlock ->
         UNCHANGED <<pc, length, result, identifiers, pending, conds, last_global, status>>
    [] s.kind = "label" /\ ~InDisabledBlock -> Label(s.name)
    [] s.kind = "equ" /\ ~InDisabledBlock -> Equ(s.name, s.expr)
    [] s.kind = "dc" /\ ~InDisabledBlock -> Dc(s.size, s.expr)
    [] s.kind = "even" /\ ~InDisabledBlock -> Even
    [] s.kind = "org" /\ ~InDisabledBlock -> Org(s.expr)
    [] s.kind = "movem" /\ ~InDisabledBlock -> Movem(s.expr)
    [] s.kind = "inst" /\ ~InDisabledBlock -> Instruction(s.size, s.operands)
    [] s.kind = "branch" /\ ~InDisabledBlock -> IF pc % 2 = 1 THEN Fail ELSE Branch(s.size, s.expr)
    [] s.kind = "dbcc" /\ ~InDisabledBlock -> IF pc % 2 = 1 THEN Fail ELSE Dbcc(s.expr)

(* The end: every name has its value, every pending value fits its field *)
FixupFits(o) == /\ InRange(pending[o].size, pending[o].value)
                /\ ~(pending[o].size = "b" /\ pending[o].value = 0 /\ result[o].use = "branch")
Apply ==
  IF \/ \E id \in DOMAIN identifiers : ~identifiers[id].has_value
     \/ \E o \in DOMAIN pending : ~FixupFits(o)
     \/ conds # <<>>
  THEN Fail
  ELSE /\ result' = [o \in DOMAIN result |-> IF o \in DOMAIN pending THEN [result[o] EXCEPT !.value = pending[o].value]
                                             ELSE result[o]]
       /\ status' = "done"
       /\ UNCHANGED <<pc, length, identifiers, pending, conds, last_global>>
-----------------------------------------------------------------------------
AsmInit ==
  /\ program \in BoundedSeq(Statements, MaxStatements)
  /\ next = 1 /\ pc = 0 /\ length = 0 /\ result = <<>> /\ identifiers = <<>> /\ pending = <<>>
  /\ conds = <<>> /\ last_global = "" /\ status = "reading"

process ==
  /\ status = "reading" /\ UNCHANGED program
  /\ IF next <= Len(program)
     THEN next' = next + 1 /\ Statement(program[next])
     ELSE UNCHANGED next /\ Apply

-----------------------------------------------------------------------------
Meant(field) ==
  FoldLeft(LAMBDA sum, t : sum + Signed(t.negate, identifiers[t.id].value), field.wanted.base, field.wanted.terms)

(* The processor's program counter when it gets to a field, less the field's *)
(* own offset in an extension word                                           *)
From(field) == IF field.size = "b" /\ field.use = "branch" THEN field.extension + 1
               ELSE field.extension - (field.extension % 2)

(* A PC-relative operand behind another extension word, which the assembler *)
(* only gets right in MOVEM, if its names are known                         *)
Behind(field) == field.use \in {"pc", "pcindex", "movem"} /\ From(field) # field.start + 2
                          /\ (field.use = "movem" => field.unknown # <<>>)

(***************************************************************************)
(* In a program that is assembled, whichever of its names were known where *)
(* they were used, each value is the one meant once all names have theirs, *)
(* modulo its size, relative to where the processor's program counter is.  *)
(* A TRAP with a name that is not known yet drops its fixup (asm.cpp 1533  *)
(* to 1539) and is no statement of the model.                              *)
(***************************************************************************)
Assembled ==
  status = "done" =>
    \A o \in DOMAIN result :
      LET field == result[o]
          relative == IF field.use \in RelativeUses THEN From(field) ELSE 0
      IN  ~Behind(field) => (field.value - (Meant(field) - relative)) % Modulus(field.size) = 0
=============================================================================
