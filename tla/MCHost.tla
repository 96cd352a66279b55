------------------------------- MODULE MCHost ------------------------------
(* The CPU and the programs around the machine: the control of the CPU,    *)
(* its arithmetic, disk images, the serial text, the assembler and so on.  *)
(* None changes the state of another, so a behaviour is one of a single    *)
(* part, and the others do not exist in it.                                *)
EXTENDS MainLoop, BusSync, WaveOut, DebugPrompt, Serial, Cpu, Hunks, TLC

CONSTANT Sizes     (* of files on a disk image; {0, 8}: of whole blocks    *)

VARIABLES
  part,
  program, src, reg, ccr, before, done,
  disk, files, dirs,
  source, next, asm_pc, length, result, identifiers, pending, conds, last_global, status,
  image, info, phase, more, at, regs, roots, visited, labels, saved_pointers, informed, pos, data, shown,
  blen, only, calls, char, len, bit, codeword, avail, tbl, child, making, word, decoded,
  crunchmode, hdr, tracks, text, text_loc, output, past, res, refused, wanted,
  mpu, saved, restored, worked, steps,
  coding, code_words, reading

arithmetic == <<program, src, reg, ccr, before, done>>
adf == <<disk, files, dirs>>
assembler == <<source, next, asm_pc, length, result, identifiers, pending, conds, last_global, status>>
analyzer == <<image, info, phase, more, at, regs, roots, visited, labels, saved_pointers, informed, pos, data, shown>>
codes == <<blen, only, calls, char, len, bit, codeword, avail, tbl, child, making, word, decoded>>
archive == <<crunchmode, hdr, tracks, text, text_loc, output, past, res, refused, wanted>>
moves == <<mpu, saved, restored, worked, steps>>
coded == <<coding, code_words, reading>>

-----------------------------------------------------------------------------
(* One interrupt level; the vectors of a trap and of it may be odd *)
Sr(t, s, mask) == [t |-> t, s |-> s, mask |-> mask]
MCOddTables == {{}, {"trap", "level 3"}}
MCStatuses == {Sr(FALSE, FALSE, 0), Sr(TRUE, FALSE, 0), Sr(FALSE, TRUE, 3), Sr(TRUE, TRUE, 0)}

(* A long of six bits, a word of three *)
Numbers == INSTANCE Arithmetic WITH Bits <- 6

(* A disk of 18 sectors, two entries in a table, two names with one hash *)
MCHash == [n \in {"a", "b", "c"} |-> IF n = "c" THEN 1 ELSE 0]
Image == INSTANCE Adf WITH
  Sectors <- 18, Root <- 9, TableSize <- 2, BlockBytes <- 2, Hash <- MCHash,
  Paths <- {<<"a">>, <<"b">>, <<"c">>, <<"a", "b">>}

(* Statements that use and define two labels and a local one; a byte may be *)
(* -4 .. 3, a word -16 .. 15                                                *)
Plus(name) == [name |-> name, negate |-> FALSE]
Minus(name) == [name |-> name, negate |-> TRUE]
E(base, terms) == [base |-> base, terms |-> terms]
Operand(mode, expr) == [mode |-> mode, expr |-> expr]
MCStatements == {
  [kind |-> "label", name |-> "a"], [kind |-> "label", name |-> ".x"], [kind |-> "label", name |-> "b"],
  [kind |-> "equ", name |-> "b", expr |-> E(1, <<Plus("a")>>)],
  [kind |-> "dc", size |-> "w", expr |-> E(0, <<Plus("b"), Minus("a")>>)],
  [kind |-> "dc", size |-> "b", expr |-> E(1, <<>>)],
  [kind |-> "dc", size |-> "b", expr |-> E(0, <<Plus("b"), Minus("a")>>)],
  [kind |-> "even"],
  [kind |-> "org", expr |-> E(4, <<>>)],
  [kind |-> "branch", size |-> "none", expr |-> E(0, <<Plus("a")>>)],
  [kind |-> "branch", size |-> "b", expr |-> E(0, <<Plus(".x")>>)],
  [kind |-> "dbcc", expr |-> E(0, <<Plus(".x")>>)],
  [kind |-> "movem", expr |-> E(0, <<Plus("a")>>)],
  [kind |-> "inst", size |-> "b", operands |-> <<Operand("imm", E(0, <<Plus("a")>>)), Operand("abs.l", E(2, <<Plus("b")>>))>>],
  [kind |-> "inst", size |-> "w", operands |-> <<Operand("pcindex", E(0, <<Plus("a")>>)), Operand("disp", E(0, <<Minus("b")>>))>>],
  [kind |-> "inst", size |-> "w", operands |-> <<Operand("imm", E(0, <<>>)), Operand("pc", E(0, <<Plus("a")>>))>>],
  [kind |-> "if", holds |-> TRUE, expr |-> E(0, <<Plus("b")>>)], [kind |-> "if", holds |-> FALSE, expr |-> E(0, <<>>)],
  [kind |-> "else"], [kind |-> "endc"]}
Assembler == INSTANCE Asm WITH
  Statements <- MCStatements, MaxStatements <- 4, ByteMax <- 3, WordMax <- 15, Locals <- {".x"},
  program <- source, pc <- asm_pc

(* Five words behind three vectors, each one of a few instructions; info    *)
(* files that name code, data, a table or a pointer, ignore a part, force a *)
(* register or say that a function calls what a register points to          *)
Branch(to, call, last) == [op |-> "branch", addr |-> to, call |-> call, last |-> last]
Return == [op |-> "return"]
FirstWord == {
  Branch(16, TRUE, FALSE), [op |-> "lea", reg |-> "scratch", addr |-> 18],
  [op |-> "load", reg |-> "kept", addr |-> 20], [op |-> "dbcc", addr |-> 18]}
SecondWord == {Branch(20, FALSE, FALSE), [op |-> "access", addr |-> 19, size |-> 1], Return}
ThirdWord == {
  [op |-> "table", reg |-> "scratch", last |-> TRUE], [op |-> "through", reg |-> "kept", last |-> TRUE],
  [op |-> "store", reg |-> "scratch", addr |-> 8], [op |-> "store", reg |-> "scratch", addr |-> 20]}
FourthWord == {[op |-> "access", addr |-> 14, size |-> 2], Branch(16, TRUE, TRUE), [op |-> "illegal"]}
FifthWord == {Return, [op |-> "jump", addr |-> 18, last |-> FALSE]}
MCImages == {
  [inst |-> 12 :> a @@ 14 :> b @@ 16 :> c @@ 18 :> d @@ 20 :> e, ptr |-> 20 :> p, ofs |-> 18 :> o @@ 20 :> 0] :
  a \in FirstWord, b \in SecondWord, c \in ThirdWord, d \in FourthWord, e \in FifthWord, p \in {14, 18}, o \in {2, -4}}
Entry(addr, kind, size) == [addr |-> addr, type |-> [kind |-> kind, size |-> size]]
InfoFile(predef, ignored, forced, functions) ==
  [predef |-> predef, ignored |-> ignored, forced |-> forced, functions |-> functions]
MCInfos == {
  InfoFile(<<>>, {}, <<>>, <<>>),
  InfoFile(<<Entry(18, "code", 0), Entry(14, "data", 2)>>, {}, <<>>, <<>>),
  InfoFile(<<Entry(18, "table", 4), Entry(12, "code", 0)>>, {}, <<16, "scratch">> :> 20, <<>>),
  InfoFile(<<Entry(20, "ptr", 4)>>, {[beg |-> 14, end |-> 16]}, <<>>, 16 :> "scratch")}
Disassembler == INSTANCE Analyzer WITH Low <- 12, End <- 22, Images <- MCImages, Infos <- MCInfos, TableReach <- 6

(* Tables of two and three hunks, some shorter than they say and one with  *)
(* more than memory holds; sizes in longs                                  *)
Hunk(size, chip) == [size |-> size, chip |-> chip]
MCTables == {
  [table_size |-> 2, hunks |-> <<Hunk(2, FALSE), Hunk(3, FALSE)>>],
  [table_size |-> 3, hunks |-> <<Hunk(3, TRUE), Hunk(2, FALSE), Hunk(0, TRUE)>>],
  [table_size |-> 3, hunks |-> <<Hunk(2, TRUE), Hunk(3, TRUE)>>],
  [table_size |-> 3, hunks |-> <<Hunk(2, TRUE), Hunk(19, FALSE)>>]}

(* The first drive has a disk *)
MCInserted == {[d \in Drives |-> IF d = 0 THEN "x" ELSE ""]}

(* A byte of three bits; what is saved is on the stack or at -6 *)
Transfers == INSTANCE Operands WITH
  Bits <- 12, Memory <- 0 .. 47 \cup 4088 .. 4095, Scratch <- {4090}, Stack <- 46, Contents <- {1178},
  MaxOpen <- 2, MaxSteps <- 3, cpu <- mpu, open <- saved, closed <- restored, work <- worked

(* Every first word, with small and large values behind it *)
Coder == INSTANCE Encoder WITH
  OpcodesTried <- 0 .. 65535, Following <- {<<65500, 40001, 2, 65530>>},
  pc <- 4096, phase <- coding, words <- code_words, written <- reading

(* Five characters, codes of four bits found with two *)
Codes == INSTANCE Huffman WITH n <- 5, table_bits <- 2, MaxLength <- 4, c <- char

(* Tracks of four bytes, of which one is the marker of a run *)
Archive == INSTANCE Dms WITH
  Contents <- {<<1, 1, 1, 1>>, <<0, 2, 0, 2>>, <<1, 0, 2, 2>>}, Marker <- 2, Long <- 3,
  Window <- [medium |-> 8, heavy1 |-> 4, heavy2 |-> 8], Start <- 6, Gap <- 2, hightrack <- 1,
  MinMatch <- 2, MaxMatch <- 3, MaxTracks <- 2, mode <- crunchmode, failed <- refused

-----------------------------------------------------------------------------
NoNumbers == program = 0 /\ src = 0 /\ reg = 0 /\ ccr = 0 /\ before = 0 /\ done = 0
NoImage == disk = 0 /\ files = 0 /\ dirs = 0
NoSource ==
  /\ source = 0 /\ next = 0 /\ asm_pc = 0 /\ length = 0 /\ result = 0 /\ identifiers = 0 /\ pending = 0
  /\ conds = 0 /\ last_global = 0 /\ status = 0
NoAnalyzer ==
  /\ image = 0 /\ info = 0 /\ phase = 0 /\ more = 0 /\ at = 0 /\ regs = 0 /\ roots = 0 /\ visited = 0
  /\ labels = 0 /\ saved_pointers = 0 /\ informed = 0 /\ pos = 0 /\ data = 0 /\ shown = 0
NoBus == hpos = 0 /\ eclock = 0 /\ custom_step = 0 /\ cycles_todo = 0 /\ doing = "none" /\ slack = 0
NoCodes ==
  /\ blen = 0 /\ only = 0 /\ calls = 0 /\ char = 0 /\ len = 0 /\ bit = 0 /\ codeword = 0 /\ avail = 0
  /\ tbl = 0 /\ child = 0 /\ making = 0 /\ word = 0 /\ decoded = 0
NoArchive ==
  /\ crunchmode = 0 /\ hdr = 0 /\ tracks = 0 /\ text = 0 /\ text_loc = 0 /\ output = 0 /\ past = 0
  /\ res = 0 /\ refused = 0 /\ wanted = 0
NoMoves == mpu = 0 /\ saved = 0 /\ restored = 0 /\ worked = 0 /\ steps = 0
NoCoded == coding = 0 /\ code_words = 0 /\ reading = 0

HostInit ==
  /\ part \in {"cpu", "arithmetic", "disk image", "serial", "assembler", "sound", "analyzer",
              "hunks", "main loop", "prompt", "bus", "codes", "archive", "operands", "opcodes"}
  /\ SerialInit /\ WaveInit /\ LoopInit /\ PromptInit
  /\ CpuInit /\ (part # "cpu" => odd_vectors = {})
  /\ IF part = "arithmetic" THEN Numbers!ArithmeticInit ELSE NoNumbers
  /\ IF part = "disk image" THEN Image!AdfInit ELSE NoImage
  /\ IF part = "assembler" THEN Assembler!AsmInit ELSE NoSource
  /\ IF part = "analyzer" THEN Disassembler!AnalyzerInit ELSE NoAnalyzer
  /\ HunkInit /\ (part # "hunks" => analyze /\ table.table_size = 2)
  /\ IF part = "bus" THEN BusInit ELSE NoBus
  /\ IF part = "codes" THEN Codes!HuffmanInit ELSE NoCodes
  /\ IF part = "archive" THEN Archive!DmsInit ELSE NoArchive
  /\ IF part = "operands" THEN Transfers!OperandsInit ELSE NoMoves
  /\ IF part = "opcodes" THEN Coder!EncoderInit ELSE NoCoded

HostNext ==
  /\ UNCHANGED part
  /\ \/ /\ part = "cpu" /\ CpuNext
        /\ UNCHANGED <<arithmetic, adf, serial_vars, assembler, wave_vars, analyzer, hunk_vars, loop_vars, prompt_vars, bus_vars, codes, archive, moves, coded>>
     \/ /\ part = "arithmetic" /\ Numbers!step
        /\ UNCHANGED <<cpu_vars, adf, serial_vars, assembler, wave_vars, analyzer, hunk_vars, loop_vars, prompt_vars, bus_vars, codes, archive, moves, coded>>
     \/ /\ part = "disk image" /\ Image!AdfNext
        /\ UNCHANGED <<cpu_vars, arithmetic, serial_vars, assembler, wave_vars, analyzer, hunk_vars, loop_vars, prompt_vars, bus_vars, codes, archive, moves, coded>>
     \/ /\ part = "serial" /\ SerialNext
        /\ UNCHANGED <<cpu_vars, arithmetic, adf, assembler, wave_vars, analyzer, hunk_vars, loop_vars, prompt_vars, bus_vars, codes, archive, moves, coded>>
     \/ /\ part = "assembler" /\ Assembler!process
        /\ UNCHANGED <<cpu_vars, arithmetic, adf, serial_vars, wave_vars, analyzer, hunk_vars, loop_vars, prompt_vars, bus_vars, codes, archive, moves, coded>>
     \/ /\ part = "sound" /\ WaveNext
        /\ UNCHANGED <<cpu_vars, arithmetic, adf, serial_vars, assembler, analyzer, hunk_vars, loop_vars, prompt_vars, bus_vars, codes, archive, moves, coded>>
     \/ /\ part = "analyzer" /\ Disassembler!AnalyzerNext
        /\ UNCHANGED <<cpu_vars, arithmetic, adf, serial_vars, assembler, wave_vars, hunk_vars, loop_vars, prompt_vars, bus_vars, codes, archive, moves, coded>>
     \/ /\ part = "hunks" /\ HunkNext
        /\ UNCHANGED <<cpu_vars, arithmetic, adf, serial_vars, assembler, wave_vars, analyzer, loop_vars, prompt_vars, bus_vars, codes, archive, moves, coded>>
     \/ /\ part = "main loop" /\ LoopNext
        /\ UNCHANGED <<cpu_vars, arithmetic, adf, serial_vars, assembler, wave_vars, analyzer, hunk_vars, prompt_vars, bus_vars, codes, archive, moves, coded>>
     \/ /\ part = "prompt" /\ PromptNext
        /\ UNCHANGED <<cpu_vars, arithmetic, adf, serial_vars, assembler, wave_vars, analyzer, hunk_vars, loop_vars, bus_vars, codes, archive, moves, coded>>
     \/ /\ part = "bus" /\ BusNext
        /\ UNCHANGED <<cpu_vars, arithmetic, adf, serial_vars, assembler, wave_vars, analyzer, hunk_vars, loop_vars, prompt_vars, codes, archive, moves, coded>>
     \/ /\ part = "codes" /\ Codes!HuffmanNext
        /\ UNCHANGED <<cpu_vars, arithmetic, adf, serial_vars, assembler, wave_vars, analyzer, hunk_vars, loop_vars, prompt_vars, bus_vars, archive, moves, coded>>
     \/ /\ part = "archive" /\ Archive!DmsNext
        /\ UNCHANGED <<cpu_vars, arithmetic, adf, serial_vars, assembler, wave_vars, analyzer, hunk_vars, loop_vars, prompt_vars, bus_vars, codes, moves, coded>>
     \/ /\ part = "operands" /\ Transfers!OperandsNext
        /\ UNCHANGED <<cpu_vars, arithmetic, adf, serial_vars, assembler, wave_vars, analyzer, hunk_vars, loop_vars, prompt_vars, bus_vars, codes, archive, coded>>
     \/ /\ part = "opcodes" /\ Coder!EncoderNext
        /\ UNCHANGED <<cpu_vars, arithmetic, adf, serial_vars, assembler, wave_vars, analyzer, hunk_vars, loop_vars, prompt_vars, bus_vars, codes, archive, moves>>

HostSpec == HostInit /\ [][HostNext]_<<part, cpu_vars, arithmetic, adf, serial_vars, assembler, wave_vars, analyzer, hunk_vars, loop_vars, prompt_vars, bus_vars, codes, archive, moves, coded>>

(* What each part promises, stated in its module or in those it instantiates *)

(* Results and flags are those of the numbers, also of numbers in parts;    *)
(* what a program saves it can take back, and a failed access leaves no mark *)
InstructionsAreRight ==
  /\ (part = "arithmetic") => Numbers!NumbersAreRight /\ Numbers!PartsMakeTheNumber
  /\ (part = "operands") => Transfers!OperandsAreRight

(* A file on an image can be read back, whatever was written after it       *)
FilesKept == (part = "disk image") => Image!FilesKept

(* Each operand has the value of its expression, known early or late (but   *)
(* not that of a TRAP, which is left out), and the disassembler reads what  *)
(* the assembler wrote                                                      *)
Assembled ==
  /\ (part = "assembler") => Assembler!Assembled
  /\ (part = "opcodes") => Coder!OneInstruction

(* Codes stand for their characters, and an archive's tracks are unpacked   *)
ArchivesUnpacked ==
  /\ (part = "codes") => Codes!CodesDecode
  /\ (part = "archive") => Archive!ImageUnpacked

(* The disassembler follows the flow of code and prints every byte          *)
Disassembled == (part = "analyzer") => Disassembler!FlowFollowed /\ Disassembler!EveryByteShown

(* LoopKeepsItsState, TimeKept, BuffersTakeTurns, LinesAnswerQuestions,     *)
(* TextKeepsItsLines, ResumesAndTraces and LoadedWhole are stated in        *)
(* MainLoop, BusSync, WaveOut, DebugPrompt, Serial, Cpu and Hunks.          *)
=============================================================================
