# A verification project for AmiEmu

AmiEmu is an Amiga 500 emulator in C++: a 68000, the OCS custom chips, two
CIAs, floppy drives, Zorro II boards and a harddisk board with shared folders,
behind a window and an audio device. With it come an assembler, a disassembler
and readers of disk images. This directory holds TLA+ models of the emulator
and its tools, TLC configurations that check them, and TLAPS proofs.

Names of variables, actions and operators are those of the C++ code wherever
TLA+ allows it; `PROJECT.json` maps each definition to its lines and lists the
hazards the properties are for.

## 1. Inventory

### How the parts interact

There are two threads (three with SDL's debugger prompt, more with the Windows
sound device). The *emulation thread* runs `amiga::run` (main.cpp): it takes one
event of the GUI, shows the debugger if asked to, executes one CPU instruction
and updates the GUI. An instruction drives everything else: each bus access and
each sample of the interrupt lines calls `do_all_custom_cylces`, which steps
the custom chips up to the time of the access (`custom_handler::step`), and
those step the CIAs every tenth time, which step the drives and the keyboard.
So inside the machine there is no preemption, but *which* chip step falls
between two accesses of a program is not something the program controls, and
the models treat it as interleaving. The *audio device* calls `audio_callback`
on a thread of its own.

| part | source | state it keeps | operations | what is hard |
|---|---|---|---|---|
| interrupts | cia.cpp, custom.cpp, cpu.cpp | ICR masks and data, INTENA, INTREQ, delayed requests, IPL pipeline, mask, STOP | trigger, read/write of ICR, INTENA, INTREQ; sample, take, sleep | requests in flight when their cause goes away; levels that change inside the pipeline |
| blitter and bus | custom.cpp, main.cpp | registers, position in the cycle diagram, the held result, blocking counter | BLTxxx writes, one step per bus slot, the waiting CPU | pipeline that drains after BUSY clears; starvation both ways |
| audio output | main.cpp, wavedev_win32.cpp | two buffers, ready flags, counters, pause flag; the ring of headers | fill, callback, pause, resume, destruction | two and three threads; waits on a device that the waiting thread itself paused |
| memory map, autoconfiguration | memory.cpp, autoconf.cpp | list of areas, overlay, two lists of boards, half an address | configuration writes, shut-up, overlay, reset, save, restore | long sequences; lists walked in opposite directions |
| harddisk board | harddisk.cpp, exprom.asm | a free list inside its own RAM; the held pointer; disks and their file systems | allocate, free, reset; the commands | merging; several tasks and one pointer register |
| shared folders | harddisk.cpp | nodes and lock counts shared with AmigaDOS, open files | the DOS packets | failures half way; counts given back; directories that change while they are read |
| CPU core | cpu.cpp | registers, prefetch, exceptions | one instruction | exceptions inside exceptions; failures in the middle of an operand; widths and flags |
| copper | custom.cpp | state, PC, pending jump | one step per slot, COPJMP | a jump in any state |
| disk DMA, drives | custom.cpp, disk_drive.cpp, disk_file.cpp, cia.cpp | DSKLEN latch, sync, head, the buffered track | DSKLEN, DSKSYNC, port B, exchange of disks | arming twice, restarting under way, a track that goes back to another disk |
| CIA timers, TOD, keyboard | cia.cpp | counters, latches, ring of keys, handshake | registers, one step | one-shot races, TOD latch, ring overflow |
| Paula audio, serial | custom.cpp, main.cpp | per channel state and period; the terminal's escape and line state | register writes, one step, a word sent | DMA off in mid sample; sequences cut anywhere |
| display, sprites | custom.cpp | fetch and shift registers, pointers, sprite state | one step, register writes | fetches near the ends of the line; positions changed under way |
| main loop, debugger | main.cpp | modes, waits, pending disk, cycles owed | events, commands, exceptions | events during waits; exceptions that leave a half done step |
| GUI drivers | sdl_driver.cpp, gui_win32.cpp | window, prompt thread | update, prompt | the prompt's reader thread |
| disk images | disk_file.cpp, adf.cpp, dms.cpp | blocks of an image; window and codes of an archive | make, write, read; unpack | chains and tables that exactly fill a block |
| assembler, disassembler, tables | asm.cpp, mktab.cpp, disasm.cpp, m68kdisasm.cpp | symbols, fixups; traced code and data; hunks | a statement; an instruction; a block | forward references of every size; two programs that must agree on 65536 opcodes |
| state files | state_file.cpp | scope stack | open, write, read | what is forgotten |
| clock, debug board, utilities | rtc, debug_board, ioutil | - | pure functions and calls of the host | - |

### What makes each part correct

* Interrupts: the CPU's pins follow Paula's registers; a cause that stays is
  served; one that is gone causes no interrupt for long.
* Blitter: every blit writes each word of its rectangle once, whatever else is
  on the bus; one interrupt per blit; neither the CPU nor the blitter starves.
* Audio output: frames are neither lost, repeated nor reordered; the emulation
  never waits for ever; a buffer belongs to one side at a time.
* Memory map: a page is answered by what is configured there and nothing else;
  reset and restore bring back the boards the user has.
* Harddisk board: no two owners share memory, freed memory can be used again;
  a request is carried out once, inside its disk.
* Shared folders: counts are what the guest holds, an object has one node,
  nothing refers to a freed one, a directory scan sees what stays there.
* CPU: an exception returns to what it interrupted; results and flags are those
  of the numbers; a failed instruction changes nothing it can be seen by.
* Devices: a timer fires when the manual says; a clock read in parts is one
  time; keys arrive once and in order; a disk transfer is whole and what is
  written stays on its track; a copper list is executed whole; sample words are
  heard once; a line is fetched and shown whole, a sprite line by line.
* Main loop: disks are where they were chosen to be; no cycle is lost between
  the CPU and the chips.
* Tools: what is written can be read back; a value does not depend on whether
  a name was known; assembler and disassembler mean the same by a word.

## 2. Modules

A component is a module with its own variables, initial predicate, actions and
properties. Where components share state they are one module (`Interrupts` is
CIA, Paula and CPU; `Blitter` is blitter, bus and CPU; `MainLoop` is events,
disks, debugger and CPU). Components that share none are gathered for TLC by a
module that holds the variables of all of them and lets a behaviour be of one
only, chosen in its initial state: `MCMachine` (the chips' devices), `MCHost`
(the CPU and what is around the machine) and `MCHarddisk`.

| module | models | code |
|---|---|---|
| `Interrupts` | from a CIA source through Paula's delayed requests and the IPL pipeline to the CPU's exception and STOP | cia.cpp, custom.cpp, cpu.cpp |
| `BlitCopy` | abstract: what a rectangular blit promises | |
| `Blitter`, `MCBlitter` | the blitter, bus slots, and the CPU waiting for a slot; implements `BlitCopy` | custom.cpp, main.cpp |
| `AudioBuffers` | the double buffer and everybody who pauses or awaits it | main.cpp |
| `WaveOut` | the ring of headers, the device's thread, its callbacks and destructor | wavedev_win32.cpp |
| `Autoconf`, `MCAutoconf` | the list of areas and the boards that change it | memory.cpp, autoconf.cpp |
| `LocalRam` | the allocator of the harddisk board and its callers | harddisk.cpp |
| `Board`, `MCHarddisk` | the board's pointer and commands, disks, partitions and file systems, tasks of the guest | harddisk.cpp, exprom.asm |
| `Volumes`, `MCVolumes` | a shared folder: nodes, locks, handles, packets | harddisk.cpp |
| `Cia` | a timer in all its modes, the TOD counter, the keyboard's ring | cia.cpp |
| `Floppy` | DSKLEN, sync and transfer; tracks encoded, decoded and written back while disks change | custom.cpp, disk_drive.cpp, disk_file.cpp, cia.cpp |
| `CopperList` | abstract: a list of instructions, executed one by one | |
| `Copper` | the copper's states with jumps, waits, skips and danger; implements `CopperList` | custom.cpp |
| `Paula` | a channel of sound with its DMA and interrupts | custom.cpp |
| `Bitplanes` | the fetches of a line, pointers and moduli, delays | custom.cpp |
| `Sprites` | vertical comparison, slots and manual writes | custom.cpp |
| `Cpu` | exceptions, traces, traps, STOP, returns, stacks | cpu.cpp |
| `Alu`, `Arithmetic` | results and flags of arithmetic, logic, shifts, decimals; short programs of them | cpu.cpp |
| `Operands` | every addressing mode, the instructions that move data, address errors | cpu.cpp |
| `MainLoop` | `amiga::step`: events, debugger, reset, disks, exceptions | main.cpp |
| `BusSync` | the cycles CPU and chips owe each other | main.cpp |
| `Serial` | what the terminal makes of the serial port's words | main.cpp, custom.cpp |
| `DebugPrompt` | the two threads of the SDL driver's prompt | sdl_driver.cpp |
| `Adf` | the file system of an image | adf.cpp |
| `Huffman`, `Dms` | codes, windows and tracks of an archive | dms.cpp |
| `Asm` | symbols, expressions, fixups, conditional blocks | asm.cpp |
| `Opcodes` | the table of instructions and the reading of one | mktab.cpp, disasm.cpp, instruction.h |
| `Encoder` | the words the assembler makes of an instruction | asm.cpp |
| `Analyzer` | the tracing of code and data, and their printing | m68kdisasm.cpp |
| `Hunks` | the loader of executables | m68kdisasm.cpp |
| `InterruptsProofs`, `BlitterProofs`, `AutoconfProofs`, `VolumesProofs` | theorems about the module each is named after | |
| `HarddiskProofs` | theorems about `LocalRam` and `Board` | |
| `AudioProofs` | theorems about `AudioBuffers` and `Paula` | |
| `MachineProofs` | theorems about `Cia`, `Copper`, `Floppy`, `Sprites` and `Bitplanes` | |
| `HostProofs` | theorems about `MainLoop`, `BusSync`, `WaveOut`, `DebugPrompt`, `Serial`, `Cpu` and `Hunks` | |

How their state and actions correspond to the code, where it is not plain:

* `Interrupts`. `CustomStep` is one call of `custom_handler::impl::step`:
  delayed requests count down, the IPL pipeline advances, and on every
  `EClock`-th call the CIAs may raise sources and start a delay. `poll_ipl`,
  `TakeInterrupt`, `ExecAccess`, `LoadSr` and `Sleep` are the parts of
  `m68000::step` that look at the pins. Register accesses are the CPU's, or the
  copper's. `settled` and `spurious` are history variables: how long Paula's
  level has been what it is, and how many requests were posted for a CIA whose
  IR is clear.
* `Blitter`. `Tick` is one call of `step`; every second one is a bus slot. A
  slot belongs to a channel of higher priority (`Contended`), else the blitter
  is offered it (`do_blitter`), else it is free, and a CPU that waits in
  `on_memory_access` takes the first free one. Data is reduced to numbers:
  `bltdat` is the number of the result, `written` lists address and number of
  each D write. Lines are not copies: they map to `DrawLine` of `BlitCopy`.
  `Discipline = "stopped"` lets software program the blitter only when it has
  stopped; section 5 tells what happens otherwise.
* `AudioBuffers`. `pc` names the places of the emulation thread between which
  the other thread or the debugger can change what it looks at. The device is
  `wavedev` as its interface promises: it starts a callback when it is not
  paused, and a callback that started runs although it was paused meanwhile.
* `Autoconf`. The map is the list `areas` in the order `find_area` searches.
  `Save` stores what a restored machine must look like (`View`), `Load` builds
  a new machine from it as the constructors and `handle_state` do.
* `LocalRam`, `Board`. `ram` holds the headers of free blocks in the memory
  they manage; `walk` is the loop of allocation and freeing. `Board`'s guest is
  the driver of exprom.asm: it asks for file systems and partitions, then every
  task writes its pointer and its command in two steps.
* `Volumes`. A packet is one action, as it is one write to the board. The host's
  directory is a variable of its own; the nodes are what the code knows of it.
* `Cia`, `Floppy`, `Paula`, `Bitplanes`, `Sprites`. One action is one step of
  the device (of `Sprites` a pixel: the comparison runs in each) or one write by
  the guest. Registers have two binary digits where
  the code has two bytes; lines, rings, tracks and periods are short.
* `Cpu`. A step is one call of `m68000::step`: it works on a record (`Machine`)
  that each part of the step changes, and a C++ exception ends it there. The
  stacks hold what calls and exceptions push; their addresses are only even or
  odd. `contexts` is the history of what exceptions have interrupted.
  `Arithmetic` and `Operands` are programs whose effect is known without the
  code: numbers of several parts, and operands saved and taken back.
* `Opcodes`, `Encoder`. An opcode is found in rows of patterns; mktab writes
  the same rows out into 65536 entries. A decoded instruction is encoded again
  by the assembler's rules and must give the same words.
* `Analyzer`, `Hunks`. The image says what its words mean; the models keep
  every decision about them, and abstract how they are written. An address of
  `Hunks` does not wrap at 32 bits: a table that gets so far has a hunk that
  starts behind the end of memory, and writing that one is refused.

## 3. Runs

| run | bounds | shows |
|---|---|---|
| `interrupts` | CIA A with one source, PORTS and BLIT, E clock 2, CIA delay 3, pipeline 1 | `IplSettles`, `AtMostOneSpurious`, `CiaReachesIntreq`, `EventuallyTaken` |
| `blitter` | 4 channel sets, areas, fills, lines, ONEDOT; 1x1 and 2x2; two blits; MASTER and BLITHOG switched at any time; every slot contended at will | `CopySpec`, `PointersAtEnd`, `EachOnce`, `CpuLosesAtMostTwo` |
| `blitter_live` | all 16 channel sets, one blit, every second slot contended | `BothGetOn`; that the diagrams of all channel sets implement `CopySpec` is proved |
| `audio` | 5 frames, every source of debugger activity, quitting | `EachFrameOnce`, `InOrderUntilUnderrun`, `WaitEndsUnlessPaused` |
| `autoconf` | 3 boards, one of two pages, 4 pages for them across a digit boundary and with a gap | `MapFollowsBoards`, `BoardsKeepOrder`, `LoadRestores`, `OnlyShutupFails` |
| `volumes` | a directory with a file, 2 names, depth 2, 4 nodes, 2 locks, 1 handle | `HoldersMatch`, `LiveTree`, `ScanSeesAll` |
| `harddisk` | 24 cells of RAM, two names, up to six locks; two tasks, two sets of disks with sizes that are not whole sectors | `RamSound`, `ServedRight` |
| `machine` | each device alone with its guest, in the sizes of `MCMachine` | `TimerOnTime`, `CiaKeepsOrder`, `DiskDataKept`, `ListSpec`, `BlocksHeard`, `LineShown`, `WholeSprites` |
| `host` | each part alone, in the sizes of `MCHost` | `ResumesAndTraces`, `InstructionsAreRight`, `FilesKept`, `TextKeepsItsLines`, `Assembled`, `ArchivesUnpacked`, `BuffersTakeTurns`, `LinesAnswerQuestions`, `Disassembled`, `LoadedWhole`, `LoopKeepsItsState`, `TimeKept` |
| `audio_debugger` | 3 frames, the "wait for frame" command | violation of `WaitEnds` |
| `board_tasks` | as `harddisk` | violation of `RepliedIsServed` |
| `image` | as `host`, files of whole blocks | violation of `FilesKept` |

Why the bounds are enough:

* *interrupts.* Two levels are needed for a level to change to another than 0
  while one is in the pipeline; the CIA delay is longer than the E clock, as in
  the code (16 and 10), so a CIA is polled again before its request is posted.
  The pipeline is shorter than the code's 2 to keep the liveness check small;
  `IplSettles` and `AtMostOneSpurious` are proved for every length.
* *blitter.* 2x2 has a first and a last word in a row and a first and a last
  row; 1x1 has them in one word, the shortest blit there is. The moduli differ
  by channel. Two blits are enough for the second to meet what the first left
  behind. In `blitter_live` the contention is a fixed share: outside the
  display window no bitplane is fetched.
* *audio.* Two buffers and at most two frames of lead: after five frames every
  combination of counters and flags has come back.
* *autoconf.* Two of the boards of one size and one of two make the places they
  fit in depend on the order of the past; three are the boards main.cpp can
  have beside the memory that never moves.
* *volumes.* One directory in another is enough to rename it, empty it, delete
  it and find it again; two locks and a handle can hold one node or two. A scan
  reads up to three entries.
* *harddisk.* Names of one and four cells, locks of three, the end of the RAM
  not a multiple of a lock; two tasks are enough for one to come between the two
  writes of the other.
* *machine.* A timer of two binary digits reloads, borrows and is written in
  every position; two keys and a ring of two fill and wrap; two cylinders and
  two sectors tell neighbours apart; the copper's list holds every instruction
  and two targets of jumps; a channel's period and length run from zero over
  the smallest legal to the wrap; a display line is long enough for both ends of
  DDF to fall before, in and behind it, in all plane counts there are; two
  sprites, one to keep the comparison awake for the other, meet positions on,
  before and behind each line, one beyond the field. Position words tell four
  lines of five apart, so both parts of a start matter; a line is 15 pixels with
  the slots 0, 4, 8 and 12, as far apart as in the code, and its last two compare
  with the next line. Two writes of the guest are enough to leave any positions
  behind for the field after, which it leaves alone (`MaxWrites`).
* *host.* Longs of six bits and words of three have sign, carry and borrow in
  each half, and all pairs of operands are tried; addresses of twelve bits
  reach both sides of zero. A table of two entries overflows into chains and
  extension blocks on a disk of 18 sectors. Four statements are enough for a
  use, two definitions and a change of place between them; every kind of
  fixup has its statement. The opcodes are all 65536. Codes of four bits with
  tables of two have direct entries, trees and a tree on its own. Three hunks
  have a first, a middle and a last; some tables name more than the file has,
  and one asks for more than memory holds. With a CPU twice as fast as the chips
  (`cpu_scale`) cycles may be owed wholly, in part or not at all.

The runs of `AudioBuffers`, `MCAutoconf`, `MCVolumes`, `MCHarddisk`, `MCMachine`
and `MCHost` do not check for deadlock: there the program really stops (it was
left, the user never leaves a prompt, an assertion failed, the text or the image
is at its end) or a bound on a history is reached.

### Fairness

* `Interrupts`: weak fairness of a chip step and of a CPU step. `amiga::run`
  alternates them, and while the CPU is stopped it steps the chips and then
  calls `cpu.step` again. No fairness is given to the copper, to reads of ICR
  or to any write.
* `Blitter`: weak fairness of `Tick` and of a granted access; the CPU need not
  use the bus.
* `AudioBuffers`: weak fairness of a fill or wait, and of the device's thread.
  None of the debugger: a user may never answer.

The other modules state safety only: their steps are calls the guest, the user
or the loop may make or not.

## 4. Proofs

`InterruptsProofs` proves, for all CIAs, interrupts, masks and delays that
satisfy `ConstAssumption`:

* `TypeCorrect`: `Spec => []TypeOK`.
* `IplSettlesCorrect`: `Spec => []IplSettles`. `IplSettles` is not inductive:
  it says nothing of the steps before the level has settled. `PipelineInv`
  relates the history of the level to the pipeline: while a level is on its way
  the counter bounds the time it needs, a pending level that is not the right
  one has at most one more pass to go, and the pass after it carries the right
  one. The step lemma needs that the level a chip step shows the pipeline lies
  between the levels before and after it (`LevelMonotone`: requests are only
  added during a step), because the end of a field posts VERTB after the
  pipeline has looked.
* `AtMostOneSpuriousCorrect`: `Spec => []AtMostOneSpurious`. The strengthening
  `SpuriousInv` says that while IR is clear, the requests already posted and
  the one in flight together are at most one.

They rest on the lemmas about `LevelOf` (`LevelOfMax`, `LevelMonotone`), which
is a maximum over a set of levels, and on nothing but `ConstAssumption`.

`AudioProofs` proves, for any number of frames, any use of the debugger
and with or without leaving the emulator (`AudioAssumption`):

* `InOrderCorrect`: `Spec => []InOrderUntilUnderrun`. `OrderInv` is the
  invariant: while the device has always found a frame, the one it plays next is
  the elder of those that wait, all of them are later than what was heard
  (`ToHear`), and the buffer to fill is the one the device comes to last. What
  was heard alone says nothing about the next.
* `EachFrameOnceCorrect`: `Spec => []EachFrameOnce`, underruns included.
  `FramesInv` says it without cardinalities: what was heard and what is in
  ready buffers are without repetition, disjoint, and together the frames
  handed over (`HandedOver`), which are those emulated but for the ones `skipped`
  for a wait of the debugger; the number heard plus the number ready is at most
  the number of frames. That count is also why the bound in `Hear` is never
  reached: it drops no frame of the history. The cardinalities of the property
  follow from it by lemmas on injections.
* `TypeCorrect`: `Spec => []TypeOK`, which needs `FramesInv` for the element
  type of `played`: a callback plays frame 0 only if a buffer was ready that
  nobody filled.

and, for any sample lengths, periods and wraps of their counters
(`PaulaAssumption`):

* `BlocksHeardCorrect`: `PaulaSpec => BlocksHeard`, whatever the guest writes to
  the registers and DMACON between two slots. `BlockSoFar`: the words fetched
  are those from the start that was asked for, `ptr` is behind them, and the
  counter, which wraps at 0 (`Left`), has the rest; so at the interrupt the
  block is whole. `OneWord`: no word is asked for or waits unless the one before
  was heard.

`BlitterProofs` proves, for any channel sets, sizes, moduli, DMA switches and
contention:

* `CpuLosesAtMostTwoCorrect`: `Spec => []CpuLosesAtMostTwo`, whatever software
  does. `BlockingInv` says that while the CPU waits, what it has lost is at most
  what `bltblockingcpu` counts, and that count is at most 3.
* `EachOnceCorrect`, `PointersAtEndCorrect` and `CopySpecCorrect` (that `Blitter`
  implements `BlitCopy`) under `Discipline = "stopped"`: software programs the
  blitter once it has stopped, as it does in the runs. Without that the code
  fails its own assertion (section 5).

  The inductive invariant is `BlitInv`. `JobInv` ties the registers to the blit
  that was programmed, while it is under way. `BusyInv` says where BUSY and the
  interrupt are, which of an area come a period before the end. `PointersInv`
  puts each pointer where the words done so far leave it, by row, column and
  whether its channel had its cycle in this period (`Served`): a diagram serves
  each channel once, so a period moves it by one word. `ResultsInv` says that
  the words written are those before the pipeline's, D lagging one period
  behind. The refinement maps a step to a step of `BlitCopy` when a word is
  written and when the blitter stops, and to a stutter otherwise.

`AutoconfProofs` proves, for any boards:

* `BoardsKeepOrderCorrect`: `Spec => []BoardsKeepOrder`. Moving the last element
  of one list to the end of one that is kept in the opposite order changes
  nothing (`MoveLast`, for a board configured or shut up), nor does cutting a
  list in two and reversing the second half (`ReverseCut`, for a restore).
* `MapFollowsBoardsCorrect`, `OnlyShutupFailsCorrect` and `LoadRestoresCorrect`,
  for any layout that keeps the ROM, the chips' areas and the expansion space
  apart (`LayoutAssumption`), with states saved between two configurations
  (`~SaveMidWrite`; one saved in between loses a digit, section 5).

  The inductive invariant is `MapInv`. `MachineInv` says that the list of areas
  is exactly what the boards' modes and bases, and the overlay, ask for, each
  area once, and that active boards lie apart. `TargetInv` says that the page
  under construction is free for the board the guest sees, and that its low
  digit is held. `FileInv` says that a saved state is the state of such a
  machine. What is answered at a page follows from the first (`Answers`): the
  search stops at the only area that holds the page, or at the overlay, which
  is in front.

  What a reset and a restore leave of a list is computed by a walk over it
  (`Among`), so it needs induction. The library's theorems take an operator;
  `SetInduction` states induction for a set of naturals instead, and
  `AmongExists` and `AmongProperties` apply it.

`MachineProofs` proves, of the devices of the machine:

* `ListSpecCorrect`, that `Copper` implements `CopperList`, for any program in
  which every list ends and any beam with more than one slot in a line
  (`CopperAssumption`). `CopperInv` says, for each state of the copper, how many
  words of which instruction are in `copper_inst` and that the pointer is just
  behind them; so a jump or a field, whatever it interrupts, leaves nothing of a
  half instruction behind.
* `TimerOnTimeCorrect`: `CiaSpec => TimerOnTime`, for any number of values of a
  register (`CiaAssumption`). `TimerInv` says that a timer is due after its start
  delay and the ticks of its value, and off if and only if it does not run; each
  write to a register keeps it.
* `CiaKeepsOrderCorrect`: `CiaSpec => []CiaKeepsOrder`, for any ring whose indices
  wrap at a multiple of its size that is larger than the ring (`CiaAssumption`).
  `TodInv`: between the reads of hi and lo the latch holds the time asked for,
  and what was read are its digits; three digits of a time are the time
  (`TimeOfDigits`), also of a counter with more digits (`HighShown`). `KeyInv`:
  what was typed is what was sent and what lies in the ring, in order; a new
  key's slot differs from all slots in use (`SlotsDiffer`), because a full ring
  refuses it, and a slot does not change when the index wraps (`RingMod`).
* `DiskDataKeptCorrect`: `FloppySpec => []DiskDataKept`, for any drives, disks,
  lengths, speed and writes to the ports (`FloppyAssumption`). `LenRight`: a
  transfer that is on has moved `dskpos` words of those asked for. `ReadRight`:
  the words read are neighbours on a track, up to the one before `mfm_pos`, and
  with WORDSYNC begin behind a sync word. `SectorsKeepTheirPlace` says that the
  data of a sector belong to its number, which holds because a track is decoded
  by the numbers in it and not by where they stand.
* `WholeSpritesCorrect`: `SpritesSpec => []WholeSprites`, for any number of
  sprites, place of the slots, lines and positions (`SpritesAssumption`) and any
  writes before the field. `FieldSoFar` says, for a field in which the guest
  leaves the sprites alone, when the control words of each came
  (`ControlPlaced`), what half of them means (`ControlHalf`), and that its DMA is
  on exactly in its lines, or the comparison still looks for the first
  (`SpriteFollowed`, `Awaited`); the lines of data are a function of the position
  (`LinesDue`). Between its two control words a sprite is at a line made of the
  new position and the old control word. `Settles` says what the comparison
  makes of it: if that is the line of the beam, the DMA goes on and off again
  in turn, and as there are four comparisons it is off when the second word
  comes. The two starts the property excepts are where this argument ends.
* `LineShownCorrect`: `BitplaneSpec => []LineShown`, for any window, DDF positions,
  planes, scroll and modulo (`BitplanesAssumption`). `FetchClock` ties the cycle
  of the fetch to the position, `ScheduleKept` says how many words each plane has
  by then (`WordsDue`, in closed form) and where its pointer is, `SetsWait`
  that a set which is still waiting has not met its delay since it came
  (`Age`), so that it does before the next comes, and `SetsShownOnce` counts.

`HarddiskProofs` proves, of the harddisk board:

* `RamSoundCorrect`: `Spec => []RamSound`, for RAM of any size, any names and any
  size of a lock (`LocalRamAssumption`). The free list is a chain in the memory it
  manages. `IInv` says that it is one of ever higher blocks that do not touch
  (`ListRight`; `ChainListed`: the walk finds all of it), that every hole but the last is
  a number of locks (`HolesFit`), that names are handed out before anything is
  given back (`NamesFirst`), and that owners are apart from each other and from
  the blocks (`OwnersApart`). `HolesFit` is why unlinking only the head is enough:
  a lock fits into the first block or no block was freed. The walks of
  allocation and freeing are followed by `SetInduction`.
* `ServedRightCorrect`: `BoardSpec => []ServedRight`, for any disks, partitions,
  requests and number of tasks, in any order of their writes (`BoardAssumption`).
  `PointerRight`: the pointer the board holds is that of a task that has not
  written its command yet and was not served; `TaskRight`: what was served was
  answered as `handle_disk_cmd` answers it, inside the disk and on whole sectors.

`HostProofs` proves, of the CPU, the main loop and the parts around them:

* `LoopKeepsItsStateCorrect`: `LoopSpec => []LoopKeepsItsState`, for any drives,
  files, delay and scale of the clocks. `LoopInv` adds that a disk that is due
  has a drive, and (`ChipsFollow`) that, unless an exception came out of the last
  instruction, `cpu_active` is set only within one, and from the end of
  `do_all_custom_cylces` on (main.cpp 2479) the chips are behind a CPU that is not
  stopped by less than one of their cycles. That is less than what `write_state`
  asserts (section 5).
* `TimeKeptCorrect`: `BusSpec => TimeKept`, for any scale of the clocks, line and
  E clock (`BusAssumption`). `BusInv`: an access that waits for the chips owes
  nothing, and a free cycle is an even one. The rest is division: what is owed
  is whole cycles of the chips and a rest smaller than one (`Owes`).
* `BuffersTakeTurnsCorrect`: `WaveSpec => []BuffersTakeTurns`, for any number of
  buffers. `Around` numbers the buffers by how many were played, queued and
  taken; numbers less than a ring apart are different buffers (`ApartPlaces`),
  and the counts keep them that close. After the reset only the buffer that the
  thread had taken can still come to the device.
* `LinesAnswerQuestionsCorrect`: `PromptSpec => []LinesAnswerQuestions`, for any
  number of questions. `PromptInv` says which places the two threads can be in
  together: while the window is open, the reader is where the question that is
  open has got to (`Asking`), or all are answered (`Answering`).
* `TextKeepsItsLinesCorrect`: `SerialSpec => []TextKeepsItsLines`, for any text and
  any size of the buffer for escape sequences. `LinesKept`: what was sent has
  the lines of what was shown, up to a line end that still waits for its second
  byte, and the handler is inside an escape sequence when the text is. The lines
  of a text are a recursive function of it; the proof needs only its step
  (`UnescapedAppended` and its likes), by induction along the text.
* `ResumesAndTracesCorrect`: `CpuSpec => ResumesAndTraces`, for any levels, statuses
  the guest writes, odd vectors and depth of nesting (`CpuAssumption`).
  `FramesAre`, in `CpuInv`: the frames on the supervisor's stack, from its top,
  are those of what has been interrupted, whatever lies between them. So the
  frame RTE pops is the newest, on whatever stack it returns to. An instruction
  adds to what has been interrupted, leaves it or resumes it (`Handled`), an
  exception adds one (`Entered`), and a step takes at most one exception before
  its trace (`TracedOne`).
* `LoadedWholeCorrect`: `HunkSpec => []LoadedWhole`, for any tables, blocks,
  relocations, pages and ends of memory, where chip memory ends before fast memory
  starts (`HunksAssumption`; 0x200000 in the code). The places of the table are
  apart with the two longs before each (`PlacesApart`, along the hunks: those of a
  kind follow each other by what `AlignedRoom` says, the kinds are kept apart by
  `ChipEnd`), so no segment is written over another (`WrittenWhole`). `HunkInv`
  has, for every long of every hunk, that it is the file's with what the relocations
  so far add: a block of a hunk is read before any relocation of it
  (`NothingAdded`), and one relocation adds its own term (`AddedOneMore`).

`VolumesProofs` proves, for any folder of the host, names, paths and number of
locks and handles (`VolumesAssumption`: the names are finitely many, and what is
above an entry is a directory):

* `HoldersMatchCorrect`: `Spec => []HoldersMatch`;
* `LiveTreeCorrect`: `Spec => []LiveTree`;
* `ScanSeesAllCorrect`: `Spec => []ScanSeesAll`.

An operation of the code works on the host, the nodes and the next id, which are
one record in the model, so the lemmas are about such records: what an operation
does to one, and what it leaves for those who held or stood at a node of it.

* `Good`: what the root reaches is a tree (`Linked`); and while no directory with
  known entries was renamed, every node is reached, its path is no other's, and
  the host has the entry (`Known`). `LiveTree` needs the last: a node that goes
  with its entry has no nodes below it, because the host removes only empty
  directories and `HostTree` is kept by every operation (`MovedIs` for a rename).
* `Matches`: the count of each node is what the table of locks and handles says.
  A packet that fails half way has locked a node of a tree that only learned
  entries (`Extends`), so unlocking it gives the counts back (`LockUnlock`,
  `UnlockExtends`, `ReleasedKeeps`). A node that is erased is held by the packet
  alone, so nobody else loses his (`FreeIsUnheld`).
* `ScanOK`: what a scan is still owed comes behind the entry it stands at, in the
  order of the directory's nodes, unless that entry is gone. `Kept` is what every
  packet leaves: a node keeps its path and its place before the others, and one
  that goes has no entry any more; it is all that `FollowKeeps` needs of a packet.

`IInv` is the three together; it was checked as an invariant of the run `volumes`
before it was proved. `node_operation` goes through a name by recursive functions
(`Ups`, `Downs`, `Learn`); `UpsIs`, `DownsIs` and `LearnIs` give their steps, and
`SetInduction` goes along them. The bounds of the instance (`MaxId`, `MaxHeld`,
`MaxEntries`) play no part in the proof; that of the depth of paths does as far
as a rename must fit (`Renamable`).

In the runs `machine`, `host` and `harddisk`, what `MachineProofs`, `HostProofs`,
`HarddiskProofs` and the second part of `AudioProofs` are about are parts of
`MCMachine`, `MCHost` and `MCHarddisk` and take the same steps; a behaviour of one
part is one of the part's own specification (`CopperSpec`, `CpuSpec`, ...), which
the theorem is about.

What the proofs assume of the constants is what the `ASSUME` of each module
says: types, sizes that are not 0, and where a module lets the guest choose from a
set, that the set has values of the kind. None of them bounds an instance.

Model-checked only are:

* the liveness properties `EventuallyTaken`, `CiaReachesIntreq`, `BothGetOn` and
  `WaitEndsUnlessPaused`, because liveness under fairness is out of the prover's
  reach;
* `InstructionsAreRight`, `FilesKept`, `Assembled`, `ArchivesUnpacked` and
  `Disassembled`. They say what recursive definitions and walks over data
  compute: results of programs, chains of blocks, expressions and fixups, tables
  of codes, opcodes and traced images. Each would need an induction over that
  data with a hypothesis of its own; where a property needed only the steps of a
  few recursive functions (`Among`, the walk along a name, the free list, the
  lines of a text, the places of hunks), an induction over naturals carried it
  through. Instead the results of
  `Alu` are checked for every operand of a small width, and all 65536 opcodes
  for `Disassembled`.

## 5. What the models found

Runs that end in a violation, each a difference between the code and what the
code, its comments or its assertions say:

* `audio_debugger`: `zf n` pauses the device and the emulation then waits for it.
* `board_tasks`: a second task's request replaces the pointer of the first
  between its two writes; the first is replied and was never carried out.
* `image`: a file that exactly fills its last extension block is written with a
  count of 0 there, and the reader throws.

Seen while modelling, without a run of their own:

*Chips.*
* BUSY clears a period before the blitter stops. Software that waits for BUSY
  and writes the next BLTCON0 shortens the diagram under the cycle counter:
  `assert(s_.bltcycle < period)` fails (custom.cpp 1395, 1441).
* DMAB_BLITTER, "Blitter DMA enable" (custom.cpp 236), does not stop the
  blitter: `do_blitter` looks at DMAF_MASTER only, and
  `check_blit_idle_any_cycle` (1387) is content with either bit.
* `copjmp` does not clear `copper_skip_next`: the first instruction of the new
  list may be skipped.
* The first block of one word on a sound channel is two words long.
* The position word of a sprite changes the low part of its start before the
  control word brings the high bit (custom.cpp 2692, 2999-3004). If the line made
  of both is that of the beam, the comparison (2000-2015) switches the DMA on and
  off twice before the second word; were there an odd number of pixels between
  the two, data would be fetched in wrong lines. That does happen after an
  image without lines (its start is its end) if the next has the same position
  word and another sprite keeps the comparison awake: the DMA is on when the
  second word comes and stays on. A sprite that starts on the line of its own
  control words is fetched or not as the comparison happens to be awake. Both
  are excepted in `WholeSprites` (`again`, `at`).
* Lines whose last fetch runs past the end of the line never stop, nor add
  their modulo; a DDFSTOP equal to DDFSTRT is never seen.
* DSKLEN armed with 0 words meets TODO_ASSERT(nwords > 0). A write of less than
  a track puts the rest of the buffer on the disk with it, and `dirty_` is only
  set at a track's end (disk_file.cpp 188). The label check (171) lets sector 11
  through. A disk with fewer cylinders put in under the head is read beyond its
  end (265).
* `reset` leaves one port input of CIA-A low (cia.cpp 472);
  `set_button_state` asserts idx < 1 (336), and main.cpp 2378 calls it with 1.
* A key release the keyboard's ring refuses is lost: the key sticks.

*CPU.*
* After an address error the undoing of (An)+ and -(An) looks at the operand
  calculated last only (the break at cpu.cpp 354). A7 stays changed when UNLK,
  a push or -(A7) fails.
* An odd vector is taken outside of the try block and leaves `step` as a C++
  exception; an odd supervisor stack is a runtime_error.
* A masked level other than 0 ends STOP (121). An interrupt before the first
  instruction of a traced routine is followed by one trace too many.
* DIVS negates INT_MIN (1516), undefined in C++.

*Boards and folders.*
* A state saved between the two address writes of a board loses the low digit
  (autoconf.cpp 196 saves neither `low_addr_hold_` nor `has_low_addr_`); the run
  keeps saves away from there (`SaveMidWrite = FALSE`). A reset after a board
  was shut up asserts that it was active (55).
* `local_ram_free` never lists a lock that is freed behind a free block it does
  not touch (harddisk.cpp 1009). `local_ram_alloc` unlinks a block only at the
  head of the list; `RamSound` shows why that is enough for today's requests.
* Renaming to the root or to an empty name meets the assertion at 1963, MakeDir
  of ".." the one at 1946. A rename of a directory whose entries are known
  leaves their parents dangling (`LiveTree` says so). FINDOUTPUT truncates a
  locked file before it looks at the lock (1932). ExNext ends early when the
  entry it stands on is deleted.
* A READ of 0 bytes or of a whole disk meets `disk_read`'s assertion (1250); a
  write is not checked against its partition. An older file system of an
  earlier disk stays before a newer one.
* A state keeps of the board only `ptr_hold_` (1237); `put_vector`
  (state_file.cpp 231) saves the bytes of `std::string` objects, pointers
  included, for the two lists at main.cpp 722.

*Main loop and audio.*
* A disk chosen while one is pending goes in at once and is replaced by the
  older one when the countdown ends, also after an eject (main.cpp 2421).
* A RESET instruction overwrites a keyboard reset of the same step (2477). A
  reset is put off while the debugger traces.
* `write_state` asserts that no cycles are owed (2260), which may fail in three
  ways. With `-cpuscale` above 1 an instruction leaves the rest,
  `cycles_todo % cpu_scale` (1203-1208). STOP goes without `do_all_custom_cylces`
  (2470-2474). And an exception leaves what there is: out of the CPU (2467) with
  `cpu_active` set, so that the debugger's reads run chip cycles; out of the chips
  with `cpu_active` clear (1148-1151) and the cycles that were run not taken off
  (1208), also behind the instruction (2479). `LoopKeepsItsState` says what
  holds: at a prompt after no exception, with a CPU that is not stopped, no whole
  cycle is owed, which is none for a scale of 1.
* 'g' leaves the waits as they are, 'g addr' changes the PC without a prefetch.
* A plain `zf` (or `zv 0 0`) waits for the place where a frame starts. When it is
  reached (main.cpp 1161-1165) the hand-over in the `else if` (1166-1182) is not:
  the sound of that frame is lost. `EachFrameOnce` excepts these frames
  (`skipped`), so they leave a gap in the numbers of `InOrderUntilUnderrun`.
* After one underrun frames are heard in the order 2, 1, 4, 3 (1345-1351). The
  device is destroyed after the mutex its callback locks (983).
* `WaveOut`: a header written after `waveOutReset` is still the device's when
  it is freed.
* The SDL prompt (sdl_driver.cpp 324-387): closing the window while the reader
  waits for a line leads to assert(msg == none) at the next message (359).
* The serial terminal asserts on an escape inside an escape sequence and on nine
  bits, and drops blank lines of bare LF or CR.

*Tools.*
* The table and the assembler disagree: BTST #n,d(PC) is 2 bytes off (asm.cpp
  961), EXG An,Dn gets the wrong registers (1271), EOR <ea>,Dn becomes CMP
  (1739), MOVE CCR,<ea> becomes MOVE SR, MOVEM d8(PC,Xn) borrows out of small
  displacements (1393). The assembler refuses TST of an immediate, MOVEQ #$FF
  and $FFF0.W as the disassembler prints them, and takes several operands the
  table has not. `ReadBack` is about what the disassembler reads, so of these
  it excepts the two that come out of opcodes, `OnlyInTable` (TST) and
  `PcBehindBitNumber` (BTST).
* A byte label known only later at an even offset, and a word at an odd one,
  meet an assertion (820); TRAP with a later name drops its fixup; an EQU that
  names itself is 0.
* The analyzer takes the last operand of `find_area` as exclusive and that of
  `handle_data_area` as inclusive; a word-sized move keeps what is known of its
  register. The loader compares with `size() - 4` of a hunk that may be empty
  (m68kdisasm.cpp 6463, 6478) and prints `table_size` hunks although fewer were
  read (6520).
* `filelist` (adf.cpp 477-522) stops following a chain at a file; `write_file`
  allocates before it looks for the directory. DMS code lengths that are more
  than a whole code are accepted, and what a track leaves in the tables stays
  after `reset`.

## 6. What is left out, and why

Inside the modelled parts: pixels, masks and shifts of the blitter; colours,
priorities, collisions and hold-and-modify; that sprites being drawn keep
the comparison awake, and that a display which starts early takes slots of the
last sprites; the other DMA channels in
`Blitter`, which are one contender for the bus; the copper's writes to blitter
registers; motor delay, index pulse and drive identification; modulation and
volumes of sound; the receiving side of the serial port; data behind the memory
map and the A1000's writable boot ROM; bytes, dates and comments of files;
checksums; cycles of instructions; the lexer and the syntax of operands; layout
of listings and the names of library calls; the debugger's printing commands;
in `MainLoop` a start from a saved state, test mode (which ends the program at an
exception) and exceptions out of the window, the reset or the ports.

Not modelled at all: state files (a format of scopes over bytes; what is saved
by autoconfiguration is in `Autoconf`), the real-time clock, the debug board and
the utilities (no state over time), the window systems (I/O; gui_win32.cpp is
the largest file of that kind), and the tests.

## 7. Plan

Next in the models: the guest's driver in exprom.asm as a module of its own,
above `Board` and `Volumes`; the lexer of asm.cpp; the deep modes of dms.cpp if
the code gains them; the identification of drives.

Next in the proofs: the order of what is reported in a scan of `Volumes` as an
action property; the words written by `Floppy`; that a label of `Asm` has one value
(`Assembled`), and that a window of `Dms` gives back what went into it, both
inductions along a list of statements or tokens; `FilesKept` along a chain of
extension blocks.
