------------------------------ MODULE Autoconf ------------------------------
(***************************************************************************)
(* The memory map of memory.cpp and the Zorro II autoconfiguration of      *)
(* autoconf.cpp that changes it while the machine runs: boards are given   *)
(* their address one after the other, the ROM is laid over chip RAM and    *)
(* taken off, a reset undoes it all, and a saved state is restored into a  *)
(* fresh emulator.                                                         *)
(*                                                                         *)
(* Addresses are pages of 64K (a board's size is a multiple of one), of    *)
(* which LoPages share a high digit: the guest writes the two digits of a  *)
(* page apart, as the two nibbles of the address byte.  The contents of    *)
(* the areas, reads of the configuration bytes and the fixed areas of the  *)
(* custom chips, clock and slow RAM, which never change, are left out.     *)
(***************************************************************************)
EXTENDS Integers, Sequences, FiniteSets, SequencesExt

CONSTANTS
  Boards,      (* the boards' handlers, in the order of add_device         *)
  Size,        (* [board -> pages]                                         *)
  LoPages, HiPages,
  Expansion,   (* the pages the guest gives to boards                      *)
  RomBase, RomLen, AutoBase, CiaBase,
  MayShutup,   (* the guest shuts up boards it has no use for              *)
  SaveMidWrite (* a state may be saved between the two address writes      *)

Devs == {Boards[i] : i \in DOMAIN Boards}
Pages == 0 .. LoPages * HiPages - 1

ASSUME AutoconfAssumption ==
  /\ {LoPages, HiPages, RomLen} \subseteq Nat \ {0}
  /\ Boards \in Seq(Devs) /\ IsInjective(Boards)
  /\ Devs \cap {"rom", "cia", "autoconf", "none"} = {}
  /\ Size \in [Devs -> Nat \ {0}]
  /\ {RomBase, AutoBase, CiaBase} \subseteq Nat
  /\ Expansion \subseteq Pages \ (0 .. RomLen - 1)
  /\ {MayShutup, SaveMidWrite} \subseteq BOOLEAN

(* The fixed areas, the ROM's overlay and the boards' space lie apart       *)
ASSUME LayoutAssumption ==
  LET rom == RomBase .. RomBase + RomLen - 1
      taken == (0 .. RomLen - 1) \cup Expansion
  IN  /\ AutoBase # CiaBase
      /\ {AutoBase, CiaBase} \cap (rom \cup taken) = {}
      /\ rom \cap taken = {}

VARIABLES
  areas,        (* the list find_area searches                             *)
  ovl,          (* the ROM is laid over page 0                             *)
  devices,      (* boards to configure: the last is the one the guest sees *)
  configured,   (* the others, in the order they were configured           *)
  mode, base,   (* of each board                                           *)
  low_addr_hold, has_low_addr,
  target,       (* the page the guest is writing, or -1                    *)
  meant,        (* history: the page the guest gave each board, or -1      *)
  file,         (* the saved state: what a restored machine must look like *)
  failed        (* an assertion failed                                     *)

boardVars == <<devices, configured, mode, base>>
latchVars == <<low_addr_hold, has_low_addr>>
guestVars == <<target, meant>>
vars == <<areas, ovl, boardVars, latchVars, guestVars, file, failed>>

-----------------------------------------------------------------------------
(* memory_handler *)

Range64K(b, len) == b .. b + len - 1

(* The elements of s that are in S, in their order: a recursive function,  *)
(* of which the proofs show what it returns                                *)
Among(s, S) ==
  LET first[i \in 0 .. Len(s)] ==
        IF i = 0 THEN <<>>
        ELSE IF s[i] \in S THEN Append(first[i - 1], s[i]) ELSE first[i - 1]
  IN  first[Len(s)]

(* The index of the first area that holds page p; 0: chip RAM or nothing *)
find_area(as, p) ==
  LET hits == {i \in DOMAIN as : p \in Range64K(as[i].base, as[i].len)}
  IN  IF hits = {} THEN 0 ELSE CHOOSE i \in hits : \A j \in hits : i <= j

HandlerAt(as, p) ==
  LET i == find_area(as, p) IN IF i = 0 THEN "none" ELSE as[i].handler

Area(h, b, len) == [base |-> b, len |-> len, handler |-> h]

CanRegister(as, b) == find_area(as, b) = 0

CanUnregister(as, a) == LET i == find_area(as, a.base) IN i # 0 /\ as[i] = a

unregister_handler(as, a) == RemoveAt(as, find_area(as, a.base))

BoardArea(d, b) == Area(d, b, Size[d])

rom_overlay == Area("rom", 0, RomLen)

(* The areas when the overlay is set to o; unchanged if it was *)
Overlaid(as, o) ==
  IF o = ovl THEN as
  ELSE IF o THEN Append(as, rom_overlay) ELSE unregister_handler(as, rom_overlay)

(* A write to CIA A's port A or its direction changes OVL *)
set_overlay ==
  /\ ovl' = ~ovl
  /\ areas' = Overlaid(areas, ~ovl)
  /\ failed' = (ovl /\ ~CanUnregister(areas, rom_overlay))
  /\ UNCHANGED <<boardVars, latchVars, guestVars, file>>

-----------------------------------------------------------------------------
(* autoconf_handler and autoconf_device, written by the guest's             *)
(* expansion.library: a free range for the board that shows up, aligned to  *)
(* its size, the low digit of its first page, then the high digit, which    *)
(* makes it active                                                          *)

Dev == Last(devices)

Free(d, p) ==
  LET range == Range64K(p, Size[d])
  IN  /\ range \subseteq Expansion /\ p % Size[d] = 0
      /\ \A e \in Devs : meant[e] # -1 => range \cap Range64K(meant[e], Size[e]) = {}

(* Mutant: the nibble is not shifted down *)
LowDigitRaw(p) == p

LowDigit(p) == p % LoPages

WriteLow ==
  /\ devices # <<>> /\ target = -1
  /\ \E p \in Pages :
       /\ Free(Dev, p)
       /\ target' = p
       /\ low_addr_hold' = LowDigit(p)
  /\ has_low_addr' = TRUE
  /\ UNCHANGED <<areas, ovl, boardVars, meant, file, failed>>

device_configured ==
  /\ devices' = Front(devices)
  /\ configured' = Append(configured, Dev)
  /\ has_low_addr' = FALSE

(* Mutant: the low digit is lost *)
PageWrittenHigh(hi) == hi * LoPages

PageWritten(hi) == hi * LoPages + low_addr_hold

activate(d, b) ==
  /\ mode' = [mode EXCEPT ![d] = "active"]
  /\ base' = [base EXCEPT ![d] = b]
  /\ areas' = Append(areas, BoardArea(d, b))
  /\ failed' = ~(mode[d] = "autoconf" /\ CanRegister(areas, b))

WriteHigh ==
  /\ devices # <<>> /\ target # -1
  /\ activate(Dev, PageWritten(target \div LoPages))
  /\ device_configured
  /\ meant' = [meant EXCEPT ![Dev] = target]
  /\ target' = -1
  /\ UNCHANGED <<ovl, low_addr_hold, file>>

Shutup ==
  /\ MayShutup /\ devices # <<>> /\ target = -1
  /\ failed' = (mode[Dev] # "autoconf")
  /\ mode' = [mode EXCEPT ![Dev] = "shutup"]
  /\ device_configured
  /\ UNCHANGED <<areas, ovl, base, low_addr_hold, guestVars, file>>

-----------------------------------------------------------------------------
(* memory_handler::reset, from a RESET instruction or the keyboard: every   *)
(* handler registered when it begins is reset, and three of them change     *)
(* the map: the CIA turns the overlay on, autoconf takes the boards back.   *)

(* Mutant: in the order they were configured *)
TakenBackForward == devices \o configured

TakenBack == devices \o Reverse(configured)

(* Mutant: the area stays in the list *)
UnmappedNot(as) == as

(* config_mode of every configured board: its area goes *)
Unmapped(as) == Among(as, {a \in Range(as) : a.handler \notin Devs})

(* config_mode asserts that the board is active, unregister_handler that    *)
(* its area is found                                                        *)
CanConfigMode(d) == mode[d] = "active" /\ CanUnregister(areas, BoardArea(d, base[d]))

reset ==
  /\ ovl' = TRUE
  /\ areas' = Unmapped(Overlaid(areas, TRUE))
  /\ failed' = ~(/\ ovl \/ CanRegister(areas, 0)
                /\ \A d \in Range(configured) : CanConfigMode(d))
  /\ devices' = TakenBack /\ configured' = <<>>
  /\ mode' = [d \in Devs |-> "autoconf"]
  /\ target' = -1 /\ meant' = [d \in Devs |-> -1]
  /\ UNCHANGED <<base, latchVars, file>>

-----------------------------------------------------------------------------
(* write_state, and a new emulator started with the file *)

View == [map |-> [p \in Pages |-> HandlerAt(areas, p)], mode |-> mode,
         devices |-> devices, configured |-> configured, ovl |-> ovl,
         base |-> base, target |-> target, meant |-> meant]

Save ==
  /\ SaveMidWrite \/ target = -1
  /\ file' = View
  /\ UNCHANGED <<areas, ovl, boardVars, latchVars, guestVars, failed>>

fixed_areas == <<Area("rom", RomBase, RomLen), Area("cia", CiaBase, 1)>>
boot_areas == fixed_areas \o <<rom_overlay, Area("autoconf", AutoBase, 1)>>

(* Boards are restored in the order of Boards, whichever list the saved     *)
(* machine had them in: handle_state walks one forward, the other backward. *)
Restored(as, f) ==
  LET active == Among(Boards, {d \in Devs : f.mode[d] = "active"})
  IN  as \o [i \in DOMAIN active |-> BoardArea(active[i], f.base[active[i]])]

(* Mutant: boards that were shut up are offered again *)
IsLeftActive(f, d) == f.mode[d] # "active"

IsLeft(f, d) == f.mode[d] = "autoconf"

(* The last board still in autoconf mode ends the search for configured ones *)
LeftToDo(f) ==
  LET left == {i \in DOMAIN Boards : IsLeft(f, Boards[i])}
  IN  IF left = {} THEN 0 ELSE CHOOSE i \in left : \A j \in left : j <= i

Load ==
  /\ file # <<>>
  /\ ovl' = file.ovl
  /\ areas' = Restored(IF file.ovl THEN boot_areas
                       ELSE unregister_handler(boot_areas, rom_overlay), file)
  /\ mode' = file.mode /\ base' = file.base
  /\ devices' = SubSeq(Boards, 1, LeftToDo(file))
  /\ configured' = Reverse(SubSeq(Boards, LeftToDo(file) + 1, Len(Boards)))
  /\ low_addr_hold' = 0 /\ has_low_addr' = FALSE
  /\ target' = file.target /\ meant' = file.meant
  /\ UNCHANGED <<file, failed>>

-----------------------------------------------------------------------------
Init ==
  /\ areas = boot_areas /\ ovl = TRUE
  /\ devices = Boards /\ configured = <<>>
  /\ mode = [d \in Devs |-> "autoconf"] /\ base = [d \in Devs |-> 0]
  /\ low_addr_hold = 0 /\ has_low_addr = FALSE
  /\ target = -1 /\ meant = [d \in Devs |-> -1]
  /\ file = <<>>
  /\ failed = FALSE

Step == WriteLow \/ WriteHigh \/ Shutup \/ set_overlay \/ reset \/ Save \/ Load

(* A failed assertion ends the program *)
Next == ~failed /\ Step

Spec == Init /\ [][Next]_vars

-----------------------------------------------------------------------------
TypeOK ==
  /\ \A i \in DOMAIN areas :
       areas[i] \in [base : Pages, len : 1 .. Cardinality(Pages),
                     handler : Devs \cup {"rom", "cia", "autoconf"}]
  /\ {ovl, has_low_addr, failed} \subseteq BOOLEAN
  /\ devices \in Seq(Devs) /\ configured \in Seq(Devs)
  /\ mode \in [Devs -> {"autoconf", "shutup", "active"}]
  /\ base \in [Devs -> Pages]
  /\ low_addr_hold \in 0 .. LoPages - 1
  /\ target \in Pages \cup {-1} /\ meant \in [Devs -> Pages \cup {-1}]

(***************************************************************************)
(* No board is lost, doubled or reordered by any sequence of               *)
(* configuration, reset and restore: the guest is offered the same boards  *)
(* in the same order after each reset.                                     *)
(***************************************************************************)
BoardsKeepOrder == devices \o Reverse(configured) = Boards

(* What must answer on a page, from the state of the boards alone *)
Owner(p) ==
  LET active == {d \in Devs : mode[d] = "active" /\ p \in Range64K(base[d], Size[d])}
  IN  IF active # {} THEN CHOOSE d \in active : TRUE
      ELSE IF ovl /\ p < RomLen THEN "rom"
      ELSE HandlerAt(fixed_areas \o <<Area("autoconf", AutoBase, 1)>>, p)

(***************************************************************************)
(* An active board is where the guest put it, also after a restore, every  *)
(* page is answered by the board there, by the overlay when it is on, and  *)
(* by nothing left over from before a reset, and nothing is registered     *)
(* twice.                                                                  *)
(***************************************************************************)
MapFollowsBoards ==
  /\ \A d \in Devs : mode[d] = "active" => base[d] = meant[d]
  /\ ~failed => /\ \A p \in Pages : HandlerAt(areas, p) = Owner(p)
                /\ IsInjective(areas)

(***************************************************************************)
(* The assertions of memory.cpp and autoconf.cpp fail only in a machine    *)
(* with a board that was shut up: a handler is registered on free pages,   *)
(* unregistered where it is, and only an active board goes back to         *)
(* configuration.                                                          *)
(***************************************************************************)
OnlyShutupFails == [][failed' => \E d \in Devs : mode[d] = "shutup"]_vars

(***************************************************************************)
(* A restored machine has the map and the boards of the saved one.         *)
(***************************************************************************)
LoadRestores == [][Load => View' = file]_vars

=============================================================================
