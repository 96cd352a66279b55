------------------------------ MODULE MCMachine -----------------------------
(* The machine's devices, each with the guest that programs it: nothing    *)
(* one does here changes the state of another, so a behaviour is one of a  *)
(* single device, chosen in the initial state ("part"); the others stay as *)
(* they are after a reset.  The CIA's timers, clock and keyboard are three *)
(* such parts, for the size of their product.                              *)
EXTENDS Cia, Copper, Floppy, Paula, Bitplanes, Sprites

VARIABLE part

-----------------------------------------------------------------------------
(* One drive; an extended image of two cylinders and a plain one of one     *)
MCCylinders == [d \in {"x", "y"} |-> IF d = "x" THEN 2 ELSE 1]
MCPort(sel, side, dir, pulse) == [sel |-> sel, motor |-> TRUE, side |-> side, dir |-> dir, step |-> pulse]
MCPorts == {MCPort({}, TRUE, FALSE, TRUE), MCPort({0}, TRUE, FALSE, TRUE),
            MCPort({0}, FALSE, FALSE, FALSE), MCPort({0, 1}, TRUE, FALSE, TRUE)}

(* A list with every instruction, two of them the targets of jumps *)
I(op, reg, val, v, ve, h, bfd) == [op |-> op, reg |-> reg, val |-> val, v |-> v, ve |-> ve, h |-> h, bfd |-> bfd]
Mv(reg, val) == I("move", reg, val, 0, 1, 0, TRUE)
Wt(op, v, ve, h, bfd) == I(op, "none", 0, v, ve, h, bfd)
MCList == <<Wt("skip", 0, 1, 0, TRUE), Mv("COPJMP2", 0), Wt("wait", 2, 1, 2, FALSE), Mv("dangerous", 3),
            Mv("color", 4), Wt("wait", 2, 2, 1, TRUE), Wt("skip", 3, 1, 0, FALSE), Mv("color", 7),
            Wt("end", 0, 1, 0, TRUE)>>
MCProgram == [i \in 0 .. Len(MCList) - 1 |-> MCList[i + 1]]

-----------------------------------------------------------------------------
CiaParts == {"timer A", "timer B", "tod", "keyboard"}

(* Of the display only its own part has every mode *)
MCMode == [ddfstrt |-> 8, ddfstop |-> 16, hires |-> FALSE, bpu |-> 0, scroll |-> [s \in Sets |-> 0]]

MachineInit ==
  /\ part \in CiaParts \cup {"disk", "copper", "audio", "bitplanes", "sprites"}
  /\ CiaInit /\ CopperInit /\ FloppyInit /\ PaulaInit /\ BitplaneInit /\ SpritesInit
  /\ part # "bitplanes" => regs = MCMode

MachineNext ==
  /\ UNCHANGED part
  /\ \/ /\ part \in CiaParts
        /\ CiaNext({t \in {"A", "B"} : part = "timer " \o t}, part = "tod",
                           IF part = "keyboard" THEN Keys ELSE {})
        /\ UNCHANGED <<floppy_vars, copper_vars, paula_vars, bitplane_vars, sprite_vars>>
     \/ /\ part = "disk" /\ FloppyNext
        /\ UNCHANGED <<cia, copper_vars, paula_vars, bitplane_vars, sprite_vars>>
     \/ /\ part = "copper" /\ CopperNext
        /\ UNCHANGED <<cia, floppy_vars, paula_vars, bitplane_vars, sprite_vars>>
     \/ /\ part = "audio" /\ PaulaNext
        /\ UNCHANGED <<cia, floppy_vars, copper_vars, bitplane_vars, sprite_vars>>
     \/ /\ part = "bitplanes" /\ BitplaneStep
        /\ UNCHANGED <<cia, floppy_vars, copper_vars, paula_vars, sprite_vars>>
     \/ /\ part = "sprites" /\ SpritesNext
        /\ UNCHANGED <<cia, floppy_vars, copper_vars, paula_vars, bitplane_vars>>

MachineSpec == MachineInit /\ [][MachineNext]_<<part, cia, floppy_vars, copper_vars, paula_vars, bitplane_vars, sprite_vars>>

(* What each device promises, stated in its module: TimerOnTime and         *)
(* CiaKeepsOrder in Cia, ListSpec in Copper, DiskDataKept in Floppy,         *)
(* BlocksHeard in Paula, LineShown in Bitplanes, WholeSprites in Sprites.    *)
=============================================================================
