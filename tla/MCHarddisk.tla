----------------------------- MODULE MCHarddisk -----------------------------
(* The board's RAM and the board's commands: nothing one does changes the  *)
(* state of the other, so a behaviour is one of either.  Two shared        *)
(* folders, with a short name and with one of 30 characters; a disk with a *)
(* rigid disk block and a plain one.                                       *)
EXTENDS LocalRam, Board

VARIABLE side

MCNameBytes == <<6, 32>>

MCPart(name, type) == [name |-> name, dos_type |-> type, no_automount |-> FALSE]

MCFs(type, version) == [dos_type |-> type, version |-> version, no_segments |-> FALSE]

MCRigid == [size |-> 8, rdb |-> TRUE,
            parts |-> <<MCPart(0, 1), [MCPart(1, 2) EXCEPT !.no_automount = TRUE]>>,
            fss |-> <<MCFs(1, 1), MCFs(1, 2), MCFs(2, 1), [MCFs(1, 3) EXCEPT !.no_segments = TRUE]>>]

MCPlain == [size |-> 4, rdb |-> FALSE, parts |-> <<>>, fss |-> <<>>]

MCDisks == {<<MCRigid, MCPlain>>, <<MCPlain, MCPlain>>}

MCResources == {{}, {[dos_type |-> 1, version |-> 1]}}

MCReq(cmd, unit, ofs, len, buf) == [cmd |-> cmd, unit |-> unit, ofs |-> ofs, len |-> len, buf |-> buf]

MCDiskRequests ==
  {MCReq(cmd, 2, ofs, len, 0) : cmd \in {"read", "write"}, ofs \in {0, 1, 2, 4}, len \in {0, 2, 4}}
    \cup {MCReq("scsi read", 2, lba, 1, 2) : lba \in 0 .. 2}
    \cup {MCReq("scsi write", 2, 1, 1, buf) : buf \in {2, 4}}
    \cup {MCReq("read", 3, 0, 2, 0), MCReq("other", 1, 0, 0, 0), MCReq("unknown", 1, 0, 0, 0)}

HarddiskInit ==
  /\ Init /\ BoardInit
  /\ side \in {"ram", "board"}
  /\ side = "ram" => resource = {} /\ Len(filesystems) = 0

HarddiskNext ==
  /\ UNCHANGED side
  /\ \/ side = "ram" /\ Next /\ UNCHANGED board_vars
     \/ side = "board" /\ BoardNext /\ UNCHANGED vars

HarddiskSpec == HarddiskInit /\ [][HarddiskNext]_<<vars, board_vars, side>>

(* What the board promises is stated in its modules: RamSound in LocalRam,  *)
(* ServedRight and RepliedIsServed in Board.                                *)
=============================================================================
