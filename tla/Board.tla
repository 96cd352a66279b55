-------------------------------- MODULE Board --------------------------------
(***************************************************************************)
(* The harddisk board (harddisk.cpp) as its driver in exprom.asm uses it:  *)
(* a pointer is written to ptr_hold_, then a command that works on what is *)
(* there.  The disks are read when the board is reset, the driver asks for *)
(* file systems and partitions while it starts, and then every task that   *)
(* does I/O runs BeginIO itself.                                           *)
(*                                                                         *)
(* Sizes are in half sectors, so that not everything is whole sectors.     *)
(***************************************************************************)
EXTENDS Integers, Sequences, SequencesExt

CONSTANTS
  Tasks,          (* AmigaDOS processes that call BeginIO                  *)
  Disks,          (* sets of harddisk files: sequences of [size, rdb, parts, *)
                  (* fss], the last two the lists of a rigid disk block    *)
  Resources,      (* what AmigaOS has already: sets of [dos_type, version] *)
  DiskRequests    (* [cmd, unit, ofs, len]; SCSI: ofs is lba, buf the length *)

ASSUME BoardAssumption ==
  /\ \A r \in DiskRequests : r.ofs \in Nat /\ r.len \in Nat
  /\ \A files \in Disks :
       /\ Len(files) \in Nat
       /\ \A i \in 1 .. Len(files) :
            /\ files[i].size \in Nat
            /\ files[i].rdb => DOMAIN files[i].parts = 1 .. Len(files[i].parts) /\ Len(files[i].parts) \in Nat

sector_size == 2
NoPtr == <<>>

VARIABLES
  hds, partitions, filesystems,   (* what init_disks made                  *)
  ptr_hold,
  booting,    (* how far initRoutine is: <<"resource">>, <<"fs", i>>, ...  *)
  resource,   (* FileSystem.resource's entries                             *)
  seglists,   (* what handle_init told of each partition: a file system or 0 *)
  io,         (* [Tasks -> [pc, req, served]]                              *)
  board_end   (* "ok", or how the last command ended: "assert", "throw"    *)

board_vars == <<hds, partitions, filesystems, ptr_hold, booting, resource, seglists, io, board_end>>

-----------------------------------------------------------------------------
(* init_disks.  A list is a value, so one that closes on itself is one with *)
(* more than max entries.                                                   *)
MaxPartitions == 10
MaxFileSystems == 11

partition_name_ok(ps, name) == \A i \in DOMAIN ps : ps[i].name # name

(* TRUE in the pair: an exception was thrown *)
AddPartition(acc, p) ==
  IF acc[2] \/ ~partition_name_ok(acc[1], p.name) THEN <<acc[1], TRUE>>
  ELSE IF p.no_automount THEN acc ELSE <<Append(acc[1], p), FALSE>>

AddPartitions(acc, ps) ==
  LET added[k \in 0 .. Len(ps)] == IF k = 0 THEN acc ELSE AddPartition(added[k - 1], ps[k])
  IN  added[Len(ps)]

PlainName(ps) == CHOOSE n \in 0 .. Len(ps) :
                   /\ partition_name_ok(ps, n)
                   /\ \A m \in 0 .. n - 1 : ~partition_name_ok(ps, m)

Needed(ps, fss, f) ==
  /\ \A i \in DOMAIN fss : ~(fss[i].dos_type = f.dos_type /\ fss[i].version >= f.version)
  /\ \E i \in DOMAIN ps : ps[i].dos_type = f.dos_type

AddFileSystem(ps, fss, f) ==
  IF f.no_segments \/ ~Needed(ps, fss, f) THEN fss
  ELSE Append(fss, [dos_type |-> f.dos_type, version |-> f.version, seglist |-> 0])

ReadDisk(acc, d) ==
  LET hd == Len(acc.hds) + 1
      OnDisk(p) == [name |-> p.name, dos_type |-> p.dos_type, hd |-> hd, no_automount |-> p.no_automount]
      listed == AddPartitions(<<acc.partitions, FALSE>>, [i \in DOMAIN d.parts |-> OnDisk(d.parts[i])])
      plain == [name |-> PlainName(acc.partitions), dos_type |-> 0, hd |-> hd, no_automount |-> FALSE]
  IN  [hds |-> Append(acc.hds, d.size),
       partitions |-> IF d.rdb THEN listed[1] ELSE Append(acc.partitions, plain),
       filesystems |-> IF d.rdb THEN FoldLeft(LAMBDA a, f : AddFileSystem(listed[1], a, f), acc.filesystems, d.fss)
                       ELSE acc.filesystems,
       failed |-> \/ acc.failed
                  \/ d.rdb /\ (listed[2] \/ Len(d.parts) > MaxPartitions \/ Len(d.fss) > MaxFileSystems)]

NoDisks == [hds |-> <<>>, partitions |-> <<>>, filesystems |-> <<>>, failed |-> FALSE]

init_disks(files) ==
  LET read[k \in 0 .. Len(files)] == IF k = 0 THEN NoDisks ELSE ReadDisk(read[k - 1], files[k])
  IN  read[Len(files)]

-----------------------------------------------------------------------------
(* write_u16: the pointer, then the command.  No command is carried out     *)
(* with no pointer; each forgets it, also one that throws.                  *)
(* Mutant: it is kept for the next one *)
PtrAfterKept(p) == p

PtrAfter(p) == NoPtr

Tells(how) == ptr_hold' = PtrAfter(ptr_hold) /\ board_end' = how

(* handle_fs_resource: file systems that AmigaOS has as new are not offered *)
Offered(f) == \A r \in resource : ~(r.dos_type = f.dos_type /\ f.version <= r.version)

handle_fs_resource ==
  /\ booting = <<"resource">>
  /\ filesystems' = SelectSeq(filesystems, Offered)
  /\ booting' = IF filesystems' = <<>> THEN <<"unit", 1>> ELSE <<"fs", 1>>
  /\ Tells("ok")
  /\ UNCHANGED <<hds, partitions, resource, seglists, io>>

(* handle_fs_info_req and handle_fs_initseg for file system i; AllocMem may *)
(* have failed for one of its hunks                                         *)
handle_fs_initseg(i, allocated) ==
  /\ booting = <<"fs", i>>
  /\ IF allocated /\ filesystems[i].seglist = 0
     THEN /\ filesystems' = [filesystems EXCEPT ![i].seglist = i]
          /\ resource' = resource \cup {[dos_type |-> filesystems[i].dos_type, version |-> filesystems[i].version]}
          /\ booting' = IF i = Len(filesystems) THEN <<"unit", 1>> ELSE <<"fs", i + 1>>
          /\ Tells("ok")
     ELSE /\ booting' = <<"failed">> /\ UNCHANGED <<filesystems, resource>>
          /\ Tells(IF allocated THEN "assert" ELSE "throw")
  /\ UNCHANGED <<hds, partitions, seglists, io>>

SeglistOf(p) ==
  LET own == SelectSeq(filesystems, LAMBDA f : f.dos_type = p.dos_type)
  IN  IF own = <<>> THEN 0 ELSE own[1].seglist

handle_init(u) ==
  /\ booting = <<"unit", u>>
  /\ u \in DOMAIN partitions
  /\ seglists' = Append(seglists, SeglistOf(partitions[u]))
  /\ booting' = IF u = Len(partitions) THEN <<"done">> ELSE <<"unit", u + 1>>
  /\ Tells("ok")
  /\ UNCHANGED <<hds, partitions, filesystems, resource, io>>

-----------------------------------------------------------------------------
(* disk_read's assertion *)
ReadAsserts(size, ofs, len) ==
  ~(/\ len # 0 /\ len % sector_size = 0 /\ ofs % sector_size = 0
    /\ ofs < size /\ len < size /\ ofs + len <= size)

Transfer(size, cmd, ofs, len) ==
  IF cmd = "read" /\ ReadAsserts(size, ofs, len) THEN "assert" ELSE "done"

(* Mutant: offset and length are checked, but not their sum *)
OutsideEach(size, ofs, len) == ofs > size \/ len > size

Outside(size, ofs, len) == ofs > size \/ len > size \/ ofs > size - len

(* handle_disk_cmd *)
DeviceCommand(size, r) ==
  IF r.cmd = "unknown" THEN "no command"
  ELSE IF r.cmd = "other" THEN "done"
  ELSE IF Outside(size, r.ofs, r.len) \/ r.ofs % sector_size # 0 \/ r.len % sector_size # 0
  THEN "bad address"
  ELSE Transfer(size, r.cmd, r.ofs, r.len)

(* do_scsi_cmd READ (10), WRITE (10): whole sectors                         *)
ScsiCommand(size, r) ==
  LET lba == r.ofs * sector_size
      len == r.len * sector_size
      cmd == IF r.cmd = "scsi read" THEN "read" ELSE "write"
  IN  IF Outside(size, lba, len) \/ (cmd = "write" /\ r.buf # len) THEN "scsi error"
      ELSE Transfer(size, cmd, lba, len)

Serve(r) ==
  IF r.unit \notin DOMAIN partitions THEN "throw"
  ELSE LET size == hds[partitions[r.unit].hd]
       IN  IF r.cmd \in {"scsi read", "scsi write"} THEN ScsiCommand(size, r) ELSE DeviceCommand(size, r)

-----------------------------------------------------------------------------
(* BeginIO in two instructions, with any other task's between them          *)
Idle == [pc |-> "idle", req |-> NoPtr, served |-> <<>>]

BeginIO(t, r) ==
  /\ booting = <<"done">> /\ board_end # "assert" /\ io[t].pc = "idle"
  /\ ptr_hold' = <<t>>
  /\ io' = [io EXCEPT ![t] = [pc |-> "command", req |-> r, served |-> <<>>]]
  /\ UNCHANGED <<hds, partitions, filesystems, booting, resource, seglists, board_end>>

WriteCommand(t) ==
  /\ board_end # "assert" /\ io[t].pc = "command"
  /\ IF ptr_hold = NoPtr                         (* "Invalid conditions!"  *)
     THEN /\ io' = [io EXCEPT ![t].pc = "replied"]
          /\ UNCHANGED <<ptr_hold, board_end>>
     ELSE LET u == ptr_hold[1]
              how == Serve(io[u].req)
              after == [io EXCEPT ![u].served = Append(@, how)]
          IN  /\ io' = [after EXCEPT ![t].pc = "replied"]
              /\ Tells(IF how \in {"assert", "throw"} THEN how ELSE "ok")
  /\ UNCHANGED <<hds, partitions, filesystems, booting, resource, seglists>>

(* ReplyMsg, and the task goes on *)
Replied(t) ==
  /\ board_end # "assert" /\ io[t].pc = "replied"
  /\ io' = [io EXCEPT ![t] = Idle]
  /\ UNCHANGED <<hds, partitions, filesystems, ptr_hold, booting, resource, seglists, board_end>>

Made(files, have) ==
  LET d == init_disks(files)
  IN  /\ d.failed = FALSE
      /\ hds' = d.hds /\ partitions' = d.partitions /\ filesystems' = d.filesystems
      /\ resource' = have

(* do_reset; the harddisk files may have been formatted meanwhile, and the  *)
(* exception for a list that cannot be read leaves no machine to go on with *)
board_reset(files, have) ==
  /\ booting \in {<<"done">>, <<"failed">>} /\ board_end # "assert"
  /\ Len(files) = Len(hds) /\ Made(files, have)
  /\ ptr_hold' = NoPtr /\ booting' = <<"resource">> /\ seglists' = <<>>
  /\ io' = [t \in Tasks |-> Idle] /\ board_end' = "ok"

BoardInit ==
  /\ \E files \in Disks, have \in Resources :
       LET d == init_disks(files)
       IN  /\ d.failed = FALSE
           /\ hds = d.hds /\ partitions = d.partitions /\ filesystems = d.filesystems
           /\ resource = have
  /\ ptr_hold = NoPtr /\ booting = <<"resource">> /\ seglists = <<>>
  /\ io = [t \in Tasks |-> Idle] /\ board_end = "ok"

BoardNext ==
  \/ handle_fs_resource
  \/ \E i \in DOMAIN filesystems, allocated \in BOOLEAN : handle_fs_initseg(i, allocated)
  \/ \E u \in DOMAIN partitions : handle_init(u)
  \/ \E t \in Tasks : \/ \E r \in DiskRequests : BeginIO(t, r)
                      \/ WriteCommand(t)
                      \/ Replied(t)
  \/ \E files \in Disks, have \in Resources : board_reset(files, have)

BoardSpec == BoardInit /\ [][BoardNext]_board_vars

-----------------------------------------------------------------------------
(***************************************************************************)
(* A request is carried out at most once, however the tasks' instructions  *)
(* interleave: a second command finds no pointer.                          *)
(***************************************************************************)
ServedOnce == \A t \in Tasks : Len(io[t].served) <= 1

(***************************************************************************)
(* "harddisk: Invalid conditions!": BeginIO replies a request as done only *)
(* after the board has seen it.                                            *)
(***************************************************************************)
RepliedIsServed == \A t \in Tasks : io[t].pc = "replied" => io[t].served # <<>>

(***************************************************************************)
(* A request that is done was for whole sectors of the disk it names, and  *)
(* only one for nothing, or for all of the disk, meets disk_read's         *)
(* assertion.                                                              *)
(***************************************************************************)
Bytes(r) == IF r.cmd \in {"scsi read", "scsi write"}
            THEN <<r.ofs * sector_size, r.len * sector_size>> ELSE <<r.ofs, r.len>>

AccessInRange ==
  \A t \in Tasks : \A i \in DOMAIN io[t].served :
    LET r == io[t].req
        size == hds[partitions[r.unit].hd]
        at == Bytes(r)[1]
        len == Bytes(r)[2]
    IN  /\ (io[t].served[i] = "done" /\ r.cmd # "other") =>
             /\ at % sector_size = 0 /\ len % sector_size = 0 /\ at + len <= size
        /\ io[t].served[i] = "assert" => len \in {0, size}

(***************************************************************************)
(* handle_disk_cmd carries a request out at most once, and only on whole   *)
(* sectors of its disk.                                                    *)
(***************************************************************************)
ServedRight == ServedOnce /\ AccessInRange
=============================================================================
