------------------------------- MODULE Floppy -------------------------------
(***************************************************************************)
(* The disk drives (disk_drive.cpp, disk_file.cpp), CIA-B's port that      *)
(* selects and steps them (cia.cpp) and the disk DMA of the custom chips   *)
(* (custom.cpp).                                                           *)
(*                                                                         *)
(* A track is a row of sectors, a sync word and a word of data each, and   *)
(* the gap.  The position on the track counts words, not bits, and is kept *)
(* within the track.  The motor's and the index pulse's counters are left  *)
(* out.                                                                    *)
(***************************************************************************)
EXTENDS Integers, Sequences, FiniteSets

CONSTANTS
  Drives,       (* those present, of max_drives                            *)
  Disks,
  Cylinders,    (* [Disks -> Nat]: num_cylinders()                         *)
  Extended,     (* the disks that are extended ADF files                   *)
  Sectors,      (* sectors of a track: NUMSECS                             *)
  Speed,        (* floppy_speed_: words in a DMA slot                      *)
  SyncWait,     (* dskwait after the sync word                             *)
  Lengths,      (* the word counts the guest writes                        *)
  Image,        (* the track whose image the guest has in memory           *)
  PortValues    (* what the guest writes to CIA-B's port B                 *)

ASSUME FloppyAssumption ==
  /\ Cylinders \in [Disks -> Nat] /\ Sectors \in Nat \ {0} /\ Image \in Nat
  /\ Speed \in Nat /\ SyncWait \in Nat /\ Lengths \subseteq Nat
  /\ \A after \in PortValues : after.motor \in BOOLEAN /\ after.side \in BOOLEAN /\ after.dir \in BOOLEAN

VARIABLES
  port,          (* CIA-B port B: the drives selected, and the other lines *)
  drive,         (* [Drives -> [motor, side, seek_dir, cyl, data]]         *)
  content,       (* what the disks hold: [Disks -> [track -> [sector -> data]]] *)
  dsklen, dsklen_act, dskpos, dskread, dsksync_passed, dskwait,
  wordsync,      (* ADKCON: wait for the sync word                         *)
  mfm_track, mfm_pos,
  irq,           (* what the last step raised: "DSKBLK", "DSKSYNC"         *)
  fault,         (* the exception or assertion the last step met           *)
  moved,         (* words moved since the last write to DSKLEN             *)
  steady         (* WORDSYNC has not been touched since                    *)

dma == <<dsklen, dsklen_act, dskpos, dskread, dsksync_passed, dskwait, mfm_track, mfm_pos, moved>>
floppy_vars == <<port, drive, content, dsklen, dsklen_act, dskpos, dskread, dsksync_passed,
                 dskwait, wordsync, mfm_track, mfm_pos, irq, fault, moved, steady>>

NoDisk == "no disk"
NoTransfer == [on |-> FALSE, write |-> FALSE, n |-> 0]
NoFault == "none"
Sync == [is |-> "sync"]
Gap == [is |-> "gap"]
Data(track, sec, from) == [is |-> "data", track |-> track, sec |-> sec, from |-> from]

TrackWords == 2 * Sectors + 1
Secs == 0 .. Sectors - 1

(* format_std_track; sector i is words 2i and 2i + 1 *)
Formatted(track, from) ==
  [w \in 0 .. TrackWords - 1 |->
     IF w = TrackWords - 1 THEN Gap
     ELSE IF w % 2 = 0 THEN Sync ELSE Data(track, w \div 2, from[w \div 2])]

-----------------------------------------------------------------------------
(* The drives *)
set_motor(d, on) == [d EXCEPT !.motor = on]
set_side_dir(d, side, out) == [d EXCEPT !.side = side, !.seek_dir = out]

dir_step(d) ==
  IF ~d.seek_dir /\ d.data # NoDisk /\ d.cyl < Cylinders[d.data] - 1 THEN [d EXCEPT !.cyl = @ + 1]
  ELSE IF d.seek_dir /\ d.cyl > 0 THEN [d EXCEPT !.cyl = @ - 1] ELSE d

(* A port write, as one drive sees it *)
Driven(d, n, before, after) ==
  IF n \notin after.sel THEN d
  ELSE LET motored == IF n \notin before.sel THEN set_motor(d, after.motor) ELSE d
           faced == set_side_dir(motored, after.side, after.dir)
       IN  IF ~before.step /\ after.step THEN dir_step(faced) ELSE faced

recalc_disk(after) ==
  /\ port' = after
  /\ drive' = [n \in Drives |-> IF after = port THEN drive[n] ELSE Driven(drive[n], n, port, after)]
  /\ irq' = {} /\ fault' = NoFault
  /\ UNCHANGED <<content, dma, wordsync, steady>>

insert_disk(n, d) ==
  /\ d \in Disks => \A o \in Drives : drive[o].data # d
  /\ drive' = [drive EXCEPT ![n].data = d]
  /\ irq' = {} /\ fault' = NoFault
  /\ UNCHANGED <<port, content, dma, wordsync, steady>>

tracknum(d) == (IF d.side THEN 0 ELSE 1) + d.cyl * 2

-----------------------------------------------------------------------------
(* Disk DMA *)
(* Mutant: a write to DSKLEN does not begin anew *)
PosKept == dskpos

PosAfterWrite == 0

WriteDsklen(val) ==
  /\ dsklen_act' = IF dsklen = val THEN val ELSE NoTransfer
  /\ dsklen' = val
  /\ dskwait' = 0 /\ dskpos' = PosAfterWrite /\ dsksync_passed' = FALSE /\ dskread' = FALSE
  /\ moved' = <<>> /\ steady' = TRUE /\ irq' = {} /\ fault' = NoFault
  /\ UNCHANGED <<port, drive, content, wordsync, mfm_track, mfm_pos>>

WriteAdkcon(on) ==
  /\ wordsync' = on /\ steady' = (steady /\ on = wordsync)
  /\ irq' = {} /\ fault' = NoFault
  /\ UNCHANGED <<port, drive, content, dma>>

(* In a slot only one drive may be selected; a fault leaves the rest of the slot undone *)
Faulty(why) == fault' = why /\ irq' = {} /\ UNCHANGED <<port, drive, content, dma, wordsync, steady>>
Active == CHOOSE n \in Drives : port.sel = {n}
ActiveFault == IF Cardinality(port.sel) > 1 THEN "Multiple drives selected"
               ELSE IF \E n \in Drives : port.sel = {n} THEN NoFault ELSE "Invalid drive selected"

Done(pos, n) == pos = n

Ends(pos, n) ==
  /\ dskpos' = pos
  /\ irq' = IF Done(pos, n) THEN {"DSKBLK"} ELSE {}
  /\ dsklen_act' = IF Done(pos, n) THEN NoTransfer ELSE dsklen_act

(* Only an extended ADF file checks the track *)
NotOnDisk(d) == IF d.data \in Extended THEN "tracknum < info_.size()" ELSE "read past data_"

ReadTrack ==
  LET d == drive[Active] IN
  IF ActiveFault # NoFault THEN Faulty(ActiveFault)
  ELSE IF ~d.motor THEN Faulty("Reading while motor is not on")
  ELSE IF d.data # NoDisk /\ tracknum(d) \notin DOMAIN content[d.data] THEN Faulty(NotOnDisk(d))
  ELSE /\ mfm_track' = IF d.data = NoDisk THEN mfm_track
                       ELSE Formatted(tracknum(d), content[d.data][tracknum(d)])
       /\ mfm_pos' = IF dsklen_act.n >= TrackWords - 1 THEN 0 ELSE mfm_pos
       /\ dskread' = TRUE /\ dskwait' = 0
       /\ irq' = {} /\ fault' = NoFault
       /\ UNCHANGED <<port, drive, content, dsklen, dsklen_act, dskpos, dsksync_passed, wordsync, moved, steady>>

At(i) == mfm_track[i % TrackWords]
NextSync == CHOOSE i \in mfm_pos .. mfm_pos + TrackWords - 1 :
              At(i) = Sync /\ \A j \in mfm_pos .. i - 1 : At(j) # Sync

FindSync ==
  IF \A i \in DOMAIN mfm_track : mfm_track[i] # Sync THEN Faulty("Sync word not found?")
  ELSE /\ mfm_pos' = (NextSync + 1) % TrackWords
       /\ dsksync_passed' = TRUE /\ dskwait' = SyncWait
       /\ irq' = {"DSKSYNC"} /\ fault' = NoFault
       /\ UNCHANGED <<port, drive, content, dsklen, dsklen_act, dskpos, dskread, wordsync, mfm_track, moved, steady>>

Share(n) == IF n - dskpos < Speed THEN n - dskpos ELSE Speed

ReadWords ==
  LET n == dsklen_act.n  k == Share(n) IN
  /\ moved' = moved \o [i \in 1 .. k |-> At(mfm_pos + i - 1)]
  /\ mfm_pos' = (mfm_pos + k) % TrackWords
  /\ Ends(dskpos + k, n) /\ fault' = NoFault
  /\ UNCHANGED <<port, drive, content, dsklen, dskread, dsksync_passed, dskwait, wordsync, mfm_track, steady>>

(* adf_disk_file::write_mfm_track: the data from the first sync word on    *)
Rotated(words) ==
  LET first == CHOOSE i \in DOMAIN words : words[i] = Sync /\ \A j \in 0 .. i - 1 : words[j] # Sync
  IN  [i \in 0 .. TrackWords - 1 |-> words[(first + i) % TrackWords]]

(* Mutant: another track's sectors are taken too *)
BelongsAlways(word, track) == word.is = "data"

Belongs(word, track) == word.is = "data" /\ word.track = track

(* The sectors before the first bad one are stored in any case *)
Bad(words, track, s) ==
  \/ words[2 * s] # Sync \/ ~Belongs(words[2 * s + 1], track)
  \/ \E o \in 0 .. s - 1 : words[2 * o + 1].is = "data" /\ words[2 * o + 1].sec = words[2 * s + 1].sec
Stored(words, track) == {s \in Secs : \A o \in 0 .. s : ~Bad(words, track, o)}

write_mfm_track(d, words) ==
  LET track == tracknum(d)  rotated == Rotated(words)
      new == {w \in {rotated[2 * s + 1] : s \in Stored(rotated, track)} : track \in DOMAIN content[d.data]}
      Kept(t, s) == t # track \/ \A w \in new : w.sec # s
  IN  /\ content' = [content EXCEPT ![d.data] =
           [t \in DOMAIN @ |-> [s \in Secs |->
              IF Kept(t, s) THEN @[t][s] ELSE (CHOOSE w \in new : w.sec = s).from]]]
      /\ fault' = IF Stored(rotated, track) = Secs THEN NoFault ELSE "invalid MFM data"

(* What the guest has in memory *)
Memory == Formatted(Image, [s \in Secs |-> [disk |-> "guest", track |-> Image, sec |-> s]])

(* The words are in the buffer before the drive is asked *)
WriteWords ==
  LET n == dsklen_act.n  k == Share(n)
      words == [i \in DOMAIN mfm_track |->
                  IF \E j \in 0 .. k - 1 : (dskpos + j) % TrackWords = i THEN Memory[i] ELSE mfm_track[i]]
      d == drive[Active]
      Refused(why) == fault' = why /\ irq' = {} /\ dskpos' = n /\ UNCHANGED <<dsklen_act, content>>
  IN  /\ mfm_track' = words
      /\ moved' = moved \o [i \in 1 .. k |-> words[(dskpos + i - 1) % TrackWords]]
      /\ IF dskpos + k < n THEN dskpos' = dskpos + k /\ irq' = {} /\ fault' = NoFault /\ UNCHANGED <<dsklen_act, content>>
         ELSE IF ActiveFault # NoFault THEN Refused(ActiveFault)
         ELSE IF ~d.motor THEN Refused("Reading while motor is not on")
         ELSE IF d.data = NoDisk THEN Refused("Writing with no disk in drive")
         ELSE IF d.data \in Extended THEN Refused("Writing to extended ADF file not supported yet")
         ELSE IF \A i \in DOMAIN words : words[i] # Sync THEN Refused("no sync word found in written MFM data")
         ELSE /\ write_mfm_track(d, words)
              /\ IF fault' = NoFault THEN Ends(n, n) ELSE dskpos' = n /\ irq' = {} /\ UNCHANGED dsklen_act
      /\ UNCHANGED <<port, drive, dsklen, dskread, dsksync_passed, dskwait, wordsync, mfm_pos, steady>>

do_disk_dma ==
  /\ dsklen.on /\ dsklen_act.on
  /\ IF dskwait > 0
     THEN /\ dskwait' = dskwait - 1 /\ irq' = {} /\ fault' = NoFault
          /\ UNCHANGED <<port, drive, content, dsklen, dsklen_act, dskpos, dskread, dsksync_passed,
                         wordsync, mfm_track, mfm_pos, moved, steady>>
     ELSE IF dsklen_act.n = 0 THEN Faulty("nwords > 0")
     ELSE IF dsklen_act.write THEN WriteWords
     ELSE IF ~dskread THEN ReadTrack
     ELSE IF ~dsksync_passed /\ wordsync THEN FindSync
     ELSE ReadWords

-----------------------------------------------------------------------------
LenValues == {NoTransfer} \cup [on : {TRUE}, write : BOOLEAN, n : Lengths]

FloppyInit ==
  /\ port = [sel |-> {}, motor |-> FALSE, side |-> TRUE, dir |-> TRUE, step |-> TRUE]
  /\ drive \in [Drives -> [motor : {FALSE}, side : {FALSE}, seek_dir : {FALSE}, cyl : {0}, data : {NoDisk}]]
  /\ content = [d \in Disks |-> [t \in 0 .. 2 * Cylinders[d] - 1 |-> [s \in Secs |-> [disk |-> d, track |-> t, sec |-> s]]]]
  /\ dsklen = NoTransfer /\ dsklen_act = dsklen
  /\ dskpos = 0 /\ dskread = FALSE /\ dsksync_passed = FALSE /\ dskwait = 0 /\ wordsync = FALSE
  /\ mfm_track = [w \in 0 .. TrackWords - 1 |-> Gap] /\ mfm_pos = 0
  /\ irq = {} /\ fault = NoFault /\ moved = <<>> /\ steady = TRUE

FloppyNext ==
  \/ \E after \in PortValues : recalc_disk(after)
  \/ \E n \in Drives, d \in Disks \cup {NoDisk} : insert_disk(n, d)
  \/ \E val \in LenValues : WriteDsklen(val)
  \/ \E on \in BOOLEAN : WriteAdkcon(on)
  \/ do_disk_dma

FloppySpec == FloppyInit /\ [][FloppyNext]_floppy_vars

-----------------------------------------------------------------------------
(***************************************************************************)
(* DSKBLK means that the words DSKLEN asked for have been moved, none more *)
(* and none twice; those of a read are neighbours on one track, after a    *)
(* sync word if WORDSYNC asks for it -- whatever the guest wrote to the    *)
(* drives, disks and DSKLEN before and meanwhile.                          *)
(***************************************************************************)
TransferExact ==
  /\ dsklen_act.on => Len(moved) <= dsklen.n
  /\ "DSKBLK" \in irq =>
       /\ Len(moved) = dsklen.n /\ ~dsklen_act.on
       /\ ~dsklen.write /\ steady =>
            \E p \in 0 .. TrackWords - 1 :
              /\ \A i \in 1 .. Len(moved) : moved[i] = At(p + i)
              /\ wordsync => At(p) = Sync

(***************************************************************************)
(* Every sector of every disk holds data of its own track and sector, also *)
(* after writes of less than a track, with the head stepped or the disk    *)
(* changed while the words were moved, and after writes that failed.       *)
(***************************************************************************)
SectorsKeepTheirPlace ==
  \A d \in Disks : \A t \in DOMAIN content[d] : \A s \in Secs :
    content[d][t][s].track = t /\ content[d][t][s].sec = s

(* What DSKBLK announces has happened, and no sector is misplaced.         *)
DiskDataKept == TransferExact /\ SectorsKeepTheirPlace

=============================================================================
