-------------------------------- MODULE Adf --------------------------------
(***************************************************************************)
(* Disk images with an AmigaDOS file system (adf.cpp): a new disk,         *)
(* directories and files made on it, found by name and read back.  A block *)
(* is a record with the fields its kind uses; its checksum is whether it   *)
(* is the one of its contents ("sum").                                     *)
(*                                                                         *)
(* A call that throws keeps what it has changed until then.                *)
(***************************************************************************)
EXTENDS Integers, Sequences

CONSTANTS
  Sectors,        (* sectors_per_disk                                      *)
  Root,           (* root_block_sector                                     *)
  TableSize,      (* ht_size                                               *)
  BlockBytes,     (* bytes of a file in a data block                       *)
  Hash,           (* str_hash of each name                                 *)
  Paths,          (* sequences of names                                    *)
  Sizes           (* of files, in bytes                                    *)

VARIABLES
  disk,           (* data_: blocks, and the sectors the bitmap has as used *)
  files, dirs     (* what the calls that returned have made                *)

adf_vars == <<disk, files, dirs>>

Blank == [type |-> "none", second |-> "none", key |-> 0, parent |-> 0, name |-> "", next_hash |-> 0,
          table |-> [i \in 0 .. TableSize - 1 |-> 0], high_seq |-> 0, first_data |-> 0, extension |-> 0,
          size |-> 0, data |-> <<>>, sum |-> TRUE]

Threw == -1

-----------------------------------------------------------------------------
(* Finding a name: hash chains from the root down.  Blocks are verified on *)
(* the way                                                                  *)
Verified(b, type, seconds) == b.sum /\ b.type = type /\ b.second \in seconds
IsDir(b) == Verified(b, "header", {"root", "dir"})
IsEntry(b) == Verified(b, "header", {"dir", "file"})

(* The chain from a sector on, and where a walk along it to a name ends *)
ChainFrom(d, s) ==
  LET next[n \in 1 .. Sectors] == IF n = 1 THEN s ELSE IF next[n - 1] = 0 THEN 0 ELSE d.block[next[n - 1]].next_hash
  IN  SelectSeq(next, LAMBDA at : at # 0)

InChain(d, s, name) ==
  LET chain == ChainFrom(d, s)
      ends == {i \in DOMAIN chain : ~IsEntry(d.block[chain[i]]) \/ d.block[chain[i]].name = name}
      first == CHOOSE i \in ends : \A j \in ends : i <= j
  IN  IF ends = {} THEN 0 ELSE IF IsEntry(d.block[chain[first]]) THEN chain[first] ELSE Threw

find_name_from_sector(d, sector, name) ==
  IF IsDir(d.block[sector]) THEN InChain(d, d.block[sector].table[Hash[name]], name) ELSE Threw

find_name(d, path) ==
  LET at[n \in 0 .. Len(path)] ==
        IF n = 0 THEN Root
        ELSE LET before == at[n - 1]
             IN  IF before \in {0, Threw} THEN before ELSE find_name_from_sector(d, before, path[n])
  IN  at[Len(path)]

Parent(path) == SubSeq(path, 1, Len(path) - 1)
Name(path) == path[Len(path)]

(* Where a name's directory is; 0 or Threw if the call throws *)
get_parent(d, path) == IF Len(path) = 1 THEN Root ELSE find_name(d, Parent(path))

-----------------------------------------------------------------------------
(* Allocation: the first free sector behind the root block, then from 2 on *)
SearchOrder == [i \in 1 .. Sectors - 4 |-> LET s == Root + i IN IF s < Sectors THEN s ELSE s - Sectors + 2]

(* The first n blocks it gives, as many as there are *)
FreeBlocks(d, n) ==
  LET free == SelectSeq(SearchOrder, LAMBDA s : s \notin d.used)
  IN  SubSeq(free, 1, IF n < Len(free) THEN n ELSE Len(free))
Alloc(d, blocks) == [d EXCEPT !.used = @ \cup {blocks[i] : i \in DOMAIN blocks}]

-----------------------------------------------------------------------------
(* Entering a block in its directory: at the end of its hash chain, whose  *)
(* last block gets a new checksum                                          *)
Linked(b, hash, block, isDir) ==
  IF isDir THEN [b EXCEPT !.table[hash] = block, !.sum = TRUE] ELSE [b EXCEPT !.next_hash = block, !.sum = TRUE]

(* Mutant: it is put in front, and what was there is lost *)
ChainDropped(d, parent, hash) == <<>>

ChainOf(d, parent, hash) == ChainFrom(d, d.block[parent].table[hash])

set_table_entry(d, parent, hash, block) ==
  LET chain == ChainOf(d, parent, hash)
      last == IF chain = <<>> THEN parent ELSE chain[Len(chain)]
  IN  [d EXCEPT !.block[last] = Linked(@, hash, block, chain = <<>>)]

Returned(d, path) == find_name(d, path) \notin {0, Threw}

Keeps(d) == disk' = d /\ UNCHANGED <<files, dirs>>

make_dir(path) ==
  LET parent == get_parent(disk, path)
      blocks == FreeBlocks(disk, 1)
      header == [Blank EXCEPT !.type = "header", !.second = "dir", !.key = blocks[1], !.parent = parent, !.name = Name(path)]
      made == set_table_entry([Alloc(disk, blocks) EXCEPT !.block[blocks[1]] = header], parent, Hash[Name(path)], blocks[1])
  IN  IF find_name(disk, path) # 0 \/ parent \in {0, Threw} \/ blocks = <<>>
      THEN Keeps(disk)
      ELSE /\ disk' = made /\ UNCHANGED files
           /\ dirs' = IF Returned(made, path) THEN dirs \cup {path} ELSE dirs

-----------------------------------------------------------------------------
(* A file: a header and extension blocks with up to TableSize data blocks  *)
(* each, the first one last in the table                                   *)
Ceil(n, m) == (n + m - 1) \div m
DataBlocks(size) == Ceil(size, BlockBytes)
Extensions(size) == IF DataBlocks(size) > TableSize THEN Ceil(DataBlocks(size) - TableSize, TableSize) ELSE 0

(* What the last extension is said to hold *)
LastCount(size) == DataBlocks(size) % TableSize

TableOf(blocks, from, count) ==
  [i \in 0 .. TableSize - 1 |-> IF TableSize - i <= count THEN blocks[from + TableSize - i] ELSE 0]

FileHeader(path, key, parent, size, ext, blocks) ==
  LET count == IF Len(blocks) > TableSize THEN TableSize ELSE Len(blocks)
  IN  [Blank EXCEPT !.type = "header", !.second = "file", !.key = key, !.parent = parent, !.name = Name(path),
                    !.size = size, !.first_data = IF blocks = <<>> THEN 0 ELSE blocks[1],
                    !.high_seq = count, !.table = TableOf(blocks, 0, count),
                    !.extension = IF ext = <<>> THEN 0 ELSE ext[1]]

Extension(n, key, size, ext, blocks) ==
  LET count == IF n = Len(ext) THEN LastCount(size) ELSE TableSize
  IN  [Blank EXCEPT !.type = "list", !.second = "file", !.key = ext[n], !.parent = key, !.high_seq = count,
                    !.table = TableOf(blocks, n * TableSize, count),
                    !.extension = IF n = Len(ext) THEN 0 ELSE ext[n + 1]]

DataBlock(i, key, data, blocks) ==
  LET end == i * BlockBytes
      part == SubSeq(data, end - BlockBytes + 1, IF end < Len(data) THEN end ELSE Len(data))
  IN  [Blank EXCEPT !.type = "data", !.key = key, !.high_seq = i, !.size = Len(part), !.data = part,
                    !.first_data = IF i = Len(blocks) THEN 0 ELSE blocks[i + 1]]

At(s, blocks) == CHOOSE i \in DOMAIN blocks : blocks[i] = s
Among(s, blocks) == \E i \in DOMAIN blocks : blocks[i] = s

Written(d, path, parent, data, key, ext, blocks) ==
  LET size == Len(data)
      with == [s \in DOMAIN d.block |->
                 IF s = key THEN FileHeader(path, key, parent, size, ext, blocks)
                 ELSE IF Among(s, ext) THEN Extension(At(s, ext), key, size, ext, blocks)
                 ELSE IF Among(s, blocks) THEN DataBlock(At(s, blocks), key, data, blocks)
                 ELSE d.block[s]]
  IN  set_table_entry([d EXCEPT !.block = with], parent, Hash[Name(path)], key)

(* The blocks are allocated before the directory is looked for: a file that *)
(* does not fit, or has no directory, leaves them allocated                 *)
write_file(path, size) ==
  LET data == [i \in 1 .. size |-> <<path, i>>]
      wanted == 1 + Extensions(size) + DataBlocks(size)
      got == FreeBlocks(disk, wanted)
      d == Alloc(disk, got)
      parent == get_parent(disk, path)
      made == Written(d, path, parent, data, got[1], SubSeq(got, 2, 1 + Extensions(size)),
                      SubSeq(got, 2 + Extensions(size), wanted))
  IN  IF find_name(disk, path) # 0 THEN Keeps(disk)
      ELSE IF Len(got) < wanted \/ parent \in {0, Threw} THEN Keeps(d)
      ELSE /\ disk' = made /\ UNCHANGED dirs
           /\ files' = IF Returned(made, path) THEN [p \in DOMAIN files \cup {path} |-> IF p = path THEN data ELSE files[p]]
                       ELSE files

-----------------------------------------------------------------------------
(* Reading: the header and its extensions, each with its data blocks *)
HeadersFrom(d, s) ==
  LET next[n \in 1 .. Sectors] == IF n = 1 THEN s ELSE IF next[n - 1] = 0 THEN 0 ELSE d.block[next[n - 1]].extension
  IN  SelectSeq(next, LAMBDA at : at # 0)

PartAt(d, header, i) == d.block[d.block[header].table[TableSize - i]]

(* What a header adds after "before" bytes of a file of "size" bytes with   *)
(* its first header at "key", and whether all that is expected of it holds  *)
Adds(d, header, before, size, key) ==
  LET b == d.block[header]
      left == size - before
      bytes == IF left < b.high_seq * BlockBytes THEN left ELSE b.high_seq * BlockBytes
      DataIs(part, i) ==
        LET rest == left - (i - 1) * BlockBytes
        IN  /\ part.type = "data" /\ part.sum /\ part.key = key
            /\ part.size = (IF rest > BlockBytes THEN BlockBytes ELSE rest)
            /\ part.high_seq = 1 + (before \div BlockBytes) + i - 1
      sound == /\ b.sum /\ b.second = "file" /\ b.type = (IF header = key THEN "header" ELSE "list")
               /\ (before = 0) => b.table[TableSize - 1] = b.first_data
               /\ b.high_seq \in 1 .. TableSize
               /\ \A i \in 1 .. b.high_seq : DataIs(PartAt(d, header, i), i)
  IN  [ok |-> sound,
       data |-> IF ~sound THEN <<>>
                ELSE [n \in 1 .. bytes |->
                        PartAt(d, header, 1 + ((n - 1) \div BlockBytes)).data[1 + ((n - 1) % BlockBytes)]]]

read_file(d, path) ==
  LET key == find_name(d, path)
      size == d.block[key].size
      headers == HeadersFrom(d, key)
      Read(before, header) ==
        IF ~before.ok \/ Len(before.data) = size THEN before
        ELSE LET more == Adds(d, header, Len(before.data), size, key)
             IN  [ok |-> more.ok, data |-> before.data \o more.data]
      upto[n \in 0 .. Len(headers)] ==
        IF n = 0 THEN [ok |-> Verified(d.block[key], "header", {"file"}) /\ d.block[key].key = key, data |-> <<>>]
        ELSE Read(upto[n - 1], headers[n])
      all == upto[Len(headers)]
  IN  IF key \in {0, Threw} THEN [ok |-> FALSE, data |-> <<>>]
      ELSE [all EXCEPT !.ok = @ /\ Len(all.data) = size]

-----------------------------------------------------------------------------
new_disk ==
  [block |-> [s \in 0 .. Sectors - 1 |->
                IF s = Root THEN [Blank EXCEPT !.type = "header", !.second = "root"]
                ELSE IF s = Root + 1 THEN [Blank EXCEPT !.type = "bitmap"] ELSE Blank],
   used |-> {Root, Root + 1}]

AdfInit == disk = new_disk /\ files = <<>> /\ dirs = {}

AdfNext == \E path \in Paths : make_dir(path) \/ \E size \in Sizes : write_file(path, size)

-----------------------------------------------------------------------------
(***************************************************************************)
(* Whatever is made afterwards and however that fails, each file that was  *)
(* written reads back as it was written, each directory is found, no other *)
(* name is, and nothing is written to the boot blocks.                     *)
(***************************************************************************)
FilesKept ==
  /\ \A path \in DOMAIN files : read_file(disk, path) = [ok |-> TRUE, data |-> files[path]]
  /\ \A path \in dirs : IsDir(disk.block[find_name(disk, path)])
  /\ \A path \in Paths \ (DOMAIN files \cup dirs) :
       find_name(disk, path) = 0 \/ \E n \in 1 .. Len(path) - 1 : SubSeq(path, 1, n) \in DOMAIN files
  /\ \A s \in {0, 1} : disk.block[s] = Blank
=============================================================================
