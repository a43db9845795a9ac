-------------------------------- MODULE Adf --------------------------------
(***************************************************************************)
(* The floppy image writer (adf.js).  A disk is blocks of long words; here  *)
(* a block is a record of the words that the format gives a meaning, sum    *)
(* being the contents its checksum was last made for (the checksum is right *)
(* if they are still the contents).  Blocks are taken one after the other,  *)
(* never given back.  A directory is a hash table of chains through its     *)
(* entries, a file a header, its data blocks, and extension blocks for the  *)
(* pointers that do not fit into the header.                                *)
(*                                                                          *)
(* The sizes are parameters: 72 slots and pointers, 1760 blocks, files as   *)
(* sequences of chunks of up to 488 bytes.                                  *)
(*                                                                          *)
(* tree is what the caller has put on the disk, as far as calls returned.   *)
(***************************************************************************)
EXTENDS Integers, Sequences, FiniteSets

CONSTANTS
  Blocks,      \* the number of blocks of the disk (1760)
  Slots,       \* slots of a hash table and pointers in a block (72)
  Root,        \* the root block, in the middle of the disk (880); the bitmap follows
  Names,       \* names of files and directories
  Hash,        \* hashName: which slot a name goes to
  Files,       \* the files that are written, as sequences of chunks
  MaxEntries   \* bound: files and directories put on the disk

Bitmap == Root + 1
First == Root + 2            \* nextFree of a new writer

ASSUME AdfAssumption ==
  /\ Slots \in Nat \ {0} /\ Root \in Nat \ {0, 1}
  /\ Blocks \in Nat /\ Blocks > First
  /\ Hash \in [Names -> 1 .. Slots]
  /\ \A data \in Files : data \in Seq({data[i] : i \in DOMAIN data})

VARIABLES disk, nextFree, used, bitmap, finished, tree, full

diskVars == <<disk, nextFree, used, bitmap, finished, tree, full>>

None == 0                    \* a long word of 0: no block

Blank == [type |-> "blank", own |-> None, seq |-> 0, first |-> None,
          next |-> None, slots |-> [s \in 1 .. Slots |-> None], size |-> 0,
          name |-> "", chain |-> None, parent |-> None, ext |-> None,
          data |-> << >>, sum |-> "none"]

\* normalChecksum
Contents(b) == [b EXCEPT !.sum = "none"]
Sum(b) == [b EXCEPT !.sum = Contents(b)]
SumRight(b) == b.sum = Contents(b)

DiskInit ==
  /\ disk = [b \in {Root} |-> Blank]
  /\ nextFree = First
  /\ used = {Root, Bitmap}
  /\ bitmap = {} /\ finished = FALSE
  /\ tree = << >>
  /\ full = FALSE

-----------------------------------------------------------------------------
\* Mutant: a third entry of a slot takes the second one's place.
LastOfHead(d, block) == block

\* The last entry of a hash chain.
LastOf(d, block) ==
  LET last[b \in DOMAIN d] == IF d[b].chain = None THEN b ELSE last[d[b].chain]
  IN last[block]

\* Mutant: the checksum of a block whose chain grew stays.
InsertEntryUnsummed(d, dir, name, block) ==
  LET existing == d[dir].slots[Hash[name]]
  IN IF existing # None
     THEN [d EXCEPT ![LastOf(d, existing)].chain = block]
     ELSE LET entered == [d[dir] EXCEPT !.slots[Hash[name]] = block]
          IN [d EXCEPT ![dir] = IF dir = Root THEN entered ELSE Sum(entered)]

\* insertEntry: into the empty slot of the directory, or at the end of the
\* chain.  The checksum of what was changed is made again, except the root's.
InsertEntry(d, dir, name, block) ==
  LET existing == d[dir].slots[Hash[name]]
  IN IF existing # None
     THEN LET b == LastOf(d, existing)
          IN [d EXCEPT ![b] = Sum([@ EXCEPT !.chain = block])]
     ELSE LET entered == [d[dir] EXCEPT !.slots[Hash[name]] = block]
          IN [d EXCEPT ![dir] = IF dir = Root THEN entered ELSE Sum(entered)]

\* A caller knows the root and the directories addDir has returned.
Dirs == {Root} \cup {e.block : e \in {tree[i] : i \in {j \in DOMAIN tree : tree[j].dir}}}

Entry(name, parent, block, isDir, data) ==
  [name |-> name, parent |-> parent, block |-> block, dir |-> isDir, data |-> data]

\* alloc() counts on before it looks whether the block is there, and throws:
\* the blocks that a call had already got stay taken.
OutOfBlocks(wanted) ==
  /\ nextFree + wanted > Blocks
  /\ used' = used \cup nextFree .. Blocks - 1
  /\ nextFree' = Blocks + 1
  /\ full' = TRUE
  /\ finished' = FALSE
  /\ UNCHANGED <<disk, bitmap, tree>>

\* Mutant: the last of the blocks is given again.
AllocLess(wanted) ==
  /\ nextFree + wanted <= Blocks
  /\ used' = used \cup nextFree .. nextFree + wanted - 1
  /\ nextFree' = IF wanted = 1 THEN nextFree + 1 ELSE nextFree + wanted - 1
  /\ finished' = FALSE
  /\ UNCHANGED <<bitmap, full>>

Alloc(wanted) ==
  /\ nextFree + wanted <= Blocks
  /\ used' = used \cup nextFree .. nextFree + wanted - 1
  /\ nextFree' = nextFree + wanted
  /\ finished' = FALSE
  /\ UNCHANGED <<bitmap, full>>

DirBlock(header, name, parent) ==
  [Blank EXCEPT !.type = "header", !.own = header, !.name = name, !.parent = parent]

AddDir(name, parent) ==
  LET b == nextFree
      \* the header is in place before the entry is made, its checksum after
      entered == InsertEntry([c \in DOMAIN disk \cup {b} |->
                                IF c = b THEN DirBlock(b, name, parent) ELSE disk[c]],
                             parent, name, b)
  IN /\ Alloc(1)
     /\ disk' = [entered EXCEPT ![b] = Sum(@)]
     /\ tree' = Append(tree, Entry(name, parent, b, TRUE, << >>))

\* Header and extension blocks hold up to Slots pointers, last one first.
Pointers(blocks) ==
  [s \in 1 .. Slots |->
     IF Slots - s + 1 <= Len(blocks) THEN blocks[Slots - s + 1] ELSE None]

Least(m, n) == IF m < n THEN m ELSE n

\* Math.ceil(length / DATA_BYTES) || 1: an empty file has a data block, too.
DataBlocks(data) == IF data = << >> THEN 1 ELSE Len(data)
Extensions(n) == IF n > Slots THEN (n - Slots + Slots - 1) \div Slots ELSE 0

\* The data blocks follow the header, the extension blocks the data blocks.
DataAt(header, i) == header + i
ExtAt(header, n, e) == header + n + e

\* How many of n pointers are in the e-th block that has any, the header being
\* the one before the first.
Count(n, e) == Least(Slots, n - e * Slots)

PointersIn(header, n, e) ==
  Pointers([i \in 1 .. Count(n, e) |-> DataAt(header, e * Slots + i)])

NextExt(header, n, e) == IF e < Extensions(n) THEN ExtAt(header, n, e + 1) ELSE None

DataBlock(header, data, i) ==
  [Blank EXCEPT !.type = "data", !.own = header, !.seq = i,
                !.size = IF data = << >> THEN 0 ELSE 1,
                !.data = IF data = << >> THEN << >> ELSE <<data[i]>>,
                !.next = IF i < DataBlocks(data) THEN DataAt(header, i + 1) ELSE None]

HeaderBlock(header, name, data, parent) ==
  LET n == DataBlocks(data)
  IN [Blank EXCEPT !.type = "file", !.own = header, !.seq = Count(n, 0),
                   !.first = DataAt(header, 1), !.slots = PointersIn(header, n, 0),
                   !.size = Len(data), !.name = name, !.parent = parent,
                   !.ext = NextExt(header, n, 0)]

ExtBlock(header, n, e) ==
  [Blank EXCEPT !.type = "list", !.own = ExtAt(header, n, e), !.seq = Count(n, e),
                !.slots = PointersIn(header, n, e), !.parent = header,
                !.ext = NextExt(header, n, e)]

FileSize(data) == 1 + DataBlocks(data) + Extensions(DataBlocks(data))

\* What a file's block b gets; the header its checksum only when it is entered.
FileBlock(header, name, data, parent, b) ==
  LET n == DataBlocks(data)
  IN CASE b = header -> HeaderBlock(header, name, data, parent)
       [] b \in DataAt(header, 1) .. DataAt(header, n) -> Sum(DataBlock(header, data, b - header))
       [] b > DataAt(header, n) -> Sum(ExtBlock(header, n, b - header - n))

AddFile(name, data, parent) ==
  LET header == nextFree
      new == header .. header + FileSize(data) - 1
      written == [b \in DOMAIN disk \cup new |->
                    IF b \in new THEN FileBlock(header, name, data, parent, b) ELSE disk[b]]
  IN /\ Alloc(FileSize(data))
     /\ disk' = [InsertEntry(written, parent, name, header) EXCEPT ![header] = Sum(@)]
     /\ tree' = Append(tree, Entry(name, parent, header, FALSE, data))

\* finish(): the root's fields and checksum, and the bitmap of what is free.
\* (The boot block and the bitmap's checksum are of no block that a file has.)
FinishDisk ==
  /\ ~finished
  /\ disk' = [disk EXCEPT ![Root] = Sum([@ EXCEPT !.type = "header"])]
  /\ bitmap' = {b \in 2 .. Blocks - 1 : b \notin used}
  /\ finished' = TRUE
  /\ UNCHANGED <<nextFree, used, tree, full>>

\* Nothing stops a caller from giving a directory two entries of one name;
\* AmigaDOS would never find the second, so a caller does not.
Free(name, parent) == \A i \in DOMAIN tree : tree[i].name # name \/ tree[i].parent # parent

Wanted == {1} \cup {FileSize(data) : data \in Files}

\* The error of a full disk is the caller's; it may still want the image.
DiskNext ==
  \/ \E name \in Names, parent \in Dirs :
       /\ ~full /\ Len(tree) < MaxEntries /\ Free(name, parent)
       /\ \/ AddDir(name, parent)
          \/ \E data \in Files : AddFile(name, data, parent)
  \/ \E wanted \in Wanted : ~full /\ OutOfBlocks(wanted)
  \/ FinishDisk

DiskSpec == DiskInit /\ [][DiskNext]_diskVars

-----------------------------------------------------------------------------
(* Reading the disk as AmigaDOS does *)

\* Along the hash chain up to the entry of that name.
Lookup(name, dir) ==
  LET found[b \in DOMAIN disk \cup {None}] ==
        IF b = None \/ disk[b].name = name THEN b ELSE found[disk[b].chain]
  IN found[disk[dir].slots[Hash[name]]]

\* The data, along the chain of data blocks ...
ReadChain(header) ==
  LET walk[b \in DOMAIN disk \cup {None}] ==
        IF b = None THEN << >> ELSE disk[b].data \o walk[disk[b].next]
  IN walk[disk[header].first]

\* ... and through the pointers of the header and its extensions.
ReadPointers(header) ==
  LET inBlock(b) == [i \in 1 .. disk[b].seq |-> disk[b].slots[Slots - i + 1]]
      walk[b \in DOMAIN disk \cup {None}] ==
        IF b = None THEN << >> ELSE inBlock(b) \o walk[disk[b].ext]
      blocks == walk[header]
      data[i \in 0 .. Len(blocks)] ==
        IF i = 0 THEN << >> ELSE data[i - 1] \o disk[blocks[i]].data
  IN data[Len(blocks)]

-----------------------------------------------------------------------------
(* Properties *)

\* What was put on the disk is found under its name, in its directory only,
\* and reads the same along the chain and through the pointers, however many
\* entries share a slot and however many extensions the file has.
EverythingFound ==
  /\ \A i \in DOMAIN tree :
       LET e == tree[i]
       IN /\ Lookup(e.name, e.parent) = e.block
          /\ disk[e.block].parent = e.parent
          /\ ~e.dir => /\ ReadChain(e.block) = e.data
                       /\ ReadPointers(e.block) = e.data
                       /\ disk[e.block].size = Len(e.data)
  /\ \A dir \in Dirs, name \in Names : Free(name, dir) => Lookup(name, dir) = None

\* The blocks of an entry: what its own words lead to.
BlocksOf(e) ==
  LET exts[b \in DOMAIN disk \cup {None}] ==
        IF b = None THEN {} ELSE {b} \cup exts[disk[b].ext]
      datas[b \in DOMAIN disk \cup {None}] ==
        IF b = None THEN {} ELSE {b} \cup datas[disk[b].next]
  IN exts[e.block] \cup datas[disk[e.block].first]

\* No block belongs to two entries, or to the root.
BlocksApart ==
  \A i, j \in DOMAIN tree :
    /\ i # j => BlocksOf(tree[i]) \cap BlocksOf(tree[j]) = {}
    /\ BlocksOf(tree[i]) \cap {Root, Bitmap} = {}

\* On a finished disk every block has the checksum of what is in it, also the
\* headers that later entries of their chain or directory have changed; and
\* no block of a file is free in the bitmap.
FinishedSound ==
  finished =>
    /\ \A b \in DOMAIN disk : SumRight(disk[b])
    /\ \A i \in DOMAIN tree : BlocksOf(tree[i]) \cap bitmap = {}
    /\ {Root, Bitmap} \cap bitmap = {}
    /\ ~full => Cardinality(bitmap) = Blocks - 2 - Cardinality(DOMAIN disk \cup {Bitmap})
=============================================================================
