------------------------------ MODULE CS1550FS ------------------------------
(***************************************************************************)
(* The cs1550 FUSE filesystem of src/project4/cs1550.c, one handler at a   *)
(* time.  Block 0 holds the root directory table, block 1 the FAT, blocks  *)
(* START_ALLOC_BLOCK .. NumFat-1 are handed out first-fit by a scan of the *)
(* FAT.  Every handler re-reads the root and the FAT, changes its local    *)
(* copies and writes the directory block, the root and the FAT back.  In  *)
(* this module a handler is one atomic step (FUSE run single-threaded);    *)
(* CS1550FSConc splits them into their disk reads and writes.              *)
(*                                                                         *)
(* Names are model values, file contents are not modelled: a write is     *)
(* modelled by the blocks its fwrite calls reach, the FAT links it makes  *)
(* and the size it records.  Blocks reached that belong to something else *)
(* are recorded in the history variable clobbered.                        *)
(***************************************************************************)
EXTENDS Integers, FiniteSets, FiniteSetsExt

CONSTANTS
  BlockSize,    \* BLOCK_SIZE
  NumFat,       \* MAX_FAT_ENTRIES: the FAT covers blocks 0 .. NumFat-1
  MaxDirs,      \* MAX_DIRS_IN_ROOT
  MaxFiles,     \* MAX_FILES_IN_DIR
  DirNames,     \* valid (<= 8 chars) directory names
  FileNames,    \* valid (<= 8 chars) file names
  Exts,         \* valid non-empty (<= 3 chars) extensions
  Empty,        \* the empty string "" of an unused slot or a missing extension
  MaxLen,       \* bound on the size and strlen(buf) of one write
  MaxFileSize,  \* bound on the offset of a write
  StackValues   \* values the short below fat.table on the stack may hold

ASSUME
  /\ BlockSize \in Nat \ {0}
  /\ NumFat \in Nat /\ NumFat > 2
  /\ MaxDirs \in Nat \ {0} /\ MaxFiles \in Nat \ {0}
  /\ Empty \notin DirNames \cup FileNames \cup Exts
  /\ MaxLen \in Nat /\ MaxFileSize \in Nat
  /\ StackValues \subseteq -1 .. NumFat - 1

FREE == 0                       \* an unallocated FAT entry
EOF == -1                       \* stdio EOF, stored in a short as end of chain
START_ALLOC_BLOCK == 2
DataBlocks == START_ALLOC_BLOCK .. NumFat - 1
DirSlots == 0 .. MaxDirs - 1
FileSlots == 0 .. MaxFiles - 1
FileExts == Exts \cup {Empty}
MinOf(a, b) == IF a < b THEN a ELSE b

\* A zero-filled slot of the root and of a directory table (fresh disk).
NoDir == [dname |-> Empty, nStartBlock |-> 0]
NoFile == [fname |-> Empty, fext |-> Empty, fsize |-> 0, nStartBlock |-> 0]
EmptyTable == [nFiles |-> 0, files |-> [j \in FileSlots |-> NoFile]]

VARIABLES
  root,       \* block 0: [nDirectories, directories]
  fat,        \* block 1: fat[b] is FREE, EOF or the next block of the chain
  dirtab,     \* dirtab[b]: the cs1550_directory_entry stored in block b
  dirty,      \* data blocks holding bytes of file data (a fresh block is zero)
  crashed,    \* the daemon died (segmentation fault) and is not mounted
  clobbered   \* history: blocks of other structures a handler wrote into

vars == <<root, fat, dirtab, dirty, crashed, clobbered>>

-----------------------------------------------------------------------------
(* Lookups shared by the handlers.                                         *)

UsedDirSlots == {i \in DirSlots : root.directories[i].dname # Empty}
DirExists(d) == \E i \in DirSlots : root.directories[i].dname = d
\* the lookup loops stop at the first slot whose name matches
DirBlock(d) == root.directories[Min({i \in DirSlots :
                                      root.directories[i].dname = d})].nStartBlock
DirBlocks == {root.directories[i].nStartBlock : i \in UsedDirSlots}

UsedFileSlots(t) == {j \in FileSlots : t.files[j].fname # Empty}
FileSlotOf(t, n, e) == Min({j \in FileSlots : t.files[j].fname = n
                                              /\ t.files[j].fext = e})

\* getattr on /d/n.e reports a regular file: the directory is among the
\* first nDirectories root slots, the key is in its table and the entry's
\* start block is not -1.
FileVisible(d, n, e) ==
  /\ \E i \in 0 .. root.nDirectories - 1 : root.directories[i].dname = d
  /\ \E j \in FileSlots : /\ dirtab[DirBlock(d)].files[j].fname = n
                          /\ dirtab[DirBlock(d)].files[j].fext = e
  /\ dirtab[DirBlock(d)].files[FileSlotOf(dirtab[DirBlock(d)], n, e)].nStartBlock # EOF

\* First-fit scan of the FAT from START_ALLOC_BLOCK; -1 when it is full.
FreeBlocks(f) == {k \in DataBlocks : f[k] = FREE}
\* mutant: the scan starts at block 0 instead of START_ALLOC_BLOCK
AllocIndexFromZero(f) ==
  IF {k \in 0 .. NumFat - 1 : f[k] = FREE} = {} THEN EOF
  ELSE Min({k \in 0 .. NumFat - 1 : f[k] = FREE})
AllocIndex(f) == IF FreeBlocks(f) = {} THEN EOF ELSE Min(FreeBlocks(f))

\* fat.table[j] = EOF: the block found is taken (a one-block chain).
\* mutant: the new block is not marked in the FAT
ClaimNoop(f, k) == f
Claim(f, k) == [f EXCEPT ![k] = EOF]

\* The blocks of the chain that starts at b (at most NumFat of them).
RECURSIVE ChainFrom(_, _, _)
ChainFrom(f, b, k) ==
  IF k = 0 \/ b \notin DataBlocks THEN {} ELSE {b} \cup ChainFrom(f, f[b], k - 1)

-----------------------------------------------------------------------------
(* mkdir                                                                   *)

\* mutant: nDirectories is not incremented
AddDirNoCount(r, i, d, b) ==
  [r EXCEPT !.directories[i] = [dname |-> d, nStartBlock |-> b]]
AddDir(r, i, d, b) ==
  [nDirectories |-> r.nDirectories + 1,
   directories  |-> [r.directories EXCEPT ![i] = [dname |-> d, nStartBlock |-> b]]]

\* Blocks some structure other than file (b, j) owns: root, FAT, the
\* directory tables and the chains of all other file entries.
OwnedBlocks(f, dt, b, j) ==
  {0, 1} \cup DirBlocks
    \cup UNION {ChainFrom(f, dt[c].files[i].nStartBlock, NumFat) :
                  <<c, i>> \in {<<c, i>> \in DirBlocks \X FileSlots :
                                   i \in UsedFileSlots(dt[c]) /\ <<c, i>> # <<b, j>>}}

\* The new directory d in root slot i with nStartBlock = g.  fread reads
\* block g into dir and leaves the stream at block g + 1; the memset table
\* is written there.  d's table is what block g already holds: an empty
\* table unless file data was written into it.
MkdirAt(i, d, g) ==
  LET z == g + 1
  IN /\ root' = AddDir(root, i, d, g)
     /\ dirtab' = IF z \in DataBlocks THEN [dirtab EXCEPT ![z] = EmptyTable] ELSE dirtab
     /\ dirty' = dirty \ {z}
     /\ clobbered' = clobbered \cup (({g} \cap dirty) \cup ({z} \cap OwnedBlocks(fat, dirtab, -1, -1)))

cs1550_mkdir(d) ==
  /\ ~crashed
  /\ root.nDirectories < MaxDirs
  /\ ~DirExists(d)
  /\ \E i \in DirSlots : root.directories[i].dname = Empty
  /\ LET i == Min({s \in DirSlots : root.directories[s].dname = Empty})
         j == AllocIndex(fat)
     IN \/ /\ j # EOF
           /\ MkdirAt(i, d, j)
           /\ fat' = Claim(fat, j)
           /\ UNCHANGED crashed
        \* No free block: nStartBlock stays uninitialized.  The stack slot
        \* holds a stale block number (the previous mkdir's, typically).
        \* A value past the end of the image makes fread fail: no change.
        \/ /\ j = EOF
           /\ \E g \in DataBlocks : MkdirAt(i, d, g)
           /\ UNCHANGED <<fat, crashed>>

-----------------------------------------------------------------------------
(* mknod                                                                   *)

AddFile(t, j, n, e, k) ==
  [nFiles |-> t.nFiles + 1,
   files  |-> [t.files EXCEPT ![j] = [fname |-> n, fext |-> e, fsize |-> 0,
                                      nStartBlock |-> k]]]

\* The duplicate scan: some slot already holds name n and extension e.
\* mutant: the duplicate scan is dropped
FileExistsNever(t, n, e) == FALSE
FileExistsIn(t, n, e) == \E j \in FileSlots : t.files[j].fname = n /\ t.files[j].fext = e

\* With no extension file_ext is NULL; strcmp(fext, NULL) is reached for the
\* first slot whose name is n, and dereferences NULL.
NullExtCompare(t, n, e) == e = Empty /\ \E j \in FileSlots : t.files[j].fname = n

cs1550_mknod(d, n, e) ==
  /\ ~crashed
  /\ DirExists(d)                \* the kernel looked /d up before mknod
  /\ LET b == DirBlock(d)
         t == dirtab[b]
     IN /\ t.nFiles < MaxFiles
        /\ \/ /\ NullExtCompare(t, n, e)
              /\ crashed' = TRUE
              /\ UNCHANGED <<root, fat, dirtab, dirty, clobbered>>
           \/ /\ ~NullExtCompare(t, n, e)
              /\ ~FileExistsIn(t, n, e)
              /\ \E j \in FileSlots : t.files[j].fname = Empty /\ t.files[j].fext = Empty
              /\ LET j == Min({s \in FileSlots : t.files[s].fname = Empty
                                                 /\ t.files[s].fext = Empty})
                     k == AllocIndex(fat)
                 IN /\ dirtab' = [dirtab EXCEPT ![b] = AddFile(t, j, n, e, k)]
                    /\ fat' = IF k = EOF THEN fat ELSE Claim(fat, k)
                    /\ UNCHANGED <<root, dirty, crashed, clobbered>>

-----------------------------------------------------------------------------
(* write                                                                   *)

\* The handler's local copy of the FAT.  Index -1 is the short just below
\* fat.table on the stack: walking off the end of a chain (curr_block = -1)
\* reads and writes it.  gb is the value it holds.
LocalFat(gb) == [i \in -1 .. NumFat - 1 |-> IF i = -1 THEN gb ELSE fat[i]]

\* curr_block = fat.table[curr_block], k times.
RECURSIVE WalkChain(_, _, _)
WalkChain(f, b, k) == IF k = 0 THEN b ELSE WalkChain(f, f[b], k - 1)

\* The blocks the first fwrite calls reach.  With buffer_size < BLOCK_SIZE
\* the data is followed by BLOCK_SIZE - buffer_size NULs, BLOCK_SIZE bytes
\* in all from offset_of_block; a negative fseek fails and leaves the
\* stream at byte 0.
FirstWrite(curr, off, L) ==
  LET start == IF curr >= 0 THEN curr * BlockSize + off ELSE 0
      len   == IF L >= BlockSize THEN BlockSize - off ELSE BlockSize
  IN (start \div BlockSize) .. ((start + len - 1) \div BlockSize)

\* The blocks the first fwrite(buf, ...) puts data bytes into.
FirstData(curr, off, L) ==
  LET start == IF curr >= 0 THEN curr * BlockSize + off ELSE 0
      len   == IF L >= BlockSize THEN BlockSize - off ELSE L
  IN IF len = 0 THEN {} ELSE (start \div BlockSize) .. ((start + len - 1) \div BlockSize)

\* The size the first-block branch leaves in file_dir.fsize.
FirstSize(o, s, L, F0) ==
  IF L >= BlockSize THEN IF o = s THEN o + 1 ELSE F0
  ELSE IF o = F0 /\ ~(o = 0 /\ F0 = 0) THEN F0
  ELSE IF F0 > s THEN IF o = s THEN o + 1 ELSE s
  ELSE F0

\* fsize after the append accounting at the end of the handler.
NewSize(o, s, L, F0) ==
  LET appended == L - (F0 - o)
  IN IF appended > 0 THEN FirstSize(o, s, L, F0) + appended
                     ELSE FirstSize(o, s, L, F0)

IsTail(f, b) == f[b] = EOF

\* fat.table[curr_block] = k; fat.table[k] = EOF
\* mutants: the new block is not marked EOF; the link is written backwards
LinkBlockNoEOF(f, tail, k) == [f EXCEPT ![tail] = k]
LinkBlockSwapped(f, tail, k) == [f EXCEPT ![k] = tail, ![tail] = EOF]
LinkBlock(f, tail, k) == [f EXCEPT ![tail] = k, ![k] = EOF]

\* Write one more block at curr_block.
NextBlock(st, k) ==
  [st EXCEPT !.curr = k, !.rem = st.rem - MinOf(st.rem, BlockSize),
             !.touched = @ \cup {k}, !.data = @ \cup {k}]

\* while(buffer_bytes_remaining > 0): extend the chain at its end, else
\* follow it.  ok is FALSE when no free block is left (return -EPERM).
RECURSIVE WriteLoop(_)
WriteLoop(st) ==
  IF st.rem <= 0 THEN st
  ELSE IF IsTail(st.fat, st.curr)
       THEN IF FreeBlocks(st.fat) = {} THEN [st EXCEPT !.ok = FALSE]
            ELSE LET k == Min(FreeBlocks(st.fat))
                 IN WriteLoop(NextBlock([st EXCEPT !.fat = LinkBlock(st.fat, st.curr, k)], k))
       ELSE WriteLoop(NextBlock(st, st.fat[st.curr]))

\* write(/d/n.e, buf, s, o) with strlen(buf) = L; gb is the stack value
\* read as fat.table[-1] if the walk leaves the chain.
cs1550_write(d, n, e, o, s, L, gb) ==
  /\ ~crashed
  /\ FileVisible(d, n, e)        \* FUSE writes only to a file it opened
  /\ LET b   == DirBlock(d)
         j   == FileSlotOf(dirtab[b], n, e)
         fd  == dirtab[b].files[j]
         off == o % BlockSize
         c0  == WalkChain(LocalFat(gb), fd.nStartBlock, o \div BlockSize)
         res == WriteLoop([ok |-> TRUE, fat |-> LocalFat(gb), curr |-> c0,
                           rem |-> IF L >= BlockSize THEN L - (BlockSize - off) ELSE 0,
                           touched |-> FirstWrite(c0, off, L),
                           data |-> FirstData(c0, off, L)])
         fat2 == [i \in 0 .. NumFat - 1 |-> res.fat[i]]
     IN /\ o <= fd.fsize            \* else -EFBIG, nothing written
        \* fat.table[-1] is read only when the walk leaves the chain
        /\ gb # EOF => WalkChain(LocalFat(EOF), fd.nStartBlock, o \div BlockSize) = EOF
        /\ IF res.ok
           THEN LET dt2 == [dirtab EXCEPT ![b].files[j].fsize = NewSize(o, s, L, fd.fsize)]
                IN /\ fat' = fat2
                   /\ dirtab' = dt2
                   /\ dirty' = (dirty \cup (res.data \cap DataBlocks)) \ {b}
                   \* the directory block, root and FAT are written last
                   /\ clobbered' = clobbered \cup
                        ((res.touched \cap OwnedBlocks(fat2, dt2, b, j)) \ {0, 1, b})
           ELSE /\ clobbered' = clobbered \cup (res.touched \cap OwnedBlocks(fat, dirtab, b, j))
                /\ dirty' = dirty \cup (res.data \cap DataBlocks)
                /\ UNCHANGED <<fat, dirtab>>
        /\ UNCHANGED <<root, crashed>>

-----------------------------------------------------------------------------
(* read                                                                    *)

\* The copy loop from block c: while(fat.table[curr_block] != EOF) moves to
\* the next block and copies strlen of it past buf.  A pass onto block 0,
\* whose entry is 0, stays there, copying the root block (strlen >= 1 once
\* a directory exists) ever further past buf until the daemon faults.
RECURSIVE ReadLoopFaults(_, _, _)
ReadLoopFaults(f, c, k) ==
  /\ k > 0
  /\ f[c] # EOF
  /\ \/ f[c] = 0 /\ f[0] = 0
     \/ ReadLoopFaults(f, f[c], k - 1)

\* read(/d/n.e, o) with gb as fat.table[-1].  It writes back the root and
\* FAT it read, so it changes the disk only by killing the daemon; a read
\* that returns is a stutter.
cs1550_read(d, n, e, o, gb) ==
  /\ ~crashed
  /\ FileVisible(d, n, e)
  /\ LET fd == dirtab[DirBlock(d)].files[FileSlotOf(dirtab[DirBlock(d)], n, e)]
     IN /\ o <= fd.fsize            \* else -EFBIG
        /\ gb # EOF => WalkChain(LocalFat(EOF), fd.nStartBlock, o \div BlockSize) = EOF
        /\ ReadLoopFaults(LocalFat(gb), WalkChain(LocalFat(gb), fd.nStartBlock, o \div BlockSize),
                          NumFat + 1)
  /\ crashed' = TRUE
  /\ UNCHANGED <<root, fat, dirtab, dirty, clobbered>>

-----------------------------------------------------------------------------
(* The daemon is started again on the same disk image after it died.      *)
Remount ==
  /\ crashed
  /\ crashed' = FALSE
  /\ UNCHANGED <<root, fat, dirtab, dirty, clobbered>>

Init ==
  /\ root = [nDirectories |-> 0, directories |-> [i \in DirSlots |-> NoDir]]
  /\ fat = [b \in 0 .. NumFat - 1 |-> FREE]
  /\ dirtab = [b \in DataBlocks |-> EmptyTable]
  /\ dirty = {}
  /\ crashed = FALSE
  /\ clobbered = {}

Next ==
  \/ \E d \in DirNames : cs1550_mkdir(d)
  \/ \E d \in DirNames, n \in FileNames, e \in FileExts : cs1550_mknod(d, n, e)
  \/ \E d \in DirNames, n \in FileNames, e \in FileExts, o \in 0 .. MaxFileSize,
        s \in 1 .. MaxLen, L \in 0 .. MaxLen, gb \in StackValues :
        cs1550_write(d, n, e, o, s, L, gb)
  \/ \E d \in DirNames, n \in FileNames, e \in FileExts, o \in 0 .. MaxFileSize,
        gb \in StackValues :
        cs1550_read(d, n, e, o, gb)
  \/ Remount

Spec == Init /\ [][Next]_vars

-----------------------------------------------------------------------------
(* The namespace readdir lists: the names of the used root slots, and for  *)
(* each directory the keys of the used slots of the table its first root   *)
(* slot points at.                                                          *)
DirKeys(d) == IF DirExists(d)
              THEN {<<dirtab[DirBlock(d)].files[j].fname, dirtab[DirBlock(d)].files[j].fext>> :
                      j \in UsedFileSlots(dirtab[DirBlock(d)])}
              ELSE {}

NS == INSTANCE Namespace
        WITH nsDirs  <- {root.directories[i].dname : i \in UsedDirSlots},
             nsFiles <- [d \in DirNames |-> DirKeys(d)]

-----------------------------------------------------------------------------
(* Properties                                                              *)

TypeOK ==
  /\ root \in [nDirectories : 0 .. MaxDirs,
               directories : [DirSlots -> [dname : DirNames, nStartBlock : DataBlocks]
                                            \cup {NoDir}]]
  /\ fat \in [0 .. NumFat - 1 -> {FREE, EOF} \cup DataBlocks]
  /\ \A b \in DataBlocks :
       /\ dirtab[b].nFiles \in 0 .. MaxFiles
       /\ dirtab[b].files \in [FileSlots -> [fname : FileNames \cup {Empty},
                                             fext : FileExts,
                                             fsize : 0 .. MaxFileSize + MaxLen + 1,
                                             nStartBlock : {EOF, 0} \cup DataBlocks]]
  /\ dirty \subseteq DataBlocks
  /\ crashed \in BOOLEAN
  /\ clobbered \subseteq 0 .. NumFat

\* The file entries of the directories in the root, as <<block, slot>>.
FileEntries == {<<c, i>> \in DirBlocks \X FileSlots : i \in UsedFileSlots(dirtab[c])}
Entry(c, i) == dirtab[c].files[i]

\* Following the FAT from b reaches EOF within k steps, through data blocks.
RECURSIVE EndsInEOF(_, _, _)
EndsInEOF(f, b, k) ==
  IF f[b] = EOF THEN TRUE
  ELSE IF k = 0 \/ f[b] \notin DataBlocks THEN FALSE
  ELSE EndsInEOF(f, f[b], k - 1)

(* getattr scans only the first nDirectories root slots while readdir,     *)
(* mkdir and mknod scan all of them: the two agree only if nDirectories    *)
(* counts the used slots and the used slots are a prefix.  Names are       *)
(* unique, so every lookup of a name finds the one directory mkdir made.   *)
RootWellFormed ==
  /\ root.nDirectories = Cardinality(UsedDirSlots)
  /\ \A i \in UsedDirSlots, k \in DirSlots : k < i => k \in UsedDirSlots
  /\ \A i, k \in UsedDirSlots :
       i # k => root.directories[i].dname # root.directories[k].dname

(* In every directory table nFiles counts the used slots (mknod's capacity *)
(* check relies on it) and no two used slots hold the same name and       *)
(* extension, so lookups by getattr, read and write are unambiguous.       *)
DirTablesWellFormed ==
  \A b \in DirBlocks :
    /\ dirtab[b].nFiles = Cardinality(UsedFileSlots(dirtab[b]))
    /\ \A i, k \in UsedFileSlots(dirtab[b]) :
         i # k => \/ dirtab[b].files[i].fname # dirtab[b].files[k].fname
                  \/ dirtab[b].files[i].fext # dirtab[b].files[k].fext

(* Every allocated FAT entry starts a path that ends in EOF: the chain     *)
(* walks of read and write, which stop only at EOF, never run through a    *)
(* FREE entry or around a cycle from an allocated block.                   *)
ChainsWellFormed ==
  \A b \in DataBlocks : fat[b] # FREE => EndsInEOF(fat, b, NumFat)

(* The FAT only grows: a FREE entry can only become EOF (allocation), an  *)
(* EOF can only become a link to a block that was FREE (chain extension)   *)
(* and a link never changes.  No handler relinks or frees a block.         *)
FatOnlyGrows ==
  [][\A b \in 0 .. NumFat - 1 :
       fat'[b] # fat[b] =>
         \/ fat[b] = FREE /\ fat'[b] = EOF
         \/ fat[b] = EOF /\ fat'[b] \in DataBlocks /\ fat[fat'[b]] = FREE]_fat

(* No handler writes into a block that belongs to the root, the FAT, a     *)
(* directory table or another file without writing it back afterwards.     *)
NoClobber == clobbered = {}

(* A file's recorded size never exceeds the bytes its chain can hold, so   *)
(* a read or write at any offset up to the size stays on the chain.        *)
SizeWithinChain ==
  \A <<c, i>> \in FileEntries :
    Entry(c, i).nStartBlock # EOF =>
      Entry(c, i).fsize <= Cardinality(ChainFrom(fat, Entry(c, i).nStartBlock, NumFat)) * BlockSize

\* A file mknod created has a data block: getattr reports every name that
\* readdir lists.
EveryEntryAllocated == \A <<c, i>> \in FileEntries : Entry(c, i).nStartBlock # EOF

\* No block is used by two structures: directory blocks are distinct and
\* outside every file chain, and file chains are pairwise disjoint.
NoSharedBlocks ==
  /\ \A i, k \in UsedDirSlots :
       i # k => root.directories[i].nStartBlock # root.directories[k].nStartBlock
  /\ \A <<c, i>> \in FileEntries :
       DirBlocks \cap ChainFrom(fat, Entry(c, i).nStartBlock, NumFat) = {}
  /\ \A x, y \in FileEntries :
       x # y => ChainFrom(fat, Entry(x[1], x[2]).nStartBlock, NumFat)
                  \cap ChainFrom(fat, Entry(y[1], y[2]).nStartBlock, NumFat) = {}

(* Every entry mkdir and mknod store owns a block of its own, even when    *)
(* the FAT is full: a file's start block is allocated (EveryEntryAllocated) *)
(* and no block serves two structures (NoSharedBlocks).                    *)
EntriesOwnBlocks == EveryEntryAllocated /\ NoSharedBlocks

(* CS1550FS implements Namespace: every handler step either leaves the    *)
(* names readdir lists alone or is one abstract mkdir (a new, empty        *)
(* directory within MAX_DIRS_IN_ROOT) or mknod (one new key in an existing  *)
(* directory within MAX_FILES_IN_DIR).  A new directory that shows files,   *)
(* a file that vanishes or appears in two directories breaks it.  This is  *)
(* NS!NsSpec with its box action restricted to the steps the code can      *)
(* represent: steps taken on a full FAT (mkdir's uninitialized start       *)
(* block, see NoSharedBlocks) and fwrites into another structure's block   *)
(* (see NoClobber) are findings of their own and are excused here.          *)
NsExcused == FreeBlocks(fat) = {} \/ clobbered' # clobbered
NamespaceRefined ==
  /\ NS!NsInit
  /\ [][NsExcused \/ NS!NsNext]_NS!nsVars

=============================================================================
