---------------------------- MODULE CS1550FSConc ----------------------------
(***************************************************************************)
(* The cs1550 filesystem served by several FUSE threads.  fuse_main runs  *)
(* each request on a thread of its own and no handler takes a lock, so    *)
(* every handler is split into the disk accesses it makes, each of which  *)
(* is one step:                                                            *)
(*                                                                         *)
(*   read_root (request start)  -> read_fat  -> fread of the directory     *)
(*   table -> fwrite of file data (write) -> fwrite of the directory      *)
(*   table -> write_root -> write_fat                                     *)
(*                                                                         *)
(* with the local computation of the handler attached to the disk access  *)
(* that precedes it.  The disk is the state of CS1550FS; the handlers'    *)
(* copies of the root, the FAT and the directory table are per-thread     *)
(* variables.  The helpers that compute on copies are CS1550FS's own.     *)
(*                                                                         *)
(* A lookup in a copy that fails although the kernel found the name (it   *)
(* can only fail when another thread lost an update) leaves the local    *)
(* struct uninitialized; the model takes the early return for it.         *)
(***************************************************************************)
EXTENDS Integers, FiniteSets, FiniteSetsExt

CONSTANTS
  BlockSize, NumFat, MaxDirs, MaxFiles, DirNames, FileNames, Exts, Empty,
  MaxLen, MaxFileSize, StackValues,
  Threads,      \* the threads of fuse_main's loop
  Handlers      \* the handlers users' requests reach

VARIABLES
  root, fat, dirtab, dirty, crashed, clobbered,  \* the image and the daemon
  pc,      \* pc[t]: the disk access thread t makes next ("idle": no request)
  req,     \* req[t]: the request thread t serves
  lroot,   \* lroot[t]: the handler's root (read_root, then its changes)
  lfat,    \* lfat[t]: the handler's FAT (read_fat, then its changes)
  lblk,    \* lblk[t]: the block of its directory-table fread/fwrite
  ltab,    \* ltab[t]: the table it read (then changed) or will write
  lcur,    \* lcur[t]: mkdir's nStartBlock; read's curr_block
  acked    \* history: directories a mkdir created and returned 0 for

FS == INSTANCE CS1550FS

diskVars == <<root, fat, dirtab, dirty, crashed, clobbered>>
threadVars == <<pc, req, lroot, lfat, lblk, ltab, lcur>>
cvars == <<diskVars, threadVars, acked>>

FileExts == FS!FileExts
DataBlocks == FS!DataBlocks
EOF == FS!EOF

\* A request as FUSE passes it: the handler, the path /d/n.e, and the
\* offset, size and strlen(buf) of a write (the offset of a read).
Requests ==
  [op : {"mkdir"}, d : DirNames, n : {Empty}, e : {Empty}, o : {0}, s : {0}, L : {0}]
  \cup [op : {"mknod"}, d : DirNames, n : FileNames, e : FileExts, o : {0}, s : {0}, L : {0}]
  \cup [op : {"write"}, d : DirNames, n : FileNames, e : FileExts,
        o : 0 .. MaxFileSize, s : 1 .. MaxLen, L : 0 .. MaxLen]
  \cup [op : {"read"}, d : DirNames, n : FileNames, e : FileExts,
        o : 0 .. MaxFileSize, s : {0}, L : {0}]
NoRequest == [op |-> "none", d |-> Empty, n |-> Empty, e |-> Empty, o |-> 0, s |-> 0, L |-> 0]

\* The locals of an idle thread (their values no longer matter).
NoRoot == [nDirectories |-> 0, directories |-> [i \in FS!DirSlots |-> FS!NoDir]]
NoFat == [b \in 0 .. NumFat - 1 |-> FS!FREE]

\* The directory-lookup loop over a copy of the root: the first slot named d.
\* mutant: the scan starts at slot 1
RootHasFromOne(r, d) == \E i \in FS!DirSlots \ {0} : r.directories[i].dname = d
RootHas(r, d) == \E i \in FS!DirSlots : r.directories[i].dname = d
RootBlock(r, d) ==
  r.directories[Min({i \in FS!DirSlots : r.directories[i].dname = d})].nStartBlock

\* A copy of the FAT extended by index -1, the short below fat.table on the
\* handler's stack, which holds gb; and the block write_fat writes from it.
LocalFatOf(f, gb) == [i \in -1 .. NumFat - 1 |-> IF i = -1 THEN gb ELSE f[i]]
FatBlock(f) == [i \in 0 .. NumFat - 1 |-> f[i]]

\* The handler of thread t returns; the thread waits for the next request.
Return(t) ==
  /\ pc' = [pc EXCEPT ![t] = "idle"]
  /\ req' = [req EXCEPT ![t] = NoRequest]
  /\ lroot' = [lroot EXCEPT ![t] = NoRoot]
  /\ lfat' = [lfat EXCEPT ![t] = NoFat]
  /\ lblk' = [lblk EXCEPT ![t] = 0]
  /\ ltab' = [ltab EXCEPT ![t] = FS!EmptyTable]
  /\ lcur' = [lcur EXCEPT ![t] = 0]

\* The daemon dies: every thread's request is gone with it.
Reset ==
  /\ pc' = [u \in Threads |-> "idle"]
  /\ req' = [u \in Threads |-> NoRequest]
  /\ lroot' = [u \in Threads |-> NoRoot]
  /\ lfat' = [u \in Threads |-> NoFat]
  /\ lblk' = [u \in Threads |-> 0]
  /\ ltab' = [u \in Threads |-> FS!EmptyTable]
  /\ lcur' = [u \in Threads |-> 0]

Goto(t, l) == pc' = [pc EXCEPT ![t] = l]

-----------------------------------------------------------------------------
\* The inode lock the kernel's VFS holds from the call into the filesystem
\* until FUSE's reply: mkdir and mknod lock the parent directory, write the
\* file; read takes none.  Requests a and b never run at the same time.
InodeLockConflict(a, b) ==
  \/ a.op = "mkdir" /\ b.op = "mkdir"
  \/ a.op = "mknod" /\ b.op = "mknod" /\ a.d = b.d
  \/ a.op = "write" /\ b.op = "write" /\ <<a.d, a.n, a.e>> = <<b.d, b.n, b.e>>

(* read_root: FUSE hands a request to an idle thread, which reads block 0. *)
(* mknod, write and read reach the handler only for names the kernel's    *)
(* lookup (getattr on the disk as it is now) found, and only once no      *)
(* other thread's request holds the inode lock the request needs.         *)
Start(t) ==
  /\ ~crashed
  /\ pc[t] = "idle"
  /\ \E r \in Requests :
       /\ r.op \in Handlers
       /\ \A u \in Threads \ {t} : pc[u] # "idle" => ~InodeLockConflict(req[u], r)
       /\ r.op = "mknod" => FS!DirExists(r.d)
       /\ r.op \in {"write", "read"} => FS!FileVisible(r.d, r.n, r.e)
       /\ req' = [req EXCEPT ![t] = r]
  /\ lroot' = [lroot EXCEPT ![t] = root]
  /\ Goto(t, "read_fat")
  /\ UNCHANGED <<diskVars, lfat, lblk, ltab, lcur, acked>>

(* read_fat, and mkdir's checks and allocation on the copies (lines       *)
(* 366-401): the new directory goes in the first free slot with the first *)
(* free block, or an uninitialized block when the FAT is full.  fread of  *)
(* block g leaves the stream at g + 1, where the zeroed table goes.       *)
MkdirPlan(t) ==
  LET r == lroot[t]
      d == req[t].d
      i == Min({s \in FS!DirSlots : r.directories[s].dname = Empty})
      j == FS!AllocIndex(fat)
  IN \/ /\ r.nDirectories >= MaxDirs \/ RootHas(r, d) \/ ~RootHas(r, Empty)
        /\ Return(t)
     \/ /\ r.nDirectories < MaxDirs /\ ~RootHas(r, d) /\ RootHas(r, Empty)
        /\ \E g \in IF j # EOF THEN {j} ELSE DataBlocks :
             /\ lroot' = [lroot EXCEPT ![t] = FS!AddDir(r, i, d, g)]
             /\ lfat' = [lfat EXCEPT ![t] = IF j # EOF THEN FS!Claim(fat, j) ELSE fat]
             /\ lblk' = [lblk EXCEPT ![t] = g + 1]
             /\ ltab' = [ltab EXCEPT ![t] = FS!EmptyTable]
             /\ lcur' = [lcur EXCEPT ![t] = g]
        /\ Goto(t, "write_dir")
        /\ UNCHANGED req

\* read_fat, and the directory lookup of mknod, write and read.
LookupPlan(t) ==
  \/ /\ RootHas(lroot[t], req[t].d)
     /\ lfat' = [lfat EXCEPT ![t] = fat]
     /\ lblk' = [lblk EXCEPT ![t] = RootBlock(lroot[t], req[t].d)]
     /\ Goto(t, "read_dir")
     /\ UNCHANGED <<req, lroot, ltab, lcur>>
  \/ /\ ~RootHas(lroot[t], req[t].d)
     /\ Return(t)

ReadFat(t) ==
  /\ pc[t] = "read_fat"
  /\ IF req[t].op = "mkdir" THEN MkdirPlan(t) ELSE LookupPlan(t)
  /\ UNCHANGED <<diskVars, acked>>

-----------------------------------------------------------------------------
(* fread of the directory table, and what each handler does with it.      *)

\* mknod, lines 502-553: capacity check, duplicate scan (strcmp(fext, NULL)
\* kills the daemon, and with it every thread), first free slot and block.
MknodPlan(t, tab) ==
  LET n == req[t].n
      e == req[t].e
  IN \/ /\ \/ tab.nFiles >= MaxFiles
           \/ ~FS!NullExtCompare(tab, n, e) /\ FS!FileExistsIn(tab, n, e)
        /\ Return(t)
        /\ UNCHANGED <<diskVars, acked>>
     \/ /\ tab.nFiles < MaxFiles /\ FS!NullExtCompare(tab, n, e)
        /\ crashed' = TRUE
        /\ Reset
        /\ UNCHANGED <<root, fat, dirtab, dirty, clobbered, acked>>
     \/ /\ tab.nFiles < MaxFiles /\ ~FS!NullExtCompare(tab, n, e)
        /\ ~FS!FileExistsIn(tab, n, e)
        /\ \E j \in FS!FileSlots : tab.files[j].fname = Empty /\ tab.files[j].fext = Empty
        /\ LET j == Min({s \in FS!FileSlots : tab.files[s].fname = Empty
                                             /\ tab.files[s].fext = Empty})
               k == FS!AllocIndex(lfat[t])
           IN /\ ltab' = [ltab EXCEPT ![t] = FS!AddFile(tab, j, n, e, k)]
              /\ lfat' = [lfat EXCEPT ![t] = IF k = EOF THEN @ ELSE FS!Claim(@, k)]
        /\ Goto(t, "write_dir")
        /\ UNCHANGED <<diskVars, req, lroot, lblk, lcur, acked>>

\* write and read, lines 831-856 and 663-688: the file lookup, and -EFBIG
\* for an offset past the size.  read's walk to block offset/BLOCK_SIZE
\* follows its copy of the FAT; off the chain it reads fat.table[-1], which
\* holds gb (only then does gb matter).
FilePlan(t, tab) ==
  LET r == req[t]
      fd == tab.files[FS!FileSlotOf(tab, r.n, r.e)]
  IN \/ /\ ~FS!FileExistsIn(tab, r.n, r.e)
        /\ Return(t)
     \/ /\ FS!FileExistsIn(tab, r.n, r.e) /\ r.o > fd.fsize
        /\ Return(t)
     \/ /\ FS!FileExistsIn(tab, r.n, r.e) /\ r.o <= fd.fsize
        /\ ltab' = [ltab EXCEPT ![t] = tab]
        /\ \/ /\ r.op = "write"
              /\ Goto(t, "write_data")
              /\ UNCHANGED <<req, lroot, lfat, lblk, lcur>>
           \/ /\ r.op = "read"
              /\ \E gb \in StackValues :
                   LET f == LocalFatOf(lfat[t], gb)
                   IN /\ gb # EOF => FS!WalkChain(LocalFatOf(lfat[t], EOF), fd.nStartBlock,
                                                  r.o \div BlockSize) = EOF
                      /\ lfat' = [lfat EXCEPT ![t] = f]
                      /\ lcur' = [lcur EXCEPT ![t] = FS!WalkChain(f, fd.nStartBlock,
                                                                  r.o \div BlockSize)]
              /\ Goto(t, "read_loop")
              /\ UNCHANGED <<req, lroot, lblk>>

ReadDir(t) ==
  /\ pc[t] = "read_dir"
  /\ IF req[t].op = "mknod" THEN MknodPlan(t, dirtab[lblk[t]])
     ELSE /\ FilePlan(t, dirtab[lblk[t]]) /\ UNCHANGED <<diskVars, acked>>

-----------------------------------------------------------------------------
(* The fwrite calls.                                                       *)

\* dir_entry.files[file_directory_index] = file_dir: the new size is put in
\* the table copy that is written back.
\* mutant: the updated entry is not copied back into the table
SaveEntryLost(tab, j, size) == tab
SaveEntry(tab, j, size) == [tab EXCEPT !.files[j].fsize = size]

\* write's data fwrites, lines 883-956: cs1550_write's first block and loop
\* on the handler's copies; the blocks reached are written now, the
\* directory table, root and FAT later.  -EPERM returns here.
WriteData(t) ==
  /\ pc[t] = "write_data"
  /\ \E gb \in StackValues :
     LET r   == req[t]
         b   == lblk[t]
         tab == ltab[t]
         j   == FS!FileSlotOf(tab, r.n, r.e)
         fd  == tab.files[j]
         off == r.o % BlockSize
         f   == LocalFatOf(lfat[t], gb)
         c0  == FS!WalkChain(f, fd.nStartBlock, r.o \div BlockSize)
         res == FS!WriteLoop([ok |-> TRUE, fat |-> f, curr |-> c0,
                              rem |-> IF r.L >= BlockSize THEN r.L - (BlockSize - off) ELSE 0,
                              touched |-> FS!FirstWrite(c0, off, r.L),
                              data |-> FS!FirstData(c0, off, r.L)])
         tab2 == SaveEntry(tab, j, FS!NewSize(r.o, r.s, r.L, fd.fsize))
     IN /\ gb # EOF => FS!WalkChain(LocalFatOf(lfat[t], EOF), fd.nStartBlock,
                                    r.o \div BlockSize) = EOF
        /\ dirty' = dirty \cup (res.data \cap DataBlocks)
        /\ IF res.ok
           THEN /\ clobbered' = clobbered \cup
                     ((res.touched \cap FS!OwnedBlocks(FatBlock(res.fat),
                                                       [dirtab EXCEPT ![b] = tab2], b, j))
                       \ {0, 1, b})
                /\ lfat' = [lfat EXCEPT ![t] = FatBlock(res.fat)]
                /\ ltab' = [ltab EXCEPT ![t] = tab2]
                /\ Goto(t, "write_dir")
                /\ UNCHANGED <<req, lroot, lblk, lcur>>
           ELSE /\ clobbered' = clobbered \cup (res.touched \cap FS!OwnedBlocks(fat, dirtab, b, j))
                /\ Return(t)
  /\ UNCHANGED <<root, fat, dirtab, crashed, acked>>

\* read's copy loop, lines 722-730: while(fat.table[curr_block] != EOF)
\* curr_block = fat.table[curr_block], on the handler's copy of the FAT,
\* each pass copying strlen(block) bytes to buf + curr_buffer_size.  A pass
\* onto block 0, whose entry is 0, never leaves it, and copies the root
\* block (nDirectories >= 1: strlen >= 1) ever further past buf: SIGSEGV.
ReadLoop(t) ==
  /\ pc[t] = "read_loop"
  /\ LET f    == lfat[t]
         next == f[lcur[t]]
     IN \/ /\ next = EOF
           /\ Goto(t, "write_root")
           /\ UNCHANGED <<crashed, req, lroot, lfat, lblk, ltab, lcur>>
        \/ /\ next # EOF /\ ~(next = 0 /\ f[0] = 0)
           /\ lcur' = [lcur EXCEPT ![t] = next]
           /\ UNCHANGED <<crashed, pc, req, lroot, lfat, lblk, ltab>>
        \/ /\ next = 0 /\ f[0] = 0
           /\ crashed' = TRUE
           /\ Reset
  /\ UNCHANGED <<root, fat, dirtab, dirty, clobbered, acked>>

\* fwrite of the directory table: mkdir's zeroed table at nStartBlock + 1
\* (lines 407-410), mknod's and write's changed table at its block (lines
\* 557-558, 963-965).  A block past the FAT is outside the model's disk.
WriteDir(t) ==
  /\ pc[t] = "write_dir"
  /\ LET z == lblk[t]
     IN /\ dirtab' = IF z \in DataBlocks THEN [dirtab EXCEPT ![z] = ltab[t]] ELSE dirtab
        /\ CASE req[t].op = "mkdir" ->
                  /\ dirty' = dirty \ {z}
                  /\ clobbered' = clobbered \cup (({lcur[t]} \cap dirty)
                                    \cup ({z} \cap FS!OwnedBlocks(fat, dirtab, -1, -1)))
             [] req[t].op = "write" ->
                  /\ dirty' = dirty \ {z}
                  /\ UNCHANGED clobbered
             [] OTHER -> UNCHANGED <<dirty, clobbered>>
  /\ Goto(t, "write_root")
  /\ UNCHANGED <<root, fat, crashed, req, lroot, lfat, lblk, ltab, lcur, acked>>

\* write_root, lines 111-115.
WriteRoot(t) ==
  /\ pc[t] = "write_root"
  /\ root' = lroot[t]
  /\ Goto(t, "write_fat")
  /\ UNCHANGED <<fat, dirtab, dirty, crashed, clobbered, req, lroot, lfat, lblk, ltab, lcur, acked>>

\* write_fat, lines 118-123; the handler then returns (mkdir returns 0).
WriteFat(t) ==
  /\ pc[t] = "write_fat"
  /\ fat' = FatBlock(lfat[t])
  /\ acked' = IF req[t].op = "mkdir" THEN acked \cup {req[t].d} ELSE acked
  /\ Return(t)
  /\ UNCHANGED <<root, dirtab, dirty, crashed, clobbered>>

\* The daemon is started again on the same image after it died.
Remount ==
  /\ crashed
  /\ crashed' = FALSE
  /\ UNCHANGED <<root, fat, dirtab, dirty, clobbered, threadVars, acked>>

Init ==
  /\ FS!Init
  /\ pc = [t \in Threads |-> "idle"]
  /\ req = [t \in Threads |-> NoRequest]
  /\ lroot = [t \in Threads |-> NoRoot]
  /\ lfat = [t \in Threads |-> NoFat]
  /\ lblk = [t \in Threads |-> 0]
  /\ ltab = [t \in Threads |-> FS!EmptyTable]
  /\ lcur = [t \in Threads |-> 0]
  /\ acked = {}

Thread(t) ==
  \/ ReadFat(t) \/ ReadDir(t) \/ WriteData(t) \/ ReadLoop(t)
  \/ WriteDir(t) \/ WriteRoot(t) \/ WriteFat(t)

Next ==
  \/ \E t \in Threads : Start(t) \/ Thread(t)
  \/ Remount

\* A thread that has a request runs (the kernel schedules every runnable
\* thread); requests themselves need not come.
Fairness == \A t \in Threads : WF_cvars(Thread(t))

Spec == Init /\ [][Next]_cvars /\ Fairness

-----------------------------------------------------------------------------
(* The image as the handlers' atomic steps see it.  A handler's first     *)
(* fwrite is its atomic step (mkdir's and mknod's directory table,       *)
(* write's data); until its last one, the root, FAT and table it has yet  *)
(* to write count as written.  With one thread this is the disk of       *)
(* CS1550FS.                                                               *)
RootPending(t) == pc[t] = "write_root" \/ (pc[t] = "write_dir" /\ req[t].op = "write")
FatPending(t) == pc[t] = "write_fat" \/ RootPending(t)
DirPending(t) == pc[t] = "write_dir" /\ req[t].op = "write"

ViewRoot == IF \E t \in Threads : RootPending(t)
            THEN lroot[CHOOSE t \in Threads : RootPending(t)] ELSE root
ViewFat == IF \E t \in Threads : FatPending(t)
           THEN FatBlock(lfat[CHOOSE t \in Threads : FatPending(t)]) ELSE fat
ViewDirtab == IF \E t \in Threads : DirPending(t)
              THEN LET t == CHOOSE t \in Threads : DirPending(t)
                   IN [dirtab EXCEPT ![lblk[t]] = ltab[t]]
              ELSE dirtab
ViewDirty == IF \E t \in Threads : DirPending(t)
             THEN dirty \ {lblk[CHOOSE t \in Threads : DirPending(t)]} ELSE dirty

Serial == INSTANCE CS1550FS
            WITH root <- ViewRoot, fat <- ViewFat, dirtab <- ViewDirtab, dirty <- ViewDirty

-----------------------------------------------------------------------------
(* Properties                                                              *)

Labels == {"idle", "read_fat", "read_dir", "write_data", "read_loop",
           "write_dir", "write_root", "write_fat"}

TypeOK ==
  /\ FS!TypeOK
  /\ pc \in [Threads -> Labels]
  /\ req \in [Threads -> Requests \cup {NoRequest}]
  /\ lblk \in [Threads -> 0 .. NumFat]
  /\ lcur \in [Threads -> -1 .. NumFat - 1]
  /\ acked \subseteq DirNames

(* One FUSE thread (fuse -s) runs the split handlers as CS1550FS runs the *)
(* atomic ones: every step of mkdir, mknod, write and read, in the order  *)
(* of its disk accesses, is a stutter or one step of CS1550FS, so the     *)
(* properties checked of CS1550FS hold of the split code.                  *)
SerialRefined == Serial!Spec

(* A directory mkdir created and returned 0 for stays in the root: no     *)
(* later write_root of another handler drops it.                           *)
AckedDirsPersist == \A d \in acked : FS!DirExists(d)

(* However the threads interleave, readdir never lists a directory or a  *)
(* file twice and every count is right: each write-back is a whole block  *)
(* made from one copy plus the handler's own change, checked against that *)
(* copy.  Interleaving loses updates (AckedDirsPersist) but never corrupts *)
(* a listing.                                                              *)
ListingsWellFormed == FS!RootWellFormed /\ FS!DirTablesWellFormed

(* A read returns its bytes or an error: no pass of read's copy loop     *)
(* kills the daemon, and with it every mount's requests.                   *)
ReadKeepsDaemonAlive == [][\A t \in Threads : ReadLoop(t) => ~crashed']_cvars

====
