# TLA+ models of CS1550 (projects 1, 2 and 4)

This directory holds TLA+ models of the code under `src/`, the TLC
configurations that check them, and `PROJECT.json`. `PROJECT.json` lists
the following, each tied to source lines:

- the components;
- the runs;
- the mutants;
- the map from definitions to code;
- the findings;
- the hazards.

## The system

| Part | Source | What it is |
|------|--------|------------|
| cs1550 filesystem | `src/project4/cs1550.c` | A FUSE daemon serving a two-level filesystem (root → directories → files) stored in the image file `.disk`. |
| Producer/consumer | `src/project2/prodcons.c` | Forked producers and consumers sharing an mmap'ed ring buffer guarded by three semaphores (`empty`, `full`, `mutex`). |
| Graphics library | `src/project1/library.c`, `driver.c`, `square.c` | A framebuffer drawing library over ioctl/mmap, and two demo drivers. `square.c` moves a square with w/a/s/d through `draw_rect`, which draws through `draw_pixel`. |

### The filesystem in detail (the part with real state)

Layout of `.disk`:

- Block 0 is the root table: `nDirectories` and `directories[i] = {dname, nStartBlock}`.
- Block 1 is the FAT: `short table[MAX_FAT_ENTRIES]`. An entry is 0 (free), -1 (`EOF`, end of chain) or the next block.
- Every other block is a directory table (`nFiles` and `files[j] = {fname, fext, fsize, nStartBlock}`) or file data.

Every handler works the same way:

1. It re-reads the root (`read_root`) and the FAT (`read_fat`) into local copies.
2. It finds the directory by a scan of the root.
3. It freads the directory block.
4. It changes its copies.
5. It writes back the directory block, then the root (`write_root`), then the FAT (`write_fat`).

Allocation is first-fit: the FAT is scanned from `START_ALLOC_BLOCK = 2`. Nothing is ever freed, because `rmdir`, `unlink` and `truncate` return 0 and do nothing. `fuse_main` is multithreaded by default and no handler locks anything. The only serialization is the kernel's: the VFS holds the parent directory's inode lock through `mkdir` and `mknod` (until FUSE's reply), and the file's inode lock through `write`. `read` takes no lock, and nothing locks the root or the FAT blocks.

## Modules

| Module | Models | Status |
|--------|--------|--------|
| `CS1550FS` | The root, FAT and directory tables, plus the three handlers that change them (`cs1550_mkdir`, `cs1550_mknod`, `cs1550_write`), each as one atomic step. Also a restart of the daemon after a crash. | done |
| `MC_CS1550FS` | The TLC instantiation: constants, a symmetry set, and a state constraint. | done |
| `Namespace` | What the filesystem promises about names: a set of at most `MaxDirs` directories, each with a set of at most `MaxFiles` `<<name, ext>>` keys. `Mkdir` adds an empty directory, `Mknod` a new key, and nothing is removed. `CS1550FS` is shown to implement it via `NS == INSTANCE Namespace WITH ...` (`NamespaceRefined`). | done |
| `CS1550FSConc` | The handlers `mkdir`, `mknod`, `write` and `read` split into their disk accesses and run by several FUSE threads over the disk of `CS1550FS`. With one thread it is shown to implement `CS1550FS` (`SerialRefined`). | done |
| `MC_CS1550FSConc` | The TLC instantiation of `CS1550FSConc`: smaller bounds for two threads, and symmetry on directory names and threads. | done |
| `ProdCons` | The producer and consumer loops of `prodcons.c`, one action per statement, over the three semaphores and the shared int array. | done |
| `MC_ProdCons` | The TLC instantiation: integer widths, an item bound, and a symmetry set. | done |
| `FusePaths` | The path resolution of `cs1550.c`: `strtok` and getattr's `sscanf("/%[^/]/%[^.].%s")` as operators over paths of one-character strings, getattr's, readdir's and mknod's checks in code order, composed with `Namespace` and the kernel's lookup–mknod–lookup sequence. | done |
| `MC_FusePaths` | The TLC instantiation: the real 8.3 limits, one directory name, and every last component of up to 5 characters over `{a, .}`. | done |
| `Graphics` | All of `library.c`'s drawing: the mapping size and raw terminal of `init_graphics`, `draw_pixel`'s clip and store, `draw_rect`'s outline, `draw_char`'s glyph bits, `draw_text`, and `exit_graphics`. It is driven by both demos, the key loop of `square.c` and the call sequence of `driver.c`. | done |
| `MC_Graphics` | The TLC instantiation: the 640×480, 16-bit screen both demos were written for, 4 KiB pages, a block font, both demos. | done |

### CS1550FS: state

| Variable | Code |
|----------|------|
| `root` | block 0 (`cs1550_root_directory`) |
| `fat` | block 1 (`cs1550_fat_block`), indices `0 .. NumFat-1` |
| `dirtab[b]` | block `b` read as a `cs1550_directory_entry` |
| `dirty` | data blocks holding bytes of file data. A fresh image is zero-filled. |
| `crashed` | the daemon died on a segmentation fault |
| `clobbered` | history: blocks of *other* structures a handler's fwrite reached |

Names are model values. `Empty` is the empty string of an unused slot or a missing extension. File contents are not modelled. A write is modelled by:

- the blocks its fwrite calls reach (`FirstWrite`, `FirstData` and `WriteLoop`);
- the FAT links it makes (`LinkBlock`);
- the size it records (`FirstSize` and `NewSize`, translated branch by branch, including the `offset == size → offset+1` branch).

### CS1550FS: actions

`cs1550_mkdir(d)` models lines 343–430.

- Its guards are the capacity check, the duplicate scan and the existence of a free root slot.
- First-fit allocation, then `MkdirAt`.
- The code freads the new block and then fwrites the zeroed table without a seek. glibc keeps the logical stream position, so the table lands on block `nStartBlock + 1`. The directory's own table is whatever its block held.
- When the FAT is full, `nStartBlock` is never assigned (undefined behaviour). The model picks any data block as the stale stack value.

`cs1550_mknod(d, n, e)` models lines 445–578.

- The kernel looks up `/d` before calling mknod, so `d` exists.
- The capacity check comes first.
- The duplicate scan calls `strcmp(fext, NULL)` when no extension is given and the name already exists. This crashes the daemon (`crashed`).
- Otherwise the entry goes in the first free slot with a first-fit block. The block is -1 when the FAT is full.

`cs1550_write(d, n, e, o, s, L, gb)` models lines 761–993.

- `s` is FUSE's `size`; `L` is `strlen(buf)`, which the code uses as the length.
- FUSE writes only to a file getattr reports (`FileVisible`).
- `o > fsize` returns `-EFBIG`.
- The walk to block `o / BlockSize` follows the local FAT. Walking off a chain reads `fat.table[-1]`, a short on the stack; its value is `gb ∈ StackValues`.
- Then the first-block fwrite (`FirstWrite`), the extension loop (`WriteLoop`) and the size bookkeeping.
- On `-EPERM` (no free block mid-loop) nothing is saved.
- On success the directory block, the root and the FAT are written back. That repairs blocks 0, 1 and the directory's block.

`cs1550_read(d, n, e, o, gb)` models lines 663–740. read writes back the root and FAT it read, so serially it changes the disk only when it kills the daemon, and that is the only step it has; a read that returns is a stutter. A walk off the chain reads `fat.table[-1] = gb`. When the copy loop (`ReadLoopFaults`) passes onto block 0, whose FAT entry is 0, it never leaves it. Each pass memcpys `strlen` of the root block (at least 1 once a directory exists) further past `buf`, until the daemon faults.

`Remount` restarts a crashed daemon on the same image (`main`).

`rmdir`, `unlink`, `truncate`, `open` and `flush` change nothing and are stuttering steps. So are `getattr`, `readdir` and `read`, run alone. `CS1550FSConc` gives `read` its write-back, which matters only with other threads.

### Namespace and the refinement mapping

`NS == INSTANCE Namespace WITH nsDirs <- ..., nsFiles <- ...` maps the disk to what readdir lists:

- `nsDirs` is the set of names in used root slots;
- `nsFiles[d]` is `DirKeys(d)`, the keys of the used slots of the table that `d`'s root slot points at.

`NamespaceRefined` is `NS!NsSpec` with its box action weakened by `NsExcused`: a step taken on a full FAT or a step that clobbers another structure's block is excused. Both are findings of their own (`fs_full_fat`, `fs_no_clobber`). Every other step of every handler, including the undefined-behaviour walk off a chain, must be an abstract `Mkdir`, an abstract `Mknod`, or leave the namespace alone. The mkdir case is the subtle one. The code fwrites the zeroed table on block `g+1`, not on `g`. So the new directory is empty only because `g`, just claimed from the free list, was never written. A missing `fat.table[g] = EOF` (the mutant `ClaimNoop`) lets the next mkdir reuse `g` and show the first directory's files.

### CS1550FSConc: state and actions

The disk variables are those of `CS1550FS`. Each thread `t` has the following variables:

| Variable | Code |
|----------|------|
| `pc[t]` | the disk access the handler makes next (`idle`: between requests) |
| `req[t]` | the FUSE request: handler, `/d/n.e`, offset, size, `strlen(buf)` |
| `lroot[t]`, `lfat[t]` | the handler's local `cs1550_root_directory root` and `cs1550_fat_block fat` |
| `lblk[t]`, `ltab[t]` | the directory block it freads/fwrites and its local table |
| `lcur[t]` | mkdir's `nStartBlock`; read's `curr_block` |
| `acked` | history: directories a mkdir returned 0 for |

Each disk access is one step, and the handler's local computation is attached to the access before it:

| Step | Code |
|------|------|
| `Start` | `read_root`, after the kernel's lookup (getattr) of the path, once no running request holds the inode lock it needs (`InodeLockConflict`: two mkdirs, two mknods in one directory, two writes of one file) |
| `ReadFat` | `read_fat`, with mkdir's whole plan (`MkdirPlan`) or the directory lookup of the others (`LookupPlan`) |
| `ReadDir` | the fread of the directory table, with mknod's plan (`MknodPlan`) or the file lookup of write/read (`FilePlan`) |
| `WriteData` | write's data fwrites and the FAT links it makes in its copy |
| `ReadLoop` | one iteration of read's chain loop (lines 722–730); a pass onto block 0 faults, killing every thread (`Reset`) |
| `WriteDir` | the fwrite of the directory table (mkdir's zeroed one lands on `g+1`) |
| `WriteRoot`, `WriteFat` | `write_root`, `write_fat` of the copies |
| `Remount` | a restart after a crash |

`Start` does the kernel's lookup and `read_root` in one step. So the handler's root copy always holds the directory the lookup found, and `LookupPlan`'s not-found branch is never taken. In the code another thread's stale `write_root` can fall between the two: the directory's inode lock does not cover the root. The handler's `dir` is then uninitialized. The hazard list records this case as not modelled.

`SerialRefined` checks `Serial == INSTANCE CS1550FS WITH root <- ViewRoot, ...`. The view is the disk with a running handler's pending root, FAT and table writes overlaid. So a handler's first disk write is its atomic step, and its later write-backs, which rewrite the same values, stutter. With one thread this mapping makes every step a `CS1550FS` step or a stutter. That validates the split of each handler into steps against the serial model the other runs use.

### ProdCons: state and actions

| Variable | Code |
|----------|------|
| `sem[s]` | the `cs1550_sem` `s` (value and sleeper queue) |
| `shm` | `shared_memory`: index 0 is `curr_produced`, index 1 is `curr_consumed`, index `2 + i` is `buffer_ptr[i]` |
| `pc` | the next statement of each forked process |
| `item` | each process's local `item` |

The loops, lines 107–116 and 123–131:

- `Down(p, s, ...)` is `down(s)`: decrement, then sleep at the tail of the queue if the value is negative.
- `Up(p, s, ...)` is `up(s)`: increment, then wake the head of the queue if the value is not positive.
- `Produce` and `Consume` are the statements under the mutex.

These semantics are those of the cs1550 semaphore system calls, which live in the kernel and are not part of the repository. The model's counters are C ints of `IntWidth` bits. `+= 1` wraps, and `%` truncates toward zero. So a negative counter indexes `buffer_ptr[-1]` or `buffer_ptr[-2]`, which are the counters themselves.

### FusePaths: parsers and protocol

The FUSE handlers parse the path in two ways. `cs1550_getattr` (lines 136–145) uses `sscanf(path, "/%[^/]/%[^.].%s", ...)`. `mkdir` and `mknod` (lines 456–462) call `strtok` on `"/"` and then twice on `"."`. The model has one operator per parser:

- `Strtok(s, D)` skips the leading delimiters, returns the token up to the next one, and returns where the next call resumes. `found = FALSE` stands for NULL.
- `SscanfPath(p)` fills each field until the first mismatch. `Span` is what `%[^c]` matches. `%s` takes the rest of the path, dots included.
- `MknodKey(p)` is the entry mknod stores (lines 540–543): the name, and the extension or `""`.

The handlers are `Getattr` (lines 147–215, a lookup with no state change), `MknodResult` (its checks in code order, including the `strcmp` with a NULL extension that crashes the daemon), and the actions `Mkdir(c)` and `Touch(d, c)`. An action is what the kernel does for `mkdir /c` or `touch /d/c`:

1. it looks the path up with getattr and proceeds only on ENOENT;
2. it calls the handler;
3. after a 0, it looks the new name up again.

`Readdir` (lines 241–331) is readdir's strtok length checks, then the root's non-empty slots, or the directory's entries as `filename_copy` builds them (`ListedName`: the name, then `.` and the extension if there is one). `Ls(d)` is `ls -l /d`: getattr on `/d`, readdir, then getattr on every listed name. `LsRoot` does the same for `/`.

`reported` records each name the filesystem handed out, by mknod returning 0 or by readdir, and whether the getattr that follows found it. The namespace variables are `Namespace`'s, changed through `NS!Mkdir` and `NS!Mknod`.

### Graphics: state and actions

`prog` is the demo running (`"square"` or `"driver"`), and `pc` is `driver.c`'s next call. `raw` says the terminal has ICANON and ECHO off: `init_graphics` sets it, and `exit_graphics` clears it. `x, y` is `square.c`'s position. `status` is `"running"`, `"exited"` or `"segv"`. `drawn` holds the pixels stored in the last step.

- `MappedBytes` is `size_of_display` (library.c lines 35–37) rounded up to whole pages, the bytes a store may touch.
- `Clips` is `draw_pixel`'s test with its `>` bounds (lines 110–114). `Stored` says the store falls inside the mapping.
- `RectPath` lists the pixels `draw_rect`'s four loops pass, in order (lines 128–144). `DrawRect` adds the early return and the clip.
- `DrawChar` is `draw_char` (lines 148–163): for row i and bit j, `shiftR(row, j) & 1` (the code's `& 0x01` and `>>= 1`) decides whether pixel (x + j, y + i) is drawn. `DrawText` places character i at x + 8i (lines 166–172).
- `Perform(w, exits)` stores the writes `w` in order (`draw_pixel`'s store, lines 110–119). The first store outside the mapping ends the process with the terminal still raw. A step that finishes the program runs `exit_graphics` (lines 43–52).
- `Driver` is `driver.c`'s calls after `init_graphics`, without their colours. `Call` performs the next one. `WaitKey(k)` is one turn of `while(getkey() != 'c')`. `sleep_ms` and `clear_screen` are calls that store nothing.
- `Iterate(k)` is one pass of the do-while loop (square.c lines 23–39): erase, `getkey` returns `k`, move, redraw, and exit on q. The first store outside the mapping ends the process.

`getkey`'s `'\0'` on a 5 s timeout and every other character are `"other"`, which moves nothing.

## Runs

| Run | Expect | What it shows |
|-----|--------|---------------|
| `fs_serial` | pass | Handlers run one at a time. `TypeOK` holds. `RootWellFormed`: `nDirectories` counts the used slots, which form a prefix, and names are unique; getattr scans only the first `nDirectories` slots, so this matters. `DirTablesWellFormed`: `nFiles` counts the used slots, and keys are unique. `ChainsWellFormed`: every allocated FAT entry ends in EOF, even through the walk off a chain with any stack value. `FatOnlyGrows` (action property): FREE→EOF and EOF→link to a free block are the only changes. `NamespaceRefined`: every step that neither runs on a full FAT nor clobbers another block is a step of the abstract `Namespace`. |
| `pc_safety` | pass | Two producers and two consumers on a two-slot buffer with 8-bit ints, up to 6 items (before any overflow). `MutualExclusion`. `BufferConsistent`: `out ≤ in ≤ out + size`, and every slot between them holds its item. `FifoDelivery` (action property): each consumer gets exactly the `curr_consumed`-th item. |
| `pc_liveness` | pass | The same processes with 2-bit ints and no item bound, so the counters wrap and the state graph is finite. Deadlock is checked. `EveryoneProgresses`: every process completes its loop infinitely often. |
| `fs_no_clobber` | violation | A short write at an unaligned offset writes a full block from that offset. Its NUL padding overwrites the start of the next physical block, here another directory's table. |
| `fs_size_within_chain` | violation | The `offset == size` branch sets `fsize = offset + 1` before adding the appended bytes. The recorded size then exceeds what the chain holds. |
| `paths_reported_visible` | violation | `ReportedNamesVisible`: `mkdir /a`, then `touch /a/a..`. mknod's `strtok` creates `a` with no extension and returns 0. getattr's `sscanf` reads the extension as `"."` and reports ENOENT for the file just created. `a.b.c` fails the same way. The names `readdir` lists are always found: with the mknod branch taken out, the same instance passes (511 states). |
| `gfx_offscreen_store` | violation | `DrawsOnScreen`, over both demos. The shortest trace is `driver.c`'s eighth call, `draw_rect(-150, 300, 80000, 300)`: its top side passes x = 640, which `draw_pixel`'s `>` test lets through, so pixel 0 of row 301 is overwritten. With `square.c` alone, 23 presses of s put the square's bottom side on row 480, and that store falls past the 614 400-byte mapping (status `segv`, terminal left raw). |
| `fs_full_fat` | violation | `EntriesOwnBlocks`: neither mknod nor mkdir checks a failed allocation. The trace has mknod store an entry with start block -1, so readdir lists a file that getattr says does not exist. mkdir on a full FAT uses an uninitialized start block. |
| `conc_single` | pass | One FUSE thread: the split handlers implement the atomic `CS1550FS` (`SerialRefined`). 287 000 states, about 2.5 minutes. |
| `conc_threads` | pass | Two threads serving mkdir, mknod and read in every interleaving the inode locks allow. `ListingsWellFormed`: the root and every table stay well-formed (counts right, no name twice), because each write-back is one whole block made from one copy. 1.9 million distinct states, under a minute. |
| `conc_lost_update` | violation | `AckedDirsPersist`: two mkdirs never overlap (both hold the root's inode lock), but `mknod /d1/f1.x` holds only `d1`'s. It reads the root before a concurrent `mkdir /d2` writes it back, and its own `write_root` (line 558) then drops `d2`, which mkdir already returned 0 for. read's stale `write_root` (line 735) can drop a directory the same way. |
| `conc_read_crash` | violation | `ReadKeepsDaemonAlive`: a 2-byte write fills one block, and a read at offset 2 walks to `curr_block = -1`. `fat.table[-1]` (a stack short) holds 0, so the loop goes to block 0, whose entry is 0, and stays there. Each pass copies the root block further past `buf`, and the daemon dies. |

Each violation run checks one property and corresponds to a finding in `PROJECT.json`. Each property of the passing run has a mutant: a plausible bug in a mapped definition (e.g. the allocation scan starting at block 0, or the new block not marked EOF), and the property catches it.

### Bounds and why they suffice

`fs_serial` uses these bounds:

- `BlockSize = 2`, so offsets 0..3 cover both block-boundary cases (aligned and unaligned, first and second block).
- `NumFat = 5`, i.e. three data blocks, so the FAT fills up after three allocations. Every full-FAT branch is reached.
- Two directories of two slots, so both capacity checks are reached.
- Two file names and one extension plus "none", so the NULL-extension crash and duplicate keys are reached.
- Write lengths `s, L ∈ 0..3` with `L` independent of `s`. `L ≥ BlockSize` reaches the multi-block loop.
- `StackValues` = EOF, FREE and every data block.

The run finishes in about 1.5 minutes with about 11 000 distinct states.

`fs_serial` checks the namespace refinement on the same instance. Three data blocks are enough for the mutant where a claimed block is not marked: mkdir, mknod and a second mkdir that reuses the block.

`conc_single` uses the `fs_serial` bounds with one file name. `conc_threads` has two threads and a FAT of 4 entries (two data blocks). mkdir and mknod can then collide, and a full FAT is reached. It leaves out `write`, whose sizes and offsets multiply the interleavings beyond a few minutes; `write`'s steps are covered by `conc_single`. The stack values are EOF, FREE and both data blocks.

The violation runs use `NumFat = 8` where the trace needs room, and `StackValues = {EOF}` where the stack value should not matter.

A state constraint, `MC_Represented` (`clobbered = {}`), is used because once a handler has written into another structure's block, the model knows only *that* the block was clobbered, not what it now holds. So the structural invariants are checked on every state up to and including the first clobbering write. `fs_no_clobber` shows that such a write is reachable.

`SYMMETRY` on directory names is sound because names only meet in equality tests.

`pc_safety` bounds `curr_produced ≤ 6` with a constraint. That is three laps of the two-slot buffer, with every interleaving of four processes; 18 000 states. In `pc_liveness` the 2-bit counters wrap after two items, which bounds the state space without a constraint, so liveness is checked on complete behaviours. Symmetry is used only in the safety run.

`MC_FusePaths` keeps the real `MAX_FILENAME` (8) and `MAX_EXTENSION` (3). It lowers the capacities to 1 directory and 2 files per directory, and the per-directory check is reached (a third touch). The last components are every string of 1 to 5 characters over `{a, .}`, except `.` and `..`, which the kernel never passes. That covers:

- no dot;
- one dot, leading, inner and trailing;
- two dots;
- an empty name.

Only the dots and their positions tell the two parsers apart, so one letter is enough. No component is long enough to reach the ENAMETOOLONG branches. Those branches reject before any state changes, and they test the same fields the other branches use.

`MC_Graphics` uses the screen both demos hard-code (640×480, `line_length` 1280). `MaxTravel = 340` lets the square reach every edge and go one stride past it. `iso_font.h` is not in the repository, so `MC_Font` gives every character `driver.c` draws a full 8×16 block. That is the most pixels any glyph can store, so any off-screen store some font could make is among those checked. Both demos are initial states.

### Fairness and deadlock

In `CS1550FS` nothing must eventually happen: requests come from users, and the daemon serves one at a time in this module. So `Spec` has no fairness. `CHECK_DEADLOCK FALSE` is set because a full filesystem, where every request fails and changes nothing, is a legitimate end state.

`CS1550FSConc` assumes weak fairness of each thread's handler steps (`Thread(t)`), not of `Start`: a thread that runs a handler is runnable, and the kernel eventually schedules it, but no user is obliged to send a request. No step of a handler blocks. read's block-0 loop, which never exits, faults the daemon instead (`conc_read_crash`), so no run checks a liveness property of `CS1550FSConc`.

`ProdCons` assumes weak fairness of each process's loop. The kernel scheduler eventually runs every runnable process, and a process asleep in a semaphore queue is not runnable, so it gets no fairness of its own. Its progress comes from the `up` of another process. Deadlock is checked, because the program is meant to run forever.

## Not modelled, and why

- **Path parsing at the byte level.** The one-byte stack overflow of `path_copy` and the unbounded `sscanf` conversions into 9/9/4-byte buffers are byte layout, out of the model's reach. Both are listed as hazards.
- **The NULL-extension crash** (`strcmp(fext, NULL)`, line 522) is modelled: `crashed` in `CS1550FS`, `CS1550FSConc` and `FusePaths`. No run is spent on it, because a two-call test (`/d/n.x`, then `/d/n`) shows it directly.
- **`prodcons.c`'s counter wrap** is modelled with 32-bit width. `pc_liveness` lets 2-bit counters wrap for finiteness, but no run checks `FifoDelivery` past the wrap, which takes 2^31 items on the real program.
- **File contents.** `strlen(buf)` vs `size` and the `strlen` copies in `read` are data questions. The model records the length a write uses, but not the bytes.
- **The `FILE *` leak** in `read_root`/`read_fat`. Each call fopens `.disk` and never fcloses it, so the daemon runs out of descriptors after about a thousand requests; getattr and readdir leak too. Once it does, the next `fopen` returns NULL and the `fseek`/`fwrite` on it kills the daemon.
  - With one request at a time, that crash always comes before the handler's first write. Every stream but the leaked ones is closed before `write_root` and `write_fat`, so those two see the same count as the handler's own `fopen` of the directory block. The disk is left as it was, which is the modelled crash (`crashed`, then `Remount`).
  - With threads, another thread's leak can make `write_fat` fail after `write_root`. That tears a handler, leaving a block the root uses and the FAT marks free. A thread that writes back a stale FAT leaves the same state, and that happens without any crash in the unlocked races `conc_lost_update` shows.
  - So the leak is listed as a hazard, with no run of its own. A soak test of about a thousand `ls` calls shows it directly.
- **prodcons.c's argument check** rejects only 0. A negative `size_of_buffer` starts `empty` below zero, and every process sleeps. `ProdCons` assumes the sizes the check means to admit (1..3); this is listed as a hazard.
- **readdir's `filename_copy[9]`.** strcat of an 8-character name, a dot and a 3-character extension overflows it. This is byte layout, listed as a hazard.
- **Timing in the graphics library.** `sleep_ms` only waits, and its nanosleep chunks change no state, so a `"sleep"` call stores nothing. `clear_screen` writes a terminal escape, not the framebuffer. `getkey` treats a failed `select` (-1) as a key and blocks in `read`. That is timing, listed as a hazard. The font, `iso_font.h`, is not in the repository and is the constant `Font`.

## Plan (in order)

1. `write` in the two-thread run, once a reduction makes it fit.
2. A counter of open streams in `CS1550FSConc`, to check the torn-handler case above separately from the races.
