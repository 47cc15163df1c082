----------------------------- MODULE Namespace -----------------------------
(***************************************************************************)
(* What the cs1550 filesystem promises about names, with the disk left    *)
(* out: a set of at most MaxDirs directories in the root, and in each one *)
(* a set of at most MaxFiles files, each named by a name and an extension *)
(* (Empty when there is none).  mkdir adds an empty directory, mknod adds  *)
(* a file to an existing directory, and nothing is ever removed (rmdir,    *)
(* unlink and truncate are no-ops).  write, read, getattr and readdir     *)
(* leave the namespace alone.  CS1550FS refines this module: its          *)
(* NamespaceRefined property is this Spec under a refinement mapping.     *)
(***************************************************************************)
EXTENDS Naturals, FiniteSets

CONSTANTS
  DirNames,     \* directory names
  FileNames,    \* file names
  FileExts,     \* extensions, Empty included
  MaxDirs,      \* capacity of the root
  MaxFiles      \* capacity of a directory

Keys == FileNames \X FileExts

VARIABLES
  nsDirs,       \* the directories readdir("/") lists
  nsFiles       \* nsFiles[d]: the <<name, ext>> pairs readdir("/d") lists

nsVars == <<nsDirs, nsFiles>>

NsInit ==
  /\ nsDirs = {}
  /\ nsFiles = [d \in DirNames |-> {}]

\* mkdir /d creates a new, empty directory while the root has room.
Mkdir(d) ==
  /\ d \notin nsDirs
  /\ Cardinality(nsDirs) < MaxDirs
  /\ nsDirs' = nsDirs \cup {d}
  /\ UNCHANGED nsFiles

\* mknod /d/n.e creates a new file in an existing directory with room.
Mknod(d, k) ==
  /\ d \in nsDirs
  /\ k \notin nsFiles[d]
  /\ Cardinality(nsFiles[d]) < MaxFiles
  /\ nsFiles' = [nsFiles EXCEPT ![d] = @ \cup {k}]
  /\ UNCHANGED nsDirs

NsNext ==
  \/ \E d \in DirNames : Mkdir(d)
  \/ \E d \in DirNames, k \in Keys : Mknod(d, k)

NsSpec == NsInit /\ [][NsNext]_nsVars

=============================================================================
