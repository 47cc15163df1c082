----------------------------- MODULE FusePaths -----------------------------
(***************************************************************************)
(* The path resolution of src/project4/cs1550.c, composed with the         *)
(* namespace it reads and changes.  The handlers parse the path FUSE       *)
(* passes them in two different ways:                                      *)
(*   - cs1550_getattr with sscanf(path, "/%[^/]/%[^.].%s", ...);            *)
(*   - cs1550_mkdir, cs1550_mknod (and readdir, read, write) with strtok    *)
(*     on "/" and then twice on ".".                                        *)
(* The kernel calls getattr on a path before it creates it, and again on   *)
(* the new name after mknod returns 0; ls -l calls readdir and then        *)
(* getattr on every name it lists.  So the parsers must agree on every     *)
(* name a user can create or see.                                          *)
(*                                                                         *)
(* A string is a sequence of one-character strings.  A path from the       *)
(* kernel is "/" followed by one or two components, each non-empty, free   *)
(* of "/" and neither "." nor "..".  The namespace is that of Namespace,  *)
(* with names as strings; the disk below it is CS1550FS's business.        *)
(***************************************************************************)
EXTENDS Naturals, Sequences, SequencesExt, FiniteSets

CONSTANTS
  MaxFilename,   \* MAX_FILENAME
  MaxExtension,  \* MAX_EXTENSION
  MaxDirs,       \* MAX_DIRS_IN_ROOT
  MaxFiles,      \* MAX_FILES_IN_DIR
  DirComps,      \* the directory names users mkdir and touch in
  FileComps      \* the last components of the paths users touch

VARIABLES
  nsDirs, nsFiles,   \* the namespace, as in Namespace
  crashed,           \* the daemon died on a segmentation fault
  reported           \* history: [path, visible] of every name mknod or readdir
                     \* reported, and whether the getattr after it found it

vars == <<nsDirs, nsFiles, crashed, reported>>

Empty == <<>>
Root(c) == <<"/">> \o c
FilePath(d, c) == <<"/">> \o d \o <<"/">> \o c

-----------------------------------------------------------------------------
(* The two parsers.                                                        *)

\* strtok(s, delims), s being what the previous call left: the token
\* (found = FALSE for NULL: only delimiters remain) and where the next call
\* resumes, past the delimiter it overwrote with NUL.
Strtok(s, D) ==
  LET i == SelectInSeq(s, LAMBDA ch : ch \notin D)
      t == SubSeq(s, i, Len(s))
      j == SelectInSeq(t, LAMBDA ch : ch \in D)
  IN CASE i = 0 -> [found |-> FALSE, tok |-> Empty, rest |-> Empty]
       [] j = 0 -> [found |-> TRUE, tok |-> t, rest |-> Empty]
       [] OTHER -> [found |-> TRUE, tok |-> SubSeq(t, 1, j - 1),
                    rest |-> SubSeq(t, j + 1, Len(t))]

\* directory = strtok(path_copy, "/"); file_name = strtok(NULL, ".");
\* file_ext = strtok(NULL, ".")
MknodParse(p) ==
  LET t1 == Strtok(p, {"/"})
      t2 == Strtok(t1.rest, {"."})
      t3 == Strtok(t2.rest, {"."})
  IN [dir |-> t1, name |-> t2, ext |-> t3]

\* The entry mknod creates: file_ext, or "" when it is NULL or empty.
MknodKey(p) ==
  LET a == MknodParse(p) IN <<a.name.tok, IF a.ext.found THEN a.ext.tok ELSE Empty>>

\* The length of the longest prefix of s without c: what %[^c] matches
\* (the conversion, and the sscanf, stops when it is 0).
Span(s, c) == LET j == SelectInSeq(s, LAMBDA ch : ch = c)
              IN IF j = 0 THEN Len(s) ELSE j - 1

\* sscanf(path, "/%[^/]/%[^.].%s", directory, filename, extension) after
\* the three strcpy(_, ""): each field is filled until the first mismatch.
\* %s takes the whole rest (no white space in a path), dots included.
SscanfPath(p) ==
  LET s1 == Tail(p)
      k1 == Span(s1, "/")
      s2 == SubSeq(s1, k1 + 2, Len(s1))
      k2 == Span(s2, ".")
      s3 == SubSeq(s2, k2 + 2, Len(s2))
      hasFile == k1 > 0 /\ k1 < Len(s1) /\ k2 > 0
  IN [directory |-> SubSeq(s1, 1, k1),
      filename  |-> IF hasFile THEN SubSeq(s2, 1, k2) ELSE Empty,
      extension |-> IF hasFile /\ k2 < Len(s2) /\ s3 # Empty THEN s3 ELSE Empty]

-----------------------------------------------------------------------------
(* The handlers, over a namespace dirs/files.                             *)

\* cs1550_getattr: "dir", "file" or the error it returns.
Getattr(p, dirs, files) ==
  LET a == SscanfPath(p) IN
  CASE Len(p) = 1 -> "dir"
    [] Len(a.directory) > MaxFilename \/ Len(a.filename) > MaxFilename
         \/ Len(a.extension) > MaxExtension -> "ENAMETOOLONG"
    [] a.directory = Empty \/ a.directory \notin dirs -> "ENOENT"
    [] a.filename = Empty -> "dir"
    [] <<a.filename, a.extension>> \in files[a.directory] -> "file"
    [] OTHER -> "ENOENT"

\* cs1550_mknod on a path whose directory exists: the checks on the
\* strtok fields, the capacity check and the duplicate scan, in that order.
\* The scan compares fext with file_ext for every slot whose fname matches:
\* with file_ext NULL that strcmp faults.
MknodResult(p) ==
  LET a == MknodParse(p)
      n == a.name.tok
      d == a.dir.tok
  IN CASE ~a.name.found -> "EPERM"
       [] a.ext.found /\ (Len(n) > MaxFilename \/ Len(a.ext.tok) > MaxExtension) -> "ENAMETOOLONG"
       [] ~a.ext.found /\ Len(n) > MaxFilename -> "ENAMETOOLONG"
       [] Cardinality(nsFiles[d]) >= MaxFiles -> "EPERM"
       [] ~a.ext.found /\ \E k \in nsFiles[d] : k[1] = n -> "crash"
       [] MknodKey(p) \in nsFiles[d] -> "EEXIST"
       [] OTHER -> "ok"

\* readdir's filename_copy: the name, then "." and the extension if any.
ListedName(k) == IF k[2] = Empty THEN k[1] ELSE k[1] \o <<".">> \o k[2]

\* cs1550_readdir on a directory path: the strtok fields' length checks,
\* then the names of every non-empty root slot for "/", or of every
\* non-empty slot of the directory's table, or ENOENT.
Readdir(p, dirs, files) ==
  LET a == MknodParse(p)
      long == \/ a.dir.found /\ Len(a.dir.tok) > MaxFilename
              \/ a.name.found /\ Len(a.name.tok) > MaxFilename
              \/ a.ext.found /\ Len(a.ext.tok) > MaxExtension
  IN CASE long -> [err |-> "ENAMETOOLONG", names |-> {}]
       [] Len(p) = 1 -> [err |-> "ok", names |-> dirs]
       [] a.dir.tok \notin dirs -> [err |-> "ENOENT", names |-> {}]
       [] OTHER -> [err |-> "ok", names |-> {ListedName(k) : k \in files[a.dir.tok]}]

NS == INSTANCE Namespace
        WITH DirNames <- DirComps,
             FileNames <- {MknodKey(FilePath(d, c))[1] : d \in DirComps, c \in FileComps},
             FileExts <- {MknodKey(FilePath(d, c))[2] : d \in DirComps, c \in FileComps}

\* mkdir /c: the kernel's lookup of /c finds nothing; cs1550_mkdir checks
\* the strtok directory's length and the root's capacity, then creates it.
Mkdir(c) ==
  /\ ~crashed
  /\ Getattr(Root(c), nsDirs, nsFiles) = "ENOENT"
  /\ IF Len(Strtok(Root(c), {"/"}).tok) > MaxFilename \/ Cardinality(nsDirs) >= MaxDirs
       THEN UNCHANGED vars
       ELSE NS!Mkdir(c) /\ UNCHANGED <<crashed, reported>>

\* touch /d/c: the kernel finds the directory /d and no /d/c, calls
\* cs1550_mknod, and after a 0 looks the new name up again.
Touch(d, c) ==
  LET p == FilePath(d, c)
      r == MknodResult(p)
  IN /\ ~crashed
     /\ Getattr(Root(d), nsDirs, nsFiles) = "dir"
     /\ Getattr(p, nsDirs, nsFiles) = "ENOENT"
     /\ CASE r = "ok" ->
               /\ NS!Mknod(d, MknodKey(p))
               /\ reported' = reported \cup
                    {[path |-> p, visible |-> Getattr(p, nsDirs, nsFiles') = "file"]}
               /\ UNCHANGED crashed
          [] r = "crash" -> crashed' = TRUE /\ UNCHANGED <<nsDirs, nsFiles, reported>>
          [] OTHER -> UNCHANGED vars

\* ls -l /d: the kernel finds the directory, lists it with readdir and
\* looks every listed name up with getattr.
Ls(d) ==
  LET r == Readdir(Root(d), nsDirs, nsFiles)
  IN /\ ~crashed
     /\ Getattr(Root(d), nsDirs, nsFiles) = "dir"
     /\ r.err = "ok"
     /\ reported' = reported \cup
          {[path |-> FilePath(d, n), visible |-> Getattr(FilePath(d, n), nsDirs, nsFiles) = "file"]
             : n \in r.names}
     /\ UNCHANGED <<nsDirs, nsFiles, crashed>>

\* ls -l /: readdir of the root, then getattr on every directory listed.
LsRoot ==
  LET r == Readdir(<<"/">>, nsDirs, nsFiles)
  IN /\ ~crashed
     /\ reported' = reported \cup
          {[path |-> Root(n), visible |-> Getattr(Root(n), nsDirs, nsFiles) = "dir"] : n \in r.names}
     /\ UNCHANGED <<nsDirs, nsFiles, crashed>>

Init ==
  /\ NS!NsInit
  /\ crashed = FALSE
  /\ reported = {}

Next ==
  \/ \E c \in DirComps : Mkdir(c)
  \/ \E d \in DirComps, c \in FileComps : Touch(d, c)
  \/ \E d \in DirComps : Ls(d)
  \/ LsRoot

Spec == Init /\ [][Next]_vars

-----------------------------------------------------------------------------
(* Properties                                                              *)

(* Every name the filesystem reports can be found under that name: the    *)
(* getattr the kernel calls right after mknod returns 0, or on a name      *)
(* readdir listed, parses the path to the same directory, name and         *)
(* extension that mknod's strtok stored.                                   *)
ReportedNamesVisible == \A t \in reported : t.visible

=============================================================================
