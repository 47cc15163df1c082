CONSTANTS
  BlockSize <- MC_BlockSize
  NumFat <- MC_NumFat
  MaxDirs <- MC_MaxDirs
  MaxFiles <- MC_MaxFiles
  MaxLen <- MC_MaxLen
  MaxFileSize <- MC_MaxFileSize
  DirNames = {d1, d2}
  FileNames = {f1}
  Exts = {x}
  Empty = Empty
  StackValues <- MC_StackValues
  Threads = {t1, t2}
  Handlers = {"mkdir", "mknod", "write", "read"}
SPECIFICATION Spec
CONSTRAINT MC_Represented
INVARIANT AckedDirsPersist
CHECK_DEADLOCK FALSE
