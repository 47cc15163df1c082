CONSTANTS
  BlockSize <- MC_BlockSize
  NumFat <- MC_NumFat
  MaxDirs <- MC_MaxDirs
  MaxFiles <- MC_MaxFiles
  MaxLen <- MC_MaxLen
  MaxFileSize <- MC_MaxFileSize
  DirNames = {d1, d2}
  FileNames = {f1}
  Exts = {x}
  Empty = Empty
  StackValues <- MC_StackZero
  Threads = {t1}
  Handlers = {"mkdir", "mknod", "write", "read"}
SPECIFICATION Spec
CONSTRAINT MC_Represented
PROPERTY ReadKeepsDaemonAlive
CHECK_DEADLOCK FALSE
