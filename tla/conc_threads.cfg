CONSTANTS
  BlockSize <- MC_BlockSize
  NumFat <- MC_NumFatSmall
  MaxDirs <- MC_MaxDirs
  MaxFiles <- MC_MaxFiles
  MaxLen <- MC_MaxLen
  MaxFileSize <- MC_MaxFileSize
  DirNames = {d1, d2}
  FileNames = {f1}
  Exts = {x}
  Empty = Empty
  StackValues <- MC_StackValuesSmall
  Threads = {t1, t2}
  Handlers = {"mkdir", "mknod", "read"}
SPECIFICATION Spec
SYMMETRY MC_Symmetry
CONSTRAINT MC_Represented
INVARIANT ListingsWellFormed
CHECK_DEADLOCK FALSE
