CONSTANTS
  BlockSize <- MC_BlockSize
  NumFat <- MC_NumFat
  MaxDirs <- MC_MaxDirs
  MaxFiles <- MC_MaxFiles
  MaxLen <- MC_MaxLen
  MaxFileSize <- MC_MaxFileSize
  DirNames = {d1, d2}
  FileNames = {f1}
  Exts = {x}
  Empty = Empty
  StackValues <- MC_StackValues
SPECIFICATION Spec
SYMMETRY MC_Symmetry
CHECK_DEADLOCK FALSE
INVARIANT EntriesOwnBlocks
