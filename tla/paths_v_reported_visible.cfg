CONSTANTS
  MaxFilename <- MC_MaxFilename
  MaxExtension <- MC_MaxExtension
  MaxDirs <- MC_MaxDirs
  MaxFiles <- MC_MaxFiles
  DirComps <- MC_DirComps
  FileComps <- MC_FileComps
SPECIFICATION Spec
INVARIANT ReportedNamesVisible
CHECK_DEADLOCK FALSE
