CONSTANTS
  XRes <- MC_XRes
  YRes <- MC_YRes
  LineLength <- MC_LineLength
  PageSize <- MC_PageSize
  MaxTravel <- MC_MaxTravel
  Font <- MC_Font
  Programs <- MC_Programs
SPECIFICATION Spec
INVARIANT DrawsOnScreen
CHECK_DEADLOCK FALSE
