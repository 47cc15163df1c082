---------------------------- MODULE MC_FusePaths ----------------------------
EXTENDS FusePaths

MC_MaxFilename == 8
MC_MaxExtension == 3
\* one directory of two files
MC_MaxDirs == 1
MC_MaxFiles == 2
MC_DirComps == {<<"a">>}
\* every component over "a" and "." of up to five characters, "." and ".."
\* excepted: every place of one and of two dots
MC_FileComps == {c \in BoundedSeq({"a", "."}, 5) : c \notin {<<>>, <<".">>, <<".", ".">>}}
=============================================================================
