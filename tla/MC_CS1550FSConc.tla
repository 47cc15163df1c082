--------------------------- MODULE MC_CS1550FSConc ---------------------------
(* Instantiation of CS1550FSConc for TLC, with the bounds of MC_CS1550FS. *)
EXTENDS CS1550FSConc, TLC

MC_BlockSize == 2
MC_NumFat == 5
MC_MaxDirs == 2
MC_MaxFiles == 2
MC_MaxLen == 3
\* two threads: two data blocks
MC_NumFatSmall == 4
MC_StackValuesSmall == {-1, 0} \cup (2 .. MC_NumFatSmall - 1)
MC_MaxFileSize == 3
MC_StackValues == {-1, 0} \cup (2 .. MC_NumFat - 1)
MC_StackBenign == {-1}
\* the stack short below fat.table is 0: a walk off a chain lands on block 0
MC_StackZero == {-1, 0}
\* as in MC_CS1550FS: states after a clobbering write are not represented
MC_Represented == clobbered = {}
MC_Symmetry == Permutations(DirNames) \cup Permutations(Threads)
=============================================================================
