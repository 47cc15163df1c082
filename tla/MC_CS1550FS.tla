---------------------------- MODULE MC_CS1550FS ----------------------------
(* Instantiation of CS1550FS for TLC: two bytes per block, three data      *)
(* blocks, two directories of two files.  Writes of up to three bytes     *)
(* span two blocks and reach both branches of cs1550_write's first block. *)
EXTENDS CS1550FS, TLC

MC_BlockSize == 2
MC_NumFat == 5
\* enough blocks that two directories and four files never fill the FAT
MC_NumFatRoomy == 8
MC_MaxDirs == 2
MC_MaxFiles == 2
MC_MaxLen == 3
MC_MaxFileSize == 3
\* any short that keeps the walk inside the table: EOF, FREE or a block
MC_StackValues == {-1, 0} \cup (2 .. MC_NumFat - 1)
MC_StackValuesRoomy == {-1, 0} \cup (2 .. MC_NumFatRoomy - 1)
\* the short holds EOF: the walk off the chain behaves like a chain end
MC_StackBenign == {-1}
\* Once a handler has written into another structure's block, that block
\* holds bytes the model does not represent (only that it was clobbered):
\* the structural invariants are checked up to and including that state.
MC_Represented == clobbered = {}
\* directory names only ever meet in equality tests
MC_Symmetry == Permutations(DirNames)
=============================================================================
