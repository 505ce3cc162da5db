---------------------------- MODULE MCFileAccess ----------------------------
(***************************************************************************)
(* Instances of FileAccess for TLC: files of a few bytes, chunks in the    *)
(* same order of size as the real ones.                                    *)
(***************************************************************************)
EXTENDS FileAccess

MCSize == [cc |-> 2, ndef |-> 6]
MCReadCap == [iso |-> 6, plain |-> 6, mac |-> 4, full |-> 3]
MCWriteCap == [iso |-> 5, plain |-> 4, mac |-> 3, full |-> 2]
MCOffsets == {0, 1, 5, 7, 12}
MCLengths == {0, 5, 7, 12}
MCBuffers == {0, 5, 7}
=============================================================================
