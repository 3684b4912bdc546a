------------------------------- MODULE MCVFS -------------------------------
(* VFS on a small instance. *)
EXTENDS VFS, TLC

CONSTANTS o1, o2, o3, file1, dir1, gone, h1, h2, h3

\* Three objects and two descriptors, so that the table fills up and the last
\* descriptor is used; three allocations, so that leaked ones exhaust memory; a
\* file, a directory and a path that is not there.
MCObjs     == {o1, o2, o3}
MCNames    == {file1, dir1, gone}
MCFiles    == {file1}
MCDirs     == {dir1}
MCHandles  == {h1, h2, h3}
MCFileSize == file1 :> 2
\* The offsets 0 and 1 are inside the file, 2 is its size; a word of 4 lets
\* SEEK_CUR pass the end of the file and wrap.
MCOffsets  == {1, 2}

Symmetry == Permutations(MCObjs) \cup Permutations(MCHandles)
=============================================================================
