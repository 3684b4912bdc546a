CONSTANTS
  MAX_FILE_DESCRIPTORS = 2
  Objs <- MCObjs
  Names <- MCNames
  Files <- MCFiles
  Dirs <- MCDirs
  FileSize <- MCFileSize
  Handles <- MCHandles
  Offsets <- MCOffsets
  Word = 4
  DescriptorOOM = FALSE
  None = None
  o1 = o1
  o2 = o2
  o3 = o3
  file1 = file1
  dir1 = dir1
  gone = gone
  h1 = h1
  h2 = h2
  h3 = h3
SYMMETRY Symmetry
SPECIFICATION Spec
INVARIANTS VfsInv UnownedOnlyLast
PROPERTIES LeakOnlyWhenFull ReadsOwnFile
