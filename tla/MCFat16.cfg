CONSTANTS
  SectorSize = 4
  PerCluster = 2
  Header <- MCHeader
  EntrySize = 4
  Files <- MCFiles
  Subdirs <- MCSubdirs
  Filename <- MCFilename
  Ext <- MCExt
  SubdirSize <- MCSubdirSize
  Paths <- MCPaths
  Modes <- MCModes
  Lower <- MCLower
  ChainOf <- MCChainOf
  Words <- MCWords
  EndWords <- MCEndWords
  Word = 64
  Offsets <- MCOffsets
  Sizes <- MCSizes
  Counts <- MCCounts
  Junk = Junk
  None = None
SPECIFICATION Spec
INVARIANTS PartsAreComponents OpensWhatIsThere MountedOrNothing LeaksOnlyParts ReadIsExact
PROPERTIES EndsUnlessDriveFails
