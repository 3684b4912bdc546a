CONSTANTS
  Tables = 2
  Pages = 2
  PageSize = 2
  Program = 4
  Addresses <- MCAddresses
  Sizes <- MCSizes
SPECIFICATION MapSpec
INVARIANT ReadsWhatMmuUses
PROPERTY MapsFirstPage
