CONSTANTS
  TotalClusters = 4
  RootEntries = 3
  FAT16_MAX_FILES = 2
  EndMark = 5
  EofMark = 15
  Names = {"a", "b"}
  Parse <- MCParse
  Unparse <- MCUnparse
  Keep <- MCParse
  Fold <- MCParse
  Sizes = {0, 1}
  Images <- MCImages
  MaxFaults = 1
  MaxResets = 1
SPECIFICATION Spec
INVARIANTS ListedIsOnDisk ChainsIntact ReadsWhole
