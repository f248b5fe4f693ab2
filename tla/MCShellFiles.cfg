CONSTANTS
  TMPFS_MAX_FILES = 2
  TMPFS_DATA_SIZE = 2
  Names = {fileA, fileB, fileC}
  NameCut <- MCNameCut
  Bodies <- MCBodies
  BufLens = {1, 2, 3}
  NoFile = NoFile
SYMMETRY MCSymmetry
SPECIFICATION SSpec
INVARIANTS TableConsistent
PROPERTIES ImplementsFlatFs OnlyNamedFilesChange MvKeepsBytes
