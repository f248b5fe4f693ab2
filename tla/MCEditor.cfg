CONSTANTS
  TMPFS_MAX_FILES = 1
  TMPFS_DATA_SIZE = 5
  Names = {fileA, fileB}
  NameCut <- MCNameCut
  Bodies <- MCBodies
  BufLens = {1}
  NoFile = NoFile
  EDITOR_MAX_LINES = 3
  EDITOR_LINE_LEN = 3
  CONTENT_H = 2
  Printable = {1}
  NL = 10
SYMMETRY MCSymmetry
SPECIFICATION ESpec
INVARIANTS CursorInText CleanMeansSame SavedIsStored
PROPERTY ImplementsTextBuffer
