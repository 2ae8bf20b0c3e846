\* Three handlers, documents of two writes.
SPECIFICATION StoreSpec
CONSTANTS
  Handlers = {h1, h2, h3}
  Inodes = {i1, i2, i3, i4, i5}
  NoFile = NoFile
  Chunks = 2
  MaxVersion = 3
SYMMETRY Symmetry
INVARIANTS StoreTypeOK AcknowledgedIsSaved
PROPERTY FailedRenameIsHarmless
CHECK_DEADLOCK FALSE
