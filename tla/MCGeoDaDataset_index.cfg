\* A frame that was sorted: its geometries are asked for by label.
CONSTANTS
  Names <- MCNames
  Folded <- MCFolded
  NamesInFile <- MCNamesInFile
  Tables <- MCTables
  BytesLen <- MCBytesLen
  Starts <- MCStarts
  Files <- MCFiles
  LayerNames <- MCLayerNames
  Frames <- MCFrames
SPECIFICATION FrameSpec
INVARIANTS
  GeometriesOfTheRows
CHECK_DEADLOCK TRUE
