\* Four tables and three geometries with every combination of failures, four
\* data sources, every sequence of calls; and thirty-five data frames of three
\* rows.
CONSTANTS
  Names <- MCNames
  Folded <- MCFolded
  NamesInFile <- MCNamesInFile
  Tables <- MCTables
  BytesLen <- MCBytesLen
  Starts <- MCStarts
  Files <- MCFiles
  LayerNames <- MCLayerNames
  Frames <- MCFrames
SPECIFICATION FrameSpec
INVARIANTS
  TypeOK
  RowsCoherent
  ValuesAreTheColumn
  FlagsMatchValues
  SkaterSeesTheColumns
  PointsInPlace
  UndefinedOnlyAfterFailure
  RoundTrip
  SupportedFramesReturn
PROPERTIES
  ImplementsDataSet
CHECK_DEADLOCK TRUE
