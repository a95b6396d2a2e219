SPECIFICATION Spec
CONSTANTS
  TabWidth = 2
  AnswerRounds = 2
  Logs <- AllLogs
  Pasted <- PastedTexts
  Sizes <- WindowSizes
  FirstSizes <- SmallWindow
  MaxEvents = 3
INVARIANTS
  TypeOK
  CursorInRow
  RowsNumbered
  CellsWritten
  ChunksDoNotMatter
  PaletteShown
  FullReset
PROPERTIES
  ResizeKeepsText
  LogShownWhole
CHECK_DEADLOCK FALSE
