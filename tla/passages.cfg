SPECIFICATION FairSpec
CONSTANTS
  Target = 6
  Overlap = 4
  MinChars = 2
  MaxWordShift = 2
  MaxSentenceShift = 3
  Line <- Lines
  Glyphs <- Glyph
  Signature <- Signatures
  MinPerPage = 2
  EdgeLines = 1
  MinRunningPages = 3
  MaxRunningChars = 4
  MaxOcrPages = 2
  Files <- SmallFiles
  MaxText = 24
  TextLength = 7
CHECK_DEADLOCK FALSE
INVARIANTS
  NoTextLost
  CitationIsRight
  PagesSurvive
PROPERTIES
  Finishes
