SPECIFICATION GSpec
CONSTANTS
  MaxTotal = 13
  BlockSizes = {1, 3}
  MaxBlock = 3
  MinSpeech = 2
  MinSilence = 4
  Pad = 1
  ShortSilence = 2
  PreRoll = 2
  EndMargin = 1
  PreviewEvery = 2
  MinPreview = 2
  SplitAfter = 5
  MinSplit = 2
  MaxUtterance = 7
INVARIANT
  FinalsWithinLimit
CHECK_DEADLOCK FALSE
