SPECIFICATION VSpec
CONSTANTS
  a = a
  b = b
  Texts = {a, b}
  Partials = {a}
  MaxLines = 2
  MaxSessions = 2
  MaxWaiting = 2
INVARIANTS
  MirrorInv
  ViewFollows
PROPERTIES
  TranscriptShown
CHECK_DEADLOCK FALSE
