\* Varints of 15 bits take up to three bytes.
SPECIFICATION Spec
CONSTANTS
  Frames <- MCFrames
  Width = 15
  Fixed1 = 2
  Fixed5 = 1
  MaxReason = 127
\* A decoded or refused frame is the end.
CHECK_DEADLOCK FALSE
INVARIANTS
  TypeOK
  DecodesMeaning
PROPERTIES
  UsesUpFrame
