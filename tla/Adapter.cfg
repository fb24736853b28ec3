SPECIFICATION Spec
CONSTANTS
  Texts <- TwoTexts
  Streams <- TidyStreams
INVARIANTS
  TypeOK
  ReadsAsWhole
PROPERTY
  ImplementsStreamSource
CHECK_DEADLOCK FALSE
