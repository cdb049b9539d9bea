CONSTANTS
  HeaderLens <- MCHeaderLens
  BodyLens <- MCBodyLens
  InitHeaderBuf <- MCInitHeaderBuf
SPECIFICATION Spec
INVARIANTS
  TypeOK
  WriteBookkeeping
PROPERTIES
  ImplementsSocketSend
