CONSTANTS
  Responses <- MCResponses
  BufSize <- MCBufSize
  InitBuf <- MCInitBuf
  Cuts <- MCCutsAll
  Endings <- MCEndingsAll
SPECIFICATION Spec
INVARIANTS
  TypeOK
  ParsedCorrectly
PROPERTIES
  ReturnsOnceServerDone
