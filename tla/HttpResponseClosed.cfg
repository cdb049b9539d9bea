CONSTANTS
  Responses <- MCResponses
  BufSize <- MCBufSize
  InitBuf <- MCInitBuf
  Cuts <- MCCutsHeaders
  Endings <- MCEndingsClosed
SPECIFICATION Spec
PROPERTY
  ReturnsOnceServerDone
