CONSTANTS
  Responses <- MCResponses
  BufSize <- MCBufSize
  InitBuf <- MCInitBuf
  Cuts <- MCCutsShort
  Endings <- MCEndingsReset
SPECIFICATION Spec
INVARIANT
  NoSuccessOnTruncation
