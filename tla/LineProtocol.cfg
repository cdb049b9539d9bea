CONSTANTS
  Names <- MCNames
  MaxLines <- MCMaxLines
  MaxTags <- MCMaxTags
  MaxFields <- MCMaxFields
  Values <- MCValues
SPECIFICATION Spec
INVARIANTS
  TypeOK
  RoundTrip
