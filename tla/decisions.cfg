SPECIFICATION MCSpec
CONSTANTS
  MaxPieces = 3
  Asked <- MCAsked
  Names <- MCNames
  Words <- MCWords
  Stdlib <- MCStdlib
INVARIANTS
  
  QueryAnswered
  CollectionExact
  AffectedAsDocumented
  RunLaidOut
  
  
  
