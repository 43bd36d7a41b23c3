CONSTANTS
  x = x
  y = y
  Tokens <- MCTokens
  Eof = Eof
  Annot = Annot
  NoToken = NoToken
  Sources <- MCSources
  MaxTokens = 6
  MaxNesting = 3
  MaxLookAhead = 2
SPECIFICATION Spec
INVARIANT EofAheadUnlessDropped
PROPERTY ImplementsTokenStream
