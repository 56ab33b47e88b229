SPECIFICATION Spec
CONSTANTS
  Undef = Undef
  Throw = Throw
  NoValue = NoValue
  Letters <- MCLetters
  Patterns <- MCPatterns
  EventFields <- MCFields
  Pieces <- MCPieces
  MaxPieces = 3
  Texts <- MCTexts
  Load <- MCLoad
  Emit <- MCEmit
  ElemFrom <- MCElemFrom
  ElemTo <- MCElemTo
  Types <- MCTypes
  Documents <- MCDocuments
  Defaults <- MCDefaults
INVARIANTS  RendersAsWritten 
CHECK_DEADLOCK FALSE
