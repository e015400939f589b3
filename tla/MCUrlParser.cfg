SPECIFICATION Spec
CONSTANTS
  Width = 10
  MaxPort = 9
  Starts <- MCStarts
  Rests <- MCRests
INVARIANTS
  TypeOK
  AssertsHold
  FieldsApart
  ResultIsTheGrammar
  PortCharsAreDigits
