SPECIFICATION Spec
CONSTANTS
  MaxLength <- MCMaxLength
  Digit <- MCDigit
  HexDigit <- MCHexDigit
  Others = {"/"}
  Names = {"content_length", "transfer_encoding", "connection", "upgrade"}
  Options = {"conn_upgrade", "keep_alive"}
CONSTRAINT OneConcern
INVARIANTS
  TypeOK
  AssertsHold
  OneMark
  LengthIsExact
PROPERTY CallbacksAreStream
