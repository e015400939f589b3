SPECIFICATION FairSpec
CONSTANTS
  MaxLength = 31
  Digit <- Digits
  HexDigit <- Digits
  Others = {}
  Names = {"connection", "content_length", "transfer_encoding", "upgrade"}
  Options = {"conn_upgrade"}
  Responses <- AllResponses
INVARIANTS
  CompletePageIsWhole
  ReadyLeavesCompletePage
  ClientGotThePage
PROPERTY ResponseEnds
