SPECIFICATION FairSpec
CONSTANTS
  MaxLength = 31
  MaxPort = 9
  Digit <- Digits
  HexDigit <- Digits
  Others = {"/"}
  Names = {"connection", "content_length", "transfer_encoding", "upgrade"}
  Options = {"conn_upgrade"}
  Streams <- Requests
INVARIANTS
  EachByteOnce
  CallbacksAnswerZero
  NamesSurviveCuts
PROPERTIES
  ImplementsIntake
  EveryRequestIsDecided
