SPECIFICATION ReceiverSpec
CONSTANTS
  MaxLength = 31
  MaxPort = 9
  Digit <- NoDigit
  HexDigit <- NoDigit
  Others = {"/"}
  Names = {}
  Options = {}
  Streams <- Whole
INVARIANT CutUrlsAreTaken
