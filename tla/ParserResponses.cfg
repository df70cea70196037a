CONSTANTS
  UINT16_MAX = 65535
  Chars <- Characters
  Streams <- AllResponses
  Pieces <- OneOrAll
  Type = "BOTH"
  Answers <- AnyAnswerOrPause
  IgnoresResult = FALSE
  Lenient = FALSE
  AllowChunkedLength = FALSE
  MaxHeaderSize = 62
  MaxLength = 63
SPECIFICATION Spec
INVARIANTS
  NoAssertFails
  Delivered
  HeadersReadAsBody
PROPERTIES
  ExecuteReturns
