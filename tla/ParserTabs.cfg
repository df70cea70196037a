CONSTANTS
  UINT16_MAX = 65535
  Chars <- Characters
  Streams <- ListStreams
  Pieces <- OneOrAll
  Type = "REQUEST"
  Answers <- AnyAnswer
  IgnoresResult = TRUE
  Lenient = FALSE
  AllowChunkedLength = FALSE
  MaxHeaderSize = 62
  MaxLength = 63
SPECIFICATION Spec
INVARIANTS
  TabsAreSkipped
