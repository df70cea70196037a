CONSTANTS
  Texts <- MCTexts
  ULLONG_MAX = 255
  UINT_MAX = 7
  INT_MAX = 3
  Missing = Missing
  Thrown = Thrown
  Default = Default
  None = None
SPECIFICATION Spec
INVARIANT ArgumentsConvert
CHECK_DEADLOCK FALSE
