CONSTANTS
  GET = GET
  POST = POST
  Methods = {GET, POST}
  Owners <- MCOwners
  Requests <- AllRequests
  NoValue = NoValue
  Thrown = Thrown
  NoHandler = NoHandler
SPECIFICATION Spec
INVARIANTS
  TreeShape
  OnlyMatchingHandlers
  InsertedIsServed
  LostForTwoReasons
CHECK_DEADLOCK FALSE
