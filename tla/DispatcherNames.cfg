CONSTANTS
  GET = GET
  POST = POST
  Methods = {GET, POST}
  Owners <- RenamingOwners
  Requests <- AllRequests
  NoValue = NoValue
  Thrown = Thrown
  NoHandler = NoHandler
SPECIFICATION Spec
INVARIANT ServedWhateverTheNames
CHECK_DEADLOCK FALSE
