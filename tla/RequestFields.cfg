CONSTANTS
  UINT16_MAX = 15
  Exchanges <- FieldExchanges
  Deployments <- MCDeployments
  Resources <- RegisteredTree
  getResource <- TreeLookup
  ContentLength <- Length
  Host <- HostName
  MaxInt = 99
  NoValue = NoValue
  Thrown = Thrown
  None = None
  Unspecified = Unspecified
  MaxCuts = 2
SPECIFICATION Spec
INVARIANT TakenByFields
CHECK_DEADLOCK FALSE
