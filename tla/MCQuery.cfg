CONSTANTS
  Schema <- MCSchema
  IntOf <- MCIntOf
  FloatTokens = {"1.5"}
  StringOf <- MCStringOf
  MaxDepth = 5
  Introspection = {"__schema", "__typename"}
  MaxInt = 50
  Arrivals <- MCArrivals
  MaxEvents = 2
SPECIFICATION Spec
INVARIANTS
  RoundTrip
  GetNeverMutates
  ValidIsSafe
  NullPropagation
  ModesAgree
  Incremental
