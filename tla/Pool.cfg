SPECIFICATION FairSpec
CONSTANTS
  Sql = {c1}
  Main = main
  Conns = {k1, k2}
  Kinds = {"data", "details", "stop"}
  PoolMax = 1
  KeepAliveMax = 2
  PortMin = 8080
  PortMax = 8080
  MaxCalls = 1
INVARIANTS Inv HandlersOutlived StopAssertion
PROPERTIES ClosedTwiceOnlyAfterFailure StopSeenRunningReturns AcceptedIsClosed
