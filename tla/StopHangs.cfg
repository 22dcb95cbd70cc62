SPECIFICATION FairSpec
CONSTANTS
  Sql = {c1}
  Main = main
  Conns = {k1}
  Kinds = {"stop"}
  PoolMax = 1
  KeepAliveMax = 1
  PortMin = 8080
  PortMax = 8080
  MaxCalls = 2
PROPERTIES StopReturns
