SPECIFICATION Spec
CONSTANTS
  Sql = {c1, c2}
  Main = main
  Conns = {k1}
  Kinds = {"data", "details", "stop"}
  PoolMax = 1
  KeepAliveMax = 1
  PortMin = 8080
  PortMax = 8081
  MaxCalls = 3
SYMMETRY SqlSymmetry
INVARIANTS OneOwner SessionIsolation PortsGivenBack
PROPERTIES TokenNotRaced ImplementsService
