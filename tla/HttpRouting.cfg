SPECIFICATION Spec
CONSTANTS
  MaxText = 3
  Letters = {"a"}
  Threads = {t1, t2}
  Methods = {"GET", "POST"}
  Forms = {"POST"}
  Paths = {p1, p2}
  Handlers = {h}
INVARIANTS
  ParamsAsWritten
  RaceNeedsStranger
PROPERTIES
  RoutedAsRegistered
SYMMETRY RoutingSymmetry
