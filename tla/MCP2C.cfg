\* Three calls on up to three connections, two pickers after the empty one.
SPECIFICATION Spec
CONSTANTS
  Call = {c1, c2, c3}
  Conn = {n1, n2, n3}
  ForcePick = 1
  MaxBuilds = 3
INVARIANTS
  TypeOK
  InflightExact
PROPERTIES
  DueIsChosen
