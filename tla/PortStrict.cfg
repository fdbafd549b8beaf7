\* A check() and a search of the same port.
SPECIFICATION Spec
CONSTANTS
  a = a
  b = b
  c = c
  first = first
  second = second
  Tasks = {a, c}
  Strict = {c}
  Ephemeral = {}
  Instances = {first, second}
  InstanceOf <- MCInstanceOf
  Wanted <- MCWanted
  MaxPort = 3
  OsPorts = {}
  MaxSearch = 2
  MaxServe = 2
  MaxOthers = 0
INVARIANTS
  DistinctPorts
\* When all servers are closed nothing is left to do.
CHECK_DEADLOCK FALSE
