\* Two requests: whatever is passed to a method of a binding arrives.
SPECIFICATION PlatformSpec
CONSTANTS
  id1 = id1
  id2 = id2
  object = object
  member = member
  both = both
  batch = batch
  foreign = foreign
  Stubs = {id1, id2, object, member, both, batch, foreign}
  Root = Root
  TargetOf <- MCTargetOf
  ArgsOf <- MCArgsOf
  Plain = Plain
  Foreign = Foreign
  Opaque = {object}
  MaxFetches = 1
  MaxSends = 2
INVARIANTS
  ArgumentsArrive
CHECK_DEADLOCK FALSE
