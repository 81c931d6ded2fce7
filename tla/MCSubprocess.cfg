SPECIFICATION Spec
CONSTANTS
  h1 = h1  h2 = h2
  Child = Child
  Helper = {h1, h2}
  Call = {"output", "stdin", "status"}
  MaxOutput = 2
  StdinData = 3
  PipeSize = 2
  MaxWritten = 3
CHECK_DEADLOCK FALSE
INVARIANTS
  TypeOK
  GroupGone
  HonestOutput
PROPERTIES
  EveryCallEnds
