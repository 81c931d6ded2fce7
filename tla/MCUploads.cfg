SPECIFICATION Spec
CHECK_DEADLOCK FALSE
CONSTANTS
  Request = {r1, r2}
  Kind = {"transfer", "portal", "sealed"}
  Name = {n1}
  Size = {1, 2, 3}
  MaxSize <- SizeLimits
  MemoryLimit = 1
  StagingCap = 4
  StageMargin = 1
  SaveMargin = 1
  MaxSealed = 1
  Tries = 1
  Disk = 6
  MaxRestarts = 1
  Nobody = Nobody
INVARIANTS
  TypeOK
  WithinCap
  Accounted
  SealedBounded
  FilesAreWhole
PROPERTIES
  EveryUploadEnds
