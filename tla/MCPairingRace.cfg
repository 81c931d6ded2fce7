SPECIFICATION Spec
SYMMETRY Interchangeable
CONSTANTS
  d1 = d1  d2 = d2  d3 = d3
  a1 = a1  a2 = a2  a3 = a3
  Device = {d1, d2}
  Addr = {a1, a2}
  Loopback = Loopback
  NoAddr = NoAddr
  Code = {c1, c2}
  NoCode = NoCode
  Exchange = {x1, x2}
  PairAt <- OneWay
  CompleteAt <- OtherWay
  HintGiven = {NoAddr}
  InitAddr <- TwoAddresses
  Mobile = {}
  PairCodeTtl = 0
  PairCodeMaxFailures = 2
  PinMaxFailures = 2
  PinWindow = 1
  PinBlock = 1
  MapLimit = 10
  PurgeAge = 5
  MaxIssues = 2
  MaxTime = 1
INVARIANTS
  TypeOK
  OneTimeCode
  GuessBudget
PROPERTIES
  AcceptanceEarned
  ImplementsConsent
