SPECIFICATION Spec
CONSTANTS
  word = word  padded = padded  password = password
  small = small  medium = medium  large = large
  None = None
  Text = {word, padded, password}
  Image = {small, medium, large}
  Secret = {password}
  Png = {small, large}
  Large = {large}
  Trim <- MCTrim
  Size <- MCSize
  ThumbSize = 1
  MaxClipStagingFiles = 2
  MaxClipStagingBytes = 4
  Copyable <- MCCopyable
  Inbound = {password, medium, large}
  Posted = {padded}
  Thread = {t1}
  Command = {c1}
  MaxChanges = 2
INVARIANTS
  PushBudget
  StagingBounded
PROPERTIES
  Noticed
