CONSTANTS
  BYTE = 4
  ARGS_MAX = 2
  LINE_SIZE = 2
  BUF_SIZE = 4
  NTP_ERA = 8
  JAN_1900_TO_1970 = 5
  Servers = 2
  Input <- MCInput
  Entries <- MCEntries
  Chunk = 2
  MaximumCpus = 2
  Lines <- MCLines
  Buffers <- MCBuffers
  Dumped <- MCDumped
  Objects = {o1, o2}
  Foreign = Foreign
  Levels = {info, debug}
  Default = info
  Unnamed = Unnamed
  Unknown = Unknown
  Bad = Bad
  MaximumNumberOfCoredumps = 2
  Dumps = {1, 2, 3}
SYMMETRY Symmetry
SPECIFICATION Spec
INVARIANTS
  AllReleased
  ReturnsTruth
  ParseMatches
  ChecksumMatches
  DumpMatches
  LevelsSurvive
  DumpsAreKept
