SPECIFICATION FairSpec
CONSTANTS
  Mnt = Mnt
  Log = Log
  Other = Other
  Dir = Dir
  Closed = Closed
  MaxFileNumeral = 5
  FilesLimit = 2
  FileSize = 2
  WriteMax = 2
  Capacity = 3
  TypedNumerals = {0, 3}
  ShellMax = 1
INVARIANTS LogInv TakenIsOnDisk
PROPERTIES OldestFirst RecordEnds
