SPECIFICATION PurgeFairSpec
CONSTANTS
  Entries <- TwoEntries
  Settings <- Retentions
  Unset = 0
  Longest = 106751
  Jumps <- Months
  LastDay = 122
  PingLimit = 2
  Deadline = 5
  Readies <- AnyTime
INVARIANTS
  EndsByDeadline
  FailsOnlyIfLate
  RetentionKept
PROPERTIES
  PurgedInTheEnd
