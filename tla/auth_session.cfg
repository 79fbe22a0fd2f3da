SPECIFICATION SmallSpec
CONSTANTS
  b1 = b1
  b2 = b2
  f1 = f1
  f2 = f2
  c1 = c1
  c2 = c2
  None = None
  Browsers <- TwoBrowsers
  Flows <- TwoFlows
  Calls <- TwoCalls
  Accounts <- AllAccounts
  MaxChanges = 1
CHECK_DEADLOCK FALSE
INVARIANTS
  IInv
  SessionFromOwnLogin
  LatestLoginKept
  LoggedOutStaysOut
PROPERTIES
  RevocationLands
