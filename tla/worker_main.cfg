SPECIFICATION FairSpec
CHECK_DEADLOCK FALSE
INVARIANTS
  ConnOutlivesListener
  OrderlyExit
PROPERTIES
  SignalExits
  RunErrorExits
