SPECIFICATION DaemonSpec
CONSTANTS
  LeaseIds = {l1, l2}
  Shipped <- mcShipped
  FdLists <- mcFdLists
  Steady <- mcSteady
  MaxFaults = 2
INVARIANTS
  SlotsMatchNames
  ReadyIsServed
  LockFollowsLeases
PROPERTIES
  WatchdogIsPatient
  ServiceReturns
  SleepIsInhibited
  SleepIsAllowed
