SPECIFICATION CoordSpec
CONSTANTS
  cpu = cpu
  Accels = {}
  Hailos = {}
  Drms = {}
  Cpu = cpu
  AccelBytes = 4
  HailoBytes = 2
  MinUmaBytes = 1
  TriageBytes = 2
  Hosts <- mcHosts
  LeaseIds = {l1, l2}
  Units = {u1}
  NoUnit = NoUnit
  NoPlane = NoPlane
  Freezable = {u1}
  Sizes = {1}
  MaxLeases = 0
  Word = 100
  Callers = {a}
  NoLease = NoLease
  Signalable = {u1}
  MaxRecords = 0
INVARIANTS
  IncompleteIsExplained
PROPERTY CallsReturn
CHECK_DEADLOCK FALSE
