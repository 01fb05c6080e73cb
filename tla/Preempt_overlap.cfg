SPECIFICATION CoordSpec
CONSTANTS
  cpu = cpu
  Accels = {}
  Hailos = {}
  Drms = {}
  Cpu = cpu
  AccelBytes = 4
  HailoBytes = 2
  MinUmaBytes = 1
  TriageBytes = 2
  Hosts <- mcHosts
  LeaseIds = {l1}
  Units = {u1}
  NoUnit = NoUnit
  NoPlane = NoPlane
  Freezable = {u1}
  Sizes = {1}
  MaxLeases = 1
  Word = 100
  Callers = {a, b}
  NoLease = NoLease
  Signalable = {u1}
  MaxRecords = 0
INVARIANTS
  CoordTypeOK
  IncompleteIsExplained
PROPERTY CallsReturn
CHECK_DEADLOCK FALSE
