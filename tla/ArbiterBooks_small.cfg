SPECIFICATION BooksSpec
CONSTANTS
  npu = npu
  igpu = igpu
  cpu = cpu
  Accels <- mcAccels
  Hailos <- mcHailos
  Drms <- mcDrms
  Cpu = cpu
  AccelBytes = 2
  HailoBytes = 2
  MinUmaBytes = 1
  TriageBytes = 2
  Hosts <- mcSharedHosts
  LeaseIds = {l1, l2, l3}
  Units = {}
  NoUnit = NoUnit
  NoPlane = NoPlane
  Freezable = {}
  Sizes = {2, 15}
  MaxLeases = 1
  Word = 16
SYMMETRY mcSymmetry
INVARIANTS
  NothingLeaks
  BooksBalance
CHECK_DEADLOCK FALSE
