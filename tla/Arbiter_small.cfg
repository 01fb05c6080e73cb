SPECIFICATION Spec
CONSTANTS
  npu = npu
  igpu = igpu
  cpu = cpu
  Accels <- mcAccels
  Hailos <- mcHailos
  Drms <- mcDrms
  Cpu = cpu
  AccelBytes = 2
  HailoBytes = 2
  MinUmaBytes = 1
  TriageBytes = 2
  Hosts <- mcHosts
  LeaseIds = {l1, l2, l3}
  Units = {}
  NoUnit = NoUnit
  NoPlane = NoPlane
  Freezable = {}
  Sizes = {1, 2}
  MaxLeases = 1
  Word = 100
SYMMETRY mcSymmetry
INVARIANTS
  TypeOK
  EmergencyIsServed
PROPERTIES
  PreemptionIsOrderly
  ImplementsLifecycle
CHECK_DEADLOCK FALSE
