SPECIFICATION Spec
CONSTANTS
  npu = npu
  igpu = igpu
  cpu = cpu
  Accels <- mcAccels
  Hailos <- mcHailos
  Drms <- mcDrms
  Cpu = cpu
  AccelBytes = 2
  HailoBytes = 2
  MinUmaBytes = 1
  TriageBytes = 2
  Hosts <- mcFixedHost
  LeaseIds = {l1, l2, l3}
  Units = {u1}
  NoUnit = NoUnit
  NoPlane = NoPlane
  Freezable = {u1}
  Sizes = {1, 2}
  MaxLeases = 2
  Word = 100
PROPERTY
  ThawResumes
CHECK_DEADLOCK FALSE
