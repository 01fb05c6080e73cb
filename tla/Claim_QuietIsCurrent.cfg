SPECIFICATION HotplugSpec
CONSTANTS
  accel0 = accel0
  hailo0 = hailo0
  gpu = gpu
  cpu = cpu
  Accels <- mcAccels
  Hailos <- mcHailos
  Drms <- mcDrms
  Cpu = cpu
  AccelBytes = 4
  HailoBytes = 2
  MinUmaBytes = 1
  TriageBytes = 2
  Hosts <- mcHosts
  LeaseIds = {}
  Units = {}
  NoUnit = NoUnit
  NoPlane = NoPlane
  Freezable = {}
  Sizes = {1}
  MaxLeases = 128
  Word = 100
  QueueMax = 2
INVARIANT QuietIsCurrent
