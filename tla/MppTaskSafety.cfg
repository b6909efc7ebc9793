CONSTANTS
  Sessions = {s1, s2}
  Tasks = {t1, t2}
  Devices = {d1, d2}
  GrfDevices = {d1, d2}
  ShutDevices = {d1, d2}
  HwHangs = FALSE
  Null = Null
SPECIFICATION Spec
SYMMETRY Symmetry
CHECK_DEADLOCK FALSE
INVARIANTS TypeOK RefsCountHolders ExclusiveHardware CountsMatch SessionOutlivesTasks
