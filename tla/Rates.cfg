\* Two disks or interfaces and one stacked on them.
CONSTANTS
  sda = sda  sdb = sdb  md0 = md0  None = None
  Modules = {"cpu", "disk", "network"}
  Names = {sda, sdb, md0}
  Installed <- AtStart
  Stacked = {md0}
  Lifetimes = {2}
  MaxWork = 2
  MaxTime = 2
  MaxMishaps <- Mishaps
SPECIFICATION Spec
PROPERTIES RatesTrue RatesResume
CHECK_DEADLOCK FALSE
