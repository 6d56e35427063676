\* Two matching devices, two elevated processes, three launches, every fault.
SPECIFICATION FairSpec
CONSTANTS
  Displays <- TwoDisplays
  Matching = {"idd", "vdd"}
  Canonical = {"vdd"}
  LooksVirtual = {"idd"}
  InitStatus <- VddAbsent
  Faults = {"uac", "devcon", "driver", "slow", "app_dies", "helper_dies"}
  MaxProcs = 2
  MaxRuns = 3
PROPERTIES NoSilentLeak LiveDisplayStays DisableReturns
CHECK_DEADLOCK FALSE
