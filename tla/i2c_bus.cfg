CONSTANTS
  Threads = {main, control}
  Devices <- MCDevices
  Device <- MCDevice
  Lengths = {1, 35}
  Iaddrs = {0, 256}
SPECIFICATION Spec
INVARIANTS TypeOK CacheIsTrue ReachesItsSlave CompleteIsWhole
