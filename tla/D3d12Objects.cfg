\* Two threads, one device, one command list of it, and a command queue that is not
\* vkd3d-proton's (one that is behaves as a command list that asks for nothing).
SPECIFICATION Spec
CONSTANTS
  d = d
  foreign = foreign
  l = l
  Threads = {t1, t2}
  Devices = {d}
  CommandQueues = {foreign}
  CommandLists = {l}
  DeviceOf <- OneDevice
  Extended = {d, l}
  MaxClock = 3
  MaxResets = 1
INVARIANTS
  NoStaleAnswer
PROPERTIES
  OnlyStaleReplaced
  MutexIsReleased
