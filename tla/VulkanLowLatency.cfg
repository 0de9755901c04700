\* Two users of the library and two VkDevices of every kind.
SPECIFICATION VSpec
CONSTANTS
  Threads = {t1, t2}
  Gpus = {g1}
  Addresses = {a1}
  VkDevices = {d1, d2}
  Offers <- OneOfEach
  Fakes = {TRUE}
  MaxSemaphores = 2
  MaxValue = 1
INVARIANTS
  SemaphoresAccountedFor
  GivenSemaphoreIsUsed
  DeviceInUseExists
  StatusNeverOverstates
PROPERTY SleepReturns
