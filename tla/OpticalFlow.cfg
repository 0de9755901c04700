\* An instance of each api, a ring of two buffers, an application that keeps to it.
SPECIFICATION Spec
CONSTANTS
  VkInstances = {v}
  D3D12Instances = {x}
  CMDS_IN_FLIGHT = 2
  Ahead = 2
  MaxPoint = 3
  MaxExecutes = 3
INVARIANTS
  SignalMeansDone
  NothingLeaks
  FactoryOutlivesInstances
PROPERTIES
  RecordsIntoFreeBuffer
  EveryPointIsSignalled
CHECK_DEADLOCK FALSE
