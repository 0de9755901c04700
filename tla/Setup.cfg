\* Up to three of the adapters of MCAdapters; two threads that ask for settings, a
\* word of eight values; one instance, any number of devices from one chain; five kinds of
\* NVML, any number of queries.
SPECIFICATION MCSpec
CONSTANTS
  DxgiAdapters <- MCAdapters
  MaxAdapters = 3
  DrsThreads = {t1, t2}
  SettingIds <- MCSettingIds
  SettingValues <- MCSettingValues
  AskedIds = {1, 2, 3}
  MaxDword = 7
  Environments <- MCEnvironments
  Changed <- MCChanged
  LayerSettings <- MCLayerSettings
  InstanceRequests <- MCInstanceRequests
  DeviceRequests <- MCDeviceRequests
  Chains <- MCChains
  NvmlLibraries <- MCNvmlLibraries
INVARIANTS
  HandlesResolve
  DisplayListsAgree
  SettingAsConfigured
  LayerDeviceIsComplete
  AnswersAreCurrent
CHECK_DEADLOCK FALSE
