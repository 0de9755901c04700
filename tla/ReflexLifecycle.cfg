\* Three threads over two swapchain handles the driver reuses; two sleeps.
SPECIFICATION Spec
CONSTANTS
  t1 = t1
  t2 = t2
  t3 = t3
  Threads = {t1, t2, t3}
  Does <- LifecycleDoes
  Marks <- LifecycleMarks
  Swapchains = {s1, s2}
  Queues = {}
  FrameIds = {1}
  AppModes = {"none", "off", "on"}
  Settings <- LifecycleSettings
  MaxValue = 2
INVARIANTS
  StaleOnlyDuringDestroy
  NewestIsRegistered
  SleepModeReachesSwapchain
PROPERTY SleeperWakes
