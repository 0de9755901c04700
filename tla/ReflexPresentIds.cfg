\* One thread that creates two swapchains and presents them together.
SPECIFICATION Spec
CONSTANTS
  t1 = t1
  t2 = t2
  t3 = t3
  Threads = {t1}
  Does <- PresentDoes
  Marks <- PresentMarks
  Swapchains = {s1, s2}
  Queues = {q1}
  FrameIds = {f1}
  AppModes = {"on"}
  Settings <- PresentSettings
  MaxValue = 0
CHECK_DEADLOCK FALSE
INVARIANT PresentIdsMatchSwapchains
