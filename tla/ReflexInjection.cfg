\* A thread that sets markers and one that submits and presents, with two frames,
\* on one queue and one swapchain, with every fallback allowed and with none.
SPECIFICATION Spec
CONSTANTS
  t1 = t1
  t2 = t2
  t3 = t3
  Threads = {t1, t2}
  Does <- InjectionDoes
  Marks <- InjectionMarks
  Swapchains = {s1}
  Queues = {q1}
  FrameIds = {f1, f2}
  AppModes = {"on"}
  Settings <- InjectionSettings
  MaxValue = 0
SYMMETRY FrameSymmetry
CHECK_DEADLOCK FALSE
INVARIANTS
  InjectedFrameWasOpen
  OpenFrameIsInjected
