\* Two threads, one address, an application that creates and destroys as it likes.
SPECIFICATION Spec
CONSTANTS
  Threads = {t1, t2}
  Handles = {h1}
  Sizes = {0, 6}
INVARIANT LaunchedAsCreated
