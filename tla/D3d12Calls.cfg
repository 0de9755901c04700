\* Three threads, two addresses, an application that creates and destroys shaders as
\* it likes; two threads that build from the fourteen requests of MCAsked, with
\* converters that have room for one geometry at first.
SPECIFICATION MCSpec
CONSTANTS
  Threads = {t1, t2, t3}
  Handles = {h1, h2}
  Sizes = {0, 4, 6}
  BuildThreads = {b1, b2}
  StackReserve = 1
  Asked <- MCAsked
INVARIANTS
  OnlyCrossingLosesSize
  EntriesHaveShaders
  BuildsWhatWasAsked
