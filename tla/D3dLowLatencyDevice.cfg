\* Three application frames (0 included) over a ring of two, so that frames are
\* forgotten and numbered again; two threads; batches of two reports.
SPECIFICATION Spec
CONSTANTS
  AppIds = {0, 1, 2}
  ListSize = 2
  Threads = {t1, t2}
  Setter = t1
  Reports = 2
  MaxId = 4
INVARIANTS
  GeneratorInv
  OneFramePerId
  RenumberedOnlyWhenForgotten
  ReportsAreTruthful
  ClearedOnlyForCause
  SleepStatusAgreesWithDriver
PROPERTY ImplementsWindow
