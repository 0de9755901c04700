\* Two users of the library, two adapters, and two addresses of D3D objects, each used
\* again and again for objects of up to two devices.
SPECIFICATION DSpec
CONSTANTS
  Threads = {t1, t2}
  Gpus = {g1, g2}
  Addresses = {a1, a2}
  Objects = {o1, o2}
  D3dDevices = {d1, d2}
  o1 = o1
  o2 = o2
  d1 = d1
  d2 = d2
  Creations <- TwoDevices
INVARIANTS
  HolderIsServed
  CheckedHandleIsAlive
  AdaptersAccountedFor
  OneDevicePerInterface
  CallReachesItsDevice
PROPERTY ChangeCompletes
