\* Two users of the library, two VkDevices below the Reflex layer.
SPECIFICATION VSpec
CONSTANTS
  Threads = {t1, t2}
  Gpus = {g1}
  Addresses = {a1}
  VkDevices = {d1, d2}
  Offers <- LayerOnly
  Fakes = {FALSE}
  MaxSemaphores = 2
  MaxValue = 0
INVARIANT InitialisedDeviceIsFound
