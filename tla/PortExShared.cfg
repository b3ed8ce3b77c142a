SPECIFICATION Spec
CONSTANTS
  portA = portA
  portB = portB
  Writer = {w1, w2}
  Port = {portA, portB}
  Pin = {n0, n1}
  FirstPort = portA
  Value = {0, 1, 256}
  Exclusive = FALSE
  MaxFails = 0
INVARIANT CacheMatchesDevice
