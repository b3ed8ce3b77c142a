SPECIFICATION FairSpec
CONSTANTS
  portA = portA
  portB = portB
  Writer = {w1, w2}
  Port = {portA, portB}
  Pin = {n0, n1}
  FirstPort = portA
  Value = {1, 256}
  Exclusive = TRUE
  MaxFails = 1
INVARIANTS CacheMatchesDevice RegistersFollowModule
PROPERTIES ImplementsPortBank WriteTakesEffect
