SPECIFICATION Spec
CONSTANTS
  Keys = {"a", "b", "c"}
  Hash <- MCHash
  HashSize = 2
  MaxItems = 3
  Blocks = 3
  BlockSize = 2
  ByteBits = 2
  Payloads = {1}
  Lens = {2, 3}
  Ttls = {0, 1}
  Procs = {p1, p2}
  Epoch = 4
  MaxTime = 5
  Modes <- MCModes
INVARIANTS CacheSound
PROPERTIES ImplementsStore
SYMMETRY Symmetry
