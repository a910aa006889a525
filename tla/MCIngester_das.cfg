CONSTANTS
  alice = alice
  bob = bob
  image = image
  NoKey = NoKey
  MAX_DEPTH = 1
  Leaf = {image}
  Wallet = {alice, bob}
  MaxOps = 4
  MaxRecv = 3
  MaxOdd = 0
SPECIFICATION Spec
INVARIANT AssetProofsVerify
SYMMETRY Symmetric
CHECK_DEADLOCK FALSE
