CONSTANTS
  alice = alice
  bob = bob
  image = image
  NoKey = NoKey
  MAX_DEPTH = 2
  Leaf = {image}
  Wallet = {alice, bob}
  MaxOps = 4
  MaxRecv = 3
  MaxOdd = 1
SPECIFICATION Spec
INVARIANTS NewestWins ProofsVerify  WholeTransactions AssetsFollowChain DownloadsNotForgotten
SYMMETRY Symmetric
CHECK_DEADLOCK FALSE
