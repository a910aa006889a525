CONSTANTS
  slab1 = slab1
  alice = alice
  bob = bob
  carol = carol
  art = art
  NoKey = NoKey
  Slab = {slab1}
  Size = 2
  Key = {alice, bob, carol}
  Metadata <- BothVersions
SPECIFICATION Spec
SYMMETRY Symmetric
INVARIANTS TypeOK EveryNftHasOneHome EventsTellLeaves VoucherSlotKept
PROPERTY HolderConsents
