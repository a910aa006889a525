CONSTANTS
  slab1 = slab1
  alice = alice
  bob = bob
  dana = dana
  NoKey = NoKey
  Marketplace = Marketplace
  Slab = {slab1}
  Size = 1
  Wallet = {alice, bob}
  Key <- AllKeys
  Metadata <- TwoMetadata
  Price = {9999, 30001}
  Share = {700, 10001}
  Amount = {2100, 2101}
  Rent = 100
  Funds = 40000
  MaxSales = 3
SPECIFICATION MarketSpec
INVARIANTS MarketTypeOK FairListingsAreSellable
PROPERTY SoldAtListedPrice
