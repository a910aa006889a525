------------------------------ MODULE SugarShack ------------------------------
(***************************************************************************)
(* contracts/programs/sugar-shack: a marketplace for the NFTs of Bubblegum. *)
(* An NFT is listed by making an address of this program, derived from the *)
(* price, its delegate; nothing else records the listing.  A purchase pays *)
(* the marketplace, the creators and the seller out of the price and has   *)
(* the NFT transferred, signing for that address.                          *)
(*                                                                         *)
(* The module composes the marketplace with the whole of Bubblegum, whose  *)
(* instructions wallets may call directly at any time.  An instruction     *)
(* that fails is rolled back by the runtime as a whole.                    *)
(***************************************************************************)
EXTENDS Bubblegum, Sequences, Functions

CONSTANTS Wallet,       \* keys that belong to somebody, who can sign
          Price,        \* prices that are asked for
          Share,        \* royalty shares of the marketplace, in basis points
          Amount,       \* lamports withdrawn at a time
          Rent,         \* rent-exempt minimum of MARKETPLACE_PROPERTIES_SIZE bytes
          Funds,        \* lamports of a wallet at first
          Marketplace,  \* the address of the marketplace's account
          MaxSales      \* bound on the purchases of a behaviour

VARIABLES marketplace_props,   \* <<>> until the account exists
          lamports,            \* account -> its balance
          sales                \* purchases so far

market == <<marketplace_props, lamports, sales>>
marketVars == <<vars, market>>

\* The address that encodes a price: `seeds = [price.to_le_bytes()]`.
ListingDelegate(price) == <<"listing", price>>

ASSUME WalletAssumption == Wallet \subseteq Key /\ Marketplace \notin Key
ASSUME ListingAssumption == \A price \in Price : ListingDelegate(price) \in Key \ Wallet
ASSUME LamportAssumption ==
  /\ Price \subseteq Nat /\ Share \subseteq Nat /\ Amount \subseteq Nat
  /\ Rent \in Nat /\ Funds \in Nat /\ MaxSales \in Nat

\* A Creator has an address and a u8 share; nothing bounds the sum of the shares.
ASSUME CreatorAssumption ==
  \A message \in Metadata : message.creators \in Seq([address : Key, share : Nat])

Account == Key \cup {Marketplace}

-----------------------------------------------------------------------------
(* Payments. *)

Moved(ledger, from, to, amount) ==
  LET debited == [ledger EXCEPT ![from] = @ - amount]
  IN  [debited EXCEPT ![to] = @ + amount]

\* `price.safe_div(10000)`: what is left over is not shared out.
BasisPoint(amount) == amount \div 10000

MarketplaceFee(price) == BasisPoint(price) * marketplace_props.share

\* A creator's share is in percent.
CreatorFee(remaining, creator_share) == BasisPoint(remaining) * (creator_share * 100)

CreatorFees(remaining, creators) ==
  SumFunction([c \in DOMAIN creators |-> CreatorFee(remaining, creators[c].share)])

\* Mutant: the marketplace's fee comes on top of the price.
SellerAmount_FeeOnTop(price, creators) ==
  price - CreatorFees(price - MarketplaceFee(price), creators)

\* Everything that is not paid to the marketplace and the creators.
SellerAmount(price, creators) ==
  LET remaining == price - MarketplaceFee(price)
  IN  remaining - CreatorFees(remaining, creators)

\* The transfers of a purchase, in order: to whom and how much.
Payouts(price, creators, former_owner) ==
  LET remaining == price - MarketplaceFee(price)
  IN  <<[to |-> Marketplace, amount |-> MarketplaceFee(price)]>>
      \o [c \in DOMAIN creators |->
            [to |-> creators[c].address, amount |-> CreatorFee(remaining, creators[c].share)]]
      \o <<[to |-> former_owner, amount |-> SellerAmount(price, creators)]>>

\* The balances after the first k payouts.
AfterPayouts(purchaser, payouts) ==
  LET after[k \in 0..Len(payouts)] ==
        IF k = 0 THEN lamports
        ELSE Moved(after[k-1], purchaser, payouts[k].to, payouts[k].amount)
  IN  after

\* Mutant: nobody looks at the purchaser's balance.
Payable_OnCredit(purchaser, price, creators, payouts) ==
  MarketplaceFee(price) + CreatorFees(price - MarketplaceFee(price), creators) <= price

\* No safe_sub goes below zero, and every transfer finds its lamports.
Payable(purchaser, price, creators, payouts) ==
  /\ MarketplaceFee(price) <= price
  /\ CreatorFees(price - MarketplaceFee(price), creators) <= price - MarketplaceFee(price)
  /\ \A k \in 1..Len(payouts) :
       AfterPayouts(purchaser, payouts)[k-1][purchaser] >= payouts[k].amount

-----------------------------------------------------------------------------
(* The accounts that the instructions demand. *)

\* `init` with fixed seeds: there is one marketplace, and the payer pays its rent.
InitMarketplaceProperties(payer) ==
  /\ marketplace_props = <<>>
  /\ payer \in Wallet /\ lamports[payer] >= Rent
  /\ lamports' = Moved(lamports, payer, Marketplace, Rent)

\* The marketplace exists and its authority signed.
HasAuthority(authority) ==
  /\ marketplace_props # <<>>
  /\ authority \in Wallet /\ authority = marketplace_props.authority

-----------------------------------------------------------------------------

MarketInit ==
  /\ Init
  /\ marketplace_props = <<>>
  /\ lamports = [a \in Account |-> IF a \in Wallet THEN Funds ELSE 0]
  /\ sales = 0

initialize_marketplace(payer, royalty_share, authority) ==
  /\ InitMarketplaceProperties(payer)
  /\ royalty_share <= 10000
  /\ marketplace_props' = [share |-> royalty_share, authority |-> authority]
  /\ UNCHANGED <<vars, sales>>

\* Both arguments are optional; None leaves a property as it is.  The new share
\* is not compared with 10000.
update_marketplace_properties(signer, authority, share) ==
  /\ HasAuthority(signer)
  /\ marketplace_props' =
       [authority |-> IF authority = <<>> THEN marketplace_props.authority ELSE authority[1],
        share |-> IF share = <<>> THEN marketplace_props.share ELSE share[1]]
  /\ UNCHANGED <<vars, lamports, sales>>

\* bubblegum::cpi::delegate, the owner signing.
modify_compressed_nft_delegate(slab, leaf, new_delegate, index) ==
  /\ leaf.owner \in Wallet
  /\ delegate(slab, leaf, new_delegate, index)
  /\ UNCHANGED market

create_or_modify_listing(slab, leaf, price, index) ==
  modify_compressed_nft_delegate(slab, leaf, ListingDelegate(price), index)

\* "should not be a PDA owned by this program", which nothing checks.
remove_listing(slab, leaf, new_delegate, index) ==
  modify_compressed_nft_delegate(slab, leaf, new_delegate, index)

\* Mutant: the delegate in the leaf is not the address of the price paid.
ListedAt_AnyPrice(leaf, price) == \E p \in Price : leaf.delegate = ListingDelegate(p)

\* The leaf is hashed with listing_delegate, the address of the price, as delegate.
ListedAt(leaf, price) == leaf.delegate = ListingDelegate(price)

\* leaf is put together from the accounts and arguments passed; its creator hash
\* is computed from the creators who are paid.
purchase(slab, leaf, price, purchaser, creators, index) ==
  LET payouts == Payouts(price, creators, leaf.owner)
  IN  /\ marketplace_props # <<>>
      /\ sales < MaxSales
      /\ ListedAt(leaf, price)
      /\ leaf.creator_hash = <<"creators", creators>>
      /\ Payable(purchaser, price, creators, payouts)
      /\ lamports' = AfterPayouts(purchaser, payouts)[Len(payouts)]
      /\ transfer(slab, leaf, purchaser, index, {purchaser, leaf.delegate})
      /\ sales' = sales + 1
      /\ UNCHANGED marketplace_props

\* `Rent::get()?.is_exempt(balance after the withdrawal)`
IsExempt(amount) == lamports[Marketplace] - amount >= Rent

withdraw_fees(authority, fee_payout_recipient, lamports_to_withdraw) ==
  /\ HasAuthority(authority)
  /\ lamports_to_withdraw <= lamports[Marketplace]
  /\ IsExempt(lamports_to_withdraw)
  /\ lamports' = Moved(lamports, Marketplace, fee_payout_recipient, lamports_to_withdraw)
  /\ UNCHANGED <<vars, marketplace_props, sales>>

\* The leaves that the caller of an instruction may name: any other one is
\* refused by replace_leaf.
StoredLeaves(slab) == {leaves[slab][i][1] : i \in {j \in Indices : leaves[slab][j] # EMPTY}}

\* Bubblegum's own instructions, called by wallets, to which NFTs belong.  A listing's
\* address cannot sign them, but whoever mints an NFT, and its owner later, may make
\* it the delegate here as well.
BubblegumInstruction(slab, index) ==
  /\ \/ \E wallet \in Wallet : create_tree(slab, wallet)
     \/ \E mint_authority, owner \in Wallet, del \in Key, message \in Metadata :
          mint_v1(slab, mint_authority, owner, del, message)
     \/ \E leaf \in StoredLeaves(slab) :
          \/ \E new_owner \in Wallet, signed \in SUBSET Wallet :
               transfer(slab, leaf, new_owner, index, signed)
          \/ \E new_delegate \in Key : delegate(slab, leaf, new_delegate, index)
          \/ \E signed \in SUBSET Wallet : burn(slab, leaf, index, signed)
          \/ redeem(slab, leaf, index)
     \/ \E owner \in Wallet : cancel_redeem(slab, slab, index, owner)
     \/ \E owner \in Wallet, metadata \in Metadata : decompress_v1(slab, index, owner, metadata)
  /\ UNCHANGED market

Optional(S) == {<<>>} \cup {<<x>> : x \in S}

MarketNext ==
  \/ \E slab \in Slab, index \in Indices : BubblegumInstruction(slab, index)
  \/ \E payer, authority \in Wallet, share \in Share :
       initialize_marketplace(payer, share, authority)
  \/ \E signer \in Wallet, authority \in Optional(Wallet), share \in Optional(Share) :
       update_marketplace_properties(signer, authority, share)
  \/ \E slab \in Slab, index \in Indices : \E leaf \in StoredLeaves(slab) :
       \/ \E price \in Price : create_or_modify_listing(slab, leaf, price, index)
       \/ \E new_delegate \in Key : remove_listing(slab, leaf, new_delegate, index)
       \/ \E price \in Price, purchaser \in Wallet, message \in Metadata :
            purchase(slab, leaf, price, purchaser, message.creators, index)
  \/ \E authority, recipient \in Wallet, amount \in Amount :
       withdraw_fees(authority, recipient, amount)

MarketSpec == MarketInit /\ [][MarketNext]_marketVars

-----------------------------------------------------------------------------

\* The marketplace's account, balances and counters have their types.
MarketTypeOK ==
  /\ TypeOK
  /\ marketplace_props \in {<<>>} \cup [authority : Wallet, share : Share]
  /\ lamports \in [Account -> Nat]
  /\ sales \in 0..MaxSales

Gain(account) == lamports'[account] - lamports[account]

\* What of a sale's price is due to an account that takes no other part in it,
\* computed exactly; the program may pay up to `loss` less.
DueWithin(paid, exact, loss) == exact - loss <= paid /\ paid <= exact

\* The step changes a leaf that its owner did not sign for and no wallet is the
\* delegate of.
TakenUnsigned(slab, i) ==
  /\ leaves[slab][i] # EMPTY /\ leaves'[slab][i] # leaves[slab][i]
  /\ leaves[slab][i][1].owner \notin signers'
  /\ leaves[slab][i][1].delegate \notin Wallet

\* It is a sale to a buyer who signed, at the price that the delegate encodes:
\* everyone gets, short of rounding, what is due to him from the buyer.
SoldAsListed(slab, i) ==
  LET seller   == leaves[slab][i][1].owner
      buyer    == leaves'[slab][i][1].owner
      creators == leaves[slab][i][1].creator_hash[2]
      share    == marketplace_props.share
      fee      == Gain(Marketplace)
      Created(a) == \E c \in DOMAIN creators : creators[c].address = a
      Once(c) == \A d \in DOMAIN creators : creators[d].address = creators[c].address => d = c
  IN  /\ leaves'[slab][i] # EMPTY /\ buyer \in signers' \cap Wallet
      /\ \E price \in Price :
           /\ leaves[slab][i][1].delegate = ListingDelegate(price)
           /\ DueWithin(fee, (price * share) \div 10000, share)
           /\ \A c \in DOMAIN creators :
                Once(c) /\ creators[c].address \notin {seller, buyer} =>
                  DueWithin(Gain(creators[c].address),
                            ((price - fee) * creators[c].share) \div 100,
                            creators[c].share * 100)
           /\ ~Created(buyer) => Gain(buyer) = -price

\* An NFT leaves its owner without his signature, and without that of a wallet that
\* is its delegate, only by a sale at the price that its delegate in the leaf stands
\* for now, which whoever minted it or its owner last put there: to a buyer who
\* signed, marketplace and creators getting their shares, short of rounding, from the
\* buyer, and the seller all the rest.  Whoever races whom, no stale price is honoured.
SoldAtListedPrice ==
  [][\A slab \in Slab, i \in Indices : TakenUnsigned(slab, i) => SoldAsListed(slab, i)]_marketVars

\* The leaf is listed at the price, and the purchaser has it.
Affordable(slab, i, price, purchaser) ==
  /\ leaves[slab][i] # EMPTY /\ ListedAt(leaves[slab][i][1], price)
  /\ marketplace_props # <<>> /\ sales < MaxSales
  /\ lamports[purchaser] >= price

Purchasable(slab, i, price, purchaser) ==
  LET leaf == leaves[slab][i][1]
  IN  ENABLED purchase(slab, leaf, price, purchaser, leaf.creator_hash[2], i)

\* The shares of a sale are parts of a whole, or the price is so low that they all
\* round to nothing.
FairShares(price, creators) ==
  \/ price < 10000
  \/ /\ marketplace_props.share <= 10000
     /\ SumFunction([c \in DOMAIN creators |-> creators[c].share]) <= 100

\* "Enables any user to purchase an NFT listed on the marketplace": where the shares
\* are fair any wallet that has the price can, be it one of the creators or the seller
\* himself, since the payouts never add up to more than the price, in whatever order
\* they are made.  Where they are not, safe_sub may fail, since nothing refuses
\* creators' shares above a hundred percent in all, nor a marketplace's share above
\* 10000 basis points when it is updated.
FairListingsAreSellable ==
  \A slab \in Slab, i \in Indices, price \in Price, purchaser \in Wallet :
    (/\ Affordable(slab, i, price, purchaser)
     /\ FairShares(price, leaves[slab][i][1].creator_hash[2]))
    => Purchasable(slab, i, price, purchaser)
=============================================================================
