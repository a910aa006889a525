---------------------------- MODULE GumballMachine ----------------------------
(***************************************************************************)
(* contracts/programs/gumball-machine: a machine that sells NFTs in random *)
(* order.  Its account holds a header, an array of indices and the bytes   *)
(* of the config lines.  The authority fills the indices in chunks and     *)
(* adds config lines; buyers dispense NFTs, which are minted through       *)
(* bubblegum into the machine's own tree, and pay for them.                *)
(*                                                                         *)
(* dispense_nft_* draws several NFTs in one transaction and pays at the    *)
(* end.  The draws are steps of their own, no other instruction running    *)
(* between them, and a failure takes all of them back.                     *)
(***************************************************************************)
EXTENDS Integers, Sequences

CONSTANTS MAX_ITEMS,       \* header.max_items
          ExtensionLens,   \* values of header.extension_len, the bytes of a config line
          CHUNK,           \* MAX_NUM_INDICES_TO_INIT_FOR_CHUNK
          TreeSize,        \* leaves of the machine's tree
          Key,             \* keys of authorities and buyers
          Line,            \* config lines: sequences of bytes
          EncodeMethod,    \* of "UTF8" and "Base58Encode", those that are used
          Price,           \* prices of an NFT
          Date,            \* dates, of the clock and to go live
          Funds            \* what a buyer owns at first

ASSUME ItemsAssumption == MAX_ITEMS \in Nat /\ ExtensionLens \subseteq Nat
ASSUME ChunkAssumption == CHUNK \in Nat \ {0} /\ TreeSize \in Nat
ASSUME MoneyAssumption == Price \subseteq Nat /\ Funds \in Nat /\ Date \subseteq Nat
ASSUME LineAssumption == \A line \in Line : line \in Seq(Nat)

VARIABLES status,     \* "zeroed", "live" or "destroyed"
          header,     \* the header's fields that change, and mint and receiver
          indices,    \* the array of indices
          config,     \* the bytes of the config lines
          tx,         \* <<>>, or the dispensing transaction that runs
          minted,     \* NFTs minted into the tree, in order
          funds,      \* buyer -> what he owns
          received,   \* what the receiver was paid
          clock,
          lines,      \* history: the config lines the authority submitted
          owed,       \* history: the price of every NFT when it was drawn, added up
          restocked   \* history: how many NFTs had been minted when stock was last added

machine == <<status, header, indices, config>>
history == <<lines, owed, restocked>>
vars == <<status, header, indices, config, tx, minted, funds, received, clock, history>>

Items == 0 .. MAX_ITEMS-1

Bytes(extension_len) == 0 .. MAX_ITEMS * extension_len - 1

Least(a, b) == IF a < b THEN a ELSE b

Greatest(a, b) == IF a > b THEN a ELSE b

Idle == tx = <<>>

-----------------------------------------------------------------------------

Init ==
  /\ status = "zeroed"
  /\ header = <<>>
  /\ indices = [i \in Items |-> 0]
  /\ config = <<>>
  /\ tx = <<>>
  /\ minted = <<>>
  /\ funds = [k \in Key |-> Funds]
  /\ received = 0
  /\ clock \in Date
  /\ lines = <<>>
  /\ owed = 0
  /\ restocked = 0

Mint == {"native", "token"}

Receiver == {"wallet", "token_account"}

\* `max_mint_size.max(1).min(max_items)`
MintSize(size) == Least(Greatest(size, 1), MAX_ITEMS)

\* The account was made for max_items lines of extension_len bytes, all zero.
initialize_gumball_machine(authority, price, go_live_date, mint, receiver, encode_method, size, len) ==
  /\ status = "zeroed"
  /\ status' = "live"
  /\ config' = [b \in Bytes(len) |-> 0]
  /\ header' = [authority |-> authority, price |-> price, go_live_date |-> go_live_date,
                mint |-> mint, receiver |-> receiver, encode_method |-> encode_method,
                max_mint_size |-> MintSize(size), extension_len |-> len,
                remaining |-> 0, total_items_added |-> 0,
                smallest_uninitialized_index |-> 0]
  /\ UNCHANGED <<indices, tx, minted, funds, received, clock, history>>

\* The authority signs, and no transaction is half done.
Authorized(authority) == status = "live" /\ Idle /\ header.authority = authority

\* A machine without config lines has all its NFTs for sale from the first
\* chunk on; and again after every further call.
initialize_indices_chunk(authority) ==
  LET first == header.smallest_uninitialized_index
      next  == Least(first + CHUNK, MAX_ITEMS)
  IN  /\ Authorized(authority)
      /\ indices' = [i \in Items |-> IF first <= i /\ i < next THEN i
                                     ELSE indices[i]]
      /\ header' = [header EXCEPT !.smallest_uninitialized_index = next,
                                  !.remaining = IF header.extension_len = 0 THEN MAX_ITEMS ELSE @]
      /\ restocked' = IF header.extension_len = 0 THEN Len(minted) ELSE restocked
      /\ UNCHANGED <<status, config, tx, minted, funds, received, clock, lines, owed>>

\* `config_lines_data[at..]` with the bytes of new_lines written over it.
Written(at, new_lines) ==
  [b \in DOMAIN config |->
     IF at <= b /\ b < at + Len(new_lines) * header.extension_len
     THEN new_lines[((b - at) \div header.extension_len) + 1][((b - at) % header.extension_len) + 1]
     ELSE config[b]]

\* The bytes are a number of lines.
WholeLines(new_lines) == \A n \in DOMAIN new_lines : Len(new_lines[n]) = header.extension_len

\* Mutant: the new lines are not counted.
AddFits_Uncounted(n) == header.total_items_added <= MAX_ITEMS

AddFits(n) == header.total_items_added + n <= MAX_ITEMS

\* The lines are written from byte total_items_added on, not from the line of
\* this number.
add_config_lines(authority, new_lines) ==
  /\ Authorized(authority)
  /\ header.extension_len > 0 /\ WholeLines(new_lines)
  /\ AddFits(Len(new_lines))
  /\ config' = Written(header.total_items_added, new_lines)
  /\ header' = [header EXCEPT !.total_items_added = @ + Len(new_lines),
                              !.remaining = @ + Len(new_lines)]
  /\ lines' = lines \o new_lines
  /\ restocked' = Len(minted)
  /\ UNCHANGED <<status, indices, tx, minted, funds, received, clock, owed>>

UpdateStart(starting_line) == starting_line * header.extension_len

update_config_lines(authority, starting_line, new_lines) ==
  /\ Authorized(authority)
  /\ header.extension_len > 0 /\ WholeLines(new_lines)
  /\ starting_line + Len(new_lines) <= header.total_items_added
  /\ config' = Written(UpdateStart(starting_line), new_lines)
  /\ lines' = [l \in DOMAIN lines |->
                 IF starting_line < l /\ l <= starting_line + Len(new_lines)
                 THEN new_lines[l - starting_line] ELSE lines[l]]
  /\ UNCHANGED <<status, header, indices, tx, minted, funds, received, clock, owed, restocked>>

\* The fields that stay get the values they have.
update_header_metadata(authority, changed) ==
  /\ Authorized(authority)
  /\ header' = [header EXCEPT !.encode_method = changed.encode_method,
                              !.price = changed.price,
                              !.go_live_date = changed.go_live_date,
                              !.authority = changed.authority,
                              !.max_mint_size = MintSize(changed.max_mint_size)]
  /\ UNCHANGED <<status, indices, config, tx, minted, funds, received, clock, history>>

\* The account's lamports go to the authority, and the account with them.
destroy(authority) ==
  /\ Authorized(authority)
  /\ status' = "destroyed"
  /\ UNCHANGED <<header, indices, config, tx, minted, funds, received, clock, history>>

-----------------------------------------------------------------------------

\* The programs called by a transaction's instructions: the machine alone, or
\* after one instruction to the compute budget.
assert_valid_single_instruction_transaction(programs) ==
  \/ programs = <<"gumball_machine">>
  \/ programs = <<"compute_budget", "gumball_machine">>

Programs == {<<"gumball_machine">>, <<"compute_budget", "gumball_machine">>,
             <<"gumball_machine", "gumball_machine">>, <<"other">>, <<"other", "gumball_machine">>}

\* find_and_mint_compressed_nfts up to its loop: the checks, and the number of
\* NFTs to mint.
BeginDispense(payer, instruction, programs, num_items) ==
  LET num_nfts_to_mint == Least(Greatest(num_items, 1), header.remaining)
  IN  /\ status = "live" /\ Idle
      /\ assert_valid_single_instruction_transaction(programs)
      /\ header.smallest_uninitialized_index = MAX_ITEMS
      /\ num_items <= header.max_mint_size
      /\ clock > header.go_live_date
      /\ num_nfts_to_mint > 0
      /\ tx' = [payer |-> payer, instruction |-> instruction,
                requested |-> num_items, num_nfts |-> num_nfts_to_mint, left |-> num_nfts_to_mint,
                before |-> [header |-> header, indices |-> indices,
                            minted |-> minted, owed |-> owed]]
      /\ UNCHANGED <<status, header, indices, config, minted, funds, received, clock, history>>

Swapped(selected, last) ==
  [indices EXCEPT ![selected] = indices[last], ![last] = indices[selected]]

\* Mutant: the NFT at the position selected, which the swap has filled anew.
ZeroNftIndex_AtSelected(shuffled, selected, last) == shuffled[selected]

ZeroNftIndex(shuffled, selected, last) == shuffled[last]

\* The config line of an NFT; the 1-index itself if there are none.
ConfigLine(index) ==
  IF header.extension_len = 0 THEN <<index + 1>>
  ELSE [b \in 1..header.extension_len |-> config[index * header.extension_len + b - 1]]

\* nft_index.to_le_bytes(): an item's number is a u32, so the bytes from the fifth
\* on are zero, and the first of them stands for all.
LittleEndian(nft_index) == [k \in 1..5 |-> IF k = 5 THEN 0 ELSE (nft_index \div 256^(k - 1)) % 256]

\* The bytes of a character that starts with this one; 0 if none does.
CharLen(first) ==
  CASE first <= 127        -> 1
    [] first \in 194..223  -> 2
    [] first \in 224..239  -> 3
    [] first \in 240..244  -> 4
    [] OTHER               -> 0

\* What may come after it.
Continued(first) ==
  CASE first = 224 -> 160..191
    [] first = 237 -> 128..159
    [] first = 240 -> 144..191
    [] first = 244 -> 128..143
    [] OTHER       -> 128..191

\* std::str::from_utf8 succeeds.
Utf8(bytes) ==
  LET text[i \in 1 .. Len(bytes) + 1] ==
        IF i > Len(bytes) THEN TRUE
        ELSE LET n == CharLen(bytes[i])
             IN  /\ n > 0 /\ i + n - 1 <= Len(bytes)
                 /\ n > 1 => bytes[i + 1] \in Continued(bytes[i])
                 /\ \A k \in 2 .. n - 1 : bytes[i + k] \in 128..191
                 /\ text[i + n]
  IN  text[1]

\* get_metadata_args unwraps the line as UTF-8 text: the authority's lines are taken
\* to be text, the bytes of a 1-index need not be.
Encodable(index) ==
  header.encode_method = "UTF8" /\ header.extension_len = 0 => Utf8(LittleEndian(index + 1))

\* fisher_yates_shuffle_and_fetch_nft_metadata with any entropy, and the mint,
\* for which the tree needs room.
Draw(selected) ==
  LET last  == header.remaining - 1
      index == ZeroNftIndex(Swapped(selected, last), selected, last)
  IN  /\ ~Idle /\ tx.left > 0
      /\ selected < header.remaining
      /\ Encodable(index)
      /\ Len(minted) < TreeSize
      /\ header' = [header EXCEPT !.remaining = last]
      /\ indices' = Swapped(selected, last)
      /\ minted' = Append(minted, [index |-> index, line |-> ConfigLine(index), owner |-> tx.payer])
      /\ tx' = [tx EXCEPT !.left = @ - 1]
      /\ owed' = owed + header.price
      /\ UNCHANGED <<status, config, funds, received, clock, lines, restocked>>

\* Mutant: the buyer pays for what he asked for.
Charge_Requested(t) == header.price * t.requested

Charge(t) == header.price * t.num_nfts

\* dispense_nft_sol wants a machine that sells for the native mint;
\* dispense_nft_token a token account as its receiver.
PaymentAccepted(t) ==
  /\ t.instruction = "dispense_nft_sol" => header.mint = "native"
  /\ t.instruction = "dispense_nft_token" => header.receiver = "token_account"
  /\ Charge(t) <= funds[t.payer]

Pay ==
  /\ ~Idle /\ tx.left = 0
  /\ PaymentAccepted(tx)
  /\ funds' = [funds EXCEPT ![tx.payer] = @ - Charge(tx)]
  /\ received' = received + Charge(tx)
  /\ tx' = <<>>
  /\ UNCHANGED <<status, header, indices, config, minted, clock, history>>

\* An assertion, the mint or the payment fails, or the compute budget runs out:
\* the runtime takes the transaction back.
Fail ==
  /\ ~Idle
  /\ header' = tx.before.header
  /\ indices' = tx.before.indices
  /\ minted' = tx.before.minted
  /\ owed' = tx.before.owed
  /\ tx' = <<>>
  /\ UNCHANGED <<status, config, funds, received, clock, lines, restocked>>

Tick ==
  /\ \E date \in Date : date > clock /\ clock' = date
  /\ UNCHANGED <<status, header, indices, config, tx, minted, funds, received, history>>

Batches == {<<l>> : l \in Line} \cup {<<l, m>> : l, m \in Line}

Next ==
  \/ \E authority \in Key :
       \/ \E price \in Price, date \in Date, mint \in Mint, receiver \in Receiver,
             method \in EncodeMethod, size \in 0..MAX_ITEMS, len \in ExtensionLens :
            initialize_gumball_machine(authority, price, date, mint, receiver, method, size, len)
       \/ initialize_indices_chunk(authority)
       \/ \E new_lines \in Batches :
            \/ add_config_lines(authority, new_lines)
            \/ \E starting_line \in Items : update_config_lines(authority, starting_line, new_lines)
       \/ \E changed \in [encode_method : EncodeMethod, price : Price, go_live_date : Date,
                          authority : Key, max_mint_size : 0..MAX_ITEMS] :
            update_header_metadata(authority, changed)
       \/ destroy(authority)
  \/ \E payer \in Key, instruction \in {"dispense_nft_sol", "dispense_nft_token"},
        programs \in Programs, num_items \in 0..MAX_ITEMS :
       BeginDispense(payer, instruction, programs, num_items)
  \/ \E selected \in Items : Draw(selected)
  \/ Pay
  \/ Fail
  \/ Tick

Spec == Init /\ [][Next]_vars

-----------------------------------------------------------------------------

\* Counters stay inside the account, whose size is fixed.
TypeOK ==
  /\ status \in {"zeroed", "live", "destroyed"}
  /\ indices \in [Items -> Items \cup {0}]
  /\ status # "zeroed" => DOMAIN config = Bytes(header.extension_len)
  /\ received \in Nat /\ owed \in Nat /\ restocked \in 0..Len(minted)
  /\ status # "zeroed" =>
       /\ header.remaining \in 0..MAX_ITEMS
       /\ header.total_items_added \in 0..MAX_ITEMS
       /\ header.smallest_uninitialized_index \in 0..MAX_ITEMS
       /\ header.max_mint_size \in 0..MAX_ITEMS

\* How many NFTs were ever for sale: all, or those with a config line.
StockSize == IF header.extension_len = 0 THEN MAX_ITEMS ELSE header.total_items_added

Pool == {indices[i] : i \in 0 .. header.remaining - 1}

\* What was minted after stock was last added.
SinceRestocked == restocked + 1 .. Len(minted)

Dispensed == {minted[n].index : n \in SinceRestocked}

\* From one time that stock is added to the next, no NFT is sold twice and none
\* that was sold is still for sale; and if stock was only added before the first
\* sale, what was sold and what is left are the whole stock: none is lost, failed
\* transactions included.  Stock that is added after a sale, by the indices
\* initialized once more or by further lines, does bring sold NFTs back.
StockConserved ==
  status # "zeroed" /\ header.smallest_uninitialized_index = MAX_ITEMS =>
    /\ \A m, n \in SinceRestocked : m # n => minted[m].index # minted[n].index
    /\ Pool \cap Dispensed = {}
    /\ restocked = 0 => /\ Pool \cup Dispensed = 0 .. StockSize - 1
                       /\ Len(minted) + header.remaining = StockSize

\* "Also returns the number of nfts successfully minted, so that the purchaser is
\* charged appropriately": the receiver has been paid the price of every NFT that
\* was minted and nothing else, also when fewer were left than the buyer wanted.
PaidPerNft == Idle => received = owed

\* "Add can only append config lines to the the end of the list": every line that
\* the authority submitted is stored, as it was last updated, where the dispensing
\* instructions look for it.  It is not: a second add_config_lines takes the number
\* of lines there are for a number of bytes, and writes over the first.
LinesAreStored ==
  status = "live" /\ header.extension_len > 0 =>
    \A l \in 1..Len(lines) : ConfigLine(l - 1) = lines[l]
=============================================================================
