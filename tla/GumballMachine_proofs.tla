------------------------ MODULE GumballMachine_proofs ------------------------
(***************************************************************************)
(* Proofs about GumballMachine for any number of items, lines, keys and    *)
(* prices.  A dispensing transaction is several steps, so everything that  *)
(* holds of the machine holds of the state it would be taken back to as    *)
(* well.                                                                   *)
(***************************************************************************)
EXTENDS GumballMachine, SequenceTheorems, TLAPS

Header == [authority : Key, price : Price, go_live_date : Date, mint : Mint, receiver : Receiver,
           encode_method : EncodeMethod, max_mint_size : 0..MAX_ITEMS,
           extension_len : ExtensionLens, remaining : 0..MAX_ITEMS,
           total_items_added : 0..MAX_ITEMS, smallest_uninitialized_index : 0..MAX_ITEMS]

Nft == [index : Items, line : Seq(Nat), owner : Key]

Snapshot == [header : Header, indices : [Items -> Items \cup {0}], minted : Seq(Nft), owed : Nat]

Tx == [payer : Key, instruction : {"dispense_nft_sol", "dispense_nft_token"},
       requested : 0..MAX_ITEMS, num_nfts : 0..MAX_ITEMS, left : 0..MAX_ITEMS, before : Snapshot]

\* No more is for sale than was added.
Bounded(h) == h.extension_len > 0 => h.remaining <= h.total_items_added

Typed ==
  /\ status \in {"zeroed", "live", "destroyed"}
  /\ status # "zeroed" => /\ header \in Header /\ Bounded(header)
                          /\ config \in [Bytes(header.extension_len) -> Nat]
  /\ status = "zeroed" => minted = <<>> /\ tx = <<>>
  /\ indices \in [Items -> Items \cup {0}]
  /\ minted \in Seq(Nft)
  /\ funds \in [Key -> Nat] /\ received \in Nat /\ owed \in Nat
  /\ restocked \in 0..Len(minted)
  /\ tx # <<>> => /\ status = "live" /\ tx \in Tx
                  /\ tx.left <= tx.num_nfts /\ tx.left <= header.remaining
                  /\ Bounded(tx.before.header)
                  /\ tx.before.header.extension_len = header.extension_len
                  /\ restocked <= Len(tx.before.minted)

-----------------------------------------------------------------------------
(* Arithmetic of lines and bytes. *)

\* A line lies inside the bytes of the account.
LEMMA LineInBounds ==
  ASSUME NEW len \in Nat, NEW index \in Items, NEW b \in 1..len
  PROVE  index * len + b - 1 \in Bytes(len)
  <1>1. index \in Nat /\ MAX_ITEMS \in Nat /\ index <= MAX_ITEMS - 1
    BY ItemsAssumption DEF Items
  <1>2. index * len <= (MAX_ITEMS - 1) * len
    BY <1>1
  <1>3. (MAX_ITEMS - 1) * len = MAX_ITEMS * len - len
    BY <1>1
  <1>4. index * len \in Nat /\ MAX_ITEMS * len \in Nat
    BY <1>1
  <1> QED
    BY <1>2, <1>3, <1>4 DEF Bytes

\* A function on 1..n is a sequence of n elements.
LEMMA FunctionIsSeq ==
  ASSUME NEW S, NEW n \in Nat, NEW f \in [1..n -> S]
  PROVE  f \in Seq(S) /\ Len(f) = n
  <1>1. f \in Seq(S)
    <2>1. Seq(S) = UNION {[1..m -> S] : m \in Nat}
      BY SeqDef, Zenon
    <2>2. [1..n -> S] \in {[1..m -> S] : m \in Nat}
      OBVIOUS
    <2> QED
      BY <2>1, <2>2
  <1>2. Len(f) \in Nat /\ DOMAIN f = 1..Len(f)
    BY <1>1, LenProperties
  <1>3. 1..n = 1..Len(f)
    BY <1>2
  <1> QED
    BY <1>1, <1>2, <1>3

\* The fields of a header are numbers.
LEMMA HeaderNumbers ==
  ASSUME NEW h \in Header
  PROVE  /\ h.extension_len \in Nat /\ h.price \in Nat /\ h.remaining \in Nat
         /\ h.total_items_added \in Nat /\ h.smallest_uninitialized_index \in Nat
  <1>1. /\ h.extension_len \in ExtensionLens /\ h.price \in Price /\ h.remaining \in 0..MAX_ITEMS
        /\ h.total_items_added \in 0..MAX_ITEMS /\ h.smallest_uninitialized_index \in 0..MAX_ITEMS
    BY DEF Header
  <1>2. h.extension_len \in Nat /\ h.price \in Nat
    BY <1>1, ItemsAssumption, MoneyAssumption, Zenon
  <1> QED
    BY <1>1, <1>2, ItemsAssumption

\* Items are natural numbers.
LEMMA ItemsAreNumbers == \A i \in Items : i \in Nat
  BY ItemsAssumption DEF Items

\* The config line of an item is a sequence of bytes.
LEMMA ConfigLineType ==
  ASSUME Typed, status # "zeroed", NEW index \in Items
  PROVE  ConfigLine(index) \in Seq(Nat)
  <1>1. header.extension_len \in Nat /\ config \in [Bytes(header.extension_len) -> Nat]
    BY ItemsAssumption DEF Typed, Header
  <1>2. \A b \in 1..header.extension_len :
          index * header.extension_len + b - 1 \in Bytes(header.extension_len)
    BY <1>1, LineInBounds
  <1>3. CASE header.extension_len = 0
    <2>1. index + 1 \in Nat
      BY ItemsAssumption DEF Items
    <2> QED
      BY <1>3, <2>1 DEF ConfigLine
  <1>4. CASE header.extension_len # 0
    <2> DEFINE f == [b \in 1..header.extension_len |-> config[index * header.extension_len + b - 1]]
    <2>1. f \in [1..header.extension_len -> Nat]
      BY <1>1, <1>2
    <2> HIDE DEF f
    <2>2. f \in Seq(Nat)
      BY <1>1, <2>1, FunctionIsSeq
    <2> QED
      BY <1>4, <2>2 DEF ConfigLine, f
  <1> QED
    BY <1>3, <1>4


-----------------------------------------------------------------------------
(* Type correctness. *)

\* Whatever size is asked for, what is stored is within the bound.
LEMMA MintSizeType == \A size \in Nat : MintSize(size) \in 0..MAX_ITEMS
  BY ItemsAssumption DEF MintSize, Least, Greatest

\* A zeroed account is well typed; then one lemma for each instruction.
LEMMA InitTyped == Init => Typed
  <1> SUFFICES ASSUME Init PROVE Typed
    OBVIOUS
  <1>1. indices \in [Items -> Items \cup {0}]
    BY DEF Init
  <1>2. minted \in Seq(Nft)
    BY DEF Init
  <1>3. funds \in [Key -> Nat]
    BY MoneyAssumption DEF Init
  <1> QED
    BY <1>1, <1>2, <1>3 DEF Init, Typed

\* The authority's instructions, none of which runs inside a transaction.
LEMMA InitializeTyped ==
  ASSUME Typed, NEW authority \in Key, NEW price \in Price, NEW date \in Date, NEW mint \in Mint,
         NEW receiver \in Receiver, NEW method \in EncodeMethod, NEW size \in 0..MAX_ITEMS,
         NEW len \in ExtensionLens,
         initialize_gumball_machine(authority, price, date, mint, receiver, method, size, len)
  PROVE  Typed'
  <1>1. header' \in Header /\ Bounded(header')
    BY MintSizeType, ItemsAssumption DEF initialize_gumball_machine, Header, Bounded
  <1>2. config' \in [Bytes(header'.extension_len) -> Nat]
    BY DEF initialize_gumball_machine
  <1> QED
    BY <1>1, <1>2 DEF initialize_gumball_machine, Typed, history

\* initialize_indices_chunk keeps the types.
LEMMA ChunkTyped ==
  ASSUME Typed, NEW authority \in Key, initialize_indices_chunk(authority)
  PROVE  Typed'
  <1> USE DEF initialize_indices_chunk, Authorized, Idle
  <1>1. header \in Header /\ Bounded(header) /\ tx = <<>> /\ status = "live"
    BY DEF Typed
  <1> DEFINE next == Least(header.smallest_uninitialized_index + CHUNK, MAX_ITEMS)
             left == IF header.extension_len = 0 THEN MAX_ITEMS ELSE header.remaining
  <1>2. header' \in Header
    <2>1. next \in 0..MAX_ITEMS /\ left \in 0..MAX_ITEMS
      BY <1>1, ItemsAssumption, ChunkAssumption DEF Header, Least
    <2>2. header' = [header EXCEPT !.smallest_uninitialized_index = next, !.remaining = left]
      OBVIOUS
    <2> HIDE DEF next, left, initialize_indices_chunk
    <2> QED
      BY <1>1, <2>1, <2>2 DEF Header
  <1>3. Bounded(header') /\ header'.extension_len = header.extension_len
    BY <1>1, ItemsAssumption DEF Header, Bounded
  <1>4. indices' \in [Items -> Items \cup {0}]
    BY DEF Typed
  <1> QED
    BY <1>1, <1>2, <1>3, <1>4 DEF Typed

\* Division with remainder.
LEMMA QuotientRemainder ==
  ASSUME NEW a \in Nat, NEW d \in Nat \ {0}
  PROVE  /\ a \div d \in Nat
         /\ a % d \in 0..d-1
         /\ a = d * (a \div d) + (a % d)
  OBVIOUS

\* The quotient of a number below n * d is below n.
LEMMA QuotientBelow ==
  ASSUME NEW d \in Nat \ {0}, NEW n \in Nat, NEW q \in Nat, NEW r \in Nat, d * q + r < n * d
  PROVE  q < n
  <1> SUFFICES ASSUME q >= n PROVE FALSE
    OBVIOUS
  <1>1. d * q >= d * n
    OBVIOUS
  <1> QED
    BY <1>1

\* Lines written over the bytes of the account leave bytes.
LEMMA WrittenType ==
  ASSUME Typed, status # "zeroed", NEW at \in Nat, NEW new_lines \in Seq(Line),
         WholeLines(new_lines), header.extension_len > 0
  PROVE  Written(at, new_lines) \in [Bytes(header.extension_len) -> Nat]
  <1> DEFINE len == header.extension_len
             count == Len(new_lines)
  <1>1. len \in Nat \ {0} /\ config \in [Bytes(len) -> Nat]
    <2>1. header \in Header /\ config \in [Bytes(header.extension_len) -> Nat]
      BY DEF Typed
    <2> QED
      BY <2>1, HeaderNumbers
  <1>2. count \in Nat
    OBVIOUS
  <1>3. \A n \in 1..count : new_lines[n] \in Seq(Nat) /\ Len(new_lines[n]) = len
    BY LineAssumption DEF WholeLines
  <1>4. \A b \in Bytes(len) : b \in Nat
    BY <1>1, ItemsAssumption DEF Bytes
  <1>5. Written(at, new_lines) =
          [b \in Bytes(len) |-> IF at <= b /\ b < at + count * len
                                THEN new_lines[((b - at) \div len) + 1][((b - at) % len) + 1]
                                ELSE config[b]]
    BY <1>1 DEF Written
  <1> HIDE DEF len, count
  <1>6. ASSUME NEW b \in Bytes(len), at <= b, b < at + count * len
        PROVE  new_lines[((b - at) \div len) + 1][((b - at) % len) + 1] \in Nat
    <2> DEFINE q == (b - at) \div len
               r == (b - at) % len
    <2>1. b - at \in Nat /\ b - at < count * len
      BY <1>1, <1>2, <1>4, <1>6
    <2>2. q \in Nat /\ r \in 0..len-1 /\ b - at = len * q + r
      BY <1>1, <2>1, QuotientRemainder
    <2> HIDE DEF q, r
    <2>3. q < count
      BY <1>1, <1>2, <2>1, <2>2, QuotientBelow
    <2>4. q + 1 \in 1..count /\ r + 1 \in 1..len
      BY <1>1, <1>2, <2>2, <2>3
    <2>5. new_lines[q + 1] \in Seq(Nat) /\ Len(new_lines[q + 1]) = len
      BY <1>3, <2>4
    <2>6. new_lines[q + 1][r + 1] \in Nat
      BY <2>4, <2>5
    <2> QED
      BY <2>6 DEF q, r
  <1>7. Written(at, new_lines) \in [Bytes(len) -> Nat]
    BY <1>1, <1>5, <1>6
  <1> QED
    BY <1>7 DEF len

\* add_config_lines keeps the types.
LEMMA AddLinesTyped ==
  ASSUME Typed, NEW authority \in Key, NEW new_lines \in Seq(Line),
         add_config_lines(authority, new_lines)
  PROVE  Typed'
  <1> USE DEF add_config_lines, Authorized, Idle
  <1>1. header \in Header /\ Bounded(header) /\ tx = <<>> /\ status = "live" /\ Len(new_lines) \in Nat
    BY DEF Typed
  <1>2. header' \in Header /\ Bounded(header') /\ header'.extension_len = header.extension_len
    <2> DEFINE total == header.total_items_added + Len(new_lines)
               left  == header.remaining + Len(new_lines)
    <2>1. total \in 0..MAX_ITEMS /\ left \in 0..MAX_ITEMS /\ left <= total
      BY <1>1, ItemsAssumption DEF Header, Bounded, AddFits
    <2>2. header' = [header EXCEPT !.total_items_added = total, !.remaining = left]
      OBVIOUS
    <2> HIDE DEF total, left, add_config_lines
    <2> QED
      BY <1>1, <2>1, <2>2 DEF Header, Bounded
  <1>3. config' \in [Bytes(header.extension_len) -> Nat]
    BY <1>1, WrittenType DEF Header
  <1> QED
    BY <1>1, <1>2, <1>3 DEF Typed

\* update_config_lines keeps the types.
LEMMA UpdateLinesTyped ==
  ASSUME Typed, NEW authority \in Key, NEW starting_line \in Items, NEW new_lines \in Seq(Line),
         update_config_lines(authority, starting_line, new_lines)
  PROVE  Typed'
  <1> USE DEF update_config_lines, Authorized, Idle
  <1>1. header \in Header /\ tx = <<>> /\ status = "live"
    BY DEF Typed
  <1>2. UpdateStart(starting_line) \in Nat
    <2>1. header.extension_len \in Nat /\ starting_line \in Nat
      BY <1>1, HeaderNumbers, ItemsAreNumbers
    <2> QED
      BY <2>1 DEF UpdateStart
  <1>3. config' \in [Bytes(header.extension_len) -> Nat]
    BY <1>1, <1>2, WrittenType
  <1> QED
    BY <1>1, <1>3 DEF Typed

\* update_header_metadata keeps the types.
LEMMA UpdateHeaderTyped ==
  ASSUME Typed, NEW authority \in Key,
         NEW changed \in [encode_method : EncodeMethod, price : Price, go_live_date : Date,
                          authority : Key, max_mint_size : 0..MAX_ITEMS],
         update_header_metadata(authority, changed)
  PROVE  Typed'
  <1> USE DEF update_header_metadata, Authorized, Idle
  <1>1. header \in Header /\ Bounded(header) /\ tx = <<>> /\ status = "live"
    BY DEF Typed
  <1>2. MintSize(changed.max_mint_size) \in 0..MAX_ITEMS
    BY MintSizeType, ItemsAssumption
  <1>3. header' \in Header /\ Bounded(header') /\ header'.extension_len = header.extension_len
    BY <1>1, <1>2 DEF Header, Bounded
  <1> QED
    BY <1>1, <1>3 DEF Typed, history

\* The steps of a dispensing transaction.
LEMMA BeginTyped ==
  ASSUME Typed, NEW payer \in Key,
         NEW instruction \in {"dispense_nft_sol", "dispense_nft_token"},
         NEW programs \in Programs, NEW num_items \in 0..MAX_ITEMS,
         BeginDispense(payer, instruction, programs, num_items)
  PROVE  Typed'
  <1> DEFINE n == Least(Greatest(num_items, 1), header.remaining)
  <1>1. header \in Header /\ Bounded(header) /\ status = "live"
    BY DEF Typed, BeginDispense
  <1>2. n \in 0..MAX_ITEMS /\ n <= header.remaining
    BY <1>1, ItemsAssumption DEF Header, Least, Greatest
  <1> HIDE DEF n
  <1>3. /\ tx' = [payer |-> payer, instruction |-> instruction,
                  requested |-> num_items, num_nfts |-> n, left |-> n,
                  before |-> [header |-> header, indices |-> indices,
                              minted |-> minted, owed |-> owed]]
        /\ UNCHANGED <<status, header, indices, config, minted, funds, received, clock, history>>
    BY DEF BeginDispense, n
  <1>4. tx' \in Tx /\ tx'.left = n /\ tx'.num_nfts = n /\ tx'.before.header = header
    BY <1>1, <1>2, <1>3 DEF Tx, Snapshot, Typed
  <1> QED
    BY <1>1, <1>2, <1>3, <1>4, ItemsAssumption DEF Typed, history

\* A draw takes one of the indices that are left, and keeps the types.
LEMMA DrawTyped ==
  ASSUME Typed, NEW selected \in Items, Draw(selected)
  PROVE  Typed'
  <1> DEFINE last == header.remaining - 1
             shuffled == Swapped(selected, last)
             index == ZeroNftIndex(shuffled, selected, last)
             nft == [index |-> index, line |-> ConfigLine(index), owner |-> tx.payer]
  <1>1. /\ header \in Header /\ Bounded(header) /\ status = "live" /\ tx \in Tx /\ tx.left > 0
        /\ tx.left <= tx.num_nfts /\ tx.left <= header.remaining
        /\ Bounded(tx.before.header) /\ tx.before.header.extension_len = header.extension_len
    BY DEF Typed, Draw, Idle
  <1>2. header.remaining \in 1..MAX_ITEMS /\ tx.left \in 1..MAX_ITEMS /\ tx.num_nfts \in 0..MAX_ITEMS
    BY <1>1, ItemsAssumption DEF Header, Tx
  <1>3. last \in Items
    BY <1>2, ItemsAssumption DEF Items
  <1>4. header' = [header EXCEPT !.remaining = last] /\ tx' = [tx EXCEPT !.left = @ - 1]
    BY DEF Draw
  <1>5. indices' = shuffled /\ minted' = Append(minted, nft) /\ owed' = owed + header.price
    BY DEF Draw
  <1>6. UNCHANGED <<status, config, funds, received, clock, lines, restocked>>
    BY DEF Draw
  <1>7. shuffled \in [Items -> Items \cup {0}]
    BY <1>3 DEF Typed, Swapped
  <1>8. index \in Items
    <2>1. index \in Items \cup {0}
      BY <1>3, <1>7 DEF ZeroNftIndex
    <2>2. 0 \in Items
      BY <1>3, ItemsAssumption DEF Items
    <2> QED
      BY <2>1, <2>2
  <1> HIDE DEF shuffled, index
  <1>9. nft \in Nft
    <2>1. ConfigLine(index) \in Seq(Nat)
      BY <1>1, <1>8, ConfigLineType
    <2>2. tx.payer \in Key
      BY <1>1 DEF Tx
    <2> QED
      BY <1>8, <2>1, <2>2 DEF Nft
  <1>10. header' \in Header /\ Bounded(header') /\ header'.extension_len = header.extension_len
         /\ header'.remaining = last
    <2>1. last \in 0..MAX_ITEMS /\ last <= header.remaining /\ header.total_items_added \in Nat
      BY <1>1, <1>2, ItemsAssumption, HeaderNumbers
    <2> HIDE DEF last
    <2> QED
      BY <1>1, <1>2, <1>4, <2>1 DEF Header, Bounded
  <1>11. /\ tx' \in Tx /\ tx'.left = tx.left - 1 /\ tx'.num_nfts = tx.num_nfts
         /\ tx'.before = tx.before
    <2>1. tx.left - 1 \in 0..MAX_ITEMS
      BY <1>2, ItemsAssumption
    <2> QED
      BY <1>1, <1>4, <2>1 DEF Tx
  <1>12. tx'.left <= tx'.num_nfts /\ tx'.left <= header'.remaining
    BY <1>1, <1>2, <1>10, <1>11, ItemsAssumption
  <1>13. owed' \in Nat
    <2>1. header.price \in Nat /\ owed \in Nat
      BY <1>1, HeaderNumbers DEF Typed
    <2> QED
      BY <1>5, <2>1
  <1>14. minted' \in Seq(Nft)
    <2> HIDE DEF nft
    <2> QED
      BY <1>5, <1>9 DEF Typed
  <1>15. restocked' \in 0..Len(minted') /\ restocked' <= Len(tx'.before.minted)
    <2>1. minted \in Seq(Nft) /\ restocked \in 0..Len(minted) /\ restocked <= Len(tx.before.minted)
      BY DEF Typed, Draw, Idle
    <2>2. Len(minted') = Len(minted) + 1 /\ Len(minted) \in Nat
      BY <1>5, <2>1
    <2> QED
      BY <1>6, <1>11, <2>1, <2>2
  <1> HIDE DEF last, nft
  <1> QED
    BY <1>1, <1>5, <1>6, <1>7, <1>10, <1>11, <1>12, <1>13, <1>14, <1>15 DEF Typed

\* The payment keeps the types: nobody pays more than he has.
LEMMA PayTyped ==
  ASSUME Typed, Pay
  PROVE  Typed'
  <1>1. header \in Header /\ tx \in Tx
    BY DEF Typed, Pay, Idle
  <1>2. Charge(tx) \in Nat
    <2>1. header.price \in Nat /\ tx.num_nfts \in Nat
      BY <1>1, HeaderNumbers, ItemsAssumption DEF Tx
    <2> QED
      BY <2>1 DEF Charge
  <1>3. funds' \in [Key -> Nat]
    <2>1. tx.payer \in Key /\ Charge(tx) <= funds[tx.payer]
      BY <1>1 DEF Tx, Pay, PaymentAccepted
    <2>2. funds[tx.payer] - Charge(tx) \in Nat
      BY <1>2, <2>1 DEF Typed
    <2> QED
      BY <2>2 DEF Typed, Pay
  <1>4. received' \in Nat
    BY <1>2 DEF Typed, Pay
  <1> QED
    BY <1>3, <1>4 DEF Typed, Pay, history

\* A transaction that fails puts back accounts that had their types.
LEMMA FailTyped ==
  ASSUME Typed, Fail
  PROVE  Typed'
  <1>1. tx \in Tx /\ Bounded(tx.before.header) /\ status = "live"
        /\ tx.before.header.extension_len = header.extension_len
    BY DEF Typed, Fail, Idle
  <1>2. tx.before \in Snapshot
    BY <1>1 DEF Tx
  <1>3. restocked \in 0..Len(tx.before.minted)
    <2>1. restocked \in 0..Len(minted) /\ minted \in Seq(Nft) /\ restocked <= Len(tx.before.minted)
      BY DEF Typed, Fail, Idle
    <2>2. Len(minted) \in Nat /\ Len(tx.before.minted) \in Nat
      BY <1>2, <2>1 DEF Snapshot
    <2> QED
      BY <2>1, <2>2
  <1> QED
    BY <1>1, <1>2, <1>3 DEF Typed, Fail, Snapshot

\* The batches of lines that instructions are called with.
LEMMA BatchesType ==
  ASSUME NEW b \in Batches
  PROVE  b \in Seq(Line)
  <1>1. CASE \E l \in Line : b = <<l>>
    BY <1>1
  <1>2. CASE \E l, m \in Line : b = <<l, m>>
    BY <1>2
  <1> QED
    BY <1>1, <1>2 DEF Batches

\* Every step keeps the types.
LEMMA StepTyped ==
  ASSUME Typed, [Next]_vars
  PROVE  Typed'
  <1>1. ASSUME UNCHANGED vars PROVE Typed'
    BY <1>1 DEF Typed, vars, history
  <1>2. \A b \in Batches : b \in Seq(Line)
    BY BatchesType
  <1>3. ASSUME NEW authority \in Key, destroy(authority) PROVE Typed'
    BY <1>3 DEF Typed, destroy, Authorized, Idle, history
  <1>4. ASSUME Tick PROVE Typed'
    BY <1>4 DEF Typed, Tick, history
  <1> QED
    BY <1>1, <1>2, <1>3, <1>4, InitializeTyped, ChunkTyped, AddLinesTyped, UpdateLinesTyped,
       UpdateHeaderTyped, BeginTyped, DrawTyped, PayTyped, FailTyped DEF Next

\* Counters stay inside the account, the indices stay items, and the bytes of the
\* config lines fill the account, whatever its size: find_and_mint_compressed_nfts
\* never counts below zero and add_config_lines never above max_items.
THEOREM TypeCorrect == Spec => []TypeOK
  <1>1. Typed => TypeOK
    BY DEF Typed, TypeOK, Header
  <1>2. Typed /\ [Next]_vars => Typed'
    BY StepTyped
  <1> QED
    BY InitTyped, <1>1, <1>2, PTL DEF Spec

-----------------------------------------------------------------------------
(* The receiver is paid for every NFT. *)

\* Multiplication by one more.
LEMMA OneMore ==
  ASSUME NEW a \in Nat, NEW k \in Int
  PROVE  a * k \in Int /\ a * (k + 1) = a * k + a
  OBVIOUS

\* Inside a transaction the NFTs drawn so far are owed, at the price of the header,
\* on top of what was owed and paid before it.
Owing ==
  /\ tx = <<>> => received = owed
  /\ tx # <<>> => /\ received = tx.before.owed
                  /\ owed = tx.before.owed + header.price * (tx.num_nfts - tx.left)

\* A draw adds one NFT to what is owed.
LEMMA DrawOwing ==
  ASSUME Typed, Owing, NEW selected \in Items, Draw(selected)
  PROVE  Owing'
  <1>1. header \in Header /\ tx \in Tx /\ tx # <<>> /\ owed \in Nat
    BY DEF Typed, Draw, Idle
  <1>2. header.price \in Nat /\ tx.num_nfts \in Nat /\ tx.left \in Nat
    BY <1>1, HeaderNumbers, ItemsAssumption DEF Tx
  <1>3. tx.before.owed \in Nat
    BY <1>1 DEF Tx, Snapshot
  <1>4. /\ tx'.left = tx.left - 1 /\ tx'.num_nfts = tx.num_nfts /\ tx'.before = tx.before
        /\ header'.price = header.price
    BY <1>1 DEF Draw, Tx, Header
  <1>5. owed' = owed + header.price /\ received' = received
    BY DEF Draw
  <1>6. owed = tx.before.owed + header.price * (tx.num_nfts - tx.left) /\ received = tx.before.owed
    BY <1>1 DEF Owing
  <1>7. owed' = tx.before.owed + header.price * (tx.num_nfts - (tx.left - 1))
    <2> DEFINE drawn == tx.num_nfts - tx.left
    <2>1. drawn \in Int /\ tx.num_nfts - (tx.left - 1) = drawn + 1
      BY <1>2
    <2>2. owed = tx.before.owed + header.price * drawn
      BY <1>6
    <2> HIDE DEF drawn
    <2>3. /\ header.price * drawn \in Int
          /\ header.price * (drawn + 1) = header.price * drawn + header.price
      BY <1>2, <2>1, OneMore
    <2> QED
      BY <1>2, <1>3, <1>5, <2>1, <2>2, <2>3
  <1>8. tx' # <<>>
    BY <1>1, <1>4 DEF Draw
  <1> QED
    BY <1>4, <1>5, <1>6, <1>7, <1>8 DEF Owing

\* The payment settles what the draws added.
LEMMA PayOwing ==
  ASSUME Typed, Owing, Pay
  PROVE  Owing'
  <1>1. header \in Header /\ tx \in Tx /\ tx # <<>> /\ tx.left = 0
    BY DEF Typed, Pay, Idle
  <1>2. header.price \in Nat /\ tx.num_nfts \in Nat
    BY <1>1, HeaderNumbers, ItemsAssumption DEF Tx
  <1>3. received = tx.before.owed /\ owed = tx.before.owed + header.price * (tx.num_nfts - tx.left)
    BY <1>1 DEF Owing
  <1>4. tx.num_nfts - tx.left = tx.num_nfts
    BY <1>1, <1>2
  <1>5. received' = owed'
    BY <1>3, <1>4 DEF Pay, Charge, history
  <1> QED
    BY <1>5 DEF Owing, Pay

\* Every step keeps the account of what is owed and received.
LEMMA StepOwing ==
  ASSUME Typed, Owing, [Next]_vars
  PROVE  Owing'
  <1>1. ASSUME UNCHANGED vars PROVE Owing'
    BY <1>1 DEF Owing, vars, history
  <1>2. ASSUME tx = <<>>, tx' = <<>>, UNCHANGED <<received, owed>> PROVE Owing'
    BY <1>2 DEF Owing
  <1>3. ASSUME NEW authority \in Key, NEW price, NEW date, NEW mint, NEW receiver, NEW method,
               NEW size, NEW len,
               initialize_gumball_machine(authority, price, date, mint, receiver, method, size, len)
        PROVE  Owing'
    BY <1>2, <1>3 DEF initialize_gumball_machine, Typed, history
  <1>4. ASSUME NEW authority \in Key, initialize_indices_chunk(authority) PROVE Owing'
    BY <1>2, <1>4 DEF initialize_indices_chunk, Authorized, Idle
  <1>5. ASSUME NEW authority \in Key, NEW new_lines, add_config_lines(authority, new_lines)
        PROVE  Owing'
    BY <1>2, <1>5 DEF add_config_lines, Authorized, Idle
  <1>6. ASSUME NEW authority \in Key, NEW starting_line, NEW new_lines,
               update_config_lines(authority, starting_line, new_lines)
        PROVE  Owing'
    BY <1>2, <1>6 DEF update_config_lines, Authorized, Idle
  <1>7. ASSUME NEW authority \in Key, NEW changed, update_header_metadata(authority, changed)
        PROVE  Owing'
    BY <1>2, <1>7 DEF update_header_metadata, Authorized, Idle, history
  <1>8. ASSUME NEW authority \in Key, destroy(authority) PROVE Owing'
    BY <1>2, <1>8 DEF destroy, Authorized, Idle, history
  <1>9. ASSUME NEW payer, NEW instruction, NEW programs, NEW num_items \in 0..MAX_ITEMS,
               BeginDispense(payer, instruction, programs, num_items)
        PROVE  Owing'
    <2> DEFINE n == Least(Greatest(num_items, 1), header.remaining)
    <2>1. header \in Header /\ owed \in Nat /\ received = owed
      BY <1>9 DEF BeginDispense, Typed, Owing, Idle
    <2>2. n \in Nat /\ header.price \in Nat
      BY <2>1, HeaderNumbers, ItemsAssumption DEF Least, Greatest
    <2> HIDE DEF n
    <2>3. /\ tx'.before.owed = owed /\ tx'.num_nfts = n /\ tx'.left = n
          /\ UNCHANGED <<header, received, owed>>
      BY <1>9 DEF BeginDispense, history, n
    <2>4. owed = owed + header.price * (n - n)
      BY <2>1, <2>2
    <2> QED
      BY <2>1, <2>3, <2>4 DEF Owing
  <1>10. ASSUME Fail PROVE Owing'
    BY <1>10 DEF Fail, Owing, Idle
  <1>11. ASSUME Tick PROVE Owing'
    BY <1>11 DEF Tick, Owing, history
  <1> QED
    BY <1>1, <1>3, <1>4, <1>5, <1>6, <1>7, <1>8, <1>9, <1>10, <1>11, DrawOwing, PayOwing DEF Next

\* Whatever is drawn, however few NFTs are left and wherever a transaction fails,
\* between transactions the receiver has the price of every NFT minted and nothing
\* else: find_and_mint_compressed_nfts returns the number that dispense_nft_sol and
\* dispense_nft_token charge for.
THEOREM ReceiverIsPaid == Spec => []PaidPerNft
  <1>1. Init => Owing
    BY DEF Init, Owing
  <1>2. Typed /\ Owing /\ [Next]_vars => Typed' /\ Owing'
    BY StepTyped, StepOwing
  <1>3. Owing => PaidPerNft
    BY DEF Owing, PaidPerNft, Idle
  <1> QED
    BY InitTyped, <1>1, <1>2, <1>3, PTL DEF Spec

-----------------------------------------------------------------------------
(* Every NFT of the stock is dispensed once or still there. *)

Size(h) == IF h.extension_len = 0 THEN MAX_ITEMS ELSE h.total_items_added

\* The first n positions hold the numbers below n, each once.
Permuted(idx, n) ==
  /\ \A i \in 0..n-1 : idx[i] \in 0..n-1
  /\ \A i, j \in 0..n-1 : i # j => idx[i] # idx[j]
  /\ \A v \in 0..n-1 : \E i \in 0..n-1 : idx[i] = v

\* Nothing is dispensed before the indices are complete, and they are in order until
\* the first draw; indices beyond the stock stay in order.  What was dispensed since
\* stock was last added, when r NFTs had been minted, stands behind what is left, the
\* last drawn first; and unless stock was added late it is all of the stock.
Stocked(h, idx, m, r) ==
  /\ h.smallest_uninitialized_index < MAX_ITEMS => m = <<>>
  /\ m = <<>> => \A i \in 0 .. h.smallest_uninitialized_index - 1 : idx[i] = i
  /\ r = 0 /\ (h.extension_len > 0 \/ h.smallest_uninitialized_index = MAX_ITEMS) =>
       Len(m) + h.remaining = Size(h)
  /\ h.smallest_uninitialized_index = MAX_ITEMS =>
       /\ Permuted(idx, Size(h))
       /\ \A i \in Size(h) .. MAX_ITEMS - 1 : idx[i] = i
       /\ Len(m) - r + h.remaining <= Size(h)
       /\ \A n \in r+1..Len(m) : m[n].index = idx[(Len(m) + h.remaining) - n]

\* A transaction can be taken back to where the stock is right as well.
Stock ==
  status # "zeroed" =>
    /\ Stocked(header, indices, minted, restocked)
    /\ tx # <<>> => /\ header.smallest_uninitialized_index = MAX_ITEMS
                    /\ Stocked(tx.before.header, tx.before.indices, tx.before.minted, restocked)

\* The items of a machine are within the bound.
LEMMA SizeType ==
  ASSUME NEW h \in Header
  PROVE  Size(h) \in 0..MAX_ITEMS
  BY ItemsAssumption DEF Size, Header

\* Before the first draw the stock is complete if the indices are in order.
LEMMA StockedInOrder ==
  ASSUME NEW h \in Header, NEW idx,
         \A i \in 0 .. h.smallest_uninitialized_index - 1 : idx[i] = i,
         h.extension_len > 0 \/ h.smallest_uninitialized_index = MAX_ITEMS => h.remaining = Size(h)
  PROVE  Stocked(h, idx, <<>>, 0)
  <1>1. Size(h) \in Nat /\ Size(h) <= MAX_ITEMS /\ MAX_ITEMS \in Nat
    BY SizeType, ItemsAssumption
  <1>2. h.smallest_uninitialized_index \in Nat /\ h.remaining \in Nat
    BY HeaderNumbers
  <1>3. ASSUME h.smallest_uninitialized_index = MAX_ITEMS PROVE Permuted(idx, Size(h))
    <2>1. \A i \in 0 .. Size(h) - 1 : idx[i] = i
      BY <1>1, <1>3
    <2> QED
      BY <2>1 DEF Permuted
  <1>4. Len(<<>>) = 0 /\ 0+1..Len(<<>>) = {}
    OBVIOUS
  <1>5. ASSUME h.smallest_uninitialized_index = MAX_ITEMS
        PROVE  /\ \A i \in Size(h) .. MAX_ITEMS - 1 : idx[i] = i
               /\ Len(<<>>) - 0 + h.remaining <= Size(h)
    BY <1>1, <1>2, <1>4, <1>5
  <1> QED
    BY <1>2, <1>3, <1>4, <1>5 DEF Stocked

\* A stock is told from four fields of the header.
LEMMA StockedFields ==
  ASSUME NEW h, NEW g, NEW idx, NEW m, NEW r, Stocked(h, idx, m, r),
         g.extension_len = h.extension_len, g.remaining = h.remaining,
         g.total_items_added = h.total_items_added,
         g.smallest_uninitialized_index = h.smallest_uninitialized_index
  PROVE  Stocked(g, idx, m, r)
  BY DEF Stocked, Size

\* Positions in order behind a permutation make it a longer one.
LEMMA PermutedGrows ==
  ASSUME NEW a \in Nat, NEW b \in Nat, a <= b, NEW idx, Permuted(idx, a),
         \A i \in a..b-1 : idx[i] = i
  PROVE  Permuted(idx, b)
  <1>1. \A i \in 0..b-1 : i \in 0..a-1 \/ (i \in a..b-1 /\ idx[i] = i)
    OBVIOUS
  <1>2. \A i \in 0..a-1 : i \in 0..b-1 /\ idx[i] \in 0..a-1
    BY DEF Permuted
  <1>3. \A i \in 0..b-1 : idx[i] \in 0..b-1
    BY <1>1, <1>2
  <1>4. ASSUME NEW i \in 0..b-1, NEW j \in 0..b-1, i # j PROVE idx[i] # idx[j]
    <2>1. CASE i \in 0..a-1 /\ j \in 0..a-1
      BY <1>4, <2>1 DEF Permuted
    <2>2. CASE i \notin 0..a-1 \/ j \notin 0..a-1
      BY <1>1, <1>2, <1>4, <2>2
    <2> QED
      BY <2>1, <2>2
  <1>5. ASSUME NEW v \in 0..b-1 PROVE \E i \in 0..b-1 : idx[i] = v
    <2>1. CASE v \in 0..a-1
      BY <1>2, <2>1 DEF Permuted
    <2>2. CASE v \notin 0..a-1
      BY <1>1, <2>2
    <2> QED
      BY <2>1, <2>2
  <1> QED
    BY <1>3, <1>4, <1>5 DEF Permuted

\* An exchange of two positions.
LEMMA SwapPermutes ==
  ASSUME NEW n \in Nat, NEW idx \in [Items -> Items \cup {0}], Permuted(idx, n), n <= MAX_ITEMS,
         NEW a \in 0..n-1, NEW b \in 0..n-1
  PROVE  Permuted([idx EXCEPT ![a] = idx[b], ![b] = idx[a]], n)
  <1> DEFINE new == [idx EXCEPT ![a] = idx[b], ![b] = idx[a]]
             place == [i \in 0..n-1 |-> IF i = a THEN b ELSE IF i = b THEN a ELSE i]
  <1>1. \A i \in 0..n-1 : i \in Items
    BY ItemsAssumption DEF Items
  <1>2. \A i \in 0..n-1 : place[i] \in 0..n-1 /\ new[i] = idx[place[i]]
    BY <1>1
  <1>3. \A i, j \in 0..n-1 : i # j => place[i] # place[j]
    OBVIOUS
  <1>4. \A i \in 0..n-1 : place[place[i]] = i
    OBVIOUS
  <1> HIDE DEF new, place
  <1>5. Permuted(new, n)
    <2>1. \A i \in 0..n-1 : new[i] \in 0..n-1
      BY <1>2 DEF Permuted
    <2>2. \A i, j \in 0..n-1 : i # j => new[i] # new[j]
      BY <1>2, <1>3 DEF Permuted
    <2>3. ASSUME NEW v \in 0..n-1 PROVE \E i \in 0..n-1 : new[i] = v
      <3>1. PICK i \in 0..n-1 : idx[i] = v
        BY DEF Permuted
      <3>2. place[i] \in 0..n-1 /\ new[place[i]] = v
        BY <1>2, <1>4, <3>1
      <3> QED
        BY <3>2
    <2> QED
      BY <2>1, <2>2, <2>3 DEF Permuted
  <1> QED
    BY <1>5 DEF new

\* A draw moves the NFT selected behind what is left.
LEMMA DrawStocked ==
  ASSUME Typed, NEW selected \in Items, Draw(selected),
         Stocked(header, indices, minted, restocked),
         header.smallest_uninitialized_index = MAX_ITEMS
  PROVE  /\ Stocked(header, indices, minted, restocked)'
         /\ header'.smallest_uninitialized_index = MAX_ITEMS
  <1> DEFINE last == header.remaining - 1
             size == Size(header)
             count == Len(minted)
             sum == count + header.remaining
  <1>1. header \in Header /\ minted \in Seq(Nft) /\ indices \in [Items -> Items \cup {0}]
        /\ restocked \in 0..count
    BY DEF Typed, Draw, Idle
  <1>2. /\ header' = [header EXCEPT !.remaining = last] /\ indices' = Swapped(selected, last)
        /\ \E line, owner :
             minted' = Append(minted, [index |-> indices'[last], line |-> line, owner |-> owner])
        /\ selected < header.remaining /\ restocked' = restocked
    BY DEF Draw, ZeroNftIndex
  <1>3. PICK nft : minted' = Append(minted, nft) /\ nft.index = indices'[last]
    BY <1>2
  <1>4. size \in Nat /\ size <= MAX_ITEMS /\ count \in Nat /\ header.remaining \in Nat /\ selected \in Nat
        /\ restocked \in Nat /\ restocked <= count
    BY <1>1, SizeType, HeaderNumbers, ItemsAssumption, ItemsAreNumbers
  <1>5. /\ restocked = 0 => sum = size
        /\ sum - restocked <= size /\ Permuted(indices, size)
        /\ \A i \in size .. MAX_ITEMS - 1 : indices[i] = i
        /\ \A n \in restocked+1..count : minted[n].index = indices[sum - n]
    <2>1. /\ Len(minted) - restocked + header.remaining <= Size(header)
          /\ restocked = 0 => Len(minted) + header.remaining = Size(header)
          /\ Permuted(indices, Size(header))
          /\ \A i \in Size(header) .. MAX_ITEMS - 1 : indices[i] = i
          /\ \A n \in restocked+1..Len(minted) :
               minted[n].index = indices[(Len(minted) + header.remaining) - n]
      BY DEF Stocked
    <2>2. sum - restocked <= size
      BY <1>4, <2>1
    <2> QED
      BY <2>1, <2>2
  <1>6. /\ header'.remaining = last /\ header'.extension_len = header.extension_len
        /\ header'.total_items_added = header.total_items_added
        /\ header'.smallest_uninitialized_index = MAX_ITEMS
    BY <1>1, <1>2 DEF Header
  <1>7. Size(header') = size
    BY <1>6 DEF Size
  <1>8. /\ Len(minted') = count + 1 /\ minted'[count + 1] = nft /\ minted' # <<>>
        /\ \A n \in 1..count : minted'[n] = minted[n]
    BY <1>1, <1>3
  <1> HIDE DEF size, count
  <1>9. last \in 0..size-1 /\ selected \in 0..size-1 /\ last = sum - (count + 1)
    BY <1>2, <1>4, <1>5
  <1>10. Permuted(indices', size) /\ \A i \in size .. MAX_ITEMS - 1 : indices'[i] = i
    <2>1. Permuted(indices', size)
      BY <1>1, <1>2, <1>4, <1>5, <1>9, SwapPermutes DEF Swapped
    <2>2. ASSUME NEW i \in size .. MAX_ITEMS - 1 PROVE indices'[i] = i
      <3>1. i \in Items /\ i # last /\ i # selected
        BY <1>4, <1>9, ItemsAssumption DEF Items
      <3> QED
        BY <1>1, <1>2, <1>5, <3>1 DEF Swapped
    <2> QED
      BY <2>1, <2>2
  <1>11. Len(minted') + header'.remaining = sum
         /\ Len(minted') - restocked + header'.remaining <= size
    BY <1>4, <1>5, <1>6, <1>8
  <1>12. ASSUME NEW n \in restocked+1..count+1 PROVE minted'[n].index = indices'[sum - n]
    <2>1. CASE n = count + 1
      BY <1>3, <1>8, <1>9, <2>1
    <2>2. CASE n # count + 1
      <3>1. n \in restocked+1..count /\ n \in 1..count
        BY <1>4, <2>2
      <3>2. sum - n \in Items /\ sum - n # last /\ sum - n # selected
        <4>1. selected <= last /\ last = sum - (count + 1) /\ sum - restocked <= size /\ sum \in Nat
          BY <1>2, <1>4, <1>5, <1>9
        <4> HIDE DEF last, sum
        <4>2. last \in Nat /\ n \in Nat /\ n <= count /\ n >= restocked + 1
          BY <1>4, <1>9, <3>1 DEF last
        <4> QED
          BY <1>4, <4>1, <4>2, ItemsAssumption DEF Items
      <3>3. indices'[sum - n] = indices[sum - n]
        BY <1>1, <1>2, <3>2 DEF Swapped
      <3> QED
        BY <1>5, <1>8, <3>1, <3>3
    <2> QED
      BY <2>1, <2>2
  <1> HIDE DEF last, sum
  <1>13. restocked = 0 => Len(minted') + header'.remaining = size
    BY <1>5, <1>11
  <1>14. \A n \in restocked+1..Len(minted') :
           minted'[n].index = indices'[(Len(minted') + header'.remaining) - n]
    BY <1>8, <1>11, <1>12
  <1>15. ~(header'.smallest_uninitialized_index < MAX_ITEMS)
    BY <1>6, ItemsAssumption
  <1> QED
    BY <1>2, <1>6, <1>7, <1>8, <1>10, <1>11, <1>13, <1>14, <1>15 DEF Stocked

\* A chunk of indices; called again, it puts every NFT of a machine without config
\* lines up for sale.
LEMMA ChunkStocked ==
  ASSUME Typed, NEW authority \in Key, initialize_indices_chunk(authority),
         Stocked(header, indices, minted, restocked)
  PROVE  Stocked(header, indices, minted, restocked)'
  <1> DEFINE first == header.smallest_uninitialized_index
             next == Least(first + CHUNK, MAX_ITEMS)
  <1>1. header \in Header /\ header' \in Header /\ indices \in [Items -> Items \cup {0}]
        /\ minted \in Seq(Nft) /\ restocked \in 0..Len(minted)
    BY ChunkTyped DEF initialize_indices_chunk, Authorized, Typed
  <1>2. /\ header'.smallest_uninitialized_index = next
        /\ header'.extension_len = header.extension_len
        /\ header'.total_items_added = header.total_items_added
        /\ header'.remaining = IF header.extension_len = 0 THEN MAX_ITEMS ELSE header.remaining
        /\ indices' = [i \in Items |-> IF first <= i /\ i < next THEN i ELSE indices[i]]
        /\ minted' = minted
        /\ restocked' = IF header.extension_len = 0 THEN Len(minted) ELSE restocked
    BY <1>1 DEF initialize_indices_chunk, Header
  <1>3. Size(header') = Size(header)
    BY <1>2 DEF Size
  <1>4. first \in 0..MAX_ITEMS /\ next \in 0..MAX_ITEMS /\ first <= next /\ first + CHUNK > first
    BY <1>1, ItemsAssumption, ChunkAssumption DEF Header, Least
  <1>5. header.extension_len \in Nat
    BY <1>1, HeaderNumbers
  <1>6. CASE minted = <<>>
    <2>1. \A i \in 0..first-1 : indices[i] = i
      BY <1>6 DEF Stocked
    <2>2. ASSUME NEW i \in 0..next-1 PROVE indices'[i] = i
      <3>1. i \in Items
        BY <1>4, ItemsAssumption DEF Items
      <3>2. i < next /\ (i < first => i \in 0..first-1)
        BY <1>4, ItemsAssumption
      <3> HIDE DEF first, next
      <3> QED
        BY <1>2, <1>4, <2>1, <3>1, <3>2, ItemsAssumption
    <2>3. Len(minted) = 0 /\ restocked = 0 /\ restocked' = 0 /\ header.remaining \in Nat
      BY <1>1, <1>2, <1>6, HeaderNumbers
    <2>4. header.extension_len > 0 => header.remaining = Size(header)
      <3>1. ASSUME header.extension_len > 0 PROVE Len(minted) + header.remaining = Size(header)
        BY <2>3, <3>1 DEF Stocked
      <3> QED
        BY <2>3, <3>1
    <2>5. header'.remaining = Size(header')
      BY <1>2, <1>5, <2>4 DEF Size
    <2> HIDE DEF next, first
    <2>6. Stocked(header', indices', <<>>, 0)
      BY <1>1, <1>2, <2>2, <2>5, StockedInOrder
    <2> QED
      BY <1>2, <1>6, <2>3, <2>6
  <1>7. CASE minted # <<>>
    <2>1. first = MAX_ITEMS
      BY <1>4, <1>7, ItemsAssumption DEF Stocked
    <2>2. next = first
      BY <2>1, <1>4, ItemsAssumption
    <2>3. indices' = indices
      <3>1. \A i \in Items : ~(first <= i /\ i < next)
        BY <1>4, <2>2, ItemsAssumption DEF Items
      <3> HIDE DEF first, next
      <3> QED
        BY <1>1, <1>2, <3>1
    <2> HIDE DEF first, next
    <2>4. CASE header.extension_len # 0
      <3>1. Stocked(header', indices, minted, restocked)
        BY <1>2, <2>1, <2>2, <2>4, StockedFields DEF first
      <3> QED
        BY <1>2, <2>3, <2>4, <3>1
    <2>5. CASE header.extension_len = 0
      <3> DEFINE r == Len(minted)
      <3>1. r \in Nat /\ r # 0 /\ MAX_ITEMS \in Nat
        BY <1>1, <1>7, ItemsAssumption
      <3>2. Size(header') = MAX_ITEMS /\ header'.remaining = MAX_ITEMS
            /\ header'.smallest_uninitialized_index = MAX_ITEMS
        BY <1>2, <2>1, <2>2, <2>5 DEF Size
      <3>3. /\ Permuted(indices, MAX_ITEMS)
            /\ \A i \in MAX_ITEMS .. MAX_ITEMS - 1 : indices[i] = i
        BY <1>3, <2>1, <3>2 DEF Stocked, first
      <3>4. Len(minted) - r + MAX_ITEMS <= MAX_ITEMS /\ r + 1 .. Len(minted) = {}
        BY <3>1
      <3> HIDE DEF r
      <3>5. Stocked(header', indices, minted, r)
        BY <1>7, <3>1, <3>2, <3>3, <3>4 DEF Stocked
      <3> QED
        BY <1>2, <2>3, <2>5, <3>5 DEF r
    <2> QED
      BY <2>4, <2>5
  <1> QED
    BY <1>6, <1>7

\* Config lines added, before the first NFT is drawn or later: as many more positions
\* are for sale.
LEMMA AddLinesStocked ==
  ASSUME Typed, NEW authority \in Key, NEW new_lines \in Seq(Line),
         add_config_lines(authority, new_lines), Stocked(header, indices, minted, restocked)
  PROVE  Stocked(header, indices, minted, restocked)'
  <1>1. header \in Header /\ header' \in Header /\ Bounded(header)
        /\ minted \in Seq(Nft) /\ restocked \in 0..Len(minted)
    BY AddLinesTyped DEF add_config_lines, Authorized, Typed
  <1>2. /\ header'.smallest_uninitialized_index = header.smallest_uninitialized_index
        /\ header'.extension_len = header.extension_len /\ header.extension_len > 0
        /\ header'.total_items_added = header.total_items_added + Len(new_lines)
        /\ header'.remaining = header.remaining + Len(new_lines)
        /\ indices' = indices /\ minted' = minted /\ restocked' = Len(minted)
    BY <1>1 DEF add_config_lines, Header
  <1>3. /\ header.extension_len \in Nat /\ header.remaining \in Nat /\ Len(new_lines) \in Nat
        /\ header.total_items_added \in Nat
    BY <1>1, HeaderNumbers
  <1>4. CASE minted = <<>>
    <2>1. Len(minted) = 0 /\ restocked = 0
      BY <1>1, <1>4
    <2>2. Len(minted) + header.remaining = Size(header)
      BY <1>2, <2>1 DEF Stocked
    <2>3. header'.remaining = Size(header')
      BY <1>2, <1>3, <2>1, <2>2 DEF Size
    <2>4. \A i \in 0 .. header.smallest_uninitialized_index - 1 : indices[i] = i
      BY <1>4 DEF Stocked
    <2>5. Stocked(header', indices', <<>>, 0)
      BY <1>1, <1>2, <2>3, <2>4, StockedInOrder
    <2> QED
      BY <1>2, <1>4, <2>1, <2>5
  <1>5. CASE minted # <<>>
    <2> DEFINE old == Size(header)
               new == Size(header')
               r == Len(minted)
    <2>1. r \in Nat /\ r # 0 /\ MAX_ITEMS \in Nat
      BY <1>1, <1>5, ItemsAssumption
    <2>2. old \in Nat /\ new \in Nat /\ old <= new /\ new <= MAX_ITEMS
          /\ header'.remaining <= new
      <3>1. old = header.total_items_added /\ new = header'.total_items_added
        BY <1>2, <1>3 DEF Size
      <3>2. new \in 0..MAX_ITEMS
        BY <1>1, SizeType
      <3> QED
        BY <1>1, <1>2, <1>3, <2>1, <3>1, <3>2 DEF Bounded
    <2>3. header.smallest_uninitialized_index = MAX_ITEMS
      BY <1>1, <1>5, ItemsAssumption DEF Stocked, Header
    <2>4. Permuted(indices, old) /\ \A i \in old .. MAX_ITEMS - 1 : indices[i] = i
      BY <2>3 DEF Stocked
    <2>5. header'.remaining \in Nat
      BY <1>1, HeaderNumbers
    <2> HIDE DEF old, new
    <2>6. /\ \A i \in old .. new - 1 : indices[i] = i
          /\ \A i \in new .. MAX_ITEMS - 1 : indices[i] = i
      BY <2>1, <2>2, <2>4
    <2>7. Permuted(indices, new)
      BY <2>2, <2>4, <2>6, PermutedGrows
    <2>8. Len(minted) - r + header'.remaining <= new /\ r + 1 .. Len(minted) = {}
      BY <2>1, <2>2, <2>5
    <2> HIDE DEF r
    <2>9. Stocked(header', indices, minted, r)
      BY <1>2, <1>5, <2>1, <2>3, <2>6, <2>7, <2>8 DEF Stocked, new
    <2> QED
      BY <1>2, <2>9 DEF r
  <1> QED
    BY <1>4, <1>5

\* Every step keeps the stock, also that of the state to go back to.
LEMMA StepStock ==
  ASSUME Typed, Stock, [Next]_vars
  PROVE  Stock'
  <1> DEFINE Back == Stocked(tx.before.header, tx.before.indices, tx.before.minted, restocked)
             Goal == /\ Stocked(header, indices, minted, restocked)'
                     /\ tx' # <<>> => header'.smallest_uninitialized_index = MAX_ITEMS /\ Back'
  <1> SUFFICES ASSUME status' # "zeroed" PROVE Goal
    BY DEF Stock
  <1>1. ASSUME UNCHANGED <<status, header, indices, minted, tx, restocked>> PROVE Goal
    BY <1>1 DEF Stock
  <1>2. ASSUME NEW authority \in Key, NEW price \in Price, NEW date \in Date, NEW mint \in Mint,
               NEW receiver \in Receiver, NEW method \in EncodeMethod, NEW size \in 0..MAX_ITEMS,
               NEW len \in ExtensionLens,
               initialize_gumball_machine(authority, price, date, mint, receiver, method, size, len)
        PROVE  Goal
    <2>1. header' \in Header /\ minted' = <<>> /\ tx' = <<>> /\ restocked' = 0
      <3>1. minted = <<>> /\ tx = <<>> /\ restocked \in 0..Len(minted)
        BY <1>2 DEF initialize_gumball_machine, Typed
      <3>2. restocked = 0
        BY <3>1
      <3> QED
        BY <1>2, <3>1, <3>2, InitializeTyped DEF initialize_gumball_machine, Typed, history
    <2>2. /\ header'.smallest_uninitialized_index = 0 /\ header'.remaining = 0
          /\ header'.total_items_added = 0 /\ header'.extension_len = len
      BY <1>2 DEF initialize_gumball_machine
    <2>3. len \in Nat
      BY ItemsAssumption
    <2>4. \A i \in 0 .. header'.smallest_uninitialized_index - 1 : indices'[i] = i
      BY <2>2
    <2>5. len > 0 \/ 0 = MAX_ITEMS => 0 = Size(header')
      BY <2>2, <2>3 DEF Size
    <2>6. Stocked(header', indices', <<>>, 0)
      BY <2>1, <2>2, <2>4, <2>5, StockedInOrder
    <2> QED
      BY <2>1, <2>6
  <1>3. ASSUME NEW authority \in Key, initialize_indices_chunk(authority) PROVE Goal
    BY <1>3, ChunkStocked DEF Stock, initialize_indices_chunk, Authorized, Idle
  <1>4. ASSUME NEW authority \in Key, NEW new_lines \in Seq(Line), add_config_lines(authority, new_lines)
        PROVE  Goal
    BY <1>4, AddLinesStocked DEF Stock, add_config_lines, Authorized, Idle
  <1>5. ASSUME NEW authority \in Key, NEW starting_line, NEW new_lines,
               update_config_lines(authority, starting_line, new_lines)
        PROVE  Goal
    BY <1>1, <1>5 DEF update_config_lines
  <1>6. ASSUME NEW authority \in Key, NEW changed, update_header_metadata(authority, changed)
        PROVE  Goal
    <2>1. header \in Header /\ status # "zeroed" /\ tx' = <<>>
      BY <1>6 DEF update_header_metadata, Authorized, Idle, Typed
    <2>2. /\ header'.extension_len = header.extension_len /\ header'.remaining = header.remaining
          /\ header'.total_items_added = header.total_items_added
          /\ header'.smallest_uninitialized_index = header.smallest_uninitialized_index
          /\ UNCHANGED <<indices, minted, restocked>>
      BY <1>6, <2>1 DEF update_header_metadata, Header, history
    <2>3. Stocked(header', indices, minted, restocked)
      BY <2>1, <2>2, StockedFields DEF Stock
    <2> QED
      BY <2>1, <2>2, <2>3
  <1>7. ASSUME NEW authority \in Key, destroy(authority) PROVE Goal
    BY <1>7 DEF destroy, Authorized, Stock, history
  <1>8. ASSUME NEW payer, NEW instruction, NEW programs, NEW num_items,
               BeginDispense(payer, instruction, programs, num_items)
        PROVE  Goal
    <2>1. /\ status # "zeroed" /\ header.smallest_uninitialized_index = MAX_ITEMS
          /\ UNCHANGED <<header, indices, minted, restocked>>
          /\ tx'.before.header = header /\ tx'.before.indices = indices
          /\ tx'.before.minted = minted
      BY <1>8 DEF BeginDispense, history
    <2> QED
      BY <2>1 DEF Stock
  <1>9. ASSUME NEW selected \in Items, Draw(selected) PROVE Goal
    <2>1. tx # <<>> /\ tx \in Tx /\ status # "zeroed"
      BY <1>9 DEF Draw, Idle, Typed
    <2>2. tx'.before = tx.before /\ restocked' = restocked
      BY <1>9, <2>1 DEF Draw, Tx
    <2>3. /\ Stocked(header, indices, minted, restocked)
          /\ header.smallest_uninitialized_index = MAX_ITEMS /\ Back
      BY <2>1 DEF Stock
    <2>4. /\ Stocked(header, indices, minted, restocked)'
          /\ header'.smallest_uninitialized_index = MAX_ITEMS
      BY <1>9, <2>3, DrawStocked
    <2> QED
      BY <2>2, <2>3, <2>4
  <1>10. ASSUME Pay PROVE Goal
    BY <1>10 DEF Pay, Stock, history
  <1>11. ASSUME Fail PROVE Goal
    <2>1. tx # <<>> /\ status # "zeroed"
      BY <1>11 DEF Fail, Idle, Typed
    <2>2. Back
      BY <2>1 DEF Stock
    <2> QED
      BY <1>11, <2>2 DEF Fail
  <1>12. ASSUME Tick PROVE Goal
    BY <1>1, <1>12 DEF Tick, history
  <1>13. ASSUME UNCHANGED vars PROVE Goal
    BY <1>1, <1>13 DEF vars, history
  <1> HIDE DEF Goal
  <1>14. \A b \in Batches : b \in Seq(Line)
    BY BatchesType
  <1> QED
    BY <1>2, <1>3, <1>4, <1>5, <1>6, <1>7, <1>8, <1>9, <1>10, <1>11, <1>12, <1>13, <1>14 DEF Next

\* What a right stock says of the NFTs sold and of those left.
LEMMA StockedIsConserved ==
  ASSUME Typed, status # "zeroed", Stocked(header, indices, minted, restocked),
         header.smallest_uninitialized_index = MAX_ITEMS
  PROVE  /\ \A m, n \in SinceRestocked : m # n => minted[m].index # minted[n].index
         /\ Pool \cap Dispensed = {}
         /\ restocked = 0 => /\ Pool \cup Dispensed = 0 .. StockSize - 1
                             /\ Len(minted) + header.remaining = StockSize
  <1> DEFINE size == Size(header)
             count == Len(minted)
             left == header.remaining
             sum == count + left
  <1>1. header \in Header /\ minted \in Seq(Nft) /\ restocked \in 0..count
    BY DEF Typed
  <1>2. size \in Nat /\ count \in Nat /\ left \in Nat /\ restocked \in Nat /\ restocked <= count
    BY <1>1, SizeType, HeaderNumbers, ItemsAssumption
  <1>3. StockSize = size /\ SinceRestocked = restocked+1..count
    BY DEF StockSize, Size, SinceRestocked
  <1>4. /\ restocked = 0 => sum = size
        /\ sum - restocked <= size /\ Permuted(indices, size)
        /\ \A n \in restocked+1..count : minted[n].index = indices[sum - n]
    <2>1. /\ Len(minted) - restocked + header.remaining <= Size(header)
          /\ restocked = 0 => Len(minted) + header.remaining = Size(header)
          /\ Permuted(indices, Size(header))
          /\ \A i \in Size(header) .. MAX_ITEMS - 1 : indices[i] = i
          /\ \A n \in restocked+1..Len(minted) :
               minted[n].index = indices[(Len(minted) + header.remaining) - n]
      BY DEF Stocked
    <2>2. sum - restocked <= size
      BY <1>2, <2>1
    <2> QED
      BY <2>1, <2>2, Zenon
  <1>5. Pool = {indices[i] : i \in 0..left-1} /\ Dispensed = {minted[n].index : n \in SinceRestocked}
    BY DEF Pool, Dispensed
  <1> HIDE DEF size, count, left
  <1>6. \A i \in 0..left-1 : i \in 0..size-1
    BY <1>2, <1>4
  <1>7. \A n \in restocked+1..count : sum - n \in 0..size-1 /\ sum - n \notin 0..left-1
    BY <1>2, <1>4
  <1>8. \A m, n \in restocked+1..count : m # n => sum - m # sum - n
    BY <1>2
  <1> HIDE DEF sum
  <1>9. \A m, n \in SinceRestocked : m # n => minted[m].index # minted[n].index
    <2> SUFFICES ASSUME NEW m \in restocked+1..count, NEW n \in restocked+1..count, m # n
                 PROVE  minted[m].index # minted[n].index
      BY <1>3
    <2>1. sum - m \in 0..size-1 /\ sum - n \in 0..size-1 /\ sum - m # sum - n
      BY <1>7, <1>8
    <2>2. indices[sum - m] # indices[sum - n]
      BY <1>4, <2>1 DEF Permuted
    <2> QED
      BY <1>4, <2>2
  <1>10. Pool \cap Dispensed = {}
    <2> SUFFICES ASSUME NEW i \in 0..left-1, NEW n \in SinceRestocked, indices[i] = minted[n].index
                 PROVE  FALSE
      BY <1>5
    <2>1. i # sum - n /\ indices[i] = indices[sum - n]
      BY <1>3, <1>4, <1>7
    <2> QED
      BY <1>3, <1>4, <1>6, <1>7, <2>1 DEF Permuted
  <1>11. Pool \cup Dispensed \subseteq 0..size-1
    <2>1. \A i \in 0..left-1 : indices[i] \in 0..size-1
      BY <1>4, <1>6 DEF Permuted
    <2>2. \A n \in SinceRestocked : minted[n].index \in 0..size-1
      BY <1>3, <1>4, <1>7 DEF Permuted
    <2> QED
      BY <1>5, <2>1, <2>2
  <1>12. ASSUME restocked = 0 PROVE Pool \cup Dispensed = 0..size-1 /\ sum = size
    <2>1. sum = size /\ SinceRestocked = 1..count
      BY <1>3, <1>4, <1>12
    <2>2. \A i \in 0..size-1 : i \in 0..left-1 \/ (size - i \in 1..count /\ size - (size - i) = i)
      BY <1>2, <2>1 DEF sum
    <2>3. ASSUME NEW v \in 0..size-1 PROVE v \in Pool \cup Dispensed
      <3>1. PICK i \in 0..size-1 : indices[i] = v
        BY <1>4 DEF Permuted
      <3>2. CASE i \in 0..left-1
        BY <1>5, <3>1, <3>2
      <3>3. CASE size - i \in 1..count /\ size - (size - i) = i
        <4>1. size - i \in SinceRestocked /\ minted[size - i].index = v
          BY <1>3, <1>4, <2>1, <3>1, <3>3
        <4> QED
          BY <1>5, <4>1
      <3> QED
        BY <2>2, <3>2, <3>3
    <2> QED
      BY <1>11, <2>1, <2>3
  <1> QED
    BY <1>3, <1>9, <1>10, <1>12 DEF sum, count, left

\* Whatever the entropy selects, whatever the authority's instructions come between
\* the sales, and wherever a transaction fails: no NFT is sold twice between two times
\* that stock is added, and none is lost if it is added before the first sale only.
THEOREM StockIsConserved == Spec => []StockConserved
  <1>1. Init => Stock
    BY DEF Init, Stock
  <1>2. Typed /\ Stock /\ [Next]_vars => Typed' /\ Stock'
    BY StepTyped, StepStock
  <1>3. Typed /\ Stock => StockConserved
    BY StockedIsConserved DEF Stock, StockConserved
  <1> QED
    BY InitTyped, <1>1, <1>2, <1>3, PTL DEF Spec
=============================================================================
