-------------------------- MODULE SugarShack_proofs --------------------------
(***************************************************************************)
(* Proofs about SugarShack for any wallets, prices, shares and creators.   *)
(* The marketplace's steps are steps of Bubblegum on the trees, so that    *)
(* its invariant holds; what is added is who pays how much to whom.        *)
(***************************************************************************)
EXTENDS SugarShack, Bubblegum_proofs, FiniteSetTheorems

-----------------------------------------------------------------------------
(* Induction, and sums over finite sets. *)

\* Induction over the subsets of a finite set.
LEMMA SubsetInduction ==
  ASSUME NEW S, IsFiniteSet(S), NEW P,
         \A T \in SUBSET S : (\A U \in SUBSET T : U # T => U \in P) => T \in P
  PROVE  \A T \in SUBSET S : T \in P
<1> SUFFICES ASSUME ~(\A T \in SUBSET S : T \in P) PROVE FALSE
  OBVIOUS
<1> DEFINE Bad == {T \in SUBSET S : T \notin P}
<1>1. IsWellFoundedOn(StrictSubsetOrdering(S), FiniteSubsetsOf(S))
  BY FS_StrictSubsetOrderingWellFounded
<1>2. FiniteSubsetsOf(S) = SUBSET S
  BY FS_FiniteSubsetsOfFinite
<1>3. Bad \subseteq FiniteSubsetsOf(S) /\ Bad # {}
  BY <1>2
<1> HIDE DEF Bad
<1>4. PICK T \in Bad : \A U \in Bad : <<U, T>> \notin StrictSubsetOrdering(S)
  BY <1>1, <1>3, WFMin
<1>5. ASSUME NEW U \in SUBSET T, U # T PROVE U \in P
  BY <1>4, <1>5 DEF Bad, StrictSubsetOrdering
<1> QED
  BY <1>4, <1>5 DEF Bad

\* Induction over an interval.
LEMMA Upwards ==
  ASSUME NEW n \in Nat, NEW S, 0 \in S, \A k \in 0..n-1 : k \in S => k + 1 \in S
  PROVE  \A k \in 0..n : k \in S
<1> DEFINE P == {T \in SUBSET (0..n) : \A k \in 0..n : T = 0..k => k \in S}
<1>1. ASSUME NEW T \in SUBSET (0..n), \A U \in SUBSET T : U # T => U \in P PROVE T \in P
  <2> SUFFICES ASSUME NEW k \in 0..n, T = 0..k PROVE k \in S
    OBVIOUS
  <2>1. CASE k # 0
    <3>1. 0..k-1 \in SUBSET T /\ 0..k-1 # T
      <4>1. k \in T /\ k \notin 0..k-1
        OBVIOUS
      <4> QED
        BY <4>1
    <3>2. 0..k-1 \in P
      <4> HIDE DEF P
      <4> QED
        BY <1>1, <3>1
    <3>3. k - 1 \in 0..n
      BY <2>1
    <3>4. k - 1 \in S
      BY <3>2, <3>3
    <3> QED
      BY <2>1, <3>3, <3>4
  <2> QED
    BY <2>1
<1>2. IsFiniteSet(0..n)
  BY FS_Interval
<1>3. \A T \in SUBSET (0..n) : T \in P
  <2> HIDE DEF P
  <2> QED
    BY <1>1, <1>2, SubsetInduction
<1> SUFFICES ASSUME NEW k \in 0..n PROVE k \in S
  OBVIOUS
<1>4. 0..k \in SUBSET (0..n)
  OBVIOUS
<1> QED
  BY <1>3, <1>4

\* The sums of f over the subsets of S, computed one element after the other.
Chosen(s) == CHOOSE x \in s : TRUE

Sums(sum, f, S) ==
  sum = [s \in SUBSET S |-> IF s = {} THEN 0 ELSE f[Chosen(s)] + sum[s \ {Chosen(s)}]]

\* SumFunction is such a sum.
LEMMA SumIsSum ==
  ASSUME NEW f
  PROVE  SumFunction(f) = (CHOOSE sum : Sums(sum, f, DOMAIN f))[DOMAIN f]
BY DEF SumFunction, SumFunctionOnSet, FoldFunctionOnSet, MapThenFoldSet, Sums, Chosen

\* The sums of a function over the subsets of a finite set exist.
LEMMA SumsExist ==
  ASSUME NEW S, IsFiniteSet(S), NEW f
  PROVE  Sums(CHOOSE sum : Sums(sum, f, S), f, S)
<1> DEFINE Small(n) == {s \in SUBSET S : Cardinality(s) <= n}
           Body(g, s) == IF s = {} THEN 0 ELSE f[Chosen(s)] + g[s \ {Chosen(s)}]
           N == Cardinality(S)
           Q == {n \in 0..N : \E g : g = [s \in Small(n) |-> Body(g, s)]}
<1>1. N \in Nat /\ Small(N) = SUBSET S
  BY FS_CardinalityType, FS_Subset
<1>2. ASSUME NEW s \in SUBSET S, s # {}
      PROVE  /\ Cardinality(s) \in Nat /\ s \ {Chosen(s)} \in SUBSET S
             /\ Cardinality(s \ {Chosen(s)}) = Cardinality(s) - 1
             /\ Cardinality(s \ {Chosen(s)}) \in Nat
  <2>1. Chosen(s) \in s
    BY <1>2 DEF Chosen
  <2>2. IsFiniteSet(s) /\ s \ {Chosen(s)} \in SUBSET S
    BY FS_Subset
  <2> QED
    BY <2>1, <2>2, FS_RemoveElement, FS_CardinalityType
<1>3. ASSUME NEW s \in SUBSET S PROVE Cardinality(s) \in Nat /\ (Cardinality(s) <= 0 => s = {})
  BY FS_Subset, FS_CardinalityType, FS_EmptySet
<1> HIDE DEF N
<1>4. 0 \in Q
  <2> DEFINE g == [s \in Small(0) |-> 0]
  <2>1. g = [s \in Small(0) |-> Body(g, s)]
    BY <1>3
  <2> HIDE DEF g, Body, Small
  <2> QED
    BY <1>1, <2>1
<1>5. ASSUME NEW n \in 0..N-1, n \in Q PROVE n + 1 \in Q
  <2>1. PICK g : g = [s \in Small(n) |-> Body(g, s)]
    BY <1>5
  <2> DEFINE h == [s \in Small(n + 1) |-> Body(g, s)]
  <2>2. ASSUME NEW s \in Small(n + 1) PROVE Body(g, s) = Body(h, s)
    <3>1. CASE s # {}
      <4> DEFINE t == s \ {Chosen(s)}
      <4>1. t \in Small(n) /\ t \in Small(n + 1)
        BY <1>1, <1>2, <3>1
      <4> HIDE DEF Body, Small, t
      <4>2. g[t] = h[t]
        BY <2>1, <4>1
      <4> QED
        BY <4>2 DEF Body, t
    <3> QED
      BY <3>1
  <2>3. h = [s \in Small(n + 1) |-> Body(h, s)]
    <3> HIDE DEF Body, Small
    <3> QED
      BY <2>2
  <2> HIDE DEF h, Body, Small
  <2> QED
    BY <1>1, <2>3
<1>6. \A n \in 0..N : n \in Q
  <2> HIDE DEF Q
  <2> QED
    BY <1>1, <1>4, <1>5, Upwards
<1>7. N \in Q
  <2> HIDE DEF Q
  <2> QED
    BY <1>1, <1>6
<1>8. PICK g : g = [s \in SUBSET S |-> Body(g, s)]
  <2> HIDE DEF Body, Small
  <2> QED
    BY <1>1, <1>7
<1>9. Sums(g, f, S)
  BY <1>8 DEF Sums
<1> QED
  BY <1>9

\* The sum of f over the subset s of S.
Sum(f, S, s) == (CHOOSE sum : Sums(sum, f, S))[s]

\* Numbers add up to a number, in whatever order they are taken.
Addable(f, S) == \A x \in S : f[x] \in Int

\* A sum takes the elements one by one.
LEMMA SumStep ==
  ASSUME NEW S, IsFiniteSet(S), NEW f
  PROVE  /\ Sum(f, S, {}) = 0
         /\ \A s \in SUBSET S : s # {} => Sum(f, S, s) = f[Chosen(s)] + Sum(f, S, s \ {Chosen(s)})
<1> DEFINE sum == CHOOSE sum : Sums(sum, f, S)
<1>1. Sums(sum, f, S)
  BY SumsExist
<1>2. \A s : Sum(f, S, s) = sum[s]
  BY DEF Sum
<1> HIDE DEF sum
<1> QED
  BY <1>1, <1>2 DEF Sums

\* Sums of numbers are numbers.
LEMMA SumType ==
  ASSUME NEW S, IsFiniteSet(S), NEW f, Addable(f, S)
  PROVE  \A s \in SUBSET S : Sum(f, S, s) \in Int
<1> DEFINE P == {s \in SUBSET S : Sum(f, S, s) \in Int}
<1>1. ASSUME NEW s \in SUBSET S, \A u \in SUBSET s : u # s => u \in P PROVE s \in P
  <2>1. CASE s # {}
    <3>1. Chosen(s) \in s
      BY <2>1 DEF Chosen
    <3>2. s \ {Chosen(s)} \in SUBSET s /\ s \ {Chosen(s)} # s
      BY <3>1
    <3>3. Sum(f, S, s \ {Chosen(s)}) \in Int
      BY <1>1, <3>2
    <3> QED
      BY <2>1, <3>1, <3>3, SumStep DEF Addable
  <2> QED
    BY <2>1, SumStep
<1> HIDE DEF P
<1>2. \A s \in SUBSET S : s \in P
  BY <1>1, SubsetInduction
<1> QED
  BY <1>2 DEF P

\* Any element may be taken out first.
LEMMA SumWithout ==
  ASSUME NEW S, IsFiniteSet(S), NEW f, Addable(f, S), NEW s \in SUBSET S, NEW x \in s
  PROVE  Sum(f, S, s) = f[x] + Sum(f, S, s \ {x})
<1> DEFINE P == {t \in SUBSET S : \A y \in t : Sum(f, S, t) = f[y] + Sum(f, S, t \ {y})}
<1>1. ASSUME NEW t \in SUBSET S, \A u \in SUBSET t : u # t => u \in P PROVE t \in P
  <2> SUFFICES ASSUME NEW y \in t PROVE Sum(f, S, t) = f[y] + Sum(f, S, t \ {y})
    OBVIOUS
  <2> DEFINE c == Chosen(t)
             both == (t \ {y}) \ {c}
  <2>0. c \in t
    BY DEF Chosen
  <2>1. c \in t /\ Sum(f, S, t) = f[c] + Sum(f, S, t \ {c})
    BY <2>0, SumStep
  <2> HIDE DEF c
  <2>2. CASE c # y
    <3>1. t \ {c} \in P /\ y \in t \ {c} /\ t \ {y} \in P /\ c \in t \ {y}
      BY <1>1, <2>1, <2>2
    <3>2. (t \ {c}) \ {y} = both
      OBVIOUS
    <3>3. Sum(f, S, t \ {c}) = f[y] + Sum(f, S, both) /\ Sum(f, S, t \ {y}) = f[c] + Sum(f, S, both)
      BY <3>1, <3>2
    <3>4. f[c] \in Int /\ f[y] \in Int /\ Sum(f, S, both) \in Int
      BY <2>1, SumType DEF Addable
    <3> HIDE DEF both, P
    <3> QED
      BY <2>1, <3>3, <3>4
  <2> QED
    BY <2>1, <2>2
<1> HIDE DEF P
<1>2. \A t \in SUBSET S : t \in P
  BY <1>1, SubsetInduction
<1> QED
  BY <1>2 DEF P

\* SumFunction in these terms.
LEMMA SumFunctionIs ==
  ASSUME NEW f, NEW S, DOMAIN f = S
  PROVE  SumFunction(f) = Sum(f, S, S)
BY SumIsSum DEF Sum

-----------------------------------------------------------------------------
(* The ledger. *)

\* What a transfer does to each account.
LEMMA MovedIs ==
  ASSUME NEW ledger \in [Account -> Nat], NEW from \in Account, NEW to \in Account,
         NEW amount \in Nat, amount <= ledger[from]
  PROVE  /\ Moved(ledger, from, to, amount) \in [Account -> Nat]
         /\ \A a \in Account : Moved(ledger, from, to, amount)[a] =
              IF from = to THEN ledger[a]
              ELSE IF a = from THEN ledger[a] - amount
              ELSE IF a = to THEN ledger[a] + amount ELSE ledger[a]
<1> DEFINE debited == [ledger EXCEPT ![from] = @ - amount]
<1>1. debited \in [Account -> Int] /\ debited[from] = ledger[from] - amount
      /\ \A a \in Account : a # from => debited[a] = ledger[a]
  OBVIOUS
<1>2. Moved(ledger, from, to, amount) = [debited EXCEPT ![to] = @ + amount]
  BY DEF Moved
<1> HIDE DEF debited
<1> DEFINE m == [debited EXCEPT ![to] = @ + amount]
<1>3. DOMAIN m = Account /\ \A a \in Account : m[a] = IF a = to THEN debited[a] + amount ELSE debited[a]
  BY <1>1
<1>m. m = [a \in Account |-> m[a]]
  BY <1>1
<1> HIDE DEF m
<1>4. \A a \in Account : m[a] = IF from = to THEN ledger[a]
                                ELSE IF a = from THEN ledger[a] - amount
                                ELSE IF a = to THEN ledger[a] + amount ELSE ledger[a]
  BY <1>1, <1>3
<1>5. \A a \in Account : m[a] \in Nat
  BY <1>4
<1>6. m \in [Account -> Nat]
  BY <1>m, <1>5
<1> QED
  BY <1>2, <1>4, <1>6 DEF m

\* The balances after a transfer, account by account.
IsMoved(now, ledger, from, to, amount) ==
  \A a \in Account : now[a] = IF from = to THEN ledger[a]
                              ELSE IF a = from THEN ledger[a] - amount
                              ELSE IF a = to THEN ledger[a] + amount ELSE ledger[a]

\* A transfer of lamports that are there, account by account.
LEMMA MovedBalances ==
  ASSUME NEW ledger \in [Account -> Nat], NEW from \in Account, NEW to \in Account,
         NEW amount \in Nat, amount <= ledger[from]
  PROVE  IsMoved(Moved(ledger, from, to, amount), ledger, from, to, amount)
  BY MovedIs DEF IsMoved

-----------------------------------------------------------------------------
(* The transfers of a purchase. *)

\* One transfer after the other.
LEMMA PayoutsStep ==
  ASSUME NEW purchaser, NEW payouts, Len(payouts) \in Nat
  PROVE  /\ AfterPayouts(purchaser, payouts)[0] = lamports
         /\ \A k \in 1..Len(payouts) :
              AfterPayouts(purchaser, payouts)[k] =
                Moved(AfterPayouts(purchaser, payouts)[k-1], purchaser, payouts[k].to, payouts[k].amount)
<1> DEFINE N == Len(payouts)
           Pays(k, ledger) == Moved(ledger, purchaser, payouts[k].to, payouts[k].amount)
           F(g, n) == [k \in 0..n |-> IF k = 0 THEN lamports ELSE Pays(k, g[k-1])]
           S == {n \in 0..N : \E g : g = F(g, n)}
           after == CHOOSE g : g = F(g, N)
<1>0. AfterPayouts(purchaser, payouts) = after
  BY DEF AfterPayouts
<1>n. N \in Nat
  OBVIOUS
<1> HIDE DEF Pays, N
<1>1. 0 \in S
  <2> DEFINE g == [k \in 0..0 |-> lamports]
  <2>1. g = F(g, 0)
    OBVIOUS
  <2> HIDE DEF g
  <2> QED
    BY <1>n, <2>1
<1>2. ASSUME NEW n \in 0..N-1, n \in S PROVE n + 1 \in S
  <2>1. PICK g : g = F(g, n)
    BY <1>2
  <2> DEFINE h == [k \in 0..n+1 |-> IF k = n + 1 THEN Pays(n + 1, g[n]) ELSE g[k]]
  <2>2. ASSUME NEW k \in 0..n+1 PROVE h[k] = F(h, n + 1)[k]
    BY <1>n, <2>1
  <2>3. h = F(h, n + 1)
    BY <2>2
  <2> HIDE DEF h
  <2> QED
    BY <1>n, <2>3
<1>3. N \in S
  <2> HIDE DEF S
  <2>1. \A k \in 0..N : k \in S
    BY <1>1, <1>2, <1>n, Upwards
  <2> QED
    BY <1>n, <2>1
<1>4. after = F(after, N)
  BY <1>3
<1> HIDE DEF after
<1>5. after[0] = lamports
  BY <1>4, <1>n
<1>6. ASSUME NEW k \in 1..N PROVE after[k] = Pays(k, after[k-1])
  <2>1. k \in 0..N /\ k # 0
    BY <1>n
  <2> QED
    BY <1>4, <2>1
<1> QED
  BY <1>0, <1>5, <1>6 DEF Pays, N

Creators == Seq([address : Key, share : Nat])

\* A list of creators, one by one.
LEMMA CreatorTypes ==
  ASSUME NEW creators \in Creators
  PROVE  /\ DOMAIN creators = 1..Len(creators) /\ Len(creators) \in Nat
         /\ \A c \in 1..Len(creators) : creators[c].share \in Nat /\ creators[c].address \in Key
<1> DEFINE R == [address : Key, share : Nat]
<1>1. \A r \in R : r.share \in Nat /\ r.address \in Key
  OBVIOUS
<1>2. creators \in Seq(R)
  BY DEF Creators
<1> HIDE DEF R
<1> QED
  BY <1>1, <1>2

\* Fees are numbers of lamports.
LEMMA FeeTypes ==
  ASSUME NEW price \in Nat, marketplace_props.share \in Nat, NEW creators \in Creators
  PROVE  /\ BasisPoint(price) \in Nat /\ MarketplaceFee(price) \in Nat
         /\ \A remaining \in Nat :
              /\ \A c \in DOMAIN creators : CreatorFee(remaining, creators[c].share) \in Nat
              /\ CreatorFees(remaining, creators) \in Int
<1>1. ASSUME NEW n \in Nat PROVE BasisPoint(n) \in Nat
  BY DEF BasisPoint
<1>2. MarketplaceFee(price) \in Nat
  BY <1>1 DEF MarketplaceFee
<1>3. DOMAIN creators = 1..Len(creators) /\ Len(creators) \in Nat
      /\ \A c \in 1..Len(creators) : creators[c].share \in Nat /\ creators[c].address \in Key
  BY CreatorTypes
<1>4. ASSUME NEW remaining \in Nat, NEW c \in DOMAIN creators
      PROVE  CreatorFee(remaining, creators[c].share) \in Nat
  <2>1. creators[c].share * 100 \in Nat
    BY <1>3
  <2> QED
    BY <1>1, <2>1 DEF CreatorFee
<1>5. ASSUME NEW remaining \in Nat PROVE CreatorFees(remaining, creators) \in Int
  <2> DEFINE f == [c \in DOMAIN creators |-> CreatorFee(remaining, creators[c].share)]
             S == DOMAIN creators
  <2>1. IsFiniteSet(S) /\ S \in SUBSET S
    BY <1>3, FS_Interval
  <2>2. Addable(f, S) /\ DOMAIN f = S
    BY <1>4 DEF Addable
  <2>3. CreatorFees(remaining, creators) = SumFunction(f)
    BY DEF CreatorFees
  <2> HIDE DEF f, S
  <2>4. SumFunction(f) = Sum(f, S, S) /\ Sum(f, S, S) \in Int
    BY <2>1, <2>2, SumFunctionIs, SumType
  <2> QED
    BY <2>3, <2>4
<1> QED
  BY <1>1, <1>2, <1>4, <1>5

\* The transfers: to the marketplace, to each creator, to the seller.
PayoutList(payouts, price, creators, former_owner) ==
  LET remaining == price - MarketplaceFee(price)
      N == Len(creators)
  IN  /\ Len(payouts) = N + 2
      /\ payouts[1] = [to |-> Marketplace, amount |-> MarketplaceFee(price)]
      /\ \A c \in 1..N : payouts[c + 1] = [to |-> creators[c].address,
                                           amount |-> CreatorFee(remaining, creators[c].share)]
      /\ payouts[N + 2] = [to |-> former_owner, amount |-> SellerAmount(price, creators)]

\* The list of transfers that a purchase makes.
LEMMA PayoutsAre ==
  ASSUME NEW price, NEW creators \in Creators, NEW former_owner
  PROVE  PayoutList(Payouts(price, creators, former_owner), price, creators, former_owner)
<1> DEFINE remaining == price - MarketplaceFee(price)
           N == Len(creators)
           a == [to |-> Marketplace, amount |-> MarketplaceFee(price)]
           P(c) == [to |-> creators[c].address, amount |-> CreatorFee(remaining, creators[c].share)]
           b == [to |-> former_owner, amount |-> SellerAmount(price, creators)]
           middle == [c \in 1..N |-> P(c)]
           U == {a, b} \cup {P(c) : c \in 1..N}
<1>1. N \in Nat /\ DOMAIN creators = 1..N
  BY DEF Creators
<1>2. Payouts(price, creators, former_owner) = <<a>> \o middle \o <<b>>
  BY <1>1 DEF Payouts
<1>3. a \in U /\ b \in U /\ \A c \in 1..N : P(c) \in U
  OBVIOUS
<1> HIDE DEF a, b, P, U, N
<1>4. middle \in Seq(U) /\ Len(middle) = N /\ \A c \in 1..N : middle[c] = P(c)
  BY <1>1, <1>3
<1> HIDE DEF middle
<1>5. /\ <<a>> \o middle \in Seq(U) /\ Len(<<a>> \o middle) = N + 1
      /\ (<<a>> \o middle)[1] = a /\ \A c \in 1..N : (<<a>> \o middle)[c + 1] = P(c)
  BY <1>1, <1>3, <1>4
<1> DEFINE front == <<a>> \o middle
<1> HIDE DEF front
<1>6. front \in Seq(U) /\ Len(front) = N + 1 /\ front[1] = a /\ \A c \in 1..N : front[c + 1] = P(c)
  BY <1>5 DEF front
<1>7. /\ Len(front \o <<b>>) = N + 2 /\ (front \o <<b>>)[1] = a /\ (front \o <<b>>)[N + 2] = b
      /\ \A c \in 1..N : (front \o <<b>>)[c + 1] = P(c)
  BY <1>1, <1>3, <1>6
<1>8. Payouts(price, creators, former_owner) = front \o <<b>>
  BY <1>2 DEF front
<1> QED
  BY <1>7, <1>8 DEF PayoutList, a, b, P, N

\* Transfers out of an account that can afford them.
Affords(purchaser, payouts) ==
  /\ Len(payouts) \in Nat
  /\ \A k \in 1..Len(payouts) :
       /\ payouts[k].to \in Account /\ payouts[k].amount \in Nat
       /\ AfterPayouts(purchaser, payouts)[k-1][purchaser] >= payouts[k].amount

\* The balances stay numbers through all of them.
LEMMA LedgerKept ==
  ASSUME lamports \in [Account -> Nat], NEW purchaser \in Account, NEW payouts, Affords(purchaser, payouts)
  PROVE  \A k \in 0..Len(payouts) : AfterPayouts(purchaser, payouts)[k] \in [Account -> Nat]
<1> DEFINE after == AfterPayouts(purchaser, payouts)
           N == Len(payouts)
           S == {k \in 0..N : after[k] \in [Account -> Nat]}
<1>1. N \in Nat
  BY DEF Affords
<1>2. /\ after[0] = lamports
      /\ \A k \in 1..N : after[k] = Moved(after[k-1], purchaser, payouts[k].to, payouts[k].amount)
  BY <1>1, PayoutsStep
<1>3. \A k \in 1..N : /\ payouts[k].to \in Account /\ payouts[k].amount \in Nat
                      /\ after[k-1][purchaser] >= payouts[k].amount
  BY DEF Affords
<1> HIDE DEF after, N
<1>4. 0 \in S
  BY <1>1, <1>2
<1>5. ASSUME NEW k \in 0..N-1, k \in S PROVE k + 1 \in S
  <2> DEFINE ledger == after[k]
             to == payouts[k + 1].to
             amount == payouts[k + 1].amount
  <2>1. k + 1 \in 1..N /\ (k + 1) - 1 = k
    BY <1>1
  <2>2. /\ after[k + 1] = Moved(ledger, purchaser, to, amount)
        /\ to \in Account /\ amount \in Nat /\ ledger[purchaser] >= amount
    BY <1>2, <1>3, <2>1
  <2>3. ledger \in [Account -> Nat]
    BY <1>5
  <2> HIDE DEF ledger, to, amount
  <2>4. amount <= ledger[purchaser]
    BY <2>2, <2>3
  <2>5. Moved(ledger, purchaser, to, amount) \in [Account -> Nat]
    BY <2>2, <2>3, <2>4, MovedIs
  <2> QED
    BY <1>1, <2>1, <2>2, <2>5
<1> HIDE DEF S
<1>6. \A k \in 0..N : k \in S
  BY <1>1, <1>4, <1>5, Upwards
<1> QED
  BY <1>6 DEF S, after, N

\* One of them, for each account.
LEMMA LedgerStep ==
  ASSUME lamports \in [Account -> Nat], NEW purchaser \in Account, NEW payouts, Affords(purchaser, payouts),
         NEW k \in 0..Len(payouts)-1, NEW a \in Account
  PROVE  LET before == AfterPayouts(purchaser, payouts)[k]
             now    == AfterPayouts(purchaser, payouts)[k + 1]
             to     == payouts[k + 1].to
             amount == payouts[k + 1].amount
         IN  /\ before[a] \in Nat /\ amount \in Nat
             /\ now[a] = IF purchaser = to THEN before[a]
                         ELSE IF a = purchaser THEN before[a] - amount
                         ELSE IF a = to THEN before[a] + amount ELSE before[a]
<1> DEFINE before == AfterPayouts(purchaser, payouts)[k]
           now == AfterPayouts(purchaser, payouts)[k + 1]
           to == payouts[k + 1].to
           amount == payouts[k + 1].amount
<1>1. Len(payouts) \in Nat /\ k + 1 \in 1..Len(payouts) /\ (k + 1) - 1 = k /\ k \in 0..Len(payouts)
  BY DEF Affords
<1>2. before \in [Account -> Nat]
  BY <1>1, LedgerKept
<1>3. now = Moved(before, purchaser, to, amount)
  BY <1>1, PayoutsStep
<1>4. to \in Account /\ amount \in Nat /\ before[purchaser] >= amount
  BY <1>1 DEF Affords
<1> HIDE DEF before, now, to, amount
<1>5. amount <= before[purchaser]
  BY <1>2, <1>4
<1>6. now[a] = IF purchaser = to THEN before[a]
               ELSE IF a = purchaser THEN before[a] - amount
               ELSE IF a = to THEN before[a] + amount ELSE before[a]
  <2>1. IsMoved(now, before, purchaser, to, amount)
    BY <1>2, <1>3, <1>4, <1>5, MovedBalances
  <2> QED
    BY <2>1 DEF IsMoved
<1> QED
  BY <1>2, <1>4, <1>6 DEF before, now, to, amount

\* A purchase that goes through.
Buys(purchaser, price, creators, former_owner) ==
  /\ lamports \in [Account -> Nat] /\ marketplace_props.share \in Nat
  /\ purchaser \in Wallet /\ price \in Nat /\ creators \in Creators /\ former_owner \in Key
  /\ Payable(purchaser, price, creators, Payouts(price, creators, former_owner))

\* A purchaser who can pay affords every transfer in turn.
LEMMA PurchaseAffords ==
  ASSUME NEW purchaser, NEW price, NEW creators, NEW former_owner,
         Buys(purchaser, price, creators, former_owner)
  PROVE  /\ Affords(purchaser, Payouts(price, creators, former_owner))
         /\ purchaser \in Account /\ purchaser # Marketplace
         /\ price - MarketplaceFee(price) \in Nat /\ SellerAmount(price, creators) \in Nat
<1> DEFINE payouts == Payouts(price, creators, former_owner)
           N == Len(creators)
           fee == MarketplaceFee(price)
           remaining == price - fee
           fees == CreatorFees(remaining, creators)
<1>1. /\ price \in Nat /\ creators \in Creators /\ former_owner \in Key /\ marketplace_props.share \in Nat
      /\ purchaser \in Wallet
  BY DEF Buys
<1>2. PayoutList(payouts, price, creators, former_owner)
  BY <1>1, PayoutsAre
<1>3. /\ fee <= price /\ fees <= remaining
      /\ \A k \in 1..Len(payouts) : AfterPayouts(purchaser, payouts)[k-1][purchaser] >= payouts[k].amount
  BY DEF Buys, Payable
<1>4. fee \in Nat
  BY <1>1, FeeTypes
<1>5. remaining \in Nat
  BY <1>1, <1>3, <1>4
<1>6. fees \in Int /\ \A c \in DOMAIN creators : CreatorFee(remaining, creators[c].share) \in Nat
  BY <1>1, <1>5, FeeTypes
<1>7. SellerAmount(price, creators) = remaining - fees
  BY DEF SellerAmount
<1>8. N \in Nat /\ DOMAIN creators = 1..N /\ \A c \in 1..N : creators[c].address \in Key
  BY <1>1, CreatorTypes
<1>9. Len(payouts) = N + 2 /\ payouts[1] = [to |-> Marketplace, amount |-> fee]
      /\ payouts[N + 2] = [to |-> former_owner, amount |-> SellerAmount(price, creators)]
  BY <1>2 DEF PayoutList
<1>10. \A c \in 1..N : payouts[c + 1] = [to |-> creators[c].address,
                                         amount |-> CreatorFee(remaining, creators[c].share)]
  BY <1>2 DEF PayoutList
<1> HIDE DEF payouts, N, fee, fees, remaining
<1>11. SellerAmount(price, creators) \in Nat
  BY <1>3, <1>5, <1>6, <1>7
<1>12. ASSUME NEW k \in 1..Len(payouts) PROVE payouts[k].to \in Account /\ payouts[k].amount \in Nat
  <2>1. CASE k = 1
    BY <1>4, <1>9, <2>1 DEF Account
  <2>2. CASE k = N + 2
    BY <1>1, <1>9, <1>11, <2>2 DEF Account
  <2>3. CASE k # 1 /\ k # N + 2
    <3> DEFINE c == k - 1
    <3>1. c \in 1..N /\ k = c + 1
      BY <1>8, <1>9, <2>3
    <3> HIDE DEF c
    <3>2. /\ payouts[k] = [to |-> creators[c].address, amount |-> CreatorFee(remaining, creators[c].share)]
          /\ creators[c].address \in Key /\ CreatorFee(remaining, creators[c].share) \in Nat
      BY <1>6, <1>8, <1>10, <3>1
    <3> QED
      BY <3>2 DEF Account
  <2> QED
    BY <2>1, <2>2, <2>3
<1>13. purchaser \in Account /\ purchaser # Marketplace
  BY <1>1, WalletAssumption DEF Account
<1>14. Affords(purchaser, payouts)
  BY <1>3, <1>8, <1>9, <1>12 DEF Affords
<1> QED
  BY <1>5, <1>11, <1>13, <1>14 DEF payouts, fee, remaining

-----------------------------------------------------------------------------
(* The marketplace calls nothing but instructions of Bubblegum. *)

\* A leaf that is in a tree is one that new_v0 puts together from its fields.
LEMMA StoredLeaf ==
  ASSUME IInv, NEW slab \in Slab, NEW leaf \in StoredLeaves(slab)
  PROVE  /\ leaf \in LeafSchema
         /\ leaf.owner \in Key /\ leaf.delegate \in Key /\ leaf.nonce \in Indices
         /\ leaf.data_hash \in DataHash /\ leaf.creator_hash \in CreatorHash
         /\ leaf.id = <<slab, leaf.nonce>>
         /\ leaf = new_v0(slab, leaf.owner, leaf.delegate, leaf.nonce,
                          leaf.data_hash, leaf.creator_hash)
<1>1. PICK i \in Indices : leaves[slab][i] # EMPTY /\ leaf = leaves[slab][i][1]
  BY DEF StoredLeaves
<1>2. leaf \in LeafSchema
  BY <1>1, NodeLeaf DEF IInv, TypeOK
<1>3. leaves[slab][i][1].id = <<slab, i>> /\ leaves[slab][i][1].nonce = i
  BY <1>1 DEF IInv, Placed, LeavesInPlace
<1>4. leaf.id = <<slab, leaf.nonce>>
  BY <1>1, <1>3
<1> QED
  BY <1>2, <1>4 DEF LeafSchema, new_v0, get_asset_id

\* What a wallet, or the marketplace, does to a leaf that is in a tree.
LEMMA LeafStep ==
  ASSUME IInv, NEW slab \in Slab, NEW leaf \in StoredLeaves(slab), NEW index \in Indices,
         \/ \E new_owner \in Key, signed \in SUBSET Key :
              transfer(slab, leaf, new_owner, index, signed)
         \/ \E new_delegate \in Key : delegate(slab, leaf, new_delegate, index)
         \/ \E signed \in SUBSET Key : burn(slab, leaf, index, signed)
         \/ redeem(slab, leaf, index)
  PROVE  Next
<1>1. /\ leaf.owner \in Key /\ leaf.delegate \in Key /\ leaf.nonce \in Indices
      /\ leaf.data_hash \in DataHash /\ leaf.creator_hash \in CreatorHash
      /\ leaf = new_v0(slab, leaf.owner, leaf.delegate, leaf.nonce,
                       leaf.data_hash, leaf.creator_hash)
  BY StoredLeaf
<1> QED
  BY <1>1, Zenon DEF Next

\* A purchase transfers the leaf to the purchaser, who is a key, and two keys sign.
LEMMA PurchaseIsTransfer ==
  ASSUME IInv, NEW slab \in Slab, NEW leaf \in StoredLeaves(slab), NEW price \in Price,
         NEW purchaser \in Wallet, NEW creators, NEW index \in Indices,
         purchase(slab, leaf, price, purchaser, creators, index)
  PROVE  /\ purchaser \in Key /\ {purchaser, leaf.delegate} \in SUBSET Key
         /\ transfer(slab, leaf, purchaser, index, {purchaser, leaf.delegate})
<1>1. purchaser \in Key /\ leaf.delegate \in Key
  BY StoredLeaf, WalletAssumption
<1> QED
  BY <1>1 DEF purchase

\* Every step of the marketplace is a step of Bubblegum or leaves it alone.
LEMMA MarketStep ==
  ASSUME IInv, [MarketNext]_marketVars
  PROVE  [Next]_vars
<1>w. Wallet \subseteq Key
  BY WalletAssumption
<1>1. CASE UNCHANGED marketVars
  BY <1>1 DEF marketVars
<1>2. ASSUME NEW slab \in Slab, NEW index \in Indices, BubblegumInstruction(slab, index)
      PROVE  Next
  <2>1. CASE \E wallet \in Wallet : create_tree(slab, wallet)
    BY <1>w, <2>1, Zenon DEF Next
  <2>2. CASE \E mint_authority, owner \in Wallet, del \in Key, message \in Metadata :
               mint_v1(slab, mint_authority, owner, del, message)
    BY <1>w, <2>2, Zenon DEF Next
  <2>3. ASSUME NEW leaf \in StoredLeaves(slab),
               \/ \E new_owner \in Wallet, signed \in SUBSET Wallet :
                    transfer(slab, leaf, new_owner, index, signed)
               \/ \E new_delegate \in Key : delegate(slab, leaf, new_delegate, index)
               \/ \E signed \in SUBSET Wallet : burn(slab, leaf, index, signed)
               \/ redeem(slab, leaf, index)
        PROVE  Next
    <3>1. \A signed \in SUBSET Wallet : signed \in SUBSET Key
      BY <1>w
    <3>2. \/ \E new_owner \in Key, signed \in SUBSET Key :
               transfer(slab, leaf, new_owner, index, signed)
          \/ \E new_delegate \in Key : delegate(slab, leaf, new_delegate, index)
          \/ \E signed \in SUBSET Key : burn(slab, leaf, index, signed)
          \/ redeem(slab, leaf, index)
      BY <1>w, <2>3, <3>1, Zenon
    <3> QED
      BY <3>2, LeafStep
  <2>4. CASE \E owner \in Wallet : cancel_redeem(slab, slab, index, owner)
    BY <1>w, <2>4, Zenon DEF Next
  <2>5. CASE \E owner \in Wallet, metadata \in Metadata : decompress_v1(slab, index, owner, metadata)
    BY <1>w, <2>5, Zenon DEF Next
  <2> QED
    BY <1>2, <2>1, <2>2, <2>3, <2>4, <2>5 DEF BubblegumInstruction
<1>3. ASSUME NEW payer \in Wallet, NEW authority \in Wallet, NEW share \in Share,
             initialize_marketplace(payer, share, authority)
      PROVE  UNCHANGED vars
  BY <1>3 DEF initialize_marketplace
<1>4. ASSUME NEW signer \in Wallet, NEW authority \in Optional(Wallet), NEW share \in Optional(Share),
             update_marketplace_properties(signer, authority, share)
      PROVE  UNCHANGED vars
  BY <1>4 DEF update_marketplace_properties
<1>5. ASSUME NEW slab \in Slab, NEW index \in Indices, NEW leaf \in StoredLeaves(slab),
             NEW new_delegate \in Key, modify_compressed_nft_delegate(slab, leaf, new_delegate, index)
      PROVE  Next
  BY <1>5, LeafStep DEF modify_compressed_nft_delegate
<1>6. ASSUME NEW slab \in Slab, NEW index \in Indices, NEW leaf \in StoredLeaves(slab),
             NEW price \in Price, create_or_modify_listing(slab, leaf, price, index)
      PROVE  Next
  BY <1>5, <1>6, ListingAssumption DEF create_or_modify_listing
<1>7. ASSUME NEW slab \in Slab, NEW index \in Indices, NEW leaf \in StoredLeaves(slab),
             NEW new_delegate \in Key, remove_listing(slab, leaf, new_delegate, index)
      PROVE  Next
  BY <1>5, <1>7 DEF remove_listing
<1>8. ASSUME NEW slab \in Slab, NEW index \in Indices, NEW leaf \in StoredLeaves(slab),
             NEW price \in Price, NEW purchaser \in Wallet, NEW message \in Metadata,
             purchase(slab, leaf, price, purchaser, message.creators, index)
      PROVE  Next
  <2>1. /\ purchaser \in Key /\ {purchaser, leaf.delegate} \in SUBSET Key
        /\ transfer(slab, leaf, purchaser, index, {purchaser, leaf.delegate})
    BY <1>8, PurchaseIsTransfer
  <2> QED
    BY <2>1, LeafStep
<1>9. ASSUME NEW authority \in Wallet, NEW recipient \in Wallet, NEW amount \in Amount,
             withdraw_fees(authority, recipient, amount)
      PROVE  UNCHANGED vars
  BY <1>9 DEF withdraw_fees
<1> QED
  BY <1>1, <1>2, <1>3, <1>4, <1>6, <1>7, <1>8, <1>9 DEF MarketNext

\* The marketplace together with the wallets implements Bubblegum: whatever is
\* proved of Bubblegum alone holds of the NFTs it trades.
THEOREM MarketIsBubblegum == MarketSpec => Spec
<1>1. MarketInit => Init /\ IInv
  BY InitPlaced DEF MarketInit
<1>2. IInv /\ [MarketNext]_marketVars => [Next]_vars /\ IInv'
  BY MarketStep, StepPlaced
<1> QED
  BY <1>1, <1>2, PTL DEF MarketSpec, Spec

-----------------------------------------------------------------------------
(* Lamports. *)

MarketInv ==
  /\ IInv
  /\ marketplace_props \in {<<>>} \cup [authority : Wallet, share : Share]
  /\ lamports \in [Account -> Nat]
  /\ sales \in 0..MaxSales

\* What the steps of the marketplace have to show, Bubblegum apart.
LedgerSafe ==
  /\ marketplace_props' \in {<<>>} \cup [authority : Wallet, share : Share]
  /\ lamports' \in [Account -> Nat]
  /\ sales' \in 0..MaxSales

\* A purchase at a price is one that goes through.
LEMMA PurchaseBuys ==
  ASSUME MarketInv, NEW slab \in Slab, NEW index \in Indices, NEW leaf \in StoredLeaves(slab),
         NEW price \in Price, NEW purchaser \in Wallet, NEW message \in Metadata,
         purchase(slab, leaf, price, purchaser, message.creators, index)
  PROVE  /\ Buys(purchaser, price, message.creators, leaf.owner)
         /\ marketplace_props \in [authority : Wallet, share : Share]
<1>1. marketplace_props \in [authority : Wallet, share : Share]
  BY DEF purchase, MarketInv
<1>2. marketplace_props.share \in Nat /\ price \in Nat
  BY <1>1, LamportAssumption
<1>3. message.creators \in Creators
  BY CreatorAssumption DEF Creators
<1>4. leaf.owner \in Key
  BY StoredLeaf DEF MarketInv
<1>5. Payable(purchaser, price, message.creators, Payouts(price, message.creators, leaf.owner))
  BY DEF purchase
<1> QED
  BY <1>1, <1>2, <1>3, <1>4, <1>5 DEF Buys, MarketInv

\* A purchase only moves lamports that are there.
LEMMA PurchaseSafe ==
  ASSUME MarketInv, NEW slab \in Slab, NEW index \in Indices, NEW leaf \in StoredLeaves(slab),
         NEW price \in Price, NEW purchaser \in Wallet, NEW message \in Metadata,
         purchase(slab, leaf, price, purchaser, message.creators, index)
  PROVE  LedgerSafe
<1> DEFINE creators == message.creators
           payouts == Payouts(price, creators, leaf.owner)
<1>1. Buys(purchaser, price, creators, leaf.owner)
  BY PurchaseBuys
<1>2. Affords(purchaser, payouts) /\ purchaser \in Account /\ purchaser # Marketplace
  BY <1>1, PurchaseAffords
<1>3. /\ lamports' = AfterPayouts(purchaser, payouts)[Len(payouts)]
      /\ marketplace_props' = marketplace_props /\ sales' = sales + 1 /\ sales < MaxSales
  BY DEF purchase
<1> HIDE DEF payouts
<1>4. lamports \in [Account -> Nat] /\ sales \in 0..MaxSales
      /\ marketplace_props \in {<<>>} \cup [authority : Wallet, share : Share]
  BY DEF MarketInv
<1>5. Len(payouts) \in 0..Len(payouts)
  BY <1>2 DEF Affords
<1>6. lamports' \in [Account -> Nat]
  BY <1>2, <1>3, <1>4, <1>5, LedgerKept
<1>7. sales' \in 0..MaxSales
  BY <1>3, <1>4, LamportAssumption
<1> QED
  BY <1>3, <1>4, <1>6, <1>7 DEF LedgerSafe

\* The payer pays the rent of the marketplace's account.
LEMMA InitializeSafe ==
  ASSUME MarketInv, NEW payer \in Wallet, NEW authority \in Wallet, NEW share \in Share,
         initialize_marketplace(payer, share, authority)
  PROVE  LedgerSafe
<1>1. /\ lamports \in [Account -> Nat] /\ payer \in Account /\ Marketplace \in Account
      /\ payer # Marketplace /\ Rent \in Nat
  BY WalletAssumption, LamportAssumption DEF MarketInv, Account
<1>2. Rent <= lamports[payer] /\ lamports' = Moved(lamports, payer, Marketplace, Rent)
  BY <1>1 DEF initialize_marketplace, InitMarketplaceProperties
<1>3. lamports' \in [Account -> Nat]
  BY <1>1, <1>2, MovedIs
<1>4. /\ marketplace_props' \in {<<>>} \cup [authority : Wallet, share : Share]
      /\ sales' \in 0..MaxSales
  BY DEF initialize_marketplace, MarketInv
<1> QED
  BY <1>3, <1>4 DEF LedgerSafe

\* A withdrawal takes no more than there is, whoever receives it.
LEMMA WithdrawSafe ==
  ASSUME MarketInv, NEW authority \in Wallet, NEW recipient \in Wallet, NEW amount \in Amount,
         withdraw_fees(authority, recipient, amount)
  PROVE  LedgerSafe
<1>1. /\ lamports \in [Account -> Nat] /\ recipient \in Account /\ Marketplace \in Account
      /\ recipient # Marketplace /\ Rent \in Nat /\ amount \in Nat
  BY WalletAssumption, LamportAssumption DEF MarketInv, Account
<1>2. /\ amount <= lamports[Marketplace]
      /\ lamports' = Moved(lamports, Marketplace, recipient, amount)
      /\ marketplace_props' = marketplace_props /\ sales' = sales
  BY DEF withdraw_fees
<1>3. lamports' \in [Account -> Nat]
  BY <1>1, <1>2, MovedIs
<1> QED
  BY <1>2, <1>3 DEF LedgerSafe, MarketInv

\* The authority may change the properties, to values of their types.
LEMMA UpdateSafe ==
  ASSUME MarketInv, NEW signer \in Wallet, NEW authority \in Optional(Wallet),
         NEW share \in Optional(Share), update_marketplace_properties(signer, authority, share)
  PROVE  LedgerSafe
<1>1. marketplace_props \in [authority : Wallet, share : Share]
  BY DEF update_marketplace_properties, HasAuthority, MarketInv
<1>2. (authority # <<>> => authority[1] \in Wallet) /\ (share # <<>> => share[1] \in Share)
  BY DEF Optional
<1>3. marketplace_props' \in [authority : Wallet, share : Share]
  BY <1>1, <1>2 DEF update_marketplace_properties
<1>4. lamports' = lamports /\ sales' = sales /\ marketplace_props # <<>>
  BY DEF update_marketplace_properties, HasAuthority
<1> QED
  BY <1>3, <1>4 DEF LedgerSafe, MarketInv

\* Whatever leaves the marketplace and the balances alone.
LEMMA MarketAlone ==
  ASSUME MarketInv, UNCHANGED market
  PROVE  LedgerSafe
BY DEF LedgerSafe, MarketInv, market

\* The invariant is inductive.
LEMMA StepMarketInv ==
  ASSUME MarketInv, [MarketNext]_marketVars
  PROVE  MarketInv'
<1>1. IInv'
  BY MarketStep, StepPlaced DEF MarketInv
<1>2. LedgerSafe
  <2>1. CASE UNCHANGED marketVars
    BY <2>1, MarketAlone DEF marketVars
  <2>2. ASSUME NEW slab \in Slab, NEW index \in Indices, BubblegumInstruction(slab, index)
        PROVE  LedgerSafe
    BY <2>2, MarketAlone DEF BubblegumInstruction
  <2>3. ASSUME NEW payer \in Wallet, NEW authority \in Wallet, NEW share \in Share,
               initialize_marketplace(payer, share, authority)
        PROVE  LedgerSafe
    BY <2>3, InitializeSafe
  <2>4. ASSUME NEW signer \in Wallet, NEW authority \in Optional(Wallet), NEW share \in Optional(Share),
               update_marketplace_properties(signer, authority, share)
        PROVE  LedgerSafe
    BY <2>4, UpdateSafe
  <2>5. ASSUME NEW slab \in Slab, NEW index \in Indices, NEW leaf \in StoredLeaves(slab),
               NEW price \in Price, create_or_modify_listing(slab, leaf, price, index)
        PROVE  LedgerSafe
    BY <2>5, MarketAlone DEF create_or_modify_listing, modify_compressed_nft_delegate
  <2>6. ASSUME NEW slab \in Slab, NEW index \in Indices, NEW leaf \in StoredLeaves(slab),
               NEW new_delegate \in Key, remove_listing(slab, leaf, new_delegate, index)
        PROVE  LedgerSafe
    BY <2>6, MarketAlone DEF remove_listing, modify_compressed_nft_delegate
  <2>7. ASSUME NEW slab \in Slab, NEW index \in Indices, NEW leaf \in StoredLeaves(slab),
               NEW price \in Price, NEW purchaser \in Wallet, NEW message \in Metadata,
               purchase(slab, leaf, price, purchaser, message.creators, index)
        PROVE  LedgerSafe
    BY <2>7, PurchaseSafe
  <2>8. ASSUME NEW authority \in Wallet, NEW recipient \in Wallet, NEW amount \in Amount,
               withdraw_fees(authority, recipient, amount)
        PROVE  LedgerSafe
    BY <2>8, WithdrawSafe
  <2> QED
    BY <2>1, <2>2, <2>3, <2>4, <2>5, <2>6, <2>7, <2>8 DEF MarketNext
<1> QED
  BY <1>1, <1>2 DEF LedgerSafe, MarketInv

\* It holds at first.
LEMMA InitMarketInv == MarketInit => MarketInv
<1> SUFFICES ASSUME MarketInit PROVE MarketInv
  OBVIOUS
<1>1. IInv
  BY InitPlaced DEF MarketInit
<1>2. lamports \in [Account -> Nat]
  BY LamportAssumption DEF MarketInit
<1> QED
  BY <1>1, <1>2, LamportAssumption DEF MarketInit, MarketInv

\* The account of the marketplace, the balances and the counters have their types.
THEOREM MarketTypeCorrect == MarketSpec => []MarketTypeOK
<1>1. MarketInv => MarketTypeOK
  BY DEF MarketInv, MarketTypeOK, IInv
<1> QED
  BY InitMarketInv, StepMarketInv, <1>1, PTL DEF MarketSpec

-----------------------------------------------------------------------------
(* Sales. *)

\* A share of an amount, taken from whole basis points, falls short of the exact
\* share by less than the share itself.
LEMMA RoundedShare ==
  ASSUME NEW n \in Nat, NEW share \in Nat
  PROVE  DueWithin(BasisPoint(n) * share, (n * share) \div 10000, share)
<1> DEFINE q == n \div 10000
           r == n % 10000
           x == q * share
           y == r * share
           d == (n * share) \div 10000
<1>1. q \in Nat /\ r \in Nat /\ r <= 10000 /\ n = 10000 * q + r
  OBVIOUS
<1> HIDE DEF q, r
<1>2. x \in Nat /\ y \in Nat /\ n * share = 10000 * x + y
  BY <1>1
<1>3. y <= 10000 * share
  BY <1>1
<1>4. n * share \in Nat
  OBVIOUS
<1>5. d \in Int /\ 10000 * d <= n * share /\ n * share < 10000 * d + 10000
  BY <1>4
<1> HIDE DEF x, y, d
<1>6. x <= d /\ d <= x + share
  BY <1>2, <1>3, <1>5
<1>7. d - share <= x /\ x <= d
  BY <1>2, <1>5, <1>6
<1>8. BasisPoint(n) * share = x
  BY DEF BasisPoint, x, q
<1> QED
  BY <1>7, <1>8 DEF DueWithin, d

\* The same for a share in percent.
LEMMA RoundedPercentage ==
  ASSUME NEW n \in Nat, NEW share \in Nat
  PROVE  DueWithin(CreatorFee(n, share), (n * share) \div 100, share * 100)
<1> DEFINE q == n \div 10000
           r == n % 10000
           x == q * share
           y == r * share
           d == (n * share) \div 100
<1>1. q \in Nat /\ r \in Nat /\ r <= 10000 /\ n = 10000 * q + r
  OBVIOUS
<1> HIDE DEF q, r
<1>2. x \in Nat /\ y \in Nat /\ n * share = 10000 * x + y
  BY <1>1
<1>3. y <= 10000 * share
  BY <1>1
<1>4. n * share \in Nat
  OBVIOUS
<1>5. d \in Int /\ 100 * d <= n * share /\ n * share < 100 * d + 100
  BY <1>4
<1>6. q * (share * 100) = 100 * x
  BY <1>1
<1> HIDE DEF x, y, d
<1>7. 100 * x <= d /\ d <= 100 * x + 100 * share
  BY <1>2, <1>3, <1>5
<1>8. CreatorFee(n, share) = 100 * x
  BY <1>6 DEF CreatorFee, BasisPoint, q
<1> QED
  BY <1>2, <1>5, <1>7, <1>8 DEF DueWithin, d

\* Who is paid once, and does not pay, gains just that.
LEMMA PaidOnce ==
  ASSUME lamports \in [Account -> Nat], NEW purchaser \in Account, NEW payouts,
         Affords(purchaser, payouts), NEW a \in Account, a # purchaser,
         NEW turn \in 1..Len(payouts), \A k \in 1..Len(payouts) : payouts[k].to = a <=> k = turn
  PROVE  AfterPayouts(purchaser, payouts)[Len(payouts)][a] - lamports[a] = payouts[turn].amount
<1> DEFINE after == AfterPayouts(purchaser, payouts)
           N == Len(payouts)
           paid == payouts[turn].amount
           S == {k \in 0..N : after[k][a] = lamports[a] + IF k >= turn THEN paid ELSE 0}
<1>1. N \in Nat /\ lamports[a] \in Nat /\ paid \in Nat
  BY DEF Affords
<1>2. after[0] = lamports
  BY <1>1, PayoutsStep
<1>3. ASSUME NEW k \in 0..N-1
      PROVE  /\ after[k][a] \in Nat
             /\ after[k + 1][a] = IF k + 1 = turn THEN after[k][a] + paid ELSE after[k][a]
  <2>1. k + 1 \in 1..N
    BY <1>1
  <2>2. payouts[k + 1].to = a <=> k + 1 = turn
    BY <2>1
  <2> QED
    BY <1>1, <2>2, LedgerStep
<1> HIDE DEF after, N, paid
<1>4. turn \in 1..N
  BY DEF N
<1>5. 0 \in S
  BY <1>1, <1>2, <1>4
<1>6. ASSUME NEW k \in 0..N-1, k \in S PROVE k + 1 \in S
  <2>1. after[k][a] = lamports[a] + IF k >= turn THEN paid ELSE 0
    BY <1>6
  <2>2. CASE k + 1 = turn
    BY <1>1, <1>3, <1>4, <2>1, <2>2
  <2>3. CASE k + 1 # turn
    BY <1>1, <1>3, <1>4, <2>1, <2>3
  <2> QED
    BY <2>2, <2>3
<1> HIDE DEF S
<1>7. \A k \in 0..N : k \in S
  BY <1>1, <1>5, <1>6, Upwards
<1>8. N \in S
  BY <1>1, <1>7
<1>9. after[N][a] = lamports[a] + paid
  BY <1>1, <1>4, <1>8 DEF S
<1> QED
  BY <1>1, <1>9 DEF after, N, paid

\* A buyer who gets nothing back pays the price, to the lamport: what rounding
\* leaves over goes to the seller.
LEMMA BuyerPays ==
  ASSUME NEW purchaser, NEW price, NEW creators, NEW former_owner,
         Buys(purchaser, price, creators, former_owner),
         purchaser # former_owner,
         \A c \in DOMAIN creators : creators[c].address # purchaser
  PROVE  LET payouts == Payouts(price, creators, former_owner)
         IN  AfterPayouts(purchaser, payouts)[Len(payouts)][purchaser] - lamports[purchaser] = -price
<1> DEFINE payouts == Payouts(price, creators, former_owner)
           after == AfterPayouts(purchaser, payouts)
           N == Len(creators)
           fee == MarketplaceFee(price)
           remaining == price - fee
           f == [c \in DOMAIN creators |-> CreatorFee(remaining, creators[c].share)]
           D == 1..N
           had == lamports[purchaser]
           S == {k \in 0..N : after[k + 1][purchaser] = had - fee - Sum(f, D, 1..k)}
<1>1. /\ price \in Nat /\ creators \in Creators /\ former_owner \in Key /\ marketplace_props.share \in Nat
      /\ purchaser \in Wallet /\ lamports \in [Account -> Nat]
  BY DEF Buys
<1>2. /\ Affords(purchaser, payouts) /\ purchaser \in Account /\ purchaser # Marketplace
      /\ remaining \in Nat /\ SellerAmount(price, creators) \in Nat
  BY PurchaseAffords
<1>3. PayoutList(payouts, price, creators, former_owner)
  BY <1>1, PayoutsAre
<1>4. N \in Nat /\ DOMAIN creators = D
  BY <1>1, CreatorTypes
<1>5. /\ Len(payouts) = N + 2 /\ payouts[1] = [to |-> Marketplace, amount |-> fee]
      /\ payouts[N + 2] = [to |-> former_owner, amount |-> SellerAmount(price, creators)]
  BY <1>3 DEF PayoutList
<1>6. \A c \in D : payouts[c + 1] = [to |-> creators[c].address, amount |-> f[c]]
  BY <1>3, <1>4 DEF PayoutList
<1>7. fee \in Nat /\ \A c \in D : f[c] \in Nat
  BY <1>1, <1>2, <1>4, FeeTypes
<1>8. had \in Nat
  BY <1>1, <1>2
<1>9. after[0] = lamports
  BY <1>2, PayoutsStep DEF Affords
<1>10. ASSUME NEW k \in 0..N+1, payouts[k + 1].to # purchaser
       PROVE  /\ after[k][purchaser] \in Nat /\ payouts[k + 1].amount \in Nat
              /\ after[k + 1][purchaser] = after[k][purchaser] - payouts[k + 1].amount
  <2>1. k \in 0..Len(payouts)-1
    BY <1>4, <1>5
  <2> HIDE DEF payouts
  <2> QED
    BY <1>1, <1>2, <1>10, <2>1, LedgerStep
<1>11. CreatorFees(remaining, creators) = SumFunction(f) /\ DOMAIN f = D
  BY <1>4 DEF CreatorFees
<1>12. SellerAmount(price, creators) = remaining - CreatorFees(remaining, creators)
  BY DEF SellerAmount
<1>13. IsFiniteSet(D)
  BY <1>4, FS_Interval
<1> HIDE DEF payouts, after, fee, f, had
<1>14. Addable(f, D)
  BY <1>7 DEF Addable
<1>15. \A s \in SUBSET D : Sum(f, D, s) \in Int
  BY <1>13, <1>14, SumType
<1>16. 0 \in S
  <2>1. Sum(f, D, {}) = 0
    BY <1>13, SumStep
  <2>2. 1..0 = {}
    OBVIOUS
  <2>3. 0 \in 0..N+1 /\ payouts[0 + 1].to # purchaser /\ payouts[0 + 1].amount = fee
    BY <1>2, <1>4, <1>5
  <2>4. after[0 + 1][purchaser] = had - fee
    BY <1>9, <1>10, <2>3 DEF had
  <2> QED
    BY <1>4, <1>7, <1>8, <2>1, <2>2, <2>4
<1>17. ASSUME NEW k \in 0..N-1, k \in S PROVE k + 1 \in S
  <2>1. after[k + 1][purchaser] = had - fee - Sum(f, D, 1..k)
    BY <1>17
  <2>2. k + 1 \in D /\ 1..k+1 \in SUBSET D /\ k + 1 \in 1..k+1 /\ (1..k+1) \ {k + 1} = 1..k /\ 1..k \in SUBSET D
    BY <1>4
  <2>3. Sum(f, D, 1..k+1) = f[k + 1] + Sum(f, D, (1..k+1) \ {k + 1})
    BY <1>13, <1>14, <2>2, SumWithout
  <2>4. payouts[(k + 1) + 1].to # purchaser /\ payouts[(k + 1) + 1].amount = f[k + 1]
    <3> DEFINE c == k + 1
    <3>1. c \in D
      BY <2>2
    <3> HIDE DEF c
    <3>2. payouts[c + 1] = [to |-> creators[c].address, amount |-> f[c]] /\ creators[c].address # purchaser
      BY <1>4, <1>6, <3>1
    <3>3. payouts[c + 1].to # purchaser /\ payouts[c + 1].amount = f[c]
      BY <3>2
    <3> QED
      BY <3>3 DEF c
  <2>5. after[(k + 1) + 1][purchaser] = after[k + 1][purchaser] - f[k + 1]
    BY <1>4, <1>10, <2>2, <2>4
  <2>6. Sum(f, D, 1..k) \in Int /\ f[k + 1] \in Int
    BY <1>7, <1>15, <2>2
  <2>7. Sum(f, D, 1..k+1) = f[k + 1] + Sum(f, D, 1..k)
    BY <2>2, <2>3
  <2>8. after[(k + 1) + 1][purchaser] = had - fee - Sum(f, D, 1..k+1)
    <3> DEFINE before == Sum(f, D, 1..k)
               now == Sum(f, D, 1..k+1)
    <3>1. now = f[k + 1] + before /\ before \in Int /\ after[k + 1][purchaser] = had - fee - before
      BY <2>1, <2>6, <2>7
    <3> HIDE DEF before, now
    <3>2. after[(k + 1) + 1][purchaser] = had - fee - now
      BY <1>7, <1>8, <2>5, <2>6, <3>1
    <3> QED
      BY <3>2 DEF now
  <2> QED
    BY <1>4, <2>8
<1>18. N \in S
  <2> HIDE DEF S
  <2>1. \A k \in 0..N : k \in S
    BY <1>4, <1>16, <1>17, Upwards
  <2> QED
    BY <1>4, <2>1
<1>19. after[N + 1][purchaser] = had - fee - Sum(f, D, D)
  BY <1>18
<1>20. after[N + 2][purchaser] = after[N + 1][purchaser] - SellerAmount(price, creators)
  <2>1. N + 1 \in 0..N+1 /\ (N + 1) + 1 = N + 2
    BY <1>4
  <2>2. payouts[(N + 1) + 1].to # purchaser /\ payouts[(N + 1) + 1].amount = SellerAmount(price, creators)
    BY <1>5, <2>1
  <2> QED
    BY <1>10, <2>1, <2>2
<1>21. SellerAmount(price, creators) = price - fee - Sum(f, D, D)
  <2>1. SumFunction(f) = Sum(f, D, D)
    BY <1>11, SumFunctionIs
  <2> QED
    BY <1>11, <1>12, <2>1
<1>22. Sum(f, D, D) \in Int
  BY <1>15
<1>23. after[N + 2][purchaser] - had = -price
  BY <1>1, <1>7, <1>8, <1>19, <1>20, <1>21, <1>22
<1> QED
  BY <1>5, <1>23 DEF payouts, after, had

\* What the marketplace and a creator who is listed once gain from a purchase.
LEMMA PayeesGain ==
  ASSUME NEW purchaser, NEW price, NEW creators, NEW former_owner,
         Buys(purchaser, price, creators, former_owner)
  PROVE  LET payouts == Payouts(price, creators, former_owner)
             after == AfterPayouts(purchaser, payouts)[Len(payouts)]
         IN  /\ after[Marketplace] - lamports[Marketplace] = MarketplaceFee(price)
             /\ \A c \in DOMAIN creators :
                  (/\ creators[c].address \notin {former_owner, purchaser}
                   /\ \A d \in DOMAIN creators : creators[d].address = creators[c].address => d = c) =>
                  after[creators[c].address] - lamports[creators[c].address] =
                    CreatorFee(price - MarketplaceFee(price), creators[c].share)
<1> DEFINE payouts == Payouts(price, creators, former_owner)
           after == AfterPayouts(purchaser, payouts)[Len(payouts)]
           N == Len(creators)
           fee == MarketplaceFee(price)
           remaining == price - fee
<1>1. /\ price \in Nat /\ creators \in Creators /\ former_owner \in Key
      /\ purchaser \in Wallet /\ lamports \in [Account -> Nat]
  BY DEF Buys
<1>2. Affords(purchaser, payouts) /\ purchaser \in Account /\ purchaser # Marketplace
  BY PurchaseAffords
<1>3. PayoutList(payouts, price, creators, former_owner)
  BY <1>1, PayoutsAre
<1>4. N \in Nat /\ DOMAIN creators = 1..N /\ \A c \in 1..N : creators[c].address \in Key
  BY <1>1, CreatorTypes
<1>5. Len(payouts) = N + 2 /\ payouts[1].to = Marketplace /\ payouts[1].amount = fee
      /\ payouts[N + 2].to = former_owner
  <2> HIDE DEF payouts
  <2> QED
    BY <1>3 DEF PayoutList
<1>6. \A c \in 1..N : /\ payouts[c + 1].to = creators[c].address
                      /\ payouts[c + 1].amount = CreatorFee(remaining, creators[c].share)
  <2>1. \A c \in 1..N : payouts[c + 1] = [to |-> creators[c].address,
                                         amount |-> CreatorFee(remaining, creators[c].share)]
    BY <1>3 DEF PayoutList
  <2> HIDE DEF payouts, N, remaining
  <2>2. ASSUME NEW c \in 1..N
        PROVE  /\ payouts[c + 1].to = creators[c].address
               /\ payouts[c + 1].amount = CreatorFee(remaining, creators[c].share)
    <3>1. payouts[c + 1] = [to |-> creators[c].address, amount |-> CreatorFee(remaining, creators[c].share)]
      BY <2>1
    <3> QED
      BY <3>1
  <2> QED
    BY <2>2
<1>7. Marketplace \in Account /\ Marketplace \notin Key /\ \A k \in Key : k \in Account
  BY WalletAssumption DEF Account
<1> HIDE DEF payouts, N, fee, remaining
<1>8. after[Marketplace] - lamports[Marketplace] = fee
  <2>1. ASSUME NEW k \in 1..Len(payouts) PROVE payouts[k].to = Marketplace <=> k = 1
    <3>1. CASE k = 1
      BY <1>5, <3>1
    <3>2. CASE k = N + 2
      BY <1>1, <1>4, <1>5, <1>7, <3>2
    <3>3. CASE k # 1 /\ k # N + 2
      <4> DEFINE c == k - 1
      <4>1. c \in 1..N /\ k = c + 1
        BY <1>4, <1>5, <3>3
      <4> HIDE DEF c
      <4> QED
        BY <1>4, <1>6, <1>7, <3>3, <4>1
    <3> QED
      BY <3>1, <3>2, <3>3
  <2>2. 1 \in 1..Len(payouts)
    BY <1>4, <1>5
  <2>3. after[Marketplace] - lamports[Marketplace] = payouts[1].amount
    BY <1>1, <1>2, <1>7, <2>1, <2>2, PaidOnce
  <2> QED
    BY <1>5, <2>3
<1>9. ASSUME NEW c \in 1..N, creators[c].address \notin {former_owner, purchaser},
             \A d \in 1..N : creators[d].address = creators[c].address => d = c
      PROVE  after[creators[c].address] - lamports[creators[c].address] =
               CreatorFee(remaining, creators[c].share)
  <2> DEFINE a == creators[c].address
  <2>1. a \in Key /\ a # former_owner /\ a # purchaser
    BY <1>4, <1>9
  <2>2. \A d \in 1..N : creators[d].address = a => d = c
    BY <1>9
  <2>3. payouts[c + 1].to = a /\ payouts[c + 1].amount = CreatorFee(remaining, creators[c].share)
    BY <1>6
  <2> HIDE DEF a
  <2>4. ASSUME NEW k \in 1..Len(payouts) PROVE payouts[k].to = a <=> k = c + 1
    <3>1. CASE k = 1
      BY <1>4, <1>5, <1>7, <2>1, <3>1
    <3>2. CASE k = N + 2
      BY <1>4, <1>5, <2>1, <3>2
    <3>3. CASE k # 1 /\ k # N + 2
      <4> DEFINE d == k - 1
      <4>1. d \in 1..N /\ k = d + 1
        BY <1>4, <1>5, <3>3
      <4> HIDE DEF d
      <4>2. payouts[k].to = creators[d].address
        BY <1>6, <4>1
      <4>3. CASE d = c
        BY <2>3, <4>1, <4>3
      <4>4. CASE d # c
        BY <1>4, <2>2, <4>1, <4>2, <4>4
      <4> QED
        BY <4>3, <4>4
    <3> QED
      BY <3>1, <3>2, <3>3
  <2>5. c + 1 \in 1..Len(payouts) /\ a \in Account
    BY <1>4, <1>5, <1>7, <2>1
  <2>6. after[a] - lamports[a] = payouts[c + 1].amount
    BY <1>1, <1>2, <2>1, <2>4, <2>5, PaidOnce
  <2> QED
    BY <2>3, <2>6 DEF a
<1> QED
  BY <1>4, <1>8, <1>9 DEF payouts, fee, remaining

\* A purchase is a sale as it is listed.
LEMMA PurchaseAsListed ==
  ASSUME MarketInv, NEW slab \in Slab, NEW i \in Indices, NEW leaf \in StoredLeaves(slab),
         NEW price \in Price, NEW purchaser \in Wallet, NEW message \in Metadata,
         purchase(slab, leaf, price, purchaser, message.creators, i),
         TakenUnsigned(slab, i)
  PROVE  SoldAsListed(slab, i)
<1> DEFINE creators == message.creators
           payouts == Payouts(price, creators, leaf.owner)
           new_leaf == TransferredLeaf(slab, leaf, purchaser)
           fee == MarketplaceFee(price)
           remaining == price - fee
<1>1. Buys(purchaser, price, creators, leaf.owner)
  BY PurchaseBuys
<1>2. /\ price \in Nat /\ marketplace_props.share \in Nat /\ creators \in Creators
      /\ remaining \in Nat
  BY <1>1, PurchaseAffords DEF Buys
<1>3. leaf \in LeafSchema /\ purchaser \in Key
  BY StoredLeaf, WalletAssumption DEF MarketInv
<1>4. transfer(slab, leaf, purchaser, i, {purchaser, leaf.delegate})
  BY DEF purchase
<1>5. leaves[slab][i] = to_node(leaf) /\ leaves' = [leaves EXCEPT ![slab][i] = to_node(new_leaf)]
  BY <1>4 DEF transfer, replace_leaf
<1>6. new_leaf \in LeafSchema /\ new_leaf.owner = purchaser
  BY <1>3, NewOwnersLeaf
<1>7. leaf.creator_hash = <<"creators", creators>> /\ leaf.delegate = ListingDelegate(price)
  BY DEF purchase, ListedAt
<1>8. lamports' = AfterPayouts(purchaser, payouts)[Len(payouts)]
  BY DEF purchase
<1>9. signers' = {purchaser, leaf.delegate}
  BY <1>4 DEF transfer
<1> HIDE DEF new_leaf
<1>10. leaves[slab][i][1] = leaf
  BY <1>3, <1>5, LeafNode
<1>11. leaves'[slab][i] = to_node(new_leaf)
  BY <1>5 DEF MarketInv, IInv, TypeOK
<1>12. leaves'[slab][i] # EMPTY /\ leaves'[slab][i][1].owner = purchaser
  BY <1>6, <1>11, LeafNode
<1>13. leaf.owner # purchaser
  BY <1>9, <1>10 DEF TakenUnsigned
<1>14. Gain(Marketplace) = fee
  BY <1>1, <1>8, PayeesGain DEF Gain
<1>15. ASSUME NEW c \in DOMAIN creators, creators[c].address \notin {leaf.owner, purchaser},
              \A d \in DOMAIN creators : creators[d].address = creators[c].address => d = c
       PROVE  Gain(creators[c].address) = CreatorFee(remaining, creators[c].share)
  BY <1>1, <1>8, <1>15, PayeesGain DEF Gain
<1>16. (\A c \in DOMAIN creators : creators[c].address # purchaser) => Gain(purchaser) = -price
  BY <1>1, <1>8, <1>13, BuyerPays DEF Gain
<1>17. \A c \in DOMAIN creators : creators[c].share \in Nat
  BY <1>2, CreatorTypes
<1> HIDE DEF creators, payouts, fee, remaining
<1>18. DueWithin(fee, (price * marketplace_props.share) \div 10000, marketplace_props.share)
  BY <1>2, RoundedShare DEF fee, MarketplaceFee
<1>19. \A c \in DOMAIN creators :
         DueWithin(CreatorFee(remaining, creators[c].share), (remaining * creators[c].share) \div 100,
                   creators[c].share * 100)
  BY <1>2, <1>17, RoundedPercentage
<1>20. leaf.creator_hash[2] = creators
  BY <1>7 DEF creators
<1>21. ASSUME NEW c \in DOMAIN creators, creators[c].address \notin {leaf.owner, purchaser},
              \A d \in DOMAIN creators : creators[d].address = creators[c].address => d = c
       PROVE  DueWithin(Gain(creators[c].address), ((price - Gain(Marketplace)) * creators[c].share) \div 100,
                        creators[c].share * 100)
  <2>1. price - Gain(Marketplace) = remaining
    BY <1>14 DEF remaining
  <2>2. Gain(creators[c].address) = CreatorFee(remaining, creators[c].share)
    BY <1>15, <1>21
  <2> QED
    BY <1>19, <2>1, <2>2
<1>22. purchaser \in signers' \cap Wallet
  BY <1>9
<1>23. /\ leaf.delegate = ListingDelegate(price)
       /\ DueWithin(Gain(Marketplace), (price * marketplace_props.share) \div 10000, marketplace_props.share)
  BY <1>7, <1>14, <1>18
<1> QED
  BY <1>10, <1>12, <1>16, <1>20, <1>21, <1>22, <1>23 DEF SoldAsListed

\* Any other step that takes an NFT without its owner's signature has that of a
\* wallet which is its delegate.
LEMMA OthersConsent ==
  ASSUME IInv, NEW slab \in Slab, NEW leaf \in StoredLeaves(slab), NEW index \in Indices,
         \/ \E new_delegate : delegate(slab, leaf, new_delegate, index)
         \/ redeem(slab, leaf, index),
         NEW s \in Slab, NEW i \in Indices
  PROVE  ~TakenUnsigned(s, i)
<1>1. leaves[slab][index] = to_node(leaf) /\ leaf.owner \in signers'
  BY DEF delegate, redeem, replace_leaf
<1>2. PICK node : leaves' = [leaves EXCEPT ![slab][index] = node]
  BY DEF delegate, redeem, replace_leaf
<1>3. leaf \in LeafSchema
  BY StoredLeaf
<1>4. leaves[slab][index][1] = leaf
  BY <1>1, <1>3, LeafNode
<1>5. CASE s = slab /\ i = index
  BY <1>1, <1>4, <1>5 DEF TakenUnsigned
<1>6. CASE ~(s = slab /\ i = index)
  BY <1>2, <1>6 DEF TakenUnsigned, IInv, TypeOK
<1> QED
  BY <1>5, <1>6

\* Every step that takes an NFT from its owner is a sale as listed.
LEMMA StepAsListed ==
  ASSUME MarketInv, EventsTellLeaves, [MarketNext]_marketVars
  PROVE  [\A slab \in Slab, i \in Indices : TakenUnsigned(slab, i) => SoldAsListed(slab, i)]_marketVars
<1> SUFFICES ASSUME NEW s \in Slab, NEW i \in Indices, TakenUnsigned(s, i)
             PROVE  SoldAsListed(s, i)
  OBVIOUS
<1>1. IInv
  BY DEF MarketInv
<1>2. leaves' # leaves
  BY DEF TakenUnsigned
<1>3. Consented
  <2>1. [Consented]_vars
    BY <1>1, MarketStep, StepTold
  <2> QED
    BY <1>2, <2>1 DEF vars
<1>4. ~(signers' \subseteq Wallet)
  <2>1. leaves[s][i][1].delegate \in signers' /\ leaves[s][i][1].delegate \notin Wallet
    BY <1>3 DEF Consented, TakenUnsigned
  <2> QED
    BY <2>1
<1>5. ASSUME NEW slab \in Slab, NEW index \in Indices, BubblegumInstruction(slab, index)
      PROVE  FALSE
  <2>1. CASE \E wallet \in Wallet : create_tree(slab, wallet)
    BY <1>4, <2>1 DEF create_tree
  <2>2. CASE \E mint_authority, owner \in Wallet, del \in Key, message \in Metadata :
               mint_v1(slab, mint_authority, owner, del, message)
    BY <1>4, <2>2 DEF mint_v1
  <2>3. ASSUME NEW leaf \in StoredLeaves(slab),
               \/ \E new_owner \in Wallet, signed \in SUBSET Wallet :
                    transfer(slab, leaf, new_owner, index, signed)
               \/ \E new_delegate \in Key : delegate(slab, leaf, new_delegate, index)
               \/ \E signed \in SUBSET Wallet : burn(slab, leaf, index, signed)
               \/ redeem(slab, leaf, index)
        PROVE  FALSE
    <3>1. ASSUME NEW new_owner \in Wallet, NEW signed \in SUBSET Wallet,
                 transfer(slab, leaf, new_owner, index, signed)
          PROVE  FALSE
      BY <1>4, <3>1 DEF transfer
    <3>2. ASSUME NEW signed \in SUBSET Wallet, burn(slab, leaf, index, signed)
          PROVE  FALSE
      BY <1>4, <3>2 DEF burn
    <3>3. ASSUME NEW new_delegate \in Key, delegate(slab, leaf, new_delegate, index)
          PROVE  FALSE
      BY <1>1, <3>3, OthersConsent
    <3>4. ASSUME redeem(slab, leaf, index)
          PROVE  FALSE
      BY <1>1, <3>4, OthersConsent
    <3> QED
      BY <2>3, <3>1, <3>2, <3>3, <3>4
  <2>4. CASE \E owner \in Wallet : cancel_redeem(slab, slab, index, owner)
    BY <1>4, <2>4 DEF cancel_redeem
  <2>5. CASE \E owner \in Wallet, metadata \in Metadata : decompress_v1(slab, index, owner, metadata)
    BY <1>4, <2>5 DEF decompress_v1
  <2> QED
    BY <1>5, <2>1, <2>2, <2>3, <2>4, <2>5 DEF BubblegumInstruction
<1>6. ASSUME NEW payer, NEW authority, NEW share, initialize_marketplace(payer, share, authority)
      PROVE  FALSE
  BY <1>2, <1>6 DEF initialize_marketplace, vars
<1>7. ASSUME NEW signer, NEW authority, NEW share, update_marketplace_properties(signer, authority, share)
      PROVE  FALSE
  BY <1>2, <1>7 DEF update_marketplace_properties, vars
<1>8. ASSUME NEW slab \in Slab, NEW index \in Indices, NEW leaf \in StoredLeaves(slab),
             NEW new_delegate, modify_compressed_nft_delegate(slab, leaf, new_delegate, index)
      PROVE  FALSE
  BY <1>1, <1>8, OthersConsent DEF modify_compressed_nft_delegate
<1>9. ASSUME NEW slab \in Slab, NEW index \in Indices, NEW leaf \in StoredLeaves(slab),
             NEW price \in Price, NEW purchaser \in Wallet, NEW message \in Metadata,
             purchase(slab, leaf, price, purchaser, message.creators, index)
      PROVE  SoldAsListed(s, i)
  <2>1. leaves' = [leaves EXCEPT ![slab][index] = to_node(TransferredLeaf(slab, leaf, purchaser))]
    BY <1>9 DEF purchase, transfer, replace_leaf
  <2>2. s = slab /\ i = index
    BY <1>1, <2>1 DEF TakenUnsigned, IInv, TypeOK
  <2> QED
    BY <1>9, <2>2, PurchaseAsListed
<1>10. ASSUME NEW authority, NEW recipient, NEW amount, withdraw_fees(authority, recipient, amount)
       PROVE  FALSE
  BY <1>2, <1>10 DEF withdraw_fees, vars
<1>11. CASE UNCHANGED marketVars
  BY <1>2, <1>11 DEF marketVars, vars
<1>12. CASE MarketNext
  BY <1>5, <1>6, <1>7, <1>8, <1>9, <1>10, <1>12
     DEF MarketNext, create_or_modify_listing, remove_listing
<1> QED
  BY <1>11, <1>12

\* For any wallets, prices, shares and lists of creators: an NFT leaves its owner
\* without his signature or that of a wallet that is its delegate only by a sale at
\* the price that its delegate stands for in the leaf, whoever put it there, of which
\* everybody gets his share, short of what whole basis points leave over.
THEOREM SalesAreAsListed == MarketSpec => SoldAtListedPrice
<1>1. MarketInv /\ EventsTellLeaves /\ [MarketNext]_marketVars =>
        [\A slab \in Slab, i \in Indices : TakenUnsigned(slab, i) => SoldAsListed(slab, i)]_marketVars
  BY StepAsListed
<1>2. MarketSpec => []EventsTellLeaves
  BY MarketIsBubblegum, EventsAreTrue
<1> QED
  BY InitMarketInv, StepMarketInv, <1>1, <1>2, PTL DEF MarketSpec, SoldAtListedPrice
=============================================================================
