--------------------------- MODULE EconomyProofs ---------------------------
(***************************************************************************)
(* Proofs about the economy of an institution: the tokens it transfers     *)
(* (TokenTransfers), what its customers pay (Commerce), and what its       *)
(* agents earn and lose (Court).                                           *)
(***************************************************************************)
EXTENDS MCEconomy, InductionLemmas

-----------------------------------------------------------------------------
(***************************************************************************)
(* Transfers.  The wallet of every transfer is registered before the       *)
(* transfer is prepared, at the level the command read; and a transfer     *)
(* whose payee's nonce never came from the chain carries one of the        *)
(* wallets and nonces that were insisted on, wherever it has got to.       *)
(***************************************************************************)
SafeLevel(w) == level[w] # Nil /\ level[w] >= SelfCustody /\ (w \in Hot => w \in secrets)

CustodyInv ==
  /\ CustodyIsReal
  /\ provision # Nil => level[provision] # Nil
  /\ \A o \in Operators : prepared[o] # Nil =>
       /\ level[prepared[o].transfer.from] = prepared[o].level
       /\ prepared[o].level # Nil

Named(t, taken, insisted) == t.to \in taken \/ <<t.from, t.nonce>> \in insisted[t.to]
Insisted(t) == Named(t, resolved, pins)

PinInv ==
  /\ \A p \in Payees : IsFiniteSet(pins[p])
  /\ \A o \in Operators : prepared[o] # Nil => Insisted(prepared[o].transfer)
  /\ \A t \in signed \union pool \union mined : Insisted(t)

TransferInv == TransferTypeOK /\ CustodyInv /\ PinInv

LEMMA TransferInitInv == TransferInit => TransferInv
<1> SUFFICES ASSUME TransferInit PROVE TransferInv
  OBVIOUS
<1>1. TransferTypeOK
  BY DEF TransferInit, TransferTypeOK
<1>2. CustodyInv /\ PinInv
  BY FS_EmptySet DEF TransferInit, CustodyInv, CustodyIsReal, PinInv
<1> QED
  BY <1>1, <1>2 DEF TransferInv

(* A step keeps the transfers insisted on when it forgets no wallet and    *)
(* nonce and brings none but insisted ones.                                *)
LEMMA InsistedStays ==
  ASSUME NEW t \in Transfer, Insisted(t), resolved \subseteq resolved',
         \A p \in Payees : pins[p] \subseteq pins'[p]
  PROVE  Named(t, resolved', pins')
BY DEF Insisted, Named, Transfer

(* Provisioning and registration: a level, once given, stays.              *)
LEMMA CustodyStep ==
  ASSUME TransferInv, UNCHANGED <<signVars, chainVars>>,
         \/ \E w \in Custodied, l \in Levels : RegisterWallet(w, l)
         \/ \E w \in Hot : ProvisionWallet(w)
         \/ ProvisionAccount \/ ProvisionSecret \/ ProvisionEnds
         \/ UNCHANGED transferVars
  PROVE  TransferInv'
<1> USE TransferAssumptions DEF SelfCustody
<1>1. TransferTypeOK /\ CustodyInv /\ PinInv
  BY DEF TransferInv
<1>2. UNCHANGED <<prepared, signed, resolved, pins, pool, mined>>
  BY DEF signVars, chainVars
<1>3. PinInv'
  BY <1>1, <1>2 DEF PinInv, Insisted, Named
<1>4. /\ level' \in [Wallets -> Levels \union {SelfCustody, Nil}]
      /\ accounts' \subseteq Wallets /\ secrets' \subseteq Hot
      /\ provision' \in Hot \union {Nil}
  BY <1>1 DEF TransferTypeOK, RegisterWallet, ProvisionWallet, ProvisionAccount, ProvisionSecret,
    ProvisionEnds, transferVars, custodyVars, Wallets
<1>5. TransferTypeOK'
  BY <1>1, <1>2, <1>4 DEF TransferTypeOK
<1>6. \A w \in Wallets : level[w] # Nil => level'[w] = level[w]
  BY <1>1 DEF TransferTypeOK, RegisterWallet, ProvisionWallet, ProvisionAccount, ProvisionSecret,
    ProvisionEnds, transferVars, custodyVars, Wallets
<1>7. secrets \subseteq secrets'
  BY DEF RegisterWallet, ProvisionWallet, ProvisionAccount, ProvisionSecret, ProvisionEnds,
    transferVars, custodyVars
<1>8. \A w \in accounts' \union ({provision'} \ {Nil}) : level'[w] # Nil
  BY <1>1, <1>6 DEF TransferTypeOK, CustodyInv, CustodyIsReal, RegisterWallet, ProvisionWallet,
    ProvisionAccount, ProvisionSecret, ProvisionEnds, transferVars, custodyVars, Wallets
<1>9. \A t \in signed' :
        level'[t.from] # Nil /\ level'[t.from] >= SelfCustody /\ (t.from \in Hot => t.from \in secrets')
  <2> TAKE t \in signed'
  <2>1. t \in signed /\ t.from \in Wallets
    BY <1>1, <1>2 DEF TransferTypeOK, Transfer
  <2> QED
    BY <1>1, <1>6, <1>7, <2>1 DEF CustodyInv, CustodyIsReal
<1>10. \A o \in Operators : prepared'[o] # Nil =>
         level'[prepared'[o].transfer.from] = prepared'[o].level /\ prepared'[o].level # Nil
  <2> SUFFICES ASSUME NEW o \in Operators, prepared'[o] # Nil
               PROVE  level'[prepared'[o].transfer.from] = prepared'[o].level
                      /\ prepared'[o].level # Nil
    OBVIOUS
  <2>1. prepared'[o] = prepared[o] /\ prepared[o].transfer.from \in Wallets
    BY <1>1, <1>2 DEF TransferTypeOK, Transfer
  <2> QED
    BY <1>1, <1>6, <2>1 DEF CustodyInv
<1>11. CustodyInv'
  BY <1>8, <1>9, <1>10 DEF CustodyInv, CustodyIsReal
<1> QED
  BY <1>3, <1>5, <1>11 DEF TransferInv

LEMMA PrepareKeeps ==
  ASSUME TransferInv, NEW o \in Operators, NEW p \in Payees, NEW w \in Wallets,
         NEW given \in Nonces \union {Nil}, Prepared(o, p, w, given)
  PROVE  TransferInv'
<1> USE TransferAssumptions DEF SelfCustody
<1> DEFINE n == NonceOf(w, given)
           t == [from |-> w, to |-> p, nonce |-> n]
<1>1. TransferTypeOK /\ CustodyInv /\ PinInv
  BY DEF TransferInv
<1>2. n \in Nonces /\ level[w] # Nil
  BY DEF Prepared, Senders
<1>a. given # Nil => n = given
  BY DEF NonceOf
<1>3. /\ prepared' = [prepared EXCEPT ![o] = [transfer |-> t, level |-> level[w]]]
      /\ resolved' = IF given = Nil THEN resolved \union {p} ELSE resolved
      /\ pins' = IF given = Nil THEN pins ELSE [pins EXCEPT ![p] = @ \union {<<w, given>>}]
      /\ UNCHANGED <<signed, custodyVars, chainVars>>
  BY DEF Prepared
<1> HIDE DEF n
<1>4. t \in Transfer /\ t.from = w /\ t.to = p /\ t.nonce = n
  BY <1>2 DEF Transfer
<1> HIDE DEF t
<1>5. level[w] \in Levels \union {SelfCustody}
  BY <1>1, <1>2 DEF TransferTypeOK
<1>6. resolved \subseteq resolved' /\ resolved' \subseteq Payees
  BY <1>1, <1>3 DEF TransferTypeOK
<1>7. /\ pins' \in [Payees -> SUBSET (Wallets \X Nonces)]
      /\ \A q \in Payees : pins[q] \subseteq pins'[q]
      /\ \A q \in Payees : pins'[q] = pins[q] \/ pins'[q] = pins[q] \union {<<w, given>>}
      /\ given # Nil => <<w, given>> \in pins'[p]
  <2>1. CASE given = Nil
    BY <1>1, <1>3, <2>1 DEF TransferTypeOK
  <2>2. CASE given # Nil
    BY <1>1, <1>3, <2>2 DEF TransferTypeOK
  <2> QED
    BY <2>1, <2>2
<1>8. Named(t, resolved', pins')
  <2>1. CASE given = Nil
    BY <1>3, <1>4, <2>1 DEF Named
  <2>2. CASE given # Nil
    BY <1>4, <1>7, <1>a, <2>2 DEF Named
  <2> QED
    BY <2>1, <2>2
<1>9. \A q \in Payees : IsFiniteSet(pins'[q])
  <2> TAKE q \in Payees
  <2>1. IsFiniteSet(pins[q]) /\ IsFiniteSet(pins[q] \union {<<w, given>>})
    BY <1>1, FS_AddElement DEF PinInv
  <2> QED
    BY <1>7, <2>1
<1>10. TransferTypeOK'
  <2>1. prepared' \in [Operators ->
          [transfer : Transfer, level : Levels \union {SelfCustody}] \union {Nil}]
    BY <1>1, <1>3, <1>4, <1>5 DEF TransferTypeOK
  <2> QED
    BY <1>1, <1>3, <1>6, <1>7, <2>1 DEF TransferTypeOK, custodyVars, chainVars
<1>11. CustodyInv'
  <2>1. \A q \in Operators : prepared'[q] # Nil =>
          level[prepared'[q].transfer.from] = prepared'[q].level /\ prepared'[q].level # Nil
    BY <1>1, <1>2, <1>3, <1>4 DEF CustodyInv, TransferTypeOK
  <2>2. UNCHANGED <<level, accounts, secrets, provision, signed>>
    BY <1>3 DEF custodyVars
  <2> QED
    BY <1>1, <2>1, <2>2 DEF CustodyInv, CustodyIsReal
<1>12. PinInv'
  <2>1. ASSUME NEW q \in Operators, prepared'[q] # Nil
        PROVE  Named(prepared'[q].transfer, resolved', pins')
    <3>1. CASE q = o
      <4>1. prepared'[q].transfer = t
        BY <1>1, <1>3, <3>1 DEF TransferTypeOK
      <4> QED
        BY <1>8, <4>1
    <3>2. CASE q # o
      <4>1. prepared'[q] = prepared[q] /\ prepared[q].transfer \in Transfer
        BY <1>1, <1>3, <2>1, <3>2 DEF TransferTypeOK
      <4>2. Insisted(prepared[q].transfer)
        BY <1>1, <2>1, <4>1 DEF PinInv
      <4> QED
        BY <1>6, <1>7, <4>1, <4>2 DEF Insisted, Named, Transfer
    <3> QED
      BY <3>1, <3>2
  <2>2. \A u \in signed' \union pool' \union mined' : Named(u, resolved', pins')
    <3> TAKE u \in signed' \union pool' \union mined'
    <3>1. u \in Transfer /\ Insisted(u)
      BY <1>1, <1>3 DEF TransferTypeOK, PinInv, chainVars
    <3> QED
      BY <1>6, <1>7, <3>1, InsistedStays
  <2> QED
    BY <1>9, <2>1, <2>2 DEF PinInv, Insisted
<1> QED
  BY <1>10, <1>11, <1>12 DEF TransferInv

LEMMA SignKeeps ==
  ASSUME TransferInv, NEW o \in Operators, NEW arrives \in BOOLEAN, prepared[o] # Nil,
         Sign(o, arrives)
  PROVE  TransferInv'
<1> USE TransferAssumptions DEF SelfCustody
<1> DEFINE t == prepared[o].transfer
           signs == prepared[o].level >= SelfCustody /\ HoldsKey(t.from)
<1>1. TransferTypeOK /\ CustodyInv /\ PinInv
  BY DEF TransferInv
<1>2. t \in Transfer /\ t.from \in Wallets /\ prepared[o].level \in Levels \union {SelfCustody}
  BY <1>1 DEF TransferTypeOK, Transfer
<1>3. /\ signed' = signed \/ (signs /\ signed' = signed \union {t})
      /\ pool' \subseteq pool \union signed'
      /\ prepared' = [prepared EXCEPT ![o] = Nil]
      /\ UNCHANGED <<mined, resolved, pins, custodyVars>>
  BY DEF Sign, Submitted
<1>4. Insisted(t) /\ level[t.from] = prepared[o].level /\ level[t.from] # Nil
  BY <1>1 DEF PinInv, CustodyInv
<1>5. signs => (t.from \in Hot => t.from \in secrets)
  BY HotWalletsAreNew DEF HoldsKey
<1> HIDE DEF t
<1>6. TransferTypeOK'
  BY <1>1, <1>2, <1>3 DEF TransferTypeOK, custodyVars
<1>7. CustodyInv'
  <2>1. UNCHANGED <<level, accounts, secrets, provision>>
    BY <1>3 DEF custodyVars
  <2>2. \A q \in Operators : prepared'[q] # Nil => prepared'[q] = prepared[q]
    BY <1>1, <1>3 DEF TransferTypeOK
  <2>3. \A u \in signed' : u \in signed \/ (u = t /\ signs)
    BY <1>3
  <2>4. signs => level[t.from] >= SelfCustody
    BY <1>4
  <2> QED
    BY <1>1, <1>4, <1>5, <2>1, <2>2, <2>3, <2>4 DEF CustodyInv, CustodyIsReal
<1>8. PinInv'
  <2>1. \A q \in Operators : prepared'[q] # Nil => prepared'[q] = prepared[q]
    BY <1>1, <1>3 DEF TransferTypeOK
  <2>2. \A u \in signed' \union pool' \union mined' : Insisted(u)
    BY <1>1, <1>3, <1>4 DEF PinInv
  <2> QED
    BY <1>1, <1>3, <2>1, <2>2 DEF PinInv, Insisted, Named
<1> QED
  BY <1>6, <1>7, <1>8 DEF TransferInv

LEMMA ChainKeeps ==
  ASSUME TransferInv, UNCHANGED <<signVars, custodyVars>>,
         \/ \E t \in signed : BroadcastByHand(t)
         \/ \E t \in pool : Mine(t)
  PROVE  TransferInv'
<1>1. TransferTypeOK /\ CustodyInv /\ PinInv
  BY DEF TransferInv
<1>2. pool' \union mined' \subseteq signed \union pool \union mined
  BY DEF BroadcastByHand, Mine, Submitted
<1>3. /\ UNCHANGED <<prepared, signed, resolved, pins>>
      /\ UNCHANGED <<level, accounts, secrets, provision>>
  BY DEF signVars, custodyVars
<1>4. TransferTypeOK'
  BY <1>1, <1>2, <1>3 DEF TransferTypeOK
<1>5. CustodyInv' /\ PinInv'
  BY <1>1, <1>2, <1>3 DEF CustodyInv, CustodyIsReal, PinInv, Insisted
<1> QED
  BY <1>4, <1>5 DEF TransferInv

LEMMA TransferStepInv == TransferInv /\ [TransferNext]_transferVars => TransferInv'
<1> SUFFICES ASSUME TransferInv, [TransferNext]_transferVars PROVE TransferInv'
  OBVIOUS
<1>1. CASE \/ \E w \in Custodied, l \in Levels : RegisterWallet(w, l)
           \/ \E w \in Hot : ProvisionWallet(w)
           \/ ProvisionAccount \/ ProvisionSecret \/ ProvisionEnds
           \/ UNCHANGED transferVars
  <2>1. UNCHANGED <<signVars, chainVars>>
    BY <1>1 DEF RegisterWallet, ProvisionWallet, ProvisionAccount, ProvisionSecret, ProvisionEnds,
      transferVars
  <2> QED
    BY <1>1, <2>1, CustodyStep
<1>2. ASSUME NEW o \in Operators, NEW p \in Payees, NEW w \in Wallets,
             NEW given \in Nonces \union {Nil},
             PrepareForPayout(o, p, w, given) \/ PrepareFromWallet(o, p, w, given)
      PROVE  TransferInv'
  BY <1>2, PrepareKeeps DEF PrepareForPayout, PrepareFromWallet
<1>3. ASSUME NEW o \in Operators, NEW arrives \in BOOLEAN,
             SignForPayout(o, arrives) \/ SignFromWallet(o, arrives)
      PROVE  TransferInv'
  BY <1>3, SignKeeps DEF SignForPayout, SignFromWallet
<1>4. CASE (\E t \in signed : BroadcastByHand(t)) \/ (\E t \in pool : Mine(t))
  <2>1. UNCHANGED <<signVars, custodyVars>>
    BY <1>4 DEF BroadcastByHand, Mine
  <2> QED
    BY <1>4, <2>1, ChainKeeps
<1> QED
  BY <1>1, <1>2, <1>3, <1>4 DEF TransferNext

TransferSpec == TransferInit /\ [][TransferNext]_transferVars

(* The registries and the transfers keep their types.                      *)
THEOREM TransfersTyped == TransferSpec => []TransferTypeOK
<1>1. TransferInv => TransferTypeOK
  BY DEF TransferInv
<1> QED
  BY <1>1, TransferInitInv, TransferStepInv, PTL DEF TransferSpec

(* Whatever was signed comes from a wallet in verified custody whose key   *)
(* is still held, wherever a provisioning stopped.                         *)
THEOREM CustodyStays == TransferSpec => []CustodyIsReal
<1>1. TransferInv => CustodyIsReal
  BY DEF TransferInv, CustodyInv
<1> QED
  BY <1>1, TransferInitInv, TransferStepInv, PTL DEF TransferSpec

(* Two elements make a finite set larger than one.                         *)
LEMMA OnlyOneElement ==
  ASSUME NEW S, IsFiniteSet(S), ~(Cardinality(S) > 1), NEW x \in S, NEW y \in S
  PROVE  x = y
<1> SUFFICES ASSUME x # y PROVE FALSE
  OBVIOUS
<1> DEFINE X == {x}
<1>a. IsFiniteSet(X) /\ Cardinality(X) = 1 /\ y \notin X
  BY FS_Singleton
<1> HIDE DEF X
<1>b. Cardinality(X \union {y}) = Cardinality(X) + 1
  BY <1>a, FS_AddElement
<1>1. Cardinality({x} \union {y}) = 2
  BY <1>a, <1>b DEF X
<1>2. {x} \union {y} \in SUBSET S
  OBVIOUS
<1>3. Cardinality({x} \union {y}) <= Cardinality(S) /\ Cardinality(S) \in Nat
  BY <1>2, FS_Subset, FS_CardinalityType
<1> QED
  BY <1>1, <1>3

(* A payee is paid twice only if a nonce came from the chain for it or two *)
(* wallets or nonces were insisted on.                                     *)
THEOREM PinnedTransfersPayOnce == TransferSpec => []PinnedPaysOnce
<1>1. TransferInv => PinnedPaysOnce
  <2> SUFFICES ASSUME TransferInv, NEW p \in Payees, p \notin resolved,
                      ~(Cardinality(pins[p]) > 1),
                      Cardinality({t \in mined : t.to = p}) > 1
               PROVE  FALSE
    BY DEF PinnedPaysOnce
  <2> DEFINE paid == {t \in mined : t.to = p}
  <2>1. \A t \in paid : t \in Transfer /\ <<t.from, t.nonce>> \in pins[p]
    BY DEF TransferInv, TransferTypeOK, PinInv, Insisted, Named
  <2>2. IsFiniteSet(pins[p])
    BY DEF TransferInv, PinInv
  <2>3. ASSUME NEW t \in paid, NEW u \in paid PROVE t = u
    <3>1. <<t.from, t.nonce>> = <<u.from, u.nonce>>
      <4>1. <<t.from, t.nonce>> \in pins[p] /\ <<u.from, u.nonce>> \in pins[p]
        BY <2>1
      <4> HIDE DEF paid
      <4> QED
        BY <2>2, <4>1, OnlyOneElement
    <3>2. t.from = u.from /\ t.nonce = u.nonce /\ t.to = u.to
      BY <3>1
    <3>3. t \in Transfer /\ u \in Transfer
      BY <2>1
    <3> HIDE DEF paid
    <3> QED
      BY <3>2, <3>3 DEF Transfer
  <2>4. CASE paid = {}
    BY <2>4, FS_EmptySet
  <2>5. CASE paid # {}
    <3>1. PICK t \in paid : paid = {t}
      BY <2>3, <2>5
    <3>2. Cardinality(paid) = 1
      BY <3>1, FS_Singleton
    <3> QED
      BY <3>2
  <2> QED
    BY <2>4, <2>5
<1> QED
  BY <1>1, TransferInitInv, TransferStepInv, PTL DEF TransferSpec
-----------------------------------------------------------------------------
(***************************************************************************)
(* Sales.  What a ledger holds is explained by its own payment keys and by *)
(* the credits saved so far: so is the ledger a running command loaded,    *)
(* and the one another process loaded, which is why saving it later        *)
(* restores no payment twice.  A payment is never an order that a command  *)
(* advances.                                                               *)
(***************************************************************************)
PaidFor(K) == SumFunction([p \in Payments |-> IF p \in K THEN Amount[p] ELSE 0])
Ordered(saved) == SumFunction([o \in Orders |-> saved[o] * Amount[o]])

Explained(K, sum, saved) ==
  K \subseteq {p \in Payments : saved[p] > 0} /\ sum <= PaidFor(K) + Ordered(saved)

NeverInvoiced(statuses) == \A p \in Payments : statuses[p] \in {Absent, "paid", "rejected"}

RowsHaveCredits == \A x \in Sales : Cardinality(RowsOf(x)) <= credits[x]

CommerceInv ==
  /\ CommerceTypeOK
  /\ Explained(keys, cash, credits) /\ Explained(stale.keys, stale.cash, credits)
  /\ NeverInvoiced(orders)
  /\ command # Absent => /\ command.order \in Orders
                         /\ Explained(command.ledger.keys, command.ledger.cash, credits)
                         /\ NeverInvoiced(command.book.orders)
  /\ RowsHaveCredits

(* The parts of the types.                                                 *)
LEMMA CommerceTypes ==
  CommerceTypeOK <=>
    /\ orders \in [Sales -> Status \union {Absent}] /\ receivables \in Nat
    /\ command = Absent \/ command \in [order : Sales, book : OrderBook, ledger : CashBook]
    /\ cash \in Nat /\ keys \subseteq Payments /\ reclassified \subseteq Sales
    /\ stale \in CashBook
    /\ rows \in Seq(Sales) /\ Len(rows) <= MaxRows
    /\ subs \in [Subs -> Sub \union {Absent}]
    /\ credits \in [Sales -> Nat]
    /\ failures \in 0..MaxFailures
BY DEF CommerceTypeOK, OrderBook, CashBook

(* Sums of payments and of orders.                                         *)
LEMMA PaymentSums ==
  ASSUME NEW K, NEW L, K \subseteq L
  PROVE  PaidFor(K) \in Nat /\ PaidFor(L) \in Nat /\ PaidFor(K) <= PaidFor(L)
<1> DEFINE f(M) == [p \in Payments |-> IF p \in M THEN Amount[p] ELSE 0]
<1>1. f(K) \in [Payments -> Nat] /\ f(L) \in [Payments -> Nat]
  BY SalesHaveAmounts DEF Sales
<1>2. \A p \in Payments : f(K)[p] <= f(L)[p]
  BY SalesHaveAmounts DEF Sales
<1>3. PaidFor(K) = SumFunction(f(K)) /\ PaidFor(L) = SumFunction(f(L))
  BY DEF PaidFor
<1> HIDE DEF f
<1> QED
  BY <1>1, <1>2, <1>3, SalesAreFinite, FunctionSumIsNatural, FunctionSumIsMonotone

LEMMA PaymentAdded ==
  ASSUME NEW K, NEW p \in Payments, p \notin K
  PROVE  PaidFor(K \union {p}) = PaidFor(K) + Amount[p]
<1> DEFINE f == [q \in Payments |-> IF q \in K THEN Amount[q] ELSE 0]
           g == [q \in Payments |-> IF q \in K \union {p} THEN Amount[q] ELSE 0]
<1>1. f \in [Payments -> Nat] /\ g \in [Payments -> Nat] /\ Amount[p] \in Nat
  BY SalesHaveAmounts DEF Sales
<1>2. g[p] = f[p] + Amount[p] /\ \A q \in Payments \ {p} : g[q] = f[q]
  BY SalesHaveAmounts DEF Sales
<1>3. PaidFor(K) = SumFunction(f) /\ PaidFor(K \union {p}) = SumFunction(g)
  BY DEF PaidFor
<1> HIDE DEF f, g
<1>4. SumFunction(g) = SumFunction(f) + Amount[p]
  BY <1>1, <1>2, SalesAreFinite, FunctionSumGrows
<1> QED
  BY <1>3, <1>4

LEMMA OrderSums ==
  ASSUME NEW saved \in [Sales -> Nat]
  PROVE  /\ [o \in Orders |-> saved[o] * Amount[o]] \in [Orders -> Nat]
         /\ Ordered(saved) \in Nat
<1>1. ASSUME NEW o \in Orders PROVE saved[o] * Amount[o] \in Nat
  <2>1. saved[o] \in Nat /\ Amount[o] \in Nat
    BY SalesHaveAmounts DEF Sales
  <2> QED
    BY <2>1
<1> DEFINE f == [o \in Orders |-> saved[o] * Amount[o]]
<1>2. f \in [Orders -> Nat]
  BY <1>1
<1>3. Ordered(saved) = SumFunction(f)
  BY DEF Ordered
<1> HIDE DEF f
<1>4. Ordered(saved) \in Nat
  BY <1>2, <1>3, SalesAreFinite, FunctionSumIsNatural
<1> QED
  BY <1>2, <1>4 DEF f

(* One more credit of a sale.                                              *)
OneMore(after, saved, x) == after = [saved EXCEPT ![x] = @ + 1]

LEMMA CreditAdded ==
  ASSUME NEW saved \in [Sales -> Nat], NEW x \in Sales, NEW after,
         OneMore(after, saved, x)
  PROVE  /\ after \in [Sales -> Nat]
         /\ after[x] = saved[x] + 1 /\ \A y \in Sales \ {x} : after[y] = saved[y]
         /\ x \in Orders => Ordered(after) = Ordered(saved) + Amount[x]
         /\ x \notin Orders => Ordered(after) = Ordered(saved)
<1>1. /\ after \in [Sales -> Nat] /\ after[x] = saved[x] + 1
      /\ \A y \in Sales \ {x} : after[y] = saved[y]
  BY DEF OneMore
<1> DEFINE f == [o \in Orders |-> saved[o] * Amount[o]]
           g == [o \in Orders |-> after[o] * Amount[o]]
<1>2. f \in [Orders -> Nat] /\ g \in [Orders -> Nat]
  BY <1>1, OrderSums
<1>3. Ordered(saved) = SumFunction(f) /\ Ordered(after) = SumFunction(g)
  BY DEF Ordered
<1>4. CASE x \in Orders
  <2>1. saved[x] \in Nat /\ Amount[x] \in Nat
    BY SalesHaveAmounts
  <2>2. (saved[x] + 1) * Amount[x] = saved[x] * Amount[x] + Amount[x]
    <3>1. \A a, b \in Nat : (a + 1) * b = a * b + b
      OBVIOUS
    <3> QED
      BY <2>1, <3>1
  <2>3. g[x] = f[x] + Amount[x]
    BY <1>1, <1>4, <2>2
  <2>4. \A o \in Orders \ {x} : g[o] = f[o]
    BY <1>1 DEF Sales
  <2> HIDE DEF f, g
  <2>5. SumFunction(g) = SumFunction(f) + Amount[x]
    BY <1>2, <1>4, <2>1, <2>3, <2>4, SalesAreFinite, FunctionSumGrows
  <2> QED
    BY <1>1, <1>3, <1>4, <2>5
<1>5. CASE x \notin Orders
  <2>1. f = g
    BY <1>1, <1>5 DEF Sales
  <2> QED
    BY <1>1, <1>3, <1>5, <2>1
<1> QED
  BY <1>4, <1>5

(* A credit leaves explained what was.                                     *)
LEMMA StillExplained ==
  ASSUME NEW saved \in [Sales -> Nat], NEW x \in Sales, NEW after,
         OneMore(after, saved, x),
         NEW K, NEW sum \in Nat, Explained(K, sum, saved)
  PROVE  Explained(K, sum, after)
<1>a. Ordered(after) = Ordered(saved) \/ Ordered(after) = Ordered(saved) + Amount[x]
  BY CreditAdded
<1>b. \A y \in Sales : after[y] >= saved[y] /\ after[y] \in Nat /\ saved[y] \in Nat
  BY DEF OneMore
<1>1. /\ \A y \in Sales : after[y] >= saved[y] /\ after[y] \in Nat /\ saved[y] \in Nat
      /\ Ordered(after) = Ordered(saved) \/ Ordered(after) = Ordered(saved) + Amount[x]
  BY <1>a, <1>b
<1>2. Ordered(saved) \in Nat /\ Amount[x] \in Nat /\ PaidFor(K) \in Nat
  BY OrderSums, PaymentSums, SalesHaveAmounts
<1>3. K \subseteq {p \in Payments : after[p] > 0}
  BY <1>1 DEF Explained, Sales
<1>4. sum <= PaidFor(K) + Ordered(after)
  BY <1>1, <1>2 DEF Explained
<1> QED
  BY <1>3, <1>4 DEF Explained

(* The rows of a sale.                                                     *)
LEMMA RowsFinite ==
  ASSUME CommerceTypeOK, NEW x
  PROVE  IsFiniteSet(RowsOf(x)) /\ Cardinality(RowsOf(x)) \in Nat
<1>1. RowsOf(x) \in SUBSET (1..Len(rows)) /\ Len(rows) \in Nat
  BY CommerceTypes DEF RowsOf
<1>2. IsFiniteSet(1..Len(rows))
  BY <1>1, FS_Interval
<1>3. IsFiniteSet(RowsOf(x))
  BY <1>1, <1>2, FS_Subset
<1> QED
  BY <1>3, FS_CardinalityType

LEMMA RowAdded ==
  ASSUME CommerceTypeOK, NEW x \in Sales, Len(rows) < MaxRows, rows' = Append(rows, x)
  PROVE  /\ rows' \in Seq(Sales) /\ Len(rows') <= MaxRows
         /\ \A y \in Sales : Cardinality(RowsOf(y)') =
              IF y = x THEN Cardinality(RowsOf(y)) + 1 ELSE Cardinality(RowsOf(y))
<1>1. rows \in Seq(Sales) /\ Len(rows) \in Nat /\ MaxRows \in Nat
  BY CommerceTypes, CommerceBounds
<1>2. /\ rows' \in Seq(Sales) /\ Len(rows') = Len(rows) + 1
      /\ \A i \in 1..Len(rows) : rows'[i] = rows[i]
      /\ rows'[Len(rows) + 1] = x
      /\ DOMAIN rows = 1..Len(rows) /\ DOMAIN rows' = 1..(Len(rows) + 1)
  BY <1>1
<1> DEFINE n == Len(rows) + 1
<1>3. n \notin DOMAIN rows /\ DOMAIN rows' = DOMAIN rows \union {n}
  BY <1>1, <1>2
<1> HIDE DEF n
<1>4. ASSUME NEW y \in Sales
      PROVE  Cardinality(RowsOf(y)') =
              IF y = x THEN Cardinality(RowsOf(y)) + 1 ELSE Cardinality(RowsOf(y))
  <2>1. IsFiniteSet(RowsOf(y)) /\ n \notin RowsOf(y)
    BY <1>3, RowsFinite DEF RowsOf
  <2>2. CASE y = x
    <3>1. RowsOf(y)' = RowsOf(y) \union {n}
      BY <1>2, <1>3, <2>2 DEF RowsOf, n
    <3> QED
      BY <2>1, <2>2, <3>1, FS_AddElement
  <2>3. CASE y # x
    <3>1. RowsOf(y)' = RowsOf(y)
      BY <1>2, <1>3, <2>3 DEF RowsOf, n
    <3> QED
      BY <2>3, <3>1
  <2> QED
    BY <2>2, <2>3
<1> QED
  BY <1>1, <1>2, <1>4

(* The statuses of an order.                                               *)
LEMMA OrderStatuses ==
  /\ Status = {"proposed", "accepted", "in_progress", "delivered", "invoiced", "paid", "rejected"}
  /\ \A s : Advances(s) =>
       After(s) \in Status /\ s \in Status \ {"paid", "rejected"}
<1>1. /\ DOMAIN OrderStates = 1..6
      /\ OrderStates[1] = "proposed" /\ OrderStates[2] = "accepted"
      /\ OrderStates[3] = "in_progress" /\ OrderStates[4] = "delivered"
      /\ OrderStates[5] = "invoiced" /\ OrderStates[6] = "paid"
  BY DEF OrderStates
<1>2. Range(OrderStates) =
        {"proposed", "accepted", "in_progress", "delivered", "invoiced", "paid"}
  BY <1>1 DEF Range
<1>3. ASSUME NEW s, Advances(s) PROVE After(s) \in Status
  <2> DEFINE i == CHOOSE j \in DOMAIN OrderStates : OrderStates[j] = s
  <2>1. \E j \in DOMAIN OrderStates : OrderStates[j] = s
    BY <1>3 DEF Advances, Range
  <2>2. i \in 1..6 /\ OrderStates[i] = s
    BY <1>1, <2>1
  <2>3. i # 6
    BY <1>1, <1>3, <2>2 DEF Advances
  <2>4. After(s) = OrderStates[1 + i]
    BY DEF After
  <2> HIDE DEF i
  <2>5. 1 + i \in 1..6
    BY <2>2, <2>3
  <2> QED
    BY <1>1, <2>4, <2>5 DEF Status, Range
<1>4. \A s : Advances(s) => s \in Status \ {"paid", "rejected"}
  BY <1>2 DEF Advances, Status
<1> QED
  BY <1>2, <1>3, <1>4 DEF Status
(* Nothing was sold at the start.                                          *)
LEMMA CommerceInitInv == CommerceInit => CommerceInv
<1> SUFFICES ASSUME CommerceInit PROVE CommerceInv
  OBVIOUS
<1>1. CommerceTypeOK
  <2>1. rows \in Seq(Sales) /\ Len(rows) = 0 /\ Len(rows) <= MaxRows /\ 0 \in 0..MaxFailures
    BY CommerceBounds DEF CommerceInit
  <2>2. stale \in CashBook
    BY DEF CommerceInit, CashBook
  <2> QED
    BY <2>1, <2>2, CommerceTypes DEF CommerceInit
<1>2. \A x \in Sales : Cardinality(RowsOf(x)) = 0 /\ credits[x] = 0
  <2>1. \A x \in Sales : RowsOf(x) = {}
    BY DEF CommerceInit, RowsOf
  <2> QED
    BY <2>1, FS_EmptySet DEF CommerceInit
<1>3. Explained(keys, cash, credits) /\ Explained(stale.keys, stale.cash, credits)
  <2>1. PaidFor({}) \in Nat
    BY PaymentSums
  <2>2. Ordered(credits) \in Nat
    BY <1>1, CommerceTypes, OrderSums
  <2>3. keys = {} /\ cash = 0 /\ stale.keys = {} /\ stale.cash = 0
    BY DEF CommerceInit
  <2> QED
    BY <2>1, <2>2, <2>3 DEF Explained
<1>4. NeverInvoiced(orders) /\ command = Absent
  BY DEF CommerceInit, NeverInvoiced, Sales
<1> QED
  BY <1>1, <1>2, <1>3, <1>4 DEF CommerceInv, RowsHaveCredits

(* A step that moves no money, no row and no payment of the order book.    *)
LEMMA NothingSold ==
  ASSUME CommerceInv, CommerceTypeOK', UNCHANGED money, NeverInvoiced(orders'),
         command' = command
  PROVE  CommerceInv'
<1>1. UNCHANGED <<cash, keys, stale, rows, credits>>
  BY DEF money
<1>2. \A x \in Sales : RowsOf(x)' = RowsOf(x)
  BY <1>1 DEF RowsOf
<1> QED
  BY <1>1, <1>2 DEF CommerceInv, RowsHaveCredits, Explained, NeverInvoiced

(* What the receivables fall to.                                           *)
LEMMA DeductedIsNatural == \A x, n \in Nat : Deducted(x, n) \in Nat
BY DEF Deducted

LEMMA LoadKeeps ==
  ASSUME CommerceInv, NEW x \in Sales, LoadInvoiced(x)
  PROVE  CommerceInv'
<1>1. CommerceTypeOK /\ orders \in [Sales -> Status \union {Absent}] /\ receivables \in Nat
  BY CommerceTypes DEF CommerceInv
<1>2. orders[x] = "invoiced" /\ orders[x] # Absent
  BY DEF LoadInvoiced
<1>3. x \notin Payments /\ x \in Orders
  BY <1>2 DEF CommerceInv, NeverInvoiced, Sales
<1> DEFINE sold == [orders EXCEPT ![x] = After(orders[x])]
           left == Deducted(receivables, Amount[x])
<1>4. command' = [order |-> x, book |-> [orders |-> sold, receivables |-> left],
                  ledger |-> [cash |-> cash, keys |-> keys]]
  BY DEF LoadInvoiced, CashFile
<1>5. /\ sold \in [Sales -> Status \union {Absent}] /\ NeverInvoiced(sold) /\ left \in Nat
  <2>1. Advances("invoiced")
    <3>1. OrderStates[5] = "invoiced" /\ 5 \in DOMAIN OrderStates
      BY DEF OrderStates
    <3> QED
      BY <3>1 DEF Advances, Range
  <2>2. After(orders[x]) \in Status
    BY <1>2, <2>1, OrderStatuses
  <2>3. sold \in [Sales -> Status \union {Absent}]
    BY <1>1, <2>2
  <2>4. NeverInvoiced(sold)
    BY <1>1, <1>3 DEF CommerceInv, NeverInvoiced, Sales
  <2>5. left \in Nat
    BY <1>1, SalesHaveAmounts, DeductedIsNatural
  <2> QED
    BY <2>3, <2>4, <2>5
<1> HIDE DEF sold, left
<1>6. UNCHANGED <<book, money, reclassified, subs, failures>>
  BY DEF LoadInvoiced
<1>7. cash \in Nat /\ keys \subseteq Payments
  BY <1>1, CommerceTypes
<1>8. command' \in [order : Sales, book : OrderBook, ledger : CashBook]
  BY <1>4, <1>5, <1>7 DEF OrderBook, CashBook
<1>9. CommerceTypeOK'
  BY <1>1, <1>6, <1>8, CommerceTypes DEF book, money, CommerceTypeOK
<1>10. \A y \in Sales : RowsOf(y)' = RowsOf(y)
  BY <1>6 DEF RowsOf, money
<1>11. UNCHANGED <<orders, cash, keys, stale, credits>>
  BY <1>6 DEF book, money
<1>12. /\ command'.order \in Orders
       /\ Explained(command'.ledger.keys, command'.ledger.cash, credits)
       /\ NeverInvoiced(command'.book.orders)
  BY <1>3, <1>4, <1>5 DEF CommerceInv
<1> QED
  BY <1>9, <1>10, <1>11, <1>12 DEF CommerceInv, RowsHaveCredits

(* An order is credited from the ledger its command loaded.                *)
LEMMA PayKeeps ==
  ASSUME CommerceInv, PayInvoiced
  PROVE  CommerceInv'
<1> DEFINE x == command.order
           sum == command.ledger.cash
           K == command.ledger.keys
<1>1. CommerceTypeOK /\ command # Absent /\ Len(rows) < MaxRows /\ credits \in [Sales -> Nat]
  BY CommerceTypes DEF CommerceInv, PayInvoiced
<1>2. /\ x \in Orders /\ Explained(K, sum, credits) /\ NeverInvoiced(command.book.orders)
  BY <1>1 DEF CommerceInv
<1>3. command \in [order : Sales, book : OrderBook, ledger : CashBook]
  BY <1>1, CommerceTypes
<1>4. /\ x \in Sales /\ sum \in Nat /\ K \subseteq Payments /\ Amount[x] \in Nat
      /\ command.book.orders \in [Sales -> Status \union {Absent}]
      /\ command.book.receivables \in Nat
  BY <1>3, SalesHaveAmounts DEF OrderBook, CashBook
<1>5. /\ cash' = sum + Amount[x] /\ keys' = K /\ command' = Absent
      /\ credits' = [credits EXCEPT ![x] = @ + 1]
      /\ rows' = rows \/ rows' = Append(rows, x)
      /\ \/ UNCHANGED book
         \/ orders' = command.book.orders /\ receivables' = command.book.receivables
      /\ UNCHANGED failures \/ Fail
      /\ UNCHANGED <<stale, reclassified, subs>>
  BY DEF PayInvoiced, Credited
<1> HIDE DEF x, sum, K
<1>6. /\ credits' \in [Sales -> Nat] /\ credits'[x] = credits[x] + 1
      /\ \A y \in Sales \ {x} : credits'[y] = credits[y]
      /\ Ordered(credits') = Ordered(credits) + Amount[x]
  <2>1. x \in Orders /\ x \in Sales
    BY <1>2, <1>4
  <2>2. /\ credits' \in [Sales -> Nat] /\ credits'[x] = credits[x] + 1
        /\ \A y \in Sales \ {x} : credits'[y] = credits[y]
    BY <1>1, <1>5, <2>1
  <2>3. Ordered(credits') = Ordered(credits) + Amount[x]
    <3>1. OneMore(credits', credits, x) /\ credits \in [Sales -> Nat]
      BY <1>1, <1>5 DEF OneMore
    <3> QED
      BY <2>1, <3>1, CreditAdded
  <2> QED
    BY <2>1, <2>2, <2>3
<1>7. Explained(keys', cash', credits')
  <2>1. Ordered(credits) \in Nat /\ PaidFor(K) \in Nat
    BY <1>1, OrderSums, PaymentSums
  <2>2. sum <= PaidFor(K) + Ordered(credits)
    BY <1>2 DEF Explained
  <2>3. cash' <= PaidFor(K) + Ordered(credits')
    BY <1>4, <1>5, <1>6, <2>1, <2>2
  <2>4. Explained(K, sum, credits')
    <3>1. OneMore(credits', credits, x) /\ credits \in [Sales -> Nat]
      BY <1>1, <1>5 DEF OneMore
    <3> QED
      BY <1>2, <1>4, <3>1, StillExplained
  <2> QED
    BY <1>5, <2>3, <2>4 DEF Explained
<1>8. /\ rows' \in Seq(Sales) /\ Len(rows') <= MaxRows
      /\ \A y \in Sales : Cardinality(RowsOf(y)') <= credits'[y]
  <2>1. rows \in Seq(Sales) /\ Len(rows) <= MaxRows
    BY <1>1, CommerceTypes
  <2>2. \A y \in Sales : Cardinality(RowsOf(y)) <= credits[y] /\ Cardinality(RowsOf(y)) \in Nat
    BY <1>1, RowsFinite DEF CommerceInv, RowsHaveCredits
  <2>3. \A y \in Sales : credits[y] \in Nat
    BY <1>1
  <2>4. CASE rows' = rows
    <3>1. \A y \in Sales : RowsOf(y)' = RowsOf(y)
      BY <2>4 DEF RowsOf
    <3> QED
      BY <1>6, <2>1, <2>2, <2>3, <2>4, <3>1
  <2>5. CASE rows' = Append(rows, x)
    <3>1. /\ rows' \in Seq(Sales) /\ Len(rows') <= MaxRows
          /\ \A y \in Sales : Cardinality(RowsOf(y)') =
               IF y = x THEN Cardinality(RowsOf(y)) + 1 ELSE Cardinality(RowsOf(y))
      BY <1>1, <1>4, <2>5, RowAdded
    <3> QED
      BY <1>4, <1>6, <2>2, <2>3, <3>1
  <2> QED
    BY <1>5, <2>4, <2>5
<1>9. /\ orders' \in [Sales -> Status \union {Absent}] /\ receivables' \in Nat
      /\ NeverInvoiced(orders')
  BY <1>1, <1>2, <1>4, <1>5, CommerceTypes DEF CommerceInv, book
<1>10. CommerceTypeOK'
  <2>1. failures' \in 0..MaxFailures
    BY <1>1, <1>5, CommerceTypes, CommerceBounds DEF Fail
  <2>2. cash' \in Nat /\ keys' \subseteq Payments
    BY <1>4, <1>5
  <2>3. reclassified' \subseteq Sales /\ subs' \in [Subs -> Sub \union {Absent}]
    BY <1>1, <1>5, CommerceTypes
  <2>4. stale' \in CashBook
    BY <1>1, <1>5, CommerceTypes
  <2> QED
    BY <1>5, <1>6, <1>8, <1>9, <2>1, <2>2, <2>3, <2>4 DEF CommerceTypeOK, OrderBook, CashBook
<1>11. Explained(stale'.keys, stale'.cash, credits')
  <2>1. OneMore(credits', credits, x) /\ credits \in [Sales -> Nat] /\ x \in Sales
    BY <1>1, <1>4, <1>5 DEF OneMore
  <2>2. stale' = stale /\ stale.cash \in Nat /\ Explained(stale.keys, stale.cash, credits)
    BY <1>1, <1>5, CommerceTypes DEF CommerceInv, CashBook
  <2> QED
    BY <2>1, <2>2, StillExplained
<1> QED
  BY <1>5, <1>7, <1>8, <1>9, <1>10, <1>11 DEF CommerceInv, RowsHaveCredits

(* A payment is credited under its key, once.                              *)
LEMMA RecordKeeps ==
  ASSUME CommerceInv, NEW p \in Payments, NEW n \in 1..3, NEW old \in MayHaveLoaded,
         RecordPayment(p, n, old)
  PROVE  CommerceInv'
<1>1. CommerceTypeOK /\ Len(rows) < MaxRows /\ credits \in [Sales -> Nat] /\ p \in Sales
  BY CommerceTypes DEF CommerceInv, RecordPayment, Sales
<1>2. /\ cash \in Nat /\ keys \subseteq Payments /\ Amount[p] \in Nat
      /\ old.cash \in Nat /\ old.keys \subseteq Payments
      /\ stale \in CashBook /\ stale.cash \in Nat
      /\ Explained(old.keys, old.cash, credits)
  <2>1. cash \in Nat /\ keys \subseteq Payments /\ stale \in CashBook
    BY <1>1, CommerceTypes
  <2>2. /\ Explained(keys, cash, credits) /\ Explained(stale.keys, stale.cash, credits)
    BY DEF CommerceInv
  <2>3. old = CashFile \/ old = stale
    BY DEF MayHaveLoaded
  <2>4. CashFile.cash = cash /\ CashFile.keys = keys
    BY DEF CashFile
  <2>5. stale.cash \in Nat /\ stale.keys \subseteq Payments /\ Amount[p] \in Nat
    BY <1>1, <2>1, SalesHaveAmounts DEF CashBook
  <2> QED
    BY <2>1, <2>2, <2>3, <2>4, <2>5
<1> DEFINE isNew == n >= 2 /\ p \notin old.keys
<1>3. /\ orders' = [orders EXCEPT ![p] = "paid"]
      /\ isNew => /\ cash' = old.cash + Amount[p] /\ keys' = old.keys \union {p}
                      /\ credits' = [credits EXCEPT ![p] = @ + 1]
      /\ ~isNew => UNCHANGED <<cash, keys, credits>>
      /\ rows' = rows \/ (n = 3 /\ ~RowExists(p) /\ rows' = Append(rows, p))
      /\ UNCHANGED failures \/ Fail
      /\ UNCHANGED <<stale, receivables, command, reclassified, subs>>
  BY DEF RecordPayment, Credited
<1>4. p \in old.keys => credits[p] > 0
  BY <1>2 DEF Explained
<1>5. /\ credits' \in [Sales -> Nat]
      /\ isNew => credits'[p] = credits[p] + 1
      /\ \A y \in Sales : credits'[y] = credits[y] \/ credits'[y] = credits[y] + 1
      /\ Ordered(credits') = Ordered(credits)
  <2>1. CASE isNew
    <3>1. p \notin Orders
      BY SalesHaveAmounts
    <3>2. Ordered(credits') = Ordered(credits)
      <4>1. OneMore(credits', credits, p)
        BY <1>3, <2>1 DEF OneMore
      <4> QED
        BY <1>1, <3>1, <4>1, CreditAdded
    <3> QED
      BY <1>1, <1>3, <2>1, <3>2
  <2>2. CASE ~isNew
    BY <1>1, <1>3, <2>2
  <2> QED
    BY <2>1, <2>2
<1>6. \A K, sum : sum \in Nat /\ Explained(K, sum, credits) => Explained(K, sum, credits')
  <2>1. CASE isNew
    <3>1. OneMore(credits', credits, p)
      BY <1>3, <2>1 DEF OneMore
    <3> QED
      BY <1>1, <3>1, StillExplained
  <2>2. CASE ~isNew
    BY <1>3, <2>2
  <2> QED
    BY <2>1, <2>2
<1>7. Explained(keys', cash', credits')
  <2>1. CASE isNew
    <3>1. PaidFor(old.keys \union {p}) = PaidFor(old.keys) + Amount[p]
      BY <2>1, PaymentAdded
    <3>2. PaidFor(old.keys) \in Nat /\ Ordered(credits) \in Nat
      BY <1>1, PaymentSums, OrderSums
    <3>3. old.cash <= PaidFor(old.keys) + Ordered(credits)
      BY <1>2 DEF Explained
    <3>4. cash' <= PaidFor(keys') + Ordered(credits')
      <4>1. /\ cash' = old.cash + Amount[p] /\ PaidFor(keys') = PaidFor(old.keys) + Amount[p]
            /\ Ordered(credits') = Ordered(credits)
        BY <1>3, <1>5, <2>1, <3>1
      <4> QED
        BY <1>2, <3>2, <3>3, <4>1
    <3>5. Explained(old.keys, old.cash, credits')
      BY <1>2, <1>6
    <3>6. credits'[p] > 0
      BY <1>1, <1>5, <2>1
    <3> QED
      BY <1>3, <2>1, <3>4, <3>5, <3>6 DEF Explained
  <2>2. CASE ~isNew
    BY <1>3, <2>2 DEF CommerceInv
  <2> QED
    BY <2>1, <2>2
<1>8. /\ rows' \in Seq(Sales) /\ Len(rows') <= MaxRows
      /\ \A y \in Sales : Cardinality(RowsOf(y)') <= credits'[y]
  <2>1. rows \in Seq(Sales) /\ Len(rows) <= MaxRows
    BY <1>1, CommerceTypes
  <2>2. \A y \in Sales : Cardinality(RowsOf(y)) <= credits[y] /\ Cardinality(RowsOf(y)) \in Nat
    BY <1>1, RowsFinite DEF CommerceInv, RowsHaveCredits
  <2>3. \A y \in Sales : credits[y] \in Nat
    BY <1>1
  <2>4. CASE rows' = rows
    <3>1. \A y \in Sales : RowsOf(y)' = RowsOf(y)
      BY <2>4 DEF RowsOf
    <3> QED
      BY <1>5, <2>1, <2>2, <2>3, <2>4, <3>1
  <2>5. CASE n = 3 /\ ~RowExists(p) /\ rows' = Append(rows, p)
    <3>1. /\ rows' \in Seq(Sales) /\ Len(rows') <= MaxRows
          /\ \A y \in Sales : Cardinality(RowsOf(y)') =
               IF y = p THEN Cardinality(RowsOf(y)) + 1 ELSE Cardinality(RowsOf(y))
      BY <1>1, <2>5, RowAdded
    <3>2. RowsOf(p) = {}
      BY <2>5 DEF RowExists, RowsOf
    <3>3. Cardinality(RowsOf(p)) = 0
      BY <3>2, FS_EmptySet
    <3>4. credits'[p] > 0
      BY <1>1, <1>3, <1>4, <1>5, <2>3, <2>5
    <3>5. credits'[p] \in Nat
      BY <1>1, <1>5
    <3> HIDE DEF isNew
    <3> QED
      BY <1>5, <2>2, <2>3, <3>1, <3>3, <3>4, <3>5
  <2> QED
    BY <1>3, <2>4, <2>5
<1>9. /\ orders' \in [Sales -> Status \union {Absent}] /\ NeverInvoiced(orders')
  <2>1. orders \in [Sales -> Status \union {Absent}] /\ NeverInvoiced(orders)
    BY <1>1, CommerceTypes DEF CommerceInv
  <2> QED
    BY <1>1, <1>3, <2>1, OrderStatuses DEF NeverInvoiced, Sales
<1>10. CommerceTypeOK'
  <2>1. failures' \in 0..MaxFailures
    BY <1>1, <1>3, CommerceTypes, CommerceBounds DEF Fail
  <2>2. cash' \in Nat /\ keys' \subseteq Payments /\ stale' \in CashBook
    BY <1>2, <1>3
  <2>3. /\ reclassified' \subseteq Sales /\ subs' \in [Subs -> Sub \union {Absent}]
        /\ receivables' \in Nat
        /\ command' = Absent \/ command' \in [order : Sales, book : OrderBook, ledger : CashBook]
    BY <1>1, <1>3, CommerceTypes
  <2> QED
    BY <1>5, <1>8, <1>9, <2>1, <2>2, <2>3 DEF CommerceTypeOK, OrderBook, CashBook
<1>11. command' # Absent =>
         /\ command'.order \in Orders
         /\ Explained(command'.ledger.keys, command'.ledger.cash, credits')
         /\ NeverInvoiced(command'.book.orders)
  <2> SUFFICES ASSUME command # Absent
               PROVE  /\ command.order \in Orders
                      /\ Explained(command.ledger.keys, command.ledger.cash, credits')
                      /\ NeverInvoiced(command.book.orders)
    BY <1>3
  <2>1. command.ledger.cash \in Nat
    BY <1>1, CommerceTypes DEF CashBook
  <2> QED
    BY <1>6, <2>1 DEF CommerceInv
<1>12. Explained(stale'.keys, stale'.cash, credits')
  <2>1. Explained(stale.keys, stale.cash, credits) /\ stale' = stale
    BY <1>3 DEF CommerceInv
  <2> QED
    BY <1>2, <1>6, <2>1
<1> QED
  BY <1>7, <1>8, <1>9, <1>10, <1>11, <1>12 DEF CommerceInv, RowsHaveCredits

(* The ledger another process loaded was the ledger once.                  *)
LEMMA ElsewhereKeeps ==
  ASSUME CommerceInv, LoadElsewhere \/ SaveElsewhere
  PROVE  CommerceInv'
<1>1. CommerceTypeOK /\ cash \in Nat /\ keys \subseteq Payments /\ stale \in CashBook
  BY CommerceTypes DEF CommerceInv
<1>2. UNCHANGED <<orders, receivables, command, rows, credits, reclassified, subs, failures>>
  BY DEF LoadElsewhere, SaveElsewhere, book
<1>3. \A x \in Sales : RowsOf(x)' = RowsOf(x)
  BY <1>2 DEF RowsOf
<1>4. /\ cash' \in Nat /\ keys' \subseteq Payments /\ stale' \in CashBook
      /\ Explained(keys', cash', credits') /\ Explained(stale'.keys, stale'.cash, credits')
  <2>1. /\ stale.cash \in Nat /\ stale.keys \subseteq Payments /\ CashFile \in CashBook
        /\ CashFile.cash = cash /\ CashFile.keys = keys
    BY <1>1 DEF CashBook, CashFile
  <2>2. Explained(keys, cash, credits) /\ Explained(stale.keys, stale.cash, credits)
    BY DEF CommerceInv
  <2>3. CASE LoadElsewhere
    <3>1. stale' = CashFile /\ cash' = cash /\ keys' = keys
      BY <2>3 DEF LoadElsewhere
    <3> QED
      BY <1>1, <1>2, <2>1, <2>2, <3>1
  <2>4. CASE SaveElsewhere
    <3>1. stale' = stale /\ cash' = stale.cash /\ keys' = stale.keys
      BY <2>4 DEF SaveElsewhere
    <3> QED
      BY <1>1, <1>2, <2>1, <2>2, <3>1
  <2> QED
    BY <2>3, <2>4
<1>5. CommerceTypeOK'
  <2>1. /\ orders' \in [Sales -> Status \union {Absent}] /\ receivables' \in Nat
        /\ command' = Absent \/ command' \in [order : Sales, book : OrderBook, ledger : CashBook]
        /\ reclassified' \subseteq Sales /\ rows' \in Seq(Sales) /\ Len(rows') <= MaxRows
        /\ subs' \in [Subs -> Sub \union {Absent}] /\ credits' \in [Sales -> Nat]
        /\ failures' \in 0..MaxFailures
    BY <1>1, <1>2, CommerceTypes
  <2> QED
    BY <1>4, <2>1 DEF CommerceTypeOK, OrderBook, CashBook
<1> QED
  BY <1>2, <1>3, <1>4, <1>5 DEF CommerceInv, RowsHaveCredits, NeverInvoiced

(* The other steps of the sales.                                           *)
LEMMA SaleKeeps ==
  ASSUME CommerceInv, SaleStep
  PROVE  CommerceInv'
<1>t. /\ CommerceTypeOK /\ NeverInvoiced(orders)
      /\ orders \in [Sales -> Status \union {Absent}] /\ receivables \in Nat
      /\ \A x \in Sales : Amount[x] \in Nat
  BY CommerceTypes, SalesHaveAmounts DEF CommerceInv
<1>1. ASSUME NEW o \in Orders, CreateOrder(o) PROVE CommerceInv'
  <2>1. o \in Sales /\ o \notin Payments
    BY SalesHaveAmounts DEF Sales
  <2>2. orders' \in [Sales -> Status \union {Absent}] /\ receivables' \in Nat
    BY <1>t, <1>1, <2>1, OrderStatuses DEF CreateOrder
  <2>3. NeverInvoiced(orders')
    BY <1>t, <1>1, <2>1 DEF CreateOrder, NeverInvoiced, Sales
  <2>4. CommerceTypeOK'
    BY <1>t, <1>1, <2>2 DEF CreateOrder, CommerceTypeOK, OrderBook, CashBook, money
  <2> QED
    BY <1>1, <2>3, <2>4, NothingSold DEF CreateOrder
<1>2. ASSUME NEW x \in Sales, AdvanceOrder(x) PROVE CommerceInv'
  <2>1. After(orders[x]) \in Status /\ orders[x] \in Status \ {"paid", "rejected"}
    BY <1>2, OrderStatuses DEF AdvanceOrder
  <2>2. x \notin Payments
    BY <1>t, <2>1, AbsentIsNoStatus DEF NeverInvoiced
  <2>3. orders' \in [Sales -> Status \union {Absent}] /\ receivables' = receivables
    BY <1>t, <1>2, <2>1 DEF AdvanceOrder
  <2>4. NeverInvoiced(orders')
    BY <1>t, <1>2, <2>2 DEF AdvanceOrder, NeverInvoiced, Sales
  <2>5. CommerceTypeOK'
    BY <1>t, <1>2, <2>3 DEF AdvanceOrder, CommerceTypeOK, OrderBook, CashBook, money
  <2> QED
    BY <1>2, <2>4, <2>5, NothingSold DEF AdvanceOrder
<1>3. ASSUME NEW x \in Sales, RejectOrder(x) PROVE CommerceInv'
  <2>1. orders' \in [Sales -> Status \union {Absent}] /\ receivables' \in Nat
    BY <1>t, <1>3, OrderStatuses, DeductedIsNatural DEF RejectOrder
  <2>2. NeverInvoiced(orders')
    BY <1>t, <1>3 DEF RejectOrder, NeverInvoiced, Sales
  <2>3. CommerceTypeOK'
    BY <1>t, <1>3, <2>1 DEF RejectOrder, CommerceTypeOK, OrderBook, CashBook, money
  <2> QED
    BY <1>3, <2>2, <2>3, NothingSold DEF RejectOrder
<1>4. ASSUME NEW x \in Sales, Reclassify(x) PROVE CommerceInv'
  <2>1. CommerceTypeOK'
    BY <1>t, <1>4 DEF Reclassify, CommerceTypeOK, OrderBook, CashBook, money, book
  <2> QED
    BY <1>t, <1>4, <2>1, NothingSold DEF Reclassify, book
<1> QED
  BY <1>1, <1>2, <1>3, <1>4, LoadKeeps, PayKeeps, RecordKeeps, ElsewhereKeeps DEF SaleStep

(* The evidence for a payment is a row that pays the price.                *)
LEMMA EvidenceIsARow ==
  ASSUME CommerceTypeOK, NEW ref, Evidence(ref) # Absent
  PROVE  \E i \in DOMAIN rows :
           /\ rows[i] = Evidence(ref) /\ rows[i] \in Sales
           /\ rows[i] \notin reclassified /\ Amount[rows[i]] >= Price
<1> DEFINE found == {i \in DOMAIN rows : /\ Matches(rows[i], ref)
                                        /\ rows[i] \notin reclassified
                                        /\ Amount[rows[i]] >= Price}
<1>1. found # {} /\ Evidence(ref) = rows[Min(found)]
  BY DEF Evidence
<1>2. rows \in Seq(Sales)
  BY CommerceTypes
<1>3. found \subseteq Nat
  BY <1>2
<1>4. Min(found) \in found
  <2> HIDE DEF found
  <2>1. \E k \in found : \A j \in found : k <= j
    BY <1>1, <1>3, LeastElement
  <2> QED
    BY <2>1 DEF Min
<1> HIDE DEF Evidence
<1>5. /\ Min(found) \in DOMAIN rows /\ rows[Min(found)] \notin reclassified
      /\ Amount[rows[Min(found)]] >= Price
  BY <1>4
<1>6. rows[Min(found)] \in Sales
  BY <1>2, <1>5
<1> HIDE DEF found
<1> QED
  BY <1>1, <1>5, <1>6

LEMMA PaidSubTyped ==
  ASSUME CommerceTypeOK, NEW by \in Subscribers, NEW ref \in Sales, NEW confirm \in BOOLEAN
  PROVE  PaidSub(by, ref, confirm) \in Sub
<1>1. Evidence(ref) \in Sales \union {Absent}
  <2>1. CASE Evidence(ref) # Absent
    BY <2>1, EvidenceIsARow
  <2> QED
    BY <2>1
<1> QED
  BY <1>1 DEF PaidSub, NewSub, Sub

(* The subscriptions move nothing else.                                    *)
LEMMA SubscriptionKeeps ==
  ASSUME CommerceInv, SubscriptionStep
  PROVE  CommerceInv'
<1>t. CommerceTypeOK /\ subs \in [Subs -> Sub \union {Absent}]
  BY CommerceTypes DEF CommerceInv
<1>s. \A s \in Subs : subs[s] # Absent => subs[s] \in Sub
  BY <1>t
<1>1. UNCHANGED <<saleVars, failures>>
  BY DEF SubscriptionStep, AddTrial, AddPaid, VerifyPayment, ConvertTrial, CancelActive, Lapse
<1>2. subs' \in [Subs -> Sub \union {Absent}]
  <2>1. ASSUME NEW s \in Subs, NEW by \in Subscribers, AddTrial(s, by)
        PROVE  subs' \in [Subs -> Sub \union {Absent}]
    <3>1. NewSub(by, "trial", Absent, Absent) \in Sub
      BY DEF NewSub, Sub
    <3> QED
      BY <1>t, <2>1, <3>1 DEF AddTrial
  <2>2. ASSUME NEW s \in Subs, NEW by \in Subscribers, NEW ref \in Sales, NEW confirm \in BOOLEAN,
               AddPaid(s, by, ref, confirm)
        PROVE  subs' \in [Subs -> Sub \union {Absent}]
    BY <1>t, <2>2, PaidSubTyped DEF AddPaid
  <2>3. ASSUME NEW s \in Subs, NEW ref \in Sales, VerifyPayment(s, ref)
        PROVE  subs' \in [Subs -> Sub \union {Absent}]
    <3>1. Evidence(ref) \in Sales
      BY <1>t, <2>3, EvidenceIsARow DEF VerifyPayment
    <3>2. subs[s] \in Sub
      BY <1>s, <2>3 DEF VerifyPayment
    <3>3. [subs[s] EXCEPT !.ref = ref, !.evidence = Evidence(ref)] \in Sub
      BY <3>1, <3>2 DEF Sub
    <3>4. \A u \in Subs : subs'[u] = IF u = s THEN [subs[s] EXCEPT !.ref = ref, !.evidence = Evidence(ref)]
                                              ELSE subs[u]
      BY <1>t, <2>3, <3>2 DEF VerifyPayment, Sub
    <3>5. subs' = [u \in Subs |-> subs'[u]]
      BY <1>t, <2>3 DEF VerifyPayment
    <3> QED
      BY <1>t, <3>3, <3>4, <3>5
  <2>4. ASSUME NEW s \in Subs, NEW ref \in Sales, NEW t \in Subs, NEW confirm \in BOOLEAN,
               ConvertTrial(t, s, ref, confirm)
        PROVE  subs' \in [Subs -> Sub \union {Absent}]
    <3>1. subs[t] \in Sub
      BY <1>s, <2>4 DEF ConvertTrial
    <3>2. [subs[t] EXCEPT !.status = "converted"] \in Sub
      BY <3>1 DEF Sub
    <3>3. PaidSub(subs[t].by, ref, confirm) \in Sub
      BY <1>t, <3>1, PaidSubTyped DEF Sub
    <3> DEFINE mid == [subs EXCEPT ![t] = [subs[t] EXCEPT !.status = "converted"]]
    <3>4. mid \in [Subs -> Sub \union {Absent}]
      BY <1>t, <3>2
    <3>5. subs' = [mid EXCEPT ![s] = IF Confirms(ref, confirm) THEN PaidSub(subs[t].by, ref, confirm)
                                                               ELSE Absent]
      BY <2>4 DEF ConvertTrial
    <3> HIDE DEF mid
    <3> QED
      BY <3>3, <3>4, <3>5
  <2>5. ASSUME NEW by \in Subscribers, CancelActive(by)
        PROVE  subs' \in [Subs -> Sub \union {Absent}]
    <3>1. \A s \in Of(by) : [subs[s] EXCEPT !.status = "cancelled"] \in Sub
      BY <1>s DEF Of, Sub
    <3> QED
      BY <1>t, <2>5, <3>1 DEF CancelActive
  <2>6. ASSUME NEW s \in Subs, Lapse(s)
        PROVE  subs' \in [Subs -> Sub \union {Absent}]
    <3>1. [subs[s] EXCEPT !.expired = TRUE] \in Sub
      BY <1>s, <2>6 DEF Lapse, Sub
    <3> QED
      BY <1>t, <2>6, <3>1 DEF Lapse
  <2> QED
    BY <2>1, <2>2, <2>3, <2>4, <2>5, <2>6 DEF SubscriptionStep
<1>3. UNCHANGED <<orders, receivables, command, money, cash, keys, stale, rows, credits, reclassified,
                  failures>>
  BY <1>1 DEF saleVars, book, money
<1>4. CommerceTypeOK'
  BY <1>t, <1>2, <1>3 DEF CommerceTypeOK, OrderBook, CashBook
<1> QED
  BY <1>3, <1>4, NothingSold DEF CommerceInv

LEMMA CommerceStepInv == CommerceInv /\ [CommerceNext]_commerceVars => CommerceInv'
<1> SUFFICES ASSUME CommerceInv, [CommerceNext]_commerceVars PROVE CommerceInv'
  OBVIOUS
<1>1. CASE UNCHANGED commerceVars
  <2>1. UNCHANGED <<orders, receivables, command, money, cash, keys, stale, rows, credits, reclassified,
                    subs, failures>>
    BY <1>1 DEF commerceVars, saleVars, book, money
  <2>2. CommerceTypeOK'
    BY <2>1 DEF CommerceInv, CommerceTypeOK, OrderBook, CashBook
  <2> QED
    BY <2>1, <2>2, NothingSold DEF CommerceInv
<1> QED
  BY <1>1, SaleKeeps, SubscriptionKeeps DEF CommerceNext

(* The order book, the ledger, the journal and the subscriptions keep      *)
(* their types.                                                            *)
THEOREM CommerceTyped == CommerceSpec => []CommerceTypeOK
<1>1. CommerceInv => CommerceTypeOK
  BY DEF CommerceInv
<1> QED
  BY <1>1, CommerceInitInv, CommerceStepInv, PTL DEF CommerceSpec

(* The ledger holds every payment at most once and every order at most as  *)
(* often as it was advanced, and no row comes before its credit.           *)
THEOREM CashIsEarned == CommerceSpec => []MoneyIsEarned
<1>1. CommerceInv => MoneyIsEarned
  <2> SUFFICES ASSUME CommerceInv PROVE MoneyIsEarned
    OBVIOUS
  <2> DEFINE paid == {p \in Payments : credits[p] > 0}
  <2>1. credits \in [Sales -> Nat] /\ cash \in Nat
    BY CommerceTypes DEF CommerceInv
  <2>2. keys \subseteq paid /\ cash <= PaidFor(keys) + Ordered(credits)
    BY DEF CommerceInv, Explained
  <2>3. [p \in Payments |-> IF credits[p] > 0 THEN Amount[p] ELSE 0]
          = [p \in Payments |-> IF p \in paid THEN Amount[p] ELSE 0]
    OBVIOUS
  <2>4. SumFunction([p \in Payments |-> IF credits[p] > 0 THEN Amount[p] ELSE 0]) = PaidFor(paid)
    BY <2>3 DEF PaidFor
  <2> HIDE DEF paid
  <2>5. PaidFor(keys) \in Nat /\ PaidFor(paid) \in Nat /\ PaidFor(keys) <= PaidFor(paid)
    BY <2>2, PaymentSums
  <2>6. Ordered(credits) \in Nat
    BY <2>1, OrderSums
  <2>7. cash <= PaidFor(paid) + Ordered(credits)
    BY <2>1, <2>2, <2>5, <2>6
  <2> QED
    BY <2>4, <2>7 DEF MoneyIsEarned, Ordered, CommerceInv, RowsHaveCredits
<1> QED
  BY <1>1, CommerceInitInv, CommerceStepInv, PTL DEF CommerceSpec

(* A paid subscription that is delivered stands on a credited sale that    *)
(* pays the price and that nobody reclassified.                            *)
THEOREM DeliveriesArePaid == CommerceSpec => []DeliveryIsPaid
<1>1. CommerceInv => DeliveryIsPaid
  <2> SUFFICES ASSUME CommerceInv, NEW s \in Subs, Eligible(s), subs[s].plan = "paid"
               PROVE  \E x \in Sales : credits[x] > 0 /\ Amount[x] >= Price /\ x \notin reclassified
                                       /\ x = subs[s].evidence
    BY DEF DeliveryIsPaid
  <2>1. Evidence(subs[s].ref) # Absent /\ Evidence(subs[s].ref) = subs[s].evidence
    BY DEF Eligible
  <2>2. CommerceTypeOK /\ credits \in [Sales -> Nat]
    BY CommerceTypes DEF CommerceInv
  <2>3. PICK i \in DOMAIN rows : /\ rows[i] = subs[s].evidence /\ rows[i] \in Sales
                                 /\ rows[i] \notin reclassified /\ Amount[rows[i]] >= Price
    BY <2>1, <2>2, EvidenceIsARow
  <2>4. RowsOf(rows[i]) # {} /\ IsFiniteSet(RowsOf(rows[i])) /\ Cardinality(RowsOf(rows[i])) \in Nat
    <3>1. i \in RowsOf(rows[i])
      BY DEF RowsOf
    <3> QED
      BY <2>2, <3>1, RowsFinite
  <2>5. Cardinality(RowsOf(rows[i])) # 0
    BY <2>4, FS_EmptySet
  <2>6. Cardinality(RowsOf(rows[i])) <= credits[rows[i]]
    BY <2>3 DEF CommerceInv, RowsHaveCredits
  <2>7. credits[rows[i]] > 0
    BY <2>2, <2>3, <2>4, <2>5, <2>6
  <2> QED
    BY <2>3, <2>7
<1> QED
  BY <1>1, CommerceInitInv, CommerceStepInv, PTL DEF CommerceSpec

-----------------------------------------------------------------------------
(***************************************************************************)
(* The entries of the ledger.                                              *)
(***************************************************************************)

(* A sanction, a lift, the automatic rules and a score turn an entry of    *)
(* the ledger into another; only a lift and the automatic rules take flags *)
(* away.                                                                   *)
LEMMA ClampInRange == \A x \in Int : Clamp(x) \in 0..MaxScore
BY DEF Clamp, MaxScore

LEMMA ImposedAreFlags == \A s \in Flags : Imposed(s) \subseteq Flags
BY DEF Imposed, Flags

EntryWith(e, flags, auth, scored) == [e EXCEPT !.flags = flags, !.auth = auth, !.scored = scored]

LEMMA EntryChanged ==
  ASSUME NEW e \in Entry, NEW flags \in SUBSET Flags, NEW auth \in 0..MaxScore,
         NEW scored \in {"never", "earlier", "this_epoch"}
  PROVE  /\ EntryWith(e, flags, auth, scored) \in Entry
         /\ EntryWith(e, flags, auth, scored).flags = flags
BY DEF Entry, EntryWith

LEMMA EntryFields ==
  \A e \in Entry : /\ e.flags \in SUBSET Flags /\ e.auth \in 0..MaxScore
                   /\ e.scored \in {"never", "earlier", "this_epoch"} /\ 0 \in 0..MaxScore
BY DEF Entry, MaxScore

LEMMA SanctionedTyped ==
  ASSUME NEW e \in Entry, NEW s \in Flags
  PROVE  Sanctioned(e, s) \in Entry /\ e.flags \subseteq Sanctioned(e, s).flags
<1> DEFINE flags == e.flags \union Imposed(s)
           auth == IF "zero_authority" \in Imposed(s) THEN 0 ELSE e.auth
<1>1. flags \in SUBSET Flags /\ auth \in 0..MaxScore
  BY ImposedAreFlags, EntryFields
<1>2. Sanctioned(e, s) = EntryWith(e, flags, auth, "this_epoch")
  BY DEF EntryWith, Sanctioned
<1>3. e.flags \subseteq flags
  OBVIOUS
<1> HIDE DEF flags, auth
<1> QED
  BY <1>1, <1>2, <1>3, EntryChanged

LEMMA LiftedTyped ==
  ASSUME NEW e \in Entry, NEW s
  PROVE  /\ Lifted(e, s) \in Entry
         /\ s # "all" => Lifted(e, s).flags = e.flags \ {s}
<1> DEFINE flags == IF s = "all" THEN {} ELSE e.flags \ {s}
           auth == IF s \in {"zero_authority", "all"} /\ e.auth = 0 THEN Decay + 1 ELSE e.auth
<1>1. flags \in SUBSET Flags /\ auth \in 0..MaxScore
  BY EntryFields, Scores DEF MaxScore
<1>2. Lifted(e, s) = EntryWith(e, flags, auth, e.scored)
  BY DEF EntryWith, Lifted, Entry
<1>3. s # "all" => flags = e.flags \ {s}
  OBVIOUS
<1> HIDE DEF flags, auth
<1> QED
  BY <1>1, <1>2, <1>3, EntryFields, EntryChanged

LEMMA AutoAppliedTyped ==
  ASSUME NEW e
  PROVE  \A r \in AutoApplied(e) : r.sanction \in Flags /\ r.level \in 1..6
<1> DEFINE rules == {[sanction |-> "probation", level |-> 4], [sanction |-> "zero_authority", level |-> 5],
                     [sanction |-> "zero_authority", level |-> 6]}
<1>1. AutoApplied(e) \subseteq rules
  BY DEF AutoApplied
<1>2. \A r \in rules : r.sanction \in Flags /\ r.level \in 1..6
  BY DEF Flags
<1> HIDE DEF rules
<1> QED
  BY <1>1, <1>2

LEMMA AutoCheckedTyped ==
  ASSUME NEW e \in Entry
  PROVE  /\ AutoChecked(e) \in Entry
         /\ \A s \in e.flags \ AutoChecked(e).flags :
              \/ s = "probation" /\ e.rep > 30
              \/ s = "zero_authority" /\ e.auth > 15
<1> DEFINE applied == UNION {Imposed(r.sanction) : r \in AutoApplied(e)}
<1>1. applied \subseteq Flags
  BY AutoAppliedTyped, ImposedAreFlags
<1> DEFINE flags == (e.flags \union applied) \ AutoLifted(e)
           auth == IF "zero_authority" \in applied THEN 0 ELSE e.auth
           scored == IF applied # {} THEN "this_epoch" ELSE e.scored
<1>2. AutoChecked(e) = EntryWith(e, flags, auth, scored)
  BY DEF EntryWith, AutoChecked
<1>3. \A s \in AutoLifted(e) : \/ s = "probation" /\ e.rep > 30
                               \/ s = "zero_authority" /\ e.auth > 15
  BY DEF AutoLifted
<1> HIDE DEF applied
<1>4. flags \in SUBSET Flags /\ auth \in 0..MaxScore /\ scored \in {"never", "earlier", "this_epoch"}
  BY <1>1, EntryFields
<1>5. \A s \in e.flags \ flags : s \in AutoLifted(e)
  OBVIOUS
<1> HIDE DEF flags, auth, scored
<1>6. AutoChecked(e) \in Entry /\ AutoChecked(e).flags = flags
  BY <1>2, <1>4, EntryChanged
<1> QED
  BY <1>3, <1>5, <1>6

(* What the automatic rules apply to an entry, and what they make of it.   *)
AppliedTo(e) == UNION {Imposed(r.sanction) : r \in AutoApplied(e)}

LEMMA AppliedByRules ==
  ASSUME NEW e \in Entry
  PROVE  AppliedTo(e) =
           {s \in {"probation", "zero_authority"} :
              /\ "zero_authority" \notin e.flags
              /\ s = "probation" => e.rep <= 20 /\ "probation" \notin e.flags
              /\ s = "zero_authority" => e.auth = 0 \/ e.rep <= 5}
<1> DEFINE Low == [sanction |-> "probation", level |-> 4]
           Spent == [sanction |-> "zero_authority", level |-> 5]
           Critical == [sanction |-> "zero_authority", level |-> 6]
<1>1. \A r : r \in AutoApplied(e) <=>
        /\ "zero_authority" \notin e.flags
        /\ \/ r = Low /\ e.rep <= 20 /\ "probation" \notin e.flags
           \/ r = Spent /\ e.auth = 0
           \/ r = Critical /\ e.rep <= 5
  <2> DEFINE Due(r) == CASE r.level = 4 -> e.rep <= 20 /\ "probation" \notin e.flags
                         [] r.level = 5 -> e.auth = 0
                         [] r.level = 6 -> e.rep <= 5
  <2>1. \A r : r.level = 4 => (Due(r) <=> (e.rep <= 20 /\ "probation" \notin e.flags))
    OBVIOUS
  <2>2. \A r : r.level = 5 => (Due(r) <=> e.auth = 0)
    OBVIOUS
  <2>3. \A r : r.level = 6 => (Due(r) <=> e.rep <= 5)
    OBVIOUS
  <2>4. AutoApplied(e) = {r \in {Low, Spent, Critical} : "zero_authority" \notin e.flags /\ Due(r)}
    BY DEF AutoApplied
  <2>5. Low.level = 4 /\ Spent.level = 5 /\ Critical.level = 6
    OBVIOUS
  <2> HIDE DEF Due, Low, Spent, Critical
  <2>6. \A r \in {Low, Spent, Critical} :
          r \in AutoApplied(e) <=> "zero_authority" \notin e.flags /\ Due(r)
    BY <2>4
  <2>7. \A r \in AutoApplied(e) : r \in {Low, Spent, Critical}
    BY <2>4
  <2>8. /\ Due(Low) <=> (e.rep <= 20 /\ "probation" \notin e.flags)
        /\ Due(Spent) <=> e.auth = 0
        /\ Due(Critical) <=> e.rep <= 5
    BY <2>1, <2>2, <2>3, <2>5
  <2> QED
    BY <2>6, <2>7, <2>8
<1>2. /\ Imposed(Low.sanction) = {"probation"}
      /\ Imposed(Spent.sanction) = {"zero_authority"} /\ Imposed(Critical.sanction) = {"zero_authority"}
  BY DEF Imposed
<1> HIDE DEF Low, Spent, Critical
<1>3. \A s : s \in AppliedTo(e) <=> \E r \in AutoApplied(e) : s \in Imposed(r.sanction)
  BY DEF AppliedTo
<1> QED
  BY <1>1, <1>2, <1>3

LEMMA AutoCheckedFields ==
  ASSUME NEW e \in Entry
  PROVE  /\ AutoChecked(e) \in Entry
         /\ AutoChecked(e).rep = e.rep
         /\ AutoChecked(e).auth = IF "zero_authority" \in AppliedTo(e) THEN 0 ELSE e.auth
         /\ AutoChecked(e).flags = (e.flags \union AppliedTo(e)) \ AutoLifted(e)
<1> DEFINE flags == (e.flags \union AppliedTo(e)) \ AutoLifted(e)
           auth == IF "zero_authority" \in AppliedTo(e) THEN 0 ELSE e.auth
           scored == IF AppliedTo(e) # {} THEN "this_epoch" ELSE e.scored
<1>1. AutoChecked(e) = [e EXCEPT !.flags = flags, !.auth = auth, !.scored = scored]
  BY DEF AutoChecked, AppliedTo
<1> HIDE DEF flags, auth, scored
<1>2. /\ AutoChecked(e).rep = e.rep
      /\ AutoChecked(e).auth = auth /\ AutoChecked(e).flags = flags
  BY <1>1 DEF Entry
<1> QED
  BY <1>2, AutoCheckedTyped DEF flags, auth

(* An entry no rule applies to or lifts stays as it is.                    *)
Settled(e) == AppliedTo(e) = {} /\ AutoLifted(e) = {}

LEMMA SettledStays ==
  ASSUME NEW e \in Entry, Settled(e)
  PROVE  AutoChecked(e) = e
<1>1. AutoChecked(e) = [e EXCEPT !.flags = (@ \union {}) \ {}, !.auth = @, !.scored = @]
  BY DEF Settled, AppliedTo, AutoChecked
<1>2. (e.flags \union {}) \ {} = e.flags
  OBVIOUS
<1> QED
  BY <1>1, <1>2 DEF Entry

(* Only the lift of zero_authority can leave something for another check.  *)
LEMMA OneCheckSettles ==
  ASSUME NEW e \in Entry, "zero_authority" \notin e.flags \/ e.auth <= 15
  PROVE  Settled(AutoChecked(e))
<1> DEFINE f == AutoChecked(e)
<1>1. /\ f \in Entry /\ f.rep = e.rep
      /\ f.auth = IF "zero_authority" \in AppliedTo(e) THEN 0 ELSE e.auth
      /\ f.flags = (e.flags \union AppliedTo(e)) \ AutoLifted(e)
  BY AutoCheckedFields
<1>2. /\ e.rep \in 0..100 /\ e.auth \in 0..100
  BY DEF Entry, MaxScore
<1> HIDE DEF f
<1>3. \A s : s \in AppliedTo(e) <=>
        /\ s \in {"probation", "zero_authority"} /\ "zero_authority" \notin e.flags
        /\ s = "probation" => e.rep <= 20 /\ "probation" \notin e.flags
        /\ s = "zero_authority" => e.auth = 0 \/ e.rep <= 5
  BY AppliedByRules
<1>4. \A s : s \in AppliedTo(f) <=>
        /\ s \in {"probation", "zero_authority"} /\ "zero_authority" \notin f.flags
        /\ s = "probation" => f.rep <= 20 /\ "probation" \notin f.flags
        /\ s = "zero_authority" => f.auth = 0 \/ f.rep <= 5
  BY <1>1, AppliedByRules
<1>5. \A s : s \in AutoLifted(e) <=>
        \/ s = "probation" /\ "probation" \in e.flags /\ "zero_authority" \notin e.flags /\ e.rep > 30
        \/ s = "zero_authority" /\ "zero_authority" \in e.flags /\ e.auth > 15
  BY DEF AutoLifted
<1>6. \A s : s \in AutoLifted(f) <=>
        \/ s = "probation" /\ "probation" \in f.flags /\ "zero_authority" \notin f.flags /\ f.rep > 30
        \/ s = "zero_authority" /\ "zero_authority" \in f.flags /\ f.auth > 15
  BY DEF AutoLifted
<1>7. CASE "zero_authority" \in e.flags \union AppliedTo(e)
  <2>1. "zero_authority" \in f.flags /\ f.auth <= 15
    BY <1>1, <1>2, <1>3, <1>5, <1>7
  <2>2. \A s : s \notin AppliedTo(f) /\ s \notin AutoLifted(f)
    BY <1>1, <1>2, <1>4, <1>6, <2>1
  <2> QED
    BY <2>2 DEF Settled, f
<1>8. CASE "zero_authority" \notin e.flags \union AppliedTo(e)
  <2>1. f.auth = e.auth /\ e.auth # 0 /\ ~(e.rep <= 5) /\ "zero_authority" \notin f.flags
    BY <1>1, <1>3, <1>8
  <2>2. "probation" \in f.flags <=>
          \/ "probation" \in e.flags /\ ~(e.rep > 30)
          \/ "probation" \notin e.flags /\ e.rep <= 20
    BY <1>1, <1>2, <1>3, <1>5, <1>8
  <2>3. \A s : s \notin AppliedTo(f) /\ s \notin AutoLifted(f)
    BY <1>1, <1>2, <1>4, <1>6, <2>1, <2>2
  <2> QED
    BY <2>3 DEF Settled, f
<1> QED
  BY <1>7, <1>8

(* The automatic rules do not chase each other, although each pair of them *)
(* reads the entry before either is carried out: a second check changes    *)
(* nothing unless the first lifted zero_authority, and a third never does. *)
THEOREM AutoRulesSettle ==
  \A e \in Entry :
    /\ "zero_authority" \notin e.flags \/ e.auth <= 15 =>
         AutoChecked(AutoChecked(e)) = AutoChecked(e)
    /\ AutoChecked(AutoChecked(AutoChecked(e))) = AutoChecked(AutoChecked(e))
<1> TAKE e \in Entry
<1>1. PICK f \in Entry : f = AutoChecked(e)
  BY AutoCheckedFields
<1>2. PICK g \in Entry : g = AutoChecked(f)
  BY AutoCheckedFields
<1>3. CASE "zero_authority" \notin e.flags \/ e.auth <= 15
  <2>1. Settled(f)
    BY <1>1, <1>3, OneCheckSettles
  <2>2. g = f
    BY <1>2, <2>1, SettledStays
  <2> QED
    BY <1>1, <1>2, <2>2
<1>4. CASE "zero_authority" \in e.flags /\ e.auth > 15
  <2>1. "zero_authority" \in AutoLifted(e)
    BY <1>4 DEF AutoLifted
  <2>2. "zero_authority" \notin f.flags
    BY <1>1, <2>1, AutoCheckedFields
  <2>3. Settled(g)
    BY <1>2, <2>2, OneCheckSettles
  <2>4. AutoChecked(g) = g
    BY <2>3, SettledStays
  <2>5. ~("zero_authority" \notin e.flags \/ e.auth <= 15)
    BY <1>4 DEF Entry, MaxScore
  <2> QED
    BY <1>1, <1>2, <2>4, <2>5
<1> QED
  BY <1>3, <1>4 DEF Entry, MaxScore

LEMMA WithDeltaTyped ==
  ASSUME NEW e \in Entry, NEW o \in Outcome, NEW b \in [rep : 0..3, auth : 0..4]
  PROVE  WithDelta(e, o, b) \in Entry /\ WithDelta(e, o, b).flags = e.flags
<1>1. o.rep \in Int /\ o.auth \in Int /\ b.rep \in Int /\ b.auth \in Int
  BY DEF Outcome
<1>2. RepGain(e, o, b) \in Int
  BY <1>1 DEF RepGain
<1>3. Min({o.auth, RecoveryAuthCap}) \in Int
  <2>1. Min({o.auth, RecoveryAuthCap}) = o.auth \/ Min({o.auth, RecoveryAuthCap}) = 2
    <3>1. \E k \in {o.auth, 2} : \A j \in {o.auth, 2} : k <= j
      BY <1>1
    <3> QED
      BY <3>1 DEF Min, RecoveryAuthCap
  <2> QED
    BY <1>1, <2>1
<1>4. AuthGain(e, o, b) \in Int
  <2>1. (IF o.auth > 0 THEN o.auth + b.auth ELSE o.auth) \in Int
    BY <1>1
  <2> QED
    BY <1>3, <2>1 DEF AuthGain
<1>5. e.rep \in Int /\ e.auth \in Int
  BY DEF Entry, MaxScore
<1>6. Clamp(e.rep + RepGain(e, o, b)) \in 0..MaxScore /\ Clamp(e.auth + AuthGain(e, o, b)) \in 0..MaxScore
  BY <1>2, <1>4, <1>5, ClampInRange
<1> QED
  BY <1>6 DEF WithDelta, Entry

LEMMA HandScoredTyped ==
  ASSUME NEW e \in Entry, NEW o \in Outcome, NEW b \in [rep : 0..3, auth : 0..4]
  PROVE  HandScored(e, o, b) \in Entry /\ HandScored(e, o, b).flags = e.flags
<1>1. o.rep \in Int /\ o.auth \in Int /\ b.rep \in Int /\ b.auth \in Int
  BY DEF Outcome
<1>2. HandRep(e, o, b) \in Int /\ HandAuth(e, o, b) \in Int
  BY <1>1 DEF HandRep, HandAuth
<1>3. e.rep \in Int /\ e.auth \in Int
  BY DEF Entry, MaxScore
<1>4. Clamp(e.rep + HandRep(e, o, b)) \in 0..MaxScore /\ Clamp(e.auth + HandAuth(e, o, b)) \in 0..MaxScore
  BY <1>2, <1>3, ClampInRange
<1> QED
  BY <1>4 DEF HandScored, Entry

(* A new epoch and a score change a ledger but none of its flags.          *)
SameFlags(l, m) == \A a \in Agents : l[a].flags = m[a].flags

LEMMA NextEpochTyped ==
  ASSUME NEW l \in Ledger
  PROVE  NextEpoch(l) \in Ledger /\ SameFlags(NextEpoch(l), l)
<1> DEFINE next(e) == [e EXCEPT !.auth = IF "zero_authority" \notin e.flags /\ e.scored = "earlier"
                                         THEN Clamp(@ - Decay) ELSE @,
                                !.scored = IF @ = "never" THEN @ ELSE "earlier"]
<1>1. ASSUME NEW e \in Entry PROVE next(e) \in Entry /\ next(e).flags = e.flags
  <2>1. e.auth - Decay \in Int
    BY Scores DEF Entry, MaxScore
  <2>2. Clamp(e.auth - Decay) \in 0..MaxScore
    BY <2>1, ClampInRange
  <2> QED
    BY <2>2 DEF Entry
<1>2. NextEpoch(l) = [a \in Agents |-> next(l[a])]
  BY DEF NextEpoch
<1>3. \A a \in Agents : l[a] \in Entry
  BY DEF Ledger
<1> HIDE DEF next
<1> QED
  BY <1>1, <1>2, <1>3 DEF Ledger, SameFlags

LEMMA ScoredTyped ==
  ASSUME NEW l \in Ledger, NEW o \in Outcomes, NEW b \in Bonuses
  PROVE  Scored(l, o, b) \in Ledger /\ SameFlags(Scored(l, o, b), l)
<1>1. o \in Outcome /\ b \in [rep : 0..3, auth : 0..4]
  BY OutcomesAreOutcomes, BonusesAreCapped
<1>2. o.agent \in Agents /\ l[o.agent] \in Entry
  BY <1>1 DEF Outcome, Ledger
<1>3. WithDelta(l[o.agent], o, b) \in Entry /\ WithDelta(l[o.agent], o, b).flags = l[o.agent].flags
  BY <1>1, <1>2, WithDeltaTyped
<1> QED
  BY <1>2, <1>3 DEF Scored, Ledger, SameFlags

LEMMA AgentChanged ==
  ASSUME NEW l \in Ledger, NEW a \in Agents, NEW e \in Entry
  PROVE  /\ [l EXCEPT ![a] = e] \in Ledger /\ [l EXCEPT ![a] = e][a] = e
         /\ \A b \in Agents : b # a => [l EXCEPT ![a] = e][b] = l[b]
BY DEF Ledger

-----------------------------------------------------------------------------
(***************************************************************************)
(* The court.  A process may hold scores it did not save, but never flags  *)
(* it did not load; and an appeal is against a violation of the records it *)
(* is in.                                                                  *)
(***************************************************************************)
Backed(r) == \A q \in Appeals : r.appeals[q] # None => r.violations[r.appeals[q].violation] # None

Seen == \A p \in Processes : SameFlags(held[p], loaded[p])

LedgersOK ==
  /\ ledger \in Ledger /\ held \in [Processes -> Ledger] /\ loaded \in [Processes -> Ledger]
  /\ Seen

RecordsOK ==
  /\ records \in Records /\ known \in [Processes -> Records]
  /\ Backed(records) /\ \A p \in Processes : Backed(known[p])

RegistryOK == registry \in [Agents -> [incidents : Nat, risk : Risks]]

WorkOK ==
  /\ phase \in [Processes -> Phases] /\ todo \in [Processes -> SUBSET Call]
  /\ pending \in [Processes -> SUBSET Outcomes]
  /\ run \in [number : 0..MaxRuns, marked : BOOLEAN]
  /\ calls \in 0..MaxCalls

CourtInv == LedgersOK /\ RecordsOK /\ RegistryOK /\ WorkOK

LEMMA CourtInvTypes == CourtInv => TypeOK
BY DEF CourtInv, LedgersOK, RecordsOK, RegistryOK, WorkOK, TypeOK

(* The steps that leave a part alone.                                      *)
LEMMA PartsAlone ==
  /\ LedgersOK /\ UNCHANGED <<ledger, held, loaded>> => LedgersOK'
  /\ RecordsOK /\ UNCHANGED <<records, known>> => RecordsOK'
  /\ RegistryOK /\ UNCHANGED registry => RegistryOK'
  /\ WorkOK /\ UNCHANGED <<phase, todo, scoring, calls>> => WorkOK'
BY DEF LedgersOK, Seen, SameFlags, RecordsOK, Backed, RegistryOK, WorkOK, scoring

(* Why a sanction ended in a step.                                         *)
Ended ==
  \A a \in Agents, s \in Flags \ LiftedByCommand :
    s \in ledger[a].flags /\ s \notin ledger'[a].flags =>
      \E p \in Processes : held' = [held EXCEPT ![p] = ledger'] /\ MayEnd(p, a, s)

LEMMA NoneEnded == UNCHANGED ledger => Ended
BY DEF Ended

LEMMA LedgerSaved ==
  ASSUME LedgersOK, NEW p \in Processes, NEW l \in Ledger, SaveLedger(p, l)
  PROVE  LedgersOK'
<1>1. /\ ledger' = l /\ held' = [held EXCEPT ![p] = l] /\ loaded' = [loaded EXCEPT ![p] = l]
      /\ held \in [Processes -> Ledger] /\ loaded \in [Processes -> Ledger]
      /\ \A o \in Processes : SameFlags(held[o], loaded[o])
  BY DEF SaveLedger, LedgersOK, Seen
<1>2. /\ held' \in [Processes -> Ledger] /\ loaded' \in [Processes -> Ledger]
      /\ \A o \in Processes : \/ held'[o] = held[o] /\ loaded'[o] = loaded[o]
                              \/ held'[o] = loaded'[o]
  BY <1>1
<1>3. \A o \in Processes : SameFlags(held'[o], loaded'[o])
  BY <1>1, <1>2 DEF SameFlags
<1> QED
  BY <1>1, <1>2, <1>3 DEF LedgersOK, Seen

(* A process that saves a ledger ends the sanctions it takes from the one  *)
(* it held, and those it had not loaded.                                   *)
LEMMA SavedEnds ==
  ASSUME LedgersOK, NEW p \in Processes, NEW l \in Ledger, SaveLedger(p, l),
         \A a \in Agents, s \in Flags \ LiftedByCommand :
           s \in held[p][a].flags \ l[a].flags => MayEnd(p, a, s)
  PROVE  Ended
<1> SUFFICES ASSUME NEW a \in Agents, NEW s \in Flags \ LiftedByCommand, s \notin ledger'[a].flags
             PROVE  \E o \in Processes : held' = [held EXCEPT ![o] = ledger'] /\ MayEnd(o, a, s)
  BY DEF Ended
<1>1. ledger' = l /\ held' = [held EXCEPT ![p] = ledger'] /\ held[p][a].flags = loaded[p][a].flags
  BY DEF SaveLedger, LedgersOK, Seen, SameFlags
<1>2. CASE s \in held[p][a].flags
  BY <1>1, <1>2
<1>3. CASE s \notin held[p][a].flags
  BY <1>1, <1>3 DEF MayEnd
<1> QED
  BY <1>2, <1>3

(* A save that takes no flag it held.                                      *)
LEMMA SavedSeen ==
  ASSUME LedgersOK, NEW p \in Processes, NEW l \in Ledger, SaveLedger(p, l),
         \A a \in Agents : held[p][a].flags \subseteq l[a].flags
  PROVE  LedgersOK' /\ Ended
BY LedgerSaved, SavedEnds

LEMMA HeldEntries ==
  ASSUME LedgersOK, NEW p \in Processes
  PROVE  held[p] \in Ledger /\ \A a \in Agents : held[p][a] \in Entry
BY DEF LedgersOK, Ledger

(* The records a process changes: a violation, then perhaps an appeal.     *)
WithViolation(r, v, x) == [r EXCEPT !.violations[v] = x]
WithAppeal(r, q, x) == [r EXCEPT !.appeals[q] = x]

LEMMA RecordFields ==
  ASSUME NEW r \in Records
  PROVE  /\ r.violations \in [Violations -> Violation \union {None}]
         /\ r.appeals \in [Appeals -> Appeal \union {None}]
         /\ \A v \in Violations : r.violations[v] # None => r.violations[v] \in Violation
         /\ \A q \in Appeals : r.appeals[q] # None => r.appeals[q] \in Appeal
BY DEF Records

LEMMA ViolationChanged ==
  ASSUME NEW r \in Records, Backed(r), NEW v \in Violations, NEW x \in Violation
  PROVE  /\ WithViolation(r, v, x) \in Records /\ Backed(WithViolation(r, v, x))
         /\ WithViolation(r, v, x).violations[v] # None
<1> DEFINE m == WithViolation(r, v, x)
<1>1. /\ m \in Records /\ m.appeals = r.appeals /\ m.violations = [r.violations EXCEPT ![v] = x]
  BY DEF Records, WithViolation
<1> HIDE DEF m
<1>2. x # None
  BY NoneIsNoRecord
<1>3. \A w \in Violations : m.violations[w] = IF w = v THEN x ELSE r.violations[w]
  BY <1>1, RecordFields
<1>4. \A q \in Appeals : r.appeals[q] # None => r.appeals[q].violation \in Violations
  BY RecordFields DEF Appeal
<1> QED
  BY <1>1, <1>2, <1>3, <1>4 DEF Backed, m

LEMMA AppealChanged ==
  ASSUME NEW r \in Records, Backed(r), NEW q \in Appeals, NEW x \in Appeal,
         r.violations[x.violation] # None
  PROVE  WithAppeal(r, q, x) \in Records /\ Backed(WithAppeal(r, q, x))
<1> DEFINE m == WithAppeal(r, q, x)
<1>1. /\ m \in Records /\ m.violations = r.violations /\ m.appeals = [r.appeals EXCEPT ![q] = x]
  BY DEF Records, WithAppeal
<1> HIDE DEF m
<1>2. \A o \in Appeals : m.appeals[o] = IF o = q THEN x ELSE r.appeals[o]
  BY <1>1, RecordFields
<1> QED
  BY <1>1, <1>2 DEF Backed, m

LEMMA RecordsSaved ==
  ASSUME RecordsOK, NEW p \in Processes, NEW r \in Records, Backed(r), SaveRecords(p, r)
  PROVE  RecordsOK'
<1>1. /\ records' = r /\ known' = [known EXCEPT ![p] = r] /\ known \in [Processes -> Records]
      /\ \A o \in Processes : Backed(known[o])
  BY DEF SaveRecords, RecordsOK
<1>2. known' \in [Processes -> Records] /\ \A o \in Processes : known'[o] = r \/ known'[o] = known[o]
  BY <1>1
<1>3. \A o \in Processes : Backed(known'[o])
  BY <1>1, <1>2 DEF Backed
<1> QED
  BY <1>1, <1>2, <1>3 DEF RecordsOK, Backed

LEMMA RecordsKnown ==
  ASSUME RecordsOK, NEW p \in Processes, NEW r \in Records, Backed(r),
         known' = [known EXCEPT ![p] = r], records' = records
  PROVE  RecordsOK'
<1>1. known \in [Processes -> Records] /\ \A o \in Processes : Backed(known[o])
  BY DEF RecordsOK
<1>2. known' \in [Processes -> Records] /\ \A o \in Processes : known'[o] = r \/ known'[o] = known[o]
  BY <1>1
<1>3. \A o \in Processes : Backed(known'[o])
  BY <1>1, <1>2 DEF Backed
<1> QED
  BY <1>2, <1>3 DEF RecordsOK, Backed

LEMMA KnownRecords ==
  ASSUME RecordsOK, NEW p \in Processes
  PROVE  known[p] \in Records /\ Backed(known[p])
BY DEF RecordsOK

(* What processes begin and end.                                           *)
LEMMA Begun == WorkOK /\ (\E p \in Processes : Begin(p)) => calls' \in 0..MaxCalls
BY CourtBounds DEF WorkOK, Begin

LEMMA WorkBegun ==
  ASSUME WorkOK, NEW p \in Processes, Begin(p), UNCHANGED <<phase, todo, scoring>>
  PROVE  WorkOK'
<1>1. calls' \in 0..MaxCalls
  BY Begun
<1> QED
  BY <1>1 DEF WorkOK, scoring

LEMMA RegistryTaken ==
  ASSUME RegistryOK, NEW a \in Agents, NEW r \in [incidents : Nat, risk : Risks], RegistryMayTake(a, r)
  PROVE  RegistryOK'
BY DEF RegistryOK, RegistryMayTake


-----------------------------------------------------------------------------
(***************************************************************************)
(* The steps of the court, the commands and the scorer.                    *)
(***************************************************************************)
LEMMA CourtInitInv == Init => CourtInv
<1> SUFFICES ASSUME Init PROVE CourtInv
  OBVIOUS
<1>1. NewLedger \in Ledger
  BY Scores DEF NewLedger, Ledger, Entry
<1>2. NoRecords \in Records /\ Backed(NoRecords)
  BY DEF NoRecords, Records, Backed
<1>3. LedgersOK
  BY <1>1 DEF Init, LedgersOK, Seen, SameFlags
<1>4. RecordsOK
  BY <1>2 DEF Init, RecordsOK
<1>5. RegistryOK /\ WorkOK
  BY CourtBounds DEF Init, RegistryOK, WorkOK, Risks, Phases
<1> QED
  BY <1>3, <1>4, <1>5 DEF CourtInv

LEMMA LoadsKeep ==
  ASSUME CourtInv, NEW p \in Processes, LoadLedger(p) \/ LoadRecords(p)
  PROVE  CourtInv' /\ Ended
<1>1. CASE LoadLedger(p)
  <2>1. /\ ledger' = ledger /\ held' = [held EXCEPT ![p] = ledger] /\ loaded' = [loaded EXCEPT ![p] = ledger]
        /\ UNCHANGED <<records, known, registry, phase, todo, scoring, calls>>
    BY <1>1 DEF LoadLedger
  <2>2. SaveLedger(p, ledger) /\ ledger \in Ledger /\ LedgersOK
    BY <2>1 DEF SaveLedger, CourtInv, LedgersOK
  <2>3. LedgersOK'
    BY <2>2, LedgerSaved
  <2> QED
    BY <2>1, <2>3, NoneEnded, PartsAlone DEF CourtInv
<1>2. CASE LoadRecords(p)
  <2>1. /\ records' = records /\ known' = [known EXCEPT ![p] = records]
        /\ UNCHANGED <<ledger, held, loaded, registry, phase, todo, scoring, calls>>
    BY <1>2 DEF LoadRecords
  <2>2. RecordsOK /\ records \in Records /\ Backed(records)
    BY DEF CourtInv, RecordsOK
  <2>3. RecordsOK'
    BY <2>1, <2>2, RecordsKnown
  <2> QED
    BY <2>1, <2>3, NoneEnded, PartsAlone DEF CourtInv
<1> QED
  BY <1>1, <1>2

LEMMA StopKeeps ==
  ASSUME CourtInv, NEW p \in Processes, Stop(p)
  PROVE  CourtInv' /\ Ended
<1>1. /\ UNCHANGED <<ledger, records, registry, loaded, run, calls>>
      /\ held' = [held EXCEPT ![p] = loaded[p]] /\ known' = [known EXCEPT ![p] = records]
      /\ phase' = [phase EXCEPT ![p] = "idle"] /\ todo' = [todo EXCEPT ![p] = {}]
      /\ pending' = [pending EXCEPT ![p] = {}]
  BY DEF Stop
<1>2. LedgersOK'
  <2>1. /\ held \in [Processes -> Ledger] /\ loaded \in [Processes -> Ledger] /\ ledger \in Ledger
        /\ \A o \in Processes : SameFlags(held[o], loaded[o])
    BY DEF CourtInv, LedgersOK, Seen
  <2>2. held' \in [Processes -> Ledger] /\ \A o \in Processes : held'[o] = held[o] \/ held'[o] = loaded[o]
    BY <1>1, <2>1
  <2>3. \A o \in Processes : SameFlags(held'[o], loaded'[o])
    BY <1>1, <2>1, <2>2 DEF SameFlags
  <2> QED
    BY <1>1, <2>1, <2>2, <2>3 DEF LedgersOK, Seen
<1>3. RecordsOK'
  <2>1. RecordsOK /\ records \in Records /\ Backed(records)
    BY DEF CourtInv, RecordsOK
  <2> QED
    BY <1>1, <2>1, RecordsKnown
<1>4. WorkOK'
  BY <1>1 DEF CourtInv, WorkOK, Phases
<1> QED
  BY <1>1, <1>2, <1>3, <1>4, NoneEnded, PartsAlone DEF CourtInv

(* A command saves the ledger it held, changed.                            *)
LEMMA CommandKeeps ==
  ASSUME CourtInv, NEW p \in Processes, NEW l \in Ledger, Command(p, l),
         UNCHANGED run \/ EpochAdvanceSeen,
         \A a \in Agents, s \in Flags \ LiftedByCommand :
           s \in held[p][a].flags \ l[a].flags => MayEnd(p, a, s)
  PROVE  CourtInv' /\ Ended
<1>1. /\ Begin(p) /\ SaveLedger(p, l)
      /\ UNCHANGED <<records, registry, phase, known, todo, pending>>
  BY DEF Command
<1>2. LedgersOK /\ RecordsOK /\ RegistryOK /\ WorkOK
  BY DEF CourtInv
<1>3. LedgersOK' /\ Ended
  BY <1>1, <1>2, LedgerSaved, SavedEnds
<1>4. WorkOK'
  <2>1. calls' \in 0..MaxCalls
    BY <1>1, <1>2, Begun
  <2>2. run' \in [number : 0..MaxRuns, marked : BOOLEAN]
    BY <1>2 DEF WorkOK, EpochAdvanceSeen
  <2> QED
    BY <1>1, <1>2, <2>1, <2>2 DEF WorkOK
<1> QED
  BY <1>1, <1>2, <1>3, <1>4, PartsAlone DEF CourtInv

LEMMA AutoCheckedLedger ==
  ASSUME LedgersOK, NEW p \in Processes
  PROVE  /\ [a \in Agents |-> AutoChecked(held[p][a])] \in Ledger
         /\ \A a \in Agents, s \in Flags :
              s \in held[p][a].flags \ [b \in Agents |-> AutoChecked(held[p][b])][a].flags
                => MayEnd(p, a, s)
<1>1. \A a \in Agents : held[p][a] \in Entry
  BY HeldEntries
<1>2. \A a \in Agents : /\ AutoChecked(held[p][a]) \in Entry
                        /\ \A s \in held[p][a].flags \ AutoChecked(held[p][a]).flags :
                             \/ s = "probation" /\ held[p][a].rep > 30
                             \/ s = "zero_authority" /\ held[p][a].auth > 15
  BY <1>1, AutoCheckedTyped
<1> QED
  BY <1>2 DEF Ledger, MayEnd

LEMMA CommandStepKeeps ==
  ASSUME CourtInv, NEW p \in Processes, CommandStep(p)
  PROVE  CourtInv' /\ Ended
<1>t. /\ LedgersOK /\ held[p] \in Ledger /\ \A a \in Agents : held[p][a] \in Entry
  BY HeldEntries DEF CourtInv
<1>1. CASE SaveMoney(p)
  <2>1. /\ Begin(p) /\ SaveLedger(p, held[p]) /\ UNCHANGED <<records, registry, phase, known, todo, scoring>>
    BY <1>1 DEF SaveMoney
  <2>2. LedgersOK' /\ Ended
    BY <1>t, <2>1, SavedSeen
  <2>3. WorkOK'
    BY <2>1, WorkBegun DEF CourtInv
  <2> QED
    BY <2>1, <2>2, <2>3, PartsAlone DEF CourtInv
<1>2. ASSUME NEW a \in Agents, NEW s \in CliSanctions, CliApply(p, a, s) PROVE CourtInv' /\ Ended
  <2> DEFINE e == Sanctioned(held[p][a], s)
  <2>1. e \in Entry /\ held[p][a].flags \subseteq e.flags
    BY <1>t, CommandChoices, SanctionedTyped
  <2>2. Command(p, [held[p] EXCEPT ![a] = e]) /\ UNCHANGED run
    BY <1>2 DEF CliApply
  <2> HIDE DEF e
  <2>3. [held[p] EXCEPT ![a] = e] \in Ledger
        /\ \A b \in Agents : held[p][b].flags \subseteq [held[p] EXCEPT ![a] = e][b].flags
    BY <1>t, <2>1, AgentChanged
  <2> QED
    BY <2>2, <2>3, CommandKeeps
<1>3. ASSUME NEW a \in Agents, NEW s \in CliLifts, CliLift(p, a, s) PROVE CourtInv' /\ Ended
  <2> DEFINE e == Lifted(held[p][a], s)
  <2>1. e \in Entry /\ (s # "all" => e.flags = held[p][a].flags \ {s})
    BY <1>t, LiftedTyped
  <2>2. Command(p, [held[p] EXCEPT ![a] = e]) /\ UNCHANGED run
    BY <1>3 DEF CliLift
  <2> HIDE DEF e
  <2>3. /\ [held[p] EXCEPT ![a] = e] \in Ledger /\ [held[p] EXCEPT ![a] = e][a] = e
        /\ \A b \in Agents : b # a => [held[p] EXCEPT ![a] = e][b] = held[p][b]
    BY <1>t, <2>1, AgentChanged
  <2>4. s = "all" => Flags \ LiftedByCommand = {}
    BY DEF LiftedByCommand
  <2>5. s # "all" => s \notin Flags \ LiftedByCommand
    BY DEF LiftedByCommand
  <2>6. \A b \in Agents, f \in Flags \ LiftedByCommand :
          f \in held[p][b].flags => f \in [held[p] EXCEPT ![a] = e][b].flags
    BY <2>1, <2>3, <2>4, <2>5
  <2> QED
    BY <2>2, <2>3, <2>6, CommandKeeps
<1>4. CASE AutoCheck(p)
  BY <1>t, <1>4, AutoCheckedLedger, CommandKeeps DEF AutoCheck
<1>5. CASE CliEpoch(p)
  <2>1. NextEpoch(held[p]) \in Ledger /\ SameFlags(NextEpoch(held[p]), held[p])
    BY <1>t, NextEpochTyped
  <2>2. Command(p, NextEpoch(held[p])) /\ (UNCHANGED run \/ EpochAdvanceSeen)
    BY <1>5 DEF CliEpoch, EpochAdvanceMissed
  <2> QED
    BY <2>1, <2>2, CommandKeeps DEF SameFlags
<1>6. ASSUME NEW o \in HandScores, NEW b \in Bonuses, CliRecord(p, o, b) PROVE CourtInv' /\ Ended
  <2> DEFINE e == HandScored(held[p][o.agent], o, b)
  <2>1. o \in Outcome /\ o.agent \in Agents /\ b \in [rep : 0..3, auth : 0..4]
    BY OutcomesAreOutcomes, BonusesAreCapped DEF Outcome
  <2>2. e \in Entry /\ e.flags = held[p][o.agent].flags
    BY <1>t, <2>1, HandScoredTyped
  <2>3. Command(p, [held[p] EXCEPT ![o.agent] = e]) /\ UNCHANGED run
    BY <1>6 DEF CliRecord
  <2> HIDE DEF e
  <2>4. [held[p] EXCEPT ![o.agent] = e] \in Ledger
        /\ \A c \in Agents : [held[p] EXCEPT ![o.agent] = e][c].flags = held[p][c].flags
    BY <1>t, <2>1, <2>2, AgentChanged
  <2> DEFINE l == [held[p] EXCEPT ![o.agent] = e]
  <2>5. l \in Ledger /\ Command(p, l) /\ UNCHANGED run
    BY <2>3, <2>4
  <2>6. \A c \in Agents : held[p][c].flags \ l[c].flags = {}
    BY <2>4
  <2> HIDE DEF l
  <2> QED
    BY <2>5, <2>6, CommandKeeps
<1> QED
  BY <1>1, <1>2, <1>3, <1>4, <1>5, <1>6, LoadsKeep, StopKeeps DEF CommandStep

(* The ledger first, then the registry; the record is still in memory.     *)
LEMMA FileViolationKeeps ==
  ASSUME CourtInv, NEW p \in Processes, NEW v \in Violations, NEW call \in Calls(p),
         NEW applied \in {SanctionOf(call.severity), None}, FileViolation(p, v, call, applied)
  PROVE  CourtInv' /\ Ended
<1>t. LedgersOK /\ RecordsOK /\ RegistryOK /\ WorkOK
  BY DEF CourtInv
<1>1. call \in Call /\ call.agent \in Agents /\ call.severity \in 1..6
  <2>1. todo[p] \subseteq Call
    BY <1>t DEF WorkOK
  <2>2. [agent : Agents, severity : Severities] \subseteq Call
    BY SeverityRange DEF Call
  <2>3. call \in Call
    BY <2>1, <2>2 DEF Calls
  <2> QED
    BY <2>3 DEF Call
<1>2. applied \in Flags \union {None}
  BY <1>1 DEF SanctionOf, Flags
<1>3. LedgersOK' /\ Ended
  <2>1. CASE applied = None
    <3>1. UNCHANGED <<ledger, held, loaded>>
      BY <2>1 DEF FileViolation
    <3> QED
      BY <1>t, <3>1, NoneEnded, PartsAlone
  <2>2. CASE applied # None
    <3> DEFINE e == Sanctioned(held[p][call.agent], applied)
    <3>1. e \in Entry /\ held[p][call.agent].flags \subseteq e.flags
      BY <1>t, <1>1, <1>2, <2>2, HeldEntries, SanctionedTyped
    <3>2. SaveLedger(p, [held[p] EXCEPT ![call.agent] = e])
      BY <2>2 DEF FileViolation
    <3> HIDE DEF e
    <3>3. /\ [held[p] EXCEPT ![call.agent] = e] \in Ledger
          /\ \A b \in Agents : held[p][b].flags \subseteq [held[p] EXCEPT ![call.agent] = e][b].flags
      BY <1>t, <1>1, <3>1, HeldEntries, AgentChanged
    <3> QED
      BY <1>t, <3>2, <3>3, SavedSeen
  <2> QED
    BY <2>1, <2>2
<1>4. RecordsOK'
  <2> DEFINE x == Filed(call.agent, call.severity, applied)
  <2>1. x \in Violation
    BY <1>1, <1>2 DEF Filed, Violation, Statuses
  <2>2. known' = [known EXCEPT ![p] = WithViolation(known[p], v, x)] /\ records' = records
    BY <1>t DEF FileViolation, WithViolation, RecordsOK
  <2> HIDE DEF x
  <2>3. WithViolation(known[p], v, x) \in Records /\ Backed(WithViolation(known[p], v, x))
    BY <1>t, <2>1, KnownRecords, ViolationChanged
  <2> QED
    BY <1>t, <2>2, <2>3, RecordsKnown
<1>5. RegistryOK'
  <2>1. registry[call.agent] \in [incidents : Nat, risk : Risks]
    BY <1>t, <1>1 DEF RegistryOK
  <2>2. WithIncident(registry[call.agent]) \in [incidents : Nat, risk : Risks]
    BY <2>1 DEF WithIncident, Risks
  <2>3. RegistryMayTake(call.agent, WithIncident(registry[call.agent]))
    BY DEF FileViolation
  <2> QED
    BY <1>t, <1>1, <2>2, <2>3, RegistryTaken
<1>6. WorkOK'
  <2>1. calls' \in 0..MaxCalls
    <3>1. Begin(p) \/ UNCHANGED calls
      BY DEF FileViolation
    <3> QED
      BY <1>t, <3>1, Begun DEF WorkOK
  <2>2. /\ phase' = [phase EXCEPT ![p] = "writing"] /\ todo' = [todo EXCEPT ![p] = @ \ {call}]
        /\ UNCHANGED scoring
    BY DEF FileViolation
  <2> QED
    BY <1>t, <2>1, <2>2 DEF WorkOK, scoring, Phases
<1> QED
  BY <1>3, <1>4, <1>5, <1>6 DEF CourtInv

(* A handler that changes nothing but the records.                         *)
LEMMA RecordStepsKeep ==
  ASSUME CourtInv, NEW p \in Processes,
         \/ SaveCase(p)
         \/ \E v \in Violations : ResolveViolation(p, v) \/ \E q \in Appeals : FileAppeal(p, q, v)
  PROVE  CourtInv' /\ Ended
<1>t. /\ LedgersOK /\ RecordsOK /\ RegistryOK /\ WorkOK
      /\ known[p] \in Records /\ Backed(known[p])
  BY KnownRecords DEF CourtInv
<1>1. UNCHANGED <<ledger, held, loaded, registry>>
  BY DEF SaveCase, ResolveViolation, FileAppeal
<1>2. RecordsOK' /\ WorkOK'
  <2>1. CASE SaveCase(p)
    <3>1. RecordsOK'
      BY <1>t, <2>1, RecordsSaved DEF SaveCase
    <3>2. WorkOK'
      BY <1>t, <2>1 DEF SaveCase, WorkOK, scoring, Phases
    <3> QED
      BY <3>1, <3>2
  <2>2. ASSUME NEW v \in Violations, ResolveViolation(p, v) PROVE RecordsOK' /\ WorkOK'
    <3> DEFINE x == [known[p].violations[v] EXCEPT !.status = "resolved"]
    <3>1. known[p].violations[v] \in Violation
      BY <1>t, <2>2, RecordFields DEF ResolveViolation
    <3>2. x \in Violation
      BY <3>1 DEF Violation, Statuses
    <3>3. SaveRecords(p, WithViolation(known[p], v, x))
      BY <2>2 DEF ResolveViolation, WithViolation
    <3> HIDE DEF x
    <3>4. RecordsOK'
      BY <1>t, <3>2, <3>3, ViolationChanged, RecordsSaved
    <3>5. WorkOK'
      BY <1>t, <2>2, WorkBegun DEF ResolveViolation
    <3> QED
      BY <3>4, <3>5
  <2>3. ASSUME NEW v \in Violations, NEW q \in Appeals, FileAppeal(p, q, v) PROVE RecordsOK' /\ WorkOK'
    <3> DEFINE x == [known[p].violations[v] EXCEPT !.status = "appealed"]
               y == [violation |-> v, status |-> "pending"]
               r == WithViolation(known[p], v, x)
    <3>1. known[p].violations[v] \in Violation
      BY <1>t, <2>3, RecordFields DEF FileAppeal
    <3>2. x \in Violation /\ y \in Appeal /\ y.violation = v
      BY <3>1 DEF Violation, Statuses, Appeal
    <3>3. SaveRecords(p, WithAppeal(r, q, y))
      <4>1. WithAppeal(r, q, y) = [known[p] EXCEPT !.appeals[q] = y, !.violations[v].status = "appealed"]
        BY <1>t DEF WithAppeal, WithViolation, Records
      <4> QED
        BY <2>3, <4>1 DEF FileAppeal
    <3> HIDE DEF x, y
    <3>4. r \in Records /\ Backed(r) /\ r.violations[y.violation] # None
      BY <1>t, <3>2, ViolationChanged
    <3> HIDE DEF r
    <3>5. RecordsOK'
      BY <1>t, <3>2, <3>3, <3>4, AppealChanged, RecordsSaved
    <3>6. WorkOK'
      BY <1>t, <2>3, WorkBegun DEF FileAppeal
    <3> QED
      BY <3>5, <3>6
  <2> QED
    BY <2>1, <2>2, <2>3
<1> QED
  BY <1>t, <1>1, <1>2, NoneEnded, PartsAlone DEF CourtInv

(* A sanction an overturned appeal lifts is the one its violation carried. *)
LEMMA DecideAppealKeeps ==
  ASSUME CourtInv, NEW p \in Processes, NEW q \in Appeals,
         NEW decision \in {"upheld", "overturned", "dismissed"}, NEW lifts \in BOOLEAN,
         DecideAppeal(p, q, decision, lifts)
  PROVE  CourtInv' /\ Ended
<1> DEFINE v == known[p].appeals[q].violation
           vio == known[p].violations[v]
<1>t. /\ LedgersOK /\ RecordsOK /\ RegistryOK /\ WorkOK
      /\ known[p] \in Records /\ Backed(known[p])
      /\ held[p] \in Ledger /\ \A a \in Agents : held[p][a] \in Entry
  BY KnownRecords, HeldEntries DEF CourtInv
<1>1. known[p].appeals[q] # None /\ known[p].appeals[q].status = "pending"
  BY DEF DecideAppeal
<1>2. known[p].appeals[q] \in Appeal /\ v \in Violations /\ vio \in Violation
  BY <1>t, <1>1, RecordFields DEF Backed, Appeal
<1>3. vio.agent \in Agents /\ vio.sanction \in Flags \union {None}
  BY <1>2 DEF Violation
<1>4. LedgersOK' /\ Ended
  <2>1. CASE UNCHANGED <<ledger, held, loaded>>
    BY <1>t, <2>1, NoneEnded, PartsAlone
  <2>2. CASE ~UNCHANGED <<ledger, held, loaded>>
    <3> DEFINE e == Lifted(held[p][vio.agent], vio.sanction)
    <3>1. vio.sanction # None /\ SaveLedger(p, [held[p] EXCEPT ![vio.agent] = e])
      BY <2>2 DEF DecideAppeal
    <3>2. vio.sanction # "all"
      BY <1>3, <3>1 DEF Flags
    <3>3. e \in Entry /\ e.flags = held[p][vio.agent].flags \ {vio.sanction}
      BY <1>t, <1>3, <3>2, LiftedTyped
    <3> HIDE DEF e
    <3> DEFINE l == [held[p] EXCEPT ![vio.agent] = e]
    <3>4. l \in Ledger /\ l[vio.agent] = e /\ \A b \in Agents : b # vio.agent => l[b] = held[p][b]
      <4>1. held[p] \in Ledger /\ vio.agent \in Agents /\ e \in Entry
        BY <1>t, <1>3, <3>3
      <4> HIDE DEF vio
      <4> QED
        BY <4>1, AgentChanged
    <3>5. SaveLedger(p, l)
      BY <3>1
    <3> HIDE DEF l
    <3>6. ASSUME NEW a \in Agents, NEW s \in Flags, s \in held[p][a].flags \ l[a].flags
          PROVE  MayEnd(p, a, s)
      <4>1. a = vio.agent /\ s = vio.sanction
        BY <3>3, <3>4, <3>6
      <4> QED
        BY <1>1, <4>1 DEF MayEnd
    <3> QED
      BY <1>t, <3>4, <3>5, <3>6, LedgerSaved, SavedEnds
  <2> QED
    BY <2>1, <2>2
<1>5. RecordsOK'
  <2> DEFINE status == CASE decision = "overturned" -> "dismissed" [] decision = "upheld" -> "sanctioned"
                         [] decision = "dismissed" -> vio.status
             x == [vio EXCEPT !.status = status]
             y == [known[p].appeals[q] EXCEPT !.status = decision]
             r == WithViolation(known[p], v, x)
  <2>1. vio.status \in Statuses
    BY <1>2 DEF Violation
  <2>2. status \in Statuses
    BY <2>1 DEF Statuses
  <2>3. x \in Violation
    <3> HIDE DEF status
    <3> QED
      BY <1>2, <2>2 DEF Violation
  <2>4. y \in Appeal /\ y.violation = v
    BY <1>2 DEF Appeal
  <2>5. known' = [known EXCEPT ![p] = WithAppeal(r, q, y)] /\ records' = records
    <3>1. WithAppeal(r, q, y)
            = [known[p] EXCEPT !.appeals[q].status = decision, !.violations[v].status = status]
      <4> HIDE DEF status
      <4> QED
        BY <1>t DEF WithAppeal, WithViolation, Records
    <3>2. known' = [known EXCEPT ![p].appeals[q].status = decision, ![p].violations[v].status = status]
          /\ records' = records
      BY DEF DecideAppeal
    <3>3. [known EXCEPT ![p].appeals[q].status = decision, ![p].violations[v].status = status]
            = [known EXCEPT ![p] = [known[p] EXCEPT !.appeals[q].status = decision,
                                                    !.violations[v].status = status]]
      <4> HIDE DEF status, v
      <4> QED
        BY <1>t DEF RecordsOK, Records
    <3> QED
      BY <3>1, <3>2, <3>3
  <2> HIDE DEF x, y
  <2>6. r \in Records /\ Backed(r) /\ r.violations[y.violation] # None
    BY <1>t, <1>2, <2>3, <2>4, ViolationChanged
  <2> HIDE DEF r
  <2>7. WithAppeal(r, q, y) \in Records /\ Backed(WithAppeal(r, q, y))
    BY <2>4, <2>6, AppealChanged
  <2> QED
    BY <1>t, <2>5, <2>7, RecordsKnown
<1>6. WorkOK' /\ registry' = registry
  <2>1. calls' \in 0..MaxCalls
    BY <1>t, Begun DEF DecideAppeal
  <2>2. phase' = [phase EXCEPT ![p] = "writing"] /\ UNCHANGED <<registry, todo, scoring>>
    BY DEF DecideAppeal
  <2> QED
    BY <1>t, <2>1, <2>2 DEF WorkOK, scoring, Phases
<1> QED
  BY <1>t, <1>4, <1>5, <1>6, PartsAlone DEF CourtInv

(* A remediated agent has every case closed, and loses every flag.         *)
LEMMA RemediateKeeps ==
  ASSUME CourtInv, NEW p \in Processes, NEW a \in Agents, Remediate(p, a)
  PROVE  CourtInv' /\ Ended
<1>t. /\ LedgersOK /\ RecordsOK /\ RegistryOK /\ WorkOK
      /\ held[p] \in Ledger /\ \A b \in Agents : held[p][b] \in Entry
      /\ known[p] \in Records
  BY KnownRecords, HeldEntries DEF CourtInv
<1>1. /\ Begin(p) /\ ~CaseOpen(known[p], a)
      /\ RegistryMayTake(a, [incidents |-> 0, risk |-> "nominal"])
      /\ UNCHANGED <<records, known, phase, todo, scoring>>
  BY DEF Remediate
<1>2. AllClosed(known[p], a)
  <2> SUFFICES ASSUME NEW v \in Violations, known[p].violations[v] # None,
                      known[p].violations[v].agent = a
               PROVE  known[p].violations[v].status \in {"resolved", "dismissed"}
    BY DEF AllClosed
  <2>1. known[p].violations[v].status \in Statuses
    BY <1>t, RecordFields DEF Violation
  <2>2. known[p].violations[v].status \notin {"open", "sanctioned", "appealed"}
    BY <1>1 DEF CaseOpen
  <2> QED
    BY <2>1, <2>2 DEF Statuses
<1>3. LedgersOK' /\ Ended
  <2>1. CASE held[p][a].flags = {}
    <3>1. UNCHANGED <<ledger, held, loaded>>
      BY <2>1 DEF Remediate
    <3> QED
      BY <1>t, <3>1, NoneEnded, PartsAlone
  <2>2. CASE held[p][a].flags # {}
    <3> DEFINE e == Remediated(held[p][a])
               l == [held[p] EXCEPT ![a] = e]
    <3>1. e \in Entry /\ e.flags = {}
      <4>1. CASE "zero_authority" \in held[p][a].flags
        <5>1. e = Lifted(held[p][a], "all") /\ e \in Entry
          BY <1>t, <4>1, LiftedTyped DEF Remediated
        <5> QED
          BY <1>t, <5>1 DEF Lifted, Entry
      <4>2. CASE "zero_authority" \notin held[p][a].flags
        BY <1>t, <4>2 DEF Remediated, Entry
      <4> QED
        BY <4>1, <4>2
    <3>2. SaveLedger(p, l)
      BY <2>2 DEF Remediate
    <3> HIDE DEF e
    <3>3. l \in Ledger /\ l[a] = e /\ \A b \in Agents : b # a => l[b] = held[p][b]
      BY <1>t, <3>1, AgentChanged
    <3> HIDE DEF l
    <3>4. ledger' = l
      BY <3>2 DEF SaveLedger
    <3>5. ASSUME NEW b \in Agents, NEW s \in Flags, s \in held[p][b].flags \ l[b].flags
          PROVE  MayEnd(p, b, s)
      <4>1. b = a /\ ledger'[a].flags = {}
        BY <3>1, <3>3, <3>4, <3>5
      <4> QED
        BY <1>2, <4>1 DEF MayEnd
    <3> QED
      BY <1>t, <3>2, <3>3, <3>5, LedgerSaved, SavedEnds
  <2> QED
    BY <2>1, <2>2
<1>4. RegistryOK'
  <2>1. [incidents |-> 0, risk |-> "nominal"] \in [incidents : Nat, risk : Risks]
    BY DEF Risks
  <2> QED
    BY <1>t, <1>1, <2>1, RegistryTaken
<1>5. WorkOK'
  BY <1>t, <1>1, WorkBegun
<1> QED
  BY <1>t, <1>1, <1>3, <1>4, <1>5, PartsAlone DEF CourtInv

LEMMA AutoReviewKeeps ==
  ASSUME CourtInv, NEW p \in Processes, AutoReview(p)
  PROVE  CourtInv' /\ Ended
<1>t. LedgersOK /\ RecordsOK /\ RegistryOK /\ WorkOK
  BY DEF CourtInv
<1>1. /\ UNCHANGED <<ledger, records, registry, held, loaded, known, scoring>>
      /\ todo' = [todo EXCEPT ![p] = ReviewCalls(held[p])] /\ phase' = [phase EXCEPT ![p] = "idle"]
  BY DEF AutoReview
<1>2. calls' \in 0..MaxCalls
  <2>1. Begin(p) \/ UNCHANGED calls
    BY DEF AutoReview
  <2> QED
    BY <1>t, <2>1, Begun DEF WorkOK
<1>3. ReviewCalls(held[p]) \in SUBSET Call
  BY AutoAppliedTyped DEF ReviewCalls, Call
<1> HIDE DEF ReviewCalls
<1>4. WorkOK'
  BY <1>t, <1>1, <1>2, <1>3 DEF WorkOK, scoring, Phases
<1> QED
  BY <1>t, <1>1, <1>4, NoneEnded, PartsAlone DEF CourtInv

LEMMA CourtStepKeeps ==
  ASSUME CourtInv, NEW p \in Processes, CourtStep(p)
  PROVE  CourtInv' /\ Ended
BY LoadsKeep, AutoReviewKeeps, FileViolationKeeps, RecordStepsKeep, DecideAppealKeeps, RemediateKeeps
   DEF CourtStep

LEMMA DeliverKeeps ==
  ASSUME CourtInv, Deliver
  PROVE  CourtInv' /\ Ended
<1>1. /\ UNCHANGED <<ledger, records, registry, phase, held, loaded, known, todo, pending, calls>>
      /\ run.number < MaxRuns /\ run' = [number |-> run.number + 1, marked |-> FALSE]
  BY DEF Deliver, memory
<1>2. WorkOK'
  BY <1>1, CourtBounds DEF CourtInv, WorkOK
<1> QED
  BY <1>1, <1>2, NoneEnded, PartsAlone DEF CourtInv

(* Scoring changes scores in memory and saves them with the flags it       *)
(* loaded.                                                                 *)
LEMMA ScoringKeeps ==
  ASSUME LedgersOK, NEW p \in Processes, NEW l \in Ledger, SameFlags(l, held[p]),
         held' = [held EXCEPT ![p] = l], UNCHANGED <<ledger, loaded>>
  PROVE  LedgersOK'
<1>1. /\ held \in [Processes -> Ledger] /\ loaded \in [Processes -> Ledger]
      /\ \A o \in Processes : SameFlags(held[o], loaded[o])
  BY DEF LedgersOK, Seen
<1>2. held' \in [Processes -> Ledger] /\ held'[p] = l
      /\ \A o \in Processes : o # p => held'[o] = held[o]
  BY <1>1
<1>3. SameFlags(l, loaded[p])
  BY <1>1 DEF SameFlags
<1>4. \A o \in Processes : SameFlags(held'[o], loaded'[o])
  BY <1>1, <1>2, <1>3 DEF SameFlags
<1> QED
  BY <1>1, <1>2, <1>4 DEF LedgersOK, Seen

LEMMA ScorerStepKeeps ==
  ASSUME CourtInv, NEW p \in Processes, ScorerStep(p)
  PROVE  CourtInv' /\ Ended
<1>t. /\ LedgersOK /\ RecordsOK /\ RegistryOK /\ WorkOK
      /\ held[p] \in Ledger /\ \A a \in Agents : held[p][a] \in Entry
  BY HeldEntries DEF CourtInv
<1>1. ASSUME NEW found \in SUBSET Outcomes, StartScoring(p, found) PROVE CourtInv' /\ Ended
  <2>1. /\ Begin(p) /\ UNCHANGED <<ledger, records, registry, known, todo, run>>
        /\ held' = [held EXCEPT ![p] = ledger] /\ loaded' = [loaded EXCEPT ![p] = ledger]
        /\ phase' = [phase EXCEPT ![p] = "scoring"] /\ pending' = [pending EXCEPT ![p] = found]
    BY <1>1 DEF StartScoring
  <2>2. LedgersOK'
    <3>1. SaveLedger(p, ledger) /\ ledger \in Ledger
      BY <1>t, <2>1 DEF SaveLedger, LedgersOK
    <3> QED
      BY <1>t, <3>1, LedgerSaved
  <2>3. WorkOK'
    <3>1. calls' \in 0..MaxCalls
      BY <1>t, <2>1, Begun
    <3>2. run.number \in 0..MaxRuns
      BY <1>t DEF WorkOK
    <3> QED
      BY <1>t, <2>1, <3>1, <3>2 DEF WorkOK, Phases
  <2> QED
    BY <1>t, <2>1, <2>2, <2>3, NoneEnded, PartsAlone DEF CourtInv
<1>2. ASSUME NEW o \in Outcomes, NEW b \in Bonuses, ScoreOutcome(p, o, b) PROVE CourtInv' /\ Ended
  <2>1. /\ held' = [held EXCEPT ![p] = Scored(held[p], o, b)] /\ pending' = [pending EXCEPT ![p] = @ \ {o}]
        /\ UNCHANGED <<ledger, records, registry, phase, loaded, known, todo, run, calls>>
    BY <1>t, <1>2 DEF ScoreOutcome, LedgersOK
  <2>2. LedgersOK'
    BY <1>t, <2>1, ScoredTyped, ScoringKeeps
  <2>3. WorkOK'
    BY <1>t, <2>1 DEF WorkOK
  <2> QED
    BY <1>t, <2>1, <2>2, <2>3, NoneEnded, PartsAlone DEF CourtInv
<1>3. CASE AppendEpochAdvance(p)
  <2>1. /\ held' = [held EXCEPT ![p] = NextEpoch(held[p])] /\ phase' = [phase EXCEPT ![p] = "advanced"]
        /\ UNCHANGED <<ledger, records, registry, loaded, known, todo, pending, calls>>
        /\ UNCHANGED run \/ EpochAdvanceSeen
    BY <1>t, <1>3 DEF AppendEpochAdvance, EpochAdvanceMissed, LedgersOK
  <2>2. LedgersOK'
    BY <1>t, <2>1, NextEpochTyped, ScoringKeeps
  <2>3. WorkOK'
    BY <1>t, <2>1 DEF WorkOK, EpochAdvanceSeen, Phases
  <2> QED
    BY <1>t, <2>1, <2>2, <2>3, NoneEnded, PartsAlone DEF CourtInv
<1>4. CASE SaveScores(p)
  <2>1. /\ SaveLedger(p, held[p])
        /\ phase' = [phase EXCEPT ![p] = "saved"]
        /\ UNCHANGED <<records, registry, known, todo, pending, run, calls>>
    BY <1>4 DEF SaveScores
  <2>2. LedgersOK' /\ Ended
    BY <1>t, <2>1, SavedSeen
  <2>3. WorkOK'
    BY <1>t, <2>1 DEF WorkOK, Phases
  <2> QED
    BY <1>t, <2>1, <2>2, <2>3, PartsAlone DEF CourtInv
<1>5. CASE ScorerAutoCheck(p)
  <2>1. /\ phase' = [phase EXCEPT ![p] = "checked"]
        /\ UNCHANGED <<records, registry, known, todo, scoring, calls>>
        /\ \/ SaveLedger(p, [a \in Agents |-> AutoChecked(held[p][a])])
           \/ UNCHANGED <<ledger, held, loaded>>
    BY <1>5 DEF ScorerAutoCheck
  <2>2. LedgersOK' /\ Ended
    <3>1. CASE UNCHANGED <<ledger, held, loaded>>
      BY <1>t, <3>1, NoneEnded, PartsAlone
    <3>2. CASE SaveLedger(p, [a \in Agents |-> AutoChecked(held[p][a])])
      BY <1>t, <3>2, AutoCheckedLedger, LedgerSaved, SavedEnds
    <3> QED
      BY <2>1, <3>1, <3>2
  <2>3. WorkOK'
    BY <1>t, <2>1 DEF WorkOK, scoring, Phases
  <2> QED
    BY <1>t, <2>1, <2>2, <2>3, PartsAlone DEF CourtInv
<1>6. CASE SyncFromEconomy(p)
  <2>1. /\ phase' = [phase EXCEPT ![p] = "synced"]
        /\ UNCHANGED <<ledger, records, held, loaded, known, todo, scoring, calls>>
        /\ \/ registry' = [a \in Agents |-> IF a \in Registered
                                            THEN [registry[a] EXCEPT !.risk = RiskOf(held[p][a])]
                                            ELSE registry[a]]
           \/ UNCHANGED registry
    BY <1>6 DEF SyncFromEconomy
  <2>2. RegistryOK'
    <3>1. \A a \in Agents : RiskOf(held[p][a]) \in Risks
      BY DEF RiskOf, Risks
    <3>2. \A a \in Agents : registry[a] \in [incidents : Nat, risk : Risks]
      BY <1>t DEF RegistryOK
    <3>3. \A a \in Agents : [registry[a] EXCEPT !.risk = RiskOf(held[p][a])] \in [incidents : Nat, risk : Risks]
      BY <3>1, <3>2
    <3> QED
      BY <1>t, <2>1, <3>2, <3>3 DEF RegistryOK
  <2>3. WorkOK'
    BY <1>t, <2>1 DEF WorkOK, scoring, Phases
  <2> QED
    BY <1>t, <2>1, <2>2, <2>3, NoneEnded, PartsAlone DEF CourtInv
<1> QED
  BY <1>1, <1>2, <1>3, <1>4, <1>5, <1>6 DEF ScorerStep

LEMMA CourtStepInv == CourtInv /\ [Next]_vars => CourtInv' /\ Ended
<1> SUFFICES ASSUME CourtInv, [Next]_vars PROVE CourtInv' /\ Ended
  OBVIOUS
<1>1. CASE UNCHANGED vars
  BY <1>1, NoneEnded, PartsAlone DEF vars, memory, CourtInv
<1> QED
  BY <1>1, CourtStepKeeps, CommandStepKeeps, DeliverKeeps, ScorerStepKeeps DEF Next

(* The ledger, the records, the registry and what the processes hold of    *)
(* them keep their types: scores stay within their range whatever is added *)
(* to them and however old the ledger is that they are added to.           *)
THEOREM CourtTyped == Spec => []TypeOK
<1> QED
  BY CourtInvTypes, CourtInitInv, CourtStepInv, PTL DEF Spec

(* A sanction the operator does not lift ends by a decision about the      *)
(* agent, a recovered score, or a save of the ledger by a process that had *)
(* loaded it before the sanction, and in no other way.                     *)
THEOREM SanctionsEnd == Spec => SanctionsEndForAReason
<1>1. CourtInv /\ [Next]_vars =>
        [\A a \in Agents, s \in Flags \ LiftedByCommand :
           s \in ledger[a].flags /\ s \notin ledger'[a].flags =>
             \E p \in Processes : held' = [held EXCEPT ![p] = ledger'] /\ MayEnd(p, a, s)]_vars
  BY CourtStepInv DEF Ended
<1> QED
  BY <1>1, CourtInitInv, CourtStepInv, PTL DEF Spec, SanctionsEndForAReason

-----------------------------------------------------------------------------
(* The economy of an institution: what its agents earn and lose, what its  *)
(* customers pay and the transfers of its treasury keep their types,       *)
(* whichever of them moves.                                                *)
THEOREM EconomyTyped == EconomySpec => []EconomyTypeOK
<1> DEFINE EconomyInv == CourtInv /\ CommerceInv /\ TransferInv
<1>1. EconomyInit => EconomyInv
  BY CourtInitInv, CommerceInitInv, TransferInitInv DEF EconomyInit
<1>2. EconomyInv /\ [EconomyNext]_<<part, vars, commerceVars, transferVars>> => EconomyInv'
  <2> SUFFICES ASSUME EconomyInv, [EconomyNext]_<<part, vars, commerceVars, transferVars>>
               PROVE  EconomyInv'
    OBVIOUS
  <2>1. [Next]_vars /\ [CommerceNext]_commerceVars /\ [TransferNext]_transferVars
    BY DEF EconomyNext, CommerceNext
  <2> QED
    BY <2>1, CourtStepInv, CommerceStepInv, TransferStepInv
<1>3. EconomyInv => EconomyTypeOK
  BY CourtInvTypes DEF CommerceInv, TransferInv, EconomyTypeOK
<1> QED
  BY <1>1, <1>2, <1>3, PTL DEF EconomySpec
=============================================================================
