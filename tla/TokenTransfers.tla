--------------------------- MODULE TokenTransfers ---------------------------
(***************************************************************************)
(* USDC transfers that pay a payee from a registered wallet.  A command    *)
(* prepares a transfer from what the chain answers, signs it and may       *)
(* broadcast it; it keeps nothing of its own, so what a lost answer hides  *)
(* is signed again, and a signed transfer may be broadcast by hand at any  *)
(* time.  Hot wallets are provisioned by a command that writes the wallet, *)
(* the treasury account and the secret file, in this order.  A command     *)
(* that any other blocker stops ends without a trace.                      *)
(***************************************************************************)
EXTENDS Naturals, FiniteSets

CONSTANTS
  Operators,   \* processes that prepare and sign
  Custodied,   \* wallets whose keys the operators hold
  Hot,         \* wallets to be provisioned
  Proposals,   \* payout proposals
  Recipients,  \* addresses an operator pays without a proposal
  Levels,      \* verification levels that wallets are registered at
  Nil,         \* no wallet, no transfer
  MaxNonce,    \* bound on the nonces
  MaxSigned    \* bound on the signed transfers

Payees == Proposals \union Recipients
Wallets == Custodied \union Hot
Nonces == 0..MaxNonce
SelfCustody == 3

ASSUME TransferAssumptions ==
  /\ MaxNonce \in Nat /\ MaxSigned \in Nat /\ Levels \subseteq Nat
  /\ Nil \notin Wallets \union Nat
ASSUME HotWalletsAreNew == Custodied \intersect Hot = {}

VARIABLES
  level,       \* wallet registry: the level of a wallet
  accounts,    \* wallets that treasury accounts name
  secrets,     \* hot wallets whose secret file is written
  provision,   \* the wallet a running provisioning is about, or Nil
  prepared,    \* the transfer each operator's command has prepared, and the sender's level
  signed,      \* signed transfers, in the operators' hands
  pool,        \* transfers the nodes of the chain hold
  mined,       \* transfers on the chain
  resolved,    \* history: payees for whom a nonce was taken from the chain
  pins         \* history: the wallets and nonces insisted on for each payee

custodyVars == <<level, accounts, secrets, provision>>
chainVars == <<pool, mined>>
signVars == <<prepared, signed, resolved, pins>>
transferVars == <<custodyVars, chainVars, signVars>>

Transfer == [from : Wallets, to : Payees, nonce : Nonces]

TransferTypeOK ==
  /\ level \in [Wallets -> Levels \union {SelfCustody, Nil}]
  /\ accounts \subseteq Wallets /\ secrets \subseteq Hot
  /\ provision \in Hot \union {Nil}
  /\ prepared \in [Operators -> [transfer : Transfer, level : Levels \union {SelfCustody}] \union {Nil}]
  /\ signed \subseteq Transfer /\ pool \subseteq Transfer /\ mined \subseteq Transfer
  /\ resolved \subseteq Payees /\ pins \in [Payees -> SUBSET (Wallets \X Nonces)]

TransferInit ==
  /\ level = [w \in Wallets |-> Nil] /\ accounts = {} /\ secrets = {} /\ provision = Nil
  /\ prepared = [o \in Operators |-> Nil]
  /\ signed = {} /\ pool = {} /\ mined = {}
  /\ resolved = {} /\ pins = [p \in Payees |-> {}]

-----------------------------------------------------------------------------
(***************************************************************************)
(* Wallets and treasury accounts.                                          *)
(***************************************************************************)
RegisterWallet(w, l) ==
  /\ w \in Custodied /\ level[w] = Nil
  /\ level' = [level EXCEPT ![w] = l]
  /\ UNCHANGED <<accounts, secrets, provision, chainVars, signVars>>

(* The key of a hot wallet is in the command's memory until the secret     *)
(* file is written.                                                        *)
ProvisionWallet(w) ==
  /\ provision = Nil
  /\ level[w] = Nil /\ w \notin accounts /\ w \notin secrets
  /\ provision' = w
  /\ level' = [level EXCEPT ![w] = SelfCustody]
  /\ UNCHANGED <<accounts, secrets, chainVars, signVars>>
ProvisionAccount ==
  /\ provision # Nil /\ provision \notin accounts
  /\ accounts' = accounts \union {provision}
  /\ UNCHANGED <<level, secrets, provision, chainVars, signVars>>
ProvisionSecret ==
  /\ provision \in accounts /\ provision \notin secrets
  /\ secrets' = secrets \union {provision}
  /\ UNCHANGED <<level, accounts, provision, chainVars, signVars>>

(* It ends, or stops before its end.                                       *)
ProvisionEnds ==
  /\ provision # Nil
  /\ provision' = Nil
  /\ UNCHANGED <<level, accounts, secrets, chainVars, signVars>>

-----------------------------------------------------------------------------
(***************************************************************************)
(* Transfers.                                                              *)
(***************************************************************************)

(* The nonce after those of the transfers the nodes know.                  *)
Known(w) == {t.nonce : t \in {u \in pool \union mined : u.from = w}}
PendingNonce(w) == CHOOSE n \in 0..MaxNonce + 1 : n \notin Known(w) /\ 0..n - 1 \subseteq Known(w)

NonceIgnoringGiven(w, given) == PendingNonce(w)
NonceOf(w, given) == IF given = Nil THEN PendingNonce(w) ELSE given

(* The wallet the caller names, or that its treasury account names.        *)
Senders == {w \in Wallets : level[w] # Nil}

(* A nonce that the caller gives is used; else the chain is asked.         *)
Prepared(o, p, w, given) ==
  /\ prepared[o] = Nil
  /\ w \in Senders /\ NonceOf(w, given) \in Nonces
  /\ prepared' = [prepared EXCEPT ![o] =
       [transfer |-> [from |-> w, to |-> p, nonce |-> NonceOf(w, given)], level |-> level[w]]]
  /\ resolved' = IF given = Nil THEN resolved \union {p} ELSE resolved
  /\ pins' = IF given = Nil THEN pins ELSE [pins EXCEPT ![p] = @ \union {<<w, given>>}]
  /\ UNCHANGED <<signed, custodyVars, chainVars>>

(* What blocks a payout, the state of its proposal included, is listed in  *)
(* the answer and stops neither the preparation nor the signature.         *)
PrepareForPayout(o, p, w, given) == p \in Proposals /\ Prepared(o, p, w, given)
PrepareFromWallet(o, p, w, given) == p \in Recipients /\ Prepared(o, p, w, given)

(* A node refuses a second transfer with the nonce of one it knows.        *)
Submitted(t) == IF t.nonce \in Known(t.from) THEN pool ELSE pool \union {t}

HoldsKeyAnyhow(w) == w \in Custodied \/ w \in secrets \/ w = provision
HoldsKey(w) == w \in Custodied \/ w \in secrets

(* Signs with the sender's own key, if its custody was verified when the   *)
(* transfer was prepared; then broadcasts if asked to, and the request may *)
(* be lost on its way.  The answer, if any, changes nothing.               *)
Sign(o, arrives) ==
  /\ LET t == prepared[o].transfer
     IN IF prepared[o].level >= SelfCustody /\ HoldsKey(t.from)
        THEN /\ Cardinality(signed \union {t}) <= MaxSigned
             /\ signed' = signed \union {t}
             /\ pool' = IF arrives THEN Submitted(t) ELSE pool
        ELSE UNCHANGED <<signed, pool>>
  /\ prepared' = [prepared EXCEPT ![o] = Nil]
  /\ UNCHANGED <<mined, resolved, pins, custodyVars>>

SignForPayout(o, arrives) ==
  prepared[o] # Nil /\ prepared[o].transfer.to \in Proposals /\ Sign(o, arrives)
SignFromWallet(o, arrives) ==
  prepared[o] # Nil /\ prepared[o].transfer.to \in Recipients /\ Sign(o, arrives)

BroadcastByHand(t) ==
  /\ t \in signed
  /\ pool' = Submitted(t)
  /\ UNCHANGED <<mined, signVars, custodyVars>>

(* The chain takes the transfers of a wallet in the order of their nonces. *)
Mine(t) ==
  /\ t \in pool
  /\ t.nonce = Cardinality({u \in mined : u.from = t.from})
  /\ mined' = mined \union {t} /\ pool' = pool \ {t}
  /\ UNCHANGED <<signVars, custodyVars>>

TransferNext ==
  \/ \E w \in Custodied, l \in Levels : RegisterWallet(w, l)
  \/ \E w \in Hot : ProvisionWallet(w)
  \/ ProvisionAccount \/ ProvisionSecret \/ ProvisionEnds
  \/ \E o \in Operators :
       \/ \E p \in Payees, w \in Wallets, given \in Nonces \union {Nil} :
            PrepareForPayout(o, p, w, given) \/ PrepareFromWallet(o, p, w, given)
       \/ \E arrives \in BOOLEAN : SignForPayout(o, arrives) \/ SignFromWallet(o, arrives)
  \/ \E t \in signed : BroadcastByHand(t)
  \/ \E t \in pool : Mine(t)

-----------------------------------------------------------------------------
(* Every transfer that was ever signed, and may be broadcast at any time,  *)
(* comes from a wallet that still is in verified custody and whose key is  *)
(* still held, and every treasury account names a registered wallet,       *)
(* wherever a provisioning stopped.                                        *)
CustodyIsReal ==
  /\ \A t \in signed :
       level[t.from] # Nil /\ level[t.from] >= SelfCustody /\ (t.from \in Hot => t.from \in secrets)
  /\ \A w \in accounts : level[w] # Nil

(* A payee is paid twice only if a nonce was taken from the chain for it,  *)
(* or two wallets or nonces were insisted on: whoever repeats one transfer *)
(* with its wallet and nonce, after whatever lost answer, pays once.       *)
PinnedPaysOnce ==
  \A p \in Payees :
    Cardinality({t \in mined : t.to = p}) > 1 => p \in resolved \/ Cardinality(pins[p]) > 1
=============================================================================
