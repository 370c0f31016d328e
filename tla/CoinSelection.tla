---------------------------- MODULE CoinSelection ----------------------------
(***************************************************************************)
(* How the wallet picks the coins of a payment and what it pays for them:  *)
(* selectCoins and the weight functions of src/wallet and                  *)
(* src/multi-sig/wallet.ts, and the outputs that sendBtcSingleSig and      *)
(* constructUnsignedMsTx build from its result.                            *)
(*                                                                         *)
(* A coin is its value in sats.  Every coin taken costs an await           *)
(* (blockchain_transaction_get), during which redeemed HTLCs may pay new   *)
(* coins into the wallet.  Sizes are counted in quarters of a vbyte.       *)
(***************************************************************************)
EXTENDS Integers, Sequences, FiniteSets, SequencesExt

CONSTANTS
    Kinds,       \* wallets: "wpkh", "ms"
    Values,      \* values of coins paid into the wallet
    Amounts,     \* amounts of payments
    Outputs,     \* types of the recipient's output
    Estimates,   \* answers of estimatefee in sats per kB, -1 for none
    PublicKeys,  \* public keys of the multi-sig group
    MinSigners,  \* signatures it asks for
    MaxCoins,    \* bound: coins received
    MaxPayments  \* bound: payments

ASSUME SatsAssumption == Values \subseteq Nat /\ Amounts \subseteq Nat /\ Estimates \subseteq Nat \cup {-1}
ASSUME GroupAssumption == PublicKeys \in Nat /\ MinSigners \in 1 .. PublicKeys
ASSUME BoundAssumption == MaxCoins \in Nat /\ MaxPayments \in Nat

-----------------------------------------------------------------------------
(* Weights.                                                                *)

OutputWeight == [pkh |-> 34, tr |-> 43, wsh |-> 43, sh |-> 32, wpkh |-> 32, unknown |-> 43]

ASSUME KindsAssumption == Kinds \subseteq {"wpkh", "ms"} /\ Outputs \subseteq DOMAIN OutputWeight

SizeOfVarInt(n) == IF n < 253 THEN 1 ELSE IF n < 65535 THEN 3 ELSE 5

\* nVersion, the two counts, nLockTime, and the witness marker and counts.
TxOverhead(inputs) == 4 * (8 + SizeOfVarInt(inputs) + SizeOfVarInt(2)) + 2 + inputs

PkhTxWeight(inputs, o)  == TxOverhead(inputs) + 4 * (148 * inputs + OutputWeight[o] + 34)
WpkhTxWeight(inputs, o) == TxOverhead(inputs) + 271 * inputs + 4 * (OutputWeight[o] + 34)

SizeOfScriptLength(n) == IF n < 75 THEN 1 ELSE IF n <= 255 THEN 2 ELSE 3

MsTxWeight(keys, sigs, inputs, o) ==
    LET redeemScript == 34 * keys + 3
        witness == 1 + 73 * sigs + SizeOfScriptLength(redeemScript) + redeemScript
    IN  TxOverhead(inputs) + (160 + witness) * inputs + 4 * (OutputWeight[o] + 43)

Weight(kind, inputs, o) ==
    IF kind = "ms" THEN MsTxWeight(PublicKeys, MinSigners, inputs, o) ELSE WpkhTxWeight(inputs, o)

\* Whole vbytes: rounded up for a single-sig transaction, to the nearest
\* for a multi-sig one.
ToBigInt(quarters) == (quarters + 3) \div 4
ToFixed(quarters) == (quarters + 2) \div 4

Vbytes(kind, inputs, o) ==
    IF kind = "ms" THEN ToFixed(Weight(kind, inputs, o)) ELSE ToBigInt(Weight(kind, inputs, o))

\* What the tests of the repository expect of two inputs and a pkh output.
ASSUME WeightsAssumption ==
    MsTxWeight(2, 2, 2, "pkh") = 1110 /\ PkhTxWeight(2, "pkh") = 1500

FeeRate(estimate) == IF estimate = -1 THEN 1 ELSE (estimate + 1023) \div 1024

-----------------------------------------------------------------------------
VARIABLES
    kind,        \* the wallet's script
    wallet,      \* unspent coins, oldest first
    payments,    \* bound: payments so far
    step,        \* what the handler does next
    amount, output,  \* the payment
    sorted,      \* coins listed, largest first
    feeRate,     \* sats per vbyte
    selected     \* coins selected so far

payment == <<amount, output, sorted, feeRate, selected>>
vars    == <<kind, wallet, payments, step, payment>>

Dust == 5500
Sum(s) == FoldSeq(LAMBDA v, acc : v + acc, 0, s)

\* coinAmount, and the fee for what is selected.
CoinAmount == Sum(selected)
Fee == feeRate * Vbytes(kind, Len(selected), output)
Change_Gross == CoinAmount - amount
Change == CoinAmount - amount - Fee

TypeOK ==
    /\ kind \in Kinds
    /\ wallet \in Seq(Nat)
    /\ payments \in 0 .. MaxPayments
    /\ step \in {"idle", "list", "rate", "take", "build", "failed"}
    /\ amount \in Amounts \cup {0} /\ output \in Outputs
    /\ sorted \in Seq(Nat) /\ selected \in Seq(Nat)
    /\ feeRate \in Nat

Init ==
    /\ kind \in Kinds
    /\ wallet = <<>>
    /\ payments = 0
    /\ step = "idle"
    /\ amount = 0 /\ output \in Outputs
    /\ sorted = <<>> /\ feeRate = 0 /\ selected = <<>>

\* A redeem pays a coin into the wallet.
Receive(v) ==
    /\ Len(wallet) < MaxCoins
    /\ wallet' = Append(wallet, v)
    /\ UNCHANGED <<kind, payments, step, payment>>

SendBtc(a, o) ==
    /\ step = "idle"
    /\ payments < MaxPayments
    /\ payments' = payments + 1
    /\ amount' = a /\ output' = o
    /\ step' = "list"
    /\ UNCHANGED <<kind, wallet, sorted, feeRate, selected>>

SortCoins_Unsorted(s) == s
SortCoins(s) ==
    LET place == CHOOSE p \in Bijection(DOMAIN s, DOMAIN s) :
                     \A i, j \in DOMAIN s : i < j => s[p[i]] >= s[p[j]]
    IN  [k \in DOMAIN s |-> s[place[k]]]

ListUnspent ==
    /\ step = "list"
    /\ sorted' = SortCoins(wallet)
    /\ step' = "rate"
    /\ UNCHANGED <<kind, wallet, payments, amount, output, feeRate, selected>>

GetFeeRate ==
    /\ step = "rate"
    /\ \E e \in Estimates : feeRate' = FeeRate(e)
    /\ step' = "take"
    /\ UNCHANGED <<kind, wallet, payments, amount, output, sorted, selected>>

\* coinAmount > amount + fee + 5500n
Filled_NoFee == Len(selected) > 0 /\ CoinAmount > amount
Filled == Len(selected) > 0 /\ CoinAmount > amount + Fee + Dust
Exhausted_Early == Len(selected) + 1 >= Len(sorted)
Exhausted == Len(selected) = Len(sorted)

TakeCoin ==
    /\ step = "take"
    /\ ~Filled /\ ~Exhausted
    /\ selected' = Append(selected, sorted[Len(selected) + 1])
    /\ UNCHANGED <<kind, wallet, payments, step, amount, output, sorted, feeRate>>

\* The loop ends: filled, or 'Unable to select enough UTXOs.'
EndLoop ==
    /\ step = "take"
    /\ Filled \/ Exhausted
    /\ step' = IF Filled THEN "build" ELSE "failed"
    /\ UNCHANGED <<kind, wallet, payments, payment>>

Done ==
    /\ step' = "idle"
    /\ amount' = 0 /\ sorted' = <<>> /\ feeRate' = 0 /\ selected' = <<>>
    /\ UNCHANGED output

\* The transaction spends the coins, and its change is a coin again.
Spent(s) == FoldSeq(LAMBDA v, rest : RemoveFirst(rest, v), s, selected)

Build ==
    /\ step = "build"
    /\ wallet' = Append(Spent(wallet), Change)
    /\ Done
    /\ UNCHANGED <<kind, payments>>

\* The job fails: for want of coins, or because a request of the client
\* rejects.
Throw ==
    /\ step # "idle"
    /\ Done
    /\ UNCHANGED <<kind, wallet, payments>>

Next ==
    \/ \E v \in Values : Receive(v)
    \/ \E a \in Amounts, o \in Outputs : SendBtc(a, o)
    \/ ListUnspent
    \/ GetFeeRate
    \/ TakeCoin
    \/ EndLoop
    \/ Build
    \/ Throw

Spec == Init /\ [][Next]_vars

-----------------------------------------------------------------------------
(* Properties.                                                             *)

\* Whether the coins of sorted at the positions P would do for the payment.
ValueOf(P) == MapThenSumSet(LAMBDA k : sorted[k], P)
WouldDo(P) ==
    ValueOf(P) > amount + feeRate * Vbytes(kind, Cardinality(P), output) + Dust

\* No choice of fewer coins would do for the payment: taking the largest
\* first is the cheapest and smallest transaction.
FewestCoins ==
    step = "build" =>
        \A P \in SUBSET (DOMAIN sorted) : P # {} /\ WouldDo(P) => Cardinality(P) >= Len(selected)

\* A payment is given up only when no choice of the coins listed would do:
\* stopping at the first sufficient prefix never overlooks one.
GivesUpRightly ==
    step = "failed" => \A P \in SUBSET (DOMAIN sorted) : P # {} => ~WouldDo(P)

\* What the transaction leaves to the miners reaches the rate for its
\* estimated size, but for half a vbyte of a multi-sig one (toFixed), and
\* its change is above the dust.
FeeMeetsRate ==
    step = "build" =>
        LET left == CoinAmount - amount - Change
        IN  /\ 4 * left + (IF kind = "ms" THEN 2 * feeRate ELSE 0)
                   >= feeRate * Weight(kind, Len(selected), output)
            /\ Change > Dust
=============================================================================
