----------------------- MODULE FinalizeOutboundProofs -----------------------
(***************************************************************************)
(* What the finalize-outbound cron guarantees for every set of swaps,      *)
(* payments and Stacks transactions and any number of faults.  IInv is the *)
(* inductive invariant; every theorem follows from it, the implementation  *)
(* of OutboundSwap included.                                               *)
(***************************************************************************)
EXTENDS FinalizeOutbound, FiniteSetTheorems, TLAPS

\* The Stacks transactions the account has made, and those in a block.
Used  == {i \in StxTxids : stxTx[i] # "unused"}
Mined == {i \in StxTxids : stxTx[i] \in {"success", "failed"}}

\* A run that has its members and its nonce, and one that visits a member.
Running  == step \notin {"idle", "fetchNonce"}
Visiting == step \notin {"idle", "fetchNonce", "btcTx"}

\* The account's transactions are mined in the order of their nonces, one
\* for each, and one at most waits for each.
InOrder ==
    /\ \A i \in Mined : stxNonce[i] < accountNonce
    /\ \A i \in StxTxids : stxTx[i] = "pending" => stxNonce[i] >= accountNonce
    /\ \A i, k \in StxTxids :
           /\ stxTx[i] \in {"pending", "success", "failed"}
           /\ stxTx[k] \in {"pending", "success", "failed"}
           /\ stxNonce[i] = stxNonce[k]
           => i = k
    /\ \A n \in 0 .. accountNonce - 1 : \E i \in Mined : stxNonce[i] = n

\* Every nonce from the account's next one to below n had a transaction,
\* which the mempool has, or had and dropped.
Reached(n) ==
    \A m \in accountNonce .. n - 1 :
        \E k \in StxTxids : stxTx[k] \in {"pending", "dropped"} /\ stxNonce[k] = m

\* Whoever holds a nonce, however stale, has no gap below it.
NoGaps ==
    /\ GapsAreDrops
    /\ \A n \in scriptNonce : Reached(n)
    /\ Running => Reached(NextNonce)
    /\ step = "setFinalized" => Reached(NextNonce + 1)

\* The run's transactions, but for the one whose record it is about to write.
Submitted == mine \ (unrecorded \cup LostRecord)

\* The run's recorded submissions fill its nonces from the one it fetched, each
\* exactly once.
Numbered ==
    /\ mine \subseteq Used /\ unrecorded \subseteq Used
    /\ ~Running => processed = 0
    /\ step = "fetchNonce" => mine = {}
    /\ Running =>
           /\ \A i \in Submitted : stxNonce[i] \in nonce .. NextNonce - 1
           /\ \A n \in nonce .. NextNonce - 1 : \E i \in Submitted : stxNonce[i] = n
    /\ step = "setFinalized" =>
           stxTxid \in mine \ unrecorded /\ stxNonce[stxTxid] = NextNonce

\* What the run has before it is listed, and what it visits is confirmed.
Visits ==
    /\ members \subseteq pendingFinalized
    /\ Visiting => member \in pendingFinalized \ members /\ btcTx[member.txid] = "confirmed"

\* Transactions that may finalize their swap, but for those a fork revived.
Current == {i \in StxTxids : stxTx[i] \in {"pending", "success"}} \ revived

\* A record is of a finalization of its swap; the run goes by the record,
\* and goes on to finalize only when that one is out of the way.
Records ==
    /\ \A s \in Swaps : finalizedOutbound[s] # NoTx =>
           finalizedOutbound[s] \in Used /\ stxSwap[finalizedOutbound[s]] = s
    /\ step \in {"getSwap", "getTx", "getCompleted"} =>
           stxTxid \in StxTxids /\ stxTxid = finalizedOutbound[member.swap]
    /\ step \in {"getCompleted", "txData", "broadcast", "setFinalized"} =>
           finalizedOutbound[member.swap] \notin Current
    /\ step = "setFinalized" => stxTxid \in Used /\ stxSwap[stxTxid] = member.swap

\* A current finalization is on record, or about to be, or was lost.
Recorded ==
    \A i \in Current \ unrecorded :
        stxSwap[i] # NoSwap => finalizedOutbound[stxSwap[i]] = i \/ i \in LostRecord

\* A swap has one finalization that succeeded, and is finalized while it has.
Settlement ==
    /\ \A i \in StxTxids :
           stxTx[i] = "success" /\ stxSwap[i] # NoSwap => contract[stxSwap[i]] = "finalized"
    /\ \A i, k \in StxTxids :
           /\ stxTx[i] = "success" /\ stxTx[k] = "success"
           /\ stxSwap[i] = stxSwap[k] /\ stxSwap[i] # NoSwap
           => i = k
    /\ step = "remove" => contract[member.swap] \in Settled \/ member.swap \in reorged
    /\ RemovedIsSettled

\* Only swaps that were paid are finalized.
PaidFor ==
    \A i \in Used : stxSwap[i] # NoSwap =>
        \E m \in Members : m.swap = stxSwap[i] /\ btcTx[m.txid] # "unknown"

\* The inductive invariant.
IInv ==
    /\ TypeOK
    /\ InOrder
    /\ NoGaps
    /\ Numbered
    /\ Visits
    /\ Records
    /\ Recorded
    /\ Settlement
    /\ PaidFor

-----------------------------------------------------------------------------
(* The nonces.                                                             *)

\* A nonce is a number.
LEMMA NonceTypes == Cardinality(StxTxids) \in Nat /\ Nonces \subseteq Nat /\ 0 \in Nonces
BY StxTxidsAssumption, FS_CardinalityType DEF Nonces

\* A nonce below which every nonce had a transaction is no higher than the
\* number of transactions.
LEMMA NonceBound ==
    ASSUME TypeOK, NEW n \in Nat,
           \A m \in 0 .. n - 1 : \E k \in StxTxids : stxNonce[k] = m
    PROVE  n \in Nonces
<1>. DEFINE h == [m \in 0 .. n - 1 |-> CHOOSE k \in StxTxids : stxNonce[k] = m]
<1>1. \A m \in 0 .. n - 1 : h[m] \in StxTxids /\ stxNonce[h[m]] = m
  OBVIOUS
<1>2. h \in Injection(0 .. n - 1, StxTxids)
  BY DEF Injection, IsInjective
<1>3. Cardinality(0 .. n - 1) <= Cardinality(StxTxids)
  BY <1>2, StxTxidsAssumption, FS_Injection
<1>4. Cardinality(0 .. n - 1) = n
  BY FS_Interval
<1>. QED
  BY <1>3, <1>4 DEF Nonces

\* So is a nonce without gaps below it, and one more if it is in use.
LEMMA ReachedBound ==
    ASSUME TypeOK, InOrder, NEW n \in Nat, Reached(n)
    PROVE  n \in Nonces
<1>1. \A m \in 0 .. n - 1 : \E k \in StxTxids : stxNonce[k] = m
  <2>. SUFFICES ASSUME NEW m \in 0 .. n - 1
                PROVE  \E k \in StxTxids : stxNonce[k] = m
    OBVIOUS
  <2>1. CASE m < accountNonce
    BY <2>1, NonceTypes DEF TypeOK, InOrder, Mined
  <2>2. CASE m >= accountNonce
    BY <2>2 DEF Reached
  <2>. QED
    BY <2>1, <2>2, NonceTypes DEF TypeOK
<1>. QED
  BY <1>1, NonceBound

\* Of what is listed, visited and removed, the swap and the txid.
LEMMA MemberTypes ==
    ASSUME IInv
    PROVE  /\ \A m \in Members : m.swap \in Swaps /\ m.txid \in Txids
           /\ Visiting => member \in Members
           /\ removed \subseteq Members
BY MembersAssumption DEF IInv, TypeOK, Visits

-----------------------------------------------------------------------------
(* IInv is inductive: it holds initially, and each action preserves it.    *)

\* It holds at the start.
LEMMA InitIInv == Init => IInv
<1>. SUFFICES ASSUME Init PROVE IInv
  OBVIOUS
<1>1. TypeOK
  BY NonceTypes, BoundAssumption DEF Init, TypeOK, Steps
<1>2. InOrder /\ NoGaps /\ Numbered
  BY DEF Init, InOrder, Mined, NoGaps, GapsAreDrops, Numbered, Running
<1>3. Visits /\ Records /\ Recorded
  BY DEF Init, Visits, Visiting, Records, Recorded, Current
<1>4. Settlement /\ PaidFor
  BY DEF Init, Settlement, RemovedIsSettled, PaidFor, Used
<1>. QED
  BY <1>1, <1>2, <1>3, <1>4 DEF IInv

\* The frames: what an action leaves alone keeps the conjuncts about it.
LEMMA NoncesFrame ==
    ASSUME IInv,
           UNCHANGED <<stxTx, stxNonce, accountNonce, scriptNonce>>,
           UNCHANGED <<step, stxTxid, nonce, processed, mine, unrecorded>>
    PROVE  InOrder' /\ NoGaps' /\ Numbered'
<1>1. InOrder'
  BY DEF IInv, InOrder, Mined
<1>2. NoGaps'
  BY DEF IInv, NoGaps, GapsAreDrops, Reached, NextNonce, Running
<1>3. Numbered'
  BY DEF IInv, Numbered, Submitted, LostRecord, NextNonce, Running, Used
<1>. QED
  BY <1>1, <1>2, <1>3

\* A step that writes no record and makes no transaction keeps the records.
LEMMA RecordsFrame ==
    ASSUME IInv,
           UNCHANGED <<stxTx, stxSwap, finalizedOutbound>>,
           UNCHANGED <<step, member, stxTxid, unrecorded, revived>>
    PROVE  Records' /\ Recorded'
<1>1. Records'
  BY DEF IInv, Records, Used, Current
<1>2. Recorded'
  BY DEF IInv, Recorded, Current, LostRecord
<1>. QED
  BY <1>1, <1>2

\* A step of the run alone leaves the ledger in order.
LEMMA LedgerFrame ==
    ASSUME IInv, UNCHANGED <<btcTx, stxTx, stxSwap, stxNonce, accountNonce>>
    PROVE  InOrder' /\ PaidFor'
<1>1. InOrder'
  BY DEF IInv, InOrder, Mined
<1>2. PaidFor'
  BY DEF IInv, PaidFor, Used
<1>. QED
  BY <1>1, <1>2

\* A payment is broadcast: the run is not concerned.
LEMMA PayStep ==
    ASSUME IInv, NEW m \in Members, Pay(m)
    PROVE  IInv'
<1>1. TypeOK'
  BY DEF IInv, TypeOK, Pay, store, locals
<1>2. InOrder' /\ NoGaps' /\ Numbered'
  BY NoncesFrame DEF Pay, locals
<1>3. Visits'
  BY DEF IInv, Visits, Visiting, Pay, store, locals
<1>4. Records' /\ Recorded'
  BY RecordsFrame DEF Pay, store, locals
<1>5. Settlement'
  BY DEF IInv, Settlement, RemovedIsSettled, Pay, locals
<1>6. PaidFor'
  BY DEF IInv, PaidFor, Used, Pay
<1>. QED
  BY <1>1, <1>2, <1>3, <1>4, <1>5, <1>6 DEF IInv

\* A payment is listed, one for a swap and never again.
LEMMA ListStep ==
    ASSUME IInv, NEW m \in Members, List(m)
    PROVE  IInv'
<1>1. TypeOK'
  BY DEF IInv, TypeOK, List, env, locals
<1>2. InOrder' /\ NoGaps' /\ Numbered'
  BY NoncesFrame DEF List, env, locals
<1>3. Visits'
  BY DEF IInv, Visits, Visiting, List, env, locals
<1>4. Records' /\ Recorded'
  BY RecordsFrame DEF List, env, locals
<1>5. Settlement'
  BY DEF IInv, Settlement, RemovedIsSettled, List, env, locals
<1>6. PaidFor'
  BY DEF IInv, PaidFor, Used, List, env
<1>. QED
  BY <1>1, <1>2, <1>3, <1>4, <1>5, <1>6 DEF IInv

\* A payment stays confirmed while the run deals with it.
LEMMA ConfirmBtcStep ==
    ASSUME IInv, NEW x \in Txids, ConfirmBtc(x)
    PROVE  IInv'
<1>1. TypeOK'
  BY DEF IInv, TypeOK, ConfirmBtc, store, locals
<1>2. InOrder' /\ NoGaps' /\ Numbered'
  BY NoncesFrame DEF ConfirmBtc, locals
<1>3. Visits'
  BY DEF IInv, Visits, Visiting, ConfirmBtc, store, locals
<1>4. Records' /\ Recorded'
  BY RecordsFrame DEF ConfirmBtc, store, locals
<1>5. Settlement'
  BY DEF IInv, Settlement, RemovedIsSettled, ConfirmBtc, locals
<1>6. PaidFor'
  BY DEF IInv, PaidFor, Used, ConfirmBtc
<1>. QED
  BY <1>1, <1>2, <1>3, <1>4, <1>5, <1>6 DEF IInv

\* Only an unconfirmed payment is evicted, which the run does not visit.
LEMMA EvictBtcStep ==
    ASSUME IInv, NEW x \in Txids, EvictBtc(x)
    PROVE  IInv'
<1>1. TypeOK'
  BY BoundAssumption DEF IInv, TypeOK, EvictBtc, Fault, store, locals
<1>2. InOrder' /\ NoGaps' /\ Numbered'
  BY NoncesFrame DEF EvictBtc, locals
<1>3. Visits'
  BY DEF IInv, Visits, Visiting, EvictBtc, store, locals
<1>4. Records' /\ Recorded'
  BY RecordsFrame DEF EvictBtc, store, locals
<1>5. Settlement'
  BY DEF IInv, Settlement, RemovedIsSettled, EvictBtc, locals
<1>6. PaidFor'
  BY DEF IInv, PaidFor, Used, EvictBtc
<1>. QED
  BY <1>1, <1>2, <1>3, <1>4, <1>5, <1>6 DEF IInv

\* A revoked swap is settled as a finalized one is.
LEMMA RevokeStep ==
    ASSUME IInv, NEW s \in Swaps, Revoke(s)
    PROVE  IInv'
<1>1. TypeOK'
  BY DEF IInv, TypeOK, Settled, Revoke, store, locals
<1>2. InOrder' /\ NoGaps' /\ Numbered'
  BY NoncesFrame DEF Revoke, locals
<1>3. Visits'
  BY DEF IInv, Visits, Visiting, Revoke, store, locals
<1>4. Records' /\ Recorded'
  BY RecordsFrame DEF Revoke, store, locals
<1>5. Settlement'
  BY DEF IInv, Settlement, RemovedIsSettled, Settled, Revoke, locals
<1>6. PaidFor'
  BY DEF IInv, PaidFor, Used, Revoke
<1>. QED
  BY <1>1, <1>2, <1>3, <1>4, <1>5, <1>6 DEF IInv

\* A swap a fork undid is initiated again.
LEMMA ReinitiateSwapStep ==
    ASSUME IInv, NEW s \in Swaps, ReinitiateSwap(s)
    PROVE  IInv'
<1>1. TypeOK'
  BY DEF IInv, TypeOK, ReinitiateSwap, store, locals
<1>2. InOrder' /\ NoGaps' /\ Numbered'
  BY NoncesFrame DEF ReinitiateSwap, locals
<1>3. Visits'
  BY DEF IInv, Visits, Visiting, ReinitiateSwap, store, locals
<1>4. Records' /\ Recorded'
  BY RecordsFrame DEF ReinitiateSwap, store, locals
<1>5. Settlement'
  BY DEF IInv, Settlement, RemovedIsSettled, Settled, ReinitiateSwap, locals
<1>6. PaidFor'
  BY DEF IInv, PaidFor, Used, ReinitiateSwap
<1>. QED
  BY <1>1, <1>2, <1>3, <1>4, <1>5, <1>6 DEF IInv

\* The mempool drops a transaction; its nonce still had one.
LEMMA DropStxStep ==
    ASSUME IInv, NEW i \in StxTxids, DropStx(i)
    PROVE  IInv'
<1>1. TypeOK'
  BY BoundAssumption DEF IInv, TypeOK, DropStx, Fault, store, locals
<1>2. InOrder'
  BY DEF IInv, InOrder, Mined, DropStx
<1>3. NoGaps'
  BY DEF IInv, NoGaps, GapsAreDrops, Reached, NextNonce, Running, DropStx, locals
<1>4. Numbered'
  BY DEF IInv, Numbered, Submitted, LostRecord, NextNonce, Running, Used, DropStx,
      locals
<1>5. Visits'
  BY DEF IInv, Visits, Visiting, DropStx, store, locals
<1>6. Records'
  BY DEF IInv, Records, Used, Current, DropStx, store, locals
<1>7. Recorded'
  BY DEF IInv, Recorded, Current, LostRecord, DropStx, store, locals
<1>8. Settlement'
  BY DEF IInv, Settlement, RemovedIsSettled, DropStx, locals
<1>9. PaidFor'
  BY DEF IInv, PaidFor, Used, DropStx
<1>. QED
  BY <1>1, <1>2, <1>3, <1>4, <1>5, <1>6, <1>7, <1>8, <1>9 DEF IInv

\* A fork undoes what the user did; a settlement undone is remembered.
LEMMA OrphanSwapStep ==
    ASSUME IInv, NEW s \in Swaps, OrphanSwap(s)
    PROVE  IInv'
<1>1. TypeOK'
  BY BoundAssumption DEF IInv, TypeOK, OrphanSwap, Fault, store, locals
<1>2. InOrder' /\ NoGaps' /\ Numbered'
  BY NoncesFrame DEF OrphanSwap, locals
<1>3. Visits'
  BY DEF IInv, Visits, Visiting, OrphanSwap, Visiting, store, locals
<1>4. Records' /\ Recorded'
  BY RecordsFrame DEF OrphanSwap, store, locals
<1>5. Settlement'
  BY MemberTypes
  DEF IInv, TypeOK, Settlement, RemovedIsSettled, Settled, OrphanSwap,
      Visiting, locals
<1>6. PaidFor'
  BY DEF IInv, PaidFor, Used, OrphanSwap
<1>. QED
  BY <1>1, <1>2, <1>3, <1>4, <1>5, <1>6 DEF IInv

\* The account's next transaction is mined, and finalizes its swap or fails.
LEMMA MineStxStep ==
    ASSUME IInv, NEW i \in StxTxids, MineStx(i)
    PROVE  IInv'
<1>1. accountNonce + 1 \in Nonces
  <2>1. \A m \in 0 .. accountNonce : \E k \in StxTxids : stxNonce[k] = m
    BY NonceTypes DEF IInv, TypeOK, InOrder, Mined, MineStx
  <2>2. accountNonce \in Nat /\ accountNonce + 1 \in Nat
    BY NonceTypes DEF IInv, TypeOK
  <2>3. \A m \in 0 .. (accountNonce + 1) - 1 : \E k \in StxTxids : stxNonce[k] = m
    BY <2>1, <2>2
  <2>. QED
    BY <2>2, <2>3, NonceBound DEF IInv
<1>2. stxTx' \in [StxTxids -> {"unused", "pending", "success", "failed", "dropped"}]
  BY DEF IInv, TypeOK, MineStx
<1>3. \A k \in StxTxids : k # i => stxTx'[k] = stxTx[k]
  BY DEF IInv, TypeOK, MineStx
<1>4. stxTx'[i] \in {"success", "failed"} /\ accountNonce' = accountNonce + 1 /\ stxNonce' = stxNonce
  BY DEF IInv, TypeOK, MineStx
<1>5. TypeOK'
  <2>1. contract' \in [Swaps -> {"absent", "open"} \cup Settled]
    BY DEF IInv, TypeOK, MineStx, Settled
  <2>2. faults' \in 0 .. MaxFaults
    BY BoundAssumption DEF IInv, TypeOK, MineStx, Fault
  <2>. QED
    BY <1>1, <2>1, <2>2 DEF IInv, TypeOK, MineStx, store, locals
<1>6. InOrder'
  <2>1. \A k \in StxTxids : k \in Mined' <=> k \in Mined \/ k = i
    BY <1>3, <1>4 DEF Mined
  <2>2. accountNonce \in Nat /\ \A k \in StxTxids : stxNonce[k] \in Nat
    BY NonceTypes DEF IInv, TypeOK
  <2>3. stxTx[i] = "pending" /\ stxNonce[i] = accountNonce
    BY DEF MineStx
  <2>4. \A k \in Mined' : stxNonce'[k] < accountNonce'
    BY <1>4, <2>1, <2>2, <2>3 DEF IInv, InOrder, Mined
  <2>5. \A k \in StxTxids : stxTx'[k] = "pending" => stxNonce'[k] >= accountNonce'
    BY <1>3, <1>4, <2>2, <2>3 DEF IInv, InOrder
  <2>6. \A n \in 0 .. accountNonce' - 1 : \E k \in Mined' : stxNonce'[k] = n
    BY <1>4, <2>1, <2>2, <2>3 DEF IInv, InOrder, Mined
  <2>7. ASSUME NEW k \in StxTxids, stxTx'[k] \in {"pending", "success", "failed"}
        PROVE  stxTx[k] \in {"pending", "success", "failed"}
    BY <1>3, <2>3, <2>7
  <2>. QED
    BY <1>4, <2>4, <2>5, <2>6, <2>7 DEF IInv, InOrder
<1>7. NoGaps'
  BY NonceTypes
  DEF IInv, TypeOK, NoGaps, GapsAreDrops, Reached, NextNonce, Running, MineStx,
      locals
<1>8. Numbered'
  BY DEF IInv, TypeOK, Numbered, Submitted, LostRecord, NextNonce, Running, Used,
      MineStx, locals
<1>9. Visits'
  BY DEF IInv, Visits, Visiting, MineStx, store, locals
<1>10. Records'
  BY DEF IInv, TypeOK, Records, Used, Current, MineStx, store, locals
<1>11. Recorded'
  BY DEF IInv, TypeOK, Recorded, Current, LostRecord, MineStx, store, locals
<1>12. Settlement'
  <2>1. CASE stxTx'[i] = "failed"
    <3>1. contract' = contract
      BY <2>1 DEF MineStx, IInv, TypeOK
    <3>. QED
      BY <1>3, <2>1, <3>1
      DEF IInv, Settlement, RemovedIsSettled, MineStx, locals
  <2>2. CASE stxTx'[i] = "success"
    <3>. QED
      BY MemberTypes
      DEF IInv, TypeOK, Settlement, RemovedIsSettled, Settled, Settles,
          MineStx, locals, Visiting
  <2>. QED
    BY <1>4, <2>1, <2>2
<1>13. PaidFor'
  BY DEF IInv, TypeOK, PaidFor, Used, MineStx
<1>. QED
  BY <1>5, <1>6, <1>7, <1>8, <1>9, <1>10, <1>11, <1>12, <1>13 DEF IInv

\* The account's last transaction returns to the mempool, and with it the
\* swap it finalized.
LEMMA OrphanStxStep ==
    ASSUME IInv, NEW i \in StxTxids, OrphanStx(i)
    PROVE  IInv'
<1>1. TypeOK'
  BY BoundAssumption DEF IInv, TypeOK, OrphanStx, Fault, store, locals
<1>2. InOrder'
  <2>1. /\ stxTx' = [stxTx EXCEPT ![i] = "pending"]
        /\ i \in Mined /\ stxNonce[i] = accountNonce - 1
        /\ accountNonce' = accountNonce - 1 /\ stxNonce' = stxNonce
    BY DEF OrphanStx, Mined
  <2>2. accountNonce \in Nat /\ \A k \in StxTxids : stxNonce[k] \in Nat
    BY NonceTypes DEF IInv, TypeOK
  <2>3. \A k \in StxTxids : stxTx'[k] = IF k = i THEN "pending" ELSE stxTx[k]
    BY <2>1 DEF IInv, TypeOK
  <2>4. ASSUME NEW k \in Mined'
        PROVE  stxNonce'[k] < accountNonce'
    <3>1. k \in Mined /\ k # i
      BY <2>3 DEF Mined
    <3>. QED
      BY <2>1, <2>2, <3>1 DEF IInv, InOrder, Mined
  <2>5. \A k \in StxTxids : stxTx'[k] = "pending" => stxNonce'[k] >= accountNonce'
    BY <2>1, <2>2 DEF IInv, InOrder
  <2>6. ASSUME NEW n \in 0 .. accountNonce' - 1
        PROVE  \E k \in Mined' : stxNonce'[k] = n
    <3>1. PICK k \in Mined : stxNonce[k] = n
      BY <2>1 DEF IInv, InOrder
    <3>2. k # i
      BY <2>1, <3>1
    <3>. QED
      BY <2>1, <3>1 DEF Mined
  <2>7. \A k \in StxTxids : stxTx'[k] \in {"pending", "success", "failed"} => stxTx[k] \in {"pending", "success", "failed"}
    BY <2>1 DEF Mined
  <2>. QED
    BY <2>1, <2>4, <2>5, <2>6, <2>7 DEF IInv, InOrder
<1>3. NoGaps'
  BY NonceTypes
  DEF IInv, TypeOK, NoGaps, GapsAreDrops, Reached, NextNonce, Running,
      OrphanStx, locals
<1>4. Numbered'
  BY DEF IInv, Numbered, Submitted, LostRecord, NextNonce, Running, Used,
      OrphanStx, locals
<1>5. Visits'
  BY DEF IInv, Visits, Visiting, OrphanStx, store, locals
<1>6. Records'
  BY DEF IInv, Records, Used, Current, OrphanStx, store, locals
<1>7. Recorded'
  BY DEF IInv, Recorded, Current, LostRecord, OrphanStx, store, locals
<1>8. Settlement'
  <2>1. CASE stxTx[i] = "failed"
    BY <2>1 DEF IInv, Settlement, RemovedIsSettled, OrphanStx, locals
  <2>2. CASE stxTx[i] = "success" /\ stxSwap[i] = NoSwap
    BY <2>2, NullsAssumption
    DEF IInv, TypeOK, Settlement, RemovedIsSettled, OrphanStx, locals
  <2>3. CASE stxTx[i] = "success" /\ stxSwap[i] # NoSwap
    BY <2>3, MemberTypes
    DEF IInv, TypeOK, Settlement, RemovedIsSettled, OrphanStx, Visiting, locals
  <2>. QED
    BY <2>1, <2>2, <2>3 DEF OrphanStx
<1>9. PaidFor'
  BY DEF IInv, PaidFor, Used, OrphanStx
<1>. QED
  BY <1>1, <1>2, <1>3, <1>4, <1>5, <1>6, <1>7, <1>8, <1>9 DEF IInv

-----------------------------------------------------------------------------
(* The account takes a transaction.                                        *)

\* Transaction x is new and has nonce n; what waited for n is dropped.
Takes(x, n, s) ==
    /\ x \in StxTxids /\ stxTx[x] = "unused"
    /\ n \in Nat /\ n >= accountNonce
    /\ stxTx' \in [StxTxids -> {"unused", "pending", "success", "failed", "dropped"}]
    /\ stxTx'[x] = "pending" /\ stxSwap'[x] = s /\ stxNonce'[x] = n
    /\ \A i \in StxTxids : i # x =>
           /\ stxTx'[i] = IF stxTx[i] = "pending" /\ stxNonce[i] = n THEN "dropped" ELSE stxTx[i]
           /\ stxSwap'[i] = stxSwap[i] /\ stxNonce'[i] = stxNonce[i]
    /\ stxNonce' \in [StxTxids -> Nonces]
    /\ stxSwap' = [stxSwap EXCEPT ![x] = s]

\* An accepted transaction is a new one.
LEMMA AcceptTakes ==
    ASSUME IInv, NEW n \in Nonces, NEW s, Accept(n, s)
    PROVE  Takes(NewStxTxid, n, s)
<1>1. NewStxTxid \in Unused
  BY DEF Accept, NewStxTxid
<1>. QED
  BY <1>1, NonceTypes DEF IInv, TypeOK, Takes, Accept, Unused, Conflicting

\* A nonce without gaps below it may be taken, and so may the next one then.
LEMMA AcceptKeepsOrder ==
    ASSUME IInv, NEW n \in Nonces, NEW s, Accept(n, s), Reached(n), UNCHANGED accountNonce
    PROVE  /\ InOrder'
           /\ GapsAreDrops'
           /\ Reached(n + 1)'
           /\ \A m \in Nat : Reached(m) => Reached(m)'
<1>. DEFINE new == NewStxTxid
<1>1. /\ new \in StxTxids /\ stxTx[new] = "unused"
      /\ n \in Nat /\ n >= accountNonce
      /\ stxTx'[new] = "pending" /\ stxNonce'[new] = n
      /\ \A i \in StxTxids : i # new =>
             /\ stxTx'[i] = IF stxTx[i] = "pending" /\ stxNonce[i] = n THEN "dropped" ELSE stxTx[i]
             /\ stxNonce'[i] = stxNonce[i]
  BY AcceptTakes DEF Takes
<1>2. accountNonce \in Nat /\ \A i \in StxTxids : stxNonce[i] \in Nat
  BY NonceTypes DEF IInv, TypeOK
<1>. HIDE DEF new
<1>3. \A m \in Nat : Reached(m) => Reached(m)'
  BY <1>1 DEF Reached
<1>4. Reached(n + 1)'
  BY <1>1 DEF Reached
<1>5. GapsAreDrops'
  <2>1. ASSUME NEW i \in StxTxids, stxTx'[i] = "pending"
        PROVE  \A k \in accountNonce' .. stxNonce'[i] - 1 :
                   \E j \in StxTxids : stxTx'[j] \in {"pending", "dropped"} /\ stxNonce'[j] = k
    <3>1. CASE i = new
      <4>1. stxNonce'[i] = n
        BY <1>1, <3>1
      <4>. QED
        BY <1>1, <4>1 DEF Reached
    <3>2. CASE i # new
      <4>1. stxTx[i] = "pending" /\ stxNonce'[i] = stxNonce[i]
        BY <1>1, <2>1, <3>2
      <4>2. Reached(stxNonce[i])
        BY <4>1 DEF IInv, NoGaps, GapsAreDrops, Reached
      <4>. QED
        BY <1>2, <1>3, <4>1, <4>2 DEF Reached
    <3>. QED
      BY <3>1, <3>2
  <2>. QED
    BY <2>1 DEF GapsAreDrops
<1>6. InOrder'
  <2>1. \A i \in StxTxids : i \in Mined' <=> i \in Mined
    BY <1>1 DEF Mined
  <2>2. \A i \in Mined' : stxNonce'[i] < accountNonce'
    BY <1>1 DEF IInv, InOrder, Mined
  <2>3. \A i \in StxTxids : stxTx'[i] = "pending" => stxNonce'[i] >= accountNonce'
    BY <1>1 DEF IInv, InOrder
  <2>4. \A k \in 0 .. accountNonce' - 1 : \E i \in Mined' : stxNonce'[i] = k
    BY <1>1 DEF IInv, InOrder, Mined
  <2>5. ASSUME NEW i \in StxTxids, NEW k \in StxTxids,
               stxTx'[i] \in {"pending", "success", "failed"},
               stxTx'[k] \in {"pending", "success", "failed"},
               stxNonce'[i] = stxNonce'[k]
        PROVE  i = k
    BY <1>1, <1>2, <2>5 DEF IInv, InOrder, Mined
  <2>. QED
    BY <2>2, <2>3, <2>4, <2>5 DEF InOrder
<1>7. \A m \in Nat : Reached(m) => Reached(m)'
  BY <1>3
<1>. QED
  BY <1>4, <1>5, <1>6, <1>7

\* A nonce the node proposes has no gap below it.
LEMMA PossibleNoncesFacts ==
    ASSUME IInv, NEW n \in PossibleNonces
    PROVE  n \in Nonces /\ Reached(n)
<1>1. accountNonce \in Nat /\ accountNonce \in Nonces /\ \A i \in StxTxids : stxNonce[i] \in Nat
  BY NonceTypes DEF IInv, TypeOK
<1>2. CASE n = accountNonce
  BY <1>1, <1>2 DEF Reached
<1>3. ASSUME NEW i \in StxTxids, stxTx[i] = "pending", n = stxNonce[i] + 1
      PROVE  n \in Nonces /\ Reached(n)
  <2>1. n \in Nat
    BY <1>1, <1>3
  <2>2. ASSUME NEW m \in accountNonce .. n - 1
        PROVE  \E k \in StxTxids : stxTx[k] \in {"pending", "dropped"} /\ stxNonce[k] = m
    <3>1. CASE m = stxNonce[i]
      BY <1>3, <3>1
    <3>2. CASE m # stxNonce[i]
      <4>1. m \in accountNonce .. stxNonce[i] - 1
        BY <1>1, <1>3, <3>2
      <4>. QED
        BY <1>3, <4>1 DEF IInv, NoGaps, GapsAreDrops
    <3>. QED
      BY <3>1, <3>2
  <2>3. Reached(n)
    BY <2>2 DEF Reached
  <2>. QED
    BY <2>1, <2>3, ReachedBound DEF IInv
<1>. QED
  BY <1>2, <1>3 DEF PossibleNonces

\* A script gets a nonce without gaps below it.
LEMMA ScriptFetchesNonceStep ==
    ASSUME IInv, ScriptFetchesNonce
    PROVE  IInv'
<1>1. PICK n \in PossibleNonces : scriptNonce' = {n}
  BY DEF ScriptFetchesNonce
<1>2. TypeOK'
  BY PossibleNoncesFacts DEF IInv, TypeOK, ScriptFetchesNonce, store, locals
<1>3. InOrder'
  BY DEF IInv, InOrder, Mined, ScriptFetchesNonce
<1>4. NoGaps'
  BY PossibleNoncesFacts
  DEF IInv, NoGaps, GapsAreDrops, Reached, NextNonce, Running,
      ScriptFetchesNonce, locals
<1>5. Numbered'
  BY DEF IInv, Numbered, Submitted, LostRecord, NextNonce, Running, Used,
      ScriptFetchesNonce, locals
<1>6. Visits'
  BY DEF IInv, Visits, Visiting, ScriptFetchesNonce, store, locals
<1>7. Records'
  BY DEF IInv, Records, Used, Current, ScriptFetchesNonce, store, locals
<1>8. Recorded'
  BY DEF IInv, Recorded, Current, LostRecord, ScriptFetchesNonce, store, locals
<1>9. Settlement'
  BY DEF IInv, Settlement, RemovedIsSettled, ScriptFetchesNonce, locals
<1>10. PaidFor'
  BY DEF IInv, PaidFor, Used, ScriptFetchesNonce
<1>. QED
  BY <1>2, <1>3, <1>4, <1>5, <1>6, <1>7, <1>8, <1>9, <1>10 DEF IInv

\* A script sends with the nonce it holds: no gap opens, no swap is concerned.
LEMMA ScriptBroadcastsStep ==
    ASSUME IInv, NEW n \in scriptNonce, ScriptBroadcasts(n)
    PROVE  IInv'
<1>1. /\ n \in Nonces /\ Reached(n) /\ Accept(n, NoSwap)
      /\ UNCHANGED <<contract, btcTx, accountNonce, pendingFinalized, finalizedOutbound, step>>
      /\ UNCHANGED <<members, member, nonce, processed, stxTxid, removed, mine, unrecorded, reorged, revived>>
      /\ scriptNonce' = {} /\ faults' \in 0 .. MaxFaults
  BY BoundAssumption
  DEF IInv, TypeOK, NoGaps, ScriptBroadcasts, Fault, store, locals
<1>2. /\ InOrder' /\ GapsAreDrops'
      /\ \A m \in Nat : Reached(m) => Reached(m)'
  BY <1>1, AcceptKeepsOrder
<1>3. Takes(NewStxTxid, n, NoSwap)
  BY <1>1, AcceptTakes
<1>4. nonce \in Nat /\ processed \in Nat
  BY NonceTypes DEF IInv, TypeOK
<1>5. TypeOK'
  BY <1>1, <1>3 DEF IInv, TypeOK, Takes
<1>6. InOrder'
  BY <1>2
<1>7. NoGaps'
  BY <1>1, <1>2, <1>4 DEF IInv, NoGaps, NextNonce, Running
<1>8. Numbered'
  BY <1>1, <1>3
  DEF IInv, Numbered, Submitted, LostRecord, NextNonce, Running, Used, Takes
<1>9. Visits'
  BY <1>1 DEF IInv, Visits, Visiting
<1>10. Records'
  BY NullsAssumption, <1>1, <1>3, MemberTypes
  DEF IInv, Records, Used, Current, Visiting, Takes
<1>11. Recorded'
  BY <1>1, <1>3 DEF IInv, Recorded, Current, LostRecord, Takes
<1>12. Settlement'
  BY <1>1, <1>3 DEF IInv, Settlement, RemovedIsSettled, Takes
<1>13. PaidFor'
  BY <1>1, <1>3 DEF IInv, PaidFor, Used, Takes
<1>. QED
  BY <1>5, <1>6, <1>7, <1>8, <1>9, <1>10, <1>11, <1>12, <1>13 DEF IInv

\* The node refuses the script, whose nonce is of no further use.
LEMMA ScriptRefusedStep ==
    ASSUME IInv, NEW n \in scriptNonce, ScriptRefused(n)
    PROVE  IInv'
<1>1. TypeOK'
  BY DEF IInv, TypeOK, ScriptRefused, store, locals
<1>2. InOrder'
  BY DEF IInv, InOrder, Mined, ScriptRefused
<1>3. NoGaps'
  BY DEF IInv, NoGaps, GapsAreDrops, Reached, NextNonce, Running, ScriptRefused,
      locals
<1>4. Numbered'
  BY DEF IInv, Numbered, Submitted, LostRecord, NextNonce, Running, Used,
      ScriptRefused, locals
<1>5. Visits'
  BY DEF IInv, Visits, Visiting, ScriptRefused, store, locals
<1>6. Records'
  BY DEF IInv, Records, Used, Current, ScriptRefused, store, locals
<1>7. Recorded'
  BY DEF IInv, Recorded, Current, LostRecord, ScriptRefused, store, locals
<1>8. Settlement'
  BY DEF IInv, Settlement, RemovedIsSettled, ScriptRefused, locals
<1>9. PaidFor'
  BY DEF IInv, PaidFor, Used, ScriptRefused
<1>. QED
  BY <1>1, <1>2, <1>3, <1>4, <1>5, <1>6, <1>7, <1>8, <1>9 DEF IInv

-----------------------------------------------------------------------------
(* The run.                                                                *)

\* Where the run stands when it goes on to its next member, or stops.
LEMMA ContinueFacts ==
    ASSUME NEW left, NEW n, Continue(left, n) \/ Stop
    PROVE  /\ step' \in {"idle", "btcTx"}
           /\ member' = NoMember /\ stxTxid' = NoTx
           /\ step' = "idle" => members' = {} /\ nonce' = 0 /\ processed' = 0
           /\ step' = "btcTx" => members' = left /\ nonce' = nonce /\ processed' = n
BY DEF Continue, Stop, Suspend

\* The run leaves a member, or the whole run is over: what it held and did
\* not record is counted as unrecorded.
LEMMA LeaveMemberStep ==
    ASSUME IInv, NEW left \in SUBSET members,
           Stop \/ (Running /\ Continue(left, processed)),
           UNCHANGED <<env, store, removed, mine, reorged, revived>>,
           faults' \in 0 .. MaxFaults,
           unrecorded' = unrecorded \cup LostRecord
    PROVE  IInv'
<1>1. /\ step' \in {"idle", "btcTx"} /\ member' = NoMember /\ stxTxid' = NoTx
      /\ step' = "idle" => members' = {} /\ nonce' = 0 /\ processed' = 0
      /\ step' = "btcTx" => Running /\ members' = left /\ nonce' = nonce /\ processed' = processed
  BY ContinueFacts
<1>2. /\ UNCHANGED <<contract, btcTx, stxTx, stxSwap, stxNonce, accountNonce, scriptNonce>>
      /\ UNCHANGED <<pendingFinalized, finalizedOutbound>>
  BY DEF env, store
<1>3. TypeOK'
  BY NonceTypes, <1>1, <1>2 DEF IInv, TypeOK, Steps, Numbered, LostRecord
<1>4. InOrder' /\ PaidFor'
  BY LedgerFrame, <1>2
<1>5. NoGaps'
  BY NonceTypes, <1>1, <1>2
  DEF IInv, TypeOK, NoGaps, GapsAreDrops, Reached, NextNonce
<1>6. Numbered'
  BY <1>1, <1>2
  DEF IInv, Numbered, Submitted, LostRecord, NextNonce, Running, Used
<1>7. Visits'
  BY <1>1, <1>2 DEF IInv, Visits, Visiting
<1>8. Records'
  BY <1>1, <1>2 DEF IInv, Records, Used
<1>9. Recorded'
  BY <1>2 DEF IInv, Recorded, Current
<1>10. Settlement'
  BY <1>1, <1>2 DEF IInv, Settlement, RemovedIsSettled
<1>. QED
  BY <1>3, <1>4, <1>5, <1>6, <1>7, <1>8, <1>9, <1>10 DEF IInv

\* A run starts with the members listed now, and has submitted nothing.
LEMMA GetAllPendingFinalizedOutboundStep ==
    ASSUME IInv, GetAllPendingFinalizedOutbound
    PROVE  IInv'
<1>1. TypeOK'
  BY DEF IInv, TypeOK, Steps, GetAllPendingFinalizedOutbound, env, store, Suspend
<1>2. InOrder' /\ PaidFor'
  BY LedgerFrame DEF GetAllPendingFinalizedOutbound, env
<1>3. NoGaps'
  BY DEF IInv, NoGaps, GapsAreDrops, Reached, Running,
      GetAllPendingFinalizedOutbound, env, Suspend
<1>4. Numbered'
  BY DEF IInv, Numbered, Running, Used, GetAllPendingFinalizedOutbound, env,
      Suspend
<1>5. Visits'
  BY DEF Visits, Visiting, GetAllPendingFinalizedOutbound, store, Suspend
<1>6. Records'
  BY DEF IInv, Records, Used, GetAllPendingFinalizedOutbound, env, store, Suspend
<1>7. Recorded'
  BY DEF IInv, Recorded, Current, LostRecord, GetAllPendingFinalizedOutbound, env,
      store
<1>8. Settlement'
  BY DEF IInv, Settlement, RemovedIsSettled, GetAllPendingFinalizedOutbound, env,
      Suspend
<1>. QED
  BY <1>1, <1>2, <1>3, <1>4, <1>5, <1>6, <1>7, <1>8 DEF IInv

\* The nonce the run fetches has no gap below it, and none of its
\* transactions has it yet.
LEMMA FetchAccountNonceStep ==
    ASSUME IInv, FetchAccountNonce
    PROVE  IInv'
<1>1. nonce' \in Nonces /\ Reached(nonce')
  BY PossibleNoncesFacts DEF FetchAccountNonce
<1>2. UNCHANGED <<stxTx, stxNonce, accountNonce, scriptNonce, processed>> /\ step = "fetchNonce" /\ step' = "btcTx"
  BY DEF FetchAccountNonce, env, Suspend
<1>3. nonce' \in Nat /\ processed' = 0
  BY <1>2, <1>1, NonceTypes DEF IInv, Numbered, Running
<1>4. NextNonce' = nonce'
  <2>1. \A n \in Nat : n + 0 = n
    OBVIOUS
  <2>. QED
    BY <1>3, <2>1 DEF NextNonce
<1>5. TypeOK'
  BY <1>1 DEF IInv, TypeOK, Steps, FetchAccountNonce, env, store, Suspend
<1>6. InOrder' /\ PaidFor'
  BY LedgerFrame DEF FetchAccountNonce, env
<1>7. NoGaps'
  BY <1>1, <1>2, <1>4 DEF IInv, NoGaps, GapsAreDrops, Reached
<1>8. Numbered'
  BY NonceTypes, <1>1
  DEF IInv, TypeOK, Numbered, Submitted, NextNonce, Used, FetchAccountNonce,
      env, Suspend
<1>9. Visits'
  BY DEF IInv, Visits, Visiting, FetchAccountNonce, store, Suspend
<1>10. Records'
  BY DEF IInv, Records, Used, FetchAccountNonce, env, store, Suspend
<1>11. Recorded'
  BY DEF IInv, Recorded, Current, LostRecord, FetchAccountNonce, env, store
<1>12. Settlement'
  BY DEF IInv, Settlement, RemovedIsSettled, FetchAccountNonce, env, Suspend
<1>. QED
  BY <1>5, <1>6, <1>7, <1>8, <1>9, <1>10, <1>11, <1>12 DEF IInv

\* The run turns to a member that is listed and confirmed.
LEMMA CheckBtcTxStep ==
    ASSUME IInv, NEW m \in Members, CheckBtcTx(m), step' = "getFinalized"
    PROVE  IInv'
<1>1. /\ UNCHANGED <<env, store, faults, mine, unrecorded, reorged, revived>>
      /\ step = "btcTx" /\ step' = "getFinalized"
      /\ m \in members /\ btcTx[m.txid] = "confirmed"
      /\ member' = m /\ members' = members \ {m}
      /\ UNCHANGED <<nonce, processed, stxTxid, removed>>
  BY DEF CheckBtcTx, Continue, Stop, Suspend
<1>2. TypeOK'
  BY <1>1 DEF IInv, TypeOK, Steps, env, store
<1>3. InOrder' /\ PaidFor'
  BY LedgerFrame, <1>1 DEF env
<1>4. NoGaps'
  BY <1>1 DEF IInv, NoGaps, GapsAreDrops, Reached, NextNonce, Running, env
<1>5. Numbered'
  BY <1>1
  DEF IInv, Numbered, Submitted, LostRecord, NextNonce, Running, Used, env
<1>6. Visits'
  BY <1>1 DEF IInv, Visits, env, store
<1>7. Records'
  BY <1>1 DEF IInv, Records, Used, env, store
<1>8. Recorded'
  BY <1>1 DEF IInv, Recorded, Current, LostRecord, env, store
<1>9. Settlement'
  BY <1>1 DEF IInv, Settlement, RemovedIsSettled, env
<1>. QED
  BY <1>2, <1>3, <1>4, <1>5, <1>6, <1>7, <1>8, <1>9 DEF IInv

\* The record the run reads is the one it goes by; without one there is no
\* current finalization.
LEMMA GetFinalizedOutboundStep ==
    ASSUME IInv, GetFinalizedOutbound
    PROVE  IInv'
<1>1. /\ UNCHANGED <<env, store, faults, mine, unrecorded, reorged, revived>>
      /\ step = "getFinalized"
      /\ stxTxid' = finalizedOutbound[member.swap]
      /\ \/ stxTxid' = NoTx /\ step' = "txData"
         \/ stxTxid' # NoTx /\ step' = "getSwap"
      /\ UNCHANGED <<members, member, nonce, processed, removed>>
  BY DEF GetFinalizedOutbound, Suspend
<1>2. TypeOK'
  BY MemberTypes, <1>1 DEF IInv, TypeOK, Visiting, Steps, env, store
<1>3. InOrder' /\ PaidFor'
  BY LedgerFrame, <1>1 DEF env
<1>4. NoGaps'
  BY <1>1 DEF IInv, NoGaps, GapsAreDrops, Reached, NextNonce, Running, env
<1>5. Numbered'
  BY <1>1
  DEF IInv, Numbered, Submitted, LostRecord, NextNonce, Running, Used, env
<1>6. Visits'
  BY <1>1 DEF IInv, Visits, Visiting, env, store
<1>7. Records'
  BY NullsAssumption, MemberTypes, <1>1
  DEF IInv, Records, Used, Current, Visiting, env, store
<1>8. Recorded'
  BY <1>1 DEF IInv, Recorded, Current, LostRecord, env, store
<1>9. Settlement'
  BY <1>1 DEF IInv, Settlement, RemovedIsSettled, env
<1>. QED
  BY <1>2, <1>3, <1>4, <1>5, <1>6, <1>7, <1>8, <1>9 DEF IInv

\* The swap is on chain: the record is still the one in hand.
LEMMA GetOutboundSwapStep ==
    ASSUME IInv, GetOutboundSwap, step' = "getTx"
    PROVE  IInv'
<1>1. /\ UNCHANGED <<env, store, faults, mine, unrecorded, reorged, revived>>
      /\ step = "getSwap"
      /\ UNCHANGED <<locals, removed>>
  BY DEF GetOutboundSwap, Continue, Stop, Suspend
<1>2. TypeOK'
  BY <1>1 DEF IInv, TypeOK, Steps, env, store, locals
<1>3. InOrder' /\ PaidFor'
  BY LedgerFrame, <1>1 DEF env
<1>4. NoGaps'
  BY <1>1
  DEF IInv, NoGaps, GapsAreDrops, Reached, NextNonce, Running, env, locals
<1>5. Numbered'
  BY <1>1
  DEF IInv, Numbered, Submitted, LostRecord, NextNonce, Running, Used, env,
      locals
<1>6. Visits'
  BY <1>1 DEF IInv, Visits, Visiting, env, store, locals
<1>7. Records'
  BY <1>1 DEF IInv, Records, Used, env, store, locals
<1>8. Recorded'
  BY <1>1 DEF IInv, Recorded, Current, LostRecord, env, store
<1>9. Settlement'
  BY <1>1 DEF IInv, Settlement, RemovedIsSettled, env
<1>. QED
  BY <1>2, <1>3, <1>4, <1>5, <1>6, <1>7, <1>8, <1>9 DEF IInv

\* A success settles the swap; a failed or dropped record is out of the way.
LEMMA GetTransactionStep ==
    ASSUME IInv, GetTransaction, step' \in {"getCompleted", "remove"}
    PROVE  IInv'
<1>1. /\ UNCHANGED <<env, store, faults, mine, unrecorded, reorged, revived>>
      /\ step = "getTx"
      /\ \/ step' = "getCompleted" /\ stxTx[stxTxid] \in {"failed", "dropped"}
         \/ step' = "remove" /\ stxTx[stxTxid] = "success"
      /\ UNCHANGED <<locals, removed>>
  BY NullsAssumption, MemberTypes
  DEF IInv, TypeOK, Records, Used, Visiting, GetTransaction, AfterStatus,
      Continue, Stop, Suspend
<1>2. TypeOK'
  BY <1>1 DEF IInv, TypeOK, Steps, env, store, locals
<1>3. InOrder' /\ PaidFor'
  BY LedgerFrame, <1>1 DEF env
<1>4. NoGaps'
  BY <1>1
  DEF IInv, NoGaps, GapsAreDrops, Reached, NextNonce, Running, env, locals
<1>5. Numbered'
  BY <1>1
  DEF IInv, Numbered, Submitted, LostRecord, NextNonce, Running, Used, env,
      locals
<1>6. Visits'
  BY <1>1 DEF IInv, Visits, Visiting, env, store, locals
<1>7. Records'
  BY <1>1 DEF IInv, Records, Used, Current, env, store, locals
<1>8. Recorded'
  BY <1>1 DEF IInv, Recorded, Current, LostRecord, env, store
<1>9. Settlement'
  BY NullsAssumption, MemberTypes, <1>1
  DEF IInv, TypeOK, Records, Visiting, Settlement, RemovedIsSettled, env,
      locals
<1>. QED
  BY <1>2, <1>3, <1>4, <1>5, <1>6, <1>7, <1>8, <1>9 DEF IInv

\* A settled swap is forgotten, an open one finalized again.
LEMMA GetOutboundFinalizedTxidStep ==
    ASSUME IInv, GetOutboundFinalizedTxid
    PROVE  IInv'
<1>1. TypeOK'
  BY DEF IInv, TypeOK, Steps, GetOutboundFinalizedTxid, env, store, locals,
      Suspend
<1>2. InOrder' /\ PaidFor'
  BY LedgerFrame DEF GetOutboundFinalizedTxid, env
<1>3. NoGaps'
  BY DEF IInv, NoGaps, GapsAreDrops, Reached, NextNonce, Running,
      GetOutboundFinalizedTxid, env, locals, Suspend
<1>4. Numbered'
  BY DEF IInv, Numbered, Submitted, LostRecord, NextNonce, Running, Used,
      GetOutboundFinalizedTxid, env, locals, Suspend
<1>5. Visits'
  BY DEF IInv, Visits, Visiting, GetOutboundFinalizedTxid, env, store, locals
<1>6. Records'
  BY DEF IInv, Records, Used, Current, GetOutboundFinalizedTxid, env, store,
      locals, Suspend
<1>7. Recorded'
  BY DEF IInv, Recorded, Current, LostRecord, GetOutboundFinalizedTxid, env, store
<1>8. Settlement'
  BY DEF IInv, Settlement, RemovedIsSettled, GetOutboundFinalizedTxid, env,
      locals, Suspend
<1>. QED
  BY <1>1, <1>2, <1>3, <1>4, <1>5, <1>6, <1>7, <1>8 DEF IInv

\* Only a member whose swap was settled is forgotten.
LEMMA RemovePendingFinalizedOutboundStep ==
    ASSUME IInv, RemovePendingFinalizedOutbound
    PROVE  IInv'
<1>1. /\ step' \in {"idle", "btcTx"} /\ member' = NoMember /\ stxTxid' = NoTx
      /\ step' = "idle" => members' = {} /\ nonce' = 0 /\ processed' = 0
      /\ step' = "btcTx" => members' = members /\ nonce' = nonce /\ processed' = processed
  BY ContinueFacts DEF RemovePendingFinalizedOutbound
<1>2. TypeOK'
  BY NonceTypes, MemberTypes, <1>1
  DEF Visiting, IInv, TypeOK, Steps, RemovePendingFinalizedOutbound, env
<1>3. InOrder' /\ PaidFor'
  BY LedgerFrame DEF RemovePendingFinalizedOutbound, env
<1>4. NoGaps'
  BY <1>1
  DEF IInv, NoGaps, GapsAreDrops, Reached, NextNonce, Running,
      RemovePendingFinalizedOutbound, env
<1>5. Numbered'
  BY <1>1
  DEF IInv, Numbered, Submitted, LostRecord, NextNonce, Running, Used,
      RemovePendingFinalizedOutbound, env
<1>6. Visits'
  BY <1>1 DEF IInv, Visits, Visiting, RemovePendingFinalizedOutbound
<1>7. Records'
  BY <1>1 DEF IInv, Records, Used, RemovePendingFinalizedOutbound, env
<1>8. Recorded'
  BY DEF IInv, Recorded, Current, LostRecord, RemovePendingFinalizedOutbound, env
<1>9. Settlement'
  BY <1>1
  DEF IInv, Settlement, RemovedIsSettled, RemovePendingFinalizedOutbound, env
<1>. QED
  BY <1>2, <1>3, <1>4, <1>5, <1>6, <1>7, <1>8, <1>9 DEF IInv

\* The proof is built from what is on the Bitcoin chain.
LEMMA BuildProofStep ==
    ASSUME IInv, BuildProof
    PROVE  IInv'
<1>1. TypeOK'
  BY DEF IInv, TypeOK, Steps, BuildProof, env, store, locals, Suspend
<1>2. InOrder' /\ PaidFor'
  BY LedgerFrame DEF BuildProof, env
<1>3. NoGaps'
  BY DEF IInv, NoGaps, GapsAreDrops, Reached, NextNonce, Running, BuildProof, env,
      locals, Suspend
<1>4. Numbered'
  BY DEF IInv, Numbered, Submitted, LostRecord, NextNonce, Running, Used,
      BuildProof, env, locals, Suspend
<1>5. Visits'
  BY DEF IInv, Visits, Visiting, BuildProof, env, store, locals
<1>6. Records'
  BY DEF IInv, Records, Used, Current, BuildProof, env, store, locals, Suspend
<1>7. Recorded'
  BY DEF IInv, Recorded, Current, LostRecord, BuildProof, env, store
<1>8. Settlement'
  BY DEF IInv, Settlement, RemovedIsSettled, BuildProof, env, Suspend
<1>. QED
  BY <1>1, <1>2, <1>3, <1>4, <1>5, <1>6, <1>7, <1>8 DEF IInv

\* The run submits with the next nonce: what it has in hand is the one
\* finalization of the member that is not on record.
LEMMA BroadcastTransactionStep ==
    ASSUME IInv, BroadcastTransaction
    PROVE  IInv'
<1>1. PICK n \in Nonces : n = NextNonce /\ Accept(n, member.swap) /\ Reached(n)
  BY NonceTypes, ReachedBound
  DEF IInv, TypeOK, NoGaps, Running, NextNonce, BroadcastTransaction
<1>2. /\ InOrder' /\ GapsAreDrops' /\ Reached(n + 1)'
      /\ \A m \in Nat : Reached(m) => Reached(m)'
  BY <1>1, AcceptKeepsOrder DEF BroadcastTransaction
<1>3. Takes(NewStxTxid, n, member.swap)
  BY <1>1, AcceptTakes
<1>4. /\ UNCHANGED <<contract, btcTx, accountNonce, scriptNonce, pendingFinalized, finalizedOutbound>>
      /\ UNCHANGED <<members, member, nonce, processed, removed, unrecorded, reorged, revived>>
      /\ step = "broadcast" /\ step' = "setFinalized"
      /\ stxTxid' = NewStxTxid /\ mine' = mine \cup {NewStxTxid}
      /\ faults' \in 0 .. MaxFaults
  BY BoundAssumption
  DEF IInv, TypeOK, BroadcastTransaction, Fault, Suspend, store
<1>5. TypeOK'
  BY <1>3, <1>4, MemberTypes DEF IInv, TypeOK, Steps, Visiting, Takes
<1>6. InOrder'
  BY <1>2
<1>7. NoGaps'
  BY NonceTypes, <1>1, <1>2, <1>4 DEF IInv, TypeOK, NoGaps, NextNonce
<1>8. Numbered'
  BY <1>1, <1>3, <1>4
  DEF IInv, Numbered, Submitted, LostRecord, NextNonce, Running, Used, Takes
<1>9. Visits'
  BY <1>4 DEF IInv, Visits, Visiting
<1>10. Records'
  BY NullsAssumption, <1>3, <1>4, MemberTypes
  DEF IInv, Records, Used, Current, Visiting, Takes
<1>11. Recorded'
  BY <1>3, <1>4 DEF IInv, Recorded, Current, LostRecord, Takes
<1>12. Settlement'
  BY <1>3, <1>4 DEF IInv, Settlement, RemovedIsSettled, Takes
<1>13. PaidFor'
  BY <1>3, <1>4, MemberTypes DEF IInv, PaidFor, Visits, Visiting, Used, Takes
<1>. QED
  BY <1>5, <1>6, <1>7, <1>8, <1>9, <1>10, <1>11, <1>12, <1>13 DEF IInv

\* The answer is lost: the transaction is nobody's record, and the nonce is
\* used a second time.
LEMMA BroadcastUnacknowledgedStep ==
    ASSUME IInv, BroadcastUnacknowledged
    PROVE  IInv'
<1>1. PICK n \in Nonces : n = NextNonce /\ Accept(n, member.swap) /\ Reached(n)
  BY NonceTypes, ReachedBound
  DEF IInv, TypeOK, NoGaps, Running, NextNonce, BroadcastUnacknowledged
<1>2. /\ InOrder' /\ GapsAreDrops' /\ Reached(n + 1)'
      /\ \A m \in Nat : Reached(m) => Reached(m)'
  BY <1>1, AcceptKeepsOrder DEF BroadcastUnacknowledged
<1>3. Takes(NewStxTxid, n, member.swap)
  BY <1>1, AcceptTakes
<1>4. /\ UNCHANGED <<contract, btcTx, accountNonce, scriptNonce, pendingFinalized, finalizedOutbound>>
      /\ UNCHANGED <<removed, reorged, revived>>
      /\ step = "broadcast"
      /\ mine' = mine \cup {NewStxTxid} /\ unrecorded' = unrecorded \cup {NewStxTxid}
      /\ faults' \in 0 .. MaxFaults
  BY BoundAssumption DEF IInv, TypeOK, BroadcastUnacknowledged, Fault, store
<1>5. /\ step' \in {"idle", "btcTx"} /\ member' = NoMember /\ stxTxid' = NoTx
      /\ step' = "idle" => members' = {} /\ nonce' = 0 /\ processed' = 0
      /\ step' = "btcTx" => members' = members /\ nonce' = nonce /\ processed' = processed
  BY ContinueFacts DEF BroadcastUnacknowledged
<1>6. TypeOK'
  BY NonceTypes, <1>3, <1>4, <1>5, MemberTypes
  DEF IInv, TypeOK, Steps, Visiting, Takes
<1>7. InOrder'
  BY <1>2
<1>8. NoGaps'
  BY NonceTypes, <1>2, <1>4, <1>5 DEF IInv, TypeOK, NoGaps, NextNonce, Running
<1>9. Numbered'
  BY <1>3, <1>4, <1>5
  DEF IInv, Numbered, Submitted, LostRecord, NextNonce, Running, Used, Takes
<1>10. Visits'
  BY <1>4, <1>5 DEF IInv, Visits, Visiting
<1>11. Records'
  BY <1>3, <1>4, <1>5 DEF IInv, Records, Used, Takes
<1>12. Recorded'
  BY <1>3, <1>4 DEF IInv, Recorded, Current, LostRecord, Takes
<1>13. Settlement'
  BY <1>3, <1>4, <1>5 DEF IInv, Settlement, RemovedIsSettled, Takes
<1>14. PaidFor'
  BY <1>3, <1>4, MemberTypes DEF IInv, PaidFor, Visits, Visiting, Used, Takes
<1>. QED
  BY <1>6, <1>7, <1>8, <1>9, <1>10, <1>11, <1>12, <1>13, <1>14 DEF IInv

\* The submitted transaction becomes the record, and its nonce is counted.
LEMMA SetFinalizedOutboundStep ==
    ASSUME IInv, SetFinalizedOutbound
    PROVE  IInv'
<1>1. /\ step' \in {"idle", "btcTx"} /\ member' = NoMember /\ stxTxid' = NoTx
      /\ step' = "idle" => members' = {} /\ nonce' = 0 /\ processed' = 0
      /\ step' = "btcTx" => members' = members /\ nonce' = nonce /\ processed' = processed + 1
  BY ContinueFacts DEF SetFinalizedOutbound, SubmittedNow
<1>2. processed + 1 \in Nonces
  <2>1. nonce + processed + 1 \in Nonces
    BY ReachedBound, NonceTypes
    DEF IInv, TypeOK, NoGaps, NextNonce, SetFinalizedOutbound
  <2>. QED
    BY <2>1, NonceTypes DEF IInv, TypeOK, Nonces
<1>3. TypeOK'
  BY NonceTypes, <1>1, <1>2 DEF IInv, TypeOK, Steps, SetFinalizedOutbound, env
<1>4. InOrder' /\ PaidFor'
  BY LedgerFrame DEF SetFinalizedOutbound, env
<1>5. NoGaps'
  BY NonceTypes, <1>1
  DEF IInv, TypeOK, NoGaps, GapsAreDrops, Reached, NextNonce,
      SetFinalizedOutbound, env
<1>6. Numbered'
  BY NonceTypes, <1>1
  DEF IInv, TypeOK, Numbered, Submitted, LostRecord, NextNonce, Running, Used,
      SetFinalizedOutbound, env
<1>7. Visits'
  BY <1>1 DEF IInv, Visits, Visiting, SetFinalizedOutbound
<1>8. Records'
  BY <1>1 DEF IInv, Records, Used, SetFinalizedOutbound, env
<1>9. Recorded'
  BY DEF IInv, TypeOK, Records, Recorded, Current, LostRecord,
      SetFinalizedOutbound, env
<1>10. Settlement'
  BY <1>1 DEF IInv, Settlement, RemovedIsSettled, SetFinalizedOutbound, env
<1>. QED
  BY <1>3, <1>4, <1>5, <1>6, <1>7, <1>8, <1>9, <1>10 DEF IInv

\* A call for a member rejects, or the process dies.
LEMMA ThrowStep ==
    ASSUME IInv, Throw \/ Crash
    PROVE  IInv'
<1>1. /\ UNCHANGED <<env, store, mine, removed, reorged, revived>>
      /\ faults' \in 0 .. MaxFaults
      /\ unrecorded' = unrecorded \cup LostRecord
  BY BoundAssumption DEF IInv, TypeOK, Throw, Crash, Fault
<1>2. PICK left \in SUBSET members : Stop \/ (Running /\ Continue(left, processed))
  BY DEF Throw, Crash, Running
<1>. QED
  BY <1>1, <1>2, LeaveMemberStep

\* A member that is not confirmed, not on chain, or whose finalization is
\* pending or refused is left for the next run.
LEMMA SkipStep ==
    ASSUME IInv, NEW left \in SUBSET members, Running, Continue(left, processed),
           step # "setFinalized",
           UNCHANGED <<env, store, faults, mine, unrecorded, removed, reorged, revived>>
    PROVE  IInv'
<1>1. faults' \in 0 .. MaxFaults /\ LostRecord = {}
  BY DEF IInv, TypeOK, LostRecord
<1>2. unrecorded' = unrecorded \cup LostRecord
  BY <1>1
<1>. QED
  BY <1>1, LeaveMemberStep

\* The steps of the run.
LEMMA RunStep ==
    ASSUME IInv, Run
    PROVE  IInv'
<1>1. ASSUME NEW m \in Members, CheckBtcTx(m) PROVE IInv'
  <2>1. CASE step' = "getFinalized"
    BY <1>1, <2>1, CheckBtcTxStep
  <2>2. CASE step' # "getFinalized"
    <3>1. Continue(members \ {m}, processed) /\ Running /\ step # "setFinalized"
      BY <1>1, <2>2 DEF CheckBtcTx, Suspend, Running
    <3>. QED
      BY <1>1, <3>1, SkipStep DEF CheckBtcTx
  <2>. QED
    BY <2>1, <2>2
<1>2. CASE GetOutboundSwap
  <2>1. CASE step' = "getTx"
    BY <1>2, <2>1, GetOutboundSwapStep
  <2>2. CASE step' # "getTx"
    <3>1. Continue(members, processed) /\ Running /\ step # "setFinalized" /\ removed' = removed
      BY <1>2, <2>2 DEF GetOutboundSwap, Suspend, Running
    <3>. QED
      BY <1>2, <3>1, SkipStep DEF GetOutboundSwap
  <2>. QED
    BY <2>1, <2>2
<1>3. CASE GetTransaction
  <2>1. CASE step' \in {"getCompleted", "remove"}
    BY <1>3, <2>1, GetTransactionStep
  <2>2. CASE step' \notin {"getCompleted", "remove"}
    <3>1. stxTx[stxTxid] \in {"pending", "success", "failed", "dropped"}
      BY <1>3, MemberTypes, NullsAssumption
      DEF IInv, TypeOK, Records, Used, Visiting, GetTransaction
    <3>2. Continue(members, processed) /\ Running /\ step # "setFinalized"
      BY <1>3, <2>2, <3>1 DEF GetTransaction, AfterStatus, Suspend, Running
    <3>. QED
      BY <1>3, <3>2, SkipStep DEF GetTransaction
  <2>. QED
    BY <2>1, <2>2
<1>4. CASE BroadcastRefused
  <2>1. Continue(members, processed) /\ Running /\ step # "setFinalized"
    BY <1>4 DEF BroadcastRefused, Running
  <2>. QED
    BY <1>4, <2>1, SkipStep DEF BroadcastRefused
<1>. QED
  BY <1>1, <1>2, <1>3, <1>4, GetAllPendingFinalizedOutboundStep, FetchAccountNonceStep, GetFinalizedOutboundStep, GetOutboundFinalizedTxidStep, RemovePendingFinalizedOutboundStep, BuildProofStep, BroadcastTransactionStep, BroadcastUnacknowledgedStep, SetFinalizedOutboundStep, ThrowStep
  DEF Run

\* A stuttering step changes none of the variables IInv speaks of.
LEMMA StutterStep ==
    ASSUME IInv, UNCHANGED vars
    PROVE  IInv'
<1>1. TypeOK' /\ InOrder' /\ NoGaps' /\ Numbered'
  BY DEF IInv, TypeOK, InOrder, Mined, NoGaps, GapsAreDrops, Reached, NextNonce,
      Running, Numbered, Submitted, LostRecord, Used, vars, env, store, locals
<1>2. Visits' /\ Records' /\ Recorded' /\ Settlement' /\ PaidFor'
  BY DEF IInv, Visits, Visiting, Records, Used, Current, Recorded, LostRecord,
      Settlement, RemovedIsSettled, PaidFor, vars, env, store, locals
<1>. QED
  BY <1>1, <1>2 DEF IInv

\* IInv is inductive: one case per action of Next.
LEMMA NextIInv == IInv /\ [Next]_vars => IInv'
<1>. SUFFICES ASSUME IInv, [Next]_vars PROVE IInv'
  OBVIOUS
<1>1. CASE \E m \in Members : Pay(m) \/ List(m)
  BY <1>1, PayStep, ListStep
<1>2. CASE \E x \in Txids : ConfirmBtc(x) \/ EvictBtc(x)
  BY <1>2, ConfirmBtcStep, EvictBtcStep
<1>3. CASE \E s \in Swaps : Revoke(s) \/ OrphanSwap(s) \/ ReinitiateSwap(s)
  BY <1>3, RevokeStep, OrphanSwapStep, ReinitiateSwapStep
<1>4. CASE \E i \in StxTxids : MineStx(i) \/ DropStx(i) \/ OrphanStx(i)
  BY <1>4, MineStxStep, DropStxStep, OrphanStxStep
<1>5. CASE ScriptFetchesNonce
  BY <1>5, ScriptFetchesNonceStep
<1>6. CASE \E n \in scriptNonce : ScriptBroadcasts(n) \/ ScriptRefused(n)
  BY <1>6, ScriptBroadcastsStep, ScriptRefusedStep
<1>7. CASE Run
  BY <1>7, RunStep
<1>8. CASE Crash
  BY <1>8, ThrowStep
<1>9. CASE UNCHANGED vars
  BY <1>9, StutterStep
<1>. QED
  BY <1>1, <1>2, <1>3, <1>4, <1>5, <1>6, <1>7, <1>8, <1>9 DEF Next

\* IInv holds in every reachable state.
LEMMA Invariance == Spec => []IInv
BY InitIInv, NextIInv, PTL DEF Spec

-----------------------------------------------------------------------------
(* The theorems.                                                           *)

\* Every variable stays within its type; no nonce exceeds the number of
\* transactions, because there are no gaps.
THEOREM TypeCorrect == Spec => []TypeOK
<1>1. IInv => TypeOK
  BY DEF IInv
<1>. QED
  BY <1>1, Invariance, PTL

\* Two current finalizations of a swap that were not lost are both its record:
\* one in hand is none, because its swap's record is out of the way.
LEMMA IInvOneLive == IInv => OneLiveFinalization
<1>. SUFFICES ASSUME IInv, NEW s \in Swaps,
                     NEW i \in Live(s) \ (unrecorded \cup revived),
                     NEW k \in Live(s) \ (unrecorded \cup revived)
              PROVE  i = k
  BY DEF OneLiveFinalization
<1>1. /\ i \in Current \ unrecorded /\ stxSwap[i] = s
      /\ k \in Current \ unrecorded /\ stxSwap[k] = s
      /\ s # NoSwap
  BY NullsAssumption DEF Live, Current
<1>2. /\ finalizedOutbound[s] = i \/ i \in LostRecord
      /\ finalizedOutbound[s] = k \/ k \in LostRecord
  BY <1>1 DEF IInv, Recorded
<1>3. ASSUME NEW x \in LostRecord, stxSwap[x] = s
      PROVE  x = stxTxid /\ finalizedOutbound[s] \notin Current
  BY <1>3 DEF IInv, Records, LostRecord
<1>. QED
  BY <1>1, <1>2, <1>3

\* No swap is finalized twice at a time, however runs, retries, scripts,
\* forks and crashes follow each other, but for transactions whose txid was
\* lost and failed ones a fork revived.
THEOREM FinalizedOnce == Spec => []OneLiveFinalization
BY IInvOneLive, Invariance, PTL

\* No payment is forgotten before the contract settled its swap.
THEOREM ForgottenAreSettled == Spec => []RemovedIsSettled
<1>1. IInv => RemovedIsSettled
  BY DEF IInv, Settlement
<1>. QED
  BY <1>1, Invariance, PTL

\* The transactions of a run are numbered in turn from the nonce it fetched.
THEOREM RunsNumberInTurn == Spec => []NumberedInTurn
<1>1. IInv => NumberedInTurn
  BY DEF IInv, Numbered, NumberedInTurn, Running, Submitted, LostRecord
<1>. QED
  BY <1>1, Invariance, PTL

\* Below a transaction that waits, every nonce had a transaction: a gap is
\* one the mempool dropped, never one that was skipped.
THEOREM NoNonceIsSkipped == Spec => []GapsAreDrops
<1>1. IInv => GapsAreDrops
  BY DEF IInv, NoGaps
<1>. QED
  BY <1>1, Invariance, PTL

-----------------------------------------------------------------------------
(* The cron implements OutboundSwap: every step maps to a step or stutters. *)

\* What the abstract swap has for settled and paid.
WasSettled == {s \in Swaps : contract[s] \in Settled} \cup reorged
Paid == {m \in Members : btcTx[m.txid] # "unknown"}

\* The initial states are initial states of OutboundSwap.
LEMMA InitMaps == Init => Outbound!Init
<1>. SUFFICES ASSUME Init PROVE Outbound!Init
  OBVIOUS
<1>1. WasSettled = {} /\ Paid = {}
  BY MembersAssumption DEF Init, WasSettled, Paid, Settled
<1>. QED
  BY <1>1 DEF Init, Outbound!Init, WasSettled, Paid

\* What moves no swap, payment or listing is a stutter; so is a payment that
\* is confirmed or evicted.
LEMMA QuietMaps ==
    ASSUME UNCHANGED <<contract, pendingFinalized, removed, reorged>>,
           \A m \in Members : btcTx'[m.txid] = "unknown" <=> btcTx[m.txid] = "unknown"
    PROVE  UNCHANGED (Outbound!vars)
<1>1. WasSettled' = WasSettled /\ Paid' = Paid
  BY DEF WasSettled, Paid
<1>. QED
  BY DEF Outbound!vars

\* A payment reaches the mempool: the txid is of one member only.
LEMMA PayMaps ==
    ASSUME IInv, NEW m \in Members, Pay(m)
    PROVE  Outbound!Pay(m)
<1>1. m \notin Paid /\ Paid' = Paid \cup {m}
  BY MembersAssumption DEF IInv, TypeOK, Pay, Paid
<1>2. WasSettled' = WasSettled
  BY DEF Pay, WasSettled
<1>. QED
  BY <1>1 DEF Pay, store, Outbound!Pay, Paid

\* A payment is listed for the finalizer.
LEMMA ListMaps ==
    ASSUME NEW m \in Members, List(m)
    PROVE  Outbound!List(m)
BY DEF List, env, Outbound!List

\* The contract's side: the user revokes, initiates again, or a fork drops
\* the user's transaction.
LEMMA SwapMaps ==
    ASSUME IInv, NEW s \in Swaps, Revoke(s) \/ OrphanSwap(s) \/ ReinitiateSwap(s)
    PROVE  Outbound!Revoke(s) \/ Outbound!Undo(s) \/ Outbound!Initiate(s)
<1>1. Paid' = Paid /\ UNCHANGED <<pendingFinalized, removed>>
  BY DEF Revoke, OrphanSwap, ReinitiateSwap, Paid, store
<1>2. CASE Revoke(s)
  <2>1. WasSettled' = WasSettled \cup {s}
    BY <1>2 DEF IInv, TypeOK, Revoke, WasSettled, Settled
  <2>. QED
    BY <1>1, <1>2, <2>1
    DEF Revoke, Outbound!Revoke, Outbound!Become, WasSettled
<1>3. CASE OrphanSwap(s)
  <2>1. WasSettled' = WasSettled
    BY <1>3 DEF IInv, TypeOK, OrphanSwap, WasSettled, Settled
  <2>. QED
    BY <1>1, <1>3, <2>1
    DEF OrphanSwap, Outbound!Undo, Outbound!Become, WasSettled
<1>4. CASE ReinitiateSwap(s)
  <2>1. WasSettled' = WasSettled
    BY <1>4 DEF ReinitiateSwap, WasSettled, Settled
  <2>. QED
    BY <1>1, <1>4, <2>1
    DEF ReinitiateSwap, Outbound!Initiate, Outbound!Become, WasSettled
<1>. QED
  BY <1>2, <1>3, <1>4

\* A finalization that succeeds was paid for; any other moves no swap.
LEMMA MineMaps ==
    ASSUME IInv, NEW i \in StxTxids, MineStx(i)
    PROVE  UNCHANGED (Outbound!vars) \/ \E s \in Swaps : Outbound!Finalize(s)
<1>1. UNCHANGED <<btcTx, pendingFinalized, removed, reorged>>
  BY DEF MineStx, store
<1>2. CASE contract' = contract
  BY <1>1, <1>2, QuietMaps
<1>3. CASE contract' # contract
  <2>1. PICK s \in Swaps : s = stxSwap[i] /\ contract[s] = "open"
    BY <1>3 DEF MineStx, Settles, IInv, TypeOK
  <2>2. contract' = [contract EXCEPT ![s] = "finalized"]
    BY <1>3, <2>1 DEF MineStx, Settles, IInv, TypeOK
  <2>3. \E m \in Paid : m.swap = s
    BY <2>1, NullsAssumption DEF IInv, PaidFor, Used, MineStx, Paid
  <2>4. WasSettled' = WasSettled \cup {s}
    BY <1>1, <2>2 DEF IInv, TypeOK, WasSettled, Settled
  <2>5. Paid' = Paid
    BY <1>1 DEF Paid
  <2>. QED
    BY <1>1, <2>1, <2>2, <2>3, <2>4
    DEF Outbound!Finalize, Outbound!Become, WasSettled, Paid
<1>. QED
  BY <1>2, <1>3

\* A fork takes back a settlement: its swap had been finalized.
LEMMA OrphanMaps ==
    ASSUME IInv, NEW i \in StxTxids, OrphanStx(i)
    PROVE  UNCHANGED (Outbound!vars) \/ \E s \in Swaps : Outbound!Undo(s)
<1>1. UNCHANGED <<btcTx, pendingFinalized, removed>>
  BY DEF OrphanStx, store
<1>2. CASE stxTx[i] = "failed" \/ stxSwap[i] = NoSwap
  <2>1. contract' = contract /\ reorged' = reorged
    BY <1>2, NullsAssumption DEF OrphanStx, IInv, TypeOK
  <2>. QED
    BY <1>1, <2>1, QuietMaps
<1>3. CASE stxTx[i] = "success" /\ stxSwap[i] # NoSwap
  <2>. DEFINE s == stxSwap[i]
  <2>1. s \in Swaps /\ contract[s] = "finalized"
    BY <1>3 DEF IInv, TypeOK, Settlement
  <2>2. contract' = [contract EXCEPT ![s] = "open"] /\ reorged' = reorged \cup {s}
    BY <1>3 DEF OrphanStx, IInv, TypeOK
  <2>3. WasSettled' = WasSettled /\ Paid' = Paid
    BY <1>1, <2>1, <2>2 DEF IInv, TypeOK, WasSettled, Paid
  <2>. QED
    BY <1>1, <2>1, <2>2, <2>3 DEF Outbound!Undo, Outbound!Become, WasSettled
<1>. QED
  BY <1>2, <1>3 DEF OrphanStx

\* A payment is forgotten that is listed and whose swap was settled.
LEMMA RemoveMaps ==
    ASSUME IInv, RemovePendingFinalizedOutbound
    PROVE  \E m \in Members : Outbound!Forget(m)
<1>1. /\ member \in Members /\ member.swap \in Swaps /\ member \in pendingFinalized
      /\ member.swap \in WasSettled
  BY MemberTypes
  DEF IInv, Visits, Visiting, Settlement, RemovePendingFinalizedOutbound,
      WasSettled
<1>2. WasSettled' = WasSettled /\ Paid' = Paid
  BY DEF RemovePendingFinalizedOutbound, env, WasSettled, Paid
<1>. QED
  BY <1>1 DEF RemovePendingFinalizedOutbound, env, Outbound!Forget, WasSettled

\* Every step is a step of OutboundSwap or a stutter.
LEMMA NextMaps == IInv /\ [Next]_vars => [Outbound!Next]_(Outbound!vars)
<1>. SUFFICES ASSUME IInv, [Next]_vars PROVE [Outbound!Next]_(Outbound!vars)
  OBVIOUS
<1>1. CASE \E m \in Members : Pay(m) \/ List(m)
  BY <1>1, PayMaps, ListMaps DEF Outbound!Next
<1>2. ASSUME NEW x \in Txids, ConfirmBtc(x) \/ EvictBtc(x)
      PROVE  UNCHANGED (Outbound!vars)
  <2>1. \A y \in Txids : btcTx'[y] = "unknown" <=> btcTx[y] = "unknown"
    BY <1>2 DEF IInv, TypeOK, ConfirmBtc, EvictBtc
  <2>. QED
    BY <1>2, <2>1, MemberTypes, QuietMaps DEF ConfirmBtc, EvictBtc, store
<1>3. CASE \E s \in Swaps : Revoke(s) \/ OrphanSwap(s) \/ ReinitiateSwap(s)
  BY <1>3, SwapMaps DEF Outbound!Next
<1>4. CASE \E i \in StxTxids : MineStx(i) \/ OrphanStx(i)
  BY <1>4, MineMaps, OrphanMaps DEF Outbound!Next
<1>5. CASE RemovePendingFinalizedOutbound
  BY <1>5, RemoveMaps DEF Outbound!Next
<1>6. CASE \/ \E i \in StxTxids : DropStx(i)
           \/ ScriptFetchesNonce \/ \E n \in scriptNonce : ScriptBroadcasts(n) \/ ScriptRefused(n)
           \/ (Run /\ ~RemovePendingFinalizedOutbound) \/ Crash \/ UNCHANGED vars
  <2>1. UNCHANGED <<contract, btcTx, pendingFinalized, removed, reorged>>
    BY <1>6
    DEF DropStx, ScriptFetchesNonce, ScriptBroadcasts, ScriptRefused, Run,
        GetAllPendingFinalizedOutbound, FetchAccountNonce, CheckBtcTx,
        GetFinalizedOutbound, GetOutboundSwap, GetTransaction,
        GetOutboundFinalizedTxid, BuildProof, BroadcastTransaction,
        BroadcastUnacknowledged, BroadcastRefused, SetFinalizedOutbound, Throw,
        Crash, vars, env, store
  <2>. QED
    BY <2>1, QuietMaps
<1>. QED
  BY <1>1, <1>2, <1>3, <1>4, <1>5, <1>6 DEF Next

\* The cron implements its part of what the supplier promises of an outbound
\* swap: an escrow is claimed only for a swap that was paid, and a payment is
\* followed until its swap was settled, through forks, lost answers and crashes.
THEOREM CronImplementsOutboundSwap == Spec => ImplementsOutboundSwap
<1>1. Init => Outbound!Init
  BY InitMaps
<1>2. IInv /\ [Next]_vars => [Outbound!Next]_(Outbound!vars)
  BY NextMaps
<1>. QED
  BY <1>1, <1>2, Invariance, PTL DEF Spec, ImplementsOutboundSwap, Outbound!Spec
=============================================================================
