------------------------- MODULE SendOutboundProofs -------------------------
(***************************************************************************)
(* What the send-outbound worker guarantees for every set of swaps, jobs   *)
(* and transaction ids.  IInv is the inductive invariant; every theorem    *)
(* follows from it, and with HandedOver that the worker implements         *)
(* OutboundSwap.                                                           *)
(***************************************************************************)
EXTENDS SendOutbound, TLAPS

\* process(1, ...): at most one handler is between two awaits, and it is the
\* handler of an active job, of an own swap once it has read the event.
OneHandler ==
    /\ \A j, k \in Jobs : step[j] # "idle" /\ step[k] # "idle" => j = k
    /\ \A j \in Jobs : step[j] # "idle" <=> jobState[j] = "active"
    /\ \A j \in Jobs : step[j] \notin {"idle", "deserialize"} => jobSwap[j] \in OwnSwaps

\* A swap that a fork took off the contract after the handler read its event
\* is initiated again no earlier than that event says.
Dated ==
    /\ \A s \in Swaps : createdAt[s] <= height
    /\ \A j \in Jobs : step[j] \notin {"idle", "deserialize"} =>
           eventCreatedAt[j] <= createdAt[jobSwap[j]]

\* What the handler read from Redis is still true when it acts on it.
Unsent ==
    \A j \in Jobs :
        \/ step[j] \in {"getBlock", "send", "setSent"}
        \/ step[j] = "getFinalized" /\ cached[j] = NoTx
        => sentOutbound[jobSwap[j]] = NoTx

\* What the handler holds after the broadcast.
InHand ==
    \A j \in Jobs :
        /\ step[j] \in {"setSent", "setPending"} => sentTxid[j] \in Txids
        /\ step[j] = "setPending" => sentOutbound[jobSwap[j]] = sentTxid[j]

\* A payment is on record, or in the hand of the handler that made it.
Recorded ==
    \A p \in payments \ orphans :
        \/ sentOutbound[p.swap] = p.txid
        \/ \E j \in Jobs : step[j] = "setSent" /\ PaymentOf(j) = p

\* Ages: a revoked swap is past the expiry, one about to be paid was younger
\* than the cutoff at the block its handler saw.
Ages ==
    /\ \A s \in Swaps : contract[s] = "revoked" => height - createdAt[s] >= Expiry
    /\ \A j \in Jobs : step[j] = "send" => currentBlock[j] - eventCreatedAt[j] < SendCutoff

IInv ==
    /\ TypeOK
    /\ OneHandler
    /\ Dated
    /\ Unsent
    /\ InHand
    /\ Recorded
    /\ Ages
    /\ RecordedIsListed

-----------------------------------------------------------------------------
(* IInv is inductive: it holds initially, and each action preserves it.    *)

\* A new swap, or one a fork took away, is of the current height.
LEMMA InitiateStep ==
    ASSUME IInv, NEW s \in Swaps, Initiate(s)
    PROVE  IInv'
<1>1. TypeOK'
  BY DEF IInv, TypeOK, Initiate, store, queue, handler, history
<1>2. OneHandler'
  BY DEF IInv, OneHandler, Initiate, queue, handler
<1>3. Dated'
  BY BoundAssumption DEF IInv, TypeOK, Dated, OneHandler, Initiate, store, queue, handler
<1>4. Unsent'
  BY DEF IInv, Unsent, Initiate, store, queue, handler
<1>5. InHand'
  BY DEF IInv, InHand, Initiate, store, queue, handler
<1>6. Recorded'
  BY DEF IInv, Recorded, PaymentOf, Initiate, store, queue, handler, history
<1>7. Ages'
  BY DEF IInv, Ages, Dated, OneHandler, Initiate, queue, handler
<1>8. RecordedIsListed'
  <2>. SUFFICES ASSUME NEW t \in Swaps, sentOutbound'[t] # NoTx, ~WasSettled(t)'
                PROVE  Listed(t)'
    BY DEF RecordedIsListed
  <2>1. sentOutbound[t] # NoTx /\ ~WasSettled(t)
    BY DEF IInv, TypeOK, WasSettled, Settled, Initiate, store, history
  <2>2. Listed(t)
    BY <2>1 DEF IInv, RecordedIsListed
  <2>. QED
    BY <2>2
    DEF Listed, RecordOf, PaymentOf, Initiate, store, queue, handler, history
<1>. QED
  BY <1>1, <1>2, <1>3, <1>4, <1>5, <1>6, <1>7, <1>8 DEF IInv

\* A block ages every swap, and no handler notices.
LEMMA MineBlockStep ==
    ASSUME IInv, MineBlock
    PROVE  IInv'
<1>1. TypeOK'
  BY BoundAssumption
  DEF IInv, TypeOK, MineBlock, store, queue, handler, history
<1>2. OneHandler'
  BY DEF IInv, OneHandler, MineBlock, queue, handler
<1>3. Dated'
  BY BoundAssumption DEF IInv, TypeOK, Dated, MineBlock, store, queue, handler
<1>4. Unsent'
  BY DEF IInv, Unsent, MineBlock, store, queue, handler
<1>5. InHand'
  BY DEF IInv, InHand, MineBlock, store, queue, handler
<1>6. Recorded'
  BY DEF IInv, Recorded, PaymentOf, MineBlock, store, queue, handler, history
<1>7. Ages'
  BY AgeAssumption DEF IInv, TypeOK, Ages, MineBlock, queue, handler
<1>8. RecordedIsListed'
  BY DEF IInv, RecordedIsListed, WasSettled, Settled, Listed, RecordOf, PaymentOf, MineBlock, store,
      queue, handler, history
<1>. QED
  BY <1>1, <1>2, <1>3, <1>4, <1>5, <1>6, <1>7, <1>8 DEF IInv

\* The contract pays the supplier: the swap is no longer open.
LEMMA FinalizeStep ==
    ASSUME IInv, NEW s \in Swaps, Finalize(s)
    PROVE  IInv'
<1>1. TypeOK'
  BY DEF IInv, TypeOK, Settled, Finalize, store, queue, handler, history
<1>2. OneHandler'
  BY DEF IInv, OneHandler, Finalize, queue, handler
<1>3. Dated'
  BY DEF IInv, Dated, Finalize, store, queue, handler
<1>4. Unsent'
  BY DEF IInv, Unsent, Finalize, store, queue, handler
<1>5. InHand'
  BY DEF IInv, InHand, Finalize, store, queue, handler
<1>6. Recorded'
  BY DEF IInv, Recorded, PaymentOf, Finalize, store, queue, handler, history
<1>7. Ages'
  BY DEF IInv, Ages, Finalize, queue, handler
<1>8. RecordedIsListed'
  BY BoundAssumption
  DEF IInv, RecordedIsListed, WasSettled, Settled, Listed, RecordOf, PaymentOf, Finalize, store,
      queue, handler, history, Payments
<1>. QED
  BY <1>1, <1>2, <1>3, <1>4, <1>5, <1>6, <1>7, <1>8 DEF IInv

\* The user takes the escrow back: the swap is past the expiry and no longer
\* open.
LEMMA RevokeStep ==
    ASSUME IInv, NEW s \in Swaps, Revoke(s)
    PROVE  IInv'
<1>1. TypeOK'
  BY DEF IInv, TypeOK, Settled, Revoke, store, queue, handler, history
<1>2. OneHandler'
  BY DEF IInv, OneHandler, Revoke, queue, handler
<1>3. Dated'
  BY DEF IInv, Dated, Revoke, store, queue, handler
<1>4. Unsent'
  BY DEF IInv, Unsent, Revoke, store, queue, handler
<1>5. InHand'
  BY DEF IInv, InHand, Revoke, store, queue, handler
<1>6. Recorded'
  BY DEF IInv, Recorded, PaymentOf, Revoke, store, queue, handler, history
<1>7. Ages'
  BY DEF IInv, Ages, Revoke, queue, handler
<1>8. RecordedIsListed'
  <2>. SUFFICES ASSUME NEW t \in Swaps, sentOutbound'[t] # NoTx, ~WasSettled(t)'
                PROVE  Listed(t)'
    BY DEF RecordedIsListed
  <2>1. sentOutbound[t] # NoTx /\ ~WasSettled(t)
    BY DEF IInv, TypeOK, WasSettled, Settled, Revoke, store, history
  <2>2. Listed(t)
    BY <2>1 DEF IInv, RecordedIsListed
  <2>. QED
    BY <2>2
    DEF Listed, RecordOf, PaymentOf, Revoke, store, queue, handler, history
<1>. QED
  BY <1>1, <1>2, <1>3, <1>4, <1>5, <1>6, <1>7, <1>8 DEF IInv

\* A fork puts a swap back where it was before: one it reopens has been
\* settled.
LEMMA UndoStep ==
    ASSUME IInv, NEW s \in Swaps, Undo(s)
    PROVE  IInv'
<1>1. TypeOK'
  BY BoundAssumption DEF IInv, TypeOK, Settled, Undo, store, queue, handler
<1>2. OneHandler'
  BY DEF IInv, OneHandler, Undo, queue, handler
<1>3. Dated'
  BY DEF IInv, Dated, Undo, store, queue, handler
<1>4. Unsent'
  BY DEF IInv, Unsent, Undo, store, queue, handler
<1>5. InHand'
  BY DEF IInv, InHand, Undo, store, queue, handler
<1>6. Recorded'
  BY DEF IInv, Recorded, PaymentOf, Undo, store, queue, handler
<1>7. Ages'
  BY DEF IInv, TypeOK, Settled, Ages, Undo, queue, handler
<1>8. RecordedIsListed'
  <2>. SUFFICES ASSUME NEW t \in Swaps, sentOutbound'[t] # NoTx, ~WasSettled(t)'
                PROVE  Listed(t)'
    BY DEF RecordedIsListed
  <2>1. sentOutbound[t] # NoTx /\ ~WasSettled(t)
    BY DEF IInv, TypeOK, WasSettled, Settled, Undo, store
  <2>2. Listed(t)
    BY <2>1 DEF IInv, RecordedIsListed
  <2>. QED
    BY <2>2
    DEF Listed, RecordOf, PaymentOf, Undo, store, queue, handler
<1>. QED
  BY <1>1, <1>2, <1>3, <1>4, <1>5, <1>6, <1>7, <1>8 DEF IInv

\* The finalizer drops a listing only of a settled swap.
LEMMA UnlistStep ==
    ASSUME IInv, NEW p \in pendingFinalized, Unlist(p)
    PROVE  IInv'
<1>1. TypeOK'
  BY DEF IInv, TypeOK, Unlist, chains, queue, handler, history
<1>2. OneHandler'
  BY DEF IInv, OneHandler, Unlist, queue, handler
<1>3. Dated'
  BY DEF IInv, Dated, Unlist, chains, queue, handler
<1>4. Unsent'
  BY DEF IInv, Unsent, Unlist, queue, handler
<1>5. InHand'
  BY DEF IInv, InHand, Unlist, queue, handler
<1>6. Recorded'
  BY DEF IInv, Recorded, PaymentOf, Unlist, chains, queue, handler, history
<1>7. Ages'
  BY DEF IInv, Ages, Unlist, chains, queue, handler
<1>8. RecordedIsListed'
  <2>. SUFFICES ASSUME NEW t \in Swaps, sentOutbound'[t] # NoTx, ~WasSettled(t)'
                PROVE  Listed(t)'
    BY DEF RecordedIsListed
  <2>1. sentOutbound[t] # NoTx /\ ~WasSettled(t)
    BY DEF WasSettled, Unlist, chains, history
  <2>2. Listed(t)
    BY <2>1 DEF IInv, RecordedIsListed
  <2>. QED
    BY <2>1, <2>2
    DEF Listed, RecordOf, PaymentOf, Unlist, queue, handler, history
<1>. QED
  BY <1>1, <1>2, <1>3, <1>4, <1>5, <1>6, <1>7, <1>8 DEF IInv

\* A new job is not active, so it has no handler.
LEMMA EventJobHandlerStep ==
    ASSUME IInv, NEW j \in Jobs, NEW s \in Swaps, EventJobHandler(j, s)
    PROVE  IInv'
<1>1. TypeOK'
  BY DEF IInv, TypeOK, JobStates, EventJobHandler, chains, store, handler, history
<1>2. OneHandler'
  BY DEF IInv, OneHandler, EventJobHandler, handler
<1>3. Dated'
  BY DEF IInv, TypeOK, Dated, OneHandler, EventJobHandler, chains, store, handler
<1>4. Unsent'
  BY DEF IInv, Unsent, OneHandler, EventJobHandler, store, handler
<1>5. InHand'
  BY DEF IInv, InHand, OneHandler, EventJobHandler, store, handler
<1>6. Recorded'
  BY DEF IInv, Recorded, OneHandler, PaymentOf, EventJobHandler, chains, store,
      handler, history
<1>7. Ages'
  BY DEF IInv, Ages, EventJobHandler, chains, handler
<1>8. RecordedIsListed'
  BY DEF IInv, TypeOK, RecordedIsListed, WasSettled, Settled, OneHandler, Listed, RecordOf, PaymentOf,
      EventJobHandler, chains, store, handler, history
<1>. QED
  BY <1>1, <1>2, <1>3, <1>4, <1>5, <1>6, <1>7, <1>8 DEF IInv

\* A job is taken only when none is active: its handler is the only one.
LEMMA StartJobStep ==
    ASSUME IInv, NEW j \in Jobs, StartJob(j)
    PROVE  IInv'
<1>1. TypeOK'
  BY DEF IInv, TypeOK, JobStates, Steps, StartJob, Suspend, chains, store, history
<1>2. OneHandler'
  BY DEF IInv, TypeOK, OneHandler, StartJob, Suspend, Idle
<1>3. Dated'
  BY DEF IInv, TypeOK, Dated, StartJob, Suspend, chains, store
<1>4. Unsent'
  BY DEF IInv, TypeOK, Unsent, OneHandler, StartJob, Suspend, Idle
<1>5. InHand'
  BY DEF IInv, TypeOK, InHand, OneHandler, StartJob, Suspend, Idle
<1>6. Recorded'
  BY DEF IInv, TypeOK, Recorded, OneHandler, PaymentOf, StartJob, Suspend, chains,
      store, history
<1>7. Ages'
  BY DEF IInv, TypeOK, Ages, StartJob, Suspend, chains
<1>8. RecordedIsListed'
  <2>. SUFFICES ASSUME NEW t \in Swaps, sentOutbound'[t] # NoTx, ~WasSettled(t)'
                PROVE  Listed(t)'
    BY DEF RecordedIsListed
  <2>1. sentOutbound[t] # NoTx /\ ~WasSettled(t)
    BY DEF WasSettled, StartJob, chains, store, history
  <2>2. Listed(t)
    BY <2>1 DEF IInv, RecordedIsListed
  <2>. QED
    BY <2>2
    DEF IInv, TypeOK, Listed, RecordOf, PaymentOf, OneHandler, StartJob,
        Suspend, store, history
<1>. QED
  BY <1>1, <1>2, <1>3, <1>4, <1>5, <1>6, <1>7, <1>8 DEF IInv

\* A failed job has no handler; putting it back disturbs nothing.
LEMMA RetryFailedStep ==
    ASSUME IInv, NEW j \in Jobs, RetryFailed(j)
    PROVE  IInv'
<1>1. TypeOK'
  BY DEF IInv, TypeOK, JobStates, RetryFailed, chains, store, handler, history
<1>2. OneHandler'
  BY DEF IInv, OneHandler, RetryFailed, handler
<1>3. Dated'
  BY DEF IInv, Dated, RetryFailed, chains, store, handler
<1>4. Unsent'
  BY DEF IInv, Unsent, RetryFailed, store, handler
<1>5. InHand'
  BY DEF IInv, InHand, RetryFailed, store, handler
<1>6. Recorded'
  BY DEF IInv, Recorded, PaymentOf, RetryFailed, chains, store, handler, history
<1>7. Ages'
  BY DEF IInv, Ages, RetryFailed, chains, handler
<1>8. RecordedIsListed'
  BY DEF IInv, RecordedIsListed, WasSettled, Settled, Listed, RecordOf, PaymentOf, RetryFailed, chains,
      store, handler, history
<1>. QED
  BY <1>1, <1>2, <1>3, <1>4, <1>5, <1>6, <1>7, <1>8 DEF IInv

\* Every handler is lost; what was in its hand goes to orphans or stranded.
LEMMA CrashStep ==
    ASSUME IInv, Crash
    PROVE  IInv'
<1>1. TypeOK'
  BY BoundAssumption
  DEF IInv, TypeOK, OneHandler, InHand, Payments, JobStates, Steps, MaxStalls,
      Crash, Leave, Abandon, Unrecorded, Unlisted, PaymentOf, chains,
      store
<1>2. OneHandler'
  BY DEF IInv, OneHandler, Crash, Leave
<1>3. Dated'
  BY DEF IInv, Dated, OneHandler, Crash, Leave, chains, store
<1>4. Unsent'
  BY DEF IInv, Unsent, OneHandler, Crash, Leave
<1>5. InHand'
  BY DEF IInv, InHand, OneHandler, Crash, Leave
<1>6. Recorded'
  BY DEF IInv, Recorded, OneHandler, Crash, Abandon, Unrecorded, chains, store
<1>7. Ages'
  BY DEF IInv, Ages, Crash, Leave, chains
<1>8. RecordedIsListed'
  <2>. SUFFICES ASSUME NEW t \in Swaps, sentOutbound'[t] # NoTx, ~WasSettled(t)'
                PROVE  Listed(t)'
    BY DEF RecordedIsListed
  <2>1. sentOutbound[t] # NoTx /\ ~WasSettled(t)
    BY DEF WasSettled, Crash, Abandon, chains, store
  <2>2. Listed(t)
    BY <2>1 DEF IInv, RecordedIsListed
  <2>. QED
    BY <2>2
    DEF IInv, Listed, RecordOf, OneHandler, Crash, Abandon, Unlisted, store
<1>. QED
  BY <1>1, <1>2, <1>3, <1>4, <1>5, <1>6, <1>7, <1>8 DEF IInv

\* The handler reads the event: the swap is an own one, and dated by what the
\* chain says now.
LEMMA DeserializeJobStep ==
    ASSUME IInv, NEW j \in Jobs, DeserializeJob(j)
    PROVE  IInv'
<1>1. TypeOK'
  BY BoundAssumption
  DEF IInv, TypeOK, JobStates, Steps, DeserializeJob, Suspend, Return, Leave, chains,
      store, history
<1>2. OneHandler'
  BY DEF IInv, TypeOK, OneHandler, DeserializeJob, Suspend, Return, Leave
<1>3. Dated'
  BY DEF IInv, TypeOK, Dated, DeserializeJob, Suspend, Return, Leave, chains
<1>4. Unsent'
  BY DEF IInv, TypeOK, Unsent, DeserializeJob, Suspend, Return, Leave, store
<1>5. InHand'
  BY DEF IInv, TypeOK, InHand, DeserializeJob, Suspend, Return, Leave, store
<1>6. Recorded'
  BY DEF IInv, Recorded, OneHandler, DeserializeJob, chains, store, history
<1>7. Ages'
  BY DEF IInv, TypeOK, Ages, DeserializeJob, Suspend, Return, Leave, chains
<1>8. RecordedIsListed'
  BY DEF IInv, RecordedIsListed, WasSettled, Settled, OneHandler, Listed, RecordOf,
      DeserializeJob, chains, store, history
<1>. QED
  BY <1>1, <1>2, <1>3, <1>4, <1>5, <1>6, <1>7, <1>8 DEF IInv

\* The handler reads the record; no other handler can change it meanwhile.
LEMMA GetSentOutboundStep ==
    ASSUME IInv, NEW j \in Jobs, GetSentOutbound(j)
    PROVE  IInv'
<1>1. TypeOK'
  BY DEF IInv, TypeOK, Steps, GetSentOutbound, Suspend, chains, store, queue,
      history
<1>2. OneHandler'
  BY DEF IInv, OneHandler, GetSentOutbound, Suspend, queue
<1>3. Dated'
  BY DEF IInv, TypeOK, Dated, GetSentOutbound, Suspend, chains, store, queue
<1>4. Unsent'
  BY DEF IInv, TypeOK, Unsent, GetSentOutbound, Suspend, store, queue
<1>5. InHand'
  BY DEF IInv, InHand, OneHandler, GetSentOutbound, Suspend
<1>6. Recorded'
  BY DEF IInv, Recorded, OneHandler, GetSentOutbound, chains, store, history
<1>7. Ages'
  BY DEF IInv, Ages, OneHandler, GetSentOutbound, Suspend, chains
<1>8. RecordedIsListed'
  BY DEF IInv, RecordedIsListed, WasSettled, Settled, OneHandler, Listed, RecordOf, GetSentOutbound,
      chains, store, history
<1>. QED
  BY <1>1, <1>2, <1>3, <1>4, <1>5, <1>6, <1>7, <1>8 DEF IInv

\* Past this check there is no record of the swap.
LEMMA GetOutboundFinalizedTxidStep ==
    ASSUME IInv, NEW j \in Jobs, GetOutboundFinalizedTxid(j)
    PROVE  IInv'
<1>1. TypeOK'
  BY BoundAssumption
  DEF IInv, TypeOK, JobStates, Steps, GetOutboundFinalizedTxid, Suspend,
      Return, Leave, chains, store, history
<1>2. OneHandler'
  BY DEF IInv, TypeOK, OneHandler, GetOutboundFinalizedTxid, Suspend, Return,
      Leave
<1>3. Dated'
  BY DEF IInv, TypeOK, Dated, GetOutboundFinalizedTxid, Suspend, Return, Leave,
      chains, store
<1>4. Unsent'
  BY DEF IInv, TypeOK, Unsent, GetOutboundFinalizedTxid, AlreadySent, Suspend,
      Return, Leave, store
<1>5. InHand'
  BY DEF IInv, TypeOK, InHand, OneHandler, GetOutboundFinalizedTxid, Suspend,
      Return, Leave
<1>6. Recorded'
  BY DEF IInv, Recorded, OneHandler, GetOutboundFinalizedTxid, chains, store,
      history
<1>7. Ages'
  BY DEF IInv, TypeOK, Ages, GetOutboundFinalizedTxid, Suspend, Return, Leave,
      chains
<1>8. RecordedIsListed'
  BY DEF IInv, RecordedIsListed, WasSettled, Settled, OneHandler, Listed, RecordOf,
      GetOutboundFinalizedTxid, chains, store, history
<1>. QED
  BY <1>1, <1>2, <1>3, <1>4, <1>5, <1>6, <1>7, <1>8 DEF IInv

\* Past this check the swap is younger than the cutoff.
LEMMA FetchCoreInfoStep ==
    ASSUME IInv, NEW j \in Jobs, FetchCoreInfo(j)
    PROVE  IInv'
<1>1. TypeOK'
  BY BoundAssumption
  DEF IInv, TypeOK, JobStates, Steps, FetchCoreInfo, Suspend, Return, Leave,
      chains, store, history
<1>2. OneHandler'
  BY DEF IInv, TypeOK, OneHandler, FetchCoreInfo, Suspend, Return, Leave
<1>3. Dated'
  BY DEF IInv, TypeOK, Dated, FetchCoreInfo, Suspend, Return, Leave, chains, store
<1>4. Unsent'
  BY DEF IInv, TypeOK, Unsent, FetchCoreInfo, Suspend, Return, Leave, store
<1>5. InHand'
  BY DEF IInv, TypeOK, InHand, OneHandler, FetchCoreInfo, Suspend, Return, Leave
<1>6. Recorded'
  BY DEF IInv, Recorded, OneHandler, FetchCoreInfo, chains, store, history
<1>7. Ages'
  BY AgeAssumption
  DEF IInv, TypeOK, Ages, FetchCoreInfo, AboutToExpire, Suspend, Return, Leave,
      chains
<1>8. RecordedIsListed'
  BY DEF IInv, RecordedIsListed, WasSettled, Settled, OneHandler, Listed, RecordOf, FetchCoreInfo,
      chains, store, history
<1>. QED
  BY <1>1, <1>2, <1>3, <1>4, <1>5, <1>6, <1>7, <1>8 DEF IInv

\* The new payment is in the hand of the handler that made it.
LEMMA BroadcastStep ==
    ASSUME IInv, NEW j \in Jobs, Broadcast(j)
    PROVE  IInv'
<1>1. TypeOK'
  BY DEF IInv, TypeOK, OneHandler, Payments, Steps, Broadcast, Suspend, store,
      queue, history
<1>2. OneHandler'
  BY DEF IInv, OneHandler, Broadcast, Suspend, queue
<1>3. Dated'
  BY DEF IInv, TypeOK, Dated, Broadcast, Suspend, store, queue
<1>4. Unsent'
  BY DEF IInv, Unsent, Broadcast, Suspend, store, queue
<1>5. InHand'
  BY DEF IInv, TypeOK, InHand, OneHandler, Broadcast, Suspend
<1>6. Recorded'
  BY DEF IInv, TypeOK, Recorded, PaymentOf, Broadcast, Suspend, store, queue,
      history
<1>7. Ages'
  BY DEF IInv, TypeOK, Ages, OneHandler, Broadcast, Suspend
<1>8. RecordedIsListed'
  BY DEF IInv, RecordedIsListed, WasSettled, Settled, OneHandler, Listed, RecordOf, Broadcast, store,
      history
<1>. QED
  BY <1>1, <1>2, <1>3, <1>4, <1>5, <1>6, <1>7, <1>8 DEF IInv

\* Nothing was paid; the handler holds a txid nonetheless.
LEMMA BroadcastRejectedStep ==
    ASSUME IInv, NEW j \in Jobs, BroadcastRejected(j)
    PROVE  IInv'
<1>1. TypeOK'
  BY DEF IInv, TypeOK, Steps, BroadcastRejected, Suspend, chains, store, queue,
      history
<1>2. OneHandler'
  BY DEF IInv, OneHandler, BroadcastRejected, Suspend, queue
<1>3. Dated'
  BY DEF IInv, TypeOK, Dated, BroadcastRejected, Suspend, chains, store, queue
<1>4. Unsent'
  BY DEF IInv, Unsent, BroadcastRejected, Suspend, store, queue
<1>5. InHand'
  BY DEF IInv, TypeOK, InHand, OneHandler, BroadcastRejected, Suspend
<1>6. Recorded'
  BY DEF IInv, Recorded, OneHandler, BroadcastRejected, chains, store, history
<1>7. Ages'
  BY DEF IInv, TypeOK, Ages, OneHandler, BroadcastRejected, Suspend, chains
<1>8. RecordedIsListed'
  BY DEF IInv, RecordedIsListed, WasSettled, Settled, OneHandler, Listed, RecordOf, BroadcastRejected,
      chains, store, history
<1>. QED
  BY <1>1, <1>2, <1>3, <1>4, <1>5, <1>6, <1>7, <1>8 DEF IInv

\* The payment made is an orphan from the start.
LEMMA BroadcastUnacknowledgedStep ==
    ASSUME IInv, NEW j \in Jobs, BroadcastUnacknowledged(j)
    PROVE  IInv'
<1>1. TypeOK'
  BY BoundAssumption
  DEF IInv, TypeOK, OneHandler, Payments, JobStates, Steps,
      BroadcastUnacknowledged, Return, Leave, store
<1>2. OneHandler'
  BY DEF IInv, TypeOK, OneHandler, BroadcastUnacknowledged, Return, Leave
<1>3. Dated'
  BY DEF IInv, TypeOK, Dated, BroadcastUnacknowledged, Return, Leave, store
<1>4. Unsent'
  BY DEF IInv, Unsent, OneHandler, BroadcastUnacknowledged, Return, Leave
<1>5. InHand'
  BY DEF IInv, InHand, OneHandler, BroadcastUnacknowledged, Return, Leave
<1>6. Recorded'
  BY DEF IInv, Recorded, OneHandler, BroadcastUnacknowledged, store
<1>7. Ages'
  BY DEF IInv, Ages, BroadcastUnacknowledged, Return, Leave
<1>8. RecordedIsListed'
  BY DEF IInv, RecordedIsListed, WasSettled, Settled, OneHandler, Listed, RecordOf,
      BroadcastUnacknowledged, store
<1>. QED
  BY <1>1, <1>2, <1>3, <1>4, <1>5, <1>6, <1>7, <1>8 DEF IInv

\* The payment in hand becomes the record; the swap had none before.
LEMMA SetSentOutboundStep ==
    ASSUME IInv, NEW j \in Jobs, SetSentOutbound(j)
    PROVE  IInv'
<1>1. TypeOK'
  BY DEF IInv, TypeOK, Steps, SetSentOutbound, Suspend, chains, queue, history
<1>2. OneHandler'
  BY DEF IInv, OneHandler, SetSentOutbound, Suspend, queue
<1>3. Dated'
  BY DEF IInv, TypeOK, Dated, SetSentOutbound, Suspend, chains, queue
<1>4. Unsent'
  BY DEF IInv, TypeOK, Unsent, OneHandler, SetSentOutbound, Suspend
<1>5. InHand'
  BY DEF IInv, TypeOK, InHand, OneHandler, SetSentOutbound, Suspend, queue
<1>6. Recorded'
  BY NoTxAssumption
  DEF IInv, TypeOK, Recorded, OneHandler, Unsent, PaymentOf, SetSentOutbound,
      chains, history, Payments
<1>7. Ages'
  BY DEF IInv, Ages, OneHandler, SetSentOutbound, Suspend, chains
<1>8. RecordedIsListed'
  <2>. SUFFICES ASSUME NEW t \in Swaps, sentOutbound'[t] # NoTx, ~WasSettled(t)'
                PROVE  Listed(t)'
    BY DEF RecordedIsListed
  <2>1. ~WasSettled(t)
    BY DEF WasSettled, SetSentOutbound, chains, history
  <2>2. CASE t = jobSwap[j]
    BY <2>2
    DEF IInv, TypeOK, Listed, RecordOf, PaymentOf, SetSentOutbound, Suspend, queue
  <2>3. CASE t # jobSwap[j]
    <3>1. Listed(t)
      BY <2>1, <2>3 DEF IInv, TypeOK, RecordedIsListed, SetSentOutbound
    <3>. QED
      BY <2>3, <3>1
      DEF IInv, TypeOK, Listed, RecordOf, PaymentOf, SetSentOutbound, Suspend,
          queue, history
  <2>. QED
    BY <2>2, <2>3
<1>. QED
  BY <1>1, <1>2, <1>3, <1>4, <1>5, <1>6, <1>7, <1>8 DEF IInv

\* The record in hand is listed.
LEMMA SetPendingFinalizedOutboundStep ==
    ASSUME IInv, NEW j \in Jobs, SetPendingFinalizedOutbound(j)
    PROVE  IInv'
<1>1. TypeOK'
  BY BoundAssumption
  DEF IInv, TypeOK, OneHandler, InHand, Payments, JobStates, Steps,
      SetPendingFinalizedOutbound, Listing, Return, Leave, PaymentOf, chains,
      history
<1>2. OneHandler'
  BY DEF IInv, TypeOK, OneHandler, SetPendingFinalizedOutbound, Return, Leave
<1>3. Dated'
  BY DEF IInv, TypeOK, Dated, SetPendingFinalizedOutbound, Return, Leave, chains
<1>4. Unsent'
  BY DEF IInv, Unsent, SetPendingFinalizedOutbound, Return, Leave
<1>5. InHand'
  BY DEF IInv, InHand, SetPendingFinalizedOutbound, Return, Leave
<1>6. Recorded'
  BY DEF IInv, Recorded, OneHandler, SetPendingFinalizedOutbound, chains, history
<1>7. Ages'
  BY DEF IInv, Ages, SetPendingFinalizedOutbound, Return, Leave, chains
<1>8. RecordedIsListed'
  BY DEF IInv, RecordedIsListed, WasSettled, Settled, OneHandler, Listed, RecordOf,
      SetPendingFinalizedOutbound, Listing, chains, history
<1>. QED
  BY <1>1, <1>2, <1>3, <1>4, <1>5, <1>6, <1>7, <1>8 DEF IInv

\* The handler ends where it is; what was in its hand goes to orphans or
\* stranded.
LEMMA ThrowStep ==
    ASSUME IInv, NEW j \in Jobs, Throw(j)
    PROVE  IInv'
<1>1. TypeOK'
  BY BoundAssumption
  DEF IInv, TypeOK, OneHandler, InHand, Payments, JobStates, Steps, Throw,
      Return, Leave, Abandon, Unrecorded, Unlisted, PaymentOf, chains,
      store
<1>2. OneHandler'
  BY DEF IInv, TypeOK, OneHandler, Throw, Return, Leave
<1>3. Dated'
  BY DEF IInv, TypeOK, Dated, Throw, Return, Leave, chains, store
<1>4. Unsent'
  BY DEF IInv, Unsent, OneHandler, Throw, Return, Leave
<1>5. InHand'
  BY DEF IInv, InHand, OneHandler, Throw, Return, Leave
<1>6. Recorded'
  BY DEF IInv, Recorded, OneHandler, Throw, Abandon, Unrecorded, chains, store
<1>7. Ages'
  BY DEF IInv, Ages, Throw, Return, Leave, chains
<1>8. RecordedIsListed'
  BY DEF IInv, RecordedIsListed, WasSettled, Settled, OneHandler, Listed, RecordOf, Throw, Abandon,
      Unlisted, chains, store
<1>. QED
  BY <1>1, <1>2, <1>3, <1>4, <1>5, <1>6, <1>7, <1>8 DEF IInv

\* At the start there are no jobs, records or payments.
LEMMA InitIInv == Init => IInv
<1>. SUFFICES ASSUME Init PROVE IInv
  OBVIOUS
<1>1. TypeOK
  BY BoundAssumption DEF Init, TypeOK, JobStates, Steps, MaxStalls
<1>2. OneHandler /\ Dated /\ Unsent /\ InHand /\ Recorded
  BY DEF Init, OneHandler, Dated, Unsent, InHand, Recorded
<1>3. Ages /\ RecordedIsListed
  BY DEF Init, Ages, RecordedIsListed
<1>. QED
  BY <1>1, <1>2, <1>3 DEF IInv

\* A step of the handler of job j preserves the invariant, whichever await it
\* resumes from.
LEMMA HandleStep ==
    ASSUME IInv, NEW j \in Jobs, Handle(j)
    PROVE  IInv'
BY DeserializeJobStep, GetSentOutboundStep, GetOutboundFinalizedTxidStep,
   FetchCoreInfoStep, BroadcastStep, BroadcastRejectedStep, BroadcastUnacknowledgedStep,
   SetSentOutboundStep, SetPendingFinalizedOutboundStep, ThrowStep
   DEF Handle

\* A stuttering step changes none of the variables IInv speaks of.
LEMMA StutterStep ==
    ASSUME IInv, UNCHANGED vars
    PROVE  IInv'
<1>1. TypeOK' /\ OneHandler' /\ Dated' /\ Unsent' /\ InHand'
  BY DEF IInv, TypeOK, OneHandler, Dated, Unsent, InHand, vars, chains,
      store, queue, handler, history
<1>2. Recorded' /\ Ages' /\ RecordedIsListed'
  BY DEF IInv, Recorded, Ages, RecordedIsListed, WasSettled, Listed, RecordOf,
      PaymentOf, vars, chains, store, queue, handler, history
<1>. QED
  BY <1>1, <1>2 DEF IInv

\* IInv is inductive: one case per action of Next.
LEMMA NextIInv == IInv /\ [Next]_vars => IInv'
<1>. SUFFICES ASSUME IInv, [Next]_vars PROVE IInv'
  OBVIOUS
<1>1. CASE \E s \in Swaps : Initiate(s) \/ Finalize(s) \/ Revoke(s) \/ Undo(s)
  BY <1>1, InitiateStep, FinalizeStep, RevokeStep, UndoStep
<1>2. CASE \E p \in pendingFinalized : Unlist(p)
  BY <1>2, UnlistStep
<1>3. CASE MineBlock
  BY <1>3, MineBlockStep
<1>4. CASE \E j \in Jobs, s \in Swaps : EventJobHandler(j, s)
  BY <1>4, EventJobHandlerStep
<1>5. CASE \E j \in Jobs : StartJob(j) \/ RetryFailed(j) \/ Handle(j)
  BY <1>5, StartJobStep, RetryFailedStep, HandleStep
<1>6. CASE Crash
  BY <1>6, CrashStep
<1>7. CASE UNCHANGED vars
  BY <1>7, StutterStep
<1>. QED
  BY <1>1, <1>2, <1>3, <1>4, <1>5, <1>6, <1>7 DEF Next

\* IInv holds in every reachable state.
LEMMA Invariance == Spec => []IInv
BY InitIInv, NextIInv, PTL DEF Spec

-----------------------------------------------------------------------------
(* The theorems.                                                           *)

\* Every variable stays within its type, whatever the swaps, jobs and txids.
THEOREM TypeCorrect == Spec => []TypeOK
<1>1. IInv => TypeOK
  BY DEF IInv
<1>. QED
  BY <1>1, Invariance, PTL

\* Of two payments of one swap that are both on record or in hand, neither
\* lost, there is only one: the record is a function of the swap, one handler
\* runs at a time, and a handler that holds a payment found no record.
LEMMA IInvPaidOnce == IInv => PaidOnce
<1>. SUFFICES ASSUME IInv, NEW p \in payments \ orphans, NEW q \in payments \ orphans,
                     p.swap = q.swap
              PROVE  p = q
  BY DEF PaidOnce
<1>1. p \in Payments /\ q \in Payments
  BY DEF IInv, TypeOK
<1>2. p.txid = q.txid
  <2>1. CASE sentOutbound[p.swap] = p.txid /\ sentOutbound[q.swap] = q.txid
    BY <2>1
  <2>2. ASSUME NEW j \in Jobs, step[j] = "setSent", PaymentOf(j) = p
        PROVE  p.txid = q.txid
    <3>1. sentOutbound[q.swap] = NoTx
      BY <2>2 DEF IInv, Unsent, PaymentOf
    <3>2. sentOutbound[q.swap] # q.txid
      BY <1>1, <3>1, NoTxAssumption DEF Payments
    <3>3. PICK k \in Jobs : step[k] = "setSent" /\ PaymentOf(k) = q
      BY <3>2 DEF IInv, Recorded
    <3>. QED
      BY <2>2, <3>3 DEF IInv, OneHandler
  <2>3. ASSUME NEW j \in Jobs, step[j] = "setSent", PaymentOf(j) = q
        PROVE  p.txid = q.txid
    <3>1. sentOutbound[p.swap] = NoTx
      BY <2>3 DEF IInv, Unsent, PaymentOf
    <3>2. sentOutbound[p.swap] # p.txid
      BY <1>1, <3>1, NoTxAssumption DEF Payments
    <3>3. PICK k \in Jobs : step[k] = "setSent" /\ PaymentOf(k) = p
      BY <3>2 DEF IInv, Recorded
    <3>. QED
      BY <2>3, <3>3 DEF IInv, OneHandler
  <2>. QED
    BY <2>1, <2>2, <2>3 DEF IInv, Recorded
<1>. QED
  BY <1>1, <1>2 DEF Payments

\* No swap is paid twice by a supplier that never loses the record of a
\* payment, however often its job is delivered, retried or found stalled.
THEOREM PaymentsOnce == Spec => []PaidOnce
BY IInvPaidOnce, Invariance, PTL

\* The record of an open swap is always on its way to the finalizer, unless a
\* fault hit between the two writes.
THEOREM RecordsAreListed == Spec => []RecordedIsListed
<1>1. IInv => RecordedIsListed
  BY DEF IInv
<1>. QED
  BY <1>1, Invariance, PTL

\* A step that adds a payment or changes a record is one of a handler that
\* found no record of its swap.
LEMMA StepSentIsFinal ==
    ASSUME IInv, [Next]_vars, NEW s \in Swaps, sentOutbound[s] # NoTx
    PROVE  /\ sentOutbound'[s] = sentOutbound[s]
           /\ \A p \in payments' : p.swap = s => p \in payments
<1>1. CASE \E u \in Swaps : Initiate(u) \/ Finalize(u) \/ Revoke(u) \/ Undo(u)
  BY <1>1 DEF Initiate, Finalize, Revoke, Undo, store
<1>2. CASE \E p \in pendingFinalized : Unlist(p)
  BY <1>2 DEF Unlist, chains
<1>3. CASE MineBlock
  BY <1>3 DEF MineBlock, store
<1>4. CASE \E j \in Jobs, u \in Swaps : EventJobHandler(j, u)
  BY <1>4 DEF EventJobHandler, chains, store
<1>5. CASE \E j \in Jobs : StartJob(j) \/ RetryFailed(j)
  BY <1>5 DEF StartJob, RetryFailed, chains, store
<1>6. ASSUME NEW j \in Jobs, Handle(j)
      PROVE  /\ sentOutbound'[s] = sentOutbound[s]
             /\ \A p \in payments' : p.swap = s => p \in payments
  <2>1. CASE Broadcast(j) \/ BroadcastUnacknowledged(j)
    <3>1. step[j] = "send"
      BY <2>1 DEF Broadcast, BroadcastUnacknowledged
    <3>2. jobSwap[j] # s
      BY <3>1 DEF IInv, Unsent
    <3>. QED
      BY <2>1, <3>2 DEF Broadcast, BroadcastUnacknowledged, store
  <2>2. CASE SetSentOutbound(j)
    <3>1. jobSwap[j] # s
      BY <2>2 DEF SetSentOutbound, IInv, Unsent
    <3>. QED
      BY <2>2, <3>1 DEF SetSentOutbound, IInv, TypeOK, chains
  <2>3. CASE DeserializeJob(j) \/ GetSentOutbound(j) \/ GetOutboundFinalizedTxid(j)
             \/ FetchCoreInfo(j)
    BY <2>3 DEF DeserializeJob, GetSentOutbound, GetOutboundFinalizedTxid, FetchCoreInfo,
        chains, store
  <2>4. CASE BroadcastRejected(j) \/ SetPendingFinalizedOutbound(j) \/ Throw(j)
    BY <2>4 DEF BroadcastRejected, SetPendingFinalizedOutbound, Throw, chains,
        store
  <2>. QED
    BY <1>6, <2>1, <2>2, <2>3, <2>4 DEF Handle
<1>7. CASE Crash
  BY <1>7 DEF Crash, chains, store
<1>8. CASE UNCHANGED vars
  BY <1>8 DEF vars, chains, store
<1>. QED
  BY <1>1, <1>2, <1>3, <1>4, <1>5, <1>6, <1>7, <1>8 DEF Next

\* The record of a sent swap is never replaced, and it is never paid again.
THEOREM RecordsAreFinal == Spec => SentIsFinal
<1>1. IInv /\ [Next]_vars =>
          [\A s \in Swaps : sentOutbound[s] # NoTx =>
              /\ sentOutbound'[s] = sentOutbound[s]
              /\ \A p \in payments' : p.swap = s => p \in payments]_vars
  BY StepSentIsFinal
<1>. QED
  BY <1>1, Invariance, PTL DEF Spec, SentIsFinal

\* Only the two broadcasts pay, and only from "send": at the block the handler
\* saw, the swap was younger than the cutoff, and a revoked swap is past the
\* expiry, however often a fork made it younger in between.
LEMMA StepRevokedPaidOnlyLate ==
    ASSUME IInv, [Next]_vars, NEW p \in payments' \ payments, contract[p.swap] = "revoked"
    PROVE  \E j \in Jobs : jobSwap[j] = p.swap /\ HeldUp(j)
<1>1. PICK j \in Jobs : Broadcast(j) \/ BroadcastUnacknowledged(j)
  BY DEF Next, Handle, Initiate, Finalize, Revoke, Undo, Unlist, MineBlock,
      EventJobHandler, StartJob, RetryFailed, Crash, DeserializeJob, GetSentOutbound,
      GetOutboundFinalizedTxid, FetchCoreInfo, BroadcastRejected,
      SetSentOutbound, SetPendingFinalizedOutbound, Throw, vars, chains
<1>2. step[j] = "send" /\ p.swap = jobSwap[j]
  BY <1>1 DEF Broadcast, BroadcastUnacknowledged
<1>3. /\ currentBlock[j] \in Int /\ height \in Int
      /\ createdAt[jobSwap[j]] \in Int /\ eventCreatedAt[j] \in Int
      /\ jobSwap[j] \in Swaps
  BY BoundAssumption DEF IInv, TypeOK
<1>4. height - createdAt[jobSwap[j]] >= Expiry
  BY <1>2, <1>3 DEF IInv, Ages
<1>5. currentBlock[j] - eventCreatedAt[j] < SendCutoff
      /\ eventCreatedAt[j] <= createdAt[jobSwap[j]]
  BY <1>2 DEF IInv, Ages, Dated
<1>. QED
  BY <1>2, <1>3, <1>4, <1>5, AgeAssumption DEF HeldUp

\* A swap whose escrow the user has taken back is paid only where the handler
\* took more blocks to pay than the cutoff leaves to the expiry.
THEOREM RevokedArePaidOnlyLate == Spec => RevokedPaidOnlyLate
<1>1. IInv /\ [Next]_vars =>
          [\A p \in payments' \ payments : contract[p.swap] = "revoked" =>
              \E j \in Jobs : jobSwap[j] = p.swap /\ HeldUp(j)]_vars
  BY StepRevokedPaidOnlyLate
<1>. QED
  BY <1>1, Invariance, PTL DEF Spec, RevokedPaidOnlyLate

-----------------------------------------------------------------------------
(***************************************************************************)
(* The worker implements OutboundSwap.  A payment is followed from the     *)
(* moment it is listed; HandedOver says that what is followed never comes  *)
(* back into the hand of a handler, so that a listing is always the first. *)
(***************************************************************************)

\* A payment the worker is done with: it is the record of its swap, and no
\* handler is about to list another one.
Done(p) ==
    /\ sentOutbound[p.swap] = p.txid
    /\ \A j \in Jobs : step[j] = "setPending" => jobSwap[j] # p.swap

\* Listed and stranded payments are done with, and none is both.
HandedOver ==
    /\ \A p \in pendingFinalized \cup stranded : Done(p)
    /\ pendingFinalized \cap stranded = {}

-----------------------------------------------------------------------------
(* HandedOver is inductive relative to IInv.                               *)

\* A payment that is done with stays so through the steps of any handler:
\* its swap has a record, so no handler is past the check for one.
LEMMA HandleKeepsDone ==
    ASSUME IInv, NEW j \in Jobs, Handle(j), NEW p \in Payments, Done(p)
    PROVE  Done(p)'
<1>1. sentOutbound[p.swap] # NoTx
  BY NoTxAssumption DEF Done, Payments
<1>2. CASE SetSentOutbound(j)
  <2>1. jobSwap[j] # p.swap
    BY <1>1, <1>2 DEF IInv, Unsent, SetSentOutbound
  <2>. QED
    BY <1>2, <2>1 DEF IInv, TypeOK, Done, Payments, SetSentOutbound, Suspend, queue
<1>3. CASE GetSentOutbound(j) \/ Broadcast(j) \/ BroadcastRejected(j)
  BY <1>3 DEF IInv, TypeOK, Done, GetSentOutbound, Broadcast, BroadcastRejected,
      Suspend, store, queue
<1>4. CASE DeserializeJob(j) \/ GetOutboundFinalizedTxid(j) \/ FetchCoreInfo(j)
  BY <1>4 DEF IInv, TypeOK, Done, DeserializeJob, GetOutboundFinalizedTxid, FetchCoreInfo,
      Suspend, Return, Leave, store
<1>5. CASE BroadcastUnacknowledged(j) \/ SetPendingFinalizedOutbound(j) \/ Throw(j)
  BY <1>5 DEF IInv, TypeOK, Done, BroadcastUnacknowledged,
      SetPendingFinalizedOutbound, Throw, Return, Leave, store
<1>. QED
  BY <1>2, <1>3, <1>4, <1>5 DEF Handle

\* The payment of a handler about to list it is neither listed nor stranded.
LEMMA InHandIsNew ==
    ASSUME IInv, HandedOver, NEW j \in Jobs, step[j] = "setPending"
    PROVE  /\ PaymentOf(j) \in Payments
           /\ sentOutbound[jobSwap[j]] = sentTxid[j]
           /\ \A p \in pendingFinalized \cup stranded : p.swap # jobSwap[j]
<1>1. jobSwap[j] \in OwnSwaps /\ sentTxid[j] \in Txids /\ sentOutbound[jobSwap[j]] = sentTxid[j]
  BY DEF IInv, OneHandler, InHand
<1>2. PaymentOf(j) \in Payments
  BY <1>1 DEF PaymentOf, Payments
<1>. QED
  BY <1>1, <1>2 DEF HandedOver, Done

\* Where handlers end, whatever one was about to list is stranded, and done
\* with: no other handler runs.
LEMMA AbandonKeepsHandedOver ==
    ASSUME IInv, HandedOver, NEW J \in SUBSET Jobs, Leave(J), Abandon(J),
           \A j \in Jobs : step[j] # "idle" => j \in J,
           UNCHANGED <<store, jobSwap>>
    PROVE  HandedOver'
<1>1. \A j \in Jobs : step'[j] # "setPending"
  BY DEF Leave
<1>2. \A p \in pendingFinalized \cup stranded : sentOutbound[p.swap] = p.txid
  BY DEF HandedOver, Done
<1>3. \A p \in Unlisted(J) : sentOutbound[p.swap] = p.txid /\ p \notin pendingFinalized
  <2>. SUFFICES ASSUME NEW j \in J, step[j] = "setPending"
                PROVE  /\ sentOutbound[PaymentOf(j).swap] = PaymentOf(j).txid
                       /\ PaymentOf(j) \notin pendingFinalized
    BY DEF Unlisted
  <2>. QED
    BY InHandIsNew DEF PaymentOf
<1>4. pendingFinalized' \cap stranded' = {}
  BY <1>3 DEF HandedOver, Abandon, store
<1>5. \A p \in pendingFinalized' \cup stranded' : sentOutbound'[p.swap] = p.txid
  BY <1>2, <1>3 DEF Abandon, store
<1>. QED
  BY <1>1, <1>4, <1>5 DEF HandedOver, Done

\* Nothing is followed at the start.
LEMMA InitHandedOver == Init => HandedOver
BY DEF Init, HandedOver

\* A step of the chains or of the queue makes no payment of a handler listed
\* or stranded, and lets no handler get as far as a listing.
LEMMA NextHandedOver == IInv /\ HandedOver /\ [Next]_vars => HandedOver'
<1>. SUFFICES ASSUME IInv, HandedOver, [Next]_vars PROVE HandedOver'
  OBVIOUS
<1>. USE DEF HandedOver, Done
<1>1. CASE \E s \in Swaps : Initiate(s) \/ Finalize(s) \/ Revoke(s) \/ Undo(s)
  BY <1>1 DEF Initiate, Finalize, Revoke, Undo, store, queue, handler, history
<1>2. CASE \E p \in pendingFinalized : Unlist(p)
  BY <1>2 DEF Unlist, queue, handler, history
<1>3. CASE MineBlock
  BY <1>3 DEF MineBlock, store, queue, handler, history
<1>4. CASE \E j \in Jobs, s \in Swaps : EventJobHandler(j, s)
  BY <1>4 DEF IInv, TypeOK, OneHandler, EventJobHandler, store, handler, history
<1>5. CASE \E j \in Jobs : StartJob(j) \/ RetryFailed(j)
  BY <1>5 DEF IInv, TypeOK, StartJob, RetryFailed, Suspend, store, handler, history
<1>6. ASSUME NEW j \in Jobs, Handle(j) PROVE HandedOver'
  <2>1. \A p \in pendingFinalized \cup stranded : Done(p)'
    BY <1>6, HandleKeepsDone DEF IInv, TypeOK
  <2>2. CASE SetPendingFinalizedOutbound(j)
    <3>1. PICK p : p = PaymentOf(j)
      OBVIOUS
    <3>2. step[j] = "setPending" /\ pendingFinalized' = pendingFinalized \cup {p}
      BY <2>2, <3>1 DEF SetPendingFinalizedOutbound, Listing
    <3>3. sentOutbound[p.swap] = p.txid /\ p \notin stranded
      BY <3>1, <3>2, InHandIsNew DEF PaymentOf
    <3>4. \A k \in Jobs : step'[k] # "setPending"
      BY <2>2 DEF IInv, OneHandler, SetPendingFinalizedOutbound, Return, Leave
    <3>. QED
      BY <2>1, <2>2, <3>2, <3>3, <3>4 DEF SetPendingFinalizedOutbound, history
  <2>3. CASE Throw(j)
    <3>1. Leave({j}) /\ Abandon({j}) /\ UNCHANGED <<store, jobSwap>>
      BY <2>3 DEF Throw, Return
    <3>2. \A k \in Jobs : step[k] # "idle" => k \in {j}
      BY <2>3 DEF IInv, OneHandler, Throw
    <3>. QED
      BY <3>1, <3>2, AbandonKeepsHandedOver
  <2>4. CASE \/ DeserializeJob(j) \/ GetSentOutbound(j) \/ GetOutboundFinalizedTxid(j)
             \/ FetchCoreInfo(j) \/ Broadcast(j) \/ BroadcastRejected(j) \/ BroadcastUnacknowledged(j)
             \/ SetSentOutbound(j)
    <3>1. UNCHANGED <<pendingFinalized, stranded>>
      BY <2>4 DEF DeserializeJob, GetSentOutbound, GetOutboundFinalizedTxid, FetchCoreInfo,
          Broadcast, BroadcastRejected, BroadcastUnacknowledged, SetSentOutbound, store, history
    <3>. QED
      BY <2>1, <3>1
  <2>. QED
    BY <1>6, <2>2, <2>3, <2>4 DEF Handle
<1>7. CASE Crash
  <2>. DEFINE active == {j \in Jobs : jobState[j] = "active"}
  <2>1. Leave(active) /\ Abandon(active) /\ UNCHANGED <<store, jobSwap>>
    BY <1>7 DEF Crash
  <2>2. \A j \in Jobs : step[j] # "idle" => j \in active
    BY DEF IInv, OneHandler
  <2>. QED
    BY <2>1, <2>2, AbandonKeepsHandedOver
<1>8. CASE UNCHANGED vars
  BY <1>8 DEF vars, store, queue, handler, history
<1>. QED
  BY <1>1, <1>2, <1>3, <1>4, <1>5, <1>6, <1>7, <1>8 DEF Next

\* HandedOver holds in every reachable state.
LEMMA HandedOverInvariance == Spec => [](IInv /\ HandedOver)
<1>1. Init => IInv /\ HandedOver
  BY InitIInv, InitHandedOver
<1>2. (IInv /\ HandedOver) /\ [Next]_vars => (IInv /\ HandedOver)'
  BY NextIInv, NextHandedOver
<1>. QED
  BY <1>1, <1>2, PTL DEF Spec

-----------------------------------------------------------------------------
(* Every step is one of OutboundSwap, or a stutter.                        *)

\* Followed is a matter of the records, the stranded payments and the
\* payments about to be listed.
LEMMA SameFollowed ==
    ASSUME sentOutbound' = sentOutbound,
           stranded' \cup Unlisted(Jobs)' = stranded \cup Unlisted(Jobs)
    PROVE  Followed' = Followed
BY DEF Followed

\* What is listed is followed, and a followed payment is the record of its
\* swap; so a swap has one.
LEMMA ListedIsFollowed ==
    ASSUME IInv, HandedOver, NEW p \in pendingFinalized
    PROVE  p \in Followed
<1>1. p \in Payments
  BY DEF IInv, TypeOK
<1>2. Done(p) /\ p \notin stranded
  BY DEF HandedOver
<1>3. p \notin Unlisted(Jobs)
  BY <1>2 DEF Done, Unlisted, PaymentOf
<1>. QED
  BY <1>1, <1>2, <1>3 DEF Followed, Done

\* The swaps the contract settled, whether or not a fork undid it.
SettledSwaps == {s \in Swaps : WasSettled(s)}

\* Init maps to Init.
LEMMA InitMaps == Init => Outbound!Init
BY SwapsAssumption, NoTxAssumption
DEF Init, Outbound!Init, WasSettled, Settled, Followed, Payments

\* The contract: a step of one swap, which leaves the supplier as it is.
LEMMA ContractMaps ==
    ASSUME IInv, NEW s \in Swaps, Initiate(s) \/ Finalize(s) \/ Revoke(s) \/ Undo(s)
    PROVE  Outbound!Next
<1>1. UNCHANGED <<payments, pendingFinalized, Followed>>
  <2>1. UNCHANGED <<payments, store, queue, handler, stranded>>
    BY DEF Initiate, Finalize, Revoke, Undo, history
  <2>. QED
    BY <2>1, SameFollowed DEF Unlisted, PaymentOf, store, queue, handler
<1>2. UNCHANGED (Followed \ pendingFinalized)
  BY <1>1
<1>3. CASE Initiate(s)
  <2>1. SettledSwaps' = SettledSwaps
    BY <1>3 DEF IInv, TypeOK, SettledSwaps, WasSettled, Settled, Initiate, history
  <2>. QED
    BY <1>1, <1>2, <1>3, <2>1
    DEF Initiate, SettledSwaps, Outbound!Initiate, Outbound!Become, Outbound!Next
<1>4. CASE Finalize(s)
  <2>1. SettledSwaps' = SettledSwaps \cup {s}
    BY <1>4 DEF IInv, TypeOK, SettledSwaps, WasSettled, Settled, Finalize, history
  <2>. QED
    BY <1>1, <1>2, <1>4, <2>1
    DEF Finalize, SettledSwaps, Outbound!Finalize, Outbound!Become, Outbound!Next
<1>5. CASE Revoke(s)
  <2>1. SettledSwaps' = SettledSwaps \cup {s}
    BY <1>5 DEF IInv, TypeOK, SettledSwaps, WasSettled, Settled, Revoke, history
  <2>. QED
    BY <1>1, <1>2, <1>5, <2>1
    DEF Revoke, SettledSwaps, Outbound!Revoke, Outbound!Become, Outbound!Next
<1>6. CASE Undo(s)
  <2>1. SettledSwaps' = SettledSwaps
    BY <1>6 DEF IInv, TypeOK, SettledSwaps, WasSettled, Settled, Undo
  <2>2. \/ Outbound!Become(s, "finalized", "open")
        \/ Outbound!Become(s, "revoked", "open")
        \/ Outbound!Become(s, "open", "absent")
    BY <1>6 DEF Undo, Settled, Outbound!Become
  <2>. QED
    BY <1>1, <1>2, <2>1, <2>2 DEF SettledSwaps, Outbound!Undo, Outbound!Next
<1>. QED
  BY <1>3, <1>4, <1>5, <1>6

\* The finalizer forgets a payment that was followed.
LEMMA UnlistMaps ==
    ASSUME IInv, HandedOver, NEW p \in pendingFinalized, Unlist(p)
    PROVE  Outbound!Forget(p) /\ p \in Payments
<1>1. UNCHANGED Followed
  BY SameFollowed DEF Unlist, Unlisted, PaymentOf, queue, handler, history
<1>2. UNCHANGED SettledSwaps
  BY DEF Unlist, SettledSwaps, WasSettled, chains, history
<1>3. p \in Followed /\ p \in Payments
  BY ListedIsFollowed DEF IInv, TypeOK
<1>4. p.swap \in SettledSwaps
  BY <1>3, SwapsAssumption DEF SettledSwaps, Unlist, Payments
<1>5. (Followed \ pendingFinalized)' = (Followed \ pendingFinalized) \cup {p}
  BY <1>1, <1>3 DEF Unlist
<1>. QED
  BY <1>2, <1>3, <1>4, <1>5 DEF Unlist, SettledSwaps, Outbound!Forget, chains

\* A handler that pays found no record, so no payment of its swap is followed.
LEMMA BroadcastMaps ==
    ASSUME IInv, HandedOver, NEW j \in Jobs, Broadcast(j) \/ BroadcastUnacknowledged(j)
    PROVE  \E p \in Payments : Outbound!Pay(p)
<1>1. PICK t \in Txids :
          Fresh(t) /\ payments' = payments \cup {[swap |-> jobSwap[j], txid |-> t]}
  BY DEF Broadcast, BroadcastUnacknowledged
<1>. DEFINE p == [swap |-> jobSwap[j], txid |-> t]
<1>2. step[j] = "send" /\ p \in Payments /\ p \notin payments
  BY <1>1 DEF Broadcast, BroadcastUnacknowledged, IInv, OneHandler, Payments, Fresh
<1>3. \A q \in pendingFinalized \cup (Followed \ pendingFinalized) : q.swap # p.swap
  <2>1. sentOutbound[p.swap] = NoTx
    BY <1>2 DEF IInv, Unsent
  <2>2. \A q \in Followed : q.swap # p.swap
    BY <2>1, NoTxAssumption DEF Followed, Payments
  <2>. QED
    BY <2>2, ListedIsFollowed
<1>4. UNCHANGED Followed
  <2>1. \A k \in Jobs : step[k] # "setPending" /\ step'[k] # "setPending"
    BY <1>2 DEF IInv, TypeOK, OneHandler, Broadcast, BroadcastUnacknowledged, Suspend,
        Return, Leave
  <2>2. UNCHANGED <<sentOutbound, stranded>>
    BY DEF Broadcast, BroadcastUnacknowledged, store, history
  <2>. QED
    BY <2>1, <2>2, SameFollowed DEF Unlisted
<1>5. UNCHANGED <<contract, SettledSwaps, pendingFinalized, Followed \ pendingFinalized>>
  BY <1>4 DEF Broadcast, BroadcastUnacknowledged, SettledSwaps, WasSettled, store, history
<1>6. Outbound!Pay(p)
  BY <1>1, <1>2, <1>3, <1>5 DEF SettledSwaps, Outbound!Pay
<1>. QED
  BY <1>2, <1>6

\* The swap of a payment about to be listed has no other that was followed.
LEMMA ListingMaps ==
    ASSUME IInv, HandedOver, NEW j \in Jobs, SetPendingFinalizedOutbound(j)
    PROVE  \E p \in Payments : Outbound!List(p)
<1>1. PICK p : p = PaymentOf(j)
  OBVIOUS
<1>2. step[j] = "setPending" /\ pendingFinalized' = pendingFinalized \cup {p}
  BY <1>1 DEF SetPendingFinalizedOutbound, Listing
<1>3. p \in Payments /\ p.swap = jobSwap[j] /\ p.txid = sentTxid[j]
      /\ sentOutbound[p.swap] = p.txid
  BY <1>1, <1>2, InHandIsNew DEF PaymentOf
<1>4. \A q \in Followed : q.swap # p.swap
  BY <1>1, <1>2, <1>3 DEF Followed, Payments, Unlisted, PaymentOf
<1>5. \A q \in pendingFinalized \cup (Followed \ pendingFinalized) : q.swap # p.swap
  BY <1>4, ListedIsFollowed
<1>6. Followed' = Followed \cup {p} \/ Followed' = Followed
  <2>1. Unlisted(Jobs) = {p} /\ Unlisted(Jobs)' = {}
    BY <1>1, <1>2 DEF IInv, OneHandler, Unlisted, SetPendingFinalizedOutbound, Return, Leave
  <2>2. UNCHANGED <<sentOutbound, stranded>>
    BY DEF SetPendingFinalizedOutbound, history
  <2>. QED
    BY <2>1, <2>2 DEF Followed
<1>7. (Followed \ pendingFinalized)' = Followed \ pendingFinalized
  BY <1>2, <1>4, <1>6
<1>8. UNCHANGED <<contract, SettledSwaps, payments>>
  BY DEF SetPendingFinalizedOutbound, SettledSwaps, WasSettled, chains, history
<1>. QED
  BY <1>2, <1>3, <1>5, <1>7, <1>8 DEF SettledSwaps, Outbound!List

\* The writing of a record moves its payment from one exception of Followed
\* into the hand of the handler, the other.
LEMMA RecordingMaps ==
    ASSUME IInv, NEW j \in Jobs, SetSentOutbound(j)
    PROVE  UNCHANGED (Outbound!vars)
<1>1. PICK p : p = PaymentOf(j)
  OBVIOUS
<1>2. jobSwap[j] \in Swaps /\ sentOutbound[jobSwap[j]] = NoTx /\ sentTxid[j] # NoTx
  BY NoTxAssumption DEF IInv, TypeOK, Unsent, InHand, SetSentOutbound
<1>3. Unlisted(Jobs) = {} /\ Unlisted(Jobs)' = {p}
  BY <1>1 DEF IInv, TypeOK, OneHandler, Unlisted, PaymentOf, SetSentOutbound, Suspend, queue
<1>4. Followed' = Followed
  <2>1. p \in Payments /\ p.swap = jobSwap[j]
    BY <1>1, <1>2 DEF IInv, OneHandler, InHand, SetSentOutbound, PaymentOf, Payments
  <2>2. \A q \in Payments : q # p =>
            (sentOutbound'[q.swap] = q.txid <=> sentOutbound[q.swap] = q.txid)
    BY <1>1, <1>2, <2>1, NoTxAssumption
    DEF IInv, TypeOK, SetSentOutbound, PaymentOf, Payments
  <2>3. sentOutbound[p.swap] # p.txid
    BY <1>2, <2>1, NoTxAssumption DEF Payments
  <2>. QED
    BY <1>3, <2>2, <2>3 DEF Followed, SetSentOutbound, history
<1>. QED
  BY <1>4 DEF SetSentOutbound, Outbound!vars, WasSettled, chains, history

\* Where handlers end, a payment about to be listed becomes a stranded one.
LEMMA AbandonMaps ==
    ASSUME NEW J \in SUBSET Jobs, Leave(J), Abandon(J),
           \A j \in Jobs : step[j] # "idle" => j \in J,
           UNCHANGED <<chains, store>>
    PROVE  UNCHANGED (Outbound!vars)
<1>1. Unlisted(Jobs) = Unlisted(J) /\ Unlisted(Jobs)' = {}
  BY DEF Unlisted, Leave
<1>2. UNCHANGED Followed
  BY <1>1, SameFollowed DEF Abandon, store
<1>. QED
  BY <1>2 DEF Outbound!vars, WasSettled, Abandon, chains, store

\* The other steps neither move a swap or a payment nor reach a listing.
LEMMA QuietMaps ==
    ASSUME IInv, NEW j \in Jobs,
           \/ StartJob(j) \/ RetryFailed(j) \/ \E s \in Swaps : EventJobHandler(j, s)
           \/ DeserializeJob(j) \/ GetSentOutbound(j) \/ GetOutboundFinalizedTxid(j)
           \/ FetchCoreInfo(j) \/ BroadcastRejected(j)
    PROVE  UNCHANGED (Outbound!vars)
<1>1. UNCHANGED <<chains, store, stranded, reorged>>
  BY DEF StartJob, RetryFailed, EventJobHandler, DeserializeJob, GetSentOutbound,
      GetOutboundFinalizedTxid, FetchCoreInfo, BroadcastRejected, history
<1>2. \A k \in Jobs : /\ step[k] = "setPending" <=> step'[k] = "setPending"
                      /\ step[k] = "setPending" => PaymentOf(k)' = PaymentOf(k)
  <2>1. CASE StartJob(j) \/ RetryFailed(j) \/ GetSentOutbound(j) \/ BroadcastRejected(j)
    BY <2>1 DEF IInv, TypeOK, OneHandler, PaymentOf, StartJob, RetryFailed, GetSentOutbound,
        BroadcastRejected, Suspend, queue, handler
  <2>2. CASE \E s \in Swaps : EventJobHandler(j, s)
    BY <2>2 DEF IInv, TypeOK, OneHandler, PaymentOf, EventJobHandler, handler
  <2>3. CASE DeserializeJob(j) \/ GetOutboundFinalizedTxid(j) \/ FetchCoreInfo(j)
    BY <2>3 DEF IInv, TypeOK, OneHandler, PaymentOf, DeserializeJob,
        GetOutboundFinalizedTxid, FetchCoreInfo, Suspend, Return, Leave
  <2>. QED
    BY <2>1, <2>2, <2>3
<1>3. Unlisted(Jobs)' = Unlisted(Jobs)
  BY <1>2 DEF Unlisted
<1>4. UNCHANGED Followed
  BY <1>1, <1>3, SameFollowed DEF store
<1>. QED
  BY <1>1, <1>4 DEF Outbound!vars, WasSettled, chains, store

\* Every step of a handler is a step of OutboundSwap or a stutter.
LEMMA HandleMaps ==
    ASSUME IInv, HandedOver, NEW j \in Jobs, Handle(j)
    PROVE  [Outbound!Next]_(Outbound!vars)
<1>1. CASE Throw(j)
  <2>1. Leave({j}) /\ Abandon({j}) /\ UNCHANGED <<chains, store>>
    BY <1>1 DEF Throw, Return
  <2>2. \A k \in Jobs : step[k] # "idle" => k \in {j}
    BY <1>1 DEF IInv, OneHandler, Throw
  <2>. QED
    BY <2>1, <2>2, AbandonMaps
<1>2. CASE Broadcast(j) \/ BroadcastUnacknowledged(j)
  BY <1>2, BroadcastMaps DEF Outbound!Next
<1>3. CASE SetPendingFinalizedOutbound(j)
  BY <1>3, ListingMaps DEF Outbound!Next
<1>4. CASE SetSentOutbound(j)
  BY <1>4, RecordingMaps
<1>5. CASE \/ DeserializeJob(j) \/ GetSentOutbound(j) \/ GetOutboundFinalizedTxid(j)
           \/ FetchCoreInfo(j) \/ BroadcastRejected(j)
  BY <1>5, QuietMaps
<1>. QED
  BY <1>1, <1>2, <1>3, <1>4, <1>5 DEF Handle

\* Every step of the worker and its environment is.
LEMMA NextMaps == IInv /\ HandedOver /\ [Next]_vars => [Outbound!Next]_(Outbound!vars)
<1>. SUFFICES ASSUME IInv, HandedOver, [Next]_vars PROVE [Outbound!Next]_(Outbound!vars)
  OBVIOUS
<1>1. CASE \E s \in Swaps : Initiate(s) \/ Finalize(s) \/ Revoke(s) \/ Undo(s)
  BY <1>1, ContractMaps
<1>2. CASE \E p \in pendingFinalized : Unlist(p)
  BY <1>2, UnlistMaps DEF Outbound!Next
<1>3. CASE \E j \in Jobs, s \in Swaps : EventJobHandler(j, s)
  BY <1>3, QuietMaps
<1>4. CASE \E j \in Jobs : StartJob(j) \/ RetryFailed(j)
  BY <1>4, QuietMaps
<1>5. CASE \E j \in Jobs : Handle(j)
  BY <1>5, HandleMaps
<1>6. CASE Crash
  <2>. DEFINE active == {j \in Jobs : jobState[j] = "active"}
  <2>1. Leave(active) /\ Abandon(active) /\ UNCHANGED <<chains, store>>
    BY <1>6 DEF Crash
  <2>2. \A j \in Jobs : step[j] # "idle" => j \in active
    BY DEF IInv, OneHandler
  <2>. QED
    BY <2>1, <2>2, AbandonMaps
<1>7. CASE MineBlock \/ UNCHANGED vars
  <2>1. UNCHANGED <<contract, payments, store, queue, handler, history>>
    BY <1>7 DEF MineBlock, vars, chains
  <2>2. UNCHANGED Followed
    BY <2>1, SameFollowed DEF Unlisted, PaymentOf, store, queue, handler, history
  <2>. QED
    BY <2>1, <2>2 DEF Outbound!vars, WasSettled, store, history
<1>. QED
  BY <1>1, <1>2, <1>3, <1>4, <1>5, <1>6, <1>7 DEF Next

\* The worker implements its part of what the supplier promises of an
\* outbound swap: one payment of a swap followed, once, and none made for a
\* swap that has one, through crashes, retries, duplicate events and forks.
THEOREM WorkerImplementsOutboundSwap == Spec => ImplementsOutboundSwap
<1>1. Init => Outbound!Init
  BY InitMaps
<1>2. (IInv /\ HandedOver) /\ [Next]_vars => [Outbound!Next]_(Outbound!vars)
  BY NextMaps
<1>. QED
  BY <1>1, <1>2, HandedOverInvariance, PTL DEF Spec, ImplementsOutboundSwap, Outbound!Spec
=============================================================================
