----------------------------- MODULE RedeemHTLC -----------------------------
(***************************************************************************)
(* The finalize-inbound worker (src/processors/redeem-htlc.ts): when the   *)
(* contract finalizes an inbound swap its print reveals the preimage, and  *)
(* the supplier redeems the Bitcoin HTLC with it and records the redeem    *)
(* transaction in Redis.  After the HTLC's expiry its user may refund it.  *)
(* The operator's scripts redeem an HTLC outside the queue and the record. *)
(*                                                                         *)
(* A redeem transaction is determined by its HTLC and the fee rate of the  *)
(* moment, so its txid is represented by that rate.                        *)
(***************************************************************************)
EXTENDS Integers, FiniteSets

CONSTANTS
    HTLCs,       \* txids of the HTLCs
    Jobs,        \* jobs of the finalize-inbound queue
    FeeRates,    \* fee rates Electrum may estimate
    NoTx,        \* null: no txid; an unspent output
    Refund,      \* the user's refund transaction
    Attempts,    \* attempts of a job (12)
    MaxFaults    \* bound: crashes, rejected calls, lost answers, evictions

ASSUME HTLCsAssumption == HTLCs # {}
ASSUME TxsAssumption == NoTx \notin FeeRates /\ Refund \notin FeeRates /\ NoTx # Refund
ASSUME BoundAssumption == Attempts \in Nat \ {0} /\ MaxFaults \in Nat

VARIABLES
    spender,        \* Bitcoin: the transaction that spends the HTLC's output
    confirmed,      \* Bitcoin: whether that transaction is in a block
    redeemedHTLC,   \* Redis RedeemedHTLC::<txid>
    jobState,       \* Bull: the list a job is on
    jobHTLC,        \* the HTLC of the job's event
    attemptsMade,   \* Bull: failed attempts of a job
    stalled,        \* Bull: jobs found stalled once
    step,           \* handler: the await it is suspended at
    feeRate,        \* handler: getFeeRate
    faults,         \* bound: faults so far
    evicted,        \* history: HTLCs whose spender left the mempool
    unrecorded      \* history: HTLCs whose redeem was accepted but not recorded

bitcoin == <<spender, confirmed>>
queue   == <<jobState, jobHTLC, attemptsMade, stalled>>
handler == <<step, feeRate>>
vars    == <<bitcoin, redeemedHTLC, queue, handler, faults, evicted, unrecorded>>

Steps == {"idle", "getRedeemed", "getFullInbound", "getFeeRate", "broadcast", "setRedeemed"}

TypeOK ==
    /\ spender \in [HTLCs -> FeeRates \cup {NoTx, Refund}]
    /\ confirmed \in [HTLCs -> BOOLEAN]
    /\ redeemedHTLC \in [HTLCs -> FeeRates \cup {NoTx}]
    /\ jobState \in [Jobs -> {"unused", "waiting", "active", "completed", "failed"}]
    /\ jobHTLC \in [Jobs -> HTLCs]
    /\ attemptsMade \in [Jobs -> 0 .. Attempts]
    /\ stalled \subseteq Jobs
    /\ step \in [Jobs -> Steps]
    /\ feeRate \in [Jobs -> FeeRates \cup {NoTx}]
    /\ faults \in 0 .. MaxFaults
    /\ evicted \subseteq HTLCs /\ unrecorded \subseteq HTLCs

Init ==
    /\ spender = [h \in HTLCs |-> NoTx]
    /\ confirmed = [h \in HTLCs |-> FALSE]
    /\ redeemedHTLC = [h \in HTLCs |-> NoTx]
    /\ jobState = [j \in Jobs |-> "unused"]
    /\ jobHTLC = [j \in Jobs |-> CHOOSE h \in HTLCs : TRUE]
    /\ attemptsMade = [j \in Jobs |-> 0]
    /\ stalled = {}
    /\ step = [j \in Jobs |-> "idle"]
    /\ feeRate = [j \in Jobs |-> NoTx]
    /\ faults = 0
    /\ evicted = {} /\ unrecorded = {}

Fault == faults < MaxFaults /\ faults' = faults + 1

-----------------------------------------------------------------------------
(* Bitcoin and the user.                                                   *)

\* From the HTLC's expiry on its user may take the coin back.  When that is
\* makes no difference to the supplier.
RefundHTLC(h) ==
    /\ spender[h] = NoTx
    /\ spender' = [spender EXCEPT ![h] = Refund]
    /\ UNCHANGED <<confirmed, redeemedHTLC, queue, handler, faults, evicted, unrecorded>>

Confirm(h) ==
    /\ spender[h] # NoTx /\ ~confirmed[h]
    /\ confirmed' = [confirmed EXCEPT ![h] = TRUE]
    /\ UNCHANGED <<spender, redeemedHTLC, queue, handler, faults, evicted, unrecorded>>

Evict(h) ==
    /\ spender[h] # NoTx /\ ~confirmed[h]
    /\ Fault
    /\ spender' = [spender EXCEPT ![h] = NoTx]
    /\ evicted' = evicted \cup {h}
    /\ UNCHANGED <<confirmed, redeemedHTLC, queue, handler, unrecorded>>

-----------------------------------------------------------------------------
(* The queue.                                                              *)

\* eventJobHandler adds a job for a finalize-inbound event; an event may be
\* delivered again.  (Other suppliers' events end the handler at once.)
EventJobHandler(j, h) ==
    /\ jobState[j] = "unused"
    /\ jobState' = [jobState EXCEPT ![j] = "waiting"]
    /\ jobHTLC' = [jobHTLC EXCEPT ![j] = h]
    /\ UNCHANGED <<bitcoin, redeemedHTLC, attemptsMade, stalled, handler, faults, evicted, unrecorded>>

Leave(j) ==
    /\ step' = [step EXCEPT ![j] = "idle"]
    /\ feeRate' = [feeRate EXCEPT ![j] = NoTx]

Complete(j) ==
    /\ jobState' = [jobState EXCEPT ![j] = "completed"]
    /\ Leave(j)
    /\ UNCHANGED <<attemptsMade, stalled, jobHTLC>>

\* fixedBackoffMins(12, 10): a thrown error is retried ten minutes later
\* until the attempts are used up.
MayRetry_OneMore(j) == attemptsMade[j] < Attempts
MayRetry(j) == attemptsMade[j] + 1 < Attempts

Fail(j) ==
    /\ attemptsMade' = [attemptsMade EXCEPT ![j] = attemptsMade[j] + 1]
    /\ jobState' = [jobState EXCEPT ![j] = IF MayRetry(j) THEN "waiting" ELSE "failed"]
    /\ Leave(j)
    /\ UNCHANGED <<stalled, jobHTLC>>

StartJob(j) ==
    /\ jobState[j] = "waiting"
    /\ \A k \in Jobs : jobState[k] # "active"
    /\ jobState' = [jobState EXCEPT ![j] = "active"]
    /\ step' = [step EXCEPT ![j] = "getRedeemed"]
    /\ UNCHANGED <<bitcoin, redeemedHTLC, jobHTLC, attemptsMade, stalled, feeRate, faults, evicted, unrecorded>>

\* The HTLC whose redeem is lost when the handler stops where it is.
LostRecord(j) == IF step[j] = "setRedeemed" THEN {jobHTLC[j]} ELSE {}

\* The process dies; Bull runs the stalled job again, and fails it when it
\* stalls a second time.
Crash(j) ==
    /\ jobState[j] = "active"
    /\ Fault
    /\ jobState' = [jobState EXCEPT ![j] = IF j \in stalled THEN "failed" ELSE "waiting"]
    /\ stalled' = stalled \cup {j}
    /\ Leave(j)
    /\ unrecorded' = unrecorded \cup LostRecord(j)
    /\ UNCHANGED <<bitcoin, redeemedHTLC, jobHTLC, attemptsMade, evicted>>

-----------------------------------------------------------------------------
(* The handler: processFinalizedInbound and redeem.                        *)

Suspend(j, call) == step' = [step EXCEPT ![j] = call]

\* if (redeemed) skip
AlreadyRedeemed_Negated(j) == redeemedHTLC[jobHTLC[j]] = NoTx
AlreadyRedeemed_Confirmed(j) == confirmed[jobHTLC[j]] /\ redeemedHTLC[jobHTLC[j]] # NoTx
AlreadyRedeemed(j) == redeemedHTLC[jobHTLC[j]] # NoTx

GetRedeemedHTLC(j) ==
    /\ step[j] = "getRedeemed"
    /\ \/ AlreadyRedeemed(j) /\ Complete(j)
       \/ ~AlreadyRedeemed(j) /\ Suspend(j, "getFullInbound") /\ UNCHANGED <<queue, feeRate>>
    /\ UNCHANGED <<bitcoin, redeemedHTLC, faults, evicted, unrecorded>>

GetFullInbound(j) ==
    /\ step[j] = "getFullInbound"
    /\ Suspend(j, "getFeeRate")
    /\ UNCHANGED <<bitcoin, redeemedHTLC, queue, feeRate, faults, evicted, unrecorded>>

GetFeeRate(j) ==
    /\ step[j] = "getFeeRate"
    /\ \E f \in FeeRates : feeRate' = [feeRate EXCEPT ![j] = f]
    /\ Suspend(j, "broadcast")
    /\ UNCHANGED <<bitcoin, redeemedHTLC, queue, faults, evicted, unrecorded>>

\* What the network answers to the redeem transaction of HTLC h at rate f.
Answers(h, f) ==
    IF spender[h] = NoTx THEN {"accepted"}
    ELSE IF ~confirmed[h]
         THEN IF spender[h] = f THEN {"accepted", "txn-already-in-mempool"}
                                ELSE {"txn-mempool-conflict"}
         ELSE IF spender[h] = f
              \* the second, once the redeem's own output was spent
              THEN {"Transaction already in block chain", "inputs-missingorspent"}
              ELSE {"inputs-missingorspent"}

\* The network takes the redeem transaction, and nobody records it.
Accept(h, f) ==
    /\ "accepted" \in Answers(h, f)
    /\ spender' = [spender EXCEPT ![h] = f]
    /\ unrecorded' = unrecorded \cup {h}

\* tryBroadcast returns for these, and throws for the others: the test for
\* 'Transaction already in block chain' sits inside its negation.
Returns_Anything == {"accepted", "inputs-missingorspent", "timeout"}
Returns == {"accepted", "inputs-missingorspent"}

Broadcast(j) ==
    /\ step[j] = "broadcast"
    /\ LET h == jobHTLC[j]
           f == feeRate[j]
       IN  \E answer \in Answers(h, f) :
               /\ spender' = [spender EXCEPT ![h] = IF answer = "accepted" THEN f ELSE spender[h]]
               /\ \/ /\ answer \in Returns
                     /\ Suspend(j, "setRedeemed")
                     /\ UNCHANGED <<queue, feeRate>>
                  \/ /\ answer \notin Returns
                     /\ Fail(j)
    /\ UNCHANGED <<confirmed, redeemedHTLC, faults, evicted, unrecorded>>

\* The request, or its answer, is lost.
BroadcastTimeout(j) ==
    /\ step[j] = "broadcast"
    /\ Fault
    /\ \/ UNCHANGED <<spender, unrecorded>>
       \/ Accept(jobHTLC[j], feeRate[j])
    /\ \/ "timeout" \in Returns /\ Suspend(j, "setRedeemed") /\ UNCHANGED <<queue, feeRate>>
       \/ "timeout" \notin Returns /\ Fail(j)
    /\ UNCHANGED <<confirmed, redeemedHTLC, evicted>>

\* scripts/redeem-htlc.ts and finalize-inbound.ts call redeem by hand, at
\* any moment, and neither read nor write the record.
ScriptRedeems(h) ==
    /\ \E f \in FeeRates : Accept(h, f)
    /\ UNCHANGED <<confirmed, redeemedHTLC, queue, handler, faults, evicted>>

SetRedeemedHTLC(j) ==
    /\ step[j] = "setRedeemed"
    /\ redeemedHTLC' = [redeemedHTLC EXCEPT ![jobHTLC[j]] = feeRate[j]]
    /\ jobState' = [jobState EXCEPT ![j] = "completed"]
    /\ Leave(j)
    /\ UNCHANGED <<bitcoin, jobHTLC, attemptsMade, stalled, faults, evicted, unrecorded>>

\* Any other call rejects, or the fee exceeds the amount of the swap.
Throw(j) ==
    /\ step[j] \notin {"idle", "broadcast"}
    /\ Fault
    /\ Fail(j)
    /\ unrecorded' = unrecorded \cup LostRecord(j)
    /\ UNCHANGED <<bitcoin, redeemedHTLC, evicted>>

-----------------------------------------------------------------------------
Handle(j) ==
    \/ GetRedeemedHTLC(j)
    \/ GetFullInbound(j)
    \/ GetFeeRate(j)
    \/ Broadcast(j)
    \/ BroadcastTimeout(j)
    \/ SetRedeemedHTLC(j)
    \/ Throw(j)

Next ==
    \/ \E h \in HTLCs : RefundHTLC(h) \/ Confirm(h) \/ Evict(h) \/ ScriptRedeems(h)
    \/ \E j \in Jobs, h \in HTLCs : EventJobHandler(j, h)
    \/ \E j \in Jobs : StartJob(j) \/ Crash(j) \/ Handle(j)

Spec == Init /\ [][Next]_vars

\* The event loop runs what is ready, and Bull takes a job when none is active.
Fairness == WF_vars(\E j \in Jobs : StartJob(j) \/ Handle(j))

FairSpec == Spec /\ Fairness

-----------------------------------------------------------------------------
(* Properties.                                                             *)

\* The recorded redeem is the transaction that spends the HTLC: a job that
\* skips a recorded HTLC leaves no money on the table.  Not so for one the
\* user refunded first, which the answer inputs-missingorspent does not tell
\* from a redeem, one whose spender was evicted, and one that an earlier
\* redeem, at another rate and never recorded, had spent already.
RecordIsSpender ==
    \A h \in HTLCs : redeemedHTLC[h] # NoTx =>
        spender[h] \in {redeemedHTLC[h], Refund} \/ h \in evicted \cup unrecorded

\* The record of an HTLC is written once; duplicate events and retried jobs
\* find it and skip.
RecordIsFinal ==
    [][\A h \in HTLCs : redeemedHTLC[h] # NoTx => redeemedHTLC'[h] = redeemedHTLC[h]]_vars

\* Every HTLC with a job is eventually spent, or the job is on the failed
\* list, or the redeem was evicted from the mempool.
JobSpends ==
    \A j \in Jobs, h \in HTLCs :
        (jobState[j] = "waiting" /\ jobHTLC[j] = h)
            ~> (spender[h] # NoTx \/ jobState[j] = "failed" \/ h \in evicted)

\* An attempt that broadcasts a redeem the chain has already, made by a script
\* or by an attempt before it, returns, and does not count as a failure:
\* 'Transaction already in block chain' is logged as "Already broadcasted
\* redeem" (wallet/index.ts:154-161).
MinedRedeemReturns ==
    [][\A j \in Jobs :
          /\ step[j] = "broadcast" /\ faults' = faults
          /\ confirmed[jobHTLC[j]] /\ spender[jobHTLC[j]] = feeRate[j]
          => attemptsMade'[j] = attemptsMade[j]]_vars
=============================================================================
