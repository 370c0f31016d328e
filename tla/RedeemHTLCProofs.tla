-------------------------- MODULE RedeemHTLCProofs --------------------------
(***************************************************************************)
(* What the finalize-inbound worker guarantees for every set of HTLCs,     *)
(* jobs and fee rates, any number of attempts and of faults: the record in *)
(* Redis is written once, and it is the redeem that spends the HTLC.       *)
(***************************************************************************)
EXTENDS RedeemHTLC, TLAPS

\* One job is active, and it is the one with a handler.  A job that has not
\* ended has an attempt left.
OneHandler ==
    /\ \A j \in Jobs : step[j] # "idle" <=> jobState[j] = "active"
    /\ \A j, k \in Jobs : step[j] # "idle" /\ step[k] # "idle" => j = k
    /\ \A j \in Jobs : jobState[j] \in {"unused", "waiting", "active"} => attemptsMade[j] < Attempts

\* What the handler read is still so: its HTLC has no record.
Unredeemed ==
    \A j \in Jobs :
        /\ step[j] \in {"getFullInbound", "getFeeRate", "broadcast", "setRedeemed"} =>
               redeemedHTLC[jobHTLC[j]] = NoTx
        /\ step[j] \in {"broadcast", "setRedeemed"} => feeRate[j] \in FeeRates

\* The record the handler is about to write will be right.
InHand ==
    \A j \in Jobs : step[j] = "setRedeemed" =>
        spender[jobHTLC[j]] \in {feeRate[j], Refund} \/ jobHTLC[j] \in evicted \cup unrecorded

\* The supplier's redeem of an HTLC is on record, about to be, or was lost.
SpentIsKnown ==
    \A h \in HTLCs : spender[h] \in FeeRates =>
        \/ redeemedHTLC[h] # NoTx
        \/ h \in evicted \cup unrecorded
        \/ \E j \in Jobs : step[j] = "setRedeemed" /\ jobHTLC[j] = h

\* The inductive invariant.
IInv ==
    /\ TypeOK
    /\ OneHandler
    /\ Unredeemed
    /\ InHand
    /\ SpentIsKnown
    /\ RecordIsSpender
-----------------------------------------------------------------------------
(* IInv is inductive: it holds initially, and each action preserves it.    *)

\* It holds at the start.
LEMMA InitIInv == Init => IInv
<1>. SUFFICES ASSUME Init PROVE IInv
  OBVIOUS
<1>1. (CHOOSE h \in HTLCs : TRUE) \in HTLCs
  BY HTLCsAssumption
<1>2. TypeOK
  BY <1>1, BoundAssumption DEF Init, TypeOK, Steps
<1>3. OneHandler /\ Unredeemed /\ InHand
  BY BoundAssumption DEF Init, OneHandler, Unredeemed, InHand
<1>4. SpentIsKnown /\ RecordIsSpender
  BY TxsAssumption DEF Init, SpentIsKnown, RecordIsSpender
<1>. QED
  BY <1>2, <1>3, <1>4 DEF IInv

\* The user takes the coin back.
LEMMA RefundHTLCStep ==
    ASSUME IInv, NEW h \in HTLCs, RefundHTLC(h)
    PROVE  IInv'
<1>1. TypeOK'
  BY DEF IInv, TypeOK, RefundHTLC, queue, handler
<1>2. OneHandler'
  BY DEF IInv, OneHandler, RefundHTLC, queue, handler
<1>3. Unredeemed'
  BY DEF IInv, Unredeemed, RefundHTLC, queue, handler
<1>4. InHand'
  BY DEF IInv, InHand, RefundHTLC, queue, handler
<1>5. SpentIsKnown'
  BY TxsAssumption DEF IInv, SpentIsKnown, RefundHTLC, queue, handler
<1>6. RecordIsSpender'
  BY DEF IInv, RecordIsSpender, RefundHTLC
<1>. QED
  BY <1>1, <1>2, <1>3, <1>4, <1>5, <1>6 DEF IInv

\* A confirmation changes nothing the worker knows.
LEMMA ConfirmStep ==
    ASSUME IInv, NEW h \in HTLCs, Confirm(h)
    PROVE  IInv'
<1>1. TypeOK'
  BY DEF IInv, TypeOK, Confirm, queue, handler
<1>2. OneHandler'
  BY DEF IInv, OneHandler, Confirm, queue, handler
<1>3. Unredeemed'
  BY DEF IInv, Unredeemed, Confirm, queue, handler
<1>4. InHand'
  BY DEF IInv, InHand, Confirm, queue, handler
<1>5. SpentIsKnown'
  BY DEF IInv, SpentIsKnown, Confirm, queue, handler
<1>6. RecordIsSpender'
  BY DEF IInv, RecordIsSpender, Confirm
<1>. QED
  BY <1>1, <1>2, <1>3, <1>4, <1>5, <1>6 DEF IInv

\* An eviction is remembered.
LEMMA EvictStep ==
    ASSUME IInv, NEW h \in HTLCs, Evict(h)
    PROVE  IInv'
<1>1. TypeOK'
  BY BoundAssumption DEF IInv, TypeOK, Evict, queue, handler, Fault
<1>2. OneHandler'
  BY DEF IInv, OneHandler, Evict, queue, handler
<1>3. Unredeemed'
  BY DEF IInv, Unredeemed, Evict, queue, handler
<1>4. InHand'
  BY DEF IInv, InHand, Evict, queue, handler
<1>5. SpentIsKnown'
  BY DEF IInv, SpentIsKnown, Evict, queue, handler
<1>6. RecordIsSpender'
  BY DEF IInv, RecordIsSpender, Evict
<1>. QED
  BY <1>1, <1>2, <1>3, <1>4, <1>5, <1>6 DEF IInv

\* A redeem by hand is recorded nowhere.
LEMMA ScriptRedeemsStep ==
    ASSUME IInv, NEW h \in HTLCs, ScriptRedeems(h)
    PROVE  IInv'
<1>1. TypeOK'
  BY DEF IInv, TypeOK, ScriptRedeems, queue, handler, Accept
<1>2. OneHandler'
  BY DEF IInv, OneHandler, ScriptRedeems, queue, handler
<1>3. Unredeemed'
  BY DEF IInv, Unredeemed, ScriptRedeems, queue, handler
<1>4. InHand'
  BY DEF IInv, InHand, ScriptRedeems, queue, handler, Accept
<1>5. SpentIsKnown'
  BY DEF IInv, SpentIsKnown, ScriptRedeems, queue, handler, Accept
<1>6. RecordIsSpender'
  BY DEF IInv, RecordIsSpender, ScriptRedeems, Accept
<1>. QED
  BY <1>1, <1>2, <1>3, <1>4, <1>5, <1>6 DEF IInv

\* A new job has no handler yet.
LEMMA EventJobHandlerStep ==
    ASSUME IInv, NEW j \in Jobs, NEW h \in HTLCs, EventJobHandler(j, h)
    PROVE  IInv'
<1>1. TypeOK'
  BY DEF IInv, TypeOK, EventJobHandler, bitcoin, handler
<1>2. OneHandler'
  BY DEF IInv, OneHandler, EventJobHandler, handler
<1>3. Unredeemed'
  BY DEF IInv, OneHandler, Unredeemed, EventJobHandler, handler
<1>4. InHand'
  BY DEF IInv, OneHandler, InHand, EventJobHandler, bitcoin, handler
<1>5. SpentIsKnown'
  BY DEF IInv, OneHandler, SpentIsKnown, EventJobHandler, bitcoin, handler
<1>6. RecordIsSpender'
  BY DEF IInv, RecordIsSpender, EventJobHandler, bitcoin
<1>. QED
  BY <1>1, <1>2, <1>3, <1>4, <1>5, <1>6 DEF IInv

\* A job starts when no other is active.
LEMMA StartJobStep ==
    ASSUME IInv, NEW j \in Jobs, StartJob(j)
    PROVE  IInv'
<1>1. TypeOK'
  BY DEF IInv, TypeOK, Steps, StartJob, bitcoin
<1>2. OneHandler'
  BY DEF IInv, TypeOK, OneHandler, StartJob
<1>3. Unredeemed'
  BY DEF IInv, Unredeemed, StartJob
<1>4. InHand'
  BY DEF IInv, OneHandler, InHand, StartJob
<1>5. SpentIsKnown'
  BY DEF IInv, OneHandler, SpentIsKnown, StartJob, bitcoin
<1>6. RecordIsSpender'
  BY DEF IInv, RecordIsSpender, StartJob, bitcoin
<1>. QED
  BY <1>1, <1>2, <1>3, <1>4, <1>5, <1>6 DEF IInv

\* A crash loses at most the record in hand.
LEMMA CrashStep ==
    ASSUME IInv, NEW j \in Jobs, Crash(j)
    PROVE  IInv'
<1>1. TypeOK'
  BY BoundAssumption
  DEF IInv, TypeOK, Steps, Crash, bitcoin, Fault, Leave, LostRecord
<1>2. OneHandler'
  BY DEF IInv, TypeOK, OneHandler, Crash, Leave
<1>3. Unredeemed'
  BY DEF IInv, TypeOK, Unredeemed, Crash, Leave
<1>4. InHand'
  BY DEF IInv, TypeOK, OneHandler, InHand, Crash, Leave
<1>5. SpentIsKnown'
  BY DEF IInv, OneHandler, SpentIsKnown, Crash, bitcoin, LostRecord
<1>6. RecordIsSpender'
  BY DEF IInv, RecordIsSpender, Crash, bitcoin
<1>. QED
  BY <1>1, <1>2, <1>3, <1>4, <1>5, <1>6 DEF IInv

\* The handler goes on only when its HTLC has no record.
LEMMA GetRedeemedHTLCStep ==
    ASSUME IInv, NEW j \in Jobs, GetRedeemedHTLC(j)
    PROVE  IInv'
<1>1. TypeOK'
  BY DEF IInv, TypeOK, Steps, GetRedeemedHTLC, bitcoin, queue, Complete, Leave,
      Suspend
<1>2. OneHandler'
  BY DEF IInv, TypeOK, OneHandler, GetRedeemedHTLC, queue, Complete, Leave,
      Suspend
<1>3. Unredeemed'
  BY DEF IInv, TypeOK, Unredeemed, GetRedeemedHTLC, queue, AlreadyRedeemed,
      Complete, Leave, Suspend
<1>4. InHand'
  BY DEF IInv, TypeOK, OneHandler, InHand, GetRedeemedHTLC, Complete, Leave,
      Suspend
<1>5. SpentIsKnown'
  BY DEF IInv, OneHandler, SpentIsKnown, GetRedeemedHTLC, bitcoin
<1>6. RecordIsSpender'
  BY DEF IInv, RecordIsSpender, GetRedeemedHTLC, bitcoin
<1>. QED
  BY <1>1, <1>2, <1>3, <1>4, <1>5, <1>6 DEF IInv

\* The swap is read.
LEMMA GetFullInboundStep ==
    ASSUME IInv, NEW j \in Jobs, GetFullInbound(j)
    PROVE  IInv'
<1>1. TypeOK'
  BY DEF IInv, TypeOK, Steps, GetFullInbound, bitcoin, queue, Suspend
<1>2. OneHandler'
  BY DEF IInv, OneHandler, GetFullInbound, queue, Suspend
<1>3. Unredeemed'
  BY DEF IInv, Unredeemed, GetFullInbound, queue, Suspend
<1>4. InHand'
  BY DEF IInv, OneHandler, InHand, GetFullInbound, Suspend
<1>5. SpentIsKnown'
  BY DEF IInv, OneHandler, SpentIsKnown, GetFullInbound, bitcoin
<1>6. RecordIsSpender'
  BY DEF IInv, RecordIsSpender, GetFullInbound, bitcoin
<1>. QED
  BY <1>1, <1>2, <1>3, <1>4, <1>5, <1>6 DEF IInv

\* The fee rate is estimated.
LEMMA GetFeeRateStep ==
    ASSUME IInv, NEW j \in Jobs, GetFeeRate(j)
    PROVE  IInv'
<1>1. TypeOK'
  BY DEF IInv, TypeOK, Steps, GetFeeRate, bitcoin, queue, Suspend
<1>2. OneHandler'
  BY DEF IInv, OneHandler, GetFeeRate, queue, Suspend
<1>3. Unredeemed'
  BY DEF IInv, TypeOK, Unredeemed, GetFeeRate, queue, Suspend
<1>4. InHand'
  BY DEF IInv, OneHandler, InHand, GetFeeRate, Suspend
<1>5. SpentIsKnown'
  BY DEF IInv, OneHandler, SpentIsKnown, GetFeeRate, bitcoin
<1>6. RecordIsSpender'
  BY DEF IInv, RecordIsSpender, GetFeeRate, bitcoin
<1>. QED
  BY <1>1, <1>2, <1>3, <1>4, <1>5, <1>6 DEF IInv

\* A thrown error ends the attempt and leaves the job waiting or failed.
LEMMA FailKeepsQueue ==
    ASSUME IInv, NEW j \in Jobs, step[j] # "idle", Fail(j)
    PROVE  /\ jobState' \in [Jobs -> {"unused", "waiting", "active", "completed", "failed"}]
           /\ attemptsMade' \in [Jobs -> 0 .. Attempts]
           /\ step' \in [Jobs -> Steps] /\ feeRate' \in [Jobs -> FeeRates \cup {NoTx}]
           /\ UNCHANGED <<jobHTLC, stalled>>
           /\ OneHandler'
<1>1. attemptsMade[j] \in Nat /\ attemptsMade[j] < Attempts
  BY DEF IInv, TypeOK, OneHandler
<1>2. attemptsMade' \in [Jobs -> 0 .. Attempts]
  BY <1>1, BoundAssumption DEF IInv, TypeOK, Fail
<1>3. OneHandler'
  BY DEF IInv, TypeOK, OneHandler, Fail, MayRetry, Leave
<1>. QED
  BY <1>2, <1>3 DEF IInv, TypeOK, Steps, Fail, Leave

\* What the network answers to the handler.  Where the handler goes on, its
\* redeem spends the HTLC, or the user or a redeem that was lost did.
LEMMA BroadcastStep ==
    ASSUME IInv, NEW j \in Jobs, Broadcast(j)
    PROVE  IInv'
<1>. DEFINE h == jobHTLC[j]
            f == feeRate[j]
<1>1. /\ h \in HTLCs /\ f \in FeeRates /\ redeemedHTLC[h] = NoTx /\ step[j] = "broadcast"
      /\ UNCHANGED <<confirmed, redeemedHTLC, faults, evicted, unrecorded>>
  BY DEF IInv, TypeOK, Unredeemed, Broadcast
<1>2. CASE UNCHANGED spender /\ Fail(j)
  <2>1. TypeOK' /\ OneHandler'
    BY <1>1, <1>2, FailKeepsQueue DEF IInv, TypeOK
  <2>2. Unredeemed' /\ InHand'
    BY <1>1, <1>2 DEF IInv, TypeOK, Unredeemed, InHand, Fail, Leave
  <2>3. SpentIsKnown' /\ RecordIsSpender'
    BY <1>1, <1>2 DEF IInv, SpentIsKnown, RecordIsSpender, Fail, Leave
  <2>. QED
    BY <2>1, <2>2, <2>3 DEF IInv
<1>3. CASE /\ spender' = [spender EXCEPT ![h] = f] \/ UNCHANGED spender
           /\ spender'[h] = f \/ spender[h] # NoTx
           /\ Suspend(j, "setRedeemed") /\ UNCHANGED <<queue, feeRate>>
  <2>1. /\ step' = [step EXCEPT ![j] = "setRedeemed"]
        /\ UNCHANGED <<jobState, jobHTLC, attemptsMade, stalled, feeRate>>
    BY <1>3 DEF Suspend, queue
  <2>2. TypeOK' /\ OneHandler'
    BY <1>1, <1>3, <2>1 DEF IInv, TypeOK, Steps, OneHandler
  <2>3. Unredeemed'
    BY <1>1, <2>1 DEF IInv, Unredeemed
  <2>4. spender'[h] \in {f, Refund} \/ h \in evicted \cup unrecorded
    BY <1>1, <1>3 DEF IInv, TypeOK, OneHandler, SpentIsKnown
  <2>5. InHand'
    BY <1>1, <2>1, <2>4 DEF IInv, OneHandler, InHand
  <2>6. SpentIsKnown' /\ RecordIsSpender'
    BY <1>1, <1>3, <2>1 DEF IInv, TypeOK, SpentIsKnown, RecordIsSpender
  <2>. QED
    BY <2>2, <2>3, <2>5, <2>6 DEF IInv
<1>. QED
  <2>1. PICK answer \in Answers(h, f) :
            /\ spender' = [spender EXCEPT ![h] = IF answer = "accepted" THEN f ELSE spender[h]]
            /\ \/ /\ answer \in Returns
                  /\ Suspend(j, "setRedeemed")
                  /\ UNCHANGED <<queue, feeRate>>
               \/ answer \notin Returns /\ Fail(j)
    BY DEF Broadcast
  <2>2. CASE answer = "accepted"
    BY <1>3, <2>1, <2>2 DEF Returns, IInv, TypeOK
  <2>3. CASE answer # "accepted"
    <3>1. spender' = spender /\ spender[h] # NoTx
      BY <2>1, <2>3 DEF IInv, TypeOK, Answers
    <3>. QED
      BY <1>2, <1>3, <2>1, <3>1
  <2>. QED
    BY <2>2, <2>3

\* A lost answer fails the attempt, whether or not the redeem got through.
LEMMA BroadcastTimeoutStep ==
    ASSUME IInv, NEW j \in Jobs, BroadcastTimeout(j)
    PROVE  IInv'
<1>1. TypeOK'
  BY FailKeepsQueue, BoundAssumption
  DEF IInv, TypeOK, BroadcastTimeout, Fault, Accept, Returns
<1>2. OneHandler'
  BY FailKeepsQueue DEF BroadcastTimeout, Returns
<1>3. Unredeemed'
  BY DEF IInv, TypeOK, Unredeemed, BroadcastTimeout, Returns, Fail, Leave
<1>4. InHand'
  BY DEF IInv, TypeOK, OneHandler, InHand, BroadcastTimeout, Returns, Fail, Leave
<1>5. SpentIsKnown'
  BY DEF IInv, TypeOK, OneHandler, SpentIsKnown, BroadcastTimeout, Accept
<1>6. RecordIsSpender'
  BY DEF IInv, TypeOK, RecordIsSpender, BroadcastTimeout, Accept
<1>. QED
  BY <1>1, <1>2, <1>3, <1>4, <1>5, <1>6 DEF IInv

\* The record is written.
LEMMA SetRedeemedHTLCStep ==
    ASSUME IInv, NEW j \in Jobs, SetRedeemedHTLC(j)
    PROVE  IInv'
<1>1. TypeOK'
  BY DEF IInv, TypeOK, Steps, SetRedeemedHTLC, bitcoin, Leave
<1>2. OneHandler'
  BY DEF IInv, TypeOK, OneHandler, SetRedeemedHTLC, Leave
<1>3. Unredeemed'
  BY DEF IInv, TypeOK, OneHandler, Unredeemed, SetRedeemedHTLC, Leave
<1>4. InHand'
  BY DEF IInv, TypeOK, OneHandler, InHand, SetRedeemedHTLC, Leave
<1>5. SpentIsKnown'
  BY TxsAssumption
  DEF IInv, TypeOK, OneHandler, Unredeemed, SpentIsKnown, SetRedeemedHTLC,
      bitcoin
<1>6. RecordIsSpender'
  BY DEF IInv, InHand, RecordIsSpender, SetRedeemedHTLC, bitcoin
<1>. QED
  BY <1>1, <1>2, <1>3, <1>4, <1>5, <1>6 DEF IInv

\* A call rejects: the attempt fails, and the record in hand is lost.
LEMMA ThrowStep ==
    ASSUME IInv, NEW j \in Jobs, Throw(j)
    PROVE  IInv'
<1>1. TypeOK'
  <2>1. unrecorded' \subseteq HTLCs /\ faults' \in 0 .. MaxFaults
    BY BoundAssumption DEF IInv, TypeOK, Throw, Fault, LostRecord
  <2>. QED
    BY <2>1, FailKeepsQueue DEF IInv, TypeOK, Throw, bitcoin
<1>2. OneHandler'
  BY FailKeepsQueue DEF Throw
<1>3. Unredeemed'
  BY DEF IInv, TypeOK, Unredeemed, Throw, Fail, Leave
<1>4. InHand'
  BY DEF IInv, TypeOK, OneHandler, InHand, Throw, Fail, Leave
<1>5. SpentIsKnown'
  BY DEF IInv, OneHandler, SpentIsKnown, Throw, bitcoin, LostRecord
<1>6. RecordIsSpender'
  BY DEF IInv, RecordIsSpender, Throw, bitcoin
<1>. QED
  BY <1>1, <1>2, <1>3, <1>4, <1>5, <1>6 DEF IInv

\* IInv is inductive: one case per action of Next.
LEMMA NextIInv == IInv /\ [Next]_vars => IInv'
<1>. SUFFICES ASSUME IInv, [Next]_vars PROVE IInv'
  OBVIOUS
<1>1. CASE \E h \in HTLCs : RefundHTLC(h) \/ Confirm(h) \/ Evict(h) \/ ScriptRedeems(h)
  BY <1>1, RefundHTLCStep, ConfirmStep, EvictStep, ScriptRedeemsStep
<1>2. CASE \E j \in Jobs, h \in HTLCs : EventJobHandler(j, h)
  BY <1>2, EventJobHandlerStep
<1>3. CASE \E j \in Jobs : StartJob(j) \/ Crash(j)
  BY <1>3, StartJobStep, CrashStep
<1>4. CASE \E j \in Jobs : Handle(j)
  BY <1>4, GetRedeemedHTLCStep, GetFullInboundStep, GetFeeRateStep, BroadcastStep, BroadcastTimeoutStep, SetRedeemedHTLCStep, ThrowStep
  DEF Handle
<1>5. CASE UNCHANGED vars
  BY <1>5
  DEF IInv, TypeOK, OneHandler, Unredeemed, InHand, SpentIsKnown,
      RecordIsSpender, vars, bitcoin, queue, handler
<1>. QED
  BY <1>1, <1>2, <1>3, <1>4, <1>5 DEF Next

\* IInv holds in every reachable state.
LEMMA Invariance == Spec => []IInv
BY InitIInv, NextIInv, PTL DEF Spec

-----------------------------------------------------------------------------
(* The theorems.                                                           *)

\* Every variable stays within its type; no job exceeds its attempts.
THEOREM TypeCorrect == Spec => []TypeOK
<1>1. IInv => TypeOK
  BY DEF IInv
<1>. QED
  BY <1>1, Invariance, PTL

\* What is on record spends its HTLC, but for a user's refund, an eviction
\* and a redeem that was never recorded.
THEOREM RecordedRedeemSpends == Spec => []RecordIsSpender
<1>1. IInv => RecordIsSpender
  BY DEF IInv
<1>. QED
  BY <1>1, Invariance, PTL

\* Only setRedeemedHTLC writes a record, and its handler has found none.
LEMMA StepKeepsRecords ==
    ASSUME IInv, [Next]_vars, NEW h \in HTLCs, redeemedHTLC[h] # NoTx
    PROVE  redeemedHTLC'[h] = redeemedHTLC[h]
<1>1. CASE redeemedHTLC' = redeemedHTLC
  BY <1>1
<1>2. CASE \E j \in Jobs : SetRedeemedHTLC(j)
  BY <1>2 DEF SetRedeemedHTLC, IInv, Unredeemed
<1>3. redeemedHTLC' = redeemedHTLC \/ \E j \in Jobs : SetRedeemedHTLC(j)
  BY DEF Next, Handle, RefundHTLC, Confirm, Evict, ScriptRedeems, EventJobHandler,
      StartJob, Crash, GetRedeemedHTLC, GetFullInbound, GetFeeRate, Broadcast,
      BroadcastTimeout, Throw, vars
<1>. QED
  BY <1>2, <1>3

\* No step changes a record, whatever is retried, delivered again or crashes.
THEOREM RecordsAreFinal == Spec => RecordIsFinal
<1>1. IInv /\ [Next]_vars =>
          [\A h \in HTLCs : redeemedHTLC[h] # NoTx => redeemedHTLC'[h] = redeemedHTLC[h]]_vars
  BY StepKeepsRecords
<1>. QED
  BY <1>1, Invariance, PTL DEF Spec, RecordIsFinal
=============================================================================
