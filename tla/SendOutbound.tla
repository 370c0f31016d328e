---------------------------- MODULE SendOutbound ----------------------------
(***************************************************************************)
(* The send-outbound worker (src/processors/outbound.ts, the queue of      *)
(* src/worker/queues.ts): for every initiate-outbound event of the Stacks  *)
(* contract it decides whether the supplier owes the swap a Bitcoin        *)
(* payment, broadcasts that payment and records it in Redis.               *)
(*                                                                         *)
(* A handler is suspended at every await, so each await is a step of its   *)
(* own; the value of step[j] names the call the handler of job j is about  *)
(* to make.  Between two steps the chains move, the process may crash, and *)
(* any awaited call may reject.  The two chains, the operator and the      *)
(* finalizer are the environment.                                          *)
(***************************************************************************)
EXTENDS Integers, FiniteSets

CONSTANTS
    Swaps,        \* outbound swap ids
    OwnSwaps,     \* those whose print.supplier is this supplier's id
    Jobs,         \* identities of the jobs of the send-outbound queue
    Txids,        \* Bitcoin transaction ids
    NoTx,         \* null: no txid
    SendCutoff,   \* age in burn blocks at which a swap is no longer sent (190)
    Expiry,       \* age in burn blocks at which the user may revoke a swap
    MaxHeight,    \* bound: burn blocks mined
    MaxFaults     \* bound: crashes, lost acknowledgements and failed writes

ASSUME SwapsAssumption == OwnSwaps \subseteq Swaps
ASSUME NoTxAssumption == NoTx \notin Txids
ASSUME AgeAssumption ==
    /\ SendCutoff \in Nat
    /\ Expiry \in Nat
    /\ SendCutoff <= Expiry
ASSUME BoundAssumption == MaxHeight \in Nat /\ MaxFaults \in Nat

VARIABLES
    contract,          \* what the contract says of a swap
    createdAt,         \* burn height at which the swap was initiated
    height,            \* burn_block_height of fetchCoreInfo
    payments,          \* payment transactions the Bitcoin network accepted
    sentOutbound,      \* Redis SentOutbound::<id>
    pendingFinalized,  \* Redis set PendingFinalizedOutbound
    jobState,          \* Bull: the list a job is on
    jobSwap,           \* print.swapId of the job's event
    stalls,            \* Bull: how often a job was found stalled
    step,              \* handler: the await it is suspended at
    eventCreatedAt,    \* handler: print.createdAt of the event it read
    cached,            \* handler: result of getSentOutbound
    currentBlock,      \* handler: result of fetchCoreInfo
    sentTxid,          \* handler: result of sendOutbound
    faults,            \* bound: faults so far
    reorged,           \* history: swaps whose settlement a fork undid
    orphans,           \* history: payments whose txid was never recorded
    stranded           \* history: recorded payments never handed to the finalizer

chains   == <<contract, createdAt, height, payments>>
store    == <<sentOutbound, pendingFinalized>>
queue    == <<jobState, jobSwap, stalls>>
handler  == <<step, eventCreatedAt, cached, currentBlock, sentTxid>>
history  == <<faults, reorged, orphans, stranded>>
vars     == <<chains, store, queue, handler, history>>

JobStates == {"unused", "waiting", "active", "completed", "failed"}
Steps     == {"idle", "deserialize", "getSent", "getFinalized", "getBlock", "send", "setSent", "setPending"}
Payments  == [swap : OwnSwaps, txid : Txids]
Settled   == {"finalized", "revoked"}

\* Bull re-runs a stalled job once (maxStalledCount), then fails it.
MaxStalls == 1

TypeOK ==
    /\ contract \in [Swaps -> {"absent", "open"} \cup Settled]
    /\ createdAt \in [Swaps -> 0 .. MaxHeight]
    /\ height \in 0 .. MaxHeight
    /\ payments \subseteq Payments
    /\ sentOutbound \in [Swaps -> Txids \cup {NoTx}]
    /\ pendingFinalized \subseteq Payments
    /\ jobState \in [Jobs -> JobStates]
    /\ jobSwap \in [Jobs -> Swaps]
    /\ stalls \in [Jobs -> 0 .. MaxStalls]
    /\ step \in [Jobs -> Steps]
    /\ eventCreatedAt \in [Jobs -> 0 .. MaxHeight]
    /\ cached \in [Jobs -> Txids \cup {NoTx}]
    /\ currentBlock \in [Jobs -> 0 .. MaxHeight]
    /\ sentTxid \in [Jobs -> Txids \cup {NoTx}]
    /\ faults \in 0 .. MaxFaults
    /\ reorged \subseteq Swaps
    /\ orphans \subseteq payments
    /\ stranded \subseteq Payments

Init ==
    /\ contract = [s \in Swaps |-> "absent"]
    /\ createdAt = [s \in Swaps |-> 0]
    /\ height = 0
    /\ payments = {}
    /\ sentOutbound = [s \in Swaps |-> NoTx]
    /\ pendingFinalized = {}
    /\ jobState = [j \in Jobs |-> "unused"]
    /\ jobSwap \in [Jobs -> Swaps]
    /\ stalls = [j \in Jobs |-> 0]
    /\ step = [j \in Jobs |-> "idle"]
    /\ eventCreatedAt = [j \in Jobs |-> 0]
    /\ cached = [j \in Jobs |-> NoTx]
    /\ currentBlock = [j \in Jobs |-> 0]
    /\ sentTxid = [j \in Jobs |-> NoTx]
    /\ faults = 0
    /\ reorged = {}
    /\ orphans = {}
    /\ stranded = {}

-----------------------------------------------------------------------------
(* The environment: the contract, the Bitcoin chain and the finalizer.     *)

\* After a fork the transaction is mined again, in a later block.
Initiate(s) ==
    /\ contract[s] = "absent"
    /\ contract' = [contract EXCEPT ![s] = "open"]
    /\ createdAt' = [createdAt EXCEPT ![s] = height]
    /\ UNCHANGED <<height, payments, store, queue, handler, history>>

MineBlock ==
    /\ height < MaxHeight
    /\ height' = height + 1
    /\ UNCHANGED <<contract, createdAt, payments, store, queue, handler, history>>

\* finalize-outbound-swap wants a proof of a payment to the swap.
Finalize(s) ==
    /\ contract[s] = "open"
    /\ \E p \in payments : p.swap = s
    /\ contract' = [contract EXCEPT ![s] = "finalized"]
    /\ UNCHANGED <<createdAt, height, payments, store, queue, handler, history>>

Revoke(s) ==
    /\ contract[s] = "open"
    /\ height - createdAt[s] >= Expiry
    /\ contract' = [contract EXCEPT ![s] = "revoked"]
    /\ UNCHANGED <<createdAt, height, payments, store, queue, handler, history>>

\* A fork undoes the last thing that happened to a swap.
Undo(s) ==
    /\ faults < MaxFaults
    /\ faults' = faults + 1
    /\ \/ /\ contract[s] = "open"
          /\ contract' = [contract EXCEPT ![s] = "absent"]
          /\ UNCHANGED reorged
       \/ /\ contract[s] \in Settled
          /\ contract' = [contract EXCEPT ![s] = "open"]
          /\ reorged' = reorged \cup {s}
    /\ UNCHANGED <<createdAt, height, payments, store, queue, handler, orphans, stranded>>

\* The contract settled the swap, whether or not a fork undid it since.
WasSettled(s) == contract[s] \in Settled \/ s \in reorged

\* The finalizer forgets a listed payment whose swap was settled.
Unlist(p) ==
    /\ p \in pendingFinalized
    /\ WasSettled(p.swap)
    /\ pendingFinalized' = pendingFinalized \ {p}
    /\ UNCHANGED <<chains, sentOutbound, queue, handler, history>>

-----------------------------------------------------------------------------
(* The queue.                                                              *)

\* eventJobHandler adds a job for an initiate-outbound event.  Of the event
\* the job keeps the transaction and the index, which stand for the swap.  The
\* event cron may deliver an event again, so a swap may have several jobs.
EventJobHandler(j, s) ==
    /\ jobState[j] = "unused"
    /\ contract[s] # "absent"
    /\ jobState' = [jobState EXCEPT ![j] = "waiting"]
    /\ jobSwap' = [jobSwap EXCEPT ![j] = s]
    /\ UNCHANGED <<chains, store, stalls, handler, history>>

\* process(1, ...): the worker takes a job only when it runs no other.
Idle_Parallel == TRUE
Idle == \A j \in Jobs : jobState[j] # "active"

\* Leave the handler of every job in J: its locals are gone.
Leave(J) ==
    /\ step' = [j \in Jobs |-> IF j \in J THEN "idle" ELSE step[j]]
    /\ eventCreatedAt' = [j \in Jobs |-> IF j \in J THEN 0 ELSE eventCreatedAt[j]]
    /\ cached' = [j \in Jobs |-> IF j \in J THEN NoTx ELSE cached[j]]
    /\ currentBlock' = [j \in Jobs |-> IF j \in J THEN 0 ELSE currentBlock[j]]
    /\ sentTxid' = [j \in Jobs |-> IF j \in J THEN NoTx ELSE sentTxid[j]]

\* The handler of job j returns (completed) or throws (failed).
Return(j, outcome) ==
    /\ jobState' = [jobState EXCEPT ![j] = outcome]
    /\ Leave({j})

Suspend(j, call) == step' = [step EXCEPT ![j] = call]

\* What the handlers of the jobs in J have paid and not recorded, or recorded
\* and not listed: it is lost when they stop where they are.
PaymentOf(j) == [swap |-> jobSwap[j], txid |-> sentTxid[j]]
Unrecorded(J) == {PaymentOf(j) : j \in {k \in J : step[k] = "setSent"}} \cap payments
Unlisted(J) == {PaymentOf(j) : j \in {k \in J : step[k] = "setPending"}}

Abandon(J) ==
    /\ orphans' = orphans \cup Unrecorded(J)
    /\ stranded' = stranded \cup Unlisted(J)
    /\ UNCHANGED reorged

\* The worker takes a job.
StartJob(j) ==
    /\ jobState[j] = "waiting"
    /\ Idle
    /\ jobState' = [jobState EXCEPT ![j] = "active"]
    /\ Suspend(j, "deserialize")
    /\ UNCHANGED <<chains, store, jobSwap, stalls, eventCreatedAt, cached, currentBlock, sentTxid, history>>

\* The queue has no retries of its own; Bull Board's retry puts a failed job
\* back.
RetryFailed(j) ==
    /\ jobState[j] = "failed"
    /\ jobState' = [jobState EXCEPT ![j] = "waiting"]
    /\ UNCHANGED <<chains, store, jobSwap, stalls, handler, history>>

\* The process dies and is restarted; Bull finds its active jobs stalled.
Crash ==
    LET active == {j \in Jobs : jobState[j] = "active"}
    IN  /\ active # {}
        /\ faults < MaxFaults
        /\ faults' = faults + 1
        /\ jobState' = [j \in Jobs |->
               IF j \notin active THEN jobState[j]
               ELSE IF stalls[j] < MaxStalls THEN "waiting" ELSE "failed"]
        /\ stalls' = [j \in Jobs |->
               IF j \in active /\ stalls[j] < MaxStalls THEN stalls[j] + 1 ELSE stalls[j]]
        /\ Leave(active)
        /\ Abandon(active)
        /\ UNCHANGED <<chains, store, jobSwap>>

-----------------------------------------------------------------------------
(* The handler: deserializeJob, then processOutboundSwap.                  *)

\* Every run of a job reads the event again, as it is on the chain by then:
\* 'Invalid tx - not confirmed' where a fork took the initiation away.
\* Another supplier's event is skipped.
DeserializeJob(j) ==
    /\ step[j] = "deserialize"
    /\ \/ /\ contract[jobSwap[j]] = "absent"
          /\ Return(j, "failed")
       \/ /\ contract[jobSwap[j]] # "absent" /\ jobSwap[j] \notin OwnSwaps
          /\ Return(j, "completed")
       \/ /\ contract[jobSwap[j]] # "absent" /\ jobSwap[j] \in OwnSwaps
          /\ eventCreatedAt' = [eventCreatedAt EXCEPT ![j] = createdAt[jobSwap[j]]]
          /\ Suspend(j, "getSent")
          /\ UNCHANGED <<jobState, cached, currentBlock, sentTxid>>
    /\ UNCHANGED <<chains, store, jobSwap, stalls, history>>

GetSentOutbound(j) ==
    /\ step[j] = "getSent"
    /\ cached' = [cached EXCEPT ![j] = sentOutbound[jobSwap[j]]]
    /\ Suspend(j, "getFinalized")
    /\ UNCHANGED <<chains, store, queue, eventCreatedAt, currentBlock, sentTxid, history>>

\* cached || finalized: the swap was sent before, or is settled (a revoked
\* swap has the truthy txid '00').
AlreadySent_NoCache(j) == contract[jobSwap[j]] \in Settled
AlreadySent(j) == cached[j] # NoTx \/ contract[jobSwap[j]] \in Settled

GetOutboundFinalizedTxid(j) ==
    /\ step[j] = "getFinalized"
    /\ \/ /\ AlreadySent(j)
          /\ Return(j, "completed")
       \/ /\ ~AlreadySent(j)
          /\ Suspend(j, "getBlock")
          /\ UNCHANGED <<jobState, eventCreatedAt, cached, currentBlock, sentTxid>>
    /\ UNCHANGED <<chains, store, jobSwap, stalls, history>>

\* is it about to expire?
AboutToExpire_OffByOne(j) == height - eventCreatedAt[j] > SendCutoff
AboutToExpire_HeightOnly(j) == height >= SendCutoff
AboutToExpire(j) == height - eventCreatedAt[j] >= SendCutoff

FetchCoreInfo(j) ==
    /\ step[j] = "getBlock"
    /\ \/ /\ AboutToExpire(j)
          /\ Return(j, "completed")
       \/ /\ ~AboutToExpire(j)
          /\ currentBlock' = [currentBlock EXCEPT ![j] = height]
          /\ Suspend(j, "send")
          /\ UNCHANGED <<jobState, eventCreatedAt, cached, sentTxid>>
    /\ UNCHANGED <<chains, store, jobSwap, stalls, history>>

\* A txid no transaction of this behaviour has.
Fresh(t) ==
    /\ t # NoTx
    /\ \A p \in payments : p.txid # t
    /\ \A s \in Swaps : sentOutbound[s] # t
    /\ \A j \in Jobs : sentTxid[j] # t

\* sendBtc: the network accepts the transaction.
Broadcast(j) ==
    /\ step[j] = "send"
    /\ \E t \in Txids :
        /\ Fresh(t)
        /\ payments' = payments \cup {[swap |-> jobSwap[j], txid |-> t]}
        /\ sentTxid' = [sentTxid EXCEPT ![j] = t]
    /\ Suspend(j, "setSent")
    /\ UNCHANGED <<contract, createdAt, height, store, queue, eventCreatedAt, cached, currentBlock, history>>

\* tryBroadcast takes an inputs-missingorspent rejection for a transaction
\* broadcast before: sendBtc still returns its id, but nothing was paid.
BroadcastRejected(j) ==
    /\ step[j] = "send"
    /\ \E t \in Txids :
        /\ Fresh(t)
        /\ sentTxid' = [sentTxid EXCEPT ![j] = t]
    /\ Suspend(j, "setSent")
    /\ UNCHANGED <<chains, store, queue, eventCreatedAt, cached, currentBlock, history>>

\* The network accepts the transaction but the acknowledgement is lost:
\* tryBroadcast throws, and the job fails with the payment made.
BroadcastUnacknowledged(j) ==
    /\ step[j] = "send"
    /\ faults < MaxFaults
    /\ faults' = faults + 1
    /\ \E t \in Txids :
        /\ Fresh(t)
        /\ payments' = payments \cup {[swap |-> jobSwap[j], txid |-> t]}
        /\ orphans' = orphans \cup {[swap |-> jobSwap[j], txid |-> t]}
    /\ Return(j, "failed")
    /\ UNCHANGED <<contract, createdAt, height, store, jobSwap, stalls, reorged, stranded>>

SetSentOutbound(j) ==
    /\ step[j] = "setSent"
    /\ sentOutbound' = [sentOutbound EXCEPT ![jobSwap[j]] = sentTxid[j]]
    /\ Suspend(j, "setPending")
    /\ UNCHANGED <<chains, pendingFinalized, queue, eventCreatedAt, cached, currentBlock, sentTxid, history>>

\* The member of the Redis set carries the swap and the payment's txid.
Listing_NotAdded(j) == {}
Listing_Cached(j) == {[swap |-> jobSwap[j], txid |-> cached[j]]}
Listing(j) == {PaymentOf(j)}

SetPendingFinalizedOutbound(j) ==
    /\ step[j] = "setPending"
    /\ pendingFinalized' = pendingFinalized \cup Listing(j)
    /\ Return(j, "completed")
    /\ UNCHANGED <<chains, sentOutbound, jobSwap, stalls, history>>

\* An awaited call rejects: no coins, a transaction over maxSize, a refused
\* broadcast, an API or Redis error.  After the broadcast this is a fault.
Throw(j) ==
    /\ step[j] # "idle"
    /\ IF step[j] \in {"setSent", "setPending"}
       THEN faults < MaxFaults /\ faults' = faults + 1
       ELSE UNCHANGED faults
    /\ Return(j, "failed")
    /\ Abandon({j})
    /\ UNCHANGED <<chains, store, jobSwap, stalls>>

-----------------------------------------------------------------------------
Handle(j) ==
    \/ DeserializeJob(j)
    \/ GetSentOutbound(j)
    \/ GetOutboundFinalizedTxid(j)
    \/ FetchCoreInfo(j)
    \/ Broadcast(j)
    \/ BroadcastRejected(j)
    \/ BroadcastUnacknowledged(j)
    \/ SetSentOutbound(j)
    \/ SetPendingFinalizedOutbound(j)
    \/ Throw(j)

Next ==
    \/ \E s \in Swaps : Initiate(s) \/ Finalize(s) \/ Revoke(s) \/ Undo(s)
    \/ \E p \in pendingFinalized : Unlist(p)
    \/ MineBlock
    \/ \E j \in Jobs, s \in Swaps : EventJobHandler(j, s)
    \/ \E j \in Jobs : StartJob(j) \/ RetryFailed(j) \/ Handle(j)
    \/ Crash

Spec == Init /\ [][Next]_vars

\* The event loop runs a handler whose await has settled.  Nothing says that
\* sendBtc settles: a leader's requests to its followers have no timeout.
\* Bull serves waiting jobs in order, so a job that waits again and again is
\* taken.
Fairness ==
    /\ \A j \in Jobs : WF_vars(step[j] # "send" /\ Handle(j))
    /\ \A j \in Jobs : SF_vars(StartJob(j))

FairSpec == Spec /\ Fairness

-----------------------------------------------------------------------------
(* Properties.                                                             *)

\* No swap is paid twice, but for payments whose record was lost between
\* the broadcast (sendBtc) and setSentOutbound: a job delivered twice, a
\* retried job or a stalled job finds the record and skips.
PaidOnce ==
    \A p, q \in payments \ orphans : p.swap = q.swap => p = q

\* The recorded payment of swap s is in the finalizer's set, or a handler is
\* about to put it there, or a fault hit exactly in between.
RecordOf(s) == [swap |-> s, txid |-> sentOutbound[s]]
Listed(s) ==
    \/ RecordOf(s) \in pendingFinalized \cup stranded
    \/ \E j \in Jobs : step[j] = "setPending" /\ PaymentOf(j) = RecordOf(s)

\* A payment recorded for a swap that was never settled reaches the finalizer
\* and stays there, also while a fork keeps the swap off the contract:
\* setSentOutbound is followed by setPendingFinalizedOutbound, and only a
\* settlement, be it of a branch that loses, removes the listing.
RecordedIsListed ==
    \A s \in Swaps : sentOutbound[s] # NoTx /\ ~WasSettled(s) => Listed(s)

\* The record of a sent swap is never replaced, and no further payment of
\* the swap is broadcast once it is there.
SentIsFinal ==
    [][\A s \in Swaps : sentOutbound[s] # NoTx =>
          /\ sentOutbound'[s] = sentOutbound[s]
          /\ \A p \in payments' : p.swap = s => p \in payments]_vars

\* A swap whose user has already revoked it and taken the escrow back is paid
\* only by a handler that was held up for longer than the blocks the cutoff
\* leaves to the expiry, however the swap came on the chain, off it and on it
\* again: whatever the handler took less time for is paid before the user can
\* revoke.  (Nothing bounds the time: see Fairness.)
HeldUp(j) == step[j] = "send" /\ height - currentBlock[j] > Expiry - SendCutoff

RevokedPaidOnlyLate ==
    [][\A p \in payments' \ payments : contract[p.swap] = "revoked" =>
          \E j \in Jobs : jobSwap[j] = p.swap /\ HeldUp(j)]_vars

\* The handler is about to judge the age of swap s by an event that a fork
\* replaced after it was read.
Outdated(j, s) ==
    step[j] = "getBlock" /\ jobSwap[j] = s /\ eventCreatedAt[j] # createdAt[s]

\* A job waiting for an own swap never ends in silence: the swap gets its
\* record, is settled on the contract, or is too old to be sent (a retried job
\* goes by the initiation the chain has by then; only one that a fork hits
\* between its two reads may go by another), or the job is on the failed list,
\* where the operator sees it, or the worker waits for ever in sendBtc.
OwedIsDecided ==
    \A j \in Jobs, s \in OwnSwaps :
        (jobState[j] = "waiting" /\ jobSwap[j] = s)
            ~> \/ sentOutbound[s] # NoTx
               \/ contract[s] \in Settled
               \/ height - createdAt[s] >= SendCutoff
               \/ \E k \in Jobs : Outdated(k, s)
               \/ jobState[j] = "failed"
               \/ [](\E k \in Jobs : step[k] = "send")

\* The payments that were ever handed to the finalizer: those on record but
\* for one that is about to be, and those a fault stranded.
Followed ==
    {p \in Payments : sentOutbound[p.swap] = p.txid} \ (stranded \cup Unlisted(Jobs))

Outbound == INSTANCE OutboundSwap WITH
    settled   <- {s \in Swaps : WasSettled(s)},
    paid      <- payments,
    listed    <- pendingFinalized,
    forgotten <- Followed \ pendingFinalized

\* The worker implements its part of the supplier's promise: it hands the
\* finalizer at most one payment of a swap, once, and pays no swap that has
\* one, through crashes, retries, forks and duplicate events.
ImplementsOutboundSwap == Outbound!Spec

\* No swap is paid twice, whatever fails.
NeverPaidTwice ==
    \A p, q \in payments : p.swap = q.swap => p = q
=============================================================================
