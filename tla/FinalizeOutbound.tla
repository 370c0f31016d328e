-------------------------- MODULE FinalizeOutbound --------------------------
(***************************************************************************)
(* The finalize-outbound cron (src/processors/finalize-outbound.ts): every *)
(* run walks the Redis set of sent payments and, for each, decides from    *)
(* the Bitcoin transaction, the recorded Stacks transaction and the        *)
(* contract whether to submit finalize-outbound-swap, to wait, or to       *)
(* forget the payment.                                                     *)
(*                                                                         *)
(* The run is one handler suspended at its awaits (step); between two of   *)
(* them blocks are mined, transactions are dropped or orphaned, the user   *)
(* revokes, an operator's script sends a transaction from the same         *)
(* account, the process crashes, or the call's answer is lost.             *)
(***************************************************************************)
EXTENDS Integers, FiniteSets

CONSTANTS
    Swaps,      \* outbound swap ids
    Txids,      \* Bitcoin transaction ids
    Members,    \* possible members "id::txid" of the Redis set
    StxTxids,   \* Stacks transaction ids
    NoTx,       \* null: no Stacks txid
    NoMember,   \* the loop is between two members
    NoSwap,     \* a transaction that finalizes nothing
    MaxScripts, \* bound: transactions of the operator's scripts
    MaxFaults   \* bound: errors, crashes, lost answers, forks, dropped transactions

\* A Bitcoin transaction pays one swap.
ASSUME MembersAssumption ==
    /\ Members \subseteq [swap : Swaps, txid : Txids]
    /\ \A m, k \in Members : m.txid = k.txid => m = k
ASSUME StxTxidsAssumption == IsFiniteSet(StxTxids)
ASSUME NullsAssumption == NoTx \notin StxTxids /\ NoMember \notin Members /\ NoSwap \notin Swaps
ASSUME BoundAssumption == MaxScripts \in Nat /\ MaxFaults \in Nat

VARIABLES
    contract,           \* what the contract says of a swap
    btcTx,              \* Electrum: status of a Bitcoin transaction
    stxTx,              \* Stacks API: tx_status of a Stacks transaction
    stxSwap, stxNonce,  \* its swap-id argument and its nonce
    accountNonce,       \* the supplier's next nonce in the chain state
    scriptNonce,        \* the nonce an operator's script fetched, or none
    pendingFinalized,   \* Redis set PendingFinalizedOutbound
    finalizedOutbound,  \* Redis FinalizedOutbound::<id>
    step,               \* run: the await it is suspended at
    members,            \* run: members still to visit
    member,             \* run: the member being visited
    nonce, processed,   \* run: fetched nonce, transactions submitted
    stxTxid,            \* run: the Stacks txid in hand
    faults,             \* bound: faults so far
    removed,            \* history: members removed from the set
    mine,               \* history: transactions broadcast by this run
    unrecorded,         \* history: transactions that never got into Redis
    reorged,            \* history: swaps whose settlement a fork undid
    revived             \* history: failed transactions a fork made pending again

env    == <<contract, btcTx, stxTx, stxSwap, stxNonce, accountNonce, scriptNonce>>
store  == <<pendingFinalized, finalizedOutbound>>
locals == <<members, member, nonce, processed, stxTxid>>
vars   == <<env, store, step, locals, faults, removed, mine, unrecorded, reorged, revived>>

Settled == {"finalized", "revoked"}
Steps   == {"idle", "fetchNonce", "btcTx", "getFinalized", "getSwap", "getTx",
            "getCompleted", "remove", "txData", "broadcast", "setFinalized"}
Nonces  == 0 .. Cardinality(StxTxids)

TypeOK ==
    /\ contract \in [Swaps -> {"absent", "open"} \cup Settled]
    /\ btcTx \in [Txids -> {"unknown", "mempool", "confirmed", "evicted"}]
    /\ stxTx \in [StxTxids -> {"unused", "pending", "success", "failed", "dropped"}]
    /\ stxSwap \in [StxTxids -> Swaps \cup {NoSwap}]
    /\ stxNonce \in [StxTxids -> Nonces]
    /\ accountNonce \in Nonces
    /\ scriptNonce \subseteq Nonces
    /\ pendingFinalized \subseteq Members
    /\ finalizedOutbound \in [Swaps -> StxTxids \cup {NoTx}]
    /\ step \in Steps
    /\ members \subseteq Members
    /\ member \in Members \cup {NoMember}
    /\ nonce \in Nonces /\ processed \in Nonces
    /\ stxTxid \in StxTxids \cup {NoTx}
    /\ faults \in 0 .. MaxFaults
    /\ removed \subseteq Members
    /\ mine \subseteq StxTxids /\ unrecorded \subseteq StxTxids
    /\ reorged \subseteq Swaps /\ revived \subseteq StxTxids

Init ==
    /\ contract = [s \in Swaps |-> "open"]
    /\ btcTx = [x \in Txids |-> "unknown"]
    /\ stxTx = [i \in StxTxids |-> "unused"]
    /\ stxSwap = [i \in StxTxids |-> NoSwap]
    /\ stxNonce = [i \in StxTxids |-> 0]
    /\ accountNonce = 0 /\ scriptNonce = {}
    /\ pendingFinalized = {}
    /\ finalizedOutbound = [s \in Swaps |-> NoTx]
    /\ step = "idle"
    /\ members = {} /\ member = NoMember
    /\ nonce = 0 /\ processed = 0
    /\ stxTxid = NoTx
    /\ faults = 0
    /\ removed = {} /\ mine = {} /\ unrecorded = {} /\ reorged = {} /\ revived = {}

Fault == faults < MaxFaults /\ faults' = faults + 1

-----------------------------------------------------------------------------
(* The environment.                                                        *)

\* The send-outbound worker pays a swap and lists the payment.  What it may
\* do is what it is shown to do in SendOutbound: one payment is listed for a
\* swap, and the id of a payment the network refused (btcTx "unknown") too.
Pay(m) ==
    /\ \A k \in pendingFinalized \cup removed : k.swap # m.swap
    /\ btcTx[m.txid] = "unknown"
    /\ btcTx' = [btcTx EXCEPT ![m.txid] = "mempool"]
    /\ UNCHANGED <<contract, stxTx, stxSwap, stxNonce, accountNonce, scriptNonce, store, step, locals,
                   faults, removed, mine, unrecorded, reorged, revived>>

List(m) ==
    /\ \A k \in pendingFinalized \cup removed : k.swap # m.swap
    /\ pendingFinalized' = pendingFinalized \cup {m}
    /\ UNCHANGED <<env, finalizedOutbound, step, locals, faults, removed, mine, unrecorded, reorged, revived>>

ConfirmBtc(x) ==
    /\ btcTx[x] = "mempool"
    /\ btcTx' = [btcTx EXCEPT ![x] = "confirmed"]
    /\ UNCHANGED <<contract, stxTx, stxSwap, stxNonce, accountNonce, scriptNonce, store, step, locals,
                   faults, removed, mine, unrecorded, reorged, revived>>

\* Nothing broadcasts an evicted payment again.
EvictBtc(x) ==
    /\ btcTx[x] = "mempool"
    /\ Fault
    /\ btcTx' = [btcTx EXCEPT ![x] = "evicted"]
    /\ UNCHANGED <<contract, stxTx, stxSwap, stxNonce, accountNonce, scriptNonce, store, step, locals,
                   removed, mine, unrecorded, reorged, revived>>

Revoke(s) ==
    /\ contract[s] = "open"
    /\ contract' = [contract EXCEPT ![s] = "revoked"]
    /\ UNCHANGED <<btcTx, stxTx, stxSwap, stxNonce, accountNonce, scriptNonce, store, step, locals,
                   faults, removed, mine, unrecorded, reorged, revived>>

\* The swaps transaction i would settle.
Settles(i) == {s \in Swaps : s = stxSwap[i] /\ contract[s] = "open"}

\* A Stacks block takes the supplier's next transaction.  The contract
\* finalizes an open swap and aborts for any other; it may refuse the proof.
MineStx(i) ==
    /\ stxTx[i] = "pending" /\ stxNonce[i] = accountNonce
    /\ accountNonce' = accountNonce + 1
    /\ \/ /\ Settles(i) # {} \/ stxSwap[i] = NoSwap
          /\ contract' = [s \in Swaps |-> IF s \in Settles(i) THEN "finalized" ELSE contract[s]]
          /\ stxTx' = [stxTx EXCEPT ![i] = "success"]
          /\ UNCHANGED faults
       \/ /\ stxSwap[i] # NoSwap
          /\ IF Settles(i) # {} THEN Fault ELSE UNCHANGED faults
          /\ stxTx' = [stxTx EXCEPT ![i] = "failed"]
          /\ UNCHANGED contract
    /\ UNCHANGED <<btcTx, stxSwap, stxNonce, scriptNonce, store, step, locals, removed, mine, unrecorded, reorged, revived>>

\* The mempool forgets a transaction.
DropStx(i) ==
    /\ stxTx[i] = "pending"
    /\ Fault
    /\ stxTx' = [stxTx EXCEPT ![i] = "dropped"]
    /\ UNCHANGED <<contract, btcTx, stxSwap, stxNonce, accountNonce, scriptNonce, store, step, locals,
                   removed, mine, unrecorded, reorged, revived>>

\* Statuses are read unanchored: the (micro)block with the supplier's last
\* transaction may be orphaned and the transaction returns to the mempool.
OrphanStx(i) ==
    /\ stxTx[i] \in {"success", "failed"} /\ stxNonce[i] = accountNonce - 1
    /\ Fault
    /\ stxTx' = [stxTx EXCEPT ![i] = "pending"]
    /\ accountNonce' = accountNonce - 1
    /\ \/ /\ stxTx[i] = "success"
          /\ contract' = [s \in Swaps |-> IF s = stxSwap[i] THEN "open" ELSE contract[s]]
          /\ reorged' = reorged \cup ({stxSwap[i]} \ {NoSwap})
          /\ UNCHANGED revived
       \/ /\ stxTx[i] = "failed"
          /\ revived' = revived \cup {i}
          /\ UNCHANGED <<contract, reorged>>
    /\ UNCHANGED <<btcTx, stxSwap, stxNonce, scriptNonce, store, step, locals, removed, mine, unrecorded>>

\* A fork drops the user's last transaction; it may be mined again.
OrphanSwap(s) ==
    /\ Fault
    /\ \/ /\ contract[s] = "open"
          /\ contract' = [contract EXCEPT ![s] = "absent"]
          /\ UNCHANGED reorged
       \/ /\ contract[s] = "revoked"
          /\ contract' = [contract EXCEPT ![s] = "open"]
          /\ reorged' = reorged \cup {s}
    /\ UNCHANGED <<btcTx, stxTx, stxSwap, stxNonce, accountNonce, scriptNonce, store, step, locals,
                   removed, mine, unrecorded, revived>>

ReinitiateSwap(s) ==
    /\ contract[s] = "absent"
    /\ contract' = [contract EXCEPT ![s] = "open"]
    /\ UNCHANGED <<btcTx, stxTx, stxSwap, stxNonce, accountNonce, scriptNonce, store, step, locals,
                   faults, removed, mine, unrecorded, reorged, revived>>

-----------------------------------------------------------------------------
(* The supplier's Stacks account, shared by the run and the scripts.       *)

\* possible_next_nonce counts the mempool; an index that lags misses a part.
PossibleNonces ==
    {accountNonce} \cup {stxNonce[i] + 1 : i \in {k \in StxTxids : stxTx[k] = "pending"}}

Conflicting(n) == {i \in StxTxids : stxTx[i] = "pending" /\ stxNonce[i] = n}

Unused == {i \in StxTxids : stxTx[i] = "unused"}
NewStxTxid == CHOOSE i \in Unused : TRUE

\* The node takes a transaction with nonce n, in place of a pending one that
\* pays a lower fee.
Accept(n, s) ==
    /\ Unused # {}
    /\ n >= accountNonce
    /\ stxTx' = [i \in StxTxids |->
           IF i = NewStxTxid THEN "pending" ELSE IF i \in Conflicting(n) THEN "dropped" ELSE stxTx[i]]
    /\ stxSwap' = [stxSwap EXCEPT ![NewStxTxid] = s]
    /\ stxNonce' = [stxNonce EXCEPT ![NewStxTxid] = n]

\* broadcastAndLog of a script: it fetches the nonce, and some time later
\* broadcasts or is refused.
ScriptFetchesNonce ==
    /\ scriptNonce = {}
    /\ Cardinality({i \in StxTxids \ Unused : stxSwap[i] = NoSwap}) < MaxScripts
    /\ \E n \in PossibleNonces : scriptNonce' = {n}
    /\ UNCHANGED <<contract, btcTx, stxTx, stxSwap, stxNonce, accountNonce, store, step, locals,
                   faults, removed, mine, unrecorded, reorged, revived>>

ScriptBroadcasts(n) ==
    /\ Accept(n, NoSwap)
    /\ IF Conflicting(n) = {} THEN UNCHANGED faults ELSE Fault
    /\ scriptNonce' = {}
    /\ UNCHANGED <<contract, btcTx, accountNonce, store, step, locals,
                   removed, mine, unrecorded, reorged, revived>>

ScriptRefused(n) ==
    /\ n < accountNonce \/ Conflicting(n) # {}
    /\ scriptNonce' = {}
    /\ UNCHANGED <<contract, btcTx, stxTx, stxSwap, stxNonce, accountNonce, store, step, locals,
                   faults, removed, mine, unrecorded, reorged, revived>>

-----------------------------------------------------------------------------
(* The run: processPendingOutbounds and, per member, finalizeOutbound and  *)
(* checkShouldFinalize.                                                    *)

Suspend(call) == step' = call

Stop ==
    /\ Suspend("idle")
    /\ members' = {} /\ member' = NoMember
    /\ nonce' = 0 /\ processed' = 0
    /\ stxTxid' = NoTx

\* On to the next member, with n transactions submitted so far.
Continue(left, n) ==
    \/ left = {} /\ Stop
    \/ /\ left # {}
       /\ Suspend("btcTx")
       /\ members' = left /\ member' = NoMember
       /\ processed' = n
       /\ stxTxid' = NoTx
       /\ UNCHANGED nonce

GetAllPendingFinalizedOutbound ==
    /\ step = "idle"
    /\ pendingFinalized # {}
    /\ members' = pendingFinalized
    /\ mine' = {}
    /\ Suspend("fetchNonce")
    /\ UNCHANGED <<env, store, member, nonce, processed, stxTxid, faults, removed, unrecorded, reorged, revived>>

FetchAccountNonce ==
    /\ step = "fetchNonce"
    /\ \E n \in PossibleNonces : nonce' = n
    /\ Suspend("btcTx")
    /\ UNCHANGED <<env, store, members, member, processed, stxTxid, faults, removed, mine, unrecorded, reorged, revived>>

\* finalizeOutbound begins with the Bitcoin transaction: unknown to Electrum
\* (or evicted) throws, unconfirmed waits.
CheckBtcTx(m) ==
    /\ step = "btcTx" /\ m \in members
    /\ \/ /\ btcTx[m.txid] = "confirmed"
          /\ member' = m
          /\ members' = members \ {m}
          /\ Suspend("getFinalized")
          /\ UNCHANGED <<nonce, processed, stxTxid>>
       \/ /\ btcTx[m.txid] # "confirmed"
          /\ Continue(members \ {m}, processed)
    /\ UNCHANGED <<env, store, faults, removed, mine, unrecorded, reorged, revived>>

GetFinalizedOutbound ==
    /\ step = "getFinalized"
    /\ stxTxid' = finalizedOutbound[member.swap]
    /\ Suspend(IF stxTxid' = NoTx THEN "txData" ELSE "getSwap")
    /\ UNCHANGED <<env, store, members, member, nonce, processed, faults, removed, mine, unrecorded, reorged, revived>>

\* A swap the contract does not know (a fork) is skipped but stays listed.
GetOutboundSwap ==
    /\ step = "getSwap"
    /\ \/ /\ contract[member.swap] = "absent"
          /\ Continue(members, processed)
       \/ /\ contract[member.swap] # "absent"
          /\ Suspend("getTx")
          /\ UNCHANGED locals
    /\ UNCHANGED <<env, store, faults, removed, mine, unrecorded, reorged, revived>>

\* The switch on tx_status: where the run goes from each status.
AfterStatus_RetryPending == [pending |-> "getCompleted", success |-> "remove",
                             failed |-> "getCompleted", dropped |-> "getCompleted"]
AfterStatus_PendingFallsThrough == [pending |-> "remove", success |-> "remove",
                                    failed |-> "getCompleted", dropped |-> "getCompleted"]
AfterStatus_RemoveFailed == [pending |-> "btcTx", success |-> "remove",
                             failed |-> "remove", dropped |-> "getCompleted"]
AfterStatus_Fallthrough == [pending |-> "btcTx", success |-> "btcTx",
                            failed |-> "getCompleted", dropped |-> "getCompleted"]
AfterStatus == [pending |-> "btcTx", success |-> "remove",
                failed |-> "getCompleted", dropped |-> "getCompleted"]

GetTransaction ==
    /\ step = "getTx"
    /\ LET after == AfterStatus[stxTx[stxTxid]]
       IN  \/ after = "btcTx" /\ Continue(members, processed)
           \/ after # "btcTx" /\ Suspend(after) /\ UNCHANGED locals
    /\ UNCHANGED <<env, store, faults, removed, mine, unrecorded, reorged, revived>>

\* Failed - should we try again? (yes until revoked)
GetOutboundFinalizedTxid ==
    /\ step = "getCompleted"
    /\ Suspend(IF contract[member.swap] \in Settled THEN "remove" ELSE "txData")
    /\ UNCHANGED <<env, store, locals, faults, removed, mine, unrecorded, reorged, revived>>

RemovePendingFinalizedOutbound ==
    /\ step = "remove"
    /\ pendingFinalized' = pendingFinalized \ {member}
    /\ removed' = removed \cup {member}
    /\ Continue(members, processed)
    /\ UNCHANGED <<env, finalizedOutbound, faults, mine, unrecorded, reorged, revived>>

\* Header, Merkle path and Stacks height of the payment (txData).
BuildProof ==
    /\ step = "txData"
    /\ Suspend("broadcast")
    /\ UNCHANGED <<env, store, locals, faults, removed, mine, unrecorded, reorged, revived>>

NextNonce == nonce + processed
BroadcastTransaction ==
    /\ step = "broadcast"
    /\ Accept(NextNonce, member.swap)
    /\ IF Conflicting(NextNonce) = {} THEN UNCHANGED faults ELSE Fault
    /\ mine' = mine \cup {NewStxTxid}
    /\ stxTxid' = NewStxTxid
    /\ Suspend("setFinalized")
    /\ UNCHANGED <<contract, btcTx, accountNonce, scriptNonce>>
    /\ UNCHANGED <<store, members, member, nonce, processed, removed, unrecorded, reorged, revived>>

\* 'error' in receipt: BadNonce or ConflictingNonceInMempool.
BroadcastRefused ==
    /\ step = "broadcast"
    /\ NextNonce < accountNonce \/ Conflicting(NextNonce) # {}
    /\ Continue(members, processed)
    /\ UNCHANGED <<env, store, faults, removed, mine, unrecorded, reorged, revived>>

\* The node takes the transaction but its receipt is lost: the catch logs an
\* error and the loop goes on as if nothing was sent.
BroadcastUnacknowledged ==
    /\ step = "broadcast"
    /\ Fault
    /\ Accept(NextNonce, member.swap)
    /\ mine' = mine \cup {NewStxTxid}
    /\ Continue(members, processed)
    /\ unrecorded' = unrecorded \cup {NewStxTxid}
    /\ UNCHANGED <<contract, btcTx, accountNonce, scriptNonce, store, removed, reorged, revived>>

\* if (success) processed += 1
SubmittedNow_NotCounted == processed
SubmittedNow_CountedTwice == processed + 2
SubmittedNow == processed + 1

SetFinalizedOutbound ==
    /\ step = "setFinalized"
    /\ finalizedOutbound' = [finalizedOutbound EXCEPT ![member.swap] = stxTxid]
    /\ Continue(members, SubmittedNow)
    /\ UNCHANGED <<env, pendingFinalized, faults, removed, mine, unrecorded, reorged, revived>>

LostRecord == IF step = "setFinalized" THEN {stxTxid} ELSE {}

\* A call for the member rejects, and the loop goes on.
Throw ==
    /\ step \notin {"idle", "fetchNonce"}
    /\ Fault
    /\ \E left \in IF step = "btcTx" THEN {members \ {m} : m \in members} ELSE {members} :
           Continue(left, processed)
    /\ unrecorded' = unrecorded \cup LostRecord
    /\ UNCHANGED <<env, store, removed, mine, reorged, revived>>

\* The process dies, or smembers or the nonce request rejects; the next
\* repetition of the cron starts over.
Crash ==
    /\ step # "idle"
    /\ Fault
    /\ Stop
    /\ unrecorded' = unrecorded \cup LostRecord
    /\ UNCHANGED <<env, store, removed, mine, reorged, revived>>

-----------------------------------------------------------------------------
Run ==
    \/ GetAllPendingFinalizedOutbound
    \/ FetchAccountNonce
    \/ \E m \in Members : CheckBtcTx(m)
    \/ GetFinalizedOutbound
    \/ GetOutboundSwap
    \/ GetTransaction
    \/ GetOutboundFinalizedTxid
    \/ RemovePendingFinalizedOutbound
    \/ BuildProof
    \/ BroadcastTransaction
    \/ BroadcastUnacknowledged
    \/ BroadcastRefused
    \/ SetFinalizedOutbound
    \/ Throw

Next ==
    \/ \E m \in Members : Pay(m) \/ List(m)
    \/ \E x \in Txids : ConfirmBtc(x) \/ EvictBtc(x)
    \/ \E s \in Swaps : Revoke(s) \/ OrphanSwap(s) \/ ReinitiateSwap(s)
    \/ \E i \in StxTxids : MineStx(i) \/ DropStx(i) \/ OrphanStx(i)
    \/ ScriptFetchesNonce
    \/ \E n \in scriptNonce : ScriptBroadcasts(n) \/ ScriptRefused(n)
    \/ Run
    \/ Crash

Spec == Init /\ [][Next]_vars

\* The cron repeats and the event loop runs what is ready; the account's
\* next transaction is mined.
Fairness ==
    /\ WF_vars(Run)
    /\ \A i \in StxTxids : WF_vars(MineStx(i))

FairSpec == Spec /\ Fairness

-----------------------------------------------------------------------------
(* Properties.                                                             *)

Live(s) == {i \in StxTxids : stxTx[i] \in {"pending", "success"} /\ stxSwap[i] = s}

\* A swap never has two finalizations that are pending or succeeded, but for
\* those whose txid was lost between broadcastTransaction and
\* setFinalizedOutbound, and failed ones a fork revived after the retry:
\* checkShouldFinalize retries only a failed one.
OneLiveFinalization ==
    \A s \in Swaps : \A i, k \in Live(s) \ (unrecorded \cup revived) : i = k

\* A payment is forgotten only when the contract settled its swap, or had
\* settled it until a fork: no payment is left without its escrow.
RemovedIsSettled ==
    \A m \in removed : contract[m.swap] \in Settled \/ m.swap \in reorged

\* The transactions a run has submitted so far have the nonces from the one
\* it fetched to just below the one it uses next, whatever was skipped,
\* refused, failed or sent by a script between them.
NumberedInTurn ==
    step = "broadcast" =>
        {stxNonce[i] : i \in mine \ unrecorded} = nonce .. NextNonce - 1

\* No transaction waits for a nonce that nothing ever filled: every gap
\* below a pending transaction is a dropped one.
GapsAreDrops ==
    \A i \in StxTxids : stxTx[i] = "pending" =>
        \A n \in accountNonce .. stxNonce[i] - 1 :
            \E k \in StxTxids : stxTx[k] \in {"pending", "dropped"} /\ stxNonce[k] = n

\* A transaction waits behind a nonce that no transaction has any more.
Stuck ==
    \E i \in StxTxids : stxTx[i] = "pending" /\
        \E n \in accountNonce .. stxNonce[i] - 1 :
            \A k \in StxTxids : stxTx[k] = "pending" => stxNonce[k] # n

\* A listed payment that is confirmed is eventually forgotten, its swap
\* settled, unless the swap is missing from the chain, or the mempool dropped
\* a transaction below a pending one: errors, lost receipts, failed and
\* dropped transactions, crashes and forks are all retried.
ListedIsSettled ==
    \A m \in Members :
        (m \in pendingFinalized /\ btcTx[m.txid] = "confirmed")
            ~> (m \in removed \/ contract[m.swap] = "absent" \/ Stuck)

Outbound == INSTANCE OutboundSwap WITH
    Payments  <- Members,
    settled   <- {s \in Swaps : contract[s] \in Settled} \cup reorged,
    paid      <- {m \in Members : btcTx[m.txid] # "unknown"},
    listed    <- pendingFinalized,
    forgotten <- removed

\* The cron implements its part of the supplier's promise: an escrow is
\* claimed only for a swap that was paid, and a payment is followed until
\* the contract settled its swap, and from then on never again.
ImplementsOutboundSwap == Outbound!Spec
=============================================================================
