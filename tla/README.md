# A TLA+ model of magic-supplier

This directory holds a formal model of the Magic Bridge supplier
(`src/`, TypeScript): TLA+ modules for the parts that move money, TLC
configurations that check them on small instances, an abstract specification
that two of the parts are proved to implement, and TLAPS proofs of the safety
properties of all parts but one (section 7).

Paths below are relative to the repository's own source directory, `src/src`
of this checkout, unless they start with `test/`, `scripts/` or `CHANGELOG`.

## 1. The system

A *supplier* swaps between Bitcoin and xBTC on Stacks.

* **Outbound** (xBTC → BTC). A user escrows xBTC in the Stacks contract
  (`initiate-outbound`). The supplier sends the Bitcoin, then proves the
  Bitcoin payment to the contract (`finalize-outbound-swap`) and is given the
  escrow. After an expiry, which the contract sets, the user may revoke the swap
  and take the escrow back.
* **Inbound** (BTC → xBTC). A user locks Bitcoin in a hash-time-locked output
  (HTLC); when the contract finalizes the swap, its print shows the preimage
  (`finalize-inbound`). The supplier redeems the HTLC with it, before the user
  may refund it.

### Components

| Component | Code | State | Operations |
|---|---|---|---|
| event cron | `worker/jobs.ts` (`eventCronJob`), `stacks-api.ts` | Redis `LastSeenTxidV3` | page through the contract's log down to the transaction seen last, compare tips, record, enqueue |
| events worker | `worker/jobs.ts` (`eventJobHandler`), `events.ts` | the `events` queue | read the event again, add a job to the queue of its topic |
| send-outbound worker | `processors/outbound.ts` | Redis `SentOutbound::<id>`, `PendingFinalizedOutbound`, its queue | check, pay, record, list |
| finalize-outbound cron | `processors/finalize-outbound.ts` | the same set, `FinalizedOutbound::<id>`, the account's nonces | per payment: wait, submit, retry or forget |
| payment proof | `txData`, `findStacksBlockAtHeight` | none of its own; reads two servers | header walk and Merkle path |
| finalize-inbound worker | `processors/redeem-htlc.ts` | Redis `RedeemedHTLC::<txid>`, its queue | redeem, record |
| wallet | `wallet/index.ts`, `wallet/utils.ts` | the coins of the wallet | select coins, price, sign, broadcast |
| multi-sig | `multi-sig/*.ts` | a transaction passed around | leader asks followers for signatures |
| store | `store.ts` | Redis | the keys above, legacy keys |
| queues | `worker/queues.ts`, `worker/index.ts` | Bull lists | attempts, concurrency, stalled jobs, start-up |
| configuration and start | `config.ts`, `plugins/config.ts`, `worker/index.ts`, `index.ts` | the environment, a static instance per process, one per server | load, validate, compare with the contract; worker and server start |
| operator scripts | `scripts/` | what the workers keep: the account's nonces, the registration, HTLCs | transactions of the same Stacks account, registration, redeems by hand |
| the rest | `index.ts`, `routes`, `logger.ts`, `utils.ts` | – | HTTP, logs, units |

### How they interact

```
  Stacks node/API ──log──▶ event cron ──events queue──▶ events worker
        ▲                                                │          │
        │                                  send-outbound queue   finalize-inbound queue
        │ finalize-outbound-swap                         ▼          ▼
  finalize-outbound cron ◀─PendingFinalizedOutbound── send-outbound   redeem
        │  ▲                                             │ worker     │ worker
        │  └── proof (txData) ◀── Electrum ◀── broadcast ┴── wallet ──┘
        └── the Redis set, FinalizedOutbound             (multi-sig followers)
```

The operator's scripts are processes of their own. They use the supplier's
Stacks account (`broadcastAndLog`), whose nonces the finalizer numbers its
transactions with; they may redeem an HTLC that a job of the worker is about to
redeem; and they register the keys the workers compare theirs with.

All handlers run in the event loop of one Node process. They share no
variables: they meet in Redis, in the Bull queues and on the two chains. A
handler is suspended at every `await`, and everything else (the other
handlers, the chains, the users, a crash) may happen there. So a step of a
model is what the code does from one `await` to the next.

### What is hard about it

* Nothing is atomic over two stores: Bitcoin, Stacks and Redis are written one
  after another, and the process can stop, or a call reject, between any two.
* Bull re-runs stalled jobs; events can be delivered again; the operator
  retries failed jobs. Every handler must recognise what was already done.
* An answer can be lost though the call took effect.
* Chains fork and servers disagree about the tip. No event waits for
  confirmations: an initiation, a settlement or a payment may be undone after
  it was acted on.
* Two programs number the transactions of one account.
* The age of a swap decides whether it is safe to pay it.
* Nonces, coin selection and signatures are counted while calls fail.
* Jobs run before the configuration has been compared with the contract.

`PROJECT.json` lists these hazards at their lines with the properties that
would catch each of them going wrong. What makes each component correct is
stated in section 4.

## 2. Modules

| Module | Models | Instances |
|---|---|---|
| `OutboundSwap` | what the supplier promises of an outbound swap | – (a property of the next ones) |
| `SendOutbound` | send-outbound worker with its queue | `MCSendOutbound` |
| `SendOutboundProofs` | its inductive invariant, the theorems about its safety, and that it implements `OutboundSwap` | – |
| `FinalizeOutboundProofs`, `EventCronProofs`, `RedeemHTLCProofs`, `MultiSigProofs`, `ConfigProofs`, `TxDataProofs`, `CoinSelectionProofs` | the inductive invariants of the next modules and their theorems (section 7) | – |
| `FinalizeOutbound` | finalize-outbound cron with account nonces, mempool, forks, scripts | `MCFinalizeOutbound` |
| `TxData` | the proof of a payment | `MCTxData` |
| `EventCron` | event cron, `events` queue and its worker | `MCEventCron` |
| `RedeemHTLC` | finalize-inbound worker with its queue | `MCRedeemHTLC` |
| `MultiSig` | leader and followers | `MCMultiSig` |
| `CoinSelection` | `selectCoins`, weights, fees | `MCCoinSelection` |
| `Config` | configuration, start of worker and server | `MCConfig` |

Conventions that all modules share:

* `step` names the call the handler is about to make (`step[j]` per job where
  a queue has several). An action is named after the function it models.
* `Leave`, `Rest`, `Stop` and `Return` end a handler: its locals are reset.
* `Throw` is any awaited call that rejects; `Crash` is the end of the process.
  Where these could go on for ever without telling anything new they draw on
  the bound `MaxFaults`.
* *History* variables (`orphans`, `stranded`, `unrecorded`, `reorged`,
  `revived`, `lost`, `uprooted`, `evicted`) record that a particular fault hit, so that a
  property can say "except then". No action of the code reads one; `Unlist` of
  `SendOutbound`, a step of its environment, asks whether a settlement was
  undone (`reorged`), to be as liberal as `Forget`.
* `Name_Variant` definitions next to `Name` are the bugs that the properties
  are tested against (section 6).

### The promise and its two components

The send-outbound worker and the finalize cron meet in three places: the
contract, the Bitcoin chain and the Redis set `PendingFinalizedOutbound`.
`OutboundSwap` is what they promise together, with nothing of how they remember
or retry:

* `Pay`: a swap that has a payment to claim its escrow with, or had one, is not
  paid again;
* `List`: a swap has one payment to claim its escrow with, and never a second;
* `Forget`: a payment is forgotten only when its swap was settled;
* and the contract goes its own way, forks included (`Initiate`, `Finalize`,
  `Revoke`, `Undo`).

Both modules instantiate it with a refinement mapping and check
`ImplementsOutboundSwap == Outbound!Spec`. The worker's steps are `Pay` and
`List` or stutter, the cron's is `Forget`. What is a step of the one is a step
of the environment in the other: `SendOutbound` has `Unlist`, with the guard of
`Forget`, and `FinalizeOutbound` has `Pay` and `List`, with those of
`OutboundSwap`. So each component is checked with a partner that may do all that
the abstract one may, and has itself been shown to do no more: the argument is
one of assumption and guarantee, and the two need not be composed into one
state space.

### Correspondence with the code

**SendOutbound.** A job holds the transaction and the index of its event
(`serializeEvent`), and every run of it reads the event again (`DeserializeJob`
for `deserializeJob`, `worker/index.ts:75`), as it is on the chain by then, or
fails where a fork has taken the initiation away. `eventCreatedAt` is the height
that this run goes by; `createdAt` is the contract's, and a fork during the run
(`Undo`, then `Initiate` again) sets them apart. Then the steps of
`processOutboundSwap` in order: `GetSentOutbound` (line 22), `GetOutboundFinalizedTxid` (the contract's view, which returns `'00'`
for a revoked swap), `FetchCoreInfo` with the cutoff of 190 blocks,
the three outcomes of `sendOutbound` (`Broadcast`; `BroadcastRejected`, where
`tryBroadcast` swallows a rejection; `BroadcastUnacknowledged`, where the answer
is lost), `SetSentOutbound` and `SetPendingFinalizedOutbound`. Blocks are mined
between any two of them. The queue has concurrency 1, no attempts, and Bull's default of one re-run of a stalled job.
Coins and signatures are left to the other two wallet modules; here a payment
is a fresh txid.

**FinalizeOutbound.** `GetAllPendingFinalizedOutbound` to `SetFinalizedOutbound`
follow `processPendingOutbounds`, `finalizeOutbound` and
`checkShouldFinalize`. `AfterStatus` is the `switch` on `tx_status`. The
environment has the contract, the account's nonce in the chain state, and a
mempool that takes, replaces, drops and re-admits transactions. A member the
contract already settled makes a finalization fail, as the contract does.
`ScriptFetchesNonce`, `ScriptBroadcasts` and `ScriptRefused` are
`broadcastAndLog` of `scripts/helpers.ts`: whatever a script does for the
operator, to the cron it is a transaction of the same account, whose nonce was
fetched some time before it is sent.

**TxData.** The two concurrent reads, the walk with its two concurrent requests
per height, the Merkle path. A block is the sequence of the branches that lead
to it, so that its parent is its front: the contract's check that headers link
up becomes a statement about prefixes. The verification of work and hashes is
the contract's, not modelled.

**EventCron.** `GetBridgeEvents` is one page of `getContractEventsUntil`: newest
first, cut at the transaction seen last, prints only. `FetchEndTip` is the
comparison of tips. A fork cuts the chain and lets the transactions be mined
again in another order.

**RedeemHTLC.** A redeem transaction is a function of its HTLC and the fee
rate, so it is represented by the rate. `Answers` is what a Bitcoin node says
to it, `Returns` what `tryBroadcast` makes of that. `ScriptRedeems` is a redeem
by hand (`scripts/finalize-inbound.ts`), which looks at no record and leaves
none.

**MultiSig.** `psbt[k]` is who signed input `k`. `PostFails` is every way the
`try` around a follower's call ends without a signature: the transaction in
the leader's hand is unchanged in all of them, also when the follower signed
and only its answer was lost.

**CoinSelection.** A coin is its value. Weights are counted in quarter vbytes
because the code counts the witness as quarters and rounds only at the end;
`SortCoins` is any arrangement in descending order (equal coins are the same);
the two expectations of the weights in the repository's tests are an `ASSUME`
that TLC evaluates.

**Config.** An environment is two functions on the names of `ConfigEnv`, one
for the old `OPERATOR_` prefix. `Load` is `ServerConfig.load`: a setting comes
from the caller or the environment (`Or`), and `Bad` is both a value that does
not parse and the exception that follows. `InitWorkerThread` ends where the
promise of `validateKeysMatch` is pending (`awaiting`); `RunJob` is enabled from
there on, because nothing awaits that promise. `Api` goes the same way for the
server, whose configuration is its own. `Registration` and `RegisterSupplier` are
`scripts/register-supplier.ts`, which derives what it registers from a
configuration of its own. `script` is what was started: the
worker, the server, or both in one process (`scripts/devnet/run-multisig.ts`).

The `map` of `PROJECT.json` names the lines of every definition.

## 3. Environment and fairness

The contract, the chains, Electrum, the Stacks API and Bull are not in `src`.
They are modelled by what the code is told by them, and marked external in the
map.

* A swap that a fork took off the contract is initiated again in the same block
  or a later one, and keeps its id. (`createdAt` never falls; Redis is keyed by
  the id, so that if the contract gave it to another swap, that one would be
  taken for the first.)
* Nothing bounds the time between two steps of a handler. The cutoff of 190
  leaves the blocks up to the contract's expiry for the broadcast
  (`SendCutoff <= Expiry`); a handler that takes longer pays a swap its user may
  have revoked, which is what `RevokedPaidOnlyLate` says and `HeldUp` measures.
* The tip and the contract's log, which the event cron compares, are those of
  one chain at any moment: a server whose log lags behind its tip is not
  modelled.
* The followers of a leader are different signers: `btc.p2ms` refuses a group
  with a key twice (`P2msAccepts` of `Config`), but that two URLs do not lead to
  the same one is assumed.
* Bull takes a stalled job again once (`maxStalledCount` 1, its default), then
  fails it.
* Fairness is assumed of five things only: the event loop resumes a handler
  whose awaited call has settled (`WF` of the handler, in `Config` of the answer
  to `validateKeysMatch`); Bull takes waiting jobs
  in order, so a job that waits again and again is taken (`SF` of
  `SendOutbound!StartJob`, since the operator may retry the other job for ever;
  `WF` of the worker where the other jobs come to an end); a cron repeats (`WF`
  of its run, `repeat` in `worker/queues.ts`); a *reliable* follower, by the
  meaning of the word, answers the leader's request or refuses it; and, where a
  property depends on it, a chain takes the account's next transaction and
  servers catch up with their chain. There is none for the other followers, as
  `axios.post` has no timeout (`multi-sig/wallet.ts:145`), nor for the step of
  `SendOutbound` in which `sendBtc` waits for them: the handler may wait for
  ever, and `AttemptEnds` and `OwedIsDecided` except just that. No call
  is assumed to succeed: a call that rejects is a step of the handler too.
  What is bounded is the number of faults that hit *after* something
  irreversible was done.

## 4. Runs

All runs have `CHECK_DEADLOCK FALSE`: a supplier whose jobs are done, or whose
bounds are used up, rests. There is one passing run per component, which checks
its invariants, its action properties and its liveness together, under
`FairSpec` where there is a liveness property; and one run per finding.

| Run | Instance | Shows |
|---|---|---|
| `send` | an own and a foreign swap, two jobs (a duplicate delivery), three txids, one fault or fork | `PaidOnce`: duplicate, retried and stalled jobs pay once, unless the record of a payment was lost. `RecordedIsListed`: a recorded payment reaches the finalizer. `SentIsFinal`: a record is never replaced, and stops further payments. `RevokedPaidOnlyLate`: a revoked swap is paid only by a handler that was held up for longer than the cutoff leaves time, also where a fork replaced the initiation it had read. `OwedIsDecided`: an owed swap never ends in silence, unless the handler waits for ever or a fork hits between its two reads. `ImplementsOutboundSwap` |
| `send_twice` | the same | finding 1 |
| `finalize` | two swaps with a payment each, which is made, listed, confirmed or evicted at any time; five Stacks txids, one of them a script's; one fault | `OneLiveFinalization`: no two recorded finalizations of a swap are live. `RemovedIsSettled`: only payments of settled swaps are forgotten. `NumberedInTurn`: the run's transactions have the nonces from the fetched one on, without gap or repetition. `GapsAreDrops`: a gap in the pending nonces is a dropped transaction's. `ListedIsSettled`: errors, failed and dropped transactions, lost receipts, crashes, forks and scripts are outlived. `ImplementsOutboundSwap` |
| `proof` | four blocks, one fork, one failed request, two servers | `ProofVerifies`, `EventuallyBuilt` |
| `cron` | two transactions with five log entries, pages of two, one fork of any depth, one fault | `NothingSkipped`, `EnqueuedOnce`, `BatchIsExact`, `DeliveredOnce`, `MinedIsDelivered` |
| `cron_skip` | the same without the fault | finding 2 |
| `redeem` | one HTLC, three jobs, two fee rates, three attempts, three faults, a redeem by script | `RecordIsSpender`: the record is the transaction that spends the HTLC, or a fault between the two explains the difference. `RecordIsFinal`, `JobSpends` |
| `redeem_failed` | one job, no faults | finding 3 |
| `multisig` | three signatures of six; a follower of another group, one that may be down | `CountIsTrue`, `QuorumSuffices`; `AttemptEnds`: an attempt ends, whoever refuses and whichever answers are lost, or waits for ever for a silent follower |
| `multisig_inputs` | the same | finding 4 |
| `config` | 3088 environments with settings missing, empty or malformed, groups of two and three keys, three ways to start, registrations by script | `QuorumInReach`, `JobsAgree`, `MismatchStops` |
| `coins` | both wallets, four coins received, two payments, three rates | `FewestCoins`, `GivesUpRightly`; `FeeMeetsRate`: what inputs and outputs leave to the miners pays for the size |

### Bounds

Every bound is a constant named `Max...` or the size of a set.

* *Swaps, HTLCs.* The code never looks at two swaps together, except for the
  finalizer, whose nonces go across members. One own swap with several jobs,
  and a second swap to tell apart, reach every interaction of the workers; the
  finalizer has two members. The redeem worker has one HTLC and no variable
  across HTLCs; the state space goes into jobs, attempts and faults instead.
* *Jobs.* Two jobs make a run and a duplicate; the operator's retries, which
  are not bounded, make further runs of either. The redeem queue has three, as
  its attempts are bounded.
* *Stacks txids.* Five: two members, a lost receipt, a retry and a script's
  transaction; TLC would report `ListedIsSettled` violated if a run ever lacked
  one.
* *Scripts.* One transaction of a script at a time (`MaxScripts`): a second one
  would meet the cron in the same two ways, a nonce taken before the cron
  fetches its own or after.
* *Ages.* `SendCutoff` 2 and `Expiry` 3 stand for 190 and the contract's
  expiry: the code compares, and the boundary is hit from both sides. With four
  blocks (`MaxHeight`) a handler can be held up past the expiry, and a swap
  that a fork made younger can expire again.
* *Attempts.* Three instead of 12: the first, one between, the last.
* *Pages.* Five log entries on pages of two cross two page boundaries, one
  of them within a transaction, with and without a block mined in between.
* *Blocks.* Four: the payment's block, one without a Stacks block above it, one
  with, and one more for a fork.
* *Faults.* One fault is enough for every finding that needs one; three where
  the state space allows it. A fork is a fault in the two modules of outbound
  swaps.
* *Coins.* Four coins of three values on both sides of the dust limit (5500),
  so that the loop stops at one, two, three and four inputs and gives up.

Symmetry is declared in `send_twice` only, over jobs and txids, which no
property and no `CHOOSE` of the module tells apart; liveness needs the full
state graph.

## 5. Findings

1. **A payment can be made twice** (`send_twice`). The payment is broadcast
   before anything is recorded; a crash, a rejected write or a lost answer in
   between leaves no trace of it.
2. **An event can be skipped** (`cron_skip`) when a fork moves the transaction
   seen last above one never seen.
3. **An attempt whose redeem is in a block already fails** (`redeem_failed`).
   The answer `Transaction already in block chain` is meant to be logged as
   "Already broadcasted redeem" (`wallet/index.ts:154-161`), but the test for it
   is inside its own negation. In the run a script made the redeem, and the
   job's attempt at the same fee rate throws.
4. **Two inputs cannot be finalized by a multi-sig group** (`multisig_inputs`):
   followers sign input 0 only.

Each run checks the one property, quoted from the repository, that TLC finds
violated; the passing runs check what remains true around it: `PaidOnce` is
finding 1 without the lost records, `NothingSkipped` is 2 without such a fork.

More effects of the code show in the models without a run of their own.

* A submission whose receipt is lost is not counted (`BroadcastUnacknowledged`
  of `FinalizeOutbound`): the next member of the run gets its nonce, and two
  finalizations of one swap can be pending. `NumberedInTurn` and
  `OneLiveFinalization` make that exception.
* A script that fetched its nonce before the cron did sends a transaction with
  the nonce of one of the cron's, or the reverse: one of the two is refused, or
  replaces the other in the mempool. The next run retries its own
  (`ListedIsSettled`); a script is run again by hand.
* `validateKeysMatch` compares the registered key's p2wpkh address with
  `btcAddress`, which is the p2wsh address of a group for a multi-sig leader
  (`KeysMatch`). So no leader comes through its start, however it is configured,
  although `.env.multisig` and `devnet:multisig` of `package.json` are there to
  run one: it runs jobs until the contract answers, and exits. No property says
  so, since it would only repeat the comparison.
* A fork between the handler's read of the event and its look at the height makes
  it skip, in silence, a swap that is young again (`Outdated`); a retry would
  read the new event, but the job has completed.
* `tryBroadcast` counts every rejection with `inputs-missingorspent` as an
  earlier success: a payment whose coins were spent elsewhere is recorded as
  sent (`BroadcastRejected` of `SendOutbound`), and a refunded HTLC as redeemed.
  What remains true is `RecordIsSpender`.
* A payment is sent for an initiation without confirmations; if a fork takes
  it away, the payment is made all the same (`Pay` of `OutboundSwap` asks nothing
  of the contract).
* A payment that the mempool evicts is not sent again: its record makes every
  later job skip the swap, and the finalizer waits for a confirmation that does
  not come (`EvictBtc`).

Seen while reading the scripts, which no module follows beyond the state they
share with the workers:

* `CHANGELOG.md:95` says that checking the configuration no longer needs a
  supplier id; `c()` requires one (`serverConfigSchema`).
* `disable-swaps` writes back the fee the contract has for a direction that is
  to be enabled: one it disabled before, whose fee is null, stays disabled.
  `update-fees` offers 0 as the default in place of a null fee.
* `send-xbtc` compares the amount with the funds of the bridge, not with the
  xBTC balance of the account it sends from.

## 6. How the properties are tested

For each property of a passing run, `PROJECT.json` names a mutation of a
definition (`Idle` without its guard, `AboutToExpire` off by one,
`NextOffset` counting prints instead of entries, ...) under which TLC finds the
property violated in the same run.

## 7. Proofs

For every value of the constants that satisfies the assumptions below:

| Theorem | Module | States |
|---|---|---|
| `TypeCorrect` | each of the eight `...Proofs` | `Spec => []TypeOK` |
| `PaymentsOnce` | `SendOutboundProofs` | `Spec => []PaidOnce` |
| `RecordsAreListed` | `SendOutboundProofs` | `Spec => []RecordedIsListed` |
| `RecordsAreFinal` | `SendOutboundProofs` | `Spec => SentIsFinal` |
| `RevokedArePaidOnlyLate` | `SendOutboundProofs` | `Spec => RevokedPaidOnlyLate` |
| `WorkerImplementsOutboundSwap` | `SendOutboundProofs` | `Spec => ImplementsOutboundSwap` |
| `FinalizedOnce` | `FinalizeOutboundProofs` | `Spec => []OneLiveFinalization` |
| `ForgottenAreSettled` | `FinalizeOutboundProofs` | `Spec => []RemovedIsSettled` |
| `RunsNumberInTurn` | `FinalizeOutboundProofs` | `Spec => []NumberedInTurn` |
| `NoNonceIsSkipped` | `FinalizeOutboundProofs` | `Spec => []GapsAreDrops` |
| `CronImplementsOutboundSwap` | `FinalizeOutboundProofs` | `Spec => ImplementsOutboundSwap` |
| `BatchesAreExact` | `EventCronProofs` | `Spec => []BatchIsExact` |
| `NoEventSkipped` | `EventCronProofs` | `Spec => []NothingSkipped` |
| `NoEventTwice` | `EventCronProofs` | `Spec => []EnqueuedOnce` |
| `EventDeliveredOnce` | `EventCronProofs` | `Spec => []DeliveredOnce` |
| `RecordedRedeemSpends` | `RedeemHTLCProofs` | `Spec => []RecordIsSpender` |
| `RecordsAreFinal` | `RedeemHTLCProofs` | `Spec => RecordIsFinal` |
| `LeaderCountsRight` | `MultiSigProofs` | `Spec => []CountIsTrue` |
| `ReliableQuorumSuffices` | `MultiSigProofs` | `Spec => []QuorumSuffices` |
| `OneConfiguration` | `ConfigProofs` | `Spec => []JobsAgree` |
| `QuorumWithinReach` | `ConfigProofs` | `Spec => []QuorumInReach` |
| `BuiltProofVerifies` | `TxDataProofs` | `Spec => []ProofVerifies` |
| `CoinsAreFewest` | `CoinSelectionProofs` | `Spec => []FewestCoins` |
| `GivenUpRightly` | `CoinSelectionProofs` | `Spec => []GivesUpRightly` |
| `FeeReachesRate` | `CoinSelectionProofs` | `Spec => []FeeMeetsRate` |

So every invariant and every action property of the passing runs is proved;
both components of `OutboundSwap` are proved to implement it,
so that the argument of assumption and guarantee in section 2 holds for every
instance.

**How the modules are laid out.** Each states its inductive invariant `IInv`
as a conjunction of named parts, the safety properties that are themselves
inductive among them. There is one lemma per action (`<Action>Step`), with a
step per conjunct that the action can disturb, *frame* lemmas for what it leaves
alone, then `InitIInv`, `NextIInv` and `Invariance`, and a theorem per property.
TLC checked every `IInv` on the instance of the component's run before it was
proved.

**Assumptions on the constants.** They are named in the modules; TLC evaluates
them in each run. Those a proof leans on:

* own swaps are swaps; the nulls (`NoTx`, `NoMember`, ...) are none of the things
  they stand in for;
* `SendCutoff <= Expiry` in `SendOutbound` (section 3);
* a Bitcoin transaction pays one swap, and the account makes finitely many
  transactions, in `FinalizeOutbound`;
* there is an HTLC in `RedeemHTLC`; a page has at least one event in `EventCron`;
  the chain of `TxData` has a first block;
* a setting of `Config` is missing, empty, malformed, or of the type it parses
  to (`Settings`);
* values and amounts in `CoinSelection` are natural numbers, and a wallet is one
  of the two kinds, an output of a type that has a weight.

**`SendOutbound`.** `PaidOnce` is not inductive: nothing in it says
why a second job that is past its check does not pay. `IInv` adds

* `OneHandler`: at most one handler is between two awaits, and it belongs to
  the active job (`process(1, ...)`). Without it a second handler could write
  the record between the first one's check and its broadcast.
* `Unsent`: from the moment the handler has found no record until it writes
  one, there is none. `GetSentOutbound` establishes it, `OneHandler` keeps it.
* `InHand`: what the handler holds after the broadcast is a txid and, after
  the first write, the record.
* `Recorded`: a payment that was not lost is on record, or in the hand of the
  handler that made it. Two payments of one swap would be on one record, in
  one hand, or one on record while `Unsent` says there is none.
* `Dated`: the height in the event a handler read is no higher than the one the
  contract has for the swap now. A fork can only move an initiation to a later
  block, so the age by the event, which the code goes by, is never below the
  contract's, which decides about the revocation.
* `Ages`: a revoked swap is past its expiry; one whose handler is about to pay
  was, by its event, younger than the cutoff at the block the handler saw. With
  `Dated`, the chain is more than `Expiry - SendCutoff` blocks past that one by
  the time a revoked swap is paid: `RevokedPaidOnlyLate`.
* `RecordedIsListed` itself, which is inductive with these: a swap with a
  record that was never settled keeps its listing, whether the contract has it
  or a fork has taken it away.

The two action properties follow from `IInv` by going through the actions that
add a payment or write a record.

*The refinement.* The mapping takes as *followed* the payments on record,
but for those about to be listed and those stranded, and as *forgotten* the
followed ones that are no longer listed. For `List` to be the first of its swap
the proof needs `HandedOver`: what is listed or stranded is the record of its
swap, and no handler is about to list another payment of that swap. It is
inductive relative to `IInv` (`NextHandedOver`); the rest is one lemma per kind
of step: `ContractMaps`, `UnlistMaps`, `BroadcastMaps`, `ListingMaps` map to the
steps of `OutboundSwap` (a broadcast because `Unsent` leaves no payment of the
swap to be followed), `RecordingMaps`, `AbandonMaps`, `QuietMaps` to stutters.

**`FinalizeOutbound`.** Two threads run through the invariant.

* *Nonces.* `InOrder`: the account's transactions are mined in the order of
  their nonces, and no two that wait or are mined share one. `NoGaps`: whoever
  holds a nonce, the run with its count of successes or a script with the nonce
  it fetched, however stale, has below it only nonces that had a transaction,
  which the mempool has, or had and dropped. `Numbered`: the run's recorded
  submissions fill the nonces from the fetched one to the next. `NonceBound`
  turns the absence of gaps into the bound of the type invariant, by an
  injection of the nonces into the transactions.
* *Records.* `Visits`: what the run visits is still listed. `Records`: a record
  is of a finalization of its swap, and the run goes on to finalize only when
  the recorded one is out of the way (dropped, failed, or revived by a fork).
  `Recorded`: every current finalization is on record, about to be, or was
  lost. Two live ones would be on the same record. `Settlement`: a swap with a
  successful finalization is finalized, so a removal that follows one is right.

`PaidFor` (only swaps that were paid are finalized) is what the refinement
needs besides: `PayMaps`, `ListMaps`, `SwapMaps`, `MineMaps`, `OrphanMaps` and
`RemoveMaps` map to the steps of `OutboundSwap`, the rest stutters (`QuietMaps`).

**`EventCron`.** The proof has three layers.

* *Sequences.* The log is a `FlattenSeq` of the transactions' logs, newest
  first. Nothing about it can be had from the library, so the module proves
  induction over the natural numbers as a fact about sets (`LeastNumber`,
  `Induction`, from the well-foundedness of the subsets of a finite set), the
  recursion that `FlattenSeq` satisfies (`FlattenSeqDef`), and from it what
  flattening yields, and that it keeps concatenation and order.
* *The log.* `LogOnConcat`, `LogOnElements` and `LogOnOrdered` say what the log
  of a chain holds, and in which order; `PageFacts`, `NewerFacts` and `NextPart`
  what a page adds; `UnseenPartUnique` and `UnseenFacts` that the part above the
  transaction seen last is the one before its first event: this needs that
  transaction to have events (`Marked`).
* *The invariant.* `Paging`: while the tip has not moved, what was collected are
  the prints down to the offset. `BeforeMark` and `AfterMark`: between the
  comparison of the tips and `addBulk` the batch is what lies between the old
  mark and the new one; blocks and forks above the new mark leave that alone
  (`ChainMoves`), and a fork that takes either is what `uprooted` records.
  `OnChain`: nothing above the mark was enqueued, from which `EnqueuedOnce`
  follows; `Covered`: everything up to it was, from which `NothingSkipped`
  follows. `Deliveries` counts what a job may still deliver.

**`RedeemHTLC`.** `OneHandler` and `Unredeemed` make the read of the record
good until its write; `SpentIsKnown` says that a redeem of the supplier is on
record, about to be, or was lost. A redeem that is refused as
`inputs-missingorspent` is then either refunded, or lost, or there is a record
and the handler would have skipped.

**`MultiSig`.** `Signed`: input 0 carries the leader's signature, only those of
followers that were asked, and all of those that are up and of the group. The
count follows because no follower signs twice, and the quorum because at the end
of the loop all were asked, or enough were found.

**`Config`.** `Working`, `Serving` and `Acted`: whoever takes jobs, listens or
has acted does so under a configuration that passed the schema and the
validations. `JobsAgree` needs that a second signer never replaces the instance
(`Working` says it is the environment's), `QuorumInReach` is `Acted` with the
definitions of the validations.

**`TxData`.** `OnChain`: without a fork, the headers of the walk are the
chain's own, one per height, from the one computed for the payment; `Paid`: the
Merkle path found at that height is of the payment's block, or Electrum would
have refused. Servers that lag make the walk end elsewhere or fail, never verify
something else.

**`CoinSelection`.** Two layers.

* *Totals.* The sums are folds over sets of positions, and the order is a
  `CHOOSE` among the bijections. As in `EventCron` the module proves what it
  needs from the well-foundedness of the subsets of a finite set
  (`SubsetInduction`): that a fold's recursion has a solution (`FoldExists`),
  that a total is one value and the total of the rest, whichever value is taken
  (`TotalFacts`), that a descending arrangement exists (`SortCoinsFacts`), and
  that of all choices of `n` positions of a descending sequence the first `n`
  have the greatest total (`FirstAreLargest`).
* *The loop.* `Prefix`: what is selected is the start of what is sorted.
  `Shortest`: no shorter start does (`Reaches`), the loop ends with one that
  does, or with all coins and none that does. A choice of `n` coins that would
  do shows that the `n` largest do (`LargestWouldDo`): the two pay the same fee,
  since the weight goes by the number of the inputs alone. That is what makes
  the greedy loop right; with coins of different scripts it would not be.

`FeeReachesRate` is the rounding of `ToBigInt` and `ToFixed` times the rate.

**Only model-checked.** Liveness in all modules (`OwedIsDecided`,
`ListedIsSettled`, `MinedIsDelivered`, `JobSpends`, `EventuallyBuilt`,
`AttemptEnds`, `MismatchStops`): TLAPS does not do fairness and `ENABLED`.

## 8. Not modelled

* Of `config.ts`, the Electrum settings and what is only logged.
* Authentication and error replies of the HTTP server, logs, Bull Board (its
  retry button is `RetryFailed`), the balances job, unit conversion: no state of
  their own.
* Of `scripts/`, the prompts, amounts, fees and balances: interactive tools an
  operator runs by hand, of which the modules have only what reaches the state
  of a worker. `analytics.ts` adds up what the contract's log says;
  `consolidate.ts` is commented out. `flush-redis` erases the records of the
  workers on the operator's confirmation, and with them everything
  `SendOutbound` promises.
* Functions without a caller: `getContractTxUntil`, `getStacksBlock`,
  `confirmationsToHeight`, `getNonce`, `getEventWithPrint`; and
  `validateMinimumConfirmations` with its `getCurrentBlockHeight`, whose call is
  commented out.
* Scripts, signatures and hashes as data: which bytes a transaction, a proof
  or an HTLC has. The models say who signed what, which block follows which and
  which transaction spends which coin.
* The legacy Redis keys and the encodings of the set's members.

## 9. Plan

Done: the modules of section 2, their runs, the proofs of every invariant and
action property that the runs check, and both refinements of `OutboundSwap`.

Next: action properties that the proved invariants suggest, where they say
something of the code that the states alone do not.
