------------------------------ MODULE EventCron ------------------------------
(***************************************************************************)
(* How contract events become jobs: the events-cron job (eventCronJob in   *)
(* src/worker/jobs.ts) pages through the bridge contract's log, newest     *)
(* event first, down to the last transaction it has seen, and adds a job   *)
(* per event to the events queue; that queue's worker reads the event      *)
(* again and adds a job to the queue of its topic.                         *)
(*                                                                         *)
(* Both are handlers suspended at their awaits; in between, blocks are     *)
(* mined, forks replace the end of the chain, and the process crashes.     *)
(* The API's log and the node's tip are taken to be of one chain at any    *)
(* moment.                                                                 *)
(***************************************************************************)
EXTENDS Integers, FiniteSets, Sequences, SequencesExt

CONSTANTS
    Txs,        \* Stacks transactions with contract events
    Logs,       \* the topics of the events a transaction emits, in order
    NoTx,       \* null: no transaction seen yet
    NoEvent,    \* the events worker has no job
    PageSize,   \* events per page of the API
    MaxTip,     \* bound: blocks
    MaxForks,   \* bound: forks
    MaxFaults   \* bound: crashes and rejected calls

\* Topics with a queue of their own, one without, and a log entry that is
\* not a print of the bridge.
Handled == {"finalize-inbound", "initiate-outbound"}
Topics  == Handled \cup {"escrow", "none"}

ASSUME LogsAssumption == Logs \in [Txs -> Seq(Topics)]
ASSUME NoTxAssumption == NoTx \notin Txs
ASSUME PageAssumption == PageSize \in Nat \ {0}
ASSUME BoundAssumption ==
    MaxTip \in Nat /\ MaxForks \in Nat /\ MaxFaults \in Nat

VARIABLES
    chain,       \* the contract's transactions, oldest first
    tip,         \* stacks_tip of fetchCoreInfo: changes with every block
    forks,       \* bound: forks so far
    lastSeen,    \* Redis LastSeenTxidV3
    waiting,     \* events queue: jobs waiting, per event
    failed,      \* events queue: jobs failed, per event
    stalled,     \* events queue: events whose job was found stalled once
    delivered,   \* jobs added to finalize-inbound and send-outbound, per event
    step,        \* cron: the await it is suspended at
    seen,        \* cron: lastSeenTxid
    startTip,    \* cron: startTip
    newEvents,   \* cron: events collected so far
    offset,      \* cron: offset of the next page
    task,        \* events worker: the event of its job
    taskStep,    \* events worker: the await it is suspended at
    faults,      \* bound: faults so far
    enqueued,    \* history: jobs added to the events queue, per event
    lost,        \* history: events in the hand of a cron job that died
    uprooted     \* history: a fork took a transaction the cron had seen

network == <<chain, tip, forks>>
events  == <<waiting, failed, stalled, delivered>>
cron    == <<step, seen, startTip, newEvents, offset>>
worker  == <<task, taskStep>>
vars    == <<network, lastSeen, events, cron, worker, faults, enqueued, lost, uprooted>>

EventsOf(t) == {[tx |-> t, index |-> i - 1] : i \in DOMAIN Logs[t]}
Events      == UNION {EventsOf(t) : t \in Txs}
Topic(e)    == Logs[e.tx][e.index + 1]
IsPrint(e)  == Topic(e) # "none"

\* The prints of a part of the log.
Prints(log) == FlattenSeq([k \in DOMAIN log |-> IF IsPrint(log[k]) THEN <<log[k]>> ELSE <<>>])

TypeOK ==
    /\ chain \in Seq(Txs)
    /\ tip \in 0 .. MaxTip
    /\ forks \in 0 .. MaxForks
    /\ lastSeen \in Txs \cup {NoTx}
    /\ waiting \in [Events -> Nat] /\ failed \in [Events -> Nat]
    /\ stalled \subseteq Events
    /\ delivered \in [Events -> Nat]
    /\ step \in {"idle", "page", "endTip", "setLast", "addBulk"}
    /\ seen \in Txs \cup {NoTx}
    /\ startTip \in 0 .. MaxTip
    /\ newEvents \in Seq({e \in Events : IsPrint(e)})
    /\ offset \in Nat
    /\ task \in Events \cup {NoEvent}
    /\ taskStep \in {"idle", "deserialize", "add", "complete"}
    /\ faults \in 0 .. MaxFaults
    /\ enqueued \in [Events -> Nat]
    /\ lost \subseteq Events
    /\ uprooted \in BOOLEAN

Init ==
    /\ chain = <<>> /\ tip = 0 /\ forks = 0
    /\ lastSeen = NoTx
    /\ waiting = [e \in Events |-> 0]
    /\ failed = [e \in Events |-> 0]
    /\ stalled = {}
    /\ delivered = [e \in Events |-> 0]
    /\ step = "idle" /\ seen = NoTx /\ startTip = 0 /\ newEvents = <<>> /\ offset = 0
    /\ task = NoEvent /\ taskStep = "idle"
    /\ faults = 0
    /\ enqueued = [e \in Events |-> 0]
    /\ lost = {}
    /\ uprooted = FALSE

Fault == faults < MaxFaults /\ faults' = faults + 1

-----------------------------------------------------------------------------
(* The Stacks chain.                                                       *)

Mine(t) ==
    /\ tip < MaxTip
    /\ t \notin ToSet(chain)
    /\ chain' = Append(chain, t)
    /\ tip' = tip + 1
    /\ UNCHANGED <<forks, lastSeen, events, cron, worker, faults, enqueued, lost, uprooted>>

\* Transactions the cron has seen, or is about to record as seen.
SeenTxs ==
    {lastSeen} \cup IF step \in {"setLast", "addBulk"} THEN {newEvents[1].tx} ELSE {}

\* A fork replaces the blocks after the first k transactions; theirs return
\* to the mempool and may be mined again, in any order.
Fork(k) ==
    /\ tip < MaxTip /\ forks < MaxForks
    /\ chain' = SubSeq(chain, 1, k)
    /\ tip' = tip + 1
    /\ forks' = forks + 1
    /\ uprooted' = (uprooted \/ \E i \in k + 1 .. Len(chain) : chain[i] \in SeenTxs)
    /\ UNCHANGED <<lastSeen, events, cron, worker, faults, enqueued, lost>>

-----------------------------------------------------------------------------
(* The cron: eventCronJob.                                                 *)

\* The contract's log as the API serves it, newest event first.
LogOf(t) == [i \in DOMAIN Logs[t] |-> [tx |-> t, index |-> Len(Logs[t]) - i]]
ContractLog == FlattenSeq(Reverse([i \in DOMAIN chain |-> LogOf(chain[i])]))

\* Entry o of the log and those after it, at most PageSize in all.
PageOf(log, o) ==
    [i \in 1 .. (IF o + PageSize < Len(log) THEN PageSize ELSE Len(log) - o) |-> log[o + i]]

Leave ==
    /\ step' = "idle"
    /\ seen' = NoTx /\ startTip' = 0 /\ newEvents' = <<>> /\ offset' = 0

StartCron ==
    /\ step = "idle"
    /\ seen' = lastSeen
    /\ startTip' = tip
    /\ step' = "page"
    /\ UNCHANGED <<network, lastSeen, events, newEvents, offset, worker, faults, enqueued, lost, uprooted>>

\* The events of a page that come before the transaction seen last.
Newer(page) ==
    LET found == SelectInSeq(page, LAMBDA e : e.tx = seen)
    IN  IF found = 0 THEN page ELSE SubSeq(page, 1, found - 1)

\* Events whose log entry is no print are left out.
SelectPrints_All(page) == page
SelectPrints(page) == Prints(page)

NextOffset_Prints(page) == offset + Len(Prints(page))
NextOffset(page) == offset + Len(page)

\* One page of getContractEventsUntil.
GetBridgeEvents ==
    /\ step = "page"
    /\ \E log \in {ContractLog} : \E page \in {PageOf(log, offset)} : \E newer \in {Newer(page)} :
           /\ newEvents' = newEvents \o SelectPrints(newer)
           /\ \/ /\ page = <<>> \/ newer # page
                 /\ step' = "endTip"
                 /\ UNCHANGED offset
              \/ /\ page # <<>> /\ newer = page
                 /\ step' = "page"
                 /\ offset' = NextOffset(page)
    /\ UNCHANGED <<network, lastSeen, events, seen, startTip, worker, faults, enqueued, lost, uprooted>>

\* possible race condition. exit and retry at next repeat
TipMoved_Ignored == FALSE
TipMoved == tip # startTip

FetchEndTip ==
    /\ step = "endTip"
    /\ IF TipMoved \/ newEvents = <<>>
       THEN Leave
       ELSE step' = "setLast" /\ UNCHANGED <<seen, startTip, newEvents, offset>>
    /\ UNCHANGED <<network, lastSeen, events, worker, faults, enqueued, lost, uprooted>>

FirstEvent_Oldest == newEvents[Len(newEvents)]
FirstEvent == newEvents[1]

SetLastSeenTxid ==
    /\ step = "setLast"
    /\ lastSeen' = FirstEvent.tx
    /\ step' = "addBulk"
    /\ UNCHANGED <<network, events, seen, startTip, newEvents, offset, worker, faults, enqueued, lost, uprooted>>

Occurrences(e) == Cardinality({k \in DOMAIN newEvents : newEvents[k] = e})

AddBulk ==
    /\ step = "addBulk"
    /\ waiting' = [e \in Events |-> waiting[e] + Occurrences(e)]
    /\ enqueued' = [e \in Events |-> enqueued[e] + Occurrences(e)]
    /\ Leave
    /\ UNCHANGED <<network, lastSeen, failed, stalled, delivered, worker, faults, lost, uprooted>>

\* The cron's queue has no retries: the next repetition starts over, from
\* the recorded transaction.
InHand == IF step = "addBulk" THEN ToSet(newEvents) ELSE {}

CronFails ==
    /\ step # "idle"
    /\ Fault
    /\ lost' = lost \cup InHand
    /\ Leave
    /\ UNCHANGED <<network, lastSeen, events, worker, enqueued, uprooted>>

-----------------------------------------------------------------------------
(* The events worker: deserializeJob and eventJobHandler.                  *)

Rest == task' = NoEvent /\ taskStep' = "idle"

TakeEvent(e) ==
    /\ task = NoEvent
    /\ waiting[e] > 0
    /\ waiting' = [waiting EXCEPT ![e] = waiting[e] - 1]
    /\ task' = e
    /\ taskStep' = "deserialize"
    /\ UNCHANGED <<network, lastSeen, failed, stalled, delivered, cron, faults, enqueued, lost, uprooted>>

\* isFinalizeInboundEvent, isInitiateOutboundEvent.
HasQueue_OutboundOnly(e) == Topic(e) = "initiate-outbound"
HasQueue(e) == Topic(e) \in Handled

\* deserializeEvent throws for a transaction that is not confirmed (any
\* more), and for an API error; the events queue has no retries.
DeserializeEvent ==
    /\ taskStep = "deserialize"
    /\ \/ /\ task.tx \in ToSet(chain)
          /\ taskStep' = IF HasQueue(task) THEN "add" ELSE "complete"
          /\ UNCHANGED <<failed, task, faults>>
       \/ /\ IF task.tx \in ToSet(chain) THEN Fault ELSE UNCHANGED faults
          /\ failed' = [failed EXCEPT ![task] = failed[task] + 1]
          /\ Rest
    /\ UNCHANGED <<network, lastSeen, waiting, stalled, delivered, cron, enqueued, lost, uprooted>>

AddJob_BothQueues ==
    /\ taskStep = "add"
    /\ delivered' = [delivered EXCEPT ![task] = delivered[task] + 2]
    /\ taskStep' = "complete"
    /\ UNCHANGED <<network, lastSeen, waiting, failed, stalled, cron, task, faults, enqueued, lost, uprooted>>
AddJob ==
    /\ taskStep = "add"
    /\ delivered' = [delivered EXCEPT ![task] = delivered[task] + 1]
    /\ taskStep' = "complete"
    /\ UNCHANGED <<network, lastSeen, waiting, failed, stalled, cron, task, faults, enqueued, lost, uprooted>>

CompleteJob ==
    /\ taskStep = "complete"
    /\ Rest
    /\ UNCHANGED <<network, lastSeen, events, cron, faults, enqueued, lost, uprooted>>

-----------------------------------------------------------------------------
\* The process dies.  The cron starts over; Bull runs a job it finds stalled
\* a second time, and fails it the next.
Requeue ==
    IF task \in stalled
    THEN /\ failed' = [failed EXCEPT ![task] = failed[task] + 1]
         /\ UNCHANGED <<waiting, stalled>>
    ELSE /\ waiting' = [waiting EXCEPT ![task] = waiting[task] + 1]
         /\ stalled' = stalled \cup {task}
         /\ UNCHANGED failed

Crash ==
    /\ step # "idle" \/ task # NoEvent
    /\ Fault
    /\ lost' = lost \cup InHand
    /\ Leave
    /\ Rest
    /\ IF task = NoEvent THEN UNCHANGED <<waiting, failed, stalled>> ELSE Requeue
    /\ UNCHANGED <<network, lastSeen, delivered, enqueued, uprooted>>

Cron == StartCron \/ GetBridgeEvents \/ FetchEndTip \/ SetLastSeenTxid \/ AddBulk
Work == (\E e \in Events : TakeEvent(e)) \/ DeserializeEvent \/ AddJob \/ CompleteJob

Next ==
    \/ \E t \in Txs : Mine(t)
    \/ \E k \in 0 .. Len(chain) : Fork(k)
    \/ Cron
    \/ CronFails
    \/ Work
    \/ Crash

Spec == Init /\ [][Next]_vars

\* The cron repeats and its handler runs on; the events worker takes a job
\* when it has none, and runs on.
Fairness == WF_vars(Cron) /\ WF_vars(Work)

FairSpec == Spec /\ Fairness

-----------------------------------------------------------------------------
(* Properties.                                                             *)

\* Every event up to the recorded transaction has been given a job, or is
\* about to be, or a fault hit between setLastSeenTxid and addBulk.
NeverSkipped ==
    \A i, k \in DOMAIN chain :
        (i <= k /\ chain[k] = lastSeen) =>
            \A e \in EventsOf(chain[i]) :
                IsPrint(e) => enqueued[e] > 0 \/ e \in InHand \cup lost

\* Nothing that the cron will never look at again was skipped, unless a fork
\* took a transaction it had seen: blocks mined and forks above that
\* transaction, at any moment of a run, do no harm.
NothingSkipped == ~uprooted => NeverSkipped

\* No event is given two jobs: overlapping pages and repeated fetches never
\* return one a second time, unless a fork took the marker they stop at.
EnqueuedOnce == ~uprooted => \A e \in Events : enqueued[e] <= 1

\* What the cron ought to find: the prints of the transactions mined after
\* the last seen one (of all, if a fork took it), newest first.
Unseen ==
    LET k == SelectInSeq(chain, LAMBDA t : t = seen)
        later == SubSeq(chain, k + 1, Len(chain))
    IN  Prints(FlattenSeq(Reverse([i \in DOMAIN later |-> LogOf(later[i])])))

\* The events collected page by page are exactly those, when the tip says
\* that the log did not change meanwhile.
BatchIsExact == (step = "endTip" /\ tip = startTip) => newEvents = Unseen

\* A job of the events queue adds its event to the queue of its topic once,
\* and a second time only when it stalled.
DeliveredOnce ==
    \A e \in Events : delivered[e] <= enqueued[e] + IF e \in stalled THEN 1 ELSE 0

\* Every event of a handled topic is eventually handed to its queue, unless
\* its job is on the failed list, a fork took its transaction or the one
\* seen last, or a fault hit between setLastSeenTxid and addBulk.
MinedIsDelivered ==
    \A e \in {f \in Events : Topic(f) \in Handled} :
        e.tx \in ToSet(chain)
            ~> \/ delivered[e] > 0 \/ failed[e] > 0
               \/ e \in lost \/ uprooted
               \/ e.tx \notin ToSet(chain)
=============================================================================
