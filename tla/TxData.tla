------------------------------- MODULE TxData -------------------------------
(***************************************************************************)
(* The proof that a payment is in Bitcoin's chain: txData in               *)
(* src/processors/finalize-outbound.ts and findStacksBlockAtHeight in      *)
(* src/stacks-api.ts.  The height of the payment's block is computed from  *)
(* the confirmations that Electrum counts and the burn height that the     *)
(* Stacks node reports; from there the walk goes up to the first block     *)
(* with a Stacks block, and the headers on the way are handed to the       *)
(* contract with the Merkle path.                                          *)
(*                                                                         *)
(* The two servers learn of a block at different times, forks replace the  *)
(* last block, and requests run concurrently or fail.                      *)
(***************************************************************************)
EXTENDS Integers, Sequences, SequencesExt

CONSTANTS
    MaxHeight,  \* bound: height of the chain
    MaxForks,   \* bound: forks
    MaxFaults   \* bound: rejected requests

ASSUME BoundAssumption == MaxHeight \in Nat \ {0} /\ MaxForks \in Nat /\ MaxFaults \in Nat

VARIABLES
    chain,       \* Bitcoin: per height, the branch and whether it has a Stacks block
    txHeight,    \* the height of the payment's block, 0 while it has none
    electrumTip, \* the height Electrum has reached
    nodeTip,     \* the burn height the Stacks node has reached
    forks, faults, \* bounds
    step,        \* txData: what it awaits
    confirmations, burnTip,  \* txData: tx.confirmations, burn_block_height
    height,      \* findStacksBlockAtHeight: height
    prevBlocks,  \* findStacksBlockAtHeight: headers below, newest first
    header,      \* findStacksBlockAtHeight: the header at height
    stacks,      \* findStacksBlockAtHeight: whether there is a Stacks block
    merkle,      \* txData: the block of the Merkle path
    forked       \* history: a fork happened during this txData

bitcoin == <<chain, txHeight, forks>>
servers == <<electrumTip, nodeTip>>
walk    == <<height, prevBlocks, header, stacks>>
run     == <<step, confirmations, burnTip, walk, merkle>>
vars    == <<bitcoin, servers, faults, run, forked>>

\* A block is the branches from the first block to itself, so that its
\* parent is its front.  None is an answer that has not arrived.
Links  == [branch : 0 .. MaxForks, stacks : BOOLEAN]
Block(h) == SubSeq(chain, 1, h)
Parent(b) == Front(b)
None == -1
NoBlock == <<>>

TypeOK ==
    /\ chain \in Seq(Links) /\ Len(chain) <= MaxHeight
    /\ txHeight \in 0 .. Len(chain)
    /\ electrumTip \in 0 .. Len(chain) /\ nodeTip \in 0 .. Len(chain)
    /\ forks \in 0 .. MaxForks /\ faults \in 0 .. MaxFaults
    /\ step \in {"idle", "read", "walk", "merkle", "built"}
    /\ confirmations \in {None} \cup 1 .. MaxHeight
    /\ burnTip \in {None} \cup 0 .. MaxHeight
    /\ height \in 1 - MaxHeight .. MaxHeight + 1
    /\ prevBlocks \in Seq(Seq(Links)) /\ header \in Seq(Links)
    /\ stacks \in {"unknown", "found", "null"} /\ merkle \in Seq(Links)
    /\ forked \in BOOLEAN

Init ==
    /\ chain = <<>> /\ txHeight = 0 /\ electrumTip = 0 /\ nodeTip = 0
    /\ forks = 0 /\ faults = 0
    /\ step = "idle"
    /\ confirmations = None /\ burnTip = None
    /\ height = 0 /\ prevBlocks = <<>> /\ header = NoBlock /\ stacks = "unknown" /\ merkle = NoBlock
    /\ forked = FALSE

Fault == faults < MaxFaults /\ faults' = faults + 1

-----------------------------------------------------------------------------
(* Bitcoin and the servers.                                                *)

\* A block, with a Stacks block or without, with the payment or without.
Mine(withStacks, payment) ==
    /\ Len(chain) < MaxHeight
    /\ chain' = Append(chain, [branch |-> forks, stacks |-> withStacks])
    /\ txHeight' = IF payment /\ txHeight = 0 THEN Len(chain) + 1 ELSE txHeight
    /\ UNCHANGED <<forks, servers, faults, run, forked>>

\* Two blocks of a new branch replace the last block; the payment, if it was
\* there, may be mined again in one of them.
Fork(stacks1, stacks2) ==
    /\ chain # <<>> /\ Len(chain) < MaxHeight /\ forks < MaxForks
    /\ forks' = forks + 1
    /\ chain' = Front(chain) \o <<[branch |-> forks + 1, stacks |-> stacks1],
                                  [branch |-> forks + 1, stacks |-> stacks2]>>
    /\ IF txHeight = Len(chain)
       THEN txHeight' \in {0, Len(chain), Len(chain) + 1}
       ELSE UNCHANGED txHeight
    /\ forked' = (step # "idle")
    /\ UNCHANGED <<servers, faults, run>>

ElectrumSyncs ==
    /\ electrumTip < Len(chain)
    /\ electrumTip' = electrumTip + 1
    /\ UNCHANGED <<bitcoin, nodeTip, faults, run, forked>>

NodeSyncs ==
    /\ nodeTip < Len(chain)
    /\ nodeTip' = nodeTip + 1
    /\ UNCHANGED <<bitcoin, electrumTip, faults, run, forked>>

-----------------------------------------------------------------------------
(* txData and findStacksBlockAtHeight.                                     *)

Leave ==
    /\ step' = "idle"
    /\ confirmations' = None /\ burnTip' = None
    /\ height' = 0 /\ prevBlocks' = <<>> /\ header' = NoBlock /\ stacks' = "unknown" /\ merkle' = NoBlock
    /\ forked' = FALSE

\* finalizeOutbound saw the payment confirmed.
Confirmed == txHeight \in 1 .. electrumTip

Start ==
    /\ step = "idle"
    /\ Confirmed
    /\ step' = "read"
    /\ UNCHANGED <<bitcoin, servers, faults, confirmations, burnTip, walk, merkle, forked>>

\* blockchain_transaction_get and fetchCoreInfo run concurrently.
GetTransaction ==
    /\ step = "read" /\ confirmations = None
    /\ Confirmed
    /\ confirmations' = electrumTip - txHeight + 1
    /\ UNCHANGED <<bitcoin, servers, faults, step, burnTip, walk, merkle, forked>>

FetchCoreInfo ==
    /\ step = "read" /\ burnTip = None
    /\ burnTip' = nodeTip
    /\ UNCHANGED <<bitcoin, servers, faults, step, confirmations, walk, merkle, forked>>

BurnHeight_OffByOne == burnTip - confirmations
BurnHeight == burnTip - confirmations + 1

ReadBoth ==
    /\ step = "read" /\ confirmations # None /\ burnTip # None
    /\ height' = BurnHeight
    /\ step' = "walk"
    /\ UNCHANGED <<bitcoin, servers, faults, confirmations, burnTip, prevBlocks, header, stacks, merkle, forked>>

\* blockchain_block_header: Electrum has the block.
BlockHeader ==
    /\ step = "walk" /\ header = NoBlock
    /\ height \in 1 .. electrumTip
    /\ header' = Block(height)
    /\ UNCHANGED <<bitcoin, servers, faults, step, confirmations, burnTip, height, prevBlocks, stacks, merkle, forked>>

\* getStacksHeight, concurrently: null also when the request fails.
GetStacksHeight ==
    /\ step = "walk" /\ stacks = "unknown"
    /\ \/ /\ height \in 1 .. nodeTip /\ chain[height].stacks
          /\ stacks' = "found"
          /\ UNCHANGED faults
       \/ /\ IF height \in 1 .. nodeTip /\ chain[height].stacks THEN Fault ELSE UNCHANGED faults
          /\ stacks' = "null"
    /\ UNCHANGED <<bitcoin, servers, step, confirmations, burnTip, height, prevBlocks, header, merkle, forked>>

PrevBlocks_Pushed == Append(prevBlocks, header)
PrevBlocks == <<header>> \o prevBlocks

\* Both are there: stop at a Stacks block, or go on with the next height.
FindStacksBlock ==
    /\ step = "walk" /\ header # NoBlock /\ stacks # "unknown"
    /\ \/ /\ stacks = "found"
          /\ step' = "merkle"
          /\ UNCHANGED walk
       \/ /\ stacks = "null"
          /\ prevBlocks' = PrevBlocks
          /\ height' = height + 1
          /\ header' = NoBlock /\ stacks' = "unknown"
          /\ UNCHANGED step
    /\ UNCHANGED <<bitcoin, servers, faults, confirmations, burnTip, merkle, forked>>

\* blockchain_transaction_getMerkle: Electrum finds the payment at the height.
GetMerkle ==
    /\ step = "merkle"
    /\ Confirmed /\ txHeight = BurnHeight
    /\ merkle' = Block(BurnHeight)
    /\ step' = "built"
    /\ UNCHANGED <<bitcoin, servers, faults, confirmations, burnTip, walk, forked>>

\* A request that has no answer: the payment lost its block, the walk passed
\* Electrum's tip, the payment is not at the height.
NoAnswer ==
    \/ step = "read" /\ ~Confirmed
    \/ step = "walk" /\ height \notin 1 .. electrumTip /\ header = NoBlock
    \/ step = "merkle" /\ ~(Confirmed /\ txHeight = BurnHeight)

Reject ==
    /\ NoAnswer
    /\ Leave
    /\ UNCHANGED <<bitcoin, servers, faults>>

Throw ==
    /\ step \notin {"idle", "built"}
    /\ Fault
    /\ Leave
    /\ UNCHANGED <<bitcoin, servers>>

\* The proof is submitted; the cron starts over with another payment, or
\* with this one if the contract refused it.
Submit ==
    /\ step = "built"
    /\ Leave
    /\ UNCHANGED <<bitcoin, servers, faults>>

Run ==
    \/ Start \/ GetTransaction \/ FetchCoreInfo \/ ReadBoth
    \/ BlockHeader \/ GetStacksHeight \/ FindStacksBlock \/ GetMerkle \/ Reject \/ Submit

Next ==
    \/ \E s, p \in BOOLEAN : Mine(s, p)
    \/ \E s1, s2 \in BOOLEAN : Fork(s1, s2)
    \/ ElectrumSyncs
    \/ NodeSyncs
    \/ Run
    \/ Throw

Spec == Init /\ [][Next]_vars

\* The cron repeats, its handler runs on, and the servers follow the chain.
Fairness == WF_vars(Run) /\ WF_vars(ElectrumSyncs) /\ WF_vars(NodeSyncs)

FairSpec == Spec /\ Fairness

-----------------------------------------------------------------------------
(* Properties.                                                             *)

\* The headers link up from the block of the Merkle path to the block with a
\* Stacks block: what finalize-outbound-swap verifies.
Headers == <<header>> \o prevBlocks
Verifies ==
    /\ \A k \in 1 .. Len(Headers) - 1 : Parent(Headers[k]) = Headers[k + 1]
    /\ Last(Headers) = merkle
    /\ Last(header).stacks

\* Every proof built verifies and is of the payment's block, however far one
\* server lags behind the other and whichever lookups of Stacks blocks
\* failed, unless a fork came in between.
ProofVerifies == step = "built" /\ ~forked => Verifies /\ merkle = Block(txHeight)

\* A payment whose block has a Stacks block at or above it is eventually
\* proved, or a fork takes its block: servers that disagree, the off-by-one
\* heights they lead to, and failed requests are outlived by the retries.
Provable == txHeight > 0 /\ \E h \in txHeight .. Len(chain) : chain[h].stacks
EventuallyBuilt == Provable ~> (step = "built" \/ ~Provable)
=============================================================================
