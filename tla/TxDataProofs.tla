----------------------------- MODULE TxDataProofs ---------------------------
(***************************************************************************)
(* The proof that txData builds verifies, for chains of every length, any  *)
(* number of forks and of rejected requests, and servers that lag behind   *)
(* as far as they like: as long as no fork comes in between, the headers   *)
(* of the walk are the chain's own, from the payment's block up.           *)
(***************************************************************************)
EXTENDS TxData, TLAPS

\* Before the walk nothing is collected; during it the heights are known.
Stages ==
    /\ step \in {"idle", "read"} => header = NoBlock /\ prevBlocks = <<>> /\ stacks = "unknown"
    /\ step \in {"walk", "merkle", "built"} => confirmations # None /\ burnTip # None
    /\ step \in {"merkle", "built"} => header # NoBlock /\ stacks = "found"

\* A header is of a height that the chain has reached.
Reached == header # NoBlock => height \in 1 .. Len(chain)

\* Without a fork the headers are the chain's own: the one at the height the
\* walk has reached, and below it one per height, down to the height that
\* was computed for the payment.
OnChain ==
    step \in {"walk", "merkle", "built"} /\ ~forked =>
        /\ height = BurnHeight + Len(prevBlocks)
        /\ prevBlocks # <<>> => BurnHeight >= 1 /\ height - 1 <= Len(chain)
        /\ \A k \in 1 .. Len(prevBlocks) : prevBlocks[k] = Block(height - k)
        /\ header # NoBlock => header = Block(height)
        /\ stacks = "found" => height \in 1 .. Len(chain) /\ chain[height].stacks

\* The Merkle path that Electrum found at that height is of the payment's
\* block: a height computed from servers that disagree does not get here.
Paid ==
    step = "built" /\ ~forked =>
        txHeight = BurnHeight /\ txHeight > 0 /\ merkle = Block(txHeight)

\* The inductive invariant.
IInv ==
    /\ TypeOK
    /\ Stages
    /\ Reached
    /\ OnChain
    /\ Paid

-----------------------------------------------------------------------------
(* Prefixes of a sequence.                                                 *)

\* The blocks a fork keeps are a chain of the same blocks.
LEMMA PrefixFacts ==
    ASSUME NEW S, NEW s \in Seq(S), NEW h \in 0 .. Len(s)
    PROVE  /\ SubSeq(s, 1, h) \in Seq(S)
           /\ Len(SubSeq(s, 1, h)) = h
           /\ \A k \in 1 .. h : SubSeq(s, 1, h)[k] = s[k]
OBVIOUS

\* The parent of a block is the block one below it.
LEMMA PrefixParent ==
    ASSUME NEW S, NEW s \in Seq(S), NEW h \in 1 .. Len(s)
    PROVE  /\ Front(SubSeq(s, 1, h)) = SubSeq(s, 1, h - 1)
           /\ Last(SubSeq(s, 1, h)) = s[h]
           /\ SubSeq(s, 1, h) # <<>>
<1>. DEFINE p == SubSeq(s, 1, h)
<1>1. p \in Seq(S) /\ Len(p) = h /\ \A k \in 1 .. h : p[k] = s[k]
  BY PrefixFacts
<1>2. SubSeq(p, 1, h - 1) = SubSeq(s, 1, h - 1)
  <2>1. SubSeq(p, 1, h - 1) = [k \in 1 .. h - 1 |-> p[k]]
    BY <1>1
  <2>2. SubSeq(s, 1, h - 1) = [k \in 1 .. h - 1 |-> s[k]]
    OBVIOUS
  <2>3. \A k \in 1 .. h - 1 : p[k] = s[k]
    BY <1>1
  <2>. QED
    BY <2>1, <2>2, <2>3
<1>. QED
  BY <1>1, <1>2 DEF Front, Last

\* A block that is mined on top leaves the blocks below as they are.
LEMMA AppendPrefix ==
    ASSUME NEW S, NEW s \in Seq(S), NEW x \in S, NEW h \in 0 .. Len(s)
    PROVE  SubSeq(Append(s, x), 1, h) = SubSeq(s, 1, h)
<1>1. SubSeq(Append(s, x), 1, h) = [k \in 1 .. h |-> Append(s, x)[k]]
  OBVIOUS
<1>2. SubSeq(s, 1, h) = [k \in 1 .. h |-> s[k]]
  OBVIOUS
<1>3. \A k \in 1 .. h : Append(s, x)[k] = s[k]
  OBVIOUS
<1>. QED
  BY <1>1, <1>2, <1>3

\* A block is a sequence of links.
LEMMA BlockType ==
    ASSUME TypeOK, NEW h \in 0 .. Len(chain)
    PROVE  Block(h) \in Seq(Links)
BY PrefixFacts DEF TypeOK, Block

-----------------------------------------------------------------------------
(* IInv is inductive: it holds initially, and each action preserves it.    *)

\* There is no block yet, and no proof in the making.
LEMMA InitIInv == Init => IInv
<1>. SUFFICES ASSUME Init PROVE IInv
  OBVIOUS
<1>1. 0 \in 1 - MaxHeight .. MaxHeight + 1 /\ 0 \in 0 .. MaxForks /\ 0 \in 0 .. MaxFaults
  BY BoundAssumption
<1>2. <<>> \in Seq(Links) /\ <<>> \in Seq(Seq(Links)) /\ Len(<<>>) = 0
  OBVIOUS
<1>3. chain \in Seq(Links) /\ Len(chain) = 0 /\ Len(chain) <= MaxHeight /\ 0 \in 0 .. Len(chain)
  BY <1>2, BoundAssumption DEF Init
<1>4. TypeOK
  BY <1>1, <1>2, <1>3 DEF Init, TypeOK, None, NoBlock
<1>. QED
  BY <1>4 DEF Init, IInv, Stages, Reached, OnChain, Paid, NoBlock

\* A txData that is over leaves nothing behind.
LEMMA LeaveStep ==
    ASSUME IInv, Leave, faults' \in 0 .. MaxFaults, UNCHANGED <<bitcoin, servers>>
    PROVE  IInv'
<1>1. 0 \in 1 - MaxHeight .. MaxHeight + 1
  BY BoundAssumption
<1>2. <<>> \in Seq(Links) /\ <<>> \in Seq(Seq(Links))
  OBVIOUS
<1>3. TypeOK'
  BY <1>1, <1>2 DEF IInv, TypeOK, Leave, bitcoin, servers, None, NoBlock
<1>. QED
  BY <1>3 DEF IInv, Stages, Reached, OnChain, Paid, Leave, NoBlock

\* The walk does not notice a block on top of the chain.
LEMMA MineStep ==
    ASSUME IInv, NEW s \in BOOLEAN, NEW p \in BOOLEAN, Mine(s, p)
    PROVE  IInv'
<1>. DEFINE link == [branch |-> forks, stacks |-> s]
<1>1. /\ chain \in Seq(Links) /\ link \in Links /\ chain' = Append(chain, link)
      /\ Len(chain) \in Nat /\ Len(chain) < MaxHeight
      /\ UNCHANGED <<forks, servers, faults, run, forked>>
  BY DEF IInv, TypeOK, Mine, Links
<1>2. /\ Len(chain') = Len(chain) + 1 /\ chain' \in Seq(Links)
      /\ \A h \in 1 .. Len(chain) : chain'[h] = chain[h]
      /\ \A h \in 0 .. Len(chain) : SubSeq(chain', 1, h) = SubSeq(chain, 1, h)
  BY <1>1, AppendPrefix
<1>3. txHeight \in Nat /\ txHeight' \in 0 .. Len(chain') /\ (txHeight > 0 => txHeight' = txHeight)
  BY <1>1, <1>2 DEF IInv, TypeOK, Mine
<1>4. TypeOK'
  BY <1>1, <1>2, <1>3, BoundAssumption DEF IInv, TypeOK, servers, run, walk
<1>5. Stages' /\ Reached'
  BY <1>1, <1>2 DEF IInv, Stages, Reached, run, walk
<1>6. OnChain'
  <2>. SUFFICES ASSUME step \in {"walk", "merkle", "built"}, ~forked
                PROVE  OnChain'
    BY <1>1 DEF OnChain, run
  <2>1. /\ BurnHeight' = BurnHeight
        /\ UNCHANGED <<height, prevBlocks, header, stacks>>
    BY <1>1 DEF BurnHeight, run, walk
  <2>2. BurnHeight \in Int /\ height \in Int /\ Len(prevBlocks) \in Nat
    BY BoundAssumption DEF IInv, TypeOK, BurnHeight, None
  <2>3. ASSUME NEW k \in 1 .. Len(prevBlocks)
        PROVE  prevBlocks[k] = SubSeq(chain', 1, height - k)
    <3>1. height - k \in 0 .. Len(chain) /\ prevBlocks[k] = SubSeq(chain, 1, height - k)
      BY <1>1, <2>2 DEF IInv, OnChain, Block
    <3>. QED
      BY <1>2, <3>1
  <2>4. header # NoBlock => header = SubSeq(chain', 1, height)
    <3>1. header # NoBlock => height \in 0 .. Len(chain) /\ header = SubSeq(chain, 1, height)
      BY <1>1 DEF IInv, Reached, OnChain, Block
    <3>. QED
      BY <1>2, <3>1
  <2>5. stacks = "found" => height \in 1 .. Len(chain') /\ chain'[height].stacks
    BY <1>1, <1>2 DEF IInv, OnChain
  <2>6. /\ height = BurnHeight + Len(prevBlocks)
        /\ prevBlocks # <<>> => BurnHeight >= 1 /\ height - 1 <= Len(chain')
    BY <1>1, <1>2, <2>2 DEF IInv, OnChain
  <2>. QED
    BY <2>1, <2>3, <2>4, <2>5, <2>6 DEF OnChain, Block
<1>7. Paid'
  BY <1>1, <1>2, <1>3 DEF IInv, TypeOK, Paid, Block, BurnHeight, run, walk
<1>. QED
  BY <1>4, <1>5, <1>6, <1>7 DEF IInv

\* A fork ends what is claimed of the walk, and replaces no more than the
\* last block, so that every height that was reached still is.
LEMMA ForkStep ==
    ASSUME IInv, NEW s1 \in BOOLEAN, NEW s2 \in BOOLEAN, Fork(s1, s2)
    PROVE  IInv'
<1>1. /\ chain \in Seq(Links) /\ chain # <<>> /\ Len(chain) \in Nat /\ Len(chain) < MaxHeight
      /\ forks' = forks + 1 /\ forks \in 0 .. MaxForks /\ forks' \in 0 .. MaxForks
      /\ forked' = (step # "idle")
      /\ UNCHANGED <<servers, faults, run>>
  BY BoundAssumption DEF IInv, TypeOK, Fork
<1>2. chain' \in Seq(Links) /\ Len(chain') = Len(chain) + 1
  <2>. DEFINE l1 == [branch |-> forks + 1, stacks |-> s1]
              l2 == [branch |-> forks + 1, stacks |-> s2]
  <2>1. l1 \in Links /\ l2 \in Links
    BY <1>1 DEF Links
  <2>2. Front(chain) \in Seq(Links) /\ Len(Front(chain)) = Len(chain) - 1
    <3>1. Len(chain) >= 1
      BY <1>1
    <3>2. Front(chain) = SubSeq(chain, 1, Len(chain) - 1) /\ Len(chain) - 1 \in 0 .. Len(chain)
      BY <1>1, <3>1 DEF Front
    <3>. QED
      BY <1>1, <3>2, PrefixFacts
  <2>3. <<l1, l2>> \in Seq(Links) /\ Len(<<l1, l2>>) = 2
    BY <2>1
  <2>4. chain' = Front(chain) \o <<l1, l2>>
    BY DEF Fork
  <2>. HIDE DEF l1, l2
  <2>. QED
    BY <1>1, <2>2, <2>3, <2>4
<1>3. txHeight' \in 0 .. Len(chain')
  BY <1>1, <1>2 DEF IInv, TypeOK, Fork
<1>4. TypeOK'
  BY <1>1, <1>2, <1>3, BoundAssumption DEF IInv, TypeOK, servers, run, walk
<1>5. Stages' /\ Reached'
  BY <1>1, <1>2 DEF IInv, Stages, Reached, run, walk
<1>6. OnChain' /\ Paid'
  BY <1>1 DEF OnChain, Paid, run
<1>. QED
  BY <1>4, <1>5, <1>6 DEF IInv

\* Neither the servers nor what is read of them change what was collected.
LEMMA ReadStep ==
    ASSUME IInv,
           ElectrumSyncs \/ NodeSyncs \/ Start \/ GetTransaction \/ FetchCoreInfo
    PROVE  IInv'
<1>1. UNCHANGED <<bitcoin, walk, merkle, forked>> /\ UNCHANGED faults
  BY DEF ElectrumSyncs, NodeSyncs, Start, GetTransaction, FetchCoreInfo, run
<1>2. /\ step' # step => step = "idle" /\ step' = "read"
      /\ confirmations' # confirmations => step = "read" /\ confirmations' \in 1 .. MaxHeight
      /\ burnTip' # burnTip => step = "read" /\ burnTip' \in 0 .. MaxHeight
  BY BoundAssumption DEF IInv, TypeOK, ElectrumSyncs, NodeSyncs, Start, GetTransaction,
     FetchCoreInfo, run, Confirmed
<1>3. electrumTip' \in 0 .. Len(chain) /\ nodeTip' \in 0 .. Len(chain)
  BY DEF IInv, TypeOK, ElectrumSyncs, NodeSyncs, Start, GetTransaction, FetchCoreInfo,
     servers
<1>4. TypeOK'
  BY <1>1, <1>2, <1>3 DEF IInv, TypeOK, bitcoin, walk
<1>5. Stages' /\ Reached'
  BY <1>1, <1>2 DEF IInv, Stages, Reached, bitcoin, walk
<1>6. OnChain' /\ Paid'
  BY <1>1, <1>2 DEF IInv, OnChain, Paid, BurnHeight, Block, bitcoin, walk
<1>. QED
  BY <1>4, <1>5, <1>6 DEF IInv

\* The walk starts at the height computed, with nothing collected.
LEMMA ReadBothStep ==
    ASSUME IInv, ReadBoth
    PROVE  IInv'
<1>1. /\ step = "read" /\ step' = "walk"
      /\ confirmations # None /\ burnTip # None
      /\ height' = BurnHeight /\ BurnHeight' = BurnHeight
      /\ prevBlocks' = <<>> /\ header' = NoBlock /\ stacks' = "unknown"
      /\ UNCHANGED <<bitcoin, servers, faults, confirmations, burnTip, merkle, forked>>
  BY DEF IInv, Stages, ReadBoth, BurnHeight
<1>2. BurnHeight \in 1 - MaxHeight .. MaxHeight
  BY <1>1, BoundAssumption DEF IInv, TypeOK, BurnHeight, None
<1>3. TypeOK'
  BY <1>1, <1>2, BoundAssumption DEF IInv, TypeOK, bitcoin, servers, NoBlock
<1>. QED
  BY <1>1, <1>2, <1>3 DEF IInv, Stages, Reached, OnChain, Paid

\* A header, or the answer for its height, arrives.
LEMMA LookupStep ==
    ASSUME IInv, BlockHeader \/ GetStacksHeight
    PROVE  IInv'
<1>1. /\ step = "walk"
      /\ UNCHANGED <<bitcoin, servers, step, confirmations, burnTip, height, prevBlocks,
                     merkle, forked>>
      /\ header' # header => height \in 1 .. Len(chain) /\ header' = Block(height)
      /\ stacks' = "found" /\ stacks' # stacks => height \in 1 .. Len(chain) /\ chain[height].stacks
      /\ stacks' \in {stacks, "found", "null"}
      /\ faults' \in 0 .. MaxFaults
  BY BoundAssumption DEF IInv, TypeOK, BlockHeader, GetStacksHeight, Fault
<1>2. TypeOK'
  <2>1. header' \in Seq(Links)
    <3>1. height \in 1 .. Len(chain) => height \in 0 .. Len(chain)
      BY DEF IInv, TypeOK
    <3>. QED
      BY <1>1, <3>1, BlockType DEF IInv, TypeOK
  <2>. QED
    BY <1>1, <2>1 DEF IInv, TypeOK, bitcoin, servers
<1>3. Stages' /\ Reached' /\ Paid'
  BY <1>1 DEF IInv, Stages, Reached, Paid, bitcoin
<1>4. OnChain'
  BY <1>1 DEF IInv, OnChain, BurnHeight, Block, bitcoin
<1>. QED
  BY <1>2, <1>3, <1>4 DEF IInv

\* The walk stops, or goes up by one with the header it has.
LEMMA FindStacksBlockStep ==
    ASSUME IInv, FindStacksBlock
    PROVE  IInv'
<1>1. /\ step = "walk" /\ header # NoBlock /\ height \in 1 .. Len(chain)
      /\ UNCHANGED <<bitcoin, servers, faults, confirmations, burnTip, merkle, forked>>
  BY DEF IInv, Reached, FindStacksBlock
<1>2. CASE stacks = "found" /\ step' = "merkle" /\ UNCHANGED walk
  <2>1. TypeOK'
    BY <1>1, <1>2 DEF IInv, TypeOK, walk, bitcoin, servers
  <2>. QED
    BY <1>1, <1>2, <2>1
       DEF IInv, Stages, Reached, OnChain, Paid, BurnHeight, Block, walk, bitcoin
<1>3. CASE /\ prevBlocks' = PrevBlocks /\ height' = height + 1
           /\ header' = NoBlock /\ stacks' = "unknown" /\ UNCHANGED step
  <2>1. /\ prevBlocks \in Seq(Seq(Links)) /\ header \in Seq(Links)
        /\ prevBlocks' \in Seq(Seq(Links)) /\ Len(prevBlocks') = Len(prevBlocks) + 1
        /\ prevBlocks'[1] = header
        /\ \A k \in 2 .. Len(prevBlocks) + 1 : prevBlocks'[k] = prevBlocks[k - 1]
        /\ prevBlocks' # <<>>
    BY <1>3 DEF IInv, TypeOK, PrevBlocks
  <2>2. TypeOK'
    BY <1>1, <1>3, <2>1, BoundAssumption DEF IInv, TypeOK, bitcoin, servers, NoBlock
  <2>3. Stages' /\ Reached' /\ Paid'
    BY <1>1, <1>3 DEF IInv, Stages, Reached, Paid
  <2>4. OnChain'
    <3>. SUFFICES ASSUME ~forked PROVE OnChain'
      BY <1>1 DEF OnChain
    <3>1. /\ header = Block(height) /\ height = BurnHeight + Len(prevBlocks)
          /\ prevBlocks # <<>> => BurnHeight >= 1
          /\ \A k \in 1 .. Len(prevBlocks) : prevBlocks[k] = Block(height - k)
      BY <1>1 DEF IInv, OnChain
    <3>2. BurnHeight' = BurnHeight /\ BurnHeight \in Int /\ Len(prevBlocks) \in Nat /\ height \in Int
      BY <1>1, <2>1, BoundAssumption DEF IInv, TypeOK, BurnHeight, None
    <3>3. BurnHeight >= 1
      <4>1. CASE prevBlocks = <<>>
        BY <1>1, <3>1, <3>2, <4>1
      <4>. QED
        BY <3>1, <4>1
    <3>4. ASSUME NEW k \in 1 .. Len(prevBlocks')
          PROVE  prevBlocks'[k] = Block(height + 1 - k)
      <4>1. CASE k = 1
        BY <2>1, <3>1, <3>2, <4>1
      <4>2. CASE k # 1
        <5>1. k - 1 \in 1 .. Len(prevBlocks) /\ height - (k - 1) = height + 1 - k
          BY <2>1, <3>2, <4>2
        <5>. QED
          BY <2>1, <3>1, <3>2, <4>2, <5>1
      <4>. QED
        BY <4>1, <4>2
    <3>. QED
      BY <1>1, <1>3, <2>1, <3>1, <3>2, <3>3, <3>4 DEF OnChain, Block, bitcoin
  <2>. QED
    BY <2>2, <2>3, <2>4 DEF IInv
<1>. QED
  BY <1>2, <1>3 DEF FindStacksBlock

\* The Merkle path is found only at the height of the payment.
LEMMA GetMerkleStep ==
    ASSUME IInv, GetMerkle
    PROVE  IInv'
<1>1. /\ step = "merkle" /\ step' = "built"
      /\ txHeight \in 1 .. Len(chain) /\ txHeight = BurnHeight
      /\ merkle' = Block(BurnHeight) /\ BurnHeight' = BurnHeight
      /\ UNCHANGED <<bitcoin, servers, faults, confirmations, burnTip, walk, forked>>
  BY DEF IInv, TypeOK, GetMerkle, Confirmed, BurnHeight
<1>2. TypeOK'
  <2>1. merkle' \in Seq(Links)
    BY <1>1, PrefixFacts DEF IInv, TypeOK, Block
  <2>. QED
    BY <1>1, <2>1 DEF IInv, TypeOK, bitcoin, servers, walk
<1>. QED
  BY <1>1, <1>2 DEF IInv, TypeOK, Stages, Reached, OnChain, Paid, Block, bitcoin, walk

\* IInv is inductive: one case per action of Next.
LEMMA NextIInv == IInv /\ [Next]_vars => IInv'
<1>. SUFFICES ASSUME IInv, [Next]_vars PROVE IInv'
  OBVIOUS
<1>1. CASE Reject \/ Submit
  BY <1>1, LeaveStep DEF IInv, TypeOK, Reject, Submit
<1>2. CASE Throw
  BY <1>2, LeaveStep, BoundAssumption DEF IInv, TypeOK, Throw, Fault
<1>3. CASE UNCHANGED vars
  BY <1>3 DEF vars, bitcoin, servers, run, walk, IInv, TypeOK, Stages, Reached, OnChain,
     Paid, BurnHeight, Block
<1>. QED
  BY <1>1, <1>2, <1>3, MineStep, ForkStep, ReadStep, ReadBothStep, LookupStep,
     FindStacksBlockStep, GetMerkleStep DEF Next, Run

\* IInv holds in every reachable state.
LEMMA Invariance == Spec => []IInv
BY InitIInv, NextIInv, PTL DEF Spec

-----------------------------------------------------------------------------
(* The theorems.                                                           *)

\* Every variable stays within its type: no height leaves the range of those
\* that servers at different heights can give.
THEOREM TypeCorrect == Spec => []TypeOK
<1>1. IInv => TypeOK
  BY DEF IInv
<1>. QED
  BY <1>1, Invariance, PTL

\* The headers that were collected link up, and end where they have to.
LEMMA IInvVerifies == IInv => ProofVerifies
<1>. SUFFICES ASSUME IInv, step = "built", ~forked
              PROVE  Verifies /\ merkle = Block(txHeight)
  BY DEF ProofVerifies
<1>1. /\ chain \in Seq(Links) /\ prevBlocks \in Seq(Seq(Links)) /\ Len(prevBlocks) \in Nat
      /\ height \in 1 .. Len(chain) /\ chain[height].stacks /\ Len(chain) \in Nat
      /\ header \in Seq(Links) /\ header = Block(height)
      /\ \A k \in 1 .. Len(prevBlocks) : prevBlocks[k] = Block(height - k)
      /\ txHeight \in Nat /\ txHeight > 0 /\ merkle = Block(txHeight)
      /\ height = txHeight + Len(prevBlocks)
  BY DEF IInv, TypeOK, Stages, OnChain, Paid
<1>2. /\ Len(Headers) = Len(prevBlocks) + 1
      /\ Headers[1] = header
      /\ \A k \in 2 .. Len(prevBlocks) + 1 : Headers[k] = prevBlocks[k - 1]
  BY <1>1 DEF Headers
<1>3. ASSUME NEW k \in 1 .. Len(prevBlocks) + 1
      PROVE  Headers[k] = Block(height + 1 - k)
  <2>1. CASE k = 1
    BY <1>1, <1>2, <2>1
  <2>2. CASE k # 1
    <3>1. k - 1 \in 1 .. Len(prevBlocks) /\ height - (k - 1) = height + 1 - k
      BY <1>1, <2>2
    <3>. QED
      BY <1>1, <1>2, <2>2, <3>1
  <2>. QED
    BY <2>1, <2>2
<1>4. ASSUME NEW k \in 1 .. Len(Headers) - 1
      PROVE  Parent(Headers[k]) = Headers[k + 1]
  <2>1. /\ k \in 1 .. Len(prevBlocks) + 1 /\ k + 1 \in 1 .. Len(prevBlocks) + 1
        /\ height + 1 - k \in 1 .. Len(chain) /\ (height + 1 - k) - 1 = height + 1 - (k + 1)
    BY <1>1, <1>2
  <2>. QED
    BY <1>1, <1>3, <2>1, PrefixParent DEF Parent, Block
<1>5. Last(Headers) = merkle
  <2>1. Len(prevBlocks) + 1 \in 1 .. Len(prevBlocks) + 1
    BY <1>1
  <2>2. height + 1 - (Len(prevBlocks) + 1) = txHeight
    BY <1>1
  <2>. QED
    BY <1>1, <1>2, <1>3, <2>1, <2>2 DEF Last
<1>6. Last(header).stacks
  BY <1>1, PrefixParent DEF Block
<1>. QED
  BY <1>1, <1>4, <1>5, <1>6 DEF Verifies

\* Whatever one server lags behind the other, and whichever lookups failed,
\* a proof that is built is one the contract accepts, and of the payment.
THEOREM BuiltProofVerifies == Spec => []ProofVerifies
BY IInvVerifies, Invariance, PTL
=============================================================================
