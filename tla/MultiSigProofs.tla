--------------------------- MODULE MultiSigProofs ---------------------------
(***************************************************************************)
(* What the leader of a multi-sig group may rely on, for every group,      *)
(* threshold and list of followers, whoever is down or refuses: it counts  *)
(* the signatures it has, and those it can get are enough.                 *)
(***************************************************************************)
EXTENDS MultiSig, FiniteSetTheorems, TLAPS

\* The followers asked so far.
Asked == {Followers[k] : k \in 1 .. i - 1}

\* While the loop over the followers runs, and after it, input 0 carries the
\* signatures of the leader, of none but followers that were asked, and of
\* all of those that are up and of the group.
Signed ==
    step \in {"ask", "finalize", "broadcast"} =>
        /\ 1 \in DOMAIN psbt
        /\ Leader \in psbt[1]
        /\ psbt[1] \subseteq {Leader} \cup Asked
        /\ (Reliable \ OtherGroup) \cap Asked \subseteq psbt[1]

\* Before it nobody was asked.
Fresh ==
    /\ step \in {"idle", "sign"} => i = 1 /\ numSigs = 0
    /\ step = "idle" => inputs = <<>>
    /\ step # "idle" => inputs \in Selections

\* The inductive invariant.
IInv ==
    /\ TypeOK
    /\ Signed
    /\ Fresh
    /\ CountIsTrue

-----------------------------------------------------------------------------
\* The followers are as many as the URLs, and the group is finite.
LEMMA GroupFacts ==
    /\ Len(Followers) \in Nat /\ DOMAIN Followers = 1 .. Len(Followers)
    /\ IsFiniteSet(FollowerSet)
    /\ IsFiniteSet(Signers) /\ Cardinality(Signers) \in Nat \ {0}
<1>1. Len(Followers) \in Nat /\ DOMAIN Followers = 1 .. Len(Followers)
  BY FollowersAssumption
<1>2. IsFiniteSet(DOMAIN Followers)
  BY <1>1, FS_Interval
<1>3. IsFiniteSet(FollowerSet)
  <2>1. Followers \in Surjection(DOMAIN Followers, FollowerSet)
    BY <1>1, FollowersAssumption DEF Surjection, FollowerSet
  <2>. QED
    BY <1>2, <2>1, FS_Surjection
<1>4. IsFiniteSet(Signers) /\ Cardinality(Signers) = Cardinality(FollowerSet) + 1
  BY <1>3, FollowersAssumption, FS_AddElement DEF Signers
<1>5. Cardinality(FollowerSet) \in Nat
  BY <1>3, FS_CardinalityType
<1>. QED
  BY <1>1, <1>3, <1>4, <1>5

\* A selection is a sequence of at least one coin.
LEMMA SelectionFacts ==
    ASSUME NEW s \in Selections
    PROVE  \E n \in Nat \ {0} : DOMAIN s = 1 .. n
BY BoundAssumption DEF Selections

\* What is signed is a part of the group, and so its size is a number.
LEMMA SignedFacts ==
    ASSUME NEW S \in SUBSET Signers
    PROVE  IsFiniteSet(S) /\ Cardinality(S) \in 0 .. Cardinality(Signers)
<1>1. IsFiniteSet(S) /\ Cardinality(S) <= Cardinality(Signers)
  BY GroupFacts, FS_Subset
<1>. QED
  BY <1>1, GroupFacts, FS_CardinalityType

-----------------------------------------------------------------------------
(* IInv is inductive: it holds initially, and each action preserves it.    *)

\* An attempt that is over leaves nothing behind.
LEMMA RestStep ==
    ASSUME Rest, attempts' \in 0 .. MaxAttempts, broadcast' \subseteq Selections
    PROVE  IInv'
<1>1. TypeOK'
  BY GroupFacts DEF Rest, TypeOK
<1>. QED
  BY <1>1 DEF Rest, IInv, Signed, Fresh, CountIsTrue

\* At the start no attempt was made.
LEMMA InitIInv == Init => IInv
<1>. SUFFICES ASSUME Init PROVE IInv
  OBVIOUS
<1>1. TypeOK
  BY GroupFacts, BoundAssumption DEF Init, TypeOK
<1>. QED
  BY <1>1 DEF Init, IInv, Signed, Fresh, CountIsTrue

\* The transaction has an input for every coin, and no signatures.
LEMMA ConstructStep ==
    ASSUME IInv, ConstructUnsignedMsTx
    PROVE  IInv'
<1>1. TypeOK'
  BY BoundAssumption DEF IInv, TypeOK, ConstructUnsignedMsTx
<1>. QED
  BY <1>1 DEF IInv, Signed, Fresh, CountIsTrue, ConstructUnsignedMsTx

\* The leader's signature is the first.
LEMMA LeaderSignsStep ==
    ASSUME IInv, LeaderSigns
    PROVE  IInv'
<1>1. 1 \in DOMAIN psbt
  BY SelectionFacts DEF IInv, TypeOK, Fresh, LeaderSigns
<1>2. psbt'[1] = {Leader} /\ 1 \in DOMAIN psbt' /\ DOMAIN psbt' = DOMAIN psbt
  BY <1>1 DEF LeaderSigns
<1>3. TypeOK'
  BY GroupFacts DEF IInv, TypeOK, Signers, LeaderSigns
<1>4. Asked' = {} /\ Signed'
  BY <1>2 DEF IInv, Fresh, Signed, Asked, LeaderSigns
<1>5. CountIsTrue'
  BY <1>2, FS_Singleton DEF CountIsTrue, LeaderSigns
<1>. QED
  BY <1>3, <1>4, <1>5 DEF IInv, Fresh, LeaderSigns

\* The next follower was not asked before.
LEMMA NextFollowerFacts ==
    ASSUME IInv, Asking
    PROVE  /\ i \in DOMAIN Followers /\ i \in Nat
           /\ Followers[i] \in FollowerSet
           /\ Followers[i] \notin {Leader} \cup Asked
           /\ i' = NextFollower => Asked' = Asked \cup {Followers[i]}
<1>1. i \in DOMAIN Followers /\ i \in Nat
  BY GroupFacts DEF IInv, TypeOK, Asking, LoopEnds
<1>2. Followers[i] \in FollowerSet
  BY <1>1 DEF FollowerSet
<1>3. Followers[i] \notin {Leader} \cup Asked
  BY <1>1, <1>2, GroupFacts, FollowersAssumption DEF Asked
<1>4. i' = NextFollower => Asked' = Asked \cup {Followers[i]}
  <2>1. 1 .. i = (1 .. i - 1) \cup {i}
    BY <1>1, GroupFacts
  <2>2. NextFollower - 1 = i
    BY <1>1 DEF NextFollower
  <2>. QED
    BY <2>1, <2>2 DEF Asked
<1>. QED
  BY <1>1, <1>2, <1>3, <1>4

\* A follower adds one signature, its own, which input 0 did not have.
LEMMA FollowerSignsStep ==
    ASSUME IInv, FollowerSigns
    PROVE  IInv'
<1>. DEFINE f == Followers[i]
<1>1. /\ f \in Signers /\ f \notin psbt[1] /\ f \notin OtherGroup
      /\ Asked' = Asked \cup {f}
      /\ i \in 1 .. Len(Followers)
  BY NextFollowerFacts, GroupFacts DEF IInv, Signed, FollowerSigns, Asking, Signers
<1>2. /\ 1 \in DOMAIN psbt /\ psbt[1] \in SUBSET Signers
      /\ psbt' = [psbt EXCEPT ![1] = psbt[1] \cup {f}]
  BY DEF IInv, TypeOK, Signed, FollowerSigns, SignPsbt, Asking
<1>3. /\ psbt'[1] = psbt[1] \cup {f} /\ psbt'[1] \in SUBSET Signers
      /\ DOMAIN psbt' = DOMAIN psbt /\ psbt' \in [DOMAIN psbt -> SUBSET Signers]
  BY <1>1, <1>2 DEF IInv, TypeOK
<1>4. numSigs' = Cardinality(psbt'[1])
  <2>1. Cardinality(psbt'[1]) = Cardinality(psbt[1]) + 1
    BY <1>1, <1>2, <1>3, SignedFacts, FS_AddElement
  <2>. QED
    BY <2>1 DEF IInv, CountIsTrue, FollowerSigns, Asking
<1>5. TypeOK'
  <2>1. i' \in 1 .. Len(Followers) + 1
    BY <1>1, GroupFacts DEF FollowerSigns, NextFollower
  <2>. QED
    BY <1>3, <1>4, <2>1, SignedFacts DEF IInv, TypeOK, FollowerSigns
<1>6. Signed'
  BY <1>1, <1>2, <1>3 DEF IInv, Signed, FollowerSigns, Asking
<1>7. Fresh' /\ CountIsTrue'
  BY <1>4 DEF IInv, Fresh, CountIsTrue, FollowerSigns, Asking
<1>. QED
  BY <1>5, <1>6, <1>7 DEF IInv

\* One that refuses, or is down, adds none.
LEMMA PostFailsStep ==
    ASSUME IInv, PostFails
    PROVE  IInv'
<1>1. /\ Asked' = Asked \cup {Followers[i]}
      /\ i \in 1 .. Len(Followers)
      /\ Followers[i] \notin Reliable \ OtherGroup
  BY NextFollowerFacts, GroupFacts DEF PostFails
<1>2. TypeOK'
  BY <1>1, GroupFacts DEF IInv, TypeOK, PostFails, NextFollower, CountAfterError
<1>3. Signed'
  BY <1>1 DEF IInv, Signed, PostFails, Asking
<1>4. Fresh' /\ CountIsTrue'
  BY DEF IInv, Fresh, CountIsTrue, PostFails, Asking, CountAfterError
<1>. QED
  BY <1>2, <1>3, <1>4 DEF IInv

\* The loop ends, the transaction is finalized: both keep what was signed, or
\* end the attempt.
LEMMA EndStep ==
    ASSUME IInv, EndLoop \/ Finalize
    PROVE  IInv'
<1>1. CASE Rest
  BY <1>1, RestStep DEF IInv, TypeOK, EndLoop, Finalize
<1>2. CASE /\ step \in {"ask", "finalize"} /\ step' \in {"finalize", "broadcast"}
           /\ UNCHANGED <<inputs, psbt, numSigs, i, attempts, broadcast>>
  <2>1. TypeOK'
    BY <1>2 DEF IInv, TypeOK
  <2>2. Asked' = Asked
    BY <1>2 DEF Asked
  <2>. QED
    BY <1>2, <2>1, <2>2 DEF IInv, Signed, Fresh, CountIsTrue
<1>. QED
  BY <1>1, <1>2 DEF EndLoop, Finalize

\* IInv is inductive: one case per action of Next.
LEMMA NextIInv == IInv /\ [Next]_vars => IInv'
<1>. SUFFICES ASSUME IInv, [Next]_vars PROVE IInv'
  OBVIOUS
<1>1. CASE TryBroadcast
  <2>1. broadcast' \subseteq Selections
    BY <1>1 DEF IInv, TypeOK, Fresh, TryBroadcast
  <2>. QED
    BY <1>1, <2>1, RestStep DEF IInv, TypeOK, TryBroadcast
<1>2. CASE Throw
  BY <1>2, RestStep DEF IInv, TypeOK, Throw
<1>3. CASE UNCHANGED vars
  BY <1>3 DEF vars, attempt, IInv, TypeOK, Signed, Asked, Fresh, CountIsTrue
<1>. QED
  BY <1>1, <1>2, <1>3, ConstructStep, LeaderSignsStep, FollowerSignsStep, PostFailsStep,
     EndStep DEF Next

\* IInv holds in every reachable state.
LEMMA Invariance == Spec => []IInv
BY InitIInv, NextIInv, PTL DEF Spec

-----------------------------------------------------------------------------
(* The theorems.                                                           *)

\* Every variable stays within its type; no more signatures are counted than
\* the group has keys.
THEOREM TypeCorrect == Spec => []TypeOK
<1>1. IInv => TypeOK
  BY DEF IInv
<1>. QED
  BY <1>1, Invariance, PTL

\* The count is of the signatures the transaction carries.
THEOREM LeaderCountsRight == Spec => []CountIsTrue
<1>1. IInv => CountIsTrue
  BY DEF IInv
<1>. QED
  BY <1>1, Invariance, PTL

\* When all were asked, all that are up and of the group have signed.
LEMMA IInvQuorum == IInv => QuorumSuffices
<1>. SUFFICES ASSUME IInv, step = "ask", LoopEnds,
                     Cardinality(Reliable \ OtherGroup) + 1 >= MinSigners
              PROVE  numSigs >= MinSigners
  BY DEF QuorumSuffices
<1>. DEFINE R == Reliable \ OtherGroup
<1>1. psbt[1] \in SUBSET Signers /\ numSigs = Cardinality(psbt[1]) /\ numSigs \in Nat
  BY GroupFacts DEF IInv, TypeOK, Signed, CountIsTrue
<1>2. CASE Enough
  BY <1>1, <1>2 DEF Enough
<1>3. CASE i > Len(Followers)
  <2>1. Asked = FollowerSet
    BY <1>3, GroupFacts DEF IInv, TypeOK, Asked, FollowerSet
  <2>2. R \cup {Leader} \subseteq psbt[1] /\ Leader \notin R /\ R \subseteq Signers
    BY <2>1, SubsetsAssumption, FollowersAssumption DEF IInv, Signed, Signers
  <2>3. IsFiniteSet(R) /\ Cardinality(R \cup {Leader}) = Cardinality(R) + 1
    BY <2>2, SignedFacts, FS_AddElement
  <2>4. Cardinality(R \cup {Leader}) <= Cardinality(psbt[1])
    BY <1>1, <2>2, SignedFacts, FS_Subset
  <2>5. Cardinality(R) \in Nat /\ MinSigners \in Nat
    BY <2>3, FS_CardinalityType, MinSignersAssumption, GroupFacts
  <2>. QED
    BY <1>1, <2>3, <2>4, <2>5
<1>. QED
  BY <1>2, <1>3 DEF LoopEnds

\* The leader does not give up while enough followers are up and of the
\* group, wherever they stand in its list and whoever else fails.
THEOREM ReliableQuorumSuffices == Spec => []QuorumSuffices
BY IInvQuorum, Invariance, PTL
=============================================================================
