------------------------------ MODULE MultiSig ------------------------------
(***************************************************************************)
(* How a payment is signed by a multi-sig supplier: the leader             *)
(* (sendBtcMultiSig, src/multi-sig/wallet.ts) builds a transaction, signs  *)
(* it and passes it from follower to follower (MultiSigSigner,             *)
(* src/multi-sig/index.ts) until it has collected enough signatures, then  *)
(* finalizes and broadcasts it.  The leader is the handler of a            *)
(* send-outbound job: an exception ends the attempt, and the operator may  *)
(* retry the job.                                                          *)
(***************************************************************************)
EXTENDS Integers, FiniteSets, Sequences

CONSTANTS
    Leader,        \* the signer with the first public key
    Followers,     \* the other signers, in the order of the leader's URLs
    OtherGroup,    \* followers configured with another p2ms script
    Reliable,      \* followers that answer every request, and are heard
    MinSigners,    \* signatures the p2ms script asks for
    Coins,         \* unspent outputs of the group
    MaxInputs,     \* most coins a payment needs
    MaxAttempts    \* bound: attempts at the payment

FollowerSet == {Followers[k] : k \in DOMAIN Followers}
Signers     == {Leader} \cup FollowerSet

\* multiSigSchema asks for a URL for every other public key, btc.p2ms for keys
\* that differ, and validateMultisigConfig for the leader's to be the first.
\* That no two URLs lead to one signer is left to whoever configures them.
ASSUME FollowersAssumption ==
    /\ Followers \in Seq(FollowerSet)
    /\ Leader \notin FollowerSet
    /\ \A k, l \in DOMAIN Followers : Followers[k] = Followers[l] => k = l
ASSUME SubsetsAssumption == OtherGroup \subseteq FollowerSet /\ Reliable \subseteq FollowerSet
ASSUME MinSignersAssumption == MinSigners \in 1 .. Cardinality(Signers)
ASSUME BoundAssumption == MaxAttempts \in Nat /\ MaxInputs \in Nat \ {0} /\ IsFiniteSet(Coins)

VARIABLES
    step,       \* leader: what it does next
    inputs,     \* leader: the coins selected, the one of input 0 first
    psbt,       \* leader: who signed each input of psbtHex
    numSigs,    \* leader: signatures it counted
    i,          \* leader: the index into ms.followers
    attempts,   \* bound: attempts so far
    broadcast   \* Bitcoin: inputs of the transactions broadcast

attempt == <<step, inputs, psbt, numSigs, i>>
vars    == <<attempt, attempts, broadcast>>

\* Input sequences without repetition.
Selections ==
    {s \in UNION {[1 .. n -> Coins] : n \in 1 .. MaxInputs} :
        \A k, l \in DOMAIN s : s[k] = s[l] => k = l}

TypeOK ==
    /\ step \in {"idle", "sign", "ask", "finalize", "broadcast"}
    /\ inputs \in Selections \cup {<<>>}
    /\ psbt \in [DOMAIN inputs -> SUBSET Signers]
    /\ numSigs \in 0 .. Cardinality(Signers)
    /\ i \in 1 .. Len(Followers) + 1
    /\ attempts \in 0 .. MaxAttempts
    /\ broadcast \subseteq Selections

Rest ==
    /\ step' = "idle"
    /\ inputs' = <<>> /\ psbt' = <<>>
    /\ numSigs' = 0 /\ i' = 1

Init ==
    /\ step = "idle"
    /\ inputs = <<>> /\ psbt = <<>>
    /\ numSigs = 0 /\ i = 1
    /\ attempts = 0
    /\ broadcast = {}

-----------------------------------------------------------------------------
\* constructUnsignedMsTx: an input per selected coin, the recipient's output
\* and the change, which goes back to the group's script.
ConstructUnsignedMsTx ==
    /\ step = "idle"
    /\ attempts < MaxAttempts
    /\ attempts' = attempts + 1
    /\ inputs' \in Selections
    /\ psbt' = [k \in DOMAIN inputs' |-> {}]
    /\ step' = "sign"
    /\ UNCHANGED <<numSigs, i, broadcast>>

\* unsigned.sign: the leader signs every input.
LeaderSigns ==
    /\ step = "sign"
    /\ psbt' = [k \in DOMAIN psbt |-> {Leader}]
    /\ numSigs' = 1
    /\ step' = "ask"
    /\ UNCHANGED <<inputs, i, attempts, broadcast>>

\* The loop over ms.followers ends with its list, or with enough signatures.
Enough == numSigs = MinSigners
LoopEnds == i > Len(Followers) \/ Enough

\* 'Unable to get required signatures'
EndLoop ==
    /\ step = "ask"
    /\ LoopEnds
    /\ IF numSigs < MinSigners
       THEN Rest
       ELSE step' = "finalize" /\ UNCHANGED <<inputs, psbt, numSigs, i>>
    /\ UNCHANGED <<attempts, broadcast>>

\* tx.signIdx(key, 0): the follower adds its signature to input 0.
SignPsbt(f) == [psbt EXCEPT ![1] = @ \cup {f}]

Asking == step = "ask" /\ ~LoopEnds
NextFollower_Skips == i + 2
NextFollower_Stays == i
NextFollower == i + 1

\* The follower accepts the change output, signs, and its answer arrives.
FollowerSigns ==
    /\ Asking
    /\ Followers[i] \notin OtherGroup
    /\ psbt' = SignPsbt(Followers[i])
    /\ numSigs' = numSigs + 1
    /\ i' = NextFollower
    /\ UNCHANGED <<step, inputs, attempts, broadcast>>

\* 'Invalid change output' for a follower of another group; any other is
\* down, or refuses, or signs and its answer is lost.  The leader logs that
\* it got no signature and goes on with the transaction it has.
CountAfterError_Counts == numSigs + 1
CountAfterError == numSigs

PostFails ==
    /\ Asking
    /\ Followers[i] \in OtherGroup \/ Followers[i] \notin Reliable
    /\ numSigs' = CountAfterError
    /\ i' = NextFollower
    /\ UNCHANGED <<step, inputs, psbt, attempts, broadcast>>

\* txFinal.finalize wants MinSigners signatures on every input.
Final == \A k \in DOMAIN psbt : Cardinality(psbt[k]) >= MinSigners

Finalize ==
    /\ step = "finalize"
    /\ IF Final
       THEN step' = "broadcast" /\ UNCHANGED <<inputs, psbt, numSigs, i>>
       ELSE Rest
    /\ UNCHANGED <<attempts, broadcast>>

\* tryBroadcast: the network takes the transaction, or the attempt throws.
TryBroadcast ==
    /\ step = "broadcast"
    /\ broadcast' \in {broadcast, broadcast \cup {inputs}}
    /\ Rest
    /\ UNCHANGED attempts

\* validateMaxSize, or a crash of the leader.
Throw ==
    /\ step # "idle"
    /\ Rest
    /\ UNCHANGED <<attempts, broadcast>>

Next ==
    \/ ConstructUnsignedMsTx
    \/ LeaderSigns
    \/ FollowerSigns
    \/ PostFails
    \/ EndLoop
    \/ Finalize
    \/ TryBroadcast
    \/ Throw

Spec == Init /\ [][Next]_vars

\* The handler runs on, and goes on from a request to a reliable follower.
\* One to any other may stay open for ever: axios.post is given no timeout.
Fairness ==
    /\ WF_vars(LeaderSigns \/ EndLoop \/ Finalize \/ TryBroadcast)
    /\ WF_vars(Asking /\ Followers[i] \in Reliable /\ (FollowerSigns \/ PostFails))

FairSpec == Spec /\ Fairness

-----------------------------------------------------------------------------
(* Properties.                                                             *)

\* The leader counts exactly the signatures that its transaction carries on
\* input 0, whichever followers refused and whichever answers were lost.
CountIsTrue ==
    step \in {"ask", "finalize", "broadcast"} => numSigs = Cardinality(psbt[1])

\* The leader gives up for want of signatures only when the followers that
\* answer and are of the group are too few, wherever they stand in the list.
QuorumSuffices ==
    (step = "ask" /\ LoopEnds /\ Cardinality(Reliable \ OtherGroup) + 1 >= MinSigners)
        => numSigs >= MinSigners

\* Only a follower that keeps a request open in silence (multi-sig/wallet.ts:145)
\* keeps the leader, and with it the only worker of the send-outbound queue:
\* refusals, wrong groups and lost answers of whichever followers do not, and
\* every other attempt comes to an end, with a broadcast or an exception.
WaitsInSilence == Asking /\ Followers[i] \notin Reliable

AttemptEnds == step # "idle" ~> (step = "idle" \/ []WaitsInSilence)

\* A transaction with the required signatures can be finalized ("Unable to
\* get required signatures" was not thrown).
RequiredIsEnough == step = "finalize" => Final
=============================================================================
