---------------------------- MODULE OutboundSwap ----------------------------
(***************************************************************************)
(* What the supplier promises of its outbound swaps, whoever of its two    *)
(* components acts: the send-outbound worker (SendOutbound) pays and lists *)
(* a payment, the finalize-outbound cron (FinalizeOutbound) forgets it     *)
(* when its escrow is settled.  Each of the two implements this            *)
(* specification and assumes of the other only what it says: what is a     *)
(* step of the one is a step of the environment in the other.              *)
(*                                                                         *)
(* Nothing is said of how the components remember or how often they try.   *)
(***************************************************************************)
CONSTANTS
    Swaps,      \* outbound swap ids
    Payments    \* possible payments: records with a swap and a txid

VARIABLES
    contract,   \* what the contract says of a swap
    settled,    \* swaps the contract settled, whether or not a fork undid it
    paid,       \* payments the Bitcoin network accepted
    listed,     \* payments the supplier follows to claim the escrow with
    forgotten   \* payments it followed once

vars == <<contract, settled, paid, listed, forgotten>>

Init ==
    /\ contract \in [Swaps -> {"absent", "open"}]
    /\ settled = {} /\ paid = {} /\ listed = {} /\ forgotten = {}

-----------------------------------------------------------------------------
(* The contract.                                                           *)

Become(s, from, to) == contract[s] = from /\ contract' = [contract EXCEPT ![s] = to]

Initiate(s) ==
    /\ Become(s, "absent", "open")
    /\ UNCHANGED <<settled, paid, listed, forgotten>>

\* The escrow is released only against a payment.
Finalize(s) ==
    /\ Become(s, "open", "finalized")
    /\ \E p \in paid : p.swap = s
    /\ settled' = settled \cup {s}
    /\ UNCHANGED <<paid, listed, forgotten>>

Revoke(s) ==
    /\ Become(s, "open", "revoked")
    /\ settled' = settled \cup {s}
    /\ UNCHANGED <<paid, listed, forgotten>>

Undo(s) ==
    /\ \/ Become(s, "finalized", "open")
       \/ Become(s, "revoked", "open")
       \/ Become(s, "open", "absent")
    /\ UNCHANGED <<settled, paid, listed, forgotten>>

-----------------------------------------------------------------------------
(* The supplier.                                                           *)

\* Nothing is paid for a swap that has a payment to claim its escrow with.  A
\* swap may be paid that a fork has taken off the contract, since its event
\* waits for no confirmations, or that its user revoked while the payment was
\* being made.
Pay(p) ==
    /\ \A q \in listed \cup forgotten : q.swap # p.swap
    /\ p \notin paid
    /\ paid' = paid \cup {p}
    /\ UNCHANGED <<contract, settled, listed, forgotten>>

\* A swap has one payment to claim its escrow with, and never a second.
List(p) ==
    /\ \A q \in listed \cup forgotten : q.swap # p.swap
    /\ listed' = listed \cup {p}
    /\ UNCHANGED <<contract, settled, paid, forgotten>>

Forget(p) ==
    /\ p \in listed
    /\ p.swap \in settled
    /\ listed' = listed \ {p}
    /\ forgotten' = forgotten \cup {p}
    /\ UNCHANGED <<contract, settled, paid>>

Next ==
    \/ \E s \in Swaps : Initiate(s) \/ Finalize(s) \/ Revoke(s) \/ Undo(s)
    \/ \E p \in Payments : Pay(p) \/ List(p) \/ Forget(p)

Spec == Init /\ [][Next]_vars
=============================================================================
