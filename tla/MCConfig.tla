------------------------------ MODULE MCConfig ------------------------------
(* Instance of Config for TLC.                                             *)
EXTENDS Config

CONSTANTS k1, k2, k3, s1, s2, Id

Nothing == [k \in Keys |-> Absent]

\* The operator of key k1, with anything missing or malformed.
SingleSig ==
    {[Nothing EXCEPT !["BtcKey"] = btc, !["StxKey"] = stx, !["Id"] = id,
                     !["Network"] = network, !["MinSigners"] = minSigners] :
        btc \in {Absent, k1, Bad}, stx \in {s1, Bad}, id \in {Absent, Id, Bad},
        network \in {"mocknet", Bad}, minSigners \in {Absent, Empty}}

\* A group of two or three; key k1 first, second, missing, twice or malformed.
MultiSigs ==
    {[Nothing EXCEPT !["BtcKey"] = k1, !["StxKey"] = s1, !["Id"] = Id,
                     !["Network"] = "mocknet", !["MinSigners"] = minSigners,
                     !["MsPublicKeys"] = keys, !["MsMode"] = mode,
                     !["Followers"] = followers] :
        minSigners \in {0, 1, 2, 3, Bad},
        keys \in {Empty, <<k1, k2>>, <<k2, k1>>, <<k2, k3>>, <<k1, k1>>, <<k1, Bad>>,
                  <<k1, k2, k3>>},
        mode \in {Empty, "leader", "follower", Bad},
        followers \in {Absent, 0, 1, 2, Bad}}

\* An old name may still be set.
MCEnvironments ==
    {[old |-> [Nothing EXCEPT !["BtcKey"] = old], new |-> new, monitor |-> monitor] :
        old \in {Absent, k2}, new \in SingleSig \cup MultiSigs, monitor \in BOOLEAN}
=============================================================================
