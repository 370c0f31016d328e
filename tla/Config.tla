------------------------------- MODULE Config -------------------------------
(***************************************************************************)
(* How a process of the supplier gets its configuration (ServerConfig,     *)
(* src/config.ts) and when it starts to act on it: the worker              *)
(* (initWorkerThread, src/worker/index.ts) and the HTTP server that signs  *)
(* for a multi-sig leader (api, src/index.ts, with ConfigPlugin,           *)
(* src/plugins/config.ts).  scripts/devnet/run-multisig.ts starts both in  *)
(* one process, so that they share the static instance of ServerConfig.    *)
(*                                                                         *)
(* A Bitcoin key stands for its WIF encoding and its public key, a Stacks  *)
(* key for its address, a list of follower URLs for its length.            *)
(***************************************************************************)
EXTENDS Integers, FiniteSets, Sequences

CONSTANTS
    Absent,         \* undefined
    Empty,          \* the empty string
    Bad,            \* a value that does not parse: NaN, no WIF, no URL, no network
    BtcKeys,
    StxKeys,
    Environments,   \* process environments: OPERATOR_* (old) and SUPPLIER_* (new)
    SecondKeys      \* values of SECOND_SIGNER_KEY in run-multisig.ts

VARIABLES
    script,         \* what the operator started: "worker", "server" or "both"
    env,            \* process.env
    supplier,       \* contract: the registration of the configured id
    instance,       \* ServerConfig.instance
    worker,         \* how far initWorkerThread is
    server,         \* how far api() is
    serverConfig,   \* server.config, once it is listening
    ran,            \* history: configurations under which a job ran
    signed          \* history: configurations under which the server signed

workerVars == <<instance, worker, ran>>
serverVars == <<server, serverConfig, signed>>
vars == <<script, env, supplier, workerVars, serverVars>>

Keys      == {"Network", "BtcKey", "StxKey", "Id",
              "MinSigners", "MsPublicKeys", "MsMode", "Followers"}
Unset     == {Absent, Empty}
Suppliers == [controller : StxKeys, publicKey : BtcKeys]
Elements(s) == {s[k] : k \in DOMAIN s}

\* A setting is missing, empty or malformed, or it parses.
Settings(e) ==
    /\ DOMAIN e = Keys
    /\ e["BtcKey"] \in Unset \cup {Bad} \cup BtcKeys
    /\ e["StxKey"] \in Unset \cup {Bad} \cup StxKeys
    /\ e["MsPublicKeys"] \in Unset \/ e["MsPublicKeys"] \in Seq(BtcKeys \cup {Bad})

ASSUME EnvironmentsAssumption ==
    \A e \in Environments : Settings(e.old) /\ Settings(e.new) /\ e.monitor \in BOOLEAN

-----------------------------------------------------------------------------
(* Loading.  Invalid stands for an exception.                              *)

Invalid == Bad

\* The old name of a setting takes precedence over the new one.
GetEnv(k) == IF env.old[k] \in Unset THEN env.new[k] ELSE env.old[k]

\* partial || this.getEnv(k)
Or(partial, k) == IF partial = Absent THEN GetEnv(k) ELSE partial

\* A partial configuration gives a key and a multi-sig part, or neither.
NoPartial == [btcSignerKey |-> Absent, ms |-> Absent]
Given(p, field) == IF p.ms = Absent THEN Absent ELSE p.ms[field]

LoadMs(p) ==
    LET mode == Or(Given(p, "mode"), "MsMode")
    IN  [minSigners   |-> Or(Given(p, "minSigners"), "MinSigners"),
         msPublicKeys |-> Or(Given(p, "msPublicKeys"), "MsPublicKeys"),
         mode         |-> mode,
         followers    |-> IF mode = "leader"
                          THEN Or(Given(p, "followers"), "Followers") ELSE Absent]

\* Follower URLs are not counted.
MultiSigSchema_AnyFollowers(ms) ==
    /\ ms.minSigners \notin Unset \cup {Bad}
    /\ ms.msPublicKeys \notin Unset
    /\ ms.mode \in {"leader", "follower"}
    /\ ms.mode = "leader" => ms.followers \notin Unset \cup {Bad}

\* A leader has a URL for every public key but its own.
MultiSigSchema(ms) ==
    /\ ms.minSigners \notin Unset \cup {Bad}
    /\ ms.msPublicKeys \notin Unset
    /\ ms.mode \in {"leader", "follower"}
    /\ ms.mode = "leader" => /\ ms.followers \notin Unset \cup {Bad}
                             /\ ms.followers = Len(ms.msPublicKeys) - 1

ServerConfigSchema(c) ==
    /\ {c.btcSignerKey, c.stxSignerKey, c.networkKey} \cap Unset = {}
    /\ c.supplierId \notin Unset \cup {Bad}
    /\ c.ms # Absent => MultiSigSchema(c.ms)

ConfigValues(p) ==
    [btcSignerKey |-> Or(p.btcSignerKey, "BtcKey"),
     supplierId   |-> GetEnv("Id"),
     stxSignerKey |-> GetEnv("StxKey"),
     networkKey   |-> GetEnv("Network"),
     ms           |-> IF p.ms # Absent \/ GetEnv("MinSigners") # Absent
                      THEN LoadMs(p) ELSE Absent]

\* Only a multi-sig part is parsed.
Load_MultiSigParsed(p) ==
    LET c == ConfigValues(p)
    IN  IF c.ms = Absent \/ MultiSigSchema(c.ms) THEN c ELSE Invalid

Load(p) ==
    IF ServerConfigSchema(ConfigValues(p)) THEN ConfigValues(p) ELSE Invalid

\* ServerConfig.i(): the static instance, loaded on first use.
I == IF instance = Absent THEN Load(NoPartial) ELSE instance

-----------------------------------------------------------------------------
(* Validation.                                                             *)

HasMultisig(c) == c.ms # Absent
IsFollower(c)  == HasMultisig(c) /\ c.ms.mode = "follower"

\* btc.p2ms throws for a threshold out of range, for a key that is given
\* twice, and for one that is no point.
P2msAccepts(ms) ==
    /\ ms.minSigners \in 1 .. Len(ms.msPublicKeys)
    /\ Bad \notin Elements(ms.msPublicKeys)
    /\ Cardinality(Elements(ms.msPublicKeys)) = Len(ms.msPublicKeys)

Wpkh(key) == [type |-> "wpkh", m |-> 1, keys |-> <<key>>]
P2ms(ms)  == [type |-> "wsh", m |-> ms.minSigners, keys |-> ms.msPublicKeys]

\* btcMainWallet and btcAddress: where the supplier's coins are.
BtcAddress(c) == IF HasMultisig(c) THEN P2ms(c.ms) ELSE Wpkh(c.btcSignerKey)

ValidateKeys(c) ==
    /\ IF HasMultisig(c) THEN P2msAccepts(c.ms) ELSE c.btcSignerKey # Bad
    /\ c.stxSignerKey # Bad

ValidateMultisigConfig(c) ==
    HasMultisig(c) =>
        /\ c.btcSignerKey \in Elements(c.ms.msPublicKeys)
        /\ c.ms.mode = "leader" => c.btcSignerKey = c.ms.msPublicKeys[1]

ValidateConfig(c) == ValidateKeys(c) /\ ValidateMultisigConfig(c)

\* validateKeysMatch, once the contract has answered.
KeysMatch(c) ==
    /\ supplier # Absent
    /\ supplier.controller = c.stxSignerKey
    /\ Wpkh(supplier.publicKey) = BtcAddress(c)

\* stxNetwork throws for a name it does not know, btcNetwork does not.
KnownNetwork(c) == c.networkKey # Bad

\* What is known of validateKeysMatch before it asks the contract.
KeysMatchStarts(c, accepted, refused) ==
    IF IsFollower(c) THEN accepted
    ELSE IF KnownNetwork(c) THEN "awaiting" ELSE refused

-----------------------------------------------------------------------------
(* The contract.                                                           *)

\* By any account, from any environment.
Register ==
    /\ supplier = Absent
    /\ supplier' \in Suppliers
    /\ UNCHANGED <<script, env, workerVars, serverVars>>

\* scripts/register-supplier.ts and devnet/register.ts, in this environment:
\* the signer's own key is registered, for a group too.
Registration(c) == [controller |-> c.stxSignerKey, publicKey |-> c.btcSignerKey]

RegisterSupplier ==
    /\ supplier = Absent
    /\ LET c == Load(NoPartial)
       IN  /\ c # Invalid
           /\ ValidateKeys(c) /\ KnownNetwork(c) /\ c.btcSignerKey # Bad
           /\ supplier' = Registration(c)
    /\ UNCHANGED <<script, env, workerVars, serverVars>>

-----------------------------------------------------------------------------
(* The worker.                                                             *)

Exited(status) == IF status = "off" THEN "off" ELSE "exited"

\* process.exit(1), also for the server of this process.
Exit ==
    /\ worker' = "exited"
    /\ server' = Exited(server)
    /\ UNCHANGED <<script, env, supplier, instance, ran, serverConfig, signed>>

\* validateConfig throws before the queues get their handlers; what
\* validateKeysMatch finds comes to the catch of Promise.all.
InitWorkerThread ==
    /\ script \in {"worker", "both"}
    /\ worker = "off"
    /\ LET c == Load(NoPartial)
       IN  IF c = Invalid
           THEN worker' = "failed" /\ UNCHANGED instance
           ELSE /\ instance' = c
                /\ worker' = IF ValidateConfig(c)
                             THEN KeysMatchStarts(c, "running", "exited") ELSE "failed"
    /\ UNCHANGED <<script, env, supplier, ran, serverVars>>

WorkerKeysMatch ==
    /\ worker = "awaiting"
    /\ KeysMatch(instance)
    /\ worker' = "running"
    /\ UNCHANGED <<script, env, supplier, instance, ran, serverVars>>

\* The mismatch is only logged.
WorkerKeysDiffer_Logged ==
    /\ worker = "awaiting"
    /\ ~KeysMatch(instance)
    /\ worker' = "running"
    /\ UNCHANGED <<script, env, supplier, instance, ran, serverVars>>

WorkerKeysDiffer ==
    /\ worker = "awaiting"
    /\ ~KeysMatch(instance)
    /\ Exit

\* The call of the contract rejects.
WorkerReadFails == worker = "awaiting" /\ Exit

\* A handler of a queue, which takes its configuration from c().
RunJob ==
    /\ worker \in {"awaiting", "running"}
    /\ ran' = ran \cup {instance}
    /\ UNCHANGED <<script, env, supplier, instance, worker, serverVars>>

-----------------------------------------------------------------------------
(* The server.                                                             *)

\* The second signer of run-multisig.ts has the group of the first.
SecondSigner(key) ==
    [btcSignerKey |-> key,
     ms |-> [field \in {"minSigners", "msPublicKeys", "mode", "followers"} |->
                IF field = "mode" THEN "follower"
                ELSE IF HasMultisig(instance) THEN instance.ms[field] ELSE Absent]]

PartialConfigs ==
    IF script = "both" THEN {SecondSigner(key) : key \in SecondKeys} ELSE {NoPartial}

MayStartServer ==
    \/ script = "server"
    \/ script = "both" /\ worker \in {"awaiting", "running"}

\* override is left at its default.
LoadConfig_Override(c) ==
    IF c = Invalid
    THEN server' = "failed" /\ UNCHANGED <<instance, serverConfig>>
    ELSE /\ serverConfig' = c
         /\ server' = IF ValidateConfig(c)
                      THEN KeysMatchStarts(c, "listening", "failed") ELSE "failed"
         /\ instance' = c

\* ConfigPlugin loads a configuration of its own; validateKeysMatch takes the
\* network and the contract from c().
LoadConfig(c) ==
    IF c = Invalid
    THEN server' = "failed" /\ UNCHANGED <<instance, serverConfig>>
    ELSE /\ serverConfig' = c
         /\ IF ValidateConfig(c)
            THEN /\ server' = KeysMatchStarts(c, "listening", "failed")
                 /\ instance' = IF IsFollower(c) THEN instance ELSE I
            ELSE server' = "failed" /\ UNCHANGED instance

Api ==
    /\ MayStartServer
    /\ server = "off"
    /\ IF env.monitor
       THEN server' = "listening" /\ UNCHANGED <<instance, serverConfig>>
       ELSE \E p \in PartialConfigs : LoadConfig(Load(p))
    /\ UNCHANGED <<script, env, supplier, worker, ran, signed>>

ServerKeysMatch ==
    /\ server = "awaiting"
    /\ KeysMatch(serverConfig)
    /\ server' = "listening"
    /\ UNCHANGED <<script, env, supplier, workerVars, serverConfig, signed>>

\* The plugin rejects, and with it api().
ServerKeysDiffer ==
    /\ server = "awaiting"
    /\ ~KeysMatch(serverConfig)
    /\ server' = "failed"
    /\ UNCHANGED <<script, env, supplier, workerVars, serverConfig, signed>>

ServerReadFails ==
    /\ server = "awaiting"
    /\ server' = "failed"
    /\ UNCHANGED <<script, env, supplier, workerVars, serverConfig, signed>>

\* POST /multi-sig/sign-psbt: a server without a group throws in
\* validateChange.
SignPsbt ==
    /\ server = "listening"
    /\ serverConfig # Absent
    /\ HasMultisig(serverConfig)
    /\ signed' = signed \cup {serverConfig}
    /\ UNCHANGED <<script, env, supplier, workerVars, server, serverConfig>>

-----------------------------------------------------------------------------
Init ==
    /\ script \in {"worker", "server", "both"}
    /\ env \in Environments
    /\ supplier = Absent
    /\ instance = Absent /\ worker = "off" /\ ran = {}
    /\ server = "off" /\ serverConfig = Absent /\ signed = {}

Next ==
    \/ Register \/ RegisterSupplier
    \/ InitWorkerThread
    \/ WorkerKeysMatch \/ WorkerKeysDiffer \/ WorkerReadFails
    \/ RunJob
    \/ Api
    \/ ServerKeysMatch \/ ServerKeysDiffer \/ ServerReadFails
    \/ SignPsbt

Spec == Init /\ [][Next]_vars

\* The request of validateKeysMatch is answered, or rejects.
FairSpec == Spec /\ WF_vars(WorkerKeysMatch \/ WorkerKeysDiffer \/ WorkerReadFails)

-----------------------------------------------------------------------------
(* Properties.                                                             *)

\* Configurations are parsed before they are kept (config.ts:142), and the
\* two starts go through their stages.
TypeOK ==
    /\ script \in {"worker", "server", "both"}
    /\ env \in Environments
    /\ supplier \in Suppliers \cup {Absent}
    /\ instance # Absent => ServerConfigSchema(instance)
    /\ serverConfig # Absent => ServerConfigSchema(serverConfig)
    /\ worker \in {"off", "awaiting", "running", "failed", "exited"}
    /\ server \in {"off", "awaiting", "listening", "failed", "exited"}
    /\ \A c \in ran \cup signed : ServerConfigSchema(c)

\* Jobs run while the keys are still being compared with the contract
\* (worker/index.ts:58 is not awaited).  Even then, whoever acts for a group
\* holds one of its keys, and a leader knows enough followers to collect
\* minSigners signatures; the checks this takes are spread over the schema,
\* btc.p2ms and validateMultisigConfig.
QuorumInReach ==
    \A c \in ran \cup signed : HasMultisig(c) =>
        /\ c.btcSignerKey \in Elements(c.ms.msPublicKeys)
        /\ c.ms.mode = "leader" => c.ms.minSigners <= 1 + c.ms.followers

\* All jobs of a process run under one configuration, the one the worker
\* validated: a second signer started in the process does not replace the
\* static instance (override = false in plugins/config.ts:15).
JobsAgree == ran \subseteq {instance}

\* A worker whose keys are not the registered ones comes to an end
\* (worker/index.ts:58-62), although its jobs go on meanwhile.
MismatchStops ==
    /\ worker = "awaiting"
    /\ supplier # Absent
    /\ ~KeysMatch(instance)
    ~> worker = "exited"
=============================================================================
