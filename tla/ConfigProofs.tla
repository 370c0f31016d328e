----------------------------- MODULE ConfigProofs ---------------------------
(***************************************************************************)
(* What holds of the configuration of a process in every environment,      *)
(* whatever is missing in it, and whatever the contract has registered: a  *)
(* process acts only under a configuration it has parsed and validated,    *)
(* the jobs of a process under one, and a worker that came through its     *)
(* start under the one that is registered.                                 *)
(***************************************************************************)
EXTENDS Config, TLAPS

\* A configuration that was validated; a group is the environment's, for a
\* second signer in the process as well.
Valid(c) ==
    /\ ValidateConfig(c)
    /\ HasMultisig(c) => c.ms.msPublicKeys = GetEnv("MsPublicKeys")

\* A worker that takes jobs has the configuration of its environment, and
\* has validated it.
Working ==
    worker \in {"awaiting", "running"} =>
        /\ instance = Load(NoPartial)
        /\ ServerConfigSchema(instance)
        /\ Valid(instance)

\* No job runs before the worker is started, and a script that starts only
\* the server never starts it.
NotWorking ==
    /\ script = "server" => worker = "off"
    /\ worker = "off" => ran = {}

\* A server that listens, or is about to, has validated its configuration,
\* unless it only monitors and has none.
Serving ==
    /\ server = "off" => serverConfig = Absent
    /\ server \in {"awaiting", "listening"} /\ serverConfig # Absent =>
            Valid(serverConfig)

\* So has everybody who has acted.
Acted == \A c \in ran \cup signed : Valid(c)

\* The inductive invariant.
IInv ==
    /\ TypeOK
    /\ Working
    /\ NotWorking
    /\ Serving
    /\ Acted
    /\ JobsAgree

-----------------------------------------------------------------------------
\* What Load accepts has passed the schema.
LEMMA LoadFacts ==
    ASSUME NEW p, Load(p) # Invalid
    PROVE  Load(p) = ConfigValues(p) /\ ServerConfigSchema(Load(p))
BY DEF Load

\* A configuration comes from one environment, and that does not change.
LEMMA LoadFrame ==
    ASSUME env' = env, NEW p
    PROVE  Load(p)' = Load(p) /\ Valid(p)' = Valid(p)
BY DEF Load, ConfigValues, LoadMs, Or, Given, GetEnv, Valid

\* Whoever has a group has the one of the environment, a list of keys.
LEMMA GroupFacts ==
    ASSUME IInv, NEW p, p = NoPartial \/ (p \in PartialConfigs /\ MayStartServer),
           Load(p) # Invalid, HasMultisig(Load(p))
    PROVE  Load(p).ms.msPublicKeys = GetEnv("MsPublicKeys")
<1>1. /\ Load(p).ms = LoadMs(p)
      /\ LoadMs(p).msPublicKeys = Or(Given(p, "msPublicKeys"), "MsPublicKeys")
  BY LoadFacts DEF HasMultisig, ConfigValues, LoadMs
<1>2. CASE p = NoPartial
  BY <1>1, <1>2 DEF Or, Given, NoPartial
<1>3. CASE script = "both" /\ p \in PartialConfigs /\ MayStartServer
  <2>1. PICK key \in SecondKeys : p = SecondSigner(key)
    BY <1>3 DEF PartialConfigs
  <2>2. Valid(instance)
    BY <1>3 DEF IInv, Working, MayStartServer
  <2>3. Given(p, "msPublicKeys") \in {Absent, GetEnv("MsPublicKeys")}
    BY <2>1, <2>2 DEF Given, SecondSigner, Valid
  <2>. QED
    BY <1>1, <2>3 DEF Or
<1>. QED
  BY <1>2, <1>3 DEF PartialConfigs

\* While the worker takes jobs, the static instance is what it was.
LEMMA InstanceStays ==
    ASSUME Working, worker \in {"awaiting", "running"}
    PROVE  I = instance
BY DEF Working, I

-----------------------------------------------------------------------------
(* IInv is inductive: it holds initially, and each action preserves it.    *)

\* A process starts with nothing loaded.
LEMMA InitIInv == Init => IInv
BY DEF Init, IInv, TypeOK, Working, NotWorking, Serving, Acted, JobsAgree

\* Nothing of a process changes with the contract.
LEMMA RegistrationStep ==
    ASSUME IInv, supplier = Absent, supplier' \in Suppliers,
           UNCHANGED <<script, env, workerVars, serverVars>>
    PROVE  IInv'
<1>1. TypeOK'
  BY DEF IInv, TypeOK, workerVars, serverVars
<1>2. Working' /\ NotWorking' /\ Serving' /\ Acted' /\ JobsAgree'
  BY LoadFrame DEF IInv, Working, NotWorking, Serving, Acted, JobsAgree, workerVars, serverVars
<1>. QED
  BY <1>1, <1>2 DEF IInv

\* The scripts register the keys of the environment, which parse.
LEMMA RegisterSupplierStep ==
    ASSUME IInv, RegisterSupplier
    PROVE  IInv'
<1>. DEFINE c == Load(NoPartial)
<1>1. /\ c = ConfigValues(NoPartial) /\ ServerConfigSchema(c)
      /\ ValidateKeys(c) /\ c.btcSignerKey # Bad
      /\ supplier' = Registration(c)
  BY LoadFacts DEF RegisterSupplier
<1>2. c.btcSignerKey = GetEnv("BtcKey") /\ c.stxSignerKey = GetEnv("StxKey")
  BY <1>1 DEF ConfigValues, NoPartial, Or
<1>3. c.btcSignerKey \in BtcKeys /\ c.stxSignerKey \in StxKeys
  <2>1. GetEnv("BtcKey") \in Unset \cup {Bad} \cup BtcKeys
    BY EnvironmentsAssumption DEF IInv, TypeOK, GetEnv, Settings
  <2>2. GetEnv("StxKey") \in Unset \cup {Bad} \cup StxKeys
    BY EnvironmentsAssumption DEF IInv, TypeOK, GetEnv, Settings
  <2>. QED
    BY <1>1, <1>2, <2>1, <2>2 DEF ServerConfigSchema, ValidateKeys
<1>4. supplier' \in Suppliers
  BY <1>1, <1>3 DEF Registration, Suppliers
<1>. QED
  BY <1>4, RegistrationStep DEF RegisterSupplier

\* A worker that does not fail at once has loaded and validated.
LEMMA InitWorkerThreadStep ==
    ASSUME IInv, InitWorkerThread
    PROVE  IInv'
<1>. DEFINE c == Load(NoPartial)
<1>1. /\ script # "server" /\ worker = "off" /\ ran = {} /\ ran' = {}
      /\ UNCHANGED <<script, env, supplier, server, serverConfig, signed>>
  BY DEF IInv, NotWorking, InitWorkerThread, serverVars
<1>2. Serving' /\ Acted' /\ JobsAgree'
  BY <1>1 DEF IInv, Serving, Acted, JobsAgree, Valid, GetEnv
<1>3. CASE c = Invalid
  <2>1. worker' = "failed" /\ UNCHANGED instance
    BY <1>3 DEF InitWorkerThread
  <2>. QED
    BY <1>1, <1>2, <2>1 DEF IInv, TypeOK, Working, NotWorking
<1>4. CASE c # Invalid
  <2>1. /\ ServerConfigSchema(c) /\ c' = c
        /\ instance' = c
        /\ worker' \in {"awaiting", "running"} => Valid(c) /\ Valid(c)'
        /\ worker' \in {"awaiting", "running", "exited", "failed"}
    BY <1>1, <1>4, LoadFacts, LoadFrame, GroupFacts DEF InitWorkerThread, KeysMatchStarts, Valid
  <2>2. TypeOK'
    BY <1>1, <2>1 DEF IInv, TypeOK
  <2>. QED
    BY <1>1, <1>2, <2>1, <2>2 DEF IInv, Working, NotWorking
<1>. QED
  BY <1>3, <1>4

\* A stage of the worker's start after the first.
LEMMA WorkerStep ==
    ASSUME IInv, worker = "awaiting",
           worker' \in {"running", "exited"},
           server' \in {server, Exited(server)},
           UNCHANGED <<script, env, supplier, instance, ran, serverConfig, signed>>
    PROVE  IInv'
<1>1. TypeOK'
  BY DEF IInv, TypeOK, Exited
<1>2. Working' /\ NotWorking' /\ Acted' /\ JobsAgree'
  BY LoadFrame DEF IInv, Working, NotWorking, Acted, JobsAgree
<1>3. Serving'
  BY DEF IInv, Serving, Exited, Valid, GetEnv
<1>. QED
  BY <1>1, <1>2, <1>3 DEF IInv

\* A job runs under the static instance.
LEMMA RunJobStep ==
    ASSUME IInv, RunJob
    PROVE  IInv'
<1>1. /\ worker \in {"awaiting", "running"} /\ ran' = ran \cup {instance}
      /\ UNCHANGED <<script, env, supplier, instance, worker, server, serverConfig, signed>>
  BY DEF RunJob, serverVars
<1>2. TypeOK'
  BY <1>1 DEF IInv, TypeOK, Working
<1>3. Working' /\ NotWorking' /\ Serving'
  BY <1>1, LoadFrame DEF IInv, Working, NotWorking, Serving
<1>4. Acted' /\ JobsAgree'
  BY <1>1 DEF IInv, Working, Acted, JobsAgree, Valid, GetEnv
<1>. QED
  BY <1>2, <1>3, <1>4 DEF IInv

\* A server that starts beside the worker leaves the static instance alone;
\* one that starts by itself loads it only when it accepts it.
LEMMA ApiStep ==
    ASSUME IInv, Api
    PROVE  IInv'
<1>1. /\ server = "off" /\ serverConfig = Absent
      /\ UNCHANGED <<script, env, supplier, worker, ran, signed>>
  BY DEF IInv, Serving, Api
<1>2. /\ server' \in {"awaiting", "listening", "failed"}
      /\ serverConfig' # Absent => ServerConfigSchema(serverConfig')
      /\ server' \in {"awaiting", "listening"} /\ serverConfig' # Absent
            => Valid(serverConfig')
      /\ instance' # instance => \E p \in PartialConfigs :
            instance' = I /\ ServerConfigSchema(Load(p))
  BY <1>1, LoadFacts, GroupFacts DEF Api, LoadConfig, KeysMatchStarts, Valid
<1>3. worker \in {"awaiting", "running"} => instance' = instance
  BY <1>2, InstanceStays DEF IInv
<1>4. CASE worker \in {"awaiting", "running"}
  <2>1. TypeOK'
    BY <1>1, <1>2, <1>3, <1>4 DEF IInv, TypeOK
  <2>. QED
    BY <1>1, <1>2, <1>3, <1>4, <2>1, LoadFrame
       DEF IInv, Working, NotWorking, Serving, Acted, JobsAgree
<1>5. CASE worker \notin {"awaiting", "running"}
  <2>1. script = "server" /\ worker = "off" /\ ran = {}
    BY <1>5 DEF IInv, NotWorking, Api, MayStartServer
  <2>2. instance' # Absent => ServerConfigSchema(instance')
    BY <1>2, <2>1 DEF IInv, TypeOK, PartialConfigs, I
  <2>3. TypeOK'
    BY <1>1, <1>2, <2>1, <2>2 DEF IInv, TypeOK
  <2>. QED
    BY <1>1, <1>2, <2>1, <2>3 DEF IInv, Working, NotWorking, Serving, Acted, JobsAgree, Valid, GetEnv
<1>. QED
  BY <1>4, <1>5

\* The rest of the server's start, and its signatures.
LEMMA ServerStep ==
    ASSUME IInv, ServerKeysMatch \/ ServerKeysDiffer \/ ServerReadFails \/ SignPsbt
    PROVE  IInv'
<1>1. /\ UNCHANGED <<script, env, supplier, instance, worker, ran, serverConfig>>
      /\ server \in {"awaiting", "listening"}
      /\ server' \in {"listening", "failed"}
      /\ signed' = signed \/ (serverConfig # Absent /\ signed' = signed \cup {serverConfig})
  BY DEF ServerKeysMatch, ServerKeysDiffer, ServerReadFails, SignPsbt, workerVars
<1>2. TypeOK'
  BY <1>1 DEF IInv, TypeOK
<1>3. Working' /\ NotWorking' /\ JobsAgree'
  BY <1>1, LoadFrame DEF IInv, Working, NotWorking, JobsAgree
<1>4. Serving' /\ Acted'
  BY <1>1 DEF IInv, Serving, Acted, Valid, GetEnv
<1>. QED
  BY <1>2, <1>3, <1>4 DEF IInv

\* IInv is inductive: one case per action of Next.
LEMMA NextIInv == IInv /\ [Next]_vars => IInv'
<1>. SUFFICES ASSUME IInv, [Next]_vars PROVE IInv'
  OBVIOUS
<1>1. CASE Register
  BY <1>1, RegistrationStep DEF Register
<1>2. CASE WorkerKeysMatch
  BY <1>2, WorkerStep DEF WorkerKeysMatch, serverVars
<1>3. CASE WorkerKeysDiffer \/ WorkerReadFails
  BY <1>3, WorkerStep DEF WorkerKeysDiffer, WorkerReadFails, Exit
<1>4. CASE UNCHANGED vars
  BY <1>4, LoadFrame DEF vars, workerVars, serverVars, IInv, TypeOK, Working, NotWorking,
     Serving, Acted, JobsAgree
<1>. QED
  BY <1>1, <1>2, <1>3, <1>4, RegisterSupplierStep, InitWorkerThreadStep, RunJobStep,
     ApiStep, ServerStep DEF Next

\* IInv holds in every reachable state.
LEMMA Invariance == Spec => []IInv
BY InitIInv, NextIInv, PTL DEF Spec

-----------------------------------------------------------------------------
(* The theorems.                                                           *)

\* A configuration is parsed before it is kept, whatever the environment.
THEOREM TypeCorrect == Spec => []TypeOK
<1>1. IInv => TypeOK
  BY DEF IInv
<1>. QED
  BY <1>1, Invariance, PTL

\* All jobs of a process run under one configuration.
THEOREM OneConfiguration == Spec => []JobsAgree
<1>1. IInv => JobsAgree
  BY DEF IInv
<1>. QED
  BY <1>1, Invariance, PTL

\* Whoever acts for a group holds a key of it, and a leader knows enough
\* followers.
LEMMA IInvQuorum == IInv => QuorumInReach
<1>. SUFFICES ASSUME IInv, NEW c \in ran \cup signed, HasMultisig(c)
              PROVE  /\ c.btcSignerKey \in Elements(c.ms.msPublicKeys)
                     /\ c.ms.mode = "leader" => c.ms.minSigners <= 1 + c.ms.followers
  BY DEF QuorumInReach
<1>1. ServerConfigSchema(c) /\ MultiSigSchema(c.ms) /\ Valid(c)
  BY DEF IInv, TypeOK, Acted, ServerConfigSchema, HasMultisig
<1>2. P2msAccepts(c.ms) /\ c.btcSignerKey \in Elements(c.ms.msPublicKeys)
  BY <1>1 DEF Valid, ValidateConfig, ValidateKeys, ValidateMultisigConfig
<1>3. Len(c.ms.msPublicKeys) \in Nat
  <2>1. GetEnv("MsPublicKeys") \in Unset \/ GetEnv("MsPublicKeys") \in Seq(BtcKeys \cup {Bad})
    BY EnvironmentsAssumption DEF IInv, TypeOK, GetEnv, Settings
  <2>. QED
    BY <1>1, <2>1 DEF Valid, MultiSigSchema
<1>. QED
  BY <1>1, <1>2, <1>3 DEF P2msAccepts, MultiSigSchema

\* A multi-sig payment is not hopeless from the start.
THEOREM QuorumWithinReach == Spec => []QuorumInReach
BY IInvQuorum, Invariance, PTL
=============================================================================
