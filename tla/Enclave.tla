------------------------------ MODULE Enclave -------------------------------
(***************************************************************************)
(* A Longjing process from main.ts to its first answer: the profile and    *)
(* key policy, TLS, key derivation from the dstack KMS, the hooks of the   *)
(* attestation and Longjing modules, the first quote, and the readiness    *)
(* check. The KMS answers only builds that the DstackApp allows at that    *)
(* moment (Releases). A process may exit at any step: every error the code *)
(* throws is an action that is not enabled, after which only Exit is left. *)
(*                                                                         *)
(* A key is known by where it comes from: "kms", "sim" (the simulator),    *)
(* "env", "dev" or NoKey. A certificate from dstack is the number of the   *)
(* boot it was issued to.                                                  *)
(***************************************************************************)
EXTENDS Releases

CONSTANTS
    Instances,    \* processes of the app
    Compose,      \* the literals of each build's compose file
    Deployments,  \* pairs: a build, and the variables its environment sets
    Artifacts,    \* builds whose image holds the verification key
    HostPlatforms, \* platforms of development hosts without dstack
    InitFirst,    \* FALSE: the code. TRUE: hooks run before the readiness check
    MaxBoots      \* bound on the boots of all instances

KeyMaterial ==
    {"ADMIN_MLKEM_KEYS", "OPERATOR_PRIVATE_KEY", "SERVER_TX_PRIVATE_KEY", "TLS_PATHS"}
ProdRefused == {"ANVIL_RPC_URL", "SERVER_TX_PRIVATE_KEY", "DSTACK_SIMULATOR_ENDPOINT"}
ProdRequired == {"ETHEREUM_RPC_URLS", "ZK_CONTRACT_ADDRESS"}
EnvVars ==
    KeyMaterial \cup ProdRefused \cup ProdRequired
        \cup {"PLACEHOLDER", "TEE_PLATFORM", "KMS_URL"}
Literals == {"production", "ALLOW_KEYS_OUTSIDE_ENCLAVE", "ALLOW_EXTERNAL_TLS_TERMINATION"}
Platforms == {"none", "phala", "intel-tdx", "amd-sev-snp", "aws-nitro", "mock"}

ASSUME EnclaveAssumption ==
    /\ Compose \in [Builds -> SUBSET Literals]
    /\ Deployments \subseteq Builds \X SUBSET EnvVars
    /\ Artifacts \subseteq Builds
    /\ HostPlatforms \subseteq Platforms \ {"none"}
    /\ InitFirst \in BOOLEAN
    /\ MaxBoots \in Nat

NoKey == "none"
NoCert == 0
FileCert == -1
KeyDomains == {"mlkem", "refund", "identity", "tx"}
NoKeys == [d \in KeyDomains |-> NoKey]
DerivedKeys == 4

VARIABLES
    proc,   \* each instance's process
    boots   \* boots so far

Process ==
    [pc : {"down", "derive", "attest", "wire", "quote", "check", "serving", "unready"},
     boot : 0..MaxBoots, build : Builds, env : SUBSET EnvVars,
     cert : {NoCert, FileCert} \cup 1..MaxBoots, got : 0..DerivedKeys,
     keys : [KeyDomains -> {NoKey, "kms", "sim"}], mlkem : {NoKey, "kms", "sim", "env"},
     refund : {NoKey, "kms", "sim", "env", "dev"}, platform : Platforms, setup : BOOLEAN]

Down ==
    [pc |-> "down", boot |-> 0, build |-> InitialBuild, env |-> {}, cert |-> NoCert,
     got |-> 0, keys |-> NoKeys, mlkem |-> NoKey, refund |-> NoKey,
     platform |-> "none", setup |-> FALSE]

EnclaveInit ==
    /\ proc = [i \in Instances |-> Down]
    /\ boots = 0

EnclaveTypeOK ==
    /\ proc \in [Instances -> Process]
    /\ boots \in 0..MaxBoots

-----------------------------------------------------------------------------
(* profile.ts, key-policy.ts, env.validation.ts.                           *)

IsProd(b) == "production" \in Compose[b]
KeysOutsideEnclaveAllowed(b) == "ALLOW_KEYS_OUTSIDE_ENCLAVE" \in Compose[b]
Production(b) == IsProd(b) /\ ~KeysOutsideEnclaveAllowed(b)

NoKeyMaterialInEnv(b, env) == Production(b) => env \cap KeyMaterial = {}

(* Placeholders are looked for by name of value, whatever variable they    *)
(* are in.                                                                 *)
NoProfileErrors(b, env) ==
    IsProd(b) =>
        /\ ProdRequired \subseteq env
        /\ env \cap ProdRefused = {}
        /\ "PLACEHOLDER" \notin env

ValidEnvironment(b, env) == NoProfileErrors(b, env) /\ NoKeyMaterialInEnv(b, env)

IsSimulator(env) == "DSTACK_SIMULATOR_ENDPOINT" \in env

(* loadTlsMaterial: the certificates that may be served and registered.    *)
TlsCertificates(b, env, boot) ==
    IF ~IsProd(b) \/ "TLS_PATHS" \in env THEN {FileCert}
    ELSE {boot} \cup (IF "ALLOW_EXTERNAL_TLS_TERMINATION" \in Compose[b] THEN {NoCert} ELSE {})

(* main.ts up to NestFactory.create: the key policy, TLS, the environment. *)
Start(i, b, env) ==
    /\ proc[i].pc \in {"down", "unready"}
    /\ boots < MaxBoots
    /\ NoKeyMaterialInEnv(b, env)
    /\ ValidEnvironment(b, env)
    /\ \E cert \in TlsCertificates(b, env, boots + 1) :
           proc' = [proc EXCEPT ![i] = [Down EXCEPT
               !.pc = IF InitFirst THEN "derive" ELSE "check",
               !.boot = boots + 1, !.build = b, !.env = env, !.cert = cert]]
    /\ boots' = boots + 1

(* main.ts: production needs the verification key to be loaded, which only *)
(* SnarkjsProofService.onModuleInit does.                                  *)
CheckReady(i) ==
    /\ proc[i].pc = "check"
    /\ proc' = [proc EXCEPT ![i].pc =
           IF IsProd(proc[i].build) /\ ~proc[i].setup THEN "unready"
           ELSE IF InitFirst THEN "serving" ELSE "derive"]
    /\ UNCHANGED boots

-----------------------------------------------------------------------------
(* KeyDerivationService.onModuleInit.                                      *)

(* The KMS, and the simulator in its place.                                *)
KmsAnswers(p) == IsSimulator(p.env) \/ p.build \in allowed

Source(p) == IF IsSimulator(p.env) THEN "sim" ELSE "kms"

MayDerive(p) ==
    /\ p.pc = "derive"
    /\ ~(Production(p.build) /\ IsSimulator(p.env))

(* Mutants of GetKey: keys are assigned as they come; one call too many.   *)
GetKey_AsTheyCome(i) ==
    /\ MayDerive(proc[i])
    /\ KmsAnswers(proc[i])
    /\ proc[i].got < DerivedKeys
    /\ \E d \in KeyDomains :
           proc' = [proc EXCEPT ![i].got = @ + 1, ![i].keys[d] = Source(proc[i])]
    /\ UNCHANGED boots

GetKey_Again(i) ==
    /\ MayDerive(proc[i])
    /\ KmsAnswers(proc[i])
    /\ proc[i].got <= DerivedKeys
    /\ proc' = [proc EXCEPT ![i].got = @ + 1]
    /\ UNCHANGED boots

GetKey(i) ==
    /\ MayDerive(proc[i])
    /\ KmsAnswers(proc[i])
    /\ proc[i].got < DerivedKeys
    /\ proc' = [proc EXCEPT ![i].got = @ + 1]
    /\ UNCHANGED boots

(* The fields are assigned together, after the last answer (getAppId).     *)
Derived(i) ==
    /\ MayDerive(proc[i])
    /\ proc[i].got = DerivedKeys
    /\ proc' = [proc EXCEPT ![i].pc = "attest", ![i].got = 0,
                            ![i].keys = [d \in KeyDomains |-> Source(proc[i])]]
    /\ UNCHANGED boots

(* A refused or failed call: outside production the process goes on        *)
(* without derived keys.                                                   *)
DeriveFails(i) ==
    /\ MayDerive(proc[i])
    /\ ~Production(proc[i].build)
    /\ proc' = [proc EXCEPT ![i].pc = "attest", ![i].got = 0]
    /\ UNCHANGED boots

-----------------------------------------------------------------------------
(* The hooks of AttestationModule, then those of LongjingModule. The hooks *)
(* of one module share nothing they write, so they are one step.           *)

(* TeeKeyManagerService: the derived key, else the pair of the environment.*)
MlKemKey(p) ==
    IF p.keys["mlkem"] # NoKey THEN p.keys["mlkem"]
    ELSE IF "ADMIN_MLKEM_KEYS" \in p.env THEN "env" ELSE NoKey

(* AttestationService: production attests through dstack only.             *)
ProductionPlatforms(env) ==
    IF "TEE_PLATFORM" \in env \/ IsSimulator(env) THEN {} ELSE {"phala"}

SelectablePlatforms(p) ==
    IF IsProd(p.build) THEN ProductionPlatforms(p.env)
    ELSE IF "TEE_PLATFORM" \in p.env THEN HostPlatforms
    ELSE {"phala"} \cup HostPlatforms

AttestationModuleInit(i) ==
    /\ proc[i].pc = "attest"
    /\ \E name \in SelectablePlatforms(proc[i]) :
           proc' = [proc EXCEPT ![i].pc = "wire", ![i].platform = name,
                                ![i].mlkem = MlKemKey(proc[i])]
    /\ UNCHANGED boots

(* RefundSignerService.loadPrivateKey: the keys it may sign with.          *)
RefundKeys(p) ==
    IF p.keys["refund"] # NoKey THEN {p.keys["refund"]}
    ELSE IF IsProd(p.build) /\ (~KeysOutsideEnclaveAllowed(p.build)
                                    \/ "OPERATOR_PRIVATE_KEY" \notin p.env) THEN {}
    ELSE IF "OPERATOR_PRIVATE_KEY" \in p.env THEN {"env"} ELSE {"dev"}

(* SecretsService: production asks KMS_URL with a quote, unless the        *)
(* environment holds the ML-KEM key.                                       *)
SecretsLoad(p) ==
    (IsProd(p.build) /\ "KMS_URL" \in p.env /\ "ADMIN_MLKEM_KEYS" \notin p.env)
        => p.mlkem # NoKey

LongjingModuleInit(i) ==
    /\ proc[i].pc = "wire"
    /\ IsProd(proc[i].build) => proc[i].build \in Artifacts
    /\ SecretsLoad(proc[i])
    /\ \E key \in RefundKeys(proc[i]) :
           proc' = [proc EXCEPT ![i].pc = "quote", ![i].refund = key,
                                ![i].setup = proc[i].build \in Artifacts]
    /\ UNCHANGED boots

-----------------------------------------------------------------------------
(* AttestationService: what report_data commits to, and the quote.         *)

BoundKeys(p) ==
    [mlkem |-> p.mlkem, identity |-> p.keys["identity"],
     refund |-> p.keys["refund"], cert |-> p.cert]

(* buildReportData: the commitment, then the nonce; NoNonce is 32 zeros.   *)
BuildReportData(keys, nonce) ==
    <<<<"longjing-report-v1", keys.mlkem, keys.identity, keys.refund, keys.cert>>, nonce>>

NoNonce == 0
OtherReport == <<>>

(* The reports a platform's quote may be over, when asked for one: a guest *)
(* agent of another version may change it, and the last resort of          *)
(* tdx-attest leaves it out.                                               *)
PhalaQuotes(report) == {report, OtherReport}
TdxQuotes(report) == {report, OtherReport}
SevSnpQuotes(report) == {report}
NitroQuotes(report) == {report}
MockQuotes(report) == {report}

QuotedReports(platform, report) ==
    CASE platform = "phala"       -> PhalaQuotes(report)
      [] platform = "intel-tdx"   -> TdxQuotes(report)
      [] platform = "amd-sev-snp" -> SevSnpQuotes(report)
      [] platform = "aws-nitro"   -> NitroQuotes(report)
      [] platform = "mock"        -> MockQuotes(report)

(* onApplicationBootstrap: production checks its first quote.              *)
FirstQuote(i) ==
    /\ proc[i].pc = "quote"
    /\ IsProd(proc[i].build) =>
           /\ proc[i].mlkem # NoKey
           /\ LET requested == BuildReportData(BoundKeys(proc[i]), NoNonce) IN
              \E attested \in QuotedReports(proc[i].platform, requested) : attested = requested
    /\ proc' = [proc EXCEPT ![i].pc = IF InitFirst THEN "check" ELSE "serving"]
    /\ UNCHANGED boots

(* An error, a crash or a stop.                                            *)
Exit(i) ==
    /\ proc[i].pc # "down"
    /\ proc' = [proc EXCEPT ![i] = Down]
    /\ UNCHANGED boots

EnclaveStep(i) ==
    \/ \E d \in Deployments : Start(i, d[1], d[2])
    \/ CheckReady(i)
    \/ GetKey(i)
    \/ Derived(i)
    \/ DeriveFails(i)
    \/ AttestationModuleInit(i)
    \/ LongjingModuleInit(i)
    \/ FirstQuote(i)
    \/ Exit(i)

-----------------------------------------------------------------------------
(* The keys a serving process uses are the ones it attests: derivation is  *)
(* all or nothing although it takes several calls to the KMS, a bound      *)
(* refund key is the one RefundSignerService signs with, and a production  *)
(* build without the opt-out serves only keys of the KMS, given to a build *)
(* the app has allowed, on dstack, with TLS ending inside.                 *)
ServedKeysAreTheBoundKeys ==
    \A i \in Instances : proc[i].pc = "serving" =>
        LET p == proc[i] IN
        /\ \A d, e \in KeyDomains : p.keys[d] = p.keys[e]
        /\ BoundKeys(p).refund \in {NoKey, p.refund}
        /\ Production(p.build) =>
               /\ {p.mlkem, p.refund, p.keys["identity"]} = {"kms"}
               /\ p.build \in everAllowed
               /\ p.platform = "phala"
               /\ p.cert = NoCert => "ALLOW_EXTERNAL_TLS_TERMINATION" \in Compose[p.build]

(* "Production refuses to start without its verification key"              *)
(* (snarkjs-proof.service.ts:20): main.ts's refusal to start, which tells  *)
(* the operator to configure the circuit artifacts, means that the image   *)
(* has no verification key.                                                *)
ReadinessFollowsTheKey ==
    \A i \in Instances : proc[i].pc = "unready" => proc[i].build \notin Artifacts
=============================================================================
