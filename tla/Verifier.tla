------------------------------ MODULE Verifier ------------------------------
(***************************************************************************)
(* scripts/testing/verify-attestation.ts against running enclaves: the     *)
(* evidence, the key manifest and the served certificate come over three   *)
(* connections, between which processes may exit and boot again; then the  *)
(* checks of key-binding.ts and tdx-quote.ts and, with --app, the key      *)
(* manifest's app and the governance that readAppGovernance reads.         *)
(*                                                                         *)
(* Scripts run one at a time: the verifier and propose-release share the   *)
(* reader Me. "by" and "build" name the boot that answered, which no code  *)
(* knows; 0 is the gateway. A check that fails is an action that is not    *)
(* enabled, after which the script ends (VerifierEnds).                    *)
(***************************************************************************)
EXTENDS Enclave, Sequences, Functions

CONSTANTS
    Me,       \* the reader the scripts use
    MinDelay  \* --min-delay

ASSUME VerifierAssumption == Me \in Readers /\ MinDelay \in Nat

VARIABLES session  \* a run of the verifier

vars == <<releaseVars, proc, boots, session>>

Nonce == 1
GatewayCert == -2
App == "app"
OtherApp == "other"

-----------------------------------------------------------------------------
(* tdx-quote.ts. SHA-384 does not collide: a digest is what it hashes, and *)
(* an RTMR is the sequence of digests it was extended with.                *)

RuntimeEventDigest(e) == <<e.name, e.payload>>

FirmwareEvent == [imr |-> 0, runtime |-> FALSE, name |-> "td-hob", payload |-> {},
                  digest |-> <<"td-hob", {}>>]
ComposeHashEvent(b, payload) ==
    [imr |-> 3, runtime |-> TRUE, name |-> "compose-hash", payload |-> payload,
     digest |-> <<"compose-hash", {b}>>]

(* dstack's log of a build; some versions leave the payloads out.          *)
EventLogs(b) == {<<FirmwareEvent, ComposeHashEvent(b, payload)>> : payload \in {{b}, {}}}

ReplayRtmrs(log) ==
    [k \in 0..3 |-> LET extends(e) == e.imr = k
                        events == SelectSeq(log, extends)
                    IN  [n \in DOMAIN events |-> events[n].digest]]

VerifyEventLog(rtmrs, log) ==
    /\ \A e \in Range(log) : e.runtime => e.digest = RuntimeEventDigest(e)
    /\ ReplayRtmrs(log) = rtmrs

(* The log's compose hash as a set: empty when it has none.                *)
ComposeHashFromEventLog(log) ==
    UNION {e.payload : e \in {x \in Range(log) : x.name = "compose-hash"}}

-----------------------------------------------------------------------------
(* GET /attestation and GET /attestation/manifest.                         *)

NoLog == <<>>

(* What a platform answers for a report; only dstack adds its event log.   *)
Quotes(p, report) ==
    {[report |-> r, rtmrs |-> ReplayRtmrs(log), eventLog |-> IF p.platform = "phala" THEN log ELSE NoLog] :
        r \in QuotedReports(p.platform, report), log \in EventLogs(p.build)}

NoEvidence ==
    [platform |-> "none", keys |-> BoundKeys(Down), reportData |-> OtherReport,
     quote |-> [report |-> OtherReport, rtmrs |-> ReplayRtmrs(NoLog), eventLog |-> NoLog],
     by |-> 0, build |-> InitialBuild]

(* getAttestation: an error when there is no ML-KEM key.                   *)
Attestations(p, nonce) ==
    IF p.pc # "serving" \/ p.mlkem = NoKey THEN {}
    ELSE LET report == BuildReportData(BoundKeys(p), nonce) IN
         {[platform |-> p.platform, keys |-> BoundKeys(p), reportData |-> report,
           quote |-> quote, by |-> p.boot, build |-> p.build] : quote \in Quotes(p, report)}

(* getAppId: what the guest agent's Info says. The agent of a CVM that the *)
(* KMS answers names the app; a simulator names any app it is told to.     *)
AppIds(p) == IF Source(p) = "kms" THEN {App} ELSE {App, OtherApp}

(* getKeyManifest: 503 without derived keys. Re-signed for the certificate *)
(* that is served.                                                         *)
KeyManifests(p) ==
    IF p.pc # "serving" \/ p.keys["identity"] = NoKey THEN {}
    ELSE {[app |-> id, mlkem |-> p.keys["mlkem"], refund |-> p.keys["refund"],
           cert |-> p.cert, signer |-> p.keys["identity"], by |-> p.boot] : id \in AppIds(p)}

NoManifest ==
    [app |-> "none", mlkem |-> NoKey, refund |-> NoKey, cert |-> NoCert, signer |-> NoKey,
     by |-> 0]

Served(cert, by) == [cert |-> cert, by |-> by]
NotServed == Served(NoCert, 0)

-----------------------------------------------------------------------------
(* key-binding.ts.                                                         *)

VerifyManifest(manifest, keys) ==
    /\ manifest.mlkem = keys.mlkem
    /\ keys.refund # NoKey
    /\ manifest.refund = keys.refund
    /\ manifest.cert = keys.cert
    /\ keys.identity # NoKey
    /\ manifest.signer = keys.identity

VerifyTdxQuote(evidence, expected) ==
    evidence.platform \in {"phala", "intel-tdx"} =>
        /\ evidence.quote.report = expected
        /\ evidence.quote.eventLog # NoLog =>
               VerifyEventLog(evidence.quote.rtmrs, evidence.quote.eventLog)

(* A mutant of VerifyKeyBinding: that a certificate is bound is enough.    *)
VerifyKeyBinding_AnyCert(evidence, served, manifest) ==
    LET expected == BuildReportData(evidence.keys, Nonce) IN
    /\ evidence.reportData = expected
    /\ served.cert # NoCert => evidence.keys.cert # NoCert
    /\ VerifyTdxQuote(evidence, expected)
    /\ manifest # NoManifest => VerifyManifest(manifest, evidence.keys)

VerifyKeyBinding(evidence, served, manifest) ==
    LET expected == BuildReportData(evidence.keys, Nonce) IN
    /\ evidence.reportData = expected
    /\ served.cert # NoCert => served.cert = evidence.keys.cert
    /\ VerifyTdxQuote(evidence, expected)
    /\ manifest # NoManifest => VerifyManifest(manifest, evidence.keys)

(* A mutant of NamesTheApp: without a key manifest there is nothing to     *)
(* check.                                                                  *)
NamesTheApp_Optional(manifest) == manifest = NoManifest \/ manifest.app = App

(* verifyGovernance, before it reads the chain.                            *)
NamesTheApp(manifest) == manifest # NoManifest /\ manifest.app = App

(* checkAppGovernance: the owner, the delay, and the running build if it   *)
(* is known. requireTcbUpToDate, which adds no build, is a check that may  *)
(* fail; a pending owner, no guardian and several builds are warnings.     *)
CheckAppGovernance(governance, composeHash) ==
    /\ governance.owner = "appOwner"
    /\ governance.delay >= MinDelay
    /\ composeHash \subseteq governance.allowed

-----------------------------------------------------------------------------
(* The script.                                                             *)

NoSession ==
    [pc |-> "start", app |-> FALSE, evidence |-> NoEvidence, manifest |-> NoManifest,
     served |-> NotServed]

VerifierInit == session = NoSession

(* fetchAttestation with a fresh nonce; a mock platform ends the script.   *)
FetchAttestation(i) ==
    /\ session.pc = "start"
    /\ read[Me] = Unread
    /\ \E evidence \in Attestations(proc[i], Nonce), app \in BOOLEAN :
           /\ evidence.platform # "mock"
           /\ session' = [NoSession EXCEPT !.pc = "manifest", !.app = app,
                                           !.evidence = evidence]
    /\ UNCHANGED <<releaseVars, proc, boots>>

(* An error answer leaves the manifest out.                                *)
FetchKeyManifest ==
    /\ session.pc = "manifest"
    /\ \E manifest \in {NoManifest} \cup UNION {KeyManifests(proc[i]) : i \in Instances} :
           session' = [session EXCEPT !.pc = "cert", !.manifest = manifest]
    /\ UNCHANGED <<releaseVars, proc, boots>>

(* What the address presents: the enclave's certificate when the gateway   *)
(* passes TLS through, the gateway's own, or none.                         *)
ServedCertificates ==
    {NotServed, Served(GatewayCert, 0)}
        \cup {Served(proc[i].cert, proc[i].boot) : i \in {j \in Instances : proc[j].pc = "serving"}}

(* fetchServedTlsCertificate, then every check up to the next await.       *)
FetchServedTlsCertificate ==
    /\ session.pc = "cert"
    /\ \E served \in ServedCertificates :
           /\ VerifyKeyBinding(session.evidence, served, session.manifest)
           /\ session.app => NamesTheApp(session.manifest)
           /\ session' = [session EXCEPT !.pc = IF session.app THEN "governance" ELSE "accepted",
                                         !.served = served]
    /\ UNCHANGED <<releaseVars, proc, boots>>

VerifierReads ==
    /\ session.pc = "governance"
    /\ ReadStep(Me)
    /\ UNCHANGED <<proc, boots, session>>

VerifyGovernance ==
    /\ session.pc = "governance"
    /\ ReadComplete(Me)
    /\ CheckAppGovernance(read[Me],
                          ComposeHashFromEventLog(session.evidence.quote.eventLog))
    /\ session' = [session EXCEPT !.pc = "accepted"]
    /\ UNCHANGED <<releaseVars, proc, boots>>

(* The script exits: it accepted, a check failed or a call threw.          *)
VerifierEnds ==
    /\ session.pc # "start"
    /\ session' = NoSession
    /\ read' = [read EXCEPT ![Me] = Unread]
    /\ UNCHANGED <<now, chainVars, files, timelock, proc, boots>>

VerifierStep ==
    \/ \E i \in Instances : FetchAttestation(i)
    \/ FetchKeyManifest
    \/ FetchServedTlsCertificate
    \/ VerifierReads
    \/ VerifyGovernance
    \/ VerifierEnds

Proposer ==
    /\ session.pc = "start"
    /\ \E r \in Readers : ScriptStep(r)

Init == ReleasesInit /\ EnclaveInit /\ VerifierInit

Next ==
    \/ (\E i \in Instances : EnclaveStep(i)) /\ UNCHANGED <<releaseVars, session>>
    \/ ChainStep /\ UNCHANGED <<proc, boots, session>>
    \/ Proposer /\ UNCHANGED <<proc, boots, session>>
    \/ VerifierStep

Spec == Init /\ [][Next]_vars

-----------------------------------------------------------------------------
BoundKeySet ==
    [mlkem : {NoKey, "kms", "sim", "env"}, identity : {NoKey, "kms", "sim"},
     refund : {NoKey, "kms", "sim"}, cert : {NoCert, FileCert} \cup 1..MaxBoots]

(* The chain, the processes and the verifier's session have their types.   *)
TypeOK ==
    /\ ReleasesTypeOK
    /\ EnclaveTypeOK
    /\ session.pc \in {"start", "manifest", "cert", "governance", "accepted"}
    /\ session.app \in BOOLEAN
    /\ session.evidence.platform \in Platforms
    /\ session.evidence.keys \in BoundKeySet
    /\ session.evidence.build \in Builds
    /\ session.manifest.app \in {"none", App, OtherApp}
    /\ {session.evidence.by, session.manifest.by, session.served.by} \subseteq 0..MaxBoots
    /\ session.served.cert \in {NoCert, FileCert, GatewayCert} \cup 1..MaxBoots

(* An accepted session is one enclave's: verify-attestation's three        *)
(* fetches may meet different processes or the gateway, but when it saw a  *)
(* certificate and accepted, TLS did not end at the gateway, and with a    *)
(* certificate from dstack the evidence, the TLS session and the key       *)
(* manifest are those of one boot.                                         *)
AcceptedSessionIsOneEnclave ==
    (session.pc = "accepted" /\ session.served.cert # NoCert) =>
        /\ session.served.by # 0
        /\ session.evidence.keys.cert > 0 =>
               /\ session.served.by = session.evidence.by
               /\ session.manifest # NoManifest => session.manifest.by = session.evidence.by

(* Accepted keys are derived together: whoever passes --app learns that    *)
(* the three keys of the evidence come from one guest agent, none of them  *)
(* from the environment although the evidence alone binds such keys too,   *)
(* and that if the agent's keys are the KMS's, they were given to a build  *)
(* the app has allowed. It does not learn that the agent is no simulator:  *)
(* the app id is what the agent says, and neither the quote's signature    *)
(* nor the GetKey chains are checked (key-binding.ts:26,                   *)
(* docs/KEY_DERIVATION.md:120).                                            *)
AcceptedKeysAreDerived ==
    (session.pc = "accepted" /\ session.app) =>
        \E agent \in {"kms", "sim"} :
            /\ {session.evidence.keys.mlkem, session.evidence.keys.identity,
                session.evidence.keys.refund} = {agent}
            /\ agent = "kms" => session.evidence.build \in everAllowed

=============================================================================
