---------------------------- MODULE MCDeployment ----------------------------
(***************************************************************************)
(* Instances of Verifier for TLC: a production build that is allowed from  *)
(* the start, its successor with both opt-outs, and a local profile.       *)
(***************************************************************************)
EXTENDS Verifier, TLC

CONSTANTS Strict, OptOut, Local

MCCompose == (Strict :> {"production"})
    @@ (OptOut :> {"production", "ALLOW_KEYS_OUTSIDE_ENCLAVE", "ALLOW_EXTERNAL_TLS_TERMINATION"})
    @@ (Local :> {})

Configured == ProdRequired

MCDeployments == {
    <<Strict, Configured>>,
    <<Strict, Configured \cup {"SERVER_TX_PRIVATE_KEY"}>>,
    <<OptOut, Configured \cup {"ADMIN_MLKEM_KEYS", "OPERATOR_PRIVATE_KEY"}>>,
    <<OptOut, Configured \cup {"TLS_PATHS", "KMS_URL"}>>,
    <<Local, {"DSTACK_SIMULATOR_ENDPOINT"}>>,
    <<Local, {"ADMIN_MLKEM_KEYS", "TEE_PLATFORM"}>>}

(* What the Safe may write by hand: a build no check has passed, without a *)
(* guardian to remove it; a handover; an upgrade; a delay of zero.         *)
MCHandMade == {
    [NoCalls EXCEPT !.adds = {Local}, !.guardian = "none"],
    [NoCalls EXCEPT !.transfer = "account"],
    [NoCalls EXCEPT !.upgrade = TRUE],
    [NoCalls EXCEPT !.delay = 0]}

(* Boots, transactions and time are traded against each other. The         *)
(* proposer reads before the first boot, since what it writes can be       *)
(* scheduled later. The last transaction comes after a report that may be  *)
(* good.                                                                   *)
FewEvents ==
    /\ boots = 0 => mined < MaxTransactions \/ (read[Me].owner = "appOwner" /\ ~read[Me].changing)
    /\ boots = 1 => mined <= IF now = MaxTime THEN 2 ELSE 1
    /\ boots = 2 => mined = 0 /\ now = 0
    /\ boots = 0 \/ session.pc \in {"governance", "accepted"} \/ read[Me] = Unread
=============================================================================
