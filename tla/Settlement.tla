----------------------------- MODULE Settlement -----------------------------
(***************************************************************************)
(* The settlement protocol: note owners, the gateway and the contract put  *)
(* together.  LongjingCredits.tla lets the verifier accept any claim; here *)
(* a claim is accepted when settlement.circom is satisfied, a request when *)
(* request.circom is, and the gateway and its exit watcher are reduced to  *)
(* what they do to the store of signals and to the accumulators they sign  *)
(* (Gateway.tla and ExitWatcher.tla have their steps).                     *)
(*                                                                         *)
(* The nullifier of (c, i) is N = Poseidon(Poseidon(k, i)), so the store   *)
(* is indexed by note and index.  An owner in honest runs the client of    *)
(* scripts/client/note.ts; any other owner proves whatever the circuits    *)
(* and its accumulators allow, from any root the contract still knows.     *)
(***************************************************************************)
EXTENDS LongjingCredits

CONSTANTS
    RequestSignals,  \* x of a request: Poseidon(H(payload), nonce)
    ExitSignal,      \* x of an exit: Poseidon(recipient, chain, contract)
    NoSignal,
    MaxIndex,        \* bound: requests and claims of a note stay below it
    MaxChecked       \* bound: calls of a note verified and not yet recorded

ASSUME SettlementAssumption ==
    /\ ExitSignal \notin RequestSignals
    /\ NoSignal \notin RequestSignals \cup {ExitSignal}
    /\ MaxIndex \in Nat /\ MaxChecked \in Nat
    /\ ChallengeWindow > 0

VARIABLES
    honest,     \* the notes whose owners run the reference client
    store,      \* note -> index -> the signal recorded for its nullifier
    checked,    \* note -> the <<index, signal>> verified and not yet recorded
    serving,    \* note -> its latest recorded request is being served
    acc,        \* note -> refunds R of each signed accumulator, at index 1, 2, ...
    opening,    \* note -> its client's file: index, pending signal
    proofs,     \* note -> the exit proofs its client has made: m, n of each
    exitIndex,  \* note -> the index n its exit spends (-1: no exit)
    ingested,   \* notes whose exit the watcher has put in the store
    revealed    \* notes whose key two signals have given to the gateway

gateVars == <<store, checked, serving, acc, ingested, revealed>>
userVars == <<honest, opening, proofs>>
sVars    == <<vars, gateVars, userVars, exitIndex>>

Indices == 0..MaxIndex - 1

(* R of the accumulator of note c at index i: genesis is 0.                *)
Refunds(c, i) == IF i = 0 THEN 0 ELSE acc[c][i]

-----------------------------------------------------------------------------
SInit ==
    /\ Init
    /\ honest \in SUBSET Commitments
    /\ store = [c \in Commitments |-> [i \in Indices |-> NoSignal]]
    /\ checked = [c \in Commitments |-> {}]
    /\ serving = [c \in Commitments |-> FALSE]
    /\ acc = [c \in Commitments |-> << >>]
    /\ opening = [c \in Commitments |-> [index |-> 0, pending |-> NoSignal]]
    /\ proofs = [c \in Commitments |-> {}]
    /\ exitIndex = [c \in Commitments |-> -1]
    /\ ingested = {}
    /\ revealed = {}

-----------------------------------------------------------------------------
(* The statements the circuits prove *)

(* The note's leaf is under a root the contract knows (request.circom 1).  *)
Member(c) ==
    \E r \in 0..RootHistorySize - 1 :
        roots[r] # NoRoot /\ \E leaf \in roots[r] : leaf[2] = c

(* SignedAccumulator: genesis, or a signed accumulator at index i.         *)
Opens(c, i) == i \in 0..Len(acc[c])

(* Mutant: the request being proved is not counted.                        *)
Solvent_Behind(c, i) == i * CMax <= notes[c].amount + Refunds(c, i)

(* request.circom 5: every index up to i at full price is covered.         *)
Solvent(c, i) == (i + 1) * CMax <= notes[c].amount + Refunds(c, i)

RequestProvable(c, i) == i \in Indices /\ Opens(c, i) /\ Solvent(c, i)

(* settlement.circom 4 *)
Payout(c, m, n) == notes[c].amount + Refunds(c, m) - n * CMax

ClaimProvable(c, m, n) == Opens(c, m) /\ m <= n /\ Payout(c, m, n) >= 0

-----------------------------------------------------------------------------
(* The reference client *)

(* proveRequest; a pending body is sent again as it is (see Verify).       *)
(* Nothing keeps the owner from a new request while it holds an exit proof *)
(* it has not submitted: only the note's status on chain stops it.         *)
ProveRequest(c, x) ==
    /\ c \in honest
    /\ opening[c].pending = NoSignal
    /\ notes[c].status = "Active"
    /\ RequestProvable(c, opening[c].index)
    /\ opening' = [opening EXCEPT ![c].pending = x]
    /\ UNCHANGED <<vars, gateVars, honest, proofs, exitIndex>>

(* receive: the signed answer of the pending request arrived.              *)
Receive(c) ==
    /\ c \in honest
    /\ opening[c].pending # NoSignal
    /\ Len(acc[c]) > opening[c].index
    /\ opening' = [opening EXCEPT ![c] =
           [index |-> opening[c].index + 1, pending |-> NoSignal]]
    /\ UNCHANGED <<vars, gateVars, honest, proofs, exitIndex>>

(* Mutant: a request without an answer is taken for unused.                *)
UsedIndices_Optimistic(c) == opening[c].index

(* proveWithdrawal's default n: one more if a response was lost.           *)
UsedIndices(c) ==
    opening[c].index + (IF opening[c].pending # NoSignal THEN 1 ELSE 0)

(* proveWithdrawal, with its default n.  It may be called again, and any   *)
(* proof it has returned may be submitted later.                           *)
ProveWithdrawal(c) ==
    /\ c \in honest
    /\ notes[c].status = "Active"
    /\ UsedIndices(c) \in Indices
    /\ ClaimProvable(c, opening[c].index, UsedIndices(c))
    /\ proofs' = [proofs EXCEPT ![c] = @ \cup {[m |-> opening[c].index, n |-> UsedIndices(c)]}]
    /\ UNCHANGED <<vars, gateVars, honest, opening, exitIndex>>

(* What an owner may send to the gateway, and claim from the contract.     *)
Sends(c, i, x) ==
    \/ c \notin honest /\ RequestProvable(c, i)
    \/ c \in honest /\ opening[c].pending = x /\ opening[c].index = i

Claims(c, m, n) ==
    \/ c \notin honest /\ ClaimProvable(c, m, n)
    \/ c \in honest /\ [m |-> m, n |-> n] \in proofs[c]

-----------------------------------------------------------------------------
(* The gateway *)

(* verifyAgainstChainAndCircuit accepts a request.                         *)
Verify(c, i, x) ==
    /\ Sends(c, i, x)
    /\ Member(c)
    /\ Cardinality(checked[c] \cup {<<i, x>>}) <= MaxChecked
    /\ checked' = [checked EXCEPT ![c] = @ \cup {<<i, x>>}]
    /\ UNCHANGED <<vars, store, serving, acc, ingested, revealed, userVars, exitIndex>>

(* Mutant: a retry whose answer was lost is served again.                  *)
Record_ServesRetries(c, i, x) ==
    /\ <<i, x>> \in checked[c]
    /\ checked' = [checked EXCEPT ![c] = @ \ {<<i, x>>}]
    /\ \/ /\ store[c][i] \in {NoSignal, x}
          /\ store' = [store EXCEPT ![c][i] = x]
          /\ serving' = [serving EXCEPT ![c] = TRUE]
          /\ UNCHANGED revealed
       \/ /\ store[c][i] \notin {NoSignal, x}
          /\ revealed' = revealed \cup {c}
          /\ UNCHANGED <<store, serving>>
    /\ UNCHANGED <<vars, acc, ingested, userVars, exitIndex>>

(* checkAndSet and what follows it: a fresh nullifier is served, another   *)
(* signal under it reveals k, the same signal is a retry.                  *)
Record(c, i, x) ==
    /\ <<i, x>> \in checked[c]
    /\ checked' = [checked EXCEPT ![c] = @ \ {<<i, x>>}]
    /\ \/ /\ store[c][i] = NoSignal
          /\ store' = [store EXCEPT ![c][i] = x]
          /\ serving' = [serving EXCEPT ![c] = TRUE]
          /\ UNCHANGED revealed
       \/ /\ store[c][i] \notin {NoSignal, x}
          /\ revealed' = revealed \cup {c}
          /\ UNCHANGED <<store, serving>>
       \/ /\ store[c][i] = x
          /\ UNCHANGED <<store, serving, revealed>>
    /\ UNCHANGED <<vars, acc, ingested, userVars, exitIndex>>

(* Mutant: the refund may exceed what the request was charged.             *)
RefundRange_Wide == 0..CMax + 1

(* v = C_MAX - C_actual, clamped.                                          *)
RefundRange == 0..CMax

(* nextAccumulator and signAccumulator: A' opens to (R + v, i + 1).        *)
Answer(c, v) ==
    /\ serving[c]
    /\ serving' = [serving EXCEPT ![c] = FALSE]
    /\ acc' = [acc EXCEPT ![c] = Append(@, Refunds(c, Len(@)) + v)]
    /\ UNCHANGED <<vars, store, checked, ingested, revealed, userVars, exitIndex>>

(* The process crashed, or the cost could not be priced: nothing is signed. *)
Drop(c) ==
    /\ serving[c]
    /\ serving' = [serving EXCEPT ![c] = FALSE]
    /\ UNCHANGED <<vars, store, checked, acc, ingested, revealed, userVars, exitIndex>>

(* Mutant: an exit is recorded without a look at what it conflicts with.   *)
IngestExit_Blind(c) ==
    LET n == exitIndex[c]
    IN  /\ n # -1
        /\ c \notin ingested
        /\ ingested' = ingested \cup {c}
        /\ store' = IF store[c][n] = NoSignal THEN [store EXCEPT ![c][n] = ExitSignal] ELSE store
        /\ UNCHANGED <<vars, checked, serving, acc, revealed, userVars, exitIndex>>

(* ExitWatcherService.ingest                                               *)
IngestExit(c) ==
    LET n == exitIndex[c]
    IN  /\ n # -1
        /\ c \notin ingested
        /\ ingested' = ingested \cup {c}
        /\ store' = IF store[c][n] = NoSignal THEN [store EXCEPT ![c][n] = ExitSignal] ELSE store
        /\ revealed' = IF store[c][n] \in RequestSignals THEN revealed \cup {c} ELSE revealed
        /\ UNCHANGED <<vars, checked, serving, acc, userVars, exitIndex>>

-----------------------------------------------------------------------------
(* The contract, called by them *)

DepositNote(c, value) ==
    /\ Deposit(c, value)
    /\ UNCHANGED <<gateVars, userVars, exitIndex>>

Exit(c, recipient, key, m, n) ==
    /\ Claims(c, m, n)
    /\ InitiateWithdrawal(c, recipient, key, Payout(c, m, n))
    /\ exitIndex' = [exitIndex EXCEPT ![c] = n]
    /\ UNCHANGED <<gateVars, userVars>>

FinalizeExit(c) ==
    /\ FinalizeWithdrawal(c)
    /\ UNCHANGED <<gateVars, userVars, exitIndex>>

(* slash(k): the gateway once it knows k, or the owner of the note.        *)
SlashNote(c, sender) ==
    /\ c \in revealed \/ c \notin honest
    /\ Slash(c, sender)
    /\ UNCHANGED <<gateVars, userVars, exitIndex>>

ClaimExpiredNote(c, sender) ==
    /\ ClaimExpired(c, sender)
    /\ UNCHANGED <<gateVars, userVars, exitIndex>>

(* Assumed of the deployment: the watcher ingests an exit, and the slash   *)
(* of a revealed key is mined, within CHALLENGE_WINDOW.                    *)
WatcherIsPrompt ==
    \A c \in Commitments :
        notes[c].status = "Exiting" /\ now + 1 >= exits[c].exitAt =>
            c \in ingested /\ c \notin revealed

TimePasses ==
    /\ WatcherIsPrompt
    /\ Tick
    /\ UNCHANGED <<gateVars, userVars, exitIndex>>

-----------------------------------------------------------------------------
SNext ==
    \/ TimePasses
    \/ \E c \in Commitments :
          \/ \E value \in 0..DepositLimit : DepositNote(c, value)
          \/ \E x \in RequestSignals :
                \/ ProveRequest(c, x)
                \/ \E i \in Indices : Verify(c, i, x) \/ Record(c, i, x)
          \/ Receive(c)
          \/ ProveWithdrawal(c)
          \/ \E v \in RefundRange : Answer(c, v)
          \/ Drop(c)
          \/ IngestExit(c)
          \/ \E recipient \in Addresses, key \in Keys, m, n \in Indices :
                Exit(c, recipient, key, m, n)
          \/ FinalizeExit(c)
          \/ \E sender \in Addresses : SlashNote(c, sender) \/ ClaimExpiredNote(c, sender)

SSpec == SInit /\ [][SNext]_sVars

-----------------------------------------------------------------------------
(* Properties *)

Used(c) == {i \in Indices : store[c][i] \in RequestSignals}

(* What the requests of a note cost it: C_MAX each, less the refunds       *)
(* signed for them.                                                        *)
Charged(c) == Cardinality(Used(c)) * CMax - Refunds(c, Len(acc[c]))

(* The indices a note has used form a prefix 0 .. n-1, with an accumulator *)
(* signed for each but perhaps the last, so settling on the highest index  *)
(* settles all of them (docs/SETTLEMENT.md, "prefix property").            *)
PrefixProperty ==
    \A c \in Commitments :
        /\ Used(c) = 0..Cardinality(Used(c)) - 1
        /\ Cardinality(Used(c)) - Len(acc[c]) \in {0, 1}

(* However an owner orders requests, double requests, stale accumulators,  *)
(* understated claims and its own slashing against the gateway and the     *)
(* watcher, a note that has settled leaves the operator what its requests  *)
(* cost, those served after the exit started included; a slash may cost it *)
(* the bounty.                                                             *)
OperatorIsPaid ==
    \A c \in Commitments :
        /\ notes[c].status \in {"Closed", "Expired"} => credited[c] >= Charged(c)
        /\ notes[c].status = "Slashed" => credited[c] + SlashBounty >= Charged(c)

(* The owner of a note that follows the client reveals its key in one case *)
(* only: it submitted an exit proved before its latest request.  Retries,  *)
(* lost answers, and an exit that races the last request it was proved     *)
(* with never do.  (The client's files do not rule the case out: nothing   *)
(* in proveRequest knows of an exit proof that is not on chain yet.)       *)
HonestNotSlashed ==
    \A c \in honest :
        c \in revealed \/ notes[c].status = "Slashed" =>
            exitIndex[c] # -1 /\ exitIndex[c] < UsedIndices(c)

(* At every moment of its life the client can prove an exit the contract   *)
(* takes: the payout is neither negative nor above the deposit, whether or *)
(* not the last answer arrived.                                            *)
HonestCanLeave ==
    \A c \in honest :
        notes[c].status = "Active" =>
            Payout(c, opening[c].index, UsedIndices(c)) \in 0..notes[c].amount

(* An exit by the client loses at most one C_MAX against what its requests *)
(* cost: the refund of the one answer it may not have received.            *)
HonestLosesAtMostOneRequest ==
    \A c \in honest :
        notes[c].status = "Closed" => credited[c] <= Charged(c) + CMax
=============================================================================
