-------------------------- MODULE LongjingCredits --------------------------
(***************************************************************************)
(* The settlement contract (contracts/src/LongjingCredits.sol): notes, the *)
(* exit game, slashing, expiry, the known Merkle roots, the operator's     *)
(* balance and the time-locked administration.                             *)
(*                                                                         *)
(* Every external function is one action: a call that reverts changes      *)
(* nothing, so its early returns are the action's guard, and nonReentrant  *)
(* makes a call one atomic step.  `now' is block.timestamp.  A commitment  *)
(* stands for the note's secret key as well (c = Poseidon(k)).  A leaf is  *)
(* its commitment, and a root is the set of non-empty leaves with their    *)
(* positions: MerkleTree.tla checks that the incremental tree of the code  *)
(* computes exactly that.  The settlement verifier is a Groth16 verifier   *)
(* over inputs the contract does not interpret: here it may accept any     *)
(* claim; Settlement.tla says what an accepted claim means.                *)
(***************************************************************************)
EXTENDS Integers, Sequences, FiniteSets, Functions

CONSTANTS
    Commitments,      \* c = Poseidon(k), one per note
    Addresses,        \* accounts: recipients, slashers, operators, verifiers
    Accepts,          \* the accounts whose code accepts a plain transfer
    Keys,             \* refund signer public keys
    CMax,             \* C_MAX
    SlashBounty,      \* SLASH_BOUNTY
    DepositLimit,     \* 2^128: a deposit stays below it
    MaxLeaves,        \* 2^TREE_DEPTH
    RootHistorySize,  \* ROOT_HISTORY_SIZE
    AdminDelay,       \* ADMIN_DELAY
    NoteTTL,          \* NOTE_TTL
    ChallengeWindow,  \* CHALLENGE_WINDOW
    InitialServer,    \* constructor argument _serverAddress
    InitialKey,       \* constructor argument (_serverPubKeyX, _serverPubKeyY)
    EmptyLeaf,        \* bytes32(0) as a leaf
    NoRoot,           \* bytes32(0) in the root ring buffer
    NoValue,          \* the value of a change that is not pending
    MaxPending,       \* bound: how many targets have a change pending at once
    MaxTime           \* bound: the clock stops here

(* The contract's constants are ordered the way its comments rely on.      *)
ASSUME ConstantsAssumption ==
    /\ CMax \in Nat /\ SlashBounty \in Nat /\ DepositLimit \in Nat
    /\ MaxLeaves \in Nat /\ MaxTime \in Nat /\ MaxPending \in Nat
    /\ RootHistorySize \in Nat /\ RootHistorySize > 1
    /\ AdminDelay \in Nat /\ NoteTTL \in Nat /\ ChallengeWindow \in Nat
    /\ ChallengeWindow < AdminDelay
    /\ NoteTTL > 0

ASSUME ValuesAssumption ==
    /\ IsFiniteSet(Commitments)   \* field elements
    /\ EmptyLeaf \notin Commitments
    /\ \A root \in SUBSET ((1..MaxLeaves) \X Commitments) : NoRoot # root
    /\ InitialServer \in Addresses /\ InitialKey \in Keys
    /\ Accepts \subseteq Addresses

Status == {"None", "Active", "Exiting", "Closed", "Slashed", "Expired"}

Target == {"SettlementVerifier", "RefundKey", "ServerAddress"}

VARIABLES
    now,                  \* block.timestamp
    notes,                \* commitment -> amount, depositedAt, leafIndex, status
    exits,                \* commitment -> payout, recipient, exitAt
    pausedTimeAtDeposit,
    leaves, roots, currentRootIndex, merkleRoot,
    operatorBalance,
    balance,              \* the ETH the contract holds
    serverAddress, serverPublicKey, acceptedRefundKeys, settlementVerifier,
    pendingChanges,       \* target -> value, eta (0: none)
    paused, pausedAt, totalPausedTime,
    \* History variables: written by the actions, read by the properties only.
    paidOut,              \* commitment -> ETH sent out when its note settled
    credited,             \* commitment -> ETH its note left to the operator
    age,                  \* commitment -> unpaused time since its deposit
    startedAt,            \* commitment -> when its exit started
    proposedAt,           \* target -> when the pending change was proposed
    rootLog               \* every root the tree ever had, oldest first

noteVars  == <<notes, exits, pausedTimeAtDeposit>>
treeVars  == <<leaves, roots, currentRootIndex, merkleRoot, rootLog>>
moneyVars == <<operatorBalance, balance>>
adminVars == <<serverAddress, serverPublicKey, acceptedRefundKeys,
               settlementVerifier, pendingChanges, proposedAt>>
pauseVars == <<paused, pausedAt, totalPausedTime>>
histVars  == <<paidOut, credited, age, startedAt>>
vars      == <<now, noteVars, treeVars, moneyVars, adminVars, pauseVars, histVars>>

-----------------------------------------------------------------------------
(* The Merkle root of a list of leaves: PoseidonHasher is collision free,  *)
(* so a root is worth the leaves it commits to and where they sit; empty   *)
(* leaves hash like no leaf at all.                                        *)
RootOf(ls) == {<<i, ls[i]>> : i \in {j \in 1..Len(ls) : ls[j] # EmptyLeaf}}

Live(status) == status \in {"Active", "Exiting"}

(* _pausedTime: time spent paused, the current pause included.             *)
PausedTime == IF paused THEN totalPausedTime + now - pausedAt ELSE totalPausedTime

(* noteExpiry, for a note that exists.                                     *)
NoteExpiry(c) ==
    notes[c].depositedAt + NoteTTL + PausedTime - pausedTimeAtDeposit[c]

IsKnownRoot(r) == r # NoRoot /\ \E i \in 0..RootHistorySize - 1 : roots[i] = r

-----------------------------------------------------------------------------
Init ==
    /\ now = 1
    /\ notes = [c \in Commitments |->
           [amount |-> 0, depositedAt |-> 0, leafIndex |-> 0, status |-> "None"]]
    /\ exits = [c \in Commitments |->
           [payout |-> 0, recipient |-> NoValue, exitAt |-> 0]]
    /\ pausedTimeAtDeposit = [c \in Commitments |-> 0]
    /\ leaves = << >>
    /\ currentRootIndex = 1   \* the constructor has pushed the empty root
    /\ roots = [i \in 0..RootHistorySize - 1 |->
           IF i = 1 THEN RootOf(<< >>) ELSE NoRoot]
    /\ merkleRoot = RootOf(<< >>)
    /\ operatorBalance = 0
    /\ balance = 0
    /\ serverAddress = InitialServer
    /\ serverPublicKey = InitialKey
    /\ acceptedRefundKeys = {InitialKey}
    /\ settlementVerifier = NoValue   \* the one the constructor deploys
    /\ pendingChanges = [t \in Target |-> [value |-> NoValue, eta |-> 0]]
    /\ paused = FALSE
    /\ pausedAt = 0
    /\ totalPausedTime = 0
    /\ paidOut = [c \in Commitments |-> 0]
    /\ credited = [c \in Commitments |-> 0]
    /\ age = [c \in Commitments |-> 0]
    /\ startedAt = [c \in Commitments |-> 0]
    /\ proposedAt = [t \in Target |-> 0]
    /\ rootLog = <<RootOf(<< >>)>>

(* A block with a later timestamp.  age counts unpaused seconds since the  *)
(* deposit independently of the code's own bookkeeping.                    *)
Tick ==
    /\ now < MaxTime
    /\ now' = now + 1
    /\ age' = [c \in Commitments |->
           IF notes[c].status = "Active" /\ ~paused THEN age[c] + 1 ELSE age[c]]
    /\ UNCHANGED <<noteVars, treeVars, moneyVars, adminVars, pauseVars,
                   paidOut, credited, startedAt>>

-----------------------------------------------------------------------------
(* The tree *)

(* Mutants: the ring buffer's index is not wrapped; it wraps one early.    *)
UpdateLeaf_NoWrap(ls) ==
    /\ leaves' = ls
    /\ currentRootIndex' = currentRootIndex + 1
    /\ roots' = [roots EXCEPT ![currentRootIndex] = RootOf(ls)]
    /\ merkleRoot' = RootOf(ls)
    /\ rootLog' = Append(rootLog, RootOf(ls))

UpdateLeaf_ShortRing(ls) ==
    LET next == (currentRootIndex + 1) % (RootHistorySize - 1)
    IN  /\ leaves' = ls
        /\ currentRootIndex' = next
        /\ roots' = [roots EXCEPT ![next] = RootOf(ls)]
        /\ merkleRoot' = RootOf(ls)
        /\ rootLog' = Append(rootLog, RootOf(ls))

(* _updateLeaf and _pushRoot: the leaves become ls and their root the      *)
(* newest of the RootHistorySize known ones.                               *)
UpdateLeaf(ls) ==
    LET next == (currentRootIndex + 1) % RootHistorySize
    IN  /\ leaves' = ls
        /\ currentRootIndex' = next
        /\ roots' = [roots EXCEPT ![next] = RootOf(ls)]
        /\ merkleRoot' = RootOf(ls)
        /\ rootLog' = Append(rootLog, RootOf(ls))

(* Mutant: the leaf of the newest note goes instead of the note's own.     *)
RemoveLeaf_Newest(c) == UpdateLeaf([leaves EXCEPT ![Len(leaves)] = EmptyLeaf])

(* _removeLeaf *)
RemoveLeaf(c) == UpdateLeaf([leaves EXCEPT ![notes[c].leafIndex + 1] = EmptyLeaf])

-----------------------------------------------------------------------------
(* Notes *)

Deposit(c, value) ==
    /\ ~paused
    /\ CMax <= value /\ value < DepositLimit
    /\ notes[c].status = "None"
    /\ Len(leaves) # MaxLeaves
    /\ notes' = [notes EXCEPT ![c] =
           [amount |-> value, depositedAt |-> now,
            leafIndex |-> Len(leaves), status |-> "Active"]]
    /\ pausedTimeAtDeposit' = [pausedTimeAtDeposit EXCEPT ![c] = PausedTime]
    /\ UpdateLeaf(Append(leaves, c))
    /\ balance' = balance + value
    /\ UNCHANGED <<now, exits, operatorBalance, adminVars, pauseVars, histVars>>

(* The verifier is not consulted here: it may accept any payout the guard  *)
(* lets through.  ChallengeWindow has to fit before MaxTime (a bound).     *)
InitiateWithdrawal(c, recipient, key, payout) ==
    /\ notes[c].status = "Active"
    /\ key \in acceptedRefundKeys
    /\ payout <= notes[c].amount
    /\ now + ChallengeWindow <= MaxTime
    /\ notes' = [notes EXCEPT ![c].status = "Exiting"]
    /\ exits' = [exits EXCEPT ![c] =
           [payout |-> payout, recipient |-> recipient, exitAt |-> now + ChallengeWindow]]
    /\ RemoveLeaf(c)
    /\ startedAt' = [startedAt EXCEPT ![c] = now]
    /\ UNCHANGED <<now, pausedTimeAtDeposit, moneyVars, adminVars, pauseVars,
                   paidOut, credited, age>>

(* _pay sends ETH, and a receiver that does not accept it reverts the call. *)
Pay(to, amount) ==
    /\ to \in Accepts
    /\ balance >= amount
    /\ balance' = balance - amount

(* Mutants: the operator is credited the whole deposit; exits stop while   *)
(* the contract is paused.                                                 *)
FinalizeWithdrawal_CreditsAll(c) ==
    /\ notes[c].status = "Exiting"
    /\ now >= exits[c].exitAt
    /\ notes' = [notes EXCEPT ![c].status = "Closed"]
    /\ operatorBalance' = operatorBalance + notes[c].amount
    /\ Pay(exits[c].recipient, exits[c].payout)
    /\ paidOut' = [paidOut EXCEPT ![c] = @ + exits[c].payout]
    /\ credited' = [credited EXCEPT ![c] = @ + notes[c].amount]
    /\ UNCHANGED <<now, exits, pausedTimeAtDeposit, treeVars, adminVars, pauseVars,
                   age, startedAt>>

FinalizeWithdrawal_NotPaused(c) ==
    /\ ~paused
    /\ notes[c].status = "Exiting"
    /\ now >= exits[c].exitAt
    /\ notes' = [notes EXCEPT ![c].status = "Closed"]
    /\ operatorBalance' = operatorBalance + notes[c].amount - exits[c].payout
    /\ Pay(exits[c].recipient, exits[c].payout)
    /\ paidOut' = [paidOut EXCEPT ![c] = @ + exits[c].payout]
    /\ credited' = [credited EXCEPT ![c] = @ + notes[c].amount - exits[c].payout]
    /\ UNCHANGED <<now, exits, pausedTimeAtDeposit, treeVars, adminVars, pauseVars,
                   age, startedAt>>

FinalizeWithdrawal(c) ==
    /\ notes[c].status = "Exiting"
    /\ now >= exits[c].exitAt
    /\ notes' = [notes EXCEPT ![c].status = "Closed"]
    /\ operatorBalance' = operatorBalance + notes[c].amount - exits[c].payout
    /\ Pay(exits[c].recipient, exits[c].payout)
    /\ paidOut' = [paidOut EXCEPT ![c] = @ + exits[c].payout]
    /\ credited' = [credited EXCEPT ![c] = @ + notes[c].amount - exits[c].payout]
    /\ UNCHANGED <<now, exits, pausedTimeAtDeposit, treeVars, adminVars, pauseVars,
                   age, startedAt>>

(* Mutant: the bounty is not capped by the deposit.                        *)
Bounty_Uncapped(amount) == SlashBounty

Bounty(amount) == IF amount < SlashBounty THEN amount ELSE SlashBounty

(* Called by whoever knows the secret key behind c.                        *)
Slash(c, sender) ==
    LET bounty == Bounty(notes[c].amount)
    IN  /\ \/ notes[c].status = "Active" /\ RemoveLeaf(c)
           \/ notes[c].status = "Exiting" /\ UNCHANGED treeVars
        /\ notes' = [notes EXCEPT ![c].status = "Slashed"]
        /\ operatorBalance' = operatorBalance + notes[c].amount - bounty
        /\ Pay(sender, bounty)
        /\ paidOut' = [paidOut EXCEPT ![c] = @ + bounty]
        /\ credited' = [credited EXCEPT ![c] = @ + notes[c].amount - bounty]
        /\ UNCHANGED <<now, exits, pausedTimeAtDeposit, adminVars, pauseVars,
                       age, startedAt>>

ClaimExpired(c, sender) ==
    /\ ~paused
    /\ sender = serverAddress
    /\ notes[c].status = "Active"
    /\ now >= NoteExpiry(c)
    /\ notes' = [notes EXCEPT ![c].status = "Expired"]
    /\ RemoveLeaf(c)
    /\ operatorBalance' = operatorBalance + notes[c].amount
    /\ credited' = [credited EXCEPT ![c] = @ + notes[c].amount]
    /\ UNCHANGED <<now, exits, pausedTimeAtDeposit, balance, adminVars, pauseVars,
                   paidOut, age, startedAt>>

WithdrawOperatorBalance(sender) ==
    /\ sender = serverAddress
    /\ operatorBalance' = 0
    /\ Pay(serverAddress, operatorBalance)
    /\ UNCHANGED <<now, noteVars, treeVars, adminVars, pauseVars, histVars>>

-----------------------------------------------------------------------------
(* Administration, by the owner *)

(* Mutant: a new proposal inherits the delay the old one has served.       *)
ProposalEta_Kept(t) ==
    IF pendingChanges[t].eta # 0 THEN pendingChanges[t].eta ELSE now + AdminDelay

ProposalEta(t) == now + AdminDelay

(* proposeChange and proposeRefundKey: overwrites a pending change of the  *)
(* same target and restarts the delay.                                     *)
ProposeChange(t, value) ==
    /\ value \in (IF t = "RefundKey" THEN Keys ELSE Addresses)
    /\ Cardinality({u \in Target \ {t} : pendingChanges[u].eta # 0}) < MaxPending
    /\ pendingChanges' = [pendingChanges EXCEPT ![t] =
           [value |-> value, eta |-> ProposalEta(t)]]
    /\ proposedAt' = [proposedAt EXCEPT ![t] = now]
    /\ UNCHANGED <<now, noteVars, treeVars, moneyVars, serverAddress, serverPublicKey,
                   acceptedRefundKeys, settlementVerifier, pauseVars, histVars>>

(* What a landed change assigns: one of verifier, refund key, operator.    *)
ApplyChange(t, value) ==
    /\ settlementVerifier' = IF t = "SettlementVerifier" THEN value ELSE settlementVerifier
    /\ serverPublicKey' = IF t = "RefundKey" THEN value ELSE serverPublicKey
    /\ acceptedRefundKeys' =
           IF t = "RefundKey" THEN acceptedRefundKeys \cup {value} ELSE acceptedRefundKeys
    /\ serverAddress' = IF t = "ServerAddress" THEN value ELSE serverAddress

ExecuteChange(t) ==
    /\ pendingChanges[t].eta # 0
    /\ now >= pendingChanges[t].eta
    /\ pendingChanges' = [pendingChanges EXCEPT ![t] = [value |-> NoValue, eta |-> 0]]
    /\ proposedAt' = [proposedAt EXCEPT ![t] = 0]
    /\ ApplyChange(t, pendingChanges[t].value)
    /\ UNCHANGED <<now, noteVars, treeVars, moneyVars, pauseVars, histVars>>

CancelChange(t) ==
    /\ pendingChanges[t].eta # 0
    /\ pendingChanges' = [pendingChanges EXCEPT ![t] = [value |-> NoValue, eta |-> 0]]
    /\ proposedAt' = [proposedAt EXCEPT ![t] = 0]
    /\ UNCHANGED <<now, noteVars, treeVars, moneyVars, serverAddress, serverPublicKey,
                   acceptedRefundKeys, settlementVerifier, pauseVars, histVars>>

Pause ==
    /\ ~paused
    /\ paused' = TRUE
    /\ pausedAt' = now
    /\ UNCHANGED <<now, noteVars, treeVars, moneyVars, adminVars, histVars, totalPausedTime>>

(* Mutant: a new pause forgets the time spent in the earlier ones.         *)
Unpause_ForgetsEarlier ==
    /\ paused
    /\ paused' = FALSE
    /\ totalPausedTime' = now - pausedAt
    /\ pausedAt' = 0
    /\ UNCHANGED <<now, noteVars, treeVars, moneyVars, adminVars, histVars>>

Unpause ==
    /\ paused
    /\ paused' = FALSE
    /\ totalPausedTime' = totalPausedTime + now - pausedAt
    /\ pausedAt' = 0
    /\ UNCHANGED <<now, noteVars, treeVars, moneyVars, adminVars, histVars>>

-----------------------------------------------------------------------------
Next ==
    \/ Tick
    \/ \E c \in Commitments :
          \/ \E value \in 0..DepositLimit : Deposit(c, value)
          \/ \E recipient \in Addresses, key \in Keys, payout \in 0..DepositLimit :
                InitiateWithdrawal(c, recipient, key, payout)
          \/ FinalizeWithdrawal(c)
          \/ \E sender \in Addresses : Slash(c, sender)
          \/ \E sender \in Addresses : ClaimExpired(c, sender)
    \/ \E sender \in Addresses : WithdrawOperatorBalance(sender)
    \/ \E t \in Target, value \in Addresses \cup Keys : ProposeChange(t, value)
    \/ \E t \in Target : ExecuteChange(t)
    \/ \E t \in Target : CancelChange(t)
    \/ Pause
    \/ Unpause

Spec == Init /\ [][Next]_vars

(* Blocks keep coming, and somebody (the recipient has every reason to)    *)
(* finalizes an exit that is due.  Nothing is assumed of the owner, the    *)
(* operator or the slashers.                                               *)
FairSpec ==
    /\ Spec
    /\ WF_vars(Tick)
    /\ \A c \in Commitments : WF_vars(FinalizeWithdrawal(c))

-----------------------------------------------------------------------------
(* Properties *)

Roots == SUBSET (Nat \X Commitments)

NoteType == [amount : Nat, depositedAt : Nat, leafIndex : Nat, status : Status]

ExitType == [payout : Nat, recipient : Addresses \cup {NoValue}, exitAt : Nat]

ChangeType == [value : Addresses \cup Keys \cup {NoValue}, eta : Nat]

NoteTypes ==
    /\ notes \in [Commitments -> NoteType]
    /\ exits \in [Commitments -> ExitType]
    /\ pausedTimeAtDeposit \in [Commitments -> Nat]

TreeTypes ==
    /\ leaves \in Seq(Commitments \cup {EmptyLeaf})
    /\ currentRootIndex \in 0..RootHistorySize - 1
    /\ DOMAIN roots = 0..RootHistorySize - 1
    /\ \A i \in 0..RootHistorySize - 1 : roots[i] # NoRoot => roots[i] \in Roots
    /\ merkleRoot \in Roots
    /\ rootLog \in Seq(Roots)

AdminTypes ==
    /\ serverAddress \in Addresses
    /\ serverPublicKey \in Keys
    /\ acceptedRefundKeys \subseteq Keys
    /\ settlementVerifier \in Addresses \cup {NoValue}
    /\ pendingChanges \in [Target -> ChangeType]
    /\ proposedAt \in [Target -> Nat]

HistoryTypes ==
    /\ paidOut \in [Commitments -> Nat]
    /\ credited \in [Commitments -> Nat]
    /\ age \in [Commitments -> Nat]
    /\ startedAt \in [Commitments -> Nat]

(* Every variable holds a value of its Solidity type; in particular no     *)
(* uint256 subtraction of the contract (amount - payout, amount - bounty,  *)
(* the pause arithmetic) ever underflows and the ring index stays in range. *)
TypeOK ==
    /\ now \in Nat
    /\ NoteTypes
    /\ TreeTypes
    /\ operatorBalance \in Nat /\ balance \in Nat
    /\ AdminTypes
    /\ paused \in BOOLEAN /\ pausedAt \in Nat /\ totalPausedTime \in Nat
    /\ HistoryTypes

(* The contract holds exactly what it owes: the operator's balance plus    *)
(* the deposits of the notes that have not settled.  deposit,              *)
(* finalizeWithdrawal, slash, claimExpired and withdrawOperatorBalance     *)
(* each move two of these, so _pay never fails for lack of funds.          *)
PoolSolvency ==
    balance = operatorBalance
                + SumFunction([c \in Commitments |->
                      IF Live(notes[c].status) THEN notes[c].amount ELSE 0])

(* A note settles once and in full: while it is open nothing of its        *)
(* deposit has moved, and once it is final what was sent out and what the  *)
(* operator was credited add up to the deposit, whichever of finalize,     *)
(* slash and claimExpired won the race for it.                             *)
SettledInFull ==
    \A c \in Commitments :
        /\ paidOut[c] >= 0 /\ credited[c] >= 0
        /\ notes[c].status \in {"None", "Active", "Exiting"} => paidOut[c] + credited[c] = 0
        /\ notes[c].status \in {"Closed", "Slashed", "Expired"} =>
               paidOut[c] + credited[c] = notes[c].amount

(* The newest root commits to exactly the active notes, each at the leaf   *)
(* index the contract reports for it (getMerkleProof uses that index), so  *)
(* a note that is exiting, settled or slashed can prove nothing against it. *)
RootIsTheActiveNotes ==
    /\ merkleRoot = {<<notes[c].leafIndex + 1, c>> :
                         c \in {d \in Commitments : notes[d].status = "Active"}}
    /\ IsKnownRoot(merkleRoot)

(* isKnownRoot accepts the last RootHistorySize roots and no other: a      *)
(* client's proof survives exactly that many tree updates.                 *)
KnownRootsAreTheLatest ==
    {roots[i] : i \in 0..RootHistorySize - 1} \ {NoRoot}
        = {rootLog[i] : i \in {j \in 1..Len(rootLog) : j > Len(rootLog) - RootHistorySize}}

(* A note's remaining life shrinks by exactly the unpaused time that       *)
(* passes: whatever the owner pauses and unpauses, before or after the     *)
(* deposit, noteExpiry leaves NOTE_TTL unpaused seconds ("Pausing can      *)
(* therefore never bring a note's expiry closer").                         *)
ExpiryCountsUnpausedTime ==
    \A c \in Commitments :
        notes[c].status = "Active" => NoteExpiry(c) + age[c] = now + NoteTTL

(* A change lands only after every exit that started no later than         *)
(* AdminDelay - ChallengeWindow after its proposal could be finalized      *)
(* ("users can leave before a change they disagree with", "no admin change *)
(* can land during an exit started before it").                            *)
ExitsPrecedeChanges ==
    [][\A t \in Target, c \in Commitments :
          /\ ExecuteChange(t)
          /\ notes[c].status = "Exiting"
          /\ startedAt[c] <= proposedAt[t] + (AdminDelay - ChallengeWindow)
          => now >= exits[c].exitAt]_vars

(* An exit to an account that accepts ETH always ends, paid or slashed,    *)
(* whatever the owner pauses or changes ("an exit started before expiry    *)
(* always completes").                                                     *)
ExitsComplete ==
    \A c \in Commitments :
        notes[c].status = "Exiting" /\ exits[c].recipient \in Accepts
            ~> notes[c].status \in {"Closed", "Slashed"}

(* The refinement mapping onto NoteEscrow                                  *)
Phase(status) ==
    CASE status = "None"    -> "unused"
      [] status = "Active"  -> "open"
      [] status = "Exiting" -> "leaving"
      [] OTHER              -> "settled"

Escrow == INSTANCE NoteEscrow WITH
    Amounts <- CMax..DepositLimit - 1,
    phase  <- [c \in Commitments |-> Phase(notes[c].status)],
    escrow <- [c \in Commitments |->
                  IF Live(notes[c].status) THEN notes[c].amount ELSE 0],
    sent   <- paidOut,
    pot    <- operatorBalance

(* The contract implements the escrow it promises: each note's deposit is  *)
(* settled once, out of its own money, and a note whose exit has started   *)
(* is beyond claimExpired.                                                 *)
ImplementsEscrow == Escrow!Spec
=============================================================================
