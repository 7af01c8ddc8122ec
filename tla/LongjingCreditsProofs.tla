----------------------- MODULE LongjingCreditsProofs -----------------------
(***************************************************************************)
(* Proofs about the settlement contract, for any number of notes, accounts *)
(* and keys, any amounts, any tree size and any run of the clock.          *)
(***************************************************************************)
EXTENDS LongjingCredits, TLAPS, SequenceTheorems

-----------------------------------------------------------------------------
(* What TypeOK needs to be inductive *)

(* initiateWithdrawal took no payout above the deposit, so amount - payout *)
(* in finalizeWithdrawal does not underflow.                               *)
PayoutBounded ==
    \A c \in Commitments :
        notes[c].status = "Exiting" => exits[c].payout <= notes[c].amount

(* A pause has started, so block.timestamp - pausedAt does not underflow.  *)
PauseStarted == paused => pausedAt <= now

(* A note that exists has a leaf: _removeLeaf rewrites one that is there.  *)
LeafPlaced ==
    \A c \in Commitments :
        notes[c].status # "None" => notes[c].leafIndex < Len(leaves)

(* A pending change carries a value of its target's kind.                  *)
ChangeTyped ==
    \A t \in Target :
        pendingChanges[t].eta # 0 =>
            pendingChanges[t].value \in (IF t = "RefundKey" THEN Keys ELSE Addresses)

TypeInv == TypeOK /\ PayoutBounded /\ PauseStarted /\ LeafPlaced /\ ChangeTyped

-----------------------------------------------------------------------------
(* A root commits to positions and commitments.                            *)
LEMMA RootOfType ==
    ASSUME NEW ls \in Seq(Commitments \cup {EmptyLeaf})
    PROVE  RootOf(ls) \in Roots
BY DEF RootOf, Roots

(* _updateLeaf and _pushRoot keep the tree variables typed.                *)
LEMMA UpdateLeafType ==
    ASSUME TreeTypes, NEW ls \in Seq(Commitments \cup {EmptyLeaf}), UpdateLeaf(ls)
    PROVE  TreeTypes'
<1>1. RootOf(ls) \in Roots
  BY RootOfType
<1>2. (currentRootIndex + 1) % RootHistorySize \in 0..RootHistorySize - 1
  BY ConstantsAssumption DEF TreeTypes
<1>3. QED
  BY <1>1, <1>2, ConstantsAssumption DEF TreeTypes, UpdateLeaf

(* _removeLeaf is such an update, and keeps the number of leaves.          *)
LEMMA RemoveLeafType ==
    ASSUME TypeInv, NEW c \in Commitments, notes[c].status # "None", RemoveLeaf(c)
    PROVE  TreeTypes' /\ Len(leaves') = Len(leaves)
<1> DEFINE ls == [leaves EXCEPT ![notes[c].leafIndex + 1] = EmptyLeaf]
<1>1. leaves \in Seq(Commitments \cup {EmptyLeaf}) /\ TreeTypes
  BY DEF TypeInv, TypeOK, TreeTypes
<1>2. notes[c].leafIndex + 1 \in 1..Len(leaves)
  BY <1>1, LenProperties DEF TypeInv, TypeOK, NoteTypes, NoteType, LeafPlaced
<1>3. ls \in Seq(Commitments \cup {EmptyLeaf}) /\ Len(ls) = Len(leaves)
  BY <1>1, <1>2, ExceptSeq
<1>4. UpdateLeaf(ls)
  BY DEF RemoveLeaf
<1>5. leaves' = ls
  BY <1>4 DEF UpdateLeaf
<1> HIDE DEF ls
<1>6. QED
  BY <1>1, <1>3, <1>4, <1>5, UpdateLeafType

(* The time spent paused is a natural number.                              *)
LEMMA PausedTimeType ==
    ASSUME TypeInv
    PROVE  PausedTime \in Nat
BY DEF TypeInv, TypeOK, PauseStarted, PausedTime

(* The bounty is part of the deposit.                                      *)
LEMMA BountyType ==
    ASSUME NEW amount \in Nat
    PROVE  Bounty(amount) \in 0..amount
BY ConstantsAssumption DEF Bounty

-----------------------------------------------------------------------------
(* The initial state satisfies the type invariant.                         *)
LEMMA TypeInit == Init => TypeInv
<1> SUFFICES ASSUME Init PROVE TypeInv
  OBVIOUS
<1>1. << >> \in Seq(Commitments \cup {EmptyLeaf})
  OBVIOUS
<1>2. RootOf(<< >>) \in Roots
  BY <1>1, RootOfType
<1>3. <<RootOf(<< >>)>> \in Seq(Roots)
  BY <1>2
<1>4. NoteTypes
  BY DEF Init, NoteTypes, NoteType, ExitType, Status
<1>5. TreeTypes
  BY <1>1, <1>2, <1>3, ConstantsAssumption DEF Init, TreeTypes
<1>6. AdminTypes
  BY ValuesAssumption DEF Init, AdminTypes, ChangeType
<1>7. HistoryTypes
  BY DEF Init, HistoryTypes
<1>8. PayoutBounded /\ PauseStarted /\ LeafPlaced /\ ChangeTyped
  BY DEF Init, PayoutBounded, PauseStarted, LeafPlaced, ChangeTyped
<1>9. QED
  BY <1>4, <1>5, <1>6, <1>7, <1>8 DEF Init, TypeInv, TypeOK

(* A step of any operation preserves it.                                   *)
LEMMA TypeStep == TypeInv /\ [Next]_vars => TypeInv'
<1> SUFFICES ASSUME TypeInv, [Next]_vars PROVE TypeInv'
  OBVIOUS
<1> USE DEF TypeInv, PayoutBounded, PauseStarted, LeafPlaced, ChangeTyped, TypeOK
<1>1. CASE Tick
  BY <1>1 DEF Tick, NoteTypes, TreeTypes, AdminTypes, HistoryTypes,
              noteVars, treeVars, moneyVars, adminVars, pauseVars
<1>2. ASSUME NEW c \in Commitments, NEW value \in 0..DepositLimit, Deposit(c, value)
      PROVE  TypeInv'
  <2>1. /\ Append(leaves, c) \in Seq(Commitments \cup {EmptyLeaf})
        /\ Len(Append(leaves, c)) = Len(leaves) + 1
        /\ Len(leaves) \in Nat
    BY DEF TreeTypes
  <2>2. UpdateLeaf(Append(leaves, c)) /\ leaves' = Append(leaves, c)
    BY <1>2 DEF Deposit, UpdateLeaf
  <2>3. NoteTypes'
    BY <1>2, <2>1, PausedTimeType, ConstantsAssumption
       DEF Deposit, NoteTypes, NoteType, Status
  <2>4. TreeTypes'
    BY <2>1, <2>2, UpdateLeafType
  <2>5. AdminTypes' /\ HistoryTypes'
    BY <1>2 DEF Deposit, AdminTypes, HistoryTypes, adminVars, histVars
  <2>6. LeafPlaced' /\ PayoutBounded' /\ PauseStarted'
    BY <1>2, <2>1, <2>2 DEF Deposit, NoteTypes, NoteType, pauseVars
  <2>7. ChangeTyped'
    BY <1>2 DEF Deposit, adminVars
  <2>8. QED
    BY <1>2, <2>7, <2>3, <2>4, <2>5, <2>6, ConstantsAssumption DEF Deposit, pauseVars
<1>3. ASSUME NEW c \in Commitments, NEW recipient \in Addresses, NEW key \in Keys,
             NEW payout \in 0..DepositLimit,
             InitiateWithdrawal(c, recipient, key, payout)
      PROVE  TypeInv'
  <2>1. TreeTypes' /\ Len(leaves') = Len(leaves)
    BY <1>3, RemoveLeafType DEF InitiateWithdrawal
  <2>2. NoteTypes'
    <3>1. notes' \in [Commitments -> NoteType]
      BY <1>3 DEF InitiateWithdrawal, NoteTypes, NoteType, Status
    <3>2. [payout |-> payout, recipient |-> recipient,
           exitAt |-> now + ChallengeWindow] \in ExitType
      BY ConstantsAssumption DEF ExitType
    <3>3. exits' \in [Commitments -> ExitType]
      BY <1>3, <3>2 DEF InitiateWithdrawal, NoteTypes
    <3>4. QED
      BY <1>3, <3>1, <3>3 DEF InitiateWithdrawal, NoteTypes
  <2>3. AdminTypes' /\ ChangeTyped' /\ HistoryTypes'
    BY <1>3 DEF InitiateWithdrawal, AdminTypes, HistoryTypes, adminVars
  <2>4. PayoutBounded' /\ LeafPlaced'
    BY <1>3, <2>1 DEF InitiateWithdrawal, NoteTypes, NoteType, ExitType
  <2>5. QED
    BY <1>3, <2>1, <2>2, <2>3, <2>4 DEF InitiateWithdrawal, moneyVars, pauseVars
<1>4. ASSUME NEW c \in Commitments, FinalizeWithdrawal(c)
      PROVE  TypeInv'
  <2>1. /\ notes[c].amount \in Nat /\ exits[c].payout \in Nat
        /\ exits[c].payout <= notes[c].amount
    BY <1>4 DEF FinalizeWithdrawal, NoteTypes, NoteType, ExitType
  <2>2. NoteTypes' /\ PayoutBounded' /\ LeafPlaced'
    BY <1>4 DEF FinalizeWithdrawal, NoteTypes, NoteType, Status, treeVars
  <2>3. HistoryTypes'
    <3>1. /\ paidOut[c] + exits[c].payout \in Nat
          /\ credited[c] + notes[c].amount - exits[c].payout \in Nat
      BY <2>1 DEF HistoryTypes
    <3>2. QED
      BY <1>4, <3>1 DEF FinalizeWithdrawal, HistoryTypes
  <2>4. operatorBalance' \in Nat /\ balance' \in Nat
    BY <1>4, <2>1 DEF FinalizeWithdrawal, Pay
  <2>5. TreeTypes' /\ AdminTypes' /\ ChangeTyped'
    BY <1>4 DEF FinalizeWithdrawal, TreeTypes, AdminTypes, treeVars, adminVars
  <2>6. QED
    BY <1>4, <2>2, <2>3, <2>4, <2>5 DEF FinalizeWithdrawal, pauseVars
<1>5. ASSUME NEW c \in Commitments, NEW sender \in Addresses, Slash(c, sender)
      PROVE  TypeInv'
  <2>1. notes[c].amount \in Nat /\ Bounty(notes[c].amount) \in 0..notes[c].amount
    BY BountyType DEF NoteTypes, NoteType
  <2>2. TreeTypes' /\ Len(leaves') = Len(leaves)
    <3>1. CASE notes[c].status = "Active" /\ RemoveLeaf(c)
      BY <3>1, RemoveLeafType
    <3>2. CASE UNCHANGED treeVars
      BY <3>2 DEF treeVars, TreeTypes
    <3>3. QED
      BY <1>5, <3>1, <3>2 DEF Slash
  <2>3. notes[c].status \in {"Active", "Exiting"}
    BY <1>5 DEF Slash
  <2>4. NoteTypes' /\ PayoutBounded' /\ LeafPlaced'
    BY <1>5, <2>2, <2>3 DEF Slash, NoteTypes, NoteType, Status
  <2>5. HistoryTypes'
    <3>1. /\ paidOut[c] + Bounty(notes[c].amount) \in Nat
          /\ credited[c] + notes[c].amount - Bounty(notes[c].amount) \in Nat
      BY <2>1 DEF HistoryTypes
    <3>2. QED
      BY <1>5, <3>1 DEF Slash, HistoryTypes
  <2>6. operatorBalance' \in Nat /\ balance' \in Nat
    BY <1>5, <2>1 DEF Slash, Pay
  <2>7. AdminTypes' /\ ChangeTyped'
    BY <1>5 DEF Slash, AdminTypes, adminVars
  <2>8. QED
    BY <1>5, <2>2, <2>4, <2>5, <2>6, <2>7 DEF Slash, pauseVars
<1>6. ASSUME NEW c \in Commitments, NEW sender \in Addresses, ClaimExpired(c, sender)
      PROVE  TypeInv'
  <2>1. TreeTypes' /\ Len(leaves') = Len(leaves)
    BY <1>6, RemoveLeafType DEF ClaimExpired
  <2>2. NoteTypes' /\ PayoutBounded' /\ LeafPlaced'
    BY <1>6, <2>1 DEF ClaimExpired, NoteTypes, NoteType, Status
  <2>3. HistoryTypes' /\ operatorBalance' \in Nat /\ balance' \in Nat
    <3>1. credited[c] + notes[c].amount \in Nat /\ notes[c].amount \in Nat
      BY DEF HistoryTypes, NoteTypes, NoteType
    <3>2. credited' \in [Commitments -> Nat]
      BY <1>6, <3>1 DEF ClaimExpired, HistoryTypes
    <3>3. operatorBalance' \in Nat
      BY <1>6, <3>1 DEF ClaimExpired
    <3>4. QED
      BY <1>6, <3>2, <3>3 DEF ClaimExpired, HistoryTypes
  <2>4. AdminTypes' /\ ChangeTyped'
    BY <1>6 DEF ClaimExpired, AdminTypes, adminVars
  <2>5. QED
    BY <1>6, <2>1, <2>2, <2>3, <2>4 DEF ClaimExpired, pauseVars
<1>7. ASSUME NEW sender \in Addresses, WithdrawOperatorBalance(sender)
      PROVE  TypeInv'
  BY <1>7 DEF WithdrawOperatorBalance, Pay, NoteTypes, TreeTypes, AdminTypes, HistoryTypes,
              noteVars, treeVars, adminVars, pauseVars, histVars
<1>8. ASSUME NEW t \in Target, NEW value \in Addresses \cup Keys, ProposeChange(t, value)
      PROVE  TypeInv'
  <2>1. AdminTypes' /\ ChangeTyped'
    BY <1>8, ConstantsAssumption DEF ProposeChange, ProposalEta, AdminTypes, ChangeType
  <2>2. QED
    BY <1>8, <2>1 DEF ProposeChange, NoteTypes, TreeTypes, HistoryTypes,
                      noteVars, treeVars, moneyVars, pauseVars, histVars
<1>9. ASSUME NEW t \in Target, ExecuteChange(t)
      PROVE  TypeInv'
  <2>1. pendingChanges' \in [Target -> ChangeType] /\ proposedAt' \in [Target -> Nat]
    BY <1>9 DEF ExecuteChange, AdminTypes, ChangeType
  <2>2. ChangeTyped'
    BY <1>9 DEF ExecuteChange, AdminTypes, ChangeType
  <2>3. /\ settlementVerifier' \in Addresses \cup {NoValue}
        /\ serverPublicKey' \in Keys
        /\ acceptedRefundKeys' \subseteq Keys
        /\ serverAddress' \in Addresses
    BY <1>9 DEF ExecuteChange, ApplyChange, AdminTypes, Target
  <2>4. AdminTypes'
    BY <2>1, <2>3 DEF AdminTypes
  <2>5. QED
    BY <1>9, <2>2, <2>4 DEF ExecuteChange, NoteTypes, TreeTypes, HistoryTypes,
                      noteVars, treeVars, moneyVars, pauseVars, histVars
<1>10. ASSUME NEW t \in Target, CancelChange(t)
       PROVE  TypeInv'
  BY <1>10 DEF CancelChange, NoteTypes, TreeTypes, AdminTypes, ChangeType, HistoryTypes,
               noteVars, treeVars, moneyVars, pauseVars, histVars
<1>11. CASE Pause
  BY <1>11 DEF Pause, NoteTypes, TreeTypes, AdminTypes, HistoryTypes,
               noteVars, treeVars, moneyVars, adminVars, histVars
<1>12. CASE Unpause
  <2>1. totalPausedTime' \in Nat /\ pausedAt' \in Nat
    BY <1>12 DEF Unpause
  <2>2. QED
    BY <1>12, <2>1 DEF Unpause, NoteTypes, TreeTypes, AdminTypes, HistoryTypes,
                       noteVars, treeVars, moneyVars, adminVars, histVars
<1>13. CASE UNCHANGED vars
  BY <1>13 DEF vars, NoteTypes, TreeTypes, AdminTypes, HistoryTypes,
               noteVars, treeVars, moneyVars, adminVars, pauseVars, histVars
<1>14. QED
  BY <1>1, <1>2, <1>3, <1>4, <1>5, <1>6, <1>7, <1>8, <1>9, <1>10, <1>11, <1>12, <1>13
     DEF Next

(* Every variable keeps its Solidity type: no subtraction of the contract  *)
(* underflows, and the ring index stays in range.                          *)
THEOREM TypeSafety == Spec => []TypeOK
<1>1. Spec => []TypeInv
  BY TypeInit, TypeStep, PTL DEF Spec
<1>2. TypeInv => TypeOK
  BY DEF TypeInv
<1>3. QED
  BY <1>1, <1>2, PTL

-----------------------------------------------------------------------------
(* Settlement *)

(* A step of any operation keeps every note settled at most once and in    *)
(* full: only finalize, slash and claimExpired move a note's money, each   *)
(* out of a status in which none of it had moved.                          *)
LEMMA SettledStep == TypeInv /\ SettledInFull /\ [Next]_vars => SettledInFull'
<1> SUFFICES ASSUME TypeInv, SettledInFull, [Next]_vars PROVE SettledInFull'
  OBVIOUS
<1> USE DEF SettledInFull
<1>t. /\ \A c \in Commitments : notes[c].amount \in Nat /\ notes[c].status \in Status
      /\ \A c \in Commitments : exits[c].payout \in Nat
      /\ \A c \in Commitments : paidOut[c] \in Nat /\ credited[c] \in Nat
      /\ notes \in [Commitments -> NoteType]
      /\ paidOut \in [Commitments -> Nat] /\ credited \in [Commitments -> Nat]
  BY DEF TypeInv, TypeOK, NoteTypes, HistoryTypes, NoteType, ExitType
<1>2. ASSUME NEW c \in Commitments, NEW value \in 0..DepositLimit, Deposit(c, value)
      PROVE  SettledInFull'
  BY <1>2, <1>t DEF Deposit, histVars
<1>3. ASSUME NEW c \in Commitments, NEW recipient \in Addresses, NEW key \in Keys,
             NEW payout \in 0..DepositLimit,
             InitiateWithdrawal(c, recipient, key, payout)
      PROVE  SettledInFull'
  BY <1>3, <1>t DEF InitiateWithdrawal, NoteType
<1>4. ASSUME NEW c \in Commitments, FinalizeWithdrawal(c)
      PROVE  SettledInFull'
  <2>1. exits[c].payout <= notes[c].amount
    BY <1>4 DEF FinalizeWithdrawal, TypeInv, PayoutBounded
  <2>2. QED
    BY <1>4, <1>t, <2>1 DEF FinalizeWithdrawal, NoteType
<1>5. ASSUME NEW c \in Commitments, NEW sender \in Addresses, Slash(c, sender)
      PROVE  SettledInFull'
  <2>1. Bounty(notes[c].amount) \in 0..notes[c].amount
    BY <1>t, BountyType
  <2>2. notes[c].status \in {"Active", "Exiting"}
    BY <1>5 DEF Slash
  <2>3. /\ notes' = [notes EXCEPT ![c].status = "Slashed"]
        /\ paidOut' = [paidOut EXCEPT ![c] = @ + Bounty(notes[c].amount)]
        /\ credited' = [credited EXCEPT ![c] = @ + notes[c].amount - Bounty(notes[c].amount)]
    BY <1>5 DEF Slash
  <2>4. QED
    BY <1>t, <2>1, <2>2, <2>3 DEF NoteType
<1>6. ASSUME NEW c \in Commitments, NEW sender \in Addresses, ClaimExpired(c, sender)
      PROVE  SettledInFull'
  BY <1>6, <1>t DEF ClaimExpired, NoteType
<1>7. CASE UNCHANGED <<notes, paidOut, credited>>
  BY <1>7
<1>8. QED
  BY <1>2, <1>3, <1>4, <1>5, <1>6, <1>7
     DEF Next, Tick, WithdrawOperatorBalance, ProposeChange, ExecuteChange, CancelChange,
         Pause, Unpause, vars, noteVars, histVars

(* A note settles once and in full, whichever of finalizeWithdrawal, slash *)
(* and claimExpired gets it.                                               *)
THEOREM SettlementIsComplete == Spec => []SettledInFull
<1>1. Init => SettledInFull
  BY DEF Init, SettledInFull
<1>2. QED
  BY <1>1, TypeInit, TypeStep, SettledStep, PTL DEF Spec

-----------------------------------------------------------------------------
(* Expiry *)

(* A note's clock starts at its deposit.                                   *)
FreshAge == \A c \in Commitments : notes[c].status = "None" => age[c] = 0

ExpiryInv == ExpiryCountsUnpausedTime /\ FreshAge

(* A step of any operation leaves an active note the same unpaused time.   *)
LEMMA ExpiryStep == TypeInv /\ ExpiryInv /\ [Next]_vars => ExpiryInv'
<1> SUFFICES ASSUME TypeInv, ExpiryInv, [Next]_vars PROVE ExpiryInv'
  OBVIOUS
<1> USE DEF ExpiryInv, ExpiryCountsUnpausedTime, FreshAge, NoteExpiry
<1>t. /\ now \in Nat /\ pausedAt \in Nat /\ totalPausedTime \in Nat /\ NoteTTL \in Nat
      /\ PausedTime \in Nat
      /\ notes \in [Commitments -> NoteType]
      /\ age \in [Commitments -> Nat]
      /\ pausedTimeAtDeposit \in [Commitments -> Nat]
      /\ \A c \in Commitments : notes[c].depositedAt \in Nat
  BY PausedTimeType, ConstantsAssumption
     DEF TypeInv, TypeOK, NoteTypes, HistoryTypes, NoteType
<1>1. CASE Tick
  <2>1. PausedTime' = IF paused THEN PausedTime + 1 ELSE PausedTime
    BY <1>1, <1>t DEF Tick, PausedTime, pauseVars
  <2>2. \A c \in Commitments :
           age'[c] = IF notes[c].status = "Active" /\ ~paused THEN age[c] + 1 ELSE age[c]
    BY <1>1 DEF Tick
  <2>3. UNCHANGED <<notes, pausedTimeAtDeposit>> /\ now' = now + 1
    BY <1>1 DEF Tick, noteVars
  <2>4. QED
    BY <1>t, <2>1, <2>2, <2>3
<1>2. ASSUME NEW c \in Commitments, NEW value \in 0..DepositLimit, Deposit(c, value)
      PROVE  ExpiryInv'
  <2>1. PausedTime' = PausedTime
    BY <1>2 DEF Deposit, PausedTime, pauseVars
  <2>2. QED
    BY <1>2, <1>t, <2>1 DEF Deposit, histVars
<1>3. ASSUME NEW c \in Commitments, NEW new \in Status \ {"None", "Active"},
             notes' = [notes EXCEPT ![c].status = new],
             UNCHANGED <<now, pausedTimeAtDeposit, pauseVars, age>>
      PROVE  ExpiryInv'
  <2>1. PausedTime' = PausedTime
    BY <1>3 DEF PausedTime, pauseVars
  <2>2. QED
    BY <1>3, <1>t, <2>1 DEF NoteType
<1>4. CASE Pause \/ Unpause
  <2>1. PausedTime' = PausedTime
    BY <1>4, <1>t DEF Pause, Unpause, PausedTime
  <2>2. QED
    BY <1>4, <2>1 DEF Pause, Unpause, noteVars, histVars
<1>5. CASE UNCHANGED <<now, noteVars, pauseVars, age>>
  <2>1. PausedTime' = PausedTime
    BY <1>5 DEF PausedTime, pauseVars
  <2>2. QED
    BY <1>5, <2>1 DEF noteVars
<1>6. ASSUME NEW c \in Commitments, NEW recipient \in Addresses, NEW key \in Keys,
             NEW payout \in 0..DepositLimit,
             InitiateWithdrawal(c, recipient, key, payout)
      PROVE  ExpiryInv'
  BY <1>6, <1>3 DEF InitiateWithdrawal, Status
<1>7. ASSUME NEW c \in Commitments, FinalizeWithdrawal(c)
      PROVE  ExpiryInv'
  BY <1>7, <1>3 DEF FinalizeWithdrawal, Status
<1>8. ASSUME NEW c \in Commitments, NEW sender \in Addresses,
             Slash(c, sender) \/ ClaimExpired(c, sender)
      PROVE  ExpiryInv'
  BY <1>8, <1>3 DEF Slash, ClaimExpired, Status
<1>9. QED
  BY <1>1, <1>2, <1>4, <1>5, <1>6, <1>7, <1>8
     DEF Next, WithdrawOperatorBalance, ProposeChange, ExecuteChange, CancelChange,
         vars, histVars

(* noteExpiry leaves every note NOTE_TTL of unpaused time, however the     *)
(* owner pauses and unpauses.                                              *)
THEOREM ExpiryIsFair == Spec => []ExpiryCountsUnpausedTime
<1>1. Init => ExpiryInv
  BY DEF Init, ExpiryInv, ExpiryCountsUnpausedTime, FreshAge
<1>2. ExpiryInv => ExpiryCountsUnpausedTime
  BY DEF ExpiryInv
<1>3. QED
  BY <1>1, <1>2, TypeInit, TypeStep, ExpiryStep, PTL DEF Spec

-----------------------------------------------------------------------------
(* The admin delay *)

(* A pending change has served its own delay when it is due, and an exit   *)
(* can be finalized ChallengeWindow after it started.                      *)
DelayInv ==
    /\ \A t \in Target :
          pendingChanges[t].eta # 0 => pendingChanges[t].eta = proposedAt[t] + AdminDelay
    /\ \A c \in Commitments :
          notes[c].status = "Exiting" => exits[c].exitAt = startedAt[c] + ChallengeWindow

(* A step of any operation keeps both times.                               *)
LEMMA DelayStep == TypeInv /\ DelayInv /\ [Next]_vars => DelayInv'
<1> SUFFICES ASSUME TypeInv, DelayInv, [Next]_vars PROVE DelayInv'
  OBVIOUS
<1> USE DEF DelayInv
<1>t. /\ notes \in [Commitments -> NoteType]
      /\ exits \in [Commitments -> ExitType]
      /\ startedAt \in [Commitments -> Nat]
      /\ pendingChanges \in [Target -> ChangeType]
      /\ proposedAt \in [Target -> Nat]
  BY DEF TypeInv, TypeOK, NoteTypes, AdminTypes, HistoryTypes
<1>1. ASSUME NEW c \in Commitments, NEW value \in 0..DepositLimit, Deposit(c, value)
      PROVE  DelayInv'
  BY <1>1, <1>t DEF Deposit, adminVars, histVars
<1>2. ASSUME NEW c \in Commitments, NEW recipient \in Addresses, NEW key \in Keys,
             NEW payout \in 0..DepositLimit,
             InitiateWithdrawal(c, recipient, key, payout)
      PROVE  DelayInv'
  BY <1>2, <1>t DEF InitiateWithdrawal, NoteType, adminVars
<1>3. ASSUME NEW c \in Commitments, FinalizeWithdrawal(c)
      PROVE  DelayInv'
  BY <1>3, <1>t DEF FinalizeWithdrawal, NoteType, adminVars
<1>4. ASSUME NEW c \in Commitments, NEW sender \in Addresses, Slash(c, sender)
      PROVE  DelayInv'
  BY <1>4, <1>t DEF Slash, NoteType, adminVars
<1>5. ASSUME NEW c \in Commitments, NEW sender \in Addresses, ClaimExpired(c, sender)
      PROVE  DelayInv'
  BY <1>5, <1>t DEF ClaimExpired, NoteType, adminVars
<1>6. ASSUME NEW t \in Target, NEW value \in Addresses \cup Keys, ProposeChange(t, value)
      PROVE  DelayInv'
  BY <1>6, <1>t DEF ProposeChange, ProposalEta, noteVars, histVars
<1>7. ASSUME NEW t \in Target, ExecuteChange(t) \/ CancelChange(t)
      PROVE  DelayInv'
  BY <1>7, <1>t DEF ExecuteChange, CancelChange, noteVars, histVars
<1>8. CASE UNCHANGED <<notes, exits, startedAt, pendingChanges, proposedAt>>
  BY <1>8
<1>9. QED
  BY <1>1, <1>2, <1>3, <1>4, <1>5, <1>6, <1>7, <1>8
     DEF Next, Tick, WithdrawOperatorBalance, Pause, Unpause, vars, noteVars, adminVars, histVars

(* No change of verifier, refund key or operator lands before an exit that *)
(* was started in time can be finalized.                                   *)
THEOREM ChangesWaitForExits == Spec => ExitsPrecedeChanges
<1>1. Init => DelayInv
  BY DEF Init, DelayInv
<1>2. TypeInv /\ DelayInv /\ [Next]_vars =>
        [\A t \in Target, c \in Commitments :
            /\ ExecuteChange(t)
            /\ notes[c].status = "Exiting"
            /\ startedAt[c] <= proposedAt[t] + (AdminDelay - ChallengeWindow)
            => now >= exits[c].exitAt]_vars
  BY ConstantsAssumption
     DEF TypeInv, TypeOK, AdminTypes, HistoryTypes, DelayInv, ExecuteChange
<1>3. QED
  BY <1>1, <1>2, TypeInit, TypeStep, DelayStep, PTL DEF Spec, ExitsPrecedeChanges
=============================================================================
