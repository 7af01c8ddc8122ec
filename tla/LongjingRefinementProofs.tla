---------------------- MODULE LongjingRefinementProofs ----------------------
(***************************************************************************)
(* The contract as a whole, for any number of notes: its newest root names *)
(* the active notes and its ring the latest roots, it implements the       *)
(* escrow of NoteEscrow.tla, and it holds exactly what it owes.            *)
(***************************************************************************)
EXTENDS LongjingCreditsProofs, FiniteSetTheorems, WellFoundedInduction

-----------------------------------------------------------------------------
(* The tree *)

(* A leaf that is not empty is the leaf of an active note, at its index;   *)
(* every active note has its leaf; and the newest root, held in the ring,  *)
(* is the root of the leaves.                                              *)
LeavesAreNotes ==
    \A i \in 1..Len(leaves) :
        leaves[i] # EmptyLeaf =>
            /\ leaves[i] \in Commitments
            /\ notes[leaves[i]].status = "Active"
            /\ notes[leaves[i]].leafIndex + 1 = i

NotesHaveLeaves ==
    \A c \in Commitments :
        notes[c].status = "Active" =>
            /\ notes[c].leafIndex + 1 \in 1..Len(leaves)
            /\ leaves[notes[c].leafIndex + 1] = c

RootIsCurrent ==
    /\ Len(leaves) <= MaxLeaves
    /\ merkleRoot = RootOf(leaves)
    /\ roots[currentRootIndex] = merkleRoot

TreeInv == LeavesAreNotes /\ NotesHaveLeaves /\ RootIsCurrent

(* What _updateLeaf makes of the tree variables.                           *)
LEMMA UpdateLeafRoot ==
    ASSUME TypeInv, NEW ls, UpdateLeaf(ls), Len(ls) <= MaxLeaves
    PROVE  leaves' = ls /\ RootIsCurrent'
<1>1. (currentRootIndex + 1) % RootHistorySize \in 0..RootHistorySize - 1
  BY ConstantsAssumption DEF TypeInv, TypeOK, TreeTypes
<1>2. DOMAIN roots = 0..RootHistorySize - 1
  BY DEF TypeInv, TypeOK, TreeTypes
<1>3. leaves' = ls /\ merkleRoot' = RootOf(ls)
  BY DEF UpdateLeaf
<1>4. RootOf(ls) = RootOf(leaves)'
  BY <1>3 DEF RootOf
<1>5. roots'[currentRootIndex'] = RootOf(ls)
  BY <1>1, <1>2 DEF UpdateLeaf
<1>6. QED
  BY <1>3, <1>4, <1>5 DEF RootIsCurrent

(* _removeLeaf empties the leaf of a note that stops being active.         *)
LEMMA RemoveLeafTree ==
    ASSUME TypeInv, TreeInv, NEW c \in Commitments, notes[c].status = "Active",
           NEW s \in Status \ {"Active"}, notes' = [notes EXCEPT ![c].status = s],
           RemoveLeaf(c)
    PROVE  TreeInv'
<1> DEFINE at == notes[c].leafIndex + 1
           ls == [leaves EXCEPT ![at] = EmptyLeaf]
<1>1. /\ notes \in [Commitments -> NoteType]
      /\ leaves \in Seq(Commitments \cup {EmptyLeaf})
  BY DEF TypeInv, TypeOK, NoteTypes, TreeTypes
<1>2. at \in 1..Len(leaves) /\ leaves[at] = c
  BY DEF TreeInv, NotesHaveLeaves
<1>3. /\ Len(ls) = Len(leaves) /\ ls[at] = EmptyLeaf
      /\ \A i \in 1..Len(leaves) : i # at => ls[i] = leaves[i]
  BY <1>1, <1>2
<1>4. leaves' = ls /\ RootIsCurrent'
  BY <1>3, UpdateLeafRoot DEF RemoveLeaf, TreeInv, RootIsCurrent
<1>5. /\ notes'[c].status = s /\ notes'[c].leafIndex = notes[c].leafIndex
      /\ \A d \in Commitments : d # c => notes'[d] = notes[d]
  BY <1>1 DEF NoteType
<1>6. LeavesAreNotes'
  <2> SUFFICES ASSUME NEW i \in 1..Len(ls), ls[i] # EmptyLeaf
               PROVE  /\ ls[i] \in Commitments
                      /\ notes'[ls[i]].status = "Active"
                      /\ notes'[ls[i]].leafIndex + 1 = i
    BY <1>4 DEF LeavesAreNotes
  <2>1. i # at /\ ls[i] = leaves[i] /\ i \in 1..Len(leaves)
    BY <1>3
  <2>2. /\ leaves[i] \in Commitments
        /\ notes[leaves[i]].status = "Active"
        /\ notes[leaves[i]].leafIndex + 1 = i
    BY <2>1 DEF TreeInv, LeavesAreNotes
  <2>3. leaves[i] # c
    BY <2>1, <2>2
  <2>4. QED
    BY <2>1, <2>2, <2>3, <1>5
<1>7. NotesHaveLeaves'
  <2> SUFFICES ASSUME NEW d \in Commitments, notes'[d].status = "Active"
               PROVE  /\ notes'[d].leafIndex + 1 \in 1..Len(ls)
                      /\ ls[notes'[d].leafIndex + 1] = d
    BY <1>4 DEF NotesHaveLeaves
  <2>1. d # c /\ notes'[d] = notes[d]
    BY <1>5
  <2>2. notes[d].leafIndex + 1 \in 1..Len(leaves) /\ leaves[notes[d].leafIndex + 1] = d
    BY <2>1 DEF TreeInv, NotesHaveLeaves
  <2>3. notes[d].leafIndex + 1 # at
    BY <2>1, <2>2, <1>2
  <2>4. QED
    BY <2>1, <2>2, <2>3, <1>3
<1>8. QED
  BY <1>4, <1>6, <1>7 DEF TreeInv

(* deposit appends the leaf of a note that had none.                       *)
LEMMA DepositTree ==
    ASSUME TypeInv, TreeInv, NEW c \in Commitments, NEW value \in 0..DepositLimit,
           Deposit(c, value)
    PROVE  TreeInv'
<1> DEFINE ls == Append(leaves, c)
<1>1. /\ notes \in [Commitments -> NoteType]
      /\ leaves \in Seq(Commitments \cup {EmptyLeaf})
  BY DEF TypeInv, TypeOK, NoteTypes, TreeTypes
<1>2. /\ Len(ls) = Len(leaves) + 1 /\ ls[Len(leaves) + 1] = c
      /\ \A i \in 1..Len(leaves) : ls[i] = leaves[i]
  BY <1>1
<1>3. Len(leaves) \in Nat /\ Len(ls) <= MaxLeaves
  BY <1>1, <1>2, ConstantsAssumption DEF Deposit, TreeInv, RootIsCurrent
<1>4. leaves' = ls /\ RootIsCurrent'
  BY <1>3, UpdateLeafRoot DEF Deposit
<1>5. /\ notes[c].status = "None"
      /\ notes'[c].status = "Active" /\ notes'[c].leafIndex = Len(leaves)
      /\ \A d \in Commitments : d # c => notes'[d] = notes[d]
  BY <1>1 DEF Deposit, NoteType
<1>6. LeavesAreNotes'
  <2> SUFFICES ASSUME NEW i \in 1..Len(ls), ls[i] # EmptyLeaf
               PROVE  /\ ls[i] \in Commitments
                      /\ notes'[ls[i]].status = "Active"
                      /\ notes'[ls[i]].leafIndex + 1 = i
    BY <1>4 DEF LeavesAreNotes
  <2>1. CASE i = Len(leaves) + 1
    BY <2>1, <1>2, <1>5
  <2>2. CASE i \in 1..Len(leaves)
    <3>1. /\ leaves[i] \in Commitments
          /\ notes[leaves[i]].status = "Active"
          /\ notes[leaves[i]].leafIndex + 1 = i
      BY <2>2, <1>2 DEF TreeInv, LeavesAreNotes
    <3>2. leaves[i] # c
      BY <3>1, <1>5
    <3>3. QED
      BY <2>2, <3>1, <3>2, <1>2, <1>5
  <2>3. QED
    BY <2>1, <2>2, <1>2, <1>3
<1>7. NotesHaveLeaves'
  <2> SUFFICES ASSUME NEW d \in Commitments, notes'[d].status = "Active"
               PROVE  /\ notes'[d].leafIndex + 1 \in 1..Len(ls)
                      /\ ls[notes'[d].leafIndex + 1] = d
    BY <1>4 DEF NotesHaveLeaves
  <2>1. CASE d = c
    BY <2>1, <1>2, <1>3, <1>5
  <2>2. CASE d # c
    BY <2>2, <1>2, <1>3, <1>5 DEF TreeInv, NotesHaveLeaves
  <2>3. QED
    BY <2>1, <2>2
<1>8. QED
  BY <1>4, <1>6, <1>7 DEF TreeInv

(* A note that was not active stays so: its leaf is not concerned.         *)
LEMMA OtherStatusTree ==
    ASSUME TypeInv, TreeInv, NEW c \in Commitments, notes[c].status # "Active",
           NEW s \in Status \ {"Active"}, notes' = [notes EXCEPT ![c].status = s],
           UNCHANGED treeVars
    PROVE  TreeInv'
<1>1. notes \in [Commitments -> NoteType]
  BY DEF TypeInv, TypeOK, NoteTypes
<1>2. /\ notes'[c].status # "Active"
      /\ \A d \in Commitments : d # c => notes'[d] = notes[d]
  BY <1>1 DEF NoteType
<1>3. UNCHANGED <<leaves, roots, currentRootIndex, merkleRoot>>
  BY DEF treeVars
<1>4. LeavesAreNotes'
  BY <1>2, <1>3 DEF TreeInv, LeavesAreNotes
<1>5. NotesHaveLeaves'
  BY <1>2, <1>3 DEF TreeInv, NotesHaveLeaves
<1>6. RootIsCurrent'
  BY <1>3 DEF TreeInv, RootIsCurrent, RootOf
<1>7. QED
  BY <1>4, <1>5, <1>6 DEF TreeInv

(* Every operation keeps leaves and active notes in step.                  *)
LEMMA TreeStep == TypeInv /\ TreeInv /\ [Next]_vars => TreeInv'
<1> SUFFICES ASSUME TypeInv, TreeInv, [Next]_vars PROVE TreeInv'
  OBVIOUS
<1>1. ASSUME NEW c \in Commitments, NEW value \in 0..DepositLimit, Deposit(c, value)
      PROVE  TreeInv'
  BY <1>1, DepositTree
<1>2. ASSUME NEW c \in Commitments, NEW recipient \in Addresses, NEW key \in Keys,
             NEW payout \in 0..DepositLimit,
             InitiateWithdrawal(c, recipient, key, payout)
      PROVE  TreeInv'
  BY <1>2, RemoveLeafTree DEF InitiateWithdrawal, Status
<1>3. ASSUME NEW c \in Commitments, FinalizeWithdrawal(c)
      PROVE  TreeInv'
  BY <1>3, OtherStatusTree DEF FinalizeWithdrawal, Status
<1>4. ASSUME NEW c \in Commitments, NEW sender \in Addresses, Slash(c, sender)
      PROVE  TreeInv'
  <2>1. notes' = [notes EXCEPT ![c].status = "Slashed"] /\ "Slashed" \in Status \ {"Active"}
    BY <1>4 DEF Slash, Status
  <2>2. CASE notes[c].status = "Active" /\ RemoveLeaf(c)
    BY <2>1, <2>2, RemoveLeafTree
  <2>3. CASE notes[c].status = "Exiting" /\ UNCHANGED treeVars
    BY <2>1, <2>3, OtherStatusTree
  <2>4. QED
    BY <1>4, <2>2, <2>3 DEF Slash
<1>5. ASSUME NEW c \in Commitments, NEW sender \in Addresses, ClaimExpired(c, sender)
      PROVE  TreeInv'
  BY <1>5, RemoveLeafTree DEF ClaimExpired, Status
<1>6. CASE UNCHANGED <<notes, leaves, roots, currentRootIndex, merkleRoot>>
  BY <1>6 DEF TreeInv, LeavesAreNotes, NotesHaveLeaves, RootIsCurrent, RootOf
<1>7. QED
  BY <1>1, <1>2, <1>3, <1>4, <1>5, <1>6
     DEF Next, Tick, WithdrawOperatorBalance, ProposeChange, ExecuteChange, CancelChange,
         Pause, Unpause, vars, noteVars, treeVars

(* The constructor's tree is empty.                                        *)
LEMMA TreeInit == Init => TreeInv
<1> SUFFICES ASSUME Init PROVE TreeInv
  OBVIOUS
<1>1. leaves = << >> /\ Len(leaves) = 0
  BY DEF Init
<1>2. \A c \in Commitments : notes[c].status = "None"
  BY DEF Init
<1>3. merkleRoot = RootOf(leaves) /\ roots[currentRootIndex] = merkleRoot
  BY ConstantsAssumption DEF Init
<1>4. QED
  BY <1>1, <1>2, <1>3, ConstantsAssumption
     DEF TreeInv, LeavesAreNotes, NotesHaveLeaves, RootIsCurrent

(* A root is never mistaken for an empty slot of the ring.                 *)
RealRoot == merkleRoot # NoRoot

LEMMA RootIsReal == TypeInv /\ TreeInv => RealRoot
<1> SUFFICES ASSUME TypeInv, TreeInv PROVE merkleRoot # NoRoot
  BY DEF RealRoot
<1>1. Len(leaves) \in Nat /\ Len(leaves) <= MaxLeaves /\ MaxLeaves \in Nat
  BY ConstantsAssumption DEF TypeInv, TypeOK, TreeTypes, TreeInv, RootIsCurrent
<1>2. \A i \in 1..Len(leaves) : i \in 1..MaxLeaves
  BY <1>1
<1>3. RootOf(leaves) \in SUBSET ((1..MaxLeaves) \X Commitments)
  BY <1>2 DEF RootOf, TreeInv, LeavesAreNotes
<1>4. QED
  BY <1>3, ValuesAssumption DEF TreeInv, RootIsCurrent

(* The leaves in step with the notes make the root the set of active ones. *)
LEMMA TreeInvRoot == TypeInv /\ TreeInv => RootIsTheActiveNotes
<1> SUFFICES ASSUME TypeInv, TreeInv PROVE RootIsTheActiveNotes
  OBVIOUS
<1> DEFINE active == {<<notes[c].leafIndex + 1, c>> :
                         c \in {d \in Commitments : notes[d].status = "Active"}}
<1>1. RootOf(leaves) \subseteq active
  <2> SUFFICES ASSUME NEW i \in 1..Len(leaves), leaves[i] # EmptyLeaf
               PROVE  <<i, leaves[i]>> \in active
    BY DEF RootOf
  <2>1. QED
    BY DEF TreeInv, LeavesAreNotes
<1>2. active \subseteq RootOf(leaves)
  <2> SUFFICES ASSUME NEW c \in Commitments, notes[c].status = "Active"
               PROVE  <<notes[c].leafIndex + 1, c>> \in RootOf(leaves)
    OBVIOUS
  <2>1. notes[c].leafIndex + 1 \in 1..Len(leaves) /\ leaves[notes[c].leafIndex + 1] = c
    BY DEF TreeInv, NotesHaveLeaves
  <2>2. c # EmptyLeaf
    BY ValuesAssumption
  <2>3. QED
    BY <2>1, <2>2 DEF RootOf
<1>3. merkleRoot = active
  BY <1>1, <1>2 DEF TreeInv, RootIsCurrent
<1>4. merkleRoot # NoRoot
  BY RootIsReal DEF RealRoot
<1>5. IsKnownRoot(merkleRoot)
  BY <1>4 DEF IsKnownRoot, TreeInv, RootIsCurrent, TypeInv, TypeOK, TreeTypes
<1>6. QED
  BY <1>3, <1>5 DEF RootIsTheActiveNotes

(* The newest root is known and commits to exactly the active notes, each  *)
(* at the leaf index the contract reports: a note that is exiting, slashed *)
(* or settled proves nothing against it.                                   *)
THEOREM RootNamesActiveNotes == Spec => []RootIsTheActiveNotes
<1>1. Spec => [](TypeInv /\ TreeInv)
  BY TypeInit, TypeStep, TreeInit, TreeStep, PTL DEF Spec
<1>2. QED
  BY <1>1, TreeInvRoot, PTL

-----------------------------------------------------------------------------
(* The ring of known roots *)

(* How many updates ago the slot i of the ring was written, if ever.       *)
Back(i) ==
    IF i <= currentRootIndex THEN currentRootIndex - i
    ELSE currentRootIndex + RootHistorySize - i

(* Walking back from the newest slot, and around the end of the ring,      *)
(* walks back through the history, into slots never written once the       *)
(* history is exhausted.  The wrap of _pushRoot moves every slot one       *)
(* update further back except the one it overwrites.                       *)
RingInv ==
    /\ \A j \in 1..Len(rootLog) : rootLog[j] # NoRoot
    /\ \A i \in 0..RootHistorySize - 1 :
          roots[i] = IF Back(i) < Len(rootLog) THEN rootLog[Len(rootLog) - Back(i)]
                                               ELSE NoRoot

LEMMA RingInit == Init => RingInv
<1> SUFFICES ASSUME Init PROVE RingInv
  OBVIOUS
<1>1. /\ RootHistorySize \in Nat /\ RootHistorySize > 1
      /\ MaxLeaves \in Nat
  BY ConstantsAssumption
<1>2. /\ currentRootIndex = 1
      /\ roots = [i \in 0..RootHistorySize - 1 |-> IF i = 1 THEN RootOf(<< >>) ELSE NoRoot]
      /\ rootLog = <<RootOf(<< >>)>>
  BY DEF Init
<1>3. Len(rootLog) = 1 /\ rootLog[1] = RootOf(<< >>)
  BY <1>2
<1>4. RootOf(<< >>) # NoRoot
  <2>1. RootOf(<< >>) = {}
    BY DEF RootOf
  <2>2. QED
    BY <2>1, ValuesAssumption
<1>5. ASSUME NEW i \in 0..RootHistorySize - 1
      PROVE  roots[i] = IF Back(i) < Len(rootLog) THEN rootLog[Len(rootLog) - Back(i)]
                                                  ELSE NoRoot
  <2>1. CASE i = 1
    BY <2>1, <1>1, <1>2, <1>3 DEF Back
  <2>2. CASE i # 1
    <3>1. Back(i) \in Nat /\ Back(i) >= 1
      BY <2>2, <1>1, <1>2 DEF Back
    <3>2. QED
      BY <2>2, <3>1, <1>2, <1>3
  <2>3. QED
    BY <2>1, <2>2
<1>6. QED
  BY <1>3, <1>4, <1>5 DEF RingInv

(* _pushRoot: one slot is overwritten, every other is one update older.    *)
LEMMA PushRing ==
    ASSUME TypeInv, RingInv, NEW ls, UpdateLeaf(ls), RealRoot'
    PROVE  RingInv'
<1> DEFINE N == RootHistorySize
           cur == currentRootIndex
           n == Len(rootLog)
<1>1. /\ N \in Nat /\ N > 1 /\ cur \in 0..N - 1
      /\ DOMAIN roots = 0..N - 1 /\ rootLog \in Seq(Roots)
  BY ConstantsAssumption DEF TypeInv, TypeOK, TreeTypes
<1>2. n \in Nat
  BY <1>1
<1>3. currentRootIndex' = IF cur + 1 = N THEN 0 ELSE cur + 1
  <2>1. CASE cur + 1 = N
    BY <2>1, <1>1 DEF UpdateLeaf
  <2>2. CASE cur + 1 # N
    BY <2>2, <1>1 DEF UpdateLeaf
  <2>3. QED
    BY <2>1, <2>2
<1>4. /\ merkleRoot' = RootOf(ls)
      /\ roots' = [roots EXCEPT ![currentRootIndex'] = RootOf(ls)]
      /\ rootLog' = Append(rootLog, RootOf(ls))
  BY DEF UpdateLeaf
<1>5. /\ Len(rootLog)' = n + 1
      /\ rootLog'[n + 1] = RootOf(ls)
      /\ \A j \in 1..n : rootLog'[j] = rootLog[j]
  BY <1>1, <1>2, <1>4
<1>6. \A j \in 1..n + 1 : rootLog'[j] # NoRoot
  BY <1>2, <1>4, <1>5 DEF RingInv, RealRoot
<1>7. ASSUME NEW i \in 0..N - 1
      PROVE  roots'[i] = IF Back(i)' < Len(rootLog)'
                           THEN rootLog'[Len(rootLog)' - Back(i)'] ELSE NoRoot
  <2>1. CASE i = currentRootIndex'
    <3>1. Back(i)' = 0
      BY <2>1, <1>1, <1>3 DEF Back
    <3>2. roots'[i] = RootOf(ls)
      BY <2>1, <1>1, <1>3, <1>4
    <3>3. QED
      BY <3>1, <3>2, <1>2, <1>5
  <2>2. CASE i # currentRootIndex'
    <3>1. Back(i) \in Nat /\ Back(i)' = Back(i) + 1
      BY <2>2, <1>1, <1>3 DEF Back
    <3>2. roots'[i] = roots[i]
      BY <2>2, <1>1, <1>4
    <3>3. roots[i] = IF Back(i) < n THEN rootLog[n - Back(i)] ELSE NoRoot
      BY DEF RingInv
    <3>4. CASE Back(i) < n
      <4>1. n - Back(i) \in 1..n /\ Len(rootLog)' - Back(i)' = n - Back(i) /\ Back(i)' < Len(rootLog)'
        BY <3>1, <3>4, <1>2, <1>5
      <4>2. QED
        BY <4>1, <3>2, <3>3, <3>4, <1>5
    <3>5. CASE ~(Back(i) < n)
      BY <3>1, <3>2, <3>3, <3>5, <1>2, <1>5
    <3>6. QED
      BY <3>4, <3>5
  <2>3. QED
    BY <2>1, <2>2
<1>8. \A j \in 1..Len(rootLog)' : rootLog'[j] # NoRoot
  BY <1>5, <1>6
<1>9. QED
  BY <1>7, <1>8 DEF RingInv

LEMMA RingStep == TypeInv /\ RingInv /\ RealRoot' /\ [Next]_vars => RingInv'
<1> SUFFICES ASSUME TypeInv, RingInv, RealRoot', [Next]_vars PROVE RingInv'
  OBVIOUS
<1>1. ASSUME UNCHANGED <<roots, currentRootIndex, rootLog>> PROVE RingInv'
  BY <1>1 DEF RingInv, Back
<1>2. ASSUME NEW c \in Commitments, RemoveLeaf(c) PROVE RingInv'
  BY <1>2, PushRing DEF RemoveLeaf
<1>3. ASSUME NEW c \in Commitments, NEW value \in 0..DepositLimit, Deposit(c, value)
      PROVE  RingInv'
  BY <1>3, PushRing DEF Deposit
<1>4. ASSUME NEW c \in Commitments, NEW sender \in Addresses, Slash(c, sender)
      PROVE  RingInv'
  BY <1>1, <1>2, <1>4 DEF Slash, treeVars
<1>5. QED
  BY <1>1, <1>2, <1>3, <1>4
     DEF Next, Tick, InitiateWithdrawal, FinalizeWithdrawal, ClaimExpired,
         WithdrawOperatorBalance, ProposeChange, ExecuteChange, CancelChange,
         Pause, Unpause, vars, treeVars

(* The slots of the ring are the last RootHistorySize roots.               *)
LEMMA RingHoldsTheLatest == TypeInv /\ RingInv => KnownRootsAreTheLatest
<1> SUFFICES ASSUME TypeInv, RingInv PROVE KnownRootsAreTheLatest
  OBVIOUS
<1> DEFINE N == RootHistorySize
           cur == currentRootIndex
           n == Len(rootLog)
           latest == {rootLog[i] : i \in {j \in 1..n : j > n - N}}
           held == {roots[i] : i \in 0..N - 1} \ {NoRoot}
<1>1. N \in Nat /\ N > 1 /\ cur \in 0..N - 1 /\ n \in Nat
  BY ConstantsAssumption DEF TypeInv, TypeOK, TreeTypes
<1>2. ASSUME NEW i \in 0..N - 1, roots[i] # NoRoot PROVE roots[i] \in latest
  <2>1. Back(i) \in 0..N - 1
    BY <1>1 DEF Back
  <2>2. Back(i) < n /\ roots[i] = rootLog[n - Back(i)]
    BY <1>2 DEF RingInv
  <2>3. n - Back(i) \in {j \in 1..n : j > n - N}
    BY <2>1, <2>2, <1>1
  <2>4. QED
    BY <2>2, <2>3
<1>3. ASSUME NEW j \in 1..n, j > n - N PROVE rootLog[j] \in held
  <2> DEFINE i == IF n - j <= cur THEN cur - (n - j) ELSE cur + N - (n - j)
  <2>1. i \in 0..N - 1 /\ Back(i) = n - j
    BY <1>1, <1>3 DEF Back
  <2>2. Back(i) < n /\ n - Back(i) = j
    BY <2>1, <1>1
  <2> HIDE DEF i
  <2>3. roots[i] = rootLog[j] /\ rootLog[j] # NoRoot
    BY <2>1, <2>2 DEF RingInv
  <2>4. QED
    BY <2>1, <2>3
<1>4. held = latest
  BY <1>2, <1>3
<1>5. QED
  BY <1>4 DEF KnownRootsAreTheLatest

(* For a ring of any size and any number of updates: isKnownRoot accepts   *)
(* the last RootHistorySize roots of the tree and no other, so a client's  *)
(* proof survives exactly that many deposits, exits and slashes.           *)
THEOREM KnownRootsTheorem == Spec => []KnownRootsAreTheLatest
<1>1. Spec => [](TypeInv /\ TreeInv)
  BY TypeInit, TypeStep, TreeInit, TreeStep, PTL DEF Spec
<1>2. Spec => [](TypeInv /\ RingInv)
  BY <1>1, RootIsReal, RingInit, RingStep, PTL DEF Spec
<1>3. QED
  BY <1>2, RingHoldsTheLatest, PTL

-----------------------------------------------------------------------------
(* The escrow *)

(* The two functions of the refinement mapping.                            *)
Phases == [d \in Commitments |-> Phase(notes[d].status)]

Held == [d \in Commitments |-> IF Live(notes[d].status) THEN notes[d].amount ELSE 0]

(* What the mapping makes of a step that gives one note a new status and   *)
(* keeps its deposit.                                                      *)
LEMMA StatusStep ==
    ASSUME TypeInv, NEW c \in Commitments, NEW s \in Status,
           notes' = [notes EXCEPT ![c].status = s]
    PROVE  /\ Phases' = [Phases EXCEPT ![c] = Phase(s)]
           /\ Live(s) => Held' = [Held EXCEPT ![c] = notes[c].amount]
           /\ ~Live(s) => Held' = [Held EXCEPT ![c] = 0]
<1>1. notes \in [Commitments -> NoteType]
  BY DEF TypeInv, TypeOK, NoteTypes
<1>2. /\ notes'[c].status = s /\ notes'[c].amount = notes[c].amount
      /\ \A d \in Commitments : d # c => notes'[d] = notes[d]
  BY <1>1 DEF NoteType
<1>3. \A d \in Commitments : d # c => /\ Phase(notes'[d].status) = Phase(notes[d].status)
                                   /\ notes'[d].status = notes[d].status
                                   /\ notes'[d].amount = notes[d].amount
  BY <1>2
<1>4. Phases' = [Phases EXCEPT ![c] = Phase(s)]
  <2>1. Phase(notes'[c].status) = Phase(s)
    BY <1>2
  <2>2. QED
    BY <2>1, <1>3 DEF Phases
<1>5. Live(s) => Held' = [Held EXCEPT ![c] = notes[c].amount]
  BY <1>2, <1>3 DEF Held, Live
<1>6. ~Live(s) => Held' = [Held EXCEPT ![c] = 0]
  BY <1>2, <1>3 DEF Held, Live
<1>7. QED
  BY <1>4, <1>5, <1>6

(* finalizeWithdrawal, slash and claimExpired split the note's escrow.     *)
LEMMA SettleStep ==
    ASSUME TypeInv, SettledInFull, NEW c \in Commitments, Live(notes[c].status),
           NEW s \in {"Closed", "Slashed", "Expired"},
           NEW out \in 0..notes[c].amount,
           notes' = [notes EXCEPT ![c].status = s],
           paidOut' = [paidOut EXCEPT ![c] = paidOut[c] + out],
           operatorBalance' = operatorBalance + notes[c].amount - out
    PROVE  Escrow!Settle(c, out)
<1>1. /\ notes[c].amount \in Nat /\ paidOut[c] \in Nat /\ credited[c] \in Nat
      /\ operatorBalance \in Nat
  BY DEF TypeInv, TypeOK, NoteTypes, NoteType, HistoryTypes
<1>2. paidOut[c] = 0
  BY <1>1 DEF SettledInFull, Live
<1>3. s \in Status /\ ~Live(s) /\ Phase(s) = "settled"
  BY DEF Status, Live, Phase
<1>4. paidOut' = [paidOut EXCEPT ![c] = out]
  <2>1. paidOut[c] + out = out
    BY <1>1, <1>2
  <2>2. QED
    BY <2>1, Zenon
<1>5. operatorBalance' = operatorBalance + (notes[c].amount - out)
  BY <1>1
<1>6. Phases' = [Phases EXCEPT ![c] = "settled"] /\ Held' = [Held EXCEPT ![c] = 0]
  BY <1>3, StatusStep
<1>7. Held[c] = notes[c].amount
  BY DEF Held
<1>8. QED
  BY <1>4, <1>5, <1>6, <1>7 DEF Escrow!Settle, Phases, Held

(* Every operation of the contract is one of the escrow or leaves it alone. *)
LEMMA EscrowStep == TypeInv /\ SettledInFull /\ [Next]_vars => [Escrow!Next]_(Escrow!vars)
<1> SUFFICES ASSUME TypeInv, SettledInFull, [Next]_vars
             PROVE  [Escrow!Next]_(Escrow!vars)
  OBVIOUS
<1>t. /\ notes \in [Commitments -> NoteType]
      /\ \A c \in Commitments : notes[c].amount \in Nat /\ notes[c].status \in Status
      /\ operatorBalance \in Nat
  BY DEF TypeInv, TypeOK, NoteTypes, NoteType
<1>1. ASSUME NEW c \in Commitments, NEW value \in 0..DepositLimit, Deposit(c, value)
      PROVE  Escrow!Next
  <2>1. value \in CMax..DepositLimit - 1
    BY <1>1, ConstantsAssumption DEF Deposit
  <2>2. /\ notes'[c].status = "Active" /\ notes'[c].amount = value
        /\ \A d \in Commitments : d # c => notes'[d] = notes[d]
    BY <1>1, <1>t DEF Deposit
  <2>3. \A d \in Commitments : d # c => /\ notes'[d].status = notes[d].status
                                     /\ notes'[d].amount = notes[d].amount
    BY <2>2
  <2>4. Phases[c] = "unused" /\ Phases' = [Phases EXCEPT ![c] = "open"]
    BY <1>1, <2>2, <2>3 DEF Deposit, Phases, Phase
  <2>5. Held' = [Held EXCEPT ![c] = value]
    BY <2>2, <2>3 DEF Held, Live
  <2>6. UNCHANGED <<paidOut, operatorBalance>>
    BY <1>1 DEF Deposit, histVars
  <2>7. Escrow!Open(c, value)
    BY <2>4, <2>5, <2>6 DEF Escrow!Open, Phases, Held
  <2>8. QED
    BY <2>1, <2>7 DEF Escrow!Next
<1>2. ASSUME NEW c \in Commitments, NEW recipient \in Addresses, NEW key \in Keys,
             NEW payout \in 0..DepositLimit,
             InitiateWithdrawal(c, recipient, key, payout)
      PROVE  Escrow!Next
  <2>1. notes[c].status = "Active" /\ notes' = [notes EXCEPT ![c].status = "Exiting"]
    BY <1>2 DEF InitiateWithdrawal
  <2>2. /\ Phase("Active") = "open" /\ Phase("Exiting") = "leaving"
        /\ Live("Active") /\ Live("Exiting") /\ "Exiting" \in Status
    BY DEF Phase, Live, Status
  <2>3. Phases[c] = "open" /\ Phases' = [Phases EXCEPT ![c] = "leaving"]
    <3>1. Phases' = [Phases EXCEPT ![c] = Phase("Exiting")]
      BY <2>1, <2>2, StatusStep
    <3>2. QED
      BY <2>1, <2>2, <3>1 DEF Phases
  <2>4. UNCHANGED Held
    <3>1. Held' = [Held EXCEPT ![c] = notes[c].amount]
      BY <2>1, <2>2, StatusStep
    <3>2. QED
      BY <2>1, <2>2, <3>1 DEF Held
  <2>5. UNCHANGED <<paidOut, operatorBalance>>
    BY <1>2 DEF InitiateWithdrawal, moneyVars
  <2>6. Escrow!Announce(c)
    BY <2>3, <2>4, <2>5 DEF Escrow!Announce, Phases, Held
  <2>7. QED
    BY <2>6 DEF Escrow!Next
<1>3. ASSUME NEW c \in Commitments, FinalizeWithdrawal(c)
      PROVE  Escrow!Next
  <2>1. notes[c].status = "Exiting" /\ Live("Exiting") /\ Phase("Exiting") = "leaving"
    BY <1>3 DEF FinalizeWithdrawal, Live, Phase
  <2>2. PICK out \in 0..notes[c].amount : out = exits[c].payout
    BY <2>1, <1>t DEF TypeInv, PayoutBounded, TypeOK, NoteTypes, ExitType
  <2>3. /\ notes' = [notes EXCEPT ![c].status = "Closed"]
        /\ paidOut' = [paidOut EXCEPT ![c] = paidOut[c] + out]
        /\ operatorBalance' = operatorBalance + notes[c].amount - out
    BY <1>3, <2>2 DEF FinalizeWithdrawal
  <2>4. Escrow!Release(c, out)
    BY <2>1, <2>3, SettleStep DEF Escrow!Release
  <2>5. Held[c] = notes[c].amount
    BY <2>1 DEF Held
  <2>6. QED
    BY <2>4, <2>5 DEF Escrow!Next, Held
<1>4. ASSUME NEW c \in Commitments, NEW sender \in Addresses, Slash(c, sender)
      PROVE  Escrow!Next
  <2>1. /\ notes[c].status \in {"Active", "Exiting"}
        /\ Live(notes[c].status) /\ Phase(notes[c].status) \in {"open", "leaving"}
    BY <1>4 DEF Slash, Live, Phase
  <2>2. PICK out \in 0..notes[c].amount : out = Bounty(notes[c].amount)
    BY <1>t, BountyType
  <2>3. /\ notes' = [notes EXCEPT ![c].status = "Slashed"]
        /\ paidOut' = [paidOut EXCEPT ![c] = paidOut[c] + out]
        /\ operatorBalance' = operatorBalance + notes[c].amount - out
    BY <1>4, <2>2 DEF Slash
  <2>4. Escrow!Forfeit(c, out)
    BY <2>1, <2>3, SettleStep DEF Escrow!Forfeit
  <2>5. Held[c] = notes[c].amount
    BY <2>1 DEF Held
  <2>6. QED
    BY <2>4, <2>5 DEF Escrow!Next, Held
<1>5. ASSUME NEW c \in Commitments, NEW sender \in Addresses, ClaimExpired(c, sender)
      PROVE  Escrow!Next
  <2>1. notes[c].status = "Active" /\ Live("Active") /\ Phase("Active") = "open"
    BY <1>5 DEF ClaimExpired, Live, Phase
  <2>2. /\ notes' = [notes EXCEPT ![c].status = "Expired"]
        /\ paidOut' = [paidOut EXCEPT ![c] = paidOut[c] + 0]
        /\ operatorBalance' = operatorBalance + notes[c].amount - 0
    BY <1>5, <1>t DEF ClaimExpired, TypeInv, TypeOK, HistoryTypes
  <2>3. 0 \in 0..notes[c].amount
    BY <1>t
  <2>4. Escrow!Settle(c, 0)
    BY <2>1, <2>2, <2>3, SettleStep
  <2>5. Escrow!Lapse(c)
    BY <2>1, <2>4 DEF Escrow!Lapse
  <2>6. QED
    BY <2>5 DEF Escrow!Next
<1>6. ASSUME NEW sender \in Addresses, WithdrawOperatorBalance(sender)
      PROVE  Escrow!Next
  <2>1. Escrow!Collect
    BY <1>6 DEF WithdrawOperatorBalance, Escrow!Collect, noteVars, histVars
  <2>2. QED
    BY <2>1 DEF Escrow!Next
<1>7. CASE UNCHANGED <<notes, paidOut, operatorBalance>>
  BY <1>7 DEF Escrow!vars
<1>8. QED
  BY <1>1, <1>2, <1>3, <1>4, <1>5, <1>6, <1>7
     DEF Next, Tick, ProposeChange, ExecuteChange, CancelChange, Pause, Unpause,
         vars, noteVars, moneyVars, histVars

(* The contract implements the escrow: seen through its notes' status, the *)
(* deposits still held, what was sent out and the operator's balance, each *)
(* call settles one note out of its own deposit, announces an exit, opens  *)
(* a note, empties the pot or changes nothing.                             *)
THEOREM CreditsImplementEscrow == Spec => ImplementsEscrow
<1>1. Init => Escrow!Init
  BY DEF Init, Escrow!Init, Phase, Live
<1>2. Init => SettledInFull
  BY DEF Init, SettledInFull
<1>3. Spec => [](TypeInv /\ SettledInFull)
  BY <1>2, TypeInit, TypeStep, SettledStep, PTL DEF Spec
<1>4. QED
  BY <1>1, <1>3, EscrowStep, PTL DEF Spec, ImplementsEscrow, Escrow!Spec

-----------------------------------------------------------------------------
(* Sums over finite sets: what the fold behind SumFunction computes *)

(* The element SumFunction takes out of a set first.                       *)
Pick(s) == CHOOSE x \in s : TRUE

(* g holds the sum of f over every subset of S: what the fold behind       *)
(* SumFunction defines recursively.                                        *)
IsSum(S, f, g) ==
    g = [s \in SUBSET S |-> IF s = {} THEN 0 ELSE f[Pick(s)] + g[s \ {Pick(s)}]]

LEMMA SumIsChosen ==
    ASSUME NEW f
    PROVE  SumFunction(f) = (CHOOSE g : IsSum(DOMAIN f, f, g))[DOMAIN f]
BY DEF SumFunction, SumFunctionOnSet, FoldFunctionOnSet, MapThenFoldSet, IsSum, Pick

LEMMA PickInSet == ASSUME NEW s, s # {} PROVE Pick(s) \in s
BY DEF Pick

LEMMA LeastNat ==
    ASSUME NEW T \in SUBSET Nat, T # {}
    PROVE  \E k \in T : \A j \in T : k <= j
<1> DEFINE R == OpToRel(<, Nat)
<1>1. IsWellFoundedOn(R, Nat)
  BY NatLessThanWellFounded
<1>2. ASSUME NEW j \in Nat, NEW k \in Nat, j < k PROVE <<j, k>> \in R
  <2>1. <<j, k>> \in Nat \X Nat /\ <<j, k>>[1] = j /\ <<j, k>>[2] = k
    OBVIOUS
  <2> QED
    BY <1>2, <2>1 DEF OpToRel
<1> HIDE DEF R
<1>3. PICK k \in T : \A j \in T : ~(<<j, k>> \in R)
  BY <1>1, WFMin
<1>4. \A j \in T : ~(j < k)
  BY <1>2, <1>3
<1> QED
  BY <1>3, <1>4

(* Induction on the subsets of a finite set: no set of subsets has, with   *)
(* each of its members, a smaller one.                                     *)
LEMMA NoSmallest ==
    ASSUME NEW S, IsFiniteSet(S), NEW B \in SUBSET SUBSET S,
           \A s \in B : \E t \in B : t \subseteq s /\ t # s
    PROVE  B = {}
<1> SUFFICES ASSUME B # {} PROVE FALSE
  OBVIOUS
<1>1. \A s \in B : IsFiniteSet(s) /\ Cardinality(s) \in Nat
  BY FS_Subset, FS_CardinalityType
<1> DEFINE T == {Cardinality(s) : s \in B}
<1>2. T \in SUBSET Nat /\ T # {}
  BY <1>1
<1>3. PICK k \in T : \A j \in T : k <= j
  BY <1>2, LeastNat
<1>4. PICK s \in B : Cardinality(s) = k
  BY <1>3
<1>5. PICK t \in B : t \subseteq s /\ t # s
  BY <1>4
<1>6. Cardinality(t) <= Cardinality(s) /\ Cardinality(s) # Cardinality(t)
  BY <1>1, <1>4, <1>5, FS_Subset
<1>7. k <= Cardinality(t)
  BY <1>3, <1>5
<1> QED
  BY <1>1, <1>4, <1>5, <1>6, <1>7

(* The equation that defines g, one subset at a time.                      *)
LEMMA SumEmpty ==
    ASSUME NEW S, NEW f, NEW g, IsSum(S, f, g)
    PROVE  g[{}] = 0
BY DEF IsSum

LEMMA SumStep ==
    ASSUME NEW S, NEW f, NEW g, IsSum(S, f, g), NEW s \in SUBSET S, s # {}
    PROVE  g[s] = f[Pick(s)] + g[s \ {Pick(s)}]
BY DEF IsSum

LEMMA PickSmaller ==
    ASSUME NEW s, s # {}
    PROVE  Pick(s) \in s /\ s \ {Pick(s)} \subseteq s /\ s \ {Pick(s)} # s
BY PickInSet

(* A sum of naturals is a natural, and does not depend on the set it is    *)
(* taken within.                                                           *)
LEMMA SumsAgree ==
    ASSUME NEW S, IsFiniteSet(S), NEW f \in [S -> Nat], NEW U \in SUBSET S, NEW V \in SUBSET S,
           NEW g, IsSum(U, f, g), NEW h, IsSum(V, f, h)
    PROVE  \A s \in SUBSET (U \cap V) : g[s] \in Nat /\ h[s] = g[s]
<1> DEFINE B == {s \in SUBSET (U \cap V) : ~(g[s] \in Nat /\ h[s] = g[s])}
<1>1. ASSUME NEW s \in B PROVE \E t \in B : t \subseteq s /\ t # s
  <2>1. s \in SUBSET S /\ s \in SUBSET U /\ s \in SUBSET V
    OBVIOUS
  <2>2. s # {}
    <3>1. g[{}] = 0 /\ h[{}] = 0
      BY SumEmpty
    <3> QED
      BY <1>1, <3>1
  <2> DEFINE t == s \ {Pick(s)}
  <2>2a. g[s] = f[Pick(s)] + g[t]
    BY <2>1, <2>2, SumStep
  <2>2b. h[s] = f[Pick(s)] + h[t]
    BY <2>1, <2>2, SumStep
  <2>2c. Pick(s) \in s /\ t \subseteq s /\ t # s
    BY <2>2, PickSmaller
  <2>3. /\ Pick(s) \in s /\ t \in SUBSET (U \cap V) /\ t \subseteq s /\ t # s
        /\ g[s] = f[Pick(s)] + g[t] /\ h[s] = f[Pick(s)] + h[t]
    BY <2>2a, <2>2b, <2>2c
  <2>4. f[Pick(s)] \in Nat
    BY <2>1, <2>3
  <2> HIDE DEF t
  <2>5. ~(g[t] \in Nat /\ h[t] = g[t])
    BY <1>1, <2>3, <2>4
  <2> QED
    BY <2>3, <2>5
<1>2. B = {}
  <2> HIDE DEF B
  <2>1. B \in SUBSET SUBSET S
    BY DEF B
  <2> QED
    BY <1>1, <2>1, NoSmallest
<1> QED
  BY <1>2

(* The recursion has a solution.                                           *)
LEMMA SumExists ==
    ASSUME NEW S, IsFiniteSet(S), NEW f \in [S -> Nat]
    PROVE  \A s \in SUBSET S : \E g : IsSum(s, f, g)
<1> DEFINE B == {s \in SUBSET S : ~\E g : IsSum(s, f, g)}
<1>1. ASSUME NEW s \in B PROVE \E t \in B : t \subseteq s /\ t # s
  <2> SUFFICES ASSUME \A t \in B : t \subseteq s => t = s PROVE \E g : IsSum(s, f, g)
    OBVIOUS
  <2> DEFINE G(t) == CHOOSE g : IsSum(t, f, g)
             h == [t \in SUBSET s |->
                     IF t = {} THEN 0 ELSE f[Pick(t)] + G(t \ {Pick(t)})[t \ {Pick(t)}]]
  <2>1. ASSUME NEW t \in SUBSET s, t # s PROVE IsSum(t, f, G(t))
    <3>1. t \notin B /\ t \in SUBSET S
      BY <2>1
    <3>2. \E g : IsSum(t, f, g)
      BY <3>1
    <3> QED
      BY <3>2
  <2>2. ASSUME NEW t \in SUBSET s, t # s PROVE h[t] = G(t)[t]
    <3>1. IsSum(t, f, G(t))
      BY <2>1, <2>2
    <3>2. CASE t = {}
      <4> HIDE DEF G
      <4>1. G(t)[{}] = 0
        BY <3>1, SumEmpty
      <4>2. h[t] = 0
        BY <3>2
      <4> QED
        BY <3>2, <4>1, <4>2
    <3>3. CASE t # {}
      <4> DEFINE u == t \ {Pick(t)}
      <4>0. u \in SUBSET t /\ u # t /\ u # s /\ u \in SUBSET s
        BY <3>3, PickSmaller
      <4>1. G(t)[t] = f[Pick(t)] + G(t)[u]
        <5>1. PICK k : k = G(t)
          OBVIOUS
        <5> HIDE DEF G
        <5>2. IsSum(t, f, k) /\ t \in SUBSET t
          BY <3>1, <5>1
        <5>3. k[t] = f[Pick(t)] + k[t \ {Pick(t)}]
          BY <3>3, <5>2, SumStep
        <5> QED
          BY <5>1, <5>3
      <4>2. IsSum(u, f, G(u))
        BY <4>0, <2>1
      <4>3. h[t] = f[Pick(t)] + G(u)[u]
        BY <3>3
      <4> HIDE DEF u, G, h
      <4>4. G(t)[u] = G(u)[u]
        <5>1. u \in SUBSET S /\ t \in SUBSET S /\ u \in SUBSET (u \cap t)
          BY <4>0
        <5> QED
          BY <5>1, <4>2, <3>1, SumsAgree
      <4> QED
        BY <4>1, <4>3, <4>4
    <3> QED
      BY <3>2, <3>3
  <2>3. ASSUME NEW t \in SUBSET s
        PROVE  h[t] = IF t = {} THEN 0 ELSE f[Pick(t)] + h[t \ {Pick(t)}]
    <3>1. CASE t = {}
      BY <3>1
    <3>2. CASE t # {}
      <4>1. Pick(t) \in t
        BY <3>2, PickInSet
      <4> DEFINE u == t \ {Pick(t)}
      <4>2. u \in SUBSET s /\ u # s
        BY <4>1
      <4>3. h[t] = f[Pick(t)] + G(u)[u]
        BY <3>2
      <4>4. h[u] = G(u)[u]
        BY <4>2, <2>2
      <4> HIDE DEF G, h
      <4> QED
        BY <3>2, <4>3, <4>4
    <3> QED
      BY <3>1, <3>2
  <2>4. DOMAIN h = SUBSET s /\ h = [t \in DOMAIN h |-> h[t]]
    OBVIOUS
  <2> HIDE DEF h
  <2>5. IsSum(s, f, h)
    BY <2>3, <2>4 DEF IsSum
  <2> QED
    BY <2>5
<1>2. B = {}
  <2> HIDE DEF B
  <2>1. B \in SUBSET SUBSET S
    BY DEF B
  <2> QED
    BY <1>1, <2>1, NoSmallest
<1> QED
  BY <1>2

(* Changing one summand changes the sum by as much.                        *)
LEMMA SumChange ==
    ASSUME NEW S, IsFiniteSet(S), NEW f \in [S -> Nat], NEW e \in [S -> Nat], NEW c \in S,
           \A x \in S : x # c => e[x] = f[x]
    PROVE  /\ SumFunction(f) \in Nat /\ SumFunction(e) \in Nat
           /\ SumFunction(e) + f[c] = SumFunction(f) + e[c]
<1> DEFINE G(k) == CHOOSE g : IsSum(S, k, g)
           v == e[c]
<1>1. e \in [S -> Nat] /\ v \in Nat /\ e[c] = v /\ \A x \in S : x # c => e[x] = f[x]
  OBVIOUS
<1> HIDE DEF v
<1>2. IsSum(S, f, G(f)) /\ IsSum(S, e, G(e))
  <2>1. (\E g : IsSum(S, f, g)) /\ (\E g : IsSum(S, e, g))
    BY <1>1, SumExists
  <2> QED
    BY <2>1
<1>3. SumFunction(f) = G(f)[S] /\ SumFunction(e) = G(e)[S]
  BY <1>1, SumIsChosen
<1>3a. PICK g : g = G(f)
  OBVIOUS
<1>3b. PICK h : h = G(e)
  OBVIOUS
<1> HIDE DEF G
<1>3c. IsSum(S, f, g) /\ IsSum(S, e, h)
  BY <1>2, <1>3a, <1>3b
<1>4. \A s \in SUBSET S : g[s] \in Nat /\ h[s] \in Nat
  BY <1>1, <1>3c, SumsAgree
<1> DEFINE B == {s \in SUBSET S : ~(IF c \in s THEN h[s] + f[c] = g[s] + v ELSE h[s] = g[s])}
<1>5. ASSUME NEW s \in B PROVE \E t \in B : t \subseteq s /\ t # s
  <2>1. s \in SUBSET S
    OBVIOUS
  <2>2. s # {}
    <3>1. g[{}] = 0 /\ h[{}] = 0
      BY <1>3c, SumEmpty
    <3> QED
      BY <1>5, <3>1
  <2> DEFINE t == s \ {Pick(s)}
  <2>2a. g[s] = f[Pick(s)] + g[t]
    BY <1>3c, <2>1, <2>2, SumStep
  <2>2b. h[s] = e[Pick(s)] + h[t]
    BY <1>3c, <2>1, <2>2, SumStep
  <2>2c. Pick(s) \in s /\ t \subseteq s /\ t # s
    BY <2>2, PickSmaller
  <2>3. /\ Pick(s) \in s /\ t \in SUBSET S /\ t \subseteq s /\ t # s
        /\ g[s] = f[Pick(s)] + g[t] /\ h[s] = e[Pick(s)] + h[t]
    BY <2>1, <2>2a, <2>2b, <2>2c
  <2>4. g[t] \in Nat /\ h[t] \in Nat /\ f[Pick(s)] \in Nat /\ f[c] \in Nat
    BY <1>4, <2>1, <2>3
  <2>5. /\ c \in t <=> c \in s /\ c # Pick(s)
        /\ Pick(s) # c => e[Pick(s)] = f[Pick(s)]
    BY <1>1, <2>1, <2>3
  <2> HIDE DEF t
  <2>6. ASSUME IF c \in t THEN h[t] + f[c] = g[t] + v ELSE h[t] = g[t] PROVE FALSE
    <3>1. CASE Pick(s) = c
      BY <1>1, <1>5, <2>3, <2>4, <2>5, <2>6, <3>1
    <3>2. CASE Pick(s) # c
      BY <1>1, <1>5, <2>3, <2>4, <2>5, <2>6, <3>2
    <3> QED
      BY <3>1, <3>2
  <2> QED
    BY <2>3, <2>6
<1>6. B = {}
  <2> HIDE DEF B
  <2>1. B \in SUBSET SUBSET S
    BY DEF B
  <2> QED
    BY <1>5, <2>1, NoSmallest
<1>7. S \in SUBSET S /\ h[S] + f[c] = g[S] + v
  BY <1>6
<1> QED
  BY <1>1, <1>3, <1>3a, <1>3b, <1>4, <1>7

LEMMA SumOfZeros ==
    ASSUME NEW S, IsFiniteSet(S)
    PROVE  SumFunction([x \in S |-> 0]) = 0
<1> DEFINE f == [x \in S |-> 0]
<1>1. f \in [S -> Nat] /\ DOMAIN f = S
  OBVIOUS
<1>2. PICK g : IsSum(S, f, g) /\ SumFunction(f) = g[S]
  <2>1. \E g : IsSum(S, f, g)
    BY <1>1, SumExists
  <2>2. SumFunction(f) = (CHOOSE g : IsSum(S, f, g))[S]
    BY <1>1, SumIsChosen
  <2> QED
    BY <2>1, <2>2
<1> DEFINE B == {s \in SUBSET S : g[s] # 0}
<1>3. ASSUME NEW s \in B PROVE \E t \in B : t \subseteq s /\ t # s
  <2>1. s # {}
    BY <1>2, SumEmpty
  <2> DEFINE t == s \ {Pick(s)}
  <2>2. g[s] = f[Pick(s)] + g[t]
    BY <1>2, <2>1, SumStep
  <2>3. Pick(s) \in s /\ t \subseteq s /\ t # s
    BY <2>1, PickSmaller
  <2>4. f[Pick(s)] = 0
    BY <2>3
  <2> HIDE DEF t, f
  <2>5. g[t] # 0
    BY <2>2, <2>4
  <2> QED
    BY <2>3, <2>5
<1>4. B = {}
  <2> HIDE DEF B
  <2>1. B \in SUBSET SUBSET S
    BY DEF B
  <2> QED
    BY <1>3, <2>1, NoSmallest
<1> QED
  BY <1>2, <1>4

-----------------------------------------------------------------------------
(* The pool *)

LEMMA HeldType == TypeInv => Held \in [Commitments -> Nat]
BY DEF TypeInv, TypeOK, NoteTypes, NoteType, Held

(* An operation that changes what one note holds moves the sum by as much. *)
LEMMA PoolMove ==
    ASSUME TypeInv, NEW c \in Commitments, NEW v \in Nat, Held' = [Held EXCEPT ![c] = v]
    PROVE  /\ SumFunction(Held) \in Nat /\ SumFunction(Held') \in Nat
           /\ SumFunction(Held') + Held[c] = SumFunction(Held) + v
<1>1. IsFiniteSet(Commitments)
  BY ValuesAssumption
<1>2. PICK f \in [Commitments -> Nat] : f = Held
  BY HeldType
<1>3. PICK e \in [Commitments -> Nat] : e = [f EXCEPT ![c] = v]
  OBVIOUS
<1>4. /\ SumFunction(f) \in Nat /\ SumFunction(e) \in Nat
      /\ SumFunction(e) + f[c] = SumFunction(f) + e[c]
  <2>1. \A x \in Commitments : x # c => e[x] = f[x]
    BY <1>3
  <2> QED
    BY <1>1, <2>1, SumChange
<1> QED
  BY <1>2, <1>3, <1>4

LEMMA PoolIsNat == TypeInv => SumFunction(Held) \in Nat
<1> SUFFICES ASSUME TypeInv PROVE SumFunction(Held) \in Nat
  OBVIOUS
<1>1. PICK f \in [Commitments -> Nat] : f = Held
  BY HeldType
<1>2. CASE Commitments = {}
  <2>1. f = [c \in Commitments |-> 0]
    BY <1>2
  <2>2. SumFunction([c \in Commitments |-> 0]) = 0
    BY SumOfZeros, ValuesAssumption
  <2> QED
    BY <1>1, <2>1, <2>2
<1>3. CASE Commitments # {}
  <2>1. PICK c \in Commitments : TRUE
    BY <1>3
  <2>2. SumFunction(f) \in Nat
    BY SumChange, ValuesAssumption
  <2> QED
    BY <1>1, <2>2
<1> QED
  BY <1>2, <1>3

LEMMA PoolStep == TypeInv /\ PoolSolvency /\ [Next]_vars => PoolSolvency'
<1> SUFFICES ASSUME TypeInv, PoolSolvency, [Next]_vars PROVE PoolSolvency'
  OBVIOUS
<1>0. balance = operatorBalance + SumFunction(Held)
  BY DEF PoolSolvency, Held
<1>s. SUFFICES balance' = operatorBalance' + SumFunction(Held')
  BY DEF PoolSolvency, Held
<1>t. /\ notes \in [Commitments -> NoteType]
      /\ balance \in Nat /\ operatorBalance \in Nat
      /\ \A c \in Commitments : notes[c].amount \in Nat /\ exits[c].payout \in Nat
      /\ Held \in [Commitments -> Nat]
  BY HeldType DEF TypeInv, TypeOK, NoteTypes, NoteType, ExitType
<1>a. ASSUME NEW c \in Commitments, Live(notes[c].status),
             NEW status \in {"Closed", "Slashed", "Expired"},
             notes' = [notes EXCEPT ![c].status = status],
             NEW paid \in Nat, balance' = balance - paid,
             operatorBalance' = operatorBalance + notes[c].amount - paid
      PROVE  balance' = operatorBalance' + SumFunction(Held')
  <2>1. Held' = [Held EXCEPT ![c] = 0] /\ Held[c] = notes[c].amount
    BY <1>a, <1>t DEF Held, Live, NoteType
  <2>2. /\ SumFunction(Held) \in Nat /\ SumFunction(Held') \in Nat
        /\ SumFunction(Held') + Held[c] = SumFunction(Held) + 0
    BY <2>1, PoolMove
  <2> QED
    BY <1>0, <1>a, <1>t, <2>1, <2>2
<1>1. ASSUME NEW c \in Commitments, NEW value \in 0..DepositLimit, Deposit(c, value)
      PROVE  balance' = operatorBalance' + SumFunction(Held')
  <2>1. value \in Nat /\ balance' = balance + value /\ operatorBalance' = operatorBalance
    BY <1>1, ConstantsAssumption DEF Deposit
  <2>2. Held' = [Held EXCEPT ![c] = value] /\ Held[c] = 0
    BY <1>1, <1>t DEF Deposit, Held, Live, NoteType
  <2>3. /\ SumFunction(Held) \in Nat /\ SumFunction(Held') \in Nat
        /\ SumFunction(Held') + Held[c] = SumFunction(Held) + value
    BY <2>1, <2>2, PoolMove
  <2> QED
    BY <1>0, <1>t, <2>1, <2>2, <2>3
<1>2. ASSUME NEW c \in Commitments, NEW recipient \in Addresses, NEW key \in Keys,
             NEW payout \in 0..DepositLimit,
             InitiateWithdrawal(c, recipient, key, payout)
      PROVE  balance' = operatorBalance' + SumFunction(Held')
  <2>1. Held' = Held
    BY <1>2, <1>t DEF InitiateWithdrawal, Held, Live, NoteType
  <2> QED
    BY <1>0, <1>2, <2>1 DEF InitiateWithdrawal, moneyVars
<1>3. ASSUME NEW c \in Commitments, FinalizeWithdrawal(c)
      PROVE  balance' = operatorBalance' + SumFunction(Held')
  BY <1>3, <1>a, <1>t DEF FinalizeWithdrawal, Pay, Live
<1>4. ASSUME NEW c \in Commitments, NEW sender \in Addresses, Slash(c, sender)
      PROVE  balance' = operatorBalance' + SumFunction(Held')
  <2>1. PICK paid \in Nat : paid = Bounty(notes[c].amount)
    BY <1>t, BountyType
  <2> QED
    BY <1>4, <1>a, <2>1 DEF Slash, Pay, Live
<1>5. ASSUME NEW c \in Commitments, NEW sender \in Addresses, ClaimExpired(c, sender)
      PROVE  balance' = operatorBalance' + SumFunction(Held')
  <2>1. /\ Live(notes[c].status) /\ notes' = [notes EXCEPT ![c].status = "Expired"]
        /\ balance' = balance - 0 /\ operatorBalance' = operatorBalance + notes[c].amount - 0
    BY <1>5, <1>t DEF ClaimExpired, Live
  <2> QED
    BY <1>a, <2>1
<1>6. ASSUME NEW sender \in Addresses, WithdrawOperatorBalance(sender)
      PROVE  balance' = operatorBalance' + SumFunction(Held')
  <2>1. /\ Held' = Held /\ operatorBalance' = 0
        /\ balance' = balance - operatorBalance
    BY <1>6 DEF WithdrawOperatorBalance, Pay, noteVars, Held
  <2>2. SumFunction(Held) \in Nat
    BY PoolIsNat
  <2> QED
    BY <1>0, <1>t, <2>1, <2>2
<1>7. CASE UNCHANGED <<notes, balance, operatorBalance>>
  <2>1. Held' = Held
    BY <1>7 DEF Held
  <2> QED
    BY <1>0, <1>7, <2>1
<1>8. QED
  BY <1>1, <1>2, <1>3, <1>4, <1>5, <1>6, <1>7
     DEF Next, Tick, ProposeChange, ExecuteChange, CancelChange, Pause, Unpause,
         vars, noteVars, moneyVars

(* The contract holds exactly what it owes, for any number of notes: the   *)
(* operator's balance and the deposits of the notes that have not settled. *)
THEOREM PoolTheorem == Spec => []PoolSolvency
<1>1. ASSUME Init PROVE PoolSolvency
  <2>1. Held = [c \in Commitments |-> 0] /\ balance = 0 /\ operatorBalance = 0
    BY <1>1 DEF Init, Held, Live
  <2>2. SumFunction([c \in Commitments |-> 0]) = 0
    BY SumOfZeros, ValuesAssumption
  <2>3. balance = operatorBalance + SumFunction(Held)
    BY <2>1, <2>2
  <2> QED
    BY <2>3 DEF PoolSolvency, Held
<1>2. QED
  BY <1>1, TypeInit, TypeStep, PoolStep, PTL DEF Spec

(* What every payment draws on is there: the operator's balance and the    *)
(* whole deposit of any live note, together, so _pay never reverts for     *)
(* want of funds, whoever is paid first.                                   *)
PaymentsAreFunded ==
    \A c \in Commitments :
        balance >= operatorBalance + (IF Live(notes[c].status) THEN notes[c].amount ELSE 0)

(* No note's payment ever depends on another note's having been paid.      *)
THEOREM FundsTheorem == Spec => []PaymentsAreFunded
<1>1. ASSUME TypeInv, PoolSolvency, NEW c \in Commitments
      PROVE  balance >= operatorBalance + Held[c]
  <2>1. PICK f \in [Commitments -> Nat] : f = Held
    BY <1>1, HeldType
  <2>2. PICK e \in [Commitments -> Nat] : e = [f EXCEPT ![c] = 0]
    OBVIOUS
  <2>3. /\ SumFunction(f) \in Nat /\ SumFunction(e) \in Nat
        /\ SumFunction(e) + f[c] = SumFunction(f) + e[c]
    <3>1. \A x \in Commitments : x # c => e[x] = f[x]
      BY <2>2
    <3> QED
      BY <3>1, SumChange, ValuesAssumption
  <2>6. f[c] \in Nat /\ SumFunction(f) >= f[c]
    BY <2>2, <2>3
  <2>7. balance = operatorBalance + SumFunction(f) /\ operatorBalance \in Nat
    BY <1>1, <2>1 DEF PoolSolvency, Held, TypeInv, TypeOK
  <2> QED
    BY <2>1, <2>3, <2>6, <2>7
<1>2. TypeInv /\ PoolSolvency => PaymentsAreFunded
  BY <1>1 DEF PaymentsAreFunded, Held
<1>3. Spec => []TypeInv
  BY TypeInit, TypeStep, PTL DEF Spec
<1>4. QED
  BY <1>2, <1>3, PoolTheorem, PTL
=============================================================================
