--------------------------- MODULE VerifierProofs ---------------------------
(***************************************************************************)
(* What someone who runs verify-attestation may conclude from its verdict, *)
(* for any builds and compose files, any environments, any number of       *)
(* processes and boots, and both orders of main.ts's readiness check.      *)
(*                                                                         *)
(* The argument has three parts. The deployment's steps are steps of       *)
(* Releases, so the theorems about governance, which come first, apply to  *)
(* it. Each process carries its provenance from main.ts to its first       *)
(* answer (ProcessInv): what its certificate, its derived keys and the     *)
(* keys it serves were made from. Each answer the verifier holds keeps the *)
(* provenance of the process that gave it, after that process is gone      *)
(* (SessionInv).                                                           *)
(***************************************************************************)
EXTENDS Verifier, TLAPS

-----------------------------------------------------------------------------
(***************************************************************************)
(* Governance alone: what a reader of the app's governance may rely on,    *)
(* for any builds, any number of readers and any delay.                    *)
(***************************************************************************)
USE DEF Unset, Done, Keep

LEMMA UnreadType == Unread \in Reading
BY ReleasesAssumption DEF Unread, Reading, Reads, Owners

LEMMA NoCallsType == NoCalls \in Batch
BY ReleasesAssumption DEF NoCalls, Batch

LEMMA ReleaseType ==
    ASSUME NEW b \in Builds, NEW old \in SUBSET Builds
    PROVE  Release(b, old) \in Batch
BY NoCallsType, ReleasesAssumption DEF Release, Batch

LEMMA OperationType == Operations \subseteq Batch
BY ReleaseType, ReleasesAssumption DEF Operations

LEMMA SingleCallType == SingleCalls \subseteq Batch
<1>1. \A b \in Builds : /\ [NoCalls EXCEPT !.adds = {b}] \in Batch
                         /\ [NoCalls EXCEPT !.retires = {b}] \in Batch
    BY NoCallsType DEF Batch
<1>2. \A t \in {"none"} \cup Owners : [NoCalls EXCEPT !.transfer = t] \in Batch
    BY NoCallsType DEF Batch
<1>3. [NoCalls EXCEPT !.upgrade = TRUE] \in Batch
    BY NoCallsType DEF Batch
<1> QED
    BY <1>1, <1>2, <1>3 DEF SingleCalls

LEMMA BatchType ==
    ASSUME NEW b \in Publishable, NEW seen \in SUBSET Builds
    PROVE  ReleaseBatch(b, seen) \in Operations
BY DEF ReleaseBatch, Operations

(* A step of the scripts keeps the types.                                  *)
LEMMA ScriptTypes ==
    ASSUME ReleasesTypeOK, NEW r \in Readers, ScriptStep(r)
    PROVE  ReleasesTypeOK'
<1> USE DEF chainVars, appVars
<1> read[r] \in Reading
    BY DEF ReleasesTypeOK
<1>1. CASE ReadOwner(r)
    <2>1. Public \in SUBSET Builds
        BY OperationType DEF ReleasesTypeOK, Public, Pending, Batch
    <2>2. RulesChange \in BOOLEAN
        BY DEF RulesChange
    <2>3. [read[r] EXCEPT !.todo = @ \ {"owner"}, !.owner = owner, !.at = now,
                          !.promised = delay, !.public = Public,
                          !.changing = RulesChange] \in Reading
        BY <2>1, <2>2 DEF ReleasesTypeOK, Reading, Reads
    <2> QED
        BY <1>1, <2>3 DEF ReadOwner, ReleasesTypeOK
<1>2. CASE ReadPendingOwner(r)
    <2>1. [read[r] EXCEPT !.todo = @ \ {"pendingOwner"}, !.pendingOwner = pendingOwner]
              \in Reading
        BY DEF ReleasesTypeOK, Reading, Reads
    <2> QED
        BY <1>2, <2>1 DEF ReadPendingOwner, ReleasesTypeOK
<1>3. CASE ReadTimelock(r)
    <2>1. PICK d \in Nat : d = IF read[r].owner = "appOwner" THEN delay ELSE 0
        BY DEF ReleasesTypeOK
    <2>2. [read[r] EXCEPT !.todo = {"history"}, !.delay = d] \in Reading
        BY DEF Reading, Reads
    <2>3. read' = [read EXCEPT ![r] = [read[r] EXCEPT !.todo = {"history"}, !.delay = d]]
        BY <1>3, <2>1 DEF ReadTimelock, ReleasesTypeOK
    <2> QED
        BY <1>3, <2>2, <2>3 DEF ReadTimelock, ReleasesTypeOK
<1>4. CASE ReadHistory(r)
    <2>1. [read[r] EXCEPT !.todo = {}, !.unread = added] \in Reading
        BY DEF ReleasesTypeOK, Reading, Reads
    <2> QED
        BY <1>4, <2>1 DEF ReadHistory, ReleasesTypeOK
<1>5. ASSUME NEW b \in Builds, ReadAllowed(r, b)
      PROVE  ReleasesTypeOK'
    <2>1. [read[r] EXCEPT !.unread = @ \ {b}, !.allowed = @ \cup (allowed \cap {b})]
              \in Reading
        BY DEF ReleasesTypeOK, Reading, Reads
    <2> QED
        BY <1>5, <2>1 DEF ReadAllowed, ReleasesTypeOK
<1>6. ASSUME NEW b \in Builds, Propose(r, b)
      PROVE  ReleasesTypeOK'
    <2>1. read[r].allowed \in SUBSET Builds
        BY DEF Reading
    <2>2. ReleaseBatch(b, read[r].allowed) \in Operations
        <3>1. PICK seen \in SUBSET Builds : seen = read[r].allowed
            BY <2>1
        <3> QED
            BY <1>6, <3>1, BatchType DEF Propose
    <2> QED
        BY <1>6, <2>2, UnreadType DEF Propose, ReleasesTypeOK
<1>7. CASE GiveUp(r)
    BY <1>7, UnreadType DEF GiveUp, ReleasesTypeOK
<1> QED
    BY <1>1, <1>2, <1>3, <1>4, <1>5, <1>6, <1>7 DEF ScriptStep, ReadStep

(* What the calls of an owner leave of the app's types.                    *)
LEMMA CallAppTypes ==
    ASSUME ReleasesTypeOK, NEW o \in Batch, CallApp(o)
    PROVE  /\ allowed' \subseteq everAllowed'
           /\ everAllowed' \subseteq Builds
           /\ added' \subseteq Builds
           /\ ~upgraded' => allowed' \subseteq added'
           /\ owner' \in Owners
           /\ pendingOwner' \in {"none"} \cup Owners
           /\ upgraded' \in BOOLEAN
<1>1. /\ allowed' \subseteq everAllowed'
      /\ everAllowed' \subseteq Builds
      /\ added' \subseteq Builds
    BY DEF ReleasesTypeOK, CallApp, Batch
<1>2. upgraded' \in BOOLEAN /\ (~upgraded' => ~upgraded)
    BY Zenon DEF CallApp
<1>3. ~upgraded' => allowed' \subseteq added'
    BY <1>2 DEF ReleasesTypeOK, CallApp
<1>4. owner' \in Owners /\ pendingOwner' \in {"none"} \cup Owners
    BY DEF ReleasesTypeOK, CallApp, Batch, Owners
<1> QED
    BY <1>1, <1>2, <1>3, <1>4

(* A transaction or a block keeps the types.                               *)
LEMMA ChainTypes ==
    ASSUME ReleasesTypeOK, ChainStep
    PROVE  ReleasesTypeOK'
<1> USE ReleasesAssumption DEF appVars, chainVars
<1>1. ASSUME NEW o \in SingleCalls, AccountCalls(o) PROVE ReleasesTypeOK'
    <2>1. o \in Batch /\ CallApp(o)
        BY <1>1, SingleCallType DEF AccountCalls
    <2> QED
        BY <1>1, <2>1, CallAppTypes DEF AccountCalls, Mine, ReleasesTypeOK
<1>2. ASSUME NEW b \in Builds, NEW o \in Owners, UpgradedAppActs(b, o) PROVE ReleasesTypeOK'
    BY <1>2 DEF UpgradedAppActs, Mine, ReleasesTypeOK
<1>3. CASE AcceptOwnership
    BY <1>3 DEF AcceptOwnership, Mine, ReleasesTypeOK
<1>4. ASSUME NEW b \in Builds, GuardianRemoves(b) PROVE ReleasesTypeOK'
    BY <1>4 DEF GuardianRemoves, Mine, ReleasesTypeOK
<1>5. ASSUME NEW o \in Operations, NEW wait \in 0..MaxWait, Schedule(o, wait)
      PROVE  ReleasesTypeOK'
    BY <1>5 DEF Schedule, Mine, ReleasesTypeOK
<1>6. ASSUME NEW o \in Operations, Cancel(o)
      PROVE  ReleasesTypeOK'
    BY <1>6 DEF Cancel, Mine, ReleasesTypeOK
<1>7. ASSUME NEW o \in Operations, Execute(o)
      PROVE  ReleasesTypeOK'
    <2>1. o \in Batch /\ CallApp(o)
        BY <1>7, OperationType DEF Execute
    <2>2. timelock' \in [Operations -> Nat \cup {Unset, Done}]
        BY <1>7 DEF Execute, ReleasesTypeOK
    <2>3. mined' \in 0..MaxTransactions /\ delay' \in Nat
        BY <1>7, <2>1 DEF Execute, Mine, Batch, ReleasesTypeOK
    <2>4. guardian' \in BOOLEAN
        BY <1>7, Zenon DEF Execute, ReleasesTypeOK
    <2>5. UNCHANGED <<now, files, read>>
        BY <1>7 DEF Execute
    <2> QED
        BY <2>1, <2>2, <2>3, <2>4, <2>5, CallAppTypes DEF ReleasesTypeOK
<1>8. CASE NextBlock
    BY <1>8 DEF NextBlock, ReleasesTypeOK
<1> QED
    BY <1>1, <1>2, <1>3, <1>4, <1>5, <1>6, <1>7, <1>8 DEF ChainStep

LEMMA ReleaseTypesInit == ReleasesInit => ReleasesTypeOK
<1> SUFFICES ASSUME ReleasesInit PROVE ReleasesTypeOK
    OBVIOUS
<1>1. upgraded \in BOOLEAN /\ guardian \in BOOLEAN
    BY Zenon DEF ReleasesInit
<1>2. /\ allowed \subseteq everAllowed /\ everAllowed \subseteq Builds
      /\ added \subseteq Builds /\ allowed \subseteq added /\ files \subseteq Operations
    BY ReleasesAssumption DEF ReleasesInit
<1>3. now \in 0..MaxTime /\ mined \in 0..MaxTransactions /\ delay \in Nat
    BY ReleasesAssumption DEF ReleasesInit
<1>4. owner \in Owners /\ pendingOwner \in {"none"} \cup Owners
    BY DEF ReleasesInit, Owners
<1>5. /\ timelock \in [Operations -> Nat \cup {Unset, Done}]
      /\ read \in [Readers -> Reading]
    BY UnreadType DEF ReleasesInit
<1> QED
    BY <1>1, <1>2, <1>3, <1>4, <1>5 DEF ReleasesTypeOK

(* The app's state, the timelock and what the readers have read always     *)
(* have their types, and until the app's logic is replaced a build that is *)
(* allowed has an event in the log readHistory queries.                    *)
THEOREM ReleasesTypeTheorem == ReleasesSpec => []ReleasesTypeOK
<1>1. ReleasesInit => ReleasesTypeOK
    BY ReleaseTypesInit
<1>2. ReleasesTypeOK /\ [ReleasesNext]_releaseVars => ReleasesTypeOK'
    <2>1. ASSUME ReleasesTypeOK, UNCHANGED releaseVars
          PROVE  ReleasesTypeOK'
        BY <2>1 DEF releaseVars, chainVars, appVars, ReleasesTypeOK
    <2> QED
        BY <2>1, ScriptTypes, ChainTypes DEF ReleasesNext
<1> QED
    BY <1>1, <1>2, PTL DEF ReleasesSpec

-----------------------------------------------------------------------------
(* Why a good report stays good: the LongjingAppOwner keeps the app, its   *)
(* logic and the delay, and whatever is scheduled was already public and   *)
(* leaves the rules alone, or comes too late.                              *)
Sound(r) ==
    Good(r) =>
        /\ owner = "appOwner"
        /\ pendingOwner = "none"
        /\ ~upgraded
        /\ delay = read[r].promised
        /\ "timelock" \notin read[r].todo => read[r].delay = read[r].promised
        /\ allowed \subseteq read[r].public
        /\ \A o \in Operations : timelock[o] >= 0 =>
               \/ ~ChangesTheRules(o) /\ o.adds \subseteq read[r].public
               \/ timelock[o] >= read[r].at + read[r].promised

(* A reader that has not read the owner has not read the timelock.         *)
InOrder(r) == "owner" \in read[r].todo => "timelock" \in read[r].todo

ReportInv ==
    /\ ReleasesTypeOK
    /\ \A r \in Readers : read[r].at <= now /\ InOrder(r) /\ Sound(r)

LEMMA UnreadIsNotGood ==
    Unread.owner = "none" /\ Unread.at = 0 /\ "timelock" \in Unread.todo
BY DEF Unread, Reads

(* Another script's steps do not touch r's reading.                        *)
LEMMA OthersKeepReading ==
    ASSUME ReleasesTypeOK, NEW s \in Readers, ScriptStep(s), NEW r \in Readers, r # s
    PROVE  read'[r] = read[r]
BY DEF ScriptStep, ReadStep, ReadOwner, ReadPendingOwner, ReadTimelock, ReadHistory,
       ReadAllowed, Propose, GiveUp, ReleasesTypeOK

LEMMA ScriptsKeepTheChain ==
    ASSUME NEW s \in Readers, ScriptStep(s)
    PROVE  UNCHANGED <<now, allowed, owner, pendingOwner, upgraded, delay, timelock>>
BY DEF ScriptStep, ReadStep, ReadOwner, ReadPendingOwner, ReadTimelock, ReadHistory,
       ReadAllowed, Propose, GiveUp, chainVars, appVars

LEMMA ScriptReports ==
    ASSUME ReportInv, NEW s \in Readers, ScriptStep(s), NEW r \in Readers
    PROVE  (read[r].at <= now /\ InOrder(r) /\ Sound(r))'
<1> UNCHANGED <<now, allowed, owner, pendingOwner, upgraded, delay, timelock>>
    BY ScriptsKeepTheChain
<1> /\ ReleasesTypeOK /\ read[r].at <= now /\ InOrder(r) /\ Sound(r)
    /\ now \in Nat /\ owner \in Owners /\ read \in [Readers -> Reading]
    BY ReleasesAssumption DEF ReportInv, ReleasesTypeOK
<1> read[r] \in Reading
    OBVIOUS
<1>1. CASE r # s
    BY <1>1, OthersKeepReading DEF InOrder, Sound, Good
<1>2. CASE r = s /\ ReadOwner(s)
    <2>1. /\ read'[r].owner = owner
          /\ read'[r].at = now
          /\ read'[r].promised = delay
          /\ read'[r].public = Public
          /\ read'[r].changing = RulesChange
          /\ read'[r].todo = read[r].todo \ {"owner"}
        BY <1>2 DEF ReadOwner, Reading
    <2>2. allowed \subseteq Public
        BY DEF Public
    <2>3. \A o \in Operations : timelock[o] >= 0 => o.adds \subseteq Public
        BY DEF Public, Pending
    <2>4. ASSUME Good(r)'
          PROVE  /\ owner = "appOwner" /\ pendingOwner = "none" /\ ~upgraded
                 /\ \A o \in Operations : timelock[o] >= 0 => ~ChangesTheRules(o)
        <3>1. owner = "appOwner" /\ ~RulesChange
            BY <2>1, <2>4 DEF Good
        <3> QED
            BY <3>1 DEF RulesChange, Pending
    <2>5. "timelock" \in read'[r].todo
        BY <1>2, <2>1 DEF ReadOwner, InOrder
    <2>6. Sound(r)'
        BY <2>1, <2>2, <2>3, <2>4, <2>5 DEF Sound, ChangesTheRules
    <2>7. InOrder(r)'
        BY <2>5 DEF InOrder
    <2> QED
        BY <2>1, <2>6, <2>7
<1> DEFINE Same == /\ read'[r].owner = read[r].owner
                   /\ read'[r].at = read[r].at
                   /\ read'[r].promised = read[r].promised
                   /\ read'[r].public = read[r].public
                   /\ read'[r].changing = read[r].changing
<1>3. CASE r = s /\ ReadTimelock(s)
    <2>1. Same /\ read'[r].todo = {"history"}
        BY <1>3 DEF ReadTimelock, Reading
    <2>2. read[r].owner = "appOwner" => read'[r].delay = delay
        BY <1>3 DEF ReadTimelock, Reading
    <2> QED
        BY <2>1, <2>2 DEF InOrder, Sound, Good
<1>4. CASE r = s /\ (ReadPendingOwner(s) \/ ReadHistory(s) \/ \E b \in Builds : ReadAllowed(s, b))
    <2> DEFINE Kept == /\ Same
                       /\ read'[r].delay = read[r].delay
                       /\ "timelock" \in read'[r].todo <=> "timelock" \in read[r].todo
                       /\ "owner" \in read'[r].todo => "owner" \in read[r].todo
    <2>1. ReadPendingOwner(r) => Kept
        BY DEF ReadPendingOwner, Reading
    <2>2. ReadHistory(r) => Kept
        BY DEF ReadHistory, Reading
    <2>3. ASSUME NEW b \in Builds, ReadAllowed(r, b) PROVE Kept
        BY <2>3 DEF ReadAllowed, Reading
    <2>4. Kept
        <3> HIDE DEF Kept
        <3> QED
            BY <1>4, <2>1, <2>2, <2>3
    <2> QED
        BY <2>4 DEF InOrder, Sound, Good
<1>5. CASE r = s /\ (GiveUp(s) \/ \E b \in Builds : Propose(s, b))
    <2>1. read'[r] = Unread
        BY <1>5 DEF GiveUp, Propose
    <2> QED
        BY <2>1, UnreadIsNotGood DEF InOrder, Sound, Good
<1> QED
    BY <1>1, <1>2, <1>3, <1>4, <1>5 DEF ScriptStep, ReadStep

(* The timelock takes nothing in that is ready before the delay is over.   *)
LEMMA ChainReports ==
    ASSUME ReportInv, ChainStep, NEW r \in Readers
    PROVE  (read[r].at <= now /\ InOrder(r) /\ Sound(r))'
<1> /\ ReleasesTypeOK /\ read[r].at <= now /\ InOrder(r) /\ Sound(r)
    /\ now \in Nat /\ delay \in Nat
    /\ read \in [Readers -> Reading]
    /\ timelock \in [Operations -> Int]
    BY ReleasesAssumption DEF ReportInv, ReleasesTypeOK
<1> read[r] \in Reading /\ read[r].at \in Int /\ read[r].promised \in Nat
    BY DEF Reading
<1> read' = read
    BY DEF ChainStep, AccountCalls, UpgradedAppActs, GuardianRemoves, AcceptOwnership,
           Schedule, Cancel, Execute, NextBlock
<1> InOrder(r)'
    BY DEF InOrder
<1> USE DEF appVars, chainVars
<1>1. ASSUME NEW o \in SingleCalls, AccountCalls(o)
      PROVE  (read[r].at <= now /\ Sound(r))'
    <2>1. ~Good(r) /\ UNCHANGED now
        BY <1>1 DEF AccountCalls, Sound
    <2> QED
        BY <2>1 DEF Sound, Good
<1>2. ASSUME NEW b \in Builds, NEW o \in Owners, UpgradedAppActs(b, o)
      PROVE  (read[r].at <= now /\ Sound(r))'
    <2>1. ~Good(r) /\ UNCHANGED now
        BY <1>2 DEF UpgradedAppActs, Sound
    <2> QED
        BY <2>1 DEF Sound, Good
<1>3. CASE AcceptOwnership
    <2>1. ~Good(r) /\ UNCHANGED now
        BY <1>3 DEF AcceptOwnership, Sound
    <2> QED
        BY <2>1 DEF Sound, Good
<1>4. ASSUME NEW b \in Builds, GuardianRemoves(b)
      PROVE  (read[r].at <= now /\ Sound(r))'
    BY <1>4 DEF GuardianRemoves, Sound, Good
<1>5. ASSUME NEW o \in Operations, NEW wait \in 0..MaxWait, Schedule(o, wait)
      PROVE  (read[r].at <= now /\ Sound(r))'
    <2>1. /\ timelock' = [timelock EXCEPT ![o] = now + wait]
          /\ wait >= delay /\ wait \in Int
          /\ UNCHANGED <<now, allowed, owner, pendingOwner, upgraded, delay>>
        BY <1>5, ReleasesAssumption DEF Schedule
    <2>2. \A x \in Operations : x # o => timelock'[x] = timelock[x]
        BY <2>1
    <2>3. Good(r) => timelock'[o] >= read[r].at + read[r].promised
        BY <2>1 DEF Sound
    <2> QED
        BY <2>1, <2>2, <2>3 DEF Sound, Good
<1>6. ASSUME NEW o \in Operations, Cancel(o)
      PROVE  (read[r].at <= now /\ Sound(r))'
    <2>1. \A x \in Operations : timelock'[x] >= 0 => timelock'[x] = timelock[x]
        BY <1>6 DEF Cancel
    <2>2. UNCHANGED <<now, allowed, owner, pendingOwner, upgraded, delay>>
        BY <1>6 DEF Cancel
    <2> QED
        BY <2>1, <2>2 DEF Sound, Good
<1>7. ASSUME NEW o \in Operations, Execute(o)
      PROVE  (read[r].at <= now /\ Sound(r))'
    <2>1. \A x \in Operations : timelock'[x] >= 0 => timelock'[x] = timelock[x]
        BY <1>7 DEF Execute
    <2>2. Good(r) => ~ChangesTheRules(o) /\ o.adds \subseteq read[r].public
        BY <1>7 DEF Execute, Ready, Sound, Good
    <2>3. ~ChangesTheRules(o) => UNCHANGED <<owner, pendingOwner, delay>>
        BY <1>7 DEF Execute, CallApp, ChangesTheRules
    <2>4. ~ChangesTheRules(o) /\ ~upgraded => ~upgraded'
        BY <1>7 DEF Execute, CallApp, ChangesTheRules
    <2>5. allowed' \subseteq allowed \cup o.adds /\ UNCHANGED now
        BY <1>7 DEF Execute, CallApp
    <2> QED
        BY <2>1, <2>2, <2>3, <2>4, <2>5 DEF Sound, Good
<1>8. CASE NextBlock
    BY <1>8 DEF NextBlock, Sound, Good
<1> QED
    BY <1>1, <1>2, <1>3, <1>4, <1>5, <1>6, <1>7, <1>8 DEF ChainStep

(* After readAppGovernance has read that the LongjingAppOwner owns the     *)
(* app, with no transfer, upgrade or new delay pending or scheduled, no    *)
(* build that was neither allowed nor scheduled then is allowed for a full *)
(* delay, and the delay the report names is that delay: for every delay,   *)
(* every set of builds, every set of batches the Safe may write by hand    *)
(* and any number of scripts.                                              *)
THEOREM ReportTheorem == ReleasesSpec => []ReportsAreGoodForADelay
<1>1. ReleasesInit => ReportInv
    <2> SUFFICES ASSUME ReleasesInit PROVE ReportInv
        OBVIOUS
    <2>1. ReleasesTypeOK
        BY ReleaseTypesInit
    <2>2. ASSUME NEW r \in Readers PROVE read[r].at <= now /\ InOrder(r) /\ Sound(r)
        BY <2>2, UnreadIsNotGood DEF ReleasesInit, InOrder, Sound, Good
    <2> QED
        BY <2>1, <2>2 DEF ReportInv
<1>2. ReportInv /\ [ReleasesNext]_releaseVars => ReportInv'
    <2> SUFFICES ASSUME ReportInv, [ReleasesNext]_releaseVars PROVE ReportInv'
        OBVIOUS
    <2>1. CASE UNCHANGED releaseVars
        BY <2>1 DEF releaseVars, chainVars, appVars, ReportInv, ReleasesTypeOK, InOrder, Sound, Good
    <2>2. CASE ReleasesNext
        <3>1. ReleasesTypeOK'
            BY <2>2, ScriptTypes, ChainTypes DEF ReportInv, ReleasesNext
        <3>2. ASSUME NEW r \in Readers PROVE (read[r].at <= now /\ InOrder(r) /\ Sound(r))'
            BY <2>2, ScriptReports, ChainReports DEF ReleasesNext
        <3> QED
            BY <3>1, <3>2 DEF ReportInv
    <2> QED
        BY <2>1, <2>2
<1>3. ReportInv => ReportsAreGoodForADelay
    BY DEF ReportInv, ReportsAreGoodForADelay, Sound
<1> QED
    BY <1>1, <1>2, <1>3, PTL DEF ReleasesSpec

HIDE DEF Unset, Done, Keep
-----------------------------------------------------------------------------
(***************************************************************************)
(* The deployment.                                                         *)
(***************************************************************************)

(* The steps of a process after its keys were derived, after the           *)
(* attestation module's hooks, and after the Longjing module's.            *)
PastDerive == {"attest", "wire", "quote", "serving"} \cup (IF InitFirst THEN {"check"} ELSE {})
PastAttest == PastDerive \ {"attest"}
PastWire == PastAttest \ {"wire"}

(* A process that runs passed the checks of main.ts, and serves the TLS    *)
(* material of its own boot.                                               *)
Started(p) ==
    p.pc # "down" =>
        /\ ValidEnvironment(p.build, p.env)
        /\ p.boot \in 1..MaxBoots
        /\ p.cert \in TlsCertificates(p.build, p.env, p.boot)

(* Derivation is all or nothing, although the KMS may stop answering       *)
(* between two of its calls,                                               *)
DerivedTogether(p) == p.keys \in {NoKeys, [d \in KeyDomains |-> Source(p)]}

(* and what the KMS gave, it gave to a build the app has allowed.          *)
KnownToTheApp(p) ==
    (p.got > 0 \/ p.keys # NoKeys) /\ ~IsSimulator(p.env) => p.build \in everAllowed

(* Production goes on only with keys, and not with a simulator's.          *)
ProductionDerives(p) ==
    p.pc \in PastDerive /\ Production(p.build) => p.keys # NoKeys /\ ~IsSimulator(p.env)

(* The hooks chose the ML-KEM key, the platform and the refund key from    *)
(* the keys and the environment the process still has.                     *)
Wired(p) ==
    /\ p.pc \in PastAttest => p.mlkem = MlKemKey(p) /\ p.platform \in SelectablePlatforms(p)
    /\ p.pc \in PastWire => p.refund \in RefundKeys(p)

ProcessInv(p) ==
    /\ p \in Process
    /\ Started(p)
    /\ DerivedTogether(p)
    /\ KnownToTheApp(p)
    /\ ProductionDerives(p)
    /\ Wired(p)

EnclaveInv ==
    /\ boots \in 0..MaxBoots
    /\ proc \in [Instances -> Process]
    /\ \A i \in Instances : ProcessInv(proc[i])

-----------------------------------------------------------------------------
(* A certificate of dstack names the boot that answered; keys of the KMS   *)
(* are a build's that the app has allowed.                                 *)
EvidenceInv(e) ==
    /\ e.platform \in Platforms
    /\ e.keys \in BoundKeySet
    /\ e.build \in Builds
    /\ e.by \in 0..MaxBoots
    /\ e.keys.cert > 0 => e.by = e.keys.cert
    /\ e.keys.identity = "kms" => e.build \in everAllowed

(* The keys of a manifest come from one guest agent, which also signs it.  *)
ManifestInv(m) ==
    /\ m.app \in {"none", App, OtherApp}
    /\ m.cert \in {NoCert, FileCert} \cup 1..MaxBoots
    /\ m.by \in 0..MaxBoots
    /\ m.cert > 0 => m.by = m.cert
    /\ m.app # "none" =>
           m.signer \in {"kms", "sim"} /\ m.mlkem = m.signer /\ m.refund = m.signer

(* Only a boot serves a certificate that is not the gateway's.             *)
ServedInv(s) ==
    /\ s.cert \in {NoCert, FileCert, GatewayCert} \cup 1..MaxBoots
    /\ s.by \in 0..MaxBoots
    /\ s.cert > 0 => s.by = s.cert
    /\ s.by = 0 => s.cert \in {NoCert, GatewayCert}

(* Past the last fetch, the checks of key-binding.ts have passed on what   *)
(* the session still holds.                                                *)
Checked ==
    session.pc \in {"governance", "accepted"} =>
        /\ session.served.cert # NoCert => session.served.cert = session.evidence.keys.cert
        /\ session.manifest # NoManifest => VerifyManifest(session.manifest, session.evidence.keys)
        /\ session.app => NamesTheApp(session.manifest)

SessionFields ==
    /\ session = [pc |-> session.pc, app |-> session.app, evidence |-> session.evidence,
                  manifest |-> session.manifest, served |-> session.served]
    /\ session.pc \in {"start", "manifest", "cert", "governance", "accepted"}
    /\ session.app \in BOOLEAN

SessionInv ==
    /\ SessionFields
    /\ EvidenceInv(session.evidence)
    /\ ManifestInv(session.manifest)
    /\ ServedInv(session.served)
    /\ Checked

DeploymentInv == ReleasesTypeOK /\ EnclaveInv /\ SessionInv

-----------------------------------------------------------------------------
(* The deployment uses the app of Releases.                                *)

LEMMA ReleaseStep == ReleasesTypeOK /\ [Next]_vars => [ReleasesNext]_releaseVars
<1> SUFFICES ASSUME ReleasesTypeOK, [Next]_vars PROVE [ReleasesNext]_releaseVars
  OBVIOUS
<1>1. CASE UNCHANGED vars
  BY <1>1 DEF vars
<1>2. CASE (\E i \in Instances : EnclaveStep(i)) /\ UNCHANGED <<releaseVars, session>>
  BY <1>2
<1>3. CASE ChainStep
  BY <1>3 DEF ReleasesNext
<1>4. CASE Proposer
  BY <1>4 DEF Proposer, ReleasesNext
<1>5. CASE VerifierStep
  <2>1. ASSUME NEW i \in Instances, FetchAttestation(i) PROVE UNCHANGED releaseVars
    BY <2>1 DEF FetchAttestation
  <2>2. FetchKeyManifest \/ FetchServedTlsCertificate \/ VerifyGovernance
            => UNCHANGED releaseVars
    BY DEF FetchKeyManifest, FetchServedTlsCertificate, VerifyGovernance
  <2>3. VerifierReads => ReleasesNext
    BY VerifierAssumption DEF VerifierReads, ReleasesNext, ScriptStep
  <2>4. CASE VerifierEnds
    <3>1. CASE read[Me] # Unread
      BY <2>4, <3>1, VerifierAssumption DEF VerifierEnds, ReleasesNext, ScriptStep, GiveUp
    <3>2. CASE read[Me] = Unread
      <4>1. read \in [Readers -> Reading]
        BY DEF ReleasesTypeOK
      <4>2. read' = read
        BY <2>4, <3>2, <4>1, VerifierAssumption DEF VerifierEnds
      <4> QED
        BY <2>4, <4>2 DEF VerifierEnds, releaseVars, chainVars, appVars
    <3> QED
      BY <3>1, <3>2
  <2> QED
    BY <1>5, <2>1, <2>2, <2>3, <2>4 DEF VerifierStep
<1> QED
  BY <1>1, <1>2, <1>3, <1>4, <1>5 DEF Next

LEMMA ReleaseTypesStep == ReleasesTypeOK /\ [Next]_vars => ReleasesTypeOK'
<1>1. ASSUME ReleasesTypeOK, UNCHANGED releaseVars PROVE ReleasesTypeOK'
  BY <1>1 DEF releaseVars, chainVars, appVars, ReleasesTypeOK
<1> QED
  BY <1>1, ReleaseStep, ScriptTypes, ChainTypes DEF ReleasesNext

(* A build that was allowed once stays known.                              *)
LEMMA EverAllowedGrows == [ReleasesNext]_releaseVars => everAllowed \subseteq everAllowed'
BY DEF ReleasesNext, releaseVars, ChainStep, ScriptStep, ReadStep, ReadOwner,
   ReadPendingOwner, ReadTimelock, ReadHistory, ReadAllowed, Propose, GiveUp, AccountCalls,
   UpgradedAppActs, GuardianRemoves, AcceptOwnership, Schedule, Cancel, Execute, CallApp,
   NextBlock, chainVars, appVars

(* The boots, the scripts and the verifier use the app as Releases says:   *)
(* the behaviours of the deployment are behaviours of the app, so what is  *)
(* proved of the app holds in it, the verifier's own reads included.       *)
THEOREM DeploymentUsesReleases == Spec => ReleasesSpec
<1>1. Init => ReleasesInit
  BY DEF Init
<1>2. QED
  BY <1>1, ReleaseTypesInit, ReleaseTypesStep, ReleaseStep, PTL DEF Spec, ReleasesSpec

-----------------------------------------------------------------------------
(* A process keeps its provenance, step by step.                           *)

LEMMA DownIsProcess == Down \in Process /\ Down.pc = "down"
<1>1. NoKeys \in [KeyDomains -> {NoKey, "kms", "sim"}]
  BY DEF NoKeys, NoKey
<1> QED
  BY <1>1, ReleasesAssumption, EnclaveAssumption
  DEF Down, Process, EnvVars, NoCert, DerivedKeys, NoKey, Platforms

LEMMA DownInv == ProcessInv(Down)
<1>1. Down.keys = NoKeys /\ Down.got = 0
  BY DEF Down
<1> QED
  BY <1>1, DownIsProcess
  DEF ProcessInv, Started, DerivedTogether, KnownToTheApp, ProductionDerives, Wired,
      PastDerive, PastAttest, PastWire

LEMMA StartInv ==
    ASSUME NEW b \in Builds, NEW env \in SUBSET EnvVars, NEW boot \in 1..MaxBoots,
           NEW cert \in TlsCertificates(b, env, boot), ValidEnvironment(b, env)
    PROVE  ProcessInv([Down EXCEPT !.pc = IF InitFirst THEN "derive" ELSE "check",
                                   !.boot = boot, !.build = b, !.env = env, !.cert = cert])
<1> DEFINE q == [Down EXCEPT !.pc = IF InitFirst THEN "derive" ELSE "check",
                             !.boot = boot, !.build = b, !.env = env, !.cert = cert]
<1>1. cert \in {NoCert, FileCert} \cup 1..MaxBoots
  BY EnclaveAssumption DEF TlsCertificates
<1>2. q.pc \in {"derive", "check"} /\ q.boot = boot /\ q.build = b /\ q.env = env
      /\ q.cert = cert /\ q.got = 0 /\ q.keys = NoKeys
  BY DEF Down
<1>3. q \in Process
  <2>1. PICK pc \in {"derive", "check"} : pc = IF InitFirst THEN "derive" ELSE "check"
    OBVIOUS
  <2>2. boot \in 0..MaxBoots
    BY EnclaveAssumption
  <2>3. [Down EXCEPT !.pc = pc, !.boot = boot, !.build = b, !.env = env, !.cert = cert]
            \in Process
    BY <1>1, <2>2, DownIsProcess DEF Process
  <2> QED
    BY <2>1, <2>3
<1>4. q.pc \notin PastDerive
  BY DEF Down, PastDerive
<1> HIDE DEF q
<1>5. ProcessInv(q)
  BY <1>2, <1>3, <1>4
  DEF ProcessInv, Started, DerivedTogether, KnownToTheApp, ProductionDerives, Wired,
      PastAttest, PastWire
<1> QED
  BY <1>5 DEF q

LEMMA CheckReadyInv ==
    ASSUME NEW p, ProcessInv(p), p.pc = "check"
    PROVE  ProcessInv([p EXCEPT !.pc = IF IsProd(p.build) /\ ~p.setup THEN "unready"
                                       ELSE IF InitFirst THEN "serving" ELSE "derive"])
<1> DEFINE q == [p EXCEPT !.pc = IF IsProd(p.build) /\ ~p.setup THEN "unready"
                                 ELSE IF InitFirst THEN "serving" ELSE "derive"]
<1>1. p \in Process
  BY DEF ProcessInv
<1>2. q \in Process /\ q.pc \in {"unready", "serving", "derive"}
      /\ (q.pc = "serving" => InitFirst)
  BY <1>1 DEF Process
<1>3. q.boot = p.boot /\ q.build = p.build /\ q.env = p.env /\ q.cert = p.cert
      /\ q.got = p.got /\ q.keys = p.keys /\ q.mlkem = p.mlkem /\ q.refund = p.refund
      /\ q.platform = p.platform
  BY <1>1 DEF Process
<1> HIDE DEF q
<1>4. ProcessInv(q)
  BY <1>2, <1>3
  DEF ProcessInv, Started, DerivedTogether, KnownToTheApp, ProductionDerives, Wired,
      PastDerive, PastAttest, PastWire, Source, MlKemKey, SelectablePlatforms, RefundKeys
<1> QED
  BY <1>4 DEF q

LEMMA GetKeyInv ==
    ASSUME ReleasesTypeOK, NEW p, ProcessInv(p), MayDerive(p), KmsAnswers(p),
           p.got < DerivedKeys
    PROVE  ProcessInv([p EXCEPT !.got = @ + 1])
<1> DEFINE q == [p EXCEPT !.got = @ + 1]
<1>1. p \in Process
  BY DEF ProcessInv
<1>2. q \in Process
  BY <1>1 DEF Process, DerivedKeys
<1>3. q.pc = "derive" /\ q.boot = p.boot /\ q.build = p.build /\ q.env = p.env
      /\ q.cert = p.cert /\ q.keys = p.keys
  BY <1>1 DEF Process, MayDerive
<1>4. ~IsSimulator(p.env) => p.build \in everAllowed
  BY DEF KmsAnswers, ReleasesTypeOK
<1> HIDE DEF q
<1>5. ProcessInv(q)
  BY <1>2, <1>3, <1>4
  DEF ProcessInv, Started, DerivedTogether, KnownToTheApp, ProductionDerives, Wired,
      PastDerive, PastAttest, PastWire, Source, MayDerive
<1> QED
  BY <1>5 DEF q

LEMMA DerivedInv ==
    ASSUME NEW p, ProcessInv(p), MayDerive(p), p.got = DerivedKeys
    PROVE  ProcessInv([p EXCEPT !.pc = "attest", !.got = 0,
                                !.keys = [d \in KeyDomains |-> Source(p)]])
<1> DEFINE q == [p EXCEPT !.pc = "attest", !.got = 0,
                          !.keys = [d \in KeyDomains |-> Source(p)]]
<1>1. p \in Process /\ p.pc = "derive"
  BY DEF ProcessInv, MayDerive
<1>2. [d \in KeyDomains |-> Source(p)] \in [KeyDomains -> {NoKey, "kms", "sim"}]
  BY DEF Source
<1>3. q \in Process
  <2>1. 0 \in 0..DerivedKeys
    BY DEF DerivedKeys
  <2> QED
    BY <1>1, <1>2, <2>1 DEF Process
<1>4. q.pc = "attest" /\ q.boot = p.boot /\ q.build = p.build /\ q.env = p.env
      /\ q.cert = p.cert /\ q.got = 0 /\ q.keys = [d \in KeyDomains |-> Source(p)]
  BY <1>1 DEF Process
<1>5. Source(q) = Source(p)
  BY <1>4 DEF Source
<1> HIDE DEF q
<1>6. q.keys # NoKeys
  <2>1. q.keys["mlkem"] # NoKey /\ NoKeys["mlkem"] = NoKey
    BY <1>4 DEF KeyDomains, Source, NoKeys, NoKey
  <2> QED
    BY <2>1
<1>7. ~IsSimulator(p.env) => p.build \in everAllowed
  BY DEF ProcessInv, KnownToTheApp, DerivedKeys
<1>8. ProcessInv(q)
  BY <1>1, <1>3, <1>4, <1>5, <1>6, <1>7
  DEF ProcessInv, Started, DerivedTogether, KnownToTheApp, ProductionDerives, Wired,
      PastAttest, PastWire, PastDerive, MayDerive
<1> QED
  BY <1>8 DEF q

LEMMA DeriveFailsInv ==
    ASSUME NEW p, ProcessInv(p), MayDerive(p), ~Production(p.build)
    PROVE  ProcessInv([p EXCEPT !.pc = "attest", !.got = 0])
<1> DEFINE q == [p EXCEPT !.pc = "attest", !.got = 0]
<1>1. p \in Process /\ p.pc = "derive"
  BY DEF ProcessInv, MayDerive
<1>2. q \in Process
  <2>1. 0 \in 0..DerivedKeys
    BY DEF DerivedKeys
  <2> QED
    BY <1>1, <2>1 DEF Process
<1>3. q.pc = "attest" /\ q.boot = p.boot /\ q.build = p.build /\ q.env = p.env
      /\ q.cert = p.cert /\ q.got = 0 /\ q.keys = p.keys
  BY <1>1 DEF Process
<1> HIDE DEF q
<1>4. ProcessInv(q)
  BY <1>1, <1>2, <1>3
  DEF ProcessInv, Started, DerivedTogether, KnownToTheApp, ProductionDerives, Wired,
      PastAttest, PastWire, PastDerive, Source
<1> QED
  BY <1>4 DEF q

LEMMA MlKemType == ASSUME NEW p \in Process PROVE MlKemKey(p) \in {NoKey, "kms", "sim", "env"}
<1>1. p.keys["mlkem"] \in {NoKey, "kms", "sim"}
  BY DEF Process, KeyDomains
<1> QED
  BY <1>1 DEF MlKemKey

LEMMA PlatformType == ASSUME NEW p PROVE SelectablePlatforms(p) \subseteq Platforms
BY EnclaveAssumption DEF SelectablePlatforms, ProductionPlatforms, Platforms

LEMMA AttestInv ==
    ASSUME NEW p, ProcessInv(p), p.pc = "attest", NEW name \in SelectablePlatforms(p)
    PROVE  ProcessInv([p EXCEPT !.pc = "wire", !.platform = name, !.mlkem = MlKemKey(p)])
<1> DEFINE q == [p EXCEPT !.pc = "wire", !.platform = name, !.mlkem = MlKemKey(p)]
<1>1. p \in Process
  BY DEF ProcessInv
<1>2. q \in Process
  BY <1>1, MlKemType, PlatformType DEF Process
<1>3. q.pc = "wire" /\ q.boot = p.boot /\ q.build = p.build /\ q.env = p.env
      /\ q.cert = p.cert /\ q.got = p.got /\ q.keys = p.keys /\ q.mlkem = MlKemKey(p)
      /\ q.platform = name
  BY <1>1 DEF Process
<1> HIDE DEF q
<1>4. MlKemKey(q) = MlKemKey(p) /\ SelectablePlatforms(q) = SelectablePlatforms(p)
  BY <1>3 DEF MlKemKey, SelectablePlatforms
<1>5. ProcessInv(q)
  BY <1>2, <1>3, <1>4
  DEF ProcessInv, Started, DerivedTogether, KnownToTheApp, ProductionDerives, Wired,
      PastAttest, PastWire, PastDerive, Source
<1> QED
  BY <1>5 DEF q

LEMMA RefundType ==
    ASSUME NEW p \in Process
    PROVE  RefundKeys(p) \subseteq {NoKey, "kms", "sim", "env", "dev"}
<1>1. p.keys["refund"] \in {NoKey, "kms", "sim"}
  BY DEF Process, KeyDomains
<1> QED
  BY <1>1 DEF RefundKeys

LEMMA WireInv ==
    ASSUME NEW p, ProcessInv(p), p.pc = "wire", NEW key \in RefundKeys(p)
    PROVE  ProcessInv([p EXCEPT !.pc = "quote", !.refund = key,
                                !.setup = p.build \in Artifacts])
<1> DEFINE q == [p EXCEPT !.pc = "quote", !.refund = key, !.setup = p.build \in Artifacts]
<1>1. p \in Process
  BY DEF ProcessInv
<1>2. q \in Process
  <2>1. CASE p.build \in Artifacts
    <3>1. (p.build \in Artifacts) = TRUE
      BY <2>1, Zenon
    <3>2. [p EXCEPT !.pc = "quote", !.refund = key, !.setup = TRUE] \in Process
      BY <1>1, RefundType DEF Process
    <3> QED
      BY <3>1, <3>2, Zenon
  <2>2. CASE p.build \notin Artifacts
    <3>1. (p.build \in Artifacts) = FALSE
      BY <2>2, SMT
    <3>2. [p EXCEPT !.pc = "quote", !.refund = key, !.setup = FALSE] \in Process
      BY <1>1, RefundType DEF Process
    <3> QED
      BY <3>1, <3>2, Zenon
  <2> QED
    BY <2>1, <2>2
<1>3. q.pc = "quote" /\ q.boot = p.boot /\ q.build = p.build /\ q.env = p.env
      /\ q.cert = p.cert /\ q.got = p.got /\ q.keys = p.keys /\ q.mlkem = p.mlkem
      /\ q.platform = p.platform /\ q.refund = key
  BY <1>1 DEF Process
<1> HIDE DEF q
<1>4. MlKemKey(q) = MlKemKey(p) /\ SelectablePlatforms(q) = SelectablePlatforms(p)
      /\ RefundKeys(q) = RefundKeys(p)
  BY <1>3 DEF MlKemKey, SelectablePlatforms, RefundKeys
<1>5. ProcessInv(q)
  BY <1>2, <1>3, <1>4
  DEF ProcessInv, Started, DerivedTogether, KnownToTheApp, ProductionDerives, Wired,
      PastAttest, PastWire, PastDerive, Source
<1> QED
  BY <1>5 DEF q

LEMMA FirstQuoteInv ==
    ASSUME NEW p, ProcessInv(p), p.pc = "quote"
    PROVE  ProcessInv([p EXCEPT !.pc = IF InitFirst THEN "check" ELSE "serving"])
<1> DEFINE q == [p EXCEPT !.pc = IF InitFirst THEN "check" ELSE "serving"]
<1>1. p \in Process
  BY DEF ProcessInv
<1>2. q \in Process /\ q.pc \in {"check", "serving"}
  BY <1>1 DEF Process
<1>3. q.boot = p.boot /\ q.build = p.build /\ q.env = p.env
      /\ q.cert = p.cert /\ q.got = p.got /\ q.keys = p.keys /\ q.mlkem = p.mlkem
      /\ q.platform = p.platform /\ q.refund = p.refund
  BY <1>1 DEF Process
<1> HIDE DEF q
<1>4. MlKemKey(q) = MlKemKey(p) /\ SelectablePlatforms(q) = SelectablePlatforms(p)
      /\ RefundKeys(q) = RefundKeys(p)
  BY <1>3 DEF MlKemKey, SelectablePlatforms, RefundKeys
<1>5. ProcessInv(q)
  BY <1>2, <1>3, <1>4
  DEF ProcessInv, Started, DerivedTogether, KnownToTheApp, ProductionDerives, Wired,
      PastAttest, PastWire, PastDerive, Source
<1> QED
  BY <1>5 DEF q

(* A step changes one process; what the app has allowed only grows.        *)
LEMMA ProvenanceLasts ==
    ASSUME NEW p, ProcessInv(p), everAllowed \subseteq everAllowed'
    PROVE  ProcessInv(p)'
BY DEF ProcessInv, KnownToTheApp, Started, DerivedTogether, ProductionDerives, Wired

LEMMA OneProcess ==
    ASSUME EnclaveInv, NEW i \in Instances, NEW q, ProcessInv(q), everAllowed' = everAllowed,
           proc' = [proc EXCEPT ![i] = q], boots' \in 0..MaxBoots
    PROVE  EnclaveInv'
<1>1. proc' \in [Instances -> Process]
  BY DEF EnclaveInv, ProcessInv
<1>2. ASSUME NEW j \in Instances PROVE ProcessInv(proc[j])'
  <2>1. PICK p : p = proc'[j]
    OBVIOUS
  <2>2. ProcessInv(p)
    BY <2>1 DEF EnclaveInv
  <2>3. ProcessInv(p)'
    BY <2>2, ProvenanceLasts
  <2> QED
    BY <2>1, <2>3
<1> QED
  BY <1>1, <1>2 DEF EnclaveInv

LEMMA EnclaveStepInv ==
    ASSUME ReleasesTypeOK, EnclaveInv, NEW i \in Instances, EnclaveStep(i), everAllowed' = everAllowed
    PROVE  EnclaveInv'
<1>1. PICK p : p = proc[i]
  OBVIOUS
<1>2. ProcessInv(p) /\ boots \in 0..MaxBoots
  BY <1>1 DEF EnclaveInv
<1>3. ASSUME NEW d \in Deployments, Start(i, d[1], d[2]) PROVE EnclaveInv'
  <2>1. d[1] \in Builds /\ d[2] \in SUBSET EnvVars
    BY EnclaveAssumption
  <2>2. boots + 1 \in 1..MaxBoots /\ boots' = boots + 1
    BY <1>2, <1>3, EnclaveAssumption DEF Start
  <2>3. PICK boot \in 1..MaxBoots : boot = boots + 1
    BY <2>2
  <2>4. PICK cert \in TlsCertificates(d[1], d[2], boot) :
            proc' = [proc EXCEPT ![i] = [Down EXCEPT
                !.pc = IF InitFirst THEN "derive" ELSE "check",
                !.boot = boot, !.build = d[1], !.env = d[2], !.cert = cert]]
    BY <1>3, <2>3 DEF Start
  <2>5. ValidEnvironment(d[1], d[2])
    BY <1>3 DEF Start
  <2>6. boots' \in 0..MaxBoots
    BY <2>2, EnclaveAssumption
  <2> QED
    BY <2>1, <2>3, <2>4, <2>5, <2>6, StartInv, OneProcess
<1>4. CASE CheckReady(i)
  BY <1>1, <1>2, <1>4, CheckReadyInv, OneProcess DEF CheckReady
<1>5. CASE GetKey(i)
  BY <1>1, <1>2, <1>5, GetKeyInv, OneProcess DEF GetKey
<1>6. CASE Derived(i)
  <2>1. MayDerive(p) /\ p.got = DerivedKeys /\ boots' = boots
    BY <1>1, <1>6 DEF Derived
  <2>2. proc' = [proc EXCEPT ![i] =
            [p EXCEPT !.pc = "attest", !.got = 0, !.keys = [d \in KeyDomains |-> Source(p)]]]
    BY <1>1, <1>2, <1>6 DEF Derived, EnclaveInv, Process
  <2> QED
    BY <1>2, <2>1, <2>2, DerivedInv, OneProcess
<1>7. CASE DeriveFails(i)
  <2>1. MayDerive(p) /\ ~Production(p.build) /\ boots' = boots
    BY <1>1, <1>7 DEF DeriveFails
  <2>2. proc' = [proc EXCEPT ![i] = [p EXCEPT !.pc = "attest", !.got = 0]]
    BY <1>1, <1>2, <1>7 DEF DeriveFails, EnclaveInv, Process
  <2> QED
    BY <1>2, <2>1, <2>2, DeriveFailsInv, OneProcess
<1>8. CASE AttestationModuleInit(i)
  <2>1. PICK name \in SelectablePlatforms(p) :
            proc' = [proc EXCEPT ![i].pc = "wire", ![i].platform = name,
                                 ![i].mlkem = MlKemKey(p)]
    BY <1>1, <1>8 DEF AttestationModuleInit
  <2>2. p.pc = "attest" /\ boots' = boots
    BY <1>1, <1>8 DEF AttestationModuleInit
  <2>3. proc' = [proc EXCEPT ![i] =
            [p EXCEPT !.pc = "wire", !.platform = name, !.mlkem = MlKemKey(p)]]
    BY <1>1, <2>1 DEF EnclaveInv, Process
  <2> QED
    BY <1>2, <2>2, <2>3, AttestInv, OneProcess
<1>9. CASE LongjingModuleInit(i)
  <2>1. PICK key \in RefundKeys(p) :
            proc' = [proc EXCEPT ![i].pc = "quote", ![i].refund = key,
                                 ![i].setup = p.build \in Artifacts]
    BY <1>1, <1>9 DEF LongjingModuleInit
  <2>2. p.pc = "wire" /\ boots' = boots
    BY <1>1, <1>9 DEF LongjingModuleInit
  <2>3. proc' = [proc EXCEPT ![i] =
            [p EXCEPT !.pc = "quote", !.refund = key, !.setup = p.build \in Artifacts]]
    BY <1>1, <2>1 DEF EnclaveInv, Process
  <2> QED
    BY <1>2, <2>2, <2>3, WireInv, OneProcess
<1>10. CASE FirstQuote(i)
  BY <1>1, <1>2, <1>10, FirstQuoteInv, OneProcess DEF FirstQuote
<1>11. CASE Exit(i)
  BY <1>2, <1>11, DownInv, OneProcess DEF Exit
<1> QED
  BY <1>3, <1>4, <1>5, <1>6, <1>7, <1>8, <1>9, <1>10, <1>11 DEF EnclaveStep

LEMMA EnclaveBase == Init => EnclaveInv
BY DownInv, DownIsProcess, EnclaveAssumption DEF Init, EnclaveInit, EnclaveInv

LEMMA EnclaveInductive == ReleasesTypeOK /\ EnclaveInv /\ [Next]_vars => EnclaveInv'
<1> SUFFICES ASSUME ReleasesTypeOK, EnclaveInv, [Next]_vars PROVE EnclaveInv'
  OBVIOUS
<1>1. CASE (\E i \in Instances : EnclaveStep(i)) /\ UNCHANGED releaseVars
  BY <1>1, EnclaveStepInv DEF releaseVars, chainVars, appVars
<1>2. CASE UNCHANGED <<proc, boots>>
  <2>1. everAllowed \subseteq everAllowed'
    BY ReleaseStep, EverAllowedGrows
  <2>2. ASSUME NEW j \in Instances PROVE ProcessInv(proc[j])'
    <3>1. PICK p : p = proc[j]
      OBVIOUS
    <3>2. ProcessInv(p)'
      BY <2>1, <3>1, ProvenanceLasts DEF EnclaveInv
    <3> QED
      BY <1>2, <3>1, <3>2
  <2> QED
    BY <1>2, <2>2 DEF EnclaveInv
<1>3. VerifierStep => UNCHANGED <<proc, boots>>
  BY DEF VerifierStep, FetchAttestation, FetchKeyManifest, FetchServedTlsCertificate,
     VerifierReads, VerifyGovernance, VerifierEnds
<1> QED
  BY <1>1, <1>2, <1>3 DEF Next, vars

-----------------------------------------------------------------------------
(* What a serving process has, it has of its own boot and its own build.   *)

LEMMA CertificateOfBoot ==
    ASSUME NEW p, ProcessInv(p), p.pc = "serving"
    PROVE  /\ p.boot \in 1..MaxBoots
           /\ p.cert \in {NoCert, FileCert, p.boot}
BY DEF ProcessInv, Started, TlsCertificates

LEMMA DerivedKeysOfBuild ==
    ASSUME NEW p, ProcessInv(p), NEW d \in KeyDomains, p.keys[d] # NoKey
    PROVE  /\ \A e \in KeyDomains : p.keys[e] = Source(p)
           /\ Source(p) = "kms" => p.build \in everAllowed
<1>1. NoKeys[d] = NoKey
  BY DEF NoKeys
<1>2. p.keys # NoKeys
  BY <1>1
<1>3. p.keys = [e \in KeyDomains |-> Source(p)]
  BY <1>2 DEF ProcessInv, DerivedTogether
<1>4. Source(p) = "kms" => p.build \in everAllowed
  BY <1>2 DEF ProcessInv, KnownToTheApp, Source
<1> QED
  BY <1>3, <1>4

LEMMA BoundKeysType ==
    ASSUME NEW p \in Process
    PROVE  BoundKeys(p) \in BoundKeySet
<1>1. p.keys["identity"] \in {NoKey, "kms", "sim"} /\ p.keys["refund"] \in {NoKey, "kms", "sim"}
  BY DEF Process, KeyDomains
<1> QED
  BY <1>1 DEF BoundKeys, BoundKeySet, Process

LEMMA EvidenceOfProcess ==
    ASSUME NEW p, ProcessInv(p), NEW e \in Attestations(p, Nonce)
    PROVE  EvidenceInv(e)
<1>1. p.pc = "serving"
  BY DEF Attestations
<1>2. e.platform = p.platform /\ e.keys = BoundKeys(p) /\ e.by = p.boot /\ e.build = p.build
  BY DEF Attestations
<1>3. p \in Process
  BY DEF ProcessInv
<1>4. e.keys \in BoundKeySet
  BY <1>2, <1>3, BoundKeysType
<1>5. e.platform \in Platforms /\ e.build \in Builds /\ e.by \in 0..MaxBoots
  BY <1>2, <1>3 DEF Process
<1>6. e.keys.cert = p.cert /\ e.keys.identity = p.keys["identity"]
  BY <1>2 DEF BoundKeys
<1>7. e.keys.cert > 0 => e.by = e.keys.cert
  BY <1>1, <1>2, <1>6, CertificateOfBoot DEF NoCert, FileCert
<1>8. e.keys.identity = "kms" => e.build \in everAllowed
  <2>1. "identity" \in KeyDomains /\ "kms" # NoKey
    BY DEF KeyDomains, NoKey
  <2> QED
    BY <1>2, <1>6, <2>1, DerivedKeysOfBuild
<1> QED
  BY <1>4, <1>5, <1>7, <1>8 DEF EvidenceInv

LEMMA ManifestOfProcess ==
    ASSUME NEW p, ProcessInv(p), NEW m \in KeyManifests(p)
    PROVE  ManifestInv(m)
<1>1. p.pc = "serving" /\ p.keys["identity"] # NoKey
  BY DEF KeyManifests
<1>2. /\ m.app \in {App, OtherApp}
      /\ m.mlkem = p.keys["mlkem"] /\ m.refund = p.keys["refund"]
      /\ m.signer = p.keys["identity"] /\ m.cert = p.cert /\ m.by = p.boot
  BY DEF KeyManifests, AppIds
<1>3. p.cert \in {NoCert, FileCert} \cup 1..MaxBoots /\ p.boot \in 0..MaxBoots
  BY DEF ProcessInv, Process
<1>4. m.cert > 0 => m.by = m.cert
  BY <1>1, <1>2, CertificateOfBoot DEF NoCert, FileCert
<1>5. m.signer \in {"kms", "sim"} /\ m.mlkem = m.signer /\ m.refund = m.signer
  <2>1. {"mlkem", "refund", "identity"} \subseteq KeyDomains
    BY DEF KeyDomains
  <2>2. \A d \in KeyDomains : p.keys[d] = Source(p)
    BY <1>1, <2>1, DerivedKeysOfBuild
  <2> QED
    BY <1>2, <2>1, <2>2 DEF Source
<1> QED
  BY <1>2, <1>3, <1>4, <1>5 DEF ManifestInv

LEMMA ServedByProcess ==
    ASSUME EnclaveInv, NEW s \in ServedCertificates
    PROVE  ServedInv(s)
<1>1. CASE s = NotServed \/ s = Served(GatewayCert, 0)
  BY <1>1, EnclaveAssumption DEF NotServed, Served, ServedInv, NoCert, GatewayCert
<1>2. ASSUME NEW i \in Instances, proc[i].pc = "serving", s = Served(proc[i].cert, proc[i].boot)
      PROVE  ServedInv(s)
  <2>1. PICK p : p = proc[i]
    OBVIOUS
  <2>2. ProcessInv(p)
    BY <2>1 DEF EnclaveInv
  <2>3. p.boot \in 1..MaxBoots /\ p.cert \in {NoCert, FileCert, p.boot}
    BY <1>2, <2>1, <2>2, CertificateOfBoot
  <2>4. s.cert = p.cert /\ s.by = p.boot
    BY <1>2, <2>1 DEF Served
  <2> QED
    BY <2>3, <2>4, EnclaveAssumption DEF ServedInv, NoCert, FileCert
<1> QED
  BY <1>1, <1>2 DEF ServedCertificates

-----------------------------------------------------------------------------
(* The session keeps what its answers prove.                               *)

LEMMA NothingFetched ==
    /\ EvidenceInv(NoEvidence)
    /\ ManifestInv(NoManifest)
    /\ ServedInv(NotServed)
<1>1. NoEvidence.platform = "none" /\ NoEvidence.keys = BoundKeys(Down)
      /\ NoEvidence.by = 0 /\ NoEvidence.build = InitialBuild
  BY DEF NoEvidence
<1>2. BoundKeys(Down) \in BoundKeySet
  BY DownIsProcess, BoundKeysType
<1>3. BoundKeys(Down).cert = NoCert /\ BoundKeys(Down).identity = NoKey
  BY DEF BoundKeys, Down, NoKeys, KeyDomains
<1>4. EvidenceInv(NoEvidence)
  BY <1>1, <1>2, <1>3, ReleasesAssumption, EnclaveAssumption
  DEF EvidenceInv, Platforms, NoCert, NoKey
<1>5. ManifestInv(NoManifest)
  BY EnclaveAssumption DEF ManifestInv, NoManifest, NoCert, App, OtherApp
<1>6. ServedInv(NotServed)
  BY EnclaveAssumption DEF ServedInv, NotServed, Served, NoCert
<1> QED
  BY <1>4, <1>5, <1>6

LEMMA NoSessionFields ==
    /\ NoSession.pc = "start" /\ NoSession.app = FALSE /\ NoSession.evidence = NoEvidence
    /\ NoSession.manifest = NoManifest /\ NoSession.served = NotServed
BY DEF NoSession

LEMMA FreshSession == session = NoSession => SessionInv
<1> SUFFICES ASSUME session = NoSession PROVE SessionInv
  OBVIOUS
<1>1. SessionFields
  BY DEF SessionFields, NoSession
<1> QED
  BY <1>1, NothingFetched, NoSessionFields DEF SessionInv, Checked

(* Evidence outlives its process; the app still knows its build.           *)
LEMMA EvidenceLasts ==
    ASSUME NEW e, EvidenceInv(e), everAllowed \subseteq everAllowed'
    PROVE  EvidenceInv(e)'
BY DEF EvidenceInv

LEMMA SessionLasts ==
    ASSUME SessionInv, everAllowed \subseteq everAllowed', UNCHANGED session
    PROVE  SessionInv'
<1>1. PICK e : e = session.evidence
  OBVIOUS
<1>2. EvidenceInv(e)'
  BY <1>1, EvidenceLasts DEF SessionInv
<1>3. EvidenceInv(session.evidence)'
  BY <1>1, <1>2
<1> QED
  BY <1>3 DEF SessionInv, SessionFields, ManifestInv, ServedInv, Checked

LEMMA SessionStep ==
    ReleasesTypeOK /\ EnclaveInv /\ SessionInv /\ [Next]_vars => SessionInv'
<1> SUFFICES ASSUME ReleasesTypeOK, EnclaveInv, SessionInv, [Next]_vars PROVE SessionInv'
  OBVIOUS
<1>1. everAllowed \subseteq everAllowed'
  BY ReleaseStep, EverAllowedGrows
<1>2. CASE UNCHANGED session
  BY <1>1, <1>2, SessionLasts
<1>3. ASSUME NEW i \in Instances, FetchAttestation(i) PROVE SessionInv'
  <2>1. PICK e \in Attestations(proc[i], Nonce), app \in BOOLEAN :
            session' = [NoSession EXCEPT !.pc = "manifest", !.app = app, !.evidence = e]
    BY <1>3 DEF FetchAttestation
  <2>2. session' = [pc |-> "manifest", app |-> app, evidence |-> e, manifest |-> NoManifest,
                    served |-> NotServed]
    BY <2>1 DEF NoSession
  <2>3. EvidenceInv(e)
    BY EvidenceOfProcess DEF EnclaveInv
  <2>4. EvidenceInv(e)'
    BY <1>1, <2>3, EvidenceLasts
  <2>5. EvidenceInv(session.evidence)'
    BY <2>2, <2>4
  <2>6. SessionFields' /\ Checked'
    BY <2>2 DEF SessionFields, Checked
  <2>7. ManifestInv(session.manifest)' /\ ServedInv(session.served)'
    BY <2>2, NothingFetched DEF ManifestInv, ServedInv
  <2> QED
    BY <2>5, <2>6, <2>7 DEF SessionInv
<1>4. CASE FetchKeyManifest
  <2>1. PICK m \in {NoManifest} \cup UNION {KeyManifests(proc[i]) : i \in Instances} :
            session' = [session EXCEPT !.pc = "cert", !.manifest = m]
    BY <1>4 DEF FetchKeyManifest
  <2>2. ManifestInv(m)
    BY <2>1, NothingFetched, ManifestOfProcess DEF EnclaveInv
  <2>3. session' = [pc |-> "cert", app |-> session.app, evidence |-> session.evidence,
                    manifest |-> m, served |-> session.served]
    BY <2>1 DEF SessionInv, SessionFields
  <2>4. SessionFields' /\ Checked'
    BY <2>3 DEF SessionInv, SessionFields, Checked
  <2>5. PICK e : e = session.evidence
    OBVIOUS
  <2>6. EvidenceInv(e)'
    BY <1>1, <2>5, EvidenceLasts DEF SessionInv
  <2>7. EvidenceInv(session.evidence)'
    BY <2>3, <2>5, <2>6
  <2>8. ManifestInv(session.manifest)'
    BY <2>2, <2>3 DEF ManifestInv
  <2>9. ServedInv(session.served)'
    BY <2>3 DEF SessionInv, ServedInv
  <2> QED
    BY <2>4, <2>7, <2>8, <2>9 DEF SessionInv
<1>5. CASE FetchServedTlsCertificate
  <2>1. PICK s \in ServedCertificates :
            /\ VerifyKeyBinding(session.evidence, s, session.manifest)
            /\ session.app => NamesTheApp(session.manifest)
            /\ session' = [session EXCEPT
                   !.pc = IF session.app THEN "governance" ELSE "accepted", !.served = s]
    BY <1>5 DEF FetchServedTlsCertificate
  <2>2. PICK pc \in {"governance", "accepted"} :
            pc = IF session.app THEN "governance" ELSE "accepted"
    OBVIOUS
  <2>3. session' = [pc |-> pc, app |-> session.app, evidence |-> session.evidence,
                    manifest |-> session.manifest, served |-> s]
    BY <2>1, <2>2 DEF SessionInv, SessionFields
  <2>4. SessionFields'
    BY <2>3 DEF SessionInv, SessionFields
  <2>5. /\ s.cert # NoCert => s.cert = session.evidence.keys.cert
        /\ session.manifest # NoManifest => VerifyManifest(session.manifest, session.evidence.keys)
    BY <2>1 DEF VerifyKeyBinding
  <2>6. Checked'
    BY <2>1, <2>3, <2>5 DEF Checked, NamesTheApp, VerifyManifest
  <2>7. PICK e : e = session.evidence
    OBVIOUS
  <2>8. EvidenceInv(e)'
    BY <1>1, <2>7, EvidenceLasts DEF SessionInv
  <2>9. EvidenceInv(session.evidence)'
    BY <2>3, <2>7, <2>8
  <2>10. ManifestInv(session.manifest)'
    BY <2>3 DEF SessionInv, ManifestInv
  <2>11. ServedInv(session.served)'
    BY <2>3, ServedByProcess DEF ServedInv
  <2> QED
    BY <2>4, <2>6, <2>9, <2>10, <2>11 DEF SessionInv
<1>6. CASE VerifyGovernance
  <2>1. session.pc = "governance" /\ session' = [session EXCEPT !.pc = "accepted"]
    BY <1>6 DEF VerifyGovernance
  <2>2. session' = [pc |-> "accepted", app |-> session.app, evidence |-> session.evidence,
                    manifest |-> session.manifest, served |-> session.served]
    BY <2>1 DEF SessionInv, SessionFields
  <2>3. SessionFields'
    BY <2>2 DEF SessionInv, SessionFields
  <2>4. Checked'
    BY <2>1, <2>2 DEF SessionInv, Checked, NamesTheApp, VerifyManifest
  <2>5. PICK e : e = session.evidence
    OBVIOUS
  <2>6. EvidenceInv(e)'
    BY <1>1, <2>5, EvidenceLasts DEF SessionInv
  <2>7. EvidenceInv(session.evidence)'
    BY <2>2, <2>5, <2>6
  <2>8. ManifestInv(session.manifest)' /\ ServedInv(session.served)'
    BY <2>2 DEF SessionInv, ManifestInv, ServedInv
  <2> QED
    BY <2>3, <2>4, <2>7, <2>8 DEF SessionInv
<1>7. CASE VerifierEnds
  <2>1. session' = NoSession
    BY <1>7 DEF VerifierEnds
  <2>2. EvidenceInv(NoEvidence)'
    BY <1>1, NothingFetched, EvidenceLasts
  <2>3. EvidenceInv(session.evidence)'
    BY <2>1, <2>2, NoSessionFields
  <2>4. SessionFields'
    BY <2>1 DEF SessionFields, NoSession
  <2>5. ManifestInv(session.manifest)' /\ ServedInv(session.served)' /\ Checked'
    BY <2>1, NothingFetched, NoSessionFields DEF ManifestInv, ServedInv, Checked
  <2> QED
    BY <2>3, <2>4, <2>5 DEF SessionInv
<1>8. VerifierReads => UNCHANGED session
  BY DEF VerifierReads
<1> QED
  BY <1>2, <1>3, <1>4, <1>5, <1>6, <1>7, <1>8 DEF Next, VerifierStep, vars

LEMMA DeploymentInvariant == Spec => []DeploymentInv
<1>1. Init => DeploymentInv
  BY ReleaseTypesInit, EnclaveBase, FreshSession DEF Init, VerifierInit, DeploymentInv
<1>2. DeploymentInv /\ [Next]_vars => DeploymentInv'
  BY ReleaseTypesStep, EnclaveInductive, SessionStep DEF DeploymentInv
<1>3. QED
  BY <1>1, <1>2, PTL DEF Spec

-----------------------------------------------------------------------------
(* The chain, the processes and the verifier's session keep their types,   *)
(* whatever builds, environments and compose files there are.              *)
THEOREM DeploymentTypeTheorem == Spec => []TypeOK
<1>1. DeploymentInv => TypeOK
  BY DEF DeploymentInv, EnclaveInv, SessionInv, SessionFields, EvidenceInv, ManifestInv,
     ServedInv, TypeOK, EnclaveTypeOK
<1>2. QED
  BY <1>1, DeploymentInvariant, PTL

(* A process serves the keys it attests: they were derived together, the   *)
(* bound refund key is the one that signs, and a production build without  *)
(* the opt-out serves only keys that the KMS gave to a build of the app.   *)
THEOREM ServedKeysTheorem == Spec => []ServedKeysAreTheBoundKeys
<1>1. ASSUME NEW p, ProcessInv(p), p.pc = "serving"
      PROVE  /\ \A d, e \in KeyDomains : p.keys[d] = p.keys[e]
             /\ BoundKeys(p).refund \in {NoKey, p.refund}
             /\ Production(p.build) =>
                    /\ {p.mlkem, p.refund, p.keys["identity"]} = {"kms"}
                    /\ p.build \in everAllowed
                    /\ p.platform = "phala"
                    /\ p.cert = NoCert => "ALLOW_EXTERNAL_TLS_TERMINATION" \in Compose[p.build]
  <2>1. p.pc \in PastDerive /\ p.pc \in PastAttest /\ p.pc \in PastWire
    BY <1>1 DEF PastDerive, PastAttest, PastWire
  <2>2. /\ p.mlkem = MlKemKey(p)
        /\ p.platform \in SelectablePlatforms(p)
        /\ p.refund \in RefundKeys(p)
    BY <1>1, <2>1 DEF ProcessInv, Wired
  <2>3. \A d, e \in KeyDomains : p.keys[d] = p.keys[e]
    BY <1>1 DEF ProcessInv, DerivedTogether, NoKeys
  <2>4. BoundKeys(p).refund \in {NoKey, p.refund}
    BY <2>2 DEF BoundKeys, RefundKeys
  <2>5. ASSUME Production(p.build)
        PROVE  /\ {p.mlkem, p.refund, p.keys["identity"]} = {"kms"}
               /\ p.build \in everAllowed
               /\ p.platform = "phala"
               /\ p.cert = NoCert => "ALLOW_EXTERNAL_TLS_TERMINATION" \in Compose[p.build]
    <3>1. p.keys # NoKeys /\ ~IsSimulator(p.env)
      BY <1>1, <2>1, <2>5 DEF ProcessInv, ProductionDerives
    <3>2. p.keys = [d \in KeyDomains |-> "kms"] /\ p.build \in everAllowed
      BY <1>1, <3>1 DEF ProcessInv, DerivedTogether, KnownToTheApp, Source
    <3>3. p.keys["mlkem"] = "kms" /\ p.keys["refund"] = "kms" /\ p.keys["identity"] = "kms"
      BY <3>2 DEF KeyDomains
    <3>4. p.mlkem = "kms" /\ p.refund = "kms"
      BY <2>2, <3>3 DEF MlKemKey, RefundKeys, NoKey
    <3>5. p.platform = "phala"
      BY <2>2, <2>5 DEF SelectablePlatforms, ProductionPlatforms, Production
    <3>6. p.cert = NoCert => "ALLOW_EXTERNAL_TLS_TERMINATION" \in Compose[p.build]
      <4>1. p.cert \in TlsCertificates(p.build, p.env, p.boot) /\ p.boot \in 1..MaxBoots
            /\ NoKeyMaterialInEnv(p.build, p.env)
        BY <1>1 DEF ProcessInv, Started, ValidEnvironment
      <4>2. "TLS_PATHS" \notin p.env
        BY <2>5, <4>1 DEF NoKeyMaterialInEnv, KeyMaterial
      <4> QED
        BY <2>5, <4>1, <4>2 DEF TlsCertificates, Production, NoCert
    <3> QED
      BY <3>2, <3>3, <3>4, <3>5, <3>6
  <2> QED
    BY <2>3, <2>4, <2>5
<1>2. DeploymentInv => ServedKeysAreTheBoundKeys
  BY <1>1 DEF DeploymentInv, EnclaveInv, ServedKeysAreTheBoundKeys
<1>3. QED
  BY <1>2, DeploymentInvariant, PTL

(* An accepted session in which a certificate was seen is one enclave's:   *)
(* the gateway's certificate is never accepted, and a certificate of       *)
(* dstack ties the evidence, the TLS session and the manifest to one boot, *)
(* however many processes answered the three fetches.                      *)
THEOREM OneEnclaveTheorem == Spec => []AcceptedSessionIsOneEnclave
<1>1. ASSUME DeploymentInv, session.pc = "accepted", session.served.cert # NoCert
      PROVE  /\ session.served.by # 0
             /\ session.evidence.keys.cert > 0 =>
                    /\ session.served.by = session.evidence.by
                    /\ session.manifest # NoManifest => session.manifest.by = session.evidence.by
  <2>1. /\ session.served.cert = session.evidence.keys.cert
        /\ session.manifest # NoManifest => session.manifest.cert = session.evidence.keys.cert
    BY <1>1 DEF DeploymentInv, SessionInv, Checked, VerifyManifest
  <2>2. session.evidence.keys.cert \in {NoCert, FileCert} \cup 1..MaxBoots
    BY <1>1 DEF DeploymentInv, SessionInv, EvidenceInv, BoundKeySet
  <2>3. session.served.cert \notin {NoCert, GatewayCert}
    BY <1>1, <2>1, <2>2, EnclaveAssumption DEF NoCert, FileCert, GatewayCert
  <2>4. /\ session.served.by = 0 => session.served.cert \in {NoCert, GatewayCert}
        /\ session.served.cert > 0 => session.served.by = session.served.cert
        /\ session.manifest.cert > 0 => session.manifest.by = session.manifest.cert
        /\ session.evidence.keys.cert > 0 => session.evidence.by = session.evidence.keys.cert
    BY <1>1 DEF DeploymentInv, SessionInv, ServedInv, ManifestInv, EvidenceInv
  <2> QED
    BY <2>1, <2>3, <2>4
<1>2. DeploymentInv => AcceptedSessionIsOneEnclave
  BY <1>1 DEF AcceptedSessionIsOneEnclave
<1>3. QED
  BY <1>2, DeploymentInvariant, PTL

(* What --app adds: the three keys of accepted evidence were derived       *)
(* together by one guest agent, and if that agent's are the KMS's, for a   *)
(* build the app has allowed. Keys from the environment are never accepted *)
(* with it, whatever a simulator calls its app.                            *)
THEOREM DerivedKeysTheorem == Spec => []AcceptedKeysAreDerived
<1>1. ASSUME DeploymentInv, session.pc = "accepted", session.app
      PROVE  \E agent \in {"kms", "sim"} :
                 /\ {session.evidence.keys.mlkem, session.evidence.keys.identity,
                     session.evidence.keys.refund} = {agent}
                 /\ agent = "kms" => session.evidence.build \in everAllowed
  <2>1. session.manifest # NoManifest /\ session.manifest.app = App
    BY <1>1 DEF DeploymentInv, SessionInv, Checked, NamesTheApp
  <2>2. VerifyManifest(session.manifest, session.evidence.keys)
    BY <1>1, <2>1 DEF DeploymentInv, SessionInv, Checked
  <2>3. PICK agent \in {"kms", "sim"} :
            /\ session.manifest.mlkem = agent /\ session.manifest.refund = agent
            /\ session.manifest.signer = agent
    BY <1>1, <2>1 DEF DeploymentInv, SessionInv, ManifestInv, App
  <2>4. /\ session.evidence.keys.mlkem = agent /\ session.evidence.keys.refund = agent
        /\ session.evidence.keys.identity = agent
    BY <2>2, <2>3 DEF VerifyManifest
  <2>5. agent = "kms" => session.evidence.build \in everAllowed
    BY <1>1, <2>4 DEF DeploymentInv, SessionInv, EvidenceInv
  <2> WITNESS agent \in {"kms", "sim"}
  <2> QED
    BY <2>4, <2>5
<1>2. DeploymentInv => AcceptedKeysAreDerived
  BY <1>1 DEF AcceptedKeysAreDerived
<1>3. QED
  BY <1>2, DeploymentInvariant, PTL

(* A report of governance is good for a delay also when the deployment     *)
(* runs around it and the verifier shares its reader with the proposer.    *)
THEOREM DeploymentReportTheorem == Spec => []ReportsAreGoodForADelay
BY DeploymentUsesReleases, ReportTheorem, PTL
=============================================================================
