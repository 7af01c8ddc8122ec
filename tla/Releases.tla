------------------------------ MODULE Releases ------------------------------
(***************************************************************************)
(* Who may run Longjing: the compose hashes (builds) that the DstackApp    *)
(* allows, the LongjingAppOwner that owns it, the timelock behind the      *)
(* LongjingAppOwner, the guardian, the script that proposes a release, and *)
(* the reads of readAppGovernance, which the proposer and the verifier     *)
(* both make.                                                              *)
(*                                                                         *)
(* DstackApp, the Safe and OpenZeppelin's TimelockController are external: *)
(* they are modelled from the calls LongjingAppOwner and the scripts make. *)
(* "account" is an owner that is no LongjingAppOwner: the deployer before  *)
(* the handover, or a successor the timelock hands the app to. "nobody" is *)
(* the owner after renounceOwnership.                                      *)
(*                                                                         *)
(* Besides the script's batches the Safe may schedule batches it writes    *)
(* itself (HandMade): any calls to the app, updateDelay and setGuardian.   *)
(* Role changes of the timelock and the app's other settings are left out: *)
(* whoever proposes waits for the delay, and no setting adds a build.      *)
(*                                                                         *)
(* read[r] holds what one run of readAppGovernance has read so far, and    *)
(* four facts about the chain when it read the owner, which no code keeps: *)
(* the time, the delay in force, the builds that were allowed or           *)
(* scheduled, and whether a change of the rules themselves was under way.  *)
(***************************************************************************)
EXTENDS Integers

CONSTANTS
    Builds,        \* compose hashes
    InitialBuild,  \* allowed when the app is created
    Publishable,   \* builds whose app-compose.json passes checkAppCompose
    Salts,         \* salts of timelock operations
    HandMade,      \* batches the Safe may write by hand
    Readers,       \* runs of readAppGovernance
    InitialDelay,  \* the delay the timelock is deployed with
    MaxWait,       \* bound on the delay an operation is scheduled with
    MaxTime,       \* bound on the clock
    MaxTransactions \* bound on the transactions the chain mines

Keep == -1
Unset == -1
Done == -2

Owners == {"appOwner", "account", "nobody"}

(* A timelock operation by what its calls amount to.                       *)
Batch ==
    [adds : SUBSET Builds, retires : SUBSET Builds,
     transfer : {"keep", "none"} \cup Owners, upgrade : BOOLEAN,
     guardian : {"keep", "set", "none"}, delay : Nat \cup {Keep}, salt : Salts]

ASSUME ReleasesAssumption ==
    /\ InitialBuild \in Builds
    /\ Publishable \subseteq Builds
    /\ Builds \subseteq Salts
    /\ HandMade \subseteq Batch
    /\ {InitialDelay, MaxWait, MaxTime, MaxTransactions} \subseteq Nat

NoCalls ==
    [adds |-> {}, retires |-> {}, transfer |-> "keep", upgrade |-> FALSE,
     guardian |-> "keep", delay |-> Keep, salt |-> InitialBuild]

(* A release's batch; its salt is the compose hash.                        *)
Release(b, old) == [NoCalls EXCEPT !.adds = {b}, !.retires = old, !.salt = b]

Operations == HandMade \cup {Release(b, old) : b \in Publishable, old \in SUBSET Builds}

VARIABLES
    now,           \* block time
    mined,         \* transactions mined so far
    allowed,       \* DstackApp.allowedComposeHashes
    added,         \* builds with a ComposeHashAdded event
    everAllowed,   \* builds that were allowed at some time; no code keeps it
    owner,         \* DstackApp.owner
    pendingOwner,  \* DstackApp.pendingOwner
    upgraded,      \* the DstackApp's logic was replaced
    guardian,      \* LongjingAppOwner.guardian is set
    delay,         \* TimelockController.getMinDelay
    files,         \* release batches written by propose-release
    timelock,      \* the time each operation is ready at, Unset or Done
    read           \* the runs of readAppGovernance

appVars == <<allowed, added, everAllowed, owner, pendingOwner, upgraded>>
chainVars == <<mined, appVars, guardian, delay>>
releaseVars == <<now, chainVars, files, timelock, read>>

Reads == {"owner", "pendingOwner", "timelock", "history"}

Reading ==
    [todo : SUBSET Reads, unread : SUBSET Builds, owner : {"none"} \cup Owners,
     pendingOwner : {"none"} \cup Owners, delay : Nat, allowed : SUBSET Builds,
     at : 0..MaxTime, promised : Nat, public : SUBSET Builds, changing : BOOLEAN]

Unread ==
    [todo |-> Reads, unread |-> {}, owner |-> "none", pendingOwner |-> "none", delay |-> 0,
     allowed |-> {}, at |-> 0, promised |-> 0, public |-> {}, changing |-> FALSE]

ReleasesTypeOK ==
    /\ now \in 0..MaxTime
    /\ mined \in 0..MaxTransactions
    /\ allowed \subseteq everAllowed
    /\ everAllowed \subseteq Builds
    /\ added \subseteq Builds
    /\ ~upgraded => allowed \subseteq added
    /\ owner \in Owners
    /\ pendingOwner \in {"none"} \cup Owners
    /\ upgraded \in BOOLEAN
    /\ guardian \in BOOLEAN
    /\ delay \in Nat
    /\ files \subseteq Operations
    /\ timelock \in [Operations -> Nat \cup {Unset, Done}]
    /\ read \in [Readers -> Reading]

(* The app before or after its handover to the LongjingAppOwner.           *)
ReleasesInit ==
    /\ now = 0
    /\ mined = 0
    /\ allowed = {InitialBuild}
    /\ added = {InitialBuild}
    /\ everAllowed = {InitialBuild}
    /\ owner \in {"appOwner", "account"}
    /\ pendingOwner = "none"
    /\ upgraded = FALSE
    /\ guardian = TRUE
    /\ delay = InitialDelay
    /\ files = {}
    /\ timelock = [o \in Operations |-> Unset]
    /\ read = [r \in Readers |-> Unread]

-----------------------------------------------------------------------------
(* A transaction is mined.                                                 *)
Mine == mined < MaxTransactions /\ mined' = mined + 1

(* The app's owner calls it. renounceOwnership also drops a pending owner. *)
CallApp(o) ==
    /\ allowed' = (allowed \cup o.adds) \ o.retires
    /\ added' = added \cup o.adds
    /\ everAllowed' = everAllowed \cup o.adds
    /\ owner' = IF o.transfer = "nobody" THEN "nobody" ELSE owner
    /\ pendingOwner' = CASE o.transfer = "keep"   -> pendingOwner
                         [] o.transfer = "nobody" -> "none"
                         [] OTHER                 -> o.transfer
    /\ upgraded' = (upgraded \/ o.upgrade)

CallsTheApp(o) ==
    o.adds \cup o.retires # {} \/ o.transfer # "keep" \/ o.upgrade

(* An account that owns the app calls it without delay.                    *)
AccountCalls(o) ==
    /\ Mine
    /\ owner = "account"
    /\ CallApp(o)
    /\ UNCHANGED <<now, guardian, delay, files, timelock, read>>

SingleCalls ==
    {[NoCalls EXCEPT !.adds = {b}] : b \in Builds}
        \cup {[NoCalls EXCEPT !.retires = {b}] : b \in Builds}
        \cup {[NoCalls EXCEPT !.transfer = t] : t \in {"none"} \cup Owners}
        \cup {[NoCalls EXCEPT !.upgrade = TRUE]}

(* Replaced logic may do anything: it allows a build with no event, and    *)
(* answers any owner.                                                      *)
UpgradedAppActs(b, o) ==
    /\ Mine
    /\ upgraded
    /\ allowed' = allowed \cup {b}
    /\ everAllowed' = everAllowed \cup {b}
    /\ owner' = o
    /\ UNCHANGED <<now, added, pendingOwner, upgraded, guardian, delay, files, timelock, read>>

(* The second step of a transfer; anyone may call the LongjingAppOwner's.  *)
AcceptOwnership ==
    /\ Mine
    /\ pendingOwner # "none"
    /\ owner' = pendingOwner
    /\ pendingOwner' = "none"
    /\ UNCHANGED <<now, allowed, added, everAllowed, upgraded, guardian, delay, files,
                   timelock, read>>

(* LongjingAppOwner.removeComposeHash: the guardian's, without delay.      *)
GuardianRemoves(b) ==
    /\ Mine
    /\ guardian
    /\ owner = "appOwner"
    /\ allowed' = allowed \ {b}
    /\ UNCHANGED <<now, added, everAllowed, owner, pendingOwner, upgraded, guardian, delay,
                   files, timelock, read>>

-----------------------------------------------------------------------------
(* readAppGovernance: one call to the chain per step. The LongjingAppOwner *)
(* app() and timelock() never change, and guardian() only makes a warning: *)
(* they are read with the timelock's delay.                                *)

Pending == {o \in Operations : timelock[o] >= 0}

(* The builds that are allowed or scheduled, and whether the rules are     *)
(* about to change: what anyone can see.                                   *)
Public == allowed \cup UNION {o.adds : o \in Pending}

ChangesTheRules(o) == o.transfer # "keep" \/ o.upgrade \/ o.delay # Keep

RulesChange == pendingOwner # "none" \/ upgraded \/ \E o \in Pending : ChangesTheRules(o)

ReadOwner(r) ==
    /\ "owner" \in read[r].todo
    /\ read' = [read EXCEPT
            ![r].todo = @ \ {"owner"},
            ![r].owner = owner,
            ![r].at = now,
            ![r].promised = delay,
            ![r].public = Public,
            ![r].changing = RulesChange]
    /\ UNCHANGED <<now, chainVars, files, timelock>>

ReadPendingOwner(r) ==
    /\ "pendingOwner" \in read[r].todo
    /\ read' = [read EXCEPT
            ![r].todo = @ \ {"pendingOwner"},
            ![r].pendingOwner = pendingOwner]
    /\ UNCHANGED <<now, chainVars, files, timelock>>

(* readAppOwner and readTimelock, of the owner read before. An owner that  *)
(* is no LongjingAppOwner has no delay.                                    *)
ReadTimelock(r) ==
    /\ read[r].todo = {"timelock", "history"}
    /\ read' = [read EXCEPT
            ![r].todo = {"history"},
            ![r].delay = IF read[r].owner = "appOwner" THEN delay ELSE 0]
    /\ UNCHANGED <<now, chainVars, files, timelock>>

(* readHistory: the events up to the block read first.                     *)
ReadHistory(r) ==
    /\ read[r].todo = {"history"}
    /\ read' = [read EXCEPT ![r].todo = {}, ![r].unread = added]
    /\ UNCHANGED <<now, chainVars, files, timelock>>

ReadAllowed(r, b) ==
    /\ b \in read[r].unread
    /\ read' = [read EXCEPT
            ![r].unread = @ \ {b},
            ![r].allowed = @ \cup (allowed \cap {b})]
    /\ UNCHANGED <<now, chainVars, files, timelock>>

ReadComplete(r) == read[r].todo = {} /\ read[r].unread = {}

ReadStep(r) ==
    \/ ReadOwner(r)
    \/ ReadPendingOwner(r)
    \/ ReadTimelock(r)
    \/ ReadHistory(r)
    \/ \E b \in Builds : ReadAllowed(r, b)

-----------------------------------------------------------------------------
(* A release: proposed by the script, scheduled and executed by the Safe.  *)

(* buildReleaseBatch: add the build, remove every other one read allowed.  *)
ReleaseBatch(b, seen) == Release(b, seen \ {b})

(* propose-release: refuses an app no LongjingAppOwner owns.               *)
Propose(r, b) ==
    /\ ReadComplete(r)
    /\ read[r].owner = "appOwner"
    /\ b \in Publishable
    /\ files' = files \cup {ReleaseBatch(b, read[r].allowed)}
    /\ read' = [read EXCEPT ![r] = Unread]
    /\ UNCHANGED <<now, chainVars, timelock>>

(* The script ends, or ends with an error.                                 *)
GiveUp(r) ==
    /\ read[r] # Unread
    /\ read' = [read EXCEPT ![r] = Unread]
    /\ UNCHANGED <<now, chainVars, files, timelock>>

(* The Safe schedules a batch of the script or one of its own, with at     *)
(* least the timelock's delay: the one the script read, or any it writes.  *)
(* An operation that was executed stays done.                              *)
Schedule(o, wait) ==
    /\ Mine
    /\ o \in files \cup HandMade
    /\ timelock[o] = Unset
    /\ wait >= delay
    /\ timelock' = [timelock EXCEPT ![o] = now + wait]
    /\ UNCHANGED <<now, appVars, guardian, delay, files, read>>

Cancel(o) ==
    /\ Mine
    /\ timelock[o] >= 0
    /\ timelock' = [timelock EXCEPT ![o] = Unset]
    /\ UNCHANGED <<now, appVars, guardian, delay, files, read>>

Ready(o) == timelock[o] \in 0..now

(* A mutant of Execute: LongjingAppOwner.execute without onlyTimelock.     *)
Execute_Anyone(o) ==
    /\ Mine
    /\ CallsTheApp(o) => owner = "appOwner"
    /\ CallApp(o)
    /\ guardian' = IF o.guardian = "keep" THEN guardian ELSE o.guardian = "set"
    /\ delay' = IF o.delay = Keep THEN delay ELSE o.delay
    /\ timelock' = [timelock EXCEPT ![o] = Done]
    /\ UNCHANGED <<now, files, read>>

(* executeBatch: LongjingAppOwner.execute forwards calls to the app, which *)
(* refuses them from an owner it no longer has; LongjingAppOwner's own     *)
(* setGuardian; the timelock's updateDelay.                                *)
Execute(o) ==
    /\ Mine
    /\ Ready(o)
    /\ CallsTheApp(o) => owner = "appOwner"
    /\ CallApp(o)
    /\ guardian' = IF o.guardian = "keep" THEN guardian ELSE o.guardian = "set"
    /\ delay' = IF o.delay = Keep THEN delay ELSE o.delay
    /\ timelock' = [timelock EXCEPT ![o] = Done]
    /\ UNCHANGED <<now, files, read>>

NextBlock ==
    /\ now < MaxTime
    /\ now' = now + 1
    /\ UNCHANGED <<chainVars, files, timelock, read>>

ChainStep ==
    \/ \E o \in SingleCalls : AccountCalls(o)
    \/ \E b \in Builds, o \in Owners : UpgradedAppActs(b, o)
    \/ AcceptOwnership
    \/ \E b \in Builds : GuardianRemoves(b)
    \/ \E o \in Operations, wait \in 0..MaxWait : Schedule(o, wait)
    \/ \E o \in Operations : Cancel(o) \/ Execute(o)
    \/ NextBlock

ScriptStep(r) ==
    \/ ReadStep(r)
    \/ \E b \in Builds : Propose(r, b)
    \/ GiveUp(r)

ReleasesNext == ChainStep \/ \E r \in Readers : ScriptStep(r)

ReleasesSpec == ReleasesInit /\ [][ReleasesNext]_releaseVars

-----------------------------------------------------------------------------
(* A report is good for a delay: once readAppGovernance has read that the  *)
(* LongjingAppOwner owns the app, and unless a change of the rules was     *)
(* then already under way (a transfer, an upgrade, a new delay, pending or *)
(* scheduled), no build can be allowed before a full timelock delay has    *)
(* passed that was not allowed or publicly scheduled at that read, and the *)
(* delay the report names is the one that protects it. That is the promise *)
(* of docs/GOVERNANCE.md, whatever the Safe writes into its batches, the   *)
(* guardian and the proposer do in the meantime.                           *)
Good(r) ==
    /\ read[r].owner = "appOwner"
    /\ ~read[r].changing
    /\ now < read[r].at + read[r].promised

ReportsAreGoodForADelay ==
    \A r \in Readers : Good(r) =>
        /\ allowed \subseteq read[r].public
        /\ "timelock" \notin read[r].todo => read[r].delay = read[r].promised

=============================================================================
