---------------------------- MODULE ExitWatcher ----------------------------
(***************************************************************************)
(* How the gateway learns of exits in production: BlockchainService        *)
(* connects to the contract (at boot, then by a retry timer) and runs the  *)
(* handlers that wait for it; ExitWatcherService's handler replays the     *)
(* recent WithdrawalInitiated events, then subscribes to new ones, and     *)
(* ingests each: the exit's nullifier is recorded, and if a request        *)
(* already used it the note is slashed.                                    *)
(*                                                                         *)
(* Time is the chain's block number.  Each await of the code ends in an    *)
(* action of its own; the RPC may fail at any of them.  Two things are     *)
(* external: ethers' polling for the events of blocks after the one it     *)
(* subscribed at, and the death and start of the process.                  *)
(***************************************************************************)
EXTENDS Integers, FiniteSets

CONSTANTS
    Exits,         \* the WithdrawalInitiated events of a behaviour (a bound)
    Understated,   \* the exits whose claimed index a request already used
    NoExit,
    Lookback,      \* WITHDRAWAL_LOOKBACK_BLOCKS
    Window,        \* CHALLENGE_WINDOW, in blocks
    MaxBlock,      \* bound: the chain stops here
    MaxRestarts    \* bound: how often the process dies and is started again

ASSUME WatcherAssumption ==
    /\ Understated \subseteq Exits /\ NoExit \notin Exits
    /\ Lookback \in Nat /\ Window \in Nat /\ Window <= Lookback
    /\ MaxBlock \in Nat /\ MaxRestarts \in Nat

VARIABLES
    block,       \* the chain's latest block
    minedAt,     \* exit -> its block, 0 before it is mined
    up,          \* the process: "boot" (onModuleInit), "init", "starting"
                 \* (onApplicationBootstrap), "running" (it serves) or "dead"
    conn,        \* where connectProd is
    handler,     \* connectedHandlers: "unregistered", "queued" or "taken"
    watch,       \* where watchWithdrawals is
    lookFrom,    \* the first block queryFilter asks for
    backlog,     \* past exits still to be handled
    current,     \* the past exit whose handler is awaited, or NoExit
    polled,      \* the last block the subscription has delivered
    recorded,    \* exits whose nullifier is in the store (SQLite)
    slash,       \* exit -> its slash: "none", "sent", "mined" or "failed"
    restarts,
    ingested,    \* history: exits this run of the process has handled
    queriedAt    \* history: the block queryFilter answered at

chainVars == <<block, minedAt>>
connVars  == <<up, conn, handler>>
watchVars == <<watch, lookFrom, backlog, current, polled, queriedAt>>
storeVars == <<recorded, slash, ingested>>
vars == <<chainVars, connVars, watchVars, storeVars, restarts>>

Connecting == {"chain", "cmax", "keys"}

Watching == {"height", "query", "replay", "subscribe", "live"}

(* isAvailable: build() has set contract and provider, disconnect() unset  *)
(* them.                                                                   *)
IsAvailable == conn \in {"cmax", "keys", "ready"}

Min0(a) == IF a < 0 THEN 0 ELSE a

Mined(e) == minedAt[e] # 0

(* The exits mined in blocks a..b, which is what an event query returns.   *)
ExitsIn(a, b) == {e \in Exits : Mined(e) /\ a <= minedAt[e] /\ minedAt[e] <= b}

-----------------------------------------------------------------------------
Init ==
    /\ block = 1
    /\ minedAt = [e \in Exits |-> 0]
    /\ up = "boot"
    /\ conn = "chain"
    /\ handler = "unregistered"
    /\ watch = "off"
    /\ lookFrom = 0 /\ backlog = {} /\ current = NoExit /\ polled = 0 /\ queriedAt = 0
    /\ recorded = {}
    /\ slash = [e \in Exits |-> "none"]
    /\ ingested = {}
    /\ restarts = 0

(* The chain: a block, with any of the exits in it.                        *)
Mine ==
    /\ block < MaxBlock
    /\ block' = block + 1
    /\ \E S \in SUBSET {e \in Exits : ~Mined(e)} :
          minedAt' = [e \in Exits |-> IF e \in S THEN block + 1 ELSE minedAt[e]]
    /\ UNCHANGED <<connVars, watchVars, storeVars, restarts>>

-----------------------------------------------------------------------------
(* connectProd *)

(* fetchChainId answered with the right chain; build() sets the contract.  *)
ChainAnswers ==
    /\ conn = "chain" /\ up # "dead"
    /\ conn' = "cmax"
    /\ UNCHANGED <<chainVars, up, handler, watchVars, storeVars, restarts>>

CMaxAnswers ==
    /\ conn = "cmax" /\ up # "dead"
    /\ conn' = "keys"
    /\ UNCHANGED <<chainVars, up, handler, watchVars, storeVars, restarts>>

(* watchWithdrawals starts: it awaits getBlockNumber.                      *)
StartWatch == watch' = "height"

(* Mutant: only the connection made at boot runs the waiting handlers.     *)
KeysAnswer_AtBoot ==
    /\ conn = "keys" /\ up # "dead"
    /\ conn' = "ready"
    /\ up' = IF up = "boot" THEN "init" ELSE up
    /\ IF handler = "queued" /\ up = "boot"
       THEN handler' = "taken" /\ StartWatch
       ELSE UNCHANGED <<handler, watch>>
    /\ UNCHANGED <<chainVars, lookFrom, backlog, current, polled, queriedAt,
                   storeVars, restarts>>

(* checkServerKeys passed; the waiting handlers are taken and run.         *)
KeysAnswer ==
    /\ conn = "keys" /\ up # "dead"
    /\ conn' = "ready"
    /\ up' = IF up = "boot" THEN "init" ELSE up
    /\ IF handler = "queued"
       THEN handler' = "taken" /\ StartWatch
       ELSE UNCHANGED <<handler, watch>>
    /\ UNCHANGED <<chainVars, lookFrom, backlog, current, polled, queriedAt,
                   storeVars, restarts>>

(* disconnect() destroys the provider: a watch that awaits it is rejected  *)
(* (which ends the process if onApplicationBootstrap awaits the watch), a  *)
(* subscription is silent from then on, and a replay goes on without it.   *)
Disconnect(otherwise) ==
    /\ watch' = CASE watch \in {"height", "query", "live"} -> "failed"
                  [] watch \in {"replay", "subscribe"}      -> "orphaned"
                  [] OTHER                                  -> watch
    /\ up' = IF up = "starting" /\ watch \in {"height", "query"} THEN "dead" ELSE otherwise

(* An await of connectProd failed: retry in CONNECT_RETRY_MS.              *)
ConnectFails ==
    /\ conn \in Connecting /\ up # "dead"
    /\ conn' = "waiting"
    /\ Disconnect(IF up = "boot" THEN "init" ELSE up)
    /\ UNCHANGED <<chainVars, handler, lookFrom, backlog, current, polled, queriedAt,
                   storeVars, restarts>>

RetryFires ==
    /\ conn = "waiting" /\ up # "dead"
    /\ conn' = "chain"
    /\ UNCHANGED <<chainVars, up, handler, watchVars, storeVars, restarts>>

(* The wrong chain or refund key: refuses to start at boot, and is final   *)
(* when found later.                                                       *)
Misconfigured ==
    /\ conn \in {"chain", "keys"} /\ up # "dead"
    /\ conn' = "refused"
    /\ Disconnect(IF up = "boot" THEN "dead" ELSE up)
    /\ UNCHANGED <<chainVars, handler, lookFrom, backlog, current, polled, queriedAt,
                   storeVars, restarts>>

(* onApplicationBootstrap: onConnected runs the handler now, and the       *)
(* process serves once it returns, or queues it and the process serves.    *)
Bootstrap ==
    /\ up = "init"
    /\ IF IsAvailable
       THEN up' = "starting" /\ handler' = "taken" /\ StartWatch
       ELSE up' = "running" /\ handler' = "queued" /\ UNCHANGED watch
    /\ UNCHANGED <<chainVars, conn, lookFrom, backlog, current, polled, queriedAt,
                   storeVars, restarts>>

-----------------------------------------------------------------------------
(* watchWithdrawals *)

(* Mutant: the query starts one block late.                                *)
LookFrom_Late(latest) == Min0(latest - Lookback) + 2

(* Mutant: the first block is not kept at or above zero.                   *)
LookFrom_Unclamped(latest) == latest - Lookback

LookFrom(latest) == Min0(latest - Lookback)

HeightAnswers ==
    /\ watch = "height" /\ IsAvailable
    /\ lookFrom' = LookFrom(block)
    /\ watch' = "query"
    /\ UNCHANGED <<chainVars, connVars, backlog, current, polled, queriedAt,
                   storeVars, restarts>>

QueryAnswers ==
    /\ watch = "query" /\ IsAvailable
    /\ backlog' = ExitsIn(lookFrom, block)
    /\ queriedAt' = block
    /\ watch' = "replay"
    /\ UNCHANGED <<chainVars, connVars, lookFrom, current, polled, storeVars, restarts>>

(* getBlockNumber or queryFilter rejected: onApplicationBootstrap rejects  *)
(* and the process ends, or connectProd logs it and the handler is gone.   *)
WatchFails ==
    /\ watch \in {"height", "query"}
    /\ watch' = "failed"
    /\ up' = IF up = "starting" THEN "dead" ELSE up
    /\ UNCHANGED <<chainVars, conn, handler, lookFrom, backlog, current, polled, queriedAt,
                   storeVars, restarts>>

(* Mutant: an exit that was challenged once is not challenged again.       *)
Ingest_Once(S) ==
    /\ recorded' = recorded \cup (S \ Understated)
    /\ ingested' = ingested \cup S
    /\ slash' = [e \in Exits |->
           IF e \in S \cap Understated /\ slash[e] = "none" THEN "sent" ELSE slash[e]]

(* ingest of each exit of S: its nullifier is recorded unless a request    *)
(* holds it, and then slashRevealed sends a slash if it has a signer       *)
(* (again, after a restart: a note that is slashed already makes the       *)
(* contract revert).                                                       *)
Ingest(S) ==
    /\ recorded' = recorded \cup (S \ Understated)
    /\ ingested' = ingested \cup S
    /\ slash' = [e \in Exits |->
           IF e \in S \cap Understated /\ slash[e] # "mined" /\ IsAvailable THEN "sent"
           ELSE slash[e]]

(* The next past exit, in block order; its handler is awaited while a      *)
(* slash is under way.                                                     *)
ReplayNext ==
    /\ watch \in {"replay", "orphaned"} /\ current = NoExit
    /\ \E e \in backlog :
          /\ \A f \in backlog : minedAt[e] <= minedAt[f]
          /\ backlog' = backlog \ {e}
          /\ Ingest({e})
          /\ current' = IF slash'[e] = "sent" THEN e ELSE NoExit
    /\ UNCHANGED <<chainVars, connVars, watch, lookFrom, polled, queriedAt, restarts>>

(* tx.wait() returned or failed; failures are logged, not retried.         *)
SlashSettles(e) ==
    /\ slash[e] = "sent"
    /\ \E outcome \in {"mined", "failed"} : slash' = [slash EXCEPT ![e] = outcome]
    /\ current' = IF current = e THEN NoExit ELSE current
    /\ UNCHANGED <<chainVars, connVars, watch, lookFrom, backlog, polled, queriedAt,
                   recorded, ingested, restarts>>

ReplayEnds ==
    /\ watch = "replay" /\ current = NoExit /\ backlog = {}
    /\ watch' = "subscribe"
    /\ UNCHANGED <<chainVars, connVars, lookFrom, backlog, current, polled, queriedAt,
                   storeVars, restarts>>

(* contract.on of a destroyed provider: it rejects, or never delivers.     *)
OrphanEnds ==
    /\ watch = "orphaned" /\ current = NoExit /\ backlog = {}
    /\ watch' = "failed"
    /\ up' \in IF up = "starting" THEN {"dead", "running"} ELSE {up}
    /\ UNCHANGED <<chainVars, conn, handler, lookFrom, backlog, current, polled, queriedAt,
                   storeVars, restarts>>

(* contract.on: polling starts at the block the provider reports now.      *)
Subscribe ==
    /\ watch = "subscribe" /\ IsAvailable
    /\ watch' = "live"
    /\ up' = IF up = "starting" THEN "running" ELSE up
    /\ polled' = block
    /\ UNCHANGED <<chainVars, conn, handler, lookFrom, backlog, current, queriedAt,
                   storeVars, restarts>>

(* External: ethers polls for the events of the blocks since its last      *)
(* poll, up to the height the RPC reports, which may trail the chain; a    *)
(* poll that fails delivers nothing and the next asks for the same blocks. *)
(* The handler is not awaited and cannot reject: watch() catches and logs  *)
(* what ingest throws.                                                     *)
Poll ==
    /\ watch = "live"
    /\ \E height \in (polled + 1)..block :
          /\ polled' = height
          /\ Ingest(ExitsIn(polled + 1, height))
    /\ UNCHANGED <<chainVars, connVars, watch, lookFrom, backlog, current, queriedAt,
                   restarts>>

-----------------------------------------------------------------------------
(* External: the process dies (or refused to start) and is started again.  *)
(* The store and the chain stay, a transaction already sent may still be   *)
(* mined, and everything the services held in memory is gone.              *)
Restart ==
    /\ restarts < MaxRestarts
    /\ restarts' = restarts + 1
    /\ up' = "boot" /\ conn' = "chain" /\ handler' = "unregistered"
    /\ watch' = "off" /\ lookFrom' = 0 /\ backlog' = {} /\ current' = NoExit
    /\ polled' = 0 /\ queriedAt' = 0
    /\ ingested' = {}
    /\ UNCHANGED <<chainVars, recorded, slash>>

Progress ==
    \/ ChainAnswers \/ CMaxAnswers \/ KeysAnswer \/ RetryFires \/ Bootstrap
    \/ HeightAnswers \/ QueryAnswers \/ ReplayNext \/ ReplayEnds \/ OrphanEnds \/ Subscribe \/ Poll
    \/ \E e \in Exits : SlashSettles(e)

Next ==
    \/ Mine
    \/ Progress
    \/ ConnectFails
    \/ Misconfigured
    \/ WatchFails
    \/ Restart

Spec == Init /\ [][Next]_vars

(* The retry timer fires and the boot goes on.  Each of connectProd's      *)
(* awaits may fail any number of times, but an RPC asked again and again   *)
(* does answer in the end; nothing is assumed of the watch's own awaits.   *)
FairSpec ==
    /\ Spec
    /\ WF_vars(RetryFires) /\ WF_vars(Bootstrap)
    /\ SF_vars(ChainAnswers) /\ SF_vars(CMaxAnswers) /\ SF_vars(KeysAnswer)

-----------------------------------------------------------------------------
(* Properties *)

(* Values stay in their domains, and a past exit is awaited only while a   *)
(* replay is under way.                                                    *)
TypeOK ==
    /\ block \in Nat /\ minedAt \in [Exits -> Nat]
    /\ up \in {"boot", "init", "starting", "running", "dead"}
    /\ conn \in Connecting \cup {"ready", "waiting", "refused"}
    /\ handler \in {"unregistered", "queued", "taken"}
    /\ watch \in Watching \cup {"off", "orphaned", "failed"}
    /\ lookFrom \in Nat /\ polled \in Nat /\ queriedAt \in Nat
    /\ backlog \subseteq Exits /\ current \in Exits \cup {NoExit}
    /\ recorded \subseteq Exits /\ ingested \subseteq Exits
    /\ slash \in [Exits -> {"none", "sent", "mined", "failed"}]
    /\ restarts \in Nat
    /\ current # NoExit => watch \in {"replay", "orphaned"}

(* Once the watcher subscribes, it has handled every exit whose challenge  *)
(* window was still open when it queried the past: none of those mined     *)
(* while the gateway was down, refused or still connecting is missed.      *)
OpenExitsAreReplayed ==
    watch \in {"subscribe", "live"} =>
        \A e \in Exits :
            Mined(e) /\ minedAt[e] <= queriedAt /\ queriedAt <= minedAt[e] + Window
                => e \in ingested

(* A slash that failed, or that a crash interrupted, is sent again when a  *)
(* restart replays its exit: no understated exit leaves the backlog        *)
(* without a slash under way or mined.                                     *)
ReplayChallengesAgain ==
    [][\A e \in Understated :
          e \in backlog /\ e \notin backlog' /\ watch' = "replay"
              => slash'[e] \in {"sent", "mined"}]_vars

(* "No contract: exits are watched once it answers": however often the     *)
(* connection fails, at boot or at a retry, and whenever the process was   *)
(* restarted, the watch is started in the end, unless the gateway refused  *)
(* the contract for good or the process ended.  A handler registered while *)
(* a retry is under way is not forgotten by it.                            *)
WatchStartsOnceConnected ==
    handler # "taken" ~> handler = "taken" \/ conn = "refused" \/ up = "dead"

(* watchWithdrawals' comment: "Calls the handler with every exit still     *)
(* within its challenge window, then with each new one".                   *)
EveryExitIsHandled ==
    watch = "live" =>
        \A e \in Exits :
            Mined(e) /\ minedAt[e] <= polled /\ queriedAt <= minedAt[e] + Window
                => e \in ingested
=============================================================================
