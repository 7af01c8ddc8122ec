# Longjing: a TLA+ verification project

Longjing sells metered API calls to anonymous customers. A customer deposits ETH
under a commitment (a *note*), pays for each call with a zero-knowledge proof
that the note can afford it, and withdraws what is left. The protocol
(`docs/SETTLEMENT.md`) has to keep three parties honest at once: the operator
must be paid for what it served, the customer must be able to leave with the
rest, and neither may depend on the other's goodwill. The contract, the gateway,
its exit watcher, the circuits and the client each hold a part of that promise;
this project models them one by one and then together.

## Inventory

| Part | State | Operations | Hard behaviour |
| --- | --- | --- | --- |
| `contracts/src/LongjingCredits.sol` | notes, exits, leaves, ring of roots, operator balance, pending changes, pause accounting | deposit, initiateWithdrawal, finalizeWithdrawal, slash, claimExpired, withdrawOperatorBalance, propose/execute/cancelChange, pause, unpause | three ways to end a note racing each other; timelocks against exits; pause time against expiry; a ring buffer of roots; an incremental Merkle tree |
| `src/longjing/longjing.service.ts` with the proof verifier, limiter, refund signer | none of its own between awaits | `handleRequest`: rate limit, bind, price, verify, record, serve, refund, sign | ten awaits, any number of calls in flight on one nullifier, failures after the nullifier is consumed |
| `nullifier-store.service.ts` | SQLite table (N, x, y); in-memory retry cache and attempt lists | checkAndSet, remember/recallResponse, checkRateLimit, cleanup timer | what a crash keeps and what it loses; TTL against retry |
| `blockchain.service.ts`, `exit-watcher.service.ts`, `slashing.service.ts` | connection, queued handlers, subscription | connectProd and its retry, watchWithdrawals, ingest, slash | RPC failure at each await; restarts; the gap between query and subscription; failed slashes |
| `circuits/*.circom` | none | request and settlement statements | which accumulator and which index a cheating owner may still prove |
| `scripts/client/note.ts`, `accumulator.ts` | the note file: opening, signature, pending request | proveRequest, receive, proveWithdrawal | lost answers; exit racing a request; reads of the chain that are not atomic |
| `eth-rate-oracle.service.ts` | rate in memory, table `eth_rates` | getEthUsdRate: memory, Kraken, database, Chainlink | several calls suspended at two awaits; a stored rate cached again as fresh; what a restart keeps |
| `pricing/`, `providers/registry/`, `claude.provider.ts`, `cost-estimation.service.ts` | tables `pricing_models`, `pricing_history`; price cache; estimate cache | register and seed, upsertPricing, getPricing, estimateCost | a crash between two statements of a boot; a release with another price; concurrent misses on a bounded, ordered cache |
| `main.ts`, `config/`, `keys/`, `tls/`, `attestation/` | derived keys, certificate, platform, readiness | the steps of a boot, then `/attestation` and `/attestation/manifest` | the order of hooks and checks; a KMS that stops answering half-way; which key is bound and which is used |
| `LongjingAppOwner.sol`, `governance/release-batch.ts`, `propose-release.ts`, `app-governance.ts` | allowed builds, owner, guardian, timelock operations | propose, schedule, execute, cancel, remove, hand over, upgrade, change the delay, read | reads that are not atomic; a handover, an upgrade or a shorter delay under way; several batches at once |
| `scripts/testing/verify-attestation.ts` | one run's evidence, manifest, certificate | three fetches, key binding, event log, governance | a restart between the fetches; TLS that ends elsewhere; a simulator that answers like dstack |
| HTTP hardening, logging, health, scripts | none | formatting | none that a model would show |

The parts meet at six places. The client reads paths, roots and keys from the
contract and sends proofs to the gateway. The gateway reads `isKnownRoot` and
`C_MAX` from the contract and records every signal in the store. The watcher
takes `WithdrawalInitiated` from the contract into the *same* store. Two signals
under one nullifier give away the note's key, with which anyone calls `slash`.
Requests and estimates take the ETH rate from one oracle. The KMS gives keys
only to builds the DstackApp allows, and the verifier compares what an enclave
says of its keys and its build with what the chain says of the app.
`PROJECT.json` lists every part, its files and its status, and the hazards at
the lines where they bite.

What makes each part correct:

* contract: it holds what it owes; a note settles once and in full; the root
  names the active notes; pausing never shortens a note's life; no change
  overtakes an exit announced before it; exits complete;
* gateway: one provider call and one signed accumulator per nullifier across
  concurrency and restarts; a conflict is always slashed; paid answers are kept;
  slots and windows do not leak; every call ends;
* watcher: it starts once the contract answers; no exit with an open window is
  missed; failed challenges are repeated;
* protocol: used indices form a prefix; the operator is paid; an honest owner is
  not slashed unless it asks for more after claiming its exit's index, can always
  leave, and loses at most one request's refund;
* tree: updating one path equals recomputing the tree; torn reads prove nothing
  false;
* rate and prices: a rate's age is bounded although stored rates are cached
  again; short outages are not seen; the price in force is the running
  release's, wherever earlier boots were cut short; the estimate cache keeps
  its bound and its order;
* deployment: an enclave uses the keys it attests and, in production, only keys
  of the KMS; an accepted verification is about one enclave, whose keys come
  from one guest agent; a governance report is good for one timelock delay.

## Modules

**`LongjingCredits.tla`**: the contract, one action per external function that
changes state, each with its reverts as guards and its helper calls
(`_updateLeaf`, `_pushRoot`, `_pay`) inside it. `now` is `block.timestamp`; it
advances in `Tick`. A root is modelled as the set of (position, commitment) pairs it commits
to, which is exact for a collision-free hash (`MerkleTree.tla` is about the
hashes). An exit's nullifier and signal are left to `Settlement.tla`, and so is
the proof: here the verifier accepts any payout the contract's own checks allow,
so what is shown holds even if the circuit were wrong. `Accepts` are the accounts that
take ETH; a payout to any other reverts. `paidOut`, `credited`, `age`,
`startedAt`, `proposedAt` and `rootLog` are history variables.

**`NoteEscrow.tla`**: the abstract promise. Each deposit is a separate escrow
that is opened, announced, and settled once, by release, forfeit or lapse; what
leaves it goes to the payee or the operator's pot. Only an announced escrow may
be released, only one that is *not* announced may lapse. `ImplementsEscrow` is
the refinement, with the escrow of a note being its deposit while it is live.

**`MerkleTree.tla`**: `treeNodes`, `zeros`, `_updateLeaf`, `getMerkleProof`, and
`MerkleTreeChecker` of the circuit, with a hash that is an ordered pair. A
client reads a path, then a root, with updates in between. `Ancestors` is the
loops' `index /= 2`, `Width` the number of nodes of a level. `_node` takes a
stored zero for "never written", so the tree is right only if no hash is zero:
`TreeAssumption` says so of the hashes of full subtrees (`Hashes`).

**`Gateway.tla`**: `handleRequest` with one action per await, for a set of calls
whose nullifiers and signals are chosen in `Init`, the exit watcher's entry into
the store, the five-minute timer, the clock, and a crash that keeps SQLite and
loses memory. Proof verification and provider calls are their outcomes. The
attempts of a nullifier are a set of (call, time): the code's list is only ever
filtered, appended to and counted. A `Refuse` at a step stands for every early return or exception there.
`RecordUnparsable` is the accumulator that fails to parse after its nullifier was
recorded. A slash counts as started when `slashRevealed` is called; without a signer
it only logs the key it could have used.

**`ExitWatcher.tla`**: the production connection and the watch. Time is the
block number. `up` is the process (module init, bootstrap, serving, dead), `conn`
the position in `connectProd`, `watch` the position in `watchWithdrawals`. The RPC
may fail at each await; the process may be restarted at any point. A connection
dropped under a running replay leaves it `orphaned`: it goes on recording
exits, without a signer while there is no connection. `Poll` (ethers' subscription)
and `Restart` are external: a poll may deliver any part of what was mined, and the
handler it calls cannot reject, since `watch()` catches what `ingest` throws.

**`Settlement.tla`**: the composition. It EXTENDS the contract and uses its
actions unchanged, adds what the circuits prove (`RequestProvable`,
`ClaimProvable`), the store, the accumulators the gateway has signed for each
note, and the owner, who is either the reference client (`honest`) or anyone who
holds the key and proves whatever the circuits allow from any accumulator it
was given. The client's file remembers no exit proof, so an honest owner may
prove several exits, and requests after them. Nullifiers are (note, index), since N = Poseidon(Poseidon(k, i)).
The gateway's other steps are reduced to what they do to the store and to
accumulators: verified, recorded, answered, or dropped (crash, no rate).

**`EthRate.tla`**: `getEthUsdRate` with one action per outcome of each await. A
rate *is* the time at which it was received, since its age is what the
properties tell apart. Each call keeps the `now` it read before its first
await, by which the code judges stored rates and stamps the memory. The table
is a set of rows; `ORDER BY timestamp DESC LIMIT 1` is a choice among the
newest. `received` is a history variable.

**`Estimates.tla`**: EXTENDS the rate with what `estimateCost` adds: the seeding
of the provider's price at boot in three steps (close the open row, insert,
record and drop the cached price), which are the statements a crash can
separate; the price cache; the estimate cache as the sequence a JavaScript
`Map` iterates in, whose `delete` closes the gap it leaves. An estimate reads the rate twice and each read may suspend.
`Crash` may bring the next release, whose price is its number.

**`Releases.tla`**: the app's allowed builds, owner and logic, LongjingAppOwner's
`execute`, `removeComposeHash`, `setGuardian` and `acceptOwnership`, the timelock's
schedule (with any delay from its minimum on), cancel and execute, the proposing
script, and `readAppGovernance` with one action per call to the chain. DstackApp,
the Safe and TimelockController are external. A timelock operation is a record of what its
calls amount to: builds added and retired, a transfer of the app, an upgrade, a
new guardian, a new minimum delay. The script writes release batches; the Safe may
write any other (`HandMade`). After an upgrade the app may do anything
(`UpgradedAppActs`). `everAllowed`, and `at`, `promised`, `public` and `changing` of a
reading, are history: what anyone could see when the owner was read.

**`Enclave.tla`**: EXTENDS the releases with processes of the app, from `main.ts`
to serving. A step stands for one call to the KMS or one group of hooks; an
error the code throws is an action that is not enabled, after which only `Exit`
is left. A key is where it comes from (KMS, simulator, environment, development
default). `InitFirst = FALSE` is the code: the readiness check runs before the
hooks. No production process ever gets past it (finding 3), so everything after
it would hold vacuously; `InitFirst = TRUE` runs the hooks first, which is what
`main.ts`'s comment and error message intend, and lets the rest of the boot be
checked. Nothing else depends on it.

**`Verifier.tla`**: EXTENDS the enclaves with one run of `verify-attestation`: the
evidence, the manifest and the certificate are fetched in three steps, between
which processes exit and boot and the chain moves. The address may be answered by
the gateway's own TLS. Hashes are the tuples they hash and an RTMR is the sequence
it was extended with, so the event log's replay is computed and not assumed. An app id is what
the guest agent says (`AppIds`): a simulator may name the audited app. The
verifier and the proposer share one reader: an operator runs one script at a
time. `by` and `build` say which boot answered; no check reads them.

**`*Proofs.tla`**: the theorems. `LongjingCreditsProofs.tla` and
`LongjingRefinementProofs.tla` are about the contract, the second about it as a
whole (tree, ring, escrow, pool); `MerkleTreeProofs.tla`, `GatewayProofs.tla` and
`ExitWatcherProofs.tla` about the modules they are named after;
`SettlementProofs.tla` about the composed protocol; `EstimatesProofs.tla` about the
rate oracle and what uses it; `VerifierProofs.tla` about the releases, the
enclaves and the verifier.

The `MC*` modules add symmetry sets; `MCDeployment.tla` also names the builds, their
compose files and environments, and a state constraint.

## Runs

| Run | Bounds | Shows |
| --- | --- | --- |
| `credits_ledger` | 2 notes, deposits 1..3 around `C_MAX` 1 and bounty 2, 2 leaves, ring of 3, 3 ticks | pool equals debts, settlement in full, root and ring, refinement of `NoteEscrow` |
| `credits_exits` | 1 note, 2 keys, a refusing recipient, 1 pending change at a time, delays 3/3/2, 6 ticks | expiry, timelock against exits, exits complete |
| `gateway` | 3 calls, 1 nullifier, 2 signals and the exit's, limiter of 2, rate 2 per 2 ticks, 1 crash, 3 ticks | uniqueness, conflicts, retry cache, limits |
| `gateway_live` | 2 calls, 2 nullifiers, limiter of 1, 1 crash | every call ends |
| `gateway_unsigned` | 1 call | *violation*: consumed, served and not signed |
| `exit_watcher` | 1 honest and 1 understated exit, 5 blocks, lookback 2, 2 restarts | replay, repeated challenge, the watch starts |
| `watcher_gap` | the same, no restart | *violation*: the gap before the subscription |
| `settlement` | 1 note, indices 0..2, 2 request signals, deposits 2..3 with `C_MAX` 2, refunds 0..2, bounty 1, 2 calls verified and not recorded, 3 ticks | prefix property, operator is paid, honest owner safe |
| `merkle_tree` | height 3, 5 leaves | incremental tree, torn reads |
| `estimates` | 2 callers, 2 endpoints, 3 unit values, caches of 2 ticks, 2 entries in the estimate cache, stored rates usable for 2 ticks, 3 ticks, 1 crash, 2 releases | age of rates, outages, price in force, order of the cache |
| `deployment` | 1 instance booting at most twice, 3 builds (production, production with both opt-outs, local) in 6 environments, 1 reader, delay 2, operations scheduled with a delay up to 2, 4 hand-made batches (a build and no guardian, a handover, an upgrade, a delay of 0), 2 ticks, at most 4 transactions, traded against boots | keys bound and used, report, accepted sessions |
| `boot_readiness` | the same with the code's order, 1 boot, 1 transaction | *violation*: production never starts |

*Why the bounds are enough for the interesting cases.* Two notes suffice for the
ledger, whose actions touch one note and three totals; the ring of three wraps
with two notes (four updates). Deposits below, at and above the bounty occur.
In `credits_exits` a pause can start before or after the deposit, twice, and a
change can be proposed, replaced and executed within six ticks. Three calls are
the smallest number with a first request, its retry and a conflicting one in
flight together, over a limiter of two. In `settlement`, refunds let a note of
one or one and a half requests make up to three, so a stale accumulator differs
from the latest by two signatures; a second note would share only the pool, which
`credits_ledger` checks. In `exit_watcher`, the lookback is shorter than the chain,
so an exit can fall out of it. A tree of height three has inner nodes that are
defaults on either side, and five leaves cross its middle. In `estimates`, three
keys overflow a cache of two, two callers miss on the same key together, and
three ticks let a stored rate be cached again at the end of its life and used
at the end of the memory's; one crash can cut the first boot or the second at
any statement and bring the other price. In `deployment`, a session can span a
restart into another build (two boots), and a release takes two
transactions (schedule, execute). A delay of two lets a tick pass inside the time a
report is good for, and four transactions let what was scheduled before a report
mature in that time and something else follow: without any one of the three
disjuncts of `ChangesTheRules` the run finds the report broken, by a handover, an
upgrade or `updateDelay(0)` scheduled before it. `FewEvents` trades boots and
transactions: a chain without boots has four (the fourth after a report that may be
good), one boot meets one, or two at the last tick, and two boots none. A build can
lose its permission while it is deriving its keys. The theorem `ReportTheorem` covers every delay and number of transactions.

*Deadlock* is checked except in `exit_watcher` and its two violation runs, where
the chain stops at its bound and nothing is left to do, and in `settlement` and
`merkle_tree`, where the notes or leaves are used up.

*Fairness.* `FairSpec` of the contract asks that time passes and that someone
finalizes an exit that can be finalized: anyone may call it, and the recipient
has the interest. The gateway's asks weak fairness of each call's next step: an
event loop runs what is ready, and each await settles (HTTP calls time out).
Waiting for the slash transaction is excluded, `tx.wait()` has no timeout. No call is
obliged to arrive. The watcher's asks that the retry timer fires
and the boot goes on, and strong fairness of `connectProd`'s three awaits: each may
fail any number of times, and an RPC that is asked again and again answers in
the end. A node that never answers again, or a refused contract, is no
counterexample to a watch that waits for it. Nothing is assumed of the watch's own awaits.

*Assumption of `settlement`.* `WatcherIsPrompt`: the watcher takes in an exit and
the slash of a revealed key is mined before the challenge window closes. The
documents assume the same ("If the server is offline for longer than `W`, an
understated exit goes through unchallenged"); `exit_watcher` is about when the
watcher does its part of it. Nothing is assumed of the honest owner beyond using the
client: `note.ts` lets it ask for a request after it proved an exit, and such an owner
gives its key away. `HonestNotSlashed` says that this is the only way.

## Findings

1. `gateway_unsigned`: if no ETH rate is to be had after the provider answered,
   the handler fails with the nullifier spent, nothing signed and nothing kept for
   a retry. The owner's loss is one `C_MAX` (`HonestLosesAtMostOneRequest`).
   `FailureMeansNoRate` says when this can happen: both sources down and no rate
   received for an hour.
2. `watcher_gap`: exits mined between `queryFilter` and `contract.on` reach no
   handler until a restart replays them.
3. `boot_readiness`: `main.ts` asks `isProductionReady()` between
   `NestFactory.create` and `app.listen`. The answer is a flag that
   `SnarkjsProofService.onModuleInit` sets, and Nest runs that hook inside
   `listen`. Production therefore always exits with "Configure circuit artifacts",
   whether they are installed or not. `await app.init()` before the check would
   give the order that `deployment` checks.

Observed in the code and not stated as a run:

* The root history is bounded by the number of updates and not by time: in a quiet
  contract a root holding a note outlives its final exit, against the comment
  on `ROOT_HISTORY_SIZE`. The operator is still paid: `OperatorIsPaid` is checked
  with exactly this history.
* `isAvailable()` holds from `build()` on, before `C_MAX` and the keys were read in
  a retry, against `connectProd`'s comment; `IsAvailable` in `ExitWatcher.tla`.
* `docs/SETTLEMENT.md` says pausing blocks requests; the gateway never reads
  `paused()`.
* A release proposed again from the same allowed builds has the same timelock
  operation and cannot be scheduled while or after the first is
  (`release-batch.ts:104` calls them distinct). Two batches proposed from the same
  state and both executed leave both builds allowed.
* `checkAppGovernance` treats a pending owner as a warning and does not look at what
  the timelock has scheduled: a report made while a handover, an upgrade or a new
  delay is under way promises nothing, which is the `changing` case of
  `ReportsAreGoodForADelay`. After an upgrade an allowed build need have no
  `ComposeHashAdded` event, and neither the report nor a release batch would find it.
* `verify-attestation` cannot tell the KMS from a simulator that names the audited app:
  it checks neither the quote's signature nor the `GetKey` chains (`key-binding.ts:26`
  leaves the first to the vendor's tools, `docs/KEY_DERIVATION.md:120` asks for the
  second). `AcceptedKeysAreDerived` claims no more than what is checked.
* `proveRequest` after `proveWithdrawal` signs the exit's index a second time; an owner
  who does so and then exits is slashed.
* `verify-attestation` goes on without the served certificate when the
  fetch fails, and says the running build is allowed when there was no event log to
  learn the build from. `AcceptedSessionIsOneEnclave` is therefore about sessions
  that saw a certificate.
* The estimate cache's key leaves out `metadata`, hence the model; an estimate
  reads the rate twice and may show another one than it converted with.
* A crash between `INSERT` and `addHistory` loses a history entry, which the
  next boot's entry follows; a clock set back between boots could leave a newer
  price shadowed by an older one (the model's clock never goes back).

## Proofs

Every safety property of the passing runs is a theorem: what a run shows on a
small instance, the theorem says for every value of the constants that satisfies
the named `ASSUME`s. Bounds such as `MaxTime`, `MaxCrashes` or `MaxBoots` are
among those constants, so a theorem holds however large they are. A property is
seldom inductive; each argument below names the invariant that is, and what it
adds and why.

### The contract

Assumptions (`LongjingCredits.tla`): naturals, a ring of at least two roots,
`ChallengeWindow < AdminDelay`, the empty leaf is no commitment, the empty ring
slot no root, and commitments, being field elements, are finitely many.

In `LongjingCreditsProofs.tla`:

* `TypeSafety`: `Spec => []TypeOK`. Inductive as `TypeInv`: the types and four
  facts they rest on. An exit's payout is at most its note's deposit (else
  `amount - payout` underflows), a pause began in the past (else the paused time
  does), a live note has a leaf in range (else `RemoveLeaf` misses the
  sequence), and a pending change holds a value of its target's kind.
* `SettlementIsComplete`: `SettledInFull`, from `TypeInv`, with one step per
  action that settles a note.
* `ExpiryIsFair`: `ExpiryCountsUnpausedTime`. `noteExpiry` plus the unpaused age of an
  active note is `now + NoteTTL`; it needs that a note not yet deposited has age
  zero, and the case split on `paused` in `Tick`, `Pause` and `Unpause`.
* `ChangesWaitForExits`: `ExitsPrecedeChanges`, an action property. The invariant
  relates the two clocks: an exiting note's `exitAt` is its start plus the
  window, a pending change's `eta` its proposal plus the delay.

In `LongjingRefinementProofs.tla`:

* `RootNamesActiveNotes`: `RootIsTheActiveNotes`. The root says nothing of the next
  root, so `TreeInv` is about the leaves: a leaf that is not empty belongs to an
  active note whose index it has, every active note has its leaf, and the
  newest ring slot holds the root of the leaves.
* `KnownRootsTheorem`: `KnownRootsAreTheLatest`. `RingInv` walks back from the newest
  slot, around the end of the ring, and finds the history in order (`Back`);
  `_pushRoot` moves every slot one further back but the one it overwrites.
* `CreditsImplementEscrow`: `Spec => ImplementsEscrow`. Every step maps to a step or a
  stutter of `NoteEscrow.tla`. `SettledInFull` is needed because the contract adds
  to what a note was paid while the escrow sets it; `TypeInv` bounds the payout
  and the bounty by the deposit.
* `PoolTheorem`: `PoolSolvency`, and from it `FundsTheorem`: the balance covers the
  operator's and any live note's deposit together. The sum over the notes is
  settled by `SumChange`: changing one summand changes the sum by as much.

### The tree

`MerkleTreeProofs.tla`, for every height, assuming no hash is zero.

* `RootTheorem` (`RootIsRecomputed`). The root says nothing of the nodes the next
  update reads, so `TreeInv` says of *every* node, read through `_node`'s default,
  that it is the full tree's. `_updateLeaf` changes the nodes above one leaf, the
  full tree changes there only, and there the two agree level by level.
* `TornReadsTheorem` (`TornReadsAreSafe`) and `RootsTheorem` (`RootsNameTheirLeaves`): both
  unfold an equality of roots from the top down, since the hash is injective.
  `ReadsInv` says that the sides of a path a client holds are those of its
  index, and that its root was the root of the leaves of that moment.

### The gateway

`GatewayProofs.tla`, for any number of calls, nullifiers and restarts.

* `GatewayTypeTheorem` and `LimiterTheorem` together, as `TypeInv`: the counter is the
  number of calls in a verifying step, and that set is finite.
* `ProviderTheorem` and `AccumulatorTheorem`, from `SpendInv`: a nullifier without a
  recorded signal was never served; of the calls on one nullifier at most one is
  past the record and not done, it recorded its own signal, and nothing is
  signed for it yet; what the retry cache holds is what was signed. A restart
  drops the calls and the cache and keeps the store, which preserves all of it.
* `AnswersTheorem`: an accumulator signed by this process is in the cache, with the
  expiry of its signing, until it expires (`FreshIsKept`).
* `ConflictsTheorem`: unless a slash was started, all signals seen under a nullifier
  are the stored one.
* `RateLimitTheorem`: every attempt that still counts is in the list, so what
  `checkRateLimit` counts is what was admitted in the window that ends now; every
  earlier window was settled when its last attempt was admitted.

### The watcher

`ExitWatcherProofs.tla`, for any exits, failures and restarts, with
`Window <= Lookback`. `WatchInv` is the invariant of `WatcherTypeTheorem`,
`ReplayTheorem` and `ChallengeTheorem` (an action property): an open exit is handled
or still in the backlog; the first block of the query lies far enough back; no
exit is mined in the past; and the handler runs once in a process, so that a
second watch never starts over a replay, and only while there is a connection.

### The protocol

`SettlementProofs.tla`, for any number of notes, honest or not, and any prices,
refunds and deposits. It adds `ChallengeWindow > 0`: with an empty window an exit
could be finalized in the block that announces it, before anyone can see it.
`ProtocolUsesContract` (`SSpec => Spec`) makes the contract's theorems available.
`SInv` has one part per party, note by note:

* accumulators only add up, by at most `C_MAX` each (`AccInv`);
* requests are asked in index order, each covered by deposit and refunds, and
  the one being served is the one the next accumulator is for (`UseInv`);
* an exit pays what some accumulator that was signed allows and spends its own
  index, which holds the exit's signal by the time it is final (`ExitInv`, where
  `WatcherIsPrompt` enters);
* the client's file is at most one answer behind, everything recorded for an
  honest note is what its file says it sent, each exit proof opens an
  accumulator it had and claims that index or the next, and a key was revealed only if a request
  was made at or after the index of the exit on chain (`HonestInv`).

`PrefixTheorem`, `OperatorTheorem`, `HonestTheorem`, `LeaveTheorem` and `LossTheorem` follow
from it. The core of `OperatorTheorem` is that a claim from a stale accumulator
either lands on a used index, and then reveals the key, or pays no more than the
latest one would.

### Rate, prices and estimates

`EstimatesProofs.tla`, for all lifetimes, callers, releases and crashes.

* `RateAgeTheorem`, `RateFailureTheorem` about `EthRate.tla`, from `RateInv`: a cached rate
  is younger than `MAX_DB_RATE_AGE` at its timestamp and a row's rate is exactly
  its timestamp, so re-caching cannot add up; a suspended call's `now` is in the
  past; every received rate has its row; a call waiting for Chainlink has found
  each row from before its `now` too old.
* `EstimatesUseTheRate` (`Spec => RateSpec`) carries both to the estimates.
* `PriceTheorem` and `OnePriceTheorem`, from `PriceInv`: where a boot stands, the table
  tells. Between `upsertPricing`'s two statements no row is open, after them
  exactly this release's is; no row is dated into the future; only a serving
  process caches a price.
* `EstimateCacheTheorem`, from `EstimateInv`: entries share one TTL, so none expires
  after one added now, and removing the key first keeps it unique.

### Releases, enclaves and the verifier

`VerifierProofs.tla`, for all builds, environments, processes, readers and delays,
and both orders of the readiness check.

* `ReleasesTypeTheorem`, and `ReportTheorem` (`ReportsAreGoodForADelay`). A reading is
  good only if the chain cannot *become* bad in time, so `ReportInv` adds: the
  LongjingAppOwner still owns the app, its logic is the old one, nothing is pending,
  the delay is still the one in force at the read (`promised`), and every scheduled
  operation either leaves the rules alone and adds only builds that were public at
  the read, or is not ready before `at + promised`. Scheduling preserves the last part
  because the delay has not changed, and no operation can change it before then.
* `DeploymentUsesReleases` (`Spec => ReleasesSpec`) carries them to the deployment.
* `ServedKeysTheorem`, from `EnclaveInv`: each process carries where its certificate
  and keys come from through every step of the boot; derivation is all or
  nothing; what the KMS gave, it gave to an allowed build.
* `OneEnclaveTheorem`, `DerivedKeysTheorem`, from `SessionInv`: each answer the verifier holds
  keeps the provenance of the process that gave it after that process is gone.

### Induction over data

The prover has no induction rule to instantiate. Where one is needed the proofs
state it about *sets*: a set of levels that contains 0 and the successor of each
of its levels is all of them (`LevelInduction`), a set of subsets of a finite set
that has a smaller member for each of its members is empty (`NoSmallest`); both come from the
library's least-element theorem for well-founded relations. A recursive function
satisfies its equation only if some function does, so each of the tree's has a
lemma that builds one level by level.

### Only model-checked

Liveness under fairness, which the prover does not reach: `ExitsComplete`,
`CallsEnd`, `WatchStartsOnceConnected`. The properties of the three violation runs are
false of the code and stay counterexamples.

## Plan

1. *Done*: contract, escrow, tree, gateway, watcher, composition; rate oracle,
   prices and estimates; releases, enclave boot and verifier; a theorem for each
   safety property of the passing runs.
2. Next: relate `MerkleTree.tla` to the contract's model by a refinement (its root
   for `RootOf`, its leaves for the contract's), so that the abstraction of a root
   is a theorem about both; an abstract specification of the nullifier store
   that the gateway and `Settlement.tla` share; shorter proofs where a lemma can
   carry several actions.

## Not modelled

Curve, field and hash arithmetic (binding commitments, unforgeable signatures,
collision-free hashes and sound proofs are assumed), `recoverSecretKey` included;
`SettlementVerifier.sol` (generated); reentrancy (every state-changing function with a call is
`nonReentrant`), gas, chain reorganisations; the local development profile's
connection; ML-KEM and AES; changes of the timelock's roles (whoever proposes waits
for the delay) and the app's settings that add no build; the vendors' checks of a quote's signature;
`credits-governance.ts`, a stateless report on delays that `LongjingCredits.tla` has;
the provider's `execute`, `healthCheck` and the oracle's cost and history queries,
which nothing in the running service calls; HTTP formatting, padding,
quantisation, throttling and logging; the demo and the setup scripts.
