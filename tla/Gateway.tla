------------------------------ MODULE Gateway ------------------------------
(***************************************************************************)
(* The request path of the gateway: LongjingService.handleRequest with the *)
(* proof verifier's concurrency limiter, the SQLite nullifier store, the   *)
(* in-memory retry cache and rate limiter, the refund signer, and the exit *)
(* watcher's ingest, which writes the same store.                          *)
(*                                                                         *)
(* handleRequest is async: what runs between two awaits is one action, and *)
(* calls interleave only at the awaits.  A call carries a nullifier n and  *)
(* a signal x; y follows from n, x and the note's key, so x stands for the *)
(* whole signal.  A process crash ends every call, loses what is in memory *)
(* and keeps what SQLite committed.                                        *)
(***************************************************************************)
EXTENDS Integers, Sequences, FiniteSets

CONSTANTS
    Calls,              \* the HTTP calls of a behaviour (a bound)
    Nullifiers,
    RequestSignals,     \* x of requests: Poseidon(H(payload), nonce)
    ExitSignal,         \* x of an exit: Poseidon(recipient, chain, contract)
    NoSignal,
    CMax,               \* C_MAX, as read from the contract
    MaxVerifications,   \* MAX_CONCURRENT_VERIFICATIONS
    RateLimit,          \* RATE_LIMIT_MAX_ATTEMPTS
    RateWindow,         \* RATE_LIMIT_WINDOW_MS
    ResponseTTL,        \* RESPONSE_TTL_MS
    MaxTime,            \* bound: the clock stops here
    MaxCrashes          \* bound: how often the process restarts

ASSUME GatewayAssumption ==
    /\ ExitSignal \notin RequestSignals
    /\ NoSignal \notin RequestSignals \cup {ExitSignal}
    /\ CMax \in Nat /\ RateLimit \in Nat /\ RateWindow \in Nat /\ ResponseTTL \in Nat
    /\ MaxVerifications \in Nat \ {0}
    /\ MaxTime \in Nat /\ MaxCrashes \in Nat

Signals == RequestSignals \cup {ExitSignal}

VARIABLES
    now,
    pc,         \* call -> where its handler waits
    req,        \* call -> the n and x it carries
    answer,     \* call -> how it ended, with the refund of a signed answer
    active,     \* ConcurrencyLimiter.active of the verifications
    store,      \* nullifier -> the recorded signal (SQLite)
    responses,  \* nullifier -> the kept answer: x, kind, refund, expiresAt
    attempts,   \* nullifier -> admitted attempts: the call and its time
    crashes,
    \* History variables.
    provider,   \* nullifier -> how often the provider was called for it
    signed,     \* nullifier -> the accumulators signed: refund, when, by which run
    seen,       \* nullifier -> the verified signals that reached the store
    slashing,   \* nullifiers a slash was started for
    admitted    \* nullifier -> all attempts admitted since the last start

memVars  == <<active, responses, attempts>>
histVars == <<provider, signed, seen, slashing, admitted>>
vars == <<now, pc, req, answer, memVars, store, crashes, histVars>>

(* The awaits of handleRequest, in order; "exec", "cost" and "sign" only   *)
(* after the nullifier is recorded.                                        *)
InFlight == {"bind", "price", "root", "proof", "record", "exec", "cost", "sign", "slash"}

Verifying == {"root", "proof"}

NoAnswer == [kind |-> "none", refund |-> 0]

NoResponse == [x |-> NoSignal, kind |-> "none", refund |-> 0, expiresAt |-> 0]

-----------------------------------------------------------------------------
Init ==
    /\ now = 0
    /\ pc = [r \in Calls |-> "idle"]
    /\ req \in [Calls -> [n : Nullifiers, x : RequestSignals]]
    /\ answer = [r \in Calls |-> NoAnswer]
    /\ active = 0
    /\ store = [n \in Nullifiers |-> NoSignal]
    /\ responses = [n \in Nullifiers |-> NoResponse]
    /\ attempts = [n \in Nullifiers |-> {}]
    /\ crashes = 0
    /\ provider = [n \in Nullifiers |-> 0]
    /\ signed = [n \in Nullifiers |-> << >>]
    /\ seen = [n \in Nullifiers |-> {}]
    /\ slashing = {}
    /\ admitted = [n \in Nullifiers |-> {}]

Tick ==
    /\ now < MaxTime
    /\ now' = now + 1
    /\ UNCHANGED <<pc, req, answer, memVars, store, crashes, histVars>>

Goto(r, where) == pc' = [pc EXCEPT ![r] = where]

Reply(r, kind, refund) ==
    /\ pc' = [pc EXCEPT ![r] = "done"]
    /\ answer' = [answer EXCEPT ![r] = [kind |-> kind, refund |-> refund]]

(* A call that ends before the store is touched: an unsupported model, a   *)
(* signal x that does not match, no C_MAX, no rate, a request too          *)
(* expensive, a bad proof or root, an RPC failure, a full limiter.         *)
Refuse(r) == Reply(r, "refused", 0)

-----------------------------------------------------------------------------
(* Steps 1-4: before anything is consumed *)

(* nullifierAttempts holds one timestamp per admitted call, in no order    *)
(* that matters; the call keeps two of the same millisecond apart.         *)
Attempt == [by : Calls, at : Nat]

Recent(as) == {a \in as : now - a.at < RateWindow}

(* Mutant: the attempts of an earlier window are the ones that count.      *)
CheckRateLimit_Stale(n) == Cardinality(attempts[n] \ Recent(attempts[n])) < RateLimit

(* checkRateLimit's verdict *)
CheckRateLimit(n) == Cardinality(Recent(attempts[n])) < RateLimit

(* The handler up to its first await: an unsupported model is refused      *)
(* before the attempt is counted.                                          *)
Arrive(r) ==
    LET n == req[r].n
    IN  /\ pc[r] = "idle"
        /\ \/ /\ Refuse(r)
              /\ UNCHANGED <<attempts, admitted>>
           \/ /\ CheckRateLimit(n)
              /\ attempts' = [attempts EXCEPT ![n] = Recent(@) \cup {[by |-> r, at |-> now]}]
              /\ admitted' = [admitted EXCEPT ![n] = @ \cup {[by |-> r, at |-> now]}]
              /\ Goto(r, "bind")
              /\ UNCHANGED answer
        /\ UNCHANGED <<now, req, active, responses, store, crashes,
                       provider, signed, seen, slashing>>

(* signalXMatchesRequest answered; C_MAX is read.                          *)
Bind(r) ==
    /\ pc[r] = "bind"
    /\ \/ Refuse(r)
       \/ Goto(r, "price") /\ UNCHANGED answer
    /\ UNCHANGED <<now, req, memVars, store, crashes, histVars>>

(* ConcurrencyLimiter.run, before its task and in its `finally'.           *)
TakeSlot == active < MaxVerifications /\ active' = active + 1

FreeSlot == active' = active - 1

(* The worst case is priced and the proof's structure checked; then        *)
(* ConcurrencyLimiter.run takes a slot or rejects at once.                 *)
Price(r) ==
    /\ pc[r] = "price"
    /\ \/ Refuse(r) /\ UNCHANGED <<active>>
       \/ /\ TakeSlot
          /\ Goto(r, "root")
          /\ UNCHANGED answer
    /\ UNCHANGED <<now, req, responses, attempts, store, crashes, histVars>>

(* Mutant: a failed root check leaves the limiter's slot taken.            *)
CheckRoot_Leaks(r) ==
    /\ pc[r] = "root"
    /\ \/ Refuse(r) /\ UNCHANGED active
       \/ Goto(r, "proof") /\ UNCHANGED <<answer, active>>
    /\ UNCHANGED <<now, req, responses, attempts, store, crashes, histVars>>

(* isKnownRoot answered; a slot is freed in `finally' however it ends.     *)
CheckRoot(r) ==
    /\ pc[r] = "root"
    /\ \/ Refuse(r) /\ FreeSlot
       \/ Goto(r, "proof") /\ UNCHANGED <<answer, active>>
    /\ UNCHANGED <<now, req, responses, attempts, store, crashes, histVars>>

(* The pairing check answered. *)
VerifyProof(r) ==
    /\ pc[r] = "proof"
    /\ FreeSlot
    /\ \/ Refuse(r)
       \/ Goto(r, "record") /\ UNCHANGED answer
    /\ UNCHANGED <<now, req, responses, attempts, store, crashes, histVars>>

-----------------------------------------------------------------------------
(* Step 5: record (N, x, y) *)

(* checkAndSet, one SQLite transaction: the first signal stays.            *)
CheckAndSet(n, x) ==
    /\ store' = IF store[n] = NoSignal THEN [store EXCEPT ![n] = x] ELSE store
    /\ seen' = [seen EXCEPT ![n] = @ \cup {x}]

(* recallResponse has an answer for this signal.                           *)
Recall(n, x) ==
    /\ responses[n].kind # "none"
    /\ responses[n].expiresAt > now
    /\ responses[n].x = x

(* The nullifier is fresh: the provider is called at once, so a crash from *)
(* here on finds the nullifier spent and the provider called.              *)
RecordFresh(r) ==
    LET n == req[r].n
    IN  /\ pc[r] = "record"
        /\ store[n] = NoSignal
        /\ CheckAndSet(n, req[r].x)
        /\ provider' = [provider EXCEPT ![n] = @ + 1]
        /\ Goto(r, "exec")
        /\ UNCHANGED <<now, req, answer, memVars, crashes, signed, slashing, admitted>>

(* The nullifier is fresh, but parseFieldElement refuses the accumulator's *)
(* coordinates (their form is not the one the proof was checked with): the *)
(* handler throws with the nullifier spent and the provider not called.    *)
RecordUnparsable(r) ==
    LET n == req[r].n
    IN  /\ pc[r] = "record"
        /\ store[n] = NoSignal
        /\ CheckAndSet(n, req[r].x)
        /\ Reply(r, "malformed", 0)
        /\ UNCHANGED <<now, req, memVars, crashes, provider, signed, slashing, admitted>>

(* Mutant: a call that finds another signal is refused like a replay.      *)
RecordConflict_Refuse(r) ==
    LET n == req[r].n
    IN  /\ pc[r] = "record"
        /\ store[n] \notin {NoSignal, req[r].x}
        /\ CheckAndSet(n, req[r].x)
        /\ Reply(r, "conflict", 0)
        /\ UNCHANGED <<now, req, memVars, crashes, provider, signed, slashing, admitted>>

(* Another signal holds the nullifier: the two reveal k, and slashRevealed *)
(* is called (it sends nothing when the gateway has no signer).            *)
RecordConflict(r) ==
    LET n == req[r].n
    IN  /\ pc[r] = "record"
        /\ store[n] \notin {NoSignal, req[r].x}
        /\ CheckAndSet(n, req[r].x)
        /\ slashing' = slashing \cup {n}
        /\ Goto(r, "slash")
        /\ UNCHANGED <<now, req, answer, memVars, crashes, provider, signed, admitted>>

(* Mutant: a retry waits for the first call's answer to be kept.           *)
RecordRetry_Waits(r) ==
    LET n == req[r].n
        x == req[r].x
    IN  /\ pc[r] = "record"
        /\ store[n] = x
        /\ Recall(n, x)
        /\ CheckAndSet(n, x)
        /\ Reply(r, responses[n].kind, responses[n].refund)
        /\ UNCHANGED <<now, req, memVars, crashes, provider, signed, slashing, admitted>>

(* A retry: the kept answer (a 200 or the 502), or "already used".         *)
RecordRetry(r) ==
    LET n == req[r].n
        x == req[r].x
    IN  /\ pc[r] = "record"
        /\ store[n] = x
        /\ CheckAndSet(n, x)
        /\ IF Recall(n, x)
           THEN Reply(r, responses[n].kind, responses[n].refund)
           ELSE Reply(r, "spent", 0)
        /\ UNCHANGED <<now, req, memVars, crashes, provider, signed, slashing, admitted>>

(* slashRevealed returned: its failures are logged, the call is refused.   *)
SlashDone(r) ==
    /\ pc[r] = "slash"
    /\ Reply(r, "conflict", 0)
    /\ UNCHANGED <<now, req, memVars, store, crashes, histVars>>

-----------------------------------------------------------------------------
(* Steps 6-8: serve and sign *)

(* The provider failed: the whole of C_MAX is refunded.                    *)
ProviderFails(r) ==
    /\ pc[r] = "exec"
    /\ answer' = [answer EXCEPT ![r] = [kind |-> "badGateway", refund |-> CMax]]
    /\ Goto(r, "sign")
    /\ UNCHANGED <<now, req, memVars, store, crashes, histVars>>

ProviderAnswers(r) ==
    /\ pc[r] = "exec"
    /\ Goto(r, "cost")
    /\ UNCHANGED <<now, req, answer, memVars, store, crashes, histVars>>

(* Mutant: the difference is not clamped.                                  *)
Refund_Unclamped(cost) == CMax - cost

(* v = C_MAX - C_actual, clamped: the rate may have moved since the worst  *)
(* case was priced, so the actual cost may exceed C_MAX.                   *)
Refund(cost) == IF cost < CMax THEN CMax - cost ELSE 0

(* calculateCostInETH answered.                                            *)
CostKnown(r) ==
    /\ pc[r] = "cost"
    /\ \E cost \in 0..CMax + 1 :
          answer' = [answer EXCEPT ![r] = [kind |-> "ok", refund |-> Refund(cost)]]
    /\ Goto(r, "sign")
    /\ UNCHANGED <<now, req, memVars, store, crashes, histVars>>

(* No ETH rate is available any more: the handler throws with the          *)
(* nullifier spent, the provider called, and nothing signed or kept.       *)
CostFails(r) ==
    /\ pc[r] = "cost"
    /\ Reply(r, "error", 0)
    /\ UNCHANGED <<now, req, memVars, store, crashes, histVars>>

(* rememberResponse *)
Remember(n, x, a) ==
    responses' = [responses EXCEPT ![n] =
        [x |-> x, kind |-> a.kind, refund |-> a.refund, expiresAt |-> now + ResponseTTL]]

(* nextAccumulator is signed; the answer is kept and returned.             *)
Sign(r) ==
    LET n == req[r].n
    IN  /\ pc[r] = "sign"
        /\ signed' = [signed EXCEPT ![n] = Append(@,
               [refund |-> answer[r].refund, at |-> now, run |-> crashes])]
        /\ Remember(n, req[r].x, answer[r])
        /\ Goto(r, "done")
        /\ UNCHANGED <<now, req, answer, active, attempts, store, crashes,
                       provider, seen, slashing, admitted>>

-----------------------------------------------------------------------------
(* ExitWatcherService.ingest: an exit's signal goes through the same store *)
(* (a restart delivers past exits again).                                  *)
IngestExit(n) ==
    /\ CheckAndSet(n, ExitSignal)
    /\ slashing' = IF store[n] \in RequestSignals THEN slashing \cup {n} ELSE slashing
    /\ UNCHANGED <<now, pc, req, answer, memVars, crashes, provider, signed, admitted>>

(* Mutant: the timer empties the cache, fresh answers included.            *)
Cleanup_All ==
    /\ attempts' = [n \in Nullifiers |-> Recent(attempts[n])]
    /\ responses' = [n \in Nullifiers |-> NoResponse]
    /\ UNCHANGED <<now, pc, req, answer, active, store, crashes, histVars>>

(* The five-minute timer: cleanupRateLimitMap and cleanupResponses.        *)
Cleanup ==
    /\ attempts' = [n \in Nullifiers |-> Recent(attempts[n])]
    /\ responses' = [n \in Nullifiers |->
           IF responses[n].expiresAt <= now THEN NoResponse ELSE responses[n]]
    /\ UNCHANGED <<now, pc, req, answer, active, store, crashes, histVars>>

(* Mutant: the store is lost with the process.                             *)
Restarted_EmptyStore == [n \in Nullifiers |-> NoSignal]

(* What onModuleInit finds: SQLite kept every committed signal.            *)
Restarted == store

(* The process dies and a new one starts.                                  *)
Crash ==
    /\ crashes < MaxCrashes
    /\ crashes' = crashes + 1
    /\ pc' = [r \in Calls |-> IF pc[r] \in InFlight THEN "done" ELSE pc[r]]
    /\ answer' = [r \in Calls |->
           IF pc[r] \in InFlight THEN [kind |-> "lost", refund |-> 0] ELSE answer[r]]
    /\ active' = 0
    /\ store' = Restarted
    /\ responses' = [n \in Nullifiers |-> NoResponse]
    /\ attempts' = [n \in Nullifiers |-> {}]
    /\ admitted' = [n \in Nullifiers |-> {}]
    /\ UNCHANGED <<now, req, provider, signed, seen, slashing>>

-----------------------------------------------------------------------------
Step(r) ==
    \/ Bind(r) \/ Price(r) \/ CheckRoot(r) \/ VerifyProof(r)
    \/ RecordFresh(r) \/ RecordUnparsable(r) \/ RecordConflict(r) \/ RecordRetry(r)
    \/ ProviderFails(r) \/ ProviderAnswers(r) \/ CostKnown(r) \/ CostFails(r)
    \/ Sign(r)

Next ==
    \/ Tick
    \/ \E r \in Calls : Arrive(r) \/ Step(r) \/ SlashDone(r)
    \/ \E n \in Nullifiers : IngestExit(n)
    \/ Cleanup
    \/ Crash

Spec == Init /\ [][Next]_vars

(* Every await settles, as HTTP and RPC calls have client timeouts, except *)
(* the wait for a slash transaction to be mined, which has none.           *)
FairSpec == Spec /\ \A r \in Calls : WF_vars(Step(r))

-----------------------------------------------------------------------------
(* Properties *)

AnswerKinds ==
    {"none", "refused", "ok", "badGateway", "error", "malformed", "spent", "conflict", "lost"}

CallTypes ==
    /\ pc \in [Calls -> InFlight \cup {"idle", "done"}]
    /\ req \in [Calls -> [n : Nullifiers, x : RequestSignals]]
    /\ answer \in [Calls -> [kind : AnswerKinds, refund : 0..CMax]]

MemoryTypes ==
    /\ active \in Nat
    /\ responses \in [Nullifiers -> [x : Signals \cup {NoSignal}, kind : AnswerKinds,
                                     refund : 0..CMax, expiresAt : Nat]]
    /\ attempts \in [Nullifiers -> SUBSET Attempt]

HistoryTypes ==
    /\ provider \in [Nullifiers -> Nat]
    /\ signed \in [Nullifiers -> Seq([refund : 0..CMax, at : Nat, run : Nat])]
    /\ seen \in [Nullifiers -> SUBSET Signals]
    /\ slashing \subseteq Nullifiers
    /\ admitted \in [Nullifiers -> SUBSET Attempt]

(* Values stay in the types of the code; in particular the limiter's       *)
(* counter and the refund are never negative.                              *)
TypeOK ==
    /\ now \in Nat /\ crashes \in Nat
    /\ store \in [Nullifiers -> Signals \cup {NoSignal}]
    /\ CallTypes
    /\ MemoryTypes
    /\ HistoryTypes

(* The provider is called at most once per nullifier, whatever is retried, *)
(* concurrent, or interrupted by a crash after checkAndSet ("without a     *)
(* second provider call").                                                 *)
ProviderCalledOnce == \A n \in Nullifiers : provider[n] <= 1

(* At most one accumulator is signed per nullifier, and every call that is *)
(* answered with one, first or retry, gets that one: a note's index never  *)
(* yields two accumulators to build on.                                    *)
OneAccumulatorPerNullifier ==
    /\ \A n \in Nullifiers : Len(signed[n]) <= 1
    /\ \A r \in Calls :
          pc[r] = "done" /\ answer[r].kind \in {"ok", "badGateway"} =>
              /\ Len(signed[req[r].n]) = 1
              /\ answer[r].refund = signed[req[r].n][1].refund
              /\ store[req[r].n] = req[r].x

(* Two verified signals under one nullifier always start a slash (a call   *)
(* of slashRevealed), from requests or from an exit, in either order and   *)
(* across a restart.                                                       *)
ConflictsAreSlashed ==
    \A n \in Nullifiers : Cardinality(seen[n]) > 1 => n \in slashing

(* A signed answer is recalled for RESPONSE_TTL_MS by the process that     *)
(* signed it, whatever the cleanup timer and other calls do meanwhile.     *)
AnswersAreKept ==
    \A n \in Nullifiers : \A i \in DOMAIN signed[n] :
        signed[n][i].run = crashes /\ now < signed[n][i].at + ResponseTTL =>
            Recall(n, store[n]) /\ responses[n].refund = signed[n][i].refund

(* The limiter's counter is the number of verifications in flight, so      *)
(* every way out of a verification frees its slot, and the cap holds.      *)
LimiterCountsVerifications ==
    /\ active = Cardinality({r \in Calls : pc[r] \in Verifying})
    /\ active <= MaxVerifications

(* In no window of RATE_LIMIT_WINDOW_MS does one run of the process admit  *)
(* more than RATE_LIMIT_MAX_ATTEMPTS calls of one nullifier.               *)
RateLimitHolds ==
    \A n \in Nullifiers : \A t \in 0..now :
        Cardinality({a \in admitted[n] : a.at <= t /\ t - a.at < RateWindow}) <= RateLimit

(* Every call that is under way ends, unless it waits for a slash          *)
(* transaction to be mined.                                                *)
CallsEnd ==
    \A r \in Calls : pc[r] \in InFlight ~> pc[r] \in {"done", "slash"}

(* docs/SETTLEMENT.md: the server "records N atomically, calls the         *)
(* provider and computes the refund [...] It returns A' [...] and its      *)
(* signature", a provider error included: a call that was served and whose *)
(* process lived on ends with a signed accumulator.                        *)
ConsumedCallsAreSigned ==
    \A r \in Calls :
        pc[r] = "done" /\ answer[r].kind = "error" => signed[req[r].n] # << >>
=============================================================================
