------------------------------ MODULE EthRate ------------------------------
(***************************************************************************)
(* EthRateOracleService (src/src/longjing/eth-rate-oracle.service.ts): the *)
(* ETH/USD rate every price check, refund and estimate is computed with.   *)
(* getEthUsdRate looks in memory, then asks Kraken, then reads its own     *)
(* database, then asks Chainlink. Several calls may be suspended at one of *)
(* the two awaits, their answers arrive in any order or not at all, and a  *)
(* restart keeps only the database.                                        *)
(*                                                                         *)
(* What matters about a rate is how old it is, so a rate is the time at    *)
(* which it was received from its source.                                  *)
(***************************************************************************)
EXTENDS Integers

CONSTANTS
    Callers,            \* calls of getEthUsdRate that may be under way at once
    CACHE_TTL,          \* life of the rate in memory (1 minute)
    MAX_DB_RATE_AGE,    \* age up to which a stored rate is used (1 hour)
    MaxTime,            \* bound: the clock stops here
    NoRate

ASSUME RateAssumption ==
    /\ CACHE_TTL \in Nat \ {0}
    /\ MAX_DB_RATE_AGE \in Nat \ {0}
    /\ MaxTime \in Nat
    /\ NoRate \notin Nat
    /\ NoRate \notin [rate : Nat, timestamp : Nat]

VARIABLES
    clock,      \* Date.now()
    cache,      \* the rate in memory and its timestamp, or NoRate
    ethRates,   \* rows of the table eth_rates
    call,       \* each caller's getEthUsdRate: its step, the `now` it read, its rate
    received    \* history: the times at which a rate was ever received

rateVars == <<cache, ethRates, call, received>>

Row == [rate : Nat, timestamp : Nat]
Call == [step : {"idle", "kraken", "chainlink", "done", "failed"},
         now : Nat, rate : Nat \cup {NoRate}]
Idle == [step |-> "idle", now |-> 0, rate |-> NoRate]

RateTypeOK ==
    /\ clock \in Nat
    /\ cache \in Row \cup {NoRate}
    /\ ethRates \in SUBSET Row
    /\ call \in [Callers -> Call]
    /\ \A c \in Callers : call[c].step = "done" => call[c].rate # NoRate
    /\ received \in SUBSET Nat

(* onModuleInit: nothing in memory, and a database without rows.           *)
RateInit ==
    /\ clock = 0
    /\ cache = NoRate
    /\ ethRates = {}
    /\ call = [c \in Callers |-> Idle]
    /\ received = {}

---------------------------------------------------------------------------
(* The rows `ORDER BY timestamp DESC LIMIT 1` may return: SQLite is free   *)
(* to choose among rows of the same millisecond.                           *)
LatestRates == {r \in ethRates : \A s \in ethRates : s.timestamp <= r.timestamp}

(* The rows the database fallback accepts, judged by the time `now` the    *)
(* call read before it asked Kraken.                                       *)
UsableRates(now) == {r \in LatestRates : now - r.timestamp < MAX_DB_RATE_AGE}

(* A call ends with a rate, or goes on to another step.                    *)
Return(c, now, rate) == call' = [call EXCEPT ![c] = [step |-> "done", now |-> now, rate |-> rate]]
GoOn(c, now, step) == call' = [call EXCEPT ![c] = [step |-> step, now |-> now, rate |-> NoRate]]

(* A live source answered: the rate is saved with the time of the answer   *)
(* and cached with the time the call began at.                             *)
SaveAndCache(c) ==
    /\ ethRates' = ethRates \cup {[rate |-> clock, timestamp |-> clock]}
    /\ cache' = [rate |-> clock, timestamp |-> call[c].now]
    /\ Return(c, call[c].now, clock)
    /\ received' = received \cup {clock}
    /\ UNCHANGED clock

(* getEthUsdRate, up to its first await: a hit in memory returns at once.  *)
(* A caller that has its result may ask again.                             *)
Free(c) == call[c].step \notin {"kraken", "chainlink"}
InMemory == cache # NoRate /\ clock - cache.timestamp < CACHE_TTL

AskHit(c) ==
    /\ Free(c)
    /\ InMemory
    /\ Return(c, clock, cache.rate)
    /\ UNCHANGED <<clock, cache, ethRates, received>>

AskMiss(c) ==
    /\ Free(c)
    /\ ~InMemory
    /\ GoOn(c, clock, "kraken")
    /\ UNCHANGED <<clock, cache, ethRates, received>>

KrakenAnswers(c) == call[c].step = "kraken" /\ SaveAndCache(c)

(* Kraken failed: a network error, a bad status, an error field or a rate  *)
(* that is not a positive number. A young enough stored rate is cached     *)
(* under the call's own `now`; otherwise Chainlink is asked.               *)
FallBackToDb_Saves(c) ==    \* mutant: the stored rate is stored again, as of now
    /\ call[c].step = "kraken"
    /\ \E r \in UsableRates(call[c].now) :
          /\ ethRates' = ethRates \cup {[rate |-> r.rate, timestamp |-> clock]}
          /\ cache' = [rate |-> r.rate, timestamp |-> call[c].now]
          /\ Return(c, call[c].now, r.rate)
    /\ UNCHANGED <<clock, received>>

FallBackToDb(c) ==
    /\ call[c].step = "kraken"
    /\ \E r \in UsableRates(call[c].now) :
          /\ cache' = [rate |-> r.rate, timestamp |-> call[c].now]
          /\ Return(c, call[c].now, r.rate)
    /\ UNCHANGED <<clock, ethRates, received>>

FallBackToChainlink(c) ==
    /\ call[c].step = "kraken"
    /\ UsableRates(call[c].now) = {}
    /\ GoOn(c, call[c].now, "chainlink")
    /\ UNCHANGED <<clock, cache, ethRates, received>>

ChainlinkAnswers(c) == call[c].step = "chainlink" /\ SaveAndCache(c)

(* The last source failed: getEthUsdRate throws.                           *)
ChainlinkFails_Returns(c) ==    \* mutant: the last error is logged like the others
    /\ call[c].step = "chainlink"
    /\ Return(c, call[c].now, NoRate)
    /\ UNCHANGED <<clock, cache, ethRates, received>>

ChainlinkFails(c) ==
    /\ call[c].step = "chainlink"
    /\ GoOn(c, call[c].now, "failed")
    /\ UNCHANGED <<clock, cache, ethRates, received>>

(* Time passes between any two steps, as long as an answer may take.       *)
Tick ==
    /\ clock < MaxTime
    /\ clock' = clock + 1
    /\ UNCHANGED rateVars

(* A restart forgets the memory and the calls, and keeps the database.     *)
RateRestart_InMemory ==     \* mutant: the table lives in memory
    /\ cache' = NoRate
    /\ call' = [c \in Callers |-> Idle]
    /\ ethRates' = {}
    /\ UNCHANGED <<clock, received>>

RateRestart ==
    /\ cache' = NoRate
    /\ call' = [c \in Callers |-> Idle]
    /\ UNCHANGED <<clock, ethRates, received>>

RateStep(c) ==
    \/ KrakenAnswers(c)
    \/ FallBackToDb(c)
    \/ FallBackToChainlink(c)
    \/ ChainlinkAnswers(c)
    \/ ChainlinkFails(c)

RateNext ==
    \/ \E c \in Callers : AskHit(c) \/ AskMiss(c) \/ RateStep(c)
    \/ Tick
    \/ RateRestart

RateSpec == RateInit /\ [][RateNext]_<<clock, rateVars>>

---------------------------------------------------------------------------
(* A rate is never used when it is older, at the time its caller asked,    *)
(* than the life of a stored rate plus that of the memory: re-caching a    *)
(* stored rate as fresh does not compound, whatever the order in which     *)
(* slow answers, failures and restarts arrive.                             *)
RateAgeIsBounded ==
    \A c \in Callers :
        call[c].step = "done" =>
            call[c].now - call[c].rate <= (MAX_DB_RATE_AGE - 1) + (CACHE_TTL - 1)

(* A call fails only if no rate was received in the hour before it began,  *)
(* by this process or an earlier one: outages of both sources shorter than *)
(* that are not seen by the callers, not even across a restart.            *)
FailureMeansNoRate ==
    \A c \in Callers : \A t \in received :
        call[c].step = "failed" /\ t < call[c].now => call[c].now - t >= MAX_DB_RATE_AGE
=============================================================================
