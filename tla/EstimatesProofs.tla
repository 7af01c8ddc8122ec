-------------------------- MODULE EstimatesProofs --------------------------
(***************************************************************************)
(* Proofs about EthRate and about Estimates, which uses it: for any number *)
(* of callers, any lifetimes, any length of time, any number of releases   *)
(* and crashes, and any bound of the cache.                                *)
(***************************************************************************)
EXTENDS Estimates, TLAPS, FiniteSetTheorems, SequenceTheorems, WellFoundedInduction

(* What a stored row, the memory and each call may hold. A row is stamped  *)
(* when it is received, and the memory with a time not after it was        *)
(* filled; a call that gave up on the database found nothing young enough. *)
RowsAreStamped ==
    /\ \A r \in ethRates : r.rate = r.timestamp /\ r.timestamp <= clock
    /\ \A t \in received : t <= clock /\ \E r \in ethRates : r.timestamp = t
    /\ ethRates # {} => LatestRates # {}

MemoryIsBounded ==
    cache # NoRate => cache.timestamp <= clock /\ cache.timestamp - cache.rate <= MAX_DB_RATE_AGE - 1

GaveUp(c) == call[c].step \in {"chainlink", "failed"}
CallsAreBounded ==
    \A c \in Callers :
        /\ call[c].now <= clock
        /\ GaveUp(c) => \A t \in received : t < call[c].now => call[c].now - t >= MAX_DB_RATE_AGE

RateInv == RateTypeOK /\ RowsAreStamped /\ MemoryIsBounded /\ CallsAreBounded /\ RateAgeIsBounded

allRateVars == <<clock, rateVars>>
USE RateAssumption
---------------------------------------------------------------------------
(* A row stamped now is the latest there is.                               *)
LEMMA NewRowIsLatest ==
    ASSUME RateTypeOK, RowsAreStamped,
           ethRates' = ethRates \cup {[rate |-> clock, timestamp |-> clock]}, clock' = clock
    PROVE  LatestRates' # {}
<1> DEFINE row == [rate |-> clock, timestamp |-> clock]
<1>1. row \in ethRates' /\ row.timestamp = clock
  OBVIOUS
<1>2. \A s \in ethRates' : s.timestamp <= row.timestamp
  BY DEF RowsAreStamped, RateTypeOK
<1> QED
  BY <1>1, <1>2 DEF LatestRates

(* A live answer is saved, cached and returned.                            *)
LEMMA SavePreserves ==
    ASSUME RateInv, NEW c \in Callers, SaveAndCache(c)
    PROVE  RateInv'
<1> USE DEF RateInv
<1>0. /\ clock \in Nat
      /\ \A d \in Callers : call[d] \in Call /\ call[d].now <= clock /\ call[d].now \in Nat
  BY DEF RateTypeOK, Call, CallsAreBounded
<1>1. RateTypeOK'
  <2>1. [rate |-> clock, timestamp |-> call[c].now] \in Row /\ [rate |-> clock, timestamp |-> clock] \in Row
    BY <1>0 DEF Row
  <2>2. [step |-> "done", now |-> call[c].now, rate |-> clock] \in Call
    BY <1>0 DEF Call
  <2>3. call' \in [Callers -> Call] /\ \A d \in Callers : call'[d].step = "done" => call'[d].rate # NoRate
    BY <1>0, <2>2 DEF SaveAndCache, Return, RateTypeOK
  <2> QED
    BY <1>0, <2>1, <2>3 DEF RateTypeOK, SaveAndCache
<1>2. RowsAreStamped'
  <2>1. LatestRates' # {}
    BY NewRowIsLatest DEF SaveAndCache
  <2>2. \A r \in ethRates' : r.rate = r.timestamp /\ r.timestamp <= clock
    BY <1>0 DEF RowsAreStamped, SaveAndCache
  <2>3. \A t \in received' : t <= clock /\ \E r \in ethRates' : r.timestamp = t
    <3> SUFFICES ASSUME NEW t \in received' PROVE t <= clock /\ \E r \in ethRates' : r.timestamp = t
      OBVIOUS
    <3>1. CASE t \in received
      BY <3>1 DEF RowsAreStamped, SaveAndCache
    <3>2. CASE t = clock
      <4>1. [rate |-> clock, timestamp |-> clock] \in ethRates'
        BY DEF SaveAndCache
      <4> QED
        BY <1>0, <3>2, <4>1
    <3> QED
      BY <3>1, <3>2 DEF SaveAndCache
  <2> QED
    BY <2>1, <2>2, <2>3 DEF RowsAreStamped, SaveAndCache
<1>3. MemoryIsBounded'
  BY <1>0 DEF MemoryIsBounded, SaveAndCache
<1>4. CallsAreBounded'
  <2> SUFFICES ASSUME NEW d \in Callers PROVE
          /\ call'[d].now <= clock
          /\ (GaveUp(d))' => \A t \in received' : t < call'[d].now => call'[d].now - t >= MAX_DB_RATE_AGE
    BY DEF CallsAreBounded, SaveAndCache
  <2>1. CASE d = c
    BY <2>1, <1>0 DEF SaveAndCache, Return, GaveUp, RateTypeOK
  <2>2. CASE d # c
    <3>1. call'[d] = call[d]
      BY <2>2 DEF SaveAndCache, Return, RateTypeOK
    <3>2. \A t \in received' : t < call[d].now => t \in received
      BY <1>0 DEF SaveAndCache
    <3> QED
      BY <1>0, <3>1, <3>2 DEF GaveUp, CallsAreBounded
  <2> QED
    BY <2>1, <2>2
<1>5. RateAgeIsBounded'
  BY <1>0 DEF RateAgeIsBounded, SaveAndCache, Return, RateTypeOK
<1> QED
  BY <1>1, <1>2, <1>3, <1>4, <1>5

(* The rate in memory is returned.                                         *)
LEMMA HitPreserves ==
    ASSUME RateInv, NEW c \in Callers, AskHit(c)
    PROVE  RateInv'
<1> USE DEF RateInv
<1>0. cache \in Row /\ cache.rate \in Nat /\ cache.timestamp \in Nat /\ clock \in Nat
  BY DEF RateTypeOK, AskHit, InMemory, Row
<1>1. RateTypeOK'
  BY <1>0 DEF RateTypeOK, AskHit, Return, Call
<1>2. RowsAreStamped' /\ MemoryIsBounded'
  BY DEF RowsAreStamped, MemoryIsBounded, AskHit, LatestRates
<1>3. CallsAreBounded'
  BY <1>0 DEF CallsAreBounded, AskHit, Return, GaveUp, RateTypeOK
<1>4. RateAgeIsBounded'
  BY <1>0 DEF RateAgeIsBounded, MemoryIsBounded, AskHit, InMemory, Return, RateTypeOK
<1> QED
  BY <1>1, <1>2, <1>3, <1>4

(* A call goes on to Kraken, or fails: neither memory nor table changes.   *)
LEMMA GoOnPreserves ==
    ASSUME RateInv, NEW c \in Callers, NEW now \in Nat, now <= clock,
           NEW step \in {"kraken", "chainlink", "failed"}, GoOn(c, now, step),
           UNCHANGED <<clock, cache, ethRates, received>>,
           step # "kraken" => \A t \in received : t < now => now - t >= MAX_DB_RATE_AGE
    PROVE  RateInv'
<1> USE DEF RateInv
<1>1. RateTypeOK'
  BY DEF RateTypeOK, GoOn, Call
<1>2. RowsAreStamped' /\ MemoryIsBounded'
  BY DEF RowsAreStamped, MemoryIsBounded, LatestRates
<1>3. CallsAreBounded'
  BY DEF CallsAreBounded, GoOn, GaveUp, RateTypeOK
<1>4. RateAgeIsBounded'
  BY DEF RateAgeIsBounded, GoOn, RateTypeOK
<1> QED
  BY <1>1, <1>2, <1>3, <1>4

(* The stored rate that is used is younger than its limit.                 *)
LEMMA DbPreserves ==
    ASSUME RateInv, NEW c \in Callers, FallBackToDb(c)
    PROVE  RateInv'
<1> USE DEF RateInv
<1>0. call[c] \in Call /\ clock \in Nat /\ call[c].now <= clock /\ call[c].now \in Nat
  BY DEF RateTypeOK, Call, CallsAreBounded
<1>1. PICK r \in UsableRates(call[c].now) :
         /\ cache' = [rate |-> r.rate, timestamp |-> call[c].now]
         /\ Return(c, call[c].now, r.rate)
  BY DEF FallBackToDb
<1>2. r \in Row /\ r.rate \in Nat /\ r.timestamp = r.rate /\ call[c].now - r.rate < MAX_DB_RATE_AGE
  BY <1>1 DEF UsableRates, LatestRates, RateTypeOK, Row, RowsAreStamped
<1>3. RateTypeOK'
  BY <1>0, <1>1, <1>2 DEF RateTypeOK, FallBackToDb, Return, Row, Call
<1>4. RowsAreStamped'
  BY DEF RowsAreStamped, FallBackToDb, LatestRates
<1>5. MemoryIsBounded'
  BY <1>0, <1>1, <1>2 DEF MemoryIsBounded, FallBackToDb
<1>6. CallsAreBounded'
  BY <1>0, <1>1 DEF CallsAreBounded, FallBackToDb, Return, GaveUp, RateTypeOK
<1>7. RateAgeIsBounded'
  BY <1>0, <1>1, <1>2 DEF RateAgeIsBounded, FallBackToDb, Return, RateTypeOK
<1> QED
  BY <1>3, <1>4, <1>5, <1>6, <1>7

(* A call that finds no usable row found every received rate too old.      *)
LEMMA NothingUsable ==
    ASSUME RateInv, NEW now \in Nat, UsableRates(now) = {}
    PROVE  \A t \in received : t < now => now - t >= MAX_DB_RATE_AGE
<1> SUFFICES ASSUME NEW t \in received, t < now PROVE now - t >= MAX_DB_RATE_AGE
  OBVIOUS
<1>1. PICK r \in ethRates : r.timestamp = t
  BY DEF RateInv, RowsAreStamped
<1>2. PICK l \in LatestRates : TRUE
  BY <1>1 DEF RateInv, RowsAreStamped
<1>3. l \in Row /\ r \in Row /\ t <= l.timestamp /\ t \in Nat
  BY <1>1, <1>2 DEF LatestRates, RateInv, RateTypeOK
<1>4. ~(now - l.timestamp < MAX_DB_RATE_AGE)
  BY <1>2 DEF UsableRates
<1> QED
  BY <1>3, <1>4 DEF Row

(* Every step preserves the invariant: one step per action.                *)
LEMMA RateInductive == RateInv /\ [RateNext]_allRateVars => RateInv'
<1> SUFFICES ASSUME RateInv, [RateNext]_allRateVars PROVE RateInv'
  OBVIOUS
<1>0. clock \in Nat /\ \A c \in Callers : call[c] \in Call /\ call[c].now \in Nat /\ call[c].now <= clock
  BY DEF RateInv, RateTypeOK, Call, CallsAreBounded
<1>1. ASSUME NEW c \in Callers, AskHit(c) PROVE RateInv'
  BY <1>1, HitPreserves
<1>2. ASSUME NEW c \in Callers, AskMiss(c) PROVE RateInv'
  BY <1>0, <1>2, GoOnPreserves DEF AskMiss
<1>3. ASSUME NEW c \in Callers, KrakenAnswers(c) \/ ChainlinkAnswers(c) PROVE RateInv'
  BY <1>3, SavePreserves DEF KrakenAnswers, ChainlinkAnswers
<1>4. ASSUME NEW c \in Callers, FallBackToDb(c) PROVE RateInv'
  BY <1>4, DbPreserves
<1>5. ASSUME NEW c \in Callers, FallBackToChainlink(c) PROVE RateInv'
  <2>1. PICK now \in Nat : now = call[c].now /\ now <= clock
    BY <1>0
  <2>2. \A t \in received : t < now => now - t >= MAX_DB_RATE_AGE
    BY <1>5, <2>1, NothingUsable DEF FallBackToChainlink
  <2> QED
    BY <1>5, <2>1, <2>2, GoOnPreserves DEF FallBackToChainlink
<1>6. ASSUME NEW c \in Callers, ChainlinkFails(c) PROVE RateInv'
  <2>1. PICK now \in Nat : now = call[c].now /\ now <= clock
    BY <1>0
  <2>2. \A t \in received : t < now => now - t >= MAX_DB_RATE_AGE
    BY <1>6, <2>1 DEF ChainlinkFails, RateInv, CallsAreBounded, GaveUp
  <2> QED
    BY <1>6, <2>1, <2>2, GoOnPreserves DEF ChainlinkFails
<1>7. CASE Tick
  <2>1. clock' \in Nat /\ clock' = clock + 1 /\ UNCHANGED rateVars
    BY <1>0, <1>7 DEF Tick
  <2>2. RateTypeOK' /\ RateAgeIsBounded'
    BY <2>1 DEF rateVars, RateInv, RateTypeOK, RateAgeIsBounded
  <2>3. RowsAreStamped'
    BY <1>0, <2>1 DEF rateVars, RateInv, RowsAreStamped, RateTypeOK, Row, LatestRates
  <2>4. MemoryIsBounded'
    BY <1>0, <2>1 DEF rateVars, RateInv, MemoryIsBounded, RateTypeOK, Row
  <2>5. CallsAreBounded'
    BY <1>0, <2>1 DEF rateVars, RateInv, CallsAreBounded, GaveUp
  <2> QED
    BY <2>2, <2>3, <2>4, <2>5 DEF RateInv
<1>8. CASE RateRestart
  <2>1. RateTypeOK' /\ RowsAreStamped' /\ MemoryIsBounded'
    BY <1>8 DEF RateRestart, RateInv, RateTypeOK, RowsAreStamped, MemoryIsBounded, LatestRates, Idle, Call
  <2>2. CallsAreBounded' /\ RateAgeIsBounded'
    BY <1>0, <1>8 DEF RateRestart, CallsAreBounded, RateAgeIsBounded, GaveUp, Idle
  <2> QED
    BY <2>1, <2>2 DEF RateInv
<1>9. CASE UNCHANGED allRateVars
  BY <1>9 DEF allRateVars, rateVars, RateInv, RateTypeOK, RowsAreStamped, MemoryIsBounded,
              CallsAreBounded, RateAgeIsBounded, LatestRates, GaveUp
<1> QED
  BY <1>1, <1>2, <1>3, <1>4, <1>5, <1>6, <1>7, <1>8, <1>9 DEF RateNext, RateStep

LEMMA RateInvariant == RateSpec => []RateInv
<1>1. RateInit => RateInv
  BY DEF RateInit, RateInv, RateTypeOK, RowsAreStamped, MemoryIsBounded, CallsAreBounded,
         RateAgeIsBounded, GaveUp, Idle, Call
<1> QED
  BY <1>1, RateInductive, PTL DEF RateSpec, allRateVars

(* No caller ever uses a rate older than the two lifetimes allow, however  *)
(* many calls overlap and in whatever order their answers arrive.          *)
THEOREM RateAgeTheorem == RateSpec => []RateAgeIsBounded
BY RateInvariant, PTL DEF RateInv

(* getEthUsdRate fails only when no rate was received within MAX_DB_RATE_AGE *)
(* before the call, restarts included.                                     *)
THEOREM RateFailureTheorem == RateSpec => []FailureMeansNoRate
<1>1. RateInv => FailureMeansNoRate
  BY DEF RateInv, CallsAreBounded, GaveUp, FailureMeansNoRate
<1> QED
  BY <1>1, RateInvariant, PTL

---------------------------------------------------------------------------
(* Estimates: the price table, its cache and the cache of estimates.       *)

PriceTypes ==
    /\ clock \in Times
    /\ pricingModels \subseteq PriceRow
    /\ pricingHistory \in Seq(Versions)
    /\ pricingCache \in [Endpoints -> [price : Versions, expiry : Nat] \cup {NoRate}]
    /\ boot.step \in {"down", "closed", "stored", "serving"}
    /\ version \in Versions

(* A row is the provider's, valid since it was written and, once closed,   *)
(* over: no row is dated into the future.                                  *)
RowsAreOver ==
    \A row \in pricingModels :
        /\ row.endpoint = PricedEndpoint
        /\ row.from <= clock
        /\ row.until = Open \/ row.until <= clock

(* Where a boot stands, the table tells: between upsertPricing's two       *)
(* statements there is no open row, after them the one of this release.    *)
OpenRowFollowsTheBoot ==
    /\ \A r, s \in pricingModels : r.until = Open /\ s.until = Open => r = s
    /\ boot.step = "closed" =>
           /\ \A r \in pricingModels : r.until # Open
           /\ boot.from \in Times /\ boot.from <= clock
    /\ boot.step \in {"stored", "serving"} =>
           \E r \in pricingModels : r.until = Open /\ r.price = version

(* A price is cached by a serving process only, and is its release's.      *)
CachedPriceFollowsTheBoot ==
    /\ boot.step # "serving" => pricingCache[PricedEndpoint] = NoRate
    /\ boot.step = "serving" =>
           /\ pricingCache[PricedEndpoint] # NoRate => pricingCache[PricedEndpoint].price = version
           /\ pricingHistory # <<>> /\ Last(pricingHistory) = version

PriceInv == PriceTypes /\ RowsAreOver /\ OpenRowFollowsTheBoot /\ CachedPriceFollowsTheBoot

Entry == [key : Endpoints \X Units, expiry : Nat]

EstimateTypes ==
    /\ estimateCache \in Seq(Entry)
    /\ estimate \in [Callers -> [step : {"idle", "ended"}]
                                    \cup [step : {"converting", "showing"}, req : Request]]
    /\ crashes \in 0..MaxCrashes

(* Entries share one TTL: none expires after one that is added now.        *)
ExpiriesArePast == \A i \in DOMAIN estimateCache : estimateCache[i].expiry <= clock + ESTIMATE_TTL

EstimateInv == EstimateTypes /\ ExpiriesArePast /\ EstimateCacheIsOrdered

USE EstimatesAssumption
---------------------------------------------------------------------------
(* Estimates uses the rate as EthRate says: a crash restarts it, an        *)
(* estimate asks for it twice, and nothing else touches it.                *)
LEMMA RateUse == [Next]_vars => [RateNext]_<<clock, rateVars>>
<1> SUFFICES ASSUME [Next]_vars PROVE [RateNext]_<<clock, rateVars>>
  OBVIOUS
<1>1. SeedCloses \/ SeedInserts \/ SeedRecords \/ UNCHANGED vars => UNCHANGED <<clock, rateVars>>
  BY DEF SeedCloses, SeedInserts, SeedRecords, vars
<1>2. Crash => RateRestart
  BY DEF Crash
<1>3. TimePasses => Tick
  BY DEF TimePasses
<1>4. ASSUME NEW c \in Callers, NEW req \in Request,
             EstimateCached(c, req) \/ EstimateRefused(c, req) \/ EstimateStarts(c, req)
      PROVE  UNCHANGED <<clock, rateVars>> \/ AskHit(c) \/ AskMiss(c)
  BY <1>4 DEF EstimateCached, EstimateRefused, EstimateStarts
<1>5. ASSUME NEW c \in Callers,
             EstimateConverted(c) \/ EstimateShown(c) \/ EstimateFails(c) \/ RateSettles(c)
      PROVE  UNCHANGED <<clock, rateVars>> \/ AskHit(c) \/ AskMiss(c) \/ RateStep(c)
  BY <1>5 DEF EstimateConverted, EstimateShown, EstimateFails, RateSettles
<1> QED
  BY <1>1, <1>2, <1>3, <1>4, <1>5 DEF Next, RateNext

(* The behaviours of Estimates are behaviours of EthRate, so the age of a  *)
(* rate and the meaning of a failure hold for the estimates made with it.  *)
THEOREM EstimatesUseTheRate == Spec => RateSpec
<1>1. Init => RateInit
  BY DEF Init
<1>2. QED
  BY <1>1, RateUse, PTL DEF Spec, RateSpec

---------------------------------------------------------------------------
(* The rows in force are the open ones, because every closed row is over.  *)
LEMMA ActiveIsOpen ==
    ASSUME PriceTypes, RowsAreOver, NEW ep
    PROVE  ActiveRows(ep) = {r \in pricingModels : r.endpoint = ep /\ r.until = Open}
<1>1. clock \in Nat /\ Open \notin Nat
  BY DEF PriceTypes, Times
<1>2. ASSUME NEW r \in pricingModels PROVE Active(r) <=> r.until = Open
  <2>1. r.from \in Nat /\ r.until \in Nat \cup {Open} /\ r.from <= clock
        /\ (r.until = Open \/ r.until <= clock)
    BY DEF PriceTypes, RowsAreOver, PriceRow, Times
  <2> QED
    BY <1>1, <2>1 DEF Active
<1> QED
  BY <1>2 DEF ActiveRows

(* The table has a price when there is an open row, and then it is that    *)
(* row's.                                                                  *)
LEMMA PriceOfOpenRow ==
    ASSUME PriceTypes, RowsAreOver, OpenRowFollowsTheBoot,
           NEW r \in pricingModels, r.until = Open
    PROVE  GetPricing(PricedEndpoint) = {r.price}
<1>1. r.endpoint = PricedEndpoint /\ r.from \in Nat
  BY DEF RowsAreOver, PriceTypes, PriceRow, Times
<1>2. ActiveRows(PricedEndpoint) = {r}
  BY <1>1, ActiveIsOpen DEF OpenRowFollowsTheBoot
<1> QED
  BY <1>1, <1>2 DEF GetPricing

LEMMA OracleFollows ==
    ASSUME PriceInv, boot.step = "serving"
    PROVE  OraclePrice(PricedEndpoint) = {version}
<1>1. PICK r \in pricingModels : r.until = Open /\ r.price = version
  BY DEF PriceInv, OpenRowFollowsTheBoot
<1>2. GetPricing(PricedEndpoint) = {version}
  BY <1>1, PriceOfOpenRow DEF PriceInv
<1> QED
  BY <1>2 DEF PriceInv, CachedPriceFollowsTheBoot, OraclePrice, CachedPrice

LEMMA OracleTypes ==
    ASSUME PriceTypes, NEW ep \in Endpoints, NEW p \in OraclePrice(ep)
    PROVE  p \in Versions
<1>1. CASE CachedPrice(ep)
  BY <1>1 DEF OraclePrice, CachedPrice, PriceTypes
<1>2. CASE ~CachedPrice(ep)
  BY <1>2 DEF OraclePrice, GetPricing, ActiveRows, PriceTypes, PriceRow
<1> QED
  BY <1>1, <1>2

(* Steps that leave the prices alone, while time may pass.                 *)
LEMMA PricesLast ==
    ASSUME PriceInv, UNCHANGED priceVars, clock' \in Times, clock' >= clock
    PROVE  PriceInv'
<1>1. UNCHANGED <<pricingModels, pricingHistory, pricingCache, boot, version>>
  BY DEF priceVars
<1>2. clock \in Nat /\ clock' \in Nat /\ pricingModels \subseteq PriceRow
  BY DEF PriceInv, PriceTypes, Times
<1>3. \A row \in pricingModels : row.from \in Nat /\ row.until \in Nat \cup {Open}
  BY <1>2 DEF PriceRow, Times
<1>4. PriceTypes'
  BY <1>1 DEF PriceInv, PriceTypes
<1>5. RowsAreOver'
  BY <1>1, <1>2, <1>3 DEF PriceInv, RowsAreOver
<1>6. OpenRowFollowsTheBoot'
  BY <1>1, <1>2 DEF PriceInv, OpenRowFollowsTheBoot, Times
<1>7. CachedPriceFollowsTheBoot'
  BY <1>1 DEF PriceInv, CachedPriceFollowsTheBoot
<1> QED
  BY <1>4, <1>5, <1>6, <1>7 DEF PriceInv

(* What closing the open rows leaves.                                      *)
LEMMA ClosedRows ==
    ASSUME PriceInv, NEW q \in CloseOpenRows
    PROVE  /\ q \in PriceRow
           /\ q.endpoint = PricedEndpoint
           /\ q.from <= clock
           /\ q.until # Open /\ q.until <= clock
<1>1. PICK row \in pricingModels :
          q = IF row.endpoint = PricedEndpoint /\ row.until = Open
              THEN [row EXCEPT !.until = clock] ELSE row
  BY DEF CloseOpenRows
<1>2. /\ row \in PriceRow /\ row.endpoint = PricedEndpoint /\ row.from <= clock
      /\ (row.until = Open \/ row.until <= clock)
  BY DEF PriceInv, PriceTypes, RowsAreOver
<1>3. clock \in Times /\ clock \in Nat
  BY DEF PriceInv, PriceTypes, Times
<1>4. CASE row.until = Open
  <2>1. q = [row EXCEPT !.until = clock]
    BY <1>1, <1>2, <1>4
  <2> QED
    BY <1>2, <1>3, <2>1 DEF PriceRow
<1>5. CASE row.until # Open
  BY <1>1, <1>2, <1>5
<1> QED
  BY <1>4, <1>5

LEMMA SeedClosesInv ==
    ASSUME PriceInv, SeedCloses
    PROVE  PriceInv'
<1>1. /\ boot.step = "down" /\ boot' = [step |-> "closed", from |-> clock]
      /\ pricingModels' = IF GetPricing(PricedEndpoint) # {} THEN CloseOpenRows ELSE pricingModels
      /\ UNCHANGED <<clock, pricingHistory, pricingCache, version>>
  BY DEF SeedCloses
<1>2. boot'.step = "closed" /\ boot'.from = clock
  BY <1>1
<1>3. clock \in Times /\ clock \in Nat
  BY DEF PriceInv, PriceTypes, Times
<1>4. ASSUME NEW q \in pricingModels'
      PROVE  /\ q \in PriceRow
             /\ q.endpoint = PricedEndpoint
             /\ q.from <= clock
             /\ q.until # Open /\ q.until <= clock
  <2>1. CASE GetPricing(PricedEndpoint) # {}
    BY <1>1, <1>4, <2>1, ClosedRows
  <2>2. CASE GetPricing(PricedEndpoint) = {}
    <3>1. q \in pricingModels
      BY <1>1, <1>4, <2>2
    <3>2. q.until # Open
      BY <2>2, <3>1, PriceOfOpenRow DEF PriceInv
    <3> QED
      BY <3>1, <3>2 DEF PriceInv, PriceTypes, RowsAreOver
  <2> QED
    BY <2>1, <2>2
<1>5. PriceTypes'
  BY <1>1, <1>2, <1>4 DEF PriceInv, PriceTypes
<1>6. RowsAreOver'
  BY <1>1, <1>4 DEF RowsAreOver
<1>7. OpenRowFollowsTheBoot'
  BY <1>1, <1>2, <1>3, <1>4 DEF OpenRowFollowsTheBoot
<1>8. CachedPriceFollowsTheBoot'
  BY <1>1, <1>2 DEF PriceInv, CachedPriceFollowsTheBoot
<1> QED
  BY <1>5, <1>6, <1>7, <1>8 DEF PriceInv

LEMMA SeedInsertsInv ==
    ASSUME PriceInv, SeedInserts
    PROVE  PriceInv'
<1> DEFINE new == [endpoint |-> PricedEndpoint, price |-> version, from |-> boot.from,
                   until |-> Open]
<1>1. /\ boot.step = "closed" /\ boot' = [step |-> "stored"]
      /\ pricingModels' = pricingModels \cup {new}
      /\ UNCHANGED <<clock, pricingHistory, pricingCache, version>>
  BY DEF SeedInserts
<1>2. boot'.step = "stored"
  BY <1>1
<1>3. /\ \A r \in pricingModels : r.until # Open
      /\ boot.from \in Times /\ boot.from <= clock
  BY <1>1 DEF PriceInv, OpenRowFollowsTheBoot
<1>4. /\ new \in PriceRow /\ new.endpoint = PricedEndpoint /\ new.from <= clock
      /\ new.until = Open /\ new.price = version
  BY <1>3 DEF PriceInv, PriceTypes, PriceRow
<1> HIDE DEF new
<1>5. PriceTypes'
  BY <1>1, <1>2, <1>4 DEF PriceInv, PriceTypes
<1>6. RowsAreOver'
  BY <1>1, <1>4 DEF PriceInv, RowsAreOver
<1>7. OpenRowFollowsTheBoot'
  BY <1>1, <1>2, <1>3, <1>4 DEF OpenRowFollowsTheBoot
<1>8. CachedPriceFollowsTheBoot'
  BY <1>1, <1>2 DEF PriceInv, CachedPriceFollowsTheBoot
<1> QED
  BY <1>5, <1>6, <1>7, <1>8 DEF PriceInv

LEMMA SeedRecordsInv ==
    ASSUME PriceInv, SeedRecords
    PROVE  PriceInv'
<1>1. /\ boot.step = "stored" /\ boot' = [step |-> "serving"]
      /\ pricingHistory' = Append(pricingHistory, version)
      /\ pricingCache' = [pricingCache EXCEPT ![PricedEndpoint] = NoRate]
      /\ UNCHANGED <<clock, pricingModels, version>>
  BY DEF SeedRecords
<1>2. boot'.step = "serving"
  BY <1>1
<1>3. pricingHistory \in Seq(Versions) /\ version \in Versions
  BY DEF PriceInv, PriceTypes
<1>4. /\ pricingHistory' \in Seq(Versions) /\ pricingHistory' # <<>>
      /\ Last(pricingHistory') = version
  BY <1>1, <1>3, AppendProperties DEF Last
<1>5. pricingCache \in [Endpoints -> [price : Versions, expiry : Nat] \cup {NoRate}]
  BY DEF PriceInv, PriceTypes
<1>6. /\ pricingCache' \in [Endpoints -> [price : Versions, expiry : Nat] \cup {NoRate}]
      /\ pricingCache'[PricedEndpoint] = NoRate
  BY <1>1, <1>5
<1>7. PriceTypes'
  BY <1>1, <1>2, <1>4, <1>6 DEF PriceInv, PriceTypes
<1>8. RowsAreOver' /\ OpenRowFollowsTheBoot'
  BY <1>1, <1>2 DEF PriceInv, RowsAreOver, OpenRowFollowsTheBoot
<1>9. CachedPriceFollowsTheBoot'
  BY <1>1, <1>2, <1>4, <1>6 DEF CachedPriceFollowsTheBoot
<1> QED
  BY <1>7, <1>8, <1>9 DEF PriceInv

LEMMA CrashInv ==
    ASSUME PriceInv, Crash
    PROVE  PriceInv'
<1>1. /\ boot' = [step |-> "down"] /\ version' \in Versions
      /\ pricingCache' = [ep \in Endpoints |-> NoRate]
      /\ UNCHANGED <<clock, pricingModels, pricingHistory>>
  BY DEF Crash, RateRestart
<1>2. boot'.step = "down"
  BY <1>1
<1> QED
  BY <1>1, <1>2
  DEF PriceInv, PriceTypes, RowsAreOver, OpenRowFollowsTheBoot, CachedPriceFollowsTheBoot

(* An estimate caches the price it looked up, which is the release's.      *)
LEMMA StartsInv ==
    ASSUME PriceInv, NEW c \in Callers, NEW req \in Request, EstimateStarts(c, req)
    PROVE  PriceInv'
<1>1. UNCHANGED <<clock, pricingModels, pricingHistory, boot, version>> /\ boot.step = "serving"
  BY DEF EstimateStarts, AskHit, AskMiss, Requestable
<1>2. PICK p \in OraclePrice(req.endpoint) :
          pricingCache' = IF CachedPrice(req.endpoint) THEN pricingCache
                          ELSE [pricingCache EXCEPT ![req.endpoint] =
                                   [price |-> p, expiry |-> clock + PRICING_TTL]]
  BY DEF EstimateStarts
<1>3. req.endpoint \in Endpoints
  BY DEF Request
<1>4. p \in Versions
  BY <1>3, OracleTypes DEF PriceInv
<1>5. clock + PRICING_TTL \in Nat
  BY DEF PriceInv, PriceTypes, Times
<1>6. pricingCache \in [Endpoints -> [price : Versions, expiry : Nat] \cup {NoRate}]
  BY DEF PriceInv, PriceTypes
<1>7. pricingCache' \in [Endpoints -> [price : Versions, expiry : Nat] \cup {NoRate}]
  BY <1>2, <1>4, <1>5, <1>6
<1>8. req.endpoint = PricedEndpoint => p = version
  BY <1>1, <1>2, OracleFollows
<1>9. pricingCache'[PricedEndpoint] # NoRate => pricingCache'[PricedEndpoint].price = version
  <2>1. pricingCache[PricedEndpoint] # NoRate => pricingCache[PricedEndpoint].price = version
    BY <1>1 DEF PriceInv, CachedPriceFollowsTheBoot
  <2> QED
    BY <1>2, <1>3, <1>6, <1>8, <2>1
<1> QED
  BY <1>1, <1>7, <1>9
  DEF PriceInv, PriceTypes, RowsAreOver, OpenRowFollowsTheBoot, CachedPriceFollowsTheBoot

LEMMA PriceStep == PriceInv /\ [Next]_vars => PriceInv'
<1> SUFFICES ASSUME PriceInv, [Next]_vars PROVE PriceInv'
  OBVIOUS
<1>0. clock \in Times /\ clock \in Nat
  BY DEF PriceInv, PriceTypes, Times
<1>1. CASE UNCHANGED <<clock, priceVars>>
  BY <1>0, <1>1, PricesLast
<1>2. CASE SeedCloses
  BY <1>2, SeedClosesInv
<1>3. CASE SeedInserts
  BY <1>3, SeedInsertsInv
<1>4. CASE SeedRecords
  BY <1>4, SeedRecordsInv
<1>5. CASE Crash
  BY <1>5, CrashInv
<1>6. CASE TimePasses
  <2>1. clock' \in Times /\ clock' >= clock /\ UNCHANGED priceVars
    BY <1>0, <1>6 DEF TimePasses, Tick, Times
  <2> QED
    BY <2>1, PricesLast
<1>7. ASSUME NEW c \in Callers, NEW req \in Request, EstimateStarts(c, req) PROVE PriceInv'
  BY <1>7, StartsInv
<1>8. ASSUME NEW c \in Callers, NEW req \in Request,
             EstimateCached(c, req) \/ EstimateRefused(c, req)
      PROVE  UNCHANGED <<clock, priceVars>>
  BY <1>8 DEF EstimateCached, EstimateRefused
<1>9. ASSUME NEW c \in Callers,
             EstimateConverted(c) \/ EstimateShown(c) \/ EstimateFails(c) \/ RateSettles(c)
      PROVE  UNCHANGED <<clock, priceVars>>
  BY <1>9 DEF EstimateConverted, EstimateShown, EstimateFails, RateSettles, AskHit, AskMiss,
     RateStep, KrakenAnswers, FallBackToDb, FallBackToChainlink, ChainlinkAnswers,
     ChainlinkFails, SaveAndCache
<1>10. UNCHANGED vars => UNCHANGED <<clock, priceVars>>
  BY DEF vars
<1> QED
  BY <1>1, <1>2, <1>3, <1>4, <1>5, <1>6, <1>7, <1>8, <1>9, <1>10 DEF Next

---------------------------------------------------------------------------
(* cacheEstimate, one statement at a time.                                 *)

LEMMA SmallestOf ==
    ASSUME NEW T \in SUBSET Nat, T # {}
    PROVE  \E k \in T : \A j \in T : k <= j
<1> DEFINE R == OpToRel(<, Nat)
<1>1. IsWellFoundedOn(R, Nat)
  BY NatLessThanWellFounded
<1>2. ASSUME NEW j \in Nat, NEW k \in Nat, j < k PROVE <<j, k>> \in R
  <2>1. <<j, k>> \in Nat \X Nat /\ <<j, k>>[1] = j /\ <<j, k>>[2] = k
    OBVIOUS
  <2> QED
    BY <1>2, <2>1 DEF OpToRel
<1> HIDE DEF R
<1>3. PICK k \in T : \A j \in T : ~(<<j, k>> \in R)
  BY <1>1, WFMin
<1>4. ASSUME NEW j \in T PROVE k <= j
  <2>1. j \in Nat /\ k \in Nat
    OBVIOUS
  <2>2. ~(<<j, k>> \in R)
    BY <1>3
  <2>3. ~(j < k)
    BY <1>2, <2>1, <2>2, Zenon
  <2> QED
    BY <2>1, <2>3
<1> QED
  BY <1>4

LEMMA RemoveAtProperties ==
    ASSUME NEW S, NEW s \in Seq(S), NEW i \in 1..Len(s)
    PROVE  /\ RemoveAt(s, i) \in Seq(S)
           /\ Len(RemoveAt(s, i)) = Len(s) - 1
           /\ \A k \in 1..(Len(s) - 1) : RemoveAt(s, i)[k] = IF k < i THEN s[k] ELSE s[k + 1]
<1>1. Len(s) \in Nat /\ i \in Nat /\ 1 <= i /\ i <= Len(s)
  BY LenProperties
<1>2. \A k \in 1..Len(s) : s[k] \in S
  BY ElementOfSeq
<1>3. PICK a : a = SubSeq(s, 1, i - 1)
  OBVIOUS
<1>4. PICK b : b = SubSeq(s, i + 1, Len(s))
  OBVIOUS
<1>5. /\ a \in Seq(S) /\ Len(a) = i - 1
      /\ \A k \in 1..(i - 1) : a[k] = s[k]
  <2>1. \A k \in 1..(i - 1) : s[k] \in S
    BY <1>1, <1>2
  <2>2. /\ SubSeq(s, 1, i - 1) \in Seq(S)
        /\ Len(SubSeq(s, 1, i - 1)) = IF 1 <= i - 1 THEN i - 1 - 1 + 1 ELSE 0
        /\ \A k \in 1..(i - 1 - 1 + 1) : SubSeq(s, 1, i - 1)[k] = s[1 + k - 1]
    BY <1>1, <2>1, SubSeqProperties
  <2> QED
    BY <1>1, <1>3, <2>2
<1>6. /\ b \in Seq(S) /\ Len(b) = Len(s) - i
      /\ \A k \in 1..(Len(s) - i) : b[k] = s[i + k]
  <2>1. \A k \in (i + 1)..Len(s) : s[k] \in S
    BY <1>1, <1>2
  <2>2. /\ SubSeq(s, i + 1, Len(s)) \in Seq(S)
        /\ Len(SubSeq(s, i + 1, Len(s)))
               = IF i + 1 <= Len(s) THEN Len(s) - (i + 1) + 1 ELSE 0
        /\ \A k \in 1..(Len(s) - (i + 1) + 1) : SubSeq(s, i + 1, Len(s))[k] = s[i + 1 + k - 1]
    BY <1>1, <2>1, SubSeqProperties
  <2> QED
    BY <1>1, <1>4, <2>2
<1>7. RemoveAt(s, i) = a \o b
  BY <1>3, <1>4 DEF RemoveAt
<1>8. /\ a \o b \in Seq(S) /\ Len(a \o b) = Len(a) + Len(b)
      /\ \A k \in 1..(Len(a) + Len(b)) :
             (a \o b)[k] = IF k <= Len(a) THEN a[k] ELSE b[k - Len(a)]
  BY <1>5, <1>6, ConcatProperties
<1>9. ASSUME NEW k \in 1..(Len(s) - 1)
      PROVE  RemoveAt(s, i)[k] = IF k < i THEN s[k] ELSE s[k + 1]
  <2>1. CASE k < i
    BY <1>1, <1>5, <1>6, <1>7, <1>8, <2>1
  <2>2. CASE ~(k < i)
    <3>1. k - Len(a) \in 1..(Len(s) - i) /\ i + (k - Len(a)) = k + 1
      BY <1>1, <1>5, <2>2
    <3>2. b[k - Len(a)] = s[k + 1]
      BY <1>6, <3>1
    <3> QED
      BY <1>1, <1>5, <1>6, <1>7, <1>8, <2>2, <3>2
  <2> QED
    BY <2>1, <2>2
<1> QED
  BY <1>1, <1>5, <1>6, <1>7, <1>8, <1>9

(* A key is held once, entries are in expiry order.                        *)
Ordered(s) ==
    \A i, j \in 1..Len(s) : i < j => s[i].key # s[j].key /\ s[i].expiry <= s[j].expiry

(* delete(key): what is left is in order and has no entry of the key.      *)
LEMMA WithoutKeyProperties ==
    ASSUME EstimateInv, NEW key
    PROVE  /\ WithoutKey(key) \in Seq(Entry)
           /\ Ordered(WithoutKey(key))
           /\ \A k \in 1..Len(WithoutKey(key)) :
                  /\ WithoutKey(key)[k].key # key
                  /\ WithoutKey(key)[k].expiry <= clock + ESTIMATE_TTL
<1>1. PICK s \in Seq(Entry) : s = estimateCache
  BY DEF EstimateInv, EstimateTypes
<1>2. /\ Len(s) \in Nat /\ DOMAIN s = 1..Len(s)
      /\ \A k \in 1..Len(s) : s[k] \in Entry
  BY LenProperties, ElementOfSeq
<1>3. Ordered(s) /\ \A k \in 1..Len(s) : s[k].expiry <= clock + ESTIMATE_TTL
  BY <1>1, <1>2 DEF EstimateInv, EstimateCacheIsOrdered, ExpiriesArePast, Ordered
<1>4. CASE Holding(key) = {}
  BY <1>1, <1>2, <1>3, <1>4 DEF WithoutKey, Holding
<1>5. CASE Holding(key) # {}
  <2>1. PICK i \in 1..Len(s) : s[i].key = key /\ WithoutKey(key) = RemoveAt(s, i)
    BY <1>1, <1>2, <1>5 DEF WithoutKey, Holding
  <2>2. PICK w : w = WithoutKey(key)
    OBVIOUS
  <2>3. /\ w \in Seq(Entry) /\ Len(w) = Len(s) - 1
        /\ \A k \in 1..(Len(s) - 1) : w[k] = IF k < i THEN s[k] ELSE s[k + 1]
    BY <2>1, <2>2, RemoveAtProperties
  <2>4. ASSUME NEW k \in 1..Len(w), NEW j \in 1..Len(w), k < j
        PROVE  w[k].key # w[j].key /\ w[k].expiry <= w[j].expiry
    <3>1. PICK k1 \in 1..Len(s) : w[k] = s[k1] /\ k1 = IF k < i THEN k ELSE k + 1
      BY <1>2, <2>3
    <3>2. PICK j1 \in 1..Len(s) : w[j] = s[j1] /\ j1 = IF j < i THEN j ELSE j + 1
      BY <1>2, <2>3
    <3>3. k1 < j1
      BY <1>2, <2>4, <3>1, <3>2
    <3> QED
      BY <1>3, <3>1, <3>2, <3>3 DEF Ordered
  <2>5. ASSUME NEW k \in 1..Len(w)
        PROVE  w[k].key # key /\ w[k].expiry <= clock + ESTIMATE_TTL
    <3>0. PICK k1 \in 1..Len(s) : w[k] = s[k1] /\ k1 = IF k < i THEN k ELSE k + 1
      BY <1>2, <2>3
    <3>1. w[k] = s[k1] /\ k1 # i
      BY <1>2, <3>0
    <3>2. s[k1].key # s[i].key
      <4>1. CASE k1 < i
        BY <1>3, <4>1 DEF Ordered
      <4>2. CASE i < k1
        BY <1>3, <4>2 DEF Ordered
      <4> QED
        BY <1>2, <3>1, <4>1, <4>2
    <3> QED
      BY <1>3, <2>1, <3>1, <3>2
  <2> QED
    BY <2>2, <2>3, <2>4, <2>5 DEF Ordered
<1> QED
  BY <1>4, <1>5

(* The loop drops a prefix, and stops with room for one more entry.        *)
LEMMA KeptProperties ==
    ASSUME NEW s \in Seq(Entry)
    PROVE  \E k \in 0..Len(s) :
               /\ Kept(s) \in Seq(Entry)
               /\ Len(Kept(s)) = Len(s) - k
               /\ Len(s) - k < MAX_CACHE_ENTRIES
               /\ \A i \in 1..(Len(s) - k) : Kept(s)[i] = s[k + i]
<1>1. Len(s) \in Nat /\ \A i \in 1..Len(s) : s[i] \in Entry
  BY LenProperties, ElementOfSeq
<1> DEFINE stops == {k \in 0..Len(s) :
               k = Len(s) \/ (s[k + 1].expiry > clock /\ Len(s) - k < MAX_CACHE_ENTRIES)}
<1>2. stops \in SUBSET Nat /\ Len(s) \in stops
  BY <1>1
<1>3. \E k \in stops : \A j \in stops : k <= j
  BY <1>2, SmallestOf
<1>4. PICK k : k = CHOOSE h \in stops : \A j \in stops : h <= j
  OBVIOUS
<1>5. k \in stops
  BY <1>3, <1>4
<1>6. k \in 0..Len(s) /\ Len(s) - k < MAX_CACHE_ENTRIES
  BY <1>1, <1>5
<1>7. Kept(s) = SubSeq(s, k + 1, Len(s))
  BY <1>4 DEF Kept
<1>8. \A i \in (k + 1)..Len(s) : s[i] \in Entry
  BY <1>1, <1>6
<1>9. /\ SubSeq(s, k + 1, Len(s)) \in Seq(Entry)
      /\ Len(SubSeq(s, k + 1, Len(s))) = IF k + 1 <= Len(s) THEN Len(s) - (k + 1) + 1 ELSE 0
      /\ \A i \in 1..(Len(s) - (k + 1) + 1) : SubSeq(s, k + 1, Len(s))[i] = s[k + 1 + i - 1]
  BY <1>1, <1>6, <1>8, SubSeqProperties
<1> HIDE DEF stops
<1>10. /\ Len(Kept(s)) = Len(s) - k
       /\ \A i \in 1..(Len(s) - k) : Kept(s)[i] = s[k + i]
  BY <1>1, <1>6, <1>7, <1>9
<1> QED
  BY <1>6, <1>7, <1>9, <1>10

(* set(key): the new entry goes last, and expires last.                    *)
LEMMA CacheEstimateInv ==
    ASSUME EstimateInv, clock \in Nat, NEW key \in Endpoints \X Units, CacheEstimate(key),
           clock' = clock
    PROVE  /\ estimateCache' \in Seq(Entry)
           /\ ExpiriesArePast'
           /\ EstimateCacheIsOrdered'
<1>1. PICK w \in Seq(Entry) : w = WithoutKey(key)
  BY WithoutKeyProperties
<1>2. /\ Ordered(w)
      /\ \A i \in 1..Len(w) : w[i].key # key /\ w[i].expiry <= clock + ESTIMATE_TTL
  BY <1>1, WithoutKeyProperties
<1>3. PICK k \in 0..Len(w) :
          /\ Kept(w) \in Seq(Entry)
          /\ Len(Kept(w)) = Len(w) - k
          /\ Len(w) - k < MAX_CACHE_ENTRIES
          /\ \A i \in 1..(Len(w) - k) : Kept(w)[i] = w[k + i]
  BY KeptProperties
<1>4. PICK s \in Seq(Entry) : s = Kept(w)
  BY <1>3
<1>5. PICK new : new = [key |-> key, expiry |-> clock + ESTIMATE_TTL]
  OBVIOUS
<1>6. new \in Entry /\ new.key = key /\ new.expiry = clock + ESTIMATE_TTL
  BY <1>5 DEF Entry
<1>7. estimateCache' = Append(s, new)
  BY <1>1, <1>4, <1>5 DEF CacheEstimate
<1>8. Len(w) \in Nat /\ Len(s) \in Nat /\ Len(s) = Len(w) - k
  BY <1>3, <1>4, LenProperties
<1>9. /\ Append(s, new) \in Seq(Entry)
      /\ Len(Append(s, new)) = Len(s) + 1
      /\ \A i \in 1..Len(s) : Append(s, new)[i] = s[i]
      /\ Append(s, new)[Len(s) + 1] = new
  BY <1>6, AppendProperties
<1>10. PICK t \in Seq(Entry) : t = estimateCache'
  BY <1>7, <1>9
<1>11. /\ Len(t) = Len(s) + 1 /\ DOMAIN t = 1..(Len(s) + 1)
       /\ t[Len(s) + 1] = new
       /\ \A i \in 1..Len(s) : t[i] = s[i]
  BY <1>7, <1>9, <1>10, LenProperties
<1>12. ASSUME NEW i \in 1..Len(s)
       PROVE  t[i] = w[k + i] /\ k + i \in 1..Len(w)
  BY <1>3, <1>4, <1>8, <1>11
<1>13. ASSUME NEW i \in DOMAIN t PROVE t[i].expiry <= clock + ESTIMATE_TTL
  <2>1. CASE i = Len(s) + 1
    BY <1>6, <1>11, <2>1
  <2>2. CASE i \in 1..Len(s)
    BY <1>2, <1>12, <2>2
  <2> QED
    BY <1>8, <1>11, <2>1, <2>2
<1>14. ASSUME NEW i \in DOMAIN t, NEW j \in DOMAIN t, i < j
       PROVE  t[i].key # t[j].key /\ t[i].expiry <= t[j].expiry
  <2>1. i \in 1..Len(s) /\ j \in 1..(Len(s) + 1)
    BY <1>8, <1>11, <1>14
  <2>2. t[i] = w[k + i] /\ k + i \in 1..Len(w)
    BY <1>12, <2>1
  <2>3. CASE j = Len(s) + 1
    <3>1. t[j] = new /\ w[k + i].key # key /\ w[k + i].expiry <= clock + ESTIMATE_TTL
      BY <1>2, <1>11, <2>2, <2>3
    <3> QED
      BY <1>6, <2>2, <3>1
  <2>4. CASE j \in 1..Len(s)
    <3>1. t[j] = w[k + j] /\ k + j \in 1..Len(w)
      BY <1>12, <2>4
    <3>2. k + i < k + j
      <4>1. k \in Int /\ i \in Int /\ j \in Int
        BY <2>1, <2>4
      <4> QED
        BY <1>14, <4>1
    <3> QED
      BY <1>2, <2>2, <3>1, <3>2 DEF Ordered
  <2> QED
    BY <1>8, <2>1, <2>3, <2>4
<1>15. Len(t) <= MAX_CACHE_ENTRIES
  BY <1>3, <1>8, <1>11
<1> QED
  BY <1>10, <1>13, <1>14, <1>15 DEF ExpiriesArePast, EstimateCacheIsOrdered

(* Steps of other parts leave the cache of estimates alone.                *)
LEMMA EstimatesLast ==
    ASSUME EstimateInv, estimateCache' = estimateCache, clock \in Nat, clock' \in Nat,
           clock' >= clock
    PROVE  estimateCache' \in Seq(Entry) /\ ExpiriesArePast' /\ EstimateCacheIsOrdered'
<1>1. estimateCache \in Seq(Entry)
  BY DEF EstimateInv, EstimateTypes
<1>2. ASSUME NEW i \in DOMAIN estimateCache PROVE estimateCache[i].expiry \in Nat
  <2>1. i \in 1..Len(estimateCache)
    BY <1>1, LenProperties
  <2>2. estimateCache[i] \in Entry
    BY <1>1, <2>1, ElementOfSeq
  <2> QED
    BY <2>2 DEF Entry
<1> QED
  BY <1>1, <1>2 DEF EstimateInv, ExpiriesArePast, EstimateCacheIsOrdered

LEMMA EstimateStep == PriceInv /\ EstimateInv /\ [Next]_vars => EstimateInv'
<1> SUFFICES ASSUME PriceInv, EstimateInv, [Next]_vars PROVE EstimateInv'
  OBVIOUS
<1> DEFINE Calls == [step : {"idle", "ended"}]
                        \cup [step : {"converting", "showing"}, req : Request]
<1>0. /\ clock \in Nat
      /\ estimate \in [Callers -> Calls] /\ crashes \in 0..MaxCrashes
  BY DEF PriceInv, PriceTypes, Times, EstimateInv, EstimateTypes
<1>1. NoRequest \in Calls /\ Ended \in Calls
  BY DEF NoRequest, Ended
<1>2. ASSUME UNCHANGED <<estimateCache, estimate, crashes>>, clock' \in Nat, clock' >= clock
      PROVE  EstimateInv'
  BY <1>0, <1>2, EstimatesLast DEF EstimateInv, EstimateTypes
<1>3. ASSUME NEW c \in Callers, NEW v \in Calls, estimate' = [estimate EXCEPT ![c] = v],
             UNCHANGED <<clock, estimateCache, crashes>>
      PROVE  EstimateInv'
  <2>1. estimate' \in [Callers -> Calls]
    BY <1>0, <1>3
  <2> QED
    BY <1>0, <1>3, <2>1, EstimatesLast DEF EstimateInv, EstimateTypes
<1>4. CASE SeedCloses \/ SeedInserts \/ SeedRecords \/ UNCHANGED vars
  <2>1. UNCHANGED <<clock, estimateVars, crashes>>
    BY <1>4 DEF SeedCloses, SeedInserts, SeedRecords, vars
  <2> QED
    BY <1>0, <1>2, <2>1 DEF estimateVars
<1>5. CASE Crash
  <2>1. /\ estimateCache' = <<>> /\ estimate' = [c \in Callers |-> NoRequest]
        /\ crashes' \in 0..MaxCrashes
    BY <1>0, <1>5 DEF Crash
  <2>2. estimate' \in [Callers -> Calls]
    BY <1>1, <2>1
  <2>3. <<>> \in Seq(Entry) /\ Len(<<>>) = 0 /\ DOMAIN <<>> = {}
    BY EmptySeq
  <2>4. ExpiriesArePast' /\ EstimateCacheIsOrdered'
    BY <2>1, <2>3 DEF ExpiriesArePast, EstimateCacheIsOrdered
  <2> QED
    BY <2>1, <2>2, <2>3, <2>4 DEF EstimateInv, EstimateTypes
<1>6. CASE TimePasses
  BY <1>0, <1>2, <1>6 DEF TimePasses, Tick, estimateVars
<1>7. ASSUME NEW c \in Callers, NEW req \in Request,
             EstimateCached(c, req) \/ EstimateRefused(c, req)
      PROVE  EstimateInv'
  BY <1>1, <1>3, <1>7 DEF EstimateCached, EstimateRefused
<1>8. ASSUME NEW c \in Callers, NEW req \in Request, EstimateStarts(c, req)
      PROVE  EstimateInv'
  <2>1. [step |-> "converting", req |-> req] \in Calls
    OBVIOUS
  <2>2. /\ estimate' = [estimate EXCEPT ![c] = [step |-> "converting", req |-> req]]
        /\ UNCHANGED <<clock, estimateCache, crashes>>
    BY <1>8 DEF EstimateStarts, AskHit, AskMiss
  <2> QED
    BY <1>3, <2>1, <2>2
<1>9. ASSUME NEW c \in Callers, EstimateConverted(c) PROVE EstimateInv'
  <2>1. estimate[c] \in [step : {"converting", "showing"}, req : Request]
    BY <1>0, <1>9 DEF EstimateConverted
  <2>2. PICK v : v = [estimate[c] EXCEPT !.step = "showing"]
    OBVIOUS
  <2>3. v \in Calls
    BY <2>1, <2>2
  <2>4. estimate' = [estimate EXCEPT ![c] = v] /\ UNCHANGED <<clock, estimateCache, crashes>>
    BY <1>9, <2>2 DEF EstimateConverted, AskHit, AskMiss
  <2> QED
    BY <1>3, <2>3, <2>4
<1>10. ASSUME NEW c \in Callers, EstimateShown(c) PROVE EstimateInv'
  <2>1. estimate[c] \in [step : {"converting", "showing"}, req : Request]
    BY <1>0, <1>10 DEF EstimateShown
  <2>2. PICK key \in Endpoints \X Units : key = CacheKey(estimate[c].req)
    BY <2>1 DEF CacheKey, Request
  <2>3. CacheEstimate(key) /\ estimate' = [estimate EXCEPT ![c] = Ended]
        /\ UNCHANGED <<clock, crashes>>
    BY <1>10, <2>2 DEF EstimateShown, CacheEstimate
  <2>4. estimate' \in [Callers -> Calls]
    BY <1>0, <1>1, <2>3
  <2> QED
    BY <1>0, <2>3, <2>4, CacheEstimateInv DEF EstimateInv, EstimateTypes
<1>11. ASSUME NEW c \in Callers, EstimateFails(c) PROVE EstimateInv'
  BY <1>1, <1>3, <1>11 DEF EstimateFails
<1>12. ASSUME NEW c \in Callers, RateSettles(c) PROVE EstimateInv'
  <2>1. UNCHANGED <<clock, estimateVars, crashes>>
    BY <1>12 DEF RateSettles, RateStep, KrakenAnswers, FallBackToDb, FallBackToChainlink,
       ChainlinkAnswers, ChainlinkFails, SaveAndCache
  <2> QED
    BY <1>0, <1>2, <2>1 DEF estimateVars
<1> QED
  BY <1>4, <1>5, <1>6, <1>7, <1>8, <1>9, <1>10, <1>11, <1>12 DEF Next

LEMMA EstimatesInit == Init => PriceInv /\ EstimateInv
<1> SUFFICES ASSUME Init PROVE PriceInv /\ EstimateInv
  OBVIOUS
<1>1. <<>> \in Seq(Entry) /\ <<>> \in Seq(Versions) /\ Len(<<>>) = 0 /\ DOMAIN <<>> = {}
  BY EmptySeq
<1>2. boot.step = "down" /\ version \in Versions /\ clock \in Times /\ pricingHistory = <<>>
      /\ pricingModels = {} /\ pricingCache = [ep \in Endpoints |-> NoRate]
  BY DEF Init, RateInit, Versions, Times
<1>3. PriceInv
  BY <1>1, <1>2
  DEF PriceInv, PriceTypes, RowsAreOver, OpenRowFollowsTheBoot, CachedPriceFollowsTheBoot
<1>4. estimateCache = <<>> /\ crashes \in 0..MaxCrashes /\ estimate = [c \in Callers |-> NoRequest]
  BY DEF Init
<1>5. EstimateTypes
  BY <1>1, <1>4 DEF EstimateTypes, NoRequest
<1>6. ExpiriesArePast /\ EstimateCacheIsOrdered
  BY <1>1, <1>4 DEF ExpiriesArePast, EstimateCacheIsOrdered
<1> QED
  BY <1>3, <1>5, <1>6 DEF EstimateInv

LEMMA EstimatesInvariant == Spec => [](RateInv /\ PriceInv /\ EstimateInv)
<1>1. Spec => []RateInv
  BY EstimatesUseTheRate, RateInvariant, PTL
<1>2. Spec => [](PriceInv /\ EstimateInv)
  BY EstimatesInit, PriceStep, EstimateStep, PTL DEF Spec
<1> QED
  BY <1>1, <1>2, PTL

(* Every variable of the rate, the prices and the estimates keeps its      *)
(* type.                                                                   *)
THEOREM EstimatesTypeTheorem == Spec => []TypeOK
<1>1. ASSUME RateInv, PriceInv, EstimateInv PROVE TypeOK
  <2>1. RateTypeOK
    BY <1>1 DEF RateInv
  <2>2. ASSUME NEW ep \in Endpoints
        PROVE  pricingCache[ep] \in [price : Versions, expiry : Nat] \cup {NoRate}
    BY <1>1 DEF PriceInv, PriceTypes
  <2>3. ASSUME NEW c \in Callers
        PROVE  estimate[c].step \in {"idle", "converting", "showing", "ended"}
    BY <1>1 DEF EstimateInv, EstimateTypes
  <2>4. estimateCache \in Seq([key : Endpoints \X Units, expiry : Nat]) /\ crashes \in 0..MaxCrashes
    BY <1>1 DEF EstimateInv, EstimateTypes, Entry
  <2>5. /\ pricingModels \subseteq PriceRow /\ pricingHistory \in Seq(Versions)
        /\ boot.step \in {"down", "closed", "stored", "serving"} /\ version \in Versions
    BY <1>1 DEF PriceInv, PriceTypes
  <2> QED
    BY <2>1, <2>2, <2>3, <2>4, <2>5 DEF TypeOK
<1> QED
  BY <1>1, EstimatesInvariant, PTL

(* Wherever earlier boots were cut short and whichever releases ran        *)
(* before, a process that serves looks up its own release's price, and the *)
(* history ends with it.                                                   *)
THEOREM PriceTheorem == Spec => []PricesFollowTheCode
<1>1. PriceInv => PricesFollowTheCode
  BY OracleFollows DEF PriceInv, CachedPriceFollowsTheBoot, PricesFollowTheCode
<1> QED
  BY <1>1, EstimatesInvariant, PTL

LEMMA AtMostOne ==
    ASSUME NEW S, \A r, s \in S : r = s
    PROVE  Cardinality(S) <= 1
<1>1. CASE S = {}
  BY <1>1, FS_EmptySet
<1>2. CASE S # {}
  <2>0. PICK r \in S : TRUE
    BY <1>2
  <2>1. S = {r}
    BY <2>0
  <2>2. Cardinality({r}) = 1
    BY FS_Singleton
  <2> QED
    BY <2>1, <2>2
<1> QED
  BY <1>1, <1>2

(* Although upsertPricing is two statements without a transaction, no two  *)
(* prices are in force at once, and no two rows are open.                  *)
THEOREM OnePriceTheorem == Spec => []OnePriceInForce
<1>1. ASSUME PriceInv PROVE OnePriceInForce
  <2>1. \A r, s \in pricingModels : r.until = Open /\ s.until = Open => r = s
    BY <1>1 DEF PriceInv, OpenRowFollowsTheBoot
  <2>2. ASSUME NEW ep \in Endpoints PROVE Cardinality(ActiveRows(ep)) <= 1
    <3>1. \A r, s \in ActiveRows(ep) : r = s
      BY <1>1, <2>1, ActiveIsOpen DEF PriceInv
    <3> QED
      BY <3>1, AtMostOne
  <2>3. Cardinality({row \in pricingModels : row.until = Open}) <= 1
    <3> DEFINE openRows == {row \in pricingModels : row.until = Open}
    <3>1. \A r, s \in openRows : r = s
      BY <2>1
    <3> QED
      BY <3>1, AtMostOne
  <2> QED
    BY <2>2, <2>3 DEF OnePriceInForce
<1> QED
  BY <1>1, EstimatesInvariant, PTL

(* The comment of cacheEstimate, for every bound and TTL: "Entries share   *)
(* one TTL, so insertion order is expiry order"; a key is held once and    *)
(* the bound is kept, however many misses of one key overlap.              *)
THEOREM EstimateCacheTheorem == Spec => []EstimateCacheIsOrdered
<1>1. EstimateInv => EstimateCacheIsOrdered
  BY DEF EstimateInv
<1> QED
  BY <1>1, EstimatesInvariant, PTL

(* The two promises of the rate hold of the estimates' rate.               *)
THEOREM EstimatesRateTheorem == Spec => [](RateAgeIsBounded /\ FailureMeansNoRate)
BY EstimatesUseTheRate, RateAgeTheorem, RateFailureTheorem, PTL
=============================================================================
