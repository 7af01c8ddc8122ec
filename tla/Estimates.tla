----------------------------- MODULE Estimates -----------------------------
(***************************************************************************)
(* POST /longjing/estimate-cost and what it rests on: the price table of   *)
(* the database (PricingRepository), its oracle with a cache               *)
(* (PricingOracleService), the registry that writes the running release's  *)
(* price into the table at every boot (ProviderRegistryService), the       *)
(* provider's own estimate (ClaudeProvider) and CostEstimationService,     *)
(* which converts it with two reads of the ETH rate (EthRate) and keeps a  *)
(* bounded cache of answers. A crash may fall between any two statements;  *)
(* a restart may bring a release with other prices.                        *)
(***************************************************************************)
EXTENDS EthRate, Sequences, SequencesExt, FiniteSets

CONSTANTS
    Endpoints,          \* endpoints a request may name
    PricedEndpoint,     \* the one the provider's configuration prices
    Models, OtherModel, \* priced models, and one that is not
    Units,              \* values of estimatedUnits
    ESTIMATE_TTL,       \* life of a cached estimate (5 minutes)
    MAX_CACHE_ENTRIES,  \* bound of the estimate cache
    PRICING_TTL,        \* life of a cached price (1 hour)
    MaxReleases,        \* bound: releases deployed one after the other
    MaxCrashes,         \* bound: crashes and restarts
    Open                \* effective_until IS NULL

ASSUME EstimatesAssumption ==
    /\ PricedEndpoint \in Endpoints
    /\ OtherModel \notin Models
    /\ {ESTIMATE_TTL, MAX_CACHE_ENTRIES, PRICING_TTL, MaxReleases} \subseteq Nat \ {0}
    /\ MaxCrashes \in Nat
    /\ Open \notin Nat

VARIABLES
    pricingModels,      \* rows of pricing_models
    pricingHistory,     \* new_rates of the rows of pricing_history, in order
    pricingCache,       \* per endpoint: the cached price and its expiry, or NoRate
    boot,               \* the registration in progress, and its effectiveFrom
    version,            \* the running release: its price is its number
    estimateCache,      \* the Map of estimates, in insertion order
    estimate,           \* each caller's estimateCost: step, request, rate used for wei
    crashes

priceVars == <<pricingModels, pricingHistory, pricingCache, boot, version>>
estimateVars == <<estimateCache, estimate>>
vars == <<clock, rateVars, priceVars, estimateVars, crashes>>

Versions == 1..MaxReleases
Times == 0..MaxTime
PriceRow == [endpoint : Endpoints, price : Versions, from : Times, until : Times \cup {Open}]

(* The request's fields that reach the key or the provider's estimate.     *)
Request == [endpoint : Endpoints, units : Units, model : Models \cup {OtherModel}]
(* getCacheKey: metadata, hence the model, is not part of the key.         *)
CacheKey(req) == <<req.endpoint, req.units>>

NoRequest == [step |-> "idle"]
Ended == [step |-> "ended"]
---------------------------------------------------------------------------
(* PricingRepository.getPricing: the rows it may return for an endpoint.   *)
(* No row without an endpoint is ever written, so the fallback to the      *)
(* provider's own price finds nothing.                                     *)
Active(row) == row.from <= clock /\ (row.until = Open \/ row.until > clock)
ActiveRows(ep) == {row \in pricingModels : row.endpoint = ep /\ Active(row)}
GetPricing(ep) == {row.price : row \in {r \in ActiveRows(ep) : \A s \in ActiveRows(ep) : s.from <= r.from}}

(* PricingOracleService.getPricing: the cached price while it lives.       *)
CachedPrice(ep) == pricingCache[ep] # NoRate /\ pricingCache[ep].expiry > clock
OraclePrice(ep) == IF CachedPrice(ep) THEN {pricingCache[ep].price} ELSE GetPricing(ep)

Init ==
    /\ RateInit
    /\ pricingModels = {}
    /\ pricingHistory = <<>>
    /\ pricingCache = [ep \in Endpoints |-> NoRate]
    /\ boot = [step |-> "down"]
    /\ version = 1
    /\ estimateCache = <<>>
    /\ estimate = [c \in Callers |-> NoRequest]
    /\ crashes = 0

---------------------------------------------------------------------------
(* Boot: onModuleInit registers the provider, and register seeds its       *)
(* price, valid from now. upsertPricing closes the open row of the         *)
(* endpoint if a price is in force,                                        *)
CloseOpenRows ==
    {IF row.endpoint = PricedEndpoint /\ row.until = Open THEN [row EXCEPT !.until = clock] ELSE row
        : row \in pricingModels}

SeedCloses_Leaves ==    \* mutant: the row in force stays open
    /\ boot.step = "down"
    /\ boot' = [step |-> "closed", from |-> clock]
    /\ UNCHANGED <<clock, rateVars, pricingModels, pricingHistory, pricingCache, version, estimateVars, crashes>>

SeedCloses ==
    /\ boot.step = "down"
    /\ pricingModels' = IF GetPricing(PricedEndpoint) # {} THEN CloseOpenRows ELSE pricingModels
    /\ boot' = [step |-> "closed", from |-> clock]
    /\ UNCHANGED <<clock, rateVars, pricingHistory, pricingCache, version, estimateVars, crashes>>

(* then inserts the new one (two statements, no transaction);              *)
SeedInserts_Once ==     \* mutant: seeds only an empty table
    /\ boot.step = "closed"
    /\ pricingModels' = IF pricingModels # {} THEN pricingModels ELSE
          {[endpoint |-> PricedEndpoint, price |-> version, from |-> boot.from, until |-> Open]}
    /\ boot' = [step |-> "stored"]
    /\ UNCHANGED <<clock, rateVars, pricingHistory, pricingCache, version, estimateVars, crashes>>

SeedInserts ==
    /\ boot.step = "closed"
    /\ pricingModels' = pricingModels \cup
          {[endpoint |-> PricedEndpoint, price |-> version, from |-> boot.from, until |-> Open]}
    /\ boot' = [step |-> "stored"]
    /\ UNCHANGED <<clock, rateVars, pricingHistory, pricingCache, version, estimateVars, crashes>>

(* updatePricing then writes the history, drops the cached price, and the  *)
(* process goes on to serve.                                               *)
SeedRecords ==
    /\ boot.step = "stored"
    /\ pricingHistory' = Append(pricingHistory, version)
    /\ pricingCache' = [pricingCache EXCEPT ![PricedEndpoint] = NoRate]
    /\ boot' = [step |-> "serving"]
    /\ UNCHANGED <<clock, rateVars, pricingModels, version, estimateVars, crashes>>

(* The process stops at any point and starts again, on the same release or *)
(* the next: only the two databases survive.                               *)
Crash ==
    /\ crashes < MaxCrashes
    /\ crashes' = crashes + 1
    /\ RateRestart
    /\ boot' = [step |-> "down"]
    /\ version' \in {version, version + 1} \cap Versions
    /\ pricingCache' = [ep \in Endpoints |-> NoRate]
    /\ estimateCache' = <<>>
    /\ estimate' = [c \in Callers |-> NoRequest]
    /\ UNCHANGED <<pricingModels, pricingHistory>>

---------------------------------------------------------------------------
(* estimateCost, up to its first wait on a source: the provider's estimate *)
(* is a resolved promise, so nothing but another call's continuation fits  *)
(* in between.                                                             *)
Hits(req) == {i \in DOMAIN estimateCache :
                 estimateCache[i].key = CacheKey(req) /\ estimateCache[i].expiry > clock}

Requestable(c) == boot.step = "serving" /\ estimate[c].step \notin {"converting", "showing"}

EstimateCached(c, req) ==
    /\ Requestable(c)
    /\ Hits(req) # {}
    /\ estimate' = [estimate EXCEPT ![c] = Ended]
    /\ UNCHANGED <<clock, rateVars, priceVars, estimateCache, crashes>>

(* No price for the endpoint (404), or a model that is not priced (400).   *)
EstimateRefused(c, req) ==
    /\ Requestable(c)
    /\ Hits(req) = {}
    /\ req.model = OtherModel \/ OraclePrice(req.endpoint) = {}
    /\ estimate' = [estimate EXCEPT ![c] = Ended]
    /\ UNCHANGED <<clock, rateVars, priceVars, estimateCache, crashes>>

(* The price is looked up (and cached), and usdToWei asks for the rate.    *)
EstimateStarts(c, req) ==
    /\ Requestable(c)
    /\ Hits(req) = {}
    /\ req.model # OtherModel
    /\ \E p \in OraclePrice(req.endpoint) :
          pricingCache' = IF CachedPrice(req.endpoint) THEN pricingCache
                          ELSE [pricingCache EXCEPT ![req.endpoint] =
                                   [price |-> p, expiry |-> clock + PRICING_TTL]]
    /\ AskHit(c) \/ AskMiss(c)
    /\ estimate' = [estimate EXCEPT ![c] = [step |-> "converting", req |-> req]]
    /\ UNCHANGED <<pricingModels, pricingHistory, boot, version, estimateCache, crashes>>

(* The cost in wei is known: the rate is asked for again, to be shown.     *)
EstimateConverted(c) ==
    /\ estimate[c].step = "converting"
    /\ call[c].step = "done"
    /\ AskHit(c) \/ AskMiss(c)
    /\ estimate' = [estimate EXCEPT ![c].step = "showing"]
    /\ UNCHANGED <<priceVars, estimateCache, crashes>>

(* cacheEstimate: drop the key, then entries from the oldest on, while     *)
(* they have expired or the cache is full, then add the new one last.      *)
Holding(key) == {i \in DOMAIN estimateCache : estimateCache[i].key = key}
WithoutKey(key) ==
    IF Holding(key) = {} THEN estimateCache
    ELSE RemoveAt(estimateCache, CHOOSE i \in Holding(key) : TRUE)
Kept(entries) ==
    LET stops == {k \in 0..Len(entries) :
                    k = Len(entries) \/ (entries[k + 1].expiry > clock /\ Len(entries) - k < MAX_CACHE_ENTRIES)}
    IN  SubSeq(entries, (CHOOSE k \in stops : \A j \in stops : k <= j) + 1, Len(entries))
CacheEstimate_InPlace(key) ==   \* mutant: Map.set on a key that is present keeps its place
    estimateCache' = IF \E i \in DOMAIN estimateCache : estimateCache[i].key = key
        THEN [i \in DOMAIN estimateCache |-> IF estimateCache[i].key = key
                 THEN [key |-> key, expiry |-> clock + ESTIMATE_TTL] ELSE estimateCache[i]]
        ELSE Append(Kept(estimateCache), [key |-> key, expiry |-> clock + ESTIMATE_TTL])
CacheEstimate(key) ==
    estimateCache' = Append(Kept(WithoutKey(key)), [key |-> key, expiry |-> clock + ESTIMATE_TTL])

EstimateShown(c) ==
    /\ estimate[c].step = "showing"
    /\ call[c].step = "done"
    /\ CacheEstimate(CacheKey(estimate[c].req))
    /\ estimate' = [estimate EXCEPT ![c] = Ended]
    /\ UNCHANGED <<clock, rateVars, priceVars, crashes>>

(* No source gave a rate: the request fails and nothing is cached.         *)
EstimateFails(c) ==
    /\ estimate[c].step \in {"converting", "showing"}
    /\ call[c].step = "failed"
    /\ estimate' = [estimate EXCEPT ![c] = Ended]
    /\ UNCHANGED <<clock, rateVars, priceVars, estimateCache, crashes>>

RateSettles(c) == RateStep(c) /\ UNCHANGED <<priceVars, estimateVars, crashes>>
TimePasses == Tick /\ UNCHANGED <<priceVars, estimateVars, crashes>>

Next ==
    \/ SeedCloses \/ SeedInserts \/ SeedRecords \/ Crash \/ TimePasses
    \/ \E c \in Callers :
          \/ \E req \in Request : EstimateCached(c, req) \/ EstimateRefused(c, req) \/ EstimateStarts(c, req)
          \/ EstimateConverted(c) \/ EstimateShown(c) \/ EstimateFails(c) \/ RateSettles(c)

Spec == Init /\ [][Next]_vars
---------------------------------------------------------------------------
TypeOK ==
    /\ RateTypeOK
    /\ pricingModels \subseteq PriceRow
    /\ pricingHistory \in Seq(Versions)
    /\ \A ep \in Endpoints : pricingCache[ep] \in [price : Versions, expiry : Nat] \cup {NoRate}
    /\ boot.step \in {"down", "closed", "stored", "serving"}
    /\ version \in Versions
    /\ estimateCache \in Seq([key : Endpoints \X Units, expiry : Nat])
    /\ \A c \in Callers : estimate[c].step \in {"idle", "converting", "showing", "ended"}
    /\ crashes \in 0..MaxCrashes

(* "This ensures pricing is always in sync with provider code": a process  *)
(* that serves looks up the price of the release it runs, through the      *)
(* cache or the table, whichever releases ran before and wherever their    *)
(* boots were cut short; and the newest history entry records it.          *)
PricesFollowTheCode ==
    boot.step = "serving" =>
        /\ OraclePrice(PricedEndpoint) = {version}
        /\ Last(pricingHistory) = version

(* Two prices are never in force for one endpoint at the same time, and a  *)
(* boot that was cut short leaves at most one open row behind.             *)
OnePriceInForce ==
    /\ \A ep \in Endpoints : Cardinality(ActiveRows(ep)) <= 1
    /\ Cardinality({row \in pricingModels : row.until = Open}) <= 1

(* The estimate cache stays within its bound, holds a key once, and keeps  *)
(* its entries in expiry order, which is what lets cacheEstimate stop at   *)
(* the first live one: concurrent misses of one key insert it twice.       *)
EstimateCacheIsOrdered ==
    /\ Len(estimateCache) <= MAX_CACHE_ENTRIES
    /\ \A i, j \in DOMAIN estimateCache :
          i < j => /\ estimateCache[i].key # estimateCache[j].key
                   /\ estimateCache[i].expiry <= estimateCache[j].expiry
=============================================================================
