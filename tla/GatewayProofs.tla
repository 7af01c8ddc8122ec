--------------------------- MODULE GatewayProofs ---------------------------
(***************************************************************************)
(* Proofs about the gateway, for any number of calls in flight, nullifiers *)
(* and restarts, and for any limits, windows and lifetimes.                *)
(***************************************************************************)
EXTENDS Gateway, TLAPS, FiniteSetTheorems, SequenceTheorems

USE GatewayAssumption

-----------------------------------------------------------------------------
(* Types and the limiter *)

(* The calls that hold a slot of the limiter.                              *)
Holders == {r \in Calls : pc[r] \in Verifying}

SlotsCounted == IsFiniteSet(Holders) /\ LimiterCountsVerifications

TypeInv == TypeOK /\ SlotsCounted

(* A step that leaves pc and the limiter alone leaves the slots alone.     *)
LEMMA SlotsUntouched ==
    ASSUME SlotsCounted, UNCHANGED <<pc, active>>
    PROVE  SlotsCounted'
BY DEF SlotsCounted, Holders, LimiterCountsVerifications

(* A call moves between two places without a slot.                         *)
LEMMA SlotsKept ==
    ASSUME TypeInv, NEW r \in Calls, NEW where, pc' = [pc EXCEPT ![r] = where],
           pc[r] \in Verifying <=> where \in Verifying, active' = active
    PROVE  SlotsCounted'
<1>1. Holders' = Holders
  BY DEF TypeInv, TypeOK, CallTypes, Holders
<1>2. QED
  BY <1>1 DEF TypeInv, SlotsCounted, LimiterCountsVerifications, Holders

(* A call takes a slot.                                                    *)
LEMMA SlotTaken ==
    ASSUME TypeInv, NEW r \in Calls, NEW where \in Verifying,
           pc' = [pc EXCEPT ![r] = where], pc[r] \notin Verifying, TakeSlot
    PROVE  SlotsCounted'
<1>1. Holders' = Holders \cup {r} /\ r \notin Holders
  BY DEF TypeInv, TypeOK, CallTypes, Holders
<1>2. IsFiniteSet(Holders') /\ Cardinality(Holders') = Cardinality(Holders) + 1
  BY <1>1, FS_AddElement DEF TypeInv, SlotsCounted
<1>3. QED
  BY <1>2 DEF TypeInv, TypeOK, MemoryTypes, SlotsCounted, LimiterCountsVerifications, Holders, TakeSlot

(* A call gives its slot back; there was one to give.                      *)
LEMMA SlotFreed ==
    ASSUME TypeInv, NEW r \in Calls, NEW where,
           pc' = [pc EXCEPT ![r] = where], pc[r] \in Verifying, where \notin Verifying, FreeSlot
    PROVE  SlotsCounted' /\ active' \in Nat
<1>1. Holders' = Holders \ {r} /\ r \in Holders
  BY DEF TypeInv, TypeOK, CallTypes, Holders
<1>2. IsFiniteSet(Holders') /\ Cardinality(Holders') = Cardinality(Holders) - 1
  BY <1>1, FS_RemoveElement DEF TypeInv, SlotsCounted
<1>3. Cardinality(Holders') \in Nat
  BY <1>2, FS_CardinalityType
<1>4. QED
  BY <1>2, <1>3 DEF TypeInv, TypeOK, MemoryTypes, SlotsCounted, LimiterCountsVerifications, Holders, FreeSlot

LEMMA InitTypes == Init => TypeInv
<1> SUFFICES ASSUME Init PROVE TypeInv
  OBVIOUS
<1>1. TypeOK
  BY EmptySeq DEF Init, TypeOK, CallTypes, MemoryTypes, HistoryTypes, NoAnswer, NoResponse,
     AnswerKinds
<1>2. Holders = {}
  BY DEF Init, Holders, Verifying
<1>3. IsFiniteSet(Holders) /\ Cardinality(Holders) = 0
  BY <1>2, FS_EmptySet, Zenon
<1>4. LimiterCountsVerifications
  BY <1>3 DEF Init, LimiterCountsVerifications, Holders
<1>5. QED
  BY <1>1, <1>3, <1>4 DEF TypeInv, SlotsCounted

(* A refund is between nothing and C_MAX.                                  *)
LEMMA RefundType ==
    ASSUME NEW cost \in 0..CMax + 1
    PROVE  Refund(cost) \in 0..CMax
BY DEF Refund

(* What a step leaves alone keeps its type.                                *)
LEMMA CallsUntouched ==
    ASSUME CallTypes, UNCHANGED <<pc, req, answer>> PROVE CallTypes'
BY DEF CallTypes

LEMMA MemoryUntouched ==
    ASSUME MemoryTypes, UNCHANGED memVars PROVE MemoryTypes'
BY DEF MemoryTypes, memVars

LEMMA HistoryUntouched ==
    ASSUME HistoryTypes, UNCHANGED histVars PROVE HistoryTypes'
BY DEF HistoryTypes, histVars

(* A call moves on, or is answered.                                        *)
LEMMA GotoType ==
    ASSUME CallTypes, NEW r \in Calls, NEW where \in InFlight \cup {"done"},
           Goto(r, where), UNCHANGED <<req, answer>>
    PROVE  CallTypes'
BY DEF CallTypes, Goto

LEMMA ReplyType ==
    ASSUME CallTypes, NEW r \in Calls, NEW kind \in AnswerKinds, NEW refund \in 0..CMax,
           Reply(r, kind, refund), UNCHANGED req
    PROVE  CallTypes'
BY DEF CallTypes, Reply

LEMMA RefuseType ==
    ASSUME CallTypes, NEW r \in Calls, Refuse(r), UNCHANGED req
    PROVE  CallTypes'
BY ReplyType DEF Refuse, AnswerKinds

(* checkAndSet keeps the store and the history typed.                      *)
LEMMA CheckAndSetType ==
    ASSUME TypeOK, NEW n \in Nullifiers, NEW x \in Signals, CheckAndSet(n, x)
    PROVE  /\ store' \in [Nullifiers -> Signals \cup {NoSignal}]
           /\ seen' \in [Nullifiers -> SUBSET Signals]
BY DEF TypeOK, HistoryTypes, CheckAndSet

LEMMA NextTypes == TypeInv /\ [Next]_vars => TypeInv'
<1> SUFFICES ASSUME TypeInv, [Next]_vars PROVE TypeInv'
  OBVIOUS
<1> USE DEF TypeOK
<1>1. CASE Tick
  <2>1. CallTypes' /\ MemoryTypes' /\ HistoryTypes'
    BY <1>1, CallsUntouched, MemoryUntouched, HistoryUntouched DEF TypeInv, Tick
  <2>2. QED
    BY <1>1, <2>1, SlotsUntouched DEF TypeInv, Tick, memVars
<1>2. CASE \E r \in Calls : Arrive(r)
  <2> PICK r \in Calls : Arrive(r)
    BY <1>2
  <2>1. req[r].n \in Nullifiers /\ [by |-> r, at |-> now] \in Attempt
    BY DEF TypeInv, CallTypes, Attempt
  <2>2. CallTypes'
    BY RefuseType, GotoType DEF TypeInv, Arrive, InFlight
  <2>3. MemoryTypes'
    BY <2>1 DEF TypeInv, MemoryTypes, Arrive, Recent
  <2>4. HistoryTypes'
    <3>1. \/ admitted' = admitted
          \/ admitted' = [admitted EXCEPT ![req[r].n] = @ \cup {[by |-> r, at |-> now]}]
      BY DEF Arrive
    <3> admitted \in [Nullifiers -> SUBSET Attempt]
      BY DEF TypeInv, HistoryTypes
    <3>2. admitted' \in [Nullifiers -> SUBSET Attempt]
      BY <2>1, <3>1
    <3>3. UNCHANGED <<provider, signed, seen, slashing>>
      BY DEF Arrive
    <3>4. QED
      BY <3>2, <3>3 DEF TypeInv, HistoryTypes
  <2>5. SlotsCounted'
    BY SlotsKept DEF Arrive, Refuse, Reply, Goto, Verifying
  <2>6. QED
    BY <2>2, <2>3, <2>4, <2>5 DEF TypeInv, Arrive
<1>3. CASE \E r \in Calls : Bind(r)
  <2> PICK r \in Calls : Bind(r)
    BY <1>3
  <2>1. CallTypes'
    BY RefuseType, GotoType DEF TypeInv, Bind, InFlight
  <2>2. MemoryTypes' /\ HistoryTypes'
    BY MemoryUntouched, HistoryUntouched DEF TypeInv, Bind
  <2>3. SlotsCounted'
    BY SlotsKept DEF Bind, Refuse, Reply, Goto, Verifying, memVars
  <2>4. QED
    BY <2>1, <2>2, <2>3 DEF TypeInv, Bind
<1>4. CASE \E r \in Calls : Price(r)
  <2> PICK r \in Calls : Price(r)
    BY <1>4
  <2>1. CallTypes'
    BY RefuseType, GotoType DEF TypeInv, Price, InFlight
  <2>2. MemoryTypes' /\ HistoryTypes'
    BY HistoryUntouched DEF TypeInv, MemoryTypes, Price, TakeSlot
  <2>3. SlotsCounted'
    BY SlotsKept, SlotTaken DEF Price, Refuse, Reply, Goto, Verifying
  <2>4. QED
    BY <2>1, <2>2, <2>3 DEF TypeInv, Price
<1>5. CASE \E r \in Calls : CheckRoot(r)
  <2> PICK r \in Calls : CheckRoot(r)
    BY <1>5
  <2>1. SlotsCounted' /\ active' \in Nat
    BY SlotsKept, SlotFreed
       DEF CheckRoot, Refuse, Reply, Goto, Verifying, TypeInv, MemoryTypes
  <2>2. CallTypes'
    BY RefuseType, GotoType DEF TypeInv, CheckRoot, InFlight
  <2>3. MemoryTypes' /\ HistoryTypes'
    BY <2>1, HistoryUntouched DEF TypeInv, MemoryTypes, CheckRoot
  <2>4. QED
    BY <2>1, <2>2, <2>3 DEF TypeInv, CheckRoot
<1>6. CASE \E r \in Calls : VerifyProof(r)
  <2> PICK r \in Calls : VerifyProof(r)
    BY <1>6
  <2>1. SlotsCounted' /\ active' \in Nat
    BY SlotFreed DEF VerifyProof, Refuse, Reply, Goto, Verifying
  <2>2. CallTypes'
    BY RefuseType, GotoType DEF TypeInv, VerifyProof, InFlight
  <2>3. MemoryTypes' /\ HistoryTypes'
    BY <2>1, HistoryUntouched DEF TypeInv, MemoryTypes, VerifyProof
  <2>4. QED
    BY <2>1, <2>2, <2>3 DEF TypeInv, VerifyProof
<1>7. CASE \E r \in Calls :
             RecordFresh(r) \/ RecordUnparsable(r) \/ RecordConflict(r) \/ RecordRetry(r)
  <2> PICK r \in Calls :
           RecordFresh(r) \/ RecordUnparsable(r) \/ RecordConflict(r) \/ RecordRetry(r)
    BY <1>7
  <2>1. req[r].n \in Nullifiers /\ req[r].x \in Signals
    BY DEF TypeInv, CallTypes, Signals
  <2>2. responses[req[r].n].kind \in AnswerKinds /\ responses[req[r].n].refund \in 0..CMax
    BY <2>1 DEF TypeInv, MemoryTypes
  <2>3. CallTypes'
    <3>1. CASE RecordFresh(r) \/ RecordConflict(r)
      BY <3>1, GotoType DEF TypeInv, RecordFresh, RecordConflict, InFlight
    <3>2. CASE RecordRetry(r)
      <4>1. "spent" \in AnswerKinds /\ 0 \in 0..CMax
        BY DEF AnswerKinds
      <4>2. QED
        BY <3>2, <2>2, <4>1, ReplyType DEF TypeInv, RecordRetry
    <3>3. CASE RecordUnparsable(r)
      <4>1. "malformed" \in AnswerKinds /\ 0 \in 0..CMax
        BY DEF AnswerKinds
      <4>2. QED
        BY <3>3, <4>1, ReplyType DEF TypeInv, RecordUnparsable
    <3>4. QED
      BY <3>1, <3>2, <3>3
  <2>4. /\ store' \in [Nullifiers -> Signals \cup {NoSignal}]
        /\ seen' \in [Nullifiers -> SUBSET Signals]
    BY <2>1, CheckAndSetType DEF TypeInv, RecordFresh, RecordUnparsable, RecordConflict, RecordRetry
  <2>5. MemoryTypes'
    BY MemoryUntouched DEF TypeInv, RecordFresh, RecordUnparsable, RecordConflict, RecordRetry
  <2>6. HistoryTypes'
    <3>1. \/ provider' = provider
          \/ provider' = [provider EXCEPT ![req[r].n] = @ + 1]
      BY DEF RecordFresh, RecordUnparsable, RecordConflict, RecordRetry
    <3>2. slashing' = slashing \/ slashing' = slashing \cup {req[r].n}
      BY DEF RecordFresh, RecordUnparsable, RecordConflict, RecordRetry
    <3>3. UNCHANGED <<signed, admitted>>
      BY DEF RecordFresh, RecordUnparsable, RecordConflict, RecordRetry
    <3> provider \in [Nullifiers -> Nat] /\ slashing \subseteq Nullifiers
      BY DEF TypeInv, HistoryTypes
    <3>4. provider' \in [Nullifiers -> Nat] /\ slashing' \subseteq Nullifiers
      BY <2>1, <3>1, <3>2
    <3>5. QED
      BY <3>3, <3>4, <2>4 DEF TypeInv, HistoryTypes
  <2>7. SlotsCounted'
    BY SlotsKept
       DEF RecordFresh, RecordUnparsable, RecordConflict, RecordRetry, Reply, Goto, Verifying, memVars
  <2>8. now' = now /\ crashes' = crashes
    BY DEF RecordFresh, RecordUnparsable, RecordConflict, RecordRetry
  <2>9. QED
    BY <2>3, <2>4, <2>5, <2>6, <2>7, <2>8 DEF TypeInv
<1>8. CASE \E r \in Calls : ProviderFails(r) \/ ProviderAnswers(r) \/ CostKnown(r) \/ CostFails(r)
                            \/ SlashDone(r)
  <2> PICK r \in Calls : ProviderFails(r) \/ ProviderAnswers(r) \/ CostKnown(r) \/ CostFails(r)
                         \/ SlashDone(r)
    BY <1>8
  <2>1. CallTypes'
    <3>1. CASE ProviderAnswers(r)
      BY <3>1, GotoType DEF TypeInv, ProviderAnswers, InFlight
    <3>2. CASE CostFails(r) \/ SlashDone(r)
      BY <3>2, ReplyType DEF TypeInv, CostFails, SlashDone, AnswerKinds
    <3>3. CASE ProviderFails(r)
      BY <3>3 DEF TypeInv, CallTypes, ProviderFails, Goto, InFlight, AnswerKinds
    <3>4. CASE CostKnown(r)
      BY <3>4, RefundType DEF TypeInv, CallTypes, CostKnown, Goto, InFlight, AnswerKinds
    <3>5. QED
      BY <3>1, <3>2, <3>3, <3>4
  <2>2. UNCHANGED <<now, crashes, store, memVars, histVars>>
    BY DEF ProviderFails, ProviderAnswers, CostKnown, CostFails, SlashDone
  <2>3. SlotsCounted'
    BY <2>2, SlotsKept
       DEF ProviderFails, ProviderAnswers, CostKnown, CostFails, SlashDone, Reply, Goto,
           Verifying, memVars
  <2>4. QED
    BY <2>1, <2>2, <2>3, MemoryUntouched, HistoryUntouched DEF TypeInv
<1>9. CASE \E r \in Calls : Sign(r)
  <2> PICK r \in Calls : Sign(r)
    BY <1>9
  <2> DEFINE accumulator == [refund |-> answer[r].refund, at |-> now, run |-> crashes]
  <2>1. req[r].n \in Nullifiers /\ req[r].x \in Signals /\ answer[r].kind \in AnswerKinds
        /\ answer[r].refund \in 0..CMax
    BY DEF TypeInv, CallTypes, Signals
  <2>2. Append(signed[req[r].n], accumulator) \in Seq([refund : 0..CMax, at : Nat, run : Nat])
    BY <2>1, AppendProperties DEF TypeInv, HistoryTypes
  <2>3. CallTypes'
    BY GotoType DEF TypeInv, Sign
  <2>4. MemoryTypes'
    BY <2>1 DEF TypeInv, MemoryTypes, Sign, Remember
  <2>5. HistoryTypes'
    BY <2>1, <2>2 DEF TypeInv, HistoryTypes, Sign
  <2>6. SlotsCounted'
    BY SlotsKept DEF Sign, Goto, Verifying
  <2>7. QED
    BY <2>3, <2>4, <2>5, <2>6 DEF TypeInv, Sign
<1>10. CASE \E n \in Nullifiers : IngestExit(n)
  <2> PICK n \in Nullifiers : IngestExit(n)
    BY <1>10
  <2>1. /\ store' \in [Nullifiers -> Signals \cup {NoSignal}]
        /\ seen' \in [Nullifiers -> SUBSET Signals]
    BY CheckAndSetType DEF TypeInv, IngestExit, Signals
  <2>2. CallTypes' /\ MemoryTypes'
    BY CallsUntouched, MemoryUntouched DEF TypeInv, IngestExit
  <2>3. HistoryTypes'
    BY <2>1 DEF TypeInv, HistoryTypes, IngestExit
  <2>4. QED
    BY <2>1, <2>2, <2>3, SlotsUntouched DEF TypeInv, IngestExit, memVars
<1>11. CASE Cleanup
  <2>1. CallTypes' /\ HistoryTypes'
    BY <1>11, CallsUntouched, HistoryUntouched DEF TypeInv, Cleanup
  <2>2. NoResponse \in [x : Signals \cup {NoSignal}, kind : AnswerKinds,
                        refund : 0..CMax, expiresAt : Nat]
    BY DEF NoResponse, AnswerKinds
  <2>3. MemoryTypes'
    BY <1>11, <2>2 DEF TypeInv, MemoryTypes, Cleanup, Recent
  <2>4. QED
    BY <1>11, <2>1, <2>3, SlotsUntouched DEF TypeInv, Cleanup
<1>12. CASE Crash
  <2>1. CallTypes'
    BY <1>12 DEF TypeInv, CallTypes, Crash, AnswerKinds
  <2>2. MemoryTypes'
    BY <1>12 DEF MemoryTypes, Crash, NoResponse, AnswerKinds
  <2>3. HistoryTypes'
    BY <1>12 DEF TypeInv, HistoryTypes, Crash
  <2>4. Holders' = {}
    BY <1>12 DEF Crash, Holders, Verifying, InFlight
  <2>5. IsFiniteSet(Holders') /\ Cardinality(Holders') = 0
    BY <2>4, FS_EmptySet, Zenon
  <2>6. LimiterCountsVerifications'
    BY <1>12, <2>5 DEF Crash, LimiterCountsVerifications, Holders
  <2>7. QED
    BY <1>12, <2>1, <2>2, <2>3, <2>5, <2>6 DEF TypeInv, SlotsCounted, Crash, Restarted
<1>13. CASE UNCHANGED vars
  <2>1. CallTypes' /\ MemoryTypes' /\ HistoryTypes'
    BY <1>13, CallsUntouched, MemoryUntouched, HistoryUntouched DEF TypeInv, vars
  <2>2. QED
    BY <1>13, <2>1, SlotsUntouched DEF TypeInv, vars, memVars
<1>14. QED
  BY <1>1, <1>2, <1>3, <1>4, <1>5, <1>6, <1>7, <1>8, <1>9, <1>10, <1>11, <1>12, <1>13
     DEF Next, Step

(* Every value stays in its type: the limiter's counter and the refunds do *)
(* not go below zero.                                                      *)
THEOREM GatewayTypeTheorem == Spec => []TypeOK
<1>1. Spec => []TypeInv
  BY InitTypes, NextTypes, PTL DEF Spec
<1>2. TypeInv => TypeOK
  BY DEF TypeInv
<1>3. QED
  BY <1>1, <1>2, PTL

(* ConcurrencyLimiter.active is the number of verifications in flight and  *)
(* stays within MAX_CONCURRENT_VERIFICATIONS.                              *)
THEOREM LimiterTheorem == Spec => []LimiterCountsVerifications
<1>1. Spec => []TypeInv
  BY InitTypes, NextTypes, PTL DEF Spec
<1>2. TypeInv => LimiterCountsVerifications
  BY DEF TypeInv, SlotsCounted
<1>3. QED
  BY <1>1, <1>2, PTL

-----------------------------------------------------------------------------
(* Spending a nullifier *)

(* The awaits after the nullifier is recorded for this call.               *)
Serving == {"exec", "cost", "sign"}

(* A nullifier without a recorded signal was never served or signed for.   *)
UnusedIsFresh ==
    \A n \in Nullifiers : store[n] = NoSignal => provider[n] = 0 /\ signed[n] = << >>

(* A call that is being served recorded its own signal, nothing is signed  *)
(* for its nullifier yet, and no other call is served for it.              *)
ServedAlone ==
    \A r \in Calls : pc[r] \in Serving =>
        /\ store[req[r].n] = req[r].x
        /\ signed[req[r].n] = << >>
        /\ \A s \in Calls : pc[s] \in Serving /\ req[s].n = req[r].n => s = r

(* Only a finished request is signed.                                      *)
SignedAnswers ==
    \A r \in Calls : pc[r] = "sign" => answer[r].kind \in {"ok", "badGateway"}

(* What the retry cache keeps is the answer that was signed.               *)
KeptIsSigned ==
    \A n \in Nullifiers : responses[n].kind # "none" =>
        /\ responses[n].x = store[n]
        /\ Len(signed[n]) = 1
        /\ responses[n].refund = signed[n][1].refund

SpendInv ==
    /\ UnusedIsFresh /\ ServedAlone /\ SignedAnswers /\ KeptIsSigned
    /\ ProviderCalledOnce /\ OneAccumulatorPerNullifier

(* A call that is not served moves, and ends, if it does, without a signed *)
(* answer.                                                                 *)
LEMMA ElsewhereSpends ==
    ASSUME TypeInv, SpendInv, NEW r \in Calls, NEW where,
           where \notin Serving,
           pc' = [pc EXCEPT ![r] = where],
           where = "done" => answer'[r].kind \notin {"ok", "badGateway"},
           \A s \in Calls \ {r} : answer'[s] = answer[s],
           UNCHANGED <<req, store, responses, provider, signed>>
    PROVE  SpendInv'
<1> pc \in [Calls -> InFlight \cup {"idle", "done"}]
  BY DEF TypeInv, TypeOK, CallTypes
<1> where # "sign"
  BY DEF Serving
<1>1. UnusedIsFresh' /\ KeptIsSigned' /\ ProviderCalledOnce'
  BY DEF SpendInv, UnusedIsFresh, KeptIsSigned, ProviderCalledOnce
<1>2. ServedAlone'
  BY DEF SpendInv, ServedAlone
<1>3. SignedAnswers'
  BY DEF SpendInv, SignedAnswers
<1>4. OneAccumulatorPerNullifier'
  BY DEF SpendInv, OneAccumulatorPerNullifier
<1>5. QED
  BY <1>1, <1>2, <1>3, <1>4 DEF SpendInv

(* A call that is served moves on.                                         *)
LEMMA ServingSpends ==
    ASSUME TypeInv, SpendInv, NEW r \in Calls, NEW where \in Serving,
           pc[r] \in Serving,
           pc' = [pc EXCEPT ![r] = where],
           where = "sign" => answer'[r].kind \in {"ok", "badGateway"},
           \A s \in Calls \ {r} : answer'[s] = answer[s],
           UNCHANGED <<req, store, responses, provider, signed>>
    PROVE  SpendInv'
<1> pc \in [Calls -> InFlight \cup {"idle", "done"}]
  BY DEF TypeInv, TypeOK, CallTypes
<1> where # "done"
  BY DEF Serving
<1>1. UnusedIsFresh' /\ KeptIsSigned' /\ ProviderCalledOnce'
  BY DEF SpendInv, UnusedIsFresh, KeptIsSigned, ProviderCalledOnce
<1>2. ServedAlone'
  BY DEF SpendInv, ServedAlone
<1>3. SignedAnswers'
  BY DEF SpendInv, SignedAnswers
<1>4. OneAccumulatorPerNullifier'
  BY DEF SpendInv, OneAccumulatorPerNullifier
<1>5. QED
  BY <1>1, <1>2, <1>3, <1>4 DEF SpendInv

(* checkAndSet leaves a recorded signal in place.                          *)
LEMMA RecordedStays ==
    ASSUME NEW n \in Nullifiers, NEW x, store[n] # NoSignal, CheckAndSet(n, x)
    PROVE  store' = store
BY DEF CheckAndSet

LEMMA FreshSpends ==
    ASSUME TypeInv, SpendInv, NEW r \in Calls, RecordFresh(r)
    PROVE  SpendInv'
<1> DEFINE n == req[r].n
<1>1. /\ pc \in [Calls -> InFlight \cup {"idle", "done"}]
      /\ req \in [Calls -> [n : Nullifiers, x : RequestSignals]]
      /\ store \in [Nullifiers -> Signals \cup {NoSignal}]
      /\ provider \in [Nullifiers -> Nat]
  BY DEF TypeInv, TypeOK, CallTypes, HistoryTypes
<1>2. n \in Nullifiers /\ req[r].x # NoSignal
  BY <1>1
<1>3. /\ store[n] = NoSignal
      /\ store' = [store EXCEPT ![n] = req[r].x]
      /\ provider' = [provider EXCEPT ![n] = @ + 1]
      /\ pc' = [pc EXCEPT ![r] = "exec"]
      /\ UNCHANGED <<req, answer, responses, signed>>
  BY DEF RecordFresh, CheckAndSet, Goto, memVars
<1>4. provider[n] = 0 /\ signed[n] = << >> /\ Len(signed[n]) = 0
  BY <1>2, <1>3 DEF SpendInv, UnusedIsFresh
<1>5. \A s \in Calls : pc[s] \in Serving => req[s].n # n
  BY <1>1, <1>2, <1>3 DEF SpendInv, ServedAlone
<1> HIDE DEF n
<1>6. UnusedIsFresh'
  BY <1>1, <1>2, <1>3 DEF SpendInv, UnusedIsFresh
<1>7. KeptIsSigned'
  BY <1>1, <1>2, <1>3, <1>4 DEF SpendInv, KeptIsSigned
<1>8. ProviderCalledOnce'
  BY <1>1, <1>2, <1>3, <1>4 DEF SpendInv, ProviderCalledOnce
<1>9. ServedAlone'
  BY <1>1, <1>2, <1>3, <1>4, <1>5 DEF SpendInv, ServedAlone, n
<1>10. SignedAnswers'
  BY <1>1, <1>3 DEF SpendInv, SignedAnswers
<1>11. OneAccumulatorPerNullifier'
  BY <1>1, <1>2, <1>3, <1>4 DEF SpendInv, OneAccumulatorPerNullifier
<1>12. QED
  BY <1>6, <1>7, <1>8, <1>9, <1>10, <1>11 DEF SpendInv

(* A call refused for its accumulator spends the nullifier for nothing.    *)
LEMMA UnparsableSpends ==
    ASSUME TypeInv, SpendInv, NEW r \in Calls, RecordUnparsable(r)
    PROVE  SpendInv'
<1> DEFINE n == req[r].n
<1>1. /\ pc \in [Calls -> InFlight \cup {"idle", "done"}]
      /\ req \in [Calls -> [n : Nullifiers, x : RequestSignals]]
      /\ answer \in [Calls -> [kind : AnswerKinds, refund : 0..CMax]]
      /\ store \in [Nullifiers -> Signals \cup {NoSignal}]
  BY DEF TypeInv, TypeOK, CallTypes
<1>2. \A s \in Calls : req[s].n \in Nullifiers /\ req[s].x # NoSignal
  BY <1>1
<1>3. /\ store[n] = NoSignal
      /\ store' = [store EXCEPT ![n] = req[r].x]
      /\ pc' = [pc EXCEPT ![r] = "done"]
      /\ answer' = [answer EXCEPT ![r] = [kind |-> "malformed", refund |-> 0]]
      /\ UNCHANGED <<req, responses, provider, signed>>
  BY DEF RecordUnparsable, CheckAndSet, Reply, memVars
<1>4. signed[n] = << >> /\ Len(signed[n]) = 0
  BY <1>2, <1>3 DEF SpendInv, UnusedIsFresh
<1>5. /\ store'[n] = req[r].x
      /\ \A m \in Nullifiers \ {n} : store'[m] = store[m]
      /\ answer'[r].kind = "malformed" /\ \A s \in Calls \ {r} : answer'[s] = answer[s]
      /\ \A s \in Calls \ {r} : pc'[s] = pc[s]
      /\ pc'[r] = "done" /\ n \in Nullifiers
  BY <1>1, <1>2, <1>3
<1> HIDE DEF n
<1>6. UnusedIsFresh' /\ ProviderCalledOnce'
  BY <1>2, <1>3, <1>5 DEF SpendInv, UnusedIsFresh, ProviderCalledOnce
<1>7. KeptIsSigned'
  BY <1>3, <1>4, <1>5 DEF SpendInv, KeptIsSigned
<1>8. ServedAlone'
  BY <1>2, <1>3, <1>5 DEF SpendInv, ServedAlone, Serving
<1>9. SignedAnswers'
  BY <1>3, <1>5 DEF SpendInv, SignedAnswers
<1>10. OneAccumulatorPerNullifier'
  BY <1>2, <1>3, <1>4, <1>5 DEF SpendInv, OneAccumulatorPerNullifier
<1>11. QED
  BY <1>6, <1>7, <1>8, <1>9, <1>10 DEF SpendInv

(* A retry gets the answer that was signed, or none.                       *)
LEMMA RetrySpends ==
    ASSUME TypeInv, SpendInv, NEW r \in Calls, RecordRetry(r)
    PROVE  SpendInv'
<1> DEFINE n == req[r].n
<1>1. /\ pc \in [Calls -> InFlight \cup {"idle", "done"}]
      /\ req \in [Calls -> [n : Nullifiers, x : RequestSignals]]
      /\ answer \in [Calls -> [kind : AnswerKinds, refund : 0..CMax]]
  BY DEF TypeInv, TypeOK, CallTypes
<1>2. n \in Nullifiers /\ req[r].x # NoSignal
  BY <1>1
<1>3. /\ store[n] = req[r].x
      /\ pc' = [pc EXCEPT ![r] = "done"]
      /\ UNCHANGED <<req, store, responses, provider, signed>>
  BY <1>2, RecordedStays DEF RecordRetry, Reply, memVars
<1>4. CASE Recall(n, req[r].x)
  <2>1. answer' = [answer EXCEPT ![r] =
            [kind |-> responses[n].kind, refund |-> responses[n].refund]]
    BY <1>4 DEF RecordRetry, Reply
  <2>2. Len(signed[n]) = 1 /\ responses[n].refund = signed[n][1].refund
    BY <1>2, <1>4 DEF SpendInv, KeptIsSigned, Recall
  <2>3. UnusedIsFresh' /\ KeptIsSigned' /\ ProviderCalledOnce'
    BY <1>3 DEF SpendInv, UnusedIsFresh, KeptIsSigned, ProviderCalledOnce
  <2>4. ServedAlone'
    BY <1>1, <1>3 DEF SpendInv, ServedAlone, Serving
  <2>5. SignedAnswers'
    BY <1>1, <1>3, <2>1 DEF SpendInv, SignedAnswers
  <2>6. OneAccumulatorPerNullifier'
    BY <1>1, <1>2, <1>3, <2>1, <2>2 DEF SpendInv, OneAccumulatorPerNullifier
  <2>7. QED
    BY <2>3, <2>4, <2>5, <2>6 DEF SpendInv
<1>5. CASE ~Recall(n, req[r].x)
  <2>1. answer' = [answer EXCEPT ![r] = [kind |-> "spent", refund |-> 0]]
    BY <1>5 DEF RecordRetry, Reply
  <2>2. answer'[r].kind = "spent" /\ \A s \in Calls \ {r} : answer'[s] = answer[s]
    BY <1>1, <2>1
  <2>3. QED
    BY <1>3, <2>2, ElsewhereSpends DEF Serving
<1>6. QED
  BY <1>4, <1>5

(* The one call that is served for a nullifier signs its only accumulator. *)
LEMMA SignSpends ==
    ASSUME TypeInv, SpendInv, NEW r \in Calls, Sign(r)
    PROVE  SpendInv'
<1> DEFINE n == req[r].n
           accumulator == [refund |-> answer[r].refund, at |-> now, run |-> crashes]
<1>1. /\ pc \in [Calls -> InFlight \cup {"idle", "done"}]
      /\ req \in [Calls -> [n : Nullifiers, x : RequestSignals]]
      /\ signed \in [Nullifiers -> Seq([refund : 0..CMax, at : Nat, run : Nat])]
      /\ responses \in [Nullifiers -> [x : Signals \cup {NoSignal}, kind : AnswerKinds,
                                       refund : 0..CMax, expiresAt : Nat]]
  BY DEF TypeInv, TypeOK, CallTypes, HistoryTypes, MemoryTypes
<1>2. n \in Nullifiers /\ req[r].x # NoSignal
  BY <1>1
<1>3. /\ pc[r] = "sign"
      /\ pc' = [pc EXCEPT ![r] = "done"]
      /\ UNCHANGED <<req, answer, store, provider>>
  BY DEF Sign, Goto
<1>4. store[n] = req[r].x /\ signed[n] = << >>
  BY <1>3 DEF SpendInv, ServedAlone, Serving
<1>5. signed' = [signed EXCEPT ![n] = << accumulator >>]
  BY <1>4 DEF Sign
<1>6. responses' = [responses EXCEPT ![n] =
          [x |-> req[r].x, kind |-> answer[r].kind, refund |-> answer[r].refund,
           expiresAt |-> now + ResponseTTL]]
  BY DEF Sign, Remember
<1>7. /\ signed'[n] = << accumulator >> /\ Len(signed'[n]) = 1
      /\ signed'[n][1].refund = answer[r].refund
      /\ responses'[n].x = req[r].x /\ responses'[n].refund = answer[r].refund
      /\ \A m \in Nullifiers \ {n} : signed'[m] = signed[m] /\ responses'[m] = responses[m]
  BY <1>1, <1>2, <1>5, <1>6
<1>8. \A s \in Calls : pc'[s] \in Serving => req[s].n # n /\ pc[s] \in Serving
  BY <1>1, <1>3 DEF SpendInv, ServedAlone, Serving
<1>9. \A s \in Calls : pc[s] = "done" /\ answer[s].kind \in {"ok", "badGateway"} => req[s].n # n
  BY <1>4 DEF SpendInv, OneAccumulatorPerNullifier
<1> HIDE DEF n, accumulator
<1>10. UnusedIsFresh' /\ ProviderCalledOnce'
  BY <1>2, <1>3, <1>4, <1>7 DEF SpendInv, UnusedIsFresh, ProviderCalledOnce
<1>11. KeptIsSigned'
  BY <1>3, <1>4, <1>7 DEF SpendInv, KeptIsSigned
<1>12. ServedAlone'
  BY <1>1, <1>3, <1>7, <1>8 DEF SpendInv, ServedAlone
<1>13. SignedAnswers'
  BY <1>1, <1>3 DEF SpendInv, SignedAnswers
<1>14. OneAccumulatorPerNullifier'
  <2>1. \A m \in Nullifiers : Len(signed'[m]) <= 1
    <3>1. \A m \in Nullifiers : Len(signed[m]) <= 1
      BY DEF SpendInv, OneAccumulatorPerNullifier
    <3>2. ASSUME NEW m \in Nullifiers PROVE Len(signed'[m]) <= 1
      <4>1. CASE m = n
        <5>1. Len(signed'[m]) = 1
          BY <1>7, <4>1, Zenon
        <5>2. QED
          BY <5>1
      <4>2. CASE m # n
        BY <1>7, <3>1, <4>2
      <4>3. QED
        BY <4>1, <4>2
    <3>3. QED
      BY <3>2
  <2>2. ASSUME NEW s \in Calls, pc'[s] = "done", answer'[s].kind \in {"ok", "badGateway"}
        PROVE  /\ Len(signed'[req'[s].n]) = 1
               /\ answer'[s].refund = signed'[req'[s].n][1].refund
               /\ store'[req'[s].n] = req'[s].x
    <3>1. CASE s = r
      BY <1>3, <1>4, <1>7, <3>1 DEF n
    <3>2. CASE s # r
      <4>1. pc[s] = "done" /\ req[s].n \in Nullifiers \ {n}
        BY <1>1, <1>3, <1>9, <2>2, <3>2
      <4>2. QED
        BY <1>3, <1>7, <2>2, <4>1 DEF SpendInv, OneAccumulatorPerNullifier
    <3>3. QED
      BY <3>1, <3>2
  <2>3. QED
    BY <2>1, <2>2 DEF OneAccumulatorPerNullifier
<1>15. QED
  BY <1>10, <1>11, <1>12, <1>13, <1>14 DEF SpendInv

(* The watcher's ingest records for no call.                               *)
LEMMA IngestSpends ==
    ASSUME TypeInv, SpendInv, NEW n \in Nullifiers, IngestExit(n)
    PROVE  SpendInv'
<1>1. /\ req \in [Calls -> [n : Nullifiers, x : RequestSignals]]
      /\ store \in [Nullifiers -> Signals \cup {NoSignal}]
  BY DEF TypeInv, TypeOK, CallTypes
<1>2. UNCHANGED <<pc, req, answer, responses, provider, signed>>
  BY DEF IngestExit, memVars
<1>3. CASE store[n] # NoSignal
  <2>1. store' = store
    BY <1>3, RecordedStays DEF IngestExit
  <2>2. QED
    BY <1>2, <2>1 DEF SpendInv, UnusedIsFresh, ServedAlone, SignedAnswers, KeptIsSigned,
       ProviderCalledOnce, OneAccumulatorPerNullifier
<1>4. CASE store[n] = NoSignal
  <2>1. /\ store'[n] = ExitSignal /\ ExitSignal # NoSignal
        /\ \A m \in Nullifiers \ {n} : store'[m] = store[m]
    BY <1>1, <1>4 DEF IngestExit, CheckAndSet
  <2>2. signed[n] = << >> /\ Len(signed[n]) = 0
    BY <1>4 DEF SpendInv, UnusedIsFresh
  <2>3. \A r \in Calls : req[r].n \in Nullifiers /\ req[r].x # NoSignal
    BY <1>1
  <2>4. UnusedIsFresh' /\ SignedAnswers' /\ ProviderCalledOnce'
    BY <1>2, <2>1 DEF SpendInv, UnusedIsFresh, SignedAnswers, ProviderCalledOnce
  <2>5. KeptIsSigned'
    BY <1>2, <2>1, <2>2 DEF SpendInv, KeptIsSigned
  <2>6. ServedAlone'
    BY <1>2, <1>4, <2>1, <2>3 DEF SpendInv, ServedAlone
  <2>7. OneAccumulatorPerNullifier'
    BY <1>2, <1>4, <2>1, <2>2, <2>3 DEF SpendInv, OneAccumulatorPerNullifier
  <2>8. QED
    BY <2>4, <2>5, <2>6, <2>7 DEF SpendInv
<1>5. QED
  BY <1>3, <1>4

LEMMA InitSpends == Init => SpendInv
<1> SUFFICES ASSUME Init PROVE SpendInv
  OBVIOUS
<1>1. UnusedIsFresh /\ KeptIsSigned /\ ProviderCalledOnce
  BY DEF Init, UnusedIsFresh, KeptIsSigned, ProviderCalledOnce, NoResponse
<1>2. ServedAlone /\ SignedAnswers
  BY DEF Init, ServedAlone, SignedAnswers, Serving
<1>3. OneAccumulatorPerNullifier
  BY DEF Init, OneAccumulatorPerNullifier
<1>4. QED
  BY <1>1, <1>2, <1>3 DEF SpendInv

LEMMA NextSpends == TypeInv /\ SpendInv /\ [Next]_vars => SpendInv'
<1> SUFFICES ASSUME TypeInv, SpendInv, [Next]_vars PROVE SpendInv'
  OBVIOUS
<1>a. /\ answer \in [Calls -> [kind : AnswerKinds, refund : 0..CMax]]
      /\ req \in [Calls -> [n : Nullifiers, x : RequestSignals]]
  BY DEF TypeInv, TypeOK, CallTypes
<1>1. CASE Tick \/ UNCHANGED vars
  <2>1. UNCHANGED <<pc, req, answer, store, responses, provider, signed>>
    BY <1>1 DEF Tick, vars, memVars, histVars
  <2>2. QED
    BY <2>1 DEF SpendInv, UnusedIsFresh, ServedAlone, SignedAnswers, KeptIsSigned,
       ProviderCalledOnce, OneAccumulatorPerNullifier
<1>2. ASSUME NEW r \in Calls,
             Arrive(r) \/ Bind(r) \/ Price(r) \/ CheckRoot(r) \/ VerifyProof(r) \/ SlashDone(r)
                \/ CostFails(r)
      PROVE  SpendInv'
  <2>1. UNCHANGED <<req, store, responses, provider, signed>>
    BY <1>2 DEF Arrive, Bind, Price, CheckRoot, VerifyProof, SlashDone, CostFails,
       memVars, histVars
  <2>2. \/ \E where \in {"bind", "price", "root", "proof", "record"} :
              Goto(r, where) /\ answer' = answer
        \/ \E kind \in {"refused", "conflict", "error"} : Reply(r, kind, 0)
    BY <1>2 DEF Arrive, Bind, Price, CheckRoot, VerifyProof, SlashDone, CostFails, Refuse
  <2>3. CASE \E where \in {"bind", "price", "root", "proof", "record"} :
                Goto(r, where) /\ answer' = answer
    BY <2>1, <2>3, ElsewhereSpends DEF Goto, Serving
  <2>4. CASE \E kind \in {"refused", "conflict", "error"} : Reply(r, kind, 0)
    <3> PICK kind \in {"refused", "conflict", "error"} : Reply(r, kind, 0)
      BY <2>4
    <3>1. answer'[r].kind = kind /\ \A s \in Calls \ {r} : answer'[s] = answer[s]
      BY <1>a DEF Reply
    <3>2. pc' = [pc EXCEPT ![r] = "done"]
      BY DEF Reply
    <3>3. QED
      BY <2>1, <3>1, <3>2, ElsewhereSpends DEF Serving
  <2>5. QED
    BY <2>2, <2>3, <2>4
<1>3. ASSUME NEW r \in Calls, RecordConflict(r)
      PROVE  SpendInv'
  <2>1. store' = store
    BY <1>3, <1>a, RecordedStays DEF RecordConflict
  <2>2. pc' = [pc EXCEPT ![r] = "slash"] /\ UNCHANGED <<req, answer, responses, provider, signed>>
    BY <1>3 DEF RecordConflict, Goto, memVars
  <2>3. QED
    BY <2>1, <2>2, ElsewhereSpends DEF Serving
<1>4. ASSUME NEW r \in Calls, ProviderFails(r) \/ ProviderAnswers(r) \/ CostKnown(r)
      PROVE  SpendInv'
  <2>1. UNCHANGED <<req, store, responses, provider, signed>> /\ pc[r] \in Serving
    BY <1>4 DEF ProviderFails, ProviderAnswers, CostKnown, memVars, histVars, Serving
  <2>2. CASE ProviderAnswers(r)
    BY <2>1, <2>2, ServingSpends DEF ProviderAnswers, Goto, Serving
  <2>3. CASE ProviderFails(r) \/ CostKnown(r)
    <3>1. /\ answer'[r].kind \in {"ok", "badGateway"}
          /\ \A s \in Calls \ {r} : answer'[s] = answer[s]
          /\ pc' = [pc EXCEPT ![r] = "sign"]
      BY <1>a, <2>3 DEF ProviderFails, CostKnown, Goto
    <3>2. QED
      BY <2>1, <3>1, ServingSpends DEF Serving
  <2>4. QED
    BY <1>4, <2>2, <2>3
<1>5. CASE Cleanup
  <2>1. UNCHANGED <<pc, req, answer, store, provider, signed>>
    BY <1>5 DEF Cleanup, histVars
  <2>2. \A n \in Nullifiers : responses'[n].kind # "none" => responses'[n] = responses[n]
    BY <1>5 DEF Cleanup, NoResponse
  <2>3. KeptIsSigned'
    BY <2>1, <2>2 DEF SpendInv, KeptIsSigned
  <2>4. QED
    BY <2>1, <2>3 DEF SpendInv, UnusedIsFresh, ServedAlone, SignedAnswers,
       ProviderCalledOnce, OneAccumulatorPerNullifier
<1>6. CASE Crash
  <2>1. UNCHANGED <<req, store, provider, signed>>
    BY <1>6 DEF Crash, Restarted
  <2>2. \A r \in Calls : /\ pc'[r] \notin InFlight
                         /\ pc'[r] = "done" =>
                               \/ answer'[r].kind = "lost"
                               \/ pc[r] = "done" /\ answer'[r] = answer[r]
    BY <1>6 DEF Crash, InFlight
  <2>3. \A n \in Nullifiers : responses'[n].kind = "none"
    BY <1>6 DEF Crash, NoResponse
  <2>4. UnusedIsFresh' /\ KeptIsSigned' /\ ProviderCalledOnce'
    BY <2>1, <2>3 DEF SpendInv, UnusedIsFresh, KeptIsSigned, ProviderCalledOnce
  <2>5. ServedAlone' /\ SignedAnswers'
    BY <2>2 DEF ServedAlone, SignedAnswers, Serving, InFlight
  <2>6. OneAccumulatorPerNullifier'
    BY <2>1, <2>2 DEF SpendInv, OneAccumulatorPerNullifier
  <2>7. QED
    BY <2>4, <2>5, <2>6 DEF SpendInv
<1>7. QED
  BY <1>1, <1>2, <1>3, <1>4, <1>5, <1>6, FreshSpends, UnparsableSpends,
     RetrySpends, SignSpends, IngestSpends
     DEF Next, Step

LEMMA SpendTheorem == Spec => [](TypeInv /\ SpendInv)
BY InitTypes, NextTypes, InitSpends, NextSpends, PTL DEF Spec

(* The provider is called at most once per nullifier, across retries,      *)
(* concurrent calls and restarts.                                          *)
THEOREM ProviderTheorem == Spec => []ProviderCalledOnce
<1>1. SpendInv => ProviderCalledOnce
  BY DEF SpendInv
<1>2. QED
  BY <1>1, SpendTheorem, PTL

(* One accumulator is signed per nullifier, and all calls answered with    *)
(* one, first or retry, got that one.                                      *)
THEOREM AccumulatorTheorem == Spec => []OneAccumulatorPerNullifier
<1>1. SpendInv => OneAccumulatorPerNullifier
  BY DEF SpendInv
<1>2. QED
  BY <1>1, SpendTheorem, PTL

-----------------------------------------------------------------------------
(* The retry cache *)

(* The accumulators of this run are in the cache until they expire.        *)
FreshIsKept ==
    \A n \in Nullifiers : \A i \in DOMAIN signed[n] :
        /\ signed[n][i].run <= crashes
        /\ signed[n][i].run = crashes /\ now < signed[n][i].at + ResponseTTL =>
               /\ responses[n].kind # "none"
               /\ responses[n].expiresAt = signed[n][i].at + ResponseTTL

(* A step that signs nothing keeps the answers if the clock and the cache  *)
(* do.                                                                     *)
LEMMA FreshUntouched ==
    ASSUME FreshIsKept, UNCHANGED <<now, crashes, responses, signed>>
    PROVE  FreshIsKept'
BY DEF FreshIsKept

LEMMA InitKeeps == Init => FreshIsKept
BY DEF Init, FreshIsKept

LEMMA NextKeeps == TypeInv /\ SpendInv /\ FreshIsKept /\ [Next]_vars => FreshIsKept'
<1> SUFFICES ASSUME TypeInv, SpendInv, FreshIsKept, [Next]_vars PROVE FreshIsKept'
  OBVIOUS
<1>a. /\ now \in Nat /\ crashes \in Nat
      /\ signed \in [Nullifiers -> Seq([refund : 0..CMax, at : Nat, run : Nat])]
  BY DEF TypeInv, TypeOK, HistoryTypes
<1>b. \A n \in Nullifiers : \A i \in DOMAIN signed[n] :
          signed[n][i].at \in Nat /\ signed[n][i].run \in Nat
  <2> SUFFICES ASSUME NEW n \in Nullifiers, NEW i \in DOMAIN signed[n]
               PROVE  signed[n][i] \in [refund : 0..CMax, at : Nat, run : Nat]
    OBVIOUS
  <2>1. signed[n] \in Seq([refund : 0..CMax, at : Nat, run : Nat])
    BY <1>a
  <2>2. QED
    BY <2>1, ElementOfSeq, LenProperties
<1>1. CASE Tick
  <2>1. now' = now + 1 /\ UNCHANGED <<crashes, responses, signed>>
    BY <1>1 DEF Tick, memVars, histVars
  <2> SUFFICES ASSUME NEW n \in Nullifiers, NEW i \in DOMAIN signed[n]
               PROVE  /\ signed[n][i].run <= crashes
                      /\ signed[n][i].run = crashes /\ now + 1 < signed[n][i].at + ResponseTTL =>
                            /\ responses[n].kind # "none"
                            /\ responses[n].expiresAt = signed[n][i].at + ResponseTTL
    BY <2>1 DEF FreshIsKept
  <2>2. signed[n][i].at \in Nat
    BY <1>b
  <2>3. QED
    BY <1>a, <2>2 DEF FreshIsKept
<1>2. ASSUME NEW r \in Calls,
             \/ Arrive(r) \/ Bind(r) \/ Price(r) \/ CheckRoot(r) \/ VerifyProof(r)
             \/ RecordFresh(r) \/ RecordUnparsable(r) \/ RecordConflict(r) \/ RecordRetry(r)
             \/ SlashDone(r)
             \/ ProviderFails(r) \/ ProviderAnswers(r) \/ CostKnown(r) \/ CostFails(r)
      PROVE  FreshIsKept'
  <2>1. UNCHANGED <<now, crashes, responses, signed>>
    BY <1>2 DEF Arrive, Bind, Price, CheckRoot, VerifyProof, RecordFresh, RecordUnparsable, RecordConflict,
       RecordRetry, SlashDone, ProviderFails, ProviderAnswers, CostKnown, CostFails,
       memVars, histVars
  <2>2. QED
    BY <2>1, FreshUntouched
<1>3. ASSUME NEW r \in Calls, Sign(r)
      PROVE  FreshIsKept'
  <2> DEFINE n == req[r].n
             accumulator == [refund |-> answer[r].refund, at |-> now, run |-> crashes]
  <2>1. /\ n \in Nullifiers
        /\ responses \in [Nullifiers -> [x : Signals \cup {NoSignal}, kind : AnswerKinds,
                                         refund : 0..CMax, expiresAt : Nat]]
    BY DEF TypeInv, TypeOK, CallTypes, MemoryTypes
  <2>2. signed[n] = << >> /\ answer[r].kind \in {"ok", "badGateway"}
    BY <1>3 DEF Sign, SpendInv, ServedAlone, SignedAnswers, Serving
  <2>3. signed' = [signed EXCEPT ![n] = << accumulator >>] /\ UNCHANGED <<now, crashes>>
    BY <1>3, <2>2 DEF Sign
  <2>4. responses' = [responses EXCEPT ![n] =
            [x |-> req[r].x, kind |-> answer[r].kind, refund |-> answer[r].refund,
             expiresAt |-> now + ResponseTTL]]
    BY <1>3 DEF Sign, Remember
  <2>5. /\ signed'[n] = << accumulator >>
        /\ DOMAIN signed'[n] = {1} /\ signed'[n][1].at = now /\ signed'[n][1].run = crashes
    BY <1>a, <2>1, <2>3
  <2>6. responses'[n].kind # "none" /\ responses'[n].expiresAt = now + ResponseTTL
    BY <2>1, <2>2, <2>4
  <2>7. \A m \in Nullifiers \ {n} : signed'[m] = signed[m] /\ responses'[m] = responses[m]
    BY <1>a, <2>1, <2>3, <2>4
  <2> HIDE DEF n, accumulator
  <2>8. ASSUME NEW m \in Nullifiers, NEW i \in DOMAIN signed'[m]
        PROVE  /\ signed'[m][i].run <= crashes'
               /\ signed'[m][i].run = crashes' /\ now' < signed'[m][i].at + ResponseTTL =>
                      /\ responses'[m].kind # "none"
                      /\ responses'[m].expiresAt = signed'[m][i].at + ResponseTTL
    <3>1. CASE m = n
      <4>1. i = 1
        BY <2>5, <2>8, <3>1
      <4>2. QED
        BY <1>a, <2>3, <2>5, <2>6, <3>1, <4>1
    <3>2. CASE m # n
      BY <2>3, <2>7, <2>8, <3>2 DEF FreshIsKept
    <3>3. QED
      BY <3>1, <3>2
  <2>9. QED
    BY <2>8 DEF FreshIsKept
<1>4. CASE (\E n \in Nullifiers : IngestExit(n)) \/ UNCHANGED vars
  <2>1. UNCHANGED <<now, crashes, responses, signed>>
    BY <1>4 DEF IngestExit, vars, memVars, histVars
  <2>2. QED
    BY <2>1, FreshUntouched
<1>5. CASE Cleanup
  <2>1. UNCHANGED <<now, crashes, signed>>
    BY <1>5 DEF Cleanup, histVars
  <2>2. \A n \in Nullifiers : responses[n].expiresAt <= now \/ responses'[n] = responses[n]
    BY <1>5 DEF Cleanup
  <2> SUFFICES ASSUME NEW n \in Nullifiers, NEW i \in DOMAIN signed[n]
               PROVE  /\ signed[n][i].run <= crashes
                      /\ signed[n][i].run = crashes /\ now < signed[n][i].at + ResponseTTL =>
                            /\ responses'[n].kind # "none"
                            /\ responses'[n].expiresAt = signed[n][i].at + ResponseTTL
    BY <2>1 DEF FreshIsKept
  <2>3. signed[n][i].at \in Nat
    BY <1>b
  <2>4. signed[n][i].run <= crashes
    BY DEF FreshIsKept
  <2>5. ASSUME signed[n][i].run = crashes, now < signed[n][i].at + ResponseTTL
        PROVE  responses'[n].kind # "none"
               /\ responses'[n].expiresAt = signed[n][i].at + ResponseTTL
    <3>1. responses[n].kind # "none" /\ responses[n].expiresAt = signed[n][i].at + ResponseTTL
      BY <2>5 DEF FreshIsKept
    <3>2. ~(responses[n].expiresAt <= now)
      BY <1>a, <2>3, <2>5, <3>1
    <3>3. QED
      BY <2>2, <3>1, <3>2
  <2>6. QED
    BY <2>4, <2>5
<1>6. CASE Crash
  <2>1. crashes' = crashes + 1 /\ UNCHANGED <<now, signed>>
    BY <1>6 DEF Crash
  <2>2. QED
    BY <1>a, <1>b, <2>1 DEF FreshIsKept
<1>7. QED
  BY <1>1, <1>2, <1>3, <1>4, <1>5, <1>6 DEF Next, Step

(* A signed answer is recalled for RESPONSE_TTL_MS by the run that signed  *)
(* it: cleanup removes only what has expired, and nothing overwrites it.   *)
THEOREM AnswersTheorem == Spec => []AnswersAreKept
<1>1. Spec => [](TypeInv /\ SpendInv /\ FreshIsKept)
  BY SpendTheorem, InitKeeps, NextKeeps, PTL DEF Spec
<1>2. TypeInv /\ SpendInv /\ FreshIsKept => AnswersAreKept
  <2> SUFFICES ASSUME TypeInv, SpendInv, FreshIsKept,
                      NEW n \in Nullifiers, NEW i \in DOMAIN signed[n],
                      signed[n][i].run = crashes, now < signed[n][i].at + ResponseTTL
               PROVE  Recall(n, store[n]) /\ responses[n].refund = signed[n][i].refund
    BY DEF AnswersAreKept
  <2>1. /\ now \in Nat
        /\ signed[n] \in Seq([refund : 0..CMax, at : Nat, run : Nat])
    BY DEF TypeInv, TypeOK, HistoryTypes
  <2>2. responses[n].kind # "none" /\ responses[n].expiresAt = signed[n][i].at + ResponseTTL
    BY DEF FreshIsKept
  <2>3. responses[n].x = store[n] /\ Len(signed[n]) = 1
        /\ responses[n].refund = signed[n][1].refund
    BY <2>2 DEF SpendInv, KeptIsSigned
  <2>4. i = 1
    BY <2>1, <2>3
  <2>5. QED
    BY <2>1, <2>2, <2>3, <2>4 DEF Recall
<1>3. QED
  BY <1>1, <1>2, PTL

-----------------------------------------------------------------------------
(* Conflicts *)

(* Until a slash was started, the store and the verified signals agree.    *)
OneSignalUnlessSlashed ==
    \A n \in Nullifiers : n \notin slashing => seen[n] \subseteq {store[n]}

LEMMA SlashNext == TypeInv /\ OneSignalUnlessSlashed /\ [Next]_vars => OneSignalUnlessSlashed'
<1> SUFFICES ASSUME TypeInv, OneSignalUnlessSlashed, [Next]_vars PROVE OneSignalUnlessSlashed'
  OBVIOUS
<1>a. /\ store \in [Nullifiers -> Signals \cup {NoSignal}]
      /\ seen \in [Nullifiers -> SUBSET Signals]
      /\ req \in [Calls -> [n : Nullifiers, x : RequestSignals]]
  BY DEF TypeInv, TypeOK, HistoryTypes, CallTypes
<1>1. CASE UNCHANGED <<store, seen, slashing>>
  BY <1>1 DEF OneSignalUnlessSlashed
<1>2. ASSUME NEW n \in Nullifiers, NEW x \in Signals, CheckAndSet(n, x),
             slashing \subseteq slashing', store[n] \in {NoSignal, x} \/ n \in slashing'
      PROVE  OneSignalUnlessSlashed'
  <2> SUFFICES ASSUME NEW m \in Nullifiers, m \notin slashing'
               PROVE  seen'[m] \subseteq {store'[m]}
    BY DEF OneSignalUnlessSlashed
  <2>1. seen[m] \subseteq {store[m]}
    BY <1>2 DEF OneSignalUnlessSlashed
  <2>2. CASE m # n
    BY <1>2, <1>a, <2>1, <2>2 DEF CheckAndSet
  <2>3. CASE m = n
    <3>1. seen'[m] = seen[m] \cup {x}
      BY <1>2, <1>a, <2>3 DEF CheckAndSet
    <3>2. store'[m] = x
      BY <1>2, <1>a, <2>3 DEF CheckAndSet
    <3>3. seen[m] \subseteq {x}
      BY <1>2, <1>a, <2>1, <2>3 DEF Signals
    <3>4. QED
      BY <3>1, <3>2, <3>3
  <2>4. QED
    BY <2>2, <2>3
<1>3. ASSUME NEW r \in Calls,
             RecordFresh(r) \/ RecordUnparsable(r) \/ RecordConflict(r) \/ RecordRetry(r)
      PROVE  OneSignalUnlessSlashed'
  <2>1. req[r].n \in Nullifiers /\ req[r].x \in Signals
    BY <1>a DEF Signals
  <2>2. /\ CheckAndSet(req[r].n, req[r].x)
        /\ slashing \subseteq slashing'
        /\ store[req[r].n] \in {NoSignal, req[r].x} \/ req[r].n \in slashing'
    BY <1>3 DEF RecordFresh, RecordUnparsable, RecordConflict, RecordRetry
  <2>3. QED
    BY <1>2, <2>1, <2>2
<1>4. ASSUME NEW n \in Nullifiers, IngestExit(n)
      PROVE  OneSignalUnlessSlashed'
  <2>1. /\ CheckAndSet(n, ExitSignal)
        /\ slashing \subseteq slashing'
        /\ store[n] \in {NoSignal, ExitSignal} \/ n \in slashing'
    BY <1>4, <1>a DEF IngestExit, Signals
  <2>2. QED
    BY <1>2, <2>1 DEF Signals
<1>5. CASE \E r \in Calls :
             \/ Arrive(r) \/ Bind(r) \/ Price(r) \/ CheckRoot(r) \/ VerifyProof(r) \/ SlashDone(r)
             \/ ProviderFails(r) \/ ProviderAnswers(r) \/ CostKnown(r) \/ CostFails(r) \/ Sign(r)
  <2>1. UNCHANGED <<store, seen, slashing>>
    BY <1>5 DEF Arrive, Bind, Price, CheckRoot, VerifyProof, SlashDone, ProviderFails,
       ProviderAnswers, CostKnown, CostFails, Sign, histVars
  <2>2. QED
    BY <1>1, <2>1
<1>6. CASE Tick \/ Cleanup \/ Crash \/ UNCHANGED vars
  <2>1. UNCHANGED <<store, seen, slashing>>
    BY <1>6 DEF Tick, Cleanup, Crash, Restarted, vars, histVars
  <2>2. QED
    BY <1>1, <2>1
<1>7. QED
  BY <1>3, <1>4, <1>5, <1>6 DEF Next, Step

(* Two verified signals under one nullifier start a slash, from requests   *)
(* or an exit, in either order and across restarts.                        *)
THEOREM ConflictsTheorem == Spec => []ConflictsAreSlashed
<1>1. Init => OneSignalUnlessSlashed
  BY DEF Init, OneSignalUnlessSlashed
<1>2. Spec => []OneSignalUnlessSlashed
  BY <1>1, SpendTheorem, SlashNext, PTL DEF Spec
<1>3. OneSignalUnlessSlashed => ConflictsAreSlashed
  <2> SUFFICES ASSUME OneSignalUnlessSlashed, NEW n \in Nullifiers, n \notin slashing
               PROVE  ~(Cardinality(seen[n]) > 1)
    BY DEF ConflictsAreSlashed
  <2>1. IsFiniteSet({store[n]}) /\ Cardinality({store[n]}) = 1
    BY FS_Singleton
  <2>2. Cardinality(seen[n]) <= Cardinality({store[n]}) /\ Cardinality(seen[n]) \in Nat
    BY <2>1, FS_Subset, FS_CardinalityType DEF OneSignalUnlessSlashed
  <2>3. QED
    BY <2>1, <2>2
<1>4. QED
  BY <1>2, <1>3, PTL

-----------------------------------------------------------------------------
(* The rate limiter *)

(* The rate limiter's list holds what it must still count.                 *)
RateInv ==
    \A n \in Nullifiers :
        /\ IsFiniteSet(admitted[n])
        /\ \A a \in admitted[n] : a.at <= now
        /\ attempts[n] \subseteq admitted[n]
        /\ Recent(admitted[n]) \subseteq attempts[n]

(* The attempts of a window that ends at t.                                *)
Window(n, t) == {a \in admitted[n] : a.at <= t /\ t - a.at < RateWindow}

(* A set that gains at most one element.                                   *)
LEMMA CountOneMore ==
    ASSUME NEW S, IsFiniteSet(S), NEW e, NEW T, T \subseteq S \cup {e}
    PROVE  Cardinality(T) <= Cardinality(S) + 1 /\ Cardinality(T) \in Nat
<1>1. /\ IsFiniteSet(S \cup {e})
      /\ Cardinality(S \cup {e}) \in {Cardinality(S), Cardinality(S) + 1}
  BY FS_AddElement
<1>2. Cardinality(S) \in Nat /\ IsFiniteSet(T) /\ Cardinality(T) <= Cardinality(S \cup {e})
  BY <1>1, FS_CardinalityType, FS_Subset
<1>3. Cardinality(T) \in Nat
  BY <1>2, FS_CardinalityType
<1>4. QED
  BY <1>1, <1>2, <1>3

LEMMA WindowFinite ==
    ASSUME RateInv, NEW n \in Nullifiers, NEW t
    PROVE  IsFiniteSet(Window(n, t)) /\ Cardinality(Window(n, t)) \in Nat
<1>1. Window(n, t) \subseteq admitted[n] /\ IsFiniteSet(admitted[n])
  BY DEF RateInv, Window
<1>2. QED
  BY <1>1, FS_Subset, FS_CardinalityType

(* The window that ends now is what checkRateLimit counts.                 *)
LEMMA CountedWindow ==
    ASSUME TypeInv, RateInv, NEW n \in Nullifiers
    PROVE  Window(n, now) = Recent(attempts[n])
BY DEF RateInv, Window, Recent

LEMMA RateUntouched ==
    ASSUME RateInv, RateLimitHolds, UNCHANGED <<now, attempts, admitted>>
    PROVE  RateInv' /\ RateLimitHolds'
BY DEF RateInv, RateLimitHolds, Recent

LEMMA InitRate == Init => RateInv /\ RateLimitHolds
<1> SUFFICES ASSUME Init PROVE RateInv /\ RateLimitHolds
  OBVIOUS
<1>1. IsFiniteSet({}) /\ Cardinality({}) = 0
  BY FS_EmptySet
<1>2. RateInv
  BY <1>1 DEF Init, RateInv, Recent
<1>3. ASSUME NEW n \in Nullifiers, NEW t \in 0..now
      PROVE  Cardinality({a \in admitted[n] : a.at <= t /\ t - a.at < RateWindow}) <= RateLimit
  <2>1. {a \in admitted[n] : a.at <= t /\ t - a.at < RateWindow} = {}
    BY DEF Init
  <2>2. QED
    BY <1>1, <2>1
<1>4. QED
  BY <1>2, <1>3 DEF RateLimitHolds

(* The window moves on: what it gains is nothing, as no attempt is of the  *)
(* future.                                                                 *)
LEMMA TickRate ==
    ASSUME TypeInv, RateInv, RateLimitHolds, Tick
    PROVE  RateInv' /\ RateLimitHolds'
<1>1. now \in Nat /\ now' = now + 1 /\ UNCHANGED <<attempts, admitted>>
  BY DEF TypeInv, TypeOK, Tick, memVars, histVars
<1>2. \A n \in Nullifiers : \A a \in admitted[n] : a.at \in Nat
  BY DEF TypeInv, TypeOK, HistoryTypes, Attempt
<1>3. RateInv'
  <2> SUFFICES ASSUME NEW n \in Nullifiers
               PROVE  /\ IsFiniteSet(admitted'[n])
                      /\ \A a \in admitted'[n] : a.at <= now'
                      /\ attempts'[n] \subseteq admitted'[n]
                      /\ \A a \in admitted'[n] : now' - a.at < RateWindow => a \in attempts'[n]
    BY DEF RateInv, Recent
  <2>1. QED
    BY <1>1, <1>2 DEF RateInv, Recent
<1>4. ASSUME NEW n \in Nullifiers, NEW t \in 0..now + 1
      PROVE  Cardinality(Window(n, t)) <= RateLimit
  <2>1. CASE t \in 0..now
    BY <2>1 DEF RateLimitHolds, Window
  <2>2. CASE t = now + 1
    <3>1. Window(n, t) \subseteq Window(n, now)
      BY <1>1, <1>2, <2>2 DEF RateInv, Window
    <3>2. Cardinality(Window(n, t)) <= Cardinality(Window(n, now))
      BY <3>1, WindowFinite, FS_Subset
    <3>3. Cardinality(Window(n, now)) <= RateLimit
      BY <1>1 DEF RateLimitHolds, Window
    <3>4. QED
      BY <3>2, <3>3, WindowFinite
  <2>3. QED
    BY <1>1, <2>1, <2>2
<1>5. RateLimitHolds'
  BY <1>1, <1>4 DEF RateLimitHolds, Window
<1>6. QED
  BY <1>3, <1>5

(* An admitted call: the current window had room for it, and no earlier    *)
(* window contains it.                                                     *)
LEMMA AdmitRate ==
    ASSUME TypeInv, RateInv, RateLimitHolds, NEW n \in Nullifiers, NEW r \in Calls,
           CheckRateLimit(n), now' = now,
           attempts' = [attempts EXCEPT ![n] = Recent(@) \cup {[by |-> r, at |-> now]}],
           admitted' = [admitted EXCEPT ![n] = @ \cup {[by |-> r, at |-> now]}]
    PROVE  RateInv' /\ RateLimitHolds'
<1> DEFINE new == [by |-> r, at |-> now]
<1>1. /\ now \in Nat
      /\ admitted \in [Nullifiers -> SUBSET Attempt]
      /\ attempts \in [Nullifiers -> SUBSET Attempt]
  BY DEF TypeInv, TypeOK, HistoryTypes, MemoryTypes
<1>2. \A m \in Nullifiers : \A a \in admitted[m] : a.at \in Nat
  BY <1>1 DEF Attempt
<1>3. /\ admitted'[n] = admitted[n] \cup {new} /\ attempts'[n] = Recent(attempts[n]) \cup {new}
      /\ \A m \in Nullifiers \ {n} : admitted'[m] = admitted[m] /\ attempts'[m] = attempts[m]
  BY <1>1
<1>4. new.at = now
  OBVIOUS
<1> HIDE DEF new
<1>5. RateInv'
  <2> SUFFICES ASSUME NEW m \in Nullifiers
               PROVE  /\ IsFiniteSet(admitted'[m])
                      /\ \A a \in admitted'[m] : a.at <= now
                      /\ attempts'[m] \subseteq admitted'[m]
                      /\ \A a \in admitted'[m] : now - a.at < RateWindow => a \in attempts'[m]
    BY DEF RateInv, Recent
  <2>1. CASE m # n
    BY <1>3, <2>1 DEF RateInv, Recent
  <2>2. CASE m = n
    <3>1. IsFiniteSet(admitted'[n])
      <4>1. IsFiniteSet(admitted[n])
        BY DEF RateInv
      <4>2. QED
        BY <1>3, <4>1, FS_AddElement
    <3>2. \A a \in admitted'[n] : a.at <= now
      BY <1>1, <1>3, <1>4 DEF RateInv
    <3>3. attempts'[n] \subseteq admitted'[n]
      BY <1>3 DEF RateInv, Recent
    <3>4. \A a \in admitted'[n] : now - a.at < RateWindow => a \in attempts'[n]
      BY <1>3 DEF RateInv, Recent
    <3>5. QED
      BY <2>2, <3>1, <3>2, <3>3, <3>4
  <2>3. QED
    BY <2>1, <2>2
<1>6. ASSUME NEW m \in Nullifiers, NEW t \in 0..now
      PROVE  Cardinality(Window(m, t)') <= RateLimit
  <2>1. CASE m # n
    <3>1. Window(m, t)' = Window(m, t)
      BY <1>3, <2>1 DEF Window
    <3>2. QED
      BY <3>1 DEF RateLimitHolds, Window
  <2>2. CASE m = n /\ t # now
    <3>1. Window(m, t)' = Window(m, t)
      BY <1>1, <1>3, <1>4, <2>2 DEF Window
    <3>2. QED
      BY <3>1 DEF RateLimitHolds, Window
  <2>3. CASE m = n /\ t = now
    <3>1. Window(m, t)' \subseteq Window(n, now) \cup {new}
      BY <1>3, <2>3 DEF Window
    <3>2. Cardinality(Window(n, now)) < RateLimit
      BY CountedWindow DEF CheckRateLimit
    <3>3. Cardinality(Window(m, t)') <= Cardinality(Window(n, now)) + 1
      BY <3>1, WindowFinite, CountOneMore
    <3>4. Cardinality(Window(m, t)') \in Nat /\ Cardinality(Window(n, now)) \in Nat
      BY <3>1, WindowFinite, CountOneMore
    <3>5. QED
      BY <3>2, <3>3, <3>4
  <2>4. QED
    BY <2>1, <2>2, <2>3
<1>7. RateLimitHolds'
  BY <1>6 DEF RateLimitHolds, Window
<1>8. QED
  BY <1>5, <1>7

LEMMA NextRate ==
    TypeInv /\ RateInv /\ RateLimitHolds /\ [Next]_vars => RateInv' /\ RateLimitHolds'
<1> SUFFICES ASSUME TypeInv, RateInv, RateLimitHolds, [Next]_vars
             PROVE  RateInv' /\ RateLimitHolds'
  OBVIOUS
<1>1. ASSUME NEW r \in Calls, Arrive(r)
      PROVE  RateInv' /\ RateLimitHolds'
  <2>1. req[r].n \in Nullifiers
    BY DEF TypeInv, TypeOK, CallTypes
  <2>2. CASE UNCHANGED <<attempts, admitted>>
    BY <1>1, <2>2, RateUntouched DEF Arrive
  <2>3. CASE ~UNCHANGED <<attempts, admitted>>
    <3>1. /\ CheckRateLimit(req[r].n) /\ now' = now
          /\ attempts' = [attempts EXCEPT ![req[r].n] = Recent(@) \cup {[by |-> r, at |-> now]}]
          /\ admitted' = [admitted EXCEPT ![req[r].n] = @ \cup {[by |-> r, at |-> now]}]
      BY <1>1, <2>3 DEF Arrive
    <3>2. QED
      BY <2>1, <3>1, AdmitRate
  <2>4. QED
    BY <2>2, <2>3
<1>2. CASE \E r \in Calls : Step(r) \/ SlashDone(r)
  <2>1. UNCHANGED <<now, attempts, admitted>>
    BY <1>2 DEF Step, Bind, Price, CheckRoot, VerifyProof, RecordFresh, RecordUnparsable, RecordConflict,
       RecordRetry, SlashDone, ProviderFails, ProviderAnswers, CostKnown, CostFails, Sign,
       memVars, histVars
  <2>2. QED
    BY <2>1, RateUntouched
<1>3. CASE (\E n \in Nullifiers : IngestExit(n)) \/ UNCHANGED vars
  <2>1. UNCHANGED <<now, attempts, admitted>>
    BY <1>3 DEF IngestExit, vars, memVars, histVars
  <2>2. QED
    BY <2>1, RateUntouched
<1>4. CASE Cleanup
  <2>1. UNCHANGED <<now, admitted>>
    BY <1>4 DEF Cleanup, histVars
  <2>2. \A n \in Nullifiers : attempts'[n] = Recent(attempts[n])
    BY <1>4 DEF Cleanup
  <2>3. RateInv'
    BY <2>1, <2>2 DEF RateInv, Recent
  <2>4. RateLimitHolds'
    BY <2>1 DEF RateLimitHolds
  <2>5. QED
    BY <2>3, <2>4
<1>5. CASE Crash
  <2>1. \A n \in Nullifiers : attempts'[n] = {} /\ admitted'[n] = {}
    BY <1>5 DEF Crash
  <2>2. IsFiniteSet({}) /\ Cardinality({}) = 0
    BY FS_EmptySet
  <2>3. RateInv'
    BY <2>1, <2>2 DEF RateInv, Recent
  <2>4. ASSUME NEW n \in Nullifiers, NEW t
        PROVE  Cardinality(Window(n, t)') <= RateLimit
    <3>1. Window(n, t)' = {}
      BY <2>1 DEF Window
    <3>2. QED
      BY <2>2, <3>1
  <2>5. RateLimitHolds'
    BY <2>4 DEF RateLimitHolds, Window
  <2>6. QED
    BY <2>3, <2>5
<1>6. QED
  BY <1>1, <1>2, <1>3, <1>4, <1>5, TickRate DEF Next

(* In no window does one run of the process admit more calls of one        *)
(* nullifier than checkRateLimit allows.                                   *)
THEOREM RateLimitTheorem == Spec => []RateLimitHolds
<1>1. Spec => []TypeInv
  BY SpendTheorem, PTL
<1>2. QED
  BY <1>1, InitRate, NextRate, PTL DEF Spec
=============================================================================
