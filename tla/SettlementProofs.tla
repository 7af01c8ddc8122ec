-------------------------- MODULE SettlementProofs --------------------------
(***************************************************************************)
(* Proofs about the settlement protocol, for any number of notes, indices, *)
(* signals and calls under verification, and any prices and deposits.      *)
(***************************************************************************)
EXTENDS Settlement, LongjingCreditsProofs, FiniteSetTheorems

USE ConstantsAssumption, SettlementAssumption

-----------------------------------------------------------------------------
(* The inductive invariant, note by note *)

Signals == RequestSignals \cup {ExitSignal, NoSignal}

GateTypes ==
    /\ store \in [Commitments -> [Indices -> Signals]]
    /\ checked \in [Commitments -> SUBSET (Indices \X RequestSignals)]
    /\ serving \in [Commitments -> BOOLEAN]
    /\ acc \in [Commitments -> Seq(Nat)]
    /\ ingested \subseteq Commitments /\ revealed \subseteq Commitments

UserTypes ==
    /\ honest \subseteq Commitments
    /\ opening \in [Commitments -> [index : Nat, pending : RequestSignals \cup {NoSignal}]]
    /\ proofs \in [Commitments -> SUBSET [m : Nat, n : Nat]]
    /\ exitIndex \in [Commitments -> Indices \cup {-1}]

(* The accumulators of a note only add up, by at most C_MAX per request.   *)
AccInv(c) ==
    /\ \A i \in 0..Len(acc[c]) : Refunds(c, i) \in Nat /\ Refunds(c, i) <= i * CMax
    /\ \A i, j \in 0..Len(acc[c]) : i <= j => Refunds(c, i) <= Refunds(c, j)
    /\ \A i \in 0..Len(acc[c]) - 1 : Refunds(c, i + 1) <= Refunds(c, i) + CMax

(* A request of index i was recorded, or has been verified.                *)
Asked(c, i) ==
    store[c][i] \in RequestSignals \/ \E x \in RequestSignals : <<i, x>> \in checked[c]

(* Requests are asked in order, each covered by the deposit; the one being *)
(* served is the one the next accumulator is for.                          *)
UseInv(c) ==
    /\ Len(acc[c]) <= MaxIndex
    /\ \A i \in Indices : i < Len(acc[c]) => store[c][i] \in RequestSignals
    /\ \A i \in Indices : Asked(c, i) => i <= Len(acc[c]) /\ Solvent(c, i)
    /\ serving[c] => Len(acc[c]) \in Indices /\ store[c][Len(acc[c])] \in RequestSignals

(* What a settled note left to the operator.                               *)
MoneyInv(c) ==
    /\ notes[c].amount <= DepositLimit
    /\ notes[c].status = "None" => notes[c].amount = 0
    /\ notes[c].status \in {"None", "Active", "Exiting"} => credited[c] = 0
    /\ notes[c].status = "Closed" => credited[c] = notes[c].amount - exits[c].payout
    /\ notes[c].status = "Slashed" => credited[c] = notes[c].amount - Bounty(notes[c].amount)
    /\ notes[c].status = "Expired" => credited[c] = notes[c].amount

(* An exit claims an accumulator that was signed and spends its own index; *)
(* once it may be finalized, that index holds the exit's signal.           *)
ExitInv(c) ==
    /\ notes[c].status \in {"None", "Active"} => exitIndex[c] = -1
    /\ notes[c].status \in {"Exiting", "Closed"} =>
          /\ exitIndex[c] \in Indices
          /\ \E m \in 0..Len(acc[c]) :
                m <= exitIndex[c] /\ exits[c].payout = Payout(c, m, exitIndex[c])
    /\ c \in ingested =>
          exitIndex[c] # -1 /\ (store[c][exitIndex[c]] = ExitSignal \/ c \in revealed)
    /\ \A i \in Indices : store[c][i] = ExitSignal => i = exitIndex[c]
    /\ notes[c].status = "Closed" \/ (notes[c].status = "Exiting" /\ now >= exits[c].exitAt) =>
          store[c][exitIndex[c]] = ExitSignal

(* The client's file is at most one answer behind the gateway.             *)
ClientInv(c) ==
    /\ opening[c].index <= Len(acc[c])
    /\ Len(acc[c]) <= UsedIndices(c)
    /\ opening[c].pending # NoSignal =>
          opening[c].index \in Indices /\ Solvent(c, opening[c].index)

(* Everything the client sent is what its file says it sent; only an exit  *)
(* of its own may hold the index of the request it has pending.            *)
SignalInv(c) ==
    /\ \A i \in Indices : store[c][i] \in RequestSignals =>
          i < opening[c].index \/ (i = opening[c].index /\ store[c][i] = opening[c].pending)
    /\ \A i \in Indices, x \in RequestSignals : <<i, x>> \in checked[c] =>
          \/ store[c][i] = x
          \/ /\ store[c][i] \in {NoSignal, ExitSignal}
             /\ i = opening[c].index /\ x = opening[c].pending

(* What the client proves: an accumulator it has, and the index after it   *)
(* or the one after that.  The exit on chain is one of these proofs.       *)
ProofInv(c) ==
    /\ \A p \in proofs[c] :
          /\ p.m \in 0..opening[c].index
          /\ p.n \in Indices /\ p.n \in {p.m, p.m + 1}
          /\ Payout(c, p.m, p.n) >= 0
    /\ exitIndex[c] # -1 =>
          \E p \in proofs[c] : exitIndex[c] = p.n /\ exits[c].payout = Payout(c, p.m, p.n)

(* The exit on chain was proved before the client's latest request.        *)
StaleExit(c) == exitIndex[c] # -1 /\ exitIndex[c] < UsedIndices(c)

HonestInv(c) ==
    c \in honest =>
        /\ c \in revealed \/ notes[c].status = "Slashed" => StaleExit(c)
        /\ ClientInv(c) /\ SignalInv(c) /\ ProofInv(c)

NoteInv(c) == AccInv(c) /\ UseInv(c) /\ MoneyInv(c) /\ ExitInv(c) /\ HonestInv(c)

SInv == TypeInv /\ GateTypes /\ UserTypes /\ \A c \in Commitments : NoteInv(c)

-----------------------------------------------------------------------------
(* Prices and accumulators *)

(* i requests at full price.                                               *)
LEMMA FullPrice ==
    ASSUME NEW i \in Nat
    PROVE  i * CMax \in Nat /\ (i + 1) * CMax = i * CMax + CMax
OBVIOUS

LEMMA FullPriceGrows ==
    ASSUME NEW i \in Nat, NEW j \in Nat, i <= j
    PROVE  i * CMax <= j * CMax
<1>1. j * CMax = i * CMax + (j - i) * CMax /\ j - i \in Nat
  OBVIOUS
<1>2. (j - i) * CMax \in Nat /\ i * CMax \in Nat
  BY <1>1, FullPrice
<1>3. QED
  BY <1>1, <1>2

(* A price that is covered by a deposit and a refund is covered by the     *)
(* deposit and any later refund.                                           *)
LEMMA Covered ==
    ASSUME NEW price \in Nat, NEW amount \in Nat, NEW r \in Nat, NEW s \in Nat,
           price <= amount + r, r <= s
    PROVE  price - s \in Int /\ price - s <= amount /\ price <= amount + s
OBVIOUS

(* A payout is between nothing and the deposit.                            *)
LEMMA PayoutRange ==
    ASSUME NEW price \in Nat, NEW amount \in Nat, NEW r \in Nat,
           r <= price, price <= amount + r
    PROVE  amount + r - price \in 0..amount
OBVIOUS

(* The indices of requests that were recorded form a prefix.               *)
LEMMA UsedPrefix ==
    ASSUME GateTypes, NEW c \in Commitments, UseInv(c)
    PROVE  \E k \in {Len(acc[c]), Len(acc[c]) + 1} :
              /\ Used(c) = 0..k - 1 /\ Cardinality(Used(c)) = k
              /\ k > Len(acc[c]) =>
                    Len(acc[c]) \in Indices /\ store[c][Len(acc[c])] \in RequestSignals
<1>1. Len(acc[c]) \in Nat /\ Len(acc[c]) <= MaxIndex
  BY DEF GateTypes, UseInv
<1>a. \A i \in Indices : i \in Nat /\ i < MaxIndex
  BY DEF Indices
<1>2. \A i \in Indices : i < Len(acc[c]) => i \in Used(c)
  BY DEF UseInv, Used
<1>3. \A i \in Used(c) : i \in Indices /\ i <= Len(acc[c])
  BY DEF UseInv, Used, Asked
<1>4. CASE Len(acc[c]) \in Used(c)
  <2>1. Used(c) = 0..(Len(acc[c]) + 1) - 1
    <3>1. ASSUME NEW i \in 0..(Len(acc[c]) + 1) - 1 PROVE i \in Used(c)
      <4>1. CASE i = Len(acc[c])
        BY <1>4, <4>1
      <4>2. CASE i # Len(acc[c])
        BY <1>1, <1>2, <3>1, <4>2 DEF Indices
      <4>3. QED
        BY <4>1, <4>2
    <3>2. ASSUME NEW i \in Used(c) PROVE i \in 0..(Len(acc[c]) + 1) - 1
      BY <1>1, <1>a, <1>3
    <3>3. QED
      BY <3>1, <3>2
  <2>2. Cardinality(0..(Len(acc[c]) + 1) - 1) = Len(acc[c]) + 1
    BY <1>1, FS_Interval
  <2>3. QED
    BY <1>4, <2>1, <2>2 DEF Used
<1>5. CASE Len(acc[c]) \notin Used(c)
  <2>1. Used(c) = 0..Len(acc[c]) - 1
    <3>1. ASSUME NEW i \in 0..Len(acc[c]) - 1 PROVE i \in Used(c)
      BY <1>1, <1>2 DEF Indices
    <3>2. ASSUME NEW i \in Used(c) PROVE i \in 0..Len(acc[c]) - 1
      <4>1. i # Len(acc[c]) /\ i \in Nat /\ i <= Len(acc[c])
        BY <1>a, <1>3, <1>5
      <4>2. QED
        BY <1>1, <4>1
    <3>3. QED
      BY <3>1, <3>2
  <2>2. Cardinality(0..Len(acc[c]) - 1) = Len(acc[c])
    BY <1>1, FS_Interval
  <2>3. QED
    BY <1>1, <2>1, <2>2
<1>6. QED
  BY <1>4, <1>5

(* The deposit covers what the requests cost.                              *)
LEMMA DepositCovers ==
    ASSUME GateTypes, TypeInv, NEW c \in Commitments, AccInv(c), UseInv(c)
    PROVE  Charged(c) \in Int /\ Charged(c) <= notes[c].amount
<1> DEFINE len == Len(acc[c])
<1>1. len \in Nat /\ notes[c].amount \in Nat /\ len <= MaxIndex
  BY DEF GateTypes, TypeInv, TypeOK, NoteTypes, NoteType, UseInv
<1>2. PICK k \in {len, len + 1} :
          /\ Used(c) = 0..k - 1 /\ Cardinality(Used(c)) = k
          /\ k > len => len \in Indices /\ store[c][len] \in RequestSignals
  BY UsedPrefix
<1>3. Refunds(c, len) \in Nat
  BY <1>1 DEF AccInv
<1>4. Charged(c) = k * CMax - Refunds(c, len) /\ k * CMax \in Nat
  BY <1>1, <1>2 DEF Charged
<1>5. \A i \in Indices : store[c][i] \in RequestSignals =>
          (i + 1) * CMax <= notes[c].amount + Refunds(c, i)
  BY DEF UseInv, Asked, Solvent
<1>6. CASE k = len + 1
  <2>1. k * CMax <= notes[c].amount + Refunds(c, len)
    BY <1>1, <1>2, <1>5, <1>6
  <2>2. QED
    BY <1>1, <1>3, <1>4, <2>1, Covered
<1>7. CASE k = len /\ len = 0
  BY <1>1, <1>3, <1>4, <1>7
<1>8. CASE k = len /\ len > 0
  <2>1. len - 1 \in Indices /\ store[c][len - 1] \in RequestSignals
    BY <1>1, <1>8 DEF UseInv, Indices
  <2>2. ((len - 1) + 1) * CMax <= notes[c].amount + Refunds(c, len - 1)
    BY <1>5, <2>1
  <2>3. Refunds(c, len - 1) <= Refunds(c, len) /\ Refunds(c, len - 1) \in Nat
    BY <1>1, <1>8 DEF AccInv
  <2>4. (len - 1) + 1 = k
    BY <1>1, <1>8
  <2>5. k * CMax <= notes[c].amount + Refunds(c, len - 1)
    BY <2>2, <2>4
  <2>6. QED
    BY <1>1, <1>3, <1>4, <2>3, <2>5, Covered
<1>9. QED
  BY <1>1, <1>2, <1>4, <1>6, <1>7, <1>8, <1>3

-----------------------------------------------------------------------------
(* What the invariant says *)

LEMMA PrefixHolds == SInv => PrefixProperty
<1> SUFFICES ASSUME SInv, NEW c \in Commitments
             PROVE  /\ Used(c) = 0..Cardinality(Used(c)) - 1
                    /\ Cardinality(Used(c)) - Len(acc[c]) \in {0, 1}
  BY DEF PrefixProperty
<1>1. GateTypes /\ UseInv(c)
  BY DEF SInv, NoteInv
<1>2. Len(acc[c]) \in Nat
  BY <1>1 DEF GateTypes
<1>3. QED
  BY <1>1, <1>2, UsedPrefix

LEMMA PaidHolds == SInv => OperatorIsPaid
<1> SUFFICES ASSUME SInv, NEW c \in Commitments
             PROVE  /\ notes[c].status \in {"Closed", "Expired"} => credited[c] >= Charged(c)
                    /\ notes[c].status = "Slashed" => credited[c] + SlashBounty >= Charged(c)
  BY DEF OperatorIsPaid
<1> DEFINE len == Len(acc[c])
           n == exitIndex[c]
<1>1. /\ TypeInv /\ GateTypes /\ UserTypes
      /\ AccInv(c) /\ UseInv(c) /\ MoneyInv(c) /\ ExitInv(c)
  BY DEF SInv, NoteInv
<1>2. len \in Nat /\ notes[c].amount \in Nat /\ credited[c] \in Nat
  BY <1>1 DEF GateTypes, TypeInv, TypeOK, NoteTypes, NoteType, HistoryTypes
<1>3. Charged(c) \in Int /\ Charged(c) <= notes[c].amount
  BY <1>1, DepositCovers
<1>4. CASE notes[c].status = "Expired"
  BY <1>1, <1>2, <1>3, <1>4 DEF MoneyInv
<1>5. CASE notes[c].status = "Slashed"
  <2>1. Bounty(notes[c].amount) <= SlashBounty /\ Bounty(notes[c].amount) \in Nat
    BY <1>2 DEF Bounty
  <2>2. QED
    BY <1>1, <1>2, <1>3, <1>5, <2>1 DEF MoneyInv
<1>6. CASE notes[c].status = "Closed"
  <2>1. PICK m \in 0..len : m <= n /\ exits[c].payout = Payout(c, m, n)
    BY <1>1, <1>6 DEF ExitInv
  <2>2. n \in Indices /\ n \in Nat /\ store[c][n] = ExitSignal
    BY <1>1, <1>6 DEF ExitInv, Indices
  <2>3. PICK k \in {len, len + 1} :
            /\ Used(c) = 0..k - 1 /\ Cardinality(Used(c)) = k
            /\ k > len => len \in Indices /\ store[c][len] \in RequestSignals
    BY <1>1, UsedPrefix
  <2>4. n \notin Used(c)
    BY <2>2 DEF Used
  <2>5. k \in Nat /\ k <= n
    BY <1>2, <2>2, <2>3, <2>4
  <2>6. /\ Refunds(c, m) \in Nat /\ Refunds(c, len) \in Nat
        /\ Refunds(c, m) <= Refunds(c, len)
    BY <1>1, <1>2, <2>1 DEF AccInv
  <2>7. k * CMax <= n * CMax /\ k * CMax \in Nat /\ n * CMax \in Nat
    BY <2>2, <2>5, FullPrice, FullPriceGrows
  <2>8. credited[c] = notes[c].amount - (notes[c].amount + Refunds(c, m) - n * CMax)
    BY <1>1, <1>6, <2>1 DEF MoneyInv, Payout
  <2>9. Charged(c) = k * CMax - Refunds(c, len)
    BY <2>3 DEF Charged
  <2>10. QED
    BY <1>2, <1>6, <2>6, <2>7, <2>8, <2>9
<1>7. QED
  BY <1>4, <1>5, <1>6

LEMMA NotSlashedHolds == SInv => HonestNotSlashed
BY DEF SInv, UserTypes, NoteInv, HonestInv, StaleExit, HonestNotSlashed

LEMMA LeaveHolds == SInv => HonestCanLeave
<1> SUFFICES ASSUME SInv, NEW c \in honest, notes[c].status = "Active"
             PROVE  Payout(c, opening[c].index, UsedIndices(c)) \in 0..notes[c].amount
  BY DEF HonestCanLeave
<1> DEFINE i == opening[c].index
           u == UsedIndices(c)
<1>1. /\ c \in Commitments /\ TypeInv /\ GateTypes /\ UserTypes
      /\ AccInv(c) /\ UseInv(c) /\ ClientInv(c)
  BY DEF SInv, UserTypes, NoteInv, HonestInv
<1>2. i \in Nat /\ Len(acc[c]) \in Nat /\ notes[c].amount \in Nat /\ i <= Len(acc[c])
  BY <1>1 DEF GateTypes, UserTypes, ClientInv, TypeInv, TypeOK, NoteTypes, NoteType
<1>3. Refunds(c, i) \in Nat /\ Refunds(c, i) <= i * CMax
  BY <1>1, <1>2 DEF AccInv
<1>4. i * CMax \in Nat /\ (i + 1) * CMax = i * CMax + CMax
  BY <1>2, FullPrice
<1>5. CASE opening[c].pending # NoSignal
  <2>1. u = i + 1
    BY <1>5 DEF UsedIndices
  <2>2. (i + 1) * CMax <= notes[c].amount + Refunds(c, i)
    BY <1>1, <1>5 DEF ClientInv, Solvent
  <2>3. Payout(c, i, u) = notes[c].amount + Refunds(c, i) - (i + 1) * CMax
    BY <2>1 DEF Payout
  <2>4. (i + 1) * CMax \in Nat /\ Refunds(c, i) <= (i + 1) * CMax
    BY <1>3, <1>4
  <2>5. QED
    BY <1>2, <1>3, <2>2, <2>3, <2>4, PayoutRange
<1>6. CASE opening[c].pending = NoSignal
  <2>1. u = i
    BY <1>2, <1>6 DEF UsedIndices
  <2>2. Payout(c, i, u) = notes[c].amount + Refunds(c, i) - i * CMax
    BY <2>1 DEF Payout
  <2>3. CASE i = 0
    BY <1>2, <1>3, <1>4, <2>2, <2>3
  <2>4. CASE i > 0
    <3>1. i - 1 \in Indices /\ store[c][i - 1] \in RequestSignals
      BY <1>1, <1>2, <2>4 DEF UseInv, Indices
    <3>2. ((i - 1) + 1) * CMax <= notes[c].amount + Refunds(c, i - 1)
      BY <1>1, <3>1 DEF UseInv, Asked, Solvent
    <3>3. Refunds(c, i - 1) \in Nat /\ Refunds(c, i - 1) <= Refunds(c, i)
      BY <1>1, <1>2, <2>4 DEF AccInv
    <3>4. (i - 1) + 1 = i
      BY <1>2
    <3> HIDE DEF i, u
    <3>5. i * CMax <= notes[c].amount + Refunds(c, i - 1)
      BY <3>2, <3>4
    <3>6. i * CMax <= notes[c].amount + Refunds(c, i)
      <4>1. PICK price \in Nat : price = i * CMax
        BY <1>4
      <4>2. price <= notes[c].amount + Refunds(c, i - 1)
        BY <3>5, <4>1
      <4>3. price <= notes[c].amount + Refunds(c, i)
        BY <1>2, <1>3, <3>3, <4>2
      <4>4. QED
        BY <4>1, <4>3
    <3>7. notes[c].amount + Refunds(c, i) - i * CMax \in 0..notes[c].amount
      BY <1>2, <1>3, <1>4, <3>6, PayoutRange
    <3>8. QED
      BY <2>2, <3>7 DEF i, u
  <2>5. QED
    BY <1>2, <2>3, <2>4
<1>7. QED
  BY <1>5, <1>6

(* One of the two parts of the loss is nothing.                            *)
LEMMA Loss ==
    ASSUME NEW claim \in Nat, NEW cost \in Nat, NEW amount \in Nat, NEW r \in Nat, NEW s \in Nat,
           (claim <= cost + CMax /\ s = r) \/ (claim = cost /\ s <= r + CMax)
    PROVE  amount - (amount + r - claim) <= cost - s + CMax
OBVIOUS

LEMMA LossHolds == SInv => HonestLosesAtMostOneRequest
<1> SUFFICES ASSUME SInv, NEW c \in honest, notes[c].status = "Closed"
             PROVE  credited[c] <= Charged(c) + CMax
  BY DEF HonestLosesAtMostOneRequest
<1> DEFINE len == Len(acc[c])
           n == exitIndex[c]
<1>1. /\ c \in Commitments /\ TypeInv /\ GateTypes /\ UserTypes
      /\ AccInv(c) /\ UseInv(c) /\ MoneyInv(c) /\ ExitInv(c)
      /\ ClientInv(c) /\ SignalInv(c) /\ ProofInv(c)
  BY DEF SInv, UserTypes, NoteInv, HonestInv
<1>2. /\ len \in Nat /\ notes[c].amount \in Nat /\ credited[c] \in Nat
      /\ opening[c].index \in Nat
  BY <1>1 DEF GateTypes, UserTypes, TypeInv, TypeOK, NoteTypes, NoteType, HistoryTypes
<1>3. n \in Indices /\ n \in Nat /\ n # -1 /\ store[c][n] = ExitSignal
  BY <1>1 DEF ExitInv, Indices
<1>4. PICK m \in 0..opening[c].index :
          n \in {m, m + 1} /\ exits[c].payout = Payout(c, m, n)
  BY <1>1, <1>3 DEF ProofInv
<1>5. m \in Nat /\ m <= len
  BY <1>1, <1>2, <1>4 DEF ClientInv
<1>6. PICK k \in {len, len + 1} :
          /\ Used(c) = 0..k - 1 /\ Cardinality(Used(c)) = k
          /\ k > len => len \in Indices /\ store[c][len] \in RequestSignals
  BY <1>1, UsedPrefix
(* The index the exit spends holds its signal, so no request used it.      *)
<1>7. k <= n
  <2>1. n \notin 0..k - 1
    BY <1>3, <1>6 DEF Used
  <2>2. QED
    BY <1>2, <1>3, <1>6, <2>1
<1>8. credited[c] = notes[c].amount - (notes[c].amount + Refunds(c, m) - n * CMax)
  BY <1>1, <1>4 DEF MoneyInv, Payout
<1>9. Charged(c) = k * CMax - Refunds(c, len)
  BY <1>6 DEF Charged
<1>10. Refunds(c, m) \in Nat /\ Refunds(c, len) \in Nat /\ Refunds(c, m) <= Refunds(c, len)
  BY <1>1, <1>5 DEF AccInv
<1>11. n * CMax \in Nat /\ k * CMax \in Nat
  BY <1>2, <1>4, <1>6, FullPrice
<1>12. CASE len = m
  <2>1. n * CMax <= k * CMax + CMax
    <3>1. k \in Nat /\ n \in {k, k + 1}
      BY <1>2, <1>4, <1>5, <1>6, <1>7, <1>12
    <3>2. (k + 1) * CMax = k * CMax + CMax
      BY <3>1, FullPrice
    <3>3. CASE n = k
      BY <1>11, <3>3
    <3>4. CASE n = k + 1
      BY <1>11, <3>2, <3>4
    <3>5. QED
      BY <3>1, <3>3, <3>4
  <2>2. notes[c].amount - (notes[c].amount + Refunds(c, m) - n * CMax)
           <= k * CMax - Refunds(c, len) + CMax
    BY <1>2, <1>10, <1>11, <1>12, <2>1, Loss, Zenon
  <2>3. QED
    BY <1>8, <1>9, <2>2, Zenon
<1>13. CASE len = m + 1
  <2>1. k = n
    BY <1>2, <1>4, <1>5, <1>6, <1>7, <1>13
  <2>2. Refunds(c, len) <= Refunds(c, m) + CMax
    BY <1>1, <1>2, <1>5, <1>13 DEF AccInv
  <2>3. n * CMax = k * CMax
    BY <2>1
  <2>4. notes[c].amount - (notes[c].amount + Refunds(c, m) - n * CMax)
           <= k * CMax - Refunds(c, len) + CMax
    BY <1>2, <1>10, <1>11, <2>2, <2>3, Loss, Zenon
  <2>5. QED
    BY <1>8, <1>9, <2>4, Zenon
<1>14. len <= n
  BY <1>2, <1>3, <1>6, <1>7
<1>15. QED
  BY <1>2, <1>3, <1>4, <1>5, <1>12, <1>13, <1>14

-----------------------------------------------------------------------------
(* What a step leaves alone *)

LEMMA AccKept ==
    ASSUME NEW c \in Commitments, AccInv(c), acc'[c] = acc[c]
    PROVE  AccInv(c)'
BY DEF AccInv, Refunds

LEMMA UseKept ==
    ASSUME NEW c \in Commitments, UseInv(c),
           acc'[c] = acc[c], store'[c] = store[c], checked'[c] = checked[c],
           serving'[c] = serving[c], notes'[c].amount = notes[c].amount
    PROVE  UseInv(c)'
BY DEF UseInv, Asked, Solvent, Refunds

LEMMA MoneyKept ==
    ASSUME NEW c \in Commitments, MoneyInv(c),
           notes'[c] = notes[c], exits'[c] = exits[c], credited'[c] = credited[c]
    PROVE  MoneyInv(c)'
BY DEF MoneyInv, Bounty

LEMMA ExitKept ==
    ASSUME NEW c \in Commitments, ExitInv(c), now' = now,
           notes'[c] = notes[c], exits'[c] = exits[c], acc'[c] = acc[c],
           store'[c] = store[c], exitIndex'[c] = exitIndex[c],
           c \in ingested' <=> c \in ingested, c \in revealed => c \in revealed'
    PROVE  ExitInv(c)'
BY DEF ExitInv, Payout, Refunds

LEMMA ClientKept ==
    ASSUME NEW c \in Commitments, ClientInv(c),
           acc'[c] = acc[c], opening'[c] = opening[c], notes'[c].amount = notes[c].amount
    PROVE  ClientInv(c)'
BY DEF ClientInv, UsedIndices, Solvent, Refunds

LEMMA SignalKept ==
    ASSUME NEW c \in Commitments, SignalInv(c),
           store'[c] = store[c], checked'[c] = checked[c], opening'[c] = opening[c]
    PROVE  SignalInv(c)'
BY DEF SignalInv

LEMMA ProofKept ==
    ASSUME NEW c \in Commitments, ProofInv(c), acc'[c] = acc[c], opening'[c] = opening[c],
           notes'[c].amount = notes[c].amount, exits'[c] = exits[c],
           proofs'[c] = proofs[c], exitIndex'[c] = exitIndex[c]
    PROVE  ProofInv(c)'
BY DEF ProofInv, UsedIndices, Payout, Refunds

(* A note that a step does not touch.                                      *)
LEMMA NoteKept ==
    ASSUME NEW c \in Commitments, NoteInv(c), now' = now, honest' = honest,
           notes'[c] = notes[c], exits'[c] = exits[c], credited'[c] = credited[c],
           acc'[c] = acc[c], store'[c] = store[c], checked'[c] = checked[c],
           serving'[c] = serving[c], opening'[c] = opening[c], proofs'[c] = proofs[c],
           exitIndex'[c] = exitIndex[c],
           c \in ingested' <=> c \in ingested, c \in revealed' <=> c \in revealed
    PROVE  NoteInv(c)'
<1>1. notes'[c].amount = notes[c].amount /\ notes'[c].status = notes[c].status
  OBVIOUS
<1>2. AccInv(c)' /\ UseInv(c)' /\ MoneyInv(c)' /\ ExitInv(c)'
  BY <1>1, AccKept, UseKept, MoneyKept, ExitKept DEF NoteInv
<1>3. HonestInv(c)'
  BY <1>1, ClientKept, SignalKept, ProofKept DEF NoteInv, HonestInv, StaleExit, UsedIndices
<1>4. QED
  BY <1>2, <1>3 DEF NoteInv

(* A step of a client or of the gateway leaves the contract alone.         *)
LEMMA ContractUntouched ==
    ASSUME UNCHANGED vars
    PROVE  UNCHANGED <<now, notes, exits, credited>>
BY DEF vars, noteVars, histVars

-----------------------------------------------------------------------------
LEMMA SInitInv == SInit => SInv
<1> SUFFICES ASSUME SInit PROVE SInv
  OBVIOUS
<1>1. TypeInv
  BY TypeInit DEF SInit
<1>2. GateTypes
  BY DEF SInit, GateTypes, Signals
<1>3. UserTypes
  BY DEF SInit, UserTypes
<1>4. ASSUME NEW c \in Commitments PROVE NoteInv(c)
  <2>1. /\ acc[c] = << >> /\ Len(acc[c]) = 0 /\ store[c] = [i \in Indices |-> NoSignal]
        /\ checked[c] = {} /\ serving[c] = FALSE
        /\ notes[c].amount = 0 /\ notes[c].status = "None" /\ credited[c] = 0
    BY DEF SInit, Init
  <2>2. /\ opening[c].index = 0 /\ opening[c].pending = NoSignal /\ proofs[c] = {}
        /\ exitIndex[c] = -1 /\ c \notin ingested /\ c \notin revealed
    BY DEF SInit
  <2>3. AccInv(c)
    BY <2>1 DEF AccInv, Refunds
  <2>4. UseInv(c)
    <3>1. \A i \in Indices : ~Asked(c, i) /\ i \in Nat
      BY <2>1 DEF Asked, Indices
    <3>2. QED
      BY <2>1, <3>1 DEF UseInv
  <2>5. MoneyInv(c)
    BY <2>1 DEF MoneyInv
  <2>6. ExitInv(c)
    BY <2>1, <2>2 DEF ExitInv
  <2>7. ClientInv(c)
    BY <2>1, <2>2 DEF ClientInv, UsedIndices
  <2>8. SignalInv(c) /\ ProofInv(c)
    BY <2>1, <2>2 DEF SignalInv, ProofInv
  <2>9. QED
    BY <2>1, <2>2, <2>3, <2>4, <2>5, <2>6, <2>7, <2>8 DEF NoteInv, HonestInv
<1>5. QED
  BY <1>1, <1>2, <1>3, <1>4 DEF SInv

-----------------------------------------------------------------------------
(* The client's steps *)

(* All that the steps of the protocol change of the invariant.             *)
ProtocolInv == GateTypes /\ UserTypes /\ \A c \in Commitments : NoteInv(c)

LEMMA ProveRequestKeeps ==
    ASSUME SInv, NEW c \in Commitments, NEW x \in RequestSignals, ProveRequest(c, x)
    PROVE  ProtocolInv'
<1>1. /\ UNCHANGED <<now, notes, exits, credited>>
      /\ UNCHANGED <<store, checked, serving, acc, ingested, revealed>>
      /\ UNCHANGED <<honest, proofs, exitIndex>>
  BY ContractUntouched DEF ProveRequest, gateVars
<1>2. /\ opening \in [Commitments -> [index : Nat, pending : RequestSignals \cup {NoSignal}]]
      /\ opening' = [opening EXCEPT ![c].pending = x]
  BY DEF SInv, UserTypes, ProveRequest
<1>3. /\ opening'[c].index = opening[c].index /\ opening'[c].pending = x
      /\ \A d \in Commitments \ {c} : opening'[d] = opening[d]
      /\ opening' \in [Commitments -> [index : Nat, pending : RequestSignals \cup {NoSignal}]]
  BY <1>2
<1>4. GateTypes' /\ UserTypes'
  BY <1>1, <1>3 DEF SInv, GateTypes, UserTypes
<1>5. ASSUME NEW d \in Commitments \ {c} PROVE NoteInv(d)'
  BY <1>1, <1>3, NoteKept DEF SInv
<1>6. NoteInv(c)'
  <2>1. /\ AccInv(c) /\ UseInv(c) /\ MoneyInv(c) /\ ExitInv(c)
        /\ c \in honest /\ ClientInv(c) /\ SignalInv(c) /\ ProofInv(c)
        /\ notes[c].status = "Active"
        /\ c \in revealed \/ notes[c].status = "Slashed" => StaleExit(c)
    BY DEF SInv, NoteInv, HonestInv, ProveRequest
  <2>0. exitIndex[c] = -1 /\ c \notin revealed
    BY <2>1 DEF ExitInv, StaleExit
  <2>2. /\ opening[c].pending = NoSignal
        /\ opening[c].index \in Indices /\ opening[c].index \in Nat /\ Solvent(c, opening[c].index)
    BY <1>2 DEF ProveRequest, RequestProvable
  <2>3. AccInv(c)' /\ UseInv(c)' /\ MoneyInv(c)' /\ ExitInv(c)'
    BY <1>1, <2>1, AccKept, UseKept, MoneyKept, ExitKept
  <2>4. Len(acc[c]) \in Nat
    BY DEF SInv, GateTypes
  <2>5. ClientInv(c)'
    BY <1>1, <1>3, <2>1, <2>2, <2>4 DEF ClientInv, UsedIndices, Solvent, Refunds
  <2>6. SignalInv(c)'
    BY <1>1, <1>3, <2>1, <2>2 DEF SignalInv
  <2>7. ProofInv(c)'
    BY <1>1, <1>3, <2>0, <2>1, <2>2 DEF ProofInv, Payout, Refunds
  <2>8. QED
    BY <1>1, <2>0, <2>1, <2>3, <2>5, <2>6, <2>7 DEF NoteInv, HonestInv
<1>7. QED
  BY <1>4, <1>5, <1>6 DEF ProtocolInv

LEMMA ReceiveKeeps ==
    ASSUME SInv, NEW c \in Commitments, Receive(c)
    PROVE  ProtocolInv'
<1>1. /\ UNCHANGED <<now, notes, exits, credited>>
      /\ UNCHANGED <<store, checked, serving, acc, ingested, revealed>>
      /\ UNCHANGED <<honest, proofs, exitIndex>>
  BY ContractUntouched DEF Receive, gateVars
<1>2. /\ opening \in [Commitments -> [index : Nat, pending : RequestSignals \cup {NoSignal}]]
      /\ opening' = [opening EXCEPT ![c] =
             [index |-> opening[c].index + 1, pending |-> NoSignal]]
  BY DEF SInv, UserTypes, Receive
<1>3. /\ opening'[c].index = opening[c].index + 1 /\ opening'[c].pending = NoSignal
      /\ \A d \in Commitments \ {c} : opening'[d] = opening[d]
      /\ opening' \in [Commitments -> [index : Nat, pending : RequestSignals \cup {NoSignal}]]
  BY <1>2
<1>4. GateTypes' /\ UserTypes'
  BY <1>1, <1>3 DEF SInv, GateTypes, UserTypes
<1>5. ASSUME NEW d \in Commitments \ {c} PROVE NoteInv(d)'
  BY <1>1, <1>3, NoteKept DEF SInv
<1>6. NoteInv(c)'
  <2>1. /\ AccInv(c) /\ UseInv(c) /\ MoneyInv(c) /\ ExitInv(c)
        /\ c \in honest /\ ClientInv(c) /\ SignalInv(c) /\ ProofInv(c)
        /\ c \in revealed \/ notes[c].status = "Slashed" => StaleExit(c)
    BY DEF SInv, NoteInv, HonestInv, Receive
  <2>2. /\ opening[c].pending # NoSignal /\ opening[c].index < Len(acc[c])
        /\ opening[c].index \in Nat /\ Len(acc[c]) \in Nat
    BY <1>2 DEF Receive, SInv, GateTypes
  <2>3. AccInv(c)' /\ UseInv(c)' /\ MoneyInv(c)' /\ ExitInv(c)'
    BY <1>1, <2>1, AccKept, UseKept, MoneyKept, ExitKept
  <2>4. UsedIndices(c)' = UsedIndices(c) /\ UsedIndices(c) = opening[c].index + 1
    BY <1>3, <2>2 DEF UsedIndices
  <2>5. ClientInv(c)'
    BY <1>1, <1>3, <2>1, <2>2, <2>4 DEF ClientInv
  <2>6. store[c][opening[c].index] = opening[c].pending
    BY <2>1, <2>2 DEF UseInv, SignalInv, ClientInv
  <2>7. SignalInv(c)'
    <3>1. \A i \in Indices : i \in Nat
      BY DEF Indices
    <3>2. QED
      BY <1>1, <1>3, <2>1, <2>2, <2>6, <3>1 DEF SignalInv
  <2>8. ProofInv(c)'
    BY <1>1, <1>3, <2>1, <2>2, <2>4 DEF ProofInv, Payout, Refunds
  <2>9. QED
    BY <1>1, <2>1, <2>3, <2>4, <2>5, <2>7, <2>8 DEF NoteInv, HonestInv, StaleExit
<1>7. QED
  BY <1>4, <1>5, <1>6 DEF ProtocolInv

LEMMA ProveWithdrawalKeeps ==
    ASSUME SInv, NEW c \in Commitments, ProveWithdrawal(c)
    PROVE  ProtocolInv'
<1> DEFINE claim == [m |-> opening[c].index, n |-> UsedIndices(c)]
<1>1. /\ UNCHANGED <<now, notes, exits, credited>>
      /\ UNCHANGED <<store, checked, serving, acc, ingested, revealed>>
      /\ UNCHANGED <<honest, opening, exitIndex>>
  BY ContractUntouched DEF ProveWithdrawal, gateVars
<1>2. /\ proofs \in [Commitments -> SUBSET [m : Nat, n : Nat]] /\ opening[c].index \in Nat
      /\ UsedIndices(c) \in {opening[c].index, opening[c].index + 1}
      /\ proofs' = [proofs EXCEPT ![c] = @ \cup {claim}]
  BY DEF SInv, UserTypes, ProveWithdrawal, UsedIndices
<1>3. /\ proofs'[c] = proofs[c] \cup {claim}
      /\ claim \in [m : Nat, n : Nat]
      /\ \A d \in Commitments \ {c} : proofs'[d] = proofs[d]
      /\ proofs' \in [Commitments -> SUBSET [m : Nat, n : Nat]]
  BY <1>2
<1>4. GateTypes' /\ UserTypes'
  BY <1>1, <1>3 DEF SInv, GateTypes, UserTypes
<1>5. ASSUME NEW d \in Commitments \ {c} PROVE NoteInv(d)'
  BY <1>1, <1>3, NoteKept DEF SInv
<1>6. NoteInv(c)'
  <2>1. /\ AccInv(c) /\ UseInv(c) /\ MoneyInv(c) /\ ExitInv(c)
        /\ c \in honest /\ ClientInv(c) /\ SignalInv(c) /\ ProofInv(c)
        /\ c \in revealed \/ notes[c].status = "Slashed" => StaleExit(c)
    BY DEF SInv, NoteInv, HonestInv, ProveWithdrawal
  <2>2. AccInv(c)' /\ UseInv(c)' /\ MoneyInv(c)' /\ ExitInv(c)' /\ ClientInv(c)' /\ SignalInv(c)'
    BY <1>1, <2>1, AccKept, UseKept, MoneyKept, ExitKept, ClientKept, SignalKept
  <2>3. /\ UsedIndices(c) \in Indices /\ Payout(c, opening[c].index, UsedIndices(c)) >= 0
        /\ exitIndex[c] = -1
    BY <2>1 DEF ProveWithdrawal, ClaimProvable, ExitInv
  <2>4. StaleExit(c)' <=> StaleExit(c)
    BY <1>1 DEF StaleExit, UsedIndices
  <2>5. ASSUME NEW p \in proofs'[c]
        PROVE  /\ p.m \in 0..opening[c].index
               /\ p.n \in Indices /\ p.n \in {p.m, p.m + 1}
               /\ Payout(c, p.m, p.n)' >= 0
    <3>1. Payout(c, p.m, p.n)' = Payout(c, p.m, p.n)
      BY <1>1 DEF Payout, Refunds
    <3>2. CASE p \in proofs[c]
      BY <2>1, <3>1, <3>2 DEF ProofInv
    <3>3. CASE p = claim
      <4>1. p.m = opening[c].index /\ p.n = UsedIndices(c)
        BY <3>3
      <4>2. QED
        BY <1>2, <2>3, <3>1, <4>1
    <3>4. QED
      BY <1>3, <3>2, <3>3
  <2>6. ProofInv(c)'
    BY <1>1, <2>3, <2>5 DEF ProofInv
  <2>7. QED
    BY <1>1, <2>1, <2>2, <2>4, <2>6 DEF NoteInv, HonestInv
<1>7. QED
  BY <1>4, <1>5, <1>6 DEF ProtocolInv

-----------------------------------------------------------------------------
(* The gateway's steps *)

LEMMA VerifyKeeps ==
    ASSUME SInv, NEW c \in Commitments, NEW i \in Indices, NEW x \in RequestSignals,
           Verify(c, i, x)
    PROVE  ProtocolInv'
<1>1. /\ UNCHANGED <<now, notes, exits, credited>>
      /\ UNCHANGED <<store, serving, acc, ingested, revealed>>
      /\ UNCHANGED <<honest, opening, proofs, exitIndex>>
  BY ContractUntouched DEF Verify, userVars
<1>2. /\ checked \in [Commitments -> SUBSET (Indices \X RequestSignals)]
      /\ checked' = [checked EXCEPT ![c] = @ \cup {<<i, x>>}]
  BY DEF SInv, GateTypes, Verify
<1>3. /\ checked'[c] = checked[c] \cup {<<i, x>>}
      /\ \A d \in Commitments \ {c} : checked'[d] = checked[d]
      /\ checked' \in [Commitments -> SUBSET (Indices \X RequestSignals)]
  BY <1>2
<1>4. GateTypes' /\ UserTypes'
  BY <1>1, <1>3 DEF SInv, GateTypes, UserTypes
<1>5. ASSUME NEW d \in Commitments \ {c} PROVE NoteInv(d)'
  BY <1>1, <1>3, NoteKept DEF SInv
<1>6. NoteInv(c)'
  <2>1. /\ AccInv(c) /\ UseInv(c) /\ MoneyInv(c) /\ ExitInv(c) /\ HonestInv(c)
    BY DEF SInv, NoteInv
  <2>2. AccInv(c)' /\ MoneyInv(c)' /\ ExitInv(c)'
    BY <1>1, <2>1, AccKept, MoneyKept, ExitKept
  <2>3. i <= Len(acc[c]) /\ Solvent(c, i)
    <3>1. CASE c \notin honest
      BY <3>1 DEF Verify, Sends, RequestProvable, Opens
    <3>2. CASE c \in honest
      BY <2>1, <3>2 DEF Verify, Sends, HonestInv, ClientInv
    <3>3. QED
      BY <3>1, <3>2
  <2>4. \A j \in Indices : Asked(c, j)' => Asked(c, j) \/ j = i
    BY <1>1, <1>3 DEF Asked
  <2>5. \A j \in Indices : Solvent(c, j)' <=> Solvent(c, j)
    BY <1>1 DEF Solvent, Refunds
  <2>6. UseInv(c)'
    <3>1. \A j \in Indices : Asked(c, j)' => j <= Len(acc[c]) /\ Solvent(c, j)'
      BY <2>1, <2>3, <2>4, <2>5 DEF UseInv
    <3>2. QED
      BY <1>1, <2>1, <3>1 DEF UseInv
  <2>7. ASSUME c \in honest PROVE SignalInv(c)'
    <3>1. /\ i = opening[c].index /\ x = opening[c].pending
          /\ ClientInv(c) /\ SignalInv(c) /\ ProofInv(c)
      BY <2>1, <2>7 DEF Verify, Sends, HonestInv
    <3>3. store[c][i] \in Signals
      BY DEF SInv, GateTypes
    <3>4. store[c][i] = x \/ store[c][i] \in {NoSignal, ExitSignal}
      BY <3>1, <3>3 DEF SignalInv, Signals, Indices
    <3>5. ASSUME NEW j \in Indices, NEW y \in RequestSignals, <<j, y>> \in checked'[c]
          PROVE  \/ store[c][j] = y
                 \/ /\ store[c][j] \in {NoSignal, ExitSignal}
                    /\ j = opening[c].index /\ y = opening[c].pending
      BY <1>3, <3>1, <3>4, <3>5 DEF SignalInv
    <3>6. QED
      BY <1>1, <3>1, <3>5 DEF SignalInv
  <2>8. HonestInv(c)'
    BY <1>1, <2>1, <2>7, ClientKept, ProofKept DEF HonestInv, StaleExit, UsedIndices
  <2>9. QED
    BY <2>2, <2>6, <2>8 DEF NoteInv
<1>7. QED
  BY <1>4, <1>5, <1>6 DEF ProtocolInv

LEMMA RecordKeeps ==
    ASSUME SInv, NEW c \in Commitments, NEW i \in Indices, NEW x \in RequestSignals,
           Record(c, i, x)
    PROVE  ProtocolInv'
<1>1. /\ UNCHANGED <<now, notes, exits, credited>>
      /\ UNCHANGED <<acc, ingested>>
      /\ UNCHANGED <<honest, opening, proofs, exitIndex>>
  BY ContractUntouched DEF Record, userVars
<1>2. /\ checked \in [Commitments -> SUBSET (Indices \X RequestSignals)]
      /\ store \in [Commitments -> [Indices -> Signals]]
      /\ serving \in [Commitments -> BOOLEAN]
      /\ revealed \subseteq Commitments
  BY DEF SInv, GateTypes
<1>3. /\ <<i, x>> \in checked[c]
      /\ checked' = [checked EXCEPT ![c] = @ \ {<<i, x>>}]
  BY DEF Record
<1>4. /\ checked'[c] = checked[c] \ {<<i, x>>}
      /\ \A d \in Commitments \ {c} : checked'[d] = checked[d]
      /\ checked' \in [Commitments -> SUBSET (Indices \X RequestSignals)]
  BY <1>2, <1>3
<1>5. /\ AccInv(c) /\ UseInv(c) /\ MoneyInv(c) /\ ExitInv(c) /\ HonestInv(c)
  BY DEF SInv, NoteInv
<1>6. AccInv(c)' /\ MoneyInv(c)'
  BY <1>1, <1>5, AccKept, MoneyKept
<1>7. i <= Len(acc[c]) /\ Solvent(c, i) /\ i \in Nat /\ Len(acc[c]) \in Nat
  <2>1. Asked(c, i)
    BY <1>3 DEF Asked
  <2>2. i \in Nat /\ Len(acc[c]) \in Nat
    BY DEF Indices, SInv, GateTypes
  <2>3. QED
    BY <1>5, <2>1, <2>2 DEF UseInv
<1>8. \A j \in Indices : Solvent(c, j)' <=> Solvent(c, j)
  BY <1>1 DEF Solvent, Refunds
<1>9. CASE store[c][i] = NoSignal
  <2>1. /\ store' = [store EXCEPT ![c][i] = x]
        /\ serving' = [serving EXCEPT ![c] = TRUE]
        /\ revealed' = revealed
    BY <1>9 DEF Record
  <2>2. /\ store'[c][i] = x /\ \A j \in Indices \ {i} : store'[c][j] = store[c][j]
        /\ serving'[c] = TRUE
        /\ \A d \in Commitments \ {c} : store'[d] = store[d] /\ serving'[d] = serving[d]
        /\ store' \in [Commitments -> [Indices -> Signals]]
        /\ serving' \in [Commitments -> BOOLEAN]
    BY <1>2, <2>1 DEF Signals
  <2>3. GateTypes' /\ UserTypes'
    BY <1>1, <1>4, <2>1, <2>2 DEF SInv, GateTypes, UserTypes
  <2>4. ASSUME NEW d \in Commitments \ {c} PROVE NoteInv(d)'
    BY <1>1, <1>4, <2>1, <2>2, NoteKept DEF SInv
  <2>5. Len(acc[c]) = i
    BY <1>5, <1>7, <1>9 DEF UseInv
  <2>6. UseInv(c)'
    <3>1. \A j \in Indices : Asked(c, j)' => Asked(c, j) \/ j = i
      BY <1>4, <2>2 DEF Asked
    <3>2. \A j \in Indices : Asked(c, j)' => j <= Len(acc[c]) /\ Solvent(c, j)'
      BY <1>5, <1>7, <1>8, <3>1 DEF UseInv
    <3>3. QED
      BY <1>1, <1>5, <2>2, <2>5, <3>2 DEF UseInv
  <2>7. ExitInv(c)'
    <3>1. \A j \in Indices : store'[c][j] = ExitSignal <=> store[c][j] = ExitSignal
      BY <1>9, <2>2
    <3>2. exitIndex[c] \in Indices \cup {-1}
      BY DEF SInv, UserTypes
    <3>3. /\ c \in ingested =>
                exitIndex[c] \in Indices /\ (store[c][exitIndex[c]] = ExitSignal \/ c \in revealed)
          /\ notes[c].status \in {"Exiting", "Closed"} => exitIndex[c] \in Indices
      BY <1>5, <3>2 DEF ExitInv
    <3>4. QED
      BY <1>1, <1>5, <2>1, <3>1, <3>3 DEF ExitInv, Payout, Refunds, Indices
  <2>8. ASSUME c \in honest PROVE SignalInv(c)'
    <3>1. SignalInv(c) /\ i = opening[c].index /\ x = opening[c].pending
      BY <1>3, <1>5, <1>9, <2>8 DEF HonestInv, SignalInv
    <3>2. ASSUME NEW j \in Indices, NEW y \in RequestSignals, <<j, y>> \in checked'[c]
          PROVE  \/ store'[c][j] = y
                 \/ /\ store'[c][j] \in {NoSignal, ExitSignal}
                    /\ j = opening[c].index /\ y = opening[c].pending
      <4>1. <<j, y>> \in checked[c]
        BY <1>4, <3>2
      <4>2. \/ store[c][j] = y
            \/ /\ store[c][j] \in {NoSignal, ExitSignal}
               /\ j = opening[c].index /\ y = opening[c].pending
        BY <3>1, <4>1 DEF SignalInv
      <4>3. CASE j = i
        BY <1>9, <2>2, <3>1, <4>2, <4>3
      <4>4. CASE j # i
        BY <2>2, <4>2, <4>4
      <4>5. QED
        BY <4>3, <4>4
    <3>3. \A j \in Indices : store'[c][j] \in RequestSignals =>
              j < opening[c].index \/ (j = opening[c].index /\ store'[c][j] = opening[c].pending)
      BY <2>2, <3>1 DEF SignalInv
    <3>4. QED
      BY <1>1, <3>2, <3>3 DEF SignalInv
  <2>9. HonestInv(c)'
    BY <1>1, <1>5, <2>1, <2>8, ClientKept, ProofKept DEF HonestInv, StaleExit, UsedIndices
  <2>10. QED
    BY <1>6, <2>3, <2>4, <2>6, <2>7, <2>9 DEF ProtocolInv, NoteInv
<1>10. CASE store[c][i] # NoSignal
  <2>1. /\ UNCHANGED <<store, serving>>
        /\ revealed' = revealed \/ (revealed' = revealed \cup {c} /\ store[c][i] # x)
    BY <1>10 DEF Record
  <2>2. GateTypes' /\ UserTypes'
    BY <1>1, <1>2, <1>4, <2>1 DEF SInv, GateTypes, UserTypes
  <2>3. ASSUME NEW d \in Commitments \ {c} PROVE NoteInv(d)'
    BY <1>1, <1>4, <2>1, NoteKept DEF SInv
  <2>4. UseInv(c)'
    <3>1. \A j \in Indices : Asked(c, j)' => Asked(c, j)
      BY <1>4, <2>1 DEF Asked
    <3>2. \A j \in Indices : Asked(c, j)' => j <= Len(acc[c]) /\ Solvent(c, j)'
      BY <1>5, <1>8, <3>1 DEF UseInv
    <3>3. QED
      BY <1>1, <1>5, <2>1, <3>2 DEF UseInv
  <2>5. ExitInv(c)'
    BY <1>1, <1>5, <2>1, ExitKept
  <2>6. HonestInv(c)'
    <3> SUFFICES ASSUME c \in honest
                 PROVE  /\ c \in revealed' \/ notes'[c].status = "Slashed" => StaleExit(c)'
                        /\ ClientInv(c)' /\ SignalInv(c)' /\ ProofInv(c)'
      BY <1>1 DEF HonestInv
    <3>1. /\ c \in revealed \/ notes[c].status = "Slashed" => StaleExit(c)
          /\ ClientInv(c) /\ SignalInv(c) /\ ProofInv(c)
      BY <1>5 DEF HonestInv
    <3>2. ASSUME store[c][i] # x PROVE StaleExit(c)
      <4>1. store[c][i] = ExitSignal /\ i = opening[c].index /\ x = opening[c].pending
        BY <1>3, <1>10, <3>1, <3>2 DEF SignalInv
      <4>2. exitIndex[c] = i /\ i # -1
        BY <1>5, <1>7, <4>1 DEF ExitInv
      <4>3. UsedIndices(c) = i + 1
        BY <4>1 DEF UsedIndices
      <4>4. QED
        BY <1>7, <4>2, <4>3 DEF StaleExit
    <3>3. SignalInv(c)'
      BY <1>1, <1>4, <2>1, <3>1 DEF SignalInv
    <3>4. StaleExit(c)' <=> StaleExit(c)
      BY <1>1 DEF StaleExit, UsedIndices
    <3>5. QED
      BY <1>1, <2>1, <3>1, <3>2, <3>3, <3>4, ClientKept, ProofKept
  <2>7. QED
    BY <1>6, <2>2, <2>3, <2>4, <2>5, <2>6 DEF ProtocolInv, NoteInv
<1>11. QED
  BY <1>9, <1>10

LEMMA AnswerKeeps ==
    ASSUME SInv, NEW c \in Commitments, NEW v \in RefundRange, Answer(c, v)
    PROVE  ProtocolInv'
<1>len. PICK len \in Nat : len = Len(acc[c])
  BY DEF SInv, GateTypes
<1> DEFINE next == Refunds(c, len) + v
           R(i) == IF i = 0 THEN 0 ELSE acc'[c][i]  \* the refunds after this step
<1>1. /\ UNCHANGED <<now, notes, exits, credited>>
      /\ UNCHANGED <<store, checked, ingested, revealed>>
      /\ UNCHANGED <<honest, opening, proofs, exitIndex>>
  BY ContractUntouched DEF Answer, userVars
<1>2. acc \in [Commitments -> Seq(Nat)] /\ serving \in [Commitments -> BOOLEAN]
      /\ v \in 0..CMax
  BY DEF SInv, GateTypes, RefundRange
<1>3. /\ AccInv(c) /\ UseInv(c) /\ MoneyInv(c) /\ ExitInv(c) /\ HonestInv(c)
  BY DEF SInv, NoteInv
<1>4. /\ serving[c] /\ serving' = [serving EXCEPT ![c] = FALSE]
      /\ acc' = [acc EXCEPT ![c] = Append(acc[c], next)]
  BY <1>len DEF Answer
<1>5. Refunds(c, len) \in Nat /\ next \in Nat
  BY <1>len, <1>2, <1>3 DEF AccInv
<1> HIDE DEF next
<1>6. /\ acc'[c] = Append(acc[c], next) /\ serving'[c] = FALSE
      /\ \A d \in Commitments \ {c} : acc'[d] = acc[d] /\ serving'[d] = serving[d]
      /\ acc' \in [Commitments -> Seq(Nat)] /\ serving' \in [Commitments -> BOOLEAN]
  BY <1>2, <1>4, <1>5
<1>7. /\ Len(acc'[c]) = len + 1 /\ acc'[c][len + 1] = next
      /\ \A i \in 1..len : acc'[c][i] = acc[c][i]
  BY <1>len, <1>2, <1>5, <1>6, AppendProperties
<1>8. /\ \A i \in 0..len : R(i) = Refunds(c, i)
      /\ R(len + 1) = next
  BY <1>7 DEF Refunds
<1>r. \A i \in Int : Refunds(c, i)' = R(i)
  BY DEF Refunds
<1> HIDE DEF R
<1>9. GateTypes' /\ UserTypes'
  BY <1>1, <1>6 DEF SInv, GateTypes, UserTypes
<1>10. ASSUME NEW d \in Commitments \ {c} PROVE NoteInv(d)'
  BY <1>1, <1>6, NoteKept DEF SInv
<1>11. len \in Indices /\ store[c][len] \in RequestSignals /\ len < MaxIndex
  BY <1>len, <1>3, <1>4 DEF UseInv, Indices
<1>12. AccInv(c)'
  <2>1. next <= (len + 1) * CMax
    <3>1. Refunds(c, len) <= len * CMax /\ len * CMax \in Nat
          /\ (len + 1) * CMax = len * CMax + CMax
      BY <1>len, <1>3, FullPrice DEF AccInv
    <3>2. QED
      BY <1>2, <1>5, <3>1 DEF next
  <2>2. \A i \in 0..len + 1 : i \in 0..len \/ i = len + 1
    BY <1>2
  <2>3. \A i \in 0..len + 1 : R(i) \in Nat /\ R(i) <= i * CMax
    <3> TAKE i \in 0..len + 1
    <3>1. CASE i \in 0..len
      BY <1>len, <1>3, <1>8, <3>1 DEF AccInv
    <3>2. CASE i = len + 1
      BY <1>5, <1>8, <2>1, <3>2
    <3>3. QED
      BY <2>2, <3>1, <3>2
  <2>4. \A i \in 0..len : Refunds(c, i) <= Refunds(c, len) /\ Refunds(c, i) \in Nat
    BY <1>len, <1>3 DEF AccInv
  <2>5. \A i \in 0..len : Refunds(c, i) <= next
    BY <1>2, <1>5, <2>4 DEF next
  <2>6. \A i, j \in 0..len + 1 : i <= j => R(i) <= R(j)
    <3> TAKE i, j \in 0..len + 1
    <3> HAVE i <= j
    <3>1. CASE j \in 0..len
      <4>1. i \in 0..len
        BY <1>2, <3>1
      <4>2. QED
        BY <1>len, <1>3, <1>8, <3>1, <4>1 DEF AccInv
    <3>2. CASE j = len + 1 /\ i \in 0..len
      BY <1>8, <2>5, <3>2
    <3>3. CASE j = len + 1 /\ i = len + 1
      BY <1>5, <1>8, <3>3
    <3>4. QED
      BY <2>2, <3>1, <3>2, <3>3
  <2>7. \A i \in 0..(len + 1) - 1 : R(i + 1) <= R(i) + CMax
    <3> TAKE i \in 0..(len + 1) - 1
    <3>1. i \in 0..len
      BY <1>2
    <3>2. CASE i = len
      BY <1>2, <1>5, <1>8, <3>1, <3>2 DEF next
    <3>3. CASE i # len
      <4>1. i \in 0..len - 1 /\ i + 1 \in 0..len
        BY <1>2, <3>1, <3>3
      <4>2. QED
        BY <1>len, <1>3, <1>8, <3>1, <4>1 DEF AccInv
    <3>4. QED
      BY <3>2, <3>3
  <2>8. QED
    BY <1>7, <1>r, <2>3, <2>6, <2>7 DEF AccInv
<1>13. \A i \in Indices : i <= len => (Solvent(c, i) => Solvent(c, i)')
  <2> TAKE i \in Indices
  <2> HAVE i <= len
  <2>1. Refunds(c, i)' = Refunds(c, i)
    BY <1>8, <1>r DEF Indices
  <2>2. QED
    BY <1>1, <2>1 DEF Solvent
<1>14. UseInv(c)'
  <2>1. \A i \in Indices : Asked(c, i)' <=> Asked(c, i)
    BY <1>1 DEF Asked
  <2>2. \A i \in Indices : Asked(c, i)' => i <= len + 1 /\ Solvent(c, i)'
    BY <1>len, <1>3, <1>13, <2>1 DEF UseInv, Indices
  <2>3. \A i \in Indices : i < len + 1 => store[c][i] \in RequestSignals
    BY <1>len, <1>3, <1>11 DEF UseInv, Indices
  <2>4. QED
    BY <1>1, <1>2, <1>6, <1>7, <1>11, <2>2, <2>3 DEF UseInv
<1>15. MoneyInv(c)'
  BY <1>1, <1>3, MoneyKept
<1>16. ExitInv(c)'
  <2>1. notes[c].status \in {"Exiting", "Closed"} =>
            \E m \in 0..len + 1 :
                m <= exitIndex[c] /\ exits[c].payout = Payout(c, m, exitIndex[c])'
    <3> HAVE notes[c].status \in {"Exiting", "Closed"}
    <3>1. PICK m \in 0..len : m <= exitIndex[c] /\ exits[c].payout = Payout(c, m, exitIndex[c])
      BY <1>len, <1>3 DEF ExitInv
    <3>2. Refunds(c, m)' = Refunds(c, m)
      BY <1>8, <1>r
    <3>3. Payout(c, m, exitIndex[c])' = Payout(c, m, exitIndex[c])
      BY <1>1, <3>2 DEF Payout
    <3>4. QED
      BY <3>1, <3>3
  <2>2. QED
    BY <1>1, <1>3, <1>7, <2>1 DEF ExitInv
<1>17. ASSUME c \in honest
       PROVE  ClientInv(c)' /\ SignalInv(c)' /\ ProofInv(c)'
  <2>1. ClientInv(c) /\ SignalInv(c) /\ ProofInv(c) /\ opening[c].index \in Nat
    BY <1>3, <1>17 DEF HonestInv, SInv, UserTypes
  <2>2. len = opening[c].index /\ opening[c].pending # NoSignal
    BY <1>len, <1>11, <2>1 DEF ClientInv, SignalInv
  <2>3. UsedIndices(c)' = UsedIndices(c) /\ UsedIndices(c) = len + 1
    BY <1>1, <2>2 DEF UsedIndices
  <2>4. ClientInv(c)'
    BY <1>1, <1>7, <1>13, <2>1, <2>2, <2>3 DEF ClientInv
  <2>5. SignalInv(c)'
    BY <1>1, <2>1, SignalKept
  <2>6. \A p \in proofs[c] : Payout(c, p.m, p.n)' = Payout(c, p.m, p.n)
    <3> TAKE p \in proofs[c]
    <3>1. PICK m \in 0..len : m = p.m
      BY <2>1, <2>2 DEF ProofInv
    <3>2. Refunds(c, m)' = Refunds(c, m)
      BY <1>8, <1>r
    <3>3. Refunds(c, p.m)' = Refunds(c, p.m)
      BY <1>1, <3>1, <3>2 DEF Refunds
    <3>4. QED
      BY <1>1, <3>3 DEF Payout
  <2>7. ProofInv(c)'
    BY <1>1, <2>1, <2>6 DEF ProofInv
  <2>8. QED
    BY <2>4, <2>5, <2>7
<1>18. HonestInv(c)'
  BY <1>1, <1>3, <1>17 DEF HonestInv, StaleExit, UsedIndices
<1>19. QED
  BY <1>9, <1>10, <1>12, <1>14, <1>15, <1>16, <1>18 DEF ProtocolInv, NoteInv

LEMMA DropKeeps ==
    ASSUME SInv, NEW c \in Commitments, Drop(c)
    PROVE  ProtocolInv'
<1>1. /\ UNCHANGED <<now, notes, exits, credited>>
      /\ UNCHANGED <<store, checked, acc, ingested, revealed>>
      /\ UNCHANGED <<honest, opening, proofs, exitIndex>>
  BY ContractUntouched DEF Drop, userVars
<1>2. /\ serving'[c] = FALSE /\ \A d \in Commitments \ {c} : serving'[d] = serving[d]
      /\ serving' \in [Commitments -> BOOLEAN]
  BY DEF SInv, GateTypes, Drop
<1>3. GateTypes' /\ UserTypes'
  BY <1>1, <1>2 DEF SInv, GateTypes, UserTypes
<1>4. ASSUME NEW d \in Commitments \ {c} PROVE NoteInv(d)'
  BY <1>1, <1>2, NoteKept DEF SInv
<1>5. AccInv(c) /\ UseInv(c) /\ MoneyInv(c) /\ ExitInv(c) /\ HonestInv(c)
  BY DEF SInv, NoteInv
<1>6. AccInv(c)' /\ MoneyInv(c)' /\ ExitInv(c)'
  BY <1>1, <1>5, AccKept, MoneyKept, ExitKept
<1>7. UseInv(c)'
  BY <1>1, <1>2, <1>5 DEF UseInv, Asked, Solvent, Refunds
<1>8. HonestInv(c)'
  BY <1>1, <1>5, ClientKept, SignalKept, ProofKept DEF HonestInv, StaleExit, UsedIndices
<1>9. QED
  BY <1>3, <1>4, <1>6, <1>7, <1>8 DEF ProtocolInv, NoteInv

LEMMA IngestKeeps ==
    ASSUME SInv, NEW c \in Commitments, IngestExit(c)
    PROVE  ProtocolInv'
<1> DEFINE n == exitIndex[c]
<1>1. /\ UNCHANGED <<now, notes, exits, credited>>
      /\ UNCHANGED <<checked, serving, acc>>
      /\ UNCHANGED <<honest, opening, proofs, exitIndex>>
  BY ContractUntouched DEF IngestExit, userVars
<1>2. /\ store \in [Commitments -> [Indices -> Signals]]
      /\ ingested \subseteq Commitments /\ revealed \subseteq Commitments
      /\ n \in Indices
  BY DEF SInv, GateTypes, UserTypes, IngestExit
<1>3. AccInv(c) /\ UseInv(c) /\ MoneyInv(c) /\ ExitInv(c) /\ HonestInv(c)
  BY DEF SInv, NoteInv
<1>4. /\ store' = IF store[c][n] = NoSignal THEN [store EXCEPT ![c][n] = ExitSignal] ELSE store
      /\ revealed' = IF store[c][n] \in RequestSignals THEN revealed \cup {c} ELSE revealed
      /\ ingested' = ingested \cup {c}
  BY DEF IngestExit
<1>5. /\ \A d \in Commitments \ {c} : store'[d] = store[d]
      /\ \A i \in Indices \ {n} : store'[c][i] = store[c][i]
      /\ store[c][n] = NoSignal => store'[c][n] = ExitSignal
      /\ store[c][n] # NoSignal => store'[c][n] = store[c][n]
      /\ store' \in [Commitments -> [Indices -> Signals]]
  BY <1>2, <1>4 DEF Signals
<1> HIDE DEF n
<1>6. GateTypes' /\ UserTypes'
  <2>1. ingested' \subseteq Commitments /\ revealed' \subseteq Commitments
    BY <1>2, <1>4
  <2>2. QED
    BY <1>1, <1>5, <2>1 DEF SInv, GateTypes, UserTypes
<1>7. ASSUME NEW d \in Commitments \ {c} PROVE NoteInv(d)'
  <2>1. (d \in ingested' <=> d \in ingested) /\ (d \in revealed' <=> d \in revealed)
    BY <1>4
  <2>2. QED
    BY <1>1, <1>5, <2>1, NoteKept DEF SInv
<1>8. AccInv(c)' /\ MoneyInv(c)'
  BY <1>1, <1>3, AccKept, MoneyKept
<1>9. \A i \in Indices : store'[c][i] \in RequestSignals <=> store[c][i] \in RequestSignals
  BY <1>5
<1>10. UseInv(c)'
  <2>1. \A i \in Indices : Asked(c, i)' <=> Asked(c, i)
    BY <1>1, <1>9 DEF Asked
  <2>2. \A i \in Indices : Solvent(c, i)' <=> Solvent(c, i)
    BY <1>1 DEF Solvent, Refunds
  <2>3. QED
    BY <1>1, <1>3, <1>9, <2>1, <2>2 DEF UseInv
<1>11. ExitInv(c)'
  <2>1. \A i \in Indices : store'[c][i] = ExitSignal => store[c][i] = ExitSignal \/ i = n
    BY <1>5
  <2>2. store[c][n] = ExitSignal => store'[c][n] = ExitSignal
    BY <1>5
  <2>3. store'[c][n] = ExitSignal \/ c \in revealed'
    <3>1. store[c][n] \in Signals
      BY <1>2
    <3>2. QED
      BY <1>4, <1>5, <3>1 DEF Signals
  <2>4. n # -1
    BY <1>2 DEF Indices
  <2>5. QED
    BY <1>1, <1>3, <2>1, <2>2, <2>3, <2>4 DEF ExitInv, Payout, Refunds, n
<1>12. HonestInv(c)'
  <2> SUFFICES ASSUME c \in honest
               PROVE  /\ c \in revealed' \/ notes'[c].status = "Slashed" => StaleExit(c)'
                      /\ ClientInv(c)' /\ SignalInv(c)' /\ ProofInv(c)'
    BY <1>1 DEF HonestInv
  <2>1. /\ c \in revealed \/ notes[c].status = "Slashed" => StaleExit(c)
        /\ ClientInv(c) /\ SignalInv(c) /\ ProofInv(c) /\ opening[c].index \in Nat
    BY <1>3 DEF HonestInv, SInv, UserTypes
  <2>2. ASSUME store[c][n] \in RequestSignals PROVE StaleExit(c)
    <3>1. n < opening[c].index \/ (n = opening[c].index /\ opening[c].pending # NoSignal)
      BY <1>2, <2>1, <2>2 DEF SignalInv
    <3>2. n \in Nat /\ n < UsedIndices(c)
      BY <1>2, <2>1, <3>1 DEF UsedIndices, Indices
    <3>3. QED
      BY <3>2 DEF StaleExit, n
  <2>3. StaleExit(c)' <=> StaleExit(c)
    BY <1>1 DEF StaleExit, UsedIndices
  <2>4. SignalInv(c)'
    <3>1. ASSUME NEW i \in Indices, NEW x \in RequestSignals, <<i, x>> \in checked[c]
          PROVE  \/ store'[c][i] = x
                 \/ /\ store'[c][i] \in {NoSignal, ExitSignal}
                    /\ i = opening[c].index /\ x = opening[c].pending
      <4>1. \/ store[c][i] = x
            \/ /\ store[c][i] \in {NoSignal, ExitSignal}
               /\ i = opening[c].index /\ x = opening[c].pending
        BY <2>1, <3>1 DEF SignalInv
      <4>2. store'[c][i] = store[c][i] \/ (store[c][i] = NoSignal /\ store'[c][i] = ExitSignal)
        BY <1>5
      <4>3. QED
        BY <4>1, <4>2
    <3>2. \A i \in Indices : store'[c][i] \in RequestSignals => store'[c][i] = store[c][i]
      BY <1>5
    <3>3. QED
      BY <1>1, <2>1, <3>1, <3>2 DEF SignalInv
  <2>5. c \in revealed' => c \in revealed \/ store[c][n] \in RequestSignals
    BY <1>4
  <2>6. QED
    BY <1>1, <2>1, <2>2, <2>3, <2>4, <2>5, ClientKept, ProofKept
<1>13. QED
  BY <1>6, <1>7, <1>8, <1>10, <1>11, <1>12 DEF ProtocolInv, NoteInv

-----------------------------------------------------------------------------
(* The contract's steps *)

(* What a call of the contract leaves alone.                               *)
LEMMA ProtocolUntouched ==
    ASSUME SInv, UNCHANGED <<gateVars, userVars>>
    PROVE  /\ UNCHANGED <<store, checked, serving, acc, ingested, revealed>>
           /\ UNCHANGED <<honest, opening, proofs>>
           /\ GateTypes'
BY DEF gateVars, userVars, SInv, GateTypes

LEMMA DepositKeeps ==
    ASSUME SInv, NEW c \in Commitments, NEW value \in 0..DepositLimit, DepositNote(c, value)
    PROVE  ProtocolInv'
<1>1. /\ UNCHANGED <<now, exits, credited>>
      /\ UNCHANGED <<store, checked, serving, acc, ingested, revealed>>
      /\ UNCHANGED <<honest, opening, proofs, exitIndex>>
      /\ GateTypes'
  BY ProtocolUntouched DEF DepositNote, Deposit, histVars
<1>2. UserTypes'
  BY <1>1 DEF SInv, UserTypes
<1>3. /\ notes[c].status = "None"
      /\ notes'[c].status = "Active" /\ notes'[c].amount = value
      /\ \A d \in Commitments \ {c} : notes'[d] = notes[d]
  BY DEF SInv, TypeInv, TypeOK, NoteTypes, DepositNote, Deposit
<1>4. ASSUME NEW d \in Commitments \ {c} PROVE NoteInv(d)'
  BY <1>1, <1>3, NoteKept DEF SInv
<1>5. AccInv(c) /\ UseInv(c) /\ MoneyInv(c) /\ ExitInv(c) /\ HonestInv(c)
  BY DEF SInv, NoteInv
<1>6. notes[c].amount = 0
  BY <1>3, <1>5 DEF MoneyInv
<1>7. AccInv(c)'
  BY <1>1, <1>5, AccKept
<1>8. Len(acc[c]) \in Nat
  BY DEF SInv, GateTypes
<1>9. \A i \in 0..Len(acc[c]) : Solvent(c, i) => Solvent(c, i)'
  <2> TAKE i \in 0..Len(acc[c])
  <2>1. Refunds(c, i)' = Refunds(c, i) /\ Refunds(c, i) \in Nat /\ (i + 1) * CMax \in Nat
    BY <1>1, <1>5, <1>8, FullPrice DEF AccInv, Refunds
  <2>2. QED
    BY <1>3, <1>6, <2>1 DEF Solvent
<1>10. UseInv(c)'
  <2>1. \A i \in Indices : i \in Nat /\ (Asked(c, i)' <=> Asked(c, i))
    BY <1>1 DEF Asked, Indices
  <2>2. \A i \in Indices : Asked(c, i)' => i <= Len(acc[c]) /\ Solvent(c, i)'
    BY <1>5, <1>8, <1>9, <2>1 DEF UseInv
  <2>3. QED
    BY <1>1, <1>5, <2>2 DEF UseInv
<1>11. MoneyInv(c)' /\ ExitInv(c)'
  BY <1>1, <1>3, <1>5 DEF MoneyInv, ExitInv
<1>12. HonestInv(c)'
  <2> SUFFICES ASSUME c \in honest
               PROVE  /\ c \in revealed' \/ notes'[c].status = "Slashed" => StaleExit(c)'
                      /\ ClientInv(c)' /\ SignalInv(c)' /\ ProofInv(c)'
    BY <1>1 DEF HonestInv
  <2>0. exitIndex[c] = -1
    BY <1>3, <1>5 DEF ExitInv
  <2>1. /\ c \notin revealed /\ ClientInv(c) /\ SignalInv(c) /\ ProofInv(c)
        /\ opening[c].index \in Nat
    BY <1>5, <2>0 DEF HonestInv, StaleExit, SInv, UserTypes
  <2>2. opening[c].index \in 0..Len(acc[c])
    BY <1>8, <2>1 DEF ClientInv
  <2>3. Solvent(c, opening[c].index) => Solvent(c, opening[c].index)'
    <3>1. PICK i \in 0..Len(acc[c]) : i = opening[c].index
      BY <2>2
    <3>2. QED
      BY <1>1, <1>9, <3>1 DEF Solvent, Refunds
  <2>4. ClientInv(c)' /\ SignalInv(c)'
    BY <1>1, <2>1, <2>3, SignalKept DEF ClientInv, UsedIndices
  <2>6. ProofInv(c)'
    <3>1. ASSUME NEW p \in proofs[c] PROVE Payout(c, p.m, p.n)' >= 0
      <4>1. /\ p.m \in 0..Len(acc[c]) /\ p.n \in Nat /\ Payout(c, p.m, p.n) >= 0
        BY <2>1, <2>2 DEF ProofInv, Indices
      <4>2. Refunds(c, p.m) \in Nat /\ Refunds(c, p.m)' = Refunds(c, p.m)
        BY <1>1, <1>5, <4>1 DEF AccInv, Refunds
      <4>3. PICK price \in Nat : price = p.n * CMax
        BY <4>1, FullPrice
      <4>4. 0 + Refunds(c, p.m) - price >= 0
        BY <1>6, <4>1, <4>3 DEF Payout
      <4>5. value + Refunds(c, p.m) - price >= 0
        BY <4>2, <4>4
      <4>6. QED
        BY <1>1, <1>3, <4>2, <4>3, <4>5 DEF Payout
    <3>2. QED
      BY <1>1, <2>0, <2>1, <3>1 DEF ProofInv
  <2>7. QED
    BY <1>1, <1>3, <2>1, <2>4, <2>6
<1>13. QED
  BY <1>1, <1>2, <1>4, <1>7, <1>10, <1>11, <1>12 DEF ProtocolInv, NoteInv

(* A claim that is accepted opens a signed accumulator, and its payout is  *)
(* not negative.                                                           *)
LEMMA ClaimsAreSound ==
    ASSUME SInv, NEW c \in Commitments, NEW m \in Indices, NEW n \in Indices, Claims(c, m, n)
    PROVE  /\ m \in 0..Len(acc[c]) /\ m <= n
           /\ Payout(c, m, n) \in Int /\ Payout(c, m, n) >= 0
<1>1. /\ AccInv(c) /\ HonestInv(c) /\ Len(acc[c]) \in Nat /\ notes[c].amount \in Nat
      /\ m \in Nat /\ n \in Nat
  BY DEF SInv, NoteInv, GateTypes, TypeInv, TypeOK, NoteTypes, NoteType, Indices
<1>2. m \in 0..Len(acc[c]) /\ m <= n /\ Payout(c, m, n) >= 0
  <2>1. CASE c \notin honest
    BY <2>1 DEF Claims, ClaimProvable, Opens
  <2>2. CASE c \in honest
    <3>1. [m |-> m, n |-> n] \in proofs[c] /\ ClientInv(c) /\ ProofInv(c)
      BY <1>1, <2>2 DEF Claims, HonestInv
    <3>2. m \in 0..opening[c].index /\ n \in {m, m + 1} /\ Payout(c, m, n) >= 0
      BY <3>1 DEF ProofInv
    <3>3. opening[c].index \in Nat
      BY DEF SInv, UserTypes
    <3>4. QED
      BY <1>1, <3>1, <3>2, <3>3 DEF ClientInv
  <2>3. QED
    BY <2>1, <2>2
<1>3. Refunds(c, m) \in Nat /\ n * CMax \in Nat
  BY <1>1, <1>2, FullPrice DEF AccInv
<1>4. QED
  BY <1>1, <1>2, <1>3 DEF Payout

LEMMA ExitKeeps ==
    ASSUME SInv, NEW c \in Commitments, NEW recipient \in Addresses, NEW key \in Keys,
           NEW m \in Indices, NEW n \in Indices, Exit(c, recipient, key, m, n)
    PROVE  ProtocolInv'
<1>1. /\ UNCHANGED <<now, credited>>
      /\ UNCHANGED <<store, checked, serving, acc, ingested, revealed>>
      /\ UNCHANGED <<honest, opening, proofs>>
      /\ GateTypes'
  BY ProtocolUntouched DEF Exit, InitiateWithdrawal
<1>2. /\ notes[c].status = "Active" /\ notes'[c].status = "Exiting"
      /\ notes'[c].amount = notes[c].amount
      /\ \A d \in Commitments \ {c} : notes'[d] = notes[d]
  BY DEF SInv, TypeInv, TypeOK, NoteTypes, NoteType, Exit, InitiateWithdrawal
<1>3. /\ exits'[c].payout = Payout(c, m, n) /\ exits'[c].exitAt = now + ChallengeWindow
      /\ \A d \in Commitments \ {c} : exits'[d] = exits[d]
  BY DEF SInv, TypeInv, TypeOK, NoteTypes, Exit, InitiateWithdrawal
<1>4. /\ exitIndex'[c] = n
      /\ \A d \in Commitments \ {c} : exitIndex'[d] = exitIndex[d]
      /\ exitIndex' \in [Commitments -> Indices \cup {-1}]
  BY DEF SInv, UserTypes, Exit
<1>5. UserTypes'
  BY <1>1, <1>4 DEF SInv, UserTypes
<1>6. ASSUME NEW d \in Commitments \ {c} PROVE NoteInv(d)'
  BY <1>1, <1>2, <1>3, <1>4, NoteKept DEF SInv
<1>7. AccInv(c) /\ UseInv(c) /\ MoneyInv(c) /\ ExitInv(c) /\ HonestInv(c)
  BY DEF SInv, NoteInv
<1>8. AccInv(c)' /\ UseInv(c)'
  BY <1>1, <1>2, <1>7, AccKept, UseKept
<1>9. MoneyInv(c)'
  BY <1>1, <1>2, <1>7 DEF MoneyInv
<1>10. Claims(c, m, n)
  BY DEF Exit
<1>11. m \in 0..Len(acc[c]) /\ m <= n
  BY <1>10, ClaimsAreSound
<1>12. Payout(c, m, n)' = Payout(c, m, n)
  BY <1>1, <1>2 DEF Payout, Refunds
<1>13. exitIndex[c] = -1 /\ c \notin ingested
  BY <1>2, <1>7 DEF ExitInv
<1>14. ExitInv(c)'
  <2>1. now \in Nat /\ ~(now >= now + ChallengeWindow)
    BY DEF SInv, TypeInv, TypeOK
  <2>2. \A i \in Indices : store[c][i] # ExitSignal
    BY <1>7, <1>13 DEF ExitInv, Indices
  <2>3. \E k \in 0..Len(acc[c]) : k <= n /\ exits'[c].payout = Payout(c, k, n)'
    BY <1>3, <1>11, <1>12
  <2>4. Payout(c, m, exitIndex[c])' = Payout(c, m, n)'
    BY <1>4 DEF Payout
  <2>5. n \in Indices /\ n # -1
    BY DEF Indices
  <2>6. \E k \in 0..Len(acc'[c]) :
            k <= exitIndex'[c] /\ exits'[c].payout = Payout(c, k, exitIndex[c])'
    BY <1>1, <1>3, <1>4, <1>11, <1>12, <2>4
  <2>7. QED
    BY <1>1, <1>2, <1>3, <1>4, <1>13, <2>1, <2>2, <2>5, <2>6 DEF ExitInv
<1>15. HonestInv(c)'
  <2> SUFFICES ASSUME c \in honest
               PROVE  /\ c \in revealed' \/ notes'[c].status = "Slashed" => StaleExit(c)'
                      /\ ClientInv(c)' /\ SignalInv(c)' /\ ProofInv(c)'
    BY <1>1 DEF HonestInv
  <2>1. c \notin revealed /\ ClientInv(c) /\ SignalInv(c) /\ ProofInv(c)
    BY <1>7, <1>13 DEF HonestInv, StaleExit
  <2>2. [m |-> m, n |-> n] \in proofs[c]
    BY <1>10 DEF Claims
  <2>3. \A p \in proofs[c] : Payout(c, p.m, p.n)' = Payout(c, p.m, p.n)
    BY <1>1, <1>2 DEF Payout, Refunds
  <2>4. \E p \in proofs[c] : exitIndex'[c] = p.n /\ exits'[c].payout = Payout(c, p.m, p.n)'
    <3> WITNESS [m |-> m, n |-> n] \in proofs[c]
    <3> QED
      BY <1>3, <1>4, <2>2, <2>3
  <2>5. ProofInv(c)'
    BY <1>1, <2>1, <2>3, <2>4 DEF ProofInv
  <2>6. QED
    BY <1>1, <1>2, <2>1, <2>5, ClientKept, SignalKept
<1>16. QED
  BY <1>1, <1>5, <1>6, <1>8, <1>9, <1>14, <1>15 DEF ProtocolInv, NoteInv

(* finalizeWithdrawal, slash and claimExpired settle a note: its status    *)
(* becomes final and the operator is credited.                             *)
LEMMA SettleKeeps ==
    ASSUME SInv, NEW c \in Commitments, NEW final \in {"Closed", "Slashed", "Expired"},
           UNCHANGED <<now, exits, gateVars, userVars, exitIndex>>,
           notes' = [notes EXCEPT ![c].status = final],
           \A d \in Commitments \ {c} : credited'[d] = credited[d],
           final = "Closed" =>
              /\ credited'[c] = notes[c].amount - exits[c].payout
              /\ notes[c].status = "Exiting" /\ now >= exits[c].exitAt,
           final = "Slashed" =>
              /\ credited'[c] = notes[c].amount - Bounty(notes[c].amount)
              /\ c \in revealed \/ c \notin honest,
           final = "Expired" => credited'[c] = notes[c].amount
    PROVE  ProtocolInv'
<1>1. /\ UNCHANGED <<store, checked, serving, acc, ingested, revealed>>
      /\ UNCHANGED <<honest, opening, proofs>>
      /\ GateTypes' /\ UserTypes'
  BY ProtocolUntouched DEF SInv, UserTypes
<1>2. /\ notes'[c].status = final /\ notes'[c].amount = notes[c].amount
      /\ \A d \in Commitments \ {c} : notes'[d] = notes[d]
  BY DEF SInv, TypeInv, TypeOK, NoteTypes, NoteType
<1>3. ASSUME NEW d \in Commitments \ {c} PROVE NoteInv(d)'
  BY <1>1, <1>2, NoteKept DEF SInv
<1>4. AccInv(c) /\ UseInv(c) /\ MoneyInv(c) /\ ExitInv(c) /\ HonestInv(c)
  BY DEF SInv, NoteInv
<1>5. AccInv(c)' /\ UseInv(c)'
  BY <1>1, <1>2, <1>4, AccKept, UseKept
<1>6. MoneyInv(c)'
  BY <1>1, <1>2, <1>4 DEF MoneyInv, Bounty
<1>7. ExitInv(c)'
  BY <1>1, <1>2, <1>4 DEF ExitInv, Payout, Refunds
<1>8. HonestInv(c)'
  BY <1>1, <1>2, <1>4, ClientKept, SignalKept, ProofKept DEF HonestInv, StaleExit, UsedIndices
<1>9. QED
  BY <1>1, <1>3, <1>5, <1>6, <1>7, <1>8 DEF ProtocolInv, NoteInv

(* The watcher is prompt: an exit that becomes final holds its index.      *)
LEMMA TimeKeeps ==
    ASSUME SInv, TimePasses
    PROVE  ProtocolInv'
<1>1. /\ UNCHANGED <<notes, exits, credited>>
      /\ UNCHANGED <<store, checked, serving, acc, ingested, revealed>>
      /\ UNCHANGED <<honest, opening, proofs, exitIndex>>
      /\ GateTypes' /\ now' = now + 1
  BY ProtocolUntouched DEF TimePasses, Tick, noteVars
<1>2. UserTypes'
  BY <1>1 DEF SInv, UserTypes
<1>3. ASSUME NEW c \in Commitments PROVE NoteInv(c)'
  <2>1. AccInv(c) /\ UseInv(c) /\ MoneyInv(c) /\ ExitInv(c) /\ HonestInv(c)
    BY DEF SInv, NoteInv
  <2>2. AccInv(c)' /\ UseInv(c)' /\ MoneyInv(c)'
    BY <1>1, <2>1, AccKept, UseKept, MoneyKept
  <2>3. HonestInv(c)'
    BY <1>1, <2>1, ClientKept, SignalKept, ProofKept DEF HonestInv, StaleExit, UsedIndices
  <2>4. notes[c].status = "Exiting" /\ now + 1 >= exits[c].exitAt =>
            store[c][exitIndex[c]] = ExitSignal
    BY <2>1 DEF TimePasses, WatcherIsPrompt, ExitInv
  <2>5. ExitInv(c)'
    BY <1>1, <2>1, <2>4 DEF ExitInv, Payout, Refunds
  <2>6. QED
    BY <2>2, <2>3, <2>5 DEF NoteInv
<1>4. QED
  BY <1>1, <1>2, <1>3 DEF ProtocolInv

-----------------------------------------------------------------------------
(* The protocol's steps are steps of the contract, or leave it alone: what *)
(* is proved of LongjingCredits holds of it in the protocol.               *)
LEMMA ContractStep == SInv /\ [SNext]_sVars => [Next]_vars
<1> SUFFICES ASSUME SInv, [SNext]_sVars PROVE [Next]_vars
  OBVIOUS
<1>1. ASSUME NEW c \in Commitments, NEW recipient \in Addresses, NEW key \in Keys,
             NEW m \in Indices, NEW n \in Indices, Exit(c, recipient, key, m, n)
      PROVE  Next
  <2>1. /\ Claims(c, m, n) /\ InitiateWithdrawal(c, recipient, key, Payout(c, m, n))
    BY <1>1 DEF Exit
  <2>2. Payout(c, m, n) \in Int /\ Payout(c, m, n) >= 0
    BY <2>1, ClaimsAreSound
  <2>3. Payout(c, m, n) <= notes[c].amount /\ notes[c].amount <= DepositLimit
        /\ notes[c].amount \in Nat
    BY <2>1 DEF InitiateWithdrawal, SInv, NoteInv, MoneyInv, TypeInv, TypeOK, NoteTypes, NoteType
  <2>4. Payout(c, m, n) \in 0..DepositLimit
    BY <2>2, <2>3
  <2>5. QED
    BY <2>1, <2>4 DEF Next
<1>2. CASE UNCHANGED vars
  BY <1>2
<1>3. CASE TimePasses
  BY <1>3 DEF TimePasses, Next
<1>4. ASSUME NEW c \in Commitments, NEW x \in RequestSignals, NEW i \in Indices,
             ProveRequest(c, x) \/ Verify(c, i, x) \/ Record(c, i, x)
      PROVE  UNCHANGED vars
  BY <1>4 DEF ProveRequest, Verify, Record
<1>5. ASSUME NEW c \in Commitments, NEW v \in RefundRange,
             \/ Receive(c) \/ ProveWithdrawal(c) \/ Answer(c, v) \/ Drop(c) \/ IngestExit(c)
      PROVE  UNCHANGED vars
  BY <1>5 DEF Receive, ProveWithdrawal, Answer, Drop, IngestExit
<1>6. ASSUME NEW c \in Commitments, NEW value \in 0..DepositLimit, NEW sender \in Addresses,
             \/ DepositNote(c, value) \/ FinalizeExit(c) \/ SlashNote(c, sender)
             \/ ClaimExpiredNote(c, sender)
      PROVE  Next
  BY <1>6 DEF DepositNote, FinalizeExit, SlashNote, ClaimExpiredNote, Next
<1>7. RefundRange # {} /\ 0..DepositLimit # {}
  BY DEF RefundRange
<1>8. Addresses # {}
  BY ValuesAssumption
<1>9. ASSUME NEW c \in Commitments, NEW x \in RequestSignals, ProveRequest(c, x)
      PROVE  UNCHANGED vars
  BY <1>9 DEF ProveRequest
<1>10. QED
  BY <1>1, <1>2, <1>3, <1>4, <1>5, <1>6, <1>7, <1>8, <1>9 DEF SNext, sVars

LEMMA SNextInv == SInv /\ [SNext]_sVars => SInv'
<1> SUFFICES ASSUME SInv, [SNext]_sVars PROVE SInv'
  OBVIOUS
<1>1. TypeInv'
  BY ContractStep, TypeStep DEF SInv
<1>2. ProtocolInv => ProtocolInv'
  <2>1. CASE UNCHANGED sVars
    <3>1. UNCHANGED vars
      BY <2>1 DEF sVars
    <3>2. /\ UNCHANGED <<now, notes, exits, credited>>
          /\ UNCHANGED <<store, checked, serving, acc, ingested, revealed>>
          /\ UNCHANGED <<honest, opening, proofs, exitIndex>>
          /\ GateTypes'
      BY <2>1, <3>1, ContractUntouched, ProtocolUntouched DEF sVars
    <3>3. UserTypes'
      BY <3>2 DEF SInv, UserTypes
    <3>4. ASSUME NEW c \in Commitments PROVE NoteInv(c)'
      BY <3>2, NoteKept DEF SInv
    <3>5. QED
      BY <3>2, <3>3, <3>4 DEF ProtocolInv
  <2>2. ASSUME NEW c \in Commitments, FinalizeExit(c) PROVE ProtocolInv'
    <3>1. credited \in [Commitments -> Nat] /\ credited[c] = 0
          /\ notes[c].amount \in Nat /\ exits[c].payout \in Nat
      BY <2>2 DEF FinalizeExit, FinalizeWithdrawal, SInv, NoteInv, MoneyInv, TypeInv, TypeOK,
         HistoryTypes, NoteTypes, NoteType, ExitType
    <3>2. /\ notes[c].status = "Exiting" /\ now >= exits[c].exitAt
          /\ notes' = [notes EXCEPT ![c].status = "Closed"]
          /\ credited' = [credited EXCEPT ![c] = @ + notes[c].amount - exits[c].payout]
          /\ UNCHANGED <<now, exits, gateVars, userVars, exitIndex>>
      BY <2>2 DEF FinalizeExit, FinalizeWithdrawal
    <3>3. /\ credited'[c] = notes[c].amount - exits[c].payout
          /\ \A d \in Commitments \ {c} : credited'[d] = credited[d]
      BY <3>1, <3>2
    <3>4. QED
      BY <3>2, <3>3, SettleKeeps
  <2>3. ASSUME NEW c \in Commitments, NEW sender \in Addresses, SlashNote(c, sender)
        PROVE  ProtocolInv'
    <3>1. credited \in [Commitments -> Nat] /\ credited[c] = 0 /\ notes[c].amount \in Nat
          /\ Bounty(notes[c].amount) \in Nat
      BY <2>3, BountyType DEF SlashNote, Slash, SInv, NoteInv, MoneyInv, TypeInv, TypeOK,
         HistoryTypes, NoteTypes, NoteType
    <3>2. /\ notes' = [notes EXCEPT ![c].status = "Slashed"]
          /\ credited' = [credited EXCEPT ![c] = @ + notes[c].amount - Bounty(notes[c].amount)]
          /\ UNCHANGED <<now, exits, gateVars, userVars, exitIndex>>
      BY <2>3 DEF SlashNote, Slash
    <3>3. /\ credited'[c] = notes[c].amount - Bounty(notes[c].amount)
          /\ \A d \in Commitments \ {c} : credited'[d] = credited[d]
      BY <3>1, <3>2
    <3>4. c \in revealed \/ c \notin honest
      BY <2>3 DEF SlashNote
    <3>5. QED
      BY <3>2, <3>3, <3>4, SettleKeeps
  <2>4. ASSUME NEW c \in Commitments, NEW sender \in Addresses, ClaimExpiredNote(c, sender)
        PROVE  ProtocolInv'
    <3>1. credited \in [Commitments -> Nat] /\ credited[c] = 0 /\ notes[c].amount \in Nat
      BY <2>4 DEF ClaimExpiredNote, ClaimExpired, SInv, NoteInv, MoneyInv, TypeInv, TypeOK,
         HistoryTypes, NoteTypes, NoteType
    <3>2. /\ notes' = [notes EXCEPT ![c].status = "Expired"]
          /\ credited' = [credited EXCEPT ![c] = @ + notes[c].amount]
          /\ UNCHANGED <<now, exits, gateVars, userVars, exitIndex>>
      BY <2>4 DEF ClaimExpiredNote, ClaimExpired
    <3>3. /\ credited'[c] = notes[c].amount
          /\ \A d \in Commitments \ {c} : credited'[d] = credited[d]
      BY <3>1, <3>2
    <3>4. QED
      BY <3>2, <3>3, SettleKeeps
  <2>5. QED
    BY <2>1, <2>2, <2>3, <2>4, ProveRequestKeeps, ReceiveKeeps, ProveWithdrawalKeeps,
       VerifyKeeps, RecordKeeps, AnswerKeeps, DropKeeps, IngestKeeps, DepositKeeps, ExitKeeps,
       TimeKeeps DEF SNext
<1>3. QED
  BY <1>1, <1>2 DEF SInv, ProtocolInv

LEMMA SettlementInvariant == SSpec => []SInv
BY SInitInv, SNextInv, PTL DEF SSpec

-----------------------------------------------------------------------------
(* The protocol uses the contract: every behaviour of clients, gateway and *)
(* watcher is, on the contract's state, a behaviour of LongjingCredits, so *)
(* its theorems hold in the protocol.                                      *)
THEOREM ProtocolUsesContract == SSpec => Spec
<1>1. SInit => Init
  BY DEF SInit
<1>2. QED
  BY <1>1, SettlementInvariant, ContractStep, PTL DEF SSpec, Spec

(* The indices a note has used form a prefix, with an accumulator signed   *)
(* for each but perhaps the last.                                          *)
THEOREM PrefixTheorem == SSpec => []PrefixProperty
BY SettlementInvariant, PrefixHolds, PTL

(* A note that settles leaves the operator what its requests cost, less    *)
(* the bounty if it was slashed, whatever its owner does.                  *)
THEOREM OperatorTheorem == SSpec => []OperatorIsPaid
BY SettlementInvariant, PaidHolds, PTL

(* An owner that follows the client is slashed only for submitting an exit *)
(* it proved before its latest request.                                    *)
THEOREM HonestTheorem == SSpec => []HonestNotSlashed
BY SettlementInvariant, NotSlashedHolds, PTL

(* An owner that follows the client can always leave.                      *)
THEOREM LeaveTheorem == SSpec => []HonestCanLeave
BY SettlementInvariant, LeaveHolds, PTL

(* An exit by the client loses at most one C_MAX.                          *)
THEOREM LossTheorem == SSpec => []HonestLosesAtMostOneRequest
BY SettlementInvariant, LossHolds, PTL
=============================================================================
