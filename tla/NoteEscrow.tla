----------------------------- MODULE NoteEscrow -----------------------------
(***************************************************************************)
(* What the settlement contract promises, with no clock, tree, keys or     *)
(* administration: every deposit sits in an escrow of its own until it is  *)
(* settled once, between the note's side (its owner, or whoever slashes    *)
(* it) and the operator's pot.  A note its owner has announced to leave    *)
(* can no longer lapse, and only an announced note pays its owner.         *)
(***************************************************************************)
EXTENDS Naturals

CONSTANTS
    Commitments,
    Amounts        \* what a deposit may be worth

VARIABLES
    phase,    \* commitment -> "unused", "open", "leaving" or "settled"
    escrow,   \* commitment -> what is still held for this note
    sent,     \* commitment -> what left the contract when it was settled
    pot       \* what the operator may collect

vars == <<phase, escrow, sent, pot>>

Init ==
    /\ phase = [c \in Commitments |-> "unused"]
    /\ escrow = [c \in Commitments |-> 0]
    /\ sent = [c \in Commitments |-> 0]
    /\ pot = 0

Open(c, amount) ==
    /\ phase[c] = "unused"
    /\ phase' = [phase EXCEPT ![c] = "open"]
    /\ escrow' = [escrow EXCEPT ![c] = amount]
    /\ UNCHANGED <<sent, pot>>

Announce(c) ==
    /\ phase[c] = "open"
    /\ phase' = [phase EXCEPT ![c] = "leaving"]
    /\ UNCHANGED <<escrow, sent, pot>>

(* The note's escrow is split: `out' leaves the contract, the rest is the  *)
(* operator's.                                                             *)
Settle(c, out) ==
    /\ out \in 0..escrow[c]
    /\ phase' = [phase EXCEPT ![c] = "settled"]
    /\ escrow' = [escrow EXCEPT ![c] = 0]
    /\ sent' = [sent EXCEPT ![c] = out]
    /\ pot' = pot + (escrow[c] - out)

Release(c, out) == phase[c] = "leaving" /\ Settle(c, out)

Forfeit(c, out) == phase[c] \in {"open", "leaving"} /\ Settle(c, out)

Lapse(c) == phase[c] = "open" /\ Settle(c, 0)

Collect ==
    /\ pot' = 0
    /\ UNCHANGED <<phase, escrow, sent>>

Next ==
    \/ \E c \in Commitments :
          \/ \E amount \in Amounts : Open(c, amount)
          \/ Announce(c)
          \/ \E out \in 0..escrow[c] : Release(c, out) \/ Forfeit(c, out)
          \/ Lapse(c)
    \/ Collect

Spec == Init /\ [][Next]_vars
=============================================================================
