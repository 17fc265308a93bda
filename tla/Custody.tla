------------------------------ MODULE Custody -------------------------------
(***************************************************************************)
(* What the escrow of a task promises, whoever settles it: an allocation   *)
(* follows the lifecycle locked, settled, released, disputed; what it      *)
(* holds leaves it by one of a few steps; and a price lent to a peer relay *)
(* is kept by the peer or comes back, once.                                *)
(***************************************************************************)
EXTENDS Integers

CONSTANTS Task,   \* tasks, each with its one allocation
          Hold,   \* amount held
          Gross   \* the price, which a forward lends

VARIABLES phase,  \* where the allocation is in its lifecycle
          held,   \* what its escrow holds
          lent    \* the price: at home, lent, kept by the peer, or back

cvars == <<phase, held, lent>>

Start ==
  /\ phase = [t \in Task |-> "none"] /\ held = [t \in Task |-> 0]
  /\ lent = [t \in Task |-> "home"]

Go(t, p, h) == phase' = [phase EXCEPT ![t] = p] /\ held' = [held EXCEPT ![t] = h]

Open(t) == phase[t] = "none" /\ Go(t, "locked", Hold) /\ UNCHANGED lent

\* The worker is paid; a rest may stay for a dispute to distribute.
Settle(t) ==
  /\ phase[t] = "locked" /\ lent[t] = "home"
  /\ \E rest \in 0..held[t] : Go(t, "settled", rest)
  /\ UNCHANGED lent

\* All that is held goes back to the payer.
Release(t) == phase[t] = "locked" /\ Go(t, "released", 0) /\ UNCHANGED lent

Dispute(t) ==
  /\ phase[t] \in {"locked", "settled"} /\ Go(t, "disputed", held[t]) /\ UNCHANGED lent

\* The verdict distributes all that is held.
Close(t) ==
  /\ phase[t] = "disputed"
  /\ \E p \in {"settled", "released"} : Go(t, p, 0)
  /\ UNCHANGED lent

Lend(t) ==
  /\ phase[t] \in {"locked", "disputed"} /\ lent[t] = "home" /\ Gross <= held[t]
  /\ Go(t, phase[t], held[t] - Gross)
  /\ lent' = [lent EXCEPT ![t] = "lent"]

Keep(t) == lent[t] = "lent" /\ lent' = [lent EXCEPT ![t] = "kept"] /\ UNCHANGED <<phase, held>>

\* What comes back stays for a claim or a dispute, or goes on to the payer.
ComeBack(t) ==
  /\ lent[t] = "lent" /\ lent' = [lent EXCEPT ![t] = "back"]
  /\ \/ phase[t] \in {"locked", "disputed"} /\ Go(t, phase[t], held[t] + Gross)
     \/ phase[t] = "locked" /\ Go(t, "released", 0)
     \/ phase[t] = "released" /\ Go(t, "released", 0)

Move(t) ==
  \/ Open(t) \/ Settle(t) \/ Release(t) \/ Dispute(t) \/ Close(t) \/ Lend(t) \/ Keep(t)
  \/ ComeBack(t)

Next == \E t \in Task : Move(t)

Spec == Start /\ [][Next]_cvars
=============================================================================
