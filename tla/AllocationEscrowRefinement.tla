--------------------- MODULE AllocationEscrowRefinement ---------------------
(***************************************************************************)
(* The escrow implements Custody, for every finite set of tasks and every  *)
(* amount and bound.  A step of the relay touches one allocation: what it  *)
(* does to that one (Touch) decides which step of Custody it is.           *)
(***************************************************************************)
EXTENDS AllocationEscrowProofs

USE DEF ledger, forward, answer, flags, process, world, bounds

HeldMap == [t \in Task |-> Held(t)]
LentMap == [t \in Task |-> Lent(fwd[t])]

\* Nothing Custody can see changes for another task.
Only(t) == \A u \in Task \ {t} : status'[u] = status[u] /\ net'[u] = net[u] /\ fwd'[u] = fwd[u]

\* What a step may do to the allocation it touches.
Touch(t) ==
  \/ status'[t] = status[t] /\ Held(t)' = Held(t) /\ fwd'[t] = fwd[t]
  \/ status[t] = "none" /\ status'[t] = "locked" /\ Held(t)' = Hold /\ fwd'[t] = fwd[t]
  \/ /\ status[t] = "locked" /\ status'[t] = "settled" /\ Held(t)' \in 0..Held(t)
     /\ fwd[t] = "none" /\ fwd'[t] = fwd[t]
  \/ status[t] = "locked" /\ status'[t] = "released" /\ Held(t)' = 0 /\ fwd'[t] = fwd[t]
  \/ /\ status[t] \in {"locked", "settled"} /\ status'[t] = "disputed" /\ Held(t)' = Held(t)
     /\ fwd'[t] = fwd[t]
  \/ /\ status[t] = "disputed" /\ status'[t] \in {"settled", "released"} /\ Held(t)' = 0
     /\ fwd'[t] = fwd[t]
  \/ /\ status[t] \in {"locked", "disputed"} /\ status'[t] = status[t] /\ Gross <= Held(t)
     /\ Held(t)' = Held(t) - Gross /\ fwd[t] = "none" /\ fwd'[t] = "pending"
  \/ /\ status'[t] = status[t] /\ Held(t)' = Held(t) /\ fwd[t] = "pending" /\ fwd'[t] = "delivered"
  \/ /\ fwd[t] = "pending" /\ fwd'[t] = "failed"
     /\ \/ /\ status[t] \in {"locked", "disputed"} /\ status'[t] = status[t]
           /\ Held(t)' = Held(t) + Gross
        \/ status[t] \in {"locked", "released"} /\ status'[t] = "released" /\ Held(t)' = 0

\* The refinement mapping changes at the touched task only.
LEMMA MapStep ==
  ASSUME TypeOK, TypeOK', NEW t \in Task, Only(t)
  PROVE  /\ status' = [status EXCEPT ![t] = status'[t]]
         /\ HeldMap' = [HeldMap EXCEPT ![t] = Held(t)']
         /\ LentMap' = [LentMap EXCEPT ![t] = Lent(fwd[t])']
<1>1. status' = [status EXCEPT ![t] = status'[t]]
  BY Zenon DEF Only, TypeOK
<1>2. \A u \in Task \ {t} : Held(u)' = Held(u) /\ Lent(fwd[u])' = Lent(fwd[u])
  BY Zenon DEF Only, Held, Lent
<1>3. HeldMap' = [HeldMap EXCEPT ![t] = Held(t)']
  BY Zenon, <1>2 DEF HeldMap
<1>4. LentMap' = [LentMap EXCEPT ![t] = Lent(fwd[t])']
  BY Zenon, <1>2 DEF LentMap
<1> QED BY Zenon, <1>1, <1>3, <1>4

\* A step that touches one allocation in one of these ways is a step of Custody.
LEMMA TouchStep ==
  ASSUME TypeOK, TypeOK', NEW t \in Task, Only(t), Touch(t)
  PROVE  [Abstract!Next]_(Abstract!cvars)
<1>1. /\ status' = [status EXCEPT ![t] = status'[t]]
      /\ HeldMap' = [HeldMap EXCEPT ![t] = Held(t)']
      /\ LentMap' = [LentMap EXCEPT ![t] = Lent(fwd[t])']
  BY Zenon, MapStep
<1>2. HeldMap[t] = Held(t) /\ LentMap[t] = Lent(fwd[t])
  BY Zenon DEF HeldMap, LentMap
<1>3. status \in [Task -> Statuses] /\ HeldMap \in [Task -> Int]
  BY Zenon, AmountTypes DEF TypeOK, HeldMap
<1>4. Abstract!Move(t) => Abstract!Next
  BY Zenon DEF Abstract!Next
<1>5. \A q, h : status'[t] = q /\ Held(t)' = h => Abstract!Go(t, q, h)
  BY Zenon, <1>1 DEF Abstract!Go, HeldMap
<1>6. fwd'[t] = fwd[t] => LentMap' = LentMap
  BY <1>1, <1>2 DEF LentMap, Lent
<1>7. CASE status'[t] = status[t] /\ Held(t)' = Held(t) /\ fwd'[t] = fwd[t]
  <2>1. status' = status /\ HeldMap' = HeldMap /\ LentMap' = LentMap
    BY Zenon, <1>1, <1>2, <1>3, <1>6, <1>7
  <2> QED BY Zenon, <2>1 DEF Abstract!cvars, HeldMap, LentMap
<1>8. CASE status[t] = "none" /\ status'[t] = "locked" /\ Held(t)' = Hold /\ fwd'[t] = fwd[t]
  <2>1. Abstract!Open(t)
    BY Zenon, <1>5, <1>6, <1>8 DEF Abstract!Open, LentMap
  <2> QED BY Zenon, <1>4, <2>1 DEF Abstract!Move
<1>9. CASE /\ status[t] = "locked" /\ status'[t] = "settled" /\ Held(t)' \in 0..Held(t)
           /\ fwd[t] = "none" /\ fwd'[t] = fwd[t]
  <2>1. Abstract!Settle(t)
    <3>1. Abstract!Go(t, "settled", Held(t)') /\ Held(t)' \in 0..HeldMap[t]
      BY Zenon, <1>2, <1>5, <1>9
    <3>2. LentMap[t] = "home" /\ LentMap' = LentMap
      BY Zenon, <1>2, <1>6, <1>9 DEF Lent
    <3> QED BY Zenon, <1>9, <3>1, <3>2 DEF Abstract!Settle, HeldMap, LentMap
  <2> QED BY Zenon, <1>4, <2>1 DEF Abstract!Move
<1>10. CASE status[t] = "locked" /\ status'[t] = "released" /\ Held(t)' = 0 /\ fwd'[t] = fwd[t]
  <2>1. Abstract!Release(t)
    BY Zenon, <1>5, <1>6, <1>10 DEF Abstract!Release, LentMap
  <2> QED BY Zenon, <1>4, <2>1 DEF Abstract!Move
<1>11. CASE /\ status[t] \in {"locked", "settled"} /\ status'[t] = "disputed" /\ Held(t)' = Held(t)
            /\ fwd'[t] = fwd[t]
  <2>1. Abstract!Dispute(t)
    <3>1. Abstract!Go(t, "disputed", HeldMap[t])
      BY Zenon, <1>2, <1>5, <1>11
    <3> QED BY Zenon, <1>6, <1>11, <3>1 DEF Abstract!Dispute, HeldMap, LentMap
  <2> QED BY Zenon, <1>4, <2>1 DEF Abstract!Move
<1>12. CASE /\ status[t] = "disputed" /\ status'[t] \in {"settled", "released"} /\ Held(t)' = 0
            /\ fwd'[t] = fwd[t]
  <2>1. Abstract!Close(t)
    BY Zenon, <1>5, <1>6, <1>12 DEF Abstract!Close, LentMap
  <2> QED BY Zenon, <1>4, <2>1 DEF Abstract!Move
<1>13. CASE /\ status[t] \in {"locked", "disputed"} /\ status'[t] = status[t] /\ Gross <= Held(t)
            /\ Held(t)' = Held(t) - Gross /\ fwd[t] = "none" /\ fwd'[t] = "pending"
  <2>1. Abstract!Lend(t)
    <3>1. Abstract!Go(t, status[t], HeldMap[t] - Gross) /\ Gross <= HeldMap[t]
      BY Zenon, <1>2, <1>5, <1>13
    <3>2. LentMap[t] = "home" /\ LentMap' = [LentMap EXCEPT ![t] = "lent"]
      BY Zenon, <1>1, <1>2, <1>13 DEF Lent
    <3> QED BY Zenon, <1>13, <3>1, <3>2 DEF Abstract!Lend, HeldMap, LentMap
  <2> QED BY Zenon, <1>4, <2>1 DEF Abstract!Move
<1>14. CASE /\ status'[t] = status[t] /\ Held(t)' = Held(t) /\ fwd[t] = "pending"
            /\ fwd'[t] = "delivered"
  <2>1. Abstract!Keep(t)
    <3>1. status' = status /\ HeldMap' = HeldMap
      BY Zenon, <1>1, <1>2, <1>3, <1>14
    <3>2. LentMap[t] = "lent" /\ LentMap' = [LentMap EXCEPT ![t] = "kept"]
      BY Zenon, <1>1, <1>2, <1>14 DEF Lent
    <3> QED BY Zenon, <3>1, <3>2 DEF Abstract!Keep, HeldMap, LentMap
  <2> QED BY Zenon, <1>4, <2>1 DEF Abstract!Move
<1>15. CASE /\ fwd[t] = "pending" /\ fwd'[t] = "failed"
            /\ \/ /\ status[t] \in {"locked", "disputed"} /\ status'[t] = status[t]
                  /\ Held(t)' = Held(t) + Gross
               \/ status[t] \in {"locked", "released"} /\ status'[t] = "released" /\ Held(t)' = 0
  <2>1. Abstract!ComeBack(t)
    <3>1. \/ status[t] \in {"locked", "disputed"} /\ Abstract!Go(t, status[t], HeldMap[t] + Gross)
          \/ status[t] = "locked" /\ Abstract!Go(t, "released", 0)
          \/ status[t] = "released" /\ Abstract!Go(t, "released", 0)
      BY Zenon, <1>2, <1>5, <1>15
    <3>2. LentMap[t] = "lent" /\ LentMap' = [LentMap EXCEPT ![t] = "back"]
      BY Zenon, <1>1, <1>2, <1>15 DEF Lent
    <3> QED BY Zenon, <3>1, <3>2 DEF Abstract!ComeBack, HeldMap, LentMap
  <2> QED BY Zenon, <1>4, <2>1 DEF Abstract!Move
<1> QED BY Zenon, <1>7, <1>8, <1>9, <1>10, <1>11, <1>12, <1>13, <1>14, <1>15 DEF Touch

\* A step that leaves status, ledger and forwards alone is a stutter of Custody.
LEMMA QuietStep ==
  ASSUME UNCHANGED <<status, net, fwd>>
  PROVE  [Abstract!Next]_(Abstract!cvars)
BY Zenon DEF Abstract!cvars, Held, Lent

\* A settlement step is a Settle, a Lend, a Keep or nothing.
LEMMA StepRefines ==
  ASSUME TypeOK, TypeOK', EscrowInv, NEW t \in Task, NEW s \in Step, StepNext(t, s)
  PROVE  [Abstract!Next]_(Abstract!cvars)
<1>1. /\ AllocationInv(t) /\ net[t] \in Int /\ net'[t] \in Int /\ Gross \in Nat /\ Gross > 0
      /\ Held(t) \in Int
  BY EscrowAmounts, AmountTypes DEF EscrowInv, TypeOK
<1>2. CASE Admit(t, s) \/ ForwardSend(t, s) \/ StepDone(t, s)
  BY Zenon, <1>2, QuietStep DEF Admit, ForwardSend, StepDone
<1>3. CASE SettleLocal(t, s)
  <2>1. CASE UNCHANGED <<status, ledger, row>>
    BY Zenon, <1>3, <2>1, QuietStep DEF SettleLocal
  <2>2. CASE Funded(t) /\ SettleWith(t, s, Released(t))
    <3>1. Only(t)
      BY Zenon, <1>3, <2>2 DEF SettleLocal, SettleWith, Only, TypeOK
    <3>2. /\ status[t] = "locked" /\ status'[t] = "settled" /\ fwd[t] = "none" /\ fwd'[t] = "none"
          /\ net'[t] = net[t] - NetDue(t) - FeeDue(t) - Released(t)
      BY Zenon, <1>3, <2>2 DEF SettleLocal, SettleWith, Funded, NoRow, TypeOK
    <3>3. /\ NetDue(t) \in Nat /\ FeeDue(t) \in Nat /\ NetDue(t) + FeeDue(t) <= Held(t)
      BY Zenon, <2>2, AmountTypes DEF SettleWith, MayMove
    <3>4. Released(t) \in {0, Held(t) - NetDue(t) - FeeDue(t)}
      BY Zenon DEF Released
    <3>5. Held(t) = net[t] /\ Held(t)' = net'[t]
      BY <1>1, <3>2 DEF Held
    <3>6. Held(t)' \in 0..Held(t)
      BY <1>1, <3>2, <3>3, <3>4, <3>5
    <3>7. Touch(t)
      BY Zenon, <3>2, <3>6 DEF Touch
    <3> QED BY Zenon, <3>1, <3>7, TouchStep
  <2> QED BY Zenon, <1>3, <2>1, <2>2 DEF SettleLocal
<1>4. CASE ForwardCommit(t, s)
  <2>1. CASE UNCHANGED <<fwd, retry>>
    BY Zenon, <1>4, <2>1, QuietStep DEF ForwardCommit
  <2>2. CASE MayMove(t, Gross) /\ NoRow(t) /\ fwd' = [fwd EXCEPT ![t] = "pending"]
    <3>1. Only(t)
      BY Zenon, <1>4, <2>2 DEF ForwardCommit, Only, TypeOK
    <3>2. /\ fwd[t] = "none" /\ fwd'[t] = "pending" /\ row[t] = "none" /\ Gross <= Held(t)
          /\ status'[t] = status[t] /\ net'[t] = net[t]
      BY Zenon, <1>4, <2>2 DEF ForwardCommit, MayMove, NoRow, TypeOK
    <3>3. Held(t) = net[t] /\ Held(t)' = Held(t) - Gross
      BY <1>1, <3>2 DEF Held
    <3>4. status[t] \in Statuses
      BY Zenon DEF TypeOK
    <3>5. status[t] \in {"locked", "disputed"}
      BY <1>1, <3>2, <3>3, <3>4 DEF AllocationInv, Statuses
    <3>6. Touch(t)
      BY Zenon, <3>2, <3>3, <3>5 DEF Touch
    <3> QED BY <3>1, <3>6, TouchStep
  <2> QED BY Zenon, <1>4, <2>1, <2>2 DEF ForwardCommit
<1>5. CASE ForwardReturn(t, s)
  <2>1. CASE UNCHANGED <<fwd, retry>>
    BY Zenon, <1>5, <2>1, QuietStep DEF ForwardReturn
  <2>2. CASE Deliver(t)
    <3>1. Only(t)
      BY Zenon, <1>5, <2>2 DEF ForwardReturn, Deliver, Only, TypeOK
    <3>2. /\ status'[t] = status[t] /\ net'[t] = net[t]
          /\ fwd'[t] = IF fwd[t] = "pending" THEN "delivered" ELSE fwd[t]
      BY Zenon, <1>5, <2>2 DEF ForwardReturn, Deliver, TypeOK
    <3>3. Held(t)' = Held(t)
      BY Zenon, <3>2 DEF Held
    <3>4. Touch(t)
      BY Zenon, <3>2, <3>3 DEF Touch
    <3> QED BY <3>1, <3>4, TouchStep
  <2> QED BY Zenon, <1>5, <2>1, <2>2 DEF ForwardReturn
<1> QED BY Zenon, <1>2, <1>3, <1>4, <1>5 DEF StepNext

\* The refund of an exhausted forward is a ComeBack, a Release or nothing.
LEMMA RefundRefines ==
  ASSUME TypeOK, TypeOK', EscrowInv, NEW t \in Task, fwd[t] # "none", RefundExhausted(t)
  PROVE  [Abstract!Next]_(Abstract!cvars)
<1>1. /\ AllocationInv(t) /\ net[t] \in Int /\ Gross \in Nat /\ fwd[t] \in Forwards
  BY Zenon, EscrowAmounts DEF EscrowInv, TypeOK
<1>2. Only(t)
  BY DEF RefundExhausted, Only, TypeOK
<1>3. Touch(t)
  <2>1. CASE /\ fwd[t] = "pending" /\ fwd'[t] = "failed" /\ status[t] \in {"locked", "disputed"}
             /\ status'[t] = status[t] /\ net'[t] = net[t]
    <3>1. Held(t)' = Held(t) + Gross
      BY <1>1, <2>1 DEF Held
    <3> QED BY Zenon, <2>1, <3>1 DEF Touch
  <2>2. CASE /\ fwd[t] = "pending" /\ fwd'[t] = "failed" /\ status[t] \in {"locked", "released"}
             /\ status'[t] = "released" /\ net'[t] = 0
    <3>1. Held(t)' = 0
      BY <2>2 DEF Held
    <3> QED BY Zenon, <2>2, <3>1 DEF Touch
  <2>3. CASE /\ fwd'[t] = fwd[t] /\ status'[t] = status[t] /\ net'[t] = net[t]
    <3>1. Held(t)' = Held(t)
      BY Zenon, <2>3 DEF Held
    <3> QED BY Zenon, <2>3, <3>1 DEF Touch
  <2>4. CASE /\ fwd'[t] = fwd[t] /\ status[t] = "locked" /\ status'[t] = "released"
             /\ net'[t] = net[t] - Held(t)
    <3>1. Held(t)' = 0
      BY <1>1, <2>4 DEF Held
    <3> QED BY Zenon, <2>4, <3>1 DEF Touch
  <2> QED BY Zenon, <1>1, <2>1, <2>2, <2>3, <2>4, RefundOutcome
<1> QED BY Zenon, <1>2, <1>3, TouchStep

\* A step of a retry pass is a Keep, a ComeBack, a Release or nothing.
LEMMA PassRefines ==
  ASSUME TypeOK, TypeOK', EscrowInv, NEW t \in Task, NEW p \in Pass, PassNext(t, p)
  PROVE  [Abstract!Next]_(Abstract!cvars)
<1>1. AllocationInv(t)
  BY Zenon DEF EscrowInv
<1>2. CASE UNCHANGED <<status, net, fwd>>
  BY Zenon, <1>2, QuietStep
<1>3. CASE PassStart(t, p) \/ PassSend(t, p) \/ CrashExhausting(t, p)
  BY Zenon, <1>2, <1>3 DEF PassStart, PassSend, CrashExhausting
<1>4. CASE PassClaim(t, p) \/ PassFail(t, p)
  <2>1. fwd[t] # "none"
    BY Zenon, <1>1, <1>4 DEF AllocationInv, PassClaim, PassFail
  <2>2. RefundExhausted(t) \/ UNCHANGED <<status, net, fwd>>
    BY Zenon, <1>4 DEF PassClaim, PassFail
  <2> QED BY Zenon, <1>2, <2>1, <2>2, RefundRefines
<1>5. CASE PassAck(t, p)
  <2>1. Only(t)
    BY Zenon, <1>5 DEF PassAck, Deliver, Only, TypeOK
  <2>2. /\ status'[t] = status[t] /\ net'[t] = net[t]
        /\ fwd'[t] = IF fwd[t] = "pending" THEN "delivered" ELSE fwd[t]
    BY Zenon, <1>5 DEF PassAck, Deliver, TypeOK
  <2>3. Held(t)' = Held(t)
    BY <2>2 DEF Held
  <2>4. Touch(t)
    BY <2>2, <2>3 DEF Touch
  <2> QED BY <2>1, <2>4, TouchStep
<1> QED BY Zenon, <1>3, <1>4, <1>5 DEF PassNext

\* Submission opens, the sweep releases, a filing disputes and a verdict closes.
LEMMA TaskRefines ==
  ASSUME TypeOK, TypeOK', EscrowInv, NEW t \in Task, TaskNext(t)
  PROVE  [Abstract!Next]_(Abstract!cvars)
<1>1. AllocationInv(t) /\ net[t] \in Int /\ Held(t) \in Int /\ Gross \in Nat /\ Hold \in Nat
  BY Zenon, EscrowAmounts, AmountTypes DEF EscrowInv, TypeOK
<1>2. CASE Submit(t)
  <2>1. Only(t)
    BY Zenon, <1>2 DEF Submit, Only, TypeOK
  <2>2. status[t] = "none" /\ status'[t] = "locked" /\ net'[t] = Hold /\ fwd'[t] = fwd[t]
    BY Zenon, <1>1, <1>2 DEF Submit, AllocationInv, TypeOK
  <2>3. Held(t)' = Hold
    <3>1. fwd'[t] = "none"
      BY Zenon, <1>1, <2>2 DEF AllocationInv
    <3> QED BY <2>2, <3>1, EscrowAmounts DEF Held
  <2>4. Touch(t)
    BY Zenon, <2>2, <2>3 DEF Touch
  <2> QED BY Zenon, <2>1, <2>4, TouchStep
<1>3. CASE SweepRefund(t)
  <2>1. Only(t)
    BY <1>3 DEF SweepRefund, Only, TypeOK
  <2>2. status[t] = "locked" /\ status'[t] = "released" /\ fwd'[t] = fwd[t]
    BY Zenon, <1>3 DEF SweepRefund, Stale, TypeOK
  <2>3. Held(t) >= 0
    BY Zenon, <1>1 DEF AllocationInv
  <2>4. net'[t] = net[t] - Held(t)
    <3>1. CASE Held(t) > 0
      BY Zenon, <1>3, <3>1 DEF SweepRefund, TypeOK
    <3>2. CASE Held(t) = 0
      <4>1. net' = net
        BY <1>3, <3>2 DEF SweepRefund
      <4> QED BY <1>1, <3>2, <4>1
    <3> QED BY <1>1, <2>3, <3>1, <3>2
  <2>5. Held(t)' = 0
    <3>1. net[t] \in Int /\ Gross \in Nat
      BY Zenon, <1>1
    <3> QED BY <2>2, <2>4, <3>1 DEF Held
  <2>6. Touch(t)
    BY Zenon, <2>2, <2>5 DEF Touch
  <2> QED BY <2>1, <2>6, TouchStep
<1>4. CASE FileCommit(t)
  <2>1. Only(t)
    BY <1>4 DEF FileCommit, Only, TypeOK
  <2>2. fwd'[t] = fwd[t] /\ net'[t] = net[t]
    BY Zenon, <1>4 DEF FileCommit
  <2>3. Held(t)' = Held(t)
    BY Zenon, <2>2 DEF Held
  <2>4. \/ status'[t] = status[t]
        \/ status[t] \in {"locked", "settled"} /\ status'[t] = "disputed"
    BY <1>4 DEF FileCommit, Disputable, TypeOK
  <2>5. Touch(t)
    BY Zenon, <2>2, <2>3, <2>4 DEF Touch
  <2> QED BY <2>1, <2>5, TouchStep
<1>5. CASE \E k \in 0..2 : Finalize(t, k)
  <2> PICK k \in 0..2 : Finalize(t, k)
    BY Zenon, <1>5
  <2>1. fwd' = fwd
    BY Zenon DEF Finalize
  <2>2. CASE UNCHANGED <<status, net, paid, balance>>
    BY Zenon, <2>1, <2>2, QuietStep
  <2>3. CASE /\ status[t] = "disputed" /\ status' = [status EXCEPT ![t] = CloseAs(t)]
             /\ net'[t] = net[t] - Held(t) /\ \A u \in Task \ {t} : net'[u] = net[u]
    <3>1. Only(t)
      BY Zenon, <2>1, <2>3 DEF Only, TypeOK
    <3>2. status'[t] \in {"settled", "released"}
      BY Zenon, <2>3 DEF CloseAs, TypeOK
    <3>3. Held(t)' = 0
      BY <1>1, <2>1, <2>3 DEF Held
    <3>4. Touch(t)
      BY Zenon, <2>1, <2>3, <3>2, <3>3 DEF Touch
    <3> QED BY Zenon, <3>1, <3>4, TouchStep
  <2> QED BY Zenon, <2>2, <2>3, FinalizeOutcome
<1>6. CASE UNCHANGED <<status, net, fwd>>
  BY Zenon, <1>6, QuietStep
<1> QED
  BY Zenon, <1>2, <1>3, <1>4, <1>5, <1>6 DEF TaskNext, Grant, GrantReleased, Answer, ChecksChange, PeerReceive,
     SweepFlag, RecordUnrecoverable, FileReceive, WindowClose

\* Every behaviour of the escrow is a behaviour of Custody: under every
\* interleaving, crash and freeze an allocation keeps to its lifecycle, and the
\* price a forward lends is kept or comes back once.
THEOREM EscrowImplementsCustody == Spec => CustodySpec
<1>1. Init => Abstract!Start
  <2> SUFFICES ASSUME Init PROVE Abstract!Start
    BY Zenon
  <2>1. \A t \in Task : Held(t) = 0 /\ Lent(fwd[t]) = "home"
    BY DEF Init, Held, Lent
  <2>2. [t \in Task |-> Held(t)] = [t \in Task |-> 0]
    BY Zenon, <2>1
  <2>3. [t \in Task |-> Lent(fwd[t])] = [t \in Task |-> "home"]
    BY Zenon, <2>1
  <2> QED BY Zenon, <2>2, <2>3 DEF Init, Abstract!Start
<1>2. TypeOK /\ TypeOK' /\ EscrowInv /\ [Next]_vars => [Abstract!Next]_(Abstract!cvars)
  <2> SUFFICES ASSUME TypeOK, TypeOK', EscrowInv, [Next]_vars
               PROVE  [Abstract!Next]_(Abstract!cvars)
    BY Zenon
  <2>1. CASE UNCHANGED vars
    BY Zenon, <2>1, QuietStep DEF vars
  <2>2. CASE \/ \E a \in Account, n \in Amounts : Withdraw(a, n)
             \/ PeerRemoved \/ Freeze \/ Unfreeze \/ Crash
    BY Zenon, <2>2, QuietStep DEF Withdraw, PeerRemoved, Freeze, Unfreeze, Crash
  <2> QED BY Zenon, <2>1, <2>2, StepRefines, PassRefines, TaskRefines DEF Next
<1> QED BY <1>1, <1>2, EscrowTypes, EscrowInvariance, PTL DEF Spec, CustodySpec, Abstract!Spec
=============================================================================
