----------------------- MODULE WithdrawalPayoutProofs -----------------------
(***************************************************************************)
(* Proofs that the relay's durable-nonce payouts are never both paid and   *)
(* refunded, for every set of withdrawals and every bound: the resolution  *)
(* loop, the operator's doors, the chain, the freeze and crashes preserve  *)
(* the invariant, and what follows from it.                                *)
(***************************************************************************)
EXTENDS WithdrawalPayoutFire, Sums

\* The tuples of variables are only abbreviations.
USE DEF ledger, attempt, finals, fire, ticking, oper, chain, bounds

\* A step of the loop's own resolveWithdrawal of one row.
LEMMA LoopMoves ==
  ASSUME TypeOK, SafeInv, NEW w \in W, SameBut(loopPc, loopPc', w),
         UNCHANGED <<payNonce, firePc, fireLane, inFlight, reserved, opPc, opAsk, nonce,
                     payLanded>>,
         SameBut(status, status', w),
         \/ status'[w] = status[w]
         \/ status[w] = "processing" /\ status'[w] \in {"failed", "completed"},
         loopPc[w] # "idle",
         \/ loopPc'[w] = "idle"
         \/ loopPc'[w] = "kill" /\ payNonce[w] # None
         \/ loopPc'[w] = "sign" /\ payLanded[w] = "ok"
  PROVE  LaneInv' /\ FlightInv'
<1>1. Flight(w)
  BY Zenon DEF SafeInv, FlightInv
<1>2. Flight(w)'
  BY Zenon, <1>1 DEF Flight, Held, Deciding
<1> QED
  BY Zenon, <1>2, FlightAt, LaneFrame DEF SafeInv, SameBut

\* A step of the resolution loop preserves it.
LEMMA LoopSafe ==
  ASSUME TypeOK, SafeInv, NEW w \in W, LoopNext(w)
  PROVE  SafeInv'
<1>1. loopPc \in [W -> ResPcs]
  BY Zenon DEF TypeOK
<1>2. Flight(w)
  BY Zenon DEF SafeInv, FlightInv
<1>3. loopPc[w] = "empty" => payNonce[w] = None
  BY Zenon, <1>2 DEF Flight
<1>4. CASE LoopResolve(w)
  <2>1. UNCHANGED <<status, payNonce, payFinal, killFinal, firePc, fireLane, inFlight,
                    reserved, opPc, opAsk, nonce, net, payLanded, killLanded, attested>>
    BY Zenon, <1>4 DEF LoopResolve
  <2>2. CASE UNCHANGED loopPc
    BY Zenon, <2>1, <2>2, FrameSafe
  <2>3. CASE /\ status[w] = "processing" /\ w \notin inFlight
             /\ loopPc' = [loopPc EXCEPT ![w] = Snapshot(w)]
    <3>1. /\ SameBut(loopPc, loopPc', w) /\ loopPc'[w] \in {"empty", "read", "known"}
          /\ loopPc'[w] = "empty" <=> payNonce[w] = None
      BY Zenon, <1>1, <2>3 DEF SameBut, Snapshot
    <3>2. Flight(w)'
      BY Zenon, <1>2, <2>1, <2>3, <3>1 DEF Flight, Held, Deciding
    <3>3. FlightInv'
      BY Zenon, <2>1, <3>1, <3>2, FlightAt DEF SafeInv, SameBut
    <3> QED
      BY Zenon, <2>1, <3>3, LaneFrame, ChainFrame, SettleFrame DEF SafeInv
  <2> QED
    BY Zenon, <1>4, <2>2, <2>3 DEF LoopResolve
<1>5. CASE LoopRefund(w)
  <2>1. PICK v \in NotPaid : readChainVerdict(w, loopPc[w], v)
    BY Zenon, <1>5 DEF LoopRefund
  <2>2. /\ \A u \in W : payFinal'[u] # "null" => payFinal'[u] = payLanded[u]
        /\ \A u \in W : killFinal'[u] # "null" => killLanded[u]
        /\ payLanded[w] # "ok" /\ (payNonce[w] = None \/ payNonce[w] < nonce)
        /\ loopPc[w] # "idle"
    BY Zenon, <2>1, <1>3, VerdictSound DEF SafeInv
  <2>3. \/ /\ status[w] = "processing" /\ SameBut(status, status', w) /\ status'[w] = "failed"
        \/ UNCHANGED status
    BY Zenon, <1>5, StatusWrites DEF LoopRefund
  <2>4. /\ SameBut(loopPc, loopPc', w) /\ loopPc'[w] = "idle"
        /\ UNCHANGED <<payNonce, firePc, fireLane, inFlight, reserved, opPc, opAsk, nonce, net,
                       payLanded, killLanded, attested>>
    BY Zenon, <1>1, <1>5 DEF LoopRefund, LoopStep, SameBut
  <2>5. LaneInv' /\ FlightInv'
    BY Zenon, <2>2, <2>3, <2>4, LoopMoves DEF SameBut
  <2>6. ChainInv' /\ SettleInv'
    BY Zenon, <2>2, <2>3, <2>4, ChainRead, RefundSettles, SettleFrame DEF SafeInv
  <2> QED
    BY Zenon, <2>5, <2>6 DEF SafeInv
<1>6. CASE LoopUndecided(w) \/ LoopPaid(w)
  <2>1. PICK v \in {"undecided", "paid"} : readChainVerdict(w, loopPc[w], v)
          /\ (LoopPaid(w) => v = "paid")
    BY Zenon, <1>6 DEF LoopUndecided, LoopPaid
  <2>2. /\ \A u \in W : payFinal'[u] # "null" => payFinal'[u] = payLanded[u]
        /\ \A u \in W : killFinal'[u] # "null" => killLanded[u]
        /\ loopPc[w] \in {"read", "known"} /\ (v = "paid" => payLanded[w] = "ok")
    BY Zenon, <2>1, <1>3, VerdictSound DEF SafeInv
  <2>3. /\ SameBut(loopPc, loopPc', w)
        /\ loopPc'[w] \in {"idle", "kill"} \/ (loopPc'[w] = "sign" /\ v = "paid")
        /\ UNCHANGED <<status, payNonce, firePc, fireLane, inFlight, reserved, opPc, opAsk,
                       nonce, net, payLanded, killLanded, attested>>
    BY Zenon, <1>1, <1>6, <2>1 DEF LoopUndecided, LoopPaid, LoopStep, SameBut
  <2>4. payNonce[w] # None
    BY Zenon, <1>2, <2>2 DEF Flight
  <2>5. LaneInv' /\ FlightInv'
    BY Zenon, <2>2, <2>3, <2>4, LoopMoves DEF SameBut
  <2> QED
    BY Zenon, <2>2, <2>3, <2>5, ChainRead, SettleFrame DEF SafeInv
<1>7. CASE LoopComplete(w)
  <2>1. \/ status[w] = "processing" /\ SameBut(status, status', w) /\ status'[w] = "completed"
        \/ UNCHANGED status
    BY Zenon, <1>7, StatusWrites DEF LoopComplete
  <2>2. /\ SameBut(loopPc, loopPc', w) /\ loopPc'[w] = "idle" /\ loopPc[w] = "sign"
        /\ UNCHANGED <<payNonce, payFinal, killFinal, firePc, fireLane, inFlight, reserved,
                       opPc, opAsk, nonce, net, payLanded, killLanded, attested>>
    BY Zenon, <1>1, <1>7 DEF LoopComplete, LoopStep, SameBut
  <2>3. LaneInv' /\ FlightInv'
    BY Zenon, <2>1, <2>2, LoopMoves DEF SameBut
  <2>4. payLanded[w] = "ok"
    BY Zenon, <1>2, <2>2 DEF Flight
  <2>5. SettleInv'
    BY Zenon, <2>1, <2>2, <2>4, PaidSettles, SettleFrame DEF SafeInv
  <2> QED
    BY Zenon, <2>2, <2>3, <2>5, ChainFrame DEF SafeInv
<1>8. CASE LoopKill(w)
  <2>1. /\ SameBut(loopPc, loopPc', w) /\ loopPc'[w] = "idle" /\ loopPc[w] = "kill"
        /\ net' \in {net, net \cup {<<"kill", w>>}}
        /\ UNCHANGED <<status, payNonce, payFinal, killFinal, firePc, fireLane, inFlight,
                       reserved, opPc, opAsk, nonce, payLanded, killLanded, attested>>
    BY Zenon, <1>1, <1>8 DEF LoopKill, BroadcastKill, LoopStep, SameBut
  <2>2. LaneInv' /\ FlightInv'
    BY Zenon, <2>1, LoopMoves DEF SameBut
  <2>3. payNonce[w] # None
    BY Zenon, <1>2, <2>1 DEF Flight
  <2>4. ChainInv'
    BY Zenon, <2>1, <2>3, KillSafe DEF SafeInv
  <2> QED
    BY Zenon, <2>1, <2>2, <2>4, SettleFrame DEF SafeInv
<1> QED
  BY Zenon, <1>4, <1>5, <1>6, <1>7, <1>8 DEF LoopNext

\* A step of the loop's tick preserves it.
LEMMA TickSafe ==
  ASSUME TypeOK, SafeInv, TickNext
  PROVE  SafeInv'
<1>1. CASE LoopTick
  BY Zenon, <1>1, FrameSafe DEF LoopTick
<1>2. CASE LoopFired
  BY Zenon, <1>2, FrameSafe DEF LoopFired
<1>3. CASE LoopFire
  <2> DEFINE w == Head(loopQ)
  <2>1. UNCHANGED <<status, payNonce, payFinal, killFinal, inFlight, reserved, loopPc, opPc,
                    opAsk, nonce, net, payLanded, killLanded, attested>>
    BY Zenon, <1>3 DEF LoopFire
  <2>2. \/ UNCHANGED <<firePc, fireLane>>
        \/ /\ status[w] = "pending"
           /\ firePc' = [firePc EXCEPT ![w] = "lane"]
           /\ \E n \in laneReadFloor : fireLane' = [fireLane EXCEPT ![w] = n]
    BY Zenon, <1>3 DEF LoopFire
  <2>3. CASE UNCHANGED <<firePc, fireLane>>
    BY Zenon, <2>1, <2>3, FrameSafe
  <2> HIDE DEF w
  <2>4. CASE /\ status[w] = "pending"
             /\ firePc' = [firePc EXCEPT ![w] = "lane"]
             /\ \E n \in laneReadFloor : fireLane' = [fireLane EXCEPT ![w] = n]
    <3>1. firePc \in [W -> FirePcs] /\ fireLane \in [W -> Nonce]
      BY Zenon DEF TypeOK
    <3>2. CASE w \in W
      <4>1. SameBut(firePc, firePc', w) /\ firePc'[w] = "lane" /\ SameBut(fireLane, fireLane', w)
        BY Zenon, <2>4, <3>1, <3>2 DEF SameBut
      <4> QED
        BY Zenon, <2>1, <2>4, <3>2, <4>1, FireStarts DEF SameBut
    <3>3. CASE w \notin W
      <4>1. UNCHANGED <<firePc, fireLane>>
        BY Zenon, <2>4, <3>1, <3>3
      <4> QED
        BY Zenon, <2>1, <4>1, FrameSafe
    <3> QED
      BY Zenon, <3>2, <3>3
  <2> QED
    BY Zenon, <2>2, <2>3, <2>4
<1> QED
  BY Zenon, <1>1, <1>2, <1>3 DEF TickNext

\* A step of an operator's request on one row.
LEMMA OpMoves ==
  ASSUME TypeOK, SafeInv, NEW w \in W, SameBut(opPc, opPc', w), SameBut(opAsk, opAsk', w),
         UNCHANGED <<payNonce, firePc, fireLane, inFlight, reserved, loopPc, nonce,
                     payLanded>>,
         SameBut(status, status', w),
         \/ status'[w] = status[w]
         \/ status[w] = "processing" /\ w \notin inFlight /\ status'[w] \in {"failed", "completed"}
         \/ status[w] = "pending" /\ status'[w] \in {"failed", "completed"},
         \/ opPc'[w] \notin Deciding
         \/ /\ w \notin inFlight /\ status'[w] \notin {"none", "pending"}
            /\ \/ opPc'[w] = "empty" /\ payNonce[w] = None
               \/ opPc'[w] \in {"read", "known", "kill"} /\ payNonce[w] # None
               \/ opPc'[w] = "sign" /\ (opAsk'[w] = "paid" => payLanded[w] = "ok")
  PROVE  LaneInv' /\ FlightInv'
<1>1. Flight(w)
  BY Zenon DEF SafeInv, FlightInv
<1>2. Flight(w)'
  BY Zenon, <1>1 DEF Flight, Held, Deciding
<1> QED
  BY Zenon, <1>2, FlightAt, LaneFrame DEF SafeInv, SameBut

\* What OpStep does to the request.
LEMMA OpStepMoves ==
  ASSUME TypeOK, NEW w \in W, NEW pc, NEW ask, OpStep(w, pc, ask)
  PROVE  /\ SameBut(opPc, opPc', w) /\ opPc'[w] = pc
         /\ SameBut(opAsk, opAsk', w) /\ opAsk'[w] = ask
         /\ UNCHANGED <<firePc, fireLane, inFlight, reserved, loopPc>>
BY Zenon DEF TypeOK, OpStep, SameBut

\* A request that ends, having settled the row or not.
LEMMA OpEnds ==
  ASSUME TypeOK, SafeInv, NEW w \in W, OpStep(w, "idle", "paid"),
         opPc[w] \in Deciding, UNCHANGED <<payNonce, nonce, payLanded>>,
         \/ UNCHANGED status
         \/ /\ status[w] = "processing" /\ SameBut(status, status', w)
            /\ status'[w] \in {"failed", "completed"}
  PROVE  LaneInv' /\ FlightInv'
<1>1. /\ SameBut(opPc, opPc', w) /\ opPc'[w] = "idle" /\ SameBut(opAsk, opAsk', w)
      /\ UNCHANGED <<firePc, fireLane, inFlight, reserved, loopPc>>
  BY Zenon, OpStepMoves
<1>2. w \notin inFlight
  BY Zenon DEF SafeInv, FlightInv, Flight
<1>3. "idle" \notin Deciding
  BY Zenon DEF Deciding
<1> QED
  BY Zenon, <1>1, <1>2, <1>3, OpMoves DEF SameBut

\* A step of the manual doors preserves it.
LEMMA AdminSafe ==
  ASSUME TypeOK, SafeInv, NEW w \in W,
         AdminComplete(w) \/ AdminCompleteSigned(w) \/ AdminFail(w)
  PROVE  SafeInv'
<1>1. Flight(w) /\ OnChain(w)
  BY Zenon DEF SafeInv, FlightInv, ChainInv
<1>2. UNCHANGED <<payNonce, payFinal, killFinal, nonce, net, payLanded, killLanded>>
  BY Zenon DEF AdminComplete, AdminCompleteSigned, AdminFail
<1>3. PICK pc \in {"idle", "manual"} : OpStep(w, pc, "paid")
  BY Zenon DEF AdminComplete, AdminCompleteSigned, AdminFail
<1>4. /\ SameBut(opPc, opPc', w) /\ opPc'[w] \notin Deciding /\ SameBut(opAsk, opAsk', w)
      /\ UNCHANGED <<firePc, fireLane, inFlight, reserved, loopPc>>
  BY Zenon, <1>3, OpStepMoves DEF Deciding
<1>5. CASE UNCHANGED <<status, attested>>
  <2>1. LaneInv' /\ FlightInv'
    BY Zenon, <1>2, <1>4, <1>5, OpMoves DEF SameBut
  <2> QED
    BY Zenon, <1>2, <1>5, <2>1, ChainFrame, SettleFrame DEF SafeInv
<1>6. CASE FailAndRefund(w, "pending") /\ UNCHANGED attested
  <2>1. status[w] = "pending" /\ SameBut(status, status', w) /\ status'[w] = "failed"
    BY Zenon, <1>6, StatusWrites
  <2>2. payNonce[w] = None /\ payLanded[w] # "ok"
    BY Zenon, <1>1, <2>1 DEF Flight, OnChain
  <2>3. LaneInv' /\ FlightInv'
    BY Zenon, <1>2, <1>4, <2>1, OpMoves DEF SameBut
  <2>4. SettleInv'
    BY Zenon, <1>2, <1>6, <2>1, <2>2, RefundSettles DEF SafeInv
  <2> QED
    BY Zenon, <1>2, <2>3, <2>4, ChainFrame DEF SafeInv
<1>7. CASE Complete(w, "pending") /\ attested' = [attested EXCEPT ![w] = "complete"]
  <2>1. status[w] = "pending" /\ SameBut(status, status', w) /\ status'[w] = "completed"
    BY Zenon, <1>7, StatusWrites
  <2>2. attested'[w] = "complete" /\ SameBut(attested, attested', w)
    BY Zenon, <1>7 DEF TypeOK, SameBut
  <2>3. LaneInv' /\ FlightInv'
    BY Zenon, <1>2, <1>4, <2>1, OpMoves DEF SameBut
  <2>4. Settled(w)'
    BY Zenon, <1>1, <1>2, <2>1, <2>2 DEF Settled, Flight
  <2>5. SettleInv'
    BY Zenon, <1>2, <2>1, <2>2, <2>4, SettleAt DEF SafeInv
  <2> QED
    BY <1>2, <2>3, <2>5, ChainFrame DEF SafeInv
<1> QED
  BY Zenon, <1>5, <1>6, <1>7 DEF AdminComplete, AdminCompleteSigned, AdminFail

\* A step of /reconcile preserves it.
LEMMA ReconcileSafe ==
  ASSUME TypeOK, SafeInv, NEW w \in W,
         \/ Reconcile(w) \/ ReconcileNotPaid(w) \/ ReconcileRefused(w) \/ ReconcilePaid(w)
         \/ ReconcileSigned(w) \/ ReconcileUndecided(w) \/ ReconcileKill(w)
         \/ ReconcileOverride(w)
  PROVE  SafeInv'
<1>1. Flight(w)
  BY Zenon DEF SafeInv, FlightInv
<1>2. opPc[w] = "empty" => payNonce[w] = None
  BY Zenon, <1>1 DEF Flight
<1>3. opPc[w] \in Deciding => w \notin inFlight /\ status[w] \notin {"none", "pending"}
  BY Zenon, <1>1 DEF Flight
<1>4. UNCHANGED <<payNonce, nonce, payLanded, killLanded>>
  BY Zenon DEF Reconcile, ReconcileNotPaid, ReconcileRefused, ReconcilePaid, ReconcileSigned,
         ReconcileUndecided, ReconcileKill, ReconcileOverride, BroadcastKill
<1>5. CASE Reconcile(w)
  <2>1. PICK ask \in {"paid", "not_paid"} : OpStep(w, Snapshot(w), ask)
    BY Zenon, <1>5 DEF Reconcile
  <2>2. /\ status[w] = "processing" /\ w \notin inFlight
        /\ UNCHANGED <<status, payFinal, killFinal, net, attested>>
    BY Zenon, <1>5 DEF Reconcile
  <2>3. \/ Snapshot(w) = "empty" /\ payNonce[w] = None
        \/ Snapshot(w) \in {"read", "known"} /\ payNonce[w] # None
    BY Zenon DEF Snapshot
  <2>4. LaneInv' /\ FlightInv'
    BY <1>4, <2>1, <2>2, <2>3, OpStepMoves, OpMoves DEF SameBut
  <2> QED
    BY Zenon, <1>4, <2>2, <2>4, ChainFrame, SettleFrame DEF SafeInv
<1>6. CASE ReconcileNotPaid(w)
  <2>1. PICK v \in NotPaid : readChainVerdict(w, opPc[w], v)
    BY Zenon, <1>6 DEF ReconcileNotPaid
  <2>2. /\ \A u \in W : payFinal'[u] # "null" => payFinal'[u] = payLanded[u]
        /\ \A u \in W : killFinal'[u] # "null" => killLanded[u]
        /\ payLanded[w] # "ok" /\ (payNonce[w] = None \/ payNonce[w] < nonce)
        /\ opPc[w] \in Deciding
    BY Zenon, <2>1, <1>2, VerdictSound DEF SafeInv, Deciding
  <2>3. /\ \/ /\ status[w] = "processing" /\ SameBut(status, status', w)
              /\ status'[w] = "failed"
           \/ UNCHANGED status
        /\ OpStep(w, "idle", "paid") /\ UNCHANGED <<net, attested>>
    BY Zenon, <1>6, StatusWrites DEF ReconcileNotPaid
  <2>4. LaneInv' /\ FlightInv'
    BY Zenon, <1>4, <2>2, <2>3, OpEnds
  <2>5. ChainInv' /\ SettleInv'
    BY Zenon, <1>4, <2>2, <2>3, ChainRead, RefundSettles, SettleFrame DEF SafeInv
  <2> QED
    BY Zenon, <2>4, <2>5 DEF SafeInv
<1>7. CASE ReconcileRefused(w) \/ ReconcilePaid(w) \/ ReconcileUndecided(w)
  <2>1. PICK v \in NotPaid \cup {"paid", "undecided"} :
          /\ readChainVerdict(w, opPc[w], v)
          /\ \/ OpStep(w, "idle", "paid")
             \/ OpStep(w, "sign", "paid") /\ v = "paid"
             \/ OpStep(w, "sign", "attested") /\ v = "undecided"
             \/ OpStep(w, "kill", "not_paid") /\ v = "undecided"
    BY Zenon, <1>7 DEF ReconcileRefused, ReconcilePaid, ReconcileUndecided
  <2>2. /\ \A u \in W : payFinal'[u] # "null" => payFinal'[u] = payLanded[u]
        /\ \A u \in W : killFinal'[u] # "null" => killLanded[u]
        /\ v = "paid" => payLanded[w] = "ok"
        /\ v \in {"paid", "undecided"} => opPc[w] \in {"read", "known"}
        /\ opPc[w] \in Deciding
    BY Zenon, <2>1, <1>2, VerdictSound DEF SafeInv, Deciding
  <2>3. UNCHANGED <<status, net, attested>>
    BY Zenon, <1>7 DEF ReconcileRefused, ReconcilePaid, ReconcileUndecided
  <2>4. v \in {"paid", "undecided"} => payNonce[w] # None
    BY Zenon, <1>1, <2>2 DEF Flight
  <2>5. LaneInv' /\ FlightInv'
    <3>1. CASE OpStep(w, "idle", "paid")
      BY Zenon, <1>4, <2>2, <2>3, <3>1, OpEnds
    <3>2. ASSUME NEW pc, NEW ask, OpStep(w, pc, ask),
                 pc = "sign" \/ (pc = "kill" /\ payNonce[w] # None),
                 ask = "paid" => payLanded[w] = "ok"
          PROVE  LaneInv' /\ FlightInv'
      <4>1. /\ SameBut(opPc, opPc', w) /\ opPc'[w] = pc
            /\ SameBut(opAsk, opAsk', w) /\ opAsk'[w] = ask
            /\ UNCHANGED <<firePc, fireLane, inFlight, reserved, loopPc>>
        BY Zenon, <3>2, OpStepMoves
      <4> QED
        BY Zenon, <1>3, <1>4, <2>2, <2>3, <3>2, <4>1, OpMoves DEF SameBut
    <3> QED
      BY Zenon, <2>1, <2>2, <2>4, <3>1, <3>2
  <2> QED
    BY Zenon, <1>4, <2>2, <2>3, <2>5, ChainRead, SettleFrame DEF SafeInv
<1>8. CASE ReconcileSigned(w)
  <2>1. opPc[w] \in Deciding /\ (opAsk[w] = "paid" => payLanded[w] = "ok")
    BY Zenon, <1>1, <1>8 DEF ReconcileSigned, Deciding, Flight
  <2>2. /\ \/ /\ status[w] = "processing" /\ SameBut(status, status', w)
              /\ status'[w] = "completed"
              /\ attested' = [attested EXCEPT ![w] = IF opAsk[w] = "paid" THEN @ ELSE "paid"]
           \/ UNCHANGED <<status, attested>>
        /\ OpStep(w, "idle", "paid") /\ UNCHANGED <<net, payFinal, killFinal>>
    BY Zenon, <1>8, StatusWrites DEF ReconcileSigned
  <2>3. LaneInv' /\ FlightInv'
    BY Zenon, <1>4, <2>1, <2>2, OpEnds
  <2>4. CASE UNCHANGED <<status, attested>>
    BY Zenon, <1>4, <2>2, <2>3, <2>4, ChainFrame, SettleFrame DEF SafeInv
  <2>5. CASE /\ status[w] = "processing" /\ SameBut(status, status', w)
             /\ status'[w] = "completed"
             /\ attested' = [attested EXCEPT ![w] = IF opAsk[w] = "paid" THEN @ ELSE "paid"]
    <3>1. SameBut(attested, attested', w)
          /\ attested'[w] = (IF opAsk[w] = "paid" THEN attested[w] ELSE "paid")
      BY Zenon, <2>5 DEF TypeOK, SameBut
    <3>2. attested[w] = "none"
      BY Zenon, <2>5, OpenUnattested DEF SafeInv
    <3>3. Settled(w)'
      BY <1>4, <2>1, <2>5, <3>1, <3>2 DEF Settled
    <3>4. SettleInv'
      BY Zenon, <1>4, <2>5, <3>1, <3>3, SettleAt DEF SafeInv
    <3> QED
      BY Zenon, <1>4, <2>2, <2>3, <3>4, ChainFrame DEF SafeInv
  <2> QED
    BY Zenon, <2>2, <2>4, <2>5
<1>9. CASE ReconcileKill(w)
  <2>1. /\ opPc[w] = "kill" /\ OpStep(w, "idle", "paid")
        /\ net' \in {net, net \cup {<<"kill", w>>}}
        /\ UNCHANGED <<status, payFinal, killFinal, attested>>
    BY Zenon, <1>9 DEF ReconcileKill, BroadcastKill
  <2>2. payNonce[w] # None
    BY Zenon, <1>1, <2>1 DEF Flight
  <2>3. LaneInv' /\ FlightInv'
    BY Zenon, <1>4, <2>1, OpEnds DEF Deciding
  <2>4. ChainInv'
    BY Zenon, <1>4, <2>1, <2>2, KillSafe DEF SafeInv
  <2> QED
    BY Zenon, <1>4, <2>1, <2>3, <2>4, SettleFrame DEF SafeInv
<1>10. CASE ReconcileOverride(w)
  <2>1. payNonce[w] < nonce /\ opPc[w] \in Deciding
    BY Zenon, <1>10, ConsumedIsPast DEF ReconcileOverride, Deciding
  <2>2. /\ \/ /\ status[w] = "processing" /\ SameBut(status, status', w)
              /\ status'[w] = "failed" /\ attested' = [attested EXCEPT ![w] = "not_paid"]
           \/ UNCHANGED <<status, attested>>
        /\ OpStep(w, "idle", "paid") /\ UNCHANGED <<net, payFinal, killFinal>>
    BY Zenon, <1>10, StatusWrites DEF ReconcileOverride
  <2>3. LaneInv' /\ FlightInv'
    BY Zenon, <1>4, <2>1, <2>2, OpEnds
  <2>4. CASE UNCHANGED <<status, attested>>
    BY Zenon, <1>4, <2>2, <2>3, <2>4, ChainFrame, SettleFrame DEF SafeInv
  <2>5. CASE /\ status[w] = "processing" /\ SameBut(status, status', w)
             /\ status'[w] = "failed" /\ attested' = [attested EXCEPT ![w] = "not_paid"]
    <3>1. SameBut(attested, attested', w) /\ attested'[w] = "not_paid"
      BY Zenon, <2>5 DEF TypeOK, SameBut
    <3>2. Settled(w)'
      BY Zenon, <1>4, <2>1, <2>5, <3>1 DEF Settled
    <3>3. SettleInv'
      BY Zenon, <1>4, <2>5, <3>1, <3>2, SettleAt DEF SafeInv
    <3> QED
      BY Zenon, <1>4, <2>2, <2>3, <3>3, ChainFrame DEF SafeInv
  <2> QED
    BY Zenon, <2>2, <2>4, <2>5
<1> QED
  BY Zenon, <1>5, <1>6, <1>7, <1>8, <1>9, <1>10

\* The lane's value moves on: what can still land is recorded, and what was
\* consumed stays so.
LEMMA LaneAdvances ==
  ASSUME TypeOK, SafeInv, nonce' = nonce + 1,
         UNCHANGED <<status, payNonce, firePc, fireLane, reserved>>
  PROVE  /\ LaneInv'
         /\ \A u \in W : payNonce[u] < nonce => payNonce[u] < nonce'
<1>1. nonce \in Nat /\ (\A u \in W : payNonce[u] \in Int) /\ (\A u \in W : fireLane[u] \in Int)
  BY DEF TypeOK, Nonce, None
<1>2. \A u \in W : payNonce[u] < nonce => payNonce[u] < nonce'
  BY <1>1
<1>3. /\ \A u \in W : payNonce[u] <= nonce => payNonce[u] <= nonce'
      /\ \A u \in W : fireLane[u] <= nonce => fireLane[u] <= nonce'
  BY <1>1
<1>4. LaneInv'
  BY Zenon, <1>3 DEF SafeInv, LaneInv, OneNoncePerPayout
<1> QED
  BY Zenon, <1>2, <1>4

\* A payout or a kill lands.
LEMMA LandSafe ==
  ASSUME TypeOK, SafeInv, NEW w \in W, ChainNext(w)
  PROVE  SafeInv'
<1>1. /\ net' \subseteq net /\ nonce' = nonce + 1 /\ payNonce[w] = nonce
      /\ UNCHANGED <<status, payNonce, payFinal, killFinal, firePc, fireLane, inFlight,
                     reserved, loopPc, opPc, opAsk, attested>>
  BY Zenon DEF ChainNext, LandPayout, LandKill, Landable
<1>2. nonce \in Nat /\ payNonce[w] # None /\ payNonce[w] < nonce'
  BY <1>1 DEF TypeOK, Nonce, None
<1>3. payLanded[w] = "null" /\ ~killLanded[w]
  BY Zenon, <1>1, <1>2, LaneValueFresh DEF SafeInv
<1>4. /\ SameBut(payLanded, payLanded', w) /\ SameBut(killLanded, killLanded', w)
      /\ \/ killLanded'[w] = killLanded[w]
         \/ payLanded'[w] = payLanded[w]
  BY Zenon DEF TypeOK, ChainNext, LandPayout, LandKill, SameBut
<1>5. LaneInv' /\ \A u \in W : payNonce[u] < nonce => payNonce[u] < nonce'
  BY Zenon, <1>1, LaneAdvances
<1>6. ChainInv'
  <2> SUFFICES ASSUME NEW u \in W PROVE OnChain(u)'
    BY Zenon DEF ChainInv
  <2>1. OnChain(u)
    BY Zenon DEF SafeInv, ChainInv
  <2>2. CASE u # w
    BY Zenon, <1>1, <1>4, <1>5, <2>1, <2>2 DEF OnChain, SameBut
  <2>3. CASE u = w
    <3>1. payFinal[w] = "null" /\ killFinal[w] = "null"
      BY Zenon, <1>3, <2>1, <2>3 DEF OnChain
    <3> QED
      BY Zenon, <1>1, <1>2, <1>3, <1>4, <2>1, <2>3, <3>1 DEF OnChain
  <2> QED
    BY Zenon, <2>2, <2>3
<1>7. FlightInv'
  <2>1. Flight(w)
    BY DEF SafeInv, FlightInv
  <2>2. Flight(w)'
    BY Zenon, <1>1, <1>3, <2>1 DEF Flight
  <2> QED
    BY Zenon, <1>1, <1>4, <2>2, FlightAt DEF SafeInv, SameBut
<1>8. SettleInv'
  <2> SUFFICES ASSUME NEW u \in W PROVE Settled(u)'
    BY DEF SettleInv
  <2>1. Settled(u)
    BY Zenon DEF SafeInv, SettleInv
  <2>2. CASE u # w
    BY Zenon, <1>1, <1>4, <1>5, <2>1, <2>2 DEF Settled, SameBut
  <2>3. CASE u = w
    <3>1. ~(payNonce[w] < nonce)
      BY <1>1, <1>2
    <3>2. status[w] # "failed"
      BY Zenon, <1>2, <2>1, <2>3, <3>1 DEF Settled
    <3>3. status[w] = "completed" => attested[w] # "none"
      BY Zenon, <1>3, <2>1, <2>3 DEF Settled
    <3> QED
      BY Zenon, <1>1, <2>1, <2>3, <3>2, <3>3 DEF Settled
  <2> QED
    BY <2>2, <2>3
<1> QED
  BY Zenon, <1>5, <1>6, <1>7, <1>8 DEF SafeInv

\* A step of the chain, of the freeze or a crash preserves it.
LEMMA WorldSafe ==
  ASSUME TypeOK, SafeInv, ExternalAdvance \/ Freeze \/ Unfreeze \/ Crash
  PROVE  SafeInv'
<1>1. CASE ExternalAdvance
  <2>1. /\ net' \subseteq net /\ nonce' = nonce + 1
        /\ UNCHANGED <<status, payNonce, payFinal, killFinal, firePc, fireLane, inFlight,
                       reserved, loopPc, opPc, opAsk, payLanded, killLanded, attested>>
    BY Zenon, <1>1 DEF ExternalAdvance, Landable
  <2>2. LaneInv' /\ \A u \in W : payNonce[u] < nonce => payNonce[u] < nonce'
    BY Zenon, <2>1, LaneAdvances
  <2>3. ChainInv'
    BY Zenon, <2>1, <2>2 DEF SafeInv, ChainInv, OnChain
  <2>4. SettleInv'
    BY Zenon, <2>1, <2>2 DEF SafeInv, SettleInv, Settled
  <2> QED
    BY Zenon, <2>1, <2>2, <2>3, <2>4, FlightFrame DEF SafeInv
<1>2. CASE Freeze
  BY Zenon, <1>2, FrameSafe DEF Freeze
<1>3. CASE Unfreeze
  BY Zenon, <1>3, FrameSafe DEF Unfreeze
<1>4. CASE Crash
  <2>1. /\ firePc' = [u \in W |-> "idle"] /\ loopPc' = [u \in W |-> "idle"]
        /\ opPc' = [u \in W |-> "idle"] /\ inFlight' = {}
        /\ UNCHANGED <<status, payNonce, payFinal, killFinal, nonce, net, payLanded,
                       killLanded, attested>>
    BY Zenon, <1>4 DEF Crash
  <2>2. LaneInv'
    BY Zenon, <2>1 DEF SafeInv, LaneInv, OneNoncePerPayout
  <2>3. FlightInv'
    BY Zenon, <2>1 DEF SafeInv, FlightInv, Flight, Held, Deciding
  <2> QED
    BY Zenon, <2>1, <2>2, <2>3, ChainFrame, SettleFrame DEF SafeInv
<1> QED
  BY Zenon, <1>1, <1>2, <1>3, <1>4

-----------------------------------------------------------------------------
(* The theorems *)

\* The invariant is inductive: it holds in every reachable state.
THEOREM Invariance == Spec => []PayoutInv
<1>1. Init => SafeInv
  BY DEF Init, SafeInv, LaneInv, ChainInv, OnChain, FlightInv, Flight, SettleInv, Settled,
         OneNoncePerPayout, Held, Deciding, None
<1>2. TypeOK /\ SafeInv /\ [Next]_vars => SafeInv'
  <2> SUFFICES ASSUME TypeOK, SafeInv, [Next]_vars PROVE SafeInv'
    BY Zenon
  <2>1. CASE Next
    BY Zenon, <2>1, RouteSafe, FireSafe, LoopSafe, TickSafe, AdminSafe, ReconcileSafe, LandSafe,
       WorldSafe DEF Next, OpNext, OperatorNext
  <2>2. CASE UNCHANGED vars
    BY Zenon, <2>2, FrameSafe DEF vars
  <2> QED
    BY Zenon, <2>1, <2>2
<1>3. PayoutInv <=> TypeOK /\ SafeInv
  BY Zenon DEF PayoutInv, SafeInv
<1> QED
  BY <1>1, <1>2, <1>3, TypeCorrect, PTL DEF Spec

\* No withdrawal the relay refunded from chain facts, or failed while pending,
\* is ever paid, whatever the number of withdrawals, crashes and freezes.
THEOREM RefundedNeverPaid == Spec => []NeverPaidAndRefunded
<1>1. PayoutInv => NeverPaidAndRefunded
  BY Zenon DEF PayoutInv, SettleInv, Settled, NeverPaidAndRefunded
<1> QED
  BY <1>1, Invariance, PTL

\* A withdrawal completed without an operator's word was paid.
THEOREM CompletedPaid == Spec => []CompletedMeansPaid
<1>1. PayoutInv => CompletedMeansPaid
  BY Zenon DEF PayoutInv, SettleInv, Settled, CompletedMeansPaid
<1> QED
  BY <1>1, Invariance, PTL

\* No two payouts are ever signed over one nonce value.
THEOREM NonceUnique == Spec => []OneNoncePerPayout
<1>1. PayoutInv => OneNoncePerPayout
  BY Zenon DEF PayoutInv, LaneInv
<1> QED
  BY <1>1, Invariance, PTL

\* Only a landing payout changes what landed.
LEMMA LandingSteps ==
  ASSUME Next
  PROVE  UNCHANGED payLanded \/ \E w \in W : LandPayout(w)
<1>1. ASSUME NEW w \in W, WithdrawBegin(w) \/ cleanupIdempotencyKeys(w) \/ RouteNext(w)
      PROVE  UNCHANGED payLanded
  BY Zenon, <1>1 DEF RouteNext, WithdrawBegin, Withdraw, WithdrawAnswered, cleanupIdempotencyKeys
<1>2. ASSUME NEW w \in W, FireNext(w) PROVE UNCHANGED payLanded
  BY Zenon, <1>2 DEF FireNext, FireBusy, FireClaim, FireClaimLost, FireClaimFrozen, FireThrew,
     FireRecord, FireBroadcast, FireRefund, FireUndecided, FirePaid, FireComplete, FireEnd
<1>3. ASSUME NEW w \in W, LoopNext(w) PROVE UNCHANGED payLanded
  BY Zenon, <1>3 DEF LoopNext, LoopResolve, LoopRefund, LoopUndecided, LoopPaid, LoopComplete,
     LoopKill, BroadcastKill
<1>4. CASE TickNext
  BY Zenon, <1>4 DEF TickNext, LoopTick, LoopFire, LoopFired
<1>5. ASSUME NEW w \in W, OpNext(w) \/ OperatorNext(w) PROVE UNCHANGED payLanded
  BY Zenon, <1>5 DEF OperatorNext, OpNext, AdminComplete, AdminCompleteSigned, AdminFail, Reconcile,
     ReconcileNotPaid, ReconcileRefused, ReconcilePaid, ReconcileSigned, ReconcileUndecided,
     ReconcileKill, ReconcileOverride, BroadcastKill
<1>6. CASE ExternalAdvance \/ Freeze \/ Unfreeze \/ Crash
  BY Zenon, <1>6 DEF ExternalAdvance, Freeze, Unfreeze, Crash
<1>7. ASSUME NEW w \in W, LandKill(w) PROVE UNCHANGED payLanded
  BY Zenon, <1>7 DEF LandKill
<1> QED
  BY Zenon, <1>1, <1>2, <1>3, <1>4, <1>5, <1>6, <1>7 DEF Next, ChainNext

\* Money leaves the treasury only for a row its claim still holds, or one an
\* operator attested paid after that claim.
THEOREM LandsOnClaimedRow == Spec => PayoutLandsOnClaimedRow
<1> DEFINE Lands == \A w \in W : payLanded'[w] # payLanded[w] =>
                      \/ status[w] = "processing"
                      \/ status[w] = "completed" /\ attested[w] = "paid"
<1>1. ASSUME PayoutInv, NEW w \in W, LandPayout(w) PROVE Lands
  <2>1. payNonce[w] = nonce /\ nonce \in Nat /\ payNonce[w] # None
    BY <1>1 DEF PayoutInv, TypeOK, LandPayout, Nonce, None
  <2>2. payLanded[w] = "null"
    BY Zenon, <1>1, <2>1, LaneValueFresh DEF PayoutInv
  <2>3. ~(payNonce[w] < nonce)
    BY <2>1
  <2>4. Flight(w) /\ Settled(w) /\ status[w] \in Statuses /\ attested[w] \in Words
    BY Zenon, <1>1 DEF PayoutInv, TypeOK, FlightInv, SettleInv
  <2>5. status[w] = "processing" \/ (status[w] = "completed" /\ attested[w] = "paid")
    BY Zenon, <2>1, <2>2, <2>3, <2>4 DEF Flight, Settled, Statuses, Words
  <2>6. SameBut(payLanded, payLanded', w)
    BY Zenon, <1>1 DEF LandPayout, PayoutInv, TypeOK, SameBut
  <2> QED
    BY Zenon, <2>5, <2>6 DEF SameBut
<1>2. PayoutInv /\ [Next]_vars => [Lands]_vars
  <2>1. CASE UNCHANGED vars
    BY Zenon, <2>1
  <2>2. CASE Next /\ UNCHANGED payLanded
    BY Zenon, <2>2
  <2>3. ASSUME PayoutInv, NEW w \in W, LandPayout(w) PROVE [Lands]_vars
    <3> HIDE DEF Lands
    <3> QED
      BY Zenon, <1>1, <2>3
  <2> HIDE DEF Lands
  <2> QED
    BY Zenon, <2>1, <2>2, <2>3, LandingSteps
<1> QED
  BY <1>2, Invariance, PTL DEF Spec, PayoutLandsOnClaimedRow

\* What a step does to the rows: a compare-and-set from `pending` or
\* `processing`, or nothing.
LEMMA StatusSteps ==
  ASSUME TypeOK, Next
  PROVE  \/ UNCHANGED ledger
         \/ \E w \in W : Withdraw(w) \/ FireClaim(w) \/ Complete(w, "processing")
         \/ \E w \in W, from \in {"pending", "processing"} : FailAndRefund(w, from)
         \/ ~frozen /\ \E w \in W : Complete(w, "pending")
<1>1. ASSUME NEW w \in W, WithdrawBegin(w) \/ cleanupIdempotencyKeys(w) \/ RouteNext(w)
      PROVE  UNCHANGED ledger \/ Withdraw(w)
  BY Zenon, <1>1 DEF RouteNext, WithdrawBegin, WithdrawAnswered, cleanupIdempotencyKeys
<1>2. ASSUME NEW w \in W, FireNext(w)
      PROVE  \/ UNCHANGED ledger \/ FireClaim(w)
             \/ Complete(w, "processing") \/ FailAndRefund(w, "processing")
  BY Zenon, <1>2 DEF FireNext, FireBusy, FireClaimLost, FireClaimFrozen, FireThrew,
     FireRecord, FireBroadcast, FireRefund, FireUndecided, FirePaid, FireComplete
<1>3. ASSUME NEW w \in W, LoopNext(w)
      PROVE  UNCHANGED ledger \/ Complete(w, "processing") \/ FailAndRefund(w, "processing")
  BY Zenon, <1>3 DEF LoopNext, LoopResolve, LoopRefund, LoopUndecided, LoopPaid, LoopComplete, LoopKill
<1>4. CASE TickNext
  BY Zenon, <1>4 DEF TickNext, LoopTick, LoopFire, LoopFired
<1>5. ASSUME NEW w \in W, OpNext(w) \/ OperatorNext(w)
      PROVE  \/ UNCHANGED ledger \/ Complete(w, "processing")
             \/ FailAndRefund(w, "processing") \/ FailAndRefund(w, "pending")
             \/ ~frozen /\ Complete(w, "pending")
  BY Zenon, <1>5 DEF OperatorNext, OpNext, AdminComplete, AdminCompleteSigned, AdminFail, Reconcile,
     ReconcileNotPaid, ReconcileRefused, ReconcilePaid, ReconcileSigned, ReconcileUndecided,
     ReconcileKill, ReconcileOverride, Complete
<1>6. CASE ExternalAdvance \/ Freeze \/ Unfreeze \/ Crash
  BY Zenon, <1>6 DEF ExternalAdvance, Freeze, Unfreeze, Crash
<1>7. ASSUME NEW w \in W, ChainNext(w) PROVE UNCHANGED ledger
  BY Zenon, <1>7 DEF ChainNext, LandPayout, LandKill
<1> QED
  BY Zenon, <1>1, <1>2, <1>3, <1>4, <1>5, <1>6, <1>7 DEF Next

\* A settled withdrawal never changes again, and a claimed one never returns to
\* pending, though three processes write the row.
THEOREM SettledStays == Spec => SettledIsFinal
<1> DEFINE Final == \A w \in W : /\ status[w] \in {"completed", "failed"} => status'[w] = status[w]
                                 /\ status[w] = "processing" => status'[w] # "pending"
<1>1. TypeOK /\ [Next]_vars => [Final]_vars
  <2>1. ASSUME TypeOK, Next PROVE Final
    <3>1. status \in [W -> Statuses]
      BY Zenon, <2>1 DEF TypeOK
    <3> QED
      BY Zenon, <2>1, <3>1, StatusSteps DEF Withdraw, FireClaim, Complete, FailAndRefund
  <2> QED
    BY Zenon, <2>1
<1> QED
  BY <1>1, TypeCorrect, PTL DEF Spec, SettledIsFinal

\* While the relay is frozen no balance moves and no unclaimed row is claimed
\* or settled, by any step already under way.
THEOREM FreezeHolds == Spec => FrozenMovesNoMoney
<1> DEFINE Still == frozen => /\ balance' = balance
                              /\ \A w \in W : status[w] \in {"none", "pending"} =>
                                                status'[w] = status[w]
<1>1. TypeOK /\ [Next]_vars => [Still]_vars
  <2>1. ASSUME TypeOK, Next PROVE Still
    <3>1. status \in [W -> Statuses]
      BY <2>1 DEF TypeOK
    <3> QED
      BY Zenon, <2>1, <3>1, StatusSteps DEF Withdraw, FireClaim, Complete, FailAndRefund
  <2> QED
    BY Zenon, <2>1
<1> QED
  BY <1>1, TypeCorrect, PTL DEF Spec, FrozenMovesNoMoney
-----------------------------------------------------------------------------
(* Conservation *)

\* The withdrawals whose amount is debited and not refunded.
Debited == {w \in W : status[w] \in {"pending", "processing", "completed"}}

\* A movement on one account changes the total of the accounts by as much.
LEMMA CreditSum ==
  ASSUME TypeOK, NEW a \in Account, NEW n \in Int
  PROVE  /\ SumFunction(balance) \in Int
         /\ SumFunction([balance EXCEPT ![a] = n]) = SumFunction(balance) + n - balance[a]
<1> DEFINE c == [balance EXCEPT ![a] = n]
<1>1. /\ balance \in [Account -> Int] /\ c \in [Account -> Int] /\ c[a] = n
      /\ \A x \in Account \ {a} : c[x] = balance[x]
  BY DEF TypeOK
<1> HIDE DEF c
<1>2. DOMAIN balance = Account /\ DOMAIN c = Account
  BY <1>1
<1>3. \A x \in Account : balance[x] \in Int /\ c[x] \in Int
  BY <1>1
<1>4. SumFunctionOnSet(balance, Account) \in Int
  BY Zenon, <1>3, AccountsFinite, SumLaws
<1>5. SumFunctionOnSet(c, Account) = SumFunctionOnSet(balance, Account) + c[a] - balance[a]
  BY <1>1, <1>3, AccountsFinite, SumUpdate
<1>6. /\ SumFunction(balance) = SumFunctionOnSet(balance, Account)
      /\ SumFunction(c) = SumFunctionOnSet(c, Account)
  BY Zenon, <1>2 DEF SumFunction
<1> QED BY Zenon, <1>1, <1>4, <1>5, <1>6 DEF c

\* A debit with its row, or a refund with its row, moves one amount between
\* the account and the withdrawals.
LEMMA RowMoves ==
  ASSUME TypeOK, NEW D \in SUBSET W, NEW w \in D
  PROVE  /\ SumFunctionOnSet(Amount, D) \in Int /\ SumFunctionOnSet(Amount, D \ {w}) \in Int
         /\ SumFunctionOnSet(Amount, D) = Amount[w] + SumFunctionOnSet(Amount, D \ {w})
<1>1. IsFiniteSet(D) /\ IsFiniteSet(D \ {w})
  BY WithdrawalsFinite, FS_Subset
<1>2. \A x \in D : Amount[x] \in Int
  BY AmountPositive
<1> QED BY <1>1, <1>2, SumLaws

\* Micro-units are neither created nor lost, for any number of accounts and
\* withdrawals: what accounts hold, what open withdrawals hold and what was
\* paid out add up to the initial funds.
THEOREM MoneyKept == Spec => []Conservation
<1> DEFINE Total == SumFunction(balance) + SumFunctionOnSet(Amount, Debited)
<1>1. Init => Conservation
  <2> SUFFICES ASSUME Init PROVE Conservation
    BY Zenon
  <2>1. balance = Funds /\ Debited = {}
    BY DEF Init, Debited
  <2>2. DOMAIN Funds = Account /\ \A a \in Account : Funds[a] \in Int
    BY FundsType
  <2>3. SumFunctionOnSet(Funds, Account) \in Int
    BY Zenon, <2>2, AccountsFinite, SumLaws
  <2>4. SumFunctionOnSet(Amount, {}) = 0
    BY FS_EmptySet, SumLaws
  <2>5. SumFunction(balance) \in Int /\ SumFunction(balance) = SumFunction(Funds)
    BY Zenon, <2>1, <2>2, <2>3 DEF SumFunction
  <2>6. Total = SumFunction(Funds)
    BY <2>1, <2>4, <2>5
  <2> QED BY Zenon, <2>6 DEF Conservation, Debited
<1>2. ASSUME TypeOK, Next PROVE Total' = Total
  <2>1. status \in [W -> Statuses] /\ balance \in [Account -> Int]
    BY Zenon, <1>2 DEF TypeOK
  <2>2. CASE balance' = balance /\ Debited' = Debited
    BY Zenon, <2>2 DEF SumFunction
  <2>3. CASE UNCHANGED ledger
    BY Zenon, <2>2, <2>3 DEF Debited
  <2>4. ASSUME NEW w \in W, Withdraw(w) PROVE Total' = Total
    <3> DEFINE a == Owner[w]  D == Debited \cup {w}
    <3>1. a \in Account /\ Amount[w] \in Int /\ balance[a] \in Int
      BY <2>1, OwnerType, AmountPositive
    <3>2. /\ w \notin Debited /\ Debited' = D /\ D \ {w} = Debited
          /\ balance' = [balance EXCEPT ![a] = balance[a] - Amount[w]]
      BY <2>1, <2>4 DEF Withdraw, Debited
    <3>3. D \in SUBSET W /\ w \in D
      BY DEF Debited
    <3> HIDE DEF a, D
    <3>4. balance[a] - Amount[w] \in Int
      BY <3>1
    <3>5. /\ SumFunction(balance) \in Int
          /\ SumFunction(balance') = SumFunction(balance) + (balance[a] - Amount[w]) - balance[a]
      BY Zenon, <1>2, <3>1, <3>2, <3>4, CreditSum
    <3>6. /\ SumFunctionOnSet(Amount, D) = Amount[w] + SumFunctionOnSet(Amount, Debited)
          /\ SumFunctionOnSet(Amount, Debited) \in Int
      BY Zenon, <1>2, <3>2, <3>3, RowMoves
    <3>7. Total' = SumFunction(balance') + SumFunctionOnSet(Amount, D)
      BY Zenon, <3>2 DEF SumFunction
    <3> QED BY <3>1, <3>5, <3>6, <3>7
  <2>5. ASSUME NEW w \in W, NEW from \in {"pending", "processing"}, FailAndRefund(w, from)
        PROVE  Total' = Total
    <3> DEFINE a == Owner[w]
    <3>1. a \in Account /\ Amount[w] \in Int /\ balance[a] \in Int
      BY <2>1, OwnerType, AmountPositive
    <3>2. /\ w \in Debited /\ Debited' = Debited \ {w}
          /\ balance' = [balance EXCEPT ![a] = balance[a] + Amount[w]]
      BY <2>1, <2>5 DEF FailAndRefund, Debited
    <3>3. Debited \in SUBSET W
      BY DEF Debited
    <3> HIDE DEF a
    <3>4. balance[a] + Amount[w] \in Int
      BY <3>1
    <3>5. /\ SumFunction(balance) \in Int
          /\ SumFunction(balance') = SumFunction(balance) + (balance[a] + Amount[w]) - balance[a]
      BY Zenon, <1>2, <3>1, <3>2, <3>4, CreditSum
    <3>6. /\ SumFunctionOnSet(Amount, Debited) = Amount[w] + SumFunctionOnSet(Amount, Debited \ {w})
          /\ SumFunctionOnSet(Amount, Debited \ {w}) \in Int
      BY Zenon, <1>2, <3>2, <3>3, RowMoves
    <3>7. Total' = SumFunction(balance') + SumFunctionOnSet(Amount, Debited \ {w})
      BY Zenon, <3>2 DEF SumFunction
    <3> QED BY <3>1, <3>5, <3>6, <3>7
  <2>6. ASSUME NEW w \in W,
               \/ FireClaim(w) \/ Complete(w, "processing") \/ Complete(w, "pending")
        PROVE  Total' = Total
    <3>1. balance' = balance
      BY Zenon, <2>6 DEF FireClaim, Complete
    <3>2. status[w] \in {"pending", "processing"}
          /\ \E q \in {"processing", "completed"} : status' = [status EXCEPT ![w] = q]
      BY Zenon, <2>6 DEF FireClaim, Complete
    <3>3. Debited' = Debited
      BY <2>1, <3>2 DEF Debited
    <3> QED BY Zenon, <2>2, <3>1, <3>3
  <2> HIDE DEF Total
  <2> QED BY Zenon, <1>2, <2>3, <2>4, <2>5, <2>6, StatusSteps
<1>3. TypeOK /\ Conservation /\ [Next]_vars => Conservation'
  <2>1. CASE UNCHANGED vars
    BY Zenon, <2>1 DEF vars, Conservation, SumFunction
  <2>2. Conservation <=> Total = SumFunction(Funds)
    BY Zenon DEF Conservation, Debited
  <2>3. Conservation' <=> Total' = SumFunction(Funds)
    BY Zenon DEF Conservation, Debited
  <2> HIDE DEF Total
  <2> QED BY Zenon, <1>2, <2>1, <2>2, <2>3
<1> QED BY <1>1, <1>3, TypeCorrect, PTL DEF Spec
-----------------------------------------------------------------------------
(* The payout queue *)

\* A row queued or about to be queued is not claimed and has no payout.
Waiting(w) == status[w] # "processing" /\ payNonce[w] = None

\* The inductive form of QueueHoldsOnlyUnclaimed: what firePathZero will queue
\* is waiting too, from its start to the end of its lane read.
QueueInv == /\ queue \in Seq(W) /\ QueueHoldsOnlyUnclaimed
            /\ \A w \in W : firePc[w] = "lane" => Waiting(w)

\* enqueuePayout adds the row once.
LEMMA Enqueued ==
  ASSUME queue \in Seq(W), IsInjective(queue), NEW w \in W, enqueuePayout(w)
  PROVE  queue' \in Seq(W) /\ IsInjective(queue') /\ Range(queue') \subseteq Range(queue) \cup {w}
<1>1. CASE w \in Range(queue)
  BY Zenon, <1>1 DEF enqueuePayout
<1>2. CASE w \notin Range(queue)
  <2> DEFINE n == Len(queue)
  <2>1. /\ n \in Nat /\ DOMAIN queue = 1..n /\ queue' = Append(queue, w)
        /\ \A i \in 1..n : queue[i] # w
    BY <1>2 DEF enqueuePayout, Range
  <2>2. /\ queue' \in Seq(W) /\ DOMAIN queue' = 1..(n + 1) /\ queue'[n + 1] = w
        /\ \A i \in 1..n : queue'[i] = queue[i]
    BY <2>1
  <2> HIDE DEF n
  <2>3. IsInjective(queue')
    BY <2>1, <2>2 DEF IsInjective
  <2>4. Range(queue') \subseteq Range(queue) \cup {w}
    BY <2>1, <2>2 DEF Range
  <2> QED BY Zenon, <2>2, <2>3, <2>4
<1> QED BY Zenon, <1>1, <1>2

\* dequeuePayout takes the row out and leaves the others in order.
LEMMA Dequeued ==
  ASSUME queue \in Seq(W), IsInjective(queue), NEW w, dequeuePayout(w)
  PROVE  queue' \in Seq(W) /\ IsInjective(queue') /\ Range(queue') \subseteq Range(queue) \ {w}
<1>1. CASE w \notin Range(queue)
  BY <1>1 DEF dequeuePayout
<1>2. CASE w \in Range(queue)
  <2> DEFINE n == Len(queue)
             k == CHOOSE i \in DOMAIN queue : queue[i] = w
             p(i) == IF i < k THEN i ELSE i + 1
  <2>1. n \in Nat /\ DOMAIN queue = 1..n /\ queue \in [1..n -> W]
    OBVIOUS
  <2>2. k \in 1..n /\ queue[k] = w
    BY <1>2, <2>1 DEF Range
  <2>3. queue' = [i \in 1..(n - 1) |-> queue[p(i)]]
    BY Zenon, <1>2 DEF dequeuePayout
  <2> HIDE DEF n, k
  <2>4. n - 1 \in Nat /\ \A i \in 1..(n - 1) : p(i) \in 1..n /\ p(i) # k
    BY <2>1, <2>2
  <2>5. \A i, j \in 1..(n - 1) : p(i) = p(j) => i = j
    BY <2>1, <2>2
  <2> HIDE DEF p
  <2>6. DOMAIN queue' = 1..(n - 1) /\ \A i \in 1..(n - 1) : queue'[i] = queue[p(i)]
    BY Zenon, <2>3
  <2>7. queue' \in Seq(W)
    <3>1. queue' \in [1..(n - 1) -> W]
      BY <2>1, <2>3, <2>4
    <3> QED BY <2>4, <3>1
  <2>8. \A a, b \in 1..n : queue[a] = queue[b] => a = b
    BY Zenon, <2>1 DEF IsInjective
  <2>9. \A i, j \in 1..(n - 1) : queue'[i] = queue'[j] => i = j
    BY Zenon, <2>4, <2>5, <2>6, <2>8
  <2>10. IsInjective(queue')
    BY Zenon, <2>6, <2>9 DEF IsInjective
  <2>11. \A i \in 1..(n - 1) : queue'[i] \in Range(queue) /\ queue'[i] # w
    BY Zenon, <2>1, <2>2, <2>4, <2>6, <2>8 DEF Range
  <2>12. Range(queue') \subseteq Range(queue) \ {w}
    BY <2>6, <2>11 DEF Range
  <2> QED BY Zenon, <2>7, <2>10, <2>12
<1> QED BY Zenon, <1>1, <1>2

\* A step that queues, claims, records and starts nothing keeps the queue.
LEMMA QueueFrame ==
  ASSUME QueueInv, queue' = queue, payNonce' = payNonce,
         \A u \in W : status'[u] = "processing" => status[u] = "processing",
         \A u \in W : firePc'[u] = "lane" => firePc[u] = "lane"
  PROVE  QueueInv'
<1>1. queue \in Seq(W) /\ Range(queue) \subseteq W
  BY DEF QueueInv, Range
<1> QED BY Zenon, <1>1 DEF QueueInv, QueueHoldsOnlyUnclaimed, Waiting

\* Nor does one that only takes rows out of it.
LEMMA QueueShrinks ==
  ASSUME QueueInv, NEW w, dequeuePayout(w), payNonce' = payNonce,
         \A u \in W : u # w /\ status'[u] = "processing" => status[u] = "processing",
         \A u \in W : firePc'[u] = "lane" => u # w /\ firePc[u] = "lane"
  PROVE  QueueInv'
<1>1. queue \in Seq(W) /\ IsInjective(queue) /\ Range(queue) \subseteq W
  BY DEF QueueInv, QueueHoldsOnlyUnclaimed, Range
<1>2. queue' \in Seq(W) /\ IsInjective(queue') /\ Range(queue') \subseteq Range(queue) \ {w}
  BY Zenon, <1>1, Dequeued
<1> QED BY Zenon, <1>1, <1>2 DEF QueueInv, QueueHoldsOnlyUnclaimed, Waiting

\* The steps of POST /withdraw and firePathZero keep the queue.
LEMMA FireQueue ==
  ASSUME TypeOK, SafeInv, QueueInv, NEW w \in W, RouteNext(w) \/ FireNext(w)
  PROVE  QueueInv'
<1>1. status \in [W -> Statuses] /\ firePc \in [W -> FirePcs] /\ payNonce \in [W -> Nonce \cup {None}]
  BY Zenon DEF TypeOK
<1>2. queue \in Seq(W) /\ IsInjective(queue) /\ Range(queue) \subseteq W
  BY DEF QueueInv, QueueHoldsOnlyUnclaimed, Range
<1>3. CASE Withdraw(w)
  <2>1. /\ queue' = queue /\ payNonce' = payNonce /\ status[w] = "none"
        /\ status' = [status EXCEPT ![w] = "pending"] /\ firePc' = [firePc EXCEPT ![w] = "lane"]
    BY Zenon, <1>3 DEF Withdraw
  <2>2. payNonce[w] = None
    BY Zenon, <2>1 DEF SafeInv, FlightInv, Flight
  <2> QED BY Zenon, <1>1, <1>2, <2>1, <2>2 DEF QueueInv, QueueHoldsOnlyUnclaimed, Waiting
<1>4. CASE FireBusy(w)
  <2>1. /\ enqueuePayout(w) /\ firePc[w] = "lane" /\ payNonce' = payNonce /\ status' = status
        /\ firePc' = [firePc EXCEPT ![w] = "idle"]
    BY Zenon, <1>4 DEF FireBusy, Answer
  <2>2. queue' \in Seq(W) /\ IsInjective(queue') /\ Range(queue') \subseteq Range(queue) \cup {w}
    BY Zenon, <1>2, <2>1, Enqueued
  <2> QED BY Zenon, <1>1, <1>2, <2>1, <2>2 DEF QueueInv, QueueHoldsOnlyUnclaimed, Waiting
<1>5. CASE FireClaim(w)
  <2>1. /\ dequeuePayout(w) /\ payNonce' = payNonce
        /\ status' = [status EXCEPT ![w] = "processing"] /\ firePc' = [firePc EXCEPT ![w] = "send"]
    BY Zenon, <1>5 DEF FireClaim
  <2>2. \A u \in W : u # w /\ status'[u] = "processing" => status[u] = "processing"
    BY Zenon, <1>1, <2>1
  <2>3. \A u \in W : firePc'[u] = "lane" => u # w /\ firePc[u] = "lane"
    BY Zenon, <1>1, <2>1
  <2> QED BY Zenon, <2>1, <2>2, <2>3, QueueShrinks
<1>6. CASE FireClaimLost(w)
  <2>1. /\ dequeuePayout(w) /\ payNonce' = payNonce /\ status' = status
        /\ firePc' = [firePc EXCEPT ![w] = "idle"]
    BY Zenon, <1>6 DEF FireClaimLost, Answer
  <2>2. \A u \in W : firePc'[u] = "lane" => u # w /\ firePc[u] = "lane"
    BY Zenon, <1>1, <2>1
  <2> QED BY Zenon, <2>1, <2>2, QueueShrinks
<1>7. CASE FireRecord(w)
  <2>1. /\ queue' = queue /\ firePc[w] = "send" /\ status' = status
        /\ payNonce' = [payNonce EXCEPT ![w] = fireLane[w]]
        /\ firePc' = [firePc EXCEPT ![w] = "broadcast"]
    BY Zenon, <1>7 DEF FireRecord
  <2>2. status[w] = "processing"
    BY Zenon, <2>1 DEF SafeInv, FlightInv, Flight, Held
  <2>3. w \notin Range(queue)
    BY Zenon, <2>2 DEF QueueInv, QueueHoldsOnlyUnclaimed
  <2> QED BY Zenon, <1>1, <1>2, <2>1, <2>3 DEF QueueInv, QueueHoldsOnlyUnclaimed, Waiting
<1>8. CASE \/ WithdrawAnswered(w) \/ FireClaimFrozen(w) \/ FireThrew(w) \/ FireBroadcast(w)
           \/ FireRefund(w) \/ FireUndecided(w) \/ FirePaid(w) \/ FireComplete(w)
  <2>1. /\ queue' = queue /\ payNonce' = payNonce
        /\ \/ status' = status \/ status' = [status EXCEPT ![w] = "failed"]
           \/ status' = [status EXCEPT ![w] = "completed"]
    BY Zenon, <1>8 DEF WithdrawAnswered, FireClaimFrozen, Answer, FireThrew, FireBroadcast,
       FireRefund, FireUndecided, FirePaid, FireComplete, FireEnd, FailAndRefund, Complete
  <2>2. \/ firePc' = firePc
        \/ \E pc \in {"idle", "sign", "empty", "read", "known"} : firePc' = [firePc EXCEPT ![w] = pc]
    BY Zenon, <1>8 DEF WithdrawAnswered, FireClaimFrozen, Answer, FireThrew, FireBroadcast,
       FireRefund, FireUndecided, FirePaid, FireComplete, FireEnd, Snapshot
  <2>3. \A u \in W : status'[u] = "processing" => status[u] = "processing"
    BY Zenon, <1>1, <2>1
  <2>4. \A u \in W : firePc'[u] = "lane" => firePc[u] = "lane"
    BY Zenon, <1>1, <2>2
  <2> QED BY Zenon, <2>1, <2>3, <2>4, QueueFrame
<1> QED BY Zenon, <1>3, <1>4, <1>5, <1>6, <1>7, <1>8 DEF RouteNext, FireNext

\* The steps of the loop's tick keep the queue.
LEMMA TickQueue ==
  ASSUME TypeOK, SafeInv, QueueInv, TickNext
  PROVE  QueueInv'
<1>1. status \in [W -> Statuses] /\ firePc \in [W -> FirePcs]
  BY Zenon DEF TypeOK
<1>2. CASE LoopTick \/ LoopFired
  BY Zenon, <1>2, QueueFrame DEF LoopTick, LoopFired
<1>3. CASE LoopFire
  <2> DEFINE w == Head(loopQ)
  <2>1. payNonce' = payNonce /\ status' = status
    BY Zenon, <1>3 DEF LoopFire
  <2>2. CASE /\ status[w] = "pending" /\ firePc' = [firePc EXCEPT ![w] = "lane"]
             /\ queue' = queue
    <3>1. \A u \in W : status[u] = "pending" => payNonce[u] = None
      BY Zenon DEF SafeInv, FlightInv, Flight
    <3>2. \A u \in W : firePc'[u] = "lane" => firePc[u] = "lane" \/ status[u] = "pending"
      BY Zenon, <1>1, <2>2
    <3>3. queue \in Seq(W) /\ Range(queue) \subseteq W
      BY DEF QueueInv, Range
    <3> QED BY Zenon, <2>1, <2>2, <3>1, <3>2, <3>3 DEF QueueInv, QueueHoldsOnlyUnclaimed, Waiting
  <2>3. CASE dequeuePayout(w) /\ UNCHANGED firePc
    <3>1. queue \in Seq(W) /\ IsInjective(queue) /\ Range(queue) \subseteq W
      BY DEF QueueInv, QueueHoldsOnlyUnclaimed, Range
    <3> HIDE DEF w
    <3>2. queue' \in Seq(W) /\ IsInjective(queue') /\ Range(queue') \subseteq Range(queue)
      BY Zenon, <2>3, <3>1, Dequeued
    <3> QED BY Zenon, <2>1, <2>3, <3>1, <3>2 DEF QueueInv, QueueHoldsOnlyUnclaimed, Waiting
  <2> QED BY Zenon, <1>3, <2>2, <2>3 DEF LoopFire
<1> QED BY Zenon, <1>2, <1>3 DEF TickNext

\* A claimed row is out of the queue and each row is queued once, whatever the
\* tick read before the claim, so no tick fires a payout a second time.
THEOREM QueueUnclaimed == Spec => []QueueHoldsOnlyUnclaimed
<1>1. Init => QueueInv
  BY DEF Init, QueueInv, QueueHoldsOnlyUnclaimed, IsInjective, Range
<1>2. PayoutInv /\ QueueInv /\ [Next]_vars => QueueInv'
  <2> SUFFICES ASSUME TypeOK, SafeInv, QueueInv, [Next]_vars PROVE QueueInv'
    BY Zenon DEF PayoutInv, SafeInv
  <2>1. status \in [W -> Statuses]
    BY Zenon DEF TypeOK
  <2>2. CASE UNCHANGED vars
    BY Zenon, <2>2, QueueFrame DEF vars
  <2>3. ASSUME NEW w \in W, \/ WithdrawBegin(w) \/ cleanupIdempotencyKeys(w) \/ LoopNext(w)
                            \/ OpNext(w) \/ OperatorNext(w) \/ ChainNext(w)
        PROVE  QueueInv'
    <3>1. queue' = queue /\ payNonce' = payNonce /\ firePc' = firePc
      BY Zenon, <2>3 DEF WithdrawBegin, cleanupIdempotencyKeys, LoopNext, LoopResolve, LoopStep,
         LoopRefund, LoopUndecided, LoopPaid, LoopComplete, LoopKill, BroadcastKill, OpNext,
         OpStep, AdminCompleteSigned, ReconcileNotPaid, ReconcileRefused, ReconcilePaid,
         ReconcileSigned, ReconcileUndecided, ReconcileKill, ReconcileOverride, OperatorNext,
         AdminComplete, AdminFail, Reconcile, ChainNext, LandPayout, LandKill
    <3>2. \A u \in W : status'[u] = "processing" => status[u] = "processing"
      <4>1. \/ status' = status \/ \E v \in W : \E q \in {"failed", "completed"} :
                                      status' = [status EXCEPT ![v] = q]
        BY Zenon, <2>3 DEF WithdrawBegin, cleanupIdempotencyKeys, LoopNext, LoopResolve,
           LoopRefund, LoopUndecided, LoopPaid, LoopComplete, LoopKill, OpNext,
           AdminCompleteSigned, ReconcileNotPaid, ReconcileRefused, ReconcilePaid,
           ReconcileSigned, ReconcileUndecided, ReconcileKill, ReconcileOverride, OperatorNext,
           AdminComplete, AdminFail, Reconcile, ChainNext, LandPayout, LandKill, FailAndRefund,
           Complete
      <4> QED BY Zenon, <2>1, <4>1
    <3> QED BY Zenon, <3>1, <3>2, QueueFrame
  <2>4. CASE ExternalAdvance \/ Freeze \/ Unfreeze
    BY Zenon, <2>4, QueueFrame DEF ExternalAdvance, Freeze, Unfreeze
  <2>5. CASE Crash
    <3>1. /\ queue' = queue /\ payNonce' = payNonce /\ status' = status
          /\ firePc' = [w \in W |-> "idle"]
      BY Zenon, <2>5 DEF Crash
    <3>2. \A u \in W : firePc'[u] = "lane" => firePc[u] = "lane"
      BY Zenon, <3>1
    <3> QED BY Zenon, <3>1, <3>2, QueueFrame
  <2> QED BY Zenon, <2>2, <2>3, <2>4, <2>5, FireQueue, TickQueue DEF Next
<1>3. QueueInv => QueueHoldsOnlyUnclaimed
  BY Zenon DEF QueueInv
<1> QED BY <1>1, <1>2, <1>3, Invariance, PTL DEF Spec
=============================================================================
