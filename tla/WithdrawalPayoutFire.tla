------------------------ MODULE WithdrawalPayoutFire ------------------------
(***************************************************************************)
(* Type correctness of the durable-nonce payouts; the parts of their       *)
(* invariant, how each moves, and the proof that POST /withdraw and        *)
(* firePathZero preserve them.                                             *)
(***************************************************************************)
EXTENDS WithdrawalPayout, TLAPS

\* The tuples of variables are only abbreviations.
USE DEF ledger, attempt, finals, fire, ticking, oper, chain, bounds

-----------------------------------------------------------------------------
(* Types *)

\* The floor of a lane read is a nonce value.
LEMMA FloorType == TypeOK => laneReadFloor \subseteq Nonce
<1> SUFFICES ASSUME TypeOK PROVE laneReadFloor \subseteq Nonce
  BY Zenon
<1>1. RecordedNonces \subseteq Nonce
  BY DEF TypeOK, RecordedNonces
<1>2. {0} \subseteq Nonce
  BY DEF Nonce
<1> QED
  BY Zenon, <1>1, <1>2 DEF laneReadFloor

\* The transactions a withdrawal can broadcast.
LEMMA TxType == \A w \in W : <<"pay", w>> \in Tx /\ <<"kill", w>> \in Tx
BY Zenon DEF Tx

\* A step of the /withdraw route or of the 24 h sweep keeps the types.
LEMMA RouteTypes ==
  ASSUME TypeOK, NEW w \in W,
         WithdrawBegin(w) \/ cleanupIdempotencyKeys(w) \/ RouteNext(w)
  PROVE  TypeOK'
<1>1. CASE WithdrawBegin(w)
  BY Zenon, <1>1 DEF TypeOK, WithdrawBegin
<1>2. CASE cleanupIdempotencyKeys(w)
  BY Zenon, <1>2 DEF TypeOK, cleanupIdempotencyKeys
<1>3. CASE Withdraw(w)
  <2>1. status' \in [W -> Statuses] /\ balance' \in [Account -> Int]
    <3>1. Owner[w] \in Account /\ Amount[w] \in Int
      BY OwnerType, AmountPositive
    <3>2. /\ status' = [status EXCEPT ![w] = "pending"]
          /\ balance' = [balance EXCEPT ![Owner[w]] = @ - Amount[w]]
      BY Zenon, <1>3 DEF Withdraw
    <3> QED
      BY <3>1, <3>2 DEF TypeOK, Statuses
  <2>2. firePc' \in [W -> FirePcs] /\ fireLane' \in [W -> Nonce]
    BY Zenon, <1>3, FloorType DEF TypeOK, Withdraw, FirePcs
  <2> QED
    BY Zenon, <1>3, <2>1, <2>2 DEF TypeOK, Withdraw
<1>4. CASE WithdrawAnswered(w)
  BY Zenon, <1>4 DEF TypeOK, WithdrawAnswered
<1> QED
  BY Zenon, <1>1, <1>2, <1>3, <1>4 DEF RouteNext

\* A status read leaves a final status of the right type.
LEMMA VerdictTypes ==
  ASSUME TypeOK, NEW w \in W, NEW pc, NEW v, readChainVerdict(w, pc, v)
  PROVE  payFinal' \in [W -> Finals] /\ killFinal' \in [W -> Finals]
BY DEF TypeOK, readChainVerdict, PayReads, KillReads, Finals

\* A refund and a completion keep the ledger's types.
LEMMA LedgerTypes ==
  ASSUME TypeOK, NEW w \in W, NEW from,
         FailAndRefund(w, from) \/ Complete(w, from) \/ UNCHANGED ledger
  PROVE  status' \in [W -> Statuses] /\ balance' \in [Account -> Int]
BY OwnerType, AmountPositive DEF TypeOK, FailAndRefund, Complete, Statuses

\* A step of firePathZero keeps the types.
LEMMA FireTypes ==
  ASSUME TypeOK, NEW w \in W, FireNext(w)
  PROVE  TypeOK'
<1>1. CASE FireBusy(w)
  BY Zenon, <1>1 DEF TypeOK, FireBusy, Answer, FirePcs, Nonce
<1>2. CASE FireClaim(w)
  BY <1>2 DEF TypeOK, FireClaim, FirePcs, Statuses, Nonce
<1>3. CASE FireClaimLost(w)
  BY Zenon, <1>3 DEF TypeOK, FireClaimLost, Answer, FirePcs, Nonce
<1>4. CASE FireClaimFrozen(w)
  BY Zenon, <1>4 DEF TypeOK, FireClaimFrozen, Answer, FirePcs, Nonce
<1>5. CASE FireThrew(w)
  BY Zenon, <1>5 DEF TypeOK, FireThrew, Snapshot, FirePcs
<1>6. CASE FireRecord(w)
  BY <1>6 DEF TypeOK, FireRecord, RecordedNonces, FirePcs, Nonce
<1>7. CASE FireBroadcast(w)
  <2>1. net' \subseteq Tx
    BY Zenon, <1>7, TxType DEF TypeOK, FireBroadcast
  <2>2. firePc' \in [W -> FirePcs]
    BY Zenon, <1>7 DEF TypeOK, FireBroadcast, Snapshot, FirePcs
  <2> QED
    BY Zenon, <1>7, <2>1, <2>2 DEF TypeOK, FireBroadcast
<1>8. CASE FireRefund(w)
  <2>1. payFinal' \in [W -> Finals] /\ killFinal' \in [W -> Finals]
    BY Zenon, <1>8, VerdictTypes DEF FireRefund
  <2>2. status' \in [W -> Statuses] /\ balance' \in [Account -> Int]
    BY Zenon, <1>8, LedgerTypes DEF FireRefund
  <2>3. PICK f \in BOOLEAN : FireEnd(w, f)
    BY Zenon, <1>8 DEF FireRefund
  <2> QED
    BY Zenon, <2>1, <2>2, <2>3 DEF TypeOK, FireEnd, Answer, FirePcs, Nonce
<1>9. CASE FireUndecided(w)
  BY Zenon, <1>9, VerdictTypes DEF TypeOK, FireUndecided, FireEnd, Answer, FirePcs, Nonce
<1>10. CASE FirePaid(w)
  BY Zenon, <1>10, VerdictTypes DEF TypeOK, FirePaid, FirePcs
<1>11. CASE FireComplete(w)
  BY Zenon, <1>11, LedgerTypes DEF TypeOK, FireComplete, FireEnd, Answer, FirePcs, Nonce
<1> QED
  BY Zenon, <1>1, <1>2, <1>3, <1>4, <1>5, <1>6, <1>7, <1>8, <1>9, <1>10, <1>11 DEF FireNext

\* A step of the resolution loop keeps the types.
LEMMA LoopTypes ==
  ASSUME TypeOK, NEW w \in W, LoopNext(w)
  PROVE  TypeOK'
<1>1. CASE LoopResolve(w)
  BY Zenon, <1>1 DEF TypeOK, LoopResolve, Snapshot, ResPcs
<1>2. CASE LoopRefund(w)
  BY Zenon, <1>2, VerdictTypes, LedgerTypes DEF TypeOK, LoopRefund, LoopStep, ResPcs
<1>3. CASE LoopUndecided(w)
  BY <1>3, VerdictTypes DEF TypeOK, LoopUndecided, LoopStep, ResPcs
<1>4. CASE LoopPaid(w)
  BY Zenon, <1>4, VerdictTypes DEF TypeOK, LoopPaid, LoopStep, ResPcs
<1>5. CASE LoopComplete(w)
  BY Zenon, <1>5, LedgerTypes DEF TypeOK, LoopComplete, LoopStep, ResPcs
<1>6. CASE LoopKill(w)
  BY Zenon, <1>6, TxType DEF TypeOK, LoopKill, BroadcastKill, LoopStep, ResPcs
<1> QED
  BY Zenon, <1>1, <1>2, <1>3, <1>4, <1>5, <1>6 DEF LoopNext

\* A step of the tick that drives that loop keeps the types.
LEMMA TickTypes ==
  ASSUME TypeOK, TickNext
  PROVE  TypeOK'
<1>1. CASE LoopTick
  BY Zenon, <1>1 DEF TypeOK, LoopTick, LoopGo
<1>2. CASE LoopFire
  BY <1>2, FloorType DEF TypeOK, LoopFire, LoopGo, FirePcs
<1>3. CASE LoopFired
  BY Zenon, <1>3 DEF TypeOK, LoopFired, LoopGo
<1> QED
  BY Zenon, <1>1, <1>2, <1>3 DEF TickNext

\* A step of the operator's doors keeps the types.
LEMMA OperatorTypes ==
  ASSUME TypeOK, NEW w \in W, OperatorNext(w) \/ OpNext(w)
  PROVE  TypeOK'
<1>1. CASE AdminComplete(w)
  BY Zenon, <1>1 DEF TypeOK, AdminComplete, OpStep, ResPcs, OpAsks
<1>2. CASE AdminCompleteSigned(w)
  BY Zenon, <1>2, LedgerTypes DEF TypeOK, AdminCompleteSigned, OpStep, ResPcs, OpAsks, Words
<1>3. CASE AdminFail(w)
  BY Zenon, <1>3, LedgerTypes DEF TypeOK, AdminFail, OpStep, ResPcs, OpAsks
<1>4. CASE Reconcile(w)
  BY <1>4 DEF TypeOK, Reconcile, OpStep, Snapshot, ResPcs, OpAsks
<1>5. CASE ReconcileNotPaid(w)
  BY Zenon, <1>5, VerdictTypes, LedgerTypes DEF TypeOK, ReconcileNotPaid, OpStep, ResPcs, OpAsks
<1>6. CASE ReconcileRefused(w)
  BY Zenon, <1>6, VerdictTypes DEF TypeOK, ReconcileRefused, OpStep, ResPcs, OpAsks
<1>7. CASE ReconcilePaid(w)
  BY Zenon, <1>7, VerdictTypes DEF TypeOK, ReconcilePaid, OpStep, ResPcs, OpAsks
<1>8. CASE ReconcileSigned(w)
  BY Zenon, <1>8, LedgerTypes DEF TypeOK, ReconcileSigned, OpStep, ResPcs, OpAsks, Words
<1>9. CASE ReconcileUndecided(w)
  BY Zenon, <1>9, VerdictTypes DEF TypeOK, ReconcileUndecided, OpStep, ResPcs, OpAsks
<1>10. CASE ReconcileKill(w)
  BY Zenon, <1>10, TxType DEF TypeOK, ReconcileKill, BroadcastKill, OpStep, ResPcs, OpAsks
<1>11. CASE ReconcileOverride(w)
  BY Zenon, <1>11, LedgerTypes DEF TypeOK, ReconcileOverride, OpStep, ResPcs, OpAsks, Words
<1> QED
  BY Zenon, <1>1, <1>2, <1>3, <1>4, <1>5, <1>6, <1>7, <1>8, <1>9, <1>10, <1>11
  DEF OperatorNext, OpNext

\* A step of the chain, of the freeze or a crash keeps the types.
LEMMA WorldTypes ==
  ASSUME TypeOK,
         (\E w \in W : ChainNext(w)) \/ ExternalAdvance \/ Freeze \/ Unfreeze \/ Crash
  PROVE  TypeOK'
<1>1. ASSUME NEW w \in W, LandPayout(w) PROVE TypeOK'
  BY <1>1 DEF TypeOK, LandPayout, Landable, Finals, Nonce
<1>2. ASSUME NEW w \in W, LandKill(w) PROVE TypeOK'
  BY <1>2 DEF TypeOK, LandKill, Landable, Nonce
<1>3. CASE ExternalAdvance
  BY <1>3 DEF TypeOK, ExternalAdvance, Landable, Nonce
<1>4. CASE Freeze
  BY <1>4 DEF TypeOK, Freeze
<1>5. CASE Unfreeze
  BY Zenon, <1>5 DEF TypeOK, Unfreeze
<1>6. CASE Crash
  BY <1>6 DEF TypeOK, Crash, FirePcs, ResPcs, OpAsks, Nonce
<1> QED
  BY Zenon, <1>1, <1>2, <1>3, <1>4, <1>5, <1>6 DEF ChainNext

\* Every reachable state of the payout system has its declared type.
THEOREM TypeCorrect == Spec => []TypeOK
<1>1. Init => TypeOK
  <2> SUFFICES ASSUME Init PROVE TypeOK
    BY Zenon
  <2>1. /\ status \in [W -> Statuses] /\ balance \in [Account -> Int]
        /\ idem \in [W -> {"none", "processing", "completed"}] /\ chainClaim \subseteq W
        /\ attested \in [W -> Words]
    BY FundsType DEF Init, Statuses, Words
  <2>2. /\ payNonce \in [W -> Nonce \cup {None}] /\ earlier \in [W -> SUBSET Nonce]
        /\ killRec \in [W -> BOOLEAN] /\ frozen \in BOOLEAN
        /\ payFinal \in [W -> Finals] /\ killFinal \in [W -> Finals]
    BY Zenon DEF Init, Finals
  <2>3. /\ firePc \in [W -> FirePcs] /\ fireLane \in [W -> Nonce]
        /\ routePc \in [W -> {"idle", "body", "fire"}] /\ inFlight \subseteq W
        /\ reserved \subseteq Nonce
        /\ loopPc \in [W -> ResPcs] /\ opPc \in [W -> ResPcs] /\ opAsk \in [W -> OpAsks]
        /\ loop \in {"queue", "firing", "resolve"} /\ todo \subseteq W
    BY Zenon DEF Init, FirePcs, ResPcs, OpAsks, Nonce
  <2>4. /\ nonce \in Nonce /\ net \subseteq Tx
        /\ payLanded \in [W -> Finals] /\ killLanded \in [W -> BOOLEAN]
        /\ external \in Nat /\ crashes \in Nat /\ freezes \in Nat
    BY Zenon DEF Init, Finals, Nonce
  <2> QED
    BY Zenon, <2>1, <2>2, <2>3, <2>4 DEF TypeOK
<1>2. TypeOK /\ [Next]_vars => TypeOK'
  <2> SUFFICES ASSUME TypeOK, [Next]_vars PROVE TypeOK'
    BY Zenon
  <2>1. CASE Next
    BY Zenon, <2>1, RouteTypes, FireTypes, LoopTypes, TickTypes, OperatorTypes, WorldTypes DEF Next
  <2>2. CASE UNCHANGED vars
    BY Zenon, <2>2 DEF TypeOK, vars
  <2> QED
    BY Zenon, <2>1, <2>2
<1> QED
  BY <1>1, <1>2, PTL DEF Spec
-----------------------------------------------------------------------------
(* How the parts of the invariant move *)

\* The parts of the invariant beyond types.
SafeInv == LaneInv /\ ChainInv /\ FlightInv /\ SettleInv

\* Functions that differ at w alone.
SameBut(f, g, w) == \A u \in W : u # w => g[u] = f[u]

\* Each part rests on the variables it reads.
LEMMA LaneFrame ==
  ASSUME LaneInv, UNCHANGED <<payNonce, nonce, firePc, fireLane, reserved>>
  PROVE  LaneInv'
BY Zenon DEF LaneInv, OneNoncePerPayout

LEMMA ChainFrame ==
  ASSUME ChainInv,
         UNCHANGED <<net, payNonce, nonce, payLanded, killLanded, payFinal, killFinal>>
  PROVE  ChainInv'
BY Zenon DEF ChainInv, OnChain

LEMMA FlightFrame ==
  ASSUME FlightInv,
         UNCHANGED <<inFlight, firePc, status, loopPc, opPc, opAsk, payNonce, payLanded>>
  PROVE  FlightInv'
BY Zenon DEF FlightInv, Flight

LEMMA SettleFrame ==
  ASSUME SettleInv, UNCHANGED <<status, payNonce, nonce, attested, payLanded>>
  PROVE  SettleInv'
BY Zenon DEF SettleInv, Settled

\* A fire outside its critical section holds no lane value; what it releases
\* was its own.
LEMMA LaneOutside ==
  ASSUME LaneInv, NEW w \in W, UNCHANGED <<payNonce, nonce>>,
         SameBut(firePc, firePc', w), SameBut(fireLane, fireLane', w),
         firePc'[w] \notin {"send", "broadcast"},
         \/ reserved' = reserved
         \/ firePc[w] \in {"send", "broadcast"} /\ reserved' = reserved \ {fireLane[w]}
  PROVE  LaneInv'
BY DEF LaneInv, OneNoncePerPayout, SameBut

\* Recording what a read of the chain finalized.
LEMMA ChainRead ==
  ASSUME ChainInv, UNCHANGED <<net, payNonce, nonce, payLanded, killLanded>>,
         \A u \in W : payFinal'[u] # "null" => payFinal'[u] = payLanded[u],
         \A u \in W : killFinal'[u] # "null" => killLanded[u]
  PROVE  ChainInv'
BY Zenon DEF ChainInv, OnChain

\* Broadcasting the kill of a recorded payout.
LEMMA KillSafe ==
  ASSUME ChainInv, NEW w \in W, payNonce[w] # None,
         net' \in {net, net \cup {<<"kill", w>>}},
         UNCHANGED <<payNonce, nonce, payLanded, killLanded, payFinal, killFinal>>
  PROVE  ChainInv'
<1>1. ASSUME NEW u \in W, <<"pay", u>> \in net' \/ <<"kill", u>> \in net'
      PROVE  payNonce[u] # None
  BY Zenon, <1>1 DEF ChainInv, OnChain
<1> QED
  BY Zenon, <1>1 DEF ChainInv, OnChain

\* A step about one withdrawal has only that one's flight to keep.
LEMMA FlightAt ==
  ASSUME FlightInv, NEW w \in W,
         SameBut(firePc, firePc', w), SameBut(status, status', w),
         SameBut(loopPc, loopPc', w), SameBut(opPc, opPc', w), SameBut(opAsk, opAsk', w),
         SameBut(payNonce, payNonce', w), SameBut(payLanded, payLanded', w),
         inFlight' \ {w} = inFlight \ {w},
         Flight(w)'
  PROVE  FlightInv'
<1> SUFFICES ASSUME NEW u \in W, u # w PROVE Flight(u)'
  BY Zenon DEF FlightInv
<1>1. Flight(u)
  BY Zenon DEF FlightInv
<1>2. u \in inFlight' <=> u \in inFlight
  BY Zenon
<1> QED
  BY Zenon, <1>1, <1>2 DEF Flight, SameBut

\* A step that settles one withdrawal has only that one's account to keep.
LEMMA SettleAt ==
  ASSUME SettleInv, NEW w \in W, SameBut(status, status', w),
         SameBut(attested, attested', w), UNCHANGED <<payNonce, nonce, payLanded>>,
         Settled(w)'
  PROVE  SettleInv'
BY DEF SettleInv, Settled, SameBut

\* A row not settled yet was settled on nobody's word.
LEMMA OpenUnattested ==
  ASSUME TypeOK, SettleInv, NEW w \in W, status[w] \in {"none", "pending", "processing"}
  PROVE  attested[w] = "none"
BY Zenon DEF TypeOK, SettleInv, Settled, Words

\* A refund of a payout that did not land and cannot land any more, or of
\* none, keeps the row's account with its payout.
LEMMA RefundSettles ==
  ASSUME TypeOK, SettleInv, NEW w \in W, status[w] \in {"pending", "processing"},
         SameBut(status, status', w), status'[w] = "failed",
         payLanded[w] # "ok", payNonce[w] = None \/ payNonce[w] < nonce,
         UNCHANGED <<payNonce, nonce, payLanded, attested>>
  PROVE  SettleInv'
<1>1. attested[w] = "none"
  BY Zenon, OpenUnattested
<1>2. Settled(w)'
  BY Zenon, <1>1 DEF Settled
<1> QED
  BY Zenon, <1>2, SettleAt DEF SameBut

\* So does the completion of a payout that landed.
LEMMA PaidSettles ==
  ASSUME TypeOK, SettleInv, NEW w \in W, status[w] = "processing",
         SameBut(status, status', w), status'[w] = "completed", payLanded[w] = "ok",
         UNCHANGED <<payNonce, nonce, payLanded, attested>>
  PROVE  SettleInv'
<1>1. attested[w] = "none"
  BY Zenon, OpenUnattested
<1>2. Settled(w)'
  BY Zenon, <1>1 DEF Settled
<1> QED
  BY Zenon, <1>2, SettleAt DEF SameBut

\* The value the lane holds now was consumed by nothing: a payout recorded
\* over it has not landed, nor has its kill.
LEMMA LaneValueFresh ==
  ASSUME ChainInv, nonce \in Nat, NEW w \in W, payNonce[w] = nonce
  PROVE  payLanded[w] = "null" /\ ~killLanded[w]
<1>1. ~(payNonce[w] < nonce)
  OBVIOUS
<1>2. /\ payLanded[w] # "null" => payNonce[w] < nonce
      /\ killLanded[w] => payNonce[w] < nonce
  BY Zenon DEF ChainInv, OnChain
<1> QED
  BY <1>1, <1>2, Zenon

\* A different value read at or past the payout's proves the payout's consumed.
LEMMA ConsumedIsPast ==
  ASSUME TypeOK, NEW w \in W, Consumed(w)
  PROVE  payNonce[w] < nonce
<1>1. payNonce[w] \in Int /\ nonce \in Int
  BY DEF TypeOK, Nonce, None
<1>2. PICK n \in payNonce[w]..nonce : n # payNonce[w]
  BY Zenon DEF Consumed
<1> QED
  BY <1>1, <1>2

\* What a verdict proves.  A finalized status read from the chain agrees with
\* it; `paid` means the payout landed; a verdict of not paid on a snapshot that
\* is still true means the payout did not land and never can.
LEMMA VerdictSound ==
  ASSUME TypeOK, ChainInv, NEW w \in W, NEW pc, NEW v, readChainVerdict(w, pc, v),
         pc = "empty" => payNonce[w] = None
  PROVE  /\ \A u \in W : payFinal'[u] # "null" => payFinal'[u] = payLanded[u]
         /\ \A u \in W : killFinal'[u] # "null" => killLanded[u]
         /\ v = "paid" => payLanded[w] = "ok"
         /\ v \in NotPaid => /\ payLanded[w] # "ok"
                             /\ payNonce[w] = None \/ payNonce[w] < nonce
         /\ pc \in {"empty", "read", "known"}
         /\ v \in {"paid", "undecided"} => pc \in {"read", "known"}
<1>1. PICK pf \in PayReads(w, pc), kf \in KillReads(w, pc) :
        /\ pc \in {"empty", "read", "known"} /\ v = Verdict(pc, pf, kf)
        /\ payFinal' = [payFinal EXCEPT ![w] = IF @ # "null" \/ pc = "empty" THEN @ ELSE pf]
        /\ killFinal' = [killFinal EXCEPT ![w] = IF @ # "null" \/ pc = "empty" THEN @ ELSE kf]
  BY Zenon DEF readChainVerdict
<1>2. pf # "null" => pf = payLanded[w]
  BY Zenon, <1>1 DEF PayReads, ChainInv, OnChain
<1>3. kf # "null" => killLanded[w]
  BY Zenon, <1>1 DEF KillReads, ChainInv, OnChain
<1>4. pf \in Finals
  BY Zenon, <1>1 DEF PayReads, TypeOK, Finals
<1>5. \A u \in W : payFinal'[u] # "null" => payFinal'[u] = payLanded[u]
  BY Zenon, <1>1, <1>2 DEF ChainInv, OnChain, TypeOK
<1>6. \A u \in W : killFinal'[u] # "null" => killLanded[u]
  BY Zenon, <1>1, <1>3 DEF ChainInv, OnChain, TypeOK
<1>7. v = "paid" => payLanded[w] = "ok" /\ pc \in {"read", "known"}
  BY Zenon, <1>1, <1>2, <1>4 DEF Verdict, Finals
<1>8. v \in NotPaid => payLanded[w] # "ok" /\ (payNonce[w] = None \/ payNonce[w] < nonce)
  BY Zenon, <1>1, <1>2, <1>3, <1>4 DEF Verdict, NotPaid, Finals, ChainInv, OnChain
<1>9. v = "undecided" => pc \in {"read", "known"}
  BY Zenon, <1>1 DEF Verdict
<1> QED
  BY Zenon, <1>1, <1>5, <1>6, <1>7, <1>8, <1>9

-----------------------------------------------------------------------------
(* The inductive step: one lemma per process, one step per action *)

\* A step that leaves what the invariant reads preserves it.
LEMMA FrameSafe ==
  ASSUME SafeInv,
         UNCHANGED <<status, payNonce, payFinal, killFinal, firePc, fireLane, inFlight,
                     reserved, loopPc, opPc, opAsk, nonce, net, payLanded, killLanded,
                     attested>>
  PROVE  SafeInv'
BY Zenon, LaneFrame, ChainFrame, FlightFrame, SettleFrame DEF SafeInv

\* A fire that starts on a row not claimed yet.
LEMMA FireStarts ==
  ASSUME TypeOK, SafeInv, NEW w \in W,
         SameBut(firePc, firePc', w), firePc'[w] = "lane", SameBut(fireLane, fireLane', w),
         SameBut(status, status', w), status'[w] = "pending",
         status[w] \in {"none", "pending"},
         UNCHANGED <<payNonce, payFinal, killFinal, inFlight, reserved, loopPc, opPc, opAsk,
                     nonce, net, payLanded, killLanded, attested>>
  PROVE  SafeInv'
<1>1. LaneInv' /\ ChainInv'
  BY Zenon, LaneOutside, ChainFrame DEF SafeInv
<1>2. Flight(w)
  BY Zenon DEF SafeInv, FlightInv
<1>3. Flight(w)'
  BY Zenon, <1>2 DEF Flight, Held, Deciding
<1>4. FlightInv'
  BY Zenon, <1>3, FlightAt DEF SafeInv, SameBut
<1>5. attested[w] = "none"
  BY Zenon, OpenUnattested DEF SafeInv
<1>6. Settled(w)'
  BY Zenon, <1>5 DEF Settled
<1>7. SettleInv'
  BY Zenon, <1>6, SettleAt DEF SafeInv, SameBut
<1> QED
  BY Zenon, <1>1, <1>4, <1>7 DEF SafeInv

\* A step of the /withdraw route or of the 24 h sweep preserves it.
LEMMA RouteSafe ==
  ASSUME TypeOK, SafeInv, NEW w \in W,
         WithdrawBegin(w) \/ cleanupIdempotencyKeys(w) \/ RouteNext(w)
  PROVE  SafeInv'
<1>1. CASE WithdrawBegin(w)
  BY Zenon, <1>1, FrameSafe DEF WithdrawBegin
<1>2. CASE cleanupIdempotencyKeys(w)
  BY Zenon, <1>2, FrameSafe DEF cleanupIdempotencyKeys
<1>3. CASE Withdraw(w)
  <2>1. firePc \in [W -> FirePcs] /\ fireLane \in [W -> Nonce] /\ status \in [W -> Statuses]
    BY Zenon DEF TypeOK
  <2>2. /\ SameBut(firePc, firePc', w) /\ firePc'[w] = "lane"
        /\ SameBut(fireLane, fireLane', w)
        /\ SameBut(status, status', w) /\ status'[w] = "pending" /\ status[w] = "none"
    BY Zenon, <1>3, <2>1 DEF Withdraw, SameBut
  <2> QED
    BY Zenon, <1>3, <2>2, FireStarts DEF Withdraw
<1>4. CASE WithdrawAnswered(w)
  BY Zenon, <1>4, FrameSafe DEF WithdrawAnswered
<1> QED
  BY Zenon, <1>1, <1>2, <1>3, <1>4 DEF RouteNext

\* A fire that ends holds no lane value and is in flight no more.
LEMMA FireEnds ==
  ASSUME LaneInv, FlightInv, NEW w \in W,
         SameBut(firePc, firePc', w), firePc'[w] = "idle", SameBut(fireLane, fireLane', w),
         SameBut(status, status', w),
         status'[w] = status[w] \/ status'[w] \in {"failed", "completed"},
         inFlight' = inFlight \ {w},
         UNCHANGED <<payNonce, nonce, reserved, loopPc, opPc, opAsk, payLanded>>
  PROVE  LaneInv' /\ FlightInv'
<1>1. LaneInv'
  BY Zenon, LaneOutside
<1>2. Flight(w)
  BY Zenon DEF FlightInv
<1>3. Flight(w)'
  BY Zenon, <1>2 DEF Flight, Held, Deciding
<1> QED
  BY Zenon, <1>1, <1>3, FlightAt DEF SameBut

\* What Answer does to the fire.
LEMMA AnswerEnds ==
  ASSUME TypeOK, NEW w \in W, NEW b, Answer(w, b)
  PROVE  SameBut(firePc, firePc', w) /\ firePc'[w] = "idle" /\ SameBut(fireLane, fireLane', w)
BY Zenon DEF TypeOK, Answer, SameBut

\* What the writes that settle a row do to its status.
LEMMA StatusWrites ==
  ASSUME TypeOK, NEW w \in W, NEW from
  PROVE  /\ FailAndRefund(w, from) =>
              status[w] = from /\ SameBut(status, status', w) /\ status'[w] = "failed"
         /\ Complete(w, from) =>
              status[w] = from /\ SameBut(status, status', w) /\ status'[w] = "completed"
BY Zenon DEF TypeOK, FailAndRefund, Complete, SameBut

\* A fire that is answered before it claims anything.
LEMMA FireAnswered ==
  ASSUME TypeOK, SafeInv, NEW w \in W, NEW b, Answer(w, b), firePc[w] = "lane",
         UNCHANGED <<ledger, attempt, finals, inFlight, reserved, loopPc, oper, chain,
                     attested>>
  PROVE  SafeInv'
<1>1. inFlight' = inFlight \ {w}
  BY Zenon DEF SafeInv, FlightInv, Flight, Held
<1>2. LaneInv' /\ FlightInv'
  BY Zenon, <1>1, FireEnds, AnswerEnds DEF SafeInv, SameBut
<1> QED
  BY Zenon, <1>2, ChainFrame, SettleFrame DEF SafeInv

\* The claim takes a value no other fire reserved and no payout recorded.
LEMMA ClaimSafe ==
  ASSUME TypeOK, SafeInv, NEW w \in W, FireClaim(w)
  PROVE  SafeInv'
<1>1. PICK n \in fireLane[w]..nonce :
        Free(n) /\ fireLane' = [fireLane EXCEPT ![w] = n] /\ reserved' = reserved \cup {n}
  BY Zenon DEF FireClaim
<1>2. /\ firePc \in [W -> FirePcs] /\ fireLane \in [W -> Nonce] /\ status \in [W -> Statuses]
      /\ payNonce \in [W -> Nonce \cup {None}] /\ nonce \in Nonce
  BY Zenon DEF TypeOK
<1>3. /\ SameBut(firePc, firePc', w) /\ firePc'[w] = "send"
      /\ SameBut(fireLane, fireLane', w) /\ fireLane'[w] = n
      /\ SameBut(status, status', w) /\ status'[w] = "processing" /\ status[w] = "pending"
      /\ inFlight' = inFlight \cup {w}
      /\ UNCHANGED <<payNonce, payFinal, killFinal, loopPc, opPc, opAsk, nonce, net,
                     payLanded, killLanded, attested>>
  BY Zenon, <1>1, <1>2 DEF FireClaim, SameBut
<1>4. n <= nonce /\ n \in Nat /\ n \notin reserved /\ \A v \in W : payNonce[v] # n
  BY <1>1, <1>2 DEF Free, isNonceValueUsed, RecordedNonces, Nonce, None
<1>5. LaneInv'
  BY <1>1, <1>3, <1>4 DEF SafeInv, LaneInv, OneNoncePerPayout, SameBut
<1>6. Flight(w) /\ attested[w] = "none"
  BY Zenon, <1>3, OpenUnattested DEF SafeInv, FlightInv
<1>7. Flight(w)' /\ Settled(w)'
  BY Zenon, <1>3, <1>6 DEF Flight, Settled, Held, Deciding
<1>8. FlightInv'
  BY Zenon, <1>3, <1>7, FlightAt DEF SafeInv, SameBut
<1>9. SettleInv' /\ ChainInv'
  BY Zenon, <1>3, <1>7, SettleAt, ChainFrame DEF SafeInv, SameBut
<1> QED
  BY Zenon, <1>5, <1>8, <1>9 DEF SafeInv

\* The record carries the reserved value to the attempts table.
LEMMA RecordSafe ==
  ASSUME TypeOK, SafeInv, NEW w \in W, FireRecord(w)
  PROVE  SafeInv'
<1>1. /\ firePc \in [W -> FirePcs] /\ fireLane \in [W -> Nonce]
      /\ payNonce \in [W -> Nonce \cup {None}]
  BY Zenon DEF TypeOK
<1>2. /\ SameBut(firePc, firePc', w) /\ firePc'[w] = "broadcast" /\ firePc[w] = "send"
      /\ SameBut(payNonce, payNonce', w) /\ payNonce'[w] = fireLane[w]
      /\ UNCHANGED <<status, payFinal, killFinal, fireLane, inFlight, reserved, loopPc, opPc,
                     opAsk, nonce, net, payLanded, killLanded, attested>>
  BY Zenon, <1>1 DEF FireRecord, SameBut
<1>3. fireLane[w] # None
  BY <1>1 DEF Nonce, None
<1>4. LaneInv'
  BY <1>2, <1>3 DEF SafeInv, LaneInv, OneNoncePerPayout, SameBut
<1>5. Flight(w) /\ OnChain(w) /\ status[w] = "processing" /\ payNonce[w] = None
  BY Zenon, <1>2 DEF SafeInv, FlightInv, ChainInv, Flight, Held
<1>6. attested[w] = "none"
  BY Zenon, <1>5, OpenUnattested DEF SafeInv
<1>7. OnChain(w)'
  BY Zenon, <1>2, <1>3, <1>5 DEF OnChain
<1>8. Flight(w)'
  BY Zenon, <1>2, <1>3, <1>5 DEF Flight, Held, Deciding
<1>9. Settled(w)'
  BY Zenon, <1>2, <1>5, <1>6 DEF Settled
<1>10. ChainInv'
  BY Zenon, <1>2, <1>7 DEF SafeInv, ChainInv, OnChain, SameBut
<1>11. FlightInv'
  BY Zenon, <1>2, <1>8, FlightAt DEF SafeInv, SameBut
<1>12. SettleInv'
  BY Zenon, <1>2, <1>9 DEF SafeInv, SettleInv, Settled, SameBut
<1> QED
  BY Zenon, <1>4, <1>10, <1>11, <1>12 DEF SafeInv

\* sendPayout ends, by a throw or after the broadcast: the value is released
\* and the fire turns to the verdict.
LEMMA SendSafe ==
  ASSUME TypeOK, SafeInv, NEW w \in W, FireThrew(w) \/ FireBroadcast(w)
  PROVE  SafeInv'
<1>1. firePc \in [W -> FirePcs]
  BY Zenon DEF TypeOK
<1>2. /\ SameBut(firePc, firePc', w) /\ firePc'[w] = Snapshot(w)
      /\ firePc[w] \in {"send", "broadcast"} /\ reserved' = reserved \ {fireLane[w]}
      /\ net' \in {net, net \cup {<<"pay", w>>}}
      /\ UNCHANGED <<status, payNonce, payFinal, killFinal, fireLane, inFlight, loopPc, opPc,
                     opAsk, nonce, payLanded, killLanded, attested>>
  BY Zenon, <1>1 DEF FireThrew, FireBroadcast, SameBut
<1>3. firePc[w] = "broadcast" => payNonce[w] # None
  <2>1. fireLane[w] # None
    BY DEF TypeOK, Nonce, None
  <2> QED
    BY Zenon, <2>1 DEF SafeInv, LaneInv
<1>4. net' # net => payNonce[w] # None
  BY Zenon, <1>3 DEF FireThrew, FireBroadcast
<1>5. firePc'[w] \in {"empty", "read", "known"} /\ (firePc'[w] = "empty" => payNonce[w] = None)
  BY Zenon, <1>2 DEF Snapshot
<1>6. LaneInv'
  BY Zenon, <1>2, <1>5, LaneOutside DEF SafeInv, SameBut
<1>7. ChainInv'
  <2>1. ASSUME NEW u \in W, <<"pay", u>> \in net' \/ <<"kill", u>> \in net'
        PROVE  payNonce[u] # None
    BY Zenon, <1>2, <1>4, <2>1 DEF SafeInv, ChainInv, OnChain
  <2> QED
    BY Zenon, <1>2, <2>1 DEF SafeInv, ChainInv, OnChain
<1>8. Flight(w)
  BY Zenon DEF SafeInv, FlightInv
<1>9. Flight(w)'
  BY Zenon, <1>2, <1>5, <1>8 DEF Flight, Held, Deciding
<1>10. FlightInv'
  BY Zenon, <1>2, <1>9, FlightAt DEF SafeInv, SameBut
<1> QED
  BY Zenon, <1>2, <1>6, <1>7, <1>10, SettleFrame DEF SafeInv

\* A step of firePathZero preserves it.
LEMMA FireSafe ==
  ASSUME TypeOK, SafeInv, NEW w \in W, FireNext(w)
  PROVE  SafeInv'
<1>1. CASE FireBusy(w)
  BY Zenon, <1>1, FireAnswered DEF FireBusy
<1>2. CASE FireClaimLost(w)
  BY Zenon, <1>2, FireAnswered DEF FireClaimLost
<1>3. CASE FireClaimFrozen(w)
  BY Zenon, <1>3, FireAnswered DEF FireClaimFrozen
<1>4. CASE FireClaim(w)
  BY Zenon, <1>4, ClaimSafe
<1>5. CASE FireThrew(w) \/ FireBroadcast(w)
  BY Zenon, <1>5, SendSafe
<1>6. CASE FireRecord(w)
  BY <1>6, RecordSafe
<1>7. Flight(w)
  BY Zenon DEF SafeInv, FlightInv
<1>8. firePc[w] = "empty" => payNonce[w] = None
  BY Zenon, <1>7 DEF Flight
<1>9. ASSUME NEW b, FireEnd(w, b), SameBut(status, status', w),
             status'[w] = status[w] \/ status'[w] \in {"failed", "completed"}
      PROVE  LaneInv' /\ FlightInv'
  BY Zenon, <1>9, FireEnds, AnswerEnds DEF FireEnd, SafeInv
<1>10. CASE FireRefund(w)
  <2>1. PICK v \in NotPaid : readChainVerdict(w, firePc[w], v)
    BY Zenon, <1>10 DEF FireRefund
  <2>2. /\ \A u \in W : payFinal'[u] # "null" => payFinal'[u] = payLanded[u]
        /\ \A u \in W : killFinal'[u] # "null" => killLanded[u]
        /\ payLanded[w] # "ok" /\ (payNonce[w] = None \/ payNonce[w] < nonce)
    BY Zenon, <2>1, <1>8, VerdictSound DEF SafeInv
  <2>3. PICK b : FireEnd(w, b)
    BY Zenon, <1>10 DEF FireRefund
  <2>4. \/ /\ status[w] = "processing" /\ SameBut(status, status', w) /\ status'[w] = "failed"
        \/ UNCHANGED status
    BY Zenon, <1>10, StatusWrites DEF FireRefund
  <2>5. LaneInv' /\ FlightInv'
    BY Zenon, <1>9, <2>3, <2>4 DEF SameBut
  <2>6. ChainInv' /\ SettleInv'
    BY Zenon, <2>2, <2>3, <2>4, ChainRead, RefundSettles, SettleFrame DEF FireEnd, SafeInv
  <2> QED
    BY Zenon, <2>5, <2>6 DEF SafeInv
<1>11. CASE FireUndecided(w)
  <2>1. /\ \A u \in W : payFinal'[u] # "null" => payFinal'[u] = payLanded[u]
        /\ \A u \in W : killFinal'[u] # "null" => killLanded[u]
    BY Zenon, <1>11, <1>8, VerdictSound DEF SafeInv, FireUndecided
  <2>2. LaneInv' /\ FlightInv'
    BY Zenon, <1>11, <1>9 DEF FireUndecided, SameBut
  <2> QED
    BY Zenon, <1>11, <2>1, <2>2, ChainRead, SettleFrame DEF FireUndecided, FireEnd, SafeInv
<1>12. CASE FirePaid(w)
  <2>1. /\ \A u \in W : payFinal'[u] # "null" => payFinal'[u] = payLanded[u]
        /\ \A u \in W : killFinal'[u] # "null" => killLanded[u]
        /\ payLanded[w] = "ok" /\ firePc[w] \in {"read", "known"}
    BY Zenon, <1>12, <1>8, VerdictSound DEF SafeInv, FirePaid
  <2>2. firePc \in [W -> FirePcs]
    BY Zenon DEF TypeOK
  <2>3. /\ SameBut(firePc, firePc', w) /\ firePc'[w] = "sign"
        /\ UNCHANGED <<status, payNonce, fireLane, inFlight, reserved, loopPc, opPc, opAsk,
                       nonce, net, payLanded, killLanded, attested>>
    BY Zenon, <1>12, <2>2 DEF FirePaid, SameBut
  <2>4. LaneInv'
    BY Zenon, <2>1, <2>3, LaneOutside DEF SafeInv, SameBut
  <2>5. Flight(w)'
    BY Zenon, <1>7, <2>1, <2>3 DEF Flight, Held, Deciding
  <2>6. FlightInv'
    BY Zenon, <2>3, <2>5, FlightAt DEF SafeInv, SameBut
  <2>7. ChainInv' /\ SettleInv'
    BY Zenon, <2>1, <2>3, ChainRead, SettleFrame DEF SafeInv
  <2> QED
    BY Zenon, <2>4, <2>6, <2>7 DEF SafeInv
<1>13. CASE FireComplete(w)
  <2>1. status[w] = "processing" /\ SameBut(status, status', w) /\ status'[w] = "completed"
    BY Zenon, <1>13, StatusWrites DEF FireComplete
  <2>2. payLanded[w] = "ok"
    BY Zenon, <1>7, <1>13 DEF FireComplete, Flight
  <2>3. LaneInv' /\ FlightInv'
    BY Zenon, <1>13, <1>9, <2>1 DEF FireComplete
  <2>4. ChainInv'
    BY Zenon, <1>13, ChainFrame DEF FireComplete, FireEnd, SafeInv
  <2>5. SettleInv'
    BY Zenon, <1>13, <2>1, <2>2, PaidSettles DEF FireComplete, FireEnd, SafeInv
  <2> QED
    BY Zenon, <2>3, <2>4, <2>5 DEF SafeInv
<1> QED
  BY Zenon, <1>1, <1>2, <1>3, <1>4, <1>5, <1>6, <1>10, <1>11, <1>12, <1>13 DEF FireNext
=============================================================================
