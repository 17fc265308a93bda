----------------------- MODULE AllocationEscrowProofs -----------------------
(***************************************************************************)
(* The escrow's safety properties, proved from the inductive invariant     *)
(* EscrowInv.                                                              *)
(***************************************************************************)
EXTENDS AllocationEscrowSteps

USE DEF ledger, forward, answer, flags, process, world, bounds

\* What a verdict does to its allocation: nothing, or all that was held is
\* distributed, out of a claw-back the account covers.
LEMMA FinalizeOutcome ==
  ASSUME TypeOK, TypeOK', EscrowInv, NEW t \in Task, NEW k \in 0..2, Finalize(t, k)
  PROVE  /\ status[t] = "disputed"
         /\ \/ UNCHANGED <<status, net, paid, balance>>
            \/ /\ status' = [status EXCEPT ![t] = CloseAs(t)] /\ net'[t] = net[t] - Held(t)
               /\ \A u \in Task \ {t} : net'[u] = net[u] /\ paid'[u] = paid[u]
               /\ paid'[t] >= 0 /\ \A a \in Account : balance'[a] >= 0
         /\ frozen => UNCHANGED ledger
<1> DEFINE claw   == paid[t] - Share(paid[t], k)
           worker == Share(Held(t), k)
           payer  == Held(t) - worker + claw
<1>1. /\ AllocationInv(t) /\ paid[t] \in Int /\ net[t] \in Int /\ balance \in [Account -> Int]
      /\ \A a \in Account : balance[a] >= 0
  BY Zenon DEF EscrowInv, TypeOK
<1>2. Held(t) \in Int
  BY Zenon, AmountTypes
<1>3. Held(t) >= 0 /\ paid[t] >= 0
  BY Zenon, <1>1 DEF AllocationInv
<1>4. status[t] = "disputed"
  BY Zenon, <1>1 DEF Finalize, AllocationInv
<1>5. /\ claw \in Nat /\ worker \in Nat /\ payer \in Nat /\ paid[t] - claw >= 0
      /\ claw + Held(t) = 0 => claw = 0 /\ worker = 0 /\ payer = 0
  <2>1. /\ Share(paid[t], k) \in Int /\ Share(paid[t], k) >= 0 /\ Share(paid[t], k) <= paid[t]
        /\ Share(Held(t), k) \in Int /\ Share(Held(t), k) >= 0 /\ Share(Held(t), k) <= Held(t)
    BY Zenon, <1>1, <1>2, <1>3, ShareBounds
  <2> QED BY <1>1, <1>2, <1>3, <2>1
<1>6. \/ UNCHANGED <<status, net, paid, balance>>
      \/ /\ claw + Held(t) > 0 => ~frozen
         /\ balance[Signer[t]] >= claw
         /\ net' = [net EXCEPT ![t] = @ + claw - worker - payer]
         /\ paid' = [paid EXCEPT ![t] = @ - claw]
         /\ balance' = Add(Add(Add(balance, Signer[t], -claw), Worker[t], worker), Payer[t], payer)
         /\ status' = [status EXCEPT ![t] = IF @ = "disputed" THEN CloseAs(t) ELSE @]
  BY Zenon DEF Finalize, Covers, Reclaim, claw, worker, payer
<1>7. net[t] + claw - worker - payer = net[t] - Held(t)
  BY <1>1, <1>2, <1>5
<1> HIDE DEF claw, worker, payer
<1>8. fees' = fees
  BY Zenon DEF Finalize
<1>9. CASE UNCHANGED <<status, net, paid, balance>>
  BY Zenon, <1>4, <1>8, <1>9
<1>10. CASE /\ claw + Held(t) > 0 => ~frozen
            /\ balance[Signer[t]] >= claw
            /\ net' = [net EXCEPT ![t] = @ + claw - worker - payer]
            /\ paid' = [paid EXCEPT ![t] = @ - claw]
            /\ balance' = Add(Add(Add(balance, Signer[t], -claw), Worker[t], worker), Payer[t], payer)
            /\ status' = [status EXCEPT ![t] = IF @ = "disputed" THEN CloseAs(t) ELSE @]
  <2>1. status' = [status EXCEPT ![t] = CloseAs(t)]
    BY Zenon, <1>4, <1>10
  <2>2. /\ net'[t] = net[t] - Held(t) /\ paid'[t] = paid[t] - claw
        /\ \A u \in Task \ {t} : net'[u] = net[u] /\ paid'[u] = paid[u]
    BY Zenon, <1>7, <1>10 DEF TypeOK
  <2>3. paid'[t] >= 0
    BY Zenon, <1>5, <2>2
  <2> DEFINE b == Add(balance, Signer[t], -claw)
             c == Add(b, Worker[t], worker)
  <2>4. Signer[t] \in Account /\ Worker[t] \in Account /\ Payer[t] \in Account
    BY Zenon, EscrowMaps
  <2>5. -claw \in Int /\ worker \in Int /\ payer \in Int /\ balance[Signer[t]] + (-claw) >= 0
    BY <1>1, <1>5, <1>10, <2>4
  <2>6. b \in [Account -> Int] /\ \A a \in Account : b[a] >= 0
    <3>1. b \in [Account -> Int]
      BY Zenon, <1>1, <2>4, <2>5, AddValue
    <3>2. \A a \in Account : b[a] >= 0
      BY Zenon, <1>1, <2>4, <2>5, AddCovered
    <3> QED BY Zenon, <3>1, <3>2
  <2> HIDE DEF b
  <2>7. c \in [Account -> Int] /\ \A a \in Account : c[a] >= 0
    <3>1. c \in [Account -> Int]
      BY Zenon, <2>4, <2>5, <2>6, AddValue
    <3>2. b[Worker[t]] + worker >= 0
      BY <1>5, <2>4, <2>6
    <3>3. \A a \in Account : c[a] >= 0
      BY Zenon, <2>4, <2>5, <2>6, <3>2, AddCovered
    <3> QED BY Zenon, <3>1, <3>3
  <2> HIDE DEF c
  <2>8. \A a \in Account : Add(c, Payer[t], payer)[a] >= 0
    <3>1. c[Payer[t]] + payer >= 0
      BY <1>5, <2>4, <2>7
    <3> QED BY Zenon, <2>4, <2>5, <2>7, <3>1, AddCovered
  <2>9. \A a \in Account : balance'[a] >= 0
    BY Zenon, <1>10, <2>8 DEF b, c
  <2>10. frozen => UNCHANGED ledger
    <3> SUFFICES ASSUME frozen PROVE UNCHANGED ledger
      BY Zenon
    <3>1. claw = 0 /\ worker = 0 /\ payer = 0 /\ Held(t) = 0
      BY <1>2, <1>3, <1>5, <1>10
    <3>2. b = balance /\ c = balance /\ Add(c, Payer[t], payer) = balance
      <4>1. b = balance
        BY <1>1, <2>4, <3>1 DEF b, Add
      <4>2. c = balance
        BY <1>1, <2>4, <3>1, <4>1 DEF c, Add
      <4> QED BY <1>1, <2>4, <3>1, <4>1, <4>2 DEF Add
    <3>3. balance' = balance
      BY Zenon, <1>10, <3>2 DEF b, c
    <3>4. net' = net /\ paid' = paid
      BY <1>1, <1>10, <3>1 DEF TypeOK
    <3> QED BY Zenon, <1>8, <3>3, <3>4
  <2> QED BY Zenon, <1>4, <2>1, <2>2, <2>3, <2>9, <2>10
<1> QED BY Zenon, <1>6, <1>9, <1>10

\* A step of submission, answer, sweep, dispute or verdict keeps the invariant.
LEMMA TaskInv ==
  ASSUME TypeOK, EscrowInv, NEW t \in Task, TaskNext(t)
  PROVE  EscrowInv'
<1>1. /\ TypeOK' /\ AllocationInv(t) /\ Payer[t] \in Account /\ net[t] \in Int
      /\ balance \in [Account -> Int] /\ \A a \in Account : balance[a] >= 0
  BY Zenon, TaskTypes, EscrowMaps DEF EscrowInv, TypeOK
<1>2. CASE Submit(t)
  <2>1. UNCHANGED <<paid, row, fwd, retry, dispute, pass>>
    BY Zenon, <1>2 DEF Submit
  <2>2. \A u \in Task \ {t} : Same(u)
    BY Zenon, <1>2, <2>1 DEF Submit, Same, TypeOK
  <2>3. status[t] = "none" /\ status'[t] = "locked" /\ net'[t] = Hold /\ task'[t] # "none"
    BY Zenon, <1>1, <1>2 DEF Submit, AllocationInv, TypeOK
  <2>4. Held(t)' >= 0
    BY <1>1, <2>1, <2>3, EscrowAmounts DEF AllocationInv, Held
  <2>5. AllocationInv(t)'
    BY Zenon, <1>1, <2>1, <2>3, <2>4 DEF AllocationInv
  <2>6. \A a \in Account : balance'[a] >= 0
    <3>1. Unwithdrawable(Payer[t]) \in Nat /\ Hold \in Nat /\ -Hold \in Int
      BY UnwithdrawableNat, EscrowAmounts
    <3>2. balance[Payer[t]] + (-Hold) >= 0
      BY <1>1, <1>2, <3>1 DEF Submit, Spendable
    <3>3. balance' = Add(balance, Payer[t], -Hold)
      BY Zenon, <1>2 DEF Submit
    <3> QED BY Zenon, <1>1, <3>1, <3>2, <3>3, AddCovered
  <2> QED BY Zenon, <2>2, <2>5, <2>6, Frame DEF EscrowInv
<1>3. CASE \/ Grant(t) \/ GrantReleased(t) \/ (\E r \in {"completed", "failed"} : Answer(t, r))
           \/ ChecksChange(t) \/ PeerReceive(t) \/ SweepFlag(t) \/ RecordUnrecoverable(t) \/ FileReceive(t)
           \/ WindowClose(t)
  <2>1. UNCHANGED <<status, net, paid, balance, row, fwd, retry, dispute, pass>>
    BY Zenon, <1>3 DEF Grant, GrantReleased, Answer, ChecksChange, PeerReceive, SweepFlag, RecordUnrecoverable,
                FileReceive, WindowClose
  <2>2. task' = task \/ \E e \in {"pending", "granted", "answered"} : task' = [task EXCEPT ![t] = e]
    BY Zenon, <1>3 DEF Grant, GrantReleased, Answer, ChecksChange, PeerReceive, SweepFlag, RecordUnrecoverable,
                FileReceive, WindowClose
  <2>3. \A u \in Task : task'[u] = "none" => task[u] = "none"
    BY Zenon, <2>2 DEF TypeOK
  <2>4. \A u \in Task : Same(u)
    BY Zenon, <2>1, <2>3 DEF Same
  <2> QED BY Zenon, <2>1, <2>4, Frame DEF EscrowInv
<1>4. CASE SweepRefund(t)
  <2>1. UNCHANGED <<paid, row, fwd, retry, dispute, task, pass>>
    BY Zenon, <1>4 DEF SweepRefund
  <2>2. \A u \in Task \ {t} : Same(u)
    BY Zenon, <1>4, <2>1 DEF SweepRefund, Same, TypeOK
  <2>3. status[t] = "locked" /\ status'[t] = "released"
    BY Zenon, <1>4 DEF SweepRefund, Stale, TypeOK
  <2>4. Held(t) \in Int /\ Held(t) >= 0
    BY Zenon, <1>1, AmountTypes DEF AllocationInv
  <2>5. net'[t] = net[t] - Held(t)
    BY <1>1, <1>4, <2>4 DEF SweepRefund, TypeOK
  <2>6. Held(t)' = 0
    BY <1>1, <2>1, <2>5, EscrowAmounts DEF Held
  <2>7. AllocationInv(t)'
    BY <1>1, <2>1, <2>3, <2>6 DEF AllocationInv
  <2>8. \A a \in Account : balance'[a] >= 0
    <3>1. balance[Payer[t]] + Held(t) >= 0
      BY <1>1, <2>4
    <3>2. balance' = balance \/ balance' = Add(balance, Payer[t], Held(t))
      BY Zenon, <1>4 DEF SweepRefund
    <3> QED BY Zenon, <1>1, <2>4, <3>1, <3>2, AddCovered
  <2> QED BY <2>2, <2>7, <2>8, Frame DEF EscrowInv
<1>5. CASE FileCommit(t)
  <2>1. UNCHANGED <<net, paid, balance, row, fwd, retry, task, pass>>
    BY Zenon, <1>5 DEF FileCommit
  <2>2. \A u \in Task \ {t} : Same(u)
    BY Zenon, <1>5, <2>1 DEF FileCommit, Same, TypeOK
  <2>3. Held(t)' = Held(t)
    BY Zenon, <2>1 DEF Held
  <2>4. \/ status'[t] = status[t] /\ dispute'[t] = dispute[t]
        \/ /\ status[t] \in {"locked", "settled"} /\ status'[t] = "disputed"
           /\ dispute'[t] = "live"
    BY <1>5 DEF FileCommit, Disputable, TypeOK
  <2>5. AllocationInv(t)'
    BY Zenon, <1>1, <2>1, <2>3, <2>4 DEF AllocationInv
  <2> QED BY Zenon, <2>1, <2>2, <2>5, Frame DEF EscrowInv
<1>6. CASE \E k \in 0..2 : Finalize(t, k)
  <2> PICK k \in 0..2 : Finalize(t, k)
    BY Zenon, <1>6
  <2>1. UNCHANGED <<row, fwd, retry, task, pass>> /\ dispute' = [dispute EXCEPT ![t] = "final"]
    BY Zenon DEF Finalize
  <2>2. status[t] = "disputed"
    BY Zenon, <1>1, FinalizeOutcome
  <2>3. \A u \in Task \ {t} : Same(u)
    <3>1. \A u \in Task \ {t} : /\ status'[u] = status[u] /\ net'[u] = net[u]
                                 /\ paid'[u] = paid[u]
      BY <1>1, FinalizeOutcome DEF TypeOK
    <3> QED BY ZenonT(30), <2>1, <3>1 DEF Same, TypeOK
  <2>4. CASE UNCHANGED <<status, net, paid, balance>>
    <3>1. Held(t)' = Held(t)
      BY Zenon, <2>1, <2>4 DEF Held
    <3>2. AllocationInv(t)'
      BY Zenon, <1>1, <2>1, <2>2, <2>4, <3>1 DEF AllocationInv, TypeOK
    <3> QED BY Zenon, <2>3, <2>4, <3>2, Frame DEF EscrowInv
  <2>5. CASE /\ status' = [status EXCEPT ![t] = CloseAs(t)] /\ net'[t] = net[t] - Held(t)
             /\ paid'[t] >= 0 /\ \A a \in Account : balance'[a] >= 0
    <3>1. Held(t)' = 0
      BY <1>1, <2>1, <2>5, EscrowAmounts DEF Held
    <3>2. status'[t] = CloseAs(t) /\ dispute'[t] = "final"
      BY Zenon, <2>1, <2>5 DEF TypeOK
    <3>3. AllocationInv(t)'
      BY <1>1, <2>1, <2>2, <2>5, <3>1, <3>2 DEF AllocationInv, CloseAs
    <3> QED BY Zenon, <2>3, <2>5, <3>3, Frame DEF EscrowInv
  <2> QED BY Zenon, <1>1, <2>4, <2>5, FinalizeOutcome
<1> QED BY Zenon, <1>2, <1>3, <1>4, <1>5, <1>6 DEF TaskNext

\* A step of an account, of the operator or of the process keeps the invariant.
LEMMA OtherInv ==
  ASSUME TypeOK, EscrowInv,
         \/ \E a \in Account, n \in Amounts : Withdraw(a, n)
         \/ PeerRemoved \/ Freeze \/ Unfreeze \/ Crash
  PROVE  EscrowInv'
<1>1. /\ UNCHANGED <<status, net, paid, row, fwd, retry, dispute, task>>
      /\ pass' = pass \/ pass' = [x \in Task \X Pass |-> "idle"]
  BY Zenon DEF Withdraw, PeerRemoved, Freeze, Unfreeze, Crash, Restart
<1>2. \A u \in Task : Same(u)
  BY Zenon, <1>1 DEF Same
<1>3. CASE balance' = balance
  BY Zenon, <1>2, <1>3, Frame DEF EscrowInv
<1>4. CASE \E a \in Account, n \in Amounts : Withdraw(a, n)
  <2> PICK a \in Account, n \in Amounts : Withdraw(a, n)
    BY Zenon, <1>4
  <2>1. n \in Int /\ -n \in Int /\ Unwithdrawable(a) \in Nat
    BY EscrowMaps, UnwithdrawableNat
  <2>2. balance \in [Account -> Int] /\ \A b \in Account : balance[b] >= 0
    BY Zenon DEF EscrowInv, TypeOK
  <2>3. balance[a] + (-n) >= 0 /\ balance' = Add(balance, a, -n)
    BY <2>1, <2>2 DEF Withdraw, Spendable
  <2>4. \A b \in Account : balance'[b] >= 0
    BY Zenon, <2>1, <2>2, <2>3, AddCovered
  <2> QED BY Zenon, <1>2, <2>4, Frame DEF EscrowInv
<1> QED BY Zenon, <1>3, <1>4 DEF PeerRemoved, Freeze, Unfreeze, Crash

\* No step of a settlement, retry, sweep, verdict or crash breaks EscrowInv.
THEOREM EscrowInvariance == Spec => []EscrowInv
<1>1. Init => EscrowInv
  BY EscrowMaps, EscrowAmounts DEF Init, EscrowInv, AllocationInv, Held
<1>2. TypeOK /\ EscrowInv /\ [Next]_vars => EscrowInv'
  <2> SUFFICES ASSUME TypeOK, EscrowInv, [Next]_vars PROVE EscrowInv'
    BY Zenon
  <2>1. CASE UNCHANGED vars
    <3>1. \A u \in Task : Same(u)
      BY Zenon, <2>1 DEF vars, Same
    <3>2. balance' = balance
      BY Zenon, <2>1 DEF vars
    <3> QED BY Zenon, <3>1, <3>2, Frame DEF EscrowInv
  <2> QED BY Zenon, <2>1, StepInv, PassInv, TaskInv, OtherInv DEF Next
<1> QED BY <1>1, <1>2, EscrowTypes, PTL DEF Spec
-----------------------------------------------------------------------------
(* Properties *)

\* No escrow and no account is ever overdrawn, whatever settles, forwards,
\* sweeps and refunds at the same time.
THEOREM NoOverdraft == Spec => []NeverOverdrawn
<1>1. EscrowInv => NeverOverdrawn
  BY Zenon DEF EscrowInv, AllocationInv, NeverOverdrawn
<1> QED BY <1>1, EscrowInvariance, PTL

\* An allocation is settled exactly with its settlement row, until a dispute.
THEOREM SettledRows == Spec => []SettledHasRow
<1>1. EscrowInv => SettledHasRow
  BY Zenon DEF EscrowInv, AllocationInv, SettledHasRow
<1> QED BY <1>1, EscrowInvariance, PTL

\* A released allocation holds nothing, also when a forward comes back to it.
THEOREM ReleasedEmpty == Spec => []ReleasedHoldsNothing
<1>1. EscrowInv => ReleasedHoldsNothing
  BY Zenon DEF EscrowInv, AllocationInv, ReleasedHoldsNothing
<1> QED BY <1>1, EscrowInvariance, PTL

\* While frozen nothing moves and nothing is sent, wherever the freeze lands.
THEOREM FreezeStops == Spec => FrozenMovesNothing
<1>1. TypeOK /\ TypeOK' /\ EscrowInv /\ [Next]_vars
        => (frozen => UNCHANGED <<ledger, row, wire>>)
  <2> SUFFICES ASSUME TypeOK, TypeOK', EscrowInv, [Next]_vars, frozen
               PROVE  UNCHANGED <<ledger, row, wire>>
    BY Zenon
  <2>1. CASE UNCHANGED vars
    BY Zenon, <2>1 DEF vars
  <2>2. ASSUME NEW t \in Task, NEW s \in Step, StepNext(t, s)
        PROVE  UNCHANGED <<ledger, row, wire>>
    BY Zenon, <2>2 DEF StepNext, Admit, SettleLocal, SettleWith, MayMove, ForwardCommit, ForwardSend,
                MaySend, ForwardReturn, StepDone
  <2>3. ASSUME NEW t \in Task, NEW p \in Pass, PassNext(t, p)
        PROVE  UNCHANGED <<ledger, row, wire>>
    BY Zenon, <2>3 DEF PassNext, PassStart, PassClaim, PassSend, PassAck, PassFail, CrashExhausting,
                MaySend
  <2>4. ASSUME NEW t \in Task, TaskNext(t)
        PROVE  UNCHANGED <<ledger, row, wire>>
    <3>1. CASE \E k \in 0..2 : Finalize(t, k)
      BY Zenon, <3>1, FinalizeOutcome DEF Finalize
    <3>2. CASE ~\E k \in 0..2 : Finalize(t, k)
      BY Zenon, <2>4, <3>2 DEF TaskNext, Submit, Grant, GrantReleased, Answer, ChecksChange, PeerReceive,
                        SweepRefund, MayMove, SweepFlag, RecordUnrecoverable, FileReceive,
                        FileCommit, WindowClose
    <3> QED BY Zenon, <3>1, <3>2
  <2>5. CASE \/ \E a \in Account, n \in Amounts : Withdraw(a, n)
             \/ PeerRemoved \/ Freeze \/ Unfreeze \/ Crash
    BY Zenon, <2>5 DEF Withdraw, PeerRemoved, Freeze, Unfreeze, Crash
  <2> QED BY Zenon, <2>1, <2>2, <2>3, <2>4, <2>5 DEF Next
<1> QED BY <1>1, EscrowTypes, EscrowInvariance, PTL DEF Spec, FrozenMovesNothing

\* A forward that ended is not sent again, also by a send claimed before.
THEOREM EndedNotSent == Spec => NeverSentAfterEnd
<1>1. TypeOK /\ [Next]_vars
        => \A t \in Task : fwd[t] \in {"delivered", "failed"} => wire'[t] = wire[t]
  <2> SUFFICES ASSUME TypeOK, [Next]_vars, NEW u \in Task, fwd[u] \in {"delivered", "failed"}
               PROVE  wire'[u] = wire[u]
    BY Zenon
  <2>1. CASE UNCHANGED vars
    BY Zenon, <2>1 DEF vars
  <2>2. ASSUME NEW t \in Task, NEW s \in Step, StepNext(t, s)
        PROVE  wire'[u] = wire[u]
    BY Zenon, <2>2 DEF StepNext, Admit, SettleLocal, ForwardCommit, ForwardSend, MaySend,
                ForwardReturn, StepDone, TypeOK
  <2>3. ASSUME NEW t \in Task, NEW p \in Pass, PassNext(t, p)
        PROVE  wire'[u] = wire[u]
    BY Zenon, <2>3 DEF PassNext, PassStart, PassClaim, PassSend, PassAck, PassFail, CrashExhausting,
                MaySend, TypeOK
  <2>4. ASSUME NEW t \in Task, TaskNext(t)
        PROVE  wire'[u] = wire[u]
    BY Zenon, <2>4 DEF TaskNext, Submit, Grant, GrantReleased, Answer, ChecksChange, PeerReceive, SweepRefund,
                SweepFlag, RecordUnrecoverable, FileReceive, FileCommit, Finalize, WindowClose
  <2>5. CASE \/ \E a \in Account, n \in Amounts : Withdraw(a, n)
             \/ PeerRemoved \/ Freeze \/ Unfreeze \/ Crash
    BY Zenon, <2>5 DEF Withdraw, PeerRemoved, Freeze, Unfreeze, Crash
  <2> QED BY Zenon, <2>1, <2>2, <2>3, <2>4, <2>5 DEF Next
<1> QED BY <1>1, EscrowTypes, PTL DEF Spec, NeverSentAfterEnd

\* The kept-claim law: no sweep, refund or verdict releases the escrow of a
\* claimed, unsettled answer before its forward has ended.
THEOREM KeptClaim == Spec => ClaimKeepsEscrow
<1>1. TypeOK /\ TypeOK' /\ EscrowInv /\ [Next]_vars
        => \A t \in Task : Claimed(t) /\ status[t] = "locked" /\ status'[t] = "released"
                             => fwd'[t] \in {"delivered", "failed"}
  <2> SUFFICES ASSUME TypeOK, TypeOK', EscrowInv, [Next]_vars, NEW u \in Task, Claimed(u),
                      status[u] = "locked", status'[u] = "released"
               PROVE  fwd'[u] \in {"delivered", "failed"}
    BY Zenon
  <2> DEFINE Goal == fwd'[u] \in {"delivered", "failed"}
  <2>1. CASE UNCHANGED vars
    BY Zenon, <2>1 DEF vars
  <2>2. ASSUME NEW t \in Task, NEW s \in Step, StepNext(t, s)
        PROVE  Goal
    BY Zenon, <2>2 DEF StepNext, Admit, SettleLocal, SettleWith, ForwardCommit, ForwardSend,
                ForwardReturn, StepDone, TypeOK
  <2>3. ASSUME NEW t \in Task, NEW p \in Pass, PassNext(t, p)
        PROVE  Goal
    <3>1. RefundExhausted(t)
      BY ZenonT(30), <2>3 DEF PassNext, PassStart, PassClaim, PassSend, PassAck, PassFail, CrashExhausting
    <3>2. t = u
      BY <3>1 DEF RefundExhausted, TypeOK
    <3>3. fwd[t] # "none" /\ fwd[t] \in Forwards
      <4>1. pass[<<t, p>>] # "idle"
        BY Zenon, <2>3, <3>1, <3>2 DEF PassNext, PassStart, PassClaim, PassSend, PassAck, PassFail,
                                CrashExhausting
      <4>2. AllocationInv(t)
        BY Zenon DEF EscrowInv
      <4> QED BY Zenon, <4>1, <4>2 DEF AllocationInv, TypeOK
    <3>4. fwd'[t] = IF fwd[t] = "pending" THEN "failed" ELSE fwd[t]
      BY Zenon, <3>1 DEF RefundExhausted, TypeOK
    <3> QED BY Zenon, <3>2, <3>3, <3>4 DEF Forwards
  <2>4. ASSUME NEW t \in Task, TaskNext(t)
        PROVE  Goal
    <3>1. CASE \E k \in 0..2 : Finalize(t, k)
      BY Zenon, <3>1, FinalizeOutcome DEF TypeOK
    <3>2. CASE SweepRefund(t)
      BY Zenon, <3>2 DEF SweepRefund, Stale, TypeOK
    <3>3. CASE ~SweepRefund(t) /\ ~\E k \in 0..2 : Finalize(t, k)
      <4>1. CASE Submit(t) \/ FileCommit(t)
        BY <4>1 DEF Submit, FileCommit, TypeOK
      <4>2. CASE UNCHANGED status
        BY Zenon, <4>2
      <4> QED BY ZenonT(30), <2>4, <3>3, <4>1, <4>2 DEF TaskNext, Grant, GrantReleased, Answer, ChecksChange, PeerReceive,
                                            SweepFlag, RecordUnrecoverable, FileReceive, WindowClose
    <3> QED BY Zenon, <3>1, <3>2, <3>3
  <2>5. CASE \/ \E a \in Account, n \in Amounts : Withdraw(a, n)
             \/ PeerRemoved \/ Freeze \/ Unfreeze \/ Crash
    BY Zenon, <2>5 DEF Withdraw, PeerRemoved, Freeze, Unfreeze, Crash
  <2> QED BY Zenon, <2>1, <2>2, <2>3, <2>4, <2>5 DEF Next
<1> QED BY <1>1, EscrowTypes, EscrowInvariance, PTL DEF Spec, ClaimKeepsEscrow

\* A pending forward keeps its pending retry, unless the process can be killed
\* between the two commits of an exhaustion.
THEOREM RetryKept == ~CrashInTurn => (Spec => []PendingForwardHasRetry)
<1> SUFFICES ASSUME ~CrashInTurn PROVE Spec => []PendingForwardHasRetry
  BY Zenon
<1>1. Init => PendingForwardHasRetry
  BY Zenon DEF Init, PendingForwardHasRetry
<1>2. TypeOK /\ PendingForwardHasRetry /\ [Next]_vars => PendingForwardHasRetry'
  <2> SUFFICES ASSUME TypeOK, PendingForwardHasRetry, [Next]_vars, NEW u \in Task,
                      fwd'[u] = "pending"
               PROVE  retry'[u] = "pending"
    BY Zenon DEF PendingForwardHasRetry
  <2>1. fwd[u] = "pending" => retry[u] = "pending"
    BY Zenon DEF PendingForwardHasRetry
  <2>2. CASE UNCHANGED <<fwd, retry>>
    BY Zenon, <2>1, <2>2
  <2>3. CASE UNCHANGED vars
    BY Zenon, <2>2, <2>3 DEF vars
  <2>4. ASSUME NEW t \in Task, NEW s \in Step, StepNext(t, s)
        PROVE  retry'[u] = "pending"
    BY Zenon, <2>1, <2>4 DEF StepNext, Admit, SettleLocal, ForwardCommit, ForwardSend, ForwardReturn,
                      Deliver, StepDone, TypeOK
  <2>5. ASSUME NEW t \in Task, NEW p \in Pass, PassNext(t, p)
        PROVE  retry'[u] = "pending"
    <3>1. CASE PassClaim(t, p)
      BY Zenon, <2>1, <3>1 DEF PassClaim, MaySend, RetryAs, RefundExhausted, TypeOK
    <3>2. CASE PassFail(t, p)
      BY Zenon, <2>1, <3>2 DEF PassFail, RetryAs, RefundExhausted, TypeOK
    <3>3. CASE PassAck(t, p)
      BY Zenon, <2>1, <3>3 DEF PassAck, RetryAs, Deliver, TypeOK
    <3>4. CASE PassStart(t, p) \/ PassSend(t, p)
      BY Zenon, <2>2, <3>4 DEF PassStart, PassSend
    <3> QED BY Zenon, <2>5, <3>1, <3>2, <3>3, <3>4 DEF PassNext, CrashExhausting
  <2>6. ASSUME NEW t \in Task, TaskNext(t)
        PROVE  retry'[u] = "pending"
    BY Zenon, <2>2, <2>6 DEF TaskNext, Submit, Grant, GrantReleased, Answer, ChecksChange, PeerReceive, SweepRefund,
                      SweepFlag, RecordUnrecoverable, FileReceive, FileCommit, Finalize,
                      WindowClose
  <2>7. CASE \/ \E a \in Account, n \in Amounts : Withdraw(a, n)
             \/ PeerRemoved \/ Freeze \/ Unfreeze \/ Crash
    BY Zenon, <2>2, <2>7 DEF Withdraw, PeerRemoved, Freeze, Unfreeze, Crash
  <2> QED BY Zenon, <2>3, <2>4, <2>5, <2>6, <2>7 DEF Next
<1> QED BY <1>1, <1>2, EscrowTypes, PTL DEF Spec
-----------------------------------------------------------------------------
(* Conservation *)

\* Where the money is: accounts, escrows, fees and what was paid out.
Money == SumFunction(balance) + SumFunction(net) + fees + spent

\* A movement on one account changes the total of the accounts by as much.
LEMMA AddSum ==
  ASSUME NEW b \in [Account -> Int], NEW a \in Account, NEW n \in Int
  PROVE  SumFunction(b) \in Int /\ SumFunction(Add(b, a, n)) = SumFunction(b) + n
<1> DEFINE c == Add(b, a, n)
<1>1. /\ c \in [Account -> Int] /\ c[a] = b[a] + n
      /\ \A x \in Account \ {a} : c[x] = b[x]
  BY DEF Add
<1> HIDE DEF c
<1>2. DOMAIN b = Account /\ DOMAIN c = Account /\ b[a] \in Int
  BY Zenon, <1>1
<1>3. \A x \in Account : b[x] \in Int /\ c[x] \in Int
  BY Zenon, <1>1
<1>4. SumFunctionOnSet(b, Account) \in Int
  BY Zenon, <1>3, AccountsFinite, SumLaws
<1>5. SumFunctionOnSet(c, Account) = SumFunctionOnSet(b, Account) + c[a] - b[a]
  BY <1>1, <1>3, AccountsFinite, SumUpdate
<1>6. SumFunction(b) = SumFunctionOnSet(b, Account) /\ SumFunction(c) = SumFunctionOnSet(c, Account)
  BY Zenon, <1>2 DEF SumFunction
<1>7. SumFunction(c) = SumFunction(b) + n
  BY <1>1, <1>2, <1>4, <1>5, <1>6
<1> QED BY Zenon, <1>4, <1>6, <1>7 DEF c

\* What one escrow gains, the total of the escrows gains.
LEMMA NetSum ==
  ASSUME TypeOK, NEW t \in Task, NEW n \in Int
  PROVE  /\ SumFunction(net) \in Int
         /\ SumFunction([net EXCEPT ![t] = n]) = SumFunction(net) + n - net[t]
<1> DEFINE c == [net EXCEPT ![t] = n]
<1>1. /\ net \in [Task -> Int] /\ c \in [Task -> Int] /\ c[t] = n
      /\ \A x \in Task \ {t} : c[x] = net[x]
  BY Zenon DEF TypeOK
<1> HIDE DEF c
<1>2. DOMAIN net = Task /\ DOMAIN c = Task
  BY Zenon, <1>1
<1>3. \A x \in Task : net[x] \in Int /\ c[x] \in Int
  BY Zenon, <1>1
<1>4. SumFunctionOnSet(net, Task) \in Int
  BY Zenon, <1>3, TasksFinite, SumLaws
<1>5. SumFunctionOnSet(c, Task) = SumFunctionOnSet(net, Task) + c[t] - net[t]
  BY <1>1, <1>3, TasksFinite, SumUpdate
<1>6. SumFunction(net) = SumFunctionOnSet(net, Task) /\ SumFunction(c) = SumFunctionOnSet(c, Task)
  BY Zenon, <1>2 DEF SumFunction
<1> QED BY Zenon, <1>1, <1>4, <1>5, <1>6 DEF c

\* What leaves one escrow reaches the accounts or the fees.
LEMMA Moved ==
  ASSUME TypeOK, NEW t \in Task, NEW n \in Int, NEW b \in Int, NEW f \in Int,
         net' = [net EXCEPT ![t] = n], SumFunction(balance') = SumFunction(balance) + b,
         fees' = fees + f, spent' = spent, n + b + f = net[t]
  PROVE  Money' = Money
<1>1. /\ SumFunction(net) \in Int /\ SumFunction(net') = SumFunction(net) + n - net[t]
      /\ SumFunction(net)' = SumFunction(net') /\ SumFunction(balance)' = SumFunction(balance')
  BY Zenon, NetSum DEF SumFunction
<1>2. net[t] \in Int /\ fees \in Int /\ spent \in Int /\ balance \in [Account -> Int]
  BY Zenon DEF TypeOK
<1>3. Payer[t] \in Account /\ 0 \in Int
  BY EscrowMaps
<1>4. SumFunction(balance) \in Int
  BY Zenon, <1>2, <1>3, AddSum
<1> DEFINE B == SumFunction(balance)  N == SumFunction(net)
<1>5. Money = B + N + fees + spent /\ Money' = (B + b) + (N + n - net[t]) + (fees + f) + spent
  BY Zenon, <1>1 DEF Money
<1>6. B \in Int /\ N \in Int
  BY Zenon, <1>1, <1>4
<1> HIDE DEF B, N
<1> QED BY <1>2, <1>5, <1>6

\* The exhaustion refund pays the delegator what leaves the escrow.
LEMMA RefundMoney ==
  ASSUME TypeOK, NEW t \in Task, RefundExhausted(t), fees' = fees, spent' = spent
  PROVE  Money' = Money
<1>1. HeldBack(t) \in Int /\ net[t] \in Int /\ fees \in Int /\ Payer[t] \in Account
      /\ balance \in [Account -> Int]
  BY Zenon, AmountTypes, EscrowMaps DEF TypeOK
<1>2. CASE UNCHANGED <<net, balance>>
  BY Zenon, <1>2 DEF Money, SumFunction
<1>3. CASE /\ net' = [net EXCEPT ![t] = @ - HeldBack(t)]
           /\ balance' = Add(balance, Payer[t], HeldBack(t))
  <2>1. /\ net[t] - HeldBack(t) \in Int /\ 0 \in Int /\ fees' = fees + 0
        /\ (net[t] - HeldBack(t)) + HeldBack(t) + 0 = net[t]
    BY <1>1
  <2>2. SumFunction(balance') = SumFunction(balance) + HeldBack(t)
    BY Zenon, <1>1, <1>3, AddSum
  <2> QED BY Zenon, <1>1, <1>3, <2>1, <2>2, Moved
<1> QED BY Zenon, <1>2, <1>3 DEF RefundExhausted, ExhaustionRefund

\* A settlement divides the escrow into credit, fee and what is released.
LEMMA SettleMoney ==
  ASSUME TypeOK, NEW t \in Task, NEW s \in Step, SettleWith(t, s, Released(t)), spent' = spent
  PROVE  Money' = Money
<1> DEFINE d == NetDue(t)  f == FeeDue(t)  r == Released(t)
<1>1. d \in Int /\ f \in Int /\ r \in Int /\ net[t] \in Int
  BY AmountTypes DEF TypeOK
<1>2. Payer[t] \in Account /\ Signer[t] \in Account /\ balance \in [Account -> Int]
  BY Zenon, EscrowMaps DEF TypeOK
<1>3. /\ net' = [net EXCEPT ![t] = @ - d - f - r] /\ fees' = fees + f
      /\ balance' = Add(Add(balance, Signer[t], d), Payer[t], r)
  BY Zenon DEF SettleWith
<1> HIDE DEF d, f, r
<1>4. Add(balance, Signer[t], d) \in [Account -> Int]
  BY Zenon, <1>1, <1>2, AddValue
<1>5. SumFunction(balance') = SumFunction(Add(balance, Signer[t], d)) + r
  BY Zenon, <1>1, <1>2, <1>3, <1>4, AddSum
<1>6. /\ SumFunction(balance) \in Int
      /\ SumFunction(Add(balance, Signer[t], d)) = SumFunction(balance) + d
  BY Zenon, <1>1, <1>2, AddSum
<1>7. SumFunction(balance') = SumFunction(balance) + (d + r)
  BY <1>1, <1>5, <1>6
<1>8. /\ net[t] - d - f - r \in Int /\ d + r \in Int
      /\ (net[t] - d - f - r) + (d + r) + f = net[t]
  BY <1>1
<1> QED BY Zenon, <1>1, <1>3, <1>7, <1>8, Moved

\* A verdict distributes what it takes: the claw-back and what was held.
LEMMA VerdictMoney ==
  ASSUME TypeOK, NEW t \in Task, NEW k \in 0..2, Finalize(t, k)
  PROVE  Money' = Money
<1> DEFINE claw   == paid[t] - Share(paid[t], k)
           worker == Share(Held(t), k)
           payer  == Held(t) - worker + claw
<1>1. paid[t] \in Int /\ Held(t) \in Int /\ net[t] \in Int /\ fees \in Int
  BY Zenon, AmountTypes DEF TypeOK
<1>2. Share(paid[t], k) \in Int /\ Share(Held(t), k) \in Int
  BY Zenon, <1>1, ShareBounds
<1>3. claw \in Int /\ -claw \in Int /\ worker \in Int /\ payer \in Int
  BY <1>1, <1>2
<1>4. \/ UNCHANGED <<net, balance>>
      \/ /\ net' = [net EXCEPT ![t] = @ + claw - worker - payer]
         /\ balance' = Add(Add(Add(balance, Signer[t], -claw), Worker[t], worker), Payer[t], payer)
  BY Zenon DEF Finalize, Reclaim
<1>5. fees' = fees /\ spent' = spent
  BY Zenon DEF Finalize
<1> HIDE DEF claw, worker, payer
<1>6. CASE UNCHANGED <<net, balance>>
  BY Zenon, <1>5, <1>6 DEF Money, SumFunction
<1>7. CASE /\ net' = [net EXCEPT ![t] = @ + claw - worker - payer]
           /\ balance' = Add(Add(Add(balance, Signer[t], -claw), Worker[t], worker), Payer[t], payer)
  <2> DEFINE b == Add(balance, Signer[t], -claw)
             c == Add(b, Worker[t], worker)
  <2>1. /\ Signer[t] \in Account /\ Worker[t] \in Account /\ Payer[t] \in Account
        /\ balance \in [Account -> Int]
    BY Zenon, EscrowMaps DEF TypeOK
  <2>2. /\ b \in [Account -> Int] /\ SumFunction(balance) \in Int
        /\ SumFunction(b) = SumFunction(balance) + (-claw)
    BY Zenon, <1>3, <2>1, AddValue, AddSum
  <2>3. balance' = Add(c, Payer[t], payer)
    BY Zenon, <1>7
  <2> HIDE DEF b
  <2>4. c \in [Account -> Int] /\ SumFunction(c) = SumFunction(b) + worker
    BY Zenon, <1>3, <2>1, <2>2, AddValue, AddSum
  <2> HIDE DEF c
  <2>5. SumFunction(balance') = SumFunction(c) + payer
    BY Zenon, <1>3, <2>1, <2>3, <2>4, AddSum
  <2>6. SumFunction(balance') = SumFunction(balance) + (worker + payer - claw)
    BY <1>3, <2>2, <2>4, <2>5
  <2>7. /\ net[t] + claw - worker - payer \in Int /\ worker + payer - claw \in Int /\ 0 \in Int
        /\ (net[t] + claw - worker - payer) + (worker + payer - claw) + 0 = net[t]
        /\ fees' = fees + 0
    BY <1>1, <1>3, <1>5
  <2> QED BY Zenon, <1>5, <1>7, <2>6, <2>7, Moved
<1> QED BY Zenon, <1>4, <1>6, <1>7

\* Every micro-unit stays in an account, an escrow, a fee or a payout, for any
\* number of accounts and tasks settling, forwarding and clawing back at once.
THEOREM MoneyKept == Spec => []MoneyConserved
<1>1. Init => MoneyConserved
  <2> SUFFICES ASSUME Init PROVE MoneyConserved
    BY Zenon
  <2>1. balance = Funds /\ fees = 0 /\ spent = 0 /\ net = [t \in Task |-> 0]
    BY Zenon DEF Init
  <2>2. SumFunctionOnSet(net, Task) = 0
    BY Zenon, <2>1, TasksFinite, SumZero
  <2>3. DOMAIN net = Task /\ DOMAIN Funds = Account /\ \A a \in Account : Funds[a] \in Int
    BY <2>1, EscrowMaps
  <2>4. SumFunction(net) = 0 /\ SumFunction(Funds) = SumFunctionOnSet(Funds, Account)
    BY Zenon, <2>2, <2>3 DEF SumFunction
  <2>5. SumFunctionOnSet(Funds, Account) \in Int
    BY Zenon, <2>3, AccountsFinite, SumLaws
  <2>6. SumFunction(Funds) \in Int /\ SumFunction(balance) = SumFunction(Funds)
    BY Zenon, <2>1, <2>4, <2>5
  <2> QED BY <2>1, <2>4, <2>6 DEF MoneyConserved
<1>2. TypeOK /\ TypeOK' /\ EscrowInv /\ [Next]_vars => Money' = Money
  <2> SUFFICES ASSUME TypeOK, TypeOK', EscrowInv, [Next]_vars PROVE Money' = Money
    BY Zenon
  <2>1. CASE UNCHANGED <<balance, net, fees, spent>>
    BY Zenon, <2>1 DEF Money, SumFunction
  <2>2. ASSUME NEW t \in Task, NEW s \in Step, StepNext(t, s)
        PROVE  Money' = Money
    <3>1. CASE SettleLocal(t, s)
      BY Zenon, <2>1, <3>1, SettleMoney DEF SettleLocal
    <3> QED BY Zenon, <2>1, <2>2, <3>1 DEF StepNext, Admit, ForwardCommit, ForwardSend,
                                          ForwardReturn, StepDone
  <2>3. ASSUME NEW t \in Task, NEW p \in Pass, PassNext(t, p)
        PROVE  Money' = Money
    <3>1. CASE PassClaim(t, p)
      BY Zenon, <2>1, <3>1, RefundMoney DEF PassClaim
    <3>2. CASE PassFail(t, p)
      BY Zenon, <2>1, <3>2, RefundMoney DEF PassFail
    <3> QED BY Zenon, <2>1, <2>3, <3>1, <3>2 DEF PassNext, PassStart, PassSend, PassAck,
                                                CrashExhausting
  <2>4. ASSUME NEW t \in Task, TaskNext(t)
        PROVE  Money' = Money
    <3>1. /\ AllocationInv(t) /\ Held(t) \in Int /\ net[t] \in Int /\ fees \in Int
          /\ Payer[t] \in Account /\ balance \in [Account -> Int]
      BY Zenon, AmountTypes, EscrowMaps DEF EscrowInv, TypeOK
    <3>2. CASE Submit(t)
      <4>1. net[t] = 0 /\ net' = [net EXCEPT ![t] = Hold] /\ fees' = fees /\ spent' = spent
        BY Zenon, <3>1, <3>2 DEF Submit, AllocationInv
      <4>2. /\ Hold \in Int /\ -Hold \in Int /\ 0 \in Int /\ fees' = fees + 0
            /\ Hold + (-Hold) + 0 = net[t]
        BY <3>1, <4>1, EscrowAmounts
      <4>3. SumFunction(balance') = SumFunction(balance) + (-Hold)
        BY Zenon, <3>1, <3>2, <4>2, AddSum DEF Submit
      <4> QED BY Zenon, <4>1, <4>2, <4>3, Moved
    <3>3. CASE SweepRefund(t)
      <4>1. fees' = fees /\ spent' = spent
        BY Zenon, <3>3 DEF SweepRefund
      <4>2. CASE /\ net' = [net EXCEPT ![t] = @ - Held(t)]
                 /\ balance' = Add(balance, Payer[t], Held(t))
        <5>1. /\ net[t] - Held(t) \in Int /\ 0 \in Int /\ fees' = fees + 0
              /\ (net[t] - Held(t)) + Held(t) + 0 = net[t]
          BY <3>1, <4>1
        <5>2. SumFunction(balance') = SumFunction(balance) + Held(t)
          BY Zenon, <3>1, <4>2, AddSum
        <5> QED BY Zenon, <3>1, <4>1, <4>2, <5>1, <5>2, Moved
      <4> QED BY Zenon, <2>1, <3>3, <4>1, <4>2 DEF SweepRefund
    <3>4. CASE \E k \in 0..2 : Finalize(t, k)
      BY Zenon, <3>4, VerdictMoney
    <3> QED BY Zenon, <2>1, <2>4, <3>2, <3>3, <3>4
               DEF TaskNext, Grant, GrantReleased, Answer, ChecksChange, PeerReceive, SweepFlag,
                   RecordUnrecoverable, FileReceive, FileCommit, WindowClose
  <2>5. ASSUME NEW a \in Account, NEW n \in Amounts, Withdraw(a, n)
        PROVE  Money' = Money
    <3>1. n \in Int /\ -n \in Int /\ balance \in [Account -> Int] /\ fees \in Int /\ spent \in Int
      BY EscrowMaps DEF TypeOK
    <3>2. /\ SumFunction(balance) \in Int
          /\ SumFunction(Add(balance, a, -n)) = SumFunction(balance) + (-n)
      BY Zenon, <3>1, AddSum
    <3>3. SumFunction(net) \in Int
      <4>1. DOMAIN net = Task /\ \A t \in Task : net[t] \in Int
        BY Zenon DEF TypeOK
      <4>2. SumFunctionOnSet(net, Task) \in Int
        BY Zenon, <4>1, TasksFinite, SumLaws
      <4> QED BY Zenon, <4>1, <4>2 DEF SumFunction
    <3> DEFINE B == SumFunction(balance)  N == SumFunction(net)
    <3>4. Money = B + N + fees + spent /\ Money' = (B + (-n)) + N + fees + (spent + n)
      BY Zenon, <2>5, <3>2 DEF Money, Withdraw, SumFunction
    <3>5. B \in Int /\ N \in Int
      BY Zenon, <3>2, <3>3
    <3> HIDE DEF B, N
    <3> QED BY <3>1, <3>4, <3>5
  <2>6. CASE PeerRemoved \/ Freeze \/ Unfreeze \/ Crash
    BY Zenon, <2>1, <2>6 DEF PeerRemoved, Freeze, Unfreeze, Crash
  <2>7. CASE UNCHANGED vars
    BY Zenon, <2>1, <2>7 DEF vars
  <2> QED BY Zenon, <2>2, <2>3, <2>4, <2>5, <2>6, <2>7 DEF Next
<1>3. MoneyConserved /\ Money' = Money => MoneyConserved'
  BY Zenon DEF Money, MoneyConserved
<1> QED BY <1>1, <1>2, <1>3, EscrowTypes, EscrowInvariance, PTL DEF Spec

\* While the allocation of a task settled here is disputed, no settlement,
\* sweep, late refund or submission takes from its escrow.
THEOREM DisputeLock == Spec => DisputeLocksEscrow
<1>1. TypeOK /\ TypeOK' /\ EscrowInv /\ [Next]_vars
        => \A t \in Task : Kind[t] # "federated" /\ status[t] = "disputed"
                             /\ dispute'[t] = dispute[t] => Held(t)' >= Held(t)
  <2> SUFFICES ASSUME TypeOK, TypeOK', EscrowInv, [Next]_vars, NEW u \in Task,
                      Kind[u] # "federated", status[u] = "disputed", dispute'[u] = dispute[u]
               PROVE  Held(u)' >= Held(u)
    BY Zenon
  <2>1. /\ Held(u) \in Int /\ AllocationInv(u) /\ net[u] \in Int /\ Gross \in Nat
        /\ net \in [Task -> Int] /\ fwd \in [Task -> Forwards]
    BY Zenon, AmountTypes, EscrowAmounts DEF EscrowInv, TypeOK
  <2>2. CASE net'[u] = net[u] /\ fwd'[u] = fwd[u]
    <3>1. Held(u)' = Held(u)
      BY Zenon, <2>2 DEF Held
    <3> QED BY <2>1, <3>1
  <2>3. CASE net'[u] = net[u] /\ fwd[u] = "pending" /\ fwd'[u] \in {"delivered", "failed"}
    BY <2>1, <2>3 DEF Held
  <2>4. CASE UNCHANGED vars
    BY Zenon, <2>2, <2>4 DEF vars
  <2>5. ASSUME NEW t \in Task, NEW s \in Step, StepNext(t, s)
        PROVE  Held(u)' >= Held(u)
    <3>1. net'[u] = net[u]
      BY Zenon, <2>1, <2>5 DEF StepNext, Admit, SettleLocal, SettleWith, Funded, ForwardCommit,
                               ForwardSend, ForwardReturn, StepDone
    <3>2. fwd'[u] = fwd[u] \/ (fwd[u] = "pending" /\ fwd'[u] = "delivered")
      BY Zenon, <2>1, <2>5 DEF StepNext, Admit, SettleLocal, ForwardCommit, ForwardSend,
                               ForwardReturn, Deliver, StepDone
    <3> QED BY Zenon, <2>2, <2>3, <3>1, <3>2
  <2>6. ASSUME NEW t \in Task, NEW p \in Pass, PassNext(t, p)
        PROVE  Held(u)' >= Held(u)
    <3>1. CASE RefundExhausted(t)
      <4>1. net'[u] = net[u]
        BY Zenon, <2>1, <3>1 DEF RefundExhausted, KeepsEscrow
      <4>2. fwd'[u] = fwd[u] \/ (fwd[u] = "pending" /\ fwd'[u] = "failed")
        BY Zenon, <2>1, <3>1 DEF RefundExhausted
      <4> QED BY Zenon, <2>2, <2>3, <4>1, <4>2
    <3>2. CASE PassAck(t, p)
      <4>1. net'[u] = net[u] /\ (fwd'[u] = fwd[u] \/ (fwd[u] = "pending" /\ fwd'[u] = "delivered"))
        BY Zenon, <2>1, <3>2 DEF PassAck, Deliver
      <4> QED BY Zenon, <2>2, <2>3, <4>1
    <3> QED BY Zenon, <2>2, <2>6, <3>1, <3>2 DEF PassNext, PassStart, PassClaim, PassSend,
                                                PassFail, CrashExhausting
  <2>7. ASSUME NEW t \in Task, TaskNext(t)
        PROVE  Held(u)' >= Held(u)
    <3>1. fwd' = fwd
      BY Zenon, <2>7 DEF TaskNext, Submit, Grant, GrantReleased, Answer, ChecksChange, PeerReceive, SweepRefund,
                         SweepFlag, RecordUnrecoverable, FileReceive, FileCommit, Finalize,
                         WindowClose
    <3>2. CASE Submit(t) \/ SweepRefund(t)
      <4>1. t # u
        BY Zenon, <2>1, <3>2 DEF Submit, SweepRefund, Stale, AllocationInv
      <4>2. net'[u] = net[u]
        BY Zenon, <2>1, <3>2, <4>1 DEF Submit, SweepRefund
      <4> QED BY Zenon, <2>2, <3>1, <4>2
    <3>3. CASE \E k \in 0..2 : Finalize(t, k)
      <4>1. dispute \in [Task -> Disputes] /\ dispute[t] = "live"
            /\ dispute' = [dispute EXCEPT ![t] = "final"]
        BY Zenon, <3>3 DEF Finalize, TypeOK
      <4>2. t # u
        BY Zenon, <4>1
      <4>3. net'[u] = net[u]
        BY Zenon, <2>1, <3>3, <4>2 DEF Finalize
      <4> QED BY Zenon, <2>2, <3>1, <4>3
    <3>4. CASE net' = net
      BY Zenon, <2>2, <3>1, <3>4
    <3> QED BY Zenon, <2>7, <3>2, <3>3, <3>4
               DEF TaskNext, Grant, GrantReleased, Answer, ChecksChange, PeerReceive, SweepFlag,
                   RecordUnrecoverable, FileReceive, FileCommit, WindowClose
  <2>8. CASE \/ \E a \in Account, n \in Amounts : Withdraw(a, n)
             \/ PeerRemoved \/ Freeze \/ Unfreeze \/ Crash
    BY Zenon, <2>2, <2>8 DEF Withdraw, PeerRemoved, Freeze, Unfreeze, Crash
  <2> QED BY Zenon, <2>4, <2>5, <2>6, <2>7, <2>8 DEF Next
<1> QED BY <1>1, EscrowTypes, EscrowInvariance, PTL DEF Spec, DisputeLocksEscrow
=============================================================================
