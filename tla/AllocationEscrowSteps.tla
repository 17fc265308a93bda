------------------------ MODULE AllocationEscrowSteps -----------------------
(***************************************************************************)
(* Type correctness of the escrow, for every finite set of tasks and every *)
(* amount and bound, the facts about its amounts the proofs share, and     *)
(* that task answers, refunds and passes preserve the escrow's inductive   *)
(* invariant EscrowInv.                                                    *)
(***************************************************************************)
EXTENDS AllocationEscrow, Sums

\* The tuples of variables are only abbreviations.
USE DEF ledger, forward, answer, flags, process, world, bounds

\* What the ledger's addition to one account leaves.
LEMMA AddValue ==
  ASSUME NEW b \in [Account -> Int], NEW a \in Account, NEW n \in Int
  PROVE  /\ Add(b, a, n) \in [Account -> Int]
         /\ \A c \in Account : Add(b, a, n)[c] = IF c = a THEN b[c] + n ELSE b[c]
BY DEF Add

\* What a step adds to a task's own escrow is an integer.
LEMMA AmountTypes ==
  ASSUME TypeOK, NEW t \in Task
  PROVE  /\ NetDue(t) \in Nat /\ FeeDue(t) \in Nat /\ NetDue(t) + FeeDue(t) \in {0, Gross}
         /\ Held(t) \in Int /\ HeldBack(t) \in Int /\ Released(t) \in Int
         /\ RecordOf(t) \in Records \ {"none"} /\ CloseAs(t) \in {"settled", "released"}
<1>1. /\ NetDue(t) \in Nat /\ FeeDue(t) \in Nat /\ NetDue(t) + FeeDue(t) \in {0, Gross}
  BY EscrowAmounts DEF NetDue, FeeDue
<1>2. Held(t) \in Int /\ HeldBack(t) \in Int
  BY EscrowAmounts DEF TypeOK, Held, HeldBack
<1>3. Released(t) \in Int
  BY <1>1, <1>2 DEF Released
<1>4. RecordOf(t) \in Records \ {"none"} /\ CloseAs(t) \in {"settled", "released"}
  BY Zenon DEF RecordOf, CloseAs, Records
<1> QED BY Zenon, <1>1, <1>2, <1>3, <1>4

\* What a verdict moves is part of what there is.
LEMMA ShareBounds ==
  ASSUME NEW n \in Int, NEW k \in 0..2
  PROVE  Share(n, k) \in Int /\ (n >= 0 => Share(n, k) >= 0 /\ Share(n, k) <= n)
<1>1. CASE k = 0 BY <1>1 DEF Share
<1>2. CASE k = 1 BY <1>2 DEF Share
<1>3. CASE k = 2 BY <1>3 DEF Share
<1> QED BY <1>1, <1>2, <1>3

-----------------------------------------------------------------------------
(* Types *)

\* A step of a settlement keeps the types.
LEMMA StepTypes ==
  ASSUME TypeOK, NEW t \in Task, NEW s \in Step, StepNext(t, s)
  PROVE  TypeOK'
<1> USE DEF StepTo, StepAt
<1>1. CASE Admit(t, s)
  BY Zenon, <1>1 DEF TypeOK, Admit, MarkSettled, NoteReplay
<1>2. CASE SettleLocal(t, s)
  <2>1. /\ Signer[t] \in Account /\ Payer[t] \in Account /\ NetDue(t) \in Int
        /\ Released(t) \in Int
    BY EscrowMaps, AmountTypes
  <2>2. CASE SettleWith(t, s, Released(t))
    <3>1. Add(balance, Signer[t], NetDue(t)) \in [Account -> Int]
      BY Zenon, <2>1, AddValue DEF TypeOK
    <3>2. balance' \in [Account -> Int]
      BY Zenon, <2>1, <2>2, <3>1, AddValue DEF SettleWith
    <3>3. /\ status' \in [Task -> Statuses] /\ row' \in [Task -> Records]
          /\ fees' \in Int /\ paid' \in [Task -> Int] /\ net' \in [Task -> Int]
          /\ step' \in [Task \X Step -> StepAt]
      <4>1. /\ NetDue(t) \in Int /\ FeeDue(t) \in Int /\ Released(t) \in Int
            /\ RecordOf(t) \in Records
        BY AmountTypes
      <4> QED BY <2>2, <4>1 DEF TypeOK, SettleWith, Statuses
    <3> QED BY Zenon, <1>2, <3>2, <3>3 DEF TypeOK, SettleLocal
  <2>3. CASE StepTo(t, s, "idle") /\ UNCHANGED <<status, ledger, row>>
    BY Zenon, <1>2, <2>3 DEF TypeOK, SettleLocal
  <2>4. CASE StepTo(t, s, "done") /\ UNCHANGED <<status, ledger, row>>
    BY Zenon, <1>2, <2>4 DEF TypeOK, SettleLocal
  <2> QED BY Zenon, <1>2, <2>2, <2>3, <2>4 DEF SettleLocal
<1>3. CASE ForwardCommit(t, s)
  BY Zenon, <1>3 DEF TypeOK, ForwardCommit, Forwards, Retries
<1>4. CASE ForwardSend(t, s)
  BY Zenon, <1>4 DEF TypeOK, ForwardSend
<1>5. CASE ForwardReturn(t, s)
  BY <1>5 DEF TypeOK, ForwardReturn, Deliver, Forwards, Retries
<1>6. CASE StepDone(t, s)
  BY Zenon, <1>6 DEF TypeOK, StepDone, MarkSettled, NoteReplay
<1> QED BY Zenon, <1>1, <1>2, <1>3, <1>4, <1>5, <1>6 DEF StepNext

\* The refund of an exhausted forward keeps the types.
LEMMA RefundTypes ==
  ASSUME TypeOK, NEW t \in Task, RefundExhausted(t)
  PROVE  /\ fwd' \in [Task -> Forwards] /\ status' \in [Task -> Statuses]
         /\ net' \in [Task -> Int] /\ balance' \in [Account -> Int]
<1>1. fwd' \in [Task -> Forwards]
  BY Zenon DEF TypeOK, RefundExhausted, Forwards
<1>2. status' \in [Task -> Statuses] /\ net' \in [Task -> Int]
  BY AmountTypes DEF TypeOK, RefundExhausted, Statuses
<1>3. balance' \in [Account -> Int]
  <2>1. Payer[t] \in Account /\ HeldBack(t) \in Int
    BY Zenon, AmountTypes, EscrowMaps
  <2>2. balance' = balance \/ balance' = Add(balance, Payer[t], HeldBack(t))
    BY Zenon DEF RefundExhausted, ExhaustionRefund
  <2> QED BY <2>1, <2>2, AddValue DEF TypeOK
<1> QED BY Zenon, <1>1, <1>2, <1>3

\* Where a pass goes keeps the types.
LEMMA PassToTypes ==
  ASSUME TypeOK, NEW t \in Task, NEW p \in Pass, NEW at \in PassAt, PassTo(t, p, at)
  PROVE  pass' \in [Task \X Pass -> PassAt] /\ seen' \in [Task \X Pass -> Nat]
<1>1. <<t, p>> \in Task \X Pass
  BY Zenon
<1>2. (IF at = "idle" THEN 0 ELSE seen[<<t, p>>]) \in Nat
  BY Zenon, <1>1 DEF TypeOK
<1>3. seen' = [seen EXCEPT ![<<t, p>>] = IF at = "idle" THEN 0 ELSE seen[<<t, p>>]]
  BY Zenon DEF PassTo
<1>4. pass' = [pass EXCEPT ![<<t, p>>] = at]
  BY Zenon DEF PassTo
<1>5. seen \in [Task \X Pass -> Nat] /\ pass \in [Task \X Pass -> PassAt]
  BY Zenon DEF TypeOK
<1>6. seen' \in [Task \X Pass -> Nat]
  BY Zenon, <1>2, <1>3, <1>5
<1> QED BY Zenon, <1>4, <1>5, <1>6

\* A step of a retry pass keeps the types.
LEMMA PassTypes ==
  ASSUME TypeOK, NEW t \in Task, NEW p \in Pass, PassNext(t, p)
  PROVE  TypeOK'
<1> USE DEF PassAt
<1>1. CASE PassStart(t, p)
  BY Zenon, <1>1 DEF TypeOK, PassStart
<1>2. CASE PassClaim(t, p)
  <2>1. /\ fwd' \in [Task -> Forwards] /\ status' \in [Task -> Statuses]
        /\ net' \in [Task -> Int] /\ balance' \in [Account -> Int]
    BY Zenon, <1>2, RefundTypes DEF TypeOK, PassClaim
  <2>2. retry' \in [Task -> Retries]
    BY <1>2 DEF TypeOK, PassClaim, RetryAs, Retries
  <2>3. pass' \in [Task \X Pass -> PassAt] /\ seen' \in [Task \X Pass -> Nat]
    BY Zenon, <1>2, PassToTypes DEF PassClaim, PassAt
  <2> QED BY Zenon, <1>2, <2>1, <2>2, <2>3 DEF TypeOK, PassClaim
<1>3. CASE PassSend(t, p)
  <2>1. pass' \in [Task \X Pass -> PassAt] /\ seen' \in [Task \X Pass -> Nat]
    BY Zenon, <1>3, PassToTypes DEF PassSend, PassAt
  <2> QED BY Zenon, <1>3, <2>1 DEF TypeOK, PassSend
<1>4. CASE PassAck(t, p)
  <2>1. pass' \in [Task \X Pass -> PassAt] /\ seen' \in [Task \X Pass -> Nat]
    BY Zenon, <1>4, PassToTypes DEF PassAck, PassAt
  <2> QED BY Zenon, <1>4, <2>1 DEF TypeOK, PassAck, RetryAs, Deliver, Forwards, Retries
<1>5. CASE PassFail(t, p)
  <2>1. /\ fwd' \in [Task -> Forwards] /\ status' \in [Task -> Statuses]
        /\ net' \in [Task -> Int] /\ balance' \in [Account -> Int]
    BY Zenon, <1>5, RefundTypes DEF TypeOK, PassFail
  <2>2. retry' \in [Task -> Retries] /\ attempts' \in [Task -> Nat]
    <3>1. seen[<<t, p>>] + 1 \in Nat
      BY DEF TypeOK
    <3> QED BY Zenon, <1>5, <3>1 DEF TypeOK, PassFail, RetryAs, Retries
  <2>3. pass' \in [Task \X Pass -> PassAt] /\ seen' \in [Task \X Pass -> Nat]
    BY Zenon, <1>5, PassToTypes DEF PassFail, PassAt
  <2> QED BY Zenon, <1>5, <2>1, <2>2, <2>3 DEF TypeOK, PassFail
<1>6. CASE CrashExhausting(t, p)
  <2>1. attempts' \in [Task -> Nat]
    BY <1>6 DEF TypeOK, CrashExhausting
  <2>2. retry' \in [Task -> Retries]
    BY Zenon, <1>6 DEF TypeOK, CrashExhausting, RetryAs, Retries
  <2>3. /\ step' \in [Task \X Step -> StepAt] /\ pass' \in [Task \X Pass -> PassAt]
        /\ seen' \in [Task \X Pass -> Nat] /\ filing' \in [Task -> {"none", "open", "closed"}]
        /\ crashes' \in Nat
    BY <1>6 DEF TypeOK, CrashExhausting, Restart, StepAt, PassAt
  <2> QED BY Zenon, <1>6, <2>1, <2>2, <2>3 DEF TypeOK, CrashExhausting
<1> QED BY Zenon, <1>1, <1>2, <1>3, <1>4, <1>5, <1>6 DEF PassNext

\* A step of submission, answer, sweep, dispute or verdict keeps the types.
LEMMA TaskTypes ==
  ASSUME TypeOK, NEW t \in Task, TaskNext(t)
  PROVE  TypeOK'
<1> USE DEF Statuses, Entries
<1>1. CASE Submit(t)
  <2>1. Payer[t] \in Account /\ -Hold \in Int
    BY EscrowMaps, EscrowAmounts
  <2>2. balance' \in [Account -> Int]
    BY Zenon, <1>1, <2>1, AddValue DEF TypeOK, Submit
  <2> QED BY <1>1, <2>2, EscrowAmounts DEF TypeOK, Submit
<1>2. CASE Grant(t) \/ GrantReleased(t)
  BY Zenon, <1>2 DEF TypeOK, Grant, GrantReleased
<1>3. CASE \E r \in {"completed", "failed"} : Answer(t, r)
  BY <1>3 DEF TypeOK, Answer, Receipts
<1>4. CASE PeerReceive(t)
  BY <1>4 DEF TypeOK, PeerReceive
<1>5. CASE SweepRefund(t)
  <2>1. Payer[t] \in Account /\ Held(t) \in Int
    BY Zenon, EscrowMaps, AmountTypes
  <2>2. balance' \in [Account -> Int]
    BY <1>5, <2>1, AddValue DEF TypeOK, SweepRefund
  <2>3. net' \in [Task -> Int]
    BY <1>5, <2>1 DEF TypeOK, SweepRefund
  <2> QED BY Zenon, <1>5, <2>2, <2>3 DEF TypeOK, SweepRefund
<1>6. CASE SweepFlag(t) \/ RecordUnrecoverable(t)
  <2>1. CASE SweepFlag(t)
    BY Zenon, <2>1 DEF TypeOK, SweepFlag
  <2>2. CASE RecordUnrecoverable(t)
    BY Zenon, <2>2 DEF TypeOK, RecordUnrecoverable
  <2> QED BY Zenon, <1>6, <2>1, <2>2
<1>7. CASE FileReceive(t) \/ FileCommit(t)
  <2>1. CASE FileReceive(t)
    BY Zenon, <2>1 DEF TypeOK, FileReceive
  <2>2. CASE FileCommit(t)
    BY Zenon, <2>2 DEF TypeOK, FileCommit, Disputes
  <2> QED BY <1>7, <2>1, <2>2
<1>8. CASE \E k \in 0..2 : Finalize(t, k)
  <2> PICK k \in 0..2 : Finalize(t, k)
    BY Zenon, <1>8
  <2> DEFINE claw   == paid[t] - Share(paid[t], k)
             worker == Share(Held(t), k)
             payer  == Held(t) - worker + claw
  <2>1. claw \in Int /\ -claw \in Int /\ worker \in Int /\ payer \in Int
    <3>1. paid[t] \in Int /\ Held(t) \in Int
      BY Zenon, AmountTypes DEF TypeOK
    <3> QED BY <3>1, ShareBounds
  <2>2. Signer[t] \in Account /\ Worker[t] \in Account /\ Payer[t] \in Account
    BY Zenon, EscrowMaps
  <2> HIDE DEF claw, worker, payer
  <2>3. Reclaim(t, claw) \in [Account -> Int]
    BY Zenon, <2>1, <2>2, AddValue DEF TypeOK, Reclaim
  <2>4. Add(Add(Reclaim(t, claw), Worker[t], worker), Payer[t], payer) \in [Account -> Int]
    <3>1. Add(Reclaim(t, claw), Worker[t], worker) \in [Account -> Int]
      BY Zenon, <2>1, <2>2, <2>3, AddValue
    <3> QED BY Zenon, <2>1, <2>2, <3>1, AddValue
  <2>5. /\ dispute' = [dispute EXCEPT ![t] = "final"]
        /\ \/ UNCHANGED <<status, net, paid, balance>>
           \/ /\ net' = [net EXCEPT ![t] = @ + claw - worker - payer]
              /\ paid' = [paid EXCEPT ![t] = @ - claw]
              /\ balance' = Add(Add(Reclaim(t, claw), Worker[t], worker), Payer[t], payer)
              /\ status' = [status EXCEPT ![t] = IF @ = "disputed" THEN CloseAs(t) ELSE @]
        /\ UNCHANGED <<fees, row, forward, answer, flags, peer, frozen, process, world, bounds>>
    BY Zenon DEF Finalize, claw, worker, payer
  <2>6. CloseAs(t) \in Statuses
    BY Zenon, AmountTypes
  <2> QED BY <2>1, <2>4, <2>5, <2>6 DEF TypeOK, Disputes
<1>9. CASE WindowClose(t)
  BY Zenon, <1>9 DEF TypeOK, WindowClose
<1>10. CASE ChecksChange(t)
  BY Zenon, <1>10 DEF TypeOK, ChecksChange
<1> QED BY Zenon, <1>1, <1>2, <1>3, <1>4, <1>5, <1>6, <1>7, <1>8, <1>9, <1>10 DEF TaskNext

\* What stays unwithdrawable is no debt.
LEMMA UnwithdrawableNat ==
  ASSUME NEW a
  PROVE  Unwithdrawable(a) \in Nat
<1> DEFINE S == {t \in Task : /\ row[t] = "completed" /\ HoldAccount(t) = a
                              /\ window[t] \/ dispute[t] = "live"}
<1>1. Cardinality(S) \in Nat
  BY Zenon, TasksFinite, FS_Subset, FS_CardinalityType
<1>2. Gross - Fee \in Nat
  BY EscrowAmounts
<1> HIDE DEF S
<1>3. \A m, n \in Nat : m * n \in Nat
  OBVIOUS
<1>4. (Gross - Fee) * Cardinality(S) \in Nat
  BY Zenon, <1>1, <1>2, <1>3
<1> QED BY Zenon, <1>4 DEF Unwithdrawable, S

\* A step of an account, of the operator or of the process keeps the types.
LEMMA OtherTypes ==
  ASSUME TypeOK,
         \/ \E a \in Account, n \in Amounts : Withdraw(a, n)
         \/ PeerRemoved \/ Freeze \/ Unfreeze \/ Crash
  PROVE  TypeOK'
<1>1. CASE \E a \in Account, n \in Amounts : Withdraw(a, n)
  <2> PICK a \in Account, n \in Amounts : Withdraw(a, n)
    BY Zenon, <1>1
  <2>1. n \in Int /\ -n \in Int
    BY EscrowMaps
  <2>2. balance' \in [Account -> Int]
    BY Zenon, <2>1, AddValue DEF TypeOK, Withdraw
  <2> QED BY <2>1, <2>2 DEF TypeOK, Withdraw
<1>2. CASE PeerRemoved \/ Freeze \/ Unfreeze
  <2>1. CASE PeerRemoved
    <3>1. peer' \in BOOLEAN
      BY Zenon, <2>1 DEF PeerRemoved
    <3>2. losses' \in Nat
      BY <2>1 DEF TypeOK, PeerRemoved
    <3> QED BY Zenon, <2>1, <3>1, <3>2 DEF TypeOK, PeerRemoved
  <2>2. CASE Freeze
    BY <2>2 DEF TypeOK, Freeze
  <2>3. CASE Unfreeze
    BY Zenon, <2>3 DEF TypeOK, Unfreeze
  <2> QED BY Zenon, <1>2, <2>1, <2>2, <2>3
<1>3. CASE Crash
  BY <1>3 DEF TypeOK, Crash, Restart, StepAt, PassAt
<1> QED BY Zenon, <1>1, <1>2, <1>3

\* Every reachable state is well typed.
THEOREM EscrowTypes == Spec => []TypeOK
<1>1. Init => TypeOK
  <2> SUFFICES ASSUME Init PROVE TypeOK
    BY Zenon
  <2>1. /\ settled \in [Task -> BOOLEAN] /\ review \in [Task -> BOOLEAN] /\ lost \in [Task -> BOOLEAN]
        /\ window \in [Task -> BOOLEAN] /\ wire \in [Task -> BOOLEAN]
    BY Zenon DEF Init
  <2>2. peer \in BOOLEAN /\ frozen \in BOOLEAN
    BY Zenon DEF Init
  <2>3. balance \in [Account -> Int]
    BY EscrowMaps DEF Init
  <2>4. /\ step \in [Task \X Step -> StepAt] /\ pass \in [Task \X Pass -> PassAt]
        /\ seen \in [Task \X Pass -> Nat]
    BY Zenon DEF Init, StepAt, PassAt
  <2> QED BY <2>1, <2>2, <2>3, <2>4 DEF Init, TypeOK, Statuses, Forwards, Retries, Entries,
                                        Receipts, Records, Disputes
<1>2. TypeOK /\ [Next]_vars => TypeOK'
  <2> SUFFICES ASSUME TypeOK, [Next]_vars PROVE TypeOK'
    BY Zenon
  <2>1. CASE UNCHANGED vars
    BY Zenon, <2>1 DEF TypeOK, vars
  <2> QED BY Zenon, <2>1, StepTypes, PassTypes, TaskTypes, OtherTypes DEF Next
<1> QED BY <1>1, <1>2, PTL DEF Spec
-----------------------------------------------------------------------------
(* The inductive invariant, step by step *)

\* Nothing AllocationInv speaks of changes for u, but that a pass may end.
Same(u) ==
  /\ status'[u] = status[u] /\ net'[u] = net[u] /\ paid'[u] = paid[u] /\ row'[u] = row[u]
  /\ fwd'[u] = fwd[u] /\ retry'[u] = retry[u] /\ dispute'[u] = dispute[u]
  /\ task'[u] = "none" => task[u] = "none"
  /\ \A p \in Pass : pass'[<<u, p>>] \in {pass[<<u, p>>], "idle"}

\* A task no step touches keeps its invariant.
LEMMA Frame ==
  ASSUME NEW u \in Task, AllocationInv(u), Same(u)
  PROVE  AllocationInv(u)'
BY Zenon DEF AllocationInv, Same, Held

\* The balances after a credit or a debit that is covered.
LEMMA AddCovered ==
  ASSUME NEW b \in [Account -> Int], NEW a \in Account, NEW n \in Int,
         \A c \in Account : b[c] >= 0, b[a] + n >= 0
  PROVE  \A c \in Account : Add(b, a, n)[c] >= 0
<1>1. \A c \in Account : Add(b, a, n)[c] = IF c = a THEN b[c] + n ELSE b[c]
  BY Zenon, AddValue
<1> QED BY Zenon, <1>1

\* A step of a settlement keeps the invariant.
LEMMA StepInv ==
  ASSUME TypeOK, EscrowInv, NEW t \in Task, NEW s \in Step, StepNext(t, s)
  PROVE  EscrowInv'
<1>1. CASE Admit(t, s) \/ ForwardSend(t, s) \/ StepDone(t, s)
  <2>1. UNCHANGED <<status, net, paid, balance, row, fwd, retry, dispute, task, pass>>
    BY Zenon, <1>1 DEF Admit, ForwardSend, StepDone
  <2>2. \A u \in Task : Same(u)
    BY Zenon, <2>1 DEF Same
  <2> QED BY Zenon, <2>1, <2>2, Frame DEF EscrowInv
<1>2. CASE SettleLocal(t, s)
  <2>1. CASE UNCHANGED <<status, ledger, row>>
    <3>1. \A u \in Task : Same(u)
      BY Zenon, <1>2, <2>1 DEF SettleLocal, Same
    <3> QED BY Zenon, <2>1, <3>1, Frame DEF EscrowInv
  <2>2. CASE Funded(t) /\ SettleWith(t, s, Released(t))
    <3>1. \A u \in Task \ {t} : Same(u)
      BY Zenon, <1>2, <2>2 DEF SettleLocal, SettleWith, Same, TypeOK
    <3> DEFINE due == NetDue(t) + FeeDue(t)
    <3>2. /\ NetDue(t) \in Nat /\ FeeDue(t) \in Nat /\ Held(t) \in Int /\ due <= Held(t)
          /\ RecordOf(t) # "none"
      BY Zenon, <2>2, AmountTypes DEF SettleWith, MayMove
    <3>3. Released(t) \in Nat /\ due + Released(t) <= Held(t)
      <4>1. CASE Kind[t] = "direct"
        BY <3>2, <4>1 DEF Released
      <4>2. CASE Kind[t] # "direct"
        BY <3>2, <4>2 DEF Released
      <4> QED BY Zenon, <4>1, <4>2
    <3>4. /\ status'[t] = "settled" /\ row'[t] # "none" /\ paid'[t] >= 0
          /\ net'[t] = net[t] - NetDue(t) - FeeDue(t) - Released(t)
      BY <2>2, <3>2 DEF SettleWith, TypeOK
    <3>5. /\ fwd'[t] = "none" /\ fwd[t] = "none" /\ UNCHANGED <<task, dispute, retry, pass>>
          /\ status[t] = "locked"
      BY Zenon, <1>2, <2>2 DEF SettleLocal, SettleWith, NoRow, Funded
    <3>6. AllocationInv(t)'
      <4>1. AllocationInv(t) /\ net[t] \in Int /\ net'[t] \in Int
        BY Zenon, StepTypes DEF EscrowInv, TypeOK
      <4>2. Held(t) = net[t] /\ Held(t)' = net'[t]
        BY <3>5, <4>1 DEF Held
      <4>3. Held(t)' >= 0
        BY <3>2, <3>3, <3>4, <4>1, <4>2
      <4> QED BY Zenon, <3>4, <3>5, <4>1, <4>3 DEF AllocationInv
    <3>7. \A a \in Account : balance'[a] >= 0
      <4>1. Signer[t] \in Account /\ Payer[t] \in Account
        BY Zenon, EscrowMaps
      <4>2. balance \in [Account -> Int] /\ \A a \in Account : balance[a] >= 0
        BY Zenon DEF TypeOK, EscrowInv
      <4> DEFINE b == Add(balance, Signer[t], NetDue(t))
      <4>3. b \in [Account -> Int] /\ \A a \in Account : b[a] >= 0
        <5>1. balance[Signer[t]] + NetDue(t) >= 0
          BY <3>2, <4>1, <4>2
        <5>2. NetDue(t) \in Int
          BY <3>2
        <5>3. b \in [Account -> Int]
          BY Zenon, <4>1, <4>2, <5>2, AddValue
        <5>4. \A a \in Account : b[a] >= 0
          BY Zenon, <4>1, <4>2, <5>1, <5>2, AddCovered
        <5> QED BY Zenon, <5>3, <5>4
      <4> HIDE DEF b
      <4>4. \A a \in Account : Add(b, Payer[t], Released(t))[a] >= 0
        <5>1. b[Payer[t]] + Released(t) >= 0
          BY <3>3, <4>1, <4>3
        <5> QED BY <3>3, <4>1, <4>3, <5>1, AddCovered
      <4> QED BY Zenon, <2>2, <4>4 DEF SettleWith, b
    <3> QED BY Zenon, <3>1, <3>6, <3>7, Frame DEF EscrowInv
  <2> QED BY Zenon, <1>2, <2>1, <2>2 DEF SettleLocal
<1>3. CASE ForwardCommit(t, s)
  <2>1. UNCHANGED <<status, net, paid, balance, row, dispute, task, pass>>
    BY Zenon, <1>3 DEF ForwardCommit
  <2>2. CASE UNCHANGED <<fwd, retry>>
    <3>1. \A u \in Task : Same(u)
      BY Zenon, <2>1, <2>2 DEF Same
    <3> QED BY Zenon, <2>1, <3>1, Frame DEF EscrowInv
  <2>3. CASE /\ MayMove(t, Gross) /\ NoRow(t)
             /\ fwd' = [fwd EXCEPT ![t] = "pending"]
             /\ retry' = [retry EXCEPT ![t] = "pending"]
    <3>1. \A u \in Task \ {t} : Same(u)
      BY Zenon, <2>1, <2>3 DEF Same, TypeOK
    <3>2. AllocationInv(t) /\ net[t] \in Int /\ Gross \in Nat /\ Gross > 0
      BY EscrowAmounts DEF EscrowInv, TypeOK
    <3>3. fwd[t] = "none" /\ fwd'[t] = "pending" /\ row[t] = "none" /\ Gross <= net[t]
      BY <2>3 DEF MayMove, NoRow, Held, TypeOK
    <3>4. Held(t)' >= 0
      BY <2>1, <3>2, <3>3 DEF Held
    <3>5. status[t] # "none" /\ status[t] # "released"
      BY <3>2, <3>3 DEF AllocationInv, Held
    <3>6. AllocationInv(t)'
      BY Zenon, <2>1, <3>2, <3>3, <3>4, <3>5 DEF AllocationInv
    <3> QED BY Zenon, <2>1, <3>1, <3>6, Frame DEF EscrowInv
  <2> QED BY Zenon, <1>3, <2>2, <2>3 DEF ForwardCommit
<1>4. CASE ForwardReturn(t, s)
  <2>1. UNCHANGED <<status, net, paid, balance, row, dispute, task, pass>>
    BY Zenon, <1>4 DEF ForwardReturn
  <2>2. \A u \in Task \ {t} : Same(u)
    BY Zenon, <1>4, <2>1 DEF ForwardReturn, Deliver, Same, TypeOK
  <2>3. /\ fwd'[t] \in {fwd[t], IF fwd[t] = "pending" THEN "delivered" ELSE fwd[t]}
        /\ retry'[t] \in {retry[t], "none"}
    BY Zenon, <1>4 DEF ForwardReturn, Deliver, TypeOK
  <2>4. AllocationInv(t)
    BY Zenon DEF EscrowInv
  <2>5. Held(t)' = Held(t)
    BY Zenon, <2>1, <2>3 DEF Held
  <2>6. AllocationInv(t)'
    BY Zenon, <2>1, <2>3, <2>4, <2>5 DEF AllocationInv
  <2> QED BY <2>1, <2>2, <2>6, Frame DEF EscrowInv
<1> QED BY Zenon, <1>1, <1>2, <1>3, <1>4 DEF StepNext

\* What the refund of an exhausted forward does to its allocation: the price
\* comes back and stays for a claim or a dispute, or goes on to the payer; once
\* the forward had ended, a locked rest is released or nothing changes.
LEMMA RefundOutcome ==
  ASSUME TypeOK, TypeOK', NEW t \in Task, AllocationInv(t), fwd[t] # "none",
         RefundExhausted(t)
  PROVE  \/ /\ fwd[t] = "pending" /\ fwd'[t] = "failed" /\ status[t] \in {"locked", "disputed"}
            /\ status'[t] = status[t] /\ net'[t] = net[t] /\ balance' = balance
         \/ /\ fwd[t] = "pending" /\ fwd'[t] = "failed" /\ status[t] \in {"locked", "released"}
            /\ status'[t] = "released" /\ net'[t] = 0 /\ net[t] >= 0
            /\ balance' = Add(balance, Payer[t], net[t])
         \/ /\ fwd[t] # "pending" /\ fwd'[t] = fwd[t]
            /\ status'[t] = status[t] /\ net'[t] = net[t] /\ balance' = balance
         \/ /\ fwd[t] # "pending" /\ fwd'[t] = fwd[t] /\ status[t] = "locked"
            /\ status'[t] = "released" /\ net'[t] = net[t] - Held(t) /\ Held(t) >= 0
            /\ balance' = Add(balance, Payer[t], Held(t))
<1>1. /\ net[t] \in Int /\ Gross \in Nat /\ Gross > 0 /\ fwd[t] \in Forwards
      /\ status[t] \in Statuses
  BY EscrowAmounts DEF TypeOK
<1>2. fwd'[t] = IF fwd[t] = "pending" THEN "failed" ELSE fwd[t]
  BY Zenon DEF RefundExhausted, TypeOK
<1>3. status[t] \in {"locked", "released", "disputed"}
  BY Zenon, <1>1 DEF AllocationInv, Statuses
<1>4. CASE KeepsEscrow(t) \/ HeldBack(t) <= 0
  <2>1. UNCHANGED <<status, net, balance>>
    BY Zenon, <1>4 DEF RefundExhausted
  <2>2. fwd[t] = "pending" => HeldBack(t) > 0
    BY <1>1 DEF HeldBack, AllocationInv, Held
  <2>3. KeepsEscrow(t) => status[t] \in {"locked", "disputed"}
    BY Zenon DEF KeepsEscrow
  <2>4. HeldBack(t) \in Int
    BY <1>1 DEF HeldBack
  <2> QED BY <1>2, <1>4, <2>1, <2>2, <2>3, <2>4
<1>5. CASE ~(KeepsEscrow(t) \/ HeldBack(t) <= 0)
  <2>1. /\ net' = [net EXCEPT ![t] = @ - HeldBack(t)]
        /\ balance' = Add(balance, Payer[t], HeldBack(t))
        /\ status' = [status EXCEPT ![t] = IF @ = "locked" THEN "released" ELSE @]
    BY Zenon, <1>5 DEF RefundExhausted, ExhaustionRefund
  <2>2. status[t] \in {"locked", "released"} /\ status'[t] = "released"
    BY Zenon, <1>3, <1>5, <2>1 DEF KeepsEscrow, TypeOK
  <2>3. HeldBack(t) \in Int /\ HeldBack(t) > 0 /\ net'[t] = net[t] - HeldBack(t)
    <3>1. HeldBack(t) \in Int
      BY <1>1 DEF HeldBack
    <3> QED BY <1>5, <2>1, <3>1 DEF TypeOK
  <2>4. CASE fwd[t] = "pending"
    <3>1. HeldBack(t) = net[t]
      BY <1>1, <2>4 DEF HeldBack
    <3> QED BY <1>1, <1>2, <2>1, <2>2, <2>3, <2>4, <3>1
  <2>5. CASE fwd[t] # "pending"
    <3>1. HeldBack(t) = Held(t)
      BY Zenon, <1>1, <2>5 DEF HeldBack, Held, Forwards
    <3>2. status[t] = "locked"
      BY <2>2, <2>3, <3>1 DEF AllocationInv
    <3> QED BY <1>2, <2>1, <2>2, <2>3, <2>5, <3>1, <3>2
  <2> QED BY Zenon, <2>4, <2>5
<1> QED BY Zenon, <1>4, <1>5

\* The refund keeps the invariant of its task and the balances.
LEMMA RefundInv ==
  ASSUME TypeOK, TypeOK', EscrowInv, NEW t \in Task, fwd[t] # "none", RefundExhausted(t),
         UNCHANGED <<paid, row, dispute, task>>
  PROVE  AllocationInv(t)' /\ \A a \in Account : balance'[a] >= 0
<1>1. /\ AllocationInv(t) /\ net[t] \in Int /\ Gross \in Nat /\ fwd[t] \in Forwards
      /\ net'[t] \in Int
  BY Zenon, EscrowAmounts DEF EscrowInv, TypeOK
<1>2. fwd'[t] # "none"
  BY Zenon DEF RefundExhausted, TypeOK
<1>3. Held(t)' >= 0 /\ (status'[t] = "released" => Held(t)' = 0)
  <2>1. /\ Held(t) >= 0 /\ (status[t] = "released" => Held(t) = 0)
    BY Zenon, <1>1 DEF AllocationInv
  <2>2. /\ Held(t) = net[t] - (IF fwd[t] \in {"pending", "delivered"} THEN Gross ELSE 0)
        /\ Held(t)' = net'[t] - (IF fwd'[t] \in {"pending", "delivered"} THEN Gross ELSE 0)
    BY Zenon DEF Held
  <2>3. CASE /\ fwd[t] = "pending" /\ fwd'[t] = "failed" /\ net'[t] = net[t]
             /\ status[t] \in {"locked", "disputed"} /\ status'[t] = status[t]
    <3>1. Held(t) = net[t] - Gross /\ Held(t)' = net[t] - 0 /\ status'[t] # "released"
      BY SMT, <2>2, <2>3
    <3>2. net[t] \in Int /\ Gross \in Nat /\ Held(t) >= 0
      BY Zenon, <1>1, <2>1
    <3> QED BY SMT, <3>1, <3>2
  <2>4. CASE fwd'[t] = "failed" /\ net'[t] = 0
    <3>1. Held(t)' = 0 - 0
      BY SMT, <2>2, <2>4
    <3> QED BY SMT, <3>1
  <2>5. CASE fwd'[t] = fwd[t] /\ status'[t] = status[t] /\ net'[t] = net[t]
    BY Zenon, <2>1, <2>2, <2>5
  <2>6. CASE fwd'[t] = fwd[t] /\ net'[t] = net[t] - Held(t)
    <3> DEFINE lent == IF fwd[t] \in {"pending", "delivered"} THEN Gross ELSE 0
    <3>1. Held(t) = net[t] - lent /\ Held(t)' = (net[t] - Held(t)) - lent
      BY Zenon, <2>2, <2>6
    <3> QED BY SMT, <1>1, <3>1
  <2> QED BY Zenon, <1>1, <2>3, <2>4, <2>5, <2>6, RefundOutcome
<1>4. /\ status'[t] = status[t] \/ (status[t] = "locked" /\ status'[t] = "released")
  BY Zenon, <1>1, RefundOutcome
<1>5. AllocationInv(t)'
  BY Zenon, <1>1, <1>2, <1>3, <1>4 DEF AllocationInv
<1>6. \A a \in Account : balance'[a] >= 0
  <2>1. Payer[t] \in Account /\ balance \in [Account -> Int] /\ Held(t) \in Int
    <3>1. Payer[t] \in Account
      BY Zenon, EscrowMaps
    <3>2. Held(t) \in Int
      BY Zenon, AmountTypes
    <3> QED BY Zenon, <3>1, <3>2 DEF TypeOK
  <2>2. \A a \in Account : balance[a] >= 0
    BY Zenon DEF EscrowInv
  <2>3. \E n \in Nat : balance' = balance \/ balance' = Add(balance, Payer[t], n)
    <3>1. \/ balance' = balance
          \/ net[t] >= 0 /\ balance' = Add(balance, Payer[t], net[t])
          \/ Held(t) >= 0 /\ balance' = Add(balance, Payer[t], Held(t))
      BY Zenon, <1>1, RefundOutcome
    <3>2. CASE balance' = balance
      <4> WITNESS 0 \in Nat
      <4> QED BY Zenon, <3>2
    <3>3. CASE net[t] >= 0 /\ balance' = Add(balance, Payer[t], net[t])
      <4>1. net[t] \in Nat
        BY <1>1, <3>3
      <4> QED BY Zenon, <3>3, <4>1
    <3>4. CASE Held(t) >= 0 /\ balance' = Add(balance, Payer[t], Held(t))
      <4>1. Held(t) \in Nat
        BY <2>1, <3>4
      <4> QED BY Zenon, <3>4, <4>1
    <3> QED BY Zenon, <3>1, <3>2, <3>3, <3>4
  <2>4. PICK n \in Nat : balance' = balance \/ balance' = Add(balance, Payer[t], n)
    BY Zenon, <2>3
  <2>5. balance[Payer[t]] + n >= 0
    BY <2>1, <2>2
  <2> QED BY <2>1, <2>2, <2>4, <2>5, AddCovered
<1> QED BY Zenon, <1>5, <1>6

\* A step of a retry pass keeps the invariant.
LEMMA PassInv ==
  ASSUME TypeOK, EscrowInv, NEW t \in Task, NEW p \in Pass, PassNext(t, p)
  PROVE  EscrowInv'
<1>1. TypeOK' /\ AllocationInv(t) /\ <<t, p>> \in Task \X Pass
  BY Zenon, PassTypes DEF EscrowInv
<1>2. CASE PassStart(t, p)
  <2>1. UNCHANGED <<status, net, paid, balance, row, fwd, retry, dispute, task>>
    BY Zenon, <1>2 DEF PassStart
  <2>2. \A u \in Task \ {t} : Same(u)
    BY Zenon, <1>2, <2>1 DEF PassStart, Same, TypeOK
  <2>3. fwd[t] # "none"
    BY Zenon, <1>1, <1>2 DEF PassStart, AllocationInv
  <2>4. Held(t)' = Held(t)
    BY Zenon, <2>1 DEF Held
  <2>5. AllocationInv(t)'
    BY Zenon, <1>1, <2>1, <2>3, <2>4 DEF AllocationInv
  <2> QED BY Zenon, <2>1, <2>2, <2>5, Frame DEF EscrowInv
<1>3. CASE PassClaim(t, p)
  <2>1. UNCHANGED <<paid, row, dispute, task>> /\ fwd[t] # "none" /\ PassTo(t, p, pass'[<<t, p>>])
    BY Zenon, <1>1, <1>3 DEF PassClaim, PassTo, AllocationInv, TypeOK
  <2>2. \A u \in Task \ {t} : Same(u)
    <3>1. \A u \in Task \ {t} : \A q \in Pass : pass'[<<u, q>>] = pass[<<u, q>>]
      BY Zenon, <2>1 DEF PassTo, TypeOK
    <3>2. \A u \in Task \ {t} : /\ status'[u] = status[u] /\ net'[u] = net[u]
                                 /\ fwd'[u] = fwd[u] /\ retry'[u] = retry[u]
      BY <1>3 DEF PassClaim, RetryAs, RefundExhausted, TypeOK
    <3> QED BY Zenon, <2>1, <3>1, <3>2 DEF Same
  <2>3. AllocationInv(t)' /\ \A a \in Account : balance'[a] >= 0
    <3>1. CASE RefundExhausted(t)
      BY Zenon, <1>1, <2>1, <3>1, RefundInv
    <3>2. CASE UNCHANGED <<status, net, balance, fwd>>
      <4>1. Held(t)' = Held(t)
        BY Zenon, <3>2 DEF Held
      <4> QED BY Zenon, <1>1, <2>1, <3>2, <4>1 DEF AllocationInv, EscrowInv
    <3> QED BY Zenon, <1>3, <3>1, <3>2 DEF PassClaim
  <2> QED BY Zenon, <2>2, <2>3, Frame DEF EscrowInv
<1>4. CASE PassSend(t, p)
  <2>1. UNCHANGED <<status, net, paid, balance, row, fwd, retry, dispute, task>>
    BY Zenon, <1>4 DEF PassSend
  <2>2. fwd[t] # "none" /\ PassTo(t, p, pass'[<<t, p>>])
    BY Zenon, <1>1, <1>4 DEF PassSend, PassTo, AllocationInv, TypeOK
  <2>3. \A u \in Task \ {t} : Same(u)
    BY Zenon, <2>1, <2>2 DEF PassTo, Same, TypeOK
  <2>4. Held(t)' = Held(t)
    BY <2>1 DEF Held
  <2>5. AllocationInv(t)'
    BY Zenon, <1>1, <2>1, <2>2, <2>4 DEF AllocationInv
  <2> QED BY <2>1, <2>3, <2>5, Frame DEF EscrowInv
<1>5. CASE PassAck(t, p)
  <2>1. UNCHANGED <<status, net, paid, balance, row, dispute, task>>
    BY Zenon, <1>5 DEF PassAck
  <2>2. fwd[t] # "none" /\ PassTo(t, p, "idle")
    BY Zenon, <1>1, <1>5 DEF PassAck, AllocationInv
  <2>3. \A u \in Task \ {t} : Same(u)
    BY Zenon, <1>5, <2>1, <2>2 DEF PassAck, PassTo, RetryAs, Deliver, Same, TypeOK
  <2>4. fwd'[t] = IF fwd[t] = "pending" THEN "delivered" ELSE fwd[t]
    BY Zenon, <1>5 DEF PassAck, Deliver, TypeOK
  <2>5. Held(t)' = Held(t)
    BY Zenon, <2>1, <2>4 DEF Held
  <2>6. AllocationInv(t)'
    <3>1. fwd'[t] # "none"
      BY <2>2, <2>4
    <3>2. row[t] = "none" /\ status[t] # "none"
      BY Zenon, <1>1, <2>2 DEF AllocationInv
    <3> QED BY ZenonT(30), <1>1, <2>1, <2>5, <3>1, <3>2 DEF AllocationInv
  <2> QED BY Zenon, <2>1, <2>3, <2>6, Frame DEF EscrowInv
<1>6. CASE PassFail(t, p)
  <2>1. UNCHANGED <<paid, row, dispute, task>> /\ fwd[t] # "none" /\ PassTo(t, p, "idle")
    BY Zenon, <1>1, <1>6 DEF PassFail, AllocationInv
  <2>2. \A u \in Task \ {t} : Same(u)
    <3>1. \A u \in Task \ {t} : \A q \in Pass : pass'[<<u, q>>] = pass[<<u, q>>]
      BY Zenon, <2>1 DEF PassTo, TypeOK
    <3>2. \A u \in Task \ {t} : /\ status'[u] = status[u] /\ net'[u] = net[u]
                                 /\ fwd'[u] = fwd[u] /\ retry'[u] = retry[u]
      BY <1>6 DEF PassFail, RetryAs, RefundExhausted, TypeOK
    <3> QED BY Zenon, <2>1, <3>1, <3>2 DEF Same
  <2>3. AllocationInv(t)' /\ \A a \in Account : balance'[a] >= 0
    <3>1. CASE RefundExhausted(t)
      BY Zenon, <1>1, <2>1, <3>1, RefundInv
    <3>2. CASE UNCHANGED <<status, net, balance, fwd>>
      <4>1. Held(t)' = Held(t)
        BY <3>2 DEF Held
      <4> QED BY ZenonT(30), <1>1, <2>1, <3>2, <4>1 DEF AllocationInv, EscrowInv
    <3> QED BY Zenon, <1>6, <3>1, <3>2 DEF PassFail
  <2> QED BY <2>2, <2>3, Frame DEF EscrowInv
<1>7. CASE CrashExhausting(t, p)
  <2>1. /\ UNCHANGED <<status, net, paid, balance, row, fwd, dispute, task>>
        /\ \A x \in Task \X Pass : pass'[x] = "idle"
    BY Zenon, <1>7 DEF CrashExhausting, Restart
  <2>2. \A u \in Task : retry'[u] = "none" <=> retry[u] = "none"
    <3>1. retry \in [Task -> Retries]
      BY Zenon DEF TypeOK
    <3>2. retry' = [retry EXCEPT ![t] = IF retry[t] = "none" THEN retry[t] ELSE "failed"]
      BY Zenon, <1>7 DEF CrashExhausting, RetryAs
    <3> QED BY Zenon, <3>1, <3>2
  <2>3. \A u \in Task : Held(u)' = Held(u)
    BY Zenon, <2>1 DEF Held
  <2>4. \A u \in Task : AllocationInv(u)'
    BY <2>1, <2>2, <2>3 DEF EscrowInv, AllocationInv
  <2> QED BY Zenon, <2>1, <2>4 DEF EscrowInv
<1> QED BY Zenon, <1>2, <1>3, <1>4, <1>5, <1>6, <1>7 DEF PassNext
=============================================================================
