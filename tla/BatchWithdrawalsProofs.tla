----------------------- MODULE BatchWithdrawalsProofs -----------------------
(***************************************************************************)
(* The queue of batched withdrawals, for every set of rows, rails and      *)
(* overlapping ticks and every number of crashes and freezes: a rail is    *)
(* called once at most for a row, no outcome is lost, and what is refunded *)
(* is not paid.                                                            *)
(***************************************************************************)
EXTENDS BatchWithdrawals, Sums

\* The tuples of variables are only abbreviations.
USE DEF queue, locals, outer, bounds
-----------------------------------------------------------------------------
(* Types *)

\* The outcomes of a row keep its types.
LEMMA OutcomeTypes ==
  ASSUME TypeOK, NEW t \in Tick, NEW p \in Item
  PROVE  /\ SettleOwedRefund(p) => row' \in [Item -> Rows] /\ balance' \in [Account -> Nat]
         /\ \A how : MarkFailed(t, p, how) => /\ row' \in [Item -> Rows] /\ wd' \in [Item -> Records]
                                              /\ owe' \in [Tick -> SUBSET Item]
         /\ MarkFired(p) => /\ row' \in [Item -> Rows] /\ wd' \in [Item -> Records]
                            /\ owe' \in [Tick -> SUBSET Item]
<1>1. SettleOwedRefund(p) => row' \in [Item -> Rows] /\ balance' \in [Account -> Nat]
  BY QueueSets DEF SettleOwedRefund, TypeOK, Rows
<1>2. ASSUME NEW how, MarkFailed(t, p, how)
      PROVE  /\ row' \in [Item -> Rows] /\ wd' \in [Item -> Records]
             /\ owe' \in [Tick -> SUBSET Item]
  BY <1>2 DEF MarkFailed, RefundNotSent, HoldUnknown, TypeOK, Rows, Records
<1>3. MarkFired(p) => /\ row' \in [Item -> Rows] /\ wd' \in [Item -> Records]
                      /\ owe' \in [Tick -> SUBSET Item]
  BY Zenon DEF MarkFired, FiredRecords, TypeOK, Rows, Records
<1> QED BY Zenon, <1>1, <1>2, <1>3

\* A tick's step keeps the types.
LEMMA TickTypes ==
  ASSUME TypeOK, NEW t \in Tick, TickStart(t) \/ Continue(t)
  PROVE  TypeOK'
<1> USE DEF Pcs, Awaiting, Answers
<1>1. CASE TickStart(t)
  BY Zenon, <1>1 DEF TickStart, Move, TypeOK
<1>2. ASSUME NEW p \in Item, RecoverFiring(t, p) PROVE TypeOK'
  BY Zenon, <1>2, OutcomeTypes DEF RecoverFiring, TypeOK
<1>3. ASSUME NEW p \in Item, SettleOwedRefunds(t, p) PROVE TypeOK'
  BY Zenon, <1>3, OutcomeTypes DEF SettleOwedRefunds, TypeOK
<1>4. ASSUME NEW p \in Item, Claim(t, p) PROVE TypeOK'
  BY <1>4 DEF Claim, InFlight, TypeOK, Rows
<1>5. ASSUME NEW S \in SUBSET Item, NEW how \in {"one", "batch"}, Send(t, S, how) PROVE TypeOK'
  <2>1. calls' \in [Item -> Nat] /\ transfer' \in [Item -> Transfers]
    BY <1>5 DEF Send, TypeOK, Transfers
  <2> QED BY Zenon, <1>5, <2>1 DEF Send, Move, TypeOK
<1>6. ASSUME NEW p \in Item, SendOne(t, p) PROVE TypeOK'
  BY Zenon, <1>5, <1>6 DEF SendOne
<1>7. CASE SendBatch(t)
  BY Zenon, <1>5, <1>7 DEF SendBatch, TypeOK
<1>8. ASSUME NEW p \in Item, Record(t, p) PROVE TypeOK'
  <2>1. /\ row' \in [Item -> Rows] /\ wd' \in [Item -> Records] /\ owe' \in [Tick -> SUBSET Item]
    BY Zenon, <1>8, OutcomeTypes DEF Record, TypeOK
  <2> QED BY Zenon, <1>8, <2>1 DEF Record, Move, TypeOK
<1>9. CASE RefundParked(t)
  <2>1. PICK p \in owe[t] : SettleOwedRefund(p)
    BY Zenon, <1>9 DEF RefundParked
  <2>2. p \in Item
    BY Zenon DEF TypeOK
  <2> QED BY Zenon, <1>9, <2>1, <2>2, OutcomeTypes DEF RefundParked, TypeOK
<1>10. CASE RecoverDone(t) \/ SettleDone(t) \/ TickEnd(t) \/ ClaimFrozen(t) \/ RailDone(t)
  BY <1>10 DEF RecoverDone, SettleDone, TickEnd, ClaimFrozen, RailDone, Move, TypeOK
<1>11. CASE Return(t)
  BY Zenon, <1>11 DEF Return, Move, TypeOK
<1>12. ASSUME NEW r \in Rail, SkipRail(t, r) \/ FireRail(t, r) PROVE TypeOK'
  BY <1>12 DEF SkipRail, FireRail, Pending, Move, TypeOK
<1> QED BY Zenon, <1>1, <1>2, <1>3, <1>4, <1>6, <1>7, <1>8, <1>9, <1>10, <1>11, <1>12 DEF Continue

LEMMA InitTypes == Init => TypeOK
<1> SUFFICES ASSUME Init PROVE TypeOK
  BY Zenon
<1>1. \E q \in Route : via = q.via /\ key = q.key
  BY Zenon DEF Init
<1>2. /\ row \in [Item -> Rows] /\ amount \in [Item -> Nat] /\ wd \in [Item -> Records]
      /\ balance \in [Account -> Nat] /\ frozen \in BOOLEAN
  BY Zenon, SweepAmounts DEF Init, Rows, Records
<1>3. /\ earlier \subseteq Item /\ firingHere \subseteq Item
      /\ pc \in [Tick -> Pcs] /\ rails \in [Tick -> SUBSET Rail]
      /\ todo \in [Tick -> SUBSET Item] /\ held \in [Tick -> SUBSET Item]
      /\ out \in [Tick -> SUBSET Item] /\ owe \in [Tick -> SUBSET Item]
  BY Zenon DEF Init, Pcs, Awaiting
<1>4. /\ transfer \in [Item -> Transfers] /\ calls \in [Item -> Nat]
      /\ crashes \in Nat /\ freezes \in Nat
  BY Zenon DEF Init, Transfers
<1> QED BY <1>1, <1>2, <1>3, <1>4, Zenon DEF TypeOK

\* Every reachable state is well typed: no balance is negative, no tick is
\* anywhere but at one of its awaits or steps.
THEOREM TypeCorrect == Spec => []TypeOK
<1>1. TypeOK /\ [Next]_vars => TypeOK'
  <2> SUFFICES ASSUME TypeOK, [Next]_vars PROVE TypeOK'
    BY Zenon
  <2>1. ASSUME NEW t \in Tick, TickStart(t) \/ Continue(t) PROVE TypeOK'
    BY Zenon, <2>1, TickTypes
  <2>2. ASSUME NEW p \in Item, Sweep(p) PROVE TypeOK'
    <3> DEFINE a == Owner[p]
    <3>1. PICK n \in 0..balance[a] :
            /\ WorthSweeping(a, n)
            /\ amount' = [amount EXCEPT ![p] = n - Threshold[a]]
            /\ balance' = [balance EXCEPT ![a] = @ - (n - Threshold[a])]
      BY Zenon, <2>2 DEF Sweep
    <3>2. /\ a \in Account /\ balance[a] \in Nat /\ Threshold[a] \in Nat
          /\ balance \in [Account -> Nat] /\ amount \in [Item -> Nat]
      BY Zenon, QueueSets, SweepAmounts DEF TypeOK
    <3>3. n - Threshold[a] \in Nat /\ balance[a] - (n - Threshold[a]) \in Nat
      BY <3>1, <3>2, SweepAmounts DEF WorthSweeping
    <3> HIDE DEF a
    <3>4. amount' \in [Item -> Nat] /\ balance' \in [Account -> Nat]
      BY Zenon, <3>1, <3>2, <3>3
    <3>5. row' \in [Item -> Rows]
      BY Zenon, <2>2 DEF Sweep, TypeOK, Rows
    <3> QED BY Zenon, <2>2, <3>4, <3>5 DEF Sweep, TypeOK
  <2>3. ASSUME NEW p \in Item, Complete(p) \/ Fail(p) \/ Reconcile(p) PROVE TypeOK'
    <3>1. wd' \in [Item -> Records] /\ balance' \in [Account -> Nat]
      BY <2>3, QueueSets DEF Complete, Fail, Reconcile, Refund, TypeOK, Records
    <3> QED BY Zenon, <2>3, <3>1 DEF Complete, Fail, Reconcile, TypeOK
  <2>4. ASSUME NEW p \in Item, Provider(p) PROVE TypeOK'
    BY Zenon, <2>4 DEF Provider, TypeOK, Transfers
  <2>5. CASE Freeze
    BY <2>5 DEF Freeze, TypeOK
  <2>6. CASE Unfreeze
    BY Zenon, <2>6 DEF Unfreeze, TypeOK
  <2>7. CASE Crash
    BY <2>7 DEF Crash, TypeOK, Pcs, Awaiting
  <2>8. CASE UNCHANGED vars
    BY Zenon, <2>8 DEF vars, TypeOK
  <2> QED BY Zenon, <2>1, <2>2, <2>3, <2>4, <2>5, <2>6, <2>7, <2>8 DEF Next
<1> QED BY <1>1, InitTypes, PTL DEF Spec
-----------------------------------------------------------------------------
(* The inductive invariant *)

\* A step that touches no row and no claim keeps the invariant; an answer of
\* not sent needs rows whose payloads stayed.
LEMMA Frame ==
  ASSUME BatchInv, UNCHANGED <<row, wd, via, transfer, calls, held, out, firingHere, earlier>>,
         \A t \in Tick : pc'[t] = "not_sent" =>
           pc[t] = "not_sent" \/ \A p \in out[t] : transfer[p] = "none"
  PROVE  BatchInv'
<1>1. ASSUME NEW p \in Item PROVE RowInv(p)'
  BY Zenon DEF BatchInv, RowInv, Refunded
<1>2. ASSUME NEW t \in Tick PROVE TickInv(t)'
  BY Zenon DEF BatchInv, TickInv
<1> QED BY Zenon, <1>1, <1>2 DEF BatchInv

\* A step about the one row p keeps the others.
LEMMA OneRow ==
  ASSUME BatchInv, NEW p \in Item, UNCHANGED via, RowInv(p)',
         \A q \in Item \ {p} : /\ row'[q] = row[q] /\ wd'[q] = wd[q]
                               /\ transfer'[q] = transfer[q] /\ calls'[q] = calls[q]
  PROVE  \A q \in Item : RowInv(q)'
BY Zenon DEF BatchInv, RowInv, Refunded

\* A row that is in no tick's hands leaves the ticks as they are.
LEMMA Unheld ==
  ASSUME TypeOK, BatchInv, NEW p \in Item, \A t \in Tick : p \notin held[t] \cup out[t],
         UNCHANGED <<pc, held, out, firingHere, earlier, calls, transfer>>,
         \A q \in Item \ {p} : row'[q] = row[q]
  PROVE  \A t \in Tick : TickInv(t)'
BY DEF BatchInv, TickInv, TypeOK

\* The quiet steps.
LEMMA QuietSteps ==
  ASSUME TypeOK, BatchInv, NEW t \in Tick
  PROVE  /\ TickStart(t) \/ RecoverDone(t) \/ SettleDone(t) \/ TickEnd(t) => BatchInv'
         /\ ClaimFrozen(t) \/ RailDone(t) \/ Return(t) => BatchInv'
         /\ \A r \in Rail : SkipRail(t, r) \/ FireRail(t, r) => BatchInv'
<1>1. ASSUME TickStart(t) \/ RecoverDone(t) \/ SettleDone(t) \/ TickEnd(t) PROVE BatchInv'
  <2>1. UNCHANGED <<row, wd, via, transfer, calls, held, out, firingHere, earlier>>
    BY Zenon, <1>1 DEF TickStart, RecoverDone, SettleDone, TickEnd
  <2>2. \A u \in Tick : pc'[u] = "not_sent" => pc[u] = "not_sent"
    BY Zenon, <1>1 DEF TickStart, RecoverDone, SettleDone, TickEnd, Move, TypeOK
  <2> QED BY Zenon, <2>1, <2>2, Frame
<1>2. ASSUME ClaimFrozen(t) \/ RailDone(t) PROVE BatchInv'
  <2>1. UNCHANGED <<row, wd, via, transfer, calls, held, out, firingHere, earlier>>
    BY Zenon, <1>2 DEF ClaimFrozen, RailDone
  <2>2. \A u \in Tick : pc'[u] = "not_sent" => pc[u] = "not_sent"
    BY Zenon, <1>2 DEF ClaimFrozen, RailDone, Move, TypeOK
  <2> QED BY <2>1, <2>2, Frame
<1>3. ASSUME Return(t) PROVE BatchInv'
  <2>1. UNCHANGED <<row, wd, via, transfer, calls, held, out, firingHere, earlier>>
    BY Zenon, <1>3 DEF Return
  <2>2. \A u \in Tick : pc'[u] = "not_sent" =>
           pc[u] = "not_sent" \/ \A p \in out[u] : transfer[p] = "none"
    BY Zenon, <1>3 DEF Return, Move, TypeOK
  <2> QED BY Zenon, <2>1, <2>2, Frame
<1>4. ASSUME NEW r \in Rail, SkipRail(t, r) \/ FireRail(t, r) PROVE BatchInv'
  <2>1. UNCHANGED <<row, wd, via, transfer, calls, held, out, firingHere, earlier>>
    BY Zenon, <1>4 DEF SkipRail, FireRail
  <2>2. \A u \in Tick : pc'[u] = "not_sent" => pc[u] = "not_sent"
    BY Zenon, <1>4 DEF SkipRail, FireRail, Move, TypeOK
  <2> QED BY Zenon, <2>1, <2>2, Frame
<1> QED BY Zenon, <1>1, <1>2, <1>3, <1>4

\* The outcomes of a firing row are sound: refunded only with a proof that
\* nothing left, fired only once sent.
LEMMA OutcomeInv ==
  ASSUME TypeOK, BatchInv, NEW t \in Tick, NEW p \in Item, UNCHANGED <<via, transfer, calls>>,
         \/ MarkFired(p)
         \/ \E how : MarkFailed(t, p, how) /\ (how = "not_sent" => transfer[p] = "none")
         \/ UNCHANGED <<row, wd, owe>>
  PROVE  /\ \A q \in Item : RowInv(q)'
         /\ \A q \in Item \ {p} : row'[q] = row[q]
<1>1. \A q \in Item \ {p} : row'[q] = row[q] /\ wd'[q] = wd[q]
  BY Zenon DEF MarkFired, MarkFailed, RefundNotSent, HoldUnknown, TypeOK
<1>2. RowInv(p)
  BY Zenon DEF BatchInv
<1>3. CASE MarkFired(p)
  <2>1. RowInv(p)'
    BY Zenon, <1>2, <1>3 DEF MarkFired, FiredRecords, RowInv, Refunded, TypeOK
  <2> QED BY Zenon, <2>1, <1>1, OneRow
<1>4. ASSUME NEW how, MarkFailed(t, p, how), how = "not_sent" => transfer[p] = "none"
      PROVE  RowInv(p)'
  <2>1. CASE NotSent(p, how)
    BY Zenon, <1>2, <1>4, <2>1 DEF MarkFailed, NotSent, RefundNotSent, RowInv, Refunded, TypeOK
  <2>2. CASE ~NotSent(p, how)
    BY Zenon, <1>2, <1>4, <2>2 DEF MarkFailed, HoldUnknown, RowInv, Refunded, TypeOK
  <2> QED BY Zenon, <2>1, <2>2
<1>5. CASE UNCHANGED <<row, wd, owe>>
  <2>1. RowInv(p)'
    BY Zenon, <1>2, <1>5 DEF RowInv, Refunded
  <2> QED BY <2>1, <1>1, OneRow
<1> QED BY Zenon, <1>1, <1>3, <1>4, <1>5, OneRow

\* Recovery, the refunds and the claim.
LEMMA RecoverInv ==
  ASSUME TypeOK, BatchInv, NEW t \in Tick, NEW p \in Item, RecoverFiring(t, p)
  PROVE  BatchInv'
<1>1. CASE Recoverable(p) /\ MarkFailed(t, p, "threw")
  <2>1. \A u \in Tick : p \notin held[u] \cup out[u]
    BY Zenon, <1>1 DEF Recoverable, BatchInv, TickInv
  <2>2. (\A q \in Item : RowInv(q)') /\ (\A q \in Item \ {p} : row'[q] = row[q])
    BY <1>1, OutcomeInv DEF RecoverFiring
  <2>3. \A u \in Tick : TickInv(u)'
    BY Zenon, <2>1, <2>2, Unheld DEF RecoverFiring
  <2> QED BY Zenon, <2>2, <2>3 DEF BatchInv
<1>2. CASE UNCHANGED <<row, wd, owe>>
  BY Zenon, <1>2, Frame DEF RecoverFiring
<1> QED BY Zenon, <1>1, <1>2 DEF RecoverFiring

\* A refund of what is owed moves it from refund_owed to refunded.
LEMMA RefundInv ==
  ASSUME TypeOK, BatchInv, NEW p \in Item, SettleOwedRefund(p),
         UNCHANGED <<wd, via, transfer, calls, held, out, firingHere, earlier, pc>>
  PROVE  BatchInv'
<1>1. CASE UNCHANGED row
  BY Zenon, <1>1, Frame
<1>2. CASE row[p] = "refund_owed" /\ row' = [row EXCEPT ![p] = "refunded"]
  <2>1. (\A q \in Item \ {p} : row'[q] = row[q]) /\ row'[p] = "refunded"
    BY Zenon, <1>2 DEF TypeOK
  <2>2. RowInv(p)'
    BY Zenon, <1>2, <2>1 DEF BatchInv, RowInv, Refunded
  <2>3. \A u \in Tick : p \notin held[u] \cup out[u]
    BY Zenon, <1>2 DEF BatchInv, TickInv
  <2>4. \A u \in Tick : TickInv(u)'
    BY Zenon, <2>1, <2>3, Unheld
  <2>5. \A q \in Item : RowInv(q)'
    BY Zenon, <2>1, <2>2, OneRow
  <2> QED BY Zenon, <2>4, <2>5 DEF BatchInv
<1> QED BY Zenon, <1>1, <1>2 DEF SettleOwedRefund

\* A claimed row was pending: no tick holds it and no call was made for it.
LEMMA ClaimInv ==
  ASSUME TypeOK, BatchInv, NEW t \in Tick, NEW p \in Item, Claim(t, p)
  PROVE  BatchInv'
<1>1. CASE Claimable(p)
  <2>1. /\ row[p] = "pending" /\ row' = [row EXCEPT ![p] = "firing"]
        /\ earlier' = earlier \ {p} /\ firingHere' = firingHere \cup {p}
        /\ held' = [held EXCEPT ![t] = @ \cup {p}]
        /\ UNCHANGED <<wd, via, transfer, calls, out, pc>>
    BY Zenon, <1>1 DEF Claim, Claimable, InFlight
  <2>2. (\A q \in Item \ {p} : row'[q] = row[q]) /\ row'[p] = "firing"
    BY Zenon, <2>1 DEF TypeOK
  <2>3. \A u \in Tick : p \notin held[u] \cup out[u]
    BY Zenon, <2>1 DEF BatchInv, TickInv
  <2>4. RowInv(p) /\ calls[p] = 0
    BY Zenon, <2>1 DEF BatchInv, RowInv
  <2>5. RowInv(p)'
    BY Zenon, <2>1, <2>2, <2>4 DEF RowInv, Refunded
  <2>6. \A q \in Item : RowInv(q)'
    BY Zenon, <2>1, <2>2, <2>5, OneRow
  <2>7. /\ \A u \in Tick \ {t} : held'[u] = held[u]
        /\ held'[t] = held[t] \cup {p}
    BY Zenon, <2>1 DEF TypeOK
  <2>8. ASSUME NEW u \in Tick PROVE TickInv(u)'
    <3>1. TickInv(u) /\ held[u] \subseteq Item /\ out[u] \subseteq Item
      BY Zenon DEF BatchInv, TypeOK
    <3>2. \A q \in held'[u] \cup out'[u] : row'[q] = "firing" /\ q \in firingHere' /\ q \notin earlier'
      BY <2>1, <2>2, <2>7, <3>1 DEF TickInv
    <3>3. \A q \in held'[u] : calls'[q] = 0 /\ q \notin out'[u]
      BY Zenon, <2>1, <2>3, <2>4, <2>7, <3>1 DEF TickInv
    <3>4. pc'[u] = "not_sent" => \A q \in out'[u] : transfer'[q] = "none"
      BY Zenon, <2>1, <3>1 DEF TickInv
    <3>5. \A v \in Tick \ {u} : \A q \in held'[u] \cup out'[u] : q \notin held'[v] \cup out'[v]
      BY <2>1, <2>3, <2>7, <3>1 DEF TickInv
    <3> QED BY Zenon, <3>2, <3>3, <3>4, <3>5 DEF TickInv
  <2> QED BY Zenon, <2>6, <2>8 DEF BatchInv
<1>2. CASE ~Claimable(p)
  BY Zenon, <1>2, Frame DEF Claim
<1> QED BY Zenon, <1>1, <1>2

\* A rail is called for claimed rows, for which no call was made.
LEMMA SendInv ==
  ASSUME TypeOK, BatchInv, NEW t \in Tick, NEW S \in SUBSET held[t], NEW how \in {"one", "batch"},
         Send(t, S, how)
  PROVE  BatchInv'
<1>1. PICK handed \in SUBSET {p \in S : via[p] \notin Manual} :
        transfer' = [p \in Item |-> IF p \in handed THEN "out" ELSE transfer[p]]
  BY Zenon DEF Send
<1>2. /\ calls' = [p \in Item |-> IF p \in S THEN calls[p] + 1 ELSE calls[p]]
      /\ UNCHANGED <<row, wd, via, firingHere, earlier>>
  BY Zenon DEF Send
<1>3. \A p \in S : p \in Item /\ row[p] = "firing" /\ calls[p] = 0
  BY Zenon DEF BatchInv, TickInv, TypeOK
<1>4. ASSUME NEW p \in Item PROVE RowInv(p)'
  <2>1. RowInv(p) /\ calls[p] \in Nat
    BY Zenon DEF BatchInv, TypeOK
  <2>2. CASE p \in S
    <3>1. row[p] = "firing" /\ wd[p] = "none" /\ calls'[p] = 1
      BY <1>2, <1>3, <2>1, <2>2 DEF RowInv
    <3>2. via[p] \in Manual => transfer'[p] = transfer[p]
      BY Zenon, <1>1
    <3> QED BY <1>2, <2>1, <3>1, <3>2 DEF RowInv, Refunded
  <2>3. CASE p \notin S
    <3>1. calls'[p] = calls[p] /\ transfer'[p] = transfer[p]
      BY Zenon, <1>1, <1>2, <2>3
    <3> QED BY Zenon, <1>2, <2>1, <3>1 DEF RowInv, Refunded
  <2> QED BY Zenon, <2>2, <2>3
<1>5. /\ out' = [out EXCEPT ![t] = S] /\ held' = [held EXCEPT ![t] = @ \ S]
      /\ pc' = [pc EXCEPT ![t] = how]
  BY Zenon DEF Send, Move
<1>6. /\ \A u \in Tick \ {t} : out'[u] = out[u] /\ held'[u] = held[u] /\ pc'[u] = pc[u]
      /\ out'[t] = S /\ held'[t] = held[t] \ S /\ pc'[t] # "not_sent"
  BY Zenon, <1>5 DEF TypeOK
<1>7. ASSUME NEW u \in Tick PROVE TickInv(u)'
  <2>1. TickInv(u) /\ TickInv(t) /\ held[u] \subseteq Item /\ out[u] \subseteq Item
    BY Zenon DEF BatchInv, TypeOK
  <2>2. held'[u] \cup out'[u] \subseteq held[u] \cup out[u]
    BY Zenon, <1>6
  <2>3. \A p \in held'[u] \cup out'[u] : row'[p] = "firing" /\ p \in firingHere' /\ p \notin earlier'
    BY Zenon, <1>2, <2>1, <2>2 DEF TickInv
  <2>4. \A v \in Tick \ {u} : \A p \in held'[u] \cup out'[u] : p \notin held'[v] \cup out'[v]
    BY Zenon, <1>6, <2>1, <2>2 DEF TickInv
  <2>5. u # t => S \cap (held[u] \cup out[u]) = {}
    BY Zenon, <2>1 DEF TickInv
  <2>6. \A p \in held'[u] : p \in Item /\ p \notin S /\ p \in held[u]
    BY Zenon, <1>6, <2>1, <2>5
  <2>7. \A p \in held'[u] : calls'[p] = 0 /\ p \notin out'[u]
    BY Zenon, <1>2, <1>6, <2>1, <2>6 DEF TickInv
  <2>8. ASSUME pc'[u] = "not_sent", NEW p \in out'[u] PROVE transfer'[p] = "none"
    <3>1. u # t /\ p \in out[u] /\ p \in Item /\ p \notin S /\ pc[u] = "not_sent"
      BY Zenon, <1>6, <2>1, <2>5, <2>8
    <3> QED BY Zenon, <1>1, <2>1, <3>1 DEF TickInv
  <2> QED BY Zenon, <2>3, <2>4, <2>7, <2>8 DEF TickInv
<1> QED BY Zenon, <1>4, <1>7 DEF BatchInv

\* The outcome of a call finds its row firing, and the row leaves the tick.
LEMMA RecordInv ==
  ASSUME TypeOK, BatchInv, NEW t \in Tick, NEW p \in Item, Record(t, p)
  PROVE  BatchInv'
<1>1. /\ UNCHANGED <<via, transfer, calls, held, earlier>> /\ p \in out[t]
      /\ out' = [out EXCEPT ![t] = @ \ {p}] /\ firingHere' = firingHere \ {p}
      /\ pc' = [pc EXCEPT ![t] = IF out[t] = {p} THEN "serial" ELSE pc[t]]
  BY Zenon DEF Record, Move
<1>2. pc[t] = "not_sent" => transfer[p] = "none"
  BY Zenon, <1>1 DEF BatchInv, TickInv
<1>3. \/ MarkFired(p)
      \/ \E how : MarkFailed(t, p, how) /\ (how = "not_sent" => transfer[p] = "none")
      \/ UNCHANGED <<row, wd, owe>>
  BY Zenon, <1>2 DEF Record
<1>4. (\A q \in Item : RowInv(q)') /\ (\A q \in Item \ {p} : row'[q] = row[q])
  BY Zenon, <1>1, <1>3, OutcomeInv
<1>5. /\ \A u \in Tick \ {t} : out'[u] = out[u] /\ pc'[u] = pc[u]
      /\ out'[t] = out[t] \ {p} /\ pc'[t] \in {"serial", pc[t]}
  BY Zenon, <1>1 DEF TypeOK
<1>6. ASSUME NEW u \in Tick PROVE TickInv(u)'
  <2>1. TickInv(u) /\ TickInv(t) /\ held[u] \subseteq Item /\ out[u] \subseteq Item
    BY Zenon DEF BatchInv, TypeOK
  <2>2. p \notin held[u] \cup out'[u] /\ out'[u] \subseteq out[u]
    BY Zenon, <1>1, <1>5, <2>1 DEF TickInv
  <2>3. \A q \in held'[u] \cup out'[u] : q \in held[u] \cup out[u] /\ q \in Item /\ q # p
    BY Zenon, <1>1, <2>1, <2>2
  <2>4. \A q \in held'[u] \cup out'[u] : row'[q] = "firing" /\ q \in firingHere' /\ q \notin earlier'
    BY Zenon, <1>1, <1>4, <2>1, <2>3 DEF TickInv
  <2>5. \A v \in Tick \ {u} : \A q \in held'[u] \cup out'[u] : q \notin held'[v] \cup out'[v]
    BY Zenon, <1>1, <1>5, <2>1, <2>3 DEF TickInv
  <2>6. \A q \in held'[u] : calls'[q] = 0 /\ q \notin out'[u]
    BY Zenon, <1>1, <2>1, <2>2 DEF TickInv
  <2>7. pc'[u] = "not_sent" => \A q \in out'[u] : transfer'[q] = "none"
    BY Zenon, <1>1, <1>5, <2>1, <2>2 DEF TickInv
  <2> QED BY Zenon, <2>4, <2>5, <2>6, <2>7 DEF TickInv
<1> QED BY Zenon, <1>4, <1>6 DEF BatchInv

\* The operator settles what a recorded withdrawal says; a refund is only of
\* what was never handed over or can no longer land.
LEMMA DoorInv ==
  ASSUME TypeOK, BatchInv, NEW p \in Item, Complete(p) \/ Fail(p) \/ Reconcile(p)
  PROVE  BatchInv'
<1>1. UNCHANGED <<row, via, transfer, calls, held, out, firingHere, earlier, pc>>
  BY Zenon DEF Complete, Fail, Reconcile
<1>2. \A q \in Item \ {p} : wd'[q] = wd[q]
  BY Zenon DEF Complete, Fail, Reconcile, Refund, TypeOK
<1>3. /\ wd[p] \in {"pending", "processing"} /\ wd'[p] \in {"completed", "failed"}
      /\ wd'[p] = "failed" => wd[p] = "pending" \/ transfer[p] \notin {"out", "landed"}
  BY Zenon DEF Complete, Fail, Reconcile, ReconcileOpen, Refund, TypeOK, Records
<1>4. RowInv(p) /\ transfer[p] \in Transfers
  BY Zenon DEF BatchInv, TypeOK
<1>5. RowInv(p)'
  BY Zenon, <1>1, <1>3, <1>4 DEF RowInv, Refunded, Transfers
<1>6. \A q \in Item : RowInv(q)'
  BY Zenon, <1>1, <1>2, <1>5, OneRow
<1>7. \A t \in Tick : TickInv(t)'
  BY Zenon, <1>1 DEF BatchInv, TickInv
<1> QED BY Zenon, <1>6, <1>7 DEF BatchInv

\* What is out lands or expires: it was sent, and is neither refunded nor in
\* the hands of a tick that proved it was not.
LEMMA ProviderInv ==
  ASSUME TypeOK, BatchInv, NEW p \in Item, Provider(p)
  PROVE  BatchInv'
<1>1. /\ UNCHANGED <<row, wd, via, calls, held, out, firingHere, earlier, pc>>
      /\ transfer[p] = "out" /\ transfer'[p] \in {"landed", "expired"}
      /\ \A q \in Item \ {p} : transfer'[q] = transfer[q]
  BY Zenon DEF Provider, TypeOK
<1>2. RowInv(p) /\ RowInv(p)'
  BY Zenon, <1>1 DEF BatchInv, RowInv, Refunded
<1>3. \A q \in Item : RowInv(q)'
  BY Zenon, <1>1, <1>2, OneRow
<1>4. ASSUME NEW t \in Tick PROVE TickInv(t)'
  <2>1. TickInv(t) /\ out[t] \subseteq Item
    BY Zenon DEF BatchInv, TypeOK
  <2>2. pc[t] = "not_sent" => p \notin out[t]
    BY Zenon, <1>1, <2>1 DEF TickInv
  <2> QED BY Zenon, <1>1, <2>1, <2>2 DEF TickInv
<1> QED BY Zenon, <1>3, <1>4 DEF BatchInv

\* A crash leaves no tick with anything in its hands.
LEMMA CrashInv ==
  ASSUME TypeOK, BatchInv, Crash
  PROVE  BatchInv'
<1>1. ASSUME NEW p \in Item PROVE RowInv(p)'
  BY Zenon DEF Crash, BatchInv, RowInv, Refunded
<1>2. ASSUME NEW t \in Tick PROVE TickInv(t)'
  BY Zenon DEF Crash, TickInv
<1> QED BY Zenon, <1>1, <1>2 DEF BatchInv

LEMMA FirstInv == Init => BatchInv
BY DEF Init, BatchInv, RowInv, TickInv, Refunded

\* A tick's step keeps the invariant.
LEMMA TickStepInv ==
  ASSUME TypeOK, BatchInv, NEW t \in Tick, TickStart(t) \/ Continue(t)
  PROVE  BatchInv'
<1>1. ASSUME NEW p \in Item, RecoverFiring(t, p) PROVE BatchInv'
  BY Zenon, <1>1, RecoverInv
<1>2. ASSUME NEW p \in Item, SettleOwedRefunds(t, p) PROVE BatchInv'
  BY Zenon, <1>2, RefundInv DEF SettleOwedRefunds
<1>3. ASSUME NEW p \in Item, Claim(t, p) PROVE BatchInv'
  BY <1>3, ClaimInv
<1>4. ASSUME NEW p \in Item, SendOne(t, p) PROVE BatchInv'
  <2>1. {p} \in SUBSET held[t] /\ Send(t, {p}, "one")
    BY Zenon, <1>4 DEF SendOne
  <2> QED BY Zenon, <2>1, SendInv
<1>5. ASSUME NEW p \in Item, Record(t, p) PROVE BatchInv'
  BY <1>5, RecordInv
<1>6. CASE RefundParked(t)
  <2>1. PICK p \in owe[t] : SettleOwedRefund(p)
    BY Zenon, <1>6 DEF RefundParked
  <2>2. p \in Item
    BY Zenon DEF TypeOK
  <2> QED BY Zenon, <1>6, <2>1, <2>2, RefundInv DEF RefundParked
<1>7. CASE SendBatch(t)
  BY Zenon, <1>7, SendInv DEF SendBatch
<1>8. CASE \/ TickStart(t) \/ RecoverDone(t) \/ SettleDone(t) \/ TickEnd(t)
           \/ ClaimFrozen(t) \/ RailDone(t) \/ Return(t)
           \/ \E r \in Rail : SkipRail(t, r) \/ FireRail(t, r)
  BY Zenon, <1>8, QuietSteps
<1> QED BY Zenon, <1>1, <1>2, <1>3, <1>4, <1>5, <1>6, <1>7, <1>8 DEF Continue

\* The inductive invariant holds.
THEOREM BatchInvariance == Spec => []BatchInv
<1>1. TypeOK /\ BatchInv /\ [Next]_vars => BatchInv'
  <2> SUFFICES ASSUME TypeOK, BatchInv, [Next]_vars PROVE BatchInv'
    BY Zenon
  <2>1. ASSUME NEW t \in Tick, TickStart(t) \/ Continue(t) PROVE BatchInv'
    BY Zenon, <2>1, TickStepInv
  <2>2. ASSUME NEW p \in Item, Sweep(p) PROVE BatchInv'
    <3>1. /\ UNCHANGED <<wd, via, transfer, calls, held, out, firingHere, earlier, pc>>
          /\ row[p] = "none" /\ row'[p] = "pending"
          /\ \A q \in Item \ {p} : row'[q] = row[q]
      BY Zenon, <2>2 DEF Sweep, TypeOK
    <3>2. RowInv(p)'
      BY Zenon, <3>1 DEF BatchInv, RowInv, Refunded
    <3>3. \A q \in Item : RowInv(q)'
      BY Zenon, <3>1, <3>2, OneRow
    <3>4. \A t \in Tick : p \notin held[t] \cup out[t]
      BY Zenon, <3>1 DEF BatchInv, TickInv
    <3>5. \A t \in Tick : TickInv(t)'
      BY Zenon, <3>1, <3>4, Unheld
    <3> QED BY Zenon, <3>3, <3>5 DEF BatchInv
  <2>3. ASSUME NEW p \in Item, Complete(p) \/ Fail(p) \/ Reconcile(p) PROVE BatchInv'
    BY Zenon, <2>3, DoorInv
  <2>4. ASSUME NEW p \in Item, Provider(p) PROVE BatchInv'
    BY Zenon, <2>4, ProviderInv
  <2>5. CASE Freeze
    BY Zenon, <2>5, Frame DEF Freeze
  <2>6. CASE Unfreeze
    BY Zenon, <2>6, Frame DEF Unfreeze
  <2>7. CASE Crash
    BY Zenon, <2>7, CrashInv
  <2>8. CASE UNCHANGED vars
    BY Zenon, <2>8, Frame DEF vars
  <2> QED BY Zenon, <2>1, <2>2, <2>3, <2>4, <2>5, <2>6, <2>7, <2>8 DEF Next
<1> QED BY <1>1, FirstInv, TypeCorrect, PTL DEF Spec
-----------------------------------------------------------------------------
(* Money *)

\* A row has an amount only once the sweep made it.
Unmade == \A p \in Item : row[p] = "none" => amount[p] = 0

\* What sums need: finite sets of natural amounts.
LEMMA DebitedFinite ==
  ASSUME TypeOK, NEW a \in Account
  PROVE  /\ IsFiniteSet(Debited(a)) /\ SumFunctionOnSet(amount, Debited(a)) \in Int
         /\ \A p \in Debited(a) : amount[p] \in Int
<1>1. Debited(a) \in SUBSET Item
  BY Zenon DEF Debited
<1>2. IsFiniteSet(Debited(a))
  BY Zenon, <1>1, QueueSets, FS_Subset
<1>3. \A p \in Debited(a) : amount[p] \in Int
  BY <1>1 DEF TypeOK
<1> QED BY Zenon, <1>2, <1>3, SumLaws

\* A step that neither refunds a row nor makes one.
LEMMA MoneyFrame ==
  ASSUME BatchConserved, UNCHANGED <<amount, balance>>,
         \A p \in Item : /\ (row'[p] = "refunded" <=> row[p] = "refunded")
                         /\ (wd'[p] = "failed" <=> wd[p] = "failed")
  PROVE  BatchConserved'
<1>1. \A a \in Account : Debited(a)' = Debited(a)
  BY Zenon DEF Debited
<1> QED BY Zenon, <1>1 DEF BatchConserved

\* The credit of a refund is what leaves the sum.
LEMMA MoneyRefund ==
  ASSUME TypeOK, BatchConserved, UNCHANGED amount, NEW p \in Item,
         balance' = [balance EXCEPT ![Owner[p]] = @ + amount[p]],
         row[p] # "refunded" /\ wd[p] # "failed", row'[p] = "refunded" \/ wd'[p] = "failed",
         \A q \in Item \ {p} : /\ (row'[q] = "refunded" <=> row[q] = "refunded")
                               /\ (wd'[q] = "failed" <=> wd[q] = "failed")
  PROVE  BatchConserved'
<1>1. Owner[p] \in Account /\ balance \in [Account -> Nat] /\ amount[p] \in Nat
  BY Zenon, QueueSets DEF TypeOK
<1>2. ASSUME NEW a \in Account, a # Owner[p]
      PROVE  balance'[a] = Funds[a] - SumFunctionOnSet(amount, Debited(a)')
  <2>1. Debited(a)' = Debited(a)
    BY Zenon, <1>2 DEF Debited
  <2>2. balance'[a] = balance[a]
    BY Zenon, <1>1, <1>2
  <2> QED BY Zenon, <2>1, <2>2 DEF BatchConserved
<1>3. balance'[Owner[p]] = Funds[Owner[p]] - SumFunctionOnSet(amount, Debited(Owner[p])')
  <2> DEFINE a == Owner[p]
             D == Debited(a)
  <2>1. p \in D /\ Debited(a)' = D \ {p}
    BY Zenon DEF Debited
  <2>2. SumFunctionOnSet(amount, D) = amount[p] + SumFunctionOnSet(amount, D \ {p})
    BY Zenon, <1>1, <2>1, DebitedFinite, SumLaws
  <2>3. SumFunctionOnSet(amount, D) \in Int /\ Funds[a] \in Int
    BY <1>1, DebitedFinite, SweepAmounts
  <2>4. IsFiniteSet(D \ {p}) /\ \A q \in D \ {p} : amount[q] \in Int
    BY Zenon, <1>1, DebitedFinite, FS_RemoveElement
  <2>5. SumFunctionOnSet(amount, D \ {p}) \in Int
    BY Zenon, <2>4, SumLaws
  <2>6. balance[a] = Funds[a] - SumFunctionOnSet(amount, D)
    BY Zenon, <1>1 DEF BatchConserved
  <2>7. balance'[a] = balance[a] + amount[p]
    BY Zenon, <1>1
  <2> HIDE DEF a, D
  <2>8. balance'[a] = Funds[a] - SumFunctionOnSet(amount, D \ {p})
    BY <1>1, <2>2, <2>3, <2>5, <2>6, <2>7
  <2> QED BY Zenon, <2>1, <2>8 DEF a
<1>4. \A a \in Account : balance'[a] = Funds[a] - SumFunctionOnSet(amount, Debited(a)')
  BY Zenon, <1>2, <1>3
<1> QED BY Zenon, <1>4 DEF BatchConserved

\* The sweep's debit is what enters the sum.
LEMMA MoneySweep ==
  ASSUME TypeOK, TypeOK', BatchConserved, Unmade, NEW p \in Item, Sweep(p),
         row[p] = "none" => wd[p] # "failed"
  PROVE  BatchConserved'
<1> DEFINE a == Owner[p]
           D == Debited(a)
<1>1. PICK n \in 0..balance[a] :
        /\ amount' = [amount EXCEPT ![p] = n - Threshold[a]]
        /\ balance' = [balance EXCEPT ![a] = @ - (n - Threshold[a])]
  BY Zenon DEF Sweep
<1>2. /\ row[p] = "none" /\ wd[p] # "failed" /\ wd' = wd /\ amount[p] = 0
      /\ row' = [row EXCEPT ![p] = "pending"]
  BY Zenon DEF Sweep, Unmade
<1>3. \A b \in Account : Debited(b)' = Debited(b)
  BY Zenon, <1>2 DEF Debited, TypeOK
<1>4. /\ a \in Account /\ balance[a] \in Nat /\ Threshold[a] \in Nat /\ Funds[a] \in Nat
      /\ amount \in [Item -> Nat] /\ amount' \in [Item -> Nat] /\ balance \in [Account -> Nat]
  BY Zenon, QueueSets, SweepAmounts DEF TypeOK
<1>5. ASSUME NEW b \in Account, b # a
      PROVE  balance'[b] = Funds[b] - SumFunctionOnSet(amount', Debited(b)')
  <2>1. \A q \in Debited(b) : q \in Item /\ q # p
    BY Zenon, <1>5 DEF Debited
  <2>2. \A q \in Debited(b) : amount[q] \in Int /\ amount'[q] = amount[q]
    BY <1>1, <1>4, <2>1
  <2>3. SumFunctionOnSet(amount', Debited(b)) = SumFunctionOnSet(amount, Debited(b))
    BY Zenon, <2>2, DebitedFinite, SumSame
  <2>4. balance'[b] = balance[b]
    BY Zenon, <1>1, <1>4, <1>5
  <2> QED BY Zenon, <1>3, <2>3, <2>4 DEF BatchConserved
<1>6. balance'[a] = Funds[a] - SumFunctionOnSet(amount', Debited(a)')
  <2>1. p \in D /\ \A q \in D : q \in Item
    BY Zenon, <1>2 DEF Debited
  <2>2. \A q \in D \ {p} : amount'[q] = amount[q]
    BY Zenon, <1>1, <1>4, <2>1
  <2>3. \A q \in D : amount[q] \in Int /\ amount'[q] \in Int
    BY <1>4, <2>1
  <2>4. IsFiniteSet(D) /\ SumFunctionOnSet(amount, D) \in Int
    BY Zenon, <1>4, DebitedFinite
  <2> HIDE DEF D
  <2>5. SumFunctionOnSet(amount', D) = SumFunctionOnSet(amount, D) + amount'[p] - amount[p]
    BY <2>1, <2>2, <2>3, <2>4, SumUpdate
  <2>6. amount'[p] = n - Threshold[a] /\ balance'[a] = balance[a] - (n - Threshold[a])
    BY Zenon, <1>1, <1>4
  <2>7. balance[a] = Funds[a] - SumFunctionOnSet(amount, D) /\ Debited(a)' = D
    BY Zenon, <1>3, <1>4 DEF BatchConserved, D
  <2> HIDE DEF a
  <2> QED BY <1>2, <1>4, <2>4, <2>5, <2>6, <2>7
<1>7. \A b \in Account : balance'[b] = Funds[b] - SumFunctionOnSet(amount', Debited(b)')
  BY Zenon, <1>5, <1>6
<1> QED BY Zenon, <1>7 DEF BatchConserved

\* The account of every row, carried by the induction.
Booked == Unmade /\ BatchConserved

LEMMA BookedFrame ==
  ASSUME Booked, UNCHANGED <<row, amount, wd, balance>>
  PROVE  Booked'
BY Zenon, MoneyFrame DEF Booked, Unmade

\* An outcome is recorded on a firing row, whose withdrawal is not recorded yet.
LEMMA BookedOutcome ==
  ASSUME TypeOK, BatchInv, Booked, NEW t \in Tick, NEW p \in Item, UNCHANGED <<amount, balance>>,
         MarkFired(p) \/ (\E how : MarkFailed(t, p, how)) \/ UNCHANGED <<row, wd>>
  PROVE  Booked'
<1>1. row[p] = "firing" => wd[p] = "none"
  BY Zenon DEF BatchInv, RowInv
<1>2. \A q \in Item : /\ row'[q] = "refunded" <=> row[q] = "refunded"
                      /\ row'[q] = "none" <=> row[q] = "none"
  BY Zenon DEF MarkFired, MarkFailed, RefundNotSent, HoldUnknown, TypeOK
<1>3. \A q \in Item : wd'[q] = "failed" <=> wd[q] = "failed"
  BY Zenon, <1>1 DEF MarkFired, FiredRecords, MarkFailed, RefundNotSent, HoldUnknown, TypeOK
<1>4. BatchConserved'
  BY Zenon, <1>2, <1>3, MoneyFrame DEF Booked
<1>5. Unmade'
  BY Zenon, <1>2 DEF Booked, Unmade
<1> QED BY Zenon, <1>4, <1>5 DEF Booked

LEMMA BookedRefund ==
  ASSUME TypeOK, BatchInv, Booked, NEW p \in Item, SettleOwedRefund(p), UNCHANGED <<amount, wd>>
  PROVE  Booked'
<1>1. CASE UNCHANGED <<row, balance>>
  BY Zenon, <1>1, BookedFrame
<1>2. CASE ~UNCHANGED <<row, balance>>
  <2>1. /\ row[p] = "refund_owed" /\ row' = [row EXCEPT ![p] = "refunded"]
        /\ balance' = [balance EXCEPT ![Owner[p]] = @ + amount[p]]
    BY Zenon, <1>2 DEF SettleOwedRefund
  <2>2. row'[p] = "refunded" /\ \A q \in Item \ {p} : row'[q] = row[q]
    BY Zenon, <2>1 DEF TypeOK
  <2>3. wd[p] # "failed"
    BY Zenon, <2>1 DEF BatchInv, RowInv
  <2>4. BatchConserved'
    BY Zenon, <2>1, <2>2, <2>3, MoneyRefund DEF Booked
  <2> QED BY Zenon, <2>2, <2>4 DEF Booked, Unmade
<1> QED BY Zenon, <1>1, <1>2

LEMMA BookedDoor ==
  ASSUME TypeOK, BatchInv, Booked, NEW p \in Item, Complete(p) \/ Fail(p) \/ Reconcile(p)
  PROVE  Booked'
<1>1. UNCHANGED <<row, amount>> /\ wd[p] \in {"pending", "processing"}
  BY Zenon DEF Complete, Fail, Reconcile
<1>2. row[p] # "refunded"
  BY Zenon, <1>1 DEF BatchInv, RowInv
<1>3. CASE wd' = [wd EXCEPT ![p] = "completed"] /\ UNCHANGED balance
  <2>1. \A q \in Item : wd'[q] = "failed" <=> wd[q] = "failed"
    BY Zenon, <1>1, <1>3 DEF TypeOK
  <2> QED BY Zenon, <1>1, <1>3, <2>1, MoneyFrame DEF Booked, Unmade
<1>4. CASE Refund(p)
  <2>1. wd'[p] = "failed" /\ \A q \in Item \ {p} : wd'[q] = wd[q]
    BY Zenon, <1>4 DEF Refund, TypeOK
  <2>2. BatchConserved'
    BY Zenon, <1>1, <1>2, <1>4, <2>1, MoneyRefund DEF Refund, Booked
  <2> QED BY Zenon, <1>1, <2>2 DEF Booked, Unmade
<1> QED BY Zenon, <1>3, <1>4 DEF Complete, Fail, Reconcile

\* The queue neither creates nor loses money: what an account lacks of its
\* first funds is exactly what its rows carry and no refund returned.
THEOREM QueueConserves == Spec => []BatchConserved
<1>1. Init => Booked
  <2> SUFFICES ASSUME Init PROVE Booked
    OBVIOUS
  <2>1. TypeOK
    BY Zenon, InitTypes
  <2>2. Unmade
    BY Zenon DEF Init, Unmade
  <2>3. ASSUME NEW a \in Account PROVE balance[a] = Funds[a] - SumFunctionOnSet(amount, Debited(a))
    <3>1. \A p \in Debited(a) : amount[p] = 0
      BY Zenon DEF Init, Debited
    <3>2. SumFunctionOnSet(amount, Debited(a)) = 0
      BY Zenon, <2>1, <3>1, DebitedFinite, SumZero
    <3>3. balance[a] = Funds[a] /\ Funds[a] \in Nat
      BY Zenon, SweepAmounts DEF Init
    <3> QED BY <3>2, <3>3
  <2> QED BY Zenon, <2>2, <2>3 DEF Booked, BatchConserved
<1>2. TypeOK /\ TypeOK' /\ BatchInv /\ Booked /\ [Next]_vars => Booked'
  <2> SUFFICES ASSUME TypeOK, TypeOK', BatchInv, Booked, [Next]_vars PROVE Booked'
    BY Zenon
  <2>1. ASSUME NEW t \in Tick, NEW p \in Item, RecoverFiring(t, p) \/ Record(t, p) PROVE Booked'
    BY Zenon, <2>1, BookedOutcome DEF RecoverFiring, Record
  <2>2. ASSUME NEW t \in Tick, NEW p \in Item, SettleOwedRefunds(t, p) PROVE Booked'
    BY Zenon, <2>2, BookedRefund DEF SettleOwedRefunds
  <2>3. ASSUME NEW t \in Tick, NEW p \in Item, Claim(t, p) PROVE Booked'
    <3>1. UNCHANGED <<amount, wd, balance>>
      BY Zenon, <2>3 DEF Claim
    <3>2. \A q \in Item : /\ row'[q] = "refunded" <=> row[q] = "refunded"
                          /\ row'[q] = "none" <=> row[q] = "none"
      BY <2>3 DEF Claim, Claimable, TypeOK
    <3>3. BatchConserved'
      BY Zenon, <3>1, <3>2, MoneyFrame DEF Booked
    <3>4. Unmade'
      BY Zenon, <3>1, <3>2 DEF Booked, Unmade
    <3> QED BY Zenon, <3>3, <3>4 DEF Booked
  <2>4. ASSUME NEW t \in Tick, NEW p \in Item, SendOne(t, p) PROVE Booked'
    BY Zenon, <2>4, BookedFrame DEF SendOne, Send
  <2>5. ASSUME NEW t \in Tick, RefundParked(t) PROVE Booked'
    <3>1. PICK p \in owe[t] : SettleOwedRefund(p)
      BY Zenon, <2>5 DEF RefundParked
    <3>2. p \in Item
      BY Zenon DEF TypeOK
    <3> QED BY Zenon, <2>5, <3>1, <3>2, BookedRefund DEF RefundParked
  <2>6. ASSUME NEW t \in Tick, \/ TickStart(t) \/ RecoverDone(t) \/ SettleDone(t) \/ TickEnd(t)
                               \/ ClaimFrozen(t) \/ RailDone(t) \/ Return(t) \/ SendBatch(t)
        PROVE  Booked'
    <3>1. UNCHANGED <<row, amount, wd, balance>>
      BY Zenon, <2>6 DEF TickStart, RecoverDone, SettleDone, TickEnd, ClaimFrozen, RailDone, Return,
                  SendBatch, Send
    <3> QED BY Zenon, <3>1, BookedFrame
  <2>7. ASSUME NEW t \in Tick, NEW r \in Rail, SkipRail(t, r) \/ FireRail(t, r) PROVE Booked'
    BY Zenon, <2>7, BookedFrame DEF SkipRail, FireRail
  <2>8. ASSUME NEW p \in Item, Sweep(p) PROVE Booked'
    <3>1. row[p] = "none" => wd[p] # "failed"
      BY Zenon DEF BatchInv, RowInv
    <3>2. BatchConserved'
      BY Zenon, <2>8, <3>1, MoneySweep DEF Booked
    <3>3. \A q \in Item : row'[q] = "none" => row[q] = "none" /\ q # p
      BY Zenon, <2>8 DEF Sweep, TypeOK
    <3>4. \A q \in Item \ {p} : amount'[q] = amount[q]
      BY Zenon, <2>8 DEF Sweep, TypeOK
    <3> QED BY Zenon, <3>2, <3>3, <3>4 DEF Booked, Unmade
  <2>9. ASSUME NEW p \in Item, Complete(p) \/ Fail(p) \/ Reconcile(p) PROVE Booked'
    BY Zenon, <2>9, BookedDoor
  <2>10. ASSUME NEW p \in Item, Provider(p) PROVE Booked'
    BY Zenon, <2>10, BookedFrame DEF Provider
  <2>11. CASE Freeze \/ Unfreeze \/ Crash \/ UNCHANGED vars
    <3>1. UNCHANGED <<row, amount, wd, balance>>
      BY Zenon, <2>11 DEF Freeze, Unfreeze, Crash, vars
    <3> QED BY Zenon, <3>1, BookedFrame
  <2> QED BY <2>1, <2>2, <2>3, <2>4, <2>5, <2>6, <2>7, <2>8, <2>9, <2>10, <2>11, Zenon
          DEF Next, Continue
<1>3. Booked => BatchConserved
  BY Zenon DEF Booked
<1> QED BY <1>1, <1>2, <1>3, TypeCorrect, BatchInvariance, PTL DEF Spec
-----------------------------------------------------------------------------
(* What it gives *)

\* No row is sent twice: the rails are called at most once for it by all ticks
\* of all lives of the process together.
THEOREM NoResend == Spec => []SentOnce
<1>1. BatchInv => SentOnce
  BY Zenon DEF BatchInv, RowInv, SentOnce
<1> QED BY <1>1, BatchInvariance, PTL

\* No outcome is lost: markFired and markFailed find the row they are about
\* firing.
THEOREM OutcomesLand == Spec => []OutcomeFindsRow
<1>1. BatchInv => OutcomeFindsRow
  BY Zenon DEF BatchInv, TickInv, OutcomeFindsRow
<1> QED BY <1>1, BatchInvariance, PTL

\* A refunded row is not paid, now or later: nothing refunds a payload that is
\* with the provider.
THEOREM RefundsAreSafe == Spec => []RefundedNotPaid
<1>1. BatchInv => RefundedNotPaid
  BY Zenon DEF BatchInv, RowInv, RefundedNotPaid
<1> QED BY <1>1, BatchInvariance, PTL

\* A freeze that lands anywhere in a tick stops claims, sweeps and refunds.
THEOREM FreezeHoldsQueue == Spec => FrozenClaimsNothing
<1> DEFINE Still == /\ balance' = balance
                    /\ \A p \in Item : row[p] \in {"none", "pending"} => row'[p] = row[p]
<1>1. TypeOK /\ [Next]_vars => [frozen => Still]_vars
  <2> SUFFICES ASSUME TypeOK, Next, frozen PROVE Still
    BY Zenon
  <2>1. \A t \in Tick, p \in Item : \A how :
          MarkFired(p) \/ MarkFailed(t, p, how) \/ row' = row =>
            \A q \in Item : row[q] \in {"none", "pending"} => row'[q] = row[q]
    BY Zenon DEF MarkFired, MarkFailed, RefundNotSent, HoldUnknown, TypeOK
  <2>2. ASSUME NEW t \in Tick, NEW p \in Item, RecoverFiring(t, p) \/ Record(t, p) PROVE Still
    BY Zenon, <2>1, <2>2 DEF RecoverFiring, Record
  <2>3. ASSUME NEW t \in Tick, NEW p \in Item, SettleOwedRefunds(t, p) \/ Claim(t, p) \/ SendOne(t, p)
        PROVE  Still
    BY Zenon, <2>3 DEF SettleOwedRefunds, SettleOwedRefund, Claim, SendOne, Send
  <2>4. ASSUME NEW t \in Tick, RefundParked(t) \/ SendBatch(t) PROVE Still
    BY Zenon, <2>4 DEF RefundParked, SettleOwedRefund, SendBatch, Send
  <2>5. ASSUME NEW t \in Tick, \/ TickStart(t) \/ RecoverDone(t) \/ SettleDone(t) \/ TickEnd(t)
                               \/ ClaimFrozen(t) \/ RailDone(t) \/ Return(t)
        PROVE  Still
    BY Zenon, <2>5 DEF TickStart, RecoverDone, SettleDone, TickEnd, ClaimFrozen, RailDone, Return
  <2>6. ASSUME NEW t \in Tick, NEW r \in Rail, SkipRail(t, r) \/ FireRail(t, r) PROVE Still
    BY Zenon, <2>6 DEF SkipRail, FireRail
  <2>7. ASSUME NEW p \in Item, Sweep(p) \/ Complete(p) \/ Fail(p) \/ Reconcile(p) \/ Provider(p)
        PROVE  Still
    BY Zenon, <2>7 DEF Sweep, Complete, Fail, Reconcile, Provider
  <2>8. CASE Freeze \/ Unfreeze \/ Crash
    BY Zenon, <2>8 DEF Freeze, Unfreeze, Crash
  <2> HIDE DEF Still
  <2> QED BY Zenon, <2>2, <2>3, <2>4, <2>5, <2>6, <2>7, <2>8 DEF Next, Continue
<1> QED BY <1>1, TypeCorrect, PTL DEF Spec, FrozenClaimsNothing
=============================================================================
