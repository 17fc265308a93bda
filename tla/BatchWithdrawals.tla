-------------------------- MODULE BatchWithdrawals --------------------------
(***************************************************************************)
(* Aggregated withdrawals: the sweep debits and enqueues, the batch loop   *)
(* claims, sends through a rail and records the outcome, rows an earlier   *)
(* life of the process left firing are recovered, and the operator settles *)
(* what a rail left open.                                                  *)
(*                                                                         *)
(* Actions are commits, so the process can die after each; other code runs *)
(* only while a tick awaits a rail.  The loop is not single-flight: ticks  *)
(* overlap.  The order of rails and of rows is left open.                  *)
(*                                                                         *)
(* Rails are external.  A call hands a payload to the provider or not; one *)
(* that is out may land until the validity the rail declares is over.      *)
(***************************************************************************)
EXTENDS Integers, FiniteSets, Functions

CONSTANTS
  Item,         \* queue rows that may be created
  Account,      \* virtual accounts
  Rail,         \* withdrawable rails
  Tick,         \* bound: ticks that run at the same time
  Owner,        \* [Item -> Account]
  Route,        \* bound: the rails and keys the rows may be enqueued with
  Manual,       \* rails whose withdraw() sends nothing
  Batchable,    \* rails with a native withdrawBatch
  Funds,        \* [Account -> initial balance]
  Threshold,    \* [Account -> sweep_threshold]
  MinSweep,     \* least amount worth a sweep
  MaxCrashes,   \* bound: crashes of the relay
  MaxFreezes    \* bound: emergency freezes

ASSUME QueueSets == /\ IsFiniteSet(Item) /\ Tick \subseteq Nat /\ Manual \subseteq Rail
                    /\ Batchable \subseteq Rail
                    /\ Owner \in [Item -> Account]
\* A client key is unique in its account.
ASSUME Routes ==
  \A q \in Route : /\ q.via \in [Item -> Rail]
                   /\ \A i, j \in Item : Owner[i] = Owner[j] /\ q.key[i] = q.key[j] => i = j
ASSUME SweepAmounts == /\ Funds \in [Account -> Nat] /\ Threshold \in [Account -> Nat]
                       /\ MinSweep \in Nat \ {0}
ASSUME QueueBounds == MaxCrashes \in Nat /\ MaxFreezes \in Nat

VARIABLES
  \* the database
  row,          \* relay_pending_withdrawals.status; "none" before the row exists
  amount,       \* its amount_micro
  via,          \* its rail
  key,          \* the idempotency key handed to the rail: the caller's, or the row's own
  wd,           \* status of the relay_withdrawals row recorded for it
  balance,      \* relay_accounts.balance
  frozen,       \* the persisted freeze row
  earlier,      \* rows whose last_attempt_at is before the process started
  \* the process, lost in a crash
  firingHere,   \* rows whose send is running here
  pc,           \* each tick: what it is at
  rails,        \* each tick: rails still to evaluate
  todo,         \* each tick: rows read and not yet handled
  held,         \* each tick: rows claimed and not yet sent
  out,          \* each tick: rows the rail call in progress is about
  owe,          \* each tick: the row it parked refund_owed and refunds next
  \* the rails
  transfer,     \* what became of the payload of each row
  calls,        \* rail calls made for each row
  \* bounds
  crashes, freezes

queue  == <<row, amount, via, key, earlier>>
locals == <<rails, todo, held, out>>
outer  == <<transfer, calls>>
bounds == <<crashes, freezes>>
vars == <<row, amount, via, key, wd, balance, frozen, earlier, firingHere, pc, rails, todo, held,
          out, owe, transfer, calls, crashes, freezes>>

Rows      == {"none", "pending", "firing", "fired", "unknown", "refund_owed", "refunded"}
Records   == {"none", "pending", "processing", "completed", "failed"}
Awaiting  == {"idle", "one", "batch"}
Answers   == {"fired", "answered", "not_sent", "threw"}
Pcs       == Awaiting \cup Answers \cup {"recover", "owed", "rails", "claim", "serial"}
Transfers == {"none", "out", "landed", "expired"}

\* The rail and key of a row are those it is enqueued with.
Init ==
  /\ row = [p \in Item |-> "none"] /\ amount = [p \in Item |-> 0]
  /\ \E q \in Route : via = q.via /\ key = q.key
  /\ wd = [p \in Item |-> "none"] /\ balance = Funds /\ frozen = FALSE /\ earlier = {}
  /\ firingHere = {} /\ pc = [t \in Tick |-> "idle"] /\ rails = [t \in Tick |-> {}]
  /\ todo = [t \in Tick |-> {}] /\ held = [t \in Tick |-> {}] /\ out = [t \in Tick |-> {}]
  /\ owe = [t \in Tick |-> {}] /\ transfer = [p \in Item |-> "none"]
  /\ calls = [p \in Item |-> 0] /\ crashes = 0 /\ freezes = 0

\* No tick is between two awaits: other code runs.
Quiet == \A t \in Tick : pc[t] \in Awaiting
-----------------------------------------------------------------------------
(* The sweep *)

\* Mutant: an agent at or below its threshold is not skipped.
WorthSweeping_Any(a, available) == TRUE

WorthSweeping(a, available) == available - Threshold[a] >= MinSweep

\* One agent of a sweep tick: what its holds leave available, above its
\* threshold, is debited and enqueued in one transaction.
Sweep(p) ==
  /\ row[p] = "none" /\ ~frozen /\ Quiet
  /\ LET a == Owner[p] IN
     \E available \in 0..balance[a] :
       /\ WorthSweeping(a, available)
       /\ amount' = [amount EXCEPT ![p] = available - Threshold[a]]
       /\ balance' = [balance EXCEPT ![a] = @ - (available - Threshold[a])]
  /\ row' = [row EXCEPT ![p] = "pending"]
  /\ UNCHANGED <<via, key, wd, frozen, earlier, firingHere, pc, locals, owe, outer, bounds>>
-----------------------------------------------------------------------------
(* Outcomes of a row *)

\* Mutant: the credit without its compare-and-set.
SettleOwedRefund_Unmarked(p) ==
  /\ balance' = IF frozen THEN balance ELSE [balance EXCEPT ![Owner[p]] = @ + amount[p]]
  /\ UNCHANGED row

\* Mutant: the freeze does not guard the credit.
SettleOwedRefund_Unguarded(p) ==
  IF row[p] = "refund_owed"
  THEN /\ row' = [row EXCEPT ![p] = "refunded"]
       /\ balance' = [balance EXCEPT ![Owner[p]] = @ + amount[p]]
  ELSE UNCHANGED <<row, balance>>

\* refundPendingWithdrawal: the compare-and-set and the credit are one
\* transaction, which the freeze refuses.
SettleOwedRefund(p) ==
  IF row[p] = "refund_owed" /\ ~frozen
  THEN /\ row' = [row EXCEPT ![p] = "refunded"]
       /\ balance' = [balance EXCEPT ![Owner[p]] = @ + amount[p]]
  ELSE UNCHANGED <<row, balance>>

\* refundNotSent: parked first; the tick refunds it next.
RefundNotSent(t, p) ==
  IF row[p] = "firing"
  THEN /\ row' = [row EXCEPT ![p] = "refund_owed"] /\ owe' = [owe EXCEPT ![t] = {p}]
       /\ UNCHANGED wd
  ELSE UNCHANGED <<row, owe, wd>>

\* holdUnknown: parked with a processing withdrawal, in one transaction.
HoldUnknown(p) ==
  /\ UNCHANGED owe
  /\ IF row[p] = "firing"
     THEN row' = [row EXCEPT ![p] = "unknown"] /\ wd' = [wd EXCEPT ![p] = "processing"]
     ELSE UNCHANGED <<row, wd>>

\* Mutant: any failure the rail reports is a proof that nothing left.
NotSent_Reported(p, how) == how \in {"not_sent", "answered"} \/ via[p] \in Manual

\* failureOutcome: a proof that nothing left.
NotSent(p, how) == how = "not_sent" \/ via[p] \in Manual

MarkFailed(t, p, how) == IF NotSent(p, how) THEN RefundNotSent(t, p) ELSE HoldUnknown(p)

\* firedRecordFor.  A rail confirms only what landed.
FiredRecords(p) ==
  (IF transfer[p] = "landed" THEN {"completed"} ELSE {})
    \cup {IF via[p] \in Manual THEN "pending" ELSE "processing"}

MarkFired(p) ==
  /\ UNCHANGED owe
  /\ IF row[p] = "firing"
     THEN /\ row' = [row EXCEPT ![p] = "fired"]
          /\ \E record \in FiredRecords(p) : wd' = [wd EXCEPT ![p] = record]
     ELSE UNCHANGED <<row, wd>>
-----------------------------------------------------------------------------
(* A tick: recover, refund what is owed, evaluate each rail *)

\* What the tick parked is refunded before it goes on.
At(t, at) == pc[t] = at /\ owe[t] = {}

Move(t, to) == pc' = [pc EXCEPT ![t] = to]

\* Ticks are numbered as they overlap: the least number that is free.
TickStart(t) ==
  /\ At(t, "idle") /\ (\A u \in Tick : u < t => pc[u] # "idle") /\ ~frozen /\ Quiet
  /\ Move(t, "recover")
  /\ todo' = [todo EXCEPT ![t] = {p \in Item : row[p] = "firing"}]
  /\ UNCHANGED <<queue, wd, balance, frozen, firingHere, rails, held, out, owe, outer, bounds>>

\* Mutant: what this process is sending is not looked at.
Recoverable_InFlight(p) == TRUE

\* Mutant: only rows of an earlier life are recovered.
Recoverable_Earlier(p) == p \in earlier

\* No send for the row can be running: it was claimed in an earlier life, or
\* it is not in flight here (and has been firing for a while).
Recoverable(p) == p \in earlier \/ p \notin firingHere

\* A row of this life that is not yet stale is left for a later tick.
RecoverFiring(t, p) ==
  /\ At(t, "recover") /\ p \in todo[t]
  /\ todo' = [todo EXCEPT ![t] = @ \ {p}]
  /\ \/ Recoverable(p) /\ MarkFailed(t, p, "threw")
     \/ p \notin earlier /\ UNCHANGED <<row, wd, owe>>
  /\ UNCHANGED <<amount, via, key, earlier, balance, frozen, firingHere, pc, rails, held, out, outer,
                 bounds>>

\* The refund that follows refundNotSent.
RefundParked(t) ==
  /\ \E p \in owe[t] : SettleOwedRefund(p)
  /\ owe' = [owe EXCEPT ![t] = {}]
  /\ UNCHANGED <<amount, via, key, earlier, wd, frozen, firingHere, pc, locals, outer, bounds>>

RecoverDone(t) ==
  /\ At(t, "recover") /\ todo[t] = {}
  /\ Move(t, "owed")
  /\ todo' = [todo EXCEPT ![t] = {p \in Item : row[p] = "refund_owed"}]
  /\ UNCHANGED <<queue, wd, balance, frozen, firingHere, rails, held, out, owe, outer, bounds>>

SettleOwedRefunds(t, p) ==
  /\ At(t, "owed") /\ p \in todo[t]
  /\ todo' = [todo EXCEPT ![t] = @ \ {p}]
  /\ SettleOwedRefund(p)
  /\ UNCHANGED <<amount, via, key, earlier, wd, frozen, firingHere, pc, rails, held, out, owe, outer,
                 bounds>>

SettleDone(t) ==
  /\ At(t, "owed") /\ todo[t] = {}
  /\ Move(t, "rails") /\ rails' = [rails EXCEPT ![t] = Rail]
  /\ UNCHANGED <<queue, wd, balance, frozen, firingHere, todo, held, out, owe, outer, bounds>>

TickEnd(t) ==
  /\ At(t, "rails") /\ rails[t] = {}
  /\ Move(t, "idle")
  /\ UNCHANGED <<queue, wd, balance, frozen, firingHere, locals, owe, outer, bounds>>
-----------------------------------------------------------------------------
(* evaluateAndFireRail *)

Pending(r) == {p \in Item : row[p] = "pending" /\ via[p] = r}

\* shouldBatchSettle does not clear, or the queue is empty.
SkipRail(t, r) ==
  /\ At(t, "rails") /\ r \in rails[t]
  /\ rails' = [rails EXCEPT ![t] = @ \ {r}]
  /\ UNCHANGED <<queue, wd, balance, frozen, firingHere, pc, todo, held, out, owe, outer, bounds>>

FireRail(t, r) ==
  /\ At(t, "rails") /\ r \in rails[t] /\ Pending(r) # {}
  /\ rails' = [rails EXCEPT ![t] = @ \ {r}] /\ todo' = [todo EXCEPT ![t] = Pending(r)]
  /\ Move(t, IF r \in Batchable THEN "claim" ELSE "serial")
  /\ UNCHANGED <<queue, wd, balance, frozen, firingHere, held, out, owe, outer, bounds>>

\* Mutant: the claim does not look at what another tick did meanwhile.
Claimable_Listed(p) == TRUE

\* The compare-and-set of claimForFiring.
Claimable(p) == row[p] = "pending"

\* The sends that run here, once p is claimed.
InFlight(p) == firingHere \cup {p}

\* claimForFiring, one row.
Claim(t, p) ==
  /\ pc[t] \in {"claim", "serial"} /\ owe[t] = {} /\ p \in todo[t] /\ ~frozen
  /\ pc[t] = "serial" => held[t] = {}
  /\ todo' = [todo EXCEPT ![t] = @ \ {p}]
  /\ IF Claimable(p)
     THEN /\ row' = [row EXCEPT ![p] = "firing"] /\ earlier' = earlier \ {p}
          /\ firingHere' = InFlight(p) /\ held' = [held EXCEPT ![t] = @ \cup {p}]
     ELSE UNCHANGED <<row, earlier, firingHere, held>>
  /\ UNCHANGED <<amount, via, key, wd, balance, frozen, pc, rails, out, owe, outer, bounds>>

\* The freeze refuses the claim, which ends the tick.
ClaimFrozen(t) ==
  /\ pc[t] \in {"claim", "serial"} /\ owe[t] = {} /\ todo[t] # {} /\ held[t] = {} /\ frozen
  /\ Move(t, "idle")
  /\ todo' = [todo EXCEPT ![t] = {}] /\ rails' = [rails EXCEPT ![t] = {}]
  /\ UNCHANGED <<queue, wd, balance, frozen, firingHere, held, out, owe, outer, bounds>>

\* A rail is called for rows S; it hands some payloads to its provider.
Send(t, S, how) ==
  /\ Move(t, how) /\ out' = [out EXCEPT ![t] = S] /\ held' = [held EXCEPT ![t] = @ \ S]
  /\ calls' = [p \in Item |-> IF p \in S THEN calls[p] + 1 ELSE calls[p]]
  /\ \E handed \in SUBSET {p \in S : via[p] \notin Manual} :
       transfer' = [p \in Item |-> IF p \in handed THEN "out" ELSE transfer[p]]
  /\ UNCHANGED <<queue, wd, balance, frozen, firingHere, rails, todo, owe, bounds>>

\* Two rows of a batch have one key.
Collision(S) == \E p, q \in S : p # q /\ key[p] = key[q]

\* fireSerial: the row just claimed, or one of a batch whose keys collide.
SendOne(t, p) ==
  /\ At(t, "serial") \/ (At(t, "claim") /\ todo[t] = {} /\ Collision(held[t]))
  /\ p \in held[t] /\ Send(t, {p}, "one")

\* No row is left to send.
RailDone(t) ==
  /\ pc[t] \in {"claim", "serial"} /\ owe[t] = {} /\ todo[t] = {} /\ held[t] = {}
  /\ Move(t, "rails")
  /\ UNCHANGED <<queue, wd, balance, frozen, firingHere, locals, owe, outer, bounds>>

\* fireBatch, once all rows are claimed.
SendBatch(t) ==
  /\ At(t, "claim") /\ todo[t] = {} /\ held[t] # {} /\ ~Collision(held[t])
  /\ Send(t, held[t], "batch")
-----------------------------------------------------------------------------
(* The rail answers *)

\* A result says it was sent; PayoutNotSentError proves it was not; any other
\* error proves nothing.
Sent(p) == via[p] \in Manual \/ transfer[p] # "none"

Return(t) ==
  /\ pc[t] \in {"one", "batch"} /\ Quiet
  /\ \/ pc[t] = "one" /\ (\A p \in out[t] : Sent(p)) /\ Move(t, "fired")
     \/ pc[t] = "batch" /\ Move(t, "answered")
     \/ (\A p \in out[t] : transfer[p] = "none") /\ Move(t, "not_sent")
     \/ Move(t, "threw")
  /\ UNCHANGED <<queue, wd, balance, frozen, firingHere, locals, owe, outer, bounds>>

\* One row of the answer.  A batch may report a row failed, or not at all.
Record(t, p) ==
  /\ pc[t] \in Answers /\ owe[t] = {} /\ p \in out[t]
  /\ \/ pc[t] \in {"fired", "answered"} /\ Sent(p) /\ MarkFired(p)
     \/ pc[t] \in {"answered", "not_sent", "threw"} /\ MarkFailed(t, p, pc[t])
     \/ pc[t] = "answered" /\ UNCHANGED <<row, wd, owe>>
  /\ out' = [out EXCEPT ![t] = @ \ {p}] /\ firingHere' = firingHere \ {p}
  /\ Move(t, IF out[t] = {p} THEN "serial" ELSE pc[t])
  /\ UNCHANGED <<amount, via, key, earlier, balance, frozen, rails, todo, held, outer, bounds>>
-----------------------------------------------------------------------------
(* The operator's doors, on the recorded withdrawal *)

Complete(p) ==
  /\ wd[p] = "pending" /\ ~frozen /\ Quiet
  /\ wd' = [wd EXCEPT ![p] = "completed"]
  /\ UNCHANGED <<queue, balance, frozen, firingHere, pc, locals, owe, outer, bounds>>

\* failWithdrawal: the record and the refund are one transaction.
Refund(p) == /\ wd' = [wd EXCEPT ![p] = "failed"]
             /\ balance' = [balance EXCEPT ![Owner[p]] = @ + amount[p]]

Fail(p) ==
  /\ wd[p] = "pending" /\ ~frozen /\ Quiet
  /\ Refund(p)
  /\ UNCHANGED <<queue, frozen, firingHere, pc, locals, owe, outer, bounds>>

\* reconcileOpensAt: the validity the rail declared is over.
ReconcileOpen(p) == transfer[p] # "out"

\* The operator attests what the rail shows.  The freeze refuses the refund;
\* the outcome of a payout that left is a record, which it lets through.
Reconcile(p) ==
  /\ wd[p] = "processing" /\ Quiet /\ ReconcileOpen(p)
  /\ \/ transfer[p] = "landed" /\ wd' = [wd EXCEPT ![p] = "completed"] /\ UNCHANGED balance
     \/ transfer[p] # "landed" /\ ~frozen /\ Refund(p)
  /\ UNCHANGED <<queue, frozen, firingHere, pc, locals, owe, outer, bounds>>
-----------------------------------------------------------------------------
(* Provider, freeze, crash *)

\* A payload that is out lands, or its validity ends.
Provider(p) ==
  /\ transfer[p] = "out" /\ Quiet
  /\ \E end \in {"landed", "expired"} : transfer' = [transfer EXCEPT ![p] = end]
  /\ UNCHANGED <<queue, wd, balance, frozen, firingHere, pc, locals, owe, calls, bounds>>

Freeze ==
  /\ ~frozen /\ freezes < MaxFreezes /\ Quiet
  /\ frozen' = TRUE /\ freezes' = freezes + 1
  /\ UNCHANGED <<queue, wd, balance, firingHere, pc, locals, owe, outer, crashes>>

Unfreeze ==
  /\ frozen /\ Quiet /\ frozen' = FALSE
  /\ UNCHANGED <<queue, wd, balance, firingHere, pc, locals, owe, outer, bounds>>

\* Only the database is left; what is firing was claimed in an earlier life.
Crash ==
  /\ crashes < MaxCrashes /\ crashes' = crashes + 1
  /\ earlier' = {p \in Item : row[p] = "firing"} /\ firingHere' = {}
  /\ pc' = [t \in Tick |-> "idle"] /\ rails' = [t \in Tick |-> {}]
  /\ todo' = [t \in Tick |-> {}] /\ held' = [t \in Tick |-> {}] /\ out' = [t \in Tick |-> {}]
  /\ owe' = [t \in Tick |-> {}]
  /\ UNCHANGED <<row, amount, via, key, wd, balance, frozen, outer, freezes>>
-----------------------------------------------------------------------------
\* A tick goes on.
Continue(t) ==
  \/ \E p \in Item : RecoverFiring(t, p) \/ SettleOwedRefunds(t, p) \/ Claim(t, p)
                       \/ SendOne(t, p) \/ Record(t, p)
  \/ RefundParked(t) \/ RecoverDone(t) \/ SettleDone(t) \/ TickEnd(t)
  \/ ClaimFrozen(t) \/ SendBatch(t) \/ RailDone(t) \/ Return(t)
  \/ \E r \in Rail : SkipRail(t, r) \/ FireRail(t, r)

Next ==
  \/ \E t \in Tick : TickStart(t) \/ Continue(t)
  \/ \E p \in Item : Sweep(p) \/ Complete(p) \/ Fail(p) \/ Reconcile(p) \/ Provider(p)
  \/ Freeze \/ Unfreeze \/ Crash

Spec == Init /\ [][Next]_vars

\* Ticks start and go on, rails answer, the policy clears once a queue is old,
\* a row that stays firing becomes stale, and a freeze is lifted.
Fairness ==
  /\ WF_vars(\E t \in Tick : TickStart(t))
  /\ \A t \in Tick : WF_vars(Continue(t)) /\ SF_vars(Return(t))
  /\ \A r \in Rail : SF_vars(\E t \in Tick : FireRail(t, r))
  /\ \A p \in Item : SF_vars(\E t \in Tick : RecoverFiring(t, p) /\ row'[p] # row[p])
  /\ WF_vars(Unfreeze)

FairSpec == Spec /\ Fairness
-----------------------------------------------------------------------------
(* Properties *)

TypeOK ==
  /\ row \in [Item -> Rows] /\ (\E q \in Route : via = q.via /\ key = q.key)
  /\ amount \in [Item -> Nat] /\ wd \in [Item -> Records]
  /\ balance \in [Account -> Nat] /\ frozen \in BOOLEAN
  /\ earlier \subseteq Item /\ firingHere \subseteq Item
  /\ pc \in [Tick -> Pcs] /\ rails \in [Tick -> SUBSET Rail]
  /\ todo \in [Tick -> SUBSET Item] /\ held \in [Tick -> SUBSET Item]
  /\ out \in [Tick -> SUBSET Item] /\ owe \in [Tick -> SUBSET Item]
  /\ transfer \in [Item -> Transfers] /\ calls \in [Item -> Nat]
  /\ crashes \in Nat /\ freezes \in Nat

\* "Never re-sent": a rail is called at most once for a row, by whichever of
\* the overlapping ticks claimed it, also across a restart.
SentOnce == \A p \in Item : calls[p] <= 1

\* No outcome is lost: a row whose send runs is still firing when the rail
\* answers, so the outcome's compare-and-set finds it.
OutcomeFindsRow == \A t \in Tick : \A p \in held[t] \cup out[t] : row[p] = "firing"

Refunded(p) == row[p] \in {"refund_owed", "refunded"} \/ wd[p] = "failed"

\* "Refund only what provably never left": a refunded row's payload is not in
\* the provider's hands and never lands.
RefundedNotPaid == \A p \in Item : Refunded(p) => transfer[p] \in {"none", "expired"}

\* What a row says of its send: none before it is claimed, one at most, a
\* recorded withdrawal only once its outcome is, a refund only of what stays.
RowInv(p) ==
  /\ row[p] \in {"none", "pending"} => calls[p] = 0
  /\ calls[p] <= 1 /\ (calls[p] = 0 => transfer[p] = "none")
  /\ wd[p] # "none" => row[p] \in {"fired", "unknown"}
  /\ via[p] \in Manual => transfer[p] = "none"
  /\ wd[p] = "pending" => via[p] \in Manual
  /\ Refunded(p) => transfer[p] \in {"none", "expired"}

\* What a tick holds is its own: firing, in flight here, sent once at most.
TickInv(t) ==
  /\ \A p \in held[t] \cup out[t] : row[p] = "firing" /\ p \in firingHere /\ p \notin earlier
  /\ \A p \in held[t] : calls[p] = 0 /\ p \notin out[t]
  /\ pc[t] = "not_sent" => \A p \in out[t] : transfer[p] = "none"
  /\ \A u \in Tick \ {t} : \A p \in held[t] \cup out[t] : p \notin held[u] \cup out[u]

\* The inductive invariant: claims, recovery, answers and the operator's doors
\* never meet over one row.
BatchInv == (\A p \in Item : RowInv(p)) /\ (\A t \in Tick : TickInv(t))

\* Debited once and refunded at most once: an account lacks exactly what its
\* rows carry that was not refunded.
Debited(a) == {p \in Item : /\ Owner[p] = a /\ row[p] # "refunded" /\ wd[p] # "failed"}
BatchConserved ==
  \A a \in Account : balance[a] = Funds[a] - SumFunctionOnSet(amount, Debited(a))

\* While frozen no balance moves and no row is enqueued or claimed, wherever
\* the freeze lands in a tick.
FrozenClaimsNothing ==
  [][frozen => /\ balance' = balance
               /\ \A p \in Item : row[p] \in {"none", "pending"} => row'[p] = row[p]]_vars

\* The queue empties: again and again every row the sweep made is fired,
\* refunded or held for the operator, across overlapping ticks, a freeze and a
\* restart.
Settled(p) == row[p] \in {"none", "fired", "unknown", "refunded"}
QueueDrains == []<>(\A p \in Item : Settled(p))
=============================================================================
