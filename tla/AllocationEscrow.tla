-------------------------- MODULE AllocationEscrow --------------------------
(***************************************************************************)
(* The escrow of a task's budget, from the hold taken at submission to the *)
(* last movement out of it: the settlement step of a receipt (direct, the  *)
(* multi-hop residual, or the federated forward with its retries), the     *)
(* stale sweep, the exhaustion refund, the dispute filing and fund action. *)
(*                                                                         *)
(* All of it runs in one process over one synchronous database.  An action *)
(* is the code between two awaits, and its transaction commits or rolls    *)
(* back whole; a crash keeps the database and loses every running handler. *)
(* Several settlement steps and several retry passes may run at once: the  *)
(* doors repeat, the recovery loop replays, and no loop is single-flight.  *)
(*                                                                         *)
(* The peer relay receives a forward any time after it was sent, any       *)
(* number of times; its answer may be lost.                                *)
(***************************************************************************)
EXTENDS Integers, FiniteSets, Functions

CONSTANTS
  Task,        \* tasks, each with its one allocation
  Account,     \* virtual accounts
  Step,        \* bound: settlement steps of one task that run at the same time
  Pass,        \* bound: retry passes that have the same row at the same time
  Kind,        \* [Task -> how its answer settles]
  Payer,       \* [Task -> the delegator that funds the hold]
  Worker,      \* [Task -> the path agent the allocation names]
  Signer,      \* [Task -> the agent that signs the receipt]
  Hold,        \* amount held: the price with its risk buffer
  Gross,       \* price snapshot
  Fee,         \* platform fee inside the gross
  Funds,       \* [Account -> initial balance]
  Refusable,   \* bound: tasks whose key, route or pin may change under a claim
  Amounts,     \* bound: amounts an account may withdraw
  MaxAttempts, \* max_attempts of a retry row
  MaxCrashes,  \* bound: crashes of the relay
  MaxFreezes,  \* bound: emergency freezes
  MaxPeerLoss, \* bound: peer rows deleted
  CrashInTurn  \* whether a crash may also fall between two commits of one turn

Kinds == {"direct", "sub", "federated"}

ASSUME TasksFinite == IsFiniteSet(Task)
ASSUME AccountsFinite == IsFiniteSet(Account)
ASSUME EscrowMaps ==
  /\ Kind \in [Task -> Kinds]
  /\ Payer \in [Task -> Account] /\ Worker \in [Task -> Account] /\ Signer \in [Task -> Account]
  /\ Funds \in [Account -> Nat] /\ Amounts \subseteq Nat \ {0}
ASSUME EscrowAmounts == /\ Hold \in Nat /\ Gross \in Nat /\ Fee \in Nat
                        /\ Fee < Gross /\ Gross <= Hold
ASSUME EscrowBounds == /\ MaxAttempts \in Nat \ {0} /\ MaxCrashes \in Nat
                       /\ MaxFreezes \in Nat /\ MaxPeerLoss \in Nat
                       /\ CrashInTurn \in BOOLEAN

VARIABLES
  \* the database
  status,      \* relay_allocations.status; "none" before submission
  net,         \* what the allocation's ledger rows and fees leave in escrow
  paid,        \* allocationPaid: settlement credit net of claw-backs
  fees,        \* relay_allocation_fees, all of them
  balance,     \* relay_accounts.balance
  row,         \* status of the task's relay_settlements row
  fwd,         \* status of the task's outgoing relay_federation_settlements row
  retry,       \* status of its relay_settlement_retries row
  attempts,    \* attempts of that row
  task,        \* the queue entry
  receipt,     \* status of the answer the entry holds and is claimed for
  settled,     \* the entry's settled mark
  review,      \* review_reason is set
  lost,        \* claim_unrecoverable_at is set
  dispute,     \* the task's dispute: none, live (not final) or final
  peer,        \* the executing peer's relay_peers row exists
  frozen,      \* the persisted freeze row
  \* the process, lost in a crash
  step,        \* what each settlement step of a task awaits
  pass,        \* what each retry pass that read a task's row awaits
  seen,        \* the attempts that pass read
  filing,      \* a dispute filing that awaits its signature check
  \* the world
  window,      \* the dispute window after the settlement is open
  takes,       \* the pin, route and key on file let the door take the claimed answer
  wire,        \* a forward was sent and may still arrive
  credited,    \* times the peer credited its worker
  spent,       \* what accounts paid out of the relay
  crashes, freezes, losses

ledger  == <<net, paid, fees, balance>>
forward == <<fwd, retry, attempts>>
answer  == <<task, receipt, settled>>
flags   == <<review, lost>>
process == <<step, pass, seen, filing>>
world   == <<window, takes, wire, credited, spent>>
bounds  == <<crashes, freezes, losses>>
vars == <<status, net, paid, fees, balance, row, fwd, retry, attempts, task, receipt,
          settled, review, lost, dispute, peer, frozen, step, pass, seen, filing,
          window, takes, wire, credited, spent, crashes, freezes, losses>>

Statuses  == {"none", "locked", "settled", "released", "disputed"}
Forwards  == {"none", "pending", "delivered", "failed"}
Retries   == {"none", "pending", "completed", "failed"}
Entries   == {"none", "pending", "granted", "answered"}
Receipts  == {"none", "completed", "failed"}
Records   == {"none", "completed", "refunded"}
Disputes  == {"none", "live", "final"}
StepAt    == {"idle", "signing", "request", "sending", "done"}
PassAt    == {"idle", "due", "signing", "sending"}

Init ==
  /\ status = [t \in Task |-> "none"] /\ net = [t \in Task |-> 0]
  /\ paid = [t \in Task |-> 0] /\ fees = 0 /\ balance = Funds
  /\ row = [t \in Task |-> "none"] /\ fwd = [t \in Task |-> "none"]
  /\ retry = [t \in Task |-> "none"] /\ attempts = [t \in Task |-> 0]
  /\ task = [t \in Task |-> "none"] /\ receipt = [t \in Task |-> "none"]
  /\ settled = [t \in Task |-> FALSE] /\ review = [t \in Task |-> FALSE]
  /\ lost = [t \in Task |-> FALSE] /\ dispute = [t \in Task |-> "none"]
  /\ peer = TRUE /\ frozen = FALSE
  /\ step = [x \in Task \X Step |-> "idle"] /\ pass = [x \in Task \X Pass |-> "idle"]
  /\ seen = [x \in Task \X Pass |-> 0]
  /\ filing = [t \in Task |-> "none"] /\ window = [t \in Task |-> TRUE]
  /\ takes = [t \in Task |-> TRUE] /\ wire = [t \in Task |-> FALSE]
  /\ credited = [t \in Task |-> 0] /\ spent = 0
  /\ crashes = 0 /\ freezes = 0 /\ losses = 0
-----------------------------------------------------------------------------
(* What the ledger says *)

\* heldSql: a forward counts as moved while pending or delivered.
Held(t) == net[t] - (IF fwd[t] \in {"pending", "delivered"} THEN Gross ELSE 0)

\* Mutant: the chokepoint does not look at the freeze.
MayMove_NoFreeze(t, n) == n <= Held(t)

\* moveAllocationMoney refuses while frozen, and an outflow above what is held.
MayMove(t, n) == ~frozen /\ n <= Held(t)

\* installSettlementGuards: one settlement row per task, over both tables.
NoRow(t) == row[t] = "none" /\ fwd[t] = "none"

\* holdsUnsettledClaim
Claimed(t) == task[t] = "answered" /\ ~settled[t]

\* holdsUnresolvedGrant
Granted(t) == task[t] = "granted"

Add(b, a, n) == [b EXCEPT ![a] = @ + n]

\* The account the dispute-window hold is computed for: the row's motebit_id,
\* the path agent on the direct path.
HoldAccount(t) == IF Kind[t] = "direct" THEN Worker[t] ELSE Signer[t]

\* getUnwithdrawableHold: the net of every settlement of the account whose
\* window is open or whose task has an active dispute.
Unwithdrawable(a) ==
  (Gross - Fee) * Cardinality({t \in Task : /\ row[t] = "completed" /\ HoldAccount(t) = a
                                            /\ window[t] \/ dispute[t] = "live"})

Spendable(a, n) == balance[a] >= n + Unwithdrawable(a)
-----------------------------------------------------------------------------
(* Submission and answer *)

\* openAllocation and the hold commit with the queued task.
Submit(t) ==
  /\ task[t] = "none" /\ ~frozen /\ Spendable(Payer[t], Hold)
  /\ task' = [task EXCEPT ![t] = "pending"]
  /\ status' = [status EXCEPT ![t] = "locked"]
  /\ net' = [net EXCEPT ![t] = Hold]
  /\ balance' = Add(balance, Payer[t], -Hold)
  /\ UNCHANGED <<paid, fees, row, forward, receipt, settled, flags, dispute, peer, frozen,
                 process, world, bounds>>

\* The executor takes the task: one task, one body.
Grant(t) ==
  /\ task[t] = "pending"
  /\ task' = [task EXCEPT ![t] = "granted"]
  /\ UNCHANGED <<status, ledger, row, forward, receipt, settled, flags, dispute, peer,
                 frozen, process, world, bounds>>

\* forwardEnded: a forward that was never called gives the grant back.
GrantReleased(t) ==
  /\ task[t] = "granted"
  /\ task' = [task EXCEPT ![t] = "pending"]
  /\ UNCHANGED <<status, ledger, row, forward, receipt, settled, flags, dispute, peer,
                 frozen, process, world, bounds>>

\* The checks of answerTask, on the first receipt and again on every replay:
\* the pin, the route and the signature under the key on file.
Checked(t) == takes[t]

\* answerTask: the first receipt is stored and claimed in one write.
Answer(t, r) ==
  /\ task[t] = "granted" /\ Checked(t)
  /\ task' = [task EXCEPT ![t] = "answered"]
  /\ receipt' = [receipt EXCEPT ![t] = r]
  /\ UNCHANGED <<status, ledger, row, forward, settled, flags, dispute, peer, frozen,
                 process, world, bounds>>
-----------------------------------------------------------------------------
(* The settlement step of a claimed answer *)

StepTo(t, s, at) == step' = [step EXCEPT ![<<t, s>>] = at]

\* The key a claimed answer was signed with is rotated or leaves the registry,
\* its route or pin changes, or comes back.
ChecksChange(t) ==
  /\ t \in Refusable /\ Claimed(t)
  /\ takes' = [takes EXCEPT ![t] = ~@]
  /\ UNCHANGED <<status, ledger, row, forward, answer, flags, dispute, peer, frozen, process,
                 window, wire, credited, spent, bounds>>

\* noteClaimReplay: a replay that settled clears claim_unrecoverable_at.
NoteReplay(t) ==
  \/ lost' = lost
  \/ lost' = [lost EXCEPT ![t] = FALSE]

MarkSettled(t) == settled' = [settled EXCEPT ![t] = TRUE] /\ NoteReplay(t)

\* admitReceipt, by a door, a repeat or a replay: an answer that no longer
\* passes the checks is refused and its claim stays; a task with a settlement
\* row is marked; another starts the step, which awaits the record's signature.
Admit(t, s) ==
  /\ Claimed(t) /\ Checked(t) /\ step[<<t, s>>] = "idle"
  /\ IF NoRow(t) THEN StepTo(t, s, "signing") /\ UNCHANGED <<settled, lost>>
                 ELSE MarkSettled(t) /\ UNCHANGED step
  /\ UNCHANGED <<status, ledger, row, forward, task, receipt, review, dispute, peer, frozen,
                 pass, seen, filing, world, bounds>>

\* Mutant: the replay passes over a task that has a settlement row.
Recover_NoRow(t, s) == ~frozen /\ NoRow(t) /\ Admit(t, s)

\* recoverSettlements replays the claim, unless frozen; it never gives one up.
Recover(t, s) == ~frozen /\ Admit(t, s)

\* Mutant: the claim does not look at the allocation's status.
Funded_AnyStatus(t) == Held(t) > 0

\* The allocation is claimed only when the ledger holds something for it.
Funded(t) == Held(t) > 0 /\ status[t] = "locked"

\* What settleOnReceipt decides: the whole gross, or nothing.
NetDue(t) == IF receipt[t] = "completed" THEN Gross - Fee ELSE 0
FeeDue(t) == IF receipt[t] = "completed" THEN Fee ELSE 0

\* Mutant: the settlement row takes the receipt's status.
RecordOf_Receipt(t) == receipt[t]

RecordOf(t) == IF receipt[t] = "completed" THEN "completed" ELSE "refunded"

\* One transaction: claim, row and fee, credit, and what is released to the payer.
SettleWith(t, s, released) ==
  /\ MayMove(t, NetDue(t) + FeeDue(t)) /\ NoRow(t)
  /\ status' = [status EXCEPT ![t] = "settled"]
  /\ row' = [row EXCEPT ![t] = RecordOf(t)]
  /\ fees' = fees + FeeDue(t)
  /\ paid' = [paid EXCEPT ![t] = NetDue(t)]
  /\ net' = [net EXCEPT ![t] = @ - NetDue(t) - FeeDue(t) - released]
  /\ balance' = Add(Add(balance, Signer[t], NetDue(t)), Payer[t], released)
  /\ StepTo(t, s, "done")

\* The direct door releases all of a refund and the surplus over the price; the
\* sub-receipt door releases nothing.
Released(t) ==
  IF Kind[t] = "direct" THEN Held(t) - NetDue(t) - FeeDue(t) ELSE 0

\* An unfunded settlement is skipped and complete; a refused one rolls back.
SettleLocal(t, s) ==
  /\ Kind[t] # "federated" /\ step[<<t, s>>] = "signing"
  /\ \/ Funded(t) /\ SettleWith(t, s, Released(t))
     \/ /\ Funded(t) /\ ~(MayMove(t, NetDue(t) + FeeDue(t)) /\ NoRow(t))
        /\ StepTo(t, s, "idle") /\ UNCHANGED <<status, ledger, row>>
     \/ /\ ~Funded(t)
        /\ StepTo(t, s, "done") /\ UNCHANGED <<status, ledger, row>>
  /\ UNCHANGED <<forward, answer, flags, dispute, peer, frozen, pass, seen, filing, world,
                 bounds>>

\* forwardOriginSettlement's transaction: the pending forward and its retry row.
ForwardCommit(t, s) ==
  /\ Kind[t] = "federated" /\ step[<<t, s>>] = "signing"
  /\ \/ /\ MayMove(t, Gross) /\ NoRow(t)
        /\ fwd' = [fwd EXCEPT ![t] = "pending"]
        /\ retry' = [retry EXCEPT ![t] = "pending"]
        /\ StepTo(t, s, IF peer THEN "request" ELSE "done")
     \/ /\ frozen \/ (Gross <= Held(t) /\ ~NoRow(t))
        /\ StepTo(t, s, "idle") /\ UNCHANGED <<fwd, retry>>
     \/ /\ ~frozen /\ Held(t) < Gross
        /\ StepTo(t, s, "done") /\ UNCHANGED <<fwd, retry>>
  /\ UNCHANGED <<status, ledger, row, attempts, answer, flags, dispute, peer, frozen, pass,
                 seen, filing, world, bounds>>

\* Mutant: the send claim looks only at the freeze.
MaySend_AnyForward(t) == ~frozen

\* beginForwardSend
MaySend(t) == ~frozen /\ fwd[t] \notin {"delivered", "failed"}

\* The send claim after the signing await; a refusal, like a signature that
\* fails, leaves the forward to the retry row.
ForwardSend(t, s) ==
  /\ step[<<t, s>>] = "request"
  /\ \/ MaySend(t) /\ wire' = [wire EXCEPT ![t] = TRUE] /\ StepTo(t, s, "sending")
     \/ StepTo(t, s, "done") /\ UNCHANGED wire
  /\ UNCHANGED <<status, ledger, row, forward, answer, flags, dispute, peer, frozen, pass,
                 seen, filing, window, takes, credited, spent, bounds>>

\* markForwardDelivered
Deliver(t) == fwd' = [fwd EXCEPT ![t] = IF @ = "pending" THEN "delivered" ELSE @]

\* The peer's answer retires an untried retry row; a lost one leaves it.
ForwardReturn(t, s) ==
  /\ step[<<t, s>>] = "sending"
  /\ StepTo(t, s, "done")
  /\ \/ /\ credited[t] > 0 /\ Deliver(t)
        /\ retry' = [retry EXCEPT ![t] = IF @ = "pending" /\ attempts[t] = 0 THEN "none" ELSE @]
     \/ UNCHANGED <<fwd, retry>>
  /\ UNCHANGED <<status, ledger, row, attempts, answer, flags, dispute, peer, frozen, pass,
                 seen, filing, world, bounds>>

\* The step is complete: the entry is marked settled.
StepDone(t, s) ==
  /\ step[<<t, s>>] = "done"
  /\ StepTo(t, s, "idle") /\ MarkSettled(t)
  /\ UNCHANGED <<status, ledger, row, forward, task, receipt, review, dispute, peer, frozen,
                 pass, seen, filing, world, bounds>>
-----------------------------------------------------------------------------
(* The retry loop and the exhaustion refund *)

PassTo(t, p, at) == /\ pass' = [pass EXCEPT ![<<t, p>>] = at]
                    /\ seen' = [seen EXCEPT ![<<t, p>>] = IF at = "idle" THEN 0 ELSE @]

\* An update by retry_id: the row may be gone.
RetryAs(t, to) == retry' = [retry EXCEPT ![t] = IF @ = "none" THEN @ ELSE to]

\* Mutant: the last attempt is never due.
PassStart_OneShort(t, p) ==
  /\ pass[<<t, p>>] = "idle" /\ retry[t] = "pending" /\ attempts[t] < MaxAttempts - 1
  /\ pass' = [pass EXCEPT ![<<t, p>>] = "due"] /\ seen' = [seen EXCEPT ![<<t, p>>] = attempts[t]]
  /\ UNCHANGED <<status, ledger, row, forward, answer, flags, dispute, peer, frozen, step,
                 filing, world, bounds>>

\* A pass reads the due row; it reaches it after the rows before it.
PassStart(t, p) ==
  /\ pass[<<t, p>>] = "idle" /\ retry[t] = "pending" /\ attempts[t] < MaxAttempts
  /\ pass' = [pass EXCEPT ![<<t, p>>] = "due"] /\ seen' = [seen EXCEPT ![<<t, p>>] = attempts[t]]
  /\ UNCHANGED <<status, ledger, row, forward, answer, flags, dispute, peer, frozen, step,
                 filing, world, bounds>>

\* What the escrow holds once a pending forward is returned to it.
HeldBack(t) == net[t] - (IF fwd[t] = "delivered" THEN Gross ELSE 0)

\* Mutant: only a locked allocation is refunded.
KeepsEscrow_NotLocked(t) == status[t] # "locked" \/ (lost[t] /\ Claimed(t))

\* The dispute's fund action, or an unrecoverable claim, keeps the escrow.
KeepsEscrow(t) == status[t] = "disputed" \/ (status[t] = "locked" /\ lost[t] /\ Claimed(t))

ExhaustionRefund(t) == HeldBack(t)

\* refundExhaustedForward: the forward returns and what is then held is refunded.
RefundExhausted(t) ==
  /\ fwd' = [fwd EXCEPT ![t] = IF @ = "pending" THEN "failed" ELSE @]
  /\ IF KeepsEscrow(t) \/ HeldBack(t) <= 0
     THEN UNCHANGED <<status, net, balance>>
     ELSE /\ net' = [net EXCEPT ![t] = @ - HeldBack(t)]
          /\ balance' = Add(balance, Payer[t], ExhaustionRefund(t))
          /\ status' = [status EXCEPT ![t] = IF @ = "locked" THEN "released" ELSE @]

\* The first send claim of the pass, and the check that the peer exists.
PassClaim(t, p) ==
  /\ pass[<<t, p>>] = "due"
  /\ \/ MaySend(t) /\ peer /\ PassTo(t, p, "signing")
        /\ UNCHANGED <<status, net, balance, fwd, retry>>
     \/ MaySend(t) /\ ~peer /\ PassTo(t, p, "idle") /\ RetryAs(t, "failed") /\ RefundExhausted(t)
     \/ /\ ~frozen /\ ~MaySend(t) /\ PassTo(t, p, "idle")
        /\ retry' = [retry EXCEPT ![t] = IF @ # "pending" THEN @
                                         ELSE IF fwd[t] = "delivered" THEN "completed" ELSE "failed"]
        /\ UNCHANGED <<status, net, balance, fwd>>
     \/ frozen /\ PassTo(t, p, "idle") /\ UNCHANGED <<status, net, balance, fwd, retry>>
  /\ UNCHANGED <<paid, fees, row, attempts, answer, flags, dispute, peer, frozen, step,
                 filing, world, bounds>>

\* The second one, in the turn of the send.
PassSend(t, p) ==
  /\ pass[<<t, p>>] = "signing"
  /\ IF MaySend(t) THEN wire' = [wire EXCEPT ![t] = TRUE] /\ PassTo(t, p, "sending")
                   ELSE PassTo(t, p, "idle") /\ UNCHANGED wire
  /\ UNCHANGED <<status, ledger, row, forward, answer, flags, dispute, peer, frozen, step,
                 filing, window, takes, credited, spent, bounds>>

PassAck(t, p) ==
  /\ pass[<<t, p>>] = "sending" /\ credited[t] > 0
  /\ PassTo(t, p, "idle") /\ RetryAs(t, "completed") /\ Deliver(t)
  /\ UNCHANGED <<status, ledger, row, attempts, answer, flags, dispute, peer, frozen, step,
                 filing, world, bounds>>

Exhausts(t, p) == seen[<<t, p>>] + 1 >= MaxAttempts

\* Mutant: the freeze is noticed only by the refund, after the retry is failed.
PassFail_LateFreeze(t, p) ==
  /\ pass[<<t, p>>] \in {"signing", "sending"} /\ PassTo(t, p, "idle")
  /\ attempts' = [attempts EXCEPT ![t] = seen[<<t, p>>] + 1]
  /\ IF Exhausts(t, p) THEN RetryAs(t, "failed") ELSE UNCHANGED retry
  /\ IF Exhausts(t, p) /\ ~frozen THEN RefundExhausted(t) ELSE UNCHANGED <<status, net, balance, fwd>>
  /\ UNCHANGED <<paid, fees, row, answer, flags, dispute, peer, frozen, step, filing,
                 world, bounds>>

\* A failed signature, send or answer: counted, or the last one refunds.
PassFail(t, p) ==
  /\ pass[<<t, p>>] \in {"signing", "sending"} /\ PassTo(t, p, "idle")
  /\ \/ /\ ~Exhausts(t, p)
        /\ attempts' = [attempts EXCEPT ![t] = seen[<<t, p>>] + 1]
        /\ UNCHANGED <<status, net, balance, fwd, retry>>
     \/ /\ Exhausts(t, p) /\ ~frozen
        /\ attempts' = [attempts EXCEPT ![t] = seen[<<t, p>>] + 1]
        /\ RetryAs(t, "failed") /\ RefundExhausted(t)
     \/ /\ Exhausts(t, p) /\ frozen
        /\ UNCHANGED <<status, net, balance, fwd, retry, attempts>>
  /\ UNCHANGED <<paid, fees, row, answer, flags, dispute, peer, frozen, step, filing,
                 world, bounds>>

\* The peer relay credits its worker, once for a task and origin.
PeerReceive(t) ==
  /\ wire[t] /\ credited[t] = 0
  /\ credited' = [credited EXCEPT ![t] = @ + 1]
  /\ UNCHANGED <<status, ledger, row, forward, answer, flags, dispute, peer, frozen, process,
                 window, takes, wire, spent, bounds>>

PeerRemoved ==
  /\ peer /\ losses < MaxPeerLoss
  /\ peer' = FALSE /\ losses' = losses + 1
  /\ UNCHANGED <<status, ledger, row, forward, answer, flags, dispute, frozen, process, world,
                 crashes, freezes>>
-----------------------------------------------------------------------------
(* The stale sweep and the operator's record *)

\* Mutant: the sweep looks only for a grant.
Stale_Claimed(t) == status[t] = "locked" /\ ~Granted(t)

\* Mutant: the sweep leaves an allocation that was forwarded.
Stale_NotForwarded(t) == status[t] = "locked" /\ ~Granted(t) /\ ~Claimed(t) /\ fwd[t] = "none"

\* One allocation of releaseStaleAllocations.
Stale(t) == status[t] = "locked" /\ ~Granted(t) /\ ~Claimed(t)

SweepRefund(t) ==
  /\ Stale(t)
  /\ IF Held(t) > 0
     THEN /\ MayMove(t, Held(t))
          /\ net' = [net EXCEPT ![t] = @ - Held(t)]
          /\ balance' = Add(balance, Payer[t], Held(t))
     ELSE UNCHANGED <<net, balance>>
  /\ status' = [status EXCEPT ![t] = "released"]
  /\ UNCHANGED <<paid, fees, row, forward, answer, flags, dispute, peer, frozen, process,
                 world, bounds>>

\* A granted, unanswered task is flagged and stays locked.
SweepFlag(t) ==
  /\ status[t] = "locked" /\ Granted(t) /\ ~review[t]
  /\ review' = [review EXCEPT ![t] = TRUE]
  /\ UNCHANGED <<status, ledger, row, forward, answer, lost, dispute, peer, frozen, process,
                 world, bounds>>

RecordUnrecoverable(t) ==
  /\ Claimed(t) /\ status[t] # "disputed" /\ ~lost[t]
  /\ lost' = [lost EXCEPT ![t] = TRUE]
  /\ UNCHANGED <<status, ledger, row, forward, answer, review, dispute, peer, frozen, process,
                 world, bounds>>
-----------------------------------------------------------------------------
(* Disputes *)

\* A filing arrives: the time it is held to is read before its signature check.
FileReceive(t) ==
  /\ filing[t] = "none" /\ dispute[t] = "none" /\ status[t] \in {"locked", "settled"}
  /\ filing' = [filing EXCEPT ![t] = IF window[t] THEN "open" ELSE "closed"]
  /\ UNCHANGED <<status, ledger, row, forward, answer, flags, dispute, peer, frozen, step,
                 pass, seen, world, bounds>>

\* Mutant: the allocation's status is not looked at.
Disputable_AnyStatus(t) == dispute[t] = "none"

\* One transaction: the allocation is locked for the dispute and the dispute opened.
Disputable(t) ==
  /\ dispute[t] = "none"
  /\ status[t] = "locked" \/ (status[t] = "settled" /\ filing[t] = "open")

FileCommit(t) ==
  /\ filing[t] # "none" /\ filing' = [filing EXCEPT ![t] = "none"]
  /\ IF Disputable(t)
     THEN /\ status' = [status EXCEPT ![t] = "disputed"]
          /\ dispute' = [dispute EXCEPT ![t] = "live"]
     ELSE UNCHANGED <<status, dispute>>
  /\ UNCHANGED <<ledger, row, forward, answer, flags, peer, frozen, step, pass, seen, world,
                 bounds>>

\* A verdict's split_ratio is k / 2.
Share(n, k) == (n * k) \div 2

\* Mutant: the debit does not ask whether the account covers it.
Covers_Always(t, claw) == TRUE

\* store.debit refuses what the account does not hold.
Covers(t, claw) == balance[Signer[t]] >= claw

\* Mutant: the delegator is credited and the claw-back not debited.
Reclaim_None(t, claw) == balance

\* The claw-back is taken from the account the settlement credited.
Reclaim(t, claw) == Add(balance, Signer[t], -claw)

\* Mutant: every dispute closes its allocation released.
CloseAs_Released(t) == "released"

\* closeDisputedAllocation: a settlement stands as the record.
CloseAs(t) == IF row[t] # "none" THEN "settled" ELSE "released"

\* executeFundAction in the transaction that makes the verdict final: the
\* claw-back of what was paid, the split of what is held.  A flagged
\* allocation moves nothing and stays disputed; a claw-back the account cannot
\* cover, or the freeze, rolls the verdict back.
Finalize(t, k) ==
  LET claw     == paid[t] - Share(paid[t], k)
      worker   == Share(Held(t), k)
      payer    == Held(t) - worker + claw
      moves    == claw + Held(t) > 0 IN
  /\ dispute[t] = "live"
  /\ dispute' = [dispute EXCEPT ![t] = "final"]
  /\ IF review[t] THEN UNCHANGED <<status, net, paid, balance>>
     ELSE /\ moves => ~frozen
          /\ Covers(t, claw)
          /\ net' = [net EXCEPT ![t] = @ + claw - worker - payer]
          /\ paid' = [paid EXCEPT ![t] = @ - claw]
          /\ balance' = Add(Add(Reclaim(t, claw), Worker[t], worker), Payer[t], payer)
          /\ status' = [status EXCEPT ![t] = IF @ = "disputed" THEN CloseAs(t) ELSE @]
  /\ UNCHANGED <<fees, row, forward, answer, flags, peer, frozen, process, world, bounds>>
-----------------------------------------------------------------------------
(* Accounts, freeze, crash *)

\* A withdrawal debit: what the dispute-window hold leaves.
Withdraw(a, n) ==
  /\ ~frozen /\ Spendable(a, n)
  /\ balance' = Add(balance, a, -n) /\ spent' = spent + n
  /\ UNCHANGED <<status, net, paid, fees, row, forward, answer, flags, dispute, peer, frozen,
                 process, window, takes, wire, credited, bounds>>

WindowClose(t) ==
  /\ row[t] # "none" /\ window[t]
  /\ window' = [window EXCEPT ![t] = FALSE]
  /\ UNCHANGED <<status, ledger, row, forward, answer, flags, dispute, peer, frozen, process,
                 takes, wire, credited, spent, bounds>>

Freeze ==
  /\ ~frozen /\ freezes < MaxFreezes
  /\ frozen' = TRUE /\ freezes' = freezes + 1
  /\ UNCHANGED <<status, ledger, row, forward, answer, flags, dispute, peer, process, world,
                 crashes, losses>>

Unfreeze ==
  /\ frozen /\ frozen' = FALSE
  /\ UNCHANGED <<status, ledger, row, forward, answer, flags, dispute, peer, process, world,
                 bounds>>

\* Every running handler is lost.
Restart ==
  /\ crashes < MaxCrashes /\ crashes' = crashes + 1
  /\ step' = [x \in Task \X Step |-> "idle"] /\ pass' = [x \in Task \X Pass |-> "idle"]
  /\ seen' = [x \in Task \X Pass |-> 0] /\ filing' = [t \in Task |-> "none"]

Crash ==
  /\ Restart
  /\ UNCHANGED <<status, ledger, row, forward, answer, flags, dispute, peer, frozen, world,
                 freezes, losses>>

\* The process is killed after a retry that is exhausted, or whose peer is gone,
\* is committed failed and before the refund's transaction is.
CrashExhausting(t, p) ==
  /\ CrashInTurn /\ Restart /\ ~frozen /\ RetryAs(t, "failed")
  /\ \/ /\ pass[<<t, p>>] \in {"signing", "sending"} /\ Exhausts(t, p)
        /\ attempts' = [attempts EXCEPT ![t] = seen[<<t, p>>] + 1]
     \/ pass[<<t, p>>] = "due" /\ MaySend(t) /\ ~peer /\ UNCHANGED attempts
  /\ UNCHANGED <<status, ledger, row, fwd, answer, flags, dispute, peer, frozen, world,
                 freezes, losses>>
-----------------------------------------------------------------------------
StepNext(t, s) ==
  \/ Admit(t, s) \/ SettleLocal(t, s) \/ ForwardCommit(t, s) \/ ForwardSend(t, s)
  \/ ForwardReturn(t, s) \/ StepDone(t, s)

PassNext(t, p) ==
  \/ PassStart(t, p) \/ PassClaim(t, p) \/ PassSend(t, p) \/ PassAck(t, p) \/ PassFail(t, p)
  \/ CrashExhausting(t, p)

TaskNext(t) ==
  \/ Submit(t) \/ Grant(t) \/ GrantReleased(t) \/ (\E r \in {"completed", "failed"} : Answer(t, r))
  \/ ChecksChange(t)
  \/ PeerReceive(t) \/ SweepRefund(t) \/ SweepFlag(t) \/ RecordUnrecoverable(t)
  \/ FileReceive(t) \/ FileCommit(t) \/ (\E k \in 0..2 : Finalize(t, k)) \/ WindowClose(t)

Next ==
  \/ \E t \in Task : \/ TaskNext(t)
                     \/ \E s \in Step : StepNext(t, s)
                     \/ \E p \in Pass : PassNext(t, p)
  \/ \E a \in Account, n \in Amounts : Withdraw(a, n)
  \/ PeerRemoved \/ Freeze \/ Unfreeze \/ Crash

Spec == Init /\ [][Next]_vars

\* Assumed of the scheduler and the operator: the recovery loop, the retry loop
\* and the stale sweep keep running, and a call that was started returns.
Fairness ==
  /\ \A t \in Task :
       /\ WF_vars(\E s \in Step : Recover(t, s))
       /\ WF_vars(\E p \in Pass : PassStart(t, p))
       /\ WF_vars(SweepRefund(t))
       /\ \A s \in Step : WF_vars(\/ SettleLocal(t, s) \/ ForwardCommit(t, s) \/ ForwardSend(t, s)
                                  \/ ForwardReturn(t, s) \/ StepDone(t, s))
       /\ \A p \in Pass : WF_vars(PassClaim(t, p) \/ PassSend(t, p) \/ PassAck(t, p) \/ PassFail(t, p))

FairSpec == Spec /\ Fairness
-----------------------------------------------------------------------------
(* Properties *)

\* The escrow implements Custody: every handler, retry, refund and verdict is
\* one of its steps, or changes nothing it can see.
Lent(f) == IF f = "none" THEN "home" ELSE IF f = "pending" THEN "lent"
           ELSE IF f = "delivered" THEN "kept" ELSE "back"

Abstract == INSTANCE Custody WITH phase <- status,
                                  held <- [t \in Task |-> Held(t)],
                                  lent <- [t \in Task |-> Lent(fwd[t])]

CustodySpec == Abstract!Spec

TypeOK ==
  /\ status \in [Task -> Statuses] /\ net \in [Task -> Int] /\ paid \in [Task -> Int]
  /\ fees \in Int /\ balance \in [Account -> Int] /\ row \in [Task -> Records]
  /\ fwd \in [Task -> Forwards] /\ retry \in [Task -> Retries] /\ attempts \in [Task -> Nat]
  /\ task \in [Task -> Entries] /\ receipt \in [Task -> Receipts]
  /\ settled \in [Task -> BOOLEAN] /\ review \in [Task -> BOOLEAN] /\ lost \in [Task -> BOOLEAN]
  /\ dispute \in [Task -> Disputes] /\ peer \in BOOLEAN /\ frozen \in BOOLEAN
  /\ step \in [Task \X Step -> StepAt] /\ pass \in [Task \X Pass -> PassAt]
  /\ seen \in [Task \X Pass -> Nat] /\ filing \in [Task -> {"none", "open", "closed"}]
  /\ window \in [Task -> BOOLEAN] /\ takes \in [Task -> BOOLEAN]
  /\ wire \in [Task -> BOOLEAN] /\ credited \in [Task -> Nat]
  /\ spent \in Int /\ crashes \in Nat /\ freezes \in Nat /\ losses \in Nat

\* The escrow of an allocation is never overdrawn, and no account goes below
\* zero: whatever settles, forwards, sweeps and refunds at the same time, no
\* movement takes out what another already took.
NeverOverdrawn == /\ \A t \in Task : Held(t) >= 0 /\ paid[t] >= 0
                  /\ \A a \in Account : balance[a] >= 0

\* Every micro-unit is in an account, in an escrow, a fee, or paid out: no
\* interleaving of settlement, refund and verdict mints or loses money.
MoneyConserved == SumFunction(balance) + SumFunction(net) + fees + spent = SumFunction(Funds)

\* reconcileLedger's invariant 3: an allocation is settled only with a
\* settlement row; and a row is never left beside a locked or released one.
SettledHasRow ==
  \A t \in Task : /\ status[t] = "settled" => row[t] # "none"
                  /\ row[t] # "none" => status[t] \in {"settled", "disputed"}

\* A released allocation holds nothing, also when a forward it had lent out
\* fails after the release: the stale sweep, the exhaustion refund and the
\* verdict leave nothing behind that no loop looks at again.
ReleasedHoldsNothing == \A t \in Task : status[t] = "released" => Held(t) = 0

\* One allocation in a state the doors leave it in: never overdrawn, a
\* settlement row and a forward exclude each other, and who may still act on
\* it (a retry row, a pass, a verdict) agrees with its status.
AllocationInv(t) ==
  /\ Held(t) >= 0 /\ paid[t] >= 0
  /\ task[t] = "none" => status[t] = "none"
  /\ status[t] = "none" => net[t] = 0 /\ fwd[t] = "none"
  /\ status[t] = "settled" => row[t] # "none"
  /\ row[t] # "none" => status[t] \in {"settled", "disputed"} /\ fwd[t] = "none"
  /\ status[t] = "released" => Held(t) = 0
  /\ dispute[t] = "live" => status[t] = "disputed"
  /\ retry[t] # "none" => fwd[t] # "none"
  /\ \A p \in Pass : pass[<<t, p>>] # "idle" => fwd[t] # "none"

\* The inductive invariant: the safety properties above follow from it, and no
\* step of a settlement, retry pass, sweep or verdict breaks it.
EscrowInv == /\ \A t \in Task : AllocationInv(t)
             /\ \A a \in Account : balance[a] >= 0

\* "a pending forward with no retry would hold the delegator's money forever":
\* a pending forward has a pending retry, whatever first send, retry passes and
\* crashes at an await meet.  (Where a kill may fall between the commits of one
\* turn, CrashExhausting breaks it.)
PendingForwardHasRetry == \A t \in Task : fwd[t] = "pending" => retry[t] = "pending"

\* A forward that is delivered, or failed and refunded, is never sent again,
\* though the send was claimed before the signing await ("sending it then
\* would pay twice").
NeverSentAfterEnd ==
  [][\A t \in Task : fwd[t] \in {"delivered", "failed"} => wire'[t] = wire[t]]_vars

\* The kept-claim law: an allocation whose task holds a claimed, unsettled
\* answer is not released unless its forward has ended, delivered or failed.
ClaimKeepsEscrow ==
  [][\A t \in Task : Claimed(t) /\ status[t] = "locked" /\ status'[t] = "released"
                       => fwd'[t] \in {"delivered", "failed"}]_vars

\* While frozen no money moves and nothing is sent, though the freeze may land
\* during any await of a settlement, retry or filing.
FrozenMovesNothing == [][frozen => UNCHANGED <<ledger, row, wire>>]_vars

\* "Funds are locked for the duration of the dispute lifecycle": while the
\* allocation of a task settled here is disputed, only the verdict takes money
\* out of its escrow.  (A forward looks at no status, and still lends the price
\* of a federated task.)
DisputeLocksEscrow ==
  [][\A t \in Task : Kind[t] # "federated" /\ status[t] = "disputed"
                       /\ dispute'[t] = dispute[t] => Held(t)' >= Held(t)]_vars

\* A claimed answer is settled once the freeze is over for good and the door
\* takes the answer for good: the recovery loop completes a step that a crash, a
\* freeze, an error or any number of refused replays interrupted.  A claim whose
\* replay stays refused is kept, unsettled.
ClaimSettles ==
  \A t \in Task : <>[](~frozen /\ Checked(t)) => (Claimed(t) ~> settled[t])

\* A forward ends delivered, or failed and refunded, whatever answers are lost.
\* (No kill falls between the two commits of an exhaustion.)
ForwardEnds == <>[]~frozen => \A t \in Task : (fwd[t] = "pending") ~> (fwd[t] # "pending")

\* The escrow of a federated task, price and risk buffer, is paid out: nothing
\* stays held but for an executor that was granted the task, under a dispute, or
\* for a claim the door refuses.  (A sub-task's buffer stays in its settlement.)
EscrowPaidOut ==
  \A t \in Task : Kind[t] = "federated" /\ <>[](~frozen /\ Checked(t)) =>
     ((status[t] = "locked") ~> (Held(t) = 0 \/ Granted(t) \/ dispute[t] # "none"))
=============================================================================
