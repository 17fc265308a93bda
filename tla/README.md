# TLA+ verification of the motebit relay

motebit is a network of agents with an economy: a relay (`services/relay`)
keeps virtual accounts, routes paid tasks between agents, settles them, hears
disputes about them and pays withdrawals out. This directory holds TLA+ models
of that machinery, the TLC configurations that check them on small instances,
and TLAPS proofs of the safety properties for every instance.

The relay is one Node process on a synchronous SQLite connection. Between two
`await`s nothing else runs, so the unit of interleaving is the code between two
awaits, and that is what one action models. A crash can fall at any await, and
where it matters between two commits of one turn: the database and the outside
world survive it, everything in memory does not. No route and, but for the payout
resolution (`resolvePayoutsOnce`), no loop is single-flight, so several instances
of a handler run at the same time.

## Inventory

| Part | What makes it hard | Status |
| --- | --- | --- |
| Withdrawal payouts, Path 0 (`budget.ts`, `withdrawal-chain-payouts.ts`) | money leaves on a chain that answers late or not at all; a crash at every await; three deciders per row | `WithdrawalPayout`, proved |
| Batch withdrawals (`batch-withdrawals.ts`, `sweep.ts`) | overlapping ticks, unknown rail outcomes, rows an earlier life left firing | `BatchWithdrawals`, proved |
| Allocation escrow (`allocation-escrow.ts`, `task-answer.ts`), with the settlement doors of `tasks.ts`, the federated forward and its retries (`federation-callbacks.ts`), recovery (`settlement-recovery.ts`) | many doors, one held amount; lost acknowledgements; refund against a late send | `AllocationEscrow`, proved, refines `Custody` |
| Disputes (`disputes.ts`, `dispute-orchestration.ts`, `dispute-fund-ledger.ts`) | signing and polling awaits between read and write; two rounds; refused fund actions | `Disputes`, proved |
| Virtual accounts, idempotency keys, emergency freeze | compare-and-set plus credit in one transaction; a freeze between any two steps | the side the modules above use |
| Task claims, x402 and p2p settlement, anchoring, event sequence and sync, deposits, small machines (breaker, election, leases, pairing, proposals) | lapses, unknown outcomes, lagging readers | not modelled |
| Crypto, schemas, trust semiring, agent core, applications | no protocol state, or real-valued and model-driven | not modelled |

`PROJECT.json` lists every part with its sources and the reason for its status.
The modules meet at the balance and at the freeze, which each of them writes, and
at the dispute: `Disputes` decides when and which fund action runs,
`AllocationEscrow` (`FileCommit`, `Finalize`) moves the money.

| Module | Holds |
| --- | --- |
| `WithdrawalPayout`, `BatchWithdrawals`, `AllocationEscrow`, `Disputes` | the components |
| `Custody` | what an escrow promises, abstractly |
| `MC...` with their `.cfg` files | the instances TLC checks |
| `Sums` | laws of sums over finite sets |
| `WithdrawalPayoutFire`, `WithdrawalPayoutProofs`, `BatchWithdrawalsProofs`, `AllocationEscrowSteps`, `AllocationEscrowProofs`, `AllocationEscrowRefinement`, `DisputesProofs` | the theorems |

## Withdrawal payouts: `WithdrawalPayout`

A withdrawal is debited and recorded `pending` in one transaction. `firePathZero`
reads the durable-nonce lane, claims the row (`processing`), reserves the
nonce value in memory, signs a transfer over it, records the transaction
(`beforeBroadcast`) and only then broadcasts it. A transaction over a nonce
value lands at most once, and any transaction over that value, the payout or
the bare advance that kills it, invalidates all the others. The row is then settled
from chain facts only: paid when the payout is finalized ok, refunded when
nothing was ever recorded, when the payout is finalized as failed, or when its
kill is finalized. Otherwise it waits for the resolution loop, which kills an
undecided payout after a delay. The operator may complete or fail a pending row by
hand and reconcile a processing one.

| Model | Code |
| --- | --- |
| `status`, `balance` | `relay_withdrawals.status`, `relay_accounts.balance` |
| `idem` | `relay_idempotency_keys.status` |
| `chainClaim`, `queue` | `relay_withdrawal_chain_claims`, `relay_withdrawal_payout_queue` |
| `payNonce`, `earlier`, `killRec`, `payFinal`, `killFinal` | rows of `relay_withdrawal_payout_attempts` |
| `inFlight`, `reserved` | `payoutsInFlight`, `reservedNonces` |
| `firePc`, `fireLane`, `routePc` | where `firePathZero` and the route are awaiting, and the value they read |
| `loop`, `loopQ`, `todo`, `loopPc` | `resolvePayoutsOnce` and its `resolveWithdrawal` calls, up to four at once in the code, all of them here |
| `opPc`, `opAsk` | the operator's open request |
| `nonce`, `net`, `payLanded`, `killLanded` | the chain (external) |
| `attested` | history: the operator's word a row was settled on |

The actions, by process: `WithdrawBegin`, `Withdraw`, `WithdrawAnswered` (the
route); `Fire*` (`firePathZero`); `LoopTick`, `LoopFire`, `LoopFired` (the
tick) and `LoopResolve` ... `LoopKill` (`resolveWithdrawal`, `requestKill`);
`Admin*` and `Reconcile*` (the operator's doors); `LandPayout`, `LandKill`,
`ExternalAdvance` (the chain); `cleanupIdempotencyKeys`, `Freeze`, `Unfreeze`,
`Crash`.

Abstractions:

- Time. A timeout, an elapsed kill delay and a slow read are choices.
- The chain. Nonce values are numbered in the order the lane takes them, and
  the slot a value was observed at is represented by the value. A read with a
  `minContextSlot` floor returns any value from the floor to the current one:
  nodes lag, but never below the floor. A status read may fail or lag; a finalized
  status it does report is true.
- A snapshot of the attempts is one of `empty` (none recorded), `read` (none
  final) and `known` (some final), which is all a verdict depends on.
- A verdict's reads are one step: their order does not matter, since a
  finalized status never changes.

Not modelled: creation, takeover and seed rotation of the nonce account (there
is one lane); rows claimed by releases that sent without recording
(`operator_attested`, `declared_horizon`); holds and the transaction log; the
continuation of a kill broadcast after its own timeout, whose only effect, a
kill recorded late, the model's kill at any later tick covers.

## Batch withdrawals: `BatchWithdrawals`

The sweep debits what lies above an account's threshold and enqueues it in one
transaction. A tick of the loop first recovers rows an earlier life left
`firing`, then settles refunds it owes, then looks at each rail: once the policy
clears a queue, it claims the rows, sends them in one native batch or one call
each, and records every outcome. An outcome the rail does not tell is held as
`unknown` for the operator, and only what provably never left is refunded.

| Model | Code |
| --- | --- |
| `row`, `amount`, `via`, `key`, `earlier` | `relay_pending_withdrawals`: status, amount, rail, idempotency key, `last_attempt_at` before the process started |
| `wd`, `balance` | the `relay_withdrawals` row recorded for it, `relay_accounts.balance` |
| `firingHere` | the set of rows whose send runs in this process |
| `pc`, `rails`, `todo`, `held`, `out`, `owe` | where each tick is, and its local variables |
| `transfer`, `calls` | what became of the payload, and the calls made (external) |

Rails are external: a call hands the payload over or not, and answers, fails or
stays silent; a payload that is out may land until the validity its rail declares
is over, which the model trusts as the code does. Time is a choice: a row is
stale and a policy clears at any tick. Ticks are interchangeable: a tick that starts
takes the least free number. Key collisions and native batches are exercised
although no rail of the relay as configured today has them
(`batch-withdrawals.ts:585`). Not modelled: the sweep's immediate legacy path,
the arithmetic of the policy, the admin summary.

## The escrow: `AllocationEscrow` and `Custody`

Submission takes a hold from the delegator's account. It leaves the escrow by one
of several doors: the settlement step of a receipt (direct, or a sub-task's part
of a parent's receipt), a forward that lends the price to the executing peer relay
and is delivered or comes back, the stale sweep, the refund when a forward's
retries are exhausted, or the fund action of a dispute. Every movement goes
through one chokepoint that looks at the freeze and at what is held.

| Model | Code |
| --- | --- |
| `status`, `net`, `paid`, `fees` | `relay_allocations.status`, what its ledger rows and fees leave, `allocationPaid`, `relay_allocation_fees` |
| `balance`, `row` | `relay_accounts.balance`, the task's `relay_settlements` row |
| `fwd`, `retry`, `attempts` | its outgoing `relay_federation_settlements` row and `relay_settlement_retries` row |
| `task`, `receipt`, `settled`, `review`, `lost` | the queue entry, its claimed answer, the settled mark, `review_reason`, `claim_unrecoverable_at` |
| `dispute`, `window`, `filing` | the task's dispute, its window, a filing that awaits its signature check |
| `step`, `pass`, `seen` | what each settlement step and each retry pass awaits, and the attempts it read |
| `takes` | whether the pin, the route and the key on file let the door take the claimed answer again |
| `peer`, `wire`, `credited`, `spent` | the peer's row, the forward on its way, the peer's credits, what left the relay (external) |

`Submit`, `Grant`, `GrantReleased`, `Answer`, `Admit` and `Recover` bring an answer to its
settlement step, unless `ChecksChange` made the door refuse it; `SettleLocal` and `ForwardCommit`, `ForwardSend`, `ForwardReturn`,
`StepDone` run it; `PassStart`, `PassClaim`, `PassSend`, `PassAck`, `PassFail` are the
retry loop; `PeerReceive`, `PeerRemoved` the peer; `SweepRefund`, `SweepFlag` the
stale sweep; `RecordUnrecoverable` the operator; `FileReceive`, `FileCommit`, `Finalize`,
`WindowClose` the dispute; `Withdraw` is any account spending.

`Custody` is the promise: an allocation follows locked, settled, released,
disputed; what it holds leaves by one of five steps; a lent price is kept by the
peer or comes back, once. The mapping takes `status` for the phase, `Held(t)` for
what is held and the forward's status for the lent price.

All prices are equal in the model (`Hold`, `Gross`, `Fee`). Not modelled:
peer-to-peer and x402 tasks, which hold nothing; unroutable payers; the
answer archive's content; the receipt exchange.

## Disputes: `Disputes`

One dispute, from its filing on: evidence, the round-1 verdict (the operator's or,
when the relay is a party, the peers' by quorum or after a deadline), the appeal
and the round-2 verdict, and the fund action that makes a verdict final.

| Model | Code |
| --- | --- |
| `state`, `appealed`, `marker`, `evidence` | `relay_disputes` and its evidence rows |
| `row` | `relay_dispute_resolutions`, one row per round: fund action and number of votes |
| `votes`, `orch`, `deadline` | `relay_dispute_votes` and `relay_dispute_orchestrations` of round 1 |
| `funds` | what `executeFundAction` did |
| `pc`, `opinion`, `base`, `late`, `sub` | what each running call, worker cycle or submission awaits and read before |
| `federated`, `position`, `short`, `mesh` | who adjudicates, what the ledger holds, whether a claw-back is covered, whether enough peers are active |

`Resolve`, `ResolveRound2` are the operator's `/resolve`; `WorkerDue`, `WorkerAttempt`,
`AttemptAnswer` the resolution worker; `AppealStart`, `AppealCommit`, `AppealAnswer`
the `/appeal` route; `CommitRound1`, `CommitRound2` the commits after a signature;
`ReadExpired`, `ReadRound2` the reads that finalize; `SubmitStart`, `SubmitCommit`
the `/evidence` route. The rest is time, accounts, peers, freeze and crash.

Not modelled: the `opened` and expired states no code enters, round-2
orchestration rows no code creates, the refusals of legacy rows, the content of
evidence and votes.

## Runs

| Run | Instance | Checks |
| --- | --- | --- |
| `withdrawal_safety` | 2 withdrawals, 1 crash, the operator acts on one, the other's key is swept | `NeverPaidAndRefunded`, `CompletedMeansPaid`, `OneNoncePerPayout`, `QueueHoldsOnlyUnclaimed`, `PayoutLandsOnClaimedRow`, `SettledIsFinal` |
| `withdrawal_lane` | 2 withdrawals, fairness | `QueuedIsFired` under contention for the lane |
| `withdrawal_recovery` | 1 withdrawal, 1 crash, 1 freeze, 1 outside advance, key swept, operator, fairness | `TypeOK`, `Conservation`, `FrozenMovesNoMoney`, `ClaimedIsDecided` |
| `withdrawal_retry` | 1 withdrawal, 1 freeze, fairness | `RetryDoesTheWork`, violated |
| `escrow_shared` | a direct task and a sub-task of one delegator, 3 accounts, 1 freeze, withdrawals of 2 | `TypeOK`, `NeverOverdrawn`, `MoneyConserved`, `SettledHasRow`, `FrozenMovesNothing`, `DisputeLocksEscrow`, refinement `CustodySpec` |
| `escrow_retries` | 1 federated task, 2 concurrent steps, 2 overlapping passes, 2 attempts, 1 crash also between commits, 1 freeze, 1 lost peer row | `ReleasedHoldsNothing`, `ClaimKeepsEscrow`, `NeverSentAfterEnd` |
| `escrow_progress` | 1 federated task, 3 attempts, replays refused, 1 crash, 1 freeze, 1 lost peer row, fairness | `PendingForwardHasRetry`, `ClaimSettles`, `ForwardEnds`, `EscrowPaidOut` |
| `dispute_verdicts` | 2 operator calls, 1 worker cycle, 1 appeal, 2 peers, quorum 2, 1 crash, 1 freeze | `EvidenceHeard`, `QuorumOrDeadline`, `VerdictExecuted`, `NeverMovedBack`, `FirstVerdictStands` |
| `dispute_progress` | 1 call, 1 cycle, 1 appeal, 1 submission, 1 peer, 1 crash, 1 freeze, fairness | `ArbitrationDecided`, `ResolvedEnds`, `AppealDecided` |
| `dispute_resume` | 1 call, 1 cycle, 2 peers, 1 crash, a fair worker | `WorkerResolves`, violated |
| `dispute_evidence` | 1 call, 1 cycle, 1 appeal, 1 submission | `BundleFreezes`, violated |
| `batch_withdrawals` | 2 rows, 2 rails, 2 overlapping ticks, 1 crash, 1 freeze, fairness | `TypeOK`, `SentOnce`, `OutcomeFindsRow`, `RefundedNotPaid`, `BatchConserved`, `FrozenClaimsNothing`, `QueueDrains` |

Each property has a mutant in `PROJECT.json`: a plausible slip in the code, written
into the model, that TLC catches with it. The inductive invariants of the proofs
are not rerun by TLC; they are proved.

Bounds. Two withdrawals, tasks, rows or calls are the least that contend, and no
property speaks of more than two. One crash lets every pre-crash state meet
every post-crash process; a second starts from a state of the same form. The same
holds of a freeze, an outside advance and a lost peer row. Two retry attempts
have one that is not the last and one that exhausts. `Refusable` bounds the tasks
whose replays may be refused: a refusal only delays a settlement, so the safety
runs have none. `escrow_shared` has one settlement step per task, since two are too many
states; that two steps of a direct or a sub-task never pay twice rests on
`NoOverdraft`, `MoneyKept`, `SettledRows` and `EscrowImplementsCustody`. The theorems
remove all these bounds for the properties they cover. Symmetry is declared only
in runs without liveness and over interchangeable processes and peers.

Deadlock is checked in the withdrawal runs. An escrow whose tasks are all paid
out, a final dispute and a drained queue really may stop.

Fairness. The event loop runs each continuation and each timer, so every step of
a call under way and every tick is weakly fair. Beyond that:

- Withdrawals. Strong fairness where the code keeps retrying something the
  network may refuse now and then: claiming over a free lane value, reading a
  finalized status, deciding to kill past the delay, getting the kill out. The operator
  lifts a freeze, and a kill that can land lands. Nothing is assumed of payouts,
  crashes or outside transactions. Without a kill that lands the code never
  decides an unconfirmed payout, by design.
- Escrow. Nothing of the peer: acknowledgements may be lost forever, and a forward
  ends by exhaustion. The liveness properties ask that the freeze be over for good,
  `ClaimSettles` and `EscrowPaidOut` also that a replay pass the door's checks from
  some point on, and `ForwardEnds` that no kill fall between two commits.
  `EscrowPaidOut` speaks of federated tasks that nobody was granted: a granted,
  unanswered one stays locked and flagged.
- Disputes. Windows pass and the worker's cycles run (`WorkerFairness`). Two
  assumptions are of people and not of the code: the operator rules on what waits
  (`OperatorFairness`), and somebody reads the dispute, which is the only way the
  code finalizes it (`ReaderFairness`). No timer does either. `ArbitrationDecided` of
  a dispute the relay adjudicates rests on the first, `ResolvedEnds` on the second,
  `AppealDecided` on both. The properties name what else they need: enough peers, a
  covered claw-back, no freeze.
- Batch. Rail calls return, a queue that is old clears its policy, a row that stays
  firing becomes stale, a freeze is lifted.

### Finding: the retry after a freeze

When the freeze refuses the claim, the row stays `pending` and unqueued, and the
error boundary reopens the key so that "the same-key retry after unfreeze does
the work once" (`middleware.ts:1027`). The retry finds the existing withdrawal,
answers 200 and fires nothing (`budget.ts:820`); the loop looks only at queued and
processing rows. The withdrawal waits for an operator. `withdrawal_retry` is that behaviour.

### Finding: a verdict lost between two commits

The worker marks an orchestration done in one commit and writes the resolution
row in a later one, after it awaited the signature (`disputes.ts:1242`). A crash in
between leaves a dispute in arbitration that no worker cycle lists again; only a new
operator `/resolve` decides it. The specification says the dispute "will eventually
resolve" without one (`spec/dispute-v1.md:253`), and the driver calls itself
"restart-resumable by construction" (`dispute-orchestration.ts:20`).
`dispute_resume` is that behaviour.

### Finding: evidence after the appeal

`/evidence` looks at the dispute's state and window, awaits the signature check
(`disputes.ts:1845`) and inserts the row without a second look. When an appeal commits
during that await, the bundle of an appealed dispute grows, where the comment says
"Once the dispute transitions to `appealed`, round-2 orchestration is in flight and
the bundle freezes" (`disputes.ts:1798`, `spec/dispute-v1.md:360`). `dispute_evidence`
is that behaviour. The per-party cap is not affected: counting and inserting are one
turn.

### Observations

Seen while translating, and in the models as the code has them:

- A forward looks at no allocation status, so the price of a disputed federated
  task is still lent, where `spec/dispute-v1.md:259` says "Funds are locked for the
  duration of the dispute lifecycle". `DisputeLocksEscrow` therefore speaks of the tasks
  the relay settles itself.
- A sub-task's settlement leaves the risk buffer in the settled allocation until
  a dispute distributes it (`spec/delegation-v1.md:197` refunds the excess), so
  `EscrowPaidOut` is not stated of sub-tasks; and a failed answer of a federated
  task still forwards the price (`:198`).
- A replay runs the door's checks again. A claimed answer whose key, route or pin
  changed since is refused every time, its claim and its escrow are kept, and after
  twelve failures it is shown blocked; the operator's record-unrecoverable moves no
  money (`claim-settlement.ts:22`).
- If every acknowledgement of a forward is lost, exhaustion refunds the delegator
  although the peer credited its worker.
- A kill between the retry marked failed and its refund leaves a pending forward
  without a retry, also where the peer is gone (`federation.ts:1469`):
  `PendingForwardHasRetry` and `ForwardEnds` hold when no kill falls there.
- `/appeal` commits a below-quorum split in round 2, while the worker's comment
  says such a split "never overrides a signed round-1 verdict" (`disputes.ts:1351`).
- A federated appeal that a crash or too few peers interrupted stays `appealed`.
- With fewer peers than the quorum the deadline's fallback is not reached, and a
  dispute the relay adjudicates itself has no deadline at all: it waits for the
  operator, where `spec/dispute-v1.md:226` says "Timeout without resolution defaults to
  `split`" and `:444` "No timeout leaves funds in limbo".
- A resolved dispute that nobody reads "stays in `resolved` indefinitely"
  (`disputes.ts:241`), where `spec/dispute-v1.md:50` says it becomes final
  "automatically".

## Proofs

Every safety invariant, action property and refinement that a passing run checks
is a theorem, for all values of the constants: any finite sets of withdrawals,
tasks, rows and accounts, any amounts, any number of concurrent calls, crashes and
freezes. The proofs assume the constants' types, finiteness and what the code
guarantees of its inputs (a positive amount, a fee below the price, a price within
the hold, a client key unique in its account), as the named `ASSUME`s of each
component state.

| Component | Theorem | States |
| --- | --- | --- |
| Withdrawals | `TypeCorrect` | `TypeOK` |
| | `Invariance` | `PayoutInv`, the inductive invariant |
| | `RefundedNeverPaid` | a refunded withdrawal is never paid on chain, before or after the refund |
| | `CompletedPaid` | a completed one was paid |
| | `NonceUnique` | no nonce value is signed for two payouts |
| | `LandsOnClaimedRow` | money leaves only for a row whose claim stands, or one attested paid |
| | `SettledStays` | completed and failed are final |
| | `FreezeHolds` | frozen money does not move |
| | `MoneyKept` | `Conservation`: balances and unrefunded withdrawals add up to the funds |
| | `QueueUnclaimed` | `QueueHoldsOnlyUnclaimed`: queued once, and never once claimed |
| Batch | `TypeCorrect`, `BatchInvariance` | `TypeOK`, and `BatchInv`, the inductive invariant |
| | `NoResend`, `OutcomesLand`, `RefundsAreSafe` | one rail call per row, no lost outcome, no refund of what may land |
| | `QueueConserves` | `BatchConserved`: debited once, refunded at most once, per account |
| | `FreezeHoldsQueue` | frozen, nothing is swept, claimed or refunded |
| Escrow | `EscrowTypes`, `EscrowInvariance` | `TypeOK`, and `EscrowInv`, the inductive invariant |
| | `NoOverdraft`, `SettledRows`, `ReleasedEmpty` | no overdraft, settled exactly with a row, released holds nothing |
| | `MoneyKept` | `MoneyConserved`: accounts, escrows, fees and payouts add up to the funds |
| | `FreezeStops`, `EndedNotSent`, `KeptClaim`, `DisputeLock` | the action properties of the runs |
| | `RetryKept` | `PendingForwardHasRetry`, where no kill falls between two commits |
| | `EscrowImplementsCustody` | the refinement |
| Disputes | `DisputeInvariance`, `DisputeTypes` | `DisputeInv`, the inductive invariant, and `TypeOK` |
| | `MoneyFollowsVerdict`, `WindowKept`, `EvidenceFirst` | the money is the governing verdict; quorum or deadline; evidence first |
| | `DisputeOnward`, `OneFirstVerdict` | never moved back; round 1 is never replaced |

**Withdrawals.** `NeverPaidAndRefunded` is not inductive: nothing in it says why a
payout still in the network cannot land after the refund. `PayoutInv` adds the
reasons:

- `LaneInv`: a nonce value belongs to one payout from its reservation on. The
  reservation in memory covers the gap before the record in the database, and a
  crash that loses the reservation also ends the process that would have signed.
- `ChainInv`: payout and kill of one withdrawal exclude each other, a landed one
  lies behind the lane, and a recorded final status is what the chain holds.
- `FlightInv`: a row in flight is settled by the process sending it and by
  nobody else, so the loop and the operator decide only on attempts that can no
  longer change. In particular an `empty` snapshot stays true until it is used.
- `SettleInv`: a failed row has no recorded payout or one the nonce has passed.

A refund is then safe because the verdict (`VerdictSound`) puts the nonce past
the payout or shows there is none, and no later step can record one. Each
action has its own lemma; the frame lemmas say which part of the invariant depends
on which variables. The queue has an invariant of its own, `QueueInv`, on top of
`PayoutInv`: a fire that is still reading the lane is about a row that is not
claimed and has no record, so what it puts back may be queued.

**Batch.** `RowInv` says what a row's status tells of its send; `TickInv` says that
what a tick holds is its own: firing, in flight in this process, and held by no
other tick. The two together are why recovery, which looks at rows of an earlier
life only, never meets a send.

**Escrow.** `AllocationInv` ties an allocation's status to its settlement row, its
forward and the processes that may still act on it. The hard case is the price of a
forward: it counts as moved while pending or delivered, so a forward that fails gives
it back to an escrow that may by then be released. `RefundInv` shows that the refund
then takes it out in the same commit. `AllocationEscrowSteps` has the types and
one lemma per action, `AllocationEscrowProofs` the properties, `AllocationEscrowRefinement`
the refinement: the initial state maps to `Custody`'s, and each action to one
step of it or to a stutter.

**Disputes.** `DisputeInv` relates the rows to the state (`RowsFollowState`), the
money to the rows (`FundsFollowRows`), and a call under way to both (`CallsKnow`: a
verdict below the quorum is signed only past the deadline, a round-2 call only of an
appealed dispute).

**Sums.** The library defines a sum by recursion over subsets, taking the element
`CHOOSE` gives. `Sums` shows that the order does not matter. Induction theorems with an
operator parameter are out of the provers' reach, so `SubsetInduction` states
induction for the *set* of subsets with a property and is proved by a minimal
counterexample in the well-founded order of strict inclusion. `SumExists` builds a
function that allows any element to go first, `SumIs` identifies it with the
library's sum, and `SumUpdate`, a change at one element changes the sum by as much,
is what every conservation step uses.

**Only model-checked.** The liveness properties `QueuedIsFired`, `ClaimedIsDecided`,
`ClaimSettles`, `ForwardEnds`, `EscrowPaidOut`, `ArbitrationDecided`, `ResolvedEnds`,
`AppealDecided` and `QueueDrains`: fairness and ENABLED are beyond the prover. The three
violation runs are counterexamples, which only TLC gives.

## Not modelled yet

In order of weight: an abstract withdrawal (requested, then exactly one of paid and
refunded) that both payout paths implement; `TaskClaim` (one grant per task, no second
execution of a granted one); x402 settlement with its unknown outcome; federation's
task forwarding and result delivery; anchoring (two passes that both replace a memo);
the event sequence against a client's cursor; deposits (rescan after a restart); then
the small machines: circuit breaker, loop supervisor, host election, plan lease.
`PROJECT.json` lists the hazards of these parts that no property covers.
