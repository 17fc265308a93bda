-------------------------- MODULE WithdrawalPayout --------------------------
(***************************************************************************)
(* Path 0 of the relay's withdrawals: the debit, the claim, the            *)
(* durable-nonce payout on Solana, its kill, the resolution loop, the      *)
(* operator's doors, the emergency freeze, and a crash of the relay at any *)
(* await.                                                                  *)
(*                                                                         *)
(* The relay is one process on a synchronous SQLite connection, so every   *)
(* action is the code between two awaits.  Time is abstracted: a timeout   *)
(* or an elapsed kill delay is a nondeterministic choice.                  *)
(*                                                                         *)
(* The chain is external.  Nonce values are numbered in the order the      *)
(* lane takes them, and a finalized slot is represented by the value it    *)
(* holds: a read with minContextSlot taken at value f returns some value   *)
(* in f..nonce, because a node may lag but never below the floor.          *)
(***************************************************************************)
EXTENDS Integers, Sequences, FiniteSets, Functions

CONSTANTS
  W,            \* withdrawal requests, one Idempotency-Key each
  Account,      \* virtual accounts
  Owner,        \* [W -> Account]
  Amount,       \* [W -> micro-units requested]
  Funds,        \* [Account -> initial balance]
  Operated,     \* bound: the withdrawals the operator acts on
  Swept,        \* bound: the requests whose key the 24 h sweep reaches
  MaxExternal,  \* bound: nonce values an unrecorded transaction may consume
  MaxCrashes,   \* bound: crashes of the relay
  MaxFreezes    \* bound: emergency freezes

ASSUME WithdrawalsFinite == IsFiniteSet(W)
ASSUME AccountsFinite == IsFiniteSet(Account)
ASSUME OwnerType == Owner \in [W -> Account]
ASSUME AmountPositive == Amount \in [W -> Nat \ {0}]
ASSUME FundsType == Funds \in [Account -> Nat]
ASSUME OperatedType == Operated \subseteq W /\ Swept \subseteq W
ASSUME BoundsType == MaxExternal \in Nat /\ MaxCrashes \in Nat /\ MaxFreezes \in Nat

\* No nonce value: the row records no payout.
None == -1
Nonce == Nat

Statuses == {"none", "pending", "processing", "completed", "failed"}
Finals == {"null", "ok", "err"}

VARIABLES
  \* the database
  status,       \* relay_withdrawals.status; "none" before the row exists
  balance,      \* relay_accounts.balance
  idem,         \* relay_idempotency_keys.status of the request's key
  chainClaim,   \* relay_withdrawal_chain_claims
  queue,        \* relay_withdrawal_payout_queue, oldest first
  payNonce,     \* attempts: the nonce value of the recorded payout, or None
  earlier,      \* attempts: the values recorded before that payout was
  killRec,      \* attempts: a kill over payNonce is recorded
  payFinal,     \* attempts: the payout's recorded final_status
  killFinal,    \* attempts: the kill's recorded final_status
  frozen,       \* the persisted freeze row
  \* the process, lost in a crash
  firePc,       \* firePathZero of each withdrawal
  fireLane,     \* the lane-read floor, then the nonce value it claimed
  routePc,      \* POST /withdraw of each request: idle, reading its body, firing
  inFlight,     \* payoutsInFlight
  reserved,     \* reservedNonces
  loopPc,       \* the loop's resolveWithdrawal of each withdrawal
  opPc,         \* the operator's open request on each withdrawal
  opAsk,        \* what that request asks for
  loop,         \* the resolution loop's tick
  loopQ,        \* the queue rows this tick has still to fire
  todo,         \* the processing rows this tick has still to resolve
  \* the chain
  nonce,        \* the finalized nonce value of the lane
  net,          \* broadcast transactions that may still land
  payLanded,    \* finalized status of each payout
  killLanded,   \* a kill of that payout finalized
  \* history, read by properties only
  attested,     \* the operator's word a row was settled on, if not on chain facts
  external, crashes, freezes

ledger  == <<status, balance>>
attempt == <<payNonce, earlier, killRec>>
finals  == <<payFinal, killFinal>>
fire    == <<firePc, fireLane, routePc, inFlight, reserved>>
ticking == <<loop, loopQ, todo>>
oper    == <<opPc, opAsk>>
chain   == <<nonce, net, payLanded, killLanded>>
bounds  == <<external, crashes, freezes>>
vars == <<status, balance, idem, chainClaim, queue, payNonce, earlier, killRec,
          payFinal, killFinal, frozen, firePc, fireLane, routePc, inFlight,
          reserved, loopPc, opPc, opAsk, loop, loopQ, todo, nonce, net, payLanded,
          killLanded, attested, external, crashes, freezes>>

FirePcs == {"idle", "lane", "send", "broadcast", "empty", "read", "known", "sign"}
ResPcs  == {"idle", "empty", "read", "known", "sign", "kill", "manual"}
OpAsks  == {"paid", "not_paid", "attested"}
Words   == {"none", "complete", "paid", "not_paid"}
Tx      == {"pay", "kill"} \X W

Init ==
  /\ status = [w \in W |-> "none"] /\ balance = Funds
  /\ idem = [w \in W |-> "none"] /\ chainClaim = {} /\ queue = <<>>
  /\ payNonce = [w \in W |-> None] /\ earlier = [w \in W |-> {}]
  /\ killRec = [w \in W |-> FALSE]
  /\ payFinal = [w \in W |-> "null"] /\ killFinal = [w \in W |-> "null"]
  /\ frozen = FALSE
  /\ firePc = [w \in W |-> "idle"] /\ fireLane = [w \in W |-> 0]
  /\ routePc = [w \in W |-> "idle"] /\ inFlight = {} /\ reserved = {}
  /\ loopPc = [w \in W |-> "idle"] /\ opPc = [w \in W |-> "idle"]
  /\ opAsk = [w \in W |-> "paid"]
  /\ loop = "resolve" /\ loopQ = <<>> /\ todo = {}
  /\ nonce = 0 /\ net = {}
  /\ payLanded = [w \in W |-> "null"] /\ killLanded = [w \in W |-> FALSE]
  /\ attested = [w \in W |-> "none"] /\ external = 0 /\ crashes = 0 /\ freezes = 0
-----------------------------------------------------------------------------
(* Store operations *)


\* Mutant: the refund without its compare-and-set.
FailAndRefund_NoCas(w, from) ==
  /\ status[w] # "none" /\ ~frozen
  /\ status' = [status EXCEPT ![w] = "failed"]
  /\ balance' = [balance EXCEPT ![Owner[w]] = @ + Amount[w]]

\* Mutant: the refund without the freeze's balance guard.
FailAndRefund_NoGuard(w, from) ==
  /\ status[w] = from
  /\ status' = [status EXCEPT ![w] = "failed"]
  /\ balance' = [balance EXCEPT ![Owner[w]] = @ + Amount[w]]

\* failWithdrawalAndRefund: the compare-and-set and the credit are one
\* transaction, which the freeze's balance guard refuses.
FailAndRefund(w, from) ==
  /\ status[w] = from /\ ~frozen
  /\ status' = [status EXCEPT ![w] = "failed"]
  /\ balance' = [balance EXCEPT ![Owner[w]] = @ + Amount[w]]


\* Mutant: the completion also takes a row the loop claimed meanwhile.
Complete_NoCas(w, from) ==
  /\ status[w] \in {from, "processing"} /\ (from = "pending" => ~frozen)
  /\ status' = [status EXCEPT ![w] = "completed"]
  /\ UNCHANGED balance

\* setWithdrawalCompletion: a compare-and-set; the freeze guards only the
\* rows that leave `pending`.
Complete(w, from) ==
  /\ status[w] = from /\ (from = "pending" => ~frozen)
  /\ status' = [status EXCEPT ![w] = "completed"]
  /\ UNCHANGED balance

\* The nonce values recorded transactions carry.
RecordedNonces == {payNonce[w] : w \in W} \ {None}

\* Mutant: no case for an empty attempts table.
laneReadFloor_NoRows ==
  {n \in RecordedNonces \cup {None} : \A m \in RecordedNonces : n >= m}

\* The one floor of a lane read: the highest recorded observation, if any.
laneReadFloor ==
  IF RecordedNonces = {} THEN {0}
  ELSE {n \in RecordedNonces : \A m \in RecordedNonces : n >= m}

isNonceValueUsed(n) == n \in RecordedNonces

enqueuePayout(w) == queue' = IF w \in Range(queue) THEN queue ELSE Append(queue, w)

\* A delete by the primary key: at most one row goes, the others keep their order.
dequeuePayout(w) ==
  queue' = IF w \notin Range(queue) THEN queue
           ELSE LET k == CHOOSE i \in DOMAIN queue : queue[i] = w
                IN  [i \in 1..(Len(queue) - 1) |-> queue[IF i < k THEN i ELSE i + 1]]

\* getPayoutAttempts at the start of a verdict: no attempt recorded, attempts
\* with no final_status yet, or some final_status already recorded.
Snapshot(w) ==
  IF payNonce[w] = None THEN "empty"
  ELSE IF payFinal[w] = "null" /\ killFinal[w] = "null" THEN "read" ELSE "known"

\* The final_status of the payout and of the kill once the reads are in.  A
\* node may answer absent, below finality or with an error, which leaves null;
\* what another reader records meanwhile is not in the snapshot.
PayReads(w, pc)  == {IF pc = "known" THEN payFinal[w] ELSE "null"} \cup
                    (IF payFinal[w] = "null" \/ pc = "read" THEN {payLanded[w]} ELSE {})
KillReads(w, pc) == {IF pc = "known" THEN killFinal[w] ELSE "null"} \cup
                    (IF killRec[w] /\ killLanded[w] THEN {"ok"} ELSE {})


\* Mutant: any finalized payout counts as paid, a failed one included.
Verdict_FinalIsPaid(pc, pf, kf) ==
  IF pc = "empty" THEN "no_broadcast"
  ELSE IF pf # "null" THEN "paid" ELSE IF kf # "null" THEN "killed" ELSE "undecided"

Verdict(pc, pf, kf) ==
  IF pc = "empty" THEN "no_broadcast"
  ELSE CASE pf = "ok"  -> "paid"
         [] pf = "err" -> "payout_failed"
         [] pf = "null" /\ kf # "null" -> "killed"
         [] pf = "null" /\ kf = "null" -> "undecided"

NotPaid == {"no_broadcast", "payout_failed", "killed"}

\* readChainVerdict: what the snapshot and the reads prove.  A finalized
\* status is recorded once.
readChainVerdict(w, pc, v) ==
  \E pf \in PayReads(w, pc), kf \in KillReads(w, pc) :
    /\ pc \in {"empty", "read", "known"} /\ v = Verdict(pc, pf, kf)
    /\ payFinal' = [payFinal EXCEPT ![w] = IF @ # "null" \/ pc = "empty" THEN @ ELSE pf]
    /\ killFinal' = [killFinal EXCEPT ![w] = IF @ # "null" \/ pc = "empty" THEN @ ELSE kf]
-----------------------------------------------------------------------------
(* POST /withdraw, up to firePathZero's lane read *)

\* checkIdempotency inserts the key; the body is then awaited.
WithdrawBegin(w) ==
  /\ idem[w] = "none" /\ ~frozen
  /\ idem' = [idem EXCEPT ![w] = "processing"]
  /\ routePc' = [routePc EXCEPT ![w] = "body"]
  /\ UNCHANGED <<ledger, chainClaim, queue, attempt, finals, frozen, firePc, fireLane,
                 inFlight, reserved, loopPc, oper, ticking, chain, attested, bounds>>

\* requestWithdrawal debits and records in one transaction, and the route goes
\* straight on to firePathZero, which finds the row pending.
Withdraw(w) ==
  /\ routePc[w] = "body" /\ status[w] = "none" /\ ~frozen
  /\ balance[Owner[w]] >= Amount[w]
  /\ status' = [status EXCEPT ![w] = "pending"]
  /\ balance' = [balance EXCEPT ![Owner[w]] = @ - Amount[w]]
  /\ firePc' = [firePc EXCEPT ![w] = "lane"]
  /\ \E n \in laneReadFloor : fireLane' = [fireLane EXCEPT ![w] = n]
  /\ routePc' = [routePc EXCEPT ![w] = "fire"]
  /\ UNCHANGED <<idem, chainClaim, queue, attempt, finals, frozen, inFlight, reserved,
                 loopPc, oper, ticking, chain, attested, bounds>>

\* Answered without firing: 402 on insufficient balance and 200 with a
\* withdrawal that already exists are recorded under the key; a debit the
\* freeze refuses reopens it.
WithdrawAnswered(w) ==
  /\ routePc[w] = "body"
  /\ \/ /\ status[w] # "none" \/ balance[Owner[w]] < Amount[w]
        /\ idem' = [idem EXCEPT ![w] = "completed"]
     \/ /\ status[w] = "none" /\ balance[Owner[w]] >= Amount[w] /\ frozen
        /\ idem' = [idem EXCEPT ![w] = "none"]
  /\ routePc' = [routePc EXCEPT ![w] = "idle"]
  /\ UNCHANGED <<ledger, chainClaim, queue, attempt, finals, frozen, firePc, fireLane,
                 inFlight, reserved, loopPc, oper, ticking, chain, attested, bounds>>

\* The 24 h sweep, long after the key's request ended.
cleanupIdempotencyKeys(w) ==
  /\ w \in Swept /\ idem[w] # "none" /\ routePc[w] = "idle"
  /\ idem' = [idem EXCEPT ![w] = "none"]
  /\ UNCHANGED <<ledger, chainClaim, queue, attempt, finals, frozen, fire,
                 loopPc, oper, ticking, chain, attested, bounds>>
-----------------------------------------------------------------------------
(* firePathZero *)

\* firePathZero returns; the route then records its answer under the key, or
\* the error boundary reopens the key when the freeze refused the write.
Answer(w, frozeIt) ==
  /\ firePc' = [firePc EXCEPT ![w] = "idle"] /\ fireLane' = [fireLane EXCEPT ![w] = 0]
  /\ IF routePc[w] = "fire"
     THEN /\ routePc' = [routePc EXCEPT ![w] = "idle"]
          /\ idem' = [idem EXCEPT ![w] = IF frozeIt THEN "none" ELSE "completed"]
     ELSE UNCHANGED <<routePc, idem>>

\* Lane unavailable or squatted, or its value is reserved or recorded: the
\* withdrawal is queued and stays pending.
FireBusy(w) ==
  /\ firePc[w] = "lane"
  /\ enqueuePayout(w)
  /\ Answer(w, FALSE)
  /\ UNCHANGED <<ledger, chainClaim, attempt, finals, frozen, inFlight,
                 reserved, loopPc, oper, ticking, chain, attested, bounds>>


\* Mutant: the busy check looks only at recorded transactions.
Free_NoReservation(n) == ~isNonceValueUsed(n)

\* A lane value the busy check lets through.
Free(n) == n \notin reserved /\ ~isNonceValueUsed(n)


\* Mutant: the claim does not dequeue.
FireClaim_NoDequeue(w) ==
  /\ firePc[w] = "lane" /\ status[w] = "pending" /\ ~frozen
  /\ \E n \in fireLane[w]..nonce :
       /\ Free(n)
       /\ fireLane' = [fireLane EXCEPT ![w] = n]
       /\ reserved' = reserved \cup {n}
  /\ status' = [status EXCEPT ![w] = "processing"]
  /\ chainClaim' = chainClaim \cup {w}
  /\ inFlight' = inFlight \cup {w}
  /\ firePc' = [firePc EXCEPT ![w] = "send"]
  /\ UNCHANGED <<balance, idem, queue, attempt, finals, frozen, routePc, loopPc, oper,
                 ticking, chain, attested, bounds>>

\* The claim, the chain marker and the dequeue are one transaction; the
\* reservation follows with no await between.
FireClaim(w) ==
  /\ firePc[w] = "lane" /\ status[w] = "pending" /\ ~frozen
  /\ \E n \in fireLane[w]..nonce :
       /\ Free(n)
       /\ fireLane' = [fireLane EXCEPT ![w] = n]
       /\ reserved' = reserved \cup {n}
  /\ status' = [status EXCEPT ![w] = "processing"]
  /\ chainClaim' = chainClaim \cup {w}
  /\ dequeuePayout(w)
  /\ inFlight' = inFlight \cup {w}
  /\ firePc' = [firePc EXCEPT ![w] = "send"]
  /\ UNCHANGED <<balance, idem, attempt, finals, frozen, routePc, loopPc, oper,
                 ticking, chain, attested, bounds>>

\* The claim found the row settled by the operator: dequeued, nothing sent.
FireClaimLost(w) ==
  /\ firePc[w] = "lane" /\ status[w] # "pending"
  /\ \E n \in fireLane[w]..nonce : Free(n)
  /\ dequeuePayout(w)
  /\ Answer(w, FALSE)
  /\ UNCHANGED <<ledger, chainClaim, attempt, finals, frozen, inFlight,
                 reserved, loopPc, oper, ticking, chain, attested, bounds>>

\* The freeze landed during the lane read: the claim rolls back, and the
\* queue stays as it was.
FireClaimFrozen(w) ==
  /\ firePc[w] = "lane" /\ status[w] = "pending" /\ frozen
  /\ \E n \in fireLane[w]..nonce : Free(n)
  /\ Answer(w, TRUE)
  /\ UNCHANGED <<ledger, chainClaim, queue, attempt, finals, frozen,
                 inFlight, reserved, loopPc, oper, ticking, chain, attested, bounds>>


\* Mutant: the reservation is not released when the send throws.
FireThrew_Leak(w) ==
  /\ firePc[w] = "send"
  /\ firePc' = [firePc EXCEPT ![w] = Snapshot(w)]
  /\ UNCHANGED <<ledger, idem, chainClaim, queue, attempt, finals, frozen, fireLane,
                 routePc, inFlight, reserved, loopPc, oper, ticking, chain, attested,
                 bounds>>

\* sendPayout threw before its transaction was recorded.  resolveWithdrawal
\* follows; no other step moves or records a row in flight, so its snapshot
\* is taken here.
FireThrew(w) ==
  /\ firePc[w] = "send"
  /\ reserved' = reserved \ {fireLane[w]}
  /\ firePc' = [firePc EXCEPT ![w] = Snapshot(w)]
  /\ UNCHANGED <<ledger, idem, chainClaim, queue, attempt, finals, frozen, fireLane,
                 routePc, inFlight, loopPc, oper, ticking, chain, attested, bounds>>

\* beforeBroadcast: recordDurableAttempt, with the value it was signed over.
FireRecord(w) ==
  /\ firePc[w] = "send"
  /\ payNonce' = [payNonce EXCEPT ![w] = fireLane[w]]
  /\ earlier' = [earlier EXCEPT ![w] = RecordedNonces]
  /\ firePc' = [firePc EXCEPT ![w] = "broadcast"]
  /\ UNCHANGED <<ledger, idem, chainClaim, queue, killRec, finals, frozen, fireLane,
                 routePc, inFlight, reserved, loopPc, oper, ticking, chain,
                 attested, bounds>>

\* sendRawTransaction: the RPC may or may not have forwarded it.  After the
\* bounded wait for finality, which decides nothing, resolveWithdrawal.
FireBroadcast(w) ==
  /\ firePc[w] = "broadcast"
  /\ net' \in {net, net \cup {<<"pay", w>>}}
  /\ reserved' = reserved \ {fireLane[w]}
  /\ firePc' = [firePc EXCEPT ![w] = Snapshot(w)]
  /\ UNCHANGED <<ledger, idem, chainClaim, queue, attempt, finals, frozen, fireLane,
                 routePc, inFlight, loopPc, oper, ticking, nonce, payLanded,
                 killLanded, attested, bounds>>

\* The end of firePathZero: releasePayout, then the route's answer.
FireEnd(w, frozeIt) ==
  /\ inFlight' = inFlight \ {w}
  /\ Answer(w, frozeIt)
  /\ UNCHANGED <<chainClaim, queue, attempt, frozen, reserved, loopPc,
                 oper, ticking, chain, attested, bounds>>

\* The verdict proves the payout unpaid: refund, or leave it for after the
\* freeze.  The compare-and-sets here always win (Flight).
FireRefund(w) ==
  /\ \E v \in NotPaid : readChainVerdict(w, firePc[w], v)
  /\ \/ FailAndRefund(w, "processing") /\ FireEnd(w, FALSE)
     \/ frozen /\ UNCHANGED ledger /\ FireEnd(w, TRUE)

\* Undecided: noted on the row, left to the loop.
FireUndecided(w) ==
  /\ readChainVerdict(w, firePc[w], "undecided")
  /\ FireEnd(w, FALSE) /\ UNCHANGED ledger

\* Paid: the receipt is signed (an await) before the row is completed.
FirePaid(w) ==
  /\ readChainVerdict(w, firePc[w], "paid")
  /\ firePc' = [firePc EXCEPT ![w] = "sign"]
  /\ UNCHANGED <<ledger, idem, chainClaim, queue, attempt, frozen, fireLane,
                 routePc, inFlight, reserved, loopPc, oper, ticking, chain,
                 attested, bounds>>

FireComplete(w) ==
  /\ firePc[w] = "sign"
  /\ Complete(w, "processing")
  /\ FireEnd(w, FALSE) /\ UNCHANGED finals
-----------------------------------------------------------------------------
(* The resolution loop: resolvePayoutsOnce, single-flight *)


\* Mutant: the scan joins the attempts table, not the chain claims.
LoopGo_AttemptsOnly(q) ==
  /\ loopQ' = q
  /\ IF q = <<>>
     THEN /\ loop' = "resolve"
          /\ todo' = {w \in chainClaim : status[w] = "processing" /\ payNonce[w] # None}
     ELSE loop' = "queue" /\ UNCHANGED todo

\* The tick goes on with the queued rows q, or scans the processing rows.
LoopGo(q) ==
  /\ loopQ' = q
  /\ IF q = <<>>
     THEN /\ loop' = "resolve"
          /\ todo' = {w \in chainClaim : status[w] = "processing"}
     ELSE loop' = "queue" /\ UNCHANGED todo

LoopTick ==
  /\ loop = "resolve" /\ todo = {} /\ \A w \in W : loopPc[w] = "idle"
  /\ ~frozen
  /\ LoopGo(queue)
  /\ UNCHANGED <<ledger, idem, chainClaim, queue, attempt, finals, frozen, fire,
                 loopPc, oper, chain, attested, bounds>>

\* firePathZero of the oldest queued row; a row no longer pending is dequeued.
LoopFire ==
  /\ loop = "queue"
  /\ LET w == Head(loopQ) IN
     \/ /\ status[w] = "pending" /\ firePc[w] = "idle"
        /\ firePc' = [firePc EXCEPT ![w] = "lane"]
        /\ \E n \in laneReadFloor : fireLane' = [fireLane EXCEPT ![w] = n]
        /\ loop' = "firing" /\ UNCHANGED <<queue, loopQ, todo>>
     \/ /\ status[w] # "pending"
        /\ dequeuePayout(w)
        /\ LoopGo(Tail(loopQ)) /\ UNCHANGED <<firePc, fireLane>>
  /\ UNCHANGED <<ledger, idem, chainClaim, attempt, finals, frozen, routePc, inFlight,
                 reserved, loopPc, oper, chain, attested, bounds>>

\* The fired row still pending means the lane is busy: stop firing.
LoopFired ==
  /\ loop = "firing" /\ firePc[Head(loopQ)] = "idle"
  /\ LoopGo(IF status[Head(loopQ)] = "pending" THEN <<>> ELSE Tail(loopQ))
  /\ UNCHANGED <<ledger, idem, chainClaim, queue, attempt, finals, frozen, fire,
                 loopPc, oper, chain, attested, bounds>>

\* resolveWithdrawal, not inline: a row in flight here, or settled since the
\* scan, is left alone.
LoopResolve(w) ==
  /\ loop = "resolve" /\ w \in todo
  /\ todo' = todo \ {w}
  /\ loopPc' = IF status[w] = "processing" /\ w \notin inFlight
               THEN [loopPc EXCEPT ![w] = Snapshot(w)] ELSE loopPc
  /\ UNCHANGED <<ledger, idem, chainClaim, queue, attempt, finals, frozen, fire,
                 oper, loop, loopQ, chain, attested, bounds>>

LoopStep(w, pc) ==
  /\ loopPc' = [loopPc EXCEPT ![w] = pc]
  /\ UNCHANGED <<idem, chainClaim, queue, frozen, fire, oper, ticking, attested, bounds>>

\* Refunded from chain facts.  The write is lost when the row left
\* processing during the reads, and refused while frozen.
LoopRefund(w) ==
  /\ \E v \in NotPaid : readChainVerdict(w, loopPc[w], v)
  /\ \/ FailAndRefund(w, "processing")
     \/ (status[w] # "processing" \/ frozen) /\ UNCHANGED ledger
  /\ LoopStep(w, "idle") /\ UNCHANGED <<attempt, chain>>

\* Undecided: wait, or, past killAfterMs, read the payout's nonce to kill it.
LoopUndecided(w) ==
  /\ readChainVerdict(w, loopPc[w], "undecided")
  /\ \E pc \in {"idle", "kill"} : LoopStep(w, pc)
  /\ UNCHANGED <<ledger, attempt, chain>>

LoopPaid(w) ==
  /\ readChainVerdict(w, loopPc[w], "paid")
  /\ LoopStep(w, "sign") /\ UNCHANGED <<ledger, attempt, chain>>


\* Mutant: the loop completes whatever status it finds.
LoopComplete_NoCas(w) ==
  /\ loopPc[w] = "sign"
  /\ status' = [status EXCEPT ![w] = "completed"]
  /\ LoopStep(w, "idle") /\ UNCHANGED <<balance, attempt, finals, chain>>

LoopComplete(w) ==
  /\ loopPc[w] = "sign"
  /\ Complete(w, "processing") \/ (status[w] # "processing" /\ UNCHANGED ledger)
  /\ LoopStep(w, "idle") /\ UNCHANGED <<attempt, finals, chain>>

\* requestKill with the nonce read in: over the payout's own value the kill is
\* recorded, then broadcast (the RPC may refuse it).
BroadcastKill(w) ==
  /\ nonce >= payNonce[w]
  /\ killRec' = [killRec EXCEPT ![w] = TRUE]
  /\ net' \in {net, net \cup {<<"kill", w>>}}
  /\ UNCHANGED <<payNonce, earlier, nonce, payLanded, killLanded>>

\* A different value at or past the payout's slot, and none that was recorded
\* before it: the nonce is provably past the payout.
Consumed(w) == \E n \in payNonce[w]..nonce : n # payNonce[w] /\ n \notin earlier[w]

\* The loop's kill: sent, or the read proves nothing it can act on.
LoopKill(w) ==
  /\ loopPc[w] = "kill"
  /\ BroadcastKill(w) \/ UNCHANGED <<attempt, chain>>
  /\ LoopStep(w, "idle") /\ UNCHANGED <<ledger, finals>>
-----------------------------------------------------------------------------
(***************************************************************************)
(* The operator's doors.  The freeze refuses a request at entry, before    *)
(* its body is awaited: a request that arrived earlier goes on, so a door  *)
(* has no guard of its own beyond those of its writes.                     *)
(***************************************************************************)

OpStep(w, pc, ask) ==
  /\ opPc' = [opPc EXCEPT ![w] = pc] /\ opAsk' = [opAsk EXCEPT ![w] = ask]
  /\ UNCHANGED <<idem, chainClaim, queue, frozen, fire, loopPc, ticking, bounds>>

\* /complete signs the receipt first; the row may be claimed meanwhile.
AdminComplete(w) ==
  /\ w \in Operated /\ opPc[w] = "idle" /\ status[w] = "pending"
  /\ OpStep(w, "manual", "paid")
  /\ UNCHANGED <<ledger, attempt, finals, chain, attested>>

AdminCompleteSigned(w) ==
  /\ opPc[w] = "manual"
  /\ \/ Complete(w, "pending") /\ attested' = [attested EXCEPT ![w] = "complete"]
     \/ (status[w] # "pending" \/ frozen) /\ UNCHANGED <<ledger, attested>>
  /\ OpStep(w, "idle", "paid") /\ UNCHANGED <<attempt, finals, chain>>

AdminFail(w) ==
  /\ w \in Operated /\ opPc[w] = "idle"
  /\ FailAndRefund(w, "pending")
  /\ OpStep(w, "idle", "paid") /\ UNCHANGED <<attempt, finals, chain, attested>>


\* Mutant: /reconcile does not refuse a payout in flight here.
Reconcile_InFlight(w) ==
  /\ w \in Operated /\ opPc[w] = "idle" /\ status[w] = "processing"
  /\ \E ask \in {"paid", "not_paid"} : OpStep(w, Snapshot(w), ask)
  /\ UNCHANGED <<ledger, attempt, finals, chain, attested>>

\* /reconcile: a processing row this process does not hold in flight.
Reconcile(w) ==
  /\ w \in Operated /\ opPc[w] = "idle" /\ status[w] = "processing" /\ w \notin inFlight
  /\ \E ask \in {"paid", "not_paid"} : OpStep(w, Snapshot(w), ask)
  /\ UNCHANGED <<ledger, attempt, finals, chain, attested>>

\* The chain proves it unpaid and the operator agrees: refund.
ReconcileNotPaid(w) ==
  /\ opAsk[w] # "paid"
  /\ \E v \in NotPaid : readChainVerdict(w, opPc[w], v)
  /\ \/ FailAndRefund(w, "processing")
     \/ (status[w] # "processing" \/ frozen) /\ UNCHANGED ledger
  /\ OpStep(w, "idle", "paid") /\ UNCHANGED <<attempt, chain, attested>>

\* The operator's outcome contradicts the chain, names a transaction that is
\* not the payout, or one is seen below finality: 409.
ReconcileRefused(w) ==
  /\ \/ opAsk[w] = "paid" /\ \E v \in NotPaid \cup {"paid", "undecided"} :
                               readChainVerdict(w, opPc[w], v)
     \/ opAsk[w] # "paid" /\ readChainVerdict(w, opPc[w], "paid")
  /\ OpStep(w, "idle", "paid") /\ UNCHANGED <<ledger, attempt, chain, attested>>

\* Paid on chain, or the operator attests a recorded payout the chain leaves
\* undecided: the receipt is signed.
ReconcilePaid(w) ==
  /\ opAsk[w] = "paid"
  /\ \E v \in {"paid", "undecided"} :
       /\ readChainVerdict(w, opPc[w], v)
       /\ OpStep(w, "sign", IF v = "paid" THEN "paid" ELSE "attested")
  /\ UNCHANGED <<ledger, attempt, chain, attested>>

ReconcileSigned(w) ==
  /\ opPc[w] = "sign"
  /\ \/ /\ Complete(w, "processing")
        /\ attested' = [attested EXCEPT ![w] = IF opAsk[w] = "paid" THEN @ ELSE "paid"]
     \/ status[w] # "processing" /\ UNCHANGED <<ledger, attested>>
  /\ OpStep(w, "idle", "paid") /\ UNCHANGED <<attempt, finals, chain>>

\* `not_paid` on an undecided payout goes for its kill.
ReconcileUndecided(w) ==
  /\ opAsk[w] # "paid"
  /\ readChainVerdict(w, opPc[w], "undecided")
  /\ OpStep(w, "kill", "not_paid") /\ UNCHANGED <<ledger, attempt, chain, attested>>

ReconcileKill(w) ==
  /\ opPc[w] = "kill"
  /\ BroadcastKill(w) \/ UNCHANGED <<attempt, chain>>
  /\ OpStep(w, "idle", "paid") /\ UNCHANGED <<ledger, finals, attested>>

\* override nonce_consumed_unrecorded: refunded on the operator's word that a
\* payout that can no longer land never did.
ReconcileOverride(w) ==
  /\ opPc[w] = "kill" /\ Consumed(w)
  /\ \/ /\ FailAndRefund(w, "processing")
        /\ attested' = [attested EXCEPT ![w] = "not_paid"]
     \/ (status[w] # "processing" \/ frozen) /\ UNCHANGED <<ledger, attested>>
  /\ OpStep(w, "idle", "paid") /\ UNCHANGED <<attempt, finals, chain>>
-----------------------------------------------------------------------------
(* The chain *)

\* Broadcast transactions that can still land once the lane holds value n.
Landable(n) == {t \in net : payNonce[t[2]] >= n}

\* A transaction over the lane's current value lands and advances the nonce,
\* whether or not its transfer succeeds.
LandPayout(w) ==
  /\ <<"pay", w>> \in net /\ payNonce[w] = nonce
  /\ \E r \in {"ok", "err"} : payLanded' = [payLanded EXCEPT ![w] = r]
  /\ nonce' = nonce + 1 /\ net' = Landable(nonce + 1)
  /\ UNCHANGED <<ledger, idem, chainClaim, queue, attempt, finals, frozen, fire,
                 loopPc, oper, ticking, killLanded, attested, bounds>>

LandKill(w) ==
  /\ <<"kill", w>> \in net /\ payNonce[w] = nonce
  /\ killLanded' = [killLanded EXCEPT ![w] = TRUE]
  /\ nonce' = nonce + 1 /\ net' = Landable(nonce + 1)
  /\ UNCHANGED <<ledger, idem, chainClaim, queue, attempt, finals, frozen, fire,
                 loopPc, oper, ticking, payLanded, attested, bounds>>

\* Another holder of the treasury key advances the nonce.
ExternalAdvance ==
  /\ external < MaxExternal /\ external' = external + 1
  /\ nonce' = nonce + 1 /\ net' = Landable(nonce + 1)
  /\ UNCHANGED <<ledger, idem, chainClaim, queue, attempt, finals, frozen, fire, loopPc,
                 oper, ticking, payLanded, killLanded, attested, crashes, freezes>>
-----------------------------------------------------------------------------
(* Freeze and crash *)

Freeze ==
  /\ ~frozen /\ freezes < MaxFreezes
  /\ frozen' = TRUE /\ freezes' = freezes + 1
  /\ UNCHANGED <<ledger, idem, chainClaim, queue, attempt, finals, fire, loopPc, oper,
                 ticking, chain, attested, external, crashes>>

Unfreeze ==
  /\ frozen /\ frozen' = FALSE
  /\ UNCHANGED <<ledger, idem, chainClaim, queue, attempt, finals, fire, loopPc, oper,
                 ticking, chain, attested, bounds>>

\* The process dies and restarts: its open requests, the loop, payoutsInFlight
\* and reservedNonces are gone; the database and the chain are not.
Crash ==
  /\ crashes < MaxCrashes /\ crashes' = crashes + 1
  /\ firePc' = [w \in W |-> "idle"] /\ fireLane' = [w \in W |-> 0]
  /\ routePc' = [w \in W |-> "idle"] /\ inFlight' = {} /\ reserved' = {}
  /\ loopPc' = [w \in W |-> "idle"] /\ opPc' = [w \in W |-> "idle"]
  /\ opAsk' = [w \in W |-> "paid"]
  /\ loop' = "resolve" /\ loopQ' = <<>> /\ todo' = {}
  /\ UNCHANGED <<ledger, idem, chainClaim, queue, attempt, finals, frozen, chain,
                 attested, external, freezes>>
-----------------------------------------------------------------------------
RouteNext(w) == Withdraw(w) \/ WithdrawAnswered(w)

FireNext(w) ==
  \/ FireBusy(w) \/ FireClaim(w) \/ FireClaimLost(w) \/ FireClaimFrozen(w)
  \/ FireThrew(w) \/ FireRecord(w) \/ FireBroadcast(w)
  \/ FireRefund(w) \/ FireUndecided(w) \/ FirePaid(w) \/ FireComplete(w)

TickNext == LoopTick \/ LoopFire \/ LoopFired

LoopNext(w) ==
  \/ LoopResolve(w) \/ LoopRefund(w) \/ LoopUndecided(w) \/ LoopPaid(w)
  \/ LoopComplete(w) \/ LoopKill(w)

\* The steps that carry an operator's open request to its answer.
OpNext(w) ==
  \/ AdminCompleteSigned(w) \/ ReconcileNotPaid(w) \/ ReconcileRefused(w)
  \/ ReconcilePaid(w) \/ ReconcileSigned(w) \/ ReconcileUndecided(w)
  \/ ReconcileKill(w) \/ ReconcileOverride(w)

OperatorNext(w) == AdminComplete(w) \/ AdminFail(w) \/ Reconcile(w)

ChainNext(w) == LandPayout(w) \/ LandKill(w)

Next ==
  \/ \E w \in W : \/ WithdrawBegin(w) \/ cleanupIdempotencyKeys(w)
                  \/ RouteNext(w) \/ FireNext(w) \/ LoopNext(w)
                  \/ OpNext(w) \/ OperatorNext(w) \/ ChainNext(w)
  \/ TickNext \/ ExternalAdvance \/ Freeze \/ Unfreeze \/ Crash

Spec == Init /\ [][Next]_vars

(***************************************************************************)
(* Fairness.  The event loop runs every continuation, so each step of a    *)
(* fire, a tick or an open request is weakly fair.  Strong fairness is     *)
(* asked of what the code only retries: a lane read that finds a free      *)
(* value, a status read that sees what is finalized, a kill past its delay *)
(* that reaches the network.  The operator lifts a freeze and a kill that  *)
(* can land lands; nothing is asked of payouts or of outside transactions. *)
(***************************************************************************)
SendsKill(w) == LoopKill(w) /\ <<"kill", w>> \in net'

Fairness ==
  /\ WF_vars(TickNext) /\ WF_vars(Unfreeze)
  /\ \A w \in W :
       /\ WF_vars(RouteNext(w)) /\ WF_vars(FireNext(w)) /\ WF_vars(LoopNext(w)) /\ WF_vars(OpNext(w))
       /\ SF_vars(FireClaim(w))
       /\ SF_vars(LoopRefund(w)) /\ SF_vars(LoopPaid(w))
       /\ SF_vars(LoopUndecided(w) /\ loopPc'[w] = "kill") /\ SF_vars(SendsKill(w))
       /\ WF_vars(LandKill(w))

FairSpec == Spec /\ Fairness
-----------------------------------------------------------------------------
(* Properties *)

TypeOK ==
  /\ status \in [W -> Statuses] /\ balance \in [Account -> Int]
  /\ idem \in [W -> {"none", "processing", "completed"}] /\ chainClaim \subseteq W
  /\ payNonce \in [W -> Nonce \cup {None}] /\ earlier \in [W -> SUBSET Nonce]
  /\ killRec \in [W -> BOOLEAN] /\ frozen \in BOOLEAN
  /\ payFinal \in [W -> Finals] /\ killFinal \in [W -> Finals]
  /\ firePc \in [W -> FirePcs] /\ fireLane \in [W -> Nonce]
  /\ routePc \in [W -> {"idle", "body", "fire"}] /\ inFlight \subseteq W /\ reserved \subseteq Nonce
  /\ loopPc \in [W -> ResPcs] /\ opPc \in [W -> ResPcs] /\ opAsk \in [W -> OpAsks]
  /\ loop \in {"queue", "firing", "resolve"} /\ todo \subseteq W
  /\ nonce \in Nonce /\ net \subseteq Tx
  /\ payLanded \in [W -> Finals] /\ killLanded \in [W -> BOOLEAN]
  /\ attested \in [W -> Words] /\ external \in Nat /\ crashes \in Nat /\ freezes \in Nat

\* A withdrawal the relay refunded from chain facts, or failed while pending,
\* is never paid on chain: not before the refund, not by a transaction still
\* in the network after it (failWithdrawal's callers; readChainVerdict).
NeverPaidAndRefunded ==
  \A w \in W : status[w] = "failed" /\ attested[w] = "none" => payLanded[w] # "ok"

\* A completed withdrawal that no operator attested has its payout finalized
\* on chain (completeFromChain, the /reconcile door).
CompletedMeansPaid ==
  \A w \in W : status[w] = "completed" /\ attested[w] = "none" => payLanded[w] = "ok"

\* No two payouts are ever signed over one nonce value, though the reservation
\* lives in memory and the record in the database (firePathZero's busy check).
OneNoncePerPayout ==
  \A v, w \in W : payNonce[v] = payNonce[w] /\ payNonce[v] # None => v = w

\* A claimed row is out of the queue and each row is queued once, so no tick
\* can fire a payout a second time (enqueuePayout, the claim transaction).
QueueHoldsOnlyUnclaimed ==
  /\ IsInjective(queue)
  /\ \A w \in Range(queue) : status[w] # "processing" /\ payNonce[w] = None

\* Micro-units are neither created nor lost: what accounts hold, what open
\* withdrawals hold and what was paid out add up to the initial funds.
Conservation ==
  SumFunction(balance)
    + SumFunctionOnSet(Amount, {w \in W : status[w] \in {"pending", "processing", "completed"}})
  = SumFunction(Funds)

\* A payout lands only on a row its claim still holds, or one an operator
\* attested paid after that claim.  So a manual /complete or /fail, a refund
\* and an attested override are never followed by money leaving the treasury.
PayoutLandsOnClaimedRow ==
  [][\A w \in W : payLanded'[w] # payLanded[w] =>
       \/ status[w] = "processing"
       \/ status[w] = "completed" /\ attested[w] = "paid"]_vars

\* While the relay is frozen no balance moves and no pending row is claimed or
\* settled, whatever was in flight when the freeze landed.
FrozenMovesNoMoney ==
  [][frozen => /\ balance' = balance
               /\ \A w \in W : status[w] \in {"none", "pending"} => status'[w] = status[w]]_vars

\* A settled withdrawal never changes again, and a claimed one never returns to
\* the operator's pending doors.
SettledIsFinal ==
  [][\A w \in W : /\ status[w] \in {"completed", "failed"} => status'[w] = status[w]
                  /\ status[w] = "processing" => status'[w] # "pending"]_vars

\* The nonce moved past the payout and no recorded transaction moved it: only
\* the operator can settle the row (nonce_consumed_unrecorded).
ConsumedUnrecorded(w) ==
  payNonce[w] # None /\ payNonce[w] < nonce /\ payLanded[w] = "null" /\ ~killLanded[w]

\* Every claimed payout is decided: completed, refunded, or shown to be one
\* only the operator can settle, through crashes and a freeze.
ClaimedIsDecided ==
  \A w \in W : status[w] = "processing" ~> status[w] # "processing" \/ ConsumedUnrecorded(w)

\* A queued withdrawal is eventually claimed or settled (resolvePayoutsOnce).
QueuedIsFired ==
  \A w \in W : w \in Range(queue) ~> status[w] # "pending"

\* What the error boundary says of a key the freeze reopened: "the same-key
\* retry after unfreeze does the work once" (middleware.ts).  Once the retry is
\* answered, the withdrawal it names leaves pending.
RetryDoesTheWork ==
  \A w \in W : (idem[w] = "completed" /\ status[w] = "pending") ~> status[w] # "pending"
-----------------------------------------------------------------------------
(* The inductive invariant behind the safety properties *)

Held == {"send", "broadcast", "empty", "read", "known", "sign"}
Deciding == {"empty", "read", "known", "sign", "kill"}

\* A nonce value belongs to one payout from its reservation on.
LaneInv ==
  /\ \A w \in W : payNonce[w] # None => payNonce[w] <= nonce
  /\ \A w \in W : firePc[w] \in {"send", "broadcast"} =>
                    fireLane[w] <= nonce /\ fireLane[w] \in reserved
  /\ \A w \in W : firePc[w] = "broadcast" => payNonce[w] = fireLane[w]
  /\ \A v, w \in W : firePc[w] = "send" => payNonce[v] # fireLane[w]
  /\ \A v, w \in W : firePc[v] \in {"send", "broadcast"} /\ firePc[w] \in {"send", "broadcast"} =>
                       (fireLane[v] = fireLane[w] => v = w)
  /\ OneNoncePerPayout

\* What the chain and the recorded final statuses say about one payout.
OnChain(w) ==
  /\ <<"pay", w>> \in net \/ <<"kill", w>> \in net => payNonce[w] # None
  /\ payLanded[w] # "null" => payNonce[w] # None /\ payNonce[w] < nonce /\ ~killLanded[w]
  /\ killLanded[w] => payNonce[w] # None /\ payNonce[w] < nonce
  /\ payFinal[w] # "null" => payFinal[w] = payLanded[w]
  /\ killFinal[w] # "null" => killLanded[w]

\* A payout is settled by the process that holds it in flight or, once released,
\* by the loop and the operator; neither may act on a snapshot that can change.
Flight(w) ==
  /\ w \in inFlight <=> firePc[w] \in Held
  /\ w \in inFlight => status[w] = "processing"
  /\ loopPc[w] # "idle" \/ opPc[w] \in Deciding =>
       w \notin inFlight /\ status[w] \notin {"none", "pending"}
  /\ status[w] \in {"none", "pending"} => payNonce[w] = None
  /\ firePc[w] \in {"send", "empty"} \/ loopPc[w] = "empty" \/ opPc[w] = "empty" =>
       payNonce[w] = None
  /\ loopPc[w] \in {"read", "known", "kill"} \/ opPc[w] \in {"read", "known", "kill"} =>
       payNonce[w] # None
  /\ firePc[w] = "sign" \/ loopPc[w] = "sign" \/ (opPc[w] = "sign" /\ opAsk[w] = "paid") =>
       payLanded[w] = "ok"

\* Where a settled row stands with its payout.
Settled(w) ==
  /\ status[w] = "failed" => payNonce[w] = None \/ payNonce[w] < nonce
  /\ status[w] = "failed" /\ attested[w] = "none" => payLanded[w] # "ok"
  /\ status[w] = "completed" /\ attested[w] = "none" => payLanded[w] = "ok"
  /\ attested[w] = "complete" => status[w] = "completed" /\ payNonce[w] = None
  /\ attested[w] = "paid" => status[w] = "completed"
  /\ attested[w] = "not_paid" => status[w] = "failed"

ChainInv  == \A w \in W : OnChain(w)
FlightInv == \A w \in W : Flight(w)
SettleInv == \A w \in W : Settled(w)

\* The four parts together: induction needs them all, because a refund is safe
\* only for a snapshot no step can outdate and a value no other payout carries.
PayoutInv == TypeOK /\ LaneInv /\ ChainInv /\ FlightInv /\ SettleInv
=============================================================================
