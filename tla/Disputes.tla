------------------------------ MODULE Disputes ------------------------------
(***************************************************************************)
(* The life of one dispute: evidence, the round-1 verdict (the operator's, *)
(* or the peers' when the relay is a party), the appeal and its round-2    *)
(* verdict, and the fund action that makes a verdict final.                *)
(*                                                                         *)
(* An action is the code between two awaits, over one synchronous          *)
(* database.  Operator calls, worker cycles and appeals run at the same    *)
(* time; a crash loses them and keeps the database.  Whether the relay is  *)
(* a party is fixed when the dispute is filed.                             *)
(***************************************************************************)
EXTENDS Integers, FiniteSets

CONSTANTS
  Call,        \* bound: operator /resolve calls that run at the same time
  Cycle,       \* bound: worker cycles that run at the same time
  Appeal,      \* bound: /appeal calls that run at the same time
  Submission,  \* bound: /evidence calls of one party that run at the same time
  Peer,        \* peer relays that may vote
  Quorum,      \* FEDERATION_QUORUM_MIN
  Ballot,      \* bound: fund actions a peer may vote for
  Ledger,      \* bound: what the ledger may hold for the allocation
  MaxEvidence, \* MAX_EVIDENCE_PER_PARTY
  MaxCrashes,  \* bound: crashes of the relay
  MaxFreezes   \* bound: emergency freezes

Verdict == {"refund", "split", "release"}
Positions == {"held", "paid", "both", "nothing", "review"}
Proc == Call \cup Cycle \cup Appeal

ASSUME DisputeSets ==
  /\ Call \cap Cycle = {} /\ Call \cap Appeal = {} /\ Cycle \cap Appeal = {}
  /\ Ballot \subseteq Verdict /\ Ledger \subseteq Positions /\ IsFiniteSet(Peer)
ASSUME DisputeBounds == /\ Quorum \in Nat \ {0} /\ MaxEvidence \in Nat
                        /\ MaxCrashes \in Nat /\ MaxFreezes \in Nat

VARIABLES
  \* the database
  state,       \* relay_disputes.state
  row,         \* relay_dispute_resolutions: the row of each round
  votes,       \* relay_dispute_votes of round 1
  orch,        \* relay_dispute_orchestrations.status of round 1
  appealed,    \* appealed_at is set
  funds,       \* what the fund action did
  marker,      \* fund_refusal is set
  evidence,    \* evidence rows of the party
  frozen,      \* the persisted freeze row
  \* the process, lost in a crash
  pc,          \* what each call or cycle awaits
  opinion,     \* the verdict it has not yet committed
  base,        \* the votes an attempt read before it asked the peers
  late,        \* whether that attempt began after the deadline
  sub,         \* each evidence call: idle, or awaiting its signature check
  \* the world
  federated,   \* the relay is a party: peers adjudicate
  position,    \* what the ledger holds for the allocation
  short,       \* the paid account no longer covers a claw-back
  mesh,        \* at least Quorum other peers are active
  evidenceOpen, deadline, appealOpen,   \* the windows
  crashes, freezes

record  == <<state, row, appealed, funds, marker>>
polling == <<votes, orch>>
process == <<pc, opinion, base, late>>
world   == <<federated, position, short, mesh>>
clock   == <<evidenceOpen, deadline, appealOpen>>
bounds  == <<crashes, freezes>>
vars == <<state, row, votes, orch, appealed, funds, marker, evidence, frozen, pc, opinion,
          base, late, sub, federated, position, short, mesh, evidenceOpen, deadline,
          appealOpen, crashes, freezes>>

States    == {"evidence", "arbitration", "resolved", "appealed", "final"}
Pcs       == {"idle", "due", "asking", "signing", "verifying", "asking2", "signing2"}
Poll      == [Peer -> Verdict \cup {"none"}]
NoVotes   == [p \in Peer |-> "none"]

\* A signed resolution: its fund action and how many adjudicator votes it carries.
Rows  == [v : Verdict, n : Nat]
NoRow == [v |-> "none", n |-> 0]

Init ==
  /\ state = "evidence" /\ row = [r \in 1..2 |-> NoRow] /\ votes = NoVotes /\ orch = "none"
  /\ appealed = FALSE /\ funds = "locked" /\ marker = FALSE /\ evidence = 0 /\ frozen = FALSE
  /\ pc = [x \in Proc |-> "idle"] /\ opinion = [x \in Proc |-> NoRow]
  /\ base = [x \in Proc |-> NoVotes] /\ late = [x \in Proc |-> FALSE]
  /\ sub = [e \in Submission |-> "idle"]
  /\ federated \in BOOLEAN /\ position \in Ledger /\ short = FALSE /\ mesh = TRUE
  /\ evidenceOpen = TRUE /\ deadline = FALSE /\ appealOpen = TRUE
  /\ crashes = 0 /\ freezes = 0
-----------------------------------------------------------------------------
(* Votes *)

Voted(f) == {p \in Peer : f[p] # "none"}
Count(f, v) == Cardinality({p \in Peer : f[p] = v})

\* aggregateVotes: below the quorum, and on a tie, the verdict is a split.
Tally(f) ==
  LET top == {v \in Verdict : \A u \in Verdict : Count(f, u) <= Count(f, v)} IN
  IF Cardinality(Voted(f)) >= Quorum /\ Cardinality(top) = 1
  THEN CHOOSE v \in top : TRUE ELSE "split"

Aggregate(f) == [v |-> Tally(f), n |-> Cardinality(Voted(f))]

Cast(f, new) == [p \in Peer |-> IF p \in DOMAIN new THEN new[p] ELSE f[p]]

\* What the peers that were asked answered in time.
Answers(asked) == UNION {[S -> Ballot] : S \in SUBSET asked}
-----------------------------------------------------------------------------
(* One adjudication attempt of round 1 *)

To(x, at) == pc' = [pc EXCEPT ![x] = at]

\* A verdict is decided and awaits its signature.
Sign(x, at, res) == To(x, at) /\ opinion' = [opinion EXCEPT ![x] = res]

\* Back to idle: what the call knew is forgotten.
Leave(x) == /\ To(x, "idle") /\ opinion' = [opinion EXCEPT ![x] = NoRow]
            /\ base' = [base EXCEPT ![x] = NoVotes] /\ late' = [late EXCEPT ![x] = FALSE]

\* attemptOrFinalizeFederationResolution up to its await: persisted votes that
\* make a quorum are aggregated at once; too few peers refuse the attempt.
AttemptStart(x) ==
  \/ /\ Cardinality(Voted(votes)) >= Quorum
     /\ orch' = "done" /\ Sign(x, "signing", Aggregate(votes)) /\ UNCHANGED <<base, late>>
  \/ /\ Cardinality(Voted(votes)) < Quorum
     /\ orch' = IF orch = "none" THEN "in_progress" ELSE orch
     /\ \/ ~mesh /\ Leave(x)
        \/ /\ mesh /\ To(x, "asking") /\ UNCHANGED opinion
           /\ base' = [base EXCEPT ![x] = votes] /\ late' = [late EXCEPT ![x] = deadline]

\* Mutant: an attempt below the quorum is committed as if the deadline had passed.
AttemptAnswer_Hurried(x) ==
  /\ pc[x] = "asking"
  /\ \E new \in Answers(Peer \ Voted(base[x])) :
       LET all == Cast(base[x], new) IN
       /\ votes' = Cast(votes, new)
       /\ orch' = IF Cardinality(Voted(all)) >= Quorum THEN "done" ELSE "timed_out"
       /\ Sign(x, "signing", Aggregate(all)) /\ UNCHANGED <<base, late>>
  /\ UNCHANGED <<record, evidence, frozen, sub, world, clock, bounds>>

\* Mutant: a deferred attempt moves the dispute to arbitration, whatever its state.
AttemptAnswer_Reopens(x) ==
  /\ pc[x] = "asking"
  /\ \E new \in Answers(Peer \ Voted(base[x])) :
       LET all == Cast(base[x], new) IN
       /\ votes' = Cast(votes, new)
       /\ IF Cardinality(Voted(all)) >= Quorum \/ late[x]
          THEN /\ orch' = "done" /\ Sign(x, "signing", Aggregate(all))
               /\ UNCHANGED <<state, base, late>>
          ELSE Leave(x) /\ state' = "arbitration" /\ UNCHANGED orch
  /\ UNCHANGED <<row, appealed, funds, marker, evidence, frozen, sub, world, clock, bounds>>

\* Mutant: the deadline is not looked at.
AttemptAnswer_NoFallback(x) ==
  /\ pc[x] = "asking"
  /\ \E new \in Answers(Peer \ Voted(base[x])) :
       LET all == Cast(base[x], new) IN
       /\ votes' = Cast(votes, new)
       /\ IF Cardinality(Voted(all)) >= Quorum
          THEN orch' = "done" /\ Sign(x, "signing", Aggregate(all)) /\ UNCHANGED <<base, late>>
          ELSE Leave(x) /\ UNCHANGED orch
  /\ UNCHANGED <<record, evidence, frozen, sub, world, clock, bounds>>

\* The answers are stored; the verdict is over them and the votes read before:
\* a quorum is ready, a late attempt falls back, another is deferred.
AttemptAnswer(x) ==
  /\ pc[x] = "asking"
  /\ \E new \in Answers(Peer \ Voted(base[x])) :
       LET all == Cast(base[x], new) IN
       /\ votes' = Cast(votes, new)
       /\ \/ /\ Cardinality(Voted(all)) >= Quorum /\ orch' = "done"
             /\ Sign(x, "signing", Aggregate(all)) /\ UNCHANGED <<base, late>>
          \/ /\ Cardinality(Voted(all)) < Quorum /\ late[x] /\ orch' = "timed_out"
             /\ Sign(x, "signing", Aggregate(all)) /\ UNCHANGED <<base, late>>
          \/ /\ Cardinality(Voted(all)) < Quorum /\ ~late[x] /\ Leave(x) /\ UNCHANGED orch
  /\ UNCHANGED <<record, evidence, frozen, sub, world, clock, bounds>>
-----------------------------------------------------------------------------
(* The round-1 verdict *)

\* Mutant: the commit does not look at the state.
Adjudicable_AnyState == TRUE

\* The commit's compare-and-set, and one row per round.
Adjudicable == state \in {"evidence", "arbitration"} /\ row[1] = NoRow

\* resolveLocks: another call's round-1 resolution is in flight.
Locked == \E r \in Call : pc[r] \in {"asking", "signing"}

\* Mutant: the evidence window is not looked at.
EvidenceIn_Always == TRUE

EvidenceIn == ~evidenceOpen

\* POST /resolve in round 1: the operator's verdict, or an attempt.
Resolve(r) ==
  /\ pc[r] = "idle" /\ ~frozen /\ Adjudicable /\ EvidenceIn /\ ~Locked
  /\ \/ /\ ~federated /\ \E v \in Verdict : Sign(r, "signing", [v |-> v, n |-> 0])
        /\ UNCHANGED <<state, orch, base, late>>
     \/ federated /\ state' = "arbitration" /\ AttemptStart(r)
  /\ UNCHANGED <<row, votes, appealed, funds, marker, evidence, frozen, sub, world, clock,
                 bounds>>

\* A worker cycle lists the due row; it reaches it after the rows before it.
WorkerDue(c) ==
  /\ pc[c] = "idle" /\ orch = "in_progress" /\ To(c, "due")
  /\ UNCHANGED <<record, polling, evidence, frozen, opinion, base, late, sub, world, clock,
                 bounds>>

WorkerAttempt(c) ==
  /\ pc[c] = "due" /\ EvidenceIn /\ AttemptStart(c)
  /\ UNCHANGED <<record, votes, evidence, frozen, sub, world, clock, bounds>>

\* finalizeFederationResolution after its signing await: state and row, or nothing.
CommitRound1(x) ==
  /\ pc[x] = "signing" /\ Leave(x)
  /\ IF Adjudicable THEN state' = "resolved" /\ row' = [row EXCEPT ![1] = opinion[x]]
                    ELSE UNCHANGED <<state, row>>
  /\ UNCHANGED <<polling, appealed, funds, marker, evidence, frozen, sub, world, clock,
                 bounds>>
-----------------------------------------------------------------------------
(* The fund action *)

\* What was paid is clawed back unless the worker keeps all of it.
Claws(v) == position \in {"paid", "both"} /\ v # "release"
Moves(v) == position \in {"held", "both"} \/ Claws(v)

\* The chokepoint asks for the freeze first; then the account must cover it.
FundRefused(v) == ~frozen /\ short /\ Claws(v)
MayExecute(v)  == ~FundRefused(v) /\ ~(frozen /\ Moves(v))

\* What a fund action leaves behind: under review, or with nothing to move, no
\* money moves.
Outcome(v) == IF position \in {"held", "paid", "both"} THEN v ELSE "unmoved"

\* executeFundAction: write-once; the marker stays while under review.
FundAction(v) ==
  /\ funds' = IF funds = "locked" THEN Outcome(v) ELSE funds
  /\ marker' = (position = "review")

\* Mutant: a refused fund action is not retried.
Expired_Refused == state = "resolved" /\ ~appealed /\ ~appealOpen /\ ~marker

\* The appeal window ran out.
Expired == state = "resolved" /\ ~appealed /\ ~appealOpen

\* The fund action and the final state are one transaction; a refusal is marked.
Finalize(r) ==
  /\ \/ MayExecute(row[r].v) /\ state' = "final" /\ FundAction(row[r].v)
     \/ FundRefused(row[r].v) /\ marker' = TRUE /\ UNCHANGED <<state, funds>>
  /\ UNCHANGED <<row, polling, appealed, evidence, frozen, process, sub, world, clock, bounds>>

\* tryFinalizeIfWindowExpired, on any read, resolve or appeal.
ReadExpired == Expired /\ row[1] # NoRow /\ Finalize(1)

\* Mutant: a refused round-2 verdict is not retried.
ReadRound2_Refused == state = "appealed" /\ row[2] # NoRow /\ ~marker /\ Finalize(2)

\* tryFinalizePersistedRound2, on a read.
ReadRound2 == state = "appealed" /\ row[2] # NoRow /\ Finalize(2)
-----------------------------------------------------------------------------
(* The appeal and the round-2 verdict *)

AppealStart(a) ==
  /\ pc[a] = "idle" /\ ~frozen /\ state = "resolved" /\ appealOpen /\ ~appealed
  /\ To(a, "verifying")
  /\ UNCHANGED <<record, polling, evidence, frozen, opinion, base, late, sub, world, clock,
                 bounds>>

\* Mutant: the appeal trusts what it read before the signature check.
Appealable_Stale == TRUE

Appealable == state = "resolved" /\ ~appealed

\* Guarded again after the await; the peers are asked in the same call.
AppealCommit(a) ==
  /\ pc[a] = "verifying"
  /\ IF Appealable
     THEN /\ state' = "appealed" /\ appealed' = TRUE
          /\ IF federated /\ mesh THEN To(a, "asking2") /\ UNCHANGED <<opinion, base, late>>
                                  ELSE Leave(a)
     ELSE Leave(a) /\ UNCHANGED <<state, appealed>>
  /\ UNCHANGED <<row, polling, funds, marker, evidence, frozen, sub, world, clock, bounds>>

\* The round-2 votes are asked for once, and aggregated with or without a quorum.
AppealAnswer(a) ==
  /\ pc[a] = "asking2"
  /\ \E new \in Answers(Peer) : Sign(a, "signing2", Aggregate(Cast(NoVotes, new)))
  /\ UNCHANGED <<record, polling, evidence, frozen, base, late, sub, world, clock, bounds>>

\* POST /resolve on an appealed dispute the relay is no party to.
ResolveRound2(r) ==
  /\ pc[r] = "idle" /\ ~frozen /\ ~federated /\ state = "appealed" /\ row[2] = NoRow
  /\ \E v \in Verdict : Sign(r, "signing2", [v |-> v, n |-> 0])
  /\ UNCHANGED <<record, polling, evidence, frozen, base, late, sub, world, clock, bounds>>

AwaitsRound2 == state = "appealed"

\* commitRound2Verdict after its signing await: row, state and money, or, when
\* the money may not move, the row alone.
CommitRound2(x) ==
  LET v == opinion[x].v IN
  /\ pc[x] = "signing2" /\ Leave(x)
  /\ \/ ~AwaitsRound2 /\ UNCHANGED <<state, row, funds, marker>>
     \/ /\ AwaitsRound2 /\ MayExecute(v)
        /\ state' = "final" /\ row' = [row EXCEPT ![2] = opinion[x]] /\ FundAction(v)
     \/ /\ AwaitsRound2 /\ ~MayExecute(v)
        /\ row' = [row EXCEPT ![2] = opinion[x]]
        /\ marker' = (marker \/ FundRefused(v)) /\ UNCHANGED <<state, funds>>
  /\ UNCHANGED <<polling, appealed, evidence, frozen, sub, world, clock, bounds>>
-----------------------------------------------------------------------------
(* Evidence *)

SubmitStart(e) ==
  /\ sub[e] = "idle"
  /\ (state = "evidence" /\ evidenceOpen) \/ (state = "resolved" /\ appealOpen)
  /\ sub' = [sub EXCEPT ![e] = "verifying"]
  /\ UNCHANGED <<record, polling, evidence, frozen, process, world, clock, bounds>>

UnderCap == evidence < MaxEvidence

\* Counted after the signature check, in the turn of the insert.
SubmitCommit(e) ==
  /\ sub[e] = "verifying" /\ sub' = [sub EXCEPT ![e] = "idle"]
  /\ evidence' = IF UnderCap THEN evidence + 1 ELSE evidence
  /\ UNCHANGED <<record, polling, frozen, process, world, clock, bounds>>
-----------------------------------------------------------------------------
(* Clock, ledger, peers, freeze, crash *)

CloseEvidence ==
  /\ evidenceOpen /\ evidenceOpen' = FALSE
  /\ UNCHANGED <<record, polling, evidence, frozen, process, sub, world, deadline, appealOpen,
                 bounds>>

\* deadline_at of the orchestration row.
PassDeadline ==
  /\ orch # "none" /\ ~deadline /\ deadline' = TRUE
  /\ UNCHANGED <<record, polling, evidence, frozen, process, sub, world, evidenceOpen,
                 appealOpen, bounds>>

CloseAppeal ==
  /\ state = "resolved" /\ appealOpen /\ appealOpen' = FALSE
  /\ UNCHANGED <<record, polling, evidence, frozen, process, sub, world, evidenceOpen,
                 deadline, bounds>>

\* The paid account withdraws, or earns again.
AccountChange ==
  /\ position \in {"paid", "both"} /\ short' = ~short
  /\ UNCHANGED <<record, polling, evidence, frozen, process, sub, federated, position, mesh,
                 clock, bounds>>

\* A forward lends the disputed escrow to a peer; a failed one returns it.
ForwardChange ==
  /\ state # "final"
  /\ \/ position = "held" /\ position' = "nothing"
     \/ position = "nothing" /\ position' = "held"
  /\ UNCHANGED <<record, polling, evidence, frozen, process, sub, federated, short, mesh, clock,
                 bounds>>

\* Peers leave or join.
MeshChange ==
  /\ federated /\ mesh' = ~mesh
  /\ UNCHANGED <<record, polling, evidence, frozen, process, sub, federated, position, short,
                 clock, bounds>>

Freeze ==
  /\ ~frozen /\ freezes < MaxFreezes /\ frozen' = TRUE /\ freezes' = freezes + 1
  /\ UNCHANGED <<record, polling, evidence, process, sub, world, clock, crashes>>

Unfreeze ==
  /\ frozen /\ frozen' = FALSE
  /\ UNCHANGED <<record, polling, evidence, process, sub, world, clock, bounds>>

Crash ==
  /\ crashes < MaxCrashes /\ crashes' = crashes + 1
  /\ pc' = [x \in Proc |-> "idle"] /\ opinion' = [x \in Proc |-> NoRow]
  /\ base' = [x \in Proc |-> NoVotes] /\ late' = [x \in Proc |-> FALSE]
  /\ sub' = [e \in Submission |-> "idle"]
  /\ UNCHANGED <<record, polling, evidence, frozen, world, clock, freezes>>
-----------------------------------------------------------------------------
\* A call that is running returns.
Continue(x) == \/ AttemptAnswer(x) \/ CommitRound1(x) \/ AppealCommit(x) \/ AppealAnswer(x)
               \/ CommitRound2(x)

Next ==
  \/ \E r \in Call : Resolve(r) \/ ResolveRound2(r)
  \/ \E c \in Cycle : WorkerDue(c) \/ WorkerAttempt(c)
  \/ \E a \in Appeal : AppealStart(a)
  \/ \E x \in Proc : Continue(x)
  \/ \E e \in Submission : SubmitStart(e) \/ SubmitCommit(e)
  \/ ReadExpired \/ ReadRound2
  \/ CloseEvidence \/ PassDeadline \/ CloseAppeal \/ AccountChange \/ ForwardChange \/ MeshChange
  \/ Freeze \/ Unfreeze \/ Crash

Spec == Init /\ [][Next]_vars

\* The worker polls, calls return and time passes.
WorkerFairness ==
  /\ WF_vars(\E c \in Cycle : WorkerDue(c)) /\ \A c \in Cycle : WF_vars(WorkerAttempt(c))
  /\ \A x \in Proc : WF_vars(Continue(x))
  /\ WF_vars(CloseEvidence) /\ WF_vars(PassDeadline) /\ WF_vars(CloseAppeal)

\* The operator keeps ruling on what waits for a verdict, and somebody keeps
\* reading the dispute: no timer of the relay does either.
OperatorFairness == /\ WF_vars(\E r \in Call : Resolve(r))
                    /\ WF_vars(\E r \in Call : ResolveRound2(r))
ReaderFairness   == WF_vars(ReadExpired) /\ WF_vars(ReadRound2)

WorkerSpec == Spec /\ WorkerFairness
FairSpec   == WorkerSpec /\ OperatorFairness /\ ReaderFairness
-----------------------------------------------------------------------------
(* Properties *)

TypeOK ==
  /\ state \in States /\ row \in [1..2 -> Rows \cup {NoRow}] /\ votes \in Poll
  /\ orch \in {"none", "in_progress", "done", "timed_out"}
  /\ appealed \in BOOLEAN /\ funds \in Verdict \cup {"locked", "unmoved"}
  /\ marker \in BOOLEAN /\ evidence \in Nat /\ frozen \in BOOLEAN
  /\ pc \in [Proc -> Pcs] /\ opinion \in [Proc -> Rows \cup {NoRow}]
  /\ base \in [Proc -> Poll] /\ late \in [Proc -> BOOLEAN]
  /\ sub \in [Submission -> {"idle", "verifying"}]
  /\ federated \in BOOLEAN /\ position \in Positions /\ short \in BOOLEAN /\ mesh \in BOOLEAN
  /\ evidenceOpen \in BOOLEAN /\ deadline \in BOOLEAN /\ appealOpen \in BOOLEAN
  /\ crashes \in Nat /\ freezes \in Nat

\* The governing resolution: the highest committed round.
Governing == IF row[2] # NoRow THEN row[2] ELSE row[1]

\* Money moves exactly when the dispute becomes final, once, and as the
\* governing signed resolution says, though reads, a late operator verdict, the
\* worker and an appeal race for the transition and a refused fund action is
\* retried ("the signed resolution must be the money that moves").
VerdictExecuted ==
  /\ state # "final" <=> funds = "locked"
  /\ state = "final" => /\ row[1] # NoRow /\ (appealed <=> row[2] # NoRow)
                        /\ funds = Outcome(Governing.v)

\* How far a dispute has come.
Stage == [evidence |-> 0, arbitration |-> 1, resolved |-> 2, appealed |-> 3, final |-> 4]

\* A dispute is never moved back, and nothing about a final one changes: not by
\* an appeal that awaited its signature check, nor by a verdict that lost a race.
NeverMovedBack ==
  [][Stage[state] <= Stage[state'] /\ (state = "final" => UNCHANGED record)]_vars

\* A signed round-1 resolution is never replaced: of /resolve and overlapping
\* worker cycles, one commits and the others write nothing.
FirstVerdictStands == [][row[1] # NoRow => row'[1] = row[1]]_vars

\* "A peer hiccup at any single attempt MUST NOT collapse the window": below the
\* quorum the peers' dispute is decided only after the deadline.
QuorumOrDeadline ==
  federated /\ row[1] # NoRow /\ row[1].n < Quorum => deadline

\* No vote is asked for and no verdict reached before the evidence is in.
EvidenceHeard ==
  evidenceOpen => state = "evidence" /\ orch = "none" /\ votes = NoVotes /\ row[1] = NoRow

\* Where the operator keeps calling /resolve, a dispute gets its first verdict,
\* whether enough peers answer or the deadline's fallback decides, and whatever
\* crash or freeze interrupted an earlier attempt.  (No deadline decides for the
\* operator, and too few peers suspend the fallback.)
ArbitrationDecided ==
  <>[](mesh /\ ~frozen) => (state \in {"evidence", "arbitration"} ~> state \notin {"evidence", "arbitration"})

\* A resolved dispute that keeps being read is appealed or becomes final, though
\* a freeze or a spent claw-back refused its fund action before.
ResolvedEnds ==
  <>[](~short /\ ~frozen) => (state = "resolved" ~> state \in {"appealed", "final"})

\* An appeal is decided where the operator keeps ruling, or once a read retries
\* the round-2 verdict the federation persisted before its fund action was refused.
AppealDecided ==
  <>[](~short /\ ~frozen) =>
    (state = "appealed" /\ (~federated \/ row[2] # NoRow) ~> state = "final")

\* "Once the dispute transitions to `appealed`, round-2 orchestration is in
\* flight and the bundle freezes": no submission adds evidence from then on.
BundleFreezes == [][evidence' # evidence => state \notin {"appealed", "final"}]_vars

\* "the dispute will eventually resolve ... regardless of whether any client is
\* actively polling": once orchestration began, the worker alone resolves it.
WorkerResolves == <>[]mesh => (orch # "none" ~> row[1] # NoRow)
=============================================================================
