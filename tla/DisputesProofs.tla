--------------------------- MODULE DisputesProofs ---------------------------
(***************************************************************************)
(* What holds of a dispute for every number of concurrent calls, cycles,   *)
(* appeals, peers, crashes and freezes.                                    *)
(***************************************************************************)
EXTENDS Disputes, FiniteSetTheorems, TLAPS

\* The tuples of variables are only abbreviations.
USE DEF record, polling, process, world, clock, bounds

\* The rows follow the state: round 1 is decided exactly when adjudication is
\* over, and only an appealed dispute has a second row.
RowsFollowState ==
  /\ row[1] = NoRow <=> state \in {"evidence", "arbitration"}
  /\ state \in {"evidence", "arbitration", "resolved"} => row[2] = NoRow /\ ~appealed
  /\ state = "appealed" => appealed
  /\ state = "final" /\ appealed => row[2] # NoRow
  /\ ~appealed => row[2] = NoRow

\* The money follows the governing row.
FundsFollowRows ==
  /\ state # "final" <=> funds = "locked"
  /\ state = "final" => funds = Outcome(Governing.v)

\* What a call in flight knows.
CallsKnow ==
  \A x \in Proc :
    /\ pc[x] \in {"signing", "signing2"} => opinion[x] \in Rows
    /\ pc[x] \in {"asking2", "signing2"} => appealed
    /\ late[x] => deadline
    /\ federated /\ pc[x] = "signing" /\ opinion[x].n < Quorum => deadline

\* Before the evidence is in, nothing of the adjudication has begun.
Unheard ==
  evidenceOpen => /\ state = "evidence" /\ orch = "none" /\ votes = NoVotes
                  /\ \A x \in Proc : pc[x] = "idle"

\* The inductive invariant.
DisputeInv ==
  TypeOK /\ RowsFollowState /\ FundsFollowRows /\ CallsKnow /\ Unheard /\ QuorumOrDeadline
-----------------------------------------------------------------------------
(* Votes *)

\* The peers that voted are finitely many.
LEMMA VotedFinite == \A f \in Poll : IsFiniteSet(Voted(f)) /\ Cardinality(Voted(f)) \in Nat
<1> SUFFICES ASSUME NEW f \in Poll PROVE IsFiniteSet(Voted(f)) /\ Cardinality(Voted(f)) \in Nat
  BY Zenon
<1>1. IsFiniteSet(Peer) /\ Voted(f) \in SUBSET Peer
  BY Zenon, DisputeSets DEF Voted
<1>2. IsFiniteSet(Voted(f))
  BY Zenon, <1>1, FS_Subset
<1> QED
  BY Zenon, <1>2, FS_CardinalityType

\* A tally is a verdict: above the quorum one of the most voted, else a split.
LEMMA TallyType == \A f \in Poll : Tally(f) \in Verdict
<1> SUFFICES ASSUME NEW f \in Poll PROVE Tally(f) \in Verdict
  BY Zenon
<1> DEFINE top == {v \in Verdict : \A u \in Verdict : Count(f, u) <= Count(f, v)}
<1>1. Tally(f) = IF Cardinality(Voted(f)) >= Quorum /\ Cardinality(top) = 1
                 THEN CHOOSE v \in top : TRUE ELSE "split"
  BY Zenon DEF Tally
<1>2. CASE Cardinality(top) = 1
  <2>1. IsFiniteSet(Verdict)
    <3>1. IsFiniteSet({"refund"} \cup {"split"} \cup {"release"})
      BY Zenon, FS_Singleton, FS_Union
    <3> QED
      BY Zenon, <3>1 DEF Verdict
  <2>2. IsFiniteSet(top)
    BY Zenon, <2>1, FS_Subset
  <2>3. PICK v : top = {v}
    BY Zenon, <1>2, <2>2, FS_Singleton
  <2>4. (CHOOSE u \in top : TRUE) \in top
    BY Zenon, <2>3
  <2> QED
    BY Zenon, <1>1, <2>4 DEF Verdict
<1>3. CASE Cardinality(top) # 1
  BY Zenon, <1>1, <1>3 DEF Verdict
<1> QED
  BY Zenon, <1>2, <1>3

\* An aggregate is a resolution, and counts the votes it was made from.
LEMMA AggregateType ==
  \A f \in Poll : Aggregate(f) \in Rows /\ Aggregate(f).n = Cardinality(Voted(f))
BY Zenon, TallyType, VotedFinite DEF Aggregate, Rows

\* Answers of peers, cast over a poll, make a poll.
LEMMA CastType ==
  ASSUME NEW f \in Poll, NEW S \in SUBSET Peer, NEW new \in Answers(S)
  PROVE  Cast(f, new) \in Poll
<1>1. PICK T \in SUBSET S : new \in [T -> Ballot]
  BY Zenon DEF Answers
<1> QED
  BY Zenon, <1>1, DisputeSets DEF Cast, Poll

\* No votes are a poll.
LEMMA NoVotesType == NoVotes \in Poll
BY Zenon DEF NoVotes, Poll

\* The missing row is no resolution.
LEMMA NoRowType == NoRow \notin Rows /\ NoRow \in Rows \cup {NoRow}
BY Zenon DEF NoRow, Rows, Verdict
-----------------------------------------------------------------------------
(* The inductive invariant holds initially *)

\* A dispute just filed satisfies the invariant.
LEMMA InitInv == Init => DisputeInv
<1> SUFFICES ASSUME Init PROVE DisputeInv
  BY Zenon
<1>1. TypeOK
  BY Zenon, NoRowType, NoVotesType, DisputeSets DEF Init, TypeOK, States, Pcs, Positions
<1>2. RowsFollowState /\ QuorumOrDeadline
  BY DEF Init, RowsFollowState, QuorumOrDeadline
<1>3. FundsFollowRows /\ CallsKnow /\ Unheard
  BY Zenon DEF Init, FundsFollowRows, CallsKnow, Unheard
<1> QED
  BY Zenon, <1>1, <1>2, <1>3 DEF DisputeInv
-----------------------------------------------------------------------------
(* Every action keeps it *)

\* An attempt begins: of the operator's call, or of a worker cycle.
LEMMA AttemptStartInv ==
  ASSUME DisputeInv, NEW x \in Proc, AttemptStart(x), ~evidenceOpen,
         \/ UNCHANGED state
         \/ state \in {"evidence", "arbitration"} /\ state' = "arbitration",
         UNCHANGED <<row, votes, appealed, funds, marker, evidence, frozen, sub, world, clock,
                     bounds>>
  PROVE  DisputeInv'
<1>1. TypeOK /\ votes \in Poll /\ Quorum \in Nat
  BY Zenon, DisputeBounds DEF DisputeInv, TypeOK
<1>2. RowsFollowState' /\ FundsFollowRows' /\ Unheard' /\ QuorumOrDeadline'
  BY Zenon DEF DisputeInv, RowsFollowState, FundsFollowRows, Unheard, QuorumOrDeadline, Governing,
         Outcome
<1>3. CASE /\ Cardinality(Voted(votes)) >= Quorum
           /\ orch' = "done" /\ Sign(x, "signing", Aggregate(votes)) /\ UNCHANGED <<base, late>>
  <2>1. /\ pc' = [pc EXCEPT ![x] = "signing"]
        /\ opinion' = [opinion EXCEPT ![x] = Aggregate(votes)]
    BY Zenon, <1>3 DEF Sign, To
  <2>2. Aggregate(votes) \in Rows /\ Aggregate(votes).n >= Quorum /\ Aggregate(votes).n \in Nat
    BY Zenon, <1>1, <1>3, AggregateType, VotedFinite
  <2>3. TypeOK'
    BY <1>1, <1>3, <2>1, <2>2 DEF TypeOK, Pcs, States
  <2>4. CallsKnow'
    BY <1>1, <1>3, <2>1, <2>2 DEF DisputeInv, CallsKnow, TypeOK
  <2> QED
    BY Zenon, <1>2, <2>3, <2>4 DEF DisputeInv
<1>4. CASE /\ orch' = IF orch = "none" THEN "in_progress" ELSE orch
           /\ Leave(x)
  <2>1. TypeOK'
    BY <1>1, <1>4, NoRowType, NoVotesType DEF TypeOK, Pcs, States, Leave, To
  <2>2. CallsKnow'
    BY Zenon, <1>1, <1>4 DEF DisputeInv, CallsKnow, TypeOK, Leave, To
  <2> QED
    BY <1>2, <2>1, <2>2 DEF DisputeInv
<1>5. CASE /\ orch' = IF orch = "none" THEN "in_progress" ELSE orch
           /\ To(x, "asking") /\ UNCHANGED opinion
           /\ base' = [base EXCEPT ![x] = votes] /\ late' = [late EXCEPT ![x] = deadline]
  <2>1. TypeOK'
    BY <1>1, <1>5 DEF TypeOK, Pcs, States, To
  <2>2. CallsKnow'
    BY Zenon, <1>1, <1>5 DEF DisputeInv, CallsKnow, TypeOK, To
  <2> QED
    BY <1>2, <2>1, <2>2 DEF DisputeInv
<1> QED
  BY Zenon, <1>3, <1>4, <1>5 DEF AttemptStart

\* POST /resolve in round 1: a verdict to sign, or an attempt.
LEMMA ResolveInv == ASSUME DisputeInv, NEW r \in Call, Resolve(r) PROVE DisputeInv'
<1> r \in Proc
  BY Zenon DEF Proc
<1>1. /\ ~evidenceOpen /\ state \in {"evidence", "arbitration"} /\ row[1] = NoRow
      /\ UNCHANGED <<row, votes, appealed, funds, marker, evidence, frozen, sub, world, clock,
                     bounds>>
  BY Zenon DEF Resolve, EvidenceIn, Adjudicable
<1>2. CASE federated /\ state' = "arbitration" /\ AttemptStart(r)
  BY Zenon, <1>1, <1>2, AttemptStartInv
<1>3. ASSUME ~federated, NEW v \in Verdict, Sign(r, "signing", [v |-> v, n |-> 0]),
             UNCHANGED <<state, orch, base, late>>
      PROVE  DisputeInv'
  <2>1. /\ pc' = [pc EXCEPT ![r] = "signing"]
        /\ opinion' = [opinion EXCEPT ![r] = [v |-> v, n |-> 0]]
    BY Zenon, <1>3 DEF Sign, To
  <2>2. [v |-> v, n |-> 0] \in Rows
    BY Zenon DEF Rows
  <2>3. TypeOK'
    BY <1>1, <1>3, <2>1, <2>2 DEF DisputeInv, TypeOK, Pcs
  <2>4. CallsKnow'
    BY Zenon, <1>1, <1>3, <2>1, <2>2 DEF DisputeInv, TypeOK, CallsKnow
  <2>5. RowsFollowState' /\ FundsFollowRows' /\ Unheard' /\ QuorumOrDeadline'
    BY Zenon, <1>1, <1>3 DEF DisputeInv, RowsFollowState, FundsFollowRows, Unheard, QuorumOrDeadline,
                      Governing, Outcome
  <2> QED
    BY Zenon, <2>3, <2>4, <2>5 DEF DisputeInv
<1> QED
  BY Zenon, <1>2, <1>3 DEF Resolve

\* A worker cycle lists the orchestration row, or attempts it.
LEMMA WorkerInv ==
  ASSUME DisputeInv, NEW c \in Cycle, WorkerDue(c) \/ WorkerAttempt(c) PROVE DisputeInv'
<1> c \in Proc
  BY Zenon DEF Proc
<1>1. CASE WorkerDue(c)
  <2>1. /\ pc' = [pc EXCEPT ![c] = "due"] /\ orch = "in_progress"
        /\ UNCHANGED <<record, polling, evidence, frozen, opinion, base, late, sub, world, clock,
                       bounds>>
    BY Zenon, <1>1 DEF WorkerDue, To
  <2>2. TypeOK' /\ CallsKnow'
    BY <2>1 DEF DisputeInv, TypeOK, CallsKnow, Pcs
  <2>3. RowsFollowState' /\ FundsFollowRows' /\ Unheard' /\ QuorumOrDeadline'
    BY Zenon, <2>1 DEF DisputeInv, RowsFollowState, FundsFollowRows, Unheard, QuorumOrDeadline,
                Governing, Outcome
  <2> QED
    BY Zenon, <2>2, <2>3 DEF DisputeInv
<1>2. CASE WorkerAttempt(c)
  <2>1. /\ AttemptStart(c) /\ ~evidenceOpen
        /\ UNCHANGED <<record, votes, evidence, frozen, sub, world, clock, bounds>>
    BY Zenon, <1>2 DEF WorkerAttempt, EvidenceIn
  <2> QED
    BY Zenon, <2>1, AttemptStartInv
<1> QED
  BY Zenon, <1>1, <1>2

\* The peers' answers are in.
LEMMA AnswerInv == ASSUME DisputeInv, NEW x \in Proc, AttemptAnswer(x) PROVE DisputeInv'
<1>1. TypeOK /\ votes \in Poll /\ base[x] \in Poll /\ Quorum \in Nat /\ pc[x] = "asking"
  BY Zenon, DisputeBounds DEF DisputeInv, TypeOK, AttemptAnswer
<1>2. ~evidenceOpen
  BY Zenon, <1>1 DEF DisputeInv, Unheard
<1>3. UNCHANGED <<record, evidence, frozen, sub, world, clock, bounds>>
  BY Zenon DEF AttemptAnswer
<1>4. RowsFollowState' /\ FundsFollowRows' /\ Unheard' /\ QuorumOrDeadline'
  BY Zenon, <1>2, <1>3 DEF DisputeInv, RowsFollowState, FundsFollowRows, Unheard, QuorumOrDeadline,
                    Governing, Outcome
<1>5. PICK new \in Answers(Peer \ Voted(base[x])) :
        LET all == Cast(base[x], new) IN
        /\ votes' = Cast(votes, new)
        /\ \/ /\ Cardinality(Voted(all)) >= Quorum /\ orch' = "done"
              /\ Sign(x, "signing", Aggregate(all)) /\ UNCHANGED <<base, late>>
           \/ /\ Cardinality(Voted(all)) < Quorum /\ late[x] /\ orch' = "timed_out"
              /\ Sign(x, "signing", Aggregate(all)) /\ UNCHANGED <<base, late>>
           \/ /\ Cardinality(Voted(all)) < Quorum /\ ~late[x] /\ Leave(x) /\ UNCHANGED orch
  BY Zenon DEF AttemptAnswer
<1> DEFINE all == Cast(base[x], new)
<1>6. all \in Poll /\ votes' \in Poll
  BY Zenon, <1>1, <1>5, CastType
<1>7. Aggregate(all) \in Rows /\ Aggregate(all).n = Cardinality(Voted(all))
  BY Zenon, <1>6, AggregateType
<1> HIDE DEF all
<1>8. CASE /\ Cardinality(Voted(all)) >= Quorum \/ late[x]
           /\ orch' \in {"done", "timed_out"}
           /\ Sign(x, "signing", Aggregate(all)) /\ UNCHANGED <<base, late>>
  <2>1. /\ pc' = [pc EXCEPT ![x] = "signing"]
        /\ opinion' = [opinion EXCEPT ![x] = Aggregate(all)]
    BY Zenon, <1>8 DEF Sign, To
  <2>2. Aggregate(all).n \in Nat /\ (Aggregate(all).n < Quorum => deadline)
    BY <1>1, <1>6, <1>7, <1>8, VotedFinite DEF DisputeInv, CallsKnow
  <2>3. TypeOK'
    BY <1>1, <1>3, <1>6, <1>7, <1>8, <2>1 DEF TypeOK, Pcs
  <2>4. CallsKnow'
    BY Zenon, <1>1, <1>3, <1>7, <1>8, <2>1, <2>2 DEF DisputeInv, CallsKnow, TypeOK
  <2> QED
    BY Zenon, <1>4, <2>3, <2>4 DEF DisputeInv
<1>9. CASE Leave(x) /\ UNCHANGED orch
  <2>1. TypeOK'
    BY <1>1, <1>3, <1>6, <1>9, NoRowType, NoVotesType DEF TypeOK, Pcs, Leave, To
  <2>2. CallsKnow'
    BY Zenon, <1>1, <1>3, <1>9 DEF DisputeInv, CallsKnow, TypeOK, Leave, To
  <2> QED
    BY <1>4, <2>1, <2>2 DEF DisputeInv
<1> QED
  BY Zenon, <1>5, <1>8, <1>9 DEF all

\* A call that leaves keeps the types and what the others know.
LEMMA LeaveKeeps ==
  ASSUME DisputeInv, NEW x \in Proc, Leave(x), UNCHANGED <<appealed, deadline, federated>>
  PROVE  /\ pc' \in [Proc -> Pcs] /\ opinion' \in [Proc -> Rows \cup {NoRow}]
         /\ base' \in [Proc -> Poll] /\ late' \in [Proc -> BOOLEAN] /\ CallsKnow'
<1>1. pc' \in [Proc -> Pcs] /\ opinion' \in [Proc -> Rows \cup {NoRow}]
      /\ base' \in [Proc -> Poll] /\ late' \in [Proc -> BOOLEAN]
  BY Zenon, NoRowType, NoVotesType DEF DisputeInv, TypeOK, Leave, To, Pcs
<1>2. CallsKnow'
  BY Zenon DEF DisputeInv, TypeOK, CallsKnow, Leave, To
<1> QED
  BY Zenon, <1>1, <1>2

\* The round-1 commit after its signing await.
LEMMA CommitRound1Inv == ASSUME DisputeInv, NEW x \in Proc, CommitRound1(x) PROVE DisputeInv'
<1>1. /\ pc[x] = "signing" /\ Leave(x)
      /\ UNCHANGED <<polling, appealed, funds, marker, evidence, frozen, sub, world, clock, bounds>>
      /\ IF Adjudicable THEN state' = "resolved" /\ row' = [row EXCEPT ![1] = opinion[x]]
                        ELSE UNCHANGED <<state, row>>
  BY Zenon DEF CommitRound1
<1>2. /\ pc' \in [Proc -> Pcs] /\ opinion' \in [Proc -> Rows \cup {NoRow}]
      /\ base' \in [Proc -> Poll] /\ late' \in [Proc -> BOOLEAN] /\ CallsKnow'
  BY Zenon, <1>1, LeaveKeeps
<1>3. opinion[x] \in Rows /\ ~evidenceOpen /\ row \in [1..2 -> Rows \cup {NoRow}]
      /\ (federated /\ opinion[x].n < Quorum => deadline)
  BY Zenon, <1>1 DEF DisputeInv, CallsKnow, Unheard, TypeOK
<1>4. TypeOK'
  BY <1>1, <1>2, <1>3 DEF DisputeInv, TypeOK, States
<1>5. RowsFollowState'
  BY <1>1, <1>3, NoRowType DEF DisputeInv, RowsFollowState, Adjudicable
<1>6. FundsFollowRows'
  BY Zenon, <1>1, <1>3 DEF DisputeInv, FundsFollowRows, Adjudicable, Governing, Outcome
<1>7. Unheard' /\ QuorumOrDeadline'
  BY Zenon, <1>1, <1>3 DEF DisputeInv, Unheard, QuorumOrDeadline, Adjudicable
<1> QED
  BY Zenon, <1>2, <1>4, <1>5, <1>6, <1>7 DEF DisputeInv

\* A finalization on a read: of round 1 after the appeal window, of round 2
\* when its fund action was refused before.
LEMMA ReadInv == ASSUME DisputeInv, ReadExpired \/ ReadRound2 PROVE DisputeInv'
<1>1. PICK r \in 1..2 :
        /\ row[r] # NoRow /\ Finalize(r) /\ state \in {"resolved", "appealed"}
        /\ r = 1 => state = "resolved" /\ row[2] = NoRow
  BY DEF ReadExpired, ReadRound2, Expired, DisputeInv, RowsFollowState
<1>2. UNCHANGED <<row, polling, appealed, evidence, frozen, process, sub, world, clock, bounds>>
  BY Zenon, <1>1 DEF Finalize
<1>3. row[r] \in Rows /\ row[r].v \in Verdict /\ position \in Positions /\ funds = "locked"
  BY Zenon, <1>1 DEF DisputeInv, TypeOK, FundsFollowRows, Rows
<1>4. CallsKnow' /\ QuorumOrDeadline' /\ ~evidenceOpen
  BY Zenon, <1>1, <1>2 DEF DisputeInv, CallsKnow, QuorumOrDeadline, Unheard
<1>5. CASE MayExecute(row[r].v) /\ state' = "final" /\ FundAction(row[r].v)
  <2>1. funds' = Outcome(row[r].v) /\ marker' \in BOOLEAN
    BY Zenon, <1>3, <1>5 DEF FundAction
  <2>2. Outcome(row[r].v) \in Verdict \cup {"unmoved"}
    BY Zenon, <1>3 DEF Outcome
  <2>3. TypeOK'
    BY <1>2, <1>5, <2>1, <2>2 DEF DisputeInv, TypeOK, States
  <2>4. RowsFollowState'
    BY <1>1, <1>2, <1>5 DEF DisputeInv, RowsFollowState
  <2>5. FundsFollowRows'
    <3>1. Governing' = row[r]
      BY <1>1, <1>2 DEF Governing
    <3>2. Outcome(row[r].v)' = Outcome(row[r].v)
      BY Zenon, <1>2 DEF Outcome
    <3>3. funds' # "locked"
      BY Zenon, <2>1, <2>2 DEF Verdict
    <3> QED
      BY Zenon, <1>2, <1>5, <2>1, <3>1, <3>3 DEF FundsFollowRows, Outcome
  <2> QED
    BY Zenon, <1>2, <1>4, <2>3, <2>4, <2>5 DEF DisputeInv, Unheard
<1>6. CASE marker' = TRUE /\ UNCHANGED <<state, funds>>
  <2>1. TypeOK'
    BY <1>2, <1>6 DEF DisputeInv, TypeOK
  <2>2. RowsFollowState' /\ FundsFollowRows'
    BY Zenon, <1>2, <1>6 DEF DisputeInv, RowsFollowState, FundsFollowRows, Governing, Outcome
  <2> QED
    BY Zenon, <1>2, <1>4, <2>1, <2>2 DEF DisputeInv, Unheard
<1> QED
  BY Zenon, <1>1, <1>5, <1>6 DEF Finalize

\* An appeal awaits its signature check.
LEMMA AppealStartInv == ASSUME DisputeInv, NEW a \in Proc, AppealStart(a) PROVE DisputeInv'
<1>1. /\ pc' = [pc EXCEPT ![a] = "verifying"] /\ state = "resolved"
      /\ UNCHANGED <<record, polling, evidence, frozen, opinion, base, late, sub, world, clock,
                     bounds>>
  BY Zenon DEF AppealStart, To
<1>2. TypeOK' /\ CallsKnow'
  BY <1>1 DEF DisputeInv, TypeOK, CallsKnow, Pcs
<1>3. RowsFollowState' /\ FundsFollowRows' /\ Unheard' /\ QuorumOrDeadline'
  BY Zenon, <1>1 DEF DisputeInv, RowsFollowState, FundsFollowRows, Unheard, QuorumOrDeadline, Governing,
              Outcome
<1> QED
  BY Zenon, <1>2, <1>3 DEF DisputeInv

\* The appeal's guarded commit.
LEMMA AppealCommitInv == ASSUME DisputeInv, NEW a \in Proc, AppealCommit(a) PROVE DisputeInv'
<1>1. /\ pc[a] = "verifying"
      /\ UNCHANGED <<row, polling, funds, marker, evidence, frozen, sub, world, clock, bounds>>
  BY Zenon DEF AppealCommit
<1>2. ~evidenceOpen
  BY Zenon, <1>1 DEF DisputeInv, Unheard
<1>3. CASE ~Appealable
  <2>1. Leave(a) /\ UNCHANGED <<state, appealed>>
    BY Zenon, <1>3 DEF AppealCommit
  <2>2. /\ pc' \in [Proc -> Pcs] /\ opinion' \in [Proc -> Rows \cup {NoRow}]
        /\ base' \in [Proc -> Poll] /\ late' \in [Proc -> BOOLEAN] /\ CallsKnow'
    BY Zenon, <1>1, <2>1, LeaveKeeps
  <2>3. TypeOK'
    BY <1>1, <2>1, <2>2 DEF DisputeInv, TypeOK
  <2>4. RowsFollowState' /\ FundsFollowRows' /\ Unheard' /\ QuorumOrDeadline'
    BY Zenon, <1>1, <1>2, <2>1 DEF DisputeInv, RowsFollowState, FundsFollowRows, Unheard,
                            QuorumOrDeadline, Governing, Outcome
  <2> QED
    BY Zenon, <2>2, <2>3, <2>4 DEF DisputeInv
<1>4. CASE Appealable
  <2>1. /\ state = "resolved" /\ state' = "appealed" /\ appealed' = TRUE
        /\ \/ To(a, "asking2") /\ UNCHANGED <<opinion, base, late>>
           \/ Leave(a)
    BY Zenon, <1>4 DEF AppealCommit, Appealable
  <2>2. RowsFollowState'
    BY Zenon, <1>1, <2>1 DEF DisputeInv, RowsFollowState
  <2>3. FundsFollowRows' /\ Unheard' /\ QuorumOrDeadline'
    BY Zenon, <1>1, <1>2, <2>1 DEF DisputeInv, FundsFollowRows, Unheard, QuorumOrDeadline
  <2>4. CASE To(a, "asking2") /\ UNCHANGED <<opinion, base, late>>
    <3>1. pc' = [pc EXCEPT ![a] = "asking2"]
      BY Zenon, <2>4 DEF To
    <3>2. TypeOK' /\ CallsKnow'
      BY <1>1, <2>1, <2>4, <3>1 DEF DisputeInv, TypeOK, CallsKnow, Pcs, States
    <3> QED
      BY Zenon, <2>2, <2>3, <3>2 DEF DisputeInv
  <2>5. CASE Leave(a)
    <3>1. TypeOK'
      BY <1>1, <2>1, <2>5, NoRowType, NoVotesType DEF DisputeInv, TypeOK, Leave, To, Pcs, States
    <3>2. CallsKnow'
      BY Zenon, <1>1, <2>1, <2>5 DEF DisputeInv, TypeOK, CallsKnow, Leave, To
    <3> QED
      BY Zenon, <2>2, <2>3, <3>1, <3>2 DEF DisputeInv
  <2> QED
    BY Zenon, <2>1, <2>4, <2>5
<1> QED
  BY Zenon, <1>3, <1>4

\* A round-2 verdict awaits its signature: the peers', or the operator's.
LEMMA Round2SignInv ==
  ASSUME DisputeInv, NEW x \in Proc, NEW res \in Rows, Sign(x, "signing2", res),
         appealed, ~evidenceOpen,
         UNCHANGED <<record, polling, evidence, frozen, base, late, sub, world, clock, bounds>>
  PROVE  DisputeInv'
<1>1. pc' = [pc EXCEPT ![x] = "signing2"] /\ opinion' = [opinion EXCEPT ![x] = res]
  BY Zenon DEF Sign, To
<1>2. TypeOK'
  BY <1>1 DEF DisputeInv, TypeOK, Pcs
<1>3. CallsKnow'
  BY Zenon, <1>1 DEF DisputeInv, TypeOK, CallsKnow
<1>4. RowsFollowState' /\ FundsFollowRows' /\ Unheard' /\ QuorumOrDeadline'
  BY Zenon DEF DisputeInv, RowsFollowState, FundsFollowRows, Unheard, QuorumOrDeadline, Governing,
         Outcome
<1> QED
  BY Zenon, <1>2, <1>3, <1>4 DEF DisputeInv

\* The peers' round-2 answers are in.
LEMMA AppealAnswerInv == ASSUME DisputeInv, NEW a \in Proc, AppealAnswer(a) PROVE DisputeInv'
<1>1. PICK new \in Answers(Peer) : Sign(a, "signing2", Aggregate(Cast(NoVotes, new)))
  BY Zenon DEF AppealAnswer
<1>2. Cast(NoVotes, new) \in Poll
  BY Zenon, CastType, NoVotesType
<1>3. Aggregate(Cast(NoVotes, new)) \in Rows
  BY Zenon, <1>2, AggregateType
<1>4. appealed /\ ~evidenceOpen
  BY Zenon DEF AppealAnswer, DisputeInv, CallsKnow, Unheard
<1>5. UNCHANGED <<record, polling, evidence, frozen, base, late, sub, world, clock, bounds>>
  BY Zenon DEF AppealAnswer
<1> QED
  BY Zenon, <1>1, <1>3, <1>4, <1>5, Round2SignInv

\* The operator's round-2 verdict awaits its signature.
LEMMA ResolveRound2Inv == ASSUME DisputeInv, NEW r \in Call, ResolveRound2(r) PROVE DisputeInv'
<1>1. PICK v \in Verdict : Sign(r, "signing2", [v |-> v, n |-> 0])
  BY Zenon DEF ResolveRound2
<1>2. r \in Proc /\ [v |-> v, n |-> 0] \in Rows
  BY Zenon DEF Proc, Rows
<1>3. appealed /\ ~evidenceOpen
  BY Zenon DEF ResolveRound2, DisputeInv, RowsFollowState, Unheard
<1>4. UNCHANGED <<record, polling, evidence, frozen, base, late, sub, world, clock, bounds>>
  BY Zenon DEF ResolveRound2
<1> QED
  BY Zenon, <1>1, <1>2, <1>3, <1>4, Round2SignInv

\* The round-2 commit: row, state and money, or the row alone.
LEMMA CommitRound2Inv == ASSUME DisputeInv, NEW x \in Proc, CommitRound2(x) PROVE DisputeInv'
<1> DEFINE v == opinion[x].v
<1>1. /\ pc[x] = "signing2" /\ Leave(x)
      /\ UNCHANGED <<polling, appealed, evidence, frozen, sub, world, clock, bounds>>
  BY Zenon DEF CommitRound2
<1>2. /\ pc' \in [Proc -> Pcs] /\ opinion' \in [Proc -> Rows \cup {NoRow}]
      /\ base' \in [Proc -> Poll] /\ late' \in [Proc -> BOOLEAN] /\ CallsKnow'
  BY Zenon, <1>1, LeaveKeeps
<1>3. opinion[x] \in Rows /\ v \in Verdict /\ opinion[x] # NoRow /\ ~evidenceOpen /\ appealed
      /\ row \in [1..2 -> Rows \cup {NoRow}] /\ marker \in BOOLEAN /\ position \in Positions
  BY Zenon, <1>1, NoRowType DEF DisputeInv, CallsKnow, Unheard, TypeOK, Rows
<1>4. Unheard'
  BY Zenon, <1>1, <1>3 DEF Unheard
<1>5. CASE UNCHANGED <<state, row, funds, marker>>
  <2>1. TypeOK'
    BY <1>1, <1>2, <1>5 DEF DisputeInv, TypeOK
  <2>2. RowsFollowState' /\ FundsFollowRows' /\ QuorumOrDeadline'
    BY Zenon, <1>1, <1>5 DEF DisputeInv, RowsFollowState, FundsFollowRows, QuorumOrDeadline, Governing,
                      Outcome
  <2> QED
    BY Zenon, <1>2, <1>4, <2>1, <2>2 DEF DisputeInv
<1>6. CASE /\ state = "appealed" /\ state' = "final"
           /\ row' = [row EXCEPT ![2] = opinion[x]] /\ FundAction(v)
  <2>1. funds = "locked" /\ funds' = Outcome(v) /\ marker' \in BOOLEAN
    BY Zenon, <1>6 DEF DisputeInv, FundsFollowRows, FundAction
  <2>2. Outcome(v) \in Verdict \cup {"unmoved"}
    BY Zenon, <1>3 DEF Outcome
  <2>3. row'[1] = row[1] /\ row'[2] = opinion[x] /\ row' \in [1..2 -> Rows \cup {NoRow}]
    BY <1>3, <1>6
  <2>4. TypeOK'
    BY <1>1, <1>2, <1>6, <2>1, <2>2, <2>3 DEF DisputeInv, TypeOK, States
  <2>5. RowsFollowState' /\ QuorumOrDeadline'
    BY Zenon, <1>1, <1>3, <1>6, <2>3 DEF DisputeInv, RowsFollowState, QuorumOrDeadline
  <2>6. FundsFollowRows'
    <3>1. Governing' = opinion[x]
      BY Zenon, <1>3, <2>3 DEF Governing
    <3>2. funds' # "locked"
      BY Zenon, <2>1, <2>2 DEF Verdict
    <3> QED
      BY Zenon, <1>1, <1>6, <2>1, <3>1, <3>2 DEF FundsFollowRows, Outcome
  <2> QED
    BY Zenon, <1>2, <1>4, <2>4, <2>5, <2>6 DEF DisputeInv
<1>7. CASE /\ state = "appealed" /\ row' = [row EXCEPT ![2] = opinion[x]]
           /\ marker' \in BOOLEAN /\ UNCHANGED <<state, funds>>
  <2>1. row'[1] = row[1] /\ row'[2] = opinion[x] /\ row' \in [1..2 -> Rows \cup {NoRow}]
    BY <1>3, <1>7
  <2>2. TypeOK'
    BY <1>1, <1>2, <1>7, <2>1 DEF DisputeInv, TypeOK
  <2>3. RowsFollowState' /\ FundsFollowRows' /\ QuorumOrDeadline'
    BY Zenon, <1>1, <1>3, <1>7, <2>1 DEF DisputeInv, RowsFollowState, FundsFollowRows, QuorumOrDeadline
  <2> QED
    BY <1>2, <1>4, <2>2, <2>3 DEF DisputeInv
<1>8. (marker \/ FundRefused(v)) \in BOOLEAN
  BY Zenon, <1>3
<1> QED
  BY Zenon, <1>5, <1>6, <1>7, <1>8 DEF CommitRound2, AwaitsRound2

\* Evidence, the clock, the ledger, the peers, the freeze and a crash.
LEMMA WorldInv ==
  ASSUME DisputeInv,
         \/ \E e \in Submission : SubmitStart(e) \/ SubmitCommit(e)
         \/ CloseEvidence \/ PassDeadline \/ CloseAppeal \/ AccountChange \/ ForwardChange
         \/ MeshChange \/ Freeze \/ Unfreeze \/ Crash
  PROVE  DisputeInv'
<1>1. CASE \E e \in Submission : SubmitStart(e) \/ SubmitCommit(e)
  <2>1. /\ UNCHANGED <<record, polling, frozen, process, world, clock, bounds>>
        /\ sub' \in [Submission -> {"idle", "verifying"}] /\ evidence' \in Nat
    BY <1>1 DEF DisputeInv, TypeOK, SubmitStart, SubmitCommit
  <2>2. TypeOK' /\ CallsKnow'
    BY <2>1 DEF DisputeInv, TypeOK, CallsKnow
  <2>3. RowsFollowState' /\ FundsFollowRows' /\ Unheard' /\ QuorumOrDeadline'
    BY Zenon, <2>1 DEF DisputeInv, RowsFollowState, FundsFollowRows, Unheard, QuorumOrDeadline,
                Governing, Outcome
  <2> QED
    BY Zenon, <2>2, <2>3 DEF DisputeInv
<1>2. CASE CloseEvidence \/ PassDeadline \/ CloseAppeal
  <2>1. /\ UNCHANGED <<record, polling, evidence, frozen, process, sub, world, bounds>>
        /\ evidenceOpen' \in BOOLEAN /\ deadline' \in BOOLEAN /\ appealOpen' \in BOOLEAN
        /\ (deadline => deadline') /\ (evidenceOpen' => evidenceOpen)
    <3>1. CASE CloseEvidence
      BY Zenon, <3>1 DEF DisputeInv, TypeOK, CloseEvidence
    <3>2. CASE PassDeadline
      BY Zenon, <3>2 DEF DisputeInv, TypeOK, PassDeadline
    <3>3. CASE CloseAppeal
      BY Zenon, <3>3 DEF DisputeInv, TypeOK, CloseAppeal
    <3> QED
      BY Zenon, <1>2, <3>1, <3>2, <3>3
  <2>2. TypeOK' /\ CallsKnow'
    BY <2>1 DEF DisputeInv, TypeOK, CallsKnow
  <2>3. RowsFollowState' /\ FundsFollowRows' /\ Unheard' /\ QuorumOrDeadline'
    BY Zenon, <2>1 DEF DisputeInv, RowsFollowState, FundsFollowRows, Unheard, QuorumOrDeadline,
                Governing, Outcome
  <2> QED
    BY <2>2, <2>3 DEF DisputeInv
<1>3. CASE AccountChange \/ ForwardChange \/ MeshChange
  <2>1. /\ UNCHANGED <<record, polling, evidence, frozen, process, sub, federated, clock, bounds>>
        /\ short' \in BOOLEAN /\ mesh' \in BOOLEAN /\ position' \in Positions
        /\ (state = "final" => UNCHANGED position)
    BY Zenon, <1>3 DEF DisputeInv, TypeOK, AccountChange, ForwardChange, MeshChange, Positions
  <2>2. TypeOK' /\ CallsKnow'
    BY <2>1 DEF DisputeInv, TypeOK, CallsKnow
  <2>3. RowsFollowState' /\ FundsFollowRows' /\ Unheard' /\ QuorumOrDeadline'
    BY Zenon, <2>1 DEF DisputeInv, RowsFollowState, FundsFollowRows, Unheard, QuorumOrDeadline,
                Governing, Outcome
  <2> QED
    BY <2>2, <2>3 DEF DisputeInv
<1>4. CASE Freeze \/ Unfreeze
  <2>1. /\ UNCHANGED <<record, polling, evidence, process, sub, world, clock>>
        /\ frozen' \in BOOLEAN /\ freezes' \in Nat /\ crashes' \in Nat
    <3>1. CASE Freeze
      BY <3>1 DEF DisputeInv, TypeOK, Freeze
    <3>2. CASE Unfreeze
      BY Zenon, <3>2 DEF DisputeInv, TypeOK, Unfreeze
    <3> QED
      BY Zenon, <1>4, <3>1, <3>2
  <2>2. TypeOK' /\ CallsKnow'
    BY <2>1 DEF DisputeInv, TypeOK, CallsKnow
  <2>3. RowsFollowState' /\ FundsFollowRows' /\ Unheard' /\ QuorumOrDeadline'
    BY Zenon, <2>1 DEF DisputeInv, RowsFollowState, FundsFollowRows, Unheard, QuorumOrDeadline,
                Governing, Outcome
  <2> QED
    BY <2>2, <2>3 DEF DisputeInv
<1>5. CASE Crash
  <2>1. TypeOK'
    BY <1>5, NoRowType, NoVotesType DEF DisputeInv, TypeOK, Crash, Pcs
  <2>2. CallsKnow'
    BY Zenon, <1>5 DEF CallsKnow, Crash
  <2>3. RowsFollowState' /\ FundsFollowRows' /\ Unheard' /\ QuorumOrDeadline'
    BY Zenon, <1>5 DEF Crash, DisputeInv, RowsFollowState, FundsFollowRows, Unheard, QuorumOrDeadline,
                Governing, Outcome
  <2> QED
    BY Zenon, <2>1, <2>2, <2>3 DEF DisputeInv
<1> QED
  BY Zenon, <1>1, <1>2, <1>3, <1>4, <1>5

\* Every step keeps the invariant.
LEMMA StepInv == DisputeInv /\ [Next]_vars => DisputeInv'
<1> SUFFICES ASSUME DisputeInv, [Next]_vars PROVE DisputeInv'
  BY Zenon
<1>1. CASE \E r \in Call : Resolve(r) \/ ResolveRound2(r)
  BY Zenon, <1>1, ResolveInv, ResolveRound2Inv
<1>2. CASE \E c \in Cycle : WorkerDue(c) \/ WorkerAttempt(c)
  BY Zenon, <1>2, WorkerInv
<1>3. CASE \E a \in Appeal : AppealStart(a)
  BY Zenon, <1>3, AppealStartInv DEF Proc
<1>4. CASE \E x \in Proc : Continue(x)
  BY Zenon, <1>4, AnswerInv, CommitRound1Inv, AppealCommitInv, AppealAnswerInv, CommitRound2Inv
     DEF Continue
<1>5. CASE ReadExpired \/ ReadRound2
  BY Zenon, <1>5, ReadInv
<1>6. CASE \/ \E e \in Submission : SubmitStart(e) \/ SubmitCommit(e)
           \/ CloseEvidence \/ PassDeadline \/ CloseAppeal \/ AccountChange \/ ForwardChange
           \/ MeshChange \/ Freeze \/ Unfreeze \/ Crash
  BY Zenon, <1>6, WorldInv
<1>7. CASE UNCHANGED vars
  <2>1. TypeOK' /\ CallsKnow'
    BY <1>7 DEF vars, DisputeInv, TypeOK, CallsKnow
  <2>2. RowsFollowState' /\ FundsFollowRows' /\ Unheard' /\ QuorumOrDeadline'
    BY Zenon, <1>7 DEF vars, DisputeInv, RowsFollowState, FundsFollowRows, Unheard, QuorumOrDeadline,
                Governing, Outcome
  <2> QED
    BY Zenon, <2>1, <2>2 DEF DisputeInv
<1> QED
  BY Zenon, <1>1, <1>2, <1>3, <1>4, <1>5, <1>6, <1>7 DEF Next

\* The inductive invariant holds in every reachable state of a dispute.
THEOREM DisputeInvariance == Spec => []DisputeInv
BY InitInv, StepInv, PTL DEF Spec

\* Every reachable state of a dispute is well typed.
THEOREM DisputeTypes == Spec => []TypeOK
<1>1. DisputeInv => TypeOK
  BY Zenon DEF DisputeInv
<1> QED
  BY <1>1, DisputeInvariance, PTL

\* The money moves once, when the dispute becomes final, and as the governing
\* resolution says, whatever calls, cycles, appeals and reads race.
THEOREM MoneyFollowsVerdict == Spec => []VerdictExecuted
<1>1. DisputeInv => VerdictExecuted
  BY Zenon DEF DisputeInv, RowsFollowState, FundsFollowRows, VerdictExecuted
<1> QED
  BY <1>1, DisputeInvariance, PTL

\* Below the quorum the peers' dispute is decided only after the deadline.
THEOREM WindowKept == Spec => []QuorumOrDeadline
<1>1. DisputeInv => QuorumOrDeadline
  BY Zenon DEF DisputeInv
<1> QED
  BY <1>1, DisputeInvariance, PTL

\* No vote and no verdict before the evidence is in.
THEOREM EvidenceFirst == Spec => []EvidenceHeard
<1>1. DisputeInv => EvidenceHeard
  BY Zenon DEF DisputeInv, Unheard, RowsFollowState, EvidenceHeard
<1> QED
  BY <1>1, DisputeInvariance, PTL
-----------------------------------------------------------------------------
(* What no step does *)

\* A step moves no dispute back, touches no final one and replaces no first row.
Onward ==
  /\ Stage[state] <= Stage[state']
  /\ state = "final" => UNCHANGED record
  /\ row[1] # NoRow => row'[1] = row[1]

\* The steps that write the record of the dispute.
Writes ==
  \/ \E r \in Call : Resolve(r)
  \/ \E x \in Proc : CommitRound1(x) \/ AppealCommit(x) \/ CommitRound2(x)
  \/ ReadExpired \/ ReadRound2

\* Every other step leaves the record alone.
LEMMA OthersWriteNothing == [Next]_vars => Writes \/ UNCHANGED record
<1> SUFFICES ASSUME [Next]_vars, ~Writes PROVE UNCHANGED record
  BY Zenon
<1>1. CASE \E r \in Call : ResolveRound2(r)
  BY Zenon, <1>1 DEF ResolveRound2
<1>2. CASE \E c \in Cycle : WorkerDue(c) \/ WorkerAttempt(c)
  BY Zenon, <1>2 DEF WorkerDue, WorkerAttempt
<1>3. CASE \E a \in Appeal : AppealStart(a)
  BY Zenon, <1>3 DEF AppealStart
<1>4. CASE \E x \in Proc : AttemptAnswer(x) \/ AppealAnswer(x)
  BY Zenon, <1>4 DEF AttemptAnswer, AppealAnswer
<1>5. CASE \E e \in Submission : SubmitStart(e) \/ SubmitCommit(e)
  BY Zenon, <1>5 DEF SubmitStart, SubmitCommit
<1>6. CASE CloseEvidence \/ PassDeadline \/ CloseAppeal \/ AccountChange \/ ForwardChange
  BY Zenon, <1>6 DEF CloseEvidence, PassDeadline, CloseAppeal, AccountChange, ForwardChange
<1>7. CASE MeshChange \/ Freeze \/ Unfreeze \/ Crash
  BY Zenon, <1>7 DEF MeshChange, Freeze, Unfreeze, Crash
<1>8. CASE UNCHANGED vars
  BY Zenon, <1>8 DEF vars
<1> QED
  BY Zenon, <1>1, <1>2, <1>3, <1>4, <1>5, <1>6, <1>7, <1>8 DEF Next, Continue, Writes

\* From the invariant, every step goes onward.
LEMMA StepsOnward == DisputeInv /\ [Next]_vars => Onward
<1> SUFFICES ASSUME DisputeInv, [Next]_vars PROVE Onward
  BY Zenon
<1>1. state \in States /\ row \in [1..2 -> Rows \cup {NoRow}]
  BY Zenon DEF DisputeInv, TypeOK
<1>2. CASE UNCHANGED record
  BY <1>1, <1>2 DEF Onward, Stage, States
<1>3. ASSUME NEW r \in Call, Resolve(r) PROVE Onward
  BY <1>1, <1>3 DEF Resolve, Adjudicable, Onward, Stage, AttemptStart
<1>4. ASSUME NEW x \in Proc, CommitRound1(x) PROVE Onward
  BY <1>1, <1>4 DEF CommitRound1, Adjudicable, Onward, Stage, States
<1>5. ASSUME NEW x \in Proc, AppealCommit(x) PROVE Onward
  BY <1>1, <1>5 DEF AppealCommit, Appealable, Onward, Stage, States
<1>6. ASSUME NEW x \in Proc, CommitRound2(x) PROVE Onward
  <2>1. CASE UNCHANGED <<state, row, funds, marker>>
    BY <1>1, <1>6, <2>1 DEF CommitRound2, Onward, Stage, States
  <2>2. CASE AwaitsRound2
    <3>1. state = "appealed" /\ state' \in {"appealed", "final"}
          /\ row' = [row EXCEPT ![2] = opinion[x]]
      BY Zenon, <1>6, <2>2 DEF CommitRound2, AwaitsRound2
    <3> QED
      BY <1>1, <3>1 DEF Onward, Stage
  <2> QED
    BY Zenon, <1>6, <2>1, <2>2 DEF CommitRound2
<1>7. CASE ReadExpired \/ ReadRound2
  <2>1. state \in {"resolved", "appealed"} /\ UNCHANGED row /\ state' \in {state, "final"}
    BY Zenon, <1>7 DEF ReadExpired, ReadRound2, Expired, Finalize
  <2> QED
    BY <2>1 DEF Onward, Stage
<1> QED
  BY Zenon, <1>2, <1>3, <1>4, <1>5, <1>6, <1>7, OthersWriteNothing DEF Writes

\* Neither an appeal that awaited its signature check nor a verdict that lost a
\* race moves a dispute back or changes a final one.
THEOREM DisputeOnward == Spec => NeverMovedBack
<1>1. DisputeInv /\ [Next]_vars
        => [Stage[state] <= Stage[state'] /\ (state = "final" => UNCHANGED record)]_vars
  BY Zenon, StepsOnward DEF Onward
<1> QED
  BY <1>1, DisputeInvariance, PTL DEF Spec, NeverMovedBack

\* A signed round-1 resolution is never replaced, whichever of /resolve and the
\* worker cycles committed it.
THEOREM OneFirstVerdict == Spec => FirstVerdictStands
<1>1. DisputeInv /\ [Next]_vars => [row[1] # NoRow => row'[1] = row[1]]_vars
  BY Zenon, StepsOnward DEF Onward
<1> QED
  BY <1>1, DisputeInvariance, PTL DEF Spec, FirstVerdictStands
=============================================================================
