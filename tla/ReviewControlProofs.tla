-------------------------- MODULE ReviewControlProofs --------------------------
(***************************************************************************)
(* Proofs about the control plane: its rows, the line of attempts of a     *)
(* change, and which runs may send, end and stay stopped.                  *)
(***************************************************************************)
EXTENDS ReviewControl, TLAPS

\* Runs are accepted in their order, so the next one is larger than all.
InOrder == \A r \in Runs : Accepted(r) => \A s \in 1..(r - 1) : Accepted(s)

\* The generation of a change is at most the run that is current: it cannot
\* run out before the runs do.
HeadBounded ==
  \A c \in Changes :
    LET t == head[c].current
    IN IF t = NONE THEN head[c].generation = 0
       ELSE /\ Accepted(t) /\ attempt[t] # NONE
            /\ head[c].generation <= t

\* Actions belong to accepted runs.
ActionsLinked == \A x \in Actions : Exists(x) => Accepted(action[x].run)

RowInv == TypeOK /\ InOrder /\ HeadBounded /\ ActionsLinked

LEMMA NoneIsNoRow ==
  /\ NONE \notin Runs \cup Heads \cup JobRow \cup AttemptRow \cup ActionRow \cup IntakeRow
  /\ \A n \in Nat : n # NONE
<1>1. NONE \notin Nat /\ Runs \subseteq Nat /\ Heads \subseteq Nat
  BY RequestAssumption, BoundAssumption DEF Runs, Heads
<1> QED BY <1>1, RequestAssumption, RowAssumption

LEMMA NewJobType ==
  ASSUME NEW q \in Requests, NEW t \in Runs, NEW d \in BOOLEAN
  PROVE  NewJob(q, t, d) \in JobRow
BY DEF NewJob, JobRow, InboxStates

LEMMA AfterDeadlineType ==
  ASSUME TypeOK, NEW r \in Runs
  PROVE  /\ AfterDeadline(r) \in JobRow \cup {NONE}
         /\ AfterDeadline(r) = NONE <=> job[r] = NONE
BY NoneIsNoRow DEF TypeOK, AfterDeadline, Accepted, JobRow, InboxStates

\* What is next in order is larger than the current run of every change.
LEMMA NextIsLarger ==
  ASSUME RowInv, NEW c \in Changes, NEW r \in Runs, NextRun(r)
  PROVE  head[c].generation < r
<1> DEFINE t == head[c].current
<1>1. r \in Nat /\ r > 0 /\ head[c].generation \in Nat /\ (t = NONE \/ t \in Runs)
  BY BoundAssumption DEF RowInv, TypeOK, HeadRow, Runs
<1>2. CASE t = NONE
  BY <1>1, <1>2 DEF RowInv, HeadBounded
<1>3. CASE t # NONE
  <2>1. Accepted(t) /\ head[c].generation <= t /\ t \in Nat
    BY <1>1, <1>3, BoundAssumption DEF RowInv, HeadBounded, Runs
  <2>2. ~(r < t)
    BY <1>1, <1>3, <2>1 DEF RowInv, InOrder, NextRun, Runs
  <2>3. r # t
    BY <2>1 DEF NextRun
  <2> QED BY <1>1, <2>1, <2>2, <2>3
<1> QED BY <1>2, <1>3

LEMMA TakeLeaseType ==
  ASSUME TypeOK, NEW x \in Actions, NEW n \in Nat, Prepared(x), TakeLease(x, n)
  PROVE  action' \in [Actions -> ActionRow \cup {NONE}] /\ claims' \subseteq ActionClaim
<1>1. action[x] \in ActionRow
  BY DEF TypeOK, Prepared, Exists
<1>2. action[x].fence + 1 \in 1..MaxFence /\ action[x].fence + 1 \in 0..MaxFence
  BY <1>1, BoundAssumption DEF ActionRow, TakeLease
<1>3. [action |-> x, fence |-> action[x].fence + 1, token |-> n] \in ActionClaim
  BY <1>2 DEF ActionClaim
<1>4. [action[x] EXCEPT !.fence = @ + 1, !.token = n, !.leased = TRUE] \in ActionRow
  BY <1>1, <1>2 DEF ActionRow
<1> QED BY <1>3, <1>4 DEF TypeOK, TakeLease

\* What a step that accepts no run leaves of the order and of the heads.
LEMMA RowsKept ==
  ASSUME RowInv, TypeOK', UNCHANGED head,
         \A r \in Runs : (Accepted(r) <=> Accepted(r)') /\ (attempt[r] # NONE => attempt'[r] # NONE),
         \A x \in Actions : action'[x] # NONE =>
           \/ action[x] # NONE /\ action'[x].run = action[x].run
           \/ action'[x].run \in Runs /\ Accepted(action'[x].run)
  PROVE  RowInv'
<1>1. InOrder'
  BY BoundAssumption DEF RowInv, InOrder, Runs
<1>2. HeadBounded'
  BY DEF RowInv, HeadBounded, TypeOK, HeadRow
<1>3. ActionsLinked'
  BY DEF RowInv, ActionsLinked, TypeOK, ActionRow, Exists, Accepted
<1> QED BY <1>1, <1>2, <1>3 DEF RowInv

LEMMA AcceptAttemptRows ==
  ASSUME RowInv, NEW h \in Handlers, NEW r \in Runs, AcceptAttempt(h, r)
  PROVE  RowInv'
<1> DEFINE i == intake[h]
           c == i.req.change
           old == head[c].current
           new == [change |-> c, snapshot |-> i.snapshot,
                   generation |-> head[c].generation + 1, active |-> TRUE, successor |-> NONE]
<1>1. i \in IntakeRow /\ i.req \in Requests /\ i.snapshot \in Heads /\ c \in Changes
  BY RequestAssumption DEF RowInv, TypeOK, AcceptAttempt, Admissible, IntakeRow
<1>2. head[c].generation < r /\ head[c].generation \in Nat /\ r \in Nat
  <2>1. NextRun(r)
    BY DEF AcceptAttempt
  <2>2. head[c].generation < r
    BY <1>1, <2>1, NextIsLarger
  <2>3. head[c] \in HeadRow
    BY <1>1 DEF RowInv, TypeOK
  <2> QED BY <2>2, <2>3, BoundAssumption DEF HeadRow, Runs
<1>3. head[c].generation + 1 \in Runs /\ head[c].generation + 1 \in 0..MaxRun
  BY <1>2, BoundAssumption DEF Runs
<1>4. new \in AttemptRow
  BY <1>1, <1>3 DEF AttemptRow
<1>a. \A t \in Runs : attempt'[t] = IF t = r THEN new
                                    ELSE IF t = old THEN [attempt[t] EXCEPT !.active = FALSE, !.successor = r]
                                    ELSE attempt[t]
  <2>1. r # old
    BY <1>1, NoneIsNoRow DEF RowInv, HeadBounded, AcceptAttempt, NextRun
  <2> QED BY <2>1 DEF AcceptAttempt
<1> HIDE DEF new
<1>5. attempt' \in [Runs -> AttemptRow \cup {NONE}]
  <2>1. \A t \in Runs : attempt[t] # NONE =>
          [attempt[t] EXCEPT !.active = FALSE, !.successor = r] \in AttemptRow
    BY DEF RowInv, TypeOK, AttemptRow
  <2>2. old # NONE => attempt[old] # NONE
    BY <1>1 DEF RowInv, HeadBounded
  <2>3. \A t \in Runs : attempt[t] \in AttemptRow \cup {NONE}
    BY DEF RowInv, TypeOK
  <2>4. old \in Runs \cup {NONE}
    BY <1>1 DEF RowInv, TypeOK, HeadRow
  <2>5. \A t \in Runs : attempt'[t] \in AttemptRow \cup {NONE}
    BY <1>4, <1>a, <2>1, <2>2, <2>3, NoneIsNoRow
  <2> QED BY <2>5 DEF AcceptAttempt
<1>6. [generation |-> new.generation, current |-> r] \in HeadRow
  BY <1>3 DEF HeadRow, new
<1>b. \A t \in Runs : t = r \/ attempt[t] # NONE => attempt'[t] # NONE
  <2>1. \A t \in Runs : attempt[t] # NONE =>
          [attempt[t] EXCEPT !.active = FALSE, !.successor = r] \in AttemptRow
    BY DEF RowInv, TypeOK, AttemptRow
  <2> QED BY <1>4, <1>a, <2>1, NoneIsNoRow
<1>7. NewJob(i.req, r, FALSE) \in JobRow
  BY <1>1, NewJobType
<1>8. TypeOK'
  BY <1>1, <1>5, <1>6, <1>7 DEF AcceptAttempt, RowInv, TypeOK, new
<1>9. \A t \in Runs : job'[t] # NONE <=> Accepted(t) \/ t = r
  BY <1>7, NoneIsNoRow DEF AcceptAttempt, Accepted, RowInv, TypeOK
<1>10. InOrder'
  <2> SUFFICES ASSUME NEW u \in Runs, job'[u] # NONE, NEW v \in 1..(u - 1)
               PROVE  job'[v] # NONE
    BY DEF InOrder, Accepted
  <2>1. v \in Runs
    BY BoundAssumption DEF Runs
  <2>2. Accepted(v)
    BY <1>9 DEF RowInv, InOrder, AcceptAttempt, NextRun
  <2> QED BY <1>9, <2>1, <2>2
<1>11. HeadBounded'
  <2> SUFFICES ASSUME NEW d \in Changes
               PROVE  LET t == head'[d].current
                      IN IF t = NONE THEN head'[d].generation = 0
                         ELSE /\ job'[t] # NONE /\ attempt'[t] # NONE
                              /\ head'[d].generation <= t
    BY DEF HeadBounded, Accepted
  <2>1. CASE d = c
    <3>1. head'[d] = [generation |-> head[c].generation + 1, current |-> r]
      BY <2>1, <1>1 DEF AcceptAttempt, RowInv, TypeOK
    <3> QED BY <3>1, <1>2, <1>9, <1>b, NoneIsNoRow
  <2>2. CASE d # c
    <3>1. head'[d] = head[d] /\ head[d].current \in Runs \cup {NONE}
      BY <2>2 DEF AcceptAttempt, RowInv, TypeOK, HeadRow
    <3> QED BY <3>1, <1>9, <1>b DEF RowInv, HeadBounded
  <2> QED BY <2>1, <2>2
<1>12. ActionsLinked'
  BY <1>9 DEF AcceptAttempt, RowInv, ActionsLinked, TypeOK, ActionRow, Exists, Accepted
<1> QED BY <1>8, <1>10, <1>11, <1>12 DEF RowInv

LEMMA AcceptDuplicateRows ==
  ASSUME RowInv, NEW h \in Handlers, NEW r \in Runs, AcceptDuplicate(h, r)
  PROVE  RowInv'
<1> DEFINE i == intake[h]
           t == head[i.req.change].current
<1>1. i \in IntakeRow /\ i.req \in Requests /\ i.req.change \in Changes
  BY RequestAssumption DEF RowInv, TypeOK, AcceptDuplicate, Admissible, IntakeRow
<1>2. t \in Runs
  BY <1>1 DEF RowInv, TypeOK, HeadRow, AcceptDuplicate, Duplicate
<1>3. NewJob(i.req, t, TRUE) \in JobRow
  BY <1>1, <1>2, NewJobType
<1>4. TypeOK'
  BY <1>3 DEF RowInv, TypeOK, AcceptDuplicate
<1>5. \A u \in Runs : job'[u] # NONE <=> Accepted(u) \/ u = r
  BY <1>3, NoneIsNoRow DEF AcceptDuplicate, Accepted, RowInv, TypeOK
<1>6. InOrder'
  <2> SUFFICES ASSUME NEW u \in Runs, job'[u] # NONE, NEW v \in 1..(u - 1)
               PROVE  job'[v] # NONE
    BY DEF InOrder, Accepted
  <2>1. v \in Runs
    BY BoundAssumption DEF Runs
  <2>2. Accepted(v)
    BY <1>5 DEF RowInv, InOrder, AcceptDuplicate, NextRun
  <2> QED BY <1>5, <2>1, <2>2
<1>7. HeadBounded'
  BY <1>5 DEF RowInv, HeadBounded, TypeOK, HeadRow, AcceptDuplicate, Accepted
<1>8. ActionsLinked'
  BY <1>5 DEF AcceptDuplicate, RowInv, ActionsLinked, TypeOK, ActionRow, Exists, Accepted
<1> QED BY <1>4, <1>6, <1>7, <1>8 DEF RowInv

\* A step on the rows of jobs, actions and attempts that already exist.
LEMMA RowStep == RowInv /\ [Next]_vars => RowInv'
<1> SUFFICES ASSUME RowInv, [Next]_vars PROVE RowInv'
  OBVIOUS
<1> USE DEF RowInv
<1>0. CASE UNCHANGED vars
  <2>1. TypeOK'
    BY <1>0 DEF vars, TypeOK
  <2> QED BY <1>0, <2>1, RowsKept DEF vars, Accepted
<1>1. ASSUME NEW c \in Changes, Push(c) PROVE RowInv'
  <2>1. TypeOK'
    BY <1>1, BoundAssumption DEF Push, TypeOK, Heads
  <2> QED BY <1>1, <2>1, RowsKept DEF Push, Accepted
<1>2. ASSUME NEW h \in Handlers, NEW q \in Requests, Receive(h, q) PROVE RowInv'
  <2>1. [req |-> q, generation |-> NONE, snapshot |-> NONE] \in IntakeRow
    BY DEF IntakeRow
  <2>2. TypeOK'
    BY <1>2, <2>1 DEF Receive, TypeOK
  <2> QED BY <1>2, <2>2, RowsKept DEF Receive, Accepted
<1>3. ASSUME NEW h \in Handlers, ObserveGeneration(h) \/ Enrich(h) \/ Abandon(h) PROVE RowInv'
  <2>1. intake[h] # NONE => /\ intake[h].req.change \in Changes
                            /\ intake[h] \in IntakeRow
    BY RequestAssumption DEF TypeOK, IntakeRow
  <2>2. ObserveGeneration(h) => TypeOK'
    <3> SUFFICES ASSUME ObserveGeneration(h) PROVE TypeOK'
      OBVIOUS
    <3> DEFINE g == head[intake[h].req.change].generation
    <3>1. g \in 0..MaxRun /\ intake[h] \in IntakeRow
      BY <2>1 DEF ObserveGeneration, TypeOK, HeadRow
    <3>2. [intake[h] EXCEPT !.generation = g] \in IntakeRow
      BY <3>1 DEF IntakeRow
    <3> QED BY <3>2 DEF ObserveGeneration, TypeOK
  <2>3. Enrich(h) => TypeOK'
    <3> SUFFICES ASSUME Enrich(h) PROVE TypeOK'
      OBVIOUS
    <3> DEFINE v == scm[intake[h].req.change]
    <3>1. v \in Heads /\ intake[h] \in IntakeRow
      BY <2>1 DEF Enrich, TypeOK
    <3>2. [intake[h] EXCEPT !.snapshot = v] \in IntakeRow
      BY <3>1 DEF IntakeRow
    <3> QED BY <3>2 DEF Enrich, TypeOK
  <2>4. Abandon(h) => TypeOK'
    BY DEF Abandon, TypeOK
  <2> QED BY <1>3, <2>2, <2>3, <2>4, RowsKept DEF ObserveGeneration, Enrich, Abandon, Accepted
<1>4. ASSUME NEW h \in Handlers, NEW r \in Runs, AcceptDuplicate(h, r) \/ AcceptAttempt(h, r) PROVE RowInv'
  BY <1>4, AcceptDuplicateRows, AcceptAttemptRows
<1>5. ASSUME NEW r \in Runs, Lapse(r) PROVE RowInv'
  <2>1. TypeOK'
    BY <1>5 DEF Lapse, TypeOK
  <2> QED BY <1>5, <2>1, RowsKept DEF Lapse, Accepted
<1>6. CASE ExpireInbox
  <2>1. TypeOK'
    BY <1>6, AfterDeadlineType DEF ExpireInbox, TypeOK
  <2> QED BY <1>6, <2>1, RowsKept, AfterDeadlineType DEF ExpireInbox, Accepted
<1>7. ASSUME NEW r \in Runs, ClaimInbox(r) PROVE RowInv'
  <2>1. [job[r] EXCEPT !.state = "running", !.token = 1] \in JobRow /\ [run |-> r, token |-> 1] \in JobClaim
    BY <1>7 DEF ClaimInbox, Claimable, Accepted, TypeOK, JobRow, JobClaim, InboxStates
  <2>2. TypeOK'
    BY <1>7, <2>1, AfterDeadlineType DEF ClaimInbox, TypeOK
  <2>3. \A s \in Runs : job'[s] # NONE <=> job[s] # NONE
    BY <1>7, <2>1, AfterDeadlineType, NoneIsNoRow DEF ClaimInbox, Claimable, Accepted
  <2> QED BY <1>7, <2>2, <2>3, RowsKept DEF ClaimInbox, Accepted
<1>8. ASSUME NEW th \in threads, ReturnSuccess(th) \/ ReturnFailure(th) PROVE RowInv'
  <2>1. th.run \in Runs
    BY DEF TypeOK, JobClaim
  <2>2. \A state \in InboxStates :
          Finish(th, state) => job' \in [Runs -> JobRow \cup {NONE}] /\ \A s \in Runs : job'[s] # NONE <=> job[s] # NONE
    <3> SUFFICES ASSUME NEW state \in InboxStates, Finish(th, state)
                 PROVE  job' \in [Runs -> JobRow \cup {NONE}] /\ \A s \in Runs : job'[s] # NONE <=> job[s] # NONE
      OBVIOUS
    <3>1. CASE Finishable(th)
      <4>1. [job[th.run] EXCEPT !.state = state, !.phase = "finished", !.allowed = FALSE] \in JobRow
        <5>1. job[th.run] \in JobRow
          BY <2>1, <3>1 DEF Finishable, Owns, Accepted, TypeOK
        <5> QED BY <5>1 DEF JobRow
      <4>2. job' = [job EXCEPT ![th.run] = [job[th.run] EXCEPT !.state = state, !.phase = "finished", !.allowed = FALSE]]
        BY <3>1 DEF Finish
      <4>3. job[th.run] # NONE
        BY <3>1 DEF Finishable, Owns, Accepted
      <4> QED BY <2>1, <4>1, <4>2, <4>3, NoneIsNoRow DEF TypeOK
    <3>2. CASE ~Finishable(th)
      BY <3>2 DEF Finish, TypeOK
    <3> QED BY <3>1, <3>2
  <2>3. \E state \in InboxStates : Finish(th, state)
    BY <1>8 DEF ReturnSuccess, ReturnFailure, InboxStates
  <2>4. /\ UNCHANGED <<scm, intake, attempt, head, action, lapsed, claims, early>>
        /\ threads' \subseteq threads
    BY <1>8 DEF ReturnSuccess, ReturnFailure
  <2>5. TypeOK'
    BY <2>1, <2>2, <2>3, <2>4 DEF TypeOK
  <2> QED BY <2>2, <2>3, <2>4, <2>5, RowsKept DEF Accepted
<1>9. ASSUME NEW th \in threads, NEW x \in Actions, PrepareAction(th, x) PROVE RowInv'
  <2>1. th.run \in Runs /\ job[th.run] \in JobRow
    BY <1>9 DEF TypeOK, JobClaim, PrepareAction, MayDispatch, Owns, Accepted
  <2>2. [run |-> th.run, attempt |-> job[th.run].attempt, fence |-> 0, token |-> 0,
         leased |-> FALSE, state |-> "prepared"] \in ActionRow
    BY <2>1, BoundAssumption DEF ActionRow, JobRow
  <2>3. TypeOK'
    BY <1>9, <2>2 DEF PrepareAction, TypeOK
  <2>4. \A y \in Actions : action'[y] # NONE =>
          \/ action[y] # NONE /\ action'[y].run = action[y].run
          \/ action'[y].run \in Runs /\ Accepted(action'[y].run)
    BY <1>9, <2>1 DEF PrepareAction, MayDispatch, Owns, TypeOK
  <2> QED BY <1>9, <2>3, <2>4, RowsKept DEF PrepareAction, Accepted
<1>10. ASSUME NEW th \in threads, NEW x \in Actions, ClaimPrepared(th, x) PROVE RowInv'
  <2>1. th.token \in Nat
    BY DEF TypeOK, JobClaim
  <2>2. TypeOK'
    BY <1>10, <2>1, TakeLeaseType DEF ClaimPrepared, TypeOK
  <2>e. \A y \in Actions : action'[y] # NONE => action[y] # NONE /\ action'[y].run = action[y].run
    BY <1>10 DEF ClaimPrepared, TakeLease, Prepared, Exists, TypeOK, ActionRow
  <2> QED BY <1>10, <2>2, <2>e, RowsKept DEF ClaimPrepared, Accepted
<1>11. ASSUME NEW x \in Actions, ReclaimPrepared(x) PROVE RowInv'
  <2> DEFINE r == action[x].run
  <2>1. r \in Runs /\ job[r] \in JobRow
    BY <1>11 DEF TypeOK, ActionRow, ReclaimPrepared, Prepared, Exists, MayDispatch, Owns, Accepted
  <2>2. job[r].token + 1 \in Nat
    BY <2>1 DEF JobRow
  <2>3. [job[r] EXCEPT !.token = @ + 1, !.grant = x] \in JobRow
    BY <2>1, <2>2 DEF JobRow
  <2>4. action' \in [Actions -> ActionRow \cup {NONE}] /\ claims' \subseteq ActionClaim
    BY <1>11, <2>2, TakeLeaseType DEF ReclaimPrepared
  <2>5. TypeOK'
    BY <1>11, <2>3, <2>4 DEF ReclaimPrepared, TypeOK
  <2>6. \A s \in Runs : job'[s] # NONE <=> job[s] # NONE
    BY <1>11, <2>1, <2>3, NoneIsNoRow DEF ReclaimPrepared, TypeOK
  <2>e. \A y \in Actions : action'[y] # NONE => action[y] # NONE /\ action'[y].run = action[y].run
    BY <1>11 DEF ReclaimPrepared, TakeLease, Prepared, Exists, TypeOK, ActionRow
  <2> QED BY <1>11, <2>5, <2>6, <2>e, RowsKept DEF ReclaimPrepared, Accepted
<1>12. ASSUME NEW x \in Actions, LeaseEnds(x) PROVE RowInv'
  <2>1. [action[x] EXCEPT !.leased = FALSE] \in ActionRow
    BY <1>12 DEF LeaseEnds, Prepared, Exists, TypeOK, ActionRow
  <2>2. TypeOK'
    BY <1>12, <2>1 DEF LeaseEnds, TypeOK
  <2>e. \A y \in Actions : action'[y] # NONE => action[y] # NONE /\ action'[y].run = action[y].run
    BY <1>12 DEF LeaseEnds, Prepared, Exists, TypeOK, ActionRow
  <2> QED BY <1>12, <2>2, <2>e, RowsKept DEF LeaseEnds, Accepted
<1>13. ASSUME NEW c \in claims, BeginPrepared(c) PROVE RowInv'
  <2> DEFINE x == c.action
             r == action[x].run
  <2>1. x \in Actions /\ action[x] \in ActionRow
    BY <1>13 DEF TypeOK, ActionClaim, BeginPrepared, Prepared, Exists
  <2>2. r \in Runs /\ job[r] \in JobRow
    BY <1>13, <2>1 DEF BeginPrepared, MayDispatch, Owns, Accepted, TypeOK, ActionRow
  <2>3. [action[x] EXCEPT !.state = "sending"] \in ActionRow /\ [job[r] EXCEPT !.phase = "effect_started"] \in JobRow
    BY <2>1, <2>2 DEF ActionRow, JobRow
  <2>4. TypeOK'
    BY <1>13, <2>3 DEF BeginPrepared, TypeOK
  <2>5. \A s \in Runs : job'[s] # NONE <=> job[s] # NONE
    BY <1>13, <2>2, <2>3, NoneIsNoRow DEF BeginPrepared, TypeOK
  <2>e. \A y \in Actions : action'[y] # NONE => action[y] # NONE /\ action'[y].run = action[y].run
    BY <1>13, <2>1 DEF BeginPrepared, Prepared, Exists, TypeOK, ActionRow
  <2> QED BY <1>13, <2>4, <2>5, <2>e, RowsKept DEF BeginPrepared, Accepted
<1>14. ASSUME NEW x \in Actions, NEW state \in {"uncertain", "result_recorded"}, RecordOutcome(x, state) PROVE RowInv'
  <2>1. [action[x] EXCEPT !.state = state] \in ActionRow
    BY <1>14 DEF RecordOutcome, Exists, TypeOK, ActionRow
  <2>2. TypeOK'
    BY <1>14, <2>1 DEF RecordOutcome, TypeOK
  <2>e. \A y \in Actions : action'[y] # NONE => action[y] # NONE /\ action'[y].run = action[y].run
    BY <1>14 DEF RecordOutcome, Prepared, Exists, TypeOK, ActionRow
  <2> QED BY <1>14, <2>2, <2>e, RowsKept DEF RecordOutcome, Accepted
<1>15. ASSUME NEW r \in Runs, NEW state \in {"completed", "failed"}, CompleteModelJob(r, state) PROVE RowInv'
  <2>1. [job[r] EXCEPT !.state = state, !.phase = "finished", !.allowed = FALSE] \in JobRow
    BY <1>15 DEF CompleteModelJob, Accepted, TypeOK, JobRow, InboxStates
  <2>2. TypeOK'
    BY <1>15, <2>1 DEF CompleteModelJob, TypeOK
  <2>3. \A s \in Runs : job'[s] # NONE <=> job[s] # NONE
    BY <1>15, <2>1, NoneIsNoRow DEF CompleteModelJob, Accepted, TypeOK
  <2> QED BY <1>15, <2>2, <2>3, RowsKept DEF CompleteModelJob, Accepted
<1>16. ASSUME NEW t \in Runs, CancelAttempt(t) PROVE RowInv'
  <2>1. PICK j \in JobRow : job' = [job EXCEPT ![t] = j]
    <3>1. job[t] # NONE
      BY <1>16, NoneIsNoRow DEF CancelAttempt, Current, TypeOK, AttemptRow, HeadBounded, Accepted
    <3>2. [job[t] EXCEPT !.state = "cancelled", !.phase = "finished", !.allowed = FALSE,
                         !.token = 0, !.cancelled = TRUE] \in JobRow
      BY <3>1 DEF TypeOK, JobRow, InboxStates
    <3> QED BY <1>16, <3>2 DEF CancelAttempt
  <2>2. PICK a \in AttemptRow : attempt' = [attempt EXCEPT ![t] = a]
    <3>1. [attempt[t] EXCEPT !.active = FALSE] \in AttemptRow
      BY <1>16 DEF CancelAttempt, TypeOK, AttemptRow
    <3> QED BY <1>16, <3>1 DEF CancelAttempt
  <2>3. TypeOK'
    <3>1. UNCHANGED <<scm, intake, head, action, lapsed, threads, claims, early>>
      BY <1>16 DEF CancelAttempt
    <3>2. job' \in [Runs -> JobRow \cup {NONE}] /\ attempt' \in [Runs -> AttemptRow \cup {NONE}]
      BY <2>1, <2>2 DEF TypeOK
    <3> QED BY <3>1, <3>2 DEF TypeOK
  <2>4. job[t] # NONE
    BY <1>16, NoneIsNoRow DEF CancelAttempt, Current, TypeOK, AttemptRow, HeadBounded, Accepted
  <2>5. \A s \in Runs : (job'[s] # NONE <=> job[s] # NONE) /\ (attempt[s] # NONE => attempt'[s] # NONE)
    BY <2>1, <2>2, <2>4, NoneIsNoRow DEF TypeOK
  <2> QED BY <1>16, <2>3, <2>5, RowsKept DEF CancelAttempt, Accepted
<1>17. ASSUME NEW x \in Actions, ReleaseUnused(x) PROVE RowInv'
  <2> DEFINE r == action[x].run
  <2>1. r \in Runs /\ job[r] \in JobRow /\ action[x] \in ActionRow
    BY <1>17 DEF ReleaseUnused, Unused, Prepared, Exists, TypeOK, ActionRow, ActionsLinked, Accepted
  <2>2. [action[x] EXCEPT !.state = "not_executed"] \in ActionRow
    BY <2>1 DEF ActionRow
  <2>3. [job[r] EXCEPT !.state = "superseded", !.phase = "finished",
                       !.allowed = FALSE, !.token = 0] \in JobRow
    BY <2>1 DEF JobRow, InboxStates
  <2>4. PICK j \in JobRow : job' = [job EXCEPT ![r] = j]
    BY <1>17, <2>1, <2>3 DEF ReleaseUnused, TypeOK
  <2>5. TypeOK'
    BY <1>17, <2>2, <2>4 DEF ReleaseUnused, TypeOK
  <2>6. \A s \in Runs : job'[s] # NONE <=> job[s] # NONE
    BY <2>1, <2>4, NoneIsNoRow DEF TypeOK
  <2>e. \A y \in Actions : action'[y] # NONE => action[y] # NONE /\ action'[y].run = action[y].run
    BY <1>17 DEF ReleaseUnused, Unused, Prepared, Exists, TypeOK, ActionRow
  <2> QED BY <1>17, <2>5, <2>6, <2>e, RowsKept DEF ReleaseUnused, Accepted
<1>18. ASSUME NEW x \in Actions, QuarantineReceipt(x) PROVE RowInv'
  <2>1. TypeOK'
    BY <1>18 DEF QuarantineReceipt, TypeOK
  <2> QED BY <1>18, <2>1, RowsKept DEF QuarantineReceipt, Accepted
<1> QED
  BY <1>0, <1>1, <1>2, <1>3, <1>4, <1>5, <1>6, <1>7, <1>8, <1>9, <1>10, <1>11, <1>12, <1>13, <1>14, <1>15, <1>16, <1>17,
     <1>18
  DEF Next, Intake, Execution, Control

LEMMA RowInit == Init => RowInv
<1> SUFFICES ASSUME Init PROVE RowInv
  OBVIOUS
<1>1. TypeOK
  BY BoundAssumption DEF Init, TypeOK, Heads, HeadRow
<1>2. InOrder /\ HeadBounded /\ ActionsLinked
  BY NoneIsNoRow DEF Init, InOrder, HeadBounded, ActionsLinked, Accepted, Exists
<1> QED BY <1>1, <1>2 DEF RowInv

\* The rows of the control plane keep their shape; in particular the
\* generations of a change never run past the accepted runs.
THEOREM ControlTyping == Spec => []TypeOK
<1>1. Spec => []RowInv
  BY RowInit, RowStep, PTL DEF Spec
<1>2. RowInv => TypeOK
  BY DEF RowInv
<1> QED BY <1>1, <1>2, PTL
-----------------------------------------------------------------------------
(* How a run ends and what stays stopped *)

\* An action belongs to the attempt its run aliases.
ActionsOfAttempt ==
  \A x \in Actions : Exists(x) => action[x].attempt = job[action[x].run].attempt

EndInv == ActionsOfAttempt /\ FinishedIsResolved

\* What a step may do to an action: nothing, prepare it for a running run of
\* the attempt, or move it along without changing whose it is.
ActionMoves(x) ==
  \/ action'[x] = action[x]
  \/ ~Exists(x) /\ \E r \in Runs : /\ Accepted(r) /\ job[r].state = "running"
                                   /\ action'[x].run = r /\ action'[x].attempt = job[r].attempt
  \/ /\ Exists(x) /\ action'[x] # NONE
     /\ action'[x].run = action[x].run /\ action'[x].attempt = action[x].attempt
     /\ action[x].state \in {"prepared", "sending"}

\* What a step may do to a run: a step that touches the actions ends none.
RunMoves(r) ==
  \/ /\ Accepted(r) => job'[r] # NONE /\ job'[r].attempt = job[r].attempt
     /\ Accepted(r)' /\ job'[r].state \in {"completed", "failed"} => job'[r].state = job[r].state /\ Accepted(r)
  \/ /\ UNCHANGED action /\ Accepted(r) /\ job'[r].attempt = job[r].attempt
     /\ \A x \in Own(r) : action[x].state = "result_recorded"

\* The two kinds of moves keep the actions with their attempts, and the ends
\* resolved.
LEMMA EndKept ==
  ASSUME RowInv, EndInv,
         \A x \in Actions : ActionMoves(x), \A r \in Runs : RunMoves(r)
  PROVE  EndInv'
<1>0. \A x \in Actions : Exists(x) => action[x].run \in Runs /\ Accepted(action[x].run)
  BY NoneIsNoRow DEF RowInv, ActionsLinked, TypeOK, ActionRow, Exists
<1>1. \A r \in Runs : Accepted(r) => job'[r].attempt = job[r].attempt
  BY DEF RunMoves
<1>2. ActionsOfAttempt'
  <2> SUFFICES ASSUME NEW x \in Actions, action'[x] # NONE
               PROVE  action'[x].attempt = job'[action'[x].run].attempt
    BY DEF ActionsOfAttempt, Exists
  <2>1. CASE action'[x] = action[x]
    BY <1>0, <1>1, <2>1 DEF EndInv, ActionsOfAttempt, Exists
  <2>2. CASE action'[x] # action[x]
    BY <1>0, <1>1, <2>2 DEF EndInv, ActionsOfAttempt, ActionMoves
  <2> QED BY <2>1, <2>2
<1>3. FinishedIsResolved'
  <2> SUFFICES ASSUME NEW r \in Runs, job'[r] # NONE, job'[r].state \in {"completed", "failed"},
                      NEW x \in Actions, action'[x] # NONE, action'[x].run = r
               PROVE  action'[x].state = "result_recorded"
    BY DEF FinishedIsResolved, Accepted, Own, Exists
  <2>1. CASE action' = action /\ \A y \in Own(r) : action[y].state = "result_recorded"
    BY <2>1 DEF Own, Exists
  <2>2. CASE job'[r].state = job[r].state /\ Accepted(r)
    <3>1. \A y \in Own(r) : action[y].state = "result_recorded"
      BY <2>2 DEF EndInv, FinishedIsResolved
    <3>2. CASE action'[x] = action[x]
      BY <3>1, <3>2 DEF Own, Exists
    <3>3. CASE action'[x] # action[x]
      <4>1. ~(Exists(x) /\ action[x].run = r /\ action[x].state \in {"prepared", "sending"})
        BY <3>1 DEF Own
      <4>2. job[r].state # "running"
        BY <2>2
      <4> QED BY <3>3, <4>1, <4>2 DEF ActionMoves
    <3> QED BY <3>2, <3>3
  <2> QED BY <2>1, <2>2 DEF RunMoves, Accepted
<1> QED BY <1>2, <1>3 DEF EndInv

\* A run whose row is kept is not ended by the step.
LEMMA RunKept ==
  ASSUME NEW r \in Runs, job'[r] = job[r]
  PROVE  RunMoves(r)
BY DEF RunMoves, Accepted

\* The moves of the runs when a deadline is looked at.
LEMMA DeadlineMoves ==
  ASSUME TypeOK, NEW r \in Runs, job'[r] = AfterDeadline(r)
  PROVE  RunMoves(r)
<1>1. CASE job[r] = NONE
  BY <1>1 DEF RunMoves, AfterDeadline, Accepted
<1>2. CASE job[r] # NONE
  <2>1. job[r] \in JobRow
    BY <1>2 DEF TypeOK
  <2>2. job'[r] # NONE
    BY <1>2, AfterDeadlineType
  <2>3. job'[r].attempt = job[r].attempt
    BY <2>1 DEF AfterDeadline, JobRow
  <2>4. job'[r].state \in {"completed", "failed"} => job'[r].state = job[r].state
    BY <2>1 DEF AfterDeadline, JobRow
  <2> QED BY <1>2, <2>2, <2>3, <2>4 DEF RunMoves, Accepted
<1> QED BY <1>1, <1>2

\* A step of the control plane moves its runs and its actions that way.
LEMMA StepMoves ==
  ASSUME RowInv, EndInv, [Next]_vars
  PROVE  (\A x \in Actions : ActionMoves(x)) /\ (\A r \in Runs : RunMoves(r))
<1> DEFINE Goal == (\A x \in Actions : ActionMoves(x)) /\ (\A r \in Runs : RunMoves(r))
<1>a. UNCHANGED action => \A x \in Actions : ActionMoves(x)
  BY DEF ActionMoves
<1>b. UNCHANGED job => \A r \in Runs : RunMoves(r)
  BY RunKept
<1>t. TypeOK
  BY DEF RowInv
<1>n. \A r \in Runs : Accepted(r) => job[r] \in JobRow
  BY <1>t DEF TypeOK, Accepted
<1>0. UNCHANGED vars => Goal
  BY <1>a, <1>b DEF vars
<1>1. ASSUME NEW c \in Changes, Push(c) PROVE Goal
  BY <1>1, <1>a, <1>b DEF Push
<1>2. ASSUME NEW h \in Handlers, NEW q \in Requests, Receive(h, q) PROVE Goal
  BY <1>2, <1>a, <1>b DEF Receive
<1>3. ASSUME NEW h \in Handlers, ObserveGeneration(h) \/ Enrich(h) \/ Abandon(h) PROVE Goal
  BY <1>3, <1>a, <1>b DEF ObserveGeneration, Enrich, Abandon
<1>4. ASSUME NEW h \in Handlers, NEW r \in Runs, AcceptDuplicate(h, r) \/ AcceptAttempt(h, r) PROVE Goal
  <2>1. UNCHANGED action /\ ~Accepted(r)
    BY <1>4 DEF AcceptDuplicate, AcceptAttempt, NextRun
  <2>2. \E q, t, d : job' = [job EXCEPT ![r] = NewJob(q, t, d)]
    <3>1. CASE AcceptDuplicate(h, r)
      <4>1. job' = [job EXCEPT ![r] = NewJob(intake[h].req, head[intake[h].req.change].current, TRUE)]
        BY <3>1 DEF AcceptDuplicate
      <4> QED BY <4>1
    <3>2. CASE AcceptAttempt(h, r)
      <4>1. job' = [job EXCEPT ![r] = NewJob(intake[h].req, r, FALSE)]
        BY <3>2 DEF AcceptAttempt
      <4> QED BY <4>1
    <3> QED BY <1>4, <3>1, <3>2
  <2>3. job'[r].state = "pending" /\ \A s \in Runs : s # r => job'[s] = job[s]
    <3>1. PICK q, t, d : job' = [job EXCEPT ![r] = NewJob(q, t, d)]
      BY <2>2
    <3>2. NewJob(q, t, d).state = "pending"
      BY DEF NewJob
    <3>3. job'[r] = NewJob(q, t, d) /\ \A s \in Runs : s # r => job'[s] = job[s]
      BY <1>t, <3>1 DEF TypeOK
    <3> QED BY <3>2, <3>3
  <2>4. RunMoves(r)
    BY <2>1, <2>3 DEF RunMoves
  <2> QED BY <1>a, <2>1, <2>3, <2>4, RunKept
<1>5. ASSUME NEW r \in Runs, Lapse(r) PROVE Goal
  BY <1>5, <1>a, <1>b DEF Lapse
<1>6. CASE ExpireInbox
  BY <1>6, <1>a, <1>t, DeadlineMoves DEF ExpireInbox
<1>7. ASSUME NEW r \in Runs, ClaimInbox(r) PROVE Goal
  <2>1. \A s \in Runs : s # r => RunMoves(s)
    BY <1>7, <1>t, DeadlineMoves DEF ClaimInbox
  <2>2. job[r] \in JobRow /\ Accepted(r) /\ job'[r] = [job[r] EXCEPT !.state = "running", !.token = 1]
    BY <1>7, <1>n DEF ClaimInbox, Claimable
  <2>3. job'[r] \in JobRow /\ job'[r].attempt = job[r].attempt /\ job'[r].state = "running"
    <3>1. [job[r] EXCEPT !.state = "running", !.token = 1] \in JobRow
      BY <2>2 DEF JobRow, InboxStates
    <3>2. LET j == [job[r] EXCEPT !.state = "running", !.token = 1]
          IN j.attempt = job[r].attempt /\ j.state = "running"
      BY <2>2 DEF JobRow
    <3> QED BY <2>2, <3>1, <3>2
  <2>4. RunMoves(r)
    BY <2>2, <2>3, NoneIsNoRow DEF RunMoves
  <2> QED BY <1>7, <1>a, <2>1, <2>4 DEF ClaimInbox
<1>8. ASSUME NEW th \in threads, ReturnSuccess(th) \/ ReturnFailure(th) PROVE Goal
  <2> DEFINE r == th.run
  <2>1. r \in Runs /\ UNCHANGED action
    BY <1>8, <1>t DEF TypeOK, JobClaim, ReturnSuccess, ReturnFailure
  <2>2. CASE ~Finishable(th)
    BY <1>8, <1>a, <1>b, <2>1, <2>2 DEF ReturnSuccess, ReturnFailure, Finish
  <2>3. CASE Finishable(th)
    <3>1. Accepted(r) /\ job[r] \in JobRow /\ OfAttempt(job[r].attempt) = {}
      BY <1>n, <2>1, <2>3 DEF Finishable, Owns
    <3>2. \E state \in {"completed", "failed"} :
            job' = [job EXCEPT ![r] = [job[r] EXCEPT !.state = state, !.phase = "finished", !.allowed = FALSE]]
      BY <1>8, <1>t, <2>1, <2>3 DEF ReturnSuccess, ReturnFailure, Finish, TypeOK
    <3>3. job'[r].attempt = job[r].attempt /\ \A s \in Runs : s # r => job'[s] = job[s]
      BY <1>t, <2>1, <3>1, <3>2 DEF TypeOK, JobRow
    <3>4. Own(r) = {}
      BY <3>1 DEF Own, OfAttempt, EndInv, ActionsOfAttempt
    <3>5. RunMoves(r)
      BY <2>1, <3>1, <3>3, <3>4 DEF RunMoves
    <3> QED BY <1>a, <2>1, <3>3, <3>5, RunKept
  <2> QED BY <2>2, <2>3
<1>9. ASSUME NEW th \in threads, NEW x \in Actions, PrepareAction(th, x) PROVE Goal
  <2>1. th.run \in Runs /\ Accepted(th.run) /\ job[th.run].state = "running"
    BY <1>9, <1>t DEF TypeOK, JobClaim, PrepareAction, MayDispatch, Owns
  <2>2. \A y \in Actions : ActionMoves(y)
    BY <1>9, <1>t, <2>1 DEF PrepareAction, ActionMoves, TypeOK
  <2> QED BY <1>9, <1>b, <2>2 DEF PrepareAction
<1>l. ASSUME NEW x \in Actions, NEW n \in Nat, Prepared(x), TakeLease(x, n)
      PROVE  \A y \in Actions : ActionMoves(y)
  <2>1. action[x] \in ActionRow
    BY <1>t, <1>l DEF TypeOK, Prepared, Exists
  <2>2. action'[x] = [action[x] EXCEPT !.fence = @ + 1, !.token = n, !.leased = TRUE]
        /\ \A y \in Actions : y # x => action'[y] = action[y]
    BY <1>l, <1>t DEF TakeLease, TypeOK
  <2>3. action'[x] \in ActionRow
    <3>1. action[x].fence + 1 \in 0..MaxFence
      BY <1>l, <2>1, BoundAssumption DEF ActionRow, TakeLease
    <3>2. [action[x] EXCEPT !.fence = @ + 1, !.token = n, !.leased = TRUE] \in ActionRow
      BY <2>1, <3>1 DEF ActionRow
    <3> QED BY <2>2, <3>2
  <2>4. ActionMoves(x)
    BY <1>l, <2>1, <2>2, <2>3, NoneIsNoRow DEF ActionMoves, Prepared, ActionRow
  <2> QED BY <2>2, <2>4 DEF ActionMoves
<1>10. ASSUME NEW th \in threads, NEW x \in Actions, ClaimPrepared(th, x) PROVE Goal
  <2>1. th.token \in Nat
    BY <1>t DEF TypeOK, JobClaim
  <2> QED BY <1>10, <1>b, <1>l, <2>1 DEF ClaimPrepared
<1>11. ASSUME NEW x \in Actions, ReclaimPrepared(x) PROVE Goal
  <2> DEFINE r == action[x].run
  <2>1. r \in Runs /\ Accepted(r) /\ job[r] \in JobRow
    BY <1>11, <1>t DEF TypeOK, ActionRow, ReclaimPrepared, Prepared, Exists, MayDispatch, Owns, Accepted
  <2>2. job[r].token + 1 \in Nat
    BY <2>1 DEF JobRow
  <2>3. \A y \in Actions : ActionMoves(y)
    BY <1>11, <1>l, <2>2 DEF ReclaimPrepared
  <2>4. job'[r] = [job[r] EXCEPT !.token = @ + 1, !.grant = x] /\ \A s \in Runs : s # r => job'[s] = job[s]
    BY <1>11, <1>t, <2>1 DEF ReclaimPrepared, TypeOK
  <2>5. job'[r] \in JobRow /\ job'[r].attempt = job[r].attempt /\ job'[r].state = job[r].state
    BY <2>1, <2>2, <2>4 DEF JobRow
  <2>6. RunMoves(r)
    BY <2>1, <2>5, NoneIsNoRow DEF RunMoves
  <2> QED BY <2>3, <2>4, <2>6, RunKept
<1>12. ASSUME NEW x \in Actions, LeaseEnds(x) PROVE Goal
  <2>1. action[x] \in ActionRow
    BY <1>12, <1>t DEF LeaseEnds, Prepared, Exists, TypeOK
  <2>2. action'[x] = [action[x] EXCEPT !.leased = FALSE] /\ \A y \in Actions : y # x => action'[y] = action[y]
    BY <1>12, <1>t DEF LeaseEnds, TypeOK
  <2>3. action'[x] \in ActionRow
    BY <2>1, <2>2 DEF ActionRow
  <2>4. ActionMoves(x)
    <3>1. Exists(x) /\ action'[x] # NONE /\ action[x].state = "prepared"
      BY <1>12, <2>3, NoneIsNoRow DEF LeaseEnds, Prepared
    <3>2. action'[x].run = action[x].run /\ action'[x].attempt = action[x].attempt
      BY <2>1, <2>2 DEF ActionRow
    <3> QED BY <3>1, <3>2 DEF ActionMoves
  <2> QED BY <1>12, <1>b, <2>2, <2>4 DEF LeaseEnds, ActionMoves
<1>13. ASSUME NEW c \in claims, BeginPrepared(c) PROVE Goal
  <2> DEFINE x == c.action
             r == action[x].run
  <2>1. x \in Actions /\ action[x] \in ActionRow
    BY <1>13, <1>t DEF TypeOK, ActionClaim, BeginPrepared, Prepared, Exists
  <2>2. r \in Runs /\ Accepted(r) /\ job[r] \in JobRow
    BY <1>13, <1>t, <2>1 DEF BeginPrepared, MayDispatch, Owns, Accepted, TypeOK, ActionRow
  <2>3. action'[x] = [action[x] EXCEPT !.state = "sending"] /\ \A y \in Actions : y # x => action'[y] = action[y]
    BY <1>13, <1>t, <2>1 DEF BeginPrepared, TypeOK
  <2>4. action'[x] \in ActionRow
    BY <2>1, <2>3 DEF ActionRow
  <2>5. ActionMoves(x)
    BY <1>13, <2>1, <2>3, <2>4, NoneIsNoRow DEF BeginPrepared, ActionMoves, Prepared, ActionRow
  <2>6. job'[r] = [job[r] EXCEPT !.phase = "effect_started"] /\ \A s \in Runs : s # r => job'[s] = job[s]
    BY <1>13, <1>t, <2>2 DEF BeginPrepared, TypeOK
  <2>7. job'[r] \in JobRow /\ job'[r].attempt = job[r].attempt /\ job'[r].state = job[r].state
    BY <2>2, <2>6 DEF JobRow
  <2>8. RunMoves(r)
    BY <2>2, <2>7, NoneIsNoRow DEF RunMoves
  <2> QED BY <2>3, <2>5, <2>6, <2>8, RunKept DEF ActionMoves
<1>14. ASSUME NEW x \in Actions, NEW state \in {"uncertain", "result_recorded"}, RecordOutcome(x, state) PROVE Goal
  <2>1. action[x] \in ActionRow
    BY <1>14, <1>t DEF RecordOutcome, Exists, TypeOK
  <2>2. action'[x] = [action[x] EXCEPT !.state = state] /\ \A y \in Actions : y # x => action'[y] = action[y]
    BY <1>14, <1>t DEF RecordOutcome, TypeOK
  <2>3. action'[x] \in ActionRow
    BY <2>1, <2>2 DEF ActionRow
  <2>4. ActionMoves(x)
    BY <1>14, <2>1, <2>2, <2>3, NoneIsNoRow DEF RecordOutcome, ActionMoves, ActionRow
  <2> QED BY <1>14, <1>b, <2>2, <2>4 DEF RecordOutcome, ActionMoves
<1>15. ASSUME NEW r \in Runs, NEW state \in {"completed", "failed"}, CompleteModelJob(r, state) PROVE Goal
  <2>1. Accepted(r) /\ job[r] \in JobRow /\ UNCHANGED action
    BY <1>15, <1>n DEF CompleteModelJob
  <2>2. job'[r] = [job[r] EXCEPT !.state = state, !.phase = "finished", !.allowed = FALSE]
        /\ \A s \in Runs : s # r => job'[s] = job[s]
    BY <1>15, <1>t DEF CompleteModelJob, TypeOK
  <2>3. job'[r].attempt = job[r].attempt
    BY <2>1, <2>2 DEF JobRow
  <2>4. \A x \in Own(r) : action[x].state = "result_recorded"
    BY <1>15 DEF CompleteModelJob
  <2>5. RunMoves(r)
    BY <2>1, <2>3, <2>4 DEF RunMoves
  <2> QED BY <1>a, <2>1, <2>2, <2>5, RunKept
<1>16. ASSUME NEW t \in Runs, CancelAttempt(t) PROVE Goal
  <2>1. job[t] \in JobRow /\ Accepted(t)
    BY <1>16, <1>n, NoneIsNoRow DEF RowInv, CancelAttempt, Current, TypeOK, AttemptRow, HeadBounded, Accepted
  <2>2. job'[t] = [job[t] EXCEPT !.state = "cancelled", !.phase = "finished", !.allowed = FALSE,
                                 !.token = 0, !.cancelled = TRUE]
        /\ \A s \in Runs : s # t => job'[s] = job[s]
    BY <1>16, <1>t DEF CancelAttempt, TypeOK
  <2>3. job'[t] \in JobRow /\ job'[t].attempt = job[t].attempt /\ job'[t].state = "cancelled"
    <3> DEFINE j == [job[t] EXCEPT !.state = "cancelled", !.phase = "finished", !.allowed = FALSE,
                                   !.token = 0, !.cancelled = TRUE]
    <3>1. j \in JobRow
      BY <2>1 DEF JobRow, InboxStates
    <3>2. j.attempt = job[t].attempt /\ j.state = "cancelled"
      BY <2>1 DEF JobRow
    <3> QED BY <2>2, <3>1, <3>2
  <2>4. RunMoves(t)
    BY <2>1, <2>3, NoneIsNoRow DEF RunMoves
  <2> QED BY <1>16, <1>a, <2>2, <2>4, RunKept DEF CancelAttempt
<1>17. ASSUME NEW x \in Actions, ReleaseUnused(x) PROVE Goal
  <2> DEFINE r == action[x].run
  <2>1. r \in Runs /\ job[r] \in JobRow /\ Accepted(r) /\ action[x] \in ActionRow
    BY <1>17, <1>t DEF RowInv, ReleaseUnused, Unused, Prepared, Exists, TypeOK, ActionRow, ActionsLinked, Accepted
  <2>2. action'[x] = [action[x] EXCEPT !.state = "not_executed"] /\ \A y \in Actions : y # x => action'[y] = action[y]
    BY <1>17, <1>t DEF ReleaseUnused, TypeOK
  <2>3. action'[x] \in ActionRow
    BY <2>1, <2>2 DEF ActionRow
  <2>4. ActionMoves(x)
    BY <1>17, <2>1, <2>2, <2>3, NoneIsNoRow DEF ReleaseUnused, Unused, Prepared, ActionMoves, ActionRow
  <2>5. RunMoves(r) /\ \A s \in Runs : s # r => job'[s] = job[s]
    <3>1. CASE UNCHANGED job
      BY <2>1, <3>1, RunKept
    <3>2. CASE job' = [job EXCEPT ![r] = [job[r] EXCEPT !.state = "superseded", !.phase = "finished",
                                                        !.allowed = FALSE, !.token = 0]]
      <4>1. job'[r] = [job[r] EXCEPT !.state = "superseded", !.phase = "finished",
                                     !.allowed = FALSE, !.token = 0]
            /\ \A s \in Runs : s # r => job'[s] = job[s]
        BY <1>t, <2>1, <3>2 DEF TypeOK
      <4>2. job'[r] \in JobRow /\ job'[r].attempt = job[r].attempt /\ job'[r].state = "superseded"
        <5> DEFINE j == [job[r] EXCEPT !.state = "superseded", !.phase = "finished",
                                       !.allowed = FALSE, !.token = 0]
        <5>1. j \in JobRow
          BY <2>1 DEF JobRow, InboxStates
        <5>2. j.attempt = job[r].attempt /\ j.state = "superseded"
          BY <2>1 DEF JobRow
        <5> QED BY <4>1, <5>1, <5>2
      <4> QED BY <2>1, <4>1, <4>2, NoneIsNoRow DEF RunMoves
    <3> QED BY <1>17, <1>t, <2>1, <3>1, <3>2 DEF ReleaseUnused, TypeOK
  <2> QED BY <2>2, <2>4, <2>5, RunKept DEF ActionMoves
<1>18. ASSUME NEW x \in Actions, QuarantineReceipt(x) PROVE Goal
  BY <1>18, <1>a, <1>b DEF QuarantineReceipt
<1> QED
  BY <1>0, <1>1, <1>2, <1>3, <1>4, <1>5, <1>6, <1>7, <1>8, <1>9, <1>10, <1>11, <1>12, <1>13, <1>14, <1>15, <1>16, <1>17,
     <1>18
  DEF Next, Intake, Execution, Control

LEMMA EndStep == RowInv /\ EndInv /\ [Next]_vars => EndInv'
BY StepMoves, EndKept

LEMMA EndInit == Init => EndInv
BY DEF Init, EndInv, ActionsOfAttempt, FinishedIsResolved, Exists, Accepted

\* No run is reported completed or failed with an action that was reserved
\* but not sent, or sent but not answered.
THEOREM EndsResolved == Spec => []FinishedIsResolved
<1>1. Spec => [](RowInv /\ EndInv)
  BY RowInit, RowStep, EndInit, EndStep, PTL DEF Spec
<1>2. EndInv => FinishedIsResolved
  BY DEF EndInv
<1> QED BY <1>1, <1>2, PTL

\* A stopped attempt starts nothing: what starts an action is the dispatch
\* under an active attempt, and what was started or released stays so.
LEMMA StopStep ==
  ASSUME RowInv, EndInv, [Next]_vars, NEW x \in Actions, Exists(x)
  PROVE  /\ ~attempt[action[x].attempt].active => (Started(x) <=> Started(x)')
         /\ action[x].state = "not_executed" => action[x].state' = "not_executed"
<1> DEFINE Goal == /\ ~attempt[action[x].attempt].active => (Started(x) <=> Started(x)')
                   /\ action[x].state = "not_executed" => action[x].state' = "not_executed"
<1>t. TypeOK /\ action[x] \in ActionRow
  BY DEF RowInv, TypeOK, Exists
<1>k. action'[x] = action[x] => Goal
  BY DEF Started, Exists
<1>p. ASSUME action[x].state = "prepared", action'[x].state = "prepared" PROVE Goal
  BY <1>p DEF Started
<1>0. UNCHANGED action => Goal
  BY <1>k
<1>1. ASSUME Intake PROVE Goal
  BY <1>1, <1>0 DEF Intake, Push, Receive, ObserveGeneration, Enrich, Abandon, AcceptDuplicate, AcceptAttempt
<1>2. ASSUME Execution PROVE Goal
  <2>1. ASSUME NEW r \in Runs, Lapse(r) \/ ClaimInbox(r) PROVE Goal
    BY <2>1, <1>0 DEF Lapse, ClaimInbox
  <2>2. CASE ExpireInbox
    BY <2>2, <1>0 DEF ExpireInbox
  <2>3. ASSUME NEW th \in threads, ReturnSuccess(th) \/ ReturnFailure(th) PROVE Goal
    BY <2>3, <1>0 DEF ReturnSuccess, ReturnFailure
  <2>4. ASSUME NEW th \in threads, NEW y \in Actions, PrepareAction(th, y) PROVE Goal
    <3>1. action'[x] = action[x]
      BY <1>t, <2>4 DEF PrepareAction, TypeOK
    <3> QED BY <3>1, <1>k
  <2>l. ASSUME NEW y \in Actions, NEW n, Prepared(y), TakeLease(y, n) PROVE Goal
    <3>1. CASE x = y
      <4>1. action'[x] = [action[x] EXCEPT !.fence = @ + 1, !.token = n, !.leased = TRUE]
        BY <1>t, <2>l, <3>1 DEF TakeLease, TypeOK
      <4>2. action'[x].state = "prepared" /\ action[x].state = "prepared"
        BY <1>t, <2>l, <3>1, <4>1 DEF Prepared, ActionRow
      <4> QED BY <4>2, <1>p
    <3>2. CASE x # y
      BY <1>t, <1>k, <2>l, <3>2 DEF TakeLease, TypeOK
    <3> QED BY <3>1, <3>2
  <2>5. ASSUME NEW th \in threads, NEW y \in Actions, ClaimPrepared(th, y) PROVE Goal
    BY <2>5, <2>l DEF ClaimPrepared
  <2>6. ASSUME NEW y \in Actions, ReclaimPrepared(y) PROVE Goal
    BY <2>6, <2>l DEF ReclaimPrepared
  <2>7. ASSUME NEW y \in Actions, LeaseEnds(y) PROVE Goal
    <3>1. CASE x = y
      <4>1. action'[x] = [action[x] EXCEPT !.leased = FALSE]
        BY <1>t, <2>7, <3>1 DEF LeaseEnds, TypeOK
      <4>2. action'[x].state = "prepared" /\ action[x].state = "prepared"
        BY <1>t, <2>7, <3>1, <4>1 DEF LeaseEnds, Prepared, ActionRow
      <4> QED BY <4>2, <1>p
    <3>2. CASE x # y
      BY <1>t, <1>k, <2>7, <3>2 DEF LeaseEnds, TypeOK
    <3> QED BY <3>1, <3>2
  <2>8. ASSUME NEW c \in claims, BeginPrepared(c) PROVE Goal
    <3>1. CASE x = c.action
      <4>1. attempt[action[x].attempt].active
        BY <2>8, <3>1 DEF BeginPrepared, MayDispatch, EndInv, ActionsOfAttempt
      <4>2. action[x].state = "prepared"
        BY <2>8, <3>1 DEF BeginPrepared, Prepared
      <4> QED BY <4>1, <4>2
    <3>2. CASE x # c.action
      BY <1>t, <1>k, <2>8, <3>2 DEF BeginPrepared, TypeOK
    <3> QED BY <3>1, <3>2
  <2>9. ASSUME NEW y \in Actions, NEW state \in {"uncertain", "result_recorded"}, RecordOutcome(y, state) PROVE Goal
    <3>1. CASE x = y
      <4>1. action'[x] = [action[x] EXCEPT !.state = state]
        BY <1>t, <2>9, <3>1 DEF RecordOutcome, TypeOK
      <4>2. action'[x] \in ActionRow /\ action'[x].state = state
        BY <1>t, <4>1 DEF ActionRow
      <4>3. Started(x) /\ Started(x)' /\ action[x].state # "not_executed"
        BY <2>9, <3>1, <4>2, NoneIsNoRow DEF RecordOutcome, Started, Exists
      <4> QED BY <4>3
    <3>2. CASE x # y
      BY <1>t, <1>k, <2>9, <3>2 DEF RecordOutcome, TypeOK
    <3> QED BY <3>1, <3>2
  <2> QED BY <1>2, <2>1, <2>2, <2>3, <2>4, <2>5, <2>6, <2>7, <2>8, <2>9 DEF Execution
<1>3. ASSUME Control PROVE Goal
  <2>1. ASSUME NEW r \in Runs, NEW state \in {"completed", "failed"}, CompleteModelJob(r, state) PROVE Goal
    BY <2>1, <1>0 DEF CompleteModelJob
  <2>2. ASSUME NEW t \in Runs, CancelAttempt(t) PROVE Goal
    BY <2>2, <1>0 DEF CancelAttempt
  <2>3. ASSUME NEW y \in Actions, ReleaseUnused(y) PROVE Goal
    <3>1. CASE x = y
      <4>1. action'[x] = [action[x] EXCEPT !.state = "not_executed"]
        BY <1>t, <2>3, <3>1 DEF ReleaseUnused, TypeOK
      <4>2. action'[x].state = "not_executed" /\ action[x].state = "prepared"
        BY <1>t, <2>3, <3>1, <4>1 DEF ReleaseUnused, Unused, Prepared, ActionRow
      <4> QED BY <4>2 DEF Started
    <3>2. CASE x # y
      BY <1>t, <1>k, <2>3, <3>2 DEF ReleaseUnused, TypeOK
    <3> QED BY <3>1, <3>2
  <2>4. ASSUME NEW y \in Actions, QuarantineReceipt(y) PROVE Goal
    BY <2>4, <1>0 DEF QuarantineReceipt
  <2> QED BY <1>3, <2>1, <2>2, <2>3, <2>4 DEF Control
<1>4. UNCHANGED vars => Goal
  BY <1>0 DEF vars
<1> QED BY <1>1, <1>2, <1>3, <1>4 DEF Next

\* A cancelled or superseded attempt starts nothing any more, and what was
\* released as unused stays unused.
THEOREM StoppedStays == Spec => StoppedStaysStopped
<1>1. Spec => [](RowInv /\ EndInv)
  BY RowInit, RowStep, EndInit, EndStep, PTL DEF Spec
<1> DEFINE Stopped == \A x \in Actions : Exists(x) =>
        /\ ~attempt[action[x].attempt].active => (Started(x) <=> Started(x)')
        /\ action[x].state = "not_executed" => action[x].state' = "not_executed"
<1>2. RowInv /\ EndInv /\ [Next]_vars => [Stopped]_vars
  BY StopStep
<1>3. Spec => [][Stopped]_vars
  <2> HIDE DEF Stopped
  <2> QED BY <1>1, <1>2, PTL DEF Spec
<1> QED BY <1>3 DEF StoppedStaysStopped

(***************************************************************************)
(* Acceptance is sound: a delivery becomes one run, the attempts of a      *)
(* change form one line, and the line never goes back to an older          *)
(* revision.                                                               *)
(***************************************************************************)
\* What no step changes in the row of an accepted run.
SameRun(r) ==
  /\ job'[r] # NONE
  /\ job'[r].req = job[r].req /\ job'[r].attempt = job[r].attempt
  /\ job'[r].duplicate = job[r].duplicate
  /\ job'[r].allowed => job[r].allowed

JobsKept == \A r \in Runs : IF Accepted(r) THEN SameRun(r) ELSE job'[r] = NONE

\* The steps that leave attempts and heads alone and accept nothing.
Quiet == UNCHANGED <<attempt, head>> /\ JobsKept

Accepts == \E h \in Handlers, r \in Runs : AcceptDuplicate(h, r) \/ AcceptAttempt(h, r)
Acquires == UNCHANGED job /\
            \/ \E c \in Changes : Push(c)
            \/ \E h \in Handlers, q \in Requests : Receive(h, q)
            \/ \E h \in Handlers : ObserveGeneration(h) \/ Enrich(h) \/ Abandon(h)
Cancels == JobsKept /\ \E t \in Runs : CancelAttempt(t)

LEMMA RowEdit ==
  ASSUME TypeOK, NEW r \in Runs, NEW j \in JobRow, job[r] # NONE, job' = [job EXCEPT ![r] = j],
         j.req = job[r].req, j.attempt = job[r].attempt, j.duplicate = job[r].duplicate,
         j.allowed => job[r].allowed
  PROVE  JobsKept
BY NoneIsNoRow DEF TypeOK, JobsKept, SameRun, Accepted

LEMMA SameJobs == ASSUME UNCHANGED job PROVE JobsKept
BY DEF JobsKept, SameRun, Accepted

LEMMA DeadlineKeeps ==
  ASSUME TypeOK, NEW r \in Runs, job'[r] = AfterDeadline(r)
  PROVE  IF Accepted(r) THEN SameRun(r) ELSE job'[r] = NONE
<1>1. CASE Accepted(r)
  <2>1. job[r] \in JobRow
    BY <1>1 DEF TypeOK, Accepted
  <2> QED BY <1>1, <2>1, AfterDeadlineType DEF AfterDeadline, SameRun, JobRow, Accepted
<1>2. CASE ~Accepted(r)
  BY <1>2 DEF AfterDeadline, Accepted
<1> QED BY <1>1, <1>2

\* Every step is an acceptance, an acquisition, a cancellation, or quiet
\* and leaves the code host and the handlers alone.
LEMMA StepKinds ==
  RowInv /\ [Next]_vars => \/ Accepts \/ Acquires \/ Cancels
                           \/ Quiet /\ UNCHANGED <<scm, intake>>
<1> DEFINE Goal == \/ Accepts \/ Acquires \/ Cancels
                   \/ Quiet /\ UNCHANGED <<scm, intake>>
<1> SUFFICES ASSUME RowInv, [Next]_vars PROVE Goal
  OBVIOUS
<1> USE DEF RowInv
<1>0. ASSUME UNCHANGED <<job, attempt, head, scm, intake>> PROVE Goal
  BY <1>0, SameJobs DEF Quiet
<1>1. ASSUME Intake PROVE Goal
  <2>1. ASSUME NEW c \in Changes, Push(c) PROVE Goal
    BY <2>1 DEF Acquires, Push
  <2>2. ASSUME NEW h \in Handlers, NEW q \in Requests, Receive(h, q) PROVE Goal
    BY <2>2 DEF Acquires, Receive
  <2>3. ASSUME NEW h \in Handlers, ObserveGeneration(h) \/ Enrich(h) \/ Abandon(h) PROVE Goal
    BY <2>3 DEF Acquires, ObserveGeneration, Enrich, Abandon
  <2>4. ASSUME NEW h \in Handlers, NEW r \in Runs, AcceptDuplicate(h, r) \/ AcceptAttempt(h, r) PROVE Goal
    BY <2>4 DEF Accepts
  <2> QED BY <1>1, <2>1, <2>2, <2>3, <2>4 DEF Intake
<1>2. ASSUME ExpireInbox PROVE Goal
  <2>1. JobsKept
    BY <1>2, DeadlineKeeps DEF ExpireInbox, JobsKept
  <2> QED BY <1>2, <2>1 DEF ExpireInbox, Quiet
<1>3. ASSUME NEW r \in Runs, ClaimInbox(r) PROVE Goal
  <2>1. job[r] \in JobRow /\ job[r] # NONE
    BY <1>3 DEF ClaimInbox, Claimable, Accepted, TypeOK
  <2> DEFINE j == [job[r] EXCEPT !.state = "running", !.token = 1]
  <2>2. job'[r] = j
    BY <1>3 DEF ClaimInbox
  <2>3. j \in JobRow /\ j.req = job[r].req /\ j.attempt = job[r].attempt
        /\ j.duplicate = job[r].duplicate /\ j.allowed = job[r].allowed
    BY <2>1 DEF JobRow, InboxStates
  <2> HIDE DEF j
  <2>4. SameRun(r)
    BY <2>1, <2>2, <2>3, NoneIsNoRow DEF SameRun
  <2>5. \A s \in Runs \ {r} : job'[s] = AfterDeadline(s)
    BY <1>3 DEF ClaimInbox
  <2>6. JobsKept
    BY <2>1, <2>4, <2>5, DeadlineKeeps DEF JobsKept, Accepted
  <2> QED BY <1>3, <2>6 DEF ClaimInbox, Quiet
<1>4. ASSUME NEW th \in threads, ReturnSuccess(th) \/ ReturnFailure(th) PROVE Goal
  <2>1. th.run \in Runs
    BY DEF TypeOK, JobClaim
  <2>2. PICK state \in InboxStates : Finish(th, state)
    BY <1>4 DEF ReturnSuccess, ReturnFailure, InboxStates
  <2>3. CASE Finishable(th)
    <3> DEFINE j == [job[th.run] EXCEPT !.state = state, !.phase = "finished", !.allowed = FALSE]
    <3>1. job[th.run] \in JobRow /\ job[th.run] # NONE
      BY <2>1, <2>3 DEF Finishable, Owns, Accepted, TypeOK
    <3>2. j \in JobRow /\ j.req = job[th.run].req /\ j.attempt = job[th.run].attempt
          /\ j.duplicate = job[th.run].duplicate /\ ~j.allowed
      BY <3>1 DEF JobRow
    <3>3. job' = [job EXCEPT ![th.run] = j]
      BY <2>2, <2>3 DEF Finish
    <3> HIDE DEF j
    <3>4. JobsKept
      BY <2>1, <3>1, <3>2, <3>3, RowEdit
    <3> QED BY <1>4, <3>4 DEF ReturnSuccess, ReturnFailure, Quiet
  <2>4. CASE ~Finishable(th)
    BY <1>4, <2>2, <2>4, SameJobs DEF Finish, ReturnSuccess, ReturnFailure, Quiet
  <2> QED BY <2>3, <2>4
<1>5. ASSUME NEW x \in Actions, ReclaimPrepared(x) PROVE Goal
  <2> DEFINE r == action[x].run
             j == [job[r] EXCEPT !.token = @ + 1, !.grant = x]
  <2>1. r \in Runs /\ job[r] \in JobRow /\ job[r] # NONE
    BY <1>5 DEF TypeOK, ActionRow, ReclaimPrepared, Prepared, Exists, MayDispatch, Owns, Accepted
  <2>2. j \in JobRow /\ j.req = job[r].req /\ j.attempt = job[r].attempt
        /\ j.duplicate = job[r].duplicate /\ j.allowed = job[r].allowed
    <3>1. job[r].token + 1 \in Nat
      BY <2>1 DEF JobRow
    <3> QED BY <2>1, <3>1 DEF JobRow
  <2>3. job' = [job EXCEPT ![r] = j]
    BY <1>5 DEF ReclaimPrepared
  <2> HIDE DEF j, r
  <2>4. JobsKept
    BY <2>1, <2>2, <2>3, RowEdit
  <2> QED BY <1>5, <2>4 DEF ReclaimPrepared, Quiet
<1>6. ASSUME NEW c \in claims, BeginPrepared(c) PROVE Goal
  <2> DEFINE r == action[c.action].run
             j == [job[r] EXCEPT !.phase = "effect_started"]
  <2>1. r \in Runs /\ job[r] \in JobRow /\ job[r] # NONE
    BY <1>6 DEF TypeOK, ActionRow, ActionClaim, BeginPrepared, Prepared, Exists, MayDispatch, Owns, Accepted
  <2>2. j \in JobRow /\ j.req = job[r].req /\ j.attempt = job[r].attempt
        /\ j.duplicate = job[r].duplicate /\ j.allowed = job[r].allowed
    BY <2>1 DEF JobRow
  <2>3. job' = [job EXCEPT ![r] = j]
    BY <1>6 DEF BeginPrepared
  <2> HIDE DEF j, r
  <2>4. JobsKept
    BY <2>1, <2>2, <2>3, RowEdit
  <2> QED BY <1>6, <2>4 DEF BeginPrepared, Quiet
<1>7. ASSUME NEW r \in Runs, NEW state \in {"completed", "failed"}, CompleteModelJob(r, state) PROVE Goal
  <2> DEFINE j == [job[r] EXCEPT !.state = state, !.phase = "finished", !.allowed = FALSE]
  <2>1. job[r] \in JobRow /\ job[r] # NONE
    BY <1>7 DEF CompleteModelJob, Accepted, TypeOK
  <2>2. j \in JobRow /\ j.req = job[r].req /\ j.attempt = job[r].attempt
        /\ j.duplicate = job[r].duplicate /\ ~j.allowed
    BY <2>1 DEF JobRow, InboxStates
  <2>3. job' = [job EXCEPT ![r] = j]
    BY <1>7 DEF CompleteModelJob
  <2> HIDE DEF j
  <2>4. JobsKept
    BY <2>1, <2>2, <2>3, RowEdit
  <2> QED BY <1>7, <2>4 DEF CompleteModelJob, Quiet
<1>8. ASSUME NEW t \in Runs, CancelAttempt(t) PROVE Goal
  <2> DEFINE j == [job[t] EXCEPT !.state = "cancelled", !.phase = "finished", !.allowed = FALSE,
                                 !.token = 0, !.cancelled = TRUE]
  <2>1. job[t] \in JobRow /\ job[t] # NONE
    BY <1>8, NoneIsNoRow DEF CancelAttempt, Current, TypeOK, AttemptRow, HeadBounded, Accepted
  <2>2. j \in JobRow /\ j.req = job[t].req /\ j.attempt = job[t].attempt
        /\ j.duplicate = job[t].duplicate /\ ~j.allowed
    BY <2>1 DEF JobRow, InboxStates
  <2>3. job' = [job EXCEPT ![t] = j]
    BY <1>8 DEF CancelAttempt
  <2> HIDE DEF j
  <2>4. JobsKept
    BY <2>1, <2>2, <2>3, RowEdit
  <2> QED BY <1>8, <2>4 DEF Cancels
<1>9. ASSUME NEW x \in Actions, ReleaseUnused(x) PROVE Goal
  <2> DEFINE r == action[x].run
             j == [job[r] EXCEPT !.state = "superseded", !.phase = "finished",
                                 !.allowed = FALSE, !.token = 0]
  <2>1. r \in Runs /\ job[r] \in JobRow /\ job[r] # NONE
    BY <1>9 DEF ReleaseUnused, Unused, Prepared, Exists, TypeOK, ActionRow, ActionsLinked, Accepted
  <2>2. j \in JobRow /\ j.req = job[r].req /\ j.attempt = job[r].attempt
        /\ j.duplicate = job[r].duplicate /\ ~j.allowed
    BY <2>1 DEF JobRow, InboxStates
  <2>3. job' = job \/ job' = [job EXCEPT ![r] = j]
    BY <1>9 DEF ReleaseUnused
  <2> HIDE DEF j, r
  <2>4. JobsKept
    BY <2>1, <2>2, <2>3, RowEdit, SameJobs
  <2> QED BY <1>9, <2>4 DEF ReleaseUnused, Quiet
<1>10. ASSUME Execution PROVE Goal
  <2>1. ASSUME NEW r \in Runs, Lapse(r) PROVE Goal
    BY <1>0, <2>1 DEF Lapse
  <2>2. ASSUME NEW th \in threads, NEW x \in Actions, PrepareAction(th, x) \/ ClaimPrepared(th, x) PROVE Goal
    BY <1>0, <2>2 DEF PrepareAction, ClaimPrepared
  <2>3. ASSUME NEW x \in Actions, LeaseEnds(x) PROVE Goal
    BY <1>0, <2>3 DEF LeaseEnds
  <2>4. ASSUME NEW x \in Actions, NEW state \in {"uncertain", "result_recorded"}, RecordOutcome(x, state) PROVE Goal
    BY <1>0, <2>4 DEF RecordOutcome
  <2> QED BY <1>10, <1>2, <1>3, <1>4, <1>5, <1>6, <2>1, <2>2, <2>3, <2>4 DEF Execution
<1>11. ASSUME NEW x \in Actions, QuarantineReceipt(x) PROVE Goal
  BY <1>0, <1>11 DEF QuarantineReceipt
<1>12. ASSUME UNCHANGED vars PROVE Goal
  BY <1>0, <1>12 DEF vars
<1> QED BY <1>1, <1>7, <1>8, <1>9, <1>10, <1>11, <1>12 DEF Next, Control
-----------------------------------------------------------------------------
(* One line of attempts *)

\* OneLine with what it rests on: attempts belong to accepted runs and are
\* not newer than their head, heads and successors point within a change.
LineInv ==
  /\ \A t \in Runs : attempt[t] # NONE =>
       Accepted(t) /\ attempt[t].generation <= head[attempt[t].change].generation
  /\ \A c \in Changes : head[c].current # NONE => attempt[head[c].current].change = c
  /\ \A t \in Runs : attempt[t] # NONE /\ ~Current(t) =>
       attempt[t].successor \in Runs /\ attempt[attempt[t].successor] # NONE
  /\ OneLine

LEMMA LineCancel ==
  ASSUME RowInv, RowInv', LineInv, JobsKept, NEW t \in Runs, CancelAttempt(t)
  PROVE  LineInv'
<1>1. /\ attempt' = [attempt EXCEPT ![t].active = FALSE] /\ UNCHANGED head
      /\ \A u \in Runs : Accepted(u) => job'[u] # NONE
  BY DEF CancelAttempt, JobsKept, SameRun
<1>2. \A u \in Runs : attempt[u] # NONE => attempt[u] \in AttemptRow
  BY DEF RowInv, TypeOK
<1>3. \A u \in Runs : attempt'[u] = IF u = t THEN [attempt[t] EXCEPT !.active = FALSE] ELSE attempt[u]
  BY <1>1 DEF RowInv, TypeOK
<1>4. attempt[t] # NONE /\ Current(t)
  BY DEF CancelAttempt
<1>5. \A u \in Runs : /\ attempt'[u] # NONE <=> attempt[u] # NONE
                      /\ attempt[u] # NONE =>
                           /\ attempt'[u].change = attempt[u].change
                           /\ attempt'[u].generation = attempt[u].generation
                           /\ attempt'[u].successor = attempt[u].successor
                           /\ attempt'[u].active => attempt[u].active
  <2>1. [attempt[t] EXCEPT !.active = FALSE] \in AttemptRow
    BY <1>2, <1>4 DEF AttemptRow
  <2> QED BY <1>2, <1>3, <1>4, <2>1, NoneIsNoRow DEF AttemptRow
<1>6. \A u \in Runs : attempt[u] # NONE => (Current(u)' <=> Current(u))
  BY <1>1, <1>5 DEF Current
<1>7. \A c \in Changes : head[c].current \in Runs \cup {NONE} /\ (head[c].current # NONE => attempt[head[c].current] # NONE)
  BY DEF RowInv, TypeOK, HeadRow, HeadBounded
<1>8. \A u \in Runs : attempt'[u] # NONE =>
        job'[u] # NONE /\ attempt'[u].generation <= head'[attempt'[u].change].generation
  BY <1>1, <1>5 DEF LineInv
<1>9. \A c \in Changes : head'[c].current # NONE => attempt'[head'[c].current].change = c
  BY <1>1, <1>5, <1>7 DEF LineInv
<1>10. \A u \in Runs : attempt[u] # NONE /\ ~Current(u) =>
         /\ attempt[u].successor \in Runs /\ attempt[attempt[u].successor] # NONE
  BY DEF LineInv
<1>11. OneLine'
  <2> SUFFICES ASSUME NEW u \in Runs, attempt'[u] # NONE
               PROVE  LET c == attempt'[u].change IN
                      /\ attempt'[u].successor = NONE <=> Current(u)'
                      /\ Current(u)' => attempt'[u].generation = head'[c].generation
                      /\ ~Current(u)' => /\ ~attempt'[u].active
                                         /\ attempt'[attempt'[u].successor].change = c
                                         /\ attempt'[attempt'[u].successor].generation = attempt'[u].generation + 1
    BY DEF OneLine
  <2> QED BY <1>1, <1>5, <1>6, <1>10 DEF LineInv, OneLine
<1> QED BY <1>5, <1>6, <1>8, <1>9, <1>10, <1>11 DEF LineInv, Accepted

LEMMA LineSame ==
  ASSUME LineInv, UNCHANGED <<attempt, head>>, \A t \in Runs : Accepted(t) => job'[t] # NONE
  PROVE  LineInv'
BY DEF LineInv, OneLine, Current, Accepted

\* What AcceptAttempt does to the attempts: the new one, its predecessor,
\* and all others unchanged.
Succeeds(h, r, c) ==
  /\ c \in Changes /\ intake[h] \in IntakeRow /\ intake[h].snapshot \in Heads
  /\ attempt[r] = NONE /\ r # head[c].current
  /\ head' = [head EXCEPT ![c] = [generation |-> head[c].generation + 1, current |-> r]]
  /\ head[c].generation \in Nat /\ head[c].current \in Runs \cup {NONE}
  /\ head[c].current # NONE => attempt[head[c].current] # NONE
  /\ \A t \in Runs : Accepted(t) \/ t = r => job'[t] # NONE
  /\ attempt'[r] = [change |-> c, snapshot |-> intake[h].snapshot,
                    generation |-> head[c].generation + 1, active |-> TRUE, successor |-> NONE]
  /\ attempt'[r] # NONE
  /\ \A t \in Runs \ {r} :
       /\ attempt'[t] # NONE <=> attempt[t] # NONE
       /\ attempt[t] # NONE =>
            /\ attempt'[t].change = attempt[t].change
            /\ attempt'[t].generation = attempt[t].generation
            /\ attempt'[t].snapshot = attempt[t].snapshot
            /\ IF t = head[c].current THEN attempt'[t].successor = r /\ ~attempt'[t].active
               ELSE attempt'[t] = attempt[t]

LEMMA NewAttempt ==
  ASSUME RowInv, LineInv, NEW h \in Handlers, NEW r \in Runs, AcceptAttempt(h, r)
  PROVE  Succeeds(h, r, intake[h].req.change)
<1> DEFINE i == intake[h]
           c == i.req.change
           old == head[c].current
           new == [change |-> c, snapshot |-> i.snapshot,
                   generation |-> head[c].generation + 1, active |-> TRUE, successor |-> NONE]
<1>1. i \in IntakeRow /\ i.req \in Requests /\ i.snapshot \in Heads /\ c \in Changes
  BY RequestAssumption DEF RowInv, TypeOK, AcceptAttempt, Admissible, IntakeRow
<1>2. ~Accepted(r)
  BY DEF AcceptAttempt, NextRun
<1>3. attempt[r] = NONE
  BY <1>2 DEF LineInv
<1>4. head[c] \in HeadRow /\ (old # NONE => Accepted(old) /\ attempt[old] # NONE)
  BY <1>1 DEF RowInv, TypeOK, HeadBounded
<1>5. r # old /\ old \in Runs \cup {NONE} /\ head[c].generation \in Nat
  BY <1>2, <1>4, NoneIsNoRow, BoundAssumption DEF HeadRow
<1>6. \A t \in Runs : attempt'[t] = IF t = r THEN new
                                    ELSE IF t = old THEN [attempt[t] EXCEPT !.active = FALSE, !.successor = r]
                                    ELSE attempt[t]
  BY <1>5 DEF AcceptAttempt
<1>7. attempt'[r] # NONE
  <2>1. RowInv'
    BY AcceptAttemptRows
  <2>2. head'[c].current = r
    BY <1>1 DEF AcceptAttempt, RowInv, TypeOK
  <2> QED BY <2>1, <2>2, <1>1, NoneIsNoRow DEF RowInv, HeadBounded
<1>8. old # NONE => /\ attempt[old] \in AttemptRow
                    /\ [attempt[old] EXCEPT !.active = FALSE, !.successor = r] \in AttemptRow
  BY <1>4, <1>5 DEF RowInv, TypeOK, AttemptRow
<1>9. \A t \in Runs : Accepted(t) \/ t = r => job'[t] # NONE
  <2>1. NewJob(i.req, r, FALSE) \in JobRow
    BY <1>1, NewJobType
  <2> QED BY <2>1, NoneIsNoRow DEF AcceptAttempt, Accepted, RowInv, TypeOK
<1>10. head' = [head EXCEPT ![c] = [generation |-> head[c].generation + 1, current |-> r]]
  BY DEF AcceptAttempt
<1>11. \A t \in Runs \ {r} :
         /\ attempt'[t] # NONE <=> attempt[t] # NONE
         /\ attempt[t] # NONE =>
              /\ attempt'[t].change = attempt[t].change
              /\ attempt'[t].generation = attempt[t].generation
              /\ attempt'[t].snapshot = attempt[t].snapshot
              /\ IF t = old THEN attempt'[t].successor = r /\ ~attempt'[t].active
                 ELSE attempt'[t] = attempt[t]
  <2> SUFFICES ASSUME NEW t \in Runs \ {r}, t = old
               PROVE  /\ attempt'[t] # NONE <=> attempt[t] # NONE
                      /\ attempt[t] # NONE =>
                           /\ attempt'[t].change = attempt[t].change
                           /\ attempt'[t].generation = attempt[t].generation
                           /\ attempt'[t].snapshot = attempt[t].snapshot
                           /\ attempt'[t].successor = r /\ ~attempt'[t].active
    BY <1>6
  <2>1. attempt'[t] = [attempt[t] EXCEPT !.active = FALSE, !.successor = r] /\ t # NONE
    BY <1>6, NoneIsNoRow
  <2> QED BY <2>1, <1>4, <1>8, NoneIsNoRow DEF AttemptRow
<1> QED BY <1>1, <1>3, <1>4, <1>5, <1>6, <1>7, <1>9, <1>10, <1>11 DEF Succeeds

LEMMA LineAccept ==
  ASSUME RowInv, LineInv, NEW h \in Handlers, NEW r \in Runs, AcceptAttempt(h, r)
  PROVE  LineInv'
<1> DEFINE c == intake[h].req.change
           old == head[c].current
           g == head[c].generation
<1>0. Succeeds(h, r, c)
  BY NewAttempt
<1>1. /\ c \in Changes /\ attempt[r] = NONE /\ r # old
      /\ head' = [head EXCEPT ![c] = [generation |-> g + 1, current |-> r]]
      /\ g \in Nat /\ old \in Runs \cup {NONE} /\ (old # NONE => attempt[old] # NONE)
      /\ \A t \in Runs : Accepted(t) \/ t = r => job'[t] # NONE
      /\ attempt'[r].change = c /\ attempt'[r].generation = g + 1 /\ attempt'[r].successor = NONE
      /\ attempt'[r] # NONE
  BY <1>0 DEF Succeeds
<1>2. \A t \in Runs \ {r} :
        /\ attempt'[t] # NONE <=> attempt[t] # NONE
        /\ attempt[t] # NONE =>
             /\ attempt'[t].change = attempt[t].change
             /\ attempt'[t].generation = attempt[t].generation
             /\ IF t = old THEN attempt'[t].successor = r /\ ~attempt'[t].active
                ELSE attempt'[t] = attempt[t]
  BY <1>0 DEF Succeeds
<1>3. \A d \in Changes : head'[d] = IF d = c THEN [generation |-> g + 1, current |-> r] ELSE head[d]
  BY <1>1 DEF RowInv, TypeOK
<1>4. \A t \in Runs : attempt[t] # NONE => /\ attempt[t].change \in Changes
                                           /\ attempt[t].generation \in Nat
                                           /\ head[attempt[t].change].generation \in Nat
                                           /\ attempt[t].generation <= head[attempt[t].change].generation
  BY BoundAssumption DEF RowInv, TypeOK, AttemptRow, HeadRow, LineInv, Runs
<1>5. \A d \in Changes : head[d].current \in Runs \cup {NONE}
                         /\ (head[d].current # NONE => attempt[head[d].current] # NONE
                                                       /\ attempt[head[d].current].change = d)
  BY DEF RowInv, TypeOK, HeadRow, HeadBounded, LineInv
<1> HIDE DEF c, old, g
<1>6. \A t \in Runs : attempt'[t] # NONE =>
        job'[t] # NONE /\ attempt'[t].generation <= head'[attempt'[t].change].generation
  <2> SUFFICES ASSUME NEW t \in Runs, attempt'[t] # NONE
               PROVE  job'[t] # NONE /\ attempt'[t].generation <= head'[attempt'[t].change].generation
    OBVIOUS
  <2>1. CASE t = r
    BY <1>1, <1>3, <2>1
  <2>2. CASE t # r
    <3>1. attempt[t] # NONE /\ attempt'[t].change = attempt[t].change
          /\ attempt'[t].generation = attempt[t].generation
      BY <1>2, <2>2
    <3>2. Accepted(t)
      BY <3>1 DEF LineInv
    <3>3. head'[attempt[t].change].generation >= head[attempt[t].change].generation
          /\ head'[attempt[t].change].generation \in Nat
      BY <1>1, <1>3, <1>4, <3>1 DEF g
    <3> QED BY <1>1, <1>4, <3>1, <3>2, <3>3
  <2> QED BY <2>1, <2>2
<1>7. \A d \in Changes : head'[d].current # NONE => attempt'[head'[d].current].change = d
  BY <1>1, <1>2, <1>3, <1>5
<1>8. \A t \in Runs : attempt[t] # NONE /\ t # r => (Current(t)' <=> Current(t) /\ t # old)
  <2> SUFFICES ASSUME NEW t \in Runs, attempt[t] # NONE, t # r
               PROVE  Current(t)' <=> Current(t) /\ t # old
    OBVIOUS
  <2>1. Current(t)' <=> head'[attempt[t].change].current = t
    BY <1>2 DEF Current
  <2> QED BY <2>1, <1>1, <1>2, <1>3, <1>4, <1>5, NoneIsNoRow DEF Current, old
<1>9. Current(r)'
  BY <1>1, <1>3 DEF Current
<1>10. old # NONE => Current(old)
  BY <1>1, <1>5 DEF Current, old
<1>11. \A t \in Runs : attempt'[t] # NONE /\ ~Current(t)' =>
         attempt'[t].successor \in Runs /\ attempt'[attempt'[t].successor] # NONE
  <2> SUFFICES ASSUME NEW t \in Runs, attempt'[t] # NONE, ~Current(t)'
               PROVE  attempt'[t].successor \in Runs /\ attempt'[attempt'[t].successor] # NONE
    OBVIOUS
  <2>1. t # r /\ attempt[t] # NONE
    BY <1>2, <1>9
  <2>2. CASE t = old
    BY <1>1, <1>2, <2>1, <2>2
  <2>3. CASE t # old
    <3>1. ~Current(t) /\ attempt'[t] = attempt[t]
      BY <1>2, <1>8, <2>1, <2>3
    <3>2. attempt[t].successor \in Runs /\ attempt[attempt[t].successor] # NONE
      BY <2>1, <3>1 DEF LineInv
    <3> QED BY <1>1, <1>2, <3>1, <3>2
  <2> QED BY <2>2, <2>3
<1>12. OneLine'
  <2> SUFFICES ASSUME NEW t \in Runs, attempt'[t] # NONE
               PROVE  LET d == attempt'[t].change IN
                      /\ attempt'[t].successor = NONE <=> Current(t)'
                      /\ Current(t)' => attempt'[t].generation = head'[d].generation
                      /\ ~Current(t)' => /\ ~attempt'[t].active
                                         /\ attempt'[attempt'[t].successor].change = d
                                         /\ attempt'[attempt'[t].successor].generation = attempt'[t].generation + 1
    BY DEF OneLine
  <2>1. CASE t = r
    BY <1>1, <1>3, <1>9, <2>1
  <2>2. CASE t = old
    <3>1. attempt[t] # NONE /\ t # r /\ Current(t) /\ attempt[t].change = c
      BY <1>1, <1>2, <1>5, <1>10, <2>2, NoneIsNoRow DEF old
    <3>2. attempt[t].generation = g
      BY <3>1 DEF LineInv, OneLine, g
    <3>3. ~Current(t)'
      BY <1>8, <2>2, <3>1
    <3> QED BY <1>1, <1>2, <2>2, <3>1, <3>2, <3>3, NoneIsNoRow
  <2>3. CASE t # r /\ t # old
    <3>1. attempt[t] # NONE /\ attempt'[t] = attempt[t] /\ (Current(t)' <=> Current(t))
      BY <1>2, <1>8, <2>3
    <3>2. CASE Current(t)
      <4>1. attempt[t].change # c
        BY <2>3, <3>2 DEF Current, old
      <4> QED BY <1>3, <1>4, <3>1, <3>2, <4>1 DEF LineInv, OneLine
    <3>3. CASE ~Current(t)
      <4> DEFINE u == attempt[t].successor
      <4>1. u \in Runs /\ attempt[u] # NONE /\ ~attempt[t].active /\ u # NONE
            /\ attempt[u].change = attempt[t].change /\ attempt[u].generation = attempt[t].generation + 1
        BY <3>1, <3>3 DEF LineInv, OneLine
      <4>2. attempt'[u].change = attempt[u].change /\ attempt'[u].generation = attempt[u].generation
        BY <1>1, <1>2, <4>1
      <4> HIDE DEF u
      <4>3. attempt'[t].successor = u
        BY <3>1 DEF u
      <4> QED BY <3>1, <3>3, <4>1, <4>2, <4>3
    <3> QED BY <3>2, <3>3
  <2> QED BY <2>1, <2>2, <2>3
<1> QED BY <1>6, <1>7, <1>11, <1>12 DEF LineInv, Accepted

LEMMA DuplicateKeeps ==
  ASSUME RowInv, NEW h \in Handlers, NEW r \in Runs, AcceptDuplicate(h, r)
  PROVE  /\ UNCHANGED <<attempt, head, scm>> /\ intake' = [intake EXCEPT ![h] = NONE]
         /\ ~Accepted(r) /\ intake[h].req \in Requests
         /\ job' = [job EXCEPT ![r] = NewJob(intake[h].req, head[intake[h].req.change].current, TRUE)]
         /\ \A t \in Runs : Accepted(t) => job'[t] # NONE
BY DEF RowInv, TypeOK, AcceptDuplicate, Admissible, IntakeRow, NextRun, Accepted

LEMMA LineStep == RowInv /\ RowInv' /\ LineInv /\ [Next]_vars => LineInv'
<1> SUFFICES ASSUME RowInv, RowInv', LineInv, [Next]_vars PROVE LineInv'
  OBVIOUS
<1>1. CASE Accepts
  <2>1. ASSUME NEW h \in Handlers, NEW r \in Runs, AcceptDuplicate(h, r) PROVE LineInv'
    BY <2>1, DuplicateKeeps, LineSame
  <2> QED BY <1>1, <2>1, LineAccept DEF Accepts
<1>2. CASE Acquires
  <2>1. UNCHANGED <<attempt, head, job>>
    BY <1>2 DEF Acquires, Push, Receive, ObserveGeneration, Enrich, Abandon
  <2> QED BY <2>1, LineSame DEF Accepted
<1>3. CASE Cancels
  BY <1>3, LineCancel DEF Cancels
<1>4. CASE Quiet
  BY <1>4, LineSame DEF Quiet, JobsKept, SameRun
<1> QED BY <1>1, <1>2, <1>3, <1>4, StepKinds

LEMMA LineInit == Init => LineInv
BY NoneIsNoRow DEF Init, LineInv, OneLine

\* The attempts of every change form one line that ends in the current one,
\* and nothing but the current one can be active: for any number of
\* handlers, deliveries, runs and cancellations.
THEOREM LineSafety == Spec => []OneLine
<1>1. LineInv => OneLine
  BY DEF LineInv
<1>2. Spec => [](RowInv /\ LineInv)
  <2>1. RowInv /\ LineInv /\ [Next]_vars => (RowInv /\ LineInv)'
    BY RowStep, LineStep
  <2> QED BY <2>1, RowInit, LineInit, PTL DEF Spec
<1> QED BY <1>1, <1>2, PTL
-----------------------------------------------------------------------------
(* Deliveries *)

\* A delivery becomes one run, although handlers look for it outside the
\* transaction that accepts it.
THEOREM DeliverySafety == Spec => []OneRunPerDelivery
<1>1. Init => OneRunPerDelivery
  BY DEF Init, OneRunPerDelivery, Accepted
<1>2. RowInv /\ OneRunPerDelivery /\ [Next]_vars => OneRunPerDelivery'
  <2> SUFFICES ASSUME RowInv, OneRunPerDelivery, [Next]_vars PROVE OneRunPerDelivery'
    OBVIOUS
  <2>1. CASE JobsKept
    BY <2>1 DEF JobsKept, SameRun, OneRunPerDelivery, Accepted
  <2>2. CASE Accepts
    <3>1. PICK h \in Handlers, r \in Runs : AcceptDuplicate(h, r) \/ AcceptAttempt(h, r)
      BY <2>2 DEF Accepts
    <3>2. PICK t, d : job' = [job EXCEPT ![r] = NewJob(intake[h].req, t, d)]
      BY <3>1 DEF AcceptDuplicate, AcceptAttempt
    <3>3. ~Known(intake[h].req)
      BY <3>1 DEF AcceptDuplicate, AcceptAttempt, Admissible
    <3>4. job'[r].req = intake[h].req /\ \A s \in Runs \ {r} : job'[s] = job[s]
      BY <3>2 DEF NewJob, RowInv, TypeOK
    <3> QED BY <3>3, <3>4 DEF Known, OneRunPerDelivery, Accepted
  <2>3. CASE Acquires
    BY <2>1, <2>3, SameJobs DEF Acquires
  <2> QED BY <2>1, <2>2, <2>3, StepKinds DEF Cancels, Quiet
<1> QED BY <1>1, <1>2, RowInit, RowStep, PTL DEF Spec
-----------------------------------------------------------------------------
(* Revisions *)

\* The attempts a handler saw when it read the generation.
Seen(h) == {t \in Runs : /\ attempt[t] # NONE /\ attempt[t].change = intake[h].req.change
                         /\ attempt[t].generation <= intake[h].generation}

\* SnapshotsAdvance with what it rests on: attempts are not ahead of the
\* code host, and a handler's snapshot is not behind the attempts it saw.
SnapshotInv ==
  /\ \A t \in Runs : attempt[t] # NONE => attempt[t].snapshot <= scm[attempt[t].change]
  /\ \A h \in Handlers : intake[h] # NONE /\ intake[h].generation # NONE =>
       intake[h].generation <= head[intake[h].req.change].generation
  /\ \A h \in Handlers : intake[h] # NONE /\ intake[h].snapshot # NONE =>
       /\ intake[h].generation # NONE
       /\ intake[h].snapshot <= scm[intake[h].req.change]
       /\ \A t \in Seen(h) : attempt[t].snapshot <= intake[h].snapshot
  /\ SnapshotsAdvance

LEMMA RowTypes ==
  ASSUME RowInv
  PROVE  /\ \A t \in Runs : attempt[t] # NONE =>
              /\ attempt[t].change \in Changes /\ attempt[t].snapshot \in Nat
              /\ attempt[t].generation \in Nat
         /\ \A c \in Changes : scm[c] \in Nat /\ head[c].generation \in Nat
         /\ \A h \in Handlers : intake[h] # NONE =>
              /\ intake[h] \in IntakeRow /\ intake[h].req.change \in Changes
              /\ intake[h].generation \in Nat \cup {NONE}
              /\ intake[h].snapshot \in Nat \cup {NONE}
<1> USE DEF RowInv, TypeOK
<1>1. \A t \in Runs : attempt[t] # NONE =>
        attempt[t].change \in Changes /\ attempt[t].snapshot \in Nat /\ attempt[t].generation \in Nat
  BY BoundAssumption DEF AttemptRow, Heads, Runs
<1>2. \A c \in Changes : scm[c] \in Nat /\ head[c].generation \in Nat
  BY BoundAssumption DEF HeadRow, Heads
<1>3. ASSUME NEW h \in Handlers, intake[h] # NONE
      PROVE  /\ intake[h] \in IntakeRow /\ intake[h].req.change \in Changes
             /\ intake[h].generation \in Nat \cup {NONE}
             /\ intake[h].snapshot \in Nat \cup {NONE}
  <2>1. intake[h] \in IntakeRow
    BY <1>3
  <2>2. intake[h].req \in Requests
    BY <2>1 DEF IntakeRow
  <2> QED BY <2>1, <2>2, RequestAssumption, BoundAssumption DEF IntakeRow, Heads
<1> QED BY <1>1, <1>2, <1>3

\* Attempts, heads and handlers as they were, the code host not behind.
LEMMA SnapshotKeeps ==
  ASSUME RowInv, SnapshotInv, UNCHANGED head,
         \A c \in Changes : scm'[c] \in Nat /\ scm[c] <= scm'[c],
         \A t \in Runs : /\ attempt'[t] # NONE <=> attempt[t] # NONE
                         /\ attempt[t] # NONE =>
                              /\ attempt'[t].change = attempt[t].change
                              /\ attempt'[t].generation = attempt[t].generation
                              /\ attempt'[t].snapshot = attempt[t].snapshot,
         \A h \in Handlers : intake'[h] = NONE \/ intake'[h] = intake[h]
                             \/ (intake'[h].generation = NONE /\ intake'[h].snapshot = NONE)
  PROVE  SnapshotInv'
<1>1. \A t \in Runs : attempt'[t] # NONE => attempt'[t].snapshot <= scm'[attempt'[t].change]
  BY RowTypes DEF SnapshotInv
<1>2. \A h \in Handlers : intake'[h] # NONE /\ intake'[h].generation # NONE =>
        intake'[h].generation <= head'[intake'[h].req.change].generation
  BY DEF SnapshotInv
<1>3. ASSUME NEW h \in Handlers, intake'[h] # NONE, intake'[h].snapshot # NONE
      PROVE  /\ intake'[h].generation # NONE
             /\ intake'[h].snapshot <= scm'[intake'[h].req.change]
             /\ \A t \in Seen(h)' : attempt'[t].snapshot <= intake'[h].snapshot
  <2>1. intake'[h] = intake[h] /\ intake[h] # NONE
    BY <1>3
  <2>2. Seen(h)' = Seen(h)
    BY <2>1 DEF Seen
  <2> QED BY <1>3, <2>1, <2>2, RowTypes DEF SnapshotInv, Seen
<1>4. SnapshotsAdvance'
  BY DEF SnapshotInv, SnapshotsAdvance
<1> QED BY <1>1, <1>2, <1>3, <1>4 DEF SnapshotInv

LEMMA SnapshotCancel ==
  ASSUME RowInv, SnapshotInv, NEW t \in Runs, CancelAttempt(t)
  PROVE  SnapshotInv'
<1>1. attempt[t] \in AttemptRow /\ [attempt[t] EXCEPT !.active = FALSE] \in AttemptRow
  BY DEF RowInv, TypeOK, AttemptRow, CancelAttempt
<1>2. \A u \in Runs : attempt'[u] = IF u = t THEN [attempt[t] EXCEPT !.active = FALSE] ELSE attempt[u]
  BY DEF RowInv, TypeOK, CancelAttempt
<1>3. \A u \in Runs : /\ attempt'[u] # NONE <=> attempt[u] # NONE
                      /\ attempt[u] # NONE =>
                           /\ attempt'[u].change = attempt[u].change
                           /\ attempt'[u].generation = attempt[u].generation
                           /\ attempt'[u].snapshot = attempt[u].snapshot
  <2> SUFFICES ASSUME NEW u \in Runs
               PROVE  /\ attempt'[u] # NONE <=> attempt[u] # NONE
                      /\ attempt[u] # NONE =>
                           /\ attempt'[u].change = attempt[u].change
                           /\ attempt'[u].generation = attempt[u].generation
                           /\ attempt'[u].snapshot = attempt[u].snapshot
    OBVIOUS
  <2>1. CASE u = t
    <3>1. attempt[t] # NONE /\ [attempt[t] EXCEPT !.active = FALSE] # NONE
      BY <1>1, NoneIsNoRow
    <3>2. attempt'[u] = [attempt[t] EXCEPT !.active = FALSE]
      BY <1>2, <2>1
    <3>3. /\ attempt'[u].change = attempt[t].change
          /\ attempt'[u].generation = attempt[t].generation
          /\ attempt'[u].snapshot = attempt[t].snapshot
      BY <1>1, <3>2 DEF AttemptRow
    <3> QED BY <2>1, <3>1, <3>2, <3>3
  <2>2. CASE u # t
    BY <1>2, <2>2
  <2> QED BY <2>1, <2>2
<1>4. UNCHANGED head /\ UNCHANGED scm /\ UNCHANGED intake
  BY DEF CancelAttempt
<1>5. \A d \in Changes : scm'[d] \in Nat /\ scm[d] <= scm'[d]
  BY <1>4, RowTypes
<1>6. \A h \in Handlers : intake'[h] = NONE \/ intake'[h] = intake[h]
                          \/ (intake'[h].generation = NONE /\ intake'[h].snapshot = NONE)
  BY <1>4
<1> QED BY <1>3, <1>4, <1>5, <1>6, SnapshotKeeps

LEMMA SnapshotAcquire ==
  ASSUME RowInv, LineInv, SnapshotInv, Acquires
  PROVE  SnapshotInv'
<1>1. ASSUME NEW c \in Changes, Push(c) PROVE SnapshotInv'
  <2>1. \A d \in Changes : scm'[d] \in Nat /\ scm[d] <= scm'[d]
    BY <1>1, RowTypes DEF Push, RowInv, TypeOK
  <2> QED BY <1>1, <2>1, SnapshotKeeps DEF Push
<1>2. ASSUME NEW h \in Handlers, NEW q \in Requests, Receive(h, q) PROVE SnapshotInv'
  <2>1. \A g \in Handlers : intake'[g] = NONE \/ intake'[g] = intake[g]
                             \/ (intake'[g].generation = NONE /\ intake'[g].snapshot = NONE)
    BY <1>2 DEF Receive, RowInv, TypeOK
  <2>2. UNCHANGED <<attempt, head, scm>>
    BY <1>2 DEF Receive
  <2> QED BY <2>1, <2>2, SnapshotKeeps, RowTypes
<1>3. ASSUME NEW h \in Handlers, Abandon(h) PROVE SnapshotInv'
  <2>1. \A g \in Handlers : intake'[g] = intake[g] \/ intake'[g] = NONE
    BY <1>3 DEF Abandon, RowInv, TypeOK
  <2>2. UNCHANGED <<attempt, head, scm>>
    BY <1>3 DEF Abandon
  <2> QED BY <2>1, <2>2, SnapshotKeeps, RowTypes
<1>4. ASSUME NEW h \in Handlers, ObserveGeneration(h) PROVE SnapshotInv'
  <2> DEFINE g == head[intake[h].req.change].generation
  <2>1. intake[h] \in IntakeRow /\ intake[h] # NONE /\ intake[h].generation = NONE /\ g \in Nat
        /\ intake[h].req.change \in Changes
    BY <1>4, RowTypes DEF ObserveGeneration
  <2>2. intake[h].snapshot = NONE
    BY <1>4, <2>1 DEF SnapshotInv
  <2>3. UNCHANGED <<attempt, head, scm>>
    BY <1>4 DEF ObserveGeneration
  <2>4. intake'[h] # NONE /\ intake'[h].generation = g /\ intake'[h].snapshot = NONE
        /\ intake'[h].req = intake[h].req /\ \A k \in Handlers \ {h} : intake'[k] = intake[k]
    <3>1. RowInv'
      BY RowStep, <1>4 DEF Next, Intake
    <3>2. intake'[h] = [intake[h] EXCEPT !.generation = g]
      BY <1>4 DEF ObserveGeneration, RowInv, TypeOK
    <3>3. g \in 0..MaxRun
      BY <2>1 DEF RowInv, TypeOK, HeadRow
    <3>4. [intake[h] EXCEPT !.generation = g] \in IntakeRow
      BY <2>1, <3>3 DEF IntakeRow
    <3>5. \A k \in Handlers \ {h} : intake'[k] = intake[k]
      BY <1>4 DEF ObserveGeneration, RowInv, TypeOK
    <3> QED BY <2>1, <2>2, <3>2, <3>4, <3>5, NoneIsNoRow DEF IntakeRow
  <2> HIDE DEF g
  <2>5. \A k \in Handlers : intake'[k] # NONE /\ intake'[k].generation # NONE =>
          intake'[k].generation <= head'[intake'[k].req.change].generation
    BY <2>1, <2>3, <2>4 DEF SnapshotInv, g
  <2>6. ASSUME NEW k \in Handlers, intake'[k] # NONE, intake'[k].snapshot # NONE
        PROVE  /\ intake'[k].generation # NONE
               /\ intake'[k].snapshot <= scm'[intake'[k].req.change]
               /\ \A t \in Seen(k)' : attempt'[t].snapshot <= intake'[k].snapshot
    <3>1. intake'[k] = intake[k] /\ k # h
      BY <2>4, <2>6
    <3>2. Seen(k)' = Seen(k)
      BY <2>3, <3>1 DEF Seen
    <3> QED BY <2>3, <2>6, <3>1, <3>2 DEF SnapshotInv
  <2> QED BY <2>3, <2>5, <2>6 DEF SnapshotInv, SnapshotsAdvance
<1>5. ASSUME NEW h \in Handlers, Enrich(h) PROVE SnapshotInv'
  <2> DEFINE v == scm[intake[h].req.change]
  <2>1. intake[h] \in IntakeRow /\ intake[h] # NONE /\ intake[h].generation # NONE /\ v \in Nat
        /\ v \in Heads /\ intake[h].req.change \in Changes
    BY <1>5, RowTypes DEF Enrich, RowInv, TypeOK
  <2>2. UNCHANGED <<attempt, head, scm>>
    BY <1>5 DEF Enrich
  <2>3. intake'[h] # NONE /\ intake'[h].generation = intake[h].generation /\ intake'[h].snapshot = v
        /\ intake'[h].req = intake[h].req /\ \A k \in Handlers \ {h} : intake'[k] = intake[k]
    <3>1. intake'[h] = [intake[h] EXCEPT !.snapshot = v]
      BY <1>5 DEF Enrich, RowInv, TypeOK
    <3>2. [intake[h] EXCEPT !.snapshot = v] \in IntakeRow
      BY <2>1 DEF IntakeRow
    <3>3. \A k \in Handlers \ {h} : intake'[k] = intake[k]
      BY <1>5 DEF Enrich, RowInv, TypeOK
    <3> QED BY <2>1, <3>1, <3>2, <3>3, NoneIsNoRow DEF IntakeRow
  <2> HIDE DEF v
  <2>4. \A k \in Handlers : intake'[k] # NONE /\ intake'[k].generation # NONE =>
          intake'[k].generation <= head'[intake'[k].req.change].generation
    BY <2>1, <2>2, <2>3 DEF SnapshotInv
  <2>5. ASSUME NEW k \in Handlers, intake'[k] # NONE, intake'[k].snapshot # NONE
        PROVE  /\ intake'[k].generation # NONE
               /\ intake'[k].snapshot <= scm'[intake'[k].req.change]
               /\ \A t \in Seen(k)' : attempt'[t].snapshot <= intake'[k].snapshot
    <3>1. CASE k = h
      BY <2>1, <2>2, <2>3, <3>1 DEF SnapshotInv, Seen, v
    <3>2. CASE k # h
      <4>1. intake'[k] = intake[k] /\ Seen(k)' = Seen(k)
        BY <2>2, <2>3, <3>2 DEF Seen
      <4> QED BY <2>2, <2>5, <4>1 DEF SnapshotInv
    <3> QED BY <3>1, <3>2
  <2> QED BY <2>2, <2>4, <2>5 DEF SnapshotInv, SnapshotsAdvance
<1> QED BY <1>1, <1>2, <1>3, <1>4, <1>5 DEF Acquires

LEMMA SnapshotAccept ==
  ASSUME RowInv, LineInv, SnapshotInv, NEW h \in Handlers, NEW r \in Runs, AcceptAttempt(h, r)
  PROVE  SnapshotInv'
<1> DEFINE c == intake[h].req.change
           g == head[c].generation
<1>1. Succeeds(h, r, c) /\ UNCHANGED scm
  BY NewAttempt DEF AcceptAttempt
<1>2. /\ c \in Changes /\ g \in Nat /\ attempt[r] = NONE
      /\ attempt'[r].change = c /\ attempt'[r].generation = g + 1
      /\ attempt'[r].snapshot = intake[h].snapshot /\ intake[h].snapshot \in Nat
      /\ head' = [head EXCEPT ![c] = [generation |-> g + 1, current |-> r]]
  BY <1>1, BoundAssumption DEF Succeeds, Heads
<1>3. \A t \in Runs : t # r =>
        /\ attempt'[t] # NONE <=> attempt[t] # NONE
        /\ attempt[t] # NONE =>
             /\ attempt'[t].change = attempt[t].change
             /\ attempt'[t].generation = attempt[t].generation
             /\ attempt'[t].snapshot = attempt[t].snapshot
  BY <1>1 DEF Succeeds
<1>4. intake[h] # NONE /\ intake[h].generation = g /\ intake[h].snapshot # NONE
      /\ intake' = [intake EXCEPT ![h] = NONE]
  BY DEF AcceptAttempt, Admissible
<1>5. \A d \in Changes : head'[d].generation = IF d = c THEN g + 1 ELSE head[d].generation
  BY <1>2 DEF RowInv, TypeOK
<1>6. \A k \in Handlers : intake'[k] = IF k = h THEN NONE ELSE intake[k]
  BY <1>4 DEF RowInv, TypeOK
<1>7. \A t \in Runs : attempt[t] # NONE /\ attempt[t].change = c =>
        attempt[t].generation <= g /\ attempt[t].snapshot <= intake[h].snapshot
  BY <1>4 DEF LineInv, SnapshotInv, Seen
<1>8. intake[h].snapshot <= scm[c]
  BY <1>4 DEF SnapshotInv
<1> HIDE DEF c, g
<1>9. \A t \in Runs : attempt'[t] # NONE => attempt'[t].snapshot <= scm'[attempt'[t].change]
  <2> SUFFICES ASSUME NEW t \in Runs, attempt'[t] # NONE
               PROVE  attempt'[t].snapshot <= scm'[attempt'[t].change]
    OBVIOUS
  <2>1. CASE t = r
    BY <1>1, <1>2, <1>8, <2>1
  <2>2. CASE t # r
    <3>1. attempt[t] # NONE /\ attempt'[t].change = attempt[t].change
          /\ attempt'[t].snapshot = attempt[t].snapshot
      BY <1>3, <2>2
    <3>2. attempt[t].snapshot <= scm[attempt[t].change]
      BY <3>1 DEF SnapshotInv
    <3> QED BY <1>1, <3>1, <3>2
  <2> QED BY <2>1, <2>2
<1>10. \A k \in Handlers : intake'[k] # NONE /\ intake'[k].generation # NONE =>
         intake'[k].generation <= head'[intake'[k].req.change].generation
  <2> SUFFICES ASSUME NEW k \in Handlers, intake'[k] # NONE, intake'[k].generation # NONE
               PROVE  intake'[k].generation <= head'[intake'[k].req.change].generation
    OBVIOUS
  <2>1. intake'[k] = intake[k] /\ intake[k].req.change \in Changes /\ intake[k].generation \in Nat
    BY <1>6, RowTypes
  <2>2. intake[k].generation <= head[intake[k].req.change].generation
    BY <2>1 DEF SnapshotInv
  <2>3. head[intake[k].req.change].generation <= head'[intake[k].req.change].generation
        /\ head[intake[k].req.change].generation \in Nat
    BY <1>2, <1>5, <2>1, RowTypes DEF g
  <2>4. head'[intake[k].req.change].generation \in Nat
    BY <1>2, <1>5, <2>1, RowTypes
  <2> QED BY <2>1, <2>2, <2>3, <2>4
<1>11. ASSUME NEW k \in Handlers, intake'[k] # NONE, intake'[k].snapshot # NONE
       PROVE  /\ intake'[k].generation # NONE
              /\ intake'[k].snapshot <= scm'[intake'[k].req.change]
              /\ \A t \in Seen(k)' : attempt'[t].snapshot <= intake'[k].snapshot
  <2>1. intake'[k] = intake[k] /\ intake[k] # NONE /\ intake[k].snapshot # NONE
    BY <1>6, <1>11
  <2>2. intake[k].generation # NONE /\ intake[k].generation <= head[intake[k].req.change].generation
    BY <2>1 DEF SnapshotInv
  <2>3. r \notin Seen(k)'
    <3>1. intake[k].generation \in Nat /\ (intake[k].req.change = c => intake[k].generation <= g)
      BY <2>1, <2>2, RowTypes DEF g
    <3> QED BY <1>2, <2>1, <3>1 DEF Seen
  <2>4. Seen(k)' \subseteq Seen(k)
    BY <1>3, <2>1, <2>3 DEF Seen
  <2>5. \A t \in Seen(k)' : attempt'[t].snapshot = attempt[t].snapshot
    BY <1>3, <2>3, <2>4 DEF Seen
  <2> QED BY <1>1, <2>1, <2>2, <2>4, <2>5 DEF SnapshotInv
<1>12. SnapshotsAdvance'
  <2> SUFFICES ASSUME NEW t \in Runs, NEW u \in Runs, attempt'[t] # NONE, attempt'[u] # NONE,
                      attempt'[t].change = attempt'[u].change,
                      attempt'[t].generation < attempt'[u].generation
               PROVE  attempt'[t].snapshot <= attempt'[u].snapshot
    BY DEF SnapshotsAdvance
  <2>1. CASE t = r
    <3>1. u # r
      BY <1>2, <2>1
    <3>2. attempt[u] # NONE /\ attempt'[u].change = attempt[u].change
          /\ attempt'[u].generation = attempt[u].generation
      BY <1>3, <3>1
    <3>3. attempt[u].generation \in Nat /\ attempt[u].change = c
      BY <1>2, <2>1, <3>2, RowTypes
    <3>4. attempt[u].generation <= g /\ g + 1 < attempt[u].generation
      BY <1>2, <1>7, <2>1, <3>2, <3>3
    <3> QED BY <1>2, <3>3, <3>4
  <2>2. CASE t # r /\ u = r
    <3>1. attempt[t] # NONE /\ attempt'[t].change = attempt[t].change
          /\ attempt'[t].snapshot = attempt[t].snapshot
      BY <1>3, <2>2
    <3>2. attempt[t].change = c
      BY <1>2, <2>2, <3>1
    <3> QED BY <1>2, <1>7, <2>2, <3>1, <3>2
  <2>3. CASE t # r /\ u # r
    BY <1>3, <2>3 DEF SnapshotInv, SnapshotsAdvance
  <2> QED BY <2>1, <2>2, <2>3
<1> QED BY <1>9, <1>10, <1>11, <1>12 DEF SnapshotInv

LEMMA SnapshotStep == RowInv /\ LineInv /\ SnapshotInv /\ [Next]_vars => SnapshotInv'
<1> SUFFICES ASSUME RowInv, LineInv, SnapshotInv, [Next]_vars PROVE SnapshotInv'
  OBVIOUS
<1>1. ASSUME NEW h \in Handlers, NEW r \in Runs, AcceptDuplicate(h, r) PROVE SnapshotInv'
  <2>1. \A g \in Handlers : intake'[g] = intake[g] \/ intake'[g] = NONE
    BY <1>1, DuplicateKeeps DEF RowInv, TypeOK
  <2>2. UNCHANGED attempt /\ UNCHANGED head /\ UNCHANGED scm
    BY <1>1, DuplicateKeeps
  <2> QED BY <2>1, <2>2, SnapshotKeeps, RowTypes
<1>2. CASE Accepts
  BY <1>1, <1>2, SnapshotAccept DEF Accepts
<1>3. CASE Cancels
  BY <1>3, SnapshotCancel DEF Cancels
<1>4. CASE Quiet /\ UNCHANGED <<scm, intake>>
  BY <1>4, SnapshotKeeps, RowTypes DEF Quiet
<1> QED BY <1>2, <1>3, <1>4, SnapshotAcquire, StepKinds

\* A slow acquisition never replaces a newer revision by an older one.
THEOREM SnapshotSafety == Spec => []SnapshotsAdvance
<1>1. Init => SnapshotInv
  BY NoneIsNoRow DEF Init, SnapshotInv, SnapshotsAdvance
<1>2. SnapshotInv => SnapshotsAdvance
  BY DEF SnapshotInv
<1>3. RowInv /\ LineInv /\ SnapshotInv /\ [Next]_vars => (RowInv /\ LineInv /\ SnapshotInv)'
  BY RowStep, LineStep, SnapshotStep
<1> QED BY <1>1, <1>2, <1>3, RowInit, LineInit, PTL DEF Spec
=============================================================================
