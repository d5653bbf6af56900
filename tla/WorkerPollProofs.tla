--------------------------- MODULE WorkerPollProofs ---------------------------
(***************************************************************************)
(* Proofs about the workers' poll: whatever several workers do at the same *)
(* time, groups are counted right, nothing that can go on drops out of the *)
(* lists, and what ends before its deadline ends on a final reduction.     *)
(***************************************************************************)
EXTENDS WorkerPoll, FiniteSetTheorems, SequenceTheorems, WellFoundedInduction, TLAPS

(***************************************************************************)
(* Lists.                                                                   *)
(***************************************************************************)
Distinct(s) == \A i, j \in DOMAIN s : s[i] = s[j] => i = j

\* The elements of a finite set of numbers have as many ranks as it has elements.
LEMMA Ranked ==
  ASSUME NEW n \in Nat, NEW T \in SUBSET (1..n), NEW m, m = Cardinality(T)
  PROVE  /\ m \in Nat
         /\ \A k \in 1..m : \E i \in T : Cardinality({j \in T : j < i}) = k - 1
         /\ \A i \in T : Cardinality({j \in T : j < i}) + 1 \in 1..m
         /\ \A i, j \in T : Cardinality({k \in T : k < i}) = Cardinality({k \in T : k < j}) => i = j
<1> DEFINE below(i) == {j \in T : j < i}
           rank(i) == Cardinality(below(i))
           f == [i \in T |-> rank(i)]
<1>1. IsFiniteSet(T) /\ m \in Nat
  <2>1. IsFiniteSet(1..n) BY FS_Interval
  <2> QED BY <2>1, FS_Subset, FS_CardinalityType
<1>2. \A i \in T : below(i) \in SUBSET T /\ IsFiniteSet(below(i)) /\ rank(i) \in Nat
  BY <1>1, FS_Subset, FS_CardinalityType
<1>3. ASSUME NEW i \in T, NEW j \in T, j < i PROVE rank(j) < rank(i)
  <2>0. T \subseteq Int /\ i \in T /\ j \in T /\ j < i BY <1>3
  <2>1. below(j) \subseteq below(i) /\ j \in below(i) /\ j \notin below(j)
    <3>1. \A k \in T : k < j => k < i BY <2>0
    <3>2. ~(j < j) BY <2>0
    <3> QED BY <2>0, <3>1, <3>2
  <2> HIDE DEF below
  <2>2. rank(j) <= rank(i) /\ (rank(j) = rank(i) => below(j) = below(i)) BY <1>2, <2>1, FS_Subset
  <2>3. rank(j) # rank(i) BY <2>1, <2>2
  <2> QED BY <1>2, <2>2, <2>3
<1>4. ASSUME NEW i \in T PROVE rank(i) \in 0..(m - 1)
  <2>1. below(i) \in SUBSET (T \ {i}) OBVIOUS
  <2>2. IsFiniteSet(T \ {i}) /\ Cardinality(T \ {i}) = m - 1 BY <1>1, FS_RemoveElement
  <2> HIDE DEF below
  <2>3. rank(i) <= m - 1 BY <2>1, <2>2, FS_Subset
  <2> QED BY <1>1, <1>2, <2>3
<1>5. \A i, j \in T : rank(i) = rank(j) => i = j
  <2> HIDE DEF rank
  <2>1. \A i \in T : rank(i) \in Nat BY <1>2
  <2> QED BY <1>3, <2>1
<1>6. \A k \in 0..(m - 1) : \E i \in T : rank(i) = k
  <2>1. f \in Injection(T, 0..(m - 1))
    <3> HIDE DEF rank
    <3> QED BY <1>4, <1>5 DEF Injection, IsInjective
  <2>2. IsFiniteSet(0..(m - 1)) /\ Cardinality(0..(m - 1)) = m
    <3>1. 0 \in Int /\ m - 1 \in Int BY <1>1
    <3>2. /\ IsFiniteSet(0..(m - 1))
          /\ Cardinality(0..(m - 1)) = IF 0 > m - 1 THEN 0 ELSE (m - 1) - 0 + 1
      BY <3>1, FS_Interval
    <3> QED BY <1>1, <3>2
  <2> HIDE DEF f
  <2>3. f \in Surjection(T, 0..(m - 1)) BY <1>1, <2>1, <2>2, FS_Injection
  <2> QED BY <2>3 DEF Surjection, f
<1>7. \A k \in 1..m : k - 1 \in 0..(m - 1) BY <1>1
<1>8. \A i \in T : rank(i) + 1 \in 1..m
  <2> HIDE DEF rank
  <2> QED BY <1>1, <1>4
<1> HIDE DEF rank
<1>9. \A k \in 1..m : \E i \in T : rank(i) = k - 1 BY <1>6, <1>7
<1> QED BY <1>1, <1>5, <1>8, <1>9 DEF rank

\* Among keeps the members of S, all of them, and none twice.
LEMMA AmongKeeps ==
  ASSUME NEW s \in Seq(Runs), NEW S, NEW out, out = Among(s, S)
  PROVE  /\ out \in Seq(Runs)
         /\ \A i \in DOMAIN out : out[i] \in S /\ Listed(out[i], s)
         /\ \A r \in S : Listed(r, s) => Listed(r, out)
         /\ Distinct(s) => Distinct(out)
<1> DEFINE at == {i \in DOMAIN s : s[i] \in S}
           rank(i) == Cardinality({j \in at : j < i})
           m == Cardinality(at)
           pick(k) == CHOOSE i \in at : rank(i) = k - 1
<1>1. out = [k \in 1..m |-> s[pick(k)]] BY DEF Among
<1>2. Len(s) \in Nat /\ DOMAIN s = 1..Len(s) /\ \A i \in DOMAIN s : s[i] \in Runs OBVIOUS
<1>3. at \in SUBSET (1..Len(s)) BY <1>2
<1>4. /\ m \in Nat
      /\ \A k \in 1..m : \E i \in at : rank(i) = k - 1
      /\ \A i \in at : rank(i) + 1 \in 1..m
      /\ \A i, j \in at : rank(i) = rank(j) => i = j
  <2> HIDE DEF at
  <2> QED BY <1>2, <1>3, Ranked
<1>5. \A i \in at : i \in DOMAIN s /\ s[i] \in S OBVIOUS
<1>6. \A i \in DOMAIN s : s[i] \in S => i \in at OBVIOUS
<1> HIDE DEF at, rank
<1>7. \A k \in 1..m : pick(k) \in at /\ rank(pick(k)) = k - 1 BY <1>4
<1>8. IsFiniteSet(at)
  <2>1. IsFiniteSet(1..Len(s)) BY <1>2, FS_Interval
  <2> QED BY <1>3, <2>1, FS_Subset
<1>9. ASSUME NEW i \in at PROVE rank(i) \in Nat /\ rank(i) + 1 \in 1..m /\ pick(rank(i) + 1) = i
  <2>1. rank(i) + 1 \in 1..m BY <1>4
  <2>2. rank(i) \in Nat BY <1>8, FS_Subset, FS_CardinalityType DEF rank
  <2>3. pick(rank(i) + 1) \in at /\ rank(pick(rank(i) + 1)) = rank(i) BY <1>7, <2>1, <2>2
  <2> QED BY <1>4, <2>1, <2>2, <2>3
<1> HIDE DEF pick
<1>10. DOMAIN out = 1..m /\ \A k \in 1..m : out[k] = s[pick(k)] BY <1>1
<1>11. out \in Seq(Runs)
  <2>1. \A k \in 1..m : s[pick(k)] \in Runs BY <1>2, <1>5, <1>7
  <2> QED BY <1>1, <1>4, <2>1
<1>12. \A i \in DOMAIN out : out[i] \in S /\ Listed(out[i], s) BY <1>5, <1>7, <1>10 DEF Listed
<1>13. ASSUME NEW r \in S, Listed(r, s) PROVE Listed(r, out)
  <2>1. PICK i \in DOMAIN s : s[i] = r BY <1>13 DEF Listed
  <2>2. i \in at BY <1>6, <2>1
  <2> QED BY <1>9, <1>10, <2>1, <2>2 DEF Listed
<1>14. ASSUME Distinct(s), NEW i \in DOMAIN out, NEW j \in DOMAIN out, out[i] = out[j] PROVE i = j
  <2>1. pick(i) = pick(j) BY <1>5, <1>7, <1>10, <1>14 DEF Distinct
  <2>2. rank(pick(i)) = i - 1 /\ rank(pick(j)) = j - 1 /\ i \in Int /\ j \in Int BY <1>4, <1>7, <1>10
  <2> QED BY <2>1, <2>2
<1> QED BY <1>11, <1>12, <1>13, <1>14 DEF Distinct

LEMMA OldestKeeps ==
  ASSUME NEW s \in Seq(Runs), NEW S, NEW out, out = Oldest(s, S)
  PROVE  out \in Seq(Runs) /\ \A i \in DOMAIN out : out[i] \in S
<1> DEFINE found == Among(s, S)
           k == IF Len(found) < Limit THEN Len(found) ELSE Limit
<1>1. found \in Seq(Runs) /\ \A i \in DOMAIN found : found[i] \in S BY AmongKeeps
<1>2. out = SubSeq(found, 1, k) BY DEF Oldest
<1> HIDE DEF found
<1>3. k \in 0..Len(found) BY <1>1, RunsAssumption
<1>4. out \in Seq(Runs) /\ Len(out) = k /\ \A i \in 1..k : out[i] = found[i]
  BY <1>1, <1>2, <1>3, SubSeqProperties
<1> QED BY <1>1, <1>3, <1>4

LEMMA TouchKeeps ==
  ASSUME schedule \in Seq(Runs), NEW r \in Runs, Touch(r)
  PROVE  /\ schedule' \in Seq(Runs) /\ Listed(r, schedule')
         /\ \A q \in Runs : Listed(q, schedule) => Listed(q, schedule')
<1> DEFINE rest == Without(schedule, r)
<1>1. rest \in Seq(Runs) /\ \A q \in Runs \ {r} : Listed(q, schedule) => Listed(q, rest) BY AmongKeeps DEF Without
<1>2. schedule' = Append(rest, r) BY DEF Touch
<1> HIDE DEF rest
<1>3. /\ schedule' \in Seq(Runs) /\ Len(schedule') = Len(rest) + 1
      /\ \A i \in 1..Len(rest) : schedule'[i] = rest[i]
      /\ schedule'[Len(rest) + 1] = r
  BY <1>1, <1>2, AppendProperties
<1>4. Len(rest) \in Nat /\ DOMAIN rest = 1..Len(rest) /\ DOMAIN schedule' = 1..(Len(rest) + 1) BY <1>1, <1>3
<1> QED BY <1>1, <1>3, <1>4 DEF Listed

LEMMA AppendedIsListed ==
  ASSUME NEW s \in Seq(Runs), NEW r \in Runs, NEW t, t = Append(s, r)
  PROVE  t \in Seq(Runs) /\ Listed(r, t) /\ \A q \in Runs : Listed(q, s) => Listed(q, t)
<1>1. /\ t \in Seq(Runs) /\ Len(t) = Len(s) + 1 /\ t[Len(s) + 1] = r
      /\ \A i \in 1..Len(s) : t[i] = s[i]
  BY AppendProperties
<1>2. Len(s) \in Nat /\ DOMAIN s = 1..Len(s) /\ DOMAIN t = 1..(Len(s) + 1) BY <1>1
<1> QED BY <1>1, <1>2 DEF Listed

LEMMA LeastRun ==
  ASSUME NEW S \in SUBSET Runs, S # {}
  PROVE  Least(S) \in S
<1> DEFINE R == {pair \in Nat \X Nat : pair[1] < pair[2]}
<1>1. IsWellFoundedOn(R, Nat) BY NatLessThanWellFounded DEF OpToRel
<1>2. S \in SUBSET Nat BY RunsAssumption
<1>3. \E x \in S : \A y \in S : x <= y
  <2> HIDE DEF R
  <2>1. PICK x \in S : \A y \in S : ~(<<y, x>> \in R) BY <1>1, <1>2, WFMin
  <2>2. ASSUME NEW y \in S PROVE x <= y
    <3>1. x \in Nat /\ y \in Nat BY <1>2
    <3>2. ~(<<y, x>> \in R) BY <2>1
    <3>3. ~(y < x) BY <3>1, <3>2 DEF R
    <3> QED BY <3>1, <3>3
  <2> QED BY <2>2
<1> QED BY <1>3 DEF Least

(***************************************************************************)
(* The invariant.                                                           *)
(***************************************************************************)
\* A group asks no more than its size, and is reduced when nothing is open.
Sound(row) ==
  /\ row \in Job
  /\ row.prepared + row.recorded + row.indexed <= row.size
  /\ row.verdict # "none" => row.prepared + row.recorded + row.indexed = 0

Queued == Distinct(accepted) /\ \A i \in DOMAIN accepted : inbox[accepted[i]] = "pending"

\* Nothing was asked for a run that nobody claimed.
Fresh == \A r \in Runs : inbox[r] \in {"new", "pending"} =>
  job[r] = NewJob(r) /\ \A w \in Workers : frame[w] # r

\* What a worker knows in its stage, however old its list is.
Final(r) == job[r].verdict = "final" /\ ~job[r].lost
Staged(w) ==
  /\ pc[w] \in {"frame", "handoff"} => frame[w] # NONE
  /\ pc[w] = "frame" => job[frame[w]] = NewJob(frame[w])
  /\ pc[w] = "reduce" => held[w] \in Runs
  /\ pc[w] \in DOMAIN Behind => todo[w] # <<>>
  /\ pc[w] = "complete" => \A i \in DOMAIN todo[w] : Final(todo[w][i])

\* No two workers execute one run.
Alone == \A v, w \in Workers : frame[v] = frame[w] /\ frame[w] # NONE => v = w

PollInv ==
  /\ TypeOK /\ (\A r \in Runs : Sound(job[r])) /\ Queued /\ Fresh
  /\ (\A w \in Workers : Staged(w)) /\ Alone /\ NothingIsForgotten /\ CompletedIsFinal

(***************************************************************************)
(* What a step of the poll does, but for the claim of a pending run.        *)
(***************************************************************************)
\* To its worker.
WorkerMoves(w) ==
  /\ pc' \in [Workers -> Stages] /\ todo' \in [Workers -> Seq(Runs)] /\ failed' \in [Workers -> BOOLEAN]
  /\ held' \in [Workers -> Runs \cup {NONE}] /\ frame' \in [Workers -> Runs \cup {NONE}]
  /\ \A v \in Workers : v # w =>
       pc'[v] = pc[v] /\ todo'[v] = todo[v] /\ held'[v] = held[v] /\ frame'[v] = frame[v]
  /\ frame'[w] \in {frame[w], NONE} /\ pc'[w] # "frame"
  /\ pc'[w] = "handoff" => frame'[w] # NONE
  /\ pc'[w] = "reduce" => held'[w] \in Runs
  /\ pc'[w] \in DOMAIN Behind => todo'[w] # <<>>
  /\ pc'[w] = "complete" => \A i \in DOMAIN todo'[w] : Final(todo'[w][i])

\* To one job, which has something to do.
AtWork(r) ==
  \/ Outstanding(r) > 0
  \/ job[r].verdict \in {"tools", "repair"}
  \/ \E w \in Workers : pc[w] = "frame" /\ frame[w] = r /\ pc'[w] # "frame"
JobMoves ==
  \/ UNCHANGED job
  \/ \E r \in Runs : /\ job' = [job EXCEPT ![r] = job'[r]]
                     /\ Sound(job'[r]) /\ AtWork(r)
                     /\ job[r].verdict = "none" /\ job'[r].verdict # "none" => Listed(r, artifacts')

\* To runs and lists.
InboxMoves ==
  /\ inbox' \in [Runs -> {"new", "pending", "running", "ended"}]
  /\ \A r \in Runs :
       inbox'[r] = inbox[r] \/ (inbox[r] = "running" /\ inbox'[r] = "ended" /\ Final(r))
ListMoves ==
  /\ schedule' \in Seq(Runs) /\ artifacts' \in Seq(Runs)
  /\ \A r \in Runs : inbox'[r] # "ended" =>
       /\ Listed(r, schedule) => Listed(r, schedule')
       /\ Listed(r, artifacts) /\ job'[r].verdict # "none" => Listed(r, artifacts')

Moves(w) == WorkerMoves(w) /\ JobMoves /\ InboxMoves /\ ListMoves /\ UNCHANGED <<lapsed, accepted>>

LEMMA NewJobSound == ASSUME NEW r PROVE Sound(NewJob(r)) /\ NewJob(r).verdict = "none"
BY DEF NewJob, Sound, Job, Asked

LEMMA FinalStays ==
  ASSUME PollInv, JobMoves, NEW r \in Runs, Final(r)
  PROVE  job'[r] = job[r]
<1>1. Sound(job[r]) /\ job \in [Runs -> Job] BY DEF PollInv, TypeOK
<1>2. Outstanding(r) = 0 BY <1>1 DEF Sound, Final, Outstanding
<1>3. \A w \in Workers : ~(pc[w] = "frame" /\ frame[w] = r)
  BY NewJobSound DEF PollInv, Staged, Final
<1>4. ~AtWork(r) BY <1>2, <1>3 DEF AtWork, Final
<1> QED BY <1>1, <1>4 DEF JobMoves

LEMMA FreshStays ==
  ASSUME PollInv, JobMoves, NEW r \in Runs, job[r] = NewJob(r),
         \A w \in Workers : pc[w] = "frame" /\ frame[w] = r => pc'[w] = "frame"
  PROVE  job'[r] = job[r]
<1>1. job \in [Runs -> Job] BY DEF PollInv, TypeOK
<1>2. Outstanding(r) = 0 /\ job[r].verdict = "none" BY DEF Outstanding, NewJob
<1>3. ~AtWork(r) BY <1>2 DEF AtWork
<1> QED BY <1>1, <1>3 DEF JobMoves

LEMMA MovesKeep ==
  ASSUME PollInv, NEW w \in Workers, Moves(w)
  PROVE  PollInv'
<1>0. TypeOK /\ WorkerMoves(w) /\ JobMoves /\ InboxMoves /\ ListMoves /\ UNCHANGED <<lapsed, accepted>>
  BY DEF PollInv, Moves
<1>1. job' \in [Runs -> Job] /\ \A r \in Runs : Sound(job'[r])
  <2>1. CASE UNCHANGED job BY <1>0, <2>1 DEF PollInv, TypeOK
  <2>2. ASSUME NEW r \in Runs, job' = [job EXCEPT ![r] = job'[r]], Sound(job'[r])
        PROVE  job' \in [Runs -> Job] /\ \A q \in Runs : Sound(job'[q])
    <3>1. job'[r] \in Job BY <2>2 DEF Sound
    <3>2. job \in [Runs -> Job] /\ \A q \in Runs : Sound(job[q]) BY DEF PollInv, TypeOK
    <3>3. \A q \in Runs : q # r => job'[q] = job[q] BY <2>2, <3>2
    <3>4. job' \in [Runs -> Job] BY <2>2, <3>1, <3>2
    <3> QED BY <2>2, <3>2, <3>3, <3>4
  <2> QED BY <1>0, <2>1, <2>2 DEF JobMoves
<1>2. TypeOK' BY <1>0, <1>1 DEF TypeOK, WorkerMoves, InboxMoves, ListMoves
<1>3. Queued'
  BY <1>0 DEF PollInv, Queued, InboxMoves, TypeOK
<1>4. Fresh'
  <2> SUFFICES ASSUME NEW r \in Runs, inbox'[r] \in {"new", "pending"}
               PROVE  job'[r] = NewJob(r) /\ \A v \in Workers : frame'[v] # r
    BY DEF Fresh, NewJob
  <2>1. inbox[r] \in {"new", "pending"} BY <1>0 DEF InboxMoves
  <2>2. job[r] = NewJob(r) /\ \A v \in Workers : frame[v] # r BY <2>1 DEF PollInv, Fresh
  <2>3. job'[r] = job[r] BY <1>0, <2>2, FreshStays
  <2>4. r # NONE BY RunsAssumption
  <2> QED BY <1>0, <2>2, <2>3, <2>4 DEF WorkerMoves
<1>5. ASSUME NEW v \in Workers PROVE Staged(v)'
  <2>1. Staged(v) BY DEF PollInv
  <2>2. ASSUME NEW r \in Runs, Final(r) PROVE job'[r].verdict = "final" /\ ~job'[r].lost
    BY <1>0, <2>2, FinalStays DEF Final
  <2>3. CASE v = w
    <3>1. todo'[w] \in Seq(Runs) BY <1>0 DEF WorkerMoves
    <3>2. \A i \in DOMAIN todo'[w] : todo'[w][i] \in Runs BY <3>1
    <3> QED BY <1>0, <2>2, <2>3, <3>2 DEF WorkerMoves, Staged, Final
  <2>4. CASE v # w
    <3>1. pc'[v] = pc[v] /\ todo'[v] = todo[v] /\ held'[v] = held[v] /\ frame'[v] = frame[v]
      BY <1>0, <2>4 DEF WorkerMoves
    <3>2. todo[v] \in Seq(Runs) /\ frame[v] \in Runs \cup {NONE} BY <1>0 DEF TypeOK
    <3>3. pc[v] = "complete" => \A i \in DOMAIN todo[v] : Final(todo[v][i])'
      BY <2>1, <2>2, <3>1, <3>2 DEF Staged, Final
    <3>4. ASSUME pc[v] = "frame" PROVE job'[frame[v]] = NewJob(frame[v])
      <4>1. frame[v] \in Runs /\ job[frame[v]] = NewJob(frame[v]) BY <2>1, <3>2, <3>4 DEF Staged
      <4>2. \A u \in Workers : frame[u] = frame[v] => u = v BY <2>1, <3>4 DEF PollInv, Alone, Staged
      <4>3. pc'[v] = "frame" BY <3>1, <3>4
      <4> QED BY <1>0, <4>1, <4>2, <4>3, FreshStays
    <3> QED BY <2>1, <3>1, <3>3, <3>4 DEF Staged, NewJob, Behind
  <2> QED BY <2>3, <2>4
<1>6. Alone'
  BY <1>0 DEF PollInv, Alone, WorkerMoves
<1>7. NothingIsForgotten'
  <2> SUFFICES ASSUME NEW r \in Runs
               PROVE  /\ inbox'[r] = "pending" => Listed(r, accepted')
                      /\ inbox'[r] = "running" => Listed(r, schedule')
                      /\ job'[r].verdict # "none" /\ inbox'[r] # "ended" => Listed(r, artifacts')
    BY DEF NothingIsForgotten, Listed
  <2>1. inbox'[r] = "pending" => Listed(r, accepted') BY <1>0 DEF PollInv, NothingIsForgotten, InboxMoves, Listed
  <2>2. inbox'[r] = "running" => Listed(r, schedule') BY <1>0 DEF PollInv, NothingIsForgotten, InboxMoves, ListMoves
  <2>3. ASSUME job'[r].verdict # "none", inbox'[r] # "ended" PROVE Listed(r, artifacts')
    <3>1. inbox[r] # "ended" BY <1>0, <2>3 DEF InboxMoves
    <3>2. CASE job[r].verdict # "none"
      BY <1>0, <2>3, <3>1, <3>2 DEF PollInv, NothingIsForgotten, ListMoves
    <3>3. CASE job[r].verdict = "none"
      <4>1. job \in [Runs -> Job] BY <1>0 DEF TypeOK
      <4> QED BY <1>0, <2>3, <3>3, <4>1 DEF JobMoves
    <3> QED BY <3>2, <3>3
  <2> QED BY <2>1, <2>2, <2>3
<1>8. CompletedIsFinal'
  <2> SUFFICES ASSUME NEW r \in Runs, inbox'[r] = "ended", r \notin lapsed'
               PROVE  Final(r)' /\ Outstanding(r)' = 0
    BY DEF CompletedIsFinal, Final
  <2>1. Final(r) BY <1>0 DEF PollInv, CompletedIsFinal, InboxMoves, Final
  <2>2. job'[r] = job[r] BY <1>0, <2>1, FinalStays
  <2>3. Outstanding(r)' = 0 BY <1>1, <2>1, <2>2 DEF Sound, Outstanding, Final
  <2> QED BY <2>1, <2>2, <2>3 DEF Final
<1> QED BY <1>1, <1>2, <1>3, <1>4, <1>5, <1>6, <1>7, <1>8 DEF PollInv

(***************************************************************************)
(* Each operation moves so.                                                 *)
(***************************************************************************)
LEMMA InboxKept == ASSUME TypeOK, UNCHANGED inbox PROVE InboxMoves
<1>1. inbox \in [Runs -> {"new", "pending", "running", "ended"}] BY DEF TypeOK
<1>2. inbox' = inbox OBVIOUS
<1> QED BY <1>1, <1>2 DEF InboxMoves

LEMMA ListsKept == ASSUME TypeOK, UNCHANGED <<schedule, artifacts>> PROVE ListMoves
BY DEF TypeOK, ListMoves, Listed

\* A step that works on one job and adds to the lists.
LEMMA JobMovesTo ==
  ASSUME TypeOK, NEW r \in Runs, NEW row, job' = [job EXCEPT ![r] = row], Sound(row), AtWork(r),
         job[r].verdict = "none" /\ row.verdict # "none" => Listed(r, artifacts')
  PROVE  JobMoves
<1>1. job'[r] = row BY DEF TypeOK
<1> QED BY <1>1 DEF JobMoves

LEMMA RestartMoves ==
  ASSUME TypeOK, NEW w \in Workers, Restart(w)
  PROVE  WorkerMoves(w)
BY DEF TypeOK, Restart, Go, Take, WorkerMoves, Stages, Behind

LEMMA DropMoves ==
  ASSUME TypeOK, NEW w \in Workers, Staged(w), pc[w] \in DOMAIN Behind, Drop(w), UNCHANGED <<held, frame>>,
         failed' \in [Workers -> BOOLEAN]
  PROVE  WorkerMoves(w)
<1> DEFINE t == todo[w]
<1>1. t \in Seq(Runs) /\ t # <<>> BY DEF TypeOK, Staged
<1>2. Len(t) \in Nat /\ Len(t) > 0 BY <1>1
<1>3. /\ Tail(t) \in Seq(Runs) /\ Len(Tail(t)) = Len(t) - 1
      /\ \A i \in 1..Len(Tail(t)) : Tail(t)[i] = t[i + 1]
  BY <1>1, HeadTailProperties
<1>4. todo' = [todo EXCEPT ![w] = Tail(t)] BY DEF Drop, Take
<1>5. \A i \in DOMAIN Tail(t) : i + 1 \in DOMAIN t /\ Tail(t)[i] = t[i + 1] BY <1>1, <1>2, <1>3
<1>6. Tail(t) = <<>> <=> Len(t) = 1
  <2>1. \A u \in Seq(Runs) : u = <<>> <=> Len(u) = 0 OBVIOUS
  <2> DEFINE rest == Tail(t)
  <2>2. rest \in Seq(Runs) /\ Len(rest) = Len(t) - 1 BY <1>3
  <2>3. Len(t) \in Nat BY <1>2
  <2> HIDE DEF t, rest
  <2>4. rest = <<>> <=> Len(rest) = 0 BY <2>1, <2>2
  <2>5. rest = <<>> <=> Len(t) = 1 BY <2>2, <2>3, <2>4
  <2> QED BY <2>5 DEF rest
<1> HIDE DEF t
<1>7. todo' \in [Workers -> Seq(Runs)] /\ todo'[w] = Tail(t) /\ \A v \in Workers : v # w => todo'[v] = todo[v]
  BY <1>3, <1>4 DEF TypeOK
<1>8. /\ pc' \in [Workers -> Stages] /\ \A v \in Workers : v # w => pc'[v] = pc[v]
      /\ IF Len(t) = 1 THEN pc'[w] \in {"results", "formatter", "completion", "claim"} ELSE pc'[w] = pc[w]
  <2>1. pc[w] \in {"recover", "observe", "repair", "complete"} BY DEF Behind
  <2>2. Behind[pc[w]] \in {"results", "formatter", "completion", "claim"} BY <2>1 DEF Behind
  <2>3. pc' = IF Len(t) = 1 THEN [pc EXCEPT ![w] = Behind[pc[w]]] ELSE pc BY DEF Drop, Go, t
  <2>4. pc \in [Workers -> Stages] BY DEF TypeOK
  <2>5. Behind[pc[w]] \in Stages BY <2>2 DEF Stages
  <2> QED BY <2>2, <2>3, <2>4, <2>5
<1>9. pc'[w] = "complete" => \A i \in DOMAIN todo'[w] : Final(todo'[w][i])
  BY <1>5, <1>7, <1>8 DEF Staged, t
<1>10. pc'[w] \in DOMAIN Behind => todo'[w] # <<>>
  BY <1>6, <1>7, <1>8 DEF Behind
<1>11. pc'[w] \notin {"frame", "handoff", "reduce"} BY <1>8 DEF Behind
<1> QED BY <1>7, <1>8, <1>9, <1>10, <1>11 DEF WorkerMoves, TypeOK

LEMMA FirstCandidate ==
  ASSUME TypeOK, NEW w \in Workers, Staged(w), pc[w] \in DOMAIN Behind, NEW r, r = Head(todo[w])
  PROVE  r \in Runs /\ (pc[w] = "complete" => Final(r))
<1>1. todo[w] \in Seq(Runs) /\ todo[w] # <<>> BY DEF TypeOK, Staged
<1>2. 1 \in DOMAIN todo[w] /\ r = todo[w][1] BY <1>1
<1> QED BY <1>1, <1>2 DEF Staged

LEMMA ScanMoves ==
  ASSUME TypeOK, NEW w \in Workers, NEW from, NEW to \in DOMAIN Behind, NEW s \in Seq(Runs), NEW S,
         Scan(w, from, to, s, S), to = "complete" => \A r \in S : Final(r)
  PROVE  Moves(w)
<1> DEFINE found == Oldest(s, S)
<1>1. found \in Seq(Runs) /\ \A i \in DOMAIN found : found[i] \in S BY OldestKeeps
<1>2. /\ todo' = [todo EXCEPT ![w] = found] /\ pc' = [pc EXCEPT ![w] = IF found = <<>> THEN Behind[to] ELSE to]
      /\ UNCHANGED <<inbox, lapsed, queues, job, failed, held, frame>>
  BY DEF Scan, Take, Go
<1> HIDE DEF found
<1>3. Behind[to] \in {"results", "formatter", "completion", "claim"}
      /\ to \in {"recover", "observe", "repair", "complete"}
  BY DEF Behind
<1>4. todo' \in [Workers -> Seq(Runs)] /\ todo'[w] = found /\ \A v \in Workers : v # w => todo'[v] = todo[v]
  BY <1>1, <1>2 DEF TypeOK
<1>5. pc' \in [Workers -> Stages] /\ pc'[w] = (IF found = <<>> THEN Behind[to] ELSE to)
      /\ \A v \in Workers : v # w => pc'[v] = pc[v]
  BY <1>2, <1>3 DEF TypeOK, Stages
<1>6. pc'[w] \in DOMAIN Behind => todo'[w] # <<>> BY <1>3, <1>4, <1>5 DEF Behind
<1>7. pc'[w] = "complete" => \A i \in DOMAIN todo'[w] : Final(todo'[w][i]) BY <1>1, <1>3, <1>4, <1>5
<1>8. WorkerMoves(w) BY <1>2, <1>3, <1>4, <1>5, <1>6, <1>7 DEF WorkerMoves, TypeOK
<1> QED BY <1>2, <1>8, InboxKept, ListsKept DEF Moves, JobMoves, queues

LEMMA Scans ==
  ASSUME PollInv, NEW w \in Workers, ScanPrepared(w) \/ ScanTools(w) \/ ScanRepairs(w) \/ ScanComplete(w)
  PROVE  Moves(w)
<1>1. TypeOK /\ schedule \in Seq(Runs) /\ artifacts \in Seq(Runs) BY DEF PollInv, TypeOK
<1>2. {"recover", "observe", "repair", "complete"} = DOMAIN Behind BY DEF Behind
<1>3. CASE ScanPrepared(w) BY <1>1, <1>2, <1>3, ScanMoves DEF ScanPrepared
<1>4. CASE ScanTools(w) BY <1>1, <1>2, <1>4, ScanMoves DEF ScanTools
<1>5. CASE ScanRepairs(w) BY <1>1, <1>2, <1>5, ScanMoves DEF ScanRepairs
<1>6. CASE ScanComplete(w)
  <2> DEFINE S == {r \in Runs : Awaits(r, "final") /\ ~job[r].lost}
  <2>1. \A r \in S : Final(r) BY DEF Awaits, Final
  <2>2. Scan(w, "completion", "complete", artifacts, S) BY <1>6 DEF ScanComplete
  <2> HIDE DEF S
  <2> QED BY <1>1, <1>2, <2>1, <2>2, ScanMoves
<1> QED BY <1>3, <1>4, <1>5, <1>6

LEMMA TriedMoves ==
  ASSUME TypeOK, NEW w \in Workers, Staged(w), pc[w] \in DOMAIN Behind, NEW fails \in BOOLEAN, Tried(w, fails)
  PROVE  WorkerMoves(w)
<1>1. CASE Restart(w) BY <1>1, RestartMoves
<1>2. CASE Drop(w) /\ failed' = [failed EXCEPT ![w] = @ \/ fails] /\ UNCHANGED <<held, frame>>
  <2>1. failed' \in [Workers -> BOOLEAN] BY <1>2 DEF TypeOK
  <2> QED BY <1>2, <2>1, DropMoves
<1> QED BY <1>1, <1>2 DEF Tried

LEMMA AnswerCounts ==
  ASSUME TypeOK, NEW r \in Runs, Sound(job[r]), Resumable(r), NEW a \in Answers(r), Answered(r, a)
  PROVE  JobMoves
<1> DEFINE old == job[r]
           row == [old EXCEPT !.prepared = @ - 1, !.recorded = @ + 1, !.answer = Joint(@, a)]
<1>1. job' = [job EXCEPT ![r] = row] BY DEF Answered, TypeOK
<1>2. old \in Job /\ old.prepared > 0 /\ old.prepared + old.recorded + old.indexed <= old.size /\ old.verdict = "none"
  BY DEF Resumable, Sound, Job
<1>3. Joint(old.answer, a) \in Asked BY DEF Joint, Asked
<1> HIDE DEF old
<1>4. row \in Job
  <2>1. /\ old.size \in 1..2 /\ old.prepared \in 0..2 /\ old.recorded \in 0..2 /\ old.indexed \in 0..2
        /\ old.phase \in {"batches", "tools", "repair"} /\ old.lost \in BOOLEAN
        /\ old.verdict \in Asked \cup {"none"}
    BY <1>2 DEF Job
  <2>2. old.prepared - 1 \in 0..2 /\ old.recorded + 1 \in 0..2 BY <1>2, <2>1
  <2> QED BY <1>2, <1>3, <2>2 DEF Job
<1>5. row.prepared + row.recorded + row.indexed <= row.size /\ row.verdict = "none" BY <1>2 DEF Job
<1>6. AtWork(r) BY <1>2 DEF AtWork, Outstanding, old, Job
<1> HIDE DEF row
<1> QED BY <1>1, <1>4, <1>5, <1>6, JobMovesTo DEF Sound

LEMMA Recovers ==
  ASSUME PollInv, NEW w \in Workers, RecoverPreparedActions(w)
  PROVE  Moves(w)
<1> DEFINE r == Head(todo[w])
<1>1. TypeOK /\ Staged(w) /\ pc[w] \in DOMAIN Behind /\ UNCHANGED <<inbox, lapsed, accepted, artifacts>>
  BY DEF PollInv, RecoverPreparedActions, Behind
<1>2. r \in Runs BY <1>1, FirstCandidate
<1>3. Sound(job[r]) BY <1>2 DEF PollInv
<1>4. RecoverRefused(w, r) \/ RecoverDeferred(w, r) \/ RecoverCalled(w, r) BY DEF RecoverPreparedActions
<1> HIDE DEF r
<1>5. WorkerMoves(w)
  BY <1>1, <1>4, TriedMoves DEF RecoverRefused, RecoverDeferred, RecoverCalled
<1>6. ListMoves
  <2>1. CASE UNCHANGED schedule BY <1>1, <2>1, ListsKept
  <2>2. CASE Touch(r)
    <3>1. schedule' \in Seq(Runs) /\ \A q \in Runs : Listed(q, schedule) => Listed(q, schedule')
      BY <1>1, <1>2, <2>2, TouchKeeps DEF TypeOK
    <3> QED BY <1>1, <3>1 DEF ListMoves, TypeOK, Listed
  <2> QED BY <1>4, <2>1, <2>2 DEF RecoverRefused, RecoverDeferred, RecoverCalled
<1>7. JobMoves
  <2>1. CASE UNCHANGED job BY <2>1 DEF JobMoves
  <2>2. ASSUME Resumable(r), NEW a \in Answers(r), Answered(r, a) PROVE JobMoves
    BY <1>1, <1>2, <1>3, <2>2, AnswerCounts
  <2>3. ASSUME Resumable(r), job' = [job EXCEPT ![r].prepared = @ - 1, ![r].lost = TRUE] PROVE JobMoves
    <3> DEFINE old == job[r]
               row == [old EXCEPT !.prepared = @ - 1, !.lost = TRUE]
    <3>1. job' = [job EXCEPT ![r] = row] BY <1>1, <1>2, <2>3 DEF TypeOK
    <3>2. old \in Job /\ old.prepared > 0 /\ old.prepared + old.recorded + old.indexed <= old.size /\ old.verdict = "none"
      BY <1>3, <2>3 DEF Resumable, Sound, Job
    <3> HIDE DEF old
    <3>3. row \in Job
      <4>1. old.prepared - 1 \in 0..2 BY <3>2 DEF Job
      <4> QED BY <3>2, <4>1 DEF Job
    <3>4. row.prepared + row.recorded + row.indexed <= row.size /\ row.verdict = "none" BY <3>2 DEF Job
    <3>5. AtWork(r) BY <3>2 DEF AtWork, Outstanding, old, Job
    <3> HIDE DEF row
    <3> QED BY <1>1, <1>2, <3>1, <3>3, <3>4, <3>5, JobMovesTo DEF Sound
  <2> QED BY <1>4, <2>1, <2>2, <2>3 DEF RecoverRefused, RecoverDeferred, RecoverCalled
<1> QED BY <1>1, <1>5, <1>6, <1>7, InboxKept DEF Moves

\* The lists of a step that only puts one run at the end of the schedule.
LEMMA TouchLists ==
  ASSUME TypeOK, NEW r \in Runs, Touch(r), UNCHANGED artifacts
  PROVE  ListMoves
<1>1. schedule' \in Seq(Runs) /\ \A q \in Runs : Listed(q, schedule) => Listed(q, schedule')
  BY TouchKeeps DEF TypeOK
<1> QED BY <1>1 DEF ListMoves, TypeOK, Listed

LEMMA Records ==
  ASSUME PollInv, NEW w \in Workers, RecoverActionResults(w)
  PROVE  Moves(w)
<1> DEFINE found == {r \in Unlocked(w) : job[r].recorded > 0}
           r == Least(found)
           row == [job[r] EXCEPT !.indexed = @ + job[r].recorded, !.recorded = 0]
<1>1. /\ TypeOK /\ pc' = [pc EXCEPT ![w] = "reductions"]
      /\ UNCHANGED <<inbox, lapsed, queues, todo, failed, held, frame>>
      /\ job' = IF found = {} THEN job ELSE [job EXCEPT ![r] = row]
  <2>1. ASSUME NEW q \in Runs
        PROVE  [job EXCEPT ![q].indexed = @ + job[q].recorded, ![q].recorded = 0]
               = [job EXCEPT ![q] = [job[q] EXCEPT !.indexed = @ + job[q].recorded, !.recorded = 0]]
    BY DEF PollInv, TypeOK
  <2>2. found # {} => r \in Runs
    <3>1. found \in SUBSET Runs BY DEF Unlocked
    <3> HIDE DEF found
    <3> QED BY <3>1, LeastRun
  <2> QED BY <2>1, <2>2 DEF PollInv, RecoverActionResults, Go
<1>2. WorkerMoves(w)
  BY <1>1 DEF TypeOK, WorkerMoves, Stages, Behind
<1>3. JobMoves
  <2>1. CASE found = {} BY <1>1, <2>1 DEF JobMoves
  <2>2. CASE found # {}
    <3>1. found \in SUBSET Runs /\ \A q \in found : job[q].recorded > 0 BY DEF Unlocked
    <3>2. r \in Runs /\ job[r].recorded > 0
      <4> HIDE DEF found
      <4> QED BY <2>2, <3>1, LeastRun
    <3>3. job' = [job EXCEPT ![r] = row] BY <1>1, <2>2
    <3> HIDE DEF found, r
    <3> DEFINE old == job[r]
    <3>4. /\ old \in Job /\ old.recorded > 0 /\ old.verdict = "none"
          /\ old.prepared + old.recorded + old.indexed <= old.size
      BY <3>2 DEF PollInv, Sound, Job
    <3>5. row = [old EXCEPT !.indexed = @ + old.recorded, !.recorded = 0] OBVIOUS
    <3>6. AtWork(r) BY <3>4 DEF AtWork, Outstanding, Job
    <3> HIDE DEF old, row
    <3>7. old.indexed + old.recorded \in 0..2 BY <3>4 DEF Job
    <3>8. row \in Job
      <4>1. row = [old EXCEPT !.indexed = old.indexed + old.recorded, !.recorded = 0] BY <3>5, <3>4 DEF Job
      <4>2. 0 \in 0..2 OBVIOUS
      <4> QED BY <3>4, <3>7, <4>1, <4>2 DEF Job
    <3>9. row.prepared + row.recorded + row.indexed <= row.size /\ row.verdict = "none" BY <3>4, <3>5 DEF Job
    <3> QED BY <1>1, <3>2, <3>3, <3>6, <3>8, <3>9, JobMovesTo DEF Sound
  <2> QED BY <2>1, <2>2
<1> QED BY <1>1, <1>2, <1>3, InboxKept, ListsKept DEF Moves, queues

LEMMA Picks ==
  ASSUME PollInv, NEW w \in Workers, PickGroup(w)
  PROVE  Moves(w)
<1>1. TypeOK BY DEF PollInv
<1>2. Unreduced(w) \in SUBSET Runs BY DEF Unreduced, Unlocked
<1>3. Unreduced(w) # {} => Least(Unreduced(w)) \in Runs BY <1>2, LeastRun
<1>4. /\ UNCHANGED <<inbox, lapsed, queues, job, todo, failed, frame>>
      /\ \/ pc' = [pc EXCEPT ![w] = Reduced(w)] /\ held' = held
         \/ pc' = [pc EXCEPT ![w] = "reduce"] /\ \E r \in Runs : held' = [held EXCEPT ![w] = r]
  BY <1>3 DEF PickGroup, Go
<1>5. WorkerMoves(w)
  <2>1. CASE pc' = [pc EXCEPT ![w] = Reduced(w)] /\ held' = held
    BY <1>1, <1>4, <2>1 DEF TypeOK, WorkerMoves, Reduced, Stages, Behind
  <2>2. ASSUME NEW r \in Runs, pc' = [pc EXCEPT ![w] = "reduce"], held' = [held EXCEPT ![w] = r]
        PROVE  WorkerMoves(w)
    BY <1>1, <1>4, <2>2 DEF TypeOK, WorkerMoves, Stages, Behind
  <2> QED BY <1>4, <2>1, <2>2
<1> QED BY <1>1, <1>4, <1>5, InboxKept, ListsKept DEF Moves, JobMoves, queues

LEMMA Reduces ==
  ASSUME PollInv, NEW w \in Workers, RecoverModelReductions(w)
  PROVE  Moves(w)
<1> DEFINE r == held[w]
           old == job[r]
           row == [old EXCEPT !.indexed = 0, !.verdict = old.answer]
<1>1. TypeOK /\ pc[w] = "reduce" /\ r \in Runs /\ Sound(old)
  BY DEF PollInv, RecoverModelReductions, Staged
<1>2. UNCHANGED <<inbox, lapsed, accepted, schedule>> BY DEF RecoverModelReductions
<1>3. WorkerMoves(w)
  <2>1. CASE Restart(w) BY <1>1, <2>1, RestartMoves
  <2>2. CASE Go(w, Reduced(w)) /\ held' = [held EXCEPT ![w] = NONE] /\ UNCHANGED <<todo, failed, frame>>
    BY <1>1, <2>2 DEF Go, TypeOK, WorkerMoves, Reduced, Stages, Behind
  <2> QED BY <2>1, <2>2 DEF RecoverModelReductions
<1>4. \/ UNCHANGED <<job, artifacts>>
      \/ old.indexed = old.size /\ job' = [job EXCEPT ![r] = row] /\ artifacts' = Append(artifacts, r)
  BY <1>1 DEF RecoverModelReductions, TypeOK
<1>5. CASE UNCHANGED <<job, artifacts>>
  BY <1>1, <1>2, <1>3, <1>5, InboxKept, ListsKept DEF Moves, JobMoves
<1>6. CASE old.indexed = old.size /\ job' = [job EXCEPT ![r] = row] /\ artifacts' = Append(artifacts, r)
  <2>1. old \in Job /\ old.prepared + old.recorded + old.indexed <= old.size /\ old.indexed = old.size
    BY <1>1, <1>6 DEF Sound
  <2>2. AtWork(r) BY <2>1 DEF AtWork, Outstanding, Job
  <2>3. artifacts' \in Seq(Runs) /\ Listed(r, artifacts') /\ \A q \in Runs : Listed(q, artifacts) => Listed(q, artifacts')
    BY <1>1, <1>6, AppendedIsListed DEF TypeOK
  <2> HIDE DEF old, r
  <2>4. row \in Job
    <3>1. old.answer \in Asked \cup {"none"} /\ 0 \in 0..2 BY <2>1 DEF Job
    <3> QED BY <2>1, <3>1 DEF Job
  <2>5. row.prepared + row.recorded + row.indexed = 0 /\ row.size >= 0 BY <2>1 DEF Job
  <2> HIDE DEF row
  <2>6. Sound(row) BY <2>4, <2>5 DEF Sound
  <2>7. JobMoves BY <1>1, <1>6, <2>2, <2>3, <2>6, JobMovesTo
  <2>8. ListMoves BY <1>1, <1>2, <2>3 DEF ListMoves, TypeOK, Listed
  <2> QED BY <1>1, <1>2, <1>3, <2>7, <2>8, InboxKept DEF Moves
<1> QED BY <1>4, <1>5, <1>6

\* A continuation opens a group of one action and takes the reduction off its list.
LEMMA ChildMoves ==
  ASSUME PollInv, NEW r \in Runs, NEW phase \in {"tools", "repair"}, job[r].verdict = phase, Child(r, phase),
         UNCHANGED inbox
  PROVE  JobMoves /\ ListMoves
<1> DEFINE row == [NewJob(r) EXCEPT !.phase = phase, !.size = 1, !.prepared = 1, !.lost = job[r].lost]
<1>1. TypeOK /\ job[r] \in Job BY DEF PollInv, TypeOK
<1>2. job' = [job EXCEPT ![r] = row] /\ artifacts' = Without(artifacts, r) /\ Touch(r) BY DEF Child
<1>3. NewJob(r) \in Job /\ NewJob(r).recorded = 0 /\ NewJob(r).indexed = 0 /\ NewJob(r).verdict = "none"
  BY NewJobSound DEF Sound, NewJob
<1>4. Sound(row) /\ row.verdict = "none"
  <2> DEFINE base == NewJob(r)
  <2>1. job[r].lost \in BOOLEAN /\ 1 \in 1..2 /\ 1 \in 0..2 /\ phase \in {"batches", "tools", "repair"}
    BY <1>1 DEF Job
  <2> HIDE DEF base
  <2>2. row = [base EXCEPT !.phase = phase, !.size = 1, !.prepared = 1, !.lost = job[r].lost] BY DEF base
  <2>3. base \in Job /\ base.recorded = 0 /\ base.indexed = 0 /\ base.verdict = "none" BY <1>3 DEF base
  <2> HIDE DEF row
  <2>4. row \in Job BY <2>1, <2>2, <2>3 DEF Job
  <2>5. row.size = 1 /\ row.prepared = 1 /\ row.recorded = 0 /\ row.indexed = 0 /\ row.verdict = "none"
    BY <2>2, <2>3 DEF Job
  <2> QED BY <2>4, <2>5 DEF Sound
<1> HIDE DEF row
<1>5. JobMoves BY <1>1, <1>2, <1>4, JobMovesTo DEF AtWork
<1>6. schedule' \in Seq(Runs) /\ \A q \in Runs : Listed(q, schedule) => Listed(q, schedule')
  BY <1>1, <1>2, TouchKeeps DEF TypeOK
<1>7. artifacts' \in Seq(Runs) /\ \A q \in Runs \ {r} : Listed(q, artifacts) => Listed(q, artifacts')
  <2>1. artifacts \in Seq(Runs) BY <1>1 DEF TypeOK
  <2> QED BY <1>2, <2>1, AmongKeeps DEF Without
<1>8. job'[r].verdict = "none" BY <1>1, <1>2, <1>4 DEF TypeOK
<1>9. ListMoves BY <1>6, <1>7, <1>8 DEF ListMoves
<1> QED BY <1>5, <1>9

LEMMA Continues ==
  ASSUME PollInv, NEW w \in Workers,
         AdvancePendingModelToolContinuations(w) \/ AdvancePendingModelContinuations(w)
  PROVE  Moves(w)
<1> DEFINE r == Head(todo[w])
<1>1. TypeOK /\ Staged(w) /\ pc[w] \in DOMAIN Behind /\ UNCHANGED <<inbox, lapsed, accepted>>
  BY DEF PollInv, AdvancePendingModelToolContinuations, AdvancePendingModelContinuations, Behind
<1>2. r \in Runs BY <1>1, FirstCandidate
<1>3. PICK v \in {"tools", "repair"} :
        Receipt(w, r, v) \/ Errs(w, r, v) \/ Defer(w, r) \/ Refused(w, r) \/ Advanced(w, r, v)
  BY DEF AdvancePendingModelToolContinuations, AdvancePendingModelContinuations
<1> HIDE DEF r
<1>4. WorkerMoves(w)
  <2>1. CASE Restart(w) BY <1>1, <2>1, RestartMoves
  <2>2. CASE Drop(w) /\ UNCHANGED <<failed, held, frame>>
    <3>1. failed' \in [Workers -> BOOLEAN] BY <1>1, <2>2 DEF TypeOK
    <3> QED BY <1>1, <2>2, <3>1, DropMoves
  <2> QED BY <1>3, <2>1, <2>2 DEF Receipt, Errs, Defer, Refused, Advanced
<1>5. JobMoves /\ ListMoves
  <2>1. CASE UNCHANGED <<artifacts, schedule, job>> BY <1>1, <2>1, ListsKept DEF JobMoves
  <2>2. CASE Touch(r) /\ UNCHANGED <<artifacts, job>> BY <1>1, <1>2, <2>2, TouchLists DEF JobMoves
  <2>3. CASE Advanced(w, r, v) BY <1>1, <1>2, <2>3, ChildMoves DEF Advanced, Awaits
  <2> QED BY <1>3, <2>1, <2>2, <2>3 DEF Receipt, Errs, Defer, Refused
<1> QED BY <1>1, <1>4, <1>5, InboxKept DEF Moves

LEMMA Completes ==
  ASSUME PollInv, NEW w \in Workers, CompletePendingModelJobs(w)
  PROVE  Moves(w)
<1> DEFINE r == Head(todo[w])
<1>1. TypeOK /\ Staged(w) /\ pc[w] = "complete" /\ pc[w] \in DOMAIN Behind /\ UNCHANGED <<lapsed, accepted, job>>
  BY DEF PollInv, CompletePendingModelJobs, Behind
<1>2. r \in Runs /\ Final(r) BY <1>1, FirstCandidate
<1>3. \/ /\ Live(r) /\ inbox' = [inbox EXCEPT ![r] = "ended"] /\ Drop(w) /\ UNCHANGED <<failed, held, frame>>
         /\ schedule' = Without(schedule, r) /\ artifacts' = Without(artifacts, r)
      \/ Drop(w) /\ UNCHANGED <<inbox, schedule, artifacts, failed, held, frame>>
      \/ Restart(w) /\ UNCHANGED <<inbox, schedule, artifacts>>
  BY DEF CompletePendingModelJobs
<1> HIDE DEF r
<1>4. WorkerMoves(w)
  <2>1. CASE Restart(w) BY <1>1, <2>1, RestartMoves
  <2>2. CASE Drop(w) /\ UNCHANGED <<failed, held, frame>>
    <3>1. failed' \in [Workers -> BOOLEAN] BY <1>1, <2>2 DEF TypeOK
    <3> QED BY <1>1, <2>2, <3>1, DropMoves
  <2> QED BY <1>3, <2>1, <2>2
<1>5. JobMoves BY <1>1 DEF JobMoves
<1>6. InboxMoves /\ ListMoves
  <2>1. CASE UNCHANGED <<inbox, schedule, artifacts>> BY <1>1, <2>1, InboxKept, ListsKept
  <2>2. CASE /\ Live(r) /\ inbox' = [inbox EXCEPT ![r] = "ended"]
             /\ schedule' = Without(schedule, r) /\ artifacts' = Without(artifacts, r)
    <3>1. /\ schedule' \in Seq(Runs) /\ \A q \in Runs \ {r} : Listed(q, schedule) => Listed(q, schedule')
          /\ artifacts' \in Seq(Runs) /\ \A q \in Runs \ {r} : Listed(q, artifacts) => Listed(q, artifacts')
      <4>1. schedule \in Seq(Runs) /\ artifacts \in Seq(Runs) BY <1>1 DEF TypeOK
      <4> QED BY <2>2, <4>1, AmongKeeps DEF Without
    <3>2. inbox'[r] = "ended" BY <1>1, <1>2, <2>2 DEF TypeOK
    <3>3. ListMoves BY <3>1, <3>2 DEF ListMoves
    <3>4. InboxMoves BY <1>1, <1>2, <2>2 DEF InboxMoves, TypeOK, Live
    <3> QED BY <3>3, <3>4
  <2> QED BY <1>3, <2>1, <2>2
<1> QED BY <1>1, <1>4, <1>5, <1>6 DEF Moves

LEMMA Executes ==
  ASSUME PollInv, NEW w \in Workers, RunAccepted(w)
  PROVE  Moves(w)
<1> DEFINE r == frame[w]
<1>1. /\ TypeOK /\ Staged(w) /\ pc[w] = "frame" /\ r \in Runs /\ job[r] = NewJob(r)
      /\ UNCHANGED <<inbox, lapsed, accepted, artifacts>>
  BY DEF PollInv, TypeOK, RunAccepted, Staged
<1>2. /\ Restart(w) \/ (Go(w, "results") /\ UNCHANGED <<todo, failed, held, frame>>)
      /\ \/ /\ Touch(r)
            /\ \/ r \in Wide /\ job' = [job EXCEPT ![r].prepared = 2]
               \/ \E a \in Answers(r), lost \in BOOLEAN :
                    job' = [job EXCEPT ![r].recorded = 1, ![r].answer = a, ![r].lost = lost]
         \/ UNCHANGED <<job, schedule>>
  BY DEF RunAccepted
<1> HIDE DEF r
<1>3. WorkerMoves(w)
  <2>1. CASE Restart(w) BY <1>1, <2>1, RestartMoves
  <2>2. CASE Go(w, "results") /\ UNCHANGED <<todo, failed, held, frame>>
    BY <1>1, <2>2 DEF Go, TypeOK, WorkerMoves, Stages, Behind
  <2> QED BY <1>2, <2>1, <2>2
<1>4. ListMoves BY <1>1, <1>2, ListsKept, TouchLists
<1>5. JobMoves
  <2>1. CASE UNCHANGED job BY <2>1 DEF JobMoves
  <2>2. AtWork(r)
    <3>1. pc'[w] # "frame" BY <1>3 DEF WorkerMoves
    <3> QED BY <1>1, <3>1 DEF AtWork, r
  <2> DEFINE old == job[r]
  <2>3. /\ old \in Job /\ old.prepared = 0 /\ old.recorded = 0 /\ old.indexed = 0 /\ old.verdict = "none"
        /\ old.size = IF r \in Wide THEN 2 ELSE 1
    BY <1>1, NewJobSound DEF NewJob, Sound
  <2>4. ASSUME r \in Wide, job' = [job EXCEPT ![r].prepared = 2] PROVE JobMoves
    <3> DEFINE row == [old EXCEPT !.prepared = 2]
    <3>1. job' = [job EXCEPT ![r] = row] BY <1>1, <2>4 DEF TypeOK
    <3> HIDE DEF old
    <3>2. row \in Job BY <2>3 DEF Job
    <3>3. row.prepared = 2 /\ row.recorded = 0 /\ row.indexed = 0 /\ row.verdict = "none" /\ row.size = 2
      BY <2>3, <2>4 DEF Job
    <3> HIDE DEF row
    <3>4. Sound(row) BY <3>2, <3>3 DEF Sound
    <3> QED BY <1>1, <2>2, <3>1, <3>3, <3>4, JobMovesTo
  <2>5. ASSUME NEW a \in Answers(r), NEW lost \in BOOLEAN,
               job' = [job EXCEPT ![r].recorded = 1, ![r].answer = a, ![r].lost = lost]
        PROVE  JobMoves
    <3> DEFINE row == [old EXCEPT !.recorded = 1, !.answer = a, !.lost = lost]
    <3>1. job' = [job EXCEPT ![r] = row] BY <1>1, <2>5 DEF TypeOK
    <3>2. a \in Asked /\ 1 \in 0..2 BY <2>5 DEF Answers, Asked
    <3> HIDE DEF old
    <3>3. row \in Job BY <2>3, <3>2 DEF Job
    <3>4. row.prepared = 0 /\ row.recorded = 1 /\ row.indexed = 0 /\ row.verdict = "none" /\ row.size \in 1..2
      BY <2>3 DEF Job
    <3> HIDE DEF row
    <3>5. Sound(row) BY <3>3, <3>4 DEF Sound
    <3> QED BY <1>1, <2>2, <3>1, <3>4, <3>5, JobMovesTo
  <2> QED BY <1>2, <2>1, <2>4, <2>5
<1> QED BY <1>1, <1>3, <1>4, <1>5, InboxKept DEF Moves

LEMMA Hands ==
  ASSUME PollInv, NEW w \in Workers, Handoff(w)
  PROVE  Moves(w)
<1> DEFINE r == frame[w]
<1>1. TypeOK /\ Staged(w) /\ pc[w] = "handoff" /\ r \in Runs /\ UNCHANGED <<inbox, lapsed, accepted>>
  BY DEF PollInv, TypeOK, Handoff, Staged
<1>2. /\ Restart(w) \/ (Go(w, "results") /\ UNCHANGED <<todo, failed, held, frame>>)
      /\ \/ \E v \in {"tools", "repair"} : Awaits(r, v) /\ Child(r, v)
         \/ UNCHANGED <<artifacts, schedule, job>>
  BY DEF Handoff
<1> HIDE DEF r
<1>3. WorkerMoves(w)
  <2>1. CASE Restart(w) BY <1>1, <2>1, RestartMoves
  <2>2. CASE Go(w, "results") /\ UNCHANGED <<todo, failed, held, frame>>
    BY <1>1, <2>2 DEF Go, TypeOK, WorkerMoves, Stages, Behind
  <2> QED BY <1>2, <2>1, <2>2
<1>4. JobMoves /\ ListMoves
  <2>1. CASE UNCHANGED <<artifacts, schedule, job>> BY <1>1, <2>1, ListsKept DEF JobMoves
  <2>2. ASSUME NEW v \in {"tools", "repair"}, Awaits(r, v), Child(r, v) PROVE JobMoves /\ ListMoves
    BY <1>1, <2>2, ChildMoves DEF Awaits
  <2> QED BY <1>2, <2>1, <2>2
<1> QED BY <1>1, <1>3, <1>4, InboxKept DEF Moves

(***************************************************************************)
(* The steps that let runs in, and the deadlines.                           *)
(***************************************************************************)
\* What was in a list is its head or in its tail, and once only.
LEMMA TailKeeps ==
  ASSUME NEW s \in Seq(Runs), s # <<>>, NEW rest, rest = Tail(s)
  PROVE  /\ rest \in Seq(Runs) /\ Head(s) \in Runs /\ Listed(Head(s), s)
         /\ \A i \in DOMAIN rest : Listed(rest[i], s)
         /\ \A q \in Runs : Listed(q, s) /\ q # Head(s) => Listed(q, rest)
         /\ Distinct(s) => Distinct(rest) /\ \A i \in DOMAIN rest : rest[i] # Head(s)
<1>1. Len(s) \in Nat /\ Len(s) > 0 /\ DOMAIN s = 1..Len(s) /\ Head(s) = s[1] /\ \A i \in 1..Len(s) : s[i] \in Runs OBVIOUS
<1>2. rest \in Seq(Runs) /\ Len(rest) = Len(s) - 1 /\ \A i \in 1..Len(rest) : rest[i] = s[i + 1]
  BY HeadTailProperties
<1>3. DOMAIN rest = 1..(Len(s) - 1) /\ Len(rest) = Len(s) - 1 BY <1>2
<1> HIDE DEF Listed
<1>4. \A i \in DOMAIN rest : i + 1 \in DOMAIN s /\ rest[i] = s[i + 1] /\ i + 1 # 1 /\ i \in Int BY <1>1, <1>2, <1>3
<1>5. \A i \in DOMAIN s : i # 1 => i - 1 \in DOMAIN rest /\ rest[i - 1] = s[i] BY <1>1, <1>2, <1>3
<1>6. 1 \in DOMAIN s BY <1>1
<1>7. \A q \in Runs : Listed(q, s) /\ q # Head(s) => Listed(q, rest) BY <1>1, <1>5 DEF Listed
<1>8. ASSUME Distinct(s) PROVE Distinct(rest) /\ \A i \in DOMAIN rest : rest[i] # Head(s)
  <2>1. \A i \in DOMAIN rest : rest[i] # Head(s) BY <1>1, <1>4, <1>6, <1>8 DEF Distinct
  <2>2. ASSUME NEW i \in DOMAIN rest, NEW j \in DOMAIN rest, rest[i] = rest[j] PROVE i = j
    <3>1. i + 1 = j + 1 BY <1>4, <1>8, <2>2 DEF Distinct
    <3> QED BY <1>4, <3>1
  <2> QED BY <2>1, <2>2 DEF Distinct
<1> QED BY <1>1, <1>2, <1>4, <1>6, <1>7, <1>8 DEF Listed

LEMMA Claims ==
  ASSUME PollInv, NEW w \in Workers, ClaimInbox(w)
  PROVE  PollInv'
<1> DEFINE left == Among(accepted, Runs \ Expired)
           h == Head(left)
<1>1. /\ TypeOK /\ Queued /\ Fresh /\ Alone /\ NothingIsForgotten /\ CompletedIsFinal
      /\ (\A r \in Runs : Sound(job[r])) /\ \A v \in Workers : Staged(v)
  BY DEF PollInv
<1>2. /\ pc[w] = "claim" /\ UNCHANGED <<lapsed, artifacts, job, todo, failed, held>>
      /\ \/ /\ left = <<>> /\ pc' = [pc EXCEPT ![w] = "prepared"] /\ UNCHANGED <<frame, schedule>>
            /\ inbox' = [r \in Runs |-> IF r \in Expired THEN "ended" ELSE inbox[r]]
            /\ accepted' = <<>>
         \/ /\ left # <<>> /\ pc' = [pc EXCEPT ![w] = "frame"] /\ frame' = [frame EXCEPT ![w] = h]
            /\ inbox' = [r \in Runs |-> IF r \in Expired THEN "ended" ELSE IF r = h THEN "running" ELSE inbox[r]]
            /\ accepted' = Tail(left) /\ Touch(h)
  BY DEF ClaimInbox, Go
<1>3. /\ left \in Seq(Runs) /\ Distinct(left)
      /\ \A i \in DOMAIN left : left[i] \in Runs \ Expired /\ Listed(left[i], accepted)
      /\ \A r \in Runs \ Expired : Listed(r, accepted) => Listed(r, left)
  <2>1. accepted \in Seq(Runs) /\ Distinct(accepted) BY <1>1 DEF TypeOK, Queued
  <2> HIDE DEF left
  <2>2. left = Among(accepted, Runs \ Expired) BY DEF left
  <2> QED BY <2>1, <2>2, AmongKeeps
<1> HIDE DEF left, h
<1>4. \A i \in DOMAIN left : inbox[left[i]] = "pending" BY <1>1, <1>3 DEF Queued, Listed
<1>5. \A r \in Expired : r \in lapsed /\ inbox[r] \in {"pending", "running"} BY DEF Expired
<1>6. \A r \in Runs : Final(r)' = Final(r) /\ Outstanding(r)' = Outstanding(r) BY <1>2 DEF Final, Outstanding
<1>7. (\A r \in Runs : Sound(job[r]))' BY <1>1, <1>2 DEF Sound
<1>8. \A v \in Workers : v # w => Staged(v)'
  <2> SUFFICES ASSUME NEW v \in Workers, v # w PROVE Staged(v)'
    OBVIOUS
  <2>1. pc'[v] = pc[v] /\ frame'[v] = frame[v] /\ todo' = todo /\ held' = held /\ job' = job
    BY <1>1, <1>2 DEF TypeOK
  <2>2. todo[v] \in Seq(Runs) BY <1>1 DEF TypeOK
  <2>3. Staged(v) BY <1>1
  <2> QED BY <2>1, <2>2, <2>3 DEF Staged, Final, NewJob, Behind
<1>9. CASE left = <<>>
  <2>1. /\ pc' = [pc EXCEPT ![w] = "prepared"] /\ UNCHANGED <<frame, schedule>> /\ accepted' = <<>>
        /\ inbox' = [r \in Runs |-> IF r \in Expired THEN "ended" ELSE inbox[r]]
    BY <1>2, <1>9
  <2>2. TypeOK' BY <1>1, <1>2, <2>1 DEF TypeOK, Stages
  <2>3. Queued' BY <2>1 DEF Queued, Distinct
  <2>4. Fresh' BY <1>1, <1>2, <2>1 DEF Fresh, NewJob
  <2>5. Staged(w)' BY <1>1, <2>1 DEF Staged, TypeOK, Behind
  <2>6. Alone' BY <1>1, <2>1 DEF Alone
  <2>7. NothingIsForgotten'
    <3>1. \A r \in Runs : ~Listed(r, left) BY <1>9 DEF Listed
    <3> QED BY <1>1, <1>2, <1>3, <1>5, <2>1, <3>1 DEF NothingIsForgotten, Listed
  <2>8. CompletedIsFinal' BY <1>1, <1>2, <1>5, <2>1 DEF CompletedIsFinal, Outstanding
  <2> QED BY <1>7, <1>8, <2>2, <2>3, <2>4, <2>5, <2>6, <2>7, <2>8 DEF PollInv
<1>10. CASE left # <<>>
  <2>1. /\ pc' = [pc EXCEPT ![w] = "frame"] /\ frame' = [frame EXCEPT ![w] = h]
        /\ inbox' = [r \in Runs |-> IF r \in Expired THEN "ended" ELSE IF r = h THEN "running" ELSE inbox[r]]
        /\ accepted' = Tail(left) /\ Touch(h)
    BY <1>2, <1>10
  <2> DEFINE rest == Tail(left)
  <2>2. /\ rest \in Seq(Runs) /\ h \in Runs /\ Listed(h, left) /\ Distinct(rest)
        /\ \A i \in DOMAIN rest : Listed(rest[i], left) /\ rest[i] # h
        /\ \A q \in Runs : Listed(q, left) /\ q # h => Listed(q, rest)
    BY <1>3, <1>10, TailKeeps DEF h
  <2>3. accepted' = rest BY <2>1
  <2> HIDE DEF rest
  <2>4. inbox[h] = "pending" /\ h \notin Expired /\ h # NONE BY <1>3, <1>4, <2>2, RunsAssumption DEF Listed
  <2>5. job[h] = NewJob(h) /\ \A v \in Workers : frame[v] # h BY <1>1, <2>2, <2>4 DEF Fresh
  <2>6. schedule' \in Seq(Runs) /\ Listed(h, schedule') /\ \A q \in Runs : Listed(q, schedule) => Listed(q, schedule')
    BY <1>1, <2>1, <2>2, TouchKeeps DEF TypeOK
  <2>7. inbox'[h] = "running" /\ \A r \in Runs : r # h => inbox'[r] = IF r \in Expired THEN "ended" ELSE inbox[r]
    BY <2>1, <2>2, <2>4
  <2>8. TypeOK'
    <3>1. inbox' \in [Runs -> {"new", "pending", "running", "ended"}] BY <1>1, <2>1 DEF TypeOK
    <3> QED BY <1>1, <1>2, <2>1, <2>2, <2>3, <2>6, <3>1 DEF TypeOK, Stages
  <2>9. Queued'
    <3>1. \A i \in DOMAIN rest : rest[i] \in Runs BY <2>2
    <3>2. \A i \in DOMAIN rest : inbox[rest[i]] = "pending" /\ rest[i] \notin Expired BY <1>3, <1>4, <2>2 DEF Listed
    <3> QED BY <2>2, <2>3, <2>7, <3>1, <3>2 DEF Queued, Distinct
  <2>10. Fresh'
    <3>1. \A r \in Runs : inbox'[r] \in {"new", "pending"} => r # h /\ inbox[r] \in {"new", "pending"} BY <2>7
    <3> QED BY <1>1, <1>2, <2>1, <3>1 DEF Fresh, NewJob, TypeOK
  <2>11. Staged(w)' BY <1>1, <1>2, <2>1, <2>2, <2>4, <2>5 DEF Staged, TypeOK, Behind, NewJob
  <2>12. Alone' BY <1>1, <2>1, <2>5 DEF Alone, TypeOK
  <2>13. NothingIsForgotten'
    <3> SUFFICES ASSUME NEW r \in Runs
                 PROVE  /\ inbox'[r] = "pending" => Listed(r, accepted')
                        /\ inbox'[r] = "running" => Listed(r, schedule')
                        /\ job'[r].verdict # "none" /\ inbox'[r] # "ended" => Listed(r, artifacts')
      BY DEF NothingIsForgotten, Listed
    <3>1. CASE r = h
      BY <1>1, <1>2, <2>4, <2>6, <2>7, <3>1 DEF NothingIsForgotten
    <3>2. CASE r # h
      BY <1>1, <1>2, <1>3, <2>2, <2>3, <2>6, <2>7, <3>2 DEF NothingIsForgotten
    <3> QED BY <3>1, <3>2
  <2>14. CompletedIsFinal' BY <1>1, <1>2, <1>5, <2>7 DEF CompletedIsFinal, Outstanding
  <2> QED BY <1>7, <1>8, <2>8, <2>9, <2>10, <2>11, <2>12, <2>13, <2>14 DEF PollInv
<1> QED BY <1>9, <1>10

LEMMA Accepts ==
  ASSUME PollInv, NEW r \in Runs, AcceptAggregate(r)
  PROVE  PollInv'
<1>1. /\ TypeOK /\ Queued /\ Fresh /\ Alone /\ NothingIsForgotten /\ CompletedIsFinal
      /\ (\A q \in Runs : Sound(job[q])) /\ \A w \in Workers : Staged(w)
  BY DEF PollInv
<1>2. /\ inbox[r] = "new" /\ inbox' = [inbox EXCEPT ![r] = "pending"] /\ accepted' = Append(accepted, r)
      /\ UNCHANGED <<lapsed, schedule, artifacts, job, pc, todo, failed, held, frame>>
  BY DEF AcceptAggregate, worker
<1>3. /\ accepted' \in Seq(Runs) /\ Listed(r, accepted') /\ \A q \in Runs : Listed(q, accepted) => Listed(q, accepted')
  BY <1>1, <1>2, AppendedIsListed DEF TypeOK
<1>4. TypeOK' BY <1>1, <1>2, <1>3 DEF TypeOK
<1>5. Queued'
  <2>1. /\ Len(accepted') = Len(accepted) + 1 /\ accepted'[Len(accepted) + 1] = r
        /\ \A i \in 1..Len(accepted) : accepted'[i] = accepted[i]
    BY <1>1, <1>2, AppendProperties DEF TypeOK
  <2>2. /\ Len(accepted) \in Nat /\ DOMAIN accepted = 1..Len(accepted) /\ DOMAIN accepted' = 1..(Len(accepted) + 1)
        /\ \A i \in DOMAIN accepted : accepted[i] \in Runs
    BY <1>1, <1>3, <2>1 DEF TypeOK
  <2>3. \A i \in DOMAIN accepted : accepted[i] # r BY <1>1, <1>2 DEF Queued
  <2>4. \A q \in Runs : inbox'[q] = IF q = r THEN "pending" ELSE inbox[q] BY <1>1, <1>2 DEF TypeOK
  <2> QED BY <1>1, <2>1, <2>2, <2>3, <2>4 DEF Queued, Distinct
<1>6. Fresh' BY <1>1, <1>2 DEF Fresh, NewJob, TypeOK
<1>7. \A w \in Workers : Staged(w)' BY <1>1, <1>2 DEF Staged, Final, NewJob, Behind
<1>8. Alone' BY <1>1, <1>2 DEF Alone
<1>9. NothingIsForgotten' BY <1>1, <1>2, <1>3 DEF NothingIsForgotten, Listed, TypeOK
<1>10. CompletedIsFinal' BY <1>1, <1>2 DEF CompletedIsFinal, Outstanding, TypeOK
<1>11. (\A q \in Runs : Sound(job[q]))' BY <1>1, <1>2 DEF Sound
<1> QED BY <1>4, <1>5, <1>6, <1>7, <1>8, <1>9, <1>10, <1>11 DEF PollInv

LEMMA Lapses ==
  ASSUME PollInv, NEW r \in Runs, Lapse(r)
  PROVE  PollInv'
<1>1. lapsed' = lapsed \cup {r} /\ UNCHANGED <<inbox, accepted, schedule, artifacts, job, pc, todo, failed, held, frame>>
  BY DEF Lapse, queues, worker
<1>2. TypeOK' BY <1>1 DEF PollInv, TypeOK
<1>3. CompletedIsFinal' BY <1>1 DEF PollInv, CompletedIsFinal, Outstanding
<1>4. /\ (\A q \in Runs : Sound(job[q]))' /\ Queued' /\ Fresh' /\ Alone' /\ NothingIsForgotten'
  BY <1>1 DEF PollInv, Sound, Queued, Distinct, Fresh, NewJob, Alone, NothingIsForgotten, Listed
<1>5. \A w \in Workers : Staged(w)' BY <1>1 DEF PollInv, Staged, Final, NewJob, Behind
<1> QED BY <1>2, <1>3, <1>4, <1>5 DEF PollInv

LEMMA PollStarts == Init => PollInv
<1> SUFFICES ASSUME Init PROVE PollInv
  OBVIOUS
<1>1. \A r \in Runs : Sound(NewJob(r)) /\ NewJob(r) \in Job BY NewJobSound DEF Sound
<1>2. TypeOK BY <1>1 DEF Init, TypeOK, Stages
<1>3. (\A r \in Runs : Sound(job[r])) /\ Fresh BY <1>1, RunsAssumption DEF Init, Fresh
<1>4. Queued BY DEF Init, Queued, Distinct
<1>5. (\A w \in Workers : Staged(w)) /\ Alone BY DEF Init, Staged, Alone, Behind
<1>6. NothingIsForgotten /\ CompletedIsFinal BY NewJobSound DEF Init, NothingIsForgotten, CompletedIsFinal
<1> QED BY <1>2, <1>3, <1>4, <1>5, <1>6 DEF PollInv

LEMMA PollStep == PollInv /\ [Next]_vars => PollInv'
<1> SUFFICES ASSUME PollInv, [Next]_vars PROVE PollInv'
  OBVIOUS
<1>1. ASSUME NEW w \in Workers, Poll(w) PROVE PollInv'
  <2>1. CASE ClaimInbox(w) BY <2>1, Claims
  <2>2. CASE ~ClaimInbox(w)
    <3>1. Moves(w)
      BY <1>1, <2>2, Scans, Recovers, Records, Picks, Reduces, Continues, Completes, Executes, Hands DEF Poll
    <3> QED BY <3>1, MovesKeep
  <2> QED BY <2>1, <2>2
<1>2. CASE UNCHANGED vars
  <2>1. UNCHANGED <<inbox, lapsed, accepted, schedule, artifacts, job, pc, todo, failed, held, frame>>
    BY <1>2 DEF vars, queues, worker
  <2>2. TypeOK' BY <2>1 DEF PollInv, TypeOK
  <2>3. CompletedIsFinal' BY <2>1 DEF PollInv, CompletedIsFinal, Outstanding
  <2>4. /\ (\A q \in Runs : Sound(job[q]))' /\ Queued' /\ Fresh' /\ Alone' /\ NothingIsForgotten'
    BY <2>1 DEF PollInv, Sound, Queued, Distinct, Fresh, NewJob, Alone, NothingIsForgotten, Listed
  <2>5. \A w \in Workers : Staged(w)' BY <2>1 DEF PollInv, Staged, Final, NewJob, Behind
  <2> QED BY <2>2, <2>3, <2>4, <2>5 DEF PollInv
<1> QED BY <1>1, <1>2, Accepts, Lapses DEF Next

(***************************************************************************)
(* The theorems.                                                            *)
(***************************************************************************)
\* The workers' stages, lists and counters keep their types, for any number of
\* workers, runs and candidates to a scan (Queue.worker and what it calls).
THEOREM PollTyping == Spec => []TypeOK
<1>1. PollInv => TypeOK BY DEF PollInv
<1> QED BY <1>1, PollStarts, PollStep, PTL DEF Spec

\* A pending run, a running job and an unadvanced reduction stay in the list
\* that their scan reads, while workers with older lists defer, lose, advance
\* and complete them (ClaimInbox, TouchPreparedCandidate, CompleteModelJob).
THEOREM PollForgetsNothing == Spec => []NothingIsForgotten
<1>1. PollInv => NothingIsForgotten BY DEF PollInv
<1> QED BY <1>1, PollStarts, PollStep, PTL DEF Spec

\* What ended before its deadline ended on a final reduction with nothing lost
\* and nothing outstanding, for all workers and runs (CompletePendingModelJobs).
THEOREM PollCompletesFinal == Spec => []CompletedIsFinal
<1>1. PollInv => CompletedIsFinal BY DEF PollInv
<1> QED BY <1>1, PollStarts, PollStep, PTL DEF Spec
=============================================================================
