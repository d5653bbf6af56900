------------------------------ MODULE WorkerPoll ------------------------------
(***************************************************************************)
(* The poll of the inbox workers: how every worker of the service passes    *)
(* through the same stages again and again - send prepared actions, index   *)
(* results, reduce groups, advance tool and formatter continuations,        *)
(* complete jobs - before it may claim the next pending run, and how the    *)
(* scans of these stages share the runs among the workers.                  *)
(*                                                                          *)
(* What one run goes through is ModelJob; here a job is a few counters.  A  *)
(* stage that answers with an error sends the worker back to the first      *)
(* stage.  Two stages are left out and taken to succeed: the release of     *)
(* unused reservations comes first and can stop every poll (Blocked of      *)
(* ReviewControl); publications are kept up before the claim.               *)
(***************************************************************************)
EXTENDS Integers, Sequences, FiniteSets

CONSTANTS
  Runs,      \* run ids, ordered as the database orders them
  Workers,
  Limit,     \* how many candidates a scan takes
  Wide,      \* runs with two diff batches, the others have one
  NoClaim,   \* runs whose prepared actions the budget refuses to claim
  NoTools,   \* runs whose tool observations the budget refuses
  NoRepair,  \* runs whose formatter children the budget refuses
  Lossy,     \* runs whose calls may end without a response
  Unruly,    \* runs whose formatter may ask for tools
  NONE

ASSUME RunsAssumption == Runs \subseteq Nat /\ NONE \notin Runs /\ Limit \in Nat \ {0}

VARIABLES
  inbox,     \* budget_inbox.state
  lapsed,    \* runs whose deadline has passed
  accepted,  \* pending runs, by budget_inbox.created_at
  schedule,  \* running jobs, by budget_jobs.updated_at
  artifacts, \* unadvanced reductions, by budget_model_reductions.created_at
  job,       \* the actions, results and reduction of the job's present group
  pc,        \* the stage each worker is in
  todo,      \* what its scan has left
  failed,    \* whether an action failed in RecoverPreparedActions
  held,      \* the job row its transaction has locked
  frame      \* the run whose pipeline it executes

queues == <<accepted, schedule, artifacts>>
worker == <<pc, todo, failed, held, frame>>
vars == <<inbox, lapsed, queues, job, worker>>
-----------------------------------------------------------------------------
Asked == {"final", "repair", "tools"}
Job == [phase: {"batches", "tools", "repair"}, size: 1..2, prepared: 0..2, recorded: 0..2,
        indexed: 0..2, lost: BOOLEAN, answer: Asked, verdict: Asked \cup {"none"}]

NewJob(r) == [phase |-> "batches", size |-> IF r \in Wide THEN 2 ELSE 1, prepared |-> 0,
              recorded |-> 0, indexed |-> 0, lost |-> FALSE, answer |-> "final", verdict |-> "none"]

Stages == {"prepared", "recover", "results", "reductions", "reduce", "tools", "observe",
           "formatter", "repair", "completion", "complete", "claim", "frame", "handoff"}

\* The members of S in s, in their order: each by its rank among them.
Among(s, S) ==
  LET at == {i \in DOMAIN s : s[i] \in S}
      rank(i) == Cardinality({j \in at : j < i})
  IN  [k \in 1..Cardinality(at) |-> s[CHOOSE i \in at : rank(i) = k - 1]]

Without(s, r) == Among(s, Runs \ {r})
Touch(r) == schedule' = Append(Without(schedule, r), r)
Least(S) == CHOOSE r \in S : \A q \in S : r <= q

\* A bounded scan, oldest first.
Oldest(s, S) ==
  LET found == Among(s, S)
  IN  SubSeq(found, 1, IF Len(found) < Limit THEN Len(found) ELSE Limit)

Go(w, stage) == pc' = [pc EXCEPT ![w] = stage]
Take(w, s) == todo' = [todo EXCEPT ![w] = s]

\* The stage behind a scan, when its last candidate is done or it has none.
Behind == [recover |-> "results", observe |-> "formatter", repair |-> "completion", complete |-> "claim"]

\* The first candidate is done.
Drop(w) ==
  /\ Take(w, Tail(todo[w]))
  /\ IF Len(todo[w]) = 1 THEN Go(w, Behind[pc[w]]) ELSE pc' = pc

\* An error restarts the poll; in a frame it ends the frame.
Restart(w) ==
  /\ Go(w, "prepared") /\ Take(w, <<>>)
  /\ failed' = [failed EXCEPT ![w] = FALSE]
  /\ held' = [held EXCEPT ![w] = NONE] /\ frame' = [frame EXCEPT ![w] = NONE]

\* FOR UPDATE OF j SKIP LOCKED
Unlocked(w) == {r \in Runs : \A v \in Workers : v # w => held[v] # r}

Live(r) == inbox[r] = "running" /\ r \notin lapsed

\* One stage lists its candidates; the next works on them, if there are any.
Scan(w, from, to, s, S) ==
  /\ pc[w] = from /\ Take(w, Oldest(s, S))
  /\ Go(w, IF Oldest(s, S) = <<>> THEN Behind[to] ELSE to)
  /\ UNCHANGED <<inbox, lapsed, queues, job, failed, held, frame>>
-----------------------------------------------------------------------------
Init ==
  /\ inbox = [r \in Runs |-> "new"] /\ lapsed = {}
  /\ accepted = <<>> /\ schedule = <<>> /\ artifacts = <<>>
  /\ job = [r \in Runs |-> NewJob(r)]
  /\ pc = [w \in Workers |-> "prepared"] /\ todo = [w \in Workers |-> <<>>]
  /\ failed = [w \in Workers |-> FALSE]
  /\ held = [w \in Workers |-> NONE] /\ frame = [w \in Workers |-> NONE]

AcceptAggregate(r) ==
  /\ inbox[r] = "new" /\ inbox' = [inbox EXCEPT ![r] = "pending"]
  /\ accepted' = Append(accepted, r)
  /\ UNCHANGED <<lapsed, schedule, artifacts, job, worker>>

Lapse(r) ==
  /\ inbox[r] \in {"pending", "running"} /\ r \notin lapsed
  /\ lapsed' = lapsed \cup {r}
  /\ UNCHANGED <<inbox, queues, job, worker>>
-----------------------------------------------------------------------------
(* Prepared actions *)

\* PreparedRecoveryCandidates: an uncertain effect blocks its run.
ResumableAnyAction(r) == Live(r) /\ ~job[r].lost
Resumable(r) == Live(r) /\ job[r].prepared > 0 /\ ~job[r].lost

ScanPrepared(w) == Scan(w, "prepared", "recover", schedule, {r \in Runs : Resumable(r)})

\* The tool requests of one response outweigh repairs, these final answers.
Joint(a, b) == IF "tools" \in {a, b} THEN "tools" ELSE IF "repair" \in {a, b} THEN "repair" ELSE "final"

Answers(r) ==
  CASE job[r].phase = "batches" -> Asked
    [] job[r].phase = "tools" -> {"final", "repair"}
    [] OTHER -> IF r \in Unruly THEN {"final", "tools"} ELSE {"final"}

Answered(r, a) ==
  job' = [job EXCEPT ![r].prepared = @ - 1, ![r].recorded = @ + 1, ![r].answer = Joint(@, a)]

\* An action that failed does not stop the scan, but the poll behind it.
Tried(w, fails) ==
  IF Len(todo[w]) > 1 \/ ~(failed[w] \/ fails)
  THEN Drop(w) /\ failed' = [failed EXCEPT ![w] = @ \/ fails] /\ UNCHANGED <<held, frame>>
  ELSE Restart(w)

\* recoverPrepared of the first candidate: refused to another worker, deferred
\* by the budget, answered, or lost.
RecoverRefused(w, r) ==
  /\ ~Resumable(r) /\ Tried(w, TRUE)
  /\ UNCHANGED <<schedule, job>>

RecoverDeferredInPlace(w, r) ==
  /\ Resumable(r) /\ r \in NoClaim /\ Tried(w, FALSE)
  /\ UNCHANGED <<job, schedule>>
RecoverDeferred(w, r) ==
  /\ Resumable(r) /\ r \in NoClaim /\ Touch(r) /\ Tried(w, FALSE)
  /\ UNCHANGED job

RecoverCalled(w, r) ==
  /\ Resumable(r) /\ r \notin NoClaim /\ Touch(r)
  /\ \/ \E a \in Answers(r) : Answered(r, a) /\ Tried(w, FALSE)
     \/ /\ r \in Lossy /\ Tried(w, TRUE)
        /\ job' = [job EXCEPT ![r].prepared = @ - 1, ![r].lost = TRUE]

RecoverPreparedActions(w) ==
  /\ pc[w] = "recover"
  /\ LET r == Head(todo[w]) IN RecoverRefused(w, r) \/ RecoverDeferred(w, r) \/ RecoverCalled(w, r)
  /\ UNCHANGED <<inbox, lapsed, accepted, artifacts>>
-----------------------------------------------------------------------------
(* Results and reductions *)

RecoverActionResults(w) ==
  LET found == {r \in Unlocked(w) : job[r].recorded > 0}
  IN  /\ pc[w] = "results" /\ Go(w, "reductions")
      /\ job' = IF found = {} THEN job
                ELSE LET r == Least(found)
                     IN  [job EXCEPT ![r].indexed = @ + job[r].recorded, ![r].recorded = 0]
      /\ UNCHANGED <<inbox, lapsed, queues, todo, failed, held, frame>>

\* ORDER BY j.run_id LIMIT 1: neither the state nor the deadline of the run is
\* looked at, nor whether its group is complete.
Unreduced(w) == {r \in Unlocked(w) : job[r].indexed > 0}

\* Back to a frame that waits for its reduction, or on with the poll.
Reduced(w) == IF frame[w] = NONE THEN "tools" ELSE "handoff"

PickGroup(w) ==
  /\ pc[w] = "reductions"
  /\ IF Unreduced(w) = {} THEN Go(w, Reduced(w)) /\ held' = held
     ELSE Go(w, "reduce") /\ held' = [held EXCEPT ![w] = Least(Unreduced(w))]
  /\ UNCHANGED <<inbox, lapsed, queues, job, todo, failed, frame>>

\* RecoverModelReductions: a formatter that asks for tools is an error of the
\* reducer, and the results stay unreduced.
RecoverModelReductions(w) ==
  LET r == held[w]
      whole == job[r].indexed = job[r].size
      fails == whole /\ job[r].phase = "repair" /\ job[r].answer = "tools"
  IN  /\ pc[w] = "reduce"
      /\ IF fails THEN Restart(w)
         ELSE Go(w, Reduced(w)) /\ held' = [held EXCEPT ![w] = NONE] /\ UNCHANGED <<todo, failed, frame>>
      /\ IF whole /\ ~fails
         THEN /\ job' = [job EXCEPT ![r].indexed = 0, ![r].verdict = job[r].answer]
              /\ artifacts' = Append(artifacts, r)
         ELSE UNCHANGED <<job, artifacts>>
      /\ UNCHANGED <<inbox, lapsed, accepted, schedule>>
-----------------------------------------------------------------------------
(* Continuations and completion *)

Awaits(r, v) == Live(r) /\ job[r].verdict = v
ScanTools(w) == Scan(w, "tools", "observe", schedule, {r \in Runs : Awaits(r, "tools")})
ScanRepairs(w) == Scan(w, "formatter", "repair", artifacts, {r \in Runs : Awaits(r, "repair")})
ScanReduced(w) == Scan(w, "completion", "complete", artifacts, {r \in Runs : Live(r) /\ ~job[r].lost})
ScanComplete(w) ==
  Scan(w, "completion", "complete", artifacts, {r \in Runs : Awaits(r, "final") /\ ~job[r].lost})

Child(r, phase) ==
  /\ job' = [job EXCEPT ![r] = [NewJob(r) EXCEPT !.phase = phase, !.size = 1, !.prepared = 1, !.lost = job[r].lost]]
  /\ artifacts' = Without(artifacts, r) /\ Touch(r)

\* A parent somebody else advanced answers with its receipt.
Receipt(w, r, v) ==
  /\ job[r].verdict # v /\ Drop(w)
  /\ UNCHANGED <<artifacts, schedule, job, failed, held, frame>>

\* The lineage check refuses a job with an unknown effect, the job check one
\* past its deadline: errors that are no budget waits.
Errs(w, r, v) ==
  /\ job[r].verdict = v /\ (job[r].lost \/ ~Live(r)) /\ Restart(w)
  /\ UNCHANGED <<artifacts, schedule, job>>

Advanced(w, r, v) ==
  /\ Awaits(r, v) /\ ~job[r].lost /\ Child(r, v) /\ Drop(w)
  /\ UNCHANGED <<failed, held, frame>>

\* deferBudgetToolCandidate: a refused observation goes to the end of the scan.
DeferUntouched(w, r) ==
  /\ Awaits(r, "tools") /\ ~job[r].lost /\ r \in NoTools /\ Drop(w)
  /\ UNCHANGED <<artifacts, job, failed, held, frame, schedule>>
DeferRestarting(w, r) ==
  /\ Awaits(r, "tools") /\ ~job[r].lost /\ r \in NoTools /\ Restart(w)
  /\ UNCHANGED <<artifacts, job, schedule>>
DeferForgetting(w, r) ==
  /\ Awaits(r, "tools") /\ ~job[r].lost /\ r \in NoTools /\ Drop(w)
  /\ schedule' = Without(schedule, r)
  /\ UNCHANGED <<artifacts, job, failed, held, frame>>
Defer(w, r) ==
  /\ Awaits(r, "tools") /\ ~job[r].lost /\ r \in NoTools /\ Drop(w)
  /\ Touch(r)
  /\ UNCHANGED <<artifacts, job, failed, held, frame>>

AdvancePendingModelToolContinuations(w) ==
  /\ pc[w] = "observe"
  /\ LET r == Head(todo[w])
     IN  \/ Receipt(w, r, "tools") \/ Errs(w, r, "tools") \/ Defer(w, r)
         \/ r \notin NoTools /\ Advanced(w, r, "tools")
  /\ UNCHANGED <<inbox, lapsed, accepted>>

\* Any error of a formatter candidate ends the poll, a budget refusal too.
Refused(w, r) ==
  /\ Awaits(r, "repair") /\ ~job[r].lost /\ r \in NoRepair /\ Restart(w)
  /\ UNCHANGED <<artifacts, schedule, job>>

AdvancePendingModelContinuations(w) ==
  /\ pc[w] = "repair"
  /\ LET r == Head(todo[w])
     IN  \/ Receipt(w, r, "repair") \/ Errs(w, r, "repair") \/ Refused(w, r)
         \/ r \notin NoRepair /\ Advanced(w, r, "repair")
  /\ UNCHANGED <<inbox, lapsed, accepted>>

\* CompleteModelJob answers a second caller with the committed projection.
CompletePendingModelJobs(w) ==
  /\ pc[w] = "complete"
  /\ LET r == Head(todo[w])
     IN  \/ /\ Live(r) /\ inbox' = [inbox EXCEPT ![r] = "ended"] /\ Drop(w)
            /\ schedule' = Without(schedule, r) /\ artifacts' = Without(artifacts, r)
            /\ UNCHANGED <<failed, held, frame>>
         \/ /\ inbox[r] = "ended" /\ r \notin lapsed /\ Drop(w)
            /\ UNCHANGED <<inbox, schedule, artifacts, failed, held, frame>>
         \/ /\ r \in lapsed /\ Restart(w)
            /\ UNCHANGED <<inbox, schedule, artifacts>>
  /\ UNCHANGED <<lapsed, accepted, job>>
-----------------------------------------------------------------------------
(* Pending runs *)

Expired == {r \in Runs : inbox[r] \in {"pending", "running"} /\ r \in lapsed}

\* ClaimInbox: expire, then take the oldest pending run.
ClaimInbox(w) ==
  LET left == Among(accepted, Runs \ Expired)
  IN  /\ pc[w] = "claim"
      /\ IF left = <<>>
         THEN /\ Go(w, "prepared") /\ frame' = frame
              /\ inbox' = [r \in Runs |-> IF r \in Expired THEN "ended" ELSE inbox[r]]
              /\ accepted' = <<>> /\ schedule' = schedule
         ELSE /\ Go(w, "frame") /\ frame' = [frame EXCEPT ![w] = Head(left)]
              /\ inbox' = [r \in Runs |-> IF r \in Expired THEN "ended"
                                          ELSE IF r = Head(left) THEN "running" ELSE inbox[r]]
              /\ accepted' = Tail(left) /\ Touch(Head(left))
      /\ UNCHANGED <<lapsed, artifacts, job, todo, failed, held>>

\* A run with two batches is sealed and handed over; with one, the frame calls
\* the provider itself, after a lost call the next route.
RunAccepted(w) ==
  LET r == frame[w]
  IN  /\ pc[w] = "frame"
      /\ \/ /\ Live(r) /\ r \in Wide /\ job' = [job EXCEPT ![r].prepared = 2]
            /\ Touch(r) /\ Restart(w)
         \/ /\ Live(r) /\ r \notin Wide /\ Touch(r)
            /\ \E a \in Answers(r), lost \in BOOLEAN :
                 /\ lost => r \in Lossy
                 /\ job' = [job EXCEPT ![r].recorded = 1, ![r].answer = a, ![r].lost = lost]
                 /\ IF a = "final" THEN Restart(w)
                    ELSE Go(w, "results") /\ UNCHANGED <<todo, failed, held, frame>>
         \/ /\ ~Live(r) /\ Restart(w)
            /\ UNCHANGED <<job, schedule>>
      /\ UNCHANGED <<inbox, lapsed, accepted, artifacts>>

\* handoffModelParent: index and reduce until the frame's own parent is
\* reduced, then advance it; an error of that abandons the frame as well.
Handoff(w) ==
  LET r == frame[w]
  IN  /\ pc[w] = "handoff"
      /\ IF Live(r) /\ job[r].phase = "batches" /\ job[r].verdict = "none"
         THEN /\ Go(w, "results")
              /\ UNCHANGED <<artifacts, schedule, job, todo, failed, held, frame>>
         ELSE /\ Restart(w)
              /\ \/ /\ Awaits(r, "tools") /\ ~job[r].lost /\ r \notin NoTools /\ Child(r, "tools")
                 \/ /\ Awaits(r, "repair") /\ ~job[r].lost /\ r \notin NoRepair /\ Child(r, "repair")
                 \/ /\ \/ ~Live(r) \/ job[r].lost \/ job[r].phase # "batches"
                       \/ Awaits(r, "tools") /\ r \in NoTools
                       \/ Awaits(r, "repair") /\ r \in NoRepair
                    /\ UNCHANGED <<artifacts, schedule, job>>
      /\ UNCHANGED <<inbox, lapsed, accepted>>
-----------------------------------------------------------------------------
Poll(w) ==
  \/ ScanPrepared(w) \/ RecoverPreparedActions(w)
  \/ RecoverActionResults(w) \/ PickGroup(w) \/ RecoverModelReductions(w)
  \/ ScanTools(w) \/ AdvancePendingModelToolContinuations(w)
  \/ ScanRepairs(w) \/ AdvancePendingModelContinuations(w)
  \/ ScanComplete(w) \/ CompletePendingModelJobs(w)
  \/ ClaimInbox(w) \/ RunAccepted(w) \/ Handoff(w)

Next ==
  \/ \E w \in Workers : Poll(w)
  \/ \E r \in Runs : AcceptAggregate(r) \/ Lapse(r)

Spec == Init /\ [][Next]_vars

\* Every worker keeps polling: its transactions end, and provider calls are
\* cut off at their active time.  No run is obliged to lapse.
FairSpec == Spec /\ \A w \in Workers : WF_vars(Poll(w))
-----------------------------------------------------------------------------
(* Properties *)

TypeOK ==
  /\ inbox \in [Runs -> {"new", "pending", "running", "ended"}] /\ lapsed \subseteq Runs
  /\ {accepted, schedule, artifacts} \subseteq Seq(Runs)
  /\ job \in [Runs -> Job]
  /\ pc \in [Workers -> Stages] /\ todo \in [Workers -> Seq(Runs)]
  /\ failed \in [Workers -> BOOLEAN]
  /\ held \in [Workers -> Runs \cup {NONE}] /\ frame \in [Workers -> Runs \cup {NONE}]

\* What can go on is in the list that its scan reads, whatever the workers defer,
\* lose, advance or complete at the same time: a pending run among the accepted
\* ones, a running job in the schedule, an unadvanced reduction among the
\* artifacts (budget_inbox, budget_jobs, budget_model_reductions).
Listed(r, s) == \E i \in DOMAIN s : s[i] = r
NothingIsForgotten == \A r \in Runs :
  /\ inbox[r] = "pending" => Listed(r, accepted)
  /\ inbox[r] = "running" => Listed(r, schedule)
  /\ job[r].verdict # "none" /\ inbox[r] # "ended" => Listed(r, artifacts)

\* A run that ends before its deadline ends on the final reduction of a whole
\* group, with nothing lost and nothing left to send, to index or to reduce,
\* although the list of what to complete was read before and another worker may
\* hold the same list (CompletePendingModelJobs).
Outstanding(r) == job[r].prepared + job[r].recorded + job[r].indexed
CompletedIsFinal == \A r \in Runs : inbox[r] = "ended" /\ r \notin lapsed =>
  job[r].verdict = "final" /\ ~job[r].lost /\ Outstanding(r) = 0

\* The runs at which a poll ends with an error before ClaimInbox, and every poll
\* after it: a group the reducer refuses, whatever became of its run; an asking
\* reduction of a run with a lost call; a formatter child the budget refuses.
Irreducible(q) == job[q].phase = "repair" /\ job[q].answer = "tools" /\ job[q].indexed = job[q].size
Unadvanceable(q, v) == Awaits(q, v) /\ job[q].lost
Unaffordable(q) == Awaits(q, "repair") /\ q \in NoRepair

\* A frame whose group the reducer does not pick: one that is incomplete and has
\* a smaller run id comes first, and this worker does not go on to send its rest.
Hidden(w) == frame[w] # NONE /\ \E q \in Runs : q < frame[w] /\ job[q].indexed \in 1..(job[q].size - 1)

ToolsStopped == \/ \E q \in Runs : Irreducible(q) \/ Unadvanceable(q, "tools")
                \/ \E w \in Workers : Hidden(w)
Stopped == ToolsStopped \/ \E q \in Runs : Unadvanceable(q, "repair") \/ Unaffordable(q)

\* Every poll reaches ClaimInbox, whatever other runs wait for: a pending run is
\* claimed, or expires there, unless polls are stopped at one of these runs again
\* and again.
PendingIsClaimed ==
  \A r \in Runs : inbox[r] = "pending" ~> inbox[r] # "pending" \/ Stopped

\* A tool continuation that the budget admits is not kept waiting by others
\* that it refuses, however few candidates a scan takes, unless an error of the
\* stages up to theirs stops the polls.
ToolsAdvance ==
  \A r \in Runs \ NoTools :
    Awaits(r, "tools") /\ ~job[r].lost ~> ~Awaits(r, "tools") \/ ToolsStopped

\* The same of prepared actions, which are the first stage modelled.
PreparedIsSent ==
  \A r \in Runs \ NoClaim : Resumable(r) ~> ~Resumable(r) \/ \E w \in Workers : Hidden(w)

\* Every complete group of recorded results is reduced, in the end.
CompleteGroupsReduce ==
  \A r \in Runs : job[r].indexed = job[r].size ~> job[r].verdict # "none"
=============================================================================
