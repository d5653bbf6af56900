---------------------------- MODULE ReviewControl ----------------------------
(***************************************************************************)
(* The control plane of the review service: how authenticated requests     *)
(* become runs and attempts, which attempt of a change is current, which   *)
(* worker may send its prepared model actions, and how a run ends.         *)
(*                                                                         *)
(* Webhook handlers acquire a snapshot outside any transaction and accept  *)
(* it in one (AcceptAggregate); workers of any number of processes poll    *)
(* for pending runs and for prepared actions whose owner is gone; an       *)
(* operator cancels; maintenance releases what was never sent, as long as  *)
(* no receipt speaks for it.  Every operation of Authority is one          *)
(* transaction under row locks and one action here; a refused one rolls    *)
(* back and is a stuttering step.  A handler, thread or worker that dies   *)
(* simply takes no further step.                                           *)
(*                                                                         *)
(* Abstracted: policies and comparison trees belong to the snapshot;       *)
(* budgets may refuse a dispatch at any time and live in BudgetLedger,     *)
(* with all of a receipt but that it came before the sending marker;       *)
(* batches, continuations and tool children of a first result are left     *)
(* out, so a recovered job is confined to one action; the compare-and-swap *)
(* of an operator's command on control_version is not kept, because every  *)
(* step that advances the version also leaves the attempt uncancellable.   *)
(***************************************************************************)
EXTENDS Integers, FiniteSets

CONSTANTS
  Requests,     \* [delivery, change, head, manual]: normalized review requests
  Changes,      \* change keys
  Handlers,     \* HTTP handlers that accept requests concurrently
  Actions,      \* model actions, numbered in the order of their reservation
  MaxRun,       \* bound on the accepted runs, numbered in their order
  MaxHead,      \* bound on the revisions pushed to a change
  MaxFence,     \* bound on the claims of one action
  NONE

Runs == 1..MaxRun
Heads == 1..MaxHead

\* A request without a delivery identity is a fresh, manual intent; one
\* without a head names no revision and takes the one the SCM reports.
ASSUME RequestAssumption ==
  /\ \A q \in Requests : /\ q.change \in Changes
                         /\ q.head \in Heads \cup {NONE}
                         /\ q.manual \in BOOLEAN
                         /\ q.delivery = NONE => q.manual
  /\ NONE \notin Requests \cup Nat

ASSUME BoundAssumption == MaxRun \in Nat /\ MaxHead \in Nat \ {0} /\ MaxFence \in Nat

ASSUME ActionAssumption == Actions \subseteq Nat

VARIABLES
  scm,        \* the head revision of each change at the code host
  intake,     \* what each handler is acquiring
  job,        \* budget_inbox and budget_jobs, one row per run
  attempt,    \* budget_attempts, named by the run that created them
  head,       \* budget_heads
  action,     \* budget_actions and budget_action_leases
  lapsed,     \* the runs whose execution deadline has passed
  threads,    \* job claims of pipeline executions
  claims,     \* ActionClaims workers were given
  early       \* budget_quarantine: actions with a receipt that came too soon

vars == <<scm, intake, job, attempt, head, action, lapsed, threads, claims, early>>
-----------------------------------------------------------------------------
(* Rows *)

InboxStates == {"pending", "running", "expired", "uncertain",
                "completed", "failed", "cancelled", "superseded"}

JobRow == [req: Requests, attempt: Runs, duplicate: BOOLEAN, state: InboxStates,
           phase: {"admitted", "effect_started", "finished"}, allowed: BOOLEAN,
           token: Nat, cancelled: BOOLEAN, grant: Actions \cup {NONE}]

AttemptRow == [change: Changes, snapshot: Heads, generation: Runs, active: BOOLEAN,
               successor: Runs \cup {NONE}]

HeadRow == [generation: 0..MaxRun, current: Runs \cup {NONE}]

ActionRow == [run: Runs, attempt: Runs, fence: 0..MaxFence, token: Nat, leased: BOOLEAN,
              state: {"prepared", "sending", "uncertain", "result_recorded", "not_executed"}]

IntakeRow == [req: Requests, generation: 0..MaxRun \cup {NONE}, snapshot: Heads \cup {NONE}]

ASSUME RowAssumption == NONE \notin JobRow \cup AttemptRow \cup ActionRow \cup IntakeRow

JobClaim == [run: Runs, token: Nat]
ActionClaim == [action: Actions, fence: 1..MaxFence, token: Nat]

Accepted(r) == job[r] # NONE
Exists(x) == action[x] # NONE
Prepared(x) == Exists(x) /\ action[x].state = "prepared"
Started(x) == Exists(x) /\ action[x].state \in {"sending", "uncertain", "result_recorded"}

OfAttempt(t) == {x \in Actions : Exists(x) /\ action[x].attempt = t}
Own(r) == {x \in Actions : Exists(x) /\ action[x].run = r}

Current(t) == head[attempt[t].change].current = t

\* A cancelled attempt cancels every run that aliases it.
Cancelled(r) == job[job[r].attempt].cancelled
-----------------------------------------------------------------------------
Init ==
  /\ scm = [c \in Changes |-> 1]
  /\ intake = [h \in Handlers |-> NONE]
  /\ job = [r \in Runs |-> NONE]
  /\ attempt = [t \in Runs |-> NONE]
  /\ head = [c \in Changes |-> [generation |-> 0, current |-> NONE]]
  /\ action = [x \in Actions |-> NONE]
  /\ lapsed = {} /\ threads = {} /\ claims = {} /\ early = {}

\* A push to the change at the code host.
Push(c) ==
  /\ scm[c] < MaxHead
  /\ scm' = [scm EXCEPT ![c] = @ + 1]
  /\ UNCHANGED <<intake, job, attempt, head, action, lapsed, threads, claims, early>>

\* Time passes the execution deadline of a run.
Lapse(r) ==
  /\ Accepted(r) /\ r \notin lapsed
  /\ lapsed' = lapsed \cup {r}
  /\ UNCHANGED <<scm, intake, job, attempt, head, action, threads, claims, early>>
-----------------------------------------------------------------------------
(* Acceptance *)

\* ReplayAggregate: a delivery already accepted is answered from its row,
\* with its state or as a conflict.
Known(q) == q.delivery # NONE /\ \E r \in Runs : Accepted(r) /\ job[r].req.delivery = q.delivery

\* A request is received while there is a run left for it (a bound).
Receive(h, q) ==
  /\ intake[h] = NONE /\ ~Known(q) /\ \E r \in Runs : ~Accepted(r)
  /\ intake' = [intake EXCEPT ![h] = [req |-> q, generation |-> NONE, snapshot |-> NONE]]
  /\ UNCHANGED <<scm, job, attempt, head, action, lapsed, threads, claims, early>>

\* The generation is read before the SCM is.
ObserveGeneration(h) ==
  /\ intake[h] # NONE /\ intake[h].generation = NONE
  /\ intake' = [intake EXCEPT ![h].generation = head[intake[h].req.change].generation]
  /\ UNCHANGED <<scm, job, attempt, head, action, lapsed, threads, claims, early>>

\* A webhook for another revision than the SCM's head is refused.
Enrich(h) ==
  /\ intake[h] # NONE /\ intake[h].generation # NONE /\ intake[h].snapshot = NONE
  /\ intake[h].req.head \in {NONE, scm[intake[h].req.change]}
  /\ intake' = [intake EXCEPT ![h].snapshot = scm[intake[h].req.change]]
  /\ UNCHANGED <<scm, job, attempt, head, action, lapsed, threads, claims, early>>

\* The handler gives up, is refused, or its process dies.
Abandon(h) ==
  /\ intake[h] # NONE
  /\ intake' = [intake EXCEPT ![h] = NONE]
  /\ UNCHANGED <<scm, job, attempt, head, action, lapsed, threads, claims, early>>

NextRun(r) == ~Accepted(r) /\ \A s \in 1..(r - 1) : Accepted(s)

\* Deviations: a delivery accepted meanwhile is accepted again; a generation
\* that moved is not noticed.
AdmissibleAgain(h) == /\ intake[h] # NONE /\ intake[h].snapshot # NONE
                      /\ intake[h].generation = head[intake[h].req.change].generation
AdmissibleLate(h) == /\ intake[h] # NONE /\ intake[h].snapshot # NONE
                     /\ ~Known(intake[h].req)

\* acceptInboxTx and admitTx: a delivery accepted meanwhile is only looked
\* up, and a generation that moved makes the acquisition stale.
Admissible(h) ==
  /\ intake[h] # NONE /\ intake[h].snapshot # NONE
  /\ ~Known(intake[h].req)
  /\ intake[h].generation = head[intake[h].req.change].generation

\* A deviation: the phase is left as it was inserted.
NewJobAccepted(q, t, duplicate) ==
  [req |-> q, attempt |-> t, duplicate |-> duplicate, state |-> "pending", phase |-> "accepted",
   allowed |-> ~duplicate, token |-> 0, cancelled |-> FALSE, grant |-> NONE]

NewJob(q, t, duplicate) ==
  [req |-> q, attempt |-> t, duplicate |-> duplicate, state |-> "pending", phase |-> "admitted",
   allowed |-> ~duplicate, token |-> 0, cancelled |-> FALSE, grant |-> NONE]

\* An automatic event for the snapshot that is current already.
Duplicate(h) ==
  LET t == head[intake[h].req.change].current
  IN ~intake[h].req.manual /\ t # NONE /\ attempt[t].snapshot = intake[h].snapshot

AcceptDuplicate(h, r) ==
  /\ Admissible(h) /\ NextRun(r) /\ Duplicate(h)
  /\ job' = [job EXCEPT ![r] = NewJob(intake[h].req, head[intake[h].req.change].current, TRUE)]
  /\ intake' = [intake EXCEPT ![h] = NONE]
  /\ UNCHANGED <<scm, attempt, head, action, lapsed, threads, claims, early>>

\* A deviation: the predecessor stays active beside its successor.
AcceptAttemptBeside(h, r) ==
  LET c == intake[h].req.change
      new == [change |-> c, snapshot |-> intake[h].snapshot,
              generation |-> head[c].generation + 1, active |-> TRUE, successor |-> NONE]
  IN /\ Admissible(h) /\ NextRun(r) /\ ~Duplicate(h)
     /\ job' = [job EXCEPT ![r] = NewJob(intake[h].req, r, FALSE)]
     /\ attempt' = [attempt EXCEPT ![r] = new]
     /\ head' = [head EXCEPT ![c] = [generation |-> new.generation, current |-> r]]
     /\ intake' = [intake EXCEPT ![h] = NONE]
     /\ UNCHANGED <<scm, action, lapsed, threads, claims, early>>

\* A new attempt supersedes the current one, whatever became of it.
AcceptAttempt(h, r) ==
  LET c == intake[h].req.change
      old == head[c].current
      new == [change |-> c, snapshot |-> intake[h].snapshot,
              generation |-> head[c].generation + 1, active |-> TRUE, successor |-> NONE]
  IN /\ Admissible(h) /\ NextRun(r) /\ ~Duplicate(h)
     /\ job' = [job EXCEPT ![r] = NewJob(intake[h].req, r, FALSE)]
     /\ attempt' = [t \in Runs |->
          CASE t = r -> new
            [] t = old -> [attempt[t] EXCEPT !.active = FALSE, !.successor = r]
            [] OTHER -> attempt[t]]
     /\ head' = [head EXCEPT ![c] = [generation |-> new.generation, current |-> r]]
     /\ intake' = [intake EXCEPT ![h] = NONE]
     /\ UNCHANGED <<scm, action, lapsed, threads, claims, early>>
-----------------------------------------------------------------------------
(* Claiming and finishing runs *)

Claimable(r) == /\ Accepted(r) /\ job[r].state = "pending" /\ r \notin lapsed
                /\ job[r].phase = "admitted" /\ ~Cancelled(r)

\* A deviation: only pending rows expire.
AfterDeadlinePending(r) ==
  IF Accepted(r) /\ r \in lapsed /\ job[r].state = "pending"
  THEN [job[r] EXCEPT !.state = "expired"] ELSE job[r]

\* What ClaimInbox does first, whether or not it finds a run to claim.
AfterDeadline(r) ==
  IF ~Accepted(r) \/ r \notin lapsed THEN job[r]
  ELSE CASE job[r].state = "running" -> [job[r] EXCEPT !.state = "uncertain"]
         [] job[r].state = "pending" -> [job[r] EXCEPT !.state = "expired"]
         [] OTHER -> job[r]

ExpireInbox ==
  /\ job' = [r \in Runs |-> AfterDeadline(r)]
  /\ UNCHANGED <<scm, intake, attempt, head, action, lapsed, threads, claims, early>>

\* The oldest pending row that no other transaction holds locked.
ClaimInbox(r) ==
  /\ Claimable(r)
  /\ job' = [s \in Runs |-> IF s = r THEN [job[r] EXCEPT !.state = "running", !.token = 1]
                                     ELSE AfterDeadline(s)]
  /\ threads' = threads \cup {[run |-> r, token |-> 1]}
  /\ UNCHANGED <<scm, intake, attempt, head, action, lapsed, claims, early>>

\* lockJob: the caller still owns the run.
Owns(r, token) == /\ Accepted(r) /\ job[r].state = "running" /\ r \notin lapsed
                  /\ job[r].token = token /\ job[r].phase # "finished"

\* A deviation: the actions of the attempt are not looked at.
FinishableBlind(th) ==
  /\ Owns(th.run, th.token)
  /\ job[th.run].phase # "effect_started" /\ job[th.run].grant = NONE
  /\ ~Cancelled(th.run)

Finishable(th) ==
  /\ Owns(th.run, th.token)
  /\ job[th.run].phase # "effect_started" /\ job[th.run].grant = NONE
  /\ ~Cancelled(th.run)
  /\ OfAttempt(job[th.run].attempt) = {}

Finish(th, state) ==
  IF Finishable(th)
  THEN job' = [job EXCEPT ![th.run].state = state, ![th.run].phase = "finished",
                          ![th.run].allowed = FALSE]
  ELSE UNCHANGED job

\* The pipeline returns in time, with success or an error, and its worker
\* calls FinishInbox; a refusal is logged and the worker goes on.
ReturnSuccess(th) ==
  /\ th.run \notin lapsed
  /\ Finish(th, "completed")
  /\ threads' = threads \ {th}
  /\ UNCHANGED <<scm, intake, attempt, head, action, lapsed, claims, early>>

ReturnFailure(th) ==
  /\ Finish(th, "failed")
  /\ threads' = threads \ {th}
  /\ UNCHANGED <<scm, intake, attempt, head, action, lapsed, claims, early>>
-----------------------------------------------------------------------------
(* Dispatching model actions *)

\* A deviation: the job claim is checked but not the attempt.
MayDispatchStale(r, token, x) ==
  /\ Owns(r, token)
  /\ job[r].allowed /\ job[r].grant \in {NONE, x}

\* guardJobDispatch and lockAttemptAuthority: the caller owns the run, the
\* run may dispatch and is not confined to another action, and its attempt
\* is the current one and active.
MayDispatch(r, token, x) ==
  /\ Owns(r, token)
  /\ job[r].allowed /\ job[r].grant \in {NONE, x}
  /\ Current(job[r].attempt) /\ attempt[job[r].attempt].active

PrepareAction(th, x) ==
  /\ ~Exists(x) /\ \A y \in Actions : y < x => Exists(y)
  /\ MayDispatch(th.run, th.token, x)
  /\ action' = [action EXCEPT ![x] =
       [run |-> th.run, attempt |-> job[th.run].attempt, fence |-> 0, token |-> 0,
        leased |-> FALSE, state |-> "prepared"]]
  /\ UNCHANGED <<scm, intake, job, attempt, head, lapsed, threads, claims, early>>

TakeLease(x, token) ==
  /\ action[x].fence < MaxFence
  /\ action' = [action EXCEPT ![x].fence = @ + 1, ![x].token = token, ![x].leased = TRUE]
  /\ claims' = claims \cup {[action |-> x, fence |-> action[x].fence + 1, token |-> token]}

\* The thread that prepared the action claims it with its own job claim.
ClaimPrepared(th, x) ==
  /\ Prepared(x) /\ action[x].run = th.run /\ action[x].fence = 0
  /\ MayDispatch(th.run, th.token, x)
  /\ TakeLease(x, th.token)
  /\ UNCHANGED <<scm, intake, job, attempt, head, lapsed, threads, early>>

\* No action of the attempt was sent, released or answered.
NoExternalProgress(t) == \A x \in OfAttempt(t) : Prepared(x)

\* Recovery takes over one prepared action without a live lease: the job
\* claim rotates and the run is confined to that action.
ReclaimPrepared(x) ==
  LET r == action[x].run IN
  /\ Prepared(x) /\ ~action[x].leased
  /\ job[r].phase = "admitted"
  /\ MayDispatch(r, job[r].token, x)
  /\ NoExternalProgress(action[x].attempt)
  /\ job' = [job EXCEPT ![r].token = @ + 1, ![r].grant = x]
  /\ TakeLease(x, job[r].token + 1)
  /\ UNCHANGED <<scm, intake, attempt, head, lapsed, threads, early>>

\* Time passes the end of the lease.
LeaseEnds(x) ==
  /\ Prepared(x) /\ action[x].leased
  /\ action' = [action EXCEPT ![x].leased = FALSE]
  /\ UNCHANGED <<scm, intake, job, attempt, head, lapsed, threads, claims, early>>

BeginPrepared(c) ==
  LET x == c.action
      r == action[x].run
  IN /\ Prepared(x) /\ action[x].leased
     /\ action[x].fence = c.fence /\ action[x].token = c.token
     /\ MayDispatch(r, c.token, x)
     /\ action' = [action EXCEPT ![x].state = "sending"]
     /\ job' = [job EXCEPT ![r].phase = "effect_started"]
     /\ UNCHANGED <<scm, intake, attempt, head, lapsed, threads, claims, early>>

\* The provider answered, or the call failed.  Nothing the run has become
\* since keeps its sender from recording that.
RecordOutcome(x, state) ==
  /\ Exists(x) /\ action[x].state = "sending"
  /\ action' = [action EXCEPT ![x].state = state]
  /\ UNCHANGED <<scm, intake, job, attempt, head, lapsed, threads, claims, early>>
-----------------------------------------------------------------------------
(* The ends of a run *)

\* CompleteModelJob: every action of the run was answered under the job
\* claim that is still valid, and a reducer validated or blocked the result.
CompleteModelJob(r, state) ==
  /\ Accepted(r) /\ job[r].state = "running" /\ job[r].phase = "effect_started"
  /\ job[r].allowed /\ r \notin lapsed
  /\ Current(job[r].attempt) /\ attempt[job[r].attempt].active
  /\ Own(r) # {} /\ job[r].grant \in Own(r) \cup {NONE}
  /\ \A x \in Own(r) : action[x].state = "result_recorded" /\ action[x].token = job[r].token
  /\ job' = [job EXCEPT ![r].state = state, ![r].phase = "finished", ![r].allowed = FALSE]
  /\ UNCHANGED <<scm, intake, attempt, head, action, lapsed, threads, claims, early>>

CancelAttempt(t) ==
  /\ attempt[t] # NONE /\ Current(t) /\ attempt[t].active
  /\ ~job[t].cancelled /\ job[t].phase # "finished"
  /\ job[t].state \in {"pending", "running", "expired", "uncertain"}
  /\ job' = [job EXCEPT ![t].state = "cancelled", ![t].phase = "finished", ![t].allowed = FALSE,
                        ![t].token = 0, ![t].cancelled = TRUE]
  /\ attempt' = [attempt EXCEPT ![t].active = FALSE]
  /\ UNCHANGED <<scm, intake, head, action, lapsed, threads, claims, early>>

\* A usage receipt for an action that is unknown, or known but not yet sent,
\* is put aside as evidence.
QuarantineReceipt(x) ==
  /\ x \notin early /\ (Exists(x) => Prepared(x))
  /\ early' = early \cup {x}
  /\ UNCHANGED <<scm, intake, job, attempt, head, action, lapsed, threads, claims>>

\* What the scan of the maintenance finds: what was reserved and never sent for
\* an attempt that was cancelled or superseded.
Unused == {x \in Actions :
  /\ Prepared(x) /\ ~attempt[action[x].attempt].active
  /\ job[action[x].run].cancelled \/ attempt[action[x].attempt].successor # NONE}

\* A deviation: only a cancellation releases.
ReleaseUnusedCancelled(x) ==
  /\ x \in Unused \ early /\ job[action[x].run].cancelled
  /\ action' = [action EXCEPT ![x].state = "not_executed"]
  /\ UNCHANGED <<scm, intake, job, attempt, head, lapsed, threads, claims, early>>

\* ReleaseUnusedPrepared: a reservation that was never sent is released by
\* the cancellation or the succession of its attempt, nothing else, and never
\* against a receipt.
ReleaseUnused(x) ==
  LET r == action[x].run IN
  /\ x \in Unused \ early
  /\ action' = [action EXCEPT ![x].state = "not_executed"]
  /\ job' = IF job[r].cancelled THEN job
            ELSE [job EXCEPT ![r].state = "superseded", ![r].phase = "finished",
                             ![r].allowed = FALSE, ![r].token = 0]
  /\ UNCHANGED <<scm, intake, attempt, head, lapsed, threads, claims, early>>

\* RecoverUnusedPrepared ends at the first candidate with a receipt, and the
\* poll of every worker with it: the actions reserved before it for the same run
\* come first, those of other runs stand anywhere (ORDER BY j.updated_at,
\* a.created_at).
Blocked == Unused \cap early # {}
Obstructed(x) == \E y \in Unused \cap early : y <= x \/ action[y].run # action[x].run
-----------------------------------------------------------------------------
Intake ==
  \/ \E c \in Changes : Push(c)
  \/ \E h \in Handlers, q \in Requests : Receive(h, q)
  \/ \E h \in Handlers : ObserveGeneration(h) \/ Enrich(h) \/ Abandon(h)
  \/ \E h \in Handlers, r \in Runs : AcceptDuplicate(h, r) \/ AcceptAttempt(h, r)

Execution ==
  \/ \E r \in Runs : Lapse(r) \/ ClaimInbox(r)
  \/ ExpireInbox
  \/ \E th \in threads : ReturnSuccess(th) \/ ReturnFailure(th)
  \/ \E th \in threads, x \in Actions : PrepareAction(th, x) \/ ClaimPrepared(th, x)
  \/ \E x \in Actions : ReclaimPrepared(x) \/ LeaseEnds(x)
  \/ \E c \in claims : BeginPrepared(c)
  \/ \E x \in Actions, state \in {"uncertain", "result_recorded"} : RecordOutcome(x, state)

Control ==
  \/ \E r \in Runs, state \in {"completed", "failed"} : CompleteModelJob(r, state)
  \/ \E t \in Runs : CancelAttempt(t)
  \/ \E x \in Actions : QuarantineReceipt(x) \/ ReleaseUnused(x)

Next == Intake \/ Execution \/ Control

Spec == Init /\ [][Next]_vars

\* Deadlines pass, and the workers' polls keep releasing what was never sent, up
\* to a candidate that stops them, and expiring the inbox where none does (the
\* stages between the two are those of WorkerPoll).  Nothing obliges a handler, a
\* pipeline, a provider or an operator to go on.
Fairness ==
  /\ \A r \in Runs : WF_vars(Lapse(r))
  /\ WF_vars(ExpireInbox /\ ~Blocked)
  /\ \A x \in Actions : WF_vars(ReleaseUnused(x) /\ ~Obstructed(x))

FairSpec == Spec /\ Fairness
-----------------------------------------------------------------------------
(* Type invariant *)

\* Every row has the shape of its table.
TypeOK ==
  /\ scm \in [Changes -> Heads]
  /\ intake \in [Handlers -> IntakeRow \cup {NONE}]
  /\ job \in [Runs -> JobRow \cup {NONE}]
  /\ attempt \in [Runs -> AttemptRow \cup {NONE}]
  /\ head \in [Changes -> HeadRow]
  /\ action \in [Actions -> ActionRow \cup {NONE}]
  /\ lapsed \subseteq Runs
  /\ threads \subseteq JobClaim /\ claims \subseteq ActionClaim /\ early \subseteq Actions

(* Acceptance *)

\* However many handlers receive a delivery, and however often, it becomes
\* one run.
OneRunPerDelivery ==
  \A r, s \in Runs :
    Accepted(r) /\ Accepted(s) /\ job[r].req.delivery = job[s].req.delivery =>
      r = s \/ job[r].req.delivery = NONE

\* The attempts of a change form one line of succession that ends in the
\* current attempt, and only that one can be active.
OneLine ==
  \A t \in Runs : attempt[t] # NONE =>
    LET c == attempt[t].change IN
    /\ attempt[t].successor = NONE <=> Current(t)
    /\ Current(t) => attempt[t].generation = head[c].generation
    /\ ~Current(t) => /\ ~attempt[t].active
                      /\ attempt[attempt[t].successor].change = c
                      /\ attempt[attempt[t].successor].generation = attempt[t].generation + 1

\* A slow acquisition cannot put an older revision in the place of a newer
\* one: later attempts review the same or later revisions.
SnapshotsAdvance ==
  \A t, u \in Runs :
    attempt[t] # NONE /\ attempt[u] # NONE /\ attempt[t].change = attempt[u].change =>
      (attempt[t].generation < attempt[u].generation => attempt[t].snapshot <= attempt[u].snapshot)

(* Dispatch *)

\* A cancelled or superseded attempt starts nothing any more, and what was
\* released as unused stays unused.
StoppedStaysStopped ==
  [][\A x \in Actions : Exists(x) =>
        /\ ~attempt[action[x].attempt].active => (Started(x) <=> Started(x)')
        /\ action[x].state = "not_executed" => action[x].state' = "not_executed"]_vars

(* Ends *)

\* No run is reported completed or failed with an action that was reserved
\* but not sent, or sent but not answered.
FinishedIsResolved ==
  \A r \in Runs : Accepted(r) /\ job[r].state \in {"completed", "failed"} =>
    \A x \in Own(r) : action[x].state = "result_recorded"

\* Every accepted run is eventually reported as ended or uncertain, even if no
\* worker ever claims it or its worker dies, unless a receipt that came too soon
\* stops the polls.
RunsEnd == \A r \in Runs :
  Accepted(r) ~> (Accepted(r) /\ job[r].state \notin {"pending", "running"}) \/ Blocked

\* A reservation that was not sent when its attempt was cancelled or superseded
\* is eventually released, unless there is a receipt for it, for one that was
\* reserved before it for the same run, or for one of another run.
UnusedIsReleased ==
  \A x \in Actions : Prepared(x) /\ ~attempt[action[x].attempt].active ~>
    (Exists(x) /\ action[x].state = "not_executed") \/ Obstructed(x)
=============================================================================
