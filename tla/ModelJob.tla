------------------------------- MODULE ModelJob -------------------------------
(***************************************************************************)
(* One durable model job of the accounting authority: how the model calls  *)
(* of one accepted run are planned, claimed, sent, indexed, reduced and    *)
(* continued by whichever worker comes by, until a terminal result closes  *)
(* the job.                                                                *)
(*                                                                         *)
(* A run with several diff batches seals all of them in one transaction    *)
(* and its live frame leaves (PrepareModelBatch); a run with one batch is  *)
(* sent by the live frame itself, route after route.  From then on pollers *)
(* of any number of processes work on the rows alone: they reclaim the one *)
(* prepared action they may send, index recorded responses, reduce a       *)
(* complete group, commit the observations of requested snapshot tools,    *)
(* prepare exactly one child of a reduction, and complete the job.  Every  *)
(* operation is one transaction under the job's row lock and one action    *)
(* here; a refused one rolls back and is a stuttering step, and a process  *)
(* that dies takes no further step.                                        *)
(*                                                                         *)
(* Group 0 is the initial plan; group g + 1 is the single continuation of  *)
(* the reduction of group g, so <<g, n>> is the n-th action of group g.    *)
(* The job's claim token is the number of its rotations: 0 is the token    *)
(* frozen into the initial intents.  Contents are abstracted to whether a  *)
(* response asks for tools; budgets may refuse any preparation or claim    *)
(* (BudgetLedger) by not taking the step.                                  *)
(***************************************************************************)
EXTENDS Integers, FiniteSets

CONSTANTS
  Width,      \* diff batches of a batched run, routes of another
  Rounds,     \* MaxModelToolRounds
  MaxFence,   \* bound on the claims of one action
  NONE

ASSUME BoundAssumption ==
  Width \in Nat \ {0} /\ Rounds \in Nat /\ MaxFence \in Nat \ {0}

Groups == 0..(Rounds + 2)
Initial == {<<0, n>> : n \in 1..Width}
Child(g) == <<g + 1, 1>>
Actions == Initial \cup {Child(g) : g \in 0..(Rounds + 1)}

ASSUME NoneAssumption == NONE \notin Actions /\ NONE \notin Groups

VARIABLES
  batched,      \* the run has several diff batches
  frame,        \* whether the run's own pipeline frame still executes
  lapsed,       \* the execution deadline has passed
  allowed,      \* budget_jobs.dispatch_allowed
  current,      \* the attempt is active and the head's current one
  phase,        \* budget_jobs.phase
  result,       \* budget_inbox.state
  token,        \* budget_inbox.claim_token
  cursor,       \* budget_jobs.recovery_action_id
  sealed,       \* budget_jobs.model_batch_id is set
  action,       \* budget_actions, their leases and their indexed results
  claims,       \* ActionClaims workers were given and have not used
  reduction,    \* budget_model_reductions and their inputs
  observation,  \* budget_model_tool_observations, one per parent reduction
  observed,     \* the parent of budget_jobs.tool_observation_id
  terminal      \* the group of budget_jobs.terminal_reduction_id

control == <<batched, frame, lapsed, allowed, current>>
journal == <<reduction, observation, observed>>
ending == <<result, terminal>>
vars == <<control, phase, token, cursor, sealed, action, claims, journal, ending>>
-----------------------------------------------------------------------------
(* Rows *)

ActionRow == [state: {"prepared", "sending", "uncertain", "result_recorded"},
              fence: 0..MaxFence, sent: 0..MaxFence, leased: BOOLEAN, token: Nat,
              answer: {"none", "text", "tools"}, indexed: BOOLEAN]

Repairs == {"needs_findings_repair", "needs_coverage_repair"}
Terminals == {"validated", "blocked"}

Verdicts == Repairs \cup Terminals \cup {"needs_tools"}
ReductionRow == [state: Verdicts, inputs: SUBSET Actions]

ObservationRow == [parent: Actions, token: Nat, owner: Nat]

Claim == [action: Actions, fence: 1..MaxFence, token: Nat]

ASSUME RowAssumption == NONE \notin ActionRow \cup ReductionRow \cup ObservationRow

Exists(x) == action[x] # NONE
In(x, s) == Exists(x) /\ action[x].state = s
Group(g) == {x \in Actions : x[1] = g /\ Exists(x)}
Existing == {x \in Actions : Exists(x)}
Reduced(g) == reduction[g] # NONE
Prepared == [state |-> "prepared", fence |-> 0, sent |-> 0, leased |-> FALSE,
             token |-> 0, answer |-> "none", indexed |-> FALSE]
-----------------------------------------------------------------------------
(* Proofs of evidence *)

\* The lease of an input records the fence and the epoch that sent it.
SentAtFence(x) == action[x].fence > 0 /\ action[x].sent = action[x].fence

\* Inputs of the sealed plan may have been sent before the first takeover.
Origin(g) == IF sealed /\ g = 0 THEN {0} ELSE {}

EpochOf(g) ==
  \A x \in reduction[g].inputs : SentAtFence(x) /\ action[x].token \in {token} \cup Origin(g)

\* The cursor is one of the inputs of g, or the job is unconfined.
HoldsConfined(g) == cursor \in reduction[g].inputs
Holds(g) == cursor = NONE \/ cursor \in reduction[g].inputs

\* checkModelLineageTx: the ancestry of g accounts for every action of the
\* job but the prepared child under consideration.
LineageOfAnswers(g, child) ==
  /\ \A k \in 0..g : Reduced(k) /\ \A x \in reduction[k].inputs :
                        In(x, "result_recorded") /\ SentAtFence(x)
  /\ \A x \in Existing : \/ x \in child \cup UNION {reduction[k].inputs : k \in 0..g}
                          \/ In(x, "uncertain")
Lineage(g, child) ==
  /\ \A k \in 0..g : Reduced(k) /\ \A x \in reduction[k].inputs :
                        In(x, "result_recorded") /\ SentAtFence(x)
  /\ Existing \subseteq child \cup UNION {reduction[k].inputs : k \in 0..g}

Active == result = "running" /\ ~lapsed /\ allowed
Started == Active /\ phase = "effect_started"

\* guardModelBatchTx and confinedContinuationTx: beside the initial actions,
\* only the child at the cursor may be dispatched, and a tool child only
\* while its observation is the job's.
Observed(x) == reduction[x[1] - 1].state = "needs_tools" => observed = x[1] - 1

Confined(x) ==
  x[1] > 0 => /\ cursor = x /\ phase = "effect_started" /\ Observed(x)
              /\ Lineage(x[1] - 1, {x})

\* guardJobDispatch and lockAttemptAuthority for a holder of token t.
MayDispatch(x, t) ==
  /\ t = token /\ Active /\ phase # "finished" /\ cursor \in {NONE, x}
  /\ Confined(x) /\ current
-----------------------------------------------------------------------------
Init ==
  /\ batched \in BOOLEAN /\ (batched => Width > 1)
  /\ frame = TRUE /\ lapsed = FALSE /\ allowed = TRUE /\ current = TRUE
  /\ phase = "admitted" /\ result = "running"
  /\ token = 0 /\ cursor = NONE /\ sealed = FALSE
  /\ action = [x \in Actions |-> NONE]
  /\ claims = {}
  /\ reduction = [g \in Groups |-> NONE]
  /\ observation = [g \in Groups |-> NONE]
  /\ observed = NONE /\ terminal = NONE

(* The environment *)

Lapse ==
  /\ ~lapsed /\ lapsed' = TRUE
  /\ UNCHANGED <<batched, frame, allowed, current, phase, token, cursor, sealed, action, claims, journal, ending>>

\* A newer revision of the change was admitted, or the attempt was closed.
Supersede ==
  /\ current /\ current' = FALSE
  /\ UNCHANGED <<batched, frame, allowed, lapsed, phase, token, cursor, sealed, action, claims, journal, ending>>

\* The operator's cancellation revokes every further dispatch.
Cancel ==
  /\ allowed /\ phase # "finished" /\ allowed' = FALSE
  /\ UNCHANGED <<batched, frame, lapsed, current, phase, token, cursor, sealed, action, claims, journal, ending>>

FrameDies ==
  /\ frame /\ frame' = FALSE
  /\ UNCHANGED <<batched, lapsed, allowed, current, phase, token, cursor, sealed, action, claims, journal, ending>>

\* The claim of a prepared action runs out; the last one of MaxFence does not.
LeaseEnds(x) ==
  /\ In(x, "prepared") /\ action[x].leased /\ action[x].fence < MaxFence
  /\ action' = [action EXCEPT ![x].leased = FALSE]
  /\ UNCHANGED <<control, phase, token, cursor, sealed, claims, journal, ending>>
-----------------------------------------------------------------------------
(* The live frame *)

\* PrepareModelBatch: the whole plan and its seal, before any effect; the
\* frame then returns ErrDurableContinuation and may not finish the job.
PrepareModelBatch ==
  /\ frame /\ batched /\ token = 0 /\ Active /\ current
  /\ phase = "admitted" /\ cursor = NONE /\ Existing = {}
  /\ action' = [x \in Actions |-> IF x \in Initial THEN Prepared ELSE NONE]
  /\ sealed' = TRUE /\ frame' = FALSE
  /\ UNCHANGED <<batched, lapsed, allowed, current, phase, token, cursor, claims, journal, ending>>

\* With one batch, the frame prepares a route when the former one failed.
PrepareAction(x) ==
  /\ frame /\ ~batched /\ x \in Initial /\ ~Exists(x)
  /\ \A n \in 1..(x[2] - 1) : In(<<0, n>>, "uncertain")
  /\ MayDispatch(x, 0)
  /\ action' = [action EXCEPT ![x] = Prepared]
  /\ UNCHANGED <<control, phase, token, cursor, sealed, claims, journal, ending>>

\* FinishInbox: a frame that returns before preparing anything ends its run.
FinishInbox ==
  /\ frame /\ token = 0 /\ Active /\ phase = "admitted" /\ cursor = NONE
  /\ ~sealed /\ Existing = {}
  /\ phase' = "finished" /\ allowed' = FALSE /\ frame' = FALSE
  /\ result' \in {"completed", "failed"}
  /\ UNCHANGED <<batched, lapsed, current, token, cursor, sealed, action, claims, journal, terminal>>
-----------------------------------------------------------------------------
(* Claims and sending *)

Lease(x, t) ==
  /\ action' = [action EXCEPT ![x].fence = @ + 1, ![x].leased = TRUE, ![x].token = t]
  /\ claims' = claims \cup {[action |-> x, fence |-> action[x].fence + 1, token |-> t]}

ClaimPrepared(x) ==
  /\ frame /\ In(x, "prepared") /\ action[x].fence = 0
  /\ MayDispatch(x, 0)
  /\ Lease(x, 0)
  /\ UNCHANGED <<control, phase, token, cursor, sealed, journal, ending>>

Unleased(x) == ~action[x].leased /\ action[x].fence < MaxFence

\* reclaimBatchCursorTx: the first unfinished slot of the sealed plan, when
\* every other slot is answered in a known epoch or merely prepared.
FirstUnfinished(x) ==
  /\ In(x, "prepared") /\ \A y \in Initial : y[2] < x[2] => ~In(y, "prepared")

CursorInPlanFixed(x) == cursor \in {NONE, x} /\ (cursor = NONE <=> token = 0)
CursorInPlan(x) == cursor \in Initial \cup {NONE} /\ (cursor = NONE <=> token = 0)

SlotsAtRestButSending ==
  \A y \in Initial : In(y, "prepared") => ~action[y].leased
SlotsAtRest ==
  \A y \in Initial : \/ In(y, "prepared") /\ ~action[y].leased
                    \/ /\ In(y, "result_recorded") /\ SentAtFence(y)
                       /\ action[y].token \in {0, token}

ReclaimSlot(x) ==
  /\ sealed /\ x \in Initial /\ FirstUnfinished(x) /\ Unleased(x)
  /\ Active /\ phase # "finished" /\ current
  /\ CursorInPlan(x) /\ Existing = Initial /\ SlotsAtRest
  /\ token' = IF cursor = NONE THEN token + 1 ELSE token
  /\ cursor' = x
  /\ Lease(x, token')
  /\ UNCHANGED <<control, phase, sealed, journal, ending>>

\* Outside a sealed plan: before any effect, or the linked child at the
\* cursor.  The job's epoch and cursor move to the action.
ReclaimPrepared(x) ==
  /\ ~(sealed /\ x \in Initial) /\ In(x, "prepared") /\ Unleased(x)
  /\ MayDispatch(x, token)
  /\ \/ phase = "admitted"
     \/ phase = "effect_started" /\ x[1] > 0 /\ cursor = x
  /\ (\E y \in Existing : ~In(y, "prepared")) => x[1] > 0
  /\ token' = token + 1 /\ cursor' = x
  /\ Lease(x, token')
  /\ UNCHANGED <<control, phase, sealed, journal, ending>>

\* BeginPrepared: the durable sending marker, before the provider is called.
BeginPrepared(c) ==
  /\ MayDispatch(c.action, c.token)
  /\ In(c.action, "prepared") /\ action[c.action].leased
  /\ action[c.action].fence = c.fence /\ action[c.action].token = c.token
  /\ action' = [action EXCEPT ![c.action].state = "sending", ![c.action].sent = c.fence]
  /\ claims' = claims \ {c}
  /\ phase' = "effect_started"
  /\ UNCHANGED <<control, token, cursor, sealed, journal, ending>>

\* RecordOutcome: the sender stores the response, or that none arrived.
RecordResponse(x, a) ==
  /\ In(x, "sending")
  /\ action' = [action EXCEPT ![x].state = "result_recorded", ![x].answer = a]
  /\ UNCHANGED <<control, phase, token, cursor, sealed, claims, journal, ending>>

RecordUncertain(x) ==
  /\ In(x, "sending")
  /\ action' = [action EXCEPT ![x].state = "uncertain"]
  /\ UNCHANGED <<control, phase, token, cursor, sealed, claims, journal, ending>>
-----------------------------------------------------------------------------
(* Reduction *)

RecoverActionResults ==
  /\ \E x \in Actions : In(x, "result_recorded") /\ ~action[x].indexed
  /\ action' = [x \in Actions |-> IF In(x, "result_recorded")
                                  THEN [action[x] EXCEPT !.indexed = TRUE] ELSE action[x]]
  /\ UNCHANGED <<control, phase, token, cursor, sealed, claims, journal, ending>>

Kind(g) == IF g = 0 THEN "review_batches"
           ELSE CASE reduction[g - 1].state = "needs_tools" -> "tool_round"
                  [] reduction[g - 1].state = "needs_findings_repair" -> "repair_findings"
                  [] OTHER -> "repair_coverage"

Indexed(g) == {x \in Group(g) : action[x].indexed}
Wanted(g) == IF g = 0 /\ batched THEN Width ELSE 1

\* ModelReducerV1: the states the responses of a group may reduce to.  Tool
\* requests are read in review answers only; a findings repair that asks for
\* tools is an error of the reducer, on every retry.
Outcomes(g) ==
  LET tools == \E x \in Indexed(g) : action[x].answer = "tools"
      open == Kind(g) \in {"review_batches", "tool_round"}
  IN  IF tools /\ open THEN IF g + 1 > Rounds THEN {"blocked"} ELSE {"needs_tools"}
      ELSE IF tools /\ Kind(g) = "repair_findings" THEN {}
      ELSE Terminals \cup (IF open THEN {"needs_findings_repair"} ELSE {})
                     \cup (IF Kind(g) = "repair_coverage" THEN {} ELSE {"needs_coverage_repair"})

\* RecoverModelReductions: one immutable artifact of a complete group.
RecoverModelReductions(g, s) ==
  /\ ~Reduced(g) /\ Cardinality(Indexed(g)) = Wanted(g) /\ s \in Outcomes(g)
  /\ reduction' = [reduction EXCEPT ![g] = [state |-> s, inputs |-> Indexed(g)]]
  /\ UNCHANGED <<control, phase, token, cursor, sealed, action, claims, observation, observed, ending>>
-----------------------------------------------------------------------------
(* Continuation *)

\* CommitModelToolObservations: the snapshot is rendered and charged, and
\* the epoch that asked for it is revoked.
MayObserve(g, x) ==
  /\ Reduced(g) /\ reduction[g].state = "needs_tools" /\ observation[g] = NONE
  /\ Started /\ current
  /\ Lineage(g, {})
  /\ observed # NONE => observed = g - 1 /\ cursor \in reduction[g].inputs
  /\ cursor = NONE /\ Origin(g) # {} => token = 0
  /\ x \in reduction[g].inputs /\ cursor \in {NONE, x}
  /\ cursor = NONE => x = <<g, 1>>
  /\ action[x].token = token /\ EpochOf(g)
  /\ MayDispatch(x, token)

CommitModelToolObservations(g, x) ==
  /\ MayObserve(g, x)
  /\ observation' = [observation EXCEPT ![g] = [parent |-> x, token |-> token, owner |-> token + 1]]
  /\ observed' = g /\ token' = token + 1 /\ cursor' = x
  /\ UNCHANGED <<control, phase, sealed, action, claims, reduction, ending>>

\* The single child, its reservation, the new epoch and cursor, at once.
PrepareChild(g) ==
  /\ ~Exists(Child(g))
  /\ action' = [action EXCEPT ![Child(g)] = Prepared]
  /\ token' = token + 1 /\ cursor' = Child(g)
  /\ UNCHANGED <<control, phase, sealed, claims, journal, ending>>

AdvanceModelToolContinuation(g) ==
  /\ Started /\ current
  /\ observation[g] # NONE /\ observed = g
  /\ token = observation[g].owner /\ cursor = observation[g].parent
  /\ Lineage(g, {})
  /\ PrepareChild(g)

AdvanceModelContinuation(g) ==
  /\ Started /\ current
  /\ Reduced(g) /\ reduction[g].state \in Repairs
  /\ Lineage(g, {})
  /\ \E x \in reduction[g].inputs : SentAtFence(x) /\ action[x].token = token
  /\ Holds(g)
  /\ PrepareChild(g)

\* CompleteModelJob: the terminal reduction at the cursor closes the job.
StoredEnd(g) == IF reduction[g].state = "validated" THEN "completed" ELSE "failed"

CompleteModelJob(g) ==
  /\ Reduced(g) /\ reduction[g].state \in Terminals /\ terminal = NONE
  /\ Started /\ current
  /\ Lineage(g, {})
  /\ Origin(g) # {} => IF cursor = NONE THEN token = 0
                       ELSE cursor \in reduction[g].inputs /\ action[cursor].token = token
  /\ EpochOf(g) /\ Holds(g)
  /\ cursor = NONE => Existing \subseteq reduction[g].inputs
  /\ terminal' = g /\ phase' = "finished" /\ allowed' = FALSE
  /\ result' = StoredEnd(g)
  /\ UNCHANGED <<batched, frame, lapsed, current, token, cursor, sealed, action, claims, journal>>
-----------------------------------------------------------------------------
Poll ==
  \/ \E x \in Actions : ReclaimSlot(x) \/ ReclaimPrepared(x)
  \/ RecoverActionResults
  \/ \E g \in Groups : \/ \E s \in Verdicts : RecoverModelReductions(g, s)
                       \/ \E x \in Actions : CommitModelToolObservations(g, x)
                       \/ AdvanceModelToolContinuation(g)
                       \/ AdvanceModelContinuation(g)
                       \/ CompleteModelJob(g)

Send ==
  \/ \E c \in claims : BeginPrepared(c)
  \/ \E x \in Actions : RecordUncertain(x) \/ \E a \in {"text", "tools"} : RecordResponse(x, a)

Live ==
  \/ PrepareModelBatch \/ FinishInbox
  \/ \E x \in Actions : PrepareAction(x) \/ ClaimPrepared(x)

Environment ==
  \/ Lapse \/ Supersede \/ Cancel \/ FrameDies
  \/ \E x \in Actions : LeaseEnds(x)

Next == Poll \/ Send \/ Live \/ Environment

Spec == Init /\ [][Next]_vars

\* Some worker keeps polling and its transactions end, the holder of an
\* action's last claim begins and a sender records an outcome, and leases
\* expire.  Nothing is assumed of the frame, nor of revocations.
Fairness ==
  /\ WF_vars(Poll) /\ WF_vars(Send)
  /\ WF_vars(\E x \in Actions : LeaseEnds(x))

FairSpec == Spec /\ Fairness
-----------------------------------------------------------------------------
(* Properties *)

TypeOK ==
  /\ {batched, frame, lapsed, allowed, current, sealed} \subseteq BOOLEAN
  /\ phase \in {"admitted", "effect_started", "finished"}
  /\ result \in {"running", "completed", "failed"}
  /\ token \in Nat /\ cursor \in Actions \cup {NONE}
  /\ action \in [Actions -> ActionRow \cup {NONE}]
  /\ claims \subseteq Claim
  /\ reduction \in [Groups -> ReductionRow \cup {NONE}]
  /\ observation \in [Groups -> ObservationRow \cup {NONE}]
  /\ observed \in Groups \cup {NONE} /\ terminal \in Groups \cup {NONE}

\* A job is one conversation: a question at a time, none twice, the next ones
\* only after every answer, closed only on complete answers.  It combines the
\* seal, the fences, the cursor, the lineage checks and the completion.
D == INSTANCE Dialogue WITH
       Questions <- Actions,
       planned <- Existing,
       asked <- {x \in Actions : Exists(x) /\ ~In(x, "prepared")},
       answered <- {x \in Actions : In(x, "result_recorded")},
       lost <- {x \in Actions : In(x, "uncertain")},
       closed <- phase = "finished"
ImplementsDialogue == D!Spec

Revoked == lapsed \/ ~allowed \/ ~current

\* Provider effects nobody can resolve without an operator.
Ambiguous ==
  \/ \E x \in Actions : In(x, "uncertain")
  \/ \E g \in Groups : ~Reduced(g) /\ Cardinality(Indexed(g)) = Wanted(g) /\ Outcomes(g) = {}

\* A job whose plan was prepared is carried to its end by the pollers, who-
\* ever dies, unless it is revoked or an effect becomes ambiguous.
PlannedJobsEnd == Existing # {} ~> phase = "finished" \/ Revoked \/ Ambiguous
=============================================================================
