# 7review in TLA+

7review is a Go service that reviews changes of a code host with language
models. Webhooks, chat commands and operators ask for reviews; workers run
them; people approve what they wrote, or a CI job judges it. There are two ways to run it. With a PostgreSQL authority, `src/agent/accounting`, every call
of a model provider is paid for from a budget that an operator caps, and the
authority decides which request becomes a run, which attempt at a change is
current, which worker may call a provider and what every scope of the budget is
charged, when processes die, webhooks are redelivered and providers answer late.
Without it, a volatile queue and a file per run are all there is, and people
approve drafts by chat or HTTP. Both ways share the pipeline that turns a change
into findings. The project models all three: the authority, the service without
it, and the pipeline.

Contents: [the system](#the-system) · [the modules](#the-modules) ·
[the runs](#the-runs) · [the proofs](#the-proofs) ·
[disagreements](#disagreements-between-code-and-documentation) ·
[what is left out](#what-is-left-out) · [the plan](#the-plan)

## The system

Line counts are of Go without tests; paths are below `src/agent` unless they
say otherwise.

| Part | Where | State it keeps | Operations |
|---|---|---|---|
| budget ledger | `accounting/postgres.go`, `leases.go`, `settlement.go`, `bounds.go`, `route.go` | attempts, scopes, actions, holds, leases, receipts, quarantine | RegisterAttempt, CloseAttempt, ReserveAndBegin, PrepareAction, ClaimPrepared, ReclaimPrepared, BeginPrepared, RecordOutcome, SettleFinal |
| service control plane | `accounting/intake.go`, `inbox.go`, `jobs.go`, `aggregate.go`, `cancellation.go`, `unused_release.go`, `model_completion.go` | heads, intakes, inbox rows, jobs | ObserveGeneration, AcceptAggregate, ReplayAggregate, ClaimInbox, FinishInbox, CancelAttempt, ReleaseUnusedPrepared, CompleteModelJob |
| batches and continuations | `accounting/model_*.go`, `recovery.go` | plans, checkpoints, reductions, results, tool observations | seal, recover, reduce, continue |
| publication outbox | `accounting/publication_*.go` | authorizations, operations, attempts at delivery | Authorize, Materialize, Claim, Begin, Complete, RecoverUncertain, Reconcile, Defer |
| operator | `accounting/operator*.go`, `finding_disposition.go` | dispositions of findings | reads, disposition commands |
| orchestrator (1.7 K) | `orchestrator/` | dispatch frames in memory | dispatch, recovery of prepared actions, provider fallback |
| application (4.0 K) | `app/` | worker pools, the volatile queue, marks of reviewed changes, claimed deliveries | webhook, channel and API handlers, workers, inbox workers |
| pipeline (8.0 K) | `pipeline/` | a file per run, the review at hand | PrepareService, RunAccepted, review stages, decisions on drafts, reducers |
| review types (3.6 K) | `review/` | – | identities, canonical digests, SCM attestation |
| policy (2.1 K) | `policy/` | – | resolution of rules and limits, gates |
| tools (3.3 K), providers (0.9 K), channels (1.1 K) | `tools/`, `llm/`, `channel/` | processes, connections | I/O |
| CI mode, configuration, profiles, skills, UI | `ci/`, `config/`, `profile/`, `skills/`, `ui/` | files | parsing, loading, rendering |
| command line (4.7 K) | `src/cmd/7review` | – | client of the service |

How a review goes through the parts:

1. A handler of `app` receives a webhook. `ReplayAggregate` answers a delivery
   that is known. Otherwise the handler reads the *generation* of the change's
   head, lets `pipeline.PrepareService` acquire a snapshot from the code host
   (outside any transaction) and calls `AcceptAggregate`, which in one
   transaction writes an inbox row, a job and either a new attempt – the
   successor of the current one – or a duplicate's link to it.
2. Inbox workers of every process poll: release unused reservations, recover
   prepared actions and stored results, maintain publications, then `ClaimInbox`.
   A claim is a token for one run until its deadline.
3. The pipeline's orchestrator asks the ledger before every provider call:
   `PrepareAction` (a reservation at the upper bound that the route quotes, in
   an attempt, a change and a project scope), `ClaimPrepared` (a fenced lease),
   `BeginPrepared` (the sending marker), the call, `RecordOutcome`.
4. Another worker may take over a prepared action whose lease has ended. It
   rotates the run's claim token and confines the run to that action.
5. Usage receipts settle actions at their actual usage, or are quarantined.
   Usage beyond the bound is an *incident*, which freezes its scopes.
6. In a review, the pipeline compiles the policy that the repository keeps at
   the base of the change, chooses skills and documents, asks the model batch by
   batch, lets it look at the snapshot, reads its answers, repairs what cannot be
   read, and sorts the findings before anything is published.
7. Without the authority, handlers put reviews and decisions into a queue; the
   worker that takes a decision reads the run's file, decides, writes it, and
   publishes by listing and writing comments.
8. A run of the authority ends by `FinishInbox` (nothing was ever reserved), `CompleteModelJob`
   (everything sent was answered and reduced), its deadline (`expired`,
   `uncertain`), a cancellation, or the release of its unsent reservations after
   a newer attempt superseded it.

What is hard here: nothing is retried blindly, so every lost answer must leave
a state that is safe both for the worker that lost it and for the one that
takes over; three kinds of authority (job token, lease fence, current attempt)
are checked together in different transactions; budgets renew in periods while
reservations stay open across them; and operators, webhooks and deadlines may
stop a run at any step. Without the authority, nothing is transactional: two
pieces of work on one change interleave between the reads and writes of a file
and of the host's comments, and each of five steps of an approval may fail or be
cut off. In the pipeline it is the long case analysis that is hard: twenty exits
of a review, five forms of an answer, packs that inherit and delegate.
`PROJECT.json` lists each hazard at its line with the
properties that cover it.

What makes each part correct:

- *ledger*: ceilings hold in every scope and period; unknown usage stays
  charged; at most one provider call per action; incidents freeze and are not
  forgotten; receipts are spent once.
- *control plane*: one run per delivery; one line of attempts per change that
  never goes back to an older revision; one job claim sends; stopped attempts
  start nothing; ends are final, reached, and never reported over open actions.
- *batches*: a result is reduced once, a plan is never stranded or applied to a
  changed artifact.
- *publication*: only the current, authorized assessment is published, at most
  once unless an uncertain delivery is reconciled.
- *volatile service*: only what a person approved or typed becomes final; no run
  is left running with nobody at work; one comment of each kind on a change that
  is not worked on twice at a time; a finalized run is delivered; marks are cleared.
- *policy*: a repository can only narrow what the operator allows, and no pack
  takes back an obligation it was not delegated.
- *pipeline*: a review of which a batch is missing is not drafted; a finding has
  authority in what the model was given to read; a comment stands on an added
  line; a verdict of `pass` is earned; every review ends.
- *worker pools*: one run's waits do not keep others from their claims; whatever
  can go on stays in the list that its scan reads; what is completed is final.

## The modules

| Module | What it is |
|---|---|
| `Totals` | sums over finite sets as cardinalities |
| `SpendingCap` | what the ledger promises its operator |
| `BudgetLedger` | the ledger, seen through the operations that need no durable job |
| `MCBudgetLedger`, `ledger.cfg`, `leases.cfg` | its instances for TLC |
| `BudgetLedgerProofs` | what the provers need to know of sums; types, sending, ceilings, charges, incidents, the refinement of the cap |
| `ReviewControl` | requests, runs, attempts, job claims and endings |
| `MCReviewControl`, `dispatch.cfg`, `ending.cfg` | its instances for TLC |
| `ReviewControlProofs` | types of rows, order of runs, ends, stopped attempts, the line of attempts, deliveries, revisions |
| `Dialogue` | what a durable job promises: one conversation, a question at a time |
| `ModelJob` | one job from its sealed plan or live frame to its terminal result |
| `MCModelJob`, `jobs.cfg` | its instance for TLC |
| `ModelJobProofs` | types of its rows, its refinement of the dialogue |
| `WorkerPoll` | the stages of the inbox workers' poll, over several jobs |
| `MCWorkerPoll`, `waits.cfg`, `partial.cfg` | its instances for TLC |
| `WorkerPollProofs` | what its scans and counters keep, for any number of workers |
| `PublicationPromise` | what the outbox promises an operator who authorizes a publication |
| `PublicationOutbox` | from the authorization of a publication to its comment at the code host |
| `MCPublicationOutbox`, `outbox.cfg` | its instance for TLC |
| `PublicationProofs` | its safety and its refinement of the promise |
| `ReviewDesk` | the service without an authority: intake, queue, workers, decisions, comments, files |
| `MCReviewDesk`, `desk.cfg` | its instance for TLC |
| `ReviewDeskProofs` | its types and its five safety properties |
| `RepositoryPolicy` | the policy of a repository, compiled for a change |
| `DiffPositions` | the lines of a patch a comment may go to |
| `FindingTriage` | what becomes of each finding |
| `ModelAnswers` | what is read in a model's answers |
| `QualityGate` | the verdict of a CI run |
| `CorpusSelection` | what a review is given to read of the repository's documents |
| `SkillSelection` | the skills a change activates |
| `ReviewPipeline` | one review, from the request to its draft or verdict, over the six modules above |
| `MCReviewPipeline`, `review.cfg`, `lastline.cfg`, `plans.cfg` | its scenarios and instances for TLC |
| `ReviewPartsProofs` | facts about policies, answers, changed lines, findings, the gate and the selection of documents |
| `ReviewPipelineProofs` | types of a review and its safety properties |

### BudgetLedger

Each operation of `Authority` is one transaction that takes row locks before it
reads what it decides on, so each is one action. A refused operation rolls back
and is a stuttering step. The operations that commit *and* answer with an error
are actions: a quarantined receipt, an incident. The caller's loss of an answer
is in `Grant`: a committed reservation or sending marker may or may not leave a
frame in the caller's process, and `LoseFrame` is the process dying later.

| Variable | Code |
|---|---|
| `now` | `clock_timestamp()`, read again after the locks (postgres.go:774) |
| `attempt` | `budget_attempts`: absent, active, closed |
| `action` | `budget_actions` and its three `budget_holds`: state, period of each hold, outcome, final receipt, incident |
| `lease` | `budget_action_leases`: fence, worker, end, sending fence |
| `claims` | the `ActionClaim`s handed to workers; they stay valid values for ever and may be presented late |
| `frames`, `sends` | `invokeReserved` between permit and outcome, and a history of provider calls |
| `receipts`, `quarantine` | their tables |

`Capacity` is `checkCapacity` over the three scopes of an attempt: what counts
is every unsettled hold of any period and the settled usage of the current one,
and an incident anywhere in the scope refuses. The code adds in 64-bit integers
with a check that cannot overflow (`additional > cap-current`), so integers are
unbounded here. A policy's limits may be narrower than the operator's ceilings
(`Bound`), never wider. `Qualified` is the quote's validity: the deadline, the
route's window, and a period that has begun. The request, its digest, its model
and its price are the identity of the action with its bound `Upper`. A
`PreparedAction` descriptor with another fence than the stored lease is refused
by the code and is not a parameter here: such a call is a stuttering step.

`SpendingCap` is the abstract specification: scopes owe charges, work is
admitted only within the cap, a charge otherwise falls, and the only way past a
cap – usage that was larger than promised – freezes its scopes for good.
`ImplementsSpendingCap` is that specification under the mapping
`charge = Charge`, `frozen = Incident`.

### ReviewControl

| Variable | Code |
|---|---|
| `scm` | the head revision that the code host reports |
| `intake` | a handler between `ReplayAggregate` and `AcceptAggregate`: the generation it read, the snapshot it acquired |
| `job` | `budget_inbox` and `budget_jobs`: request, attempt, state, phase, `dispatch_allowed`, claim token (0 for none, then one more with each rotation), cancellation, `recovery_action_id` |
| `attempt` | `budget_attempts`: change, snapshot, generation, active, successor |
| `head` | `budget_heads`: generation and current attempt |
| `action` | `budget_actions` with lease: run, attempt, fence, token under which it was claimed, whether its lease is live, state |
| `lapsed` | runs whose `deadline` is not after the clock any more |
| `threads`, `claims` | pipeline executions with their job claims, and the `ActionClaim`s of workers |
| `early` | `budget_quarantine`: the actions with a receipt that came before their sending marker |

Attempts are named by the run that created them, and runs are numbered in the
order of their acceptance. A cancelled or superseded run has the state that
`LookupInbox` reports. `ExpireInbox` is the first statement of `ClaimInbox`,
which the worker runs even when there is nothing to claim; `ClaimInbox` includes
it. `ReleaseUnused` for a superseded run also ends the run, as the code does.
Actions are numbered in the order of their reservation, and a request is received
only while a run is left for it.

A receipt may come before the sending marker, even before the action exists
(`QuarantineReceipt`). From then on the release of that action is refused with an
integrity error (`unused_release.go:242-257`), and nothing ever takes the receipt
away. The scan of maintenance goes by run, the one whose job changed longest ago first, and
within a run by the order of reservation; it ends at the first refusal (lines
108-116), and the poll of every worker with it (`app/inbox.go:114-123`).
`Unused` is what the scan finds, `Blocked` that it meets such an action, and
`Obstructed(x)` that it may meet one before it comes to x. The properties of the
ends are stated outside these two; the [disagreements](#disagreements-between-code-and-documentation)
say what happens inside.

Budgets may refuse a reservation at any moment; since nothing forces a dispatch,
leaving them out adds behaviours and removes none.

A job's actions are single model actions: batches, continuations and tool
children of a first result are in `ModelJob`, so here `CompleteModelJob` sees all actions
of the run in one reduction and `ReclaimPrepared` is refused once anything was
sent. The compare-and-swap of operator commands on `control_version` is not
kept: every step that advances it also leaves the attempt uncancellable.

### ModelJob

One run, and the actions of its job in *groups*: group 0 is the plan, group
g + 1 the one continuation of the reduction of group g, and `<<g, n>>` the n-th
action of a group.

| Variable | Code |
|---|---|
| `batched` | whether the run has several diff batches |
| `frame` | whether the pipeline execution of the run is alive |
| `lapsed`, `allowed`, `current` | deadline, `budget_jobs.dispatch_allowed`, the attempt active and its head's |
| `phase`, `result`, `token`, `cursor`, `sealed` | `budget_jobs.phase`, `budget_inbox.state`, `claim_token` (rotations), `recovery_action_id`, `model_batch_id` |
| `action`, `claims` | `budget_actions` with lease and indexed result; `ActionClaim`s not yet used |
| `reduction`, `observation`, `observed`, `terminal` | the tables of reductions and tool observations, `tool_observation_id`, `terminal_reduction_id` |

A run with several batches seals all of them in one transaction, and the frame
leaves; with one batch the frame itself calls the provider, over the next route
when an answer was lost. `Width` is the number of batches of the one kind of run
and of routes of the other. After that everything is done by pollers.
The checks they share are operators: `MayDispatch` is `guardJobDispatch` with
`guardModelBatchTx` and `confinedContinuationTx`, `Lineage` is
`checkModelLineageTx` (the ancestry accounts for *every* action of the job),
`EpochOf` the comparison of an input's claim token with the job's. What a
response says is abstracted to whether it asks for tools; `Outcomes` is the set
of states `ModelReducerV1` may then reduce to, with the limit of tool rounds.

`Dialogue` is the abstract specification: a further question is planned only
when everything planned was answered (or, as an alternative, lost), is asked when no other is
open, is never asked twice, and nothing happens after the end.

### WorkerPoll

Every worker of the service passes through the same stages before it may claim a
pending run, and an error of any stage sends it back to the first one
(`app/inbox.go:112-157`). This module is about that order and about which job a
scan takes, so a job is a few counters: prepared, recorded and indexed actions
of its present group, whether one was lost, and what the reduction says.

| Variable | Code |
|---|---|
| `inbox`, `lapsed` | `budget_inbox.state`, `deadline` |
| `accepted`, `schedule`, `artifacts` | the orders of three scans: `budget_inbox.created_at`, `budget_jobs.updated_at`, `budget_model_reductions.created_at` |
| `job` | the actions, results and reduction of the job's present group |
| `pc`, `todo`, `failed`, `held`, `frame` | a worker: its stage, what its scan has left, whether an action failed, the job row it has locked, the run it executes |

Which runs the budget refuses, which calls are lost and whose formatter asks for
tools are constants (`NoClaim`, `NoTools`, `NoRepair`, `Lossy`, `Unruly`), since
the question is what their waiting does to *other* runs. A refused budget stays
refused, the worst case for the others. `Limit` is the number of candidates that
a scan takes: 8 in the code and in the run that is violated, 1 in the run that
passes, which lets one candidate fill a scan. The release of unused reservations and
the publications, stages before and behind these, are taken to succeed; where the
former does not is `Blocked` of `ReviewControl`.

Three errors come back at every poll: a group that the reducer refuses
(`Irreducible`), a reduction that asks for more in a run that lost a call
(`Unadvanceable`), and a formatter's child that the budget refuses (`Unaffordable`).
`Stopped` is that one of them stands. A worker whose own frame waits behind an
incomplete group with a smaller run id is `Hidden`: it goes nowhere until the
deadline. The liveness properties except exactly these, each only those that come
before the stage it is about. `waits` reaches the three errors; its run of two
batches has the greatest id, so nothing is `Hidden` there, and what is hidden is the
question of `partial`.

### PublicationOutbox

| Variable | Code |
|---|---|
| `head`, `finished` | `budget_heads.current_attempt_id` of one change; attempts with a completed inbox row, a finished job and a sealed assessment |
| `version`, `pointer` | `budget_jobs.control_version`, `publication_authorization_id` |
| `order` | an `authorize_publication` command: the attempt, the `expected_version` it was composed from, and whether it was granted |
| `op` | `budget_publication_operations`: state, fence, whether its lease is live, whether `reconcile_after` has passed |
| `claims`, `lookups` | `PublicationClaim`s and `PublicationReconciliationClaim`s in the hands of workers, for ever |
| `beginning` | transactions of `BeginPublication` between verification and commit |
| `calls` | `PublishAuthorized` calls: permitted, listed, answered |
| `comments` | the service's comments at the host, by the command whose body each one has |
| `written` | history: how often a body was written |

Everything is one transaction and one action, with one exception.
`BeginPublication` locks the operation and takes the job `FOR SHARE`, reads that
the attempt is current, and commits. It does not lock the head, so a successor
attempt may commit in between: `BeginVerify` and `BeginCommit` are two actions,
with everything that takes neither lock in between (`OpLocked`, `JobShared`).
A call to the host is three steps, since a host may act long after the caller's
lease ended: it lists the comments, writes one, is answered. The service's first
comment with the marker of a final report is edited; a second one appears only
when two calls both listed none. A lookup answers only if at most one comment
has the exact body.

Payloads, destinations and digests are the number of the attempt; operators'
roles and integrity checks of rows are left out. A poll handles at most eight
operations of each kind: with fewer in the model the limit never binds. A worker
takes the oldest due operation, the model any.

`PublicationPromise` is the abstract specification: an authorization is asked,
may be withdrawn before it starts, is written at most once after it started,
and is confirmed only when it was written. `Status` is the refinement mapping.

What the model shows that one might not expect, and that no document excludes: a
call that listed the comments before a newer publication was written replaces
the newer body by its own; two calls that both listed none leave two comments;
and an uncertain operation whose comment was replaced by a newer one is looked
up, not found, and deferred for ever.

### ReviewDesk

| Variable | Code |
|---|---|
| `store` | `FileRunStore`: the file of each run, with its status, draft, final report, approval and findings |
| `thread` | the bot's comments on the change, oldest first |
| `memory` | the approved reports in the memory store |
| `queue` | the work channel, of a fixed capacity |
| `active`, `seen` | `activeRuns`, and the delivery identities that handlers claim |
| `proc` | a worker or handler: where it is, the item, the row it read (`rc`), the status it is on its way to, the place of the comment it writes |
| `gen`, `asked`, `faults` | reviews started, calls and faults so far |
| `approvals`, `broken`, `mixed` | history: reports approved or typed, runs on which a fault cut work short, runs worked on twice at a time |

Each action is what happens under one lock, between two writes of a file, or in
one call to the host. `enqueueReview` is four actions, because it asks whether
the run is marked, reads the store, claims the delivery and marks the run under
locks of its own; a decision reads the row (`get`), and what it then writes is
made of what it read (`rc`), whoever wrote the file in between. `SaveContext`
writes all of a row but its status, `UpdateStatus` the status alone, as in
`pipeline/support.go`. Publication lists the comments (`ListComments`), then
replaces the first that carries its marker or posts a new one (`WriteComment`);
both may fail, and a write may be done although its answer or the notification
behind it is lost. `DiskFails`, `Panic` and `Restart` are the faults: a failing
disk ends work where it stands, a panic runs the deferred calls but not the
error path, and a restart keeps what is in files, at the host and in memory's
store. What lies between the start of a review and its draft is one step here
(`ReviewChange`) and `ReviewPipeline` there.

What the model shows that one might not expect: two reviews of one change may
run at once, because the mark is set after it was looked at; an approval takes
the draft as it stands when the worker comes to it, not as the person saw it; a
suppression is lost when a revision writes the same file later; and two pieces
of work on one change may leave two comments of a kind. The properties say what
holds in spite of that, and `mixed` is where less holds.

### ReviewPipeline

One review is a walk through stages, each an action that ends in the next stage,
in a failure saved or unsaved, or in silence (a change the policy ignores). The
scenario `sc` – documents, change, skills, files, and the texts the model may
answer – is chosen in the initial state and never changes.

| Variable | Code |
|---|---|
| `pc` | the statement of `Pipeline.run`, `runReview` or `ci.Run` to be executed |
| `adm`, `acts` | `PolicyAdmission` and the activations of skills |
| `picked`, `evidence` | `selectCorpus`'s sections and the evidence manifest with the policy's rules |
| `slots`, `tried`, `called` | the batches of the diff with their answers, the failed providers of the call at hand, whether a call was made |
| `round`, `looked` | tool rounds and the observations |
| `result`, `repaired` | findings, coverage, requests and status that the answers came to |
| `bucket`, `inline` | what became of each finding, and of its comment |
| `run`, `verdict` | the run as listed and filed, and the gate's verdict |

Batches are asked one after the other with fallbacks from provider to provider,
or in parallel with one provider each; every call may fail, be refused by the
budget or meet its deadline (`CallEnds`). A CI run asks for its policy first and
ends in `JudgeChange`. The stages call pure operators, in modules of their own:

- `RepositoryPolicy!Evaluate` compiles `.7review` documents: packs that match are
  applied by priority, with what they inherit; a delegated one first takes back
  the fields it was delegated; a gate that names rules comes to name those of the
  applied packs too (`Widened`), one that names none judges by all; then capabilities, rules, triggers and the fit to
  the runtime. Globs are names, and a change is the set of globs it touches.
- `SkillSelection!Select` and `SelectActivations`: the skills a request, a
  provider and a profile activate without an enforced policy.
- `CorpusSelection!SelectionsOf`: documents are split at headings, scored against
  what the change says, followed along shared identifiers, routes and headings,
  and cut at two caps. The code iterates over Go maps, so ties come out
  differently from run to run; the operator gives the *set* of selections.
  Sections are told apart by `corpusSectionKey`, so `EvidenceIsRelevant` is about
  keys: of a document that repeats a heading, one section stands for both.
- `ModelAnswers!Read` and `FollowUp`: a text is the sequence of what decoding
  tries in it, so how an answer is read – whole, field by field, from a fenced
  block, from an empty list in prose – is in the model and its characters are not.
- `FindingTriage!Validate` and `DiffPositions`: strength, authority, quotation,
  location and doubles of findings; added lines of a patch, and the repair of
  findings that name no line.
- `QualityGate!EvaluateQualityGate`: obligations, imported reports and findings,
  by the gate of the compiled policy (`EffectiveGate`). The key of a finding is the
  id that the model wrote, and a finding without one is passed over (`MatchesGate`);
  its rule is a citation's rule, or a selected rule that a citation names by id.

What the model shows that no document excludes: a worded confidence always
clears the minimum of 0.45, whatever the word; prose that holds an empty list
counts as an answer without findings; the skills that a profile adds for a custom
provider or as always on are not *required*, since the category of a skill comes
from its name alone; and the profile option `ActivateTestQualityForCodeChanges`
is read by nothing.

## The runs

Deadlock is not checked in any of them: the number of runs, revisions, fences,
calls and clock ticks is bounded, and the system really stops when all requests
have ended and nobody asks for more; a review stops when it is done.

| Run | Instance | Distinct states | Shows |
|---|---|---|---|
| `ledger` | 2 attempts of 2 changes, 1 project, 2 actions, 3 instants, 4 receipts, 2 outcomes, unleased sends and prepared reservations | 69,281 | ceilings in each period and over open work, receipts, overruns, refinement of `SpendingCap` |
| `leases` | 1 attempt, 2 actions, 3 workers, 3 fences, 4 instants, an overrunning receipt | 218,902 | at most one call, incident freeze |
| `dispatch` | 1 change, 2 handlers, a delivery of the newer revision and an operator's requests without a revision, each repeated at will, 2 runs, 1 action, 2 fences, 2 revisions | @DISPATCH@ | types, one run per delivery, one line, no older revision, ends, stopped attempts |
| `ending` | 1 change, 1 handler, 2 deliveries, 2 runs, 2 actions, 1 fence, early receipts, under fairness | @ENDING@ | every run ends, unused reservations are released, except where a receipt stops the scan |
| `jobs` | 2 batches sealed, or 1 over 2 routes; 2 tool rounds, 2 fences, under fairness | 130,656 | one conversation, planned jobs end |
| `waits` | 1 worker, 3 runs, scans of one; run 1 is refused its tools and repairs, run 2 its claims and may lose a call, run 3 has two batches and a formatter that may ask for tools | @WAITS@ | whatever a run waits for, no other is kept from its claim, its calls and its continuation, unless one of the three named errors stops the polls again and again; nothing drops out of the lists; what is completed is final |
| `partial` | 1 worker, 2 runs | violation | the first disagreement below |
| `outbox` | 2 commands, 2 attempts, 2 fences, under fairness | 63,434 | refinement of `PublicationPromise`; operations start, end uncertain or delivered, stale ones leave |
| `desk` | 1 change, 1 finding, 1 delivery, 1 worker, 1 handler, a queue of 1, 3 calls, 1 fault, under fairness | 650,848 | approvals, unfinished runs, comments, deliveries, marks |
| `review` | some 890 scenarios, 2 providers, 2 tool rounds of at most 3 requests, under fairness | @REVIEW@ | obligations, calls, complete reviews, evidence, findings, comments, verdicts, ends |
| `lastline`, `plans` | one scenario each | violation | the second and third disagreement below |

Why the bounds are enough. In `ledger`, the project's ceiling admits one of the
two actions at a time and a third of a period's usage is freed by an early
receipt, so both refusals and re-admissions happen; attempts have lifetime
budgets, changes a period of two instants and the project one of one instant,
so a reservation stays open across a boundary in one scope and not in another;
and receipts free, overrun, mismatch and reuse an identity. In `leases`, three
fences allow a claim, a takeover and a takeover of that. In `dispatch`, two
handlers, a delivery that repeats and requests that repeat are a late acquisition
beside a redelivery, and an older revision beside a newer; two runs
are an original and a duplicate, or an original and its successor; how many
actions a run has matters to `jobs`, not here. In `ending`, two actions are one
that a receipt blocks and one before it, behind it, or of the other run; one
fence is enough, since a claim that dies leaves what a claim that never came does.
Handlers are interchangeable and form a symmetry set; `ending` is under fairness
and uses none.

In `jobs`, two slots are an answered and an open one, two routes the lost and the
answered one; two tool rounds are one that continues and one that is followed by
repairs or blocks, and two fences let every action be claimed, abandoned and
claimed again. In the runs of `WorkerPoll`, with scans of one candidate, one run
that waits and one behind it are the whole question; `waits` has a third so that
two of them wait for different reasons, and so that each of the three errors occurs
beside runs that wait, and is absent beside them. In `partial` the code's own limit makes
no difference, and the scans have it.

In `outbox`, two attempts and two commands make a second authorization of the
same attempt and the authorization of a successor; two fences are a claim that
dies and the claim that sends, or a claim and a lookup. More comments than
commands cannot exist. The proofs below hold for any number of fences.

In `desk`, three calls are a review, its approval and one more of any kind beside
or between them, by a queue or by a handler that works itself; one fault falls
at any step. A worker and a handler are what it takes for two to work on one
change, and a queue of one is full whenever something waits. The proofs below
hold for any number of each.

In `review`, what a scenario can hold is data; a scenario is there for each rule
of each algorithm and for the pairs that meet: each kind of finding with and
without a policy, each form of answer first, as a follow-up and as a repair,
every delegated field with a pack before, beside and behind the one it takes
from, each kind of document with each kind of mention and cap, each gate with
each kind of report. Two providers are a primary and a fallback, two rounds one
that is answered and one too many, two batches one that answers and one that is
lost.

*Fairness* (`FairSpec`): deadlines pass (`Lapse`), and the worker's poll comes to
the release of unused reservations again and again – `startInboxWorkers` polls every
250 ms to 1 s, and an execution that occupies a worker is cut off by its deadline.
The scan comes to an action only past those before it, so `ReleaseUnused(x)` is
fair where it is not `Obstructed(x)`, and the poll comes to `ClaimInbox`, and with
it to `ExpireInbox`, only behind the whole scan, so that is fair where it is not
`Blocked`. Weak fairness is enough, because once enabled these stay enabled until
they happen or a receipt comes. Nothing obliges a
handler, a pipeline, a provider, a reducer or an operator to go on. What `ReviewControl`
assumes is that no stage between the release and the claim fails for ever;
`WorkerPoll` has these stages, and where they do fail for ever is its `Stopped`.
`ModelJob!FairSpec` assumes that some worker keeps polling and its transactions
end, that the holder of a claim begins and records an outcome or its lease ends;
nothing is assumed of the frame or of revocations, and `PlannedJobsEnd` excepts a job
that was revoked or has an unknown effect. `WorkerPoll!FairSpec` assumes that
every worker goes on from stage to stage: transactions have timeouts of 5
seconds, and a provider call is cut off at its active time. No deadline is
obliged to pass, since each would end the wait that the properties are about:
they say that progress does not need one. They are stated outside `Stopped`,
`ToolsStopped` and `Hidden`.
`PublicationOutbox!FairSpec` assumes that leases end, that a transaction between
verification and marker commits or rolls back, and that some worker's poll
reaches `MaterializeAuthorizedPublications` and `RecoverUncertainPublications`
(`app/publication.go:15`), which like `ClaimInbox` stand behind the stages that
`Blocked` and `Stopped` are about. No worker that holds a claim, no operator and not the
host is obliged to anything, which is why nothing says that a publication is
delivered.
`ReviewDesk!FairSpec` assumes that a handler that was called goes on until it has
answered, that an idle worker takes what waits, and that work in progress goes on:
calls of model, host, channel and disk return or meet their deadlines, for good or
bad. No call and no fault is obliged to happen, and a decision may be refused or
fail every time. `ReviewPipeline!FairSpec` is weak fairness of the whole review:
one that can go on does, because a model call ends by its answer or its deadline.

## The proofs

`tlapm` checks, for every value of the constants that satisfies the named
assumptions of the modules:

| Theorem | Says | Argument |
|---|---|---|
| `BudgetLedgerProofs!Typing` | `Spec => []TypeOK` | one step per operation |
| `BudgetLedgerProofs!SendingSafety` | `AtMostOneCall`, and `NothingBeforeSending` | `SendInv` |
| `BudgetLedgerProofs!SpendingSafety` | `PeriodWithinCeiling`, and `OpenWithinCeiling` | `SpendInv` |
| `BudgetLedgerProofs!ChargeFalls` | `ChargeFallsOnlyOnProof` | `Typing` and what each step does to a charge |
| `BudgetLedgerProofs!IncidentStops` | `IncidentFreezes` | `Typing` and the two steps that start actions |
| `BudgetLedgerProofs!LedgerIsCap` | `Spec => ImplementsSpendingCap` | `SpendInv`; an admission, a fall or an overrun of the cap, or none, per operation |
| `ReviewControlProofs!ControlTyping` | `Spec => []TypeOK` | `RowInv` |
| `ReviewControlProofs!EndsResolved` | `FinishedIsResolved` | `EndInv` with `RowInv` |
| `ReviewControlProofs!StoppedStays` | `StoppedStaysStopped` | `EndInv` and the steps that move actions |
| `ReviewControlProofs!LineSafety` | `OneLine` | `LineInv` |
| `ReviewControlProofs!DeliverySafety` | `OneRunPerDelivery` | `LineInv` |
| `ReviewControlProofs!SnapshotSafety` | `SnapshotsAdvance` | `SnapshotInv` |
| `ModelJobProofs!JobTyping` | `Spec => []TypeOK` | `RowInv` |
| `ModelJobProofs!JobIsDialogue` | `Spec => ImplementsDialogue` | `JobInv`; one step of the dialogue, or none, per operation |
| `WorkerPollProofs!PollTyping`, `PollForgetsNothing`, `PollCompletesFinal` | `TypeOK`, `NothingIsForgotten`, `CompletedIsFinal` | `PollInv` |
| `PublicationProofs!OutboxTyping`, `WritingSafety` | `TypeOK`, `AtMostOneWrite` | `OutboxInv` |
| `PublicationProofs!SightedSafety` | `SightedAuthorizations` | `OutboxInv` with itself |
| `PublicationProofs!SendingSafety` | `SendsTheAuthorized` | `OutboxInv` |
| `PublicationProofs!PromiseKept` | `Spec => ImplementsPromise` | one step of the promise, or none, per kind of step |
| `ReviewDeskProofs!DeskTyping`, `ApprovalSafety` | `TypeOK`, `OnlyApprovedIsFinal` | `DeskInv` |
| `ReviewDeskProofs!WatchSafety`, `CommentSafety`, `FinalSafety` | `RunningIsWorkedOn`, `OneCommentEach`, `FinalizedIsDelivered` | `Service` with `DeskInv` |
| `ReviewPipelineProofs!PipelineTyped`, `CallsAllowed`, `IncompleteFails` | `TypeOK`, `CallsAreAllowed`, `IncompleteReviewsFail` | `PipelineInv` |
| `ReviewPipelineProofs!AcceptedGrounded` | `AcceptedIsGrounded` | `PipelineInv` and what `Validate` accepts (`Stands`) |
| `ReviewPipelineProofs!CommentsOnTheChange` | `InlineOnAddedLine` | `PipelineInv` and how patches are counted (`ReadAsAdded`) |
| `ReviewPipelineProofs!GateHonest` | `GateIsHonest`: of findings, those the model gave an id | `PipelineInv`, when the gate passes (`GatePasses`), and which rules it names (`SelectedAreGated`) |
| `ReviewPipelineProofs!ObligationsKept` | `ObligationsHold` | `PolicyKnown` and what compiled policies owe (`Honours`) |
| `ReviewPipelineProofs!EvidenceRelevant` | `EvidenceIsRelevant` | `EvidenceKnown` and what every selection keeps (`SelectionsRelevant`) |

*SendInv*: at most one call is not inductive alone. It needs that an action
which is not started has no frame and no call, that there is at most one frame
per action, and that a frame knows whether it has called (`OneFrame`).

*SpendInv*: the ceilings of a period are not inductive alone either. A new
reservation adds to the actions admitted in the *current* period, while
`checkCapacity` compares what is *charged* now: open work of every period and
settled usage of this one. The link is that the former are a subset of the
latter, and for past periods that no origin lies in the future (`OriginInPast`,
which rests on `PeriodAt` being monotone). Steps other than reservations keep
every hold and never raise an amount in a scope free of incidents (`Kept`,
`KeptStep`): settling within the bound lowers it, settling beyond it raises an
incident. Sums are cardinalities of sets of pairs (`Totals`), so that
monotonicity and additivity follow from the library's theorems on finite sets
instead of an induction.

*The cap*: under `charge = Charge`, `frozen = Incident` a reservation is the
cap's `Admit`, because `checkCapacity` compares exactly the charge that the
mapping names (`ReserveAdmits`). In every other step each scope keeps its
incidents, and one that has none charges at most what it did (`Kept`); a charge
that rises therefore rises where an incident appears, which is the cap's
`Overrun` (`CapStep`).

*EndInv*: `FinishInbox` compares the actions of the *attempt* that a run is
linked to, while the property is about the actions of the run. The link is that an
action belongs to the attempt its run names (`ActionsOfAttempt`), and that no
step links an existing run to another attempt. `ActionMoves` and `RunMoves` sort
the operations by what they do to one action and one run; a step that
touches an action ends no run.

*RowInv*: that an action's run exists, that accepted runs are a prefix of all
runs (`InOrder`) and that a head names a run that exists are not consequences of
the types, and typing needs them: `ReleaseUnused` reads the job of an action.

*LineInv*: one line of succession is inductive only together with the fact that
a generation names one attempt of a change, that no generation is ahead of the
head, and that the run numbers of jobs and attempts agree. *SnapshotInv* adds
what an acquisition in flight knows: its generation is not ahead of the head, and
once it has its snapshot, every attempt up to that generation reviewed an
earlier or the same revision. That is why the generation has to be read *before*
the code host is asked, and compared again when the acquisition is accepted.

`StepKinds` sorts the steps once and for all – acceptances, acquisitions,
cancellations, and quiet ones that leave attempts and heads alone – so that an
invariant about attempts has few cases, not one for each operation. Of actions the proofs assume that
they are numbers (`ActionAssumption`).

*RowInv* of `ModelJob`: the table of groups ends after the last tool round, one
repair of the findings and one of the coverage. That a reduction never asks for a
group beyond it needs what every earlier group was reduced to (`RoundsLeft`), that
a child exists only of a reduction that asked for it (`ChildOfOpen`) and that
a reduction's inputs are of its own group (`OwnInputs`).

*JobInv*: that one question is open at a time has three reasons, one for each way
an action comes to be sent. A continuation is sent only under a lineage that
accounts for every other action of the job as answered (`AllAnswered`); and while
one exists, everything before it stays answered (`ParentsAnswered`). The routes of
a single batch follow each other only after a loss (`RoutesInOrder`). The slots
of a sealed plan can all be prepared at once, and there the cursor decides: it
stays at what is being sent (`CursorOwns`), because a reclaim of another slot
finds none under way (`SlotsAtRest`). Which of the three applies depends on the
seal (`SealedPlan`): a plan of several batches never has a live frame beside it.
The steps that only lease, index, reduce, observe or revoke leave every action in
its state (`OrderQuiet`, `ViewSame`), those that move one action move one that was
neither answered nor lost (`OrderMoved`, `ViewMoved`), and three kinds plan.

*PollInv*: a worker acts on a list that it read stages ago, while others lock,
lose, advance and complete what is on it. Two facts make its list harmless. A final
reduction without a loss never changes again (`FinalStays`): whatever works on
a job works on an outstanding action, on a reduction that asks for more, or
executes a run that nothing was asked for (`AtWork`), so what `ScanComplete` saw is
still so when the worker comes to complete it (`Staged`). And the counters of a
group never exceed its size, and are zero once it is reduced (`Sound`): otherwise a
second call of the same slot could put a job at work again. A run that nobody
claimed has asked nothing (`Fresh`) and stands once in the order of claims
(`Queued`), so a claim starts from an empty job and no two workers execute one run
(`Alone`). `NothingIsForgotten` and `CompletedIsFinal` are parts of it. Thirteen of
the fourteen stages do the same kinds of thing to a worker, a job, a run and the
lists (`Moves`), for which one lemma keeps the invariant (`MovesKeep`); the
claim has its own. TLC has checked all parts with two workers over two runs, one
of two batches and one whose calls may be lost (1,182,064 states).

*OutboxInv*: a body is written at most once because there is one call per
operation (`OneCallEach`), the call knows whether it has written (`CallsKnow`),
and the marker that opens it is set on an operation that was never started: what
was written, or is being called, belongs to an operation that is sending,
uncertain or delivered (`WritesStarted`), and no step leads back from there.
What a lookup found was there (`HostWritten`). A transaction between
verification and marker keeps what it verified (`MarkersHold`), because another
authorization needs the job row that it shares. `GrantsSeen`, that a granted
command saw an older version than the present one, is what makes the second of
two operators lose. As in the control plane the steps are sorted into kinds
(`StepKinds`): eleven operations only maintain rows, and one lemma (`MaintainsInv`)
stands for all of them.

*DeskInv*: that only approved reports become final is not a fact about files alone.
A decision carries the row it read through several steps, while others write the
file; so the invariant is about what each process holds (`Hand`): whoever is on
its way to a final comment, to memory or to `finalized` holds an approved report,
and from the save of that row on its approval is on record (`Granted`). A failed
or ignored review holds no approval, which is why saving it takes none from the
record. Approvals and rows only grow (`Grows`), so whoever does not move keeps
what it holds (`HandKept`).

*Service* has four parts. `Watched`: an unfinished run has somebody at work who
has begun to write (`Holding`), except where a fault ended the work. `Serial`: a
run worked on by two at the same time is in `mixed`. `Relies`: whoever writes a
comment knows where the first of its kind is, or, if it is alone, that there is
none; whoever remembers or finalizes has its report on the change, and in memory
before the status is written. `Delivered`: the change keeps one comment of each
kind while only one works, and a finalized run keeps its report and its memory,
because comments keep their kinds and memory only grows. One lemma (`MovesKeep`)
carries the four over a step of one process on its run; steps that write nothing
(`ThinksOn`), arrivals (`ArrivalKeeps`) and steps of those who do not work yet
(`OffDutyKeeps`) follow from it or stand beside it.

*PipelineInv*: a review is sequential, and what its properties need is memory: that
what an early stage decided still holds at the end. Each conjunct carries one such
decision.

| Part | What is remembered, and who needs it |
|---|---|
| `Beginning`, `UnderAdmission` | nothing is asked before the admission, and everything after it is under the admission of this scenario; under an enforced policy only its own skills are active |
| `Permitted` | whoever is about to ask was allowed to: the action that calls no longer looks |
| `Batches`, `Answering`, `Rounds` | a stage past the questions has an answer to every batch; without it the failing of incomplete reviews would rest on the one step that reads them |
| `Reading`, `Sorting` | what is sorted are findings, and the buckets are those of the present findings and evidence: no stage between the sorting and the draft changes either |
| `Basing` | the head's edition of a declared rule is not evidence |
| `Placing` | a comment's place was checked against the patch that is still the patch |
| `CoverageKept` | in a CI run that asked nothing again, the coverage that the gate reads is what the batches said, unmended: a policy's skills are never vouched for |
| `Filing`, `Judging` | a draft is filed as it was sorted, and a verdict comes last |

`GateIsHonest` is a part of it because a verdict is only earned in the step that
gives it. *PolicyKnown* stands beside the invariant: whatever policy is in force is
the one that the document compiles to for this change. So does *EvidenceKnown*:
between the building of the evidence and its use in a prompt, what was picked is
one of the selections of this scenario's documents and texts.

What the stages compute is proved in `ReviewPartsProofs`, for data of any size.
`Honours` is the induction of the policy compiler, one applied pack after another:
every check and rule of the lineage of an applied pack is owed; and a method, a
risk, an independent review or a publication is as strict as that lineage asks, or
a pack applied since has taken it back by its delegation (`PackHonours`). A gate that names rules names
every rule that was selected (`PackGates`). That the order of
application covers every pack and follows priorities is `PacksOrdered`. `Stands`
is what every one of the eleven triage rules that did *not* hold leaves of an
accepted finding. `LinesAreNumbers` and `ReadAsAdded` compare the code's counting
of a patch with the meaning of its hunks: they agree where no line is a marker or looks
like a header, which is exactly where `lastline` finds the disagreement.
`CombinedIsWhole` says that a check is covered over the batches only if each batch
covers the skill and one the check, and `SatisfiedIsWorst` that the gate's status
of a check is the worst of what is said of it.

`SelectionsRelevant` is about every selection that some order of the ties can come
to. Each stage of `selectCorpus` has a lemma for what it keeps and what it adds.
Every identifier and route that a section shares with the change is a seed
(`SeedsFound`), and of each key that a seed or the rules of a changed language name
there is evidence with at least that score (`MatchingFound`), because merging drops
nothing and lowers no score (`EvidenceMerged`). Following a seed appends, and what it
appends scores at most 135 and names the seed (`SeedFollowed`): always below the 190
of the least seed, so a related section is never one of the better ones that
another gives way to. That this holds after any number of seeds, in any order, is
the one induction (`SeedsFollowed`), on the number of seeds that were followed, by
a least counterexample. Headings come from the document of what they head, and with
it are of its language (`HeadingsAdded`, `SameDocument`). At the end the evidence is
in order (`EvidenceSorted`), so what a cap leaves out stands behind as many as the
cap allows (`SelectionLimited`). Documents may repeat a heading, and sections
of one key share their evidence; so the argument follows keys.

The assumptions under which the pipeline's theorems hold are those the code
justifies. `PipelineAssumption`: there is a provider (`validateConfiguredProviders`
refuses a chain without one) and the tool rounds are counted by a natural number. `UnsaidAssumption`:
what a finding left out is none of the words it may say. `ScenarioAssumption`:
files and texts are lists; findings are as decoding leaves them (unknown types
and strengths are normalised, `support.go:773`); a report has a status that the gate
ranks (`Check.Validate`); and of a document what `validate.go` checks
before it is compiled – modes, risks and priorities, and that the defaults do not
say "inherit" (line 30). A library is a list of documents whose lines name
finitely many things, the texts of a change are finitely many, and the caps are
numbers. Nothing is assumed of which packs match, of what they
inherit or are delegated, or of what a model answers. TLC evaluates all of them
for the scenarios of `review`.

`NothingBeforeSending`, `OpenWithinCeiling`, `AtMostOneWrite`,
`SightedAuthorizations`, `SendsTheAuthorized` and the types of `ModelJob` and
`PublicationOutbox` are proved and, to keep the runs to what only they can show,
not run again; TLC has checked them before, and `ImplementsPromise` covers
`AtMostOneWrite`, `SightedAuthorizations` and `SendsTheAuthorized`.

Only model-checked:

- liveness and fairness: `RunsEnd`, `UnusedIsReleased`, `PlannedJobsEnd`,
  `SendingResolves`, `AuthorizationsMaterialize`, `MarksAreCleared`, `ReviewEnds` and
  the progress of `WorkerPoll`; `ENABLED` is beyond the prover. Every invariant and
  every action property of the runs that has no liveness in it is proved.

The operators of `RepositoryPolicy`, `ModelAnswers`, `WorkerPoll` and
`ReviewPipeline` that the proofs need are written as recursive functions or with sets of indices (`Answered`,
`Among`, `BatchStatus`, `ChunkDiff`, `ApplyPacks`, `ExpandPack`) where a fold or `SelectSeq`
would say the same: of those the provers know nothing. `CorpusSelection` filters and
sorts with `Entries` and `InOrder`, which say of each place how many stand before it.

## Disagreements between code and documentation

The first three have a run each that TLC ends with a counterexample.

*`partial`.* `RecoverModelReductions` takes the run with the least run id that
has an unreduced result (`model_reduction.go:28`), whatever its state, its
deadline and the completeness of its group. A run of two batches that answered
one and lost the other, or lapsed in between, is that run for ever. Groups of
runs behind it are complete and stay unreduced, except when another worker
happens to hold the lock of the first; a live frame of such a run waits in
`handoffModelParent` until its deadline. `docs/accounting.md:523` says that
workers "index responses, then commit bounded reduction artifacts", and line 531
that "incomplete groups wait".

*`lastline`.* `review/inline_positions.go:80` says that `ChangedNewLines`
"returns added/new-side line numbers from a unified diff patch". It and its copy
`pipeline/pipeline.go:658-679` count every line of a patch that begins with
neither `+` nor `-`, the marker `\ No newline at end of file` too. Where a change
replaces the last line of a file that did not end in a newline, the marker stands
between the removed and the added line, the added line gets the number below its
own, and a finding without a line is placed, and its comment published, there.
`InlineOnAddedLine` says what holds of patches without such a marker and without
added lines that look like file headers.

*`plans`.* `docs/accounting.md:827-828`: "The model parser rejects malformed or
over-bound plans instead of dropping blank names or truncating the list", and
`STATUS.md:83`: "Malformed/over-bound proposals cannot silently lose requests".
`decodeReviewOutput` gives up an envelope as soon as one field is of the wrong
type, also a tool request, and reads the findings alone, field by field
(`pipeline/pipeline.go:2463`): requests and coverage are dropped, the status is
`parsed`, and the review is drafted as if nothing had been asked.

Further ones have no run of their own.

*A duplicate's run.* `docs/accounting.md:757` says of `FinishInbox`: "Jobs with no
model reservation can still finish before any effect", and `docs/accounting.md:379`
gives `uncertain` to "a crash, panic or shutdown after claim". A delivery for the
snapshot that is already under review is accepted as a duplicate: its job is
linked to the current attempt and reserves nothing. Its pipeline returns at
once (`pipeline/pipeline.go:118`). But `FinishInbox` (`accounting/inbox.go:249`)
refuses while *any* action of the linked attempt exists, not only the job's
own, so as soon as the original run has prepared an action the duplicate can
never be finished: the worker logs "completion unconfirmed" and the run turns
`uncertain` at its deadline. No money is at stake; an operator sees an uncertain
run where nothing uncertain happened. `FinishInbox` of `ReviewControl` has that guard.

*The formatter's budget.* `docs/policy-execution-progress.md:1276`: "Typed known
pre-send budget waits now yield bounded scans", and `docs/accounting.md:761-766`
says that pending tool scans and pre-send prepared checks defer such waits, and:
"Other inboxes and continuations remain runnable". The scan of tool continuations
does so (`model_tool_pending.go:59`); the scan of formatter continuations returns a
budget refusal like any other error (`model_continuation.go:339`). The refused
candidate is the oldest at every poll, so no worker of any process claims a
pending run until that run's deadline. These are the states of `Unaffordable` in
`waits`, and `PendingIsClaimed` would be violated if it did not except them.

Two more errors of the poll have the same shape and are excepted in the same way.

A run whose first route was lost and
whose second answered with tool requests or a malformed review cannot continue
(`Unadvanceable`).
The lineage check (`model_completion.go:277`) refuses a job with an unknown
effect, and that is meant. But the scans of continuations, unlike the scan of
completions, select such a job, and the refusal ends the poll of every worker
before `ClaimInbox`, until its deadline. `docs/accounting.md:397` expects such an
effect of a storage failure, "for that poll".

A repair of findings that answers with tool requests (`Irreducible`) is an
error of the reducer (`pipeline/model_reduction_v1.go:133`) instead of one of the
five states `docs/accounting.md:515` lists. The response stays unreduced, and
because the scan does not look at deadlines, the error returns at every poll: no
worker claims a run again until an operator intervenes in the database.

*A blocked release.* `docs/accounting.md:317` says what a release requires, and the
code refuses it as that says: no quarantined usage. That one receipt which came too
soon, or names an action that does not exist yet, also keeps everything behind it
in the scan, and every pending run, for good is said nowhere; line 340 expects that
workers stop while "the release journal is unavailable". `ending` reaches
these states, and `UnusedIsReleased` and `RunsEnd` except them (`Obstructed`,
`Blocked`): a reservation that was made before such an action in the same run is
still returned, and no other is promised to be.

*An unnamed finding.* `SPEC.md:1024-1030`: "Unvalidated candidates alone do not
satisfy blocking rules", and, unless something is missing, "matched validated
defects yield violations, else pass". A finding whose id the model left out keeps
none: its key at the gate is empty (`pipeline/ci_gate.go:229`), and
`matchingViolations` passes over findings without a key (`policy/gate.go:124`). Such a
finding is validated, accepted and reported, and the verdict is `pass`.
`GateIsHonest` therefore speaks of named findings only; `review` has scenarios of
both.

## What is left out

- Data: prompts, the wording of reports, JSON, digests and signatures. Identity
  of a request stands for its digest; a text stands for what decoding tries in it.
- Integrity checks of stored rows (`ErrIntegrity` on malformed rows): the models'
  rows are well formed because only the modelled operations write them.
- Intake conflicts: a delivery identity with two payloads answers
  `ErrIntakeConflict` and records it; requests here are one per delivery.
- `CloseAttempt` is part of the authority's interface but no non-test code calls
  it; the ledger models it, the control plane does not.
- Historical and ephemeral execution, which has no head.
- In `ReviewDesk`: a delivery identity is forgotten after a day; chat answers that
  ask for no decision; the durable service's handlers, which are `ReviewControl`.
- In `ReviewPipeline`: the service's canonical assessments, legacy policy
  documents, and where the spans of a cut-off answer begin; words of documents
  are equal or different, never parts of each other.
- The order of row locks, and the wait for one: an operation of the ledger or of the
  control plane is one step, taken when it has its locks (the clock is read then,
  postgres.go:774), so two of them never hold some locks each.
- Everything `PROJECT.json` lists as `not_modelled`, with the reason there.

## The plan

The authority, the worker's poll, the service without an authority and the
pipeline are done as described above. What would come next, in the order of what
matters most:

1. *Releases and receipts*: the `not_executed` state in the ledger, and receipts
   after a release. Theorem: a refunded hold was never sent.
2. *Lock order*: the row locks of each transaction as steps, and the absence of
   a cycle.
3. *Quote and capacity arithmetic* with reference definitions: rounding and the
   64-bit bounds of a quote.
4. *Finding dispositions* and the canonical assessments they refer to.
5. *Channels*: the start, stop and retries of transports.
