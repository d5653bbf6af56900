----------------------------- MODULE ReviewDesk -----------------------------
(* The review service without a durable ledger: requests and channel          *)
(* messages arrive by HTTP, work waits in a volatile queue, workers review,    *)
(* publish drafts and carry out what people decide, and a file per run is all  *)
(* that a restart keeps.                                                       *)
(*   src/agent/app/{routes,workers,delivery,publish_handlers,tool_handler}.go  *)
(*   src/agent/pipeline/{pipeline,support}.go, src/agent/tools/github.go       *)
(*                                                                             *)
(* A report is the generation of the review it came from and the findings it   *)
(* shows, or TYPED when a person wrote it.  Everything that happens between    *)
(* the start of a review and its draft (ReviewPipeline) is one step here.      *)
(* Simplified: one restart loses all that is not in the store; a delivery is   *)
(* not forgotten after a day.                                                  *)
EXTENDS Integers, Sequences, FiniteSets, Functions

CONSTANTS
  Runs,        \* the changes under review: a run is named after its change
  Findings,    \* what the model may find in a change
  Deliveries,  \* identities of webhook deliveries and channel messages
  Workers,     \* WEBHOOK_WORKERS
  Callers,     \* HTTP handlers at work
  QueueSize,   \* the capacity of the work channel
  MaxAsked,    \* how many calls arrive (a bound)
  MaxFaults,   \* how many crashes, panics and disk errors happen (a bound)
  TYPED, NONE

ASSUME DeskAssumption ==
  /\ QueueSize \in Nat /\ MaxAsked \in Nat /\ MaxFaults \in Nat
  /\ NONE \notin Runs \cup Deliveries
  /\ Workers \cap Callers = {}

VARIABLES
  store,     \* run -> its file, or NONE
  thread,    \* run -> the bot's comments on the change, oldest first
  memory,    \* run -> the reports written to memory
  queue,     \* work not yet taken
  active,    \* runs marked as being reviewed
  seen,      \* deliveries claimed
  proc,      \* what each worker and handler is doing
  gen,       \* reviews started
  asked,     \* calls received
  faults,    \* faults so far
  approvals, \* run -> reports saved as approved or typed by a person (history)
  broken,    \* runs on which work was abandoned (history)
  mixed      \* runs on which two pieces of work overlapped (history)

persistent == <<store, thread, memory, approvals>>
volatile == <<queue, active, seen>>
counters == <<gen, asked, faults>>
vars == <<store, thread, memory, queue, active, seen, proc, gen, asked, faults,
          approvals, broken, mixed>>

Procs == Workers \cup Callers
Drafts == [gen : Nat, shows : SUBSET Findings]
Reports == Drafts \cup {TYPED}
Status == {"running", "drafted", "failed", "ignored", "finalizing", "finalized"}
Row == [status : Status, draft : Drafts \cup {NONE}, final : Reports \cup {NONE},
        approved : BOOLEAN, findings : SUBSET Findings]
ASSUME RowAssumption == NONE \notin Row   \* NONE is no row
Decisions == {"approve", "publish", "suppress", "revise"}
Ops == Decisions \cup {"review", "rerun"}
Item == [op : Ops, run : Runs, delivery : Deliveries \cup {NONE}, queued : BOOLEAN]
Steps == {"idle", "look", "claim", "mark", "enqueue", "submit",
          "get", "start", "review", "save", "update", "list", "write", "remember"}
Place == [pc : Steps, item : Item \cup {NONE}, rc : Row \cup {NONE},
          to : Status \cup {NONE}, at : Nat, gen : Nat]

Idle == [pc |-> "idle", item |-> NONE, rc |-> NONE, to |-> NONE, at |-> 0, gen |-> 0]
Fresh == [status |-> "running", draft |-> NONE, final |-> NONE, approved |-> FALSE, findings |-> {}]

Init ==
  /\ store = [r \in Runs |-> NONE]
  /\ thread = [r \in Runs |-> <<>>]
  /\ memory = [r \in Runs |-> {}]
  /\ queue = <<>> /\ active = {} /\ seen = {}
  /\ proc = [p \in Procs |-> Idle]
  /\ gen = 0 /\ asked = 0 /\ faults = 0
  /\ approvals = [r \in Runs |-> {}]
  /\ broken = {} /\ mixed = {}

RunOf(p) == proc[p].item.run
At(p, pc) == proc[p].pc = pc
Working == {"get", "start", "review", "save", "update", "list", "write", "remember"}
WorksOn(p, r) == proc[p].pc \in Working /\ RunOf(p) = r
Goto(p, pc) == proc' = [proc EXCEPT ![p].pc = pc]
Leave(p) == proc' = [proc EXCEPT ![p] = Idle]
Keep == UNCHANGED <<persistent, broken, mixed>>

(***************************************************************************)
(* Intake of review requests: enqueueReview asks whether the run is marked, *)
(* reads the store, claims the delivery, marks and enqueues, each under a   *)
(* lock of its own.                                                         *)
(***************************************************************************)
\* The run is marked: rejected.
IsRunActive(c, r, d) ==
  /\ At(c, "idle") /\ asked < MaxAsked
  /\ asked' = asked + 1
  /\ proc' = IF r \in active THEN proc
             ELSE [proc EXCEPT ![c] = [Idle EXCEPT !.pc = "look",
                     !.item = [op |-> "review", run |-> r, delivery |-> d, queued |-> TRUE]]]
  /\ Keep /\ UNCHANGED <<volatile, gen, faults>>

\* The stored run is running: rejected.
LookAtRun(c) ==
  /\ At(c, "look")
  /\ IF store[RunOf(c)] # NONE /\ store[RunOf(c)].status = "running"
       THEN Leave(c) ELSE Goto(c, "claim")
  /\ Keep /\ UNCHANGED <<volatile, counters>>

\* A webhook claims its delivery; a duplicate is ignored.
ClaimDelivery(c) ==
  LET d == proc[c].item.delivery IN
  /\ At(c, "claim")
  /\ IF d \in seen THEN Leave(c) /\ seen' = seen
     ELSE Goto(c, "mark") /\ seen' = seen \cup ({d} \ {NONE})
  /\ Keep /\ UNCHANGED <<queue, active, counters>>

MarkRunActive(c) ==
  /\ At(c, "mark") /\ Goto(c, "enqueue")
  /\ active' = active \cup {RunOf(c)}
  /\ Keep /\ UNCHANGED <<queue, seen, counters>>

\* Mutant of EnqueueReview: an off-by-one in the capacity.
EnqueueReviewBeyond(c) ==
  /\ At(c, "enqueue") /\ Leave(c)
  /\ IF Len(queue) <= QueueSize
       THEN queue' = Append(queue, proc[c].item) /\ UNCHANGED <<active, seen>>
       ELSE active' = active \ {RunOf(c)} /\ seen' = seen \ {proc[c].item.delivery} /\ queue' = queue
  /\ Keep /\ UNCHANGED counters

\* The work channel never blocks: when it is full the mark and the delivery
\* are given back.
EnqueueReview(c) ==
  /\ At(c, "enqueue") /\ Leave(c)
  /\ IF Len(queue) < QueueSize
       THEN queue' = Append(queue, proc[c].item) /\ UNCHANGED <<active, seen>>
       ELSE /\ active' = active \ {RunOf(c)}
            /\ seen' = seen \ {proc[c].item.delivery}
            /\ queue' = queue
  /\ Keep /\ UNCHANGED counters

(***************************************************************************)
(* Decisions: a channel message claims its identity and is recorded on the  *)
(* run before it is enqueued, /approve and /publish/final enqueue at once,  *)
(* and a tool call works in the handler that received it.                   *)
(***************************************************************************)
ReceiveMessage(c, op, r, d) ==
  /\ At(c, "idle") /\ asked < MaxAsked
  /\ asked' = asked + 1
  /\ IF d \in seen \/ store[r] = NONE THEN UNCHANGED <<seen, proc>>
     ELSE /\ seen' = seen \cup {d}
          /\ proc' = [proc EXCEPT ![c] = [Idle EXCEPT !.pc = "submit",
                        !.item = [op |-> op, run |-> r, delivery |-> d, queued |-> TRUE]]]
  /\ Keep /\ UNCHANGED <<queue, active, gen, faults>>

SubmitDecision(c) ==
  /\ At(c, "submit") /\ Leave(c)
  /\ IF Len(queue) < QueueSize
       THEN queue' = Append(queue, proc[c].item) /\ seen' = seen
       ELSE queue' = queue /\ seen' = seen \ {proc[c].item.delivery}
  /\ Keep /\ UNCHANGED <<active, counters>>

PostDecision(op, r) ==
  /\ asked < MaxAsked /\ Len(queue) < QueueSize
  /\ asked' = asked + 1
  /\ queue' = Append(queue, [op |-> op, run |-> r, delivery |-> NONE, queued |-> TRUE])
  /\ Keep /\ UNCHANGED <<active, seen, proc, gen, faults>>

\* Two pieces of work on one run at the same time.
Overlap(r) == mixed' = IF \E q \in Procs : WorksOn(q, r) THEN mixed \cup {r} ELSE mixed

CallTool(c, op, r) ==
  /\ At(c, "idle") /\ asked < MaxAsked
  /\ asked' = asked + 1
  /\ proc' = [proc EXCEPT ![c] = [Idle EXCEPT !.pc = "get",
                !.item = [op |-> op, run |-> r, delivery |-> NONE, queued |-> FALSE]]]
  /\ Overlap(r)
  /\ UNCHANGED <<persistent, volatile, gen, faults, broken>>

TakeWork(w) ==
  /\ At(w, "idle") /\ queue # <<>>
  /\ queue' = Tail(queue)
  /\ proc' = [proc EXCEPT ![w] = [Idle EXCEPT
                !.pc = IF Head(queue).op = "review" THEN "start" ELSE "get",
                !.item = Head(queue)]]
  /\ Overlap(Head(queue).run)
  /\ UNCHANGED <<persistent, active, seen, counters, broken>>

(***************************************************************************)
(* Work.  However a piece of work ends, a queued review clears its mark;    *)
(* one that ends with an error also gives its delivery back.                *)
(***************************************************************************)
\* Mutant of Ends: the mark is kept when the review failed.
EndsKeepingMark(p, failed) ==
  LET item == proc[p].item
      review == item.op = "review" IN
  /\ Leave(p)
  /\ active' = IF review /\ ~failed THEN active \ {item.run} ELSE active
  /\ seen' = IF review /\ failed THEN seen \ {item.delivery} ELSE seen
  /\ queue' = queue

Ends(p, failed) ==
  LET item == proc[p].item
      review == item.op = "review" IN
  /\ Leave(p)
  /\ active' = IF review THEN active \ {item.run} ELSE active
  /\ seen' = IF review /\ failed THEN seen \ {item.delivery} ELSE seen
  /\ queue' = queue

WriteRow(r, row) == store' = [store EXCEPT ![r] = row]

\* Jobs.Start replaces the run's file.
StartRun(p) ==
  LET r == RunOf(p) IN
  /\ At(p, "start")
  /\ gen' = gen + 1
  /\ WriteRow(r, Fresh)
  /\ proc' = [proc EXCEPT ![p].pc = "review", ![p].rc = Fresh, ![p].gen = gen + 1]
  /\ UNCHANGED <<thread, memory, approvals, volatile, asked, faults, broken, mixed>>

\* Enrichment, policy, evidence, the model and the checks of its answer.
\* They fail before there is anything to save, or save what there is and
\* fail, or ignore the change, or draft a report.
ReviewChange(p) ==
  LET drafted(shown) == [Fresh EXCEPT !.draft = [gen |-> proc[p].gen, shows |-> shown],
                                      !.findings = shown]
      next(pc, rc, to) == proc' = [proc EXCEPT ![p].pc = pc, ![p].rc = rc, ![p].to = to] IN
  /\ At(p, "review")
  /\ \/ next("update", Fresh, "failed")
     \/ \E to \in {"failed", "ignored"} : next("save", Fresh, to)
     \/ \E shown \in SUBSET Findings :
          \/ next("save", drafted(shown), "failed")
          \/ next("list", drafted(shown), "drafted")
  /\ Keep /\ UNCHANGED <<volatile, counters>>

(***************************************************************************)
(* Decisions read the run, check it and decide on what they read; whoever   *)
(* writes the run before the decision is saved is overwritten.              *)
(***************************************************************************)
Reads(p, op) == At(p, "get") /\ proc[p].item.op = op /\ store[RunOf(p)] # NONE
Decide(p, rc, pc, to) ==
  /\ proc' = [proc EXCEPT ![p].pc = pc, ![p].rc = rc, ![p].to = to]
  /\ Keep /\ UNCHANGED <<volatile, counters>>

\* Approval takes the draft as it stands, or what the caller typed.
ApproveRun(p) ==
  LET row == store[RunOf(p)] IN
  /\ Reads(p, "approve") /\ row.draft # NONE
  /\ row.status = "drafted" \/ (row.status = "failed" /\ ~row.approved)
  /\ \E report \in {row.draft, TYPED} :
       Decide(p, [row EXCEPT !.approved = TRUE, !.final = report], "save", "finalizing")

\* Mutant of PublishFinal: the approval is not asked for.
PublishFinalUnapproved(p) ==
  LET row == store[RunOf(p)] IN
  /\ Reads(p, "publish")
  /\ \E report \in {row.final, row.draft} \ {NONE} :
       Decide(p, [row EXCEPT !.final = report], "update", "finalizing")

PublishFinal(p) ==
  LET row == store[RunOf(p)] IN
  /\ Reads(p, "publish") /\ row.approved
  /\ \E report \in {row.final, TYPED} \ {NONE} :
       Decide(p, [row EXCEPT !.final = report], "update", "finalizing")

SuppressFinding(p) ==
  LET row == store[RunOf(p)] IN
  /\ Reads(p, "suppress") /\ row.status \in {"drafted", "failed"}
  /\ \E f \in row.findings :
       Decide(p, [row EXCEPT !.findings = @ \ {f}, !.draft.shows = row.findings \ {f}], "save", "drafted")

\* The model rewrites the draft between the read and the save.
ReviseDraft(p) ==
  LET row == store[RunOf(p)] IN
  /\ Reads(p, "revise") /\ row.status \in {"drafted", "failed"} /\ row.draft # NONE
  /\ \E shown \in SUBSET Findings : Decide(p, [row EXCEPT !.draft.shows = shown], "save", "drafted")

RerunReview(p) == Reads(p, "rerun") /\ Decide(p, NONE, "start", NONE)

\* A run that is missing or whose state refuses the decision, a finding that is
\* not there, or a model that does not answer.
RefuseDecision(p) ==
  LET item == proc[p].item
      row == store[item.run] IN
  /\ At(p, "get") /\ Ends(p, TRUE)
  /\ row # NONE =>
       CASE item.op = "approve" -> \/ row.draft = NONE
                                   \/ row.status \notin {"drafted", "failed"}
                                   \/ row.status = "failed" /\ row.approved
         [] item.op = "publish" -> ~row.approved
         [] item.op \in {"suppress", "revise"} -> TRUE
         [] OTHER -> FALSE
  /\ Keep /\ UNCHANGED counters

\* SaveContext writes the report, the approval and the findings over whatever
\* the run's file holds; it leaves the status.
SaveContext(p) ==
  LET r == RunOf(p)
      rc == proc[p].rc IN
  /\ At(p, "save") /\ Goto(p, "update")
  /\ WriteRow(r, [rc EXCEPT !.status = store[r].status])
  /\ approvals' = IF rc.approved THEN [approvals EXCEPT ![r] = @ \cup {rc.final}] ELSE approvals
  /\ UNCHANGED <<thread, memory, volatile, counters, broken, mixed>>

\* Mutant of UpdateStatus: a failure is not written down.
UpdateStatusUnlessFailed(p) ==
  LET r == RunOf(p)
      to == proc[p].to IN
  /\ At(p, "update")
  /\ IF to = "failed" THEN store' = store ELSE WriteRow(r, [store[r] EXCEPT !.status = to])
  /\ IF to = "finalizing" THEN Goto(p, "list") /\ UNCHANGED volatile ELSE Ends(p, to = "failed")
  /\ UNCHANGED <<thread, memory, approvals, counters, broken, mixed>>

UpdateStatus(p) ==
  LET r == RunOf(p)
      to == proc[p].to IN
  /\ At(p, "update")
  /\ WriteRow(r, [store[r] EXCEPT !.status = to])
  /\ IF to = "finalizing" THEN Goto(p, "list") /\ UNCHANGED volatile
     ELSE Ends(p, to = "failed")
  /\ UNCHANGED <<thread, memory, approvals, counters, broken, mixed>>

(***************************************************************************)
(* Publication upserts one comment per kind: the bot lists the comments,    *)
(* replaces the first that carries its marker, or posts a new one.          *)
(***************************************************************************)
Kind(p) == IF proc[p].to = "drafted" THEN "draft" ELSE "final"
Body(p) == IF Kind(p) = "draft" THEN proc[p].rc.draft ELSE proc[p].rc.final
First(comments, kind) ==
  LET marked == {i \in DOMAIN comments : comments[i].kind = kind} IN
  IF marked = {} THEN 0 ELSE CHOOSE i \in marked : \A j \in marked : i <= j

\* A review saves its draft before it is failed, a decision is failed at once.
Fails(p) ==
  proc' = [proc EXCEPT ![p].to = "failed",
                       ![p].pc = IF Kind(p) = "draft" THEN "save" ELSE "update"]

\* Mutant of ListComments: the marker is not recognised.
ListCommentsUnmarked(p) ==
  /\ At(p, "list")
  /\ Fails(p) \/ proc' = [proc EXCEPT ![p].pc = "write", ![p].at = 0]
  /\ Keep /\ UNCHANGED <<volatile, counters>>

ListComments(p) ==
  /\ At(p, "list")
  /\ \/ Fails(p)
     \/ proc' = [proc EXCEPT ![p].pc = "write", ![p].at = First(thread[RunOf(p)], Kind(p))]
  /\ Keep /\ UNCHANGED <<volatile, counters>>

\* The write is refused, or it is done and its answer or the notification that
\* follows is lost, or all is well.
WriteComment(p) ==
  LET r == RunOf(p)
      comment == [kind |-> Kind(p), body |-> Body(p)]
      at == proc[p].at IN
  /\ At(p, "write")
  /\ \/ Fails(p) /\ thread' = thread
     \/ /\ thread' = [thread EXCEPT ![r] = IF at = 0 THEN Append(@, comment)
                                          ELSE [@ EXCEPT ![at] = comment]]
        /\ \/ Fails(p)
           \/ Goto(p, IF Kind(p) = "draft" THEN "save" ELSE "remember")
  /\ UNCHANGED <<store, memory, approvals, volatile, counters, broken, mixed>>

\* Mutant of WriteMemory: a failure to remember is only logged.
WriteMemoryOrNot(p) ==
  LET rc == proc[p].rc IN
  /\ At(p, "remember")
  /\ rc.approved
  /\ memory' \in {memory, [memory EXCEPT ![RunOf(p)] = @ \cup {rc.final}]}
  /\ proc' = [proc EXCEPT ![p].pc = "save", ![p].to = "finalized"]
  /\ UNCHANGED <<store, thread, approvals, volatile, counters, broken, mixed>>

\* Memory takes an approved report only.
WriteMemory(p) ==
  LET rc == proc[p].rc IN
  /\ At(p, "remember")
  /\ \/ Fails(p) /\ memory' = memory
     \/ /\ rc.approved
        /\ memory' = [memory EXCEPT ![RunOf(p)] = @ \cup {rc.final}]
        /\ proc' = [proc EXCEPT ![p].pc = "save", ![p].to = "finalized"]
  /\ UNCHANGED <<store, thread, approvals, volatile, counters, broken, mixed>>

(***************************************************************************)
(* Faults.  A failing disk ends the work where it stands, except that a     *)
(* review on its way to "failed" or "ignored" still tries to say so.        *)
(***************************************************************************)
DiskFails(p) ==
  LET r == RunOf(p) IN
  /\ faults < MaxFaults /\ faults' = faults + 1
  /\ \/ /\ At(p, "save") /\ proc[p].to \in {"failed", "ignored"}
        /\ proc' = [proc EXCEPT ![p].pc = "update", ![p].to = "failed"]
        /\ UNCHANGED <<volatile, broken>>
     \/ /\ \/ At(p, "save") /\ proc[p].to \notin {"failed", "ignored"}
           \/ At(p, "update") \/ At(p, "start")
        /\ Ends(p, TRUE) /\ broken' = broken \cup {r}
  /\ UNCHANGED <<persistent, mixed, gen, asked>>

\* A panic is recovered by the worker or by net/http: the deferred calls run,
\* the error path does not.
Panic(p) ==
  /\ faults < MaxFaults /\ faults' = faults + 1
  /\ proc[p].pc \in Working
  /\ Ends(p, FALSE) /\ broken' = broken \cup {RunOf(p)}
  /\ UNCHANGED <<persistent, mixed, gen, asked>>

Restart ==
  /\ faults < MaxFaults /\ faults' = faults + 1
  /\ queue' = <<>> /\ active' = {} /\ seen' = {}
  /\ proc' = [p \in Procs |-> Idle]
  /\ broken' = broken \cup {r \in Runs : \E p \in Procs : WorksOn(p, r)}
  /\ UNCHANGED <<persistent, mixed, gen, asked>>

Intake(c) ==
  \/ \E r \in Runs, d \in Deliveries \cup {NONE} : IsRunActive(c, r, d)
  \/ LookAtRun(c) \/ ClaimDelivery(c) \/ MarkRunActive(c) \/ EnqueueReview(c)
  \/ \E op \in Decisions \ {"publish"}, r \in Runs, d \in Deliveries : ReceiveMessage(c, op, r, d)
  \/ SubmitDecision(c)
  \/ \E op \in Decisions \cup {"rerun"}, r \in Runs : CallTool(c, op, r)

Work(p) ==
  \/ StartRun(p) \/ ReviewChange(p)
  \/ ApproveRun(p) \/ PublishFinal(p) \/ SuppressFinding(p) \/ ReviseDraft(p)
  \/ RerunReview(p) \/ RefuseDecision(p)
  \/ SaveContext(p) \/ UpdateStatus(p)
  \/ ListComments(p) \/ WriteComment(p) \/ WriteMemory(p)

Next ==
  \/ \E c \in Callers : Intake(c)
  \/ \E op \in {"approve", "publish"}, r \in Runs : PostDecision(op, r)
  \/ \E w \in Workers : TakeWork(w)
  \/ \E p \in Procs : Work(p) \/ DiskFails(p) \/ Panic(p)
  \/ Restart

Spec == Init /\ [][Next]_vars

\* Handlers return, workers work, and every call of theirs ends in time.
Fairness ==
  /\ \A c \in Callers : WF_vars(LookAtRun(c) \/ ClaimDelivery(c) \/ MarkRunActive(c)
                                 \/ EnqueueReview(c) \/ SubmitDecision(c))
  /\ \A w \in Workers : WF_vars(TakeWork(w))
  /\ \A p \in Procs : WF_vars(Work(p))
FairSpec == Spec /\ Fairness

-----------------------------------------------------------------------------
\* Well-formed states.
TypeOK ==
  /\ store \in [Runs -> Row \cup {NONE}]
  /\ thread \in [Runs -> Seq([kind : {"draft", "final"}, body : Reports])]
  /\ memory \in [Runs -> SUBSET Reports]
  /\ queue \in Seq(Item) /\ Len(queue) <= QueueSize
  /\ active \subseteq Runs /\ seen \subseteq Deliveries
  /\ proc \in [Procs -> Place]
  /\ gen \in Nat /\ asked \in 0..MaxAsked /\ faults \in 0..MaxFaults
  /\ approvals \in [Runs -> SUBSET Reports]
  /\ broken \subseteq Runs /\ mixed \subseteq Runs

\* Nothing reaches the change as a final report, and nothing reaches memory,
\* that no person approved on that run or typed, whatever overlaps or fails.
OnlyApprovedIsFinal ==
  \A r \in Runs :
    LET final == {c \in Range(thread[r]) : c.kind = "final"} IN
    /\ final # {} \/ memory[r] # {} => approvals[r] # {}
    /\ {c.body : c \in final} \cup memory[r] \subseteq approvals[r] \cup {TYPED}

\* A run that says it is running or finalizing has somebody working on it,
\* unless work on it was cut short by a fault.
RunningIsWorkedOn ==
  \A r \in Runs \ broken :
    store[r] # NONE /\ store[r].status \in {"running", "finalizing"} => \E p \in Procs : WorksOn(p, r)

\* Reviews and decisions that do not overlap keep one draft and one final
\* comment per change, through failures, faults and repetitions.
OneCommentEach ==
  \A r \in Runs \ mixed : \A kind \in {"draft", "final"} :
    Cardinality({i \in DOMAIN thread[r] : thread[r][i].kind = kind}) <= 1

\* A run that says it is finalized has its report on the change and in memory;
\* it is the report on record when nothing overlapped.
FinalizedIsDelivered ==
  \A r \in Runs :
    store[r] # NONE /\ store[r].status = "finalized" =>
      /\ First(thread[r], "final") # 0 /\ memory[r] # {}
      /\ r \notin mixed => /\ store[r].approved /\ store[r].final \in memory[r]
                           /\ thread[r][First(thread[r], "final")].body = store[r].final

\* A mark is always cleared.
MarksAreCleared == \A r \in Runs : r \in active ~> r \notin active
=============================================================================
