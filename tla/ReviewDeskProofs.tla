--------------------------- MODULE ReviewDeskProofs ---------------------------
(***************************************************************************)
(* Proofs about the volatile service, for any number of runs, workers,      *)
(* handlers and faults: its rows, comments and pieces of work are well      *)
(* formed, only what a person approved or typed becomes final, no run is    *)
(* left unfinished, one comment of each kind stays on a change that is not  *)
(* worked on twice at a time, and a finalized run is delivered.             *)
(***************************************************************************)
EXTENDS ReviewDesk, SequenceTheorems, FiniteSetTheorems, WellFoundedInduction, TLAPS

Comment == [kind : {"draft", "final"}, body : Reports]
Finals(comments) == {c.body : c \in {d \in Range(comments) : d.kind = "final"}}

\* A row shows findings only with a draft, and is approved only with a report.
Whole(row) ==
  /\ row \in Row
  /\ row.findings # {} => row.draft \in Drafts
  /\ row.approved => row.final \in Reports

\* A stored approval is one that was saved.
StoredIn(st, ap) ==
  \A r \in Runs : st[r] \in Row =>
    /\ Whole(st[r])
    /\ st[r].approved => st[r].final \in ap[r]

\* What is final was approved or typed, on a run that has an approval.
Granted(ap, r, reports) == reports # {} => ap[r] # {} /\ reports \subseteq ap[r] \cup {TYPED}

\* What a process h holds while it works: the whole row it read or made, of a
\* run that is stored, and, once that row is saved, its approval on record.
Holding == {"review", "save", "update", "list", "write", "remember"}
Hand(h, st, ap) ==
  h.pc # "idle" =>
    /\ h.item \in Item
    /\ h.pc \in Holding => Whole(h.rc) /\ st[h.item.run] \in Row
    /\ h.pc \in {"save", "update"} => h.to \in Status \ {"running"}
    /\ h.pc = "save" /\ h.to \in {"failed", "ignored"} => ~h.rc.approved
    /\ h.pc \in {"list", "write"} => h.to \in {"drafted", "finalizing"}
    /\ h.pc = "remember" => h.to = "finalizing"
    /\ h.pc \in {"list", "write"} /\ h.to = "drafted" => h.rc.draft \in Drafts /\ ~h.rc.approved
    /\ h.pc \in {"save", "update", "list", "write", "remember"} /\ h.to \in {"finalizing", "finalized"} =>
         h.rc.approved
    /\ h.pc \in {"update", "list", "write", "remember"} /\ h.rc.approved =>
         Granted(ap, h.item.run, {h.rc.final})

Recorded ==
  /\ store \in [Runs -> Row \cup {NONE}]
  /\ thread \in [Runs -> Seq(Comment)]
  /\ memory \in [Runs -> SUBSET Reports]
  /\ approvals \in [Runs -> SUBSET Reports]
  /\ StoredIn(store, approvals)
  /\ \A r \in Runs : Granted(approvals, r, Finals(thread[r])) /\ Granted(approvals, r, memory[r])
Awaiting ==
  /\ queue \in Seq(Item) /\ Len(queue) <= QueueSize
  /\ active \subseteq Runs /\ seen \subseteq Deliveries
Counted ==
  /\ gen \in Nat /\ asked \in 0..MaxAsked /\ faults \in 0..MaxFaults
  /\ broken \subseteq Runs /\ mixed \subseteq Runs
AtWork ==
  /\ proc \in [Procs -> Place]
  /\ \A p \in Procs : Hand(proc[p], store, approvals)

DeskInv == Recorded /\ Awaiting /\ Counted /\ AtWork

(***************************************************************************)
(* Comments.                                                                *)
(***************************************************************************)
\* The first comment of a kind has that kind, if there is one.
LEMMA FirstIsPlace ==
  ASSUME NEW S, NEW comments \in Seq(S), NEW kind
  PROVE  LET first == First(comments, kind) IN
         /\ first \in Nat
         /\ first = 0 => \A i \in DOMAIN comments : comments[i].kind # kind
         /\ first # 0 => first \in DOMAIN comments /\ comments[first].kind = kind
<1> DEFINE marked == {i \in DOMAIN comments : comments[i].kind = kind}
<1>1. marked \subseteq Nat \ {0} BY LenProperties
<1>2. CASE marked = {} BY <1>2 DEF First
<1>3. CASE marked # {}
  <2> DEFINE R == {pair \in Nat \X Nat : pair[1] < pair[2]}
  <2>1. IsWellFoundedOn(R, Nat) BY NatLessThanWellFounded DEF OpToRel
  <2>2. \E i \in marked : \A j \in marked : i <= j
    <3> HIDE DEF marked, R
    <3>1. PICK i \in marked : \A j \in marked : ~(<<j, i>> \in R) BY <1>1, <1>3, <2>1, WFMin
    <3>2. ASSUME NEW j \in marked PROVE i <= j
      <4>1. i \in Nat /\ j \in Nat BY <1>1
      <4>2. ~(<<j, i>> \in R) BY <3>1
      <4>3. ~(j < i) BY <4>1, <4>2 DEF R
      <4> QED BY <4>1, <4>3
    <3> QED BY <3>2
  <2>3. (CHOOSE i \in marked : \A j \in marked : i <= j) \in marked BY <2>2
  <2> QED BY <1>1, <1>3, <2>3 DEF First
<1> QED BY <1>2, <1>3

\* Writing one comment adds at most its own body to what is final.
LEMMA WritingOne ==
  ASSUME NEW s \in Seq(Comment), NEW c \in Comment, NEW at \in Nat,
         NEW t, t = IF at = 0 THEN Append(s, c) ELSE [s EXCEPT ![at] = c]
  PROVE  /\ t \in Seq(Comment)
         /\ Finals(t) \subseteq Finals(s) \cup (IF c.kind = "final" THEN {c.body} ELSE {})
<1>1. t \in Seq(Comment) /\ Range(t) \subseteq Range(s) \cup {c}
  <2>1. CASE at = 0
    <3>1. t = Append(s, c) BY <2>1
    <3>2. /\ Append(s, c) \in Seq(Comment)
          /\ DOMAIN Append(s, c) = 1..(Len(s) + 1) /\ DOMAIN s = 1..Len(s) /\ Len(s) \in Nat
          /\ \A i \in 1..Len(s) : Append(s, c)[i] = s[i]
          /\ Append(s, c)[Len(s) + 1] = c
      OBVIOUS
    <3>3. \A i \in 1..(Len(s) + 1) : i \in 1..Len(s) \/ i = Len(s) + 1 BY <3>2
    <3> QED BY <3>1, <3>2, <3>3 DEF Range
  <2>2. CASE at # 0
    <3>1. t = [s EXCEPT ![at] = c] BY <2>2
    <3>2. s \in [1..Len(s) -> Comment] /\ Len(s) \in Nat /\ DOMAIN s = 1..Len(s) BY LenProperties
    <3>3. t \in [1..Len(s) -> Comment] BY <3>1, <3>2
    <3>4. \A i \in 1..Len(s) : t[i] = c \/ t[i] = s[i] BY <3>1, <3>2
    <3>5. t \in Seq(Comment) BY <3>2, <3>3, SeqDef
    <3>6. DOMAIN t = DOMAIN s BY <3>2, <3>3
    <3> QED BY <3>2, <3>4, <3>5, <3>6 DEF Range
  <2> QED BY <2>1, <2>2
<1>2. Finals(t) \subseteq Finals(s) \cup (IF c.kind = "final" THEN {c.body} ELSE {})
  BY <1>1 DEF Finals
<1> QED BY <1>1, <1>2

(***************************************************************************)
(* One process moves, the others keep what they hold.                       *)
(***************************************************************************)
Grows == \A r \in Runs : /\ store[r] \in Row => store'[r] \in Row
                         /\ approvals[r] \subseteq approvals'[r]

LEMMA HandKept ==
  ASSUME NEW h, Grows, Hand(h, store, approvals)
  PROVE  Hand(h, store', approvals')
<1>1. h.item \in Item => h.item.run \in Runs BY DEF Item
<1> QED BY <1>1 DEF Hand, Grows, Granted, Item, Holding

LEMMA OneWorks ==
  ASSUME AtWork, Grows, NEW p \in Procs, NEW h \in Place,
         proc' = [proc EXCEPT ![p] = h], Hand(h, store', approvals')
  PROVE  AtWork'
<1>1. proc' \in [Procs -> Place] BY DEF AtWork
<1>2. ASSUME NEW q \in Procs PROVE Hand(proc'[q], store', approvals')
  <2>1. CASE q = p BY <2>1 DEF AtWork
  <2>2. CASE q # p
    <3>1. proc'[q] = proc[q] BY <2>2 DEF AtWork
    <3>2. Hand(proc[q], store, approvals) BY DEF AtWork
    <3> QED BY <3>1, <3>2, HandKept
  <2> QED BY <2>1, <2>2
<1> QED BY <1>1, <1>2 DEF AtWork

\* What is on record and nobody writes stays as it is.
LEMMA Untouched ==
  ASSUME Recorded, UNCHANGED persistent
  PROVE  Recorded' /\ Grows
BY DEF Recorded, Grows, persistent, StoredIn

\* A process that goes on in thought only.
LEMMA OneThinks ==
  ASSUME DeskInv, UNCHANGED persistent, NEW p \in Procs, NEW h \in Place,
         proc' = [proc EXCEPT ![p] = h], Hand(h, store, approvals), Awaiting', Counted'
  PROVE  DeskInv'
<1>1. Recorded' /\ Grows BY Untouched DEF DeskInv
<1>2. Hand(h, store', approvals') BY DEF persistent
<1>3. AtWork' BY <1>1, <1>2, OneWorks DEF DeskInv
<1> QED BY <1>1, <1>3 DEF DeskInv

\* Nobody moves.
LEMMA NobodyWorks ==
  ASSUME DeskInv, UNCHANGED <<persistent, proc>>, Awaiting', Counted'
  PROVE  DeskInv'
<1>1. Recorded' /\ Grows BY Untouched DEF DeskInv
<1>2. AtWork' BY DEF DeskInv, AtWork, persistent
<1> QED BY <1>1, <1>2 DEF DeskInv

LEMMA IdleIsPlace == Idle \in Place /\ \A st, ap : Hand(Idle, st, ap)
BY DEF Idle, Place, Steps, Hand

\* What a piece of work leaves behind when it ends.
LEMMA EndsWell ==
  ASSUME DeskInv, NEW p \in Procs, NEW failed, Ends(p, failed), ~At(p, "idle")
  PROVE  /\ proc' = [proc EXCEPT ![p] = Idle]
         /\ Awaiting'
BY DEF Ends, Leave, DeskInv, Awaiting, AtWork, Hand, At, Item

(***************************************************************************)
(* Intake.                                                                  *)
(***************************************************************************)
LEMMA CallersAndWorkers == Callers \subseteq Procs /\ Workers \subseteq Procs
BY DEF Procs

\* A process that holds an item and no row yet.
Early == {"look", "claim", "mark", "enqueue", "submit", "get", "start"}
LEMMA EarlyHand ==
  ASSUME NEW pc \in Early, NEW item \in Item
  PROVE  LET h == [Idle EXCEPT !.pc = pc, !.item = item] IN
         h \in Place /\ \A st, ap : Hand(h, st, ap)
BY DEF Idle, Place, Steps, Hand, Early, Holding

LEMMA EarlyMoves ==
  ASSUME DeskInv, NEW p \in Procs, proc[p].pc \in Early, NEW pc \in Early
  PROVE  LET h == [proc[p] EXCEPT !.pc = pc] IN
         /\ proc[p].item \in Item /\ RunOf(p) \in Runs
         /\ h \in Place /\ Hand(h, store, approvals)
         /\ [proc EXCEPT ![p].pc = pc] = [proc EXCEPT ![p] = h]
<1>1. proc[p] \in Place /\ proc[p].pc # "idle" /\ Hand(proc[p], store, approvals)
  BY DEF DeskInv, AtWork, Early
<1>2. proc[p].item \in Item BY <1>1 DEF Hand
<1> QED BY <1>1, <1>2 DEF Place, Steps, Hand, Early, Holding, Item, RunOf, DeskInv, AtWork

LEMMA IntakeKeeps == ASSUME DeskAssumption, DeskInv, NEW c \in Callers, Intake(c) PROVE DeskInv'
<1> c \in Procs BY CallersAndWorkers
<1> USE DEF Keep, counters, volatile
<1>1. ASSUME NEW r \in Runs, NEW d \in Deliveries \cup {NONE}, IsRunActive(c, r, d) PROVE DeskInv'
  <2> DEFINE item == [op |-> "review", run |-> r, delivery |-> d, queued |-> TRUE]
             h == [Idle EXCEPT !.pc = "look", !.item = item]
  <2>1. item \in Item BY DEF Item, Ops
  <2>2. h \in Place /\ Hand(h, store, approvals)
    <3> HIDE DEF item
    <3> QED BY <2>1, EarlyHand DEF Early
  <2>3. Awaiting' /\ Counted' BY <1>1 DEF IsRunActive, DeskInv, Awaiting, Counted, DeskAssumption
  <2>4. CASE r \in active BY <1>1, <2>3, <2>4, NobodyWorks DEF IsRunActive
  <2>5. CASE r \notin active
    <3>1. proc' = [proc EXCEPT ![c] = h] /\ UNCHANGED persistent BY <1>1, <2>5 DEF IsRunActive
    <3> HIDE DEF h
    <3> QED BY <2>2, <2>3, <3>1, OneThinks
  <2> QED BY <2>4, <2>5
<1>2. CASE LookAtRun(c)
  <2>1. proc[c].pc \in Early BY <1>2 DEF LookAtRun, At, Early
  <2>2. Awaiting' /\ Counted' /\ UNCHANGED persistent BY <1>2 DEF LookAtRun, DeskInv, Awaiting, Counted
  <2>3. CASE Leave(c) BY <2>2, <2>3, IdleIsPlace, OneThinks DEF Leave
  <2>4. CASE Goto(c, "claim")
    <3>1. "claim" \in Early BY DEF Early
    <3> QED BY <2>1, <2>2, <2>4, <3>1, EarlyMoves, OneThinks DEF Goto
  <2> QED BY <1>2, <2>3, <2>4 DEF LookAtRun
<1>3. CASE ClaimDelivery(c)
  <2>1. proc[c].pc \in Early BY <1>3 DEF ClaimDelivery, At, Early
  <2>2. proc[c].item.delivery \in Deliveries \cup {NONE}
    BY <2>1, EarlyMoves DEF Item
  <2>3. Awaiting' /\ Counted' /\ UNCHANGED persistent
    BY <1>3, <2>2 DEF ClaimDelivery, DeskInv, Awaiting, Counted
  <2>4. CASE Leave(c) BY <2>3, <2>4, IdleIsPlace, OneThinks DEF Leave
  <2>5. CASE Goto(c, "mark")
    <3>1. "mark" \in Early BY DEF Early
    <3> QED BY <2>1, <2>3, <2>5, <3>1, EarlyMoves, OneThinks DEF Goto
  <2> QED BY <1>3, <2>4, <2>5 DEF ClaimDelivery
<1>4. CASE MarkRunActive(c)
  <2>1. proc[c].pc \in Early /\ "enqueue" \in Early BY <1>4 DEF MarkRunActive, At, Early
  <2>2. Awaiting' /\ Counted' /\ UNCHANGED persistent
    BY <1>4, <2>1, EarlyMoves DEF MarkRunActive, DeskInv, Awaiting, Counted
  <2> QED BY <1>4, <2>1, <2>2, EarlyMoves, OneThinks DEF MarkRunActive, Goto
<1>5. CASE EnqueueReview(c)
  <2>1. proc[c].pc \in Early BY <1>5 DEF EnqueueReview, At, Early
  <2>2. proc[c].item \in Item BY <2>1, EarlyMoves
  <2>3. Awaiting' /\ Counted' /\ UNCHANGED persistent
    BY <1>5, <2>2 DEF EnqueueReview, DeskInv, Awaiting, Counted, DeskAssumption
  <2> QED BY <1>5, <2>3, IdleIsPlace, OneThinks DEF EnqueueReview, Leave
<1>6. ASSUME NEW op \in Decisions \ {"publish"}, NEW r \in Runs, NEW d \in Deliveries,
             ReceiveMessage(c, op, r, d)
      PROVE DeskInv'
  <2> DEFINE item == [op |-> op, run |-> r, delivery |-> d, queued |-> TRUE]
             h == [Idle EXCEPT !.pc = "submit", !.item = item]
  <2>1. item \in Item BY DEF Item, Ops
  <2>2. h \in Place /\ Hand(h, store, approvals)
    <3> HIDE DEF item
    <3> QED BY <2>1, EarlyHand DEF Early
  <2>3. Awaiting' /\ Counted' BY <1>6 DEF ReceiveMessage, DeskInv, Awaiting, Counted, DeskAssumption
  <2>4. CASE d \in seen \/ store[r] = NONE BY <1>6, <2>3, <2>4, NobodyWorks DEF ReceiveMessage
  <2>5. CASE ~(d \in seen \/ store[r] = NONE)
    <3>1. proc' = [proc EXCEPT ![c] = h] /\ UNCHANGED persistent BY <1>6, <2>5 DEF ReceiveMessage
    <3> HIDE DEF h
    <3> QED BY <2>2, <2>3, <3>1, OneThinks
  <2> QED BY <2>4, <2>5
<1>7. CASE SubmitDecision(c)
  <2>1. proc[c].pc \in Early BY <1>7 DEF SubmitDecision, At, Early
  <2>2. proc[c].item \in Item BY <2>1, EarlyMoves
  <2>3. Awaiting' /\ Counted' /\ UNCHANGED persistent
    BY <1>7, <2>2 DEF SubmitDecision, DeskInv, Awaiting, Counted, DeskAssumption
  <2> QED BY <1>7, <2>3, IdleIsPlace, OneThinks DEF SubmitDecision, Leave
<1>8. ASSUME NEW op \in Decisions \cup {"rerun"}, NEW r \in Runs, CallTool(c, op, r) PROVE DeskInv'
  <2> DEFINE item == [op |-> op, run |-> r, delivery |-> NONE, queued |-> FALSE]
             h == [Idle EXCEPT !.pc = "get", !.item = item]
  <2>1. item \in Item BY DEF Item, Ops
  <2>2. h \in Place /\ Hand(h, store, approvals)
    <3> HIDE DEF item
    <3> QED BY <2>1, EarlyHand DEF Early
  <2>3. Awaiting' /\ Counted' BY <1>8 DEF CallTool, Overlap, DeskInv, Awaiting, Counted, DeskAssumption
  <2>4. proc' = [proc EXCEPT ![c] = h] /\ UNCHANGED persistent BY <1>8 DEF CallTool
  <2> HIDE DEF h
  <2> QED BY <2>2, <2>3, <2>4, OneThinks
<1> QED BY <1>1, <1>2, <1>3, <1>4, <1>5, <1>6, <1>7, <1>8 DEF Intake

LEMMA PostKeeps ==
  ASSUME DeskAssumption, DeskInv, NEW op \in {"approve", "publish"}, NEW r \in Runs, PostDecision(op, r)
  PROVE  DeskInv'
<1>1. [op |-> op, run |-> r, delivery |-> NONE, queued |-> TRUE] \in Item BY DEF Item, Ops, Decisions
<1>2. Awaiting' /\ Counted' /\ UNCHANGED <<persistent, proc>>
  BY <1>1 DEF PostDecision, Keep, DeskInv, Awaiting, Counted, DeskAssumption
<1> QED BY <1>2, NobodyWorks

LEMMA TakeKeeps == ASSUME DeskAssumption, DeskInv, NEW w \in Workers, TakeWork(w) PROVE DeskInv'
<1> DEFINE h == [Idle EXCEPT !.pc = IF Head(queue).op = "review" THEN "start" ELSE "get",
                             !.item = Head(queue)]
<1>1. Head(queue) \in Item /\ Tail(queue) \in Seq(Item) /\ Len(Tail(queue)) = Len(queue) - 1 /\ Len(queue) \in Nat
  BY HeadTailProperties, LenProperties DEF TakeWork, DeskInv, Awaiting
<1>2. h \in Place /\ Hand(h, store, approvals)
  <2>1. (IF Head(queue).op = "review" THEN "start" ELSE "get") \in Early BY DEF Early
  <2> QED BY <1>1, <2>1, EarlyHand
<1>3. Awaiting' /\ Counted'
  <2>1. Head(queue).run \in Runs BY <1>1 DEF Item
  <2> QED BY <1>1, <2>1 DEF TakeWork, Overlap, DeskInv, Awaiting, Counted, DeskAssumption, counters
<1>4. proc' = [proc EXCEPT ![w] = h] /\ UNCHANGED persistent BY DEF TakeWork
<1> HIDE DEF h
<1> QED BY <1>2, <1>3, <1>4, CallersAndWorkers, OneThinks

(***************************************************************************)
(* Work.                                                                    *)
(***************************************************************************)
LEMMA Held ==
  ASSUME DeskInv, NEW p \in Procs, proc[p].pc \in Holding
  PROVE  /\ proc[p] \in Place /\ Hand(proc[p], store, approvals)
         /\ proc[p].pc # "idle" /\ proc[p].item \in Item /\ RunOf(p) \in Runs
         /\ Whole(proc[p].rc) /\ store[RunOf(p)] \in Row
BY DEF DeskInv, AtWork, Hand, Holding, RunOf, Item

\* A row is written by somebody whose approval, if it has one, is on record.
LEMMA RowWritten ==
  ASSUME Recorded, NEW r \in Runs, NEW row, Whole(row), WriteRow(r, row),
         approvals' \in [Runs -> SUBSET Reports],
         \A s \in Runs : approvals[s] \subseteq approvals'[s],
         row.approved => row.final \in approvals'[r],
         UNCHANGED <<thread, memory>>
  PROVE  Recorded' /\ Grows
<1>1. store' = [store EXCEPT ![r] = row] /\ row \in Row BY DEF WriteRow, Whole
<1>2. store' \in [Runs -> Row \cup {NONE}] BY <1>1 DEF Recorded
<1>3. StoredIn(store', approvals') BY <1>1 DEF Recorded, StoredIn
<1>4. Grows BY <1>1 DEF Grows, Recorded
<1> QED BY <1>2, <1>3, <1>4 DEF Recorded, Granted

\* A process goes on with a row in its hands.
LEMMA HandsOn ==
  ASSUME NEW h \in Place, h.item \in Item, NEW st, st[h.item.run] \in Row, NEW ap, NEW rc, Whole(rc),
         NEW pc \in {"review", "save", "update", "list"}, NEW to \in Status \ {"running"},
         pc = "save" /\ to \in {"failed", "ignored"} => ~rc.approved,
         pc = "list" => to \in {"drafted", "finalizing"},
         pc = "list" /\ to = "drafted" => rc.draft \in Drafts /\ ~rc.approved,
         pc # "review" /\ to \in {"finalizing", "finalized"} => rc.approved,
         pc \in {"update", "list"} /\ rc.approved => Granted(ap, h.item.run, {rc.final})
  PROVE  LET n == [h EXCEPT !.pc = pc, !.rc = rc, !.to = to] IN n \in Place /\ Hand(n, st, ap)
<1> DEFINE n == [h EXCEPT !.pc = pc, !.rc = rc, !.to = to]
<1>1. /\ n.pc = pc /\ n.rc = rc /\ n.to = to /\ n.item = h.item BY DEF Place
<1>2. n \in Place BY DEF Place, Steps, Whole
<1>3. Hand(n, st, ap)
  <2> HIDE DEF n
  <2> QED BY <1>1 DEF Hand, Holding
<1> QED BY <1>2, <1>3

LEMMA FreshIsWhole == Whole(Fresh) /\ ~Fresh.approved
<1>1. Fresh \in Row BY DEF Fresh, Row, Status
<1> QED BY <1>1 DEF Whole, Fresh

LEMMA StartKeeps == ASSUME DeskInv, NEW p \in Procs, StartRun(p) PROVE DeskInv'
<1> DEFINE h == [proc[p] EXCEPT !.pc = "review", !.rc = Fresh, !.gen = gen + 1]
<1>1. proc[p] \in Place /\ proc[p].item \in Item /\ RunOf(p) \in Runs /\ gen \in Nat
  BY EarlyMoves DEF StartRun, At, Early, DeskInv, AtWork, Counted
<1>2. WriteRow(RunOf(p), Fresh) /\ approvals' = approvals /\ UNCHANGED <<thread, memory>> BY DEF StartRun
<1>3. Recorded' /\ Grows BY <1>1, <1>2, FreshIsWhole, RowWritten DEF DeskInv, Recorded
<1>4. store'[RunOf(p)] = Fresh BY <1>1, <1>2 DEF WriteRow, DeskInv, Recorded
<1>5. h \in Place /\ Hand(h, store', approvals')
  <2>1. h \in Place
    <3>1. Fresh \in Row /\ gen + 1 \in Nat /\ "review" \in Steps BY <1>1, FreshIsWhole DEF Whole, Steps
    <3> QED BY <1>1, <3>1 DEF Place
  <2>2. h.pc = "review" /\ h.rc = Fresh /\ h.item = proc[p].item BY <1>1 DEF Place
  <2> HIDE DEF h
  <2> QED BY <1>1, <1>4, <2>1, <2>2, FreshIsWhole DEF Hand, Holding, RunOf, Whole
<1>6. proc' = [proc EXCEPT ![p] = h] BY DEF StartRun
<1>7. AtWork'
  <2> HIDE DEF h
  <2> QED BY <1>3, <1>5, <1>6, OneWorks DEF DeskInv
<1>8. Awaiting' /\ Counted' BY <1>1 DEF StartRun, DeskInv, Awaiting, Counted, volatile
<1> QED BY <1>3, <1>7, <1>8 DEF DeskInv

LEMMA Decided == {"failed", "ignored", "drafted", "finalizing"} \subseteq Status \ {"running"}
BY DEF Status

\* Somebody decides what to do with a row; nothing is written yet.
LEMMA DecidesWell ==
  ASSUME DeskInv, NEW p \in Procs, NEW pc \in {"save", "update", "list"}, NEW rc, NEW to \in Status \ {"running"},
         proc[p].item \in Item, store[RunOf(p)] \in Row, Whole(rc),
         proc' = [proc EXCEPT ![p].pc = pc, ![p].rc = rc, ![p].to = to], Keep, UNCHANGED <<volatile, counters>>,
         pc = "save" /\ to \in {"failed", "ignored"} => ~rc.approved,
         pc = "list" => to = "drafted" /\ rc.draft \in Drafts /\ ~rc.approved,
         to \in {"finalizing", "finalized"} => rc.approved,
         pc = "update" /\ rc.approved => Granted(approvals, RunOf(p), {rc.final})
  PROVE  DeskInv'
<1> DEFINE h == [proc[p] EXCEPT !.pc = pc, !.rc = rc, !.to = to]
<1>1. proc[p] \in Place BY DEF DeskInv, AtWork
<1>2. h \in Place /\ Hand(h, store, approvals) BY <1>1, HandsOn DEF RunOf
<1>3. proc' = [proc EXCEPT ![p] = h] OBVIOUS
<1>4. Awaiting' /\ Counted' /\ UNCHANGED persistent BY DEF Keep, volatile, counters, DeskInv, Awaiting, Counted
<1> HIDE DEF h
<1> QED BY <1>2, <1>3, <1>4, OneThinks

LEMMA ReviewKeeps == ASSUME DeskInv, NEW p \in Procs, ReviewChange(p) PROVE DeskInv'
<1> DEFINE drafted(shown) == [Fresh EXCEPT !.draft = [gen |-> proc[p].gen, shows |-> shown], !.findings = shown]
<1>1. proc[p].pc \in Holding BY DEF ReviewChange, At, Holding
<1>2. proc[p] \in Place /\ proc[p].item \in Item /\ store[RunOf(p)] \in Row BY <1>1, Held
<1>3. \A shown \in SUBSET Findings :
        Whole(drafted(shown)) /\ ~drafted(shown).approved /\ drafted(shown).draft \in Drafts
  BY <1>2 DEF Place, Fresh, Whole, Row, Drafts, Status
<1>4. Keep /\ UNCHANGED <<volatile, counters>> BY DEF ReviewChange
<1> DEFINE next(pc, rc, to) == proc' = [proc EXCEPT ![p].pc = pc, ![p].rc = rc, ![p].to = to]
<1>5. \/ next("update", Fresh, "failed")
      \/ \E to \in {"failed", "ignored"} : next("save", Fresh, to)
      \/ \E shown \in SUBSET Findings :
           \/ next("save", drafted(shown), "failed")
           \/ next("list", drafted(shown), "drafted")
  BY DEF ReviewChange
<1>6. {"failed", "ignored", "drafted"} \subseteq Status \ {"running"} BY Decided
<1>7. CASE next("update", Fresh, "failed") BY <1>2, <1>4, <1>6, <1>7, FreshIsWhole, DecidesWell
<1>8. ASSUME NEW to \in {"failed", "ignored"}, next("save", Fresh, to) PROVE DeskInv'
  BY <1>2, <1>4, <1>6, <1>8, FreshIsWhole, DecidesWell
<1>9. ASSUME NEW shown \in SUBSET Findings, next("save", drafted(shown), "failed") PROVE DeskInv'
  <2> DEFINE rc == drafted(shown)
  <2>1. Whole(rc) /\ ~rc.approved BY <1>3
  <2>2. next("save", rc, "failed") BY <1>9
  <2> HIDE DEF rc
  <2> QED BY <1>2, <1>4, <1>6, <2>1, <2>2, DecidesWell
<1>10. ASSUME NEW shown \in SUBSET Findings, next("list", drafted(shown), "drafted") PROVE DeskInv'
  <2> DEFINE rc == drafted(shown)
  <2>1. Whole(rc) /\ ~rc.approved /\ rc.draft \in Drafts BY <1>3
  <2>2. next("list", rc, "drafted") BY <1>10
  <2> HIDE DEF rc
  <2> QED BY <1>2, <1>4, <1>6, <2>1, <2>2, DecidesWell
<1> QED BY <1>5, <1>7, <1>8, <1>9, <1>10

(***************************************************************************)
(* Decisions.                                                               *)
(***************************************************************************)
LEMMA ReadsWell ==
  ASSUME DeskInv, NEW p \in Procs, At(p, "get"), store[RunOf(p)] # NONE
  PROVE  LET row == store[RunOf(p)] IN
         /\ proc[p].item \in Item /\ RunOf(p) \in Runs
         /\ row \in Row /\ Whole(row)
         /\ row.approved => row.final \in approvals[RunOf(p)]
<1>1. proc[p].item \in Item /\ RunOf(p) \in Runs BY EarlyMoves DEF At, Early
<1> QED BY <1>1 DEF DeskInv, Recorded, StoredIn, Whole

LEMMA ApproveKeeps == ASSUME DeskInv, NEW p \in Procs, ApproveRun(p) PROVE DeskInv'
<1> DEFINE row == store[RunOf(p)]
<1>1. At(p, "get") /\ row # NONE /\ row.draft # NONE BY DEF ApproveRun, Reads
<1>2. proc[p].item \in Item /\ row \in Row /\ Whole(row) BY <1>1, ReadsWell
<1>3. PICK report \in {row.draft, TYPED} :
        Decide(p, [row EXCEPT !.approved = TRUE, !.final = report], "save", "finalizing")
  BY DEF ApproveRun
<1> DEFINE rc == [row EXCEPT !.approved = TRUE, !.final = report]
<1>4. report \in Reports BY <1>1, <1>2 DEF Row, Reports
<1>5. Whole(rc) /\ rc.approved
  <2>1. rc \in Row /\ rc.findings = row.findings /\ rc.draft = row.draft /\ rc.final = report /\ rc.approved
    BY <1>2, <1>4 DEF Row
  <2> HIDE DEF rc, row
  <2> QED BY <1>2, <1>4, <2>1 DEF Whole
<1>6. Decide(p, rc, "save", "finalizing") BY <1>3
<1> HIDE DEF rc
<1> QED BY <1>2, <1>5, <1>6, Decided, DecidesWell DEF Decide

LEMMA PublishKeeps == ASSUME DeskInv, NEW p \in Procs, PublishFinal(p) PROVE DeskInv'
<1> DEFINE row == store[RunOf(p)]
<1>1. At(p, "get") /\ row # NONE /\ row.approved BY DEF PublishFinal, Reads
<1>2. /\ proc[p].item \in Item /\ row \in Row /\ Whole(row)
      /\ row.final \in approvals[RunOf(p)] /\ row.final \in Reports
  BY <1>1, ReadsWell DEF Whole
<1>3. PICK report \in {row.final, TYPED} : Decide(p, [row EXCEPT !.final = report], "update", "finalizing")
  BY DEF PublishFinal
<1> DEFINE rc == [row EXCEPT !.final = report]
<1>4. report \in Reports BY <1>2 DEF Reports
<1>5. Whole(rc) /\ rc.approved /\ rc.final = report
  <2>1. /\ rc \in Row /\ rc.findings = row.findings /\ rc.draft = row.draft
        /\ rc.final = report /\ rc.approved = row.approved
    BY <1>2, <1>4 DEF Row
  <2> HIDE DEF rc, row
  <2> QED BY <1>1, <1>2, <1>4, <2>1 DEF Whole
<1>6. Granted(approvals, RunOf(p), {rc.final}) BY <1>2, <1>3, <1>5 DEF Granted
<1>7. Decide(p, rc, "update", "finalizing") BY <1>3
<1> HIDE DEF rc
<1> QED BY <1>2, <1>5, <1>6, <1>7, Decided, DecidesWell DEF Decide

\* Both ways to change a draft leave a whole row with other findings to show.
LEMMA EditKeeps ==
  ASSUME DeskInv, NEW p \in Procs, SuppressFinding(p) \/ ReviseDraft(p)
  PROVE  DeskInv'
<1> DEFINE row == store[RunOf(p)]
<1>1. At(p, "get") /\ row # NONE BY DEF SuppressFinding, ReviseDraft, Reads
<1>2. proc[p].item \in Item /\ row \in Row /\ Whole(row) BY <1>1, ReadsWell
<1>3. ASSUME NEW shown \in SUBSET Findings, NEW left \in SUBSET row.findings, row.draft \in Drafts,
             Decide(p, [row EXCEPT !.findings = left, !.draft.shows = shown], "save", "drafted")
      PROVE  DeskInv'
  <2> DEFINE rc == [row EXCEPT !.findings = left, !.draft.shows = shown]
  <2>1. /\ rc \in Row /\ rc.draft \in Drafts
        /\ rc.final = row.final /\ rc.approved = row.approved
    BY <1>2, <1>3 DEF Row, Drafts
  <2>2. Whole(rc)
    <3> HIDE DEF rc, row
    <3> QED BY <1>2, <2>1 DEF Whole
  <2>3. Decide(p, rc, "save", "drafted") BY <1>3
  <2> HIDE DEF rc
  <2> QED BY <1>2, <2>2, <2>3, Decided, DecidesWell DEF Decide
<1>4. CASE SuppressFinding(p)
  <2>1. PICK f \in row.findings :
          Decide(p, [row EXCEPT !.findings = row.findings \ {f}, !.draft.shows = row.findings \ {f}],
                 "save", "drafted")
    BY <1>4 DEF SuppressFinding
  <2>2. row.findings \in SUBSET Findings /\ row.draft \in Drafts BY <1>2, <2>1 DEF Whole, Row
  <2> HIDE DEF row
  <2> QED BY <1>3, <2>1, <2>2
<1>5. CASE ReviseDraft(p)
  <2>1. PICK shown \in SUBSET Findings : Decide(p, [row EXCEPT !.draft.shows = shown], "save", "drafted")
    BY <1>5 DEF ReviseDraft
  <2>2. row.draft \in Drafts BY <1>2, <1>5 DEF ReviseDraft, Row
  <2>3. [row EXCEPT !.draft.shows = shown] = [row EXCEPT !.findings = row.findings, !.draft.shows = shown]
    BY <1>2 DEF Row
  <2>4. Decide(p, [row EXCEPT !.findings = row.findings, !.draft.shows = shown], "save", "drafted")
    BY <2>1, <2>3
  <2> HIDE DEF row
  <2> QED BY <1>3, <2>2, <2>4
<1> QED BY <1>4, <1>5

LEMMA RerunKeeps == ASSUME DeskInv, NEW p \in Procs, RerunReview(p) PROVE DeskInv'
<1> DEFINE h == [proc[p] EXCEPT !.pc = "start", !.rc = NONE, !.to = NONE]
<1>1. proc[p] \in Place /\ proc[p].item \in Item BY EarlyMoves DEF RerunReview, Reads, At, Early, DeskInv, AtWork
<1>2. h \in Place BY <1>1 DEF Place, Steps
<1>3. h.pc = "start" /\ h.item = proc[p].item BY <1>1 DEF Place
<1>4. proc' = [proc EXCEPT ![p] = h] /\ UNCHANGED persistent BY DEF RerunReview, Decide, Keep
<1>5. Awaiting' /\ Counted'
  BY DEF RerunReview, Decide, Keep, volatile, counters, DeskInv, Awaiting, Counted
<1> HIDE DEF h
<1>6. Hand(h, store, approvals) BY <1>1, <1>3 DEF Hand, Holding
<1> QED BY <1>2, <1>4, <1>5, <1>6, OneThinks

LEMMA RefuseKeeps == ASSUME DeskInv, NEW p \in Procs, RefuseDecision(p) PROVE DeskInv'
<1>1. Ends(p, TRUE) /\ ~At(p, "idle") /\ Keep /\ UNCHANGED counters BY DEF RefuseDecision, At
<1>2. proc' = [proc EXCEPT ![p] = Idle] /\ Awaiting' BY <1>1, EndsWell
<1>3. Counted' /\ UNCHANGED persistent BY <1>1 DEF Keep, counters, DeskInv, Counted
<1> QED BY <1>2, <1>3, IdleIsPlace, OneThinks

(***************************************************************************)
(* Writing what was decided.                                                *)
(***************************************************************************)
LEMMA SaveKeeps == ASSUME DeskInv, NEW p \in Procs, SaveContext(p) PROVE DeskInv'
<1> DEFINE r == RunOf(p)
           rc == proc[p].rc
           row == [rc EXCEPT !.status = store[r].status]
           h == [proc[p] EXCEPT !.pc = "update"]
<1>1. At(p, "save") /\ proc[p].pc \in Holding BY DEF SaveContext, At, Holding
<1>2. /\ proc[p] \in Place /\ Hand(proc[p], store, approvals) /\ proc[p].item \in Item
      /\ r \in Runs /\ Whole(rc) /\ store[r] \in Row
  BY <1>1, Held
<1>3. Whole(row) /\ row.approved = rc.approved /\ row.final = rc.final
  <2>1. /\ row \in Row /\ row.findings = rc.findings /\ row.draft = rc.draft
        /\ row.final = rc.final /\ row.approved = rc.approved
    BY <1>2 DEF Row, Whole
  <2> HIDE DEF row, rc
  <2> QED BY <1>2, <2>1 DEF Whole
<1>4. /\ approvals' \in [Runs -> SUBSET Reports]
      /\ \A s \in Runs : approvals[s] \subseteq approvals'[s]
      /\ rc.approved => rc.final \in approvals'[r]
  <2>1. approvals' = IF rc.approved THEN [approvals EXCEPT ![r] = approvals[r] \cup {rc.final}] ELSE approvals
    BY DEF SaveContext
  <2>2. approvals \in [Runs -> SUBSET Reports] BY DEF DeskInv, Recorded
  <2>3. rc.approved => rc.final \in Reports BY <1>2 DEF Whole
  <2> HIDE DEF r, rc
  <2>4. CASE rc.approved BY <1>2, <2>1, <2>2, <2>3, <2>4
  <2>5. CASE ~rc.approved BY <2>1, <2>2, <2>5
  <2> QED BY <2>4, <2>5
<1>5. WriteRow(r, row) /\ UNCHANGED <<thread, memory>> BY DEF SaveContext
<1>6. Recorded' /\ Grows
  <2> HIDE DEF row, r, rc
  <2> QED BY <1>2, <1>3, <1>4, <1>5, RowWritten DEF DeskInv
<1>7. h \in Place /\ Hand(h, store', approvals')
  <2>1. h \in Place BY <1>2 DEF Place, Steps
  <2>2. h.pc = "update" /\ h.rc = rc /\ h.to = proc[p].to /\ h.item = proc[p].item BY <1>2 DEF Place
  <2>3. /\ proc[p].to \in Status \ {"running"}
        /\ proc[p].to \in {"finalizing", "finalized"} => rc.approved
    BY <1>1, <1>2 DEF Hand, At
  <2>4. store'[r] \in Row BY <1>2, <1>6 DEF Grows
  <2>5. rc.approved => Granted(approvals', r, {rc.final}) BY <1>4 DEF Granted
  <2> HIDE DEF h
  <2> QED BY <1>2, <2>1, <2>2, <2>3, <2>4, <2>5 DEF Hand, Holding, RunOf
<1>8. proc' = [proc EXCEPT ![p] = h] BY DEF SaveContext, Goto
<1>9. AtWork'
  <2> HIDE DEF h
  <2> QED BY <1>6, <1>7, <1>8, OneWorks DEF DeskInv
<1>10. Awaiting' /\ Counted' BY DEF SaveContext, DeskInv, Awaiting, Counted, volatile, counters
<1> QED BY <1>6, <1>9, <1>10 DEF DeskInv

LEMMA UpdateKeeps == ASSUME DeskInv, NEW p \in Procs, UpdateStatus(p) PROVE DeskInv'
<1> DEFINE r == RunOf(p)
           rc == proc[p].rc
           row == [store[r] EXCEPT !.status = proc[p].to]
           h == [proc[p] EXCEPT !.pc = "list"]
<1>1. At(p, "update") /\ proc[p].pc \in Holding BY DEF UpdateStatus, At, Holding
<1>2. /\ proc[p] \in Place /\ Hand(proc[p], store, approvals) /\ proc[p].item \in Item
      /\ r \in Runs /\ Whole(rc) /\ store[r] \in Row
  BY <1>1, Held
<1>3. Whole(store[r]) /\ (store[r].approved => store[r].final \in approvals[r])
  BY <1>2 DEF DeskInv, Recorded, StoredIn
<1>4. proc[p].to \in Status /\ (proc[p].to = "finalizing" => rc.approved)
      /\ (rc.approved => Granted(approvals, r, {rc.final}))
  BY <1>1, <1>2 DEF Hand, At, RunOf
<1>5. Whole(row) /\ row.approved = store[r].approved /\ row.final = store[r].final
  <2>1. /\ row \in Row /\ row.findings = store[r].findings /\ row.draft = store[r].draft
        /\ row.final = store[r].final /\ row.approved = store[r].approved
    BY <1>2, <1>4 DEF Row
  <2> HIDE DEF row, r
  <2> QED BY <1>3, <2>1 DEF Whole
<1>6. WriteRow(r, row) /\ UNCHANGED <<thread, memory, approvals>> BY DEF UpdateStatus
<1>7. Recorded' /\ Grows
  <2> HIDE DEF row, r, rc
  <2> QED BY <1>2, <1>3, <1>5, <1>6, RowWritten DEF DeskInv, Recorded
<1>8. CASE proc[p].to = "finalizing"
  <2>1. proc' = [proc EXCEPT ![p] = h] /\ UNCHANGED volatile BY <1>8 DEF UpdateStatus, Goto
  <2>2. h \in Place /\ Hand(h, store', approvals')
    <3>1. h \in Place BY <1>2 DEF Place, Steps
    <3>2. h.pc = "list" /\ h.rc = rc /\ h.to = "finalizing" /\ h.item = proc[p].item BY <1>2, <1>8 DEF Place
    <3>3. store'[r] \in Row BY <1>2, <1>7 DEF Grows
    <3>4. Granted(approvals', r, {rc.final}) BY <1>4, <1>6, <1>8
    <3>5. rc.approved BY <1>4, <1>8
    <3> HIDE DEF h
    <3> QED BY <1>2, <3>1, <3>2, <3>3, <3>4, <3>5 DEF Hand, Holding, RunOf
  <2>3. AtWork'
    <3> HIDE DEF h
    <3> QED BY <1>7, <2>1, <2>2, OneWorks DEF DeskInv
  <2>4. Awaiting' /\ Counted' BY <2>1 DEF UpdateStatus, DeskInv, Awaiting, Counted, volatile, counters
  <2> QED BY <1>7, <2>3, <2>4 DEF DeskInv
<1>9. CASE proc[p].to # "finalizing"
  <2>1. Ends(p, proc[p].to = "failed") BY <1>9 DEF UpdateStatus
  <2>2. proc' = [proc EXCEPT ![p] = Idle] /\ Awaiting' BY <1>1, <2>1, EndsWell DEF At
  <2>3. AtWork' BY <1>7, <2>2, IdleIsPlace, OneWorks DEF DeskInv
  <2>4. Counted' BY DEF UpdateStatus, DeskInv, Counted, counters
  <2> QED BY <1>7, <2>2, <2>3, <2>4 DEF DeskInv
<1> QED BY <1>8, <1>9

(***************************************************************************)
(* Publication.                                                             *)
(***************************************************************************)
\* What a process on its way to the change holds.
LEMMA Publishing ==
  ASSUME DeskInv, NEW p \in Procs, proc[p].pc \in {"list", "write", "remember"}
  PROVE  /\ proc[p] \in Place /\ Hand(proc[p], store, approvals)
         /\ proc[p].item \in Item /\ RunOf(p) \in Runs
         /\ Whole(proc[p].rc) /\ store[RunOf(p)] \in Row
         /\ proc[p].to \in {"drafted", "finalizing"}
         /\ Kind(p) = "draft" => proc[p].rc.draft \in Drafts /\ ~proc[p].rc.approved /\ proc[p].pc # "remember"
         /\ Kind(p) # "draft" => /\ Kind(p) = "final" /\ proc[p].to = "finalizing"
                                 /\ proc[p].rc.approved /\ proc[p].rc.final \in Reports
                                 /\ Granted(approvals, RunOf(p), {proc[p].rc.final})
<1>1. proc[p].pc \in Holding BY DEF Holding
<1>2. /\ proc[p] \in Place /\ Hand(proc[p], store, approvals) /\ proc[p].pc # "idle"
      /\ proc[p].item \in Item /\ RunOf(p) \in Runs
      /\ Whole(proc[p].rc) /\ store[RunOf(p)] \in Row
  BY <1>1, Held
<1>3. proc[p].to \in {"drafted", "finalizing"} /\ (proc[p].pc = "remember" => proc[p].to = "finalizing")
  BY <1>2 DEF Hand
<1>4. CASE proc[p].to = "drafted" BY <1>2, <1>3, <1>4 DEF Hand, Kind
<1>5. CASE proc[p].to = "finalizing" BY <1>2, <1>5 DEF Hand, Kind, Whole, RunOf
<1> QED BY <1>3, <1>4, <1>5

\* A failed publication is written down.
LEMMA FailsWell ==
  ASSUME DeskInv, NEW p \in Procs, proc[p].pc \in {"list", "write", "remember"}
  PROVE  LET h == [proc[p] EXCEPT !.to = "failed", !.pc = IF Kind(p) = "draft" THEN "save" ELSE "update"] IN
         /\ h \in Place /\ Hand(h, store, approvals)
         /\ Fails(p) => proc' = [proc EXCEPT ![p] = h]
<1> DEFINE pc == IF Kind(p) = "draft" THEN "save" ELSE "update"
           h == [proc[p] EXCEPT !.to = "failed", !.pc = pc]
<1>1. h \in Place BY Publishing DEF Place, Steps, Status
<1>2. h.pc = pc /\ h.to = "failed" /\ h.rc = proc[p].rc /\ h.item = proc[p].item BY Publishing DEF Place
<1>3. Fails(p) => proc' = [proc EXCEPT ![p] = h] BY DEF Fails
<1>4. Hand(h, store, approvals)
  <2> HIDE DEF h
  <2>1. "failed" \in Status BY DEF Status
  <2>2. CASE Kind(p) = "draft" BY <1>2, <2>1, <2>2, Publishing DEF Hand, Holding, RunOf
  <2>3. CASE Kind(p) # "draft" BY <1>2, <2>1, <2>3, Publishing DEF Hand, Holding, RunOf
  <2> QED BY <2>2, <2>3
<1> QED BY <1>1, <1>3, <1>4

LEMMA ListKeeps == ASSUME DeskInv, NEW p \in Procs, ListComments(p) PROVE DeskInv'
<1> DEFINE at == First(thread[RunOf(p)], Kind(p))
           h == [proc[p] EXCEPT !.pc = "write", !.at = at]
<1>1. proc[p].pc = "list" BY DEF ListComments, At
<1>2. Awaiting' /\ Counted' /\ UNCHANGED persistent
  BY DEF ListComments, Keep, DeskInv, Awaiting, Counted, volatile, counters
<1>3. CASE Fails(p) BY <1>1, <1>2, <1>3, FailsWell, OneThinks
<1>4. CASE proc' = [proc EXCEPT ![p].pc = "write", ![p].at = at]
  <2>1. at \in Nat BY <1>1, Publishing, FirstIsPlace DEF DeskInv, Recorded
  <2>2. h \in Place BY <1>1, <2>1, Publishing DEF Place, Steps
  <2>3. h.pc = "write" /\ h.to = proc[p].to /\ h.rc = proc[p].rc /\ h.item = proc[p].item
    BY <1>1, Publishing DEF Place
  <2>4. proc' = [proc EXCEPT ![p] = h] BY <1>4
  <2>5. Hand(h, store, approvals)
    <3> HIDE DEF h
    <3> QED BY <1>1, <2>3, Publishing DEF Hand, Holding
  <2> HIDE DEF h
  <2> QED BY <1>2, <2>2, <2>4, <2>5, OneThinks
<1> QED BY <1>3, <1>4 DEF ListComments

LEMMA WriteKeeps == ASSUME DeskInv, NEW p \in Procs, WriteComment(p) PROVE DeskInv'
<1> DEFINE r == RunOf(p)
           comment == [kind |-> Kind(p), body |-> Body(p)]
           at == proc[p].at
           t == IF at = 0 THEN Append(thread[r], comment) ELSE [thread[r] EXCEPT ![at] = comment]
           h == [proc[p] EXCEPT !.pc = IF Kind(p) = "draft" THEN "save" ELSE "remember"]
<1>1. proc[p].pc = "write" BY DEF WriteComment, At
<1>2. at \in Nat /\ r \in Runs BY <1>1, Publishing DEF Place
<1>3. /\ comment \in Comment
      /\ Granted(approvals, r, IF comment.kind = "final" THEN {comment.body} ELSE {})
  <2>1. CASE Kind(p) = "draft"
    <3>1. Body(p) \in Reports BY <1>1, <2>1, Publishing DEF Body, Reports
    <3> QED BY <2>1, <3>1 DEF Comment, Granted
  <2>2. CASE Kind(p) # "draft"
    <3>1. Kind(p) = "final" /\ Body(p) = proc[p].rc.final BY <1>1, <2>2, Publishing DEF Body
    <3>2. Body(p) \in Reports /\ Granted(approvals, r, {Body(p)}) BY <1>1, <2>2, <3>1, Publishing
    <3> QED BY <3>1, <3>2 DEF Comment
  <2> QED BY <2>1, <2>2
<1>4. thread' = thread \/ thread' = [thread EXCEPT ![r] = t] BY DEF WriteComment
<1>5. thread \in [Runs -> Seq(Comment)] /\ \A s \in Runs : Granted(approvals, s, Finals(thread[s]))
  BY DEF DeskInv, Recorded
<1>6. /\ t \in Seq(Comment)
      /\ Finals(t) \subseteq Finals(thread[r]) \cup (IF comment.kind = "final" THEN {comment.body} ELSE {})
  <2> HIDE DEF comment, at, r
  <2> QED BY <1>2, <1>3, <1>5, WritingOne
<1>7. Granted(approvals, r, Finals(t))
  <2> HIDE DEF comment, t
  <2> QED BY <1>2, <1>3, <1>5, <1>6 DEF Granted
<1>8. thread' \in [Runs -> Seq(Comment)] /\ \A s \in Runs : Granted(approvals, s, Finals(thread'[s]))
  <2> HIDE DEF t, r
  <2>1. CASE thread' = thread BY <1>5, <2>1
  <2>2. CASE thread' = [thread EXCEPT ![r] = t] BY <1>2, <1>5, <1>6, <1>7, <2>2
  <2> QED BY <1>4, <2>1, <2>2
<1>9. Recorded' /\ Grows
  <2>1. UNCHANGED <<store, memory, approvals>> BY DEF WriteComment
  <2> QED BY <1>8, <2>1 DEF DeskInv, Recorded, Grows, StoredIn
<1>10. Awaiting' /\ Counted' BY DEF WriteComment, DeskInv, Awaiting, Counted, volatile, counters
<1>11. UNCHANGED <<store, approvals>> BY DEF WriteComment
<1>12. CASE Fails(p)
  <2>1. AtWork' BY <1>1, <1>9, <1>11, <1>12, FailsWell, OneWorks DEF DeskInv
  <2> QED BY <1>9, <1>10, <2>1 DEF DeskInv
<1>13. CASE proc' = [proc EXCEPT ![p].pc = IF Kind(p) = "draft" THEN "save" ELSE "remember"]
  <2>1. h \in Place BY <1>1, Publishing DEF Place, Steps
  <2>2. /\ h.pc = (IF Kind(p) = "draft" THEN "save" ELSE "remember")
        /\ h.to = proc[p].to /\ h.rc = proc[p].rc /\ h.item = proc[p].item
    BY <1>1, Publishing DEF Place
  <2>3. proc' = [proc EXCEPT ![p] = h] BY <1>13
  <2>4. Hand(h, store, approvals)
    <3> HIDE DEF h
    <3>1. CASE Kind(p) = "draft"
      BY <1>1, <2>2, <3>1, Publishing DEF Hand, Holding, Kind, Status
    <3>2. CASE Kind(p) # "draft" BY <1>1, <2>2, <3>2, Publishing DEF Hand, Holding, RunOf
    <3> QED BY <3>1, <3>2
  <2> HIDE DEF h
  <2>5. AtWork' BY <1>9, <1>11, <2>1, <2>3, <2>4, OneWorks DEF DeskInv
  <2> QED BY <1>9, <1>10, <2>5 DEF DeskInv
<1> QED BY <1>12, <1>13 DEF WriteComment, Goto

LEMMA RememberKeeps == ASSUME DeskInv, NEW p \in Procs, WriteMemory(p) PROVE DeskInv'
<1> DEFINE r == RunOf(p)
           rc == proc[p].rc
           h == [proc[p] EXCEPT !.pc = "save", !.to = "finalized"]
<1>1. proc[p].pc = "remember" BY DEF WriteMemory, At
<1>2. /\ r \in Runs /\ Kind(p) # "draft" /\ rc.approved /\ rc.final \in Reports
      /\ Granted(approvals, r, {rc.final})
  BY <1>1, Publishing
<1>3. UNCHANGED <<store, thread, approvals>> BY DEF WriteMemory
<1>4. memory' = memory \/ memory' = [memory EXCEPT ![r] = memory[r] \cup {rc.final}] BY DEF WriteMemory
<1>5. memory \in [Runs -> SUBSET Reports] /\ \A s \in Runs : Granted(approvals, s, memory[s])
  BY DEF DeskInv, Recorded
<1>6. memory' \in [Runs -> SUBSET Reports] /\ \A s \in Runs : Granted(approvals, s, memory'[s])
  <2> HIDE DEF r, rc
  <2>1. CASE memory' = memory BY <1>5, <2>1
  <2>2. CASE memory' = [memory EXCEPT ![r] = memory[r] \cup {rc.final}] BY <1>2, <1>5, <2>2 DEF Granted
  <2> QED BY <1>4, <2>1, <2>2
<1>7. Recorded' /\ Grows BY <1>3, <1>6 DEF DeskInv, Recorded, Grows, StoredIn
<1>8. Awaiting' /\ Counted' BY DEF WriteMemory, DeskInv, Awaiting, Counted, volatile, counters
<1>9. CASE Fails(p)
  <2>1. AtWork' BY <1>1, <1>3, <1>7, <1>9, FailsWell, OneWorks DEF DeskInv
  <2> QED BY <1>7, <1>8, <2>1 DEF DeskInv
<1>10. CASE proc' = [proc EXCEPT ![p].pc = "save", ![p].to = "finalized"]
  <2>1. h \in Place BY <1>1, Publishing DEF Place, Steps, Status
  <2>2. h.pc = "save" /\ h.to = "finalized" /\ h.rc = rc /\ h.item = proc[p].item
    BY <1>1, Publishing DEF Place
  <2>3. proc' = [proc EXCEPT ![p] = h] BY <1>10
  <2>4. Hand(h, store, approvals)
    <3> HIDE DEF h
    <3> QED BY <1>1, <1>2, <2>2, Publishing DEF Hand, Holding, RunOf, Status
  <2> HIDE DEF h
  <2>5. AtWork' BY <1>3, <1>7, <2>1, <2>3, <2>4, OneWorks DEF DeskInv
  <2> QED BY <1>7, <1>8, <2>5 DEF DeskInv
<1> QED BY <1>9, <1>10 DEF WriteMemory

LEMMA WorkKeeps == ASSUME DeskInv, NEW p \in Procs, Work(p) PROVE DeskInv'
BY StartKeeps, ReviewKeeps, ApproveKeeps, PublishKeeps, EditKeeps, RerunKeeps, RefuseKeeps, SaveKeeps,
   UpdateKeeps, ListKeeps, WriteKeeps, RememberKeeps DEF Work

(***************************************************************************)
(* Faults.                                                                  *)
(***************************************************************************)
LEMMA DiskKeeps == ASSUME DeskAssumption, DeskInv, NEW p \in Procs, DiskFails(p) PROVE DeskInv'
<1> DEFINE h == [proc[p] EXCEPT !.pc = "update", !.to = "failed"]
<1>1. CASE /\ At(p, "save") /\ proc[p].to \in {"failed", "ignored"}
           /\ proc' = [proc EXCEPT ![p].pc = "update", ![p].to = "failed"]
           /\ UNCHANGED <<volatile, broken>>
  <2>1. /\ proc[p] \in Place /\ Hand(proc[p], store, approvals) /\ proc[p].item \in Item
        /\ Whole(proc[p].rc) /\ store[RunOf(p)] \in Row /\ ~proc[p].rc.approved
    <3>1. proc[p].pc \in Holding BY <1>1 DEF At, Holding
    <3> QED BY <1>1, <3>1, Held DEF Hand, At
  <2>2. h \in Place BY <2>1 DEF Place, Steps, Status
  <2>3. h.pc = "update" /\ h.to = "failed" /\ h.rc = proc[p].rc /\ h.item = proc[p].item
    BY <2>1 DEF Place
  <2>4. Awaiting' /\ Counted' /\ UNCHANGED persistent
    BY <1>1 DEF DiskFails, DeskInv, Awaiting, Counted, volatile, DeskAssumption
  <2>5. proc' = [proc EXCEPT ![p] = h] BY <1>1
  <2> HIDE DEF h
  <2>6. Hand(h, store, approvals) BY <2>1, <2>3 DEF Hand, Holding, RunOf, Status
  <2> QED BY <2>2, <2>4, <2>5, <2>6, OneThinks
<1>2. CASE /\ \/ At(p, "save") /\ proc[p].to \notin {"failed", "ignored"}
              \/ At(p, "update") \/ At(p, "start")
           /\ Ends(p, TRUE) /\ broken' = broken \cup {RunOf(p)}
  <2>1. ~At(p, "idle") BY <1>2 DEF At
  <2>2. proc' = [proc EXCEPT ![p] = Idle] /\ Awaiting' BY <1>2, <2>1, EndsWell
  <2>3. RunOf(p) \in Runs BY <2>1 DEF DeskInv, AtWork, Hand, At, Item, RunOf
  <2>4. Counted' /\ UNCHANGED persistent BY <1>2, <2>3 DEF DiskFails, DeskInv, Counted, DeskAssumption
  <2> QED BY <2>2, <2>4, IdleIsPlace, OneThinks
<1> QED BY <1>1, <1>2 DEF DiskFails

LEMMA PanicKeeps == ASSUME DeskAssumption, DeskInv, NEW p \in Procs, Panic(p) PROVE DeskInv'
<1>1. Ends(p, FALSE) /\ ~At(p, "idle") BY DEF Panic, Working, At
<1>2. proc' = [proc EXCEPT ![p] = Idle] /\ Awaiting' BY <1>1, EndsWell
<1>3. RunOf(p) \in Runs BY <1>1 DEF DeskInv, AtWork, Hand, At, Item, RunOf
<1>4. Counted' /\ UNCHANGED persistent BY <1>3 DEF Panic, DeskInv, Counted, DeskAssumption
<1> QED BY <1>2, <1>4, IdleIsPlace, OneThinks

LEMMA RestartKeeps == ASSUME DeskAssumption, DeskInv, Restart PROVE DeskInv'
<1>1. Recorded' BY Untouched DEF Restart, DeskInv
<1>2. AtWork' BY IdleIsPlace DEF Restart, AtWork
<1>3. Awaiting' BY DEF Restart, DeskInv, Awaiting, DeskAssumption
<1>4. Counted' BY DEF Restart, DeskInv, Counted, DeskAssumption
<1> QED BY <1>1, <1>2, <1>3, <1>4 DEF DeskInv

(***************************************************************************)
(* Well-formed at all times.                                                *)
(***************************************************************************)
LEMMA DeskInitially == ASSUME DeskAssumption, RowAssumption, Init PROVE DeskInv
<1>1. Recorded
  <2>1. <<>> \in Seq(Comment) /\ Finals(<<>>) = {} BY DEF Finals, Range
  <2>2. StoredIn(store, approvals) BY RowAssumption DEF Init, StoredIn
  <2> QED BY <2>1, <2>2 DEF Init, Recorded, Granted
<1>2. AtWork BY IdleIsPlace DEF Init, AtWork
<1>3. Awaiting /\ Counted BY DEF Init, Awaiting, Counted, DeskAssumption
<1> QED BY <1>1, <1>2, <1>3 DEF DeskInv

LEMMA DeskSteps == ASSUME DeskAssumption, DeskInv, [Next]_vars PROVE DeskInv'
<1>1. CASE Next
  <2>1. ASSUME NEW c \in Callers, Intake(c) PROVE DeskInv' BY <2>1, IntakeKeeps
  <2>2. ASSUME NEW op \in {"approve", "publish"}, NEW r \in Runs, PostDecision(op, r) PROVE DeskInv'
    BY <2>2, PostKeeps
  <2>3. ASSUME NEW w \in Workers, TakeWork(w) PROVE DeskInv' BY <2>3, TakeKeeps
  <2>4. ASSUME NEW p \in Procs, Work(p) \/ DiskFails(p) \/ Panic(p) PROVE DeskInv'
    BY <2>4, WorkKeeps, DiskKeeps, PanicKeeps
  <2>5. CASE Restart BY <2>5, RestartKeeps
  <2> QED BY <1>1, <2>1, <2>2, <2>3, <2>4, <2>5 DEF Next
<1>2. CASE UNCHANGED vars
  <2>1. Awaiting' /\ Counted' /\ UNCHANGED <<persistent, proc>>
    BY <1>2 DEF vars, persistent, DeskInv, Awaiting, Counted
  <2> QED BY <2>1, NobodyWorks
<1> QED BY <1>1, <1>2

LEMMA DeskAlways == Spec => []DeskInv
BY DeskInitially, DeskSteps, DeskAssumption, RowAssumption, PTL DEF Spec

(***************************************************************************)
(* Who works on a run, and what the change shows meanwhile.                 *)
(***************************************************************************)
\* Nobody leaves a run unfinished.
Unfinished(row) == row # NONE /\ row.status \in {"running", "finalizing"}
OnIt(r) == \E p \in Procs : proc[p].pc \in Holding /\ RunOf(p) = r
Watched == \A r \in Runs \ broken : Unfinished(store[r]) => OnIt(r)

\* One works at a time on a run that is not mixed.
Serial == \A r \in Runs \ mixed : \A p, q \in Procs : WorksOn(p, r) /\ WorksOn(q, r) => p = q

HasKind(comments, kind) == \E i \in DOMAIN comments : comments[i].kind = kind
FinalIs(comments, report) == \A i \in DOMAIN comments : comments[i].kind = "final" => comments[i].body = report
OneOfEach(comments) == \A i, j \in DOMAIN comments : comments[i].kind = comments[j].kind => i = j

\* What a run on record as finalized has: its report on the change and in memory.
Delivered(comments, mem, row, alone) ==
  /\ alone => OneOfEach(comments)
  /\ row # NONE /\ row.status = "finalized" =>
       /\ HasKind(comments, "final") /\ mem # {}
       /\ alone => row.approved /\ row.final \in mem /\ FinalIs(comments, row.final)

\* What a process that is about to write, remember or finalize relies on.
KindOf(h) == IF h.to = "drafted" THEN "draft" ELSE "final"
Finalizes(h) == h.pc \in {"save", "update"} /\ h.to = "finalized"
Relies(h, comments, mem, row, alone) ==
  /\ h.pc = "write" =>
       /\ h.at = 0 \/ (h.at \in DOMAIN comments /\ comments[h.at].kind = KindOf(h))
       /\ alone /\ h.at = 0 => ~HasKind(comments, KindOf(h))
  /\ h.pc = "remember" => HasKind(comments, "final") /\ (alone => FinalIs(comments, h.rc.final))
  /\ Finalizes(h) => /\ HasKind(comments, "final") /\ mem # {}
                     /\ alone => FinalIs(comments, h.rc.final) /\ h.rc.final \in mem
  /\ Finalizes(h) /\ h.pc = "update" /\ alone => row.approved /\ row.final = h.rc.final
  /\ alone /\ h.pc \in Holding /\ row # NONE /\ row.status = "finalized" => h.pc = "update" /\ h.to = "finalizing"

ReliesAll == \A p \in Procs : proc[p].pc \in Working =>
  LET r == RunOf(p) IN Relies(proc[p], thread[r], memory[r], store[r], r \notin mixed)
DeliveredAll == \A r \in Runs : Delivered(thread[r], memory[r], store[r], r \notin mixed)
Service == Watched /\ Serial /\ ReliesAll /\ DeliveredAll

\* Comments stay, and keep their kinds.
KeepsKinds(old, new) == \A i \in DOMAIN old : i \in DOMAIN new /\ new[i].kind = old[i].kind

LEMMA WorkingIsAtWork ==
  ASSUME DeskInv, NEW p \in Procs, proc[p].pc \in Working
  PROVE  proc[p] \in Place /\ Hand(proc[p], store, approvals) /\ proc[p].item \in Item /\ RunOf(p) \in Runs
BY DEF DeskInv, AtWork, Hand, Working, Item, RunOf

LEMMA HoldingIsWorking == Holding \subseteq Working
BY DEF Holding, Working

\* What somebody relies on in a mixed run outlasts what another one does.
LEMMA ReliesOn ==
  ASSUME NEW h, NEW old, NEW new, NEW mem, NEW more, NEW row, NEW other, NEW alone \in BOOLEAN,
         Relies(h, old, mem, row, alone), KeepsKinds(old, new), mem \subseteq more
  PROVE  Relies(h, new, more, other, FALSE)
<1>1. HasKind(old, "final") => HasKind(new, "final") BY DEF HasKind, KeepsKinds
<1>2. mem # {} => more # {} OBVIOUS
<1> QED BY <1>1, <1>2 DEF Relies, KeepsKinds

\* One process moves on the run it works on.
Moves(p, h) ==
  /\ proc' = [proc EXCEPT ![p] = h]
  /\ h.pc \in Working => h.item = proc[p].item
  /\ mixed' = mixed /\ broken \subseteq broken'
  /\ \A s \in Runs \ {RunOf(p)} : /\ store'[s] = store[s]
                                  /\ thread'[s] = thread[s] /\ memory'[s] = memory[s]

LEMMA MovesKeep ==
  ASSUME DeskInv, Service, NEW p \in Procs, proc[p].pc \in Working, NEW h, Moves(p, h),
         NEW r \in Runs, r = RunOf(p), NEW alone \in BOOLEAN, alone = (r \notin mixed),
         h.pc \in Working => Relies(h, thread'[r], memory'[r], store'[r], alone),
         Delivered(thread'[r], memory'[r], store'[r], alone),
         KeepsKinds(thread[r], thread'[r]), memory[r] \subseteq memory'[r],
         r \in broken' \/ (Unfinished(store'[r]) =>
                             h.pc \in Holding \/ (Unfinished(store[r]) /\ proc[p].pc \notin Holding))
  PROVE  Service'
<1> USE DEF Moves
<1>1. proc \in [Procs -> Place] BY DEF DeskInv, AtWork
<1>2. proc'[p] = h /\ \A q \in Procs \ {p} : proc'[q] = proc[q] BY <1>1
<1>3. \A q \in Procs : proc'[q].pc \in Working => proc[q].pc \in Working /\ proc'[q].item = proc[q].item
  BY <1>2
<1>4. Watched'
  <2> SUFFICES ASSUME NEW s \in Runs \ broken', Unfinished(store'[s])
               PROVE  \E q \in Procs : proc'[q].pc \in Holding /\ proc'[q].item.run = s
    BY DEF Watched, OnIt, RunOf, Unfinished
  <2>1. CASE s = r /\ h.pc \in Holding
    <3>1. h.item = proc[p].item BY <2>1, HoldingIsWorking
    <3> QED BY <1>2, <2>1, <3>1 DEF RunOf
  <2>2. CASE ~(s = r /\ h.pc \in Holding)
    <3>1. s \in Runs \ broken /\ Unfinished(store[s]) BY <2>2 DEF Unfinished
    <3>2. PICK q \in Procs : proc[q].pc \in Holding /\ RunOf(q) = s BY <3>1 DEF Service, Watched, OnIt
    <3>3. q # p BY <2>2, <3>2
    <3> QED BY <1>2, <3>2, <3>3 DEF RunOf
  <2> QED BY <2>1, <2>2
<1>5. Serial'
  <2> SUFFICES ASSUME NEW s \in Runs \ mixed, NEW q \in Procs, NEW q2 \in Procs,
                      proc'[q].pc \in Working, proc'[q].item.run = s,
                      proc'[q2].pc \in Working, proc'[q2].item.run = s
               PROVE  q = q2
    BY DEF Serial, WorksOn, RunOf
  <2> QED BY <1>3 DEF Service, Serial, WorksOn, RunOf
<1>6. ReliesAll'
  <2> SUFFICES ASSUME NEW q \in Procs, proc'[q].pc \in Working
               PROVE  LET s == proc'[q].item.run IN
                      Relies(proc'[q], thread'[s], memory'[s], store'[s], s \notin mixed)
    BY DEF ReliesAll, RunOf
  <2>1. CASE q = p BY <1>2, <1>3, <2>1 DEF RunOf
  <2>2. CASE q # p
    <3>1. proc'[q] = proc[q] /\ proc[q].pc \in Working BY <1>2, <2>2
    <3>2. RunOf(q) \in Runs BY <3>1, WorkingIsAtWork
    <3>3. Relies(proc[q], thread[RunOf(q)], memory[RunOf(q)], store[RunOf(q)], RunOf(q) \notin mixed)
      BY <3>1 DEF Service, ReliesAll
    <3>4. CASE RunOf(q) # r BY <3>1, <3>2, <3>3, <3>4 DEF RunOf
    <3>5. CASE RunOf(q) = r
      <4>1. alone = FALSE BY <2>2, <3>1, <3>5 DEF Service, Serial, WorksOn
      <4>2. Relies(proc[q], thread'[r], memory'[r], store'[r], FALSE) BY <3>3, <3>5, <4>1, ReliesOn
      <4>3. (r \notin mixed) = FALSE BY <4>1
      <4> QED BY <3>1, <3>5, <4>2, <4>3 DEF RunOf
    <3> QED BY <3>4, <3>5
  <2> QED BY <2>1, <2>2
<1>7. DeliveredAll'
  <2> SUFFICES ASSUME NEW s \in Runs
               PROVE  Delivered(thread'[s], memory'[s], store'[s], s \notin mixed)
    BY DEF DeliveredAll
  <2>1. CASE s = r BY <2>1
  <2>2. CASE s # r BY <2>2 DEF Service, DeliveredAll
  <2> QED BY <2>1, <2>2
<1> QED BY <1>4, <1>5, <1>6, <1>7 DEF Service

(***************************************************************************)
(* Steps that write nothing.                                                *)
(***************************************************************************)
\* Nobody who works moves.
LEMMA OffDutyKeeps ==
  ASSUME DeskInv, Service, UNCHANGED <<persistent, broken, mixed>>,
         \A q \in Procs : proc'[q] = proc[q] \/ (proc[q].pc \notin Working /\ proc'[q].pc \notin Working)
  PROVE  Service'
<1> USE DEF persistent
<1>1. Watched' BY HoldingIsWorking DEF Service, Watched, OnIt, RunOf, Unfinished
<1>2. Serial' BY DEF Service, Serial, WorksOn, RunOf
<1>3. ReliesAll' BY DEF Service, ReliesAll, RunOf
<1>4. DeliveredAll' BY DEF Service, DeliveredAll
<1> QED BY <1>1, <1>2, <1>3, <1>4 DEF Service

\* Somebody takes up work: the run is mixed from now on if it is not alone.
LEMMA ArrivalKeeps ==
  ASSUME DeskInv, Service, NEW p \in Procs, At(p, "idle"), NEW h, NEW r \in Runs,
         h.pc \in {"get", "start"}, h.item.run = r, proc' = [proc EXCEPT ![p] = h],
         Overlap(r), UNCHANGED <<persistent, broken>>
  PROVE  Service'
<1> USE DEF persistent
<1>1. proc'[p] = h /\ \A q \in Procs \ {p} : proc'[q] = proc[q] BY DEF DeskInv, AtWork
<1>2. proc[p].pc \notin Working /\ h.pc \notin Holding BY DEF At, Working, Holding
<1>3. /\ mixed \subseteq mixed' /\ \A s \in Runs \ {r} : s \in mixed' => s \in mixed
      /\ \A q \in Procs : WorksOn(q, r) => r \in mixed'
  BY DEF Overlap
<1>4. Watched'
  <2> SUFFICES ASSUME NEW s \in Runs \ broken, Unfinished(store[s])
               PROVE  \E q \in Procs : proc'[q].pc \in Holding /\ proc'[q].item.run = s
    BY DEF Watched, OnIt, RunOf, Unfinished
  <2>1. PICK q \in Procs : proc[q].pc \in Holding /\ RunOf(q) = s BY DEF Service, Watched, OnIt
  <2>2. q # p BY <1>2, <2>1, HoldingIsWorking
  <2> QED BY <1>1, <2>1, <2>2 DEF RunOf
<1>5. Serial'
  <2> SUFFICES ASSUME NEW s \in Runs \ mixed', NEW q \in Procs, NEW q2 \in Procs,
                      proc'[q].pc \in Working, proc'[q].item.run = s,
                      proc'[q2].pc \in Working, proc'[q2].item.run = s
               PROVE  q = q2
    BY DEF Serial, WorksOn, RunOf
  <2>1. CASE q # p /\ q2 # p
    BY <1>1, <1>3, <2>1 DEF Service, Serial, WorksOn, RunOf
  <2>2. CASE q = p \/ q2 = p
    <3>1. s = r BY <1>1, <2>2
    <3> QED BY <1>1, <1>3, <3>1 DEF WorksOn, RunOf
  <2> QED BY <2>1, <2>2
<1>6. ReliesAll'
  <2> SUFFICES ASSUME NEW q \in Procs, proc'[q].pc \in Working
               PROVE  LET s == proc'[q].item.run IN
                      Relies(proc'[q], thread[s], memory[s], store[s], s \notin mixed')
    BY DEF ReliesAll, RunOf
  <2>1. CASE q = p BY <1>1, <1>2, <2>1 DEF Relies, Finalizes
  <2>2. CASE q # p
    <3> DEFINE s == RunOf(q)
    <3>1. proc'[q] = proc[q] /\ proc[q].pc \in Working BY <1>1, <2>2
    <3>2. s \in Runs /\ Relies(proc[q], thread[s], memory[s], store[s], s \notin mixed)
      BY <3>1, WorkingIsAtWork DEF Service, ReliesAll
    <3>3. CASE s # r
      <4>1. (s \notin mixed') = (s \notin mixed) BY <1>3, <3>2, <3>3
      <4> QED BY <3>1, <3>2, <4>1 DEF RunOf
    <3>4. CASE s = r
      <4>1. (s \notin mixed') = FALSE BY <1>3, <3>1, <3>4 DEF WorksOn
      <4>2. KeepsKinds(thread[s], thread[s]) BY DEF KeepsKinds
      <4> HIDE DEF s
      <4>3. Relies(proc[q], thread[s], memory[s], store[s], FALSE) BY <3>2, <4>2, ReliesOn
      <4> USE DEF s
      <4> QED BY <3>1, <4>1, <4>3 DEF RunOf
    <3> QED BY <3>3, <3>4
  <2> QED BY <2>1, <2>2
<1>7. DeliveredAll'
  <2> SUFFICES ASSUME NEW s \in Runs PROVE Delivered(thread[s], memory[s], store[s], s \notin mixed')
    BY DEF DeliveredAll
  <2>1. Delivered(thread[s], memory[s], store[s], s \notin mixed) BY DEF Service, DeliveredAll
  <2>2. s \notin mixed' => s \notin mixed BY <1>3
  <2> QED BY <2>1, <2>2 DEF Delivered
<1> QED BY <1>4, <1>5, <1>6, <1>7 DEF Service

LEMMA RestartServes == ASSUME DeskInv, Service, Restart PROVE Service'
<1> USE DEF Restart, persistent
<1>1. \A q \in Procs : proc'[q].pc \notin Working BY DEF Idle, Working
<1>2. Watched'
  <2> SUFFICES ASSUME NEW s \in Runs \ broken', Unfinished(store[s]) PROVE FALSE
    BY DEF Watched, Unfinished
  <2>1. PICK q \in Procs : proc[q].pc \in Holding /\ RunOf(q) = s BY DEF Service, Watched, OnIt
  <2>2. WorksOn(q, s) BY <2>1, HoldingIsWorking DEF WorksOn
  <2> QED BY <2>2
<1>3. Serial' BY <1>1 DEF Serial, WorksOn
<1>4. ReliesAll' BY <1>1 DEF ReliesAll
<1>5. DeliveredAll' BY DEF Service, DeliveredAll
<1> QED BY <1>2, <1>3, <1>4, <1>5 DEF Service

\* Somebody who works goes on, or ends, and writes nothing.
LEMMA ThinksOn ==
  ASSUME DeskInv, Service, NEW p \in Procs, proc[p].pc \in Working, NEW h,
         NEW r, r = RunOf(p), proc' = [proc EXCEPT ![p] = h],
         h.pc \in Working => h.item = proc[p].item /\ Relies(h, thread[r], memory[r], store[r], r \notin mixed),
         UNCHANGED <<persistent, mixed>>, broken \subseteq broken',
         r \in broken' \/ h.pc \in Holding \/ proc[p].pc \notin Holding
  PROVE  Service'
<1> USE DEF persistent
<1>1. r \in Runs BY WorkingIsAtWork
<1>2. Moves(p, h) BY DEF Moves
<1>3. KeepsKinds(thread[r], thread'[r]) BY DEF KeepsKinds
<1>4. Delivered(thread[r], memory[r], store[r], r \notin mixed) BY <1>1 DEF Service, DeliveredAll
<1>5. r \in broken' \/ (Unfinished(store'[r]) =>
                          h.pc \in Holding \/ (Unfinished(store[r]) /\ proc[p].pc \notin Holding))
  OBVIOUS
<1> QED BY <1>1, <1>2, <1>3, <1>4, <1>5, MovesKeep

(***************************************************************************)
(* Steps of work.                                                           *)
(***************************************************************************)
LEMMA IdleIsDone == Idle.pc \notin Working /\ Idle.pc \notin Holding
BY DEF Idle, Working, Holding

\* What is known of the run somebody works on.
LEMMA Known ==
  ASSUME DeskInv, Service, NEW p \in Procs, proc[p].pc \in Working, NEW r, r = RunOf(p)
  PROVE  /\ r \in Runs /\ proc[p] \in Place
         /\ Relies(proc[p], thread[r], memory[r], store[r], r \notin mixed)
         /\ Delivered(thread[r], memory[r], store[r], r \notin mixed)
BY WorkingIsAtWork DEF Service, ReliesAll, DeliveredAll

LEMMA StartServes == ASSUME DeskInv, Service, NEW p \in Procs, StartRun(p) PROVE Service'
<1> DEFINE r == RunOf(p)
           h == [proc[p] EXCEPT !.pc = "review", !.rc = Fresh, !.gen = gen + 1]
<1>1. proc[p].pc = "start" /\ proc[p].pc \in Working BY DEF StartRun, At, Working
<1>2. /\ r \in Runs /\ proc[p] \in Place /\ store \in [Runs -> Row \cup {NONE}]
      /\ Delivered(thread[r], memory[r], store[r], r \notin mixed)
  BY <1>1, Known DEF DeskInv, Recorded
<1>3. /\ store' = [store EXCEPT ![r] = Fresh] /\ proc' = [proc EXCEPT ![p] = h]
      /\ UNCHANGED <<thread, memory, broken, mixed>>
  BY DEF StartRun, WriteRow
<1>4. h.pc = "review" /\ h.item = proc[p].item BY <1>2 DEF Place
<1>5. store'[r] = Fresh /\ Fresh.status = "running" BY <1>2, <1>3 DEF Fresh
<1> HIDE DEF h
<1>6. Moves(p, h) BY <1>2, <1>3, <1>4 DEF Moves
<1>7. Relies(h, thread'[r], memory'[r], store'[r], r \notin mixed) BY <1>4, <1>5 DEF Relies, Finalizes
<1>8. Delivered(thread'[r], memory'[r], store'[r], r \notin mixed) BY <1>2, <1>3, <1>5 DEF Delivered
<1>9. KeepsKinds(thread[r], thread'[r]) /\ memory[r] \subseteq memory'[r] BY <1>3 DEF KeepsKinds
<1>10. h.pc \in Holding BY <1>4 DEF Holding
<1> QED BY <1>1, <1>2, <1>6, <1>7, <1>8, <1>9, <1>10, MovesKeep

LEMMA ReviewServes == ASSUME DeskInv, Service, NEW p \in Procs, ReviewChange(p) PROVE Service'
<1> DEFINE r == RunOf(p)
<1>1. proc[p].pc = "review" /\ proc[p].pc \in Working BY DEF ReviewChange, At, Working
<1>2. /\ r \in Runs /\ proc[p] \in Place
      /\ Relies(proc[p], thread[r], memory[r], store[r], r \notin mixed)
  BY <1>1, Known
<1>3. UNCHANGED <<persistent, broken, mixed>> BY DEF ReviewChange, Keep
<1>4. \E rc : \E pc \in {"update", "save", "list"}, to \in {"failed", "ignored", "drafted"} :
        proc' = [proc EXCEPT ![p].pc = pc, ![p].rc = rc, ![p].to = to]
  BY Zenon DEF ReviewChange
<1>5. PICK rc : \E pc \in {"update", "save", "list"}, to \in {"failed", "ignored", "drafted"} :
        proc' = [proc EXCEPT ![p].pc = pc, ![p].rc = rc, ![p].to = to]
  BY <1>4
<1>6. PICK pc \in {"update", "save", "list"}, to \in {"failed", "ignored", "drafted"} :
        proc' = [proc EXCEPT ![p].pc = pc, ![p].rc = rc, ![p].to = to]
  BY <1>5
<1> DEFINE h == [proc[p] EXCEPT !.pc = pc, !.rc = rc, !.to = to]
<1>7. proc' = [proc EXCEPT ![p] = h] BY <1>6
<1>8. h.pc = pc /\ h.to = to /\ h.item = proc[p].item BY <1>2 DEF Place
<1> HIDE DEF h
<1>9. Relies(h, thread[r], memory[r], store[r], r \notin mixed)
  BY <1>1, <1>2, <1>8 DEF Relies, Finalizes, Holding
<1>10. h.pc \in Holding BY <1>8 DEF Holding
<1> QED BY <1>1, <1>3, <1>7, <1>8, <1>9, <1>10, ThinksOn

\* A decision on a run that is not on record as finalized, or to publish again.
LEMMA DecisionServes ==
  ASSUME DeskInv, Service, NEW p \in Procs, At(p, "get"), NEW pc, NEW rc, NEW to,
         \/ pc = "start" /\ to = NONE
         \/ pc = "update" /\ to = "finalizing"
         \/ pc = "save" /\ to \in {"finalizing", "drafted"} /\ store[RunOf(p)].status # "finalized",
         Decide(p, rc, pc, to)
  PROVE  Service'
<1> DEFINE r == RunOf(p)
           h == [proc[p] EXCEPT !.pc = pc, !.rc = rc, !.to = to]
<1>1. proc[p].pc = "get" /\ proc[p].pc \in Working BY DEF At, Working
<1>2. proc[p] \in Place BY <1>1, Known
<1>3. UNCHANGED <<persistent, broken, mixed>> /\ proc' = [proc EXCEPT ![p] = h] BY DEF Decide, Keep
<1>4. h.pc = pc /\ h.to = to /\ h.item = proc[p].item BY <1>2 DEF Place
<1> HIDE DEF h
<1>5. Relies(h, thread[r], memory[r], store[r], r \notin mixed) BY <1>4 DEF Relies, Finalizes, Holding
<1>6. proc[p].pc \notin Holding BY <1>1 DEF Holding
<1> QED BY <1>1, <1>3, <1>4, <1>5, <1>6, ThinksOn

LEMMA DecisionsServe ==
  ASSUME DeskInv, Service, NEW p \in Procs,
         ApproveRun(p) \/ PublishFinal(p) \/ SuppressFinding(p) \/ ReviseDraft(p) \/ RerunReview(p)
  PROVE  Service'
<1>1. CASE ApproveRun(p)
  <2>1. /\ At(p, "get") /\ store[RunOf(p)].status # "finalized"
        /\ \E rc : Decide(p, rc, "save", "finalizing")
    BY <1>1 DEF ApproveRun, Reads
  <2> QED BY <2>1, DecisionServes
<1>2. CASE PublishFinal(p)
  <2>1. At(p, "get") /\ \E rc : Decide(p, rc, "update", "finalizing") BY <1>2 DEF PublishFinal, Reads
  <2> QED BY <2>1, DecisionServes
<1>3. CASE SuppressFinding(p)
  <2>1. /\ At(p, "get") /\ store[RunOf(p)].status # "finalized"
        /\ \E rc : Decide(p, rc, "save", "drafted")
    BY <1>3 DEF SuppressFinding, Reads
  <2> QED BY <2>1, DecisionServes
<1>4. CASE ReviseDraft(p)
  <2>1. /\ At(p, "get") /\ store[RunOf(p)].status # "finalized"
        /\ \E rc : Decide(p, rc, "save", "drafted")
    BY <1>4 DEF ReviseDraft, Reads
  <2> QED BY <2>1, DecisionServes
<1>5. CASE RerunReview(p) BY <1>5, DecisionServes DEF RerunReview, Reads
<1> QED BY <1>1, <1>2, <1>3, <1>4, <1>5

\* Work that ends while it holds nothing, or is cut off.
LEMMA EndsServe ==
  ASSUME DeskInv, Service, NEW p \in Procs, proc[p].pc \in Working, NEW failed, Ends(p, failed),
         UNCHANGED <<persistent, mixed>>, broken \subseteq broken',
         proc[p].pc \in Holding => RunOf(p) \in broken'
  PROVE  Service'
<1>1. proc' = [proc EXCEPT ![p] = Idle] BY DEF Ends, Leave
<1> QED BY <1>1, IdleIsDone, ThinksOn

LEMMA SaveServes == ASSUME DeskInv, Service, NEW p \in Procs, SaveContext(p) PROVE Service'
<1> DEFINE r == RunOf(p)
           rc == proc[p].rc
           row == [rc EXCEPT !.status = store[r].status]
           h == [proc[p] EXCEPT !.pc = "update"]
<1>1. proc[p].pc = "save" /\ proc[p].pc \in Working /\ proc[p].pc \in Holding
  BY DEF SaveContext, At, Working, Holding
<1>2. /\ r \in Runs /\ proc[p] \in Place /\ store \in [Runs -> Row \cup {NONE}]
      /\ Relies(proc[p], thread[r], memory[r], store[r], r \notin mixed)
      /\ Delivered(thread[r], memory[r], store[r], r \notin mixed)
  BY <1>1, Known DEF DeskInv, Recorded
<1>3. /\ rc \in Row /\ store[r] \in Row
      /\ proc[p].to = "finalized" => rc.approved
  BY <1>1, Held DEF Whole, Hand
<1>4. /\ store' = [store EXCEPT ![r] = row] /\ proc' = [proc EXCEPT ![p] = h]
      /\ UNCHANGED <<thread, memory, broken, mixed>>
  BY DEF SaveContext, WriteRow, Goto
<1>5. h.pc = "update" /\ h.to = proc[p].to /\ h.rc = rc /\ h.item = proc[p].item BY <1>2 DEF Place
<1>6. /\ store'[r] = row /\ row \in Row /\ row.status = store[r].status
      /\ row.final = rc.final /\ row.approved = rc.approved
  <2>1. /\ row \in Row /\ row.status = store[r].status
        /\ row.final = rc.final /\ row.approved = rc.approved
    BY <1>3 DEF Row
  <2> HIDE DEF row
  <2> QED BY <1>2, <1>4, <2>1
<1>7. row # NONE /\ store[r] # NONE BY <1>3, <1>6, RowAssumption
<1> HIDE DEF h, row, rc, r
<1>8. Moves(p, h) BY <1>2, <1>4, <1>5 DEF Moves, r
<1>9. Relies(h, thread'[r], memory'[r], store'[r], r \notin mixed)
  BY <1>1, <1>2, <1>3, <1>4, <1>5, <1>6, <1>7 DEF Relies, Finalizes, Holding, rc
<1>10. Delivered(thread'[r], memory'[r], store'[r], r \notin mixed)
  BY <1>1, <1>2, <1>4, <1>6, <1>7 DEF Delivered, Relies, Holding
<1>11. KeepsKinds(thread[r], thread'[r]) /\ memory[r] \subseteq memory'[r] BY <1>4 DEF KeepsKinds
<1>12. h.pc \in Holding BY <1>5 DEF Holding
<1>13. r = RunOf(p) BY DEF r
<1> QED BY <1>1, <1>2, <1>8, <1>9, <1>10, <1>11, <1>12, <1>13, MovesKeep

LEMMA UpdateServes == ASSUME DeskInv, Service, NEW p \in Procs, UpdateStatus(p) PROVE Service'
<1> DEFINE r == RunOf(p)
           to == proc[p].to
           row == [store[r] EXCEPT !.status = to]
           h == IF to = "finalizing" THEN [proc[p] EXCEPT !.pc = "list"] ELSE Idle
<1>1. proc[p].pc = "update" /\ proc[p].pc \in Working /\ proc[p].pc \in Holding
  BY DEF UpdateStatus, At, Working, Holding
<1>2. /\ r \in Runs /\ proc[p] \in Place /\ store \in [Runs -> Row \cup {NONE}]
      /\ Relies(proc[p], thread[r], memory[r], store[r], r \notin mixed)
      /\ Delivered(thread[r], memory[r], store[r], r \notin mixed)
  BY <1>1, Known DEF DeskInv, Recorded
<1>3. store[r] \in Row /\ to \in Status \ {"running"} BY <1>1, Held DEF Hand
<1>4. /\ store' = [store EXCEPT ![r] = row] /\ proc' = [proc EXCEPT ![p] = h]
      /\ UNCHANGED <<thread, memory, broken, mixed>>
  BY DEF UpdateStatus, WriteRow, Goto, Ends, Leave
<1>5. /\ to = "finalizing" => h.pc = "list" /\ h.to = to /\ h.item = proc[p].item
      /\ to # "finalizing" => h.pc \notin Working
  BY <1>2, IdleIsDone DEF Place
<1>6. /\ store'[r] = row /\ row \in Row /\ row.status = to
      /\ row.final = store[r].final /\ row.approved = store[r].approved
  <2>1. /\ row \in Row /\ row.status = to
        /\ row.final = store[r].final /\ row.approved = store[r].approved
    BY <1>3 DEF Row
  <2> HIDE DEF row
  <2> QED BY <1>2, <1>4, <2>1
<1> HIDE DEF h, row, to, r
<1>7. Moves(p, h)
  <2>1. CASE to = "finalizing" BY <1>2, <1>4, <1>5, <2>1 DEF Moves, r
  <2>2. CASE to # "finalizing" BY <1>2, <1>4, <1>5, <2>2 DEF Moves, r
  <2> QED BY <2>1, <2>2
<1>8. h.pc \in Working => Relies(h, thread'[r], memory'[r], store'[r], r \notin mixed)
  BY <1>5, <1>6 DEF Relies, Finalizes
<1>9. Delivered(thread'[r], memory'[r], store'[r], r \notin mixed)
  BY <1>1, <1>2, <1>4, <1>6 DEF Delivered, Relies, Finalizes, to
<1>10. KeepsKinds(thread[r], thread'[r]) /\ memory[r] \subseteq memory'[r] BY <1>4 DEF KeepsKinds
<1>11. Unfinished(store'[r]) => h.pc \in Holding BY <1>3, <1>5, <1>6 DEF Unfinished, Holding
<1>12. r = RunOf(p) BY DEF r
<1> QED BY <1>1, <1>2, <1>7, <1>8, <1>9, <1>10, <1>11, <1>12, MovesKeep

(***************************************************************************)
(* Steps of publication.                                                    *)
(***************************************************************************)
Written(s, at, c) == IF at = 0 THEN Append(s, c) ELSE [s EXCEPT ![at] = c]

\* A comment that is written stands on the change, and replaces only its kind.
LEMMA WrittenOnce ==
  ASSUME NEW s \in Seq(Comment), NEW c \in Comment, NEW at \in Nat,
         at = 0 \/ (at \in DOMAIN s /\ s[at].kind = c.kind),
         NEW t, t = Written(s, at, c)
  PROVE  /\ KeepsKinds(s, t)
         /\ \E i \in DOMAIN t : t[i] = c
         /\ OneOfEach(s) /\ (at = 0 => ~HasKind(s, c.kind)) => OneOfEach(t)
<1>1. CASE at = 0
  <2>1. t = Append(s, c) BY <1>1 DEF Written
  <2>2. /\ DOMAIN Append(s, c) = 1..(Len(s) + 1) /\ DOMAIN s = 1..Len(s) /\ Len(s) \in Nat
        /\ \A i \in 1..Len(s) : Append(s, c)[i] = s[i]
        /\ Append(s, c)[Len(s) + 1] = c
    OBVIOUS
  <2>3. DOMAIN t = 1..(Len(s) + 1) /\ t[Len(s) + 1] = c /\ \A i \in DOMAIN s : t[i] = s[i] BY <2>1, <2>2
  <2>4. \A i \in DOMAIN t : i \in DOMAIN s \/ i = Len(s) + 1 BY <2>2, <2>3
  <2>5. KeepsKinds(s, t) BY <2>2, <2>3 DEF KeepsKinds
  <2>6. Len(s) + 1 \in DOMAIN t BY <2>2, <2>3
  <2>7. ASSUME OneOfEach(s), ~HasKind(s, c.kind) PROVE OneOfEach(t)
    <3> SUFFICES ASSUME NEW i \in DOMAIN t, NEW j \in DOMAIN t, t[i].kind = t[j].kind PROVE i = j
      BY DEF OneOfEach
    <3>1. CASE i \in DOMAIN s /\ j \in DOMAIN s BY <2>3, <2>7, <3>1 DEF OneOfEach
    <3>2. CASE i \in DOMAIN s /\ j = Len(s) + 1 BY <2>3, <2>7, <3>2 DEF HasKind
    <3>3. CASE j \in DOMAIN s /\ i = Len(s) + 1 BY <2>3, <2>7, <3>3 DEF HasKind
    <3> QED BY <2>4, <3>1, <3>2, <3>3
  <2> QED BY <1>1, <2>3, <2>5, <2>6, <2>7
<1>2. CASE at # 0
  <2>1. t = [s EXCEPT ![at] = c] /\ at \in DOMAIN s /\ s[at].kind = c.kind BY <1>2 DEF Written
  <2>2. DOMAIN t = DOMAIN s /\ t[at] = c /\ \A i \in DOMAIN s \ {at} : t[i] = s[i] BY <2>1
  <2>3. \A i \in DOMAIN s : t[i].kind = s[i].kind BY <2>1, <2>2
  <2> QED BY <1>2, <2>1, <2>2, <2>3 DEF KeepsKinds, OneOfEach
<1> QED BY <1>1, <1>2

\* A publication that fails goes on to say so.
LEMMA FailsRelies ==
  ASSUME DeskInv, NEW p \in Procs, proc[p].pc \in {"list", "write", "remember"}, Fails(p)
  PROVE  \E h : /\ proc' = [proc EXCEPT ![p] = h] /\ h.item = proc[p].item
                /\ h.pc \in {"save", "update"} /\ h.to = "failed"
<1> DEFINE h == [proc[p] EXCEPT !.to = "failed", !.pc = IF Kind(p) = "draft" THEN "save" ELSE "update"]
<1>1. proc[p] \in Place BY Publishing
<1>2. proc' = [proc EXCEPT ![p] = h] BY DEF Fails
<1>3. h.item = proc[p].item /\ h.pc \in {"save", "update"} /\ h.to = "failed" BY <1>1 DEF Place
<1> QED BY <1>2, <1>3

\* Nobody alone on a run publishes to it after it is finalized.
LEMMA NotYetFinal ==
  ASSUME DeskInv, Service, NEW p \in Procs, proc[p].pc \in {"list", "write", "remember"}, NEW r, r = RunOf(p)
  PROVE  /\ proc[p].pc \in Working /\ proc[p].pc \in Holding
         /\ r \in Runs /\ proc[p] \in Place
         /\ Relies(proc[p], thread[r], memory[r], store[r], r \notin mixed)
         /\ Delivered(thread[r], memory[r], store[r], r \notin mixed)
         /\ r \notin mixed /\ store[r] # NONE => store[r].status # "finalized"
<1>1. proc[p].pc \in Working /\ proc[p].pc \in Holding BY DEF Working, Holding
<1>2. /\ r \in Runs /\ proc[p] \in Place
      /\ Relies(proc[p], thread[r], memory[r], store[r], r \notin mixed)
      /\ Delivered(thread[r], memory[r], store[r], r \notin mixed)
  BY <1>1, Known
<1>3. proc[p].pc # "update" OBVIOUS
<1> QED BY <1>1, <1>2, <1>3 DEF Relies

LEMMA ListServes == ASSUME DeskInv, Service, NEW p \in Procs, ListComments(p) PROVE Service'
<1> DEFINE r == RunOf(p)
<1>1. proc[p].pc = "list" BY DEF ListComments, At
<1>2. /\ proc[p].pc \in Working /\ r \in Runs /\ proc[p] \in Place
      /\ Delivered(thread[r], memory[r], store[r], r \notin mixed)
      /\ r \notin mixed /\ store[r] # NONE => store[r].status # "finalized"
  BY <1>1, NotYetFinal
<1>3. UNCHANGED <<persistent, broken, mixed>> BY DEF ListComments, Keep
<1>4. CASE Fails(p)
  <2>1. PICK h : /\ proc' = [proc EXCEPT ![p] = h] /\ h.item = proc[p].item
                 /\ h.pc \in {"save", "update"} /\ h.to = "failed"
    BY <1>1, <1>4, FailsRelies
  <2>2. Relies(h, thread[r], memory[r], store[r], r \notin mixed) BY <1>2, <2>1 DEF Relies, Finalizes
  <2>3. h.pc \in Holding BY <2>1 DEF Holding
  <2> QED BY <1>2, <1>3, <2>1, <2>2, <2>3, ThinksOn
<1>5. CASE proc' = [proc EXCEPT ![p].pc = "write", ![p].at = First(thread[r], Kind(p))]
  <2> DEFINE at == First(thread[r], Kind(p))
             h == [proc[p] EXCEPT !.pc = "write", !.at = at]
  <2>1. proc' = [proc EXCEPT ![p] = h] BY <1>5
  <2>2. /\ h.item = proc[p].item /\ h.pc = "write" /\ h.at = at /\ h.to = proc[p].to
    BY <1>2 DEF Place
  <2>3. KindOf(h) = Kind(p) BY <2>2 DEF KindOf, Kind
  <2>4. thread[r] \in Seq(Comment) BY <1>2 DEF DeskInv, Recorded
  <2>5. /\ at = 0 => \A i \in DOMAIN thread[r] : thread[r][i].kind # Kind(p)
        /\ at # 0 => at \in DOMAIN thread[r] /\ thread[r][at].kind = Kind(p)
    BY <2>4, FirstIsPlace
  <2> HIDE DEF h, at
  <2>6. Relies(h, thread[r], memory[r], store[r], r \notin mixed)
    BY <1>2, <2>2, <2>3, <2>5 DEF Relies, Finalizes, HasKind
  <2>7. h.pc \in Holding BY <2>2 DEF Holding
  <2> QED BY <1>2, <1>3, <2>1, <2>2, <2>6, <2>7, ThinksOn
<1> QED BY <1>4, <1>5 DEF ListComments

LEMMA WriteServes == ASSUME DeskInv, Service, NEW p \in Procs, WriteComment(p) PROVE Service'
<1> DEFINE r == RunOf(p)
           comment == [kind |-> Kind(p), body |-> Body(p)]
           at == proc[p].at
           t == Written(thread[r], at, comment)
<1>1. proc[p].pc = "write" BY DEF WriteComment, At
<1>2. /\ proc[p].pc \in Working /\ proc[p].pc \in Holding /\ r \in Runs /\ proc[p] \in Place
      /\ Relies(proc[p], thread[r], memory[r], store[r], r \notin mixed)
      /\ Delivered(thread[r], memory[r], store[r], r \notin mixed)
      /\ r \notin mixed /\ store[r] # NONE => store[r].status # "finalized"
  BY <1>1, NotYetFinal
<1>3. UNCHANGED <<store, memory, broken, mixed, approvals>> BY DEF WriteComment
<1>4. PICK h : /\ proc' = [proc EXCEPT ![p] = h] /\ h.item = proc[p].item
               /\ \/ h.pc \in {"save", "update"} /\ h.to = "failed"
                  \/ /\ thread' = [thread EXCEPT ![r] = t]
                     /\ \/ Kind(p) = "draft" /\ h.pc = "save" /\ h.to = "drafted"
                        \/ Kind(p) = "final" /\ h.pc = "remember" /\ h.rc = proc[p].rc
               /\ h.pc \in Holding
  <2>1. CASE Fails(p)
    <3>1. \E h : /\ proc' = [proc EXCEPT ![p] = h] /\ h.item = proc[p].item
                 /\ h.pc \in {"save", "update"} /\ h.to = "failed"
      BY <1>1, <2>1, FailsRelies
    <3> QED BY <3>1 DEF Holding
  <2>2. CASE ~Fails(p)
    <3> DEFINE h == [proc[p] EXCEPT !.pc = IF Kind(p) = "draft" THEN "save" ELSE "remember"]
    <3>1. thread' = [thread EXCEPT ![r] = t] /\ proc' = [proc EXCEPT ![p] = h]
      BY <2>2 DEF WriteComment, Goto, Written
    <3>2. /\ h.item = proc[p].item /\ h.to = proc[p].to /\ h.rc = proc[p].rc
          /\ Kind(p) = "draft" => h.pc = "save"
          /\ Kind(p) # "draft" => h.pc = "remember"
      BY <1>2 DEF Place
    <3>3. /\ Kind(p) = "draft" => proc[p].to = "drafted"
          /\ Kind(p) # "draft" => Kind(p) = "final"
      BY DEF Kind
    <3> HIDE DEF h, t
    <3> QED BY <3>1, <3>2, <3>3 DEF Holding
  <2> QED BY <2>1, <2>2
<1>5. thread' = thread \/ thread' = [thread EXCEPT ![r] = t] BY DEF WriteComment, Written
<1>6. thread[r] \in Seq(Comment) /\ thread \in [Runs -> Seq(Comment)] BY <1>2 DEF DeskInv, Recorded
<1>7. comment \in Comment /\ comment.kind = Kind(p) /\ (Kind(p) = "final" => comment.body = proc[p].rc.final)
  <2>1. Body(p) \in Reports /\ Kind(p) \in {"draft", "final"}
    BY <1>1, Publishing DEF Body, Kind, Reports
  <2> QED BY <2>1 DEF Comment, Body
<1>8. at \in Nat /\ KindOf(proc[p]) = Kind(p) BY <1>2 DEF Place, KindOf, Kind
<1>9. /\ at = 0 \/ (at \in DOMAIN thread[r] /\ thread[r][at].kind = comment.kind)
      /\ r \notin mixed /\ at = 0 => ~HasKind(thread[r], comment.kind)
  BY <1>1, <1>2, <1>7, <1>8 DEF Relies
<1>10. /\ KeepsKinds(thread[r], t)
       /\ \E i \in DOMAIN t : t[i] = comment
       /\ OneOfEach(thread[r]) /\ (at = 0 => ~HasKind(thread[r], comment.kind)) => OneOfEach(t)
  <2> HIDE DEF comment, at, r
  <2>1. thread[r] \in Seq(Comment) BY <1>6
  <2>2. comment \in Comment BY <1>7
  <2>3. at \in Nat BY <1>8
  <2>4. at = 0 \/ (at \in DOMAIN thread[r] /\ thread[r][at].kind = comment.kind) BY <1>9
  <2>5. t = Written(thread[r], at, comment) OBVIOUS
  <2> HIDE DEF t
  <2> QED BY ONLY <2>1, <2>2, <2>3, <2>4, <2>5, WrittenOnce
<1>11. r \notin mixed => OneOfEach(thread[r]) /\ OneOfEach(t) BY <1>2, <1>9, <1>10 DEF Delivered
<1>12. Kind(p) = "final" => HasKind(t, "final") BY <1>7, <1>10 DEF HasKind
<1>13. Kind(p) = "final" /\ r \notin mixed => FinalIs(t, proc[p].rc.final)
  BY <1>7, <1>10, <1>11 DEF FinalIs, OneOfEach
<1> HIDE DEF comment, t, at
<1>14. thread'[r] = thread[r] \/ thread'[r] = t BY <1>2, <1>5, <1>6
<1>15. KeepsKinds(thread[r], thread'[r]) BY <1>10, <1>14 DEF KeepsKinds
<1>16. Delivered(thread'[r], memory'[r], store'[r], r \notin mixed)
  <2>1. r \notin mixed => OneOfEach(thread'[r]) BY <1>11, <1>14
  <2>2. HasKind(thread[r], "final") => HasKind(thread'[r], "final") BY <1>15 DEF HasKind, KeepsKinds
  <2> QED BY <1>2, <1>3, <2>1, <2>2 DEF Delivered
<1>17. Relies(h, thread'[r], memory'[r], store'[r], r \notin mixed)
  <2>1. CASE h.pc \in {"save", "update"} /\ h.to \in {"failed", "drafted"}
    BY <1>2, <1>3, <2>1 DEF Relies, Finalizes
  <2>2. CASE Kind(p) = "final" /\ h.pc = "remember" /\ h.rc = proc[p].rc /\ thread' = [thread EXCEPT ![r] = t]
    <3>1. thread'[r] = t BY <1>2, <1>6, <2>2
    <3> QED BY <1>2, <1>3, <1>12, <1>13, <2>2, <3>1 DEF Relies, Finalizes
  <2> QED BY <1>4, <2>1, <2>2
<1>18. Moves(p, h)
  <2>1. \A s \in Runs \ {r} : thread'[s] = thread[s] BY <1>5, <1>6
  <2> QED BY <1>3, <1>4, <2>1 DEF Moves
<1> HIDE DEF r
<1>19. r = RunOf(p) BY DEF r
<1> QED BY <1>2, <1>3, <1>4, <1>15, <1>16, <1>17, <1>18, <1>19, MovesKeep

LEMMA RememberServes == ASSUME DeskInv, Service, NEW p \in Procs, WriteMemory(p) PROVE Service'
<1> DEFINE r == RunOf(p)
           final == proc[p].rc.final
<1>1. proc[p].pc = "remember" BY DEF WriteMemory, At
<1>2. /\ proc[p].pc \in Working /\ proc[p].pc \in Holding /\ r \in Runs /\ proc[p] \in Place
      /\ Relies(proc[p], thread[r], memory[r], store[r], r \notin mixed)
      /\ Delivered(thread[r], memory[r], store[r], r \notin mixed)
      /\ r \notin mixed /\ store[r] # NONE => store[r].status # "finalized"
  BY <1>1, NotYetFinal
<1>3. UNCHANGED <<store, thread, broken, mixed, approvals>> BY DEF WriteMemory
<1>4. CASE Fails(p) /\ memory' = memory
  <2>1. PICK h : /\ proc' = [proc EXCEPT ![p] = h] /\ h.item = proc[p].item
                 /\ h.pc \in {"save", "update"} /\ h.to = "failed"
    BY <1>1, <1>4, FailsRelies
  <2>2. Relies(h, thread[r], memory[r], store[r], r \notin mixed) BY <1>2, <2>1 DEF Relies, Finalizes
  <2>3. h.pc \in Holding BY <2>1 DEF Holding
  <2>4. UNCHANGED persistent BY <1>3, <1>4 DEF persistent
  <2> QED BY <1>2, <1>3, <2>1, <2>2, <2>3, <2>4, ThinksOn
<1>5. CASE ~(Fails(p) /\ memory' = memory)
  <2> DEFINE h == [proc[p] EXCEPT !.pc = "save", !.to = "finalized"]
  <2>1. memory' = [memory EXCEPT ![r] = @ \cup {final}] /\ proc' = [proc EXCEPT ![p] = h]
    BY <1>5 DEF WriteMemory
  <2>2. h.item = proc[p].item /\ h.pc = "save" /\ h.to = "finalized" /\ h.rc = proc[p].rc
    BY <1>2 DEF Place
  <2>3. memory \in [Runs -> SUBSET Reports] BY DEF DeskInv, Recorded
  <2> HIDE DEF h
  <2>4. memory'[r] = memory[r] \cup {final} BY <1>2, <2>1, <2>3
  <2>5. \A s \in Runs \ {r} : memory'[s] = memory[s] BY <2>1, <2>3
  <2>6. Moves(p, h) BY <1>3, <2>1, <2>2, <2>5 DEF Moves
  <2>7. Relies(h, thread'[r], memory'[r], store'[r], r \notin mixed)
    BY <1>1, <1>2, <1>3, <2>2, <2>4 DEF Relies, Finalizes
  <2>8. Delivered(thread'[r], memory'[r], store'[r], r \notin mixed)
    BY <1>2, <1>3, <2>4 DEF Delivered
  <2>9. KeepsKinds(thread[r], thread'[r]) /\ memory[r] \subseteq memory'[r]
    BY <1>3, <2>4 DEF KeepsKinds
  <2>10. h.pc \in Holding BY <2>2 DEF Holding
  <2> HIDE DEF r
  <2>11. r = RunOf(p) BY DEF r
  <2> QED BY <1>2, <2>6, <2>7, <2>8, <2>9, <2>10, <2>11, MovesKeep
<1> QED BY <1>4, <1>5

LEMMA DiskServes == ASSUME DeskInv, Service, NEW p \in Procs, DiskFails(p) PROVE Service'
<1> DEFINE r == RunOf(p)
<1>1. UNCHANGED <<persistent, mixed>> BY DEF DiskFails
<1>2. CASE /\ At(p, "save") /\ proc[p].to \in {"failed", "ignored"}
           /\ proc' = [proc EXCEPT ![p].pc = "update", ![p].to = "failed"]
           /\ UNCHANGED <<volatile, broken>>
  <2> DEFINE h == [proc[p] EXCEPT !.pc = "update", !.to = "failed"]
  <2>1. proc[p].pc = "save" /\ proc[p].pc \in Working BY <1>2 DEF At, Working
  <2>2. /\ r \in Runs /\ proc[p] \in Place
        /\ Relies(proc[p], thread[r], memory[r], store[r], r \notin mixed)
    BY <2>1, Known
  <2>3. proc' = [proc EXCEPT ![p] = h] BY <1>2
  <2>4. h.item = proc[p].item /\ h.pc = "update" /\ h.to = "failed" BY <2>2 DEF Place
  <2> HIDE DEF h
  <2>5. r \notin mixed /\ store[r] # NONE => store[r].status # "finalized"
    BY <2>1, <2>2 DEF Relies, Holding
  <2>6. Relies(h, thread[r], memory[r], store[r], r \notin mixed) BY <2>4, <2>5 DEF Relies, Finalizes
  <2>7. h.pc \in Holding BY <2>4 DEF Holding
  <2> QED BY <1>1, <1>2, <2>1, <2>2, <2>3, <2>4, <2>6, <2>7, ThinksOn
<1>3. CASE /\ \/ At(p, "save") /\ proc[p].to \notin {"failed", "ignored"}
              \/ At(p, "update") \/ At(p, "start")
           /\ Ends(p, TRUE) /\ broken' = broken \cup {r}
  <2>1. proc[p].pc \in Working BY <1>3 DEF At, Working
  <2>2. r \in broken' /\ broken \subseteq broken' BY <1>3
  <2> QED BY <1>1, <1>3, <2>1, <2>2, EndsServe
<1> QED BY <1>2, <1>3 DEF DiskFails

LEMMA PanicServes == ASSUME DeskInv, Service, NEW p \in Procs, Panic(p) PROVE Service'
<1>1. Ends(p, FALSE) /\ proc[p].pc \in Working /\ UNCHANGED <<persistent, mixed>> BY DEF Panic
<1>2. RunOf(p) \in broken' /\ broken \subseteq broken' BY DEF Panic
<1> QED BY <1>1, <1>2, EndsServe

LEMMA RefusalServes == ASSUME DeskInv, Service, NEW p \in Procs, RefuseDecision(p) PROVE Service'
<1>1. /\ proc[p].pc \in Working /\ proc[p].pc \notin Holding
      /\ Ends(p, TRUE) /\ UNCHANGED <<persistent, broken, mixed>>
  BY DEF RefuseDecision, At, Working, Holding, Keep
<1> QED BY <1>1, EndsServe

(***************************************************************************)
(* Steps of intake.                                                         *)
(***************************************************************************)
LEMMA IntakeServes == ASSUME DeskAssumption, DeskInv, Service, NEW c \in Callers, Intake(c) PROVE Service'
<1> USE CallersAndWorkers
<1>0. proc \in [Procs -> Place] BY DEF DeskInv, AtWork
<1>1. ASSUME NEW r \in Runs, NEW d \in Deliveries \cup {NONE}, IsRunActive(c, r, d) PROVE Service'
  <2> DEFINE h == [Idle EXCEPT !.pc = "look",
                     !.item = [op |-> "review", run |-> r, delivery |-> d, queued |-> TRUE]]
  <2>1. proc' = proc \/ proc' = [proc EXCEPT ![c] = h] BY <1>1 DEF IsRunActive
  <2>2. h.pc = "look" BY DEF Idle
  <2>3. proc[c].pc = "idle" /\ UNCHANGED <<persistent, broken, mixed>> BY <1>1 DEF IsRunActive, At, Keep
  <2> HIDE DEF h
  <2>4. \A q \in Procs : proc'[q] = proc[q] \/ (proc[q].pc \notin Working /\ proc'[q].pc \notin Working)
    BY <1>0, <2>1, <2>2, <2>3 DEF Working
  <2> QED BY <2>3, <2>4, OffDutyKeeps
<1>2. ASSUME LookAtRun(c) \/ ClaimDelivery(c) \/ MarkRunActive(c) \/ EnqueueReview(c) \/ SubmitDecision(c)
      PROVE  Service'
  <2>1. /\ proc[c].pc \in {"look", "claim", "mark", "enqueue", "submit"}
        /\ UNCHANGED <<persistent, broken, mixed>>
    BY <1>2 DEF LookAtRun, ClaimDelivery, MarkRunActive, EnqueueReview, SubmitDecision, At, Keep
  <2>2. \/ proc' = [proc EXCEPT ![c] = Idle]
        \/ \E pc \in {"claim", "mark", "enqueue"} : proc' = [proc EXCEPT ![c].pc = pc]
    BY <1>2 DEF LookAtRun, ClaimDelivery, MarkRunActive, EnqueueReview, SubmitDecision, Goto, Leave
  <2>3. proc'[c].pc \notin Working
    <3>1. CASE proc' = [proc EXCEPT ![c] = Idle] BY <1>0, <3>1, IdleIsDone
    <3>2. CASE \E pc \in {"claim", "mark", "enqueue"} : proc' = [proc EXCEPT ![c].pc = pc]
      BY <1>0, <3>2 DEF Working, Place
    <3> QED BY <2>2, <3>1, <3>2
  <2>4. \A q \in Procs \ {c} : proc'[q] = proc[q] BY <1>0, <2>2
  <2>5. proc[c].pc \notin Working BY <2>1 DEF Working
  <2> QED BY <2>1, <2>3, <2>4, <2>5, OffDutyKeeps
<1>3. ASSUME NEW op \in Decisions \ {"publish"}, NEW r \in Runs, NEW d \in Deliveries,
             ReceiveMessage(c, op, r, d)
      PROVE  Service'
  <2> DEFINE h == [Idle EXCEPT !.pc = "submit",
                     !.item = [op |-> op, run |-> r, delivery |-> d, queued |-> TRUE]]
  <2>1. proc' = proc \/ proc' = [proc EXCEPT ![c] = h] BY <1>3 DEF ReceiveMessage
  <2>2. h.pc = "submit" BY DEF Idle
  <2>3. proc[c].pc = "idle" /\ UNCHANGED <<persistent, broken, mixed>> BY <1>3 DEF ReceiveMessage, At, Keep
  <2> HIDE DEF h
  <2>4. \A q \in Procs : proc'[q] = proc[q] \/ (proc[q].pc \notin Working /\ proc'[q].pc \notin Working)
    BY <1>0, <2>1, <2>2, <2>3 DEF Working
  <2> QED BY <2>3, <2>4, OffDutyKeeps
<1>4. ASSUME NEW op \in Decisions \cup {"rerun"}, NEW r \in Runs, CallTool(c, op, r) PROVE Service'
  <2> DEFINE h == [Idle EXCEPT !.pc = "get",
                     !.item = [op |-> op, run |-> r, delivery |-> NONE, queued |-> FALSE]]
  <2>1. proc' = [proc EXCEPT ![c] = h] /\ At(c, "idle") /\ Overlap(r) /\ UNCHANGED <<persistent, broken>>
    BY <1>4 DEF CallTool
  <2>2. h.pc \in {"get", "start"} /\ h.item.run = r BY DEF Idle
  <2> HIDE DEF h
  <2> QED BY <2>1, <2>2, ArrivalKeeps
<1> QED BY <1>1, <1>2, <1>3, <1>4 DEF Intake

LEMMA PostServes ==
  ASSUME DeskInv, Service, NEW op, NEW r, PostDecision(op, r)
  PROVE  Service'
BY OffDutyKeeps DEF PostDecision, Keep

LEMMA TakeServes == ASSUME DeskAssumption, DeskInv, Service, NEW w \in Workers, TakeWork(w) PROVE Service'
<1> DEFINE item == Head(queue)
           h == [Idle EXCEPT !.pc = IF item.op = "review" THEN "start" ELSE "get", !.item = item]
<1>1. queue \in Seq(Item) /\ queue # <<>> BY DEF DeskInv, Awaiting, TakeWork
<1>2. item \in Item BY <1>1
<1>3. item.run \in Runs BY <1>2 DEF Item
<1>4. /\ proc' = [proc EXCEPT ![w] = h] /\ At(w, "idle") /\ Overlap(item.run)
      /\ UNCHANGED <<persistent, broken>>
  BY DEF TakeWork
<1>5. h.pc \in {"get", "start"} /\ h.item.run = item.run BY DEF Idle
<1> HIDE DEF h, item
<1> QED BY <1>3, <1>4, <1>5, CallersAndWorkers, ArrivalKeeps

(***************************************************************************)
(* Service at all times.                                                    *)
(***************************************************************************)
LEMMA ServiceInitially == ASSUME Init PROVE Service
<1>1. \A p \in Procs : proc[p].pc \notin Working BY IdleIsDone DEF Init
<1>2. \A r \in Runs : store[r] = NONE /\ thread[r] = <<>> BY DEF Init
<1>3. Watched BY <1>2 DEF Watched, Unfinished
<1>4. Serial BY <1>1 DEF Serial, WorksOn
<1>5. ReliesAll BY <1>1 DEF ReliesAll
<1>6. DeliveredAll BY <1>2 DEF DeliveredAll, Delivered, OneOfEach
<1> QED BY <1>3, <1>4, <1>5, <1>6 DEF Service

LEMMA WorkServes == ASSUME DeskInv, Service, NEW p \in Procs, Work(p) PROVE Service'
BY StartServes, ReviewServes, DecisionsServe, RefusalServes, SaveServes, UpdateServes, ListServes,
   WriteServes, RememberServes
   DEF Work

LEMMA ServiceSteps == ASSUME DeskAssumption, DeskInv, Service, [Next]_vars PROVE Service'
<1>1. CASE Next
  <2>1. ASSUME NEW c \in Callers, Intake(c) PROVE Service' BY <2>1, IntakeServes
  <2>2. ASSUME NEW op \in {"approve", "publish"}, NEW r \in Runs, PostDecision(op, r) PROVE Service'
    BY <2>2, PostServes
  <2>3. ASSUME NEW w \in Workers, TakeWork(w) PROVE Service' BY <2>3, TakeServes
  <2>4. ASSUME NEW p \in Procs, Work(p) \/ DiskFails(p) \/ Panic(p) PROVE Service'
    BY <2>4, WorkServes, DiskServes, PanicServes
  <2>5. CASE Restart BY <2>5, RestartServes
  <2> QED BY <1>1, <2>1, <2>2, <2>3, <2>4, <2>5 DEF Next
<1>2. CASE UNCHANGED vars BY <1>2, OffDutyKeeps DEF vars, persistent
<1> QED BY <1>1, <1>2

LEMMA ServiceAlways == Spec => [](DeskInv /\ Service)
<1>1. Init => DeskInv /\ Service BY DeskInitially, ServiceInitially, DeskAssumption, RowAssumption
<1>2. DeskInv /\ Service /\ [Next]_vars => (DeskInv /\ Service)'
  BY DeskSteps, ServiceSteps, DeskAssumption
<1> QED BY <1>1, <1>2, PTL DEF Spec


\* The store, the comments, the memory, the queue and every piece of work are
\* well formed, whatever overlaps, fails or is cut off (app/workers.go,
\* pipeline/pipeline.go).
THEOREM DeskTyping == Spec => []TypeOK
<1>1. DeskInv => TypeOK BY DEF DeskInv, Recorded, Awaiting, Counted, AtWork, TypeOK, Comment
<1> QED BY <1>1, DeskAlways, PTL

\* Nothing is final on the change, and nothing is remembered, that no person
\* approved or typed: PublishFinal and the memory ask for an approval on the row
\* they read, and that approval was saved before (pipeline/pipeline.go:748-885).
THEOREM ApprovalSafety == Spec => []OnlyApprovedIsFinal
<1>1. DeskInv => OnlyApprovedIsFinal
  <2> SUFFICES ASSUME DeskInv, NEW r \in Runs
               PROVE  LET final == {c \in Range(thread[r]) : c.kind = "final"} IN
                      /\ final # {} \/ memory[r] # {} => approvals[r] # {}
                      /\ {c.body : c \in final} \cup memory[r] \subseteq approvals[r] \cup {TYPED}
    BY DEF OnlyApprovedIsFinal
  <2> DEFINE final == {c \in Range(thread[r]) : c.kind = "final"}
  <2>1. Granted(approvals, r, Finals(thread[r])) /\ Granted(approvals, r, memory[r])
    BY DEF DeskInv, Recorded
  <2>2. Finals(thread[r]) = {c.body : c \in final} BY DEF Finals
  <2>3. final # {} => Finals(thread[r]) # {} BY <2>2
  <2> QED BY <2>1, <2>2, <2>3 DEF Granted
<1> QED BY <1>1, DeskAlways, PTL

\* Whoever starts a review or publishes stays until the run says how it ended,
\* or a fault cuts it off: every path of a review and of PublishFinal ends in an
\* update of the status (pipeline/pipeline.go:67-400, 748-885), also when two
\* work on one run.
THEOREM WatchSafety == Spec => []RunningIsWorkedOn
<1>1. DeskInv /\ Service => RunningIsWorkedOn
  <2> SUFFICES ASSUME Service, NEW r \in Runs \ broken, store[r] # NONE,
                      store[r].status \in {"running", "finalizing"}
               PROVE  \E p \in Procs : WorksOn(p, r)
    BY DEF RunningIsWorkedOn
  <2> QED BY HoldingIsWorking DEF Service, Watched, Unfinished, OnIt, WorksOn
<1> QED BY <1>1, ServiceAlways, PTL

\* Whoever works alone on a run finds the comment it wrote before: the list
\* shows its marker, and nobody adds one between the list and the write
\* (tools/github.go:180).
THEOREM CommentSafety == Spec => []OneCommentEach
<1>1. DeskInv /\ Service => OneCommentEach
  <2> SUFFICES ASSUME Service, NEW r \in Runs \ mixed, NEW kind \in {"draft", "final"}
               PROVE  Cardinality({i \in DOMAIN thread[r] : thread[r][i].kind = kind}) <= 1
    BY DEF OneCommentEach
  <2> DEFINE places == {i \in DOMAIN thread[r] : thread[r][i].kind = kind}
  <2>1. \A i, j \in places : i = j
    <3>1. OneOfEach(thread[r]) BY DEF Service, DeliveredAll, Delivered
    <3> QED BY <3>1 DEF OneOfEach
  <2> HIDE DEF places
  <2>2. places = {} \/ \E i : places = {i}
    <3>1. CASE places = {} BY <3>1
    <3>2. CASE places # {}
      <4>1. PICK i : i \in places BY <3>2
      <4>2. \A j : j \in places <=> j = i BY <2>1, <4>1
      <4>3. \A j : j \in places <=> j \in {i} BY <4>2
      <4>4. places = {i} BY <4>3
      <4> QED BY <4>4
    <3> QED BY <3>1, <3>2
  <2>3. Cardinality(places) \in {0, 1} BY <2>2, FS_EmptySet, FS_Singleton
  <2>4. Cardinality(places) <= 1 BY <2>3
  <2> QED BY <2>4 DEF places
<1> QED BY <1>1, ServiceAlways, PTL

\* A run is finalized only by whoever wrote its report on the change and to
\* memory, and neither is taken away again: the status comes last
\* (pipeline/pipeline.go:777-807, 831-885).
THEOREM FinalSafety == Spec => []FinalizedIsDelivered
<1>1. DeskInv /\ Service => FinalizedIsDelivered
  <2> SUFFICES ASSUME DeskInv, Service, NEW r \in Runs, store[r] # NONE, store[r].status = "finalized"
               PROVE  /\ First(thread[r], "final") # 0 /\ memory[r] # {}
                      /\ r \notin mixed =>
                           /\ store[r].approved /\ store[r].final \in memory[r]
                           /\ thread[r][First(thread[r], "final")].body = store[r].final
    BY DEF FinalizedIsDelivered
  <2> DEFINE first == First(thread[r], "final")
  <2>1. /\ HasKind(thread[r], "final") /\ memory[r] # {}
        /\ r \notin mixed => /\ store[r].approved /\ store[r].final \in memory[r]
                             /\ FinalIs(thread[r], store[r].final)
    BY DEF Service, DeliveredAll, Delivered
  <2>2. thread[r] \in Seq(Comment) BY DEF DeskInv, Recorded
  <2>3. /\ first = 0 => \A i \in DOMAIN thread[r] : thread[r][i].kind # "final"
        /\ first # 0 => first \in DOMAIN thread[r] /\ thread[r][first].kind = "final"
    BY <2>2, FirstIsPlace
  <2> HIDE DEF first
  <2>4. first # 0 BY <2>1, <2>3 DEF HasKind
  <2>5. r \notin mixed => thread[r][first].body = store[r].final BY <2>1, <2>3, <2>4 DEF FinalIs
  <2> QED BY <2>1, <2>4, <2>5 DEF first
<1> QED BY <1>1, ServiceAlways, PTL
=============================================================================
