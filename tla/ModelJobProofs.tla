---------------------------- MODULE ModelJobProofs ----------------------------
(***************************************************************************)
(* Proofs that the rows of a model job keep their shape, and that a job is *)
(* one conversation in the sense of Dialogue.                              *)
(***************************************************************************)
EXTENDS ModelJob, FiniteSetTheorems, TLAPS

\* A continuation is one of a reduction that asks for it.
ChildOfOpen ==
  \A g \in 0..(Rounds + 1) :
     Exists(Child(g)) => Reduced(g) /\ reduction[g].state \notin Terminals

\* The last groups can only end: tools, then one repair of the findings,
\* then one of the coverage.
RoundsLeft ==
  \A g \in Groups : Reduced(g) =>
     /\ reduction[g].state = "needs_tools" => g < Rounds
     /\ reduction[g].state = "needs_findings_repair" => g <= Rounds
     /\ reduction[g].state = "needs_coverage_repair" => g <= Rounds + 1

\* A reduction has inputs of its group only.
OwnInputs ==
  \A g \in Groups : Reduced(g) => \A x \in reduction[g].inputs : x[1] = g

\* Observations are those of tool requests.
ToolsObserved ==
  \A g \in Groups : observation[g] # NONE => Reduced(g) /\ reduction[g].state = "needs_tools"

RowInv == TypeOK /\ ChildOfOpen /\ RoundsLeft /\ OwnInputs /\ ToolsObserved

\* A plan begins with its first action, and nothing is sent before that.
FirstPlanned ==
  /\ Existing # {} => Exists(<<0, 1>>)
  /\ phase = "effect_started" => Exists(<<0, 1>>)

\* Several batches are planned by a seal, after which the frame is gone.
SealedPlan ==
  /\ sealed => batched /\ ~frame
  /\ batched /\ Existing # {} => sealed

\* A route is an alternative of lost ones.
RoutesInOrder ==
  ~batched => \A x, y \in Initial : Exists(x) /\ y[2] < x[2] => In(y, "uncertain")

\* What stands before a child was answered.
ParentsAnswered ==
  \A g \in 0..(Rounds + 1) : Exists(Child(g)) =>
     \A y \in Existing : y[1] <= g => In(y, "result_recorded")

\* In a sealed plan claims come with the cursor, and it stays at what is sent.
CursorOwns ==
  sealed => \A y \in Initial : Exists(y) =>
     /\ action[y].fence > 0 => cursor # NONE
     /\ action[y].state = "sending" => cursor = y

JobInv ==
  RowInv /\ FirstPlanned /\ SealedPlan /\ RoutesInOrder /\ ParentsAnswered /\ CursorOwns
-----------------------------------------------------------------------------
(* Actions and groups *)

\* The bounds, and what they say of the sets of groups.
LEMMA Bounds ==
  /\ Width \in Nat /\ Width # 0 /\ Rounds \in Nat /\ MaxFence \in Nat /\ MaxFence # 0
  /\ Groups = 0..(Rounds + 2)
  /\ NONE \notin Actions /\ NONE \notin Groups
  /\ NONE \notin ActionRow /\ NONE \notin ReductionRow /\ NONE \notin ObservationRow
BY BoundAssumption, NoneAssumption, RowAssumption DEF Groups

\* An action is one of the plan or the child of an earlier group.
LEMMA ActionShape ==
  ASSUME NEW x \in Actions
  PROVE  /\ x[1] \in Groups
         /\ x[1] = 0 => x \in Initial
         /\ x[1] # 0 => x[1] - 1 \in 0..(Rounds + 1) /\ x = Child(x[1] - 1)
<1>1. CASE x \in Initial
  <2>1. PICK n \in 1..Width : x = <<0, n>>
    BY <1>1 DEF Initial
  <2>2. QED
    BY <2>1, <1>1, Bounds
<1>2. CASE \E g \in 0..(Rounds + 1) : x = Child(g)
  <2>1. PICK g \in 0..(Rounds + 1) : x = <<g + 1, 1>>
    BY <1>2 DEF Child
  <2>2. x[1] = g + 1 /\ g \in Nat /\ g <= Rounds + 1
    BY <2>1, Bounds
  <2>3. x[1] - 1 = g /\ x[1] \in Groups /\ x[1] # 0
    BY <2>2, Bounds
  <2>4. QED
    BY <2>1, <2>3 DEF Child
<1>3. QED
  BY <1>1, <1>2 DEF Actions

LEMMA InitialShape ==
  ASSUME NEW x \in Initial
  PROVE  x \in Actions /\ x[1] = 0 /\ x[2] \in 1..Width /\ x = <<0, x[2]>>
BY Bounds DEF Initial, Actions

LEMMA FirstShape == <<0, 1>> \in Initial /\ <<0, 1>> \in Actions
<1>1. 1 \in 1..Width
  BY Bounds
<1>2. <<0, 1>> \in Initial
  BY <1>1 DEF Initial
<1>3. QED
  BY <1>2 DEF Actions

LEMMA ChildShape ==
  ASSUME NEW g \in 0..(Rounds + 1)
  PROVE  /\ Child(g) \in Actions /\ Child(g)[1] = g + 1 /\ g \in Groups
         /\ Child(g) \notin Initial
<1>1. Child(g) \in Actions
  BY DEF Actions
<1>2. Child(g)[1] = g + 1 /\ g + 1 # 0
  BY Bounds DEF Child
<1>3. g \in Groups
  BY Bounds
<1>4. QED
  BY <1>1, <1>2, <1>3, InitialShape
-----------------------------------------------------------------------------
(* Rows *)

\* An action that is changed to another row.
LEMMA RowChanged ==
  ASSUME TypeOK, NEW x \in Actions, NEW row \in ActionRow,
         action' = [action EXCEPT ![x] = row]
  PROVE  /\ action' \in [Actions -> ActionRow \cup {NONE}]
         /\ action'[x] = row
         /\ \A y \in Actions : y # x => action'[y] = action[y]
BY DEF TypeOK

LEMMA ExistingRow ==
  ASSUME TypeOK, NEW x \in Actions, Exists(x)
  PROVE  action[x] \in ActionRow
BY DEF TypeOK, Exists

\* A claim changes the lease of one action, and hands out what it stored.
LEMMA Leased ==
  ASSUME TypeOK, NEW x \in Actions, NEW t \in Nat,
         Exists(x), action[x].fence < MaxFence, Lease(x, t)
  PROVE  /\ action' \in [Actions -> ActionRow \cup {NONE}]
         /\ claims' \subseteq Claim
         /\ action'[x] # NONE /\ action'[x].state = action[x].state
         /\ action'[x].fence = action[x].fence + 1
         /\ \A y \in Actions : y # x => action'[y] = action[y]
<1> DEFINE row == [action[x] EXCEPT !.fence = action[x].fence + 1, !.leased = TRUE, !.token = t]
<1>1. action[x] \in ActionRow
  BY ExistingRow
<1>2. action[x].fence + 1 \in 1..MaxFence /\ action[x].fence + 1 \in 0..MaxFence
  BY <1>1, Bounds DEF ActionRow
<1>3. row \in ActionRow /\ row.state = action[x].state /\ row.fence = action[x].fence + 1
  BY <1>1, <1>2, Bounds DEF ActionRow
<1>4. action' = [action EXCEPT ![x] = row]
  BY DEF Lease
<1>5. claims' \subseteq Claim
  BY <1>2 DEF Lease, TypeOK, Claim
<1> HIDE DEF row
<1>6. QED
  BY <1>3, <1>4, <1>5, RowChanged, Bounds

\* A new reservation.
LEMMA PreparedRow == Prepared \in ActionRow /\ Prepared.state = "prepared" /\ Prepared.fence = 0
BY Bounds DEF Prepared, ActionRow

\* The steps of actions that exist, and what they leave of the others.
LEMMA Begun ==
  ASSUME TypeOK, NEW c \in claims, BeginPrepared(c)
  PROVE  /\ c.action \in Actions /\ action' \in [Actions -> ActionRow \cup {NONE}]
         /\ In(c.action, "prepared") /\ action[c.action].fence = c.fence /\ c.fence > 0
         /\ action'[c.action] # NONE /\ action'[c.action].state = "sending"
         /\ action'[c.action].fence = c.fence
         /\ \A y \in Actions : y # c.action => action'[y] = action[y]
<1> DEFINE x == c.action
           row == [action[x] EXCEPT !.state = "sending", !.sent = c.fence]
<1>1. c \in Claim /\ x \in Actions /\ c.fence \in 1..MaxFence
  BY DEF TypeOK, Claim
<1>2. In(x, "prepared") /\ action[x].fence = c.fence
  BY DEF BeginPrepared
<1>3. action[x] \in ActionRow
  BY <1>1, <1>2, ExistingRow DEF In
<1>4. row \in ActionRow /\ row.state = "sending" /\ row.fence = c.fence
  BY <1>1, <1>2, <1>3, Bounds DEF ActionRow
<1>5. action' = [action EXCEPT ![x] = row]
  BY DEF BeginPrepared
<1>6. c.fence > 0
  BY <1>1, Bounds
<1> HIDE DEF row
<1>7. QED
  BY <1>1, <1>2, <1>4, <1>5, <1>6, RowChanged, Bounds

LEMMA Ended ==
  ASSUME TypeOK, NEW x \in Actions,
         RecordUncertain(x) \/ \E a \in {"text", "tools"} : RecordResponse(x, a)
  PROVE  /\ action' \in [Actions -> ActionRow \cup {NONE}] /\ In(x, "sending")
         /\ action'[x] # NONE /\ action'[x].fence = action[x].fence
         /\ \/ RecordUncertain(x) /\ action'[x].state = "uncertain"
            \/ ~RecordUncertain(x) /\ action'[x].state = "result_recorded"
         /\ \A y \in Actions : y # x => action'[y] = action[y]
<1>1. In(x, "sending") /\ action[x] \in ActionRow
  BY ExistingRow DEF In, RecordUncertain, RecordResponse
<1>2. CASE RecordUncertain(x)
  <2> DEFINE row == [action[x] EXCEPT !.state = "uncertain"]
  <2>1. row \in ActionRow /\ row.state = "uncertain" /\ row.fence = action[x].fence
    BY <1>1 DEF ActionRow
  <2>2. action' = [action EXCEPT ![x] = row]
    BY <1>2 DEF RecordUncertain
  <2> HIDE DEF row
  <2>3. QED
    BY <1>1, <1>2, <2>1, <2>2, RowChanged, Bounds
<1>3. CASE ~RecordUncertain(x)
  <2>1. PICK a \in {"text", "tools"} : RecordResponse(x, a)
    BY <1>3
  <2> DEFINE row == [action[x] EXCEPT !.state = "result_recorded", !.answer = a]
  <2>2. row \in ActionRow /\ row.state = "result_recorded" /\ row.fence = action[x].fence
    BY <1>1 DEF ActionRow
  <2>3. action' = [action EXCEPT ![x] = row]
    BY <2>1 DEF RecordResponse
  <2> HIDE DEF row
  <2>4. QED
    BY <1>1, <1>3, <2>2, <2>3, RowChanged, Bounds
<1>4. QED
  BY <1>2, <1>3

LEMMA Unheld ==
  ASSUME TypeOK, NEW x \in Actions, LeaseEnds(x)
  PROVE  /\ action' \in [Actions -> ActionRow \cup {NONE}] /\ Exists(x)
         /\ action'[x] # NONE /\ action'[x].state = action[x].state
         /\ action'[x].fence = action[x].fence
         /\ \A y \in Actions : y # x => action'[y] = action[y]
<1> DEFINE row == [action[x] EXCEPT !.leased = FALSE]
<1>1. Exists(x) /\ action[x] \in ActionRow
  BY ExistingRow DEF LeaseEnds, In
<1>2. row \in ActionRow /\ row.state = action[x].state /\ row.fence = action[x].fence
  BY <1>1 DEF ActionRow
<1>3. action' = [action EXCEPT ![x] = row]
  BY DEF LeaseEnds
<1> HIDE DEF row
<1>4. QED
  BY <1>1, <1>2, <1>3, RowChanged, Bounds

LEMMA IndexedRows ==
  ASSUME TypeOK, RecoverActionResults
  PROVE  /\ action' \in [Actions -> ActionRow \cup {NONE}]
         /\ \A x \in Actions : /\ action'[x] = NONE <=> action[x] = NONE
                               /\ Exists(x) => action'[x].state = action[x].state
                               /\ Exists(x) => action'[x].fence = action[x].fence
<1>1. SUFFICES ASSUME NEW x \in Actions
               PROVE  /\ action'[x] \in ActionRow \cup {NONE}
                      /\ action'[x] = NONE <=> action[x] = NONE
                      /\ Exists(x) => action'[x].state = action[x].state
                      /\ Exists(x) => action'[x].fence = action[x].fence
  BY DEF RecoverActionResults
<1>2. CASE In(x, "result_recorded")
  <2> DEFINE row == [action[x] EXCEPT !.indexed = TRUE]
  <2>1. action[x] \in ActionRow
    BY <1>2, ExistingRow DEF In
  <2>2. row \in ActionRow /\ row.state = action[x].state /\ row.fence = action[x].fence
    BY <2>1 DEF ActionRow
  <2>3. action'[x] = row
    BY <1>2 DEF RecoverActionResults
  <2> HIDE DEF row
  <2>4. QED
    BY <2>1, <2>2, <2>3, Bounds
<1>3. CASE ~In(x, "result_recorded")
  <2>1. action'[x] = action[x]
    BY <1>3 DEF RecoverActionResults
  <2>2. QED
    BY <2>1 DEF TypeOK
<1>4. QED
  BY <1>2, <1>3
-----------------------------------------------------------------------------
(* Typing *)

\* What asks for a continuation has a group left for it.
LEMMA OpenGroups ==
  ASSUME RowInv, NEW g \in Groups, Reduced(g), reduction[g].state \notin Terminals
  PROVE  g \in 0..(Rounds + 1)
<1>1. reduction[g].state \in Verdicts
  BY DEF RowInv, TypeOK, Reduced, ReductionRow
<1>2. reduction[g].state \in {"needs_tools", "needs_findings_repair", "needs_coverage_repair"}
  BY <1>1 DEF Verdicts, Terminals, Repairs
<1>3. g <= Rounds + 1
  BY <1>2, Bounds DEF RowInv, RoundsLeft
<1>4. QED
  BY <1>3, Bounds

LEMMA Opened ==
  ASSUME RowInv, NEW g \in Groups, AdvanceModelToolContinuation(g) \/ AdvanceModelContinuation(g)
  PROVE  /\ g \in 0..(Rounds + 1) /\ Reduced(g) /\ reduction[g].state \notin Terminals
         /\ Started /\ current /\ Lineage(g, {}) /\ PrepareChild(g)
<1>1. CASE AdvanceModelToolContinuation(g)
  <2>1. Reduced(g) /\ reduction[g].state = "needs_tools"
    BY <1>1 DEF AdvanceModelToolContinuation, RowInv, ToolsObserved
  <2>2. QED
    BY <1>1, <2>1, OpenGroups DEF AdvanceModelToolContinuation, Terminals
<1>2. CASE AdvanceModelContinuation(g)
  <2>1. Reduced(g) /\ reduction[g].state \in Repairs
    BY <1>2 DEF AdvanceModelContinuation
  <2>2. QED
    BY <1>2, <2>1, OpenGroups DEF AdvanceModelContinuation, Terminals, Repairs
<1>3. QED
  BY <1>1, <1>2

LEMMA ChildPrepared ==
  ASSUME TypeOK, NEW g \in 0..(Rounds + 1), PrepareChild(g)
  PROVE  /\ action' \in [Actions -> ActionRow \cup {NONE}]
         /\ ~Exists(Child(g)) /\ action'[Child(g)] # NONE /\ action'[Child(g)].state = "prepared"
         /\ \A y \in Actions : y # Child(g) => action'[y] = action[y]
         /\ cursor' = Child(g) /\ token' \in Nat
<1>1. Child(g) \in Actions
  BY ChildShape
<1>2. action' = [action EXCEPT ![Child(g)] = Prepared]
  BY DEF PrepareChild
<1>3. ~Exists(Child(g)) /\ cursor' = Child(g) /\ token' \in Nat
  BY DEF PrepareChild, TypeOK
<1>4. QED
  BY <1>1, <1>2, <1>3, PreparedRow, RowChanged, Bounds

\* A complete group is not empty, and a continuation group has a parent.
LEMMA CompleteGroup ==
  ASSUME RowInv, NEW g \in Groups, Cardinality(Indexed(g)) = Wanted(g)
  PROVE  /\ Indexed(g) # {} /\ Indexed(g) \subseteq Group(g)
         /\ g # 0 => /\ g - 1 \in Groups /\ Exists(Child(g - 1))
                    /\ Reduced(g - 1) /\ reduction[g - 1].state \in Verdicts \ Terminals
<1>1. Wanted(g) # 0
  BY Bounds DEF Wanted
<1>2. Indexed(g) # {}
  BY <1>1, FS_EmptySet
<1>3. Indexed(g) \subseteq Group(g)
  BY DEF Indexed
<1>4. ASSUME g # 0
      PROVE  /\ g - 1 \in Groups /\ Exists(Child(g - 1))
             /\ Reduced(g - 1) /\ reduction[g - 1].state \in Verdicts \ Terminals
  <2>1. PICK x \in Indexed(g) : TRUE
    BY <1>2
  <2>2. x \in Actions /\ x[1] = g /\ Exists(x)
    BY <1>3, <2>1 DEF Group
  <2>3. g - 1 \in 0..(Rounds + 1) /\ x = Child(g - 1)
    BY <1>4, <2>2, ActionShape
  <2>4. Reduced(g - 1) /\ reduction[g - 1].state \notin Terminals /\ g - 1 \in Groups
    BY <2>2, <2>3, ChildShape DEF RowInv, ChildOfOpen
  <2>5. QED
    BY <2>2, <2>3, <2>4 DEF RowInv, TypeOK, Reduced, ReductionRow
<1>5. QED
  BY <1>2, <1>3, <1>4

\* What a group may reduce to leaves as many groups as it asks for.
LEMMA OutcomesLeft ==
  ASSUME RowInv, NEW g \in Groups, Cardinality(Indexed(g)) = Wanted(g), NEW s \in Outcomes(g)
  PROVE  /\ s = "needs_tools" => g < Rounds
         /\ s = "needs_findings_repair" => g <= Rounds
         /\ s = "needs_coverage_repair" => g <= Rounds + 1
<1> DEFINE tools == \E x \in Indexed(g) : action[x].answer = "tools"
           open == Kind(g) \in {"review_batches", "tool_round"}
<1>1. open => g <= Rounds
  <2>1. CASE g = 0
    BY <2>1, Bounds
  <2>2. CASE g # 0
    <3>1. open => reduction[g - 1].state = "needs_tools"
      BY <2>2 DEF Kind
    <3>2. reduction[g - 1].state = "needs_tools" => g - 1 < Rounds
      BY <2>2, CompleteGroup DEF RowInv, RoundsLeft
    <3>3. QED
      BY <3>1, <3>2, Bounds
  <2>3. QED
    BY <2>1, <2>2
<1>2. Kind(g) # "repair_coverage" => g <= Rounds + 1
  <2>1. CASE g = 0
    BY <2>1, Bounds
  <2>2. CASE g # 0
    <3>1. Kind(g) # "repair_coverage" =>
            reduction[g - 1].state \in {"needs_tools", "needs_findings_repair"}
      BY <2>2 DEF Kind
    <3>2. /\ reduction[g - 1].state = "needs_tools" => g - 1 < Rounds
          /\ reduction[g - 1].state = "needs_findings_repair" => g - 1 <= Rounds
      BY <2>2, CompleteGroup DEF RowInv, RoundsLeft
    <3>3. QED
      BY <3>1, <3>2, Bounds
  <2>3. QED
    BY <2>1, <2>2
<1>3. s \in IF tools /\ open THEN IF g + 1 > Rounds THEN {"blocked"} ELSE {"needs_tools"}
           ELSE IF tools /\ Kind(g) = "repair_findings" THEN {}
           ELSE Terminals \cup (IF open THEN {"needs_findings_repair"} ELSE {})
                          \cup (IF Kind(g) = "repair_coverage" THEN {} ELSE {"needs_coverage_repair"})
  BY DEF Outcomes
<1> HIDE DEF tools, open
<1>4. s = "needs_tools" => ~(g + 1 > Rounds)
  BY <1>3 DEF Terminals
<1>5. s = "needs_findings_repair" => open
  BY <1>3 DEF Terminals
<1>6. s = "needs_coverage_repair" => Kind(g) # "repair_coverage"
  BY <1>3 DEF Terminals
<1>7. QED
  BY <1>1, <1>2, <1>4, <1>5, <1>6, Bounds
-----------------------------------------------------------------------------
\* The two halves of the type invariant.
ScalarsOK ==
  /\ {batched, frame, lapsed, allowed, current, sealed} \subseteq BOOLEAN
  /\ phase \in {"admitted", "effect_started", "finished"}
  /\ result \in {"running", "completed", "failed"}
  /\ token \in Nat /\ cursor \in Actions \cup {NONE}
  /\ claims \subseteq Claim
  /\ observed \in Groups \cup {NONE} /\ terminal \in Groups \cup {NONE}

TablesOK ==
  /\ action \in [Actions -> ActionRow \cup {NONE}]
  /\ reduction \in [Groups -> ReductionRow \cup {NONE}]
  /\ observation \in [Groups -> ObservationRow \cup {NONE}]
  /\ ChildOfOpen /\ RoundsLeft /\ OwnInputs /\ ToolsObserved

LEMMA Halves == RowInv <=> ScalarsOK /\ TablesOK
BY DEF RowInv, TypeOK, ScalarsOK, TablesOK

\* Steps on actions leave the tables in shape when new children are wanted.
LEMMA TablesKept ==
  ASSUME RowInv, UNCHANGED <<reduction, observation>>,
         action' \in [Actions -> ActionRow \cup {NONE}],
         \A g \in 0..(Rounds + 1) : action'[Child(g)] # NONE =>
            Exists(Child(g)) \/ (Reduced(g) /\ reduction[g].state \notin Terminals)
  PROVE  TablesOK'
<1>1. /\ reduction' \in [Groups -> ReductionRow \cup {NONE}]
      /\ observation' \in [Groups -> ObservationRow \cup {NONE}]
  BY DEF RowInv, TypeOK
<1>2. ChildOfOpen'
  BY DEF RowInv, ChildOfOpen, Exists, Reduced
<1>3. RoundsLeft' /\ OwnInputs' /\ ToolsObserved'
  BY DEF RowInv, RoundsLeft, OwnInputs, ToolsObserved, Reduced
<1>4. QED
  BY <1>1, <1>2, <1>3 DEF TablesOK

\* A reduction extends the table of a complete group by an allowed state.
LEMMA ReductionKept ==
  ASSUME RowInv, NEW g \in Groups, NEW s \in Verdicts, RecoverModelReductions(g, s)
  PROVE  TablesOK'
<1> DEFINE row == [state |-> s, inputs |-> Indexed(g)]
<1>1. /\ ~Reduced(g) /\ Cardinality(Indexed(g)) = Wanted(g) /\ s \in Outcomes(g)
      /\ reduction' = [reduction EXCEPT ![g] = row]
      /\ UNCHANGED <<action, observation>>
  BY DEF RecoverModelReductions
<1>2. Indexed(g) \subseteq Group(g) /\ Group(g) \subseteq Actions
  BY <1>1, CompleteGroup DEF Group
<1>3. row \in ReductionRow /\ row.state = s /\ row.inputs = Indexed(g)
  BY <1>2 DEF ReductionRow
<1> HIDE DEF row
<1>4. /\ reduction' \in [Groups -> ReductionRow \cup {NONE}]
      /\ reduction'[g] = row /\ row # NONE
      /\ \A k \in Groups : k # g => reduction'[k] = reduction[k]
  BY <1>1, <1>3, Bounds DEF RowInv, TypeOK
<1>5. ChildOfOpen'
  <2>1. SUFFICES ASSUME NEW k \in 0..(Rounds + 1), action'[Child(k)] # NONE
                 PROVE  reduction'[k] # NONE /\ reduction'[k].state \notin Terminals
    BY DEF ChildOfOpen, Exists, Reduced
  <2>2. Exists(Child(k)) /\ k \in Groups
    BY <1>1, <2>1, ChildShape DEF Exists
  <2>3. Reduced(k) /\ reduction[k].state \notin Terminals
    BY <2>2 DEF RowInv, ChildOfOpen
  <2>4. QED
    BY <1>1, <1>4, <2>2, <2>3 DEF Reduced
<1>6. RoundsLeft'
  <2>1. /\ s = "needs_tools" => g < Rounds
        /\ s = "needs_findings_repair" => g <= Rounds
        /\ s = "needs_coverage_repair" => g <= Rounds + 1
    BY <1>1, OutcomesLeft
  <2>2. QED
    BY <1>3, <1>4, <2>1 DEF RowInv, RoundsLeft, Reduced
<1>7. OwnInputs'
  <2>1. \A x \in Indexed(g) : x[1] = g
    BY <1>2 DEF Group
  <2>2. QED
    BY <1>3, <1>4, <2>1 DEF RowInv, OwnInputs, Reduced
<1>8. ToolsObserved'
  BY <1>1, <1>4 DEF RowInv, ToolsObserved, Reduced
<1>9. QED
  BY <1>1, <1>4, <1>5, <1>6, <1>7, <1>8 DEF RowInv, TypeOK, TablesOK

\* An observation is stored for the tools a reduction asks for.
LEMMA ObservationKept ==
  ASSUME RowInv, NEW g \in Groups, NEW x \in Actions, CommitModelToolObservations(g, x)
  PROVE  TablesOK'
<1> DEFINE row == [parent |-> x, token |-> token, owner |-> token + 1]
<1>1. /\ Reduced(g) /\ reduction[g].state = "needs_tools"
      /\ observation' = [observation EXCEPT ![g] = row]
      /\ UNCHANGED <<action, reduction>>
  BY DEF CommitModelToolObservations, MayObserve
<1>2. row \in ObservationRow
  BY DEF ObservationRow, RowInv, TypeOK
<1> HIDE DEF row
<1>3. /\ observation' \in [Groups -> ObservationRow \cup {NONE}]
      /\ \A k \in Groups : k # g => observation'[k] = observation[k]
  BY <1>1, <1>2 DEF RowInv, TypeOK
<1>4. ChildOfOpen' /\ RoundsLeft' /\ OwnInputs'
  BY <1>1 DEF RowInv, ChildOfOpen, RoundsLeft, OwnInputs, Exists, Reduced
<1>5. ToolsObserved'
  BY <1>1, <1>3 DEF RowInv, ToolsObserved, Reduced
<1>6. QED
  BY <1>1, <1>3, <1>4, <1>5 DEF RowInv, TypeOK, TablesOK

\* Reclaimed actions are leased under a fence of the bound.
LEMMA Reclaimed ==
  ASSUME RowInv, NEW x \in Actions, ReclaimSlot(x) \/ ReclaimPrepared(x)
  PROVE  /\ Exists(x) /\ In(x, "prepared") /\ action[x].fence < MaxFence
         /\ token' \in Nat /\ cursor' = x /\ Lease(x, token')
         /\ UNCHANGED <<control, phase, sealed, journal, ending>>
<1>1. CASE ReclaimSlot(x)
  BY <1>1 DEF ReclaimSlot, FirstUnfinished, Unleased, In, RowInv, TypeOK
<1>2. CASE ReclaimPrepared(x)
  BY <1>2 DEF ReclaimPrepared, Unleased, In, RowInv, TypeOK
<1>3. QED
  BY <1>1, <1>2

\* Steps that store rows of actions only, of new children least of all.
LEMMA ActionsKept ==
  ASSUME RowInv, UNCHANGED <<reduction, observation>>,
         action' \in [Actions -> ActionRow \cup {NONE}],
         \A y \in Actions \ Initial : action'[y] # NONE => Exists(y)
  PROVE  TablesOK'
<1>1. \A g \in 0..(Rounds + 1) : Child(g) \in Actions \ Initial
  BY ChildShape
<1>2. QED
  BY <1>1, TablesKept

\* Every step keeps the rows in shape.
LEMMA RowKept ==
  ASSUME RowInv, [Next]_vars
  PROVE  RowInv'
<1> USE DEF control, journal, ending
<1>1. SUFFICES ScalarsOK' /\ TablesOK'
  BY DEF RowInv, TypeOK, ScalarsOK, TablesOK
<1>2. TypeOK /\ ScalarsOK /\ TablesOK
  BY Halves DEF RowInv
<1>3. UNCHANGED <<action, reduction, observation>> => TablesOK'
  BY <1>2 DEF TablesOK, ChildOfOpen, RoundsLeft, OwnInputs, ToolsObserved, Exists, Reduced
<1>4. CASE UNCHANGED vars
  BY <1>2, <1>3, <1>4 DEF vars, ScalarsOK
<1>5. CASE Lapse \/ Supersede \/ Cancel \/ FrameDies
  BY <1>2, <1>3, <1>5 DEF Lapse, Supersede, Cancel, FrameDies, ScalarsOK
<1>6. CASE FinishInbox
  BY <1>2, <1>3, <1>6 DEF FinishInbox, ScalarsOK
<1>7. ASSUME NEW g \in Groups, CompleteModelJob(g) PROVE ScalarsOK' /\ TablesOK'
  <2>1. /\ UNCHANGED <<batched, frame, lapsed, current, token, cursor, sealed, claims, observed>>
        /\ allowed' = FALSE /\ phase' = "finished" /\ terminal' = g
        /\ UNCHANGED <<action, reduction, observation>>
    BY <1>7 DEF CompleteModelJob
  <2>2. result' \in {"completed", "failed"}
    BY <1>7 DEF CompleteModelJob, StoredEnd
  <2>3. QED
    BY <1>2, <1>3, <2>1, <2>2 DEF ScalarsOK
<1>8. CASE PrepareModelBatch
  <2>1. action' \in [Actions -> ActionRow \cup {NONE}]
        /\ \A y \in Actions \ Initial : action'[y] # NONE => Exists(y)
    BY <1>8, PreparedRow DEF PrepareModelBatch
  <2>2. ScalarsOK'
    BY <1>2, <1>8 DEF PrepareModelBatch, ScalarsOK
  <2>3. UNCHANGED <<reduction, observation>>
    BY <1>8 DEF PrepareModelBatch
  <2>4. QED
    BY <2>1, <2>2, <2>3, ActionsKept
<1>9. ASSUME NEW x \in Actions, PrepareAction(x) PROVE ScalarsOK' /\ TablesOK'
  <2>1. x \in Initial /\ action' = [action EXCEPT ![x] = Prepared]
    BY <1>9 DEF PrepareAction
  <2>2. action' \in [Actions -> ActionRow \cup {NONE}]
        /\ \A y \in Actions : y # x => action'[y] = action[y]
    BY <1>2, <2>1, PreparedRow, RowChanged
  <2>3. \A y \in Actions \ Initial : action'[y] # NONE => Exists(y)
    BY <2>1, <2>2 DEF Exists
  <2>4. ScalarsOK' /\ UNCHANGED <<reduction, observation>>
    BY <1>2, <1>9 DEF PrepareAction, ScalarsOK
  <2>5. QED
    BY <2>2, <2>3, <2>4, ActionsKept
<1>10. ASSUME NEW x \in Actions, NEW t \in Nat, Exists(x), action[x].fence < MaxFence, Lease(x, t),
              token' \in Nat, cursor' \in Actions \cup {NONE},
              UNCHANGED <<control, phase, sealed, journal, ending>>
       PROVE  ScalarsOK' /\ TablesOK'
  <2>1. /\ action' \in [Actions -> ActionRow \cup {NONE}] /\ claims' \subseteq Claim
        /\ \A y \in Actions : y # x => action'[y] = action[y]
    BY <1>2, <1>10, Leased
  <2>2. \A y \in Actions \ Initial : action'[y] # NONE => Exists(y)
    BY <1>10, <2>1 DEF Exists
  <2>3. ScalarsOK'
    BY <1>2, <1>10, <2>1 DEF ScalarsOK
  <2>4. QED
    BY <1>10, <2>1, <2>2, <2>3, ActionsKept
<1>11. ASSUME NEW x \in Actions, ClaimPrepared(x) PROVE ScalarsOK' /\ TablesOK'
  <2>1. Exists(x) /\ action[x].fence < MaxFence /\ Lease(x, 0)
    BY <1>11, Bounds DEF ClaimPrepared, In
  <2>2. UNCHANGED <<control, phase, token, cursor, sealed, journal, ending>>
    BY <1>11 DEF ClaimPrepared
  <2>3. token' \in Nat /\ cursor' \in Actions \cup {NONE}
    BY <1>2, <2>2 DEF ScalarsOK
  <2>4. QED
    BY <1>10, <2>1, <2>2, <2>3
<1>12. ASSUME NEW x \in Actions, ReclaimSlot(x) \/ ReclaimPrepared(x)
       PROVE  ScalarsOK' /\ TablesOK'
  BY <1>10, <1>12, Reclaimed
<1>13. ASSUME NEW c \in claims, BeginPrepared(c) PROVE ScalarsOK' /\ TablesOK'
  <2>1. /\ action' \in [Actions -> ActionRow \cup {NONE}] /\ c.action \in Actions
        /\ \A y \in Actions : y # c.action => action'[y] = action[y]
        /\ Exists(c.action)
    BY <1>2, <1>13, Begun DEF In
  <2>2. \A y \in Actions \ Initial : action'[y] # NONE => Exists(y)
    BY <2>1 DEF Exists
  <2>3. ScalarsOK' /\ UNCHANGED <<reduction, observation>>
    BY <1>2, <1>13 DEF BeginPrepared, ScalarsOK
  <2>4. QED
    BY <2>1, <2>2, <2>3, ActionsKept
<1>14. ASSUME NEW x \in Actions,
              RecordUncertain(x) \/ \E a \in {"text", "tools"} : RecordResponse(x, a)
       PROVE  ScalarsOK' /\ TablesOK'
  <2>1. /\ action' \in [Actions -> ActionRow \cup {NONE}] /\ Exists(x)
        /\ \A y \in Actions : y # x => action'[y] = action[y]
    BY <1>2, <1>14, Ended DEF In
  <2>2. \A y \in Actions \ Initial : action'[y] # NONE => Exists(y)
    BY <2>1 DEF Exists
  <2>3. ScalarsOK' /\ UNCHANGED <<reduction, observation>>
    BY <1>2, <1>14 DEF RecordUncertain, RecordResponse, ScalarsOK
  <2>4. QED
    BY <2>1, <2>2, <2>3, ActionsKept
<1>15. ASSUME NEW x \in Actions, LeaseEnds(x) PROVE ScalarsOK' /\ TablesOK'
  <2>1. /\ action' \in [Actions -> ActionRow \cup {NONE}] /\ Exists(x)
        /\ \A y \in Actions : y # x => action'[y] = action[y]
    BY <1>2, <1>15, Unheld
  <2>2. \A y \in Actions \ Initial : action'[y] # NONE => Exists(y)
    BY <2>1 DEF Exists
  <2>3. ScalarsOK' /\ UNCHANGED <<reduction, observation>>
    BY <1>2, <1>15 DEF LeaseEnds, ScalarsOK
  <2>4. QED
    BY <2>1, <2>2, <2>3, ActionsKept
<1>16. CASE RecoverActionResults
  <2>1. /\ action' \in [Actions -> ActionRow \cup {NONE}]
        /\ \A y \in Actions \ Initial : action'[y] # NONE => Exists(y)
    BY <1>2, <1>16, IndexedRows DEF Exists
  <2>2. ScalarsOK' /\ UNCHANGED <<reduction, observation>>
    BY <1>2, <1>16 DEF RecoverActionResults, ScalarsOK
  <2>3. QED
    BY <2>1, <2>2, ActionsKept
<1>17. ASSUME NEW g \in Groups, NEW s \in Verdicts, RecoverModelReductions(g, s)
       PROVE  ScalarsOK' /\ TablesOK'
  <2>1. ScalarsOK'
    BY <1>2, <1>17 DEF RecoverModelReductions, ScalarsOK
  <2>2. QED
    BY <1>17, <2>1, ReductionKept
<1>18. ASSUME NEW g \in Groups, NEW x \in Actions, CommitModelToolObservations(g, x)
       PROVE  ScalarsOK' /\ TablesOK'
  <2>1. ScalarsOK'
    BY <1>2, <1>18 DEF CommitModelToolObservations, ScalarsOK
  <2>2. QED
    BY <1>18, <2>1, ObservationKept
<1>19. ASSUME NEW g \in Groups, AdvanceModelToolContinuation(g) \/ AdvanceModelContinuation(g)
       PROVE  ScalarsOK' /\ TablesOK'
  <2>1. /\ g \in 0..(Rounds + 1) /\ PrepareChild(g)
        /\ Reduced(g) /\ reduction[g].state \notin Terminals
    BY <1>19, Opened
  <2>2. /\ action' \in [Actions -> ActionRow \cup {NONE}]
        /\ \A y \in Actions : y # Child(g) => action'[y] = action[y]
        /\ cursor' = Child(g) /\ token' \in Nat /\ Child(g) \in Actions
    BY <1>2, <2>1, ChildPrepared, ChildShape
  <2>3. UNCHANGED <<control, phase, sealed, claims, journal, ending>>
    BY <2>1 DEF PrepareChild
  <2>4. ScalarsOK'
    BY <1>2, <2>2, <2>3 DEF ScalarsOK
  <2>5. ASSUME NEW k \in 0..(Rounds + 1), action'[Child(k)] # NONE
        PROVE  Exists(Child(k)) \/ (Reduced(k) /\ reduction[k].state \notin Terminals)
    <3>1. CASE Child(k) = Child(g)
      <4>1. k = g
        BY <2>1, <3>1, Bounds DEF Child
      <4>2. QED
        BY <2>1, <4>1
    <3>2. CASE Child(k) # Child(g)
      BY <2>2, <2>5, <3>2, ChildShape DEF Exists
    <3>3. QED
      BY <3>1, <3>2
  <2>6. QED
    BY <2>2, <2>3, <2>4, <2>5, TablesKept
<1>20. CASE Next
  <2>1. CASE Poll
    BY <1>7, <1>12, <1>16, <1>17, <1>18, <1>19, <2>1 DEF Poll
  <2>2. CASE Send
    BY <1>13, <1>14, <2>2 DEF Send
  <2>3. CASE Live
    BY <1>6, <1>8, <1>9, <1>11, <2>3 DEF Live
  <2>4. CASE Environment
    BY <1>5, <1>15, <2>4 DEF Environment
  <2>5. QED
    BY <1>20, <2>1, <2>2, <2>3, <2>4 DEF Next
<1>21. QED
  BY <1>4, <1>20

LEMMA RowStart == Init => RowInv
<1>1. SUFFICES ASSUME Init PROVE RowInv
  OBVIOUS
<1>2. TypeOK
  BY <1>1, Bounds DEF Init, TypeOK
<1>3. ChildOfOpen
  BY <1>1, ChildShape DEF Init, ChildOfOpen, Exists
<1>4. RoundsLeft /\ OwnInputs /\ ToolsObserved
  BY <1>1 DEF Init, RoundsLeft, OwnInputs, ToolsObserved, Reduced
<1>5. QED
  BY <1>2, <1>3, <1>4 DEF RowInv

\* The rows of a job have their types, whatever the widths and rounds: no
\* continuation is asked for beyond the last group the tool rounds, one
\* repair of the findings and one of the coverage leave.
THEOREM JobTyping == Spec => []TypeOK
<1>1. RowInv /\ [Next]_vars => RowInv'
  BY RowKept
<1>2. RowInv => TypeOK
  BY DEF RowInv
<1>3. QED
  BY <1>1, <1>2, RowStart, PTL DEF Spec
-----------------------------------------------------------------------------
(* One conversation *)

Order == FirstPlanned /\ SealedPlan /\ RoutesInOrder /\ ParentsAnswered /\ CursorOwns

\* Steps that leave every action where it is.
LEMMA OrderQuiet ==
  ASSUME JobInv, UNCHANGED <<batched, sealed>>, frame' => frame,
         phase' = "effect_started" => phase = "effect_started",
         \A y \in Actions : /\ action'[y] = NONE <=> action[y] = NONE
                            /\ Exists(y) => action'[y].state = action[y].state,
         \A y \in Initial : sealed /\ Exists(y) =>
            /\ action'[y].fence > 0 => cursor' # NONE
            /\ action[y].state = "sending" => cursor' = y
  PROVE  Order'
<1>1. Existing' = Existing /\ \A y \in Actions : Exists(y)' <=> Exists(y)
  BY DEF Existing, Exists
<1>2. \A y \in Actions, s \in {"uncertain", "result_recorded"} : In(y, s)' <=> In(y, s)
  BY DEF In, Exists
<1>3. FirstPlanned'
  BY <1>1, FirstShape DEF JobInv, FirstPlanned
<1>4. SealedPlan'
  BY <1>1 DEF JobInv, SealedPlan
<1>5. RoutesInOrder'
  BY <1>1, <1>2, InitialShape DEF JobInv, RoutesInOrder
<1>6. ParentsAnswered'
  <2>1. SUFFICES ASSUME NEW g \in 0..(Rounds + 1), Exists(Child(g))', NEW y \in Existing', y[1] <= g
                 PROVE  In(y, "result_recorded")'
    BY DEF ParentsAnswered
  <2>2. Child(g) \in Actions /\ y \in Existing /\ y \in Actions
    BY <1>1, ChildShape DEF Existing
  <2>3. QED
    BY <1>1, <1>2, <2>1, <2>2 DEF JobInv, ParentsAnswered
<1>7. CursorOwns'
  <2>1. SUFFICES ASSUME sealed', NEW y \in Initial, Exists(y)'
                 PROVE  /\ action'[y].fence > 0 => cursor' # NONE
                        /\ action'[y].state = "sending" => cursor' = y
    BY DEF CursorOwns
  <2>2. y \in Actions /\ Exists(y) /\ sealed
    BY <1>1, <2>1, InitialShape
  <2>3. QED
    BY <2>2
<1>8. QED
  BY <1>3, <1>4, <1>5, <1>6, <1>7 DEF Order

\* Steps that move one action that is neither answered nor lost.
LEMMA OrderMoved ==
  ASSUME JobInv, UNCHANGED <<batched, sealed, frame, cursor>>,
         NEW x \in Actions, Exists(x), action'[x] # NONE,
         ~In(x, "result_recorded"), ~In(x, "uncertain"),
         sealed /\ x \in Initial => cursor # NONE,
         sealed /\ x \in Initial /\ action'[x].state = "sending" => cursor = x,
         \A y \in Actions : y # x => action'[y] = action[y]
  PROVE  Order'
<1>1. Existing' = Existing /\ \A y \in Actions : Exists(y)' <=> Exists(y)
  BY DEF Existing, Exists
<1>2. \A y \in Actions, s \in {"uncertain", "result_recorded"} : In(y, s) => In(y, s)'
  BY DEF In, Exists
<1>3. FirstPlanned'
  BY <1>1, FirstShape DEF JobInv, FirstPlanned, Existing
<1>4. SealedPlan'
  BY <1>1 DEF JobInv, SealedPlan
<1>5. RoutesInOrder'
  BY <1>1, <1>2, InitialShape DEF JobInv, RoutesInOrder
<1>6. ParentsAnswered'
  <2>1. SUFFICES ASSUME NEW g \in 0..(Rounds + 1), Exists(Child(g))', NEW y \in Existing', y[1] <= g
                 PROVE  In(y, "result_recorded")'
    BY DEF ParentsAnswered
  <2>2. Child(g) \in Actions /\ y \in Existing /\ y \in Actions
    BY <1>1, ChildShape DEF Existing
  <2>3. QED
    BY <1>1, <1>2, <2>1, <2>2 DEF JobInv, ParentsAnswered
<1>7. CursorOwns'
  <2>1. SUFFICES ASSUME sealed', NEW y \in Initial, Exists(y)'
                 PROVE  /\ action'[y].fence > 0 => cursor' # NONE
                        /\ action'[y].state = "sending" => cursor' = y
    BY DEF CursorOwns
  <2>2. y \in Actions /\ Exists(y) /\ sealed
    BY <1>1, <2>1, InitialShape
  <2>3. CASE y = x
    BY <2>2, <2>3
  <2>4. CASE y # x
    BY <2>2, <2>4 DEF JobInv, CursorOwns
  <2>5. QED
    BY <2>3, <2>4
<1>8. QED
  BY <1>3, <1>4, <1>5, <1>6, <1>7 DEF Order

\* Where the lineage of g accounts for everything, everything was answered.
LEMMA AllAnswered ==
  ASSUME RowInv, NEW g \in Groups, NEW S \in SUBSET Actions, Lineage(g, S),
         NEW y \in Existing, y \notin S
  PROVE  In(y, "result_recorded") /\ y[1] <= g
<1>0. y \in UNION {reduction[k].inputs : k \in 0..g}
  BY DEF Lineage
<1>1. PICK k \in 0..g : y \in reduction[k].inputs
  BY <1>0
<1>2. k \in Groups /\ k <= g
  BY Bounds
<1>3. Reduced(k) /\ In(y, "result_recorded")
  BY <1>1 DEF Lineage
<1>4. y[1] = k
  BY <1>1, <1>2, <1>3 DEF RowInv, OwnInputs
<1>5. QED
  BY <1>2, <1>3, <1>4

\* The plan of several batches.
LEMMA OrderBatch ==
  ASSUME JobInv, PrepareModelBatch
  PROVE  Order'
<1>1. /\ batched /\ batched' = batched /\ sealed' = TRUE /\ frame' = FALSE
      /\ action' = [x \in Actions |-> IF x \in Initial THEN Prepared ELSE NONE]
  BY DEF PrepareModelBatch
<1>2. FirstPlanned'
  BY <1>1, FirstShape, PreparedRow, Bounds DEF FirstPlanned, Exists
<1>3. SealedPlan' /\ RoutesInOrder'
  <2>1. batched \in BOOLEAN
    BY DEF JobInv, RowInv, TypeOK
  <2>2. QED
    BY <1>1, <2>1 DEF SealedPlan, RoutesInOrder
<1>4. ParentsAnswered'
  BY <1>1, ChildShape DEF ParentsAnswered, Exists
<1>5. CursorOwns'
  BY <1>1, PreparedRow, InitialShape, Bounds DEF CursorOwns
<1>6. QED
  BY <1>2, <1>3, <1>4, <1>5 DEF Order

\* Routes are prepared before any continuation.
LEMMA NoChildYet ==
  ASSUME JobInv, NEW x \in Actions, PrepareAction(x), NEW g \in 0..(Rounds + 1)
  PROVE  ~Exists(Child(g))
<1>1. SUFFICES ASSUME Exists(Child(g)) PROVE FALSE
  OBVIOUS
<1>2. /\ x \in Initial /\ ~Exists(x)
      /\ \A n \in 1..(x[2] - 1) : In(<<0, n>>, "uncertain")
  BY DEF PrepareAction
<1>3. x[2] \in 1..Width /\ x = <<0, x[2]>>
  BY <1>2, InitialShape
<1>4. Child(g) \in Existing /\ Exists(<<0, 1>>)
  BY <1>1, ChildShape DEF JobInv, FirstPlanned, Existing
<1>5. <<0, 1>> \in Existing /\ <<0, 1>>[1] <= g
  BY <1>4, FirstShape, Bounds DEF Existing
<1>6. In(<<0, 1>>, "result_recorded")
  BY <1>1, <1>5 DEF JobInv, ParentsAnswered
<1>7. CASE x[2] = 1
  BY <1>2, <1>3, <1>4, <1>7
<1>8. CASE x[2] # 1
  <2>1. 1 \in 1..(x[2] - 1)
    BY <1>3, <1>8, Bounds
  <2>2. In(<<0, 1>>, "uncertain")
    BY <1>2, <2>1
  <2>3. QED
    BY <1>6, <2>2 DEF In
<1>9. QED
  BY <1>7, <1>8

\* A route after lost ones.
LEMMA OrderRoute ==
  ASSUME JobInv, NEW x \in Actions, PrepareAction(x)
  PROVE  Order'
<1>1. /\ ~batched /\ x \in Initial /\ ~Exists(x)
      /\ \A n \in 1..(x[2] - 1) : In(<<0, n>>, "uncertain")
      /\ action' = [action EXCEPT ![x] = Prepared]
      /\ UNCHANGED <<batched, frame, phase, sealed, cursor>>
  BY DEF PrepareAction, control
<1>2. /\ action'[x] # NONE /\ \A y \in Actions : y # x => action'[y] = action[y]
  BY <1>1, PreparedRow, RowChanged, Bounds DEF JobInv, RowInv
<1>3. x[1] = 0 /\ x[2] \in 1..Width /\ x = <<0, x[2]>>
  BY <1>1, InitialShape
<1>4. x = <<0, 1>> \/ In(<<0, 1>>, "uncertain")
  <2>1. CASE x[2] = 1
    BY <1>3, <2>1
  <2>2. CASE x[2] # 1
    <3>1. 1 \in 1..(x[2] - 1)
      BY <1>3, <2>2, Bounds
    <3>2. QED
      BY <1>1, <3>1
  <2>3. QED
    BY <2>1, <2>2
<1>5. ~sealed
  BY <1>1 DEF JobInv, SealedPlan
<1>6. FirstPlanned'
  BY <1>2, <1>4, FirstShape DEF FirstPlanned, Exists, In
<1>7. SealedPlan' /\ CursorOwns'
  BY <1>1, <1>5 DEF SealedPlan, CursorOwns
<1>8. RoutesInOrder'
  <2>1. SUFFICES ASSUME NEW a \in Initial, NEW b \in Initial, Exists(a)', b[2] < a[2]
                 PROVE  In(b, "uncertain")'
    BY DEF RoutesInOrder
  <2>2. /\ a \in Actions /\ b \in Actions /\ b[2] \in 1..Width /\ b = <<0, b[2]>>
        /\ a[2] \in 1..Width
    BY InitialShape
  <2>3. In(b, "uncertain")
    <3>1. CASE a = x
      <4>1. b[2] \in 1..(x[2] - 1)
        BY <1>3, <2>1, <2>2, <3>1, Bounds
      <4>2. QED
        BY <1>1, <2>2, <4>1
    <3>2. CASE a # x
      <4>1. Exists(a)
        BY <1>2, <2>1, <2>2, <3>2 DEF Exists
      <4>2. QED
        BY <1>1, <2>1, <4>1 DEF JobInv, RoutesInOrder
    <3>3. QED
      BY <3>1, <3>2
  <2>4. b # x
    BY <1>1, <2>3 DEF In
  <2>5. QED
    BY <1>2, <2>2, <2>3, <2>4 DEF In, Exists
<1>9. ParentsAnswered'
  <2>1. \A g \in 0..(Rounds + 1) : action'[Child(g)] = action[Child(g)] /\ ~Exists(Child(g))
    BY <1>1, <1>2, ChildShape, NoChildYet
  <2>2. QED
    BY <2>1 DEF ParentsAnswered, Exists
<1>10. QED
  BY <1>6, <1>7, <1>8, <1>9 DEF Order

\* A continuation.
LEMMA OrderChild ==
  ASSUME JobInv, NEW g \in 0..(Rounds + 1), g \in Groups, Started, Lineage(g, {}), PrepareChild(g)
  PROVE  Order'
<1>1. /\ ~Exists(Child(g)) /\ action'[Child(g)] # NONE /\ cursor' = Child(g)
      /\ \A y \in Actions : y # Child(g) => action'[y] = action[y]
      /\ UNCHANGED <<batched, frame, phase, sealed>>
  BY ChildPrepared DEF JobInv, RowInv, PrepareChild, control
<1>2. Child(g) \in Actions /\ Child(g)[1] = g + 1 /\ Child(g) \notin Initial
  BY ChildShape
<1>3. \A y \in Existing : In(y, "result_recorded") /\ y[1] <= g
  BY AllAnswered DEF JobInv
<1>4. Exists(<<0, 1>>)
  BY DEF Started, JobInv, FirstPlanned
<1>5. FirstPlanned'
  <2>1. Exists(<<0, 1>>)'
    BY <1>1, <1>2, <1>4, FirstShape DEF Exists
  <2>2. QED
    BY <2>1 DEF FirstPlanned
<1>6. SealedPlan'
  BY <1>1, <1>4, FirstShape DEF JobInv, SealedPlan, Existing
<1>7. RoutesInOrder'
  <2>1. \A y \in Initial : y \in Actions /\ action'[y] = action[y]
    BY <1>1, <1>2, InitialShape
  <2>2. QED
    BY <1>1, <2>1 DEF JobInv, RoutesInOrder, In, Exists
<1>8. ParentsAnswered'
  <2>1. SUFFICES ASSUME NEW k \in 0..(Rounds + 1), Exists(Child(k))', NEW y \in Existing', y[1] <= k
                 PROVE  In(y, "result_recorded")'
    BY DEF ParentsAnswered
  <2>2. k <= g
    <3>1. CASE Child(k) = Child(g)
      BY <3>1, Bounds DEF Child
    <3>2. CASE Child(k) # Child(g)
      <4>1. Child(k) \in Existing /\ Child(k)[1] = k + 1
        BY <1>1, <2>1, <3>2, ChildShape DEF Existing, Exists
      <4>2. QED
        BY <1>3, <4>1, Bounds
    <3>3. QED
      BY <3>1, <3>2
  <2>3. y \in Actions /\ y # Child(g)
    BY <1>2, <2>1, <2>2, Bounds DEF Existing
  <2>4. y \in Existing /\ action'[y] = action[y]
    BY <1>1, <2>1, <2>3 DEF Existing, Exists
  <2>5. QED
    BY <1>3, <2>4 DEF In, Exists
<1>9. CursorOwns'
  <2>1. SUFFICES ASSUME NEW y \in Initial, Exists(y)'
                 PROVE  cursor' # NONE /\ action'[y].state # "sending"
    BY DEF CursorOwns
  <2>2. y \in Existing /\ action'[y] = action[y]
    BY <1>1, <1>2, <2>1, InitialShape DEF Existing, Exists
  <2>3. QED
    BY <1>1, <1>2, <1>3, <2>2, Bounds DEF In
<1>10. QED
  BY <1>5, <1>6, <1>7, <1>8, <1>9 DEF Order

\* Reclaims find nothing of a sealed plan under way.
LEMMA NoneSending ==
  ASSUME JobInv, sealed, NEW x \in Actions, ReclaimSlot(x) \/ ReclaimPrepared(x),
         NEW y \in Initial, Exists(y)
  PROVE  action[y].state # "sending"
<1>1. y \in Actions /\ y \in Existing /\ y[1] = 0
  BY InitialShape DEF Existing
<1>2. CASE ReclaimSlot(x)
  BY <1>2 DEF ReclaimSlot, SlotsAtRest, In
<1>3. CASE ReclaimPrepared(x)
  <2>1. x[1] # 0 /\ x[1] > 0
    BY <1>3, ActionShape, Bounds DEF ReclaimPrepared
  <2>2. x[1] - 1 \in Groups /\ Lineage(x[1] - 1, {x})
    BY <1>3, <2>1, ActionShape, Bounds DEF ReclaimPrepared, MayDispatch, Confined
  <2>3. y # x
    BY <1>1, <2>1
  <2>4. In(y, "result_recorded")
    BY <1>1, <2>2, <2>3, AllAnswered DEF JobInv
  <2>5. QED
    BY <2>4 DEF In
<1>4. QED
  BY <1>2, <1>3

\* Every step keeps the order of the conversation.
LEMMA OrderKept ==
  ASSUME JobInv, [Next]_vars
  PROVE  Order'
<1> USE DEF control, journal, ending
<1>1. TypeOK /\ RowInv
  BY DEF JobInv, RowInv
<1>2. \A y \in Initial : sealed /\ Exists(y) =>
         /\ action[y].fence > 0 => cursor # NONE
         /\ action[y].state = "sending" => cursor = y
  BY DEF JobInv, CursorOwns
<1>3. ASSUME UNCHANGED <<batched, sealed, action, cursor>>, frame' => frame,
             phase' = "effect_started" => phase = "effect_started"
      PROVE  Order'
  BY <1>2, <1>3, OrderQuiet
<1>4. CASE UNCHANGED vars
  BY <1>3, <1>4 DEF vars
<1>5. CASE Lapse \/ Supersede \/ Cancel \/ FrameDies
  BY <1>3, <1>5 DEF Lapse, Supersede, Cancel, FrameDies
<1>6. CASE FinishInbox
  BY <1>3, <1>6 DEF FinishInbox
<1>7. ASSUME NEW g \in Groups, CompleteModelJob(g) PROVE Order'
  BY <1>3, <1>7 DEF CompleteModelJob
<1>8. ASSUME NEW g \in Groups, NEW s \in Verdicts, RecoverModelReductions(g, s) PROVE Order'
  BY <1>3, <1>8 DEF RecoverModelReductions
<1>9. CASE PrepareModelBatch
  BY <1>9, OrderBatch
<1>10. ASSUME NEW x \in Actions, PrepareAction(x) PROVE Order'
  BY <1>10, OrderRoute
<1>11. ASSUME NEW x \in Actions, NEW t \in Nat, Exists(x), action[x].fence < MaxFence, Lease(x, t),
              UNCHANGED <<control, phase, sealed, journal, ending>>,
              \A y \in Initial : sealed /\ Exists(y) =>
                 /\ cursor' # NONE
                 /\ action[y].state = "sending" => cursor' = y
       PROVE  Order'
  <2>1. /\ action'[x] # NONE /\ action'[x].state = action[x].state
        /\ \A y \in Actions : y # x => action'[y] = action[y]
    BY <1>1, <1>11, Leased
  <2>2. \A y \in Actions : /\ action'[y] = NONE <=> action[y] = NONE
                           /\ Exists(y) => action'[y].state = action[y].state
    BY <1>11, <2>1 DEF Exists
  <2>3. QED
    BY <1>11, <2>2, OrderQuiet
<1>12. ASSUME NEW x \in Actions, ClaimPrepared(x) PROVE Order'
  <2>1. Exists(x) /\ action[x].fence < MaxFence /\ Lease(x, 0) /\ frame
        /\ UNCHANGED <<control, phase, token, cursor, sealed, journal, ending>>
    BY <1>12, Bounds DEF ClaimPrepared, In
  <2>2. ~sealed
    BY <2>1 DEF JobInv, SealedPlan
  <2>3. QED
    BY <1>11, <2>1, <2>2
<1>13. ASSUME NEW x \in Actions, ReclaimSlot(x) \/ ReclaimPrepared(x) PROVE Order'
  <2>1. /\ Exists(x) /\ action[x].fence < MaxFence /\ token' \in Nat /\ cursor' = x
        /\ Lease(x, token')
        /\ UNCHANGED <<control, phase, sealed, journal, ending>>
    BY <1>1, <1>13, Reclaimed
  <2>2. x # NONE
    BY Bounds
  <2>3. \A y \in Initial : sealed /\ Exists(y) => action[y].state # "sending"
    BY <1>13, NoneSending
  <2>4. QED
    BY <1>11, <2>1, <2>2, <2>3
<1>14. ASSUME NEW c \in claims, BeginPrepared(c) PROVE Order'
  <2>1. /\ c.action \in Actions /\ In(c.action, "prepared")
        /\ action[c.action].fence = c.fence /\ c.fence > 0
        /\ action'[c.action] # NONE
        /\ \A y \in Actions : y # c.action => action'[y] = action[y]
    BY <1>1, <1>14, Begun
  <2>2. /\ UNCHANGED <<batched, sealed, frame, cursor>> /\ cursor \in {NONE, c.action}
        /\ phase' = "effect_started"
    BY <1>14 DEF BeginPrepared, MayDispatch
  <2>3. sealed /\ c.action \in Initial => cursor # NONE
    BY <1>2, <2>1 DEF In
  <2>4. QED
    BY <2>1, <2>2, <2>3, OrderMoved DEF In
<1>15. ASSUME NEW x \in Actions,
              RecordUncertain(x) \/ \E a \in {"text", "tools"} : RecordResponse(x, a)
       PROVE  Order'
  <2>1. /\ In(x, "sending") /\ action'[x] # NONE /\ action'[x].state # "sending"
        /\ \A y \in Actions : y # x => action'[y] = action[y]
    BY <1>1, <1>15, Ended
  <2>2. UNCHANGED <<batched, sealed, frame, cursor>>
    BY <1>15 DEF RecordUncertain, RecordResponse
  <2>3. sealed /\ x \in Initial => cursor # NONE
    BY <1>2, <2>1, Bounds DEF In
  <2>4. QED
    BY <2>1, <2>2, <2>3, OrderMoved DEF In
<1>16. ASSUME NEW x \in Actions, LeaseEnds(x) PROVE Order'
  <2>1. /\ Exists(x) /\ action'[x] # NONE /\ action'[x].state = action[x].state
        /\ action'[x].fence = action[x].fence
        /\ \A y \in Actions : y # x => action'[y] = action[y]
    BY <1>1, <1>16, Unheld
  <2>2. UNCHANGED <<batched, sealed, frame, phase, cursor>>
    BY <1>16 DEF LeaseEnds
  <2>3. \A y \in Actions : /\ action'[y] = NONE <=> action[y] = NONE
                           /\ Exists(y) => action'[y].state = action[y].state
                           /\ Exists(y) => action'[y].fence = action[y].fence
    BY <2>1 DEF Exists
  <2>4. QED
    BY <1>2, <2>2, <2>3, InitialShape, OrderQuiet
<1>17. CASE RecoverActionResults
  <2>1. UNCHANGED <<batched, sealed, frame, phase, cursor>>
    BY <1>17 DEF RecoverActionResults
  <2>2. QED
    BY <1>1, <1>2, <1>17, <2>1, IndexedRows, InitialShape, OrderQuiet
<1>18. ASSUME NEW g \in Groups, NEW x \in Actions, CommitModelToolObservations(g, x)
       PROVE  Order'
  <2>1. /\ UNCHANGED <<batched, sealed, frame, phase, action>> /\ cursor' = x
        /\ Lineage(g, {})
    BY <1>18 DEF CommitModelToolObservations, MayObserve
  <2>2. x # NONE
    BY Bounds
  <2>3. \A y \in Existing : In(y, "result_recorded")
    BY <1>1, <2>1, AllAnswered
  <2>4. \A y \in Initial : Exists(y) => action[y].state # "sending"
    BY <2>3, InitialShape DEF Existing, In
  <2>5. QED
    BY <2>1, <2>2, <2>4, OrderQuiet
<1>19. ASSUME NEW g \in Groups, AdvanceModelToolContinuation(g) \/ AdvanceModelContinuation(g)
       PROVE  Order'
  BY <1>1, <1>19, Opened, OrderChild
<1>20. CASE Next
  <2>1. CASE Poll
    BY <1>7, <1>8, <1>13, <1>17, <1>18, <1>19, <2>1 DEF Poll
  <2>2. CASE Send
    BY <1>14, <1>15, <2>2 DEF Send
  <2>3. CASE Live
    BY <1>6, <1>9, <1>10, <1>12, <2>3 DEF Live
  <2>4. CASE Environment
    BY <1>5, <1>16, <2>4 DEF Environment
  <2>5. QED
    BY <1>20, <2>1, <2>2, <2>3, <2>4 DEF Next
<1>21. QED
  BY <1>4, <1>20

LEMMA JobStart == Init => JobInv
<1>1. SUFFICES ASSUME Init PROVE JobInv
  OBVIOUS
<1>2. \A x \in Actions : ~Exists(x)
  BY <1>1 DEF Init, Exists
<1>3. Existing = {} /\ phase = "admitted" /\ ~sealed
  BY <1>1, <1>2 DEF Init, Existing
<1>4. FirstPlanned /\ SealedPlan /\ CursorOwns
  BY <1>3 DEF FirstPlanned, SealedPlan, CursorOwns
<1>5. RoutesInOrder
  BY <1>2, InitialShape DEF RoutesInOrder
<1>6. ParentsAnswered
  BY <1>2, ChildShape DEF ParentsAnswered
<1>7. QED
  BY <1>1, <1>4, <1>5, <1>6, RowStart DEF JobInv

LEMMA JobInvariant == Spec => []JobInv
<1>1. JobInv /\ [Next]_vars => JobInv'
  BY RowKept, OrderKept DEF JobInv, Order
<1>2. QED
  BY <1>1, JobStart, PTL DEF Spec
-----------------------------------------------------------------------------
(* The conversation a job is *)

Asked == {x \in Actions : Exists(x) /\ ~In(x, "prepared")}
Answered == {x \in Actions : In(x, "result_recorded")}
Lost == {x \in Actions : In(x, "uncertain")}
View == <<Existing, Asked, Answered, Lost>>

\* What steps on the rows of actions are to the conversation.
LEMMA ViewSame ==
  ASSUME \A y \in Actions : /\ action'[y] = NONE <=> action[y] = NONE
                            /\ Exists(y) => action'[y].state = action[y].state
  PROVE  View' = View
<1>1. \A y \in Actions : Exists(y)' <=> Exists(y)
  BY DEF Exists
<1>2. \A y \in Actions, s \in {"prepared", "uncertain", "result_recorded"} : In(y, s)' <=> In(y, s)
  BY <1>1 DEF In, Exists
<1>3. Existing' = Existing /\ Asked' = Asked /\ Answered' = Answered /\ Lost' = Lost
  BY <1>1, <1>2 DEF Existing, Asked, Answered, Lost
<1>4. QED
  BY <1>3 DEF View

LEMMA ViewPlanned ==
  ASSUME NEW S \in SUBSET Actions,
         \A y \in S : ~Exists(y) /\ action'[y] # NONE /\ action'[y].state = "prepared",
         \A y \in Actions \ S : action'[y] = action[y]
  PROVE  /\ Existing' = Existing \cup S /\ S \cap Existing = {}
         /\ Asked' = Asked /\ Answered' = Answered /\ Lost' = Lost
<1>1. \A y \in Actions : Exists(y)' <=> Exists(y) \/ y \in S
  BY DEF Exists
<1>2. \A y \in Actions, s \in {"uncertain", "result_recorded"} : In(y, s)' <=> In(y, s)
  BY DEF In, Exists
<1>3. \A y \in Actions : In(y, "prepared")' <=> In(y, "prepared") \/ y \in S
  BY DEF In, Exists
<1>4. \A y \in S : ~Exists(y)
  OBVIOUS
<1>5. QED
  BY <1>1, <1>2, <1>3, <1>4 DEF Existing, Asked, Answered, Lost

LEMMA ViewMoved ==
  ASSUME NEW x \in Actions, Exists(x), action'[x] # NONE,
         \A y \in Actions : y # x => action'[y] = action[y]
  PROVE  /\ Existing' = Existing
         /\ In(x, "prepared") /\ action'[x].state = "sending" =>
              /\ x \in Existing \ Asked
              /\ Asked' = Asked \cup {x} /\ Answered' = Answered /\ Lost' = Lost
         /\ In(x, "sending") /\ action'[x].state = "result_recorded" =>
              /\ x \in Asked \ (Answered \cup Lost)
              /\ Asked' = Asked /\ Answered' = Answered \cup {x} /\ Lost' = Lost
         /\ In(x, "sending") /\ action'[x].state = "uncertain" =>
              /\ x \in Asked \ (Answered \cup Lost)
              /\ Asked' = Asked /\ Answered' = Answered /\ Lost' = Lost \cup {x}
<1>1. \A y \in Actions : Exists(y)' <=> Exists(y)
  BY DEF Exists
<1>2. \A y \in Actions, s \in {"prepared", "uncertain", "result_recorded"} :
         y # x => (In(y, s)' <=> In(y, s))
  BY DEF In, Exists
<1>3. \A s \in {"prepared", "uncertain", "result_recorded"} : In(x, s)' <=> action'[x].state = s
  BY DEF In, Exists
<1>4. ASSUME In(x, "prepared"), action'[x].state = "sending"
      PROVE  /\ x \in Existing \ Asked
             /\ Asked' = Asked \cup {x} /\ Answered' = Answered /\ Lost' = Lost
  <2>1. ~In(x, "uncertain") /\ ~In(x, "result_recorded")
    BY <1>4 DEF In
  <2>2. ~In(x, "prepared")' /\ ~In(x, "uncertain")' /\ ~In(x, "result_recorded")'
    BY <1>3, <1>4
  <2>3. QED
    BY <1>1, <1>2, <1>4, <2>1, <2>2 DEF Existing, Asked, Answered, Lost
<1>5. ASSUME In(x, "sending")
      PROVE  ~In(x, "prepared") /\ ~In(x, "uncertain") /\ ~In(x, "result_recorded")
  BY <1>5 DEF In
<1>6. ASSUME In(x, "sending"), action'[x].state = "result_recorded"
      PROVE  /\ x \in Asked \ (Answered \cup Lost)
             /\ Asked' = Asked /\ Answered' = Answered \cup {x} /\ Lost' = Lost
  <2>1. ~In(x, "prepared")' /\ ~In(x, "uncertain")' /\ In(x, "result_recorded")'
    BY <1>3, <1>6
  <2>2. QED
    BY <1>1, <1>2, <1>5, <1>6, <2>1 DEF Asked, Answered, Lost
<1>7. ASSUME In(x, "sending"), action'[x].state = "uncertain"
      PROVE  /\ x \in Asked \ (Answered \cup Lost)
             /\ Asked' = Asked /\ Answered' = Answered /\ Lost' = Lost \cup {x}
  <2>1. ~In(x, "prepared")' /\ In(x, "uncertain")' /\ ~In(x, "result_recorded")'
    BY <1>3, <1>7
  <2>2. QED
    BY <1>1, <1>2, <1>5, <1>7, <2>1 DEF Asked, Answered, Lost
<1>8. Existing' = Existing
  BY <1>1 DEF Existing
<1>9. QED
  BY <1>4, <1>6, <1>7, <1>8

\* Whoever begins a claimed action finds no other one under way.
LEMMA OneAtATime ==
  ASSUME JobInv, NEW c \in claims, BeginPrepared(c)
  PROVE  Asked \subseteq Answered \cup Lost
<1> DEFINE x == c.action
<1>1. x \in Actions /\ In(x, "prepared") /\ action[x].fence > 0
  BY Begun DEF JobInv, RowInv
<1>2. cursor \in {NONE, x} /\ Confined(x)
  BY DEF BeginPrepared, MayDispatch
<1>3. SUFFICES ASSUME NEW y \in Asked
               PROVE  In(y, "result_recorded") \/ In(y, "uncertain")
  BY DEF Asked, Answered, Lost
<1>4. y \in Actions /\ Exists(y) /\ y \in Existing /\ ~In(y, "prepared")
  BY <1>3 DEF Asked, Existing
<1>5. y # x
  BY <1>1, <1>4
<1>6. CASE x[1] # 0
  <2>1. x[1] > 0 /\ x[1] - 1 \in Groups
    BY <1>1, <1>6, ActionShape, Bounds
  <2>2. Lineage(x[1] - 1, {x})
    BY <1>2, <2>1 DEF Confined
  <2>3. QED
    BY <1>1, <1>4, <1>5, <2>1, <2>2, AllAnswered DEF JobInv
<1>7. CASE x[1] = 0
  <2>1. x \in Initial /\ x[2] \in 1..Width /\ x = <<0, x[2]>>
    BY <1>1, <1>7, ActionShape, InitialShape
  <2>2. y[1] = 0
    <3>1. SUFFICES ASSUME y[1] # 0 PROVE FALSE
      OBVIOUS
    <3>2. y[1] - 1 \in 0..(Rounds + 1) /\ y = Child(y[1] - 1)
      BY <1>4, <3>1, ActionShape
    <3>3. x \in Existing /\ x[1] <= y[1] - 1
      BY <1>1, <1>7, <3>2, Bounds DEF Existing, In
    <3>4. In(x, "result_recorded")
      BY <1>4, <3>2, <3>3 DEF JobInv, ParentsAnswered
    <3>5. QED
      BY <1>1, <3>4 DEF In
  <2>3. y \in Initial /\ y[2] \in 1..Width /\ y = <<0, y[2]>>
    BY <1>4, <2>2, ActionShape, InitialShape
  <2>4. CASE batched
    <3>1. sealed
      BY <1>4, <2>4 DEF JobInv, SealedPlan
    <3>2. cursor = x
      BY <1>1, <1>2, <2>1, <3>1 DEF JobInv, CursorOwns, In
    <3>3. action[y].state # "sending"
      BY <1>4, <1>5, <2>3, <3>1, <3>2 DEF JobInv, CursorOwns
    <3>4. action[y] \in ActionRow
      BY <1>4, ExistingRow DEF JobInv, RowInv
    <3>5. QED
      BY <1>4, <3>3, <3>4 DEF ActionRow, In
  <2>5. CASE ~batched
    <3>1. x[2] # y[2]
      BY <1>5, <2>1, <2>3
    <3>2. CASE y[2] < x[2]
      BY <1>1, <2>1, <2>3, <2>5, <3>2 DEF JobInv, RoutesInOrder, In
    <3>3. CASE x[2] < y[2]
      <4>1. In(x, "uncertain")
        BY <1>4, <2>1, <2>3, <2>5, <3>3 DEF JobInv, RoutesInOrder
      <4>2. QED
        BY <1>1, <4>1 DEF In
    <3>4. QED
      BY <2>1, <2>3, <3>1, <3>2, <3>3, Bounds
  <2>6. QED
    BY <2>4, <2>5
<1>8. QED
  BY <1>6, <1>7

\* A route is an alternative of everything planned so far.
LEMMA RouteIsAlternative ==
  ASSUME JobInv, NEW x \in Actions, PrepareAction(x)
  PROVE  Existing \subseteq Lost
<1>1. /\ ~batched /\ x \in Initial /\ ~Exists(x)
      /\ \A n \in 1..(x[2] - 1) : In(<<0, n>>, "uncertain")
  BY DEF PrepareAction
<1>2. SUFFICES ASSUME NEW y \in Existing PROVE In(y, "uncertain")
  BY DEF Lost, Existing
<1>3. y \in Actions /\ Exists(y) /\ y # x
  BY <1>1, <1>2 DEF Existing
<1>4. y[1] = 0
  BY <1>3, ActionShape, NoChildYet
<1>5. y \in Initial /\ y[2] \in 1..Width /\ y = <<0, y[2]>> /\ x[2] \in 1..Width /\ x = <<0, x[2]>>
  BY <1>1, <1>3, <1>4, ActionShape, InitialShape
<1>6. CASE y[2] < x[2]
  <2>1. y[2] \in 1..(x[2] - 1)
    BY <1>5, <1>6, Bounds
  <2>2. QED
    BY <1>1, <1>5, <2>1
<1>7. CASE x[2] < y[2]
  BY <1>1, <1>3, <1>5, <1>7 DEF JobInv, RoutesInOrder, In
<1>8. QED
  BY <1>3, <1>5, <1>6, <1>7, Bounds

\* Everything was answered before a continuation or the end of a job.
LEMMA AnsweredBefore ==
  ASSUME JobInv, NEW g \in Groups, Lineage(g, {})
  PROVE  Existing \subseteq Answered
BY AllAnswered DEF JobInv, Answered, Existing

\* Every step of a job is one of a conversation, or none.
LEMMA DialogueStep ==
  ASSUME JobInv, [Next]_vars
  PROVE  [D!Next]_(D!vars)
<1> USE DEF control, journal, ending
<1>1. TypeOK /\ RowInv
  BY DEF JobInv, RowInv
<1>2. ASSUME \A y \in Actions : /\ action'[y] = NONE <=> action[y] = NONE
                                /\ Exists(y) => action'[y].state = action[y].state,
             phase' = phase
      PROVE  UNCHANGED D!vars
  <2>1. View' = View
    BY <1>2, ViewSame
  <2>2. Existing' = Existing /\ Asked' = Asked /\ Answered' = Answered /\ Lost' = Lost
    BY <2>1 DEF View
  <2>3. (phase' = "finished") = (phase = "finished")
    BY <1>2
  <2>4. QED
    BY <2>2, <2>3 DEF D!vars, Asked, Answered, Lost
<1>3. ASSUME UNCHANGED <<action, phase>> PROVE UNCHANGED D!vars
  BY <1>2, <1>3
<1>4. ASSUME NEW S \in SUBSET Actions, S # {}, phase # "finished", phase' = phase,
             Existing \subseteq Answered,
             \A y \in S : ~Exists(y) /\ action'[y] # NONE /\ action'[y].state = "prepared",
             \A y \in Actions \ S : action'[y] = action[y]
      PROVE  D!Next
  <2>1. /\ Existing' = Existing \cup S /\ S \cap Existing = {}
        /\ Asked' = Asked /\ Answered' = Answered /\ Lost' = Lost
    BY <1>4, ViewPlanned
  <2>2. D!Plan(S)
    BY <1>4, <2>1 DEF D!Plan, Asked, Answered, Lost
  <2>3. QED
    BY <2>2 DEF D!Next
<1>5. CASE UNCHANGED vars
  BY <1>3, <1>5 DEF vars
<1>6. CASE Lapse \/ Supersede \/ Cancel \/ FrameDies
  BY <1>3, <1>6 DEF Lapse, Supersede, Cancel, FrameDies
<1>7. ASSUME UNCHANGED action, phase # "finished", phase' = "finished", Existing \subseteq Answered
      PROVE  D!Next
  <2>1. View' = View
    BY <1>7, ViewSame
  <2>2. D!Close
    BY <1>7, <2>1 DEF View, D!Close, Asked, Answered, Lost
  <2>3. QED
    BY <2>2 DEF D!Next
<1>8. CASE FinishInbox
  BY <1>7, <1>8 DEF FinishInbox
<1>9. ASSUME NEW g \in Groups, CompleteModelJob(g) PROVE D!Next
  <2>1. Lineage(g, {}) /\ phase # "finished" /\ phase' = "finished" /\ UNCHANGED action
    BY <1>9 DEF CompleteModelJob, Started
  <2>2. QED
    BY <1>7, <2>1, AnsweredBefore
<1>10. ASSUME NEW g \in Groups, NEW s \in Verdicts, RecoverModelReductions(g, s)
       PROVE  UNCHANGED D!vars
  BY <1>3, <1>10 DEF RecoverModelReductions
<1>11. CASE PrepareModelBatch
  <2>1. /\ Existing = {} /\ phase = "admitted" /\ phase' = phase
        /\ action' = [x \in Actions |-> IF x \in Initial THEN Prepared ELSE NONE]
    BY <1>11 DEF PrepareModelBatch
  <2>2. \A y \in Actions : ~Exists(y)
    BY <2>1 DEF Existing
  <2>3. Initial \in SUBSET Actions /\ Initial # {}
    BY FirstShape, InitialShape
  <2>4. \A y \in Initial : ~Exists(y) /\ action'[y] # NONE /\ action'[y].state = "prepared"
    BY <2>1, <2>2, <2>3, PreparedRow, Bounds
  <2>5. \A y \in Actions \ Initial : action'[y] = action[y]
    BY <2>1, <2>2 DEF Exists
  <2>6. Existing \subseteq Answered
    BY <2>1
  <2>7. QED
    BY <1>4, <2>1, <2>3, <2>4, <2>5, <2>6
<1>12. ASSUME NEW x \in Actions, PrepareAction(x) PROVE D!Next
  <2>1. /\ ~Exists(x) /\ phase # "finished" /\ phase' = phase
        /\ action' = [action EXCEPT ![x] = Prepared]
    BY <1>12 DEF PrepareAction, MayDispatch
  <2>2. /\ action'[x] # NONE /\ action'[x].state = "prepared"
        /\ \A y \in Actions : y # x => action'[y] = action[y]
    BY <1>1, <2>1, PreparedRow, RowChanged, Bounds
  <2>3. /\ Existing' = Existing \cup {x} /\ x \notin Existing
        /\ Asked' = Asked /\ Answered' = Answered /\ Lost' = Lost
    <3>1. {x} \in SUBSET Actions
      OBVIOUS
    <3>2. /\ \A y \in {x} : ~Exists(y) /\ action'[y] # NONE /\ action'[y].state = "prepared"
          /\ \A y \in Actions \ {x} : action'[y] = action[y]
      BY <2>1, <2>2
    <3>3. /\ Existing' = Existing \cup {x} /\ {x} \cap Existing = {}
          /\ Asked' = Asked /\ Answered' = Answered /\ Lost' = Lost
      BY <3>1, <3>2, ViewPlanned
    <3>4. QED
      BY <3>3
  <2>4. CASE Existing = {}
    <3>1. /\ {x} \in SUBSET Actions /\ {x} # {} /\ Existing \subseteq Answered
          /\ \A y \in {x} : ~Exists(y) /\ action'[y] # NONE /\ action'[y].state = "prepared"
          /\ \A y \in Actions \ {x} : action'[y] = action[y]
      BY <2>1, <2>2, <2>4
    <3>2. QED
      BY <1>4, <2>1, <3>1
  <2>5. CASE Existing # {}
    <3>1. Existing \subseteq Lost
      BY <1>12, RouteIsAlternative
    <3>2. D!PlanAlternative(x)
      BY <2>1, <2>3, <2>5, <3>1 DEF D!PlanAlternative, Asked, Answered, Lost
    <3>3. QED
      BY <3>2 DEF D!Next
  <2>6. QED
    BY <2>4, <2>5
<1>13. ASSUME NEW x \in Actions, NEW t \in Nat, Exists(x), action[x].fence < MaxFence, Lease(x, t),
              phase' = phase
       PROVE  UNCHANGED D!vars
  <2>1. /\ action'[x] # NONE /\ action'[x].state = action[x].state
        /\ \A y \in Actions : y # x => action'[y] = action[y]
    BY <1>1, <1>13, Leased
  <2>2. \A y \in Actions : /\ action'[y] = NONE <=> action[y] = NONE
                           /\ Exists(y) => action'[y].state = action[y].state
    BY <1>13, <2>1 DEF Exists
  <2>3. QED
    BY <1>2, <1>13, <2>2
<1>14. ASSUME NEW x \in Actions, ClaimPrepared(x) PROVE UNCHANGED D!vars
  <2>1. Exists(x) /\ action[x].fence < MaxFence /\ Lease(x, 0) /\ phase' = phase
    BY <1>14, Bounds DEF ClaimPrepared, In
  <2>2. QED
    BY <1>13, <2>1
<1>15. ASSUME NEW x \in Actions, ReclaimSlot(x) \/ ReclaimPrepared(x) PROVE UNCHANGED D!vars
  BY <1>1, <1>13, <1>15, Reclaimed
<1>16. ASSUME NEW c \in claims, BeginPrepared(c) PROVE D!Next
  <2>1. /\ c.action \in Actions /\ In(c.action, "prepared")
        /\ action'[c.action] # NONE /\ action'[c.action].state = "sending"
        /\ \A y \in Actions : y # c.action => action'[y] = action[y]
    BY <1>1, <1>16, Begun
  <2>2. phase # "finished" /\ phase' # "finished"
    BY <1>16 DEF BeginPrepared, MayDispatch
  <2>3. /\ Existing' = Existing /\ c.action \in Existing \ Asked
        /\ Asked' = Asked \cup {c.action} /\ Answered' = Answered /\ Lost' = Lost
    BY <2>1, ViewMoved DEF In
  <2>4. D!Ask(c.action)
    BY <1>16, <2>2, <2>3, OneAtATime DEF D!Ask, Asked, Answered, Lost
  <2>5. QED
    BY <2>1, <2>4 DEF D!Next
<1>17. ASSUME NEW x \in Actions,
              RecordUncertain(x) \/ \E a \in {"text", "tools"} : RecordResponse(x, a)
       PROVE  D!Next
  <2>1. /\ In(x, "sending") /\ action'[x] # NONE
        /\ action'[x].state \in {"uncertain", "result_recorded"}
        /\ \A y \in Actions : y # x => action'[y] = action[y]
    BY <1>1, <1>17, Ended
  <2>2. phase' = phase
    BY <1>17 DEF RecordUncertain, RecordResponse
  <2>3. /\ Existing' = Existing /\ x \in Asked \ (Answered \cup Lost) /\ Asked' = Asked
        /\ \/ Answered' = Answered \cup {x} /\ Lost' = Lost
           \/ Answered' = Answered /\ Lost' = Lost \cup {x}
    BY <2>1, ViewMoved DEF In
  <2>4. D!Answer(x) \/ D!Lose(x)
    BY <2>2, <2>3 DEF D!Answer, D!Lose, Asked, Answered, Lost
  <2>5. QED
    BY <2>4 DEF D!Next
<1>18. ASSUME NEW x \in Actions, LeaseEnds(x) PROVE UNCHANGED D!vars
  <2>1. /\ Exists(x) /\ action'[x] # NONE /\ action'[x].state = action[x].state
        /\ \A y \in Actions : y # x => action'[y] = action[y]
    BY <1>1, <1>18, Unheld
  <2>2. \A y \in Actions : /\ action'[y] = NONE <=> action[y] = NONE
                           /\ Exists(y) => action'[y].state = action[y].state
    BY <2>1 DEF Exists
  <2>3. phase' = phase
    BY <1>18 DEF LeaseEnds
  <2>4. QED
    BY <1>2, <2>2, <2>3
<1>19. CASE RecoverActionResults
  <2>1. phase' = phase
    BY <1>19 DEF RecoverActionResults
  <2>2. UNCHANGED D!vars
    BY <1>1, <1>2, <1>19, <2>1, IndexedRows
  <2>3. QED
    BY <2>2
<1>20. ASSUME NEW g \in Groups, NEW x \in Actions, CommitModelToolObservations(g, x)
       PROVE  UNCHANGED D!vars
  BY <1>3, <1>20 DEF CommitModelToolObservations
<1>21. ASSUME NEW g \in Groups, AdvanceModelToolContinuation(g) \/ AdvanceModelContinuation(g)
       PROVE  D!Next
  <2>1. g \in 0..(Rounds + 1) /\ Started /\ Lineage(g, {}) /\ PrepareChild(g)
    BY <1>1, <1>21, Opened
  <2>2. /\ Child(g) \in Actions /\ ~Exists(Child(g))
        /\ action'[Child(g)] # NONE /\ action'[Child(g)].state = "prepared"
        /\ \A y \in Actions : y # Child(g) => action'[y] = action[y]
    BY <1>1, <2>1, ChildShape, ChildPrepared
  <2>3. phase # "finished" /\ phase' = phase
    BY <2>1 DEF Started, PrepareChild
  <2>4. Existing \subseteq Answered
    BY <2>1, AnsweredBefore
  <2>5. {Child(g)} \in SUBSET Actions /\ {Child(g)} # {}
    BY <2>2
  <2>6. QED
    BY <1>4, <2>2, <2>3, <2>4, <2>5
<1>22. CASE Next
  <2>1. CASE Poll
    BY <1>9, <1>10, <1>15, <1>19, <1>20, <1>21, <2>1 DEF Poll
  <2>2. CASE Send
    BY <1>16, <1>17, <2>2 DEF Send
  <2>3. CASE Live
    BY <1>8, <1>11, <1>12, <1>14, <2>3 DEF Live
  <2>4. CASE Environment
    BY <1>6, <1>18, <2>4 DEF Environment
  <2>5. QED
    BY <1>22, <2>1, <2>2, <2>3, <2>4 DEF Next
<1>23. QED
  BY <1>5, <1>22

\* Every durable model job is one conversation, whatever the width of its
\* plan, the rounds and the takeovers: a question at a time, none twice, new
\* ones only after every answer or as the alternative of lost ones, and an
\* end on complete answers only.
THEOREM JobIsDialogue == Spec => ImplementsDialogue
<1>1. Init => D!Init
  <2>1. SUFFICES ASSUME Init PROVE D!Init
    OBVIOUS
  <2>2. \A x \in Actions : ~Exists(x)
    BY <2>1 DEF Init, Exists
  <2>3. QED
    BY <2>1, <2>2 DEF Init, D!Init, Existing, In
<1>2. JobInv /\ [Next]_vars => [D!Next]_(D!vars)
  BY DialogueStep
<1>3. QED
  BY <1>1, <1>2, JobInvariant, PTL DEF Spec, ImplementsDialogue, D!Spec
=============================================================================
