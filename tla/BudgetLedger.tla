---------------------------- MODULE BudgetLedger ----------------------------
(***************************************************************************)
(* The PostgreSQL budget ledger of agent/accounting, seen through the      *)
(* operations of Authority that need no durable job: attempts are          *)
(* registered and closed; a model action reserves its quoted upper bound   *)
(* in an attempt, a change and a project scope; a prepared action is       *)
(* claimed under a fenced lease and marked as sending before its provider  *)
(* call; outcomes and final usage receipts arrive afterwards, late, twice  *)
(* or never.                                                               *)
(*                                                                         *)
(* Every operation of Authority is one transaction that locks the rows it  *)
(* reads, so each is one action here.  A refused operation rolls back and  *)
(* is a stuttering step; the operations that commit although they answer   *)
(* with an error (a quarantined receipt, an integrity incident) are        *)
(* actions.  The caller may lose the answer of any committed operation.    *)
(*                                                                         *)
(* Abstracted: the request, its digest and its route are the action's      *)
(* identity, with the bound it is quoted (Upper) and the window in which   *)
(* the route is qualified; a scope's stored authority never changes under  *)
(* one configuration of the host.                                          *)
(***************************************************************************)
EXTENDS Totals

CONSTANTS
  Attempts,        \* attempt identities
  Changes,         \* change keys
  Project,         \* the project of this authority
  ChangeOf,        \* the change each attempt reviews
  Actions,         \* action identities, each bound to one immutable request
  Workers,         \* worker identities (opaque and never reused)
  Resources,       \* the bounded dimensions of a resource scope
  Upper,           \* Upper[x]: what Catalog.Quote reserves for action x
  Limit,           \* Limit[t][k]: the policy limits of attempt t per scope kind
  Ceiling,         \* Ceiling[k]: the operator's ceilings per scope kind
  Deadline,        \* execution deadline of an attempt
  ValidFrom,       \* the window in which the route of an action is qualified
  ValidUntil,
  Anchor,          \* first instant and length of a kind's fixed budget period
  Duration,
  LeaseTime,       \* the lease a worker asks for
  Outcomes,        \* provider outcomes a frame may report
  FinalReceipts,   \* usage receipts that reconciliation may present
  MaxFence,        \* bound on the claims of one action
  MaxNow,          \* bound on the database clock
  MaxQuarantine,   \* bound on the quarantined receipts
  NONE

Kinds == {"attempt", "change", "project"}
Scopes == Attempts \cup Changes \cup {Project}
Amounts == [Resources -> Nat]
Time == 0..MaxNow

ASSUME ScopeAssumption ==
  /\ Attempts \cap Changes = {}
  /\ Project \notin Attempts \cup Changes
  /\ ChangeOf \in [Attempts -> Changes]

ASSUME LimitAssumption ==
  /\ "ActiveMS" \in Resources
  /\ Upper \in [Actions -> Amounts]
  /\ Limit \in [Attempts -> [Kinds -> Amounts]]
  /\ Ceiling \in [Kinds -> Amounts]

ASSUME TimeAssumption ==
  /\ MaxNow \in Nat /\ MaxFence \in Nat /\ MaxQuarantine \in Nat /\ LeaseTime \in Nat
  /\ Deadline \in [Attempts -> Nat]
  /\ ValidFrom \in [Actions -> Nat] /\ ValidUntil \in [Actions -> Nat]
  /\ Anchor \in [Kinds -> Nat] /\ Duration \in [Kinds -> Nat \ {0}]

ASSUME MessageAssumption ==
  /\ \A o \in Outcomes : o.received \in BOOLEAN /\ o.elapsed \in Nat
  /\ \A f \in FinalReceipts : /\ f.action \in Actions
                              /\ f.matches \in BOOLEAN
                              /\ f.actual \in Amounts
  /\ NONE \notin Outcomes /\ NONE \notin FinalReceipts

VARIABLES
  now,         \* the database clock
  attempt,     \* budget_attempts
  action,      \* budget_actions with their budget_holds
  lease,       \* budget_action_leases
  claims,      \* the ActionClaims workers were given
  frames,      \* dispatch frames: permits not yet answered by an outcome
  sends,       \* provider calls made for each action
  receipts,    \* budget_receipts
  quarantine   \* budget_quarantine

vars == <<now, attempt, action, lease, claims, frames, sends, receipts, quarantine>>
-----------------------------------------------------------------------------
(* Rows *)

States == {"prepared", "sending", "uncertain", "result_recorded"}

ActionRow ==
  [attempt: Attempts, state: States, fenced: BOOLEAN, origin: [Kinds -> Int],
   outcome: Outcomes \cup {NONE}, receipt: FinalReceipts \cup {NONE}, incident: BOOLEAN]

LeaseRow == [fence: 0..MaxFence, worker: Workers \cup {NONE}, until: Nat, sending: 0..MaxFence]
Unclaimed == [fence |-> 0, worker |-> NONE, until |-> 0, sending |-> 0]

Claim == [action: Actions, worker: Workers, fence: 1..MaxFence, until: Nat]
Frame == [action: Actions, worker: Workers \cup {NONE}, fence: 0..MaxFence, called: BOOLEAN]

ASSUME RowAssumption == IsFiniteSet(Actions) /\ NONE \notin Workers \cup ActionRow

Exists(x) == action[x] # NONE
Settled(x) == action[x].receipt # NONE
-----------------------------------------------------------------------------
(* Scopes and what they are charged *)

Kind(s) == IF s \in Attempts THEN "attempt" ELSE IF s \in Changes THEN "change" ELSE "project"
ScopesOf(t) == {t, ChangeOf[t], Project}

\* An attempt's budget is for its lifetime; the others renew in fixed periods.
PeriodAt(k, time) == IF k = "attempt" THEN 0 ELSE (time - Anchor[k]) \div Duration[k]

Holds(x, s) == Exists(x) /\ s \in ScopesOf(action[x].attempt)

\* A deviation: a failed call no longer holds its reservation.
CountedKnown(s, p) ==
  {x \in Actions : /\ Holds(x, s)
                   /\ IF Settled(x) THEN action[x].origin[Kind(s)] = p ELSE action[x].state # "uncertain"}

\* The actions checkCapacity adds up: every unsettled hold, whatever its
\* period, and the settled ones of the period.
Counted(s, p) == {x \in Actions : Holds(x, s) /\ (~Settled(x) \/ action[x].origin[Kind(s)] = p)}

Amount(x) == IF Settled(x) THEN action[x].receipt.actual ELSE Upper[x]

\* What a set of actions is charged of one resource.
Due(X, r) == Total(X, [x \in X |-> Amount(x)[r]])
Charge(s, r) == Due(Counted(s, PeriodAt(Kind(s), now)), r)

Incident(s) == \E x \in Actions : Holds(x, s) /\ action[x].incident

Zero == [r \in Resources |-> 0]

\* A deviation: the request itself is not added.
WithinLimitBefore(t, s, amount) == \A r \in Resources : Charge(s, r) <= Limit[t][Kind(s)][r]

WithinLimit(t, s, amount) == \A r \in Resources : amount[r] + Charge(s, r) <= Limit[t][Kind(s)][r]

\* A deviation: incidents are not looked at.
CapacityOnly(t, amount) == \A s \in ScopesOf(t) : WithinLimit(t, s, amount)

\* checkCapacity in all three scopes, in their lock order.
Capacity(t, amount) == \A s \in ScopesOf(t) : ~Incident(s) /\ WithinLimit(t, s, amount)

\* binding() refuses a policy beyond the operator's ceilings.
Bound(t) == \A k \in Kinds, r \in Resources : Limit[t][k][r] <= Ceiling[k][r]

Qualified(t, x) == /\ now < Deadline[t]
                   /\ ValidFrom[x] <= now /\ now < ValidUntil[x]
                   /\ \A k \in Kinds : Anchor[k] <= now
-----------------------------------------------------------------------------
Init ==
  /\ now = 0
  /\ attempt = [t \in Attempts |-> "absent"]
  /\ action = [x \in Actions |-> NONE]
  /\ lease = [x \in Actions |-> Unclaimed]
  /\ claims = {} /\ frames = {}
  /\ sends = [x \in Actions |-> 0]
  /\ receipts = {} /\ quarantine = {}

Tick ==
  /\ now < MaxNow
  /\ now' = now + 1
  /\ UNCHANGED <<attempt, action, lease, claims, frames, sends, receipts, quarantine>>

RegisterAttempt(t) ==
  /\ attempt[t] = "absent" /\ Bound(t)
  /\ attempt' = [attempt EXCEPT ![t] = "active"]
  /\ UNCHANGED <<now, action, lease, claims, frames, sends, receipts, quarantine>>

\* A deviation: a state no table admits.
CloseAttemptAway(t) ==
  /\ attempt[t] = "active"
  /\ attempt' = [attempt EXCEPT ![t] = "deleted"]
  /\ UNCHANGED <<now, action, lease, claims, frames, sends, receipts, quarantine>>

CloseAttempt(t) ==
  /\ attempt[t] = "active"
  /\ attempt' = [attempt EXCEPT ![t] = "closed"]
  /\ UNCHANGED <<now, action, lease, claims, frames, sends, receipts, quarantine>>

\* reserveActionTx: checks every scope, then inserts the action, its three
\* holds and, for a prepared action, its lease row.
Reserve(t, x, state) ==
  /\ ~Exists(x)
  /\ attempt[t] = "active" /\ Bound(t)
  /\ Qualified(t, x)
  /\ Capacity(t, Upper[x])
  /\ action' = [action EXCEPT ![x] =
       [attempt |-> t, state |-> state, fenced |-> state = "prepared",
        origin |-> [k \in Kinds |-> PeriodAt(k, now)],
        outcome |-> NONE, receipt |-> NONE, incident |-> FALSE]]
  /\ UNCHANGED <<now, attempt, lease, claims, sends, receipts, quarantine>>

\* The permit, or no frame at all when the answer is lost.
Grant(x, worker, fence) ==
  \/ frames' = frames \cup {[action |-> x, worker |-> worker, fence |-> fence, called |-> FALSE]}
  \/ UNCHANGED frames

ReserveAndBegin(t, x) == Reserve(t, x, "sending") /\ Grant(x, NONE, 0)

PrepareAction(t, x) == Reserve(t, x, "prepared") /\ UNCHANGED frames
-----------------------------------------------------------------------------
(* Fenced leases *)

\* lockPreparedAuthority and checkPreparedQuote: what a reservation must
\* still satisfy to be claimed or begun.
Authorized(x) == LET t == action[x].attempt
                 IN /\ attempt[t] = "active" /\ Bound(t)
                    /\ Qualified(t, x)
                    /\ Capacity(t, Zero)

Earlier(a, b) == IF a <= b THEN a ELSE b

\* Neither a lease nor a permit outlives the attempt's deadline or the
\* route's qualification.
NotAfter(x) == Earlier(Deadline[action[x].attempt], ValidUntil[x])
LeaseEnd(x) == Earlier(now + LeaseTime, NotAfter(x))

Prepared(x) == Exists(x) /\ action[x].state = "prepared"
Started(x) == Exists(x) /\ action[x].state # "prepared"

TakeLease(x, w) ==
  /\ Prepared(x) /\ lease[x].sending = 0 /\ lease[x].fence < MaxFence
  /\ Authorized(x)
  /\ now < LeaseEnd(x)
  /\ LET c == [action |-> x, worker |-> w, fence |-> lease[x].fence + 1, until |-> LeaseEnd(x)]
     IN /\ lease' = [lease EXCEPT ![x] = [fence |-> c.fence, worker |-> w, until |-> c.until, sending |-> 0]]
        /\ claims' = claims \cup {c}
  /\ UNCHANGED <<now, attempt, action, frames, sends, receipts, quarantine>>

\* NewOpaqueID: every dispatch and every recovery draws a fresh identity.
Fresh(w) == \A c \in claims : c.worker # w

ClaimPrepared(x, w) ==
  /\ lease[x].fence = 0 /\ lease[x].worker = NONE
  /\ Fresh(w) /\ TakeLease(x, w)

ReclaimPrepared(x, w) ==
  /\ lease[x].worker # NONE => now >= lease[x].until
  /\ Fresh(w) /\ TakeLease(x, w)

BeginWith(c) ==
  /\ Authorized(c.action)
  /\ lease' = [lease EXCEPT ![c.action].sending = c.fence]
  /\ action' = [action EXCEPT ![c.action].state = "sending"]
  /\ Grant(c.action, c.worker, c.fence)
  /\ UNCHANGED <<now, attempt, claims, sends, receipts, quarantine>>

Owns(c) ==
  LET l == lease[c.action]
  IN l.fence = c.fence /\ l.worker = c.worker /\ l.until = c.until

\* A deviation: a claim begins twice.
BeginPreparedAgain(c) == Exists(c.action) /\ Owns(c) /\ now < lease[c.action].until /\ BeginWith(c)

BeginPrepared(c) ==
  /\ Prepared(c.action) /\ lease[c.action].sending = 0
  /\ Owns(c) /\ now < lease[c.action].until
  /\ BeginWith(c)
-----------------------------------------------------------------------------
(* The provider call and its outcome *)

\* invokeReserved calls the provider unless the permit has run out.
Invoke(f) ==
  /\ ~f.called /\ now < NotAfter(f.action)
  /\ frames' = (frames \ {f}) \cup {[f EXCEPT !.called = TRUE]}
  /\ sends' = [sends EXCEPT ![f.action] = @ + 1]
  /\ UNCHANGED <<now, attempt, action, lease, claims, receipts, quarantine>>

SendingOwner(f) ==
  IF action[f.action].fenced
  THEN f.fence > 0 /\ f.fence = lease[f.action].sending /\ f.worker = lease[f.action].worker
  ELSE f.fence = 0 /\ f.worker = NONE

RecordOutcome(f, o) ==
  LET x == f.action IN
  /\ ~f.called => ~o.received
  /\ Started(x) /\ SendingOwner(f)
  /\ action[x].outcome = NONE
  /\ action' = [action EXCEPT
       ![x].outcome = o,
       ![x].state = IF o.received THEN "result_recorded" ELSE "uncertain",
       ![x].incident = @ \/ o.elapsed > Upper[x]["ActiveMS"]]
  /\ frames' = frames \ {f}
  /\ UNCHANGED <<now, attempt, lease, claims, sends, receipts, quarantine>>

\* The process dies, or its outcome never reaches the ledger.
LoseFrame(f) ==
  /\ frames' = frames \ {f}
  /\ UNCHANGED <<now, attempt, action, lease, claims, sends, receipts, quarantine>>
-----------------------------------------------------------------------------
(* Final usage receipts *)

Reasons == {"no matching action", "precedes sending marker", "route mismatch",
            "receipt identity conflicts", "different final receipt"}

Quarantine(f, reason) ==
  /\ Cardinality(quarantine) < MaxQuarantine
  /\ quarantine' = quarantine \cup {<<f, reason>>}
  /\ UNCHANGED <<now, attempt, action, lease, claims, frames, sends, receipts>>

Overruns(f) == \E r \in Resources : f.actual[r] > Upper[f.action][r]

Recorded(f) == \E g \in receipts : g.id = f.id

QuarantineUnknown(f) == ~Exists(f.action) /\ Quarantine(f, "no matching action")
QuarantineEarly(f) == Prepared(f.action) /\ Quarantine(f, "precedes sending marker")
QuarantineMismatch(f) == Started(f.action) /\ ~f.matches /\ Quarantine(f, "route mismatch")
QuarantineReused(f) ==
  /\ Started(f.action) /\ f.matches /\ Recorded(f) /\ f \notin receipts
  /\ Quarantine(f, "receipt identity conflicts")
QuarantineSecond(f) ==
  /\ Started(f.action) /\ f.matches /\ ~Recorded(f) /\ Settled(f.action)
  /\ Quarantine(f, "different final receipt")

QuarantineReceipt(f) ==
  \/ QuarantineUnknown(f) \/ QuarantineEarly(f) \/ QuarantineMismatch(f)
  \/ QuarantineReused(f) \/ QuarantineSecond(f)

\* What settleFinal writes.
SettleWith(f, incident) ==
  /\ receipts' = receipts \cup {f}
  /\ action' = [action EXCEPT ![f.action].receipt = f, ![f.action].incident = incident]
  /\ UNCHANGED <<now, attempt, lease, claims, frames, sends, quarantine>>

SettleFinal(f) ==
  /\ Started(f.action) /\ f.matches /\ ~Recorded(f) /\ ~Settled(f.action)
  /\ SettleWith(f, action[f.action].incident \/ Overruns(f))
-----------------------------------------------------------------------------
Next ==
  \/ Tick
  \/ \E t \in Attempts : RegisterAttempt(t) \/ CloseAttempt(t)
  \/ \E t \in Attempts, x \in Actions : ReserveAndBegin(t, x) \/ PrepareAction(t, x)
  \/ \E x \in Actions, w \in Workers : ClaimPrepared(x, w) \/ ReclaimPrepared(x, w)
  \/ \E c \in claims : BeginPrepared(c)
  \/ \E f \in frames : Invoke(f) \/ LoseFrame(f)
  \/ \E f \in frames, o \in Outcomes : RecordOutcome(f, o)
  \/ \E f \in FinalReceipts : SettleFinal(f) \/ QuarantineReceipt(f)

Spec == Init /\ [][Next]_vars
-----------------------------------------------------------------------------
(* Type invariant *)

\* Every row has the shape of its table.
TypeOK ==
  /\ now \in Time
  /\ attempt \in [Attempts -> {"absent", "active", "closed"}]
  /\ action \in [Actions -> ActionRow \cup {NONE}]
  /\ lease \in [Actions -> LeaseRow]
  /\ claims \subseteq Claim /\ frames \subseteq Frame
  /\ sends \in [Actions -> Nat]
  /\ receipts \subseteq FinalReceipts
  /\ quarantine \subseteq FinalReceipts \X Reasons

(* Spending *)

\* The actions admitted in one period of a scope.
AdmittedIn(s, p) == {x \in Actions : Holds(x, s) /\ action[x].origin[Kind(s)] = p}

\* Whatever settles, expires or renews in between, what was admitted in one
\* period of a scope, at its actual usage or else its upper bound, stays
\* within the operator's ceiling, unless usage has broken a bound there.
PeriodWithinCeiling ==
  \A s \in Scopes : ~Incident(s) =>
    \A x \in Actions : Exists(x) =>
      \A r \in Resources :
        Due(AdmittedIn(s, action[x].origin[Kind(s)]), r) <= Ceiling[Kind(s)][r]

\* The same for what a scope owes now: its open reservations of any period
\* and the usage settled in the current one.  Crossing a period boundary
\* with unsettled actions must not open a fresh allowance beside them.
OpenWithinCeiling ==
  \A s \in Scopes : ~Incident(s) => \A r \in Resources : Charge(s, r) <= Ceiling[Kind(s)][r]

\* Unknown usage keeps its hold: a charge falls only when a final receipt is
\* committed or the scope's period ends, never because a call failed, a
\* lease ran out, an attempt was closed or a worker died.
ChargeFallsOnlyOnProof ==
  [][\A s \in Scopes, r \in Resources :
        Charge(s, r)' < Charge(s, r) =>
           receipts' # receipts \/ PeriodAt(Kind(s), now') # PeriodAt(Kind(s), now)]_vars

\* Once a scope has an incident nothing new is reserved in it and nothing
\* reserved before is marked as sending, in this period or any later one.
IncidentFreezes ==
  [][\A x \in Actions : (~Exists(x) /\ Exists(x)') \/ (~Started(x) /\ Started(x)') =>
        \A s \in Scopes : Holds(x, s)' => ~Incident(s)]_vars

(* Sending *)

\* A provider is called at most once for an action: replays, lost answers,
\* recovery after a crash and stale workers included.
AtMostOneCall == \A x \in Actions : sends[x] <= 1

\* A reservation that was not marked as sending has no call, no outcome and
\* no accepted usage: it is still safe to hand to another worker.
NothingBeforeSending ==
  \A x \in Actions : ~Started(x) =>
    /\ sends[x] = 0 /\ \A f \in frames : f.action # x
    /\ Exists(x) => action[x].outcome = NONE /\ action[x].receipt = NONE

-----------------------------------------------------------------------------
(* The ledger implements the spending cap *)

Cap == INSTANCE SpendingCap WITH
         Scopes <- Scopes, Resources <- Resources,
         Cap <- [s \in Scopes |-> Ceiling[Kind(s)]],
         charge <- [s \in Scopes |-> [r \in Resources |-> Charge(s, r)]],
         frozen <- {s \in Scopes : Incident(s)}

\* Seen through the charge of each scope, the ledger only ever admits within
\* the operator's ceilings, lowers, or freezes.
ImplementsSpendingCap == Cap!Spec
=============================================================================
