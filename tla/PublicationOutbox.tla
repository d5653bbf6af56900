-------------------------- MODULE PublicationOutbox --------------------------
(***************************************************************************)
(* The publication outbox: how an operator's authorization to publish the  *)
(* assessment of an attempt becomes a comment at the code host.            *)
(*                                                                         *)
(* Service workers maintain the outbox in one poll: they materialize       *)
(* authorizations as operations and withdraw stale ones, mark sendings     *)
(* without an answer uncertain, look uncertain ones up at the host, and    *)
(* claim, begin and send at most one pending operation.  Every call of     *)
(* Authority is one transaction and one action, except the sending marker: *)
(* it verifies that the authorization is current and then commits, and     *)
(* only rows of the operation and the job stay locked in between.  A call  *)
(* to the host may take effect long after its caller gave up.              *)
(*                                                                         *)
(* Abstracted: one change, whose attempts are numbered by generation; what *)
(* an attempt concluded is the attempt itself, so payloads and digests are *)
(* its number; operators' roles; at most 8 operations are due at once, the *)
(* limit of a poll; which of several due operations a worker takes first.  *)
(***************************************************************************)
EXTENDS Integers, Sequences, FiniteSets

CONSTANTS
  Commands,     \* authorize_publication commands by their identity
  MaxAttempt,   \* bound on the attempts of the change
  MaxFence,     \* bound on the claims of one operation
  NONE

Attempts == 1..MaxAttempt

ASSUME BoundAssumption == MaxAttempt \in Nat /\ MaxFence \in Nat
ASSUME NoneAssumption == NONE \notin Commands

VARIABLES
  head,       \* the current attempt of the change, 0 before the first
  finished,   \* attempts with a validated terminal assessment
  version,    \* budget_jobs.control_version
  pointer,    \* budget_jobs.publication_authorization_id
  order,      \* what each command was composed from, and whether it was granted
  op,         \* budget_publication_operations, by authorizing command
  claims,     \* PublicationClaims handed to workers
  beginning,  \* claims verified by a BeginPublication that has not committed
  lookups,    \* PublicationReconciliationClaims and what their lookup found
  calls,      \* PublishAuthorized calls
  comments,   \* the service's comments at the host: the command of each body
  written     \* how often each command's body was written to the host

vars == <<head, finished, version, pointer, order, op, claims, beginning,
          lookups, calls, comments, written>>
authority == <<head, finished, version, pointer, order>>
host == <<comments, written>>
-----------------------------------------------------------------------------
(* Rows *)

OrderRow == [attempt: Attempts, seen: Nat, granted: BOOLEAN]
OpRow == [state: {"pending", "sending", "delivered", "uncertain", "obsolete"},
          fence: 0..MaxFence, live: BOOLEAN, due: BOOLEAN]
Claim == [command: Commands, fence: 1..MaxFence]
Lookup == [command: Commands, fence: 1..MaxFence, found: {"unknown", "yes", "no"}]

\* A call lists the comments, writes one (0 for a new one), and is answered.
Call == [command: Commands, fence: 1..MaxFence, stage: {"permitted", "listed", "answered"},
         target: Nat]

ASSUME RowAssumption == NONE \notin OrderRow \cup OpRow

NewOp(state) == [state |-> state, fence |-> 0, live |-> FALSE, due |-> FALSE]

Granted(k) == order[k] # NONE /\ order[k].granted
In(k, state) == op[k] # NONE /\ op[k].state = state
Pointed(k) == pointer[order[k].attempt] = k

\* A successor exists once another attempt is current.
Current(t) == t = head /\ t \in finished

Authorized(k) == Current(order[k].attempt) /\ Pointed(k)

\* FOR UPDATE of an operation, FOR SHARE of its job.
OpLocked(k) == \E c \in beginning : c.command = k
JobShared(t) == \E c \in beginning : order[c.command].attempt = t
-----------------------------------------------------------------------------
Init ==
  /\ head = 0 /\ finished = {}
  /\ version = [t \in Attempts |-> 0]
  /\ pointer = [t \in Attempts |-> NONE]
  /\ order = [k \in Commands |-> NONE]
  /\ op = [k \in Commands |-> NONE]
  /\ claims = {} /\ beginning = {} /\ lookups = {} /\ calls = {}
  /\ comments = <<>> /\ written = [k \in Commands |-> 0]

\* A new attempt succeeds the current one.
Supersede ==
  /\ head < MaxAttempt
  /\ head' = head + 1
  /\ UNCHANGED <<finished, version, pointer, order, op, claims, beginning, lookups, calls, host>>

\* The current attempt concludes with a validated assessment.
Conclude ==
  /\ head # 0
  /\ finished' = finished \cup {head}
  /\ UNCHANGED <<head, version, pointer, order, op, claims, beginning, lookups, calls, host>>
-----------------------------------------------------------------------------
(* Authorization *)

\* An operator reads the state of an attempt and composes a command.
Compose(k, t) ==
  /\ order[k] = NONE /\ t \in finished
  /\ order' = [order EXCEPT ![k] = [attempt |-> t, seen |-> version[t], granted |-> FALSE]]
  /\ UNCHANGED <<head, finished, version, pointer, op, claims, beginning, lookups, calls, host>>

Grant(k) ==
  /\ order' = [order EXCEPT ![k].granted = TRUE]
  /\ pointer' = [pointer EXCEPT ![order[k].attempt] = k]
  /\ version' = [version EXCEPT ![order[k].attempt] = @ + 1]
  /\ UNCHANGED <<head, finished, op, claims, beginning, lookups, calls, host>>

\* A command that was granted already only returns its receipt.
AuthorizePublication(k) ==
  /\ order[k] # NONE /\ ~Granted(k)
  /\ order[k].seen = version[order[k].attempt] /\ Current(order[k].attempt)
  /\ ~JobShared(order[k].attempt)
  /\ Grant(k)
-----------------------------------------------------------------------------
(* Pending operations *)

Stale(k) == In(k, "pending") /\ ~Authorized(k) /\ ~OpLocked(k)

\* obsoletePublicationTx
Obsolete(k) == [op[k] EXCEPT !.state = "obsolete", !.live = FALSE]

Due(k) == Granted(k) /\ Pointed(k) /\ op[k] = NONE /\ ~JobShared(order[k].attempt)

\* A deviation: nothing is created for an attempt that is not current any more.
MaterializeCurrent ==
  /\ op' = [k \in Commands |->
       IF Stale(k) THEN Obsolete(k)
       ELSE IF Due(k) /\ Authorized(k) THEN NewOp("pending") ELSE op[k]]
  /\ UNCHANGED <<authority, claims, beginning, lookups, calls, host>>

\* Stale operations are withdrawn first; an authorization that is stale
\* already becomes an operation that is.
MaterializeAuthorizedPublications ==
  /\ op' = [k \in Commands |->
       IF Stale(k) THEN Obsolete(k)
       ELSE IF Due(k) THEN NewOp(IF Authorized(k) THEN "pending" ELSE "obsolete") ELSE op[k]]
  /\ UNCHANGED <<authority, claims, beginning, lookups, calls, host>>

ClaimPublication(k) ==
  /\ In(k, "pending") /\ ~op[k].live /\ ~OpLocked(k)
  /\ Authorized(k) /\ op[k].fence < MaxFence
  /\ op' = [j \in Commands |->
       IF j = k THEN [op[k] EXCEPT !.fence = @ + 1, !.live = TRUE]
       ELSE IF Stale(j) THEN Obsolete(j) ELSE op[j]]
  /\ claims' = claims \cup {[command |-> k, fence |-> op[k].fence + 1]}
  /\ UNCHANGED <<authority, beginning, lookups, calls, host>>

\* A claim is stale with its fence, with its lease, or once it began.
Held(c) == In(c.command, "pending") /\ op[c.command].fence = c.fence /\ op[c.command].live

BeginObsolete(c) ==
  /\ Held(c) /\ ~OpLocked(c.command) /\ ~Authorized(c.command)
  /\ op' = [op EXCEPT ![c.command] = Obsolete(c.command)]
  /\ UNCHANGED <<authority, claims, beginning, lookups, calls, host>>

\* BeginPublication verifies under the locks of operation and job.  Neither
\* keeps a successor attempt from committing before the marker does.
BeginVerify(c) ==
  /\ Held(c) /\ ~OpLocked(c.command) /\ Authorized(c.command)
  /\ beginning' = beginning \cup {c}
  /\ UNCHANGED <<authority, op, claims, lookups, calls, host>>

\* The transaction is rolled back: an error, or the end of its process.
BeginAbort(c) ==
  /\ beginning' = beginning \ {c}
  /\ UNCHANGED <<authority, op, claims, lookups, calls, host>>

\* Its commit; the permit may be lost.
BeginCommit(c) ==
  /\ op' = [op EXCEPT ![c.command].state = "sending", ![c.command].live = TRUE]
  /\ beginning' = beginning \ {c}
  /\ \/ calls' = calls \cup {[command |-> c.command, fence |-> c.fence,
                              stage |-> "permitted", target |-> 0]}
     \/ UNCHANGED calls
  /\ UNCHANGED <<authority, claims, lookups, host>>
-----------------------------------------------------------------------------
(* The call *)

\* The first comment that carries the marker of a final report, if any, is
\* replaced.  A body that is there already is left as it is.
List(c) ==
  /\ c.stage = "permitted"
  /\ calls' = (calls \ {c}) \cup
       {[c EXCEPT !.stage = "listed", !.target = IF comments = <<>> THEN 0 ELSE 1]}
  /\ UNCHANGED <<authority, op, claims, beginning, lookups, host>>

Write(c) ==
  /\ c.stage = "listed"
  /\ comments' = IF c.target = 0 THEN Append(comments, c.command)
                 ELSE [comments EXCEPT ![c.target] = c.command]
  /\ written' = [written EXCEPT ![c.command] = @ + 1]
  /\ calls' = (calls \ {c}) \cup {[c EXCEPT !.stage = "answered"]}
  /\ UNCHANGED <<authority, op, claims, beginning, lookups>>

CompletePublication(c) ==
  /\ c.stage = "answered"
  /\ In(c.command, "sending") /\ op[c.command].fence = c.fence
  /\ op' = [op EXCEPT ![c.command].state = "delivered"]
  /\ UNCHANGED <<authority, claims, beginning, lookups, calls, host>>
-----------------------------------------------------------------------------
(* Uncertain operations *)

\* Time passes the end of a lease, or the time of the next lookup.
LeaseEnds(k) ==
  /\ op[k] # NONE /\ op[k].live /\ op[k].state \in {"pending", "sending", "uncertain"}
  /\ op' = [op EXCEPT ![k].live = FALSE]
  /\ UNCHANGED <<authority, claims, beginning, lookups, calls, host>>

DelayEnds(k) ==
  /\ In(k, "uncertain") /\ ~op[k].due
  /\ op' = [op EXCEPT ![k].due = TRUE]
  /\ UNCHANGED <<authority, claims, beginning, lookups, calls, host>>

Unanswered(k) == In(k, "sending") /\ ~op[k].live

\* A deviation: what was sent waits for a lease that has ended to be live.
RecoverLive ==
  /\ op' = [k \in Commands |->
       IF In(k, "sending") /\ op[k].live THEN [op[k] EXCEPT !.state = "uncertain", !.due = TRUE] ELSE op[k]]
  /\ UNCHANGED <<authority, claims, beginning, lookups, calls, host>>

RecoverUncertainPublications ==
  /\ op' = [k \in Commands |->
       IF Unanswered(k) THEN [op[k] EXCEPT !.state = "uncertain", !.due = TRUE] ELSE op[k]]
  /\ UNCHANGED <<authority, claims, beginning, lookups, calls, host>>

ClaimUncertainPublication(k) ==
  /\ In(k, "uncertain") /\ op[k].due /\ ~op[k].live /\ op[k].fence < MaxFence
  /\ op' = [op EXCEPT ![k].fence = @ + 1, ![k].live = TRUE]
  /\ lookups' = lookups \cup {[command |-> k, fence |-> op[k].fence + 1, found |-> "unknown"]}
  /\ UNCHANGED <<authority, claims, beginning, calls, host>>

\* LookupAuthorized: exactly one comment has the exact body.
LookUp(l) ==
  LET there == {i \in DOMAIN comments : comments[i] = l.command} IN
  /\ l.found = "unknown" /\ Cardinality(there) < 2
  /\ lookups' = (lookups \ {l}) \cup {[l EXCEPT !.found = IF there = {} THEN "no" ELSE "yes"]}
  /\ UNCHANGED <<authority, op, claims, beginning, calls, host>>

Looks(l) == In(l.command, "uncertain") /\ op[l.command].fence = l.fence

\* Deviations: what is not found was not sent, or is put where no worker looks.
DeferAway(l) ==
  /\ l.found = "no" /\ Looks(l)
  /\ op' = [op EXCEPT ![l.command] = Obsolete(l.command)]
  /\ UNCHANGED <<authority, claims, beginning, lookups, calls, host>>

DeferPublicationReconciliation(l) ==
  /\ l.found = "no" /\ Looks(l)
  /\ op' = [op EXCEPT ![l.command].due = FALSE, ![l.command].live = FALSE]
  /\ UNCHANGED <<authority, claims, beginning, lookups, calls, host>>

ReconcilePublication(l) ==
  /\ l.found = "yes" /\ Looks(l)
  /\ op' = [op EXCEPT ![l.command].state = "delivered", ![l.command].due = FALSE]
  /\ UNCHANGED <<authority, claims, beginning, lookups, calls, host>>
-----------------------------------------------------------------------------
Operate ==
  \/ Supersede \/ Conclude
  \/ \E k \in Commands, t \in Attempts : Compose(k, t)
  \/ \E k \in Commands : AuthorizePublication(k)

Deliver ==
  \/ MaterializeAuthorizedPublications
  \/ \E k \in Commands : ClaimPublication(k)
  \/ \E c \in claims : BeginObsolete(c) \/ BeginVerify(c)
  \/ \E c \in beginning : BeginCommit(c) \/ BeginAbort(c)
  \/ \E c \in calls : List(c) \/ Write(c) \/ CompletePublication(c)

Resolve ==
  \/ \E k \in Commands : LeaseEnds(k) \/ DelayEnds(k) \/ ClaimUncertainPublication(k)
  \/ RecoverUncertainPublications
  \/ \E l \in lookups : LookUp(l) \/ DeferPublicationReconciliation(l) \/ ReconcilePublication(l)

Next == Operate \/ Deliver \/ Resolve

Spec == Init /\ [][Next]_vars

\* Leases end, transactions end, and some worker keeps polling.  Nothing
\* obliges an operator, a worker that holds a claim, or the host.
Fairness ==
  /\ \A k \in Commands : WF_vars(LeaseEnds(k))
  /\ \A c \in Claim : WF_vars(c \in beginning /\ (BeginCommit(c) \/ BeginAbort(c)))
  /\ WF_vars(MaterializeAuthorizedPublications)
  /\ WF_vars(RecoverUncertainPublications)

FairSpec == Spec /\ Fairness
-----------------------------------------------------------------------------
(* Type invariant *)

\* Every row has the shape of its table, and only the fences of its
\* operation were handed out.
TypeOK ==
  /\ head \in 0..MaxAttempt /\ finished \subseteq Attempts
  /\ version \in [Attempts -> Nat]
  /\ pointer \in [Attempts -> Commands \cup {NONE}]
  /\ order \in [Commands -> OrderRow \cup {NONE}]
  /\ op \in [Commands -> OpRow \cup {NONE}]
  /\ claims \subseteq Claim /\ beginning \subseteq Claim
  /\ lookups \subseteq Lookup /\ calls \subseteq Call
  /\ comments \in Seq(Commands)
  /\ written \in [Commands -> Nat]

(* Safety *)

\* Whatever dies, is answered late or is taken over: the body of an
\* authorized publication is written to the host at most once.
AtMostOneWrite == \A k \in Commands : written[k] <= 1

\* Two operators who inspected an attempt in the same state do not both
\* authorize its publication.
SightedAuthorizations ==
  \A j, k \in Commands :
    Granted(j) /\ Granted(k) /\ order[j].attempt = order[k].attempt /\ order[j].seen = order[k].seen =>
      j = k

\* An operation starts sending only while it is what its attempt is
\* authorized to publish: a later authorization and a sending marker of the
\* earlier one exclude each other.
SendsTheAuthorized ==
  [][\A k \in Commands : In(k, "pending") /\ In(k, "sending")' => Pointed(k)]_vars

(* Refinement *)

Status == [k \in Commands |->
  CASE ~Granted(k) -> "none"
    [] Granted(k) /\ (op[k] = NONE \/ In(k, "pending")) -> "asked"
    [] In(k, "obsolete") -> "withdrawn"
    [] In(k, "delivered") -> "confirmed"
    [] OTHER -> "started"]

Promise == INSTANCE PublicationPromise WITH status <- Status

\* The outbox keeps what PublicationPromise promises.
ImplementsPromise == Promise!Spec

(* Liveness *)

\* What was sent is confirmed or becomes uncertain, even if its sender dies.
SendingResolves == \A k \in Commands : In(k, "sending") ~> In(k, "delivered") \/ In(k, "uncertain")

\* An authorization becomes an operation unless another replaces it, also
\* when its attempt was superseded in the meantime.
AuthorizationsMaterialize ==
  LET Awaits(k) == Granted(k) /\ op[k] = NONE /\ Pointed(k)
  IN \A k \in Commands : Awaits(k) ~> ~Awaits(k)

=============================================================================
