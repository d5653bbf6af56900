--------------------------- MODULE PublicationProofs ---------------------------
(***************************************************************************)
(* Proofs that the outbox publishes what was authorized, at most once, and *)
(* keeps what PublicationPromise promises.                                 *)
(***************************************************************************)
EXTENDS PublicationOutbox, SequenceTheorems, TLAPS

Started(k) == op[k] # NONE /\ op[k].state \in {"sending", "uncertain", "delivered"}

\* Operations are those of granted commands.
OpsGranted == \A k \in Commands : op[k] # NONE => Granted(k)

\* Commands are composed before they are granted, and a grant is seen by
\* everybody who composes later.
GrantsSeen == \A k \in Commands : Granted(k) => order[k].seen < version[order[k].attempt]

\* A transaction between verification and marker holds what it verified.
MarkersHold == \A c \in beginning : In(c.command, "pending") /\ Pointed(c.command)
OneMarkerEach == \A c, d \in beginning : c.command = d.command => c = d

\* What was written belongs to an operation that was started.
WritesStarted ==
  \A k \in Commands : /\ written[k] \in 0..1
                      /\ written[k] = 1 => Started(k)
                      /\ In(k, "delivered") => written[k] = 1

\* There is one call of an operation, and it knows whether it has written.
OneCallEach == \A c, d \in calls : c.command = d.command => c = d
CallsKnow ==
  \A c \in calls : /\ Started(c.command)
                   /\ written[c.command] = IF c.stage = "answered" THEN 1 ELSE 0
                   /\ c.target <= Len(comments)

\* What is at the host, or was seen there, was written.
HostWritten == /\ \A i \in DOMAIN comments : written[comments[i]] = 1
               /\ \A l \in lookups : l.found = "yes" => written[l.command] = 1

OutboxInv == /\ TypeOK /\ OpsGranted /\ GrantsSeen /\ MarkersHold /\ OneMarkerEach
             /\ WritesStarted /\ OneCallEach /\ CallsKnow /\ HostWritten
-----------------------------------------------------------------------------
(* Rows *)

\* What maintenance may do to the row of an operation.
Moves(k) ==
  \/ op'[k] = op[k]
  \/ /\ op'[k] \in OpRow
     /\ \/ op[k] = NONE /\ Granted(k) /\ op'[k].state \in {"pending", "obsolete"}
        \/ op[k] # NONE /\ op'[k].state = op[k].state
        \/ In(k, "pending") /\ ~OpLocked(k) /\ op'[k].state = "obsolete"
        \/ In(k, "sending") /\ op'[k].state = "uncertain"

\* The steps that only maintain rows, or look at the host.
Maintains ==
  /\ UNCHANGED <<authority, beginning, calls, comments, written>>
  /\ op' \in [Commands -> OpRow \cup {NONE}]
  /\ \A k \in Commands : Moves(k)
  /\ claims' \subseteq Claim /\ lookups' \subseteq Lookup
  /\ \A l \in lookups' : l.found = "yes" =>
       l \in lookups \/ \E i \in DOMAIN comments : comments[i] = l.command

LEMMA RowFacts ==
  /\ NewOp("pending") \in OpRow /\ NewOp("obsolete") \in OpRow
  /\ \A s : NewOp(s).state = s
  /\ NONE \notin OpRow /\ NONE \notin OrderRow
BY BoundAssumption, RowAssumption DEF NewOp, OpRow

LEMMA ObsoleteRow ==
  ASSUME TypeOK, NEW k \in Commands, op[k] # NONE
  PROVE  Obsolete(k) \in OpRow /\ Obsolete(k).state = "obsolete"
BY DEF TypeOK, Obsolete, OpRow

\* An operation is edited alone.
LEMMA EditMoves ==
  ASSUME TypeOK, NEW k \in Commands, NEW o \in OpRow, op' = [op EXCEPT ![k] = o],
         \/ op[k] # NONE /\ o.state = op[k].state
         \/ In(k, "pending") /\ ~OpLocked(k) /\ o.state = "obsolete"
  PROVE  op' \in [Commands -> OpRow \cup {NONE}] /\ \A j \in Commands : Moves(j)
<1>1. op'[k] = o /\ \A j \in Commands : j # k => op'[j] = op[j]
  BY DEF TypeOK
<1> QED BY <1>1 DEF TypeOK, Moves

LEMMA MaterializeMaintains ==
  ASSUME TypeOK, MaterializeAuthorizedPublications PROVE Maintains
<1>1. ASSUME NEW k \in Commands PROVE op'[k] \in OpRow \cup {NONE} /\ Moves(k)
  <2>1. op'[k] = IF Stale(k) THEN Obsolete(k)
                 ELSE IF Due(k) THEN NewOp(IF Authorized(k) THEN "pending" ELSE "obsolete") ELSE op[k]
    BY DEF MaterializeAuthorizedPublications
  <2>2. CASE Stale(k)
    BY <2>1, <2>2, ObsoleteRow DEF Stale, In, Moves
  <2>3. CASE ~Stale(k) /\ Due(k)
    <3>1. op'[k] = NewOp("pending") \/ op'[k] = NewOp("obsolete")
      BY <2>1, <2>3
    <3> QED BY <3>1, <2>3, RowFacts DEF Due, Moves
  <2>4. CASE ~Stale(k) /\ ~Due(k)
    BY <2>1, <2>4 DEF Moves, TypeOK
  <2> QED BY <2>2, <2>3, <2>4
<1>2. op' \in [Commands -> OpRow \cup {NONE}]
  BY <1>1 DEF MaterializeAuthorizedPublications
<1> QED BY <1>1, <1>2 DEF MaterializeAuthorizedPublications, Maintains, host, TypeOK

LEMMA ClaimMaintains ==
  ASSUME TypeOK, NEW k \in Commands, ClaimPublication(k) PROVE Maintains
<1>a. op[k] \in OpRow /\ op[k].fence < MaxFence
  BY DEF TypeOK, ClaimPublication, In
<1>b. op[k].fence + 1 \in 1..MaxFence /\ op[k].fence + 1 \in 0..MaxFence
  BY <1>a, BoundAssumption DEF OpRow
<1> DEFINE row == [op[k] EXCEPT !.fence = @ + 1, !.live = TRUE]
<1>c. row \in OpRow /\ row.state = op[k].state
  BY <1>a, <1>b DEF OpRow
<1> HIDE DEF row
<1>1. ASSUME NEW j \in Commands PROVE op'[j] \in OpRow \cup {NONE} /\ Moves(j)
  <2>1. op'[j] = IF j = k THEN row ELSE IF Stale(j) THEN Obsolete(j) ELSE op[j]
    BY DEF ClaimPublication, row
  <2>2. CASE j = k
    BY <2>1, <2>2, <1>c DEF Moves, ClaimPublication, In
  <2>3. CASE j # k /\ Stale(j)
    BY <2>1, <2>3, ObsoleteRow DEF Stale, In, Moves
  <2>4. CASE j # k /\ ~Stale(j)
    BY <2>1, <2>4 DEF Moves, TypeOK
  <2> QED BY <2>2, <2>3, <2>4
<1>2. op' \in [Commands -> OpRow \cup {NONE}]
  BY <1>1 DEF ClaimPublication
<1>3. claims' \subseteq Claim
  <2>1. [command |-> k, fence |-> op[k].fence + 1] \in Claim
    BY <1>b DEF Claim
  <2> QED BY <2>1 DEF ClaimPublication, TypeOK
<1> QED BY <1>1, <1>2, <1>3 DEF ClaimPublication, Maintains, host, TypeOK

LEMMA ObsoleteMaintains ==
  ASSUME TypeOK, NEW c \in claims, BeginObsolete(c) PROVE Maintains
<1>1. c.command \in Commands /\ op[c.command] # NONE /\ In(c.command, "pending")
  BY DEF TypeOK, Claim, BeginObsolete, Held, In
<1> QED BY <1>1, ObsoleteRow, EditMoves DEF BeginObsolete, Maintains, host, TypeOK

LEMMA LeaseMaintains ==
  ASSUME TypeOK, NEW k \in Commands, LeaseEnds(k) \/ DelayEnds(k) PROVE Maintains
<1>1. op[k] # NONE /\ op[k] \in OpRow
  BY DEF TypeOK, LeaseEnds, DelayEnds, In
<1>2. PICK o \in OpRow : op' = [op EXCEPT ![k] = o] /\ o.state = op[k].state
  <2>1. /\ [op[k] EXCEPT !.live = FALSE] \in OpRow /\ [op[k] EXCEPT !.live = FALSE].state = op[k].state
        /\ [op[k] EXCEPT !.due = TRUE] \in OpRow /\ [op[k] EXCEPT !.due = TRUE].state = op[k].state
    BY <1>1 DEF OpRow
  <2> QED BY <2>1 DEF LeaseEnds, DelayEnds
<1> QED BY <1>1, <1>2, EditMoves DEF LeaseEnds, DelayEnds, Maintains, host, TypeOK

LEMMA RecoverMaintains ==
  ASSUME TypeOK, RecoverUncertainPublications PROVE Maintains
<1>1. ASSUME NEW k \in Commands PROVE op'[k] \in OpRow \cup {NONE} /\ Moves(k)
  <2>1. op'[k] = IF Unanswered(k) THEN [op[k] EXCEPT !.state = "uncertain", !.due = TRUE] ELSE op[k]
    BY DEF RecoverUncertainPublications
  <2>2. CASE Unanswered(k)
    <3>1. op[k] \in OpRow
      BY <2>2 DEF Unanswered, In, TypeOK
    <3>2. /\ [op[k] EXCEPT !.state = "uncertain", !.due = TRUE] \in OpRow
          /\ [op[k] EXCEPT !.state = "uncertain", !.due = TRUE].state = "uncertain"
      BY <3>1 DEF OpRow
    <3> QED BY <2>1, <2>2, <3>2 DEF Unanswered, Moves
  <2>3. CASE ~Unanswered(k)
    BY <2>1, <2>3 DEF Moves, TypeOK
  <2> QED BY <2>2, <2>3
<1>2. op' \in [Commands -> OpRow \cup {NONE}]
  BY <1>1 DEF RecoverUncertainPublications
<1> QED BY <1>1, <1>2 DEF RecoverUncertainPublications, Maintains, host, TypeOK

LEMMA LookupClaimMaintains ==
  ASSUME TypeOK, NEW k \in Commands, ClaimUncertainPublication(k) PROVE Maintains
<1>1. op[k] # NONE /\ op[k] \in OpRow /\ op[k].fence < MaxFence
  BY DEF TypeOK, ClaimUncertainPublication, In
<1>2. op[k].fence + 1 \in 1..MaxFence /\ op[k].fence + 1 \in 0..MaxFence
  BY <1>1, BoundAssumption DEF OpRow
<1>3. PICK o \in OpRow : op' = [op EXCEPT ![k] = o] /\ o.state = op[k].state
  <2> DEFINE row == [op[k] EXCEPT !.fence = @ + 1, !.live = TRUE]
  <2>1. row \in OpRow /\ row.state = op[k].state
    BY <1>1, <1>2, BoundAssumption DEF OpRow
  <2>2. op' = [op EXCEPT ![k] = row]
    BY DEF ClaimUncertainPublication
  <2> QED BY <2>1, <2>2
<1>4. [command |-> k, fence |-> op[k].fence + 1, found |-> "unknown"] \in Lookup
  BY <1>2 DEF Lookup
<1>5. /\ lookups' \subseteq Lookup
      /\ \A l \in lookups' : l.found = "yes" => l \in lookups
  BY <1>4 DEF ClaimUncertainPublication, TypeOK
<1>6. op' \in [Commands -> OpRow \cup {NONE}] /\ \A j \in Commands : Moves(j)
  BY <1>1, <1>3, EditMoves
<1> QED BY <1>5, <1>6 DEF ClaimUncertainPublication, Maintains, host, TypeOK

LEMMA LookUpMaintains ==
  ASSUME TypeOK, NEW l \in lookups, LookUp(l) PROVE Maintains
<1> DEFINE there == {i \in DOMAIN comments : comments[i] = l.command}
           new == [l EXCEPT !.found = IF there = {} THEN "no" ELSE "yes"]
<1>1. lookups' = (lookups \ {l}) \cup {new}
  BY DEF LookUp
<1>2. l \in Lookup
  BY DEF TypeOK
<1>3. new \in Lookup /\ new.command = l.command
  BY <1>2 DEF Lookup
<1>4. new.found = "yes" => \E i \in DOMAIN comments : comments[i] = l.command
  BY <1>2 DEF Lookup
<1> HIDE DEF new
<1>5. /\ lookups' \subseteq Lookup
      /\ \A m \in lookups' : m.found = "yes" =>
           m \in lookups \/ \E i \in DOMAIN comments : comments[i] = m.command
  BY <1>1, <1>3, <1>4 DEF TypeOK
<1>6. UNCHANGED op /\ \A k \in Commands : Moves(k)
  BY DEF LookUp, Moves
<1> QED BY <1>5, <1>6 DEF LookUp, Maintains, host, TypeOK

LEMMA DeferMaintains ==
  ASSUME TypeOK, NEW l \in lookups, DeferPublicationReconciliation(l) PROVE Maintains
<1> DEFINE k == l.command
           row == [op[k] EXCEPT !.due = FALSE, !.live = FALSE]
<1>1. k \in Commands /\ op[k] # NONE /\ op[k] \in OpRow
  BY DEF TypeOK, Lookup, DeferPublicationReconciliation, Looks, In
<1>2. row \in OpRow /\ row.state = op[k].state
  BY <1>1 DEF OpRow
<1>3. op' = [op EXCEPT ![k] = row]
  BY DEF DeferPublicationReconciliation
<1>4. op' \in [Commands -> OpRow \cup {NONE}] /\ \A j \in Commands : Moves(j)
  BY <1>1, <1>2, <1>3, EditMoves
<1> QED BY <1>4 DEF DeferPublicationReconciliation, Maintains, host, TypeOK
-----------------------------------------------------------------------------
(* The invariant *)

\* What every step but the operators' and the sending marker's keeps.
Progresses(k) ==
  /\ Started(k) => Started(k)'
  /\ op'[k] # NONE => Granted(k)
  /\ OpLocked(k) /\ In(k, "pending") => In(k, "pending")'

LEMMA MovesProgress ==
  ASSUME TypeOK, OpsGranted, NEW k \in Commands, Moves(k)
  PROVE  Progresses(k) /\ (In(k, "delivered")' => In(k, "delivered"))
<1>1. CASE op'[k] = op[k]
  BY <1>1 DEF Progresses, Started, In, OpsGranted
<1>2. CASE op'[k] \in OpRow
  BY <1>2, RowFacts DEF Moves, Progresses, Started, In, OpsGranted
<1> QED BY <1>1, <1>2 DEF Moves

LEMMA MaintainsInv == ASSUME OutboxInv, Maintains PROVE OutboxInv'
<1>0. /\ UNCHANGED head /\ UNCHANGED finished /\ UNCHANGED version /\ UNCHANGED pointer
      /\ UNCHANGED order /\ UNCHANGED beginning /\ UNCHANGED calls /\ UNCHANGED comments
      /\ UNCHANGED written
  BY DEF Maintains, authority
<1>1. TypeOK'
  BY <1>0 DEF OutboxInv, Maintains, TypeOK
<1>2. \A k \in Commands : Progresses(k) /\ (In(k, "delivered")' => In(k, "delivered"))
  BY MovesProgress DEF OutboxInv, Maintains
<1>3. \A k : Granted(k)' <=> Granted(k)
  BY <1>0 DEF Granted
<1>4. OpsGranted' /\ GrantsSeen'
  BY <1>0, <1>2, <1>3 DEF OutboxInv, OpsGranted, GrantsSeen, Progresses
<1>5. MarkersHold'
  <2>1. \A c \in beginning : c.command \in Commands /\ OpLocked(c.command)
    BY DEF OutboxInv, TypeOK, Claim, OpLocked
  <2> QED BY <1>0, <1>2, <2>1 DEF OutboxInv, MarkersHold, Progresses, Pointed
<1>6. WritesStarted'
  BY <1>0, <1>2 DEF OutboxInv, WritesStarted, Progresses
<1>7. OneCallEach' /\ CallsKnow'
  <2>1. \A c \in calls : c.command \in Commands
    BY DEF OutboxInv, TypeOK, Call
  <2> QED BY <1>0, <1>2, <2>1 DEF OutboxInv, OneCallEach, CallsKnow, Progresses
<1>8. HostWritten' /\ OneMarkerEach'
  BY <1>0 DEF OutboxInv, HostWritten, Maintains, OneMarkerEach
<1> QED BY <1>1, <1>4, <1>5, <1>6, <1>7, <1>8 DEF OutboxInv

\* The current attempt changes, or concludes.
LEMMA HeadInv ==
  ASSUME OutboxInv, Supersede \/ Conclude
  PROVE  OutboxInv'
<1>1. head' \in 0..MaxAttempt /\ finished' \subseteq Attempts
  <2>1. head \in 0..MaxAttempt /\ (head # 0 => head \in Attempts)
    BY BoundAssumption DEF OutboxInv, TypeOK, Attempts
  <2>2. CASE Supersede
    BY <2>1, <2>2, BoundAssumption DEF OutboxInv, TypeOK, Supersede
  <2>3. CASE Conclude
    BY <2>1, <2>3 DEF OutboxInv, TypeOK, Conclude
  <2> QED BY <2>2, <2>3
<1>2. UNCHANGED <<version, pointer, order, op, claims, beginning, lookups, calls, comments, written>>
  BY DEF Supersede, Conclude, host
<1>3. TypeOK'
  BY <1>1, <1>2 DEF OutboxInv, TypeOK
<1>4. OpsGranted' /\ GrantsSeen' /\ MarkersHold'
  BY <1>2 DEF OutboxInv, OpsGranted, GrantsSeen, MarkersHold, Granted, In, Pointed
<1>5. OneMarkerEach' /\ WritesStarted' /\ OneCallEach' /\ CallsKnow' /\ HostWritten'
  BY <1>2 DEF OutboxInv, OneMarkerEach, WritesStarted, OneCallEach, CallsKnow, HostWritten, In, Started
<1> QED BY <1>3, <1>4, <1>5 DEF OutboxInv

LEMMA ComposeInv ==
  ASSUME OutboxInv, NEW k \in Commands, NEW t \in Attempts, Compose(k, t)
  PROVE  OutboxInv'
<1> DEFINE row == [attempt |-> t, seen |-> version[t], granted |-> FALSE]
<1>1. row \in OrderRow /\ ~row.granted
  BY DEF OutboxInv, TypeOK, OrderRow
<1>2. order' = [order EXCEPT ![k] = row] /\ order[k] = NONE
  BY DEF Compose
<1> HIDE DEF row
<1>3. UNCHANGED <<head, finished, version, pointer, op, claims, beginning, lookups, calls, comments, written>>
  BY DEF Compose, host
<1>4. TypeOK'
  BY <1>1, <1>2, <1>3 DEF OutboxInv, TypeOK
<1>5. \A j \in Commands : /\ Granted(j)' <=> Granted(j)
                          /\ Granted(j) => order'[j] = order[j]
  BY <1>1, <1>2 DEF OutboxInv, TypeOK, Granted
<1>6. OpsGranted' /\ GrantsSeen'
  BY <1>3, <1>5 DEF OutboxInv, OpsGranted, GrantsSeen
<1>7. MarkersHold'
  <2>1. \A c \in beginning : c.command \in Commands /\ Granted(c.command)
    BY DEF OutboxInv, TypeOK, Claim, MarkersHold, OpsGranted, In
  <2> QED BY <1>3, <1>5, <2>1 DEF OutboxInv, MarkersHold, In, Pointed
<1>8. OneMarkerEach' /\ WritesStarted' /\ OneCallEach' /\ CallsKnow' /\ HostWritten'
  BY <1>3 DEF OutboxInv, OneMarkerEach, WritesStarted, OneCallEach, CallsKnow, HostWritten, In, Started
<1> QED BY <1>4, <1>6, <1>7, <1>8 DEF OutboxInv

LEMMA AuthorizeInv ==
  ASSUME OutboxInv, NEW k \in Commands, AuthorizePublication(k)
  PROVE  OutboxInv'
<1> DEFINE t == order[k].attempt
           row == [order[k] EXCEPT !.granted = TRUE]
<1>1. order[k] \in OrderRow /\ t \in Attempts /\ ~Granted(k) /\ order[k].seen = version[t] /\ ~JobShared(t)
  BY DEF OutboxInv, TypeOK, OrderRow, AuthorizePublication
<1>2. row \in OrderRow /\ row.granted /\ row.attempt = t /\ row.seen = version[t]
  BY <1>1 DEF OrderRow
<1>3. /\ order' = [order EXCEPT ![k] = row]
      /\ pointer' = [pointer EXCEPT ![t] = k]
      /\ version' = [version EXCEPT ![t] = @ + 1]
  BY DEF AuthorizePublication, Grant
<1> HIDE DEF row, t
<1>4. UNCHANGED <<head, finished, op, claims, beginning, lookups, calls, comments, written>>
  BY DEF AuthorizePublication, Grant, host
<1>5. version \in [Attempts -> Nat] /\ version[t] \in Nat /\ version[t] + 1 \in Nat
  BY <1>1 DEF OutboxInv, TypeOK
<1>6. TypeOK'
  BY <1>1, <1>2, <1>3, <1>4, <1>5 DEF OutboxInv, TypeOK
<1>7. \A j \in Commands : /\ Granted(j)' <=> Granted(j) \/ j = k
                          /\ Granted(j) => order'[j] = order[j] /\ j # k
  BY <1>1, <1>2, <1>3, RowFacts DEF OutboxInv, TypeOK, Granted
<1>8. OpsGranted'
  BY <1>4, <1>7 DEF OutboxInv, OpsGranted
<1>9. GrantsSeen'
  <2> SUFFICES ASSUME NEW j \in Commands, Granted(j)'
               PROVE  order'[j].seen < version'[order'[j].attempt]
    BY DEF GrantsSeen
  <2>1. CASE j = k
    <3>1. order'[j] = row /\ version'[t] = version[t] + 1
      BY <2>1, <1>1, <1>3, <1>5 DEF OutboxInv, TypeOK
    <3> QED BY <3>1, <1>2, <1>5
  <2>2. CASE j # k
    <3>1. Granted(j) /\ order'[j] = order[j]
      BY <2>2, <1>7
    <3>2. order[j] \in OrderRow /\ order[j].seen < version[order[j].attempt]
      BY <3>1 DEF OutboxInv, TypeOK, Granted, GrantsSeen
    <3>3. order[j].attempt \in Attempts /\ order[j].seen \in Nat
      BY <3>2 DEF OrderRow
    <3>4. version'[order[j].attempt] \in Nat /\ version'[order[j].attempt] >= version[order[j].attempt]
      BY <3>3, <1>1, <1>3, <1>5
    <3>5. order[j].seen < version'[order[j].attempt]
      BY <3>2, <3>3, <3>4, <1>5
    <3> QED BY <3>1, <3>5
  <2> QED BY <2>1, <2>2
<1>10. MarkersHold'
  <2> SUFFICES ASSUME NEW c \in beginning
               PROVE  In(c.command, "pending") /\ pointer'[order'[c.command].attempt] = c.command
    BY <1>4 DEF MarkersHold, In, Pointed
  <2>1. c.command \in Commands /\ In(c.command, "pending") /\ Pointed(c.command) /\ Granted(c.command)
    BY DEF OutboxInv, TypeOK, Claim, MarkersHold, OpsGranted, In
  <2>2. order[c.command].attempt # t
    BY <1>1 DEF JobShared
  <2> QED BY <2>1, <2>2, <1>3, <1>7 DEF Pointed, OutboxInv, TypeOK
<1>11. OneMarkerEach' /\ WritesStarted' /\ OneCallEach' /\ CallsKnow' /\ HostWritten'
  BY <1>4 DEF OutboxInv, OneMarkerEach, WritesStarted, OneCallEach, CallsKnow, HostWritten, In, Started
<1> QED BY <1>6, <1>8, <1>9, <1>10, <1>11 DEF OutboxInv

LEMMA VerifyInv ==
  ASSUME OutboxInv, NEW c \in claims, BeginVerify(c)
  PROVE  OutboxInv'
<1>1. UNCHANGED <<head, finished, version, pointer, order, op, claims, lookups, calls, comments, written>>
  BY DEF BeginVerify, authority, host
<1>2. beginning' = beginning \cup {c} /\ c \in Claim /\ In(c.command, "pending") /\ Pointed(c.command)
  BY DEF BeginVerify, Held, Authorized, OutboxInv, TypeOK
<1>3. TypeOK'
  BY <1>1, <1>2 DEF OutboxInv, TypeOK
<1>4. OpsGranted' /\ GrantsSeen' /\ WritesStarted' /\ OneCallEach' /\ CallsKnow' /\ HostWritten'
  BY <1>1 DEF OutboxInv, OpsGranted, GrantsSeen, WritesStarted, OneCallEach, CallsKnow, HostWritten,
              In, Started, Granted
<1>5. MarkersHold'
  BY <1>1, <1>2 DEF OutboxInv, MarkersHold, In, Pointed
<1>6. OneMarkerEach'
  BY <1>2 DEF OutboxInv, OneMarkerEach, BeginVerify, OpLocked
<1> QED BY <1>3, <1>4, <1>5, <1>6 DEF OutboxInv

LEMMA AbortInv ==
  ASSUME OutboxInv, NEW c \in beginning, BeginAbort(c)
  PROVE  OutboxInv'
<1>1. UNCHANGED <<head, finished, version, pointer, order, op, claims, lookups, calls, comments, written>>
  BY DEF BeginAbort, authority, host
<1>2. beginning' \subseteq beginning
  BY DEF BeginAbort
<1>3. TypeOK'
  BY <1>1, <1>2 DEF OutboxInv, TypeOK
<1>4. OpsGranted' /\ GrantsSeen' /\ WritesStarted' /\ OneCallEach' /\ CallsKnow' /\ HostWritten'
  BY <1>1 DEF OutboxInv, OpsGranted, GrantsSeen, WritesStarted, OneCallEach, CallsKnow, HostWritten,
              In, Started, Granted
<1>5. MarkersHold' /\ OneMarkerEach'
  BY <1>1, <1>2 DEF OutboxInv, MarkersHold, OneMarkerEach, In, Pointed
<1> QED BY <1>3, <1>4, <1>5 DEF OutboxInv

\* The marker opens the one call of its operation.
LEMMA CommitInv ==
  ASSUME OutboxInv, NEW c \in beginning, BeginCommit(c)
  PROVE  OutboxInv'
<1> DEFINE k == c.command
           row == [op[k] EXCEPT !.state = "sending", !.live = TRUE]
           call == [command |-> k, fence |-> c.fence, stage |-> "permitted", target |-> 0]
<1>1. c \in Claim /\ k \in Commands /\ c.fence \in 1..MaxFence
  BY DEF OutboxInv, TypeOK, Claim
<1>2. In(k, "pending") /\ op[k] # NONE /\ op[k] \in OpRow /\ Granted(k) /\ ~Started(k)
  BY <1>1 DEF OutboxInv, TypeOK, MarkersHold, OpsGranted, In, Started
<1>3. row \in OpRow /\ row.state = "sending" /\ row # NONE
  BY <1>2, RowFacts DEF OpRow
<1>4. call \in Call
  BY <1>1 DEF Call
<1>5. /\ op' = [op EXCEPT ![k] = row]
      /\ beginning' = beginning \ {c}
      /\ calls' = calls \cup {call} \/ calls' = calls
  BY DEF BeginCommit
<1>6. UNCHANGED <<head, finished, version, pointer, order, claims, lookups, comments, written>>
  BY DEF BeginCommit, authority, host
<1>7. call.command = k /\ call.stage = "permitted" /\ call.target = 0
  OBVIOUS
<1> HIDE DEF row, call
<1>8. TypeOK'
  BY <1>1, <1>3, <1>4, <1>5, <1>6 DEF OutboxInv, TypeOK
<1>9. op'[k] = row /\ \A j \in Commands : j # k => op'[j] = op[j]
  BY <1>1, <1>5 DEF OutboxInv, TypeOK
<1>10. OpsGranted' /\ GrantsSeen'
  BY <1>2, <1>6, <1>9 DEF OutboxInv, OpsGranted, GrantsSeen, Granted
<1>11. MarkersHold'
  <2> SUFFICES ASSUME NEW d \in beginning, d # c
               PROVE  In(d.command, "pending")' /\ Pointed(d.command)'
    BY <1>5 DEF MarkersHold
  <2>1. d.command # k
    BY <1>5 DEF OutboxInv, OneMarkerEach
  <2>2. d.command \in Commands /\ In(d.command, "pending") /\ Pointed(d.command)
    BY DEF OutboxInv, TypeOK, Claim, MarkersHold
  <2> QED BY <2>1, <2>2, <1>6, <1>9 DEF In, Pointed
<1>a. \A d \in calls : d.command \in Commands /\ Started(d.command) /\ d.command # k
  BY <1>2 DEF OutboxInv, TypeOK, Call, CallsKnow
<1>b. written[k] = 0
  BY <1>1, <1>2 DEF OutboxInv, WritesStarted
<1>12. WritesStarted'
  BY <1>3, <1>6, <1>9, <1>b DEF OutboxInv, WritesStarted, Started, In
<1>13. OneCallEach'
  BY <1>5, <1>7, <1>a DEF OutboxInv, OneCallEach
<1>14. CallsKnow'
  <2> SUFFICES ASSUME NEW d \in calls'
               PROVE  /\ Started(d.command)'
                      /\ written[d.command] = IF d.stage = "answered" THEN 1 ELSE 0
                      /\ d.target <= Len(comments)
    BY <1>6 DEF CallsKnow
  <2>1. CASE d \in calls
    BY <2>1, <1>9, <1>a DEF OutboxInv, CallsKnow, Started
  <2>2. CASE d = call
    <3>1. Len(comments) \in Nat
      BY LenProperties DEF OutboxInv, TypeOK
    <3> QED BY <2>2, <3>1, <1>3, <1>7, <1>9, <1>b DEF Started
  <2> QED BY <2>1, <2>2, <1>5
<1>15. HostWritten' /\ OneMarkerEach'
  BY <1>5, <1>6 DEF OutboxInv, HostWritten, OneMarkerEach
<1> QED BY <1>8, <1>10, <1>11, <1>12, <1>13, <1>14, <1>15 DEF OutboxInv

\* A call goes on, without writing.
LEMMA ListInv ==
  ASSUME OutboxInv, NEW c \in calls, List(c)
  PROVE  OutboxInv'
<1> DEFINE new == [c EXCEPT !.stage = "listed", !.target = IF comments = <<>> THEN 0 ELSE 1]
<1>1. c \in Call /\ c.stage = "permitted"
  BY DEF OutboxInv, TypeOK, List
<1>2. new \in Call /\ new.command = c.command /\ new.stage = "listed" /\ new.target <= Len(comments)
  <2>1. Len(comments) \in Nat /\ (comments # <<>> => Len(comments) >= 1)
    BY LenProperties, EmptySeq DEF OutboxInv, TypeOK
  <2>2. (IF comments = <<>> THEN 0 ELSE 1) <= Len(comments) /\ (IF comments = <<>> THEN 0 ELSE 1) \in Nat
    BY <2>1
  <2> QED BY <1>1, <2>2 DEF Call
<1>3. calls' = (calls \ {c}) \cup {new}
  BY DEF List
<1> HIDE DEF new
<1>4. UNCHANGED <<head, finished, version, pointer, order, op, claims, beginning, lookups, comments, written>>
  BY DEF List, authority, host
<1>5. TypeOK'
  BY <1>2, <1>3, <1>4 DEF OutboxInv, TypeOK
<1>6. OpsGranted' /\ GrantsSeen' /\ MarkersHold' /\ OneMarkerEach' /\ WritesStarted' /\ HostWritten'
  BY <1>4 DEF OutboxInv, OpsGranted, GrantsSeen, MarkersHold, OneMarkerEach, WritesStarted, HostWritten,
              In, Started, Granted, Pointed
<1>7. OneCallEach'
  BY <1>2, <1>3 DEF OutboxInv, OneCallEach
<1>8. CallsKnow'
  <2>1. Started(c.command) /\ written[c.command] = 0
    BY <1>1 DEF OutboxInv, CallsKnow
  <2> QED BY <2>1, <1>2, <1>3, <1>4 DEF OutboxInv, CallsKnow, Started
<1> QED BY <1>5, <1>6, <1>7, <1>8 DEF OutboxInv

\* The one write of an operation.
LEMMA WriteInv ==
  ASSUME OutboxInv, NEW c \in calls, Write(c)
  PROVE  OutboxInv'
<1> DEFINE k == c.command
           new == [c EXCEPT !.stage = "answered"]
<1>1. c \in Call /\ k \in Commands /\ c.stage = "listed" /\ c.target \in Nat
  BY DEF OutboxInv, TypeOK, Call, Write
<1>2. new \in Call /\ new.command = k /\ new.stage = "answered" /\ new.target = c.target
  BY <1>1 DEF Call
<1>3. Started(k) /\ written[k] = 0 /\ c.target <= Len(comments)
  BY <1>1 DEF OutboxInv, CallsKnow
<1>4. /\ calls' = (calls \ {c}) \cup {new}
      /\ written' = [written EXCEPT ![k] = @ + 1]
      /\ comments' = IF c.target = 0 THEN Append(comments, k) ELSE [comments EXCEPT ![c.target] = k]
  BY DEF Write
<1> HIDE DEF new, k
<1>5. UNCHANGED <<head, finished, version, pointer, order, op, claims, beginning, lookups>>
  BY DEF Write, authority
<1>6. written \in [Commands -> Nat] /\ written'[k] = 1 /\ \A j \in Commands : j # k => written'[j] = written[j]
  BY <1>1, <1>3, <1>4 DEF OutboxInv, TypeOK
<1>7. /\ comments' \in Seq(Commands) /\ Len(comments') >= Len(comments)
      /\ \A i \in DOMAIN comments' : comments'[i] = k \/ (i \in DOMAIN comments /\ comments'[i] = comments[i])
  <2>1. comments \in Seq(Commands) /\ Len(comments) \in Nat
    BY LenProperties DEF OutboxInv, TypeOK
  <2>2. CASE c.target = 0
    <3>1. comments' = Append(comments, k)
      BY <2>2, <1>4
    <3>2. comments' \in Seq(Commands) /\ Len(comments') = Len(comments) + 1
      BY <1>1, <2>1, <3>1, AppendProperties
    <3>3. /\ DOMAIN comments' = 1..Len(comments) + 1 /\ DOMAIN comments = 1..Len(comments)
          /\ comments'[Len(comments) + 1] = k
          /\ \A i \in 1..Len(comments) : comments'[i] = comments[i]
      BY <1>1, <2>1, <3>1, <3>2, AppendProperties, LenProperties
    <3> QED BY <2>1, <3>2, <3>3
  <2>3. CASE c.target # 0
    <3>1. comments' = [comments EXCEPT ![c.target] = k] /\ c.target \in 1..Len(comments)
      BY <2>1, <2>3, <1>1, <1>3, <1>4
    <3>2. comments' \in Seq(Commands) /\ Len(comments') = Len(comments)
      BY <1>1, <2>1, <3>1, ExceptSeq
    <3>3. /\ DOMAIN comments' = 1..Len(comments) /\ DOMAIN comments = 1..Len(comments)
          /\ \A i \in 1..Len(comments) : comments'[i] = IF i = c.target THEN k ELSE comments[i]
      BY <1>1, <2>1, <3>1, <3>2, ExceptSeq, LenProperties
    <3> QED BY <2>1, <3>2, <3>3
  <2> QED BY <2>2, <2>3
<1>8. TypeOK'
  <2>1. written' \in [Commands -> Nat]
    BY <1>1, <1>3, <1>4 DEF OutboxInv, TypeOK
  <2> QED BY <2>1, <1>2, <1>4, <1>5, <1>7 DEF OutboxInv, TypeOK
<1>9. OpsGranted' /\ GrantsSeen' /\ MarkersHold' /\ OneMarkerEach'
  BY <1>5 DEF OutboxInv, OpsGranted, GrantsSeen, MarkersHold, OneMarkerEach, In, Granted, Pointed
<1>10. WritesStarted'
  BY <1>1, <1>3, <1>5, <1>6 DEF OutboxInv, WritesStarted, In, Started
<1>11. OneCallEach'
  BY <1>2, <1>4 DEF OutboxInv, OneCallEach, k
<1>12. CallsKnow'
  <2> SUFFICES ASSUME NEW d \in calls'
               PROVE  /\ Started(d.command)
                      /\ written'[d.command] = IF d.stage = "answered" THEN 1 ELSE 0
                      /\ d.target <= Len(comments')
    BY <1>5 DEF CallsKnow, Started
  <2>1. Len(comments) \in Nat /\ Len(comments') \in Nat
    BY <1>7, LenProperties DEF OutboxInv, TypeOK
  <2>2. CASE d = new
    BY <2>1, <2>2, <1>1, <1>2, <1>3, <1>6, <1>7
  <2>3. CASE d # new
    <3>1. d \in calls /\ d # c
      BY <2>3, <1>4
    <3>2. d.command \in Commands /\ d.target \in Nat /\ d.command # k
      BY <3>1 DEF OutboxInv, TypeOK, Call, OneCallEach, k
    <3>3. /\ Started(d.command) /\ d.target <= Len(comments)
          /\ written[d.command] = IF d.stage = "answered" THEN 1 ELSE 0
      BY <3>1 DEF OutboxInv, CallsKnow
    <3> QED BY <3>2, <3>3, <2>1, <1>6, <1>7
  <2> QED BY <2>2, <2>3
<1>13. HostWritten'
  <2>1. \A i \in DOMAIN comments : comments[i] \in Commands
    BY ElementOfSeq, LenProperties DEF OutboxInv, TypeOK
  <2>2. \A l \in lookups : l.command \in Commands
    BY DEF OutboxInv, TypeOK, Lookup
  <2>3. \A j \in Commands : written[j] = 1 => written'[j] = 1
    BY <1>6
  <2> QED BY <2>1, <2>2, <2>3, <1>5, <1>6, <1>7 DEF OutboxInv, HostWritten
<1> QED BY <1>8, <1>9, <1>10, <1>11, <1>12, <1>13 DEF OutboxInv

\* An answer, or a lookup that found the comment, reports what was written.
Confirms(k) ==
  /\ written[k] = 1 /\ In(k, "delivered")'
  /\ \E o \in OpRow : op' = [op EXCEPT ![k] = o]
  /\ UNCHANGED <<authority, claims, beginning, lookups, calls, host>>

LEMMA CompleteConfirms ==
  ASSUME OutboxInv, NEW c \in calls, CompletePublication(c)
  PROVE  c.command \in Commands /\ In(c.command, "sending") /\ Confirms(c.command)
<1> DEFINE k == c.command
           row == [op[k] EXCEPT !.state = "delivered"]
<1>1. k \in Commands /\ In(k, "sending") /\ written[k] = 1 /\ op[k] \in OpRow
  BY DEF OutboxInv, TypeOK, Call, CallsKnow, CompletePublication, In
<1>2. row \in OpRow /\ row.state = "delivered" /\ row # NONE
  BY <1>1, RowFacts DEF OpRow
<1>3. op' = [op EXCEPT ![k] = row]
  BY DEF CompletePublication
<1>4. op'[k] = row
  BY <1>1, <1>3 DEF OutboxInv, TypeOK
<1> QED BY <1>1, <1>2, <1>3, <1>4 DEF Confirms, In, CompletePublication

LEMMA ReconcileConfirms ==
  ASSUME OutboxInv, NEW l \in lookups, ReconcilePublication(l)
  PROVE  l.command \in Commands /\ In(l.command, "uncertain") /\ Confirms(l.command)
<1> DEFINE k == l.command
           row == [op[k] EXCEPT !.state = "delivered", !.due = FALSE]
<1>1. k \in Commands /\ In(k, "uncertain") /\ written[k] = 1 /\ op[k] \in OpRow
  BY DEF OutboxInv, TypeOK, Lookup, HostWritten, ReconcilePublication, Looks, In
<1>2. row \in OpRow /\ row.state = "delivered" /\ row # NONE
  BY <1>1, RowFacts DEF OpRow
<1>3. op' = [op EXCEPT ![k] = row]
  BY DEF ReconcilePublication
<1>4. op'[k] = row
  BY <1>1, <1>3 DEF OutboxInv, TypeOK
<1> QED BY <1>1, <1>2, <1>3, <1>4 DEF Confirms, In, ReconcilePublication

LEMMA ConfirmInv ==
  ASSUME OutboxInv, NEW k \in Commands, In(k, "sending") \/ In(k, "uncertain"), Confirms(k)
  PROVE  OutboxInv'
<1>1. PICK o \in OpRow : op' = [op EXCEPT ![k] = o]
  BY DEF Confirms
<1>2. op'[k] = o /\ o.state = "delivered" /\ o # NONE /\ \A j \in Commands : j # k => op'[j] = op[j]
  BY <1>1, RowFacts DEF OutboxInv, TypeOK, Confirms, In
<1>3. UNCHANGED <<head, finished, version, pointer, order, claims, beginning, lookups, calls, comments, written>>
  BY DEF Confirms, authority, host
<1>4. \A j \in Commands : /\ Started(j) => Started(j)'
                          /\ op'[j] # NONE => op[j] # NONE
                          /\ In(j, "pending") => In(j, "pending")'
                          /\ In(j, "delivered")' => In(j, "delivered") \/ j = k
  BY <1>2 DEF Started, In
<1>5. TypeOK'
  BY <1>1, <1>3 DEF OutboxInv, TypeOK
<1>6. OpsGranted' /\ GrantsSeen' /\ OneMarkerEach' /\ OneCallEach' /\ HostWritten'
  BY <1>3, <1>4 DEF OutboxInv, OpsGranted, GrantsSeen, OneMarkerEach, OneCallEach, HostWritten, Granted
<1>7. MarkersHold'
  <2>1. \A c \in beginning : c.command \in Commands
    BY DEF OutboxInv, TypeOK, Claim
  <2> QED BY <2>1, <1>3, <1>4 DEF OutboxInv, MarkersHold, Pointed
<1>8. WritesStarted'
  BY <1>3, <1>4 DEF OutboxInv, WritesStarted, Confirms
<1>9. CallsKnow'
  <2>1. \A c \in calls : c.command \in Commands
    BY DEF OutboxInv, TypeOK, Call
  <2> QED BY <2>1, <1>3, <1>4 DEF OutboxInv, CallsKnow
<1> QED BY <1>5, <1>6, <1>7, <1>8, <1>9 DEF OutboxInv

\* Every step is one of eight kinds.
Plans == Supersede \/ Conclude \/ \E k \in Commands, t \in Attempts : Compose(k, t)
Marks == \/ \E c \in claims : BeginVerify(c)
         \/ \E c \in beginning : BeginAbort(c)
Calls == \E c \in calls : List(c)
Authorizes == \E k \in Commands : AuthorizePublication(k)
Commits == \E c \in beginning : BeginCommit(c)
Writes == \E c \in calls : Write(c)
Answers == \E k \in Commands : (In(k, "sending") \/ In(k, "uncertain")) /\ Confirms(k)

LEMMA StepKinds ==
  ASSUME OutboxInv, [Next]_vars
  PROVE  Plans \/ Marks \/ Calls \/ Authorizes \/ Commits \/ Writes \/ Answers \/ Maintains
<1> DEFINE Goal == Plans \/ Marks \/ Calls \/ Authorizes \/ Commits \/ Writes \/ Answers \/ Maintains
<1>0. TypeOK
  BY DEF OutboxInv
<1>1. CASE UNCHANGED vars
  BY <1>0, <1>1 DEF Maintains, Moves, TypeOK, vars, authority
<1>2. CASE Operate
  BY <1>2 DEF Operate, Plans, Authorizes
<1>3. CASE Deliver
  <2>1. CASE MaterializeAuthorizedPublications \/ \E k \in Commands : ClaimPublication(k)
    BY <1>0, <2>1, MaterializeMaintains, ClaimMaintains
  <2>2. CASE \E c \in claims : BeginObsolete(c) \/ BeginVerify(c)
    BY <1>0, <2>2, ObsoleteMaintains DEF Marks
  <2>3. CASE \E c \in beginning : BeginCommit(c) \/ BeginAbort(c)
    BY <2>3 DEF Marks, Commits
  <2>4. CASE \E c \in calls : List(c) \/ Write(c) \/ CompletePublication(c)
    <3>1. ASSUME NEW c \in calls, CompletePublication(c) PROVE Answers
      BY <3>1, CompleteConfirms DEF Answers
    <3> QED BY <2>4, <3>1 DEF Calls, Writes
  <2> QED BY <1>3, <2>1, <2>2, <2>3, <2>4 DEF Deliver
<1>4. CASE Resolve
  <2>1. CASE \E k \in Commands : LeaseEnds(k) \/ DelayEnds(k) \/ ClaimUncertainPublication(k)
    BY <1>0, <2>1, LeaseMaintains, LookupClaimMaintains
  <2>2. CASE RecoverUncertainPublications
    BY <1>0, <2>2, RecoverMaintains
  <2>3. CASE \E l \in lookups : LookUp(l) \/ DeferPublicationReconciliation(l) \/ ReconcilePublication(l)
    <3>1. ASSUME NEW l \in lookups, ReconcilePublication(l) PROVE Answers
      BY <3>1, ReconcileConfirms DEF Answers
    <3> QED BY <1>0, <2>3, <3>1, LookUpMaintains, DeferMaintains
  <2> QED BY <1>4, <2>1, <2>2, <2>3 DEF Resolve
<1> QED BY <1>1, <1>2, <1>3, <1>4 DEF Next

LEMMA OutboxInit == Init => OutboxInv
<1> SUFFICES ASSUME Init PROVE OutboxInv
  OBVIOUS
<1>1. TypeOK
  <2>1. comments \in Seq(Commands)
    BY EmptySeq DEF Init
  <2> QED BY <2>1, BoundAssumption DEF Init, TypeOK
<1>2. OpsGranted /\ GrantsSeen /\ MarkersHold /\ OneMarkerEach
  BY DEF Init, OpsGranted, GrantsSeen, MarkersHold, OneMarkerEach, Granted
<1>3. WritesStarted /\ OneCallEach /\ CallsKnow /\ HostWritten
  BY DEF Init, WritesStarted, OneCallEach, CallsKnow, HostWritten, In
<1> QED BY <1>1, <1>2, <1>3 DEF OutboxInv

LEMMA OutboxStep == OutboxInv /\ [Next]_vars => OutboxInv'
<1> SUFFICES ASSUME OutboxInv, [Next]_vars PROVE OutboxInv'
  OBVIOUS
<1>1. CASE Plans
  BY <1>1, HeadInv, ComposeInv DEF Plans
<1>2. CASE Marks
  BY <1>2, VerifyInv, AbortInv DEF Marks
<1>3. CASE Calls
  BY <1>3, ListInv DEF Calls
<1>4. CASE Authorizes
  BY <1>4, AuthorizeInv DEF Authorizes
<1>5. CASE Commits
  BY <1>5, CommitInv DEF Commits
<1>6. CASE Writes
  BY <1>6, WriteInv DEF Writes
<1>7. CASE Answers
  BY <1>7, ConfirmInv DEF Answers
<1>8. CASE Maintains
  BY <1>8, MaintainsInv
<1> QED BY <1>1, <1>2, <1>3, <1>4, <1>5, <1>6, <1>7, <1>8, StepKinds

LEMMA OutboxInvariant == Spec => []OutboxInv
BY OutboxInit, OutboxStep, PTL DEF Spec
-----------------------------------------------------------------------------
(* Theorems *)

\* The rows of the outbox keep their shape, and only fences of their
\* operations were handed out.
THEOREM OutboxTyping == Spec => []TypeOK
<1>1. OutboxInv => TypeOK
  BY DEF OutboxInv
<1> QED BY <1>1, OutboxInvariant, PTL

\* Nothing is written twice, whatever is lost, late or taken over.
THEOREM WritingSafety == Spec => []AtMostOneWrite
<1>1. OutboxInv => AtMostOneWrite
  BY DEF OutboxInv, WritesStarted, AtMostOneWrite
<1> QED BY <1>1, OutboxInvariant, PTL

\* Of two operators who saw the same state, one is refused.
THEOREM SightedSafety == Spec => []SightedAuthorizations
<1>1. Init => SightedAuthorizations
  BY DEF Init, SightedAuthorizations, Granted
<1>2. OutboxInv /\ SightedAuthorizations /\ [Next]_vars => SightedAuthorizations'
  <2> SUFFICES ASSUME OutboxInv, SightedAuthorizations, [Next]_vars PROVE SightedAuthorizations'
    OBVIOUS
  <2>1. CASE \A k \in Commands : Granted(k)' => Granted(k) /\ order'[k] = order[k]
    BY <2>1 DEF SightedAuthorizations
  <2>2. CASE Authorizes
    <3>1. PICK k \in Commands : AuthorizePublication(k)
      BY <2>2 DEF Authorizes
    <3>2. /\ order[k] \in OrderRow /\ order[k].seen = version[order[k].attempt]
          /\ order' = [order EXCEPT ![k].granted = TRUE]
      BY <3>1 DEF OutboxInv, TypeOK, AuthorizePublication, Grant
    <3>3. /\ order'[k].attempt = order[k].attempt /\ order'[k].seen = order[k].seen
          /\ \A j \in Commands : j # k => order'[j] = order[j] /\ (Granted(j)' => Granted(j))
      BY <3>2 DEF OutboxInv, TypeOK, OrderRow, Granted
    <3>4. \A j \in Commands : Granted(j) /\ order[j].attempt = order[k].attempt => order[j].seen # order[k].seen
      <4> SUFFICES ASSUME NEW j \in Commands, Granted(j), order[j].attempt = order[k].attempt
                   PROVE  order[j].seen # order[k].seen
        OBVIOUS
      <4>1. order[j].seen < version[order[k].attempt] /\ order[j] \in OrderRow
        BY DEF OutboxInv, TypeOK, GrantsSeen, Granted
      <4> QED BY <4>1, <3>2 DEF OrderRow
    <3> QED BY <3>3, <3>4 DEF SightedAuthorizations
  <2>3. CASE Plans
    <3>1. CASE UNCHANGED order
      BY <3>1, <2>1 DEF Granted
    <3>2. CASE \E k \in Commands, t \in Attempts : Compose(k, t)
      <4>1. PICK k \in Commands, t \in Attempts : Compose(k, t)
        BY <3>2
      <4>2. \A j \in Commands : Granted(j)' => Granted(j) /\ order'[j] = order[j]
        BY <4>1 DEF Compose, Granted, OutboxInv, TypeOK
      <4> QED BY <4>2, <2>1
    <3> QED BY <2>3, <3>1, <3>2 DEF Plans, Supersede, Conclude
  <2>4. CASE UNCHANGED order
    BY <2>4, <2>1 DEF Granted
  <2>5. Marks \/ Calls \/ Commits \/ Writes \/ Answers \/ Maintains => UNCHANGED order
    BY DEF Marks, Calls, Commits, Writes, Answers, Maintains, BeginVerify, BeginAbort, List, BeginCommit,
           Write, Confirms, authority
  <2> QED BY <2>2, <2>3, <2>4, <2>5, StepKinds
<1> QED BY <1>1, <1>2, OutboxInvariant, PTL DEF Spec

\* The marker of an operation is that of its attempt's authorization.
THEOREM SendingSafety == Spec => SendsTheAuthorized
<1> DEFINE Starts == \A k \in Commands : In(k, "pending") /\ In(k, "sending")' => Pointed(k)
<1>1. OutboxInv /\ [Next]_vars => Starts
  <2> SUFFICES ASSUME OutboxInv, [Next]_vars, NEW k \in Commands, In(k, "pending"), In(k, "sending")'
               PROVE  Pointed(k)
    OBVIOUS
  <2>1. CASE Commits
    <3>1. PICK c \in beginning : BeginCommit(c)
      BY <2>1 DEF Commits
    <3>2. c.command \in Commands /\ op' = [op EXCEPT ![c.command] = op'[c.command]]
      BY <3>1 DEF OutboxInv, TypeOK, Claim, BeginCommit
    <3>3. CASE k = c.command
      BY <3>3 DEF OutboxInv, MarkersHold
    <3>4. CASE k # c.command
      BY <3>2, <3>4 DEF In, OutboxInv, TypeOK
    <3> QED BY <3>3, <3>4
  <2>2. CASE Maintains
    BY <2>2 DEF Maintains, Moves, In
  <2>3. CASE Answers
    <3>1. PICK j \in Commands, o \in OpRow : op' = [op EXCEPT ![j] = o] /\ In(j, "delivered")'
      BY <2>3 DEF Answers, Confirms
    <3> QED BY <3>1 DEF In, OutboxInv, TypeOK
  <2>4. CASE UNCHANGED op
    BY <2>4 DEF In
  <2>5. Plans \/ Marks \/ Calls \/ Authorizes \/ Writes => UNCHANGED op
    BY DEF Plans, Marks, Calls, Authorizes, Writes, Supersede, Conclude, Compose, BeginVerify, BeginAbort,
           List, AuthorizePublication, Grant, Write
  <2> QED BY <2>1, <2>2, <2>3, <2>4, <2>5, StepKinds
<1> QED BY <1>1, OutboxInvariant, PTL DEF Spec, SendsTheAuthorized
-----------------------------------------------------------------------------
(* Refinement *)

\* What an operation is to the operator who authorized it.
OfState(s) == CASE s = "pending" -> "asked" [] s = "obsolete" -> "withdrawn"
                [] s = "delivered" -> "confirmed" [] OTHER -> "started"

StatusIs ==
  /\ Status \in [Commands -> {"none", "asked", "withdrawn", "started", "confirmed"}]
  /\ \A k \in Commands :
       Status[k] = IF ~Granted(k) THEN "none" ELSE IF op[k] = NONE THEN "asked" ELSE OfState(op[k].state)

LEMMA StatusFacts == OutboxInv => StatusIs
<1> SUFFICES ASSUME OutboxInv PROVE StatusIs
  OBVIOUS
<1>1. ASSUME NEW k \in Commands
      PROVE  /\ Status[k] = IF ~Granted(k) THEN "none" ELSE IF op[k] = NONE THEN "asked" ELSE OfState(op[k].state)
             /\ Status[k] \in {"none", "asked", "withdrawn", "started", "confirmed"}
  <2>1. CASE ~Granted(k)
    <3>1. op[k] = NONE
      BY <2>1 DEF OutboxInv, OpsGranted
    <3> QED BY <2>1, <3>1 DEF Status, In
  <2>2. CASE Granted(k) /\ op[k] = NONE
    BY <2>2 DEF Status, In
  <2>3. CASE Granted(k) /\ op[k] # NONE
    BY <2>3 DEF Status, OfState, In
  <2> QED BY <2>1, <2>2, <2>3
<1>2. Status \in [Commands -> {"none", "asked", "withdrawn", "started", "confirmed"}]
  BY <1>1 DEF Status
<1> QED BY <1>1, <1>2 DEF StatusIs

\* A step that changes the status of one command.
LEMMA OneStatus ==
  ASSUME StatusIs, StatusIs', NEW k \in Commands, NEW s, Status'[k] = s,
         \A j \in Commands : j # k => Status'[j] = Status[j]
  PROVE  Status' = [Status EXCEPT ![k] = s]
BY DEF StatusIs

LEMMA SameStatus ==
  ASSUME StatusIs, StatusIs', \A j \in Commands : Status'[j] = Status[j]
  PROVE  Status' = Status
BY DEF StatusIs

\* The row of an operation and its command decide its status.
LEMMA RowDecides ==
  ASSUME StatusIs, StatusIs', NEW k \in Commands, op'[k] = op[k], Granted(k)' <=> Granted(k)
  PROVE  Status'[k] = Status[k]
BY DEF StatusIs

LEMMA MaintainsRefines ==
  ASSUME OutboxInv, Maintains, StatusIs, StatusIs'
  PROVE  Promise!Next
<1> DEFINE K == {k \in Commands : Status[k] = "asked" /\ Status'[k] = "withdrawn"}
<1>0. \A k \in Commands : Granted(k)' <=> Granted(k)
  BY DEF Maintains, authority, Granted
<1>1. ASSUME NEW k \in Commands, Status'[k] # Status[k] PROVE k \in K
  <2>1. CASE op'[k] = op[k]
    BY <2>1, <1>0, <1>1, RowDecides
  <2>2. CASE op'[k] \in OpRow /\ op[k] = NONE /\ Granted(k) /\ op'[k].state \in {"pending", "obsolete"}
    BY <2>2, <1>0, <1>1, RowFacts DEF StatusIs, OfState
  <2>3. CASE op'[k] \in OpRow /\ op[k] # NONE /\ op'[k].state = op[k].state
    BY <2>3, <1>0, <1>1, RowFacts DEF StatusIs
  <2>4. CASE op'[k] \in OpRow /\ In(k, "pending") /\ op'[k].state = "obsolete"
    BY <2>4, <1>0, <1>1, RowFacts DEF StatusIs, OfState, In
  <2>5. CASE op'[k] \in OpRow /\ In(k, "sending") /\ op'[k].state = "uncertain"
    BY <2>5, <1>0, <1>1, RowFacts DEF StatusIs, OfState, In
  <2> QED BY <2>1, <2>2, <2>3, <2>4, <2>5 DEF Maintains, Moves
<1>2. Status' = [k \in Commands |-> IF k \in K THEN "withdrawn" ELSE Status[k]]
  BY <1>1 DEF StatusIs
<1>3. UNCHANGED written
  BY DEF Maintains
<1>4. Promise!Withdraw(K)
  BY <1>2, <1>3 DEF Promise!Withdraw
<1> QED BY <1>4 DEF Promise!Next

LEMMA AuthorizeRefines ==
  ASSUME OutboxInv, NEW k \in Commands, AuthorizePublication(k), StatusIs, StatusIs'
  PROVE  Promise!Ask(k)
<1>1. ~Granted(k) /\ op[k] = NONE /\ UNCHANGED op /\ UNCHANGED written
  BY DEF OutboxInv, OpsGranted, AuthorizePublication, Grant, host
<1>2. order[k] \in OrderRow /\ order' = [order EXCEPT ![k].granted = TRUE]
  BY DEF OutboxInv, TypeOK, AuthorizePublication, Grant
<1>3. [order[k] EXCEPT !.granted = TRUE] \in OrderRow
  BY <1>2 DEF OrderRow
<1>4. Granted(k)' /\ \A j \in Commands : j # k => (Granted(j)' <=> Granted(j))
  <2>1. order'[k] = [order[k] EXCEPT !.granted = TRUE] /\ \A j \in Commands : j # k => order'[j] = order[j]
    BY <1>2 DEF OutboxInv, TypeOK
  <2>2. [order[k] EXCEPT !.granted = TRUE].granted
    BY <1>2 DEF OrderRow
  <2> QED BY <2>1, <2>2, <1>3, RowFacts DEF Granted
<1>5. Status'[k] = "asked" /\ Status[k] = "none"
  BY <1>1, <1>4 DEF StatusIs
<1>6. \A j \in Commands : j # k => Status'[j] = Status[j]
  BY <1>1, <1>4, RowDecides
<1>7. Status' = [Status EXCEPT ![k] = "asked"]
  BY <1>5, <1>6, OneStatus
<1> QED BY <1>1, <1>5, <1>7 DEF Promise!Ask

LEMMA CommitRefines ==
  ASSUME OutboxInv, NEW c \in beginning, BeginCommit(c), StatusIs, StatusIs'
  PROVE  Promise!Start(c.command)
<1> DEFINE k == c.command
           row == [op[k] EXCEPT !.state = "sending", !.live = TRUE]
<1>1. k \in Commands /\ In(k, "pending") /\ op[k] \in OpRow /\ Granted(k)
  BY DEF OutboxInv, TypeOK, Claim, MarkersHold, OpsGranted, In
<1>2. row \in OpRow /\ row.state = "sending" /\ row # NONE
  BY <1>1, RowFacts DEF OpRow
<1>3. op' = [op EXCEPT ![k] = row]
  BY DEF BeginCommit
<1> HIDE DEF row
<1>4. UNCHANGED order /\ UNCHANGED written
  BY DEF BeginCommit, authority, host
<1>5. op'[k] = row /\ \A j \in Commands : j # k => op'[j] = op[j]
  BY <1>1, <1>3 DEF OutboxInv, TypeOK
<1>6. \A j \in Commands : Granted(j)' <=> Granted(j)
  BY <1>4 DEF Granted
<1>7. Status[k] = "asked" /\ Status'[k] = "started"
  BY <1>1, <1>2, <1>5, <1>6 DEF StatusIs, OfState, In
<1>8. Status' = [Status EXCEPT ![k] = "started"]
  BY <1>1, <1>5, <1>6, <1>7, OneStatus, RowDecides
<1> QED BY <1>4, <1>7, <1>8 DEF Promise!Start

LEMMA WriteRefines ==
  ASSUME OutboxInv, NEW c \in calls, Write(c), StatusIs, StatusIs'
  PROVE  Promise!Write(c.command)
<1> DEFINE k == c.command
<1>1. k \in Commands /\ Started(k) /\ written[k] = 0 /\ ~In(k, "delivered")
  BY DEF OutboxInv, TypeOK, Call, CallsKnow, WritesStarted, Write
<1>2. Granted(k) /\ Status[k] = "started"
  BY <1>1 DEF OutboxInv, OpsGranted, Started, In, StatusIs, OfState
<1>3. UNCHANGED order /\ UNCHANGED op
  BY DEF Write, authority
<1>4. Status' = Status
  BY <1>3, RowDecides, SameStatus DEF Granted
<1>5. written' = [written EXCEPT ![k] = 1]
  BY <1>1 DEF Write, OutboxInv, TypeOK
<1> QED BY <1>1, <1>2, <1>4, <1>5 DEF Promise!Write

LEMMA ConfirmRefines ==
  ASSUME OutboxInv, NEW k \in Commands, In(k, "sending") \/ In(k, "uncertain"), Confirms(k),
         StatusIs, StatusIs'
  PROVE  Promise!Confirm(k)
<1>1. PICK o \in OpRow : op' = [op EXCEPT ![k] = o]
  BY DEF Confirms
<1>2. \A j \in Commands : j # k => op'[j] = op[j]
  BY <1>1 DEF OutboxInv, TypeOK
<1>3. UNCHANGED order /\ UNCHANGED written /\ written[k] = 1 /\ In(k, "delivered")'
  BY DEF Confirms, authority, host
<1>4. \A j \in Commands : Granted(j)' <=> Granted(j)
  BY <1>3 DEF Granted
<1>5. Granted(k) /\ Status[k] = "started" /\ Status'[k] = "confirmed"
  BY <1>3, <1>4 DEF OutboxInv, OpsGranted, In, StatusIs, OfState
<1>6. Status' = [Status EXCEPT ![k] = "confirmed"]
  BY <1>2, <1>4, <1>5, OneStatus, RowDecides
<1> QED BY <1>3, <1>5, <1>6 DEF Promise!Confirm

\* The outbox keeps what PublicationPromise promises: every step of it is
\* one of the promise's, or none.
THEOREM PromiseKept == Spec => ImplementsPromise
<1>1. Init => Promise!Init
  <2> SUFFICES ASSUME Init PROVE Promise!Init
    OBVIOUS
  <2>1. \A k \in Commands : ~Granted(k)
    BY DEF Init, Granted
  <2>2. Status = [k \in Commands |-> "none"]
    BY <2>1, StatusFacts, OutboxInit DEF StatusIs
  <2> QED BY <2>2 DEF Init, Promise!Init
<1>2. OutboxInv /\ StatusIs /\ StatusIs' /\ [Next]_vars => [Promise!Next]_(Promise!pvars)
  <2> SUFFICES ASSUME OutboxInv, StatusIs, StatusIs', [Next]_vars
               PROVE  Promise!Next \/ UNCHANGED <<Status, written>>
    BY DEF Promise!pvars
  <2>1. CASE Plans
    <3>1. UNCHANGED op /\ UNCHANGED written
      BY <2>1 DEF Plans, Supersede, Conclude, Compose, host
    <3>2. \A k \in Commands : Granted(k)' <=> Granted(k)
      BY <2>1 DEF Plans, Supersede, Conclude, Compose, Granted, OutboxInv, TypeOK
    <3> QED BY <3>1, <3>2, RowDecides, SameStatus
  <2>2. CASE Marks \/ Calls
    <3>1. UNCHANGED op /\ UNCHANGED written /\ UNCHANGED order
      BY <2>2 DEF Marks, Calls, BeginVerify, BeginAbort, List, authority, host
    <3>2. \A k \in Commands : Granted(k)' <=> Granted(k)
      BY <3>1 DEF Granted
    <3> QED BY <3>1, <3>2, RowDecides, SameStatus
  <2>3. CASE Authorizes
    BY <2>3, AuthorizeRefines DEF Authorizes, Promise!Next
  <2>4. CASE Commits
    <3>1. \A c \in beginning : c.command \in Commands
      BY DEF OutboxInv, TypeOK, Claim
    <3> QED BY <2>4, <3>1, CommitRefines DEF Commits, Promise!Next
  <2>5. CASE Writes
    <3>1. \A c \in calls : c.command \in Commands
      BY DEF OutboxInv, TypeOK, Call
    <3> QED BY <2>5, <3>1, WriteRefines DEF Writes, Promise!Next
  <2>6. CASE Answers
    BY <2>6, ConfirmRefines DEF Answers, Promise!Next
  <2>7. CASE Maintains
    BY <2>7, MaintainsRefines
  <2> QED BY <2>1, <2>2, <2>3, <2>4, <2>5, <2>6, <2>7, StepKinds
<1> QED BY <1>1, <1>2, StatusFacts, OutboxInvariant, PTL DEF Spec, ImplementsPromise, Promise!Spec
=============================================================================
