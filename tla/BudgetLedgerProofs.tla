-------------------------- MODULE BudgetLedgerProofs --------------------------
(***************************************************************************)
(* Proofs about the budget ledger, for any attempts, actions, workers,     *)
(* limits, periods and receipts.                                           *)
(***************************************************************************)
EXTENDS BudgetLedger, FiniteSetTheorems, TLAPS

LEMMA PeriodType ==
  ASSUME NEW k \in Kinds, NEW time \in Nat
  PROVE  PeriodAt(k, time) \in Int
<1>1. Anchor[k] \in Nat /\ Duration[k] \in Nat /\ Duration[k] > 0
  BY TimeAssumption
<1>2. (time - Anchor[k]) \div Duration[k] \in Int
  BY <1>1
<1> QED BY <1>2 DEF PeriodAt

LEMMA RowIsNotNone == NONE \notin ActionRow
BY RowAssumption

\* A claim, whichever of the two operations takes it, leaves well-typed rows.
LEMMA TakeLeaseType ==
  ASSUME TypeOK, NEW x \in Actions, NEW w \in Workers, TakeLease(x, w)
  PROVE  TypeOK'
<1> DEFINE c == [action |-> x, worker |-> w, fence |-> lease[x].fence + 1, until |-> LeaseEnd(x)]
<1>1. action[x] \in ActionRow /\ lease[x] \in LeaseRow
  BY DEF TypeOK, TakeLease, Prepared, Exists
<1>2. LeaseEnd(x) \in Nat
  BY <1>1, TimeAssumption DEF TypeOK, Time, LeaseEnd, NotAfter, Earlier, ActionRow
<1>3. lease[x].fence + 1 \in 1..MaxFence
  BY <1>1, TimeAssumption DEF TakeLease, LeaseRow
<1>4. c \in Claim
  BY <1>2, <1>3 DEF Claim
<1>5. [fence |-> c.fence, worker |-> w, until |-> c.until, sending |-> 0] \in LeaseRow
  BY <1>2, <1>3, TimeAssumption DEF LeaseRow
<1>6. lease' \in [Actions -> LeaseRow] /\ claims' \subseteq Claim
  BY <1>4, <1>5 DEF TakeLease, TypeOK
<1> QED BY <1>6 DEF TypeOK, TakeLease

LEMMA ReserveType ==
  ASSUME TypeOK, NEW t \in Attempts, NEW x \in Actions, NEW state \in States, Reserve(t, x, state)
  PROVE  action' \in [Actions -> ActionRow \cup {NONE}] /\ action'[x] \in ActionRow
<1> DEFINE row == [attempt |-> t, state |-> state, fenced |-> state = "prepared",
                   origin |-> [k \in Kinds |-> PeriodAt(k, now)],
                   outcome |-> NONE, receipt |-> NONE, incident |-> FALSE]
<1>1. [k \in Kinds |-> PeriodAt(k, now)] \in [Kinds -> Int]
  BY PeriodType, TimeAssumption DEF TypeOK, Time
<1>2. row \in ActionRow
  BY <1>1 DEF ActionRow
<1> QED BY <1>2 DEF Reserve, TypeOK

LEMMA GrantType ==
  ASSUME TypeOK, NEW x \in Actions, NEW worker \in Workers \cup {NONE}, NEW fence \in 0..MaxFence,
         Grant(x, worker, fence)
  PROVE  frames' \subseteq Frame
<1>1. [action |-> x, worker |-> worker, fence |-> fence, called |-> FALSE] \in Frame
  BY DEF Frame
<1> QED BY <1>1 DEF TypeOK, Grant

\* The rows of the ledger keep their shape under every operation.
THEOREM Typing == Spec => []TypeOK
<1>1. Init => TypeOK
  BY TimeAssumption DEF Init, TypeOK, Time, LeaseRow, Unclaimed
<1>2. TypeOK /\ [Next]_vars => TypeOK'
  <2> SUFFICES ASSUME TypeOK, [Next]_vars PROVE TypeOK'
    OBVIOUS
  <2>1. CASE Tick
    BY <2>1, TimeAssumption DEF TypeOK, Tick, Time
  <2>2. ASSUME NEW t \in Attempts, RegisterAttempt(t) \/ CloseAttempt(t) PROVE TypeOK'
    BY <2>2 DEF TypeOK, RegisterAttempt, CloseAttempt
  <2>3. ASSUME NEW t \in Attempts, NEW x \in Actions, ReserveAndBegin(t, x) PROVE TypeOK'
    <3>1. Reserve(t, x, "sending") /\ Grant(x, NONE, 0)
      BY <2>3 DEF ReserveAndBegin
    <3>2. action' \in [Actions -> ActionRow \cup {NONE}]
      BY <3>1, ReserveType DEF States
    <3>3. frames' \subseteq Frame
      <4>1. 0 \in 0..MaxFence /\ NONE \in Workers \cup {NONE}
        BY TimeAssumption
      <4> QED BY <3>1, <4>1, GrantType
    <3> QED BY <3>1, <3>2, <3>3 DEF TypeOK, Reserve
  <2>4. ASSUME NEW t \in Attempts, NEW x \in Actions, PrepareAction(t, x) PROVE TypeOK'
    <3>1. Reserve(t, x, "prepared") /\ UNCHANGED frames
      BY <2>4 DEF PrepareAction
    <3>2. action' \in [Actions -> ActionRow \cup {NONE}]
      BY <3>1, ReserveType DEF States
    <3> QED BY <3>1, <3>2 DEF TypeOK, Reserve
  <2>5. ASSUME NEW x \in Actions, NEW w \in Workers, ClaimPrepared(x, w) \/ ReclaimPrepared(x, w)
        PROVE TypeOK'
    BY <2>5, TakeLeaseType DEF ClaimPrepared, ReclaimPrepared
  <2>6. ASSUME NEW c \in claims, BeginPrepared(c) PROVE TypeOK'
    <3>1. c \in Claim
      BY DEF TypeOK
    <3>2. c.action \in Actions /\ c.worker \in Workers /\ c.fence \in 1..MaxFence
      BY <3>1 DEF Claim
    <3>3. action[c.action] \in ActionRow /\ lease[c.action] \in LeaseRow
      BY <2>6, <3>2 DEF TypeOK, BeginPrepared, BeginWith, Owns, Prepared, Exists
    <3>4. lease' \in [Actions -> LeaseRow]
      BY <2>6, <3>2, <3>3, TimeAssumption DEF TypeOK, BeginPrepared, BeginWith, Owns, LeaseRow
    <3>5. action' \in [Actions -> ActionRow \cup {NONE}]
      BY <2>6, <3>2, <3>3 DEF TypeOK, BeginPrepared, BeginWith, Owns, ActionRow, States
    <3>6. frames' \subseteq Frame
      BY <2>6, <3>2, GrantType, TimeAssumption DEF BeginPrepared, BeginWith, Owns
    <3> QED BY <2>6, <3>4, <3>5, <3>6 DEF TypeOK, BeginPrepared, BeginWith, Owns
  <2>7. ASSUME NEW f \in frames, Invoke(f) PROVE TypeOK'
    <3>1. f \in Frame
      BY DEF TypeOK
    <3>2. [f EXCEPT !.called = TRUE] \in Frame /\ f.action \in Actions
      BY <3>1 DEF Frame
    <3>3. frames' \subseteq Frame
      BY <2>7, <3>2 DEF TypeOK, Invoke
    <3>4. sends' \in [Actions -> Nat]
      BY <2>7, <3>2 DEF TypeOK, Invoke
    <3> QED BY <2>7, <3>3, <3>4 DEF TypeOK, Invoke
  <2>8. ASSUME NEW f \in frames, LoseFrame(f) PROVE TypeOK'
    BY <2>8 DEF TypeOK, LoseFrame
  <2>9. ASSUME NEW f \in frames, NEW o \in Outcomes, RecordOutcome(f, o) PROVE TypeOK'
    <3>1. f.action \in Actions
      BY DEF TypeOK, Frame
    <3>2. action[f.action] \in ActionRow
      BY <2>9, <3>1 DEF TypeOK, RecordOutcome, Started, Exists
    <3> QED BY <2>9, <3>1, <3>2 DEF TypeOK, RecordOutcome, ActionRow, States
  <2>10. ASSUME NEW f \in FinalReceipts, SettleFinal(f) PROVE TypeOK'
    <3>1. f.action \in Actions
      BY MessageAssumption
    <3>2. action[f.action] \in ActionRow
      BY <2>10, <3>1 DEF TypeOK, SettleFinal, SettleWith, Started, Exists
    <3> QED BY <2>10, <3>1, <3>2 DEF TypeOK, SettleFinal, SettleWith, ActionRow
  <2>11. ASSUME NEW f \in FinalReceipts, QuarantineReceipt(f) PROVE TypeOK'
    <3>1. PICK reason \in Reasons : Quarantine(f, reason)
      BY <2>11 DEF Reasons, QuarantineReceipt, QuarantineUnknown, QuarantineEarly, QuarantineMismatch,
           QuarantineReused, QuarantineSecond
    <3>2. quarantine' \subseteq FinalReceipts \X Reasons
      BY <3>1 DEF Quarantine, TypeOK
    <3> QED BY <3>1, <3>2 DEF Quarantine, TypeOK
  <2>12. CASE UNCHANGED vars
    BY <2>12 DEF TypeOK, vars
  <2> QED
    BY <2>1, <2>2, <2>3, <2>4, <2>5, <2>6, <2>7, <2>8, <2>9, <2>10, <2>11, <2>12 DEF Next
<1> QED BY <1>1, <1>2, PTL DEF Spec
-----------------------------------------------------------------------------
(* Sending *)

\* A frame is the only one of its action and knows whether it has called.
OneFrame ==
  /\ \A f, g \in frames : f.action = g.action => f = g
  /\ \A f \in frames : sends[f.action] = IF f.called THEN 1 ELSE 0

SendInv == AtMostOneCall /\ NothingBeforeSending /\ OneFrame

\* What a step may not do to an action that is not started, said once for
\* the steps that do not send.
LEMMA SendStutter ==
  ASSUME TypeOK, SendInv, UNCHANGED <<frames, sends>>,
         \A x \in Actions : /\ Started(x) => Started(x)'
                            /\ Exists(x)' /\ ~Started(x)' =>
                                  action'[x].outcome = NONE /\ action'[x].receipt = NONE
  PROVE  SendInv'
BY DEF SendInv, AtMostOneCall, NothingBeforeSending, OneFrame

\* Granting a permit for an action that was not started.
LEMMA SendGrant ==
  ASSUME TypeOK, SendInv, NEW x \in Actions, NEW w, NEW n, Grant(x, w, n), UNCHANGED sends,
         ~Started(x), Started(x)',
         \A y \in Actions \ {x} : action'[y] = action[y]
  PROVE  SendInv'
<1>1. sends[x] = 0 /\ \A f \in frames : f.action # x
  BY DEF SendInv, NothingBeforeSending
<1> DEFINE g == [action |-> x, worker |-> w, fence |-> n, called |-> FALSE]
<1>2. frames' \subseteq frames \cup {g} /\ g.action = x /\ ~g.called
  BY DEF Grant
<1>3. OneFrame'
  BY <1>1, <1>2 DEF SendInv, OneFrame
<1>4. AtMostOneCall'
  BY DEF SendInv, AtMostOneCall
<1>5. NothingBeforeSending'
  BY <1>1, <1>2 DEF SendInv, NothingBeforeSending, Started, Exists
<1> QED BY <1>3, <1>4, <1>5 DEF SendInv

LEMMA SendStep == TypeOK /\ SendInv /\ [Next]_vars => SendInv'
<1> SUFFICES ASSUME TypeOK, SendInv, [Next]_vars PROVE SendInv'
  OBVIOUS
<1>1. CASE UNCHANGED action /\ UNCHANGED frames /\ UNCHANGED sends
  BY <1>1 DEF SendInv, AtMostOneCall, NothingBeforeSending, OneFrame, Started, Exists
<1>2. ASSUME NEW t \in Attempts, NEW x \in Actions, ReserveAndBegin(t, x) PROVE SendInv'
  <2>1. ~Started(x) /\ Grant(x, NONE, 0) /\ UNCHANGED sends
    BY <1>2 DEF ReserveAndBegin, Reserve, Started
  <2>2. action'[x] \in ActionRow
    BY <1>2, ReserveType DEF ReserveAndBegin, States
  <2>3. action'[x].state = "sending" /\ \A y \in Actions \ {x} : action'[y] = action[y]
    BY <1>2 DEF ReserveAndBegin, Reserve, TypeOK
  <2>4. Started(x)'
    BY <2>2, <2>3, RowIsNotNone DEF Started, Exists
  <2> QED BY <2>1, <2>3, <2>4, SendGrant
<1>3. ASSUME NEW t \in Attempts, NEW x \in Actions, PrepareAction(t, x) PROVE SendInv'
  <2>1. /\ ~Exists(x) /\ action'[x].state = "prepared"
        /\ action'[x].outcome = NONE /\ action'[x].receipt = NONE
        /\ \A y \in Actions \ {x} : action'[y] = action[y]
    BY <1>3 DEF PrepareAction, Reserve, TypeOK
  <2>2. UNCHANGED <<frames, sends>>
    BY <1>3 DEF PrepareAction, Reserve
  <2> QED BY <2>1, <2>2, SendStutter DEF SendInv, NothingBeforeSending, Started, Exists
<1>4. ASSUME NEW c \in claims, BeginPrepared(c) PROVE SendInv'
  <2>1. c.action \in Actions
    BY DEF TypeOK, Claim
  <2>2. action[c.action] \in ActionRow
    BY <1>4, <2>1 DEF TypeOK, BeginPrepared, BeginWith, Owns, Prepared, Exists
  <2>3. ~Started(c.action) /\ Grant(c.action, c.worker, c.fence) /\ UNCHANGED sends
    BY <1>4 DEF BeginPrepared, BeginWith, Owns, Prepared, Started
  <2>4. Started(c.action)' /\ \A y \in Actions \ {c.action} : action'[y] = action[y]
    BY <1>4, <2>1, <2>2, RowIsNotNone DEF BeginPrepared, BeginWith, Owns, TypeOK, Started, Exists, ActionRow, States
  <2> QED BY <2>1, <2>3, <2>4, SendGrant
<1>5. ASSUME NEW f \in frames, Invoke(f) PROVE SendInv'
  <2>1. f.action \in Actions /\ f \in Frame
    BY DEF TypeOK, Frame
  <2> DEFINE g == [f EXCEPT !.called = TRUE]
  <2>2. g.action = f.action /\ g.called
    BY <2>1 DEF Frame
  <2>3. /\ ~f.called /\ frames' = (frames \ {f}) \cup {g}
        /\ sends' = [sends EXCEPT ![f.action] = @ + 1] /\ UNCHANGED action
    BY <1>5 DEF Invoke
  <2> HIDE DEF g
  <2>4. sends[f.action] = 0 /\ \A h \in frames \ {f} : h.action # f.action
    BY <2>3 DEF SendInv, OneFrame
  <2>5. sends'[f.action] = 1 /\ \A y \in Actions \ {f.action} : sends'[y] = sends[y]
    BY <2>1, <2>3, <2>4 DEF TypeOK
  <2>6. \A h \in frames' : h.action \in Actions
    BY <2>1, <2>2, <2>3 DEF TypeOK, Frame
  <2>7. OneFrame'
    BY <2>2, <2>3, <2>4, <2>5, <2>6 DEF SendInv, OneFrame
  <2>8. AtMostOneCall'
    BY <2>5 DEF SendInv, AtMostOneCall
  <2>9. Started(f.action)
    BY <2>1 DEF SendInv, NothingBeforeSending
  <2>10. NothingBeforeSending'
    BY <2>2, <2>3, <2>5, <2>9 DEF SendInv, NothingBeforeSending, Started, Exists
  <2> QED BY <2>7, <2>8, <2>10 DEF SendInv
<1>6. ASSUME NEW f \in frames, LoseFrame(f) PROVE SendInv'
  <2>1. frames' \subseteq frames /\ UNCHANGED <<action, sends>>
    BY <1>6 DEF LoseFrame
  <2>2. OneFrame'
    BY <2>1 DEF SendInv, OneFrame
  <2> QED BY <2>1, <2>2 DEF SendInv, AtMostOneCall, NothingBeforeSending, Started, Exists
<1>7. ASSUME NEW f \in frames, NEW o \in Outcomes, RecordOutcome(f, o) PROVE SendInv'
  <2>1. f.action \in Actions
    BY DEF TypeOK, Frame
  <2>2. action[f.action] \in ActionRow
    BY <1>7, <2>1 DEF TypeOK, RecordOutcome, Started, Exists
  <2>3. /\ action'[f.action] \in ActionRow /\ action'[f.action].state # "prepared"
        /\ \A y \in Actions \ {f.action} : action'[y] = action[y]
    BY <1>7, <2>1, <2>2 DEF RecordOutcome, TypeOK, ActionRow, States
  <2>4. frames' \subseteq frames /\ UNCHANGED sends
    BY <1>7 DEF RecordOutcome
  <2>5. Started(f.action) /\ Started(f.action)'
    BY <1>7, <2>3, RowIsNotNone DEF RecordOutcome, Started, Exists
  <2>6. OneFrame'
    BY <2>4 DEF SendInv, OneFrame
  <2> QED BY <2>3, <2>4, <2>5, <2>6 DEF SendInv, AtMostOneCall, NothingBeforeSending, Started, Exists
<1>8. ASSUME NEW f \in FinalReceipts, SettleFinal(f) PROVE SendInv'
  <2>1. f.action \in Actions
    BY MessageAssumption
  <2>2. action[f.action] \in ActionRow
    BY <1>8, <2>1 DEF TypeOK, SettleFinal, SettleWith, Started, Exists
  <2>3. /\ action'[f.action] \in ActionRow /\ action'[f.action].state = action[f.action].state
        /\ \A y \in Actions \ {f.action} : action'[y] = action[y]
    BY <1>8, <2>1, <2>2 DEF SettleFinal, SettleWith, TypeOK, ActionRow
  <2>4. UNCHANGED <<frames, sends>>
    BY <1>8 DEF SettleFinal, SettleWith
  <2>5. Started(f.action) /\ Started(f.action)'
    BY <1>8, <2>3, RowIsNotNone DEF SettleFinal, SettleWith, Started, Exists
  <2>6. OneFrame'
    BY <2>4 DEF SendInv, OneFrame
  <2> QED BY <2>3, <2>4, <2>5, <2>6 DEF SendInv, AtMostOneCall, NothingBeforeSending, Started, Exists
<1>9. CASE UNCHANGED vars
  BY <1>1, <1>9 DEF vars
<1>10. CASE Tick
  BY <1>1, <1>10 DEF Tick
<1>11. ASSUME NEW t \in Attempts, RegisterAttempt(t) \/ CloseAttempt(t) PROVE SendInv'
  BY <1>1, <1>11 DEF RegisterAttempt, CloseAttempt
<1>12. ASSUME NEW x \in Actions, NEW w \in Workers, ClaimPrepared(x, w) \/ ReclaimPrepared(x, w)
       PROVE SendInv'
  BY <1>1, <1>12 DEF ClaimPrepared, ReclaimPrepared, TakeLease
<1>13. ASSUME NEW f \in FinalReceipts, QuarantineReceipt(f) PROVE SendInv'
  BY <1>1, <1>13 DEF Quarantine, QuarantineReceipt,
       QuarantineUnknown, QuarantineEarly, QuarantineMismatch, QuarantineReused, QuarantineSecond
<1> QED
  BY <1>2, <1>3, <1>4, <1>5, <1>6, <1>7, <1>8, <1>9, <1>10, <1>11, <1>12, <1>13 DEF Next

\* A provider is called at most once for an action, and never for one that
\* is not marked as sending.
THEOREM SendingSafety == Spec => [](AtMostOneCall /\ NothingBeforeSending)
<1>1. Init => SendInv
  BY DEF Init, SendInv, AtMostOneCall, NothingBeforeSending, OneFrame, Exists
<1>2. SendInv => AtMostOneCall /\ NothingBeforeSending
  BY DEF SendInv
<1> QED BY <1>1, <1>2, Typing, SendStep, PTL DEF Spec

(***************************************************************************)
(* What Total computes: it is a natural number, grows with the set and     *)
(* with each amount, and adding an element adds its amount.                *)
(***************************************************************************)

\* The pairs of finitely many natural amounts are finitely many.
LEMMA UnitsFinite ==
  ASSUME NEW X, IsFiniteSet(X), NEW amt \in [X -> Nat]
  PROVE  IsFiniteSet(Units(X, amt))
<1> DEFINE F == [x \in X |-> {x} \X (1..amt[x])]
           Img == {{x} \X (1..amt[x]) : x \in X}
<1>1. \A x \in X : IsFiniteSet({x} \X (1..amt[x]))
  <2> TAKE x \in X
  <2>1. amt[x] \in Int /\ 1 \in Int
    OBVIOUS
  <2>2. IsFiniteSet({x}) /\ IsFiniteSet(1..amt[x])
    BY <2>1, FS_Singleton, FS_Interval
  <2> QED BY <2>2, FS_Product
<1>2. F \in Surjection(X, Img)
  BY DEF Surjection
<1>3. IsFiniteSet(Img)
  BY <1>2, FS_Surjection
<1>4. \A T \in Img : IsFiniteSet(T)
  BY <1>1
<1> HIDE DEF Img
<1>5. IsFiniteSet(UNION Img)
  BY <1>3, <1>4, FS_UNION
<1> QED BY <1>5 DEF Units, Img

LEMMA TotalType ==
  ASSUME NEW X, IsFiniteSet(X), NEW amt \in [X -> Nat]
  PROVE  Total(X, amt) \in Nat
BY UnitsFinite, FS_CardinalityType DEF Total

\* Fewer elements, or smaller amounts, never make a larger total.
LEMMA TotalMonotone ==
  ASSUME NEW X, IsFiniteSet(X), NEW amt \in [X -> Nat],
         NEW Y \in SUBSET X, NEW low \in [Y -> Nat],
         \A y \in Y : low[y] <= amt[y]
  PROVE  Total(Y, low) <= Total(X, amt)
<1>1. Units(Y, low) \subseteq Units(X, amt)
  <2> SUFFICES ASSUME NEW y \in Y, NEW k \in 1..low[y]
               PROVE  <<y, k>> \in Units(X, amt)
    BY DEF Units
  <2>1. k \in 1..amt[y]
    OBVIOUS
  <2> QED BY <2>1 DEF Units
<1>2. IsFiniteSet(Units(X, amt))
  BY UnitsFinite
<1> QED BY <1>1, <1>2, FS_Subset DEF Total

\* An element that was not counted adds exactly its amount.
LEMMA TotalAdd ==
  ASSUME NEW X, IsFiniteSet(X), NEW amt \in [X -> Nat],
         NEW z, z \notin X, NEW sum \in [X \cup {z} -> Nat],
         \A x \in X : sum[x] = amt[x]
  PROVE  Total(X \cup {z}, sum) = Total(X, amt) + sum[z]
<1> DEFINE new == {z} \X (1..sum[z])
<1>1. Units(X \cup {z}, sum) = Units(X, amt) \cup new
  <2>1. \A x \in X : {x} \X (1..sum[x]) = {x} \X (1..amt[x])
    OBVIOUS
  <2>2. UNION {{x} \X (1..sum[x]) : x \in X \cup {z}}
          = (UNION {{x} \X (1..sum[x]) : x \in X}) \cup new
    <3> DEFINE S(x) == {x} \X (1..sum[x])
    <3> HIDE DEF S
    <3>1. UNION {S(x) : x \in X \cup {z}} = (UNION {S(x) : x \in X}) \cup S(z)
      OBVIOUS
    <3> QED BY <3>1 DEF S
  <2>3. {{x} \X (1..sum[x]) : x \in X} = {{x} \X (1..amt[x]) : x \in X}
    <3> DEFINE S(x) == {x} \X (1..sum[x])
               A(x) == {x} \X (1..amt[x])
    <3>1. \A x \in X : S(x) = A(x)
      BY <2>1
    <3> HIDE DEF S, A
    <3>2. {S(x) : x \in X} = {A(x) : x \in X}
      BY <3>1
    <3> QED BY <3>2 DEF S, A
  <2> QED BY <2>2, <2>3 DEF Units
<1>2. Units(X, amt) \cap new = {}
  BY DEF Units
<1>3. sum[z] \in Nat /\ 1 \in Int
  OBVIOUS
<1>4. IsFiniteSet({z}) /\ Cardinality({z}) = 1
  BY FS_Singleton
<1>5. IsFiniteSet(1..sum[z]) /\ Cardinality(1..sum[z]) = sum[z]
  <2> DEFINE n == sum[z]
  <2>1. n \in Nat
    BY <1>3
  <2> HIDE DEF n
  <2>2. IsFiniteSet(1..n) /\ Cardinality(1..n) = IF 1 > n THEN 0 ELSE n - 1 + 1
    BY <2>1, <1>3, FS_Interval
  <2>3. IsFiniteSet(1..n) /\ Cardinality(1..n) = n
    BY <2>1, <2>2
  <2> QED BY <2>3 DEF n
<1>6. IsFiniteSet(new) /\ Cardinality(new) = sum[z]
  <2>1. Cardinality(new) = Cardinality({z}) * Cardinality(1..sum[z]) /\ IsFiniteSet(new)
    BY <1>4, <1>5, FS_Product
  <2> HIDE DEF new
  <2>2. Cardinality(new) = 1 * sum[z]
    BY <1>4, <1>5, <2>1
  <2> QED BY <1>3, <2>1, <2>2
<1>7. IsFiniteSet(Units(X, amt))
  BY UnitsFinite
<1> HIDE DEF new
<1>8. Cardinality(Units(X, amt) \cup new)
        = Cardinality(Units(X, amt)) + Cardinality(new) - Cardinality(Units(X, amt) \cap new)
  BY <1>6, <1>7, FS_Union
<1>9. Cardinality(Units(X, amt)) \in Nat /\ Cardinality(Units(X, amt) \cap new) = 0
  BY <1>2, <1>7, FS_CardinalityType, FS_EmptySet
<1>10. Cardinality(Units(X, amt) \cup new) = Cardinality(Units(X, amt)) + sum[z]
  BY <1>3, <1>6, <1>8, <1>9
<1>11. Cardinality(Units(X \cup {z}, sum)) = Cardinality(Units(X, amt)) + sum[z]
  BY <1>1, <1>10, Zenon
<1> QED BY <1>11, Zenon DEF Total
-----------------------------------------------------------------------------
(* What the actions are charged *)

Made == {x \in Actions : Exists(x)}

AmountsTyped == \A x \in Made, r \in Resources : Amount(x)[r] \in Nat

LEMMA AmountType == TypeOK => AmountsTyped
<1> SUFFICES ASSUME TypeOK, NEW x \in Made, NEW r \in Resources PROVE Amount(x)[r] \in Nat
  BY DEF AmountsTyped
<1>1. action[x] \in ActionRow /\ x \in Actions
  BY DEF TypeOK, Made, Exists
<1>2. Settled(x) => action[x].receipt.actual \in Amounts
  BY <1>1, MessageAssumption DEF Settled, ActionRow
<1>3. Upper[x] \in Amounts
  BY <1>1, LimitAssumption
<1> QED BY <1>2, <1>3 DEF Amount, Amounts

LEMMA MadeFinite ==
  ASSUME NEW X \in SUBSET Actions
  PROVE  IsFiniteSet(X)
BY RowAssumption, FS_Subset

\* The amounts of a set of actions, as Due sums them.
Owed(X, r) == [x \in X |-> Amount(x)[r]]

LEMMA OwedType ==
  ASSUME TypeOK, NEW X \in SUBSET Made, NEW r \in Resources
  PROVE  Owed(X, r) \in [X -> Nat] /\ IsFiniteSet(X) /\ Due(X, r) \in Nat
<1>1. Owed(X, r) \in [X -> Nat]
  BY AmountType DEF AmountsTyped, Owed
<1>2. IsFiniteSet(X)
  BY MadeFinite DEF Made
<1>3. Due(X, r) = Total(X, Owed(X, r))
  BY DEF Due, Owed
<1> QED BY <1>1, <1>2, <1>3, TotalType

LEMMA CountedMade ==
  ASSUME NEW s, NEW p
  PROVE  /\ Counted(s, p) \in SUBSET Made
         /\ AdmittedIn(s, p) \subseteq Counted(s, p)
BY DEF Counted, AdmittedIn, Made, Holds

LEMMA CeilingType == \A s \in Scopes, r \in Resources : Ceiling[Kind(s)][r] \in Nat
BY LimitAssumption DEF Kind, Kinds, Amounts

LEMMA ScopeKind == \A s \in Scopes : Kind(s) \in Kinds
BY DEF Kind, Kinds

\* A charge over fewer actions, or smaller amounts, is no larger: across a
\* step, and in either direction of it.
LEMMA DueShrinks ==
  ASSUME TypeOK, TypeOK', NEW r \in Resources,
         NEW X \in SUBSET Made, NEW Y \in SUBSET Made', Y \subseteq X,
         \A y \in Y : Amount(y)'[r] <= Amount(y)[r]
  PROVE  /\ Total(Y, [y \in Y |-> Amount(y)'[r]]) <= Due(X, r)
         /\ Total(Y, [y \in Y |-> Amount(y)'[r]]) \in Nat /\ Due(X, r) \in Nat
<1> DEFINE low == [y \in Y |-> Amount(y)'[r]]
<1>1. low \in [Y -> Nat]
  <2>1. AmountsTyped'
    BY AmountType, PTL
  <2> QED BY <2>1 DEF AmountsTyped
<1>2. Owed(X, r) \in [X -> Nat] /\ IsFiniteSet(X)
  BY OwedType
<1>3. \A y \in Y : low[y] <= Owed(X, r)[y]
  BY DEF Owed
<1> HIDE DEF low
<1>4. Total(Y, low) <= Total(X, Owed(X, r))
  BY <1>1, <1>2, <1>3, TotalMonotone
<1>5. Total(Y, low) \in Nat
  BY <1>1, MadeFinite, TotalType DEF Made
<1> QED BY <1>4, <1>5, OwedType DEF low, Due, Owed
-----------------------------------------------------------------------------
(* The inductive invariant *)

WithinPeriod == \A s \in Scopes, p \in Int, r \in Resources :
                  ~Incident(s) => Due(AdmittedIn(s, p), r) <= Ceiling[Kind(s)][r]

\* No action was admitted in a period that has not begun.
OriginInPast == \A x \in Made, k \in Kinds : action[x].origin[k] <= PeriodAt(k, now)

SpendInv == WithinPeriod /\ OpenWithinCeiling /\ OriginInPast

LEMMA PeriodMonotone ==
  ASSUME NEW k \in Kinds, NEW a \in Nat, NEW b \in Nat, a <= b
  PROVE  PeriodAt(k, a) <= PeriodAt(k, b)
<1> DEFINE d == Duration[k]
           m == a - Anchor[k]
           n == b - Anchor[k]
<1>1. d \in Nat /\ d > 0 /\ m \in Int /\ n \in Int /\ m <= n
  BY TimeAssumption
<1> HIDE DEF d, m, n
<1>2. m \div d <= n \div d
  <2> DEFINE i == m \div d
             j == n \div d
  <2>1. i \in Int /\ j \in Int /\ d * i <= m /\ n < d * j + d
    BY <1>1
  <2> HIDE DEF i, j
  <2>2. d * i < d * j + d
    BY <1>1, <2>1
  <2>3. d * (i - j) < d
    BY <1>1, <2>1, <2>2
  <2>4. i - j < 1
    BY <1>1, <2>1, <2>3
  <2> QED BY <2>1, <2>4 DEF i, j
<1> QED BY <1>2 DEF PeriodAt, d, m, n

\* A step that reserves nothing: rows keep their scopes and periods, and an
\* amount only grows together with an incident.
Kept ==
  \A x \in Actions :
    /\ Exists(x)' <=> Exists(x)
    /\ Exists(x) => /\ action'[x].attempt = action[x].attempt
                    /\ action'[x].origin = action[x].origin
                    /\ action[x].incident => action'[x].incident
                    /\ Settled(x) => Settled(x)'
                    /\ action'[x].incident \/ \A r \in Resources : Amount(x)'[r] <= Amount(x)[r]

LEMMA KeptHolds ==
  ASSUME Kept, NEW s \in Scopes, ~Incident(s)'
  PROVE  /\ ~Incident(s)
         /\ \A x \in Actions : Holds(x, s)' <=> Holds(x, s)
         /\ \A x \in Actions : Holds(x, s) => \A r \in Resources : Amount(x)'[r] <= Amount(x)[r]
<1>1. \A x \in Actions : Holds(x, s)' <=> Holds(x, s)
  BY DEF Kept, Holds
<1>2. \A x \in Actions : Holds(x, s)' => ~action'[x].incident
  BY DEF Incident
<1>3. \A x \in Actions : Holds(x, s) => ~action[x].incident /\ \A r \in Resources : Amount(x)'[r] <= Amount(x)[r]
  BY <1>1, <1>2 DEF Kept, Holds
<1> QED BY <1>1, <1>3 DEF Incident

\* Without an incident, a step that reserves nothing raises no charge.
LEMMA ChargeKept ==
  ASSUME TypeOK, TypeOK', OriginInPast, Kept, now <= now',
         NEW s \in Scopes, NEW r \in Resources, ~Incident(s)'
  PROVE  Charge(s, r)' <= Charge(s, r) /\ Charge(s, r)' \in Nat /\ Charge(s, r) \in Nat
<1>1. /\ ~Incident(s)
      /\ \A x \in Actions : Holds(x, s)' <=> Holds(x, s)
      /\ \A x \in Actions : Holds(x, s) => Amount(x)'[r] <= Amount(x)[r]
  BY KeptHolds
<1> DEFINE k == Kind(s)
           p == PeriodAt(k, now)
           q == PeriodAt(k, now')
           X == Counted(s, p)
           Y == Counted(s, p)'
           total == Total(Y, [y \in Y |-> Amount(y)'[r]])
<1>2. k \in Kinds /\ p \in Int /\ q \in Int /\ p <= q
  BY ScopeKind, PeriodMonotone, PeriodType DEF TypeOK, Time
<1>3. Y \subseteq X
  <2> SUFFICES ASSUME NEW x \in Actions, Holds(x, s)', Settled(x)' => action'[x].origin[k] = q
               PROVE  Settled(x) => action[x].origin[k] = p
    BY <1>1 DEF Counted, Kind
  <2>1. Exists(x) /\ action'[x].origin = action[x].origin /\ (Settled(x) => Settled(x)')
    BY <1>1 DEF Kept, Holds
  <2>2. action[x] \in ActionRow
    BY <2>1 DEF TypeOK, Exists
  <2>3. action[x].origin[k] \in Int /\ action[x].origin[k] <= p
    BY <1>2, <2>1, <2>2 DEF OriginInPast, Made, ActionRow
  <2> QED BY <1>2, <2>1, <2>3
<1>4. X \in SUBSET Made /\ Y \in SUBSET Made'
  BY CountedMade DEF Counted, Made, Holds
<1>5. \A y \in Y : Amount(y)'[r] <= Amount(y)[r]
  BY <1>1, <1>3 DEF Counted
<1>6. Charge(s, r) = Due(X, r)
  BY DEF Charge
<1>7. Charge(s, r)' = total
  BY DEF Charge, Due, Kind, PeriodAt
<1> HIDE DEF X, Y
<1>8. total <= Due(X, r) /\ total \in Nat /\ Due(X, r) \in Nat
  BY <1>3, <1>4, <1>5, DueShrinks
<1> QED BY <1>6, <1>7, <1>8

LEMMA KeptStep ==
  ASSUME TypeOK, TypeOK', SpendInv, Kept, now <= now'
  PROVE  SpendInv'
<1>1. WithinPeriod'
  <2> SUFFICES ASSUME NEW s \in Scopes, NEW p \in Int, NEW r \in Resources, ~Incident(s)'
               PROVE  (Due(AdmittedIn(s, p), r))' <= Ceiling[Kind(s)][r]
    BY DEF WithinPeriod
  <2>1. /\ ~Incident(s)
        /\ \A x \in Actions : Holds(x, s)' <=> Holds(x, s)
        /\ \A x \in Actions : Holds(x, s) => Amount(x)'[r] <= Amount(x)[r]
    BY KeptHolds
  <2> DEFINE X == AdmittedIn(s, p)
             total == Total(X, [y \in X |-> Amount(y)'[r]])
  <2>2. AdmittedIn(s, p)' = X
    BY <2>1 DEF AdmittedIn, Kept, Holds
  <2>3. X \in SUBSET Made /\ X \in SUBSET Made' /\ \A y \in X : Amount(y)'[r] <= Amount(y)[r]
    BY <2>1 DEF AdmittedIn, Made, Holds
  <2>4. Due(X, r) <= Ceiling[Kind(s)][r]
    BY <2>1 DEF SpendInv, WithinPeriod
  <2>5. (Due(AdmittedIn(s, p), r))' = total
    BY <2>2 DEF Due
  <2> HIDE DEF X
  <2>6. total <= Due(X, r) /\ total \in Nat /\ Due(X, r) \in Nat
    BY <2>3, DueShrinks
  <2> HIDE DEF total
  <2>7. Ceiling[Kind(s)][r] \in Nat
    BY CeilingType
  <2> QED BY <2>4, <2>5, <2>6, <2>7
<1>2. \A k \in Kinds : PeriodAt(k, now) <= PeriodAt(k, now') /\ PeriodAt(k, now) \in Int /\ PeriodAt(k, now') \in Int
  BY PeriodMonotone, PeriodType DEF TypeOK, Time
<1>3. OriginInPast'
  <2> SUFFICES ASSUME NEW x \in Made', NEW k \in Kinds
               PROVE  action'[x].origin[k] <= PeriodAt(k, now')
    BY DEF OriginInPast, PeriodAt
  <2>1. x \in Made /\ action'[x].origin = action[x].origin
    BY DEF Kept, Made
  <2>2. action[x] \in ActionRow
    BY <2>1 DEF TypeOK, Made, Exists
  <2>3. action[x].origin[k] \in Int /\ action[x].origin[k] <= PeriodAt(k, now)
    BY <2>1, <2>2 DEF SpendInv, OriginInPast, ActionRow
  <2> QED BY <1>2, <2>1, <2>3
<1>4. OpenWithinCeiling'
  <2> SUFFICES ASSUME NEW s \in Scopes, NEW r \in Resources, ~Incident(s)'
               PROVE  Charge(s, r)' <= Ceiling[Kind(s)][r]
    BY DEF OpenWithinCeiling
  <2>1. Charge(s, r)' <= Charge(s, r) /\ Charge(s, r)' \in Nat /\ Charge(s, r) \in Nat
    BY ChargeKept DEF SpendInv
  <2>2. Charge(s, r) <= Ceiling[Kind(s)][r] /\ Ceiling[Kind(s)][r] \in Nat
    BY KeptHolds, CeilingType DEF SpendInv, OpenWithinCeiling
  <2> QED BY <2>1, <2>2
<1> QED BY <1>1, <1>3, <1>4 DEF SpendInv

LEMMA DueSubset ==
  ASSUME TypeOK, NEW r \in Resources, NEW X \in SUBSET Made, NEW Y \in SUBSET X
  PROVE  Due(Y, r) <= Due(X, r)
<1>1. Owed(X, r) \in [X -> Nat] /\ Owed(Y, r) \in [Y -> Nat] /\ IsFiniteSet(X)
  BY OwedType
<1>2. \A y \in Y : Owed(Y, r)[y] <= Owed(X, r)[y]
  BY <1>1 DEF Owed
<1>3. Total(Y, Owed(Y, r)) <= Total(X, Owed(X, r))
  BY <1>1, <1>2, TotalMonotone
<1> QED BY <1>3 DEF Due, Owed

\* Adding the reservation of an action that was not there.
LEMMA DueGrows ==
  ASSUME TypeOK, TypeOK', NEW r \in Resources, NEW X \in SUBSET Made,
         NEW z \in Actions, ~Exists(z), Exists(z)', ~Settled(z)',
         \A x \in Actions \ {z} : action'[x] = action[x]
  PROVE  Total(X \cup {z}, [y \in X \cup {z} |-> Amount(y)'[r]]) = Due(X, r) + Upper[z][r]
<1> DEFINE sum == [y \in X \cup {z} |-> Amount(y)'[r]]
<1>1. z \notin X /\ X \in SUBSET Actions
  BY DEF Made
<1>2. \A x \in X : Amount(x)'[r] = Amount(x)[r]
  BY <1>1 DEF Amount, Settled
<1>3. Amount(z)'[r] = Upper[z][r] /\ Upper[z][r] \in Nat
  BY LimitAssumption DEF Amount, Amounts
<1>4. Owed(X, r) \in [X -> Nat] /\ IsFiniteSet(X)
  BY OwedType
<1>5. sum \in [X \cup {z} -> Nat] /\ (\A x \in X : sum[x] = Owed(X, r)[x]) /\ sum[z] = Upper[z][r]
  <2>1. \A y \in X \cup {z} : Amount(y)'[r] \in Nat
    BY <1>2, <1>3, <1>4 DEF Owed
  <2>2. sum \in [X \cup {z} -> Nat]
    BY <2>1
  <2> QED BY <1>2, <1>3, <2>2 DEF Owed
<1> HIDE DEF sum
<1>6. Total(X \cup {z}, sum) = Total(X, Owed(X, r)) + sum[z]
  BY <1>1, <1>4, <1>5, TotalAdd
<1> QED BY <1>5, <1>6 DEF sum, Owed, Due

\* A reservation is charged to the period it is admitted in, after the
\* limits were checked there.
LEMMA ReserveStep ==
  ASSUME TypeOK, TypeOK', SpendInv,
         NEW t \in Attempts, NEW z \in Actions, NEW state \in States, Reserve(t, z, state)
  PROVE  SpendInv'
<1>1. /\ ~Exists(z) /\ UNCHANGED now
      /\ \A x \in Actions \ {z} : action'[x] = action[x]
      /\ action'[z].attempt = t /\ action'[z].receipt = NONE /\ action'[z].incident = FALSE
      /\ action'[z].origin = [k \in Kinds |-> PeriodAt(k, now)]
  BY DEF Reserve, TypeOK
<1>2. Exists(z)' /\ ~Settled(z)'
  BY <1>1, ReserveType, RowIsNotNone DEF Exists, Settled
<1>3. \A s \in Scopes : Incident(s)' <=> Incident(s)
  BY <1>1 DEF Incident, Holds, Exists
<1>4. \A s \in Scopes, r \in Resources : s \in ScopesOf(t) =>
        Charge(s, r) + Upper[z][r] <= Ceiling[Kind(s)][r]
  <2> SUFFICES ASSUME NEW s \in Scopes, NEW r \in Resources, s \in ScopesOf(t)
               PROVE  Charge(s, r) + Upper[z][r] <= Ceiling[Kind(s)][r]
    OBVIOUS
  <2>1. Upper[z][r] + Charge(s, r) <= Limit[t][Kind(s)][r] /\ Limit[t][Kind(s)][r] <= Ceiling[Kind(s)][r]
    BY ScopeKind DEF Reserve, Capacity, WithinLimit, Bound
  <2>2. Upper[z][r] \in Nat /\ Limit[t][Kind(s)][r] \in Nat /\ Ceiling[Kind(s)][r] \in Nat
    BY LimitAssumption, ScopeKind, CeilingType DEF Amounts
  <2>3. Charge(s, r) \in Nat
    BY CountedMade, OwedType DEF Charge
  <2> QED BY <2>1, <2>2, <2>3
<1>5. \A s \in Scopes : \A p : AdmittedIn(s, p)' =
        IF s \in ScopesOf(t) /\ p = PeriodAt(Kind(s), now)
        THEN AdmittedIn(s, p) \cup {z} ELSE AdmittedIn(s, p)
  <2> SUFFICES ASSUME NEW s \in Scopes, NEW p, NEW x \in Actions
               PROVE  x \in AdmittedIn(s, p)' <=>
                        x \in AdmittedIn(s, p) \/ (x = z /\ s \in ScopesOf(t) /\ p = PeriodAt(Kind(s), now))
    BY DEF AdmittedIn
  <2>1. action'[z].origin[Kind(s)] = PeriodAt(Kind(s), now)
    BY <1>1, ScopeKind
  <2>2. CASE x = z
    BY <1>1, <1>2, <2>1, <2>2 DEF AdmittedIn, Holds
  <2>3. CASE x # z
    BY <1>1, <2>3 DEF AdmittedIn, Holds, Exists
  <2> QED BY <2>2, <2>3
<1>6. \A s \in Scopes : Counted(s, PeriodAt(Kind(s), now))' =
        IF s \in ScopesOf(t) THEN Counted(s, PeriodAt(Kind(s), now)) \cup {z}
        ELSE Counted(s, PeriodAt(Kind(s), now))
  <2> SUFFICES ASSUME NEW s \in Scopes, NEW x \in Actions
               PROVE  x \in Counted(s, PeriodAt(Kind(s), now))' <=>
                        x \in Counted(s, PeriodAt(Kind(s), now)) \/ (x = z /\ s \in ScopesOf(t))
    BY DEF Counted
  <2>1. CASE x = z
    BY <1>1, <1>2, <2>1 DEF Counted, Holds
  <2>2. CASE x # z
    BY <1>1, <2>2 DEF Counted, Holds, Exists, Settled, PeriodAt
  <2> QED BY <2>1, <2>2
<1>7. ASSUME NEW X \in SUBSET Made, NEW r \in Resources
      PROVE  /\ Total(X, [y \in X |-> Amount(y)'[r]]) <= Due(X, r)
             /\ Total(X, [y \in X |-> Amount(y)'[r]]) \in Nat /\ Due(X, r) \in Nat
  <2>1. X \in SUBSET Made' /\ \A y \in X : Amount(y)'[r] = Amount(y)[r] /\ Amount(y)[r] \in Nat
    BY <1>1, AmountType DEF AmountsTyped, Made, Exists, Amount, Settled
  <2> QED BY <2>1, DueShrinks
<1>8. OpenWithinCeiling'
  <2> SUFFICES ASSUME NEW s \in Scopes, NEW r \in Resources, ~Incident(s)'
               PROVE  Charge(s, r)' <= Ceiling[Kind(s)][r]
    BY DEF OpenWithinCeiling
  <2> DEFINE X == Counted(s, PeriodAt(Kind(s), now))
             Y == X'
             total == Total(Y, [y \in Y |-> Amount(y)'[r]])
  <2>1. Charge(s, r)' = total /\ Charge(s, r) = Due(X, r)
    BY DEF Charge, Due
  <2>2. X \in SUBSET Made /\ Charge(s, r) <= Ceiling[Kind(s)][r]
    BY <1>3, CountedMade DEF SpendInv, OpenWithinCeiling
  <2>3. CASE s \in ScopesOf(t)
    <3>1. Y = X \cup {z}
      BY <1>6, <2>3
    <3> HIDE DEF X, Y
    <3>2. total = Due(X, r) + Upper[z][r]
      BY <1>1, <1>2, <2>2, <3>1, DueGrows
    <3> QED BY <1>4, <2>1, <2>3, <3>2
  <2>4. CASE s \notin ScopesOf(t)
    <3>1. Y = X
      BY <1>6, <2>4
    <3> HIDE DEF X, Y
    <3>2. total <= Due(X, r) /\ total \in Nat /\ Due(X, r) \in Nat
      BY <1>7, <2>2, <3>1
    <3> HIDE DEF total
    <3> QED BY <2>1, <2>2, <3>2, CeilingType
  <2> QED BY <2>3, <2>4
<1>10. WithinPeriod'
  <2> SUFFICES ASSUME NEW s \in Scopes, NEW p \in Int, NEW r \in Resources, ~Incident(s)'
               PROVE  (Due(AdmittedIn(s, p), r))' <= Ceiling[Kind(s)][r]
    BY DEF WithinPeriod
  <2> DEFINE X == AdmittedIn(s, p)
             Y == X'
             total == Total(Y, [y \in Y |-> Amount(y)'[r]])
  <2>1. (Due(AdmittedIn(s, p), r))' = total
    BY DEF Due
  <2>2. X \in SUBSET Made /\ Due(X, r) <= Ceiling[Kind(s)][r]
    BY <1>3, CountedMade DEF SpendInv, WithinPeriod
  <2>3. CASE s \in ScopesOf(t) /\ p = PeriodAt(Kind(s), now)
    <3>1. Y = X \cup {z}
      BY <1>5, <2>3
    <3>2. X \subseteq Counted(s, p) /\ Counted(s, p) \in SUBSET Made /\ Charge(s, r) = Due(Counted(s, p), r)
      BY <2>3, CountedMade DEF Charge
    <3> HIDE DEF X, Y
    <3>3. total = Due(X, r) + Upper[z][r]
      BY <1>1, <1>2, <2>2, <3>1, DueGrows
    <3>4. Due(X, r) <= Charge(s, r)
      BY <3>2, DueSubset
    <3>5. Due(X, r) \in Nat /\ Charge(s, r) \in Nat
      BY <2>2, <3>2, OwedType
    <3>6. Upper[z][r] \in Nat /\ Ceiling[Kind(s)][r] \in Nat
      BY LimitAssumption, CeilingType DEF Amounts
    <3>7. Charge(s, r) + Upper[z][r] <= Ceiling[Kind(s)][r]
      BY <1>4, <2>3
    <3> HIDE DEF total
    <3> QED BY <2>1, <3>3, <3>4, <3>5, <3>6, <3>7
  <2>4. CASE ~(s \in ScopesOf(t) /\ p = PeriodAt(Kind(s), now))
    <3>1. Y = X
      BY <1>5, <2>4
    <3> HIDE DEF X, Y
    <3>2. total <= Due(X, r) /\ total \in Nat /\ Due(X, r) \in Nat
      BY <1>7, <2>2, <3>1
    <3> HIDE DEF total
    <3> QED BY <2>1, <2>2, <3>2, CeilingType
  <2> QED BY <2>3, <2>4
<1>9. OriginInPast'
  <2> SUFFICES ASSUME NEW x \in Made', NEW k \in Kinds
               PROVE  action'[x].origin[k] <= PeriodAt(k, now')
    BY DEF OriginInPast, PeriodAt
  <2>1. PeriodAt(k, now) \in Int
    BY PeriodType DEF TypeOK, Time
  <2> QED BY <1>1, <2>1 DEF SpendInv, OriginInPast, Made, Exists
<1> QED BY <1>8, <1>9, <1>10 DEF SpendInv
-----------------------------------------------------------------------------
(* Every step either reserves or keeps *)

Reserves == \E t \in Attempts, x \in Actions, state \in States : Reserve(t, x, state)

LEMMA StepKinds == TypeOK /\ [Next]_vars => Reserves \/ (Kept /\ now <= now' /\ (receipts' = receipts =>
                     \A x \in Actions : Exists(x) => Amount(x)' = Amount(x) /\ (Settled(x)' <=> Settled(x))))
<1> SUFFICES ASSUME TypeOK, [Next]_vars, ~Reserves
             PROVE  /\ Kept /\ now <= now'
                    /\ receipts' = receipts =>
                         \A x \in Actions : Exists(x) => Amount(x)' = Amount(x) /\ (Settled(x)' <=> Settled(x))
  OBVIOUS
<1> DEFINE Goal == /\ Kept /\ now <= now'
                   /\ receipts' = receipts =>
                        \A x \in Actions : Exists(x) => Amount(x)' = Amount(x) /\ (Settled(x)' <=> Settled(x))
<1>0. now \in Nat /\ \A x \in Actions : Exists(x) => \A r \in Resources : Amount(x)[r] \in Nat
  BY AmountType, TimeAssumption DEF TypeOK, Time, AmountsTyped, Made
<1>1. ASSUME UNCHANGED action, now <= now' PROVE Goal
  BY <1>0, <1>1 DEF Kept, Exists, Settled, Amount
\* The steps that write the row of one action, and do not settle it.
<1>2. ASSUME NEW x \in Actions, Exists(x), UNCHANGED now, action'[x] \in ActionRow,
             action'[x].attempt = action[x].attempt, action'[x].origin = action[x].origin,
             action[x].incident => action'[x].incident,
             action'[x].receipt = action[x].receipt,
             \A y \in Actions \ {x} : action'[y] = action[y]
      PROVE  Goal
  <2>1. \A y \in Actions : /\ Exists(y)' <=> Exists(y)
                           /\ Settled(y)' <=> Settled(y)
                           /\ Amount(y)' = Amount(y)
    BY <1>2, RowIsNotNone DEF Exists, Settled, Amount
  <2>2. Kept
    BY <1>0, <1>2, <2>1 DEF Kept
  <2>3. now <= now'
    BY <1>0, <1>2
  <2> QED BY <2>1, <2>2, <2>3
<1>3. ASSUME UNCHANGED vars PROVE Goal
  BY <1>0, <1>1, <1>3 DEF vars
<1>4. ASSUME Tick PROVE Goal
  BY <1>0, <1>1, <1>4 DEF Tick
<1>5. ASSUME NEW t \in Attempts, RegisterAttempt(t) \/ CloseAttempt(t) PROVE Goal
  BY <1>0, <1>1, <1>5 DEF RegisterAttempt, CloseAttempt
<1>6. ASSUME NEW t \in Attempts, NEW x \in Actions, ReserveAndBegin(t, x) \/ PrepareAction(t, x) PROVE Goal
  BY <1>6 DEF Reserves, ReserveAndBegin, PrepareAction, States
<1>7. ASSUME NEW x \in Actions, NEW w \in Workers, ClaimPrepared(x, w) \/ ReclaimPrepared(x, w) PROVE Goal
  BY <1>0, <1>1, <1>7 DEF ClaimPrepared, ReclaimPrepared, TakeLease
<1>8. ASSUME NEW c \in claims, BeginPrepared(c) PROVE Goal
  <2>1. c.action \in Actions /\ Exists(c.action)
    BY <1>8 DEF TypeOK, Claim, BeginPrepared, BeginWith, Owns, Prepared
  <2>2. action[c.action] \in ActionRow
    BY <2>1 DEF TypeOK, Exists
  <2>3. action' = [action EXCEPT ![c.action].state = "sending"] /\ UNCHANGED now
    BY <1>8 DEF BeginPrepared, BeginWith, Owns
  <2>4. /\ action'[c.action] \in ActionRow
        /\ action'[c.action].attempt = action[c.action].attempt
        /\ action'[c.action].origin = action[c.action].origin
        /\ action'[c.action].incident = action[c.action].incident
        /\ action'[c.action].receipt = action[c.action].receipt
        /\ \A y \in Actions \ {c.action} : action'[y] = action[y]
    BY <2>1, <2>2, <2>3 DEF TypeOK, ActionRow, States
  <2> QED BY <1>2, <2>1, <2>3, <2>4
<1>9. ASSUME NEW f \in frames, Invoke(f) \/ LoseFrame(f) PROVE Goal
  BY <1>0, <1>1, <1>9 DEF Invoke, LoseFrame
<1>10. ASSUME NEW f \in frames, NEW o \in Outcomes, RecordOutcome(f, o) PROVE Goal
  <2>1. f.action \in Actions /\ Exists(f.action)
    BY <1>10 DEF TypeOK, Frame, RecordOutcome, Started
  <2>2. action[f.action] \in ActionRow
    BY <2>1 DEF TypeOK, Exists
  <2>3. /\ action'[f.action] \in ActionRow
        /\ action'[f.action].attempt = action[f.action].attempt
        /\ action'[f.action].origin = action[f.action].origin
        /\ action[f.action].incident => action'[f.action].incident
        /\ action'[f.action].receipt = action[f.action].receipt
        /\ \A y \in Actions \ {f.action} : action'[y] = action[y]
    BY <1>10, <2>1, <2>2 DEF TypeOK, RecordOutcome, ActionRow, States
  <2>4. UNCHANGED now
    BY <1>10 DEF RecordOutcome
  <2> QED BY <1>2, <2>1, <2>3, <2>4
<1>11. ASSUME NEW f \in FinalReceipts, SettleFinal(f) PROVE Goal
  <2> DEFINE x == f.action
  <2>1. x \in Actions /\ Exists(x) /\ ~Settled(x) /\ UNCHANGED now /\ f # NONE /\ f.actual \in Amounts
    BY <1>11, MessageAssumption DEF SettleFinal, SettleWith, Started
  <2>2. action[x] \in ActionRow
    BY <2>1 DEF TypeOK, Exists
  <2>3. /\ action'[x] \in ActionRow
        /\ action'[x].attempt = action[x].attempt
        /\ action'[x].origin = action[x].origin
        /\ action[x].incident \/ Overruns(f) => action'[x].incident
        /\ action'[x].receipt = f
        /\ \A y \in Actions \ {x} : action'[y] = action[y]
    BY <1>11, <2>1, <2>2 DEF TypeOK, SettleFinal, SettleWith, ActionRow
  <2>4. Exists(x)' /\ Settled(x)' /\ Amount(x)' = f.actual /\ Amount(x) = Upper[x]
    BY <2>1, <2>3, RowIsNotNone DEF Exists, Settled, Amount
  <2>5. action'[x].incident \/ \A r \in Resources : Amount(x)'[r] <= Amount(x)[r]
    <3>1. Upper[x] \in Amounts
      BY <2>1, LimitAssumption
    <3>2. Overruns(f) \/ \A r \in Resources : f.actual[r] <= Upper[x][r]
      BY <2>1, <3>1 DEF Overruns, Amounts
    <3> QED BY <2>3, <2>4, <3>2
  <2> HIDE DEF x
  <2>6. \A y \in Actions \ {x} : (Exists(y)' <=> Exists(y)) /\ (Settled(y)' <=> Settled(y)) /\ Amount(y)' = Amount(y)
    BY <2>3 DEF Exists, Settled, Amount
  <2>7. Kept
    BY <1>0, <2>1, <2>3, <2>4, <2>5, <2>6 DEF Kept
  <2>8. f \notin receipts /\ f \in receipts'
    BY <1>11 DEF SettleFinal, SettleWith, Recorded
  <2> QED BY <1>0, <2>1, <2>7, <2>8
<1>12. ASSUME NEW f \in FinalReceipts, QuarantineReceipt(f) PROVE Goal
  <2>1. UNCHANGED action /\ UNCHANGED now
    BY <1>12 DEF Quarantine, QuarantineReceipt,
         QuarantineUnknown, QuarantineEarly, QuarantineMismatch, QuarantineReused, QuarantineSecond
  <2>2. now <= now'
    BY <1>0, <2>1
  <2> QED BY <1>1, <2>1, <2>2
<1> HIDE DEF Goal
<1>13. Goal
  BY <1>3, <1>4, <1>5, <1>6, <1>7, <1>8, <1>9, <1>10, <1>11, <1>12 DEF Next
<1> QED BY <1>13 DEF Goal

LEMMA SpendStep == TypeOK /\ TypeOK' /\ SpendInv /\ [Next]_vars => SpendInv'
BY StepKinds, KeptStep, ReserveStep DEF Reserves

LEMMA SpendInit == Init => SpendInv
<1> SUFFICES ASSUME Init PROVE SpendInv
  OBVIOUS
<1>1. \A x \in Actions : ~Exists(x)
  BY DEF Init, Exists
<1>2. \A r \in Resources : Total({}, [x \in {} |-> Amount(x)[r]]) = 0
  BY FS_EmptySet DEF Total, Units
<1>3. \A s, p : AdmittedIn(s, p) = {} /\ Counted(s, p) = {}
  BY <1>1 DEF AdmittedIn, Counted, Holds
<1>4. \A s, p : \A r \in Resources : Due(AdmittedIn(s, p), r) = 0 /\ Due(Counted(s, p), r) = 0
  BY <1>2, <1>3 DEF Due
<1>5. \A s \in Scopes, r \in Resources : 0 <= Ceiling[Kind(s)][r]
  BY CeilingType
<1> QED BY <1>1, <1>4, <1>5 DEF SpendInv, WithinPeriod, OpenWithinCeiling, OriginInPast, Made, Charge

LEMMA SpendMeaning == TypeOK /\ SpendInv => PeriodWithinCeiling /\ OpenWithinCeiling
<1> SUFFICES ASSUME TypeOK, SpendInv, NEW s \in Scopes, ~Incident(s), NEW x \in Actions, Exists(x), NEW r \in Resources
             PROVE  Due(AdmittedIn(s, action[x].origin[Kind(s)]), r) <= Ceiling[Kind(s)][r]
  BY DEF SpendInv, PeriodWithinCeiling
<1>1. action[x] \in ActionRow
  BY DEF TypeOK, Exists
<1>2. action[x].origin[Kind(s)] \in Int
  BY <1>1, ScopeKind DEF ActionRow
<1> QED BY <1>2 DEF SpendInv, WithinPeriod

\* Whatever the limits, periods, actions and receipts: unless usage broke a
\* bound in a scope, what was admitted in a period of it, and what it owes at
\* any instant, stay within the operator's ceiling.
THEOREM SpendingSafety == Spec => [](PeriodWithinCeiling /\ OpenWithinCeiling)
<1>1. Init => SpendInv
  BY SpendInit
<1>2. TypeOK /\ TypeOK' /\ SpendInv /\ [Next]_vars => SpendInv'
  BY SpendStep
<1>3. TypeOK /\ SpendInv => PeriodWithinCeiling /\ OpenWithinCeiling
  BY SpendMeaning
<1> QED BY <1>1, <1>2, <1>3, Typing, PTL DEF Spec
-----------------------------------------------------------------------------
(* Action properties *)

\* A charge over more actions with the same amounts is no smaller.
LEMMA DueKeeps ==
  ASSUME TypeOK, TypeOK', NEW r \in Resources,
         NEW X \in SUBSET Made, NEW Y \in SUBSET Made', X \subseteq Y,
         \A x \in X : Amount(x)' = Amount(x)
  PROVE  Due(X, r) <= Total(Y, [y \in Y |-> Amount(y)'[r]])
<1> DEFINE high == [y \in Y |-> Amount(y)'[r]]
<1>1. high \in [Y -> Nat] /\ IsFiniteSet(Y)
  <2>1. AmountsTyped'
    BY AmountType, PTL
  <2> QED BY <2>1, MadeFinite DEF AmountsTyped, Made
<1>2. Owed(X, r) \in [X -> Nat]
  BY OwedType
<1>3. \A x \in X : Owed(X, r)[x] <= high[x]
  BY <1>1, <1>2 DEF Owed
<1> HIDE DEF high
<1>4. Total(X, Owed(X, r)) <= Total(Y, high)
  BY <1>1, <1>2, <1>3, TotalMonotone
<1> QED BY <1>4 DEF high, Due, Owed

\* With no receipt committed, the actions already counted in a period stay
\* counted with the same amounts.
LEMMA ChargeStep ==
  ASSUME TypeOK, TypeOK', [Next]_vars, UNCHANGED receipts,
         NEW s \in Scopes, NEW r \in Resources,
         PeriodAt(Kind(s), now') = PeriodAt(Kind(s), now)
  PROVE  ~(Charge(s, r)' < Charge(s, r))
<1> DEFINE p == PeriodAt(Kind(s), now)
           X == Counted(s, p)
           Y == X'
           total == Total(Y, [y \in Y |-> Amount(y)'[r]])
<1>1. \A x \in Actions : Exists(x) =>
        /\ Exists(x)' /\ action'[x].attempt = action[x].attempt /\ action'[x].origin = action[x].origin
        /\ (Settled(x)' <=> Settled(x)) /\ Amount(x)' = Amount(x)
  <2>1. CASE Reserves
    <3>1. PICK t \in Attempts, z \in Actions, state \in States : Reserve(t, z, state)
      BY <2>1 DEF Reserves
    <3>2. ~Exists(z) /\ \A x \in Actions \ {z} : action'[x] = action[x]
      BY <3>1 DEF Reserve, TypeOK
    <3> QED BY <3>2 DEF Exists, Settled, Amount
  <2>2. CASE ~Reserves
    <3>1. Kept /\ \A x \in Actions : Exists(x) => Amount(x)' = Amount(x) /\ (Settled(x)' <=> Settled(x))
      BY <2>2, StepKinds
    <3> QED BY <3>1 DEF Kept
  <2> QED BY <2>1, <2>2
<1>2. X \subseteq Y /\ X \in SUBSET Made /\ Y \in SUBSET Made'
  BY <1>1 DEF Counted, Holds, Made
<1>3. \A x \in X : Amount(x)' = Amount(x)
  BY <1>1 DEF Counted, Holds
<1>4. Charge(s, r) = Due(X, r) /\ Charge(s, r)' = total
  BY DEF Charge, Due
<1> HIDE DEF X, Y
<1>5. Due(X, r) <= total
  BY <1>2, <1>3, DueKeeps
<1>6. Due(X, r) \in Nat
  BY <1>2, OwedType
<1>7. total \in Nat
  <2>1. AmountsTyped'
    BY AmountType, PTL
  <2>2. Y \in SUBSET Actions /\ [y \in Y |-> Amount(y)'[r]] \in [Y -> Nat]
    BY <1>2, <2>1 DEF AmountsTyped, Made
  <2> QED BY <2>2, MadeFinite, TotalType
<1> HIDE DEF total
<1> QED BY <1>4, <1>5, <1>6, <1>7

\* For any instance: unknown usage keeps its hold.
THEOREM ChargeFalls == Spec => ChargeFallsOnlyOnProof
<1>1. TypeOK /\ TypeOK' /\ [Next]_vars =>
        [\A s \in Scopes, r \in Resources :
           Charge(s, r)' < Charge(s, r) =>
             receipts' # receipts \/ PeriodAt(Kind(s), now') # PeriodAt(Kind(s), now)]_vars
  BY ChargeStep
<1> QED BY <1>1, Typing, PTL DEF Spec, ChargeFallsOnlyOnProof

\* For any instance: an incident is the end of new work in its scopes.
THEOREM IncidentStops == Spec => IncidentFreezes
<1>1. TypeOK /\ [Next]_vars =>
        [\A x \in Actions : (~Exists(x) /\ Exists(x)') \/ (~Started(x) /\ Started(x)') =>
           \A s \in Scopes : Holds(x, s)' => ~Incident(s)]_vars
  <2> SUFFICES ASSUME TypeOK, [Next]_vars, NEW x \in Actions, NEW s \in Scopes,
                      (~Exists(x) /\ Exists(x)') \/ (~Started(x) /\ Started(x)'), Holds(x, s)'
               PROVE  ~Incident(s)
    OBVIOUS
  <2>1. ASSUME NEW t \in Attempts, NEW z \in Actions, NEW state \in States, Reserve(t, z, state)
        PROVE  ~Incident(s)
    <3>1. /\ \A y \in Actions \ {z} : action'[y] = action[y]
          /\ action'[z].attempt = t /\ Capacity(t, Upper[z])
      BY <2>1 DEF Reserve, TypeOK
    <3>2. x = z
      BY <3>1 DEF Exists, Started
    <3> QED BY <3>1, <3>2 DEF Holds, Capacity
  <2>2. ASSUME NEW c \in claims, BeginPrepared(c) PROVE ~Incident(s)
    <3>1. c.action \in Actions /\ Exists(c.action) /\ Capacity(action[c.action].attempt, Zero)
      BY <2>2 DEF TypeOK, Claim, BeginPrepared, BeginWith, Owns, Prepared, Authorized
    <3>2. action[c.action] \in ActionRow
      BY <3>1 DEF TypeOK, Exists
    <3>3. /\ \A y \in Actions \ {c.action} : action'[y] = action[y]
          /\ action'[c.action].attempt = action[c.action].attempt
      BY <2>2, <3>1, <3>2 DEF TypeOK, BeginPrepared, BeginWith, Owns, ActionRow
    <3>4. x = c.action
      BY <3>1, <3>3 DEF Exists, Started
    <3> QED BY <3>1, <3>3, <3>4 DEF Holds, Capacity
  <2>3. ASSUME NEW f \in frames, NEW o \in Outcomes, RecordOutcome(f, o) PROVE FALSE
    <3>1. f.action \in Actions /\ Started(f.action)
      BY <2>3 DEF TypeOK, Frame, RecordOutcome
    <3>2. \A y \in Actions \ {f.action} : action'[y] = action[y]
      BY <2>3, <3>1 DEF RecordOutcome, TypeOK
    <3> QED BY <3>1, <3>2 DEF Exists, Started
  <2>4. ASSUME NEW f \in FinalReceipts, SettleFinal(f) PROVE FALSE
    <3>1. f.action \in Actions /\ Started(f.action)
      BY <2>4, MessageAssumption DEF SettleFinal, SettleWith
    <3>2. \A y \in Actions \ {f.action} : action'[y] = action[y]
      BY <2>4, <3>1 DEF SettleFinal, SettleWith, TypeOK
    <3> QED BY <3>1, <3>2 DEF Exists, Started
  <2>5. action' # action
    BY DEF Exists, Started
  <2>6. ASSUME NEW t \in Attempts, RegisterAttempt(t) \/ CloseAttempt(t) PROVE FALSE
    BY <2>5, <2>6 DEF RegisterAttempt, CloseAttempt
  <2>7. ASSUME NEW t \in Attempts, NEW z \in Actions, ReserveAndBegin(t, z) \/ PrepareAction(t, z)
        PROVE  ~Incident(s)
    BY <2>1, <2>7 DEF ReserveAndBegin, PrepareAction, States
  <2>8. ASSUME NEW z \in Actions, NEW w \in Workers, ClaimPrepared(z, w) \/ ReclaimPrepared(z, w) PROVE FALSE
    BY <2>5, <2>8 DEF ClaimPrepared, ReclaimPrepared, TakeLease
  <2>9. ASSUME NEW f \in frames, Invoke(f) \/ LoseFrame(f) PROVE FALSE
    BY <2>5, <2>9 DEF Invoke, LoseFrame
  <2>10. ASSUME NEW f \in FinalReceipts, QuarantineReceipt(f) PROVE FALSE
    BY <2>5, <2>10 DEF Quarantine, QuarantineReceipt,
       QuarantineUnknown, QuarantineEarly, QuarantineMismatch, QuarantineReused, QuarantineSecond
  <2>11. ~Tick /\ ~UNCHANGED vars
    BY <2>5 DEF Tick, vars
  <2> QED BY <2>2, <2>3, <2>4, <2>6, <2>7, <2>8, <2>9, <2>10, <2>11 DEF Next
<1> QED BY <1>1, Typing, PTL DEF Spec, IncidentFreezes
-----------------------------------------------------------------------------
(* The ledger implements the spending cap *)

ChargesTyped == \A s \in Scopes, r \in Resources : Charge(s, r) \in Nat

LEMMA ChargeType == TypeOK => ChargesTyped
BY CountedMade, OwedType DEF Charge, ChargesTyped

\* A reservation raises the charges of its own scopes only, within their
\* ceilings, and none of these has an incident.
LEMMA ReserveAdmits ==
  ASSUME TypeOK, TypeOK', SpendInv,
         NEW t \in Attempts, NEW z \in Actions, NEW state \in States, Reserve(t, z, state)
  PROVE  /\ \A s \in Scopes : Incident(s)' <=> Incident(s)
         /\ \A s \in Scopes, r \in Resources :
              IF s \in ScopesOf(t) THEN ~Incident(s) /\ Charge(s, r)' <= Ceiling[Kind(s)][r]
              ELSE Charge(s, r)' <= Charge(s, r)
<1>1. /\ ~Exists(z) /\ UNCHANGED now
      /\ \A x \in Actions \ {z} : action'[x] = action[x]
      /\ action'[z].attempt = t /\ action'[z].incident = FALSE
  BY DEF Reserve, TypeOK
<1>2. \A s \in Scopes : Incident(s)' <=> Incident(s)
  BY <1>1 DEF Incident, Holds, Exists
<1>3. SpendInv'
  BY ReserveStep
<1>4. ASSUME NEW s \in Scopes, NEW r \in Resources, s \in ScopesOf(t)
      PROVE  ~Incident(s) /\ Charge(s, r)' <= Ceiling[Kind(s)][r]
  <2>1. ~Incident(s)
    BY <1>4 DEF Reserve, Capacity
  <2> QED BY <1>2, <1>3, <2>1 DEF SpendInv, OpenWithinCeiling
<1>5. ASSUME NEW s \in Scopes, NEW r \in Resources, s \notin ScopesOf(t)
      PROVE  Charge(s, r)' <= Charge(s, r)
  <2> DEFINE X == Counted(s, PeriodAt(Kind(s), now))
             Y == X'
             total == Total(Y, [y \in Y |-> Amount(y)'[r]])
  <2>1. Charge(s, r)' = total /\ Charge(s, r) = Due(X, r)
    BY DEF Charge, Due
  <2>2. Y = X
    <3> SUFFICES ASSUME NEW x \in Actions
                 PROVE  x \in Y <=> x \in X
      BY DEF Counted
    <3>1. CASE x = z
      BY <1>1, <1>5, <3>1 DEF Counted, Holds
    <3>2. CASE x # z
      BY <1>1, <3>2 DEF Counted, Holds, Exists, Settled, PeriodAt
    <3> QED BY <3>1, <3>2
  <2>3. X \in SUBSET Made
    BY CountedMade
  <2>4. X \in SUBSET Made' /\ \A y \in X : Amount(y)'[r] = Amount(y)[r] /\ Amount(y)[r] \in Nat
    BY <1>1, <2>3, AmountType DEF AmountsTyped, Made, Exists, Amount, Settled
  <2> HIDE DEF X, Y
  <2>5. total <= Due(X, r)
    BY <2>2, <2>3, <2>4, DueShrinks
  <2> QED BY <2>1, <2>5
<1> QED BY <1>2, <1>4, <1>5

\* The charges and the frozen scopes as the cap sees them.
Charged == [s \in Scopes |-> [r \in Resources |-> Charge(s, r)]]
Frozen == {s \in Scopes : Incident(s)}

LEMMA CapInit == Init => Cap!Init
<1> SUFFICES ASSUME Init PROVE Cap!Init
  OBVIOUS
<1>1. \A x \in Actions : ~Exists(x)
  BY DEF Init, Exists
<1>2. \A r \in Resources : Total({}, [x \in {} |-> Amount(x)[r]]) = 0
  BY FS_EmptySet DEF Total, Units
<1>3. \A s, p : Counted(s, p) = {}
  BY <1>1 DEF Counted, Holds
<1>4. \A s \in Scopes, r \in Resources : Charge(s, r) = 0
  BY <1>2, <1>3 DEF Charge, Due
<1>5. \A s \in Scopes : ~Incident(s)
  BY <1>1 DEF Incident, Holds
<1> QED BY <1>4, <1>5 DEF Cap!Init

\* A reservation is an Admit of the cap; every other step at most lowers the
\* charge of a scope or freezes it.
LEMMA CapStep == TypeOK /\ TypeOK' /\ SpendInv /\ [Next]_vars => [Cap!Next]_Cap!vars
<1> SUFFICES ASSUME TypeOK, TypeOK', SpendInv, [Next]_vars PROVE Cap!Next
  OBVIOUS
<1>1. Charged' \in [Scopes -> [Resources -> Nat]]
  <2>1. \A s \in Scopes, r \in Resources : Charge(s, r)' \in Nat
    <3>1. ChargesTyped'
      BY ChargeType, PTL
    <3> QED BY <3>1 DEF ChargesTyped
  <2> QED BY <2>1 DEF Charged
<1>2. \A s \in Scopes, r \in Resources : Charged[s][r] = Charge(s, r) /\ Charged'[s][r] = Charge(s, r)'
  BY DEF Charged
<1>3. CASE Reserves
  <2>1. PICK t \in Attempts, z \in Actions, state \in States : Reserve(t, z, state)
    BY <1>3 DEF Reserves
  <2>2. /\ \A s \in Scopes : Incident(s)' <=> Incident(s)
        /\ \A s \in Scopes, r \in Resources :
             IF s \in ScopesOf(t) THEN ~Incident(s) /\ Charge(s, r)' <= Ceiling[Kind(s)][r]
             ELSE Charge(s, r)' <= Charge(s, r)
    BY <2>1, ReserveAdmits
  <2>3. Frozen' = Frozen
    BY <2>2 DEF Frozen
  <2>4. \A s \in Scopes : \/ \A r \in Resources : Charged'[s][r] <= Charged[s][r]
                          \/ s \notin Frozen /\ \A r \in Resources : Charged'[s][r] <= [u \in Scopes |-> Ceiling[Kind(u)]][s][r]
    BY <1>2, <2>2 DEF Frozen
  <2> QED BY <1>1, <2>3, <2>4 DEF Cap!Next, Cap!Admit, Cap!NotAbove, Cap!WithinCap, Charged, Frozen
<1>4. CASE ~Reserves
  <2>1. Kept /\ now <= now'
    BY <1>4, StepKinds
  <2>2. Frozen \subseteq Frozen'
    BY <2>1 DEF Kept, Frozen, Incident, Holds
  <2>3. \A s \in Scopes : (\A r \in Resources : Charged'[s][r] <= Charged[s][r]) \/ s \in Frozen'
    <3> SUFFICES ASSUME NEW s \in Scopes, ~Incident(s)', NEW r \in Resources
                 PROVE  Charged'[s][r] <= Charged[s][r]
      BY DEF Frozen
    <3> QED BY <1>2, <2>1, ChargeKept DEF SpendInv
  <2>4. Frozen' \subseteq Scopes
    BY DEF Frozen
  <2> QED BY <1>1, <2>2, <2>3, <2>4 DEF Cap!Next, Cap!Overrun, Cap!NotAbove, Charged, Frozen
<1> QED BY <1>3, <1>4

\* Every ledger, whatever its limits, periods, actions and receipts, behaves
\* as a spending cap: it admits only within the operator's ceilings and out of
\* frozen scopes, and otherwise lowers a charge or freezes what usage broke.
THEOREM LedgerIsCap == Spec => ImplementsSpendingCap
<1>1. Init => SpendInv /\ Cap!Init
  BY SpendInit, CapInit
<1>2. TypeOK /\ TypeOK' /\ SpendInv /\ [Next]_vars => SpendInv' /\ [Cap!Next]_Cap!vars
  BY SpendStep, CapStep
<1> QED BY <1>1, <1>2, Typing, PTL DEF Spec, ImplementsSpendingCap, Cap!Spec
===============================================================================
