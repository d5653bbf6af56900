--------------------------- MODULE MCBudgetLedger ---------------------------
(* Small instances of the ledger for TLC. *)
EXTENDS BudgetLedger, TLC

CONSTANTS t1, t2, c1, c2, a1, a2, a3

MCResources == {"MoneyMicro", "ActiveMS"}
Amt(money, ms) == [MoneyMicro |-> money, ActiveMS |-> ms]
EachKind(attempt_, change_, project_) ==
  "attempt" :> attempt_ @@ "change" :> change_ @@ "project" :> project_

MCChangeOf == [t \in Attempts |-> IF t = t1 THEN c1 ELSE c2]
MCUpper == [x \in Actions |-> IF x = a3 THEN Amt(1, 1) ELSE Amt(2, 1)]
MCCeiling == EachKind(Amt(4, 4), Amt(3, 4), Amt(3, 4))
\* t2's own policy gives it less of the project than the operator would.
MCLimit == [t \in Attempts |-> IF t = t1 THEN MCCeiling ELSE EachKind(Amt(4, 4), Amt(3, 4), Amt(2, 4))]
MCDeadline == [t \in Attempts |-> IF t = t1 THEN 2 ELSE 3]
LongDeadline == [t \in Attempts |-> 3]
MCFrom == [x \in Actions |-> IF x = a2 THEN 1 ELSE 0]
MCUntil == [x \in Actions |-> IF x = a3 THEN 2 ELSE 3]
MCAnchor == [k \in Kinds |-> 0]
MCDuration == EachKind(1, 2, 1)

MCOutcomes == {[received |-> TRUE, elapsed |-> 1], [received |-> FALSE, elapsed |-> 2]}

Receipt(id, x, matches, money) ==
  [id |-> id, action |-> x, matches |-> matches, actual |-> Amt(money, 1)]
\* One that frees capacity, one that breaks the bound, one of another route,
\* and one that reuses an identity.
MCReceipts == {Receipt("r1", a1, TRUE, 1), Receipt("r2", a1, TRUE, 3),
               Receipt("r1", a2, TRUE, 1), Receipt("r3", a2, FALSE, 0)}
\* One action is large enough to overrun, the other is reserved beside it.
MCOverrun == {Receipt("r2", a1, TRUE, 3)}
=============================================================================
