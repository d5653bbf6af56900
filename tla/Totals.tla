------------------------------- MODULE Totals -------------------------------
(***************************************************************************)
(* Sums over finite sets, as the number of <<element, unit>> pairs.  The   *)
(* sum folds of the community modules compute the same number; this form   *)
(* has proofs (BudgetLedgerProofs) that need no induction over the set.    *)
(***************************************************************************)
EXTENDS Integers, FiniteSets

Units(X, amt) == UNION {{x} \X (1..amt[x]) : x \in X}

\* The sum of amt[x] for x in X.
Total(X, amt) == Cardinality(Units(X, amt))
=============================================================================
