----------------------------- MODULE SpendingCap -----------------------------
(***************************************************************************)
(* What the budget ledger promises its operator, with no attempt, action,  *)
(* lease or receipt in sight: every scope has a charge; new work is only   *)
(* admitted within the cap of every scope it touches; a charge otherwise   *)
(* only falls; and the one way past a cap, usage that was larger than      *)
(* promised, freezes the scopes it hit for good.                           *)
(***************************************************************************)
EXTENDS Naturals

CONSTANTS Scopes, Resources, Cap

VARIABLES charge,  \* charge[s][r]: what scope s owes of resource r
          frozen   \* the scopes that admit nothing any more

vars == <<charge, frozen>>

Init == charge = [s \in Scopes |-> [r \in Resources |-> 0]] /\ frozen = {}

NotAbove(s) == \A r \in Resources : charge'[s][r] <= charge[s][r]
WithinCap(s) == \A r \in Resources : charge'[s][r] <= Cap[s][r]

\* Work is admitted in some scopes, none of them frozen, within their caps.
Admit == /\ \A s \in Scopes : NotAbove(s) \/ (s \notin frozen /\ WithinCap(s))
         /\ UNCHANGED frozen

\* Usage is settled, or a budget period ends.
Lower == (\A s \in Scopes : NotAbove(s)) /\ UNCHANGED frozen

\* A bound was broken: the charge is what it really was, its scopes freeze.
Overrun == /\ frozen \subseteq frozen' /\ frozen' \subseteq Scopes
           /\ \A s \in Scopes : NotAbove(s) \/ s \in frozen'

Next == charge' \in [Scopes -> [Resources -> Nat]] /\ (Admit \/ Lower \/ Overrun)

Spec == Init /\ [][Next]_vars

\* A scope in good standing never owes more than its cap.
Solvent == \A s \in Scopes \ frozen : \A r \in Resources : charge[s][r] <= Cap[s][r]
=============================================================================
