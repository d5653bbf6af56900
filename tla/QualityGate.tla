----------------------------- MODULE QualityGate -----------------------------
(* The verdict a CI run gives on a change: every obligation of the policy must *)
(* be shown met, by the review or by a verified report of another CI job, and  *)
(* no accepted finding may break a gated rule.                                 *)
(*   src/agent/pipeline/ci_gate.go, src/agent/policy/gate.go,                  *)
(*   src/agent/ci/runner.go                                                    *)
(*                                                                             *)
(* imported maps the checks of verified reports to their status; signals and   *)
(* findings are [key, rule, severity, strength, changed], where the key of a   *)
(* finding is the id the model gave it.  CI runs pass no baseline.             *)
EXTENDS ModelAnswers

SeverityRank == [info |-> 1, low |-> 2, medium |-> 3, high |-> 4, critical |-> 5]
StrengthRank == [note |-> 1, human_check |-> 2, confirmed |-> 3]
StatusRank == [none |-> 0, not_applicable |-> 1, satisfied |-> 2, pending |-> 3, running |-> 3,
               unknown |-> 4, violated |-> 5]

\* What an activation says of a check it is required to make.
ReviewStatus(coverage, a, check) ==
  IF Covered(coverage, a.name) /\ check \in CoverageOf(coverage, a.name).checks
    THEN "satisfied" ELSE "unknown"

\* Mutant of GateStatus: the best status of a check counts.
GateStatusBest(imported, activations, coverage, check) ==
  LET said == {ReviewStatus(coverage, a, check) : a \in {b \in activations : check \in b.checks}}
      all == said \cup (IF check \in DOMAIN imported THEN {imported[check]} ELSE {}) IN
  IF all = {} THEN "none" ELSE CHOOSE s \in all : \A t \in all : StatusRank[s] <= StatusRank[t]

\* The worst of what the reports and the activations say of a check.
GateStatus(imported, activations, coverage, check) ==
  LET said == {ReviewStatus(coverage, a, check) : a \in {b \in activations : check \in b.checks}}
      all == said \cup (IF check \in DOMAIN imported THEN {imported[check]} ELSE {"none"}) IN
  CHOOSE s \in all : \A t \in all : StatusRank[s] >= StatusRank[t]

UnknownChecks(required, imported, activations, coverage) ==
  {check \in required :
     GateStatus(imported, activations, coverage, check) \notin {"satisfied", "violated"}}

\* Mutant of MatchesGate: the severity must exceed the minimum.
MatchesGateAbove(gate, f) ==
  /\ f.key # UNSAID
  /\ gate.rules # {} => f.rule \in gate.rules
  /\ SeverityRank[f.severity] > SeverityRank[gate.severity]
  /\ StrengthRank[f.strength] >= StrengthRank[gate.strength]

\* A finding without a key is passed over, however severe it is.
MatchesGate(gate, f) ==
  /\ f.key # UNSAID
  /\ gate.rules # {} => f.rule \in gate.rules
  /\ SeverityRank[f.severity] >= SeverityRank[gate.severity]
  /\ StrengthRank[f.strength] >= StrengthRank[gate.strength]
  /\ gate.baseline = "changed" => f.changed

GateViolations(gate, required, imported, activations, coverage, findings) ==
  {f.rule : f \in {g \in findings : MatchesGate(gate, g)}}
  \cup {check \in required : GateStatus(imported, activations, coverage, check) = "violated"}

\* partial: something the run set out to do was not done.  A gate other than
\* "all" wants a baseline, which a CI run does not have.  A result that is
\* incomplete without an open obligation is refused by its own validation, and
\* the run ends in an error.
EvaluateQualityGate(gate, required, imported, activations, coverage, findings, partial) ==
  LET unknown == UnknownChecks(required, imported, activations, coverage)
                 \cup (IF gate.baseline = "all" THEN {} ELSE {"baseline"}) IN
  IF unknown # {} THEN "incomplete"
  ELSE IF partial THEN "error"
  ELSE IF GateViolations(gate, required, imported, activations, coverage, findings) # {}
    THEN "violations" ELSE "pass"

GateExitCode(outcome, mode) ==
  CASE outcome = "pass" -> 0
    [] outcome \in {"incomplete", "error"} -> 2
    [] outcome = "violations" -> IF mode = "blocking" THEN 1 ELSE 0
=============================================================================
