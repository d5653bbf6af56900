------------------------------- MODULE Dialogue -------------------------------
(***************************************************************************)
(* What a durable model job promises its provider, its budget and its      *)
(* reader: one conversation, a question at a time.  Questions are planned  *)
(* in sets before any of them is asked; a further set is planned only when *)
(* everything planned so far was answered, or as the alternative of a      *)
(* question whose answer was lost; no question is asked twice; and the     *)
(* conversation closes only on complete answers, after which it is silent. *)
(***************************************************************************)
CONSTANT Questions

VARIABLES planned, asked, answered, lost, closed

vars == <<planned, asked, answered, lost, closed>>

Init == planned = {} /\ asked = {} /\ answered = {} /\ lost = {} /\ closed = FALSE

Plan(S) ==
  /\ ~closed /\ planned \subseteq answered
  /\ S # {} /\ S \cap planned = {}
  /\ planned' = planned \cup S
  /\ UNCHANGED <<asked, answered, lost, closed>>

PlanAlternative(q) ==
  /\ ~closed /\ planned # {} /\ planned \subseteq lost /\ q \notin planned
  /\ planned' = planned \cup {q}
  /\ UNCHANGED <<asked, answered, lost, closed>>

Ask(q) ==
  /\ ~closed /\ q \in planned \ asked /\ asked \subseteq answered \cup lost
  /\ asked' = asked \cup {q}
  /\ UNCHANGED <<planned, answered, lost, closed>>

Answer(q) ==
  /\ q \in asked \ (answered \cup lost)
  /\ answered' = answered \cup {q}
  /\ UNCHANGED <<planned, asked, lost, closed>>

Lose(q) ==
  /\ q \in asked \ (answered \cup lost)
  /\ lost' = lost \cup {q}
  /\ UNCHANGED <<planned, asked, answered, closed>>

Close ==
  /\ ~closed /\ planned \subseteq answered
  /\ closed' = TRUE
  /\ UNCHANGED <<planned, asked, answered, lost>>

Next ==
  \/ \E S \in SUBSET Questions : Plan(S)
  \/ \E q \in Questions : PlanAlternative(q) \/ Ask(q) \/ Answer(q) \/ Lose(q)
  \/ Close

Spec == Init /\ [][Next]_vars
=============================================================================
