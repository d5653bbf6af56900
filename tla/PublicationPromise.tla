------------------------- MODULE PublicationPromise -------------------------
(***************************************************************************)
(* What the publication outbox promises an operator who authorizes the     *)
(* publication of an assessment: it is written to the code host at most    *)
(* once, never after it was reported withdrawn, and only what was written  *)
(* is reported delivered.  What was started but not confirmed stays open.  *)
(***************************************************************************)
EXTENDS Naturals

CONSTANT Commands

VARIABLES status, written

pvars == <<status, written>>

Init == /\ status = [k \in Commands |-> "none"]
        /\ written = [k \in Commands |-> 0]

Ask(k) ==
  /\ status[k] = "none"
  /\ status' = [status EXCEPT ![k] = "asked"]
  /\ UNCHANGED written

\* Several authorizations may be withdrawn at once.
Withdraw(K) ==
  /\ \A k \in K : status[k] = "asked"
  /\ status' = [k \in Commands |-> IF k \in K THEN "withdrawn" ELSE status[k]]
  /\ UNCHANGED written

Start(k) ==
  /\ status[k] = "asked"
  /\ status' = [status EXCEPT ![k] = "started"]
  /\ UNCHANGED written

Write(k) ==
  /\ status[k] = "started" /\ written[k] = 0
  /\ written' = [written EXCEPT ![k] = 1]
  /\ UNCHANGED status

Confirm(k) ==
  /\ status[k] = "started" /\ written[k] = 1
  /\ status' = [status EXCEPT ![k] = "confirmed"]
  /\ UNCHANGED written

Next == \/ \E k \in Commands : Ask(k) \/ Start(k) \/ Write(k) \/ Confirm(k)
        \/ \E K \in SUBSET Commands : Withdraw(K)

Spec == Init /\ [][Next]_pvars
=============================================================================
