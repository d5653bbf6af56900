--------------------------- MODULE MCReviewControl ---------------------------
(* Small instances of the control plane for TLC. *)
EXTENDS ReviewControl, TLC

CONSTANTS c1, d1, d2, h1, h2

Request(delivery, revision, manual) ==
  [delivery |-> delivery, change |-> c1, head |-> revision, manual |-> manual]

\* The delivery of a new revision, and an operator's request, which may repeat,
\* come before it or supersede it.
DispatchRequests == {Request(d2, 2, FALSE), Request(NONE, NONE, TRUE)}

\* The first delivery of a change, for the revision the code host reports, and
\* the delivery of a later revision, which may also come first.
EndingRequests == {Request(d1, NONE, FALSE), Request(d2, 2, FALSE)}

Identical == Permutations({h1, h2})
=============================================================================
