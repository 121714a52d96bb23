----------------------------- MODULE MCDeadline -----------------------------
(* Instances of Deadline for TLC, in small units: the budget is three of       *)
(* MAX_TIMEOUT, and the model asks for less than allowed, for more, and for a  *)
(* timeout that is not positive.                                               *)
EXTENDS Deadline

MCRequests == {0, 2, 9}
=============================================================================
