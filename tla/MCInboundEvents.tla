--------------------------- MODULE MCInboundEvents ---------------------------
(* Two messages of one user and as many calls as can work at once:           *)
(* OneCallPerEvent makes a call more than there are messages idle.           *)
EXTENDS InboundEvents

CONSTANTS c1, c2, m1, m2

TwoCalls == {c1, c2}
TwoMessages == {m1, m2}
=============================================================================
