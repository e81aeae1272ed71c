----------------------- MODULE PolynomialCommitmentsMC -----------------------
(***************************************************************************)
(* Degrees that make one window or two, the last of them with one element  *)
(* or two, in windows of three or, for the degree 2, of two; and, by       *)
(* itself, the degree 5, whose windows of two leave the last without any.  *)
(***************************************************************************)
EXTENDS PolynomialCommitments
=============================================================================
