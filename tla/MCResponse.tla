----------------------------- MODULE MCResponse -----------------------------
(* A small instance of a response for TLC.                                  *)
EXTENDS Response

\* Ages the code takes for none, within the clock's range, and beyond it.
MCAges == {-1, 2, 11}
=============================================================================
