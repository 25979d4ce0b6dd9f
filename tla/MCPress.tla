------------------------------- MODULE MCPress ------------------------------
(***************************************************************************)
(* Press on small instances for TLC.                                       *)
(***************************************************************************)
EXTENDS Press

\* One probe has the earlier first byte, the other the shorter total, so that
\* the two columns sort differently.
TwoTimings ==
  {[first_byte |-> 1, total |-> 4], [first_byte |-> 2, total |-> 2]}
=============================================================================
