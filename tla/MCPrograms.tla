----------------------------- MODULE MCPrograms -----------------------------
(* Programs, for TLC: two receivers, two workers, the times of the code in   *)
(* ticks of 10 ms (but 10 attempts, not 100).                                *)
EXTENDS Programs
=============================================================================
