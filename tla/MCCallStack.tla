----------------------------- MODULE MCCallStack -----------------------------
(***************************************************************************)
(* Values of CallStack's constants for TLC: words of 32 values, accesses   *)
(* that fault from cell 24 on, and recursion limits of 0, 5, 8 and 12      *)
(* bytes, that is of no cell, one, two and three, one of them with a       *)
(* partial cell.                                                           *)
(***************************************************************************)
EXTENDS CallStack

MCWordMod == 32
MCFarIndex == 24
MCLimits == {0, 5, 8, 12}
MCInitLimits == {8, 12}

=============================================================================
