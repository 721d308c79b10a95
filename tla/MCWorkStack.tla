----------------------------- MODULE MCWorkStack -----------------------------
(***************************************************************************)
(* Values of WorkStack's constants for TLC: a block of three words, and    *)
(* one of two words and a half; addresses are taken modulo 64.  Users      *)
(* overwrite the two upper words, a word across both, and past the block.  *)
(***************************************************************************)
EXTENDS WorkStack

MCWordMod == 64
MCMemorySizes == {10, 12}
MCSetAddrs == {4, 6, 8, 12}
MCFreshTypes == {"UINT32", "NOVALUE"}

=============================================================================
