------------------------------- MODULE MCALU ---------------------------------
(***************************************************************************)
(* The arithmetic of the virtual machine on every pair of words of Width   *)
(* bits, against what the instructions' names promise.                     *)
(***************************************************************************)
EXTENDS ALU

MCTrap == -1

VARIABLES l, r

Init == l = 0 /\ r = 0

Next ==
    \/ l + 1 \in Word /\ l' = l + 1 /\ UNCHANGED r
    \/ r + 1 \in Word /\ r' = r + 1 /\ UNCHANGED l

Spec == Init /\ [][Next]_<<l, r>>

Rotated(w, n) == WordOf({(i + n) % Width : i \in BitsOf(w)})

\* The unsigned rotations of build_lrot_op_iframe and build_rrot_op_iframe move
\* every bit by the count modulo the width, and undo each other.
RotationsRotate ==
    /\ UintResult("lrot", l, r) = Rotated(l, r)
    /\ UintResult("rrot", UintResult("lrot", l, r), r) = l

\* build_div(s)_op_iframe and build_mod(s)_op_iframe divide with remainder,
\* toward zero for signed words; a frame says zero_div whenever the divisor is
\* zero, and none traps but the least number divided by -1.
DivisionWithRemainder ==
    /\ r # 0 =>
          /\ r * UintResult("div", l, r) + UintResult("mod", l, r) = l
          /\ UintResult("mod", l, r) < r
          /\ IF Signed(l) = -Least /\ Signed(r) = -1
             THEN IntResult("divs", l, r) = Trap /\ IntResult("mods", l, r) = Trap
             ELSE LET q == Signed(IntResult("divs", l, r))
                      m == Signed(IntResult("mods", l, r))
                  IN  /\ Signed(r) * q + m = Signed(l)
                      /\ Magnitude(m) < Magnitude(Signed(r))
                      /\ m # 0 => (m < 0) = (Signed(l) < 0)
    /\ r = 0 => \A op \in {"div", "mod", "divs", "mods"} : zero_div(op, l, r)

=============================================================================
