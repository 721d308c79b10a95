-------------------------------- MODULE ALU ----------------------------------
(***************************************************************************)
(* The results the build_*_op_iframe methods of dvm.cpp compute for        *)
(* arithmetic instructions, on words of Width bits (32 in the code).       *)
(*                                                                         *)
(* A word is a number of 0 .. 2^Width - 1; the signed instructions take it *)
(* as two's complement.  Three things are undefined in C++ and are what    *)
(* the machine code of the one platform of the program (x64) makes of      *)
(* them: signed sums, differences and products wrap; a shift by Width or   *)
(* more, or by a negative number, shifts by the count modulo Width; and    *)
(* the quotient of the least number by -1 traps.                           *)
(***************************************************************************)
EXTENDS Integers, FiniteSetsExt

CONSTANTS Width, Trap

ASSUME ALUAssumption == (\E k \in 0 .. 5 : Width = 2^k) /\ Trap \notin Nat

Word == 0 .. 2^Width - 1
Wrap(n) == n % 2^Width
Least == 2^(Width - 1)
Signed(w) == IF w < Least THEN w ELSE w - 2^Width

BitsOf(w) == {i \in 0 .. Width - 1 : (w \div 2^i) % 2 = 1}
WordOf(bits) == MapThenSumSet(LAMBDA i : 2^i, bits)

And(l, r) == WordOf(BitsOf(l) \cap BitsOf(r))
Or(l, r) == WordOf(BitsOf(l) \cup BitsOf(r))
Xor(l, r) == WordOf((BitsOf(l) \cup BitsOf(r)) \ (BitsOf(l) \cap BitsOf(r)))
Not(w) == WordOf((0 .. Width - 1) \ BitsOf(w))

Shl(w, n) == Wrap(w * 2^(n % Width))

\* Variant: an unsigned word shifted as a signed one.
ShrAsSigned(w, n) == Wrap(Signed(w) \div 2^(n % Width))

Shr(w, n) == w \div 2^(n % Width)
Sar(w, n) == Wrap(Signed(w) \div 2^(n % Width))

\* Variant: the quotient rounded down.
QuotientDown(l, r) == IF r > 0 THEN l \div r ELSE (-l) \div (-r)

\* Quotient and remainder of C++ round to zero; TLA+'s round down.
Magnitude(n) == IF n < 0 THEN -n ELSE n
Quotient(l, r) ==
    LET q == Magnitude(l) \div Magnitude(r) IN IF (l < 0) = (r < 0) THEN q ELSE -q
Remainder(l, r) == l - r * Quotient(l, r)
Overflows(l, r) == l = Least /\ Signed(r) = -1

\* l is the top of the working stack and r the word below it.
UintResult(op, l, r) ==
    CASE op = "inc"   -> Wrap(l + 1)
      [] op = "dec"   -> Wrap(l - 1)
      [] op = "add"   -> Wrap(l + r)
      [] op = "sub"   -> Wrap(l - r)
      [] op = "mul"   -> Wrap(l * r)
      [] op = "div"   -> IF l = 0 \/ r = 0 THEN 0 ELSE l \div r
      [] op = "mod"   -> IF r = 0 THEN 0 ELSE l % r
      [] op = "and"   -> And(l, r)
      [] op = "or"    -> Or(l, r)
      [] op = "xor"   -> Xor(l, r)
      [] op = "not"   -> Not(l)
      [] op = "lshft" -> Shl(l, r)
      [] op = "rshft" -> Shr(l, r)
      [] op = "lrot"  -> Or(Shl(l, r), Shr(l, Width - r))
      [] op = "rrot"  -> Or(Shr(l, r), Shl(l, Width - r))

IntResult(op, l, r) ==
    CASE op = "incs"   -> Wrap(l + 1)
      [] op = "decs"   -> Wrap(l - 1)
      [] op = "adds"   -> Wrap(l + r)
      [] op = "subs"   -> Wrap(l - r)
      [] op = "muls"   -> Wrap(Signed(l) * Signed(r))
      [] op = "divs"   -> IF l = 0 \/ r = 0 THEN 0
                          ELSE IF Overflows(l, r) THEN Trap
                          ELSE Wrap(Quotient(Signed(l), Signed(r)))
      [] op = "mods"   -> IF r = 0 THEN 0
                          ELSE IF Overflows(l, r) THEN Trap
                          ELSE Wrap(Remainder(Signed(l), Signed(r)))
      [] op = "ands"   -> And(l, r)
      [] op = "ors"    -> Or(l, r)
      [] op = "xors"   -> Xor(l, r)
      [] op = "nots"   -> Not(l)
      [] op = "lshfts" -> Shl(l, r)
      [] op = "rshfts" -> Sar(l, r)
      [] op = "lrots"  -> Or(Shl(l, r), Sar(l, Width - r))
      [] op = "rrots"  -> Or(Sar(l, r), Shl(l, Width - r))

SignedLess(l, r) == Signed(l) < Signed(r)

\* zero_div, which the frame's description reports.
zero_div(op, l, r) ==
    CASE op \in {"div", "divs"} -> l = 0 \/ r = 0
      [] op \in {"mod", "mods"} -> r = 0
      [] OTHER                  -> FALSE

=============================================================================
