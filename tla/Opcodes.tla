------------------------------- MODULE Opcodes -------------------------------
(***************************************************************************)
(* The opcodes as the assembler knows them: the operands the cases of      *)
(* first_stage_pass and build_im_form give each (asm.cpp), and the table   *)
(* of sizes the file is written by (opcode.h).  The two do not agree, as   *)
(* the table misses entries: NOT an assumption of the models.              *)
(***************************************************************************)
EXTENDS Integers, Sequences

OPCODE_SIZE == 4
UINT_SIZE == 4

\* Opcode 19, setepoch, has no case.
OneOperand == {2} \cup 4 .. 7 \cup {11, 12, 15, 16, 17, 22, 24, 28, 29, 33, 34, 48, 54, 55, 60}
                  \cup 63 .. 72 \cup 75 .. 79 \cup 82 .. 86 \cup 89 .. 93
ThreeOperands == {25, 26, 31, 32, 36, 39, 40, 42, 44, 45, 47, 53}
NoOperand == {0, 1, 3, 13, 14, 59, 61, 62, 73, 74} \cup 96 .. 127
TwoOperands == {8, 9, 10, 18, 20, 21, 23, 27, 30, 35, 37, 38, 41, 43, 46, 80, 81, 87, 88, 94, 95}
                   \cup 49 .. 52 \cup 56 .. 58

OperandCount == [op \in NoOperand \cup OneOperand \cup TwoOperands \cup ThreeOperands |->
                    CASE op \in NoOperand     -> 0
                      [] op \in OneOperand    -> 1
                      [] op \in TwoOperands   -> 2
                      [] op \in ThreeOperands -> 3]

Sizes == << 4,  4,  8,  4,  8,  8,  8,  8, 12, 12, 12,  8,  8,  8,  4,  4,
            8,  8,  8, 12,  8, 12, 12,  8, 12,  8, 16, 16, 12,  8,  8, 12,
           16, 16,  8,  8, 12, 16, 12, 12, 16, 16, 12, 16, 12, 16, 16, 12,
           16,  8, 12, 12, 12, 12, 16,  8,  8, 12, 12,  8,  8,  4,  4,  4,
            8,  8,  8,  8,  8,  8,  8,  8,  8,  8,  4,  4,  8,  8,  8,  8,
            8, 12, 12,  8, 12, 12,  8,  8,  8,  8,  8, 12, 12>>

\* The rest is 4.  Opcodes 125 to 127 are past its end.
opsize_tbl == [op \in 0 .. 124 |-> IF op < Len(Sizes) THEN Sizes[op + 1] ELSE 4]

\* The opcodes whose operands fit the size.
Agreed == {op \in DOMAIN OperandCount \cap DOMAIN opsize_tbl :
               opsize_tbl[op] = OPCODE_SIZE + UINT_SIZE * OperandCount[op]}

=============================================================================
