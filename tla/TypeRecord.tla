----------------------------- MODULE TypeRecord ------------------------------
(***************************************************************************)
(* What Ram::loadin_program and Ram::typerecord_input_file (ram.cpp) make  *)
(* of a program file: the contents of memory and the type record beside    *)
(* it, which every later access of the virtual machine is checked against. *)
(*                                                                         *)
(* Opcodes and operands take four bytes each and are aligned to four, so   *)
(* memory is a function from word numbers to words: word i stands for the  *)
(* bytes 4 * i to 4 * i + 3, its type for that of its first byte.  Bytes   *)
(* of memory and of the type record that the loader does not write are     *)
(* uninitialised; a word of them is Junk.                                  *)
(*                                                                         *)
(* The recorder walks the program with two cursors: curr_addr, where it    *)
(* writes types, and ptr, where it reads the next opcode.                  *)
(***************************************************************************)
EXTENDS Integers, Sequences

CONSTANTS MemoryWords,   \* memory_size, in words
          MetadataWords, \* METADATA_SIZE, in words
          ByteMod,       \* 2^8
          Mnemonic,      \* the mnemonics of the opcodes that have one
          Junk           \* a word never written

ASSUME TypeRecordAssumption ==
    /\ MemoryWords \in Nat /\ MetadataWords \in Nat
    /\ MetadataWords < MemoryWords
    /\ ByteMod \in Nat \ {0}
    /\ DOMAIN Mnemonic \subseteq 0 .. ByteMod - 1
    /\ Junk \notin Nat

Words == 0 .. MemoryWords - 1

UintBinary == {"add", "sub", "mul", "div", "mod", "and", "xor", "or",
               "lshft", "rshft", "lrot", "rrot"}
UintUnary == {"inc", "dec", "not"}
IntBinary == {"adds", "subs", "muls", "divs", "mods", "ands", "xors", "ors",
              "lshfts", "rshfts", "lrots", "rrots"}
IntUnary == {"incs", "decs", "nots"}
Arithmetic == UintBinary \cup UintUnary \cup IntBinary \cup IntUnary

Ends == {"die", "test_die"}
NoOperand == {"swtch", "lbrk", "pop", "pop2", "brkp", "lcont", "pshfrs", "nop",
              "ret", "nspctst"} \cup Arithmetic
OneOperand == {"nspctr", "call", "jmp", "je", "jn", "jl", "jg", "jls", "jgs", "psh",
               "popn", "pshfr", "poptr", "movtr", "pshfrr"}
TwoOperand == {"stktr", "cpyr", "setr"}
ThreeOperand == {"loop"}

\* The operands of an instruction, as the recorder and the builders of frames
\* count them.  opcode.h is half way to another instruction set: most of these
\* instructions have no number in it, nor a size in its opsize_tbl.
Operands(op) ==
    CASE op \in OneOperand   -> 1
      [] op \in TwoOperand   -> 2
      [] op \in ThreeOperand -> 3
      [] OTHER               -> 0

\* The opcode in the low byte of a word.
OpcodeIn(word) ==
    LET byte == word % ByteMod
    IN  IF byte \in DOMAIN Mnemonic THEN Mnemonic[byte] ELSE "unknown"

\* Variant: the operands not passed over.
PtrStepPastOpcode(op) == 1

\* How far the read cursor moves: the loop over the two operands moves it by
\* an opcode and an operand each time.
PtrStep(op) == IF op \in TwoOperand THEN 4 ELSE 1 + Operands(op)

\* Memory with the file loaded; code is the program's sequence of words.
Loaded(code) ==
    [w \in Words |-> IF w < MetadataWords THEN 0
                     ELSE IF w - MetadataWords < Len(code) THEN code[w - MetadataWords + 1]
                     ELSE Junk]

\* One pass through process_next_op.  Writing types past memory, or taking an
\* opcode from a word never written, is undefined.
RecordOp(mem, s) ==
    LET types == [s.types EXCEPT ![s.curr_addr] = "UINT8"]
        word  == mem[s.ptr]
        op    == OpcodeIn(word)
        past  == s.curr_addr + Operands(op)
    IN  CASE s.curr_addr \notin Words \/ s.ptr \notin Words -> [s EXCEPT !.result = "undefined"]
          [] s.curr_addr \in Words /\ s.ptr \in Words /\ word = Junk ->
                [s EXCEPT !.types = types, !.result = "undefined"]
          [] s.curr_addr \in Words /\ s.ptr \in Words /\ word # Junk ->
                IF op \in Ends THEN [s EXCEPT !.types = types, !.result = "recorded"]
                ELSE IF op \notin NoOperand \cup OneOperand \cup TwoOperand \cup ThreeOperand
                THEN [s EXCEPT !.types = types, !.result = "INVALID_OPCODE_IN_TYPEREC"]
                ELSE IF past \notin Words THEN [s EXCEPT !.result = "undefined"]
                ELSE [types     |-> [w \in Words |-> IF w \in s.curr_addr + 1 .. past
                                                     THEN "UINT32" ELSE types[w]],
                      curr_addr |-> past + 1,
                      ptr       |-> s.ptr + PtrStep(op),
                      result    |-> "recording"]

\* The type record of a loaded program: at most one opcode for each word.
\* fresh is what uninitialised memory of the record holds.
typerecord_input_file(mem, fresh) ==
    LET start == [types     |-> [w \in Words |-> IF w < MetadataWords THEN "UINT32" ELSE fresh],
                  curr_addr |-> MetadataWords,
                  ptr       |-> MetadataWords,
                  result    |-> "recording"]
        after[n \in 0 .. MemoryWords] ==
            IF n = 0 THEN start
            ELSE LET s == after[n - 1]
                 IN  IF s.result = "recording" THEN RecordOp(mem, s) ELSE s
    IN  after[MemoryWords]

=============================================================================
