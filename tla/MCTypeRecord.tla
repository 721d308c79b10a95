---------------------------- MODULE MCTypeRecord -----------------------------
(***************************************************************************)
(* The type recorder on every program of at most MaxInstrs instructions    *)
(* with operands from OperandValues.  Opcodes have the numbers 0 to 7, so  *)
(* that an operand may be mistaken for each kind of opcode.                *)
(***************************************************************************)
EXTENDS TypeRecord, SequencesExt

CONSTANTS MaxInstrs, OperandValues

\* Every mnemonic is one typerecord_input_file has a case for, and a program
\* fits into memory.
ASSUME ProgramAssumption ==
    /\ MaxInstrs \in Nat /\ OperandValues \subseteq Nat
    /\ \A n \in DOMAIN Mnemonic :
          Mnemonic[n] \in Ends \cup NoOperand \cup OneOperand \cup TwoOperand \cup ThreeOperand
    /\ MetadataWords + 4 * MaxInstrs <= MemoryWords

MCMnemonic == [n \in 0 .. 7 |->
    <<"die", "nop", "add", "psh", "movtr", "setr", "cpyr", "loop">>[n + 1]]
MCJunk == -1

VARIABLE instrs   \* the program: sequences of an opcode and its operands

NoInstrs == instrs = <<>>

Op(instr) == OpcodeIn(instr[1])
Complete == instrs # <<>> /\ Op(Last(instrs)) \in Ends

Extend ==
    /\ ~Complete
    /\ Len(instrs) < MaxInstrs
    /\ \E n \in DOMAIN Mnemonic :
          \E operands \in [1 .. Operands(Mnemonic[n]) -> OperandValues] :
             instrs' = Append(instrs, <<n>> \o operands)

Programs == NoInstrs /\ [][Extend]_instrs

-----------------------------------------------------------------------------
Image == Loaded(FlattenSeq(instrs))
Record == typerecord_input_file(Image, "fresh")

\* The types instruction k should have, from the word after its predecessors.
FirstWord(k) == MetadataWords + Len(FlattenSeq(SubSeq(instrs, 1, k - 1)))
TypedAsInstr(k) ==
    /\ Record.types[FirstWord(k)] = "UINT8"
    /\ \A w \in FirstWord(k) + 1 .. FirstWord(k + 1) - 1 : Record.types[w] = "UINT32"

\* typerecord_input_file types the opcodes and the operands of a program as
\* they lie in the file, up to the first instruction with two operands and
\* the opcode after it; and without one, it types nothing else.
PrefixIsRecorded ==
    Complete =>
       LET two == {k \in DOMAIN instrs : Op(instrs[k]) \in TwoOperand}
           typed == {k \in DOMAIN instrs : \A j \in two : k <= j}
       IN  /\ \A k \in typed : TypedAsInstr(k)
           /\ \A k \in DOMAIN instrs \ typed :
                 k - 1 \in typed => Record.types[FirstWord(k)] = "UINT8"
           /\ two = {} =>
                 /\ Record.result = "recorded"
                 /\ \A w \in Words : w >= FirstWord(Len(instrs) + 1) => Record.types[w] = "fresh"

=============================================================================
