------------------------------ MODULE Machine --------------------------------
(***************************************************************************)
(* The state a program of the virtual machine works on, and what building, *)
(* executing and undoing one instruction does to it: build_iframe and the  *)
(* build_*_op_iframe methods, exec_iframe and exec_iframe_IFBF, and        *)
(* undo_exec_iframe of dvm.cpp.  DebugVM drives these.                     *)
(*                                                                         *)
(* A machine is a record of memory with its types, the program counter,    *)
(* the working stack and the call stack as their modules TypedStack and    *)
(* LifoStack promise them, the loop counter, and the histories from which  *)
(* undo restores what was popped.  `err' holds what ended the program:     *)
(* no caller catches an exception, so all are one; after "undefined" (a    *)
(* read of uninitialised memory, a write past a block) nothing is known,   *)
(* and "fault" is an access that can never succeed.                        *)
(*                                                                         *)
(* Addresses, pc and the sizes of instructions are in words of four bytes. *)
(***************************************************************************)
EXTENDS TypeRecord, SequencesExt

CONSTANTS WordMod,        \* 2^32
          WorkWords,      \* words of the working stack: argtbl->ram_size \div 4
          CallBlock,      \* entries of the call stack's block: callstack_recur_limit \div 4
          UintOp(_, _, _), IntOp(_, _, _), \* of an opcode, the top and the one below
          IntLess(_, _),
          Trap            \* the result of a division the processor refuses

ASSUME MachineAssumption ==
    WordMod \in Nat \ {0} /\ WorkWords \in Nat \ {0} /\ CallBlock \in Nat

\* A mnemonic is that of an instruction with a case in build_iframe.
ASSUME MnemonicAssumption ==
    \A n \in DOMAIN Mnemonic :
        Mnemonic[n] \in Ends \cup NoOperand \cup OneOperand \cup TwoOperand \cup ThreeOperand

WordType == 0 .. WordMod - 1

\* The results of arithmetic are words, save where the processor traps.
ASSUME ArithmeticAssumption ==
    \A l, r \in WordType :
        /\ \A op \in UintUnary \cup UintBinary : UintOp(op, l, r) \in WordType
        /\ \A op \in IntUnary \cup IntBinary :
              IntOp(op, l, r) \in WordType \/ (op \in {"divs", "mods"} /\ IntOp(op, l, r) = Trap)
        /\ IntLess(l, r) \in BOOLEAN

UintJumps == {"je", "jn", "jl", "jg"}
IntJumps == {"jls", "jgs"}
RamWriters == {"movtr", "stktr", "cpyr", "setr"}
UintPushers == {"psh", "pshfr", "pshfrr", "pshfrs"} \cup UintBinary \cup UintUnary
IntPushers == IntBinary \cup IntUnary

\* A machine with a program just loaded; `fresh' is the type uninitialised
\* memory happens to have.
Boot(code, start, fresh) ==
    LET ram == Loaded(code)
        record == typerecord_input_file(ram, fresh)
    IN  [ram |-> ram, types |-> record.types, pc |-> start,
         wstk |-> <<>>, cstk |-> <<>>, drained |-> FALSE, loop_counter |-> 0,
         popped_uints |-> <<>>, popped_retaddrs |-> <<>>,
         err |-> CASE record.result = "recorded"  -> "none"
                   [] record.result = "undefined" -> "undefined"
                   [] OTHER                       -> "exception"]

Fail(m, e) == IF m.err = "none" THEN [m EXCEPT !.err = e] ELSE m

-----------------------------------------------------------------------------
(* Memory and the stacks.                                                  *)

\* What get_ubyte and get_uint throw, and the value when they do not.
Access(m, w, type) ==
    IF w \notin Words \/ m.types[w] # type THEN "exception"
    ELSE IF m.ram[w] = Junk THEN "undefined" ELSE "none"
get_uint(m, w) == m.ram[w]
Readable(m, w) == Access(m, w, "UINT32")

set_ram(m, w, type, v) ==
    IF w \in Words THEN [m EXCEPT !.ram[w] = v, !.types[w] = type]
    ELSE Fail(m, "exception")

Top(m) == Last(m.wstk)
Second(m) == m.wstk[Len(m.wstk) - 1]

\* Variant: without the check of the room left.
PushUnchecked(m, type, v) ==
    IF m.err # "none" THEN m
    ELSE [m EXCEPT !.wstk = Append(@, [type |-> type, val |-> v])]

push_word(m, type, v) ==
    IF m.err # "none" THEN m
    ELSE IF Len(m.wstk) < WorkWords
    THEN [m EXCEPT !.wstk = Append(@, [type |-> type, val |-> v])]
    ELSE Fail(m, "exception")

\* pop_uint, when its result is dropped.
pop_uint(m) ==
    IF m.err # "none" THEN m
    ELSE IF m.wstk = <<>> THEN Fail(m, "exception")
    ELSE IF Top(m).type # "UINT32" THEN Fail(m, "exception")
    ELSE [m EXCEPT !.wstk = Front(@)]

\* popped_uints.push_back(workstack->pop_uint())
PopToHistory(m) ==
    LET popped == pop_uint(m)
    IN  IF popped.err # "none" THEN popped
        ELSE [popped EXCEPT !.popped_uints = Append(@, Top(m).val)]

\* workstack->push_uint(popped_uints.back()), with and without pop_back().
PushFromHistory(m) ==
    IF m.popped_uints = <<>> THEN Fail(m, "undefined")
    ELSE push_word(m, "UINT32", Last(m.popped_uints))
ForgetPopped(m) ==
    IF m.popped_uints = <<>> THEN Fail(m, "undefined")
    ELSE [m EXCEPT !.popped_uints = Front(@)]

\* Variant: the history not shortened.
RepushKeeping(m) == PushFromHistory(m)

Repush(m) == ForgetPopped(PushFromHistory(m))

Times(n, Step(_), m) ==
    LET after[k \in 0 .. n] == IF k = 0 THEN m ELSE Step(after[k - 1])
    IN  after[n]

push_addr(m, a) ==
    IF m.drained THEN Fail(m, "fault")
    ELSE IF Len(m.cstk) < CallBlock THEN [m EXCEPT !.cstk = Append(@, a)]
    ELSE Fail(m, "undefined")

\* pop_addr, its result being Last(m.cstk), and remove_addr.
take_addr(m, i) ==
    IF m.cstk = <<>> THEN Fail(m, "exception")
    ELSE [m EXCEPT !.cstk = RemoveAt(@, i), !.drained = (Len(m.cstk) = 1)]
pop_addr(m) == take_addr(m, Len(m.cstk))

-----------------------------------------------------------------------------
(* Building a frame.                                                       *)

\* get_ubyte(pc), where the opcode is taken from.
Fetch(m) == Access(m, m.pc, "UINT8")
opcode(m) == OpcodeIn(m.ram[m.pc])

opr(m, k) == m.ram[m.pc + k]

Taken(m, op) ==
    LET l == Top(m).val
        r == Second(m).val
    IN  CASE op = "je"  -> l = r
          [] op = "jn"  -> l # r
          [] op = "jl"  -> l < r
          [] op = "jg"  -> l > r
          [] op = "jls" -> IntLess(l, r)
          [] op = "jgs" -> IntLess(r, l)
          [] OTHER      -> FALSE

\* uint_result or int_result.  A unary operation does not look below the top.
Result(m, op) ==
    CASE op \in UintUnary  -> UintOp(op, Top(m).val, 0)
      [] op \in UintBinary -> UintOp(op, Top(m).val, Second(m).val)
      [] op \in IntUnary   -> IntOp(op, Top(m).val, 0)
      [] op \in IntBinary  -> IntOp(op, Top(m).val, Second(m).val)
      [] OTHER             -> 0

\* What build_iframe throws: at its switch, at an operand, at the arguments on
\* the working stack, at the word an operand points to, at a division.
BuildError(m, op) ==
    LET bad == {Readable(m, m.pc + k) : k \in 1 .. Operands(op)} \ {"none"}
        arguments == CASE op \in UintUnary \cup IntUnary \cup {"pshfrs"} -> 1
                       [] op \in UintBinary \cup IntBinary \cup UintJumps \cup IntJumps -> 2
                       [] OTHER -> 0
    IN  IF op \in {"poptr", "brkp", "unknown"} THEN "exception"
        ELSE IF bad # {} THEN CHOOSE e \in bad : TRUE
        ELSE IF Len(m.wstk) < arguments THEN "exception"
        ELSE CASE op \in {"nspctr", "pshfrr"} -> Readable(m, opr(m, 1))
               [] op = "pshfrs"               -> Readable(m, Top(m).val)
               [] op \in {"divs", "mods"}     ->
                     IF Result(m, op) = Trap THEN "fault" ELSE "none"
               [] OTHER                       -> "none"

\* The frame of the instruction at pc, when BuildError is none.  A field its
\* builder does not set is 0, as IFrame's constructor leaves it.
NewFrame(m, op) ==
    [opcode |-> op,
     addr   |-> m.pc,
     oprs   |-> [k \in 1 .. Operands(op) |-> opr(m, k)],
     src    |-> CASE op \in {"nspctr", "pshfr", "cpyr"} -> opr(m, 1)
                  [] op = "stktr"  -> opr(m, 2)
                  [] op = "pshfrr" -> get_uint(m, opr(m, 1))
                  [] op = "pshfrs" -> get_uint(m, Top(m).val)
                  [] OTHER         -> 0,
     dst    |-> CASE op \in {"movtr", "stktr", "setr"} -> opr(m, 1)
                  [] op = "cpyr" -> opr(m, 2)
                  [] OTHER       -> 0,
     result |-> Result(m, op),
     taken  |-> Taken(m, op),
     prev   |-> 0]

-----------------------------------------------------------------------------
(* Executing a frame.  setr stores its first operand, which is the address *)
(* it stores to; parent_iframe of lcont and lbrk is NULL (see DebugVM).     *)

\* The word written, as <<error, word>>.
Source(m, f) ==
    CASE f.opcode = "setr"  -> <<"none", f.oprs[1]>>
      [] f.opcode = "cpyr"  -> <<Readable(m, f.src), IF f.src \in Words THEN m.ram[f.src] ELSE 0>>
      [] f.opcode = "movtr" -> IF m.wstk = <<>> THEN <<"exception", 0>> ELSE <<"none", Top(m).val>>
      [] f.opcode = "stktr" ->
            IF f.src < Len(m.wstk) /\ m.wstk[f.src + 1].type = "UINT32"
            THEN <<"none", m.wstk[f.src + 1].val>> ELSE <<"exception", 0>>

\* The word at dst is read first, for undo, so it must be typed as one.
WriteRam(m, f) ==
    LET source == Source(m, f)
    IN  IF Readable(m, f.dst) = "exception" THEN Fail(m, "exception")
        ELSE IF source[1] # "none" THEN Fail(m, source[1])
        ELSE set_ram(m, f.dst, "UINT32", source[2])

exec_iframe(before, f) ==
    LET m == [before EXCEPT !.pc = @ + 1 + Operands(f.opcode)]
        op == f.opcode
        jumped == [m EXCEPT !.pc = f.oprs[1]]
    IN  CASE op \in Ends \cup {"nop", "swtch", "nspctr", "nspctst"} -> m
          [] op = "call" -> push_addr(jumped, m.pc)
          [] op = "ret"  -> IF m.cstk = <<>> THEN Fail(m, "exception")
                            ELSE [pop_addr(m) EXCEPT !.pc = Last(m.cstk)]
          [] op = "jmp"  -> jumped
          [] op \in UintJumps \cup IntJumps -> IF f.taken THEN jumped ELSE m
          [] op = "loop" -> [m EXCEPT !.loop_counter = f.oprs[1], !.pc = f.oprs[2]]
          [] op \in {"lcont", "lbrk"} -> Fail(m, "fault")
          [] op = "psh"  -> push_word(m, "UINT32", f.oprs[1])
          [] op \in {"pshfr", "pshfrr", "pshfrs"} ->
                IF Readable(m, f.src) # "none" THEN Fail(m, Readable(m, f.src))
                ELSE push_word(m, "UINT32", get_uint(m, f.src))
          [] op = "pop"  -> PopToHistory(m)
          [] op = "pop2" -> PopToHistory(PopToHistory(m))
          [] op = "popn" -> Times(f.oprs[1], PopToHistory, m)
          [] op \in RamWriters -> WriteRam(m, f)
          [] op \in UintUnary \cup UintBinary -> push_word(m, "UINT32", f.result)
          [] op \in IntPushers -> push_word(m, "INT32", f.result)

\* prev_ram_uint_value, which only the writers of memory set.
Remember(m, f) ==
    IF f.opcode \in RamWriters /\ f.dst \in Words THEN [f EXCEPT !.prev = m.ram[f.dst]] ELSE f

-----------------------------------------------------------------------------
(* Undoing the frame f, with curr_iframe already moved to the frame curr,   *)
(* whose dst_addr it is that a writer of memory is undone at.               *)
undo_exec_iframe(after, f, curr) ==
    LET m == [after EXCEPT !.pc = curr.addr]
        op == f.opcode
    IN  CASE op = "call" ->
                IF m.cstk = <<>> THEN Fail(m, "exception")
                ELSE [pop_addr(m) EXCEPT !.popped_retaddrs = Append(@, Last(m.cstk))]
          [] op = "ret" ->
                IF m.popped_retaddrs = <<>> THEN Fail(m, "undefined")
                ELSE [push_addr(m, Last(m.popped_retaddrs)) EXCEPT !.popped_retaddrs = Front(@)]
          [] op = "loop" -> [m EXCEPT !.loop_counter = 0]
          [] op = "pop"  -> Repush(m)
          [] op = "pop2" -> Repush(Repush(m))
          [] op = "popn" -> ForgetPopped(Times(f.oprs[1], PushFromHistory, m))
          [] op \in RamWriters ->
                [set_ram(m, curr.dst, "UINT32", f.prev) EXCEPT !.pc = @ + 1]
          [] op \in UintPushers -> pop_uint(m)
          [] op \in IntPushers  -> push_word(m, "UINT32", 0)
          [] OTHER -> m

=============================================================================
