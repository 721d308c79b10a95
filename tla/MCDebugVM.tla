----------------------------- MODULE MCDebugVM -------------------------------
(***************************************************************************)
(* Programs and constants of DebugVM for TLC.  Memory has two words of     *)
(* metadata, so a program starts at word 2.  The type recorder stops at    *)
(* the first die, so functions come before it; and it loses its place      *)
(* after an instruction with two operands, so only one may be used, last   *)
(* before die, with a word after die for the recorder to stop at.          *)
(***************************************************************************)
EXTENDS DebugVM

Names == <<"die", "nop", "test_die", "swtch", "nspctr", "nspctst", "brkp", "poptr",
           "call", "ret", "jmp", "je", "jn", "jl", "jg", "jls", "jgs",
           "loop", "lcont", "lbrk", "psh", "pop", "pop2", "popn",
           "pshfr", "pshfrr", "pshfrs", "movtr", "stktr", "cpyr", "setr",
           "inc", "dec", "add", "sub", "mul", "div", "mod",
           "and", "not", "xor", "or", "lshft", "rshft", "lrot", "rrot",
           "incs", "decs", "adds", "subs", "muls", "divs", "mods",
           "ands", "nots", "xors", "ors", "lshfts", "rshfts", "lrots", "rrots">>

MCMnemonic == [n \in 0 .. Len(Names) - 1 |-> Names[n + 1]]
MCJunk == -1
MCTrap == -1
MCWordMod == 256

Arith == INSTANCE ALU WITH Width <- 8, Trap <- MCTrap
MCUintOp(op, l, r) == Arith!UintResult(op, l, r)
MCIntOp(op, l, r) == Arith!IntResult(op, l, r)
MCIntLess(l, r) == Arith!SignedLess(l, r)

\* Opcodes by name in a program, operands as they are.
Op(name) == CHOOSE n \in DOMAIN MCMnemonic : MCMnemonic[n] = name
Prog(code) == [code |-> code, start |-> 2]

Stack == Prog(<<Op("psh"), 5, Op("psh"), 3, Op("add"), Op("pop"), Op("inc"),
                Op("pop2"), Op("die")>>)
Branch == Prog(<<Op("psh"), 1, Op("psh"), 2, Op("jl"), 4, Op("jg"), 11,
                 Op("nop"), Op("sub"), Op("popn"), 2, Op("die")>>)
\* A function at word 2, called from word 5; and one that calls another.
Call == [code |-> <<Op("psh"), 7, Op("ret"), Op("call"), 2, Op("die")>>, start |-> 5]
Calls == [code |-> <<Op("nop"), Op("ret"), Op("call"), 2, Op("ret"),
                     Op("call"), 4, Op("die")>>, start |-> 7]
Recursive == Prog(<<Op("call"), 2, Op("die")>>)
CallTwice == [code |-> <<Op("nop"), Op("ret"), Op("call"), 2, Op("call"), 2, Op("die")>>,
              start |-> 4]
Memory == Prog(<<Op("psh"), 9, Op("movtr"), 0, Op("pshfr"), 0, Op("pshfrr"), 1,
                 Op("pop"), Op("cpyr"), 3, 1, Op("die"), 0>>)
StackToRam == Prog(<<Op("psh"), 1, Op("pshfrs"), Op("stktr"), 1, 0, Op("die"), 0>>)
SetRam == Prog(<<Op("nspctr"), 0, Op("setr"), 1, 6, Op("die"), 0>>)
SetThenNop == Prog(<<Op("setr"), 1, 6, Op("nop"), Op("die"), 0>>)
FreshVariable == Prog(<<Op("psh"), 4, Op("movtr"), 12, Op("die")>>)
SignedOps == Prog(<<Op("psh"), 5, Op("decs"), Op("psh"), 3, Op("adds"), Op("jls"), 11,
                    Op("nop"), Op("nspctst"), Op("test_die")>>)
Loop == Prog(<<Op("loop"), 2, 6, 8, Op("nop"), Op("die")>>)
LoopContinues == Prog(<<Op("loop"), 2, 6, 8, Op("lcont"), Op("die")>>)
ContinueFirst == Prog(<<Op("lcont"), Op("die")>>)
Forever == Prog(<<Op("jmp"), 2, Op("die")>>)
Unknown == Prog(<<200, Op("die")>>)
Underflow == Prog(<<Op("pop"), Op("die")>>)
Breakpoint == Prog(<<Op("brkp"), Op("die")>>)

Finite == {Stack, Branch, Call, Calls, Memory, StackToRam, SetRam, SignedOps, Loop}
Failing == {Recursive, CallTwice, SetThenNop, FreshVariable, LoopContinues,
            ContinueFirst, Forever, Unknown, Underflow, Breakpoint}

Looking == {"SHOW_NEXT_INSTR", "SHOW_LAST_INSTR", "SHOW_CURR_INSTR", "SHOW_IMD_LAST_INSTR"}

MCReplayInputs == Looking \cup {"EXEC_CURR_INSTR", "MENU_QUIT", "QUIT"}
MCUndoInputs == {"EXEC_CURR_INSTR", "UNDO_PREV_INSTR"}
MCRunInputs == {"EXEC_CURR_INSTR", "UNDO_PREV_INSTR", "EXEC_UNTIL_BP", "EXEC_UNTIL_END",
                "RESET_DEBUGGER", "QUIT"}
MCMenuInputs == {"EXEC_CURR_INSTR", "UNDO_PREV_INSTR", "EXEC_UNTIL_BP", "SHOW_LAST_INSTR",
                 "RAM_MODIFY", "WSTK_PUSH", "WSTK_POP", "WSTK_MODIFY",
                 "CSTK_PUSH_ADDR", "CSTK_REMOVE_ADDR", "CSTK_CLEAR_ALL",
                 "MENU_QUIT", "RESET_DEBUGGER", "QUIT"}

MCReplayPrograms == (Finite \cup Failing) \ {FreshVariable}
MCFinite == Finite
MCStackPrograms == {Stack, Branch}
MCMenuPrograms == {Call}

MCEditWords == {4, 20}
MCEditValues == {3}

=============================================================================
