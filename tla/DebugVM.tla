------------------------------ MODULE DebugVM --------------------------------
(***************************************************************************)
(* The debugging virtual machine, class DebugVM of dvm.cpp, as main runs   *)
(* it (dvm_main_NOTHREAD).                                                 *)
(*                                                                         *)
(* A first DebugVM executes the whole program and records a frame for each *)
(* executed instruction (exec_all_IFBF).  A second one, on memory loaded   *)
(* anew, then lets the user walk along the frames: execute the current     *)
(* one, undo the last one, run on, look at frames, and change memory and   *)
(* the stacks from menus.  Between two inputs nothing happens, so an       *)
(* action is one instruction built, one entry of exec_handle, or one input *)
(* with everything the program does before it waits again.                 *)
(*                                                                         *)
(* Frames are numbered from 1 and a pointer to a frame is its number, or   *)
(* 0 for NULL; the next_iframe of frame i is i + 1 and its last_iframe is  *)
(* i - 1.  append_iframe searches a loop's frame for lcont and lbrk from   *)
(* an index past the end, so it throws unless the vector is empty, and     *)
(* then the frame's parent_iframe stays NULL.                              *)
(***************************************************************************)
EXTENDS Machine

CONSTANTS Programs,    \* records of the code and the word it starts at
          FreshTypes,  \* types uninitialised memory may happen to have
          LockOptions, \* exec_locked, from the command line
          Inputs,      \* what users do
          EditWords, EditValues, \* where and what they write from the menus
          MaxFrames, MaxHistory  \* bounds on the frames built and on what was popped

ASSUME DebugVMAssumption ==
    /\ \A p \in Programs : p.code \in Seq(WordType) /\ p.start \in Nat
    /\ EditWords \subseteq Nat /\ EditValues \subseteq WordType
    /\ MaxFrames \in Nat /\ MaxHistory \in Nat

VARIABLES prog,
          at,          \* where control is
          m,           \* the machine
          iframe_vec, curr_iframe, last_iframe, curr_iframe_num,
          exec_locked, in_bp_mode, exec_locked_argv,
          program_end_reached, shutdown_triggered, show_iframe_pos,
          trace        \* not in the code: what the builder had before each frame

frames == <<iframe_vec, prog, trace, exec_locked_argv>>
position == <<curr_iframe, last_iframe, curr_iframe_num>>
modes == <<exec_locked, in_bp_mode>>
flags == <<program_end_reached, shutdown_triggered>>
vars == <<at, m, frames, position, modes, flags, show_iframe_pos>>

NULL == 0
ShortMod == 65536   \* show_iframe_pos is 16 bits wide

\* The machine after loading a program.
Booted == [p \in Programs |-> [fresh \in FreshTypes |-> Boot(p.code, p.start, fresh)]]

Init ==
    /\ prog \in Programs
    /\ at = "build"
    /\ \E fresh \in FreshTypes : m = Booted[prog][fresh]
    /\ iframe_vec = <<>>
    /\ curr_iframe = NULL
    /\ last_iframe = NULL
    /\ curr_iframe_num = 0
    /\ exec_locked_argv \in LockOptions
    /\ exec_locked = exec_locked_argv
    /\ in_bp_mode = FALSE
    /\ program_end_reached = FALSE
    /\ shutdown_triggered = FALSE
    /\ show_iframe_pos = 0
    /\ trace = <<>>

Running == m.err = "none"
Stop(e) == m' = Fail(m, e)

\* What a user can see of a machine.
Seen(mach) ==
    [pc |-> mach.pc, ram |-> mach.ram, wstk |-> mach.wstk, cstk |-> mach.cstk,
     loop_counter |-> mach.loop_counter, popped_uints |-> mach.popped_uints]

-----------------------------------------------------------------------------
(* Building the frames.                                                    *)

\* append_iframe, after build_iframe's switch.
AppendError(op) == op \in {"lcont", "lbrk"} /\ iframe_vec # <<>>

\* One round of exec_all_IFBF.
BuildFrame ==
    /\ at = "build"
    /\ Running
    /\ Len(iframe_vec) < MaxFrames
    /\ LET op == opcode(m)
           error == IF Fetch(m) # "none" THEN Fetch(m)
                    ELSE IF BuildError(m, op) # "none" THEN BuildError(m, op)
                    ELSE IF AppendError(op) THEN "exception" ELSE "none"
       IN  \/ /\ error # "none"
              /\ Stop(error)
              /\ UNCHANGED <<at, frames, position, flags>>
           \/ /\ error = "none"
              /\ LET f == NewFrame(m, op)
                 IN  /\ m' = exec_iframe(m, f)
                     /\ iframe_vec' = Append(iframe_vec, Remember(m, f))
              /\ trace' = Append(trace, Seen(m))
              /\ program_end_reached' = (op \in Ends)
              /\ at' = IF op \in Ends THEN "built" ELSE "build"
              /\ UNCHANGED <<prog, exec_locked_argv, position, shutdown_triggered>>
    /\ UNCHANGED <<modes, show_iframe_pos>>

\* Variants: the second session on the first one's memory or call stack.
OnOldRam(fresh) == [Booted[prog][fresh] EXCEPT !.ram = m.ram, !.types = m.types]
OnOldCallStack(fresh) == [Booted[prog][fresh] EXCEPT !.cstk = m.cstk, !.drained = m.drained]

\* A new Ram and a new DebugVM with new stacks, and the program loaded again.
SecondMachine(fresh) == Booted[prog][fresh]

\* The rest of dvm_main_NOTHREAD up to the first exec_handle: start_debug and
\* the head of mainloop_handle.
StartDebug ==
    /\ at = "built"
    /\ Running
    /\ \E fresh \in FreshTypes : m' = SecondMachine(fresh)
    /\ curr_iframe' = 1
    /\ last_iframe' = NULL
    /\ curr_iframe_num' = 0
    /\ program_end_reached' = FALSE
    /\ shutdown_triggered' = FALSE
    /\ at' = "exec_handle"
    /\ UNCHANGED <<frames, modes, show_iframe_pos>>

-----------------------------------------------------------------------------
(* The main loop.                                                          *)

\* mainloop_handle after exec_handle has returned, having executed or not.
\* last_iframe becomes the frame before the one just left.  next_iframe is then
\* read through curr_iframe, which after the last frame is NULL: a crash.
NextFrame(last) ==
    /\ curr_iframe_num' = curr_iframe_num + 1
    /\ \/ /\ program_end_reached'
          /\ at' = "end_menu"
          /\ last_iframe' = last
          /\ UNCHANGED curr_iframe
       \/ /\ ~program_end_reached' /\ shutdown_triggered'
          /\ at' = "exited"
          /\ last_iframe' = last
          /\ UNCHANGED curr_iframe
       \/ /\ ~program_end_reached' /\ ~shutdown_triggered'
          /\ last_iframe' = curr_iframe - 1
          /\ \/ /\ curr_iframe = Len(iframe_vec)
                /\ curr_iframe' = NULL
                /\ at' = "crashed"
             \/ /\ curr_iframe # Len(iframe_vec)
                /\ curr_iframe' = curr_iframe + 1
                /\ at' = "exec_handle"

\* exec_iframe(curr_iframe) and what follows it.
Execute ==
    LET f == iframe_vec[curr_iframe]
        executed == exec_iframe(m, f)
    IN  /\ iframe_vec' = [iframe_vec EXCEPT ![curr_iframe] = Remember(m, f)]
        /\ program_end_reached' = (program_end_reached \/ f.opcode \in Ends)
        /\ UNCHANGED <<prog, trace, exec_locked_argv, modes, shutdown_triggered, show_iframe_pos>>
        /\ m' = executed
        /\ \/ executed.err # "none" /\ UNCHANGED <<at, position>>
           \/ executed.err = "none" /\ NextFrame(curr_iframe)

\* Leaving exec_handle without executing anything.
Skip ==
    /\ UNCHANGED <<m, frames, program_end_reached>>
    /\ NextFrame(last_iframe)

\* Variant: the breakpoint mode ignored.
WaitsWhenLocked == exec_locked

WaitsForUser == exec_locked /\ ~in_bp_mode

\* The head of exec_handle.  There is no breakpoint: no menu makes one.
ExecHandle ==
    /\ at = "exec_handle"
    /\ Running
    /\ \/ /\ Fetch(m) # "none"
          /\ Stop(Fetch(m))
          /\ UNCHANGED <<at, frames, position, modes, flags, show_iframe_pos>>
       \/ /\ Fetch(m) = "none" /\ exec_locked /\ ~WaitsForUser
          /\ Execute
       \/ /\ Fetch(m) = "none" /\ WaitsForUser
          /\ at' = "prompt"
          /\ show_iframe_pos' = curr_iframe_num % ShortMod
          /\ UNCHANGED <<m, frames, position, modes, flags>>
       \/ /\ Fetch(m) = "none" /\ ~exec_locked
          /\ UNCHANGED <<modes, shutdown_triggered, show_iframe_pos>>
          /\ Skip

-----------------------------------------------------------------------------
(* Inputs at the prompt of exec_handle.                                    *)

Prompted(input) == at = "prompt" /\ Running /\ input \in Inputs

ExecCurrInstr == Prompted("EXEC_CURR_INSTR") /\ Execute

\* Variant: curr_iframe_num moved back by one frame only.
UndoCountingOne ==
    /\ Prompted("UNDO_PREV_INSTR")
    /\ curr_iframe_num > 0
    /\ Len(m.popped_retaddrs) < MaxHistory /\ Len(m.popped_uints) <= MaxHistory
    /\ LET undone == curr_iframe - 1
           back == IF undone > 1 THEN undone - 1 ELSE 1
       IN  /\ m' = undo_exec_iframe(m, iframe_vec[undone], iframe_vec[back])
           /\ curr_iframe' = back
           /\ curr_iframe_num' = curr_iframe_num - 1
    /\ UNCHANGED <<at, frames, last_iframe, modes, flags, show_iframe_pos>>

\* The frame undone is the one before curr_iframe; curr_iframe then moves to
\* the one before that.
UndoPrevInstr ==
    /\ Prompted("UNDO_PREV_INSTR")
    /\ curr_iframe_num > 0
    /\ Len(m.popped_retaddrs) < MaxHistory /\ Len(m.popped_uints) <= MaxHistory
    /\ LET undone == curr_iframe - 1
           back == IF undone > 1 THEN undone - 1 ELSE 1
       IN  /\ m' = undo_exec_iframe(m, iframe_vec[undone], iframe_vec[back])
           /\ curr_iframe' = back
           /\ curr_iframe_num' = back - 1
    /\ UNCHANGED <<at, frames, last_iframe, modes, flags, show_iframe_pos>>

\* Both modes leave exec_handle without executing the current frame.
ExecUntilBp ==
    /\ Prompted("EXEC_UNTIL_BP")
    /\ in_bp_mode' = TRUE
    /\ UNCHANGED <<exec_locked, shutdown_triggered, show_iframe_pos>>
    /\ Skip

ExecUntilEnd ==
    /\ Prompted("EXEC_UNTIL_END")
    /\ exec_locked' = FALSE
    /\ UNCHANGED <<in_bp_mode, shutdown_triggered, show_iframe_pos>>
    /\ Skip

Quit ==
    /\ Prompted("QUIT")
    /\ shutdown_triggered' = TRUE
    /\ Skip
    /\ UNCHANGED <<modes, show_iframe_pos>>

\* Showing frames: iframe_vec->vec->at(show_iframe_pos) throws out of range.
ShowImdLastInstr ==
    /\ Prompted("SHOW_IMD_LAST_INSTR")
    /\ curr_iframe_num > 0
    /\ last_iframe = NULL
    /\ Stop("fault")
    /\ UNCHANGED <<at, frames, position, modes, flags, show_iframe_pos>>

ShowAt(pos) ==
    /\ show_iframe_pos' = pos
    /\ m' = IF pos \in 0 .. Len(iframe_vec) - 1 THEN m ELSE Fail(m, "exception")
    /\ UNCHANGED <<at, frames, position, modes, flags>>

ShowNextInstr ==
    /\ Prompted("SHOW_NEXT_INSTR")
    /\ show_iframe_pos # Len(iframe_vec) - 1
    /\ ShowAt((show_iframe_pos + 1) % ShortMod)

ShowLastInstr ==
    /\ Prompted("SHOW_LAST_INSTR")
    /\ curr_iframe_num > 0
    /\ ShowAt((show_iframe_pos - 1) % ShortMod)

ShowCurrInstr == Prompted("SHOW_CURR_INSTR") /\ ShowAt(curr_iframe_num % ShortMod)

\* Variant: shutdown_triggered kept.
ResetKeepingShutdown(pc) ==
    /\ Len(m.popped_uints) <= MaxHistory
    /\ \E fresh \in FreshTypes :
          m' = [Booted[prog][fresh] EXCEPT
                   !.pc = pc,
                   !.loop_counter = m.loop_counter,
                   !.popped_uints = m.popped_uints,
                   !.popped_retaddrs = m.popped_retaddrs]
    /\ program_end_reached' = FALSE
    /\ exec_locked' = exec_locked_argv
    /\ in_bp_mode' = FALSE
    /\ curr_iframe' = 1
    /\ curr_iframe_num' = 0
    /\ UNCHANGED <<frames, last_iframe, shutdown_triggered, show_iframe_pos>>

\* reset_state: the machine is as after loading, save the loop counter, the
\* histories of popped values and pc, which only the caller may set.
ResetState(pc) ==
    /\ Len(m.popped_uints) <= MaxHistory
    /\ \E fresh \in FreshTypes :
          m' = [Booted[prog][fresh] EXCEPT
                   !.pc = pc,
                   !.loop_counter = m.loop_counter,
                   !.popped_uints = m.popped_uints,
                   !.popped_retaddrs = m.popped_retaddrs]
    /\ program_end_reached' = FALSE
    /\ shutdown_triggered' = FALSE
    /\ exec_locked' = exec_locked_argv
    /\ in_bp_mode' = FALSE
    /\ curr_iframe' = 1
    /\ curr_iframe_num' = 0
    /\ UNCHANGED <<frames, last_iframe, show_iframe_pos>>

ResetDebugger == Prompted("RESET_DEBUGGER") /\ ResetState(m.pc) /\ UNCHANGED at

-----------------------------------------------------------------------------
(* The menus, from the prompt and from the end menu.                       *)

InMenu(input) == at \in {"prompt", "end_menu"} /\ Running /\ input \in Inputs

Edit(mach) == m' = mach /\ UNCHANGED <<at, frames, position, modes, flags, show_iframe_pos>>

RamModify ==
    /\ InMenu("RAM_MODIFY")
    /\ \E w \in EditWords, type \in {"UINT32", "INT32"}, v \in EditValues :
          Edit(set_ram(m, w, type, v))

WstkPush ==
    /\ InMenu("WSTK_PUSH")
    /\ \E type \in {"UINT32", "INT32"}, v \in EditValues : Edit(push_word(m, type, v))

\* remove(1); the last word is not given back if it is a signed one.
WstkPop ==
    /\ InMenu("WSTK_POP")
    /\ m.wstk # <<>>
    /\ Edit(IF Len(m.wstk) = 1 /\ Top(m).type = "INT32" THEN Fail(m, "exception")
            ELSE [m EXCEPT !.wstk = Front(@)])

\* Any address may be typed in: that of a counted word, of memory above the top,
\* which nothing reads before a push writes it, of no memory, or across words or
\* the end of the block, where the stack is no longer one of whole words.
WstkModify ==
    /\ InMenu("WSTK_MODIFY")
    /\ \/ \E i \in DOMAIN m.wstk, type \in {"UINT32", "INT32"}, v \in EditValues :
             Edit([m EXCEPT !.wstk[i] = [type |-> type, val |-> v]])
       \/ \E mach \in {m, Fail(m, "exception"), Fail(m, "undefined")} : Edit(mach)

CstkPush == InMenu("CSTK_PUSH_ADDR") /\ \E a \in EditValues : Edit(push_addr(m, a))

\* CSTK_POP_ADDR and CSTK_REMOVE_ADDR.
CstkRemove ==
    /\ InMenu("CSTK_REMOVE_ADDR")
    /\ \E i \in DOMAIN m.cstk : Edit(take_addr(m, i))

CstkClear == InMenu("CSTK_CLEAR_ALL") /\ Edit([m EXCEPT !.cstk = <<>>, !.drained = FALSE])

\* Escape in a menu returns to the prompt it was opened from.
MenuQuit ==
    /\ InMenu("MENU_QUIT")
    /\ shutdown_triggered' = TRUE
    /\ UNCHANGED <<at, m, frames, position, modes, program_end_reached, show_iframe_pos>>

-----------------------------------------------------------------------------
(* The menu after the end of the program; anything but these asks again.   *)

AtEnd(input) == at = "end_menu" /\ Running /\ input \in Inputs

\* goto restart_mainloop_handle.
EndReset ==
    /\ AtEnd("RESET_DEBUGGER")
    /\ ResetState(prog.start)
    /\ at' = "exec_handle"

\* These leave the switch, and with it mainloop_handle: the program exits.
EndQuit ==
    /\ AtEnd("QUIT")
    /\ shutdown_triggered' = TRUE
    /\ at' = "exited"
    /\ UNCHANGED <<m, frames, position, modes, program_end_reached, show_iframe_pos>>

EndUndo ==
    /\ AtEnd("UNDO_PREV_INSTR")
    /\ LET back == IF curr_iframe > 1 THEN curr_iframe - 1 ELSE 1
       IN  /\ m' = undo_exec_iframe(m, iframe_vec[curr_iframe], iframe_vec[back])
           /\ curr_iframe' = back
           /\ curr_iframe_num' = back - 1
    /\ program_end_reached' = FALSE
    /\ at' = "exited"
    /\ UNCHANGED <<frames, last_iframe, modes, shutdown_triggered, show_iframe_pos>>

EndShowLast ==
    /\ AtEnd("SHOW_LAST_INSTR")
    /\ at' = "exited"
    /\ UNCHANGED <<m, frames, position, modes, flags, show_iframe_pos>>

-----------------------------------------------------------------------------
Main == BuildFrame \/ StartDebug \/ ExecHandle

User ==
    \/ ExecCurrInstr \/ UndoPrevInstr \/ ExecUntilBp \/ ExecUntilEnd \/ Quit
    \/ ShowImdLastInstr \/ ShowNextInstr \/ ShowLastInstr \/ ShowCurrInstr
    \/ ResetDebugger
    \/ RamModify \/ WstkPush \/ WstkPop \/ WstkModify
    \/ CstkPush \/ CstkRemove \/ CstkClear \/ MenuQuit
    \/ EndReset \/ EndQuit \/ EndUndo \/ EndShowLast

Next == Main \/ User

Spec == Init /\ [][Next]_vars

\* The program's only thread runs on whenever it does not wait for an input.
FairSpec == Spec /\ WF_vars(Main)

-----------------------------------------------------------------------------
\* The types of the variables, with the limits of the two stacks: no instruction,
\* undo or menu puts more on a stack than it has room for.
TypeOK ==
    /\ at \in {"build", "built", "exec_handle", "prompt", "end_menu", "exited", "crashed"}
    /\ m.ram \in [Words -> WordType \cup {Junk}]
    /\ m.types \in [Words -> {"UINT8", "UINT32", "INT32"} \cup FreshTypes]
    /\ m.wstk \in Seq([type : {"UINT32", "INT32"}, val : WordType]) /\ Len(m.wstk) <= WorkWords
    /\ m.cstk \in Seq(Nat) /\ Len(m.cstk) <= CallBlock
    /\ m.pc \in Nat
    /\ m.err \in {"none", "exception", "undefined", "fault"}
    /\ Len(iframe_vec) <= MaxFrames
    /\ curr_iframe \in 0 .. Len(iframe_vec)
    /\ last_iframe \in 0 .. Len(iframe_vec)
    /\ show_iframe_pos \in 0 .. ShortMod - 1

\* Whatever the user does, while the debugger waits for input or is about to
\* execute, curr_iframe is a frame, and curr_iframe_num, which decides whether
\* there is something to undo or to show, is that frame's instr_num.
PositionAgrees ==
    at \in {"exec_handle", "prompt"} =>
       /\ curr_iframe \in DOMAIN iframe_vec
       /\ curr_iframe_num = curr_iframe - 1

\* The session the user has ended, from the prompt or from a menu, begins no
\* other frame than the one it was at, unless the user has reset it since.
EndedSessionEnds == at = "exec_handle" => ~shutdown_triggered

\* What the machine should be before the current frame: what the builder had.
OnTrace == Seen(m) = trace[curr_iframe]

\* A session that executes frame after frame, looking at frames in between,
\* sees at each what the builder saw there: exec_iframe repeats on new memory
\* what exec_iframe_IFBF did, whatever uninitialised memory held for either.
ReplayMatchesBuild == at \in {"exec_handle", "prompt"} /\ Running => OnTrace

\* In such a session executing a frame never throws, and the frames never end
\* before the program does.
ReplayNeverFails ==
    [][ExecHandle \/ ExecCurrInstr => m'.err = "none" /\ at' # "crashed"]_vars

\* Undoing an instruction that only works on the working stack with unsigned
\* words, on the stack and the history the builder had after it, gives back the
\* stack it had before it.
UndoRestoresWorkStack ==
    [][\A i \in 2 .. Len(iframe_vec) :
          (/\ UndoPrevInstr
           /\ curr_iframe = i
           /\ iframe_vec[i - 1].opcode \in UintPushers \cup {"pop", "pop2"}
           /\ m.wstk = trace[i].wstk
           /\ m.popped_uints = trace[i].popped_uints)
          => m'.wstk = trace[i - 1].wstk]_vars

\* Executing until a breakpoint comes to a stop: at the end of the program,
\* after one more instruction where the user has asked to quit, or where an
\* exception or a fault ends it.
BreakpointRunStops ==
    at = "exec_handle" /\ in_bp_mode
       ~> at \in {"end_menu", "exited", "crashed"} \/ ~Running

-----------------------------------------------------------------------------
(* What the code, or the menus it prints, say of it, and it does not do.   *)

\* dvm.cpp:211: undo_exec_iframe "reverses execution of the last executed
\* instruction-frame": it leads back to what the builder had at the frame the
\* debugger is then at.
UndoReverses == [][UndoPrevInstr /\ OnTrace => OnTrace']_vars

=============================================================================
