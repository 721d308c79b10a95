----------------------------- MODULE ThreadedDVM ------------------------------
(***************************************************************************)
(* The debugger started with two threads (dvm_main and main_dvm_handle of  *)
(* dvm.cpp): IFrame_builder_thread executes the program and appends a      *)
(* frame for each instruction, while DVM_user_thread already walks along   *)
(* the same IFrameVector.  There is no lock; each thread has its own Ram   *)
(* and DebugVM, so the frames, the links between them and the std::vector  *)
(* that holds them are all they share, and all that is modelled here.      *)
(* What an instruction does to the user's machine is module DebugVM.       *)
(*                                                                         *)
(* Frames are numbered from 1 in the order they are built.  An action is   *)
(* a part of a function within which a thread makes one access to what is  *)
(* shared; accesses happen in program order, as on x64.                    *)
(***************************************************************************)
EXTENDS Integers

CONSTANTS Programs,   \* records: number of frames, and what comes then
          Inputs,     \* what the user does
          MaxFrames   \* bound on the frames of a program without an end

\* A program ends, fails when its last frame is built, appended or executed, or
\* has no end.
ASSUME ProgramsAssumption ==
    Programs \subseteq [frames : Nat \ {0},
                        then : {"end", "throws_building", "throws_appending",
                                "throws_executing", "endless"}]
ASSUME MaxFramesAssumption == MaxFrames \in Nat \ {0}

VARIABLES prog,
          main,       \* the thread that creates the others
          b, u,       \* where the builder's and the user's thread are
          over,       \* how the process has ended, or "no"
          built,      \* frames with all their fields set by build_iframe
          linked,     \* frames that are reached from the frame before them
          size, capacity, moving, \* the vector; moving: its storage is being replaced
          vec_alive,  \* the vector has not been deleted
          curr_iframe, last_iframe, show_iframe_pos,
          exec_locked, in_bp_mode, exec_locked_argv, shutdown_triggered

builder == <<b, built, linked, size, capacity, moving>>
modes == <<exec_locked, in_bp_mode, exec_locked_argv>>
session == <<curr_iframe, last_iframe, show_iframe_pos, modes, shutdown_triggered>>
vars == <<prog, main, over, vec_alive, u, builder, session>>

NULL == 0
ShortMod == 65536   \* show_iframe_pos is 16 bits wide

Init ==
    /\ prog \in Programs
    /\ main = "start" /\ b = "unborn" /\ u = "unborn"
    /\ over = "no"
    /\ built = 0 /\ linked = 0
    /\ size = 0 /\ capacity = 0 /\ moving = FALSE
    /\ vec_alive = TRUE
    /\ curr_iframe = NULL /\ last_iframe = NULL /\ show_iframe_pos = 0
    /\ exec_locked_argv \in BOOLEAN
    /\ exec_locked = exec_locked_argv /\ in_bp_mode = FALSE
    /\ shutdown_triggered = FALSE

Running == over = "no"

\* How an instruction or a menu may end the process by what it does to a
\* thread's own machine: it throws, or leaves what module DebugVM says of it.
OwnFailures == {"exception", "undefined"}

-----------------------------------------------------------------------------
(* The thread of main_dvm_handle.                                          *)

CreateUser ==
    /\ Running /\ main = "start"
    /\ \/ main' = "user_created" /\ u' = "load"
       \/ main' = "returning" /\ UNCHANGED u
    /\ UNCHANGED <<prog, over, vec_alive, builder, session>>

\* When the second thread is refused, main_dvm_handle closes the handle of the
\* first, which runs on, and returns.
CreateBuilder ==
    /\ Running /\ main = "user_created"
    /\ \/ main' = "waiting" /\ b' = "load"
       \/ main' = "returning" /\ UNCHANGED b
    /\ UNCHANGED <<prog, over, vec_alive, u, built, linked, size, capacity, moving, session>>

\* dvm_main after main_dvm_handle: the vector is deleted, then main returns.
DeleteVector ==
    /\ Running /\ main = "returning" /\ vec_alive
    /\ vec_alive' = FALSE
    /\ UNCHANGED <<prog, main, over, u, builder, session>>

ReturnFromMain ==
    /\ Running /\ main = "returning" /\ ~vec_alive
    /\ over' = "exit"
    /\ UNCHANGED <<prog, main, vec_alive, u, builder, session>>

\* While it waits for the user's thread nothing of main is left to happen: that
\* thread does not return, it calls ExitProcess.
MainThread == CreateUser \/ CreateBuilder \/ DeleteVector \/ ReturnFromMain

-----------------------------------------------------------------------------
(* IFrame_builder_thread.                                                  *)

BuilderIs(at) == Running /\ b = at
OnlyBuilder == UNCHANGED <<prog, main, vec_alive, u, session>>
Endless == prog.then = "endless"
IsLast(f) == ~Endless /\ f = prog.frames

BuilderLoads ==
    /\ BuilderIs("load")
    /\ b' = "build"
    /\ UNCHANGED <<over, built, linked, size, capacity, moving>>
    /\ OnlyBuilder

\* Variant: the frame linked when it is allocated, and its fields set later.
BuildAfterLinking ==
    /\ BuilderIs("build")
    /\ Endless => built < MaxFrames
    /\ linked' = built + 1
    /\ built' = IF linked > built THEN linked ELSE built
    /\ b' = IF linked > built THEN "link" ELSE "build"
    /\ UNCHANGED <<over, size, capacity, moving>>
    /\ OnlyBuilder

\* build_iframe up to its last switch: the frame is not yet reachable.
BuildFields ==
    /\ BuilderIs("build")
    /\ Endless => built < MaxFrames
    /\ \/ /\ IsLast(built + 1) /\ prog.then = "throws_building"
          /\ over' \in OwnFailures
          /\ UNCHANGED <<b, built>>
       \/ /\ ~(IsLast(built + 1) /\ prog.then = "throws_building")
          /\ built' = built + 1
          /\ b' = "link"
          /\ UNCHANGED over
    /\ UNCHANGED <<linked, size, capacity, moving>>
    /\ OnlyBuilder

\* The head of append_iframe: the last frame of the vector gets its next_iframe.
LinkFrame ==
    /\ BuilderIs("link")
    /\ linked' = built
    /\ b' = "push"
    /\ UNCHANGED <<over, built, size, capacity, moving>>
    /\ OnlyBuilder

\* The rest of it.  The search for the loop's frame throws; a full vector moves
\* to storage half as large again, and the old storage is given back before the
\* vector points to the new one.
PushBack ==
    /\ BuilderIs("push")
    /\ \/ /\ IsLast(built) /\ prog.then = "throws_appending"
          /\ over' = "exception"
          /\ UNCHANGED <<b, size, capacity, moving>>
       \/ /\ ~(IsLast(built) /\ prog.then = "throws_appending")
          /\ size < capacity
          /\ size' = size + 1
          /\ b' = "describe"
          /\ UNCHANGED <<over, capacity, moving>>
       \/ /\ ~(IsLast(built) /\ prog.then = "throws_appending")
          /\ size = capacity
          /\ moving' = TRUE
          /\ b' = "grow"
          /\ UNCHANGED <<over, size, capacity>>
    /\ UNCHANGED <<built, linked>>
    /\ OnlyBuilder

Grow ==
    /\ BuilderIs("grow")
    /\ capacity' = IF capacity < 2 THEN capacity + 1 ELSE capacity + capacity \div 2
    /\ size' = size + 1
    /\ moving' = FALSE
    /\ b' = "describe"
    /\ UNCHANGED <<over, built, linked>>
    /\ OnlyBuilder

\* build_infostr sets info_str to memory it has not yet written, ...
AllocInfostr ==
    /\ BuilderIs("describe")
    /\ b' = "writing"
    /\ UNCHANGED <<over, built, linked, size, capacity, moving>>
    /\ OnlyBuilder

\* ... writes it, and exec_iframe_IFBF executes the frame.
ExecIFBF ==
    /\ BuilderIs("writing")
    /\ \/ /\ IsLast(built) /\ prog.then = "throws_executing"
          /\ over' \in OwnFailures
          /\ UNCHANGED b
       \/ /\ ~(IsLast(built) /\ prog.then = "throws_executing")
          /\ b' = IF IsLast(built) THEN "free" ELSE "build"
          /\ UNCHANGED over
    /\ UNCHANGED <<built, linked, size, capacity, moving>>
    /\ OnlyBuilder

\* Variant: the frames deleted with the DebugVM that built them.
FreeWithFrames ==
    /\ BuilderIs("free")
    /\ b' = "done"
    /\ vec_alive' = FALSE
    /\ UNCHANGED <<over, built, linked, size, capacity, moving, prog, main, u, session>>

\* delete ram, delete dvm.
FreeBuilder ==
    /\ BuilderIs("free")
    /\ b' = "done"
    /\ UNCHANGED <<over, built, linked, size, capacity, moving>>
    /\ OnlyBuilder

Builder == \/ BuilderLoads \/ BuildFields \/ LinkFrame \/ PushBack \/ Grow
           \/ AllocInfostr \/ ExecIFBF \/ FreeBuilder

-----------------------------------------------------------------------------
(* DVM_user_thread.                                                        *)

UserIs(at) == Running /\ u = at
OnlyUser == UNCHANGED <<prog, main, vec_alive, builder>>

\* What iframe_vec->vec->at(i) may come to.  Storage given back may still hold
\* what it held.
AtOutcomes(i) ==
    (IF vec_alive /\ ~moving THEN {} ELSE {"fault"})
        \cup (IF i < size THEN {"no"} ELSE {"exception"})

\* What reading a field of frame f may come to.
FrameOutcomes(f) == IF f = NULL THEN {"fault"} ELSE IF vec_alive THEN {"no"} ELSE {"no", "fault"}

\* What printing info_str of frame f may come to: the string may not yet have
\* an end.  (NULL is printed as a word.)
InfostrOutcomes(f) ==
    FrameOutcomes(f) \cup (IF f = size /\ b = "writing" THEN {"fault"} ELSE {})

\* One access after another.
Then(first, second) == IF "no" \in first THEN (first \ {"no"}) \cup second ELSE first

UserLoads ==
    /\ UserIs("load")
    /\ u' = "start"
    /\ UNCHANGED <<over, session>>
    /\ OnlyUser

\* The head of mainloop_handle.
FirstFrame ==
    /\ UserIs("start")
    /\ over' \in AtOutcomes(0)
    /\ curr_iframe' = IF over' = "no" THEN 1 ELSE curr_iframe
    /\ u' = IF over' = "no" THEN "exec_handle" ELSE u
    /\ UNCHANGED <<last_iframe, show_iframe_pos, modes, shutdown_triggered>>
    /\ OnlyUser

\* next_iframe of the current frame.
NextIframe == IF curr_iframe < linked THEN curr_iframe + 1 ELSE NULL

\* mainloop_handle after exec_handle.  last_iframe becomes the frame before the
\* one just left, and next_iframe is read through the new current frame.
NextFrame(ends, shuts, last) ==
    \/ /\ ends
       /\ u' = "end_menu" /\ last_iframe' = last /\ UNCHANGED <<over, curr_iframe>>
    \/ /\ ~ends /\ shuts
       /\ u' = "leave" /\ last_iframe' = last /\ UNCHANGED <<over, curr_iframe>>
    \/ /\ ~ends /\ ~shuts
       /\ last_iframe' = curr_iframe - 1
       /\ curr_iframe' = NextIframe
       /\ over' \in Then(FrameOutcomes(curr_iframe), FrameOutcomes(NextIframe))
       /\ u' = "exec_handle"

\* The frame of die, on which the program ends.
EndsProgram(f) == prog.then = "end" /\ IsLast(f)

\* The instruction executed.
Execute ==
    /\ \/ NextFrame(EndsProgram(curr_iframe), shutdown_triggered, curr_iframe)
       \/ over' \in OwnFailures /\ UNCHANGED <<u, curr_iframe, last_iframe>>
    /\ UNCHANGED <<show_iframe_pos, modes, shutdown_triggered>>
    /\ OnlyUser

\* exec_handle left without executing the instruction.
Skip ==
    /\ NextFrame(FALSE, shutdown_triggered', last_iframe)
    /\ UNCHANGED show_iframe_pos
    /\ OnlyUser

\* The opcode is read from the user's memory first, which may throw.
ExecHandle ==
    /\ UserIs("exec_handle")
    /\ \/ /\ over' = "exception"
          /\ UNCHANGED <<u, session>>
          /\ OnlyUser
       \/ /\ exec_locked /\ in_bp_mode
          /\ Execute
       \/ /\ exec_locked /\ ~in_bp_mode
          /\ u' = "prompt"
          /\ show_iframe_pos' = (curr_iframe - 1) % ShortMod
          /\ UNCHANGED <<over, curr_iframe, last_iframe, modes, shutdown_triggered>>
          /\ OnlyUser
       \/ /\ ~exec_locked
          /\ UNCHANGED <<modes, shutdown_triggered>>
          /\ Skip

Prompted(input) == UserIs("prompt") /\ input \in Inputs

ExecCurrInstr == Prompted("EXEC_CURR_INSTR") /\ Execute

\* The frame before is found through the current one, and for the first frame
\* in the vector; what the instruction did to the user's machine is undone.
UndoPrevInstr ==
    /\ Prompted("UNDO_PREV_INSTR")
    /\ curr_iframe > 1
    /\ over' \in Then(FrameOutcomes(curr_iframe),
                     (IF curr_iframe = 2 THEN AtOutcomes(0) ELSE {"no"}) \cup OwnFailures)
    /\ curr_iframe' = IF curr_iframe > 2 THEN curr_iframe - 2 ELSE 1
    /\ UNCHANGED <<u, last_iframe, show_iframe_pos, modes, shutdown_triggered>>
    /\ OnlyUser

ExecUntilBp ==
    /\ Prompted("EXEC_UNTIL_BP")
    /\ in_bp_mode' = TRUE
    /\ UNCHANGED <<exec_locked, exec_locked_argv, shutdown_triggered>>
    /\ Skip

ExecUntilEnd ==
    /\ Prompted("EXEC_UNTIL_END")
    /\ exec_locked' = FALSE
    /\ UNCHANGED <<in_bp_mode, exec_locked_argv, shutdown_triggered>>
    /\ Skip

Quit ==
    /\ Prompted("QUIT")
    /\ shutdown_triggered' = TRUE
    /\ UNCHANGED modes
    /\ Skip

Show(outcomes) ==
    /\ over' \in outcomes
    /\ UNCHANGED <<u, curr_iframe, last_iframe, modes, shutdown_triggered>>
    /\ OnlyUser

\* What comes of printing the text of the frame at a position in the vector.
ShowAt(pos) == Show(Then(AtOutcomes(pos), InfostrOutcomes(pos + 1)))

\* Whether a position is the vector's last, as the user's thread sees it now.
BeforeLast(pos) == pos + 1 # size

\* SHOW_IMD_NEXT_INSTR prints the current frame, ...
ShowImdNextInstr ==
    /\ Prompted("SHOW_IMD_NEXT_INSTR")
    /\ BeforeLast(show_iframe_pos)
    /\ UNCHANGED show_iframe_pos
    /\ Show(InfostrOutcomes(curr_iframe))

\* ... and SHOW_IMD_LAST_INSTR the frame that last_iframe points to.
ShowImdLastInstr ==
    /\ Prompted("SHOW_IMD_LAST_INSTR")
    /\ curr_iframe > 1
    /\ UNCHANGED show_iframe_pos
    /\ Show(InfostrOutcomes(last_iframe))

ShowNextInstr ==
    /\ Prompted("SHOW_NEXT_INSTR")
    /\ BeforeLast(show_iframe_pos)
    /\ show_iframe_pos' = (show_iframe_pos + 1) % ShortMod
    /\ ShowAt(show_iframe_pos')

ShowLastInstr ==
    /\ Prompted("SHOW_LAST_INSTR")
    /\ curr_iframe > 1
    /\ show_iframe_pos' = (show_iframe_pos - 1) % ShortMod
    /\ ShowAt(show_iframe_pos')

ShowCurrInstr ==
    /\ Prompted("SHOW_CURR_INSTR")
    /\ show_iframe_pos' = (curr_iframe - 1) % ShortMod
    /\ ShowAt(show_iframe_pos')

\* What the prompt and the end menu share.
InMenu(input) == Running /\ u \in {"prompt", "end_menu"} /\ input \in Inputs

\* One frame of a display of all; the builder may go on between two of them.
DisplayIframes ==
    /\ InMenu("DISPLAY_IFRAMES")
    /\ UNCHANGED show_iframe_pos
    /\ \E i \in 0 .. size - 1 : ShowAt(i)

\* The menus for memory and the stacks change the user's machine only.
EditMachine ==
    /\ InMenu("EDIT")
    /\ over' \in OwnFailures \cup {"no"}
    /\ UNCHANGED <<u, session>>
    /\ OnlyUser

\* Quitting in a menu returns to where the menu was opened.
MenuQuit ==
    /\ InMenu("MENU_QUIT")
    /\ shutdown_triggered' = TRUE
    /\ UNCHANGED <<u, over, curr_iframe, last_iframe, show_iframe_pos, modes>>
    /\ OnlyUser

\* reset_state: the first frame again.
Reset ==
    /\ over' \in AtOutcomes(0)
    /\ curr_iframe' = IF over' = "no" THEN 1 ELSE curr_iframe
    /\ exec_locked' = exec_locked_argv /\ in_bp_mode' = FALSE
    /\ shutdown_triggered' = FALSE
    /\ UNCHANGED <<exec_locked_argv, last_iframe, show_iframe_pos>>
    /\ OnlyUser

ResetDebugger == Prompted("RESET_DEBUGGER") /\ Reset /\ UNCHANGED u

AtEnd(input) == UserIs("end_menu") /\ input \in Inputs

EndReset == AtEnd("RESET_DEBUGGER") /\ Reset /\ u' = "start"

EndQuit ==
    /\ AtEnd("QUIT")
    /\ shutdown_triggered' = TRUE
    /\ u' = "leave"
    /\ UNCHANGED <<over, curr_iframe, last_iframe, show_iframe_pos, modes>>
    /\ OnlyUser

\* Undoing the last instruction and showing it leave the end menu, and with it
\* mainloop_handle.
EndUndo ==
    /\ AtEnd("UNDO_PREV_INSTR")
    /\ over' \in Then(FrameOutcomes(curr_iframe),
                     (IF curr_iframe = 1 THEN AtOutcomes(0) ELSE {"no"}) \cup OwnFailures)
    /\ curr_iframe' = IF curr_iframe > 1 THEN curr_iframe - 1 ELSE 1
    /\ u' = "leave"
    /\ UNCHANGED <<last_iframe, show_iframe_pos, modes, shutdown_triggered>>
    /\ OnlyUser

EndShowLast ==
    /\ AtEnd("SHOW_LAST_INSTR")
    /\ over' \in InfostrOutcomes(last_iframe)
    /\ u' = "leave"
    /\ UNCHANGED <<curr_iframe, last_iframe, show_iframe_pos, modes, shutdown_triggered>>
    /\ OnlyUser

\* Variant: the thread just returns.
LeaveByReturning ==
    /\ UserIs("leave")
    /\ u' = "returned"
    /\ UNCHANGED <<over, session>>
    /\ OnlyUser

\* start_debug after mainloop_handle: ExitProcess ends every thread.
Leave ==
    /\ UserIs("leave")
    /\ over' = "exit"
    /\ UNCHANGED <<u, session>>
    /\ OnlyUser

UserRuns == UserLoads \/ FirstFrame \/ ExecHandle \/ Leave

UserInput == \/ ExecCurrInstr \/ UndoPrevInstr \/ ExecUntilBp \/ ExecUntilEnd \/ Quit
             \/ ShowImdNextInstr \/ ShowImdLastInstr
             \/ ShowNextInstr \/ ShowLastInstr \/ ShowCurrInstr \/ ResetDebugger
             \/ DisplayIframes \/ EditMachine \/ MenuQuit
             \/ EndReset \/ EndQuit \/ EndUndo \/ EndShowLast

Next == MainThread \/ Builder \/ UserRuns \/ UserInput

Spec == Init /\ [][Next]_vars

\* The scheduler runs each thread; nothing makes the user type.
FairSpec == Spec /\ WF_vars(MainThread) /\ WF_vars(Builder) /\ WF_vars(UserRuns)

-----------------------------------------------------------------------------
\* The types of the variables.
TypeOK ==
    /\ main \in {"start", "user_created", "waiting", "returning"}
    /\ b \in {"unborn", "load", "build", "link", "push", "grow", "describe",
              "writing", "free", "done"}
    /\ u \in {"unborn", "load", "start", "exec_handle", "prompt", "end_menu", "leave"}
    /\ over \in {"no", "exit", "exception", "undefined", "fault"}
    /\ built \in Nat /\ linked \in Nat
    /\ size \in Nat /\ capacity \in Nat /\ moving \in BOOLEAN
    /\ vec_alive \in BOOLEAN
    /\ curr_iframe \in Nat /\ last_iframe \in Nat /\ show_iframe_pos \in 0 .. ShortMod - 1
    /\ exec_locked \in BOOLEAN /\ in_bp_mode \in BOOLEAN /\ exec_locked_argv \in BOOLEAN
    /\ shutdown_triggered \in BOOLEAN

Walking == Running /\ u \in {"exec_handle", "prompt", "end_menu"}

\* However the two threads interleave, the user's thread only ever stands at a
\* frame whose operands and results the builder has finished, and so is the one
\* it keeps as the last: a frame becomes reachable, through the frame before it
\* or as the vector's first, only after build_iframe has set its fields.
WalksBuiltFrames == Walking => curr_iframe \in 1 .. built /\ last_iframe \in 0 .. built

\* The inputs and modes that leave a frame without executing it.
SkipsFrame == ExecUntilBp \/ ExecUntilEnd \/ (~exec_locked /\ ExecHandle)

\* Once the builder's thread has finished, the user's thread meets no freed
\* storage, no missing link and no unfinished text.  The two accesses that still
\* fault are mistakes of the walk itself, in the other start as well: leaving the
\* last frame without executing it, and showing the immediately last frame when
\* mainloop_handle has set last_iframe to what came before the first.
DoneBuilderIsSafe ==
    [][b = "done" /\ over' = "fault"
         => \/ SkipsFrame /\ curr_iframe = prog.frames
            \/ ShowImdLastInstr /\ last_iframe = NULL]_vars

AtMenu == u \in {"prompt", "end_menu"}

\* Asking to quit, at the prompt, at the end or in a menu, ends the whole process,
\* also while the builder's thread is still at work on a program without an end,
\* unless the user takes it back by a reset or never again leaves the prompt or
\* the end menu: a menu's quit returns there, and nobody has to type.
QuitEndsProcess ==
    shutdown_triggered ~> (~Running \/ ~shutdown_triggered \/ []AtMenu)

=============================================================================
