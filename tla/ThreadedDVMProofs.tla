-------------------------- MODULE ThreadedDVMProofs ---------------------------
(***************************************************************************)
(* Proofs about the debugger with two threads: for programs of every       *)
(* length, with or without an end, and every interleaving.                 *)
(***************************************************************************)
EXTENDS ThreadedDVM, TLAPS

\* How far the builder's thread is, by where it is: it alone writes what the
\* two share, so these relations hold whatever the user's thread does.
BuilderInv ==
    /\ b \in {"unborn", "load", "build"} => size = built /\ linked = built /\ ~moving
    /\ b = "link" => built = linked + 1 /\ size = linked /\ ~moving
    /\ b = "push" => linked = built /\ built = size + 1 /\ ~moving
    /\ b = "grow" => linked = built /\ built = size + 1
    /\ b \in {"describe", "writing", "free", "done"} =>
          linked = built /\ size = built /\ ~moving
    /\ b \in {"free", "done"} => EndsProgram(built)
    /\ IsLast(built) =>
          /\ b \in {"link", "push"} => prog.then # "throws_building"
          /\ b \in {"grow", "describe", "writing"} =>
                prog.then \notin {"throws_building", "throws_appending"}

\* The vector is deleted only when the second thread was never created.
MainInv ==
    /\ prog \in Programs
    /\ ~vec_alive => main = "returning"
    /\ main # "waiting" => b = "unborn"

\* What the user's thread stands at is linked, and so is its last frame, which
\* is one where the end menu shows it.
WalkInv ==
    /\ Walking => curr_iframe \in 1 .. linked
    /\ Running => last_iframe \in 0 .. linked
    /\ Walking /\ u = "end_menu" => last_iframe # NULL

Inv == TypeOK /\ BuilderInv /\ MainInv /\ WalkInv

LEMMA InitInv == Init => Inv
<1> SUFFICES ASSUME Init PROVE Inv
  OBVIOUS
<1>1. TypeOK
  <2>1. exec_locked \in BOOLEAN /\ in_bp_mode \in BOOLEAN /\ exec_locked_argv \in BOOLEAN
    BY Zenon DEF Init
  <2>2. show_iframe_pos \in 0 .. ShortMod - 1
    BY DEF Init, ShortMod
  <2>3. QED
    BY <2>1, <2>2 DEF Init, TypeOK, NULL
<1>2. BuilderInv
  BY DEF Init, BuilderInv
<1>3. MainInv
  <2>1. prog \in Programs /\ vec_alive /\ b = "unborn"
    BY DEF Init
  <2>2. QED
    BY <2>1 DEF MainInv
<1>4. WalkInv
  <2>1. last_iframe = 0 /\ linked = 0 /\ u = "unborn"
    BY DEF Init, NULL
  <2>2. QED
    BY <2>1 DEF WalkInv, Walking
<1>5. QED
  BY <1>1, <1>2, <1>3, <1>4 DEF Inv

\* The thread that creates the others.
LEMMA MainStep == Inv /\ MainThread => Inv'
<1> SUFFICES ASSUME Inv, MainThread PROVE Inv'
  OBVIOUS
<1> USE DEF Inv, TypeOK, BuilderInv, MainInv, WalkInv, Walking, Running, IsLast, Endless, EndsProgram,
            builder, session, modes
<1>1. CASE CreateUser
  BY <1>1 DEF CreateUser
<1>2. CASE CreateBuilder
  BY <1>2 DEF CreateBuilder
<1>3. CASE DeleteVector
  BY <1>3 DEF DeleteVector
<1>4. CASE ReturnFromMain
  BY <1>4 DEF ReturnFromMain
<1>5. QED
  BY <1>1, <1>2, <1>3, <1>4 DEF MainThread

\* The builder's thread.  A frame is linked only after it is built, and the
\* vector follows the links.
LEMMA BuilderStep == Inv /\ Builder => Inv'
<1> SUFFICES ASSUME Inv, Builder PROVE Inv'
  OBVIOUS
<1> USE DEF Inv, TypeOK, BuilderInv, MainInv, WalkInv, Walking, Running, IsLast, Endless, EndsProgram,
            OnlyBuilder, BuilderIs, session, modes, OwnFailures
<1>1. CASE BuilderLoads
  BY <1>1 DEF BuilderLoads
<1>2. CASE BuildFields
  BY <1>2 DEF BuildFields
<1>3. CASE LinkFrame
  BY <1>3 DEF LinkFrame
<1>4. CASE PushBack
  <2>1. built' = built /\ linked' = linked /\ capacity' = capacity /\ over' \in {"no", "exception"}
    BY <1>4 DEF PushBack
  <2>2. CASE over' = "exception"
    BY <1>4, <2>1, <2>2 DEF PushBack
  <2>3. CASE size' = size + 1 /\ b' = "describe" /\ UNCHANGED <<over, moving>>
    BY <1>4, <2>1, <2>3 DEF PushBack
  <2>4. CASE moving' = TRUE /\ b' = "grow" /\ UNCHANGED <<over, size>>
    BY <1>4, <2>1, <2>4 DEF PushBack
  <2>5. QED
    BY <1>4, <2>2, <2>3, <2>4 DEF PushBack
<1>5. CASE Grow
  <2>1. capacity' \in Nat
    BY <1>5 DEF Grow
  <2>2. QED
    BY <1>5, <2>1 DEF Grow
<1>6. CASE AllocInfostr
  BY <1>6 DEF AllocInfostr
<1>7. CASE ExecIFBF
  <2>1. prog.then \in {"end", "throws_building", "throws_appending", "throws_executing", "endless"}
    BY ProgramsAssumption
  <2>2. QED
    BY <1>7, <2>1 DEF ExecIFBF
<1>8. CASE FreeBuilder
  BY <1>8 DEF FreeBuilder
<1>9. QED
  BY <1>1, <1>2, <1>3, <1>4, <1>5, <1>6, <1>7, <1>8 DEF Builder

Outcomes == {"no", "exception", "undefined", "fault"}

\* The user's thread changes nothing the builder relies on.
LEMMA UserLeavesBuilder ==
  ASSUME Inv, OnlyUser, WalkInv', curr_iframe' \in Nat, last_iframe' \in Nat,
         show_iframe_pos' \in 0 .. ShortMod - 1,
         exec_locked' \in BOOLEAN, in_bp_mode' \in BOOLEAN, UNCHANGED exec_locked_argv,
         shutdown_triggered' \in BOOLEAN,
         u' \in {"load", "start", "exec_handle", "prompt", "end_menu", "leave"},
         over' \in Outcomes \cup {"exit"}
  PROVE  Inv'
<1>1. TypeOK'
  BY DEF Inv, TypeOK, OnlyUser, builder, Outcomes
<1>2. BuilderInv' /\ MainInv'
  BY DEF Inv, BuilderInv, MainInv, OnlyUser, builder, IsLast, Endless, EndsProgram
<1>3. QED
  BY <1>1, <1>2 DEF Inv

LEMMA OutcomesTyped ==
  ASSUME NEW i, NEW f
  PROVE  /\ AtOutcomes(i) \subseteq Outcomes
         /\ FrameOutcomes(f) \subseteq Outcomes
         /\ InfostrOutcomes(f) \subseteq Outcomes
         /\ OwnFailures \subseteq Outcomes
         /\ \A A, B \in SUBSET Outcomes : Then(A, B) \subseteq Outcomes
BY DEF AtOutcomes, FrameOutcomes, InfostrOutcomes, Then, OwnFailures, Outcomes

\* Where a position comes to rest.
LEMMA PositionTyped == \A n \in Int : n % ShortMod \in 0 .. ShortMod - 1
BY DEF ShortMod

\* Moving to the next frame succeeds only where there is one.
LEMMA NextFrameStep ==
  ASSUME Inv, Running, u \in {"exec_handle", "prompt"}, NEW ends \in BOOLEAN, NEW shuts \in BOOLEAN,
         NEW last \in 0 .. linked, ends => last # NULL,
         NextFrame(ends, shuts, last), UNCHANGED linked
  PROVE  /\ WalkInv' /\ curr_iframe' \in Nat /\ last_iframe' \in Nat
         /\ u' \in {"exec_handle", "end_menu", "leave"}
         /\ over' \in {"no", "fault"}
<1>0. curr_iframe \in 1 .. linked /\ linked \in Nat
  BY DEF Inv, WalkInv, Walking, TypeOK
<1>1. CASE ends \/ shuts
  BY <1>0, <1>1 DEF NextFrame, WalkInv, Walking, Running
<1>2. CASE ~ends /\ ~shuts
  <2>1. /\ curr_iframe' = NextIframe /\ last_iframe' = curr_iframe - 1
        /\ over' \in Then(FrameOutcomes(curr_iframe), FrameOutcomes(NextIframe))
        /\ u' = "exec_handle"
    BY <1>2 DEF NextFrame
  <2>2. over' = "no" => NextIframe # NULL
    BY <2>1 DEF Then, FrameOutcomes
  <2>3. NextIframe # NULL => NextIframe \in 1 .. linked
    BY <1>0 DEF NextIframe, NULL
  <2>4. over' \in {"no", "fault"}
    BY <2>1 DEF Then, FrameOutcomes
  <2>5. NextIframe \in Nat /\ last_iframe' \in 0 .. linked
    BY <1>0, <2>1 DEF NextIframe, NULL
  <2>6. QED
    BY <1>0, <2>1, <2>2, <2>3, <2>4, <2>5 DEF WalkInv, Walking, Running
<1>3. QED
  BY <1>1, <1>2

LEMMA ExecuteStep ==
  ASSUME Inv, Running, u \in {"exec_handle", "prompt"}, Execute
  PROVE  Inv'
<1>0. OnlyUser /\ UNCHANGED <<linked, exec_locked_argv>>
  BY DEF Execute, OnlyUser, builder, modes
<1>1. CASE NextFrame(EndsProgram(curr_iframe), shutdown_triggered, curr_iframe)
  <2>1. curr_iframe \in 0 .. linked /\ curr_iframe # NULL
    BY DEF Inv, WalkInv, Walking, TypeOK, NULL
  <2>2. EndsProgram(curr_iframe) \in BOOLEAN /\ shutdown_triggered \in BOOLEAN
    BY DEF EndsProgram, IsLast, Endless, Inv, TypeOK
  <2>3. /\ WalkInv' /\ curr_iframe' \in Nat /\ last_iframe' \in Nat
        /\ u' \in {"exec_handle", "end_menu", "leave"} /\ over' \in {"no", "fault"}
    BY <1>0, <1>1, <2>1, <2>2, NextFrameStep
  <2>4. QED
    BY <1>0, <2>3, UserLeavesBuilder DEF Execute, modes, Inv, TypeOK, Outcomes
<1>2. CASE over' \in OwnFailures /\ UNCHANGED <<u, curr_iframe, last_iframe>>
  <2>1. WalkInv'
    BY <1>2 DEF WalkInv, Walking, Running, OwnFailures
  <2>2. QED
    BY <1>0, <1>2, <2>1, UserLeavesBuilder DEF Execute, modes, Inv, TypeOK, Outcomes, OwnFailures
<1>3. QED
  BY <1>1, <1>2 DEF Execute

LEMMA SkipStep ==
  ASSUME Inv, Running, u \in {"exec_handle", "prompt"}, Skip, UNCHANGED exec_locked_argv,
         exec_locked' \in BOOLEAN, in_bp_mode' \in BOOLEAN, shutdown_triggered' \in BOOLEAN
  PROVE  Inv'
<1>1. OnlyUser /\ UNCHANGED linked /\ NextFrame(FALSE, shutdown_triggered', last_iframe)
  BY DEF Skip, OnlyUser, builder
<1>2. show_iframe_pos' \in 0 .. ShortMod - 1
  BY DEF Skip, Inv, TypeOK
<1>3. last_iframe \in 0 .. linked
  BY DEF Inv, WalkInv
<1>4. /\ WalkInv' /\ curr_iframe' \in Nat /\ last_iframe' \in Nat
      /\ u' \in {"exec_handle", "end_menu", "leave"} /\ over' \in {"no", "fault"}
  BY <1>1, <1>3, NextFrameStep
<1>5. QED
  BY <1>1, <1>2, <1>4, UserLeavesBuilder DEF Outcomes

\* The vector's first frame, at the start and after a reset.
LEMMA FirstFrameStep ==
  ASSUME Inv, Running, u' # "end_menu" \/ u' = u, over' \in AtOutcomes(0),
         curr_iframe' = IF over' = "no" THEN 1 ELSE curr_iframe, UNCHANGED <<linked, last_iframe>>
  PROVE  WalkInv' /\ curr_iframe' \in Nat /\ over' \in Outcomes
<1>1. over' = "no" => 0 < size /\ curr_iframe' = 1
  BY DEF AtOutcomes
<1>2. size \in Nat /\ linked \in Nat /\ size <= linked
  BY DEF Inv, TypeOK, BuilderInv
<1>3. over' = "no" => curr_iframe' \in 1 .. linked'
  BY <1>1, <1>2
<1>4. over' \in Outcomes
  BY OutcomesTyped
<1>5. QED
  BY <1>3, <1>4 DEF WalkInv, Walking, Running, Inv, TypeOK

\* What only shows frames, or stays where it is.
LEMMA StayStep ==
  ASSUME Inv, Running, u \in {"prompt", "end_menu"}, OnlyUser,
         UNCHANGED <<u, curr_iframe, last_iframe, modes>>, shutdown_triggered' \in BOOLEAN,
         over' \in Outcomes, show_iframe_pos' \in 0 .. ShortMod - 1
  PROVE  Inv'
<1>1. WalkInv'
  BY DEF Inv, WalkInv, Walking, Running, OnlyUser, builder
<1>2. QED
  BY <1>1, UserLeavesBuilder DEF Inv, TypeOK, modes, Running

LEMMA ShowStep ==
  ASSUME Inv, Running, u \in {"prompt", "end_menu"}, NEW outcomes \in SUBSET Outcomes, Show(outcomes),
         show_iframe_pos' \in 0 .. ShortMod - 1
  PROVE  Inv'
BY StayStep DEF Show, Inv, TypeOK

LEMMA ShowAtStep ==
  ASSUME Inv, Running, u \in {"prompt", "end_menu"}, NEW pos, ShowAt(pos),
         show_iframe_pos' \in 0 .. ShortMod - 1
  PROVE  Inv'
<1>1. Then(AtOutcomes(pos), InfostrOutcomes(pos + 1)) \in SUBSET Outcomes
  BY OutcomesTyped
<1>2. QED
  BY <1>1, ShowStep DEF ShowAt

\* The end menu left for good.
LEMMA LeaveStep ==
  ASSUME Inv, OnlyUser, u' = "leave", curr_iframe' \in Nat, UNCHANGED <<last_iframe, show_iframe_pos, modes>>,
         shutdown_triggered' \in BOOLEAN, over' \in Outcomes, Running
  PROVE  Inv'
<1>1. WalkInv'
  BY DEF WalkInv, Walking, Running, Inv, OnlyUser, builder
<1>2. QED
  BY <1>1, UserLeavesBuilder DEF Inv, TypeOK, modes

\* One step of the user's thread, of each kind.
LEMMA UserRunsStep == Inv /\ UserRuns => Inv'
<1> SUFFICES ASSUME Inv, UserRuns PROVE Inv'
  OBVIOUS
<1>1. CASE UserLoads
  BY <1>1, UserLeavesBuilder
     DEF UserLoads, UserIs, Running, session, modes, OnlyUser, builder, Inv, TypeOK, WalkInv,
         Walking, Outcomes
<1>2. CASE FirstFrame
  <2>1. WalkInv' /\ curr_iframe' \in Nat /\ over' \in Outcomes
    BY <1>2, FirstFrameStep DEF FirstFrame, UserIs, OnlyUser, builder
  <2>2. QED
    BY <1>2, <2>1, UserLeavesBuilder DEF FirstFrame, UserIs, modes, Inv, TypeOK
<1>3. CASE ExecHandle
  <2>1. Running /\ u = "exec_handle"
    BY <1>3 DEF ExecHandle, UserIs
  <2>2. CASE over' = "exception" /\ UNCHANGED <<u, session>> /\ OnlyUser
    <3>1. WalkInv'
      BY <2>2 DEF WalkInv, Walking, Running
    <3>2. QED
      BY <2>1, <2>2, <3>1, UserLeavesBuilder DEF session, modes, Inv, TypeOK, Outcomes
  <2>3. CASE exec_locked /\ in_bp_mode /\ Execute
    BY <2>1, <2>3, ExecuteStep
  <2>4. CASE /\ u' = "prompt"
             /\ show_iframe_pos' = (curr_iframe - 1) % ShortMod
             /\ UNCHANGED <<over, curr_iframe, last_iframe, modes, shutdown_triggered>>
             /\ OnlyUser
    <3>1. curr_iframe \in 1 .. linked /\ linked \in Nat /\ UNCHANGED linked
      BY <2>1, <2>4 DEF Inv, WalkInv, Walking, TypeOK, OnlyUser, builder
    <3>2. WalkInv'
      BY <2>4, <3>1 DEF Inv, WalkInv, Walking, Running
    <3>3. show_iframe_pos' \in 0 .. ShortMod - 1
      BY <2>4, <3>1, PositionTyped
    <3>4. QED
      BY <2>1, <2>4, <3>2, <3>3, UserLeavesBuilder DEF Inv, TypeOK, modes, Outcomes, Running
  <2>5. CASE ~exec_locked /\ UNCHANGED <<modes, shutdown_triggered>> /\ Skip
    BY <2>1, <2>5, SkipStep DEF modes, Inv, TypeOK
  <2>6. QED
    BY <1>3, <2>2, <2>3, <2>4, <2>5 DEF ExecHandle
<1>4. CASE Leave
  <2>1. WalkInv'
    BY <1>4 DEF Leave, WalkInv, Walking, Running
  <2>2. QED
    BY <1>4, <2>1, UserLeavesBuilder DEF Leave, UserIs, session, modes, Inv, TypeOK
<1>5. QED
  BY <1>1, <1>2, <1>3, <1>4 DEF UserRuns

\* The inputs that move to a frame.
LEMMA MovingStep ==
  ASSUME Inv, ExecCurrInstr \/ UndoPrevInstr \/ ExecUntilBp \/ ExecUntilEnd \/ Quit
  PROVE  Inv'
<1>1. CASE ExecCurrInstr
  BY <1>1, ExecuteStep DEF ExecCurrInstr, Prompted, UserIs
<1>2. CASE UndoPrevInstr
  <2>1. Running /\ u = "prompt" /\ OnlyUser
    BY <1>2 DEF UndoPrevInstr, Prompted, UserIs
  <2>2. over' \in Outcomes
    <3>1. (IF curr_iframe = 2 THEN AtOutcomes(0) ELSE {"no"}) \cup OwnFailures \in SUBSET Outcomes
      BY OutcomesTyped DEF Outcomes
    <3>2. FrameOutcomes(curr_iframe) \in SUBSET Outcomes
      BY OutcomesTyped
    <3>3. QED
      BY <1>2, <3>1, <3>2, OutcomesTyped DEF UndoPrevInstr
  <2>3. curr_iframe \in 1 .. linked /\ linked \in Nat /\ UNCHANGED linked
    BY <2>1 DEF Inv, WalkInv, Walking, TypeOK, OnlyUser, builder
  <2>4. curr_iframe' \in 1 .. linked /\ UNCHANGED <<u, last_iframe>>
    BY <1>2, <2>3 DEF UndoPrevInstr
  <2>5. WalkInv' /\ curr_iframe' \in Nat
    BY <2>1, <2>3, <2>4 DEF Inv, WalkInv, Running
  <2>6. QED
    BY <1>2, <2>1, <2>2, <2>5, UserLeavesBuilder DEF UndoPrevInstr, modes, Inv, TypeOK
<1>3. CASE ExecUntilBp
  BY <1>3, SkipStep DEF ExecUntilBp, Prompted, UserIs, Inv, TypeOK
<1>4. CASE ExecUntilEnd
  BY <1>4, SkipStep DEF ExecUntilEnd, Prompted, UserIs, Inv, TypeOK
<1>5. CASE Quit
  BY <1>5, SkipStep DEF Quit, Prompted, UserIs, Inv, TypeOK, modes
<1>6. QED
  BY <1>1, <1>2, <1>3, <1>4, <1>5

\* The inputs that only look, and those of the menus.
LEMMA LookingStep ==
  ASSUME Inv, \/ ShowImdNextInstr \/ ShowImdLastInstr \/ ShowNextInstr \/ ShowLastInstr
              \/ ShowCurrInstr \/ DisplayIframes \/ EditMachine \/ MenuQuit
  PROVE  Inv'
<1>0. show_iframe_pos \in 0 .. ShortMod - 1 /\ show_iframe_pos \in Int /\ curr_iframe \in Nat
  BY DEF Inv, TypeOK
<1>1. CASE ShowImdNextInstr
  BY <1>0, <1>1, ShowStep, OutcomesTyped DEF ShowImdNextInstr, Prompted, UserIs
<1>2. CASE ShowImdLastInstr
  BY <1>0, <1>2, ShowStep, OutcomesTyped DEF ShowImdLastInstr, Prompted, UserIs
<1>3. CASE ShowNextInstr
  BY <1>0, <1>3, ShowAtStep, PositionTyped DEF ShowNextInstr, Prompted, UserIs
<1>4. CASE ShowLastInstr
  BY <1>0, <1>4, ShowAtStep, PositionTyped DEF ShowLastInstr, Prompted, UserIs
<1>5. CASE ShowCurrInstr
  <2>1. curr_iframe - 1 \in Int
    BY <1>0
  <2>2. show_iframe_pos' \in 0 .. ShortMod - 1
    BY <1>5, <2>1, PositionTyped DEF ShowCurrInstr
  <2>3. QED
    BY <1>5, <2>2, ShowAtStep DEF ShowCurrInstr, Prompted, UserIs
<1>6. CASE DisplayIframes
  BY <1>0, <1>6, ShowAtStep DEF DisplayIframes, InMenu
<1>7. CASE EditMachine
  BY <1>0, <1>7, StayStep DEF EditMachine, InMenu, session, OwnFailures, Outcomes, Inv, TypeOK
<1>8. CASE MenuQuit
  BY <1>0, <1>8, StayStep DEF MenuQuit, InMenu, Outcomes, Running
<1>9. QED
  BY <1>1, <1>2, <1>3, <1>4, <1>5, <1>6, <1>7, <1>8

\* Resets, and what leaves the end menu.
LEMMA EndingStep ==
  ASSUME Inv, ResetDebugger \/ EndReset \/ EndQuit \/ EndUndo \/ EndShowLast
  PROVE  Inv'
<1>1. ASSUME Reset, Running, u' \in {"prompt", "start"}, u' # "end_menu" \/ u' = u PROVE Inv'
  <2>1. WalkInv' /\ curr_iframe' \in Nat /\ over' \in Outcomes
    BY <1>1, FirstFrameStep DEF Reset, OnlyUser, builder
  <2>2. QED
    BY <1>1, <2>1, UserLeavesBuilder DEF Reset, Inv, TypeOK
<1>2. CASE ResetDebugger
  BY <1>1, <1>2 DEF ResetDebugger, Prompted, UserIs
<1>3. CASE EndReset
  BY <1>1, <1>3 DEF EndReset, AtEnd, UserIs
<1>4. CASE EndQuit
  BY <1>4, LeaveStep DEF EndQuit, AtEnd, UserIs, Inv, TypeOK, Outcomes, Running
<1>5. CASE EndUndo
  <2>1. (IF curr_iframe = 1 THEN AtOutcomes(0) ELSE {"no"}) \cup OwnFailures \in SUBSET Outcomes
    BY OutcomesTyped DEF Outcomes
  <2>2. FrameOutcomes(curr_iframe) \in SUBSET Outcomes
    BY OutcomesTyped
  <2>3. over' \in Outcomes
    BY <1>5, <2>1, <2>2, OutcomesTyped DEF EndUndo
  <2>4. curr_iframe' \in Nat
    BY <1>5 DEF EndUndo, Inv, TypeOK
  <2>5. QED
    BY <1>5, <2>3, <2>4, LeaveStep DEF EndUndo, AtEnd, UserIs, Inv, TypeOK
<1>6. CASE EndShowLast
  BY <1>6, LeaveStep, OutcomesTyped DEF EndShowLast, AtEnd, UserIs, Inv, TypeOK
<1>7. QED
  BY <1>2, <1>3, <1>4, <1>5, <1>6

LEMMA UserInputStep == Inv /\ UserInput => Inv'
BY MovingStep, LookingStep, EndingStep DEF UserInput

LEMMA StepInv == Inv /\ [Next]_vars => Inv'
<1>1. Inv /\ UNCHANGED vars => Inv'
  BY DEF Inv, TypeOK, BuilderInv, MainInv, WalkInv, Walking, Running, IsLast, Endless, EndsProgram,
         vars, builder, session, modes
<1>2. QED
  BY <1>1, MainStep, BuilderStep, UserRunsStep, UserInputStep DEF Next

LEMMA Invariance == Spec => []Inv
BY InitInv, StepInv, PTL DEF Spec

\* TypeOK: the types of the variables.
THEOREM TypeCorrect == Spec => []TypeOK
<1>1. Inv => TypeOK
  BY DEF Inv
<1>2. QED
  BY <1>1, Invariance, PTL

\* WalksBuiltFrames: in every interleaving the user's thread stands only at
\* frames that build_iframe has finished.
THEOREM WalksBuiltFramesHolds == Spec => []WalksBuiltFrames
<1>1. Inv => WalksBuiltFrames
  <2> SUFFICES ASSUME Inv, Walking PROVE curr_iframe \in 1 .. built /\ last_iframe \in 0 .. built
    BY DEF WalksBuiltFrames
  <2>1. linked \in Nat /\ built \in Nat /\ linked <= built
    BY DEF Inv, TypeOK, BuilderInv
  <2>2. curr_iframe \in 1 .. linked /\ last_iframe \in 0 .. linked
    BY DEF Inv, WalkInv, Walking
  <2>3. QED
    BY <2>1, <2>2
<1>2. QED
  BY <1>1, Invariance, PTL

\* What the vector and the links can come to once the builder is done.
LEMMA SafeWhenDone ==
  ASSUME Inv, b = "done"
  PROVE  /\ \A i : "fault" \notin AtOutcomes(i)
         /\ \A f : f # NULL => "fault" \notin InfostrOutcomes(f)
         /\ \A f : f # NULL => FrameOutcomes(f) = {"no"}
         /\ "fault" \notin OwnFailures
         /\ \A A, B : "fault" \notin A /\ "fault" \notin B => "fault" \notin Then(A, B)
         /\ linked = prog.frames
<1>1. vec_alive /\ ~moving
  BY DEF Inv, MainInv, BuilderInv, TypeOK
<1>2. linked = prog.frames
  BY DEF Inv, BuilderInv, IsLast, EndsProgram
<1>3. QED
  BY <1>1, <1>2 DEF AtOutcomes, InfostrOutcomes, FrameOutcomes, OwnFailures, Then

LEMMA NextFrameWhenDone ==
  ASSUME Inv, b = "done", Running, u \in {"exec_handle", "prompt"}, NEW ends, NEW shuts, NEW last,
         NextFrame(ends, shuts, last), over' = "fault"
  PROVE  ~ends /\ curr_iframe = prog.frames
<1>1. curr_iframe \in 1 .. linked /\ linked \in Nat
  BY DEF Inv, WalkInv, Walking, TypeOK
<1>2. over' \in Then(FrameOutcomes(curr_iframe), FrameOutcomes(NextIframe)) /\ ~ends
  BY DEF NextFrame, Running
<1>3. NextIframe = NULL
  BY <1>1, <1>2, SafeWhenDone DEF Then, NULL
<1>4. QED
  BY <1>1, <1>2, <1>3, SafeWhenDone DEF NextIframe, NULL

LEMMA ExecuteWhenDone ==
  ASSUME Inv, b = "done", Running, u \in {"exec_handle", "prompt"}, Execute
  PROVE  over' # "fault"
<1> SUFFICES ASSUME over' = "fault" PROVE FALSE
  OBVIOUS
<1>1. ~EndsProgram(curr_iframe) /\ curr_iframe = prog.frames
  BY NextFrameWhenDone DEF Execute, OwnFailures
<1>2. ~Endless /\ prog.then = "end"
  BY DEF Inv, BuilderInv, EndsProgram, IsLast
<1>3. QED
  BY <1>1, <1>2 DEF EndsProgram, IsLast

\* DoneBuilderIsSafe: once the builder's thread is done, only leaving the last
\* frame without executing it and showing the immediately last frame where there
\* is none can fault.
THEOREM DoneBuilderIsSafeHolds == Spec => DoneBuilderIsSafe
<1>1. Inv /\ [Next]_vars =>
        [b = "done" /\ over' = "fault"
           => \/ SkipsFrame /\ curr_iframe = prog.frames
              \/ ShowImdLastInstr /\ last_iframe = NULL]_vars
  <2> SUFFICES ASSUME Inv, Next, b = "done", over' = "fault",
                      ~(ShowImdLastInstr /\ last_iframe = NULL)
               PROVE  SkipsFrame /\ curr_iframe = prog.frames
    OBVIOUS
  <2>1. CASE MainThread
    BY <2>1 DEF MainThread, CreateUser, CreateBuilder, DeleteVector, ReturnFromMain, Running
  <2>2. CASE Builder
    BY <2>2 DEF Builder, BuilderLoads, BuildFields, LinkFrame, PushBack, Grow, AllocInfostr,
                ExecIFBF, FreeBuilder, BuilderIs
  <2>3. CASE UserLoads \/ Leave \/ EndQuit \/ MenuQuit \/ EditMachine
    BY <2>3 DEF UserLoads, Leave, EndQuit, AtEnd, MenuQuit, EditMachine, InMenu, OwnFailures,
                UserIs, Running
  <2>4. CASE FirstFrame \/ ResetDebugger \/ EndReset
    BY <2>4, SafeWhenDone DEF FirstFrame, ResetDebugger, EndReset, Reset
  <2>5. ASSUME Skip, Running, u \in {"exec_handle", "prompt"}
        PROVE  curr_iframe = prog.frames
    BY <2>5, NextFrameWhenDone DEF Skip
  <2>6. CASE ExecHandle
    <3>1. ~exec_locked /\ Skip /\ Running /\ u = "exec_handle"
      BY <2>6, ExecuteWhenDone DEF ExecHandle, UserIs, Running
    <3>2. QED
      BY <2>5, <2>6, <3>1 DEF SkipsFrame
  <2>7. CASE ExecCurrInstr
    BY <2>7, ExecuteWhenDone DEF ExecCurrInstr, Prompted, UserIs
  <2>8. CASE ExecUntilBp \/ ExecUntilEnd
    BY <2>5, <2>8 DEF ExecUntilBp, ExecUntilEnd, Prompted, UserIs, SkipsFrame
  <2>9. CASE Quit
    BY <2>9 DEF Quit, Skip, NextFrame, Prompted, UserIs, Running
  <2>10. CASE UndoPrevInstr \/ EndUndo
    <3>1. FrameOutcomes(curr_iframe) = {"no"}
      BY <2>10, SafeWhenDone
         DEF UndoPrevInstr, EndUndo, AtEnd, Prompted, UserIs, Running, Inv, WalkInv, Walking,
             TypeOK, NULL
    <3>2. QED
      BY <2>10, <3>1, SafeWhenDone DEF UndoPrevInstr, EndUndo
  <2>11. CASE ShowImdNextInstr \/ ShowImdLastInstr \/ EndShowLast
    <3>1. CASE ShowImdNextInstr
      <4>1. curr_iframe # NULL
        BY <3>1 DEF ShowImdNextInstr, Prompted, UserIs, Inv, WalkInv, Walking, TypeOK, NULL
      <4>2. QED
        BY <3>1, <4>1, SafeWhenDone DEF ShowImdNextInstr, Show
    <3>2. CASE ShowImdLastInstr
      BY <3>2, SafeWhenDone DEF ShowImdLastInstr, Show
    <3>3. CASE EndShowLast
      BY <3>3, SafeWhenDone DEF EndShowLast, AtEnd, UserIs, Inv, WalkInv, Walking
    <3>4. QED
      BY <2>11, <3>1, <3>2, <3>3
  <2>12. ASSUME NEW pos \in Nat, ShowAt(pos) PROVE FALSE
    <3>1. pos + 1 # NULL
      BY DEF NULL
    <3>2. QED
      BY <2>12, <3>1, SafeWhenDone DEF ShowAt, Show
  <2>13. CASE ShowNextInstr \/ ShowLastInstr \/ ShowCurrInstr \/ DisplayIframes
    <3>1. ASSUME NEW n \in Int PROVE n % ShortMod \in Nat
      BY PositionTyped
    <3>2. show_iframe_pos \in Nat /\ curr_iframe \in Nat
      BY DEF Inv, TypeOK
    <3>3. QED
      BY <2>12, <2>13, <3>1, <3>2
         DEF ShowNextInstr, ShowLastInstr, ShowCurrInstr, DisplayIframes
  <2>14. QED
    BY <2>1, <2>2, <2>3, <2>4, <2>6, <2>7, <2>8, <2>9, <2>10, <2>11, <2>13
       DEF Next, UserRuns, UserInput
<1>2. QED
  BY <1>1, Invariance, PTL DEF Spec, DoneBuilderIsSafe

=============================================================================
