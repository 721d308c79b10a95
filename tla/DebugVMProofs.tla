--------------------------- MODULE DebugVMProofs -----------------------------
(***************************************************************************)
(* Proofs about DebugVM, for every program and every bound.                *)
(*                                                                         *)
(* PositionAgrees and EndedSessionEnds need nothing of what the machine    *)
(* does: that frames are appended one by one, that there is one once the   *)
(* program is built, and that the end menu keeps one.                      *)
(*                                                                         *)
(* TypeOK needs what every operation on the machine does to each of its    *)
(* fields, and that frames hold words.                                     *)
(*                                                                         *)
(* The rest is about the first run, of which the frames are all that is    *)
(* left.  HistoryInv says there are machines h[1], h[2], ... that looked   *)
(* like what trace says, each made of the one before it by executing its   *)
(* frame once more: that frames repeat what the run did, and that menus    *)
(* and undoing change none of it.  From there, executing frame after frame *)
(* leads along the h[i] (ReplayMatchesBuild, ReplayNeverFails), and        *)
(* undoing leads back along their stacks (UndoRestoresWorkStack).          *)
(***************************************************************************)
EXTENDS DebugVM, DataLemmas

\* The sequence of frames, as a sequence over its own elements: what is in a
\* frame does not matter.
Frames(v) == {v[i] : i \in DOMAIN v}
AreFrames(v) == v \in Seq(Frames(v))

\* The inductive invariant.
PositionInv ==
    /\ AreFrames(iframe_vec)
    /\ at = "built" => Len(iframe_vec) > 0
    /\ at \in {"exec_handle", "prompt", "end_menu"} => curr_iframe \in 1 .. Len(iframe_vec)
    /\ at \in {"exec_handle", "prompt"} => curr_iframe_num = curr_iframe - 1

\* A sequence over any set is one over its own elements.
LEMMA SequenceOfFrames ==
    ASSUME NEW S, NEW v \in Seq(S)
    PROVE  AreFrames(v)
<1>1. v \in [1 .. Len(v) -> S] /\ Len(v) \in Nat
  OBVIOUS
<1>2. v \in [1 .. Len(v) -> Frames(v)]
  BY <1>1 DEF Frames
<1> QED
  BY <1>1, <1>2, SeqDef DEF AreFrames

\* Appending a frame, as append_iframe's push_back does.
LEMMA AppendFrame ==
    ASSUME NEW v, AreFrames(v), NEW f
    PROVE  AreFrames(Append(v, f)) /\ Len(Append(v, f)) = Len(v) + 1 /\ Len(v) \in Nat
<1> DEFINE S == Frames(v) \cup {f}
<1>1. v \in Seq(S)
  BY SeqDef DEF AreFrames
<1>2. Append(v, f) \in Seq(S) /\ Len(Append(v, f)) = Len(v) + 1 /\ Len(v) \in Nat
  BY <1>1
<1> QED
  BY <1>2, SequenceOfFrames

\* Writing a frame in place, as executing it again does.
LEMMA ReplaceFrame ==
    ASSUME NEW v, AreFrames(v), NEW i, NEW f
    PROVE  AreFrames([v EXCEPT ![i] = f]) /\ Len([v EXCEPT ![i] = f]) = Len(v)
<1> DEFINE S == Frames(v) \cup {f}
           w == [v EXCEPT ![i] = f]
<1>1. v \in [1 .. Len(v) -> S] /\ Len(v) \in Nat
  <2>1. v \in Seq(S)
    BY SeqDef DEF AreFrames
  <2> QED
    BY <2>1
<1>2. w \in [1 .. Len(v) -> S]
  BY <1>1
<1>3. w \in Seq(S)
  BY <1>1, <1>2, SeqDef
<1>4. Len(w) = Len(v)
  BY <1>1, <1>2, <1>3
<1> QED
  BY <1>3, <1>4, SequenceOfFrames

\* Moving on from a frame, whether it was executed or not.
LEMMA NextFrameKeepsPosition ==
    ASSUME curr_iframe \in 1 .. Len(iframe_vec), Len(iframe_vec) \in Nat,
           curr_iframe_num = curr_iframe - 1,
           AreFrames(iframe_vec'), Len(iframe_vec') = Len(iframe_vec),
           NEW last, NextFrame(last)
    PROVE  PositionInv'
<1>1. CASE program_end_reached'
  BY <1>1 DEF NextFrame, PositionInv
<1>2. CASE ~program_end_reached' /\ shutdown_triggered'
  BY <1>2 DEF NextFrame, PositionInv
<1>3. CASE ~program_end_reached' /\ ~shutdown_triggered'
  <2>1. CASE curr_iframe = Len(iframe_vec)
    BY <1>3, <2>1 DEF NextFrame, PositionInv
  <2>2. CASE curr_iframe # Len(iframe_vec)
    <3>1. curr_iframe' = curr_iframe + 1 /\ curr_iframe_num' = curr_iframe_num + 1
          /\ at' = "exec_handle"
      BY <1>3, <2>2 DEF NextFrame
    <3> QED
      BY <2>2, <3>1 DEF PositionInv
  <2> QED
    BY <2>1, <2>2
<1> QED
  BY <1>1, <1>2, <1>3 DEF NextFrame

\* Executing the current frame, from the prompt or on its own.
LEMMA ExecuteKeepsPosition ==
    ASSUME PositionInv, at \in {"exec_handle", "prompt"}, Execute
    PROVE  PositionInv'
<1>1. AreFrames(iframe_vec) /\ curr_iframe \in 1 .. Len(iframe_vec)
      /\ curr_iframe_num = curr_iframe - 1 /\ Len(iframe_vec) \in Nat
  <2>1. iframe_vec \in Seq(Frames(iframe_vec))
    BY DEF PositionInv, AreFrames
  <2>2. Len(iframe_vec) \in Nat
    BY <2>1
  <2> QED
    BY <2>2 DEF PositionInv
<1>2. AreFrames(iframe_vec') /\ Len(iframe_vec') = Len(iframe_vec)
  <2>1. PICK f : iframe_vec' = [iframe_vec EXCEPT ![curr_iframe] = f]
    BY DEF Execute
  <2> QED
    BY <1>1, <2>1, ReplaceFrame
<1>3. CASE UNCHANGED <<at, position>>
  BY <1>1, <1>2, <1>3 DEF PositionInv, position
<1>4. CASE NextFrame(curr_iframe)
  BY <1>1, <1>2, <1>4, NextFrameKeepsPosition
<1> QED
  BY <1>3, <1>4 DEF Execute

\* Leaving exec_handle without executing anything.
LEMMA SkipKeepsPosition ==
    ASSUME PositionInv, at \in {"exec_handle", "prompt"}, Skip
    PROVE  PositionInv'
<1>1. AreFrames(iframe_vec) /\ curr_iframe \in 1 .. Len(iframe_vec)
      /\ curr_iframe_num = curr_iframe - 1
  BY DEF PositionInv
<1>2. Len(iframe_vec) \in Nat
  BY <1>1 DEF AreFrames
<1>3. iframe_vec' = iframe_vec /\ NextFrame(last_iframe)
  BY DEF Skip, frames
<1> QED
  BY <1>1, <1>2, <1>3, NextFrameKeepsPosition

\* Undoing moves back, but never before the first frame.
LEMMA UndoKeepsPosition ==
    ASSUME PositionInv, UndoPrevInstr
    PROVE  PositionInv'
<1> DEFINE undone == curr_iframe - 1
           back == IF undone > 1 THEN undone - 1 ELSE 1
<1>1. /\ at = "prompt" /\ curr_iframe_num > 0
      /\ curr_iframe' = back /\ curr_iframe_num' = back - 1
      /\ at' = at /\ iframe_vec' = iframe_vec
  BY DEF UndoPrevInstr, Prompted, frames
<1>2. AreFrames(iframe_vec) /\ curr_iframe \in 1 .. Len(iframe_vec)
      /\ curr_iframe_num = curr_iframe - 1
  BY <1>1 DEF PositionInv
<1>3. Len(iframe_vec) \in Nat
  BY <1>2 DEF AreFrames
<1>4. back \in 1 .. Len(iframe_vec)
  BY <1>1, <1>2, <1>3
<1> QED
  BY <1>1, <1>2, <1>4 DEF PositionInv

\* A reset goes to the first frame; there is one.
LEMMA ResetKeepsPosition ==
    ASSUME PositionInv, at \in {"prompt", "end_menu"}, NEW pc, ResetState(pc)
    PROVE  PositionInv'
<1>1. AreFrames(iframe_vec) /\ curr_iframe \in 1 .. Len(iframe_vec)
  BY DEF PositionInv
<1>2. Len(iframe_vec) \in Nat
  BY <1>1 DEF AreFrames
<1>3. curr_iframe' = 1 /\ curr_iframe_num' = 0 /\ iframe_vec' = iframe_vec
  BY DEF ResetState, frames
<1> QED
  BY <1>1, <1>2, <1>3 DEF PositionInv

\* The first run of the program and the start of the session.
LEMMA MainKeepsPosition ==
    ASSUME PositionInv, Main
    PROVE  PositionInv'
<1>0. AreFrames(iframe_vec)
  BY DEF PositionInv
<1>1. CASE BuildFrame
  <2>1. CASE UNCHANGED <<at, frames, position, flags>>
    BY <2>1, <1>0 DEF PositionInv, frames, position
  <2>2. CASE \E f : iframe_vec' = Append(iframe_vec, f) /\ at' \in {"build", "built"}
    <3>1. PICK f : iframe_vec' = Append(iframe_vec, f) /\ at' \in {"build", "built"}
      BY <2>2
    <3>2. AreFrames(iframe_vec') /\ Len(iframe_vec') = Len(iframe_vec) + 1 /\ Len(iframe_vec) \in Nat
      BY <3>1, <1>0, AppendFrame
    <3> QED
      BY <3>1, <3>2 DEF PositionInv
  <2> QED
    BY <1>1, <2>1, <2>2 DEF BuildFrame
<1>2. CASE StartDebug
  <2>1. /\ at = "built" /\ at' = "exec_handle" /\ iframe_vec' = iframe_vec
        /\ curr_iframe' = 1 /\ curr_iframe_num' = 0
    BY <1>2 DEF StartDebug, frames
  <2>2. Len(iframe_vec) \in Nat
    BY <1>0 DEF AreFrames
  <2> QED
    BY <1>0, <2>1, <2>2 DEF PositionInv
<1>3. CASE ExecHandle
  <2>1. at = "exec_handle"
    BY <1>3 DEF ExecHandle
  <2>2. CASE Execute
    BY <2>1, <2>2, ExecuteKeepsPosition
  <2>3. CASE Skip
    BY <2>1, <2>3, SkipKeepsPosition
  <2>4. CASE UNCHANGED <<at, frames, position>>
    BY <2>4 DEF PositionInv, frames, position
  <2>5. CASE at' = "prompt" /\ UNCHANGED <<frames, position>>
    BY <2>1, <2>5 DEF PositionInv, frames, position
  <2> QED
    BY <1>3, <2>2, <2>3, <2>4, <2>5 DEF ExecHandle
<1> QED
  BY <1>1, <1>2, <1>3 DEF Main

\* What a user does at the prompt, in the menus and in the end menu.
LEMMA UserKeepsPosition ==
    ASSUME PositionInv, User
    PROVE  PositionInv'
<1>1. CASE ExecCurrInstr
  BY <1>1, ExecuteKeepsPosition DEF ExecCurrInstr, Prompted
<1>2. CASE UndoPrevInstr
  BY <1>2, UndoKeepsPosition
<1>3. CASE ExecUntilBp \/ ExecUntilEnd \/ Quit
  BY <1>3, SkipKeepsPosition DEF ExecUntilBp, ExecUntilEnd, Quit, Prompted
<1>4. CASE ResetDebugger
  BY <1>4, ResetKeepsPosition DEF ResetDebugger, Prompted
<1>5. CASE EndReset
  BY <1>5, ResetKeepsPosition DEF EndReset, AtEnd
<1>6. CASE at' = "exited" /\ iframe_vec' = iframe_vec
  BY <1>6 DEF PositionInv
<1>7. CASE UNCHANGED <<at, frames, position>>
  BY <1>7 DEF PositionInv, frames, position
<1>8. CASE EndQuit \/ EndUndo \/ EndShowLast
  <2>1. at' = "exited" /\ iframe_vec' = iframe_vec
    BY <1>8 DEF EndQuit, EndUndo, EndShowLast, frames
  <2> QED
    BY <2>1, <1>6
<1>9. CASE ShowImdLastInstr \/ ShowNextInstr \/ ShowLastInstr \/ ShowCurrInstr \/ MenuQuit
  <2>1. UNCHANGED <<at, frames, position>>
    BY <1>9 DEF ShowImdLastInstr, ShowNextInstr, ShowLastInstr, ShowCurrInstr, ShowAt, MenuQuit
  <2> QED
    BY <2>1, <1>7
<1>10. CASE RamModify \/ WstkPush \/ WstkPop \/ WstkModify \/ CstkPush \/ CstkRemove \/ CstkClear
  <2>1. UNCHANGED <<at, frames, position>>
    BY <1>10 DEF RamModify, WstkPush, WstkPop, WstkModify, CstkPush, CstkRemove, CstkClear, Edit
  <2> QED
    BY <2>1, <1>7
<1> QED
  BY <1>1, <1>2, <1>3, <1>4, <1>5, <1>8, <1>9, <1>10 DEF User

\* Both hold from the start and every step keeps them.
LEMMA PositionInductive ==
    /\ Init => PositionInv
    /\ PositionInv /\ [Next]_vars => PositionInv'
<1>1. Init => PositionInv
  <2> SUFFICES ASSUME Init PROVE PositionInv
    OBVIOUS
  <2>1. iframe_vec = <<>> /\ at = "build"
    BY DEF Init
  <2>2. AreFrames(iframe_vec)
    BY <2>1 DEF AreFrames, Frames
  <2> QED
    BY <2>1, <2>2 DEF PositionInv
<1>2. PositionInv /\ [Next]_vars => PositionInv'
  <2> SUFFICES ASSUME PositionInv, [Next]_vars PROVE PositionInv'
    OBVIOUS
  <2>1. CASE Main
    BY <2>1, MainKeepsPosition
  <2>2. CASE User
    BY <2>2, UserKeepsPosition
  <2>3. CASE UNCHANGED vars
    BY <2>3 DEF PositionInv, vars, frames, position
  <2> QED
    BY <2>1, <2>2, <2>3 DEF Next
<1> QED
  BY <1>1, <1>2

\* curr_iframe is a frame and curr_iframe_num is its number whenever the
\* debugger waits for input or is about to execute.
THEOREM PositionAgreesHolds == Spec => []PositionAgrees
<1>1. PositionInv => PositionAgrees
  <2> SUFFICES ASSUME PositionInv, at \in {"exec_handle", "prompt"}
               PROVE  curr_iframe \in DOMAIN iframe_vec /\ curr_iframe_num = curr_iframe - 1
    BY DEF PositionAgrees
  <2>1. DOMAIN iframe_vec = 1 .. Len(iframe_vec)
    BY DEF PositionInv, AreFrames
  <2> QED
    BY <2>1 DEF PositionInv
<1> QED
  BY <1>1, PositionInductive, PTL DEF Spec

-----------------------------------------------------------------------------
(* The end of a session.                                                   *)

\* Where control is at exec_handle again after a frame, the session goes on.
LEMMA NextFrameHeedsEnd ==
    ASSUME NEW last, NextFrame(last)
    PROVE  EndedSessionEnds'
BY DEF NextFrame, EndedSessionEnds

\* An exception in the frame leaves control and the flags as they are.
LEMMA ExecuteHeedsEnd ==
    ASSUME EndedSessionEnds, Execute
    PROVE  EndedSessionEnds'
<1>1. CASE UNCHANGED <<at, position>>
  BY <1>1 DEF Execute, EndedSessionEnds
<1>2. CASE NextFrame(curr_iframe)
  BY <1>2, NextFrameHeedsEnd
<1> QED
  BY <1>1, <1>2 DEF Execute

\* A session ended from the prompt or a menu begins no other frame.
THEOREM EndedSessionEndsHolds == Spec => []EndedSessionEnds
<1>1. Init => EndedSessionEnds
  BY DEF Init, EndedSessionEnds
<1>2. EndedSessionEnds /\ [Next]_vars => EndedSessionEnds'
  <2> SUFFICES ASSUME EndedSessionEnds, [Next]_vars PROVE EndedSessionEnds'
    OBVIOUS
  <2>1. CASE BuildFrame
    <3>1. at' \in {"build", "built"}
      BY <2>1 DEF BuildFrame
    <3> QED
      BY <3>1 DEF EndedSessionEnds
  <2>2. CASE StartDebug
    BY <2>2 DEF StartDebug, EndedSessionEnds
  <2>3. CASE Execute
    BY <2>3, ExecuteHeedsEnd
  <2>4. CASE Skip
    BY <2>4, NextFrameHeedsEnd DEF Skip
  <2>5. CASE UNCHANGED <<at, flags>>
    BY <2>5 DEF EndedSessionEnds, flags
  <2>6. CASE at' \in {"prompt", "end_menu", "exited"}
    BY <2>6 DEF EndedSessionEnds
  <2>7. CASE ExecHandle
    BY <2>7, <2>3, <2>4, <2>5, <2>6 DEF ExecHandle
  <2>8. CASE ExecCurrInstr \/ ExecUntilBp \/ ExecUntilEnd \/ Quit
    BY <2>8, <2>3, <2>4 DEF ExecCurrInstr, ExecUntilBp, ExecUntilEnd, Quit
  <2>9. CASE EndReset
    BY <2>9 DEF EndReset, ResetState, EndedSessionEnds
  <2>10. CASE ResetDebugger \/ UndoPrevInstr \/ MenuQuit
    <3>1. at' = at /\ at # "exec_handle"
      BY <2>10 DEF ResetDebugger, UndoPrevInstr, MenuQuit, Prompted, InMenu
    <3> QED
      BY <3>1 DEF EndedSessionEnds
  <2>11. CASE EndQuit \/ EndUndo \/ EndShowLast
    BY <2>11, <2>6 DEF EndQuit, EndUndo, EndShowLast
  <2>12. CASE ShowImdLastInstr \/ ShowNextInstr \/ ShowLastInstr \/ ShowCurrInstr
    BY <2>12, <2>5 DEF ShowImdLastInstr, ShowNextInstr, ShowLastInstr, ShowCurrInstr, ShowAt
  <2>13. CASE RamModify \/ WstkPush \/ WstkPop \/ WstkModify \/ CstkPush \/ CstkRemove \/ CstkClear
    BY <2>13, <2>5 DEF RamModify, WstkPush, WstkPop, WstkModify, CstkPush, CstkRemove,
                       CstkClear, Edit
  <2>14. CASE UNCHANGED vars
    BY <2>14, <2>5 DEF vars, flags
  <2> QED
    BY <2>1, <2>2, <2>7, <2>8, <2>9, <2>10, <2>11, <2>12, <2>13, <2>14 DEF Next, Main, User
<1> QED
  BY <1>1, <1>2, PTL DEF Spec

-----------------------------------------------------------------------------
(* The types of the machine and of frames.                                 *)

\* The sets the fields of a machine are in.
Types == {"UINT8", "UINT32", "INT32"} \cup FreshTypes
Memories == [Words -> WordType \cup {Junk}]
TypeRecords == [Words -> Types]
StackWord == [type : {"UINT32", "INT32"}, val : WordType]
WorkStacks == {s \in Seq(StackWord) : Len(s) <= WorkWords}
CallStacks == {s \in Seq(Nat) : Len(s) <= CallBlock}
Errors == {"none", "exception", "undefined", "fault"}

Machines == [ram : Memories, types : TypeRecords, pc : Nat, wstk : WorkStacks,
             cstk : CallStacks, drained : BOOLEAN, loop_counter : WordType,
             popped_uints : Seq(WordType), popped_retaddrs : Seq(Nat), err : Errors]

Opcodes == Ends \cup NoOperand \cup OneOperand \cup TwoOperand \cup ThreeOperand

\* The instructions a frame is built for.
Built == Opcodes \ {"poptr", "brkp"}

FrameSet(op) == [opcode : {op}, addr : Nat, oprs : [1 .. Operands(op) -> WordType],
                 src : WordType, dst : WordType, result : WordType, taken : BOOLEAN,
                 prev : WordType \cup {Junk}]
IFrames == UNION {FrameSet(op) : op \in Built}

-----------------------------------------------------------------------------
(* Sequences.                                                              *)

\* Putting an element at the end.
LEMMA AppendTyped ==
    ASSUME NEW S, NEW s \in Seq(S), NEW e \in S
    PROVE  Append(s, e) \in Seq(S) /\ Len(Append(s, e)) = Len(s) + 1
OBVIOUS

\* The last element.
LEMMA LastTyped ==
    ASSUME NEW S, NEW s \in Seq(S), s # <<>>
    PROVE  Last(s) \in S /\ Len(s) \in Nat \ {0}
<1>1. Len(s) \in Nat \ {0}
  BY EmptySeq
<1>2. s[Len(s)] \in S
  BY <1>1, ElementOfSeq
<1> QED BY <1>1, <1>2 DEF Last

\* All but the last element.
LEMMA FrontTyped ==
    ASSUME NEW S, NEW s \in Seq(S), s # <<>>
    PROVE  Front(s) \in Seq(S) /\ Len(Front(s)) = Len(s) - 1
<1>1. Len(s) \in Nat \ {0}
  BY LastTyped
<1>2. Len(s) - 1 \in Nat /\ Len(s) = (Len(s) - 1) + 1
  BY <1>1
<1> DEFINE n == Len(s) - 1
<1>3. n \in Nat /\ Len(s) = n + 1
  BY <1>2
<1> HIDE DEF n
<1>4. SubSeq(s, 1, n) = [k \in 1 .. n |-> s[k]]
  BY <1>3, FrontIsFunction
<1>5. \A k \in 1 .. n : s[k] \in S
  BY <1>3, ElementOfSeq
<1>6. SubSeq(s, 1, n) \in [1 .. n -> S]
  BY <1>4, <1>5
<1>7. SubSeq(s, 1, n) \in Seq(S) /\ Len(SubSeq(s, 1, n)) = n
  BY <1>3, <1>6, SeqDef, LenProperties
<1> QED BY <1>7 DEF Front, n

\* Taking an element out.
LEMMA RemoveAtTyped ==
    ASSUME NEW S, NEW s \in Seq(S), NEW i \in 1 .. Len(s)
    PROVE  RemoveAt(s, i) \in Seq(S) /\ Len(RemoveAt(s, i)) = Len(s) - 1
<1> DEFINE n == Len(s) - 1
           r == RemoveAt(s, i)
<1>1. n \in Nat /\ Len(s) = n + 1
  BY LenProperties
<1>2. r = [k \in 1 .. n |-> IF k < i THEN s[k] ELSE s[k + 1]]
  BY RemoveAtIsFunction DEF RemoveAt
<1> HIDE DEF n, r
<1>3. \A k \in 1 .. n : s[k] \in S /\ s[k + 1] \in S
  BY <1>1, ElementOfSeq
<1>4. r \in [1 .. n -> S]
  BY <1>2, <1>3
<1>5. r \in Seq(S) /\ Len(r) = n
  BY <1>1, <1>4, SeqDef, LenProperties
<1> QED BY <1>5 DEF n, r

-----------------------------------------------------------------------------
(* The fields of a machine, and the operations on them.                    *)

\* The fields of a machine.
LEMMA MachineFields ==
    ASSUME NEW x \in Machines
    PROVE  /\ x.ram \in Memories /\ x.types \in TypeRecords /\ x.pc \in Nat
           /\ x.wstk \in WorkStacks /\ x.cstk \in CallStacks /\ x.drained \in BOOLEAN
           /\ x.loop_counter \in WordType /\ x.popped_uints \in Seq(WordType)
           /\ x.popped_retaddrs \in Seq(Nat) /\ x.err \in Errors
BY DEF Machines

\* An exception or a fault stops a machine.
LEMMA FailTyped ==
    ASSUME NEW x \in Machines, NEW e \in Errors
    PROVE  Fail(x, e) \in Machines
BY DEF Fail, Machines

\* Control goes elsewhere.
LEMMA SetPcTyped ==
    ASSUME NEW x \in Machines, NEW pc \in Nat
    PROVE  [x EXCEPT !.pc = pc] \in Machines
BY DEF Machines

\* Another working stack.
LEMMA SetWstkTyped ==
    ASSUME NEW x \in Machines, NEW s \in WorkStacks
    PROVE  [x EXCEPT !.wstk = s] \in Machines
BY DEF Machines

\* Another call stack.
LEMMA SetCstkTyped ==
    ASSUME NEW x \in Machines, NEW s \in CallStacks, NEW d \in BOOLEAN
    PROVE  [x EXCEPT !.cstk = s, !.drained = d] \in Machines
BY DEF Machines

\* Another history of popped words.
LEMMA SetUintsTyped ==
    ASSUME NEW x \in Machines, NEW s \in Seq(WordType)
    PROVE  [x EXCEPT !.popped_uints = s] \in Machines
BY DEF Machines

\* Another history of popped return addresses.
LEMMA SetRetaddrsTyped ==
    ASSUME NEW x \in Machines, NEW s \in Seq(Nat)
    PROVE  [x EXCEPT !.popped_retaddrs = s] \in Machines
BY DEF Machines

\* Words are numbers, and 0 is one.
LEMMA WordTypeIsNat == WordType \subseteq Nat /\ 0 \in WordType
BY MachineAssumption DEF WordType

\* set_uint and set_int.
LEMMA SetRamTyped ==
    ASSUME NEW x \in Machines, NEW w, NEW t \in {"UINT32", "INT32"},
           NEW v \in WordType \cup {Junk}
    PROVE  set_ram(x, w, t, v) \in Machines
<1>1. CASE w \in Words
  <2>1. [x.ram EXCEPT ![w] = v] \in Memories
    BY MachineFields DEF Memories
  <2>2. t \in Types
    BY DEF Types
  <2>3. [x.types EXCEPT ![w] = t] \in TypeRecords
    BY <2>2, MachineFields DEF TypeRecords
  <2>4. set_ram(x, w, t, v) = [x EXCEPT !.ram = [x.ram EXCEPT ![w] = v],
                                         !.types = [x.types EXCEPT ![w] = t]]
    BY <1>1 DEF set_ram, Machines
  <2> QED BY <2>1, <2>3, <2>4 DEF Machines
<1>2. CASE w \notin Words
  <2>1. set_ram(x, w, t, v) = Fail(x, "exception")
    BY <1>2 DEF set_ram
  <2> QED BY <2>1, FailTyped DEF Errors
<1> QED BY <1>1, <1>2

\* push_uint and push_int, full stack or not.
LEMMA PushWordTyped ==
    ASSUME NEW x \in Machines, NEW t \in {"UINT32", "INT32"}, NEW v \in WordType
    PROVE  push_word(x, t, v) \in Machines
<1> DEFINE w == [type |-> t, val |-> v]
<1>1. w \in StackWord
  BY DEF StackWord
<1>2. x.wstk \in Seq(StackWord) /\ Len(x.wstk) <= WorkWords
  BY MachineFields DEF WorkStacks
<1>3. ASSUME Len(x.wstk) < WorkWords PROVE Append(x.wstk, w) \in WorkStacks
  <2> HIDE DEF w
  <2>1. Append(x.wstk, w) \in Seq(StackWord) /\ Len(Append(x.wstk, w)) = Len(x.wstk) + 1
        /\ Len(x.wstk) \in Nat
    BY <1>1, <1>2, AppendTyped, LenProperties
  <2> QED BY <1>3, <2>1, MachineAssumption DEF WorkStacks
<1>4. CASE x.err = "none" /\ Len(x.wstk) < WorkWords
  <2>1. push_word(x, t, v) = [x EXCEPT !.wstk = Append(x.wstk, w)]
    BY <1>4 DEF push_word
  <2> QED BY <1>3, <1>4, <2>1, SetWstkTyped
<1>5. CASE ~(x.err = "none" /\ Len(x.wstk) < WorkWords)
  <2>1. push_word(x, t, v) \in {x, Fail(x, "exception")}
    BY <1>5 DEF push_word
  <2> QED BY <2>1, FailTyped DEF Errors
<1> QED BY <1>4, <1>5

\* A word less on the working stack.
LEMMA FrontOfWstkTyped ==
    ASSUME NEW x \in Machines, x.wstk # <<>>
    PROVE  [x EXCEPT !.wstk = Front(@)] \in Machines
<1>1. x.wstk \in Seq(StackWord) /\ Len(x.wstk) <= WorkWords
  BY MachineFields DEF WorkStacks
<1>2. Front(x.wstk) \in Seq(StackWord) /\ Len(Front(x.wstk)) = Len(x.wstk) - 1
      /\ Len(x.wstk) \in Nat
  BY <1>1, FrontTyped, LenProperties
<1>3. Front(x.wstk) \in WorkStacks
  BY <1>1, <1>2, MachineAssumption DEF WorkStacks
<1> QED BY <1>3, SetWstkTyped

\* The top of the working stack.
LEMMA TopTyped ==
    ASSUME NEW x \in Machines, x.wstk # <<>>
    PROVE  Top(x).val \in WordType /\ Top(x) \in StackWord
<1>1. x.wstk \in Seq(StackWord)
  BY MachineFields DEF WorkStacks
<1>2. Top(x) \in StackWord
  BY <1>1, LastTyped DEF Top
<1> QED BY <1>2 DEF StackWord

\* pop_uint, and what it does when it does not throw.
LEMMA PopUintTyped ==
    ASSUME NEW x \in Machines
    PROVE  /\ pop_uint(x) \in Machines
           /\ pop_uint(x).err = "none" =>
                 /\ x.err = "none" /\ x.wstk # <<>>
                 /\ pop_uint(x) = [x EXCEPT !.wstk = Front(@)]
<1>1. CASE x.err = "none" /\ x.wstk # <<>> /\ Top(x).type = "UINT32"
  BY <1>1, FrontOfWstkTyped DEF pop_uint
<1>2. CASE ~(x.err = "none" /\ x.wstk # <<>> /\ Top(x).type = "UINT32")
  <2>1. pop_uint(x) = IF x.err # "none" THEN x ELSE Fail(x, "exception")
    BY <1>2 DEF pop_uint
  <2>2. pop_uint(x) \in Machines
    BY <2>1, FailTyped DEF Errors
  <2>3. pop_uint(x).err # "none"
    BY <2>1 DEF Fail, Machines
  <2> QED BY <2>2, <2>3
<1> QED BY <1>1, <1>2

\* Popping into the history.
LEMMA PopToHistoryTyped ==
    ASSUME NEW x \in Machines
    PROVE  PopToHistory(x) \in Machines
<1> DEFINE popped == pop_uint(x)
<1>1. popped \in Machines
  BY PopUintTyped
<1>2. CASE popped.err # "none"
  BY <1>1, <1>2 DEF PopToHistory
<1>3. CASE popped.err = "none"
  <2>1. x.wstk # <<>>
    BY <1>3, PopUintTyped
  <2>2. Top(x).val \in WordType
    BY <2>1, TopTyped
  <2>3. popped.popped_uints \in Seq(WordType)
    BY <1>1, MachineFields
  <2>4. Append(popped.popped_uints, Top(x).val) \in Seq(WordType)
    BY <2>2, <2>3, AppendTyped
  <2>5. PopToHistory(x) = [popped EXCEPT !.popped_uints = Append(popped.popped_uints, Top(x).val)]
    BY <1>3 DEF PopToHistory
  <2> HIDE DEF popped
  <2> QED BY <1>1, <2>4, <2>5, SetUintsTyped
<1> QED BY <1>2, <1>3

\* Pushing back from the history.
LEMMA PushFromHistoryTyped ==
    ASSUME NEW x \in Machines
    PROVE  PushFromHistory(x) \in Machines
<1>1. CASE x.popped_uints = <<>>
  BY <1>1, FailTyped DEF PushFromHistory, Errors
<1>2. CASE x.popped_uints # <<>>
  <2>1. Last(x.popped_uints) \in WordType
    BY <1>2, MachineFields, LastTyped
  <2> QED BY <1>2, <2>1, PushWordTyped DEF PushFromHistory
<1> QED BY <1>1, <1>2

\* The history's last word dropped.
LEMMA ForgetPoppedTyped ==
    ASSUME NEW x \in Machines
    PROVE  ForgetPopped(x) \in Machines
<1>1. CASE x.popped_uints = <<>>
  BY <1>1, FailTyped DEF ForgetPopped, Errors
<1>2. CASE x.popped_uints # <<>>
  <2>1. Front(x.popped_uints) \in Seq(WordType)
    BY <1>2, MachineFields, FrontTyped
  <2> QED BY <1>2, <2>1, SetUintsTyped DEF ForgetPopped
<1> QED BY <1>1, <1>2

\* Both.
LEMMA RepushTyped ==
    ASSUME NEW x \in Machines
    PROVE  Repush(x) \in Machines
BY PushFromHistoryTyped, ForgetPoppedTyped DEF Repush

\* take_addr and pop_addr of a stack that is not empty.
LEMMA TakeAddrTyped ==
    ASSUME NEW x \in Machines, NEW i \in 1 .. Len(x.cstk)
    PROVE  take_addr(x, i) \in Machines
<1>1. x.cstk \in Seq(Nat) /\ Len(x.cstk) <= CallBlock /\ Len(x.cstk) \in Nat
  BY MachineFields DEF CallStacks
<1>2. x.cstk # <<>>
  BY <1>1
<1>3. RemoveAt(x.cstk, i) \in Seq(Nat) /\ Len(RemoveAt(x.cstk, i)) = Len(x.cstk) - 1
  BY <1>1, RemoveAtTyped
<1>4. RemoveAt(x.cstk, i) \in CallStacks
  BY <1>1, <1>3, MachineAssumption DEF CallStacks
<1> DEFINE s == RemoveAt(x.cstk, i)
           d == (Len(x.cstk) = 1)
<1>5. take_addr(x, i) = [x EXCEPT !.cstk = s, !.drained = d]
  BY <1>2 DEF take_addr
<1>6. s \in CallStacks /\ d \in BOOLEAN
  BY <1>4
<1> HIDE DEF s, d
<1>7. [x EXCEPT !.cstk = s, !.drained = d] \in Machines
  BY <1>6, SetCstkTyped
<1> QED BY <1>5, <1>7

\* pop_addr, and the address it gives.
LEMMA PopAddrTyped ==
    ASSUME NEW x \in Machines, x.cstk # <<>>
    PROVE  pop_addr(x) \in Machines /\ Last(x.cstk) \in Nat
<1>1. x.cstk \in Seq(Nat)
  BY MachineFields DEF CallStacks
<1>2. Len(x.cstk) \in Nat \ {0} /\ Last(x.cstk) \in Nat
  BY <1>1, LastTyped
<1>3. Len(x.cstk) \in 1 .. Len(x.cstk)
  BY <1>2
<1> QED BY <1>2, <1>3, TakeAddrTyped DEF pop_addr

\* push_addr, whatever the state of the stack.
LEMMA PushAddrTyped ==
    ASSUME NEW x \in Machines, NEW a \in Nat
    PROVE  push_addr(x, a) \in Machines
<1>1. x.cstk \in Seq(Nat) /\ Len(x.cstk) <= CallBlock /\ Len(x.cstk) \in Nat
  BY MachineFields DEF CallStacks
<1>2. CASE ~x.drained /\ Len(x.cstk) < CallBlock
  <2>1. Append(x.cstk, a) \in Seq(Nat) /\ Len(Append(x.cstk, a)) = Len(x.cstk) + 1
    BY <1>1, AppendTyped
  <2>2. Append(x.cstk, a) \in CallStacks
    BY <1>1, <1>2, <2>1, MachineAssumption DEF CallStacks
  <2>3. push_addr(x, a) = [x EXCEPT !.cstk = Append(x.cstk, a)]
    BY <1>2 DEF push_addr
  <2> QED BY <2>2, <2>3 DEF Machines
<1>3. CASE x.drained \/ ~(Len(x.cstk) < CallBlock)
  <2>1. push_addr(x, a) \in {Fail(x, "fault"), Fail(x, "undefined")}
    BY <1>3 DEF push_addr
  <2> QED BY <2>1, FailTyped DEF Errors
<1> QED BY <1>2, <1>3

\* g holds the machines PopToHistory makes of x, one after the other.
PopsFrom(g, S, x, n) ==
    /\ g \in [0 .. n -> S]
    /\ g[0] = x
    /\ \A k \in 1 .. n : g[k] = PopToHistory(g[k - 1])
    /\ Times(n, PopToHistory, x) = g[n]

\* The recursion of Times is a function.
LEMMA TimesPop ==
    ASSUME NEW S, NEW x \in S, \A s \in S : PopToHistory(s) \in S, NEW n \in Nat
    PROVE  \E g : PopsFrom(g, S, x, n)
<1> DEFINE F == [s \in S |-> PopToHistory(s)]
           P(g) == g = [k \in 0 .. n |-> IF k = 0 THEN x ELSE PopToHistory(g[k - 1])]
<1>1. F \in [S -> S]
  OBVIOUS
<1>2. PICK f : Iterates(f, S, F, x, n)
  <2> HIDE DEF F
  <2> QED BY <1>1, IterationExists
<1> USE DEF Iterates
<1>3. \A k \in 1 .. n : f[k] = PopToHistory(f[k - 1])
  <2> SUFFICES ASSUME NEW k \in 1 .. n PROVE f[k] = PopToHistory(f[k - 1])
    OBVIOUS
  <2>1. f[k - 1] \in S
    BY <1>2
  <2> QED BY <1>2, <2>1
<1>4. P(f)
  <2>1. \A k \in 0 .. n : f[k] = IF k = 0 THEN x ELSE PopToHistory(f[k - 1])
    BY <1>2, <1>3
  <2> QED BY <1>2, <2>1
<1> DEFINE g == CHOOSE h : P(h)
<1>5. P(g)
  BY <1>4
<1>6. Times(n, PopToHistory, x) = g[n]
  BY DEF Times
<1> HIDE DEF g
<1>7. 0 .. n \subseteq {k \in 0 .. n : g[k] \in S}
  <2> DEFINE T == {k \in 0 .. n : g[k] \in S}
  <2>1. 0 \in T
    BY <1>5
  <2>2. ASSUME NEW k \in 0 .. n - 1, k \in T PROVE k + 1 \in T
    BY <1>5, <2>2
  <2> HIDE DEF T
  <2>3. 0 .. n \subseteq T
    BY <2>1, <2>2, StepInduction
  <2> QED BY <2>3 DEF T
<1>8. g \in [0 .. n -> S] /\ g[0] = x
  BY <1>5, <1>7
<1>9. \A k \in 1 .. n : g[k] = PopToHistory(g[k - 1])
  BY <1>5
<1> QED BY <1>6, <1>8, <1>9 DEF PopsFrom

\* popn.
LEMMA TimesPopTyped ==
    ASSUME NEW x \in Machines, NEW n \in Nat
    PROVE  Times(n, PopToHistory, x) \in Machines
<1>1. \A s \in Machines : PopToHistory(s) \in Machines
  BY PopToHistoryTyped
<1>2. PICK g : PopsFrom(g, Machines, x, n)
  BY <1>1, TimesPop
<1>3. g[n] \in Machines
  BY <1>2 DEF PopsFrom
<1> QED BY <1>2, <1>3 DEF PopsFrom

\* PushFromHistory repeated.
LEMMA TimesPush ==
    ASSUME NEW S, NEW x \in S, \A s \in S : PushFromHistory(s) \in S, NEW n \in Nat
    PROVE  Times(n, PushFromHistory, x) \in S
<1> DEFINE F == [s \in S |-> PushFromHistory(s)]
           P(g) == g = [k \in 0 .. n |-> IF k = 0 THEN x ELSE PushFromHistory(g[k - 1])]
<1>1. F \in [S -> S]
  OBVIOUS
<1>2. PICK f : Iterates(f, S, F, x, n)
  <2> HIDE DEF F
  <2> QED BY <1>1, IterationExists
<1> USE DEF Iterates
<1>3. \A k \in 1 .. n : f[k] = PushFromHistory(f[k - 1])
  <2> SUFFICES ASSUME NEW k \in 1 .. n PROVE f[k] = PushFromHistory(f[k - 1])
    OBVIOUS
  <2>1. f[k - 1] \in S
    BY <1>2
  <2> QED BY <1>2, <2>1
<1>4. P(f)
  <2>1. \A k \in 0 .. n : f[k] = IF k = 0 THEN x ELSE PushFromHistory(f[k - 1])
    BY <1>2, <1>3
  <2> QED BY <1>2, <2>1
<1> DEFINE g == CHOOSE h : P(h)
<1>5. P(g)
  BY <1>4
<1>6. Times(n, PushFromHistory, x) = g[n]
  BY DEF Times
<1> HIDE DEF g
<1>7. 0 .. n \subseteq {k \in 0 .. n : g[k] \in S}
  <2> DEFINE T == {k \in 0 .. n : g[k] \in S}
  <2>1. 0 \in T
    BY <1>5
  <2>2. ASSUME NEW k \in 0 .. n - 1, k \in T PROVE k + 1 \in T
    BY <1>5, <2>2
  <2> HIDE DEF T
  <2>3. 0 .. n \subseteq T
    BY <2>1, <2>2, StepInduction
  <2> QED BY <2>3 DEF T
<1>8. n \in 0 .. n
  OBVIOUS
<1> QED BY <1>6, <1>7, <1>8

-----------------------------------------------------------------------------
(* Frames.                                                                 *)

\* What is known of a frame, by its instruction.
LEMMA FrameFields ==
    ASSUME NEW f \in IFrames
    PROVE  /\ f.opcode \in Built /\ f.addr \in Nat
           /\ \A k \in 1 .. Operands(f.opcode) : f.oprs[k] \in WordType
           /\ f.src \in WordType /\ f.dst \in WordType /\ f.result \in WordType
           /\ f.taken \in BOOLEAN /\ f.prev \in WordType \cup {Junk}
<1>1. PICK op \in Built : f \in FrameSet(op)
  BY DEF IFrames
<1> QED BY <1>1 DEF FrameSet

\* The operands of the kinds of instructions.
LEMMA OperandCounts ==
    ASSUME NEW op
    PROVE  /\ Operands(op) \in 0 .. 3
           /\ op \in OneOperand => Operands(op) = 1
           /\ op \in TwoOperand => Operands(op) = 2
           /\ op \in ThreeOperand => Operands(op) = 3
BY DEF Operands, OneOperand, TwoOperand, ThreeOperand

\* A word that can be read is one.
LEMMA ReadableTyped ==
    ASSUME NEW x \in Machines, NEW w, Readable(x, w) = "none"
    PROVE  w \in Words /\ x.ram[w] \in WordType /\ get_uint(x, w) \in WordType
<1>1. w \in Words /\ x.ram[w] # Junk
  BY DEF Readable, Access
<1>2. x.ram \in [Words -> WordType \cup {Junk}]
  BY MachineFields DEF Memories
<1> QED BY <1>1, <1>2 DEF get_uint

\* What reading a word throws.
LEMMA ReadableError ==
    ASSUME NEW x, NEW w
    PROVE  Readable(x, w) \in Errors
BY DEF Readable, Access, Errors

\* The writers of memory.
LEMMA WriteRamTyped ==
    ASSUME NEW x \in Machines, NEW f \in IFrames, f.opcode \in RamWriters
    PROVE  WriteRam(x, f) \in Machines
<1> DEFINE source == Source(x, f)
<1>1. source[1] \in Errors /\ (source[1] = "none" => source[2] \in WordType)
  <2>1. CASE f.opcode = "setr"
    <3>1. Operands(f.opcode) = 2
      BY <2>1, OperandCounts DEF TwoOperand
    <3> QED BY <2>1, <3>1, FrameFields DEF Source, Errors
  <2>2. CASE f.opcode = "cpyr"
    <3>1. source = <<Readable(x, f.src), IF f.src \in Words THEN x.ram[f.src] ELSE 0>>
      BY <2>2 DEF Source
    <3> QED BY <3>1, ReadableTyped, ReadableError
  <2>3. CASE f.opcode = "movtr"
    BY <2>3, TopTyped DEF Source, Errors
  <2>4. CASE f.opcode = "stktr"
    <3>1. CASE f.src < Len(x.wstk) /\ x.wstk[f.src + 1].type = "UINT32"
      <4>1. x.wstk \in Seq(StackWord) /\ Len(x.wstk) \in Nat
        BY MachineFields, LenProperties DEF WorkStacks
      <4>2. f.src + 1 \in 1 .. Len(x.wstk)
        <5>1. f.src \in Nat
          BY FrameFields, WordTypeIsNat
        <5> QED BY <3>1, <4>1, <5>1
      <4>3. x.wstk[f.src + 1] \in StackWord
        BY <4>1, <4>2, ElementOfSeq
      <4> QED BY <2>4, <3>1, <4>3 DEF Source, Errors, StackWord
    <3>2. CASE ~(f.src < Len(x.wstk) /\ x.wstk[f.src + 1].type = "UINT32")
      BY <2>4, <3>2 DEF Source, Errors
    <3> QED BY <3>1, <3>2
  <2> QED BY <2>1, <2>2, <2>3, <2>4 DEF RamWriters
<1> HIDE DEF source
<1>2. WriteRam(x, f) = IF Readable(x, f.dst) = "exception" THEN Fail(x, "exception")
                       ELSE IF source[1] # "none" THEN Fail(x, source[1])
                       ELSE set_ram(x, f.dst, "UINT32", source[2])
  BY DEF WriteRam, source
<1>3. CASE Readable(x, f.dst) = "exception"
  BY <1>2, <1>3, FailTyped DEF Errors
<1>4. CASE Readable(x, f.dst) # "exception" /\ source[1] # "none"
  BY <1>1, <1>2, <1>4, FailTyped
<1>5. CASE Readable(x, f.dst) # "exception" /\ source[1] = "none"
  BY <1>1, <1>2, <1>5, SetRamTyped
<1> QED BY <1>3, <1>4, <1>5

-----------------------------------------------------------------------------
(* Executing a frame.                                                      *)

\* A machine past the instruction of a frame, and at the target of its jump.
Advanced(x, f) == [x EXCEPT !.pc = @ + 1 + Operands(f.opcode)]
Jumped(x, f) == [Advanced(x, f) EXCEPT !.pc = f.oprs[1]]

\* The cases of exec_iframe exclude each other.
LEMMA ExecArms ==
    ASSUME NEW x, NEW f
    PROVE  LET op == f.opcode
               y == Advanced(x, f)
               jumped == Jumped(x, f)
           IN  /\ op \in Ends \cup {"nop", "swtch", "nspctr", "nspctst"} => exec_iframe(x, f) = y
               /\ op = "call" => exec_iframe(x, f) = push_addr(jumped, y.pc)
               /\ op = "ret" => exec_iframe(x, f) =
                     IF y.cstk = <<>> THEN Fail(y, "exception")
                     ELSE [pop_addr(y) EXCEPT !.pc = Last(y.cstk)]
               /\ op = "jmp" => exec_iframe(x, f) = jumped
               /\ op \in UintJumps \cup IntJumps =>
                     exec_iframe(x, f) = IF f.taken THEN jumped ELSE y
               /\ op = "loop" =>
                     exec_iframe(x, f) = [y EXCEPT !.loop_counter = f.oprs[1], !.pc = f.oprs[2]]
               /\ op \in {"lcont", "lbrk"} => exec_iframe(x, f) = Fail(y, "fault")
               /\ op = "psh" => exec_iframe(x, f) = push_word(y, "UINT32", f.oprs[1])
               /\ op \in {"pshfr", "pshfrr", "pshfrs"} => exec_iframe(x, f) =
                     IF Readable(y, f.src) # "none" THEN Fail(y, Readable(y, f.src))
                     ELSE push_word(y, "UINT32", get_uint(y, f.src))
               /\ op = "pop" => exec_iframe(x, f) = PopToHistory(y)
               /\ op = "pop2" => exec_iframe(x, f) = PopToHistory(PopToHistory(y))
               /\ op \in RamWriters => exec_iframe(x, f) = WriteRam(y, f)
               /\ op \in UintUnary \cup UintBinary =>
                     exec_iframe(x, f) = push_word(y, "UINT32", f.result)
               /\ op \in IntPushers => exec_iframe(x, f) = push_word(y, "INT32", f.result)
<1> DEFINE op == f.opcode
<1> USE DEF Ends, UintJumps, IntJumps, RamWriters, UintUnary, UintBinary, IntPushers,
            IntUnary, IntBinary
<1>1. op \in Ends \cup {"nop", "swtch", "nspctr", "nspctst"} => exec_iframe(x, f) = Advanced(x, f)
  BY DEF exec_iframe, Advanced, Jumped
<1>2. op = "call" => exec_iframe(x, f) = push_addr(Jumped(x, f), Advanced(x, f).pc)
  BY DEF exec_iframe, Advanced, Jumped
<1>3. op = "ret" => exec_iframe(x, f) =
                     IF Advanced(x, f).cstk = <<>> THEN Fail(Advanced(x, f), "exception")
                     ELSE [pop_addr(Advanced(x, f)) EXCEPT !.pc = Last(Advanced(x, f).cstk)]
  BY DEF exec_iframe, Advanced, Jumped
<1>4. op = "jmp" => exec_iframe(x, f) = Jumped(x, f)
  BY DEF exec_iframe, Advanced, Jumped
<1>5. op \in UintJumps \cup IntJumps =>
         exec_iframe(x, f) = IF f.taken THEN Jumped(x, f) ELSE Advanced(x, f)
  BY DEF exec_iframe, Advanced, Jumped
<1>6. op = "loop" =>
         exec_iframe(x, f) = [Advanced(x, f) EXCEPT !.loop_counter = f.oprs[1], !.pc = f.oprs[2]]
  BY DEF exec_iframe, Advanced, Jumped
<1>7. op \in {"lcont", "lbrk"} => exec_iframe(x, f) = Fail(Advanced(x, f), "fault")
  BY DEF exec_iframe, Advanced, Jumped
<1>8. op = "psh" => exec_iframe(x, f) = push_word(Advanced(x, f), "UINT32", f.oprs[1])
  BY DEF exec_iframe, Advanced, Jumped
<1>9. op \in {"pshfr", "pshfrr", "pshfrs"} => exec_iframe(x, f) =
         IF Readable(Advanced(x, f), f.src) # "none"
         THEN Fail(Advanced(x, f), Readable(Advanced(x, f), f.src))
         ELSE push_word(Advanced(x, f), "UINT32", get_uint(Advanced(x, f), f.src))
  BY DEF exec_iframe, Advanced, Jumped
<1>10. op = "pop" => exec_iframe(x, f) = PopToHistory(Advanced(x, f))
  BY DEF exec_iframe, Advanced, Jumped
<1>11. op = "pop2" => exec_iframe(x, f) = PopToHistory(PopToHistory(Advanced(x, f)))
  BY DEF exec_iframe, Advanced, Jumped
<1>12. op \in RamWriters => exec_iframe(x, f) = WriteRam(Advanced(x, f), f)
  BY DEF exec_iframe, Advanced, Jumped
<1>13. op \in UintUnary \cup UintBinary =>
          exec_iframe(x, f) = push_word(Advanced(x, f), "UINT32", f.result)
  BY DEF exec_iframe, Advanced, Jumped
<1>14. op \in IntPushers => exec_iframe(x, f) = push_word(Advanced(x, f), "INT32", f.result)
  BY DEF exec_iframe, Advanced, Jumped
<1> HIDE DEF Ends, UintJumps, IntJumps, RamWriters, UintUnary, UintBinary, IntPushers,
             IntUnary, IntBinary
<1> QED
  BY <1>1, <1>2, <1>3, <1>4, <1>5, <1>6, <1>7, <1>8, <1>9, <1>10, <1>11, <1>12, <1>13,
     <1>14

\* The same, for the instructions of one kind.
LEMMA ExecAdvances ==
    ASSUME NEW x, NEW f, f.opcode \in Ends \cup {"nop", "swtch", "nspctr", "nspctst"}
    PROVE  exec_iframe(x, f) = Advanced(x, f)
BY ExecArms, Zenon

LEMMA ExecCall ==
    ASSUME NEW x, NEW f, f.opcode = "call"
    PROVE  exec_iframe(x, f) = push_addr(Jumped(x, f), Advanced(x, f).pc)
BY ExecArms, Zenon

LEMMA ExecRet ==
    ASSUME NEW x, NEW f, f.opcode = "ret"
    PROVE  exec_iframe(x, f) =
              IF Advanced(x, f).cstk = <<>> THEN Fail(Advanced(x, f), "exception")
              ELSE [pop_addr(Advanced(x, f)) EXCEPT !.pc = Last(Advanced(x, f).cstk)]
BY ExecArms, Zenon

LEMMA ExecJumps ==
    ASSUME NEW x, NEW f, f.opcode \in UintJumps \cup IntJumps
    PROVE  exec_iframe(x, f) = IF f.taken THEN Jumped(x, f) ELSE Advanced(x, f)
BY ExecArms, Zenon

LEMMA ExecLoop ==
    ASSUME NEW x, NEW f, f.opcode = "loop"
    PROVE  exec_iframe(x, f) =
              [Advanced(x, f) EXCEPT !.loop_counter = f.oprs[1], !.pc = f.oprs[2]]
BY ExecArms, Zenon

LEMMA ExecPushes ==
    ASSUME NEW x, NEW f
    PROVE  /\ f.opcode = "psh" =>
                 exec_iframe(x, f) = push_word(Advanced(x, f), "UINT32", f.oprs[1])
           /\ f.opcode \in UintUnary \cup UintBinary =>
                 exec_iframe(x, f) = push_word(Advanced(x, f), "UINT32", f.result)
           /\ f.opcode \in IntPushers =>
                 exec_iframe(x, f) = push_word(Advanced(x, f), "INT32", f.result)
<1>1. f.opcode = "psh" => exec_iframe(x, f) = push_word(Advanced(x, f), "UINT32", f.oprs[1])
  BY ExecArms, Zenon
<1>2. f.opcode \in UintUnary \cup UintBinary =>
         exec_iframe(x, f) = push_word(Advanced(x, f), "UINT32", f.result)
  BY ExecArms, Zenon
<1>3. f.opcode \in IntPushers => exec_iframe(x, f) = push_word(Advanced(x, f), "INT32", f.result)
  BY ExecArms, Zenon
<1> QED BY <1>1, <1>2, <1>3

LEMMA ExecReads ==
    ASSUME NEW x, NEW f
    PROVE  f.opcode \in {"pshfr", "pshfrr", "pshfrs"} => exec_iframe(x, f) =
              IF Readable(Advanced(x, f), f.src) # "none"
              THEN Fail(Advanced(x, f), Readable(Advanced(x, f), f.src))
              ELSE push_word(Advanced(x, f), "UINT32", get_uint(Advanced(x, f), f.src))
<1> DEFINE y == Advanced(x, f)
<1>1. f.opcode \in {"pshfr", "pshfrr", "pshfrs"} => exec_iframe(x, f) =
         IF Readable(y, f.src) # "none" THEN Fail(y, Readable(y, f.src))
         ELSE push_word(y, "UINT32", get_uint(y, f.src))
  BY ExecArms
<1> QED BY <1>1

LEMMA ExecPopn ==
    ASSUME NEW x, NEW f, f.opcode = "popn"
    PROVE  exec_iframe(x, f) = Times(f.oprs[1], PopToHistory, Advanced(x, f))
BY DEF exec_iframe, Advanced, Jumped, Ends, UintJumps, IntJumps, RamWriters, UintUnary,
       UintBinary, IntPushers, IntUnary, IntBinary

\* And there are no others for a frame that was built.
LEMMA BuiltArms ==
    ASSUME NEW op \in Built
    PROVE  \/ op \in Ends \cup {"nop", "swtch", "nspctr", "nspctst"}
           \/ op = "call" \/ op = "ret" \/ op = "jmp" \/ op \in UintJumps \cup IntJumps
           \/ op = "loop" \/ op \in {"lcont", "lbrk"} \/ op = "psh"
           \/ op \in {"pshfr", "pshfrr", "pshfrs"} \/ op = "pop" \/ op = "pop2" \/ op = "popn"
           \/ op \in RamWriters \/ op \in UintUnary \cup UintBinary \/ op \in IntPushers
BY DEF Built, Opcodes, NoOperand, OneOperand, TwoOperand, ThreeOperand, Arithmetic,
       UintJumps, IntJumps, RamWriters, IntPushers

\* Moving on, or to the target of a jump, which a frame of a jump has.
LEMMA AdvancedTyped ==
    ASSUME NEW x \in Machines, NEW f \in IFrames
    PROVE  /\ Advanced(x, f) \in Machines /\ Advanced(x, f).pc \in Nat
           /\ Operands(f.opcode) > 0 => Jumped(x, f) \in Machines /\ f.oprs[1] \in WordType
<1>1. x.pc + 1 + Operands(f.opcode) \in Nat
  BY MachineFields, OperandCounts
<1>2. Advanced(x, f) \in Machines
  BY <1>1, SetPcTyped DEF Advanced
<1>3. ASSUME Operands(f.opcode) > 0 PROVE Jumped(x, f) \in Machines /\ f.oprs[1] \in WordType
  <2>1. f.oprs[1] \in WordType
    BY <1>3, FrameFields, OperandCounts
  <2> QED BY <1>2, <2>1, SetPcTyped, WordTypeIsNat DEF Jumped
<1> QED BY <1>2, <1>3, MachineFields

\* Executing a frame on a machine gives a machine.
LEMMA ExecTyped ==
    ASSUME NEW x \in Machines, NEW f \in IFrames
    PROVE  exec_iframe(x, f) \in Machines
<1> DEFINE op == f.opcode
           y == Advanced(x, f)
           jumped == Jumped(x, f)
           next == exec_iframe(x, f)
<1>1. y \in Machines /\ y.pc \in Nat
  BY AdvancedTyped
<1>2. op \in OneOperand \cup TwoOperand \cup ThreeOperand =>
         jumped \in Machines /\ f.oprs[1] \in WordType /\ f.oprs[1] \in Nat
  <2>1. op \in OneOperand \cup TwoOperand \cup ThreeOperand => Operands(op) > 0
    BY OperandCounts
  <2>2. Operands(op) > 0 => jumped \in Machines /\ f.oprs[1] \in WordType
    BY AdvancedTyped
  <2> HIDE DEF op, jumped
  <2> QED BY <2>1, <2>2, WordTypeIsNat
<1> HIDE DEF y, jumped
<1>3. CASE op \in Ends \cup {"nop", "swtch", "nspctr", "nspctst"}
  BY <1>1, <1>3, ExecArms DEF y
<1>4. CASE op = "call"
  <2>1. next = push_addr(jumped, y.pc)
    BY <1>4, ExecArms DEF y, jumped
  <2> QED BY <1>1, <1>2, <1>4, <2>1, PushAddrTyped DEF OneOperand
<1>5. CASE op = "ret"
  <2>1. next = IF y.cstk = <<>> THEN Fail(y, "exception")
               ELSE [pop_addr(y) EXCEPT !.pc = Last(y.cstk)]
    BY <1>5, ExecArms DEF y
  <2> QED BY <1>1, <2>1, FailTyped, PopAddrTyped, SetPcTyped DEF Errors
<1>6. CASE op = "jmp"
  BY <1>2, <1>6, ExecArms DEF jumped, OneOperand
<1>7. CASE op \in UintJumps \cup IntJumps
  <2>1. next = IF f.taken THEN jumped ELSE y
    BY <1>7, ExecArms DEF y, jumped
  <2> QED BY <1>1, <1>2, <1>7, <2>1 DEF OneOperand, UintJumps, IntJumps
<1>8. CASE op = "loop"
  <2>1. next = [y EXCEPT !.loop_counter = f.oprs[1], !.pc = f.oprs[2]]
    BY <1>8, ExecArms DEF y
  <2>2. Operands(op) = 3
    BY <1>8, OperandCounts DEF ThreeOperand
  <2>3. f.oprs[1] \in WordType /\ f.oprs[2] \in WordType
    BY <2>2, FrameFields
  <2>4. f.oprs[2] \in Nat
    BY <2>3, WordTypeIsNat
  <2> QED BY <1>1, <2>1, <2>3, <2>4 DEF Machines
<1>9. CASE op \in {"lcont", "lbrk"}
  BY <1>1, <1>9, ExecArms, FailTyped DEF y, Errors
<1>10. CASE op = "psh"
  <2>1. next = push_word(y, "UINT32", f.oprs[1])
    BY <1>10, ExecArms DEF y
  <2> QED BY <1>1, <1>2, <1>10, <2>1, PushWordTyped DEF OneOperand
<1>11. CASE op \in {"pshfr", "pshfrr", "pshfrs"}
  <2>1. next = IF Readable(y, f.src) # "none" THEN Fail(y, Readable(y, f.src))
               ELSE push_word(y, "UINT32", get_uint(y, f.src))
    BY <1>11, ExecArms DEF y
  <2>2. CASE Readable(y, f.src) # "none"
    BY <1>1, <2>1, <2>2, ReadableError, FailTyped
  <2>3. CASE Readable(y, f.src) = "none"
    BY <1>1, <2>1, <2>3, ReadableTyped, PushWordTyped
  <2> QED BY <2>2, <2>3
<1>12. CASE op = "pop"
  BY <1>1, <1>12, ExecArms, PopToHistoryTyped DEF y
<1>13. CASE op = "pop2"
  BY <1>1, <1>13, ExecArms, PopToHistoryTyped DEF y
<1>14. CASE op = "popn"
  <2>1. next = Times(f.oprs[1], PopToHistory, y)
    BY <1>14, ExecPopn DEF y
  <2> QED BY <1>1, <1>2, <1>14, <2>1, TimesPopTyped DEF OneOperand
<1>15. CASE op \in RamWriters
  BY <1>1, <1>15, ExecArms, WriteRamTyped DEF y
<1>16. CASE op \in UintUnary \cup UintBinary
  <2>1. next = push_word(y, "UINT32", f.result)
    BY <1>16, ExecArms DEF y
  <2> QED BY <1>1, <2>1, PushWordTyped, FrameFields
<1>17. CASE op \in IntPushers
  <2>1. next = push_word(y, "INT32", f.result)
    BY <1>17, ExecArms DEF y
  <2> QED BY <1>1, <2>1, PushWordTyped, FrameFields
<1>18. op \in Built
  BY FrameFields
<1> QED
  BY <1>3, <1>4, <1>5, <1>6, <1>7, <1>8, <1>9, <1>10, <1>11, <1>12, <1>13, <1>14, <1>15,
     <1>16, <1>17, <1>18, BuiltArms

-----------------------------------------------------------------------------
(* Undoing a frame.                                                        *)

\* Undoing a frame on a machine gives a machine.
LEMMA UndoTyped ==
    ASSUME NEW x \in Machines, NEW f \in IFrames, NEW c \in IFrames
    PROVE  undo_exec_iframe(x, f, c) \in Machines
<1> DEFINE op == f.opcode
           y == [x EXCEPT !.pc = c.addr]
<1> USE DEF RamWriters, UintPushers, UintUnary, UintBinary, IntPushers, IntUnary, IntBinary
<1>1. y \in Machines
  BY FrameFields, SetPcTyped
<1> HIDE DEF y
<1>2. CASE op = "call"
  <2>1. undo_exec_iframe(x, f, c) =
            IF y.cstk = <<>> THEN Fail(y, "exception")
            ELSE [pop_addr(y) EXCEPT !.popped_retaddrs = Append(@, Last(y.cstk))]
    BY <1>2 DEF undo_exec_iframe, y
  <2>2. CASE y.cstk = <<>>
    BY <1>1, <2>1, <2>2, FailTyped DEF Errors
  <2>3. CASE y.cstk # <<>>
    <3>1. pop_addr(y) \in Machines /\ Last(y.cstk) \in Nat
      BY <1>1, <2>3, PopAddrTyped
    <3>2. Append(pop_addr(y).popped_retaddrs, Last(y.cstk)) \in Seq(Nat)
      BY <3>1, MachineFields, AppendTyped
    <3> QED BY <2>1, <2>3, <3>1, <3>2, SetRetaddrsTyped
  <2> QED BY <2>2, <2>3
<1>3. CASE op = "ret"
  <2>1. undo_exec_iframe(x, f, c) =
            IF y.popped_retaddrs = <<>> THEN Fail(y, "undefined")
            ELSE [push_addr(y, Last(y.popped_retaddrs)) EXCEPT !.popped_retaddrs = Front(@)]
    BY <1>3 DEF undo_exec_iframe, y
  <2>2. CASE y.popped_retaddrs = <<>>
    BY <1>1, <2>1, <2>2, FailTyped DEF Errors
  <2>3. CASE y.popped_retaddrs # <<>>
    <3>1. y.popped_retaddrs \in Seq(Nat)
      BY <1>1, MachineFields
    <3>2. Last(y.popped_retaddrs) \in Nat /\ Front(y.popped_retaddrs) \in Seq(Nat)
      BY <2>3, <3>1, LastTyped, FrontTyped
    <3> DEFINE z == push_addr(y, Last(y.popped_retaddrs))
    <3>3. z \in Machines
      BY <1>1, <3>2, PushAddrTyped
    <3>4. z.popped_retaddrs = y.popped_retaddrs
      BY <1>1 DEF push_addr, Fail, Machines
    <3>5. undo_exec_iframe(x, f, c) = [z EXCEPT !.popped_retaddrs = Front(z.popped_retaddrs)]
      BY <2>1, <2>3
    <3> HIDE DEF z
    <3> QED BY <3>2, <3>3, <3>4, <3>5, SetRetaddrsTyped
  <2> QED BY <2>2, <2>3
<1>4. CASE op = "loop"
  <2>1. undo_exec_iframe(x, f, c) = [y EXCEPT !.loop_counter = 0]
    BY <1>4 DEF undo_exec_iframe, y
  <2> QED BY <1>1, <2>1, WordTypeIsNat DEF Machines
<1>5. CASE op = "pop"
  <2>1. undo_exec_iframe(x, f, c) = Repush(y)
    BY <1>5 DEF undo_exec_iframe, y
  <2> QED BY <1>1, <2>1, RepushTyped
<1>6. CASE op = "pop2"
  <2>1. undo_exec_iframe(x, f, c) = Repush(Repush(y))
    BY <1>6 DEF undo_exec_iframe, y
  <2> QED BY <1>1, <2>1, RepushTyped
<1>7. CASE op = "popn"
  <2>1. undo_exec_iframe(x, f, c) = ForgetPopped(Times(f.oprs[1], PushFromHistory, y))
    BY <1>7 DEF undo_exec_iframe, y
  <2>2. Operands(op) = 1
    BY <1>7, OperandCounts DEF OneOperand
  <2>3. f.oprs[1] \in WordType
    BY <2>2, FrameFields
  <2>4. f.oprs[1] \in Nat
    BY <2>3, WordTypeIsNat
  <2>5. \A s \in Machines : PushFromHistory(s) \in Machines
    BY PushFromHistoryTyped
  <2>6. Times(f.oprs[1], PushFromHistory, y) \in Machines
    BY <1>1, <2>4, <2>5, TimesPush
  <2> QED BY <2>1, <2>6, ForgetPoppedTyped
<1>8. CASE op \in RamWriters
  <2> DEFINE z == set_ram(y, c.dst, "UINT32", f.prev)
  <2>1. undo_exec_iframe(x, f, c) = [z EXCEPT !.pc = @ + 1]
    BY <1>8 DEF undo_exec_iframe, y
  <2>2. z \in Machines
    BY <1>1, FrameFields, SetRamTyped
  <2> HIDE DEF z
  <2>3. z.pc + 1 \in Nat
    BY <2>2, MachineFields
  <2> QED BY <2>1, <2>2, <2>3, SetPcTyped
<1>9. CASE op \in UintPushers
  <2>1. undo_exec_iframe(x, f, c) = pop_uint(y)
    BY <1>9 DEF undo_exec_iframe, y
  <2> QED BY <1>1, <2>1, PopUintTyped
<1>10. CASE op \in IntPushers
  <2>1. undo_exec_iframe(x, f, c) = push_word(y, "UINT32", 0)
    BY <1>10 DEF undo_exec_iframe, y
  <2> QED BY <1>1, <2>1, PushWordTyped, WordTypeIsNat
<1>11. CASE op \notin {"call", "ret", "loop", "pop", "pop2", "popn"} \cup RamWriters
                        \cup UintPushers \cup IntPushers
  <2>1. undo_exec_iframe(x, f, c) = y
    BY <1>11 DEF undo_exec_iframe, y
  <2> QED BY <1>1, <2>1
<1> QED
  BY <1>2, <1>3, <1>4, <1>5, <1>6, <1>7, <1>8, <1>9, <1>10, <1>11

-----------------------------------------------------------------------------
(* Building a frame.                                                       *)

\* An opcode that can be built has a case in exec_iframe.
LEMMA OpcodeKnown ==
    ASSUME NEW x
    PROVE  opcode(x) \in Opcodes \cup {"unknown"}
BY MnemonicAssumption DEF opcode, OpcodeIn, Opcodes

\* What a frame may be built from: the operands can be read, the instruction's
\* arguments lie on the working stack, and so on.
LEMMA Buildable ==
    ASSUME NEW x \in Machines, NEW op \in Opcodes \cup {"unknown"}, BuildError(x, op) = "none"
    PROVE  /\ op \in Built
           /\ \A k \in 1 .. Operands(op) : opr(x, k) \in WordType
           /\ op \in UintUnary \cup IntUnary \cup {"pshfrs"} => Len(x.wstk) >= 1
           /\ op \in UintBinary \cup IntBinary \cup UintJumps \cup IntJumps => Len(x.wstk) >= 2
           /\ op = "pshfrr" => Readable(x, opr(x, 1)) = "none"
           /\ op = "pshfrs" => Readable(x, Top(x).val) = "none"
           /\ op \in {"divs", "mods"} => Result(x, op) # Trap
<1> DEFINE bad == {Readable(x, x.pc + k) : k \in 1 .. Operands(op)} \ {"none"}
           arguments == CASE op \in UintUnary \cup IntUnary \cup {"pshfrs"} -> 1
                          [] op \in UintBinary \cup IntBinary \cup UintJumps \cup IntJumps -> 2
                          [] OTHER -> 0
           last == CASE op \in {"nspctr", "pshfrr"} -> Readable(x, opr(x, 1))
                     [] op = "pshfrs"               -> Readable(x, Top(x).val)
                     [] op \in {"divs", "mods"}     ->
                           IF Result(x, op) = Trap THEN "fault" ELSE "none"
                     [] OTHER                       -> "none"
<1>1. BuildError(x, op) = IF op \in {"poptr", "brkp", "unknown"} THEN "exception"
                          ELSE IF bad # {} THEN CHOOSE e \in bad : TRUE
                          ELSE IF Len(x.wstk) < arguments THEN "exception"
                          ELSE last
  BY DEF BuildError
<1>2. (CHOOSE e \in bad : TRUE) = "none" => bad = {}
  <2>1. \A e \in bad : e # "none"
    OBVIOUS
  <2> HIDE DEF bad
  <2> QED BY <2>1
<1> HIDE DEF bad, arguments, last
<1>3. op \in Built /\ bad = {} /\ ~(Len(x.wstk) < arguments) /\ last = "none"
  BY <1>1, <1>2 DEF Built
<1>4. \A k \in 1 .. Operands(op) : opr(x, k) \in WordType
  <2> SUFFICES ASSUME NEW k \in 1 .. Operands(op) PROVE opr(x, k) \in WordType
    OBVIOUS
  <2>1. Readable(x, x.pc + k) = "none"
    BY <1>3 DEF bad
  <2> QED BY <2>1, ReadableTyped DEF opr
<1>5. Len(x.wstk) \in Nat
  BY MachineFields, LenProperties DEF WorkStacks
<1> USE DEF UintUnary, IntUnary, UintBinary, IntBinary, UintJumps, IntJumps
<1>6. op \in UintUnary \cup IntUnary \cup {"pshfrs"} => Len(x.wstk) >= 1
  <2>1. op \in UintUnary \cup IntUnary \cup {"pshfrs"} => arguments = 1
    BY DEF arguments
  <2> QED BY <1>3, <1>5, <2>1
<1>7. op \in UintBinary \cup IntBinary \cup UintJumps \cup IntJumps => Len(x.wstk) >= 2
  <2>1. op \in UintBinary \cup IntBinary \cup UintJumps \cup IntJumps => arguments = 2
    BY DEF arguments
  <2> QED BY <1>3, <1>5, <2>1
<1>8. op = "pshfrr" => Readable(x, opr(x, 1)) = "none"
  BY <1>3 DEF last
<1>9. op = "pshfrs" => Readable(x, Top(x).val) = "none"
  BY <1>3 DEF last
<1>10. op \in {"divs", "mods"} => Result(x, op) # Trap
  BY <1>3 DEF last
<1> QED BY <1>3, <1>4, <1>6, <1>7, <1>8, <1>9, <1>10

\* What building throws is an error.
LEMMA BuildErrorTyped ==
    ASSUME NEW x, NEW op
    PROVE  BuildError(x, op) \in Errors
<1> DEFINE bad == {Readable(x, x.pc + k) : k \in 1 .. Operands(op)} \ {"none"}
           arguments == CASE op \in UintUnary \cup IntUnary \cup {"pshfrs"} -> 1
                          [] op \in UintBinary \cup IntBinary \cup UintJumps \cup IntJumps -> 2
                          [] OTHER -> 0
           last == CASE op \in {"nspctr", "pshfrr"} -> Readable(x, opr(x, 1))
                     [] op = "pshfrs"               -> Readable(x, Top(x).val)
                     [] op \in {"divs", "mods"}     ->
                           IF Result(x, op) = Trap THEN "fault" ELSE "none"
                     [] OTHER                       -> "none"
<1>1. BuildError(x, op) = IF op \in {"poptr", "brkp", "unknown"} THEN "exception"
                          ELSE IF bad # {} THEN CHOOSE e \in bad : TRUE
                          ELSE IF Len(x.wstk) < arguments THEN "exception"
                          ELSE last
  BY DEF BuildError
<1>2. bad \subseteq Errors
  BY ReadableError
<1>3. bad # {} => (CHOOSE e \in bad : TRUE) \in Errors
  <2> HIDE DEF bad
  <2> QED BY <1>2
<1>4. last \in Errors
  BY ReadableError DEF Errors
<1> HIDE DEF bad, arguments, last
<1> QED BY <1>1, <1>3, <1>4 DEF Errors

\* The word below the top.
LEMMA SecondTyped ==
    ASSUME NEW x \in Machines, Len(x.wstk) >= 2
    PROVE  Top(x).val \in WordType /\ Second(x).val \in WordType
<1>1. x.wstk \in Seq(StackWord) /\ Len(x.wstk) \in Nat
  BY MachineFields, LenProperties DEF WorkStacks
<1>2. Len(x.wstk) - 1 \in 1 .. Len(x.wstk) /\ Len(x.wstk) \in 1 .. Len(x.wstk)
  BY <1>1
<1>3. Top(x) \in StackWord /\ Second(x) \in StackWord
  BY <1>1, <1>2, ElementOfSeq DEF Top, Second, Last
<1> QED BY <1>3 DEF StackWord

\* What a frame of arithmetic holds, when it could be built.
LEMMA ResultTyped ==
    ASSUME NEW x \in Machines, NEW op \in Opcodes \cup {"unknown"}, BuildError(x, op) = "none"
    PROVE  Result(x, op) \in WordType
<1>1. CASE op \in UintUnary \cup IntUnary
  <2>1. Top(x).val \in WordType
    <3>1. x.wstk # <<>>
      BY <1>1, Buildable
    <3> QED BY <3>1, TopTyped
  <2>2. CASE op \in UintUnary
    <3>1. Result(x, op) = UintOp(op, Top(x).val, 0)
      BY <2>2 DEF Result, UintUnary, UintBinary, IntUnary, IntBinary
    <3> QED BY <2>1, <2>2, <3>1, ArithmeticAssumption, WordTypeIsNat
  <2>3. CASE op \in IntUnary
    <3>1. Result(x, op) = IntOp(op, Top(x).val, 0)
      BY <2>3 DEF Result, UintUnary, UintBinary, IntUnary, IntBinary
    <3>2. op \notin {"divs", "mods"}
      BY <2>3 DEF IntUnary
    <3> QED BY <2>1, <2>3, <3>1, <3>2, ArithmeticAssumption, WordTypeIsNat
  <2> QED BY <1>1, <2>2, <2>3
<1>2. CASE op \in UintBinary \cup IntBinary
  <2>1. Top(x).val \in WordType /\ Second(x).val \in WordType
    <3>1. Len(x.wstk) >= 2
      BY <1>2, Buildable
    <3> QED BY <3>1, SecondTyped
  <2>2. CASE op \in UintBinary
    <3>1. Result(x, op) = UintOp(op, Top(x).val, Second(x).val)
      BY <2>2 DEF Result, UintUnary, UintBinary, IntUnary, IntBinary
    <3> QED BY <2>1, <2>2, <3>1, ArithmeticAssumption
  <2>3. CASE op \in IntBinary
    <3>1. Result(x, op) = IntOp(op, Top(x).val, Second(x).val)
      BY <2>3 DEF Result, UintUnary, UintBinary, IntUnary, IntBinary
    <3>2. op \in {"divs", "mods"} => Result(x, op) # Trap
      BY Buildable
    <3> QED BY <2>1, <2>3, <3>1, <3>2, ArithmeticAssumption
  <2> QED BY <1>2, <2>2, <2>3
<1>3. CASE op \notin UintUnary \cup IntUnary \cup UintBinary \cup IntBinary
  BY <1>3, WordTypeIsNat DEF Result
<1> QED BY <1>1, <1>2, <1>3

\* Whether a jump is taken.
LEMMA TakenTyped ==
    ASSUME NEW x \in Machines, NEW op \in Opcodes \cup {"unknown"}, BuildError(x, op) = "none"
    PROVE  Taken(x, op) \in BOOLEAN
<1>1. CASE op \in UintJumps \cup IntJumps
  <2>1. Len(x.wstk) >= 2
    BY <1>1, Buildable
  <2>2. Top(x).val \in WordType /\ Second(x).val \in WordType
    BY <2>1, SecondTyped
  <2>3. Top(x).val \in Nat /\ Second(x).val \in Nat
    BY <2>2, WordTypeIsNat
  <2>4. IntLess(Top(x).val, Second(x).val) \in BOOLEAN /\ IntLess(Second(x).val, Top(x).val) \in BOOLEAN
    BY <2>2, ArithmeticAssumption
  <2> DEFINE l == Top(x).val
             r == Second(x).val
  <2>5. Taken(x, op) \in {l = r, l # r, l < r, l > r, IntLess(l, r), IntLess(r, l)}
    BY <1>1 DEF Taken, UintJumps, IntJumps
  <2>6. l \in Nat /\ r \in Nat
    BY <2>3
  <2> HIDE DEF l, r
  <2>7. (l < r) \in BOOLEAN /\ (l > r) \in BOOLEAN
    BY <2>6
  <2> QED BY <2>4, <2>5, <2>7 DEF l, r
<1>2. CASE op \notin UintJumps \cup IntJumps
  BY <1>2 DEF Taken, UintJumps, IntJumps
<1> QED BY <1>1, <1>2

\* The frame build_iframe makes.
LEMMA NewFrameTyped ==
    ASSUME NEW x \in Machines, NEW op \in Opcodes \cup {"unknown"}, BuildError(x, op) = "none"
    PROVE  NewFrame(x, op) \in IFrames /\ NewFrame(x, op).opcode = op
<1> DEFINE f == NewFrame(x, op)
<1>0. op \in Built /\ \A k \in 1 .. Operands(op) : opr(x, k) \in WordType
  BY Buildable
<1>1. f.src \in WordType
  <2>1. CASE op \in {"nspctr", "pshfr", "cpyr"}
    <3>1. 1 \in 1 .. Operands(op)
      BY <2>1, OperandCounts DEF OneOperand, TwoOperand
    <3>2. f.src = opr(x, 1)
      BY <2>1 DEF NewFrame
    <3> QED BY <1>0, <3>1, <3>2
  <2>2. CASE op = "stktr"
    <3>1. 2 \in 1 .. Operands(op)
      BY <2>2, OperandCounts DEF OneOperand, TwoOperand
    <3>2. f.src = opr(x, 2)
      BY <2>2 DEF NewFrame
    <3> QED BY <1>0, <3>1, <3>2
  <2>3. CASE op = "pshfrr"
    <3>1. f.src = get_uint(x, opr(x, 1))
      BY <2>3 DEF NewFrame
    <3> QED BY <2>3, <3>1, Buildable, ReadableTyped
  <2>4. CASE op = "pshfrs"
    <3>1. f.src = get_uint(x, Top(x).val)
      BY <2>4 DEF NewFrame
    <3> QED BY <2>4, <3>1, Buildable, ReadableTyped
  <2>5. CASE op \notin {"nspctr", "pshfr", "cpyr", "stktr", "pshfrr", "pshfrs"}
    BY <2>5, WordTypeIsNat DEF NewFrame
  <2> QED BY <2>1, <2>2, <2>3, <2>4, <2>5
<1>2. f.dst \in WordType
  <2>1. CASE op \in {"movtr", "stktr", "setr"}
    <3>1. 1 \in 1 .. Operands(op)
      BY <2>1, OperandCounts DEF OneOperand, TwoOperand
    <3>2. f.dst = opr(x, 1)
      BY <2>1 DEF NewFrame
    <3> QED BY <1>0, <3>1, <3>2
  <2>2. CASE op = "cpyr"
    <3>1. 2 \in 1 .. Operands(op)
      BY <2>2, OperandCounts DEF OneOperand, TwoOperand
    <3>2. f.dst = opr(x, 2)
      BY <2>2 DEF NewFrame
    <3> QED BY <1>0, <3>1, <3>2
  <2>3. CASE op \notin {"movtr", "stktr", "setr", "cpyr"}
    BY <2>3, WordTypeIsNat DEF NewFrame
  <2> QED BY <2>1, <2>2, <2>3
<1>3. f.result \in WordType /\ f.taken \in BOOLEAN
  BY ResultTyped, TakenTyped DEF NewFrame
<1>4. f.addr \in Nat /\ f.prev \in WordType \cup {Junk} /\ f.opcode = op
  BY MachineFields, WordTypeIsNat DEF NewFrame
<1>5. f.oprs \in [1 .. Operands(op) -> WordType]
  BY <1>0 DEF NewFrame
<1>6. f = [opcode |-> f.opcode, addr |-> f.addr, oprs |-> f.oprs, src |-> f.src, dst |-> f.dst,
           result |-> f.result, taken |-> f.taken, prev |-> f.prev]
  BY DEF NewFrame
<1> HIDE DEF f
<1>7. f \in FrameSet(op)
  BY <1>1, <1>2, <1>3, <1>4, <1>5, <1>6 DEF FrameSet
<1> QED BY <1>0, <1>4, <1>7 DEF IFrames, f

\* What executing the frame remembers for undo.
LEMMA RememberTyped ==
    ASSUME NEW x \in Machines, NEW f \in IFrames
    PROVE  /\ Remember(x, f) \in IFrames
           /\ \E v : Remember(x, f) = [f EXCEPT !.prev = v]
<1>1. PICK op \in Built : f \in FrameSet(op)
  BY DEF IFrames
<1>2. CASE f.opcode \in RamWriters /\ f.dst \in Words
  <2>1. x.ram[f.dst] \in WordType \cup {Junk}
    BY <1>2, MachineFields DEF Memories
  <2>2. Remember(x, f) = [f EXCEPT !.prev = x.ram[f.dst]]
    BY <1>2 DEF Remember
  <2>3. Remember(x, f) \in FrameSet(op)
    BY <1>1, <2>1, <2>2 DEF FrameSet
  <2> QED BY <2>2, <2>3 DEF IFrames
<1>3. CASE ~(f.opcode \in RamWriters /\ f.dst \in Words)
  <2>1. Remember(x, f) = f
    BY <1>3 DEF Remember
  <2>2. f = [f EXCEPT !.prev = f.prev]
    BY <1>1 DEF FrameSet
  <2> QED BY <2>1, <2>2
<1> QED BY <1>2, <1>3

-----------------------------------------------------------------------------
(* Loading a program.                                                      *)

Recorders == [types : TypeRecords, curr_addr : Nat, ptr : Nat,
              result : {"recording", "recorded", "undefined", "INVALID_OPCODE_IN_TYPEREC"}]

\* Loading.
LEMMA LoadedTyped ==
    ASSUME NEW code \in Seq(WordType)
    PROVE  Loaded(code) \in Memories
<1> SUFFICES ASSUME NEW w \in Words
             PROVE  (IF w < MetadataWords THEN 0
                     ELSE IF w - MetadataWords < Len(code) THEN code[w - MetadataWords + 1]
                     ELSE Junk) \in WordType \cup {Junk}
  BY DEF Loaded, Memories
<1>1. w \in Nat /\ MetadataWords \in Nat /\ Len(code) \in Nat
  BY TypeRecordAssumption, LenProperties DEF Words
<1>2. CASE ~(w < MetadataWords) /\ w - MetadataWords < Len(code)
  <2>1. w - MetadataWords + 1 \in 1 .. Len(code)
    BY <1>1, <1>2
  <2> QED BY <1>2, <2>1, ElementOfSeq
<1>3. CASE w < MetadataWords \/ ~(w - MetadataWords < Len(code))
  BY <1>3, WordTypeIsNat
<1> QED BY <1>2, <1>3

\* One opcode recorded.
LEMMA RecordOpTyped ==
    ASSUME NEW mem, NEW s \in Recorders
    PROVE  RecordOp(mem, s) \in Recorders
<1> DEFINE types == [s.types EXCEPT ![s.curr_addr] = "UINT8"]
           word  == mem[s.ptr]
           op    == OpcodeIn(word)
           past  == s.curr_addr + Operands(op)
           filled == [w \in Words |-> IF w \in s.curr_addr + 1 .. past THEN "UINT32" ELSE types[w]]
           next  == [types |-> filled, curr_addr |-> past + 1, ptr |-> s.ptr + PtrStep(op),
                     result |-> "recording"]
<1>0. s.types \in TypeRecords /\ s.curr_addr \in Nat /\ s.ptr \in Nat
  BY DEF Recorders
<1>1. types \in TypeRecords
  BY <1>0 DEF TypeRecords, Types
<1>2. past \in Nat /\ s.ptr + PtrStep(op) \in Nat
  BY <1>0, OperandCounts DEF PtrStep
<1>3. filled \in TypeRecords
  <2> HIDE DEF types, past
  <2> QED BY <1>1 DEF TypeRecords, Types
<1>4. next \in Recorders
  <2> HIDE DEF filled, past, op
  <2> QED BY <1>2, <1>3 DEF Recorders
<1>5. [s EXCEPT !.result = "undefined"] \in Recorders
  BY DEF Recorders
<1>6. [s EXCEPT !.types = types, !.result = "undefined"] \in Recorders
  <2> HIDE DEF types
  <2> QED BY <1>1 DEF Recorders
<1>7. [s EXCEPT !.types = types, !.result = "recorded"] \in Recorders
  <2> HIDE DEF types
  <2> QED BY <1>1 DEF Recorders
<1>8. [s EXCEPT !.types = types, !.result = "INVALID_OPCODE_IN_TYPEREC"] \in Recorders
  <2> HIDE DEF types
  <2> QED BY <1>1 DEF Recorders
<1>9. RecordOp(mem, s) \in {[s EXCEPT !.result = "undefined"],
                            [s EXCEPT !.types = types, !.result = "undefined"],
                            [s EXCEPT !.types = types, !.result = "recorded"],
                            [s EXCEPT !.types = types, !.result = "INVALID_OPCODE_IN_TYPEREC"],
                            next}
  <2> HIDE DEF filled
  <2>1. RecordOp(mem, s) =
            CASE s.curr_addr \notin Words \/ s.ptr \notin Words -> [s EXCEPT !.result = "undefined"]
              [] s.curr_addr \in Words /\ s.ptr \in Words /\ word = Junk ->
                    [s EXCEPT !.types = types, !.result = "undefined"]
              [] s.curr_addr \in Words /\ s.ptr \in Words /\ word # Junk ->
                    IF op \in Ends THEN [s EXCEPT !.types = types, !.result = "recorded"]
                    ELSE IF op \notin NoOperand \cup OneOperand \cup TwoOperand \cup ThreeOperand
                    THEN [s EXCEPT !.types = types, !.result = "INVALID_OPCODE_IN_TYPEREC"]
                    ELSE IF past \notin Words THEN [s EXCEPT !.result = "undefined"]
                    ELSE next
    BY DEF RecordOp, filled
  <2> HIDE DEF types, past, op, word, next
  <2> QED BY <2>1
<1> QED BY <1>4, <1>5, <1>6, <1>7, <1>8, <1>9

\* The type record of a file.
LEMMA RecordTyped ==
    ASSUME NEW mem, NEW fresh \in FreshTypes
    PROVE  typerecord_input_file(mem, fresh) \in Recorders
<1> DEFINE S == Recorders
           n == MemoryWords
           start == [types     |-> [w \in Words |-> IF w < MetadataWords THEN "UINT32" ELSE fresh],
                     curr_addr |-> MetadataWords,
                     ptr       |-> MetadataWords,
                     result    |-> "recording"]
           Step(s) == IF s.result = "recording" THEN RecordOp(mem, s) ELSE s
           F == [s \in S |-> Step(s)]
           P(g) == g = [k \in 0 .. n |-> IF k = 0 THEN start ELSE Step(g[k - 1])]
<1>1. start \in S
  <2>1. [w \in Words |-> IF w < MetadataWords THEN "UINT32" ELSE fresh] \in TypeRecords
    BY DEF TypeRecords, Types
  <2> QED BY <2>1, TypeRecordAssumption DEF Recorders
<1>2. n \in Nat
  BY TypeRecordAssumption
<1>3. \A s \in S : Step(s) \in S
  BY RecordOpTyped
<1>4. typerecord_input_file(mem, fresh) = (CHOOSE g : P(g))[n]
  BY DEF typerecord_input_file
<1> HIDE DEF start, Step, n, S
<1>5. F \in [S -> S]
  BY <1>3
<1>6. PICK f : Iterates(f, S, F, start, n)
  <2> HIDE DEF F
  <2> QED BY <1>1, <1>2, <1>5, IterationExists
<1>7. \A k \in 1 .. n : f[k] = Step(f[k - 1])
  <2> SUFFICES ASSUME NEW k \in 1 .. n PROVE f[k] = Step(f[k - 1])
    OBVIOUS
  <2>1. f[k - 1] \in S
    BY <1>2, <1>6 DEF Iterates
  <2> QED BY <1>6, <2>1 DEF Iterates
<1>8. P(f)
  <2>1. \A k \in 0 .. n : f[k] = IF k = 0 THEN start ELSE Step(f[k - 1])
    BY <1>2, <1>6, <1>7 DEF Iterates
  <2> QED BY <1>2, <1>6, <2>1 DEF Iterates
<1> DEFINE g == CHOOSE h : P(h)
<1>9. P(g)
  BY <1>8
<1> HIDE DEF g
<1>10. 0 .. n \subseteq {k \in 0 .. n : g[k] \in S}
  <2> DEFINE T == {k \in 0 .. n : g[k] \in S}
  <2>1. 0 \in T
    BY <1>1, <1>2, <1>9
  <2>2. ASSUME NEW k \in 0 .. n - 1, k \in T PROVE k + 1 \in T
    BY <1>2, <1>3, <1>9, <2>2
  <2> HIDE DEF T
  <2>3. 0 .. n \subseteq T
    BY <1>2, <2>1, <2>2, StepInduction
  <2> QED BY <2>3 DEF T
<1>11. g[n] \in S
  BY <1>2, <1>10
<1> QED BY <1>4, <1>11 DEF g, S

\* A machine with a program loaded.
LEMMA BootTyped ==
    ASSUME NEW code \in Seq(WordType), NEW start \in Nat, NEW fresh \in FreshTypes
    PROVE  Boot(code, start, fresh) \in Machines
<1> DEFINE ram == Loaded(code)
           record == typerecord_input_file(ram, fresh)
           err == CASE record.result = "recorded"  -> "none"
                    [] record.result = "undefined" -> "undefined"
                    [] OTHER                       -> "exception"
<1>1. ram \in Memories /\ record \in Recorders
  BY LoadedTyped, RecordTyped
<1>2. Boot(code, start, fresh) =
         [ram |-> ram, types |-> record.types, pc |-> start,
          wstk |-> <<>>, cstk |-> <<>>, drained |-> FALSE, loop_counter |-> 0,
          popped_uints |-> <<>>, popped_retaddrs |-> <<>>, err |-> err]
  BY DEF Boot
<1> HIDE DEF ram, record
<1>3. err \in Errors
  BY DEF Errors
<1>4. <<>> \in WorkStacks /\ <<>> \in CallStacks
  BY EmptySeq, MachineAssumption DEF WorkStacks, CallStacks
<1>5. <<>> \in Seq(WordType) /\ <<>> \in Seq(Nat)
  BY EmptySeq
<1>6. record.types \in TypeRecords
  BY <1>1 DEF Recorders
<1> HIDE DEF err
<1> QED BY <1>1, <1>2, <1>3, <1>4, <1>5, <1>6, WordTypeIsNat DEF Machines

\* That of every program.
LEMMA BootedTyped ==
    ASSUME NEW p \in Programs, NEW fresh \in FreshTypes
    PROVE  Booted[p][fresh] = Boot(p.code, p.start, fresh) /\ Booted[p][fresh] \in Machines
BY BootTyped, DebugVMAssumption DEF Booted

-----------------------------------------------------------------------------
(* TypeOK.                                                                 *)

Controls == {"build", "built", "exec_handle", "prompt", "end_menu", "exited", "crashed"}
FramesTyped == iframe_vec \in Seq(IFrames) /\ Len(iframe_vec) <= MaxFrames
PositionTyped == curr_iframe \in 0 .. Len(iframe_vec) /\ last_iframe \in 0 .. Len(iframe_vec)

\* The inductive invariant.
TypeInv ==
    /\ at \in Controls
    /\ m \in Machines
    /\ prog \in Programs
    /\ FramesTyped
    /\ PositionTyped
    /\ show_iframe_pos \in 0 .. ShortMod - 1

\* show_iframe_pos stays in its 16 bits.
LEMMA ShortRange ==
    ASSUME NEW pos \in Int
    PROVE  pos % ShortMod \in 0 .. ShortMod - 1
<1>1. \A a \in Int, n \in Nat \ {0} : a % n \in 0 .. n - 1
  OBVIOUS
<1>2. ShortMod \in Nat \ {0}
  BY DEF ShortMod
<1> QED BY <1>1, <1>2

\* TypeOK says part of it.
LEMMA TypeInvImpliesTypeOK == TypeInv => TypeOK
BY DEF TypeInv, TypeOK, Controls, FramesTyped, PositionTyped, Machines, Memories, TypeRecords,
       Types, WorkStacks, StackWord, CallStacks, Errors

\* A frame of the vector.
LEMMA FrameAt ==
    ASSUME FramesTyped, NEW i \in 1 .. Len(iframe_vec)
    PROVE  iframe_vec[i] \in IFrames
BY ElementOfSeq DEF FramesTyped

\* The number of frames.
LEMMA FrameCount ==
    ASSUME FramesTyped
    PROVE  Len(iframe_vec) \in Nat
BY LenProperties DEF FramesTyped

\* Positions after moving on.
LEMMA NextFrameTyped ==
    ASSUME FramesTyped, Len(iframe_vec') = Len(iframe_vec),
           curr_iframe \in 1 .. Len(iframe_vec), NEW last \in 0 .. Len(iframe_vec), NextFrame(last)
    PROVE  at' \in Controls /\ PositionTyped'
<1>1. Len(iframe_vec) \in Nat
  BY FrameCount
<1>2. CASE program_end_reached'
  BY <1>1, <1>2 DEF NextFrame, Controls, PositionTyped
<1>3. CASE ~program_end_reached' /\ shutdown_triggered'
  BY <1>1, <1>3 DEF NextFrame, Controls, PositionTyped
<1>4. CASE ~program_end_reached' /\ ~shutdown_triggered'
  <2>1. last_iframe' = curr_iframe - 1
    BY <1>4 DEF NextFrame
  <2>2. CASE curr_iframe = Len(iframe_vec)
    <3>1. curr_iframe' = 0 /\ at' = "crashed"
      BY <1>4, <2>2 DEF NextFrame, NULL
    <3> QED BY <1>1, <2>1, <3>1 DEF Controls, PositionTyped
  <2>3. CASE curr_iframe # Len(iframe_vec)
    <3>1. curr_iframe' = curr_iframe + 1 /\ at' = "exec_handle"
      BY <1>4, <2>3 DEF NextFrame
    <3> QED BY <1>1, <2>1, <2>3, <3>1 DEF Controls, PositionTyped
  <2> QED BY <2>2, <2>3
<1> QED BY <1>2, <1>3, <1>4

\* Executing the current frame.
LEMMA ExecuteTyped ==
    ASSUME TypeInv, PositionInv, at \in {"exec_handle", "prompt"}, Execute
    PROVE  TypeInv'
<1> DEFINE f == iframe_vec[curr_iframe]
<1>1. FramesTyped /\ m \in Machines /\ curr_iframe \in 1 .. Len(iframe_vec) /\ Len(iframe_vec) \in Nat
  BY FrameCount DEF TypeInv, PositionInv
<1>2. f \in IFrames
  BY <1>1, FrameAt
<1>3. m' \in Machines
  BY <1>1, <1>2, ExecTyped DEF Execute
<1>4. Remember(m, f) \in IFrames
  BY <1>1, <1>2, RememberTyped
<1>5. FramesTyped' /\ Len(iframe_vec') = Len(iframe_vec)
  <2>1. iframe_vec' = [iframe_vec EXCEPT ![curr_iframe] = Remember(m, f)]
    BY DEF Execute
  <2> HIDE DEF f
  <2>2. iframe_vec \in [1 .. Len(iframe_vec) -> IFrames]
    BY <1>1, LenProperties DEF FramesTyped
  <2>3. iframe_vec' \in [1 .. Len(iframe_vec) -> IFrames]
    BY <1>4, <2>1, <2>2
  <2>4. iframe_vec' \in Seq(IFrames)
    BY <1>1, <2>3, SeqDef
  <2>5. Len(iframe_vec') = Len(iframe_vec)
    BY <1>1, <2>3, <2>4, LenProperties
  <2> QED BY <1>1, <2>4, <2>5 DEF FramesTyped
<1>6. at' \in Controls /\ PositionTyped'
  <2>1. CASE UNCHANGED <<at, position>>
    BY <1>5, <2>1 DEF TypeInv, PositionTyped, position
  <2>2. CASE NextFrame(curr_iframe)
    <3>1. curr_iframe \in 0 .. Len(iframe_vec)
      BY <1>1
    <3> QED BY <1>1, <1>5, <2>2, <3>1, NextFrameTyped
  <2> QED BY <2>1, <2>2 DEF Execute
<1>7. prog' = prog /\ show_iframe_pos' = show_iframe_pos
  BY DEF Execute
<1> QED BY <1>3, <1>5, <1>6, <1>7 DEF TypeInv

\* Leaving exec_handle without executing anything.
LEMMA SkipTyped ==
    ASSUME TypeInv, PositionInv, at \in {"exec_handle", "prompt"}, Skip,
           UNCHANGED show_iframe_pos
    PROVE  TypeInv'
<1>1. FramesTyped /\ curr_iframe \in 1 .. Len(iframe_vec) /\ last_iframe \in 0 .. Len(iframe_vec)
  BY DEF TypeInv, PositionInv, PositionTyped
<1>2. m' = m /\ iframe_vec' = iframe_vec /\ prog' = prog /\ NextFrame(last_iframe)
  BY DEF Skip, frames
<1>3. at' \in Controls /\ PositionTyped'
  BY <1>1, <1>2, NextFrameTyped
<1> QED BY <1>2, <1>3 DEF TypeInv, FramesTyped

\* A step that changes the machine only, or where the menus are.
LEMMA MachineStepTyped ==
    ASSUME TypeInv, m' \in Machines, UNCHANGED <<at, frames, position>>,
           show_iframe_pos' \in 0 .. ShortMod - 1
    PROVE  TypeInv'
BY DEF TypeInv, FramesTyped, PositionTyped, frames, position

\* Building the frames.
LEMMA BuildTyped ==
    ASSUME TypeInv, BuildFrame
    PROVE  TypeInv'
<1> DEFINE op == opcode(m)
           f == NewFrame(m, op)
           error == IF Fetch(m) # "none" THEN Fetch(m)
                    ELSE IF BuildError(m, op) # "none" THEN BuildError(m, op)
                    ELSE IF AppendError(op) THEN "exception" ELSE "none"
<1>1. m \in Machines /\ FramesTyped /\ Len(iframe_vec) \in Nat /\ Len(iframe_vec) < MaxFrames
      /\ show_iframe_pos' = show_iframe_pos
  BY FrameCount DEF TypeInv, BuildFrame
<1>2. op \in Opcodes \cup {"unknown"}
  BY OpcodeKnown
<1>3. CASE error # "none"
  <2>1. error \in Errors
    <3>1. Fetch(m) \in Errors
      BY DEF Fetch, Access, Errors
    <3>2. BuildError(m, op) \in Errors
      BY <1>1, <1>2, BuildErrorTyped
    <3> QED BY <3>1, <3>2 DEF Errors
  <2>2. m' = Fail(m, error) /\ UNCHANGED <<at, frames, position>>
    BY <1>3 DEF BuildFrame, Stop
  <2>3. m' \in Machines
    BY <1>1, <2>1, <2>2, FailTyped
  <2> QED BY <1>1, <2>2, <2>3, MachineStepTyped DEF TypeInv
<1>4. CASE error = "none"
  <2>1. BuildError(m, op) = "none"
    BY <1>4 DEF Errors
  <2>2. f \in IFrames
    BY <1>1, <1>2, <2>1, NewFrameTyped
  <2>3. /\ m' = exec_iframe(m, f)
        /\ iframe_vec' = Append(iframe_vec, Remember(m, f))
        /\ at' \in {"built", "build"}
        /\ UNCHANGED <<prog, position>>
    BY <1>4 DEF BuildFrame
  <2>4. m' \in Machines /\ Remember(m, f) \in IFrames
    BY <1>1, <2>2, <2>3, ExecTyped, RememberTyped
  <2>5. iframe_vec' \in Seq(IFrames) /\ Len(iframe_vec') = Len(iframe_vec) + 1
    BY <1>1, <2>3, <2>4, AppendTyped DEF FramesTyped
  <2>6. FramesTyped'
    BY <1>1, <2>5, DebugVMAssumption DEF FramesTyped
  <2>7. PositionTyped'
    BY <1>1, <2>3, <2>5 DEF TypeInv, PositionTyped, position
  <2> QED BY <1>1, <2>3, <2>4, <2>6, <2>7 DEF TypeInv, Controls
<1> QED BY <1>3, <1>4

\* Undoing a frame.
LEMMA UndoStepTyped ==
    ASSUME TypeInv, NEW i \in 1 .. Len(iframe_vec), NEW back \in 1 .. Len(iframe_vec),
           m' = undo_exec_iframe(m, iframe_vec[i], iframe_vec[back]), curr_iframe' = back,
           at' \in Controls, UNCHANGED <<frames, last_iframe, show_iframe_pos>>
    PROVE  TypeInv'
<1>1. FramesTyped /\ m \in Machines /\ Len(iframe_vec) \in Nat
  BY FrameCount DEF TypeInv
<1>2. iframe_vec[i] \in IFrames /\ iframe_vec[back] \in IFrames
  BY <1>1, FrameAt
<1>3. m' \in Machines
  BY <1>1, <1>2, UndoTyped
<1>4. PositionTyped'
  BY <1>1 DEF TypeInv, PositionTyped, frames
<1> QED BY <1>1, <1>3, <1>4 DEF TypeInv, FramesTyped, frames

\* A reset.
LEMMA ResetTyped ==
    ASSUME TypeInv, PositionInv, at \in {"prompt", "end_menu"}, NEW pc \in Nat, ResetState(pc),
           at' \in Controls
    PROVE  TypeInv'
<1>1. FramesTyped /\ m \in Machines /\ Len(iframe_vec) \in Nat /\ prog \in Programs
      /\ curr_iframe \in 1 .. Len(iframe_vec) /\ last_iframe \in 0 .. Len(iframe_vec)
  BY FrameCount DEF TypeInv, PositionInv, PositionTyped
<1>2. PICK fresh \in FreshTypes :
          m' = [Booted[prog][fresh] EXCEPT
                   !.pc = pc,
                   !.loop_counter = m.loop_counter,
                   !.popped_uints = m.popped_uints,
                   !.popped_retaddrs = m.popped_retaddrs]
  BY DEF ResetState
<1>3. Booted[prog][fresh] \in Machines
  BY <1>1, BootedTyped
<1>4. m' \in Machines
  BY <1>1, <1>2, <1>3 DEF Machines
<1>5. curr_iframe' = 1 /\ last_iframe' = last_iframe /\ iframe_vec' = iframe_vec /\ prog' = prog
      /\ show_iframe_pos' = show_iframe_pos
  BY DEF ResetState, frames
<1>6. PositionTyped'
  BY <1>1, <1>5 DEF PositionTyped
<1> QED BY <1>1, <1>4, <1>5, <1>6 DEF TypeInv, FramesTyped

\* Showing a frame.
LEMMA ShowTyped ==
    ASSUME TypeInv, NEW pos \in Int, ShowAt(pos % ShortMod)
    PROVE  TypeInv'
<1>1. pos % ShortMod \in 0 .. ShortMod - 1
  BY ShortRange
<1>2. m' \in {m, Fail(m, "exception")}
  BY DEF ShowAt
<1>3. m' \in Machines
  BY <1>2, FailTyped DEF TypeInv, Errors
<1>4. show_iframe_pos' = pos % ShortMod /\ UNCHANGED <<at, frames, position>>
  BY DEF ShowAt
<1>5. show_iframe_pos' \in 0 .. ShortMod - 1
  BY <1>1, <1>4
<1> QED BY <1>3, <1>4, <1>5, MachineStepTyped

\* The menus' changes of memory and of the stacks.
LEMMA EditTyped ==
    ASSUME TypeInv, NEW mach \in Machines, Edit(mach)
    PROVE  TypeInv'
<1>1. m' \in Machines /\ UNCHANGED <<at, frames, position, show_iframe_pos>>
  BY DEF Edit
<1> QED BY <1>1, MachineStepTyped DEF TypeInv

\* What is changed from the menus.
LEMMA MenusTyped ==
    ASSUME TypeInv,
           RamModify \/ WstkPush \/ WstkPop \/ WstkModify \/ CstkPush \/ CstkRemove \/ CstkClear
    PROVE  TypeInv'
<1>0. m \in Machines
  BY DEF TypeInv
<1>1. CASE RamModify
  <2>1. PICK w \in EditWords, type \in {"UINT32", "INT32"}, v \in EditValues :
            Edit(set_ram(m, w, type, v))
    BY <1>1 DEF RamModify
  <2>2. set_ram(m, w, type, v) \in Machines
    BY <1>0, SetRamTyped, DebugVMAssumption
  <2> QED BY <2>1, <2>2, EditTyped
<1>2. CASE WstkPush
  <2>1. PICK type \in {"UINT32", "INT32"}, v \in EditValues : Edit(push_word(m, type, v))
    BY <1>2 DEF WstkPush
  <2>2. push_word(m, type, v) \in Machines
    BY <1>0, PushWordTyped, DebugVMAssumption
  <2> QED BY <2>1, <2>2, EditTyped
<1>3. CASE WstkPop
  <2> DEFINE z == IF Len(m.wstk) = 1 /\ Top(m).type = "INT32" THEN Fail(m, "exception")
                  ELSE [m EXCEPT !.wstk = Front(@)]
  <2>1. m.wstk # <<>> /\ Edit(z)
    BY <1>3 DEF WstkPop
  <2>2. z \in Machines
    BY <1>0, <2>1, FailTyped, FrontOfWstkTyped DEF Errors
  <2> QED BY <2>1, <2>2, EditTyped
<1>4. CASE WstkModify
  <2>1. CASE \E i \in DOMAIN m.wstk, type \in {"UINT32", "INT32"}, v \in EditValues :
                 Edit([m EXCEPT !.wstk[i] = [type |-> type, val |-> v]])
    <3>1. PICK i \in DOMAIN m.wstk, type \in {"UINT32", "INT32"}, v \in EditValues :
              Edit([m EXCEPT !.wstk[i] = [type |-> type, val |-> v]])
      BY <2>1
    <3> DEFINE w == [type |-> type, val |-> v]
               s == [m.wstk EXCEPT ![i] = w]
    <3>2. w \in StackWord
      BY DebugVMAssumption DEF StackWord
    <3>3. m.wstk \in Seq(StackWord) /\ Len(m.wstk) <= WorkWords /\ Len(m.wstk) \in Nat
      BY <1>0, MachineFields, LenProperties DEF WorkStacks
    <3>4. m.wstk \in [1 .. Len(m.wstk) -> StackWord]
      BY <3>3, LenProperties
    <3>5. s \in [1 .. Len(m.wstk) -> StackWord]
      <4> HIDE DEF w
      <4> QED BY <3>2, <3>4
    <3>6. s \in WorkStacks
      <4> HIDE DEF s
      <4>1. s \in Seq(StackWord)
        BY <3>3, <3>5, SeqDef
      <4>2. Len(s) = Len(m.wstk)
        BY <3>3, <3>5, <4>1, LenProperties
      <4> QED BY <3>3, <4>1, <4>2 DEF WorkStacks
    <3>7. [m EXCEPT !.wstk = s] \in Machines
      <4> HIDE DEF s
      <4> QED BY <1>0, <3>6, SetWstkTyped
    <3> QED BY <3>1, <3>7, EditTyped
  <2>2. CASE \E mach \in {m, Fail(m, "exception"), Fail(m, "undefined")} : Edit(mach)
    <3>1. PICK mach \in {m, Fail(m, "exception"), Fail(m, "undefined")} : Edit(mach)
      BY <2>2
    <3>2. mach \in Machines
      BY <1>0, FailTyped DEF Errors
    <3> QED BY <3>1, <3>2, EditTyped
  <2> QED BY <1>4, <2>1, <2>2 DEF WstkModify
<1>5. CASE CstkPush
  <2>1. PICK a \in EditValues : Edit(push_addr(m, a))
    BY <1>5 DEF CstkPush
  <2>2. push_addr(m, a) \in Machines
    BY <1>0, PushAddrTyped, DebugVMAssumption, WordTypeIsNat
  <2> QED BY <2>1, <2>2, EditTyped
<1>6. CASE CstkRemove
  <2>1. PICK i \in DOMAIN m.cstk : Edit(take_addr(m, i))
    BY <1>6 DEF CstkRemove
  <2>2. DOMAIN m.cstk = 1 .. Len(m.cstk)
    BY <1>0, MachineFields DEF CallStacks
  <2>3. take_addr(m, i) \in Machines
    BY <1>0, <2>1, <2>2, TakeAddrTyped
  <2> QED BY <2>1, <2>3, EditTyped
<1>7. CASE CstkClear
  <2>1. Edit([m EXCEPT !.cstk = <<>>, !.drained = FALSE])
    BY <1>7 DEF CstkClear
  <2>2. <<>> \in CallStacks
    BY EmptySeq, MachineAssumption DEF CallStacks
  <2>3. [m EXCEPT !.cstk = <<>>, !.drained = FALSE] \in Machines
    BY <1>0, <2>2, SetCstkTyped
  <2> QED BY <2>1, <2>3, EditTyped
<1> QED BY <1>1, <1>2, <1>3, <1>4, <1>5, <1>6, <1>7

\* The first run, the start of the session and what follows without the user.
LEMMA MainTyped ==
    ASSUME TypeInv, PositionInv, PositionInv', Main
    PROVE  TypeInv'
<1>0. m \in Machines /\ FramesTyped /\ Len(iframe_vec) \in Nat
  BY FrameCount DEF TypeInv
<1>1. CASE BuildFrame
  BY <1>1, BuildTyped
<1>2. CASE StartDebug
  <2>1. PICK fresh \in FreshTypes : m' = Booted[prog][fresh]
    BY <1>2 DEF StartDebug, SecondMachine
  <2>2. m' \in Machines
    BY <2>1, BootedTyped DEF TypeInv
  <2>3. /\ at = "built" /\ at' = "exec_handle" /\ curr_iframe' = 1 /\ last_iframe' = 0
        /\ UNCHANGED <<frames, show_iframe_pos>>
    BY <1>2 DEF StartDebug, NULL
  <2>4. Len(iframe_vec) > 0
    BY <2>3 DEF PositionInv
  <2>5. PositionTyped'
    BY <1>0, <2>3, <2>4 DEF PositionTyped, frames
  <2> QED BY <2>2, <2>3, <2>5 DEF TypeInv, FramesTyped, frames, Controls
<1>3. CASE ExecHandle
  <2>1. at = "exec_handle"
    BY <1>3 DEF ExecHandle
  <2>2. CASE Execute
    BY <2>1, <2>2, ExecuteTyped
  <2>3. CASE Skip /\ UNCHANGED show_iframe_pos
    BY <2>1, <2>3, SkipTyped
  <2>4. CASE Stop(Fetch(m)) /\ UNCHANGED <<at, frames, position, show_iframe_pos>>
    <3>1. Fetch(m) \in Errors
      BY DEF Fetch, Access, Errors
    <3>2. m' \in Machines
      BY <1>0, <2>4, <3>1, FailTyped DEF Stop
    <3> QED BY <2>4, <3>2, MachineStepTyped DEF TypeInv
  <2>5. CASE /\ at' = "prompt" /\ show_iframe_pos' = curr_iframe_num % ShortMod
             /\ UNCHANGED <<m, frames, position>>
    <3>1. curr_iframe \in 1 .. Len(iframe_vec) /\ curr_iframe_num = curr_iframe - 1
      BY <2>1 DEF PositionInv
    <3>2. curr_iframe_num \in Int
      BY <1>0, <3>1
    <3>3. show_iframe_pos' \in 0 .. ShortMod - 1
      BY <2>5, <3>2, ShortRange
    <3> QED BY <2>5, <3>3 DEF TypeInv, FramesTyped, PositionTyped, frames, position, Controls
  <2> QED BY <1>3, <2>2, <2>3, <2>4, <2>5 DEF ExecHandle
<1> QED BY <1>1, <1>2, <1>3 DEF Main

\* The inputs of the user.
LEMMA UserTyped ==
    ASSUME TypeInv, PositionInv, User
    PROVE  TypeInv'
<1>0. /\ m \in Machines /\ FramesTyped /\ Len(iframe_vec) \in Nat /\ prog \in Programs
      /\ at \in Controls /\ show_iframe_pos \in Int
  <2>1. m \in Machines /\ FramesTyped /\ prog \in Programs /\ at \in Controls
    BY DEF TypeInv
  <2>2. show_iframe_pos \in Int
    <3>1. ShortMod \in Int
      BY DEF ShortMod
    <3> QED BY <3>1 DEF TypeInv
  <2>3. Len(iframe_vec) \in Nat
    BY <2>1, FrameCount
  <2> QED BY <2>1, <2>2, <2>3
<1>1. CASE ExecCurrInstr
  BY <1>1, ExecuteTyped DEF ExecCurrInstr, Prompted
<1>2. CASE UndoPrevInstr
  <2> DEFINE undone == curr_iframe - 1
             back == IF undone > 1 THEN undone - 1 ELSE 1
  <2>1. /\ at = "prompt" /\ curr_iframe_num > 0
        /\ m' = undo_exec_iframe(m, iframe_vec[undone], iframe_vec[back])
        /\ curr_iframe' = back
        /\ UNCHANGED <<at, frames, last_iframe, show_iframe_pos>>
    BY <1>2 DEF UndoPrevInstr, Prompted
  <2>2. curr_iframe \in 1 .. Len(iframe_vec) /\ curr_iframe_num = curr_iframe - 1
    BY <2>1 DEF PositionInv
  <2>3. undone \in 1 .. Len(iframe_vec) /\ back \in 1 .. Len(iframe_vec)
    BY <1>0, <2>1, <2>2
  <2>4. at' \in Controls
    BY <1>0, <2>1
  <2> HIDE DEF undone, back
  <2> QED BY <2>1, <2>3, <2>4, UndoStepTyped
<1>3. CASE ExecUntilBp \/ ExecUntilEnd \/ Quit
  BY <1>3, SkipTyped DEF ExecUntilBp, ExecUntilEnd, Quit, Prompted
<1>4. CASE ShowImdLastInstr
  <2>1. m' = Fail(m, "fault") /\ UNCHANGED <<at, frames, position, show_iframe_pos>>
    BY <1>4 DEF ShowImdLastInstr, Stop
  <2>2. m' \in Machines
    BY <1>0, <2>1, FailTyped DEF Errors
  <2> QED BY <2>1, <2>2, MachineStepTyped DEF TypeInv
<1>5. CASE ShowNextInstr
  <2>1. show_iframe_pos + 1 \in Int
    BY <1>0
  <2> QED BY <1>5, <2>1, ShowTyped DEF ShowNextInstr
<1>6. CASE ShowLastInstr
  <2>1. show_iframe_pos - 1 \in Int
    BY <1>0
  <2> QED BY <1>6, <2>1, ShowTyped DEF ShowLastInstr
<1>7. CASE ShowCurrInstr
  <2>1. curr_iframe \in 1 .. Len(iframe_vec) /\ curr_iframe_num = curr_iframe - 1
    BY <1>7 DEF ShowCurrInstr, Prompted, PositionInv
  <2>2. curr_iframe_num \in Int
    BY <1>0, <2>1
  <2> QED BY <1>7, <2>2, ShowTyped DEF ShowCurrInstr
<1>8. CASE ResetDebugger
  <2>1. m.pc \in Nat
    BY <1>0, MachineFields
  <2> QED BY <1>0, <1>8, <2>1, ResetTyped DEF ResetDebugger, Prompted
<1>9. CASE RamModify \/ WstkPush \/ WstkPop \/ WstkModify \/ CstkPush \/ CstkRemove \/ CstkClear
  BY <1>9, MenusTyped
<1>10. CASE MenuQuit \/ EndQuit \/ EndShowLast
  <2>1. at' \in Controls /\ UNCHANGED <<m, frames, position, show_iframe_pos>>
    BY <1>0, <1>10 DEF MenuQuit, EndQuit, EndShowLast, Controls
  <2> QED BY <2>1 DEF TypeInv, FramesTyped, PositionTyped, frames, position
<1>11. CASE EndReset
  <2>1. prog.start \in Nat
    BY <1>0, DebugVMAssumption
  <2>2. at = "end_menu" /\ at' \in Controls /\ ResetState(prog.start)
    BY <1>11 DEF EndReset, AtEnd, Controls
  <2> QED BY <2>1, <2>2, ResetTyped
<1>12. CASE EndUndo
  <2> DEFINE back == IF curr_iframe > 1 THEN curr_iframe - 1 ELSE 1
  <2>1. /\ at = "end_menu" /\ at' \in Controls
        /\ m' = undo_exec_iframe(m, iframe_vec[curr_iframe], iframe_vec[back])
        /\ curr_iframe' = back
        /\ UNCHANGED <<frames, last_iframe, show_iframe_pos>>
    BY <1>12 DEF EndUndo, AtEnd, Controls
  <2>2. curr_iframe \in 1 .. Len(iframe_vec)
    BY <2>1 DEF PositionInv
  <2>3. back \in 1 .. Len(iframe_vec)
    BY <1>0, <2>2
  <2> HIDE DEF back
  <2> QED BY <2>1, <2>2, <2>3, UndoStepTyped
<1> QED
  BY <1>1, <1>2, <1>3, <1>4, <1>5, <1>6, <1>7, <1>8, <1>9, <1>10, <1>11, <1>12 DEF User

\* TypeInv is inductive, given where the debugger is.
LEMMA TypeInductive ==
    /\ Init => TypeInv
    /\ TypeInv /\ PositionInv /\ PositionInv' /\ [Next]_vars => TypeInv'
<1>1. Init => TypeInv
  <2> SUFFICES ASSUME Init PROVE TypeInv
    OBVIOUS
  <2>1. PICK fresh \in FreshTypes : m = Booted[prog][fresh]
    BY DEF Init
  <2>2. m \in Machines
    BY <2>1, BootedTyped DEF Init
  <2>3. iframe_vec = <<>> /\ curr_iframe = 0 /\ last_iframe = 0 /\ at = "build"
        /\ show_iframe_pos = 0 /\ prog \in Programs
    BY DEF Init, NULL
  <2>4. FramesTyped
    BY <2>3, EmptySeq, DebugVMAssumption DEF FramesTyped
  <2>5. PositionTyped
    BY <2>3, EmptySeq DEF PositionTyped
  <2>6. 0 \in 0 .. ShortMod - 1
    BY DEF ShortMod
  <2> QED BY <2>2, <2>3, <2>4, <2>5, <2>6 DEF TypeInv, Controls
<1>2. TypeInv /\ PositionInv /\ PositionInv' /\ [Next]_vars => TypeInv'
  <2> SUFFICES ASSUME TypeInv, PositionInv, PositionInv', [Next]_vars PROVE TypeInv'
    OBVIOUS
  <2>1. CASE Main
    BY <2>1, MainTyped
  <2>2. CASE User
    BY <2>2, UserTyped
  <2>3. CASE UNCHANGED vars
    BY <2>3 DEF TypeInv, FramesTyped, PositionTyped, vars, frames, position
  <2> QED BY <2>1, <2>2, <2>3 DEF Next
<1> QED BY <1>1, <1>2

\* For every program, every input and all bounds: whatever is executed, undone or
\* changed from the menus, memory, its types, the stacks within their limits and
\* the pointers to frames stay what they should be.
THEOREM TypeCorrect == Spec => []TypeOK
BY PositionInductive, TypeInductive, TypeInvImpliesTypeOK, PTL DEF Spec

-----------------------------------------------------------------------------
(* Machines that look alike.                                               *)

\* exec_iframe does not read what Remember writes.
LEMMA PrevIgnored ==
    ASSUME NEW x, NEW f \in IFrames, NEW v
    PROVE  LET g == [f EXCEPT !.prev = v]
           IN  exec_iframe(x, g) = exec_iframe(x, f) /\ g.opcode = f.opcode
<1> DEFINE g == [f EXCEPT !.prev = v]
<1>1. PICK op \in Built : f \in FrameSet(op)
  BY DEF IFrames
<1>2. g.opcode = f.opcode /\ g.oprs = f.oprs /\ g.src = f.src /\ g.dst = f.dst
      /\ g.result = f.result /\ g.taken = f.taken
  BY <1>1 DEF FrameSet
<1> HIDE DEF g
<1>3. Source(x, g) = Source(x, f)
  BY <1>2 DEF Source
<1>4. \A y : Source(y, g) = Source(y, f)
  BY <1>2 DEF Source
<1>5. \A y : WriteRam(y, g) = WriteRam(y, f)
  BY <1>2, <1>4 DEF WriteRam
<1>6. exec_iframe(x, g) = exec_iframe(x, f)
  BY <1>2, <1>5 DEF exec_iframe
<1> QED BY <1>2, <1>6 DEF g

\* Two machines that look the same and have not failed.
Agree(x, y) == Seen(x) = Seen(y) /\ x.err = "none" /\ y.err = "none"

\* What Seen shows.
LEMMA SeenFields ==
    ASSUME NEW x, NEW y, Seen(x) = Seen(y)
    PROVE  /\ x.pc = y.pc /\ x.ram = y.ram /\ x.wstk = y.wstk /\ x.cstk = y.cstk
           /\ x.loop_counter = y.loop_counter /\ x.popped_uints = y.popped_uints
<1>1. /\ Seen(x).pc = x.pc /\ Seen(x).ram = x.ram /\ Seen(x).wstk = x.wstk
      /\ Seen(x).cstk = x.cstk /\ Seen(x).loop_counter = x.loop_counter
      /\ Seen(x).popped_uints = x.popped_uints
  BY DEF Seen
<1>2. /\ Seen(y).pc = y.pc /\ Seen(y).ram = y.ram /\ Seen(y).wstk = y.wstk
      /\ Seen(y).cstk = y.cstk /\ Seen(y).loop_counter = y.loop_counter
      /\ Seen(y).popped_uints = y.popped_uints
  BY DEF Seen
<1> QED BY <1>1, <1>2

\* A machine that failed is known by err.
LEMMA FailStops ==
    ASSUME NEW x \in Machines, NEW e \in Errors \ {"none"}
    PROVE  Fail(x, e).err # "none"
BY DEF Fail, Machines

\* Pushing, where neither stack was full.
LEMMA PushWordAgrees ==
    ASSUME NEW x \in Machines, NEW y \in Machines, Agree(x, y), NEW t, NEW v,
           push_word(x, t, v).err = "none", push_word(y, t, v).err = "none"
    PROVE  Agree(push_word(x, t, v), push_word(y, t, v))
<1> DEFINE s == Append(x.wstk, [type |-> t, val |-> v])
<1>1. x.wstk = y.wstk
  BY SeenFields DEF Agree
<1>2. push_word(x, t, v) = [x EXCEPT !.wstk = s] /\ push_word(y, t, v) = [y EXCEPT !.wstk = s]
  BY <1>1, FailStops DEF Agree, push_word, Errors
<1> HIDE DEF s
<1>3. Seen([x EXCEPT !.wstk = s]) = Seen([y EXCEPT !.wstk = s])
  BY SeenFields DEF Agree, Seen, Machines
<1> QED BY <1>2, <1>3 DEF Agree

\* Popping looks at nothing else: it fails on both or on neither.
LEMMA PopToHistoryAgrees ==
    ASSUME NEW x \in Machines, NEW y \in Machines, Agree(x, y)
    PROVE  \/ Agree(PopToHistory(x), PopToHistory(y))
           \/ PopToHistory(x).err # "none" /\ PopToHistory(y).err # "none"
<1>1. x.wstk = y.wstk /\ x.popped_uints = y.popped_uints /\ Top(x) = Top(y)
  BY SeenFields DEF Agree, Top
<1>2. CASE x.wstk # <<>> /\ Top(x).type = "UINT32"
  <2> DEFINE s == Front(x.wstk)
             u == Append(x.popped_uints, Top(x).val)
  <2>1. pop_uint(x) = [x EXCEPT !.wstk = s] /\ pop_uint(y) = [y EXCEPT !.wstk = s]
    BY <1>1, <1>2 DEF pop_uint, Agree
  <2>2. pop_uint(x).err = "none" /\ pop_uint(y).err = "none"
        /\ pop_uint(x).popped_uints = x.popped_uints /\ pop_uint(y).popped_uints = x.popped_uints
    BY <1>1, <2>1 DEF Agree, Machines
  <2>3. PopToHistory(x) = [[x EXCEPT !.wstk = s] EXCEPT !.popped_uints = u]
        /\ PopToHistory(y) = [[y EXCEPT !.wstk = s] EXCEPT !.popped_uints = u]
    BY <1>1, <2>1, <2>2 DEF PopToHistory
  <2> HIDE DEF s, u
  <2>4. Seen(PopToHistory(x)) = Seen(PopToHistory(y))
    BY <2>3, SeenFields DEF Agree, Seen, Machines
  <2> QED BY <2>3, <2>4 DEF Agree, Machines
<1>3. CASE ~(x.wstk # <<>> /\ Top(x).type = "UINT32")
  <2>1. pop_uint(x) = Fail(x, "exception") /\ pop_uint(y) = Fail(y, "exception")
    BY <1>1, <1>3 DEF pop_uint, Agree
  <2> QED BY <2>1, FailStops DEF PopToHistory, Errors
<1> QED BY <1>2, <1>3

\* A pop that has failed changes nothing more.
LEMMA PopStaysFailed ==
    ASSUME NEW x, x.err # "none"
    PROVE  PopToHistory(x).err # "none"
BY DEF PopToHistory, pop_uint

\* popn: both fail, or neither.
LEMMA TimesPopAgrees ==
    ASSUME NEW x \in Machines, NEW y \in Machines, Agree(x, y), NEW n \in Nat
    PROVE  \/ Agree(Times(n, PopToHistory, x), Times(n, PopToHistory, y))
           \/ /\ Times(n, PopToHistory, x).err # "none"
              /\ Times(n, PopToHistory, y).err # "none"
<1>1. \A s \in Machines : PopToHistory(s) \in Machines
  BY PopToHistoryTyped
<1>2. PICK g : PopsFrom(g, Machines, x, n)
  BY <1>1, TimesPop
<1>3. PICK h : PopsFrom(h, Machines, y, n)
  BY <1>1, TimesPop
<1> DEFINE Same(k) == Agree(g[k], h[k]) \/ (g[k].err # "none" /\ h[k].err # "none")
           T == {k \in 0 .. n : Same(k)}
<1>4. 0 \in T
  BY <1>2, <1>3 DEF PopsFrom
<1>5. ASSUME NEW k \in 0 .. n - 1, k \in T PROVE k + 1 \in T
  <2>1. g[k] \in Machines /\ h[k] \in Machines
    BY <1>2, <1>3 DEF PopsFrom
  <2>2. g[k + 1] = PopToHistory(g[k]) /\ h[k + 1] = PopToHistory(h[k])
    BY <1>2, <1>3 DEF PopsFrom
  <2>3. Same(k + 1)
    BY <1>5, <2>1, <2>2, PopToHistoryAgrees, PopStaysFailed
  <2> QED BY <2>3
<1>6. 0 .. n \subseteq T
  <2> HIDE DEF T
  <2> QED BY <1>4, <1>5, StepInduction
<1>7. Same(n)
  BY <1>6
<1> QED BY <1>2, <1>3, <1>7 DEF PopsFrom

\* Pushing a return address, where neither stack was full.
LEMMA PushAddrAgrees ==
    ASSUME NEW x \in Machines, NEW y \in Machines, Agree(x, y), NEW a,
           push_addr(x, a).err = "none", push_addr(y, a).err = "none"
    PROVE  Agree(push_addr(x, a), push_addr(y, a))
<1> DEFINE s == Append(x.cstk, a)
<1>1. x.cstk = y.cstk
  BY SeenFields DEF Agree
<1>2. push_addr(x, a) = [x EXCEPT !.cstk = s] /\ push_addr(y, a) = [y EXCEPT !.cstk = s]
  BY <1>1, FailStops DEF Agree, push_addr, Errors
<1> HIDE DEF s
<1>3. Seen([x EXCEPT !.cstk = s]) = Seen([y EXCEPT !.cstk = s])
  BY SeenFields DEF Agree, Seen, Machines
<1> QED BY <1>2, <1>3 DEF Agree

\* Writing memory, where neither threw.
LEMMA WriteRamAgrees ==
    ASSUME NEW x \in Machines, NEW y \in Machines, Agree(x, y),
           NEW f \in IFrames, f.opcode \in RamWriters,
           WriteRam(x, f).err = "none", WriteRam(y, f).err = "none"
    PROVE  Agree(WriteRam(x, f), WriteRam(y, f))
<1>1. x.wstk = y.wstk /\ x.ram = y.ram /\ Top(x) = Top(y)
  BY SeenFields DEF Agree, Top
<1>2. Source(x, f)[2] = Source(y, f)[2]
  BY <1>1 DEF Source, RamWriters
<1>3. ASSUME NEW z \in Machines, WriteRam(z, f).err = "none"
      PROVE  f.dst \in Words /\ WriteRam(z, f) = set_ram(z, f.dst, "UINT32", Source(z, f)[2])
  <2>1. Source(z, f)[1] \in Errors
    BY ReadableError DEF Source, RamWriters, Errors
  <2>2. Readable(z, f.dst) # "exception" /\ Source(z, f)[1] = "none"
    BY <1>3, <2>1, FailStops DEF WriteRam, Errors
  <2>3. f.dst \in Words
    BY <2>2 DEF Readable, Access
  <2> QED BY <2>2, <2>3 DEF WriteRam
<1> DEFINE w == f.dst
           v == Source(x, f)[2]
<1>4. /\ w \in Words
      /\ WriteRam(x, f) = [x EXCEPT !.ram[w] = v, !.types[w] = "UINT32"]
      /\ WriteRam(y, f) = [y EXCEPT !.ram[w] = v, !.types[w] = "UINT32"]
  BY <1>2, <1>3 DEF set_ram
<1> HIDE DEF w, v
<1>5. x.ram \in Memories /\ y.ram = x.ram
  BY <1>1, MachineFields
<1> DEFINE s == [x.ram EXCEPT ![w] = v]
           t(u) == [u.types EXCEPT ![w] = "UINT32"]
<1>6. /\ WriteRam(x, f) = [x EXCEPT !.ram = s, !.types = t(x)]
      /\ WriteRam(y, f) = [y EXCEPT !.ram = s, !.types = t(y)]
  BY <1>4, <1>5 DEF Machines
<1> HIDE DEF s, t
<1>7. Seen(WriteRam(x, f)) = Seen(WriteRam(y, f))
  BY <1>6, SeenFields DEF Agree, Seen, Machines
<1> QED BY <1>7 DEF Agree

\* What executing a frame makes of two machines that agree agrees, unless one fails.
LEMMA ExecAgrees ==
    ASSUME NEW x \in Machines, NEW z \in Machines, NEW f \in IFrames, Agree(x, z),
           exec_iframe(x, f).err = "none", exec_iframe(z, f).err = "none"
    PROVE  Agree(exec_iframe(x, f), exec_iframe(z, f))
<1> DEFINE op == f.opcode
           y == Advanced(x, f)
           w == Advanced(z, f)
<1>1. y \in Machines /\ w \in Machines
  BY AdvancedTyped
<1>2. Agree(y, w)
  <2>1. Seen(y) = Seen(w)
    BY SeenFields DEF Agree, Seen, Machines, Advanced
  <2> QED BY <2>1 DEF Agree, Machines, Advanced
<1>3. op \in OneOperand => /\ Jumped(x, f) \in Machines /\ Jumped(z, f) \in Machines
                           /\ Agree(Jumped(x, f), Jumped(z, f))
                           /\ f.oprs[1] \in Nat
  <2> SUFFICES ASSUME op \in OneOperand PROVE /\ Jumped(x, f) \in Machines /\ Jumped(z, f) \in Machines
                                             /\ Agree(Jumped(x, f), Jumped(z, f))
                                             /\ f.oprs[1] \in Nat
    OBVIOUS
  <2>1. Operands(op) > 0
    BY OperandCounts
  <2>2. Jumped(x, f) \in Machines /\ Jumped(z, f) \in Machines /\ f.oprs[1] \in WordType
    BY <2>1, AdvancedTyped
  <2>3. Jumped(x, f) = [y EXCEPT !.pc = f.oprs[1]] /\ Jumped(z, f) = [w EXCEPT !.pc = f.oprs[1]]
    BY DEF Jumped
  <2> HIDE DEF y, w
  <2>4. Seen(Jumped(x, f)) = Seen(Jumped(z, f))
    BY <1>1, <1>2, <2>3, SeenFields DEF Agree, Seen, Machines
  <2> QED BY <1>1, <1>2, <2>2, <2>3, <2>4, WordTypeIsNat DEF Agree, Machines
<1>0. /\ y.pc = w.pc /\ y.ram = w.ram /\ y.wstk = w.wstk /\ y.cstk = w.cstk
      /\ y.loop_counter = w.loop_counter /\ y.popped_uints = w.popped_uints
  BY <1>2, SeenFields DEF Agree
<1> HIDE DEF y, w
<1>4. CASE op \in Ends \cup {"nop", "swtch", "nspctr", "nspctst"}
  BY <1>2, <1>4, ExecAdvances DEF y, w
<1>5. CASE op = "call"
  <2>1. exec_iframe(x, f) = push_addr(Jumped(x, f), y.pc)
        /\ exec_iframe(z, f) = push_addr(Jumped(z, f), w.pc)
    BY <1>5, ExecCall DEF y, w
  <2> QED BY <1>0, <1>3, <1>5, <2>1, PushAddrAgrees DEF OneOperand
<1>6. CASE op = "ret"
  <2>1. /\ exec_iframe(x, f) = IF y.cstk = <<>> THEN Fail(y, "exception")
                               ELSE [pop_addr(y) EXCEPT !.pc = Last(y.cstk)]
        /\ exec_iframe(z, f) = IF w.cstk = <<>> THEN Fail(w, "exception")
                               ELSE [pop_addr(w) EXCEPT !.pc = Last(w.cstk)]
    BY <1>6, ExecRet DEF y, w
  <2>2. y.cstk # <<>>
    BY <1>1, <2>1, FailStops DEF Errors
  <2> DEFINE s == RemoveAt(y.cstk, Len(y.cstk))
             d == (Len(y.cstk) = 1)
             a == Last(y.cstk)
  <2>3. /\ exec_iframe(x, f) = [[y EXCEPT !.cstk = s, !.drained = d] EXCEPT !.pc = a]
        /\ exec_iframe(z, f) = [[w EXCEPT !.cstk = s, !.drained = d] EXCEPT !.pc = a]
    BY <1>0, <2>1, <2>2 DEF pop_addr, take_addr
  <2> HIDE DEF s, d, a
  <2>4. Seen(exec_iframe(x, f)) = Seen(exec_iframe(z, f))
    BY <1>0, <1>1, <2>3 DEF Seen, Machines
  <2> QED BY <2>4 DEF Agree
<1>7. CASE op = "jmp"
  <2>1. exec_iframe(x, f) = Jumped(x, f) /\ exec_iframe(z, f) = Jumped(z, f)
    BY <1>7, ExecArms
  <2> QED BY <1>3, <1>7, <2>1 DEF OneOperand
<1>8. CASE op \in UintJumps \cup IntJumps
  <2>1. exec_iframe(x, f) = (IF f.taken THEN Jumped(x, f) ELSE y)
        /\ exec_iframe(z, f) = (IF f.taken THEN Jumped(z, f) ELSE w)
    BY <1>8, ExecJumps DEF y, w
  <2>2. op \in OneOperand
    BY <1>8 DEF OneOperand, UintJumps, IntJumps
  <2> QED BY <1>2, <1>3, <2>1, <2>2
<1>9. CASE op = "loop"
  <2>1. exec_iframe(x, f) = [y EXCEPT !.loop_counter = f.oprs[1], !.pc = f.oprs[2]]
        /\ exec_iframe(z, f) = [w EXCEPT !.loop_counter = f.oprs[1], !.pc = f.oprs[2]]
    BY <1>9, ExecLoop DEF y, w
  <2>2. Seen(exec_iframe(x, f)) = Seen(exec_iframe(z, f))
    BY <1>0, <1>1, <2>1 DEF Seen, Machines
  <2> QED BY <2>2 DEF Agree
<1>10. CASE op \in {"lcont", "lbrk"}
  <2>1. exec_iframe(x, f) = Fail(y, "fault")
    BY <1>10, ExecArms DEF y
  <2> QED BY <1>1, <2>1, FailStops DEF Errors
<1>11. CASE op = "psh"
  <2>1. exec_iframe(x, f) = push_word(y, "UINT32", f.oprs[1])
        /\ exec_iframe(z, f) = push_word(w, "UINT32", f.oprs[1])
    BY <1>11, ExecPushes DEF y, w
  <2> QED BY <1>1, <1>2, <2>1, PushWordAgrees
<1>12. CASE op \in {"pshfr", "pshfrr", "pshfrs"}
  <2>1. /\ exec_iframe(x, f) = IF Readable(y, f.src) # "none" THEN Fail(y, Readable(y, f.src))
                               ELSE push_word(y, "UINT32", get_uint(y, f.src))
        /\ exec_iframe(z, f) = IF Readable(w, f.src) # "none" THEN Fail(w, Readable(w, f.src))
                               ELSE push_word(w, "UINT32", get_uint(w, f.src))
    BY <1>12, ExecReads DEF y, w
  <2>2. Readable(y, f.src) \in Errors /\ Readable(w, f.src) \in Errors
    BY ReadableError
  <2>3. Readable(y, f.src) = "none" /\ Readable(w, f.src) = "none"
    BY <1>1, <2>1, <2>2, FailStops
  <2>4. exec_iframe(x, f) = push_word(y, "UINT32", y.ram[f.src])
        /\ exec_iframe(z, f) = push_word(w, "UINT32", y.ram[f.src])
    BY <1>0, <2>1, <2>3 DEF get_uint
  <2> QED BY <1>1, <1>2, <2>4, PushWordAgrees
<1>13. CASE op = "pop"
  <2>1. exec_iframe(x, f) = PopToHistory(y) /\ exec_iframe(z, f) = PopToHistory(w)
    BY <1>13, ExecArms DEF y, w
  <2> QED BY <1>1, <1>2, <2>1, PopToHistoryAgrees
<1>14. CASE op = "pop2"
  <2>1. exec_iframe(x, f) = PopToHistory(PopToHistory(y))
        /\ exec_iframe(z, f) = PopToHistory(PopToHistory(w))
    BY <1>14, ExecArms DEF y, w
  <2>2. Agree(PopToHistory(y), PopToHistory(w))
    BY <1>1, <1>2, <2>1, PopToHistoryAgrees, PopStaysFailed
  <2> QED BY <1>1, <2>1, <2>2, PopToHistoryAgrees, PopToHistoryTyped
<1>15. CASE op = "popn"
  <2>1. exec_iframe(x, f) = Times(f.oprs[1], PopToHistory, y)
        /\ exec_iframe(z, f) = Times(f.oprs[1], PopToHistory, w)
    BY <1>15, ExecPopn DEF y, w
  <2> QED BY <1>1, <1>2, <1>3, <1>15, <2>1, TimesPopAgrees DEF OneOperand
<1>16. CASE op \in RamWriters
  <2>1. exec_iframe(x, f) = WriteRam(y, f) /\ exec_iframe(z, f) = WriteRam(w, f)
    BY <1>16, ExecArms DEF y, w
  <2> QED BY <1>1, <1>2, <1>16, <2>1, WriteRamAgrees
<1>17. CASE op \in UintUnary \cup UintBinary
  <2>1. exec_iframe(x, f) = push_word(y, "UINT32", f.result)
        /\ exec_iframe(z, f) = push_word(w, "UINT32", f.result)
    BY <1>17, ExecPushes DEF y, w
  <2> QED BY <1>1, <1>2, <2>1, PushWordAgrees
<1>18. CASE op \in IntPushers
  <2>1. exec_iframe(x, f) = push_word(y, "INT32", f.result)
        /\ exec_iframe(z, f) = push_word(w, "INT32", f.result)
    BY <1>18, ExecPushes DEF y, w
  <2> QED BY <1>1, <1>2, <2>1, PushWordAgrees
<1>19. op \in Built
  BY FrameFields
<1> QED
  BY <1>4, <1>5, <1>6, <1>7, <1>8, <1>9, <1>10, <1>11, <1>12, <1>13, <1>14, <1>15, <1>16,
     <1>17, <1>18, <1>19, BuiltArms

\* Loading does not show what uninitialised memory held.
LEMMA BootedSeen ==
    ASSUME NEW p \in Programs, NEW a \in FreshTypes, NEW b \in FreshTypes
    PROVE  Seen(Booted[p][a]) = Seen(Booted[p][b])
<1> DEFINE x == Booted[p][a]
           y == Booted[p][b]
<1>1. x = Boot(p.code, p.start, a) /\ y = Boot(p.code, p.start, b)
  BY BootedTyped
<1>2. x.pc = y.pc /\ x.ram = y.ram /\ x.wstk = y.wstk /\ x.cstk = y.cstk
      /\ x.loop_counter = y.loop_counter /\ x.popped_uints = y.popped_uints
  BY <1>1 DEF Boot
<1> HIDE DEF x, y
<1>3. Seen(x) = Seen(y)
  BY <1>2 DEF Seen
<1> QED BY <1>3 DEF x, y

-----------------------------------------------------------------------------
(* The first run.                                                          *)

\* What the machines looked like.
Views == {Seen(x) : x \in Machines}

\* h holds the machines exec_all_IFBF had before each frame: each is what
\* executing the frame before it made of the one before, and the first one is
\* the machine after loading.
TraceInv(h) ==
    /\ h \in Seq(Machines) /\ Len(h) = Len(iframe_vec)
    /\ trace \in Seq(Views) /\ Len(trace) = Len(h)
    /\ \A i \in 1 .. Len(h) : h[i].err = "none" /\ Fetch(h[i]) = "none" /\ trace[i] = Seen(h[i])
    /\ Len(h) > 0 => \E fresh \in FreshTypes : h[1] = Booted[prog][fresh]
    /\ \A i \in 1 .. Len(h) - 1 :
          exec_iframe(h[i], iframe_vec[i]) = h[i + 1] /\ iframe_vec[i].opcode \notin Ends

\* The machine of the first run is what the last frame made of the one before
\* it; the first run goes on until an instruction that ends the program.
BuildInv(h) ==
    /\ at = "build" /\ Running =>
          /\ Len(h) = 0 => \E fresh \in FreshTypes : m = Booted[prog][fresh]
          /\ Len(h) > 0 => /\ exec_iframe(h[Len(h)], iframe_vec[Len(h)]) = m
                           /\ iframe_vec[Len(h)].opcode \notin Ends
    /\ at # "build" => Len(h) > 0 /\ iframe_vec[Len(h)].opcode \in Ends

HistoryInv == \E h : TraceInv(h) /\ BuildInv(h)

\* Once the frames are built, the only change to them is what executing the
\* current one remembers.
LEMMA StepsAfterBuild ==
    ASSUME PositionInv, at # "build", [Next]_vars
    PROVE  /\ at' # "build" /\ UNCHANGED <<prog, trace>>
           /\ \/ iframe_vec' = iframe_vec
              \/ Execute /\ at \in {"exec_handle", "prompt"}
<1>1. CASE UNCHANGED <<at, frames>>
  BY <1>1 DEF frames
<1>2. CASE Execute /\ at \in {"exec_handle", "prompt"}
  BY <1>2 DEF Execute, NextFrame
<1>3. CASE Skip
  BY <1>3 DEF Skip, NextFrame, frames
<1>4. CASE at' # "build" /\ UNCHANGED frames
  BY <1>4 DEF frames
<1>5. CASE StartDebug
  BY <1>5, <1>4 DEF StartDebug
<1>6. CASE ExecHandle
  <2>1. at = "exec_handle"
    BY <1>6 DEF ExecHandle
  <2>2. CASE Execute
    BY <2>1, <2>2, <1>2
  <2>3. CASE at' = "prompt" /\ UNCHANGED frames
    BY <2>3, <1>4
  <2> QED BY <1>1, <1>3, <1>6, <2>2, <2>3 DEF ExecHandle
<1>7. CASE ExecCurrInstr
  BY <1>7, <1>2 DEF ExecCurrInstr, Prompted
<1>8. CASE UndoPrevInstr \/ ResetDebugger
  BY <1>8, <1>1 DEF UndoPrevInstr, ResetDebugger, ResetState
<1>9. CASE ExecUntilBp \/ ExecUntilEnd \/ Quit
  BY <1>9, <1>3 DEF ExecUntilBp, ExecUntilEnd, Quit
<1>10. CASE ShowImdLastInstr \/ ShowNextInstr \/ ShowLastInstr \/ ShowCurrInstr \/ MenuQuit
  BY <1>10, <1>1 DEF ShowImdLastInstr, ShowNextInstr, ShowLastInstr, ShowCurrInstr, ShowAt, MenuQuit
<1>11. CASE RamModify \/ WstkPush \/ WstkPop \/ WstkModify \/ CstkPush \/ CstkRemove \/ CstkClear
  BY <1>11, <1>1 DEF RamModify, WstkPush, WstkPop, WstkModify, CstkPush, CstkRemove, CstkClear, Edit
<1>12. CASE EndReset \/ EndQuit \/ EndUndo \/ EndShowLast
  BY <1>12, <1>4 DEF EndReset, EndQuit, EndUndo, EndShowLast, ResetState
<1>13. CASE UNCHANGED vars
  BY <1>13, <1>1 DEF vars
<1>14. ~BuildFrame
  BY DEF BuildFrame
<1> QED
  BY <1>5, <1>6, <1>7, <1>8, <1>9, <1>10, <1>11, <1>12, <1>13, <1>14 DEF Next, Main, User

\* So the history of the first run stays that of the frames.
LEMMA TraceKept ==
    ASSUME TypeInv, PositionInv, NEW h, TraceInv(h), BuildInv(h), at # "build", [Next]_vars
    PROVE  TraceInv(h)' /\ BuildInv(h)'
<1> DEFINE n == Len(h)
           Like(g, f) == g.opcode = f.opcode /\ \A x : exec_iframe(x, g) = exec_iframe(x, f)
<1>1. at' # "build" /\ prog' = prog /\ trace' = trace
  BY StepsAfterBuild
<1>2. FramesTyped /\ n = Len(iframe_vec) /\ n \in Nat
  BY FrameCount DEF TypeInv, TraceInv
<1>3. Len(iframe_vec') = n /\ \A i \in 1 .. n : Like(iframe_vec'[i], iframe_vec[i])
  <2>1. CASE iframe_vec' = iframe_vec
    BY <1>2, <2>1
  <2>2. CASE Execute /\ at \in {"exec_handle", "prompt"}
    <3>1. curr_iframe \in 1 .. n /\ m \in Machines
      BY <1>2, <2>2 DEF PositionInv, TypeInv
    <3>2. iframe_vec[curr_iframe] \in IFrames
      BY <1>2, <3>1, FrameAt
    <3>3. PICK v : Remember(m, iframe_vec[curr_iframe]) = [iframe_vec[curr_iframe] EXCEPT !.prev = v]
      BY <3>1, <3>2, RememberTyped
    <3>4. iframe_vec' = [iframe_vec EXCEPT ![curr_iframe] = [iframe_vec[curr_iframe] EXCEPT !.prev = v]]
      BY <2>2, <3>3 DEF Execute
    <3>5. Like([iframe_vec[curr_iframe] EXCEPT !.prev = v], iframe_vec[curr_iframe])
      BY <3>2, PrevIgnored
    <3> DEFINE g == [iframe_vec[curr_iframe] EXCEPT !.prev = v]
    <3> HIDE DEF g
    <3>6. iframe_vec' = [iframe_vec EXCEPT ![curr_iframe] = g] /\ Like(g, iframe_vec[curr_iframe])
      BY <3>4, <3>5 DEF g
    <3> HIDE DEF Like
    <3>7. AreFrames(iframe_vec)
      BY DEF PositionInv
    <3>8. Len(iframe_vec') = n
      BY <1>2, <3>6, <3>7, ReplaceFrame
    <3>9. ASSUME NEW i \in 1 .. n PROVE iframe_vec'[i] = IF i = curr_iframe THEN g ELSE iframe_vec[i]
      <4>1. iframe_vec \in [1 .. n -> IFrames]
        BY <1>2, LenProperties DEF FramesTyped
      <4> QED BY <3>6, <4>1
    <3>10. \A i \in 1 .. n : Like(iframe_vec[i], iframe_vec[i])
      BY DEF Like
    <3> QED BY <3>6, <3>8, <3>9, <3>10
  <2> QED BY <2>1, <2>2, StepsAfterBuild
<1>4. \A i \in 1 .. n - 1 :
          exec_iframe(h[i], iframe_vec'[i]) = h[i + 1] /\ iframe_vec'[i].opcode \notin Ends
  <2>1. \A i \in 1 .. n - 1 : i \in 1 .. n
    BY <1>2
  <2> QED BY <1>3, <2>1 DEF TraceInv
<1>5. n > 0 /\ iframe_vec'[n].opcode \in Ends
  <2>1. n > 0 /\ n \in 1 .. n
    BY <1>2 DEF BuildInv
  <2> QED BY <1>3, <2>1 DEF BuildInv
<1> QED BY <1>1, <1>2, <1>3, <1>4, <1>5 DEF TraceInv, BuildInv

\* A frame built extends the history by the machine it was built on.
LEMMA TraceExtended ==
    ASSUME TypeInv, NEW h, TraceInv(h), BuildInv(h), at = "build", BuildFrame
    PROVE  \E g : TraceInv(g)' /\ BuildInv(g)'
<1> DEFINE op == opcode(m)
           f == NewFrame(m, op)
           error == IF Fetch(m) # "none" THEN Fetch(m)
                    ELSE IF BuildError(m, op) # "none" THEN BuildError(m, op)
                    ELSE IF AppendError(op) THEN "exception" ELSE "none"
           n == Len(h)
           r == Remember(m, f)
<1>1. /\ m \in Machines /\ FramesTyped /\ n = Len(iframe_vec) /\ n \in Nat
      /\ m.err = "none" /\ h \in Seq(Machines)
  BY FrameCount DEF TypeInv, TraceInv, BuildFrame, Running
<1>0. PICK g : g = Append(h, m)
  OBVIOUS
<1>2. CASE error # "none"
  <2>1. m' = Fail(m, error) /\ UNCHANGED <<at, frames>>
    BY <1>2 DEF BuildFrame, Stop
  <2>2. m'.err # "none"
    BY <1>1, <1>2, <2>1 DEF Fail, Machines
  <2>3. TraceInv(h)' /\ BuildInv(h)'
    BY <2>1, <2>2 DEF TraceInv, BuildInv, Running, frames
  <2> QED BY <2>3
<1>3. CASE error = "none"
  <2>1. Fetch(m) = "none" /\ BuildError(m, op) = "none"
    BY <1>3
  <2>2. f \in IFrames /\ f.opcode = op
    BY <1>1, <2>1, OpcodeKnown, NewFrameTyped
  <2>3. /\ m' = exec_iframe(m, f) /\ iframe_vec' = Append(iframe_vec, r)
        /\ trace' = Append(trace, Seen(m)) /\ prog' = prog
        /\ at' = IF op \in Ends THEN "built" ELSE "build"
    BY <1>3 DEF BuildFrame
  <2>4. r \in IFrames /\ \E v : r = [f EXCEPT !.prev = v]
    BY <1>1, <2>2, RememberTyped
  <2>5. exec_iframe(m, r) = m' /\ r.opcode = op
    <3>1. PICK v : r = [f EXCEPT !.prev = v]
      BY <2>4
    <3> HIDE DEF r, f, op
    <3> QED BY <2>2, <2>3, <3>1, PrevIgnored
  <2> HIDE DEF r, f, op
  <2>6. g \in Seq(Machines) /\ Len(g) = n + 1 /\ g[n + 1] = m /\ \A i \in 1 .. n : g[i] = h[i]
    BY <1>0, <1>1, AppendProperties
  <2>7. /\ Len(iframe_vec') = n + 1 /\ iframe_vec'[n + 1] = r
        /\ \A i \in 1 .. n : iframe_vec'[i] = iframe_vec[i]
    BY <1>1, <2>3, <2>4, AppendProperties DEF FramesTyped
  <2>8. Seen(m) \in Views
    BY <1>1 DEF Views
  <2>9. trace \in Seq(Views) /\ Len(trace) = n
    BY DEF TraceInv
  <2>10. /\ trace' \in Seq(Views) /\ Len(trace') = n + 1 /\ trace'[n + 1] = Seen(m)
         /\ \A i \in 1 .. n : trace'[i] = trace[i]
    BY <2>3, <2>8, <2>9, AppendProperties
  <2> HIDE DEF n
  <2>11. \A i \in 1 .. n + 1 : g[i].err = "none" /\ Fetch(g[i]) = "none" /\ trace'[i] = Seen(g[i])
    <3> SUFFICES ASSUME NEW i \in 1 .. n + 1
                 PROVE  g[i].err = "none" /\ Fetch(g[i]) = "none" /\ trace'[i] = Seen(g[i])
      OBVIOUS
    <3>1. CASE i \in 1 .. n
      <4>1. g[i] = h[i] /\ trace'[i] = trace[i]
        BY <2>6, <2>10, <3>1
      <4>2. h[i].err = "none" /\ Fetch(h[i]) = "none" /\ trace[i] = Seen(h[i])
        BY <3>1 DEF TraceInv, n
      <4> QED BY <4>1, <4>2
    <3>2. CASE i = n + 1
      BY <1>1, <2>1, <2>6, <2>10, <3>2
    <3> QED BY <1>1, <3>1, <3>2
  <2>12. \E fresh \in FreshTypes : g[1] = Booted[prog'][fresh]
    <3>1. CASE n = 0
      <4>1. \E fresh \in FreshTypes : m = Booted[prog][fresh]
        BY <1>1, <3>1 DEF BuildInv, Running, n
      <4>2. g[1] = m
        BY <2>6, <3>1
      <4> QED BY <2>3, <4>1, <4>2
    <3>2. CASE n > 0
      <4>1. \E fresh \in FreshTypes : h[1] = Booted[prog][fresh]
        BY <1>1, <3>2 DEF TraceInv, n
      <4>2. g[1] = h[1]
        BY <1>1, <2>6, <3>2
      <4> QED BY <2>3, <4>1, <4>2
    <3> QED BY <1>1, <3>1, <3>2
  <2>13. \A i \in 1 .. n :
            exec_iframe(g[i], iframe_vec'[i]) = g[i + 1] /\ iframe_vec'[i].opcode \notin Ends
    <3> SUFFICES ASSUME NEW i \in 1 .. n
                 PROVE  exec_iframe(g[i], iframe_vec'[i]) = g[i + 1] /\ iframe_vec'[i].opcode \notin Ends
      OBVIOUS
    <3>1. CASE i \in 1 .. n - 1
      <4>1. i + 1 \in 1 .. n
        BY <1>1, <3>1
      <4> QED BY <2>6, <2>7, <3>1, <4>1 DEF TraceInv, n
    <3>2. CASE i = n
      <4>1. n > 0
        BY <1>1, <3>2
      <4>2. exec_iframe(h[n], iframe_vec[n]) = m /\ iframe_vec[n].opcode \notin Ends
        BY <1>1, <4>1 DEF BuildInv, Running, n
      <4> QED BY <2>6, <2>7, <3>2, <4>2
    <3> QED BY <1>1, <3>1, <3>2
  <2>14. (n + 1) - 1 = n /\ n + 1 > 0
    BY <1>1
  <2>15. TraceInv(g)'
    BY <1>1, <2>6, <2>7, <2>10, <2>11, <2>12, <2>13, <2>14 DEF TraceInv
  <2>16. BuildInv(g)'
    BY <1>1, <2>3, <2>5, <2>6, <2>7, <2>14 DEF BuildInv
  <2> QED BY <2>15, <2>16
<1> QED BY <1>2, <1>3

\* The history of the first run is there from the start and after every step.
LEMMA HistoryInductive ==
    /\ Init => HistoryInv
    /\ TypeInv /\ PositionInv /\ HistoryInv /\ [Next]_vars => HistoryInv'
<1>1. Init => HistoryInv
  <2> SUFFICES ASSUME Init PROVE HistoryInv
    OBVIOUS
  <2>1. TraceInv(<<>>)
    BY EmptySeq DEF Init, TraceInv
  <2>2. BuildInv(<<>>)
    BY EmptySeq DEF Init, BuildInv
  <2> QED BY <2>1, <2>2 DEF HistoryInv
<1>2. TypeInv /\ PositionInv /\ HistoryInv /\ [Next]_vars => HistoryInv'
  <2> SUFFICES ASSUME TypeInv, PositionInv, HistoryInv, [Next]_vars PROVE HistoryInv'
    OBVIOUS
  <2>1. PICK h : TraceInv(h) /\ BuildInv(h)
    BY DEF HistoryInv
  <2>2. CASE at # "build"
    BY <2>1, <2>2, TraceKept DEF HistoryInv
  <2>3. CASE at = "build"
    <3>1. CASE BuildFrame
      BY <2>1, <2>3, <3>1, TraceExtended DEF HistoryInv
    <3>2. CASE UNCHANGED vars
      <4>1. TraceInv(h)' /\ BuildInv(h)'
        BY <2>1, <3>2 DEF TraceInv, BuildInv, Running, vars, frames
      <4> QED BY <4>1 DEF HistoryInv
    <3>3. BuildFrame \/ UNCHANGED vars
      BY <2>3 DEF Next, Main, User, StartDebug, ExecHandle, ExecCurrInstr, UndoPrevInstr,
                  ExecUntilBp, ExecUntilEnd, Quit, ShowImdLastInstr, ShowNextInstr, ShowLastInstr,
                  ShowCurrInstr, ResetDebugger, RamModify, WstkPush, WstkPop, WstkModify,
                  CstkPush, CstkRemove, CstkClear, MenuQuit, EndReset, EndQuit, EndUndo,
                  EndShowLast, Prompted, InMenu, AtEnd
    <3> QED BY <3>1, <3>2, <3>3
  <2> QED BY <2>2, <2>3
<1> QED BY <1>1, <1>2

-----------------------------------------------------------------------------
(* Executing frame after frame.                                            *)

\* The current frame is executed, looked at, or the session ended.
ReplayInputs == {"SHOW_NEXT_INSTR", "SHOW_LAST_INSTR", "SHOW_CURR_INSTR", "SHOW_IMD_LAST_INSTR",
                 "EXEC_CURR_INSTR", "MENU_QUIT", "QUIT"}

\* The session waits for the user before each frame, who only does such things.
StepByStep == Inputs \subseteq ReplayInputs /\ LockOptions \subseteq {TRUE}

\* Uninitialised memory holds the same for the first machine and the second.
SameFresh == \A a, b \in FreshTypes : a = b

\* The debugger is at what the builder had, and waits there.
ReplayLink(h) ==
    /\ exec_locked = TRUE /\ in_bp_mode = FALSE
    /\ at \in {"exec_handle", "prompt"} => ~program_end_reached
    /\ at \in {"exec_handle", "prompt"} /\ Running =>
          /\ Seen(m) = Seen(h[curr_iframe])
          /\ SameFresh => m = h[curr_iframe]

ReplayInv == \E h : TraceInv(h) /\ BuildInv(h) /\ ReplayLink(h)

\* Executing the current frame in such a session.
LEMMA ReplayExecute ==
    ASSUME TypeInv, PositionInv, NEW h, TraceInv(h), BuildInv(h), ReplayLink(h),
           at = "prompt", Running, Execute
    PROVE  /\ ReplayLink(h)'
           /\ SameFresh => m'.err = "none" /\ at' # "crashed"
<1> DEFINE c == curr_iframe
           f == iframe_vec[c]
           n == Len(h)
<1>1. /\ m \in Machines /\ FramesTyped /\ n = Len(iframe_vec) /\ n \in Nat /\ c \in 1 .. n
      /\ m.err = "none" /\ f \in IFrames
  <2>1. FramesTyped /\ c \in 1 .. Len(iframe_vec)
    BY DEF TypeInv, PositionInv
  <2> QED BY <2>1, FrameCount, FrameAt DEF TypeInv, TraceInv, Running
<1>2. h[c] \in Machines /\ h[c].err = "none" /\ Seen(m) = Seen(h[c])
      /\ (SameFresh => m = h[c])
  <2>1. h \in Seq(Machines)
    BY DEF TraceInv
  <2> QED BY <1>1, <2>1, ElementOfSeq DEF TraceInv, ReplayLink
<1>3. /\ m' = exec_iframe(m, f)
      /\ program_end_reached' = (program_end_reached \/ f.opcode \in Ends)
      /\ UNCHANGED modes /\ exec_locked' = TRUE /\ in_bp_mode' = FALSE
  BY DEF Execute, modes, ReplayLink
<1>4. /\ f.opcode \in Ends => m'.err = "none"
      /\ c < n => /\ f.opcode \notin Ends /\ c + 1 \in 1 .. n /\ exec_iframe(h[c], f) = h[c + 1]
                  /\ h[c + 1].err = "none"
      /\ c = n => f.opcode \in Ends
  <2>1. f.opcode \in Ends => m'.err = "none"
    <3>1. f.opcode \in Ends => m' = Advanced(m, f)
      BY <1>3, ExecArms
    <3> QED BY <1>1, <3>1 DEF Advanced, Machines
  <2>2. ASSUME c < n
        PROVE  /\ f.opcode \notin Ends /\ c + 1 \in 1 .. n /\ exec_iframe(h[c], f) = h[c + 1]
               /\ h[c + 1].err = "none"
    <3>1. c \in 1 .. n - 1 /\ c + 1 \in 1 .. n
      BY <1>1, <2>2
    <3> QED BY <3>1 DEF TraceInv
  <2>3. c = n => f.opcode \in Ends
    BY DEF BuildInv
  <2> QED BY <2>1, <2>2, <2>3
<1>5. CASE m'.err # "none"
  <2>1. UNCHANGED <<at, position>> /\ ~SameFresh
    <3>1. UNCHANGED <<at, position>>
      BY <1>3, <1>5 DEF Execute
    <3>2. SameFresh => m'.err = "none"
      BY <1>1, <1>2, <1>3, <1>4
    <3> QED BY <1>5, <3>1, <3>2
  <2>2. ~Running'
    BY <1>5 DEF Running
  <2>3. f.opcode \notin Ends
    BY <1>4, <1>5
  <2> QED BY <1>3, <2>1, <2>2, <2>3 DEF ReplayLink
<1>6. CASE m'.err = "none"
  <2>1. NextFrame(c)
    BY <1>3, <1>6 DEF Execute
  <2>2. CASE program_end_reached'
    <3>1. at' = "end_menu"
      BY <2>1, <2>2 DEF NextFrame
    <3> QED BY <1>3, <1>6, <3>1 DEF ReplayLink
  <2>3. CASE ~program_end_reached' /\ shutdown_triggered'
    <3>1. at' = "exited"
      BY <2>1, <2>3 DEF NextFrame
    <3> QED BY <1>3, <1>6, <3>1 DEF ReplayLink
  <2>4. CASE ~program_end_reached' /\ ~shutdown_triggered'
    <3>1. f.opcode \notin Ends
      BY <1>3, <2>4
    <3>2. c < n /\ c # Len(iframe_vec)
      BY <1>1, <1>4, <3>1
    <3>3. at' = "exec_handle" /\ curr_iframe' = c + 1
      BY <2>1, <2>4, <3>2 DEF NextFrame
    <3>4. exec_iframe(h[c], f) = h[c + 1] /\ h[c + 1].err = "none"
      BY <1>4, <3>2
    <3>5. Agree(m, h[c])
      BY <1>1, <1>2 DEF Agree
    <3>6. Agree(m', h[c + 1])
      BY <1>1, <1>2, <1>3, <1>6, <3>4, <3>5, ExecAgrees
    <3>7. SameFresh => m' = h[c + 1]
      BY <1>2, <1>3, <3>4
    <3> QED BY <1>3, <1>6, <2>4, <3>3, <3>6, <3>7 DEF ReplayLink, Agree
  <2> QED BY <2>2, <2>3, <2>4
<1> QED BY <1>5, <1>6

\* A step that leaves the position and the machine as they are, or stops the machine.
LEMMA ReplayStays ==
    ASSUME NEW h, ReplayLink(h), UNCHANGED <<position, modes, program_end_reached>>,
           \/ m' = m /\ Running
           \/ ~Running',
           at \in {"exec_handle", "prompt"}
    PROVE  ReplayLink(h)'
BY DEF ReplayLink, Running, position, modes

\* Where the session has ended, nothing is asked.
LEMMA ReplayEnded ==
    ASSUME NEW h, ReplayLink(h), UNCHANGED modes, at' \notin {"exec_handle", "prompt"}
    PROVE  ReplayLink(h)'
BY DEF ReplayLink, modes

\* Executing the current frame fails only where the memory not written differs.
LEMMA ReplayHandled ==
    ASSUME StepByStep, TypeInv, PositionInv, NEW h, TraceInv(h), BuildInv(h), ReplayLink(h), ExecHandle
    PROVE  /\ ReplayLink(h)'
           /\ SameFresh => m'.err = "none" /\ at' # "crashed"
<1>1. at = "exec_handle" /\ Running /\ exec_locked /\ WaitsForUser
  BY DEF ExecHandle, ReplayLink, WaitsForUser
<1>2. CASE Fetch(m) # "none"
  <2>1. m' = Fail(m, Fetch(m)) /\ UNCHANGED <<at, position, modes, flags>>
    BY <1>1, <1>2 DEF ExecHandle, Stop
  <2>2. ~Running'
    BY <1>1, <1>2, <2>1 DEF Running, Fail, TypeInv, Machines
  <2>3. SameFresh => FALSE
    <3>1. curr_iframe \in 1 .. Len(iframe_vec)
      BY <1>1 DEF PositionInv
    <3>2. Fetch(h[curr_iframe]) = "none"
      BY <3>1 DEF TraceInv
    <3> QED BY <1>1, <1>2, <3>2 DEF ReplayLink
  <2> QED BY <1>1, <2>1, <2>2, <2>3, ReplayStays DEF flags
<1>3. CASE Fetch(m) = "none"
  <2>1. at' = "prompt" /\ UNCHANGED <<m, position, modes, flags>>
    BY <1>1, <1>3 DEF ExecHandle
  <2> QED BY <1>1, <2>1, ReplayStays DEF flags, Running
<1> QED BY <1>2, <1>3

\* Every step of such a session keeps it on the history.
LEMMA ReplayStep ==
    ASSUME StepByStep, TypeInv, PositionInv, NEW h, TraceInv(h), BuildInv(h), ReplayLink(h),
           at # "build", [Next]_vars
    PROVE  ReplayLink(h)'
<1>1. CASE StartDebug
  <2>1. PICK fresh \in FreshTypes : m' = Booted[prog][fresh]
    BY <1>1 DEF StartDebug, SecondMachine
  <2>2. at = "built" /\ at' = "exec_handle" /\ curr_iframe' = 1 /\ ~program_end_reached'
        /\ UNCHANGED modes
    BY <1>1 DEF StartDebug
  <2>3. Len(h) > 0 /\ prog \in Programs
    BY <2>2 DEF BuildInv, TypeInv
  <2>4. PICK fresh1 \in FreshTypes : h[1] = Booted[prog][fresh1]
    BY <2>3 DEF TraceInv
  <2>5. Seen(m') = Seen(h[1])
    BY <2>1, <2>3, <2>4, BootedSeen
  <2>6. SameFresh => m' = h[1]
    BY <2>1, <2>4 DEF SameFresh
  <2> QED BY <2>2, <2>5, <2>6 DEF ReplayLink, modes
<1>2. CASE ExecHandle
  BY <1>2, ReplayHandled
<1>3. CASE ExecCurrInstr
  BY <1>3, ReplayExecute DEF ExecCurrInstr, Prompted
<1>4. CASE ShowImdLastInstr \/ ShowNextInstr \/ ShowLastInstr \/ ShowCurrInstr
  <2>1. /\ at = "prompt" /\ Running /\ UNCHANGED <<at, position, modes, flags>>
        /\ m' \in {m, Fail(m, "fault"), Fail(m, "exception")}
    BY <1>4 DEF ShowImdLastInstr, ShowNextInstr, ShowLastInstr, ShowCurrInstr, ShowAt, Prompted, Stop
  <2>2. m' = m \/ ~Running'
    BY <2>1 DEF Running, Fail, TypeInv, Machines
  <2> QED BY <2>1, <2>2, ReplayStays DEF flags
<1>5. CASE MenuQuit
  <2>1. /\ at \in {"prompt", "end_menu"} /\ Running /\ at' = at
        /\ UNCHANGED <<m, position, modes, program_end_reached>>
    BY <1>5 DEF MenuQuit, InMenu
  <2>2. CASE at = "prompt"
    BY <2>1, <2>2, ReplayStays DEF Running
  <2>3. CASE at = "end_menu"
    BY <2>1, <2>3, ReplayEnded
  <2> QED BY <2>1, <2>2, <2>3
<1>6. CASE Quit
  <2>1. shutdown_triggered' /\ Skip /\ UNCHANGED modes
    BY <1>6 DEF Quit, Prompted
  <2>2. at' \in {"end_menu", "exited"}
    BY <2>1 DEF Skip, NextFrame
  <2> QED BY <2>1, <2>2, ReplayEnded
<1>7. CASE EndQuit \/ EndShowLast
  <2>1. at' = "exited" /\ UNCHANGED modes
    BY <1>7 DEF EndQuit, EndShowLast, AtEnd
  <2> QED BY <2>1, ReplayEnded
<1>8. CASE UNCHANGED vars
  <2>1. UNCHANGED <<at, m, position, modes, program_end_reached>>
    BY <1>8 DEF vars, flags
  <2> QED BY <2>1 DEF ReplayLink, Running, position, modes
<1>9. ~BuildFrame
  BY DEF BuildFrame
<1>10. ~(\/ UndoPrevInstr \/ ExecUntilBp \/ ExecUntilEnd \/ ResetDebugger
         \/ RamModify \/ WstkPush \/ WstkPop \/ WstkModify
         \/ CstkPush \/ CstkRemove \/ CstkClear \/ EndReset \/ EndUndo)
  BY DEF StepByStep, ReplayInputs, UndoPrevInstr, ExecUntilBp, ExecUntilEnd, ResetDebugger,
         RamModify, WstkPush, WstkPop, WstkModify, CstkPush, CstkRemove, CstkClear,
         EndReset, EndUndo, Prompted, InMenu, AtEnd
<1> QED BY <1>1, <1>2, <1>3, <1>4, <1>5, <1>6, <1>7, <1>8, <1>9, <1>10 DEF Next, Main, User

\* ReplayInv is inductive, given the types and where the debugger is.
LEMMA ReplayInductive ==
    ASSUME StepByStep
    PROVE  /\ Init => ReplayInv
           /\ TypeInv /\ PositionInv /\ ReplayInv /\ [Next]_vars => ReplayInv'
<1>1. Init => ReplayInv
  <2> SUFFICES ASSUME Init PROVE ReplayInv
    OBVIOUS
  <2>1. TraceInv(<<>>) /\ BuildInv(<<>>)
    BY EmptySeq DEF Init, TraceInv, BuildInv
  <2>2. ReplayLink(<<>>)
    BY DEF Init, ReplayLink, StepByStep
  <2> QED BY <2>1, <2>2 DEF ReplayInv
<1>2. TypeInv /\ PositionInv /\ ReplayInv /\ [Next]_vars => ReplayInv'
  <2> SUFFICES ASSUME TypeInv, PositionInv, ReplayInv, [Next]_vars PROVE ReplayInv'
    OBVIOUS
  <2>1. PICK h : TraceInv(h) /\ BuildInv(h) /\ ReplayLink(h)
    BY DEF ReplayInv
  <2>2. CASE at # "build"
    BY <2>1, <2>2, TraceKept, ReplayStep DEF ReplayInv
  <2>3. CASE at = "build"
    <3>1. CASE BuildFrame
      <4>1. PICK g : TraceInv(g)' /\ BuildInv(g)'
        BY <2>1, <2>3, <3>1, TraceExtended
      <4>2. at' \in {"build", "built"} /\ UNCHANGED modes
        BY <2>3, <3>1 DEF BuildFrame
      <4>3. ReplayLink(g)'
        BY <2>1, <4>2 DEF ReplayLink, modes
      <4> QED BY <4>1, <4>3 DEF ReplayInv
    <3>2. CASE UNCHANGED vars
      <4>1. TraceInv(h)' /\ BuildInv(h)'
        BY <2>1, <3>2 DEF TraceInv, BuildInv, Running, vars, frames
      <4>2. ReplayLink(h)'
        BY <2>1, <3>2, <2>3 DEF ReplayLink, vars, modes
      <4> QED BY <4>1, <4>2 DEF ReplayInv
    <3>3. BuildFrame \/ UNCHANGED vars
      BY <2>3 DEF Next, Main, User, StartDebug, ExecHandle, ExecCurrInstr, UndoPrevInstr,
                  ExecUntilBp, ExecUntilEnd, Quit, ShowImdLastInstr, ShowNextInstr, ShowLastInstr,
                  ShowCurrInstr, ResetDebugger, RamModify, WstkPush, WstkPop, WstkModify,
                  CstkPush, CstkRemove, CstkClear, MenuQuit, EndReset, EndQuit, EndUndo,
                  EndShowLast, Prompted, InMenu, AtEnd
    <3> QED BY <3>1, <3>2, <3>3
  <2> QED BY <2>2, <2>3
<1> QED BY <1>1, <1>2

\* For every program: a session that executes frame after frame sees at each what
\* the first run saw there, whatever uninitialised memory held for either.
THEOREM ReplayMatches ==
    ASSUME StepByStep
    PROVE  Spec => []ReplayMatchesBuild
<1>1. Init => TypeInv /\ PositionInv /\ ReplayInv
  BY TypeInductive, PositionInductive, ReplayInductive
<1>2. TypeInv /\ PositionInv /\ ReplayInv /\ [Next]_vars => (TypeInv /\ PositionInv /\ ReplayInv)'
  BY PositionInductive, TypeInductive, ReplayInductive
<1>3. TypeInv /\ PositionInv /\ ReplayInv => ReplayMatchesBuild
  <2> SUFFICES ASSUME TypeInv, PositionInv, ReplayInv, at \in {"exec_handle", "prompt"}, Running
               PROVE  OnTrace
    BY DEF ReplayMatchesBuild
  <2>1. PICK h : TraceInv(h) /\ BuildInv(h) /\ ReplayLink(h)
    BY DEF ReplayInv
  <2>2. curr_iframe \in 1 .. Len(h)
    BY <2>1 DEF PositionInv, TraceInv
  <2> QED BY <2>1, <2>2 DEF TraceInv, ReplayLink, OnTrace
<1> QED BY <1>1, <1>2, <1>3, PTL DEF Spec

\* For every program: in such a session executing a frame does not throw and the
\* frames do not end before the program does, if uninitialised memory holds the
\* same types both times.
THEOREM ReplayNeverFailsHolds ==
    ASSUME StepByStep, SameFresh
    PROVE  Spec => ReplayNeverFails
<1> DEFINE Good == ExecHandle \/ ExecCurrInstr => m'.err = "none" /\ at' # "crashed"
<1>1. Init => TypeInv /\ PositionInv /\ ReplayInv
  BY TypeInductive, PositionInductive, ReplayInductive
<1>2. TypeInv /\ PositionInv /\ ReplayInv /\ [Next]_vars => (TypeInv /\ PositionInv /\ ReplayInv)'
  BY PositionInductive, TypeInductive, ReplayInductive
<1>3. TypeInv /\ PositionInv /\ ReplayInv /\ [Next]_vars => [Good]_vars
  <2> SUFFICES ASSUME TypeInv, PositionInv, ReplayInv, [Next]_vars PROVE Good
    OBVIOUS
  <2>1. PICK h : TraceInv(h) /\ BuildInv(h) /\ ReplayLink(h)
    BY DEF ReplayInv
  <2>2. CASE ExecHandle
    BY <2>1, <2>2, ReplayHandled
  <2>3. CASE ExecCurrInstr
    BY <2>1, <2>3, ReplayExecute DEF ExecCurrInstr, Prompted
  <2> QED BY <2>2, <2>3
<1> HIDE DEF Good
<1>4. Spec => [][Good]_vars
  BY <1>1, <1>2, <1>3, PTL DEF Spec
<1> QED BY <1>4 DEF ReplayNeverFails, Good

-----------------------------------------------------------------------------
(* Undoing.                                                                *)

\* A word put on a sequence and taken away again.
LEMMA FrontOfAppend ==
    ASSUME NEW S, NEW s \in Seq(S), NEW e \in S
    PROVE  Front(Append(s, e)) = s /\ Last(Append(s, e)) = e
<1> DEFINE a == Append(s, e)
           n == Len(s)
<1>1. a \in Seq(S) /\ Len(a) = n + 1 /\ n \in Nat /\ a[n + 1] = e /\ \A i \in 1 .. n : a[i] = s[i]
  BY AppendProperties, LenProperties
<1> HIDE DEF a
<1>2. SubSeq(a, 1, n) = [k \in 1 .. n |-> a[k]]
  BY <1>1, FrontIsFunction
<1>3. s = [k \in 1 .. n |-> s[k]]
  BY LenProperties
<1>4. SubSeq(a, 1, n) = s
  BY <1>1, <1>2, <1>3
<1>5. Front(a) = SubSeq(a, 1, Len(a) - 1) /\ Last(a) = a[Len(a)]
  BY DEF Front, Last
<1> QED BY <1>1, <1>4, <1>5 DEF a

\* And the other way round.
LEMMA AppendToFront ==
    ASSUME NEW S, NEW s \in Seq(S), s # <<>>
    PROVE  Append(Front(s), Last(s)) = s
<1>1. Last(s) \in S /\ Len(s) \in Nat \ {0} /\ Front(s) \in Seq(S) /\ Len(Front(s)) = Len(s) - 1
  BY LastTyped, FrontTyped
<1> DEFINE n == Len(s) - 1
           r == Front(s)
           l == Last(s)
<1>2. n \in Nat /\ Len(s) = n + 1 /\ l = s[n + 1] /\ r = [k \in 1 .. n |-> s[k]] /\ Len(r) = n
  BY <1>1, FrontIsFunction DEF Front, Last
<1>3. s = [k \in 1 .. n + 1 |-> s[k]]
  BY <1>2, LenProperties
<1> HIDE DEF r, l, n
<1>4. Append(r, l) = [k \in 1 .. n + 1 |-> IF k <= n THEN r[k] ELSE l]
  BY <1>1, <1>2, AppendIsFunction DEF r, l
<1>5. \A k \in 1 .. n + 1 : (IF k <= n THEN r[k] ELSE l) = s[k]
  BY <1>2
<1> QED BY <1>3, <1>4, <1>5 DEF r, l

\* What push_uint put on the stack is what pop_uint takes.
LEMMA PushPop ==
    ASSUME NEW x \in Machines, NEW z \in Machines, NEW v \in WordType,
           push_word(x, "UINT32", v).err = "none", z.err = "none",
           z.wstk = push_word(x, "UINT32", v).wstk
    PROVE  pop_uint(z).wstk = x.wstk
<1> DEFINE w == [type |-> "UINT32", val |-> v]
<1>1. x.err = "none" /\ Len(x.wstk) < WorkWords
  BY DEF push_word, Fail, Machines
<1>2. z.wstk = Append(x.wstk, w)
  BY <1>1 DEF push_word, Machines
<1>3. x.wstk \in Seq(StackWord) /\ w \in StackWord
  BY MachineFields DEF WorkStacks, StackWord
<1>4. w.type = "UINT32"
  OBVIOUS
<1>7. Top(z) = Last(z.wstk)
  BY DEF Top
<1> HIDE DEF w
<1>8. Front(Append(x.wstk, w)) = x.wstk /\ Last(Append(x.wstk, w)) = w
  BY <1>3, FrontOfAppend
<1>9. Append(x.wstk, w) # <<>>
  BY <1>3, AppendProperties
<1>6. z.wstk # <<>> /\ Top(z) = w /\ Front(z.wstk) = x.wstk
  BY <1>2, <1>7, <1>8, <1>9, Zenon
<1> QED BY <1>4, <1>6 DEF pop_uint, Machines

\* What pop_uint took is what push_uint gives back from the history.
LEMMA PopRepush ==
    ASSUME NEW x \in Machines, NEW z \in Machines,
           PopToHistory(x).err = "none", z.err = "none",
           z.wstk = PopToHistory(x).wstk, z.popped_uints = PopToHistory(x).popped_uints
    PROVE  /\ Repush(z) \in Machines /\ Repush(z).err = "none"
           /\ Repush(z).wstk = x.wstk /\ Repush(z).popped_uints = x.popped_uints
<1> DEFINE v == Top(x).val
           w == [type |-> "UINT32", val |-> v]
           u == Append(x.popped_uints, v)
<1>1. pop_uint(x).err = "none"
  BY DEF PopToHistory
<1>2. /\ x.err = "none" /\ x.wstk # <<>> /\ Top(x).type = "UINT32"
      /\ pop_uint(x) = [x EXCEPT !.wstk = Front(@)]
  BY <1>1, PopUintTyped DEF pop_uint, Fail, Machines
<1>3. z.wstk = Front(x.wstk) /\ z.popped_uints = u
  BY <1>1, <1>2 DEF PopToHistory, Machines
<1>4. /\ x.wstk \in Seq(StackWord) /\ Len(x.wstk) <= WorkWords /\ x.popped_uints \in Seq(WordType)
      /\ v \in WordType /\ Top(x) \in StackWord
  BY <1>2, MachineFields, TopTyped DEF WorkStacks
<1>5. Top(x) = w /\ Top(x) = Last(x.wstk)
  BY <1>2, <1>4 DEF StackWord, Top
<1> HIDE DEF v, w
<1>6. Append(Front(x.wstk), w) = x.wstk
  BY <1>2, <1>4, <1>5, AppendToFront
<1>7. Front(u) = x.popped_uints /\ Last(u) = v /\ u # <<>>
  <2>1. u # <<>>
    BY <1>4, AppendProperties
  <2> QED BY <1>4, <2>1, FrontOfAppend
<1>8. Len(z.wstk) < WorkWords
  BY <1>2, <1>3, <1>4, FrontTyped, LenProperties, MachineAssumption
<1>9. w = [type |-> "UINT32", val |-> v]
  BY DEF w
<1>10. PushFromHistory(z) = [z EXCEPT !.wstk = Append(@, w)]
  BY <1>3, <1>7, <1>8, <1>9 DEF PushFromHistory, push_word
<1> DEFINE y == PushFromHistory(z)
<1>11. y.wstk = x.wstk /\ y.popped_uints = u /\ y.err = "none"
  BY <1>3, <1>6, <1>10 DEF Machines
<1>12. y \in Machines
  BY PushFromHistoryTyped
<1> HIDE DEF y, u
<1>13. ForgetPopped(y) = [y EXCEPT !.popped_uints = x.popped_uints]
  BY <1>7, <1>11 DEF ForgetPopped
<1>14. Repush(z) = ForgetPopped(y) /\ Repush(z) \in Machines
  BY RepushTyped DEF Repush, y
<1> QED BY <1>11, <1>12, <1>13, <1>14 DEF Machines

\* What undo_exec_iframe does to the frames that only work on the stack.
LEMMA UndoArms ==
    ASSUME NEW x, NEW f, NEW c
    PROVE  LET z == [x EXCEPT !.pc = c.addr]
           IN  /\ f.opcode = "pop"  => undo_exec_iframe(x, f, c) = Repush(z)
               /\ f.opcode = "pop2" => undo_exec_iframe(x, f, c) = Repush(Repush(z))
               /\ f.opcode \in UintPushers => undo_exec_iframe(x, f, c) = pop_uint(z)
BY DEF undo_exec_iframe, UintPushers, UintUnary, UintBinary, RamWriters, IntPushers,
       IntUnary, IntBinary

\* The pushers of unsigned words push a word.
LEMMA UintPushed ==
    ASSUME NEW x \in Machines, NEW f \in IFrames, f.opcode \in UintPushers,
           exec_iframe(x, f).err = "none"
    PROVE  \E v \in WordType : exec_iframe(x, f) = push_word(Advanced(x, f), "UINT32", v)
<1> DEFINE y == Advanced(x, f)
<1>0. y \in Machines
  BY AdvancedTyped
<1> HIDE DEF y
<1>1. CASE f.opcode = "psh"
  <2>1. exec_iframe(x, f) = push_word(y, "UINT32", f.oprs[1])
    BY <1>1, ExecPushes DEF y
  <2>2. f.oprs[1] \in WordType
    <3>1. Operands(f.opcode) = 1
      BY <1>1, OperandCounts DEF OneOperand
    <3> QED BY <3>1, FrameFields
  <2> QED BY <2>1, <2>2 DEF y
<1>2. CASE f.opcode \in {"pshfr", "pshfrr", "pshfrs"}
  <2>1. exec_iframe(x, f) = IF Readable(y, f.src) # "none" THEN Fail(y, Readable(y, f.src))
                            ELSE push_word(y, "UINT32", get_uint(y, f.src))
    BY <1>2, ExecReads DEF y
  <2>2. Readable(y, f.src) = "none"
    <3>1. CASE Readable(y, f.src) # "none"
      <4>1. Fail(y, Readable(y, f.src)).err # "none"
        BY <1>0, <3>1, ReadableError, FailStops
      <4> QED BY <2>1, <3>1, <4>1
    <3> QED BY <3>1
  <2> QED BY <1>0, <2>1, <2>2, ReadableTyped DEF y
<1>3. CASE f.opcode \in UintUnary \cup UintBinary
  <2>1. exec_iframe(x, f) = push_word(y, "UINT32", f.result)
    BY <1>3, ExecPushes DEF y
  <2> QED BY <2>1, FrameFields DEF y
<1> QED BY <1>1, <1>2, <1>3 DEF UintPushers

\* pop and pop2.
LEMMA PopExecuted ==
    ASSUME NEW x, NEW f
    PROVE  /\ f.opcode = "pop"  => exec_iframe(x, f) = PopToHistory(Advanced(x, f))
           /\ f.opcode = "pop2" => exec_iframe(x, f) = PopToHistory(PopToHistory(Advanced(x, f)))
BY ExecArms

\* Undoing such an instruction gives back the stack it was executed on.
LEMMA UndoExec ==
    ASSUME NEW x \in Machines, NEW z \in Machines, NEW f \in IFrames, NEW c \in IFrames,
           f.opcode \in UintPushers \cup {"pop", "pop2"},
           exec_iframe(x, f).err = "none", z.err = "none",
           z.wstk = exec_iframe(x, f).wstk, z.popped_uints = exec_iframe(x, f).popped_uints
    PROVE  undo_exec_iframe(z, f, c).wstk = x.wstk
<1> DEFINE y == Advanced(x, f)
           d == [z EXCEPT !.pc = c.addr]
<1>1. y \in Machines /\ y.wstk = x.wstk /\ y.popped_uints = x.popped_uints
  BY AdvancedTyped DEF Advanced, Machines
<1>2. d \in Machines /\ d.wstk = z.wstk /\ d.popped_uints = z.popped_uints /\ d.err = "none"
  BY FrameFields, SetPcTyped DEF Machines
<1> HIDE DEF y, d
<1>3. CASE f.opcode = "pop"
  <2>1. exec_iframe(x, f) = PopToHistory(y) /\ undo_exec_iframe(z, f, c) = Repush(d)
    BY <1>3, PopExecuted, UndoArms DEF y, d
  <2> QED BY <1>1, <1>2, <2>1, PopRepush
<1>4. CASE f.opcode = "pop2"
  <2> DEFINE p == PopToHistory(y)
             r == Repush(d)
  <2>1. exec_iframe(x, f) = PopToHistory(p) /\ undo_exec_iframe(z, f, c) = Repush(r)
    BY <1>4, PopExecuted, UndoArms DEF y, d, p, r
  <2>2. p \in Machines
    BY <1>1, PopToHistoryTyped
  <2>3. p.err = "none"
    BY <2>1, PopStaysFailed
  <2> HIDE DEF p
  <2>4. r \in Machines /\ r.err = "none" /\ r.wstk = p.wstk /\ r.popped_uints = p.popped_uints
    BY <1>2, <2>1, <2>2, PopRepush
  <2> HIDE DEF r
  <2>5. Repush(r).wstk = y.wstk
    BY <1>1, <2>3, <2>4, PopRepush DEF p
  <2> QED BY <1>1, <2>1, <2>5
<1>5. CASE f.opcode \in UintPushers
  <2>1. undo_exec_iframe(z, f, c) = pop_uint(d)
    BY <1>5, UndoArms DEF d
  <2>3. PICK v \in WordType : exec_iframe(x, f) = push_word(y, "UINT32", v)
    BY <1>5, UintPushed DEF y
  <2>4. pop_uint(d).wstk = y.wstk
    BY <1>1, <1>2, <2>3, PushPop
  <2> QED BY <1>1, <2>1, <2>4
<1> QED BY <1>3, <1>4, <1>5

\* For every program and all inputs: undoing an instruction that only works on the
\* working stack with unsigned words gives back the stack it was executed on.
THEOREM UndoRestores == Spec => UndoRestoresWorkStack
<1> DEFINE Undone(i) ==
             (/\ UndoPrevInstr
              /\ curr_iframe = i
              /\ iframe_vec[i - 1].opcode \in UintPushers \cup {"pop", "pop2"}
              /\ m.wstk = trace[i].wstk
              /\ m.popped_uints = trace[i].popped_uints)
             => m'.wstk = trace[i - 1].wstk
           Good == \A i \in 2 .. Len(iframe_vec) : Undone(i)
<1>1. Init => TypeInv /\ PositionInv /\ HistoryInv
  BY TypeInductive, PositionInductive, HistoryInductive
<1>2. /\ TypeInv /\ PositionInv /\ HistoryInv /\ [Next]_vars
      => (TypeInv /\ PositionInv /\ HistoryInv)'
  BY PositionInductive, TypeInductive, HistoryInductive
<1>3. TypeInv /\ PositionInv /\ HistoryInv /\ [Next]_vars => [Good]_vars
  <2> SUFFICES ASSUME TypeInv, HistoryInv, NEW i \in 2 .. Len(iframe_vec),
                      UndoPrevInstr, curr_iframe = i,
                      iframe_vec[i - 1].opcode \in UintPushers \cup {"pop", "pop2"},
                      m.wstk = trace[i].wstk, m.popped_uints = trace[i].popped_uints
               PROVE  m'.wstk = trace[i - 1].wstk
    OBVIOUS
  <2>1. PICK h : TraceInv(h)
    BY DEF HistoryInv
  <2>2. m \in Machines /\ FramesTyped /\ Len(iframe_vec) \in Nat /\ Len(h) = Len(iframe_vec)
        /\ m.err = "none"
    BY <2>1, FrameCount DEF TypeInv, TraceInv, UndoPrevInstr, Prompted, Running
  <2> DEFINE j == i - 1
             b == IF j > 1 THEN j - 1 ELSE 1
             f == iframe_vec[j]
             c == iframe_vec[b]
  <2>3. /\ j \in 1 .. Len(iframe_vec) - 1 /\ j \in 1 .. Len(iframe_vec)
        /\ b \in 1 .. Len(iframe_vec) /\ j + 1 = i
    BY <2>2
  <2>4. m' = undo_exec_iframe(m, f, c)
    BY DEF UndoPrevInstr
  <2>5. f \in IFrames /\ c \in IFrames
    BY <2>2, <2>3, FrameAt
  <2>6. /\ h[i].err = "none" /\ trace[i] = Seen(h[i]) /\ trace[j] = Seen(h[j])
        /\ exec_iframe(h[j], f) = h[i]
    BY <2>1, <2>2, <2>3 DEF TraceInv
  <2>7. h[j] \in Machines
    BY <2>1, <2>2, <2>3, ElementOfSeq DEF TraceInv
  <2>8. m.wstk = h[i].wstk /\ m.popped_uints = h[i].popped_uints /\ trace[j].wstk = h[j].wstk
    BY <2>6 DEF Seen
  <2> HIDE DEF f, c, j
  <2>9. undo_exec_iframe(m, f, c).wstk = h[j].wstk
    BY <2>2, <2>5, <2>6, <2>7, <2>8, UndoExec DEF f, j
  <2> QED BY <2>4, <2>8, <2>9 DEF j
<1> HIDE DEF Good
<1>4. Spec => [][Good]_vars
  BY <1>1, <1>2, <1>3, PTL DEF Spec
<1> QED BY <1>4 DEF UndoRestoresWorkStack, Good

=============================================================================
