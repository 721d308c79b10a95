------------------------------ MODULE LifoStack ------------------------------
(***************************************************************************)
(* What a call stack promises to the virtual machine that uses it: return  *)
(* addresses come back in last-in first-out order, an entry can be taken   *)
(* out of the middle, and an operation that is refused stops the program   *)
(* with the stack as it was.                                               *)
(*                                                                         *)
(* `block' is the number of entries the stack's memory has room for.  The  *)
(* promise has two limits, and Broken says exactly where they are: an      *)
(* operation that leaves more entries than there is room for, and a push   *)
(* onto a stack whose last entry was taken out one by one (`drained').     *)
(* From there on the program is "undefined" and nothing more is said.      *)
(***************************************************************************)
EXTENDS Naturals, Sequences, SequencesExt

CONSTANTS Addr,     \* the return addresses
          Blocks,   \* the sizes of the stack's memory, in entries
          NoAddr,   \* `ret' before the first pop
          Errors    \* the exceptions an operation may end the program with

VARIABLES contents, \* the return addresses, the most recent one last
          block,    \* how many entries there is memory for
          drained,  \* the last entry was taken out, with no Clear since
          ret,      \* the address the last Pop returned
          outcome   \* "running", an exception, or "undefined"

vars == <<contents, block, drained, ret, outcome>>

Init ==
    /\ contents = <<>>
    /\ block \in Blocks
    /\ drained = FALSE
    /\ ret = NoAddr
    /\ outcome = "running"

Running == outcome = "running"

Push(a) ==
    /\ Running
    /\ Len(contents) < block
    /\ ~drained
    /\ contents' = Append(contents, a)
    /\ UNCHANGED <<block, drained, ret, outcome>>

\* What Pop and TakeOut share: there is an entry, and a note of the last one.
DropOne ==
    /\ Running
    /\ contents # <<>>
    /\ drained' = (Len(contents) = 1)
    /\ UNCHANGED <<block, outcome>>

Pop ==
    /\ DropOne
    /\ ret' = Last(contents)
    /\ contents' = Front(contents)

TakeOut(i) ==
    /\ DropOne
    /\ contents' = RemoveAt(contents, i)
    /\ UNCHANGED ret

Clear ==
    /\ Running
    /\ contents' = <<>>
    /\ drained' = FALSE
    /\ UNCHANGED <<block, ret, outcome>>

Resize(b) ==
    /\ Running
    /\ Len(contents) <= b
    /\ block' = b
    /\ UNCHANGED <<contents, drained, ret, outcome>>

\* An exception nobody catches: the program ends with the stack as it was.
Refuse(e) ==
    /\ Running
    /\ e = "CALLSTACK_EMPTY_POP" => contents = <<>>
    /\ e = "CALLSTACK_EXCEEDED_RECUR_LIMIT" => Len(contents) >= block
    /\ e = "INVALID_CALLSTACK_RECUR_MOD" => drained \/ Len(contents) > 1
    /\ outcome' = e
    /\ UNCHANGED <<contents, block, drained, ret>>

\* The two ways out of the promise: a push without room for its entry or onto
\* a drained stack, and a resize that leaves entries without room.
Break ==
    /\ Running
    /\ \/ /\ Len(contents) >= block \/ drained
          /\ UNCHANGED block
       \/ \E b \in Blocks : b < Len(contents) /\ block' = b
    /\ outcome' = "undefined"
    /\ UNCHANGED ret

Undefined == outcome = "undefined" /\ outcome' = "undefined"

Next ==
    \/ \E a \in Addr : Push(a)
    \/ Pop
    \/ \E i \in 1 .. Len(contents) : TakeOut(i)
    \/ Clear
    \/ \E b \in Blocks : Resize(b)
    \/ \E e \in Errors : Refuse(e)
    \/ Break
    \/ Undefined

Spec == Init /\ [][Next]_vars

=============================================================================
