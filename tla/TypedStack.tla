----------------------------- MODULE TypedStack ------------------------------
(***************************************************************************)
(* What the working stack promises to the virtual machine: a stack of      *)
(* words, each an unsigned or a signed integer, with room for `capacity'   *)
(* of them.  The word at the top comes back with the value it was pushed   *)
(* or last overwritten with; it can be taken as an unsigned integer only   *)
(* if it is one; an operation that is refused ends the program, and then   *)
(* nothing is said of the contents.                                        *)
(***************************************************************************)
EXTENDS Naturals, Sequences, SequencesExt

CONSTANTS Value,      \* the 32-bit words
          NoValue,    \* `ret' before the first read
          Capacities,
          Errors      \* the exceptions an operation may end the program with

VARIABLES contents,   \* the words and their types, the top one last
          capacity,   \* how many words there is memory for
          ret,        \* what the last read or pop returned
          outcome     \* "running", an exception, "overrun" or "overwritten"

vars == <<contents, capacity, ret, outcome>>

Types == {"UINT32", "INT32"}
Words == [type : Types, val : Value]

Init ==
    /\ contents = <<>>
    /\ capacity \in Capacities
    /\ ret = NoValue
    /\ outcome = "running"

Running == outcome = "running"
Top == Last(contents)

Push(w) ==
    /\ Running
    /\ Len(contents) < capacity
    /\ contents' = Append(contents, w)
    /\ UNCHANGED <<capacity, ret, outcome>>

PopUint ==
    /\ Running
    /\ contents # <<>>
    /\ Top.type = "UINT32"
    /\ ret' = Top.val
    /\ contents' = Front(contents)
    /\ UNCHANGED <<capacity, outcome>>

\* A signed word is given back too, but never the last word of the stack.
PopInt ==
    /\ Running
    /\ Len(contents) > 1
    /\ Top.type = "INT32"
    /\ ret' = Top.val
    /\ contents' = Front(contents)
    /\ UNCHANGED <<capacity, outcome>>

Discard ==
    /\ Running
    /\ contents # <<>>
    /\ Len(contents) > 1 \/ Top.type = "UINT32"
    /\ contents' = Front(contents)
    /\ UNCHANGED <<capacity, ret, outcome>>

\* Reads do not look at the type, save that of a word other than the top two.
Read(i) ==
    /\ Running
    /\ ret' = contents[i].val
    /\ UNCHANGED <<contents, capacity, outcome>>

Overwrite(i, w) ==
    /\ Running
    /\ contents' = [contents EXCEPT ![i] = w]
    /\ UNCHANGED <<capacity, ret, outcome>>

Clear ==
    /\ Running
    /\ contents' = <<>>
    /\ UNCHANGED <<capacity, ret, outcome>>

Refuse(e) ==
    /\ Running
    /\ e = "EMPTY_STACK_ACCESS" => Len(contents) < 2
    /\ e = "INVALID_ACCESS" => contents = <<>>
    /\ outcome' = e

\* The ways out of the promise: a push without room for its word, and a word
\* the user writes across the words of the stack or past its memory.
Overrun == Running /\ Len(contents) >= capacity /\ outcome' = "overrun"
WriteAcross == Running /\ outcome' = "overwritten"

Undefined == outcome \in {"overrun", "overwritten"} /\ UNCHANGED outcome

Next ==
    \/ \E w \in Words : Push(w)
    \/ PopUint
    \/ PopInt
    \/ Discard
    \/ \E i \in 1 .. Len(contents) : Read(i)
    \/ \E i \in 1 .. Len(contents), w \in Words : Overwrite(i, w)
    \/ Clear
    \/ \E e \in Errors : Refuse(e)
    \/ Overrun
    \/ WriteAcross
    \/ Undefined

Spec == Init /\ [][Next]_vars

=============================================================================
