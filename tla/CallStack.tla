------------------------------ MODULE CallStack ------------------------------
(***************************************************************************)
(* The return-address stack of the virtual machine: class CallStack in     *)
(* dvm.h, its methods in dvm.cpp.  The stack is an array of u32 cells in a *)
(* heap block, an index to the top cell, and a count of the entries.       *)
(*                                                                         *)
(* Two things of the code decide what the stack does.                      *)
(*   - malloc and realloc are given the recursion limit itself, which is a *)
(*     number of bytes to them: a limit of n entries has a block of n \div *)
(*     4 cells.  Cells past the block are someone else's memory: a write   *)
(*     there faults or is lost on the stack, a read faults or returns any  *)
(*     address.  Past FarIndex an access always faults: 2^31 cells of four *)
(*     bytes are 8 GiB above the block.                                    *)
(*   - the top index is 0 both for an empty stack and for one entry, and   *)
(*     popping the last entry decrements it to 2^32 - 1 (here WordMod - 1).*)
(*                                                                         *)
(* No caller catches what these methods throw, so an exception ends the    *)
(* program: `err' holds its name, and "fault" for an access violation.     *)
(***************************************************************************)
EXTENDS Integers

CONSTANTS Addr,      \* the return addresses pushed
          Junk,      \* the contents of a cell never written
          NoAddr,    \* `ret' before the first pop
          WordMod,   \* 2^32
          FarIndex,  \* from this cell on an access always faults
          Limits,    \* the recursion limits users ask for
          InitLimits \* those given on the command line

ASSUME LimitsAssumption ==
    /\ WordMod \in Nat /\ FarIndex \in Nat
    /\ FarIndex < WordMod
    /\ Limits \subseteq 0 .. FarIndex - 2
    /\ InitLimits \subseteq Limits \ {0}

ASSUME AddrAssumption == Addr # {} /\ Junk \notin Addr /\ NoAddr \notin Addr

VARIABLES stk,             \* the cells of the block
          curr_top_ndx, recur_level, recursion_limit,
          ret,             \* what the last pop_addr returned
          err,             \* "none", or what ended the program
          overrun          \* an entry was once kept outside the block

vars == <<stk, curr_top_ndx, recur_level, recursion_limit, ret, err, overrun>>

Errors == {"CALLSTACK_EXCEEDED_RECUR_LIMIT", "CALLSTACK_EMPTY_POP",
           "INVALID_CALLSTACK_RECUR_MOD", "AssemblerError"}

Cells(bytes) == 0 .. (bytes \div 4) - 1
InBlock(ndx) == ndx \in Cells(recursion_limit)

Init ==
    /\ recursion_limit \in InitLimits
    /\ stk = [c \in Cells(recursion_limit) |-> Junk]
    /\ curr_top_ndx = 0
    /\ recur_level = 0
    /\ ret = NoAddr
    /\ err = "none"
    /\ overrun = FALSE

-----------------------------------------------------------------------------
Throw(e) ==
    /\ err' = e
    /\ UNCHANGED <<stk, curr_top_ndx, recur_level, recursion_limit, ret, overrun>>

Fault(ndx) == ~InBlock(ndx) /\ Throw("fault")

Inc(n) == (n + 1) % WordMod

\* Variant: the index in an integer that does not wrap.
DecUnwrapped(n) == n - 1

Dec(n) == (n - 1) % WordMod

\* stk[ndx] = addr, when it does not fault.
Write(ndx, addr) ==
    \/ /\ InBlock(ndx)
       /\ stk' = [stk EXCEPT ![ndx] = addr]
       /\ UNCHANGED overrun
    \/ /\ ~InBlock(ndx) /\ ndx < FarIndex
       /\ overrun' = TRUE
       /\ UNCHANGED stk

\* Variant: the index decremented before the read.
ReadBelow(ndx) == IF InBlock(ndx - 1) THEN {stk[ndx - 1]} ELSE Addr

\* The values a read of stk[ndx] may give when it does not fault.
ReadOf(ndx) ==
    CASE InBlock(ndx)                    -> {stk[ndx]}
      [] ~InBlock(ndx) /\ ndx < FarIndex -> Addr
      [] OTHER                           -> {}

push_addr(addr) ==
    /\ err = "none"
    /\ \/ /\ curr_top_ndx = recursion_limit
          /\ Throw("CALLSTACK_EXCEEDED_RECUR_LIMIT")
       \/ /\ curr_top_ndx # recursion_limit
          /\ LET ndx == IF recur_level > 0 THEN Inc(curr_top_ndx) ELSE curr_top_ndx
             IN  \/ Fault(ndx)
                 \/ /\ Write(ndx, addr)
                    /\ curr_top_ndx' = ndx
                    /\ recur_level' = Inc(recur_level)
                    /\ UNCHANGED <<recursion_limit, ret, err>>

pop_addr ==
    /\ err = "none"
    /\ \/ recur_level = 0 /\ Throw("CALLSTACK_EMPTY_POP")
       \/ recur_level > 0 /\ Fault(curr_top_ndx)
       \/ /\ recur_level > 0
          /\ ret' \in ReadOf(curr_top_ndx)
          /\ curr_top_ndx' = Dec(curr_top_ndx)
          /\ recur_level' = recur_level - 1
          /\ UNCHANGED <<stk, recursion_limit, err, overrun>>

\* Every cell from index to the top takes the value of the one above it.
remove_addr(index) ==
    /\ err = "none"
    /\ \/ recur_level = 0 /\ Throw("CALLSTACK_EMPTY_POP")
       \/ recur_level > 0 /\ index < curr_top_ndx /\ Fault(curr_top_ndx)
       \/ /\ recur_level > 0
          /\ \E outside \in Addr :
                stk' = [c \in DOMAIN stk |->
                           IF index <= c /\ c < curr_top_ndx
                           THEN IF c + 1 \in DOMAIN stk THEN stk[c + 1] ELSE outside
                           ELSE stk[c]]
          /\ curr_top_ndx' = Dec(curr_top_ndx)
          /\ recur_level' = recur_level - 1
          /\ UNCHANGED <<recursion_limit, ret, err, overrun>>

\* Variant: the index forgotten.
ResetKeepingIndex ==
    /\ err = "none"
    /\ recur_level' = 0
    /\ UNCHANGED <<stk, curr_top_ndx, recursion_limit, ret, err, overrun>>

reset ==
    /\ err = "none"
    /\ curr_top_ndx' = 0
    /\ recur_level' = 0
    /\ UNCHANGED <<stk, recursion_limit, ret, err, overrun>>

\* realloc of 0 bytes frees the block and returns NULL; of more, it may fail.
modify_recur_limit(new) ==
    /\ err = "none"
    /\ \/ curr_top_ndx > new /\ Throw("INVALID_CALLSTACK_RECUR_MOD")
       \/ curr_top_ndx <= new /\ Throw("AssemblerError")
       \/ /\ curr_top_ndx <= new /\ new > 0
          /\ stk' = [c \in Cells(new) |-> IF c \in DOMAIN stk THEN stk[c] ELSE Junk]
          /\ recursion_limit' = new
          /\ overrun' = (overrun \/ recur_level > new \div 4)
          /\ UNCHANGED <<curr_top_ndx, recur_level, ret, err>>

Next ==
    \/ \E a \in Addr : push_addr(a)
    \/ pop_addr
    \/ \E i \in 0 .. WordMod - 1 : remove_addr(i)
    \/ reset
    \/ \E n \in Limits : modify_recur_limit(n)

Spec == Init /\ [][Next]_vars

-----------------------------------------------------------------------------
\* The types of the variables: the index is a u32, which may have wrapped, and
\* the count stays below FarIndex, however the limit is changed.
TypeOK ==
    /\ recursion_limit \in Limits \ {0}
    /\ stk \in [Cells(recursion_limit) -> Addr \cup {Junk}]
    /\ curr_top_ndx \in 0 .. WordMod - 1
    /\ recur_level \in 0 .. FarIndex - 1
    /\ ret \in Addr \cup {NoAddr, Junk}
    /\ err \in {"none", "fault"} \cup Errors
    /\ overrun \in BOOLEAN

\* The index and the count are kept apart by every method; they agree whenever
\* there is an entry, and an empty stack has its index at the bottom or wrapped.
TopTracksLevel ==
    IF recur_level > 0
    THEN curr_top_ndx = recur_level - 1 /\ curr_top_ndx <= recursion_limit
    ELSE curr_top_ndx \in {0, WordMod - 1}

Broken == overrun \/ err = "fault"

\* Until then every entry has a cell of the block, and holds an address pushed.
EntriesInBlock ==
    Broken \/ ( /\ recur_level <= recursion_limit \div 4
               /\ \A c \in 0 .. recur_level - 1 : stk[c] \in Addr )

Entries == [i \in 1 .. recur_level |-> stk[i - 1]]

Lifo == INSTANCE LifoStack WITH
    Blocks   <- {n \div 4 : n \in Limits},
    contents <- IF Broken THEN <<>> ELSE Entries,
    block    <- recursion_limit \div 4,
    drained  <- curr_top_ndx = WordMod - 1,
    outcome  <- CASE Broken -> "undefined"
                  [] ~Broken /\ err = "none" -> "running"
                  [] OTHER -> err

\* Up to the first access outside its block, push_addr, pop_addr, remove_addr,
\* reset and modify_recur_limit behave as the operations of a LIFO stack, and
\* the only ways to such an access are the two that LifoStack's Break names.
ImplementsLifo == Lifo!Spec

=============================================================================
